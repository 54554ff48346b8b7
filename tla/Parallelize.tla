---------------------------- MODULE Parallelize ----------------------------
(***************************************************************************)
(* tools.parallelize (Utility/python/tools.py): a list of tasks is worked  *)
(* off in the calling process or by a multiprocessing pool, while the      *)
(* caller polls two unsynchronised values once a second, ready() and       *)
(* _number_left, and moves a progress bar by what has gone since.  The bar *)
(* (progressiterator.py) iterates over as many elements as there are       *)
(* tasks: one step more ends the call with StopIteration, and the bar of   *)
(* no task divides by zero.                                                *)
(*                                                                         *)
(* The pool is outside the repository (Python 2.7): a worker that raises   *)
(* an exception answers with it and makes the whole map ready; a worker    *)
(* that leaves by SystemExit or is killed answers nothing and is replaced. *)
(***************************************************************************)
EXTENDS Integers, Sequences, FiniteSets

CONSTANTS
  MaxTasks,      \* bound on len(arguments_list)
  MaxProcesses,  \* bound on n_processes
  Outcomes       \* what a task may do: "return", "raise", "vanish"

VARIABLES
  tasks, processes,  \* the two numbers of this call; they never change
  caller,            \* where the calling process is
  queue,             \* tasks no worker has taken
  working,           \* worker -> the task it has, 0 if none, -1 if there is no process
  outcome,           \* task -> what became of it, "none" so far
  ready, failed, numberLeft,      \* the map result: ready(), not successful(), _number_left
  sawReady, left,    \* the caller's copies
  progress           \* current_index of the bar: the calls of its next()

call == <<tasks, processes>>
pool == <<queue, working, outcome, ready, failed, numberLeft>>
vars == <<call, caller, pool, sawReady, left, progress>>

Task == 1 .. tasks
PoolSize(n) == 1 .. (IF n < tasks THEN n ELSE IF tasks = 0 THEN 1 ELSE tasks)
Ended == {"returned", "raised", "stopped"}

Init ==
  /\ tasks \in 0 .. MaxTasks
  /\ processes \in 0 .. MaxProcesses
  /\ caller = "called"
  /\ queue = [t \in Task |-> t]
  /\ working = [w \in PoolSize(processes) |-> -1]
  /\ outcome = [t \in Task |-> "none"]
  /\ ready = FALSE /\ failed = FALSE
  /\ numberLeft = tasks
  /\ sawReady = FALSE
  /\ left = 0
  /\ progress = 0

-----------------------------------------------------------------------------
\* n_processes <= 1: one task after the other, an exception ends it at once.
Serial ==
  /\ caller = "called"
  /\ processes <= 1
  /\ \/ queue = <<>> /\ caller' = "returned" /\ UNCHANGED <<queue, outcome>>
     \/ /\ queue # <<>>
        /\ queue' = Tail(queue)
        /\ \E o \in Outcomes :
             /\ outcome' = [outcome EXCEPT ![Head(queue)] = o]
             /\ caller' = IF o = "return" THEN "called" ELSE "raised"
  /\ UNCHANGED <<call, working, ready, failed, numberLeft, sawReady, left, progress>>

\* The bar makes steps, one after the other, as far as it goes: a step divides by
\* the number of elements, and behind the last one there is none.
Index(steps) == IF progress + steps <= tasks THEN progress + steps ELSE tasks + 1
Fits(steps) == tasks > 0 /\ progress + steps <= tasks

\* The pool is started and the bar makes its first step.
LeftAtStart == tasks - 1
StartPool ==
  /\ caller = "called"
  /\ processes > 1
  /\ ready' = (tasks = 0)
  /\ working' = [w \in DOMAIN working |-> 0]
  /\ left' = LeftAtStart
  /\ progress' = Index(IF tasks > 0 THEN 1 ELSE 0)
  /\ caller' = IF Fits(1) THEN "asking" ELSE "stopped"
  /\ UNCHANGED <<call, queue, outcome, failed, numberLeft, sawReady>>

\* A worker takes the next task (chunksize 1).
Take(w) ==
  /\ working[w] = 0
  /\ queue # <<>>
  /\ working' = [working EXCEPT ![w] = Head(queue)]
  /\ queue' = Tail(queue)
  /\ UNCHANGED <<call, caller, outcome, ready, failed, numberLeft, sawReady, left, progress>>

\* A task ends.  The first exception decides the map; what comes after it is
\* not counted any more.
Finish(w, o) ==
  /\ working[w] > 0
  /\ outcome' = [outcome EXCEPT ![working[w]] = o]
  /\ working' = [working EXCEPT ![w] = 0]
  /\ IF o = "vanish" \/ failed
     THEN UNCHANGED <<ready, failed, numberLeft>>
     ELSE /\ failed' = (o = "raise")
          /\ numberLeft' = IF o = "return" THEN numberLeft - 1 ELSE numberLeft
          /\ ready' = (o = "raise" \/ numberLeft = 1)
  /\ UNCHANGED <<call, caller, queue, sawReady, left, progress>>

-----------------------------------------------------------------------------
\* ready = results.ready()
AskReady ==
  /\ caller = "asking"
  /\ sawReady' = ready
  /\ caller' = "counting"
  /\ UNCHANGED <<call, pool, left, progress>>

\* The loop ends when the results were ready.
UntilNoneLeft == IF left' = 0 THEN "getting" ELSE "asking"
Onward == IF sawReady THEN "getting" ELSE "asking"

\* remaining = results._number_left, and the steps of the bar: what has gone
\* since, which is nothing if more is left than at the last time.
Steps == IF numberLeft < left THEN left - numberLeft ELSE 0
CountLeft ==
  /\ caller = "counting"
  /\ \/ /\ sawReady \/ numberLeft < left
        /\ progress' = Index(Steps)
        /\ left' = IF Fits(Steps) THEN numberLeft ELSE left
        /\ caller' = IF Fits(Steps) THEN Onward ELSE "stopped"
     \/ ~sawReady /\ numberLeft >= left /\ UNCHANGED <<progress, left>> /\ caller' = Onward
  /\ UNCHANGED <<call, pool, sawReady>>

\* results.get: the values, or the exception of the task that failed
AnyAnswer == "joining"
Answer == IF failed THEN "raised" ELSE "joining"
Get ==
  /\ caller = "getting"
  /\ ready
  /\ caller' = Answer
  /\ UNCHANGED <<call, pool, sawReady, left, progress>>

\* pool.close() lets the workers go, pool.join() waits until they are gone.
Leave(w) ==
  /\ caller = "joining"
  /\ queue = <<>>
  /\ working[w] = 0
  /\ working' = [working EXCEPT ![w] = -1]
  /\ UNCHANGED <<call, caller, queue, outcome, ready, failed, numberLeft, sawReady, left, progress>>

Joined == \A w \in DOMAIN working : working[w] = -1
Join ==
  /\ caller = "joining"
  /\ Joined
  /\ caller' = "returned"
  /\ UNCHANGED <<call, pool, sawReady, left, progress>>

Caller == Serial \/ StartPool \/ AskReady \/ CountLeft \/ Get \/ Join
Worker(w) == Take(w) \/ Leave(w) \/ \E o \in Outcomes : Finish(w, o)
Next == Caller \/ \E w \in DOMAIN working : Worker(w)

\* The caller goes on, free workers take what is queued, and every task ends.
Fairness == WF_vars(Caller) /\ \A w \in 1 .. MaxProcesses :
                                 WF_vars(w \in DOMAIN working /\ Worker(w))

Spec == Init /\ [][Next]_vars /\ Fairness

-----------------------------------------------------------------------------
\* The bar is never asked for more steps than there are tasks (its iterator would
\* raise StopIteration out of the polling loop), whatever is counted between
\* ready() and _number_left; and when all answers came it has made all of them.
\* The call with a pool and no task is the exception: it does stop.
BarFits ==
  tasks > 0 /\ processes > 1 =>
    /\ progress <= tasks
    /\ caller \in {"joining", "returned"} => progress = tasks

\* The values are handed back only when every task returned, an exception only
\* when one failed.
AnswersAreComplete ==
  /\ caller = "returned" => \A t \in Task : outcome[t] = "return"
  /\ caller = "raised" => \E t \in Task : outcome[t] \in {"raise", "vanish"}

\* "necessary to actually terminate the processes" (tools.py:189): after a
\* successful call no process of the pool is left.
NothingRunsAfterReturn ==
  caller = "returned" => \A w \in DOMAIN working : working[w] = -1

\* Every call comes to an end unless a task vanished with its worker, for which
\* the caller polls for ever.
Over == caller \in Ended \/ \E t \in Task : outcome[t] = "vanish"
CallEnds == <>Over
=============================================================================
