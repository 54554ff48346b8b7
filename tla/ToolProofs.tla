------------------------------ MODULE ToolProofs ------------------------------
(***************************************************************************)
(* What tools.parallelize, tools.hadd, eventmatching.py and treeTools.py   *)
(* hand back can be trusted, for any number of tasks, processes, sources   *)
(* and chunks, and for any trees and branches.                             *)
(*                                                                         *)
(* The pool: AnswersAreComplete, BarFits and NothingRunsAfterReturn hold   *)
(* for any order of the workers, although the caller polls two values that *)
(* change in between.  The key is that _number_left counts the tasks that  *)
(* have not returned until one of them fails.                              *)
(*                                                                         *)
(* hadd: SuccessIsComplete, NoTemporaryLeft and TwoTemporaries hold for    *)
(* any number of deaths of the caller.  The key is what the temporary file *)
(* of the last chunk holds, and that a temporary file, be it of a call     *)
(* that died, belongs to a chunk that is not the last one.                 *)
(*                                                                         *)
(* Matching events: CommonTreesAgree, OnlyIsNotCommon, WhitelistsFit and   *)
(* DifferencesTold hold for trees of any length, each event as often as it *)
(* likes.  The key is what a comparison has counted when it stands at the  *)
(* n-th and the m-th item of two sorted lists, and that at its end every   *)
(* event has been counted as often as the list that has it least often.    *)
(*                                                                         *)
(* Trees: ColumnsAsAsked, CutAtLastWrite and TreesMerged hold for any      *)
(* program that uses an extender and mergers.  The key is that the columns *)
(* in memory are, in every turn of the loop, what has been asked for: what *)
(* a Write puts on disk is then cut at the entry it was due at, and no     *)
(* other step touches that tree while the extender is attached to it.      *)
(***************************************************************************)
EXTENDS ToolCalls, FiniteSetTheorems, NaturalsInduction, WellFoundedInduction, TLAPS

(* The pool.                                                               *)
\* What the theorems assume of the constants.
PoolConstants ==
  /\ MaxTasks \in Nat /\ MaxProcesses \in Nat
  /\ Outcomes \subseteq {"return", "raise", "vanish"}

Polling == {"asking", "counting", "getting", "joining"}
PoolTypeOK ==
  /\ tasks \in 0 .. MaxTasks /\ processes \in 0 .. MaxProcesses
  /\ caller \in Pool!Ended \cup Polling \cup {"called"}
  /\ queue \in Seq(Pool!Task)
  /\ working \in [Pool!PoolSize(processes) -> Pool!Task \cup {0, -1}]
  /\ outcome \in [Pool!Task -> {"none", "return", "raise", "vanish"}]
  /\ ready \in BOOLEAN /\ failed \in BOOLEAN /\ sawReady \in BOOLEAN
  /\ numberLeft \in 0 .. tasks
  /\ left \in -1 .. tasks /\ progress \in 0 .. tasks + 1

\* The queue holds the last of the tasks in their order.
Taken == tasks - Len(queue)
Queued == Len(queue) \in 0 .. tasks /\ \A i \in 1 .. Len(queue) : queue[i] = Taken + i

\* A task is queued, or one worker has it, or it has an outcome.
OneWorker ==
  /\ \A t \in Pool!Task : t > Taken => outcome[t] = "none"
  /\ \A w \in DOMAIN working : working[w] > 0 => working[w] <= Taken /\ outcome[working[w]] = "none"
  /\ \A v, w \in DOMAIN working : working[v] > 0 /\ working[v] = working[w] => v = w

\* Until a task fails, _number_left counts those that have not returned.
Unreturned == {t \in Pool!Task : outcome[t] # "return"}
LeftCounted ==
  processes > 1 =>
    /\ ~failed => numberLeft = Cardinality(Unreturned)
    /\ failed => numberLeft > 0 /\ \E t \in Pool!Task : outcome[t] = "raise"
    /\ ready /\ ~failed => numberLeft = 0

\* A call without a pool has no worker, and none of its tasks has failed.
InOrder ==
  /\ processes <= 1 => caller \in {"called", "returned", "raised"} /\ ~ready /\ ~failed /\ \A w \in DOMAIN working : working[w] = -1
  /\ caller = "called" => /\ ~ready /\ ~failed /\ ~sawReady /\ progress = 0 /\ numberLeft = tasks
                          /\ \A w \in DOMAIN working : working[w] = -1
                          /\ \A t \in Pool!Task : t <= Taken => outcome[t] = "return"

\* The caller's copies: what it saw was true, and the bar stands where its count says.
CopiesFit ==
  /\ sawReady => ready
  /\ processes > 1 /\ tasks > 0 => caller # "stopped"
  /\ caller \in {"asking", "counting"} => progress + left = tasks /\ left >= 0
  /\ caller \in {"getting", "joining", "returned"} /\ processes > 1 => tasks > 0 /\ ready /\ (~failed => progress = tasks)
  /\ caller \in {"joining", "returned"} => ~failed
  /\ processes > 1 /\ tasks > 0 => progress <= tasks
  /\ caller \in Polling => processes > 1 /\ tasks > 0

PoolInv == PoolTypeOK /\ Queued /\ OneWorker /\ LeftCounted /\ InOrder /\ CopiesFit /\ Pool!AnswersAreComplete /\ Pool!NothingRunsAfterReturn

-----------------------------------------------------------------------------
LEMMA TaskFinite == ASSUME tasks \in Nat PROVE IsFiniteSet(Pool!Task) /\ Cardinality(Pool!Task) = tasks
BY FS_Interval DEF Pool!Task

\* How many have not returned is a number of tasks; if it is 0, all of them have.
LEMMA UnreturnedCounts ==
  ASSUME tasks \in Nat
  PROVE  /\ IsFiniteSet(Unreturned) /\ Cardinality(Unreturned) \in 0 .. tasks
         /\ Cardinality(Unreturned) = 0 => \A t \in Pool!Task : outcome[t] = "return"
<1>1. IsFiniteSet(Unreturned) /\ Cardinality(Unreturned) <= tasks /\ Cardinality(Unreturned) \in Nat
  <2>1. Unreturned \subseteq Pool!Task
    BY DEF Unreturned
  <2> QED BY <2>1, TaskFinite, FS_Subset, FS_CardinalityType
<1>2. Cardinality(Unreturned) = 0 => Unreturned = {}
  BY <1>1, FS_EmptySet
<1> QED BY <1>1, <1>2 DEF Unreturned

LEMMA PoolInitInv == ASSUME PoolConstants PROVE Pool!Init => PoolInv
<1> SUFFICES ASSUME Pool!Init PROVE PoolInv
  OBVIOUS
<1>1. tasks \in Nat /\ processes \in Nat /\ tasks \in 0 .. MaxTasks /\ processes \in 0 .. MaxProcesses
  BY DEF PoolConstants, Pool!Init
<1>2. queue \in Seq(Pool!Task) /\ Len(queue) = tasks /\ \A i \in 1 .. tasks : queue[i] = i
  BY <1>1 DEF Pool!Init, Pool!Task
<1>3. PoolTypeOK
  <2>1. working \in [Pool!PoolSize(processes) -> Pool!Task \cup {0, -1}] /\ outcome \in [Pool!Task -> {"none", "return", "raise", "vanish"}]
    BY DEF Pool!Init
  <2>2. caller = "called" /\ ~ready /\ ~failed /\ ~sawReady /\ numberLeft = tasks /\ left = 0 /\ progress = 0
    BY DEF Pool!Init
  <2>3. ready \in BOOLEAN /\ failed \in BOOLEAN /\ sawReady \in BOOLEAN
    BY DEF Pool!Init
  <2> QED BY <1>1, <1>2, <2>1, <2>2, <2>3 DEF PoolTypeOK
<1>4. Queued /\ OneWorker
  BY <1>1, <1>2 DEF Pool!Init, Queued, OneWorker, Taken, Pool!Task
<1>5. Unreturned = Pool!Task
  BY DEF Pool!Init, Unreturned
<1>6. LeftCounted
  BY <1>1, <1>5, TaskFinite DEF Pool!Init, LeftCounted
<1>7. InOrder /\ CopiesFit
  BY <1>1, <1>2 DEF Pool!Init, InOrder, CopiesFit, Taken, Polling, Pool!Task
<1>8. Pool!AnswersAreComplete /\ Pool!NothingRunsAfterReturn
  BY DEF Pool!Init, Pool!AnswersAreComplete, Pool!NothingRunsAfterReturn
<1> QED BY <1>3, <1>4, <1>6, <1>7, <1>8 DEF PoolInv

\* A task that leaves the queue is the next of the tasks.
LEMMA NextQueued ==
  ASSUME PoolTypeOK, Queued, queue # <<>>, queue' = Tail(queue), UNCHANGED Pool!call
  PROVE  /\ Head(queue) \in Pool!Task /\ Head(queue) = Taken + 1
         /\ Taken' = Taken + 1 /\ Taken \in Nat /\ Queued' /\ queue' \in Seq(Pool!Task) /\ Pool!Task' = Pool!Task
<1>1. Len(queue) \in Nat \ {0} /\ tasks \in Nat /\ tasks' = tasks /\ Pool!Task' = Pool!Task
  BY DEF PoolTypeOK, Pool!call, Pool!Task
<1>2. Len(queue') = Len(queue) - 1 /\ \A i \in 1 .. Len(queue) - 1 : queue'[i] = queue[i + 1]
  BY <1>1 DEF PoolTypeOK
<1>3. queue' \in Seq(Pool!Task)
  BY DEF PoolTypeOK
<1>4. Head(queue) = queue[1] /\ queue[1] \in Pool!Task
  BY <1>1 DEF PoolTypeOK
<1>5. Head(queue) = Taken + 1
  BY <1>1, <1>4 DEF Queued, Taken
<1>6. Taken' = Taken + 1 /\ Taken \in Nat
  BY <1>1, <1>2 DEF Queued, Taken
<1>7. Queued'
  BY <1>1, <1>2, <1>6 DEF Queued, Taken
<1> QED BY <1>1, <1>3, <1>4, <1>5, <1>6, <1>7

LEMMA SerialInv == ASSUME PoolConstants, PoolInv, Pool!Serial PROVE PoolInv'
<1> USE DEF PoolInv
<1>1. /\ caller = "called" /\ processes <= 1 /\ tasks' = tasks /\ processes' = processes /\ working' = working /\ Pool!Task' = Pool!Task
      /\ UNCHANGED <<ready, failed, numberLeft, sawReady, left, progress, Pool!call>>
  BY DEF Pool!Serial, Pool!call, Pool!Task
<1>2. CASE queue = <<>> /\ caller' = "returned" /\ UNCHANGED <<queue, outcome>>
  <2>1. PoolTypeOK' /\ Queued' /\ OneWorker'
    BY <1>1, <1>2 DEF PoolTypeOK, Queued, OneWorker, Taken, Pool!PoolSize, Pool!Ended
  <2>2. LeftCounted' /\ InOrder' /\ CopiesFit'
    BY <1>1, <1>2 DEF LeftCounted, InOrder, CopiesFit, Polling, LeftCounted, PoolTypeOK
  <2>3. \A t \in Pool!Task : t <= Taken
    BY <1>2 DEF Taken, PoolTypeOK, Pool!Task
  <2>4. Pool!AnswersAreComplete' /\ Pool!NothingRunsAfterReturn'
    BY <1>1, <1>2, <2>3 DEF Pool!AnswersAreComplete, Pool!NothingRunsAfterReturn, InOrder
  <2> QED BY <2>1, <2>2, <2>4
<1>3. ASSUME queue # <<>>, queue' = Tail(queue), NEW o \in Outcomes, outcome' = [outcome EXCEPT ![Head(queue)] = o],
             caller' = IF o = "return" THEN "called" ELSE "raised"
      PROVE  PoolInv'
  <2>1. /\ Head(queue) \in Pool!Task /\ Head(queue) = Taken + 1
        /\ Taken' = Taken + 1 /\ Taken \in Nat /\ Queued' /\ queue' \in Seq(Pool!Task)
    BY <1>1, <1>3, NextQueued
  <2>2. o \in {"return", "raise", "vanish"} /\ caller' \in {"called", "raised"}
    BY <1>3 DEF PoolConstants
  <2>3. PoolTypeOK'
    BY <1>1, <1>3, <2>1, <2>2 DEF PoolTypeOK, Pool!PoolSize, Pool!Ended
  <2>4. \A w \in DOMAIN working : working[w] = -1
    BY <1>1 DEF InOrder
  <2>5. outcome'[Head(queue)] = o /\ \A t \in Pool!Task : t # Taken + 1 => outcome'[t] = outcome[t]
    BY <1>3, <2>1 DEF PoolTypeOK
  <2>6. OneWorker'
    BY <1>1, <2>1, <2>4, <2>5 DEF OneWorker, PoolTypeOK, Pool!Task
  <2>7. LeftCounted' /\ CopiesFit' /\ Pool!NothingRunsAfterReturn'
    BY <1>1, <2>2 DEF LeftCounted, CopiesFit, Pool!NothingRunsAfterReturn, Polling, InOrder, PoolTypeOK
  <2>8. InOrder'
    <3>1. caller' = "called" => o = "return"
      BY <1>3
    <3>2. caller' = "called" => \A t \in Pool!Task : t <= Taken + 1 => outcome'[t] = "return"
      BY <1>1, <2>1, <2>5, <3>1 DEF InOrder, Pool!Task, PoolTypeOK
    <3> QED BY <1>1, <2>1, <2>2, <2>4, <3>2 DEF InOrder
  <2>9. Pool!AnswersAreComplete'
    BY <1>1, <1>3, <2>1, <2>2, <2>5 DEF Pool!AnswersAreComplete
  <2> QED BY <2>1, <2>3, <2>6, <2>7, <2>8, <2>9
<1> QED BY <1>2, <1>3 DEF Pool!Serial

LEMMA StartPoolInv == ASSUME PoolConstants, PoolInv, Pool!StartPool PROVE PoolInv'
<1> USE DEF PoolInv
<1>1. /\ caller = "called" /\ processes > 1 /\ tasks' = tasks /\ processes' = processes /\ Pool!Task' = Pool!Task /\ Taken' = Taken
      /\ UNCHANGED <<queue, outcome, failed, numberLeft, sawReady>>
      /\ working' = [w \in DOMAIN working |-> 0] /\ ready' = (tasks = 0) /\ left' = tasks - 1
  BY DEF Pool!StartPool, Pool!call, Pool!Task, Taken, Pool!LeftAtStart
<1>2. tasks \in Nat /\ progress = 0 /\ ~ready /\ ~sawReady /\ numberLeft = tasks
  BY <1>1 DEF InOrder, PoolTypeOK, PoolConstants
<1>3. /\ tasks = 0 => caller' = "stopped" /\ progress' = 0
      /\ tasks > 0 => caller' = "asking" /\ progress' = 1
  BY <1>2 DEF Pool!StartPool, Pool!Fits, Pool!Index
<1>4. PoolTypeOK'
  BY <1>1, <1>2, <1>3 DEF PoolTypeOK, Pool!PoolSize, Pool!Ended, Polling
<1>5. Queued' /\ OneWorker' /\ Pool!NothingRunsAfterReturn'
  BY <1>1, <1>2, <1>3 DEF Queued, OneWorker, Pool!NothingRunsAfterReturn
<1>6. LeftCounted'
  BY <1>1, <1>2 DEF LeftCounted, Unreturned
<1>7. InOrder' /\ CopiesFit' /\ Pool!AnswersAreComplete'
  BY <1>1, <1>2, <1>3 DEF InOrder, CopiesFit, Pool!AnswersAreComplete, Polling, PoolTypeOK
<1> QED BY <1>4, <1>5, <1>6, <1>7 DEF Queued

LEMMA TakeInv == ASSUME PoolConstants, PoolInv, NEW w \in DOMAIN working, Pool!Take(w) PROVE PoolInv'
<1> USE DEF PoolInv
<1>1. /\ working[w] = 0 /\ queue # <<>> /\ queue' = Tail(queue) /\ Pool!Task' = Pool!Task
      /\ working' = [working EXCEPT ![w] = Head(queue)]
      /\ UNCHANGED <<Pool!call, tasks, processes, caller, outcome, ready, failed, numberLeft, sawReady, left, progress>>
  BY DEF Pool!Take, Pool!call, Pool!Task
<1>2. /\ Head(queue) \in Pool!Task /\ Head(queue) = Taken + 1
      /\ Taken' = Taken + 1 /\ Taken \in Nat /\ Queued' /\ queue' \in Seq(Pool!Task)
  BY <1>1, NextQueued
<1>3. working'[w] = Head(queue) /\ \A v \in DOMAIN working : v # w => working'[v] = working[v]
  BY <1>1 DEF PoolTypeOK
<1>4. DOMAIN working' = DOMAIN working /\ working' \in [Pool!PoolSize(processes) -> Pool!Task \cup {0, -1}]
  BY <1>1, <1>2 DEF PoolTypeOK
<1>5. PoolTypeOK'
  BY <1>1, <1>2, <1>4 DEF PoolTypeOK, Pool!PoolSize
<1>6. \A v \in DOMAIN working : working[v] \in Int
  BY DEF PoolTypeOK, Pool!Task
<1>7. OneWorker'
  <2>1. \A t \in Pool!Task : t > Taken' => outcome'[t] = "none"
    BY <1>1, <1>2 DEF OneWorker, Pool!Task, PoolTypeOK
  <2>2. \A v \in DOMAIN working : working'[v] > 0 => working'[v] <= Taken' /\ outcome'[working'[v]] = "none"
    BY <1>1, <1>2, <1>3, <1>6 DEF OneWorker, Pool!Task, PoolTypeOK
  <2>3. \A u, v \in DOMAIN working : working'[u] > 0 /\ working'[u] = working'[v] => u = v
    BY <1>1, <1>2, <1>3, <1>6 DEF OneWorker
  <2> QED BY <1>1, <1>4, <2>1, <2>2, <2>3 DEF OneWorker
<1>8. LeftCounted' /\ CopiesFit' /\ Pool!AnswersAreComplete'
  BY <1>1 DEF LeftCounted, Unreturned, CopiesFit, Pool!AnswersAreComplete
<1>9. InOrder' /\ Pool!NothingRunsAfterReturn'
  <2>1. caller # "called" /\ caller # "returned" /\ ~(processes <= 1)
    BY <1>1 DEF InOrder, Pool!NothingRunsAfterReturn
  <2> QED BY <1>1, <2>1 DEF InOrder, Pool!NothingRunsAfterReturn
<1> QED BY <1>2, <1>5, <1>7, <1>8, <1>9

LEMMA FinishInv == ASSUME PoolConstants, PoolInv, NEW w \in DOMAIN working, NEW o \in Outcomes, Pool!Finish(w, o) PROVE PoolInv'
<1> USE DEF PoolInv
<1> DEFINE t == working[w]
<1>1. /\ t > 0 /\ outcome' = [outcome EXCEPT ![t] = o] /\ working' = [working EXCEPT ![w] = 0] /\ Pool!Task' = Pool!Task /\ Taken' = Taken
      /\ UNCHANGED <<Pool!call, tasks, processes, caller, queue, sawReady, left, progress>>
  BY DEF Pool!Finish, Pool!call, Pool!Task, Taken
<1>2. t \in Pool!Task /\ t <= Taken /\ outcome[t] = "none" /\ o \in {"return", "raise", "vanish"}
  BY <1>1 DEF PoolTypeOK, Pool!Task, OneWorker, PoolConstants
<1>3. processes > 1 /\ caller # "called" /\ caller # "returned"
  BY <1>1 DEF InOrder, Pool!NothingRunsAfterReturn, PoolTypeOK, PoolConstants
<1>4. outcome'[t] = o /\ \A u \in Pool!Task : u # t => outcome'[u] = outcome[u]
  BY <1>1, <1>2 DEF PoolTypeOK
<1>5. working'[w] = 0 /\ DOMAIN working' = DOMAIN working /\ \A v \in DOMAIN working : v # w => working'[v] = working[v]
  BY <1>1 DEF PoolTypeOK
<1>6. OneWorker'
  <2>1. \A u \in Pool!Task : u > Taken => outcome'[u] = "none"
    BY <1>2, <1>4 DEF OneWorker, Pool!Task, Taken, PoolTypeOK, Queued
  <2>2. \A v \in DOMAIN working : working'[v] > 0 => working'[v] <= Taken /\ outcome'[working'[v]] = "none"
    <3> SUFFICES ASSUME NEW v \in DOMAIN working, working'[v] > 0 PROVE working'[v] <= Taken /\ outcome'[working'[v]] = "none"
      OBVIOUS
    <3>1. v # w /\ working'[v] = working[v] /\ working[v] \in Pool!Task
      BY <1>5 DEF PoolTypeOK, Pool!Task
    <3>2. working[v] # t
      BY <1>1, <3>1 DEF OneWorker
    <3> QED BY <1>4, <3>1, <3>2 DEF OneWorker
  <2>3. \A u, v \in DOMAIN working : working'[u] > 0 /\ working'[u] = working'[v] => u = v
    BY <1>5 DEF OneWorker
  <2> QED BY <1>1, <1>5, <2>1, <2>2, <2>3 DEF OneWorker
<1>7. IsFiniteSet(Unreturned) /\ Cardinality(Unreturned) \in 0 .. tasks /\ t \in Unreturned /\ Cardinality(Unreturned) > 0
  <2>1. t \in Unreturned
    BY <1>2 DEF Unreturned
  <2>2. tasks \in Nat
    BY DEF PoolTypeOK, PoolConstants
  <2> QED BY <2>1, <2>2, UnreturnedCounts, FS_EmptySet
<1>8. Unreturned' = IF o = "return" THEN Unreturned \ {t} ELSE Unreturned
  BY <1>1, <1>2, <1>4 DEF Unreturned
<1>9. Cardinality(Unreturned') = IF o = "return" THEN Cardinality(Unreturned) - 1 ELSE Cardinality(Unreturned)
  BY <1>7, <1>8, FS_RemoveElement
<1>10. LeftCounted' /\ numberLeft' \in 0 .. tasks /\ ready' \in BOOLEAN /\ failed' \in BOOLEAN /\ (ready => ready')
  <2>1. CASE o = "vanish" \/ failed
    <3>1. UNCHANGED <<ready, failed, numberLeft>>
      BY <2>1 DEF Pool!Finish
    <3>2. ~failed => Cardinality(Unreturned') = Cardinality(Unreturned)
      BY <1>9, <2>1
    <3>3. \A u \in Pool!Task : outcome[u] = "raise" => outcome'[u] = "raise"
      BY <1>2, <1>4
    <3> QED BY <1>1, <1>3, <3>1, <3>2, <3>3 DEF LeftCounted, PoolTypeOK
  <2>2. CASE ~(o = "vanish" \/ failed)
    <3>1. /\ failed' = (o = "raise") /\ numberLeft' = (IF o = "return" THEN numberLeft - 1 ELSE numberLeft)
          /\ ready' = (o = "raise" \/ numberLeft = 1)
      BY <2>2 DEF Pool!Finish
    <3>2. numberLeft = Cardinality(Unreturned) /\ numberLeft > 0 /\ ~ready
      BY <1>3, <1>7, <2>2 DEF LeftCounted
    <3>3. ready' \in BOOLEAN /\ failed' \in BOOLEAN
      BY <3>1
    <3>7. numberLeft' \in 0 .. tasks
      BY <1>7, <3>1, <3>2 DEF PoolTypeOK, PoolConstants
    <3>4. ~failed' => o = "return" /\ numberLeft' = Cardinality(Unreturned')
      BY <1>2, <1>9, <2>2, <3>1, <3>2
    <3>5. failed' => numberLeft' > 0 /\ \E u \in Pool!Task : outcome'[u] = "raise"
      BY <1>2, <1>4, <3>1, <3>2
    <3>6. ready' /\ ~failed' => numberLeft' = 0
      BY <1>7, <3>1, <3>2, <3>4
    <3> QED BY <1>1, <3>2, <3>3, <3>4, <3>5, <3>6, <3>7 DEF LeftCounted
  <2> QED BY <2>1, <2>2
<1>11. PoolTypeOK'
  <2>1. working' \in [Pool!PoolSize(processes) -> Pool!Task \cup {0, -1}] /\ outcome' \in [Pool!Task -> {"none", "return", "raise", "vanish"}]
    BY <1>1, <1>2 DEF PoolTypeOK
  <2> QED BY <1>1, <1>10, <2>1 DEF PoolTypeOK, Pool!PoolSize
<1>12. Queued' /\ InOrder' /\ Pool!NothingRunsAfterReturn'
  BY <1>1, <1>3 DEF Queued, Taken, InOrder, Pool!NothingRunsAfterReturn
<1>13. CopiesFit'
  <2>1. caller \in {"getting", "joining"} => failed \/ (ready /\ ~failed /\ numberLeft = 0)
    BY <1>3 DEF CopiesFit, LeftCounted
  <2>2. caller \in {"getting", "joining"} => failed
    BY <1>3, <1>7, <2>1 DEF LeftCounted
  <2>3. failed => failed'
    BY <1>1 DEF Pool!Finish
  <2>4. caller # "joining" /\ caller # "returned"
    BY <1>3, <2>2 DEF CopiesFit
  <2> QED BY <1>1, <1>3, <1>10, <2>2, <2>3, <2>4 DEF CopiesFit
<1>14. Pool!AnswersAreComplete'
  <2>1. caller = "raised" => \E u \in Pool!Task : outcome[u] \in {"raise", "vanish"}
    BY DEF Pool!AnswersAreComplete
  <2>2. \A u \in Pool!Task : outcome[u] \in {"raise", "vanish"} => outcome'[u] \in {"raise", "vanish"}
    BY <1>2, <1>4
  <2> QED BY <1>1, <1>3, <2>1, <2>2 DEF Pool!AnswersAreComplete
<1> QED BY <1>6, <1>10, <1>11, <1>12, <1>13, <1>14

\* What the caller does with its own copies leaves the pool alone.
LEMMA PoolKept ==
  ASSUME Queued, OneWorker, LeftCounted, UNCHANGED <<Pool!call, Pool!pool>>
  PROVE  Queued' /\ OneWorker' /\ LeftCounted' /\ Pool!Task' = Pool!Task /\ Taken' = Taken
BY DEF Pool!call, Pool!pool, Queued, OneWorker, LeftCounted, Unreturned, Taken, Pool!Task

LEMMA AskReadyInv == ASSUME PoolConstants, PoolInv, Pool!AskReady PROVE PoolInv'
<1> USE DEF PoolInv
<1>1. caller = "asking" /\ sawReady' = ready /\ caller' = "counting" /\ UNCHANGED <<Pool!call, Pool!pool, left, progress>>
  BY DEF Pool!AskReady
<1>2. Queued' /\ OneWorker' /\ LeftCounted' /\ Pool!Task' = Pool!Task /\ Taken' = Taken
  BY <1>1, PoolKept
<1>3. PoolTypeOK'
  BY <1>1, <1>2 DEF PoolTypeOK, Pool!call, Pool!pool, Pool!PoolSize, Polling
<1>4. InOrder' /\ CopiesFit' /\ Pool!AnswersAreComplete' /\ Pool!NothingRunsAfterReturn'
  BY <1>1, <1>2 DEF InOrder, CopiesFit, Pool!AnswersAreComplete, Pool!NothingRunsAfterReturn, Polling, Pool!call, Pool!pool
<1> QED BY <1>2, <1>3, <1>4

LEMMA CountLeftInv == ASSUME PoolConstants, PoolInv, Pool!CountLeft PROVE PoolInv'
<1> USE DEF PoolInv
<1>1. caller = "counting" /\ UNCHANGED <<Pool!call, Pool!pool, sawReady>>
  BY DEF Pool!CountLeft
<1>2. Queued' /\ OneWorker' /\ LeftCounted' /\ Pool!Task' = Pool!Task /\ Taken' = Taken
  BY <1>1, PoolKept
<1>3. /\ tasks \in Nat /\ tasks > 0 /\ processes > 1 /\ numberLeft \in 0 .. tasks /\ left \in 0 .. tasks
      /\ progress + left = tasks /\ progress \in 0 .. tasks /\ sawReady \in BOOLEAN /\ (sawReady => ready)
  BY <1>1 DEF PoolTypeOK, CopiesFit, Polling, PoolConstants
<1>4. Pool!Onward \in {"getting", "asking"} /\ (Pool!Onward = "getting" => sawReady) /\ (Pool!Onward = "asking" => ~sawReady)
  BY DEF Pool!Onward
<1>5. /\ progress' \in 0 .. tasks /\ left' \in 0 .. tasks /\ caller' = Pool!Onward
      /\ Pool!Onward = "asking" => progress' + left' = tasks
      /\ Pool!Onward = "getting" /\ ~failed => progress' = tasks
  <2>1. CASE sawReady \/ numberLeft < left
    <3>1. Pool!Steps \in 0 .. left /\ progress + Pool!Steps <= tasks
      BY <1>3 DEF Pool!Steps
    <3>2. Pool!Fits(Pool!Steps)
      BY <1>3, <3>1 DEF Pool!Fits
    <3>3. progress' = progress + Pool!Steps /\ left' = numberLeft /\ caller' = Pool!Onward
      BY <1>1, <1>3, <2>1, <3>1, <3>2 DEF Pool!CountLeft, Pool!Index
    <3>4. CASE numberLeft <= left
      <4>1. progress' + left' = tasks /\ progress' \in 0 .. tasks
        BY <1>3, <3>3, <3>4 DEF Pool!Steps
      <4>2. Pool!Onward = "getting" /\ ~failed => left' = 0
        BY <1>3, <1>4, <3>3 DEF LeftCounted
      <4> QED BY <1>3, <3>3, <4>1, <4>2
    <3>5. CASE ~(numberLeft <= left)
      <4>1. sawReady /\ progress' = progress
        BY <1>3, <2>1, <3>3, <3>5 DEF Pool!Steps
      <4>2. failed
        BY <1>3, <3>5, <4>1 DEF LeftCounted
      <4> QED BY <1>3, <1>4, <3>3, <4>1, <4>2
    <3> QED BY <3>4, <3>5
  <2>2. CASE ~(sawReady \/ numberLeft < left)
    BY <1>1, <1>3, <1>4, <2>2 DEF Pool!CountLeft
  <2> QED BY <2>1, <2>2
<1>6. PoolTypeOK'
  <2>1. left' \in -1 .. tasks /\ progress' \in 0 .. tasks + 1 /\ caller' \in Polling
    BY <1>3, <1>4, <1>5 DEF Polling
  <2> QED BY <1>1, <1>2, <2>1 DEF PoolTypeOK, Pool!call, Pool!pool, Pool!PoolSize
<1>7. CopiesFit'
  <2>1. UNCHANGED <<tasks, processes, ready, failed, sawReady>>
    BY <1>1 DEF Pool!call, Pool!pool
  <2>2. CASE Pool!Onward = "getting"
    BY <1>3, <1>4, <1>5, <2>1, <2>2 DEF CopiesFit, Polling
  <2>3. CASE Pool!Onward = "asking"
    <3>3. caller' = "asking" /\ tasks' = tasks
      BY <1>5, <2>1, <2>3
    <3>4. progress' + left' = tasks
      BY <1>5, <2>3
    <3>5. left' >= 0 /\ progress' <= tasks
      BY <1>3, <1>5
    <3>1. caller' = "asking" /\ progress' + left' = tasks' /\ left' >= 0 /\ progress' <= tasks'
      BY <3>3, <3>4, <3>5
    <3>2. tasks' > 0 /\ processes' > 1 /\ (sawReady' => ready')
      BY <1>3, <2>1
    <3> QED BY <3>1, <3>2 DEF CopiesFit, Polling
  <2> QED BY <1>4, <2>2, <2>3
<1>8. InOrder' /\ Pool!AnswersAreComplete' /\ Pool!NothingRunsAfterReturn'
  BY <1>1, <1>2, <1>3, <1>4, <1>5 DEF InOrder, Pool!AnswersAreComplete, Pool!NothingRunsAfterReturn, Pool!call, Pool!pool
<1> QED BY <1>2, <1>6, <1>7, <1>8

\* get returns the values only if all tasks have returned.
LEMMA GetInv == ASSUME PoolConstants, PoolInv, Pool!Get PROVE PoolInv'
<1> USE DEF PoolInv
<1>1. caller = "getting" /\ ready /\ caller' = Pool!Answer /\ UNCHANGED <<Pool!call, Pool!pool, sawReady, left, progress>>
  BY DEF Pool!Get
<1>2. Queued' /\ OneWorker' /\ LeftCounted' /\ Pool!Task' = Pool!Task /\ Taken' = Taken
  BY <1>1, PoolKept
<1>3. tasks > 0 /\ processes > 1
  BY <1>1 DEF CopiesFit, Polling
<1>4. Pool!Answer \in {"raised", "joining"} /\ (Pool!Answer = "raised" <=> failed)
  BY DEF Pool!Answer
<1>5. PoolTypeOK'
  BY <1>1, <1>2, <1>4 DEF PoolTypeOK, Pool!call, Pool!pool, Pool!PoolSize, Polling, Pool!Ended
<1>6. InOrder' /\ CopiesFit' /\ Pool!NothingRunsAfterReturn'
  BY <1>1, <1>2, <1>3, <1>4 DEF InOrder, CopiesFit, Pool!NothingRunsAfterReturn, Polling, Pool!call, Pool!pool
<1>7. Pool!AnswersAreComplete'
  BY <1>1, <1>2, <1>3, <1>4 DEF Pool!AnswersAreComplete, LeftCounted, Pool!call, Pool!pool
<1> QED BY <1>2, <1>5, <1>6, <1>7

LEMMA LeaveInv == ASSUME PoolConstants, PoolInv, NEW w \in DOMAIN working, Pool!Leave(w) PROVE PoolInv'
<1> USE DEF PoolInv
<1>1. /\ caller = "joining" /\ working' = [working EXCEPT ![w] = -1] /\ Pool!Task' = Pool!Task /\ Taken' = Taken
      /\ UNCHANGED <<Pool!call, tasks, processes, caller, queue, outcome, ready, failed, numberLeft, sawReady, left, progress>>
  BY DEF Pool!Leave, Pool!call, Pool!Task, Taken
<1>2. PoolTypeOK'
  BY <1>1 DEF PoolTypeOK, Pool!PoolSize
<1>3. working'[w] = -1 /\ DOMAIN working' = DOMAIN working /\ \A v \in DOMAIN working : v # w => working'[v] = working[v]
  BY <1>1 DEF PoolTypeOK
<1>4. OneWorker'
  BY <1>1, <1>3 DEF OneWorker
<1>5. Queued' /\ LeftCounted' /\ CopiesFit' /\ Pool!AnswersAreComplete'
  BY <1>1 DEF Queued, Taken, LeftCounted, Unreturned, CopiesFit, Pool!AnswersAreComplete
<1>6. InOrder' /\ Pool!NothingRunsAfterReturn'
  BY <1>1, <1>3 DEF InOrder, Pool!NothingRunsAfterReturn, CopiesFit, Polling
<1> QED BY <1>2, <1>4, <1>5, <1>6

LEMMA JoinInv == ASSUME PoolConstants, PoolInv, Pool!Join PROVE PoolInv'
<1> USE DEF PoolInv
<1>1. caller = "joining" /\ Pool!Joined /\ caller' = "returned" /\ UNCHANGED <<Pool!call, Pool!pool, sawReady, left, progress>>
  BY DEF Pool!Join
<1>2. Queued' /\ OneWorker' /\ LeftCounted' /\ Pool!Task' = Pool!Task /\ Taken' = Taken
  BY <1>1, PoolKept
<1>3. tasks \in Nat /\ processes > 1 /\ ready /\ ~failed
  BY <1>1 DEF PoolTypeOK, CopiesFit, Polling, PoolConstants
<1>4. \A t \in Pool!Task : outcome[t] = "return"
  BY <1>3, UnreturnedCounts DEF LeftCounted
<1>5. PoolTypeOK'
  BY <1>1, <1>2 DEF PoolTypeOK, Pool!call, Pool!pool, Pool!PoolSize, Pool!Ended
<1>6. InOrder' /\ CopiesFit'
  BY <1>1, <1>2, <1>3 DEF InOrder, CopiesFit, Polling, Pool!call, Pool!pool
<1>7. Pool!AnswersAreComplete' /\ Pool!NothingRunsAfterReturn'
  BY <1>1, <1>2, <1>4 DEF Pool!AnswersAreComplete, Pool!NothingRunsAfterReturn, Pool!Joined, Pool!call, Pool!pool
<1> QED BY <1>2, <1>5, <1>6, <1>7

LEMMA PoolNextInv == ASSUME PoolConstants, PoolInv, [Pool!Next]_Pool!vars PROVE PoolInv'
<1>1. CASE Pool!Caller
  BY <1>1, SerialInv, StartPoolInv, AskReadyInv, CountLeftInv, GetInv, JoinInv DEF Pool!Caller
<1>2. ASSUME NEW w \in DOMAIN working, Pool!Worker(w) PROVE PoolInv'
  BY <1>2, TakeInv, LeaveInv, FinishInv DEF Pool!Worker
<1>3. CASE UNCHANGED Pool!vars
  <2>1. UNCHANGED <<Pool!call, Pool!pool>>
    BY <1>3 DEF Pool!vars
  <2>2. Queued' /\ OneWorker' /\ LeftCounted' /\ Pool!Task' = Pool!Task /\ Taken' = Taken
    BY <2>1, PoolKept DEF PoolInv
  <2> QED BY <1>3, <2>1, <2>2 DEF Pool!vars, Pool!call, Pool!pool, PoolInv, PoolTypeOK, Pool!PoolSize, InOrder, CopiesFit, Pool!AnswersAreComplete, Pool!NothingRunsAfterReturn
<1> QED BY <1>1, <1>2, <1>3 DEF Pool!Next

LEMMA BarInv == ASSUME PoolConstants, PoolInv PROVE Pool!BarFits
BY DEF PoolInv, Pool!BarFits, CopiesFit

-----------------------------------------------------------------------------
\* The strengthening is inductive, whatever the order of the caller and its workers.
THEOREM PoolInductive == ASSUME PoolConstants PROVE Pool!Spec => []PoolInv
<1>1. Pool!Init => PoolInv
  BY PoolInitInv
<1>2. PoolInv /\ [Pool!Next]_Pool!vars => PoolInv'
  BY PoolNextInv
<1> QED BY <1>1, <1>2, PTL DEF Pool!Spec

\* The values are handed back only when every task returned, an exception only when one
\* failed; the bar is never asked for more steps than there are tasks, and no process is
\* left behind (tools.parallelize, tools.py:160-193).
THEOREM PoolCorrect == ASSUME PoolConstants PROVE Pool!Spec => [](Pool!AnswersAreComplete /\ Pool!BarFits /\ Pool!NothingRunsAfterReturn)
<1>1. PoolInv => Pool!AnswersAreComplete /\ Pool!BarFits /\ Pool!NothingRunsAfterReturn
  BY BarInv DEF PoolInv
<1> QED BY PoolInductive, <1>1, PTL

-----------------------------------------------------------------------------
(* hadd.                                                                   *)

\* What the theorems assume of the constants.
HaddConstants ==
  /\ MaxSources \in Nat
  /\ MaxCrashes \in Nat
  /\ Exits \subseteq {"ok", "fail", "killed"}

HaddTypeOK ==
  /\ sources \in 0 .. MaxSources /\ max_files \in 1 .. MaxSources
  /\ force \in BOOLEAN /\ missing \in SUBSET Chunks!Source
  /\ target \in Chunks!Content \cup {Chunks!NoFile}
  /\ temp \in [Chunks!Index -> Chunks!Content \cup {Chunks!NoFile}]
  /\ start \in Chunks!Index /\ chunk \in Chunks!Index
  /\ caller \in Chunks!Ended \cup {"called", "merged"}
  /\ exit_code \in {0, 1} /\ killed \in BOOLEAN
  /\ crashes \in 0 .. MaxCrashes

\* The sources up to i, once each.
UpTo(i) == [s \in Chunks!Source |-> IF s <= i THEN 1 ELSE 0]
Clean == exit_code = 0 /\ ~killed

\* As long as nothing has failed in this call, the last temporary file holds the
\* sources of the chunks before, and after a merge its output those of this chunk too.
Chained ==
  /\ caller = "called" /\ Clean /\ chunk > 0 => temp[chunk - 1] = UpTo(start)
  /\ caller = "merged" /\ Clean => Chunks!Output = UpTo(start + max_files)
  /\ caller = "returned" /\ Clean => target = Chunks!AllOnce

\* The indices count together: a chunk has at least one source.
Counted == chunk <= start /\ (chunk = 0 => start = 0) /\ (chunk > 0 => start < sources)

HaddInv == HaddTypeOK /\ Counted /\ Chained

-----------------------------------------------------------------------------
\* What all of the sources before and those of this chunk make together.
LEMMA ChunkAdded ==
  ASSUME HaddConstants, HaddTypeOK, Counted, chunk > 0 => temp[chunk - 1] = UpTo(start)
  PROVE  Chunks!Merged = UpTo(start + max_files)
<1>1. Chunks!Previous = UpTo(start)
  <2>1. CASE chunk > 0
    BY <2>1 DEF Chunks!Previous
  <2>2. CASE ~(chunk > 0)
    <3>1. chunk = 0 /\ start = 0
      BY <2>2, HaddConstants DEF HaddConstants, HaddTypeOK, Counted, Chunks!Index
    <3>2. UpTo(0) = Chunks!Nothing
      BY DEF UpTo, Chunks!Nothing, Chunks!Source
    <3> QED BY <2>2, <3>1, <3>2 DEF Chunks!Previous
  <2> QED BY <2>1, <2>2
<1>2. \A s \in Chunks!Source : (IF Chunks!InChunk(s) THEN 1 ELSE 0) + UpTo(start)[s] = IF s <= start + max_files THEN 1 ELSE 0
  BY HaddConstants DEF HaddConstants, UpTo, Chunks!InChunk, Chunks!Source, HaddTypeOK, Chunks!Index
<1> QED BY <1>1, <1>2 DEF Chunks!Merged, UpTo

LEMMA LastIsAll ==
  ASSUME HaddConstants, HaddTypeOK, Chunks!LastChunk
  PROVE  UpTo(start + max_files) = Chunks!AllOnce
BY HaddConstants DEF HaddConstants, HaddTypeOK, Chunks!LastChunk, UpTo, Chunks!AllOnce, Chunks!Source, Chunks!Index

\* The merged content is a content, because an hadd with a missing source refuses.
LEMMA MergedIsContent ==
  ASSUME HaddConstants, HaddTypeOK, ~Chunks!Refuses
  PROVE  Chunks!Merged \in Chunks!Content
<1>1. Chunks!Previous \in Chunks!Content
  <2>1. CASE chunk > 0
    <3>1. chunk - 1 \in Chunks!Index
      BY <2>1, HaddConstants DEF HaddConstants, HaddTypeOK, Chunks!Index
    <3> QED BY <2>1, <3>1 DEF Chunks!Previous, Chunks!Refuses, HaddTypeOK
  <2>2. CASE ~(chunk > 0)
    BY <2>2 DEF Chunks!Previous, Chunks!Nothing, Chunks!Content
  <2> QED BY <2>1, <2>2
<1> QED BY <1>1 DEF Chunks!Merged, Chunks!Content

\* An output that is written keeps the types.
LEMMA WriteTyped ==
  ASSUME HaddConstants, HaddTypeOK, NEW c \in Chunks!Content, Chunks!Write(c)
  PROVE  target' \in Chunks!Content \cup {Chunks!NoFile} /\ temp' \in [Chunks!Index -> Chunks!Content \cup {Chunks!NoFile}]
BY DEF HaddTypeOK, Chunks!Write

-----------------------------------------------------------------------------
LEMMA HaddInitInv == ASSUME HaddConstants PROVE Chunks!Init => HaddInv
<1> SUFFICES ASSUME Chunks!Init PROVE HaddInv
  OBVIOUS
<1>1. Chunks!Nothing \in Chunks!Content
  BY DEF Chunks!Nothing, Chunks!Content
<1>2. target \in Chunks!Content \cup {Chunks!NoFile} /\ temp \in [Chunks!Index -> Chunks!Content \cup {Chunks!NoFile}]
  BY <1>1 DEF Chunks!Init
<1>3. start \in Chunks!Index /\ chunk \in Chunks!Index /\ crashes \in 0 .. MaxCrashes
  BY HaddConstants DEF Chunks!Init, Chunks!Index, HaddConstants
<1>4. HaddTypeOK
  BY <1>2, <1>3 DEF Chunks!Init, HaddTypeOK, Chunks!Ended
<1>5. Counted /\ Chained
  BY DEF Chunks!Init, Counted, Chained, Chunks!Ended
<1> QED BY <1>4, <1>5 DEF HaddInv

LEMMA NoSourcesInv == ASSUME HaddConstants, HaddInv, Chunks!NoSources PROVE HaddInv'
<1>1. HaddTypeOK' BY DEF HaddInv, HaddTypeOK, Chunks!NoSources, Chunks!args, Chunks!Ended, Chunks!Content, Chunks!Source
<1>2. Counted' BY DEF HaddInv, Counted, Chunks!NoSources, Chunks!args
<1>3. Chained' BY DEF Chained, Chunks!NoSources
<1> QED BY <1>1, <1>2, <1>3 DEF HaddInv

LEMMA MergeInv == ASSUME HaddConstants, HaddInv, NEW exit \in Exits, Chunks!Merge(exit) PROVE HaddInv'
<1> USE DEF HaddInv
<1>1. UNCHANGED <<sources, max_files, force, missing, start, chunk, crashes>> /\ caller = "called" /\ caller' = "merged"
  BY DEF Chunks!Merge, Chunks!args
<1>2. exit \in {"ok", "fail", "killed"}
  BY HaddConstants DEF HaddConstants
<1>3. Chunks!Nothing \in Chunks!Content
  BY DEF Chunks!Nothing, Chunks!Content
<1>4. target' \in Chunks!Content \cup {Chunks!NoFile} /\ temp' \in [Chunks!Index -> Chunks!Content \cup {Chunks!NoFile}]
  <2>1. CASE UNCHANGED <<target, temp>>
    BY <2>1 DEF HaddTypeOK
  <2>2. CASE Chunks!Write(Chunks!Nothing)
    BY <1>3, <2>2, WriteTyped
  <2>3. CASE ~Chunks!Refuses /\ Chunks!Write(Chunks!Merged)
    BY <2>3, MergedIsContent, WriteTyped
  <2> QED BY <2>1, <2>2, <2>3 DEF Chunks!Merge, Chunks!Run
<1>5. HaddTypeOK'
  BY <1>1, <1>2, <1>4 DEF HaddTypeOK, Chunks!Merge, Chunks!Code, Chunks!Ended, Chunks!Content, Chunks!Source
<1>6. Counted'
  BY <1>1 DEF Counted
<1>7. ASSUME Clean' PROVE Chunks!Output' = UpTo(start + max_files)'
  <2>1. exit = "ok" /\ Clean
    <3>1. exit_code' = 0 /\ ~killed'
      BY <1>7 DEF Clean
    <3>2. exit # "fail" /\ exit_code = 0
      BY <3>1 DEF Chunks!Merge, Chunks!Code
    <3>3. exit # "killed" /\ ~killed
      BY <3>1 DEF Chunks!Merge
    <3> QED BY <1>2, <3>2, <3>3 DEF Clean
  <2>2. Chunks!Write(Chunks!Merged)
    BY <2>1 DEF Chunks!Merge, Chunks!Run
  <2>3. Chunks!Merged = UpTo(start + max_files)
    BY <1>1, <2>1, ChunkAdded DEF Chained
  <2>4. Chunks!Output' = Chunks!Merged
    BY <1>1, <2>2 DEF Chunks!Write, Chunks!Output, Chunks!LastChunk, HaddTypeOK
  <2> QED BY <1>1, <2>3, <2>4 DEF UpTo, Chunks!Source
<1>8. Chained'
  BY <1>1, <1>7 DEF Chained
<1> QED BY <1>5, <1>6, <1>8

LEMMA RemoveInv == ASSUME HaddConstants, HaddInv, Chunks!Remove PROVE HaddInv'
<1> USE DEF HaddInv
<1>1. UNCHANGED <<sources, max_files, force, missing, target, exit_code, killed, crashes>> /\ caller = "merged"
  BY DEF Chunks!Remove, Chunks!args
<1>2. CASE chunk > 0 /\ temp[chunk - 1] = Chunks!NoFile
  BY <1>1, <1>2 DEF Chunks!Remove, HaddTypeOK, Counted, Chained, Clean, Chunks!Ended, Chunks!Content, Chunks!Source
<1>3. CASE ~(chunk > 0 /\ temp[chunk - 1] = Chunks!NoFile)
  <2>1. temp' = (IF chunk > 0 THEN Chunks!Removed ELSE temp)
    BY <1>3 DEF Chunks!Remove
  <2>2. temp' \in [Chunks!Index -> Chunks!Content \cup {Chunks!NoFile}]
    BY <2>1 DEF Chunks!Removed, HaddTypeOK
  <2>3. CASE Chunks!LastChunk
    <3>1. caller' = "returned" /\ start' = start /\ chunk' = chunk
      BY <1>3, <2>3 DEF Chunks!Remove
    <3>2. HaddTypeOK'
      BY <1>1, <2>2, <3>1 DEF HaddTypeOK, Chunks!Ended, Chunks!Content, Chunks!Source
    <3>3. Counted'
      BY <1>1, <3>1 DEF Counted
    <3>4. Clean => target = Chunks!AllOnce
      BY <1>1, <2>3, LastIsAll DEF Chained, Chunks!Output
    <3>5. Chunks!AllOnce' = Chunks!AllOnce
      BY <1>1 DEF Chunks!AllOnce, Chunks!Source
    <3>6. Chained'
      BY <1>1, <3>1, <3>4, <3>5 DEF Chained, Clean
    <3> QED BY <3>2, <3>3, <3>6
  <2>4. CASE ~Chunks!LastChunk
    <3>1. caller' = "called" /\ start' = start + max_files /\ chunk' = chunk + 1
      BY <1>3, <2>4 DEF Chunks!Remove
    <3>2. start + max_files < sources /\ chunk + 1 <= start + max_files /\ start + max_files \in Chunks!Index /\ chunk + 1 \in Chunks!Index
      BY <2>4, HaddConstants DEF HaddConstants, HaddTypeOK, Counted, Chunks!LastChunk, Chunks!Index
    <3>3. HaddTypeOK'
      BY <1>1, <2>2, <3>1, <3>2 DEF HaddTypeOK, Chunks!Ended, Chunks!Content, Chunks!Source
    <3>4. Counted'
      BY <1>1, <3>1, <3>2, HaddConstants DEF HaddConstants, Counted, HaddTypeOK, Chunks!Index
    <3>5. Clean => temp'[chunk] = UpTo(start + max_files)
      <4>1. chunk # chunk - 1 /\ chunk \in Chunks!Index
        BY HaddConstants DEF HaddConstants, HaddTypeOK, Chunks!Index
      <4>2. temp'[chunk] = temp[chunk]
        BY <2>1, <4>1 DEF Chunks!Removed, HaddTypeOK
      <4> QED BY <1>1, <2>4, <4>2 DEF Chained, Chunks!Output
    <3>6. UpTo(start)' = UpTo(start + max_files)
      BY <1>1, <3>1 DEF UpTo, Chunks!Source
    <3>7. chunk' - 1 = chunk
      BY <3>1, HaddConstants DEF HaddConstants, HaddTypeOK, Chunks!Index
    <3>8. Chained'
      BY <1>1, <3>1, <3>5, <3>6, <3>7 DEF Chained, Clean
    <3> QED BY <3>3, <3>4, <3>8
  <2> QED BY <2>3, <2>4
<1> QED BY <1>2, <1>3

LEMMA CrashInv == ASSUME HaddConstants, HaddInv, Chunks!Crash PROVE HaddInv'
<1> USE DEF HaddInv
<1>1. UNCHANGED <<sources, max_files, force, missing>> /\ caller' = "called" /\ start' = 0 /\ chunk' = 0 /\ exit_code' = 0 /\ killed' = FALSE
  BY DEF Chunks!Crash, Chunks!args
<1>2. target' \in Chunks!Content \cup {Chunks!NoFile} /\ temp' \in [Chunks!Index -> Chunks!Content \cup {Chunks!NoFile}]
  <2>1. Chunks!Nothing \in Chunks!Content
    BY DEF Chunks!Nothing, Chunks!Content
  <2>2. CASE UNCHANGED <<target, temp>>
    BY <2>2 DEF HaddTypeOK
  <2>3. CASE Chunks!Write(Chunks!Nothing)
    BY <2>1, <2>3, WriteTyped
  <2> QED BY <2>2, <2>3 DEF Chunks!Crash
<1>3. crashes' \in 0 .. MaxCrashes /\ 0 \in Chunks!Index
  BY HaddConstants DEF HaddConstants, Chunks!Crash, HaddTypeOK, Chunks!Index
<1>4. HaddTypeOK'
  BY <1>1, <1>2, <1>3 DEF HaddTypeOK, Chunks!Content, Chunks!Source
<1>5. Counted'
  BY <1>1 DEF Counted
<1>6. Chained'
  BY <1>1 DEF Chained
<1> QED BY <1>4, <1>5, <1>6

LEMMA HaddNextInv == ASSUME HaddConstants, HaddInv, [Chunks!Next]_Chunks!vars PROVE HaddInv'
<1>1. CASE Chunks!NoSources
  BY <1>1, NoSourcesInv
<1>2. CASE \E exit \in Exits : Chunks!Merge(exit)
  BY <1>2, MergeInv
<1>3. CASE Chunks!Remove
  BY <1>3, RemoveInv
<1>4. CASE Chunks!Crash
  BY <1>4, CrashInv
<1>5. CASE UNCHANGED Chunks!vars
  BY <1>5 DEF Chunks!vars, Chunks!args, HaddInv, HaddTypeOK, Counted, Chained, Clean, Chunks!Output, Chunks!LastChunk, UpTo, Chunks!AllOnce, Chunks!Source, Chunks!Content
<1> QED BY <1>1, <1>2, <1>3, <1>4, <1>5 DEF Chunks!Next

LEMMA Complete == ASSUME HaddInv PROVE Chunks!SuccessIsComplete
BY DEF HaddInv, Chained, Clean, Chunks!SuccessIsComplete

\* The strengthening is inductive: every step of a call, also of one that starts again
\* after a crash, keeps it.
THEOREM HaddInductive ==
  ASSUME HaddConstants PROVE Chunks!Spec => []HaddInv
<1>1. HaddInv /\ [Chunks!Next]_Chunks!vars => HaddInv'
  BY HaddNextInv
<1> QED BY HaddInitInv, <1>1, PTL DEF Chunks!Spec

\* Every variable of a call stays within its type (tools.hadd, tools.py:196-220).
THEOREM HaddTypeCorrect ==
  ASSUME HaddConstants PROVE Chunks!Spec => []HaddTypeOK
<1>1. HaddInv => HaddTypeOK
  BY DEF HaddInv
<1> QED BY HaddInductive, <1>1, PTL

\* A call that returns 0 has merged every source exactly once, unless an hadd was
\* killed, for every number of sources and every size of the chunks.
THEOREM HaddCorrect ==
  ASSUME HaddConstants PROVE Chunks!Spec => []Chunks!SuccessIsComplete
<1>1. HaddInv => Chunks!SuccessIsComplete
  BY Complete
<1> QED BY HaddInductive, <1>1, PTL

-----------------------------------------------------------------------------
(* The temporary files.                                                    *)

\* A temporary file belongs to a chunk that is not the last one, be it of this call or
\* of one that died, and those before the last chunk at work are gone.
Placed ==
  /\ start = chunk * max_files
  /\ \A i \in Chunks!Index : temp[i] # Chunks!NoFile => (i + 1) * max_files < sources /\ i >= chunk - 1
  /\ caller = "returned" => \A i \in Chunks!Index : temp[i] = Chunks!NoFile
  /\ crashes = 0 => \A i \in Chunks!Index : temp[i] # Chunks!NoFile => i <= chunk /\ (caller = "called" => i < chunk)

\* Later chunks end later.
LEMMA ChunksGrow == ASSUME NEW i \in Nat, NEW j \in Nat, NEW k \in Nat, i <= j PROVE i * k <= j * k
<1>1. PICK d \in Nat : j = i + d
  <2>1. j - i \in Nat /\ j = i + (j - i)
    OBVIOUS
  <2> QED BY <2>1
<1>2. j * k = i * k + d * k
  BY <1>1
<1>3. d * k \in Nat /\ i * k \in Nat
  OBVIOUS
<1> QED BY <1>2, <1>3

LEMMA NextChunk == ASSUME NEW i \in Nat, NEW k \in Nat PROVE (i + 1) * k = i * k + k
OBVIOUS

LEMMA Numbers == ASSUME HaddConstants, HaddTypeOK PROVE start \in Nat /\ chunk \in Nat /\ max_files \in Nat \ {0} /\ sources \in Nat /\ crashes \in Nat
BY DEF HaddConstants, HaddTypeOK, Chunks!Index

\* A step that writes at most the temporary file of a chunk that is not the last one.
LEMMA WritePlaced ==
  ASSUME HaddConstants, HaddTypeOK, Placed, NEW c, UNCHANGED <<target, temp>> \/ Chunks!Write(c)
  PROVE  \A i \in Chunks!Index : temp'[i] # Chunks!NoFile => temp[i] # Chunks!NoFile \/ (i = chunk /\ (i + 1) * max_files < sources)
<1>1. CASE UNCHANGED <<target, temp>>
  BY <1>1
<1>2. CASE Chunks!Write(c) /\ Chunks!LastChunk
  BY <1>2 DEF Chunks!Write
<1>3. CASE Chunks!Write(c) /\ ~Chunks!LastChunk
  <2>1. \A i \in Chunks!Index : i # chunk => temp'[i] = temp[i]
    BY <1>3 DEF Chunks!Write, HaddTypeOK
  <2>2. (chunk + 1) * max_files < sources
    BY <1>3, Numbers, NextChunk DEF Chunks!LastChunk, Placed
  <2> QED BY <2>1, <2>2
<1> QED BY <1>1, <1>2, <1>3

LEMMA InitPlaced == ASSUME HaddConstants, Chunks!Init PROVE Placed
BY DEF HaddConstants, Chunks!Init, Placed, Chunks!Index

LEMMA MergePlaced == ASSUME HaddConstants, HaddInv, Placed, NEW exit \in Exits, Chunks!Merge(exit) PROVE Placed'
<1> USE DEF HaddInv
<1>1. UNCHANGED <<sources, max_files, start, chunk, crashes>> /\ caller = "called" /\ caller' = "merged"
  BY DEF Chunks!Merge, Chunks!args
<1>2. PICK c : UNCHANGED <<target, temp>> \/ Chunks!Write(c)
  BY DEF Chunks!Merge, Chunks!Run
<1>3. \A i \in Chunks!Index : temp'[i] # Chunks!NoFile => temp[i] # Chunks!NoFile \/ (i = chunk /\ (i + 1) * max_files < sources)
  BY <1>2, WritePlaced
<1> QED BY <1>1, <1>3, Numbers DEF Placed, Chunks!Index

LEMMA RemovePlaced == ASSUME HaddConstants, HaddInv, Placed, Chunks!Remove PROVE Placed'
<1> USE DEF HaddInv
<1>1. UNCHANGED <<sources, max_files, crashes>> /\ caller = "merged"
  BY DEF Chunks!Remove, Chunks!args
<1>2. CASE chunk > 0 /\ temp[chunk - 1] = Chunks!NoFile
  BY <1>1, <1>2 DEF Chunks!Remove, Placed
<1>3. CASE ~(chunk > 0 /\ temp[chunk - 1] = Chunks!NoFile)
  <2>1. temp' = (IF chunk > 0 THEN Chunks!Removed ELSE temp)
    BY <1>3 DEF Chunks!Remove
  <2>2. \A i \in Chunks!Index : temp'[i] # Chunks!NoFile => temp[i] # Chunks!NoFile /\ i >= chunk
    <3>1. CASE chunk > 0
      BY <2>1, <3>1, Numbers DEF Chunks!Removed, Placed, HaddTypeOK, Chunks!Index
    <3>2. CASE ~(chunk > 0)
      BY <2>1, <3>2, Numbers DEF Placed, Chunks!Index
    <3> QED BY <3>1, <3>2
  <2>3. CASE Chunks!LastChunk
    <3>1. caller' = "returned" /\ start' = start /\ chunk' = chunk
      BY <1>3, <2>3 DEF Chunks!Remove
    <3>2. ASSUME NEW i \in Chunks!Index, temp'[i] # Chunks!NoFile PROVE FALSE
      <4>1. i \in Nat /\ i >= chunk /\ (i + 1) * max_files < sources
        BY <2>2, <3>2 DEF Placed, Chunks!Index
      <4>2. (chunk + 1) * max_files >= sources
        BY <2>3, Numbers, NextChunk DEF Chunks!LastChunk, Placed
      <4>3. (chunk + 1) * max_files <= (i + 1) * max_files
        BY <4>1, Numbers, ChunksGrow
      <4> QED BY <4>1, <4>2, <4>3, Numbers
    <3> QED BY <1>1, <3>1, <3>2 DEF Placed
  <2>4. CASE ~Chunks!LastChunk
    <3>1. caller' = "called" /\ start' = start + max_files /\ chunk' = chunk + 1
      BY <1>3, <2>4 DEF Chunks!Remove
    <3>2. start' = chunk' * max_files'
      BY <1>1, <3>1, Numbers, NextChunk DEF Placed
    <3>3. \A i \in Chunks!Index : temp'[i] # Chunks!NoFile => (i + 1) * max_files < sources /\ i >= chunk' - 1
      BY <2>2, <3>1, Numbers DEF Placed, Chunks!Index
    <3>4. crashes = 0 => \A i \in Chunks!Index : temp'[i] # Chunks!NoFile => i < chunk'
      BY <2>2, <3>1, Numbers DEF Placed, Chunks!Index
    <3> QED BY <1>1, <3>1, <3>2, <3>3, <3>4, Numbers DEF Placed, Chunks!Index
  <2> QED BY <2>3, <2>4
<1> QED BY <1>2, <1>3

LEMMA CrashPlaced == ASSUME HaddConstants, HaddInv, Placed, Chunks!Crash PROVE Placed'
<1> USE DEF HaddInv
<1>1. UNCHANGED <<sources, max_files>> /\ caller' = "called" /\ start' = 0 /\ chunk' = 0 /\ crashes' = crashes + 1
  BY DEF Chunks!Crash, Chunks!args
<1>2. \A i \in Chunks!Index : temp'[i] # Chunks!NoFile => temp[i] # Chunks!NoFile \/ (i = chunk /\ (i + 1) * max_files < sources)
  BY WritePlaced DEF Chunks!Crash
<1>3. \A i \in Chunks!Index : temp'[i] # Chunks!NoFile => (i + 1) * max_files < sources /\ i >= 0 - 1
  BY <1>2 DEF Placed, Chunks!Index
<1>4. crashes' # 0 /\ 0 = 0 * max_files
  BY <1>1, Numbers
<1> QED BY <1>1, <1>3, <1>4 DEF Placed

LEMMA NextPlaced == ASSUME HaddConstants, HaddInv, Placed, [Chunks!Next]_Chunks!vars PROVE Placed'
<1>1. CASE Chunks!NoSources
  BY <1>1 DEF Chunks!NoSources, Chunks!args, Placed
<1>2. CASE UNCHANGED Chunks!vars
  BY <1>2 DEF Chunks!vars, Chunks!args, Placed
<1> QED BY <1>1, <1>2, MergePlaced, RemovePlaced, CrashPlaced DEF Chunks!Next

\* Two temporary files are those of chunks next to each other, and a call that returns
\* has none.
LEMMA FewTemporaries == ASSUME HaddConstants, HaddTypeOK, Placed PROVE Chunks!NoTemporaryLeft /\ Chunks!TwoTemporaries
<1>1. \A i \in Chunks!Index : i \in Nat
  BY DEF Chunks!Index
<1>2. Chunks!NoTemporaryLeft
  BY DEF Placed, Chunks!NoTemporaryLeft
<1>3. ASSUME crashes = 0, NEW i \in Chunks!Index, NEW j \in Chunks!Index, temp[i] # Chunks!NoFile, temp[j] # Chunks!NoFile
      PROVE  i - j \in -1 .. 1 /\ i <= chunk
  BY <1>1, <1>3, Numbers DEF Placed
<1> QED BY <1>2, <1>3 DEF Chunks!TwoTemporaries

\* A call that returns leaves no temporary file, not even one of an earlier call that
\* died, and one that nobody interrupts has at most two at a time (tools.py:208-217).
THEOREM TemporariesCorrect ==
  ASSUME HaddConstants PROVE Chunks!Spec => [](Chunks!NoTemporaryLeft /\ Chunks!TwoTemporaries)
<1>1. Chunks!Init => Placed
  BY InitPlaced
<1>2. HaddInv /\ Placed /\ [Chunks!Next]_Chunks!vars => Placed'
  BY NextPlaced
<1>3. HaddInv /\ Placed => Chunks!NoTemporaryLeft /\ Chunks!TwoTemporaries
  BY FewTemporaries DEF HaddInv
<1> QED BY HaddInductive, <1>1, <1>2, <1>3, PTL DEF Chunks!Spec

-----------------------------------------------------------------------------
(* Matching events.                                                        *)
\* What the theorems assume of the constants.
MatchConstants == Events \subseteq Int /\ Contents \in Seq(SUBSET Seq(Events)) /\ Contents # <<>>

\* The trees whose entries the items of a list hold, in this order: of those in all of
\* some trees, and of those in one only.
Held == [l1 |-> <<1>>, l2 |-> <<2>>, l3 |-> <<3>>, com12 |-> <<1, 2>>, com13 |-> <<1, 3>>, com23 |-> <<2, 3>>,
         com123 |-> <<1, 2, 3>>, o1 |-> <<1>>, o2 |-> <<2>>, o3 |-> <<3>>]
Wholes == {"l1", "l2", "l3", "com12", "com13", "com23", "com123"}
Rests == {"o1", "o2", "o3"}
\* Those that are there before the k-th comparison.
Rank == [l1 |-> 0, l2 |-> 0, l3 |-> 0, com12 |-> 1, com123 |-> 2, com13 |-> 3, com23 |-> 4]
Made(k) == {x \in Wholes : Rank[x] < k /\ (x = "l3" => Len(trees) = 3)}

MatchItem == [event : Events, entries : Seq(Nat)]
ScanType == [k : Nat \ {0}, n : Nat \ {0}, m : Nat \ {0}, common : Seq(MatchItem), only1 : Seq(MatchItem), only2 : Seq(MatchItem)]
MatchTypeOK ==
  /\ trees \in Seq(Seq(Events))
  /\ lists \in [Match!ListNames -> Seq(MatchItem)]
  /\ scan \in ScanType
  /\ report \in Seq({report[i] : i \in DOMAIN report})
  /\ pc \in {"started", "exit", "read", "raised", "comparing", "listed", "copied", "done"}

\* How often an event is among the first n items.
At(l, n, e) == {i \in 1 .. n : l[i].event = e}
Num(l, n, e) == Cardinality(At(l, n, e))
Times(l, e) == Num(l, Len(l), e)
Ascending(l) == \A i, j \in DOMAIN l : i < j => l[i].event <= l[j].event
FitsOne(x, ts) ==
  /\ Len(x.entries) = Len(ts)
  /\ \A q \in DOMAIN ts : x.entries[q] \in DOMAIN trees[ts[q]] /\ trees[ts[q]][x.entries[q]] = x.event
Fits(l, ts) == \A i \in DOMAIN l : FitsOne(l[i], ts)
\* As often as in the tree that has it least often.
IsLeast(l, ts) ==
  \A e \in Events : /\ \A q \in DOMAIN ts : Times(l, e) <= Match!Count(trees[ts[q]], e)
                    /\ \E q \in DOMAIN ts : Times(l, e) = Match!Count(trees[ts[q]], e)
IsRest(l, t) == \A e \in Events : \E u \in Match!Matched : Times(l, e) + Match!Count(trees[u], e) <= Match!Count(trees[t], e)

ListsFit(ls, made) ==
  /\ \A x \in DOMAIN Held : Fits(ls[x], Held[x])
  /\ \A x \in Wholes : Ascending(ls[x])
  /\ \A x \in Rests : Held[x][1] \in Match!Matched => IsRest(ls[x], Held[x][1])
  /\ \A x \in made : IsLeast(ls[x], Held[x])

\* The comparison of o and t at its n-th and m-th item: every item before these has gone
\* to one of the lists, and what has gone to one of the others comes no more.
Sorted(o, t, s) ==
  \A e \in Events :
    /\ Num(o, s.n - 1, e) = Times(s.common, e) + Times(s.only1, e)
    /\ Num(t, s.m - 1, e) = Times(s.common, e) + Times(s.only2, e)
    /\ Times(s.only1, e) = 0 \/ Times(s.only2, e) = 0
    /\ Times(s.only1, e) > 0 /\ s.m <= Len(t) => t[s.m].event > e
    /\ Times(s.only2, e) > 0 /\ s.n <= Len(o) => o[s.n].event > e
Sources(o, t, s) ==
  /\ \A i \in DOMAIN s.only1 : \E a \in DOMAIN o : s.only1[i] = o[a]
  /\ \A i \in DOMAIN s.only2 : \E b \in DOMAIN t : s.only2[i] = t[b]
  /\ \A i \in DOMAIN s.common : \E a \in DOMAIN o, b \in DOMAIN t : o[a].event = t[b].event /\ s.common[i] = Match!Joined(o[a], t[b])
Rising(o, s) == Ascending(s.common) /\ \A i \in DOMAIN s.common : s.n <= Len(o) => s.common[i].event <= o[s.n].event
ScanFits(o, t, s) == s.n <= Len(o) + 1 /\ s.m <= Len(t) + 1 /\ Sorted(o, t, s) /\ Sources(o, t, s) /\ Rising(o, s)

MatchInv ==
  /\ MatchTypeOK
  /\ pc \in {"started", "read"} => lists = [x \in Match!ListNames |-> <<>>] /\ scan = Match!Start(1)
  /\ pc \notin {"started", "exit"} => Len(trees) >= 2
  /\ pc = "comparing" => scan.k <= Match!Last /\ ListsFit(lists, Made(scan.k)) /\ ScanFits(Match!One, Match!Other, scan)
  /\ pc = "listed" => scan.k = Match!Last /\ ListsFit(lists, Made(scan.k + 1))
  /\ Match!CommonTreesAgree /\ Match!OnlyIsNotCommon /\ Match!WhitelistsFit /\ Match!DifferencesTold
-----------------------------------------------------------------------------
\* Counting the items of an event.
LEMMA NumCounts == ASSUME NEW l, NEW n \in Nat, NEW e PROVE IsFiniteSet(At(l, n, e)) /\ Num(l, n, e) \in Nat
<1>1. At(l, n, e) \in SUBSET (1 .. n) /\ IsFiniteSet(1 .. n)
  BY FS_Interval DEF At
<1> QED BY <1>1, FS_Subset, FS_CardinalityType DEF Num

LEMMA NumNone == ASSUME NEW l, NEW e PROVE Num(l, 0, e) = 0
<1>1. At(l, 0, e) = {}
  BY DEF At
<1> QED BY <1>1, FS_EmptySet DEF Num

LEMMA NumNext ==
  ASSUME NEW l, NEW n \in Nat, NEW e
  PROVE  /\ l[n + 1].event = e => Num(l, n + 1, e) = Num(l, n, e) + 1
         /\ l[n + 1].event # e => Num(l, n + 1, e) = Num(l, n, e)
<1> DEFINE S == At(l, n, e)
           T == At(l, n + 1, e)
<1>1. l[n + 1].event = e => T = S \cup {n + 1}
  BY DEF At
<1>2. l[n + 1].event # e => T = S
  BY DEF At
<1>3. IsFiniteSet(S) /\ n + 1 \notin S
  <2>1. n + 1 \notin S
    BY DEF At
  <2> QED BY <2>1, NumCounts
<1>4. Num(l, n, e) = Cardinality(S) /\ Num(l, n + 1, e) = Cardinality(T)
  BY DEF Num
<1> HIDE DEF S, T
<1>5. Cardinality(S \cup {n + 1}) = Cardinality(S) + 1
  BY <1>3, FS_AddElement
<1> QED BY <1>1, <1>2, <1>4, <1>5

LEMMA NumSame ==
  ASSUME NEW l, NEW h, NEW n \in Nat, NEW e, \A i \in 1 .. n : l[i].event = h[i].event
  PROVE  Num(l, n, e) = Num(h, n, e)
<1>1. At(l, n, e) = At(h, n, e)
  BY DEF At
<1> QED BY <1>1 DEF Num

LEMMA NumMore ==
  ASSUME NEW l, NEW n \in Nat, NEW m \in 0 .. n, NEW e
  PROVE  /\ Num(l, m, e) <= Num(l, n, e)
         /\ (\A i \in m + 1 .. n : l[i].event # e) => Num(l, m, e) = Num(l, n, e)
<1> DEFINE S == At(l, m, e)
           T == At(l, n, e)
<1>1. S \in SUBSET T
  BY DEF At
<1>2. (\A i \in m + 1 .. n : l[i].event # e) => S = T
  BY DEF At
<1>3. IsFiniteSet(T)
  BY NumCounts
<1>4. Num(l, m, e) = Cardinality(S) /\ Num(l, n, e) = Cardinality(T)
  BY DEF Num
<1> HIDE DEF S, T
<1> QED BY <1>1, <1>2, <1>3, <1>4, FS_Subset

LEMMA TimesOfAppended ==
  ASSUME NEW l \in Seq(MatchItem), NEW x \in MatchItem, NEW e
  PROVE  /\ x.event = e => Times(Append(l, x), e) = Times(l, e) + 1
         /\ x.event # e => Times(Append(l, x), e) = Times(l, e)
<1> DEFINE h == Append(l, x)
           n == Len(l)
<1>1. n \in Nat /\ Len(h) = n + 1 /\ h[n + 1] = x /\ \A i \in 1 .. n : h[i] = l[i]
  OBVIOUS
<1>2. Times(h, e) = Num(h, n + 1, e) /\ Times(l, e) = Num(l, n, e)
  BY <1>1 DEF Times
<1> HIDE DEF h, n
<1>3. Num(h, n, e) = Num(l, n, e)
  BY <1>1, NumSame
<1>4. /\ x.event = e => Num(h, n + 1, e) = Num(h, n, e) + 1
      /\ x.event # e => Num(h, n + 1, e) = Num(h, n, e)
  BY <1>1, NumNext
<1>5. h = Append(l, x)
  BY DEF h
<1> QED BY <1>2, <1>3, <1>4, <1>5

LEMMA TimesNat == ASSUME NEW l \in Seq(MatchItem), NEW e PROVE Times(l, e) \in Nat /\ Times(<<>>, e) = 0
<1>1. Len(l) \in Nat /\ Len(<<>>) = 0
  OBVIOUS
<1> QED BY <1>1, NumCounts, NumNone DEF Times

LEMMA CountIs == ASSUME NEW s, NEW e PROVE Match!Count(s, e) = Cardinality({i \in DOMAIN s : s[i] = e})
BY DEF Match!Count, Match!Cardinality, Cardinality

LEMMA CountNat == ASSUME NEW tree \in Seq(Events), NEW e PROVE Match!Count(tree, e) \in Nat
<1>1. {i \in DOMAIN tree : tree[i] = e} \in SUBSET (1 .. Len(tree)) /\ IsFiniteSet(1 .. Len(tree))
  BY FS_Interval
<1> DEFINE S == {i \in DOMAIN tree : tree[i] = e}
<1>2. Match!Count(tree, e) = Cardinality(S)
  BY CountIs
<1> HIDE DEF S
<1>3. S \in SUBSET (1 .. Len(tree))
  BY <1>1 DEF S
<1> QED BY <1>1, <1>2, <1>3, FS_Subset, FS_CardinalityType

LEMMA CountOfEvents == ASSUME NEW l \in Seq(MatchItem), NEW e PROVE Match!Count([i \in DOMAIN l |-> l[i].event], e) = Times(l, e)
<1> DEFINE h == [i \in DOMAIN l |-> l[i].event]
<1>1. {i \in DOMAIN h : h[i] = e} = At(l, Len(l), e)
  BY DEF At
<1> HIDE DEF h
<1>2. Match!Count(h, e) = Times(l, e)
  BY <1>1, CountIs DEF Times, Num
<1> QED BY <1>2 DEF h

\* A sorted list of the events of a tree has each of them, once for each entry.
LEMMA SortedFits ==
  ASSUME MatchConstants, NEW tree \in Seq(Events), NEW l \in Match!getRunLumiEvent(tree)
  PROVE  /\ l \in Seq(MatchItem) /\ Ascending(l)
         /\ \A i \in DOMAIN l : Len(l[i].entries) = 1 /\ l[i].entries[1] \in DOMAIN tree /\ tree[l[i].entries[1]] = l[i].event
         /\ \A e \in Events : Times(l, e) = Match!Count(tree, e)
<1> DEFINE D == DOMAIN tree
<1>1. PICK p \in Match!Surjection(D, D) : l = Match!Listed(tree, p)
  BY DEF Match!getRunLumiEvent
<1>2. \A i, j \in DOMAIN l : i < j => Match!Less(l[i], l[j])
  BY DEF Match!getRunLumiEvent
<1>3. D = 1 .. Len(tree) /\ Len(tree) \in Nat /\ IsFiniteSet(D)
  BY FS_Interval
<1>4. p \in [D -> D] /\ \A i \in D : \E j \in D : p[j] = i
  BY <1>1 DEF Match!Surjection
<1>5. p \in Surjection(D, D)
  BY <1>4 DEF Surjection
<1>6. p \in Injection(D, D)
  BY <1>3, <1>5, FS_SurjSameCardinalityImpliesInj
<1>7. DOMAIN l = D /\ \A i \in D : l[i] = [event |-> tree[p[i]], entries |-> <<p[i]>>]
  BY <1>1 DEF Match!Listed, Match!Item
<1>8. \A i \in D : p[i] \in D /\ p[i] \in Nat /\ tree[p[i]] \in Events
  BY <1>3, <1>4
<1>9. \A i \in D : l[i] \in MatchItem /\ l[i].event = tree[p[i]] /\ Len(l[i].entries) = 1 /\ l[i].entries[1] = p[i]
  <2> SUFFICES ASSUME NEW i \in D
               PROVE  l[i] \in MatchItem /\ l[i].event = tree[p[i]] /\ Len(l[i].entries) = 1 /\ l[i].entries[1] = p[i]
    OBVIOUS
  <2> DEFINE q == <<p[i]>>
             e == tree[p[i]]
  <2>1. q \in Seq(Nat) /\ Len(q) = 1 /\ q[1] = p[i] /\ e \in Events
    BY <1>8
  <2>2. l[i] = [event |-> e, entries |-> q]
    BY <1>7
  <2> HIDE DEF q, e
  <2>3. l[i] \in MatchItem /\ l[i].event = e /\ l[i].entries = q
    BY <2>1, <2>2 DEF MatchItem
  <2>4. e = tree[p[i]]
    BY DEF e
  <2> QED BY <2>1, <2>3, <2>4
<1>10. l \in Seq(MatchItem)
  <2>1. l = [i \in 1 .. Len(tree) |-> l[i]]
    BY <1>1, <1>3, <1>7 DEF Match!Listed
  <2> QED BY <1>3, <1>9, <2>1
<1>11. Ascending(l)
  <2>1. \A i \in D : l[i].event \in Int
    BY <1>9 DEF MatchItem, MatchConstants
  <2> QED BY <1>2, <1>7, <2>1 DEF Ascending, Match!Less
<1>12. ASSUME NEW i \in DOMAIN l PROVE Len(l[i].entries) = 1 /\ l[i].entries[1] \in D /\ tree[l[i].entries[1]] = l[i].event
  <2>1. i \in D /\ p[i] \in D
    BY <1>7, <1>8
  <2>2. Len(l[i].entries) = 1 /\ l[i].entries[1] = p[i] /\ l[i].event = tree[p[i]]
    BY <1>9, <2>1
  <2> QED BY <2>1, <2>2
<1>13. ASSUME NEW e \in Events PROVE Times(l, e) = Match!Count(tree, e)
  <2> DEFINE S == {i \in D : tree[p[i]] = e}
             T == {i \in D : tree[i] = e}
             f == [i \in S |-> p[i]]
  <2>1. f \in Bijection(S, T)
    <3>1. f \in [S -> T]
      BY <1>4
    <3>2. \A i, j \in S : f[i] = f[j] => i = j
      <4>1. \A i, j \in D : p[i] = p[j] => i = j
        BY <1>6 DEF Injection, IsInjective
      <4> QED BY <4>1
    <3>3. \A i \in T : \E j \in S : f[j] = i
      BY <1>4
    <3>4. DOMAIN f = S
      OBVIOUS
    <3> HIDE DEF S, T, f
    <3>5. f \in Injection(S, T)
      BY <3>1, <3>2, <3>4 DEF Injection, IsInjective
    <3>6. f \in Surjection(S, T)
      BY <3>1, <3>3 DEF Surjection
    <3> QED BY <3>5, <3>6 DEF Bijection
  <2>2. IsFiniteSet(S)
    <3>1. S \in SUBSET D
      OBVIOUS
    <3> QED BY <1>3, <3>1, FS_Subset
  <2>3. Times(l, e) = Cardinality(S)
    <3>1. Len(l) = Len(tree)
      BY <1>3, <1>7, <1>10
    <3>2. At(l, Len(l), e) = S
      BY <1>3, <1>7, <3>1 DEF At
    <3> QED BY <3>2 DEF Times, Num
  <2>4. Match!Count(tree, e) = Cardinality(T)
    BY CountIs
  <2> HIDE DEF S, T, f
  <2>5. ExistsBijection(S, T)
    BY <2>1 DEF ExistsBijection
  <2> QED BY <2>2, <2>3, <2>4, <2>5, FS_Bijection
<1> QED BY <1>10, <1>11, <1>12, <1>13
-----------------------------------------------------------------------------
\* A turn of compareLists' loop, for any two sorted lists.
TurnOf(o, t, s) ==
  /\ s \in ScanType /\ o \in Seq(MatchItem) /\ t \in Seq(MatchItem)
  /\ Ascending(o) /\ Ascending(t) /\ \A b \in DOMAIN t : Len(t[b].entries) = 1
  /\ ScanFits(o, t, s) /\ s.n <= Len(o) /\ s.m <= Len(t)

LEMMA OneMoreItem ==
  ASSUME NEW l \in Seq(MatchItem), NEW x \in MatchItem, NEW h, h = Append(l, x)
  PROVE  /\ h \in Seq(MatchItem) /\ Len(l) \in Nat /\ DOMAIN l = 1 .. Len(l) /\ DOMAIN h = 1 .. Len(l) + 1
         /\ h[Len(l) + 1] = x /\ \A i \in DOMAIN l : h[i] = l[i]
OBVIOUS

LEMMA FirstOfOne == ASSUME NEW g \in Seq(Nat), Len(g) = 1 PROVE g[1] \in Nat
<1>1. 1 \in 1 .. Len(g) /\ DOMAIN g = 1 .. Len(g)
  OBVIOUS
<1>2. \A S : \A s \in Seq(S) : \A i \in 1 .. Len(s) : s[i] \in S
  OBVIOUS
<1> QED BY <1>1, <1>2


LEMMA TurnTypes ==
  ASSUME MatchConstants, NEW o, NEW t, NEW s, TurnOf(o, t, s)
  PROVE  /\ s.n \in DOMAIN o /\ s.m \in DOMAIN t /\ o[s.n] \in MatchItem /\ t[s.m] \in MatchItem
         /\ o[s.n].event \in Events /\ t[s.m].event \in Events /\ Events \subseteq Int
         /\ s.n \in Nat \ {0} /\ s.m \in Nat \ {0} /\ s.k \in Nat \ {0}
         /\ s.common \in Seq(MatchItem) /\ s.only1 \in Seq(MatchItem) /\ s.only2 \in Seq(MatchItem)
         /\ Match!Joined(o[s.n], t[s.m]) \in MatchItem /\ Match!Joined(o[s.n], t[s.m]).event = o[s.n].event
         /\ Len(o) \in Nat /\ Len(t) \in Nat /\ DOMAIN o = 1 .. Len(o) /\ DOMAIN t = 1 .. Len(t)
<1>1. /\ s.n \in Nat \ {0} /\ s.m \in Nat \ {0} /\ s.k \in Nat \ {0}
      /\ s.common \in Seq(MatchItem) /\ s.only1 \in Seq(MatchItem) /\ s.only2 \in Seq(MatchItem)
  BY DEF TurnOf, ScanType
<1>2. Len(o) \in Nat /\ Len(t) \in Nat /\ DOMAIN o = 1 .. Len(o) /\ DOMAIN t = 1 .. Len(t)
  BY DEF TurnOf
<1>3. s.n \in DOMAIN o /\ s.m \in DOMAIN t
  BY <1>1, <1>2 DEF TurnOf
<1>4. o[s.n] \in MatchItem /\ t[s.m] \in MatchItem
  BY <1>2, <1>3 DEF TurnOf
<1> DEFINE x == o[s.n]
           y == t[s.m]
<1>5. x \in MatchItem /\ y \in MatchItem /\ Len(y.entries) = 1
  BY <1>3, <1>4 DEF TurnOf
<1>6. Match!Joined(x, y) \in MatchItem /\ Match!Joined(x, y).event = x.event
  <2> HIDE DEF x, y
  <2> DEFINE f == x.entries
             g == y.entries
  <2>1. f \in Seq(Nat) /\ g \in Seq(Nat) /\ Len(g) = 1 /\ x.event \in Events
    BY <1>5 DEF MatchItem
  <2>2. Match!Joined(x, y) = [event |-> x.event, entries |-> Append(f, g[1])]
    BY DEF Match!Joined, Match!Item
  <2> HIDE DEF f, g
  <2>3. g[1] \in Nat
    <3>1. g \in Seq(Nat) /\ Len(g) = 1
      BY <2>1
    <3> QED BY <3>1, FirstOfOne
  <2> DEFINE h == Append(f, g[1])
  <2>4. h \in Seq(Nat)
    BY <2>1, <2>3
  <2>5. Match!Joined(x, y) = [event |-> x.event, entries |-> h]
    BY <2>2
  <2> HIDE DEF h
  <2> QED BY <2>1, <2>4, <2>5 DEF MatchItem
<1>7. x.event \in Events /\ y.event \in Events
  BY <1>5 DEF MatchItem
<1> QED BY <1>1, <1>2, <1>3, <1>4, <1>6, <1>7 DEF MatchConstants

\* What is one behind in a sorted list is not less.
LEMMA NextRises ==
  ASSUME MatchConstants, NEW l \in Seq(MatchItem), Ascending(l), NEW n \in Nat \ {0}, n + 1 <= Len(l)
  PROVE  l[n].event <= l[n + 1].event /\ l[n].event \in Int /\ l[n + 1].event \in Int
<1>1. Len(l) \in Nat /\ DOMAIN l = 1 .. Len(l) /\ n \in DOMAIN l /\ n + 1 \in DOMAIN l /\ n < n + 1
  OBVIOUS
<1>2. l[n] \in MatchItem /\ l[n + 1] \in MatchItem
  BY <1>1
<1> QED BY <1>1, <1>2 DEF Ascending, MatchItem, MatchConstants

LEMMA JoinFits ==
  ASSUME MatchConstants, NEW o, NEW t, NEW s, TurnOf(o, t, s), o[s.n].event = t[s.m].event, NEW z,
         z = [s EXCEPT !.n = @ + 1, !.m = @ + 1, !.common = Append(@, Match!Joined(o[s.n], t[s.m]))]
  PROVE  z \in ScanType /\ ScanFits(o, t, z)
<1> DEFINE x == o[s.n]
           y == t[s.m]
           j == Match!Joined(x, y)
           v == x.event
<1>1. /\ s.n \in DOMAIN o /\ s.m \in DOMAIN t /\ x \in MatchItem /\ y \in MatchItem /\ v \in Events /\ y.event = v /\ Events \subseteq Int
      /\ s.n \in Nat \ {0} /\ s.m \in Nat \ {0} /\ s.k \in Nat \ {0}
      /\ s.common \in Seq(MatchItem) /\ s.only1 \in Seq(MatchItem) /\ s.only2 \in Seq(MatchItem)
      /\ j \in MatchItem /\ j.event = v /\ Len(o) \in Nat /\ Len(t) \in Nat /\ DOMAIN o = 1 .. Len(o) /\ DOMAIN t = 1 .. Len(t)
  BY TurnTypes
<1>2. z.n = s.n + 1 /\ z.m = s.m + 1 /\ z.common = Append(s.common, j) /\ z.only1 = s.only1 /\ z.only2 = s.only2 /\ z.k = s.k
  BY DEF TurnOf, ScanType
<1>3. z \in ScanType
  <2>1. z.n \in Nat \ {0} /\ z.m \in Nat \ {0} /\ z.common \in Seq(MatchItem)
    <3>1. s.n + 1 \in Nat \ {0} /\ s.m + 1 \in Nat \ {0}
      BY <1>1
    <3>2. z.common \in Seq(MatchItem)
      BY <1>1, <1>2, OneMoreItem
    <3> QED BY <1>2, <3>1, <3>2
  <2>2. z = [k |-> z.k, n |-> z.n, m |-> z.m, common |-> z.common, only1 |-> z.only1, only2 |-> z.only2]
    BY DEF TurnOf, ScanType
  <2> QED BY <1>1, <1>2, <2>1, <2>2 DEF ScanType
<1>4. z.n <= Len(o) + 1 /\ z.m <= Len(t) + 1
  BY <1>1, <1>2
<1>5. o[s.n] = x /\ t[s.m] = y /\ s.n <= Len(o) /\ s.m <= Len(t) /\ ScanFits(o, t, s) /\ Ascending(o) /\ Ascending(t)
      /\ o \in Seq(MatchItem) /\ t \in Seq(MatchItem)
  BY DEF TurnOf
<1>6. z.n <= Len(o) => v <= o[z.n].event /\ o[z.n].event \in Int
  BY <1>1, <1>2, <1>5, NextRises
<1>7. z.m <= Len(t) => v <= t[z.m].event /\ t[z.m].event \in Int
  BY <1>1, <1>2, <1>5, NextRises
<1>j. j = Match!Joined(o[s.n], t[s.m])
  OBVIOUS
<1> HIDE DEF x, y, j, v
<1>8. Sorted(o, t, z)
  <2> SUFFICES ASSUME NEW e \in Events
               PROVE  /\ Num(o, z.n - 1, e) = Times(z.common, e) + Times(z.only1, e)
                      /\ Num(t, z.m - 1, e) = Times(z.common, e) + Times(z.only2, e)
                      /\ Times(z.only1, e) = 0 \/ Times(z.only2, e) = 0
                      /\ Times(z.only1, e) > 0 /\ z.m <= Len(t) => t[z.m].event > e
                      /\ Times(z.only2, e) > 0 /\ z.n <= Len(o) => o[z.n].event > e
    BY DEF Sorted
  <2>1. /\ Num(o, s.n - 1, e) = Times(s.common, e) + Times(s.only1, e)
        /\ Num(t, s.m - 1, e) = Times(s.common, e) + Times(s.only2, e)
        /\ Times(s.only1, e) = 0 \/ Times(s.only2, e) = 0
        /\ Times(s.only1, e) > 0 => y.event > e
        /\ Times(s.only2, e) > 0 => x.event > e
    BY <1>5 DEF ScanFits, Sorted
  <2>2. /\ v = e => Num(o, s.n, e) = Num(o, s.n - 1, e) + 1
        /\ v # e => Num(o, s.n, e) = Num(o, s.n - 1, e)
    <3>1. s.n - 1 \in Nat /\ (s.n - 1) + 1 = s.n
      BY <1>1
    <3> QED BY <1>5, <3>1, NumNext DEF v
  <2>3. /\ v = e => Num(t, s.m, e) = Num(t, s.m - 1, e) + 1
        /\ v # e => Num(t, s.m, e) = Num(t, s.m - 1, e)
    <3>1. s.m - 1 \in Nat /\ (s.m - 1) + 1 = s.m
      BY <1>1
    <3>2. t[s.m].event = v
      BY <1>1, <1>5
    <3> QED BY <3>1, <3>2, NumNext
  <2>4. /\ v = e => Times(z.common, e) = Times(s.common, e) + 1
        /\ v # e => Times(z.common, e) = Times(s.common, e)
    BY <1>1, <1>2, TimesOfAppended
  <2>5. Times(s.common, e) \in Nat /\ Times(s.only1, e) \in Nat /\ Times(s.only2, e) \in Nat
    BY <1>1, TimesNat
  <2>6. z.n - 1 = s.n /\ z.m - 1 = s.m
    BY <1>1, <1>2
  <2>7. e \in Int /\ v \in Int /\ x.event = v
    BY <1>1 DEF v
  <2> HIDE DEF v
  <2>8. Num(o, z.n - 1, e) = Times(z.common, e) + Times(z.only1, e) /\ Num(t, z.m - 1, e) = Times(z.common, e) + Times(z.only2, e)
    <3>1. Times(z.only1, e) = Times(s.only1, e) /\ Times(z.only2, e) = Times(s.only2, e)
      BY <1>2
    <3>2. CASE v = e
      <4>1. Num(o, s.n, e) = Times(s.common, e) + 1 + Times(s.only1, e) /\ Num(t, s.m, e) = Times(s.common, e) + 1 + Times(s.only2, e)
        BY <2>1, <2>2, <2>3, <2>5, <3>2
      <4> QED BY <2>4, <2>6, <3>1, <3>2, <4>1
    <3>3. CASE v # e
      BY <2>1, <2>2, <2>3, <2>4, <2>6, <3>1, <3>3
    <3> QED BY <3>2, <3>3
  <2>9. Times(z.only1, e) > 0 /\ z.m <= Len(t) => t[z.m].event > e
    <3>1. Times(z.only1, e) > 0 => v > e
      BY <1>1, <1>2, <2>1
    <3> QED BY <1>7, <2>7, <3>1
  <2>10. Times(z.only2, e) > 0 /\ z.n <= Len(o) => o[z.n].event > e
    <3>1. Times(z.only2, e) > 0 => v > e
      BY <1>2, <2>1, <2>7
    <3> QED BY <1>6, <2>7, <3>1
  <2> QED BY <1>2, <2>1, <2>8, <2>9, <2>10
<1>9. DOMAIN z.common = 1 .. Len(s.common) + 1 /\ z.common[Len(s.common) + 1] = j /\ Len(s.common) \in Nat
      /\ DOMAIN s.common = 1 .. Len(s.common) /\ \A i \in DOMAIN s.common : z.common[i] = s.common[i]
  <2> DEFINE l == s.common
             h == z.common
  <2>1. l \in Seq(MatchItem) /\ j \in MatchItem /\ h = Append(l, j)
    BY <1>1, <1>2
  <2> HIDE DEF l, h, j
  <2>2. /\ Len(l) \in Nat /\ DOMAIN l = 1 .. Len(l) /\ DOMAIN h = 1 .. Len(l) + 1
        /\ h[Len(l) + 1] = j /\ \A i \in DOMAIN l : h[i] = l[i]
    BY <2>1, OneMoreItem
  <2> QED BY <2>2 DEF l, h
<1>10. Sources(o, t, z)
  <2>1. /\ \A i \in DOMAIN s.only1 : \E a \in DOMAIN o : s.only1[i] = o[a]
        /\ \A i \in DOMAIN s.only2 : \E b \in DOMAIN t : s.only2[i] = t[b]
        /\ \A i \in DOMAIN s.common : \E a \in DOMAIN o, b \in DOMAIN t : o[a].event = t[b].event /\ s.common[i] = Match!Joined(o[a], t[b])
    BY <1>5 DEF ScanFits, Sources
  <2>2. ASSUME NEW i \in DOMAIN z.common
        PROVE  \E a \in DOMAIN o, b \in DOMAIN t : o[a].event = t[b].event /\ z.common[i] = Match!Joined(o[a], t[b])
    <3>1. CASE i \in DOMAIN s.common
      BY <1>9, <2>1, <3>1
    <3>2. CASE i = Len(s.common) + 1
      BY <1>1, <1>9, <1>j, <3>2
    <3> QED BY <1>9, <3>1, <3>2
  <2> QED BY <1>2, <2>1, <2>2 DEF Sources
<1>11. Rising(o, z)
  <2>1. Ascending(s.common) /\ \A i \in DOMAIN s.common : s.common[i].event <= v
    BY <1>5 DEF ScanFits, Rising, v, x
  <2>2. \A i \in DOMAIN s.common : s.common[i].event \in Int
    <3>1. \A i \in DOMAIN s.common : s.common[i] \in MatchItem
      BY <1>1
    <3> QED BY <1>1, <3>1 DEF MatchItem
  <2>3. Ascending(z.common)
    <3> SUFFICES ASSUME NEW i \in DOMAIN z.common, NEW k \in DOMAIN z.common, i < k PROVE z.common[i].event <= z.common[k].event
      BY DEF Ascending
    <3>1. i \in DOMAIN s.common
      BY <1>9
    <3>2. CASE k \in DOMAIN s.common
      BY <1>9, <2>1, <3>1, <3>2 DEF Ascending
    <3>3. CASE k = Len(s.common) + 1
      BY <1>1, <1>9, <2>1, <3>1, <3>3
    <3> QED BY <1>9, <3>2, <3>3
  <2>4. ASSUME NEW i \in DOMAIN z.common, z.n <= Len(o) PROVE z.common[i].event <= o[z.n].event
    <3>1. v <= o[z.n].event /\ o[z.n].event \in Int /\ v \in Int
      BY <1>1, <1>6, <2>4
    <3>2. CASE i \in DOMAIN s.common
      BY <1>9, <2>1, <2>2, <3>1, <3>2
    <3>3. CASE i = Len(s.common) + 1
      BY <1>1, <1>9, <3>1, <3>3
    <3> QED BY <1>9, <3>2, <3>3
  <2> QED BY <2>3, <2>4 DEF Rising
<1> QED BY <1>3, <1>4, <1>8, <1>10, <1>11 DEF ScanFits

LEMMA FirstFits ==
  ASSUME MatchConstants, NEW o, NEW t, NEW s, TurnOf(o, t, s), o[s.n].event < t[s.m].event, NEW z,
         z = [s EXCEPT !.n = @ + 1, !.only1 = Append(@, o[s.n])]
  PROVE  z \in ScanType /\ ScanFits(o, t, z)
<1> DEFINE x == o[s.n]
           y == t[s.m]
<1>1. /\ s.n \in DOMAIN o /\ s.m \in DOMAIN t /\ x \in MatchItem /\ y \in MatchItem
      /\ x.event \in Events /\ y.event \in Events /\ Events \subseteq Int
      /\ s.n \in Nat \ {0} /\ s.m \in Nat \ {0} /\ s.k \in Nat \ {0}
      /\ s.common \in Seq(MatchItem) /\ s.only1 \in Seq(MatchItem) /\ s.only2 \in Seq(MatchItem)
      /\ Len(o) \in Nat /\ Len(t) \in Nat /\ DOMAIN o = 1 .. Len(o) /\ DOMAIN t = 1 .. Len(t)
  BY TurnTypes
<1>2. z.n = s.n + 1 /\ z.m = s.m /\ z.common = s.common /\ z.only1 = Append(s.only1, x) /\ z.only2 = s.only2 /\ z.k = s.k
  BY DEF TurnOf, ScanType
<1>3. z \in ScanType
  <2>1. z.n \in Nat \ {0} /\ z.m \in Nat \ {0} /\ z.only1 \in Seq(MatchItem) /\ z.only2 \in Seq(MatchItem)
    BY <1>1, <1>2
  <2>2. z = [k |-> z.k, n |-> z.n, m |-> z.m, common |-> z.common, only1 |-> z.only1, only2 |-> z.only2]
    BY DEF TurnOf, ScanType
  <2> QED BY <1>1, <1>2, <2>1, <2>2 DEF ScanType
<1>4. z.n <= Len(o) + 1 /\ z.m <= Len(t) + 1
  BY <1>1, <1>2
<1>5. o[s.n] = x /\ t[s.m] = y /\ s.n <= Len(o) /\ s.m <= Len(t) /\ ScanFits(o, t, s) /\ Ascending(o) /\ Ascending(t)
      /\ o \in Seq(MatchItem) /\ t \in Seq(MatchItem) /\ x.event < y.event
  BY DEF TurnOf
<1>6. z.n <= Len(o) => x.event <= o[z.n].event /\ o[z.n].event \in Int
  BY <1>1, <1>2, <1>5, NextRises
<1> HIDE DEF x, y
<1>8. Sorted(o, t, z)
  <2> SUFFICES ASSUME NEW e \in Events
               PROVE  /\ Num(o, z.n - 1, e) = Times(z.common, e) + Times(z.only1, e)
                      /\ Num(t, z.m - 1, e) = Times(z.common, e) + Times(z.only2, e)
                      /\ Times(z.only1, e) = 0 \/ Times(z.only2, e) = 0
                      /\ Times(z.only1, e) > 0 /\ z.m <= Len(t) => t[z.m].event > e
                      /\ Times(z.only2, e) > 0 /\ z.n <= Len(o) => o[z.n].event > e
    BY DEF Sorted
  <2>1. /\ Num(o, s.n - 1, e) = Times(s.common, e) + Times(s.only1, e)
        /\ Num(t, s.m - 1, e) = Times(s.common, e) + Times(s.only2, e)
        /\ Times(s.only1, e) = 0 \/ Times(s.only2, e) = 0
        /\ Times(s.only1, e) > 0 => y.event > e
        /\ Times(s.only2, e) > 0 => x.event > e
    BY <1>5 DEF ScanFits, Sorted
  <2>2. /\ x.event = e => Num(o, s.n, e) = Num(o, s.n - 1, e) + 1
        /\ x.event # e => Num(o, s.n, e) = Num(o, s.n - 1, e)
    <3>1. s.n - 1 \in Nat /\ (s.n - 1) + 1 = s.n
      BY <1>1
    <3> QED BY <1>5, <3>1, NumNext
  <2>4. /\ x.event = e => Times(z.only1, e) = Times(s.only1, e) + 1
        /\ x.event # e => Times(z.only1, e) = Times(s.only1, e)
    BY <1>1, <1>2, TimesOfAppended
  <2>5. Times(s.common, e) \in Nat /\ Times(s.only1, e) \in Nat /\ Times(s.only2, e) \in Nat
    BY <1>1, TimesNat
  <2>6. z.n - 1 = s.n /\ z.m - 1 = s.m - 1
    BY <1>1, <1>2
  <2>7. e \in Int /\ x.event \in Int /\ y.event \in Int
    BY <1>1
  <2>8. Num(o, z.n - 1, e) = Times(z.common, e) + Times(z.only1, e) /\ Num(t, z.m - 1, e) = Times(z.common, e) + Times(z.only2, e)
    <3>1. Times(z.common, e) = Times(s.common, e) /\ Times(z.only2, e) = Times(s.only2, e)
      BY <1>2
    <3>2. CASE x.event = e
      <4>1. Num(o, s.n, e) = Times(s.common, e) + Times(s.only1, e) + 1
        BY <2>1, <2>2, <2>5, <3>2
      <4>2. Num(o, z.n - 1, e) = Num(o, s.n, e) /\ Num(t, z.m - 1, e) = Num(t, s.m - 1, e)
        BY <2>6
      <4>3. Times(z.only1, e) = Times(s.only1, e) + 1
        BY <2>4, <3>2
      <4> QED BY <2>1, <2>5, <3>1, <4>1, <4>2, <4>3
    <3>3. CASE x.event # e
      <4>1. Num(o, z.n - 1, e) = Num(o, s.n - 1, e) /\ Num(t, z.m - 1, e) = Num(t, s.m - 1, e)
        BY <2>2, <2>6, <3>3
      <4>2. Times(z.only1, e) = Times(s.only1, e)
        BY <2>4, <3>3
      <4> QED BY <2>1, <3>1, <4>1, <4>2
    <3> QED BY <3>2, <3>3
  <2>9. Times(z.only1, e) > 0 => y.event > e
    <3>1. CASE x.event = e
      BY <1>5, <2>7, <3>1
    <3>2. CASE x.event # e
      BY <2>1, <2>4, <3>2
    <3> QED BY <3>1, <3>2
  <2>10. Times(z.only2, e) > 0 => x.event > e
    BY <1>2, <2>1
  <2>11. Times(z.only2, e) > 0 /\ z.n <= Len(o) => o[z.n].event > e
    BY <1>6, <2>7, <2>10
  <2>12. z.m <= Len(t) => t[z.m].event = y.event
    BY <1>2, <1>5
  <2>13. Times(z.only1, e) = 0 \/ Times(z.only2, e) = 0
    <3>1. Times(z.only2, e) = 0 \/ Times(z.only2, e) > 0
      BY <1>2, <2>5
    <3>2. CASE Times(z.only2, e) > 0
      <4>1. x.event # e /\ Times(s.only2, e) > 0
        BY <1>2, <2>7, <2>10, <3>2
      <4>2. Times(z.only1, e) = Times(s.only1, e)
        BY <2>4, <4>1
      <4> QED BY <2>1, <4>1, <4>2
    <3> QED BY <3>1, <3>2
  <2>14. Times(z.only1, e) > 0 /\ z.m <= Len(t) => t[z.m].event > e
    BY <2>9, <2>12
  <2> QED BY <2>8, <2>11, <2>13, <2>14
<1>9. DOMAIN z.only1 = 1 .. Len(s.only1) + 1 /\ z.only1[Len(s.only1) + 1] = x /\ Len(s.only1) \in Nat
      /\ DOMAIN s.only1 = 1 .. Len(s.only1) /\ \A i \in DOMAIN s.only1 : z.only1[i] = s.only1[i]
  <2> DEFINE l == s.only1
             h == z.only1
  <2>1. l \in Seq(MatchItem) /\ x \in MatchItem /\ h = Append(l, x)
    BY <1>1, <1>2
  <2> HIDE DEF l, h, x
  <2>2. /\ Len(l) \in Nat /\ DOMAIN l = 1 .. Len(l) /\ DOMAIN h = 1 .. Len(l) + 1
        /\ h[Len(l) + 1] = x /\ \A i \in DOMAIN l : h[i] = l[i]
    BY <2>1, OneMoreItem
  <2> QED BY <2>2 DEF l, h
<1>10. Sources(o, t, z)
  <2>1. /\ \A i \in DOMAIN s.only1 : \E a \in DOMAIN o : s.only1[i] = o[a]
        /\ \A i \in DOMAIN s.only2 : \E b \in DOMAIN t : s.only2[i] = t[b]
        /\ \A i \in DOMAIN s.common : \E a \in DOMAIN o, b \in DOMAIN t : o[a].event = t[b].event /\ s.common[i] = Match!Joined(o[a], t[b])
    BY <1>5 DEF ScanFits, Sources
  <2>2. ASSUME NEW i \in DOMAIN z.only1 PROVE \E a \in DOMAIN o : z.only1[i] = o[a]
    <3>1. CASE i \in DOMAIN s.only1
      BY <1>9, <2>1, <3>1
    <3>2. CASE i = Len(s.only1) + 1
      BY <1>1, <1>5, <1>9, <3>2
    <3> QED BY <1>9, <3>1, <3>2
  <2> QED BY <1>2, <2>1, <2>2 DEF Sources
<1>11. Rising(o, z)
  <2>1. Ascending(s.common) /\ \A i \in DOMAIN s.common : s.common[i].event <= x.event
    BY <1>5 DEF ScanFits, Rising
  <2>2. \A i \in DOMAIN s.common : s.common[i].event \in Int
    <3>1. \A i \in DOMAIN s.common : s.common[i] \in MatchItem
      BY <1>1
    <3> QED BY <1>1, <3>1 DEF MatchItem
  <2>3. ASSUME NEW i \in DOMAIN s.common, z.n <= Len(o) PROVE s.common[i].event <= o[z.n].event
    <3>1. s.common[i].event <= x.event /\ s.common[i].event \in Int
      BY <2>1, <2>2
    <3>2. x.event <= o[z.n].event /\ o[z.n].event \in Int /\ x.event \in Int
      BY <1>1, <1>6, <2>3
    <3> QED BY <3>1, <3>2
  <2> QED BY <1>2, <2>1, <2>3 DEF Rising
<1> QED BY <1>3, <1>4, <1>8, <1>10, <1>11 DEF ScanFits

LEMMA SecondFits ==
  ASSUME MatchConstants, NEW o, NEW t, NEW s, TurnOf(o, t, s), o[s.n].event > t[s.m].event, NEW z,
         z = [s EXCEPT !.m = @ + 1, !.only2 = Append(@, t[s.m])]
  PROVE  z \in ScanType /\ ScanFits(o, t, z)
<1> DEFINE x == o[s.n]
           y == t[s.m]
<1>1. /\ s.n \in DOMAIN o /\ s.m \in DOMAIN t /\ x \in MatchItem /\ y \in MatchItem
      /\ x.event \in Events /\ y.event \in Events /\ Events \subseteq Int
      /\ s.n \in Nat \ {0} /\ s.m \in Nat \ {0} /\ s.k \in Nat \ {0}
      /\ s.common \in Seq(MatchItem) /\ s.only1 \in Seq(MatchItem) /\ s.only2 \in Seq(MatchItem)
      /\ Len(o) \in Nat /\ Len(t) \in Nat /\ DOMAIN o = 1 .. Len(o) /\ DOMAIN t = 1 .. Len(t)
  BY TurnTypes
<1>2. z.m = s.m + 1 /\ z.n = s.n /\ z.common = s.common /\ z.only2 = Append(s.only2, y) /\ z.only1 = s.only1 /\ z.k = s.k
  BY DEF TurnOf, ScanType
<1>3. z \in ScanType
  <2>1. z.n \in Nat \ {0} /\ z.m \in Nat \ {0} /\ z.only1 \in Seq(MatchItem) /\ z.only2 \in Seq(MatchItem)
    BY <1>1, <1>2
  <2>2. z = [k |-> z.k, n |-> z.n, m |-> z.m, common |-> z.common, only1 |-> z.only1, only2 |-> z.only2]
    BY DEF TurnOf, ScanType
  <2> QED BY <1>1, <1>2, <2>1, <2>2 DEF ScanType
<1>4. z.n <= Len(o) + 1 /\ z.m <= Len(t) + 1
  BY <1>1, <1>2
<1>5. o[s.n] = x /\ t[s.m] = y /\ s.n <= Len(o) /\ s.m <= Len(t) /\ ScanFits(o, t, s) /\ Ascending(o) /\ Ascending(t)
      /\ o \in Seq(MatchItem) /\ t \in Seq(MatchItem) /\ x.event > y.event
  BY DEF TurnOf
<1>6. z.m <= Len(t) => y.event <= t[z.m].event /\ t[z.m].event \in Int
  BY <1>1, <1>2, <1>5, NextRises
<1> HIDE DEF x, y
<1>8. Sorted(o, t, z)
  <2> SUFFICES ASSUME NEW e \in Events
               PROVE  /\ Num(o, z.n - 1, e) = Times(z.common, e) + Times(z.only1, e)
                      /\ Num(t, z.m - 1, e) = Times(z.common, e) + Times(z.only2, e)
                      /\ Times(z.only1, e) = 0 \/ Times(z.only2, e) = 0
                      /\ Times(z.only1, e) > 0 /\ z.m <= Len(t) => t[z.m].event > e
                      /\ Times(z.only2, e) > 0 /\ z.n <= Len(o) => o[z.n].event > e
    BY DEF Sorted
  <2>1. /\ Num(o, s.n - 1, e) = Times(s.common, e) + Times(s.only1, e)
        /\ Num(t, s.m - 1, e) = Times(s.common, e) + Times(s.only2, e)
        /\ Times(s.only1, e) = 0 \/ Times(s.only2, e) = 0
        /\ Times(s.only1, e) > 0 => y.event > e
        /\ Times(s.only2, e) > 0 => x.event > e
    BY <1>5 DEF ScanFits, Sorted
  <2>2. /\ y.event = e => Num(t, s.m, e) = Num(t, s.m - 1, e) + 1
        /\ y.event # e => Num(t, s.m, e) = Num(t, s.m - 1, e)
    <3>1. s.m - 1 \in Nat /\ (s.m - 1) + 1 = s.m
      BY <1>1
    <3> QED BY <1>5, <3>1, NumNext
  <2>4. /\ y.event = e => Times(z.only2, e) = Times(s.only2, e) + 1
        /\ y.event # e => Times(z.only2, e) = Times(s.only2, e)
    BY <1>1, <1>2, TimesOfAppended
  <2>5. Times(s.common, e) \in Nat /\ Times(s.only1, e) \in Nat /\ Times(s.only2, e) \in Nat
    BY <1>1, TimesNat
  <2>6. z.m - 1 = s.m /\ z.n - 1 = s.n - 1
    BY <1>1, <1>2
  <2>7. e \in Int /\ x.event \in Int /\ y.event \in Int
    BY <1>1
  <2>8. Num(o, z.n - 1, e) = Times(z.common, e) + Times(z.only1, e) /\ Num(t, z.m - 1, e) = Times(z.common, e) + Times(z.only2, e)
    <3>1. Times(z.common, e) = Times(s.common, e) /\ Times(z.only1, e) = Times(s.only1, e)
      BY <1>2
    <3>2. CASE y.event = e
      <4>1. Num(t, s.m, e) = Times(s.common, e) + Times(s.only2, e) + 1
        BY <2>1, <2>2, <2>5, <3>2
      <4>2. Num(t, z.m - 1, e) = Num(t, s.m, e) /\ Num(o, z.n - 1, e) = Num(o, s.n - 1, e)
        BY <2>6
      <4>3. Times(z.only2, e) = Times(s.only2, e) + 1
        BY <2>4, <3>2
      <4> QED BY <2>1, <2>5, <3>1, <4>1, <4>2, <4>3
    <3>3. CASE y.event # e
      <4>1. Num(t, z.m - 1, e) = Num(t, s.m - 1, e) /\ Num(o, z.n - 1, e) = Num(o, s.n - 1, e)
        BY <2>2, <2>6, <3>3
      <4>2. Times(z.only2, e) = Times(s.only2, e)
        BY <2>4, <3>3
      <4> QED BY <2>1, <3>1, <4>1, <4>2
    <3> QED BY <3>2, <3>3
  <2>9. Times(z.only2, e) > 0 => x.event > e
    <3>1. CASE y.event = e
      BY <1>5, <2>7, <3>1
    <3>2. CASE y.event # e
      BY <2>1, <2>4, <3>2
    <3> QED BY <3>1, <3>2
  <2>10. Times(z.only1, e) > 0 => y.event > e
    BY <1>2, <2>1
  <2>11. Times(z.only1, e) > 0 /\ z.m <= Len(t) => t[z.m].event > e
    BY <1>6, <2>7, <2>10
  <2>12. z.n <= Len(o) => o[z.n].event = x.event
    BY <1>2, <1>5
  <2>13. Times(z.only1, e) = 0 \/ Times(z.only2, e) = 0
    <3>1. Times(z.only1, e) = 0 \/ Times(z.only1, e) > 0
      BY <1>2, <2>5
    <3>2. CASE Times(z.only1, e) > 0
      <4>1. y.event # e /\ Times(s.only1, e) > 0
        BY <1>2, <2>7, <2>10, <3>2
      <4>2. Times(z.only2, e) = Times(s.only2, e)
        BY <2>4, <4>1
      <4> QED BY <2>1, <4>1, <4>2
    <3> QED BY <3>1, <3>2
  <2>14. Times(z.only2, e) > 0 /\ z.n <= Len(o) => o[z.n].event > e
    BY <2>9, <2>12
  <2> QED BY <2>8, <2>11, <2>13, <2>14
<1>9. DOMAIN z.only2 = 1 .. Len(s.only2) + 1 /\ z.only2[Len(s.only2) + 1] = y /\ Len(s.only2) \in Nat
      /\ DOMAIN s.only2 = 1 .. Len(s.only2) /\ \A i \in DOMAIN s.only2 : z.only2[i] = s.only2[i]
  <2> DEFINE l == s.only2
             h == z.only2
  <2>1. l \in Seq(MatchItem) /\ y \in MatchItem /\ h = Append(l, y)
    BY <1>1, <1>2
  <2> HIDE DEF l, h, y
  <2>2. /\ Len(l) \in Nat /\ DOMAIN l = 1 .. Len(l) /\ DOMAIN h = 1 .. Len(l) + 1
        /\ h[Len(l) + 1] = y /\ \A i \in DOMAIN l : h[i] = l[i]
    BY <2>1, OneMoreItem
  <2> QED BY <2>2 DEF l, h
<1>10. Sources(o, t, z)
  <2>1. /\ \A i \in DOMAIN s.only1 : \E a \in DOMAIN o : s.only1[i] = o[a]
        /\ \A i \in DOMAIN s.only2 : \E b \in DOMAIN t : s.only2[i] = t[b]
        /\ \A i \in DOMAIN s.common : \E a \in DOMAIN o, b \in DOMAIN t : o[a].event = t[b].event /\ s.common[i] = Match!Joined(o[a], t[b])
    BY <1>5 DEF ScanFits, Sources
  <2>2. ASSUME NEW i \in DOMAIN z.only2 PROVE \E a \in DOMAIN t : z.only2[i] = t[a]
    <3>1. CASE i \in DOMAIN s.only2
      BY <1>9, <2>1, <3>1
    <3>2. CASE i = Len(s.only2) + 1
      BY <1>1, <1>5, <1>9, <3>2
    <3> QED BY <1>9, <3>1, <3>2
  <2> QED BY <1>2, <2>1, <2>2 DEF Sources
<1>11. Rising(o, z)
  BY <1>2, <1>5 DEF ScanFits, Rising
<1> QED BY <1>3, <1>4, <1>8, <1>10, <1>11 DEF ScanFits

\* At the end of the loop each event has been counted.
LEMMA NoMore ==
  ASSUME MatchConstants, NEW l \in Seq(MatchItem), Ascending(l), NEW n \in Nat \ {0}, n <= Len(l) + 1, NEW e \in Events,
         n <= Len(l) => l[n].event > e
  PROVE  Num(l, n - 1, e) = Times(l, e)
<1>1. Len(l) \in Nat /\ DOMAIN l = 1 .. Len(l) /\ n - 1 \in 0 .. Len(l) /\ (n - 1) + 1 = n
  OBVIOUS
<1>2. ASSUME NEW i \in n .. Len(l) PROVE l[i].event # e
  <2>1. i \in DOMAIN l /\ n \in DOMAIN l /\ l[n].event > e
    BY <1>1
  <2>2. l[i] \in MatchItem /\ l[n] \in MatchItem
    BY <2>1
  <2>3. l[i].event \in Int /\ l[n].event \in Int /\ e \in Int
    BY <2>2 DEF MatchItem, MatchConstants
  <2>4. n = i \/ n < i
    BY <1>1
  <2>5. l[n].event <= l[i].event
    BY <2>1, <2>3, <2>4 DEF Ascending
  <2> QED BY <2>1, <2>3, <2>5
<1>3. \A i \in (n - 1) + 1 .. Len(l) : l[i].event # e
  BY <1>1, <1>2
<1> QED BY <1>1, <1>3, NumMore DEF Times

LEMMA EndCounts ==
  ASSUME MatchConstants, NEW o \in Seq(MatchItem), NEW t \in Seq(MatchItem), NEW s \in ScanType, Ascending(o), Ascending(t),
         ScanFits(o, t, s), ~(s.n <= Len(o) /\ s.m <= Len(t)), NEW e \in Events
  PROVE  /\ Times(s.common, e) <= Times(o, e) /\ Times(s.common, e) <= Times(t, e)
         /\ Times(s.common, e) = Times(o, e) \/ Times(s.common, e) = Times(t, e)
         /\ Times(s.only1, e) = 0 \/ Times(s.only1, e) + Times(t, e) <= Times(o, e)
         /\ Times(s.only2, e) = 0 \/ Times(s.only2, e) + Times(o, e) <= Times(t, e)
<1> DEFINE c == Times(s.common, e)
           p == Times(s.only1, e)
           q == Times(s.only2, e)
           a == Times(o, e)
           b == Times(t, e)
<1>1. /\ s.n \in Nat \ {0} /\ s.m \in Nat \ {0} /\ s.common \in Seq(MatchItem) /\ s.only1 \in Seq(MatchItem) /\ s.only2 \in Seq(MatchItem)
      /\ Len(o) \in Nat /\ Len(t) \in Nat /\ s.n <= Len(o) + 1 /\ s.m <= Len(t) + 1
  BY DEF ScanType, ScanFits
<1>2. c \in Nat /\ p \in Nat /\ q \in Nat /\ a \in Nat /\ b \in Nat
  BY <1>1, TimesNat
<1>3. /\ Num(o, s.n - 1, e) = c + p /\ Num(t, s.m - 1, e) = c + q
      /\ p = 0 \/ q = 0
      /\ p > 0 /\ s.m <= Len(t) => t[s.m].event > e
      /\ q > 0 /\ s.n <= Len(o) => o[s.n].event > e
  BY DEF ScanFits, Sorted
<1> HIDE DEF c, p, q, a, b
<1>4. c + p <= a
  <2>1. s.n - 1 \in 0 .. Len(o)
    BY <1>1
  <2>2. Num(o, s.n - 1, e) <= Num(o, Len(o), e)
    BY <1>1, <2>1, NumMore
  <2> QED BY <1>3, <2>2 DEF Times, a
<1>5. c + q <= b
  <2>1. s.m - 1 \in 0 .. Len(t)
    BY <1>1
  <2>2. Num(t, s.m - 1, e) <= Num(t, Len(t), e)
    BY <1>1, <2>1, NumMore
  <2> QED BY <1>3, <2>2 DEF Times, b
<1>6. s.n > Len(o) \/ q > 0 => c + p = a
  <2> SUFFICES ASSUME s.n > Len(o) \/ q > 0 PROVE c + p = a
    OBVIOUS
  <2>1. s.n <= Len(o) => o[s.n].event > e
    BY <1>1, <1>3
  <2>2. Num(o, s.n - 1, e) = Times(o, e)
    BY <1>1, <2>1, NoMore
  <2> QED BY <1>3, <2>2 DEF a
<1>7. s.m > Len(t) \/ p > 0 => c + q = b
  <2> SUFFICES ASSUME s.m > Len(t) \/ p > 0 PROVE c + q = b
    OBVIOUS
  <2>1. s.m <= Len(t) => t[s.m].event > e
    BY <1>1, <1>3
  <2>2. Num(t, s.m - 1, e) = Times(t, e)
    BY <1>1, <2>1, NoMore
  <2> QED BY <1>3, <2>2 DEF b
<1>8. s.n > Len(o) \/ s.m > Len(t)
  BY <1>1
<1>9. p = 0 \/ (p > 0 /\ q = 0)
  BY <1>2, <1>3
<1>10. c <= a /\ c <= b /\ (c = a \/ c = b) /\ (p = 0 \/ p + b <= a) /\ (q = 0 \/ q + a <= b)
  BY <1>2, <1>4, <1>5, <1>6, <1>7, <1>8, <1>9
<1> QED BY <1>10 DEF c, p, q, a, b

\* What compareLists returns: items that fit the trees of both lists, or of one.
LEMMA EndItems ==
  ASSUME MatchConstants, NEW o \in Seq(MatchItem), NEW t \in Seq(MatchItem), NEW s \in ScanType, ScanFits(o, t, s),
         NEW ts \in Seq(Nat), NEW u \in Nat, NEW us, us = <<u>>, Fits(o, ts), Fits(t, us)
  PROVE  Fits(s.common, Append(ts, u)) /\ Fits(s.only1, ts) /\ Fits(s.only2, us) /\ Ascending(s.common)
<1>1. Ascending(s.common)
  BY DEF ScanFits, Rising
<1>2. Fits(s.only1, ts) /\ Fits(s.only2, us)
  BY DEF ScanFits, Sources, Fits
<1>3. ASSUME NEW i \in DOMAIN s.common PROVE FitsOne(s.common[i], Append(ts, u))
  <2>1. PICK a \in DOMAIN o, b \in DOMAIN t : o[a].event = t[b].event /\ s.common[i] = Match!Joined(o[a], t[b])
    BY DEF ScanFits, Sources
  <2> DEFINE x == o[a]
             y == t[b]
  <2>2. x \in MatchItem /\ y \in MatchItem /\ FitsOne(x, ts) /\ FitsOne(y, us)
    BY DEF Fits
  <2> DEFINE f == x.entries
             g == y.entries
             h == Append(f, g[1])
             vs == Append(ts, u)
  <2>3. x.event = y.event /\ s.common[i] = [event |-> x.event, entries |-> h]
    BY <2>1 DEF Match!Joined, Match!Item
  <2>4. f \in Seq(Nat) /\ g \in Seq(Nat)
    BY <2>2 DEF MatchItem
  <2> HIDE DEF x, y
  <2>5. /\ Len(f) = Len(ts) /\ \A q \in DOMAIN ts : f[q] \in DOMAIN trees[ts[q]] /\ trees[ts[q]][f[q]] = x.event
        /\ Len(g) = 1 /\ g[1] \in DOMAIN trees[u] /\ trees[u][g[1]] = y.event
    <3>1. Len(us) = 1 /\ 1 \in DOMAIN us /\ us[1] = u
      OBVIOUS
    <3> QED BY <2>2, <3>1 DEF FitsOne
  <2> HIDE DEF f, g
  <2>6. g[1] \in Nat
    BY <2>4, <2>5, FirstOfOne
  <2>7. /\ Len(ts) \in Nat /\ DOMAIN ts = 1 .. Len(ts) /\ DOMAIN vs = 1 .. Len(ts) + 1 /\ Len(vs) = Len(ts) + 1
        /\ vs[Len(ts) + 1] = u /\ \A q \in DOMAIN ts : vs[q] = ts[q]
    OBVIOUS
  <2>8. /\ Len(h) = Len(f) + 1 /\ h[Len(f) + 1] = g[1] /\ \A q \in 1 .. Len(f) : h[q] = f[q]
    BY <2>4, <2>6
  <2> HIDE DEF h, vs
  <2>9. s.common[i].entries = h /\ s.common[i].event = x.event
    BY <2>3
  <2>10. ASSUME NEW q \in DOMAIN vs PROVE h[q] \in DOMAIN trees[vs[q]] /\ trees[vs[q]][h[q]] = x.event
    <3>1. CASE q \in DOMAIN ts
      BY <2>5, <2>7, <2>8, <3>1
    <3>2. CASE q = Len(ts) + 1
      <4>1. h[q] = g[1] /\ vs[q] = u
        BY <2>5, <2>7, <2>8, <3>2
      <4> QED BY <2>3, <2>5, <4>1
    <3>3. q \in DOMAIN ts \/ q = Len(ts) + 1
      BY <2>7
    <3> QED BY <3>1, <3>2, <3>3
  <2>11. Len(h) = Len(vs)
    BY <2>5, <2>7, <2>8
  <2>12. FitsOne(s.common[i], vs)
    BY <2>9, <2>10, <2>11 DEF FitsOne
  <2> QED BY <2>12 DEF vs
<1> QED BY <1>1, <1>2, <1>3 DEF Fits

-----------------------------------------------------------------------------
\* The names of a comparison and the trees that its lists are about.
RowFits(c, k) ==
  /\ c.one \in Made(k) /\ c.two \in Made(k)
  /\ c.common \in Match!ListNames /\ c.only1 \in Match!ListNames /\ c.only2 \in Match!ListNames
  /\ Held[c.two] = <<Held[c.two][1]>> /\ Held[c.two][1] \in Match!Matched /\ \A q \in DOMAIN Held[c.one] : Held[c.one][q] \in Match!Matched
  /\ c.common \in Wholes => Held[c.common] = Append(Held[c.one], Held[c.two][1])
  /\ c.only1 \in Rests => Held[c.only1] = Held[c.one] /\ Len(Held[c.one]) = 1
  /\ c.only2 \in Rests => Held[c.only2] = Held[c.two]
  /\ c.common \notin Rests /\ c.only1 \notin Wholes /\ c.only2 \notin Wholes
  /\ Made(k + 1) \subseteq Made(k) \cup {c.common}

LEMMA HeldIs ==
  /\ DOMAIN Held = Wholes \cup Rests /\ Wholes \cup Rests \subseteq Match!ListNames
  /\ Held["l1"] = <<1>> /\ Held["l2"] = <<2>> /\ Held["l3"] = <<3>> /\ Held["o1"] = <<1>> /\ Held["o2"] = <<2>> /\ Held["o3"] = <<3>>
  /\ Held["com12"] = <<1, 2>> /\ Held["com13"] = <<1, 3>> /\ Held["com23"] = <<2, 3>> /\ Held["com123"] = <<1, 2, 3>>
BY DEF Held, Wholes, Rests, Match!ListNames

LEMMA MadeIs ==
  ASSUME NEW k \in Nat, NEW x
  PROVE  x \in Made(k) <=> \/ x \in {"l1", "l2"} /\ k > 0
                           \/ x = "l3" /\ k > 0 /\ Len(trees) = 3
                           \/ x = "com12" /\ k > 1
                           \/ x = "com123" /\ k > 2
                           \/ x = "com13" /\ k > 3
                           \/ x = "com23" /\ k > 4
BY DEF Made, Wholes, Rank

LEMMA HeldLen ==
  /\ \A x \in {"l1", "l2", "l3", "o1", "o2", "o3"} : Len(Held[x]) = 1 /\ DOMAIN Held[x] = {1}
  /\ Held["l1"][1] = 1 /\ Held["l2"][1] = 2 /\ Held["l3"][1] = 3
  /\ \A x \in {"com12", "com13", "com23"} : DOMAIN Held[x] = {1, 2} /\ Held[x][1] \in 1 .. 3 /\ Held[x][2] \in 1 .. 3
  /\ Held["com12"][1] = 1 /\ Held["com12"][2] = 2
<1>1. Len(<<1>>) = 1 /\ DOMAIN <<1>> = {1} /\ <<1>>[1] = 1 /\ Len(<<2>>) = 1 /\ DOMAIN <<2>> = {1} /\ <<2>>[1] = 2
      /\ Len(<<3>>) = 1 /\ DOMAIN <<3>> = {1} /\ <<3>>[1] = 3
  OBVIOUS
<1>2. DOMAIN <<1, 2>> = {1, 2} /\ <<1, 2>>[1] = 1 /\ <<1, 2>>[2] = 2
  OBVIOUS
<1>3. DOMAIN <<1, 3>> = {1, 2} /\ <<1, 3>>[1] = 1 /\ <<1, 3>>[2] = 3
  OBVIOUS
<1>4. DOMAIN <<2, 3>> = {1, 2} /\ <<2, 3>>[1] = 2 /\ <<2, 3>>[2] = 3
  OBVIOUS
<1>5. \A x \in {"l1", "l2", "l3", "o1", "o2", "o3"} : Len(Held[x]) = 1 /\ DOMAIN Held[x] = {1}
  BY <1>1, HeldIs
<1>6. Held["l1"][1] = 1 /\ Held["l2"][1] = 2 /\ Held["l3"][1] = 3
  BY <1>1, HeldIs
<1>7. Held["com12"][1] = 1 /\ Held["com12"][2] = 2
  BY <1>2, HeldIs
<1>8. \A x \in {"com12", "com13", "com23"} : DOMAIN Held[x] = {1, 2} /\ Held[x][1] \in 1 .. 3 /\ Held[x][2] \in 1 .. 3
  BY <1>2, <1>3, <1>4, HeldIs
<1> QED BY <1>5, <1>6, <1>7, <1>8

LEMMA SameItems ==
  ASSUME NEW s \in Seq(Nat), NEW t \in Seq(Nat), Len(s) = Len(t), \A i \in 1 .. Len(s) : s[i] = t[i]
  PROVE  s = t
OBVIOUS

LEMMA Appended ==
  ASSUME NEW s \in Seq(Nat), NEW u \in Nat
  PROVE  /\ Append(s, u) \in Seq(Nat) /\ Len(Append(s, u)) = Len(s) + 1 /\ Append(s, u)[Len(s) + 1] = u
         /\ \A i \in 1 .. Len(s) : Append(s, u)[i] = s[i]
OBVIOUS

LEMMA TwoOf == ASSUME NEW a \in Nat, NEW u \in Nat PROVE Append(<<a>>, u) = <<a, u>>
<1> DEFINE p == <<a>>
           q == <<a, u>>
           r == Append(p, u)
<1>1. p \in Seq(Nat) /\ Len(p) = 1 /\ p[1] = a
  OBVIOUS
<1>2. q \in Seq(Nat) /\ Len(q) = 2 /\ q[1] = a /\ q[2] = u
  OBVIOUS
<1> HIDE DEF p, q
<1>5. r \in Seq(Nat) /\ Len(r) = Len(p) + 1 /\ r[Len(p) + 1] = u /\ \A i \in 1 .. Len(p) : r[i] = p[i]
  BY <1>1, Appended
<1> HIDE DEF r
<1>3. r \in Seq(Nat) /\ Len(r) = 2 /\ r[2] = u /\ r[1] = a
  BY <1>1, <1>5
<1>4. r = q
  <2>1. \A i \in 1 .. 2 : r[i] = q[i]
    BY <1>2, <1>3
  <2> QED BY <1>2, <1>3, <2>1, SameItems
<1> QED BY <1>4 DEF p, q, r

LEMMA ThreeOf == ASSUME NEW a \in Nat, NEW b \in Nat, NEW u \in Nat PROVE Append(<<a, b>>, u) = <<a, b, u>>
<1> DEFINE p == <<a, b>>
           q == <<a, b, u>>
           r == Append(p, u)
<1>1. p \in Seq(Nat) /\ Len(p) = 2 /\ p[1] = a /\ p[2] = b
  OBVIOUS
<1>2. q \in Seq(Nat) /\ Len(q) = 3 /\ q[1] = a /\ q[2] = b /\ q[3] = u
  OBVIOUS
<1> HIDE DEF p, q
<1>5. r \in Seq(Nat) /\ Len(r) = Len(p) + 1 /\ r[Len(p) + 1] = u /\ \A i \in 1 .. Len(p) : r[i] = p[i]
  BY <1>1, Appended
<1> HIDE DEF r
<1>3. r \in Seq(Nat) /\ Len(r) = 3 /\ r[3] = u /\ r[1] = a /\ r[2] = b
  BY <1>1, <1>5
<1>4. r = q
  <2>1. \A i \in 1 .. 3 : r[i] = q[i]
    BY <1>2, <1>3
  <2> QED BY <1>2, <1>3, <2>1, SameItems
<1> QED BY <1>4 DEF p, q, r

LEMMA HeldJoined ==
  /\ Held["com12"] = Append(Held["l1"], 2) /\ Held["com13"] = Append(Held["l1"], 3)
  /\ Held["com23"] = Append(Held["l2"], 3) /\ Held["com123"] = Append(Held["com12"], 3)
<1>1. Append(<<1>>, 2) = <<1, 2>> /\ Append(<<1>>, 3) = <<1, 3>> /\ Append(<<2>>, 3) = <<2, 3>> /\ Append(<<1, 2>>, 3) = <<1, 2, 3>>
  BY TwoOf, ThreeOf
<1> QED BY <1>1, HeldIs

\* One lemma for each of the six comparisons that are ever made.
LEMMA RowFits1 == RowFits(Match!Of("l1", "l2", "com12", "o1", "o2"), 1)
<1> DEFINE c == Match!Of("l1", "l2", "com12", "o1", "o2")
<1>1. c.one = "l1" /\ c.two = "l2" /\ c.common = "com12" /\ c.only1 = "o1" /\ c.only2 = "o2"
  BY DEF Match!Of
<1>2. Made(1 + 1) \subseteq Made(1) \cup {"com12"} /\ "l1" \in Made(1) /\ "l2" \in Made(1)
  BY MadeIs
<1>3. \A q \in DOMAIN Held["l1"] : Held["l1"][q] \in Match!Matched
  BY HeldLen DEF Match!Matched
<1> HIDE DEF c
<1>4. c.one \in Made(1) /\ c.two \in Made(1) /\ Made(1 + 1) \subseteq Made(1) \cup {c.common}
  BY <1>1, <1>2
<1>5. c.common \in Match!ListNames /\ c.only1 \in Match!ListNames /\ c.only2 \in Match!ListNames
      /\ c.common \notin Rests /\ c.only1 \notin Wholes /\ c.only2 \notin Wholes
  BY <1>1 DEF Wholes, Rests, Match!ListNames
<1>6. Held[c.two] = <<Held[c.two][1]>> /\ Held[c.two][1] \in Match!Matched /\ \A q \in DOMAIN Held[c.one] : Held[c.one][q] \in Match!Matched
  BY <1>1, <1>3, HeldIs, HeldLen DEF Match!Matched
<1>7. c.common \in Wholes => Held[c.common] = Append(Held[c.one], Held[c.two][1])
  BY <1>1, HeldLen, HeldJoined DEF Wholes
<1>8. c.only1 \in Rests => Held[c.only1] = Held[c.one] /\ Len(Held[c.one]) = 1
  BY <1>1, HeldIs, HeldLen DEF Rests
<1>9. c.only2 \in Rests => Held[c.only2] = Held[c.two]
  BY <1>1, HeldIs DEF Rests
<1>10. RowFits(c, 1)
  BY <1>4, <1>5, <1>6, <1>7, <1>8, <1>9 DEF RowFits
<1> QED BY <1>10 DEF c

LEMMA RowFits2 == ASSUME Len(trees) = 3 PROVE RowFits(Match!Of("com12", "l3", "com123", "ocom12", "o3"), 2)
<1> DEFINE c == Match!Of("com12", "l3", "com123", "ocom12", "o3")
<1>1. c.one = "com12" /\ c.two = "l3" /\ c.common = "com123" /\ c.only1 = "ocom12" /\ c.only2 = "o3"
  BY DEF Match!Of
<1>2. Made(2 + 1) \subseteq Made(2) \cup {"com123"} /\ "com12" \in Made(2) /\ "l3" \in Made(2)
  BY MadeIs
<1>3. \A q \in DOMAIN Held["com12"] : Held["com12"][q] \in Match!Matched
  BY HeldLen DEF Match!Matched
<1> HIDE DEF c
<1>4. c.one \in Made(2) /\ c.two \in Made(2) /\ Made(2 + 1) \subseteq Made(2) \cup {c.common}
  BY <1>1, <1>2
<1>5. c.common \in Match!ListNames /\ c.only1 \in Match!ListNames /\ c.only2 \in Match!ListNames
      /\ c.common \notin Rests /\ c.only1 \notin Wholes /\ c.only2 \notin Wholes
  BY <1>1 DEF Wholes, Rests, Match!ListNames
<1>6. Held[c.two] = <<Held[c.two][1]>> /\ Held[c.two][1] \in Match!Matched /\ \A q \in DOMAIN Held[c.one] : Held[c.one][q] \in Match!Matched
  BY <1>1, <1>3, HeldIs, HeldLen DEF Match!Matched
<1>7. c.common \in Wholes => Held[c.common] = Append(Held[c.one], Held[c.two][1])
  BY <1>1, HeldLen, HeldJoined DEF Wholes
<1>8. c.only1 \in Rests => Held[c.only1] = Held[c.one] /\ Len(Held[c.one]) = 1
  BY <1>1, HeldIs, HeldLen DEF Rests
<1>9. c.only2 \in Rests => Held[c.only2] = Held[c.two]
  BY <1>1, HeldIs DEF Rests
<1>10. RowFits(c, 2)
  BY <1>4, <1>5, <1>6, <1>7, <1>8, <1>9 DEF RowFits
<1> QED BY <1>10 DEF c

LEMMA RowFits3 == ASSUME Len(trees) = 3 PROVE RowFits(Match!Of("l1", "l3", "com13", "tmp", "tmp"), 3)
<1> DEFINE c == Match!Of("l1", "l3", "com13", "tmp", "tmp")
<1>1. c.one = "l1" /\ c.two = "l3" /\ c.common = "com13" /\ c.only1 = "tmp" /\ c.only2 = "tmp"
  BY DEF Match!Of
<1>2. Made(3 + 1) \subseteq Made(3) \cup {"com13"} /\ "l1" \in Made(3) /\ "l3" \in Made(3)
  BY MadeIs
<1>3. \A q \in DOMAIN Held["l1"] : Held["l1"][q] \in Match!Matched
  BY HeldLen DEF Match!Matched
<1> HIDE DEF c
<1>4. c.one \in Made(3) /\ c.two \in Made(3) /\ Made(3 + 1) \subseteq Made(3) \cup {c.common}
  BY <1>1, <1>2
<1>5. c.common \in Match!ListNames /\ c.only1 \in Match!ListNames /\ c.only2 \in Match!ListNames
      /\ c.common \notin Rests /\ c.only1 \notin Wholes /\ c.only2 \notin Wholes
  BY <1>1 DEF Wholes, Rests, Match!ListNames
<1>6. Held[c.two] = <<Held[c.two][1]>> /\ Held[c.two][1] \in Match!Matched /\ \A q \in DOMAIN Held[c.one] : Held[c.one][q] \in Match!Matched
  BY <1>1, <1>3, HeldIs, HeldLen DEF Match!Matched
<1>7. c.common \in Wholes => Held[c.common] = Append(Held[c.one], Held[c.two][1])
  BY <1>1, HeldLen, HeldJoined DEF Wholes
<1>8. c.only1 \in Rests => Held[c.only1] = Held[c.one] /\ Len(Held[c.one]) = 1
  BY <1>1, HeldIs, HeldLen DEF Rests
<1>9. c.only2 \in Rests => Held[c.only2] = Held[c.two]
  BY <1>1, HeldIs DEF Rests
<1>10. RowFits(c, 3)
  BY <1>4, <1>5, <1>6, <1>7, <1>8, <1>9 DEF RowFits
<1> QED BY <1>10 DEF c

LEMMA RowFits4 == ASSUME Len(trees) = 3 PROVE RowFits(Match!Of("l2", "l3", "com23", "tmp", "tmp"), 4)
<1> DEFINE c == Match!Of("l2", "l3", "com23", "tmp", "tmp")
<1>1. c.one = "l2" /\ c.two = "l3" /\ c.common = "com23" /\ c.only1 = "tmp" /\ c.only2 = "tmp"
  BY DEF Match!Of
<1>2. Made(4 + 1) \subseteq Made(4) \cup {"com23"} /\ "l2" \in Made(4) /\ "l3" \in Made(4)
  BY MadeIs
<1>3. \A q \in DOMAIN Held["l2"] : Held["l2"][q] \in Match!Matched
  BY HeldLen DEF Match!Matched
<1> HIDE DEF c
<1>4. c.one \in Made(4) /\ c.two \in Made(4) /\ Made(4 + 1) \subseteq Made(4) \cup {c.common}
  BY <1>1, <1>2
<1>5. c.common \in Match!ListNames /\ c.only1 \in Match!ListNames /\ c.only2 \in Match!ListNames
      /\ c.common \notin Rests /\ c.only1 \notin Wholes /\ c.only2 \notin Wholes
  BY <1>1 DEF Wholes, Rests, Match!ListNames
<1>6. Held[c.two] = <<Held[c.two][1]>> /\ Held[c.two][1] \in Match!Matched /\ \A q \in DOMAIN Held[c.one] : Held[c.one][q] \in Match!Matched
  BY <1>1, <1>3, HeldIs, HeldLen DEF Match!Matched
<1>7. c.common \in Wholes => Held[c.common] = Append(Held[c.one], Held[c.two][1])
  BY <1>1, HeldLen, HeldJoined DEF Wholes
<1>8. c.only1 \in Rests => Held[c.only1] = Held[c.one] /\ Len(Held[c.one]) = 1
  BY <1>1, HeldIs, HeldLen DEF Rests
<1>9. c.only2 \in Rests => Held[c.only2] = Held[c.two]
  BY <1>1, HeldIs DEF Rests
<1>10. RowFits(c, 4)
  BY <1>4, <1>5, <1>6, <1>7, <1>8, <1>9 DEF RowFits
<1> QED BY <1>10 DEF c

LEMMA RowFits5 == ASSUME Len(trees) = 3 PROVE RowFits(Match!Of("com13", "l2", "tmp", "tmp", "o2"), 5)
<1> DEFINE c == Match!Of("com13", "l2", "tmp", "tmp", "o2")
<1>1. c.one = "com13" /\ c.two = "l2" /\ c.common = "tmp" /\ c.only1 = "tmp" /\ c.only2 = "o2"
  BY DEF Match!Of
<1>2. Made(5 + 1) \subseteq Made(5) \cup {"tmp"} /\ "com13" \in Made(5) /\ "l2" \in Made(5)
  BY MadeIs
<1>3. \A q \in DOMAIN Held["com13"] : Held["com13"][q] \in Match!Matched
  BY HeldLen DEF Match!Matched
<1> HIDE DEF c
<1>4. c.one \in Made(5) /\ c.two \in Made(5) /\ Made(5 + 1) \subseteq Made(5) \cup {c.common}
  BY <1>1, <1>2
<1>5. c.common \in Match!ListNames /\ c.only1 \in Match!ListNames /\ c.only2 \in Match!ListNames
      /\ c.common \notin Rests /\ c.only1 \notin Wholes /\ c.only2 \notin Wholes
  BY <1>1 DEF Wholes, Rests, Match!ListNames
<1>6. Held[c.two] = <<Held[c.two][1]>> /\ Held[c.two][1] \in Match!Matched /\ \A q \in DOMAIN Held[c.one] : Held[c.one][q] \in Match!Matched
  BY <1>1, <1>3, HeldIs, HeldLen DEF Match!Matched
<1>7. c.common \in Wholes => Held[c.common] = Append(Held[c.one], Held[c.two][1])
  BY <1>1, HeldLen, HeldJoined DEF Wholes
<1>8. c.only1 \in Rests => Held[c.only1] = Held[c.one] /\ Len(Held[c.one]) = 1
  BY <1>1, HeldIs, HeldLen DEF Rests
<1>9. c.only2 \in Rests => Held[c.only2] = Held[c.two]
  BY <1>1, HeldIs DEF Rests
<1>10. RowFits(c, 5)
  BY <1>4, <1>5, <1>6, <1>7, <1>8, <1>9 DEF RowFits
<1> QED BY <1>10 DEF c

LEMMA RowFits6 == ASSUME Len(trees) = 3 PROVE RowFits(Match!Of("com23", "l1", "tmp", "tmp", "o1"), 6)
<1> DEFINE c == Match!Of("com23", "l1", "tmp", "tmp", "o1")
<1>1. c.one = "com23" /\ c.two = "l1" /\ c.common = "tmp" /\ c.only1 = "tmp" /\ c.only2 = "o1"
  BY DEF Match!Of
<1>2. Made(6 + 1) \subseteq Made(6) \cup {"tmp"} /\ "com23" \in Made(6) /\ "l1" \in Made(6)
  BY MadeIs
<1>3. \A q \in DOMAIN Held["com23"] : Held["com23"][q] \in Match!Matched
  BY HeldLen DEF Match!Matched
<1> HIDE DEF c
<1>4. c.one \in Made(6) /\ c.two \in Made(6) /\ Made(6 + 1) \subseteq Made(6) \cup {c.common}
  BY <1>1, <1>2
<1>5. c.common \in Match!ListNames /\ c.only1 \in Match!ListNames /\ c.only2 \in Match!ListNames
      /\ c.common \notin Rests /\ c.only1 \notin Wholes /\ c.only2 \notin Wholes
  BY <1>1 DEF Wholes, Rests, Match!ListNames
<1>6. Held[c.two] = <<Held[c.two][1]>> /\ Held[c.two][1] \in Match!Matched /\ \A q \in DOMAIN Held[c.one] : Held[c.one][q] \in Match!Matched
  BY <1>1, <1>3, HeldIs, HeldLen DEF Match!Matched
<1>7. c.common \in Wholes => Held[c.common] = Append(Held[c.one], Held[c.two][1])
  BY <1>1, HeldLen, HeldJoined DEF Wholes
<1>8. c.only1 \in Rests => Held[c.only1] = Held[c.one] /\ Len(Held[c.one]) = 1
  BY <1>1, HeldIs, HeldLen DEF Rests
<1>9. c.only2 \in Rests => Held[c.only2] = Held[c.two]
  BY <1>1, HeldIs DEF Rests
<1>10. RowFits(c, 6)
  BY <1>4, <1>5, <1>6, <1>7, <1>8, <1>9 DEF RowFits
<1> QED BY <1>10 DEF c

LEMMA RowsFit ==
  ASSUME NEW k \in 1 .. Match!Last
  PROVE  RowFits(Match!Comparisons[k], k)
<1>1. /\ k \in 1 .. 6 /\ (k > 1 => Len(trees) = 3)
      /\ k = 1 => Match!Comparisons[k] = Match!Of("l1", "l2", "com12", "o1", "o2")
      /\ k = 2 => Match!Comparisons[k] = Match!Of("com12", "l3", "com123", "ocom12", "o3")
      /\ k = 3 => Match!Comparisons[k] = Match!Of("l1", "l3", "com13", "tmp", "tmp")
      /\ k = 4 => Match!Comparisons[k] = Match!Of("l2", "l3", "com23", "tmp", "tmp")
      /\ k = 5 => Match!Comparisons[k] = Match!Of("com13", "l2", "tmp", "tmp", "o2")
      /\ k = 6 => Match!Comparisons[k] = Match!Of("com23", "l1", "tmp", "tmp", "o1")
  <2>1. Match!Last \in 1 .. 6 /\ (Match!Last > 1 => Len(trees) = 3)
    BY DEF Match!Last
  <2> QED BY <2>1 DEF Match!Comparisons
<1> QED BY <1>1, RowFits1, RowFits2, RowFits3, RowFits4, RowFits5, RowFits6

-----------------------------------------------------------------------------
LEMMA HeldType == \A x \in Wholes \cup Rests : Held[x] \in Seq(Nat)
<1>1. <<1>> \in Seq(Nat) /\ <<2>> \in Seq(Nat) /\ <<3>> \in Seq(Nat)
  OBVIOUS
<1>2. <<1, 2>> \in Seq(Nat) /\ <<1, 3>> \in Seq(Nat) /\ <<2, 3>> \in Seq(Nat) /\ <<1, 2, 3>> \in Seq(Nat)
  OBVIOUS
<1> QED BY <1>1, <1>2, HeldIs DEF Wholes, Rests

LEMMA MatchedTrees ==
  ASSUME trees \in Seq(Seq(Events)), Len(trees) >= 2
  PROVE  /\ Match!Matched \subseteq DOMAIN trees /\ Match!Matched \subseteq 1 .. 3
         /\ \A t \in Match!Matched : trees[t] \in Seq(Events)
         /\ \A t \in Match!Matched : \A e : Match!Count(trees[t], e) \in Nat
<1>1. Match!Matched \subseteq DOMAIN trees /\ Match!Matched \subseteq 1 .. 3
  BY DEF Match!Matched
<1>2. \A t \in Match!Matched : trees[t] \in Seq(Events)
  BY <1>1
<1> QED BY <1>1, <1>2, CountNat

\* At its start a comparison has not seen an item.
LEMMA StartFits ==
  ASSUME NEW o \in Seq(MatchItem), NEW t \in Seq(MatchItem), NEW k \in Nat \ {0}, NEW s, s = Match!Start(k)
  PROVE  s \in ScanType /\ ScanFits(o, t, s)
<1>1. s.k = k /\ s.n = 1 /\ s.m = 1 /\ s.common = <<>> /\ s.only1 = <<>> /\ s.only2 = <<>>
  BY DEF Match!Start
<1>2. s \in ScanType
  <2>1. <<>> \in Seq(MatchItem)
    OBVIOUS
  <2> QED BY <2>1 DEF Match!Start, ScanType
<1>3. DOMAIN <<>> = {} /\ Len(o) \in Nat /\ Len(t) \in Nat
  OBVIOUS
<1>4. Sources(o, t, s) /\ Rising(o, s)
  BY <1>1, <1>3 DEF Sources, Rising, Ascending
<1>5. Sorted(o, t, s)
  <2>1. \A e : Times(<<>>, e) = 0 /\ Num(o, 0, e) = 0 /\ Num(t, 0, e) = 0
    BY TimesNat, NumNone
  <2>2. s.n - 1 = 0 /\ s.m - 1 = 0
    BY <1>1
  <2> QED BY <1>1, <2>1, <2>2 DEF Sorted
<1> QED BY <1>1, <1>2, <1>3, <1>4, <1>5 DEF ScanFits

\* What holds of the lists of a comparison.
LEMMA RowLists ==
  ASSUME MatchTypeOK, NEW k \in Nat, NEW c, RowFits(c, k), ListsFit(lists, Made(k))
  PROVE  /\ c.one \in Wholes /\ c.two \in Wholes
         /\ lists[c.one] \in Seq(MatchItem) /\ lists[c.two] \in Seq(MatchItem)
         /\ Ascending(lists[c.one]) /\ Ascending(lists[c.two])
         /\ Fits(lists[c.one], Held[c.one]) /\ Fits(lists[c.two], Held[c.two])
         /\ IsLeast(lists[c.one], Held[c.one]) /\ IsLeast(lists[c.two], Held[c.two])
         /\ \A b \in DOMAIN lists[c.two] : Len(lists[c.two][b].entries) = 1
<1>1. c.one \in Made(k) /\ c.two \in Made(k) /\ Held[c.two] = <<Held[c.two][1]>>
  BY DEF RowFits
<1>2. c.one \in Wholes /\ c.two \in Wholes
  BY <1>1 DEF Made
<1>3. lists[c.one] \in Seq(MatchItem) /\ lists[c.two] \in Seq(MatchItem)
  BY <1>2, HeldIs DEF MatchTypeOK
<1>4. Ascending(lists[c.one]) /\ Ascending(lists[c.two])
  BY <1>2 DEF ListsFit
<1>5. Fits(lists[c.one], Held[c.one]) /\ Fits(lists[c.two], Held[c.two])
  BY <1>2, HeldIs DEF ListsFit
<1>6. IsLeast(lists[c.one], Held[c.one]) /\ IsLeast(lists[c.two], Held[c.two])
  BY <1>1 DEF ListsFit
<1>7. Len(Held[c.two]) = 1
  <2> DEFINE u == Held[c.two][1]
  <2>1. Len(<<u>>) = 1
    OBVIOUS
  <2> QED BY <1>1, <2>1
<1>8. \A b \in DOMAIN lists[c.two] : Len(lists[c.two][b].entries) = 1
  BY <1>5, <1>7 DEF Fits, FitsOne
<1> QED BY <1>2, <1>3, <1>4, <1>5, <1>6, <1>8

\* What a comparison returns keeps the lists right.
LEMMA ReturnedFit ==
  ASSUME MatchConstants, MatchTypeOK, Len(trees) >= 2, NEW k \in Nat, NEW c, RowFits(c, k), ListsFit(lists, Made(k)),
         NEW o, o = lists[c.one], NEW t, t = lists[c.two], ScanFits(o, t, scan), ~(scan.n <= Len(o) /\ scan.m <= Len(t)),
         NEW ls, ls = [lists EXCEPT ![c.common] = scan.common, ![c.only1] = scan.only1, ![c.only2] = scan.only2]
  PROVE  ls \in [Match!ListNames -> Seq(MatchItem)] /\ ListsFit(ls, Made(k + 1))
<1> DEFINE ts == Held[c.one]
           us == Held[c.two]
           u == us[1]
<1>1. /\ c.one \in Wholes /\ c.two \in Wholes /\ o \in Seq(MatchItem) /\ t \in Seq(MatchItem) /\ Ascending(o) /\ Ascending(t)
      /\ Fits(o, ts) /\ Fits(t, us) /\ IsLeast(o, ts) /\ IsLeast(t, us)
  BY RowLists
<1>2. /\ scan \in ScanType /\ scan.common \in Seq(MatchItem) /\ scan.only1 \in Seq(MatchItem) /\ scan.only2 \in Seq(MatchItem)
      /\ lists \in [Match!ListNames -> Seq(MatchItem)]
  BY DEF MatchTypeOK, ScanType
<1>3. /\ c.common \in Match!ListNames /\ c.only1 \in Match!ListNames /\ c.only2 \in Match!ListNames
      /\ us = <<u>> /\ u \in Match!Matched /\ \A q \in DOMAIN ts : ts[q] \in Match!Matched
      /\ c.common \in Wholes => Held[c.common] = Append(ts, u)
      /\ c.only1 \in Rests => Held[c.only1] = ts /\ Len(ts) = 1
      /\ c.only2 \in Rests => Held[c.only2] = us
      /\ c.common \notin Rests /\ c.only1 \notin Wholes /\ c.only2 \notin Wholes
      /\ Made(k + 1) \subseteq Made(k) \cup {c.common}
  BY DEF RowFits
<1>4. ts \in Seq(Nat) /\ u \in Nat
  <2>1. ts \in Seq(Nat)
    BY <1>1, HeldType
  <2> QED BY <1>3, <2>1 DEF Match!Matched
<1>5. ls \in [Match!ListNames -> Seq(MatchItem)]
  BY <1>2, <1>3
<1>6. ASSUME NEW x \in Wholes PROVE (x = c.common /\ ls[x] = scan.common) \/ (x # c.common /\ ls[x] = lists[x])
  BY <1>2, <1>3, <1>6, HeldIs
<1>7. ASSUME NEW x \in Rests
      PROVE  (x = c.only2 /\ ls[x] = scan.only2) \/ (x = c.only1 /\ ls[x] = scan.only1) \/ ls[x] = lists[x]
  BY <1>2, <1>3, <1>7, HeldIs
<1> HIDE DEF ts, us, u
<1>8. Fits(scan.common, Append(ts, u)) /\ Fits(scan.only1, ts) /\ Fits(scan.only2, us) /\ Ascending(scan.common)
  <2>1. ScanFits(o, t, scan) /\ scan \in ScanType /\ us = <<u>> /\ Fits(o, ts) /\ Fits(t, us)
    BY <1>1, <1>2, <1>3
  <2>2. o \in Seq(MatchItem) /\ t \in Seq(MatchItem) /\ ts \in Seq(Nat) /\ u \in Nat
    BY <1>1, <1>4
  <2> HIDE DEF ScanType
  <2> QED BY <2>1, <2>2, EndItems
<1>9. ASSUME NEW e \in Events
      PROVE  /\ Times(scan.common, e) <= Times(o, e) /\ Times(scan.common, e) <= Times(t, e)
             /\ Times(scan.common, e) = Times(o, e) \/ Times(scan.common, e) = Times(t, e)
             /\ Times(scan.only1, e) = 0 \/ Times(scan.only1, e) + Times(t, e) <= Times(o, e)
             /\ Times(scan.only2, e) = 0 \/ Times(scan.only2, e) + Times(o, e) <= Times(t, e)
  BY <1>1, <1>2, EndCounts
<1>10. ASSUME NEW e \in Events PROVE Times(scan.common, e) \in Nat /\ Times(scan.only1, e) \in Nat /\ Times(scan.only2, e) \in Nat
                                     /\ Times(o, e) \in Nat /\ Times(t, e) \in Nat
  BY <1>1, <1>2, TimesNat
<1>11. ASSUME NEW e \in Events
       PROVE  /\ \A q \in DOMAIN ts : Times(o, e) <= Match!Count(trees[ts[q]], e)
              /\ \E q \in DOMAIN ts : Times(o, e) = Match!Count(trees[ts[q]], e)
              /\ Times(t, e) = Match!Count(trees[u], e)
  <2>1. DOMAIN us = {1} /\ us[1] = u
    BY <1>3
  <2> QED BY <1>1, <2>1 DEF IsLeast
<1>12. \A v \in Match!Matched : \A e : Match!Count(trees[v], e) \in Nat
  BY MatchedTrees DEF MatchTypeOK
<1>13. IsLeast(scan.common, Append(ts, u))
  <2> SUFFICES ASSUME NEW e \in Events
               PROVE  /\ \A q \in DOMAIN Append(ts, u) : Times(scan.common, e) <= Match!Count(trees[Append(ts, u)[q]], e)
                      /\ \E q \in DOMAIN Append(ts, u) : Times(scan.common, e) = Match!Count(trees[Append(ts, u)[q]], e)
    BY DEF IsLeast
  <2> DEFINE vs == Append(ts, u)
  <2>1. /\ Len(ts) \in Nat /\ DOMAIN ts = 1 .. Len(ts) /\ DOMAIN vs = 1 .. Len(ts) + 1
        /\ vs[Len(ts) + 1] = u /\ \A q \in DOMAIN ts : vs[q] = ts[q]
    BY <1>4
  <2> HIDE DEF vs
  <2>2. ASSUME NEW q \in DOMAIN vs PROVE Times(scan.common, e) <= Match!Count(trees[vs[q]], e)
    <3>1. CASE q \in DOMAIN ts
      <4>1. vs[q] = ts[q] /\ Times(o, e) <= Match!Count(trees[ts[q]], e) /\ Match!Count(trees[ts[q]], e) \in Nat
        BY <1>3, <1>11, <1>12, <2>1, <3>1
      <4> QED BY <1>9, <1>10, <4>1
    <3>2. CASE q = Len(ts) + 1
      BY <1>9, <1>11, <2>1, <3>2
    <3> QED BY <2>1, <3>1, <3>2
  <2>3. \E q \in DOMAIN vs : Times(scan.common, e) = Match!Count(trees[vs[q]], e)
    <3>1. CASE Times(scan.common, e) = Times(o, e)
      <4>1. PICK q \in DOMAIN ts : Times(o, e) = Match!Count(trees[ts[q]], e)
        BY <1>11
      <4>2. q \in DOMAIN vs /\ vs[q] = ts[q]
        BY <2>1
      <4> QED BY <3>1, <4>1, <4>2
    <3>2. CASE Times(scan.common, e) = Times(t, e)
      <4>1. Len(ts) + 1 \in DOMAIN vs
        BY <2>1
      <4> QED BY <1>11, <2>1, <3>2, <4>1
    <3> QED BY <1>9, <3>1, <3>2
  <2> QED BY <2>2, <2>3 DEF vs
<1>14. IsRest(scan.only2, u)
  <2> SUFFICES ASSUME NEW e \in Events
               PROVE  \E v \in Match!Matched : Times(scan.only2, e) + Match!Count(trees[v], e) <= Match!Count(trees[u], e)
    BY DEF IsRest
  <2>1. CASE Times(scan.only2, e) = 0
    <3>1. 0 + Match!Count(trees[u], e) <= Match!Count(trees[u], e)
      BY <1>3, <1>12
    <3> QED BY <1>3, <2>1, <3>1
  <2>2. CASE Times(scan.only2, e) + Times(o, e) <= Times(t, e)
    <3>1. PICK q \in DOMAIN ts : Times(o, e) = Match!Count(trees[ts[q]], e)
      BY <1>11
    <3> QED BY <1>3, <1>11, <2>2, <3>1
  <2> QED BY <1>9, <2>1, <2>2
<1>15. Len(ts) = 1 => IsRest(scan.only1, ts[1])
  <2> SUFFICES ASSUME Len(ts) = 1, NEW e \in Events
               PROVE  \E v \in Match!Matched : Times(scan.only1, e) + Match!Count(trees[v], e) <= Match!Count(trees[ts[1]], e)
    BY DEF IsRest
  <2>1. DOMAIN ts = {1}
    BY <1>4
  <2>2. ts[1] \in Match!Matched /\ Times(o, e) = Match!Count(trees[ts[1]], e)
    BY <1>3, <1>11, <2>1
  <2>3. CASE Times(scan.only1, e) = 0
    <3>1. 0 + Match!Count(trees[ts[1]], e) <= Match!Count(trees[ts[1]], e)
      BY <1>12, <2>2
    <3> QED BY <2>2, <2>3, <3>1
  <2>4. CASE Times(scan.only1, e) + Times(t, e) <= Times(o, e)
    BY <1>3, <1>11, <2>2, <2>4
  <2> QED BY <1>9, <2>3, <2>4
<1>16. ASSUME NEW x \in Wholes PROVE Fits(ls[x], Held[x]) /\ Ascending(ls[x])
  <2>1. CASE x = c.common /\ ls[x] = scan.common
    BY <1>3, <1>8, <2>1
  <2>2. CASE ls[x] = lists[x]
    BY <2>2, HeldIs DEF ListsFit
  <2> QED BY <1>6, <2>1, <2>2
<1>17. ASSUME NEW x \in Rests PROVE Fits(ls[x], Held[x]) /\ (Held[x][1] \in Match!Matched => IsRest(ls[x], Held[x][1]))
  <2>1. CASE x = c.only2 /\ ls[x] = scan.only2
    BY <1>3, <1>8, <1>14, <2>1 DEF u
  <2>2. CASE x = c.only1 /\ ls[x] = scan.only1
    BY <1>3, <1>8, <1>15, <2>2
  <2>3. CASE ls[x] = lists[x]
    BY <2>3, HeldIs DEF ListsFit
  <2> QED BY <1>7, <2>1, <2>2, <2>3
<1>18. ASSUME NEW x \in Made(k + 1) PROVE IsLeast(ls[x], Held[x])
  <2>1. x \in Wholes
    BY DEF Made
  <2>2. CASE x = c.common /\ ls[x] = scan.common
    BY <1>3, <1>13, <2>1, <2>2
  <2>3. CASE x # c.common /\ ls[x] = lists[x]
    BY <1>3, <2>3 DEF ListsFit
  <2> QED BY <1>6, <2>1, <2>2, <2>3
<1> QED BY <1>5, <1>16, <1>17, <1>18, HeldIs DEF ListsFit

-----------------------------------------------------------------------------
(* Each step of the program.                                               *)
MatchTold == Match!CommonTreesAgree /\ Match!OnlyIsNotCommon /\ Match!WhitelistsFit
MatchReached ==
  /\ pc \in {"started", "read"} => lists = [x \in Match!ListNames |-> <<>>] /\ scan = Match!Start(1)
  /\ pc \notin {"started", "exit"} => Len(trees) >= 2
  /\ pc = "comparing" => scan.k <= Match!Last /\ ListsFit(lists, Made(scan.k)) /\ ScanFits(Match!One, Match!Other, scan)
  /\ pc = "listed" => scan.k = Match!Last /\ ListsFit(lists, Made(scan.k + 1))

LEMMA ToldKept == ASSUME MatchTold, UNCHANGED <<trees, output, whitelists>> PROVE MatchTold'
<1>1. Match!CommonTreesAgree'
  BY DEF MatchTold, Match!CommonTreesAgree, Match!Matched
<1>2. Match!OnlyIsNotCommon'
  BY DEF MatchTold, Match!OnlyIsNotCommon, Match!Matched
<1>3. Match!WhitelistsFit'
  BY DEF MatchTold, Match!WhitelistsFit
<1> QED BY <1>1, <1>2, <1>3 DEF MatchTold

LEMMA DifferencesKept == ASSUME Match!DifferencesTold, UNCHANGED <<Match!input, report>> PROVE Match!DifferencesTold'
BY DEF Match!DifferencesTold, Match!input, Match!Value

LEMMA IsSeq == ASSUME NEW S, NEW n \in Nat, NEW f \in [1 .. n -> S] PROVE f \in Seq(S)
OBVIOUS

LEMMA MatchInitInv == ASSUME MatchConstants PROVE Match!Init => MatchInv
<1> SUFFICES ASSUME Match!Init PROVE MatchInv
  OBVIOUS
<1>1. \A n \in DOMAIN Contents : n \in Nat \ {0} /\ \A tree \in Contents[n] : tree \in Seq(Events)
  BY DEF MatchConstants
<1>2. 1 \in DOMAIN Contents
  BY DEF MatchConstants
<1>3. trees \in Seq(Seq(Events))
  <2>1. CASE Match!Quiet
    <3>1. PICK n \in DOMAIN Contents : trees \in [1 .. n -> Contents[n]]
      BY <2>1 DEF Match!Quiet
    <3>2. trees \in [1 .. n -> Seq(Events)]
      BY <1>1, <3>1
    <3> QED BY <1>1, <3>2
  <2>2. CASE Match!Named
    <3>1. PICK n \in DOMAIN Contents, one \in Contents[1] : trees = [t \in 1 .. n |-> one]
      BY <2>2 DEF Match!Named
    <3>2. n \in Nat /\ one \in Seq(Events)
      BY <1>1, <1>2, <3>1
    <3> QED BY <3>1, <3>2
  <2>3. CASE Match!Verbose
    <3>1. CASE trees \in [1 .. 2 -> {<<e>> : e \in Events}]
      <4>1. \A e \in Events : <<e>> \in Seq(Events)
        OBVIOUS
      <4>2. trees \in [1 .. 2 -> Seq(Events)]
        BY <3>1, <4>1
      <4> QED BY <4>2, IsSeq
    <3>2. CASE \E one \in Contents[1] : trees = [t \in 1 .. 3 |-> one]
      <4>1. PICK one \in Contents[1] : trees = [t \in 1 .. 3 |-> one]
        BY <3>2
      <4>2. one \in Seq(Events)
        BY <1>1, <1>2, <4>1
      <4> QED BY <4>1, <4>2
    <3> QED BY <2>3, <3>1, <3>2 DEF Match!Verbose
  <2> QED BY <2>1, <2>2, <2>3 DEF Match!Init
<1>4. /\ lists = [x \in Match!ListNames |-> <<>>] /\ scan = Match!Start(1) /\ output = <<>> /\ whitelists = <<>> /\ report = <<>>
      /\ pc = "started"
  BY DEF Match!Init
<1>5. <<>> \in Seq(MatchItem) /\ DOMAIN <<>> = {}
  OBVIOUS
<1>6. MatchTypeOK
  <2>1. scan \in ScanType
    <3>1. 1 \in Nat \ {0}
      OBVIOUS
    <3> QED BY <1>4, <1>5, <3>1, StartFits
  <2>2. lists \in [Match!ListNames -> Seq(MatchItem)]
    BY <1>4, <1>5
  <2>3. report \in Seq({report[i] : i \in DOMAIN report})
    BY <1>4
  <2> QED BY <1>3, <1>4, <2>1, <2>2, <2>3 DEF MatchTypeOK
<1>7. Match!CommonTreesAgree /\ Match!OnlyIsNotCommon /\ Match!WhitelistsFit /\ Match!DifferencesTold
  BY <1>4, <1>5 DEF Match!CommonTreesAgree, Match!OnlyIsNotCommon, Match!WhitelistsFit, Match!DifferencesTold
<1> QED BY <1>4, <1>6, <1>7 DEF MatchInv

LEMMA CheckInv == ASSUME MatchConstants, MatchInv, Match!Check PROVE MatchInv'
<1>1. /\ pc = "started" /\ UNCHANGED <<Match!input, lists, scan, output, whitelists, report>>
      /\ (Len(trees) < 2 /\ pc' = "exit") \/ (Len(trees) >= 2 /\ pc' \in {"exit", "read"})
  <2>1. Len(trees) \in Nat
    BY DEF MatchInv, MatchTypeOK
  <2> QED BY <2>1 DEF Match!Check
<1>2. MatchTypeOK'
  BY <1>1 DEF MatchInv, MatchTypeOK, Match!input
<1>3. MatchTold' /\ Match!DifferencesTold'
  BY <1>1, ToldKept, DifferencesKept DEF MatchInv, MatchTold, Match!input
<1>4. MatchReached'
  BY <1>1 DEF MatchInv, MatchReached, Match!input
<1> QED BY <1>2, <1>3, <1>4 DEF MatchInv, MatchReached, MatchTold

\* The lists of the trees' events, when there is no other.
LEMMA ReadFits ==
  ASSUME MatchConstants, trees \in Seq(Seq(Events)), Len(trees) >= 2, lists = [x \in Match!ListNames |-> <<>>],
         NEW l1 \in Match!getRunLumiEvent(trees[1]), NEW l2 \in Match!getRunLumiEvent(trees[2]),
         NEW l3, (Len(trees) = 3 /\ l3 \in Match!getRunLumiEvent(trees[3])) \/ (Len(trees) # 3 /\ l3 = <<>>),
         NEW ls, ls = [lists EXCEPT !["l1"] = l1, !["l2"] = l2, !["l3"] = l3]
  PROVE  ls \in [Match!ListNames -> Seq(MatchItem)] /\ ListsFit(ls, Made(1))
<1> DEFINE IsOf(l, t) == /\ l \in Seq(MatchItem) /\ Ascending(l)
                         /\ \A i \in DOMAIN l : Len(l[i].entries) = 1 /\ l[i].entries[1] \in DOMAIN trees[t] /\ trees[t][l[i].entries[1]] = l[i].event
                         /\ \A e \in Events : Times(l, e) = Match!Count(trees[t], e)
<1>1. trees[1] \in Seq(Events) /\ trees[2] \in Seq(Events) /\ (Len(trees) = 3 => trees[3] \in Seq(Events))
  OBVIOUS
<1>2. IsOf(l1, 1) /\ IsOf(l2, 2) /\ (Len(trees) = 3 => IsOf(l3, 3))
  BY <1>1, SortedFits
<1>3. l1 \in Seq(MatchItem) /\ l2 \in Seq(MatchItem) /\ l3 \in Seq(MatchItem)
  <2>1. <<>> \in Seq(MatchItem)
    OBVIOUS
  <2> QED BY <1>2, <2>1
<1>4. /\ ls["l1"] = l1 /\ ls["l2"] = l2 /\ ls["l3"] = l3
      /\ \A x \in Match!ListNames \ {"l1", "l2", "l3"} : ls[x] = <<>>
  BY DEF Match!ListNames
<1>5. ls \in [Match!ListNames -> Seq(MatchItem)]
  <2>1. lists \in [Match!ListNames -> Seq(MatchItem)]
    <3>1. <<>> \in Seq(MatchItem)
      OBVIOUS
    <3> QED BY <3>1
  <2> QED BY <1>3, <2>1
<1> HIDE DEF IsOf
<1>6. ASSUME NEW l, NEW t, IsOf(l, t), NEW ts, ts = <<t>> PROVE Fits(l, ts) /\ Ascending(l) /\ IsLeast(l, ts)
  <2>1. Len(ts) = 1 /\ DOMAIN ts = {1} /\ ts[1] = t
    BY <1>6
  <2>2. Fits(l, ts) /\ Ascending(l)
    BY <1>6, <2>1 DEF IsOf, Fits, FitsOne
  <2>3. IsLeast(l, ts)
    <3> SUFFICES ASSUME NEW e \in Events
                 PROVE  /\ \A q \in DOMAIN ts : Times(l, e) <= Match!Count(trees[ts[q]], e)
                        /\ \E q \in DOMAIN ts : Times(l, e) = Match!Count(trees[ts[q]], e)
      BY DEF IsLeast
    <3>1. Times(l, e) = Match!Count(trees[t], e) /\ Times(l, e) \in Nat
      BY <1>6, TimesNat DEF IsOf
    <3> QED BY <2>1, <3>1
  <2> QED BY <2>2, <2>3
<1>7. Ascending(<<>>) /\ \A ts : Fits(<<>>, ts)
  <2>1. DOMAIN <<>> = {}
    OBVIOUS
  <2> QED BY <2>1 DEF Fits, Ascending
<1>8. Held["l1"] = <<1>> /\ Held["l2"] = <<2>> /\ Held["l3"] = <<3>>
  BY HeldIs
<1>9. Fits(l1, Held["l1"]) /\ Ascending(l1) /\ IsLeast(l1, Held["l1"])
  BY <1>2, <1>6, <1>8
<1>10. Fits(l2, Held["l2"]) /\ Ascending(l2) /\ IsLeast(l2, Held["l2"])
  BY <1>2, <1>6, <1>8
<1>11. Fits(l3, Held["l3"]) /\ Ascending(l3) /\ (Len(trees) = 3 => IsLeast(l3, Held["l3"]))
  BY <1>2, <1>6, <1>7, <1>8
<1>12. \A x \in DOMAIN Held : Fits(ls[x], Held[x])
  BY <1>4, <1>7, <1>9, <1>10, <1>11, HeldIs
<1>13. \A x \in Wholes : Ascending(ls[x])
  BY <1>4, <1>7, <1>9, <1>10, <1>11, HeldIs
<1>14. ASSUME NEW x \in Rests, Held[x][1] \in Match!Matched PROVE IsRest(ls[x], Held[x][1])
  <2>1. ls[x] = <<>>
    BY <1>4 DEF Rests, Match!ListNames
  <2> DEFINE t == Held[x][1]
  <2>2. ASSUME NEW e \in Events PROVE \E v \in Match!Matched : 0 + Match!Count(trees[v], e) <= Match!Count(trees[t], e)
    <3>1. Match!Count(trees[t], e) \in Nat
      BY <1>14, MatchedTrees
    <3> QED BY <1>14, <3>1
  <2>3. \A e : Times(<<>>, e) = 0
    BY TimesNat, <1>3
  <2> QED BY <2>1, <2>2, <2>3 DEF IsRest
<1>15. ASSUME NEW x \in Made(1) PROVE IsLeast(ls[x], Held[x])
  <2>1. x \in {"l1", "l2"} \/ (x = "l3" /\ Len(trees) = 3)
    BY MadeIs
  <2> QED BY <1>4, <1>9, <1>10, <1>11, <2>1
<1> QED BY <1>5, <1>12, <1>13, <1>14, <1>15 DEF ListsFit


\* What holds of the lists of the next state, with the trees, which do not change.
LEMMA NextLists ==
  ASSUME UNCHANGED trees
  PROVE  /\ ListsFit(lists', Made(scan'.k)) => ListsFit(lists, Made(scan.k))'
         /\ ListsFit(lists', Made(scan'.k + 1)) => ListsFit(lists, Made(scan.k + 1))'
<1>1. Match!Matched' = Match!Matched /\ Made(scan.k)' = Made(scan'.k) /\ Made(scan.k + 1)' = Made(scan'.k + 1)
  BY DEF Match!Matched, Made
<1>2. ASSUME NEW l, NEW ts PROVE Fits(l, ts)' = Fits(l, ts) /\ IsLeast(l, ts)' = IsLeast(l, ts)
  BY DEF Fits, FitsOne, IsLeast
<1>3. ASSUME NEW l, NEW t PROVE IsRest(l, t)' = IsRest(l, t)
  BY <1>1 DEF IsRest
<1> QED BY <1>1, <1>2, <1>3 DEF ListsFit

LEMMA ReadInv == ASSUME MatchConstants, MatchInv, Match!Read PROVE MatchInv'
<1>1. pc = "read" /\ UNCHANGED <<trees, branches, options, scan, output, whitelists, report>>
  BY DEF Match!Read, Match!input
<1>2. /\ trees \in Seq(Seq(Events)) /\ Len(trees) >= 2 /\ lists = [x \in Match!ListNames |-> <<>>] /\ scan = Match!Start(1)
      /\ MatchTypeOK
  BY <1>1 DEF MatchInv, MatchTypeOK
<1>3. MatchTold' /\ Match!DifferencesTold'
  BY <1>1, ToldKept, DifferencesKept DEF MatchInv, MatchTold, Match!input
<1>4. CASE pc' = "raised" /\ UNCHANGED lists
  <2>1. MatchTypeOK' /\ MatchReached'
    BY <1>1, <1>2, <1>4 DEF MatchTypeOK, MatchReached
  <2> QED BY <1>3, <2>1 DEF MatchInv, MatchReached, MatchTold
<1>5. ASSUME pc' = "comparing",
             NEW l1 \in Match!getRunLumiEvent(trees[1]), NEW l2 \in Match!getRunLumiEvent(trees[2]),
             NEW l3 \in IF Len(trees) = 3 THEN Match!getRunLumiEvent(trees[3]) ELSE {<<>>},
             lists' = [lists EXCEPT !["l1"] = l1, !["l2"] = l2, !["l3"] = l3]
      PROVE  MatchInv'
  <2>1. (Len(trees) = 3 /\ l3 \in Match!getRunLumiEvent(trees[3])) \/ (Len(trees) # 3 /\ l3 = <<>>)
    OBVIOUS
  <2>2. lists' \in [Match!ListNames -> Seq(MatchItem)] /\ ListsFit(lists', Made(1))
    BY <1>2, <1>5, <2>1, ReadFits
  <2>3. scan'.k = 1
    BY <1>1, <1>2 DEF Match!Start
  <2>4. ListsFit(lists, Made(scan.k))'
    BY <1>1, <2>2, <2>3, NextLists
  <2>5. Match!Comparisons[1] = Match!Of("l1", "l2", "com12", "o1", "o2")
    BY DEF Match!Comparisons
  <2>6. Match!One' = lists'["l1"] /\ Match!Other' = lists'["l2"]
    BY <2>3, <2>5 DEF Match!One, Match!Other, Match!Of
  <2>7. lists'["l1"] \in Seq(MatchItem) /\ lists'["l2"] \in Seq(MatchItem)
    BY <2>2 DEF Match!ListNames
  <2>8. ScanFits(lists'["l1"], lists'["l2"], scan')
    <3>1. 1 \in Nat \ {0}
      OBVIOUS
    <3> QED BY <1>1, <1>2, <2>7, <3>1, StartFits
  <2>9. ScanFits(Match!One, Match!Other, scan)'
    BY <2>6, <2>8 DEF ScanFits, Sorted, Sources, Rising
  <2>10. scan'.k <= Match!Last'
    BY <2>3 DEF Match!Last
  <2>11. MatchTypeOK'
    BY <1>1, <1>2, <1>5, <2>2 DEF MatchTypeOK
  <2>12. MatchReached'
    BY <1>1, <1>2, <1>5, <2>4, <2>9, <2>10 DEF MatchReached
  <2> QED BY <1>3, <2>11, <2>12 DEF MatchInv, MatchReached, MatchTold
<1> QED BY <1>4, <1>5 DEF Match!Read

\* What a comparison at work is about.
LEMMA AtWork ==
  ASSUME MatchInv, pc = "comparing", NEW c, c = Match!Comparisons[scan.k]
  PROVE  /\ scan.k \in 1 .. Match!Last /\ RowFits(c, scan.k) /\ ListsFit(lists, Made(scan.k)) /\ Len(trees) >= 2
         /\ MatchTypeOK /\ ScanFits(lists[c.one], lists[c.two], scan) /\ Match!One = lists[c.one] /\ Match!Other = lists[c.two]
<1>1. MatchTypeOK /\ scan.k <= Match!Last /\ ListsFit(lists, Made(scan.k)) /\ Len(trees) >= 2 /\ ScanFits(Match!One, Match!Other, scan)
  BY DEF MatchInv
<1>2. scan.k \in Nat \ {0} /\ Match!Last \in Nat
  BY <1>1 DEF MatchTypeOK, ScanType, Match!Last
<1>3. scan.k \in 1 .. Match!Last
  BY <1>1, <1>2
<1>4. Match!One = lists[c.one] /\ Match!Other = lists[c.two]
  BY DEF Match!One, Match!Other
<1> QED BY <1>1, <1>3, <1>4, RowsFit

LEMMA TurnInv == ASSUME MatchConstants, MatchInv, Match!Turn PROVE MatchInv'
<1> DEFINE c == Match!Comparisons[scan.k]
           o == lists[c.one]
           t == lists[c.two]
<1>1. pc = "comparing" /\ pc' = pc /\ UNCHANGED <<trees, branches, options, lists, output, whitelists, report>>
  BY DEF Match!Turn, Match!input
<1>2. /\ scan.k \in 1 .. Match!Last /\ RowFits(c, scan.k) /\ ListsFit(lists, Made(scan.k)) /\ Len(trees) >= 2
      /\ MatchTypeOK /\ ScanFits(o, t, scan) /\ Match!One = o /\ Match!Other = t
  BY <1>1, AtWork
<1>3. o \in Seq(MatchItem) /\ t \in Seq(MatchItem) /\ Ascending(o) /\ Ascending(t) /\ \A b \in DOMAIN t : Len(t[b].entries) = 1
  <2>1. scan.k \in Nat
    BY <1>2 DEF MatchTypeOK, ScanType
  <2> HIDE DEF c
  <2> QED BY <1>2, <2>1, RowLists
<1> HIDE DEF c, o, t
<1>4. TurnOf(o, t, scan)
  BY <1>2, <1>3 DEF TurnOf, MatchTypeOK, Match!Turn, Match!InLoop
<1>5. scan' \in ScanType /\ ScanFits(o, t, scan')
  <2>1. CASE o[scan.n].event = t[scan.m].event /\ scan' = [scan EXCEPT !.n = @ + 1, !.m = @ + 1, !.common = Append(@, Match!Joined(o[scan.n], t[scan.m]))]
    BY <1>4, <2>1, JoinFits
  <2>2. CASE o[scan.n].event < t[scan.m].event /\ scan' = [scan EXCEPT !.n = @ + 1, !.only1 = Append(@, o[scan.n])]
    BY <1>4, <2>2, FirstFits
  <2>3. CASE o[scan.n].event > t[scan.m].event /\ scan' = [scan EXCEPT !.m = @ + 1, !.only2 = Append(@, t[scan.m])]
    BY <1>4, <2>3, SecondFits
  <2> QED BY <1>2, <2>1, <2>2, <2>3 DEF Match!Turn
<1>6. scan'.k = scan.k
  BY <1>2 DEF Match!Turn, MatchTypeOK, ScanType
<1>7. Match!One' = o /\ Match!Other' = t
  BY <1>1, <1>2, <1>6 DEF Match!One, Match!Other
<1>8. ScanFits(Match!One, Match!Other, scan)'
  BY <1>5, <1>7 DEF ScanFits, Sorted, Sources, Rising
<1>9. ListsFit(lists, Made(scan.k))'
  BY <1>1, <1>2, <1>6, NextLists
<1>10. scan'.k <= Match!Last'
  BY <1>1, <1>2, <1>6 DEF Match!Last
<1>11. MatchTypeOK'
  BY <1>1, <1>2, <1>5 DEF MatchTypeOK
<1>12. MatchReached'
  BY <1>1, <1>2, <1>8, <1>9, <1>10 DEF MatchReached
<1>13. MatchTold' /\ Match!DifferencesTold'
  BY <1>1, ToldKept, DifferencesKept DEF MatchInv, MatchTold, Match!input
<1> QED BY <1>11, <1>12, <1>13 DEF MatchInv, MatchReached, MatchTold

LEMMA ReturnInv == ASSUME MatchConstants, MatchInv, Match!Return PROVE MatchInv'
<1> DEFINE k == scan.k
           c == Match!Comparisons[k]
           o == lists[c.one]
           t == lists[c.two]
<1>1. /\ pc = "comparing" /\ UNCHANGED <<trees, branches, options, output, whitelists, report>>
      /\ lists' = [lists EXCEPT ![c.common] = scan.common, ![c.only1] = scan.only1, ![c.only2] = scan.only2]
      /\ \/ k = Match!Last /\ pc' = "listed" /\ scan' = scan
         \/ k # Match!Last /\ pc' = pc /\ scan' = Match!Start(k + 1)
  BY DEF Match!Return, Match!input
<1>2. /\ k \in 1 .. Match!Last /\ RowFits(c, k) /\ ListsFit(lists, Made(k)) /\ Len(trees) >= 2
      /\ MatchTypeOK /\ ScanFits(o, t, scan) /\ Match!One = o /\ Match!Other = t
  BY <1>1, AtWork
<1>3. ~(scan.n <= Len(o) /\ scan.m <= Len(t))
  BY <1>2 DEF Match!Return, Match!InLoop
<1>4. k \in Nat \ {0} /\ Match!Last \in Nat
  BY <1>2 DEF Match!Last
<1> HIDE DEF k, c, o, t
<1>5. lists' \in [Match!ListNames -> Seq(MatchItem)] /\ ListsFit(lists', Made(k + 1))
  <2>1. o = lists[c.one] /\ t = lists[c.two]
    BY DEF o, t
  <2> QED BY <1>1, <1>2, <1>3, <1>4, <2>1, ReturnedFit
<1>6. MatchTold' /\ Match!DifferencesTold'
  BY <1>1, ToldKept, DifferencesKept DEF MatchInv, MatchTold, Match!input
<1>7. CASE k = Match!Last /\ pc' = "listed" /\ scan' = scan
  <2>1. ListsFit(lists, Made(scan.k + 1))'
    BY <1>1, <1>5, <1>7, NextLists DEF k
  <2>2. scan'.k = Match!Last'
    BY <1>1, <1>7 DEF Match!Last, k
  <2>3. MatchTypeOK' /\ MatchReached'
    BY <1>1, <1>2, <1>5, <1>7, <2>1, <2>2 DEF MatchTypeOK, MatchReached
  <2> QED BY <1>6, <2>3 DEF MatchInv, MatchReached, MatchTold
<1>8. CASE k # Match!Last /\ pc' = pc /\ scan' = Match!Start(k + 1)
  <2> DEFINE d == Match!Comparisons[k + 1]
             p == lists'[d.one]
             q == lists'[d.two]
  <2>1. k + 1 \in 1 .. Match!Last /\ k + 1 \in Nat \ {0}
    BY <1>2, <1>4, <1>8
  <2>2. scan'.k = k + 1
    BY <1>8 DEF Match!Start
  <2>3. RowFits(d, k + 1)
    BY <2>1, RowsFit
  <2>4. p \in Seq(MatchItem) /\ q \in Seq(MatchItem)
    <3>1. d.one \in Match!ListNames /\ d.two \in Match!ListNames
      BY <2>3, HeldIs DEF RowFits, Made
    <3> QED BY <1>5, <3>1
  <2>5. Match!One' = p /\ Match!Other' = q
    BY <2>2 DEF Match!One, Match!Other
  <2> HIDE DEF d, p, q
  <2>6. scan' \in ScanType /\ ScanFits(p, q, scan')
    BY <1>8, <2>1, <2>4, StartFits
  <2>7. ScanFits(Match!One, Match!Other, scan)'
    BY <2>5, <2>6 DEF ScanFits, Sorted, Sources, Rising
  <2>8. ListsFit(lists, Made(scan.k))'
    BY <1>1, <1>5, <2>2, NextLists
  <2>9. scan'.k <= Match!Last'
    BY <1>1, <2>1, <2>2 DEF Match!Last
  <2>10. MatchTypeOK' /\ MatchReached'
    BY <1>1, <1>2, <1>5, <1>8, <2>6, <2>7, <2>8, <2>9 DEF MatchTypeOK, MatchReached
  <2> QED BY <1>6, <2>10 DEF MatchInv, MatchReached, MatchTold
<1> QED BY <1>1, <1>7, <1>8

\* The items that are copied to an output tree, and what becomes of them.
LEMMA CopiedTrees ==
  ASSUME NEW t \in Match!Outputs
  PROVE  /\ t[1] = "common" \/ t[1] = "only"
         /\ t[2] \in Match!Matched
         /\ <<"common", 1>> \in Match!Outputs /\ <<"common", 1>>[1] = "common" /\ <<"common", 1>>[2] = 1
<1>1. <<"common", 1>>[1] = "common" /\ <<"common", 1>>[2] = 1
  OBVIOUS
<1>2. CASE options.json = "missing"
  BY <1>1, <1>2 DEF Match!Outputs, Match!Matched
<1>3. CASE options.json # "missing"
  <2> DEFINE kinds == IF options.common THEN {"common"} ELSE {"common", "only"}
  <2>1. Match!Outputs = kinds \X Match!Matched
    BY <1>3 DEF Match!Outputs, Match!Matched
  <2>2. kinds \subseteq {"common", "only"} /\ "common" \in kinds
    OBVIOUS
  <2>3. 1 \in Match!Matched
    BY DEF Match!Matched
  <2> HIDE DEF kinds
  <2> QED BY <1>1, <2>1, <2>2, <2>3
<1> QED BY <1>2, <1>3

LEMMA HeldAt ==
  LET w == IF Len(trees) = 3 THEN "com123" ELSE "com12"
  IN  /\ w \in Wholes /\ w \in Made(Match!Last + 1)
      /\ DOMAIN Held[w] = Match!Matched /\ \A q \in Match!Matched : Held[w][q] = q
<1>1. CASE Len(trees) = 3
  <2>1. Match!Last \in {2, 6}
    BY <1>1 DEF Match!Last
  <2>2. "com123" \in Made(Match!Last + 1)
    BY <1>1, <2>1, MadeIs
  <2>3. Held["com123"] = <<1, 2, 3>>
    BY HeldIs
  <2>4. DOMAIN <<1, 2, 3>> = 1 .. 3 /\ <<1, 2, 3>>[1] = 1 /\ <<1, 2, 3>>[2] = 2 /\ <<1, 2, 3>>[3] = 3
    OBVIOUS
  <2> QED BY <1>1, <2>2, <2>3, <2>4 DEF Match!Matched, Wholes
<1>2. CASE Len(trees) # 3
  <2>1. Match!Last = 1
    BY <1>2 DEF Match!Last
  <2>2. "com12" \in Made(Match!Last + 1)
    BY <2>1, MadeIs
  <2>3. Held["com12"] = <<1, 2>>
    BY HeldIs
  <2>4. DOMAIN <<1, 2>> = 1 .. 2 /\ <<1, 2>>[1] = 1 /\ <<1, 2>>[2] = 2
    OBVIOUS
  <2> QED BY <1>2, <2>2, <2>3, <2>4 DEF Match!Matched, Wholes
<1> QED BY <1>1, <1>2

LEMMA CopyFits ==
  ASSUME NEW l \in Seq(MatchItem), NEW ts \in Seq(Nat), Fits(l, ts), NEW q \in DOMAIN ts, NEW x, x = q - 1
  PROVE  Match!cpTree(l, trees[ts[q]], x) = [i \in DOMAIN l |-> l[i].event]
<1>1. \A i \in DOMAIN l : trees[ts[q]][l[i].entries[q]] = l[i].event
  BY DEF Fits, FitsOne
<1>2. 1 + x = q
  OBVIOUS
<1> QED BY <1>1, <1>2 DEF Match!cpTree

\* What is said of an output tree and of the items it is copied from.
CopiedAs(t, tree, l) ==
  /\ tree = [i \in DOMAIN l |-> l[i].event] /\ \A e \in Events : Match!Count(tree, e) = Times(l, e)
  /\ t[1] = "common" => l = lists[IF Len(trees) = 3 THEN "com123" ELSE "com12"]
  /\ t[1] = "only" => IsRest(l, t[2])

LEMMA Copied ==
  ASSUME MatchTypeOK, ListsFit(lists, Made(Match!Last + 1)), NEW t \in Match!Outputs, NEW x,
         (t[1] = "common" /\ x = t[2] - 1) \/ (t[1] # "common" /\ x = 0)
  PROVE  CopiedAs(t, Match!cpTree(Match!Copied(t), trees[t[2]], x), Match!Copied(t))
<1> DEFINE w == IF Len(trees) = 3 THEN "com123" ELSE "com12"
           l == Match!Copied(t)
           u == t[2]
           tree == Match!cpTree(l, trees[u], x)
<1>1. (t[1] = "common" \/ t[1] = "only") /\ u \in Match!Matched /\ u \in Nat /\ u \in 1 .. 3
  BY CopiedTrees DEF Match!Matched
<1>2. w \in Wholes /\ DOMAIN Held[w] = Match!Matched /\ \A q \in Match!Matched : Held[w][q] = q
  BY HeldAt
<1>3. ASSUME l \in Seq(MatchItem), NEW ts \in Seq(Nat), Fits(l, ts), NEW q \in DOMAIN ts, ts[q] = u, x = q - 1
      PROVE  tree = [i \in DOMAIN l |-> l[i].event] /\ \A e \in Events : Match!Count(tree, e) = Times(l, e)
  <2>1. tree = [i \in DOMAIN l |-> l[i].event]
    BY <1>3, CopyFits
  <2> HIDE DEF tree, l
  <2> QED BY <1>3, <2>1, CountOfEvents
<1>4. CASE t[1] = "common"
  <2>1. l = lists[w]
    BY <1>4 DEF Match!Copied
  <2> HIDE DEF l, w, tree
  <2>2. l \in Seq(MatchItem) /\ Fits(l, Held[w]) /\ Held[w] \in Seq(Nat)
    BY <1>2, <2>1, HeldIs, HeldType DEF MatchTypeOK, ListsFit
  <2>3. u \in DOMAIN Held[w] /\ Held[w][u] = u /\ x = u - 1
    BY <1>1, <1>2, <1>4
  <2>4. tree = [i \in DOMAIN l |-> l[i].event] /\ \A e \in Events : Match!Count(tree, e) = Times(l, e)
    BY <1>3, <2>2, <2>3
  <2> QED BY <1>4, <2>1, <2>4 DEF CopiedAs, l, tree, w
<1>5. CASE t[1] = "only"
  <2> DEFINE r == <<"o1", "o2", "o3">>[u]
  <2>1. l = lists[r]
    BY <1>5 DEF Match!Copied
  <2>2. r \in Rests /\ Held[r] = <<u>>
    <3>1. <<"o1", "o2", "o3">>[1] = "o1" /\ <<"o1", "o2", "o3">>[2] = "o2" /\ <<"o1", "o2", "o3">>[3] = "o3"
      OBVIOUS
    <3> QED BY <1>1, <3>1, HeldIs DEF Rests
  <2> HIDE DEF l, r, tree
  <2> DEFINE us == <<u>>
  <2>3. us \in Seq(Nat) /\ 1 \in DOMAIN us /\ us[1] = u
    BY <1>1
  <2>4. Held[r] = us
    BY <2>2
  <2> HIDE DEF us
  <2>5. l \in Seq(MatchItem) /\ Fits(l, us) /\ IsRest(l, u)
    BY <1>1, <2>1, <2>2, <2>3, <2>4, HeldIs DEF MatchTypeOK, ListsFit
  <2>6. x = 1 - 1
    BY <1>5
  <2>7. tree = [i \in DOMAIN l |-> l[i].event] /\ \A e \in Events : Match!Count(tree, e) = Times(l, e)
    BY <1>3, <2>3, <2>5, <2>6
  <2> QED BY <1>5, <2>5, <2>7 DEF CopiedAs, l, tree
<1> QED BY <1>1, <1>4, <1>5

LEMMA CopyInv == ASSUME MatchConstants, MatchInv, Match!Copy PROVE MatchInv'
<1>1. /\ pc = "listed" /\ UNCHANGED <<trees, branches, options, lists, scan, report>>
      /\ output' = [t \in Match!Outputs |-> Match!cpTree(Match!Copied(t), trees[t[2]], IF t[1] = "common" THEN t[2] - 1 ELSE 0)]
      /\ whitelists' = [t \in IF options.json = "dir" THEN Match!Outputs ELSE {} |-> Match!EventWhitelist(Match!Copied(t))]
      /\ pc' \in {"raised", "copied", "done"}
  BY DEF Match!Copy, Match!input
<1>2. /\ MatchTypeOK /\ Len(trees) >= 2 /\ ListsFit(lists, Made(Match!Last + 1))
  BY <1>1 DEF MatchInv
<1> DEFINE w == IF Len(trees) = 3 THEN "com123" ELSE "com12"
           one == <<"common", 1>>
<1>3. /\ w \in Wholes /\ w \in Made(Match!Last + 1)
      /\ DOMAIN Held[w] = Match!Matched /\ \A q \in Match!Matched : Held[w][q] = q
  BY HeldAt
<1>4. DOMAIN output' = Match!Outputs /\ DOMAIN whitelists' \subseteq Match!Outputs
  BY <1>1
<1>5. ASSUME NEW t \in Match!Outputs PROVE CopiedAs(t, output'[t], Match!Copied(t))
  <2> DEFINE x == IF t[1] = "common" THEN t[2] - 1 ELSE 0
  <2>1. (t[1] = "common" /\ x = t[2] - 1) \/ (t[1] # "common" /\ x = 0)
    OBVIOUS
  <2>2. output'[t] = Match!cpTree(Match!Copied(t), trees[t[2]], x)
    BY <1>1
  <2> HIDE DEF x
  <2> QED BY <1>2, <2>1, <2>2, Copied
<1>6. ASSUME NEW t \in Match!Outputs
      PROVE  /\ t[1] = "common" \/ t[1] = "only"
             /\ one \in Match!Outputs /\ one[1] = "common"
             /\ t[2] \in Match!Matched
  BY CopiedTrees
<1> HIDE DEF w, one
<1>7. ASSUME NEW t \in Match!Outputs, t[1] = "common"
      PROVE  output'[t] = [i \in DOMAIN lists[w] |-> lists[w][i].event] /\ \A e \in Events : Match!Count(output'[t], e) = Times(lists[w], e)
  <2>1. Match!Copied(t) = lists[w]
    BY <1>5, <1>7 DEF CopiedAs, w
  <2> QED BY <1>5, <2>1 DEF CopiedAs
<1>8. ASSUME NEW e \in Events
      PROVE  /\ \A q \in Match!Matched : Times(lists[w], e) <= Match!Count(trees[q], e)
             /\ \E q \in Match!Matched : Times(lists[w], e) = Match!Count(trees[q], e)
  BY <1>2, <1>3 DEF ListsFit, IsLeast
<1>9. Match!CommonTreesAgree'
  <2>1. trees' = trees /\ Match!Matched' = Match!Matched
    BY <1>1 DEF Match!Matched
  <2>2. ASSUME NEW t \in DOMAIN output', t[1] = "common"
        PROVE  /\ output'[t] = output'[one]
               /\ \A e \in Events : /\ \A q \in Match!Matched : Match!Count(output'[t], e) <= Match!Count(trees[q], e)
                                    /\ \E q \in Match!Matched : Match!Count(output'[t], e) = Match!Count(trees[q], e)
    BY <1>4, <1>6, <1>7, <1>8, <2>2
  <2> QED BY <2>1, <2>2 DEF Match!CommonTreesAgree, one
<1>10. Match!OnlyIsNotCommon'
  <2>1. trees' = trees /\ Match!Matched' = Match!Matched
    BY <1>1 DEF Match!Matched
  <2>2. ASSUME NEW t \in DOMAIN output', t[1] = "only", NEW e \in Events
        PROVE  \E q \in Match!Matched : Match!Count(output'[t], e) + Match!Count(trees[q], e) <= Match!Count(trees[t[2]], e)
    BY <1>4, <1>5, <2>2 DEF CopiedAs, IsRest
  <2> QED BY <2>1, <2>2 DEF Match!OnlyIsNotCommon
<1>11. Match!WhitelistsFit'
  <2> SUFFICES ASSUME NEW t \in DOMAIN whitelists' PROVE whitelists'[t] = [i \in DOMAIN output'[t] |-> EventNumber[output'[t][i]]]
    BY DEF Match!WhitelistsFit
  <2> DEFINE l == Match!Copied(t)
  <2>1. output'[t] = [i \in DOMAIN l |-> l[i].event]
    BY <1>4, <1>5 DEF CopiedAs
  <2>2. whitelists'[t] = [i \in DOMAIN l |-> EventNumber[l[i].event]]
    BY <1>1 DEF Match!EventWhitelist
  <2> HIDE DEF l
  <2> QED BY <2>1, <2>2
<1>12. Match!DifferencesTold'
  BY <1>1, DifferencesKept DEF MatchInv, Match!input
<1>13. MatchTypeOK' /\ MatchReached'
  BY <1>1, <1>2 DEF MatchTypeOK, MatchReached
<1> QED BY <1>9, <1>10, <1>11, <1>12, <1>13 DEF MatchInv, MatchReached

\* What is told of a branch is true if nothing was raised.
LEMMA ComparedTruly ==
  ASSUME NEW i, NEW j, NEW events, NEW dictionary, NEW r, r = Match!compareTrees(i, j, events, dictionary), ~r.raised,
         NEW b \in branches[i], NEW other, other = Match!Translated(b, dictionary)
  PROVE  /\ b \in r.used <=> other \in branches[j]
         /\ b \in r.told <=> other \in branches[j] /\ Match!Value(i, b) # Match!Value(j, other) /\ b \notin options.ignore
<1> DEFINE used == Match!Used(branches[i], branches[j], dictionary)
           different == {d \in used : Match!Differs(i, j, d, dictionary)}
<1>1. r.used = used /\ r.told = IF options.ignore = None THEN {} ELSE different \ options.ignore
  BY DEF Match!compareTrees
<1>2. ~(different # {} /\ options.ignore = None)
  BY DEF Match!compareTrees
<1>3. b \in used <=> other \in branches[j]
  BY DEF Match!Used
<1>4. b \in different <=> other \in branches[j] /\ Match!Value(i, b) # Match!Value(j, other)
  BY <1>3 DEF Match!Differs
<1> HIDE DEF used, different
<1> QED BY <1>1, <1>2, <1>3, <1>4

LEMMA IsFunction == ASSUME NEW S, NEW z \in Seq(S) PROVE z = [i \in 1 .. Len(z) |-> z[i]]
OBVIOUS

LEMMA AppendedAny ==
  ASSUME NEW s, s \in Seq({s[i] : i \in DOMAIN s}), NEW r, NEW z, z = Append(s, r)
  PROVE  /\ z \in Seq({z[i] : i \in DOMAIN z}) /\ Len(s) \in Nat /\ DOMAIN s = 1 .. Len(s) /\ DOMAIN z = 1 .. Len(s) + 1
         /\ z[Len(s) + 1] = r /\ \A i \in DOMAIN s : z[i] = s[i]
<1> DEFINE S == {s[i] : i \in DOMAIN s} \cup {r}
           T == {z[i] : i \in DOMAIN z}
<1>1. s \in Seq(S)
  OBVIOUS
<1>2. r \in S
  OBVIOUS
<1> HIDE DEF S
<1>3. /\ Len(s) \in Nat /\ DOMAIN s = 1 .. Len(s) /\ DOMAIN z = 1 .. Len(s) + 1 /\ Len(z) = Len(s) + 1 /\ z \in Seq(S)
      /\ z[Len(s) + 1] = r /\ \A i \in DOMAIN s : z[i] = s[i]
  BY <1>1, <1>2
<1>4. z = [i \in 1 .. Len(s) + 1 |-> z[i]] /\ Len(s) + 1 \in Nat
  <2>1. z = [i \in 1 .. Len(z) |-> z[i]]
    BY <1>3, IsFunction
  <2> QED BY <1>3, <2>1
<1>5. \A i \in 1 .. Len(s) + 1 : z[i] \in T
  BY <1>3
<1> HIDE DEF T
<1>6. z \in [1 .. Len(s) + 1 -> T]
  BY <1>4, <1>5
<1>7. z \in Seq(T)
  <2> DEFINE n == Len(s) + 1
  <2>1. n \in Nat /\ z \in [1 .. n -> T]
    BY <1>4, <1>6
  <2> HIDE DEF n
  <2> QED BY <2>1, IsSeq
<1> QED BY <1>3, <1>7 DEF T

LEMMA CompareInv == ASSUME MatchConstants, MatchInv, Match!Compare PROVE MatchInv'
<1> DEFINE k == Len(report) + 1
           i == Match!Pairs[k][1]
           j == Match!Pairs[k][2]
           dictionary == IF k = 1 THEN options.dictionary ELSE <<>>
           events == Len(output[<<"common", 1>>])
           r == Match!compareTrees(i, j, events, dictionary)
<1>1. /\ pc = "copied" /\ UNCHANGED <<trees, branches, options, lists, scan, output, whitelists>>
      /\ report' = Append(report, r)
  BY DEF Match!Compare, Match!input
<1>2. pc' \in {"raised", "done", "copied"}
  BY <1>1 DEF Match!Compare
<1>3. MatchTold'
  BY <1>1, ToldKept DEF MatchInv, MatchTold
<1>4. report \in Seq({report[n] : n \in DOMAIN report}) /\ Match!DifferencesTold
  BY DEF MatchInv, MatchTypeOK
<1> HIDE DEF r
<1>5. /\ report' \in Seq({report'[n] : n \in DOMAIN report'}) /\ Len(report) \in Nat /\ DOMAIN report = 1 .. Len(report)
      /\ DOMAIN report' = 1 .. k /\ report'[k] = r /\ \A n \in DOMAIN report : report'[n] = report[n]
  BY <1>1, <1>4, AppendedAny
<1> DEFINE TrueOf(s, n) ==
             ~s.raised => \A b \in branches[s.pair[1]] :
               LET other == IF n = 1 /\ b \in DOMAIN options.dictionary THEN options.dictionary[b] ELSE b
               IN  /\ b \in s.used <=> other \in branches[s.pair[2]]
                   /\ b \in s.told <=> other \in branches[s.pair[2]] /\ Match!Value(s.pair[1], b) # Match!Value(s.pair[2], other) /\ b \notin options.ignore
<1>6. \A n \in DOMAIN report : TrueOf(report[n], n)
  BY <1>4 DEF Match!DifferencesTold
<1>7. TrueOf(r, k)
  <2>1. r.pair[1] = i /\ r.pair[2] = j
    BY DEF r, Match!compareTrees
  <2> SUFFICES ASSUME ~r.raised, NEW b \in branches[i], NEW other, other = IF k = 1 /\ b \in DOMAIN options.dictionary THEN options.dictionary[b] ELSE b
               PROVE  /\ b \in r.used <=> other \in branches[j]
                      /\ b \in r.told <=> other \in branches[j] /\ Match!Value(i, b) # Match!Value(j, other) /\ b \notin options.ignore
    BY <2>1
  <2>2. other = Match!Translated(b, dictionary)
    <3>1. CASE k = 1
      BY <3>1 DEF Match!Translated
    <3>2. CASE k # 1
      <4>1. DOMAIN <<>> = {}
        OBVIOUS
      <4> QED BY <3>2, <4>1 DEF Match!Translated
    <3> QED BY <3>1, <3>2
  <2>3. r = Match!compareTrees(i, j, events, dictionary)
    BY DEF r
  <2> HIDE DEF i, j, events, dictionary, k
  <2> QED BY <2>2, <2>3, ComparedTruly
<1>8. \A n \in DOMAIN report' : TrueOf(report'[n], n)
  <2> HIDE DEF TrueOf
  <2>1. ASSUME NEW n \in DOMAIN report' PROVE TrueOf(report'[n], n)
    <3>1. n = k \/ n \in DOMAIN report
      BY <1>5
    <3> QED BY <1>5, <1>6, <1>7, <3>1
  <2> QED BY <2>1
<1>9. Match!DifferencesTold'
  BY <1>1, <1>8 DEF Match!DifferencesTold, Match!Value
<1>10. MatchTypeOK' /\ MatchReached'
  BY <1>1, <1>2, <1>5 DEF MatchInv, MatchTypeOK, MatchReached
<1> QED BY <1>3, <1>9, <1>10 DEF MatchInv, MatchReached, MatchTold

\* The invariant of a run of the program.
LEMMA MatchNextInv == ASSUME MatchConstants, MatchInv, [Match!Next]_Match!vars PROVE MatchInv'
<1>1. CASE UNCHANGED Match!vars
  <2>1. UNCHANGED <<trees, branches, options, lists, scan, output, whitelists, report, pc>>
    BY <1>1 DEF Match!vars
  <2>2. MatchTold' /\ Match!DifferencesTold'
    BY <2>1, ToldKept, DifferencesKept DEF MatchInv, MatchTold, Match!input
  <2>3. MatchTypeOK'
    BY <2>1 DEF MatchInv, MatchTypeOK
  <2>4. Match!Last' = Match!Last /\ Match!One' = Match!One /\ Match!Other' = Match!Other
    BY <2>1 DEF Match!Last, Match!One, Match!Other
  <2>5. pc = "comparing" => ListsFit(lists, Made(scan.k))'
    BY <2>1, NextLists DEF MatchInv
  <2>6. pc = "listed" => ListsFit(lists, Made(scan.k + 1))'
    BY <2>1, NextLists DEF MatchInv
  <2>7. pc = "comparing" => ScanFits(Match!One, Match!Other, scan)'
    BY <2>1, <2>4 DEF MatchInv, ScanFits, Sorted, Sources, Rising
  <2>8. MatchReached'
    BY <2>1, <2>4, <2>5, <2>6, <2>7 DEF MatchInv, MatchReached
  <2> QED BY <2>2, <2>3, <2>8 DEF MatchInv, MatchReached, MatchTold
<1> QED BY <1>1, CheckInv, ReadInv, TurnInv, ReturnInv, CopyInv, CompareInv DEF Match!Next

-----------------------------------------------------------------------------
(* Trees.                                                                  *)
\* What the theorem assumes of the constants: no tree is called by what stands for a path
\* that names none, and a branch has a leaf.
TreeConstants == \A p \in Programs : "first" \notin p.trees /\ p.leaves \subseteq Nat \ {0} /\ p.writeEvery \in Int

IsTree(t) == t = [name |-> t.name, entries |-> t.entries, columns |-> t.columns] /\ t.name # "first"
\* A file that is there or not holds trees of different names.
IsFile(trs) ==
  /\ \E n \in Nat : DOMAIN trs = 1 .. n
  /\ \A i \in DOMAIN trs : IsTree(trs[i])
  /\ \A i, j \in DOMAIN trs : trs[i].name = trs[j].name => i = j

Loop == {"next", "left", "done"}
BranchData == Seq([name : program.branches, leaves : Nat \ {0}])
IsExtender(x) ==
  /\ x = [state |-> x.state, file |-> x.file, tree |-> x.tree, attached |-> x.attached, current |-> x.current,
          branchData |-> x.branchData, unpack |-> x.unpack, at |-> x.at, columns |-> x.columns, buffer |-> x.buffer]
  /\ x.state \in {"open", "failed"} \cup Loop /\ x.file \in Files /\ IsTree(x.tree)
  /\ x.attached \in BOOLEAN /\ x.current \in BOOLEAN /\ x.branchData \in BranchData /\ x.at \in Nat /\ (x.state \notin Loop => x.at = 0)
SourcePath == [file : Files, name : Trees!Named]
AnyMerger == {Trees!Closed, Trees!Refused} \cup [state : {"open", "merged", "failed"}, file : Files, name : Trees!Named, paths : Seq(SourcePath)]
TreeTypeOK ==
  /\ program \in Programs
  /\ disk = [f \in Files |-> disk[f]] /\ \A f \in Files : IsFile(disk[f])
  /\ extender \in {Trees!Closed, Trees!Refused} \/ IsExtender(extender)
  /\ merger \in [program.mergers -> AnyMerger]

\* What a column of the extender holds after its first n entries.
Asked(cs, h, i, n) ==
  IF i = Trees!Array(cs, cs[i].name) THEN [k \in 1 .. n |-> SubSeq(h[cs[i].name][k], 1, 1)] ELSE [k \in 1 .. n |-> <<Trees!Default>>]
ColumnsFilled ==
  /\ \E n \in 0 .. Len(extender.branchData) : DOMAIN extender.columns = 1 .. n
  /\ \A i \in DOMAIN extender.columns :
       extender.columns[i] = [name |-> extender.columns[i].name, values |-> Asked(extender.columns, asked, i, extender.at)]
  /\ asked = [b \in Trees!New |-> [k \in 1 .. extender.at |-> asked[b][k]]]

InFile == Trees!Opened /\ extender.attached => \E i \in DOMAIN disk[extender.file] : disk[extender.file][i].name = extender.tree.name
Unwritten == extender.state \notin Loop => \A f \in Files : \A i \in DOMAIN disk[f] : disk[f][i].columns = <<>>
InLoop == extender.state \in Loop => ColumnsFilled
TreeInv == TreeTypeOK /\ InFile /\ Unwritten /\ InLoop /\ Trees!ColumnsAsAsked /\ Trees!CutAtLastWrite

-----------------------------------------------------------------------------
\* Trees in a file.
LEMMA OneTree == ASSUME NEW t, IsTree(t) PROVE IsFile(<<t>>) /\ 1 \in DOMAIN <<t>> /\ <<t>>[1] = t /\ DOMAIN <<t>> = {1}
<1>1. DOMAIN <<t>> = 1 .. 1 /\ <<t>>[1] = t
  OBVIOUS
<1>2. \E n \in Nat : DOMAIN <<t>> = 1 .. n
  BY <1>1
<1> QED BY <1>1, <1>2 DEF IsFile

LEMMA TheTree ==
  ASSUME NEW trs, IsFile(trs), NEW i \in DOMAIN trs, NEW name, trs[i].name = name
  PROVE  (CHOOSE j \in DOMAIN trs : trs[j].name = name) = i
<1>1. \A j \in DOMAIN trs : trs[j].name = name => j = i
  BY DEF IsFile
<1> QED BY <1>1

\* The named tree, or the first one.
LEMMA TreeFound ==
  ASSUME NEW f \in Files, IsFile(disk[f]), NEW name, ~Trees!NoTree(f, name), \A i \in DOMAIN disk[f] : disk[f][i].name # "first"
  PROVE  \E i \in DOMAIN disk[f] : /\ Trees!getTree(f, name) = disk[f][i]
                                   /\ name = "first" => i = 1
                                   /\ name # "first" => disk[f][i].name = name
<1> DEFINE S == Trees!Found(f, name)
<1>1. S # {} /\ S \subseteq DOMAIN disk[f]
  BY DEF Trees!NoTree, Trees!Found
<1>2. PICK n \in Nat : DOMAIN disk[f] = 1 .. n
  BY DEF IsFile
<1>3. \A i \in S : (name # "first" => disk[f][i].name = name) /\ i \in Nat
  BY <1>2 DEF Trees!Found
<1>4. name = "first" => S = DOMAIN disk[f]
  BY DEF Trees!Found
<1>5. \E i \in S : \A j \in S : i <= j
  <2>1. CASE name = "first"
    <3>1. 1 \in S /\ \A j \in S : 1 <= j
      BY <1>1, <1>2, <1>4, <2>1
    <3> QED BY <3>1
  <2>2. CASE name # "first"
    <3>1. \A i, j \in S : i = j
      BY <1>1, <1>3, <2>2 DEF IsFile
    <3>2. PICK i \in S : TRUE
      BY <1>1
    <3>3. \A j \in S : i <= j
      BY <1>3, <3>1, <3>2
    <3> QED BY <3>2, <3>3
  <2> QED BY <2>1, <2>2
<1> DEFINE c == CHOOSE i \in S : \A j \in S : i <= j
<1>6. c \in S /\ \A j \in S : c <= j
  BY <1>5
<1>7. Trees!getTree(f, name) = disk[f][c]
  BY DEF Trees!getTree
<1> HIDE DEF c, S
<1>8. name = "first" => c = 1
  <2>1. SUFFICES ASSUME name = "first" PROVE c = 1
    OBVIOUS
  <2>2. c \in 1 .. n /\ 1 \in S
    BY <1>1, <1>2, <1>4, <1>6, <2>1
  <2> QED BY <1>6, <2>2
<1> QED BY <1>1, <1>3, <1>6, <1>7, <1>8

\* The file with a tree written to it.
LEMMA ReplacedFile ==
  ASSUME NEW trs, IsFile(trs), NEW t, IsTree(t), NEW r, r = Trees!Replaced(trs, t)
  PROVE  /\ IsFile(r) /\ DOMAIN r = DOMAIN trs
         /\ \A i \in DOMAIN trs : r[i].name = trs[i].name /\ (trs[i].name = t.name => r[i] = t)
<1>1. DOMAIN r = DOMAIN trs /\ \A i \in DOMAIN trs : r[i] = IF trs[i].name = t.name THEN t ELSE trs[i]
  BY DEF Trees!Replaced
<1>2. \A i \in DOMAIN trs : r[i].name = trs[i].name /\ IsTree(r[i]) /\ (trs[i].name = t.name => r[i] = t)
  BY <1>1 DEF IsFile
<1> QED BY <1>1, <1>2 DEF IsFile

-----------------------------------------------------------------------------
\* New branches and their arrays.
LEMMA Least == ASSUME NEW S \in SUBSET Nat, S # {} PROVE \E p \in S : \A q \in S : p <= q
<1>1. PICK p \in S : \A q \in S : ~(<<q, p>> \in OpToRel(<, Nat))
  BY NatLessThanWellFounded, WFMin
<1>2. \A q \in S : ~(q < p)
  BY <1>1 DEF OpToRel
<1> QED BY <1>2

\* Of the numbers up to n, one is the last.
LEMMA Greatest ==
  ASSUME NEW n \in Nat, NEW S \in SUBSET (1 .. n), S # {}
  PROVE  \E i \in S : \A j \in S : j <= i
<1> DEFINE R == {m \in 0 .. n : n - m \in S}
<1>1. R \in SUBSET Nat
  OBVIOUS
<1>2. PICK s \in S : TRUE
  OBVIOUS
<1>3. n - s \in R
  BY <1>2
<1>4. R # {}
  BY <1>3
<1> HIDE DEF R
<1>5. PICK m \in R : \A k \in R : m <= k
  BY <1>1, <1>4, Least
<1> USE DEF R
<1>6. n - m \in S /\ m \in Nat
  OBVIOUS
<1>7. ASSUME NEW j \in S PROVE j <= n - m
  <2>1. n - j \in R /\ j \in Nat
    OBVIOUS
  <2>2. m <= n - j
    BY <1>5, <2>1
  <2> QED BY <1>6, <2>1, <2>2
<1> QED BY <1>6, <1>7

LEMMA NewIs ==
  ASSUME NEW cs PROVE Trees!Names(cs) = {cs[i].name : i \in DOMAIN cs}
BY DEF Trees!Names, Trees!Range

-----------------------------------------------------------------------------
\* Steps.
LEMMA TreesInitInv == ASSUME TreeConstants PROVE Trees!Init => TreeInv
<1> SUFFICES ASSUME Trees!Init PROVE TreeInv
  OBVIOUS
<1>1. program \in Programs /\ "first" \notin program.trees
  BY DEF Trees!Init, TreeConstants
<1>2. extender = Trees!Closed /\ extender.state = "none"
  BY DEF Trees!Init, Trees!Closed
<1>3. merger \in [program.mergers -> AnyMerger]
  BY DEF Trees!Init, AnyMerger
<1>4. ASSUME NEW f \in Files PROVE IsFile(disk[f]) /\ \A i \in DOMAIN disk[f] : disk[f][i].columns = <<>>
  <2>1. CASE disk[f] = <<>>
    <3>1. DOMAIN disk[f] = 1 .. 0 /\ 0 \in Nat
      BY <2>1
    <3>2. DOMAIN disk[f] = {}
      BY <3>1
    <3> QED BY <3>1, <3>2 DEF IsFile
  <2>2. CASE disk[f] = <<Trees!Tree("u", <<"e5">>), Trees!Tree("t", <<"e6", "e7">>)>>
    <3> DEFINE t1 == Trees!Tree("u", <<"e5">>)
               t2 == Trees!Tree("t", <<"e6", "e7">>)
    <3>1. IsTree(t1) /\ IsTree(t2) /\ t1.name # t2.name /\ t1.columns = <<>> /\ t2.columns = <<>>
      BY DEF IsTree, Trees!Tree
    <3>2. DOMAIN disk[f] = 1 .. 2 /\ disk[f][1] = t1 /\ disk[f][2] = t2 /\ 2 \in Nat
      BY <2>2
    <3> HIDE DEF t1, t2
    <3> QED BY <3>1, <3>2 DEF IsFile
  <2>3. CASE \E n \in program.trees, e \in {<<"e1">>, <<"e2", "e3", "e4">>} : disk[f] = <<Trees!Tree(n, e)>>
    <3>1. PICK n \in program.trees, e \in {<<"e1">>, <<"e2", "e3", "e4">>} : disk[f] = <<Trees!Tree(n, e)>>
      BY <2>3
    <3>2. IsTree(Trees!Tree(n, e)) /\ Trees!Tree(n, e).columns = <<>>
      BY <1>1 DEF IsTree, Trees!Tree
    <3> QED BY <3>1, <3>2, OneTree
  <2> QED BY <2>1, <2>2, <2>3 DEF Trees!Init, Trees!NoFile
<1>5. disk = [f \in Files |-> disk[f]]
  BY DEF Trees!Init
<1>6. TreeTypeOK /\ Unwritten
  BY <1>1, <1>2, <1>3, <1>4, <1>5 DEF TreeTypeOK, Unwritten
<1>7. InFile /\ InLoop /\ Trees!ColumnsAsAsked /\ Trees!CutAtLastWrite
  BY <1>2 DEF InFile, InLoop, Loop, Trees!Opened, Trees!ColumnsAsAsked, Trees!CutAtLastWrite
<1> QED BY <1>6, <1>7 DEF TreeInv

\* An extender that is open, and one that is not.
LEMMA ExtenderStates ==
  ASSUME TreeInv
  PROVE  /\ extender.state \in {"none", "raised", "open", "failed"} \cup Loop
         /\ Trees!Opened <=> IsExtender(extender)
         /\ Trees!Opened <=> extender.state \in {"open", "failed"} \cup Loop
         /\ extender.state = "none" <=> extender = Trees!Closed
<1>1. extender \in {Trees!Closed, Trees!Refused} \/ IsExtender(extender)
  BY DEF TreeInv, TreeTypeOK
<1>2. CASE IsExtender(extender)
  <2>1. extender.state \in {"open", "failed"} \cup Loop /\ extender # Trees!Closed
    BY <1>2 DEF IsExtender, Trees!Closed, Loop
  <2> QED BY <1>2, <2>1 DEF Loop, Trees!Opened
<1>3. CASE extender \in {Trees!Closed, Trees!Refused}
  <2>1. extender.state \in {"none", "raised"} /\ (extender.state = "none" <=> extender = Trees!Closed)
    BY <1>3 DEF Trees!Closed, Trees!Refused
  <2>2. ~IsExtender(extender)
    BY <2>1 DEF IsExtender, Loop
  <2> QED BY <2>1, <2>2 DEF Loop, Trees!Opened
<1> QED BY <1>1, <1>2, <1>3

\* Steps that leave alone what the extender has written and asked for.
SameLoop ==
  /\ extender'.file = extender.file /\ extender'.tree = extender.tree /\ extender'.at = extender.at
  /\ extender'.columns = extender.columns /\ asked' = asked
  /\ extender'.state = extender.state \/ (extender.state = "next" /\ extender'.state = "left")
  /\ extender'.attached => extender.attached /\ disk'[extender.file] = disk[extender.file]
  /\ extender'.current => extender.current
LEMMA LoopKept ==
  ASSUME TreeInv, SameLoop, program' = program, Trees!Opened, IsExtender(extender)', Len(extender.branchData) <= Len(extender'.branchData),
         Len(extender.branchData) \in Nat, Len(extender'.branchData) \in Nat
  PROVE  InFile' /\ InLoop' /\ Trees!ColumnsAsAsked' /\ Trees!CutAtLastWrite'
<1>1. TreeTypeOK /\ InFile /\ InLoop /\ Trees!ColumnsAsAsked /\ Trees!CutAtLastWrite
  BY DEF TreeInv
<1>2. (Trees!New)' = Trees!New
  BY DEF SameLoop, Trees!New
<1>3. InFile'
  BY <1>1 DEF InFile, SameLoop
<1>4. InLoop'
  <2>2. SUFFICES ASSUME extender'.state \in Loop PROVE ColumnsFilled'
    BY DEF InLoop
  <2>3. ColumnsFilled
    BY <1>1, <2>2 DEF InLoop, SameLoop, Loop
  <2> QED BY <1>2, <2>3 DEF ColumnsFilled, SameLoop
<1>5. ASSUME extender'.attached PROVE (Trees!OnDisk)' = Trees!OnDisk
  <2>1. PICK trs, name : trs = disk[extender.file] /\ name = extender.tree.name
    OBVIOUS
  <2>2. trs = disk'[extender'.file] /\ name = extender'.tree.name
    BY <1>5, <2>1 DEF SameLoop
  <2>3. Trees!OnDisk = trs[CHOOSE i \in DOMAIN trs : trs[i].name = name].columns
    BY <2>1 DEF Trees!OnDisk
  <2>4. (Trees!OnDisk)' = trs[CHOOSE i \in DOMAIN trs : trs[i].name = name].columns
    BY <2>2 DEF Trees!OnDisk
  <2> QED BY <2>3, <2>4
<1>6. ASSUME extender'.attached, NEW n PROVE Trees!CutAt(n)' = Trees!CutAt(n)
  <2>1. (Trees!OnDisk)' = Trees!OnDisk
    BY <1>5, <1>6
  <2>2. ASSUME NEW i PROVE Trees!Written(i, n)' = Trees!Written(i, n)
    BY <1>2, <2>1 DEF SameLoop, Trees!Written
  <2> QED BY <2>1, <2>2 DEF Trees!CutAt, SameLoop
<1>7. Trees!ColumnsAsAsked'
  <2>1. SUFFICES ASSUME extender'.state = "done", extender'.attached PROVE Trees!CutAt(Trees!Entries)'
    BY DEF Trees!ColumnsAsAsked
  <2>2. (Trees!Entries)' = Trees!Entries /\ Trees!CutAt(Trees!Entries)
    BY <1>1, <2>1 DEF SameLoop, Trees!Entries, Trees!ColumnsAsAsked
  <2> QED BY <1>6, <2>1, <2>2
<1>8. Trees!CutAtLastWrite'
  <2>1. SUFFICES ASSUME extender'.state \in {"next", "left"}, extender'.attached
                 PROVE  \/ (Trees!OnDisk)' = <<>> /\ (extender'.current /\ program.writeEvery > 0 /\ (Trees!New)' # {} => extender'.at < program.writeEvery)
                        \/ \E n \in 1 .. extender'.at : Trees!CutAt(n)' /\ Trees!Due(n)' /\ (extender'.current => n + program.writeEvery > extender'.at)
    BY DEF Trees!CutAtLastWrite
  <2>2. extender.state \in {"next", "left"} /\ extender.attached /\ (extender'.current => extender.current) /\ extender'.at = extender.at
    BY <2>1 DEF SameLoop
  <2>3. \A n : Trees!Due(n)' = Trees!Due(n)
    BY DEF Trees!Due
  <2>4. CASE Trees!OnDisk = <<>> /\ (extender.current /\ program.writeEvery > 0 /\ Trees!New # {} => extender.at < program.writeEvery)
    BY <1>2, <1>5, <2>1, <2>2, <2>4
  <2>5. CASE \E n \in 1 .. extender.at : Trees!CutAt(n) /\ Trees!Due(n) /\ (extender.current => n + program.writeEvery > extender.at)
    <3>1. PICK n \in 1 .. extender.at : Trees!CutAt(n) /\ Trees!Due(n) /\ (extender.current => n + program.writeEvery > extender.at)
      BY <2>5
    <3> QED BY <1>6, <2>1, <2>2, <2>3, <3>1
  <2> QED BY <1>1, <2>2, <2>4, <2>5 DEF Trees!CutAtLastWrite
<1> QED BY <1>3, <1>4, <1>7, <1>8
-----------------------------------------------------------------------------
LEMMA MergersKept ==
  ASSUME TreeTypeOK, program' = program, merger' = merger
  PROVE  program' \in Programs /\ merger' \in [program'.mergers -> AnyMerger']
<1>1. AnyMerger' = AnyMerger
  BY DEF AnyMerger, SourcePath, Trees!Named
<1> QED BY <1>1 DEF TreeTypeOK

\* A tree of a file, and a copy of it.
LEMMA GotTree ==
  ASSUME TreeInv, NEW f \in Files, NEW name, ~Trees!NoTree(f, name)
  PROVE  /\ IsTree(Trees!getTree(f, name))
         /\ \E i \in DOMAIN disk[f] : /\ Trees!getTree(f, name) = disk[f][i] /\ (name = "first" => i = 1)
                                      /\ (name # "first" => disk[f][i].name = name)
<1>1. IsFile(disk[f])
  BY DEF TreeInv, TreeTypeOK
<1>2. \A i \in DOMAIN disk[f] : disk[f][i].name # "first" /\ IsTree(disk[f][i])
  BY <1>1 DEF IsFile, IsTree
<1> QED BY <1>1, <1>2, TreeFound

\* An extender that has just been opened.
LEMMA OpenedFits ==
  ASSUME TreeConstants, NEW f \in Files, NEW t, IsTree(t), NEW a \in BOOLEAN, extender' = Trees!Extender(f, t, a),
         a => \E i \in DOMAIN disk'[f] : disk'[f][i].name = t.name,
         program' = program
  PROVE  IsExtender(extender)' /\ InFile' /\ InLoop' /\ Trees!ColumnsAsAsked' /\ Trees!CutAtLastWrite' /\ extender'.state \notin Loop
<1>1. /\ extender'.state = "open" /\ extender'.file = f /\ extender'.tree = t /\ extender'.attached = a /\ extender'.current = TRUE
      /\ extender'.branchData = <<>> /\ extender'.at = 0
  BY DEF Trees!Extender
<1>2. IsExtender(extender)'
  BY <1>1 DEF Trees!Extender, IsExtender, BranchData, IsTree
<1>3. InFile'
  BY <1>1 DEF InFile
<1> QED BY <1>1, <1>2, <1>3 DEF InLoop, Loop, Trees!ColumnsAsAsked, Trees!CutAtLastWrite

\* A step that opens no extender.
LEMMA ClosedFits ==
  ASSUME extender' \in {Trees!Closed, Trees!Refused}
  PROVE  InFile' /\ InLoop' /\ Trees!ColumnsAsAsked' /\ Trees!CutAtLastWrite' /\ extender'.state \notin Loop
<1>1. extender'.state \in {"none", "raised"}
  BY DEF Trees!Closed, Trees!Refused
<1> QED BY <1>1 DEF InFile, InLoop, Loop, Trees!Opened, Trees!ColumnsAsAsked, Trees!CutAtLastWrite

LEMMA ExtendInv ==
  ASSUME TreeConstants, TreeInv, NEW f \in Files, NEW name, Trees!Extend(f, name)
  PROVE  TreeInv'
<1>1. TreeTypeOK /\ Unwritten /\ extender.state = "none" /\ program' = program /\ disk' = disk /\ merger' = merger
  BY DEF TreeInv, Trees!Extend
<1>2. Unwritten /\ extender.state \notin Loop
  BY <1>1 DEF Loop
<1>3. CASE Trees!NoTree(f, name)
  <2>1. extender' = Trees!Refused
    BY <1>3 DEF Trees!Extend
  <2>2. TreeTypeOK' /\ Unwritten'
    BY <1>1, <1>2, <2>1, MergersKept DEF TreeTypeOK, Unwritten
  <2> QED BY <2>1, <2>2, ClosedFits DEF TreeInv
<1>4. CASE ~Trees!NoTree(f, name)
  <2>1. extender' = Trees!Extender(f, Trees!getTree(f, name), TRUE)
    BY <1>4 DEF Trees!Extend
  <2>2. PICK i \in DOMAIN disk[f] : Trees!getTree(f, name) = disk[f][i] /\ IsTree(Trees!getTree(f, name))
    BY <1>4, GotTree
  <2>3. IsExtender(extender)' /\ InFile' /\ InLoop' /\ Trees!ColumnsAsAsked' /\ Trees!CutAtLastWrite' /\ extender'.state \notin Loop
    BY <1>1, <2>1, <2>2, OpenedFits
  <2>4. TreeTypeOK' /\ Unwritten'
    BY <1>1, <1>2, <2>3, MergersKept DEF TreeTypeOK, Unwritten
  <2> QED BY <2>3, <2>4 DEF TreeInv
<1> QED BY <1>3, <1>4

LEMMA ExtendCopyInv ==
  ASSUME TreeConstants, TreeInv, NEW f \in Files, NEW name, NEW into \in Files, NEW newName, NEW over,
         newName \in Trees!Named, Trees!ExtendCopy(f, name, into, newName, over)
  PROVE  TreeInv'
<1>1. TreeTypeOK /\ Unwritten /\ extender.state = "none" /\ program' = program /\ merger' = merger
  BY DEF TreeInv, Trees!ExtendCopy
<1>2. Unwritten /\ extender.state \notin Loop
  BY <1>1 DEF Loop
<1>3. CASE Trees!NoTree(f, name) \/ ~Trees!MayWrite(into, over)
  <2>1. extender' = Trees!Refused /\ disk' = disk
    BY <1>3 DEF Trees!ExtendCopy
  <2>2. TreeTypeOK' /\ Unwritten'
    BY <1>1, <1>2, <2>1, MergersKept DEF TreeTypeOK, Unwritten
  <2> QED BY <2>1, <2>2, ClosedFits DEF TreeInv
<1>4. CASE ~(Trees!NoTree(f, name) \/ ~Trees!MayWrite(into, over))
  <2> DEFINE tree == Trees!Copy(f, name, newName)
  <2>1. /\ disk' = [disk EXCEPT ![into] = <<tree>>]
        /\ extender' = IF into # f THEN Trees!Extender(into, tree, TRUE)
                       ELSE IF Trees!NoTree(f, tree.name) THEN Trees!Refused ELSE Trees!Extender(f, Trees!getTree(f, tree.name), FALSE)
    BY <1>4 DEF Trees!ExtendCopy
  <2>2. PICK i \in DOMAIN disk[f] : Trees!getTree(f, name) = disk[f][i] /\ IsTree(Trees!getTree(f, name))
    BY <1>4, GotTree
  <2>3. Trees!getTree(f, name).columns = <<>>
    BY <1>2, <2>2 DEF Unwritten
  <2>4. IsTree(tree) /\ tree.columns = <<>>
    BY <2>2, <2>3 DEF Trees!Copy, IsTree
  <2> HIDE DEF tree
  <2>5. IsFile(<<tree>>) /\ 1 \in DOMAIN <<tree>> /\ DOMAIN <<tree>> = {1} /\ <<tree>>[1] = tree
    BY <2>4, OneTree
  <2>6. disk'[into] = <<tree>> /\ \A g \in Files : g # into => disk'[g] = disk[g]
    BY <1>1, <2>1 DEF TreeTypeOK
  <2>7. disk' = [g \in Files |-> disk'[g]] /\ \A g \in Files : IsFile(disk'[g])
    <3>1. disk' = [g \in Files |-> disk'[g]]
      BY <1>1, <2>1 DEF TreeTypeOK
    <3> QED BY <1>1, <2>5, <2>6, <3>1 DEF TreeTypeOK
  <2>8. \A g \in Files : \A j \in DOMAIN disk'[g] : disk'[g][j].columns = <<>>
    <3>1. \A j \in DOMAIN disk'[into] : disk'[into][j].columns = <<>>
      BY <2>4, <2>5, <2>6
    <3> QED BY <1>2, <2>6, <3>1 DEF Unwritten
  <2>9. Unwritten'
    BY <2>8 DEF Unwritten
  <2>10. CASE into # f
    <3>1. extender' = Trees!Extender(into, tree, TRUE) /\ \E j \in DOMAIN disk'[into] : disk'[into][j].name = tree.name
      BY <2>1, <2>5, <2>6, <2>10
    <3>2. IsExtender(extender)' /\ InFile' /\ InLoop' /\ Trees!ColumnsAsAsked' /\ Trees!CutAtLastWrite'
      BY <1>1, <2>4, <3>1, OpenedFits
    <3>3. TreeTypeOK'
      BY <1>1, <2>7, <3>2, MergersKept DEF TreeTypeOK
    <3> QED BY <2>9, <3>2, <3>3 DEF TreeInv
  <2>11. CASE into = f /\ Trees!NoTree(f, tree.name)
    <3>1. extender' = Trees!Refused
      BY <2>1, <2>11
    <3>2. InFile' /\ InLoop' /\ Trees!ColumnsAsAsked' /\ Trees!CutAtLastWrite'
      BY <3>1, ClosedFits
    <3>3. TreeTypeOK'
      BY <1>1, <2>7, <3>1, MergersKept DEF TreeTypeOK
    <3> QED BY <2>9, <3>2, <3>3 DEF TreeInv
  <2>12. CASE into = f /\ ~Trees!NoTree(f, tree.name)
    <3>1. extender' = Trees!Extender(f, Trees!getTree(f, tree.name), FALSE) /\ IsTree(Trees!getTree(f, tree.name))
      BY <2>1, <2>12, GotTree
    <3>2. IsExtender(extender)' /\ InFile' /\ InLoop' /\ Trees!ColumnsAsAsked' /\ Trees!CutAtLastWrite'
      BY <1>1, <3>1, OpenedFits
    <3>3. TreeTypeOK'
      BY <1>1, <2>7, <3>2, MergersKept DEF TreeTypeOK
    <3> QED BY <2>9, <3>2, <3>3 DEF TreeInv
  <2> QED BY <2>10, <2>11, <2>12
<1> QED BY <1>3, <1>4

LEMMA AddBranchInv ==
  ASSUME TreeConstants, TreeInv, NEW b \in program.branches, NEW l \in program.leaves, NEW u, Trees!addBranch(b, l, u)
  PROVE  TreeInv'
<1>1. TreeTypeOK /\ Unwritten /\ program' = program /\ disk' = disk /\ merger' = merger /\ asked' = asked /\ Trees!Opened
  BY DEF TreeInv, Trees!addBranch
<1>2. IsExtender(extender)
  BY <1>1, ExtenderStates
<1> DEFINE r == [name |-> b, leaves |-> Trees!NLeaves(l)]
<1>3. extender' = [extender EXCEPT !.branchData = Append(@, r), !.unpack = @ \cup (u \cup {b})]
  BY DEF Trees!addBranch
<1>4. r \in [name : program.branches, leaves : Nat \ {0}]
  <2>1. program \in Programs /\ program.leaves \subseteq Nat \ {0}
    BY <1>1 DEF TreeTypeOK, TreeConstants
  <2> QED BY <2>1 DEF Trees!NLeaves
<1> HIDE DEF r
<1>5. /\ extender.branchData \in BranchData /\ Append(extender.branchData, r) \in BranchData
      /\ Len(extender.branchData) \in Nat /\ Len(Append(extender.branchData, r)) = Len(extender.branchData) + 1
  BY <1>2, <1>4 DEF IsExtender, BranchData
<1>6. /\ extender'.state = extender.state /\ extender'.file = extender.file /\ extender'.tree = extender.tree
      /\ extender'.attached = extender.attached /\ extender'.current = extender.current
      /\ extender'.branchData = Append(extender.branchData, r) /\ extender'.at = extender.at /\ extender'.columns = extender.columns
  BY <1>2, <1>3 DEF IsExtender
<1>7. IsExtender(extender)'
  <2>1. extender' = [state |-> extender'.state, file |-> extender'.file, tree |-> extender'.tree, attached |-> extender'.attached,
                     current |-> extender'.current, branchData |-> extender'.branchData, unpack |-> extender'.unpack,
                     at |-> extender'.at, columns |-> extender'.columns, buffer |-> extender'.buffer]
    BY <1>2, <1>3 DEF IsExtender
  <2>2. extender'.branchData \in BranchData'
    BY <1>1, <1>5, <1>6 DEF BranchData
  <2> QED BY <1>2, <1>6, <2>1, <2>2 DEF IsExtender
<1>8. SameLoop
  BY <1>1, <1>6 DEF SameLoop
<1>9. InFile' /\ InLoop' /\ Trees!ColumnsAsAsked' /\ Trees!CutAtLastWrite'
  BY <1>1, <1>5, <1>6, <1>7, <1>8, LoopKept
<1>10. TreeTypeOK' /\ Unwritten'
  BY <1>1, <1>6, <1>7, MergersKept DEF TreeTypeOK, Unwritten
<1> QED BY <1>9, <1>10 DEF TreeInv
-----------------------------------------------------------------------------
\* Histories and columns with one more entry.
LEMMA EmptyHistory == ASSUME NEW f, NEW n, n = 0, f = [k \in 1 .. n |-> f[k]] PROVE f = <<>>
OBVIOUS

LEMMA OneMoreEntry ==
  ASSUME NEW n \in Nat, NEW f, f = [k \in 1 .. n |-> f[k]], NEW x
  PROVE  Append(f, x) = [k \in 1 .. n + 1 |-> IF k = n + 1 THEN x ELSE f[k]]
<1> DEFINE S == {f[k] : k \in 1 .. n}
           z == Append(f, x)
<1>1. f \in [1 .. n -> S]
  OBVIOUS
<1> HIDE DEF S
<1>2. f \in Seq(S) /\ DOMAIN f = 1 .. n
  BY <1>1, IsSeq
<1>3. Len(f) = n
  BY <1>2
<1>4. f \in Seq({f[i] : i \in DOMAIN f})
  BY <1>2 DEF S
<1>5. Len(f) \in Nat /\ DOMAIN z = 1 .. Len(f) + 1 /\ z[Len(f) + 1] = x /\ \A i \in DOMAIN f : z[i] = f[i]
  BY <1>4, AppendedAny
<1>6. z \in Seq({z[i] : i \in DOMAIN z})
  <2>1. z = Append(f, x)
    OBVIOUS
  <2> HIDE DEF z
  <2> QED BY <1>4, <2>1, AppendedAny
<1>7. z = [i \in 1 .. Len(z) |-> z[i]]
  BY <1>6, IsFunction
<1> HIDE DEF z
<1>8. z = [i \in 1 .. n + 1 |-> z[i]]
  <2>1. Len(z) \in Nat /\ DOMAIN z = 1 .. Len(z)
    BY <1>6
  <2>2. DOMAIN z = 1 .. n + 1
    BY <1>3, <1>5
  <2> QED BY <1>7, <2>1, <2>2
<1>9. \A k \in 1 .. n + 1 : z[k] = IF k = n + 1 THEN x ELSE f[k]
  BY <1>2, <1>3, <1>5
<1>10. z = [k \in 1 .. n + 1 |-> IF k = n + 1 THEN x ELSE f[k]]
  BY <1>8, <1>9
<1> QED BY <1>10 DEF z

\* An array of defaults has the default in its first leaf.
LEMMA DefaultLeaf == ASSUME NEW n \in Nat \ {0}, NEW d PROVE SubSeq([l \in 1 .. n |-> d], 1, 1) = <<d>>
<1> DEFINE v == [l \in 1 .. n |-> d]
<1>1. v \in [1 .. n -> {d}]
  OBVIOUS
<1>2. v \in Seq({d})
  BY <1>1, IsSeq
<1>3. Len(v) = n /\ v[1] = d
  BY <1>2
<1> HIDE DEF v
<1>4. SubSeq(v, 1, 1) = <<v[1]>>
  <2> DEFINE z == SubSeq(v, 1, 1)
  <2>1. z \in Seq({d}) /\ Len(z) = 1 /\ z[1] = v[1]
    BY <1>2, <1>3
  <2> HIDE DEF z
  <2>2. z = <<v[1]>>
    BY <2>1
  <2> QED BY <2>2 DEF z
<1> QED BY <1>3, <1>4 DEF v

LEMMA NextDue ==
  ASSUME NEW w \in Int, w > 0, NEW n \in Nat, n % w = 0
  PROVE  (n + w) % w = 0
<1>1. n = w * (n \div w) + (n % w) /\ n \div w \in Int
  OBVIOUS
<1>2. PICK q \in Int : n = w * q
  BY <1>1
<1>3. n + w = w * (q + 1)
  BY <1>2
<1>4. (w * (q + 1)) % w = 0
  OBVIOUS
<1> QED BY <1>3, <1>4

\* The tree on disk after it has been written.
LEMMA WrittenTree ==
  ASSUME TreeInv, IsExtender(extender), extender.attached, NEW cs,
         disk' = [disk EXCEPT ![extender.file] = Trees!Replaced(@, [extender.tree EXCEPT !.columns = cs])],
         extender'.file = extender.file, extender'.tree = extender.tree
  PROVE  /\ (Trees!OnDisk)' = cs /\ InFile'
         /\ disk' = [f \in Files |-> disk'[f]] /\ \A f \in Files : IsFile(disk'[f])
<1> DEFINE f == extender.file
           t == [extender.tree EXCEPT !.columns = cs]
           r == Trees!Replaced(disk[f], t)
<1>1. f \in Files /\ IsTree(extender.tree) /\ disk = [g \in Files |-> disk[g]] /\ \A g \in Files : IsFile(disk[g])
  BY DEF IsExtender, TreeInv, TreeTypeOK
<1>2. IsTree(t) /\ t.name = extender.tree.name /\ t.columns = cs
  BY <1>1 DEF IsTree
<1>3. PICK i \in DOMAIN disk[f] : disk[f][i].name = extender.tree.name
  BY ExtenderStates DEF TreeInv, InFile
<1> HIDE DEF t
<1>4. disk' = [disk EXCEPT ![f] = r]
  BY DEF t
<1>5. IsFile(r) /\ DOMAIN r = DOMAIN disk[f] /\ r[i] = t
  BY <1>1, <1>2, <1>3, ReplacedFile
<1> HIDE DEF r
<1>6. disk'[f] = r /\ \A g \in Files : g # f => disk'[g] = disk[g]
  BY <1>1, <1>4
<1>7. disk' = [g \in Files |-> disk'[g]]
  BY <1>1, <1>4
<1>8. (CHOOSE j \in DOMAIN r : r[j].name = extender.tree.name) = i
  BY <1>2, <1>3, <1>5, TheTree
<1>9. (Trees!OnDisk)' = cs
  <2>1. (Trees!OnDisk)' = disk'[extender'.file][CHOOSE j \in DOMAIN disk'[extender'.file] : disk'[extender'.file][j].name = extender'.tree.name].columns
    BY DEF Trees!OnDisk
  <2>2. (Trees!OnDisk)' = r[CHOOSE j \in DOMAIN r : r[j].name = extender.tree.name].columns
    BY <1>6, <2>1
  <2> QED BY <1>2, <1>5, <1>8, <2>2
<1>10. InFile'
  BY <1>2, <1>3, <1>5, <1>6 DEF InFile
<1> QED BY <1>1, <1>5, <1>6, <1>7, <1>9, <1>10

\* What is written is cut at the entry that the loop is at.
LEMMA ColumnsCut ==
  ASSUME ColumnsFilled', NEW n, n = extender'.at, (Trees!OnDisk)' = extender'.columns
  PROVE  Trees!CutAt(n)'
<1>1. ASSUME NEW i \in DOMAIN extender'.columns PROVE extender'.columns[i].values = Asked(extender'.columns, asked', i, n)
  <2>1. extender'.columns[i] = [name |-> extender'.columns[i].name, values |-> Asked(extender'.columns, asked', i, n)]
    BY <1>1 DEF ColumnsFilled
  <2> QED BY <2>1
<1>2. ASSUME NEW i \in DOMAIN extender'.columns PROVE Trees!Written(i, n)' = Asked(extender'.columns, asked', i, n)
  BY <1>2 DEF Asked, Trees!Written
<1> QED BY <1>1, <1>2 DEF Trees!CutAt
-----------------------------------------------------------------------------
\* The loop.
LEMMA NotWritten ==
  ASSUME TreeInv, Trees!Opened, extender.attached, extender.state \notin Loop
  PROVE  Trees!OnDisk = <<>>
<1>1. PICK i \in DOMAIN disk[extender.file] : disk[extender.file][i].name = extender.tree.name
  BY DEF TreeInv, InFile
<1>2. extender.file \in Files /\ IsFile(disk[extender.file])
  BY ExtenderStates DEF IsExtender, TreeInv, TreeTypeOK
<1>3. disk[extender.file][i].columns = <<>>
  BY <1>1, <1>2 DEF TreeInv, Unwritten
<1> QED BY <1>1, <1>2, <1>3, TheTree DEF Trees!OnDisk

LEMMA IterateInv == ASSUME TreeConstants, TreeInv, Trees!Iterate PROVE TreeInv'
<1> DEFINE cs == [i \in DOMAIN extender.branchData |-> [name |-> extender.branchData[i].name, values |-> <<>>]]
           st == IF extender.unpack \subseteq Existing \cup Trees!Names(cs) THEN "next" ELSE "failed"
<1>1. /\ TreeTypeOK /\ Unwritten /\ extender.state = "open" /\ program' = program /\ disk' = disk /\ merger' = merger
      /\ extender' = [extender EXCEPT !.columns = cs, !.state = st] /\ asked' = [b \in Trees!Names(cs) |-> <<>>]
  BY DEF TreeInv, Trees!Iterate
<1>2. Trees!Opened /\ IsExtender(extender) /\ extender.state \notin Loop
  BY <1>1, ExtenderStates DEF Loop
<1>3. st \in {"next", "failed"}
  OBVIOUS
<1>4. /\ Len(extender.branchData) \in Nat /\ DOMAIN cs = 1 .. Len(extender.branchData)
      /\ \A i \in DOMAIN cs : cs[i] = [name |-> cs[i].name, values |-> <<>>]
  BY <1>2 DEF IsExtender, BranchData
<1> HIDE DEF cs, st
<1>5. /\ extender'.state = st /\ extender'.file = extender.file /\ extender'.tree = extender.tree
      /\ extender'.attached = extender.attached /\ extender'.current = extender.current
      /\ extender'.branchData = extender.branchData /\ extender'.at = 0 /\ extender.at = 0 /\ extender'.columns = cs
  BY <1>1, <1>2 DEF IsExtender
<1>6. IsExtender(extender)'
  <2>1. extender' = [state |-> extender'.state, file |-> extender'.file, tree |-> extender'.tree, attached |-> extender'.attached,
                     current |-> extender'.current, branchData |-> extender'.branchData, unpack |-> extender'.unpack,
                     at |-> extender'.at, columns |-> extender'.columns, buffer |-> extender'.buffer]
    BY <1>1, <1>2 DEF IsExtender
  <2>2. extender'.branchData \in BranchData'
    BY <1>1, <1>2, <1>5 DEF BranchData, IsExtender
  <2>3. st \in {"open", "failed"} \cup Loop
    BY <1>3 DEF Loop
  <2> QED BY <1>2, <1>5, <2>1, <2>2, <2>3 DEF IsExtender
<1>7. InFile'
  <2>1. InFile
    BY DEF TreeInv
  <2> QED BY <1>1, <1>2, <1>5, <2>1 DEF InFile
<1>8. ColumnsFilled'
  <2>1. asked' = [b \in (Trees!New)' |-> [k \in 1 .. extender'.at |-> asked'[b][k]]]
    <3>1. (Trees!New)' = Trees!Names(cs)
      BY <1>5 DEF Trees!New
    <3>2. ASSUME NEW b \in (Trees!New)' PROVE asked'[b] = [k \in 1 .. extender'.at |-> asked'[b][k]]
      <4>1. asked'[b] = <<>>
        BY <1>1, <3>1, <3>2
      <4> QED BY <1>5, <4>1
    <3> QED BY <1>1, <3>1, <3>2
  <2>2. ASSUME NEW i \in DOMAIN extender'.columns
        PROVE  extender'.columns[i] = [name |-> extender'.columns[i].name, values |-> Asked(extender'.columns, asked', i, extender'.at)]
    <3>1. Asked(extender'.columns, asked', i, 0) = <<>>
      BY DEF Asked
    <3> QED BY <1>4, <1>5, <2>2, <3>1
  <2> QED BY <1>4, <1>5, <2>1, <2>2 DEF ColumnsFilled
<1>9. Unwritten'
  BY <1>1, <1>2 DEF Unwritten
<1>10. Trees!ColumnsAsAsked'
  BY <1>3, <1>5 DEF Trees!ColumnsAsAsked
<1>11. Trees!CutAtLastWrite'
  <2>1. extender.attached => (Trees!OnDisk)' = <<>>
    <3>1. (Trees!OnDisk)' = Trees!OnDisk
      BY <1>1, <1>5 DEF Trees!OnDisk
    <3> QED BY <1>2, <3>1, NotWritten
  <2> QED BY <1>1, <1>5, <2>1 DEF Trees!CutAtLastWrite
<1>12. TreeTypeOK'
  BY <1>1, <1>6, MergersKept DEF TreeTypeOK
<1> QED BY <1>7, <1>8, <1>9, <1>10, <1>11, <1>12 DEF TreeInv, InLoop

LEMMA LeaveTreeInv == ASSUME TreeConstants, TreeInv, Trees!Leave PROVE TreeInv'
<1>1. /\ TreeTypeOK /\ extender.state = "next" /\ program' = program /\ disk' = disk /\ merger' = merger /\ asked' = asked
      /\ extender' = [extender EXCEPT !.state = "left"]
  BY DEF TreeInv, Trees!Leave
<1>2. Trees!Opened /\ IsExtender(extender) /\ extender.state \in Loop
  BY <1>1, ExtenderStates DEF Loop
<1>3. /\ extender'.state = "left" /\ extender'.file = extender.file /\ extender'.tree = extender.tree
      /\ extender'.attached = extender.attached /\ extender'.current = extender.current
      /\ extender'.branchData = extender.branchData /\ extender'.at = extender.at /\ extender'.columns = extender.columns
  BY <1>1, <1>2 DEF IsExtender
<1>4. IsExtender(extender)' /\ Len(extender.branchData) \in Nat
  <2>1. extender' = [state |-> extender'.state, file |-> extender'.file, tree |-> extender'.tree, attached |-> extender'.attached,
                     current |-> extender'.current, branchData |-> extender'.branchData, unpack |-> extender'.unpack,
                     at |-> extender'.at, columns |-> extender'.columns, buffer |-> extender'.buffer]
    BY <1>1, <1>2 DEF IsExtender
  <2>2. extender'.branchData \in BranchData' /\ Len(extender.branchData) \in Nat
    BY <1>1, <1>2, <1>3 DEF BranchData, IsExtender
  <2> QED BY <1>2, <1>3, <2>1, <2>2 DEF IsExtender, Loop
<1>5. SameLoop
  BY <1>1, <1>3 DEF SameLoop
<1>6. InFile' /\ InLoop' /\ Trees!ColumnsAsAsked' /\ Trees!CutAtLastWrite'
  BY <1>1, <1>2, <1>3, <1>4, <1>5, LoopKept
<1>7. TreeTypeOK' /\ Unwritten'
  BY <1>1, <1>3, <1>4, MergersKept DEF TreeTypeOK, Unwritten, Loop
<1> QED BY <1>6, <1>7 DEF TreeInv

LEMMA LastWriteInv == ASSUME TreeConstants, TreeInv, Trees!LastWrite PROVE TreeInv'
<1>1. /\ TreeTypeOK /\ extender.state = "next" /\ extender.at = Trees!Entries /\ Trees!Write(extender.columns)
      /\ program' = program /\ merger' = merger /\ asked' = asked
      /\ extender' = [extender EXCEPT !.state = "done", !.current = TRUE]
  BY DEF TreeInv, Trees!LastWrite
<1>2. Trees!Opened /\ IsExtender(extender) /\ extender.state \in Loop
  BY <1>1, ExtenderStates DEF Loop
<1>3. /\ extender'.state = "done" /\ extender'.file = extender.file /\ extender'.tree = extender.tree
      /\ extender'.attached = extender.attached /\ extender'.current = TRUE
      /\ extender'.branchData = extender.branchData /\ extender'.at = extender.at /\ extender'.columns = extender.columns
  BY <1>1, <1>2 DEF IsExtender
<1>4. IsExtender(extender)'
  <2>1. extender' = [state |-> extender'.state, file |-> extender'.file, tree |-> extender'.tree, attached |-> extender'.attached,
                     current |-> extender'.current, branchData |-> extender'.branchData, unpack |-> extender'.unpack,
                     at |-> extender'.at, columns |-> extender'.columns, buffer |-> extender'.buffer]
    BY <1>1, <1>2 DEF IsExtender
  <2>2. extender'.branchData \in BranchData'
    BY <1>1, <1>2, <1>3 DEF BranchData, IsExtender
  <2> QED BY <1>2, <1>3, <2>1, <2>2 DEF IsExtender, Loop
<1>5. /\ InFile' /\ disk' = [f \in Files |-> disk'[f]] /\ \A f \in Files : IsFile(disk'[f])
      /\ extender.attached => (Trees!OnDisk)' = extender'.columns
  <2>1. CASE extender.attached
    <3>1. disk' = [disk EXCEPT ![extender.file] = Trees!Replaced(@, [extender.tree EXCEPT !.columns = extender.columns])]
      BY <1>1, <2>1 DEF Trees!Write
    <3> QED BY <1>2, <1>3, <2>1, <3>1, WrittenTree
  <2>2. CASE ~extender.attached
    <3>1. disk' = disk
      BY <1>1, <2>2 DEF Trees!Write
    <3> QED BY <1>1, <1>3, <2>2, <3>1 DEF InFile, TreeTypeOK
  <2> QED BY <1>2, <2>1, <2>2 DEF IsExtender
<1>6. ColumnsFilled'
  <2>1. ColumnsFilled
    BY <1>2 DEF TreeInv, InLoop
  <2>2. (Trees!New)' = Trees!New
    BY <1>3 DEF Trees!New
  <2> QED BY <1>1, <1>3, <2>1, <2>2 DEF ColumnsFilled
<1>7. Trees!ColumnsAsAsked'
  <2>1. SUFFICES ASSUME extender'.attached PROVE Trees!CutAt(Trees!Entries)'
    BY DEF Trees!ColumnsAsAsked
  <2>2. (Trees!Entries)' = extender'.at
    BY <1>1, <1>3 DEF Trees!Entries
  <2>3. Trees!CutAt(extender.at)'
    BY <1>3, <1>5, <1>6, <2>1, ColumnsCut
  <2> QED BY <2>2, <2>3
<1>8. InLoop' /\ Unwritten' /\ Trees!CutAtLastWrite'
  BY <1>3, <1>6 DEF InLoop, Unwritten, Loop, Trees!CutAtLastWrite
<1>9. TreeTypeOK'
  BY <1>1, <1>4, <1>5, MergersKept DEF TreeTypeOK
<1> QED BY <1>5, <1>7, <1>8, <1>9 DEF TreeInv
-----------------------------------------------------------------------------
\* A turn of the loop.
InTurn(set) == TreeTypeOK /\ ColumnsFilled /\ IsExtender(extender) /\ set \subseteq Trees!New /\ Trees!Turn(set)
MoreColumns(set) == Trees!Fill(Trees!Body(set))

LEMMA TurnState ==
  ASSUME TreeConstants, NEW set, InTurn(set)
  PROVE  /\ extender.state = "next" /\ extender'.state = "next" /\ extender'.file = extender.file /\ extender'.tree = extender.tree
         /\ extender'.attached = extender.attached /\ extender'.current = extender.current /\ extender'.branchData = extender.branchData
         /\ extender'.at = extender.at + 1 /\ extender'.columns = MoreColumns(set) /\ extender.at \in Nat
         /\ program' = program /\ merger' = merger /\ IsExtender(extender)'
         /\ IF Trees!Due(extender.at + 1) /\ extender.current THEN Trees!Write(MoreColumns(set)) ELSE disk' = disk
<1>1. /\ extender.state = "next" /\ program' = program /\ merger' = merger
      /\ extender' = [extender EXCEPT !.at = @ + 1, !.columns = MoreColumns(set), !.buffer = Trees!Body(set)]
      /\ IF Trees!Due(extender.at + 1) /\ extender.current THEN Trees!Write(MoreColumns(set)) ELSE disk' = disk
  BY DEF InTurn, Trees!Turn, MoreColumns
<1>2. IsExtender(extender) /\ extender.at \in Nat
  BY DEF InTurn, IsExtender
<1>3. /\ extender'.state = "next" /\ extender'.file = extender.file /\ extender'.tree = extender.tree
      /\ extender'.attached = extender.attached /\ extender'.current = extender.current /\ extender'.branchData = extender.branchData
      /\ extender'.at = extender.at + 1 /\ extender'.columns = MoreColumns(set)
  BY <1>1, <1>2 DEF IsExtender
<1>4. IsExtender(extender)'
  <2>1. extender' = [state |-> extender'.state, file |-> extender'.file, tree |-> extender'.tree, attached |-> extender'.attached,
                     current |-> extender'.current, branchData |-> extender'.branchData, unpack |-> extender'.unpack,
                     at |-> extender'.at, columns |-> extender'.columns, buffer |-> extender'.buffer]
    BY <1>1, <1>2 DEF IsExtender
  <2>2. extender'.branchData \in BranchData'
    BY <1>1, <1>2, <1>3 DEF BranchData, IsExtender
  <2> QED BY <1>2, <1>3, <2>1, <2>2 DEF IsExtender, Loop
<1> QED BY <1>1, <1>2, <1>3, <1>4

LEMMA TurnArrays ==
  ASSUME TreeConstants, NEW set, InTurn(set)
  PROVE  /\ DOMAIN extender'.columns = DOMAIN extender.columns
         /\ \A i \in DOMAIN extender.columns : extender'.columns[i].name = extender.columns[i].name
         /\ (Trees!New)' = Trees!New
         /\ \A b : Trees!Array(extender'.columns, b) = Trees!Array(extender.columns, b)
<1> DEFINE cs == extender.columns
           ds == MoreColumns(set)
<1>1. extender'.columns = ds
  BY TurnState
<1>2. DOMAIN ds = DOMAIN cs /\ \A i \in DOMAIN cs : ds[i] = [cs[i] EXCEPT !.values = Append(@, Trees!FilledLeaf(Trees!Body(set)[i]))]
  BY DEF MoreColumns, Trees!Fill
<1>3. ASSUME NEW i \in DOMAIN cs PROVE cs[i] = [name |-> cs[i].name, values |-> cs[i].values]
  <2>1. cs[i] = [name |-> cs[i].name, values |-> Asked(cs, asked, i, extender.at)]
    BY <1>3 DEF InTurn, ColumnsFilled
  <2>2. cs[i].values = Asked(cs, asked, i, extender.at)
    BY <2>1
  <2> QED BY <2>1, <2>2
<1>4. \A i \in DOMAIN cs : ds[i].name = cs[i].name
  BY <1>2, <1>3
<1> HIDE DEF ds
<1>5. (Trees!New)' = Trees!New
  <2>1. (Trees!New)' = {ds[i].name : i \in DOMAIN ds} /\ Trees!New = {cs[i].name : i \in DOMAIN cs}
    BY <1>1, NewIs DEF Trees!New
  <2> QED BY <1>2, <1>4, <2>1
<1>6. ASSUME NEW b PROVE Trees!Array(ds, b) = Trees!Array(cs, b)
  BY <1>2, <1>4 DEF Trees!Array
<1> QED BY <1>1, <1>2, <1>4, <1>5, <1>6

\* What the body sets or leaves at its default is asked for, and gets into the column.
LEMMA TurnColumns ==
  ASSUME TreeConstants, NEW set, InTurn(set)
  PROVE  /\ ColumnsFilled'
         /\ \A b \in Trees!New : \A k \in 1 .. extender.at : asked'[b][k] = asked[b][k]
<1> DEFINE cs == extender.columns
           at == extender.at
           v(b) == IF b \in set THEN Trees!Set(b) ELSE Trees!Value(Trees!Array(cs, b), Trees!Default)
<1>1. at \in Nat /\ extender'.at = at + 1 /\ extender'.columns = MoreColumns(set) /\ extender'.branchData = extender.branchData
  BY TurnState
<1>2. PICK n \in 0 .. Len(extender.branchData) : DOMAIN cs = 1 .. n
  BY DEF InTurn, ColumnsFilled
<1>3. /\ \A i \in DOMAIN cs : cs[i] = [name |-> cs[i].name, values |-> Asked(cs, asked, i, at)]
      /\ asked = [b \in Trees!New |-> [k \in 1 .. at |-> asked[b][k]]]
  BY DEF InTurn, ColumnsFilled
<1>4. asked' = [b \in Trees!New |-> Append(asked[b], v(b))]
  BY DEF InTurn, Trees!Turn
<1>5. /\ DOMAIN extender'.columns = DOMAIN cs /\ (Trees!New)' = Trees!New
      /\ \A i \in DOMAIN cs : extender'.columns[i].name = cs[i].name
      /\ \A b : Trees!Array(extender'.columns, b) = Trees!Array(cs, b)
  BY TurnArrays
<1>6. ASSUME NEW b \in Trees!New
      PROVE  asked'[b] = [k \in 1 .. at + 1 |-> IF k = at + 1 THEN v(b) ELSE asked[b][k]]
  <2>1. asked[b] = [k \in 1 .. at |-> asked[b][k]] /\ asked'[b] = Append(asked[b], v(b))
    BY <1>3, <1>4, <1>6
  <2> HIDE DEF v, at
  <2> DEFINE f == asked[b]
             x == v(b)
  <2>2. f = [k \in 1 .. at |-> f[k]]
    BY <2>1
  <2> HIDE DEF f, x
  <2>3. Append(f, x) = [k \in 1 .. at + 1 |-> IF k = at + 1 THEN x ELSE f[k]]
    BY <1>1, <2>2, OneMoreEntry DEF at
  <2> QED BY <2>1, <2>3 DEF f, x
<1>7. asked' = [b \in (Trees!New)' |-> [k \in 1 .. extender'.at |-> asked'[b][k]]]
  <2>1. ASSUME NEW b \in Trees!New PROVE asked'[b] = [k \in 1 .. at + 1 |-> asked'[b][k]]
    BY <1>6
  <2> QED BY <1>1, <1>4, <1>5, <2>1
<1>8. \A b \in Trees!New : \A k \in 1 .. at : asked'[b][k] = asked[b][k]
  <2>1. ASSUME NEW b \in Trees!New, NEW k \in 1 .. at PROVE asked'[b][k] = asked[b][k]
    <3>1. k \in 1 .. at + 1 /\ k # at + 1
      BY <1>1
    <3> QED BY <1>6, <3>1
  <2> QED BY <2>1
<1>9. ASSUME NEW i \in DOMAIN cs
      PROVE  extender'.columns[i] = [name |-> cs[i].name, values |-> Asked(extender'.columns, asked', i, at + 1)]
  <2> DEFINE b == cs[i].name
             x == Trees!FilledLeaf(Trees!Body(set)[i])
             old == Asked(cs, asked, i, at)
  <2>1. b \in Trees!New
    BY NewIs DEF Trees!New
  <2>2. extender'.columns[i] = [name |-> b, values |-> Append(old, x)]
    <3>1. extender'.columns[i] = [cs[i] EXCEPT !.values = Append(@, x)]
      BY <1>1 DEF MoreColumns, Trees!Fill
    <3>2. cs[i] = [name |-> b, values |-> old]
      BY <1>3
    <3> HIDE DEF x, old, b, cs
    <3>3. [cs[i] EXCEPT !.values = Append(@, x)] = [name |-> b, values |-> Append(old, x)]
      BY <3>2
    <3> QED BY <3>1, <3>3
  <2>3. old = [k \in 1 .. at |-> old[k]]
    BY DEF Asked
  <2>4. Append(old, x) = [k \in 1 .. at + 1 |-> IF k = at + 1 THEN x ELSE old[k]]
    <3> HIDE DEF old, x, at
    <3> QED BY <1>1, <2>3, OneMoreEntry DEF at
  <2>5. CASE i = Trees!Array(cs, b)
    <3>1. Trees!Body(set)[i] = v(b)
      BY <2>5 DEF Trees!Body, Trees!AtDefault
    <3>2. x = SubSeq(v(b), 1, 1)
      BY <3>1 DEF Trees!FilledLeaf
    <3>3. Asked(extender'.columns, asked', i, at + 1) = [k \in 1 .. at + 1 |-> SubSeq(asked'[b][k], 1, 1)]
      BY <1>5, <2>5 DEF Asked
    <3>4. old = [k \in 1 .. at |-> SubSeq(asked[b][k], 1, 1)]
      BY <2>5 DEF Asked
    <3> HIDE DEF v, x, old, b, at
    <3>5. ASSUME NEW k \in 1 .. at + 1 PROVE SubSeq(asked'[b][k], 1, 1) = IF k = at + 1 THEN x ELSE old[k]
      <4>1. CASE k = at + 1
        BY <1>6, <2>1, <3>2, <4>1
      <4>2. CASE k # at + 1
        <5>1. k \in 1 .. at
          BY <1>1, <4>2 DEF at
        <5> QED BY <1>8, <2>1, <3>4, <4>2, <5>1
      <4> QED BY <4>1, <4>2
    <3>6. [k \in 1 .. at + 1 |-> SubSeq(asked'[b][k], 1, 1)] = [k \in 1 .. at + 1 |-> IF k = at + 1 THEN x ELSE old[k]]
      BY <3>5
    <3> QED BY <2>2, <2>4, <3>3, <3>6 DEF b
  <2>6. CASE i # Trees!Array(cs, b)
    <3>1. Trees!Body(set)[i] = Trees!Value(i, Trees!Default)
      BY <2>6 DEF Trees!Body, Trees!AtDefault
    <3>2. extender.branchData[i].leaves \in Nat \ {0}
      <4>1. i \in 1 .. Len(extender.branchData) /\ extender.branchData \in BranchData
        BY <1>2 DEF InTurn, IsExtender, BranchData
      <4> DEFINE S == [name : program.branches, leaves : Nat \ {0}]
      <4>2. extender.branchData \in Seq(S)
        BY <4>1 DEF BranchData
      <4> HIDE DEF S
      <4>3. extender.branchData[i] \in S
        BY <4>1, <4>2
      <4> QED BY <4>3 DEF S
    <3>3. x = <<Trees!Default>>
      BY <3>1, <3>2, DefaultLeaf DEF Trees!FilledLeaf, Trees!Value
    <3>4. Asked(extender'.columns, asked', i, at + 1) = [k \in 1 .. at + 1 |-> <<Trees!Default>>]
      BY <1>5, <2>6 DEF Asked
    <3>5. old = [k \in 1 .. at |-> <<Trees!Default>>]
      BY <2>6 DEF Asked
    <3> HIDE DEF x, old, b, at
    <3>6. ASSUME NEW k \in 1 .. at + 1 PROVE <<Trees!Default>> = IF k = at + 1 THEN x ELSE old[k]
      <4>1. CASE k # at + 1
        <5>1. k \in 1 .. at
          BY <1>1, <4>1 DEF at
        <5> QED BY <3>5, <4>1, <5>1
      <4> QED BY <3>3, <4>1
    <3>7. [k \in 1 .. at + 1 |-> <<Trees!Default>>] = [k \in 1 .. at + 1 |-> IF k = at + 1 THEN x ELSE old[k]]
      BY <3>6
    <3> QED BY <2>2, <2>4, <3>4, <3>7 DEF b
  <2> QED BY <2>5, <2>6
<1> HIDE DEF v
<1>10. ColumnsFilled'
  BY <1>1, <1>2, <1>5, <1>7, <1>9 DEF ColumnsFilled
<1> QED BY <1>8, <1>10

\* A step of the loop that writes nothing leaves on disk what was cut at an entry before.
LEMMA CutKept ==
  ASSUME TreeConstants, NEW set, InTurn(set), (Trees!OnDisk)' = Trees!OnDisk, NEW n \in 1 .. extender.at, Trees!CutAt(n)
  PROVE  Trees!CutAt(n)'
<1> DEFINE od == Trees!OnDisk
           cs == extender.columns
           ds == extender'.columns
<1>1. extender.at \in Nat /\ DOMAIN ds = DOMAIN cs /\ \A i \in DOMAIN cs : ds[i].name = cs[i].name
  BY TurnState, TurnArrays
<1>2. [i \in DOMAIN od |-> od[i].name] = [i \in DOMAIN cs |-> cs[i].name] /\ \A i \in DOMAIN od : od[i].values = Trees!Written(i, n)
  BY DEF Trees!CutAt
<1>3. [i \in DOMAIN cs |-> cs[i].name] = [i \in DOMAIN ds |-> ds[i].name]
  BY <1>1
<1>4. DOMAIN od = DOMAIN cs /\ \A i \in DOMAIN od : od[i].name = cs[i].name
  <2> DEFINE F == [i \in DOMAIN od |-> od[i].name]
             G == [i \in DOMAIN cs |-> cs[i].name]
  <2>1. DOMAIN F = DOMAIN od /\ DOMAIN G = DOMAIN cs /\ (\A i \in DOMAIN od : F[i] = od[i].name) /\ \A i \in DOMAIN cs : G[i] = cs[i].name
    OBVIOUS
  <2>2. F = G
    BY <1>2
  <2> HIDE DEF F, G
  <2> QED BY <2>1, <2>2
<1>5. ASSUME NEW i \in DOMAIN od PROVE Trees!Written(i, n)' = Trees!Written(i, n)
  <2> DEFINE b == od[i].name
  <2>1. b \in Trees!New
    BY <1>4, NewIs DEF Trees!New
  <2>2. ASSUME NEW k \in 1 .. n PROVE asked'[b][k] = asked[b][k]
    <3>1. k \in 1 .. extender.at
      BY <1>1
    <3> QED BY <2>1, <3>1, TurnColumns
  <2>3. Trees!Array(ds, b) = Trees!Array(cs, b)
    BY TurnArrays
  <2>4. (Trees!OnDisk)'[i].name = b
    OBVIOUS
  <2>5. [k \in 1 .. n |-> SubSeq(asked'[b][k], 1, 1)] = [k \in 1 .. n |-> SubSeq(asked[b][k], 1, 1)]
    BY <2>2
  <2>6. Trees!Written(i, n) = IF i = Trees!Array(cs, b) THEN [k \in 1 .. n |-> SubSeq(asked[b][k], 1, 1)] ELSE [k \in 1 .. n |-> <<Trees!Default>>]
    BY DEF Trees!Written
  <2>7. Trees!Written(i, n)' = IF i = Trees!Array(ds, b) THEN [k \in 1 .. n |-> SubSeq(asked'[b][k], 1, 1)] ELSE [k \in 1 .. n |-> <<Trees!Default>>]
    BY <2>4 DEF Trees!Written
  <2> QED BY <2>3, <2>5, <2>6, <2>7
<1> QED BY <1>2, <1>3, <1>5 DEF Trees!CutAt

\* Between two entries that are due are as many as the extender writes at once.
LEMMA NoneDue ==
  ASSUME NEW w \in Int, w > 0, NEW n \in Nat, n % w = 0, NEW a \in Nat, n + w > a, (a + 1) % w # 0
  PROVE  n + w > a + 1
<1>1. (n + w) % w = 0
  BY NextDue
<1>2. n + w # a + 1
  BY <1>1
<1> QED BY <1>2

LEMMA TurnTreeInv ==
  ASSUME TreeConstants, TreeInv, NEW set, set \subseteq Trees!New, Trees!Turn(set)
  PROVE  TreeInv'
<1>1. extender.state \in Loop /\ Trees!Opened
  BY DEF Trees!Turn, Loop, Trees!Opened
<1>2. InTurn(set) /\ TreeTypeOK /\ ColumnsFilled
  BY <1>1, ExtenderStates DEF TreeInv, InTurn, InLoop
<1> DEFINE w == program.writeEvery
           at == extender.at
           ds == MoreColumns(set)
<1>3. /\ extender.state = "next" /\ extender'.state = "next" /\ extender'.file = extender.file /\ extender'.tree = extender.tree
      /\ extender'.attached = extender.attached /\ extender'.current = extender.current
      /\ extender'.at = at + 1 /\ extender'.columns = ds /\ at \in Nat
      /\ program' = program /\ merger' = merger /\ IsExtender(extender)'
      /\ IF Trees!Due(at + 1) /\ extender.current THEN Trees!Write(ds) ELSE disk' = disk
  BY <1>2, TurnState
<1>4. ColumnsFilled' /\ (Trees!New)' = Trees!New
  BY <1>2, TurnColumns, TurnArrays
<1>5. w \in Int
  BY <1>2 DEF TreeTypeOK, TreeConstants
<1> HIDE DEF ds
<1>6. ASSUME extender.attached, Trees!Due(at + 1), extender.current
      PROVE  InFile' /\ Trees!CutAtLastWrite' /\ disk' = [f \in Files |-> disk'[f]] /\ \A f \in Files : IsFile(disk'[f])
  <2>1. disk' = [disk EXCEPT ![extender.file] = Trees!Replaced(@, [extender.tree EXCEPT !.columns = ds])]
    BY <1>3, <1>6 DEF Trees!Write
  <2>2. /\ (Trees!OnDisk)' = ds /\ InFile'
        /\ disk' = [f \in Files |-> disk'[f]] /\ \A f \in Files : IsFile(disk'[f])
    BY <1>1, <1>3, <1>6, <2>1, ExtenderStates, WrittenTree
  <2>3. PICK n \in 1 .. extender'.at : n = extender'.at
    BY <1>3
  <2>4. Trees!CutAt(n)' /\ w > 0 /\ n % w = 0
    BY <1>3, <1>4, <1>6, <2>2, <2>3, ColumnsCut DEF Trees!Due
  <2>5. Trees!CutAt(n)' /\ Trees!Due(n)' /\ (extender'.current => n + w > extender'.at)
    BY <1>3, <1>5, <2>3, <2>4 DEF Trees!Due
  <2>6. Trees!CutAtLastWrite'
    BY <1>3, <2>3, <2>5 DEF Trees!CutAtLastWrite
  <2> QED BY <2>2, <2>6
<1>7. ASSUME ~(extender.attached /\ Trees!Due(at + 1) /\ extender.current)
      PROVE  InFile' /\ Trees!CutAtLastWrite' /\ disk' = [f \in Files |-> disk'[f]] /\ \A f \in Files : IsFile(disk'[f])
  <2>1. disk' = disk
    BY <1>3, <1>7 DEF Trees!Write
  <2>2. InFile' /\ disk' = [f \in Files |-> disk'[f]] /\ \A f \in Files : IsFile(disk'[f])
    <3>1. InFile
      BY DEF TreeInv
    <3> QED BY <1>1, <1>2, <1>3, <2>1, <3>1 DEF InFile, TreeTypeOK
  <2>3. Trees!CutAtLastWrite'
    <3>1. SUFFICES ASSUME extender.attached
                   PROVE  \/ (Trees!OnDisk)' = <<>> /\ (extender'.current /\ w > 0 /\ (Trees!New)' # {} => extender'.at < w)
                          \/ \E n \in 1 .. extender'.at : Trees!CutAt(n)' /\ Trees!Due(n)' /\ (extender'.current => n + w > extender'.at)
      BY <1>3 DEF Trees!CutAtLastWrite
    <3>2. (Trees!OnDisk)' = Trees!OnDisk
      BY <1>3, <2>1 DEF Trees!OnDisk
    <3>3. extender.current /\ w > 0 => (at + 1) % w # 0
      BY <1>7, <3>1 DEF Trees!Due
    <3>4. \/ Trees!OnDisk = <<>> /\ (extender.current /\ w > 0 /\ Trees!New # {} => at < w)
          \/ \E n \in 1 .. at : Trees!CutAt(n) /\ Trees!Due(n) /\ (extender.current => n + w > at)
      BY <1>3, <3>1 DEF TreeInv, Trees!CutAtLastWrite
    <3>5. CASE Trees!OnDisk = <<>> /\ (extender.current /\ w > 0 /\ Trees!New # {} => at < w)
      <4>1. ASSUME extender.current, w > 0, Trees!New # {} PROVE at + 1 < w
        <5>1. 0 + w > at /\ 0 % w = 0 /\ (at + 1) % w # 0 /\ 0 \in Nat
          BY <1>3, <1>5, <3>3, <3>5, <4>1
        <5>2. 0 + w > at + 1
          BY <1>3, <1>5, <4>1, <5>1, NoneDue
        <5> QED BY <5>2, <1>3, <1>5
      <4> QED BY <1>3, <1>4, <3>2, <3>5, <4>1
    <3>6. CASE \E n \in 1 .. at : Trees!CutAt(n) /\ Trees!Due(n) /\ (extender.current => n + w > at)
      <4>1. PICK n \in 1 .. at : Trees!CutAt(n) /\ Trees!Due(n) /\ (extender.current => n + w > at)
        BY <3>6
      <4>2. Trees!CutAt(n)'
        BY <1>2, <3>2, <4>1, CutKept
      <4>3. Trees!Due(n)' /\ w > 0 /\ n % w = 0
        BY <1>3, <4>1 DEF Trees!Due
      <4>4. ASSUME extender.current PROVE n + w > at + 1
        <5>1. n \in Nat /\ n + w > at /\ (at + 1) % w # 0
          BY <1>3, <3>3, <4>1, <4>3, <4>4
        <5> QED BY <1>3, <1>5, <4>3, <5>1, NoneDue
      <4>5. n \in 1 .. extender'.at
        BY <1>3
      <4> QED BY <1>3, <4>2, <4>3, <4>4, <4>5
    <3> QED BY <3>4, <3>5, <3>6
  <2> QED BY <2>2, <2>3
<1>8. InFile' /\ Trees!CutAtLastWrite' /\ disk' = [f \in Files |-> disk'[f]] /\ \A f \in Files : IsFile(disk'[f])
  BY <1>6, <1>7
<1>9. TreeTypeOK'
  BY <1>2, <1>3, <1>8, MergersKept DEF TreeTypeOK
<1>10. InLoop' /\ Unwritten' /\ Trees!ColumnsAsAsked'
  BY <1>3, <1>4 DEF InLoop, Unwritten, Loop, Trees!ColumnsAsAsked
<1> QED BY <1>8, <1>9, <1>10 DEF TreeInv
-----------------------------------------------------------------------------
\* Mergers.
LEMMA StepAround ==
  ASSUME TreeInv, program' = program, asked' = asked, merger' \in [program'.mergers -> AnyMerger'],
         disk' = [f \in Files |-> disk'[f]], \A f \in Files : IsFile(disk'[f]),
         \A f \in Files : disk'[f] = disk[f] \/ \A i \in DOMAIN disk'[f] : disk'[f][i].columns = <<>>,
         NEW a \in BOOLEAN, NEW c \in BOOLEAN, Trees!Opened => (a => extender.attached) /\ (c => extender.current),
         extender' = IF Trees!Opened THEN [extender EXCEPT !.attached = a, !.current = c] ELSE extender,
         Trees!Opened /\ a => disk'[extender.file] = disk[extender.file]
  PROVE  TreeInv'
<1>1. TreeTypeOK /\ Unwritten
  BY DEF TreeInv
<1>2. CASE Trees!Opened
  <2>1. IsExtender(extender)
    BY <1>2, ExtenderStates
  <2>2. /\ extender'.state = extender.state /\ extender'.file = extender.file /\ extender'.tree = extender.tree
        /\ extender'.attached = a /\ extender'.current = c
        /\ extender'.branchData = extender.branchData /\ extender'.at = extender.at /\ extender'.columns = extender.columns
    BY <1>2, <2>1 DEF IsExtender
  <2>3. IsExtender(extender)' /\ Len(extender.branchData) \in Nat
    <3>1. extender' = [state |-> extender'.state, file |-> extender'.file, tree |-> extender'.tree, attached |-> extender'.attached,
                       current |-> extender'.current, branchData |-> extender'.branchData, unpack |-> extender'.unpack,
                       at |-> extender'.at, columns |-> extender'.columns, buffer |-> extender'.buffer]
      BY <1>2, <2>1 DEF IsExtender
    <3>2. extender'.branchData \in BranchData' /\ Len(extender.branchData) \in Nat
      BY <2>1, <2>2 DEF BranchData, IsExtender
    <3> QED BY <2>1, <2>2, <3>1, <3>2 DEF IsExtender
  <2>4. SameLoop
    BY <1>2, <2>2 DEF SameLoop
  <2>5. InFile' /\ InLoop' /\ Trees!ColumnsAsAsked' /\ Trees!CutAtLastWrite'
    BY <1>2, <2>2, <2>3, <2>4, LoopKept
  <2>6. Unwritten'
    BY <1>1, <2>2 DEF Unwritten
  <2>7. TreeTypeOK'
    BY <1>1, <2>3 DEF TreeTypeOK
  <2> QED BY <2>5, <2>6, <2>7 DEF TreeInv
<1>3. CASE ~Trees!Opened
  <2>1. extender' = extender /\ extender \in {Trees!Closed, Trees!Refused} /\ extender.state \notin Loop
    BY <1>1, <1>3, ExtenderStates DEF TreeTypeOK
  <2>2. InFile' /\ InLoop' /\ Trees!ColumnsAsAsked' /\ Trees!CutAtLastWrite'
    BY <2>1, ClosedFits
  <2>3. Unwritten'
    BY <1>1, <2>1 DEF Unwritten
  <2>4. TreeTypeOK'
    BY <1>1, <2>1 DEF TreeTypeOK
  <2> QED BY <2>2, <2>3, <2>4 DEF TreeInv
<1> QED BY <1>2, <1>3

\* What the steps that leave the extender and the files alone do.
LEMMA FilesKept ==
  ASSUME TreeInv, program' = program, asked' = asked, disk' = disk, extender' = extender, merger' \in [program'.mergers -> AnyMerger']
  PROVE  TreeInv'
<1>1. TreeTypeOK
  BY DEF TreeInv
<1>2. CASE Trees!Opened
  <2>1. IsExtender(extender)
    BY <1>2, ExtenderStates
  <2>2. extender.attached \in BOOLEAN /\ extender.current \in BOOLEAN
        /\ extender' = [extender EXCEPT !.attached = extender.attached, !.current = extender.current]
    BY <2>1 DEF IsExtender
  <2> QED BY <1>1, <1>2, <2>2, StepAround DEF TreeTypeOK
<1>3. CASE ~Trees!Opened
  <2>1. TRUE \in BOOLEAN
    OBVIOUS
  <2> QED BY <1>1, <1>3, <2>1, StepAround DEF TreeTypeOK
<1> QED BY <1>2, <1>3

LEMMA AMerger ==
  ASSUME TreeInv, program' = program, NEW m \in program.mergers, NEW r, r \in AnyMerger, merger' = [merger EXCEPT ![m] = r]
  PROVE  merger' \in [program'.mergers -> AnyMerger']
<1>1. AnyMerger' = AnyMerger
  BY DEF AnyMerger, SourcePath, Trees!Named
<1> QED BY <1>1 DEF TreeInv, TreeTypeOK

LEMMA OpenMerger ==
  ASSUME TreeInv, NEW m \in program.mergers, merger[m].state = "open"
  PROVE  /\ merger[m] = [state |-> "open", file |-> merger[m].file, name |-> merger[m].name, paths |-> merger[m].paths]
         /\ merger[m].file \in Files /\ merger[m].name \in Trees!Named /\ merger[m].paths \in Seq(SourcePath)
<1>1. merger[m] \in AnyMerger
  BY DEF TreeInv, TreeTypeOK
<1>2. merger[m] \notin {Trees!Closed, Trees!Refused}
  BY DEF Trees!Closed, Trees!Refused
<1> QED BY <1>1, <1>2 DEF AnyMerger

LEMMA NewMergerInv ==
  ASSUME TreeConstants, TreeInv, NEW m \in program.mergers, NEW f \in Files, NEW name \in Trees!Named, NEW over, Trees!NewMerger(m, f, name, over)
  PROVE  TreeInv'
<1> DEFINE r == IF Trees!MayWrite(f, over) THEN [state |-> "open", file |-> f, name |-> name, paths |-> <<>>] ELSE Trees!Refused
<1>1. r \in AnyMerger
  BY DEF AnyMerger
<1>2. merger' = [merger EXCEPT ![m] = r] /\ program' = program /\ asked' = asked /\ disk' = disk /\ extender' = extender
  BY DEF Trees!NewMerger
<1> HIDE DEF r
<1> QED BY <1>1, <1>2, AMerger, FilesKept

LEMMA AddTreeInv ==
  ASSUME TreeConstants, TreeInv, NEW m \in program.mergers, NEW f \in Files, NEW name \in Trees!Named, Trees!addTree(m, f, name)
  PROVE  TreeInv'
<1> DEFINE p == Append(merger[m].paths, [file |-> f, name |-> name])
           r == [state |-> "open", file |-> merger[m].file, name |-> merger[m].name, paths |-> p]
<1>1. merger[m].state = "open"
  BY DEF Trees!addTree
<1>2. p \in Seq(SourcePath)
  <2>1. [file |-> f, name |-> name] \in SourcePath
    BY DEF SourcePath
  <2>2. merger[m].paths \in Seq(SourcePath)
    BY <1>1, OpenMerger
  <2> QED BY <2>1, <2>2
<1>3. r \in AnyMerger
  BY <1>1, <1>2, OpenMerger DEF AnyMerger
<1>4. /\ merger' = [merger EXCEPT ![m].paths = Append(@, [file |-> f, name |-> name])]
      /\ program' = program /\ asked' = asked /\ disk' = disk /\ extender' = extender
  BY DEF Trees!addTree
<1>5. merger' = [merger EXCEPT ![m] = r]
  <2>1. [merger[m] EXCEPT !.paths = p] = r
    <3>1. merger[m] = [state |-> "open", file |-> merger[m].file, name |-> merger[m].name, paths |-> merger[m].paths]
      BY <1>1, OpenMerger
    <3> HIDE DEF p
    <3> QED BY <3>1
  <2> QED BY <1>4, <2>1 DEF TreeInv, TreeTypeOK
<1> HIDE DEF r
<1> QED BY <1>3, <1>4, <1>5, AMerger, FilesKept

LEMMA EndedMerger ==
  ASSUME TreeInv, NEW m \in program.mergers, merger[m].state = "open", NEW s \in {"merged", "failed"},
         merger' = [merger EXCEPT ![m].state = s], program' = program
  PROVE  merger' \in [program'.mergers -> AnyMerger']
<1> DEFINE r == [state |-> s, file |-> merger[m].file, name |-> merger[m].name, paths |-> merger[m].paths]
<1>1. r \in AnyMerger
  BY OpenMerger DEF AnyMerger
<1>2. merger' = [merger EXCEPT ![m] = r]
  <2>1. merger[m] = [state |-> "open", file |-> merger[m].file, name |-> merger[m].name, paths |-> merger[m].paths]
    BY OpenMerger
  <2>2. [merger[m] EXCEPT !.state = s] = r
    BY <2>1
  <2> QED BY <2>2 DEF TreeInv, TreeTypeOK
<1> HIDE DEF r
<1> QED BY <1>1, <1>2, AMerger

\* The sources of a merge that is complete.
LEMMA SourcesFound ==
  ASSUME TreeInv, NEW m \in program.mergers, merger[m].state = "open", ~Trees!Incomplete(m), NEW i \in DOMAIN merger[m].paths
  PROVE  /\ merger[m].paths[i].file \in Files
         /\ ~Trees!NoTree(merger[m].paths[i].file, merger[m].paths[i].name)
         /\ Trees!Sources(m)[i] = Trees!getTree(merger[m].paths[i].file, merger[m].paths[i].name)
         /\ IsTree(Trees!Sources(m)[i])
<1> DEFINE p == merger[m].paths
<1>1. p \in Seq(SourcePath)
  BY OpenMerger
<1>2. p[i] \in SourcePath
  <2> HIDE DEF p
  <2> QED BY <1>1 DEF p
<1>3. p[i].file \in Files
  BY <1>2 DEF SourcePath
<1>4. ~Trees!NoTree(p[i].file, p[i].name)
  BY DEF Trees!Incomplete, Trees!Range
<1>5. Trees!Sources(m)[i] = Trees!getTree(p[i].file, p[i].name)
  BY DEF Trees!Sources
<1> QED BY <1>3, <1>4, <1>5, GotTree

LEMMA MergedIsTree ==
  ASSUME TreeInv, NEW m \in program.mergers, merger[m].state = "open", ~Trees!Incomplete(m), merger[m].paths # <<>>
  PROVE  IsTree(Trees!Merged(m)) /\ Trees!Merged(m).columns = <<>> /\ 1 \in DOMAIN merger[m].paths
<1>1. 1 \in DOMAIN merger[m].paths
  <2>1. merger[m].paths \in Seq(SourcePath)
    BY OpenMerger
  <2> QED BY <2>1
<1>2. IsTree(Trees!Sources(m)[1])
  BY <1>1, SourcesFound
<1> DEFINE name == IF merger[m].name = "first" THEN Trees!Sources(m)[1].name ELSE merger[m].name
<1>3. name # "first"
  BY <1>2 DEF IsTree
<1>4. Trees!Merged(m) = [name |-> name, entries |-> Trees!MergeTrees(Trees!Sources(m)), columns |-> <<>>]
  BY DEF Trees!Merged, Trees!Tree
<1> HIDE DEF name
<1> QED BY <1>1, <1>3, <1>4 DEF IsTree

LEMMA MergeTreesInv == ASSUME TreeConstants, TreeInv, NEW m \in program.mergers, Trees!merge(m) PROVE TreeInv'
<1>1. merger[m].state = "open" /\ program' = program /\ asked' = asked /\ TreeTypeOK
  BY DEF Trees!merge, TreeInv
<1> DEFINE f == merger[m].file
<1>2. f \in Files
  BY <1>1, OpenMerger
<1>3. Trees!Opened => IsExtender(extender) /\ extender.attached \in BOOLEAN /\ extender.file \in Files
  BY ExtenderStates DEF IsExtender
<1>4. CASE merger[m].paths = <<>> /\ merger' = [merger EXCEPT ![m].state = "merged"] /\ UNCHANGED <<disk, extender>>
  <2>1. merger' \in [program'.mergers -> AnyMerger']
    BY <1>1, <1>4, EndedMerger
  <2> QED BY <1>1, <1>4, <2>1, FilesKept
<1>5. CASE /\ Trees!Incomplete(m)
           /\ merger' = [merger EXCEPT ![m].state = "failed"]
           /\ extender' = IF Trees!Exists(merger[m].paths[1].file) THEN Trees!Elsewhere ELSE extender
           /\ UNCHANGED disk
  <2>1. merger' \in [program'.mergers -> AnyMerger']
    BY <1>1, <1>5, EndedMerger
  <2>2. CASE extender' = extender
    BY <1>1, <1>5, <2>1, <2>2, FilesKept
  <2>3. CASE Trees!Opened /\ extender' = [extender EXCEPT !.current = FALSE]
    <3>1. extender' = [extender EXCEPT !.attached = extender.attached, !.current = FALSE]
      BY <1>3, <2>3 DEF IsExtender
    <3> QED BY <1>1, <1>3, <1>5, <2>1, <2>3, <3>1, StepAround DEF TreeTypeOK
  <2> QED BY <1>5, <2>2, <2>3 DEF Trees!Elsewhere
<1>6. CASE /\ merger[m].paths # <<>> /\ ~Trees!Incomplete(m)
           /\ disk' = [disk EXCEPT ![f] = <<Trees!Merged(m)>>]
           /\ merger' = [merger EXCEPT ![m].state = "merged"]
           /\ extender' = Trees!Detached(f)
  <2> DEFINE t == Trees!Merged(m)
  <2>1. IsTree(t) /\ t.columns = <<>>
    BY <1>1, <1>6, MergedIsTree
  <2>2. merger' \in [program'.mergers -> AnyMerger']
    BY <1>1, <1>6, EndedMerger
  <2> HIDE DEF t
  <2>3. IsFile(<<t>>) /\ \A i \in DOMAIN <<t>> : <<t>>[i].columns = <<>>
    BY <2>1, OneTree
  <2> HIDE DEF f
  <2>4. disk' = [disk EXCEPT ![f] = <<t>>]
    BY <1>6 DEF f, t
  <2>5. disk'[f] = <<t>> /\ disk' = [g \in Files |-> disk'[g]] /\ \A g \in Files : g # f => disk'[g] = disk[g]
    BY <1>1, <1>2, <2>4 DEF TreeTypeOK
  <2>6. /\ \A g \in Files : IsFile(disk'[g])
        /\ \A g \in Files : disk'[g] = disk[g] \/ \A i \in DOMAIN disk'[g] : disk'[g][i].columns = <<>>
    BY <1>1, <2>3, <2>5 DEF TreeTypeOK
  <2>7. CASE Trees!Opened
    <3> DEFINE a == extender.attached /\ extender.file # f
    <3>1. extender' = [extender EXCEPT !.attached = a, !.current = FALSE]
      BY <1>6, <2>7 DEF Trees!Detached, f
    <3>2. a \in BOOLEAN /\ (a => extender.attached) /\ (a => disk'[extender.file] = disk[extender.file])
      BY <1>3, <2>5, <2>7
    <3> HIDE DEF a
    <3> QED BY <1>1, <2>2, <2>5, <2>6, <2>7, <3>1, <3>2, StepAround
  <2>8. CASE ~Trees!Opened
    <3>1. extender' = extender /\ FALSE \in BOOLEAN
      BY <1>6, <2>8 DEF Trees!Detached
    <3> QED BY <1>1, <2>2, <2>5, <2>6, <2>8, <3>1, StepAround
  <2> QED BY <2>7, <2>8
<1> QED BY <1>4, <1>5, <1>6 DEF Trees!merge

-----------------------------------------------------------------------------
\* The trees that are given to a merger, and what is made of them.
Given(p, files) ==
  [i \in DOMAIN p |-> LET t == files[p[i].file]
                      IN  IF p[i].name = "first" THEN t[1] ELSE t[CHOOSE j \in DOMAIN t : t[j].name = p[i].name]]
Whole(name, given) ==
  [name |-> IF name = "first" THEN given[1].name ELSE name,
   entries |-> Trees!FlattenSeq([i \in DOMAIN given |-> given[i].entries]), columns |-> <<>>]

LEMMA MergeMerges ==
  ASSUME TreeInv, NEW m \in program.mergers, Trees!merge(m), merger'[m].state = "merged", merger[m].paths # <<>>
  PROVE  disk'[merger[m].file] = <<Whole(merger[m].name, Given(merger[m].paths, disk))>> /\ 1 \in DOMAIN merger[m].paths
<1> DEFINE p == merger[m].paths
           given == Given(p, disk)
<1>1. merger[m].state = "open" /\ merger[m].file \in Files /\ m \in DOMAIN merger /\ TreeTypeOK /\ \A f \in Files : IsFile(disk[f])
  BY OpenMerger DEF Trees!merge, TreeInv, TreeTypeOK
<1>2. ~Trees!Incomplete(m) /\ disk' = [disk EXCEPT ![merger[m].file] = <<Trees!Merged(m)>>]
  <2>1. CASE Trees!Incomplete(m) /\ merger' = [merger EXCEPT ![m].state = "failed"]
    <3>1. merger[m] = [state |-> "open", file |-> merger[m].file, name |-> merger[m].name, paths |-> merger[m].paths]
      BY <1>1, OpenMerger
    <3>2. [merger[m] EXCEPT !.state = "failed"].state = "failed"
      BY <3>1
    <3>3. merger'[m].state = "failed"
      BY <1>1, <2>1, <3>2 DEF TreeTypeOK
    <3> QED BY <3>3
  <2> QED BY <2>1 DEF Trees!merge
<1>3. ASSUME NEW i \in DOMAIN p PROVE Trees!Sources(m)[i] = given[i]
  <2> DEFINE f == p[i].file
             n == p[i].name
  <2>1. f \in Files /\ ~Trees!NoTree(f, n) /\ Trees!Sources(m)[i] = Trees!getTree(f, n)
    BY <1>1, <1>2, <1>3, SourcesFound
  <2>2. given[i] = IF n = "first" THEN disk[f][1] ELSE disk[f][CHOOSE j \in DOMAIN disk[f] : disk[f][j].name = n]
    BY <1>3 DEF Given
  <2> HIDE DEF f, n
  <2>3. PICK j \in DOMAIN disk[f] : Trees!getTree(f, n) = disk[f][j] /\ (n = "first" => j = 1) /\ (n # "first" => disk[f][j].name = n)
    BY <2>1, GotTree
  <2>4. CASE n = "first"
    BY <2>1, <2>2, <2>3, <2>4
  <2>5. CASE n # "first"
    <3>1. (CHOOSE k \in DOMAIN disk[f] : disk[f][k].name = n) = j
      BY <1>1, <2>1, <2>3, <2>5, TheTree
    <3> QED BY <2>1, <2>2, <2>3, <2>5, <3>1
  <2> QED BY <2>4, <2>5
<1>4. DOMAIN Trees!Sources(m) = DOMAIN p /\ 1 \in DOMAIN p /\ DOMAIN given = DOMAIN p
  BY <1>1, <1>2, MergedIsTree DEF Trees!Sources, Given
<1> HIDE DEF given
<1>5. [i \in DOMAIN Trees!Sources(m) |-> Trees!Sources(m)[i].entries] = [i \in DOMAIN given |-> given[i].entries]
  BY <1>3, <1>4
<1>6. Trees!MergeTrees(Trees!Sources(m)) = Trees!FlattenSeq([i \in DOMAIN given |-> given[i].entries])
  BY <1>5 DEF Trees!MergeTrees
<1>7. Trees!Merged(m) = Whole(merger[m].name, given)
  BY <1>3, <1>4, <1>6 DEF Trees!Merged, Trees!Tree, Whole
<1> QED BY <1>1, <1>2, <1>4, <1>7 DEF TreeTypeOK, given

\* The states of the mergers after a step that merges nothing.
LEMMA NoMerge ==
  ASSUME TreeInv, NEW m \in program.mergers, NEW k \in program.mergers, merger[k].state = "open",
         (Trees!merge(m) /\ m # k) \/ (\E f, n : Trees!addTree(m, f, n)) \/ (\E f, n, o : Trees!NewMerger(m, f, n, o))
  PROVE  merger'[k].state # "merged"
<1>1. k \in DOMAIN merger
  BY DEF TreeInv, TreeTypeOK
<1>2. CASE Trees!merge(m) /\ m # k
  BY <1>1, <1>2 DEF Trees!merge
<1>3. CASE \E f, n, o : Trees!NewMerger(m, f, n, o)
  BY <1>1, <1>3 DEF Trees!NewMerger
<1>4. CASE \E f, n : Trees!addTree(m, f, n)
  <2>1. PICK f, n : Trees!addTree(m, f, n)
    BY <1>4
  <2>2. merger' = [merger EXCEPT ![m].paths = Append(@, [file |-> f, name |-> n])]
    BY <2>1 DEF Trees!addTree
  <2>3. merger[k] = [state |-> "open", file |-> merger[k].file, name |-> merger[k].name, paths |-> merger[k].paths]
    BY OpenMerger
  <2>4. merger'[k].state = "open"
    BY <1>1, <2>2, <2>3
  <2> QED BY <2>4
<1> QED BY <1>2, <1>3, <1>4

\* The invariant of a program with extenders and mergers.
LEMMA TreesNextInv == ASSUME TreeConstants, TreeInv, [Trees!Next]_Trees!vars PROVE TreeInv'
<1>1. CASE UNCHANGED Trees!vars
  <2>1. program' = program /\ disk' = disk /\ extender' = extender /\ merger' = merger /\ asked' = asked
    BY <1>1 DEF Trees!vars
  <2>2. merger' \in [program'.mergers -> AnyMerger']
    BY <2>1, MergersKept DEF TreeInv
  <2> QED BY <2>1, <2>2, FilesKept
<1>2. CASE \E f \in Files, n \in Trees!Named : Trees!Extend(f, n) \/ \E t \in Files, n2 \in Trees!Named, o \in BOOLEAN : Trees!ExtendCopy(f, n, t, n2, o)
  <2>1. PICK f \in Files, n \in Trees!Named : Trees!Extend(f, n) \/ \E t \in Files, n2 \in Trees!Named, o \in BOOLEAN : Trees!ExtendCopy(f, n, t, n2, o)
    BY <1>2
  <2>2. CASE Trees!Extend(f, n)
    BY <2>2, ExtendInv
  <2>3. CASE \E t \in Files, n2 \in Trees!Named, o \in BOOLEAN : Trees!ExtendCopy(f, n, t, n2, o)
    BY <2>3, ExtendCopyInv
  <2> QED BY <2>1, <2>2, <2>3
<1>3. CASE \E b \in program.branches, l \in program.leaves, u \in {{}, Existing, {"unknown"}} : Trees!addBranch(b, l, u)
  BY <1>3, AddBranchInv
<1>4. CASE \E set \in SUBSET program.branches : extender.state = "next" /\ set \subseteq Trees!New /\ Trees!Turn(set)
  BY <1>4, TurnTreeInv
<1>5. CASE \E m \in program.mergers, f \in Files, n \in Trees!Named : Trees!addTree(m, f, n) \/ \E o \in BOOLEAN : Trees!NewMerger(m, f, n, o)
  BY <1>5, AddTreeInv, NewMergerInv
<1>6. CASE \E m \in program.mergers : Trees!merge(m) \/ Trees!Again(m)
  BY <1>1, <1>6, MergeTreesInv DEF Trees!Again
<1>7. CASE Trees!Iterate \/ Trees!IterateAgain \/ Trees!Leave \/ Trees!LastWrite
  BY <1>1, <1>7, IterateInv, LeaveTreeInv, LastWriteInv DEF Trees!IterateAgain
<1> QED BY <1>1, <1>2, <1>3, <1>4, <1>5, <1>6, <1>7 DEF Trees!Next

\* Whatever step merges, the target has all the entries.
LEMMA StepMerges == ASSUME TreeInv, [Trees!Next]_Trees!vars PROVE Trees!TreesMerged
<1> SUFFICES ASSUME NEW k \in program.mergers, merger[k].state = "open", merger'[k].state = "merged", merger[k].paths # <<>>
             PROVE  LET p == merger[k].paths
                        given(i) == LET t == disk[p[i].file] IN IF p[i].name = "first" THEN t[1] ELSE t[CHOOSE j \in DOMAIN t : t[j].name = p[i].name]
                        into == disk'[merger[k].file]
                    IN  /\ Len(into) = 1
                        /\ into[1].name = IF merger[k].name = "first" THEN given(1).name ELSE merger[k].name
                        /\ into[1].entries = Trees!FlattenSeq([i \in DOMAIN p |-> given(i).entries])
  BY DEF Trees!TreesMerged
<1>1. merger' # merger
  OBVIOUS
<1>2. \E m \in program.mergers : Trees!merge(m) \/ (\E f, n : Trees!addTree(m, f, n)) \/ (\E f, n, o : Trees!NewMerger(m, f, n, o))
  BY <1>1 DEF Trees!Next, Trees!vars, Trees!Extend, Trees!ExtendCopy, Trees!addBranch, Trees!Iterate, Trees!IterateAgain,
              Trees!Leave, Trees!LastWrite, Trees!Turn, Trees!Again
<1>3. Trees!merge(k)
  BY <1>2, NoMerge
<1>4. disk'[merger[k].file] = <<Whole(merger[k].name, Given(merger[k].paths, disk))>> /\ 1 \in DOMAIN merger[k].paths
  BY <1>3, MergeMerges
<1>5. PICK tree : tree = Whole(merger[k].name, Given(merger[k].paths, disk))
  OBVIOUS
<1>6. Len(disk'[merger[k].file]) = 1 /\ disk'[merger[k].file][1] = tree
  BY <1>4, <1>5
<1> DEFINE p == merger[k].paths
           one(i) == LET t == disk[p[i].file] IN IF p[i].name = "first" THEN t[1] ELSE t[CHOOSE j \in DOMAIN t : t[j].name = p[i].name]
           given == Given(p, disk)
<1>7. DOMAIN given = DOMAIN p /\ \A i \in DOMAIN p : given[i] = one(i)
  BY DEF Given
<1>8. /\ tree.name = IF merger[k].name = "first" THEN given[1].name ELSE merger[k].name
      /\ tree.entries = Trees!FlattenSeq([i \in DOMAIN given |-> given[i].entries])
  BY <1>5 DEF Whole
<1>9. 1 \in DOMAIN p
  BY <1>4
<1> HIDE DEF one, given, p
<1>10. [i \in DOMAIN given |-> given[i].entries] = [i \in DOMAIN p |-> one(i).entries] /\ given[1].name = one(1).name
  BY <1>7, <1>9
<1>11. /\ Len(disk'[merger[k].file]) = 1
       /\ disk'[merger[k].file][1].name = IF merger[k].name = "first" THEN one(1).name ELSE merger[k].name
       /\ disk'[merger[k].file][1].entries = Trees!FlattenSeq([i \in DOMAIN p |-> one(i).entries])
  BY <1>6, <1>8, <1>10
<1> QED BY <1>11 DEF one, p

-----------------------------------------------------------------------------
\* The invariant of the function that is called.
CallInv == Of("Parallelize", PoolInv) /\ Of("Hadd", HaddInv /\ Placed)

LEMMA CallKept ==
  ASSUME [PoolNext \/ ChunksNext \/ MatchNext \/ TreesNext]_callVars
  PROVE  /\ component' = component
         /\ component = "Parallelize" => [Pool!Next]_Pool!vars
         /\ component = "Hadd" => [Chunks!Next]_Chunks!vars
         /\ component = "EventMatching" => [Match!Next]_Match!vars
         /\ component = "TreeTools" => [Trees!Next]_Trees!vars
<1>1. component' = component
  BY DEF PoolNext, ChunksNext, MatchNext, TreesNext, callVars
<1>2. ASSUME component = "Parallelize" PROVE [Pool!Next]_Pool!vars
  <2>1. PoolNext \/ UNCHANGED callVars
    BY <1>2 DEF ChunksNext, MatchNext, TreesNext
  <2> QED BY <2>1 DEF PoolNext, callVars, ParallelizeVars, Pool!vars, Pool!call, Pool!pool
<1>3. ASSUME component = "Hadd" PROVE [Chunks!Next]_Chunks!vars
  <2>1. ChunksNext \/ UNCHANGED callVars
    BY <1>3 DEF PoolNext, MatchNext, TreesNext
  <2> QED BY <2>1 DEF ChunksNext, callVars, HaddVars, Chunks!vars, Chunks!args
<1>4. ASSUME component = "EventMatching" PROVE [Match!Next]_Match!vars
  <2>1. MatchNext \/ UNCHANGED callVars
    BY <1>4 DEF PoolNext, ChunksNext, TreesNext
  <2> QED BY <2>1 DEF MatchNext, callVars, MatchVars, Match!vars
<1>5. ASSUME component = "TreeTools" PROVE [Trees!Next]_Trees!vars
  <2>1. TreesNext \/ UNCHANGED callVars
    BY <1>5 DEF PoolNext, ChunksNext, MatchNext
  <2> QED BY <2>1 DEF TreesNext, callVars, TreeVars, Trees!vars
<1> QED BY <1>1, <1>2, <1>3, <1>4, <1>5

\* For any number of tasks, processes, sources, chunks and deaths of the caller, what
\* parallelize and hadd hand back can be trusted.
THEOREM AnswersCorrect ==
  ASSUME PoolConstants, HaddConstants
  PROVE  CallSpec => []AnswersAreTrue
<1>1. PoolInit \/ ChunksInit \/ MatchInit \/ TreesInit => CallInv
  <2>1. PoolInit => CallInv
    BY PoolInitInv DEF PoolInit, CallInv, Of
  <2>2. ChunksInit => CallInv
    BY HaddInitInv, InitPlaced DEF ChunksInit, CallInv, Of
  <2>3. MatchInit => CallInv
    BY DEF MatchInit, CallInv, Of
  <2>4. TreesInit => CallInv
    BY DEF TreesInit, CallInv, Of
  <2> QED BY <2>1, <2>2, <2>3, <2>4
<1>2. CallInv /\ [PoolNext \/ ChunksNext \/ MatchNext \/ TreesNext]_callVars => CallInv'
  <2> SUFFICES ASSUME CallInv, [PoolNext \/ ChunksNext \/ MatchNext \/ TreesNext]_callVars PROVE CallInv'
    OBVIOUS
  <2>1. component' = component
    BY CallKept
  <2>2. CASE component = "Parallelize"
    BY <2>1, <2>2, CallKept, PoolNextInv DEF CallInv, Of
  <2>3. CASE component = "Hadd"
    BY <2>1, <2>3, CallKept, HaddNextInv, NextPlaced DEF CallInv, Of
  <2> QED BY <2>1, <2>2, <2>3 DEF CallInv, Of
<1>3. CallInv => AnswersAreTrue
  <2>1. PoolInv => Pool!AnswersAreComplete /\ Pool!BarFits /\ Pool!NothingRunsAfterReturn
    BY BarInv DEF PoolInv
  <2>2. HaddInv /\ Placed => Chunks!SuccessIsComplete /\ Chunks!NoTemporaryLeft /\ Chunks!TwoTemporaries
    BY FewTemporaries, Complete DEF HaddInv
  <2> QED BY <2>1, <2>2 DEF CallInv, AnswersAreTrue, Of
<1> QED BY <1>1, <1>2, <1>3, PTL DEF CallSpec

\* For any trees of any length, in whatever order and however often they hold their
\* events: what eventmatching.py writes and tells of them is true.
THEOREM FilesMatchCorrect ==
  ASSUME MatchConstants
  PROVE  CallSpec => []FilesMatch
<1> DEFINE Inv == Of("EventMatching", MatchInv)
<1>1. PoolInit \/ ChunksInit \/ MatchInit \/ TreesInit => Inv
  BY MatchInitInv DEF PoolInit, ChunksInit, MatchInit, TreesInit, Of
<1>2. Inv /\ [PoolNext \/ ChunksNext \/ MatchNext \/ TreesNext]_callVars => Inv'
  <2> SUFFICES ASSUME Inv, [PoolNext \/ ChunksNext \/ MatchNext \/ TreesNext]_callVars PROVE Inv'
    OBVIOUS
  <2> QED BY CallKept, MatchNextInv DEF Of
<1>3. Inv => FilesMatch
  BY DEF MatchInv, FilesMatch, Of
<1> HIDE DEF Inv
<1> QED BY <1>1, <1>2, <1>3, PTL DEF CallSpec

\* For any trees, new branches, numbers of leaves and entries between two Writes, and in
\* whatever order extenders and mergers of one program are used: on disk are the values
\* that the loop asked for, and every merged tree is whole.
THEOREM TreesCorrect ==
  ASSUME TreeConstants
  PROVE  CallSpec => TreesAsAsked
<1> DEFINE Inv == Of("TreeTools", TreeInv)
           Promise == Of("TreeTools", Trees!ColumnsAsAsked' /\ Trees!CutAtLastWrite' /\ Trees!TreesMerged)
<1>1. PoolInit \/ ChunksInit \/ MatchInit \/ TreesInit => Inv
  BY TreesInitInv DEF PoolInit, ChunksInit, MatchInit, TreesInit, Of
<1>2. Inv /\ [PoolNext \/ ChunksNext \/ MatchNext \/ TreesNext]_callVars => Inv' /\ Promise
  <2> SUFFICES ASSUME Inv, [PoolNext \/ ChunksNext \/ MatchNext \/ TreesNext]_callVars PROVE Inv' /\ Promise
    OBVIOUS
  <2>1. CASE component = "TreeTools"
    <3>1. TreeInv /\ [Trees!Next]_Trees!vars
      BY <2>1, CallKept DEF Of
    <3>2. TreeInv' /\ Trees!TreesMerged
      BY <3>1, TreesNextInv, StepMerges
    <3> QED BY <2>1, <3>2, CallKept DEF Of, TreeInv
  <2>2. CASE component # "TreeTools"
    BY <2>2, CallKept DEF Of
  <2> QED BY <2>1, <2>2
<1>3. Inv /\ [PoolNext \/ ChunksNext \/ MatchNext \/ TreesNext]_callVars => [Promise]_callVars
  BY <1>2
<1> HIDE DEF Inv, Promise
<1>4. CallSpec => [][Promise]_callVars
  BY <1>1, <1>2, <1>3, PTL DEF CallSpec
<1> QED BY <1>4 DEF Promise, TreesAsAsked
=============================================================================
