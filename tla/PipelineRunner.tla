---------------------------- MODULE PipelineRunner ----------------------------
(***************************************************************************)
(* PipelineRunner::RunPipelines (Core/interface/PipelineRunner.h) with     *)
(* Pipeline::RunEvent, Run and FinishPipeline (Core/interface/Pipeline.h), *)
(* the SIGINT flag (Core/src/OsSignalHandler.cc), the event provider       *)
(* (module EventProvider) and the filter results (module FilterResult).    *)
(*                                                                         *)
(* The program has one thread that does all of this, and a user who may    *)
(* press Ctrl-C at any time.  One step of the thread is one turn of one of *)
(* its loops.  What a producer computes is left out; a filter decides      *)
(* freely.  All consumers of a pipeline are called in one step: nothing    *)
(* can come between them.                                                  *)
(***************************************************************************)
EXTENDS FilterResult, EventProvider

CONSTANTS
  GlobalNodes,     \* m_globalNodes: a sequence of [kind, id]
  GlobalFilters,   \* settings.GetFilters() of the global settings
  GlobalTagging,   \* settings.GetTaggingFilters() of the global settings
  Pipelines,       \* m_pipelines: [name, level, nodes, filters, tagging]
  FirstEvent,      \* settings.GetFirstEvent()
  ProcessNEvents,  \* settings.GetProcessNEvents(), -1 by default
  MaxReported      \* bound on what GetEntries reports

ProcessNode == [kind : {"Producer", "Filter"}, id : FilterName]

Pipe == 1 .. Len(Pipelines)
LevelOne == {p \in Pipe : Pipelines[p].level = 1}

ASSUME RunnerConstants ==
  /\ GlobalNodes \in Seq(ProcessNode)
  /\ GlobalFilters \in Seq(FilterName)
  /\ GlobalTagging \subseteq FilterName
  /\ Pipelines \in Seq([name : FilterName, level : Nat, nodes : Seq(ProcessNode),
                        filters : Seq(FilterName), tagging : SUBSET FilterName])
  /\ FirstEvent \in Nat
  /\ ProcessNEvents \in Int
  /\ MaxReported \in Nat

VARIABLES
  pc,              \* the loop the thread is in
  sigint,          \* osSignal_hasSIGINT
  sigintAt,        \* history: iEvent when the flag was set
  nEvents,         \* what GetEntries reported, or ProcessNEvents
  iEvent,
  productFlags,    \* newRun and newLumisection of productGlobal
  globalResult,    \* globalFilterResult
  pipelineResult,  \* pipelineFilterRes; PreviousPipelinesResult is a copy
  localResult,     \* localFilterResult of the pipeline at work
  pipe,            \* iterator over m_pipelines
  node,            \* iterator over the nodes of the chain at work
  curLevel, noPipelineRun,
  processed,       \* history: ProcessEvent calls of each pipeline's consumers
  vetoes,          \* history: <<pipeline or 0, filter id>> that said no to this event
  informed,        \* history: last run and lumisection announced to a node by OnRun
                   \* and OnLumi; -1 if none
  finished, ran    \* history: FinishPipeline and Run calls of each pipeline

signal    == <<sigint, sigintAt>>
event_no  == <<nEvents, iEvent>>
results   == <<globalResult, pipelineResult, localResult>>
iterators == <<pipe, node>>
levels    == <<curLevel, noPipelineRun>>
seen      == <<processed, vetoes, informed>>
outcome   == <<finished, ran>>

runnerVars ==
  <<pc, signal, event_no, productFlags, results, iterators, levels, seen, outcome>>
vars == <<runnerVars, providerVars>>

\* The places OnRun and OnLumi are called: <<0, i>> is global node i, <<p, i>>
\* node i of pipeline p, and <<p, 0>> stands for the consumers of pipeline p.
Place == {<<0, i>> : i \in 1 .. Len(GlobalNodes)}
           \cup UNION {{<<p, i>> : i \in 0 .. Len(Pipelines[p].nodes)} : p \in Pipe}

PipelineNames == [p \in Pipe |-> Pipelines[p].name]
NamesUnique == \A p, q \in Pipe : PipelineNames[p] = PipelineNames[q] => p = q

Init ==
  /\ ProviderInit
  /\ pc = "start"
  /\ sigint = FALSE /\ sigintAt = -1
  /\ nEvents = 0 /\ iEvent = FirstEvent
  /\ productFlags = [newRun |-> FALSE, newLumisection |-> FALSE]
  /\ globalResult = EmptyFilterResult
  /\ pipelineResult = EmptyFilterResult
  /\ localResult = EmptyFilterResult
  /\ pipe = 1 /\ node = 1
  /\ curLevel = 2 /\ noPipelineRun = FALSE
  /\ processed = [p \in Pipe |-> <<>>]
  /\ vetoes = {}
  /\ informed = [l \in Place |-> [run |-> -1, lumi |-> -1]]
  /\ finished = [p \in Pipe |-> 0]
  /\ ran = [p \in Pipe |-> 0]

-----------------------------------------------------------------------------
(* The user.                                                               *)

\* osSignalHandler: the flag is set; nothing else happens at this moment.
Interrupt ==
  /\ sigint' = TRUE
  /\ sigintAt' = IF sigint THEN sigintAt ELSE iEvent
  /\ UNCHANGED <<pc, event_no, productFlags, results, iterators, levels, seen, outcome,
                 providerVars>>

-----------------------------------------------------------------------------
(* The event loop.                                                         *)

\* GetEntries is exact or, in batch mode (GetEntriesFast), too large.  With no
\* entries at all WireEvent wired nothing, and the first turn of the loop reads
\* through a null pointer for the log.
Start ==
  /\ pc = "start"
  /\ \E reported \in Len(chain) .. MaxReported :
        /\ nEvents' = IF ProcessNEvents > 0 THEN ProcessNEvents ELSE reported
        /\ pc' = IF ~NamesUnique THEN "fatal"
                 ELSE IF reported = 0 /\ ProcessNEvents > 0 THEN "null" ELSE "loop"
  /\ UNCHANGED <<signal, iEvent, productFlags, results, iterators, levels, seen, outcome,
                 providerVars>>

\* Undefined behaviour: a crash, or the unused value is never loaded, and the
\* signal or the progress monitor ends the loop before the pointer is needed.
NullEvent ==
  /\ pc = "null"
  /\ pc' \in {"fatal", "finish"}
  /\ UNCHANGED <<signal, event_no, productFlags, results, iterators, levels, seen, outcome,
                 providerVars>>

MoreEvents == iEvent < FirstEvent + nEvents
GoOn == MoreEvents /\ ~sigint

\* The loop is left: its condition fails or the SIGINT flag is seen.
LeaveLoop ==
  /\ pc = "loop"
  /\ ~GoOn
  /\ pc' = "finish"
  /\ pipe' = 1
  /\ UNCHANGED <<signal, event_no, productFlags, results, node, levels, seen, outcome,
                 providerVars>>

\* evtProvider.GetEntry(iEvent) is called ...
RequestEvent ==
  /\ pc = "loop"
  /\ GoOn
  /\ CallGetEntry(iEvent)
  /\ pc' = "get"
  /\ UNCHANGED <<signal, event_no, productFlags, results, iterators, levels, seen, outcome>>

\* ... and refuses, which ends the loop ...
NoEntry ==
  /\ pc = "get" /\ stage = "idle"
  /\ ~result
  /\ pc' = "finish"
  /\ pipe' = 1
  /\ UNCHANGED <<signal, event_no, productFlags, results, node, levels, seen, outcome,
                 providerVars>>

\* ... or delivers: a new product, whose two flags have no initialiser, and a
\* filter result with the global filters.
BeginEvent ==
  /\ pc = "get" /\ stage = "idle"
  /\ result
  /\ productFlags' \in [newRun : BOOLEAN, newLumisection : BOOLEAN]
  /\ globalResult' = NewFilterResult(GlobalFilters, GlobalTagging)
  /\ node' = 1
  /\ vetoes' = {}
  /\ pc' = "global"
  /\ UNCHANGED <<signal, event_no, pipelineResult, localResult, pipe, levels, processed,
                 informed, outcome, providerVars>>

-----------------------------------------------------------------------------
(* Nodes, global and local.                                                *)

ProviderFlags == [newRun |-> newRun, newLumisection |-> newLumisection]

\* OnRun and OnLumi are called at a place if the given flags say so.
Announce(place, news) ==
  informed' = [informed EXCEPT
                 ![place] = [run  |-> IF news.newRun THEN event.run ELSE @.run,
                             lumi |-> IF news.newLumisection THEN event.lumi ELSE @.lumi]]

\* The chain of nodes is left: no node is left, or a filter rejected the event
\* (which the loop finds out by asking for the verdict, filling the cache).
ChainEnds(nodes, res) == node > Len(nodes) \/ ~HasPassed(res)
LeftResult(nodes, res) == IF node > Len(nodes) THEN res ELSE AfterHasPassed(res)

\* What a filter decided in the chain of its owner, a pipeline or (0) the globals.
NoteVeto(owner, id, passed) ==
  vetoes' = IF passed THEN vetoes ELSE vetoes \cup {<<owner, id>>}

\* Every event gets a fresh record of the pipelines' verdicts.
VerdictsKept == AddFilterNames(pipelineResult, PipelineNames)   \* mutant: reused
VerdictsOpen == NewFilterResult(PipelineNames, GlobalTagging)

LeaveGlobalNodes ==
  /\ pc = "global"
  /\ ChainEnds(GlobalNodes, globalResult)
  /\ globalResult' = LeftResult(GlobalNodes, globalResult)
  /\ pipelineResult' = VerdictsOpen
  /\ pipe' = 1
  /\ pc' = "pipelines"
  /\ UNCHANGED <<signal, event_no, productFlags, localResult, node, levels, seen, outcome,
                 providerVars>>

AtGlobalNode(kind) ==
  /\ pc = "global"
  /\ ~ChainEnds(GlobalNodes, globalResult)
  /\ GlobalNodes[node].kind = kind
  /\ node' = node + 1

\* A producer is the only node that passes the provider's flags on to the product.
GlobalProducer ==
  /\ AtGlobalNode("Producer")
  /\ globalResult' = AfterHasPassed(globalResult)
  /\ productFlags' = ProviderFlags
  /\ Announce(<<0, node>>, ProviderFlags)
  /\ UNCHANGED <<pc, signal, event_no, pipelineResult, localResult, pipe, levels, processed,
                 vetoes, outcome, providerVars>>

GlobalFilter(passed) ==
  /\ AtGlobalNode("Filter")
  /\ globalResult' = SetFilterDecision(AfterHasPassed(globalResult),
                                       GlobalNodes[node].id, passed)
  /\ NoteVeto(0, GlobalNodes[node].id, passed)
  /\ Announce(<<0, node>>, ProviderFlags)
  /\ UNCHANGED <<pc, signal, event_no, productFlags, pipelineResult, localResult, pipe, levels,
                 processed, outcome, providerVars>>

-----------------------------------------------------------------------------
(* The pipelines of level one.                                             *)

\* Pipeline::RunEvent: a copy of the global filter result gets the pipeline's filters.
StartPipeline ==
  /\ pc = "pipelines"
  /\ pipe \in LevelOne
  /\ localResult' = AddFilterNamesTagging(globalResult, Pipelines[pipe].filters,
                                          Pipelines[pipe].tagging)
  /\ node' = 1
  /\ pc' = "local"
  /\ UNCHANGED <<signal, event_no, productFlags, globalResult, pipelineResult, pipe, levels,
                 seen, outcome, providerVars>>

SkipPipeline ==
  /\ pc \in {"pipelines", "finish"}
  /\ pipe \in Pipe \ LevelOne
  /\ pipe' = pipe + 1
  /\ UNCHANGED <<pc, signal, event_no, productFlags, results, node, levels, seen, outcome,
                 providerVars>>

NextEvent ==
  /\ pc = "pipelines"
  /\ pipe > Len(Pipelines)
  /\ iEvent' = iEvent + 1
  /\ pc' = "loop"
  /\ UNCHANGED <<signal, nEvents, productFlags, results, iterators, levels, seen, outcome,
                 providerVars>>

LeaveLocalNodes ==
  /\ pc = "local"
  /\ ChainEnds(Pipelines[pipe].nodes, localResult)
  /\ localResult' = LeftResult(Pipelines[pipe].nodes, localResult)
  /\ pc' = "consumers"
  /\ UNCHANGED <<signal, event_no, productFlags, globalResult, pipelineResult, iterators,
                 levels, seen, outcome, providerVars>>

AtLocalNode(kind) ==
  /\ pc = "local"
  /\ ~ChainEnds(Pipelines[pipe].nodes, localResult)
  /\ Pipelines[pipe].nodes[node].kind = kind
  /\ node' = node + 1

LocalProducer ==
  /\ AtLocalNode("Producer")
  /\ localResult' = AfterHasPassed(localResult)
  /\ Announce(<<pipe, node>>, productFlags)
  /\ UNCHANGED <<pc, signal, event_no, productFlags, globalResult, pipelineResult, pipe,
                 levels, processed, vetoes, outcome, providerVars>>

LocalFilter(passed) ==
  /\ AtLocalNode("Filter")
  /\ localResult' = SetFilterDecision(AfterHasPassed(localResult),
                                      Pipelines[pipe].nodes[node].id, passed)
  /\ NoteVeto(pipe, Pipelines[pipe].nodes[node].id, passed)
  /\ Announce(<<pipe, node>>, productFlags)
  /\ UNCHANGED <<pc, signal, event_no, productFlags, globalResult, pipelineResult, pipe,
                 levels, processed, outcome, providerVars>>

\* ProcessEvent is called for every event, ProcessFilteredEvent is told apart by
\* "passed".
Filtered(verdict) ==                               \* mutant: passed events only
  processed' = IF verdict THEN [processed EXCEPT ![pipe] =
                                  Append(@, [entry |-> iEvent, passed |-> verdict])]
                          ELSE processed
Process(verdict) ==
  processed' = [processed EXCEPT ![pipe] =
                  Append(@, [entry |-> iEvent, passed |-> verdict])]

\* Every consumer gets the event, filtered or not; the verdict goes to the runner.
RunConsumers ==
  LET verdict == HasPassed(localResult)
  IN  /\ pc = "consumers"
      /\ localResult' = AfterHasPassed(localResult)
      /\ Process(verdict)
      /\ pipelineResult' = SetFilterDecision(pipelineResult, PipelineNames[pipe], verdict)
      /\ Announce(<<pipe, 0>>, productFlags)
      /\ pipe' = pipe + 1
      /\ pc' = "pipelines"
      /\ UNCHANGED <<signal, event_no, productFlags, globalResult, node, levels, vetoes,
                     outcome, providerVars>>

-----------------------------------------------------------------------------
(* After the event loop.                                                   *)

FinishPipeline ==
  /\ pc = "finish"
  /\ pipe \in LevelOne
  /\ finished' = [finished EXCEPT ![pipe] = @ + 1]
  /\ pipe' = pipe + 1
  /\ UNCHANGED <<pc, signal, event_no, productFlags, results, node, levels, seen, ran,
                 providerVars>>

\* osSignalReset: a signal that came in the meantime is forgotten.
ResetSignal ==
  /\ pc = "finish"
  /\ pipe > Len(Pipelines)
  /\ sigint' = FALSE
  /\ curLevel' = 2
  /\ noPipelineRun' = TRUE
  /\ pipe' = 1
  /\ pc' = "levels"
  /\ UNCHANGED <<sigintAt, event_no, productFlags, results, node, seen, outcome,
                 providerVars>>

DueNext == Pipelines[pipe].level = curLevel + 1    \* mutant: starts at level three
Due == Pipelines[pipe].level = curLevel

AtHigherPipeline ==
  /\ pc = "levels" /\ ~sigint
  /\ pipe \in Pipe
  /\ pipe' = pipe + 1

RunHigherPipeline ==
  /\ AtHigherPipeline
  /\ Due
  /\ noPipelineRun' = FALSE
  /\ ran' = [ran EXCEPT ![pipe] = @ + 1]
  /\ finished' = [finished EXCEPT ![pipe] = @ + 1]
  /\ UNCHANGED <<pc, signal, event_no, productFlags, results, node, curLevel, seen,
                 providerVars>>

SkipHigherPipeline ==
  /\ AtHigherPipeline
  /\ ~Due
  /\ UNCHANGED <<pc, signal, event_no, productFlags, results, node, levels, seen, outcome,
                 providerVars>>

\* The sweep over the pipelines ends, or a signal stops it; the next level
\* follows unless this one had no pipeline that ran.
EndLevel ==
  /\ pc = "levels"
  /\ pipe > Len(Pipelines) \/ sigint
  /\ curLevel' = curLevel + 1
  /\ noPipelineRun' = TRUE
  /\ pipe' = 1
  /\ pc' = IF noPipelineRun THEN "done" ELSE "levels"
  /\ UNCHANGED <<signal, event_no, productFlags, results, node, seen, outcome, providerVars>>

-----------------------------------------------------------------------------
ProviderStep == pc = "get" /\ ProviderNext /\ UNCHANGED runnerVars

\* The thread of the program.
Runner ==
  \/ Start \/ NullEvent \/ LeaveLoop \/ RequestEvent \/ NoEntry \/ BeginEvent
  \/ LeaveGlobalNodes \/ GlobalProducer \/ StartPipeline \/ SkipPipeline \/ NextEvent
  \/ LeaveLocalNodes \/ LocalProducer \/ RunConsumers
  \/ \E passed \in BOOLEAN : GlobalFilter(passed) \/ LocalFilter(passed)
  \/ FinishPipeline \/ ResetSignal \/ RunHigherPipeline \/ SkipHigherPipeline \/ EndLevel

Next == Runner \/ ProviderStep \/ Interrupt

\* The thread runs, and its waits for a worker end after five minutes.  Neither
\* an answer of a worker nor a signal is assumed.
Fairness ==
  /\ WF_vars(Runner)
  /\ WF_vars(pc = "get" /\ (Bookkeep \/ Timeout) /\ UNCHANGED runnerVars)

Spec == Init /\ [][Next]_vars /\ Fairness
-----------------------------------------------------------------------------
(***************************************************************************)
(* What the event loop has to get right, and that it implements what       *)
(* module EventLoop promises.                                              *)
(***************************************************************************)
TypeOK ==
  /\ ProviderTypeOK
  /\ pc \in {"start", "null", "loop", "get", "global", "pipelines", "local", "consumers",
             "finish", "levels", "done", "fatal"}
  /\ sigint \in BOOLEAN /\ sigintAt \in Nat \cup {-1}
  /\ nEvents \in Int /\ iEvent \in Nat
  /\ productFlags \in [newRun : BOOLEAN, newLumisection : BOOLEAN]
  /\ IsFilterResult(globalResult)
  /\ IsFilterResult(pipelineResult)
  /\ IsFilterResult(localResult)
  /\ pipe \in Nat \ {0} /\ node \in Nat \ {0}
  /\ curLevel \in Nat /\ noPipelineRun \in BOOLEAN
  /\ processed \in [Pipe -> Seq([entry : Nat, passed : BOOLEAN])]
  /\ vetoes \subseteq (0 .. Len(Pipelines)) \X FilterName
  /\ informed \in [Place -> [run : Int, lumi : Int]]
  /\ finished \in [Pipe -> Nat]
  /\ ran \in [Pipe -> Nat]

InEvent == pc \in {"global", "pipelines", "local", "consumers"}

\* Pipelines that already had the event at work.
Served == IF pc = "global" THEN {} ELSE {p \in LevelOne : p < pipe}

-----------------------------------------------------------------------------
(* The pipelines and the events.                                           *)

\* How many events pipeline p has had.
Count(p) ==
  IF p \notin LevelOne THEN 0
  ELSE IF InEvent /\ p \in Served THEN iEvent - FirstEvent + 1 ELSE iEvent - FirstEvent

\* Every pipeline of level one gets every event from FirstEvent on, none twice,
\* none left out, in order, also the events its filters or the global ones
\* reject; pipelines of other levels get none (RunPipelines' nested loops).
Lockstep ==
  /\ iEvent >= FirstEvent
  /\ \A p \in Pipe :
       /\ Len(processed[p]) = Count(p)
       /\ \A k \in 1 .. Len(processed[p]) : processed[p][k].entry = FirstEvent + k - 1

\* A name keeps the tagging mode of its first listing, so that a filter of the
\* runner is no tagger in a pipeline that only declares it one for itself.
GlobalNames == Range(GlobalFilters)
                 \cup {GlobalNodes[i].id : i \in {j \in DOMAIN GlobalNodes :
                                                   GlobalNodes[j].kind = "Filter"}}
Tagger(p, n) == n \in GlobalTagging \/ n \in Pipelines[p].tagging \ GlobalNames

\* A veto that counts for pipeline p.
Counts(v, p) == v[1] \in {0, p} /\ ~Tagger(p, v[2])

\* The verdict a pipeline's consumers and the runner get is that no filter in
\* its way said no, tagging filters aside, whatever the cache in FilterResult
\* held on the way (ConsumerBase.h:114-116).
VerdictIsNoVeto ==
  pc = "consumers" => (HasPassed(localResult) <=> ~ \E v \in vetoes : Counts(v, pipe))

\* After a veto that counts no further node of the chain is run: only the node
\* run last can have given one (PipelineRunner.h:180-183, Pipeline.h:181-186).
VetoedBefore(nodes, owner, v) == v[1] # owner \/ node = 1 \/ nodes[node - 1].id # v[2]
NoWorkAfterVeto ==
  /\ pc = "global" =>
       ~ \E v \in vetoes : v[2] \notin GlobalTagging /\ VetoedBefore(GlobalNodes, 0, v)
  /\ pc = "local" /\ node > 1 =>
       ~ \E v \in vetoes : Counts(v, pipe) /\ VetoedBefore(Pipelines[pipe].nodes, pipe, v)

\* The PreviousPipelinesResult a pipeline sees holds the verdicts on this event
\* of the level-one pipelines before it, and nothing on any other pipeline.
PreviousResultsSeen ==
  pc \in {"pipelines", "local", "consumers"} =>
    \A p \in Pipe :
      pipelineResult.filterDecisions[PipelineNames[p]].filterDecision =
        IF p \notin Served THEN "Undefined"
        ELSE IF processed[p][Len(processed[p])].passed THEN "Passed" ELSE "NotPassed"

\* The consumers of a pipeline that has had an event were told its run by OnRun
\* and its lumisection by OnLumi.  It takes a global producer that runs in every
\* event to make this true: only producers set the flags of the product.
ConsumersInformed ==
  InEvent => \A p \in Served : informed[<<p, 0>>] = [run |-> event.run, lumi |-> event.lumi]

\* What a pipeline gets of an event is what was decided of it: the verdict is
\* that of the filters in its way, nothing runs behind a veto, the verdicts of
\* the pipelines before it are those on this very event, and the consumers know
\* the run and the lumisection it is from.
PipelinesSeeTheEvent ==
  VerdictIsNoVeto /\ NoWorkAfterVeto /\ PreviousResultsSeen /\ ConsumersInformed

\* No filter result the loop holds answers from a stale cache.
CachesCoherent ==
  CacheCoherent(globalResult) /\ CacheCoherent(pipelineResult) /\ CacheCoherent(localResult)

-----------------------------------------------------------------------------
(* The end of the loop.                                                    *)

\* "processing will be stopped after the current event" (PipelineRunner.h:34-37):
\* no event behind the one at work when the signal came reaches a pipeline.
StopsAfterCurrentEvent ==
  sigint /\ pc \notin {"levels", "done"} =>
    \A p \in Pipe : \A k \in DOMAIN processed[p] : processed[p][k].entry <= sigintAt

\* "... and the root file will be properly written": every pipeline of level one
\* is finished in the end, unless the program aborted, signal or not.
ResultsWritten ==
  <>(pc = "fatal" \/ stage = "fatal" \/ \A p \in LevelOne : finished[p] = 1)

\* Before the loop over the events is left nothing is finished or run; then the
\* pipelines of level one are finished in order, each once, and afterwards the
\* others exactly as often as they were run.
FinishedOnce ==
  /\ pc \in {"start", "null"} => pipe = 1
  /\ pc \notin {"finish", "levels", "done"} => \A p \in Pipe : finished[p] = 0
  /\ pc = "finish" =>
       \A p \in Pipe : finished[p] = IF p \in LevelOne /\ p < pipe THEN 1 ELSE 0
  /\ pc \notin {"levels", "done"} => \A p \in Pipe : ran[p] = 0
  /\ pc \in {"levels", "done"} =>
       \A p \in Pipe : finished[p] = IF p \in LevelOne THEN 1 ELSE ran[p]

\* The pipelines the sweeps over the levels have passed.
Behind == {p \in Pipe : /\ Pipelines[p].level > 1
                        /\ \/ Pipelines[p].level < curLevel
                           \/ Pipelines[p].level = curLevel /\ p < pipe}

\* The sweeps run exactly the pipelines they pass, once each, so that a pipeline
\* runs after all those of lower levels; a signal only cuts them short.
LevelByLevel ==
  pc = "levels" =>
    /\ curLevel >= 2
    /\ \A p \in Pipe : /\ ran[p] \in {0, 1}
                       /\ ran[p] = 1 => p \in Behind
                       /\ p \in Behind => sigint \/ ran[p] = 1

\* However the loop over the events ends, what follows is in order: FinishPipeline
\* once for each pipeline that ran, and Run level by level (PipelineRunner.h:250-285).
EndsInOrder == FinishedOnce /\ LevelByLevel

\* RunPipelines returns, unless it aborts.
Terminates == <>(pc \in {"done", "fatal"} \/ stage = "fatal")

\* Whenever the signal comes and whatever the worker does, the call comes to its
\* end, and the results of the events it has had are written before.
RunEnds == ResultsWritten /\ Terminates

\* "run the pipelines greater level one" (PipelineRunner.h:260-261): when it
\* returns, and no signal came after the event loop, every one of them was run.
HigherLevelsRun ==
  pc = "done" /\ ~sigint =>
    \A p \in Pipe : Pipelines[p].level > 1 => ran[p] = 1

-----------------------------------------------------------------------------
(* The abstract specification.                                             *)

LevelOf == [p \in Pipe |-> Pipelines[p].level]
Phase == IF pc = "finish" THEN "results"
         ELSE IF pc = "levels" THEN "later"
         ELSE IF pc = "done" THEN "over" ELSE "events"
Current == IF InEvent THEN iEvent ELSE -1
Pending == IF InEvent THEN LevelOne \ Served ELSE {}

EL == INSTANCE EventLoop WITH
        Level <- LevelOf, NoEvent <- -1,
        phase <- Phase, current <- Current, pending <- Pending, delivered <- processed

\* The runner does nothing the abstract event loop does not allow.
ImplementsEventLoop == EL!Spec
=============================================================================
