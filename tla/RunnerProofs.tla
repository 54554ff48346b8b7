----------------------------- MODULE RunnerProofs -----------------------------
(***************************************************************************)
(* The event loop of PipelineRunner, for every configuration of nodes and  *)
(* pipelines and every input: its variables keep their types, no filter    *)
(* result answers from a stale cache, every pipeline of level one gets     *)
(* every event, the loop implements module EventLoop, and what a pipeline  *)
(* gets of an event is what was decided of it.                             *)
(***************************************************************************)
EXTENDS PipelineRunner

-----------------------------------------------------------------------------
(* The constants.                                                          *)

\* What the configuration contributes to a step has the types the steps need.
LEMMA ConfigTypes ==
  /\ Len(GlobalNodes) \in Nat /\ Len(Pipelines) \in Nat
  /\ GlobalFilters \in Seq(FilterName) /\ GlobalTagging \in SUBSET FilterName
  /\ \A i \in 1 .. Len(GlobalNodes) : GlobalNodes[i].id \in FilterName
  /\ PipelineNames \in Seq(FilterName)
  /\ \A p \in Pipe :
       /\ PipelineNames[p] \in FilterName
       /\ Pipelines[p].level \in Nat
       /\ Pipelines[p].filters \in Seq(FilterName)
       /\ Pipelines[p].tagging \in SUBSET FilterName
       /\ Len(Pipelines[p].nodes) \in Nat
       /\ \A i \in 1 .. Len(Pipelines[p].nodes) : Pipelines[p].nodes[i].id \in FilterName
<1>1. \A s \in Seq(ProcessNode) :
         Len(s) \in Nat /\ \A i \in 1 .. Len(s) : s[i].id \in FilterName
  <2>1. \A s \in Seq(ProcessNode) : \A i \in 1 .. Len(s) : s[i] \in ProcessNode
    OBVIOUS
  <2>2. \A n \in ProcessNode : n.id \in FilterName
    BY DEF ProcessNode
  <2>3. QED
    BY <2>1, <2>2
<1>2. \A p \in Pipe : Pipelines[p] \in [name : FilterName, level : Nat,
         nodes : Seq(ProcessNode), filters : Seq(FilterName), tagging : SUBSET FilterName]
  <2> DEFINE T == [name : FilterName, level : Nat, nodes : Seq(ProcessNode),
                   filters : Seq(FilterName), tagging : SUBSET FilterName]
  <2>1. Pipelines \in Seq(T)
    BY RunnerConstants
  <2> HIDE DEF T
  <2>2. \A p \in Pipe : Pipelines[p] \in T
    BY <2>1 DEF Pipe
  <2>3. QED
    BY <2>2 DEF T
<1>3. \A p \in Pipe : /\ Pipelines[p].name \in FilterName
                      /\ Pipelines[p].level \in Nat
                      /\ Pipelines[p].nodes \in Seq(ProcessNode)
                      /\ Pipelines[p].filters \in Seq(FilterName)
                      /\ Pipelines[p].tagging \in SUBSET FilterName
  BY <1>2
<1>4. PipelineNames \in [1 .. Len(Pipelines) -> FilterName]
  BY <1>3 DEF PipelineNames, Pipe
<1>5. Len(Pipelines) \in Nat
  BY RunnerConstants
<1>6. PipelineNames \in Seq(FilterName)
  BY <1>4, <1>5
<1>7. QED
  BY <1>1, <1>3, <1>4, <1>5, <1>6, RunnerConstants DEF PipelineNames, Pipe

-----------------------------------------------------------------------------
(* Types and caches.                                                       *)

Control ==
  /\ pc \in {"start", "null", "loop", "get", "global", "pipelines", "local", "consumers",
             "finish", "levels", "done", "fatal"}
  /\ sigint \in BOOLEAN /\ sigintAt \in Nat \cup {-1}
  /\ nEvents \in Int /\ iEvent \in Nat
  /\ productFlags \in [newRun : BOOLEAN, newLumisection : BOOLEAN]
  /\ pipe \in Nat \ {0} /\ node \in Nat \ {0}
  /\ curLevel \in Nat /\ noPipelineRun \in BOOLEAN

\* The pipeline at work is one of level one.
AtWork == pc \in {"local", "consumers"} => pipe \in LevelOne

Sound(r) == IsFilterResult(r) /\ CacheCoherent(r)
ResultsSound == Sound(globalResult) /\ Sound(pipelineResult) /\ Sound(localResult)

Histories ==
  /\ processed \in [Pipe -> Seq([entry : Nat, passed : BOOLEAN])]
  /\ vetoes \subseteq (0 .. Len(Pipelines)) \X FilterName
  /\ informed \in [Place -> [run : Int, lumi : Int]]
  /\ finished \in [Pipe -> Nat]
  /\ ran \in [Pipe -> Nat]

\* The part of the inductive invariant that types every variable.
Basis == ProviderTypeOK /\ Control /\ AtWork /\ ResultsSound /\ Histories

\* The initial states satisfy it.
LEMMA BasisInit == Init => Basis
<1> SUFFICES ASSUME Init PROVE Basis
  OBVIOUS
<1>1. ProviderTypeOK
  BY ProviderInitType DEF Init
<1>2. Control
  <2>1. productFlags \in [newRun : BOOLEAN, newLumisection : BOOLEAN]
    BY DEF Init
  <2>2. sigint \in BOOLEAN /\ noPipelineRun \in BOOLEAN
    BY DEF Init
  <2>3. QED
    BY <2>1, <2>2, RunnerConstants DEF Init, Control
<1>3. AtWork
  BY DEF Init, AtWork
<1>4. ResultsSound
  <2>1. Sound(EmptyFilterResult)
    BY DEF EmptyFilterResult, Sound, IsFilterResult, CacheCoherent
  <2>2. QED
    BY <2>1 DEF Init, ResultsSound
<1>5. Histories
  <2>1. processed = [p \in Pipe |-> <<>>] /\ vetoes = {}
    BY DEF Init
  <2>2. informed = [l \in Place |-> [run |-> -1, lumi |-> -1]]
    BY DEF Init
  <2>3. informed \in [Place -> [run : Int, lumi : Int]]
    BY <2>2
  <2>4. finished \in [Pipe -> Nat] /\ ran \in [Pipe -> Nat]
    BY DEF Init
  <2>5. processed \in [Pipe -> Seq([entry : Nat, passed : BOOLEAN])]
    BY <2>1
  <2>6. QED
    BY <2>1, <2>3, <2>4, <2>5 DEF Histories
<1>6. QED
  BY <1>1, <1>2, <1>3, <1>4, <1>5 DEF Basis

\* Every step keeps the control variables in their types.
LEMMA ControlKept == ASSUME Basis, Next PROVE Control' /\ AtWork'
<1> USE DEF Basis, Control, AtWork
<1>1. CASE Start
  BY <1>1, RunnerConstants DEF Start, signal, iterators, levels
<1>2. CASE NullEvent
  BY <1>2 DEF NullEvent, signal, event_no, iterators, levels
<1>3. CASE LeaveLoop
  BY <1>3 DEF LeaveLoop, signal, event_no, levels
<1>4. CASE RequestEvent
  BY <1>4 DEF RequestEvent, signal, event_no, iterators, levels
<1>5. CASE NoEntry
  BY <1>5 DEF NoEntry, signal, event_no, levels
<1>6. CASE BeginEvent
  BY <1>6 DEF BeginEvent, signal, event_no, levels
<1>7. CASE LeaveGlobalNodes
  BY <1>7 DEF LeaveGlobalNodes, signal, event_no, levels
<1>8. CASE GlobalProducer
  <2>1. ProviderFlags \in [newRun : BOOLEAN, newLumisection : BOOLEAN]
    BY DEF ProviderFlags, ProviderTypeOK
  <2>2. QED
    BY <1>8, <2>1 DEF GlobalProducer, AtGlobalNode, signal, event_no, levels
<1>9. CASE \E passed \in BOOLEAN : GlobalFilter(passed)
  BY <1>9 DEF GlobalFilter, AtGlobalNode, signal, event_no, levels
<1>10. CASE StartPipeline
  BY <1>10 DEF StartPipeline, signal, event_no, levels
<1>11. CASE SkipPipeline
  BY <1>11 DEF SkipPipeline, signal, event_no, levels
<1>12. CASE NextEvent
  BY <1>12 DEF NextEvent, signal, iterators, levels
<1>13. CASE LeaveLocalNodes
  BY <1>13 DEF LeaveLocalNodes, signal, event_no, iterators, levels
<1>14. CASE LocalProducer
  BY <1>14 DEF LocalProducer, AtLocalNode, signal, event_no, levels
<1>15. CASE \E passed \in BOOLEAN : LocalFilter(passed)
  BY <1>15 DEF LocalFilter, AtLocalNode, signal, event_no, levels
<1>16. CASE RunConsumers
  BY <1>16 DEF RunConsumers, signal, event_no, levels
<1>17. CASE FinishPipeline
  BY <1>17 DEF FinishPipeline, signal, event_no, levels
<1>18. CASE ResetSignal
  <2>1. sigint' \in BOOLEAN /\ noPipelineRun' \in BOOLEAN
    BY <1>18 DEF ResetSignal
  <2>2. QED
    BY <1>18, <2>1 DEF ResetSignal, event_no
<1>19. CASE RunHigherPipeline
  <2>1. noPipelineRun' \in BOOLEAN
    BY <1>19 DEF RunHigherPipeline
  <2>2. pipe' \in Nat \ {0}
    BY <1>19 DEF RunHigherPipeline, AtHigherPipeline
  <2>3. QED
    BY <1>19, <2>1, <2>2 DEF RunHigherPipeline, AtHigherPipeline, signal, event_no
<1>20. CASE SkipHigherPipeline
  BY <1>20 DEF SkipHigherPipeline, AtHigherPipeline, signal, event_no, levels
<1>21. CASE EndLevel
  BY <1>21 DEF EndLevel, signal, event_no
<1>22. CASE ProviderStep
  BY <1>22 DEF ProviderStep, runnerVars, signal, event_no, iterators, levels
<1>23. CASE Interrupt
  BY <1>23 DEF Interrupt, event_no, iterators, levels
<1>24. QED
  BY <1>1, <1>2, <1>3, <1>4, <1>5, <1>6, <1>7, <1>8, <1>9, <1>10, <1>11, <1>12, <1>13,
     <1>14, <1>15, <1>16, <1>17, <1>18, <1>19, <1>20, <1>21, <1>22, <1>23
  DEF Next, Runner

\* What the loops do to a filter result leaves it well typed and its cache right.
LEMMA SoundOperations ==
  ASSUME NEW r, Sound(r)
  PROVE  /\ Sound(AfterHasPassed(r))
         /\ HasPassed(r) \in BOOLEAN
         /\ \A n \in FilterName, passed \in BOOLEAN :
              /\ Sound(SetFilterDecision(r, n, passed))
              /\ Sound(SetFilterDecision(AfterHasPassed(r), n, passed))
         /\ \A nodes : Sound(LeftResult(nodes, r))
<1>1. Sound(AfterHasPassed(r))
  BY AskPreserves DEF Sound
<1>2. \A n \in FilterName, passed \in BOOLEAN : Sound(SetFilterDecision(r, n, passed))
  BY SetDecisionPreserves DEF Sound
<1>3. \A n \in FilterName, passed \in BOOLEAN :
         Sound(SetFilterDecision(AfterHasPassed(r), n, passed))
  BY <1>1, SetDecisionPreserves DEF Sound
<1>4. \A nodes : Sound(LeftResult(nodes, r))
  BY <1>1 DEF LeftResult
<1>5. QED
  BY <1>1, <1>2, <1>3, <1>4, HasPassedBoolean DEF Sound

\* Every step keeps the three filter results sound.
LEMMA ResultsKept == ASSUME Basis, Next PROVE ResultsSound'
<1> USE DEF Basis, ResultsSound
<1>1. CASE BeginEvent
  <2>1. Sound(NewFilterResult(GlobalFilters, GlobalTagging))
    BY ConfigTypes, NewPreserves DEF Sound
  <2>2. QED
    BY <1>1, <2>1 DEF BeginEvent
<1>2. CASE LeaveGlobalNodes
  <2>1. Sound(VerdictsOpen)
    BY ConfigTypes, NewPreserves DEF Sound, VerdictsOpen
  <2>2. QED
    BY <1>2, <2>1, SoundOperations DEF LeaveGlobalNodes
<1>3. CASE GlobalProducer
  BY <1>3, SoundOperations DEF GlobalProducer
<1>4. CASE \E passed \in BOOLEAN : GlobalFilter(passed)
  <2>1. PICK passed \in BOOLEAN : GlobalFilter(passed)
    BY <1>4
  <2>2. GlobalNodes[node].id \in FilterName
    BY <2>1, ConfigTypes DEF GlobalFilter, AtGlobalNode, ChainEnds, Control
  <2>3. QED
    BY <2>1, <2>2, SoundOperations DEF GlobalFilter
<1>5. CASE StartPipeline
  <2>1. pipe \in Pipe
    BY <1>5 DEF StartPipeline, LevelOne
  <2>2. Sound(AddFilterNamesTagging(globalResult, Pipelines[pipe].filters,
                                    Pipelines[pipe].tagging))
    BY <2>1, ConfigTypes, AddNamesTaggingPreserves DEF Sound
  <2>3. QED
    BY <1>5, <2>2 DEF StartPipeline
<1>6. CASE LeaveLocalNodes
  BY <1>6, SoundOperations DEF LeaveLocalNodes
<1>7. CASE LocalProducer
  BY <1>7, SoundOperations DEF LocalProducer
<1>8. CASE \E passed \in BOOLEAN : LocalFilter(passed)
  <2>1. PICK passed \in BOOLEAN : LocalFilter(passed)
    BY <1>8
  <2>2. pipe \in Pipe
    BY <2>1 DEF LocalFilter, AtLocalNode, AtWork, LevelOne
  <2>3. node \in 1 .. Len(Pipelines[pipe].nodes)
    BY <2>1, <2>2, ConfigTypes DEF LocalFilter, AtLocalNode, ChainEnds, Control
  <2>4. Pipelines[pipe].nodes[node].id \in FilterName
    BY <2>2, <2>3, ConfigTypes
  <2>5. QED
    BY <2>1, <2>4, SoundOperations DEF LocalFilter
<1>9. CASE RunConsumers
  <2>1. pipe \in Pipe
    BY <1>9 DEF RunConsumers, AtWork, LevelOne
  <2>2. PipelineNames[pipe] \in FilterName
    BY <2>1, ConfigTypes
  <2>3. QED
    BY <1>9, <2>2, SoundOperations DEF RunConsumers
<1>10. CASE UNCHANGED results
  BY <1>10 DEF results
<1>11. QED
  BY <1>1, <1>2, <1>3, <1>4, <1>5, <1>6, <1>7, <1>8, <1>9, <1>10
  DEF Next, Runner, Start, NullEvent, LeaveLoop, RequestEvent, NoEntry, SkipPipeline,
      NextEvent, FinishPipeline, ResetSignal, RunHigherPipeline, SkipHigherPipeline, EndLevel,
      ProviderStep, runnerVars, Interrupt

\* One more at one place of a table of counts, or of a table of sequences.
LEMMA CountUp ==
  ASSUME NEW S, NEW f \in [S -> Nat], NEW s \in S
  PROVE  [f EXCEPT ![s] = @ + 1] \in [S -> Nat]
OBVIOUS

LEMMA AppendAt ==
  ASSUME NEW S, NEW D, NEW f \in [S -> Seq(D)], NEW s \in S, NEW d \in D
  PROVE  [f EXCEPT ![s] = Append(@, d)] \in [S -> Seq(D)]
<1>1. Append(f[s], d) \in Seq(D)
  OBVIOUS
<1>2. QED
  BY <1>1

\* Announcements are of runs and lumisections that exist as numbers.
LEMMA AnnounceType ==
  ASSUME Basis, NEW place, NEW news, Announce(place, news)
  PROVE  informed' \in [Place -> [run : Int, lumi : Int]]
<1>1. event.run \in Int /\ event.lumi \in Int
  BY DEF Basis, ProviderTypeOK
<1>2. ASSUME place \in Place
      PROVE  [run  |-> IF news.newRun THEN event.run ELSE informed[place].run,
              lumi |-> IF news.newLumisection THEN event.lumi ELSE informed[place].lumi]
               \in [run : Int, lumi : Int]
  <2>1. informed[place] \in [run : Int, lumi : Int]
    BY <1>2 DEF Basis, Histories
  <2>2. QED
    BY <1>1, <2>1
<1>3. QED
  BY <1>2 DEF Announce, Basis, Histories

\* Every step keeps the history variables in their types.
LEMMA HistoriesKept == ASSUME Basis, Next PROVE Histories'
<1> USE DEF Basis, Histories
<1>1. CASE GlobalProducer
  BY <1>1, AnnounceType DEF GlobalProducer, outcome
<1>2. CASE \E passed \in BOOLEAN : GlobalFilter(passed)
  <2>1. PICK passed \in BOOLEAN : GlobalFilter(passed)
    BY <1>2
  <2>2. GlobalNodes[node].id \in FilterName
    BY <2>1, ConfigTypes DEF GlobalFilter, AtGlobalNode, ChainEnds, Control
  <2>3. 0 \in 0 .. Len(Pipelines)
    BY ConfigTypes
  <2>4. vetoes' \subseteq (0 .. Len(Pipelines)) \X FilterName
    BY <2>1, <2>2, <2>3 DEF GlobalFilter, NoteVeto
  <2>5. QED
    BY <2>1, <2>4, AnnounceType DEF GlobalFilter, outcome
<1>3. CASE LocalProducer
  BY <1>3, AnnounceType DEF LocalProducer, outcome
<1>4. CASE \E passed \in BOOLEAN : LocalFilter(passed)
  <2>1. PICK passed \in BOOLEAN : LocalFilter(passed)
    BY <1>4
  <2>2. pipe \in Pipe
    BY <2>1 DEF LocalFilter, AtLocalNode, AtWork, LevelOne
  <2>3. node \in 1 .. Len(Pipelines[pipe].nodes)
    BY <2>1, <2>2, ConfigTypes DEF LocalFilter, AtLocalNode, ChainEnds, Control
  <2>4. Pipelines[pipe].nodes[node].id \in FilterName /\ pipe \in 0 .. Len(Pipelines)
    BY <2>2, <2>3, ConfigTypes DEF Pipe
  <2>5. vetoes' \subseteq (0 .. Len(Pipelines)) \X FilterName
    BY <2>1, <2>4 DEF LocalFilter, NoteVeto
  <2>6. QED
    BY <2>1, <2>5, AnnounceType DEF LocalFilter, outcome
<1>5. CASE RunConsumers
  <2> DEFINE D == [entry : Nat, passed : BOOLEAN]
             d == [entry |-> iEvent, passed |-> HasPassed(localResult)]
  <2>1. d \in D
    BY SoundOperations DEF ResultsSound, Control
  <2>2. processed' \in [Pipe -> Seq(D)]
    <3>1. processed' = [processed EXCEPT ![pipe] = Append(@, d)]
      BY <1>5 DEF RunConsumers, Process
    <3>2. processed \in [Pipe -> Seq(D)] /\ pipe \in Pipe
      BY <1>5 DEF RunConsumers, AtWork, LevelOne
    <3> HIDE DEF D, d
    <3>3. QED
      BY <2>1, <3>1, <3>2, AppendAt
  <2>3. QED
    BY <1>5, <2>2, AnnounceType DEF RunConsumers, outcome
<1>6. CASE FinishPipeline
  <2>1. finished' \in [Pipe -> Nat]
    BY <1>6, CountUp DEF FinishPipeline, LevelOne
  <2>2. QED
    BY <1>6, <2>1 DEF FinishPipeline, seen
<1>7. CASE RunHigherPipeline
  <2>1. finished' \in [Pipe -> Nat] /\ ran' \in [Pipe -> Nat]
    BY <1>7, CountUp DEF RunHigherPipeline, AtHigherPipeline
  <2>2. QED
    BY <1>7, <2>1 DEF RunHigherPipeline, seen
<1>8. CASE BeginEvent
  BY <1>8 DEF BeginEvent, outcome
<1>9. CASE UNCHANGED <<seen, outcome>>
  BY <1>9 DEF seen, outcome
<1>10. QED
  BY <1>1, <1>2, <1>3, <1>4, <1>5, <1>6, <1>7, <1>8, <1>9
  DEF Next, Runner, Start, NullEvent, LeaveLoop, RequestEvent, NoEntry, LeaveGlobalNodes,
      StartPipeline, SkipPipeline, NextEvent, LeaveLocalNodes, ResetSignal,
      SkipHigherPipeline, EndLevel, ProviderStep, runnerVars, Interrupt

\* The event provider's variables change by its own steps only.
LEMMA ProviderKept == ASSUME Basis, Next PROVE ProviderTypeOK'
<1>1. CASE RequestEvent
  BY <1>1, CallGetEntryType DEF RequestEvent, Basis, Control
<1>2. CASE ProviderStep
  BY <1>2, ProviderNextType DEF ProviderStep, Basis
<1>3. CASE UNCHANGED providerVars
  BY <1>3 DEF providerVars, flags, memory, Basis, ProviderTypeOK
<1>4. QED
  BY <1>1, <1>2, <1>3
  DEF Next, Runner, Start, NullEvent, LeaveLoop, NoEntry, BeginEvent, LeaveGlobalNodes,
      GlobalProducer, GlobalFilter, StartPipeline, SkipPipeline, NextEvent, LeaveLocalNodes,
      LocalProducer, LocalFilter, RunConsumers, FinishPipeline, ResetSignal,
      RunHigherPipeline, SkipHigherPipeline, EndLevel, Interrupt

\* A stuttering step keeps everything.
LEMMA BasisStutters == ASSUME Basis, UNCHANGED vars PROVE Basis'
BY DEF vars, runnerVars, signal, event_no, results, iterators, levels, seen, outcome,
       providerVars, flags, memory, Basis, ProviderTypeOK, Control, AtWork, ResultsSound,
       Histories

\* The types and the sound caches hold in every reachable state.
THEOREM BasisHolds == Spec => []Basis
<1>1. Init => Basis
  BY BasisInit
<1>2. Basis /\ [Next]_vars => Basis'
  BY ControlKept, ResultsKept, HistoriesKept, ProviderKept, BasisStutters DEF Basis
<1>3. QED
  BY <1>1, <1>2, PTL DEF Spec

\* TypeOK for every configuration and input.
THEOREM TypeCorrect == Spec => []TypeOK
<1>1. Basis => TypeOK
  BY DEF Basis, Control, ResultsSound, Sound, Histories, TypeOK
<1>2. QED
  BY <1>1, BasisHolds, PTL

\* No filter result of the event loop ever answers from a stale cache.
THEOREM CachesCorrect == Spec => []CachesCoherent
<1>1. Basis => CachesCoherent
  BY DEF Basis, ResultsSound, Sound, CachesCoherent
<1>2. QED
  BY <1>1, BasisHolds, PTL

-----------------------------------------------------------------------------
(* Every pipeline gets every event.                                        *)

\* Lockstep stays true as long as no pipeline's share of the events changes.
LEMMA SameShare ==
  ASSUME Lockstep, UNCHANGED <<processed, iEvent>>, \A p \in Pipe : Count(p)' = Count(p)
  PROVE  Lockstep'
BY DEF Lockstep

\* The last pipeline done, the event counts for every one of them.
LEMMA AllServed ==
  ASSUME Basis, pc # "global", pipe > Len(Pipelines)
  PROVE  Served = LevelOne
<1>1. \A p \in LevelOne : p < pipe
  BY ConfigTypes DEF LevelOne, Pipe, Basis, Control
<1>2. QED
  BY <1>1 DEF Served

\* No step leaves out, repeats or misplaces an event.
LEMMA LockstepKept == ASSUME Basis, Lockstep, Next PROVE Lockstep'
<1> USE DEF InEvent, Served, Count
<1>1. CASE RunConsumers
  <2> DEFINE d == [entry |-> iEvent, passed |-> HasPassed(localResult)]
  <2>1. pipe \in LevelOne /\ pipe \in Pipe
    BY <1>1 DEF RunConsumers, Basis, AtWork, LevelOne
  <2>2. /\ processed' = [processed EXCEPT ![pipe] = Append(@, d)]
        /\ iEvent' = iEvent /\ pipe' = pipe + 1 /\ pc = "consumers" /\ pc' = "pipelines"
    BY <1>1 DEF RunConsumers, Process, event_no
  <2>3. Len(processed[pipe]) = iEvent - FirstEvent
    BY <2>1, <2>2 DEF Lockstep, LevelOne, Pipe
  <2>4. \A p \in Pipe \ {pipe} : processed'[p] = processed[p] /\ Count(p)' = Count(p)
    <3>1. \A p \in Pipe \ {pipe} : p < pipe + 1 <=> p < pipe
      BY <2>1 DEF Pipe
    <3>2. QED
      BY <2>2, <3>1 DEF Basis, Histories, LevelOne
  <2>5. processed[pipe] \in Seq([entry : Nat, passed : BOOLEAN])
    BY <2>1 DEF Basis, Histories
  <2>6. processed'[pipe] = Append(processed[pipe], d)
    BY <2>1, <2>2 DEF Basis, Histories
  <2>7. \A p \in Pipe : p = pipe => Count(p)' = iEvent - FirstEvent + 1
    BY <2>1, <2>2 DEF LevelOne, Pipe
  <2>8. iEvent \in Nat /\ FirstEvent \in Nat
    BY RunnerConstants DEF Basis, Control
  <2>9. d.entry = iEvent
    OBVIOUS
  <2> HIDE DEF d
  <2>10. \A p \in Pipe : p = pipe => Len(processed'[p]) = Count(p)'
    BY <2>3, <2>5, <2>6, <2>7, <2>8
  <2>11. \A k \in 1 .. Len(processed'[pipe]) : processed'[pipe][k].entry = FirstEvent + k - 1
    <3>1. \A k \in 1 .. Len(processed[pipe]) :
             processed'[pipe][k].entry = FirstEvent + k - 1
      BY <2>1, <2>5, <2>6 DEF Lockstep
    <3>2. processed'[pipe][Len(processed[pipe]) + 1].entry = iEvent
      BY <2>5, <2>6, <2>9
    <3>3. Len(processed'[pipe]) = Len(processed[pipe]) + 1
      BY <2>5, <2>6
    <3>4. Len(processed[pipe]) \in Nat
      BY <2>5
    <3>5. \A k \in 1 .. Len(processed'[pipe]) :
             k \in 1 .. Len(processed[pipe]) \/ k = Len(processed[pipe]) + 1
      BY <3>3, <3>4
    <3>6. FirstEvent + (Len(processed[pipe]) + 1) - 1 = iEvent
      BY <2>3, <2>8
    <3>7. QED
      BY <3>1, <3>2, <3>5, <3>6
  <2>12. ASSUME NEW p \in Pipe
         PROVE  /\ Len(processed'[p]) = Count(p)'
                /\ \A k \in 1 .. Len(processed'[p]) : processed'[p][k].entry = FirstEvent + k - 1
    <3>1. CASE p = pipe
      BY <2>10, <2>11, <3>1
    <3>2. CASE p # pipe
      BY <2>4, <3>2 DEF Lockstep
    <3>3. QED
      BY <3>1, <3>2
  <2>13. QED
    BY <2>2, <2>12 DEF Lockstep
<1>2. CASE NextEvent
  <2>1. /\ processed' = processed /\ iEvent' = iEvent + 1
        /\ pc = "pipelines" /\ pc' = "loop" /\ pipe > Len(Pipelines)
    BY <1>2 DEF NextEvent, seen
  <2>2. \A p \in LevelOne : p < pipe
    BY <2>1, AllServed
  <2>3. iEvent \in Nat /\ FirstEvent \in Nat
    BY RunnerConstants DEF Basis, Control
  <2>4. \A p \in Pipe : Count(p)' = Count(p)
    BY <2>1, <2>2, <2>3 DEF LevelOne
  <2>5. QED
    BY <2>1, <2>3, <2>4 DEF Lockstep
<1>3. CASE LeaveGlobalNodes
  <2>1. \A p \in LevelOne : ~(p < 1)
    BY DEF LevelOne, Pipe
  <2>2. \A p \in Pipe : Count(p)' = Count(p)
    BY <1>3, <2>1 DEF LeaveGlobalNodes, event_no
  <2>3. QED
    BY <1>3, <2>2, SameShare DEF LeaveGlobalNodes, event_no, seen
<1>4. CASE SkipPipeline
  <2>1. pipe \in Pipe \ LevelOne
    BY <1>4 DEF SkipPipeline
  <2>2. \A p \in LevelOne : p < pipe + 1 <=> p < pipe
    BY <2>1 DEF LevelOne, Pipe
  <2>3. \A p \in Pipe : Count(p)' = Count(p)
    BY <1>4, <2>2 DEF SkipPipeline, event_no
  <2>4. QED
    BY <1>4, <2>3, SameShare DEF SkipPipeline, event_no, seen
<1>5. CASE BeginEvent
  <2>1. \A p \in Pipe : Count(p)' = Count(p)
    BY <1>5 DEF BeginEvent, event_no
  <2>2. QED
    BY <1>5, <2>1, SameShare DEF BeginEvent, event_no
<1>6. CASE \/ Start \/ NullEvent \/ LeaveLoop \/ RequestEvent \/ NoEntry \/ FinishPipeline
           \/ ResetSignal \/ RunHigherPipeline \/ SkipHigherPipeline \/ EndLevel
  <2>1. /\ ~InEvent /\ ~InEvent' /\ UNCHANGED <<processed, iEvent>>
    BY <1>6 DEF Start, NullEvent, LeaveLoop, RequestEvent, NoEntry, FinishPipeline,
       ResetSignal, RunHigherPipeline, SkipHigherPipeline, AtHigherPipeline, EndLevel,
       event_no, seen
  <2>2. \A p \in Pipe : Count(p)' = Count(p)
    BY <2>1
  <2>3. QED
    BY <2>1, <2>2, SameShare
<1>7. CASE \/ GlobalProducer \/ StartPipeline \/ LeaveLocalNodes \/ LocalProducer
           \/ \E passed \in BOOLEAN : GlobalFilter(passed) \/ LocalFilter(passed)
           \/ ProviderStep \/ Interrupt
  <2>1. /\ InEvent' = InEvent /\ (pc = "global")' = (pc = "global")
        /\ UNCHANGED <<processed, iEvent, pipe>>
    BY <1>7 DEF GlobalProducer, AtGlobalNode, StartPipeline, LeaveLocalNodes, LocalProducer,
       AtLocalNode, GlobalFilter, LocalFilter, ProviderStep, runnerVars, Interrupt,
       event_no, seen, iterators
  <2>2. \A p \in Pipe : Count(p)' = Count(p)
    BY <2>1
  <2>3. QED
    BY <2>1, <2>2, SameShare
<1>8. QED
  BY <1>1, <1>2, <1>3, <1>4, <1>5, <1>6, <1>7 DEF Next, Runner

\* Every pipeline of level one gets every event exactly once and in order, in any
\* configuration and whatever its filters decide.
THEOREM LockstepHolds == Spec => []Lockstep
<1>1. Init => Lockstep
  BY RunnerConstants DEF Init, Lockstep, Count, InEvent
<1>2. Basis /\ Lockstep /\ [Next]_vars => Lockstep'
  <2>1. Lockstep /\ UNCHANGED vars => Lockstep'
    BY DEF Lockstep, Count, InEvent, Served, vars, runnerVars, event_no, iterators, seen
  <2>2. QED
    BY <2>1, LockstepKept
<1>3. QED
  BY <1>1, <1>2, BasisHolds, PTL DEF Spec

-----------------------------------------------------------------------------
(* The end of the loop.                                                    *)

\* Pipelines are finished once each, those of level one first.
LEMMA FinishedOnceKept == ASSUME Basis, LevelByLevel, FinishedOnce, Next PROVE FinishedOnce'
<1> USE DEF Basis, Histories, FinishedOnce
<1>1. CASE FinishPipeline
  <2>1. /\ pc = "finish" /\ pc' = "finish" /\ pipe \in LevelOne /\ pipe \in Pipe
        /\ finished' = [finished EXCEPT ![pipe] = @ + 1] /\ ran' = ran /\ pipe' = pipe + 1
    BY <1>1 DEF FinishPipeline, LevelOne
  <2>2. \A p \in Pipe : p < pipe + 1 <=> p < pipe \/ p = pipe
    BY <2>1 DEF Pipe
  <2>3. finished[pipe] = 0
    BY <2>1 DEF Pipe
  <2>4. \A p \in Pipe : finished'[p] = IF p \in LevelOne /\ p < pipe + 1 THEN 1 ELSE 0
    BY <2>1, <2>2, <2>3
  <2>5. QED
    BY <2>1, <2>4
<1>2. CASE SkipPipeline
  <2>1. /\ pc \in {"pipelines", "finish"} /\ pc' = pc /\ pipe \in Pipe \ LevelOne
        /\ finished' = finished /\ ran' = ran /\ pipe' = pipe + 1
    BY <1>2 DEF SkipPipeline, outcome
  <2>2. \A p \in LevelOne : p < pipe + 1 <=> p < pipe
    BY <2>1 DEF LevelOne, Pipe
  <2>3. QED
    BY <2>1, <2>2
<1>3. CASE ResetSignal
  <2>1. /\ pc = "finish" /\ pc' = "levels" /\ pipe > Len(Pipelines)
        /\ finished' = finished /\ ran' = ran
    BY <1>3 DEF ResetSignal, outcome
  <2>2. \A p \in Pipe : p < pipe
    BY <2>1, ConfigTypes DEF Pipe, Control
  <2>3. QED
    BY <2>1, <2>2
<1>4. CASE RunHigherPipeline
  <2>1. /\ pc = "levels" /\ pc' = "levels" /\ pipe \in Pipe
        /\ finished' = [finished EXCEPT ![pipe] = @ + 1]
        /\ ran' = [ran EXCEPT ![pipe] = @ + 1]
    BY <1>4 DEF RunHigherPipeline, AtHigherPipeline
  <2>2. pipe \notin LevelOne
    BY <1>4 DEF RunHigherPipeline, Due, LevelOne, LevelByLevel, AtHigherPipeline
  <2>3. QED
    BY <2>1, <2>2
<1>5. CASE LeaveLoop \/ NoEntry \/ NullEvent
  <2>1. /\ pc \in {"null", "loop", "get"} /\ pc' \in {"fatal", "finish"}
        /\ pipe' = 1 /\ UNCHANGED <<finished, ran>>
    BY <1>5 DEF LeaveLoop, NoEntry, NullEvent, iterators, outcome
  <2>2. \A p \in Pipe : ~(p < 1)
    BY DEF Pipe
  <2>3. QED
    BY <2>1, <2>2
<1>6. CASE Start
  BY <1>6 DEF Start, iterators, outcome
<1>7. CASE \/ RequestEvent \/ BeginEvent \/ LeaveGlobalNodes \/ GlobalProducer \/ NextEvent
           \/ StartPipeline \/ LeaveLocalNodes \/ LocalProducer \/ RunConsumers
           \/ \E passed \in BOOLEAN : GlobalFilter(passed) \/ LocalFilter(passed)
  <2>1. /\ pc \notin {"start", "null", "finish", "levels", "done"}
        /\ pc' \notin {"start", "null", "finish", "levels", "done"}
        /\ UNCHANGED <<finished, ran>>
    BY <1>7 DEF RequestEvent, BeginEvent, LeaveGlobalNodes, GlobalProducer, AtGlobalNode,
       NextEvent, StartPipeline, LeaveLocalNodes, LocalProducer, AtLocalNode, RunConsumers,
       GlobalFilter, LocalFilter, outcome
  <2>2. QED
    BY <2>1
<1>8. CASE SkipHigherPipeline \/ EndLevel
  BY <1>8 DEF SkipHigherPipeline, AtHigherPipeline, EndLevel, outcome
<1>9. CASE ProviderStep \/ Interrupt
  BY <1>9 DEF ProviderStep, Interrupt, runnerVars, iterators, outcome
<1>10. QED
  BY <1>1, <1>2, <1>3, <1>4, <1>5, <1>6, <1>7, <1>8, <1>9 DEF Next, Runner

\* The sweeps run the pipelines they pass.
LEMMA LevelByLevelKept == ASSUME Basis, LevelByLevel, FinishedOnce, Next PROVE LevelByLevel'
<1> USE DEF Basis, Histories, LevelByLevel, Behind
<1>0. /\ \A p \in Pipe : Pipelines[p].level \in Nat /\ p \in Nat \ {0}
      /\ curLevel \in Nat /\ pipe \in Nat
  BY ConfigTypes DEF Control, Pipe
<1>1. CASE ResetSignal
  BY <1>0, <1>1 DEF ResetSignal, FinishedOnce, outcome
<1>2. CASE RunHigherPipeline
  <2>1. /\ pc = "levels" /\ ~sigint /\ pipe \in Pipe /\ Pipelines[pipe].level = curLevel
        /\ ran' = [ran EXCEPT ![pipe] = @ + 1]
        /\ pipe' = pipe + 1 /\ UNCHANGED <<pc, sigint, curLevel>>
    BY <1>2 DEF RunHigherPipeline, AtHigherPipeline, Due, signal
  <2>2. ran[pipe] = 0
    BY <1>0, <2>1
  <2>3. ASSUME NEW p \in Pipe
        PROVE  p \in Behind' <=> p \in Behind \/ p = pipe
    <3>1. p < pipe' <=> p < pipe \/ p = pipe
      BY <1>0, <2>1
    <3>2. curLevel > 1
      BY <1>0, <2>1
    <3>3. QED
      BY <2>1, <3>1, <3>2
  <2>4. \A p \in Pipe : ran'[p] = IF p = pipe THEN 1 ELSE ran[p]
    BY <2>1, <2>2
  <2> HIDE DEF Behind
  <2>5. QED
    BY <2>1, <2>3, <2>4
<1>3. CASE SkipHigherPipeline
  <2>1. /\ pc = "levels" /\ pipe \in Pipe /\ Pipelines[pipe].level # curLevel
        /\ pipe' = pipe + 1 /\ UNCHANGED <<pc, sigint, curLevel, ran>>
    BY <1>3 DEF SkipHigherPipeline, AtHigherPipeline, Due, signal, levels, outcome
  <2>2. ASSUME NEW p \in Pipe
        PROVE  p \in Behind' <=> p \in Behind
    <3>1. p < pipe' <=> p < pipe \/ p = pipe
      BY <1>0, <2>1
    <3>2. QED
      BY <2>1, <3>1
  <2> HIDE DEF Behind
  <2>3. QED
    BY <2>1, <2>2
<1>4. CASE EndLevel
  <2>1. /\ pc = "levels" /\ pipe' = 1 /\ curLevel' = curLevel + 1
        /\ pipe > Len(Pipelines) \/ sigint
        /\ UNCHANGED <<sigint, ran>>
    BY <1>4 DEF EndLevel, signal, outcome
  <2>2. ASSUME NEW p \in Pipe
        PROVE  p \in Behind => p \in Behind'
    BY <1>0, <2>1
  <2>3. ASSUME pipe > Len(Pipelines), NEW p \in Pipe
        PROVE  p \in Behind' => p \in Behind
    <3>1. Len(Pipelines) \in Nat
      BY ConfigTypes
    <3>2. p < pipe /\ ~(p < 1)
      BY <1>0, <2>3, <3>1 DEF Pipe
    <3>3. Pipelines[p].level < curLevel + 1 => Pipelines[p].level <= curLevel
      BY <1>0
    <3>4. QED
      BY <1>0, <2>1, <3>2, <3>3
  <2>4. curLevel' >= 2
    BY <1>0, <2>1
  <2> HIDE DEF Behind
  <2>5. QED
    BY <2>1, <2>2, <2>3, <2>4
<1>5. CASE Interrupt
  BY <1>5 DEF Interrupt, levels, iterators, outcome
<1>6. CASE \/ Start \/ NullEvent \/ LeaveLoop \/ RequestEvent \/ NoEntry \/ BeginEvent
           \/ LeaveGlobalNodes \/ GlobalProducer \/ StartPipeline \/ SkipPipeline
           \/ NextEvent \/ LeaveLocalNodes \/ LocalProducer \/ RunConsumers
           \/ \E passed \in BOOLEAN : GlobalFilter(passed) \/ LocalFilter(passed)
           \/ FinishPipeline \/ ProviderStep
  <2>1. pc' # "levels"
    BY <1>6 DEF Start, NullEvent, LeaveLoop, RequestEvent, NoEntry, BeginEvent,
       LeaveGlobalNodes, GlobalProducer, AtGlobalNode, StartPipeline, SkipPipeline, NextEvent,
       LeaveLocalNodes, LocalProducer, AtLocalNode, RunConsumers, GlobalFilter, LocalFilter,
       FinishPipeline, ProviderStep, runnerVars
  <2>2. QED
    BY <2>1
<1>7. QED
  BY <1>1, <1>2, <1>3, <1>4, <1>5, <1>6 DEF Next, Runner

\* Both hold in every reachable state: no pipeline is finished twice or before the
\* event loop is over, none of a higher level runs before those of lower levels.
THEOREM OrderlyEnd == Spec => []EndsInOrder
<1>1. Init => EndsInOrder
  BY DEF Init, EndsInOrder, FinishedOnce, LevelByLevel
<1>2. Basis /\ EndsInOrder /\ [Next]_vars => EndsInOrder'
  <2>1. FinishedOnce /\ LevelByLevel /\ UNCHANGED vars => (FinishedOnce /\ LevelByLevel)'
    BY DEF FinishedOnce, LevelByLevel, Behind, vars, runnerVars, signal, iterators, levels,
       outcome
  <2>2. QED
    BY <2>1, FinishedOnceKept, LevelByLevelKept DEF EndsInOrder
<1>3. QED
  BY <1>1, <1>2, BasisHolds, PTL DEF Spec

-----------------------------------------------------------------------------
(* The runner implements the abstract event loop.                          *)

Inv == Basis /\ Lockstep /\ FinishedOnce /\ LevelByLevel

\* The pipelines of level one are the same seen from both sides.
LEMMA SameLevels == /\ EL!LevelOne = LevelOne
                    /\ \A p \in Pipe : LevelOf[p] = Pipelines[p].level
BY DEF EL!LevelOne, LevelOne, LevelOf

\* All events delivered so far are before the one at work.
LEMMA DeliveredBefore ==
  ASSUME Inv, ~InEvent
  PROVE  \A p \in Pipe : \A i \in DOMAIN processed[p] : processed[p][i].entry < iEvent
<1> SUFFICES ASSUME NEW p \in Pipe, NEW i \in DOMAIN processed[p]
             PROVE  processed[p][i].entry < iEvent
  OBVIOUS
<1>1. processed[p] \in Seq([entry : Nat, passed : BOOLEAN])
  BY DEF Inv, Basis, Histories
<1>2. i \in 1 .. Len(processed[p])
  BY <1>1
<1>3. processed[p][i].entry = FirstEvent + i - 1
  BY <1>2 DEF Inv, Lockstep
<1>4. Len(processed[p]) = Count(p)
  BY DEF Inv, Lockstep
<1>5. p \in LevelOne /\ Len(processed[p]) = iEvent - FirstEvent
  BY <1>2, <1>4 DEF Count
<1>6. iEvent \in Nat /\ FirstEvent \in Nat
  BY RunnerConstants DEF Inv, Basis, Control
<1>7. QED
  BY <1>2, <1>3, <1>5, <1>6

\* Every step of the runner is a step of the abstract loop, or none.
LEMMA StepImplements == ASSUME Inv, Next PROVE EL!Next \/ UNCHANGED EL!vars
<1> USE DEF Phase, Current, Pending, InEvent, Served
<1>1. CASE BeginEvent
  <2>1. /\ pc = "get" /\ pc' = "global" /\ UNCHANGED <<iEvent, processed, outcome>>
    BY <1>1 DEF BeginEvent, event_no
  <2>2. Current = -1 /\ Current' = iEvent /\ iEvent \in Nat /\ Pending' = LevelOne
    BY <2>1 DEF Inv, Basis, Control
  <2>3. EL!Take
    BY <2>1, <2>2, DeliveredBefore, SameLevels DEF EL!Take, outcome
  <2>4. QED
    BY <2>3 DEF EL!Next
<1>2. CASE RunConsumers
  <2> DEFINE verdict == HasPassed(localResult)
  <2>1. /\ pc = "consumers" /\ pc' = "pipelines" /\ pipe' = pipe + 1
        /\ processed' = [processed EXCEPT ![pipe] =
                           Append(@, [entry |-> iEvent, passed |-> verdict])]
        /\ UNCHANGED <<iEvent, finished, ran>>
    BY <1>2 DEF RunConsumers, Process, event_no, outcome
  <2>2. pipe \in LevelOne /\ pipe \in Pipe /\ iEvent \in Nat
    BY <2>1 DEF Inv, Basis, AtWork, Control, LevelOne
  <2>3. verdict \in BOOLEAN
    BY SoundOperations DEF Inv, Basis, ResultsSound
  <2>4. \A q \in LevelOne : q < pipe + 1 <=> q < pipe \/ q = pipe
    BY <2>2 DEF LevelOne, Pipe
  <2>5. Current = iEvent /\ Current' = iEvent /\ Current # -1
    BY <2>1, <2>2
  <2>6. pipe \in Pending /\ Pending' = Pending \ {pipe}
    <3>1. ~(pipe < pipe)
      BY <2>2 DEF Pipe
    <3>2. Pending = {q \in LevelOne : ~(q < pipe)}
      BY <2>1
    <3>3. Pending' = {q \in LevelOne : ~(q < pipe + 1)}
      BY <2>1
    <3>4. QED
      BY <2>2, <2>4, <3>1, <3>2, <3>3
  <2>7. \A q \in Pending : pipe <= q
    BY <2>1, <2>2 DEF LevelOne, Pipe
  <2>8. Phase' = Phase
    BY <2>1
  <2> HIDE DEF verdict
  <2>9. ASSUME NEW p \in Pipe, p = pipe
        PROVE  EL!Deliver(p)
    BY <2>1, <2>3, <2>5, <2>6, <2>7, <2>8, <2>9 DEF EL!Deliver
  <2>10. QED
    BY <2>2, <2>9 DEF EL!Next
<1>3. CASE NextEvent
  <2>1. /\ pc = "pipelines" /\ pc' = "loop" /\ pipe > Len(Pipelines)
        /\ UNCHANGED <<processed, finished, ran>>
    BY <1>3 DEF NextEvent, seen, outcome
  <2>2. Pending = {} /\ Pending' = {}
    BY <2>1, AllServed DEF Inv
  <2>3. Current # -1 /\ Current' = -1 /\ Phase' = Phase
    BY <2>1 DEF Inv, Basis, Control
  <2>4. EL!Release
    BY <2>1, <2>2, <2>3 DEF EL!Release
  <2>5. QED
    BY <2>4 DEF EL!Next
<1>4. CASE LeaveLoop \/ NoEntry \/ NullEvent
  <2>1. /\ pc \in {"null", "loop", "get"} /\ pc' \in {"fatal", "finish"}
        /\ UNCHANGED <<processed, finished, ran>>
    BY <1>4 DEF LeaveLoop, NoEntry, NullEvent, seen, outcome
  <2>2. Current = -1 /\ UNCHANGED <<Current, Pending>>
    BY <2>1
  <2>3. CASE pc' = "finish"
    <3>1. EL!Stop
      BY <2>1, <2>2, <2>3 DEF EL!Stop
    <3>2. QED
      BY <3>1 DEF EL!Next
  <2>4. CASE pc' = "fatal"
    BY <2>1, <2>2, <2>4 DEF EL!vars
  <2>5. QED
    BY <2>1, <2>3, <2>4
<1>5. CASE FinishPipeline
  <2>1. /\ pc = "finish" /\ pc' = "finish" /\ pipe \in LevelOne /\ pipe \in Pipe
        /\ finished' = [finished EXCEPT ![pipe] = @ + 1] /\ UNCHANGED <<processed, ran>>
    BY <1>5 DEF FinishPipeline, seen, LevelOne
  <2>2. finished[pipe] = 0
    <3>1. ~(pipe < pipe)
      BY <2>1 DEF Pipe
    <3>2. QED
      BY <2>1, <3>1 DEF Inv, FinishedOnce
  <2>3. finished' = [finished EXCEPT ![pipe] = 1]
    BY <2>1, <2>2 DEF Inv, Basis, Histories
  <2>4. EL!Finish(pipe)
    BY <2>1, <2>2, <2>3, SameLevels DEF EL!Finish
  <2>5. QED
    BY <2>1, <2>4 DEF EL!Next
<1>6. CASE ResetSignal
  <2>1. /\ pc = "finish" /\ pc' = "levels" /\ pipe > Len(Pipelines)
        /\ UNCHANGED <<processed, finished, ran>>
    BY <1>6 DEF ResetSignal, seen, outcome
  <2>2. \A p \in LevelOne : finished[p] = 1
    <3>1. \A p \in LevelOne : p < pipe /\ p \in Pipe
      BY <2>1, ConfigTypes DEF LevelOne, Pipe, Inv, Basis, Control
    <3>2. QED
      BY <2>1, <3>1 DEF Inv, FinishedOnce
  <2>3. EL!Proceed
    BY <2>1, <2>2, SameLevels DEF EL!Proceed
  <2>4. QED
    BY <2>3 DEF EL!Next
<1>7. CASE RunHigherPipeline
  <2>1. /\ pc = "levels" /\ pc' = "levels" /\ ~sigint /\ pipe \in Pipe
        /\ Pipelines[pipe].level = curLevel
        /\ ran' = [ran EXCEPT ![pipe] = @ + 1]
        /\ finished' = [finished EXCEPT ![pipe] = @ + 1] /\ UNCHANGED processed
    BY <1>7 DEF RunHigherPipeline, AtHigherPipeline, Due, seen
  <2>2. /\ curLevel >= 2 /\ curLevel \in Nat /\ pipe \in Nat
        /\ \A q \in Pipe : Pipelines[q].level \in Nat
    BY <2>1, ConfigTypes DEF Inv, LevelByLevel, Basis, Control
  <2>3. pipe \notin Behind /\ pipe \notin LevelOne
    BY <2>1, <2>2 DEF Behind, LevelOne
  <2>4. ran[pipe] = 0 /\ finished[pipe] = 0
    BY <2>1, <2>3 DEF Inv, LevelByLevel, FinishedOnce
  <2>5. /\ ran' = [ran EXCEPT ![pipe] = 1]
        /\ finished' = [finished EXCEPT ![pipe] = 1]
    BY <2>1, <2>4 DEF Inv, Basis, Histories
  <2>6. \A q \in Pipe : 1 < LevelOf[q] /\ LevelOf[q] < LevelOf[pipe] => ran[q] = 1
    <3>1. \A q \in Pipe : 1 < Pipelines[q].level /\ Pipelines[q].level < curLevel
                           => q \in Behind
      BY <2>2 DEF Behind
    <3>2. QED
      BY <2>1, <3>1, SameLevels DEF Inv, LevelByLevel
  <2>7. LevelOf[pipe] > 1
    BY <2>1, <2>2, SameLevels
  <2>8. EL!RunLater(pipe)
    BY <2>1, <2>4, <2>5, <2>6, <2>7 DEF EL!RunLater
  <2>9. QED
    BY <2>1, <2>8 DEF EL!Next
<1>8. CASE EndLevel
  <2>1. /\ pc = "levels" /\ pc' \in {"levels", "done"}
        /\ UNCHANGED <<processed, finished, ran>>
    BY <1>8 DEF EndLevel, seen, outcome
  <2>2. CASE pc' = "done"
    <3>1. EL!End
      BY <2>1, <2>2 DEF EL!End
    <3>2. QED
      BY <3>1 DEF EL!Next
  <2>3. CASE pc' = "levels"
    BY <2>1, <2>3 DEF EL!vars
  <2>4. QED
    BY <2>1, <2>2, <2>3
<1>9. CASE LeaveGlobalNodes \/ SkipPipeline
  <2>1. LeaveGlobalNodes => \A p \in LevelOne : ~(p < 1)
    BY DEF LevelOne, Pipe
  <2>2. SkipPipeline => \A p \in LevelOne : p < pipe + 1 <=> p < pipe
    BY DEF SkipPipeline, LevelOne, Pipe
  <2>3. Phase' = Phase /\ UNCHANGED <<iEvent, processed, finished, ran>>
    BY <1>9 DEF LeaveGlobalNodes, SkipPipeline, event_no, seen, outcome
  <2>4. InEvent' = InEvent
    BY <1>9 DEF LeaveGlobalNodes, SkipPipeline
  <2>5. Served' = Served
    BY <1>9, <2>1, <2>2 DEF LeaveGlobalNodes, SkipPipeline
  <2> HIDE DEF Served, InEvent
  <2>6. QED
    BY <2>3, <2>4, <2>5 DEF EL!vars
<1>10. CASE \/ Start \/ RequestEvent \/ GlobalProducer \/ StartPipeline \/ LeaveLocalNodes
            \/ LocalProducer \/ \E passed \in BOOLEAN : GlobalFilter(passed) \/ LocalFilter(passed)
            \/ SkipHigherPipeline \/ ProviderStep \/ Interrupt
  <2>1. /\ Phase' = Phase /\ InEvent' = InEvent /\ (pc = "global")' = (pc = "global")
        /\ UNCHANGED <<iEvent, processed, finished, ran>>
    BY <1>10 DEF Start, RequestEvent, GlobalProducer, AtGlobalNode, StartPipeline,
       LeaveLocalNodes, LocalProducer, AtLocalNode, GlobalFilter, LocalFilter,
       SkipHigherPipeline, AtHigherPipeline, ProviderStep, runnerVars, Interrupt,
       event_no, seen, outcome
  <2>2. InEvent => pipe' = pipe
    BY <1>10 DEF Start, RequestEvent, GlobalProducer, AtGlobalNode, StartPipeline,
       LeaveLocalNodes, LocalProducer, AtLocalNode, GlobalFilter, LocalFilter,
       SkipHigherPipeline, AtHigherPipeline, ProviderStep, runnerVars, Interrupt, iterators
  <2>3. Current' = Current /\ Pending' = Pending
    BY <2>1, <2>2
  <2>4. QED
    BY <2>1, <2>3 DEF EL!vars
<1>11. QED
  BY <1>1, <1>2, <1>3, <1>4, <1>5, <1>6, <1>7, <1>8, <1>9, <1>10 DEF Next, Runner

\* The event loop does nothing that module EventLoop does not allow.
THEOREM Implements == Spec => ImplementsEventLoop
<1>1. Init => EL!Init
  BY DEF Init, EL!Init, Phase, Current, Pending, InEvent
<1>2. Inv /\ [Next]_vars => [EL!Next]_EL!vars
  <2>1. UNCHANGED vars => UNCHANGED EL!vars
    BY DEF vars, runnerVars, event_no, iterators, seen, outcome, EL!vars, Phase, Current,
       Pending, InEvent, Served
  <2>2. QED
    BY <2>1, StepImplements
<1>3. Spec => []Inv
  BY BasisHolds, LockstepHolds, OrderlyEnd, PTL DEF Inv, EndsInOrder
<1>4. QED
  BY <1>1, <1>2, <1>3, PTL DEF Spec, ImplementsEventLoop, EL!Spec

-----------------------------------------------------------------------------
(* Ctrl-C.                                                                 *)

\* The event at work when the flag was set is the last one.
SignalBound ==
  sigint => /\ sigintAt \in Nat
            /\ iEvent <= sigintAt + 1
            /\ pc = "get" \/ InEvent => iEvent <= sigintAt

\* Every step keeps it: no event is requested once the flag is seen.
LEMMA SignalBoundKept == ASSUME Basis, SignalBound, Next PROVE SignalBound'
<1> USE DEF Basis, Control, SignalBound, InEvent
<1>1. CASE Interrupt
  BY <1>1 DEF Interrupt, event_no
<1>2. CASE NextEvent
  BY <1>2 DEF NextEvent, signal
<1>3. CASE ResetSignal
  BY <1>3 DEF ResetSignal
<1>4. CASE RequestEvent
  BY <1>4 DEF RequestEvent, GoOn, signal
<1>5. CASE \/ Start \/ NullEvent \/ LeaveLoop \/ NoEntry \/ FinishPipeline
           \/ RunHigherPipeline \/ SkipHigherPipeline \/ EndLevel
  <2>1. /\ pc' \notin {"get", "global", "pipelines", "local", "consumers"}
        /\ UNCHANGED <<sigint, sigintAt, iEvent>>
    BY <1>5 DEF Start, NullEvent, LeaveLoop, NoEntry, FinishPipeline, RunHigherPipeline,
       SkipHigherPipeline, AtHigherPipeline, EndLevel, signal, event_no
  <2>2. QED
    BY <2>1
<1>6. CASE \/ BeginEvent \/ LeaveGlobalNodes \/ GlobalProducer \/ StartPipeline
           \/ LeaveLocalNodes \/ LocalProducer \/ RunConsumers \/ ProviderStep
           \/ \E passed \in BOOLEAN : GlobalFilter(passed) \/ LocalFilter(passed)
  <2>1. /\ pc \in {"get", "global", "pipelines", "local", "consumers"}
        /\ UNCHANGED <<sigint, sigintAt, iEvent>>
    BY <1>6 DEF BeginEvent, LeaveGlobalNodes, GlobalProducer, AtGlobalNode, StartPipeline,
       LeaveLocalNodes, LocalProducer, AtLocalNode, RunConsumers, GlobalFilter, LocalFilter,
       ProviderStep, runnerVars, signal, event_no
  <2>2. QED
    BY <2>1
<1>7. CASE SkipPipeline
  BY <1>7 DEF SkipPipeline, signal, event_no
<1>8. QED
  BY <1>1, <1>2, <1>3, <1>4, <1>5, <1>6, <1>7 DEF Next, Runner

\* After Ctrl-C no event behind the current one reaches a pipeline.
THEOREM StopsCorrect == Spec => []StopsAfterCurrentEvent
<1>1. Init => SignalBound
  BY DEF Init, SignalBound
<1>2. Basis /\ SignalBound /\ [Next]_vars => SignalBound'
  <2>1. SignalBound /\ UNCHANGED vars => SignalBound'
    BY DEF SignalBound, InEvent, vars, runnerVars, signal, event_no
  <2>2. QED
    BY <2>1, SignalBoundKept
<1>3. Inv /\ SignalBound => StopsAfterCurrentEvent
  <2> SUFFICES ASSUME Inv, SignalBound, sigint, NEW p \in Pipe, NEW k \in DOMAIN processed[p]
               PROVE  processed[p][k].entry <= sigintAt
    BY DEF StopsAfterCurrentEvent
  <2>1. processed[p] \in Seq([entry : Nat, passed : BOOLEAN])
    BY DEF Inv, Basis, Histories
  <2>2. k \in 1 .. Len(processed[p])
    BY <2>1
  <2>3. processed[p][k].entry = FirstEvent + k - 1 /\ Len(processed[p]) = Count(p)
    BY <2>2 DEF Inv, Lockstep
  <2>4. iEvent \in Nat /\ FirstEvent \in Nat /\ sigintAt \in Nat /\ iEvent <= sigintAt + 1
    BY RunnerConstants DEF Inv, Basis, Control, SignalBound
  <2>5. CASE InEvent
    <3>1. iEvent <= sigintAt
      BY <2>5 DEF SignalBound
    <3>2. Count(p) \in {0, iEvent - FirstEvent, iEvent - FirstEvent + 1}
      BY DEF Count
    <3>3. QED
      BY <2>2, <2>3, <2>4, <3>1, <3>2
  <2>6. CASE ~InEvent
    <3>1. Count(p) \in {0, iEvent - FirstEvent}
      BY <2>6 DEF Count
    <3>2. QED
      BY <2>2, <2>3, <2>4, <3>1
  <2>7. QED
    BY <2>5, <2>6
<1>4. Spec => []Inv
  BY BasisHolds, LockstepHolds, OrderlyEnd, PTL DEF Inv, EndsInOrder
<1>5. QED
  BY <1>1, <1>2, <1>3, <1>4, BasisHolds, PTL DEF Spec

-----------------------------------------------------------------------------
(***************************************************************************)
(* The verdicts.  The heart of the matter is that the list of decisions    *)
(* and the vetoes given tell the same story.  They do because a chain goes *)
(* on only while nothing rejects the event: a decision is never recorded   *)
(* on top of a veto that counts, so no later "yes" of the same filter can  *)
(* undo it.                                                                *)
(***************************************************************************)

(* The invariant about the verdicts.                                       *)

\* The filters that said no to this event in the global chain, or in the global
\* chain or that of the pipeline at work, tagging filters aside.
GlobalNo(n) == <<0, n>> \in vetoes /\ n \notin GlobalTagging
LocalNo(n) == (<<0, n>> \in vetoes \/ <<pipe, n>> \in vetoes) /\ ~Tagger(pipe, n)

\* The listed filters of r that are not in the set T are no taggers, the others are.
Modes(r, T) ==
  \A n \in Listed(r) : r.filterDecisions[n].taggingMode = IF n \in T THEN "Tagging" ELSE "Filtering"

\* The names of the global filters that can be listed before global node k runs.
NamesBefore(k) ==
  Range(GlobalFilters) \cup {GlobalNodes[i].id : i \in {j \in DOMAIN GlobalNodes :
                                     j < k /\ GlobalNodes[j].kind = "Filter"}}

\* The global filter result lists the global filters with their modes, and rejects
\* the event for those that said no.
GlobalSeen ==
  InEvent =>
    /\ globalResult.taggingFilters = GlobalTagging
    /\ Modes(globalResult, GlobalTagging)
    /\ Listed(globalResult) \subseteq GlobalNames
    /\ \A n \in FilterName : n \in Rejecting(globalResult) <=> GlobalNo(n)
    /\ \A n \in FilterName : <<0, n>> \in vetoes => n \in GlobalNames
    /\ pc = "global" => NamesBefore(node) \subseteq Listed(globalResult)
    /\ pc # "global" /\ Rejecting(globalResult) = {} => GlobalNames \subseteq Listed(globalResult)

\* Vetoes come from the global chain and the pipelines that had their turn.
Owners ==
  InEvent =>
    \A o \in 1 .. Len(Pipelines), n \in FilterName :
      <<o, n>> \in vetoes =>
        pc # "global" /\ (o < pipe \/ (pc \in {"local", "consumers"} /\ o = pipe))

Taggers(p) == {n \in FilterName : Tagger(p, n)}

\* The local filter result rejects the event for the vetoes in the pipeline's way,
\* and as long as the global filters let the event pass its modes are the right ones.
LocalSeen ==
  pc \in {"local", "consumers"} =>
    /\ \A n \in FilterName : n \in Rejecting(localResult) <=> LocalNo(n)
    /\ Rejecting(globalResult) = {} =>
         /\ localResult.taggingFilters = GlobalTagging \cup Pipelines[pipe].tagging
         /\ GlobalNames \subseteq Listed(localResult)
         /\ Modes(localResult, Taggers(pipe))

VerdictInv == GlobalSeen /\ Owners /\ LocalSeen /\ NoWorkAfterVeto

-----------------------------------------------------------------------------
\* The record of the pipelines' verdicts lists every pipeline, under its own name.
PreviousInv ==
  /\ pc \notin {"start", "fatal"} => NamesUnique
  /\ pc \in {"pipelines", "local", "consumers"} =>
       \A p \in Pipe : PipelineNames[p] \in Listed(pipelineResult)
  /\ PreviousResultsSeen

-----------------------------------------------------------------------------
\* Some global producer runs in every event: before it there are only producers and
\* filters that are taggers.
AlwaysRuns(k) ==
  /\ k \in DOMAIN GlobalNodes /\ GlobalNodes[k].kind = "Producer"
  /\ \A j \in 1 .. k - 1 :
       GlobalNodes[j].kind = "Filter" => GlobalNodes[j].id \in GlobalTagging

ProducerInEveryEvent == \E k \in DOMAIN GlobalNodes : AlwaysRuns(k)

\* The product has the provider's flags as soon as that producer has run, and nothing
\* keeps it from running.
FlagsPassedOn(k) ==
  /\ pc = "global" /\ node <= k => \A v \in vetoes : v[2] \in GlobalTagging
  /\ (pc = "global" /\ node > k) \/ pc \in {"pipelines", "local", "consumers"} =>
       productFlags = ProviderFlags

\* What was announced to p's consumers last is what the provider remembers.
Told(p) == informed[<<p, 0>>]

\* The consumers know what the flags do not announce.
Announceable(p) ==
  /\ ~newRun => Told(p).run = event.run
  /\ ~newLumisection => Told(p).lumi = event.lumi

InformedInv ==
  /\ pc # "get" => stage = "idle"
  /\ pc \in {"start", "null", "loop"} \/ (pc = "get" /\ stage \in {"reading", "bookkeeping"}) =>
       \A p \in LevelOne : Told(p) = [run |-> prevRun, lumi |-> prevLumi]
  /\ pc = "get" /\ stage = "readingMeta" =>
       /\ prevRun = event.run /\ prevLumi = event.lumi
       /\ \A p \in LevelOne : ~newRun => Told(p).run = event.run
  /\ InEvent \/ (pc = "get" /\ stage = "idle" /\ result) =>
       /\ prevRun = event.run /\ prevLumi = event.lumi
       /\ \A p \in LevelOne :
            IF InEvent /\ p \in Served THEN Told(p) = [run |-> event.run, lumi |-> event.lumi]
                                       ELSE Announceable(p)

-----------------------------------------------------------------------------
(* What the operations on a filter result do to its modes and rejections.  *)

\* Asking leaves both alone, and so does leaving a chain.
LEMMA AskedTheSame ==
  ASSUME NEW r, Sound(r), NEW s, s = AfterHasPassed(r) \/ s = r
  PROVE  /\ Listed(s) = Listed(r) /\ Rejecting(s) = Rejecting(r)
         /\ s.taggingFilters = r.taggingFilters
         /\ \A T : Modes(r, T) => Modes(s, T)
<1>1. s.filterDecisions = r.filterDecisions /\ s.taggingFilters = r.taggingFilters
  BY AskPreserves DEF Sound
<1>2. QED
  BY <1>1 DEF Listed, Rejecting, Modes

\* A sound result passes the event iff it rejects it for nothing.
LEMMA PassesIffNoRejection ==
  ASSUME NEW r, Sound(r)
  PROVE  HasPassed(r) <=> Rejecting(r) = {}
BY HasPassedIsTheListsAnswer DEF Sound

\* A decision on a result that rejects nothing yet: the result rejects the event
\* afterwards iff the decision is a no and the filter is no tagger.
LEMMA DecisionOnPassing ==
  ASSUME NEW r, Sound(r), Rejecting(r) = {}, NEW T, Modes(r, T),
         NEW n \in FilterName, NEW passed \in BOOLEAN,
         n \in Listed(r) \/ (n \in T <=> n \in r.taggingFilters)
  PROVE  LET s == SetFilterDecision(AfterHasPassed(r), n, passed)
         IN  /\ Listed(s) = Listed(r) \cup {n}
             /\ s.taggingFilters = r.taggingFilters
             /\ Modes(s, T)
             /\ \A m : m \in Rejecting(s) <=> m = n /\ ~passed /\ n \notin T
<1> DEFINE q == AfterHasPassed(r)
           s == SetFilterDecision(q, n, passed)
<1>1. /\ Listed(q) = Listed(r) /\ Rejecting(q) = {}
      /\ q.taggingFilters = r.taggingFilters /\ Modes(q, T)
  BY AskedTheSame
<1>2. Sound(q)
  BY SoundOperations
<1> HIDE DEF q
<1>3. /\ Listed(s) = Listed(q) \cup {n}
      /\ s.taggingFilters = q.taggingFilters
      /\ \A m \in Listed(q) \ {n} : s.filterDecisions[m] = q.filterDecisions[m]
      /\ s.filterDecisions[n].filterDecision = IF passed THEN "Passed" ELSE "NotPassed"
      /\ n \notin Listed(q) => s.filterDecisions[n].taggingMode = IsTaggingFilter(q, n)
      /\ n \in Listed(q) => s.filterDecisions[n].taggingMode = q.filterDecisions[n].taggingMode
  BY <1>2, SetDecisionPreserves DEF Sound
<1>4. s.filterDecisions[n].taggingMode = IF n \in T THEN "Tagging" ELSE "Filtering"
  BY <1>1, <1>3 DEF Modes, IsTaggingFilter
<1> HIDE DEF s
<1>5. Modes(s, T)
  BY <1>1, <1>3, <1>4 DEF Modes
<1>6. \A m : m # n => m \notin Rejecting(s)
  BY <1>1, <1>3 DEF Rejecting
<1>7. n \in Rejecting(s) <=> ~passed /\ n \notin T
  BY <1>3, <1>4 DEF Rejecting
<1>8. QED
  BY <1>1, <1>3, <1>5, <1>6, <1>7 DEF s, q

-----------------------------------------------------------------------------
(* What the invariant says of the vetoes.                                  *)

\* A veto is a pair of the pipeline, or 0, and the filter.
LEMMA VetoShape ==
  ASSUME Basis, NEW v \in vetoes
  PROVE  v[1] \in 0 .. Len(Pipelines) /\ v[2] \in FilterName /\ v = <<v[1], v[2]>>
BY DEF Basis, Histories

\* As long as the global filters pass the event only taggers have said no.
LEMMA GlobalPassing ==
  ASSUME Basis, GlobalSeen, Owners, pc = "global", Rejecting(globalResult) = {}
  PROVE  \A v \in vetoes : v[1] = 0 /\ v[2] \in GlobalTagging
<1> SUFFICES ASSUME NEW v \in vetoes
             PROVE  v[1] = 0 /\ v[2] \in GlobalTagging
  OBVIOUS
<1>1. v[1] \in 0 .. Len(Pipelines) /\ v[2] \in FilterName /\ v = <<v[1], v[2]>>
  BY VetoShape
<1>2. v[1] = 0
  <2>1. pc = "global" => \A o \in 1 .. Len(Pipelines), n \in FilterName : <<o, n>> \notin vetoes
    BY DEF Owners, InEvent
  <2>2. v[1] \notin 1 .. Len(Pipelines)
    BY <1>1, <2>1
  <2>3. QED
    BY <1>1, <2>2, ConfigTypes
<1>3. v[2] \notin Rejecting(globalResult) /\ <<0, v[2]>> \in vetoes
  BY <1>1, <1>2
<1>4. QED
  BY <1>1, <1>2, <1>3 DEF GlobalSeen, GlobalNo, InEvent

\* The local result rejects the event iff some veto counts for the pipeline.
LEMMA LocalRejections ==
  ASSUME Basis, LocalSeen, pc \in {"local", "consumers"}
  PROVE  Rejecting(localResult) = {} <=> ~ \E v \in vetoes : Counts(v, pipe)
<1>1. ASSUME NEW v \in vetoes, Counts(v, pipe)
      PROVE  v[2] \in Rejecting(localResult)
  <2>1. v[2] \in FilterName /\ v = <<v[1], v[2]>>
    BY VetoShape
  <2>2. (v[1] = 0 \/ v[1] = pipe) /\ ~Tagger(pipe, v[2])
    BY <1>1 DEF Counts
  <2>3. LocalNo(v[2])
    BY <2>1, <2>2 DEF LocalNo
  <2>4. QED
    BY <2>1, <2>3 DEF LocalSeen
<1>2. ASSUME NEW n \in Rejecting(localResult)
      PROVE  \E v \in vetoes : Counts(v, pipe)
  <2>1. n \in FilterName
    BY FieldTypes DEF Basis, ResultsSound, Sound, Rejecting
  <2>2. PICK o \in {0, pipe} : <<o, n>> \in vetoes /\ ~Tagger(pipe, n)
    BY <2>1 DEF LocalSeen, LocalNo
  <2>3. Counts(<<o, n>>, pipe)
    BY <2>2 DEF Counts
  <2>4. QED
    BY <2>2, <2>3
<1>3. QED
  BY <1>1, <1>2

\* The names of the global filters are known when all global nodes were passed.
LEMMA NamesOfNodes ==
  /\ GlobalNames \subseteq FilterName
  /\ \A k \in Nat : NamesBefore(k) \subseteq GlobalNames
  /\ \A k \in Nat : k > Len(GlobalNodes) => NamesBefore(k) = GlobalNames
  /\ NamesBefore(1) = Range(GlobalFilters)
  /\ \A k \in 1 .. Len(GlobalNodes) :
       NamesBefore(k + 1) = NamesBefore(k) \cup
         (IF GlobalNodes[k].kind = "Filter" THEN {GlobalNodes[k].id} ELSE {})
<1>1. DOMAIN GlobalNodes = 1 .. Len(GlobalNodes) /\ Len(GlobalNodes) \in Nat
  BY RunnerConstants
<1>2. Range(GlobalFilters) \subseteq FilterName
  BY RunnerConstants DEF Range
<1>3. GlobalNames \subseteq FilterName
  BY <1>1, <1>2, ConfigTypes DEF GlobalNames
<1>4. \A k \in Nat : NamesBefore(k) \subseteq GlobalNames
  BY DEF NamesBefore, GlobalNames
<1>5. ASSUME NEW k \in Nat, k > Len(GlobalNodes)
      PROVE  NamesBefore(k) = GlobalNames
  <2>1. \A j \in DOMAIN GlobalNodes : j < k
    BY <1>1, <1>5
  <2>2. QED
    BY <2>1 DEF NamesBefore, GlobalNames
<1>6. NamesBefore(1) = Range(GlobalFilters)
  BY <1>1 DEF NamesBefore
<1>7. ASSUME NEW k \in 1 .. Len(GlobalNodes)
      PROVE  NamesBefore(k + 1) = NamesBefore(k) \cup
               (IF GlobalNodes[k].kind = "Filter" THEN {GlobalNodes[k].id} ELSE {})
  <2>1. \A j \in DOMAIN GlobalNodes : j < k + 1 <=> j < k \/ j = k
    BY <1>1, <1>7
  <2>2. k \in DOMAIN GlobalNodes
    BY <1>1
  <2>3. QED
    BY <2>1, <2>2 DEF NamesBefore
<1>8. QED
  BY <1>3, <1>4, <1>5, <1>6, <1>7

-----------------------------------------------------------------------------
(* Every step keeps the invariant about the verdicts.                      *)

\* The new filter result lists the global filters, and nobody has said no.
LEMMA BeginVerdicts == ASSUME Basis, VerdictInv, BeginEvent PROVE VerdictInv'
<1>1. pc' = "global" /\ node' = 1 /\ vetoes' = {}
  BY DEF BeginEvent
<1>2. /\ globalResult'.taggingFilters = GlobalTagging
      /\ Listed(globalResult') = Range(GlobalFilters)
      /\ Rejecting(globalResult') = {}
      /\ Modes(globalResult', GlobalTagging)
  <2>1. globalResult' = NewFilterResult(GlobalFilters, GlobalTagging)
    BY DEF BeginEvent
  <2>2. QED
    BY <2>1, ConfigTypes, NewPreserves DEF Modes, IsTaggingFilter
<1>3. NamesBefore(node') \subseteq Range(GlobalFilters) /\ Range(GlobalFilters) \subseteq GlobalNames
  BY <1>1, NamesOfNodes DEF GlobalNames
<1>4. GlobalSeen'
  BY <1>1, <1>2, <1>3 DEF GlobalSeen, GlobalNo, InEvent
<1>5. Owners' /\ LocalSeen' /\ NoWorkAfterVeto'
  BY <1>1 DEF Owners, LocalSeen, NoWorkAfterVeto
<1>6. QED
  BY <1>4, <1>5 DEF VerdictInv

\* A node of the global chain runs only as long as nothing rejects the event.
LEMMA GlobalNodeRuns ==
  ASSUME Basis, VerdictInv, NEW kind, AtGlobalNode(kind)
  PROVE  /\ Rejecting(globalResult) = {} /\ Sound(globalResult)
         /\ node \in 1 .. Len(GlobalNodes) /\ GlobalNodes[node].id \in FilterName
         /\ \A v \in vetoes : v[1] = 0 /\ v[2] \in GlobalTagging
<1>1. pc = "global" /\ node <= Len(GlobalNodes) /\ HasPassed(globalResult)
  BY ConfigTypes DEF AtGlobalNode, ChainEnds, Basis, Control
<1>2. Sound(globalResult) /\ Rejecting(globalResult) = {}
  BY <1>1, PassesIffNoRejection DEF Basis, ResultsSound
<1>3. node \in 1 .. Len(GlobalNodes)
  BY <1>1, ConfigTypes DEF Basis, Control
<1>4. QED
  BY <1>1, <1>2, <1>3, GlobalPassing, ConfigTypes DEF VerdictInv

\* A global producer adds no name and no decision.
LEMMA GlobalProducerVerdicts == ASSUME Basis, VerdictInv, GlobalProducer PROVE VerdictInv'
<1>1. /\ pc = "global" /\ pc' = "global" /\ node' = node + 1 /\ vetoes' = vetoes
      /\ globalResult' = AfterHasPassed(globalResult) /\ GlobalNodes[node].kind = "Producer"
  BY DEF GlobalProducer, AtGlobalNode
<1>2. /\ Rejecting(globalResult) = {} /\ Sound(globalResult)
      /\ node \in 1 .. Len(GlobalNodes)
      /\ \A v \in vetoes : v[1] = 0 /\ v[2] \in GlobalTagging
  BY GlobalNodeRuns DEF GlobalProducer
<1>3. /\ Listed(globalResult') = Listed(globalResult)
      /\ Rejecting(globalResult') = Rejecting(globalResult)
      /\ globalResult'.taggingFilters = globalResult.taggingFilters
      /\ Modes(globalResult, GlobalTagging) => Modes(globalResult', GlobalTagging)
  BY <1>1, <1>2, AskedTheSame
<1>4. NamesBefore(node') = NamesBefore(node)
  BY <1>1, <1>2, NamesOfNodes
<1>5. GlobalSeen'
  BY <1>1, <1>3, <1>4 DEF VerdictInv, GlobalSeen, GlobalNo, InEvent
<1>6. Owners' /\ LocalSeen'
  BY <1>1 DEF VerdictInv, Owners, LocalSeen, InEvent
<1>7. NoWorkAfterVeto'
  BY <1>1, <1>2 DEF NoWorkAfterVeto
<1>8. QED
  BY <1>5, <1>6, <1>7 DEF VerdictInv

\* A global filter's no is the first that counts, and the result rejects the event
\* for it, unless the filter is a tagger.
LEMMA GlobalFilterVerdicts ==
  ASSUME Basis, VerdictInv, NEW passed \in BOOLEAN, GlobalFilter(passed)
  PROVE  VerdictInv'
<1> DEFINE id == GlobalNodes[node].id
<1>1. /\ pc = "global" /\ pc' = "global" /\ node' = node + 1
      /\ vetoes' = IF passed THEN vetoes ELSE vetoes \cup {<<0, id>>}
      /\ globalResult' = SetFilterDecision(AfterHasPassed(globalResult), id, passed)
      /\ GlobalNodes[node].kind = "Filter"
  BY DEF GlobalFilter, AtGlobalNode, NoteVeto
<1>2. /\ Rejecting(globalResult) = {} /\ Sound(globalResult)
      /\ node \in 1 .. Len(GlobalNodes) /\ id \in FilterName
      /\ \A v \in vetoes : v[1] = 0 /\ v[2] \in GlobalTagging
  BY GlobalNodeRuns DEF GlobalFilter
<1>3. NamesBefore(node') = NamesBefore(node) \cup {id}
  BY <1>1, <1>2, NamesOfNodes
<1>4. id \in GlobalNames
  <2>1. node' \in Nat
    BY <1>1, <1>2
  <2>2. QED
    BY <1>3, <2>1, NamesOfNodes
<1> HIDE DEF id
<1>5. /\ globalResult.taggingFilters = GlobalTagging /\ Modes(globalResult, GlobalTagging)
      /\ Listed(globalResult) \subseteq GlobalNames
      /\ NamesBefore(node) \subseteq Listed(globalResult)
      /\ \A n \in FilterName : <<0, n>> \in vetoes => n \in GlobalNames
  BY <1>1 DEF VerdictInv, GlobalSeen, InEvent
<1>6. /\ Listed(globalResult') = Listed(globalResult) \cup {id}
      /\ globalResult'.taggingFilters = globalResult.taggingFilters
      /\ Modes(globalResult', GlobalTagging)
      /\ \A m : m \in Rejecting(globalResult') <=> m = id /\ ~passed /\ id \notin GlobalTagging
  BY <1>1, <1>2, <1>5, DecisionOnPassing
<1>7. \A n \in FilterName : n \in Rejecting(globalResult') <=> GlobalNo(n)'
  <2>1. \A n \in FilterName : <<0, n>> \in vetoes => n \in GlobalTagging
    BY <1>2
  <2>2. \A n : <<0, n>> \in vetoes' <=> <<0, n>> \in vetoes \/ (n = id /\ ~passed)
    BY <1>1
  <2>3. QED
    BY <1>6, <2>1, <2>2 DEF GlobalNo
<1>8. GlobalSeen'
  BY <1>1, <1>3, <1>4, <1>5, <1>6, <1>7 DEF GlobalSeen, InEvent
<1>9. Owners' /\ LocalSeen'
  <2>1. \A o \in 1 .. Len(Pipelines), n \in FilterName : <<o, n>> \notin vetoes'
    BY <1>1, <1>2
  <2>2. QED
    BY <1>1, <2>1 DEF Owners, LocalSeen
<1>10. NoWorkAfterVeto'
  <2>1. node' # 1 /\ node' - 1 = node
    BY <1>1, <1>2
  <2>2. \A v \in vetoes' : v[2] \notin GlobalTagging => v[1] = 0 /\ v[2] = id
    BY <1>1, <1>2
  <2>3. QED
    BY <1>1, <2>1, <2>2 DEF NoWorkAfterVeto, VetoedBefore, id
<1>11. QED
  BY <1>8, <1>9, <1>10 DEF VerdictInv

\* When the global chain is left with the event passed, all its filters are listed.
LEMMA LeaveGlobalVerdicts == ASSUME Basis, VerdictInv, LeaveGlobalNodes PROVE VerdictInv'
<1>1. /\ pc = "global" /\ pc' = "pipelines" /\ vetoes' = vetoes /\ pipe' = 1
      /\ globalResult' = LeftResult(GlobalNodes, globalResult)
      /\ node > Len(GlobalNodes) \/ ~HasPassed(globalResult)
  BY DEF LeaveGlobalNodes, ChainEnds, seen
<1>2. Sound(globalResult)
  BY DEF Basis, ResultsSound
<1>3. /\ Listed(globalResult') = Listed(globalResult)
      /\ Rejecting(globalResult') = Rejecting(globalResult)
      /\ globalResult'.taggingFilters = globalResult.taggingFilters
      /\ Modes(globalResult, GlobalTagging) => Modes(globalResult', GlobalTagging)
  BY <1>1, <1>2, AskedTheSame DEF LeftResult
<1>4. Rejecting(globalResult) = {} => NamesBefore(node) = GlobalNames
  BY <1>1, <1>2, PassesIffNoRejection, NamesOfNodes DEF Basis, Control
<1>5. GlobalSeen'
  BY <1>1, <1>3, <1>4 DEF VerdictInv, GlobalSeen, GlobalNo, InEvent
<1>6. Owners' /\ LocalSeen' /\ NoWorkAfterVeto'
  BY <1>1 DEF VerdictInv, Owners, LocalSeen, NoWorkAfterVeto, InEvent
<1>7. QED
  BY <1>5, <1>6 DEF VerdictInv

\* The local result starts from the global one: the same rejections, and modes that
\* make taggers of the pipeline's tagging filters unless they were global filters.
LEMMA StartVerdicts == ASSUME Basis, VerdictInv, StartPipeline PROVE VerdictInv'
<1>1. /\ pc = "pipelines" /\ pc' = "local" /\ node' = 1 /\ pipe \in LevelOne /\ pipe \in Pipe
      /\ UNCHANGED <<globalResult, vetoes, pipe>>
      /\ localResult' = AddFilterNamesTagging(globalResult, Pipelines[pipe].filters,
                                              Pipelines[pipe].tagging)
  BY DEF StartPipeline, LevelOne, seen
<1>2. /\ globalResult.taggingFilters = GlobalTagging /\ Modes(globalResult, GlobalTagging)
      /\ Listed(globalResult) \subseteq GlobalNames
      /\ \A n \in FilterName : n \in Rejecting(globalResult) <=> GlobalNo(n)
      /\ \A n \in FilterName : <<0, n>> \in vetoes => n \in GlobalNames
      /\ Rejecting(globalResult) = {} => GlobalNames \subseteq Listed(globalResult)
  BY <1>1 DEF VerdictInv, GlobalSeen, InEvent
<1>3. /\ IsFilterResult(localResult')
      /\ Listed(localResult') = Listed(globalResult) \cup Range(Pipelines[pipe].filters)
      /\ \A n \in Listed(globalResult) :
            localResult'.filterDecisions[n] = globalResult.filterDecisions[n]
      /\ localResult'.taggingFilters = GlobalTagging \cup Pipelines[pipe].tagging
      /\ \A n \in Range(Pipelines[pipe].filters) \ Listed(globalResult) :
            localResult'.filterDecisions[n].taggingMode = IsTaggingFilter(localResult', n)
      /\ Rejecting(localResult') = Rejecting(globalResult)
  BY <1>1, <1>2, ConfigTypes, AddNamesTaggingPreserves DEF Basis, ResultsSound, Sound
<1>4. GlobalSeen' /\ Owners'
  BY <1>1 DEF VerdictInv, GlobalSeen, GlobalNo, Owners, InEvent
<1>5. \A n \in FilterName : n \in Rejecting(localResult') <=> LocalNo(n)'
  <2>1. \A n \in FilterName : <<pipe, n>> \notin vetoes
    BY <1>1 DEF VerdictInv, Owners, InEvent, Pipe
  <2>2. \A n \in GlobalNames : Tagger(pipe, n) <=> n \in GlobalTagging
    BY DEF Tagger
  <2>3. QED
    BY <1>1, <1>2, <1>3, <2>1, <2>2 DEF LocalNo, GlobalNo, Tagger
<1>6. Rejecting(globalResult) = {} => Modes(localResult', Taggers(pipe))
  <2> SUFFICES ASSUME Listed(globalResult) = GlobalNames, NEW n \in Listed(localResult')
               PROVE  localResult'.filterDecisions[n].taggingMode
                        = IF n \in Taggers(pipe) THEN "Tagging" ELSE "Filtering"
    BY <1>2 DEF Modes
  <2>1. n \in FilterName
    BY <1>3, FieldTypes
  <2>2. CASE n \in GlobalNames
    BY <1>2, <1>3, <2>1, <2>2 DEF Modes, Taggers, Tagger
  <2>3. CASE n \notin GlobalNames
    BY <1>3, <2>1, <2>3 DEF Taggers, Tagger, IsTaggingFilter
  <2>4. QED
    BY <2>2, <2>3
<1>7. LocalSeen'
  BY <1>1, <1>2, <1>3, <1>5, <1>6 DEF LocalSeen
<1>8. NoWorkAfterVeto'
  BY <1>1 DEF NoWorkAfterVeto
<1>9. QED
  BY <1>4, <1>7, <1>8 DEF VerdictInv

\* A node of a pipeline runs only as long as no veto counts for the pipeline.
LEMMA LocalNodeRuns ==
  ASSUME Basis, VerdictInv, NEW kind, AtLocalNode(kind)
  PROVE  /\ pipe \in Pipe /\ pipe \in LevelOne
         /\ Rejecting(localResult) = {} /\ Rejecting(globalResult) = {} /\ Sound(localResult)
         /\ node \in 1 .. Len(Pipelines[pipe].nodes)
         /\ Pipelines[pipe].nodes[node].id \in FilterName
         /\ \A v \in vetoes : ~Counts(v, pipe)
<1>1. pipe \in LevelOne /\ pipe \in Pipe
  BY DEF AtLocalNode, Basis, AtWork, LevelOne
<1>2. /\ pc = "local" /\ node <= Len(Pipelines[pipe].nodes) /\ HasPassed(localResult)
  BY <1>1, ConfigTypes DEF AtLocalNode, ChainEnds, Basis, Control
<1>3. Sound(localResult) /\ Rejecting(localResult) = {}
  BY <1>2, PassesIffNoRejection DEF Basis, ResultsSound
<1>4. node \in 1 .. Len(Pipelines[pipe].nodes)
  BY <1>1, <1>2, ConfigTypes DEF Basis, Control
<1>5. Rejecting(globalResult) = {}
  <2> SUFFICES ASSUME NEW n \in Rejecting(globalResult) PROVE FALSE
    OBVIOUS
  <2>1. n \in FilterName
    BY FieldTypes DEF Basis, ResultsSound, Sound, Rejecting
  <2>2. <<0, n>> \in vetoes /\ n \notin GlobalTagging /\ n \in GlobalNames
    BY <1>2, <2>1 DEF VerdictInv, GlobalSeen, GlobalNo, InEvent
  <2>3. LocalNo(n)
    BY <2>2 DEF LocalNo, Tagger
  <2>4. QED
    BY <1>2, <1>3, <2>1, <2>3 DEF VerdictInv, LocalSeen
<1>6. \A v \in vetoes : ~Counts(v, pipe)
  BY <1>2, <1>3, LocalRejections DEF VerdictInv
<1>7. QED
  BY <1>1, <1>3, <1>4, <1>5, <1>6, ConfigTypes

\* A local producer adds no decision.
LEMMA LocalProducerVerdicts == ASSUME Basis, VerdictInv, LocalProducer PROVE VerdictInv'
<1>1. /\ pc = "local" /\ pc' = "local"
      /\ UNCHANGED <<vetoes, globalResult, pipe>>
      /\ localResult' = AfterHasPassed(localResult)
  BY DEF LocalProducer, AtLocalNode
<1>2. Sound(localResult) /\ \A v \in vetoes : ~Counts(v, pipe)
  BY LocalNodeRuns DEF LocalProducer
<1>3. /\ Listed(localResult') = Listed(localResult)
      /\ Rejecting(localResult') = Rejecting(localResult)
      /\ localResult'.taggingFilters = localResult.taggingFilters
      /\ Modes(localResult, Taggers(pipe)) => Modes(localResult', Taggers(pipe))
  BY <1>1, <1>2, AskedTheSame
<1>4. GlobalSeen' /\ Owners'
  BY <1>1 DEF VerdictInv, GlobalSeen, GlobalNo, Owners, InEvent
<1>5. LocalSeen'
  BY <1>1, <1>3 DEF VerdictInv, LocalSeen, LocalNo
<1>6. NoWorkAfterVeto'
  BY <1>1, <1>2 DEF NoWorkAfterVeto
<1>7. QED
  BY <1>4, <1>5, <1>6 DEF VerdictInv

\* A local filter's no is the first that counts for its pipeline, unless the filter
\* is a tagger there; the list then rejects the event for it and for nothing else.
LEMMA LocalFilterVerdicts ==
  ASSUME Basis, VerdictInv, NEW passed \in BOOLEAN, LocalFilter(passed)
  PROVE  VerdictInv'
<1> DEFINE id == Pipelines[pipe].nodes[node].id
<1>1. /\ pc = "local" /\ pc' = "local" /\ node' = node + 1
      /\ UNCHANGED <<globalResult, pipe>>
      /\ vetoes' = IF passed THEN vetoes ELSE vetoes \cup {<<pipe, id>>}
      /\ localResult' = SetFilterDecision(AfterHasPassed(localResult), id, passed)
  BY DEF LocalFilter, AtLocalNode, NoteVeto
<1>2. /\ pipe \in Pipe
      /\ Rejecting(localResult) = {} /\ Rejecting(globalResult) = {} /\ Sound(localResult)
      /\ node \in 1 .. Len(Pipelines[pipe].nodes) /\ id \in FilterName
      /\ \A v \in vetoes : ~Counts(v, pipe)
  BY LocalNodeRuns DEF LocalFilter
<1>3. node' # 1 /\ node' - 1 = node /\ Pipelines[pipe].nodes[node'-1].id = id
  BY <1>1, <1>2, ConfigTypes
<1> HIDE DEF id
<1>4. /\ localResult.taggingFilters = GlobalTagging \cup Pipelines[pipe].tagging
      /\ GlobalNames \subseteq Listed(localResult)
      /\ Modes(localResult, Taggers(pipe))
  BY <1>1, <1>2 DEF VerdictInv, LocalSeen
<1>5. id \notin Listed(localResult) =>
        (id \in Taggers(pipe) <=> id \in localResult.taggingFilters)
  BY <1>2, <1>4 DEF Taggers, Tagger
<1>6. /\ Listed(localResult') = Listed(localResult) \cup {id}
      /\ localResult'.taggingFilters = localResult.taggingFilters
      /\ Modes(localResult', Taggers(pipe))
      /\ \A m : m \in Rejecting(localResult') <=> m = id /\ ~passed /\ id \notin Taggers(pipe)
  BY <1>1, <1>2, <1>4, <1>5, DecisionOnPassing
<1>7. \A o, n : <<o, n>> \in vetoes' <=> <<o, n>> \in vetoes \/ (o = pipe /\ n = id /\ ~passed)
  BY <1>1
<1>8. \A n \in FilterName : n \in Rejecting(localResult') <=> LocalNo(n)'
  <2>1. \A n \in FilterName : ~LocalNo(n)
    BY <1>1, <1>2 DEF VerdictInv, LocalSeen
  <2>2. \A n \in FilterName : LocalNo(n)' <=> n = id /\ ~passed /\ ~Tagger(pipe, n)
    BY <1>1, <1>7, <2>1 DEF LocalNo, Tagger
  <2>3. QED
    BY <1>2, <1>6, <2>2 DEF Taggers
<1>9. GlobalSeen' /\ Owners'
  <2>1. pipe # 0
    BY <1>2 DEF Pipe
  <2>2. \A n : <<0, n>> \in vetoes' <=> <<0, n>> \in vetoes
    BY <1>7, <2>1
  <2>3. GlobalSeen'
    BY <1>1, <2>2 DEF VerdictInv, GlobalSeen, GlobalNo, InEvent
  <2>4. Owners'
    BY <1>1, <1>7 DEF VerdictInv, Owners, InEvent
  <2>5. QED
    BY <2>3, <2>4
<1>10. LocalSeen'
  BY <1>1, <1>2, <1>4, <1>6, <1>8 DEF LocalSeen
<1>11. NoWorkAfterVeto'
  <2>1. ASSUME NEW v \in vetoes', Counts(v, pipe)
        PROVE  v[1] = pipe /\ v[2] = id
    BY <1>1, <1>2, <2>1
  <2>2. QED
    BY <1>1, <1>3, <2>1 DEF NoWorkAfterVeto, VetoedBefore, Counts, Tagger
<1>12. QED
  BY <1>9, <1>10, <1>11 DEF VerdictInv

\* What happens between the nodes and the consumers changes no decision.
LEMMA BetweenNodesVerdicts ==
  ASSUME Basis, VerdictInv, LeaveLocalNodes \/ RunConsumers \/ SkipPipeline
  PROVE  VerdictInv'
<1>1. CASE LeaveLocalNodes
  <2>1. /\ pc = "local" /\ pc' = "consumers" /\ UNCHANGED <<vetoes, globalResult, pipe>>
        /\ localResult' = LeftResult(Pipelines[pipe].nodes, localResult)
    BY <1>1 DEF LeaveLocalNodes, iterators, seen
  <2>2. /\ Listed(localResult') = Listed(localResult)
        /\ Rejecting(localResult') = Rejecting(localResult)
        /\ localResult'.taggingFilters = localResult.taggingFilters
        /\ Modes(localResult, Taggers(pipe)) => Modes(localResult', Taggers(pipe))
    BY <2>1, AskedTheSame DEF LeftResult, Basis, ResultsSound
  <2>3. GlobalSeen' /\ Owners'
    BY <2>1 DEF VerdictInv, GlobalSeen, GlobalNo, Owners, InEvent
  <2>4. LocalSeen' /\ NoWorkAfterVeto'
    BY <2>1, <2>2 DEF VerdictInv, LocalSeen, LocalNo, NoWorkAfterVeto
  <2>5. QED
    BY <2>3, <2>4 DEF VerdictInv
<1>2. CASE RunConsumers \/ SkipPipeline
  <2>1. /\ pc \in {"consumers", "pipelines", "finish"}
        /\ pc' = (IF pc = "finish" THEN "finish" ELSE "pipelines")
        /\ pipe' = pipe + 1 /\ UNCHANGED <<vetoes, globalResult>>
    BY <1>2 DEF RunConsumers, SkipPipeline, results, seen
  <2>2. GlobalSeen'
    BY <2>1 DEF VerdictInv, GlobalSeen, GlobalNo, InEvent
  <2>3. Owners'
    BY <2>1 DEF VerdictInv, Owners, InEvent, Basis, Control
  <2>4. LocalSeen' /\ NoWorkAfterVeto'
    BY <2>1 DEF LocalSeen, NoWorkAfterVeto
  <2>5. QED
    BY <2>2, <2>3, <2>4 DEF VerdictInv
<1>3. QED
  BY <1>1, <1>2

\* Outside of an event there is nothing to say.
LEMMA OutsideVerdicts == ASSUME ~InEvent' PROVE VerdictInv'
BY DEF VerdictInv, GlobalSeen, Owners, LocalSeen, NoWorkAfterVeto, InEvent

\* It speaks of the filter results, the iterators and the vetoes only.
LEMMA SameVerdicts ==
  ASSUME VerdictInv, UNCHANGED <<pc, results, iterators, vetoes>> PROVE VerdictInv'
BY DEF results, iterators, VerdictInv, GlobalSeen, GlobalNo, Owners, LocalSeen, LocalNo,
   NoWorkAfterVeto, VetoedBefore, Counts, Tagger, InEvent

\* Every step keeps the invariant.
LEMMA VerdictInvKept == ASSUME Basis, VerdictInv, Next PROVE VerdictInv'
<1>1. CASE \/ Start \/ NullEvent \/ LeaveLoop \/ RequestEvent \/ NoEntry \/ NextEvent
           \/ FinishPipeline \/ ResetSignal \/ RunHigherPipeline \/ SkipHigherPipeline
           \/ EndLevel \/ ProviderStep
  <2>1. ~InEvent'
    BY <1>1 DEF Start, NullEvent, LeaveLoop, RequestEvent, NoEntry, NextEvent,
       FinishPipeline, ResetSignal, RunHigherPipeline, SkipHigherPipeline, AtHigherPipeline,
       EndLevel, ProviderStep, runnerVars, InEvent
  <2>2. QED
    BY <2>1, OutsideVerdicts
<1>2. CASE Interrupt
  BY <1>2, SameVerdicts DEF Interrupt, seen
<1>3. CASE \E passed \in BOOLEAN : GlobalFilter(passed) \/ LocalFilter(passed)
  BY <1>3, GlobalFilterVerdicts, LocalFilterVerdicts
<1>4. CASE BeginEvent \/ LeaveGlobalNodes \/ GlobalProducer
  BY <1>4, BeginVerdicts, GlobalProducerVerdicts, LeaveGlobalVerdicts
<1>5. CASE StartPipeline \/ LocalProducer
  BY <1>5, StartVerdicts, LocalProducerVerdicts
<1>6. CASE LeaveLocalNodes \/ RunConsumers \/ SkipPipeline
  BY <1>6, BetweenNodesVerdicts
<1>7. QED
  BY <1>1, <1>2, <1>3, <1>4, <1>5, <1>6 DEF Next, Runner

\* The verdicts' invariant holds in every reachable state.
THEOREM VerdictsHold == Spec => []VerdictInv
<1>1. Init => VerdictInv
  BY DEF Init, VerdictInv, GlobalSeen, Owners, LocalSeen, NoWorkAfterVeto, InEvent
<1>2. Basis /\ VerdictInv /\ [Next]_vars => VerdictInv'
  <2>1. VerdictInv /\ UNCHANGED vars => VerdictInv'
    BY SameVerdicts DEF vars, runnerVars, seen
  <2>2. QED
    BY <2>1, VerdictInvKept
<1>3. QED
  BY <1>1, <1>2, BasisHolds, PTL DEF Spec

\* The verdict the consumers and the runner get is that no filter in the pipeline's way
\* said no, and behind a veto no node is run (Pipeline.h:181-206).
THEOREM VerdictsCorrect == Spec => [](VerdictIsNoVeto /\ NoWorkAfterVeto)
<1>1. Basis /\ VerdictInv => VerdictIsNoVeto
  <2> SUFFICES ASSUME Basis, VerdictInv, pc = "consumers"
               PROVE  HasPassed(localResult) <=> ~ \E v \in vetoes : Counts(v, pipe)
    BY DEF VerdictIsNoVeto
  <2>1. HasPassed(localResult) <=> Rejecting(localResult) = {}
    BY PassesIffNoRejection DEF Basis, ResultsSound
  <2>2. QED
    BY <2>1, LocalRejections DEF VerdictInv
<1>2. QED
  BY <1>1, BasisHolds, VerdictsHold, PTL DEF VerdictInv

-----------------------------------------------------------------------------
(* The verdicts of the pipelines before.                                   *)

\* What the invariant says of pipeline p.
PreviousOf(p) ==
  IF p \notin Served THEN "Undefined"
  ELSE IF processed[p][Len(processed[p])].passed THEN "Passed" ELSE "NotPassed"

\* The record is opened with every pipeline undecided ...
LEMMA OpenPrevious == ASSUME Basis, PreviousInv, LeaveGlobalNodes PROVE PreviousInv'
<1>1. pc = "global" /\ pc' = "pipelines" /\ pipe' = 1 /\ pipelineResult' = VerdictsOpen
  BY DEF LeaveGlobalNodes
<1>2. /\ Listed(pipelineResult') = Range(PipelineNames)
      /\ \A n \in Listed(pipelineResult') :
            pipelineResult'.filterDecisions[n].filterDecision = "Undefined"
  BY <1>1, ConfigTypes, NewPreserves DEF VerdictsOpen
<1>3. \A p \in Pipe : PipelineNames[p] \in Range(PipelineNames)
  BY DEF PipelineNames, Range
<1>4. Served' = {}
  BY <1>1 DEF Served, LevelOne, Pipe
<1>5. QED
  BY <1>1, <1>2, <1>3, <1>4 DEF PreviousInv, PreviousResultsSeen

\* ... and each pipeline that has had the event puts its verdict under its name.
LEMMA RecordVerdict == ASSUME Basis, PreviousInv, RunConsumers PROVE PreviousInv'
<1> DEFINE verdict == HasPassed(localResult)
           d == [entry |-> iEvent, passed |-> verdict]
<1>1. /\ pc = "consumers" /\ pc' = "pipelines" /\ pipe' = pipe + 1
      /\ pipelineResult' = SetFilterDecision(pipelineResult, PipelineNames[pipe], verdict)
      /\ processed' = [processed EXCEPT ![pipe] = Append(@, d)]
  BY DEF RunConsumers, Process
<1>2. pipe \in LevelOne /\ pipe \in Pipe /\ PipelineNames[pipe] \in FilterName
  BY <1>1, ConfigTypes DEF Basis, AtWork, LevelOne
<1>3. verdict \in BOOLEAN /\ Sound(pipelineResult)
  BY SoundOperations DEF Basis, ResultsSound
<1>4. processed[pipe] \in Seq([entry : Nat, passed : BOOLEAN])
  BY <1>2 DEF Basis, Histories
<1> HIDE DEF verdict
<1>5. d.passed = verdict
  OBVIOUS
<1> HIDE DEF d
<1>6. /\ Listed(pipelineResult') = Listed(pipelineResult) \cup {PipelineNames[pipe]}
      /\ \A m \in Listed(pipelineResult) \ {PipelineNames[pipe]} :
            pipelineResult'.filterDecisions[m] = pipelineResult.filterDecisions[m]
      /\ pipelineResult'.filterDecisions[PipelineNames[pipe]].filterDecision
           = IF verdict THEN "Passed" ELSE "NotPassed"
  BY <1>1, <1>2, <1>3, SetDecisionPreserves DEF Sound
<1>7. \A p \in Pipe : p \in Served' <=> p \in Served \/ p = pipe
  BY <1>1, <1>2 DEF Served, LevelOne, Pipe
<1>8. NamesUnique /\ \A p \in Pipe : PipelineNames[p] \in Listed(pipelineResult)
  BY <1>1 DEF PreviousInv
<1>9. ASSUME NEW p \in Pipe
      PROVE  pipelineResult'.filterDecisions[PipelineNames[p]].filterDecision = PreviousOf(p)'
  <2>1. CASE p = pipe
    <3>1. processed'[p] = Append(processed[pipe], d)
      BY <1>1, <1>2, <2>1 DEF Basis, Histories
    <3>2. processed'[p][Len(processed'[p])] = d
      BY <1>4, <3>1
    <3>3. QED
      BY <1>5, <1>6, <1>7, <2>1, <3>2 DEF PreviousOf
  <2>2. CASE p # pipe
    <3>1. PipelineNames[p] # PipelineNames[pipe]
      BY <1>2, <1>8, <2>2 DEF NamesUnique
    <3>2. processed'[p] = processed[p]
      BY <1>1, <2>2 DEF Basis, Histories
    <3>3. pipelineResult.filterDecisions[PipelineNames[p]].filterDecision = PreviousOf(p)
      BY <1>1 DEF PreviousInv, PreviousResultsSeen, PreviousOf
    <3>4. QED
      BY <1>6, <1>7, <1>8, <2>2, <3>1, <3>2, <3>3 DEF PreviousOf
  <2>3. QED
    BY <2>1, <2>2
<1>10. PreviousResultsSeen'
  BY <1>9 DEF PreviousResultsSeen, PreviousOf
<1>11. QED
  BY <1>1, <1>6, <1>8, <1>10 DEF PreviousInv, NamesUnique

\* Every step keeps the record.
LEMMA PreviousInvKept == ASSUME Basis, PreviousInv, Next PROVE PreviousInv'
<1>1. CASE Start
  BY <1>1 DEF Start, PreviousInv, PreviousResultsSeen, NamesUnique
<1>2. CASE \/ NullEvent \/ LeaveLoop \/ RequestEvent \/ NoEntry \/ BeginEvent \/ GlobalProducer
           \/ NextEvent \/ FinishPipeline \/ ResetSignal \/ RunHigherPipeline
           \/ SkipHigherPipeline \/ EndLevel \/ ProviderStep
           \/ \E passed \in BOOLEAN : GlobalFilter(passed)
  <2>1. pc # "start" /\ (pc' # "fatal" => pc # "fatal")
        /\ pc' \notin {"pipelines", "local", "consumers"}
    BY <1>2 DEF NullEvent, LeaveLoop, RequestEvent, NoEntry, BeginEvent, GlobalProducer,
       AtGlobalNode, NextEvent, FinishPipeline, ResetSignal, RunHigherPipeline,
       SkipHigherPipeline, AtHigherPipeline, EndLevel, ProviderStep, runnerVars, GlobalFilter
  <2>2. QED
    BY <2>1 DEF PreviousInv, PreviousResultsSeen, NamesUnique
<1>3. CASE SkipPipeline
  <2>1. /\ pc \in {"pipelines", "finish"} /\ pipe \in Pipe \ LevelOne /\ pipe' = pipe + 1
        /\ UNCHANGED <<pc, pipelineResult, processed>>
    BY <1>3 DEF SkipPipeline, results, seen
  <2>2. \A p \in LevelOne : p < pipe + 1 <=> p < pipe
    BY <2>1 DEF LevelOne, Pipe
  <2>3. Served' = Served
    BY <2>1, <2>2 DEF Served
  <2>4. QED
    BY <2>1, <2>3 DEF PreviousInv, PreviousResultsSeen, NamesUnique
<1>4. CASE \/ StartPipeline \/ LeaveLocalNodes \/ LocalProducer \/ Interrupt
           \/ \E passed \in BOOLEAN : LocalFilter(passed)
  <2>1. /\ UNCHANGED <<pipelineResult, processed, pipe>>
        /\ \/ pc' = pc
           \/ pc \in {"pipelines", "local"} /\ pc' \in {"local", "consumers"}
    BY <1>4 DEF StartPipeline, LeaveLocalNodes, LocalProducer, AtLocalNode, Interrupt,
       LocalFilter, results, iterators, seen
  <2>2. pc' \in {"pipelines", "local", "consumers"} => Served' = Served
    BY <2>1 DEF Served
  <2>3. QED
    BY <2>1, <2>2 DEF PreviousInv, PreviousResultsSeen, NamesUnique
<1>5. CASE LeaveGlobalNodes \/ RunConsumers
  BY <1>5, OpenPrevious, RecordVerdict
<1>6. QED
  BY <1>1, <1>2, <1>3, <1>4, <1>5 DEF Next, Runner

\* The PreviousPipelinesResult a pipeline sees is about this very event, and about
\* exactly the pipelines before it (PipelineRunner.h:221-247).
THEOREM PreviousCorrect == Spec => []PreviousResultsSeen
<1>1. Init => PreviousInv
  BY DEF Init, PreviousInv, PreviousResultsSeen
<1>2. Basis /\ PreviousInv /\ [Next]_vars => PreviousInv'
  <2>1. PreviousInv /\ UNCHANGED vars => PreviousInv'
    BY DEF vars, runnerVars, results, iterators, seen, PreviousInv, PreviousResultsSeen,
       NamesUnique, Served
  <2>2. QED
    BY <2>1, PreviousInvKept
<1>3. QED
  BY <1>1, <1>2, BasisHolds, PTL DEF Spec, PreviousInv

-----------------------------------------------------------------------------
(* The announcements.                                                      *)

\* The producer that runs in every event passes the provider's flags on.
LEMMA FlagsKept ==
  ASSUME Basis, VerdictInv, NEW k, AlwaysRuns(k), FlagsPassedOn(k), Next
  PROVE  FlagsPassedOn(k)'
<1> USE DEF FlagsPassedOn
<1>0. /\ k \in 1 .. Len(GlobalNodes) /\ GlobalNodes[k].kind = "Producer"
      /\ \A j \in 1 .. k - 1 : GlobalNodes[j].kind = "Filter" => GlobalNodes[j].id \in GlobalTagging
  BY RunnerConstants DEF AlwaysRuns
<1>1. CASE BeginEvent
  BY <1>0, <1>1 DEF BeginEvent
<1>2. CASE GlobalProducer
  <2>1. /\ pc = "global" /\ pc' = "global" /\ node' = node + 1
        /\ productFlags' = ProviderFlags /\ UNCHANGED <<vetoes, newRun, newLumisection>>
    BY <1>2 DEF GlobalProducer, AtGlobalNode, providerVars, flags
  <2>2. node' <= k => node <= k
    BY <1>0, <2>1 DEF Basis, Control
  <2>3. QED
    BY <2>1, <2>2 DEF ProviderFlags
<1>3. CASE \E passed \in BOOLEAN : GlobalFilter(passed)
  <2>1. PICK passed \in BOOLEAN : GlobalFilter(passed)
    BY <1>3
  <2>2. /\ pc = "global" /\ pc' = "global" /\ node' = node + 1
        /\ UNCHANGED <<productFlags, newRun, newLumisection>>
        /\ vetoes' \in {vetoes, vetoes \cup {<<0, GlobalNodes[node].id>>}}
        /\ GlobalNodes[node].kind = "Filter"
    BY <2>1 DEF GlobalFilter, AtGlobalNode, NoteVeto, providerVars, flags
  <2>3. node \in 1 .. Len(GlobalNodes)
    BY <2>1, GlobalNodeRuns DEF GlobalFilter
  <2>4. CASE node > k
    BY <1>0, <2>2, <2>3, <2>4 DEF ProviderFlags
  <2>5. CASE node < k
    <3>1. GlobalNodes[node].id \in GlobalTagging /\ node' <= k
      BY <1>0, <2>2, <2>3, <2>5
    <3>2. QED
      BY <1>0, <2>2, <2>3, <2>5, <3>1
  <2>6. QED
    BY <1>0, <2>2, <2>3, <2>4, <2>5
<1>4. CASE LeaveGlobalNodes
  <2>1. /\ pc = "global" /\ pc' = "pipelines"
        /\ UNCHANGED <<productFlags, newRun, newLumisection>>
        /\ node > Len(GlobalNodes) \/ ~HasPassed(globalResult)
    BY <1>4 DEF LeaveGlobalNodes, ChainEnds, providerVars, flags
  <2>2. ASSUME node <= k PROVE HasPassed(globalResult)
    <3>1. ASSUME NEW n \in Rejecting(globalResult) PROVE FALSE
      <4>1. n \in FilterName
        BY FieldTypes DEF Basis, ResultsSound, Sound, Rejecting
      <4>2. <<0, n>> \in vetoes /\ n \notin GlobalTagging
        BY <2>1, <4>1 DEF VerdictInv, GlobalSeen, GlobalNo, InEvent
      <4>3. QED
        BY <2>1, <2>2, <4>2
    <3>2. QED
      BY <3>1, PassesIffNoRejection DEF Basis, ResultsSound
  <2>3. node > k
    BY <1>0, <2>1, <2>2 DEF Basis, Control
  <2>4. QED
    BY <2>1, <2>3 DEF ProviderFlags
<1>5. CASE \/ Start \/ NullEvent \/ LeaveLoop \/ RequestEvent \/ NoEntry \/ NextEvent
           \/ FinishPipeline \/ ResetSignal \/ RunHigherPipeline \/ SkipHigherPipeline
           \/ EndLevel \/ ProviderStep
  <2>1. pc' \notin {"global", "pipelines", "local", "consumers"}
    BY <1>5 DEF Start, NullEvent, LeaveLoop, RequestEvent, NoEntry, NextEvent,
       FinishPipeline, ResetSignal, RunHigherPipeline, SkipHigherPipeline, AtHigherPipeline,
       EndLevel, ProviderStep, runnerVars
  <2>2. QED
    BY <2>1
<1>6. CASE \/ StartPipeline \/ SkipPipeline \/ LeaveLocalNodes \/ LocalProducer \/ RunConsumers
           \/ \E passed \in BOOLEAN : LocalFilter(passed)
  <2>1. /\ UNCHANGED <<productFlags, newRun, newLumisection>> /\ pc' # "global"
        /\ pc \in {"pipelines", "local", "consumers"} \/ pc' = "finish"
    BY <1>6 DEF StartPipeline, SkipPipeline, LeaveLocalNodes, LocalProducer, AtLocalNode,
       RunConsumers, LocalFilter, providerVars, flags
  <2>2. QED
    BY <2>1 DEF ProviderFlags
<1>7. CASE Interrupt
  BY <1>7 DEF Interrupt, iterators, seen, providerVars, flags, ProviderFlags
<1>8. QED
  BY <1>1, <1>2, <1>3, <1>4, <1>5, <1>6, <1>7 DEF Next, Runner

\* The consumers of a pipeline are a place of their own.
LEMMA ConsumersPlace ==
  /\ \A p \in Pipe : <<p, 0>> \in Place
  /\ Basis => \A p \in Pipe : Told(p) \in [run : Int, lumi : Int]
<1>1. \A p \in Pipe : <<p, 0>> \in Place
  <2> SUFFICES ASSUME NEW p \in Pipe PROVE <<p, 0>> \in Place
    OBVIOUS
  <2>1. 0 \in 0 .. Len(Pipelines[p].nodes)
    BY ConfigTypes
  <2>2. QED
    BY <2>1 DEF Place
<1>2. QED
  BY <1>1 DEF Basis, Histories, Told

\* A node that is told of a run leaves what the consumers were told.
LEMMA NodesToldOnly ==
  ASSUME Basis, NEW o, NEW i \in Nat \ {0}, NEW news, Announce(<<o, i>>, news)
  PROVE  \A p \in Pipe : Told(p)' = Told(p)
BY ConsumersPlace DEF Announce, Told, Basis, Histories

\* The step of the event provider compares with what the consumers were told last.
LEMMA ProviderInforms == ASSUME Basis, InformedInv, ProviderStep PROVE InformedInv'
<1>1. /\ pc = "get" /\ pc' = "get" /\ UNCHANGED <<informed, pipe>> /\ ProviderNext
      /\ ~InEvent'
  BY DEF ProviderStep, runnerVars, iterators, seen, InEvent
<1>2. \A p : Told(p)' = Told(p)
  BY <1>1 DEF Told
<1>3. event.run \in Nat /\ event.lumi \in Nat
  BY DEF Basis, ProviderTypeOK
<1>4. CASE EntryRead
  BY <1>1, <1>2, <1>4 DEF EntryRead, memory, InformedInv
<1>5. CASE Timeout
  BY <1>1, <1>5 DEF Timeout, InformedInv
<1>6. CASE Bookkeep
  <2>1. \A p \in LevelOne : Told(p) = [run |-> prevRun, lumi |-> prevLumi]
    BY <1>1, <1>6 DEF Bookkeep, InformedInv
  <2>2. prevRun' = event.run /\ prevLumi' = event.lumi /\ event' = event
    BY <1>6 DEF Bookkeep
  <2>3. ~newRun' => prevRun = event.run
    BY <1>6 DEF Bookkeep
  <2>4. \A p \in LevelOne : ~newRun' => Told(p)'.run = event.run
    BY <1>2, <2>1, <2>3
  <2>5. CASE stage' = "readingMeta"
    BY <1>1, <2>2, <2>4, <2>5 DEF InformedInv
  <2>6. CASE stage' = "idle" /\ prevLumi = event.lumi
    BY <1>1, <1>2, <2>1, <2>2, <2>4, <2>6 DEF InformedInv, Announceable
  <2>7. QED
    BY <1>3, <1>6, <2>5, <2>6 DEF Bookkeep, KnownLumi, Return
<1>7. CASE MetaEntryRead
  BY <1>1, <1>2, <1>7 DEF MetaEntryRead, Return, memory, InformedInv, Announceable
<1>8. QED
  BY <1>1, <1>4, <1>5, <1>6, <1>7 DEF ProviderNext

\* The consumers are told what is new to them.
LEMMA ConsumersInform ==
  ASSUME Basis, InformedInv, RunConsumers, productFlags = ProviderFlags
  PROVE  InformedInv'
<1>1. /\ pc = "consumers" /\ pc' = "pipelines" /\ pipe' = pipe + 1
      /\ UNCHANGED <<stage, result, event, newRun, newLumisection, prevRun, prevLumi>>
      /\ Announce(<<pipe, 0>>, ProviderFlags)
  BY DEF RunConsumers, providerVars, flags, memory
<1>2. pipe \in LevelOne /\ pipe \in Pipe
  BY <1>1 DEF Basis, AtWork, LevelOne
<1>3. /\ Told(pipe) \in [run : Int, lumi : Int] /\ Announceable(pipe)
      /\ prevRun = event.run /\ prevLumi = event.lumi
  <2>1. pipe \notin Served
    BY <1>2 DEF Served, Pipe
  <2>2. QED
    BY <1>1, <1>2, <2>1, ConsumersPlace DEF InformedInv, InEvent
<1>4. ASSUME NEW p \in Pipe
      PROVE  Told(p)' = IF p = pipe THEN [run |-> event.run, lumi |-> event.lumi] ELSE Told(p)
  <2>1. informed' = [informed EXCEPT ![<<pipe, 0>>] =
           [run  |-> IF newRun THEN event.run ELSE @.run,
            lumi |-> IF newLumisection THEN event.lumi ELSE @.lumi]]
    BY <1>1 DEF Announce, ProviderFlags
  <2>2. CASE p = pipe
    <3>1. Told(p)' = [run  |-> IF newRun THEN event.run ELSE Told(p).run,
                      lumi |-> IF newLumisection THEN event.lumi ELSE Told(p).lumi]
      BY <2>1, <2>2, ConsumersPlace DEF Told, Basis, Histories
    <3>2. QED
      BY <1>3, <2>2, <3>1 DEF Announceable
  <2>3. CASE p # pipe
    BY <2>1, <2>3, ConsumersPlace DEF Told, Basis, Histories
  <2>4. QED
    BY <2>2, <2>3
<1>5. \A p \in LevelOne : p \in Pipe /\ (p \in Served' <=> p \in Served \/ p = pipe)
  BY <1>1, <1>2 DEF Served, LevelOne, Pipe
<1>6. QED
  BY <1>1, <1>3, <1>4, <1>5 DEF InformedInv, InEvent, Announceable

\* Every step keeps what is known of the announcements.
LEMMA InformedKept ==
  ASSUME Basis, VerdictInv, NEW k, AlwaysRuns(k), FlagsPassedOn(k), InformedInv, Next
  PROVE  InformedInv'
<1>1. CASE Start \/ NullEvent \/ LeaveLoop \/ NoEntry
  <2>1. /\ pc \in {"start", "null", "loop", "get"} /\ (pc = "get" => stage = "idle")
        /\ pc' \in {"null", "loop", "fatal", "finish"} /\ (pc' \in {"null", "loop"} => pc = "start")
        /\ UNCHANGED <<stage, informed, prevRun, prevLumi>>
    BY <1>1 DEF Start, NullEvent, LeaveLoop, NoEntry, seen, providerVars, memory
  <2>2. QED
    BY <2>1 DEF InformedInv, InEvent, Told
<1>2. CASE RequestEvent
  <2>1. /\ pc = "loop" /\ pc' = "get" /\ UNCHANGED <<informed, prevRun, prevLumi>>
        /\ stage' = "reading" \/ (stage' = "idle" /\ ~result')
    BY <1>2 DEF RequestEvent, CallGetEntry, Return, seen, memory
  <2>2. QED
    BY <2>1 DEF InformedInv, InEvent, Told
<1>3. CASE BeginEvent
  <2>1. /\ pc = "get" /\ stage = "idle" /\ result /\ pc' = "global"
        /\ UNCHANGED <<stage, informed, event, newRun, newLumisection, prevRun, prevLumi>>
    BY <1>3 DEF BeginEvent, providerVars, flags, memory
  <2>2. ~InEvent /\ Served' = {}
    BY <2>1 DEF InEvent, Served
  <2>3. QED
    BY <2>1, <2>2 DEF InformedInv, Told, Announceable
<1>4. CASE LeaveGlobalNodes
  <2>1. /\ pc = "global" /\ pc' = "pipelines" /\ pipe' = 1
        /\ UNCHANGED <<stage, informed, event, newRun, newLumisection, prevRun, prevLumi>>
    BY <1>4 DEF LeaveGlobalNodes, seen, providerVars, flags, memory
  <2>2. InEvent /\ Served = {} /\ Served' = {}
    BY <2>1 DEF InEvent, Served, LevelOne, Pipe
  <2>3. QED
    BY <2>1, <2>2 DEF InformedInv, Told, Announceable
<1>5. CASE \/ GlobalProducer \/ StartPipeline \/ LeaveLocalNodes \/ LocalProducer
           \/ \E passed \in BOOLEAN : GlobalFilter(passed) \/ LocalFilter(passed)
  <2>1. /\ InEvent /\ InEvent' /\ UNCHANGED pipe /\ (pc = "global" <=> pc' = "global")
        /\ UNCHANGED <<stage, event, newRun, newLumisection, prevRun, prevLumi>>
    BY <1>5 DEF GlobalProducer, AtGlobalNode, StartPipeline, LeaveLocalNodes, LocalProducer,
       AtLocalNode, GlobalFilter, LocalFilter, InEvent, iterators, providerVars, flags, memory
  <2>2. \A p \in LevelOne : Told(p)' = Told(p)
    <3>1. node \in Nat \ {0}
      BY DEF Basis, Control
    <3>2. CASE StartPipeline \/ LeaveLocalNodes
      BY <3>2 DEF StartPipeline, LeaveLocalNodes, seen, Told
    <3>3. CASE GlobalProducer \/ \E passed \in BOOLEAN : GlobalFilter(passed)
      BY <3>1, <3>3, NodesToldOnly DEF GlobalProducer, GlobalFilter, LevelOne
    <3>4. CASE LocalProducer \/ \E passed \in BOOLEAN : LocalFilter(passed)
      BY <3>1, <3>4, NodesToldOnly DEF LocalProducer, LocalFilter, LevelOne
    <3>5. QED
      BY <1>5, <3>2, <3>3, <3>4
  <2>3. Served' = Served
    BY <2>1 DEF Served
  <2>4. pc # "get" /\ pc' \notin {"get", "start", "null", "loop"}
    BY <2>1 DEF InEvent
  <2>5. QED
    BY <2>1, <2>2, <2>3, <2>4 DEF InformedInv, Announceable
<1>6. CASE SkipPipeline
  <2>1. /\ pc \in {"pipelines", "finish"} /\ pc' = pc /\ pipe' = pipe + 1
        /\ pipe \in Pipe \ LevelOne
        /\ UNCHANGED <<stage, informed, event, newRun, newLumisection, prevRun, prevLumi>>
    BY <1>6 DEF SkipPipeline, seen, providerVars, flags, memory
  <2>2. \A p \in LevelOne : p < pipe + 1 <=> p < pipe
    BY <2>1 DEF LevelOne, Pipe
  <2>3. Served' = Served
    BY <2>1, <2>2 DEF Served
  <2>4. QED
    BY <2>1, <2>3 DEF InformedInv, InEvent, Told, Announceable
<1>7. CASE RunConsumers
  BY <1>7, ConsumersInform DEF RunConsumers, FlagsPassedOn
<1>8. CASE NextEvent
  <2>1. /\ pc = "pipelines" /\ pc' = "loop" /\ pipe > Len(Pipelines)
        /\ UNCHANGED <<stage, informed, prevRun, prevLumi>>
    BY <1>8 DEF NextEvent, seen, providerVars, memory
  <2>2. Served = LevelOne
    BY <2>1, AllServed
  <2>3. QED
    BY <2>1, <2>2 DEF InformedInv, InEvent, Told
<1>9. CASE FinishPipeline \/ ResetSignal \/ RunHigherPipeline \/ SkipHigherPipeline \/ EndLevel
  <2>1. /\ pc \in {"finish", "levels"} /\ pc' \in {"finish", "levels", "done"}
        /\ UNCHANGED stage
    BY <1>9 DEF FinishPipeline, ResetSignal, RunHigherPipeline, SkipHigherPipeline,
       AtHigherPipeline, EndLevel, providerVars
  <2>2. QED
    BY <2>1 DEF InformedInv, InEvent
<1>10. CASE Interrupt
  BY <1>10 DEF Interrupt, iterators, seen, providerVars, flags, memory, InformedInv, InEvent,
     Served, Told, Announceable
<1>11. CASE ProviderStep
  BY <1>11, ProviderInforms
<1>12. QED
  BY <1>1, <1>2, <1>3, <1>4, <1>5, <1>6, <1>7, <1>8, <1>9, <1>10, <1>11 DEF Next, Runner

\* If some global producer runs in every event, the consumers of every pipeline know
\* the run and the lumisection of each event they get: no announcement is missed or
\* late, whatever the order of runs in the input (ConsumerBase.h, Pipeline.h:191-206).
THEOREM AnnouncementsCorrect ==
  ASSUME ProducerInEveryEvent
  PROVE  Spec => []ConsumersInformed
<1>1. PICK k : AlwaysRuns(k)
  BY DEF ProducerInEveryEvent
<1>2. Init => FlagsPassedOn(k) /\ InformedInv
  <2> SUFFICES ASSUME Init PROVE FlagsPassedOn(k) /\ InformedInv
    OBVIOUS
  <2>1. \A p \in LevelOne : Told(p) = [run |-> -1, lumi |-> -1]
    BY ConsumersPlace DEF Init, Told, LevelOne
  <2>2. QED
    BY <2>1 DEF Init, ProviderInit, FlagsPassedOn, InformedInv, InEvent
<1>3. Basis /\ VerdictInv /\ FlagsPassedOn(k) /\ InformedInv /\ [Next]_vars
        => FlagsPassedOn(k)' /\ InformedInv'
  <2>1. FlagsPassedOn(k) /\ UNCHANGED vars => FlagsPassedOn(k)'
    BY DEF vars, runnerVars, iterators, seen, providerVars, flags, FlagsPassedOn, ProviderFlags
  <2>2. InformedInv /\ UNCHANGED vars => InformedInv'
    BY DEF vars, runnerVars, iterators, seen, providerVars, flags, memory, InformedInv, InEvent,
       Served, Told, Announceable
  <2>3. QED
    BY <1>1, <2>1, <2>2, FlagsKept, InformedKept
<1>4. InformedInv => ConsumersInformed
  BY DEF InformedInv, ConsumersInformed, Told, Served
<1>5. QED
  BY <1>2, <1>3, <1>4, BasisHolds, VerdictsHold, PTL DEF Spec

\* What a pipeline gets of an event is what was decided of it.
THEOREM EventsSeenCorrect ==
  ASSUME ProducerInEveryEvent
  PROVE  Spec => []PipelinesSeeTheEvent
BY VerdictsCorrect, PreviousCorrect, AnnouncementsCorrect, PTL DEF PipelinesSeeTheEvent

=============================================================================
