-------------------------------- MODULE CutFlow --------------------------------
(***************************************************************************)
(* What the consumers of the library make of the filter results of a       *)
(* pipeline: the class CutFlow (Core/src/CutFlow.cc), the histogram of     *)
(* CutFlowHistogramConsumer, the trees of CutFlowTreeConsumer and the rows *)
(* of RunTimeConsumer (Consumer/interface), each as a record and operators *)
(* that return the changed record.                                         *)
(*                                                                         *)
(* ROOT is outside the repository: filling a histogram behind its last bin *)
(* fills the overflow bin; a bin of a TH1F is a float, which stays at      *)
(* FloatExact (2^24) when one is added.                                    *)
(***************************************************************************)
EXTENDS FilterResult

CONSTANT FloatExact   \* the float x with x + 1 = x; 2^24 in the program

ASSUME FloatExactPositive == FloatExact \in Nat \ {0}

\* GetFilterNames: the names in the order of the list.
GetFilterNames(r) ==
  [i \in 1 .. Cardinality(Listed(r)) |->
     CHOOSE n \in Listed(r) : r.filterDecisions[n].place = i]

PassedFilter(r, n) == r.filterDecisions[n].filterDecision = "Passed"
Tagged(r, n) == r.filterDecisions[n].taggingMode = "Tagging"

-----------------------------------------------------------------------------
(* CutFlow: how many events each filter let pass.                          *)

NoCutFlow == [overallEventCount |-> 0, cutCount |-> [n \in {} |-> 0]]

CutCount(flow, n) == IF n \in DOMAIN flow.cutCount THEN flow.cutCount[n] ELSE 0

\* Taggers get an entry, but nothing is ever added to it.
AddValUndecided(r, n) ==                           \* mutant: unless it said no
  IF r.filterDecisions[n].filterDecision # "NotPassed" /\ ~Tagged(r, n) THEN 1 ELSE 0
AddVal(r, n) == IF PassedFilter(r, n) /\ ~Tagged(r, n) THEN 1 ELSE 0

AddFilterResult(flow, r) ==
  [overallEventCount |-> flow.overallEventCount + 1,
   cutCount |-> [n \in DOMAIN flow.cutCount \cup Listed(r) |->
                   CutCount(flow, n) + IF n \in Listed(r) THEN AddVal(r, n) ELSE 0]]

-----------------------------------------------------------------------------
(* CutFlowHistogramConsumer: one bin for all events, one for each filter.  *)

NoHistogram == [initialised |-> FALSE, labels |-> <<>>, bins |-> [b \in {} |-> 0]]

\* Labelled after the list of the first event; bin Len(labels) + 1 is the overflow.
InitialiseHistograms(r) ==
  [initialised |-> TRUE,
   labels |-> GetFilterNames(r),
   bins   |-> [b \in 0 .. Cardinality(Listed(r)) + 1 |-> 0]]

\* The bins an event fills, counted along the list.
FilledBins(r) ==
  {0} \cup {r.filterDecisions[n].place :
              n \in {m \in Listed(r) : PassedFilter(r, m) \/ Tagged(r, m)}}

\* Bins behind the end of the histogram are its overflow.
Hits(hist, r, b) ==
  IF b <= Len(hist.labels) THEN Cardinality({b} \cap FilledBins(r))
  ELSE Cardinality({c \in FilledBins(r) : c >= b})

AsFloat(x) == IF x < FloatExact THEN x ELSE FloatExact

\* The weighted histogram, filled at the same places, is left out.
FillHistogram(hist, r) ==
  LET booked == IF hist.initialised THEN hist ELSE InitialiseHistograms(r)
  IN  [booked EXCEPT !.bins = [b \in DOMAIN @ |-> AsFloat(@[b] + Hits(booked, r, b))]]

-----------------------------------------------------------------------------
(* CutFlowTreeConsumer: the events each filter discarded.                  *)

NoTrees == [initialised |-> FALSE, names |-> <<>>, rows |-> <<>>]

\* A tree for each name in the list of the first event.
InitialiseTrees(r) ==
  [initialised |-> TRUE,
   names |-> GetFilterNames(r),
   rows  |-> [i \in 1 .. Cardinality(Listed(r)) |-> <<>>]]

\* The places of filters that did not let the event pass, undecided ones included.
Discarding(r) ==
  {r.filterDecisions[n].place : n \in {m \in Listed(r) : ~PassedFilter(r, m) /\ ~Tagged(r, m)}}

\* All three branches of a tree are bound to m_run.
Row(e) == [run |-> e.run, lumi |-> e.run, event |-> e.run]

\* The first of these places takes the event; there may be no tree for it.
LastPlace(places) ==                               \* mutant: the walk goes on
  CHOOSE i \in places : \A j \in places : i >= j
FirstPlace(places) == CHOOSE i \in places : \A j \in places : i <= j

OpenTrees(trees, r) == IF trees.initialised THEN trees ELSE InitialiseTrees(r)

MissingTree(trees, r) ==
  /\ Discarding(r) # {}
  /\ FirstPlace(Discarding(r)) > Len(OpenTrees(trees, r).rows)

FillTrees(trees, r, e) ==
  LET booked == OpenTrees(trees, r)
  IN  IF Discarding(r) = {} THEN booked
      ELSE [booked EXCEPT !.rows[FirstPlace(Discarding(r))] = Append(@, Row(e))]

-----------------------------------------------------------------------------
(* RunTimeConsumer: a row for every event; a processor whose time was not  *)
(* measured gets the default value, here by not being in the row.          *)

FillRunTimes(rows, processorRunTime) == Append(rows, processorRunTime)

-----------------------------------------------------------------------------
(***************************************************************************)
(* One pipeline of level one with the consumers of the library, seen over  *)
(* the events of a job: the chain of global nodes, a copy of its filter    *)
(* result for the chain of the pipeline (Pipeline::RunEvent), and a copy   *)
(* of that for CutFlowHistogramConsumer, CutFlowTreeConsumer and           *)
(* RunTimeConsumer, which each fill what they write in Finish.             *)
(*                                                                         *)
(* Both cut flow consumers keep a CutFlow of their own and add the same    *)
(* filter results to it; one stands for both.                              *)
(***************************************************************************)
CONSTANTS
  GlobalNodes,    \* nodes of the runner, as [kind, id]
  GlobalFilters,  \* their filters, from the configuration
  GlobalTagging,  \* TaggingFilters of the global settings
  LocalNodes,     \* nodes of the pipeline, those InitPipeline adds included
  LocalFilters,   \* the filters the pipeline's configuration names
  LocalTagging,   \* TaggingFilters of the pipeline's settings
  Events          \* the input: a sequence of [run, lumi, event]

ProcessNode == [kind : {"Producer", "Filter"}, id : FilterName]

ASSUME ConsumerConstants ==
  /\ GlobalNodes \in Seq(ProcessNode) /\ LocalNodes \in Seq(ProcessNode)
  /\ GlobalFilters \in Seq(FilterName) /\ LocalFilters \in Seq(FilterName)
  /\ GlobalTagging \subseteq FilterName /\ LocalTagging \subseteq FilterName
  /\ Events \in Seq([run : Nat, lumi : Nat, event : Nat])

\* The global settings extract their filters (SettingsBase.cc:89-90) from the list
\* of processors that LoadGlobalProducer makes the nodes from (ArtusConfig.h:74-102).
ASSUME GlobalFiltersNamed ==
  \A i \in DOMAIN GlobalNodes :
    GlobalNodes[i].kind = "Filter" => GlobalNodes[i].id \in Range(GlobalFilters)

VARIABLES
  pc,         \* "next" event, "global" or "local" nodes, "consumers", "done", "fatal"
  at,         \* the number of the event at work
  node,       \* iterator over the nodes of the chain at work
  fres,       \* globalFilterResult, then localFilterResult
  measured,   \* keys of product.processorRunTime
  flow, histogram, trees,   \* of the cut flow consumers
  runTimes,   \* rows of the tree of RunTimeConsumer: the processors with a time
  filtered    \* history: numbers of the events ProcessFilteredEvent was called for

consumerVars == <<flow, histogram, trees, runTimes>>
vars == <<pc, at, node, fres, measured, consumerVars, filtered>>

Chain == IF pc = "global" THEN GlobalNodes ELSE LocalNodes

Init ==
  /\ pc = "next" /\ at = 0 /\ node = 1
  /\ fres = EmptyFilterResult
  /\ measured = {}
  /\ flow = NoCutFlow /\ histogram = NoHistogram /\ trees = NoTrees
  /\ runTimes = <<>>
  /\ filtered = {}

-----------------------------------------------------------------------------
\* A new event, product and filter result.
BeginEvent ==
  /\ pc = "next" /\ at < Len(Events)
  /\ at' = at + 1
  /\ fres' = NewFilterResult(GlobalFilters, GlobalTagging)
  /\ measured' = {}
  /\ node' = 1
  /\ pc' = "global"
  /\ UNCHANGED <<consumerVars, filtered>>

\* A node is run unless the verdict, cached by the question, is already no.
AtNode(kind) ==
  /\ pc \in {"global", "local"}
  /\ node <= Len(Chain)
  /\ HasPassed(fres)
  /\ Chain[node].kind = kind
  /\ node' = node + 1
  /\ measured' = measured \cup {Chain[node].id}

Produce ==
  /\ AtNode("Producer")
  /\ fres' = AfterHasPassed(fres)
  /\ UNCHANGED <<pc, at, consumerVars, filtered>>

DoesEventPass(passed) ==
  /\ AtNode("Filter")
  /\ fres' = SetFilterDecision(AfterHasPassed(fres), Chain[node].id, passed)
  /\ UNCHANGED <<pc, at, consumerVars, filtered>>

ChainLeft == node > Len(Chain) \/ ~HasPassed(fres)
Asked == IF node > Len(Chain) THEN fres ELSE AfterHasPassed(fres)

\* RunEvent: the copy gets the names and tagging filters of the pipeline.
StartPipeline ==
  /\ pc = "global" /\ ChainLeft
  /\ fres' = AddFilterNamesTagging(Asked, LocalFilters, LocalTagging)
  /\ node' = 1
  /\ pc' = "local"
  /\ UNCHANGED <<at, measured, consumerVars, filtered>>

EndChain ==
  /\ pc = "local" /\ ChainLeft
  /\ fres' = Asked
  /\ pc' = "consumers"
  /\ UNCHANGED <<at, node, measured, consumerVars, filtered>>

\* ProcessEvent of every consumer.
Consume ==
  /\ pc = "consumers"
  /\ ~MissingTree(trees, fres)
  /\ flow' = AddFilterResult(flow, fres)
  /\ histogram' = FillHistogram(histogram, fres)
  /\ trees' = FillTrees(trees, fres, Events[at])
  /\ runTimes' = FillRunTimes(runTimes, measured)
  /\ fres' = AfterHasPassed(fres)
  /\ pc' = "next"
  /\ filtered' = IF HasPassed(fres) THEN filtered \cup {at} ELSE filtered
  /\ UNCHANGED <<at, node, measured>>

\* Undefined behaviour: m_cutFlowTrees is indexed behind its end.
ConsumeBehindTheTrees ==
  /\ pc = "consumers"
  /\ MissingTree(trees, fres)
  /\ pc' = "fatal"
  /\ UNCHANGED <<at, node, fres, measured, consumerVars, filtered>>

\* The event loop may be left before any event; Finish writes what there is.
Finish ==
  /\ pc = "next"
  /\ pc' = "done"
  /\ UNCHANGED <<at, node, fres, measured, consumerVars, filtered>>

Next ==
  \/ BeginEvent \/ Produce \/ StartPipeline \/ EndChain
  \/ \E passed \in BOOLEAN : DoesEventPass(passed)
  \/ Consume \/ ConsumeBehindTheTrees \/ Finish

Spec == Init /\ [][Next]_vars

-----------------------------------------------------------------------------
TypeOK ==
  /\ pc \in {"next", "global", "local", "consumers", "done", "fatal"}
  /\ at \in 0 .. Len(Events) /\ node \in Nat \ {0}
  /\ IsFilterResult(fres)
  /\ measured \subseteq FilterName
  /\ flow.overallEventCount \in Nat
  /\ flow.cutCount \in [DOMAIN flow.cutCount -> Nat]
  /\ histogram.labels \in Seq(FilterName)
  /\ histogram.bins \in [DOMAIN histogram.bins -> 0 .. FloatExact]
  /\ trees.names \in Seq(FilterName)
  /\ trees.rows \in Seq(Seq([run : Nat, lumi : Nat, event : Nat]))
  /\ runTimes \in Seq(SUBSET FilterName)
  /\ filtered \subseteq 1 .. Len(Events)

\* The taggers: the settings of the pipeline come too late for a global filter.
Tagging == GlobalTagging \cup (LocalTagging \ Range(GlobalFilters))
Filters(names) == {i \in DOMAIN names : names[i] \notin Tagging}

\* The entries of all the trees, by tree and row.
Discarded == UNION {{i} \X DOMAIN trees.rows[i] : i \in DOMAIN trees.rows}

\* Events that reach the filter at place i: those the filter before it let pass.
Entering(i) ==
  LET before == {j \in Filters(trees.names) : j < i}
  IN  IF before = {} THEN flow.overallEventCount
      ELSE CutCount(flow, trees.names[CHOOSE j \in before : \A k \in before : k <= j])

\* The bins of the histogram and the CutFlow behind it, kept apart by the code
\* and indexed by place there and by name here, hold the same counts for all
\* filters that are no taggers, and for all events (CutFlowHistogramConsumer.h:50-81).
HistogramAgreesWithFlow ==
  histogram.initialised =>
    /\ histogram.bins[0] = AsFloat(flow.overallEventCount)
    /\ \A i \in Filters(histogram.labels) :
         histogram.bins[i] = AsFloat(CutCount(flow, histogram.labels[i]))

\* An event passes or is discarded into exactly one tree, never both or neither:
\* ProcessFilteredEvent, which fills the analysis' own output, and
\* CutFlowTreeConsumer::ProcessEvent share the events between them.
AccountedFor ==
  Cardinality(filtered) + Cardinality(Discarded) = flow.overallEventCount

\* The tree of a filter holds as many events as the cut flow loses at that filter,
\* although a filter behind a failing one is undecided in the list, and undecided
\* counts as discarding, too (CutFlowTreeConsumer.h:60-75).
DropsAreInTheTrees ==
  \A i \in Filters(trees.names) :
    Len(trees.rows[i]) = Entering(i) - CutCount(flow, trees.names[i])

\* A filter has a measured run time in exactly the events it let pass or discarded.
RunTimesAgree ==
  \A i \in Filters(trees.names) :
    Cardinality({k \in DOMAIN runTimes : trees.names[i] \in runTimes[k]}) =
      CutCount(flow, trees.names[i]) + Len(trees.rows[i])

\* The only way for ProcessEvent to index behind the trees it made in its first
\* event is a filter that the configuration does not name, one that InitPipeline
\* added: its entry is in the list only of events that reach it.
MissingOnlyForUnnamed ==
  pc = "fatal" =>
    \E n \in Listed(fres) \ (Range(GlobalFilters) \cup Range(LocalFilters)) :
      /\ fres.filterDecisions[n].filterDecision = "NotPassed"
      /\ fres.filterDecisions[n].place > Len(trees.rows)

\* The three outputs of a pipeline, filled by consumers that do not know of each
\* other, tell the same story of the events; only an unnamed filter ends it.
OutputsFitTogether ==
  AccountedFor /\ DropsAreInTheTrees /\ RunTimesAgree /\ MissingOnlyForUnnamed
=============================================================================
