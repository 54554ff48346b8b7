------------------------------- MODULE MCHenry -------------------------------
(***************************************************************************)
(* HenryPlotter: the cut and weight expressions, the histograms and their  *)
(* holder, and the production of shapes, each on its own.  Variables of    *)
(* the other components are None.                                          *)
(***************************************************************************)
EXTENDS HistogramObjects

CONSTANT None

VARIABLES component,                  \* the one that this behaviour is about
          cuts, category, estimation, combined, weights, product,
          methods, categories, holder, systematics, estimated, phase, objects

CutStringsVars == <<cuts, category, estimation, combined, weights, product>>
HistogramObjectsVars == <<holderVars, fileVars>>
SystematicsVars == <<methods, categories, holder, systematics, estimated, phase, objects>>
vars == <<component, CutStringsVars, HistogramObjectsVars, SystematicsVars, error, calls>>  \* two of them use the last ones
NoCutStrings == cuts = None /\ category = None /\ estimation = None /\ combined = None /\ weights = None /\ product = None
NoHistogramObjects == /\ heap = <<>> /\ root_objects = <<>> /\ produced = FALSE /\ added = {}
                      /\ output_file = "none" /\ written = {} /\ branches = {} /\ filled = {} /\ existed = FALSE
NoSystematics == methods = None /\ categories = None /\ holder = None /\ systematics = None /\ estimated = None /\ phase = None /\ objects = None

-----------------------------------------------------------------------------
(* Simple and compound cuts on two variables, the weights of the           *)
(* estimation methods.                                                     *)
Ops == INSTANCE CutStrings WITH CutInputs <- {}, WeightInputs <- {}, Values <- {}, Variables <- {}, MaxCuts <- 0, MaxWeights <- 0, MaxCalls <- 0
Opposite == Ops!Compare("q", "<", 0)
TauIso == Ops!Compare("iso", ">", 1)
CutInputs == {<<Opposite, "os">>, <<TauIso, "tau_iso">>, <<Ops!Compare("iso", ">=", 1), "tau_iso">>, <<Ops!Flag("q"), "os">>,
              <<Ops!Compare("iso", "==", 1), None>>, <<Ops!Compare("iso", "!=", -1), None>>, <<Ops!Join("&&", Ops!Flag("q"), Ops!Flag("iso")), "os">>,
              <<Ops!Join("||", Ops!Compare("iso", "<", 1), Ops!Compare("iso", "==", 2)), "genmatch">>}
WeightInputs == {[name |-> "tau", value |-> 2, constant |-> FALSE], [name |-> "lumi", value |-> 3, constant |-> TRUE],
                   [name |-> None, value |-> 5, constant |-> TRUE]}
Values == -1 .. 2
Variables == {"q", "iso"}
Cut == INSTANCE CutStrings WITH MaxCuts <- 3, MaxWeights <- 3, MaxCalls <- 4

-----------------------------------------------------------------------------
(* Histograms and counts of one or two files, a cut that selects nothing,  *)
(* a folder that no file has, and all kinds of binnings.                   *)
Setting(kind, name, files, folder, cut) ==
  [kind |-> kind, name |-> name, inputfiles |-> files, folder |-> folder, cuts |-> cut, weights |-> "one",
   variable |-> IF kind = "Histogram" THEN "pt_1" ELSE None,
   binning |-> IF kind = "Histogram" THEN ConstantBins(4, 0, 100) ELSE None, result |-> NotYet]
Histogram(name, files, folder, cut) == Setting("Histogram", name, files, folder, cut)
Count(name, files, folder, cut) == Setting("Count", name, files, folder, cut)
WithBins(s, b) == [s EXCEPT !.binning = b]

h1 == Histogram("h1", <<"data", "mc">>, "mt", "loose")
h2 == Histogram("h2", <<"data", "mc">>, "mt", "loose")
tight == Histogram("h3", <<"mc">>, "mt", "tight")
variable == WithBins(Histogram("h2", <<"data">>, "mt", "loose"), VariableBins(<<10, 20, 30>>))
repeated == WithBins(Histogram("h2", <<"data">>, "mt", "loose"), VariableBins(<<10, 30, 20>>))
lost == Histogram("h3", <<"data">>, "et", "loose")
c1 == Count("c1", <<"data", "mc">>, "mt", "loose")
none == Count("c2", <<"data">>, "mt", "tight")
gone == Count("c2", <<"data">>, "et", "loose")

HolderSettings == {h1, tight, variable, repeated, lost, c1, none, gone}
HolderLists == {<<h1, h2>>, <<tight, tight>>, <<h2, h1, h2>>}
TreeEntries == [t \in {<<"data", "mt">>, <<"mc", "mt">>} |-> IF t[1] = "data" THEN [loose |-> 5, tight |-> 0] ELSE [loose |-> 3, tight |-> 2]]
Renamings == {"QCD"}

-----------------------------------------------------------------------------
(* Categories of both channels, data, simulated and data-driven processes, *)
(* pipelines and weights as variations; the two generations of the         *)
(* estimation methods.                                                     *)
Defs == INSTANCE Systematics WITH Version <- "2016", CategoryLists <- {}, ProcessNames <- {}, Variations <- {}, Keywords <- {}, BgProcesses <- <<>>,
                                  ShareProcesses <- FALSE, MaxSystematics <- 0, Modes <- {}
Category(channel, name, selected, removed) == [channel |-> channel, name |-> name, cuts |-> selected, variable |-> "pt_1", removed |-> removed]
CategoryLists == {<<Category("mt", "inclusive", {}, {}), Category("et", "boosted", {"pt_2"}, {})>>,
                 <<Category("mt", "all", {}, {"os"})>>, <<Category("et", "iso", {"tau_iso"}, {})>>}
ProcessNames == {"data_obs", "ZTT", "QCD"}
TauEs == Defs!create_syst_variations("tauEs", "pipeline")
Reapplied(direction) == <<Defs!Reapply_remove_weight("eventWeight", "eventWeight", direction)>>
SystVariations == {TauEs, Reapplied("Up"), Reapplied("Down")}
ByProcess == [key |-> "process", names |-> {<<"ZTT">>, <<"QCD">>}]
Keywords == {<<ByProcess>>, <<[key |-> "channel", names |-> {<<"mt">>}]>>, <<ByProcess, [key |-> "analysis", names |-> {<<"smhtt">>}]>>,
             <<[key |-> "bin", names |-> {<<"1">>}], ByProcess>>, <<>>}
Syst(version, max) == INSTANCE Systematics WITH Version <- version, Variations <- SystVariations, ShareProcesses <- TRUE,
                                                BgProcesses <- <<"ZTT", "WJ">>, MaxSystematics <- max, Modes <- {0, 1, 2}

-----------------------------------------------------------------------------
Init ==
  \/ component = "CutStrings" /\ Cut!Init /\ NoHistogramObjects /\ NoSystematics
  \/ component = "HistogramObjects" /\ HolderInit /\ NoCutStrings /\ NoSystematics
  \/ /\ \/ component = "Systematics" /\ Syst("2016", 4)!Init
        \/ component = "Systematics 2017" /\ Syst("2017", 2)!Init
     /\ NoCutStrings /\ NoHistogramObjects /\ calls = 0

CutNext == /\ component = "CutStrings" /\ Cut!Next
           /\ UNCHANGED <<component, HistogramObjectsVars, SystematicsVars>>
HistoNext == /\ component = "HistogramObjects" /\ HolderNext
             /\ UNCHANGED <<component, CutStringsVars, SystematicsVars>>
SystNext == /\ \/ component = "Systematics" /\ Syst("2016", 4)!Next
               \/ component = "Systematics 2017" /\ Syst("2017", 2)!Next
            /\ UNCHANGED <<component, CutStringsVars, HistogramObjectsVars, calls>>
Next == CutNext \/ HistoNext \/ SystNext
Spec == Init /\ [][Next]_vars

-----------------------------------------------------------------------------
Of(name, property) == component = name => property

\* No event passes a cut and its inverse, and a name means one cut; the sum of cuts
\* selects what both select, and a squared weight applies once more, until it is
\* removed (cutstring.py: Cut.invert, Cuts.__add__, Weights.square and remove).
CutsSelect == [][Of("CutStrings",
  /\ Cut!OneCutPerName' /\ (cuts' # cuts => Cut!RegionsDisjoint' /\ Cut!InvertTwice')
  /\ Cut!SumSelectsBoth /\ Cut!SquareAppliesOnceMore /\ Cut!RemovedIsGone)]_vars

\* Every shape is that of its own process, category and variation, and the QCD the
\* data minus the backgrounds, from the same-sign region.  Excepted are systematics that
\* share a Process, for its estimation method has the histograms of the last one only, or
\* whose Process was made for another channel (systematics.py: do_estimations, estimation_methods.py: do_estimation).
ShapesAsWanted == /\ Of("Systematics", Syst("2016", 4)!ShapesAsWanted /\ Syst("2016", 4)!OneShapeEach)
                  /\ Of("Systematics 2017", Syst("2017", 2)!NeverAdded)

\* Each nominal systematic gets each variation once, and no category changes when the
\* histograms are made (systematics.py: add_syst_var, estimation_methods.py: 243-245).
VariedOnce == [][Of("Systematics", Syst("2016", 4)!VariedOnce /\ Syst("2016", 4)!CategoriesKept)]_vars
=============================================================================
