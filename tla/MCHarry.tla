------------------------------- MODULE MCHarry -------------------------------
(***************************************************************************)
(* HarryPlotter without the drawing: the calls of harry.py and of several  *)
(* plots, and what the modules of one call do, each on its own.  Variables *)
(* of the other components are None.                                       *)
(***************************************************************************)
EXTENDS MultiPlots, ExportRoot, HarryCore, FiniteSets, FiniteSetsExt, TLC

VARIABLES component,                  \* the one that this behaviour is about
          options, i, tools, root_objects, root_trees, status,
          bins, n_read, root_histogram,
          pd, ran

HarryCoreVars == <<cli, json, defaults, processors, prepared, done, figure, toExport, exported, remote, end>>
InputRootVars == <<options, i, tools, root_objects, root_trees>>
RebinningVars == <<bins, n_read, root_histogram>>
ExportRootVars == <<plot, file, open, nick, item, exporting>>
AnalysisVars == <<pd, ran>>
Shared == <<pc, args, files, status>>       \* names that two of them use
vars == <<component, HarryCoreVars, plotsVars, InputRootVars, RebinningVars, ExportRootVars, AnalysisVars, Shared>>
NoHarryCore == cli = None /\ json = None /\ defaults = None /\ processors = None /\ prepared = None /\ done = None /\ figure = None /\ toExport = None /\ exported = None /\ remote = None /\ end = None
NoMultiPlots == call = None /\ dicts = None /\ texts = None /\ harry_args = None /\ cores = None /\ answers = None /\ output_filenames = None /\ failed = None /\ phase = None
NoInputRoot == options = None /\ i = None /\ tools = None /\ root_objects = None /\ root_trees = None
NoRebinning == bins = None /\ n_read = None /\ root_histogram = None
NoExportRoot == plot = None /\ file = None /\ open = None /\ nick = None /\ item = None /\ exporting = None
NoAnalysis == pd = None /\ ran = None

-----------------------------------------------------------------------------
(* harry.py with one module of each kind more than the defaults, and every *)
(* combination of up to three of the options below on the command line and *)
(* in a JSON file.  "lumi" is an option that two modules declare, "extra"  *)
(* one that only the analysis module knows.                                *)
CoreKind == "InputRoot" :> "Input" @@ "Ratio" :> "Analysis" @@ "PlotMpl" :> "Plot" @@ "ExportRoot" :> "Plot"
CoreDeclares == [m \in DOMAIN CoreKind |->
  CASE m = "InputRoot" -> "lumi" :> Str("1") [] m = "Ratio" -> "extra" :> Str("1")
    [] m = "PlotMpl" -> "www" :> Str("None")
    [] OTHER -> "www" :> Str("None") @@ "lumi" :> Str("2")]

\* Partial functions with at most two of the options.
CoreOptions == "analysis_modules" :> {Lst(<<"Ratio">>), Lst(<<"Rat">>)} @@ "plot_modules" :> {Lst(<<"PlotMpl">>), Lst(<<"PlotMpl", "ExportRoot">>)}
  @@ "lumi" :> {Str("1"), Str("2")} @@ "extra" :> {Str("1")} @@ "www" :> {Str("x")} @@ "export_json" :> {Str("update"), Str("False")}
  @@ "list_available_modules" :> {Str("True")}
Options(S) == UNION {{f \in [D -> UNION {CoreOptions[k] : k \in D}] : \A k \in D : f[k] \in CoreOptions[k]} : D \in {E \in SUBSET S : Cardinality(E) <= 3}}
GivenOptions == Options(DOMAIN CoreOptions)
InJson == Options({"analysis_modules", "plot_modules", "lumi", "extra"})
          \cup {"plot_modules" :> Str("ExportRoot"), "analysis_modules" :> Str("Ratio"), "plot_modules" :> Lst(<<>>), "unknown" :> Str("1")}
DefaultFiles == {<<>>} \cup {<<f>> : f \in InJson}

-----------------------------------------------------------------------------
(* Up to three plots, from lists of different lengths, also empty ones,    *)
(* with and without JSON defaults.                                         *)
C(own, base) == [own |-> own, base |-> base]
Settings == {"a", "b", "c"}
Bases == {"defaults"}
Configs == {None, <<C("a", None)>>, <<C("a", "defaults")>>, <<C("a", "defaults"), C("b", None)>>, <<>>, <<None, C("b", "defaults")>>,
              <<C("a", None), C("b", None), C("c", "defaults")>>}
Texts == {None, <<<<>>>>, <<<<C("c", None)>>, <<>>, <<>>>>, <<>>, <<<<>>, None>>}
PlotCalls == [configs : Configs, texts : Texts, processes : {1, 2}, plots : {None, 0, 1, 2}]

-----------------------------------------------------------------------------
(* Two files with a tree and a histogram each, a third one with a tree     *)
(* only, and plots with up to three inputs of any kind.                    *)
Axis == INSTANCE InputRoot WITH Inputs <- {}, Globbed <- <<>>, Type <- <<>>, Stored <- <<>>
f1 == "f1"
f2 == "f2"
f3 == "f3"
Words(s) == [remote |-> FALSE, words |-> s]
Remote(f) == [remote |-> TRUE, words |-> <<f>>]
Globbed == [p \in {None, "a", "b"} \X {"f1", "f2", "f3", "f*", "g"} |->
  CASE p[2] = "g" -> <<>>
    [] p[1] = "b" -> <<>>
    [] p[2] = "f*" -> <<f1, f2>>
    [] OTHER -> <<p[2]>>]
Type == [p \in {f1, f2, f3} \X {"t", "u", "d", "", "z"} |->
  CASE p[2] = "t" -> "TTree"
    [] p[2] = "u" -> IF p[1] = f1 THEN "TTree" ELSE "none"
    [] p[2] = "z" -> "other"
    [] p[2] = "d" -> IF p[1] = f3 THEN "none" ELSE "TDirectory"
    [] OTHER -> "TDirectory"]
InFile(key, axis) == [kind |-> "TH1", axes |-> <<axis>>, fills |-> (<<key, "stored">> :> 1)]
Stored == (<<f1, "d", "h">> :> InFile(f1, Axis!Uniform(4, 0, 8))) @@ (<<f2, "d", "h">> :> InFile(f2, Axis!Uniform(4, 0, 8)))
            @@ (<<f1, "d", "g">> :> [kind |-> "TGraph", axes |-> <<>>, fills |-> <<>>]) @@ (<<f2, "d", "k">> :> InFile(f2, Axis!Uniform(2, 0, 8)))

Usual == [nicks |-> <<None>>, x |-> <<"p">>, y |-> <<None>>, xb |-> <<None>>, yb |-> <<None>>, scale |-> <<None>>,
      files |-> <<Words(<<"f1">>)>>, dirs |-> <<None>>, folders |-> <<<<"t">>>>, weights |-> <<"1">>, draw |-> <<"">>,
      keep_trees |-> TRUE, multiply_uncertainties |-> None]
With(changes) == changes @@ Usual
Three == [files |-> <<Words(<<"f1">>), Words(<<"f2">>), Words(<<"f*", "f3">>)>>]

NickLists == {<<None>>, <<"a">>, <<"a", "b", "a">>, <<"b", "a", "a">>}
Trees == {With([nicks |-> n, x |-> x, scale |-> s] @@ Three) :
            n \in NickLists, x \in {<<"p">>, <<"p", "q">>, <<"p", "q", "p">>}, s \in {<<None>>, <<"2", "3", "5">>}}
Factors(s) == [j \in DOMAIN s |-> CASE s[j] = "2" -> 2 [] s[j] = "3" -> 3 [] s[j] = "5" -> 5 [] OTHER -> None]
Draws == {With([draw |-> d, y |-> IF d = <<"TGraph", "">> THEN <<"q", None>> ELSE <<None, "q", None>>, xb |-> <<b>>, nicks |-> n] @@ Three) :
            d \in {<<"">>, <<"TGraph", "">>, <<"prof", "", "prof">>, <<"", "prof", "">>},
            b \in {None, Axis!Number(3), Axis!Uniform(2, 0, 8), Axis!Custom(<<0, 1, 8>>)}, n \in {<<None>>, <<"a">>}}
InDirectories == {With([folders |-> <<f>>, x |-> x, files |-> fs, xb |-> <<b>>, nicks |-> n, scale |-> <<2, 3>>]) :
            f \in {<<"d">>, <<"t">>, <<"z">>, <<"u">>}, x \in {<<"h">>, <<"g">>, <<"k">>, <<None>>, <<"h", "g">>, <<"h", "k">>, <<"g", "h">>},
            fs \in {<<Words(<<"f1">>)>>, <<Words(<<"f2">>)>>, <<Words(<<"f*">>)>>, <<Words(<<"f*">>), Words(<<"f1">>)>>},
            b \in {None, Axis!Number(2)}, n \in {<<"a">>, <<"a", "b">>}}
Special == {With([folders |-> <<<<"t", "u">>>>] @@ Three), With([dirs |-> <<<<"a", "b">>>>] @@ Three), With([dirs |-> <<<<"b">>>>]),
            With([files |-> None]), With([files |-> <<Words(<<"g">>)>>]), With([files |-> <<Remote(f3)>>]), With([weights |-> <<"1", "w">>] @@ Three),
            With([files |-> <<Words(<<"f1", "f1">>)>>]), With([yb |-> <<Axis!Uniform(2, 0, 8)>>, y |-> <<"q">>, draw |-> <<"prof">>]),
            With([files |-> <<Words(<<"f1">>), Words(<<"f2">>), Words(<<"f3">>), Words(<<"f*">>)>>, x |-> <<"p", "q">>, nicks |-> <<"a", "b", "c">>]),
            With([multiply_uncertainties |-> <<2>>]), With([multiply_uncertainties |-> <<2>>, folders |-> <<<<"d">>>>, x |-> <<"h">>]), With([files |-> <<Words(<<"f1">>), Words(<<"f2">>), Words(<<"f3">>)>>, x |-> <<"p", "q">>, weights |-> <<"1", "w">>, keep_trees |-> FALSE])}
Numbers(o) == IF o.scale = <<"2", "3", "5">> THEN [o EXCEPT !.scale = Factors(@)] ELSE o
Inputs == {Numbers(o) : o \in Trees} \cup Draws \cup InDirectories \cup Special
Input == INSTANCE InputRoot

-----------------------------------------------------------------------------
(* Histograms of one to three dimensions in one or two files, and all      *)
(* kinds of bins.  The content of each bin is a power of two, so that a    *)
(* sum tells which bins are in it.                                         *)
Reb == INSTANCE Rebinning WITH Files <- {}, n <- n_read
Axes == {<< <<0, 2, 4, 8>> >>, << <<0, 2, 4, 6, 8>> >>, << <<0, 8>> >>,
         << <<0, 2, 4>>, <<0, 1>> >>, << <<0, 2>>, <<0, 2, 4>> >>, << <<0, 2, 4>>, <<0, 2, 4>> >>,
         << <<0, 2, 4>>, <<0, 4>>, <<0, 4>> >>, << <<0, 2, 4>>, <<0, 2, 4>>, <<0, 4>> >>}
Weight(axes, b) == 2 ^ Cardinality({k \in Reb!Bins(axes) : \E d \in DOMAIN axes : k[d] < b[d] /\ \A x \in 1..d - 1 : k[x] = b[x]})
Filled(axes) == [axes |-> axes, c |-> [b \in Reb!Bins(axes) |-> IF Len(axes) < 3 THEN Weight(axes, b) ELSE 1]]
Tripled(h) == [h EXCEPT !.c = [b \in DOMAIN h.c |-> 3 * h.c[b]]]
XBinnings == {Reb!NoBins, Reb!Number(1), Reb!Number(2), Reb!Number(3), Reb!Limits(2, 0, 8), Reb!Limits(4, 0, 8), Reb!Widths(<<0, 4, 8>>), Reb!Widths(<<2, 4>>), Reb!Widths(<<-4, 0, 3, 8>>)}
YBinnings == {Reb!NoBins, Reb!Number(1), Reb!Widths(<<0, 4>>), Reb!Widths(<<2, 4>>)}

FilesAndBins == {[files |-> fs, bins |-> <<x, y, Reb!NoBins>>] :
              fs \in UNION {{<<Filled(a)>>, <<Filled(a), Tripled(Filled(a))>>, <<Filled(a), None>>} : a \in Axes}, x \in XBinnings, y \in YBinnings}
Bins == INSTANCE Rebinning WITH Files <- FilesAndBins, n <- n_read

-----------------------------------------------------------------------------
(* Two or three nicks, labels with and without directories, metadata, and  *)
(* files that an earlier export has written.                               *)
NoData == [objects |-> <<>>, json |-> FALSE]
SomeData == [objects |-> <<"fit">>, json |-> TRUE]
Exports == [nicks : {<<"a", "b">>, <<"a", "b", "c">>},
            labels : {<<Unlabelled>>, <<<<"d", "a">>, <<"d", "b">>>>, <<<<"d", "e", "a">>, Unlabelled>>, <<<<"l">>>>,
                      <<<<"l">>, <<"l", "m">>>>, <<<<"l", "m">>, <<"l">>>>, <<<<"d">>>>},
            nicks_instead_labels : BOOLEAN, custom_rebin : BOOLEAN,
            metadata : {[a |-> m, b |-> NoData, c |-> n] : m \in {NoData, SomeData}, n \in {NoData, SomeData}},
            file_mode : {"RECREATE", "UPDATE"},
            before : {<<>>, (<<"d">> :> Directory) @@ (<<"d", "a">> :> <<"a", "old">>), (<<"d">> :> <<"z", "old">>)}]
PlotsToExport == {p \in Exports : p.custom_rebin = (p.file_mode = "UPDATE")}

-----------------------------------------------------------------------------
(* Contents below, at and above zero in three bins, every module once; and *)
(* chains of two modules on two bins.                                      *)
F == INSTANCE Fractions
Seq3(x, y, z) == <<F!Int2F(x), F!Int2F(y), F!Int2F(z)>>
Once == INSTANCE AnalysisChain WITH NBins <- 3, Contents <- {F!Int2F(-1), F!Zero, F!Int2F(2)}, Others <- {Seq3(0, 0, 0), Seq3(0, 1, 1), Seq3(1, 0, 1), Seq3(1, 1, 1)},
                                    Underflows <- {F!One}, Depth <- 1, Few <- FALSE
Twice == INSTANCE AnalysisChain WITH NBins <- 2, Contents <- {}, Others <- {<<F!Int2F(2), F!Int2F(2)>>}, Underflows <- {}, Depth <- 2, Few <- TRUE

-----------------------------------------------------------------------------
Init ==
  \/ /\ component = "HarryCore" /\ CoreInit
     /\ NoMultiPlots /\ NoInputRoot /\ NoRebinning /\ NoExportRoot /\ NoAnalysis /\ status = None
  \/ /\ component = "MultiPlots" /\ PlotsInit
     /\ NoHarryCore /\ NoInputRoot /\ NoRebinning /\ NoExportRoot /\ NoAnalysis
     /\ pc = None /\ args = None /\ files = None /\ status = None
  \/ /\ component = "InputRoot" /\ Input!Init
     /\ NoHarryCore /\ NoMultiPlots /\ NoRebinning /\ NoExportRoot /\ NoAnalysis
     /\ pc = None /\ files = None
  \/ /\ component = "Rebinning" /\ Bins!Init
     /\ NoHarryCore /\ NoMultiPlots /\ NoInputRoot /\ NoExportRoot /\ NoAnalysis
     /\ pc = None /\ args = None
  \/ /\ component = "ExportRoot" /\ ExportInit
     /\ NoHarryCore /\ NoMultiPlots /\ NoInputRoot /\ NoRebinning /\ NoAnalysis
     /\ pc = None /\ args = None /\ files = None /\ status = None
  \/ /\ \/ component = "Module" /\ Once!Init
        \/ component = "Chain" /\ Twice!Init
     /\ NoHarryCore /\ NoMultiPlots /\ NoInputRoot /\ NoRebinning /\ NoExportRoot /\ pc = None /\ args = None /\ files = None /\ status = None

HarryNext == /\ component = "HarryCore" /\ CoreNext
             /\ UNCHANGED <<component, plotsVars, InputRootVars, RebinningVars, ExportRootVars, AnalysisVars, status>>
MultiNext == /\ component = "MultiPlots" /\ PlotsNext
             /\ UNCHANGED <<component, HarryCoreVars, InputRootVars, RebinningVars, ExportRootVars, AnalysisVars, Shared>>
InputNext == /\ component = "InputRoot" /\ Input!Next
             /\ UNCHANGED <<component, HarryCoreVars, plotsVars, RebinningVars, ExportRootVars, AnalysisVars, pc, files>>
BinsNext == /\ component = "Rebinning" /\ Bins!Next
            /\ UNCHANGED <<component, HarryCoreVars, plotsVars, InputRootVars, ExportRootVars, AnalysisVars, pc, args>>
FileNext == /\ component = "ExportRoot" /\ ExportNext
              /\ UNCHANGED <<component, HarryCoreVars, plotsVars, InputRootVars, RebinningVars, AnalysisVars, pc, args, files, status>>
ModuleNext == /\ \/ component = "Module" /\ Once!Next
                 \/ component = "Chain" /\ Twice!Next
              /\ UNCHANGED <<component, HarryCoreVars, plotsVars, InputRootVars, RebinningVars, ExportRootVars, Shared>>
Next == HarryNext \/ MultiNext \/ InputNext \/ BinsNext \/ FileNext \/ ModuleNext
Spec == Init /\ [][Next]_vars /\ WF_vars(HarryNext) /\ WF_vars(MultiNext)

-----------------------------------------------------------------------------
Of(name, property) == component = name => property

\* A call of harry.py ends, whatever its options and modules.  So does one for many plots,
\* also if some of them exit or raise an exception in the processes of a pool; only when
\* such a process is killed, the caller polls for ever (harry.py: pool_plot, multi_plots,
\* tools.py:178).
CallsEnd == /\ (component = "HarryCore") ~> (component = "HarryCore" /\ end # None)
            /\ (component = "MultiPlots") ~> phase \in {"done", "raised", "killed"}

\* The histogram of a nick is the scaled sum of all its inputs, its trees are all of
\* theirs, and histograms with the same bins have the same axis (inputroot.py: run,
\* inputbase.py: run, roottools.py: histogram_from_tree, histogram_from_file).
NicksAreSums == Of("InputRoot", Input!NicksAreSums /\ Input!TreesKept /\ Input!AxesAgree)

\* A rebinned histogram has in each bin the sum of the bins it covers, in every file
\* (roottools.py: histogram_from_file, rebin_root_histogram).
BinsAreSums == Of("Rebinning", Bins!BinsAreSums /\ Bins!ContentsMove)

\* An analysis module changes no object but its result or target, and after each module
\* of a chain every nick that is drawn has an object.
PlotDataConsistent == [][/\ Of("Module", Once!OthersUntouched /\ Once!NicksResolve')
                        /\ Of("Chain", Twice!OthersUntouched /\ Twice!NicksResolve')]_vars

\* Sums, quotients, normalisations, corrections, efficiencies and correlations are what
\* their modules promise, in every bin and for every content.
ModulesAsPromised == [][Of("Module", Once!ModulesAsPromised)]_vars
=============================================================================
