---------------------------- MODULE AnalysisChain ----------------------------
(***************************************************************************)
(* HarryPlotter's analysis phase: analysis modules run one after the other *)
(* on the plot data (HarryCore.run, core.py), each with options that a     *)
(* user can give it.  The result of a module may be the input of the next. *)
(***************************************************************************)
EXTENDS AnalysisModules

CONSTANTS Contents,       \* contents of the bins of the first histogram
          Others,         \* contents of the second one and of the graphs, bin by bin
          Underflows,     \* contents of the underflow of the inputs
          Depth,          \* modules in a chain
          Few             \* inputs: a fixed first histogram and two stacks only

VARIABLES pd, ran         \* the plot data; the modules that ran, with their options
vars == <<ran, pd>>

Input(under, f) == Histogram([b \in FlowBin |-> CASE b = 0 -> under [] b = NBins + 1 -> Zero [] OTHER -> f[b]],
                             [b \in FlowBin |-> b \in Bin /\ f[b] # Zero])
Ramp == [b \in Bin |-> Int2F(b - 1)]
Firsts == IF Few THEN {Input(One, Ramp)} ELSE {Input(u, f) : u \in Underflows, f \in [Bin -> Contents]}
Seconds == {Input(Zero, f) : f \in Others}
Errors == [b \in Bin |-> One]
Drawn(f) == Graph("TGraphErrors", f, Errors, Errors)
Asymmetric(f) == Graph("TGraphAsymmErrors", f, [b \in Bin |-> Int2F(2)], Errors)

\* Histograms only, or a histogram with two graphs.
Init ==
  /\ ran = <<>>
  /\ \/ \E x \in Firsts, y \in Seconds, s \in IF Few THEN {"t"} ELSE {"s", "t"} :
          pd = [nicks |-> <<"a", "b">>, objects |-> "a" :> x @@ "b" :> y, stacks |-> <<"s", s>>, failed |-> FALSE]
     \/ \E f \in Others :
          pd = [nicks |-> <<"a", "g", "h">>, stacks |-> <<"s", "s", "s">>, failed |-> FALSE,
                objects |-> "a" :> Input(Zero, Ramp) @@ "g" :> Drawn(f) @@ "h" :> Asymmetric(Ramp)]

\* Objects that modules take: the ones of two kinds of points are left to plotting.
Usable == {n \in DOMAIN pd.objects : pd.objects[n].kind # "Points"}
TH1s == {n \in Usable : IsTH1(pd.objects[n])}
TGraphs == Usable \ TH1s
Fresh == {"r", "b"}                    \* result nicks: a new one, or one that is there

Apply(module, options, targets, result) ==
  /\ ran' = Append(ran, [module |-> module, options |-> options, targets |-> targets])
  /\ pd' = result

Targeted(module, i) == Apply(module, i, {i.result}, CASE
  module = "AddHistograms" -> AddHistograms(pd, <<i>>)
    [] module = "SumOfHistograms" -> SumOfHistograms(pd, <<i>>)
    [] module = "AverageHistograms" -> AverageHistograms(pd, <<i>>)
    [] module = "CombineHistograms" -> CombineHistograms(pd, <<i>>)
    [] module = "Ratio" -> Ratio(pd, <<i>>)
    [] module = "ShapeYieldMerge" -> ShapeYieldMerge(pd, <<i>>)
    [] module = "BlindingPolicy" -> BlindingPolicy(pd, <<i>>)
    [] module = "Errorband" -> Errorband(pd, <<i>>)
    [] module = "TGraphFromHistograms" -> TGraphFromHistograms(pd, <<i>>))

Summing == \E m \in {"AddHistograms", "SumOfHistograms"}, x, y \in TH1s, r \in Fresh,
              how \in {[scales |-> <<>>, position |-> None], [scales |-> <<>>, position |-> 0], [scales |-> <<Int2F(-1), Int2F(2)>>, position |-> 1]} :
  Targeted(m, [nicks |-> <<x, y>>, scales |-> how.scales, position |-> how.position, result |-> r])
Averaging == \E x, y \in TH1s, r \in Fresh, m \in {"minmax", "maxdiff", "average"} :
  Targeted("AverageHistograms", [nicks |-> <<x, y>>, method |-> m, result |-> r])
Combining == \E x, y \in TH1s, r \in Fresh : Targeted("CombineHistograms", [nicks |-> <<x, y>>, result |-> r])
Dividing == \E n, d \in Usable, r \in Fresh, e, t \in BOOLEAN :
  Apply("Divide", [num |-> n, den |-> d], {r},
        Divide(pd, <<[num |-> n, den |-> d, result |-> r, no_errors |-> e, tgraphs |-> t]>>))
DividingByDefault == Range(pd.nicks) \cap DOMAIN pd.objects \subseteq Usable /\ \E t \in BOOLEAN :
  Apply("Divide", [num |-> pd.nicks[1], den |-> pd.nicks[2]], {"divide"},
        Divide(pd, <<[num |-> None, den |-> None, result |-> None, no_errors |-> FALSE, tgraphs |-> t]>>))
Rating == \E n, d \in Usable, more \in BOOLEAN, r \in Fresh :
  Targeted("Ratio", [num |-> IF more THEN <<n, d>> ELSE <<n>>, den |-> <<d>>, result |-> r,
                     num_no_errors |-> FALSE, den_no_errors |-> TRUE])
Scaling == \E n \in Usable, r \in Fresh \cup {None}, c \in {Zero, Int2F(2)} :
  Apply("ScaleHistograms", [nick |-> n, scale |-> c], {IF r = None THEN n ELSE r},
        ScaleHistograms(pd, <<[nick |-> n, scale |-> c, result |-> r]>>))
ScalingByIntegral == \E n, o \in TH1s, r \in Fresh \cup {None}, inverse \in BOOLEAN :
  Apply("ScaleByIntegral", [nick |-> n, of |-> o, inverse |-> inverse], {IF r = None THEN n ELSE r},
        ScaleByIntegral(pd, <<[nick |-> n, of |-> o, inverse |-> inverse, result |-> r]>>))
RemovingErrors == \E n \in Usable :
  Apply("ScaleErrors", [nick |-> n], {n}, ScaleErrors(pd, <<[nick |-> n, factor |-> Zero]>>))
Extrapolating == \E n, d, x \in TH1s :
  Apply("ExtrapolationFactor", [num |-> n, den |-> d, nick |-> x], {x},
        ExtrapolationFactor(pd, [num |-> <<n>>, den |-> <<d>>, nicks |-> <<x>>]))
Merging == \E s, y \in TH1s, r \in Fresh : Targeted("ShapeYieldMerge", [shape |-> s, yield |-> y, result |-> r])
Normalizing ==
  \/ Apply("NormalizeByBinWidth", [nicks |-> pd.nicks], {}, NormalizeByBinWidth(pd, pd.nicks))
  \/ Apply("NormalizeToUnity", [nicks |-> pd.nicks], TH1s, NormalizeToUnity(pd))
  \/ Usable = DOMAIN pd.objects /\ Range(pd.nicks) \subseteq Usable /\ TGraphs = {}
     /\ \/ Apply("NormalizeToFirstHisto", [nicks |-> pd.nicks], TH1s \ {pd.nicks[1]}, NormalizeToFirstHisto(pd))
        \/ Apply("NormalizeStackToFirstHisto", [nicks |-> pd.nicks], TH1s \ {pd.nicks[1]}, NormalizeStackToFirstHisto(pd))
        \/ Apply("NormalizeStacksToUnity", [nicks |-> pd.nicks], TH1s, NormalizeStacksToUnity(pd))
  \/ \E n, x \in TH1s : Apply("NormalizeHistogram", [nicks |-> pd.nicks], {n}, NormalizeHistogram(pd, <<[ref |-> x, nick |-> n]>>))

Manipulating == \E n \in TH1s :
  \/ Apply("AbsoluteBinContents", [nick |-> n], {n}, AbsoluteBinContents(pd, <<n>>))
  \/ Apply("ShiftBinContents", [nick |-> n], {n}, ShiftBinContents(pd, <<n>>, One))
  \/ Apply("ConstBinContentsMin", [nick |-> n], {n}, ConstBinContentsMin(pd, <<n>>, Int2F(9)))
  \/ Apply("CorrectNegativeBinContents", [nick |-> n], {n}, CorrectNegativeBinContents(pd, <<n>>))
  \/ Apply("FillEmptyHistograms", [nick |-> n], {n}, FillEmptyHistograms(pd, <<n>>, One))
  \/ Apply("BinErrorsOfEmptyBins", [nick |-> n], {n}, BinErrorsOfEmptyBins(pd, <<n>>, One))
ManipulatingAll ==
  \/ Apply("CorrectNegativeBinContents", [nicks |-> pd.nicks], TH1s, CorrectNegativeBinContents(pd, <<>>))
  \/ Apply("ConvertToHistogram", [nicks |-> pd.nicks], Usable,
           IF Usable = DOMAIN pd.objects THEN ConvertToHistogram(pd, None) ELSE ConvertToHistogram(pd, <<"a">>))
Masking == \E delta \in {None, One}, reference \in TH1s \cup {None}, order \in SetToSeqs(DOMAIN pd.objects) :
  Apply("MaskHistograms", [reference |-> reference], TH1s,
        MaskHistograms(pd, [nicks |-> <<>>, delta |-> delta, reference |-> reference, value |-> Zero], order))
Blinding == \E s, t \in TH1s, r \in Fresh : Targeted("BlindingPolicy", [signal |-> <<s>>, background |-> <<t>>, result |-> r])

Banding == \E c, u, d \in TH1s, p \in BOOLEAN : Targeted("Errorband", [nicks |-> <<c, u, d>>, percent |-> p, result |-> "r"])
CombiningGraphs == \E v, l \in TGraphs, h \in TGraphs \cup {None}, m \in {"rel", "abs"}, r \in {"r", None} :
  LET i == [values |-> v, low |-> l, high |-> h, mode |-> m, result |-> r] IN
  Apply("GraphCombination", i, IF r = None /\ h # None THEN {CombinationName(i)} ELSE {"r"}, GraphCombination(pd, <<i>>))
Splitting == \E g \in TGraphs :
  LET c == [nicks |-> <<g>>, components |-> <<"yelow", "yehigh">>] IN
  Apply("SplitGraphComponents", c, {SplitName(i) : i \in Range(SplitNicks(c))}, SplitGraphComponents(pd, c))
Correlating == \E x, y \in TH1s \cup {None}, s \in {None, "any", "left", "right", "True"} :
  /\ (x = None) = (y = None)
  /\ x = None => Range(pd.nicks) \cap DOMAIN pd.objects \subseteq Usable
  /\ Targeted("TGraphFromHistograms", [x |-> x, y |-> y, skip |-> s, result |-> "r"])
Modes == {"sigEff", "sigRej", "bkgEff", "bkgRej", "sigEffVsBkgEff", "sigEffVsBkgRej", "sigRejVsBkgEff",
          "sigRejVsBkgRej", "sigPur"}
Selecting == \E n, d \in TH1s :
  \/ Apply("Efficiency", [num |-> n, den |-> d], {n \o "_" \o d},
           Efficiency(pd, [num |-> <<n, "lost">>, den |-> <<d>>, results |-> <<None>>]))
  \/ \E m \in Modes, lower \in BOOLEAN :
       Apply("CutEfficiency", [sig |-> n, bkg |-> d, mode |-> m, lower |-> lower], {"r"},
             CutEfficiency(pd, [num |-> <<n>>, den |-> <<d>>, results |-> <<"r">>, mode |-> m, lower |-> lower]))
ShowingErrors == \E n \in Usable, relative \in BOOLEAN :
  Apply("StatisticalErrors", [nick |-> n], {IF IsTH1(pd.objects[n]) THEN "e" ELSE n},
        StatisticalErrors(pd, <<[nick |-> n, result |-> "e", relative |-> relative]>>))
AddingLine == \E n \in {None, "b"}, y \in {None, <<One, Zero>>} :
  Apply("AddLine", [nick |-> n], {IF n = None THEN "line0" ELSE n}, AddLine(pd, [nick |-> n, x |-> <<Zero, One, One>>, y |-> y]))

Modules ==
  \/ Summing \/ Averaging \/ Combining \/ Dividing \/ DividingByDefault \/ Rating
  \/ Scaling \/ ScalingByIntegral \/ RemovingErrors \/ Extrapolating \/ Merging \/ Normalizing
  \/ Manipulating \/ ManipulatingAll \/ Masking \/ Blinding
  \/ Banding \/ CombiningGraphs \/ Splitting \/ Correlating \/ Selecting \/ ShowingErrors \/ AddingLine
Next == Len(ran) < Depth /\ ~pd.failed /\ Modules
Spec == Init /\ [][Next]_vars

-----------------------------------------------------------------------------
(* What the modules promise, one by one and in chains.                     *)
step == ran'[Len(ran')]
Step(modules) == ~pd'.failed /\ step.module \in modules

\* A module changes no object but those its options name as its result or its target:
\* what it computes with are copies (Clone, deepcopy in the run methods).
OthersUntouched ==
  ~pd'.failed => \A n \in DOMAIN pd.objects \ step.targets : pd'.objects[n] = pd.objects[n]

\* Every nick that is drawn has an object, also where a module lists its result before
\* it computes it.  (statistical_errors of a graph is the exception: it lists a result that it gives to
\* the graph itself, statisticalerrors.py.)
NicksResolve ==
  (~pd.failed /\ \A k \in DOMAIN ran : ran[k].module # "StatisticalErrors")
    => Range(pd.nicks) \subseteq DOMAIN pd.objects

\* A sum is linear in every bin and in the flows, also when its result replaces one of
\* the summands (add_root_histograms).
SumIsLinear ==
  Step({"AddHistograms", "SumOfHistograms"}) =>
       LET o == step.options
           s == IF o.scales = <<>> THEN <<One, One>> ELSE o.scales
       IN \A b \in FlowBin : pd'.objects[o.result].y[b] =
            (pd.objects[o.nicks[1]].y[b] ** s[1]) ++ (pd.objects[o.nicks[2]].y[b] ** s[2])

\* A quotient times the denominator is the numerator where the denominator is not 0, and
\* 0 elsewhere, for histograms, graphs and both together (divide, TH1::Divide).
QuotientInverts ==
  Step({"Divide"}) /\ {step.options.num, step.options.den} \subseteq DOMAIN pd.objects =>
       LET r == pd'.objects[CHOOSE n \in step.targets : TRUE]
           num == pd.objects[step.options.num]
           den == pd.objects[step.options.den]
       IN \A b \in Bin : IF den.y[b] = Zero THEN r.y[b] = Zero ELSE (r.y[b] ** den.y[b]) = num.y[b]

\* Normalisation: what is scaled has the integral it was promised, and what cannot be
\* scaled is left empty (normalization.py, scalebyintegral.py).
Scaled(n, integral) == Integral(pd'.objects[n]) \in {Zero, integral}
Normalized ==
  CASE Step({"NormalizeToUnity"}) -> \A n \in TH1s : Scaled(n, One)
       [] Step({"NormalizeToFirstHisto"}) -> \A n \in TH1s : Scaled(n, Integral(pd.objects[pd.nicks[1]]))
       [] Step({"NormalizeStackToFirstHisto"}) ->
            LET others == TH1s \ {pd.nicks[1]}
            IN SumF([n \in others |-> Integral(pd'.objects[n])], others) \in {Zero, Integral(pd.objects[pd.nicks[1]])}
       [] OTHER -> TRUE

\* After correct_negative_bin_contents no bin is negative, and the integral is what it
\* was unless it was negative, although the histogram is rescaled in the middle.
NegativesCorrected ==
  Step({"CorrectNegativeBinContents"}) => \A n \in step.targets :
       /\ \A b \in Bin : ~Less(pd'.objects[n].y[b], Zero)
       /\ ~Less(Integral(pd.objects[n]), Zero) => Integral(pd'.objects[n]) = Integral(pd.objects[n])

\* Efficiencies and rejections of a cut are between 0 and 1 and move one way along the
\* cut; the reverse order of the cut turns the direction (CutEfficiency).
CutsAreMonotone ==
  Step({"CutEfficiency"}) /\ step.options.mode \in {"sigEff", "bkgEff", "sigRej", "bkgRej"} =>
       LET points == pd'.objects["r"].points
           source == pd.objects[IF step.options.mode \in {"sigEff", "sigRej"} THEN step.options.sig ELSE step.options.bkg]
           rises == step.options.lower = (step.options.mode \in {"sigEff", "bkgEff"})
       IN (\A b \in Bin : ~Less(source.y[b], Zero)) => \A k \in DOMAIN points :
            /\ ~Less(points[k][2], Zero) /\ ~Less(One, points[k][2])
            /\ \A l \in 1 .. k - 1 : IF rises THEN ~Less(points[k][2], points[l][2]) ELSE ~Less(points[l][2], points[k][2])

\* The bins of a correlation graph are those between the first and the last that is not
\* empty in both histograms, or on one side of them, or only those that are not empty.
Stripped ==
  Step({"TGraphFromHistograms"}) =>
       LET nick(k, default) == IF k = None THEN default ELSE k
           x == pd.objects[nick(step.options.x, pd.nicks[1])]
           y == pd.objects[nick(step.options.y, pd.nicks[2])]
           s == step.options.skip
           filled == {b \in Bin : ~Empty(x, y, b)}
           after(b) == \E c \in filled : c <= b
           before(b) == \E c \in filled : c >= b
           kept == {b \in Bin : CASE s = None -> TRUE [] s = "any" -> b \in filled [] s = "left" -> after(b)
                                  [] s = "right" -> before(b) [] s = "True" -> after(b) /\ before(b)}
           bins == SetToSortSeq(kept, <)
       IN pd'.objects["r"].points = [k \in DOMAIN bins |-> <<x.y[bins[k]], y.y[bins[k]]>>]

\* What each kind of module makes of its operands.
ModulesAsPromised == SumIsLinear /\ QuotientInverts /\ Normalized /\ NegativesCorrected /\ CutsAreMonotone /\ Stripped
=============================================================================
