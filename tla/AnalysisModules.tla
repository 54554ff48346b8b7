---------------------------- MODULE AnalysisModules ----------------------------
(***************************************************************************)
(* The analysis modules of HarryPlotter: those that add, divide and scale  *)
(* histograms or change them bin by bin, and those that make graphs of     *)
(* histograms or of graphs (HarryPlotter/python/analysis_modules).  A      *)
(* module gets the plot data and its items - the values its options have   *)
(* at one index, after prepare_list_args - and gives the plot data after   *)
(* prepare_args and run.  Only option values that a caller can give are    *)
(* meant; None is the default of an option.                                *)
(***************************************************************************)
EXTENDS PlotData

Objects(pd, nicks) == [i \in DOMAIN nicks |-> pd.objects[nicks[i]]]

\* add_histograms: the result is listed when the arguments are prepared, behind
\* the last summand or at a position, of which 0 counts as none.
AddPrepare(pd, i) ==
  CASE Known(pd, i.result) -> pd
    [] ~Known(pd, i.result) /\ i.position \in {None, 0} -> InsertBy(pd, Last(i.nicks), 1, i.result)
    [] OTHER -> Insert(pd, i.position + 1, i.result)
AddRun(pd, i) ==
  Given(pd, Range(i.nicks), Put(pd, i.result, add_root_histograms(Objects(pd, i.nicks), i.scales)))
AddHistograms(pd, items) == Each(AddRun, Each(AddPrepare, pd, items), items)

\* sum_of_histograms: the same, but the result comes before the last summand and
\* only after the sum is there.
SumRun(pd, i) ==
  LET sum == Put(pd, i.result, add_root_histograms(Objects(pd, i.nicks), i.scales))
      last == CHOOSE n \in Range(i.nicks) : \A m \in Range(i.nicks) : At(pd, m) <= At(pd, n)
  IN Given(pd, Range(i.nicks),
       CASE Known(pd, i.result) -> sum
         [] ~Known(pd, i.result) /\ \A n \in Range(i.nicks) : Known(pd, n) -> InsertBy(sum, last, 0, i.result)
         [] OTHER -> Fail(pd))
SumOfHistograms(pd, items) == Each(SumRun, pd, items)

\* average_histograms, for the methods without square roots.
Averaged(method, S, list) ==
  LET half == <<1, 2>> IN
  CASE method = "minmax"  -> (MaxF(S) ++ MinF(S)) ** half
    [] method = "maxdiff" -> (MaxF(S) -- MinF(S)) ** half
    [] method = "average" -> SumF(list, DOMAIN list) // Int2F(Len(list))
AverageRun(pd, i) ==
  LET at(b) == [k \in DOMAIN i.nicks |-> pd.objects[i.nicks[k]].y[b]]
      result == SetContents(pd.objects[i.nicks[1]],
                            [b \in Bin |-> Averaged(i.method, Range(at(b)), at(b))])
  IN Given(pd, Range(i.nicks), Append1(Put(pd, i.result, result), i.result))
AverageHistograms(pd, items) == Each(AverageRun, pd, items)

\* combine_histograms: the bins of later histograms that are not empty replace
\* those of the result, which is listed before the first one.
CombinePrepare(pd, i) == IF Known(pd, i.result) THEN pd ELSE InsertBy(pd, i.nicks[1], 0, i.result)
LastFilled(hs, b) ==
  LET K == {k \in DOMAIN hs : k = 1 \/ hs[k].y[b] # Zero}
  IN hs[CHOOSE k \in K : \A l \in K : l <= k]
CombineRun(pd, i) ==
  LET hs == Objects(pd, i.nicks)
      result == SetErrors(SetContents(hs[1], [b \in Bin |-> LastFilled(hs, b).y[b]]),
                          [b \in Bin |-> LastFilled(hs, b).e[b]])
  IN Given(pd, Range(i.nicks), IF \A h \in Range(hs) : IsTH1(h) THEN Put(pd, i.result, result) ELSE Fail(pd))
CombineHistograms(pd, items) == Each(CombineRun, Each(CombinePrepare, pd, items), items)

-----------------------------------------------------------------------------
\* ScaleErrors.scale_errors(h, 0.0)
scale_errors(o, keep) ==
  IF IsTH1(o) THEN SetErrors(o, [b \in Bin |-> keep /\ o.e[b]])
  ELSE Graph(o.kind, o.y, IF keep THEN o.low ELSE NoErrors, IF keep THEN o.high ELSE NoErrors)
ScaleErrors(pd, items) ==
  Each(LAMBDA p, i : Given(p, {i.nick}, Put(p, i.nick, scale_errors(p.objects[i.nick], i.factor # Zero))), pd, items)

\* divide: on copies; graphs are divided only when that is asked for, otherwise both
\* are turned into histograms.
\* Mutant: keeps the numerator where there is no denominator.
\* Mutant: divides the flows as well.
divide_graphs(g, d) ==
  LET over(f) == [b \in Bin |-> IF d.y[b] = Zero THEN Zero ELSE AbsF(f[b] // d.y[b])]
      y == [b \in Bin |-> IF d.y[b] = Zero THEN Zero ELSE g.y[b] // d.y[b]]
  IN Graph(g.kind, y, over(g.low), over(g.high))
\* Mutant: without the copy.
DivideInPlace(pd, i, ratio) == Append1(Put(Put(pd, i.result, ratio), i.num, ratio), i.result)
DivideStore(pd, i, ratio) == Append1(Put(pd, i.result, ratio), i.result)
DivideRun(pd, given) ==
  LET i == auto_set_arguments(pd, given, <<"num", "den">>, "divide")
      num == pd.objects[i.num]
      den == IF i.no_errors THEN scale_errors(pd.objects[i.den], FALSE) ELSE pd.objects[i.den]
  IN IF AutoFails(pd, given, <<"num", "den">>) THEN Fail(pd)
     ELSE Given(pd, {i.num, i.den},
            IF i.tgraphs
            THEN IF IsTGraph(num) /\ IsTGraph(den) THEN DivideStore(pd, i, divide_graphs(num, den)) ELSE Fail(pd)
            ELSE DivideStore(pd, i, DivideBy(to_histogram(num), to_histogram(den))))
Divide(pd, items) == Each(DivideRun, pd, items)

\* ratios: sums over sums; two graphs give a graph, where the denominator is not 0.
RatioPrepare(pd, i) == IF Known(pd, i.result) THEN pd ELSE Append1(pd, i.result)
RatioSum(pd, nicks) ==
  IF Len(nicks) = 1 THEN pd.objects[nicks[1]] ELSE add_root_histograms(Objects(pd, nicks), <<>>)
RatioRun(pd, i) ==
  LET num == scale_errors(RatioSum(pd, i.num), ~i.num_no_errors)
      den == scale_errors(RatioSum(pd, i.den), ~i.den_no_errors)
      addable(nicks) == Len(nicks) = 1 \/ \A n \in Range(nicks) : IsTH1(pd.objects[n])
  IN Given(pd, Range(i.num) \cup Range(i.den),
       CASE ~addable(i.num) \/ ~addable(i.den) -> Fail(pd)
         [] addable(i.num) /\ addable(i.den) /\ IsTGraph(num) /\ IsTGraph(den) ->
              Put(pd, i.result, divide_graphs(num, den))
         [] OTHER -> Put(pd, i.result, DivideBy(to_histogram(num), to_histogram(den))))
Ratio(pd, items) == Each(RatioRun, Each(RatioPrepare, pd, items), items)

-----------------------------------------------------------------------------
ScaleObject(o, c) ==
  IF IsTH1(o) THEN Scale(o, c)
  ELSE [o EXCEPT !.y = [b \in Bin |-> @[b] ** c], !.low = [b \in Bin |-> @[b] ** c], !.high = [b \in Bin |-> @[b] ** c]]

\* scale_histograms: in place, or a clone, which is not listed.
ScaleRun(pd, i) ==
  Given(pd, {i.nick}, Put(pd, IF i.result = None THEN i.nick ELSE i.result, ScaleObject(pd.objects[i.nick], i.scale)))
ScaleHistograms(pd, items) == Each(ScaleRun, pd, items)

\* scale_by_integral: by the integral of another histogram, or its inverse.
ScaleByIntegralRun(pd, i) ==
  LET h == pd.objects[i.nick]
      integral == Integral(pd.objects[i.of])
      scaled == Scale(h, IF i.inverse THEN One // integral ELSE integral)
  IN Given(pd, {i.nick, i.of},
       CASE ~IsTH1(h) \/ ~IsTH1(pd.objects[i.of]) -> Fail(pd)
         [] i.inverse /\ integral = Zero -> Fail(pd)
         [] i.result = None -> Put(pd, i.nick, scaled)
         [] OTHER -> Append1(Put(pd, i.result, scaled), i.result))
ScaleByIntegral(pd, items) == Each(LAMBDA p, i : IF {i.nick, i.of} \subseteq DOMAIN p.objects
                                                 THEN ScaleByIntegralRun(p, i) ELSE Fail(p), pd, items)

\* extrapolation_factor: arguments without an object are dropped, then the histograms
\* named are scaled by the ratio of two integrals.
ExtrapolationItems(pd, nums, dens, nicks) ==
  LET here(list) == SelectSeq(list, LAMBDA n : n \in DOMAIN pd.objects)
      lists == prepare_list_args(<<here(nums), here(dens), here(nicks)>>, None)
      n == CHOOSE m \in {Len(l) : l \in Range(lists)} : \A l \in Range(lists) : m <= Len(l)
  IN [k \in 1 .. n |-> [num |-> lists[1][k], den |-> lists[2][k], nick |-> lists[3][k]]]
ExtrapolationRun(pd, i) ==
  LET num == Integral(pd.objects[i.num])
      den == Integral(pd.objects[i.den])
  IN Put(pd, i.nick, Scale(pd.objects[i.nick], IF den = Zero THEN One ELSE num // den))
ExtrapolationFactor(pd, c) == Each(ExtrapolationRun, pd, ExtrapolationItems(pd, c.num, c.den, c.nicks))

\* shape_yield_merge: the shape of one histogram with the integral of another.
ShapeYieldRun(pd, i) ==
  LET shape == pd.objects[i.shape]
      merged == IF Integral(shape) = Zero THEN shape
                ELSE Scale(shape, Integral(pd.objects[i.yield]) // Integral(shape))
      later == IF At(pd, i.shape) > At(pd, i.yield) THEN i.shape ELSE i.yield
      new == Put(pd, i.result, merged)
  IN CASE Known(pd, i.result) -> new
       [] ~Known(pd, i.result) /\ Known(pd, i.shape) /\ Known(pd, i.yield) -> InsertBy(new, later, 0, i.result)
       [] OTHER -> Fail(pd)
ShapeYieldMerge(pd, items) ==
  Each(ShapeYieldRun, pd, SelectSeq(items, LAMBDA i : {i.shape, i.yield} \subseteq DOMAIN pd.objects))

-----------------------------------------------------------------------------
(* normalization.py.                                                       *)
AllTH1(pd) == {n \in DOMAIN pd.objects : IsTH1(pd.objects[n])}

\* Bins are one unit wide: the scaling by the bin width changes nothing here.
NormalizeByBinWidth(pd, items) ==
  IF \E k \in DOMAIN items : items[k] # None /\ items[k] \notin DOMAIN pd.objects THEN Fail(pd) ELSE pd

ToUnity(h) == IF Integral(h) = Zero THEN h ELSE Scale(h, One // Integral(h))
NormalizeToUnity(pd) == PutAll(pd, AllTH1(pd), ToUnity)

\* Histograms get the integral of a reference.
ToReference(pd, refs) ==
  Each(LAMBDA p, i : Given(p, {i.ref, i.nick},
         LET h == p.objects[i.nick] IN
         IF IsTH1(h) /\ Integral(h) # Zero
         THEN Put(p, i.nick, Scale(h, Integral(p.objects[i.ref]) // Integral(h))) ELSE p), pd, refs)
NormalizeHistogram(pd, items) == ToReference(pd, items)
NormalizeToFirstHisto(pd) ==
  IF Len(pd.nicks) = 1 THEN Fail(pd)           \* the nick of no other is ""
  ELSE ToReference(pd, [k \in 1 .. Len(pd.nicks) - 1 |-> [ref |-> pd.nicks[1], nick |-> pd.nicks[k + 1]]])

\* All histograms but the first together get the integral of the first.
NormalizeStackToFirstHisto(pd) ==
  LET others == AllTH1(pd) \ {pd.nicks[1]}
      stack == SumF([n \in others |-> Integral(pd.objects[n])], others)
      reference == Integral(pd.objects[pd.nicks[1]])
  IN IF stack = Zero THEN pd
     ELSE PutAll(pd, others, LAMBDA h : Scale(h, reference // stack))

\* The first histogram of a stack counts with its underflow, the others without.
Counted(pd, stack, k) ==
  LET h == pd.objects[pd.nicks[k]]
  IN IF \E j \in 1 .. k - 1 : pd.stacks[j] = stack THEN Integral(h) ELSE IntegralFrom0(h)
StackValue(pd, stack) ==
  LET K == {k \in DOMAIN pd.nicks : k <= Len(pd.stacks) /\ pd.stacks[k] = stack}
  IN SumF([k \in K |-> Counted(pd, stack, k)], K)
NormalizeStacksToUnity(pd) ==
  LET K == {k \in DOMAIN pd.nicks : k <= Len(pd.stacks)}
      of(k) == StackValue(pd, pd.stacks[k])
      missing == \E k \in K : pd.nicks[k] \notin DOMAIN pd.objects
  IN IF missing \/ \E k \in K : of(k) = Zero THEN Fail(pd)
     ELSE Each(LAMBDA p, j : Put(p, p.nicks[j], Scale(p.objects[p.nicks[j]], One // of(j))),
               pd, [k \in K |-> k])

-----------------------------------------------------------------------------
(* HistogramManipulationBase and the classes derived from it change the    *)
(* selected histograms in place.  The objects are visited in the order of  *)
(* a dictionary, which matters to one of them.                             *)

\* run and _selector: every selected object must have bins.  An option without
\* nicks stands for all nicks of the plot in the modules that say so.
Editable(pd, selected) == \A n \in selected : IsTH1(pd.objects[n])
Manipulate(pd, selected, M(_)) == IF Editable(pd, selected) THEN PutAll(pd, selected, M) ELSE Fail(pd)
Listed(pd, whitelist) == DOMAIN pd.objects \cap Range(whitelist)
OrAll(pd, whitelist) == IF whitelist = <<>> THEN pd.nicks ELSE whitelist
Histograms(pd, whitelist) == {n \in Listed(pd, OrAll(pd, whitelist)) : IsTH1(pd.objects[n])}

AbsoluteBinContents(pd, whitelist) ==
  Manipulate(pd, Listed(pd, whitelist), LAMBDA h : SetContents(h, [b \in Bin |-> AbsF(h.y[b])]))

ShiftBinContents(pd, whitelist, shift) ==
  Manipulate(pd, Listed(pd, whitelist), LAMBDA h : SetContents(h, [b \in Bin |-> h.y[b] ++ shift]))

\* The smallest positive content; without one TH1::GetMinimum(0.0) is a huge number.
ConstContents(h, huge) ==
  LET positive == {h.y[b] : b \in {c \in Bin : Less(Zero, h.y[c])}}
      minimum == IF positive = {} THEN huge ELSE MinF(positive)
  IN SetErrors(SetContents(h, [b \in Bin |-> IF h.y[b] # Zero THEN minimum ELSE Zero]),
               [b \in Bin |-> h.y[b] = Zero /\ h.e[b]])
ConstBinContentsMin(pd, whitelist, huge) ==
  Manipulate(pd, Histograms(pd, whitelist), LAMBDA h : ConstContents(h, huge))

\* A negative bin becomes empty and the histogram is scaled at once, so that the
\* bins after it are already scaled when their turn comes.
Unscaled(h, original) == h                \* mutant
Rescaled(h, original) ==
  IF Less(Zero, Integral(h)) THEN Scale(h, AbsF(original // Integral(h))) ELSE h
CorrectedUpTo(h, last) ==
  FoldLeft(LAMBDA g, b : IF Less(g.y[b], Zero)
                         THEN Rescaled([g EXCEPT !.y[b] = Zero], Integral(h)) ELSE g,
           h, [b \in 1 .. last |-> b])
CorrectNegativeBinContents(pd, whitelist) ==
  Manipulate(pd, Histograms(pd, whitelist), LAMBDA h : CorrectedUpTo(h, NBins))

FillEmptyHistograms(pd, whitelist, integral) ==
  Manipulate(pd, {n \in Histograms(pd, whitelist) : Integral(pd.objects[n]) = Zero},
    LAMBDA h : SetErrors(SetContents(h, [b \in Bin |-> integral // Int2F(NBins)]), [b \in Bin |-> TRUE]))

\* The error of empty bins: scale * sum of weights / entries, of which the model keeps
\* whether it is zero; a histogram with contents has entries.
EmptyBinErrors(h, scale) ==
  SetErrors(h, [b \in Bin |-> IF h.y[b] = Zero THEN scale # Zero /\ Integral(h) # Zero ELSE h.e[b]])
BinErrorsOfEmptyBins(pd, whitelist, scale) ==
  Manipulate(pd, Histograms(pd, whitelist), LAMBDA h : EmptyBinErrors(h, scale))

-----------------------------------------------------------------------------
\* mask_histograms: bins too far above the minimum of the histogram, or bins in which
\* the reference histogram is above a value, are emptied.  Exactly one of the two
\* options must be given, or the program ends.
Masked(h, masked) ==
  SetErrors(SetContents(h, [b \in Bin |-> IF masked[b] THEN Zero ELSE h.y[b]]),
            [b \in Bin |-> ~masked[b] /\ h.e[b]])
MaskDelta(h, delta) == Masked(h, [b \in Bin |-> Less(delta, h.y[b] -- Minimum(h))])
\* The reference is the object itself: once it is masked, nothing is above any more
\* for the histograms that the dictionary gives after it.
MaskReference(pd, nick, reference, value) ==
  LET r == pd.objects[reference] IN
  IF ~IsTH1(r) THEN Fail(pd)
  ELSE Put(pd, nick, Masked(pd.objects[nick], [b \in Bin |-> Less(value, r.y[b])]))
MaskHistograms(pd, c, order) ==
  LET nicks == SelectSeq(order, LAMBDA n : n \in Histograms(pd, c.nicks)) IN
  CASE (c.delta = None) = (c.reference = None) -> Fail(pd)
    [] c.delta # None /\ c.reference = None -> PutAll(pd, Range(nicks), LAMBDA h : MaskDelta(h, c.delta))
    [] OTHER -> Given(pd, {c.reference},
                  Each(LAMBDA p, n : MaskReference(p, n, c.reference, c.value), pd, nicks))

\* blinding_policy, for the expression without square roots.
BlindingRun(pd, i) ==
  LET signal == add_root_histograms([k \in DOMAIN i.signal |-> pd.objects[i.signal[k]]], <<>>)
      background == add_root_histograms([k \in DOMAIN i.background |-> pd.objects[i.background[k]]], <<>>)
      result == SetContents(signal, [b \in Bin |-> signal.y[b] // background.y[b]])
  IN IF \E b \in Bin : background.y[b] = Zero THEN Fail(pd)
     ELSE Append1(Put(pd, i.result, result), i.result)
BlindingPolicy(pd, items) ==
  Each(LAMBDA p, i : IF \A n \in Range(i.signal) \cup Range(i.background) : n \in DOMAIN p.objects /\ IsTH1(p.objects[n])
                     THEN BlindingRun(p, i) ELSE Fail(p), pd, items)

\* convert_to_histogram: all nicks if none is given.
ConvertToHistogram(pd, nicks) ==
  Each(LAMBDA p, n : Given(p, {n}, Put(p, n, to_histogram(p.objects[n]))), pd,
       IF nicks = None THEN pd.nicks ELSE nicks)

-----------------------------------------------------------------------------
(* Graphs.  One whose number of points depends on the contents is Points:  *)
(* its <<x, y>> in order.                                                  *)
Points(points) == [kind |-> "Points", points |-> points]
At2F(b) == Int2F(b)                    \* the abscissa of bin b: its number

\* errorband: the errors are differences to two other histograms, or percentages.
ErrorbandRun(pd, i) ==
  LET y(k) == pd.objects[i.nicks[k]].y
      percent(k) == [b \in Bin |-> (y(1)[b] ** y(k)[b]) // Int2F(100)]
      difference(k) == [b \in Bin |-> y(1)[b] -- y(k)[b]]
      error(k) == IF i.percent THEN percent(k) ELSE difference(k)
  IN Given(pd, Range(i.nicks),
       IF \A n \in Range(i.nicks) : IsTH1(pd.objects[n])
       THEN Append1(Put(pd, i.result, Graph("TGraphAsymmErrors", [b \in Bin |-> y(1)[b]], error(3), error(2))), i.result)
       ELSE Fail(pd))
Errorband(pd, items) ==
  IF \E k \in DOMAIN items : Len(items[k].nicks) # 3 THEN Fail(pd) ELSE Each(ErrorbandRun, pd, items)

\* graph_combination: the errors are the errors of TGraphErrors and the values of
\* other graphs, relative or absolute; the result is listed before the values.
CombinationName(i) ==
  IF i.result # None THEN i.result ELSE i.values \o "_" \o i.low \o "_" \o i.high
CombinationPrepare(pd, i) ==
  CASE i.result = None /\ None \in {i.low, i.high} -> Fail(pd)
    [] Known(pd, CombinationName(i)) -> pd
    [] OTHER -> InsertBy(pd, i.values, 0, CombinationName(i))
ErrorSource(g) == IF g.kind = "TGraphErrors" THEN g.low ELSE g.y
CombinedErrors(pd, i, nick) ==
  IF nick \notin DOMAIN pd.objects THEN NoErrors
  ELSE LET source == ErrorSource(pd.objects[nick])
       IN IF i.mode = "abs" THEN [b \in Bin |-> AbsF(pd.objects[i.values].y[b] -- source[b])] ELSE source
CombinationRun(pd, i) ==
  LET isGraph(nick) == IsTGraph(pd.objects[nick]) IN
  IF /\ i.values \in DOMAIN pd.objects
     /\ \A n \in {i.values, i.low, i.high} \cap DOMAIN pd.objects : isGraph(n)
  THEN Put(pd, CombinationName(i), Graph("TGraphAsymmErrors", pd.objects[i.values].y,
           CombinedErrors(pd, i, i.low), CombinedErrors(pd, i, i.high)))
  ELSE Fail(pd)
GraphCombination(pd, items) == Each(CombinationRun, Each(CombinationPrepare, pd, items), items)

\* split_graph_components, for the components of y: the value moves to the edge of its
\* error bar, the error is gone.  All graphs get all components.
Component(g, c) ==
  LET shifted(errors, sign) == [b \in Bin |-> g.y[b] ++ (errors[b] ** Int2F(sign))]
  IN CASE c = "y" -> g.y
       [] c = "yelow" -> shifted(g.low, -1)
       [] c = "yehigh" -> shifted(g.high, 1)
SplitNicks(c) == [k \in 1 .. Len(c.nicks) * Len(c.components) |->
  [nick |-> c.nicks[((k - 1) \div Len(c.components)) + 1],
   component |-> c.components[((k - 1) % Len(c.components)) + 1]]]
SplitName(i) == i.nick \o "_" \o i.component
SplitPrepare(pd, i) == IF Known(pd, SplitName(i)) THEN pd ELSE InsertBy(pd, i.nick, 0, SplitName(i))
SplitRun(pd, i) ==
  LET g == pd.objects[i.nick] IN
  IF i.nick \in DOMAIN pd.objects /\ g.kind \in {"TGraphErrors", "TGraphAsymmErrors"}
  THEN Put(pd, SplitName(i), Graph(g.kind, Component(g, i.component), NoErrors, NoErrors))
  ELSE Fail(pd)
SplitGraphComponents(pd, c) == Each(SplitRun, Each(SplitPrepare, pd, SplitNicks(c)), SplitNicks(c))

-----------------------------------------------------------------------------
\* HistogramGroupIterator: the bins of two histograms, without those that are empty in
\* both: all of them, the leading or the trailing ones, as two bits say.
Empty(x, y, b) == x.y[b] = Zero /\ y.y[b] = Zero /\ ~x.e[b] /\ ~y.e[b]
Skipped(skip) == CASE skip = None -> {} [] skip = "any" -> {"any"} [] skip = "left" -> {"leading"}
                   [] skip = "right" -> {"trailing"} [] skip = "True" -> {"leading", "trailing"}
skip_leading(bins, empty) ==
  FoldLeft(LAMBDA out, b : IF out = <<>> /\ b \in empty THEN out ELSE Append(out, b), <<>>, bins)
skip_trailing(bins, empty) ==            \* empty bins wait until one comes that is not
  FoldLeft(LAMBDA s, b : IF b \in empty THEN [s EXCEPT !.buffer = Append(@, b)]
                         ELSE [out |-> s.out \o Append(s.buffer, b), buffer |-> <<>>],
           [out |-> <<>>, buffer |-> <<>>], bins).out
HistogramGroupIterator(x, y, skip) ==
  LET empty == {b \in Bin : Empty(x, y, b)}
      all == [b \in Bin |-> b]
      leading == IF "leading" \in Skipped(skip) THEN skip_leading(all, empty) ELSE all
  IN CASE "any" \in Skipped(skip) -> SelectSeq(all, LAMBDA b : b \notin empty)
       [] "trailing" \in Skipped(skip) -> skip_trailing(leading, empty)
       [] OTHER -> leading

\* tgraph_from_histograms
TGraphRun(pd, given) ==
  LET i == auto_set_arguments(pd, given, <<"x", "y">>, "tgraph")
      x == pd.objects[i.x]
      y == pd.objects[i.y]
      bins == HistogramGroupIterator(x, y, i.skip)
  IN IF AutoFails(pd, given, <<"x", "y">>) THEN Fail(pd)
     ELSE Given(pd, {i.x, i.y},
            IF IsTH1(x) /\ IsTH1(y)
            THEN Append1(Put(pd, i.result, Points([k \in DOMAIN bins |-> <<x.y[bins[k]], y.y[bins[k]]>>])), i.result)
            ELSE Fail(pd))
TGraphFromHistograms(pd, items) == Each(TGraphRun, pd, items)

-----------------------------------------------------------------------------
\* TGraphAsymmErrors(passed, total): a point for every bin in which something is
\* counted; no point at all if more passed than were there (TEfficiency refuses).
Consistent(passed, total) == \A b \in FlowBin : ~Less(passed.y[b], Zero) /\ ~Less(total.y[b], passed.y[b])
EfficiencyGraph(passed, total) ==
  LET bins == IF Consistent(passed, total) THEN SelectSeq([b \in Bin |-> b], LAMBDA b : total.y[b] # Zero) ELSE <<>>
  IN [k \in DOMAIN bins |-> <<At2F(bins[k]), passed.y[bins[k]] // total.y[bins[k]]>>]

\* The arguments without an object are dropped before the lists are filled up; a
\* result without a name takes those of its histograms, and comes after the second one.
EfficiencyItems(pd, c) ==
  LET here(list) == SelectSeq(list, LAMBDA n : n \in DOMAIN pd.objects)
  IN prepare_list_args(<<here(c.num), here(c.den), c.results>>, None)
ResultName(lists, k) == IF lists[3][k] # None THEN lists[3][k] ELSE lists[1][k] \o "_" \o lists[2][k]
EfficiencyModule(pd, c, Run(_, _, _)) ==
  LET lists == EfficiencyItems(pd, c)
      prepare(p, k) == IF Known(p, ResultName(lists, k)) THEN p ELSE InsertBy(p, lists[2][k], 1, ResultName(lists, k))
      run(p, k) == IF IsTH1(p.objects[lists[1][k]]) /\ IsTH1(p.objects[lists[2][k]])
                   THEN Put(p, ResultName(lists, k), Points(Run(p.objects[lists[1][k]], p.objects[lists[2][k]], c)))
                   ELSE Fail(p)
      all == [k \in DOMAIN lists[3] |-> k]
  IN IF lists[1] = <<>> \/ lists[2] = <<>> THEN Fail(pd) ELSE Each(run, Each(prepare, pd, all), all)

EfficiencyRun(num, den, c) == EfficiencyGraph(num, den)
Efficiency(pd, c) == EfficiencyModule(pd, c, EfficiencyRun)

\* The sum up to a bin or from it on; the flows are empty.
get_cumulative_histogram(h, forward) ==
  LET upTo(b) == SumF(h.y, IF forward THEN 1 .. b ELSE b .. NBins)
  IN Histogram([b \in FlowBin |-> IF b \in Bin THEN upTo(b) ELSE Zero], [b \in FlowBin |-> h.e[b]])
get_total_from_cumulative(cumulative) ==
  Histogram([b \in FlowBin |-> IF b \in Bin THEN Maximum(cumulative) ELSE Zero], [b \in FlowBin |-> FALSE])
\* build_graph takes as many points as the first graph has; where the second one has
\* fewer, what is read behind its end is not defined.
Coordinate(p, which) == CASE which = "abscissa" -> p[1] [] which = "ordinate" -> p[2] [] OTHER -> One -- p[2]
build_graph(xs, ys, X, Y) ==
  [k \in DOMAIN xs |-> <<Coordinate(xs[k], X), IF k \in DOMAIN ys THEN Coordinate(ys[k], Y) ELSE None>>]
CutEfficiencyRun(sig, bkg, c) ==
  LET sigcum == get_cumulative_histogram(sig, c.lower)
      bkgcum == get_cumulative_histogram(bkg, c.lower)
      sigeff == EfficiencyGraph(sigcum, get_total_from_cumulative(sigcum))
      bkgeff == EfficiencyGraph(bkgcum, get_total_from_cumulative(bkgcum))
      Cut(graph, y) == build_graph(graph, graph, "abscissa", y)
  IN CASE c.mode = "sigPur" -> EfficiencyGraph(sigcum, Add(bkgcum, sigcum))
       [] c.mode \in {"sigEff", "sigRej"} -> Cut(sigeff, IF c.mode = "sigRej" THEN "rejected" ELSE "ordinate")
       [] c.mode \in {"bkgEff", "bkgRej"} -> Cut(bkgeff, IF c.mode = "bkgRej" THEN "rejected" ELSE "ordinate")
       [] c.mode = "sigEffVsBkgEff" -> build_graph(bkgeff, sigeff, "ordinate", "ordinate")
       [] c.mode = "sigEffVsBkgRej" -> build_graph(bkgeff, sigeff, "rejected", "ordinate")
       [] c.mode = "sigRejVsBkgEff" -> build_graph(bkgeff, sigeff, "ordinate", "rejected")
       [] c.mode = "sigRejVsBkgRej" -> build_graph(bkgeff, sigeff, "rejected", "rejected")
CutEfficiency(pd, c) == EfficiencyModule(pd, c, CutEfficiencyRun)

-----------------------------------------------------------------------------
\* statistical_errors: of a histogram a copy that shows its errors (one where there is
\* one); a graph is changed itself, and the new nick is listed without an object.
rel_error(central, error, relative) == IF relative /\ central # Zero THEN error // central ELSE error
ErrorsOfHistogram(h, relative) ==
  SetErrors(SetContents(h, [b \in Bin |-> rel_error(h.y[b], IF h.e[b] THEN One ELSE Zero, relative)]),
            [b \in Bin |-> FALSE])
ErrorsOfGraph(g, relative) ==
  LET new(f) == [b \in Bin |-> rel_error(g.y[b], f[b], relative)]
  IN Graph(g.kind, NoErrors, IF g.kind = "TGraph" THEN g.low ELSE new(g.low), IF g.kind = "TGraph" THEN g.high ELSE new(g.high))
StatisticalRun(pd, i) ==
  LET o == pd.objects[i.nick]
      listed == Append1(pd, i.result)
  IN Given(pd, {i.nick},
       CASE IsTH1(o) -> Put(listed, i.result, ErrorsOfHistogram(o, i.relative))
         [] IsTGraph(o) -> Put(listed, i.nick, ErrorsOfGraph(o, i.relative))
         [] OTHER -> listed)
StatisticalErrors(pd, items) == Each(StatisticalRun, pd, items)

\* add_line: lists of coordinates, zero if there are none, cut to the shorter one.
LineName(i) == IF i.nick = None THEN "line0" ELSE i.nick
LinePoints(i) ==
  LET coordinates(c) == IF c = None THEN <<Zero>> ELSE c
      x == coordinates(i.x)
      y == coordinates(i.y)
  IN [k \in 1 .. (IF Len(x) < Len(y) THEN Len(x) ELSE Len(y)) |-> <<x[k], y[k]>>]
AddLine(pd, i) ==
  LET listed == IF Known(pd, LineName(i)) THEN pd ELSE Append1(pd, LineName(i))
  IN Put(listed, LineName(i), Points(LinePoints(i)))
=============================================================================
