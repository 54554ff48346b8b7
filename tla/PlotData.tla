------------------------------ MODULE PlotData ------------------------------
(***************************************************************************)
(* The ROOT objects that HarryPlotter handles, as far as its modules tell  *)
(* them apart, with the operations of ROOT and of RootTools                *)
(* (HarryPlotter/python/utility/roottools.py) on them, and what its        *)
(* processors pass on: the nick names in drawing order, the object of      *)
(* every nick, and whether a processor has raised an exception or left the *)
(* program, which ends this plot (processor.py, analysisbase.py).          *)
(*                                                                         *)
(* A histogram has contents y and errors in the bins 0 .. N+1, of which 0  *)
(* and N+1 are under- and overflow; of an error only whether it is zero is *)
(* kept, and a bin is one unit wide.  A graph has the points 1 .. N with   *)
(* values y and errors below and above.  A two-dimensional histogram is    *)
(* the sequence of its columns.  Objects are values: what the code clones  *)
(* is a value of its own, what it changes in place is written back.        *)
(***************************************************************************)
EXTENDS Fractions, Sequences, SequencesExt

CONSTANTS NBins,          \* bins of every histogram of the model, without the flows
          None            \* option that is not given

Bin == 1 .. NBins
FlowBin == 0 .. NBins + 1

Graphs == {"TGraph", "TGraphErrors", "TGraphAsymmErrors"}
IsTH1(o) == o.kind = "TH1"
IsTGraph(o) == o.kind \in Graphs

Histogram(y, e) == [kind |-> "TH1", y |-> y, e |-> e]
Graph(kind, y, low, high) == [kind |-> kind, y |-> y, low |-> low, high |-> high]
EmptyHistogram == Histogram([b \in FlowBin |-> Zero], [b \in FlowBin |-> FALSE])
NoErrors == [b \in Bin |-> Zero]

-----------------------------------------------------------------------------
(* ROOT.                                                                   *)
Integral(h) == SumF(h.y, Bin)                             \* TH1::Integral()
IntegralFrom0(h) == SumF(h.y, 0 .. NBins)                 \* TH1::Integral(0, GetNbinsX())
Scale(h, c) ==                                            \* TH1::Scale: the flows as well
  Histogram([b \in FlowBin |-> h.y[b] ** c], [b \in FlowBin |-> h.e[b] /\ c # Zero])
AddScaled(h, g, c) ==                                     \* TH1::Add(g, c)
  Histogram([b \in FlowBin |-> h.y[b] ++ (g.y[b] ** c)], [b \in FlowBin |-> h.e[b] \/ (g.e[b] /\ c # Zero)])
Add(h, g) == AddScaled(h, g, One)
DivideBy(h, g) ==                                         \* TH1::Divide: x / 0 is 0
  Histogram([b \in FlowBin |-> IF g.y[b] = Zero THEN Zero ELSE h.y[b] // g.y[b]],
            [b \in FlowBin |-> g.y[b] # Zero /\ (h.e[b] \/ (g.e[b] /\ h.y[b] # Zero))])
SetContents(h, f) == [h EXCEPT !.y = [b \in FlowBin |-> IF b \in Bin THEN f[b] ELSE @[b]]]
SetErrors(h, f) == [h EXCEPT !.e = [b \in FlowBin |-> IF b \in Bin THEN f[b] ELSE @[b]]]
Minimum(h) == MinF({h.y[b] : b \in Bin})
Maximum(h) == MaxF({h.y[b] : b \in Bin})

-----------------------------------------------------------------------------
(* RootTools.                                                              *)
\* The sum is a clone of the first histogram; scales = <<>> are factors of one.
add_root_histograms(histograms, scales) ==
  LET factor(i) == IF scales = <<>> THEN One ELSE scales[i]
      sum[i \in 0 .. Len(histograms)] ==
        CASE i = 0 -> EmptyHistogram
          [] i = 1 -> Scale(histograms[1], factor(1))
          [] OTHER -> AddScaled(sum[i - 1], histograms[i], factor(i))
  IN sum[Len(histograms)]

\* A histogram stays what it is, a graph is filled bin by bin; the flows are empty.
to_histogram(o) ==
  IF IsTH1(o) THEN o
  ELSE Histogram([b \in FlowBin |-> IF b \in Bin THEN o.y[b] ELSE Zero],
                 [b \in FlowBin |-> b \in Bin /\ (o.low[b] ++ o.high[b]) # Zero])

\* get_min: the least value beyond the threshold, or 0.
get_min(values, threshold) ==
  LET S == {v \in values : threshold = <<>> \/ Less(threshold[1], v)}
  IN IF S = {} THEN Zero ELSE MinF(S)
-----------------------------------------------------------------------------
(* Plot data and the helpers of Processor and AnalysisBase.                *)
Fail(pd) == [pd EXCEPT !.failed = TRUE]

\* The result if all these nicks have an object, or KeyError.
Given(pd, nicks, result) == IF nicks \subseteq DOMAIN pd.objects THEN result ELSE Fail(pd)

Put(pd, nick, o) == [pd EXCEPT !.objects = (nick :> o) @@ @]
PutAll(pd, nicks, O(_)) ==
  [pd EXCEPT !.objects = [n \in DOMAIN @ |-> IF n \in nicks THEN O(@[n]) ELSE @[n]]]
Known(pd, nick) == nick \in Range(pd.nicks)

\* Position of a nick in the list (0: it is not there), and list.insert before
\* the i-th element.
At(pd, nick) == SelectInSeq(pd.nicks, LAMBDA n : n = nick)
Insert(pd, i, nick) ==
  [pd EXCEPT !.nicks = InsertAt(@, IF i > Len(@) THEN Len(@) + 1 ELSE i, nick)]
Append1(pd, nick) == [pd EXCEPT !.nicks = Append(@, nick)]
\* ... relative to a nick, which must be in the list (ValueError).
InsertBy(pd, other, shift, nick) ==
  IF At(pd, other) = 0 THEN Fail(pd) ELSE Insert(pd, At(pd, other) + shift, nick)

\* A step of a module for each of its items, in order.
Each(Step(_, _), pd, items) ==
  FoldLeft(LAMBDA p, i : IF p.failed THEN p ELSE Step(p, i), pd, items)

-----------------------------------------------------------------------------
\* prepare_list_args: the values of some options, each a sequence, repeated and
\* cut to the longest of them, or to n_items; an empty one stays empty.
Longest(lists) == CHOOSE n \in {Len(lists[k]) : k \in DOMAIN lists} :
                    \A k \in DOMAIN lists : Len(lists[k]) <= n
Replicated(list, n) ==
  IF list = <<>> THEN <<>> ELSE [i \in 1 .. n |-> list[((i - 1) % Len(list)) + 1]]
prepare_list_args(lists, n_items) ==
  LET n == IF n_items = None THEN Longest(lists) ELSE n_items
  IN [k \in DOMAIN lists |-> Replicated(lists[k], n)]

\* auto_set_arguments: an item without any of its nicks takes the nicks of the plot,
\* if they are as many as the module needs, and a name for the result; otherwise the
\* program ends.
AutoSet(item, arguments) == \A k \in DOMAIN arguments : item[arguments[k]] = None
AutoFails(pd, item, arguments) == AutoSet(item, arguments) /\ Len(pd.nicks) # Len(arguments)
auto_set_arguments(pd, item, arguments, name) ==
  LET position(k) == CHOOSE j \in DOMAIN arguments : arguments[j] = k
  IN IF ~AutoSet(item, arguments) THEN item
     ELSE [k \in DOMAIN item |->
             CASE k \in Range(arguments) -> pd.nicks[position(k)]
               [] k = "result" /\ item.result = None -> name
               [] OTHER -> item[k]]
=============================================================================
