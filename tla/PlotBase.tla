------------------------------ MODULE PlotBase ------------------------------
(***************************************************************************)
(* What every plot module of HarryPlotter inherits from PlotBase           *)
(* (HarryPlotter/python/plotbase.py): the arguments of the plot made       *)
(* ready, the stacks added up, and the ranges of the data.                 *)
(*                                                                         *)
(* A plot p is the record of its options, completed by prepare_args.  An   *)
(* object has a kind, a range in x, values v with errors e (per bin, the   *)
(* flows included, or per point), and for TH2 a range in y.  A regular     *)
(* expression for nicks is the set of the nicks it is found in.            *)
(***************************************************************************)
EXTENDS Fractions, Sequences, SequencesExt, FiniteSetsExt, TLC

CONSTANT None            \* option that is not given

LOCAL Lists == INSTANCE ListTools
LOCAL Args == INSTANCE PlotData WITH NBins <- 1

Failure(p) == [failed |-> p]
HasFailed(r) == "failed" \in DOMAIN r

-----------------------------------------------------------------------------
\* The options and their defaults, as far as they decide on something here.
PlotBaseOptions ==
  [nicks_whitelist |-> <<>>, nicks_blacklist |-> <<{"noplot"}>>, subplot_nicks |-> <<{"ratio"}>>,
   x_lims |-> None, x_label |-> None, x_log |-> FALSE,
   y_lims |-> None, y_rel_lims |-> None, y_subplot_lims |-> None, y_label |-> {"Events"}, y_log |-> FALSE,
   z_lims |-> None, z_label |-> {"Events"}, z_log |-> FALSE, z_tick_labels |-> None,
   colors |-> <<None>>, labels |-> <<None>>, markers |-> <<None>>, line_widths |-> <<None>>, stacks |-> <<None>>,
   legend |-> None, grid |-> FALSE, subplot_grid |-> FALSE, title |-> None, dataset_title |-> None,
   lumis |-> None, energies |-> None, texts |-> <<>>, filename |-> None]

\* Arguments.
subplots_first(p) ==     \* mutant: the objects of the subplot are found before the others are left out
  LET nicks == Lists!matching_sublist(p.nicks, p.nicks_whitelist, p.nicks_blacklist)
      below == Lists!matching_sublist(p.nicks, p.subplot_nicks, <<>>)
  IN [p EXCEPT !.nicks = nicks, !.subplot_nicks = below,
               !.subplots = [i \in DOMAIN nicks |-> p.nicks[i] \in ToSet(below)]]
select_histograms(p) ==
  LET nicks == Lists!matching_sublist(p.nicks, p.nicks_whitelist, p.nicks_blacklist)
      below == Lists!matching_sublist(nicks, p.subplot_nicks, <<>>)
  IN [p EXCEPT !.nicks = nicks, !.subplot_nicks = below,
               !.subplots = [i \in DOMAIN nicks |-> nicks[i] \in ToSet(below)]]

\* The values of the options in keys, repeated and cut to n items.
prepare_list_args(p, keys, n) ==
  [k \in DOMAIN p |-> IF k \in keys THEN Args!Replicated(p[k], n) ELSE p[k]]
n_items(p) == Max({Len(p.nicks), Len(p.stacks)})

\* The label of an axis: the expressions if none is given; one that is the same for
\* all inputs replaces the default label "Events".
axis_label(label, expressions) ==
  IF label = None THEN (IF expressions = {None} THEN {""} ELSE expressions)
  ELSE IF label = {"Events"} /\ expressions # {None} /\ Cardinality(expressions) = 1 THEN expressions
  ELSE label

default_stacks(stacks) == [i \in DOMAIN stacks |-> IF stacks[i] = None THEN "stack" \o ToString(i) ELSE stacks[i]]

\* The parts of the file name: the expressions of z, y and x, those without one left out.
file_name(p) ==
  IF p.filename # None THEN p.filename
  ELSE SelectSeq(<<p.z_expressions, p.y_expressions, p.x_expressions>>, LAMBDA e : e # {None})

zeros_are_none(list) == IF list # None /\ ToSet(list) \subseteq {0} THEN None ELSE list

rel_y_lim_default(log) == IF log THEN <<<<1, 2>>, <<2, 1>>>> ELSE <<<<9, 10>>, <<11, 10>>>>

labelled_args(kept) ==
  [kept EXCEPT !.x_label = axis_label(@, kept.x_expressions),
               !.y_label = axis_label(@, kept.y_expressions),
               !.z_label = axis_label(@, kept.z_expressions),
               !.labels = IF ToSet(@) = {None} THEN kept.nicks ELSE @]
listed_args(q) == prepare_list_args(q, {"nicks", "stacks", "colors", "labels", "markers", "line_widths"}, n_items(q))
completed_args(q) ==
  [q EXCEPT !.y_rel_lims = IF @ = None THEN rel_y_lim_default(q.y_log) ELSE @,
            !.stacks = default_stacks(@),
            !.filename = file_name(q),
            !.lumis = zeros_are_none(@), !.energies = zeros_are_none(@)]
prepared_args(kept) == IF kept.nicks = <<>> THEN Failure(kept) ELSE completed_args(listed_args(labelled_args(kept)))
base_prepare_args(p) == prepared_args(select_histograms(p))

-----------------------------------------------------------------------------
\* Stacks: every object is added to those of its stack before it, in place; the
\* flows of one-dimensional histograms are emptied.
Binned == {"TH1", "TProfile", "TH2"}
IsBinned(o) == o.kind \in Binned
LastBin(o) == CHOOSE n \in DOMAIN o.v : n + 1 \notin DOMAIN o.v
InBins(o) == IF IsBinned(o) THEN DOMAIN o.v \ {0, LastBin(o)} ELSE DOMAIN o.v

ProjectionX(o) == IF o.kind = "TProfile" THEN [o EXCEPT !.kind = "TH1"] ELSE o
CanAdd(o, q) == IsBinned(o) /\ ProjectionX(o).kind = ProjectionX(q).kind
\* Errors are added in quadrature.
Quadrature(a, b) == CHOOSE c \in 0 .. a + b : c * c = a * a + b * b
AddObject(o, q) ==
  [ProjectionX(o) EXCEPT !.v = [b \in DOMAIN @ |-> @[b] ++ q.v[b]],
                         !.e = [b \in DOMAIN @ |-> Quadrature(@[b], q.e[b])]]

StackPairs(p) == {ij \in (DOMAIN p.nicks) \X (DOMAIN p.nicks) : ij[2] < ij[1] /\ p.stacks[ij[1]] = p.stacks[ij[2]]}
InOrder(ij, kl) == ij[1] < kl[1] \/ (ij[1] = kl[1] /\ ij[2] < kl[2])
Stacked(p, objects, pairs) ==
  FoldLeft(LAMBDA obj, ij :
             LET upper == p.nicks[ij[1]]
                 lower == p.nicks[ij[2]]
             IN IF HasFailed(obj) \/ ~CanAdd(obj[lower], obj[upper]) THEN Failure(obj)
                ELSE (lower :> AddObject(obj[lower], obj[upper])) @@ (upper :> ProjectionX(obj[upper])) @@ obj,
           objects, SetToSortSeq(pairs, InOrder))
NoFlows(o) == IF o.kind \in {"TH1", "TProfile"}
              THEN [o EXCEPT !.v = [b \in DOMAIN @ |-> IF b \in InBins(o) THEN @[b] ELSE Zero],
                             !.e = [b \in DOMAIN @ |-> IF b \in InBins(o) THEN @[b] ELSE 0]]
              ELSE o
empty_flows(p, stacked) ==
  IF HasFailed(stacked) THEN stacked
  ELSE [n \in DOMAIN stacked |-> IF n \in ToSet(p.nicks) THEN NoFlows(stacked[n]) ELSE stacked[n]]
base_prepare_histograms(p, objects) == empty_flows(p, Stacked(p, objects, StackPairs(p)))

-----------------------------------------------------------------------------
\* Ranges of the data, <<None, None>> if there are none.
get_dimension(o) == IF o.kind = "TH2" THEN 3 ELSE 2
Lower(o) == {o.v[b] -- Int2F(o.e[b]) : b \in InBins(o)}
Upper(o) == {o.v[b] ++ Int2F(o.e[b]) : b \in InBins(o)}
get_min(values) == IF values = {} THEN Zero ELSE MinF(values)
Positive(values) == {v \in values : Less(Zero, v)}
\* The range of the values, for a logarithmic axis above zero where it is not.
above_zero(positive, bounds, log) == IF log /\ ~Less(Zero, bounds[1] ** bounds[2]) THEN <<get_min(positive), bounds[2]>> ELSE bounds
Span(lower, upper, log) == above_zero(Positive(lower), <<get_min(lower), MaxF(upper)>>, log)
Nothing == <<None, None>>

get_plot_lims(o, y_log, z_log) ==
  [x |-> o.x,
   y |-> IF o.kind = "TH2" THEN o.y ELSE Span(Lower(o), Upper(o), y_log /\ o.kind # "TF1"),
   z |-> IF o.kind = "TH2" THEN Span(Lower(o), Upper(o), z_log) ELSE Nothing]

update_lims(a, b) ==
  IF b = Nothing THEN a ELSE IF a = Nothing THEN b
  ELSE <<MinF({a[1], b[1]}), MaxF({a[2], b[2]})>>

NoLims == [x |-> Nothing, y |-> Nothing, z |-> Nothing, y_sub |-> Nothing, z_sub |-> Nothing,
           dim |-> 2, sub_dim |-> 2]
AddOwn(lims, own, below, dim) ==
  IF below THEN [lims EXCEPT !.x = update_lims(@, own.x), !.y_sub = update_lims(@, own.y), !.z_sub = update_lims(@, own.z),
                             !.sub_dim = Max({@, dim})]
  ELSE [lims EXCEPT !.x = update_lims(@, own.x), !.y = update_lims(@, own.y), !.z = update_lims(@, own.z), !.dim = Max({@, dim})]
AddLims(p, objects, lims, i) ==
  AddOwn(lims, get_plot_lims(objects[p.nicks[i]], p.y_log, p.z_log), p.subplots[i], get_dimension(objects[p.nicks[i]]))
\* The nicks may be more than the subplots: zip stops at the shorter list.
base_determine_plot_lims(p, objects) ==
  FoldLeft(LAMBDA lims, i : AddLims(p, objects, lims, i), NoLims,
           [i \in 1 .. Min({Len(p.nicks), Len(p.subplots)}) |-> i])

-----------------------------------------------------------------------------
\* The title of the data, as tokens: the one given, or the luminosities (given in
\* tenths of 1/fb, small ones in 1/pb) with their energies, or the energies.
Joined(parts) == FoldLeft(LAMBDA title, part : IF title = <<>> THEN part ELSE title \o <<"+">> \o part, <<>>, parts)
RunPeriod(lumi, energy) ==
  (IF lumi < 5 THEN <<ToString(lumi * 100), "pb">> ELSE <<ToString(lumi) \o "/10", "fb">>)
    \o <<"(", ToString(energy), ")">>
base_dataset_title(p) ==
  CASE p.dataset_title # None -> p.dataset_title
    [] p.dataset_title = None /\ p.lumis # None /\ p.energies # None ->
         Joined([i \in 1 .. Min({Len(p.lumis), Len(p.energies)}) |-> RunPeriod(p.lumis[i], p.energies[i])])
    [] p.dataset_title = None /\ p.lumis = None /\ p.energies # None ->
         Joined([i \in DOMAIN p.energies |-> <<"sqrt(s)=", ToString(p.energies[i])>>])
    [] OTHER -> <<>>
=============================================================================
