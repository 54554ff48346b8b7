------------------------------ MODULE Rebinning ------------------------------
(***************************************************************************)
(* Histograms of files: RootTools.histogram_from_file sums the histograms  *)
(* of all files and rebin_root_histogram changes their bins                *)
(* (HarryPlotter/python/utility/roottools.py).                             *)
(*                                                                         *)
(* An axis is the sequence of its edges; bin 0 and bin N+1 are the flows.  *)
(* A histogram has one to three axes, and c gives the content of each of   *)
(* its bins, a bin being the sequence of its indices.                      *)
(***************************************************************************)
EXTENDS Integers, Sequences, FiniteSets, FiniteSetsExt, SequencesExt, Functions

CONSTANTS Files,        \* the histograms that a call finds in its files, and the options for the bins
          None

Size(axis) == Len(axis) - 1
Trivial == <<0, 1>>                     \* ROOT's axes beyond the dimension of a histogram
dimension(h) == Len(h.axes)
Bins(axes) == {b \in [DOMAIN axes -> 0..Max({Size(axes[d]) + 1 : d \in DOMAIN axes})] :
                  \A d \in DOMAIN axes : b[d] <= Size(axes[d]) + 1}
Inside(axes) == {b \in Bins(axes) : \A d \in DOMAIN axes : b[d] \in 1..Size(axes[d])}
SumOver(S, c) == MapThenSumSet(LAMBDA b : c[b], S)
NumberOfBins(h) == Cardinality(Inside(h.axes))

\* The histogram with other axes, and each content in the bin that To[d][b] names.
Moved(h, axes, To) ==
  [axes |-> axes,
   c |-> [new \in Bins(axes) |-> SumOver({b \in Bins(h.axes) : \A d \in DOMAIN axes : To[d][b[d]] = new[d]}, h.c)]]

-----------------------------------------------------------------------------
\* TH1::Rebin merges groups of bins; what is left over becomes overflow.
Groups(g) == g \notin {0, 1}
grouped(axis, g) == IF Groups(g) THEN [j \in 1..(Size(axis) \div g) + 1 |-> axis[(j - 1) * g + 1]] ELSE axis
GroupOf(axis, g, b) ==
  IF ~Groups(g) \/ b = 0 THEN b
  ELSE IF b > (Size(axis) \div g) * g THEN (Size(axis) \div g) + 1
  ELSE ((b - 1) \div g) + 1

\* THnSparse::RebinnedAdd looks for the centre of each bin on the new axis; the
\* flows are as wide as the mean bin.  In units of 1/(2 * Size).
Centre(axis, b) ==
  LET size == Size(axis)
      width == axis[size + 1] - axis[1]
  IN  IF b = 0 THEN 2 * size * axis[1] - width
      ELSE IF b = size + 1 THEN 2 * size * axis[size + 1] + width
      ELSE size * (axis[b] + axis[b + 1])
FindBin(new, axis, b) == Cardinality({k \in DOMAIN new : 2 * Size(axis) * new[k] <= Centre(axis, b)})

\* Axes of one bin are left out, the first one stays if all are such: their
\* flows are lost.
Wide(axes) == {d \in DOMAIN axes : Size(axes[d]) > 1}
KeptAxes(axes) == SetToSortSeq(IF Wide(axes) = {} THEN {1} ELSE Wide(axes), <)
Projected(h, keep) ==
  LET axes == [k \in DOMAIN keep |-> h.axes[keep[k]]]
  IN  [axes |-> axes,
       c |-> [new \in Bins(axes) |->
                SumOver({b \in Bins(h.axes) : \A d \in DOMAIN h.axes :
                           IF d \in ToSet(keep) THEN \E k \in DOMAIN keep : keep[k] = d /\ b[d] = new[k] ELSE b[d] = 1}, h.c)]]
\* TH3::Project3D takes one argument, and is called with two.
ProjectionFails(axes) == Len(axes) = 3 /\ Cardinality(Wide(axes)) = 2

Group(g) == [kind |-> "group", n |-> g, edges |-> <<>>]
Edges(e) == [kind |-> "edges", n |-> 1, edges |-> e]
simple(h, r) == Moved(h, [d \in DOMAIN h.axes |-> grouped(h.axes[d], r[d].n)],
                      [d \in DOMAIN h.axes |-> [b \in 0..Size(h.axes[d]) + 1 |-> GroupOf(h.axes[d], r[d].n, b)]])
complexRebinning(h, r) == [d \in DOMAIN h.axes |-> IF r[d].kind = "edges" THEN r[d].edges ELSE h.axes[d]]
rebinned(h, r) ==
  IF \A d \in DOMAIN r : r[d].kind = "group" THEN h
  ELSE Moved(h, complexRebinning(h, r), 
             [d \in DOMAIN h.axes |-> [b \in 0..Size(h.axes[d]) + 1 |-> FindBin(complexRebinning(h, r)[d], h.axes[d], b)]])
rebin_root_histogram(h, r) ==           \* rebinningX, rebinningY and rebinningZ are r[1] to r[3]
  IF ProjectionFails(complexRebinning(simple(h, r), r)) THEN None
  ELSE Projected(rebinned(simple(h, r), r), KeptAxes(complexRebinning(simple(h, r), r)))

rebinning_possible(src, dst) == Len(dst) <= Len(src) /\ ToSet(dst) \subseteq ToSet(src)

-----------------------------------------------------------------------------
(* histogram_from_file.  Bins are asked for by number, by number and       *)
(* limits, or by edges (prepare_binning, binning_to_bin_edges).            *)
Number(k) == [kind |-> "number", n |-> k]
Limits(k, low, high) == [kind |-> "limits", n |-> k, low |-> low, high |-> high]
Widths(e) == [kind |-> "widths", edges |-> e]
NoBins == [kind |-> "none"]             \* the option is None
bin_edges(b) ==
  CASE b.kind = "limits" -> [j \in 1..b.n + 1 |-> b.low + ((j - 1) * (b.high - b.low)) \div b.n]
    [] b.kind = "widths" -> b.edges
    [] OTHER -> <<>>
axis_of(h, d) == IF d \in DOMAIN h.axes THEN h.axes[d] ELSE Trivial
rebinning(h, d, b) ==
  CASE b.kind = "none" -> Group(1)
    [] b.kind = "number" -> Group(Size(axis_of(h, d)) \div b.n)
    [] OTHER -> Edges(bin_edges(b))

VARIABLES files, bins, n, root_histogram, status    \* n files are read
vars == <<files, bins, n, root_histogram, status>>

Init == /\ \E call \in Files : files = call.files /\ bins = call.bins
        /\ n = 0 /\ root_histogram = None /\ status = "reading"

Replacing(h, g) == IF NumberOfBins(h) = NumberOfBins(g) THEN g ELSE h          \* mutant
\* TH1::Add refuses a histogram with another number of bins with a message only.
Added(h, g) == IF NumberOfBins(h) = NumberOfBins(g) THEN [h EXCEPT !.c = [b \in DOMAIN h.c |-> h.c[b] + g.c[b]]] ELSE h
Read == /\ status = "reading" /\ n < Len(files)
        /\ n' = n + 1
        /\ IF files[n + 1] = None THEN status' = "exit" /\ UNCHANGED root_histogram
           ELSE /\ root_histogram' = IF root_histogram = None THEN files[n + 1] ELSE Added(root_histogram, files[n + 1])
                /\ UNCHANGED status
        /\ UNCHANGED <<files, bins>>

Rebin == /\ status = "reading" /\ n = Len(files)
         /\ \E new \in {IF NumberOfBins(root_histogram) = 1 THEN root_histogram
                        ELSE rebin_root_histogram(root_histogram, [d \in 1..3 |-> rebinning(root_histogram, d, bins[d])])} :
              IF new = None THEN status' = "TypeError" /\ UNCHANGED root_histogram
              ELSE status' = "returned" /\ root_histogram' = new
         /\ UNCHANGED <<files, bins, n>>

Next == Read \/ Rebin
Spec == Init /\ [][Next]_vars

-----------------------------------------------------------------------------
\* Whatever the bins and the dimension, what is returned is the sum of all files,
\* rebinned: nothing is lost or counted twice unless an axis is left out, and a file
\* without the histogram ends the program (roottools.py:120-208, 511-631).
Total(h) == SumOver(Bins(h.axes), h.c)
ContentsMove == status = "returned" =>
  /\ \A k \in DOMAIN files : files[k] # None
  /\ LET all == MapThenSumSet(LAMBDA k : Total(files[k]), DOMAIN files)
     IN  IF dimension(root_histogram) = dimension(files[1]) THEN Total(root_histogram) = all ELSE Total(root_histogram) <= all

\* With edges of the old bins, a bin of the result is the sum of the bins between
\* its edges, of every file: no bin is split, shifted or counted twice.
Between(h, lower, upper) == {b \in Inside(h.axes) : h.axes[1][b[1]] >= lower /\ h.axes[1][b[1] + 1] <= upper}
BinsAreSums == status = "returned" /\ dimension(files[1]) = 1 =>
  LET old == files[1]  new == root_histogram
  IN  rebinning_possible(old.axes[1], new.axes[1]) =>
        \A b \in 1..Size(new.axes[1]) :
          new.c[<<b>>] = MapThenSumSet(LAMBDA k : SumOver(Between(old, new.axes[1][b], new.axes[1][b + 1]), files[k].c), DOMAIN files)
=============================================================================
