---------------------------- MODULE CutFlowProofs ----------------------------
(***************************************************************************)
(* Why the histogram of CutFlowHistogramConsumer and the CutFlow behind it *)
(* agree in every job, whatever the nodes, the configuration and the input *)
(* are, and why the other outputs fit together.                            *)
(*                                                                         *)
(* The histogram counts by place, and was labelled after the list of the   *)
(* first event; the CutFlow counts by name.  They agree because a name     *)
(* has the same place in the lists of all events, although the lists are   *)
(* not equally long: every list is a beginning of one fixed order, that of *)
(* the names of the global settings, of the pipeline's, and of the filters *)
(* of the pipeline's chain.  A filter that no settings name is listed only *)
(* in the events that reach it, but always behind the same names.          *)
(***************************************************************************)
EXTENDS CutFlow

\* The order in which names can be listed: positions, and the name at each.
Globals == Len(GlobalFilters)
Named == Globals + Len(LocalFilters)
Positions ==
  {p \in 1 .. Named + Len(LocalNodes) : p > Named => LocalNodes[p - Named].kind = "Filter"}
NameAt(p) ==
  IF p <= Globals THEN GlobalFilters[p]
  ELSE IF p <= Named THEN LocalFilters[p - Globals] ELSE LocalNodes[p - Named].id

\* The names at the first k positions, the first position of a name, its place.
Before(k) == {NameAt(p) : p \in {q \in Positions : q <= k}}
FirstAt(p) == p \in Positions /\ \A q \in Positions : NameAt(q) = NameAt(p) => p <= q
First(n) == CHOOSE p \in Positions : FirstAt(p) /\ NameAt(p) = n
Rank(n) == Cardinality(Before(First(n)))

\* The list of r is the beginning of the order up to the position k.
InOrder(r, k) ==
  /\ Listed(r) = Before(k)
  /\ \A n \in Listed(r) : r.filterDecisions[n].place = Rank(n)

\* The tagging filters, and no others, are entered as such.
TaggersKnown(r) == \A n \in Listed(r) : Tagged(r, n) <=> n \in Tagging

\* The tagging filters of the copy for the pipeline.
AllTagging == GlobalTagging \cup LocalTagging

Reached == IF pc = "global" THEN Globals ELSE Named + node - 1
TagsNow == IF pc = "global" THEN GlobalTagging ELSE AllTagging

\* A sound filter result, and one whose list ends at the position k.
Sound(r) == IsFilterResult(r) /\ CacheCoherent(r) /\ TaggersKnown(r)
SoundUpTo(r, k, tags) == Sound(r) /\ InOrder(r, k) /\ r.taggingFilters = tags

ListInv ==
  /\ Sound(fres)
  /\ pc \in {"next", "global", "local", "consumers", "done", "fatal"}
  /\ node \in Nat \ {0}
  /\ pc \in {"local", "consumers"} => node <= Len(LocalNodes) + 1
  /\ pc \in {"global", "local", "consumers"} => SoundUpTo(fres, Reached, TagsNow)

\* The names are the beginning of the order up to the position k.
NamesUpTo(names, k) ==
  /\ names \in Seq(FilterName)
  /\ Len(names) = Cardinality(Before(k))
  /\ \A i \in 1 .. Len(names) : names[i] \in Before(k) /\ Rank(names[i]) = i

LabelledInOrder(hist, k) ==
  /\ NamesUpTo(hist.labels, k)
  /\ DOMAIN hist.bins = 0 .. Len(hist.labels) + 1

\* A histogram and a cut flow hold the same counts.
Agree(hist, counts) ==
  /\ hist.bins[0] = AsFloat(counts.overallEventCount)
  /\ \A i \in Filters(hist.labels) : hist.bins[i] = AsFloat(CutCount(counts, hist.labels[i]))

CountsTyped ==
  /\ flow.overallEventCount \in Nat
  /\ flow.cutCount \in [DOMAIN flow.cutCount -> Nat]
  /\ histogram = [initialised |-> histogram.initialised, labels |-> histogram.labels,
                  bins |-> histogram.bins]
  /\ histogram.initialised \in BOOLEAN

CountsInv ==
  /\ CountsTyped
  /\ ~histogram.initialised => flow = NoCutFlow
  /\ histogram.initialised => \E k \in Nat : LabelledInOrder(histogram, k)
  /\ histogram.initialised => Agree(histogram, flow)

IInv == ListInv /\ CountsInv

-----------------------------------------------------------------------------
(* The order.                                                              *)

\* A set of natural numbers that is not empty has a least element.
LEMMA LeastElement ==
  ASSUME NEW S \in SUBSET Nat, S # {}
  PROVE  \E p \in S : \A q \in S : p <= q
<1>1. IsWellFoundedOn(OpToRel(<, Nat), Nat)
  BY NatLessThanWellFounded
<1>2. PICK p \in S : \A q \in S : ~ (<<q, p>> \in OpToRel(<, Nat))
  BY <1>1, WFMin
<1>3. \A q \in S : ~ (q < p)
  BY <1>2 DEF OpToRel
<1>4. QED
  BY <1>3

\* Positions are numbers, and there is a name at each of them.
LEMMA PositionTypes ==
  /\ Globals \in Nat /\ Named \in Nat /\ Globals <= Named /\ Len(LocalNodes) \in Nat
  /\ Positions \subseteq Nat /\ Positions \subseteq 1 .. Named + Len(LocalNodes)
  /\ \A p \in Positions : NameAt(p) \in FilterName
<1>1. /\ Globals \in Nat /\ Named \in Nat /\ Globals <= Named /\ Len(LocalNodes) \in Nat
  BY ConsumerConstants DEF Globals, Named
<1>2. Positions \subseteq Nat /\ Positions \subseteq 1 .. Named + Len(LocalNodes)
  BY <1>1 DEF Positions
<1>3. ASSUME NEW p \in Positions
      PROVE  NameAt(p) \in FilterName
  <2>1. p \in 1 .. Named + Len(LocalNodes)
    BY <1>2
  <2>2. CASE p <= Globals
    BY <1>1, <2>1, <2>2, ConsumerConstants DEF NameAt, Globals
  <2>3. CASE ~(p <= Globals) /\ p <= Named
    <3>1. p - Globals \in 1 .. Len(LocalFilters)
      BY <1>1, <2>1, <2>3, ConsumerConstants DEF Named, Globals
    <3>2. QED
      BY <2>3, <3>1, ConsumerConstants DEF NameAt
  <2>4. CASE ~(p <= Globals) /\ ~(p <= Named)
    <3>1. p - Named \in 1 .. Len(LocalNodes)
      BY <1>1, <2>1, <2>4
    <3>2. LocalNodes[p - Named] \in ProcessNode
      BY <3>1, ConsumerConstants
    <3>3. QED
      BY <2>4, <3>2 DEF NameAt, ProcessNode
  <2>5. QED
    BY <2>2, <2>3, <2>4
<1>4. QED
  BY <1>1, <1>2, <1>3

\* A name has a first position.
LEMMA FirstPosition ==
  ASSUME NEW p \in Positions
  PROVE  /\ First(NameAt(p)) \in Positions
         /\ NameAt(First(NameAt(p))) = NameAt(p)
         /\ First(NameAt(p)) <= p
         /\ \A q \in Positions : NameAt(q) = NameAt(p) => First(NameAt(p)) <= q
<1> DEFINE same == {q \in Positions : NameAt(q) = NameAt(p)}
<1>1. same \in SUBSET Nat /\ same # {}
  BY PositionTypes
<1>2. PICK l \in same : \A q \in same : l <= q
  BY <1>1, LeastElement
<1>3. FirstAt(l) /\ NameAt(l) = NameAt(p) /\ l \in Positions
  BY <1>2 DEF FirstAt
<1>4. FirstAt(First(NameAt(p))) /\ NameAt(First(NameAt(p))) = NameAt(p)
  BY <1>3 DEF First
<1>5. QED
  BY <1>4 DEF FirstAt

\* The names at the first k positions: finitely many, those that come first.
LEMMA BeforeFacts ==
  ASSUME NEW k \in Int
  PROVE  /\ Before(k) \subseteq FilterName
         /\ IsFiniteSet(Before(k)) /\ Cardinality(Before(k)) \in Nat
         /\ \A n \in Before(k) : /\ First(n) \in Positions /\ First(n) \in Nat
                                 /\ NameAt(First(n)) = n
                                 /\ First(n) <= k
                                 /\ n \in Before(First(n))
         /\ \A p \in Positions : p <= k => NameAt(p) \in Before(k)
         /\ \A l \in Int : l <= k => Before(l) \subseteq Before(k)
<1>1. Before(k) \subseteq FilterName
  BY PositionTypes DEF Before
<1>2. IsFiniteSet(Before(k)) /\ Cardinality(Before(k)) \in Nat
  BY <1>1, FilterNameFinite, FS_Subset, FS_CardinalityType
<1>3. ASSUME NEW n \in Before(k)
      PROVE  /\ First(n) \in Positions /\ First(n) \in Nat
             /\ NameAt(First(n)) = n
             /\ First(n) <= k
             /\ n \in Before(First(n))
  <2>1. PICK p \in Positions : p <= k /\ NameAt(p) = n
    BY DEF Before
  <2>2. First(n) \in Positions /\ NameAt(First(n)) = n /\ First(n) <= p
    BY <2>1, FirstPosition
  <2>3. First(n) \in Nat /\ p \in Nat
    BY <2>2, PositionTypes
  <2>4. First(n) <= k
    BY <2>1, <2>2, <2>3
  <2>5. First(n) <= First(n)
    BY <2>3
  <2>6. n \in Before(First(n))
    BY <2>2, <2>5 DEF Before
  <2>7. QED
    BY <2>2, <2>3, <2>4, <2>6
<1>4. \A p \in Positions : p <= k => NameAt(p) \in Before(k)
  BY DEF Before
<1>5. \A l \in Int : l <= k => Before(l) \subseteq Before(k)
  BY PositionTypes DEF Before
<1>6. QED
  BY <1>1, <1>2, <1>3, <1>4, <1>5

\* A name that comes first earlier has the smaller place.
LEMMA RankGrows ==
  ASSUME NEW k \in Int, NEW m \in Before(k), NEW n \in Before(k), First(m) < First(n)
  PROVE  Rank(m) < Rank(n)
<1>1. First(m) \in Positions /\ First(n) \in Positions /\ First(m) \in Nat /\ First(n) \in Nat
  BY BeforeFacts
<1>2. Before(First(m)) \subseteq Before(First(n)) /\ IsFiniteSet(Before(First(n)))
      /\ IsFiniteSet(Before(First(m)))
  BY <1>1, BeforeFacts
<1>3. n \in Before(First(n))
  BY BeforeFacts
<1>4. n \notin Before(First(m))
  BY <1>1, BeforeFacts
<1>5. /\ Cardinality(Before(First(m))) <= Cardinality(Before(First(n)))
      /\ Cardinality(Before(First(m))) # Cardinality(Before(First(n)))
      /\ Cardinality(Before(First(m))) \in Nat /\ Cardinality(Before(First(n))) \in Nat
  BY <1>2, <1>3, <1>4, FS_Subset, FS_CardinalityType
<1>6. QED
  BY <1>5 DEF Rank

\* Different names have different places.
LEMMA RankDiffers ==
  ASSUME NEW k \in Int, NEW m \in Before(k), NEW n \in Before(k), m # n
  PROVE  Rank(m) # Rank(n)
<1>1. /\ First(m) \in Nat /\ First(n) \in Nat
      /\ NameAt(First(m)) = m /\ NameAt(First(n)) = n
  BY BeforeFacts
<1>2. First(m) < First(n) \/ First(n) < First(m)
  BY <1>1
<1>3. \A x : /\ x \in Before(k)
             => Rank(x) \in Nat
  BY BeforeFacts DEF Rank
<1>4. QED
  BY <1>2, <1>3, RankGrows

\* The places of the names at the first k positions are 1, 2, ... without a gap.
LEMMA RankCovers ==
  ASSUME NEW k \in Int
  PROVE  /\ \A n \in Before(k) : Rank(n) \in 1 .. Cardinality(Before(k))
         /\ \A i \in 1 .. Cardinality(Before(k)) : \E n \in Before(k) : Rank(n) = i
<1> DEFINE c == Cardinality(Before(k))
           rank == [n \in Before(k) |-> Rank(n)]
<1>1. IsFiniteSet(Before(k)) /\ c \in Nat
  BY BeforeFacts
<1>2. ASSUME NEW n \in Before(k)
      PROVE  Rank(n) \in 1 .. c
  <2>1. First(n) \in Nat /\ n \in Before(First(n)) /\ First(n) <= k
    BY BeforeFacts
  <2>2. Before(First(n)) \subseteq Before(k) /\ IsFiniteSet(Before(First(n)))
    BY <2>1, BeforeFacts
  <2>3. Cardinality(Before(First(n))) <= c /\ Cardinality(Before(First(n))) \in Nat
    BY <1>1, <2>2, FS_Subset, FS_CardinalityType
  <2>4. Cardinality(Before(First(n))) # 0
    BY <2>1, <2>2, FS_EmptySet
  <2>5. QED
    BY <1>1, <2>3, <2>4 DEF Rank
<1>3. IsFiniteSet(1 .. c) /\ Cardinality(1 .. c) = c
  BY <1>1, FS_Interval
<1>4. rank \in Injection(Before(k), 1 .. c)
  BY <1>2, RankDiffers DEF Injection, IsInjective
<1>5. rank \in Surjection(Before(k), 1 .. c)
  BY <1>3, <1>4, FS_Injection
<1>6. QED
  BY <1>2, <1>5 DEF Surjection

-----------------------------------------------------------------------------
(* The operations of a filter result extend a list along the order.        *)

\* A position beyond the first k is the first one of a name not among them.
LEMMA NewNameComesFirst ==
  ASSUME NEW k \in Nat, NEW p \in Positions, p > k, NameAt(p) \notin Before(k),
         \A q \in Positions : q > k /\ NameAt(q) = NameAt(p) => p <= q
  PROVE  First(NameAt(p)) = p
<1>1. /\ First(NameAt(p)) \in Positions /\ NameAt(First(NameAt(p))) = NameAt(p)
      /\ First(NameAt(p)) <= p
  BY FirstPosition
<1>2. First(NameAt(p)) > k
  BY <1>1, PositionTypes, BeforeFacts
<1>3. p <= First(NameAt(p))
  BY <1>1, <1>2
<1>4. p \in Nat /\ First(NameAt(p)) \in Nat
  BY <1>1, PositionTypes
<1>5. QED
  BY <1>1, <1>3, <1>4

\* A name of a list has a first index there.
LEMMA FirstIndex ==
  ASSUME NEW fn \in Seq(FilterName), NEW n \in Range(fn)
  PROVE  /\ FirstIn(fn, n) \in 1 .. Len(fn)
         /\ fn[FirstIn(fn, n)] = n
         /\ \A i \in 1 .. Len(fn) : fn[i] = n => FirstIn(fn, n) <= i
<1> DEFINE same == {i \in 1 .. Len(fn) : fn[i] = n}
<1>1. DOMAIN fn = 1 .. Len(fn) /\ Len(fn) \in Nat
  OBVIOUS
<1>2. same \in SUBSET Nat /\ same # {}
  BY <1>1 DEF Range
<1>3. PICK l \in same : \A i \in same : l <= i
  BY <1>2, LeastElement
<1>4. l \in DOMAIN fn /\ fn[l] = n /\ \A j \in DOMAIN fn : fn[j] = n => l <= j
  BY <1>1, <1>3
<1>5. QED
  BY <1>1, <1>4 DEF FirstIn

\* Two sets without a common element.
LEMMA DisjointUnion ==
  ASSUME NEW S, NEW T, IsFiniteSet(S), IsFiniteSet(T), S \cap T = {}
  PROVE  Cardinality(S \cup T) = Cardinality(S) + Cardinality(T)
<1>1. Cardinality(S \cap T) = 0
  BY FS_EmptySet
<1>2. Cardinality(S \cup T) = Cardinality(S) + Cardinality(T) - 0
  BY <1>1, FS_Union
<1>3. Cardinality(S) \in Nat /\ Cardinality(T) \in Nat
  BY FS_CardinalityType
<1>4. QED
  BY <1>2, <1>3

\* Appending the names at the next positions.
LEMMA AddNamesInOrder ==
  ASSUME NEW r, IsFilterResult(r), NEW fn \in Seq(FilterName), NEW k \in Nat,
         InOrder(r, k),
         \A i \in 1 .. Len(fn) : k + i \in Positions /\ NameAt(k + i) = fn[i],
         \A p \in Positions : p > k + Len(fn) \/ p <= k \/ p - k \in 1 .. Len(fn)
  PROVE  InOrder(AddFilterNames(r, fn), k + Len(fn))
<1> DEFINE s == AddFilterNames(r, fn)
           fresh == Fresh(r, fn)
           rank(n) == {m \in fresh : FirstIn(fn, m) <= FirstIn(fn, n)}
<1>1. /\ Listed(s) = Listed(r) \cup Range(fn)
      /\ \A n \in Listed(r) : s.filterDecisions[n] = r.filterDecisions[n]
  BY AddNamesPreserves
<1>2. Len(fn) \in Nat /\ DOMAIN fn = 1 .. Len(fn)
  OBVIOUS
<1>3. Listed(r) = Before(k) /\ \A n \in Listed(r) : r.filterDecisions[n].place = Rank(n)
  BY DEF InOrder
<1>4. ASSUME NEW j \in 0 .. Len(fn)
      PROVE  Before(k + j) = Before(k) \cup {fn[i] : i \in 1 .. j}
  <2>1. j \in Nat /\ j <= Len(fn) /\ k + j \in Nat /\ k <= k + j
    BY <1>2
  <2>2. ASSUME NEW n \in Before(k + j)
        PROVE  n \in Before(k) \cup {fn[i] : i \in 1 .. j}
    <3>1. PICK p \in Positions : p <= k + j /\ NameAt(p) = n
      BY DEF Before
    <3>2. p \in Nat
      BY PositionTypes
    <3>3. CASE p <= k
      BY <3>1, <3>3 DEF Before
    <3>4. CASE p > k
      <4>1. p - k \in 1 .. j /\ k + (p - k) = p
        BY <2>1, <3>1, <3>2, <3>4
      <4>2. NameAt(p) = fn[p - k]
        BY <1>2, <2>1, <4>1
      <4>3. QED
        BY <3>1, <4>1, <4>2
    <3>5. QED
      BY <3>2, <3>3, <3>4
  <2>3. ASSUME NEW i \in 1 .. j
        PROVE  fn[i] \in Before(k + j)
    BY <1>2, <2>1, BeforeFacts
  <2>4. Before(k) \subseteq Before(k + j)
    BY <2>1, BeforeFacts
  <2>5. QED
    BY <2>2, <2>3, <2>4
<1>5. Listed(s) = Before(k + Len(fn))
  <2>1. Range(fn) = {fn[i] : i \in 1 .. Len(fn)}
    BY <1>2 DEF Range
  <2>2. Len(fn) \in 0 .. Len(fn)
    BY <1>2
  <2>3. QED
    BY <1>1, <1>3, <1>4, <2>1, <2>2
<1>6. ASSUME NEW n \in fresh
      PROVE  s.filterDecisions[n].place = Rank(n)
  <2> DEFINE j == FirstIn(fn, n)
  <2>1. n \in Range(fn) /\ n \notin Before(k)
    BY <1>3 DEF Fresh
  <2>2. /\ j \in 1 .. Len(fn) /\ fn[j] = n
        /\ \A i \in 1 .. Len(fn) : fn[i] = n => j <= i
    BY <2>1, FirstIndex
  <2>3. k + j \in Positions /\ NameAt(k + j) = n
    BY <2>2
  <2>4. \A q \in Positions : q > k /\ NameAt(q) = n => k + j <= q
    <3> SUFFICES ASSUME NEW q \in Positions, q > k, NameAt(q) = n
                 PROVE  k + j <= q
      OBVIOUS
    <3>1. q \in Nat /\ j \in Nat /\ j <= Len(fn)
      BY <1>2, <2>2, PositionTypes
    <3>2. CASE q > k + Len(fn)
      BY <1>2, <3>1, <3>2
    <3>3. CASE q - k \in 1 .. Len(fn)
      <4>1. k + (q - k) = q
        BY <3>1
      <4>2. fn[q - k] = n
        BY <3>3, <4>1
      <4>3. j <= q - k
        BY <2>2, <3>3, <4>2
      <4>4. QED
        BY <3>1, <4>3
    <3>4. QED
      BY <3>1, <3>2, <3>3
  <2>5. First(n) = k + j
    BY <1>2, <2>1, <2>2, <2>3, <2>4, NewNameComesFirst
  <2>6. {fn[i] : i \in 1 .. j} \subseteq Listed(r) \cup rank(n)
    <3> SUFFICES ASSUME NEW i \in 1 .. j, fn[i] \notin Listed(r)
                 PROVE  fn[i] \in rank(n)
      OBVIOUS
    <3>1. i \in 1 .. Len(fn) /\ i <= j /\ j \in Nat
      BY <1>2, <2>2
    <3>2. fn[i] \in fresh
      BY <1>2, <3>1 DEF Fresh, Range
    <3>3. FirstIn(fn, fn[i]) <= i /\ FirstIn(fn, fn[i]) \in 1 .. Len(fn)
      BY <3>1, <3>2, FirstIndex DEF Fresh
    <3>4. FirstIn(fn, fn[i]) <= j
      BY <1>2, <3>1, <3>3
    <3>5. QED
      BY <3>2, <3>4
  <2>7. rank(n) \subseteq {fn[i] : i \in 1 .. j}
    <3> SUFFICES ASSUME NEW m \in rank(n)
                 PROVE  m \in {fn[i] : i \in 1 .. j}
      OBVIOUS
    <3>1. FirstIn(fn, m) \in 1 .. Len(fn) /\ fn[FirstIn(fn, m)] = m
      BY FirstIndex DEF Fresh
    <3>2. FirstIn(fn, m) \in 1 .. j
      BY <1>2, <2>2, <3>1
    <3>3. QED
      BY <3>1, <3>2
  <2>8. Before(k + j) = Listed(r) \cup rank(n)
    <3>1. j \in 0 .. Len(fn)
      BY <1>2, <2>2
    <3>2. QED
      BY <1>3, <1>4, <2>6, <2>7, <3>1
  <2>9. Cardinality(Listed(r) \cup rank(n)) = Cardinality(Listed(r)) + Cardinality(rank(n))
    <3>1. IsFiniteSet(Listed(r)) /\ Cardinality(Listed(r)) \in Nat
      BY FieldTypes
    <3>2. rank(n) \subseteq FilterName
      BY DEF Fresh, Range
    <3>3. IsFiniteSet(rank(n)) /\ Cardinality(rank(n)) \in Nat
      BY <3>2, FilterNameFinite, FS_Subset, FS_CardinalityType
    <3>4. Listed(r) \cap rank(n) = {}
      BY DEF Fresh
    <3>5. QED
      BY <3>1, <3>3, <3>4, DisjointUnion
  <2>10. s.filterDecisions[n].place = Cardinality(Listed(r)) + Cardinality(rank(n))
    BY DEF AddFilterNames, FreshEntry, Fresh, IsFilterResult
  <2>11. QED
    BY <2>5, <2>8, <2>9, <2>10 DEF Rank
<1>7. \A n \in Listed(s) : s.filterDecisions[n].place = Rank(n)
  BY <1>1, <1>3, <1>6 DEF Fresh
<1>8. QED
  BY <1>5, <1>7 DEF InOrder

\* A decision of a listed filter leaves the list in order.
LEMMA DecisionInOrder ==
  ASSUME NEW r, IsFilterResult(r), CacheCoherent(r), NEW k \in Nat, InOrder(r, k),
         NEW n \in Listed(r), NEW passed \in BOOLEAN
  PROVE  InOrder(SetFilterDecision(r, n, passed), k)
<1> DEFINE s == SetFilterDecision(r, n, passed)
<1>1. n \in FilterName
  BY FieldTypes
<1>2. /\ Listed(s) = Listed(r) \cup {n}
      /\ \A m \in Listed(r) \ {n} : s.filterDecisions[m] = r.filterDecisions[m]
      /\ s.filterDecisions[n].place = r.filterDecisions[n].place
  BY <1>1, SetDecisionPreserves
<1> HIDE DEF s
<1>3. Listed(s) = Listed(r)
  BY <1>2
<1>4. \A m \in Listed(s) : s.filterDecisions[m].place = r.filterDecisions[m].place
  BY <1>2, <1>3
<1>5. InOrder(s, k)
  BY <1>3, <1>4 DEF InOrder
<1>6. QED
  BY <1>5 DEF s

\* The decision of the filter at the next position extends it.
LEMMA NextDecisionInOrder ==
  ASSUME NEW r, IsFilterResult(r), CacheCoherent(r), NEW k \in Nat, InOrder(r, k),
         k + 1 \in Positions, NEW passed \in BOOLEAN
  PROVE  InOrder(SetFilterDecision(r, NameAt(k + 1), passed), k + 1)
<1> DEFINE n == NameAt(k + 1)
           s == SetFilterDecision(r, n, passed)
<1>1. n \in FilterName
  BY PositionTypes
<1>2. Listed(r) = Before(k) /\ \A m \in Listed(r) : r.filterDecisions[m].place = Rank(m)
  BY DEF InOrder
<1>3. Before(k + 1) = Before(k) \cup {n}
  <2>1. Positions \subseteq Nat
    BY PositionTypes
  <2>2. \A p \in Positions : p <= k + 1 <=> (p <= k \/ p = k + 1)
    BY <2>1
  <2>3. QED
    BY <2>2 DEF Before
<1> HIDE DEF n
<1>4. Listed(s) = Before(k + 1)
  <2>1. Listed(s) = Listed(r) \cup {n}
    BY <1>1, SetDecisionPreserves
  <2>2. QED
    BY <1>2, <1>3, <2>1
<1>5. CASE n \in Listed(r)
  <2>1. s.filterDecisions[n].place = r.filterDecisions[n].place
    BY <1>1, <1>5, SetDecisionPreserves
  <2>2. \A m \in Listed(r) \ {n} : s.filterDecisions[m] = r.filterDecisions[m]
    BY <1>1, SetDecisionPreserves
  <2>3. \A m \in Listed(r) : s.filterDecisions[m].place = Rank(m)
    BY <1>2, <1>5, <2>1, <2>2
  <2>4. Listed(s) = Listed(r)
    BY <1>2, <1>3, <1>4, <1>5
  <2>5. QED
    BY <1>4, <2>3, <2>4 DEF InOrder, n
<1>6. CASE n \notin Listed(r)
  <2>1. First(n) = k + 1
    <3>1. k + 1 > k /\ \A q \in Positions : q > k => k + 1 <= q
      BY PositionTypes
    <3>2. QED
      BY <1>2, <1>6, <3>1, NewNameComesFirst DEF n
  <2>2. Rank(n) = Cardinality(Listed(r)) + 1
    <3>1. IsFiniteSet(Listed(r))
      BY FieldTypes
    <3>2. QED
      BY <1>2, <1>3, <1>6, <2>1, <3>1, FS_AddElement DEF Rank
  <2>3. s.filterDecisions[n].place = Cardinality(Listed(r)) + 1
    BY <1>6 DEF SetFilterDecision, DecidedEntry, IsFilterResult
  <2>4. \A m \in Listed(r) : s.filterDecisions[m].place = Rank(m)
    BY <1>1, <1>2, <1>6, SetDecisionPreserves
  <2>5. \A m \in Listed(s) : s.filterDecisions[m].place = Rank(m)
    BY <1>2, <1>3, <1>4, <2>2, <2>3, <2>4
  <2>6. QED
    BY <1>4, <2>5 DEF InOrder, n
<1>7. QED
  BY <1>5, <1>6 DEF n

-----------------------------------------------------------------------------
(* What an event adds to the histogram and to the cut flow.                *)

\* What the cut flow counts for the name n in the list of r.
Added(r, n) == IF n \in Listed(r) THEN AddVal(r, n) ELSE 0

LEMMA AddedIsABit ==
  ASSUME NEW r, NEW n
  PROVE  Added(r, n) \in {0, 1}
BY DEF Added, AddVal

\* Adding one to a float is adding one to what it stands for.
LEMMA FloatAdds ==
  ASSUME NEW x \in Nat, NEW d \in {0, 1}
  PROVE  AsFloat(AsFloat(x) + d) = AsFloat(x + d)
BY FloatExactPositive DEF AsFloat

\* A cut flow counts every listed filter that let the event pass.
LEMMA FlowAdds ==
  ASSUME NEW counts, NEW r,
         counts.overallEventCount \in Nat,
         counts.cutCount \in [DOMAIN counts.cutCount -> Nat]
  PROVE  LET after == AddFilterResult(counts, r)
         IN  /\ after.overallEventCount = counts.overallEventCount + 1
             /\ after.cutCount \in [DOMAIN after.cutCount -> Nat]
             /\ \A n : /\ CutCount(counts, n) \in Nat
                       /\ CutCount(after, n) = CutCount(counts, n) + Added(r, n)
<1> DEFINE after == AddFilterResult(counts, r)
           names == DOMAIN counts.cutCount \cup Listed(r)
<1>1. \A n : CutCount(counts, n) \in Nat
  BY DEF CutCount
<1>2. \A n : Added(r, n) \in Nat
  BY AddedIsABit
<1>3. /\ after.overallEventCount = counts.overallEventCount + 1
      /\ after.cutCount = [n \in names |-> CutCount(counts, n) + Added(r, n)]
  BY DEF AddFilterResult, Added
<1>4. \A i, j \in Nat : i + j \in Nat
  OBVIOUS
<1>5. \A n \in names : CutCount(counts, n) + Added(r, n) \in Nat
  BY <1>1, <1>2, <1>4
<1> HIDE DEF after
<1>6. DOMAIN after.cutCount = names
  BY <1>3
<1>7. after.cutCount \in [DOMAIN after.cutCount -> Nat]
  BY <1>3, <1>5, <1>6
<1>8. ASSUME NEW n
      PROVE  CutCount(after, n) = CutCount(counts, n) + Added(r, n)
  <2>1. CASE n \in names
    BY <1>3, <1>6, <2>1 DEF CutCount
  <2>2. CASE n \notin names
    <3>1. CutCount(after, n) = 0 /\ CutCount(counts, n) = 0 /\ Added(r, n) = 0
      BY <1>6, <2>2 DEF CutCount, Added
    <3>2. QED
      BY <3>1
  <2>3. QED
    BY <2>1, <2>2
<1>9. QED
  BY <1>1, <1>3, <1>7, <1>8 DEF after

\* Two names of the order with the same place are the same.
LEMMA SamePlace ==
  ASSUME NEW k \in Nat, NEW l \in Nat, NEW m \in Before(k), NEW n \in Before(l),
         Rank(m) = Rank(n)
  PROVE  m = n
<1>1. CASE k <= l
  BY <1>1, BeforeFacts, RankDiffers
<1>2. CASE l <= k
  BY <1>2, BeforeFacts, RankDiffers
<1>3. QED
  BY <1>1, <1>2

\* The bin of a filter is filled by the events that the cut flow counts for it.
LEMMA HitsAgree ==
  ASSUME NEW hist, NEW k \in Nat, LabelledInOrder(hist, k),
         NEW r, NEW l \in Nat, InOrder(r, l), TaggersKnown(r),
         NEW i \in Filters(hist.labels)
  PROVE  Hits(hist, r, i) = Added(r, hist.labels[i])
<1> DEFINE n == hist.labels[i]
<1>1. Len(hist.labels) \in Nat /\ DOMAIN hist.labels = 1 .. Len(hist.labels)
  BY DEF LabelledInOrder, NamesUpTo
<1>2. i \in 1 .. Len(hist.labels) /\ n \notin Tagging
  BY <1>1 DEF Filters
<1>3. n \in Before(k) /\ Rank(n) = i
  BY <1>2 DEF LabelledInOrder, NamesUpTo
<1>4. Hits(hist, r, i) = Cardinality({i} \cap FilledBins(r))
  BY <1>1, <1>2 DEF Hits
<1>5. i # 0
  BY <1>2
<1>6. \A m \in Listed(r) : r.filterDecisions[m].place = i <=> m = n
  BY <1>3, SamePlace DEF InOrder
<1>7. ~(n \in Listed(r) /\ Tagged(r, n))
  BY <1>2 DEF TaggersKnown
<1>8. i \in FilledBins(r) <=> n \in Listed(r) /\ PassedFilter(r, n)
  BY <1>5, <1>6, <1>7 DEF FilledBins
<1>9. CASE n \in Listed(r) /\ PassedFilter(r, n)
  <2>1. {i} \cap FilledBins(r) = {i}
    BY <1>8, <1>9
  <2>2. Added(r, n) = 1
    BY <1>7, <1>9 DEF Added, AddVal
  <2>3. QED
    BY <1>4, <2>1, <2>2, FS_Singleton
<1>10. CASE ~(n \in Listed(r) /\ PassedFilter(r, n))
  <2>1. {i} \cap FilledBins(r) = {}
    BY <1>8, <1>10
  <2>2. Added(r, n) = 0
    BY <1>10 DEF Added, AddVal
  <2>3. QED
    BY <1>4, <2>1, <2>2, FS_EmptySet
<1>11. QED
  BY <1>9, <1>10

\* Every event fills the first bin.
LEMMA HitsAll ==
  ASSUME NEW hist, Len(hist.labels) \in Nat, NEW r
  PROVE  Hits(hist, r, 0) = 1
<1>1. {0} \cap FilledBins(r) = {0}
  BY DEF FilledBins
<1>2. 0 <= Len(hist.labels)
  OBVIOUS
<1>3. QED
  BY <1>1, <1>2, FS_Singleton DEF Hits

\* A histogram is booked in order.
LEMMA BookedInOrder ==
  ASSUME NEW r, IsFilterResult(r), NEW l \in Nat, InOrder(r, l)
  PROVE  LabelledInOrder(InitialiseHistograms(r), l)
<1> DEFINE hist == InitialiseHistograms(r)
           c == Cardinality(Before(l))
<1>1. Listed(r) = Before(l) /\ \A n \in Listed(r) : r.filterDecisions[n].place = Rank(n)
  BY DEF InOrder
<1>2. c \in Nat /\ Before(l) \subseteq FilterName
  BY BeforeFacts
<1>3. /\ hist.labels = [i \in 1 .. c |->
                          CHOOSE n \in Before(l) : r.filterDecisions[n].place = i]
      /\ hist.bins = [b \in 0 .. c + 1 |-> 0]
  BY <1>1 DEF InitialiseHistograms, GetFilterNames
<1>4. ASSUME NEW i \in 1 .. c
      PROVE  hist.labels[i] \in Before(l) /\ Rank(hist.labels[i]) = i
  <2>1. PICK n \in Before(l) : Rank(n) = i
    BY RankCovers
  <2>2. \E m \in Before(l) : r.filterDecisions[m].place = i
    BY <1>1, <2>1
  <2>3. hist.labels[i] = CHOOSE m \in Before(l) : r.filterDecisions[m].place = i
    BY <1>3
  <2>4. hist.labels[i] \in Before(l) /\ r.filterDecisions[hist.labels[i]].place = i
    BY <2>2, <2>3
  <2>5. QED
    BY <1>1, <2>4
<1> HIDE DEF hist, c
<1>5. hist.labels \in [1 .. c -> FilterName]
  BY <1>2, <1>3, <1>4
<1>6. hist.labels \in Seq(FilterName) /\ Len(hist.labels) = c
  BY <1>2, <1>5
<1>7. DOMAIN hist.bins = 0 .. c + 1
  BY <1>3
<1>8. QED
  BY <1>4, <1>6, <1>7 DEF LabelledInOrder, NamesUpTo, hist, c

\* The histogram after an event, once it is booked.
Filled(hist, r) ==
  [hist EXCEPT !.bins = [b \in DOMAIN @ |-> AsFloat(@[b] + Hits(hist, r, b))]]

\* A histogram that agrees with a cut flow still does after the same event.
LEMMA FillAgrees ==
  ASSUME NEW hist,
         hist = [initialised |-> hist.initialised, labels |-> hist.labels,
                 bins |-> hist.bins],
         NEW counts, counts.overallEventCount \in Nat,
         counts.cutCount \in [DOMAIN counts.cutCount -> Nat],
         NEW k \in Nat, LabelledInOrder(hist, k), Agree(hist, counts),
         NEW r, NEW l \in Nat, InOrder(r, l), TaggersKnown(r)
  PROVE  LET after == Filled(hist, r)
         IN  /\ after = [initialised |-> hist.initialised, labels |-> hist.labels,
                         bins |-> after.bins]
             /\ LabelledInOrder(after, k)
             /\ Agree(after, AddFilterResult(counts, r))
<1> DEFINE after == Filled(hist, r)
           total == AddFilterResult(counts, r)
<1>1. /\ after = [initialised |-> hist.initialised, labels |-> hist.labels,
                  bins |-> after.bins]
      /\ after.labels = hist.labels
      /\ after.bins = [b \in DOMAIN hist.bins |-> AsFloat(hist.bins[b] + Hits(hist, r, b))]
  BY DEF Filled
<1> HIDE DEF after
<1>2. /\ total.overallEventCount = counts.overallEventCount + 1
      /\ \A n : /\ CutCount(counts, n) \in Nat
                /\ CutCount(total, n) = CutCount(counts, n) + Added(r, n)
  BY FlowAdds
<1> HIDE DEF total
<1>3. Len(hist.labels) \in Nat /\ DOMAIN hist.labels = 1 .. Len(hist.labels)
      /\ DOMAIN hist.bins = 0 .. Len(hist.labels) + 1
  BY DEF LabelledInOrder, NamesUpTo
<1>4. LabelledInOrder(after, k)
  BY <1>1 DEF LabelledInOrder, NamesUpTo
<1>5. after.bins[0] = AsFloat(total.overallEventCount)
  <2>1. 0 \in DOMAIN hist.bins
    BY <1>3
  <2>2. after.bins[0] = AsFloat(AsFloat(counts.overallEventCount) + 1)
    BY <1>1, <1>3, <2>1, HitsAll DEF Agree
  <2>3. QED
    BY <1>2, <2>2, FloatAdds
<1>6. ASSUME NEW i \in Filters(after.labels)
      PROVE  after.bins[i] = AsFloat(CutCount(total, after.labels[i]))
  <2> DEFINE n == hist.labels[i]
  <2>1. i \in Filters(hist.labels) /\ after.labels[i] = n
    BY <1>1
  <2>2. i \in DOMAIN hist.bins
    BY <1>3, <2>1 DEF Filters
  <2>3. hist.bins[i] = AsFloat(CutCount(counts, n))
    BY <2>1 DEF Agree
  <2>4. Hits(hist, r, i) = Added(r, n) /\ Added(r, n) \in {0, 1}
    BY <2>1, HitsAgree, AddedIsABit
  <2> HIDE DEF n
  <2>5. after.bins[i] = AsFloat(AsFloat(CutCount(counts, n)) + Added(r, n))
    BY <1>1, <2>2, <2>3, <2>4
  <2>6. AsFloat(AsFloat(CutCount(counts, n)) + Added(r, n))
        = AsFloat(CutCount(counts, n) + Added(r, n))
    BY <1>2, <2>4, FloatAdds
  <2>7. QED
    BY <1>2, <2>1, <2>5, <2>6 DEF n
<1>7. Agree(after, total)
  BY <1>5, <1>6 DEF Agree
<1>8. QED
  BY <1>1, <1>4, <1>7 DEF after, total

\* A histogram that was just booked agrees with a cut flow that counted nothing.
LEMMA BookedAgrees ==
  ASSUME NEW r, IsFilterResult(r), NEW l \in Nat, InOrder(r, l)
  PROVE  LET hist == InitialiseHistograms(r)
         IN  /\ hist = [initialised |-> TRUE, labels |-> hist.labels, bins |-> hist.bins]
             /\ LabelledInOrder(hist, l)
             /\ Agree(hist, NoCutFlow)
<1> DEFINE hist == InitialiseHistograms(r)
<1>1. LabelledInOrder(hist, l)
  BY BookedInOrder
<1>2. /\ hist = [initialised |-> TRUE, labels |-> hist.labels, bins |-> hist.bins]
      /\ hist.bins = [b \in 0 .. Cardinality(Listed(r)) + 1 |-> 0]
  BY DEF InitialiseHistograms
<1> HIDE DEF hist
<1>3. /\ Len(hist.labels) \in Nat /\ DOMAIN hist.labels = 1 .. Len(hist.labels)
      /\ DOMAIN hist.bins = 0 .. Len(hist.labels) + 1
  BY <1>1 DEF LabelledInOrder, NamesUpTo
<1>4. \A b \in 0 .. Len(hist.labels) + 1 : hist.bins[b] = 0
  BY <1>2, <1>3
<1>5. AsFloat(0) = 0
  BY FloatExactPositive DEF AsFloat
<1>6. \A n : CutCount(NoCutFlow, n) = 0
  BY DEF CutCount, NoCutFlow
<1>7. NoCutFlow.overallEventCount = 0
  BY DEF NoCutFlow
<1>8. \A i \in Filters(hist.labels) : i \in 0 .. Len(hist.labels) + 1
  BY <1>3 DEF Filters
<1>9. Agree(hist, NoCutFlow)
  BY <1>3, <1>4, <1>5, <1>6, <1>7, <1>8 DEF Agree
<1>10. QED
  BY <1>1, <1>2, <1>9 DEF hist

-----------------------------------------------------------------------------
(* What the operations of a filter result do to a sound list.              *)

\* Whether a name is entered as a tagger is decided when it is listed: with all
\* tagging filters, unless a global filter has the name.
LEMMA TaggersStayKnown ==
  ASSUME NEW r, NEW s, TaggersKnown(r),
         \A n \in Listed(s) :
           \/ /\ n \in Listed(r)
              /\ s.filterDecisions[n].taggingMode = r.filterDecisions[n].taggingMode
           \/ /\ s.filterDecisions[n].taggingMode = IsTaggingFilter(s, n)
              /\ s.taggingFilters = AllTagging
              /\ n \notin Range(GlobalFilters)
  PROVE  TaggersKnown(s)
<1> SUFFICES ASSUME NEW n \in Listed(s)
             PROVE  Tagged(s, n) <=> n \in Tagging
  BY DEF TaggersKnown
<1>1. CASE n \in Listed(r) /\ s.filterDecisions[n].taggingMode = r.filterDecisions[n].taggingMode
  BY <1>1 DEF TaggersKnown, Tagged
<1>2. CASE /\ s.filterDecisions[n].taggingMode = IsTaggingFilter(s, n)
           /\ s.taggingFilters = AllTagging
           /\ n \notin Range(GlobalFilters)
  <2>1. Tagged(s, n) <=> n \in AllTagging
    BY <1>2 DEF Tagged, IsTaggingFilter
  <2>2. n \in AllTagging <=> n \in Tagging
    BY <1>2 DEF AllTagging, Tagging
  <2>3. QED
    BY <2>1, <2>2
<1>3. QED
  BY <1>1, <1>2

\* The names of the settings stand first in the order.
LEMMA NamedStandFirst ==
  /\ Range(GlobalFilters) \subseteq Before(Globals)
  /\ Range(GlobalFilters) \cup Range(LocalFilters) = Before(Named)
<1>1. /\ Range(GlobalFilters) = {GlobalFilters[i] : i \in 1 .. Globals}
      /\ Range(LocalFilters) = {LocalFilters[i] : i \in 1 .. Len(LocalFilters)}
      /\ Len(LocalFilters) \in Nat
  <2>1. /\ DOMAIN GlobalFilters = 1 .. Globals
        /\ DOMAIN LocalFilters = 1 .. Len(LocalFilters) /\ Len(LocalFilters) \in Nat
    BY ConsumerConstants DEF Globals
  <2>2. QED
    BY <2>1 DEF Range
<1>2. ASSUME NEW i \in 1 .. Globals
      PROVE  i \in Positions /\ i <= Globals /\ i <= Named /\ NameAt(i) = GlobalFilters[i]
  BY PositionTypes DEF Positions, NameAt
<1>3. ASSUME NEW i \in 1 .. Len(LocalFilters)
      PROVE  /\ Globals + i \in Positions /\ Globals + i <= Named
             /\ NameAt(Globals + i) = LocalFilters[i]
  <2>1. /\ Globals + i <= Named /\ Globals + i > Globals /\ (Globals + i) - Globals = i
        /\ Globals + i \in 1 .. Named + Len(LocalNodes)
    BY <1>1, PositionTypes DEF Named
  <2>2. QED
    BY <2>1, PositionTypes DEF Positions, NameAt
<1>4. ASSUME NEW p \in Positions, p <= Named
      PROVE  \/ p \in 1 .. Globals
             \/ p - Globals \in 1 .. Len(LocalFilters) /\ Globals + (p - Globals) = p
  BY <1>1, <1>4, PositionTypes DEF Named
<1>5. Range(GlobalFilters) \subseteq Before(Globals)
  BY <1>1, <1>2 DEF Before
<1>6. Range(GlobalFilters) \cup Range(LocalFilters) \subseteq Before(Named)
  BY <1>1, <1>2, <1>3 DEF Before
<1>7. Before(Named) \subseteq Range(GlobalFilters) \cup Range(LocalFilters)
  <2> SUFFICES ASSUME NEW p \in Positions, p <= Named
               PROVE  NameAt(p) \in Range(GlobalFilters) \cup Range(LocalFilters)
    BY DEF Before
  <2>1. CASE p \in 1 .. Globals
    BY <1>1, <1>2, <2>1
  <2>2. CASE p - Globals \in 1 .. Len(LocalFilters) /\ Globals + (p - Globals) = p
    BY <1>1, <1>3, <2>2
  <2>3. QED
    BY <1>4, <2>1, <2>2
<1>8. QED
  BY <1>5, <1>6, <1>7

\* Asking leaves the list as it is.
LEMMA AskSound ==
  ASSUME NEW r, Sound(r)
  PROVE  /\ Sound(AfterHasPassed(r))
         /\ \A k, tags : SoundUpTo(r, k, tags) => SoundUpTo(AfterHasPassed(r), k, tags)
<1> DEFINE s == AfterHasPassed(r)
<1>1. /\ IsFilterResult(s) /\ CacheCoherent(s)
      /\ s.filterDecisions = r.filterDecisions
      /\ s.taggingFilters = r.taggingFilters
  BY AskPreserves DEF Sound
<1> HIDE DEF s
<1>2. Listed(s) = Listed(r)
  BY <1>1 DEF Listed
<1>3. TaggersKnown(s)
  BY <1>1, <1>2 DEF Sound, TaggersKnown, Tagged
<1>4. \A k : InOrder(r, k) => InOrder(s, k)
  BY <1>1, <1>2 DEF InOrder
<1>5. QED
  BY <1>1, <1>3, <1>4 DEF Sound, SoundUpTo, s

\* The filter result of a new event lists the names of the global settings.
LEMMA NewSound ==
  SoundUpTo(NewFilterResult(GlobalFilters, GlobalTagging), Globals, GlobalTagging)
<1> DEFINE e == [EmptyFilterResult EXCEPT !.taggingFilters = GlobalTagging]
           s == NewFilterResult(GlobalFilters, GlobalTagging)
<1>1. GlobalFilters \in Seq(FilterName) /\ GlobalTagging \in SUBSET FilterName
  BY ConsumerConstants
<1>2. /\ IsFilterResult(s) /\ CacheCoherent(s)
      /\ s.taggingFilters = GlobalTagging
      /\ Listed(s) = Range(GlobalFilters)
      /\ \A n \in Listed(s) : s.filterDecisions[n].taggingMode = IsTaggingFilter(s, n)
  BY <1>1, NewPreserves
<1>3. TaggersKnown(s)
  BY <1>2 DEF TaggersKnown, Tagged, IsTaggingFilter, Tagging
<1>4. IsFilterResult(e) /\ Listed(e) = {}
  BY <1>1 DEF EmptyFilterResult, IsFilterResult, Listed
<1>5. s = AddFilterNames(e, GlobalFilters)
  BY DEF NewFilterResult
<1> HIDE DEF e, s
<1>6. InOrder(e, 0)
  <2>1. Before(0) = {}
    BY PositionTypes DEF Before
  <2>2. QED
    BY <1>4, <2>1 DEF InOrder
<1>7. \A i \in 1 .. Len(GlobalFilters) :
        0 + i \in Positions /\ NameAt(0 + i) = GlobalFilters[i]
  BY PositionTypes DEF Positions, NameAt, Globals
<1>8. \A p \in Positions : p > 0 + Len(GlobalFilters) \/ p <= 0 \/ p - 0 \in 1 .. Len(GlobalFilters)
  BY PositionTypes DEF Globals
<1>9. InOrder(s, 0 + Len(GlobalFilters))
  BY <1>1, <1>4, <1>5, <1>6, <1>7, <1>8, AddNamesInOrder
<1>10. 0 + Len(GlobalFilters) = Globals
  BY PositionTypes DEF Globals
<1>11. QED
  BY <1>2, <1>3, <1>9, <1>10 DEF SoundUpTo, Sound, s

\* The copy for the pipeline lists the names of its settings behind them.
LEMMA PipelineSound ==
  ASSUME NEW r, SoundUpTo(r, Globals, GlobalTagging)
  PROVE  SoundUpTo(AddFilterNamesTagging(r, LocalFilters, LocalTagging), Named, AllTagging)
<1> DEFINE x == [r EXCEPT !.taggingFilters = @ \cup LocalTagging]
           s == AddFilterNamesTagging(r, LocalFilters, LocalTagging)
<1>1. LocalFilters \in Seq(FilterName) /\ LocalTagging \in SUBSET FilterName
  BY ConsumerConstants
<1>2. IsFilterResult(r) /\ CacheCoherent(r) /\ TaggersKnown(r) /\ InOrder(r, Globals)
  BY DEF SoundUpTo, Sound
<1>3. /\ IsFilterResult(x)
      /\ x.filterDecisions = r.filterDecisions
  BY <1>1, <1>2 DEF IsFilterResult
<1>4. s = AddFilterNames(x, LocalFilters)
  BY DEF AddFilterNamesTagging
<1> HIDE DEF x
<1>5. InOrder(x, Globals)
  BY <1>2, <1>3 DEF InOrder, Listed
<1>6. \A i \in 1 .. Len(LocalFilters) :
        Globals + i \in Positions /\ NameAt(Globals + i) = LocalFilters[i]
  <2> SUFFICES ASSUME NEW i \in 1 .. Len(LocalFilters)
               PROVE  Globals + i \in Positions /\ NameAt(Globals + i) = LocalFilters[i]
    OBVIOUS
  <2>1. /\ Globals + i <= Named /\ Globals + i > Globals /\ (Globals + i) - Globals = i
        /\ Globals + i \in 1 .. Named + Len(LocalNodes)
    BY PositionTypes, <1>1 DEF Named
  <2>2. QED
    BY <2>1, PositionTypes DEF Positions, NameAt
<1>7. \A p \in Positions :
        p > Globals + Len(LocalFilters) \/ p <= Globals \/ p - Globals \in 1 .. Len(LocalFilters)
  BY PositionTypes, <1>1
<1>8. InOrder(s, Named)
  BY <1>1, <1>3, <1>4, <1>5, <1>6, <1>7, PositionTypes, AddNamesInOrder DEF Named
<1>9. /\ IsFilterResult(s) /\ CacheCoherent(s)
      /\ Listed(s) = Listed(r) \cup Range(LocalFilters)
      /\ \A n \in Listed(r) : s.filterDecisions[n] = r.filterDecisions[n]
      /\ s.taggingFilters = r.taggingFilters \cup LocalTagging
      /\ \A n \in Range(LocalFilters) \ Listed(r) :
           s.filterDecisions[n].taggingMode = IsTaggingFilter(s, n)
  BY <1>1, <1>2, AddNamesTaggingPreserves
<1> HIDE DEF s
<1>10. TaggersKnown(s)
  <2>1. s.taggingFilters = AllTagging
    BY <1>9 DEF SoundUpTo, AllTagging
  <2>2. Range(GlobalFilters) \subseteq Listed(r)
    BY <1>2, NamedStandFirst DEF InOrder
  <2>3. QED
    BY <1>2, <1>9, <2>1, <2>2, TaggersStayKnown
<1>11. QED
  BY <1>8, <1>9, <1>10 DEF SoundUpTo, Sound, AllTagging, s

\* Recording a decision keeps what is known of the taggers.
LEMMA DecisionSound ==
  ASSUME NEW r, Sound(r), NEW n \in FilterName, NEW passed \in BOOLEAN,
         n \notin Listed(r) =>
           r.taggingFilters = AllTagging /\ n \notin Range(GlobalFilters)
  PROVE  /\ Sound(SetFilterDecision(r, n, passed))
         /\ SetFilterDecision(r, n, passed).taggingFilters = r.taggingFilters
<1> DEFINE s == SetFilterDecision(r, n, passed)
<1>1. /\ IsFilterResult(s) /\ CacheCoherent(s)
      /\ Listed(s) = Listed(r) \cup {n}
      /\ \A m \in Listed(r) \ {n} : s.filterDecisions[m] = r.filterDecisions[m]
      /\ s.taggingFilters = r.taggingFilters
      /\ n \notin Listed(r) => s.filterDecisions[n].taggingMode = IsTaggingFilter(r, n)
      /\ n \in Listed(r) =>
           s.filterDecisions[n].taggingMode = r.filterDecisions[n].taggingMode
  BY SetDecisionPreserves DEF Sound
<1> HIDE DEF s
<1>2. IsTaggingFilter(s, n) = IsTaggingFilter(r, n)
  BY <1>1 DEF IsTaggingFilter
<1>3. TaggersKnown(s)
  BY <1>1, <1>2, TaggersStayKnown DEF Sound
<1>4. QED
  BY <1>1, <1>3 DEF Sound, s

\* A global filter is listed already when it decides.
LEMMA GlobalDecisionSound ==
  ASSUME NEW r, SoundUpTo(r, Globals, GlobalTagging), NEW i \in 1 .. Len(GlobalNodes),
         GlobalNodes[i].kind = "Filter", NEW passed \in BOOLEAN
  PROVE  SoundUpTo(SetFilterDecision(r, GlobalNodes[i].id, passed), Globals, GlobalTagging)
<1> DEFINE n == GlobalNodes[i].id
<1>1. n \in Range(GlobalFilters)
  BY GlobalFiltersNamed, ConsumerConstants
<1>2. PICK p \in 1 .. Len(GlobalFilters) : GlobalFilters[p] = n
  <2>1. DOMAIN GlobalFilters = 1 .. Len(GlobalFilters)
    BY ConsumerConstants
  <2>2. QED
    BY <1>1, <2>1 DEF Range
<1>3. p \in Positions /\ p <= Globals /\ NameAt(p) = n
  BY <1>2, PositionTypes DEF Positions, NameAt, Globals
<1>4. n \in Before(Globals) /\ n \in FilterName
  BY <1>3, PositionTypes DEF Before
<1>5. n \in Listed(r)
  BY <1>4 DEF SoundUpTo, InOrder
<1> HIDE DEF n
<1>6. InOrder(SetFilterDecision(r, n, passed), Globals)
  BY <1>5, PositionTypes, DecisionInOrder DEF SoundUpTo, Sound
<1>7. /\ Sound(SetFilterDecision(r, n, passed))
      /\ SetFilterDecision(r, n, passed).taggingFilters = GlobalTagging
  <2>1. Sound(r) /\ r.taggingFilters = GlobalTagging
    BY DEF SoundUpTo
  <2>2. QED
    BY <1>4, <1>5, <2>1, DecisionSound
<1>8. QED
  BY <1>6, <1>7 DEF SoundUpTo, n

\* A filter of the pipeline decides when the list reaches up to its node.
LEMMA LocalDecisionSound ==
  ASSUME NEW r, NEW i \in 1 .. Len(LocalNodes), SoundUpTo(r, Named + i - 1, AllTagging),
         LocalNodes[i].kind = "Filter", NEW passed \in BOOLEAN
  PROVE  SoundUpTo(SetFilterDecision(r, LocalNodes[i].id, passed), Named + i, AllTagging)
<1> DEFINE k == Named + i - 1
<1>1. /\ k \in Nat /\ k + 1 = Named + i /\ k + 1 > Named /\ (k + 1) - Named = i
      /\ ~(k + 1 <= Named) /\ ~(k + 1 <= Globals)
      /\ k + 1 \in 1 .. Named + Len(LocalNodes)
  BY PositionTypes
<1>2. k + 1 \in Positions /\ NameAt(k + 1) = LocalNodes[i].id
  BY <1>1 DEF Positions, NameAt
<1>3. /\ InOrder(r, k) /\ Sound(r) /\ r.taggingFilters = AllTagging
      /\ Range(GlobalFilters) \subseteq Listed(r)
  <2>1. Before(Named) \subseteq Before(k)
    BY <1>1, PositionTypes, BeforeFacts
  <2>2. QED
    BY <2>1, NamedStandFirst DEF SoundUpTo, InOrder
<1> HIDE DEF k
<1>4. InOrder(SetFilterDecision(r, NameAt(k + 1), passed), k + 1)
  BY <1>1, <1>2, <1>3, NextDecisionInOrder DEF Sound
<1>5. NameAt(k + 1) \in FilterName
  BY <1>2, PositionTypes
<1>6. /\ Sound(SetFilterDecision(r, NameAt(k + 1), passed))
      /\ SetFilterDecision(r, NameAt(k + 1), passed).taggingFilters = AllTagging
  BY <1>3, <1>5, DecisionSound
<1>7. QED
  BY <1>1, <1>2, <1>4, <1>6 DEF SoundUpTo

\* There is no name at the position of a producer.
LEMMA ProducerSkipped ==
  ASSUME NEW r, NEW i \in 1 .. Len(LocalNodes), SoundUpTo(r, Named + i - 1, AllTagging),
         LocalNodes[i].kind # "Filter"
  PROVE  SoundUpTo(r, Named + i, AllTagging)
<1>1. /\ Named + i \in Nat /\ Named + i > Named /\ (Named + i) - Named = i
  BY PositionTypes
<1>2. Named + i \notin Positions
  BY <1>1 DEF Positions
<1>3. \A p \in Positions : p <= Named + i <=> p <= Named + i - 1
  BY <1>1, <1>2, PositionTypes
<1>4. Before(Named + i) = Before(Named + i - 1)
  BY <1>3 DEF Before
<1>5. QED
  BY <1>4 DEF SoundUpTo, InOrder

-----------------------------------------------------------------------------
(* The invariant.                                                          *)

\* The chains start with sound lists, an empty histogram and an empty cut flow.
LEMMA InitInv == Init => IInv
<1> SUFFICES ASSUME Init PROVE IInv
  OBVIOUS
<1>1. Sound(fres)
  <2>1. IsFilterResult(EmptyFilterResult) /\ Listed(EmptyFilterResult) = {}
    BY DEF EmptyFilterResult, IsFilterResult, Listed
  <2>2. CacheCoherent(EmptyFilterResult) /\ EmptyFilterResult.taggingFilters = {}
    BY DEF EmptyFilterResult, CacheCoherent
  <2>3. QED
    BY <2>1, <2>2 DEF Init, Sound, TaggersKnown
<1>2. ListInv
  BY <1>1 DEF ListInv, Init
<1>3. CountsInv
  BY DEF CountsInv, CountsTyped, Init, NoCutFlow, NoHistogram
<1>4. QED
  BY <1>2, <1>3 DEF IInv

\* Asking for the verdict at the end of a chain, or on the way.
LEMMA AskedSound ==
  ASSUME ListInv
  PROVE  /\ Sound(AfterHasPassed(fres)) /\ Sound(Asked)
         /\ \A k, tags : SoundUpTo(fres, k, tags) =>
              SoundUpTo(AfterHasPassed(fres), k, tags) /\ SoundUpTo(Asked, k, tags)
BY AskSound DEF ListInv, Asked

\* The lists of the chains stay in order.
LEMMA NextListInv == ListInv /\ [Next]_vars => ListInv'
<1> SUFFICES ASSUME ListInv, [Next]_vars PROVE ListInv'
  OBVIOUS
<1> USE DEF ListInv
<1>0. /\ Globals \in Nat /\ Named \in Nat /\ Len(LocalNodes) \in Nat /\ Len(GlobalNodes) \in Nat
      /\ Chain = IF pc = "global" THEN GlobalNodes ELSE LocalNodes
  BY PositionTypes, ConsumerConstants DEF Chain
<1>1. CASE BeginEvent
  BY <1>1, NewSound DEF BeginEvent, SoundUpTo, Reached, TagsNow
<1>2. CASE Produce
  <2>1. /\ pc \in {"global", "local"} /\ node <= Len(Chain) /\ Chain[node].kind = "Producer"
        /\ node' = node + 1 /\ pc' = pc /\ fres' = AfterHasPassed(fres)
    BY <1>2 DEF Produce, AtNode
  <2>2. Sound(fres') /\ SoundUpTo(fres', Reached, TagsNow) /\ TagsNow' = TagsNow
    BY <2>1, AskedSound DEF TagsNow
  <2>3. CASE pc = "global"
    BY <2>1, <2>2, <2>3 DEF Reached
  <2>4. CASE pc = "local"
    <3>1. /\ node \in 1 .. Len(LocalNodes) /\ LocalNodes[node].kind # "Filter"
          /\ Reached = Named + node - 1 /\ TagsNow = AllTagging
      BY <1>0, <2>1, <2>4 DEF Reached, TagsNow
    <3>2. SoundUpTo(fres', Named + node, AllTagging)
      BY <2>2, <3>1, ProducerSkipped
    <3>3. Reached' = Named + node
      BY <1>0, <2>1, <2>4 DEF Reached
    <3>4. node' \in Nat \ {0} /\ node' <= Len(LocalNodes) + 1
      BY <1>0, <2>1, <3>1
    <3>5. QED
      BY <2>1, <2>2, <2>4, <3>1, <3>2, <3>3, <3>4
  <2>5. QED
    BY <2>1, <2>3, <2>4
<1>3. ASSUME NEW passed \in BOOLEAN, DoesEventPass(passed)
      PROVE  ListInv'
  <2> DEFINE asked == AfterHasPassed(fres)
  <2>1. /\ pc \in {"global", "local"} /\ node <= Len(Chain) /\ Chain[node].kind = "Filter"
        /\ node' = node + 1 /\ pc' = pc
        /\ fres' = SetFilterDecision(asked, Chain[node].id, passed)
    BY <1>3 DEF DoesEventPass, AtNode
  <2>2. SoundUpTo(asked, Reached, TagsNow) /\ TagsNow' = TagsNow
    BY <2>1, AskedSound DEF TagsNow
  <2> HIDE DEF asked
  <2>3. CASE pc = "global"
    <3>1. /\ node \in 1 .. Len(GlobalNodes) /\ Chain = GlobalNodes
          /\ Reached = Globals /\ TagsNow = GlobalTagging
      BY <1>0, <2>1, <2>3 DEF Reached, TagsNow
    <3>2. SoundUpTo(fres', Globals, GlobalTagging)
      BY <2>1, <2>2, <3>1, GlobalDecisionSound
    <3>3. QED
      BY <2>1, <2>2, <2>3, <3>1, <3>2 DEF SoundUpTo, Reached
  <2>4. CASE pc = "local"
    <3>1. /\ node \in 1 .. Len(LocalNodes) /\ Chain = LocalNodes
          /\ Reached = Named + node - 1 /\ TagsNow = AllTagging
      BY <1>0, <2>1, <2>4 DEF Reached, TagsNow
    <3>2. SoundUpTo(fres', Named + node, AllTagging)
      BY <2>1, <2>2, <3>1, LocalDecisionSound
    <3>3. Reached' = Named + node
      BY <1>0, <2>1, <2>4 DEF Reached
    <3>4. node' \in Nat \ {0} /\ node' <= Len(LocalNodes) + 1
      BY <1>0, <2>1, <3>1
    <3>5. QED
      BY <2>1, <2>2, <2>4, <3>1, <3>2, <3>3, <3>4 DEF SoundUpTo
  <2>5. QED
    BY <2>1, <2>3, <2>4
<1>4. CASE StartPipeline
  <2>1. /\ pc = "global" /\ pc' = "local" /\ node' = 1
        /\ fres' = AddFilterNamesTagging(Asked, LocalFilters, LocalTagging)
    BY <1>4 DEF StartPipeline
  <2>2. SoundUpTo(Asked, Globals, GlobalTagging)
    BY <2>1, AskedSound DEF Reached, TagsNow
  <2>3. SoundUpTo(fres', Named, AllTagging)
    BY <2>1, <2>2, PipelineSound
  <2>4. Reached' = Named /\ TagsNow' = AllTagging
    BY <1>0, <2>1 DEF Reached, TagsNow
  <2>5. QED
    BY <1>0, <2>1, <2>3, <2>4 DEF SoundUpTo
<1>5. CASE EndChain
  <2>1. pc = "local" /\ pc' = "consumers" /\ node' = node /\ fres' = Asked
    BY <1>5 DEF EndChain
  <2>2. Reached' = Reached /\ TagsNow' = TagsNow
    BY <2>1 DEF Reached, TagsNow
  <2>3. QED
    BY <2>1, <2>2, AskedSound
<1>6. CASE Consume
  <2>1. pc' = "next" /\ node' = node /\ fres' = AfterHasPassed(fres)
    BY <1>6 DEF Consume
  <2>2. QED
    BY <2>1, AskedSound
<1>7. CASE ConsumeBehindTheTrees \/ Finish
  BY <1>7 DEF ConsumeBehindTheTrees, Finish
<1>8. CASE UNCHANGED vars
  BY <1>8 DEF vars, Reached, TagsNow
<1>9. QED
  BY <1>1, <1>2, <1>3, <1>4, <1>5, <1>6, <1>7, <1>8 DEF Next

\* The two counts are only ever changed together.
LEMMA NextCountsInv == IInv /\ [Next]_vars => CountsInv'
<1> SUFFICES ASSUME IInv, [Next]_vars PROVE CountsInv'
  OBVIOUS
<1>1. CASE UNCHANGED <<flow, histogram>>
  <2>1. flow' = flow /\ histogram' = histogram
    BY <1>1
  <2>2. QED
    BY <2>1 DEF IInv, CountsInv, CountsTyped
<1>2. CASE Consume
  <2> DEFINE booked == IF histogram.initialised THEN histogram ELSE InitialiseHistograms(fres)
             l == Named + node - 1
  <2>1. /\ pc = "consumers"
        /\ flow' = AddFilterResult(flow, fres)
        /\ histogram' = FillHistogram(histogram, fres)
    BY <1>2 DEF Consume
  <2>2. /\ IsFilterResult(fres) /\ TaggersKnown(fres) /\ InOrder(fres, l) /\ l \in Nat
    <3>1. Reached = l /\ l \in Nat
      BY <2>1, PositionTypes DEF Reached, IInv, ListInv
    <3>2. QED
      BY <2>1, <3>1 DEF IInv, ListInv, Sound, SoundUpTo
  <2>3. CountsTyped
    BY DEF IInv, CountsInv
  <2> HIDE DEF l
  <2>4. PICK k \in Nat :
          /\ booked = [initialised |-> TRUE, labels |-> booked.labels, bins |-> booked.bins]
          /\ LabelledInOrder(booked, k)
          /\ Agree(booked, flow)
    <3>1. CASE histogram.initialised
      <4>1. booked = histogram /\ histogram.initialised = TRUE
        BY <2>3, <3>1 DEF CountsTyped
      <4>2. QED
        BY <3>1, <4>1 DEF IInv, CountsInv, CountsTyped
    <3>2. CASE ~histogram.initialised
      <4>1. booked = InitialiseHistograms(fres) /\ flow = NoCutFlow
        BY <3>2 DEF IInv, CountsInv
      <4>2. QED
        BY <2>2, <4>1, BookedAgrees
    <3>3. QED
      BY <3>1, <3>2
  <2>5. histogram' = Filled(booked, fres)
    BY <2>1 DEF FillHistogram, Filled
  <2> HIDE DEF booked
  <2>6. /\ flow'.overallEventCount \in Nat
        /\ flow'.cutCount \in [DOMAIN flow'.cutCount -> Nat]
    BY <2>1, <2>3, FlowAdds DEF CountsTyped
  <2>7. booked.initialised = TRUE
    BY <2>4
  <2>8. /\ histogram' = [initialised |-> TRUE, labels |-> booked.labels,
                         bins |-> histogram'.bins]
        /\ LabelledInOrder(histogram', k)
        /\ Agree(histogram', flow')
    BY <2>1, <2>2, <2>3, <2>4, <2>5, <2>7, FillAgrees DEF CountsTyped
  <2>9. histogram'.initialised = TRUE /\ histogram'.labels = booked.labels
    BY <2>8
  <2>10. CountsTyped'
    BY <2>6, <2>8, <2>9 DEF CountsTyped
  <2>11. QED
    BY <2>8, <2>9, <2>10 DEF CountsInv
<1>3. CASE ~Consume
  BY <1>1, <1>3 DEF Next, vars, consumerVars, BeginEvent, Produce, DoesEventPass,
                    StartPipeline, EndChain, ConsumeBehindTheTrees, Finish
<1>4. QED
  BY <1>2, <1>3

\* IInv is inductive.
THEOREM Inductive == Spec => []IInv
<1>1. Init => IInv
  BY InitInv
<1>2. IInv /\ [Next]_vars => IInv'
  BY NextListInv, NextCountsInv DEF IInv
<1>3. QED
  BY <1>1, <1>2, PTL DEF Spec

\* In every job the histogram of a pipeline and its cut flow, two books that
\* CutFlowHistogramConsumer keeps by place and by name, hold the same counts,
\* although the lists of filters differ from event to event.
THEOREM HistogramCorrect == Spec => []HistogramAgreesWithFlow
<1>1. IInv => HistogramAgreesWithFlow
  BY DEF IInv, CountsInv, Agree, HistogramAgreesWithFlow
<1>2. QED
  BY <1>1, Inductive, PTL

-----------------------------------------------------------------------------
(***************************************************************************)
(* Why the other outputs fit together.  This takes a configuration in      *)
(* which no processor is named twice and every filter that the settings    *)
(* name has a node: then the filters run in the order of the list, and the *)
(* list of an event tells how far its nodes got.                           *)
(***************************************************************************)
\* The nodes of both chains, in the order in which they run.
Steps == Len(GlobalNodes) + Len(LocalNodes)
NodeAt(s) == IF s <= Len(GlobalNodes) THEN GlobalNodes[s] ELSE LocalNodes[s - Len(GlobalNodes)]
FilterSteps == {s \in 1 .. Steps : NodeAt(s).kind = "Filter"}
StepsDone == IF pc = "global" THEN node - 1 ELSE Len(GlobalNodes) + node - 1

AllNames == Before(Named + Len(LocalNodes))

\* Every processor is configured once, the filters of the settings are the nodes
\* made from them, and InitPipeline adds its own behind (Pipeline.h:104-105,
\* ArtusConfig.h:136-177).
NamedAsRun ==
  /\ \A s, q \in FilterSteps : s < q => First(NodeAt(s).id) < First(NodeAt(q).id)
  /\ \A s \in 1 .. Steps, q \in FilterSteps : NodeAt(s).id = NodeAt(q).id => s \in FilterSteps
  /\ \A n \in AllNames : \E s \in FilterSteps : NodeAt(s).id = n

Decided(r) == {n \in Listed(r) : r.filterDecisions[n].filterDecision # "Undefined"}
Ran(s) == {NodeAt(q).id : q \in {p \in FilterSteps : p <= s}}

\* The names that decided come first, only the last of them may have said no.
DecidedInOrder(r) ==
  /\ \A n \in Decided(r), m \in AllNames : First(m) < First(n) => m \in Decided(r)
  /\ \A n \in Rejecting(r), m \in Decided(r) : First(m) <= First(n)

\* A name that no settings name is listed because its filter decided.
UnnamedDecided(r) == Listed(r) \ Before(Named) \subseteq Decided(r)

RunInv ==
  pc \in {"global", "local", "consumers"} =>
    /\ Rejecting(fres) = {} => Decided(fres) = Ran(StepsDone)
    /\ pc = "global" => node <= Len(GlobalNodes) + 1
    /\ Rejecting(fres) = {} /\ pc = "consumers" => StepsDone = Steps
    /\ DecidedInOrder(fres)
    /\ \A n \in AllNames : n \in measured <=> n \in Decided(fres)

EntryOfATree == [run : Nat, lumi : Nat, event : Nat]

\* The trees are those of a beginning of the order that holds all the settings name.
TreesTyped(t) ==
  /\ t = [initialised |-> t.initialised, names |-> t.names, rows |-> t.rows]
  /\ t.initialised \in BOOLEAN
  /\ t.rows \in Seq(Seq(EntryOfATree)) /\ Len(t.rows) = Len(t.names)
  /\ t.initialised => \E k \in Nat : k >= Named /\ NamesUpTo(t.names, k)
  /\ ~t.initialised => t = NoTrees

TreesInv ==
  /\ TreesTyped(trees)
  /\ at \in 0 .. Len(Events)
  /\ pc \in {"global", "local", "consumers"} => at # 0 /\ UnnamedDecided(fres)
  /\ MissingOnlyForUnnamed

\* The entries of the trees, the events that reach the tree at place i, and what
\* the outputs say of trees, a cut flow and the rows of run times.
EntriesIn(rows) == UNION {{i} \X DOMAIN rows[i] : i \in DOMAIN rows}
FiltersBefore(names, i) == {j \in Filters(names) : j < i}
Latest(places) == CHOOSE j \in places : \A k \in places : k <= j
EnteringIn(names, counts, i) ==
  IF FiltersBefore(names, i) = {} THEN counts.overallEventCount
  ELSE CutCount(counts, names[Latest(FiltersBefore(names, i))])
DropsIn(t, counts) ==
  \A i \in Filters(t.names) :
    Len(t.rows[i]) = EnteringIn(t.names, counts, i) - CutCount(counts, t.names[i])
TimesOf(times, n) == {k \in DOMAIN times : n \in times[k]}
RunTimesIn(t, counts, times) ==
  \A i \in Filters(t.names) :
    Cardinality(TimesOf(times, t.names[i])) = CutCount(counts, t.names[i]) + Len(t.rows[i])

\* What the events up to now left in the outputs.
OutputsInv ==
  /\ ~trees.initialised => flow = NoCutFlow /\ runTimes = <<>> /\ filtered = {}
  /\ runTimes \in Seq(SUBSET FilterName) /\ measured \subseteq FilterName
  /\ filtered \subseteq 1 .. at
  /\ pc \in {"global", "local", "consumers"} => at \notin filtered
  /\ IsFiniteSet(EntriesIn(trees.rows))
  /\ Cardinality(filtered) + Cardinality(EntriesIn(trees.rows)) = flow.overallEventCount
  /\ DropsIn(trees, flow) /\ RunTimesIn(trees, flow, runTimes)

\* The list of an event whose chains are through.
Complete(r) ==
  /\ Sound(r)
  /\ \E l \in Named .. Named + Len(LocalNodes) : InOrder(r, l)
  /\ DecidedInOrder(r)
  /\ Rejecting(r) = {} => Decided(r) = AllNames

\* Names in the order have places in the same order.
LEMMA RankOrder ==
  ASSUME NEW m \in AllNames, NEW n \in AllNames
  PROVE  /\ First(m) \in Nat /\ Rank(m) \in Nat
         /\ First(m) < First(n) <=> Rank(m) < Rank(n)
         /\ First(m) = First(n) <=> m = n
<1> DEFINE k == Named + Len(LocalNodes)
<1>1. k \in Int /\ m \in Before(k) /\ n \in Before(k)
  BY PositionTypes DEF AllNames
<1> HIDE DEF k
<1>2. /\ First(m) \in Nat /\ First(n) \in Nat
      /\ NameAt(First(m)) = m /\ NameAt(First(n)) = n
  BY <1>1, BeforeFacts
<1>3. Rank(m) \in Nat /\ Rank(n) \in Nat
  BY <1>1, <1>2, BeforeFacts DEF Rank
<1>4. First(m) < First(n) => Rank(m) < Rank(n)
  BY <1>1, RankGrows
<1>5. First(n) < First(m) => Rank(n) < Rank(m)
  BY <1>1, RankGrows
<1>6. First(m) = First(n) => m = n
  BY <1>2
<1>7. QED
  BY <1>2, <1>3, <1>4, <1>5, <1>6

\* What is listed is a name of the order, with a place, a decision and a mode.
LEMMA ListedFacts ==
  ASSUME NEW r, Complete(r)
  PROVE  /\ Before(Named) \subseteq Listed(r) /\ Listed(r) \subseteq AllNames
         /\ \A n \in Listed(r) :
              /\ r.filterDecisions[n].place = Rank(n) /\ Rank(n) \in Nat
              /\ Tagged(r, n) <=> n \in Tagging
              /\ r.filterDecisions[n].filterDecision \in Decision
              /\ r.filterDecisions[n].taggingMode \in TaggingMode
         /\ \A n \in Listed(r) : n \in Rejecting(r) =>
              n \in Decided(r) /\ n \notin Tagging /\ ~PassedFilter(r, n)
         /\ Rejecting(r) \subseteq Listed(r) /\ Decided(r) \subseteq Listed(r)
<1>1. PICK l \in Named .. Named + Len(LocalNodes) : InOrder(r, l)
  BY DEF Complete
<1>2. Before(Named) \subseteq Before(l) /\ Before(l) \subseteq AllNames
  <2>1. /\ Named \in Int /\ l \in Int /\ Named <= l
        /\ Named + Len(LocalNodes) \in Int /\ l <= Named + Len(LocalNodes)
    BY PositionTypes
  <2>2. QED
    BY <2>1, BeforeFacts DEF AllNames
<1>3. Listed(r) = Before(l) /\ \A n \in Listed(r) : r.filterDecisions[n].place = Rank(n)
  BY <1>1 DEF InOrder
<1>4. IsFilterResult(r) /\ TaggersKnown(r)
  BY DEF Complete, Sound
<1>5. \A n \in Listed(r) : r.filterDecisions[n] \in DecisionEntry
  BY <1>4, FieldTypes
<1>6. \A n \in Listed(r) : /\ r.filterDecisions[n].filterDecision \in Decision
                           /\ r.filterDecisions[n].taggingMode \in TaggingMode
  BY <1>5 DEF DecisionEntry
<1>7. \A n \in Listed(r) : Rank(n) \in Nat /\ (Tagged(r, n) <=> n \in Tagging)
  BY <1>2, <1>3, <1>4, RankOrder DEF TaggersKnown
<1>8. \A n \in Listed(r) : n \in Rejecting(r) =>
              n \in Decided(r) /\ n \notin Tagging /\ ~PassedFilter(r, n)
  BY <1>7 DEF Rejecting, Decided, PassedFilter, Tagged
<1>9. Rejecting(r) \subseteq Listed(r) /\ Decided(r) \subseteq Listed(r)
  BY DEF Rejecting, Decided
<1>10. QED
  BY <1>2, <1>3, <1>6, <1>7, <1>8, <1>9

\* A filter that is no tagger let the event pass, rejected it, or did not decide.
LEMMA Outcome ==
  ASSUME NEW r, Complete(r), NEW n \in AllNames, n \notin Tagging
  PROVE  /\ Added(r, n) = 1 <=> n \in Decided(r) /\ n \notin Rejecting(r)
         /\ Added(r, n) = 0 <=> n \notin Decided(r) \/ n \in Rejecting(r)
<1>1. Added(r, n) \in {0, 1}
  BY AddedIsABit
<1>2. CASE n \notin Listed(r)
  BY <1>2, ListedFacts DEF Added
<1>3. CASE n \in Listed(r)
  <2>1. ~Tagged(r, n) /\ r.filterDecisions[n].taggingMode = "Filtering"
    BY <1>3, ListedFacts DEF Tagged, TaggingMode
  <2>2. Added(r, n) = 1 <=> PassedFilter(r, n)
    BY <1>3, <2>1 DEF Added, AddVal
  <2>3. PassedFilter(r, n) <=> n \in Decided(r) /\ n \notin Rejecting(r)
    BY <1>3, <2>1, ListedFacts DEF PassedFilter, Decided, Rejecting, Decision
  <2>4. QED
    BY <1>1, <2>2, <2>3
<1>4. QED
  BY <1>2, <1>3

\* All filters before one that decided let the event pass.
LEMMA PassedBefore ==
  ASSUME NEW r, Complete(r), NEW n \in Decided(r),
         NEW m \in AllNames, m \notin Tagging, Rank(m) < Rank(n)
  PROVE  Added(r, m) = 1
<1>1. n \in AllNames
  BY ListedFacts
<1>2. First(m) < First(n) /\ First(m) \in Nat /\ First(n) \in Nat
  BY <1>1, RankOrder
<1>3. m \in Decided(r)
  BY <1>2 DEF Complete, DecidedInOrder
<1>4. m \notin Rejecting(r)
  <2>1. SUFFICES ASSUME m \in Rejecting(r) PROVE FALSE
    OBVIOUS
  <2>2. First(n) <= First(m)
    BY <2>1 DEF Complete, DecidedInOrder
  <2>3. QED
    BY <1>2, <2>2
<1>5. QED
  BY <1>3, <1>4, Outcome

\* One of the filters before one that did not decide rejected the event.
LEMMA RejectedBefore ==
  ASSUME NEW r, Complete(r), NEW n \in AllNames, n \notin Decided(r)
  PROVE  \E d \in Rejecting(r) : /\ d \in AllNames /\ d \notin Tagging
                                 /\ Rank(d) < Rank(n) /\ Added(r, d) = 0
<1>1. PICK d \in Rejecting(r) : TRUE
  BY DEF Complete
<1>2. d \in AllNames /\ d \notin Tagging /\ d \in Decided(r)
  BY ListedFacts
<1>3. ~(First(n) < First(d)) /\ n # d
  BY <1>2 DEF Complete, DecidedInOrder
<1>4. Rank(d) < Rank(n)
  BY <1>2, <1>3, RankOrder
<1>5. Added(r, d) = 0
  BY <1>2, Outcome
<1>6. QED
  BY <1>2, <1>4, <1>5

\* The tree that an event goes to is that of the filter that rejected it.
LEMMA TreeOfTheEvent ==
  ASSUME NEW r, Complete(r)
  PROVE  /\ Discarding(r) = {} <=> Rejecting(r) = {}
         /\ Discarding(r) # {} =>
              /\ FirstPlace(Discarding(r)) \in Nat
              /\ \E n \in Rejecting(r) : FirstPlace(Discarding(r)) = Rank(n)
         /\ \A n \in Rejecting(r) : FirstPlace(Discarding(r)) = Rank(n)
<1>1. \A n \in Listed(r) : ~PassedFilter(r, n) /\ n \notin Tagging => Rank(n) \in Discarding(r)
  BY ListedFacts DEF Discarding
<1>2. \A i \in Discarding(r) :
        \E n \in Listed(r) : i = Rank(n) /\ ~PassedFilter(r, n) /\ n \notin Tagging
  BY ListedFacts DEF Discarding
<1>3. Discarding(r) \subseteq Nat
  BY <1>2, ListedFacts
<1>4. ASSUME NEW n \in Rejecting(r)
      PROVE  /\ Rank(n) \in Discarding(r)
             /\ \A j \in Discarding(r) : Rank(n) <= j
  <2>1. n \in Listed(r) /\ n \in Decided(r) /\ n \in AllNames /\ Rank(n) \in Discarding(r)
    BY <1>1, ListedFacts
  <2>2. ASSUME NEW j \in Discarding(r), ~(Rank(n) <= j)
        PROVE  FALSE
    <3>1. PICK m \in Listed(r) : j = Rank(m) /\ ~PassedFilter(r, m) /\ m \notin Tagging
      BY <1>2
    <3>2. Rank(m) < Rank(n) /\ m \in AllNames
      BY <2>1, <2>2, <3>1, ListedFacts
    <3>3. Added(r, m) = 1
      BY <2>1, <3>1, <3>2, PassedBefore
    <3>4. QED
      BY <3>1, <3>3 DEF Added, AddVal
  <2>3. QED
    BY <2>1, <2>2
<1>5. ASSUME NEW n \in Rejecting(r)
      PROVE  FirstPlace(Discarding(r)) = Rank(n)
  <2>1. Rank(n) \in Discarding(r) /\ \A j \in Discarding(r) : Rank(n) <= j
    BY <1>4
  <2>2. /\ FirstPlace(Discarding(r)) \in Discarding(r)
        /\ \A j \in Discarding(r) : FirstPlace(Discarding(r)) <= j
    BY <2>1 DEF FirstPlace
  <2>3. QED
    BY <1>3, <2>1, <2>2
<1>6. ASSUME Rejecting(r) = {}, NEW i \in Discarding(r)
      PROVE  FALSE
  <2>1. PICK m \in Listed(r) : i = Rank(m) /\ ~PassedFilter(r, m) /\ m \notin Tagging
    BY <1>2
  <2>2. m \in Decided(r) /\ m \in AllNames
    BY <1>6, ListedFacts DEF Complete
  <2>3. Added(r, m) = 1
    BY <1>6, <2>1, <2>2, Outcome
  <2>4. QED
    BY <2>1, <2>3 DEF Added, AddVal
<1>7. QED
  BY <1>3, <1>4, <1>5, <1>6

-----------------------------------------------------------------------------
(* How the chains decide.                                                  *)

\* Every filter has a place in the order.
LEMMA FilterNames ==
  ASSUME NEW p \in FilterSteps
  PROVE  NodeAt(p).id \in AllNames
<1>0. p \in 1 .. Steps /\ NodeAt(p).kind = "Filter"
  BY DEF FilterSteps
<1>1. CASE p <= Len(GlobalNodes)
  <2>1. p \in DOMAIN GlobalNodes /\ NodeAt(p) = GlobalNodes[p]
    BY <1>0, <1>1, ConsumerConstants DEF NodeAt, Steps
  <2>2. NodeAt(p).id \in Range(GlobalFilters)
    BY <1>0, <2>1, GlobalFiltersNamed
  <2>3. Before(Globals) \subseteq AllNames
    <3>1. /\ Globals \in Int /\ Named + Len(LocalNodes) \in Int
          /\ Globals <= Named + Len(LocalNodes)
      BY PositionTypes
    <3>2. QED
      BY <3>1, BeforeFacts DEF AllNames
  <2>4. QED
    BY <2>2, <2>3, NamedStandFirst
<1>2. CASE ~(p <= Len(GlobalNodes))
  <2> DEFINE i == p - Len(GlobalNodes)
  <2>1. i \in 1 .. Len(LocalNodes) /\ NodeAt(p) = LocalNodes[i]
    BY <1>0, <1>2, ConsumerConstants DEF NodeAt, Steps
  <2> HIDE DEF i
  <2>2. /\ Named + i \in 1 .. Named + Len(LocalNodes) /\ Named + i > Named
        /\ (Named + i) - Named = i /\ ~(Named + i <= Named) /\ ~(Named + i <= Globals)
    BY <2>1, PositionTypes
  <2>3. Named + i \in Positions /\ NameAt(Named + i) = NodeAt(p).id
    BY <1>0, <2>1, <2>2 DEF Positions, NameAt
  <2>4. QED
    BY <2>2, <2>3 DEF AllNames, Before
<1>3. QED
  BY <1>1, <1>2

\* The filters that ran when a filter has run come before it in the list.
LEMMA RanInOrder ==
  ASSUME NamedAsRun, NEW s \in FilterSteps
  PROVE  /\ \A n \in Ran(s), m \in AllNames : First(m) < First(n) => m \in Ran(s)
         /\ \A m \in Ran(s) : First(m) <= First(NodeAt(s).id)
<1>1. FilterSteps \subseteq Nat
  BY PositionTypes DEF FilterSteps
<1>2. \A q \in FilterSteps : First(NodeAt(q).id) \in Nat
  BY FilterNames, RankOrder
<1>3. ASSUME NEW n \in Ran(s), NEW m \in AllNames, First(m) < First(n)
      PROVE  m \in Ran(s)
  <2>1. PICK q \in FilterSteps : q <= s /\ NodeAt(q).id = n
    BY DEF Ran
  <2>2. PICK p \in FilterSteps : NodeAt(p).id = m
    BY DEF NamedAsRun
  <2>3. First(m) \in Nat /\ First(n) \in Nat
    BY <1>2, <2>1, <2>2
  <2>4. ~(q < p) /\ q # p
    BY <1>3, <2>1, <2>2, <2>3 DEF NamedAsRun
  <2>5. p <= s
    BY <1>1, <2>1, <2>4
  <2>6. QED
    BY <2>2, <2>5 DEF Ran
<1>4. ASSUME NEW m \in Ran(s)
      PROVE  First(m) <= First(NodeAt(s).id)
  <2>1. PICK q \in FilterSteps : q <= s /\ NodeAt(q).id = m
    BY DEF Ran
  <2>2. CASE q = s
    BY <1>2, <2>1, <2>2
  <2>3. CASE q < s
    BY <1>2, <2>1, <2>3 DEF NamedAsRun
  <2>4. QED
    BY <1>1, <2>1, <2>2, <2>3
<1>5. QED
  BY <1>3, <1>4

\* The steps of a chain, and what ran before any, and at a producer.
LEMMA StepFacts ==
  /\ Len(GlobalNodes) \in Nat /\ Len(LocalNodes) \in Nat /\ Steps \in Nat
  /\ FilterSteps \subseteq Nat /\ FilterSteps \subseteq 1 .. Steps
  /\ Ran(0) = {}
  /\ \A s \in Nat : s + 1 \notin FilterSteps => Ran(s + 1) = Ran(s)
  /\ \A s \in Nat : s + 1 \in FilterSteps => Ran(s + 1) = Ran(s) \cup {NodeAt(s + 1).id}
<1>1. Len(GlobalNodes) \in Nat /\ Len(LocalNodes) \in Nat /\ Steps \in Nat
  BY ConsumerConstants DEF Steps
<1>2. FilterSteps \subseteq Nat /\ FilterSteps \subseteq 1 .. Steps
  BY <1>1 DEF FilterSteps
<1>3. Ran(0) = {}
  <2>1. \A p \in FilterSteps : ~(p <= 0)
    BY <1>1, <1>2
  <2>2. QED
    BY <2>1 DEF Ran
<1>4. ASSUME NEW s \in Nat, NEW q \in FilterSteps
      PROVE  q <= s + 1 <=> q <= s \/ q = s + 1
  BY <1>2
<1>5. \A s \in Nat : s + 1 \notin FilterSteps => Ran(s + 1) = Ran(s)
  BY <1>4 DEF Ran
<1>6. \A s \in Nat : s + 1 \in FilterSteps => Ran(s + 1) = Ran(s) \cup {NodeAt(s + 1).id}
  BY <1>4 DEF Ran
<1>7. QED
  BY <1>1, <1>2, <1>3, <1>5, <1>6

\* The node at work is the next step.
LEMMA NodeAtWork ==
  ASSUME pc \in {"global", "local"}, node \in Nat \ {0}, node <= Len(Chain)
  PROVE  /\ StepsDone \in Nat /\ StepsDone + 1 \in 1 .. Steps
         /\ NodeAt(StepsDone + 1) = Chain[node]
<1>1. CASE pc = "global"
  BY <1>1, StepFacts DEF StepsDone, NodeAt, Steps, Chain
<1>2. CASE pc = "local"
  <2>1. /\ StepsDone = Len(GlobalNodes) + node - 1 /\ Chain = LocalNodes
    BY <1>2 DEF StepsDone, Chain
  <2>2. /\ StepsDone \in Nat /\ StepsDone + 1 = Len(GlobalNodes) + node
        /\ ~(Len(GlobalNodes) + node <= Len(GlobalNodes))
        /\ (Len(GlobalNodes) + node) - Len(GlobalNodes) = node
        /\ Len(GlobalNodes) + node \in 1 .. Steps
    BY <2>1, StepFacts DEF Steps
  <2>3. QED
    BY <2>1, <2>2 DEF NodeAt
<1>3. QED
  BY <1>1, <1>2

\* A filter decides after all the filters before it let the event pass.
LEMMA DecisionStep ==
  ASSUME NamedAsRun, NEW r, IsFilterResult(r), CacheCoherent(r), Rejecting(r) = {},
         NEW s \in Nat, s + 1 \in FilterSteps, Decided(r) = Ran(s), NEW passed \in BOOLEAN
  PROVE  LET after == SetFilterDecision(r, NodeAt(s + 1).id, passed)
         IN  Decided(after) = Ran(s + 1) /\ DecidedInOrder(after)
<1> DEFINE n == NodeAt(s + 1).id
           after == SetFilterDecision(r, n, passed)
<1>1. n \in FilterName
  <2>1. n \in AllNames
    BY FilterNames
  <2>2. Named + Len(LocalNodes) \in Int
    BY PositionTypes
  <2>3. Before(Named + Len(LocalNodes)) \subseteq FilterName
    BY <2>2, BeforeFacts
  <2>4. QED
    BY <2>1, <2>3 DEF AllNames
<1>2. /\ Listed(after) = Listed(r) \cup {n}
      /\ \A m \in Listed(r) \ {n} : after.filterDecisions[m] = r.filterDecisions[m]
      /\ after.filterDecisions[n].filterDecision \in {"Passed", "NotPassed"}
  BY <1>1, SetDecisionPreserves
<1>3. Ran(s + 1) = Ran(s) \cup {n}
  BY StepFacts
<1>4. /\ \A x \in Ran(s + 1), m \in AllNames : First(m) < First(x) => m \in Ran(s + 1)
      /\ \A m \in Ran(s + 1) : First(m) <= First(n)
  BY RanInOrder
<1> HIDE DEF n, after
<1>5. Decided(after) = Decided(r) \cup {n}
  BY <1>2 DEF Decided
<1>6. Rejecting(after) \subseteq {n}
  BY <1>2 DEF Rejecting
<1>7. Decided(after) = Ran(s + 1)
  BY <1>3, <1>5
<1>8. DecidedInOrder(after)
  BY <1>4, <1>6, <1>7 DEF DecidedInOrder
<1>9. QED
  BY <1>7, <1>8 DEF after, n

\* Adding names and asking decide nothing.
LEMMA NothingDecided ==
  /\ \A r : Sound(r) => /\ Decided(AfterHasPassed(r)) = Decided(r)
                        /\ Rejecting(AfterHasPassed(r)) = Rejecting(r)
  /\ \A r : SoundUpTo(r, Globals, GlobalTagging) =>
       LET s == AddFilterNamesTagging(r, LocalFilters, LocalTagging)
       IN  Decided(s) = Decided(r) /\ Rejecting(s) = Rejecting(r)
  /\ LET s == NewFilterResult(GlobalFilters, GlobalTagging)
     IN  Decided(s) = {} /\ Rejecting(s) = {}
<1>1. ASSUME NEW r, Sound(r)
      PROVE  /\ Decided(AfterHasPassed(r)) = Decided(r)
             /\ Rejecting(AfterHasPassed(r)) = Rejecting(r)
  <2>1. AfterHasPassed(r).filterDecisions = r.filterDecisions
    BY <1>1, AskPreserves DEF Sound
  <2>2. QED
    BY <2>1 DEF Decided, Rejecting, Listed
<1>2. ASSUME NEW r, SoundUpTo(r, Globals, GlobalTagging)
      PROVE  LET s == AddFilterNamesTagging(r, LocalFilters, LocalTagging)
             IN  Decided(s) = Decided(r) /\ Rejecting(s) = Rejecting(r)
  <2> DEFINE s == AddFilterNamesTagging(r, LocalFilters, LocalTagging)
  <2>1. /\ LocalFilters \in Seq(FilterName) /\ LocalTagging \in SUBSET FilterName
        /\ IsFilterResult(r)
    BY <1>2, ConsumerConstants DEF SoundUpTo, Sound
  <2>2. /\ Listed(s) = Listed(r) \cup Range(LocalFilters)
        /\ \A n \in Listed(r) : s.filterDecisions[n] = r.filterDecisions[n]
        /\ \A n \in Range(LocalFilters) \ Listed(r) :
             s.filterDecisions[n].filterDecision = "Undefined"
        /\ Rejecting(s) = Rejecting(r)
    BY <2>1, AddNamesTaggingPreserves
  <2> HIDE DEF s
  <2>3. Decided(s) = Decided(r)
    BY <2>2 DEF Decided
  <2>4. QED
    BY <2>2, <2>3 DEF s
<1>3. LET s == NewFilterResult(GlobalFilters, GlobalTagging)
      IN  Decided(s) = {} /\ Rejecting(s) = {}
  <2> DEFINE s == NewFilterResult(GlobalFilters, GlobalTagging)
  <2>1. GlobalFilters \in Seq(FilterName) /\ GlobalTagging \in SUBSET FilterName
    BY ConsumerConstants
  <2>2. /\ \A n \in Listed(s) : s.filterDecisions[n].filterDecision = "Undefined"
        /\ Rejecting(s) = {}
    BY <2>1, NewPreserves
  <2> HIDE DEF s
  <2>3. Decided(s) = {}
    BY <2>2 DEF Decided
  <2>4. QED
    BY <2>2, <2>3 DEF s
<1>4. QED
  BY <1>1, <1>2, <1>3

\* The list tells how far the nodes of the event got.
LEMMA NextRunInv ==
  ASSUME NamedAsRun, ListInv, RunInv, [Next]_vars
  PROVE  RunInv'
<1> USE DEF RunInv
<1>0. /\ Sound(fres) /\ HasPassed(fres) = (Rejecting(fres) = {})
      /\ node \in Nat \ {0}
      /\ Len(GlobalNodes) \in Nat /\ Len(LocalNodes) \in Nat
  BY HasPassedIsTheListsAnswer, StepFacts DEF ListInv, Sound
<1>1. CASE BeginEvent
  <2>1. /\ pc' = "global" /\ node' = 1 /\ measured' = {}
        /\ fres' = NewFilterResult(GlobalFilters, GlobalTagging)
    BY <1>1 DEF BeginEvent
  <2>2. Decided(fres') = {} /\ Rejecting(fres') = {} /\ StepsDone' = 0
    BY <2>1, NothingDecided DEF StepsDone
  <2>3. DecidedInOrder(fres')
    BY <2>2 DEF DecidedInOrder
  <2>4. QED
    BY <1>0, <2>1, <2>2, <2>3, StepFacts
<1>2. CASE Produce
  <2> DEFINE s == StepsDone + 1
  <2>1. /\ pc \in {"global", "local"} /\ node <= Len(Chain) /\ Chain[node].kind = "Producer"
        /\ node' = node + 1 /\ pc' = pc /\ fres' = AfterHasPassed(fres)
        /\ measured' = measured \cup {Chain[node].id}
        /\ Rejecting(fres) = {}
    BY <1>0, <1>2 DEF Produce, AtNode
  <2>2. /\ StepsDone \in Nat /\ s \in 1 .. Steps /\ NodeAt(s) = Chain[node]
    BY <1>0, <2>1, NodeAtWork
  <2>3. StepsDone' = StepsDone + 1
    BY <1>0, <2>1 DEF StepsDone
  <2>4. s \notin FilterSteps
    BY <2>1, <2>2 DEF FilterSteps
  <2>5. Ran(StepsDone') = Ran(StepsDone)
    BY <2>2, <2>3, <2>4, StepFacts
  <2>6. Decided(fres') = Decided(fres) /\ Rejecting(fres') = Rejecting(fres)
    BY <1>0, <2>1, NothingDecided
  <2>7. DecidedInOrder(fres')
    BY <2>1, <2>6 DEF DecidedInOrder
  <2>8. Chain[node].id \notin AllNames
    BY <2>2, <2>4 DEF NamedAsRun
  <2>9. pc' = "global" => node' <= Len(GlobalNodes) + 1
    BY <1>0, <2>1 DEF Chain
  <2>10. \A n \in AllNames : n \in measured' <=> n \in Decided(fres')
    BY <2>1, <2>6, <2>8
  <2>11. QED
    BY <2>1, <2>5, <2>6, <2>7, <2>9, <2>10
<1>3. ASSUME NEW passed \in BOOLEAN, DoesEventPass(passed)
      PROVE  RunInv'
  <2> DEFINE s == StepsDone + 1
             asked == AfterHasPassed(fres)
  <2>1. /\ pc \in {"global", "local"} /\ node <= Len(Chain) /\ Chain[node].kind = "Filter"
        /\ node' = node + 1 /\ pc' = pc
        /\ fres' = SetFilterDecision(asked, Chain[node].id, passed)
        /\ measured' = measured \cup {Chain[node].id}
        /\ Rejecting(fres) = {}
    BY <1>0, <1>3 DEF DoesEventPass, AtNode
  <2>2. /\ StepsDone \in Nat /\ s \in 1 .. Steps /\ NodeAt(s) = Chain[node]
    BY <1>0, <2>1, NodeAtWork
  <2>3. StepsDone' = StepsDone + 1
    BY <1>0, <2>1 DEF StepsDone
  <2>4. s \in FilterSteps
    BY <2>1, <2>2 DEF FilterSteps
  <2>5. /\ Decided(asked) = Decided(fres) /\ Rejecting(asked) = {}
        /\ IsFilterResult(asked) /\ CacheCoherent(asked)
    BY <1>0, <2>1, NothingDecided, AskSound DEF Sound
  <2>6. Decided(asked) = Ran(StepsDone)
    BY <2>1, <2>5
  <2> HIDE DEF asked
  <2>7. Decided(fres') = Ran(StepsDone + 1) /\ DecidedInOrder(fres')
    BY <2>1, <2>2, <2>4, <2>5, <2>6, DecisionStep
  <2>8. Ran(StepsDone + 1) = Ran(StepsDone) \cup {Chain[node].id}
    BY <2>2, <2>4, StepFacts
  <2>9. pc' = "global" => node' <= Len(GlobalNodes) + 1
    BY <1>0, <2>1 DEF Chain
  <2>10. \A n \in AllNames : n \in measured' <=> n \in Decided(fres')
    BY <2>1, <2>5, <2>6, <2>7, <2>8
  <2>11. QED
    BY <2>1, <2>3, <2>7, <2>9, <2>10
<1>4. CASE StartPipeline
  <2>1. /\ pc = "global" /\ pc' = "local" /\ node' = 1 /\ measured' = measured
        /\ fres' = AddFilterNamesTagging(Asked, LocalFilters, LocalTagging)
        /\ node > Len(GlobalNodes) \/ Rejecting(fres) # {}
    BY <1>0, <1>4 DEF StartPipeline, ChainLeft, Chain
  <2>2. SoundUpTo(Asked, Globals, GlobalTagging)
    BY <2>1, AskedSound DEF ListInv, Reached, TagsNow
  <2>3. Decided(Asked) = Decided(fres) /\ Rejecting(Asked) = Rejecting(fres)
    BY <1>0, NothingDecided DEF Asked
  <2>4. Decided(fres') = Decided(fres) /\ Rejecting(fres') = Rejecting(fres)
    BY <2>1, <2>2, <2>3, NothingDecided
  <2>5. DecidedInOrder(fres')
    BY <2>1, <2>4 DEF DecidedInOrder
  <2>6. Rejecting(fres) = {} => StepsDone' = StepsDone
    BY <1>0, <2>1 DEF StepsDone
  <2>7. QED
    BY <2>1, <2>4, <2>5, <2>6
<1>5. CASE EndChain
  <2>1. /\ pc = "local" /\ pc' = "consumers" /\ node' = node /\ fres' = Asked
        /\ measured' = measured
        /\ node > Len(LocalNodes) \/ Rejecting(fres) # {}
    BY <1>0, <1>5 DEF EndChain, ChainLeft, Chain
  <2>2. Decided(fres') = Decided(fres) /\ Rejecting(fres') = Rejecting(fres)
    BY <1>0, <2>1, NothingDecided DEF Asked
  <2>3. DecidedInOrder(fres')
    BY <2>1, <2>2 DEF DecidedInOrder
  <2>4. StepsDone' = StepsDone
    BY <2>1 DEF StepsDone
  <2>5. Rejecting(fres) = {} => StepsDone = Steps
    <3>1. node <= Len(LocalNodes) + 1
      BY <2>1 DEF ListInv
    <3>2. QED
      BY <1>0, <2>1, <3>1 DEF StepsDone, Steps
  <2>6. QED
    BY <2>1, <2>2, <2>3, <2>4, <2>5
<1>6. CASE Consume \/ ConsumeBehindTheTrees \/ Finish
  BY <1>6 DEF Consume, ConsumeBehindTheTrees, Finish
<1>7. CASE UNCHANGED vars
  BY <1>7 DEF vars, StepsDone
<1>8. QED
  BY <1>1, <1>2, <1>3, <1>4, <1>5, <1>6, <1>7 DEF Next

-----------------------------------------------------------------------------
(* The trees.                                                              *)

\* The trees are opened in order.
LEMMA OpenedInOrder ==
  ASSUME NEW t, TreesTyped(t),
         NEW r, IsFilterResult(r), NEW l \in Nat, l >= Named, InOrder(r, l)
  PROVE  LET opened == OpenTrees(t, r)
         IN  /\ opened = [initialised |-> TRUE, names |-> opened.names, rows |-> opened.rows]
             /\ TreesTyped(opened)
             /\ \E k \in Nat : k >= Named /\ NamesUpTo(opened.names, k)
             /\ ~t.initialised => opened.rows = [i \in 1 .. Len(opened.names) |-> <<>>]
             /\ t.initialised => opened = t
<1>1. CASE t.initialised
  BY <1>1 DEF OpenTrees, TreesTyped
<1>2. CASE ~t.initialised
  <2> DEFINE opened == InitialiseTrees(r)
             c == Cardinality(Listed(r))
  <2>1. OpenTrees(t, r) = opened
    BY <1>2 DEF OpenTrees
  <2>2. /\ opened = [initialised |-> TRUE, names |-> opened.names, rows |-> opened.rows]
        /\ opened.names = GetFilterNames(r)
        /\ opened.rows = [i \in 1 .. c |-> <<>>]
    BY DEF InitialiseTrees
  <2>3. NamesUpTo(GetFilterNames(r), l)
    <3>1. InitialiseHistograms(r).labels = GetFilterNames(r)
      BY DEF InitialiseHistograms
    <3>2. QED
      BY <3>1, BookedInOrder DEF LabelledInOrder
  <2>4. Len(opened.names) = c /\ c \in Nat
    BY <2>2, <2>3, FieldTypes DEF NamesUpTo, InOrder
  <2> HIDE DEF opened, c
  <2>5. opened.rows \in Seq(Seq(EntryOfATree)) /\ Len(opened.rows) = c
    <3>1. \A T : <<>> \in Seq(T)
      OBVIOUS
    <3>2. opened.rows \in [1 .. c -> Seq(EntryOfATree)]
      BY <2>2, <3>1
    <3>3. QED
      BY <2>4, <3>2
  <2>6. opened.initialised = TRUE
    BY <2>2
  <2>7. TreesTyped(opened)
    BY <2>2, <2>3, <2>4, <2>5, <2>6 DEF TreesTyped
  <2>8. QED
    BY <1>2, <2>1, <2>2, <2>3, <2>4, <2>7
<1>3. QED
  BY <1>1, <1>2

\* There is a first place.
LEMMA FirstPlaceExists ==
  ASSUME NEW r, NEW l \in Nat, InOrder(r, l), Discarding(r) # {}
  PROVE  /\ FirstPlace(Discarding(r)) \in Discarding(r)
         /\ FirstPlace(Discarding(r)) \in Nat \ {0}
         /\ \E n \in Listed(r) : /\ FirstPlace(Discarding(r)) = r.filterDecisions[n].place
                                 /\ ~PassedFilter(r, n)
<1>1. \A i \in Discarding(r) :
        /\ i \in Nat \ {0}
        /\ \E n \in Listed(r) : i = r.filterDecisions[n].place /\ ~PassedFilter(r, n)
  BY RankCovers DEF Discarding, InOrder
<1>2. Discarding(r) \in SUBSET Nat
  BY <1>1
<1>3. PICK i \in Discarding(r) : \A j \in Discarding(r) : i <= j
  BY <1>2, LeastElement
<1>4. FirstPlace(Discarding(r)) \in Discarding(r)
  BY <1>3 DEF FirstPlace
<1>5. QED
  BY <1>1, <1>4

\* The trees with an entry more.
Entered(rows, i, entry) == [rows EXCEPT ![i] = Append(@, entry)]

\* An event adds its entry to one tree at most.
LEMMA EntryAdded ==
  ASSUME NEW t, TreesTyped(t),
         NEW r, IsFilterResult(r), NEW l \in Nat, l >= Named, InOrder(r, l),
         ~MissingTree(t, r), NEW e \in EntryOfATree
  PROVE  LET opened == OpenTrees(t, r)
             after  == FillTrees(t, r, e)
         IN  /\ TreesTyped(after) /\ after.initialised
             /\ after.names = opened.names
             /\ Discarding(r) = {} => after.rows = opened.rows
             /\ Discarding(r) # {} =>
                  /\ FirstPlace(Discarding(r)) \in 1 .. Len(opened.rows)
                  /\ after.rows = Entered(opened.rows, FirstPlace(Discarding(r)), Row(e))
<1> DEFINE opened == OpenTrees(t, r)
           after == FillTrees(t, r, e)
           i == FirstPlace(Discarding(r))
<1>1. /\ opened = [initialised |-> TRUE, names |-> opened.names, rows |-> opened.rows]
      /\ TreesTyped(opened)
      /\ \E k \in Nat : k >= Named /\ NamesUpTo(opened.names, k)
  BY OpenedInOrder
<1>2. CASE Discarding(r) = {}
  <2>1. after = opened
    BY <1>2 DEF FillTrees
  <2>2. QED
    BY <1>1, <1>2, <2>1
<1>3. CASE Discarding(r) # {}
  <2>1. i \in Nat \ {0}
    BY <1>3, FirstPlaceExists
  <2>2. ~(i > Len(opened.rows)) /\ Len(opened.rows) \in Nat
    BY <1>1, <1>3 DEF MissingTree, TreesTyped
  <2>3. i \in 1 .. Len(opened.rows)
    BY <2>1, <2>2
  <2>4. after = [opened EXCEPT !.rows[i] = Append(@, Row(e))]
    BY <1>3 DEF FillTrees
  <2>5. Row(e) \in EntryOfATree
    BY DEF Row, EntryOfATree
  <2> HIDE DEF opened, i, after
  <2>6. /\ after = [initialised |-> TRUE, names |-> opened.names, rows |-> after.rows]
        /\ after.rows = Entered(opened.rows, i, Row(e))
    <3> DEFINE filled == Entered(opened.rows, i, Row(e))
    <3>1. after = [opened EXCEPT !.rows = filled]
      BY <2>4 DEF Entered
    <3> HIDE DEF filled
    <3>2. PICK names, rows : opened = [initialised |-> TRUE, names |-> names, rows |-> rows]
      BY <1>1
    <3>3. after = [initialised |-> TRUE, names |-> opened.names, rows |-> filled]
      BY <3>1, <3>2
    <3>4. QED
      BY <3>3 DEF filled
  <2>7. opened.rows \in Seq(Seq(EntryOfATree)) /\ Len(opened.rows) = Len(opened.names)
    BY <1>1 DEF TreesTyped
  <2>8. opened.rows[i] \in Seq(EntryOfATree)
    BY <2>3, <2>7
  <2>9. Append(opened.rows[i], Row(e)) \in Seq(EntryOfATree)
    BY <2>5, <2>8
  <2>10. after.rows \in Seq(Seq(EntryOfATree)) /\ Len(after.rows) = Len(opened.names)
    BY <2>3, <2>6, <2>7, <2>9 DEF Entered
  <2>11. after.names = opened.names /\ after.initialised = TRUE
    BY <2>6
  <2>12. TreesTyped(after)
    BY <1>1, <2>6, <2>10, <2>11 DEF TreesTyped
  <2>13. QED
    BY <1>3, <2>3, <2>6, <2>11, <2>12 DEF opened, after, i
<1>4. QED
  BY <1>2, <1>3

\* A name without a place among the trees is not one of the settings.
LEMMA MissingIsUnnamed ==
  ASSUME ListInv, TreesInv, pc = "consumers", MissingTree(trees, fres)
  PROVE  \E n \in Listed(fres) \ (Range(GlobalFilters) \cup Range(LocalFilters)) :
           /\ fres.filterDecisions[n].filterDecision = "NotPassed"
           /\ fres.filterDecisions[n].place > Len(trees.rows)
<1> DEFINE l == Named + node - 1
           i == FirstPlace(Discarding(fres))
           opened == OpenTrees(trees, fres)
<1>1. /\ IsFilterResult(fres) /\ InOrder(fres, l) /\ l \in Nat /\ l >= Named
      /\ TreesTyped(trees)
  BY PositionTypes DEF ListInv, TreesInv, SoundUpTo, Sound, Reached
<1> HIDE DEF l
<1>2. PICK n \in Listed(fres) :
        i = fres.filterDecisions[n].place /\ ~PassedFilter(fres, n)
  BY <1>1, FirstPlaceExists DEF MissingTree
<1>3. /\ opened.rows \in Seq(Seq(EntryOfATree)) /\ Len(opened.rows) = Len(opened.names)
      /\ trees.initialised => opened = trees
      /\ \E k \in Nat : k >= Named /\ NamesUpTo(opened.names, k)
  BY <1>1, OpenedInOrder DEF TreesTyped
<1>4. PICK k \in Nat : k >= Named /\ NamesUpTo(opened.names, k)
  BY <1>3
<1>5. i > Len(opened.rows) /\ i = Rank(n)
  BY <1>1, <1>2 DEF MissingTree, InOrder
<1>6. n \notin Before(k)
  BY <1>3, <1>4, <1>5, RankCovers DEF NamesUpTo
<1>7. trees.initialised
  <2>1. SUFFICES ASSUME ~trees.initialised PROVE FALSE
    OBVIOUS
  <2>2. opened.names = GetFilterNames(fres)
    BY <2>1 DEF OpenTrees, InitialiseTrees
  <2>3. Len(opened.names) = Cardinality(Before(l))
    <3>1. InitialiseHistograms(fres).labels = GetFilterNames(fres)
      BY DEF InitialiseHistograms
    <3>2. QED
      BY <1>1, <2>2, <3>1, BookedInOrder DEF LabelledInOrder, NamesUpTo
  <2>4. n \in Before(l)
    BY <1>1, <1>2 DEF InOrder
  <2>5. Rank(n) \in 1 .. Len(opened.names)
    BY <1>1, <2>3, <2>4, RankCovers
  <2>6. QED
    BY <1>3, <1>5, <2>5
<1>8. n \notin Before(Named)
  BY <1>4, <1>6, PositionTypes, BeforeFacts
<1>9. n \in Decided(fres)
  BY <1>2, <1>8 DEF TreesInv, UnnamedDecided
<1>10. fres.filterDecisions[n].filterDecision = "NotPassed"
  <2>1. fres.filterDecisions[n].filterDecision \in Decision
    BY <1>1, <1>2, FieldTypes DEF DecisionEntry
  <2>2. QED
    BY <1>2, <1>9, <2>1 DEF Decided, PassedFilter, Decision
<1>11. QED
  BY <1>2, <1>3, <1>5, <1>7, <1>8, <1>10, NamedStandFirst

\* The trees stay those of a beginning of the order.
LEMMA NextTreesInv ==
  ASSUME ListInv, TreesInv, [Next]_vars
  PROVE  TreesInv'
<1> USE DEF TreesInv
<1>0. /\ Sound(fres) /\ Len(Events) \in Nat /\ at \in Nat
      /\ Decided(AfterHasPassed(fres)) = Decided(fres)
      /\ Listed(AfterHasPassed(fres)) = Listed(fres)
  <2>1. Sound(fres) /\ AfterHasPassed(fres).filterDecisions = fres.filterDecisions
    BY AskPreserves DEF ListInv, Sound
  <2>2. QED
    BY <2>1, ConsumerConstants DEF Decided, Listed
<1>1. CASE BeginEvent
  <2>1. /\ pc' = "global" /\ at' = at + 1 /\ trees' = trees /\ at < Len(Events)
        /\ fres' = NewFilterResult(GlobalFilters, GlobalTagging)
    BY <1>1 DEF BeginEvent, consumerVars
  <2>2. at' \in 0 .. Len(Events) /\ at' # 0
    BY <1>0, <2>1
  <2>3. Listed(fres') \subseteq Before(Named)
    BY <2>1, ConsumerConstants, NewPreserves, NamedStandFirst
  <2>4. QED
    BY <2>1, <2>2, <2>3 DEF UnnamedDecided, MissingOnlyForUnnamed
<1>2. CASE Produce
  <2>1. pc' = pc /\ at' = at /\ trees' = trees /\ fres' = AfterHasPassed(fres) /\ pc # "fatal"
        /\ pc \in {"global", "local"}
    BY <1>2 DEF Produce, AtNode, consumerVars
  <2>2. QED
    BY <1>0, <2>1 DEF UnnamedDecided, MissingOnlyForUnnamed
<1>3. ASSUME NEW passed \in BOOLEAN, DoesEventPass(passed)
      PROVE  TreesInv'
  <2> DEFINE asked == AfterHasPassed(fres)
             n == Chain[node].id
  <2>1. /\ pc' = pc /\ at' = at /\ trees' = trees /\ pc \in {"global", "local"}
        /\ fres' = SetFilterDecision(asked, n, passed)
        /\ node <= Len(Chain)
    BY <1>3 DEF DoesEventPass, AtNode, consumerVars
  <2>2. n \in FilterName
    <3>1. Chain \in Seq(ProcessNode) /\ node \in 1 .. Len(Chain)
      BY <2>1, ConsumerConstants DEF Chain, ListInv
    <3>2. Chain[node] \in ProcessNode
      BY <3>1
    <3>3. QED
      BY <3>2 DEF ProcessNode
  <2>3. IsFilterResult(asked) /\ CacheCoherent(asked)
    BY <1>0, AskSound DEF Sound
  <2> HIDE DEF asked, n
  <2>4. /\ Listed(fres') = Listed(asked) \cup {n}
        /\ \A m \in Listed(asked) \ {n} : fres'.filterDecisions[m] = asked.filterDecisions[m]
        /\ fres'.filterDecisions[n].filterDecision \in {"Passed", "NotPassed"}
    BY <2>1, <2>2, <2>3, SetDecisionPreserves
  <2>5. Decided(fres') = Decided(asked) \cup {n}
    BY <2>4 DEF Decided
  <2>6. UnnamedDecided(fres')
    BY <1>0, <2>1, <2>4, <2>5 DEF UnnamedDecided, asked
  <2>7. QED
    BY <2>1, <2>6 DEF MissingOnlyForUnnamed
<1>4. CASE StartPipeline
  <2>1. /\ pc = "global" /\ pc' = "local" /\ at' = at /\ trees' = trees
        /\ fres' = AddFilterNamesTagging(Asked, LocalFilters, LocalTagging)
    BY <1>4 DEF StartPipeline, consumerVars
  <2>2. SoundUpTo(Asked, Globals, GlobalTagging)
    BY <2>1, AskedSound DEF ListInv, Reached, TagsNow
  <2>3. SoundUpTo(fres', Named, AllTagging)
    BY <2>1, <2>2, PipelineSound
  <2>4. UnnamedDecided(fres')
    BY <2>3 DEF SoundUpTo, InOrder, UnnamedDecided
  <2>5. QED
    BY <2>1, <2>4 DEF MissingOnlyForUnnamed
<1>5. CASE EndChain
  <2>1. /\ pc = "local" /\ pc' = "consumers" /\ at' = at /\ trees' = trees /\ fres' = Asked
    BY <1>5 DEF EndChain, consumerVars
  <2>2. UnnamedDecided(fres')
    BY <1>0, <2>1 DEF Asked, UnnamedDecided
  <2>3. QED
    BY <2>1, <2>2 DEF MissingOnlyForUnnamed
<1>6. CASE Consume
  <2>1. /\ pc = "consumers" /\ ~MissingTree(trees, fres) /\ pc' = "next" /\ at' = at
        /\ trees' = FillTrees(trees, fres, Events[at])
    BY <1>6 DEF Consume
  <2>2. IsFilterResult(fres) /\ InOrder(fres, Named + node - 1)
        /\ Named + node - 1 \in Nat /\ Named + node - 1 >= Named
    BY <2>1, PositionTypes DEF ListInv, SoundUpTo, Sound, Reached
  <2>3. Events[at] \in EntryOfATree
    <3>1. at \in 1 .. Len(Events)
      BY <1>0, <2>1
    <3>2. Events \in Seq(EntryOfATree)
      BY ConsumerConstants DEF EntryOfATree
    <3>3. QED
      BY <3>1, <3>2
  <2>4. TreesTyped(trees')
    BY <2>1, <2>2, <2>3, EntryAdded
  <2>5. QED
    BY <2>1, <2>4 DEF MissingOnlyForUnnamed
<1>7. CASE ConsumeBehindTheTrees
  <2>1. /\ pc = "consumers" /\ MissingTree(trees, fres) /\ pc' = "fatal"
        /\ at' = at /\ trees' = trees /\ fres' = fres
    BY <1>7 DEF ConsumeBehindTheTrees, consumerVars
  <2>2. QED
    BY <2>1, MissingIsUnnamed DEF MissingOnlyForUnnamed
<1>8. CASE Finish
  BY <1>8 DEF Finish, consumerVars, MissingOnlyForUnnamed
<1>9. CASE UNCHANGED vars
  BY <1>9 DEF vars, consumerVars, MissingOnlyForUnnamed
<1>10. QED
  BY <1>1, <1>2, <1>3, <1>4, <1>5, <1>6, <1>7, <1>8, <1>9 DEF Next

\* No trees at first.
LEMMA InitTreesInv == Init => TreesInv
<1>1. SUFFICES ASSUME Init PROVE TreesInv
  OBVIOUS
<1>2. trees = NoTrees /\ at = 0 /\ pc = "next"
  BY <1>1 DEF Init
<1>3. TreesTyped(NoTrees)
  <2>1. \A T : <<>> \in Seq(T) /\ Len(<<>>) = 0
    OBVIOUS
  <2>2. QED
    BY <2>1 DEF TreesTyped, NoTrees
<1>4. 0 \in 0 .. Len(Events)
  BY ConsumerConstants
<1>5. QED
  BY <1>2, <1>3, <1>4 DEF TreesInv, MissingOnlyForUnnamed

\* CutFlowTreeConsumer indexes behind its trees only for a filter that no settings
\* name, whatever the configuration and the input are.
THEOREM MissingCorrect == Spec => []MissingOnlyForUnnamed
<1>1. Init => ListInv /\ TreesInv
  BY InitInv, InitTreesInv DEF IInv
<1>2. ListInv /\ TreesInv /\ [Next]_vars => (ListInv /\ TreesInv)'
  BY NextListInv, NextTreesInv
<1>3. ListInv /\ TreesInv => MissingOnlyForUnnamed
  BY DEF TreesInv
<1>4. QED
  BY <1>1, <1>2, <1>3, PTL DEF Spec

-----------------------------------------------------------------------------
(* What an event adds to the other outputs.                                *)

\* Among finitely many places there is a last one.
LEMMA LatestExists ==
  ASSUME NEW c \in Nat, NEW places \in SUBSET (1 .. c), places # {}
  PROVE  /\ Latest(places) \in places
         /\ \A k \in places : k <= Latest(places)
<1> DEFINE left == {c - k : k \in places}
<1>1. left \in SUBSET Nat /\ left # {}
  <2>1. \A k \in places : c - k \in Nat
    OBVIOUS
  <2>2. QED
    BY <2>1
<1>2. PICK d \in left : \A q \in left : d <= q
  BY <1>1, LeastElement
<1>3. PICK j \in places : d = c - j
  OBVIOUS
<1>4. \A k \in places : k <= j
  BY <1>2, <1>3
<1>5. QED
  BY <1>3, <1>4 DEF Latest

\* The trees are those of names in order, at the places of the names.
LEMMA TreeNames ==
  ASSUME NEW names, NEW k \in Nat, NamesUpTo(names, k)
  PROVE  /\ DOMAIN names = 1 .. Len(names) /\ Len(names) \in Nat
         /\ \A i \in 1 .. Len(names) : names[i] \in AllNames /\ Rank(names[i]) = i
         /\ \A n \in AllNames : Rank(n) <= Len(names) =>
              Rank(n) \in 1 .. Len(names) /\ names[Rank(n)] = n
<1> DEFINE l == Named + Len(LocalNodes)
<1>1. l \in Nat /\ Positions \subseteq 1 .. l
  BY PositionTypes
<1> HIDE DEF l
<1>2. Before(k) \subseteq Before(l) /\ AllNames = Before(l)
  BY <1>1 DEF Before, AllNames, l
<1>3. DOMAIN names = 1 .. Len(names) /\ Len(names) \in Nat
  BY DEF NamesUpTo
<1>4. \A i \in 1 .. Len(names) : names[i] \in Before(k) /\ Rank(names[i]) = i
  BY DEF NamesUpTo
<1>5. ASSUME NEW n \in AllNames, Rank(n) <= Len(names)
      PROVE  Rank(n) \in 1 .. Len(names) /\ names[Rank(n)] = n
  <2>1. Rank(n) \in 1 .. Cardinality(Before(l)) /\ Cardinality(Before(l)) \in Nat
    BY <1>1, <1>2, RankCovers, BeforeFacts
  <2>2. Rank(n) \in 1 .. Len(names)
    BY <1>3, <1>5, <2>1
  <2>3. names[Rank(n)] \in Before(k) /\ Rank(names[Rank(n)]) = Rank(n)
    BY <1>4, <2>2
  <2>4. names[Rank(n)] = n
    BY <1>1, <1>2, <2>3, SamePlace
  <2>5. QED
    BY <2>2, <2>4
<1>6. QED
  BY <1>2, <1>3, <1>4, <1>5

\* An entry more.
LEMMA OneEntryMore ==
  ASSUME NEW rows \in Seq(Seq(EntryOfATree)), NEW i \in 1 .. Len(rows), NEW e,
         IsFiniteSet(EntriesIn(rows))
  PROVE  LET after == Entered(rows, i, e)
         IN  /\ IsFiniteSet(EntriesIn(after))
             /\ Cardinality(EntriesIn(after)) = Cardinality(EntriesIn(rows)) + 1
             /\ Len(after[i]) = Len(rows[i]) + 1
             /\ \A j \in 1 .. Len(rows) : j # i => Len(after[j]) = Len(rows[j])
<1> DEFINE after == Entered(rows, i, e)
           new == <<i, Len(rows[i]) + 1>>
<1>1. DOMAIN rows = 1 .. Len(rows) /\ DOMAIN after = DOMAIN rows
  BY DEF Entered
<1>2. rows[i] \in Seq(EntryOfATree) /\ Len(rows[i]) \in Nat
      /\ DOMAIN rows[i] = 1 .. Len(rows[i])
  OBVIOUS
<1>3. after[i] = Append(rows[i], e) /\ \A j \in DOMAIN rows : j # i => after[j] = rows[j]
  BY DEF Entered
<1> HIDE DEF after
<1>4. DOMAIN after[i] = DOMAIN rows[i] \cup {Len(rows[i]) + 1}
      /\ Len(after[i]) = Len(rows[i]) + 1
  BY <1>2, <1>3
<1>5. EntriesIn(after) = EntriesIn(rows) \cup {new}
  <2>1. ASSUME NEW p
        PROVE  p \in EntriesIn(after) <=> \E j \in DOMAIN rows : p \in {j} \X DOMAIN after[j]
    BY <1>1 DEF EntriesIn
  <2>2. ASSUME NEW p
        PROVE  p \in EntriesIn(rows) <=> \E j \in DOMAIN rows : p \in {j} \X DOMAIN rows[j]
    BY DEF EntriesIn
  <2>3. {i} \X DOMAIN after[i] = ({i} \X DOMAIN rows[i]) \cup {new}
    BY <1>4
  <2>4. ASSUME NEW j \in DOMAIN rows, j # i
        PROVE  {j} \X DOMAIN after[j] = {j} \X DOMAIN rows[j]
    BY <1>3, <2>4
  <2> HIDE DEF new
  <2>5. i \in DOMAIN rows
    BY <1>1
  <2>6. ASSUME NEW p
        PROVE  p \in EntriesIn(after) <=> p \in EntriesIn(rows) \cup {new}
    BY <2>1, <2>2, <2>3, <2>4, <2>5
  <2>7. QED
    BY <2>6
<1>6. new \notin EntriesIn(rows)
  <2>1. SUFFICES ASSUME NEW j \in DOMAIN rows, new \in {j} \X DOMAIN rows[j]
                 PROVE  FALSE
    BY DEF EntriesIn
  <2>2. j = i /\ Len(rows[i]) + 1 \in DOMAIN rows[j]
    BY <2>1
  <2>3. QED
    BY <1>2, <2>2
<1>7. /\ IsFiniteSet(EntriesIn(after))
      /\ Cardinality(EntriesIn(after)) = Cardinality(EntriesIn(rows)) + 1
  BY <1>5, <1>6, FS_AddElement
<1>8. QED
  BY <1>1, <1>3, <1>4, <1>7 DEF after

\* What an event that went through adds to a filter, to the filter before it, and
\* to its tree: one comes from the other two.
LEMMA DropsGrow ==
  ASSUME NEW t, NEW k \in Nat, NamesUpTo(t.names, k),
         NEW counts, counts.overallEventCount \in Nat,
         counts.cutCount \in [DOMAIN counts.cutCount -> Nat], DropsIn(t, counts),
         NEW r, Complete(r),
         NEW after, after.names = t.names,
         \A i \in 1 .. Len(t.names) :
           /\ Len(t.rows[i]) \in Nat
           /\ Len(after.rows[i]) = Len(t.rows[i]) + IF t.names[i] \in Rejecting(r) THEN 1 ELSE 0
  PROVE  DropsIn(after, AddFilterResult(counts, r))
<1> DEFINE names == t.names
           more == AddFilterResult(counts, r)
<1>1. /\ DOMAIN names = 1 .. Len(names) /\ Len(names) \in Nat
      /\ \A i \in 1 .. Len(names) : names[i] \in AllNames /\ Rank(names[i]) = i
      /\ \A n \in AllNames : Rank(n) <= Len(names) =>
            Rank(n) \in 1 .. Len(names) /\ names[Rank(n)] = n
  BY TreeNames
<1>2. /\ more.overallEventCount = counts.overallEventCount + 1
      /\ \A n : CutCount(counts, n) \in Nat /\ CutCount(more, n) = CutCount(counts, n) + Added(r, n)
  BY FlowAdds
<1> HIDE DEF more
<1> SUFFICES ASSUME NEW i \in Filters(names)
             PROVE  Len(after.rows[i]) = EnteringIn(names, more, i) - CutCount(more, names[i])
  BY DEF DropsIn, more
<1> DEFINE n == names[i]
           places == FiltersBefore(names, i)
           before == names[Latest(places)]
           reached == IF places = {} THEN 1 ELSE Added(r, before)
           dropped == IF n \in Rejecting(r) THEN 1 ELSE 0
<1>3. i \in 1 .. Len(names) /\ i \in Nat /\ n \in AllNames /\ n \notin Tagging /\ Rank(n) = i
  BY <1>1 DEF Filters
<1>4. places \subseteq 1 .. Len(names) /\ \A j \in places : j < i /\ names[j] \notin Tagging
  BY <1>1 DEF FiltersBefore, Filters
<1>5. places # {} => /\ Latest(places) \in places
                     /\ \A j \in places : j <= Latest(places)
  BY <1>1, <1>4, LatestExists
<1>6. places # {} => /\ before \in AllNames /\ before \notin Tagging
                     /\ Rank(before) = Latest(places) /\ Rank(before) < Rank(n)
  BY <1>1, <1>3, <1>4, <1>5
<1>7. EnteringIn(names, more, i) = EnteringIn(names, counts, i) + reached
  BY <1>2 DEF EnteringIn
<1>8. EnteringIn(names, counts, i) \in Nat
  BY <1>2 DEF EnteringIn
<1>9. Len(t.rows[i]) = EnteringIn(names, counts, i) - CutCount(counts, n)
  BY DEF DropsIn
<1>10. Len(after.rows[i]) = Len(t.rows[i]) + dropped /\ Len(t.rows[i]) \in Nat
  BY <1>3
<1>11. dropped = reached - Added(r, n) /\ reached \in {0, 1}
  <2>1. CASE n \in Decided(r)
    <3>1. reached = 1
      BY <1>6, <2>1, PassedBefore
    <3>2. n \in Rejecting(r) => Added(r, n) = 0
      BY <1>3, Outcome
    <3>3. n \notin Rejecting(r) => Added(r, n) = 1
      BY <1>3, <2>1, Outcome
    <3>4. QED
      BY <3>1, <3>2, <3>3
  <2>2. CASE n \notin Decided(r)
    <3>1. Added(r, n) = 0 /\ n \notin Rejecting(r)
      BY <1>3, <2>2, Outcome, ListedFacts
    <3>2. PICK d \in Rejecting(r) : /\ d \in AllNames /\ d \notin Tagging
                                     /\ Rank(d) < Rank(n) /\ Added(r, d) = 0
      BY <1>3, <2>2, RejectedBefore
    <3>3. Rank(d) \in Nat /\ Rank(d) \in 1 .. Len(names) /\ names[Rank(d)] = d
      <4>1. Rank(d) \in Nat
        BY <3>2, RankOrder
      <4>2. Rank(d) <= Len(names)
        BY <1>1, <1>3, <3>2, <4>1
      <4>3. QED
        BY <1>1, <3>2, <4>1, <4>2
    <3>4. Rank(d) \in places
      BY <1>1, <1>3, <3>2, <3>3 DEF FiltersBefore, Filters
    <3>5. before \in AllNames /\ before \notin Tagging /\ Rank(d) <= Rank(before)
      BY <1>5, <1>6, <3>4
    <3>6. Rank(before) \in Nat
      BY <3>5, RankOrder
    <3>7. Added(r, before) = 0
      <4>1. CASE Rank(d) = Rank(before)
        <5>1. before = d
          BY <1>6, <3>3, <3>4, <4>1
        <5>2. QED
          BY <3>2, <5>1
      <4>2. CASE Rank(d) < Rank(before)
        <5>1. First(d) < First(before) /\ First(d) \in Nat /\ First(before) \in Nat
          BY <3>2, <3>5, <4>2, RankOrder
        <5>2. before \notin Decided(r)
          BY <5>1 DEF Complete, DecidedInOrder
        <5>3. QED
          BY <3>5, <5>2, Outcome
      <4>3. QED
        BY <3>3, <3>5, <3>6, <4>1, <4>2
    <3>8. QED
      BY <3>1, <3>4, <3>7
  <2>3. QED
    BY <2>1, <2>2
<1>12. CutCount(more, n) = CutCount(counts, n) + Added(r, n) /\ CutCount(counts, n) \in Nat
       /\ Added(r, n) \in {0, 1}
  BY <1>2, AddedIsABit
<1> HIDE DEF reached, dropped, n, before, places, names
<1>13. Len(after.rows[i]) = EnteringIn(names, more, i) - CutCount(more, n)
  BY <1>7, <1>8, <1>9, <1>10, <1>11, <1>12
<1>14. QED
  BY <1>13 DEF n

\* A row more tells of the processors with a time in it.
LEMMA OneRowMore ==
  ASSUME NEW T, NEW times \in Seq(T), NEW row, NEW n, IsFiniteSet(TimesOf(times, n))
  PROVE  /\ IsFiniteSet(TimesOf(Append(times, row), n))
         /\ Cardinality(TimesOf(Append(times, row), n)) =
              Cardinality(TimesOf(times, n)) + IF n \in row THEN 1 ELSE 0
<1> DEFINE after == Append(times, row)
           k == Len(times) + 1
<1>1. DOMAIN times = 1 .. Len(times) /\ Len(times) \in Nat /\ DOMAIN after = 1 .. k
  OBVIOUS
<1>2. after[k] = row /\ \A i \in DOMAIN times : after[i] = times[i]
  OBVIOUS
<1>3. k \notin DOMAIN times /\ DOMAIN after = DOMAIN times \cup {k}
  BY <1>1
<1> HIDE DEF after, k
<1>4. k \notin TimesOf(times, n)
  BY <1>3 DEF TimesOf
<1>5. CASE n \in row
  <2>1. TimesOf(after, n) = TimesOf(times, n) \cup {k}
    BY <1>2, <1>3, <1>5 DEF TimesOf
  <2>2. QED
    BY <1>4, <1>5, <2>1, FS_AddElement DEF after
<1>6. CASE n \notin row
  <2>1. TimesOf(after, n) = TimesOf(times, n)
    BY <1>2, <1>3, <1>6 DEF TimesOf
  <2>2. Cardinality(TimesOf(times, n)) \in Nat
    BY FS_CardinalityType
  <2>3. QED
    BY <1>6, <2>1, <2>2 DEF after
<1>7. QED
  BY <1>5, <1>6

\* Rows of run times are finitely many.
LEMMA TimesFinite ==
  ASSUME NEW T, NEW times \in Seq(T), NEW n
  PROVE  IsFiniteSet(TimesOf(times, n)) /\ Cardinality(TimesOf(times, n)) \in Nat
<1>1. IsFiniteSet(1 .. Len(times))
  BY FS_Interval
<1>2. TimesOf(times, n) \subseteq 1 .. Len(times)
  BY DEF TimesOf
<1>3. QED
  BY <1>1, <1>2, FS_Subset, FS_CardinalityType

\* An event adds a time to a filter, and counts it or enters its tree.
LEMMA RunTimesGrow ==
  ASSUME NEW t, NEW k \in Nat, NamesUpTo(t.names, k),
         NEW counts, counts.overallEventCount \in Nat,
         counts.cutCount \in [DOMAIN counts.cutCount -> Nat],
         NEW times \in Seq(SUBSET FilterName), RunTimesIn(t, counts, times),
         NEW r, Complete(r),
         NEW row, \A n \in AllNames : n \in row <=> n \in Decided(r),
         NEW after, after.names = t.names,
         \A i \in 1 .. Len(t.names) :
           /\ Len(t.rows[i]) \in Nat
           /\ Len(after.rows[i]) = Len(t.rows[i]) + IF t.names[i] \in Rejecting(r) THEN 1 ELSE 0
  PROVE  RunTimesIn(after, AddFilterResult(counts, r), Append(times, row))
<1> DEFINE names == t.names
           more == AddFilterResult(counts, r)
           longer == Append(times, row)
<1>1. /\ DOMAIN names = 1 .. Len(names)
      /\ \A i \in 1 .. Len(names) : names[i] \in AllNames
  BY TreeNames
<1>2. \A n : CutCount(counts, n) \in Nat /\ CutCount(more, n) = CutCount(counts, n) + Added(r, n)
  BY FlowAdds
<1>3. SUFFICES ASSUME NEW i \in Filters(names)
               PROVE  Cardinality(TimesOf(longer, names[i])) =
                        CutCount(more, names[i]) + Len(after.rows[i])
  BY DEF RunTimesIn
<1> DEFINE n == names[i]
           dropped == IF n \in Rejecting(r) THEN 1 ELSE 0
           timed == IF n \in row THEN 1 ELSE 0
<1>4. i \in 1 .. Len(names) /\ n \in AllNames /\ n \notin Tagging
  BY <1>1 DEF Filters
<1>5. Cardinality(TimesOf(longer, n)) = Cardinality(TimesOf(times, n)) + timed
  BY TimesFinite, OneRowMore
<1>6. Cardinality(TimesOf(times, n)) = CutCount(counts, n) + Len(t.rows[i])
  BY DEF RunTimesIn
<1>7. Len(after.rows[i]) = Len(t.rows[i]) + dropped /\ Len(t.rows[i]) \in Nat
  BY <1>4
<1>8. timed = Added(r, n) + dropped
  <2>1. n \in row <=> n \in Decided(r)
    BY <1>4
  <2>2. n \in Rejecting(r) => n \in Decided(r)
    BY ListedFacts
  <2>3. CASE n \notin Decided(r)
    <3>1. Added(r, n) = 0
      BY <1>4, <2>3, Outcome
    <3>2. QED
      BY <2>1, <2>2, <2>3, <3>1
  <2>4. CASE n \in Rejecting(r)
    <3>1. Added(r, n) = 0
      BY <1>4, <2>4, Outcome
    <3>2. QED
      BY <2>1, <2>2, <2>4, <3>1
  <2>5. CASE n \in Decided(r) /\ n \notin Rejecting(r)
    <3>1. Added(r, n) = 1
      BY <1>4, <2>5, Outcome
    <3>2. QED
      BY <2>1, <2>5, <3>1
  <2>6. QED
    BY <2>3, <2>4, <2>5
<1>9. CutCount(more, n) = CutCount(counts, n) + Added(r, n) /\ CutCount(counts, n) \in Nat
      /\ Added(r, n) \in {0, 1} /\ dropped \in {0, 1}
  BY <1>2, AddedIsABit
<1> HIDE DEF n, dropped, timed, more, longer
<1>10. Cardinality(TimesOf(longer, n)) = CutCount(more, n) + Len(after.rows[i])
  <2>1. Cardinality(TimesOf(longer, n)) =
          CutCount(counts, n) + Len(t.rows[i]) + (Added(r, n) + dropped)
    BY <1>5, <1>6, <1>8
  <2>2. CutCount(more, n) + Len(after.rows[i]) =
          CutCount(counts, n) + Added(r, n) + (Len(t.rows[i]) + dropped)
    BY <1>7, <1>9
  <2>3. CutCount(counts, n) \in Int /\ Len(t.rows[i]) \in Int
        /\ Added(r, n) \in Int /\ dropped \in Int
    BY <1>7, <1>9
  <2>4. CutCount(counts, n) + Len(t.rows[i]) + (Added(r, n) + dropped) =
          CutCount(counts, n) + Added(r, n) + (Len(t.rows[i]) + dropped)
    BY <2>3
  <2>5. QED
    BY <2>1, <2>2, <2>4
<1>11. QED
  BY <1>10 DEF n

\* The list that the consumers see is complete.
LEMMA ConsumersSeeAll ==
  ASSUME NamedAsRun, ListInv, RunInv, pc = "consumers"
  PROVE  /\ Complete(fres)
         /\ IsFilterResult(fres) /\ InOrder(fres, Named + node - 1)
         /\ Named + node - 1 \in Nat /\ Named + node - 1 >= Named
         /\ HasPassed(fres) <=> Rejecting(fres) = {}
         /\ \A n \in AllNames : n \in measured <=> n \in Decided(fres)
<1> DEFINE l == Named + node - 1
<1>1. /\ Sound(fres) /\ InOrder(fres, l)
      /\ l \in Named .. Named + Len(LocalNodes) /\ l \in Nat /\ l >= Named
  BY PositionTypes DEF ListInv, SoundUpTo, Reached
<1>2. /\ DecidedInOrder(fres)
      /\ Rejecting(fres) = {} => Decided(fres) = Ran(Steps)
      /\ \A n \in AllNames : n \in measured <=> n \in Decided(fres)
  BY DEF RunInv
<1>3. Ran(Steps) = AllNames
  <2>1. FilterSteps \subseteq 1 .. Steps /\ Steps \in Nat
    BY StepFacts
  <2>2. Ran(Steps) = {NodeAt(q).id : q \in FilterSteps}
    <3>1. \A p \in FilterSteps : p <= Steps
      BY <2>1
    <3>2. {p \in FilterSteps : p <= Steps} = FilterSteps
      BY <3>1
    <3>3. QED
      BY <3>2 DEF Ran
  <2>3. QED
    BY <2>2, FilterNames DEF NamedAsRun
<1>4. HasPassed(fres) <=> Rejecting(fres) = {}
  BY <1>1, HasPassedIsTheListsAnswer DEF Sound
<1>5. Complete(fres)
  BY <1>1, <1>2, <1>3 DEF Complete
<1>6. QED
  BY <1>1, <1>2, <1>4, <1>5 DEF Sound

\* Nothing is in the outputs when the trees are opened.
LEMMA OpenedEmpty ==
  ASSUME NEW t, NEW k \in Nat, NamesUpTo(t.names, k),
         t.rows = [i \in 1 .. Len(t.names) |-> <<>>]
  PROVE  /\ EntriesIn(t.rows) = {}
         /\ DropsIn(t, NoCutFlow) /\ RunTimesIn(t, NoCutFlow, <<>>)
<1>1. DOMAIN t.names = 1 .. Len(t.names)
  BY TreeNames
<1>2. \A i \in 1 .. Len(t.names) : DOMAIN t.rows[i] = {} /\ Len(t.rows[i]) = 0
  OBVIOUS
<1>3. EntriesIn(t.rows) = {}
  <2>1. DOMAIN t.rows = 1 .. Len(t.names)
    OBVIOUS
  <2>2. \A i \in DOMAIN t.rows : {i} \X DOMAIN t.rows[i] = {}
    BY <1>2, <2>1
  <2>3. QED
    BY <2>2 DEF EntriesIn
<1>4. /\ NoCutFlow.overallEventCount = 0
      /\ \A n : CutCount(NoCutFlow, n) = 0
  BY DEF NoCutFlow, CutCount
<1>5. DropsIn(t, NoCutFlow)
  BY <1>1, <1>2, <1>4 DEF DropsIn, EnteringIn, Filters
<1>6. \A n : Cardinality(TimesOf(<<>>, n)) = 0
  <2>1. \A n : TimesOf(<<>>, n) = {}
    BY DEF TimesOf
  <2>2. QED
    BY <2>1, FS_EmptySet
<1>7. RunTimesIn(t, NoCutFlow, <<>>)
  BY <1>1, <1>2, <1>4, <1>6 DEF RunTimesIn, Filters
<1>8. QED
  BY <1>3, <1>5, <1>7

\* An event that went through leaves outputs that fit together.
LEMMA ConsumeKeepsOutputs ==
  ASSUME NamedAsRun, ListInv, CountsInv, RunInv, TreesInv, OutputsInv, Consume
  PROVE  OutputsInv'
<1> DEFINE l == Named + node - 1
           opened == OpenTrees(trees, fres)
           i == FirstPlace(Discarding(fres))
           one == IF Rejecting(fres) = {} THEN 0 ELSE 1
<1>1. /\ pc = "consumers" /\ ~MissingTree(trees, fres) /\ pc' = "next" /\ at' = at
      /\ measured' = measured
      /\ flow' = AddFilterResult(flow, fres)
      /\ trees' = FillTrees(trees, fres, Events[at])
      /\ runTimes' = Append(runTimes, measured)
      /\ filtered' = IF HasPassed(fres) THEN filtered \cup {at} ELSE filtered
  BY DEF Consume, FillRunTimes
<1>2. /\ Complete(fres) /\ IsFilterResult(fres) /\ InOrder(fres, l) /\ l \in Nat /\ l >= Named
      /\ HasPassed(fres) <=> Rejecting(fres) = {}
      /\ \A n \in AllNames : n \in measured <=> n \in Decided(fres)
  BY <1>1, ConsumersSeeAll
<1>3. /\ at \in 1 .. Len(Events) /\ at \notin filtered /\ Len(Events) \in Nat
      /\ TreesTyped(trees)
  BY <1>1, ConsumerConstants DEF TreesInv, OutputsInv
<1>4. Events[at] \in EntryOfATree
  <2>1. Events \in Seq(EntryOfATree)
    BY ConsumerConstants DEF EntryOfATree
  <2>2. QED
    BY <1>3, <2>1
<1>5. /\ flow.overallEventCount \in Nat
      /\ flow.cutCount \in [DOMAIN flow.cutCount -> Nat]
      /\ flow'.overallEventCount = flow.overallEventCount + 1
  BY <1>1, FlowAdds DEF CountsInv, CountsTyped
<1> HIDE DEF l
<1>6. PICK k \in Nat : NamesUpTo(opened.names, k)
  BY <1>2, <1>3, OpenedInOrder
<1>7. /\ opened.rows \in Seq(Seq(EntryOfATree)) /\ Len(opened.rows) = Len(opened.names)
      /\ IsFiniteSet(EntriesIn(opened.rows)) /\ IsFiniteSet(filtered)
      /\ Cardinality(filtered) + Cardinality(EntriesIn(opened.rows)) = flow.overallEventCount
      /\ DropsIn(opened, flow) /\ RunTimesIn(opened, flow, runTimes)
  <2>1. TreesTyped(opened)
    BY <1>2, <1>3, OpenedInOrder
  <2>2. IsFiniteSet(filtered)
    <3>1. IsFiniteSet(1 .. at)
      BY <1>3, FS_Interval
    <3>2. QED
      BY <3>1, FS_Subset DEF OutputsInv
  <2>3. CASE trees.initialised
    <3>1. opened = trees
      BY <1>2, <1>3, <2>3, OpenedInOrder
    <3>2. QED
      BY <2>1, <2>2, <3>1 DEF OutputsInv, TreesTyped
  <2>4. CASE ~trees.initialised
    <3>1. opened.rows = [j \in 1 .. Len(opened.names) |-> <<>>]
      BY <1>2, <1>3, <2>4, OpenedInOrder
    <3>2. flow = NoCutFlow /\ runTimes = <<>> /\ filtered = {}
      BY <2>4 DEF OutputsInv
    <3>3. /\ EntriesIn(opened.rows) = {}
          /\ DropsIn(opened, flow) /\ RunTimesIn(opened, flow, runTimes)
      BY <1>6, <3>1, <3>2, OpenedEmpty
    <3>4. Cardinality({}) = 0 /\ IsFiniteSet({}) /\ flow.overallEventCount = 0
      BY <3>2, FS_EmptySet DEF NoCutFlow
    <3>5. QED
      BY <2>1, <2>2, <3>2, <3>3, <3>4 DEF TreesTyped
  <2>5. QED
    BY <2>3, <2>4
<1>8. /\ TreesTyped(trees') /\ trees'.initialised /\ trees'.names = opened.names
      /\ Discarding(fres) = {} => trees'.rows = opened.rows
      /\ Discarding(fres) # {} =>
           /\ i \in 1 .. Len(opened.rows)
           /\ trees'.rows = Entered(opened.rows, i, Row(Events[at]))
  <2> DEFINE after == FillTrees(trees, fres, Events[at])
  <2>1. /\ TreesTyped(after) /\ after.initialised /\ after.names = opened.names
        /\ Discarding(fres) = {} => after.rows = opened.rows
        /\ Discarding(fres) # {} =>
             /\ i \in 1 .. Len(opened.rows)
             /\ after.rows = Entered(opened.rows, i, Row(Events[at]))
    <3>1. /\ TreesTyped(trees) /\ ~MissingTree(trees, fres) /\ Events[at] \in EntryOfATree
          /\ IsFilterResult(fres) /\ InOrder(fres, l) /\ l \in Nat /\ l >= Named
      BY <1>1, <1>2, <1>3, <1>4
    <3>2. LET o == OpenTrees(trees, fres)
              a == FillTrees(trees, fres, Events[at])
          IN  /\ TreesTyped(a) /\ a.initialised
              /\ a.names = o.names
              /\ Discarding(fres) = {} => a.rows = o.rows
              /\ Discarding(fres) # {} =>
                   /\ FirstPlace(Discarding(fres)) \in 1 .. Len(o.rows)
                   /\ a.rows = Entered(o.rows, FirstPlace(Discarding(fres)), Row(Events[at]))
      BY <3>1, EntryAdded
    <3>3. QED
      BY <3>2
  <2> HIDE DEF after
  <2>2. trees' = after
    BY <1>1 DEF after
  <2>3. QED
    BY <2>1, <2>2
<1>9. /\ Discarding(fres) = {} <=> Rejecting(fres) = {}
      /\ \A n \in Rejecting(fres) : i = Rank(n)
      /\ Rejecting(fres) \subseteq AllNames
  BY <1>2, TreeOfTheEvent, ListedFacts
<1> HIDE DEF opened, i
<1>10. /\ IsFiniteSet(EntriesIn(trees'.rows))
       /\ Cardinality(EntriesIn(trees'.rows)) = Cardinality(EntriesIn(opened.rows)) + one
  <2>1. CASE Rejecting(fres) = {}
    <3>1. trees'.rows = opened.rows
      BY <1>8, <1>9, <2>1
    <3>2. Cardinality(EntriesIn(opened.rows)) \in Nat
      BY <1>7, FS_CardinalityType
    <3>3. QED
      BY <1>7, <2>1, <3>1, <3>2
  <2>2. CASE Rejecting(fres) # {}
    <3>1. /\ i \in 1 .. Len(opened.rows)
          /\ trees'.rows = Entered(opened.rows, i, Row(Events[at]))
      BY <1>8, <1>9, <2>2
    <3>2. one = 1
      BY <2>2
    <3> HIDE DEF one
    <3>3. opened.rows \in Seq(Seq(EntryOfATree)) /\ IsFiniteSet(EntriesIn(opened.rows))
      BY <1>7
    <3>4. LET after == Entered(opened.rows, i, Row(Events[at]))
          IN  /\ IsFiniteSet(EntriesIn(after))
              /\ Cardinality(EntriesIn(after)) = Cardinality(EntriesIn(opened.rows)) + 1
      BY <3>1, <3>3, OneEntryMore
    <3>5. QED
      BY <3>1, <3>2, <3>4
  <2>3. QED
    BY <2>1, <2>2
<1>11. ASSUME NEW j \in 1 .. Len(opened.names)
       PROVE  /\ Len(opened.rows[j]) \in Nat
              /\ Len(trees'.rows[j]) =
                   Len(opened.rows[j]) + IF opened.names[j] \in Rejecting(fres) THEN 1 ELSE 0
  <2>1. opened.rows[j] \in Seq(EntryOfATree) /\ j \in 1 .. Len(opened.rows)
    BY <1>7
  <2>2. Len(opened.rows[j]) \in Nat
    BY <2>1
  <2>3. opened.names[j] \in AllNames /\ Rank(opened.names[j]) = j
    BY <1>6, TreeNames
  <2>4. CASE Rejecting(fres) = {}
    <3>1. trees'.rows = opened.rows
      BY <1>8, <1>9, <2>4
    <3>2. QED
      BY <2>2, <2>4, <3>1
  <2>5. CASE Rejecting(fres) # {}
    <3>1. /\ i \in 1 .. Len(opened.rows)
          /\ trees'.rows = Entered(opened.rows, i, Row(Events[at]))
      BY <1>8, <1>9, <2>5
    <3>2. /\ Len(trees'.rows[i]) = Len(opened.rows[i]) + 1
          /\ j # i => Len(trees'.rows[j]) = Len(opened.rows[j])
      <4>1. opened.rows \in Seq(Seq(EntryOfATree)) /\ IsFiniteSet(EntriesIn(opened.rows))
        BY <1>7
      <4>2. LET after == Entered(opened.rows, i, Row(Events[at]))
            IN  /\ Len(after[i]) = Len(opened.rows[i]) + 1
                /\ \A m \in 1 .. Len(opened.rows) : m # i => Len(after[m]) = Len(opened.rows[m])
        BY <3>1, <4>1, OneEntryMore
      <4>3. QED
        BY <2>1, <3>1, <4>2
    <3>3. opened.names[j] \in Rejecting(fres) => i = j
      BY <1>9, <2>3
    <3>4. i = j => opened.names[j] \in Rejecting(fres)
      <4>1. SUFFICES ASSUME i = j PROVE opened.names[j] \in Rejecting(fres)
        OBVIOUS
      <4>2. PICK n \in Rejecting(fres) : i = Rank(n) /\ n \in AllNames
        BY <1>9, <2>5
      <4>3. Rank(n) <= Len(opened.names)
        BY <4>1, <4>2
      <4>4. opened.names[Rank(n)] = n
        BY <1>6, <4>2, <4>3, TreeNames
      <4>5. QED
        BY <4>1, <4>2, <4>4
    <3>5. CASE i = j
      BY <2>2, <3>2, <3>4, <3>5
    <3>6. CASE i # j
      <4>1. opened.names[j] \notin Rejecting(fres)
        BY <3>3, <3>6
      <4>2. Len(trees'.rows[j]) = Len(opened.rows[j])
        BY <3>2, <3>6
      <4>3. QED
        BY <2>2, <4>1, <4>2
    <3>7. QED
      BY <3>5, <3>6
  <2>6. QED
    BY <2>4, <2>5
<1>12. DropsIn(trees', flow')
  BY <1>1, <1>2, <1>5, <1>6, <1>7, <1>8, <1>11, DropsGrow
<1>13. runTimes \in Seq(SUBSET FilterName) /\ measured \in SUBSET FilterName
  BY DEF OutputsInv
<1>14. RunTimesIn(trees', flow', runTimes')
  BY <1>1, <1>2, <1>5, <1>6, <1>7, <1>8, <1>11, <1>13, RunTimesGrow
<1>15. runTimes' \in Seq(SUBSET FilterName) /\ measured' \subseteq FilterName
  BY <1>1, <1>13
<1>16. filtered' \subseteq 1 .. at'
  BY <1>1, <1>3 DEF OutputsInv
<1>17. Cardinality(filtered') + one = Cardinality(filtered) + 1 /\ Cardinality(filtered') \in Nat
  <2>1. Cardinality(filtered) \in Nat
    BY <1>7, FS_CardinalityType
  <2>2. CASE Rejecting(fres) = {}
    <3>1. filtered' = filtered \cup {at}
      BY <1>1, <1>2, <2>2
    <3>2. Cardinality(filtered') = Cardinality(filtered) + 1
      BY <1>3, <1>7, <3>1, FS_AddElement
    <3>3. QED
      BY <2>1, <2>2, <3>2
  <2>3. CASE Rejecting(fres) # {}
    <3>1. filtered' = filtered
      BY <1>1, <1>2, <2>3
    <3>2. QED
      BY <2>1, <2>3, <3>1
  <2>4. QED
    BY <2>2, <2>3
<1>18. Cardinality(filtered') + Cardinality(EntriesIn(trees'.rows)) = flow'.overallEventCount
  <2>1. /\ Cardinality(filtered) \in Nat /\ Cardinality(EntriesIn(opened.rows)) \in Nat
        /\ one \in {0, 1}
    BY <1>7, FS_CardinalityType
  <2> HIDE DEF one
  <2>2. Cardinality(filtered') = Cardinality(filtered) + 1 - one
    BY <1>17, <2>1
  <2>3. Cardinality(filtered') + Cardinality(EntriesIn(trees'.rows)) =
          Cardinality(filtered) + Cardinality(EntriesIn(opened.rows)) + 1
    BY <1>10, <2>1, <2>2
  <2>4. QED
    BY <1>5, <1>7, <2>3
<1>19. QED
  BY <1>1, <1>8, <1>10, <1>12, <1>14, <1>15, <1>16, <1>18 DEF OutputsInv

\* The outputs fit together after every step.
LEMMA NextOutputsInv ==
  ASSUME NamedAsRun, ListInv, CountsInv, RunInv, TreesInv, OutputsInv, [Next]_vars
  PROVE  OutputsInv'
<1> USE DEF OutputsInv
<1>1. CASE BeginEvent
  <2>1. /\ at' = at + 1 /\ measured' = {} /\ filtered' = filtered
        /\ flow' = flow /\ trees' = trees /\ runTimes' = runTimes
    BY <1>1 DEF BeginEvent, consumerVars
  <2>2. at \in Nat
    BY ConsumerConstants DEF TreesInv
  <2>3. filtered' \subseteq 1 .. at' /\ at' \notin filtered'
    BY <2>1, <2>2
  <2>4. QED
    BY <2>1, <2>3
<1>2. ASSUME AtNode("Producer") \/ AtNode("Filter")
      PROVE  measured' \subseteq FilterName /\ pc \in {"global", "local"}
  <2>1. /\ pc \in {"global", "local"} /\ node <= Len(Chain)
        /\ measured' = measured \cup {Chain[node].id}
    BY <1>2 DEF AtNode
  <2>2. Chain \in Seq(ProcessNode) /\ node \in 1 .. Len(Chain)
    BY <2>1, ConsumerConstants DEF Chain, ListInv
  <2>3. Chain[node] \in ProcessNode
    BY <2>2
  <2>4. Chain[node].id \in FilterName
    BY <2>3 DEF ProcessNode
  <2>5. QED
    BY <2>1, <2>4
<1>3. CASE Produce \/ \E passed \in BOOLEAN : DoesEventPass(passed)
  <2>1. /\ AtNode("Producer") \/ AtNode("Filter")
        /\ pc' = pc /\ at' = at /\ filtered' = filtered
        /\ flow' = flow /\ trees' = trees /\ runTimes' = runTimes
    BY <1>3 DEF Produce, DoesEventPass, consumerVars
  <2>2. QED
    BY <1>2, <2>1
<1>4. CASE StartPipeline \/ EndChain \/ ConsumeBehindTheTrees \/ Finish
  <2>1. /\ pc' \in {"global", "local", "consumers"} => pc \in {"global", "local", "consumers"}
        /\ at' = at /\ filtered' = filtered /\ measured' = measured
        /\ flow' = flow /\ trees' = trees /\ runTimes' = runTimes
    BY <1>4 DEF StartPipeline, EndChain, ConsumeBehindTheTrees, Finish, consumerVars
  <2>2. QED
    BY <2>1
<1>5. CASE Consume
  BY <1>5, ConsumeKeepsOutputs
<1>6. CASE UNCHANGED vars
  <2>1. /\ pc' = pc /\ at' = at /\ filtered' = filtered /\ measured' = measured
        /\ flow' = flow /\ trees' = trees /\ runTimes' = runTimes
    BY <1>6 DEF vars, consumerVars
  <2>2. QED
    BY <2>1
<1>7. QED
  BY <1>1, <1>3, <1>4, <1>5, <1>6 DEF Next

\* The trees, the run times, the cut flow and what passed tell the same story of
\* the events, for every input and every configuration in which the filters that
\* the settings name are those that run.
THEOREM OutputsCorrect ==
  ASSUME NamedAsRun
  PROVE  Spec => []OutputsFitTogether
<1> DEFINE Inv == ListInv /\ CountsInv /\ RunInv /\ TreesInv /\ OutputsInv
<1>1. Init => Inv
  <2>1. SUFFICES ASSUME Init PROVE Inv
    OBVIOUS
  <2>2. /\ pc = "next" /\ at = 0 /\ measured = {} /\ flow = NoCutFlow /\ trees = NoTrees
        /\ runTimes = <<>> /\ filtered = {}
    BY <2>1 DEF Init
  <2>3. OutputsInv
    <3>1. trees.rows = <<>> /\ trees.names = <<>> /\ ~trees.initialised
      BY <2>2 DEF NoTrees
    <3>2. EntriesIn(<<>>) = {} /\ Filters(<<>>) = {}
      BY DEF EntriesIn, Filters
    <3>3. Cardinality({}) = 0 /\ IsFiniteSet({}) /\ flow.overallEventCount = 0
      BY <2>2, FS_EmptySet DEF NoCutFlow
    <3>4. \A T : <<>> \in Seq(T)
      OBVIOUS
    <3>5. DropsIn(trees, flow) /\ RunTimesIn(trees, flow, runTimes)
      BY <3>1, <3>2 DEF DropsIn, RunTimesIn
    <3>6. /\ IsFiniteSet(EntriesIn(trees.rows))
          /\ Cardinality(filtered) + Cardinality(EntriesIn(trees.rows)) = flow.overallEventCount
      <4>1. EntriesIn(trees.rows) = {} /\ filtered = {}
        BY <2>2, <3>1, <3>2
      <4>2. QED
        BY <3>3, <4>1
    <3>7. QED
      BY <2>2, <3>4, <3>5, <3>6 DEF OutputsInv
  <2>4. TreesInv
    BY <2>1, InitTreesInv
  <2>5. RunInv
    BY <2>2 DEF RunInv
  <2>6. QED
    BY <2>1, <2>3, <2>4, <2>5, InitInv DEF IInv
<1>2. Inv /\ [Next]_vars => Inv'
  BY NextListInv, NextCountsInv, NextRunInv, NextTreesInv, NextOutputsInv DEF IInv
<1>3. Inv => OutputsFitTogether
  <2>1. SUFFICES ASSUME OutputsInv, TreesInv PROVE OutputsFitTogether
    OBVIOUS
  <2>2. AccountedFor
    BY <2>1 DEF OutputsInv, AccountedFor, EntriesIn, Discarded
  <2>3. DropsAreInTheTrees
    BY <2>1 DEF OutputsInv, DropsIn, EnteringIn, FiltersBefore, Latest,
                DropsAreInTheTrees, Entering
  <2>4. RunTimesAgree
    BY <2>1 DEF OutputsInv, RunTimesIn, TimesOf, RunTimesAgree
  <2>5. QED
    BY <2>1, <2>2, <2>3, <2>4 DEF TreesInv, OutputsFitTogether
<1>4. QED
  BY <1>1, <1>2, <1>3, PTL DEF Spec

-----------------------------------------------------------------------------
(* Types.                                                                  *)

\* What the types need beside the invariants above.
TypesInv ==
  /\ at \in 0 .. Len(Events)
  /\ measured \subseteq FilterName /\ filtered \subseteq 1 .. Len(Events)
  /\ pc \in {"global", "local", "consumers"} => at # 0
  /\ runTimes \in Seq(SUBSET FilterName)
  /\ histogram.labels \in Seq(FilterName)
  /\ histogram.bins \in [DOMAIN histogram.bins -> 0 .. FloatExact]

\* A bin holds a float.
LEMMA FilledTyped ==
  ASSUME NEW hist, NEW r,
         hist = [initialised |-> hist.initialised, labels |-> hist.labels, bins |-> hist.bins],
         hist.labels \in Seq(FilterName), IsFiniteSet(FilledBins(r)),
         hist.bins \in [DOMAIN hist.bins -> 0 .. FloatExact]
  PROVE  /\ Filled(hist, r).labels = hist.labels
         /\ Filled(hist, r).bins \in [DOMAIN Filled(hist, r).bins -> 0 .. FloatExact]
<1> DEFINE added == [b \in DOMAIN hist.bins |-> AsFloat(hist.bins[b] + Hits(hist, r, b))]
<1>1. \A b : Hits(hist, r, b) \in Nat
  <2>1. ASSUME NEW b
        PROVE  /\ IsFiniteSet({b} \cap FilledBins(r))
               /\ IsFiniteSet({c \in FilledBins(r) : c >= b})
    BY FS_Subset
  <2>2. QED
    BY <2>1, FS_CardinalityType DEF Hits
<1>2. \A x \in Nat : AsFloat(x) \in 0 .. FloatExact
  BY FloatExactPositive DEF AsFloat
<1>3. \A b \in DOMAIN hist.bins : hist.bins[b] + Hits(hist, r, b) \in Nat
  <2>1. \A x \in 0 .. FloatExact, y \in Nat : x + y \in Nat
    BY FloatExactPositive
  <2>2. QED
    BY <1>1, <2>1
<1>4. added \in [DOMAIN added -> 0 .. FloatExact]
  BY <1>2, <1>3
<1> HIDE DEF added
<1>5. Filled(hist, r) = [hist EXCEPT !.bins = added]
  BY DEF Filled, added
<1>6. PICK i, l, b : hist = [initialised |-> i, labels |-> l, bins |-> b]
  OBVIOUS
<1>7. Filled(hist, r) = [initialised |-> i, labels |-> l, bins |-> added]
  BY <1>5, <1>6
<1>8. QED
  BY <1>4, <1>6, <1>7

\* Types are kept.
LEMMA NextTypesInv ==
  ASSUME ListInv, CountsInv, TypesInv, [Next]_vars
  PROVE  TypesInv'
<1> USE DEF TypesInv
<1>0. Len(Events) \in Nat /\ at \in Nat
  BY ConsumerConstants
<1>1. CASE BeginEvent
  <2>1. /\ at' = at + 1 /\ at < Len(Events) /\ measured' = {} /\ filtered' = filtered
        /\ histogram' = histogram /\ runTimes' = runTimes
    BY <1>1 DEF BeginEvent, consumerVars
  <2>2. QED
    BY <1>0, <2>1
<1>2. CASE Produce \/ \E passed \in BOOLEAN : DoesEventPass(passed)
  <2>1. /\ pc \in {"global", "local"} /\ node <= Len(Chain)
        /\ measured' = measured \cup {Chain[node].id}
        /\ pc' = pc /\ at' = at /\ filtered' = filtered
        /\ histogram' = histogram /\ runTimes' = runTimes
    BY <1>2 DEF Produce, DoesEventPass, AtNode, consumerVars
  <2>2. Chain \in Seq(ProcessNode) /\ node \in 1 .. Len(Chain)
    BY <2>1, ConsumerConstants DEF Chain, ListInv
  <2>3. Chain[node] \in ProcessNode
    BY <2>2
  <2>4. Chain[node].id \in FilterName
    BY <2>3 DEF ProcessNode
  <2>5. QED
    BY <2>1, <2>4
<1>3. CASE StartPipeline \/ EndChain \/ ConsumeBehindTheTrees \/ Finish
  <2>1. /\ pc' \in {"global", "local", "consumers"} => pc \in {"global", "local", "consumers"}
        /\ at' = at /\ filtered' = filtered /\ measured' = measured
        /\ histogram' = histogram /\ runTimes' = runTimes
    BY <1>3 DEF StartPipeline, EndChain, ConsumeBehindTheTrees, Finish, consumerVars
  <2>2. QED
    BY <2>1
<1>4. CASE Consume
  <2> DEFINE booked == IF histogram.initialised THEN histogram ELSE InitialiseHistograms(fres)
             l == Named + node - 1
  <2>1. /\ pc = "consumers" /\ pc' = "next" /\ at' = at /\ measured' = measured
        /\ filtered' = (IF HasPassed(fres) THEN filtered \cup {at} ELSE filtered)
        /\ runTimes' = Append(runTimes, measured)
        /\ histogram' = Filled(booked, fres)
    BY <1>4 DEF Consume, FillRunTimes, FillHistogram, Filled
  <2>2. IsFilterResult(fres) /\ InOrder(fres, l) /\ l \in Nat
    BY <2>1, PositionTypes DEF ListInv, SoundUpTo, Sound, Reached
  <2> HIDE DEF l
  <2>3. /\ booked = [initialised |-> booked.initialised, labels |-> booked.labels,
                     bins |-> booked.bins]
        /\ booked.labels \in Seq(FilterName)
        /\ booked.bins \in [DOMAIN booked.bins -> 0 .. FloatExact]
    <3>1. CASE histogram.initialised
      BY <3>1 DEF CountsInv, CountsTyped
    <3>2. CASE ~histogram.initialised
      <4>1. booked = [initialised |-> TRUE, labels |-> GetFilterNames(fres),
                      bins |-> [b \in 0 .. Cardinality(Listed(fres)) + 1 |-> 0]]
        BY <3>2 DEF InitialiseHistograms
      <4>2. InitialiseHistograms(fres).labels \in Seq(FilterName)
        BY <2>2, BookedInOrder DEF LabelledInOrder, NamesUpTo
      <4>3. 0 \in 0 .. FloatExact
        BY FloatExactPositive
      <4>4. booked.labels = InitialiseHistograms(fres).labels
        BY <3>2
      <4> HIDE DEF booked
      <4>5. booked = [initialised |-> booked.initialised, labels |-> booked.labels,
                      bins |-> booked.bins]
        BY <4>1
      <4>6. booked.bins \in [DOMAIN booked.bins -> 0 .. FloatExact]
        BY <4>1, <4>3
      <4>7. QED
        BY <4>2, <4>4, <4>5, <4>6
    <3>3. QED
      BY <3>1, <3>2
  <2>4. IsFiniteSet(FilledBins(fres))
    <3> DEFINE c == Cardinality(Before(l))
    <3>1. c \in Nat
      BY <2>2, BeforeFacts
    <3>2. \A n \in Listed(fres) : fres.filterDecisions[n].place \in 1 .. c
      BY <2>2, RankCovers DEF InOrder
    <3> HIDE DEF c
    <3>3. FilledBins(fres) \subseteq 0 .. c
      BY <3>1, <3>2 DEF FilledBins
    <3>4. IsFiniteSet(0 .. c)
      BY <3>1, FS_Interval
    <3>5. QED
      BY <3>3, <3>4, FS_Subset
  <2> HIDE DEF booked
  <2>5. /\ histogram'.labels \in Seq(FilterName)
        /\ histogram'.bins \in [DOMAIN histogram'.bins -> 0 .. FloatExact]
    BY <2>1, <2>3, <2>4, FilledTyped
  <2>6. filtered' \subseteq 1 .. Len(Events)
    BY <1>0, <2>1
  <2>7. measured \in SUBSET FilterName
    OBVIOUS
  <2>8. runTimes' \in Seq(SUBSET FilterName)
    BY <2>1, <2>7
  <2>9. QED
    BY <2>1, <2>5, <2>6, <2>8
<1>5. CASE UNCHANGED vars
  <2>1. /\ pc' = pc /\ at' = at /\ filtered' = filtered /\ measured' = measured
        /\ histogram' = histogram /\ runTimes' = runTimes
    BY <1>5 DEF vars, consumerVars
  <2>2. QED
    BY <2>1
<1>6. QED
  BY <1>1, <1>2, <1>3, <1>4, <1>5 DEF Next

\* The consumers are type correct: a bin is a float, and an entry of a tree one of
\* the events.
THEOREM TypeCorrect == Spec => []TypeOK
<1> DEFINE Inv == IInv /\ TreesInv /\ TypesInv
<1>1. Init => Inv
  <2>1. SUFFICES ASSUME Init PROVE TypesInv
    BY InitInv, InitTreesInv
  <2>2. /\ pc = "next" /\ at = 0 /\ measured = {} /\ runTimes = <<>> /\ filtered = {}
        /\ histogram = NoHistogram
    BY <2>1 DEF Init
  <2>3. histogram.labels = <<>> /\ histogram.bins = [b \in {} |-> 0]
    BY <2>2 DEF NoHistogram
  <2>4. \A T : <<>> \in Seq(T)
    OBVIOUS
  <2>5. 0 \in 0 .. Len(Events)
    BY ConsumerConstants
  <2>6. QED
    BY <2>2, <2>3, <2>4, <2>5 DEF TypesInv
<1>2. Inv /\ [Next]_vars => Inv'
  BY NextListInv, NextCountsInv, NextTreesInv, NextTypesInv DEF IInv
<1>3. Inv => TypeOK
  <2>1. SUFFICES ASSUME Inv PROVE TypeOK
    OBVIOUS
  <2>2. trees.names \in Seq(FilterName) /\ trees.rows \in Seq(Seq(EntryOfATree))
    <3>1. \A T : <<>> \in Seq(T)
      OBVIOUS
    <3>2. QED
      BY <2>1, <3>1 DEF TreesInv, TreesTyped, NamesUpTo, NoTrees
  <2>3. QED
    BY <2>1, <2>2 DEF IInv, ListInv, Sound, CountsInv, CountsTyped, TypesInv, TypeOK, EntryOfATree
<1>4. QED
  BY <1>1, <1>2, <1>3, PTL DEF Spec
=============================================================================
