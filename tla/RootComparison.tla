--------------------------- MODULE RootComparison ---------------------------
(***************************************************************************)
(* compareRootFiles.py: two ROOT files are compared object by object.  The *)
(* first difference ends the comparison, unless all are asked for.         *)
(*                                                                         *)
(* A directory is a function from keys to objects.  A histogram has bins   *)
(* by index, the underflow first and the overflow last (of a histogram of  *)
(* more dimensions, in the first row too); a tree has leaves and rows.     *)
(* A comparison yields "equal", "different" or, for an exception, "raised".*)
(* The mean differences of leaves, which are only logged, are left out.    *)
(***************************************************************************)
EXTENDS Integers, SequencesExt, FiniteSets, TLC

CONSTANTS Files,  \* the pairs of files to compare
          Names   \* of the keys in them

VARIABLES pair,      \* the two files
          order,     \* in which the first one lists its keys
          opt_all,   \* are all differences asked for?
          verdict,   \* what the comparison has yielded
          code,      \* exit code
          pc
vars == <<pair, order, opt_all, verdict, code, pc>>

\* Comparisons that are made one after the other: without opt_all the first that fails
\* is the last one; an exception ends them in any case.
Ended(all, parts, i) == parts[i] = "raised" \/ (~all /\ parts[i] = "different")
InTurn(all, parts) ==
  LET ends == {i \in DOMAIN parts : Ended(all, parts, i)}
  IN  CASE ends = {} -> IF "different" \in Range(parts) THEN "different" ELSE "equal"
        [] OTHER -> parts[CHOOSE i \in ends : \A j \in ends : i <= j]
Equal(x, y) == IF x = y THEN "equal" ELSE "different"

-----------------------------------------------------------------------------
\* A bin that a histogram does not have is taken for its overflow.
Bin(h, i) == IF i + 1 \in DOMAIN h.bins THEN h.bins[i + 1] ELSE h.bins[Len(h.bins)]
compareBin(all, h1, h2, i) ==
  InTurn(all, <<Equal(Bin(h1, i).axis, Bin(h2, i).axis), Equal(Bin(h1, i).error, Bin(h2, i).error), Equal(Bin(h1, i).content, Bin(h2, i).content)>>)
\* The indices of the first row: range(0, GetNbinsX() + 2).
FirstRow(h) == [i \in 1..(h.nx + 2) |-> i - 1]
compareTH1(all, h1, h2) ==
  InTurn(all, <<Equal(h1.nx, h2.nx)>> \o [i \in DOMAIN FirstRow(h1) |-> compareBin(all, h1, h2, FirstRow(h1)[i])])
\* In two dimensions every difference ends the comparison.  The rows of a TH1 have the
\* same indices.
compareTH2(all, h1, h2) ==
  IF h1.nx # h2.nx \/ h1.ny # h2.ny \/ h2.kind = "TH1" THEN "different"
  ELSE IF \A i \in 0..((h1.nx + 2) * (h1.ny + 2) - 1) : compareBin(all, h1, h2, i) = "equal" THEN "equal" ELSE "different"

\* A point that a graph does not have is where the variables were, with errors of -1.
Point(g, i, start) == IF i \in DOMAIN g.points THEN g.points[i] ELSE start
comparePoint(all, g1, g2, i) ==
  LET p == Point(g1, i, [x |-> "+1.0", y |-> "+0.5", error |-> -1])
      q == Point(g2, i, [x |-> "-1.0", y |-> "-0.5", error |-> -1])
  IN  InTurn(all, <<Equal(p.x, q.x), Equal(p.y, q.y), Equal(p.error, q.error)>>)
compareGraph(all, g1, g2) ==
  InTurn(all, <<Equal(Len(g1.points), Len(g2.points))>> \o [i \in DOMAIN g1.points |-> comparePoint(all, g1, g2, i)])

\* The row a tree holds in memory after GetEntry(n): behind the end, the one before.
InMemory(t, n) == IF t.rows = <<>> THEN [l \in DOMAIN t.leaves |-> 0] ELSE t.rows[IF n \in DOMAIN t.rows THEN n ELSE Len(t.rows)]
\* (value1 - value2) / (value2 or 1e-9) > 1e-6, of numbers that differ by more than that.
Value(v1, v2) == IF (v2 = 0 /\ v1 > 0) \/ (v1 - v2) * v2 > 0 THEN "different" ELSE "equal"
Row(all, t1, t2, n) ==
  InTurn(all, [l \in DOMAIN t1.leaves |-> IF l \in DOMAIN t2.leaves THEN Value(InMemory(t1, n)[l], InMemory(t2, n)[l]) ELSE "raised"])
\* The numbers of events are both taken from the first tree.
compareNtuple(all, t1, t2) ==
  InTurn(all, <<Equal(Len(t1.leaves), Len(t2.leaves))>>
              \o [l \in DOMAIN t1.leaves |-> IF l \in DOMAIN t2.leaves THEN Equal(t1.leaves[l], t2.leaves[l]) ELSE "raised"]
              \o [n \in DOMAIN t1.rows |-> Row(all, t1, t2, n)])

-----------------------------------------------------------------------------
\* The type of the object in the first file decides how the two are compared.  A TH3 is
\* a TH1 and no TH2; what is none of the types is told not to have been checked.
Fits(o, kinds) == o.kind \in kinds
Histograms == {"TH1", "TH2", "TH3"}
RECURSIVE compareTree(_, _, _)
CompareObject(all, o1, o2) ==
  CASE o1.kind = "TDirectoryFile" -> IF Fits(o2, {"TDirectoryFile"}) THEN compareTree(all, o1.keys, o2.keys) ELSE "raised"
    [] o1.kind = "TH2" -> IF Fits(o2, Histograms) THEN compareTH2(all, o1, o2) ELSE "raised"
    [] o1.kind \in {"TH1", "TH3"} -> IF Fits(o2, Histograms) THEN compareTH1(all, o1, o2) ELSE "raised"
    [] o1.kind = "TGraphErrors" -> IF Fits(o2, {"TGraphErrors"}) THEN compareGraph(all, o1, o2) ELSE "raised"
    [] o1.kind = "TTree" -> IF Fits(o2, {"TTree"}) THEN compareNtuple(all, o1, o2) ELSE "raised"
    [] OTHER -> "equal"
Keys(d) == SelectSeq(order, LAMBDA k : k \in DOMAIN d)
OnlyInSecond(d1, d2) == LET keys == Keys(d2) IN [i \in DOMAIN keys |-> IF keys[i] \in DOMAIN d1 THEN "equal" ELSE "different"]
compareTree(all, d1, d2) ==
  LET keys == Keys(d1)
  IN  InTurn(all, OnlyInSecond(d1, d2) \o [i \in DOMAIN keys |-> IF keys[i] \in DOMAIN d2 THEN CompareObject(all, d1[keys[i]], d2[keys[i]]) ELSE "different"])

Init ==
  /\ pair \in Files /\ order \in SetToSeqs(Names) /\ opt_all \in BOOLEAN
  /\ verdict = "" /\ code = 0 /\ pc = "started"
\* An exception ends the script with the exit code of a difference.
main ==
  /\ pc = "started"
  /\ verdict' = compareTree(opt_all, pair[1], pair[2])
  /\ code' = IF verdict' = "equal" THEN 0 ELSE 1
  /\ pc' = "done"
  /\ UNCHANGED <<pair, order, opt_all>>
Next == main
Spec == Init /\ [][Next]_vars

-----------------------------------------------------------------------------
Done == pc = "done"
\* Asking for all differences does not change whether there is one; only an object that
\* lacks something the other one has can end the longer comparison with an exception.
SameVerdict ==
  Done => LET other == compareTree(~opt_all, pair[1], pair[2])
          IN  /\ verdict = "equal" <=> other = "equal"
              /\ verdict = "raised" /\ ~opt_all => other = "raised"

\* A file is identical to itself, and whatever the order of the two, a file with a key
\* that the other does not have is not.
OneFile == Done /\ pair[1] = pair[2] => code = 0
KeysCompared == Done /\ DOMAIN pair[1] # DOMAIN pair[2] => code # 0

\* One-dimensional histograms and graphs are identical exactly if they are equal.
Plain(d) == \A k \in DOMAIN d : d[k].kind \in {"TH1", "TGraphErrors"}
PlainAsEqual == Done /\ Plain(pair[1]) /\ Plain(pair[2]) => (code = 0 <=> pair[1] = pair[2])
=============================================================================
