----------------------------- MODULE JsonConfigs -----------------------------
(***************************************************************************)
(* A program that works on JSON configurations with the operations of      *)
(* JsonDict, keeping the objects it was given for its next operation, as   *)
(* the configuration wrapper and HarryPlotter do.                          *)
(***************************************************************************)
EXTENDS JsonTools

CONSTANTS Documents,  \* trees of the configurations
          Orders,     \* orders in which dictionaries may be walked
          MaxOps      \* operations in a row

VARIABLES heap, docs, order, last, ops
vars == <<heap, docs, order, last, ops>>

Empty == [a \in {} |-> None]
Nothing == [op |-> None]
Init ==
  /\ order \in Orders
  /\ \E x, y \in Documents :
       LET a == Load(Empty, x)
           b == Load(a.h, y)
       IN  heap = deepuncomment(deepuncomment(b.h, a.v.ref), b.v.ref) /\ docs = <<a.v.ref, b.v.ref>>
  /\ last = Nothing /\ ops = 0

Text(i) == Tree(heap, [ref |-> docs[i]])
Did(op, is, result) ==
  /\ ops' = ops + 1
  /\ last' = [op |-> op, given |-> [j \in DOMAIN is |-> Text(is[j])], is |-> is] @@ result
  /\ UNCHANGED <<docs, order>>

\* Operations that work on the objects.
InPlace(op, is, r) ==
  /\ heap' = r.h
  /\ Did(op, is, IF r.raised THEN Raised ELSE [result |-> r.v])
Start == [h |-> heap, raised |-> FALSE]
SecondLayer(i) == IsDict(heap[docs[i]]) /\ \A k \in DOMAIN heap[docs[i]].dict : IsDict(At(heap, heap[docs[i]].dict[k]))
Merge(i, j) == InPlace("merge", <<i, j>>, Plus(Start, docs[i], docs[j]))
MergeAll(is) == InPlace("mergeAll", is, mergeAll(Start, [n \in DOMAIN is |-> docs[is[n]]]))
Expand(i, j) ==
  SecondLayer(i) /\ SecondLayer(j) /\ InPlace("expand", <<i, j>>, Times(Start, docs[i], docs[j], order))
ExpandAll(is) ==
  /\ \A n \in DOMAIN is : SecondLayer(is[n])
  /\ InPlace("expandAll", is, expandAll(Start, [n \in DOMAIN is |-> docs[is[n]]], order))

\* Operations whose result shares nothing with the object.
OnText(op, i, tree) == UNCHANGED heap /\ Did(op, <<i>>, IF IsRaised(tree) THEN Raised ELSE [tree |-> tree])
doComments(i) == OnText("doComments", i, Uncommented(Text(i)))
doIncludes(i) == OnText("doIncludes", i, LET t == deepinclude(Text(i), order) IN IF IsRaised(t) THEN t ELSE Constructed(t))
doNicks(i, nick) == OnText("doNicks", i, Constructed(deepresolvenicks(Text(i), nick, order)))
doReplaceFilesByLocalCopies(i, downloaded) ==
  /\ UNCHANGED heap
  /\ Did("doReplaceFiles", <<i>>, [tree |-> Uncommented(deepreplaceremotefiles(Text(i), downloaded)), downloaded |-> downloaded])
Diff(i, j) == UNCHANGED heap /\ Did("diff", <<i, j>>, [diff |-> deepdiff(Text(i), Text(j))])

Next ==
  /\ ops < MaxOps /\ "raised" \notin DOMAIN last
  /\ \/ \E i, j \in 1..2 : Merge(i, j) \/ Expand(i, j) \/ Diff(i, j)
     \/ \E is \in {<<1>>, <<1, 2>>, <<2, 1, 2>>} : MergeAll(is) \/ ExpandAll(is)
     \/ \E i \in 1..2 : doComments(i) \/ doIncludes(i)
     \/ \E i \in 1..2, nick \in {"n", "nm", "other"} : doNicks(i, nick)
     \/ \E i \in 1..2, downloaded \in SUBSET Remote : doReplaceFilesByLocalCopies(i, downloaded)
Spec == Init /\ [][Next]_vars

-----------------------------------------------------------------------------
Happened(op) == "op" \in DOMAIN last /\ last.op = op
Result == Tree(heap, last.result)

\* deepmerge: "Entries from dictWithLowerPriority are recursively merged into
\* dictWithHigherPriority in case, nothing has to be overwritten": the result of
\* a + b has all entries of both, those of a before those of b, and only a
\* conflict of kinds raises.
MergedAsTold ==
  Happened("merge") =>
    LET x == Uncommented(last.given[1])
        y == last.given[2]
    IN  /\ IsRaised(last) <=> Clashing(x, y)
        /\ ~IsRaised(last) => Result = MergeTrees(x, y)

\* The two differences of deepdiff are what one has to change: the second one
\* laid over the first configuration, without the keys that only the first one
\* has, is the second configuration.
RECURSIVE Patched(_, _, _)
Patched(x, dx, dy) ==
  LET keys == (DOMAIN x.dict \ DOMAIN dx.dict) \cup DOMAIN dy.dict
      Entry(k) == CASE k \notin DOMAIN dy.dict -> x.dict[k]
                    [] k \in DOMAIN x.dict /\ IsDict(x.dict[k]) /\ IsDict(dy.dict[k]) ->
                         Patched(x.dict[k], dx.dict[k], dy.dict[k])
                    [] OTHER -> dy.dict[k]
  IN  Dict([k \in keys |-> Entry(k)])
DiffReconstructs ==
  Happened("diff") => Patched(last.given[1], last.diff[1], last.diff[2]) = last.given[2]

\* Whatever the order of the keys, a setting of the configuration itself wins
\* over the one of an included file, and no setting of the file is lost.
IncludesAreDefaults ==
  (Happened("doIncludes") /\ "tree" \in DOMAIN last /\ "property" \notin DOMAIN last.given[1].dict) =>
    LET own == last.given[1].dict
        in == IF "include" \notin DOMAIN own THEN {}
              ELSE IF IsArr(own["include"]) THEN {f.atom : f \in ToSet(own["include"].list)}
              ELSE {own["include"].atom}
    IN  /\ IsDict(last.tree)
        /\ \A k \in DOMAIN own \ {"include"} :
             IsAtom(own[k]) => k \in DOMAIN last.tree.dict /\ last.tree.dict[k] = own[k]
        /\ \A f \in in : \A k \in DOMAIN Files[f].dict \ {"include"} :
             IsAtom(Files[f].dict[k]) /\ ~Comment(Files[f].dict[k]) /\ Files[f].dict[k] # Atom(None) => k \in DOMAIN last.tree.dict

\* A failed download leaves the remote name in the configuration, and every
\* value that is no remote file is left alone.
NothingElseReplaced ==
  Happened("doReplaceFiles") =>
    \A k \in DOMAIN last.tree.dict : IsAtom(last.tree.dict[k]) =>
      \/ last.tree.dict[k] = last.given[1].dict[k]
      \/ last.given[1].dict[k].atom \in Remote \cap last.downloaded /\ last.tree.dict[k] = Atom(Copy[last.given[1].dict[k].atom])
=============================================================================
