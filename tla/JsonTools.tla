------------------------------ MODULE JsonTools ------------------------------
(***************************************************************************)
(* JsonDict (Utility/python/jsonTools.py): merging, expanding, comparing   *)
(* and resolving JSON configurations.  Dictionaries and lists are objects  *)
(* of a heap, for a merge works in place on the ones it shares with its    *)
(* arguments; a tree is the JSON text of an object.  The order in which a  *)
(* dictionary is walked is arbitrary: it is chosen once.                   *)
(***************************************************************************)
EXTENDS Integers, Sequences, SequencesExt, FiniteSetsExt, Functions, TLC

CONSTANTS None,       \* Python's None
          Comments,   \* keys and values that start with COMMENT_DELIMITER
          Files,      \* the trees in the JSON files, by name
          Patterns,   \* the nicknames that a regular expression is found in
          Remote,     \* values that name a remote file
          Copy        \* the local copy that each of them is downloaded to

\* Trees: an atom, a list of trees, or a dictionary of trees.
Atom(a) == [atom |-> a]
Arr(s) == [list |-> s]
Dict(f) == [dict |-> f @@ <<>>]   \* f: with @@, TLC evaluates it at once
IsAtom(t) == "atom" \in DOMAIN t
IsArr(t) == "list" \in DOMAIN t
IsDict(t) == "dict" \in DOMAIN t
Comment(t) == IsAtom(t) /\ t.atom \in Comments
EmptyDict == Dict([k \in {} |-> None])
Walk(order, f) == SelectSeq(order, LAMBDA k : k \in DOMAIN f)

-----------------------------------------------------------------------------
\* The heap: what an address holds, with [ref |-> address] for a nested object.
New(h) == Cardinality(DOMAIN h) + 1
At(h, v) == IF "ref" \in DOMAIN v THEN h[v.ref] ELSE v
Alloc(h, node) == [h |-> h @@ (New(h) :> node), v |-> [ref |-> New(h)]]

RECURSIVE Tree(_, _), Load(_, _)
Tree(h, v) ==
  LET n == At(h, v)
  IN  CASE IsAtom(n) -> n
        [] IsArr(n) -> Arr([i \in DOMAIN n.list |-> Tree(h, n.list[i])])
        [] OTHER -> Dict([k \in DOMAIN n.dict |-> Tree(h, n.dict[k])])
Load(h, t) ==
  LET Item(r, x) == LET l == Load(r.h, x) IN [h |-> l.h, v |-> Append(r.v, l.v)]
      Entry(k, r) == LET l == Load(r.h, t.dict[k]) IN [h |-> l.h, v |-> (k :> l.v) @@ r.v]
      items == FoldLeft(Item, [h |-> h, v |-> <<>>], t.list)
      entries == FoldSet(Entry, [h |-> h, v |-> <<>>], DOMAIN t.dict)
  IN  CASE IsAtom(t) -> [h |-> h, v |-> t]
        [] IsArr(t) -> Alloc(items.h, Arr(items.v))
        [] OTHER -> Alloc(entries.h, Dict(entries.v))

-----------------------------------------------------------------------------
\* deepuncomment, in place: the values and list entries that are comments go;
\* the keys that are comments stay, with what is below them.
RECURSIVE deepuncomment(_, _)
UncommentList(h, a) == [h EXCEPT ![a] = Arr(SelectSeq(h[a].list, LAMBDA x : ~Comment(x)))]
deepuncomment(h, a) ==
  LET Entry(k, g) ==
        LET v == g[a].dict[k]
            n == At(g, v)
        IN  IF k \in Comments THEN g
            ELSE CASE IsDict(n) -> deepuncomment(g, v.ref)
                   [] IsAtom(n) /\ Comment(n) -> [g EXCEPT ![a] = Dict(RestrictDomain(g[a].dict, LAMBDA x : x # k))]
                   [] IsArr(n) -> UncommentList(g, v.ref)
                   [] OTHER -> g
  IN  FoldSet(Entry, h, DOMAIN h[a].dict)

\* The constructor: a shallow copy of a dictionary, without comments.
JsonDict(h, a) ==
  LET new == Alloc(h, h[a]) IN [h |-> deepuncomment(new.h, new.v.ref), v |-> new.v]

\* A setting: it is kept if it is there.
SetIfAbsent(h, a, k, v) == IF k \in DOMAIN h[a].dict THEN h ELSE [h EXCEPT ![a] = Dict((k :> v) @@ @.dict)]

\* deepmerge, into the object hi; an exception if a nested object meets a value
\* of another kind, unless that is a list or string in which every key is found
\* ("key not in": of the parts of a string, only the whole one is modelled).
Holds(a, k) == a = Atom(k) \/ (IsArr(a) /\ Atom(k) \in ToSet(a.list))
HoldsKeys(a, f) == \A k \in DOMAIN f : IsAtom(f[k]) /\ Holds(a, k)
RECURSIVE deepmerge(_, _, _)
deepmerge(r, hi, lo) ==
  LET Entry(k, q) ==
        LET g == q.h
            v == g[lo].dict[k]
            n == At(g, v)
            has == k \in DOMAIN g[hi].dict
            old == At(g, g[hi].dict[k])
            Set(x, val) == [x EXCEPT ![hi] = Dict((k :> val) @@ x[hi].dict)]
            new == Alloc(g, EmptyDict)
        IN  IF q.raised THEN q
            ELSE CASE IsDict(n) /\ ~has -> deepmerge([q EXCEPT !.h = Set(new.h, new.v)], new.v.ref, v.ref)
              [] IsDict(n) /\ has /\ old = Atom(None) ->
                   [q EXCEPT !.h[hi] = Dict(RestrictDomain(g[hi].dict, LAMBDA x : x # k))]
              [] IsDict(n) /\ has /\ IsDict(old) -> deepmerge(q, g[hi].dict[k].ref, v.ref)
              [] IsArr(n) /\ ~has -> LET l == Alloc(g, n) IN [q EXCEPT !.h = Set(l.h, l.v)]
              [] IsArr(n) /\ has /\ IsArr(old) ->
                   [q EXCEPT !.h[g[hi].dict[k].ref] = Arr(old.list \o n.list)]
              [] IsAtom(n) -> [q EXCEPT !.h = SetIfAbsent(g, hi, k, v)]
              [] IsDict(n) /\ HoldsKeys(old, n.dict) -> q
              [] OTHER -> [q EXCEPT !.raised = TRUE]
  IN  FoldSet(Entry, r, DOMAIN r.h[lo].dict)

\* __add__, merge, mergeAll: of addresses.
Plus(r, a, b) ==
  LET copy == JsonDict(r.h, a)
      m == deepmerge([h |-> copy.h, raised |-> r.raised], copy.v.ref, b)
  IN  [h |-> m.h, raised |-> m.raised, v |-> copy.v]
\* JsonDict(a) + JsonDict(b)
PlusCopies(r, a, b) ==
  LET x == JsonDict(r.h, a)
      y == JsonDict(x.h, b)
  IN  Plus([h |-> y.h, raised |-> r.raised], x.v.ref, y.v.ref)
mergeAll(r, as) ==
  LET first == JsonDict(r.h, as[1])
  IN  IF Len(as) = 1 THEN [h |-> first.h, raised |-> FALSE, v |-> first.v]
      ELSE FoldLeft(LAMBDA q, b : PlusCopies(q, q.v.ref, b),
                    [h |-> r.h, raised |-> r.raised, v |-> [ref |-> as[1]]], Tail(as))

\* __mul__, expand, expandAll: every combination of the second-layer dictionaries.
Times(r, a, b, order) ==
  LET result == Alloc(r.h, EmptyDict)
      Inner(k1, q, k2) ==
        LET s == PlusCopies(q, q.h[a].dict[k1].ref, q.h[b].dict[k2].ref)
        IN  [s EXCEPT !.h[result.v.ref] = Dict((k1 \o "_" \o k2 :> s.v) @@ s.h[result.v.ref].dict)]
      Outer(q, k1) == FoldLeft(LAMBDA p, k2 : Inner(k1, p, k2), q, Walk(order, r.h[b].dict))
      all == FoldLeft(Outer, [h |-> result.h, raised |-> r.raised, v |-> result.v], Walk(order, r.h[a].dict))
  IN  [all EXCEPT !.v = result.v]
expandAll(r, as, order) ==
  LET first == JsonDict(r.h, as[1])
      Step(q, b) ==
        LET x == JsonDict(q.h, q.v.ref)
            y == JsonDict(x.h, b)
        IN  Times([q EXCEPT !.h = y.h], x.v.ref, y.v.ref, order)
  IN  IF Len(as) = 1 THEN [h |-> first.h, raised |-> FALSE, v |-> first.v]
      ELSE FoldLeft(Step, [h |-> r.h, raised |-> r.raised, v |-> [ref |-> as[1]]], Tail(as))

-----------------------------------------------------------------------------
\* What follows builds new objects only: on trees.  Lists are walked too where
\* the code does, except by deepresolvenicks.
RECURSIVE Uncommented(_)
Uncommented(t) ==
  LET kept == {k \in DOMAIN t.dict : k \in Comments \/ ~Comment(t.dict[k])}
      Entry(k) == CASE k \in Comments -> t.dict[k]
                    [] IsArr(t.dict[k]) -> Arr(SelectSeq(t.dict[k].list, LAMBDA x : ~Comment(x)))
                    [] OTHER -> Uncommented(t.dict[k])
  IN  IF IsDict(t) THEN Dict([k \in kept |-> Entry(k)]) ELSE t
\* The merge of two dictionaries that deepmerge describes.
RECURSIVE MergeTrees(_, _)
MergeTrees(x, y) ==
  LET Entry(k) == CASE k \notin DOMAIN x.dict -> y.dict[k]
                    [] k \notin DOMAIN y.dict -> x.dict[k]
                    [] IsDict(x.dict[k]) /\ IsDict(y.dict[k]) -> MergeTrees(x.dict[k], y.dict[k])
                    [] IsArr(x.dict[k]) /\ IsArr(y.dict[k]) -> Arr(x.dict[k].list \o y.dict[k].list)
                    [] OTHER -> x.dict[k]
      popped == {k \in DOMAIN x.dict \cap DOMAIN y.dict : x.dict[k] = Atom(None) /\ IsDict(y.dict[k])}
  IN  Dict([k \in (DOMAIN x.dict \cup DOMAIN y.dict) \ popped |-> Entry(k)])

\* Values that deepmerge cannot merge, and raises for.
RECURSIVE Clashing(_, _)
Clashing(x, y) ==
  \E k \in DOMAIN x.dict \cap DOMAIN y.dict :
    LET a == x.dict[k]
        b == y.dict[k]
    IN  \/ IsDict(b) /\ IsDict(a) /\ Clashing(a, b)
        \/ IsDict(b) /\ ~IsDict(a) /\ a # Atom(None) /\ ~HoldsKeys(a, b.dict)
        \/ IsArr(b) /\ ~IsArr(a)

\* deepdiff: the differing entries of either side.
RECURSIVE deepdiff(_, _)
NestedTwice(x, y) ==
  LET both == {k \in DOMAIN x.dict \cap DOMAIN y.dict : x.dict[k] # y.dict[k]}
      Nested(k) == IsDict(x.dict[k]) /\ IsDict(y.dict[k])
      Side(own) == Dict([k \in both \cup (DOMAIN own.dict \ (DOMAIN x.dict \cap DOMAIN y.dict)) |->
                          IF k \in both /\ Nested(k) THEN deepdiff(x.dict[k], y.dict[k])[1] ELSE own.dict[k]])
  IN  <<Side(x), Side(y)>>
deepdiff(x, y) ==
  LET both == {k \in DOMAIN x.dict \cap DOMAIN y.dict : x.dict[k] # y.dict[k]}
      Nested(k) == IsDict(x.dict[k]) /\ IsDict(y.dict[k])
      Side(own, i) == Dict([k \in both \cup (DOMAIN own.dict \ (DOMAIN x.dict \cap DOMAIN y.dict)) |->
                             IF k \in both /\ Nested(k) THEN deepdiff(x.dict[k], y.dict[k])[i] ELSE own.dict[k]])
  IN  <<Side(x, 1), Side(y, 2)>>

readJsonDict(f) == Uncommented(Files[f])

\* The constructor, of what is no configuration yet: the items of a list are
\* merged, a string names a file (text that is JSON itself is not modelled).
\* Raised: an exception or sys.exit.
Raised == [raised |-> TRUE]
IsRaised(t) == "raised" \in DOMAIN t
MergedItems(x, y) == IF IsRaised(x) \/ IsRaised(y) THEN Raised ELSE IF Clashing(x, y) THEN Raised ELSE MergeTrees(x, y)
RECURSIVE Constructed(_)
Constructed(t) ==
  LET items == [i \in DOMAIN t.list |-> Constructed(t.list[i])]
  IN  CASE IsDict(t) -> Uncommented(t)
        [] IsArr(t) /\ t.list # <<>> -> FoldLeft(MergedItems, items[1], Tail(items))
        [] IsAtom(t) /\ t.atom \in DOMAIN Files -> readJsonDict(t.atom)
        [] OTHER -> Raised

\* deepinclude: the files that "include" lists, merged into what was walked
\* before it; "property" makes the result its value.
KeyList(t, order) == [i \in DOMAIN Walk(order, t.dict) |-> Atom(Walk(order, t.dict)[i])]
IncludeInto(q, tmp, order) ==
  CASE IsRaised(q) \/ IsRaised(tmp) -> Raised
    [] IsDict(tmp) /\ IsDict(q) -> IF Clashing(q, tmp) THEN Raised ELSE MergeTrees(q, tmp)
    [] IsDict(tmp) /\ IsArr(q) -> Arr(q.list \o KeyList(tmp, order))
    [] IsArr(tmp) /\ q = EmptyDict -> tmp
    [] IsArr(tmp) /\ IsArr(q) -> Arr(q.list \o tmp.list)
    [] IsAtom(tmp) -> tmp
    [] OTHER -> Raised
RECURSIVE deepinclude(_, _)
deepinclude(t, order) ==
  LET Included(q, v) ==
        FoldLeft(LAMBDA p, f : IncludeInto(p, deepinclude(Constructed(f), order), order),
                 q, CASE IsArr(v) -> v.list [] IsDict(v) -> KeyList(v, order) [] OTHER -> <<v>>)
      Entry(q, k) ==
        CASE IsRaised(q) -> q
          [] k = "include" -> Included(q, t.dict[k])
          [] k = "property" -> deepinclude(t.dict[k], order)
          [] OTHER -> LET v == deepinclude(t.dict[k], order)
                      IN  IF IsDict(q) /\ ~IsRaised(v) THEN Dict((k :> v) @@ q.dict) ELSE Raised
      Element(q, x) ==
        LET v == deepinclude(x, order)
        IN  CASE IsRaised(q) \/ IsRaised(v) -> Raised
              [] IsArr(v) -> Arr(q.list \o v.list)
              [] IsDict(v) -> Arr(q.list \o KeyList(v, order))
              [] OTHER -> Arr(Append(q.list, v))
  IN  CASE IsDict(t) -> FoldLeft(Entry, EmptyDict, Walk(order, t.dict))
        [] IsArr(t) -> FoldLeft(Element, Arr(<<>>), t.list)
        [] OTHER -> t

\* deepresolvenicks: a dictionary with a "nick" dictionary becomes the value of
\* the first expression found in this nick, or the one for "default", or goes.
matchingItem(f, nick, order) == SelectSeq(Walk(order, f), LAMBDA k : k \in DOMAIN Patterns /\ nick \in Patterns[k])
RECURSIVE deepresolvenicks(_, _, _)
deepresolvenicks(t, nick, order) ==
  LET Nicks(k) == IsDict(t.dict[k]) /\ "nick" \in DOMAIN t.dict[k].dict /\ IsDict(t.dict[k].dict["nick"])
      Chosen(k) == LET d == t.dict[k].dict["nick"].dict
                       found == matchingItem(d, nick, order)
                   IN  CASE found # <<>> -> d[found[1]]
                         [] "default" \in DOMAIN d -> d["default"]
                         [] OTHER -> Atom(None)
      kept == {k \in DOMAIN t.dict : Nicks(k) => Chosen(k) # Atom(None)}
  IN  IF ~IsDict(t) THEN t
      ELSE Dict([k \in kept |-> deepresolvenicks(IF Nicks(k) THEN Chosen(k) ELSE t.dict[k], nick, order)])

\* deepreplaceremotefiles: remote files become their local copies; a download
\* that fails keeps the remote name, for the exit is caught.
RECURSIVE deepreplaceremotefiles(_, _)
deepreplaceremotefiles(t, downloaded) ==
  CASE IsDict(t) -> Dict([k \in DOMAIN t.dict |-> deepreplaceremotefiles(t.dict[k], downloaded)])
    [] IsArr(t) -> Arr([i \in DOMAIN t.list |-> deepreplaceremotefiles(t.list[i], downloaded)])
    [] OTHER -> IF t.atom \in Remote \cap downloaded THEN Atom(Copy[t.atom]) ELSE t
=============================================================================
