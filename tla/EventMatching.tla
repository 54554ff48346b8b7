---------------------------- MODULE EventMatching ----------------------------
(***************************************************************************)
(* eventmatching.py: the events of two or three trees are listed, sorted   *)
(* and compared, those in all of them and the others are copied to trees   *)
(* of their own, and the common trees are compared branch by branch.       *)
(*                                                                         *)
(* An event is a number for its run, lumisection and event number; an item *)
(* of a list is that number and the entries of the event in one or more    *)
(* trees.  Nicks differ from each other, and branches hold numbers.        *)
(***************************************************************************)
EXTENDS Integers, Sequences, FiniteSets, Functions, TLC

CONSTANTS Contents,    \* what a tree can hold, by the number of input files
          Events,
          EventNumber, \* the event number alone, which several events can share
          Branches,    \* names of the branches besides those of the event
          None

VARIABLES trees,      \* for each input file its events in the order of the entries
          branches,   \* and its branches; a tree that is missing has none
          options,
          lists,      \* the lists of items made so far, by their names
          scan,       \* the comparison of two lists at work, and where its loop is
          output,     \* name of an output tree -> the events copied to it
          whitelists, \* name of an output tree -> the event numbers in its JSON file
          report,     \* what each call of compareTrees has told
          pc

vars == <<trees, branches, options, lists, scan, output, whitelists, report, pc>>
input == <<trees, branches, options>>

\* sorted(getRunLumiEvent(tree)): by event, and by entry among equal events.
Item(event, entries) == [event |-> event, entries |-> entries]
Listed(tree, p) == [i \in DOMAIN tree |-> Item(tree[p[i]], <<p[i]>>)]
Less(x, y) == x.event < y.event \/ (x.event = y.event /\ x.entries[1] < y.entries[1])
getRunLumiEvent(tree) ==
  {l \in {Listed(tree, p) : p \in Surjection(DOMAIN tree, DOMAIN tree)} : \A i, j \in DOMAIN l : i < j => Less(l[i], l[j])}
\* The names that are tried for the branch of the event number.
Readable(tree, names) == tree # <<>> /\ "run" \in names /\ {"event", "evt", "eventnr"} \cap names # {}

\* The comparisons that can be made, by the names of the lists, and the last one that
\* is.  With three trees, what is common to two of them counts as only in one unless the
\* third has it.  Any other number: the first two are matched.
ListNames == {"l1", "l2", "l3", "com12", "com13", "com23", "com123", "o1", "o2", "o3", "ocom12", "tmp"}
Of(one, two, common, only1, only2) == [one |-> one, two |-> two, common |-> common, only1 |-> only1, only2 |-> only2]
Comparisons == <<Of("l1", "l2", "com12", "o1", "o2"), Of("com12", "l3", "com123", "ocom12", "o3"),
                 Of("l1", "l3", "com13", "tmp", "tmp"), Of("l2", "l3", "com23", "tmp", "tmp"),
                 Of("com13", "l2", "tmp", "tmp", "o2"), Of("com23", "l1", "tmp", "tmp", "o1")>>
Last == CASE Len(trees) # 3 -> 1
          [] Len(trees) = 3 /\ options.common -> 2
          [] OTHER -> 6
Start(k) == [k |-> k, n |-> 1, m |-> 1, common |-> <<>>, only1 |-> <<>>, only2 |-> <<>>]
One == lists[Comparisons[scan.k].one]
Other == lists[Comparisons[scan.k].two]
Joined(x, y) == Item(x.event, Append(x.entries, y.entries[1]))

\* The events of a tree at the entries that the items hold for it.
FirstIndex(items, tree, treeIndex) == [i \in DOMAIN items |-> IF items[i].entries[1] \in DOMAIN tree THEN tree[items[i].entries[1]] ELSE tree[1]]
cpTree(items, tree, treeIndex) == [i \in DOMAIN items |-> tree[items[i].entries[1 + treeIndex]]]
EventWhitelist(items) == [i \in DOMAIN items |-> EventNumber[items[i].event]]

\* The branches of both trees under the names of either, and the differences told.
Value(t, b) == IF b \in Branches /\ options.odd[b] = t THEN 1 ELSE 0
Translated(b, dictionary) == IF b \in DOMAIN dictionary THEN dictionary[b] ELSE b
Used(b1, b2, dictionary) == {b \in b1 : Translated(b, dictionary) \in b2}
Differs(i, j, b, dictionary) == Value(i, b) # Value(j, Translated(b, dictionary))
NotRemovable(b1, used, dictionary) ==
  \E b \in used : Translated(b, dictionary) \notin b1 \/ \E c \in used \ {b} : Translated(b, dictionary) = Translated(c, dictionary)
compareTrees(i, j, events, dictionary) ==
  LET b1 == branches[i]
      used == Used(b1, branches[j], dictionary)
      different == {b \in used : Differs(i, j, b, dictionary)}
  IN  [pair |-> <<i, j>>, dictionary |-> dictionary, used |-> used,
       raised |-> \/ NotRemovable(b1, used, dictionary)
                  \/ events = 0
                  \/ different # {} /\ options.ignore = None
                  \/ "eventnr" \in used /\ ~({"eventnr1", "eventnr2"} \subseteq b1),
       told |-> IF options.ignore = None THEN {} ELSE different \ options.ignore]

-----------------------------------------------------------------------------
Plain == [nicks |-> 4, common |-> FALSE, json |-> "none", verbose |-> FALSE, ignore |-> None, dictionary |-> <<>>, odd |-> [b \in Branches |-> 0]]
\* Trees of a skim hold an event once or, after a doubled job, twice.  What branches
\* there are matters to the arguments and the verbose comparison only, where few
\* events will do.
Quiet ==
  /\ \E n \in DOMAIN Contents : trees \in [1..n -> Contents[n]]
  /\ branches = [t \in DOMAIN trees |-> {"run", "event"}]
  /\ \E c \in BOOLEAN, j \in {"none", "dir", "missing"} : options = [Plain EXCEPT !.common = c, !.json = j]
Named ==
  /\ \E n \in DOMAIN Contents, one \in Contents[1] : trees = [t \in 1..n |-> one]
  /\ \E b \in SUBSET {"run", "event", "evt", "eventnr", "eventnr1", "eventnr2"} :
       branches = [t \in DOMAIN trees |-> IF t = 1 THEN b ELSE {"run", "eventnr"}]
  /\ \E n \in 2..4, v \in BOOLEAN : options = [Plain EXCEPT !.nicks = n, !.verbose = v, !.ignore = {}]
Verbose ==
  /\ \/ trees \in [1..2 -> {<<e>> : e \in Events}]
     \/ \E one \in Contents[1] : trees = [t \in 1..3 |-> one]
  /\ branches \in [DOMAIN trees -> {{"run", "event"} \cup b : b \in SUBSET Branches}]
  /\ \E i \in {None, {}, Branches}, b, c \in Branches, odd \in [Branches -> 0..Len(trees)] :
       options = [Plain EXCEPT !.verbose = TRUE, !.ignore = i, !.odd = odd, !.dictionary = IF b = c THEN <<>> ELSE b :> c]
Init ==
  /\ Quiet \/ Named \/ Verbose
  /\ lists = [l \in ListNames |-> <<>>] /\ scan = Start(1) /\ output = <<>> /\ whitelists = <<>> /\ report = <<>> /\ pc = "started"

Check ==
  /\ pc = "started"
  /\ pc' = IF Len(trees) < 2 \/ options.nicks < Len(trees) THEN "exit" ELSE "read"
  /\ UNCHANGED <<input, lists, scan, output, whitelists, report>>

\* An empty tree is an error: the name of the loop is used after it.
Read ==
  /\ pc = "read"
  /\ \/ /\ \E t \in DOMAIN trees : ~Readable(trees[t], branches[t])
        /\ pc' = "raised" /\ UNCHANGED lists
     \/ /\ \A t \in DOMAIN trees : Readable(trees[t], branches[t])
        /\ pc' = "comparing"
        /\ \E l1 \in getRunLumiEvent(trees[1]), l2 \in getRunLumiEvent(trees[2]) :
           \E l3 \in IF Len(trees) = 3 THEN getRunLumiEvent(trees[3]) ELSE {<<>>} :
             lists' = [lists EXCEPT !["l1"] = l1, !["l2"] = l2, !["l3"] = l3]
  /\ UNCHANGED <<input, scan, output, whitelists, report>>

\* compareLists: a turn of the loop until one of the lists has come to its end; what is
\* left of the other one is dropped.
InLoop == scan.n <= Len(One) /\ scan.m <= Len(Other)
Turn ==
  /\ pc = "comparing" /\ InLoop
  /\ LET x == One[scan.n]
         y == Other[scan.m]
     IN  \/ /\ x.event = y.event
            /\ scan' = [scan EXCEPT !.n = @ + 1, !.m = @ + 1, !.common = Append(@, Joined(x, y))]
         \/ x.event < y.event /\ scan' = [scan EXCEPT !.n = @ + 1, !.only1 = Append(@, x)]
         \/ x.event > y.event /\ scan' = [scan EXCEPT !.m = @ + 1, !.only2 = Append(@, y)]
  /\ UNCHANGED <<input, lists, output, whitelists, report, pc>>
Return ==
  /\ pc = "comparing" /\ ~InLoop
  /\ LET c == Comparisons[scan.k]
     IN  lists' = [lists EXCEPT ![c.common] = scan.common, ![c.only1] = scan.only1, ![c.only2] = scan.only2]
  /\ IF scan.k = Last THEN pc' = "listed" /\ UNCHANGED scan ELSE scan' = Start(scan.k + 1) /\ UNCHANGED pc
  /\ UNCHANGED <<input, output, whitelists, report>>

\* A missing directory for the JSON files ends it after the first tree.
Copied(t) == lists[IF t[1] = "only" THEN <<"o1", "o2", "o3">>[t[2]] ELSE IF Len(trees) = 3 THEN "com123" ELSE "com12"]
Outputs ==
  LET kinds == IF options.common THEN {"common"} ELSE {"common", "only"}
  IN  IF options.json = "missing" THEN {<<"common", 1>>} ELSE kinds \X (IF Len(trees) = 3 THEN 1..3 ELSE 1..2)
Copy ==
  /\ pc = "listed"
  /\ output' = [t \in Outputs |-> cpTree(Copied(t), trees[t[2]], IF t[1] = "common" THEN t[2] - 1 ELSE 0)]
  /\ whitelists' = [t \in IF options.json = "dir" THEN Outputs ELSE {} |-> EventWhitelist(Copied(t))]
  /\ pc' = CASE options.json = "missing" -> "raised" [] options.verbose -> "copied" [] OTHER -> "done"
  /\ UNCHANGED <<input, lists, scan, report>>

\* The names are translated for the first two trees only; an exception ends it.
Pairs == IF Len(trees) = 3 THEN <<<<1, 2>>, <<1, 3>>, <<2, 3>>>> ELSE <<<<1, 2>>>>
Compare ==
  /\ pc = "copied"
  /\ LET k == Len(report) + 1
     IN  /\ report' = Append(report, compareTrees(Pairs[k][1], Pairs[k][2], Len(output[<<"common", 1>>]),
                                                  IF k = 1 THEN options.dictionary ELSE <<>>))
         /\ pc' = IF report'[k].raised THEN "raised" ELSE IF k = Len(Pairs) THEN "done" ELSE pc
  /\ UNCHANGED <<input, lists, scan, output, whitelists>>

Next == Check \/ Read \/ Turn \/ Return \/ Copy \/ Compare
Spec == Init /\ [][Next]_vars

-----------------------------------------------------------------------------
Count(s, e) == Cardinality({i \in DOMAIN s : s[i] = e})
Matched == IF Len(trees) = 3 THEN 1..3 ELSE 1..2
\* Entry by entry the common trees hold the same event, each event as often as the
\* tree that has it least often.
CommonTreesAgree ==
  \A t \in DOMAIN output : t[1] = "common" =>
    /\ output[t] = output[<<"common", 1>>]
    /\ \A e \in Events :
         /\ \A u \in Matched : Count(output[t], e) <= Count(trees[u], e)
         /\ \E u \in Matched : Count(output[t], e) = Count(trees[u], e)

\* An event is in the tree for those of one input only if another tree does not hold it
\* as often, and no oftener than this one holds it more often.
OnlyIsNotCommon ==
  \A t \in DOMAIN output : t[1] = "only" =>
    \A e \in Events : \E u \in Matched : Count(output[t], e) + Count(trees[u], e) <= Count(trees[t[2]], e)

\* The whitelist of an output tree names the event of each of its entries, although the
\* numbers come from the list and the entries from the index in the tree.
WhitelistsFit ==
  \A t \in DOMAIN whitelists : whitelists[t] = [i \in DOMAIN output[t] |-> EventNumber[output[t][i]]]

\* A branch that both trees have, under its own name or the one given for it, is
\* compared, and a difference is told unless it is to be ignored.
DifferencesTold ==
  \A k \in DOMAIN report : ~report[k].raised =>
    LET r == report[k]
        i == r.pair[1]
        j == r.pair[2]
    IN  \A b \in branches[i] :
          LET other == IF k = 1 /\ b \in DOMAIN options.dictionary THEN options.dictionary[b] ELSE b
          IN  /\ b \in r.used <=> other \in branches[j]
              /\ b \in r.told <=> other \in branches[j] /\ Value(i, b) # Value(j, other) /\ b \notin options.ignore
=============================================================================
