------------------------------ MODULE TreeTools ------------------------------
(***************************************************************************)
(* TreeExtender, TreeMerger and the files they read and write              *)
(* (Utility/python/treeTools.py): an extender and mergers of one program,  *)
(* whose calls come in any order.  The body of a loop over the extender    *)
(* sets any of the new branches, calls whatever it likes, or stops.        *)
(*                                                                         *)
(* A file is a sequence of trees; a tree has the entries of its sources    *)
(* and, for each branch added to it, a column of values (which are not     *)
(* followed into merged trees).  ROOT is external: a file that is created  *)
(* anew is another file, whoever has the old one open keeps that one, and  *)
(* opening or closing a file takes the current directory along.            *)
(***************************************************************************)
EXTENDS Integers, SequencesExt, FiniteSets, Functions, TLC

CONSTANTS Files,      \* paths of files
          Existing,   \* the branches that every source has
          Programs    \* what a program may use, records of:
                      \* trees: their names; tuple: are they TNtuples?; extending: is there an
                      \* extender?; branches, leaves: names and numbers of leaves of the new
                      \* branches; writeEvery: of the extender; mergers: their names; rounds:
                      \* a bound on the calls of addBranch and of addTree

VARIABLES program,   \* the one this behaviour is about
          disk,      \* file -> its trees, NoFile if there is none
          extender,
          merger,
          asked        \* history: for each new branch the values the loop has asked for

vars == <<program, disk, extender, merger, asked>>

NoFile == <<>>      \* no file has no tree
Default == "default"      \* DEFAULT_VALUE
Tree(name, entries) == [name |-> name, entries |-> entries, columns |-> <<>>]
Closed == [state |-> "none"]
Refused == [state |-> "raised"]
Exists(f) == disk[f] # NoFile

\* getTree: the named tree of a file, or the first one.
Found(f, name) == {i \in DOMAIN disk[f] : name \in {disk[f][i].name, "first"}}
NoTree(f, name) == ~Exists(f) \/ Found(f, name) = {}
getTree(f, name) == disk[f][CHOOSE i \in Found(f, name) : \A j \in Found(f, name) : i <= j]

Init ==
  /\ program \in Programs
  /\ disk \in [Files -> {NoFile, <<Tree("u", <<"e5">>), Tree("t", <<"e6", "e7">>)>>}
                            \cup {<<Tree(n, e)>> : n \in program.trees, e \in {<<"e1">>, <<"e2", "e3", "e4">>}}]
  /\ extender = Closed
  /\ merger = [m \in program.mergers |-> Closed]
  /\ asked = <<>>

-----------------------------------------------------------------------------
\* An extender works on the tree itself or on a copy.  "attached": what it writes is in
\* the file of that path; "current": its file is the current directory of ROOT.
Extender(f, tree, attached) == [state |-> "open", file |-> f, tree |-> tree, attached |-> attached, current |-> TRUE,
                                branchData |-> <<>>, unpack |-> {}, at |-> 0, columns |-> <<>>, buffer |-> <<>>]
Extend(f, name) ==
  /\ extender.state = "none" /\ program.extending
  /\ extender' = IF NoTree(f, name) THEN Refused ELSE Extender(f, getTree(f, name), TRUE)
  /\ UNCHANGED <<program, disk, merger, asked>>
\* copyTree and then the constructor's getTree on the copy.  A copy into the file of the
\* source finds the source still among the open files, for reading.
MayWrite(f, force) == ~Exists(f) \/ force
Copy(f, name, newName) == [getTree(f, name) EXCEPT !.name = IF newName = "first" THEN @ ELSE newName]
ExtendCopy(f, name, target, newName, force) ==
  /\ extender.state = "none" /\ program.extending
  /\ IF NoTree(f, name) \/ ~MayWrite(target, force)
     THEN extender' = Refused /\ UNCHANGED disk
     ELSE \E tree \in {Copy(f, name, newName)} :
            /\ disk' = [disk EXCEPT ![target] = <<tree>>]
            /\ extender' = IF target # f THEN Extender(target, tree, TRUE)
                           ELSE IF NoTree(f, tree.name) THEN Refused ELSE Extender(f, getTree(f, tree.name), FALSE)
  /\ UNCHANGED <<program, merger, asked>>

\* The branches of a tuple have one leaf each.  A name may be given twice, and a branch
\* at any time: those that come after the iteration has begun are never made.
Opened == extender.state \notin {"none", "raised"}
NLeaves(nLeaves) == IF program.tuple THEN 1 ELSE nLeaves
addBranch(b, nLeaves, unpackBranches) ==
  /\ Opened /\ Len(extender.branchData) < program.rounds
  /\ extender' = [extender EXCEPT !.branchData = Append(@, [name |-> b, leaves |-> NLeaves(nLeaves)]),
                                  !.unpack = @ \cup unpackBranches \cup {b}]
  /\ UNCHANGED <<program, disk, merger, asked>>

\* The iterator makes the new branches and looks for the ones to unpack; a branch that
\* is not there raises.  A second iteration is over at once, whatever the first did.
Names(columns) == {c.name : c \in Range(columns)}
Iterate ==
  /\ extender.state = "open"
  /\ \E columns \in {[i \in DOMAIN extender.branchData |-> [name |-> extender.branchData[i].name, values |-> <<>>]]} :
       /\ extender' = [extender EXCEPT !.columns = columns,
                                       !.state = IF extender.unpack \subseteq Existing \cup Names(columns) THEN "next" ELSE "failed"]
       /\ asked' = [b \in Names(columns) |-> <<>>]
  /\ UNCHANGED <<program, disk, merger>>
IterateAgain == extender.state \in {"failed", "left", "done"} /\ UNCHANGED vars

\* A turn of the loop: the defaults, the body, which sets some branches, and Fill.  Of
\* two branches with one name the body sets the last one.  All branches are made for one
\* float: of an array, the first leaf is filled.
New == Names(extender.columns)
Array(columns, b) == CHOOSE i \in DOMAIN columns : columns[i].name = b /\ \A j \in DOMAIN columns : columns[j].name = b => j <= i
Value(i, v) == [l \in 1..extender.branchData[i].leaves |-> v]
Kept(i) == IF extender.at = 0 THEN Value(i, Default) ELSE extender.buffer[i]
AtDefault(i) == Value(i, Default)
Set(b) == Value(Array(extender.columns, b), extender.tree.entries[extender.at + 1])
Body(set) == [i \in DOMAIN extender.columns |->
                LET b == extender.columns[i].name IN IF b \in set /\ i = Array(extender.columns, b) THEN Set(b) ELSE AtDefault(i)]
FilledLeaf(v) == SubSeq(v, 1, 1)
Fill(buffer) == [i \in DOMAIN extender.columns |-> [extender.columns[i] EXCEPT !.values = Append(@, FilledLeaf(buffer[i]))]]

Entries == Len(extender.tree.entries)
Due(i) == program.writeEvery > 0 /\ i % program.writeEvery = 0
Replaced(trees, tree) == [i \in DOMAIN trees |-> IF trees[i].name = tree.name THEN tree ELSE trees[i]]
Write(columns) == disk' = IF extender.attached
                          THEN [disk EXCEPT ![extender.file] = Replaced(@, [extender.tree EXCEPT !.columns = columns])] ELSE disk
Turn(set) ==
  /\ extender.state = "next" /\ extender.at < Entries
  /\ \E buffer \in {Body(set)} : \E columns \in {Fill(buffer)} :
         /\ extender' = [extender EXCEPT !.at = @ + 1, !.columns = columns, !.buffer = buffer]
         /\ IF Due(extender.at + 1) /\ extender.current THEN Write(columns) ELSE UNCHANGED disk
  /\ asked' = [b \in New |-> Append(asked[b], IF b \in set THEN Set(b) ELSE Value(Array(extender.columns, b), Default))]
  /\ UNCHANGED <<program, merger>>
\* Leaving the loop early ends the generator where it is.
Leave ==
  /\ extender.state = "next" /\ extender.at < Entries
  /\ extender' = [extender EXCEPT !.state = "left"]
  /\ UNCHANGED <<program, disk, merger, asked>>
LastWrite ==
  /\ extender.state = "next" /\ extender.at = Entries
  /\ Write(extender.columns)
  /\ extender' = [extender EXCEPT !.state = "done", !.current = TRUE]
  /\ UNCHANGED <<program, merger, asked>>

-----------------------------------------------------------------------------
\* A merger asks whether it may write when it is made, and writes when it merges.
NewMerger(m, f, name, force) ==
  /\ merger[m].state = "none"
  /\ merger' = [merger EXCEPT ![m] = IF MayWrite(f, force) THEN [state |-> "open", file |-> f, name |-> name, paths |-> <<>>] ELSE Refused]
  /\ UNCHANGED <<program, disk, extender, asked>>
addTree(m, f, name) ==
  /\ merger[m].state = "open" /\ Len(merger[m].paths) < program.rounds
  /\ merger' = [merger EXCEPT ![m].paths = Append(@, [file |-> f, name |-> name])]
  /\ UNCHANGED <<program, disk, extender, asked>>

Sources(m) == [i \in DOMAIN merger[m].paths |-> getTree(merger[m].paths[i].file, merger[m].paths[i].name)]
Incomplete(m) == \E p \in Range(merger[m].paths) : NoTree(p.file, p.name)
MergeTrees(sources) == FlattenSeq([i \in DOMAIN sources |-> sources[i].entries])
Merged(m) == Tree(IF merger[m].name = "first" THEN Sources(m)[1].name ELSE merger[m].name, MergeTrees(Sources(m)))
\* What an extender that is open loses when the file f is recreated, or others are opened.
Detached(f) == IF Opened THEN [extender EXCEPT !.attached = @ /\ extender.file # f, !.current = FALSE] ELSE extender
Elsewhere == IF Opened THEN [extender EXCEPT !.current = FALSE] ELSE extender
\* merge, called by the user or at the end of a with statement: only the first call
\* does something, be it to fail, and without trees not even that.
merge(m) ==
  /\ merger[m].state = "open"
  /\ \/ merger[m].paths = <<>> /\ merger' = [merger EXCEPT ![m].state = "merged"] /\ UNCHANGED <<disk, extender>>
     \/ /\ Incomplete(m)
        /\ merger' = [merger EXCEPT ![m].state = "failed"]
        /\ extender' = IF Exists(merger[m].paths[1].file) THEN Elsewhere ELSE extender
        /\ UNCHANGED disk
     \/ /\ merger[m].paths # <<>> /\ ~Incomplete(m)
        /\ disk' = [disk EXCEPT ![merger[m].file] = <<Merged(m)>>]
        /\ merger' = [merger EXCEPT ![m].state = "merged"]
        /\ extender' = Detached(merger[m].file)
  /\ UNCHANGED <<program, asked>>
Again(m) == merger[m].state \in {"merged", "failed"} /\ UNCHANGED vars

Named == program.trees \cup {"first"}
Next ==
  \/ \E f \in Files, n \in Named : Extend(f, n) \/ \E t \in Files, n2 \in Named, o \in BOOLEAN : ExtendCopy(f, n, t, n2, o)
  \/ \E b \in program.branches, l \in program.leaves, u \in {{}, Existing, {"unknown"}} : addBranch(b, l, u)
  \/ Iterate \/ IterateAgain \/ Leave \/ LastWrite
  \/ \E set \in SUBSET program.branches : extender.state = "next" /\ set \subseteq New /\ Turn(set)
  \/ \E m \in program.mergers, f \in Files, n \in Named : addTree(m, f, n) \/ \E o \in BOOLEAN : NewMerger(m, f, n, o)
  \/ \E m \in program.mergers : merge(m) \/ Again(m)
Spec == Init /\ [][Next]_vars

-----------------------------------------------------------------------------
OnDisk == disk[extender.file][CHOOSE i \in DOMAIN disk[extender.file] : disk[extender.file][i].name = extender.tree.name].columns
Written(i, n) == IF i = Array(extender.columns, OnDisk[i].name) THEN [k \in 1..n |-> SubSeq(asked[OnDisk[i].name][k], 1, 1)]
                                              ELSE [k \in 1..n |-> <<Default>>]
\* The tree on disk has all the new branches, each with the values of the first n entries.
CutAt(n) == /\ [i \in DOMAIN OnDisk |-> OnDisk[i].name] = [i \in DOMAIN extender.columns |-> extender.columns[i].name]
            /\ \A i \in DOMAIN OnDisk : OnDisk[i].values = Written(i, n)

\* After a loop that ran to its end, and unless its file was replaced meanwhile, every
\* new branch on disk has one value per entry: what the body set it to for that entry,
\* or the default, never a value of the entry before.
ColumnsAsAsked == extender.state = "done" /\ extender.attached => CutAt(Entries)

\* In the middle of a loop, or after one that was left, the tree on disk has all the new
\* branches cut at one entry that was due for a Write, or none of them; it is the last one
\* that was due, unless another file was opened or closed.
CutAtLastWrite ==
  extender.state \in {"next", "left"} /\ extender.attached =>
    \/ OnDisk = <<>> /\ (extender.current /\ program.writeEvery > 0 /\ New # {} => extender.at < program.writeEvery)
    \/ \E n \in 1..extender.at : CutAt(n) /\ Due(n) /\ (extender.current => n + program.writeEvery > extender.at)

\* Every entry of the trees given to a merger is in the target, in the order given, as
\* often as its tree was added, under the name asked for or that of the first tree, even
\* if the target was one of them; and the target holds nothing else.
TreesMerged ==
  \A m \in program.mergers :
       LET p == merger[m].paths
           given(i) == LET t == disk[p[i].file] IN IF p[i].name = "first" THEN t[1] ELSE t[CHOOSE j \in DOMAIN t : t[j].name = p[i].name]
           target == disk'[merger[m].file]
       IN  merger[m].state = "open" /\ merger'[m].state = "merged" /\ p # <<>> =>
             /\ Len(target) = 1
             /\ target[1].name = IF merger[m].name = "first" THEN given(1).name ELSE merger[m].name
             /\ target[1].entries = FlattenSeq([i \in DOMAIN p |-> given(i).entries])
=============================================================================
