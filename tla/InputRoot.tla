------------------------------ MODULE InputRoot ------------------------------
(***************************************************************************)
(* The inputs of HarryPlotter from ROOT files: the options of inputbase.py *)
(* and input_modules/inputfile.py and inputroot.py, and the trees and      *)
(* histograms that RootTools reads (utility/roottools.py).                 *)
(*                                                                         *)
(* An object is known by its kind, its axes and its fills: how often, and  *)
(* scaled by what, the entries of a source are in it.  A source is a tree  *)
(* with expressions and a weight, or a histogram of a file.  Two axes      *)
(* stand for up to three.  Friend trees, compiled proxies and read_config   *)
(* are left out.                                                           *)
(***************************************************************************)
EXTENDS Integers, Sequences, FiniteSets, FiniteSetsExt, SequencesExt, TLC

CONSTANTS None,
          Inputs,       \* the options that a plot may have
          Globbed,      \* the existing files for <<directory, word>>
          Type,         \* what <<file, folder>> is: "TTree", "TDirectory", "other" or "none"
          Stored        \* the histograms and graphs of the files, by <<file, folder, name>>

-----------------------------------------------------------------------------
(* Options: lists that are repeated up to the longest one, first for the   *)
(* input in general, then for files, then for ROOT files.                  *)
BaseKeys == {"nicks", "x", "y", "xb", "yb", "scale"}
FileKeys == BaseKeys \cup {"files", "dirs"}
RootKeys == FileKeys \cup {"folders", "weights", "draw"}
Longest(o, keys) == Max({Len(o[k]) : k \in keys})
Repeated(list, len) == [i \in 1..len |-> list[((i - 1) % Len(list)) + 1]]
prepare_list_args(o, keys) == [k \in DOMAIN o |-> IF k \in keys THEN Repeated(o[k], Longest(o, keys)) ELSE o[k]]

\* Words of a file argument are looked for in all directories; a remote file is taken as it is.
Directories(dirs) == IF dirs = None THEN <<None>> ELSE dirs
found(arg, dirs) ==
  IF arg.remote THEN arg.words
  ELSE FlattenSeq([w \in DOMAIN arg.words |-> FlattenSeq([d \in DOMAIN Directories(dirs) |-> Globbed[<<Directories(dirs)[d], arg.words[w]>>]])])

with_scales(o) == [o EXCEPT !.scale = [i \in DOMAIN @ |-> IF @[i] = None THEN 1 ELSE @[i]]]
with_files(o) == [o EXCEPT !.files = [i \in DOMAIN @ |-> found(@[i], o.dirs[i])]]
with_nicks(o) == [o EXCEPT !.nicks = [i \in DOMAIN @ |-> IF @[i] = None THEN "nick" \o ToString(i - 1) ELSE @[i]],
                           !.folders = [i \in DOMAIN @ |-> IF @[i] = None THEN <<"">> ELSE @[i]]]
of_base(o) == with_scales(prepare_list_args(o, BaseKeys))
of_files(o) == with_files(prepare_list_args(of_base(o), FileKeys))
prepared(o) == with_nicks(prepare_list_args(of_files(o), RootKeys))

-----------------------------------------------------------------------------
(* Fills and axes.                                                         *)
Nothing == [s \in {} |-> 0]
Fill(f, s) == IF s \in DOMAIN f THEN f[s] ELSE 0
Plus(f, g) == [s \in DOMAIN f \cup DOMAIN g |-> Fill(f, s) + Fill(g, s)]
Times(f, k) == [s \in DOMAIN f |-> k * f[s]]

Uniform(k, low, high) == [kind |-> "uniform", n |-> k, low |-> low, high |-> high]
Custom(edges) == [kind |-> "custom", n |-> Len(edges) - 1, edges |-> edges]
Auto(k, source) == [kind |-> "auto", n |-> k, of |-> source]        \* the range of the values
Trivial == Uniform(1, 0, 1)
NoEdges == [kind |-> "none", n |-> 0]
Default == 100                                                       \* Hist.Binning.1D.x of ROOT
IsTH1(o) == o.kind \in {"TH1", "TH2", "TProfile", "TProfile2D"}
SameSize(o, p) == [d \in DOMAIN o.axes |-> o.axes[d].n] = [d \in DOMAIN p.axes |-> p.axes[d].n]
\* TH1::Add refuses another number of bins with a message only.
Added(o, p) == IF SameSize(o, p) THEN [o EXCEPT !.fills = Plus(@, p.fills)] ELSE o

-----------------------------------------------------------------------------
(* RootTools: trees.  The binning of the first histogram with some bins is *)
(* kept for all later ones with the same bins.                             *)
Number(k) == [kind |-> "number", n |-> k]
Empty == [kind |-> "empty"]
\* The string for TTree::Draw and the edges for bins that are asked for.
binning_string(b) == IF b.kind = "custom" THEN Uniform(Len(b.edges), b.edges[1], b.edges[Len(b.edges)]) ELSE b
prepared_edges(b) == IF b.kind = "number" THEN NoEdges ELSE b

Tools == [determined |-> {}, x |-> <<>>, y |-> <<>>]                  \* RootTools.__init__
bins(b) == IF b = None THEN Number(25) ELSE b
binning_identifier(item) == <<bins(item.xb), bins(item.yb)>>
Determined(t, item) == binning_identifier(item) \in t.determined
\* The strings and edges with which this histogram is drawn.
with_binning(t, item) ==
  IF Determined(t, item) THEN t
  ELSE [t EXCEPT !.x = (binning_identifier(item) :> prepared_edges(bins(item.xb))) @@ @,
                     !.y = (binning_identifier(item) :> prepared_edges(bins(item.yb))) @@ @]
string_of(t, item, b) == IF Determined(t, item) THEN Empty ELSE binning_string(bins(b))

tree_paths(item) == {<<i, j>> \in (DOMAIN item.files) \X (DOMAIN item.folders) : Type[<<item.files[i], item.folders[j]>>] = "TTree"}
Source(item, p) == <<item.files[p[1]], item.folders[p[2]], item.x, item.y, item.weight>>
\* The expression "None" fills nothing.
Filled(paths, item) ==
  IF item.x = None THEN Nothing ELSE
  [s \in {Source(item, p) : p \in paths} |-> Cardinality({p \in paths : Source(item, p) = s})]
chain(item) == [s \in {<<item.files[p[1]], item.folders[p[2]]>> : p \in tree_paths(item)} |->
                  Cardinality({p \in tree_paths(item) : <<item.files[p[1]], item.folders[p[2]]>> = s})]

drawn_axis(string, fills, expression) ==
  CASE string.kind = "number" -> Auto(string.n, <<fills, expression>>)
    [] string.kind = "empty" -> Auto(Default, <<fills, expression>>)
    [] OTHER -> string
Dim(item) == IF item.y = None THEN 1 ELSE 2
kind_of(item, dim) == IF item.draw = "prof" THEN IF dim = 1 THEN "TProfile" ELSE "TProfile2D" ELSE IF dim = 1 THEN "TH1" ELSE "TH2"
\* TTree::Draw makes the axes itself, or a graph without any.
drawn(item, xs, ys, fills) ==
  CASE item.draw = "TGraph" -> [kind |-> "TGraph", axes |-> <<>>, fills |-> fills]
    [] item.draw = "prof" \/ Dim(item) = 1 -> [kind |-> kind_of(item, 1), axes |-> <<drawn_axis(xs, fills, item.x)>>, fills |-> fills]
    [] OTHER -> [kind |-> "TH2", axes |-> <<drawn_axis(xs, fills, item.x), drawn_axis(ys, fills, item.y)>>, fills |-> fills]

edges_known(x, y) == x # NoEdges \/ y # NoEdges
incomplete(item, x, y) == (x = NoEdges \/ (y = NoEdges /\ item.y # None)) /\ item.draw # "prof"
created(item, x, y, fills) ==           \* create_root_histogram and TTree::Project
  IF item.y # None /\ y # NoEdges THEN [kind |-> kind_of(item, 2), axes |-> <<x, y>>, fills |-> fills]
  ELSE [kind |-> kind_of(item, 1), axes |-> <<x>>, fills |-> fills]
Creates(item, x, y) == item.draw # "TGraph" /\ edges_known(x, y) /\ ~incomplete(item, x, y)
\* len(None), for a profile with edges for y only.
TreeFails(item, x, y) == Creates(item, x, y) /\ x = NoEdges
object_from_tree(item, x, y, xs, ys, fills) ==
  IF Creates(item, x, y) THEN created(item, x, y, fills) ELSE drawn(item, xs, ys, fills)

axis_of(o, d) == IF d \in DOMAIN o.axes THEN o.axes[d] ELSE Trivial     \* get_binning
updated(t, item, o) ==
  [determined |-> t.determined \cup (IF item.draw = "prof" THEN {} ELSE {binning_identifier(item)}),
   x |-> IF IsTH1(o) THEN (binning_identifier(item) :> axis_of(o, 1)) @@ t.x ELSE t.x,
   y |-> IF IsTH1(o) THEN (binning_identifier(item) :> axis_of(o, 2)) @@ t.y ELSE t.y]
\* What histogram_from_tree does with tools t, in which the edges are known.
tree_result(t, item, xs, ys, id) ==
  IF TreeFails(item, t.x[id], t.y[id]) THEN [status |-> "TypeError"]
  ELSE IF item.x = None /\ ~Creates(item, t.x[id], t.y[id]) THEN [status |-> "exit"]
  ELSE [status |-> "reading", object |-> object_from_tree(item, t.x[id], t.y[id], xs, ys, Filled(tree_paths(item), item))]

-----------------------------------------------------------------------------
(* RootTools: histograms of files, summed over all files and folders.      *)
StoredKeys(item) == {<<item.files[i], item.folders[j], item.x>> : i \in DOMAIN item.files, j \in DOMAIN item.folders}
ordered_keys(item) == FlattenSeq([i \in DOMAIN item.files |-> [j \in DOMAIN item.folders |-> <<item.files[i], item.folders[j], item.x>>]])
Missing(item) == StoredKeys(item) \ DOMAIN Stored # {}
summed(keys) == FoldLeft(LAMBDA o, k : Added(o, Stored[k]), Stored[Head(keys)], Tail(keys))
\* Rebinning of the contents is the subject of Rebinning: here only the axes change.
Groups(axis, b) == axis.n \div b.n
grouped(axis, b) == IF Groups(axis, b) \in {0, 1} THEN axis ELSE [kind |-> "grouped", n |-> axis.n \div Groups(axis, b), of |-> axis]
rebinned_axis(axis, b) == IF b = None THEN axis ELSE IF b.kind = "number" THEN grouped(axis, b) ELSE b
file_result(item) ==
  IF item.x = None \/ Missing(item) THEN [status |-> "exit"]
  ELSE IF Stored[Head(ordered_keys(item))].kind = "TGraph" /\ Len(ordered_keys(item)) > 1
       THEN [status |-> "AttributeError"]       \* a graph has no Add
  ELSE [status |-> "reading",
        object |-> [summed(ordered_keys(item)) EXCEPT !.axes = [d \in DOMAIN @ |-> rebinned_axis(@[d], IF d = 1 THEN item.xb ELSE item.yb)]]]

check_type(item) == Type[<<Head(item.files), Head(item.folders)>>]

-----------------------------------------------------------------------------
VARIABLES options, args, i, tools, root_objects, root_trees, status
vars == <<options, args, i, tools, root_objects, root_trees, status>>

Init == /\ options \in Inputs /\ args = None /\ i = 0 /\ tools = Tools
        /\ root_objects = <<>> /\ root_trees = <<>> /\ status = "start"

PrepareArgs == /\ status = "start"
               /\ IF options.files = None THEN status' = "exit" /\ UNCHANGED args
                  ELSE /\ args' = prepared(options)
                       /\ status' = IF \E k \in DOMAIN of_files(options).files : of_files(options).files[k] = <<>> THEN "exit" ELSE "reading"
               /\ UNCHANGED <<options, i, tools, root_objects, root_trees>>

Item(k) == [files |-> args.files[k], folders |-> args.folders[k], x |-> args.x[k], y |-> args.y[k], xb |-> args.xb[k],
            yb |-> args.yb[k], weight |-> args.weights[k], draw |-> args.draw[k], nick |-> args.nicks[k]]
Values(f, nick) == IF nick \in DOMAIN f THEN f[nick] ELSE <<>>
Put(f, nick, v) == (nick :> v) @@ f
keep_trees(item) == IF options.keep_trees THEN Put(root_trees, item.nick, Plus(IF item.nick \in DOMAIN root_trees THEN root_trees[item.nick] ELSE Nothing, chain(item)))
                    ELSE root_trees
\* The factor for the uncertainties is a list of one: times a float, this fails.
Keep(item, object) ==
  IF options.multiply_uncertainties # None THEN status' = (IF IsTH1(object) THEN "TypeError" ELSE "AttributeError") /\ UNCHANGED root_objects
  ELSE root_objects' = Put(root_objects, item.nick, Append(Values(root_objects, item.nick), object)) /\ UNCHANGED status

ReadTree == /\ status = "reading" /\ i < Len(args.nicks)
            /\ \E item \in {Item(i + 1)} : \E t \in {with_binning(tools, item)} :
                 /\ check_type(item) = "TTree"
                 /\ \E r \in {tree_result(t, item, string_of(tools, item, item.xb), string_of(tools, item, item.yb), binning_identifier(item))} :
                      IF r.status # "reading" THEN status' = r.status /\ UNCHANGED <<tools, root_objects, root_trees>>
                      ELSE tools' = updated(t, item, r.object) /\ root_trees' = keep_trees(item) /\ Keep(item, r.object)
            /\ i' = i + 1 /\ UNCHANGED <<options, args>>

ReadFile == /\ status = "reading" /\ i < Len(args.nicks)
            /\ \E item \in {Item(i + 1)} :
                 /\ check_type(item) # "TTree"
                 /\ IF check_type(item) # "TDirectory" THEN status' = "exit" /\ UNCHANGED root_objects
                    ELSE \E r \in {file_result(item)} :
                           IF r.status # "reading" THEN status' = r.status /\ UNCHANGED root_objects ELSE Keep(item, r.object)
            /\ i' = i + 1 /\ UNCHANGED <<options, args, tools, root_trees>>

\* The k-th object of a nick is scaled by the k-th of its factors.
Occurrence(k) == Cardinality({j \in 1..k : args.nicks[j] = args.nicks[k]})
FirstPlace(nick, k) == CHOOSE j \in DOMAIN args.nicks : args.nicks[j] = nick /\ Occurrence(j) = 1        \* mutant
PlaceOf(nick, k) == CHOOSE j \in DOMAIN args.nicks : args.nicks[j] = nick /\ Occurrence(j) = k
scaled(o, factor) == IF IsTH1(o) THEN [o EXCEPT !.fills = Times(@, factor)] ELSE o
ScaleHistograms == /\ status = "reading" /\ i = Len(args.nicks)
                   /\ root_objects' = [nick \in DOMAIN root_objects |->
                        [k \in DOMAIN root_objects[nick] |-> scaled(root_objects[nick][k], args.scale[PlaceOf(nick, k)])]]
                   /\ status' = "scaled" /\ UNCHANGED <<options, args, i, tools, root_trees>>

\* Histograms of one nick are added; after a graph, or to one, nothing is.
\* TH1::Add raises for a graph, as merged_object is a graph without Add.
merge(objects) == FoldLeft(LAMBDA o, p : IF IsTH1(p) THEN Added(o, p) ELSE o, Head(objects), Tail(objects))
MergeFails(objects) == Head(objects).kind = "TGraph" /\ \E k \in 2..Len(objects) : IsTH1(objects[k])
unique(nicks) == FoldLeft(LAMBDA s, n : IF n \in ToSet(s) THEN s ELSE Append(s, n), <<>>, nicks)
Merge == /\ status = "scaled"
         /\ IF \E nick \in DOMAIN root_objects : MergeFails(root_objects[nick])
            THEN status' = "AttributeError" /\ UNCHANGED <<root_objects, args>>
            ELSE /\ root_objects' = [nick \in DOMAIN root_objects |-> <<merge(root_objects[nick])>>]
                 /\ args' = [args EXCEPT !.nicks = unique(@)]
                 /\ status' = "done"
         /\ UNCHANGED <<options, i, tools, root_trees>>

Next == PrepareArgs \/ ReadTree \/ ReadFile \/ ScaleHistograms \/ Merge
Spec == Init /\ [][Next]_vars

-----------------------------------------------------------------------------
(* What is asked for, summed input by input.                               *)
Places(nick) == {k \in DOMAIN args.x : prepared(options).nicks[k] = nick}
Paths(k) == ToSet(args.files[k]) \X ToSet(args.folders[k])
IsTree(k) == Type[<<Head(args.files[k]), Head(args.folders[k])>>] = "TTree"
\* How often the files and folders of input k name a path.
Named(k, path) == Cardinality({p \in (DOMAIN args.files[k]) \X (DOMAIN args.folders[k]) : <<args.files[k][p[1]], args.folders[k][p[2]]>> = path})
TreesOf(k) == [path \in {q \in Paths(k) : Type[q] = "TTree"} |-> Named(k, path)]
Asked(k) ==
  IF IsTree(k) THEN [s \in {<<path[1], path[2], args.x[k], args.y[k], args.weights[k]>> : path \in DOMAIN TreesOf(k)} |-> Named(k, <<s[1], s[2]>>)]
  ELSE FoldSet(LAMBDA path, f : Plus(f, Times(Stored[<<path[1], path[2], args.x[k]>>].fills, Named(k, path))), Nothing, Paths(k))
Sum(S, f(_)) == FoldSet(LAMBDA k, g : Plus(g, f(k)), Nothing, S)

\* "Inputs with the same nick name will be merged" (inputbase.py:27): the histogram of
\* a nick has the entries of all files and folders of all its inputs, each scaled by
\* the factor of its own input, provided that all of them are histograms of one size.
StoredOf(nick) == {Stored[<<path[1], path[2], args.x[k]>>] : <<k, path>> \in UNION {{k} \X Paths(k) : k \in {j \in Places(nick) : ~IsTree(j)}}}
Histograms(nick) == /\ options.draw = <<"">> /\ \A k \in Places(nick) : args.y[k] = None
                    /\ \A o, p \in StoredOf(nick) : IsTH1(o) /\ SameSize(o, p)
NicksAreSums == status = "done" => \A nick \in DOMAIN root_objects :
  Histograms(nick) => root_objects[nick][1].fills = Sum(Places(nick), LAMBDA k : Times(Asked(k), args.scale[k]))

\* Trees that are kept are the chains of all inputs with this nick: no tree of a plot
\* is lost, and none appears twice (inputroot.py:173-177).
TreesKept == status = "done" /\ options.keep_trees =>
  \A nick \in DOMAIN root_trees : root_trees[nick] = Sum({k \in Places(nick) : IsTree(k)}, TreesOf)

\* Histograms that are filled from trees with the same bins have the same axis
\* whatever their expressions and ranges are, so that they can be added, stacked or
\* divided (roottools.py:251-254, 440-450).
Object(k) == root_objects[args.nicks[k]][Occurrence(k)]
FromTree(k) == IsTree(k) /\ Object(k).kind \in {"TH1", "TH2"}
AxesAgree == status \in {"reading", "scaled"} => \A j, k \in 1..i :
  FromTree(j) /\ FromTree(k) /\ binning_identifier(Item(j)) = binning_identifier(Item(k)) => Object(j).axes[1] = Object(k).axes[1]
=============================================================================
