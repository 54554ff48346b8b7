----------------------------- MODULE ExportRoot -----------------------------
(***************************************************************************)
(* Export of all objects to ROOT files: plot_modules/exportroot.py and     *)
(* RootTools.write_object of HarryPlotter.  A file is a function from      *)
(* paths to what can be read there, an object or Directory; a path is a    *)
(* sequence of names.                                                      *)
(***************************************************************************)
EXTENDS Integers, Sequences, SequencesExt, TLC

CONSTANTS Unlabelled,     \* in the place of a label that is not given
          Exported        \* options and objects of the plots

Directory == <<"directory">>
parents(path) == {SubSeq(path, 1, n) : n \in 1..Len(path) - 1}

IsPath(path) == path \in Seq(Range(path)) /\ path # <<>>
\* Every object of a file is inside directories, down from the top.
IsTree(f) == \A path \in DOMAIN f : IsPath(path) /\ \A d \in parents(path) : d \in DOMAIN f /\ f[d] = Directory

ASSUME ExportedType == \A p \in Exported :
  /\ p.nicks \in Seq(Range(p.nicks)) /\ p.labels \in Seq(Range(p.labels)) /\ p.labels # <<>>
  /\ \A l \in Range(p.labels) \ {Unlabelled} : IsPath(l)
  /\ \A n \in Range(p.nicks) : Len(p.metadata[n].objects) \in Nat
  /\ p.file_mode \in {"RECREATE", "UPDATE"} /\ IsTree(p.before)

VARIABLES plot,
          file,
          open,         \* the directories that ROOT has in memory
          nick, item,   \* what is written next, see there
          exporting
exportVars == <<plot, file, open, nick, item, exporting>>

ExportInit == /\ plot \in Exported /\ file = plot.before /\ open = {}
              /\ nick = 1 /\ item = 0 /\ exporting = "start"

-----------------------------------------------------------------------------
\* PlotBase repeats labels up to the number of nicks; missing ones are the nicks.
label(p, k) == LET l == p.labels[((k - 1) % Len(p.labels)) + 1] IN IF l = Unlabelled THEN <<p.nicks[k]>> ELSE l
path_of(p, k) == IF p.nicks_instead_labels THEN <<p.nicks[k]>> ELSE label(p, k)
with_last(path, suffix) == [path EXCEPT ![Len(path)] = @ \o suffix]

\* What is written for the nick k: the object (item 0), each ROOT object of its
\* metadata, and the rest of them as one string in JSON.
metadata(p, k) == p.metadata[p.nicks[k]]
LastItem(p, k) == Len(metadata(p, k).objects) + (IF metadata(p, k).json THEN 1 ELSE 0)
Items(p) == UNION {{k} \X (0..LastItem(p, k)) : k \in DOMAIN p.nicks}
path_at(p, k, m) ==
  CASE m = 0 -> path_of(p, k)
    [] m \in DOMAIN metadata(p, k).objects -> with_last(path_of(p, k), "_" \o metadata(p, k).objects[m])
    [] OTHER -> with_last(path_of(p, k), "_metadata")
object_at(p, k, m) ==
  CASE m = 0 -> <<p.nicks[k], IF p.custom_rebin THEN "rebinned" ELSE "object">>
    [] m \in DOMAIN metadata(p, k).objects -> <<p.nicks[k], metadata(p, k).objects[m]>>
    [] OTHER -> <<p.nicks[k], "json">>

\* TFile with the option RECREATE or UPDATE.
CreateCanvas == /\ exporting = "start"
                /\ file' = IF plot.file_mode = "RECREATE" THEN <<>> ELSE file
                /\ exporting' = "writing" /\ UNCHANGED <<plot, open, nick, item>>

\* kWriteDelete replaces what has the same name: an object, or a directory, with which
\* all that is in it is lost.
Below(f, path) == {p \in DOMAIN f : path \in parents(p)}
Appended(f, path, object) ==                                             \* mutant: without kWriteDelete
  [p \in DOMAIN f \cup parents(path) \cup {path} |-> IF p \in DOMAIN f THEN f[p] ELSE IF p = path THEN object ELSE Directory]
write_object(f, path, object) ==
  [p \in ((DOMAIN f \cup parents(path)) \ Below(f, path)) \cup {path} |->
     IF p = path THEN object ELSE IF p \in DOMAIN f THEN f[p] ELSE Directory]

\* Get on the way down: of what is no directory any more it gives the one that ROOT still
\* has in memory, where nothing can be read again and objects may be in the way as well,
\* or else the object, which has no cd.
InTheWay(path) == {d \in parents(path) \cap DOMAIN file : file[d] # Directory}
Write ==
  /\ exporting = "writing" /\ nick \in DOMAIN plot.nicks
  /\ LET path == path_at(plot, nick, item)
     IN  \/ /\ InTheWay(path) = {} /\ file' = write_object(file, path, object_at(plot, nick, item))
            /\ open' = open \cup parents(path) /\ UNCHANGED exporting
         \/ /\ InTheWay(path) # {} /\ UNCHANGED <<file, open>>
            /\ exporting' \in {"AttributeError"} \cup (IF InTheWay(path) \subseteq open THEN {"writing"} ELSE {})
  /\ IF item = LastItem(plot, nick) THEN nick' = nick + 1 /\ item' = 0 ELSE item' = item + 1 /\ UNCHANGED nick
  /\ UNCHANGED plot

Save == /\ exporting = "writing" /\ nick \notin DOMAIN plot.nicks
        /\ exporting' = "saved" /\ UNCHANGED <<plot, file, open, nick, item>>

ExportNext == CreateCanvas \/ Write \/ Save
ExportSpec == ExportInit /\ [][ExportNext]_exportVars

-----------------------------------------------------------------------------
At(p, i) == path_at(p, i[1], i[2])
\* No object gets the path of another one, or that of a directory of another one.
OwnPaths(p) == \A i, j \in Items(p) : i # j => At(p, i) # At(p, j) /\ At(p, i) \notin parents(At(p, j))
Named(p) == UNION {{At(p, i)} \cup parents(At(p, i)) : i \in Items(p)}
Spared(p, path) == \A i \in Items(p) : At(p, i) # path /\ At(p, i) \notin parents(path)

\* Whatever was in the file, every object is inside directories; with paths of their
\* own, all objects and their metadata are in the file that is saved, each at its path;
\* an update keeps what is at other paths, and nothing else is in the file
\* (exportroot.py:75-128, roottools.py:768-777).
ExportComplete ==
  /\ exporting \in {"writing", "AttributeError", "saved"} =>
       /\ IsTree(file)
       /\ plot.file_mode = "UPDATE" => \A path \in DOMAIN plot.before :
            Spared(plot, path) => path \in DOMAIN file /\ file[path] = plot.before[path]
       /\ \A path \in DOMAIN file \ Named(plot) :
            plot.file_mode = "UPDATE" /\ path \in DOMAIN plot.before /\ file[path] = plot.before[path]
  /\ exporting = "saved" /\ OwnPaths(plot) => \A i \in Items(plot) :
       At(plot, i) \in DOMAIN file /\ file[At(plot, i)] = object_at(plot, i[1], i[2])
=============================================================================
