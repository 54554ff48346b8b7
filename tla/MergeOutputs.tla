---------------------------- MODULE MergeOutputs ----------------------------
(***************************************************************************)
(* artusMergeOutputs.py: the ROOT files of Artus projects are collected    *)
(* per nick name and merged with one hadd per nick, in a pool, here or in  *)
(* one batch job per nick.  A file is its name and kind; the listing of a  *)
(* directory is a sequence without order.                                  *)
(***************************************************************************)
EXTENDS Integers, Sequences, SequencesExt, FiniteSets, FiniteSetsExt, Functions

CONSTANTS Projects, Nicks, Files

\* The kinds of file below a nick directory that the code tells apart.
Kind == [Files -> {"root", "svfit", "log"}]
NoNick == "none"

VARIABLES
  kind,          \* what each file is
  listing,       \* [project, nick] -> the files in that directory
  project_dir,   \* the directories given
  project_subdir,
  jobs,          \* what is left of hadd_arguments
  merged,        \* target -> the sources of the hadds that wrote it
  failed,        \* targets whose hadd failed
  script         \* "called", "merging", "ended", "raised"

given == <<kind, listing, project_dir, project_subdir>>
vars == <<given, jobs, merged, failed, script>>

-----------------------------------------------------------------------------
\* One glob over a nick directory, in the order of its names.
Glob(p, nick, kinds) == SetToSeq({f \in listing[p, nick] : kind[f] \in kinds})

\* folders_to_merge: the files of all projects that have the nick, in order.
HasNick(nick) == \E p \in Range(project_dir) : listing[p, nick] # {}
folders_to_merge ==
  [nick \in {k \in Nicks : HasNick(k)} |->
     FlattenSeq([i \in DOMAIN project_dir |-> Glob(project_dir[i], nick, {"root", "svfit"})])]

\* merge_local: one path only if a sub-directory is given, no SVfit caches, no
\* nick without files.
Wanted == IF project_subdir = NoNick THEN DOMAIN folders_to_merge ELSE {project_subdir}
Kept(nick) == SelectSeq(folders_to_merge[nick], LAMBDA f : kind[f] # "svfit")
EveryNick == Wanted
Mergeable == {nick \in Wanted : Kept(nick) # <<>>}
Target(nick) == IF project_subdir = NoNick THEN nick ELSE "merged.root"
hadd_arguments ==
  SetToSeq({[target_file |-> Target(nick), source_files |-> Kept(nick)] : nick \in Mergeable})

\* merge_batch: one job per nick, whether it has files or not.
NicksToProcess == IF project_subdir = NoNick THEN DOMAIN folders_to_merge ELSE {project_subdir}
Size(p, nick) == Cardinality(listing[p, nick])
input_dirs == {d \in Range(project_dir) \X NicksToProcess : listing[d] # {}}
\* The directories do not exist when they hold nothing: max() of none raises.
\* Twice the largest input, and a constant.
LargestInput == Max({Size(d[1], d[2]) : d \in input_dirs})
required_scratch_space == 2 * LargestInput + 1

-----------------------------------------------------------------------------
Init ==
  /\ kind \in Kind
  /\ listing \in [Projects \X Nicks -> SUBSET Files]
  /\ project_dir \in {s \in SeqOf(Projects, Cardinality(Projects)) : s # <<>>}
  /\ project_subdir \in Nicks \cup {NoNick}
  /\ jobs = <<>>
  /\ merged = <<>>
  /\ failed = {}
  /\ script = "called"

Collect ==
  /\ script = "called"
  /\ IF Wanted \subseteq DOMAIN folders_to_merge
     THEN script' = "merging" /\ jobs' = hadd_arguments
     ELSE script' = "raised" /\ UNCHANGED jobs         \* KeyError
  /\ UNCHANGED <<given, merged, failed>>

\* Any worker of the pool: hadd with -f; hadd2 drops its result.
Hadd(i, ok) ==
  /\ script = "merging"
  /\ jobs' = RemoveAt(jobs, i)
  /\ IF jobs[i].source_files = <<>>
     THEN script' = "polling" /\ UNCHANGED <<merged, failed>>    \* sys.exit in the worker
     ELSE /\ merged' = IF ok THEN (jobs[i].target_file :> jobs[i].source_files) @@ merged ELSE merged
          /\ failed' = IF ok THEN failed ELSE failed \cup {jobs[i].target_file}
          /\ UNCHANGED script
  /\ UNCHANGED given

End ==
  /\ script = "merging"
  /\ jobs = <<>>
  /\ script' = "ended"
  /\ UNCHANGED <<given, jobs, merged, failed>>

Next == Collect \/ End \/ \E i \in DOMAIN jobs, ok \in BOOLEAN : Hadd(i, ok)
Spec == Init /\ [][Next]_vars /\ WF_vars(Next)

-----------------------------------------------------------------------------
\* Every ROOT file of every project is merged exactly as often as its project is
\* named, and nothing else is: no cache, no log, no file of another nick.
EveryFileMerged ==
  script = "ended" =>
    \A nick \in Wanted : Target(nick) \notin failed =>
      \A f \in Files :
        LET sources == IF Target(nick) \in DOMAIN merged THEN merged[Target(nick)] ELSE <<>>
        IN Cardinality({i \in DOMAIN sources : sources[i] = f}) =
             Cardinality({i \in DOMAIN project_dir :
                            kind[f] = "root" /\ f \in listing[project_dir[i], nick]})

\* No two merges of a call write the same target while they run side by side.
TargetsDiffer ==
  \A i, j \in DOMAIN jobs : jobs[i].target_file = jobs[j].target_file => i = j

\* The pool never gets a merge without sources, whose sys.exit would end its
\* worker without an answer and leave the caller polling: the script comes to an end.
ScriptEnds == <>(script \in {"ended", "raised"})

\* A batch job has room for the input of its nick in one project and its copy.
ScratchSuffices ==
  \A d \in input_dirs : required_scratch_space > 2 * Size(d[1], d[2])
=============================================================================
