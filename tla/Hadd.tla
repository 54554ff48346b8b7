-------------------------------- MODULE Hadd --------------------------------
(***************************************************************************)
(* tools.hadd (Utility/python/tools.py): source files are merged by the    *)
(* program hadd in chunks of max_files.  Every chunk but the last goes to  *)
(* a temporary file, which is a source of the next chunk and then removed. *)
(*                                                                         *)
(* The content of a file is how often it holds the entries of each source. *)
(* hadd itself is outside the repository: it merges its sources into the   *)
(* target and exits with 0, or with 1 when it refuses or fails, and then   *)
(* the target holds what it held, nothing, or a part; a killed hadd has a  *)
(* negative exit code.  The caller may die between two steps and be called *)
(* again with the files the first call left behind.                        *)
(***************************************************************************)
EXTENDS Integers, Sequences

CONSTANTS
  MaxSources,   \* bound on len(source_files)
  MaxCrashes,   \* bound on the deaths of the caller
  Exits         \* how an hadd may end: "ok", "fail", "killed"

VARIABLES
  n, max_files,   \* len(source_files), and files per chunk
  force,          \* is -f among hadd_args?
  missing,        \* the source files that are not there
  target, temp,   \* the target and the temporary files of each chunk on disk
  start, chunk,   \* start_chunk_index and chunk_index
  caller,         \* where the call is
  exit_code,
  killed,         \* has an hadd of this call been killed?
  crashes

args == <<n, max_files, force, missing>>
vars == <<args, target, temp, start, chunk, caller, exit_code, killed, crashes>>

Source == 1 .. n
Index == 0 .. MaxSources
NoFile == [s \in {0} |-> 0]      \* has no Source in its domain: no content
Content == [Source -> Nat]
Nothing == [s \in Source |-> 0]
AllOnce == [s \in Source |-> 1]
Ended == {"returned", "raised", "exited"}

\* The chunk that starts at start_chunk_index, and whether it is the last one.
InChunk(s) == start < s /\ s <= start + max_files
LastChunk == start + max_files >= n

\* What the sources of the command hold together; the temporary file of the
\* chunk before is one of them.
Previous == IF chunk > 0 THEN temp[chunk - 1] ELSE Nothing
Merged == [s \in Source |-> (IF InChunk(s) THEN 1 ELSE 0) + Previous[s]]

Init ==
  /\ n \in 0 .. MaxSources
  /\ max_files \in 1 .. MaxSources
  /\ force \in BOOLEAN
  /\ missing \in SUBSET Source
  /\ target \in {NoFile, Nothing}
  /\ temp = [i \in Index |-> NoFile]
  /\ start = 0 /\ chunk = 0
  /\ caller = "called"
  /\ exit_code = 0
  /\ killed = FALSE
  /\ crashes = 0

-----------------------------------------------------------------------------
\* An empty list of sources: sys.exit(1).
NoSources ==
  /\ caller = "called"
  /\ n = 0
  /\ caller' = "exited"
  /\ UNCHANGED <<args, target, temp, start, chunk, exit_code, killed, crashes>>

\* The output of this command, and how it is replaced.
Output == IF LastChunk THEN target ELSE temp[chunk]
Write(content) ==
  IF LastChunk
  THEN target' = content /\ UNCHANGED temp
  ELSE temp' = [temp EXCEPT ![chunk] = content] /\ UNCHANGED target

\* hadd refuses an existing output without -f and a source that is not there.
Refuses ==
  \/ Output # NoFile /\ ~force
  \/ \E s \in missing : InChunk(s)
  \/ chunk > 0 /\ temp[chunk - 1] = NoFile

Run(exit) ==
  IF Refuses
  THEN exit = "fail" /\ UNCHANGED <<target, temp>>
  ELSE IF exit = "ok" THEN Write(Merged)
       ELSE UNCHANGED <<target, temp>> \/ Write(Nothing)

\* exit_code = max(exit_code, ...): a negative code is smaller than 0.
Code(exit) == IF exit = "fail" THEN 1 ELSE exit_code

\* One command, for which -f is part of hadd_args.
Merge(exit) ==
  /\ caller = "called"
  /\ n > 0
  /\ Run(exit)
  /\ exit_code' = Code(exit)
  /\ killed' = (killed \/ exit = "killed")
  /\ caller' = "merged"
  /\ UNCHANGED <<args, start, chunk, crashes>>

\* os.remove of the last temporary file raises OSError if it is not there.
Removed == [temp EXCEPT ![chunk - 1] = NoFile]
Remove ==
  /\ caller = "merged"
  /\ IF chunk > 0 /\ temp[chunk - 1] = NoFile
     THEN caller' = "raised" /\ UNCHANGED <<temp, start, chunk>>
     ELSE /\ temp' = IF chunk > 0 THEN Removed ELSE temp
          /\ caller' = IF LastChunk THEN "returned" ELSE "called"
          /\ start' = IF LastChunk THEN start ELSE start + max_files
          /\ chunk' = IF LastChunk THEN chunk ELSE chunk + 1
  /\ UNCHANGED <<args, target, exit_code, killed, crashes>>

\* The caller dies, maybe while an hadd writes, and is called once more.
Crash ==
  /\ caller \in {"called", "merged"}
  /\ crashes < MaxCrashes
  /\ crashes' = crashes + 1
  /\ IF caller = "called" /\ n > 0 /\ ~Refuses
     THEN UNCHANGED <<target, temp>> \/ Write(Nothing)
     ELSE UNCHANGED <<target, temp>>
  /\ caller' = "called"
  /\ start' = 0 /\ chunk' = 0
  /\ exit_code' = 0
  /\ killed' = FALSE
  /\ UNCHANGED args

Next == NoSources \/ Remove \/ Crash \/ \E exit \in Exits : Merge(exit)

Spec == Init /\ [][Next]_vars

-----------------------------------------------------------------------------
\* The exit code can be trusted: a call that returns 0 has merged every source
\* exactly once, whatever an earlier call left on disk - unless an hadd was
\* killed, whose negative code the maximum with 0 hides.
SuccessIsComplete ==
  caller = "returned" /\ exit_code = 0 => killed \/ target = AllOnce

\* "remove last temp. merge result" (tools.py:217): a call that returns leaves
\* no temporary file, not even one of an earlier call that died.
NoTemporaryLeft ==
  caller = "returned" => \A i \in Index : temp[i] = NoFile

\* A merge in chunks never needs more than two temporary files at a time.
TwoTemporaries ==
  \A i, j \in Index : temp[i] # NoFile /\ temp[j] # NoFile /\ crashes = 0 =>
                        i - j \in -1 .. 1 /\ i <= chunk
=============================================================================
