------------------------------ MODULE ToolCalls ------------------------------
(***************************************************************************)
(* A call of tools.parallelize or of tools.hadd (Utility/python/tools.py), *)
(* a run of eventmatching.py, or a program with treeTools.py, and what     *)
(* they promise of what they hand back.  Each is on its own: the variables *)
(* of the others are None.                                                 *)
(***************************************************************************)
EXTENDS Integers, Sequences

CONSTANTS None,
          MaxTasks, MaxProcesses, Outcomes,     \* of Parallelize
          MaxSources, MaxCrashes, Exits,        \* of Hadd
          Contents, Events, EventNumber, Branches,  \* of EventMatching
          Files, Existing, Programs             \* of TreeTools

VARIABLES component,                            \* the function this behaviour is about
          tasks, processes, queue, working, outcome, ready, failed, numberLeft, sawReady, left, progress,
          sources, max_files, force, missing, target, temp, start, chunk, exit_code, killed, crashes,
          caller,                               \* a name that both use
          trees, branches, options, lists, scan, output, whitelists, report, pc,
          program, disk, extender, merger, asked

ParallelizeVars == <<tasks, processes, queue, working, outcome, ready, failed, numberLeft, sawReady, left, progress>>
HaddVars == <<sources, max_files, force, missing, target, temp, start, chunk, exit_code, killed, crashes>>
NoParallelize == /\ tasks = None /\ processes = None /\ queue = None /\ working = None /\ outcome = None /\ ready = None
                 /\ failed = None /\ numberLeft = None /\ sawReady = None /\ left = None /\ progress = None
NoHadd == /\ sources = None /\ max_files = None /\ force = None /\ missing = None /\ target = None /\ temp = None
          /\ start = None /\ chunk = None /\ exit_code = None /\ killed = None /\ crashes = None

MatchVars == <<trees, branches, options, lists, scan, output, whitelists, report>>
NoMatch == /\ trees = None /\ branches = None /\ options = None /\ lists = None /\ scan = None
           /\ output = None /\ whitelists = None /\ report = None

TreeVars == <<program, disk, extender, merger, asked>>
NoTree == program = None /\ disk = None /\ extender = None /\ merger = None /\ asked = None

Pool == INSTANCE Parallelize
Chunks == INSTANCE Hadd WITH n <- sources
Match == INSTANCE EventMatching
Trees == INSTANCE TreeTools

PoolInit == component = "Parallelize" /\ Pool!Init /\ NoHadd /\ NoMatch /\ NoTree /\ pc = None
ChunksInit == component = "Hadd" /\ Chunks!Init /\ NoParallelize /\ NoMatch /\ NoTree /\ pc = None
MatchInit == component = "EventMatching" /\ Match!Init /\ NoParallelize /\ NoHadd /\ NoTree /\ caller = None
TreesInit == component = "TreeTools" /\ Trees!Init /\ NoParallelize /\ NoHadd /\ NoMatch /\ caller = None /\ pc = None
PoolNext == component = "Parallelize" /\ Pool!Next /\ UNCHANGED <<component, HaddVars, MatchVars, TreeVars, pc>>
ChunksNext == component = "Hadd" /\ Chunks!Next /\ UNCHANGED <<component, ParallelizeVars, MatchVars, TreeVars, pc>>
MatchNext == component = "EventMatching" /\ Match!Next /\ UNCHANGED <<component, ParallelizeVars, HaddVars, TreeVars, caller>>
TreesNext == component = "TreeTools" /\ Trees!Next /\ UNCHANGED <<component, ParallelizeVars, HaddVars, MatchVars, caller, pc>>

callVars == <<component, ParallelizeVars, HaddVars, caller, MatchVars, TreeVars, pc>>
CallSpec == (PoolInit \/ ChunksInit \/ MatchInit \/ TreesInit) /\ [][PoolNext \/ ChunksNext \/ MatchNext \/ TreesNext]_callVars

-----------------------------------------------------------------------------
Of(name, property) == component = name => property

\* What is handed back can be trusted: the values of all tasks and no process is left
\* behind; an exit code 0 only for a target with every source once, and no temporary
\* file (tools.py: parallelize, hadd).
AnswersAreTrue == /\ Of("Parallelize", Pool!AnswersAreComplete /\ Pool!BarFits /\ Pool!NothingRunsAfterReturn)
                  /\ Of("Hadd", Chunks!SuccessIsComplete /\ Chunks!NoTemporaryLeft /\ Chunks!TwoTemporaries)

\* Matched trees agree entry by entry, an event is only in one of the trees as often as
\* another one lacks it, and what is told of them is true (eventmatching.py: compareLists,
\* cpTree, compareTrees).
FilesMatch == Of("EventMatching", Match!CommonTreesAgree /\ Match!OnlyIsNotCommon /\ Match!WhitelistsFit /\ Match!DifferencesTold)

\* The new branches on disk have what the loop set, or the default, for each entry; a
\* merged tree has all entries (treeTools.py: TreeExtender, TreeMerger.merge).
TreesAsAsked == [][Of("TreeTools", Trees!ColumnsAsAsked' /\ Trees!CutAtLastWrite' /\ Trees!TreesMerged)]_callVars
=============================================================================
