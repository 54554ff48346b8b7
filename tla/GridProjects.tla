---------------------------- MODULE GridProjects ----------------------------
(***************************************************************************)
(* Batch projects of the wrapper: the dbs file that a submission writes,   *)
(* the jobs that grid-control makes of it, and the submission of what is   *)
(* left of a project, from its dbs file.  Two scripts sort the jobs.       *)
(***************************************************************************)
EXTENDS Integers, Sequences, SequencesExt, FiniteSetsExt, Functions, TLC

CONSTANTS Samples,       \* nickname -> its input files, in order
          Nameless,      \* files whose name is not kappa_<nick>_<number>.root
          FilesPerJob,   \* --files-per-job
          Pilots,        \* the values of --pilot-job-files, All for none
          All,
          MaxProjects    \* bound: submissions of the same samples

VARIABLES projects,   \* what the submissions wrote, and the jobs of each
          failed      \* did the last call of the wrapper raise an exception?

vars == <<projects, failed>>

\* write_dbsfile: at most so many files of each nickname.
AtMost(n, s) == IF n = All THEN s ELSE SubSeq(s, 1, Min({n, Len(s)}))
write_dbsfile(grid, n) == [k \in DOMAIN grid |-> AtMost(n, grid[k])]

\* The splitter of grid-control: jobs of files of one nickname.
JobsOf(nick, files) ==
  LET n == (Len(files) + FilesPerJob - 1) \div FilesPerJob
  IN  [i \in 1..n |-> [nick |-> nick, status |-> "WAITING",
                       files |-> SubSeq(files, (i - 1) * FilesPerJob + 1, Min({i * FilesPerJob, Len(files)}))]]
Split(dbs) == FoldSet(LAMBDA k, jobs : jobs \o JobsOf(k, dbs[k]), <<>>, DOMAIN dbs)
Project(grid, n) == [dbs |-> write_dbsfile(grid, n), jobs |-> Split(write_dbsfile(grid, n))]

\* readDbsFile gives back the files; removeProcessedFiles takes those of the
\* successful jobs out of the list of the nickname in the name of the first one.
\* A job without such a name has no list: KeyError.
readDbsFile(p) == projects[p].dbs
Ended(job) == job.status \in {"SUCCESS", "FAILED"}
Successful(job) == job.status = "SUCCESS"
Processed(p) == {j \in DOMAIN projects[p].jobs : Successful(projects[p].jobs[j])}
KeyOf(job) == IF job.files[1] \in Nameless THEN "" ELSE job.nick
Raises(p) == \E j \in Processed(p) : KeyOf(projects[p].jobs[j]) \notin DOMAIN readDbsFile(p)
Removed(p, nick) == UNION {ToSet(projects[p].jobs[j].files) : j \in {i \in Processed(p) : KeyOf(projects[p].jobs[i]) = nick}}
removeProcessedFiles(p) ==
  [k \in DOMAIN readDbsFile(p) |-> SelectSeq(readDbsFile(p)[k], LAMBDA f : f \notin Removed(p, k))]
\* A nickname without files is not added again.
Remaining(p) == LET left == removeProcessedFiles(p) IN RestrictDomain(left, LAMBDA k : left[k] # <<>>)

\* getFailedJobOutputs: the jobs whose job.info has an exit code other than zero;
\* getRunningJobOutputs: those that have been submitted and have no job.info.
HasInfo(job) == Ended(job)
FailedJobs(p) == {j \in DOMAIN projects[p].jobs : HasInfo(projects[p].jobs[j]) /\ projects[p].jobs[j].status # "SUCCESS"}
RunningJobs(p) == {j \in DOMAIN projects[p].jobs : projects[p].jobs[j].status # "WAITING" /\ ~HasInfo(projects[p].jobs[j])}

-----------------------------------------------------------------------------
Init == projects = <<>> /\ failed = FALSE

Submit(n) ==
  /\ projects = <<>>
  /\ projects' = <<Project(Samples, n)>>
  /\ UNCHANGED failed

\* The dbs file of the last project is the input of the next one.
Resubmit(n) ==
  /\ projects # <<>> /\ Len(projects) < MaxProjects /\ ~failed
  /\ IF Raises(Len(projects)) THEN failed' = TRUE /\ UNCHANGED projects
     ELSE projects' = Append(projects, Project(Remaining(Len(projects)), n)) /\ UNCHANGED failed

\* grid-control starts jobs and sees them end, in any order and project.
JobChanges(p, j, from, to) ==
  /\ projects[p].jobs[j].status = from
  /\ projects' = [projects EXCEPT ![p].jobs[j].status = to]
  /\ UNCHANGED failed

Next ==
  \/ \E n \in Pilots : Submit(n) \/ Resubmit(n)
  \/ \E p \in DOMAIN projects : \E j \in DOMAIN projects[p].jobs :
       \/ JobChanges(p, j, "WAITING", "RUNNING")
       \/ JobChanges(p, j, "RUNNING", "SUCCESS")
       \/ JobChanges(p, j, "RUNNING", "FAILED")

Spec == Init /\ [][Next]_vars

-----------------------------------------------------------------------------
Entries(p) == UNION {ToSet(projects[p].dbs[k]) : k \in DOMAIN projects[p].dbs}
Done(p) == UNION {ToSet(projects[p].jobs[j].files) : j \in {i \in DOMAIN projects[p].jobs : projects[p].jobs[i].status = "SUCCESS"}}

\* However often what is left is submitted again, no input file is lost: it was
\* processed in an earlier project or is in the dbs file of the last one.
NothingLost ==
  \A p \in DOMAIN projects : Pilots = {All} =>
    \A k \in DOMAIN Samples : \A f \in ToSet(Samples[k]) : f \in Entries(p) \/ \E q \in 1..(p - 1) : f \in Done(q)

\* A job that has started is running, has failed or has succeeded, and the two
\* scripts list no job twice and none that has succeeded.
JobsAreSorted ==
  \A p \in DOMAIN projects :
    /\ FailedJobs(p) \cap RunningJobs(p) = {} /\ Processed(p) \cap (FailedJobs(p) \cup RunningJobs(p)) = {}
    /\ \A j \in DOMAIN projects[p].jobs :
         projects[p].jobs[j].status # "WAITING" <=> j \in FailedJobs(p) \cup RunningJobs(p) \cup Processed(p)
=============================================================================
