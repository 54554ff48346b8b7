--------------------------- MODULE MCConfiguration ---------------------------
(***************************************************************************)
(* Configuration: the operations of JsonDict on configurations, the calls  *)
(* of the wrapper and of its batch jobs, batch projects, and the merging   *)
(* of their outputs, each on its own.  Variables of the other components   *)
(* are None.                                                               *)
(***************************************************************************)
EXTENDS Integers, Sequences, SequencesExt, TLC

CONSTANTS None, All

VARIABLES component,                                   \* the one that this behaviour is about
          heap, docs, order, last, ops,
          args, pc, config, grid, copies, saved, epilog, code, submitted,
          projects, raised,
          kind, listing, project_dir, project_subdir, jobs, merged, failed, script

JsonVars == <<heap, docs, order, last, ops>>
WrapperVars == <<args, pc, config, grid, copies, saved, epilog, code, submitted>>
GridVars == <<projects, raised>>
MergeVars == <<kind, listing, project_dir, project_subdir, jobs, merged, failed, script>>
vars == <<component, JsonVars, WrapperVars, GridVars, MergeVars>>
NoJson == heap = None /\ docs = None /\ order = None /\ last = None /\ ops = None
NoWrapper == /\ args = None /\ pc = None /\ config = None /\ grid = None /\ copies = None
             /\ saved = None /\ epilog = None /\ code = None /\ submitted = None
NoGrid == projects = None /\ raised = None
NoMerge == /\ kind = None /\ listing = None /\ project_dir = None /\ project_subdir = None
           /\ jobs = None /\ merged = None /\ failed = None /\ script = None

Trees == INSTANCE JsonTools WITH Comments <- {}, Files <- <<>>, Patterns <- <<>>, Remote <- {}, Copy <- <<>>
Dict(f) == Trees!Dict(f)
A(x) == Trees!Atom(x)
L(s) == Trees!Arr(s)

-----------------------------------------------------------------------------
(* Configurations with lists and dictionaries one and two levels down,     *)
(* conflicts of kinds, comments, nick names, includes (of a file that      *)
(* includes another one) and remote files.                                 *)
JsonFiles == "f" :> Dict("x" :> A("f") @@ "L" :> L(<<A("f")>>) @@ "y" :> A("#v") @@ "include" :> L(<<A("g")>>))
             @@ "g" :> Dict("x" :> A("g") @@ "z" :> A("g"))
Plain == {Dict("A" :> Dict("L" :> L(<<A("1")>>) @@ "x" :> A("1"))),
          Dict("B" :> Dict("L" :> L(<<A("2"), A("#v")>>) @@ "D" :> Trees!EmptyDict) @@ "C" :> Dict("L" :> L(<<A("3")>>))),
          Dict("A" :> Dict("x" :> A("2") @@ "L" :> L(<<A("4")>>)) @@ "B" :> Dict("x" :> A("2"))),
          Dict("A" :> A(None) @@ "B" :> Dict("L" :> A("1"))),
          Dict("A" :> A("1") @@ "B" :> L(<<A("2")>>)),
          Trees!EmptyDict}
Special == {Dict("#k" :> A("1") @@ "x" :> A("#v") @@ "r" :> A("root://a") @@ "s" :> A("root://b") @@ "L" :> L(<<A("root://a"), A("#v")>>)),
            Dict("A" :> Dict("nick" :> Dict("n" :> A("1") @@ "m" :> L(<<A("2")>>)))
                 @@ "B" :> Dict("nick" :> Dict("n" :> A("1") @@ "default" :> A("2")))),
            Dict("include" :> A("f") @@ "x" :> A("1") @@ "A" :> Dict("include" :> A("g"))),
            Dict("include" :> L(<<A("g"), A("f")>>) @@ "L" :> L(<<A("1"), Dict("include" :> A("g"))>>)),
            Dict("include" :> A("f") @@ "property" :> A("L")), Dict("property" :> L(<<A("f"), A("g")>>)),
            Dict("property" :> A("g") @@ "#k" :> L(<<A("#v")>>))}
Forth == <<"#k", "A", "B", "C", "D", "L", "default", "include", "m", "n", "nick", "property", "r", "s", "x", "y", "z">>
Json == INSTANCE JsonConfigs WITH
          Comments <- {"#k", "#v"}, Files <- JsonFiles, Patterns <- ("n" :> {"n", "nm"} @@ "m" :> {"nm"}), Remote <- {"root://a", "root://b"},
          Copy <- ("root://a" :> "tmp_a" @@ "root://b" :> "tmp_b"),
          Documents <- Plain \cup Special, Orders <- {Forth, Reverse(Forth)}, MaxOps <- 2

-----------------------------------------------------------------------------
(* Command lines: lists of input files of two nicknames, two base          *)
(* configurations, up to two options of pipelines, remote files, limits.   *)
Nick == [f \in {"kappa_A_1", "kappa_A_2", "kappa_B_1", "root://1", "x"} |->
           CASE f = "kappa_B_1" -> "B" [] f = "x" -> "" [] OTHER -> "A"]
PerNick(x, y) == Dict("nick" :> Dict(("A" :> A(x)) @@ ("default" :> A(y))))
Root(f) == [kind |-> "root", file |-> f]
Several == <<[kind |-> "list", entries |-> <<Root("kappa_A_1"), Root("kappa_A_2")>>], Root("kappa_B_1"), [kind |-> "other"]>>
Bases == {<<Dict("lumi" :> A("$X") @@ "cut" :> PerNick("tight", "loose"))>>,
          <<Dict("lumi" :> A("low")), Dict("lumi" :> A("high") @@ "InputFiles" :> L(<<A("kappa_A_1")>>))>>}
\* Two channels and a shift each; the second option adds one more pipeline.
Channels == Dict("ee" :> Dict("id" :> A("e")) @@ "em" :> Dict("id" :> PerNick("e", "m")))
Shifts == Dict("up" :> Dict("s" :> A("1")) @@ "no" :> Dict("id" :> A("never")))
Electrons(k, v) == Dict("e" :> Dict(k :> A(v)))
\* Two copies whose names have the name of another pipeline in common.
Colliding == <<<<<<Dict("e_1" :> Dict("id" :> A("e")) @@ "e_2" :> Dict("id" :> A("e")) @@ "e" :> Dict("id" :> A("m")))>>>>>>
PipelineArgs == {<<>>, <<<<<<Channels>>, <<Shifts>>>>>>, <<<<<<Channels>>>>, <<<<Electrons("id", "e"), Electrons("s", "1")>>>>>>,
                 Colliding}
Options == INSTANCE ArtusWrapper WITH Args <- {}, Comments <- {}, Files <- <<>>, Patterns <- <<>>, Remote <- {}, Copy <- <<>>, Env <- <<>>, Exits <- {}
Common == [Options!Default EXCEPT !.inputs = Several]
PlainArgs == {[Common EXCEPT !.base = b, !.pipelines = p, !.batch = x, !.nEvents = n, !.copyRemote = c] :
                b \in Bases, p \in PipelineArgs, x \in BOOLEAN, n \in {None, "10"}, c \in BOOLEAN}
OtherArgs == {[a EXCEPT !.inputs = i, !.fast = f, !.pipelineBase = q, !.noRun = r, !.nick = n, !.profile = p] :
                a \in {x \in PlainArgs : x.nEvents = None /\ ~x.copyRemote /\ x.pipelines \notin {<<>>, Colliding}},
                i \in {None, <<>>, <<Root("root://1"), Root("x")>>}, f \in {None, 1},
                q \in {<<>>, <<Dict("id" :> A("base"))>>}, r \in BOOLEAN, n \in {"auto", "B"}, p \in BOOLEAN}
Args == {a \in PlainArgs \cup OtherArgs : a.nEvents # None => ~a.copyRemote}
Wrapper == INSTANCE ArtusWrapper WITH Comments <- {"#"}, Files <- <<>>, Patterns <- [k \in {"A", "B"} |-> {k}], Remote <- {"root://1"}, Copy <- ("root://1" :> "/tmp/1"),
                                      Env <- ("$X" :> "/x"), Exits <- {0, 1, 256}

-----------------------------------------------------------------------------
(* Two samples, one of them with a file whose name has no nickname; the    *)
(* outputs of two projects with two nicknames and two files of any kind.   *)
Grid == INSTANCE GridProjects WITH failed <- raised, Samples <- ("A" :> <<"a1", "a2", "a3">> @@ "B" :> <<"b1">>),
                                   Nameless <- {"b1"}, FilesPerJob <- 2, Pilots <- {All}, MaxProjects <- 3
Merge == INSTANCE MergeOutputs WITH Projects <- {"p1", "p2"}, Nicks <- {"n1", "n2"}, Files <- {"f1", "f2"}

-----------------------------------------------------------------------------
Init ==
  \/ component = "JsonConfigs" /\ Json!Init /\ NoWrapper /\ NoGrid /\ NoMerge
  \/ component = "ArtusWrapper" /\ Wrapper!Init /\ NoJson /\ NoGrid /\ NoMerge
  \/ component = "GridProjects" /\ Grid!Init /\ NoJson /\ NoWrapper /\ NoMerge
  \/ component = "MergeOutputs" /\ Merge!Init /\ NoJson /\ NoWrapper /\ NoGrid

JsonNext == component = "JsonConfigs" /\ Json!Next /\ UNCHANGED <<component, WrapperVars, GridVars, MergeVars>>
WrapperNext == component = "ArtusWrapper" /\ Wrapper!Next /\ UNCHANGED <<component, JsonVars, GridVars, MergeVars>>
GridNext == component = "GridProjects" /\ Grid!Next /\ UNCHANGED <<component, JsonVars, WrapperVars, MergeVars>>
MergeNext == component = "MergeOutputs" /\ Merge!Next /\ UNCHANGED <<component, JsonVars, WrapperVars, GridVars>>
Next == JsonNext \/ WrapperNext \/ GridNext \/ MergeNext
Spec == Init /\ [][Next]_vars /\ WF_vars(MergeNext)

-----------------------------------------------------------------------------
Of(name, property) == component = name => property

\* Merging keeps the entries of both configurations and the first one wins, a
\* difference tells how to get the second one from the first, included files give
\* defaults only, and only downloaded files are replaced (jsonTools.py: deepmerge,
\* deepdiff, deepinclude, deepreplaceremotefiles).
ConfigurationsMerge == Of("JsonConfigs",
  Json!MergedAsTold /\ Json!DiffReconstructs /\ Json!IncludesAreDefaults /\ Json!NothingElseReplaced)

\* What a local call and a batch job run with is what the options of the first call
\* describe, each input file runs once and for its nickname, and a failure has an
\* exit code; a described pipeline may only be missing if copies are renamed to the name
\* of another pipeline (artusWrapper.py: run, import_analysis_configs, expandConfig,
\* remove_pipeline_copies).
JobsRunAsTold == Of("ArtusWrapper",
  Wrapper!JobsRunAsTold /\ Wrapper!PipelinesAsTold /\ Wrapper!FilesOnce /\ Wrapper!FailureIsTold)

\* No input file of a batch project is lost when what is left is submitted again,
\* and every output of the projects is merged once (artusWrapper.py:
\* removeProcessedFiles, artusMergeOutputs.py: merge_local).
NothingLost == /\ Of("GridProjects", Grid!NothingLost /\ Grid!JobsAreSorted)
               /\ Of("MergeOutputs", Merge!EveryFileMerged /\ Merge!TargetsDiffer /\ Merge!ScratchSuffices)

\* The pool never gets a merge that would leave the script polling
\* (artusMergeOutputs.py: merge_local, tools.py: parallelize).
ScriptEnds == component = "MergeOutputs" => Merge!ScriptEnds
=============================================================================
