---------------------------- MODULE ArtusWrapper ----------------------------
(***************************************************************************)
(* ArtusWrapper (Configuration/python/artusWrapper.py): one call builds a  *)
(* configuration from base configurations, pipelines and input files, saves*)
(* it and runs the executable, a profiler or go.py; a batch job is another *)
(* call of the wrapper, with the arguments that the first one wrote.       *)
(* Configurations are the trees of JsonTools; the ones here have no        *)
(* "include".                                                              *)
(***************************************************************************)
EXTENDS JsonTools

L == INSTANCE ListTools

CONSTANTS Args,    \* the command lines
          Nick,    \* the nickname in a file name, "" if there is none
          Env,     \* the values that contain an environment variable, and their expansion
          Exits    \* the exit codes of the programs that are called

VARIABLES args,       \* the options of this call
          pc,         \* how far it is
          config,     \* _config
          grid,       \* _gridControlInputFiles: nickname -> entries of the dbs file
          copies,     \* is there a temporary directory with copies of remote files?
          saved,      \* the configuration written to _configFilename
          epilog,     \* the words of "epilog arguments"
          code,       \* the exit code of the program that was called
          submitted   \* of a job: the call that submitted it

vars == <<args, pc, config, grid, copies, saved, epilog, code, submitted>>

\* The options of the parser, with their defaults; None is not given.
Default ==
  [batch |-> FALSE, inputs |-> None, base |-> <<>>, pipelineBase |-> <<>>, pipelines |-> <<>>, nick |-> "auto",
   envvars |-> TRUE, copyRemote |-> FALSE, fast |-> None, nEvents |-> None, skipEvents |-> None,
   noRun |-> FALSE, profile |-> FALSE, ldPaths |-> FALSE, pilot |-> None]

Setting(k, t) == Dict(k :> t)
Has(t, k) == k \in DOMAIN t.dict
Put(t, k, v) == Dict((k :> v) @@ t.dict)
PutIfGiven(t, k, v) == IF v = None THEN t ELSE Put(t, k, Atom(v))
MergeAllReversed(ts) == FoldLeft(LAMBDA x, y : MergeTrees(y, x), EmptyDict, ts)
MergeAllTrees(ts) == FoldLeft(MergeTrees, EmptyDict, ts)

-----------------------------------------------------------------------------
\* setInputFilenames: an entry is a file, or a pattern, directory or text file
\* that names more entries; dbs files are read by GridProjects.
extractNickname(f, nick) == IF Nick[f] = "" THEN nick ELSE Nick[f]
RECURSIVE setInputFilenames(_, _, _)
setInputFilenames(r, entries, nick) ==
  LET Entry(q, e) ==
        CASE e.kind = "root" ->
               LET n == extractNickname(e.file, nick)
               IN  [inputs |-> Append(q.inputs, e.file),
                    grid |-> (n :> Append(IF n \in DOMAIN q.grid THEN q.grid[n] ELSE <<>>, e.file)) @@ q.grid]
          [] e.kind = "list" -> setInputFilenames(q, e.entries, nick)
          [] OTHER -> q
  IN  FoldLeft(Entry, r, entries)
Files2Entries(files) == [i \in DOMAIN files |-> [kind |-> "root", file |-> files[i].atom]]

removeUnwantedInputFiles(a, inputs) ==
  IF a.batch THEN <<"">> ELSE IF a.fast # None THEN SubSeq(inputs, 1, Min({a.fast, Len(inputs)})) ELSE inputs

\* The base configurations; the input files of the command line replace theirs.
BaseConfig(a) == MergeAllTrees(a.base)
Inputs(a) ==
  setInputFilenames([inputs |-> <<>>, grid |-> <<>>],
                    IF a.inputs # None THEN a.inputs ELSE Files2Entries(BaseConfig(a).dict["InputFiles"].list), a.nick)
Atoms(s) == Arr([i \in DOMAIN s |-> Atom(s[i])])
InputConfig(a) ==
  LET events == PutIfGiven(PutIfGiven(BaseConfig(a), "ProcessNEvents", a.nEvents), "FirstEvent", a.skipEvents)
  IN  Put(events, "InputFiles", Atoms(removeUnwantedInputFiles(a, Inputs(a).inputs)))

-----------------------------------------------------------------------------
\* Pipelines: the entries of an option are merged, the entries expanded to all
\* combinations, the options merged, and the base pipelines put before them.
\* No two combinations of an option have the same name here.
Combined(x, y) ==
  LET names == {<<j, k>> : j \in DOMAIN x.dict, k \in DOMAIN y.dict}
      Name(p) == p[1] \o "_" \o p[2]
      Of(n) == CHOOSE p \in names : Name(p) = n
  IN  Dict([n \in {Name(p) : p \in names} |-> MergeTrees(x.dict[Of(n)[1]], y.dict[Of(n)[2]])])
ExpandAllTrees(ts) == FoldLeft(Combined, ts[1], Tail(ts))
PipelineConfig(a) ==
  IF a.pipelines = <<>> THEN EmptyDict
  ELSE Setting("Pipelines", MergeAllTrees([i \in DOMAIN a.pipelines |->
         ExpandAllTrees([j \in DOMAIN a.pipelines[i] |-> MergeAllTrees(a.pipelines[i][j])])]))
\* The constructor takes one argument: more of them are an exception.
BaseRaises(a) == a.pipelineBase # <<>> /\ (a.pipelines = <<>> \/ Len(a.pipelineBase) > 1)
PipelineBaseConfig(a) ==
  IF a.pipelineBase = <<>> THEN EmptyDict
  ELSE Setting("Pipelines", Dict([p \in DOMAIN PipelineConfig(a).dict["Pipelines"].dict |-> a.pipelineBase[1]]))
WithPipelines(t, a) == MergeTrees(t, MergeTrees(PipelineBaseConfig(a), PipelineConfig(a)))

-----------------------------------------------------------------------------
\* determineNickname, of the first input file.  No two expressions of a "nick"
\* dictionary are found in the same nickname here.
determineNickname(t, nick) ==
  IF nick = "auto" THEN extractNickname(t.dict["InputFiles"].list[1].atom, nick) ELSE nick
ForNick(t, a) ==
  LET nick == determineNickname(t, a.nick) IN Put(Uncommented(deepresolvenicks(t, nick, SetToSeq(DOMAIN Patterns))), "Nickname", Atom(nick))

\* remove_pipeline_copies.  Equal pipelines: the first one stays, under a name
\* made of what the names have in common.  The dictionaries are walked in the
\* orders given.
Letters(s) == [i \in 1..Len(s) |-> SubSeq(s, i, i)]
Word(s) == FoldLeft(LAMBDA x, y : x \o y, "", s)
RECURSIVE Squeezed(_)
Squeezed(s) ==
  IF Len(s) < 2 THEN s
  ELSE IF s[1] = "_" /\ s[2] = "_" THEN <<"_">> \o Squeezed(SubSeq(s, 3, Len(s))) ELSE <<s[1]>> \o Squeezed(Tail(s))
Stripped(s) ==
  LET letters == {i \in DOMAIN s : s[i] # "_"} IN IF letters = {} THEN <<>> ELSE SubSeq(s, Min(letters), Max(letters))
CommonName(p, q) == Word(Squeezed(Stripped(L!find_common_string(Letters(p), Letters(q)))))

CopiesOf(pipes, order, i, gone) == {j \in (i + 1)..Len(order) : order[j] \notin gone /\ pipes[order[j]] = pipes[order[i]]}
FindCopies(pipes, order) ==
  LET First(r, i) ==
        LET name(n, j) == CommonName(n, order[j])
            found == CopiesOf(pipes, order, i, r.gone)
        IN  IF order[i] \in r.gone \/ found = {} THEN r
            ELSE [gone |-> r.gone \cup {order[j] : j \in found},
                  new |-> (order[i] :> FoldLeft(name, order[i], SetToSortSeq(found, <))) @@ r.new]
  IN  FoldLeft(First, [gone |-> {}, new |-> <<>>], [i \in DOMAIN order |-> i])
Rename(pipes, new, order) ==
  FoldLeft(LAMBDA f, old : (new[old] :> f[old]) @@ RestrictDomain(f, LAMBDA p : p # old), pipes, order)
Pipelines(t) == IF Has(t, "Pipelines") THEN t.dict["Pipelines"].dict ELSE <<>>
RemovedCopies(pipes, r, order) == Rename(RestrictDomain(pipes, LAMBDA p : p \notin r.gone), r.new, order)

-----------------------------------------------------------------------------
\* doExpandvars.
RECURSIVE Expanded(_)
Expanded(t) ==
  CASE IsDict(t) -> Dict([k \in DOMAIN t.dict |-> Expanded(t.dict[k])])
    [] IsArr(t) -> Arr([i \in DOMAIN t.list |-> Expanded(t.list[i])])
    [] OTHER -> IF t.atom \in DOMAIN Env THEN Atom(Env[t.atom]) ELSE t
LocalFiles(t) == deepreplaceremotefiles(t, Remote)
EnvvarsHere(a) == a.envvars /\ ~a.batch
FinalConfig(t, a) ==
  LET expanded == IF EnvvarsHere(a) THEN Expanded(t) ELSE t
  IN  Put(IF a.copyRemote /\ ~a.batch THEN LocalFiles(expanded) ELSE expanded, "LogLevel", Atom("info"))

\* The epilog arguments.  A piece that is not followed by a space is glued to
\* the next one.
Piece(w) == [words |-> w, space |-> TRUE]
Pieces(a) ==
  <<Piece(<<"-c">>), Piece(<<"--nick">>), Piece(<<"-i">>)>>
  \o (IF a.nEvents # None THEN <<Piece(<<"-e">>), [words |-> <<"--skip-events">>, space |-> FALSE]>> ELSE <<>>)
  \o (IF a.copyRemote THEN <<Piece(<<"--copy-remote-files">>)>> ELSE <<>>)
  \o (IF a.ldPaths THEN <<Piece(<<"--ld-library-paths">>)>> ELSE <<>>)
Glue(words, p) ==
  IF words # <<>> /\ ~Last(words).space THEN Append(Front(words), [words |-> Last(words).words \o p.words, space |-> p.space])
  ELSE Append(words, p)
EpilogArguments(a) == {p.words : p \in Range(FoldLeft(Glue, <<>>, Pieces(a)))}

-----------------------------------------------------------------------------
Init ==
  /\ args \in Args
  /\ pc = "parsed" /\ config = EmptyDict /\ grid = <<>> /\ copies = FALSE /\ saved = None
  /\ epilog = {} /\ code = 0 /\ submitted = None

\* Without files on the command line, the configuration must have some.
ReadInputs ==
  /\ pc = "parsed"
  /\ IF args.inputs = None /\ ~Has(BaseConfig(args), "InputFiles") THEN pc' = "failed" /\ UNCHANGED <<config, grid>>
     ELSE pc' = "inputs" /\ config' = InputConfig(args) /\ grid' = Inputs(args).grid
  /\ UNCHANGED <<args, copies, saved, epilog, code, submitted>>

MergePipelines ==
  /\ pc = "inputs"
  /\ IF BaseRaises(args) THEN pc' = "failed" /\ UNCHANGED config
     ELSE pc' = "pipelines" /\ config' = WithPipelines(config, args)
  /\ UNCHANGED <<args, grid, copies, saved, epilog, code, submitted>>

ResolveNicks ==
  /\ pc = "pipelines"
  /\ IF args.batch THEN pc' = "nick" /\ config' = Put(Uncommented(config), "BatchMode", Atom("True"))
     ELSE IF args.nick = "auto" /\ config.dict["InputFiles"].list = <<>> THEN pc' = "failed" /\ UNCHANGED config
     ELSE pc' = "nick" /\ config' = ForNick(config, args)
  /\ UNCHANGED <<args, grid, copies, saved, epilog, code, submitted>>

RemovePipelineCopies ==
  /\ pc = "nick"
  /\ LET pipes == Pipelines(config)
     IN  \E order \in SetToSeqs(DOMAIN pipes) :
           LET r == FindCopies(pipes, order)
           IN  \E names \in SetToSeqs(DOMAIN r.new) :
                 config' = IF pipes = <<>> THEN config ELSE Put(config, "Pipelines", Dict(RemovedCopies(pipes, r, names)))
  /\ pc' = "copies"
  /\ UNCHANGED <<args, grid, copies, saved, epilog, code, submitted>>

ExpandValues ==
  /\ pc = "copies"
  /\ config' = FinalConfig(config, args)
  /\ copies' = (args.copyRemote /\ ~args.batch)
  /\ pc' = "expanded"
  /\ UNCHANGED <<args, grid, saved, epilog, code, submitted>>

saveConfig ==
  /\ pc = "expanded"
  /\ saved' = config /\ pc' = "saved"
  /\ UNCHANGED <<args, config, grid, copies, epilog, code, submitted>>

\* run: a profiler, whose exit code is not looked at; go.py; or the executable.
Called(a) == a.profile \/ ~a.noRun
Execute ==
  /\ pc = "saved"
  /\ epilog' = IF args.batch /\ ~args.profile THEN EpilogArguments(args) ELSE {}
  /\ \E e \in Exits : code' = IF Called(args) THEN e ELSE 0
  /\ pc' = "executed"
  /\ UNCHANGED <<args, config, grid, copies, saved, submitted>>
CleanUp ==
  /\ pc = "executed"
  /\ copies' = FALSE /\ pc' = "done"
  /\ UNCHANGED <<args, config, grid, saved, epilog, code, submitted>>
ExitCode(e) == IF e < 256 THEN e ELSE 1
Returned == ExitCode(IF args.profile THEN 0 ELSE code)

\* A job of the submitted project: a call with the arguments of the epilog, which
\* stops if the parser does not understand them.
JobArgs(nick, files) ==
  [Default EXCEPT !.base = <<saved>>, !.nick = nick, !.nEvents = args.nEvents,
                  !.skipEvents = IF args.nEvents = None THEN None ELSE "0", !.copyRemote = args.copyRemote,
                  !.inputs = [i \in DOMAIN files |-> [kind |-> "root", file |-> files[i]]]]
StartJob ==
  /\ pc = "done" /\ args.batch /\ ~args.profile /\ ~args.noRun /\ code = 0
  /\ \E nick \in DOMAIN grid : args' = JobArgs(nick, grid[nick])
  /\ submitted' = [args |-> args, config |-> config]
  /\ pc' = IF \A w \in epilog : Len(w) = 1 THEN "parsed" ELSE "refused"
  /\ config' = EmptyDict /\ grid' = <<>> /\ saved' = None /\ epilog' = {}
  /\ UNCHANGED <<copies, code>>

Next ==
  \/ ReadInputs \/ MergePipelines \/ ResolveNicks \/ RemovePipelineCopies \/ ExpandValues
  \/ saveConfig \/ Execute \/ CleanUp \/ StartJob

Spec == Init /\ [][Next]_vars

-----------------------------------------------------------------------------
\* The value of a setting of the main configuration: the one of the first base
\* configuration that has it, for the nickname if it depends on it.
Value(t, nick) == IF IsDict(t) /\ Has(t, "nick") THEN LET d == t.dict["nick"] IN IF Has(d, nick) THEN d.dict[nick] ELSE d.dict["default"] ELSE t
FirstWith(ts, k) == LET with == {i \in DOMAIN ts : Has(ts[i], k)} IN ts[Min(with)].dict[k]
InEnv(t) == IF t.atom \in DOMAIN Env THEN Atom(Env[t.atom]) ELSE t
Original == IF submitted = None THEN args ELSE submitted.args

\* What a job runs with is what a local call for its nickname runs with: each
\* setting has the value of the first base configuration that has it, resolved
\* for the nickname, and expanded where the job runs.
JobsRunAsTold ==
  pc = "executed" /\ ~args.batch =>
    \A k \in {"lumi", "cut"} :
      (\E i \in DOMAIN Original.base : Has(Original.base[i], k)) =>
        config.dict[k] = InEnv(Value(FirstWith(Original.base, k), config.dict["Nickname"].atom))

\* A pipeline has, for every combination of the entries of an option, the setting
\* of the common configuration or else the first entry that has it.  After copies are
\* removed, no pipeline has a configuration that the options do not describe, and
\* pipelines with different settings stay different pipelines: each described
\* configuration is there.  Excepted from the latter are calls where the names of copies
\* have a part in common that is a name of another pipeline, or is also common to the
\* copies of another one: the one renamed last replaces the other (artusWrapper.py:278).
Combinations(option) ==
  LET names == [j \in DOMAIN option |-> DOMAIN MergeAllTrees(option[j]).dict]
  IN  {c \in [DOMAIN option -> UNION Range(names)] : \A j \in DOMAIN option : c[j] \in names[j]}
NameOf(choice) == FoldLeft(LAMBDA x, y : x \o "_" \o y, choice[1], Tail(choice))
Selected(option, choice) == [j \in DOMAIN option |-> MergeAllTrees(option[j]).dict[choice[j]]]
Described(name, nick) ==
  LET Parts(option) == LET cs == {c \in Combinations(option) : NameOf(c) = name}
                       IN  IF cs = {} THEN <<>> ELSE Selected(option, CHOOSE c \in cs : TRUE)
      parts == Original.pipelineBase \o FlattenSeq([i \in DOMAIN Original.pipelines |-> Parts(Original.pipelines[i])])
  IN  Dict([k \in UNION {DOMAIN parts[i].dict : i \in DOMAIN parts} |-> Value(FirstWith(parts, k), nick)])
RECURSIVE CommonNames(_)
CommonNames(names) ==
  LET more == names \cup {CommonName(p, q) : <<p, q>> \in {x \in names \X names : x[1] # x[2]}}
  IN  IF more = names THEN names ELSE CommonNames(more)
PipelinesAsTold ==
  pc = "executed" /\ ~args.batch /\ Original.pipelines # <<>> =>
    LET names == UNION {{NameOf(c) : c \in Combinations(o)} : o \in Range(Original.pipelines)}
        told == [n \in names |-> Described(n, config.dict["Nickname"].atom)]
        NamesFor(t) == CommonNames({n \in names : told[n] = t})
        clash == \E s, t \in Range(told) : s # t /\ NamesFor(s) \cap NamesFor(t) # {}
    IN  /\ Range(Pipelines(config)) \subseteq Range(told)
        /\ ~clash => Range(told) \subseteq Range(Pipelines(config))

\* The files of a batch call are the ones found, each for its nickname only, and
\* a local call runs over them unless it is limited.
RECURSIVE Found(_)
Found(entries) ==
  FlattenSeq([i \in DOMAIN entries |-> CASE entries[i].kind = "root" -> <<entries[i].file>>
                                         [] entries[i].kind = "list" -> Found(entries[i].entries)
                                         [] OTHER -> <<>>])
FilesOnce ==
  pc = "executed" /\ Original.inputs # None /\ Original.fast = None =>
    LET files == Found(Original.inputs)
        Occurrences(s, f) == Cardinality({i \in DOMAIN s : s[i] = f})
        run == config.dict["InputFiles"].list
    IN  /\ args.batch => /\ DOMAIN grid = {extractNickname(f, args.nick) : f \in ToSet(files)}
                         /\ \A n \in DOMAIN grid, f \in ToSet(files) :
                              Occurrences(grid[n], f) = IF extractNickname(f, args.nick) = n THEN Occurrences(files, f) ELSE 0
        /\ ~args.batch /\ submitted = None => run = Atoms(files).list
        /\ submitted # None => \A i \in DOMAIN run : extractNickname(run[i].atom, args.nick) = config.dict["Nickname"].atom

\* The shell sees eight bits of the exit code: a failure is still one.
FailureIsTold == pc = "done" /\ ~args.profile /\ code # 0 => Returned % 256 # 0
=============================================================================
