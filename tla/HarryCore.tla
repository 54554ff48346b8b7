------------------------------ MODULE HarryCore ------------------------------
(***************************************************************************)
(* One call of harry.py (HarryCore, core.py; HarryParser; PlotData.save):  *)
(* a first parse that finds the modules, a second one with the options     *)
(* that they declare, the chain of processors, and the export of the       *)
(* arguments and of the plots.                                             *)
(***************************************************************************)
EXTENDS Integers, Sequences, SequencesExt, FiniteSetsExt, Functions, TLC

CONSTANTS Kind,          \* available processors: their base class
          Declares,      \* the options that a module adds, with their defaults
          CommandLines,  \* options given on the command line
          JsonFiles,     \* contents of the JSON defaults: <<>> or <<options>>
          Unset          \* None of Python

VARIABLES cli, json, pc, args, defaults, processors, prepared, done, figure, files, toExport, exported, remote, end
coreVars == <<cli, json, pc, args, defaults, processors, prepared, done, figure, files, toExport, exported, remote, end>>
setup == <<cli, json>>
outputs == <<figure, files, exported, remote>>

\* Values: a string or a list of strings.  A list option that is not given has a
\* string as its default, the command line always gives a list.
Str(x) == [str |-> x]
Lst(x) == [list |-> x]
BaseDefaults ==
  [input_modules |-> Str("InputRoot"), analysis_modules |-> Lst(<<>>), plot_modules |-> Str("PlotMpl"),
   list_available_modules |-> Str("False"), export_json |-> Str("default"), comment |-> Str("")]
\* The options of both, and of those that both have the ones of given.
Over(given, other) ==
  [k \in DOMAIN given \cup DOMAIN other |-> IF k \in DOMAIN given THEN given[k] ELSE other[k]]
NoOptions == [k \in {} |-> Unset]
ModuleOptions == {"input_modules", "analysis_modules", "plot_modules"}
Json(j) == IF j = <<>> THEN NoOptions ELSE j[1]

\* The options that name modules have nargs="+" (harryparser.py:41-46): what the
\* command line gives for them is a list that is not empty.  A JSON file may also
\* have a string or an empty list, and no module declares one of these options.
IsList(v) == "list" \in DOMAIN v => v.list \in Seq(Range(v.list))
ASSUME CommandLineType == \A c \in CommandLines : \A k \in DOMAIN c \cap ModuleOptions : "list" \in DOMAIN c[k] /\ IsList(c[k]) /\ c[k].list # <<>>
ASSUME JsonFilesType == \A j \in JsonFiles : \A k \in DOMAIN Json(j) \cap ModuleOptions : IsList(Json(j)[k])
ASSUME DeclaresType == \A m \in DOMAIN Kind : DOMAIN Declares[m] \cap ModuleOptions = {}

-----------------------------------------------------------------------------
\* The first parse: what differs from the default wins over the JSON file.
FirstArgs(c, j) ==
  LET base == Over(Restrict(c, DOMAIN c \cap DOMAIN BaseDefaults), BaseDefaults)
      changed == RestrictDomain(base, LAMBDA k : base[k] # BaseDefaults[k])
  IN  Over(changed, Over(Json(j), base))

\* A string is one module; among the analysis modules it is taken apart into
\* characters, which are no modules.
Names(a, key) == IF "list" \in DOMAIN a[key] THEN a[key].list
                 ELSE IF key = "analysis_modules" THEN <<"its characters">> ELSE <<a[key].str>>
Requested(a) == [kind \in {"Input", "Analysis", "Plot"} |->
  Names(a, CASE kind = "Input" -> "input_modules" [] kind = "Analysis" -> "analysis_modules" [] OTHER -> "plot_modules")]
IsValidProcessor(name, kind) == name \in DOMAIN Kind /\ Kind[name] = kind
AllValid(a) == \A kind \in DOMAIN Requested(a) : \A n \in Range(Requested(a)[kind]) : IsValidProcessor(n, kind)
Chain(a) == Requested(a)["Input"] \o Requested(a)["Analysis"] \o Requested(a)["Plot"]

\* The defaults of the second parse: a later module redefines an option of an
\* earlier one, the JSON file overrides all of them.
Declaring(chain, k) == {i \in DOMAIN chain : k \in DOMAIN Declares[chain[i]]}
Declared(chain) ==
  [k \in DOMAIN BaseDefaults \cup UNION {DOMAIN Declares[m] : m \in Range(chain)} |->
     IF Declaring(chain, k) = {} THEN BaseDefaults[k] ELSE Declares[chain[Max(Declaring(chain, k))]][k]]
Defaults(chain, j) == Over(Json(j), Declared(chain))
FinalArgs(c, chain, j) == Over(c, Defaults(chain, j))

\* What is exported: not the arguments below, nor the defaults of the parser
\* that the JSON file does not set.
NotExported == {"quantities", "export_json", "live", "userpc", "json_defaults"}
AllButDefaults(a, d, j) ==
  RestrictDomain(a, LAMBDA k : k \notin NotExported /\ a[k] # d[k])
ExportArgs(a, d, j) ==
  RestrictDomain(a, LAMBDA k : k \notin NotExported /\ (a[k] = d[k] => k \in DOMAIN Json(j)))

-----------------------------------------------------------------------------
CoreInit ==
  /\ cli \in CommandLines /\ json \in JsonFiles
  /\ pc = "first" /\ args = NoOptions /\ defaults = NoOptions /\ processors = <<>>
  /\ prepared = <<>> /\ done = <<>>
  /\ figure = Unset /\ files = <<>> /\ toExport = NoOptions /\ exported = <<>> /\ remote = <<>> /\ end = Unset

Reached(place) == pc = place /\ end = Unset
Stop(why) == end' = why

FirstParse ==
  /\ Reached("first")
  /\ args' = FirstArgs(cli, json) /\ pc' = "select"
  /\ UNCHANGED <<setup, outputs, defaults, processors, prepared, done, toExport, end>>

Select ==
  /\ Reached("select")
  /\ IF args["list_available_modules"] # Str("False") THEN Stop("exit 0") /\ UNCHANGED <<pc, processors>>
     ELSE IF ~AllValid(args) THEN Stop("exit 1") /\ UNCHANGED <<pc, processors>>
     ELSE pc' = "reparse" /\ processors' = Chain(args) /\ UNCHANGED end
  /\ UNCHANGED <<setup, outputs, args, defaults, prepared, done, toExport>>

\* An option on the command line that no module declares ends the program.  An
\* export that is to update the JSON file gets its name.
Updated(a) == IF a["export_json"] # Str("update") THEN a
              ELSE [a EXCEPT !["export_json"] = Str(IF json = <<>> THEN "default" ELSE "defaults.json")]
Reparse ==
  /\ Reached("reparse")
  /\ IF DOMAIN cli \subseteq DOMAIN Declared(processors)
     THEN LET a == FinalArgs(cli, processors, json)
          IN  /\ defaults' = Defaults(processors, json)
              /\ toExport' = ExportArgs(a, Defaults(processors, json), json)
              /\ args' = Updated(a)
              /\ pc' = "chain" /\ UNCHANGED end
     ELSE Stop("exit 2") /\ UNCHANGED <<defaults, toExport, args, pc>>
  /\ UNCHANGED <<setup, outputs, processors, prepared, done>>

\* The next processor prepares the arguments, and then runs: a plot module names
\* the output files, and becomes the plot that is saved.
Fails == \E why \in {"exit 1", "raised"} : Stop(why)
Prepare ==
  /\ Reached("chain") /\ prepared = done /\ done # processors
  /\ LET m == processors[Len(done) + 1]
     IN  \/ /\ prepared' = Append(prepared, m)
            /\ IF Kind[m] = "Plot"
               THEN /\ files' = <<IF m = "ExportRoot" THEN "plot.root" ELSE "plot.png">>
                    /\ args' = [args EXCEPT !["export_json"] = IF @ = Str("default") THEN Str("plot.json") ELSE @]
               ELSE UNCHANGED <<files, args>>
            /\ UNCHANGED end
         \/ Fails /\ UNCHANGED <<prepared, files, args>>
  /\ UNCHANGED <<setup, pc, defaults, processors, done, figure, toExport, exported, remote>>
Run ==
  /\ Reached("chain") /\ prepared # done
  /\ \/ done' = prepared /\ figure' = (IF Kind[Last(prepared)] = "Plot" THEN Last(prepared) ELSE figure) /\ UNCHANGED end
     \/ Fails /\ UNCHANGED <<done, figure>>
  /\ UNCHANGED <<setup, pc, args, defaults, processors, prepared, files, toExport, exported, remote>>

Export ==
  /\ Reached("chain") /\ done = processors
  /\ pc' = "save"
  /\ IF args["export_json"].str \in {"default", "False", "None"}
     THEN args' = [args EXCEPT !["export_json"] = Str("None")] /\ UNCHANGED exported
     ELSE exported' = <<args["export_json"].str, toExport>> /\ UNCHANGED args
  /\ UNCHANGED <<setup, defaults, processors, prepared, done, figure, files, toExport, remote, end>>

\* PlotData.save and webplotting: the plot is asked to finish before it is
\* compared with None; the copied files are appended to the very list of output
\* files, and the name of the JSON file is None if there is none.
SavePlot ==
  /\ Reached("save") /\ pc' = "end"
  /\ IF figure = Unset THEN Stop("raised") /\ UNCHANGED <<files, remote>>
     ELSE IF "www" \notin DOMAIN args \/ args["www"] = Str("None") THEN Stop("returned") /\ UNCHANGED <<files, remote>>
     ELSE LET copied == files \o <<"index.html", args["export_json"].str>>
          IN  /\ files' = copied
              /\ IF "None" \in Range(copied) THEN Stop("raised") /\ UNCHANGED remote
                 ELSE Stop("returned") /\ remote' = copied
  /\ UNCHANGED <<setup, args, defaults, processors, prepared, done, figure, toExport, exported>>

CoreNext == FirstParse \/ Select \/ Reparse \/ Prepare \/ Run \/ Export \/ SavePlot
CoreSpec == CoreInit /\ [][CoreNext]_coreVars

-----------------------------------------------------------------------------
\* The exported JSON file is the plot: harry.py with nothing but this file has
\* the same modules and the same arguments, except the ones that are not
\* exported (core.py:179-189).
Again == LET j == <<exported[2]>>
         IN  FinalArgs(NoOptions, Chain(FirstArgs(NoOptions, j)), j)
ExportIsThePlot ==
  pc \in {"save", "end"} /\ exported # <<>> =>
    /\ Chain(FirstArgs(NoOptions, <<exported[2]>>)) = processors
    /\ \A k \in DOMAIN args \ NotExported : k \in DOMAIN Again /\ Again[k] = args[k]

\* The modules are chosen in the first parse, from arguments that the second
\* parse reads again with other defaults: the chain that runs is the one that
\* the final arguments name, and a plot is published when all of it has run, with
\* the arguments that made it.
ChainAsParsed ==
  /\ pc \in {"chain", "save"} => processors = Chain(args)
  /\ pc = "end" /\ remote # <<>> => done = processors /\ exported # <<>> /\ exported[1] \in Range(remote)

\* The exported JSON file makes the plot again, and the modules that run are the ones
\* that the final arguments name (core.py: HarryCore.__init__, run).
ExportReproduces == ExportIsThePlot /\ ChainAsParsed
=============================================================================
