----------------------------- MODULE MultiPlots -----------------------------
(***************************************************************************)
(* Several plots at once (HarryPlotter, harry.py): the configurations and  *)
(* argument strings are repeated to the same number, each pair becomes the *)
(* arguments of one HarryCore, and the plots run one after the other or in *)
(* a pool of processes, where each may exit, raise an exception or be      *)
(* killed, which the pool does not notice (tools.parallelize).             *)
(*                                                                         *)
(* A string of arguments is the list of the "--json-defaults" in it, each  *)
(* with its own settings and those of the "json_defaults" in it.  The      *)
(* files of a plot are its number.                                         *)
(***************************************************************************)
EXTENDS Integers, Sequences, SequencesExt

CONSTANTS None,
          Own, Base, \* settings of configurations, and of their "json_defaults"
          Calls      \* what multi_plots is given

Config == [own : Own, base : Base \cup {None}]
String == Seq(Config)

ASSUME CallsType ==
  Calls \subseteq [configs : {None} \cup Seq(Config \cup {None}), texts : {None} \cup Seq({None} \cup String),
                   processes : Nat, plots : {None} \cup Nat]
ASSUME NoneIsNothing == None \notin Nat /\ None \notin String

VARIABLES call, dicts, texts, harry_args, cores, answers, output_filenames, failed, phase
plotsVars == <<call, dicts, texts, harry_args, cores, answers, output_filenames, failed, phase>>
results == <<cores, answers, output_filenames, failed>>

\* Repeating a list repeats its objects; nothing comes of an empty one.
AsList(x) == IF x = None THEN <<None>> ELSE x
Source(list, i) == ((i - 1) % Len(list)) + 1
Fill(list, n) == IF list = <<>> THEN <<>> ELSE [i \in 1 .. n |-> list[Source(list, i)]]
Count == LET a == Len(AsList(call.configs)) b == Len(AsList(call.texts)) IN IF a > b THEN a ELSE b
\* zip: the pairs of a configuration and a string.
Pairs == IF AsList(call.configs) = <<>> THEN 0 ELSE Len(texts)

PlotsInit ==
  /\ call \in Calls
  /\ dicts = AsList(call.configs)
  /\ texts = <<>> /\ harry_args = <<>> /\ cores = <<>> /\ answers = <<>>
  /\ output_filenames = <<>> /\ failed = <<>> /\ phase = "fill"

\* A pool needs the progress bar off: the option is appended to each string, and
\* None cannot be appended to.
FillUp ==
  /\ phase = "fill"
  /\ LET list == AsList(call.texts)
     IN  IF call.processes > 1 /\ \E i \in DOMAIN list : list[i] = None
         THEN phase' = "raised" /\ UNCHANGED texts
         ELSE phase' = "arguments" /\ texts' = Fill(list, Count)
  /\ UNCHANGED <<call, dicts, harry_args, results>>

\* The arguments of a plot: the settings of the configuration over its base, which is
\* taken out of the configuration, then its string.
Together(d, text) ==
  IF d = None THEN text ELSE <<d>> \o (IF text = None THEN <<>> ELSE text)
Arguments ==
  /\ phase = "arguments" /\ Len(harry_args) < Pairs
  /\ LET i == Len(harry_args) + 1
         s == Source(dicts, i)
     IN  /\ harry_args' = Append(harry_args, Together(dicts[s], texts[i]))
         /\ dicts' = IF dicts[s] = None THEN dicts ELSE [dicts EXCEPT ![s] = [own |-> dicts[s].own, base |-> None]]
  /\ UNCHANGED <<call, texts, results, phase>>

Cut(s) == IF call.plots = None \/ call.plots > Len(s) THEN s ELSE SubSeq(s, 1, call.plots)
Plots == Len(harry_args)
\* An empty list of configurations or of strings leaves a plot without arguments, which
\* neither the plot nor what handles its exception can look up.
Start ==
  /\ phase = "arguments" /\ Len(harry_args) = Pairs
  /\ LET n == Len(Cut(harry_args))
     IN  /\ harry_args' = Cut(harry_args)
         /\ cores' = [i \in 1 .. (IF call.plots = None THEN Count ELSE n) |-> None]
         /\ phase' = CASE call.plots = None /\ n < Count -> "raised"
                       [] n = 0 -> "done"
                       [] n > 1 /\ call.processes > 1 -> "pool"
                       [] OTHER -> "plot"
  /\ UNCHANGED <<call, dicts, texts, answers, output_filenames, failed>>

\* plot, in this process: the core is kept only if it has run.  The only plot of a call
\* takes the call along.
Failure(i, error) == [args |-> harry_args[i], plot |-> i, error |-> error]
Plot ==
  /\ phase = "plot"
  /\ LET i == Len(output_filenames) + Len(failed) + 1
     IN  \/ /\ cores' = [cores EXCEPT ![i] = "core"] /\ output_filenames' = Append(output_filenames, i)
            /\ UNCHANGED failed /\ phase' = IF i = Plots THEN "done" ELSE "plot"
         \/ /\ Plots > 1 /\ failed' = Append(failed, Failure(i, None))
            /\ UNCHANGED <<cores, output_filenames>> /\ phase' = IF i = Plots THEN "done" ELSE "plot"
         \/ Plots = 1 /\ phase' = "raised" /\ UNCHANGED <<cores, output_filenames, failed>>
  /\ UNCHANGED <<call, dicts, texts, harry_args, answers>>

\* pool_plot, in a process of its own: the answer of a plot is its files, or its
\* arguments with the error message, which an exit does not have.  The core stays in
\* the other process.
pool_plot(i, outcome) ==
  CASE outcome = "ok" -> [file |-> i, args |-> None, error |-> None, plot |-> i]
    [] outcome = "exit" -> [file |-> None, args |-> harry_args[i], error |-> None, plot |-> i]
    [] outcome = "raise" -> [file |-> None, args |-> harry_args[i], error |-> "traceback", plot |-> i]
\* What takes the process along, so that no answer comes and the caller polls for ever:
\* the phase is then called after it.
ExitNotCaught == {"exit", "killed"}                  \* mutant: SystemExit ends the process
Vanishing == {"killed"}
Answer ==
  /\ phase = "pool"
  /\ \/ /\ \E outcome \in {"ok", "exit", "raise"} \ Vanishing : answers' = Append(answers, pool_plot(Len(answers) + 1, outcome))
        /\ phase' = IF Len(answers) + 1 = Plots THEN "collect" ELSE "pool"
     \/ phase' \in Vanishing /\ UNCHANGED answers
  /\ UNCHANGED <<call, dicts, texts, harry_args, cores, output_filenames, failed>>

\* The answers are split into files and failures, one by one.
HasFailedByMessage(a) == a.error # None              \* mutant: an exit has no message
HasFailed(a) == a.args # None
Collect ==
  /\ phase = "collect"
  /\ LET a == Head(answers)
     IN  /\ output_filenames' = IF a.file # None THEN Append(output_filenames, a.file) ELSE output_filenames
         /\ failed' = IF HasFailed(a) THEN Append(failed, [args |-> a.args, plot |-> a.plot, error |-> a.error]) ELSE failed
  /\ answers' = Tail(answers)
  /\ phase' = IF Tail(answers) = <<>> THEN "done" ELSE "collect"
  /\ UNCHANGED <<call, dicts, texts, harry_args, cores>>

PlotsNext == FillUp \/ Arguments \/ Start \/ Plot \/ Answer \/ Collect
PlotsSpec == PlotsInit /\ [][PlotsNext]_plotsVars

-----------------------------------------------------------------------------
\* The first n plots are each among the files or the failures, not in both.
SplitOf(files, failures, n) ==
  LET bad == {failures[k].plot : k \in DOMAIN failures}
  IN  /\ Range(files) \cup bad = 1 .. n /\ Range(files) \cap bad = {}
      /\ Len(files) + Len(failures) = n
InOrder(files) == \A j, k \in DOMAIN files : j < k => files[j] < files[k]
TheirOwn(failures) == \A k \in DOMAIN failures : failures[k].args = harry_args[failures[k].plot]

\* No plot is lost: after multi_plots, every requested one is either among the files or
\* among the failures, whatever ended it; the files are in the order of the plots, and
\* a failure has the arguments of its own plot (harry.py:35-60, 107-148).
EveryPlotAccountedFor ==
  /\ phase = "done" => SplitOf(output_filenames, failed, Plots)
  /\ phase \in {"plot", "collect", "done"} => InOrder(output_filenames) /\ TheirOwn(failed)

=============================================================================
