# Artus in TLA+

Artus is a framework for the analysis of collision events: a C++ event loop in
which configured producers, filters and consumers work on one event after the
other (`Core`, `Configuration`, `Consumer`, `Filter`, `KappaAnalysis`), and
Python tools that start jobs, merge their outputs and plot them
(`Configuration/python`, `Utility`, `HarryPlotter`, `HenryPlotter`). The
repository has no tests of the event loop and few of the tools; its promises are
in comments, in help texts of options, in docstrings, in `Core/doc/latex/paper.tex`
and in what one part relies on of another.

Modules are checked with TLC and proved about with TLAPS:

    tlc -config MCRunner.cfg MCRunner
    tlapm RunnerProofs.tla

## Inventory

### The event loop (C++)

| Component | State | Operations | What is hard | What makes it correct |
|---|---|---|---|---|
| `FilterResult` (Core) | ordered list of decisions, tagging filters, mutable verdict cache | construct, `AddFilterNames`, `SetFilterDecision`, `HasPassed` | cache invalidated only if a decision differs from it; copied with its cache | verdict = latest decisions; entries stay |
| `KappaEventProviderBase` (KappaAnalysis) | event in memory, metadata, remembered run, lumisection and file, flags | `GetEntry` | two worker threads with a timeout; I/O errors; resets on change of run and file | metadata belongs to the event; flags tell changes; calls end |
| `PipelineRunner`, `OsSignalHandler` (Core) | iterators, global product and filter result, pipeline verdicts, SIGINT flag | `RunPipelines`, signal handler | Ctrl-C at any step; bounds of the loop; levels; state carried between events | every pipeline gets every event once; results are written; levels in order |
| `Pipeline` (Core) | nodes, consumers, local copies of product and filter result | `RunEvent`, `Run`, `FinishPipeline` | early end of the chain; OnRun and OnLumi only for nodes reached | consumers always called, with the right verdict and announcements |
| Cut flow and run time consumers (Core, Consumer) | counts by name, bins and trees by place | `ProcessEvent`, `Finish` | three records of one fact under two indices, fixed at the first event | the records fit together |
| `ArtusConfig`, `SettingsBase`, ntuple and histogram consumers, cut filters, producers of KappaAnalysis | settings, ROOT objects, per-run data | see "Not modelled" | | |

### The tools (Python)

| Component | State | Operations | What is hard | What makes it correct |
|---|---|---|---|---|
| `jsonTools.JsonDict` (Utility) | nested dictionaries and lists, shared by reference | merge, expand, compare, comments, nick names, includes, local copies | in-place changes of shared lists; conflicts of kinds; nested includes | merging keeps all entries and the first wins; a difference reconstructs; an include gives defaults only |
| `artusWrapper.py` (Configuration) | arguments, configuration, dbs file, epilog of a job | local call, batch submission, job, resubmission | one program is called on two machines with different arguments; partly failing steps | a job has the configuration that the user described; every input once; a failure shows |
| batch projects and scripts (Configuration) | dbs file, jobs and their outputs | submit, run, fail, submit the rest, list outputs | jobs finish while the rest is submitted | no input file is lost |
| `artusMergeOutputs.py` (Configuration) | folders by nick, merges, scratch space | collect, merge here or in jobs | a pool whose task exits leaves the caller polling | every file in one target; the script ends |
| `tools.parallelize` (Utility) | pool, results, progress bar | map over tasks | unsynchronised reads while workers finish, raise or vanish | complete answers; nothing runs on; the call ends |
| `tools.hadd` (Utility) | chunks, temporary files, exit code | merge in chunks | failures in the middle; leftovers of a call that died | exit code 0 only for a complete target |
| functions on lists and formulas (Utility) | - | common names, products, selections, merged sequences | edge cases | what comes out was in the input |
| `treeTools.py`, `eventmatching.py`, `compareRootFiles.py` (Utility) | trees, buffers, lists of events | extend, merge, match, compare | buffers shared by entries; a target that is a source; lists of different length | columns are what was set; matched trees agree; verdict does not depend on the options |
| HarryPlotter core (`core.py`, `harry.py`, `harryparser.py`) | arguments, processors, plot data, pool | parse twice, run the chain, export, many plots | options that choose the options; failures in a pool | the exported file makes the plot again; every plot is accounted for |
| HarryPlotter input and export (`inputroot.py`, `roottools.py`, `exportroot.py`) | sources by nick, edges by name of a binning | read, scale, add, rebin, write | lists repeated to fit each other; remembered edges; paths that collide | a nick is the scaled sum of its inputs; each new bin the sum of the old ones; what is written can be read |
| HarryPlotter analysis modules | objects by nick, the lists of the plot | some 30 modules that compute on them | results of one are inputs of the next; changes in place | others are untouched; the arithmetic promised |
| HarryPlotter plot modules (`plotroot.py`, `plotmpl.py`) | canvas, limits, legend, globals of `CMS_lumi`, the ROOT style, `rcParams` | the steps of `PlotBase.run` | lists of options of different length; globals that outlive a plot | what was asked for is drawn; data is inside the frame; plots do not depend on each other |
| HenryPlotter (`cutstring.py`, `histogram.py`, `systematics.py`, `estimation_methods*.py`, `systematic_variations.py`, `era.py`, ...) | cuts, histograms, methods and categories shared by reference | combine cuts, produce, book, vary, estimate, save | aliasing; a holder replaced by copies of a pool | shapes of the wanted process, category and variation |

The C++ components meet as follows. `ArtusConfig` builds the runner's global nodes
and pipelines from the configuration. `RunPipelines` asks the provider for an
entry, runs the global nodes on it with one `FilterResult`, hands a copy of the
product and of the filter result to each pipeline of level one, and records
their verdicts in a third `FilterResult`, a copy of which each pipeline sees. A
pipeline runs its nodes on its copies and calls all its consumers. After the loop
the pipelines of level one write their outputs, and pipelines of higher levels
run on these. The signal handler sets one atomic flag, which only the event loop
and the loop over the levels read.

Around it, the wrapper merges JSON configurations into the one that `ArtusConfig`
reads, and starts the executable, or a batch project whose jobs call the wrapper
again with the arguments that the first call wrote. Their outputs are collected by
nick and merged by `hadd`, in the pool of `parallelize`. HarryPlotter reads the
merged files into plot data (nick -> object), passes it through analysis modules
and a plot module; HenryPlotter produces histograms from the same files. These
parts are separate programs that meet in files, so they are modelled one by one;
what is shared within a process (lists, objects, globals) is modelled as shared.

## Modules

### C++

| Module | Models |
|---|---|
| `FilterResult` | the class as operators on records, with the lemmas on what the operators preserve |
| `FilterResultMachine` | one object under every order of calls, and its theorems |
| `EventProvider` | `GetEntry` with its two workers, step by step, and its lemmas |
| `EventProviderMachine` | the provider under a caller who asks for any entry at any time, and its theorems |
| `EventLoop` | the promise: each event is taken in order, delivered once to each pipeline of level one, results are written once, higher levels follow in order |
| `PipelineRunner` | `RunPipelines`, `RunEvent`, the signal, on `FilterResult` and `EventProvider`; its properties, and the refinement mapping to `EventLoop` |
| `CutFlow` | `CutFlow`, what the cut flow and run time consumers fill, and a pipeline with them over the events of a job |
| `RunnerProofs`, `CutFlowProofs` | the theorems about `PipelineRunner` and `CutFlow` |

*FilterResult.* `m_filterDecisions` is a `std::list` searched by name; it is a
function from names to entries, each with its place in the list, because
consumers of a cut flow walk the list. `AfterHasPassed` is the side effect of
the const method `HasPassed` on the mutable cache.

*EventProvider.* `stage` is the place in `GetEntry`. The event in memory is
reduced to its index, run and lumisection. `EntryRead` is the worker's answer:
the content, `zero` for a missing entry, or `error`, for which ROOT returns -1
and leaves the content; `Timeout` is the caller giving up, which ends the
program. ROOT and Kappa are external and modelled from their use here.

*PipelineRunner.* `pc` is the loop the thread is in; a step is one turn of that
loop (one node, one pipeline with all its consumers, one level's pipeline). What
a producer computes is left out; a filter answers freely. `Interrupt` is the
signal handler, possible between any two steps. The two flags of the product
have no initialiser and start with any value. A null event on the first turn of
an empty job is undefined behaviour: `NullEvent` crashes or goes on. History
variables record what is asked about: `processed` (consumer calls), `vetoes`,
`informed` (the last run and lumisection told to each node by OnRun and OnLumi),
`sigintAt`, `finished`, `ran`.

*CutFlow.* A histogram is the labels of its first event and a count per bin, the
overflow included; bins are TH1F and stop at `FloatExact`. A tree is its rows.
Indexing the trees behind their end ends the program. That every global filter
node is named in the global settings (`GlobalFiltersNamed`) is assumed: the
settings extract their filters (`SettingsBase.cc:89-90`) from the list that
`LoadGlobalProducer` makes the nodes from (`ArtusConfig.h:74-102`). A pipeline has no such
assumption, for `InitPipeline` may add nodes of its own (`Pipeline.h:104-105`). `Tagging` is
the mode under which a name is entered: the global settings come first.

### Python

| Module | Models | State |
|---|---|---|
| `JsonTools` | the constructor and the functions of `JsonDict` on a heap of dictionaries and lists; a tree is the JSON text of an object; nicknames are found by regular expressions, remote files by their names | - |
| `JsonConfigs` | a program that works with them on a `heap`, where merged configurations may share lists | `heap`, `last` operation and its arguments |
| `ArtusWrapper` | one call: nick of the inputs, base configurations, pipelines, expansion, saving, epilog; `Submit` hands over to the job, a call of its own | `args`, `pc`, `config`, `grid`, `copies`, `saved` |
| `GridProjects` | dbs file -> jobs -> successes and failures -> dbs file of the rest | `projects` |
| `MergeOutputs` | collecting files by nick, pool or batch jobs, space | `listing`, `jobs`, `merged`, `script` |
| `Parallelize` | caller, workers, the two values that the caller polls, and the bar, which fails when it is asked for one step too many or has no task | `queue`, `working`, `outcome`, `numberLeft`, `progress` |
| `Hadd` | chunks with their temporary files; a file is how often it holds each source; the caller may die and be called again | `target`, `temp`, `chunk`, `exit_code` |
| `ToolCalls`, `ToolProofs` | a call of `parallelize` or of `hadd`, a run of `eventmatching.py` or a program with `treeTools.py`, with what each promises of what it hands back, and the theorems | those of `Parallelize`, `Hadd`, `EventMatching` and `TreeTools` |
| `ListTools` | the functions on lists, names and products | - |
| `TreeTools` | an extender and mergers on files with buffers; a merger asks whether it may write when it is made, and may overwrite what another one wrote since; a file that is replaced is lost to an extender that has it open, and opening or closing a file takes the current directory along; what a program uses of all this is its `program` | `program`, `disk`, `extender`, `merger`, `asked` |
| `EventMatching` | the checks of the arguments, listing, the loop of each comparison of two lists turn by turn (`Turn`, `Return`), copying, the JSON files of event numbers, and comparing each two of up to three trees | `lists`, `scan`, `output`, `whitelists`, `report` |
| `RootComparison` | one run of `main`: the keys of two files in any order, compared by kinds of objects, with or without `--all` | `verdict`, `code` |
| `HarryCore` | the two parses, the chain, export and publishing | `args`, `processors`, `prepared`, `done`, `figure`, `exported` |
| `MultiPlots` | lists of configurations and of arguments, also empty ones, filled up to one length; plots one by one or in a pool, where a plot may also be killed, with the answers split one per step | `dicts`, `texts`, `harry_args`, `answers`, `output_filenames`, `failed`, `phase` |
| `InputRoot` | inputs of a plot: an object is known by its kind, axes and fills (how often, and scaled by what, the entries of a source are in it) | `root_objects`, `root_trees`, `tools` (what `RootTools` remembers) |
| `Rebinning` | contents bin by bin under all kinds of new bins, in one to three dimensions | `root_histogram` |
| `ExportRoot` | the file as a function from paths to objects, and the directories that ROOT has in memory; the objects of a plot and of its metadata are written one by one | `file`, `open`, `nick`, `item`, `exporting` |
| `HarryProofs` | the theorems about `MultiPlots`, `ExportRoot`, `HarryCore`, `PlotModules` and `HistogramObjects` | - |
| `Fractions` | exact arithmetic for contents | - |
| `PlotData`, `AnalysisModules` | the plot data, and each analysis module as an operator on it | - |
| `AnalysisChain` | any module, or one after another, on plot data | `pd`, `ran` |
| `PlotBase`, `PlotRoot`, `PlotMpl` | the common steps of a plot and the two backends; the plots that one process makes in turn | `objects`, `lims`, `fig`, `style`, `cms`, `rc` |
| `PlotModules` | the two backends, one of which a process uses, with what they promise | `plotter` and those of the backends |
| `CutStrings` | `Cut`, `Cuts`, `Weight`, `Weights` on a heap; a cut is evaluated on events, and gets its name from its string if it is given none | `cuts`, `category`, `combined`, `weights` |
| `HistogramObjects` | `Histogram`, `Count`, `Root_objects`: produce classically, with a pool, with data frames; save; remove | `heap`, `root_objects`, `output_file` |
| `Systematics` | a job's systematics, booked, varied by keywords, drawn in place, by a pool or with data frames, and estimated with the methods of 2016; with those of 2017 no production gets as far as a shape (`NeverAdded`). Each histogram by what events it has how often | `systematics`, `categories`, `holder`, `phase` |

The Python modules are checked in five suites, `MCPlots`, `MCHarry`, `MCHenry`,
`MCConfiguration` and `MCTools`. A suite declares the variables of its
components, or extends the module of one that has theorems (`MCHarry` extends `MultiPlots`, `ExportRoot` and `HarryCore`, `MCTools`
`ToolCalls`, `MCPlots` `PlotModules`, `MCHenry` `HistogramObjects`); the first state picks the `component` (in `MCPlots` the `plotter`)
that the behaviour is about, and the variables of the others are `None` (those of the holder in `MCHenry` have their initial values). A
property of a suite is a conjunction over its components, each part defined in
the component's module and stated there.

Operators marked `mutant` stand before the definition they would replace: each
is a plausible slip in that piece of code, and the property named for it in
`PROJECT.json` fails when it is put in.

## What the runs show

| Run | Instance | Properties |
|---|---|---|
| `filter_result` | 3 filters, tagging sets and name lists chosen freely | `VerdictFollowsDecisions`, `CacheIsCoherent`, `EntriesStay`: the verdict always follows from the latest decisions, the cache never disagrees with the list, no entry moves or changes its mode |
| `event_provider` | 3 entries, 2 files, 2 runs, 2 lumisections, 3 calls | `MetadataMatchesEvent`, `FlagsTellChanges`, `DeliveredIsRequested`, `CallsEnd`: metadata in memory is that of the event in memory; flags tell exactly what changed; only what was asked for is delivered; calls end even if workers do not |
| `runner` | 2 entries, 2 runs, 2 lumisections, four pipelines of levels 3, 1, 2, 1, filters globally and in each pipeline of level one (one used in both places), a tagger | `Lockstep`, `PipelinesSeeTheEvent`, `StopsAfterCurrentEvent`, `EndsInOrder`, `ImplementsEventLoop`: the event loop's safety under Ctrl-C at any step, and that it implements `EventLoop` |
| `runner_live` | 2 events from event 1 on, inputs with 0 to 3 entries, a filter before the only producer | `RunEnds`: it terminates and writes its results, or aborts |
| `cut_flow` | 3 events, global filter, tagger, two filters and one that the configuration does not name, bins that stop at 2 | `HistogramAgreesWithFlow`, `OutputsFitTogether`: histogram, counts, trees and run times agree, and only events discarded by the unnamed filter can index behind the trees |
| `plots` | some 30 plots with ROOT and 30 with Matplotlib that vary the options: any two of them in one process, and each between two plots without options | `DrawnAsAsked`, `LimitsHoldData`, `LegendAsAsked`, `PlotsAreIndependent` |
| `harry` | 7 components of HarryPlotter, see below | `ExportReproduces`, `EveryPlotAccountedFor`, `CallsEnd`, `NicksAreSums`, `BinsAreSums`, `ExportComplete`, `PlotDataConsistent`, `ModulesAsPromised` |
| `henry` | 4 components of HenryPlotter | `CutsSelect`, `ResultsAreComplete`, `ShapesAsWanted`, `VariedOnce` |
| `configuration` | 4 components | `ConfigurationsMerge`, `JobsRunAsTold`, `NothingLost`, `ScriptEnds` |
| `tools` | 6 components | `AnswersAreTrue`, `FilesMatch`, `TreesAsAsked`, `FunctionsAsPromised`, `CallEnds` |
| `runner_gap`, `plots_cms` | small | the code does otherwise than it says; see below |

### Bounds

An object of `FilterResult` with three names has every combination of
tagger, filter and unlisted name, and its state space is finite without a bound.
Three entries let a lumisection number recur after a change of run and of file.
Two entries let a second event inherit something from a first; `MaxReported`
lets `GetEntries` be exact or too large (batch mode). Four pipelines out of
order have two of level one, so that a verdict is passed on, and two levels
above. Three events let the list of the first differ from a later one, and let a
bin reach its limit.

In the suites:

- `Parallelize`: up to four tasks (also none) on up to three processes, so that a
  process gets a second task and one stays idle; a worker returns, raises or vanishes.
- `Hadd`: up to five sources in chunks of any size (three chunks, the last one
  smaller), each hadd may succeed, fail in any way or be killed, and the caller may die
  once between any two steps and be called again.
- `TreeTools`: two trees in two files, a buffer that is written every second
  entry, so that what is flushed and what is not both exist. Three programs: an extender, a merger without one, and
  both, smaller, in any order.
- `EventMatching`: one to four trees (two or three are compared) of up to two events out of three, two of
  which share their event number, equal ones included.
- `RootComparison`: files with up to two objects of each kind, also in a directory.
- `ListTools`: names of up to four characters, lists of up to three elements, products nested twice.
- `JsonConfigs`: two operations in a row, the second one on what the first one
  returned or shares; two orders of the keys, because dictionaries of Python 2 have any.
- `ArtusWrapper`: inputs of two nicknames, up to two base configurations and two
  options for pipelines, and copies that get the name of a third pipeline. `GridProjects`: four files and three projects: submitted,
  submitted again while jobs run, and once more. `MergeOutputs`: two projects, nicks and files of any kind.
- `HarryCore`: command lines, JSON files and modules that declare, overwrite or
  leave options. `MultiPlots`: up to three plots by lists of different length, also empty ones, two processes, each of which may be killed with its plot.
- `InputRoot`: three files and up to three inputs of a plot, so that a nick recurs
  behind another one. `ExportRoot`: two or three nicks with labels in
  directories, labels that are directories of others before and behind them, and three files that were there. `Rebinning`: up to four bins, one to three axes; each content
  is a power of two, so that a sum tells its bins.
- Analysis modules: three bins with contents below, at and above zero, each module with its options;
  chains of two modules on two bins.
- `PlotRoot`, `PlotMpl`: four nicks, with fewer, as many and more stacks than nicks, contents below zero,
  error bars that reach zero, labels and texts that are empty, and sessions of two or three plots: a plot
  can only see what those before it left behind, and an equal plot before and after shows it.
- `CutStrings`: four calls on three cuts and weights. `HistogramObjects`: five calls on up to four
  objects. `Systematics`: up to four systematics (2016), two (2017), two processes and two categories.

There is no symmetry reduction: the names play different parts. Deadlock is not
checked where the program ends on its own.

### Fairness

In `EventProviderMachine` and `PipelineRunner` only the thread
of the program is fair: it goes on when it can, and `wait_for` returns after five
minutes. Workers may never answer and signals may never or always come. Liveness
therefore rests on the timeout, and the mutant without it fails. In `MCTools` the
caller of `parallelize` and each worker of the pool are fair: they are processes
that the operating system schedules; a worker that vanishes with its task is a
possible outcome, and `CallEnds` names it as the only reason not to end (the
caller polls for ever, `tools.py:178`). In `MCHarry` and `MCConfiguration` the
program itself is fair: a plot in the pool returns, exits or raises an exception, or is
killed, which `CallsEnd` names as the only reason why a call for many plots does not end.
A merge in the pool of `MergeOutputs` is not killed, and the question of `ScriptEnds` is whether
the script hands the pool a merge that must end its worker.

### Assumptions of properties

- `PipelinesSeeTheEvent`: its part `ConsumersInformed` needs a global producer that
  runs in every event, as in the chain `ProducerFirst`; with a filter first (the
  chain of `runner_live`) the flags the pipelines read are arbitrary.
- A filter used globally and again in a pipeline shares one entry, and the second
  decision overwrites the first under the tagging mode of the global settings
  (`EntriesStay`); `Tagger` in `PipelineRunner` says so, and a pipeline of `runner` is such a case.
- `DropsAreInTheTrees` (in `OutputsFitTogether`) is about chains in which no filter is
  used twice, for with such a filter the list is not in the order of the decisions: with the nodes
  `g`, `h`, `g`, an event that the last node rejects is discarded by the first name of the list, and
  the property fails. The theorem has this as the hypothesis `NamedAsRun`.
- `DeliveredIsRequested` excepts I/O errors: the stale event is delivered then.
- `SuccessIsComplete` (in `AnswersAreTrue`) excepts an hadd that is killed by a signal: its
  exit code is negative, and `hadd` keeps the largest one, so that it is lost (`tools.py:215`).
- `PlotsAreIndependent` excepts the settings of CMS_lumi and of the legend's frame that
  are reported below; everything else of a plot is that of a process of its own.
- `StackedOnce` (in `DrawnAsAsked`): the stacks that are given are repeated until there is one for
  each nick (`plotbase.py:222`), and what is in one stack is what these say. Excepted are more
  stacks than nicks: then the nicks are repeated, and an object is added to itself.
- `FrameHoldsData` (in `LimitsHoldData`) is about contents with their error bars. Excepted are
  plots with `--cms` wholly below zero, whose upper limit is lowered into the data
  (`plotroot.py:473`), and error bars that reach zero on a logarithmic axis, which cannot show it.
- `LegendAsAsked` compares nick, label and order of the entries and what extra texts are below;
  empty labels and texts have no entry.
- `PipelinesAsTold` (in `JobsRunAsTold`): no pipeline has settings that the options do not describe,
  and each described one is there, unless copies get the name of another pipeline (`artusWrapper.py:278`).
- `ShapesAsWanted` excepts systematics that share a `Process`: its estimation method has the
  histograms of the last one only (`estimation_methods.py:79`), or whose `Process` was made for
  another channel.
- `ConfigurationsMerge` compares with what the arguments were before the call, because the
  call changes them (below).

### Where code and comments differ

Two runs expect a violation:

- `runner_gap` (`PipelineRunner.h:260-285`): "run the pipelines greater level one
  even if the previous event loop was interrupted", but the sweep stops at the
  first level without a pipeline.
- `plots_cms` (`plotroot.py:961`): `CMS_lumi.cmsText` is set to the empty string by
  every plot without `--cms` and never set back, so that the next plot with `--cms`
  lacks the text.

The models contain more such places; each follows the code. No property claims
what is said there.

Event loop:

- `PipelineRunner.h:144-146`: the loop condition is said to be always true
  without `ProcessNEvents`; it bounds the loop by `GetEntries`.
- `CutFlowHistogramConsumer.h:67-74`: "bins corresponding to passed filters",
  but the bin of a tagging filter counts all events.
- `CutFlow.cc:13-27`: "sum up all passed events per filter", but those of a
  tagging filter are never counted.
- `CutFlowTreeConsumer.h:124-126`: the branches for lumisection and event number
  are bound to the run number.

Configuration and utilities:

- `jsonTools.py:67`: "returns a new object", but the copy is shallow and lists of the
  first argument are extended; `:104`: so are the lists that expanded combinations share;
  `:313`: keys that are comments stay; `:264`: an included property becomes the value of
  "property" instead of standing in its place.
- `artusWrapper.py:278`: a pipeline renamed to the common part of its copies replaces
  another one of that name; `:337`: `--pipeline-base-configs` with several files
  raises a `TypeError`; `:530`: no space behind `$SKIP_EVENTS`; `:518`:
  `--disable-envvar-expansion` does not reach the job.
- `tools.py:304`: merging five or more sequences raises a `TypeError`.
- `treeTools.py:130`: of a new branch with several leaves only the first one is stored;
  `:209`: whether the target exists is asked before, not when it is written.
- `eventmatching.py:157`: what is left of the longer list is dropped; `:228`: branches only
  in the second tree start from those of the first one; `:235`: a translated name is removed
  from the wrong list.
- `compareRootFiles.py:265`: both numbers of events are those of the first tree; `:294`: only
  differences of one sign count; `:230`: of histograms of more dimensions only the first row is compared.

HarryPlotter:

- `core.py:196`: processors are prepared and run in turn, against the comment two lines above.
- `plotdata.py:118`: publishing without an exported file raises a `TypeError`.
- `harry.py:87`: a repeated configuration loses its JSON defaults with its first plot.
- `inputroot.py:79`: lists are repeated twice, so that inputs and weights may not match;
  `:184`: multiplied uncertainties raise a `TypeError`.
- `roottools.py:178`: the number of bins that is asked for is not that of the result unless
  it divides; `:619`: `Project3D` with two arguments; `:443`, `:450`: edges or their absence
  are remembered across dimensions and kinds; `:94`: custom widths are lost for trees;
  `:776`: an object of the same path is deleted.
- `addhistograms.py:51`, `correctnegativebincontents.py:52`, `maskhistograms.py:72`,
  `statisticalerrors.py:88`, `normalization.py:180`: position 0 means none; the integral
  changes if it is negative; the reference masks itself first; a result is not stored; the underflow of one
  histogram of a stack is counted.
- `plotroot.py:942`, `:425`, `:646`: dataset titles and units of luminosities; symmetric
  limits without limits; two dimensions in a subplot; `:473`: `--cms` lowers a negative maximum.
  `plotbase.py:231`: nicks behind the given stacks are stacked cyclically, and with more stacks than
  nicks an object is added to itself; `:449`: an error bar that reaches zero does not count on a logarithmic axis.
- `plotmpl.py:224`, `:670`, `:415`, `:397`, `:489`: aspect ratios; what is on top; styles of lines; the lower
  margin; the frame of the next plot's legend.

HenryPlotter:

- `cutstring.py:58`, `:79`, `:148`: constants and repeated weights raise `NameError`; inverting changes the
  operator of cuts that it cannot parse, but not their string.
- `histogram.py:25`, `:61`, `:83`, `:198`, `:210`: an empty `Count` is taken for one that is not filled; a `Count` has no
  hash; bin borders; an output file that exists; data frames read the first file only.
- `estimation_methods.py:79`, `:245`: a method keeps the histograms of the last systematic;
  all same-sign categories have one name. `estimation_methods_2017.py:85`: sets, which the
  holder does not take. `systematic_variations.py:78`: the weight is looked up by the name of the variation.

## What is proved

All theorems hold for any values of the constants that meet the stated
assumptions (finite set of names; node and pipeline lists well formed; the numbers
are naturals).

`FilterResultMachine`. The strengthening `IInv` joins the type, the coherence of
the cache, the shape of the list and the link between `told` and the entries.
Coherence alone is inductive only with the type; the verdict follows from
coherence, because a decision that overturns the cached answer always drops it.
`Inductive` gives `TypeCorrect`, `CacheCorrect` and `VerdictCorrect`;
`EntriesStayPut` is the action property.

`EventProviderMachine`. What `GetEntry` remembers in `m_prevTree`, `m_prevRun` and
`m_prevLumi` describes the event in memory between two calls (`Remembers`), still
the one before until the comparison is made (`Compares`), and, unless the
lumisection was forgotten, the metadata that is loaded (`Loaded`). With what is
settled while the metadata is read (`Compared`) and what the bytes say of the entry
(`Answered`) this is inductive, and gives `TypeCorrect`, `MetadataCorrect`, `FlagsCorrect` and
`RequestsAnswered`.

`RunnerProofs`. `Basis` (type correctness, coherent caches and the ranges of the
iterators that `pc` implies) is inductive with the lemmas of
`FilterResult` and `EventProvider`. On it rest

- `TypeCorrect` and `CachesCorrect`;
- `LockstepHolds`: every pipeline of level one has had every event
  up to the one at work, once and in order, for the number it has had is determined by
  `pc`, `pipe` and `iEvent`; `OrderlyEnd` (outputs are written once, levels run
  in order) and `StopsCorrect` (the flag is seen before an event later than the
  interrupted one is asked for);
- `Implements`: each step of the runner is a step
  of `EventLoop` or a stutter under the mapping in `PipelineRunner`;
- `EventsSeenCorrect`: what a pipeline gets of an event is what was decided of it. Its four
  parts have an argument each. `VerdictInv` links the history of vetoes to the entries that
  have rejected the event, in the global filter result and in the pipeline's copy of it;
  an entry counts as a veto under the tagging mode under which it was entered first, so the
  invariant also says which names are taggers for which pipeline. With coherent caches this
  gives `VerdictsCorrect`. `PreviousCorrect` rests on the runner's own result being emptied for
  each event and on the names of the pipelines being unique, which `Start` checks, so that each verdict has its own entry. `AnnouncementsCorrect` takes a
  global producer before which there are only producers and taggers
  (`ProducerInEveryEvent`): its flags are then those of the provider, and a consumer that
  was told of a run and lumisection is told again when either changes. Without such a
  producer the flags have no value, and the statement is false (see "Assumptions of properties");
  the other parts need no hypothesis.

`CutFlowProofs`.

- `TypeCorrect`.
- `HistogramCorrect`: bins and counts agree for any configuration and events. Every
  list of filters that an event ends with is a beginning of one fixed order of names, that of the first
  mention in the global settings, the pipeline's settings and its nodes (`ListInv`), so that a
  place means the same filter in every event, and the labels of the first event are right for the later
  ones; `CountsInv` then compares bin and count by name.
- `MissingCorrect`: trees are indexed behind their end only for a rejecting filter that neither settings
  name, for any configuration.
- `OutputsCorrect`: trees, run times and counts tell one story. Here the place in the list must
  also be the order of the decisions: `RunInv` says that the filters that have decided are those before
  the node at work, and that only the last of them may have said no. Then the first entry that did not pass is
  the filter that stopped the event. `TreesInv` and `OutputsInv` say what an event adds: the same to a filter
  as to the one before it, unless it gets a row in that filter's tree, and a row of run times with an entry for each
  filter that decided. Its hypothesis `NamedAsRun` is that no filter has two nodes, that those named in
  the settings run in the order of the settings, and that each of them has a node; filters of `InitPipeline` come
  behind. The settings extract the names from the list that the nodes are made of
  (`SettingsBase.cc:89-90`, `ArtusConfig.h:74-102`, `:136-177`), so only "no processor is configured
  twice" is asked of the user.

`ToolProofs`.

- `PoolCorrect`: the caller reads `ready()` and `_number_left` one after the other, and workers go on between. Until a
  task fails, `_number_left` counts the tasks that have not returned, so that what the caller subtracts
  from its copy of it never passes the number of tasks, and a map that is ready and has not failed has all values. It rests on
  each task being in the queue, with one worker or answered (`OneWorker`).
- `HaddCorrect`: an exit code 0 of `tools.hadd` means that the target
  holds every source exactly once, unless an hadd was killed, for any number of
  sources, any size of the chunks and any number of deaths of the caller with the
  files they leave. `Chained` says why: as long as nothing has failed in this
  call, the temporary file of the chunk before holds the sources up to `start`, so
  that the leftovers of a former call with the same name have been overwritten. It
  needs `Counted` (chunk and start move together) and the type.
- `TemporariesCorrect`: no temporary file is left, not even one of a call that died, because each belongs to a chunk that
  is not the last one (`Placed`) and the call that returns deletes all of those.
- `AnswersCorrect` joins them: `AnswersAreTrue`, an invariant of the run `tools`, holds of `CallSpec`, a call of one of the functions
  a run of `eventmatching.py` or a program with `treeTools.py`. In that run `MCTools` adds the other components, whose steps
  leave these variables alone.
- `FilesMatchCorrect`: `FilesMatch` holds of `CallSpec` for two or three trees of any length that hold any events, each as often as
  it likes. `compareLists` drops what is left of the longer list, so that a list of what is only in one tree can be too
  short, and with three trees six comparisons feed on each other. Two invariants carry it. `ScanFits` is that of the loop:
  when it stands at the `n`-th item of one sorted list and the `m`-th of the other, every item before those has been counted
  in one of the three results, no event is in both lists of the rest, and an event that is in one of them comes no
  more in the other input. Hence at the end a common list has each event as often as the input that has it least often (`EndCounts`),
  and the entries joined in an item are of that event in their trees (`EndItems`). `ListsFit` says for each list by name which trees its
  entries are of (`Held`), that it ascends (a common list is the input of a later comparison), and how often an event is
  in it; `RowFits1` to `RowFits6` are one lemma for each comparison, and need the transitivity of "as often as the least".
  What is copied, named in a whitelist or compared follows from `ListsFit` (`CopyFits`, `ComparedTruly`).
- `TreesCorrect`: `TreesAsAsked`, an action property of the run `tools`, holds of `CallSpec` for any program with an extender and
  any number of mergers, for trees of any length and whatever branches the loop adds and sets: a column on disk has for each entry
  what was asked for it, or the default, never the value of the entry before; a loop that is left leaves the tree
  cut at an entry that was due for a `Write`; and a merged tree has the entries of all its sources. `ColumnsFilled` is the core: in
  every turn the columns in memory are what was asked for so far (of two branches of one name, the last). It is lost as soon as a
  buffer keeps a value from the turn before. `InFile` says that an extender that is attached finds its tree in its file, so
  that every `Write` gets there (`WrittenTree`); `NoneDue` and `NextDue` that between two entries that are due lie as many as are
  written at once, which makes the last `Write` the last one that was due. Every step of a merger is a step around the
  extender (`StepAround`): it replaces a file as a whole, and then the extender in it is no longer attached.

`PoolConstants`, `HaddConstants`, `MatchConstants` and `TreeConstants` are the hypotheses on the constants: bounds that are naturals,
outcomes among those named, events that are numbers (the three of the code are compared in the order of tuples),
for each number of input files a set of sequences of events, and of a program with trees that a branch has a leaf, that the
number of entries between two writes is an integer (the default is -1), and that no tree is called `first`, which in the model
is a path without a name of a tree.

`HarryProofs`.

- `PlotsTypeCorrect` for `MultiPlots`.
- `NoPlotLost`: for any lists of configurations and strings, any number of processes and any outcome of each plot,
  `multi_plots`, if it ends, does so with every plot among the files or the failures, and in one of them only; the files are in
  the order of the plots, and each failure has the arguments of its own plot. A failure in a pool is recognised by the arguments
  that it hands back (`harry.py:114`), so one without arguments would be lost. `ArgumentsGiven` says that there is none: a pool
  appends an option to each string, which raises an exception if a string is missing, and so every plot has at least its
  string. `SplitSoFar` says that the plots tried are split and that the answers that are left are those of the plots behind
  (`AnswersFrom`). `OneMoreFile` and `OneMoreFailure` are the lemmas for one more plot. When a process of the pool is
  killed, the call never ends and hands nothing back (`KilledKeeps`).

- `ExportsAreComplete`: for any plots and any file that was there before, every object in the file of an export is inside
  directories, an update keeps what is at other paths, nothing else gets into the file, and with paths of their own
  all objects and their metadata are at their paths once it is saved. `WriteKeepsTree` is the lemma on one call of
  `write_object`; it needs that no object is in the place of a directory of the path. `WrittenInFile` says that what was
  written stays, which holds as long as nothing is written to its path or to one of its directories (`OwnPaths`).
  `OpenInWay` says that only an object of this export can be in the place of a directory that ROOT has in memory, so that
  with `OwnPaths` no object gets lost in such a directory.

- `PlotsDoNotInteract`: `PlotsAreIndependent`, an invariant of the run `plots`, holds for any sequence of plots, with any options and
  objects. What could carry over is global: ROOT's style with its palette and text format, Matplotlib's settings, a figure
  that an exception has left half drawn. The inductive invariant `PlotterInv` says that at every step options, objects, ranges, figure and
  style are functions of what is asked for this plot alone (`RootBefore`, `MplBefore`), and that so is what every plot made so far has
  given, a figure or the step that failed (`RootOutcome`, `MplOutcome`). Of the style it says
  nothing before `set_style`, which makes it anew before anything is drawn. The proof has one lemma for each
  way a step can end (`RootContinues`, `RootEnds`, `RootRaises`, and the same for Matplotlib) and `AddOnRuns` for the add-ons,
  which run one after the other and each add what depends on the options and the artists only. It does not need to know
  what the steps compute, only what they read, and assumes nothing of the constants. What CMS_lumi writes and the frame of
  the legend do carry over (see "Assumptions of properties") and are set aside in invariant and statement alike.

- `ExportsReproduce`: `ExportReproduces` holds for any modules, whatever options they declare, and any options on the command line and
  in the JSON file. harry.py parses twice: the first parse finds the modules, whose options are then defaults of the second one. Both
  must agree on the modules, although the first lets the JSON file win unless an option differs from its default, and the second
  the command line. They do (`SameModules`) because the options for modules have `nargs="+"` (`harryparser.py:41-46`): on the
  command line they are lists that are not empty, and the defaults are strings or the empty list, so that a given one always
  differs; and because no module declares one of these options. What the exported file leaves out is an argument that equals a
  default and is not in the JSON file, which is then a default of the parser or of a module, and the file names
  the same modules again (`ReadAgain`). `CoreInv` carries this through the chain: the arguments change in `export_json` only, which is never exported.

- `ResultsComplete`: `ResultsAreComplete`, an action property of the run `henry`, holds for any histograms, counts and trees and any
  sequence of calls on the holder. Its invariant is `HolderInv`: the references of the holder point into the heap; a production
  opens the file, once; after one that raised no exception every object held has a result, which is a key of a new file
  or a branch of its tree; and a file that is saved has all the branches. It stays true because additions are refused after the
  production, and a new name or another order changes no result. The three productions each give `WithResult` or the result
  of a data frame: in the objects themselves (`ResultsInPlace`, where two places may refer to one object) or in copies behind them
  (`ResultsAsCopies`). The data frame is that of the first file, whose number is the sum over the files if there is one only (`SumOfOne`). That
  exactly one of the duplicates is left needs that an order of the kept places reaches each of them (`OrderOfKept`,
  an injection of a finite set into itself) and that each hash has a first place (`Least`, `KeptOne`).

`SettingsType` and `EntriesType` are its hypotheses: histograms and counts have the attributes of their constructors, their files are
a list, and each tree has a number of entries for each cut asked of it.

`CommandLineType`, `JsonFilesType` and `DeclaresType` are the hypotheses of `ExportsReproduce` on options; the JSON file may have a string or a list
for the modules, also an empty one.

`CallsType` and `NoneIsNothing` say what kinds of values the arguments are, and that `None` is not one of them; `ExportedType`
that paths are lists of names, labels are given, and a file that was there is a tree of directories. `OwnPaths` is asked of the
user: two objects with one label, or one label that is a directory of another, overwrite each other, as the run `harry` has them do.

Only model-checked:

- Liveness (`RunEnds`, `CallsEnd`, `CallEnds`, `ScriptEnds` in what it says of
  an end), which is out of the prover's reach.
- The properties over `JsonTools`, `ArtusWrapper`, `CutStrings`, `Fractions`, `ListTools` and
  `RootComparison`, which are recursive operators over nested data: `ConfigurationsMerge`, `JobsRunAsTold`,
  `CutsSelect`, `PlotDataConsistent`, `ModulesAsPromised`, `FunctionsAsPromised`.
- What is computed with folds, `SelectSeq` or sums over sets, of which the provers see no more than the
  definition: `NothingLost`, `NicksAreSums`, `BinsAreSums`,
  `DrawnAsAsked`, `LegendAsAsked`. These are inductions over data.
- `LimitsHoldData`, `ShapesAsWanted` and `VariedOnce`:
  state machines over such data, whose safety could be proved with lemmas about it; see the plan.

## Plan

Done: the event loop with its provider, filter results and consumers; the
configuration, the wrapper, batch projects and merging; the pool, hadd, tree
tools; HarryPlotter from its options to the files it writes; HenryPlotter.

Next:

1. Stateful nodes: `ElectronCorrectionsProducer` under the announcements of the
   runner, which shows which chains keep its state current.
2. `Settings`: look-up with fallback from the pipeline to the global key, and the nodes
   and pipelines loaded from it, against what the runner assumes of its constants.

## Not modelled

- `ArtusConfig` and `SettingsBase`: settings are read once and cached; what they say is the
  choice of the constants of `PipelineRunner` and `CutFlow`.
- ntuple, histogram and profile consumers (data only), cut filters (one comparison each; a
  filter answers freely in the models), the physics in the producers of KappaAnalysis, in floating
  point, and the scripts that print what one file holds.
- ROOT, Kappa, Matplotlib, grid-control and the pool of Python beyond what their callers see.
- In the modelled parts: wiring of branches, progress reports, the weighted cut flow histogram
  (filled at the same places), help texts, the text of the grid-control configuration, environment
  variables of the executable, colours, markers and LaTeX tables, friend trees and compiled proxies.
- Analysis modules that fit, find roots or unfold (numerics of ROOT), `inputinteractive`
  (a session with the user), `inputfastnlo` (a library outside the repository).
- `createInputFilelists.py`, `deleteInputFilelists.py`, plots of cut flows, sorting and annotating
  trees, the look-up of a file's first tree by `getFirstTreeName`: loops without state between their steps.
- Vendored code (`easylogging++.h`, `cpplint.py`, `tdrstyle`, b-tag and rochester corrections).
