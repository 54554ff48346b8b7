--------------------------- MODULE HistogramObjects ---------------------------
(***************************************************************************)
(* The histograms and counts of HenryPlotter and their holder              *)
(* (python/histogram.py, binning.py): Histogram, Count and Root_objects.   *)
(*                                                                         *)
(* The objects live on a heap; the holder has references to them.  With    *)
(* more than one process, the pool produces copies, which replace the      *)
(* references of the holder, so that whoever made an object has it still   *)
(* without a result.  ROOT is outside the repository: a drawn histogram is *)
(* the number of its entries and its bins, a chain without any tree gives  *)
(* no histogram, and a TFile in the mode "new" is a zombie, which takes    *)
(* no object, when the file is there already.  An exception ends the       *)
(* script.                                                                 *)
(***************************************************************************)
EXTENDS Integers, Sequences, FiniteSets, SequencesExt, FiniteSetsExt, Functions

CONSTANTS
  Settings,    \* the arguments of new_histogram and new_count
  Lists,       \* the lists of settings that are added at once
  Entries,     \* for the file and folder of each tree: how many entries each cut selects
  NewNames,    \* names for set_name
  MaxObjects,  \* bound on the objects of the holder
  MaxCalls     \* bound on the calls of a behaviour

\* The attributes are those of the constructors; a tree has a number of entries for each cut.
Asked == Settings \cup UNION {Range(list) : list \in Lists}
Attributes == {"kind", "name", "inputfiles", "cuts", "weights", "folder", "variable", "binning", "result"}
IsSetting(s) == /\ Attributes \subseteq DOMAIN s /\ s.kind \in {"Histogram", "Count"}
                /\ s.inputfiles \in Seq(Range(s.inputfiles))
ASSUME SettingsType == Lists \subseteq Seq(Asked) /\ \A s \in Asked : IsSetting(s)
ASSUME EntriesType == \A tree \in DOMAIN Entries : \A s \in Asked : Entries[tree][s.cuts] \in Nat

\* Binnings: Constant_Binning(nbinsx, xlow, xhigh) and Variable_Binning(*borders).
ConstantBins(n, l, h) == [kind |-> "constant", numbers |-> <<n, l, h>>]
VariableBins(borders) == [kind |-> "variable", numbers |-> borders]
BinningRefused(b) == b.kind = "variable" /\ \E i, j \in DOMAIN b.numbers : i < j /\ b.numbers[i] >= b.numbers[j]
\* extract() is a list of numbers in brackets for both; after >>name, ROOT reads the
\* first three as the number of bins, the lower and the upper limit.
extract(b) == b.numbers
Bins(numbers) == [n |-> numbers[1], low |-> numbers[2], high |-> numbers[3]]

-----------------------------------------------------------------------------
\* The values of result: False, a histogram, a number, or a null pointer.
NotYet == [kind |-> "False"]
Drawn(n, bins) == [kind |-> "histogram", entries |-> n, bins |-> bins]
Number(n) == [kind |-> "number", entries |-> n]
NoHistogram == [kind |-> "null"]

\* self.result != False: a number that is zero is False.
present(o) == o.result # NotYet /\ o.result # Number(0)

NewObject(s) == [s EXCEPT !.result = NotYet]

\* create_result the classic way: the chain of all input files.
InputChain(files, folder) == {i \in DOMAIN files : <<files[i], folder>> \in DOMAIN Entries}
Selected(o, i) == Entries[<<o.inputfiles[i], o.folder>>][o.cuts]
Sum(counts) == FoldFunction(+, 0, counts)
SumOver(o, chain) == Sum([i \in DOMAIN o.inputfiles |-> IF i \in chain THEN Selected(o, i) ELSE 0])
Draw(o, chain) == IF chain = {} THEN NoHistogram
                  ELSE IF o.kind = "Histogram" THEN Drawn(SumOver(o, chain), Bins(extract(o.binning)))
                  ELSE Number(SumOver(o, chain))
\* Mutant: a chain of the first file only.
DrawFirst(o) == Draw(o, InputChain(SubSeq(o.inputfiles, 1, 1), o.folder))
create_result(o) == Draw(o, InputChain(o.inputfiles, o.folder))
\* Count asks the null pointer for its bin content.
CreateFails(o) == o.kind = "Count" /\ InputChain(o.inputfiles, o.folder) = {}
SaveFails(o) == o.result = NoHistogram

\* create_result with a data frame, which is made of the first input file, without the
\* bins of the variable; update() makes a number of the histogram of a Count.
DefaultBins == Bins(<<128, 0, 0>>)
tdf_result(o) == IF o.kind = "Histogram" THEN Drawn(Selected(o, 1), DefaultBins) ELSE Number(Selected(o, 1))

\* TTree_content.__eq__ compares hashes over this; a Count has no variable.
HashOf(o) == <<o.name, o.inputfiles, o.cuts, o.weights, o.folder, o.variable>>

-----------------------------------------------------------------------------
VARIABLES
  heap,          \* the objects
  root_objects,  \* the references of the holder
  produced,
  output_file,   \* "none", "open", "zombie" or "closed"
  written,       \* the keys of the file: names and results
  branches,      \* the branches of output_tree: names and numbers
  filled,        \* the entry of output_tree in the file
  existed,       \* is there an output file from an earlier job?
  added,         \* what was added so far, as it was asked for
  error,         \* the exception of the last call
  calls

holderVars == <<heap, root_objects, produced, added>>
fileVars == <<output_file, written, branches, filled, existed>>
henryVars == <<holderVars, fileVars, error, calls>>

HolderInit ==
  /\ heap = <<>> /\ root_objects = <<>> /\ produced = FALSE /\ added = {}
  /\ output_file = "none" /\ written = {} /\ branches = {} /\ filled = {} /\ existed \in BOOLEAN
  /\ error = "none" /\ calls = 0

Call == calls < MaxCalls /\ error = "none" /\ calls' = calls + 1
Held == [i \in DOMAIN root_objects |-> heap[root_objects[i]]]
HeldNames == {Held[i].name : i \in DOMAIN root_objects}

\* Root_objects.add: refused after the production, and for a name the holder has; the
\* objects of a list are compared with those held before only.
AddError(new) == IF produced THEN "Exception"
                 ELSE IF \E i \in DOMAIN new : new[i].name \in HeldNames THEN "KeyError" ELSE "none"
AddAll(new) ==
  /\ error' = AddError(new)
  /\ IF error' # "none" THEN UNCHANGED holderVars
     ELSE /\ heap' = heap \o [i \in DOMAIN new |-> NewObject(new[i])]
          /\ root_objects' = root_objects \o [i \in DOMAIN new |-> Len(heap) + i]
          /\ added' = added \cup {new[i] : i \in DOMAIN new}
          /\ UNCHANGED produced
Fits(n) == Len(root_objects) + n <= MaxObjects
\* new_histogram, new_count: the binning of a histogram is checked when it is made.
Refused(s) == s.kind = "Histogram" /\ BinningRefused(s.binning)
New == /\ Call /\ Fits(1) /\ UNCHANGED fileVars
       /\ \E s \in Settings : IF Refused(s) THEN error' = "Exception" /\ UNCHANGED holderVars ELSE AddAll(<<s>>)
AddList == /\ Call /\ UNCHANGED fileVars
           /\ \E list \in Lists : Fits(Len(list)) /\ AddAll(list)

\* list(set(root_objects)): one object of each hash, in any order.
Kept == {i \in DOMAIN root_objects : \A j \in 1 .. i - 1 : HashOf(Held[j]) # HashOf(Held[i])}
RemoveDuplicates ==
  /\ Call /\ root_objects # <<>> /\ UNCHANGED <<heap, produced, added, fileVars>>
  /\ IF \E i \in DOMAIN root_objects : Held[i].kind = "Count" THEN error' = "AttributeError" /\ UNCHANGED root_objects
     ELSE /\ error' = "none"
          /\ root_objects' \in {[k \in DOMAIN order |-> root_objects[order[k]]] : order \in SetToSeqs(Kept)}

\* TFile(name, "new"); a holder produces once here.
Opened == ~produced /\ output_file' = IF existed THEN "zombie" ELSE "open"

\* h.save for the objects in order, up to the first that has no histogram.
Keys(saved) == {[name |-> o.name, result |-> o.result] : o \in {o \in saved : o.kind = "Histogram"}}
NewBranches(saved) == {[name |-> o.name, result |-> o.result] : o \in {o \in saved : o.kind = "Count"}}
WriteResults(results, failing) ==
  /\ error' = IF failing = 0 THEN "none" ELSE "ReferenceError"
  /\ \E saved \in {{results[i] : i \in 1 .. (IF failing = 0 THEN Len(results) ELSE failing - 1)}} :
       /\ written' = IF output_file' = "open" THEN written \cup Keys(saved) ELSE written
       /\ branches' = branches \cup NewBranches(saved)

WithResult(o) == [o EXCEPT !.result = create_result(o)]
\* One process produces in the objects themselves, in order, up to the first failure.
InPlace(upto) == [r \in DOMAIN heap |-> IF \E i \in 1 .. upto : root_objects[i] = r THEN WithResult(heap[r]) ELSE heap[r]]
\* The pool returns copies in the order of the indices, or raises.
Copies == [i \in DOMAIN root_objects |-> WithResult(Held[i])]
FirstFailure == SelectInSeq(Held, CreateFails)

ProduceClassic ==
  /\ Call /\ Opened /\ produced' = TRUE /\ UNCHANGED <<filled, existed, added>>
  /\ \E processes \in 1 .. 2 :
       IF FirstFailure # 0
       THEN /\ error' = "AttributeError" /\ UNCHANGED <<root_objects, written, branches>>
            /\ heap' = IF processes = 1 THEN InPlace(FirstFailure - 1) ELSE heap
       ELSE /\ IF processes = 1 THEN heap' = InPlace(Len(root_objects)) /\ UNCHANGED root_objects
               ELSE /\ heap' = heap \o Copies
                    /\ root_objects' = [i \in DOMAIN root_objects |-> Len(heap) + i]
            /\ WriteResults(Copies, SelectInSeq(Copies, SaveFails))

\* One data frame for each combination of files and folder; a name that is held twice
\* is not modelled here.
FrameExists(o) == <<o.inputfiles[1], o.folder>> \in DOMAIN Entries
ProduceTdf ==
  /\ Call /\ Opened /\ produced' = TRUE /\ UNCHANGED <<root_objects, filled, existed, added>>
  /\ \A i \in DOMAIN root_objects : FrameExists(Held[i])
  /\ heap' = [r \in DOMAIN heap |-> IF \E i \in DOMAIN root_objects : root_objects[i] = r
                                          THEN [heap[r] EXCEPT !.result = tdf_result(heap[r])] ELSE heap[r]]
  /\ WriteResults([i \in DOMAIN root_objects |-> heap'[root_objects[i]]], 0)

\* get(name).set_name(new): update() of a Count without a result asks False for a bin.
Index(name) == CHOOSE i \in DOMAIN root_objects : Held[i].name = name /\ \A j \in 1 .. i - 1 : Held[j].name # name
SetName == /\ Call /\ UNCHANGED <<root_objects, produced, added, fileVars>>
           /\ \E name \in HeldNames, new \in NewNames :
                \E r \in {root_objects[Index(name)]} :
                  /\ heap' = [heap EXCEPT ![r].name = new]
                  /\ error' = IF heap[r].kind = "Count" /\ heap[r].result = NotYet THEN "AttributeError" ELSE "none"

\* get(name).get_result()
GetResult == /\ Call /\ UNCHANGED <<holderVars, fileVars>>
             /\ \E name \in HeldNames : error' = IF present(heap[root_objects[Index(name)]]) THEN "none" ELSE "RuntimeError"

\* Root_objects.save: one entry of output_tree; the file is closed.
SaveObjects ==
  /\ Call /\ output_file # "closed" /\ UNCHANGED <<holderVars, written, branches, existed>>
  /\ IF ~produced THEN error' = "Exception" /\ UNCHANGED <<output_file, filled>>
     ELSE /\ error' = "none" /\ output_file' = "closed"
          /\ filled' = IF output_file = "open" THEN branches ELSE filled

HolderNext == \/ New \/ AddList \/ RemoveDuplicates \/ ProduceClassic \/ ProduceTdf
              \/ SetName \/ GetResult \/ SaveObjects

HolderSpec == HolderInit /\ [][HolderNext]_henryVars

-----------------------------------------------------------------------------
Total(o) == Sum([i \in DOMAIN o.inputfiles |-> IF <<o.inputfiles[i], o.folder>> \in DOMAIN Entries THEN Selected(o, i) ELSE 0])
\* A production counts the selected entries of every tree of every object, in place or
\* by a pool, and leaves the objects in their order; with data frames it does so for
\* the objects of one file (histogram.py:76-130, 202-243).
EveryTreeIsRead == produced' # produced /\ error' = "none" => \A i \in DOMAIN root_objects' :
  LET o == heap'[root_objects'[i]]
  IN  /\ o.name = Held[i].name
      /\ ProduceClassic \/ Len(o.inputfiles) = 1 => o.result.entries = Total(o)
\* Whatever is held after a production has a result: nothing gets into the holder that
\* the production did not see (histogram.py:156-173).
HeldIsProduced == produced /\ error = "none" => \A i \in DOMAIN root_objects : Held[i].result # NotYet
\* Of each object one is left, none is lost, and those that differ in anything but
\* their binning stay (histogram.py:50-62, 222-223).
Same(a, b) == \A f \in {"name", "inputfiles", "cuts", "weights", "folder", "variable"} : a[f] = b[f]
OneOfEach == RemoveDuplicates /\ error' = "none" =>
  /\ \A i \in DOMAIN root_objects : \E j \in DOMAIN root_objects' : Same(Held[i], heap[root_objects'[j]])
  /\ \A i, j \in DOMAIN root_objects' : Same(heap[root_objects'[i]], heap[root_objects'[j]]) => i = j
\* A file that is saved has the result of every object of the holder, the counts as
\* branches of its tree (histogram.py:102-136, 237-251).
SavedIsComplete == output_file = "closed" /\ ~existed /\ error = "none" => \A i \in DOMAIN root_objects :
  \E entry \in written \cup filled : entry.result = Held[i].result
\* A production reads every tree of every object, and what is saved is what was held;
\* of duplicates one is left (histogram.py: create_result, produce_classic, save,
\* remove_duplicates).
ResultsAreComplete == [][EveryTreeIsRead /\ HeldIsProduced' /\ SavedIsComplete' /\ OneOfEach]_henryVars
=============================================================================
