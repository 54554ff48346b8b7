------------------------------- MODULE MCTools -------------------------------
(***************************************************************************)
(* Utility: the process pool, hadd in chunks, extended and merged trees,   *)
(* matched events, compared files, and the functions on lists, each on its *)
(* own.  Variables of the other components are None.                       *)
(***************************************************************************)
EXTENDS ToolCalls, SequencesExt, FiniteSets, Functions, TLC

VARIABLES pair, opt_all, verdict, order, code,
          call

CompareVars == <<pair, opt_all, verdict, order, code>>
OtherVars == <<CompareVars, call>>
vars == <<callVars, OtherVars>>
NoCompare == pair = None /\ opt_all = None /\ verdict = None /\ order = None /\ code = None

-----------------------------------------------------------------------------
(* Up to four tasks, also none, on up to three processes; up to five       *)
(* sources in chunks of any size, and one death of the caller (the cfg).   *)
(* An extender on its own; a merger without an extender; both, in their    *)
(* smallest form, in any order.                                            *)
AProgram(names, tuple, extending, new, leaves, writeEvery, mergers, rounds) ==
  [trees |-> names, tuple |-> tuple, extending |-> extending, branches |-> new, leaves |-> leaves,
   writeEvery |-> writeEvery, mergers |-> mergers, rounds |-> rounds]
MCPrograms ==
  {AProgram({"t", "u"}, FALSE, TRUE, {"b", "c"}, {1, 2}, 2, {}, 2),
   AProgram({"t", "u"}, FALSE, FALSE, {}, {1}, -1, {"m1"}, 2),
   AProgram({"t"}, TRUE, TRUE, {"b"}, {2}, 2, {"m1"}, 1)}

-----------------------------------------------------------------------------
(* One to four trees, two of them with up to two of three events, three   *)
(* with up to two of two.  Two events share their number (the cfg).        *)
MCContents == <<{<<1>>}, SeqOf({1, 2, 3}, 2), SeqOf({1, 2}, 2), {<<1>>}>>
MCEventNumber == <<7, 8, 7>>

(* Files with up to two objects of every kind, one of them in a directory. *)
Bin(axis, error, content) == [axis |-> axis, error |-> error, content |-> content]
Zero == Bin("a", 0, 0)
One == Bin("a", 0, 1)
TH1s == {[kind |-> "TH1", nx |-> 1, ny |-> 1, bins |-> <<u, b, o>>] : u \in {Zero, One}, b \in {Zero, One, Bin("b", 1, 0)}, o \in {Zero, One}}
        \cup {[kind |-> "TH1", nx |-> 2, ny |-> 1, bins |-> <<Zero, Zero, b, Zero>>] : b \in {Zero, One}}
High(kind, b, c) == [kind |-> kind, nx |-> 1, ny |-> 1, bins |-> [i \in 1..9 |-> CASE i = 2 -> b [] i = 5 -> c [] OTHER -> Zero]]
Highs == {High(k, b, c) : k \in {"TH2", "TH3"}, b \in {Zero, One}, c \in {Zero, One}}
Points == {[x |-> "0", y |-> y, error |-> e] : y \in {"0", "1"}, e \in {0, 1}}
Graphs == {[kind |-> "TGraphErrors", points |-> p] : p \in SeqOf(Points, 2)}
Ntuple(leaves, rows) == [kind |-> "TTree", leaves |-> leaves, rows |-> rows]
Ntuples == {Ntuple(<<"l">>, r) : r \in SeqOf({<<v>> : v \in -1..1}, 2)}
           \cup {Ntuple(<<"l", "m">>, <<<<0, v>>>>) : v \in -1..1} \cup {Ntuple(<<"m">>, <<<<0>>>>)}
Others == {[kind |-> "TF1"]}
OfEach == {CHOOSE o \in s : TRUE : s \in {TH1s, Highs, Graphs, Ntuples, Others}}
Pairs(s) == {<<"k" :> x, "k" :> y>> : x \in s, y \in s}
In(d) == "dir" :> [kind |-> "TDirectoryFile", keys |-> d]
TwoKeys == {[k \in keys |-> o] : keys \in (SUBSET {"k", "l"}) \ {{}}, o \in OfEach}
Compare == INSTANCE RootComparison WITH Names <- {"k", "l", "dir"}, Files <-
  Pairs(TH1s) \cup Pairs(Highs) \cup Pairs(Graphs) \cup Pairs(Ntuples) \cup Pairs(OfEach)
  \cup {<<In(p[1]), In(p[2])>> : p \in Pairs(TH1s) \cup Pairs(OfEach)}
  \cup {<<d1, d2>> : d1 \in TwoKeys, d2 \in TwoKeys} \cup {<<In(d1), d2>> : d1 \in TwoKeys, d2 \in TwoKeys}

-----------------------------------------------------------------------------
(* One call of a function of ListTools: names of up to four characters,    *)
(* lists of up to three elements, products of names, numbers, groups and   *)
(* sums in parentheses.                                                    *)
L == INSTANCE ListTools
Names == SeqOf({"a", "b", "_"}, 4)
Lists == {s \in SeqOf({"x", "y", "z"}, 3) : Len(s) > 0}
Filters == SeqOf({{"x"}, {"y", "z"}, {"x", "z"}}, 2)
Group(f) == <<"(">> \o f \o <<")">>
Times(f, g) == f \o <<"*">> \o g
Factors == {<<"a">>, <<"b">>, <<"1.0">>, Group(<<"a", "+", "b">>)}
Products == Factors \cup {Times(f, g) : f \in Factors, g \in Factors}
Groups == Products \cup {Group(f) : f \in Products}
Formulas == Groups \cup {Times(f, g) : f \in Groups, g \in Groups}

NoCall == [fn |-> "none"]
FindCommon == \E s \in Names, t \in Names : call' = [fn |-> "find_common_string", s |-> s, t |-> t, result |-> L!find_common_string(s, t)]
Clean == \E f \in Formulas : call' = [fn |-> "clean_multiplication", f |-> f, result |-> L!clean_multiplication(f)]
Sublist == \E s \in Lists, w \in Filters, b \in Filters :
  call' = [fn |-> "matching_sublist", s |-> s, white |-> w, black |-> b, result |-> L!matching_sublist(s, w, b)]
MergeSequences == \E s \in Lists, t \in Lists : call' = [fn |-> "merge_sequences", s |-> s, t |-> t, result |-> L!merge_sequences(<<s, t>>)]

\* The common string of two names can be read in each of them from left to right,
\* and two equal names have their own name in common: the pipelines whose copies
\* the wrapper removes keep a name made of what they share.
IsReadIn(s, t) == \E f \in [1..Len(s) -> 1..Len(t)] : (\A i \in 1..Len(s) : s[i] = t[f[i]]) /\ \A i, j \in 1..Len(s) : i < j => f[i] < f[j]
CommonIsInBoth ==
  call.fn = "find_common_string" =>
    /\ IsReadIn(call.result, call.s) /\ IsReadIn(call.result, call.t)
    /\ call.s = call.t /\ Len(call.s) >= 2 => call.result = call.s

\* A cleaned product has the factors of the one given, in their order, and its
\* parentheses are balanced: dropping the ones never drops or joins weights.
Weights(f) == SelectSeq(f, LAMBDA x : x \in {"a", "b", "+"})
FactorsKept ==
  call.fn = "clean_multiplication" =>
    /\ Weights(call.result) = Weights(call.f)
    /\ \A i \in DOMAIN call.result :
         LET depth == L!Depth(call.result, 1, i)
         IN  /\ depth >= 0 /\ (i = Len(call.result) => depth = 0)
             /\ call.result[i] = "+" => depth > 0 \/ L!Stars(call.result) = {}

\* White- and blacklisting never repeats an item nor drops one that an expression
\* of the whitelist finds and none of the blacklist does.
Wanted(x) == (call.white = <<>> \/ \E i \in DOMAIN call.white : x \in call.white[i]) /\ \A i \in DOMAIN call.black : x \notin call.black[i]
Occurrences(s, x) == Cardinality({i \in DOMAIN s : s[i] = x})
SublistIsSelection ==
  call.fn = "matching_sublist" =>
    \A x \in {"x", "y", "z"} : Occurrences(call.result, x) = IF Wanted(x) THEN Occurrences(call.s, x) ELSE 0

\* Merging two lists fails exactly for lists with repeated elements or with common
\* elements in different orders; otherwise both lists keep their order.
Conflict(s, t) == \E i, j \in DOMAIN s, k, l \in DOMAIN t : i < j /\ k < l /\ s[i] = t[l] /\ s[j] = t[k]
MergeAsTold ==
  call.fn = "merge_sequences" =>
    IF L!Failed(call.result) THEN ~IsInjective(call.s) \/ ~IsInjective(call.t) \/ Conflict(call.s, call.t)
    ELSE IsReadIn(call.s, call.result.merged) /\ IsReadIn(call.t, call.result.merged) /\ IsInjective(call.result.merged)

-----------------------------------------------------------------------------
Init ==
  \/ (PoolInit \/ ChunksInit \/ MatchInit \/ TreesInit) /\ NoCompare /\ call = None
  \/ component = "RootComparison" /\ Compare!Init /\ NoParallelize /\ NoHadd /\ NoTree /\ NoMatch /\ call = None /\ caller = None
  \/ component = "ListTools" /\ call = NoCall /\ NoParallelize /\ NoHadd /\ NoTree /\ NoMatch /\ NoCompare /\ caller = None /\ pc = None

CallNext == (PoolNext \/ ChunksNext \/ MatchNext \/ TreesNext) /\ UNCHANGED OtherVars
CompareNext == component = "RootComparison" /\ Compare!Next /\ UNCHANGED <<component, ParallelizeVars, HaddVars, caller, MatchVars, TreeVars, call>>
ListNext == /\ component = "ListTools" /\ call = NoCall
            /\ FindCommon \/ Clean \/ Sublist \/ MergeSequences
            /\ UNCHANGED <<callVars, CompareVars>>
Next == CallNext \/ CompareNext \/ ListNext
\* The caller goes on, free workers take what is queued, and every task ends.
Fairness == /\ WF_vars(component = "Parallelize" /\ Pool!Caller /\ UNCHANGED <<component, HaddVars, MatchVars, TreeVars, pc, OtherVars>>)
            /\ \A w \in 1..MaxProcesses : WF_vars(/\ component = "Parallelize" /\ w \in DOMAIN working /\ Pool!Worker(w)
                                                  /\ UNCHANGED <<component, HaddVars, MatchVars, TreeVars, pc, OtherVars>>)
Spec == Init /\ [][Next]_vars /\ Fairness

-----------------------------------------------------------------------------
\* A call of parallelize ends unless a worker vanished with its task (tools.py:178).
CallEnds == <>Of("Parallelize", Pool!Over)

\* Files are compared alike with and without --all; common names, cleaned products,
\* selections and merged lists keep what they were made of (compareRootFiles.py:
\* compareTree; tools.py: find_common_string, clean_multiplication, matching_sublist,
\* merge_sequences).
FunctionsAsPromised ==
  /\ Of("RootComparison", Compare!SameVerdict /\ Compare!OneFile /\ Compare!KeysCompared /\ Compare!PlainAsEqual)
  /\ Of("ListTools", CommonIsInBoth /\ FactorsKept /\ SublistIsSelection /\ MergeAsTold)
=============================================================================
