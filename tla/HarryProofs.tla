----------------------------- MODULE HarryProofs -----------------------------
(***************************************************************************)
(* Proofs about HarryPlotter: of several plots none is lost, whatever ends *)
(* it, an export has every object at its path and nothing else changed,    *)
(* the plots that one process draws do not influence each other, and the   *)
(* JSON file of a plot makes it again.  And about HenryPlotter: a          *)
(* production has the results of all objects, and what is saved has, too.  *)
(***************************************************************************)
EXTENDS MultiPlots, ExportRoot, HarryCore, PlotModules, HistogramObjects,
        SequenceTheorems, FiniteSetTheorems, WellFoundedInduction, TLAPS

-----------------------------------------------------------------------------
(* Why no plot is lost: the plots that have been tried are split, those to *)
(* come are in order, and in a pool no plot is without arguments, so that  *)
(* a failure is recognised by the arguments it gives.                      *)
Strings == {None} \cup String
Failed == [args : Strings, plot : Nat, error : {None, "traceback"}]
Answers == [file : {None} \cup Nat, args : Strings, plot : Nat, error : {None, "traceback"}]

PlotsTypeOK ==
  /\ call \in Calls
  /\ dicts \in Seq(Config \cup {None})
  /\ texts \in Seq(Strings) /\ harry_args \in Seq(Strings)
  /\ cores \in Seq({None, "core"})
  /\ answers \in Seq(Answers)
  /\ output_filenames \in Seq(Nat) /\ failed \in Seq(Failed)
  /\ phase \in {"fill", "arguments", "plot", "pool", "collect", "done", "raised", "killed"}

NoneMissing(list) == \A i \in DOMAIN list : list[i] # None
ArgumentsGiven ==
  /\ phase = "fill" => harry_args = <<>>
  /\ phase \in {"fill", "arguments"} => Len(dicts) = Len(AsList(call.configs))
  /\ phase = "arguments" /\ call.processes > 1 => NoneMissing(texts) /\ NoneMissing(harry_args)
  /\ phase \in {"pool", "collect"} => NoneMissing(harry_args)

\* The answers are those of the plots behind the first n.
AnswersFrom(as, n) ==
  \A j \in DOMAIN as :
    /\ as[j].plot = n + j
    /\ as[j].file \in {None, n + j}
    /\ as[j].args = IF as[j].file = None THEN harry_args[n + j] ELSE None

Tried == Plots - Len(answers)
SplitSoFar ==
  /\ phase \in {"fill", "arguments", "pool"} => output_filenames = <<>> /\ failed = <<>>
  /\ phase \in {"fill", "arguments"} => answers = <<>>
  /\ phase = "plot" => LET n == Len(output_filenames) + Len(failed)
                       IN  n < Plots /\ SplitOf(output_filenames, failed, n)
  /\ phase = "pool" => Len(answers) < Plots /\ AnswersFrom(answers, 0)
  /\ phase = "collect" => /\ answers # <<>> /\ Tried \in Nat /\ AnswersFrom(answers, Tried)
                          /\ SplitOf(output_filenames, failed, Tried)

PlotsInv == PlotsTypeOK /\ ArgumentsGiven /\ SplitSoFar /\ EveryPlotAccountedFor

\* One more plot, with its files or its failure.
LEMMA OneMoreFile ==
  ASSUME NEW drawn \in Seq(Nat), NEW failures \in Seq(Failed), NEW n \in Nat,
         SplitOf(drawn, failures, n), InOrder(drawn)
  PROVE  SplitOf(Append(drawn, n + 1), failures, n + 1) /\ InOrder(Append(drawn, n + 1))
<1> DEFINE more == Append(drawn, n + 1)
           bad == {failures[k].plot : k \in DOMAIN failures}
<1>1. /\ DOMAIN more = 1 .. Len(drawn) + 1 /\ Len(more) = Len(drawn) + 1
      /\ \A j \in 1 .. Len(drawn) : more[j] = drawn[j]
      /\ more[Len(drawn) + 1] = n + 1
      /\ DOMAIN drawn = 1 .. Len(drawn) /\ Len(drawn) \in Nat
  OBVIOUS
<1>2. /\ Range(drawn) \cup bad = 1 .. n /\ Range(drawn) \cap bad = {} /\ Len(drawn) + Len(failures) = n
  BY DEF SplitOf
<1>3. Range(more) = Range(drawn) \cup {n + 1}
  <2>1. \A j \in DOMAIN drawn : drawn[j] \in Range(more)
    BY <1>1 DEF Range
  <2>2. n + 1 \in Range(more)
    BY <1>1 DEF Range
  <2>3. \A j \in DOMAIN more : more[j] \in Range(drawn) \cup {n + 1}
    <3>1. SUFFICES ASSUME NEW j \in DOMAIN more PROVE more[j] \in Range(drawn) \cup {n + 1}
      OBVIOUS
    <3>2. j \in DOMAIN drawn \/ j = Len(drawn) + 1
      BY <1>1
    <3> QED BY <1>1, <3>2 DEF Range
  <2>4. \A x \in Range(drawn) : x \in Range(more)
    BY <2>1 DEF Range
  <2>5. \A x \in Range(more) : x \in Range(drawn) \cup {n + 1}
    BY <2>3 DEF Range
  <2> QED BY <2>2, <2>4, <2>5
<1>4. \A j \in DOMAIN drawn : drawn[j] \in 1 .. n
  BY <1>2 DEF Range
<1>5. InOrder(more)
  <2>1. SUFFICES ASSUME NEW j \in DOMAIN more, NEW k \in DOMAIN more, j < k PROVE more[j] < more[k]
    BY DEF InOrder
  <2>2. CASE k = Len(drawn) + 1
    BY <1>1, <1>4, <2>1, <2>2
  <2>3. CASE k # Len(drawn) + 1
    BY <1>1, <2>1, <2>3 DEF InOrder
  <2>4. QED
    BY <2>2, <2>3
<1>6. Range(more) \cup bad = 1 .. n + 1 /\ Range(more) \cap bad = {}
  <2>1. 1 .. n + 1 = (1 .. n) \cup {n + 1} /\ n + 1 \notin 1 .. n
    OBVIOUS
  <2>2. n + 1 \notin bad
    BY <1>2, <2>1
  <2>3. QED
    BY <1>2, <1>3, <2>1, <2>2
<1>7. Len(more) + Len(failures) = n + 1
  BY <1>1, <1>2
<1>8. QED
  BY <1>5, <1>6, <1>7 DEF SplitOf

LEMMA OneMoreFailure ==
  ASSUME NEW drawn \in Seq(Nat), NEW failures \in Seq(Failed), NEW n \in Nat,
         SplitOf(drawn, failures, n), NEW f \in Failed, f.plot = n + 1
  PROVE  SplitOf(drawn, Append(failures, f), n + 1)
<1> DEFINE more == Append(failures, f)
           bad == {failures[k].plot : k \in DOMAIN failures}
           worse == {more[k].plot : k \in DOMAIN more}
<1>1. /\ DOMAIN more = 1 .. Len(failures) + 1 /\ Len(more) = Len(failures) + 1
      /\ \A j \in 1 .. Len(failures) : more[j] = failures[j]
      /\ more[Len(failures) + 1] = f
      /\ DOMAIN failures = 1 .. Len(failures) /\ Len(failures) \in Nat /\ Len(drawn) \in Nat
  OBVIOUS
<1>2. /\ Range(drawn) \cup bad = 1 .. n /\ Range(drawn) \cap bad = {} /\ Len(drawn) + Len(failures) = n
  BY DEF SplitOf
<1>3. worse = bad \cup {n + 1}
  <2>1. \A k \in DOMAIN failures : failures[k].plot \in worse
    BY <1>1
  <2>2. n + 1 \in worse
    <3>1. Len(failures) + 1 \in DOMAIN more /\ more[Len(failures) + 1].plot = n + 1
      BY <1>1
    <3> QED BY <3>1
  <2>3. \A k \in DOMAIN more : more[k].plot \in bad \cup {n + 1}
    <3>1. SUFFICES ASSUME NEW k \in DOMAIN more PROVE more[k].plot \in bad \cup {n + 1}
      OBVIOUS
    <3>2. CASE k \in DOMAIN failures
      BY <1>1, <3>2
    <3>3. CASE k \notin DOMAIN failures
      <4>1. k = Len(failures) + 1
        BY <1>1, <3>1, <3>3
      <4> QED BY <1>1, <4>1
    <3> QED BY <3>2, <3>3
  <2> QED BY <2>1, <2>2, <2>3
<1>4. 1 .. n + 1 = (1 .. n) \cup {n + 1} /\ n + 1 \notin 1 .. n
  OBVIOUS
<1> HIDE DEF bad, worse
<1>5. Range(drawn) \cup worse = 1 .. n + 1 /\ Range(drawn) \cap worse = {}
  BY <1>2, <1>3, <1>4
<1>6. QED
  BY <1>1, <1>2, <1>5 DEF SplitOf, worse

LEMMA NothingTried == SplitOf(<<>>, <<>>, 0) /\ InOrder(<<>>) /\ TheirOwn(<<>>)
<1>1. Range(<<>>) = {} /\ {<<>>[k].plot : k \in DOMAIN <<>>} = {} /\ 1 .. 0 = {} /\ Len(<<>>) = 0
  BY DEF Range
<1>2. SplitOf(<<>>, <<>>, 0)
  BY <1>1 DEF SplitOf
<1> QED BY <1>2 DEF InOrder, TheirOwn

-----------------------------------------------------------------------------
(* The lists.                                                              *)

LEMMA ListTypes ==
  ASSUME NEW c \in Calls
  PROVE  /\ AsList(c.configs) \in Seq(Config \cup {None}) /\ AsList(c.texts) \in Seq(Strings)
         /\ c.plots = None \/ c.plots \in Nat
         /\ c.processes \in Nat
<1> DEFINE C == Seq(Config \cup {None})
           T == Seq(Strings)
<1>1. <<None>> \in C /\ <<None>> \in T
  BY DEF Strings
<1> HIDE DEF C, T
<1>2. c \in [configs : {None} \cup C, texts : {None} \cup T, processes : Nat, plots : {None} \cup Nat]
  BY CallsType DEF C, T, Strings
<1>3. c.configs \in {None} \cup C /\ c.texts \in {None} \cup T /\ c.plots \in {None} \cup Nat /\ c.processes \in Nat
  BY <1>2
<1> QED BY <1>1, <1>3 DEF AsList, C, T

LEMMA SourceInList ==
  ASSUME NEW S, NEW list \in Seq(S), list # <<>>, NEW i \in Nat, i >= 1
  PROVE  Source(list, i) \in 1 .. Len(list)
<1>1. Len(list) \in Nat /\ Len(list) > 0 /\ i - 1 \in Nat
  OBVIOUS
<1>2. (i - 1) % Len(list) \in 0 .. Len(list) - 1
  BY <1>1
<1> QED BY <1>1, <1>2 DEF Source

TakenFrom(full, list, S) == full \in Seq(S) /\ \A i \in DOMAIN full : \E j \in DOMAIN list : full[i] = list[j]
LEMMA FillTypes ==
  ASSUME NEW S, NEW list \in Seq(S), NEW n \in Nat
  PROVE  TakenFrom(Fill(list, n), list, S)
<1>1. CASE list = <<>>
  BY <1>1 DEF Fill, TakenFrom
<1>2. CASE list # <<>>
  <2>1. \A i \in 1 .. n : Source(list, i) \in DOMAIN list
    BY <1>2, SourceInList
  <2>2. Fill(list, n) = [i \in 1 .. n |-> list[Source(list, i)]]
    BY <1>2 DEF Fill
  <2>3. \A i \in 1 .. n : list[Source(list, i)] \in S
    BY <2>1
  <2> QED BY <2>1, <2>2, <2>3 DEF TakenFrom
<1> QED BY <1>1, <1>2

LEMMA CountType == ASSUME call \in Calls PROVE Count \in Nat
<1>1. Len(AsList(call.configs)) \in Nat /\ Len(AsList(call.texts)) \in Nat
  BY ListTypes
<1> QED BY <1>1 DEF Count

LEMMA TogetherType ==
  ASSUME NEW d \in Config \cup {None}, NEW text \in Strings
  PROVE  Together(d, text) \in Strings /\ (text # None => Together(d, text) # None)
<1>1. \A t \in String : <<d>> \o t \in Seq(Config \cup {None})
  BY DEF String
<1>2. CASE d = None
  BY <1>2 DEF Together
<1>3. CASE d # None
  <2>1. d \in Config
    BY <1>3
  <2>2. <<>> \in String /\ \A t \in String : <<d>> \o t \in String
    BY <2>1 DEF String
  <2>3. Together(d, text) \in String
    BY <1>3, <2>2 DEF Together, Strings
  <2> QED BY <2>3, NoneIsNothing DEF Strings
<1> QED BY <1>2, <1>3

-----------------------------------------------------------------------------
(* The steps.                                                              *)

LEMMA InitKeepsPlots == PlotsInit => PlotsInv
<1> SUFFICES ASSUME PlotsInit PROVE PlotsInv
  OBVIOUS
<1>1. PlotsTypeOK
  <2>1. call \in Calls /\ dicts \in Seq(Config \cup {None}) /\ phase = "fill"
    BY ListTypes DEF PlotsInit
  <2>2. \A S : <<>> \in Seq(S)
    OBVIOUS
  <2> QED BY <2>1, <2>2 DEF PlotsInit, PlotsTypeOK
<1>2. ArgumentsGiven /\ SplitSoFar /\ EveryPlotAccountedFor
  BY DEF PlotsInit, ArgumentsGiven, SplitSoFar, EveryPlotAccountedFor
<1> QED BY <1>1, <1>2 DEF PlotsInv

LEMMA FillUpKeeps == ASSUME PlotsInv, FillUp PROVE PlotsInv'
<1>0. PlotsTypeOK /\ SplitSoFar
  BY DEF PlotsInv
<1>1. /\ call' = call /\ dicts' = dicts /\ harry_args' = harry_args /\ cores' = cores /\ answers' = answers
      /\ output_filenames' = output_filenames /\ failed' = failed
      /\ phase = "fill" /\ phase' \in {"arguments", "raised"}
  BY DEF FillUp, results
<1>2. /\ texts' \in Seq(Strings)
      /\ phase' = "arguments" /\ call.processes > 1 => NoneMissing(texts')
  <2> DEFINE list == AsList(call.texts)
             full == Fill(list, Count)
             OneOf(i) == \E j \in DOMAIN list : full[i] = list[j]
  <2>1. list \in Seq(Strings) /\ Count \in Nat
    BY <1>0, ListTypes, CountType DEF PlotsTypeOK
  <2> HIDE DEF list
  <2>2. full \in Seq(Strings) /\ \A i \in DOMAIN full : OneOf(i)
    <3>1. TakenFrom(Fill(list, Count), list, Strings)
      BY <2>1, FillTypes
    <3> QED BY <3>1 DEF TakenFrom
  <2>3. IF call.processes > 1 /\ \E i \in DOMAIN list : list[i] = None
        THEN phase' = "raised" /\ texts' = texts
        ELSE phase' = "arguments" /\ texts' = Fill(list, Count)
    BY DEF FillUp, list
  <2>4. phase' = "arguments" /\ call.processes > 1 => \A i \in DOMAIN list : list[i] # None
    BY <2>3
  <2> QED BY <1>0, <2>2, <2>3, <2>4 DEF NoneMissing, PlotsTypeOK
<1>3. PlotsTypeOK'
  BY <1>0, <1>1, <1>2 DEF PlotsTypeOK
<1>4. ArgumentsGiven'
  BY <1>1, <1>2 DEF PlotsInv, ArgumentsGiven, NoneMissing, AsList
<1>5. SplitSoFar' /\ EveryPlotAccountedFor'
  BY <1>0, <1>1 DEF SplitSoFar, EveryPlotAccountedFor
<1> QED BY <1>3, <1>4, <1>5 DEF PlotsInv

LEMMA ArgumentsKeeps == ASSUME PlotsInv, Arguments PROVE PlotsInv'
<1> DEFINE i == Len(harry_args) + 1
           s == Source(dicts, i)
<1>0. PlotsTypeOK /\ ArgumentsGiven /\ SplitSoFar
  BY DEF PlotsInv
<1>1. /\ call' = call /\ texts' = texts /\ cores' = cores /\ answers' = answers
      /\ output_filenames' = output_filenames /\ failed' = failed
      /\ phase = "arguments" /\ phase' = "arguments" /\ Len(harry_args) < Pairs
      /\ harry_args' = Append(harry_args, Together(dicts[s], texts[i]))
      /\ dicts' = IF dicts[s] = None THEN dicts ELSE [dicts EXCEPT ![s] = [own |-> dicts[s].own, base |-> None]]
  BY DEF Arguments, results
<1>2. i \in DOMAIN texts /\ i \in Nat /\ i >= 1 /\ dicts # <<>>
  <2>1. Len(harry_args) \in Nat /\ Len(texts) \in Nat /\ DOMAIN texts = 1 .. Len(texts)
    BY <1>0 DEF PlotsTypeOK
  <2>2. AsList(call.configs) # <<>> /\ Len(harry_args) < Len(texts)
    BY <1>1, <2>1 DEF Pairs
  <2>3. Len(AsList(call.configs)) # 0
    BY <1>0, <2>2, ListTypes DEF PlotsTypeOK
  <2>4. Len(dicts) # 0
    BY <1>0, <1>1, <2>3 DEF ArgumentsGiven
  <2> QED BY <2>1, <2>2, <2>4
<1>3. s \in DOMAIN dicts /\ dicts[s] \in Config \cup {None} /\ texts[i] \in Strings
  <2>1. s \in 1 .. Len(dicts)
    BY <1>0, <1>2, SourceInList DEF PlotsTypeOK
  <2> HIDE DEF s, i
  <2> QED BY <1>0, <1>2, <2>1 DEF PlotsTypeOK
<1>4. /\ Together(dicts[s], texts[i]) \in Strings
      /\ texts[i] # None => Together(dicts[s], texts[i]) # None
  BY <1>3, TogetherType
<1>5. dicts' \in Seq(Config \cup {None}) /\ Len(dicts') = Len(dicts)
  <2>1. CASE dicts[s] = None
    BY <1>0, <1>1, <2>1 DEF PlotsTypeOK
  <2>2. CASE dicts[s] # None
    <3> DEFINE d == [own |-> dicts[s].own, base |-> None]
    <3>1. d \in Config \cup {None}
      BY <1>3, <2>2 DEF Config
    <3>2. dicts' = [dicts EXCEPT ![s] = d]
      BY <1>1, <2>2
    <3>3. dicts \in Seq(Config \cup {None})
      BY <1>0 DEF PlotsTypeOK
    <3> HIDE DEF d, s, i
    <3> QED BY <1>3, <3>1, <3>2, <3>3
  <2> QED BY <2>1, <2>2
<1>6. harry_args' \in Seq(Strings)
  BY <1>0, <1>1, <1>4 DEF PlotsTypeOK
<1>7. call.processes > 1 => NoneMissing(harry_args')
  <2>1. SUFFICES ASSUME call.processes > 1, NEW j \in DOMAIN harry_args' PROVE harry_args'[j] # None
    BY DEF NoneMissing
  <2>2. NoneMissing(texts) /\ NoneMissing(harry_args) /\ harry_args \in Seq(Strings)
    BY <1>0, <1>1, <2>1 DEF ArgumentsGiven, PlotsTypeOK
  <2>3. Together(dicts[s], texts[i]) # None
    BY <1>2, <1>4, <2>2 DEF NoneMissing
  <2> HIDE DEF s, i
  <2> QED BY <1>1, <1>4, <2>2, <2>3 DEF NoneMissing
<1>8. PlotsTypeOK'
  BY <1>0, <1>1, <1>5, <1>6 DEF PlotsTypeOK
<1>9. ArgumentsGiven'
  <2>1. Len(dicts') = Len(AsList(call.configs)')
    BY <1>0, <1>1, <1>5 DEF ArgumentsGiven, AsList
  <2>2. call.processes > 1 => NoneMissing(texts')
    BY <1>0, <1>1 DEF ArgumentsGiven, NoneMissing
  <2> QED BY <1>1, <1>7, <2>1, <2>2 DEF ArgumentsGiven, NoneMissing
<1>10. SplitSoFar' /\ EveryPlotAccountedFor'
  BY <1>0, <1>1 DEF SplitSoFar, EveryPlotAccountedFor
<1> QED BY <1>8, <1>9, <1>10 DEF PlotsInv

LEMMA CutType ==
  ASSUME call \in Calls, NEW list \in Seq(Strings)
  PROVE  /\ Cut(list) \in Seq(Strings) /\ Len(Cut(list)) \in Nat
         /\ NoneMissing(list) => NoneMissing(Cut(list))
<1>1. CASE call.plots = None \/ call.plots > Len(list)
  BY <1>1 DEF Cut
<1>2. CASE ~(call.plots = None \/ call.plots > Len(list))
  <2>1. call.plots \in Nat /\ call.plots <= Len(list) /\ Cut(list) = SubSeq(list, 1, call.plots)
    BY <1>2, ListTypes DEF Cut
  <2>2. /\ Cut(list) \in Seq(Strings) /\ DOMAIN Cut(list) = 1 .. call.plots
        /\ \A j \in 1 .. call.plots : Cut(list)[j] = list[j]
    BY <2>1
  <2> QED BY <2>1, <2>2 DEF NoneMissing
<1> QED BY <1>1, <1>2

LEMMA StartKeeps == ASSUME PlotsInv, Start PROVE PlotsInv'
<1> DEFINE n == Len(Cut(harry_args))
           m == IF call.plots = None THEN Count ELSE n
<1>0. PlotsTypeOK /\ ArgumentsGiven /\ SplitSoFar
  BY DEF PlotsInv
<1>1. /\ call' = call /\ texts' = texts /\ dicts' = dicts /\ answers' = answers
      /\ output_filenames' = output_filenames /\ failed' = failed
      /\ phase = "arguments" /\ harry_args' = Cut(harry_args)
      /\ cores' = [j \in 1 .. m |-> None]
  BY DEF Start
<1>2. phase' = CASE call.plots = None /\ n < Count -> "raised"
                 [] n = 0 -> "done"
                 [] n > 1 /\ call.processes > 1 -> "pool"
                 [] OTHER -> "plot"
  BY DEF Start
<1>3. /\ Cut(harry_args) \in Seq(Strings) /\ n \in Nat
      /\ NoneMissing(harry_args) => NoneMissing(Cut(harry_args))
  BY <1>0, CutType DEF PlotsTypeOK
<1>4. /\ output_filenames = <<>> /\ failed = <<>> /\ answers = <<>>
  BY <1>0, <1>1 DEF SplitSoFar
<1>5. Plots' = n
  BY <1>1 DEF Plots
<1>6. Count \in Nat
  BY <1>0, CountType DEF PlotsTypeOK
<1> HIDE DEF n
<1>7. /\ phase' \in {"raised", "done", "pool", "plot"}
      /\ phase' = "done" => n = 0
      /\ phase' = "pool" => n > 1 /\ call.processes > 1
      /\ phase' = "plot" => n > 0
  <2>1. CASE call.plots = None /\ n < Count
    BY <1>2, <2>1
  <2>2. CASE ~(call.plots = None /\ n < Count) /\ n = 0
    BY <1>2, <2>2
  <2>3. CASE ~(call.plots = None /\ n < Count) /\ n # 0
    BY <1>2, <1>3, <2>3
  <2> QED BY <2>1, <2>2, <2>3
<1>8. cores' \in Seq({None, "core"})
  <2>1. m \in Nat
    BY <1>3, <1>6
  <2> HIDE DEF m
  <2> QED BY <1>1, <2>1
<1>9. PlotsTypeOK'
  BY <1>0, <1>1, <1>3, <1>7, <1>8 DEF PlotsTypeOK
<1>10. ArgumentsGiven'
  <2>1. phase' = "pool" => NoneMissing(harry_args')
    BY <1>0, <1>1, <1>3, <1>7 DEF ArgumentsGiven
  <2> QED BY <1>7, <2>1 DEF ArgumentsGiven, NoneMissing
<1>11. SplitOf(output_filenames', failed', 0) /\ InOrder(output_filenames') /\ TheirOwn(failed)'
  BY <1>1, <1>4, NothingTried DEF TheirOwn
<1>12. SplitSoFar'
  <2>1. phase' = "plot" => LET k == Len(output_filenames') + Len(failed')
                           IN  k < n /\ SplitOf(output_filenames', failed', k)
    BY <1>1, <1>3, <1>4, <1>7, <1>11
  <2>2. phase' = "pool" => Len(answers') < n /\ AnswersFrom(answers, 0)'
    BY <1>1, <1>3, <1>4, <1>7 DEF AnswersFrom
  <2> QED BY <1>1, <1>4, <1>5, <1>7, <2>1, <2>2 DEF SplitSoFar
<1>13. EveryPlotAccountedFor'
  BY <1>5, <1>7, <1>11 DEF EveryPlotAccountedFor
<1> QED BY <1>9, <1>10, <1>12, <1>13 DEF PlotsInv

\* A failure behind the others has its own arguments, too.
LEMMA OneMoreOwn ==
  ASSUME NEW failures \in Seq(Failed), NEW f \in Failed, TheirOwn(failures), f.args = harry_args[f.plot]
  PROVE  TheirOwn(Append(failures, f))
<1> DEFINE more == Append(failures, f)
<1>1. /\ DOMAIN more = 1 .. Len(failures) + 1 /\ DOMAIN failures = 1 .. Len(failures) /\ Len(failures) \in Nat
      /\ \A j \in 1 .. Len(failures) : more[j] = failures[j]
      /\ more[Len(failures) + 1] = f
  OBVIOUS
<1> HIDE DEF more
<1>2. SUFFICES ASSUME NEW k \in DOMAIN more PROVE more[k].args = harry_args[more[k].plot]
  BY DEF TheirOwn, more
<1>3. CASE k = Len(failures) + 1
  BY <1>1, <1>3
<1>4. CASE k \in 1 .. Len(failures)
  BY <1>1, <1>4 DEF TheirOwn
<1> QED BY <1>1, <1>3, <1>4

LEMMA PlotKeeps == ASSUME PlotsInv, Plot PROVE PlotsInv'
<1> DEFINE n == Len(output_filenames) + Len(failed)
           f == Failure(n + 1, None)
<1>0. PlotsTypeOK /\ ArgumentsGiven /\ SplitSoFar /\ EveryPlotAccountedFor
  BY DEF PlotsInv
<1>1. /\ call' = call /\ texts' = texts /\ dicts' = dicts /\ answers' = answers
      /\ harry_args' = harry_args /\ phase = "plot" /\ Plots' = Plots
  BY DEF Plot, Plots
<1>2. /\ output_filenames \in Seq(Nat) /\ failed \in Seq(Failed) /\ n \in Nat /\ n < Plots /\ Plots \in Nat
      /\ SplitOf(output_filenames, failed, n) /\ InOrder(output_filenames) /\ TheirOwn(failed)
  BY <1>0, <1>1 DEF PlotsTypeOK, SplitSoFar, EveryPlotAccountedFor, Plots
<1>3. \/ /\ cores' = [cores EXCEPT ![n + 1] = "core"] /\ output_filenames' = Append(output_filenames, n + 1)
         /\ failed' = failed /\ phase' = IF n + 1 = Plots THEN "done" ELSE "plot"
      \/ /\ failed' = Append(failed, f)
         /\ cores' = cores /\ output_filenames' = output_filenames
         /\ phase' = IF n + 1 = Plots THEN "done" ELSE "plot"
      \/ phase' = "raised" /\ cores' = cores /\ output_filenames' = output_filenames /\ failed' = failed
  BY DEF Plot
<1>4. f \in Failed /\ f.plot = n + 1 /\ f.args = harry_args[f.plot]
  <2>1. harry_args[n + 1] \in Strings
    <3>1. harry_args \in Seq(Strings) /\ n + 1 \in 1 .. Len(harry_args)
      BY <1>0, <1>2 DEF PlotsTypeOK, Plots
    <3> HIDE DEF n
    <3> QED BY <3>1
  <2> HIDE DEF n
  <2> QED BY <1>2, <2>1 DEF Failure, Failed
<1>5. cores' \in Seq({None, "core"})
  <2>1. cores \in Seq({None, "core"})
    BY <1>0 DEF PlotsTypeOK
  <2>2. [cores EXCEPT ![n + 1] = "core"] \in Seq({None, "core"})
    <3> DEFINE S == {None, "core"}
               i == n + 1
    <3>1. cores \in [1 .. Len(cores) -> S] /\ Len(cores) \in Nat /\ "core" \in S
      BY <2>1
    <3> HIDE DEF n, S, i
    <3>2. [cores EXCEPT ![i] = "core"] \in [1 .. Len(cores) -> S]
      BY <3>1
    <3>3. [cores EXCEPT ![i] = "core"] \in Seq(S)
      BY <3>1, <3>2
    <3> QED BY <3>3 DEF S, i
  <2> QED BY <1>3, <2>1, <2>2
<1> HIDE DEF f
<1>6. /\ output_filenames' \in Seq(Nat) /\ failed' \in Seq(Failed)
      /\ InOrder(output_filenames') /\ TheirOwn(failed')
      /\ phase' # "raised" =>
           /\ SplitOf(output_filenames', failed', n + 1)
           /\ Len(output_filenames') + Len(failed') = n + 1
           /\ phase' = IF n + 1 = Plots THEN "done" ELSE "plot"
  <2>1. CASE output_filenames' = Append(output_filenames, n + 1) /\ failed' = failed /\ phase' = IF n + 1 = Plots THEN "done" ELSE "plot"
    <3> HIDE DEF n
    <3>1. SplitOf(output_filenames', failed', n + 1) /\ InOrder(output_filenames')
      BY <1>2, <2>1, OneMoreFile
    <3> QED BY <1>2, <2>1, <3>1 DEF SplitOf
  <2>2. CASE failed' = Append(failed, f) /\ output_filenames' = output_filenames /\ phase' = IF n + 1 = Plots THEN "done" ELSE "plot"
    <3> HIDE DEF n
    <3>1. SplitOf(output_filenames', failed', n + 1)
      BY <1>2, <1>4, <2>2, OneMoreFailure
    <3>2. TheirOwn(failed')
      BY <1>2, <1>4, <2>2, OneMoreOwn
    <3> QED BY <1>2, <1>4, <2>2, <3>1, <3>2 DEF SplitOf
  <2>3. CASE phase' = "raised" /\ output_filenames' = output_filenames /\ failed' = failed
    BY <1>2, <2>3
  <2> QED BY <1>3, <2>1, <2>2, <2>3
<1> HIDE DEF n
<1>7. phase' \in {"plot", "done", "raised"}
  BY <1>3
<1>8. PlotsTypeOK'
  BY <1>0, <1>1, <1>5, <1>6, <1>7 DEF PlotsTypeOK
<1>9. ArgumentsGiven'
  BY <1>7 DEF ArgumentsGiven
<1>10. phase' = "plot" => LET k == Len(output_filenames') + Len(failed') IN k < Plots' /\ SplitOf(output_filenames', failed', k)
  BY <1>1, <1>2, <1>6
<1>11. SplitSoFar'
  BY <1>7, <1>10 DEF SplitSoFar
<1>12. EveryPlotAccountedFor'
  <2>1. TheirOwn(failed)'
    BY <1>1, <1>6 DEF TheirOwn
  <2>2. phase' = "done" => SplitOf(output_filenames', failed', Plots')
    BY <1>1, <1>6
  <2> QED BY <1>6, <2>1, <2>2 DEF EveryPlotAccountedFor
<1> QED BY <1>8, <1>9, <1>11, <1>12 DEF PlotsInv

\* A process that is killed takes no answer back, and nothing is handed back after it.
LEMMA KilledKeeps == ASSUME PlotsInv, Answer, phase' = "killed", UNCHANGED answers PROVE PlotsInv'
<1>1. /\ phase = "pool" /\ UNCHANGED <<call, texts, dicts, cores, output_filenames, failed, harry_args>>
  BY DEF Answer
<1>2. PlotsTypeOK'
  BY <1>1 DEF PlotsInv, PlotsTypeOK
<1>3. ArgumentsGiven'
  BY DEF ArgumentsGiven
<1>4. SplitSoFar'
  BY DEF SplitSoFar
<1>5. EveryPlotAccountedFor'
  BY DEF EveryPlotAccountedFor
<1> QED BY <1>2, <1>3, <1>4, <1>5 DEF PlotsInv

LEMMA AnswerKeeps == ASSUME PlotsInv, Answer, phase' # "killed" PROVE PlotsInv'
<1> DEFINE n == Len(answers)
<1>0. PlotsTypeOK /\ ArgumentsGiven /\ SplitSoFar
  BY DEF PlotsInv
<1>1. /\ call' = call /\ texts' = texts /\ dicts' = dicts /\ cores' = cores
      /\ output_filenames' = output_filenames /\ failed' = failed
      /\ harry_args' = harry_args /\ phase = "pool" /\ Plots' = Plots
      /\ phase' = IF n + 1 = Plots THEN "collect" ELSE "pool"
  BY DEF Answer, Plots, Vanishing
<1>2. PICK outcome \in {"ok", "exit", "raise"} : answers' = Append(answers, pool_plot(n + 1, outcome))
  BY DEF Answer, Vanishing
<1>3. /\ answers \in Seq(Answers) /\ n \in Nat /\ n < Plots /\ Plots \in Nat /\ AnswersFrom(answers, 0)
      /\ output_filenames = <<>> /\ failed = <<>> /\ NoneMissing(harry_args)
  BY <1>0, <1>1 DEF PlotsTypeOK, SplitSoFar, ArgumentsGiven, Plots
<1> DEFINE a == pool_plot(n + 1, outcome)
<1>4. harry_args[n + 1] \in Strings
  <2>1. harry_args \in Seq(Strings) /\ n + 1 \in 1 .. Len(harry_args)
    BY <1>0, <1>3 DEF PlotsTypeOK, Plots
  <2> HIDE DEF n
  <2>2. \A k \in 1 .. Len(harry_args) : harry_args[k] \in Strings
    BY <2>1
  <2> QED BY <2>1, <2>2
<1> HIDE DEF n
<1>5. /\ a \in Answers /\ a.plot = n + 1 /\ a.file \in {None, n + 1}
      /\ a.args = IF a.file = None THEN harry_args[n + 1] ELSE None
  <2>1. n + 1 \in Nat /\ n + 1 # None /\ None \in Strings
    BY <1>3, NoneIsNothing DEF Strings
  <2>2. CASE outcome = "ok"
    BY <2>1, <2>2 DEF pool_plot, Answers
  <2>3. CASE outcome = "exit"
    BY <1>4, <2>1, <2>3 DEF pool_plot, Answers
  <2>4. CASE outcome = "raise"
    BY <1>4, <2>1, <2>4 DEF pool_plot, Answers
  <2> QED BY <1>2, <2>2, <2>3, <2>4
<1> HIDE DEF a
<1>6. /\ answers' \in Seq(Answers) /\ Len(answers') = n + 1 /\ DOMAIN answers' = 1 .. n + 1
      /\ \A j \in 1 .. n : answers'[j] = answers[j]
      /\ answers'[n + 1] = a
  <2>1. answers' = Append(answers, a) /\ n = Len(answers)
    BY <1>2 DEF a, n
  <2> QED BY <1>3, <1>5, <2>1
<1>7. AnswersFrom(answers', 0)
  <2>1. SUFFICES ASSUME NEW j \in 1 .. n + 1
                 PROVE  /\ answers'[j].plot = 0 + j /\ answers'[j].file \in {None, 0 + j}
                        /\ answers'[j].args = IF answers'[j].file = None THEN harry_args[0 + j] ELSE None
    BY <1>6 DEF AnswersFrom
  <2>2. CASE j = n + 1
    BY <1>3, <1>5, <1>6, <2>2
  <2>3. CASE j \in 1 .. n
    <3>1. j \in DOMAIN answers /\ 0 + j = j
      BY <1>3, <2>3 DEF n
    <3> QED BY <1>3, <1>6, <2>3, <3>1 DEF AnswersFrom
  <2> QED BY <1>3, <2>2, <2>3
<1>8. phase' \in {"pool", "collect"}
  BY <1>1
<1>9. PlotsTypeOK'
  BY <1>0, <1>1, <1>6, <1>8 DEF PlotsTypeOK
<1>10. ArgumentsGiven'
  BY <1>1, <1>3, <1>8 DEF ArgumentsGiven, NoneMissing
<1>11. SplitSoFar'
  <2>1. phase' = "pool" => Len(answers') < Plots' /\ AnswersFrom(answers, 0)'
    BY <1>1, <1>3, <1>6, <1>7 DEF AnswersFrom
  <2>2. phase' = "collect" => /\ answers' # <<>> /\ Tried' = 0 /\ AnswersFrom(answers, 0)'
    <3>1. Len(answers') > 0
      BY <1>3, <1>6
    <3>2. phase' = "collect" => Plots' = n + 1
      BY <1>1
    <3> QED BY <1>1, <1>3, <1>6, <1>7, <3>1, <3>2 DEF AnswersFrom, Tried
  <2>3. SplitOf(output_filenames', failed', 0)
    BY <1>1, <1>3, NothingTried
  <2>4. phase' = "collect" => /\ answers' # <<>> /\ Tried' \in Nat /\ AnswersFrom(answers, Tried)'
                              /\ SplitOf(output_filenames', failed', Tried')
    <3>1. SUFFICES ASSUME phase' = "collect" PROVE AnswersFrom(answers, Tried)' /\ answers' # <<>> /\ Tried' \in Nat /\ SplitOf(output_filenames', failed', Tried')
      OBVIOUS
    <3>2. Tried' = 0 /\ AnswersFrom(answers, 0)' /\ answers' # <<>>
      BY <2>2, <3>1
    <3>3. AnswersFrom(answers, Tried)'
      BY <3>2 DEF AnswersFrom
    <3> QED BY <2>3, <3>2, <3>3
  <2> QED BY <1>1, <1>3, <1>8, <2>1, <2>4 DEF SplitSoFar
<1>12. EveryPlotAccountedFor'
  <2>1. InOrder(output_filenames') /\ TheirOwn(failed)'
    BY <1>1, <1>3, NothingTried DEF TheirOwn
  <2> QED BY <1>8, <2>1 DEF EveryPlotAccountedFor
<1> QED BY <1>9, <1>10, <1>11, <1>12 DEF PlotsInv

LEMMA CollectKeeps == ASSUME PlotsInv, Collect PROVE PlotsInv'
<1> DEFINE n == Tried
           a == Head(answers)
           f == [args |-> a.args, plot |-> a.plot, error |-> a.error]
<1>0. PlotsTypeOK /\ ArgumentsGiven /\ SplitSoFar /\ EveryPlotAccountedFor
  BY DEF PlotsInv
<1>1. /\ call' = call /\ texts' = texts /\ dicts' = dicts /\ cores' = cores
      /\ harry_args' = harry_args /\ phase = "collect" /\ Plots' = Plots
      /\ answers' = Tail(answers)
      /\ phase' = IF Tail(answers) = <<>> THEN "done" ELSE "collect"
      /\ output_filenames' = IF a.file # None THEN Append(output_filenames, a.file) ELSE output_filenames
      /\ failed' = IF a.args # None THEN Append(failed, f) ELSE failed
  BY DEF Collect, Plots, HasFailed
<1>2. /\ answers \in Seq(Answers) /\ answers # <<>> /\ n \in Nat /\ AnswersFrom(answers, n)
      /\ SplitOf(output_filenames, failed, n) /\ NoneMissing(harry_args)
      /\ output_filenames \in Seq(Nat) /\ failed \in Seq(Failed)
      /\ InOrder(output_filenames) /\ TheirOwn(failed) /\ Plots \in Nat
      /\ Plots = n + Len(answers)
  <2>1. answers \in Seq(Answers) /\ n \in Nat /\ Plots \in Nat
    BY <1>0, <1>1 DEF PlotsTypeOK, SplitSoFar, Plots
  <2>2. Plots = n + Len(answers)
    BY <2>1 DEF Tried
  <2> QED BY <1>0, <1>1, <2>1, <2>2 DEF PlotsTypeOK, SplitSoFar, ArgumentsGiven, EveryPlotAccountedFor
<1>3. /\ a = answers[1] /\ a \in Answers /\ 1 \in DOMAIN answers /\ Len(answers) \in Nat /\ Len(answers) >= 1
      /\ answers' \in Seq(Answers) /\ Len(answers') = Len(answers) - 1
      /\ \A j \in 1 .. Len(answers) - 1 : answers'[j] = answers[j + 1]
      /\ DOMAIN answers' = 1 .. Len(answers) - 1
      /\ Tail(answers) = <<>> <=> Len(answers) = 1
  <2>1. answers \in Seq(Answers) /\ answers # <<>> /\ answers' = Tail(answers)
    BY <1>1, <1>2
  <2> HIDE DEF n, f
  <2>2. Len(answers) \in Nat /\ Len(answers) >= 1 /\ 1 \in DOMAIN answers /\ a = answers[1] /\ a \in Answers
    BY <2>1
  <2>3. /\ answers' \in Seq(Answers) /\ Len(answers') = Len(answers) - 1
        /\ \A j \in 1 .. Len(answers) - 1 : answers'[j] = answers[j + 1]
    BY <2>1, <2>2
  <2>4. DOMAIN answers' = 1 .. Len(answers')
    BY <2>3
  <2>5. Tail(answers) = <<>> <=> Len(Tail(answers)) = 0
    <3>1. \A t \in Seq(Answers) : t = <<>> <=> Len(t) = 0
      OBVIOUS
    <3> QED BY <2>1, <2>3, <3>1
  <2> QED BY <2>1, <2>2, <2>3, <2>4, <2>5
<1> HIDE DEF n, a
<1>4. /\ a.plot = n + 1 /\ a.file \in {None, n + 1}
      /\ a.args = IF a.file = None THEN harry_args[n + 1] ELSE None
  BY <1>2, <1>3 DEF AnswersFrom
<1>5. harry_args[n + 1] # None
  <2>1. harry_args \in Seq(Strings) /\ n + 1 \in 1 .. Len(harry_args)
    BY <1>0, <1>2, <1>3 DEF PlotsTypeOK, Plots
  <2> QED BY <1>2, <2>1 DEF NoneMissing
<1>6. f \in Failed /\ f.plot = n + 1 /\ f.args = a.args
  BY <1>3, <1>4 DEF Failed, Answers
<1> HIDE DEF f
<1>7. /\ output_filenames' \in Seq(Nat) /\ failed' \in Seq(Failed)
      /\ SplitOf(output_filenames', failed', n + 1)
      /\ InOrder(output_filenames') /\ TheirOwn(failed')
  <2>1. CASE a.file = None
    <3>1. output_filenames' = output_filenames /\ failed' = Append(failed, f) /\ f.args = harry_args[f.plot]
      BY <1>1, <1>4, <1>5, <1>6, <2>1
    <3>2. SplitOf(output_filenames', failed', n + 1)
      BY <1>2, <1>6, <3>1, OneMoreFailure
    <3>3. TheirOwn(failed')
      BY <1>2, <1>6, <3>1, OneMoreOwn
    <3> QED BY <1>2, <1>6, <3>1, <3>2, <3>3
  <2>2. CASE a.file # None
    <3>1. output_filenames' = Append(output_filenames, n + 1) /\ failed' = failed
      BY <1>1, <1>4, <2>2
    <3>2. SplitOf(output_filenames', failed', n + 1) /\ InOrder(output_filenames')
      BY <1>2, <3>1, OneMoreFile
    <3> QED BY <1>2, <3>1, <3>2
  <2> QED BY <2>1, <2>2
<1>8. Tried' = n + 1 /\ phase' \in {"collect", "done"} /\ (phase' = "done" => n + 1 = Plots)
  <2>1. Tried' = Plots' - Len(answers')
    BY DEF Tried
  <2>2. Tried' = n + 1
    BY <1>1, <1>2, <1>3, <2>1
  <2>3. phase' = "done" => Len(answers) = 1
    BY <1>1, <1>3
  <2> QED BY <1>1, <1>2, <2>2, <2>3
<1>9. AnswersFrom(answers', n + 1)
  <2>1. SUFFICES ASSUME NEW j \in DOMAIN answers'
                 PROVE  /\ answers'[j].plot = n + 1 + j /\ answers'[j].file \in {None, n + 1 + j}
                        /\ answers'[j].args = IF answers'[j].file = None THEN harry_args[n + 1 + j] ELSE None
    BY DEF AnswersFrom
  <2>2. j \in 1 .. Len(answers) - 1 /\ j + 1 \in DOMAIN answers /\ n + (j + 1) = n + 1 + j
    <3>1. DOMAIN answers = 1 .. Len(answers) /\ Len(answers) \in Nat /\ n \in Nat
      BY <1>2, <1>3
    <3>2. j \in 1 .. Len(answers) - 1
      BY <1>3, <2>1
    <3>3. j + 1 \in 1 .. Len(answers)
      BY <3>1, <3>2
    <3>4. n + (j + 1) = n + 1 + j
      BY <3>1, <3>2
    <3> QED BY <3>1, <3>2, <3>3, <3>4
  <2>3. answers'[j] = answers[j + 1]
    BY <1>3, <2>2
  <2> QED BY <1>2, <2>2, <2>3 DEF AnswersFrom
<1>10. PlotsTypeOK'
  BY <1>0, <1>1, <1>3, <1>7, <1>8 DEF PlotsTypeOK
<1>11. ArgumentsGiven'
  BY <1>1, <1>2, <1>8 DEF ArgumentsGiven, NoneMissing
<1>12. SplitSoFar'
  <2>1. SUFFICES ASSUME phase' = "collect"
                 PROVE  /\ answers' # <<>> /\ Tried' \in Nat /\ AnswersFrom(answers, Tried)'
                        /\ SplitOf(output_filenames', failed', Tried')
    BY <1>8 DEF SplitSoFar
  <2>2. answers' # <<>>
    BY <1>1, <2>1
  <2>3. AnswersFrom(answers, Tried)'
    BY <1>1, <1>8, <1>9 DEF AnswersFrom
  <2> QED BY <1>2, <1>7, <1>8, <2>2, <2>3
<1>13. EveryPlotAccountedFor'
  <2>1. TheirOwn(failed)'
    BY <1>1, <1>7 DEF TheirOwn
  <2>2. phase' = "done" => SplitOf(output_filenames', failed', Plots')
    BY <1>1, <1>7, <1>8
  <2> QED BY <1>7, <2>1, <2>2 DEF EveryPlotAccountedFor
<1> QED BY <1>10, <1>11, <1>12, <1>13 DEF PlotsInv

LEMMA NextKeepsPlots == PlotsInv /\ [PlotsNext]_plotsVars => PlotsInv'
<1> SUFFICES ASSUME PlotsInv, [PlotsNext]_plotsVars PROVE PlotsInv'
  OBVIOUS
<1>1. CASE UNCHANGED plotsVars
  BY <1>1 DEF plotsVars, PlotsInv, PlotsTypeOK, ArgumentsGiven, SplitSoFar, EveryPlotAccountedFor, Plots, Tried,
     TheirOwn, NoneMissing, AnswersFrom, AsList
<1>2. CASE PlotsNext
  <2>1. Answer => phase' # "killed" \/ UNCHANGED answers
    BY DEF Answer
  <2> QED BY <1>2, <2>1, FillUpKeeps, ArgumentsKeeps, StartKeeps, PlotKeeps, KilledKeeps, AnswerKeeps, CollectKeeps DEF PlotsNext
<1> QED BY <1>1, <1>2

\* Every variable of a call stays within its type, for any lists of configurations and
\* arguments (harry.py: multi_plots).
THEOREM PlotsTypeCorrect == PlotsSpec => []PlotsTypeOK
<1>1. PlotsInv => PlotsTypeOK
  BY DEF PlotsInv
<1> QED BY <1>1, InitKeepsPlots, NextKeepsPlots, PTL DEF PlotsSpec

\* Every requested plot is once among the files or the failures, for any lists, any
\* number of processes and whatever becomes of each plot.
THEOREM NoPlotLost == PlotsSpec => []EveryPlotAccountedFor
<1>1. PlotsInv => EveryPlotAccountedFor
  BY DEF PlotsInv
<1> QED BY <1>1, InitKeepsPlots, NextKeepsPlots, PTL DEF PlotsSpec

-----------------------------------------------------------------------------
(* Paths, and what writing an object does to a file.                       *)

LEMMA PathFacts ==
  ASSUME NEW p, IsPath(p)
  PROVE  Len(p) \in Nat \ {0} /\ DOMAIN p = 1 .. Len(p)
BY DEF IsPath

LEMMA FunctionsArePaths ==
  ASSUME NEW n \in Nat \ {0}, NEW p, p = [j \in 1 .. n |-> p[j]]
  PROVE  IsPath(p)
<1>1. p \in [1 .. n -> Range(p)]
  BY DEF Range
<1>2. p \in Seq(Range(p))
  BY <1>1, SeqDef
<1>3. p # <<>>
  <2>1. 1 \in DOMAIN p
    OBVIOUS
  <2> QED BY <2>1
<1> QED BY <1>2, <1>3 DEF IsPath

\* The directories above a directory of a path are above the path.
LEMMA ParentFacts ==
  ASSUME NEW p, IsPath(p), NEW d \in parents(p)
  PROVE  IsPath(d) /\ Len(d) < Len(p) /\ parents(d) \subseteq parents(p)
<1> DEFINE S == Range(p)
<1>1. p \in Seq(S)
  BY DEF IsPath
<1> HIDE DEF S
<1>2. PICK n \in 1 .. Len(p) - 1 : d = SubSeq(p, 1, n)
  BY DEF parents
<1>3. Len(p) \in Nat
  BY PathFacts
<1>4. d \in Seq(S) /\ Len(d) = n /\ \A j \in 1 .. n : d[j] = p[j]
  BY <1>1, <1>2, <1>3
<1>5. IsPath(d)
  <2>1. n \in Nat \ {0}
    BY <1>2, <1>3
  <2>2. d = [j \in 1 .. n |-> d[j]]
    BY <1>4
  <2> QED BY <2>1, <2>2, FunctionsArePaths
<1>6. ASSUME NEW e \in parents(d) PROVE e \in parents(p)
  <2>1. PICK m \in 1 .. n - 1 : e = SubSeq(d, 1, m)
    BY <1>4, <1>6 DEF parents
  <2>2. e \in Seq(S) /\ Len(e) = m /\ \A j \in 1 .. m : e[j] = p[j]
    BY <1>2, <1>3, <1>4, <2>1
  <2>3. SubSeq(p, 1, m) \in Seq(S) /\ Len(SubSeq(p, 1, m)) = m /\ \A j \in 1 .. m : SubSeq(p, 1, m)[j] = p[j]
    BY <1>1, <1>2, <1>3, <2>1
  <2>4. e = SubSeq(p, 1, m)
    BY <2>2, <2>3, SeqEqual
  <2>5. m \in 1 .. Len(p) - 1
    BY <1>2, <1>3, <2>1
  <2> QED BY <2>4, <2>5 DEF parents
<1> QED BY <1>2, <1>3, <1>4, <1>5, <1>6

\* No path is above itself, nor are two above each other.
LEMMA ParentsAbove ==
  ASSUME NEW p, IsPath(p)
  PROVE  p \notin parents(p) /\ \A d \in parents(p) : p \notin parents(d)
<1>1. ASSUME p \in parents(p) PROVE FALSE
  BY <1>1, ParentFacts, PathFacts
<1> QED BY <1>1, ParentFacts

\* An object that is not written below an object leaves the file a tree.
LEMMA WriteKeepsTree ==
  ASSUME NEW f, IsTree(f), NEW path, IsPath(path), NEW object,
         \A d \in parents(path) \cap DOMAIN f : f[d] = Directory
  PROVE  IsTree(write_object(f, path, object))
<1> DEFINE g == write_object(f, path, object)
           above == parents(path)
<1>1. /\ DOMAIN g = ((DOMAIN f \cup above) \ Below(f, path)) \cup {path}
      /\ \A p \in DOMAIN g : g[p] = IF p = path THEN object ELSE IF p \in DOMAIN f THEN f[p] ELSE Directory
  BY DEF write_object
<1> HIDE DEF g
<1>2. \A d \in above : d \in DOMAIN g /\ g[d] = Directory
  <2>1. \A d \in above : d # path /\ d \notin Below(f, path)
    BY ParentsAbove DEF Below
  <2> QED BY <1>1, <2>1
<1>3. ASSUME NEW p \in DOMAIN g
      PROVE  IsPath(p) /\ \A d \in parents(p) : d \in DOMAIN g /\ g[d] = Directory
  <2>1. CASE p = path
    BY <1>2, <2>1
  <2>2. CASE p \in above
    BY <1>2, <2>2, ParentFacts
  <2>3. CASE p # path /\ p \notin above
    <3>1. p \in DOMAIN f /\ path \notin parents(p)
      BY <1>1, <2>3 DEF Below
    <3>2. IsPath(p) /\ \A d \in parents(p) : d \in DOMAIN f /\ f[d] = Directory
      BY <3>1 DEF IsTree
    <3>3. \A d \in parents(p) : d # path /\ path \notin parents(d)
      BY <3>1, <3>2, ParentFacts
    <3>4. \A d \in parents(p) : d \in DOMAIN g
      BY <1>1, <3>2, <3>3 DEF Below
    <3> QED BY <1>1, <3>2, <3>3, <3>4
  <2> QED BY <2>1, <2>2, <2>3
<1> QED BY <1>3 DEF IsTree, g

-----------------------------------------------------------------------------
(* The paths of the objects.                                               *)

LEMMA SingleIsPath == ASSUME NEW x PROVE IsPath(<<x>>)
<1> DEFINE p == <<x>>
           n == 1
<1>1. p = [j \in 1 .. n |-> p[j]] /\ n \in Nat \ {0}
  OBVIOUS
<1> HIDE DEF p, n
<1>2. IsPath(p)
  BY <1>1, FunctionsArePaths
<1> QED BY <1>2 DEF p

LEMMA OtherLastIsPath ==
  ASSUME NEW p, IsPath(p), NEW x
  PROVE  IsPath([p EXCEPT ![Len(p)] = x])
<1> DEFINE q == [p EXCEPT ![Len(p)] = x]
           n == Len(p)
<1>1. n \in Nat \ {0} /\ DOMAIN p = 1 .. n
  BY PathFacts
<1>2. q = [j \in 1 .. n |-> q[j]]
  BY <1>1
<1> QED BY <1>1, <1>2, FunctionsArePaths

LEMMA LabelIsPath ==
  ASSUME NEW p \in Exported, NEW k \in DOMAIN p.nicks
  PROVE  IsPath(path_of(p, k))
<1>1. CASE p.nicks_instead_labels
  BY <1>1, SingleIsPath DEF path_of
<1>2. CASE ~p.nicks_instead_labels
  <2> DEFINE j == ((k - 1) % Len(p.labels)) + 1
             l == p.labels[j]
  <2>1. Len(p.labels) \in Nat \ {0} /\ k \in Nat \ {0} /\ DOMAIN p.labels = 1 .. Len(p.labels)
    BY ExportedType
  <2>2. j \in DOMAIN p.labels
    <3>1. k - 1 \in Nat
      BY <2>1
    <3>2. (k - 1) % Len(p.labels) \in 0 .. Len(p.labels) - 1
      BY <2>1, <3>1
    <3> QED BY <2>1, <3>2
  <2> HIDE DEF j
  <2>3. l = Unlabelled \/ IsPath(l)
    BY <2>2, ExportedType DEF Range
  <2>4. label(p, k) = IF l = Unlabelled THEN <<p.nicks[k]>> ELSE l
    BY DEF label, j
  <2> QED BY <1>2, <2>3, <2>4, SingleIsPath DEF path_of
<1> QED BY <1>1, <1>2

LEMMA ItemIsPath ==
  ASSUME NEW p \in Exported, NEW k \in DOMAIN p.nicks, NEW m
  PROVE  IsPath(path_at(p, k, m))
<1>1. IsPath(path_of(p, k))
  BY LabelIsPath
<1>2. \A suffix : IsPath(with_last(path_of(p, k), suffix))
  BY <1>1, OtherLastIsPath DEF with_last
<1> QED BY <1>1, <1>2 DEF path_at

\* The items come nick by nick.
LEMMA ItemFacts ==
  ASSUME NEW p \in Exported
  PROVE  /\ DOMAIN p.nicks = 1 .. Len(p.nicks) /\ Len(p.nicks) \in Nat
         /\ \A k \in DOMAIN p.nicks : LastItem(p, k) \in Nat
         /\ \A i : i \in Items(p) <=> \E k \in DOMAIN p.nicks : \E m \in 0 .. LastItem(p, k) : i = <<k, m>>
<1>1. DOMAIN p.nicks = 1 .. Len(p.nicks) /\ Len(p.nicks) \in Nat
  BY ExportedType
<1>2. ASSUME NEW k \in DOMAIN p.nicks PROVE LastItem(p, k) \in Nat
  <2>1. Len(metadata(p, k).objects) \in Nat
    BY ExportedType DEF metadata, Range
  <2>2. CASE metadata(p, k).json
    BY <2>1, <2>2 DEF LastItem
  <2>3. CASE ~metadata(p, k).json
    BY <2>1, <2>3 DEF LastItem
  <2> QED BY <2>2, <2>3
<1>3. \A i : i \in Items(p) <=> \E k \in DOMAIN p.nicks : \E m \in 0 .. LastItem(p, k) : i = <<k, m>>
  BY DEF Items
<1> QED BY <1>1, <1>2, <1>3

-----------------------------------------------------------------------------
(* Why an export is complete: what is written stays, because nothing with  *)
(* paths of its own is written to its place or above it; and only an       *)
(* object that was written can be in the place of an open directory.       *)
Written(i) == i[1] < nick \/ (i[1] = nick /\ i[2] < item)
Started == exporting \in {"writing", "AttributeError", "saved"}

ExportTypeOK ==
  /\ plot \in Exported /\ IsTree(file)
  /\ nick \in 1 .. Len(plot.nicks) + 1 /\ item \in Nat
  /\ nick \in DOMAIN plot.nicks => item <= LastItem(plot, nick)
  /\ exporting \in {"start", "writing", "AttributeError", "saved"}
OpenInWay == \A d \in open \cap DOMAIN file : file[d] # Directory => \E i \in Items(plot) : At(plot, i) = d
OldKept ==
  plot.file_mode = "UPDATE" => \A path \in DOMAIN plot.before :
    Spared(plot, path) => path \in DOMAIN file /\ file[path] = plot.before[path]
NothingNew ==
  \A path \in DOMAIN file \ Named(plot) :
    plot.file_mode = "UPDATE" /\ path \in DOMAIN plot.before /\ file[path] = plot.before[path]
InFile(i) == At(plot, i) \in DOMAIN file /\ file[At(plot, i)] = object_at(plot, i[1], i[2])
WrittenInFile ==
  exporting \in {"writing", "saved"} /\ OwnPaths(plot) => \A i \in Items(plot) : Written(i) => InFile(i)

ExportInv ==
  /\ ExportTypeOK /\ OpenInWay
  /\ exporting = "start" => file = plot.before /\ open = {} /\ nick = 1 /\ item = 0
  /\ Started => OldKept /\ NothingNew
  /\ WrittenInFile
  /\ exporting = "saved" => nick \notin DOMAIN plot.nicks

LEMMA ExportInvComplete == ASSUME ExportInv PROVE ExportComplete
<1>1. Started => IsTree(file) /\ OldKept /\ NothingNew
  BY DEF ExportInv, ExportTypeOK
<1>2. ASSUME exporting = "saved", OwnPaths(plot), NEW i \in Items(plot) PROVE InFile(i)
  <2>1. nick \in 1 .. Len(plot.nicks) + 1 /\ nick \notin DOMAIN plot.nicks /\ plot \in Exported
    BY <1>2 DEF ExportInv, ExportTypeOK
  <2>2. i[1] \in DOMAIN plot.nicks
    BY <2>1, ItemFacts
  <2>3. i[1] < nick
    BY <2>1, <2>2, ItemFacts
  <2> QED BY <1>2, <2>3 DEF ExportInv, WrittenInFile, Written
<1> QED BY <1>1, <1>2 DEF ExportComplete, Started, OldKept, NothingNew, InFile

LEMMA InitKeepsExport == ExportInit => ExportInv
<1> SUFFICES ASSUME ExportInit PROVE ExportInv
  OBVIOUS
<1>1. /\ plot \in Exported /\ file = plot.before /\ open = {}
      /\ nick = 1 /\ item = 0 /\ exporting = "start"
  BY DEF ExportInit
<1>2. ExportTypeOK
  <2>1. IsTree(file)
    BY <1>1, ExportedType
  <2>2. nick \in 1 .. Len(plot.nicks) + 1
    BY <1>1, ItemFacts
  <2>3. nick \in DOMAIN plot.nicks => item <= LastItem(plot, nick)
    <3>1. nick \in DOMAIN plot.nicks => LastItem(plot, nick) \in Nat
      BY <1>1, ItemFacts
    <3> QED BY <1>1, <3>1
  <2> QED BY <1>1, <2>1, <2>2, <2>3 DEF ExportTypeOK
<1> QED BY <1>1, <1>2 DEF ExportInv, OpenInWay, Started, WrittenInFile

LEMMA CreateCanvasKeeps == ASSUME ExportInv, CreateCanvas PROVE ExportInv'
<1>1. /\ exporting = "start" /\ exporting' = "writing" /\ plot' = plot /\ open' = open /\ nick' = nick /\ item' = item
      /\ file' = IF plot.file_mode = "RECREATE" THEN <<>> ELSE file
  BY DEF CreateCanvas
<1>2. ExportTypeOK /\ file = plot.before /\ open = {} /\ nick = 1 /\ item = 0
  BY <1>1 DEF ExportInv
<1>3. plot.file_mode \in {"RECREATE", "UPDATE"}
  BY <1>2, ExportedType DEF ExportTypeOK
<1>4. DOMAIN <<>> = {} /\ IsTree(<<>>)
  BY DEF IsTree
<1>5. ExportTypeOK'
  BY <1>1, <1>2, <1>4 DEF ExportTypeOK
<1>6. OldKept' /\ NothingNew'
  <2>1. CASE plot.file_mode = "RECREATE"
    BY <1>1, <1>4, <2>1 DEF OldKept, NothingNew
  <2>2. CASE plot.file_mode = "UPDATE"
    BY <1>1, <1>2, <2>2 DEF OldKept, NothingNew
  <2> QED BY <1>3, <2>1, <2>2
<1>7. WrittenInFile'
  <2>1. \A i \in Items(plot) : ~Written(i)
    <3>1. SUFFICES ASSUME NEW i \in Items(plot) PROVE ~(i[1] < 1) /\ ~(i[2] < 0)
      BY <1>2 DEF Written
    <3>2. i[1] \in DOMAIN plot.nicks /\ i[2] \in Nat
      BY <1>2, ItemFacts DEF ExportTypeOK
    <3> QED BY <1>2, <3>2, ItemFacts DEF ExportTypeOK
  <2> QED BY <1>1, <2>1 DEF WrittenInFile, Written
<1> QED BY <1>1, <1>2, <1>5, <1>6, <1>7 DEF ExportInv, OpenInWay

LEMMA SaveKeeps == ASSUME ExportInv, Save PROVE ExportInv'
BY DEF Save, ExportInv, ExportTypeOK, OpenInWay, Started, OldKept, NothingNew, WrittenInFile, Written, InFile

\* The iterators: what is written next is an item, and the next one that is written.
LEMMA NextItem ==
  ASSUME ExportTypeOK, Write
  PROVE  /\ <<nick, item>> \in Items(plot) /\ plot' = plot
         /\ nick' \in 1 .. Len(plot.nicks) + 1 /\ item' \in Nat
         /\ nick' \in DOMAIN plot.nicks => item' <= LastItem(plot, nick')
         /\ \A i \in Items(plot) : Written(i)' => Written(i) \/ i = <<nick, item>>
<1>1. /\ nick \in DOMAIN plot.nicks /\ plot' = plot
      /\ IF item = LastItem(plot, nick) THEN nick' = nick + 1 /\ item' = 0 ELSE item' = item + 1 /\ nick' = nick
  BY DEF Write
<1>2. /\ DOMAIN plot.nicks = 1 .. Len(plot.nicks) /\ Len(plot.nicks) \in Nat
      /\ \A k \in DOMAIN plot.nicks : LastItem(plot, k) \in Nat
      /\ \A i : i \in Items(plot) <=> \E k \in DOMAIN plot.nicks : \E m \in 0 .. LastItem(plot, k) : i = <<k, m>>
  BY ItemFacts DEF ExportTypeOK
<1>3. nick \in Nat /\ item \in Nat /\ LastItem(plot, nick) \in Nat /\ item <= LastItem(plot, nick)
  BY <1>1, <1>2 DEF ExportTypeOK
<1>4. item \in 0 .. LastItem(plot, nick)
  BY <1>3
<1>5. <<nick, item>> \in Items(plot)
  BY <1>1, <1>2, <1>4
<1>6. nick' \in 1 .. Len(plot.nicks) + 1 /\ item' \in Nat
  BY <1>1, <1>2, <1>3
<1>7. nick' \in DOMAIN plot.nicks => item' <= LastItem(plot, nick')
  <2>1. CASE item = LastItem(plot, nick)
    BY <1>1, <1>2, <2>1
  <2>2. CASE item # LastItem(plot, nick)
    <3>1. nick' = nick /\ item' = item + 1
      BY <1>1, <2>2
    <3>2. item + 1 <= LastItem(plot, nick)
      BY <1>3, <2>2
    <3> QED BY <3>1, <3>2
  <2> QED BY <2>1, <2>2
<1>8. ASSUME NEW i \in Items(plot), Written(i)' PROVE Written(i) \/ i = <<nick, item>>
  <2>1. PICK k \in DOMAIN plot.nicks : \E m \in 0 .. LastItem(plot, k) : i = <<k, m>>
    BY <1>2
  <2>2. PICK m \in 0 .. LastItem(plot, k) : i = <<k, m>>
    BY <2>1
  <2>3. k \in Nat /\ m \in Nat /\ m <= LastItem(plot, k) /\ i[1] = k /\ i[2] = m
    BY <1>2, <2>2
  <2>4. k < nick' \/ (k = nick' /\ m < item')
    BY <1>8, <2>3 DEF Written
  <2>5. k < nick \/ (k = nick /\ m < item) \/ (k = nick /\ m = item)
    <3>1. CASE item = LastItem(plot, nick)
      <4>1. k < nick + 1
        BY <1>1, <2>3, <2>4, <3>1
      <4>2. k < nick \/ k = nick
        BY <1>3, <2>3, <4>1
      <4>3. k = nick => m <= item
        BY <2>3, <3>1
      <4> QED BY <1>3, <2>3, <4>2, <4>3
    <3>2. CASE item # LastItem(plot, nick)
      <4>1. k < nick \/ (k = nick /\ m < item + 1)
        BY <1>1, <2>4, <3>2
      <4> QED BY <1>3, <2>3, <4>1
    <3> QED BY <3>1, <3>2
  <2> QED BY <2>2, <2>3, <2>5 DEF Written
<1> QED BY <1>1, <1>5, <1>6, <1>7, <1>8

LEMMA WriteKeeps == ASSUME ExportInv, Write PROVE ExportInv'
<1> DEFINE now == <<nick, item>>
           path == path_at(plot, nick, item)
           object == object_at(plot, nick, item)
<1>0. ExportTypeOK /\ OpenInWay /\ OldKept /\ NothingNew /\ WrittenInFile /\ exporting = "writing" /\ nick \in DOMAIN plot.nicks
  BY DEF ExportInv, Write, Started
<1>1. /\ now \in Items(plot) /\ plot' = plot
      /\ nick' \in 1 .. Len(plot.nicks) + 1 /\ item' \in Nat
      /\ nick' \in DOMAIN plot.nicks => item' <= LastItem(plot, nick')
      /\ \A i \in Items(plot) : Written(i)' => Written(i) \/ i = now
  BY <1>0, NextItem
<1>2. At(plot, now) = path /\ object_at(plot, now[1], now[2]) = object
  BY DEF At
<1>3. /\ plot \in Exported /\ IsTree(file) /\ IsPath(path)
      /\ \A i \in Items(plot) : IsPath(At(plot, i))
  <2>1. ASSUME NEW i \in Items(plot) PROVE IsPath(At(plot, i))
    <3>1. i[1] \in DOMAIN plot.nicks
      BY <1>0, ItemFacts DEF ExportTypeOK
    <3> QED BY <1>0, <3>1, ItemIsPath DEF ExportTypeOK, At
  <2> QED BY <1>0, <1>1, <1>2, <2>1 DEF ExportTypeOK
<1>4. \/ /\ InTheWay(path) = {} /\ file' = write_object(file, path, object)
         /\ open' = open \cup parents(path) /\ exporting' = "writing"
      \/ /\ InTheWay(path) # {} /\ file' = file /\ open' = open
         /\ exporting' = "AttributeError" \/ (exporting' = "writing" /\ InTheWay(path) \subseteq open)
  BY <1>0 DEF Write
<1> HIDE DEF now, path, object
<1>5. CASE InTheWay(path) # {}
  <2>1. file' = file /\ open' = open /\ exporting' \in {"writing", "AttributeError"}
    BY <1>4, <1>5
  <2>2. exporting' = "writing" => ~OwnPaths(plot)
    <3>1. SUFFICES ASSUME InTheWay(path) \subseteq open PROVE ~OwnPaths(plot)
      BY <1>4, <1>5
    <3>2. PICK d \in parents(path) : d \in open /\ d \in DOMAIN file /\ file[d] # Directory
      BY <1>5, <3>1 DEF InTheWay
    <3>3. PICK i \in Items(plot) : At(plot, i) = d
      BY <1>0, <3>2 DEF OpenInWay
    <3>4. i # now
      BY <1>2, <1>3, <3>2, <3>3, ParentsAbove
    <3> QED BY <1>1, <1>2, <3>2, <3>3, <3>4 DEF OwnPaths
  <2>3. ExportTypeOK'
    BY <1>0, <1>1, <2>1 DEF ExportTypeOK
  <2>4. OpenInWay' /\ OldKept' /\ NothingNew'
    BY <1>0, <1>1, <2>1 DEF OpenInWay, OldKept, NothingNew
  <2>5. WrittenInFile'
    BY <1>1, <2>1, <2>2 DEF WrittenInFile
  <2> QED BY <2>1, <2>3, <2>4, <2>5 DEF ExportInv, Started
<1>6. CASE InTheWay(path) = {}
  <2>1. /\ file' = write_object(file, path, object)
        /\ open' = open \cup parents(path) /\ exporting' = "writing"
    BY <1>4, <1>6
  <2>2. /\ DOMAIN file' = ((DOMAIN file \cup parents(path)) \ Below(file, path)) \cup {path}
        /\ \A p \in DOMAIN file' : file'[p] = IF p = path THEN object ELSE IF p \in DOMAIN file THEN file[p] ELSE Directory
    BY <2>1 DEF write_object
  <2>3. \A d \in parents(path) \cap DOMAIN file : file[d] = Directory
    BY <1>6 DEF InTheWay
  <2>4. ExportTypeOK'
    <3>1. IsTree(file')
      BY <1>3, <2>1, <2>3, WriteKeepsTree
    <3> QED BY <1>0, <1>1, <2>1, <3>1 DEF ExportTypeOK
  <2>5. OpenInWay'
    <3>1. SUFFICES ASSUME NEW d \in open \cup parents(path), d \in DOMAIN file', file'[d] # Directory
                   PROVE  \E i \in Items(plot) : At(plot, i) = d
      BY <1>1, <2>1 DEF OpenInWay
    <3>2. CASE d = path
      BY <1>1, <1>2, <3>2
    <3>3. CASE d # path
      <4>1. d \in DOMAIN file /\ file[d] # Directory
        BY <2>2, <3>1, <3>3
      <4>2. d \in open
        BY <2>3, <3>1, <4>1
      <4> QED BY <1>0, <4>1, <4>2 DEF OpenInWay
    <3> QED BY <3>2, <3>3
  <2>6. OldKept'
    <3>1. SUFFICES ASSUME plot.file_mode = "UPDATE", NEW p \in DOMAIN plot.before, Spared(plot, p)
                   PROVE  p \in DOMAIN file' /\ file'[p] = plot.before[p]
      BY <1>1 DEF OldKept
    <3>2. p \in DOMAIN file /\ file[p] = plot.before[p]
      BY <1>0, <3>1 DEF OldKept
    <3>3. p # path /\ path \notin parents(p)
      BY <1>1, <1>2, <3>1 DEF Spared
    <3> QED BY <2>2, <3>2, <3>3 DEF Below
  <2>7. NothingNew'
    <3>1. SUFFICES ASSUME NEW p \in DOMAIN file', p \notin Named(plot)
                   PROVE  plot.file_mode = "UPDATE" /\ p \in DOMAIN plot.before /\ file'[p] = plot.before[p]
      BY <1>1 DEF NothingNew
    <3>2. p # path /\ p \notin parents(path)
      BY <1>1, <1>2, <3>1 DEF Named
    <3>3. p \in DOMAIN file /\ file'[p] = file[p]
      BY <2>2, <3>2
    <3> QED BY <1>0, <3>1, <3>3 DEF NothingNew
  <2>8. WrittenInFile'
    <3>1. SUFFICES ASSUME OwnPaths(plot), NEW i \in Items(plot), Written(i) \/ i = now
                   PROVE  At(plot, i) \in DOMAIN file' /\ file'[At(plot, i)] = object_at(plot, i[1], i[2])
      BY <1>1 DEF WrittenInFile, InFile, At
    <3>2. CASE i = now
      BY <1>2, <2>2, <3>2
    <3>3. CASE i # now
      <4>1. At(plot, i) \in DOMAIN file /\ file[At(plot, i)] = object_at(plot, i[1], i[2])
        BY <1>0, <3>1, <3>3 DEF WrittenInFile, InFile
      <4>2. At(plot, i) # path /\ path \notin parents(At(plot, i))
        BY <1>1, <1>2, <3>1, <3>3 DEF OwnPaths
      <4> QED BY <2>2, <4>1, <4>2 DEF Below
    <3> QED BY <3>1, <3>2, <3>3
  <2> QED BY <2>1, <2>4, <2>5, <2>6, <2>7, <2>8 DEF ExportInv, Started
<1> QED BY <1>5, <1>6

LEMMA NextKeepsExport == ExportInv /\ [ExportNext]_exportVars => ExportInv'
<1> SUFFICES ASSUME ExportInv, [ExportNext]_exportVars PROVE ExportInv'
  OBVIOUS
<1>1. CASE CreateCanvas
  BY <1>1, CreateCanvasKeeps
<1>2. CASE Write
  BY <1>2, WriteKeeps
<1>3. CASE Save
  BY <1>3, SaveKeeps
<1>4. CASE UNCHANGED exportVars
  BY <1>4 DEF exportVars, ExportInv, ExportTypeOK, OpenInWay, Started, OldKept, NothingNew, WrittenInFile, Written, InFile
<1> QED BY <1>1, <1>2, <1>3, <1>4 DEF ExportNext

\* An exported file has every object and its metadata at its path, inside directories,
\* and changes nothing else, for any plots whose objects have paths of their own
\* (exportroot.py:75-128, roottools.py:768-777).
THEOREM ExportsAreComplete == ExportSpec => []ExportComplete
<1>1. ExportInit => ExportInv
  BY InitKeepsExport
<1>2. ExportInv /\ [ExportNext]_exportVars => ExportInv'
  BY NextKeepsExport
<1>3. ExportInv => ExportComplete
  BY ExportInvComplete
<1> QED BY <1>1, <1>2, <1>3, PTL DEF ExportSpec

-----------------------------------------------------------------------------
(* Why a plot with ROOT does not depend on those before it: the style is   *)
(* made anew before anything is drawn, and at every step the plot in work  *)
(* is what its own options and objects make of it.  That needs no          *)
(* knowledge of what the steps compute, only of what they read.            *)
RootOptions(a) == Root!prepare_args(a.options)
RootStyle(a) ==
  [Root!DefaultStyle EXCEPT
     !.fit_box = ~RootOptions(a).no_fit_results_box,
     !.text_format = IF RootOptions(a).set_paint_text_format # NotGiven THEN RootOptions(a).set_paint_text_format ELSE @]
RootObjects(a) == Root!base_prepare_histograms(RootOptions(a), a.objects)
RootLims(a) == Root!determine_plot_lims(RootOptions(a), RootObjects(a))
Painted(a) == [RootStyle(a) EXCEPT !.palette = Root!palette_after(RootOptions(a), @)]
RootTitle(a) == Root!base_dataset_title(RootOptions(a))
SubLegend(a) == RootOptions(a).legend # NotGiven /\ RootOptions(a).subplot_legend # NotGiven

\* The figure after each step; the texts of CMS_lumi are set aside.
RootCanvas(a) == [Root!EmptyFigure EXCEPT !.sub = Len(RootOptions(a).subplot_nicks) > 0, !.wide = TRUE]
RootDrawn(a) ==
  [RootCanvas(a) EXCEPT !.frame = RootLims(a), !.drawn = Root!drawn_objects(RootOptions(a), RootObjects(a))]
RootAxes(a) ==
  [RootDrawn(a) EXCEPT !.log = Root!log_axes(RootOptions(a), RootDrawn(a).sub),
                       !.wide = Root!wide_margin(RootDrawn(a).drawn, RootLims(a))]
RootGrid(a) ==
  [RootAxes(a) EXCEPT !.grid = (IF RootOptions(a).grid \/ RootOptions(a).x_grid THEN {"x"} ELSE {})
                               \cup (IF RootOptions(a).grid \/ RootOptions(a).y_grid THEN {"y"} ELSE {})
                               \cup (IF RootAxes(a).sub /\ RootOptions(a).subplot_grid THEN {"sub"} ELSE {})]
RootLegends(a) ==
  [RootGrid(a) EXCEPT
     !.legend = IF RootOptions(a).legend = NotGiven THEN NotGiven ELSE Root!main_entries(RootOptions(a), RootObjects(a)),
     !.sub_legend = IF SubLegend(a) THEN Root!sub_entries(RootOptions(a), RootObjects(a)) ELSE NotGiven]
RootFigure(a) ==
  [RootLegends(a) EXCEPT
     !.texts = RootOptions(a).texts \o (IF RootOptions(a).title = NotGiven THEN <<>> ELSE <<RootOptions(a).title>>),
     !.cms = <<>>]

\* The steps that do not raise an exception, each with those before it.
RootPrepared(a) == ~Root!HasFailed(RootOptions(a))
RootStacked(a) ==
  /\ RootPrepared(a) /\ ~Root!HasFailed(RootObjects(a))
  /\ \/ RootOptions(a).z_tick_labels = NotGiven
     \/ \A i \in Root!Shown(RootOptions(a)) : Root!IsBinned(a.objects[RootOptions(a).nicks[i]])
RootLimited(a) == RootStacked(a) /\ ~Root!HasFailed(RootLims(a))
RootPlotted(a) == RootLimited(a) /\ ~(RootCanvas(a).sub /\ RootLims(a).sub_dim # 2)
RootScaled(a) == RootPlotted(a) /\ ~Root!log_fails(RootOptions(a), RootLims(a), RootDrawn(a).sub)
RootNamed(a) == RootScaled(a) /\ ~(SubLegend(a) /\ ~RootGrid(a).sub)
RootTitled(a) == RootNamed(a) /\ ~Root!title_fails(RootOptions(a), RootTitle(a))

Raised(step) == [raised |-> step]
RootOutcome(a) ==
  IF ~RootPrepared(a) THEN Raised("prepare_args")
  ELSE IF ~RootStacked(a) THEN Raised("prepare_histograms")
  ELSE IF ~RootLimited(a) THEN Raised("determine_plot_lims")
  ELSE IF ~RootPlotted(a) THEN Raised("make_plots")
  ELSE IF ~RootScaled(a) THEN Raised("modify_axes")
  ELSE IF ~RootNamed(a) THEN Raised("add_labels")
  ELSE IF ~RootTitled(a) THEN Raised("add_texts")
  ELSE [figure |-> RootFigure(a), style |-> Painted(a)]
WithoutCms(r) ==
  IF "figure" \in DOMAIN r THEN [figure |-> [r.figure EXCEPT !.cms = <<>>], style |-> r.style] ELSE r

\* Options, objects, ranges, figure and style before each step of the plot a.
RootBefore(step, a, p, o, l, f, s) ==
  /\ step = "prepare_args" => f = Root!EmptyFigure
  /\ step # "prepare_args" => p = RootOptions(a)
  /\ step = "set_style" => RootPrepared(a) /\ o = a.objects /\ f = Root!EmptyFigure
  /\ step = "create_canvas" => RootPrepared(a) /\ o = a.objects /\ f = Root!EmptyFigure /\ s = RootStyle(a)
  /\ step = "prepare_histograms" => RootPrepared(a) /\ o = a.objects /\ f = RootCanvas(a) /\ s = RootStyle(a)
  /\ step = "determine_plot_lims" => RootStacked(a) /\ o = RootObjects(a) /\ f = RootCanvas(a) /\ s = RootStyle(a)
  /\ step = "make_plots" => RootLimited(a) /\ o = RootObjects(a) /\ l = RootLims(a) /\ f = RootCanvas(a) /\ s = RootStyle(a)
  /\ step = "modify_axes" => RootPlotted(a) /\ o = RootObjects(a) /\ l = RootLims(a) /\ f = RootDrawn(a) /\ s = Painted(a)
  /\ step = "add_grid" => RootScaled(a) /\ o = RootObjects(a) /\ f = RootAxes(a) /\ s = Painted(a)
  /\ step = "add_labels" => RootScaled(a) /\ o = RootObjects(a) /\ f = RootGrid(a) /\ s = Painted(a)
  /\ step = "add_texts" => RootNamed(a) /\ f = RootLegends(a) /\ s = Painted(a)
  /\ step = "plot_end" => RootTitled(a) /\ [f EXCEPT !.cms = <<>>] = RootFigure(a) /\ s = Painted(a)

RootWork == RootBefore(stage, asked[Root!Now], options, objects, lims, fig, style)
RootMade == made \in Seq(Range(made)) /\ \A i \in DOMAIN made : WithoutCms(made[i]) = RootOutcome(asked[i])
RootInv == RootWork /\ RootMade
-----------------------------------------------------------------------------
(* The same with Matplotlib, where the size of the figure is global; of    *)
(* the figure the frame of the legend is set aside.  The add-ons draw one  *)
(* after the other, each from the options and the artists alone.           *)
MplOptions(a) == Mpl!prepare_args(a.options, a.objects)
MplObjects(a) == Mpl!base_prepare_histograms(MplOptions(a), a.objects)
MplLims(a) == Mpl!base_determine_plot_lims(MplOptions(a), MplObjects(a))
MplDimension(a) == Mpl!dimension(MplOptions(a), MplObjects(a))

MplCanvas(a) ==
  LET bar == IF \E n \in DOMAIN a.objects : a.objects[n].kind = "TH2" THEN <<"bar">> ELSE <<>>
  IN  [Mpl!EmptyFigure EXCEPT !.axes = IF MplOptions(a).subplot_nicks # <<>> THEN <<"main", "sub">> \o bar
                                       ELSE IF MplOptions(a).three_d THEN <<"3d">> ELSE <<"main">>]
MplDrawn(a) == [MplCanvas(a) EXCEPT !.artists = Mpl!get_artists(MplOptions(a), MplObjects(a))]
MplAxes(a) ==
  [MplDrawn(a) EXCEPT
     !.x = IF MplDimension(a) = 3 THEN Mpl!Nothing ELSE Mpl!x_limits(MplOptions(a), MplObjects(a)),
     !.y = IF MplDimension(a) = 3 THEN Mpl!Nothing ELSE Mpl!y_limits(MplOptions(a), MplObjects(a), MplLims(a).y),
     !.y_sub = IF MplOptions(a).subplot_nicks # <<>> /\ MplOptions(a).y_subplot_lims # NotGiven
               THEN MplOptions(a).y_subplot_lims ELSE @,
     !.lines = [i \in DOMAIN MplOptions(a).lines |-> <<MplOptions(a).lines[i], Mpl!line_styles(MplOptions(a))[i]>>],
     !.colorbar = IF MplDimension(a) # 2 THEN NotGiven ELSE IF MplOptions(a).subplot_nicks # <<>> THEN 3 ELSE 1]
MplLegends(a) ==
  [MplAxes(a) EXCEPT
     !.legend = Mpl!legend_of(Mpl!on_axis(MplAxes(a).artists, 1), MplOptions(a), MplOptions(a).legend),
     !.sub_legend = IF Len(MplAxes(a).axes) > 1
                    THEN Mpl!legend_of(Mpl!on_axis(MplAxes(a).artists, 2), MplOptions(a), MplOptions(a).subplot_legend) ELSE <<>>,
     !.frame = FALSE]
MplFigure(a) ==
  [MplLegends(a) EXCEPT !.texts = MplOptions(a).texts \o IF MplDimension(a) = 3 THEN <<>> ELSE Mpl!base_dataset_title(MplOptions(a))]
Added(a, name) ==
  CASE name = "mean" -> [means |-> Mpl!means(MplOptions(a), MplObjects(a))]
    [] name = "rectangle" -> [rectangles |-> Mpl!rectangles(MplOptions(a))]
    [] name = "table" -> [table |-> Mpl!table(MplOptions(a), MplFigure(a).artists)]

MplPrepared(a) ==
  /\ ~("rectangle" \in Mpl!ToSet(a.options.add_ons) /\ Mpl!rectangles_fail(a.options))
  /\ ~Mpl!HasFailed(MplOptions(a))
MplSized(a) == MplPrepared(a) /\ Len(MplOptions(a).figsize) = 2 /\ MplOptions(a).aspect_ratio = 1
MplStacked(a) == MplSized(a) /\ ~Mpl!HasFailed(MplObjects(a))
MplPlotted(a) == MplStacked(a) /\ ~Mpl!plots_fail(MplOptions(a), MplObjects(a))
MplScaled(a) == MplPlotted(a) /\ ~Mpl!axes_fail(MplOptions(a), MplObjects(a))
TableBroken(a, name) == name = "table" /\ Mpl!TableFails(MplOptions(a), MplFigure(a).artists)
MplComplete(a) ==
  MplScaled(a) /\ \A k \in Nat : k < Len(MplOptions(a).add_ons) => ~TableBroken(a, MplOptions(a).add_ons[k + 1])

MplOutcome(a) ==
  IF ~MplPrepared(a) THEN Raised("prepare_args")
  ELSE IF ~MplSized(a) THEN Raised("set_style")
  ELSE IF ~MplStacked(a) THEN Raised("prepare_histograms")
  ELSE IF ~MplPlotted(a) THEN Raised("make_plots")
  ELSE IF ~MplScaled(a) THEN Raised("modify_axes")
  ELSE IF ~MplComplete(a) THEN Raised("table")
  ELSE [figure |-> [MplFigure(a) EXCEPT !.added = [k \in 1 .. Len(MplOptions(a).add_ons) |-> Added(a, MplOptions(a).add_ons[k])]],
        size |-> MplOptions(a).figsize,
        saved |-> IF MplOptions(a).save_legend
                  THEN Mpl!get_legend_handles_labels_ordered(Mpl!on_axis(MplFigure(a).artists, 1), MplOptions(a).labels) ELSE <<>>]
Frameless(f) == [f EXCEPT !.frame = FALSE]
WithoutFrame(r) ==
  IF "figure" \in DOMAIN r THEN [figure |-> Frameless(r.figure), size |-> r.size, saved |-> r.saved] ELSE r

\* The add-ons that have run, and what they have added.
AddedSoFar(a, list) ==
  /\ list \in Seq(Range(list))
  /\ \A k \in DOMAIN list : list[k] = Added(a, MplOptions(a).add_ons[k]) /\ ~TableBroken(a, MplOptions(a).add_ons[k])

MplBefore(step, a, p, o, l, f, size) ==
  /\ step = "prepare_args" => f = Mpl!EmptyFigure
  /\ step # "prepare_args" => p = MplOptions(a)
  /\ step \notin {"prepare_args", "set_style"} => size = MplOptions(a).figsize
  /\ step = "set_style" => MplPrepared(a) /\ o = a.objects /\ f = Mpl!EmptyFigure
  /\ step = "create_canvas" => MplSized(a) /\ o = a.objects /\ f = Mpl!EmptyFigure
  /\ step = "prepare_histograms" => MplSized(a) /\ o = a.objects /\ f = MplCanvas(a)
  /\ step = "make_plots" => MplStacked(a) /\ o = MplObjects(a) /\ l = MplLims(a) /\ f = MplCanvas(a)
  /\ step = "modify_axes" => MplPlotted(a) /\ o = MplObjects(a) /\ l = MplLims(a) /\ f = MplDrawn(a)
  /\ step = "add_labels" => MplScaled(a) /\ o = MplObjects(a) /\ f = MplAxes(a)
  /\ step = "add_texts" => MplScaled(a) /\ o = MplObjects(a) /\ Frameless(f) = MplLegends(a)
  /\ step = "add_ons" => /\ MplScaled(a) /\ o = MplObjects(a) /\ AddedSoFar(a, f.added)
                         /\ Frameless(f) = [MplFigure(a) EXCEPT !.added = f.added]

MplWork ==
  /\ MplBefore(stage, asked[Mpl!Now], options, objects, lims, fig, rc.figsize)
  /\ DOMAIN fig = DOMAIN Mpl!EmptyFigure /\ (stage # "add_ons" => fig.added = <<>>)
  /\ DOMAIN rc = {"figsize", "frameon"}
MplMade == made \in Seq(Range(made)) /\ \A i \in DOMAIN made : WithoutFrame(made[i]) = MplOutcome(asked[i])
MplInv == MplWork /\ MplMade
PlotterInv == OfRoot(RootInv) /\ OfMpl(MplInv)


\* A list with one more element.
LEMMA OneMore ==
  ASSUME NEW list, list \in Seq(Range(list)), NEW x
  PROVE  /\ Len(list) \in Nat /\ DOMAIN list = 1 .. Len(list)
         /\ Append(list, x) \in Seq(Range(Append(list, x)))
         /\ DOMAIN Append(list, x) = 1 .. Len(list) + 1 /\ Len(Append(list, x)) = Len(list) + 1
         /\ Append(list, x)[Len(list) + 1] = x
         /\ \A i \in 1 .. Len(list) : Append(list, x)[i] = list[i]
<1> DEFINE S == Range(list) \cup {x}
           more == Append(list, x)
<1>1. list \in Seq(S)
  BY SMT
<1>2. Len(list) \in Nat /\ DOMAIN list = 1 .. Len(list)
  BY SMT
<1>3. more \in Seq(S) /\ Len(more) = Len(list) + 1 /\ DOMAIN more = 1 .. Len(list) + 1
  BY <1>1, SMT
<1>4. more[Len(list) + 1] = x /\ \A i \in 1 .. Len(list) : more[i] = list[i]
  BY <1>1, <1>2, SMT
<1>5. more \in Seq(Range(more))
  <2>1. more \in [1 .. Len(list) + 1 -> S]
    BY <1>3, LenProperties
  <2>2. more \in [1 .. Len(list) + 1 -> Range(more)]
    BY <2>1 DEF Range
  <2>3. Len(list) + 1 \in Nat
    BY <1>2
  <2> QED BY <2>2, <2>3, SeqDef
<1> QED BY <1>2, <1>3, <1>4, <1>5

\* The same plots made before, and the one in work among them.
LEMMA RootContinues ==
  ASSUME RootMade, NEW next, Root!Then(next),
         RootBefore(next, asked[Root!Now], options', objects', lims', fig', style')
  PROVE  RootInv'
<1>1. asked' = asked /\ made' = made /\ stage' = next /\ Root!Now' = Root!Now
  BY DEF Root!Then, Root!Now
<1>2. RootMade'
  BY <1>1 DEF RootMade
<1>3. RootWork'
  BY <1>1 DEF RootWork
<1> QED BY <1>2, <1>3 DEF RootInv

LEMMA RootEnds ==
  ASSUME RootMade, NEW r, WithoutCms(r) = RootOutcome(asked[Root!Now]),
         made' = Append(made, r), asked' = asked, stage' = "prepare_args", fig' = Root!EmptyFigure
  PROVE  RootInv'
<1>1. /\ Len(made) \in Nat /\ DOMAIN made = 1 .. Len(made)
      /\ made' \in Seq(Range(made'))
      /\ DOMAIN made' = 1 .. Len(made) + 1
      /\ made'[Len(made) + 1] = r
      /\ \A i \in 1 .. Len(made) : made'[i] = made[i]
  BY OneMore DEF RootMade
<1>2. ASSUME NEW i \in DOMAIN made' PROVE WithoutCms(made'[i]) = RootOutcome(asked'[i])
  <2>1. CASE i = Len(made) + 1
    BY <1>1, <2>1 DEF Root!Now
  <2>2. CASE i \in 1 .. Len(made)
    BY <1>1, <2>2 DEF RootMade
  <2> QED BY <1>1, <2>1, <2>2, SMT
<1>3. RootMade'
  BY <1>1, <1>2 DEF RootMade
<1>4. RootWork'
  BY DEF RootWork, RootBefore
<1> QED BY <1>3, <1>4 DEF RootInv

LEMMA RootRaises ==
  ASSUME RootMade, NEW step, Root!Raise(step), RootOutcome(asked[Root!Now]) = Raised(step)
  PROVE  RootInv'
<1>1. "figure" \notin DOMAIN Raised(step)
  BY DEF Raised
<1>2. WithoutCms(Raised(step)) = Raised(step)
  BY <1>1 DEF WithoutCms
<1>3. /\ made' = Append(made, Raised(step)) /\ asked' = asked
      /\ stage' = "prepare_args" /\ fig' = Root!EmptyFigure
  BY DEF Root!Raise, Raised
<1> QED BY <1>2, <1>3, RootEnds

LEMMA CmsAside ==
  ASSUME NEW f, NEW t, NEW c
  PROVE  [[f EXCEPT !.texts = t, !.cms = c] EXCEPT !.cms = <<>>] = [f EXCEPT !.texts = t, !.cms = <<>>]
OBVIOUS

\* Every step leaves the plot in work as its own options and objects make it.
LEMMA RootStep == ASSUME RootInv, Root!Next PROVE RootInv'
<1> DEFINE a == asked[Root!Now]
<1>0. RootMade /\ RootBefore(stage, a, options, objects, lims, fig, style)
  BY DEF RootInv, RootWork
<1> HIDE DEF a
<1>1. CASE Root!PrepareArgs
  <2>1. PICK given \in {Root!prepare_args(a.options)} :
           \/ Root!HasFailed(given) /\ Root!Raise("prepare_args")
           \/ ~Root!HasFailed(given) /\ options' = given /\ objects' = a.objects /\ Root!Then("set_style") /\ fig' = fig
    BY <1>1 DEF Root!PrepareArgs, a
  <2>2. given = RootOptions(a) /\ fig = Root!EmptyFigure
    BY <1>0, <1>1 DEF RootOptions, RootBefore, Root!PrepareArgs, Root!At
  <2>3. CASE Root!HasFailed(given) /\ Root!Raise("prepare_args")
    BY <1>0, <2>2, <2>3, RootRaises DEF RootOutcome, RootPrepared, a
  <2>4. CASE ~Root!HasFailed(given) /\ options' = given /\ objects' = a.objects /\ Root!Then("set_style") /\ fig' = fig
    <3>1. RootBefore("set_style", a, options', objects', lims', fig', style')
      BY <2>2, <2>4 DEF RootBefore, RootPrepared
    <3> QED BY <1>0, <2>4, <3>1, RootContinues DEF a
  <2> QED BY <2>1, <2>3, <2>4
<1>2. CASE Root!SetStyle
  <2>1. options = RootOptions(a) /\ RootPrepared(a) /\ objects = a.objects /\ fig = Root!EmptyFigure
    BY <1>0, <1>2 DEF RootBefore, Root!SetStyle, Root!At
  <2>2. /\ style' = [Root!DefaultStyle EXCEPT !.fit_box = ~options.no_fit_results_box,
                       !.text_format = IF options.set_paint_text_format # NotGiven THEN options.set_paint_text_format ELSE @]
        /\ Root!Then("create_canvas") /\ options' = options /\ objects' = objects /\ lims' = lims /\ fig' = fig
    BY <1>2 DEF Root!SetStyle, Root!plot
  <2>3. style' = RootStyle(a)
    BY <2>1, <2>2, Zenon DEF RootStyle
  <2>4. RootBefore("create_canvas", a, options', objects', lims', fig', style')
    BY <2>1, <2>2, <2>3 DEF RootBefore
  <2> QED BY <1>0, <2>2, <2>4, RootContinues DEF a
<1>3. CASE Root!CreateCanvas
  <2>1. options = RootOptions(a) /\ RootPrepared(a) /\ objects = a.objects /\ fig = Root!EmptyFigure /\ style = RootStyle(a)
    BY <1>0, <1>3 DEF RootBefore, Root!CreateCanvas, Root!At
  <2>2. /\ fig' = [fig EXCEPT !.sub = Len(options.subplot_nicks) > 0, !.wide = TRUE]
        /\ Root!Then("prepare_histograms") /\ options' = options /\ objects' = objects /\ lims' = lims /\ style' = style
    BY <1>3 DEF Root!CreateCanvas
  <2>3. fig' = RootCanvas(a)
    BY <2>1, <2>2, Zenon DEF RootCanvas
  <2>4. RootBefore("prepare_histograms", a, options', objects', lims', fig', style')
    BY <2>1, <2>2, <2>3 DEF RootBefore
  <2> QED BY <1>0, <2>2, <2>4, RootContinues DEF a
<1>4. CASE Root!PrepareHistograms
  <2>1. options = RootOptions(a) /\ RootPrepared(a) /\ objects = a.objects /\ fig = RootCanvas(a) /\ style = RootStyle(a)
    BY <1>0, <1>4 DEF RootBefore, Root!PrepareHistograms, Root!At
  <2>2. PICK given \in {Root!base_prepare_histograms(options, objects)},
             labelled \in {options.z_tick_labels = NotGiven \/ \A i \in Root!Shown(options) : Root!IsBinned(objects[options.nicks[i]])} :
           \/ (Root!HasFailed(given) \/ ~labelled) /\ Root!Raise("prepare_histograms")
           \/ /\ ~Root!HasFailed(given) /\ labelled /\ objects' = given /\ Root!Then("determine_plot_lims")
              /\ options' = options /\ lims' = lims /\ fig' = fig /\ style' = style
    BY <1>4, Zenon DEF Root!PrepareHistograms
  <2>3. /\ given = RootObjects(a)
        /\ labelled = (options.z_tick_labels = NotGiven \/ \A i \in Root!Shown(options) : Root!IsBinned(objects[options.nicks[i]]))
    BY <2>1, <2>2, Zenon DEF RootObjects
  <2>4. RootStacked(a) <=> ~Root!HasFailed(given) /\ labelled
    BY <2>1, <2>3, Zenon DEF RootStacked
  <2>5. CASE (Root!HasFailed(given) \/ ~labelled) /\ Root!Raise("prepare_histograms")
    BY <1>0, <2>1, <2>4, <2>5, RootRaises DEF RootOutcome, a
  <2>6. CASE /\ ~Root!HasFailed(given) /\ labelled /\ objects' = given /\ Root!Then("determine_plot_lims")
             /\ options' = options /\ lims' = lims /\ fig' = fig /\ style' = style
    <3>1. RootBefore("determine_plot_lims", a, options', objects', lims', fig', style')
      BY <2>1, <2>3, <2>4, <2>6 DEF RootBefore
    <3> QED BY <1>0, <2>6, <3>1, RootContinues DEF a
  <2> QED BY <2>2, <2>5, <2>6
<1>5. CASE Root!DeterminePlotLims
  <2>1. options = RootOptions(a) /\ RootStacked(a) /\ objects = RootObjects(a) /\ fig = RootCanvas(a) /\ style = RootStyle(a)
    BY <1>0, <1>5 DEF RootBefore, Root!DeterminePlotLims, Root!At
  <2>2. PICK l \in {Root!determine_plot_lims(options, objects)} :
           \/ Root!HasFailed(l) /\ Root!Raise("determine_plot_lims")
           \/ /\ ~Root!HasFailed(l) /\ lims' = l /\ Root!Then("make_plots")
              /\ options' = options /\ objects' = objects /\ fig' = fig /\ style' = style
    BY <1>5, Zenon DEF Root!DeterminePlotLims
  <2>3. l = RootLims(a) /\ RootPrepared(a)
    BY <2>1, <2>2, Zenon DEF RootLims, RootStacked
  <2>4. CASE Root!HasFailed(l) /\ Root!Raise("determine_plot_lims")
    BY <1>0, <2>1, <2>3, <2>4, RootRaises DEF RootOutcome, RootLimited, a
  <2>5. CASE /\ ~Root!HasFailed(l) /\ lims' = l /\ Root!Then("make_plots")
             /\ options' = options /\ objects' = objects /\ fig' = fig /\ style' = style
    <3>1. RootBefore("make_plots", a, options', objects', lims', fig', style')
      BY <2>1, <2>3, <2>5 DEF RootBefore, RootLimited
    <3> QED BY <1>0, <2>5, <3>1, RootContinues DEF a
  <2> QED BY <2>2, <2>4, <2>5
<1>6. CASE Root!MakePlots
  <2>1. /\ options = RootOptions(a) /\ RootLimited(a) /\ objects = RootObjects(a) /\ lims = RootLims(a)
        /\ fig = RootCanvas(a) /\ style = RootStyle(a)
    BY <1>0, <1>6 DEF RootBefore, Root!MakePlots, Root!At
  <2>2. \/ fig.sub /\ lims.sub_dim # 2 /\ Root!Raise("make_plots")
        \/ /\ ~(fig.sub /\ lims.sub_dim # 2)
           /\ fig' = [fig EXCEPT !.frame = lims, !.drawn = Root!drawn_objects(options, objects)]
           /\ style' = [style EXCEPT !.palette = Root!palette_after(options, @)]
           /\ Root!Then("modify_axes") /\ options' = options /\ objects' = objects /\ lims' = lims
    BY <1>6, Zenon DEF Root!MakePlots
  <2>3. RootPlotted(a) <=> ~(fig.sub /\ lims.sub_dim # 2)
    BY <2>1, Zenon DEF RootPlotted
  <2>4. RootPrepared(a) /\ RootStacked(a)
    BY <2>1 DEF RootLimited, RootStacked
  <2>5. CASE fig.sub /\ lims.sub_dim # 2 /\ Root!Raise("make_plots")
    BY <1>0, <2>1, <2>3, <2>4, <2>5, RootRaises DEF RootOutcome, a
  <2>6. CASE /\ ~(fig.sub /\ lims.sub_dim # 2)
             /\ fig' = [fig EXCEPT !.frame = lims, !.drawn = Root!drawn_objects(options, objects)]
             /\ style' = [style EXCEPT !.palette = Root!palette_after(options, @)]
             /\ Root!Then("modify_axes") /\ options' = options /\ objects' = objects /\ lims' = lims
    <3>1. fig' = RootDrawn(a) /\ style' = Painted(a)
      BY <2>1, <2>6, Zenon DEF RootDrawn, Painted
    <3>2. RootBefore("modify_axes", a, options', objects', lims', fig', style')
      BY <2>1, <2>3, <2>6, <3>1 DEF RootBefore
    <3> QED BY <1>0, <2>6, <3>2, RootContinues DEF a
  <2> QED BY <2>2, <2>5, <2>6
<1>7. CASE Root!ModifyAxes
  <2>1. /\ options = RootOptions(a) /\ RootPlotted(a) /\ objects = RootObjects(a) /\ lims = RootLims(a)
        /\ fig = RootDrawn(a) /\ style = Painted(a)
    BY <1>0, <1>7 DEF RootBefore, Root!ModifyAxes, Root!At
  <2>2. \/ Root!log_fails(options, lims, fig.sub) /\ Root!Raise("modify_axes")
        \/ /\ ~Root!log_fails(options, lims, fig.sub)
           /\ fig' = [fig EXCEPT !.log = Root!log_axes(options, fig.sub), !.wide = Root!wide_margin(fig.drawn, lims)]
           /\ Root!Then("add_grid") /\ options' = options /\ objects' = objects /\ lims' = lims /\ style' = style
    BY <1>7, Zenon DEF Root!ModifyAxes
  <2>3. RootScaled(a) <=> ~Root!log_fails(options, lims, fig.sub)
    BY <2>1, Zenon DEF RootScaled
  <2>4. RootPrepared(a) /\ RootStacked(a) /\ RootLimited(a)
    BY <2>1 DEF RootPlotted, RootLimited, RootStacked
  <2>5. CASE Root!log_fails(options, lims, fig.sub) /\ Root!Raise("modify_axes")
    BY <1>0, <2>1, <2>3, <2>4, <2>5, RootRaises DEF RootOutcome, a
  <2>6. CASE /\ ~Root!log_fails(options, lims, fig.sub)
             /\ fig' = [fig EXCEPT !.log = Root!log_axes(options, fig.sub), !.wide = Root!wide_margin(fig.drawn, lims)]
             /\ Root!Then("add_grid") /\ options' = options /\ objects' = objects /\ lims' = lims /\ style' = style
    <3>1. fig' = RootAxes(a)
      BY <2>1, <2>6, Zenon DEF RootAxes
    <3>2. RootBefore("add_grid", a, options', objects', lims', fig', style')
      BY <2>1, <2>3, <2>6, <3>1 DEF RootBefore
    <3> QED BY <1>0, <2>6, <3>2, RootContinues DEF a
  <2> QED BY <2>2, <2>5, <2>6
<1>8. CASE Root!AddGrid
  <2>1. options = RootOptions(a) /\ RootScaled(a) /\ objects = RootObjects(a) /\ fig = RootAxes(a) /\ style = Painted(a)
    BY <1>0, <1>8 DEF RootBefore, Root!AddGrid, Root!At
  <2>2. /\ fig' = [fig EXCEPT !.grid = (IF options.grid \/ options.x_grid THEN {"x"} ELSE {})
                                       \cup (IF options.grid \/ options.y_grid THEN {"y"} ELSE {})
                                       \cup (IF fig.sub /\ options.subplot_grid THEN {"sub"} ELSE {})]
        /\ Root!Then("add_labels") /\ options' = options /\ objects' = objects /\ lims' = lims /\ style' = style
    BY <1>8, Zenon DEF Root!AddGrid
  <2>3. fig' = RootGrid(a)
    BY <2>1, <2>2, Zenon DEF RootGrid
  <2>4. RootBefore("add_labels", a, options', objects', lims', fig', style')
    BY <2>1, <2>2, <2>3 DEF RootBefore
  <2> QED BY <1>0, <2>2, <2>4, RootContinues DEF a
<1>9. CASE Root!AddLabels
  <2> DEFINE below == options.legend # NotGiven /\ options.subplot_legend # NotGiven
  <2>1. options = RootOptions(a) /\ RootScaled(a) /\ objects = RootObjects(a) /\ fig = RootGrid(a) /\ style = Painted(a)
    BY <1>0, <1>9 DEF RootBefore, Root!AddLabels, Root!At
  <2>2. \/ below /\ ~fig.sub /\ Root!Raise("add_labels")
        \/ /\ ~(below /\ ~fig.sub)
           /\ fig' = [fig EXCEPT !.legend = IF options.legend = NotGiven THEN NotGiven ELSE Root!main_entries(options, objects),
                                 !.sub_legend = IF below THEN Root!sub_entries(options, objects) ELSE NotGiven]
           /\ Root!Then("add_texts") /\ options' = options /\ objects' = objects /\ lims' = lims /\ style' = style
    BY <1>9, Zenon DEF Root!AddLabels
  <2>3. below <=> SubLegend(a)
    BY <2>1, Zenon DEF SubLegend
  <2>4. RootNamed(a) <=> ~(below /\ ~fig.sub)
    BY <2>1, <2>3, Zenon DEF RootNamed
  <2>5. RootPrepared(a) /\ RootStacked(a) /\ RootLimited(a) /\ RootPlotted(a)
    BY <2>1 DEF RootScaled, RootPlotted, RootLimited, RootStacked
  <2>6. CASE below /\ ~fig.sub /\ Root!Raise("add_labels")
    BY <1>0, <2>1, <2>4, <2>5, <2>6, RootRaises DEF RootOutcome, a
  <2>7. CASE /\ ~(below /\ ~fig.sub)
             /\ fig' = [fig EXCEPT !.legend = IF options.legend = NotGiven THEN NotGiven ELSE Root!main_entries(options, objects),
                                   !.sub_legend = IF below THEN Root!sub_entries(options, objects) ELSE NotGiven]
             /\ Root!Then("add_texts") /\ options' = options /\ objects' = objects /\ lims' = lims /\ style' = style
    <3>1. fig' = RootLegends(a)
      BY <2>1, <2>7, Zenon DEF RootLegends, SubLegend
    <3>2. RootBefore("add_texts", a, options', objects', lims', fig', style')
      BY <2>1, <2>4, <2>7, <3>1 DEF RootBefore
    <3> QED BY <1>0, <2>7, <3>2, RootContinues DEF a
  <2> QED BY <2>2, <2>6, <2>7
<1>10. CASE Root!AddTexts
  <2>1. options = RootOptions(a) /\ RootNamed(a) /\ fig = RootLegends(a) /\ style = Painted(a)
    BY <1>0, <1>10 DEF RootBefore, Root!AddTexts, Root!At
  <2>2. PICK title \in {Root!base_dataset_title(options)} :
           \/ Root!title_fails(options, title) /\ Root!Raise("add_texts")
           \/ /\ ~Root!title_fails(options, title)
              /\ fig' = [fig EXCEPT !.texts = options.texts \o (IF options.title = NotGiven THEN <<>> ELSE <<options.title>>),
                                    !.cms = Root!CMS_lumi(cms', options.cms_outframe)]
              /\ Root!Then("plot_end") /\ options' = options /\ objects' = objects /\ lims' = lims /\ style' = style
    BY <1>10, Zenon DEF Root!AddTexts
  <2>3. title = RootTitle(a)
    BY <2>1, <2>2, Zenon DEF RootTitle
  <2>4. RootPrepared(a) /\ RootStacked(a) /\ RootLimited(a) /\ RootPlotted(a) /\ RootScaled(a)
    BY <2>1 DEF RootNamed, RootScaled, RootPlotted, RootLimited, RootStacked
  <2>5. CASE Root!title_fails(options, title) /\ Root!Raise("add_texts")
    BY <1>0, <2>1, <2>3, <2>4, <2>5, RootRaises DEF RootOutcome, RootTitled, a
  <2>6. CASE /\ ~Root!title_fails(options, title)
             /\ fig' = [fig EXCEPT !.texts = options.texts \o (IF options.title = NotGiven THEN <<>> ELSE <<options.title>>),
                                   !.cms = Root!CMS_lumi(cms', options.cms_outframe)]
             /\ Root!Then("plot_end") /\ options' = options /\ objects' = objects /\ lims' = lims /\ style' = style
    <3> DEFINE t == options.texts \o (IF options.title = NotGiven THEN <<>> ELSE <<options.title>>)
               c == Root!CMS_lumi(cms', options.cms_outframe)
    <3>1. fig' = [RootLegends(a) EXCEPT !.texts = t, !.cms = c]
      BY <2>1, <2>6, Zenon
    <3>2. RootFigure(a) = [RootLegends(a) EXCEPT !.texts = t, !.cms = <<>>]
      BY <2>1, Zenon DEF RootFigure
    <3> HIDE DEF t, c
    <3>3. [fig' EXCEPT !.cms = <<>>] = RootFigure(a)
      BY <3>1, <3>2, CmsAside, Zenon
    <3>4. RootTitled(a)
      BY <2>1, <2>3, <2>6 DEF RootTitled
    <3>5. RootBefore("plot_end", a, options', objects', lims', fig', style')
      BY <2>1, <2>6, <3>3, <3>4 DEF RootBefore
    <3> QED BY <1>0, <2>6, <3>5, RootContinues DEF a
  <2> QED BY <2>2, <2>5, <2>6
<1>11. CASE Root!PlotEnd
  <2>1. RootTitled(a) /\ [fig EXCEPT !.cms = <<>>] = RootFigure(a) /\ style = Painted(a)
    BY <1>0, <1>11 DEF RootBefore, Root!PlotEnd, Root!At
  <2>2. RootOutcome(a) = [figure |-> RootFigure(a), style |-> Painted(a)]
    <3>1. RootPrepared(a) /\ RootStacked(a) /\ RootLimited(a) /\ RootPlotted(a) /\ RootScaled(a) /\ RootNamed(a)
      BY <2>1 DEF RootTitled, RootNamed, RootScaled, RootPlotted, RootLimited, RootStacked
    <3> QED BY <2>1, <3>1 DEF RootOutcome
  <2> DEFINE r == [figure |-> fig, style |-> style]
  <2>3. WithoutCms(r) = [figure |-> [fig EXCEPT !.cms = <<>>], style |-> style]
    BY DEF WithoutCms
  <2>4. made' = Append(made, r) /\ asked' = asked /\ stage' = "prepare_args" /\ fig' = Root!EmptyFigure
    BY <1>11 DEF Root!PlotEnd
  <2> HIDE DEF r
  <2> QED BY <1>0, <2>1, <2>2, <2>3, <2>4, RootEnds DEF a
<1> QED
  BY <1>1, <1>2, <1>3, <1>4, <1>5, <1>6, <1>7, <1>8, <1>9, <1>10, <1>11 DEF Root!Next

LEMMA Frames ==
  /\ "added" \in DOMAIN Mpl!EmptyFigure /\ "artists" \in DOMAIN Mpl!EmptyFigure
  /\ Mpl!EmptyFigure.added = <<>>
BY DEF Mpl!EmptyFigure

LEMMA MplContinues ==
  ASSUME MplMade, NEW next, Mpl!Then(next),
         MplBefore(next, asked[Mpl!Now], options', objects', lims', fig', rc.figsize'),
         DOMAIN fig' = DOMAIN Mpl!EmptyFigure, next # "add_ons" => fig.added' = <<>>, DOMAIN rc' = {"figsize", "frameon"}
  PROVE  MplInv'
<1>1. asked' = asked /\ made' = made /\ stage' = next /\ Mpl!Now' = Mpl!Now
  BY DEF Mpl!Then, Mpl!Now
<1>2. MplMade'
  BY <1>1 DEF MplMade
<1>3. MplWork'
  BY <1>1 DEF MplWork
<1> QED BY <1>2, <1>3 DEF MplInv

LEMMA MplEnds ==
  ASSUME MplInv, NEW r, WithoutFrame(r) = MplOutcome(asked[Mpl!Now]),
         made' = Append(made, r), asked' = asked, stage' = "prepare_args", fig' = Mpl!EmptyFigure, rc' = rc
  PROVE  MplInv'
<1>1. /\ Len(made) \in Nat /\ DOMAIN made = 1 .. Len(made)
      /\ made' \in Seq(Range(made'))
      /\ DOMAIN made' = 1 .. Len(made) + 1
      /\ made'[Len(made) + 1] = r
      /\ \A i \in 1 .. Len(made) : made'[i] = made[i]
  BY OneMore DEF MplInv, MplMade
<1>2. ASSUME NEW i \in DOMAIN made' PROVE WithoutFrame(made'[i]) = MplOutcome(asked'[i])
  <2>1. CASE i = Len(made) + 1
    BY <1>1, <2>1 DEF Mpl!Now
  <2>2. CASE i \in 1 .. Len(made)
    BY <1>1, <2>2 DEF MplInv, MplMade
  <2> QED BY <1>1, <2>1, <2>2, SMT
<1>3. MplMade'
  BY <1>1, <1>2 DEF MplMade
<1>4. MplWork'
  BY Frames DEF MplInv, MplWork, MplBefore
<1> QED BY <1>3, <1>4 DEF MplInv

LEMMA MplRaises ==
  ASSUME MplInv, NEW step, Mpl!Raise(step), MplOutcome(asked[Mpl!Now]) = Raised(step)
  PROVE  MplInv'
<1>1. "figure" \notin DOMAIN Raised(step)
  BY DEF Raised
<1>2. WithoutFrame(Raised(step)) = Raised(step)
  BY <1>1 DEF WithoutFrame
<1>3. /\ made' = Append(made, Raised(step)) /\ asked' = asked
      /\ stage' = "prepare_args" /\ fig' = Mpl!EmptyFigure /\ rc' = rc
  BY DEF Mpl!Raise, Raised
<1> QED BY <1>2, <1>3, MplEnds

\* Changes of a figure, with and without the frame of its legend.
LEMMA TextsAside ==
  ASSUME NEW f, NEW t
  PROVE  Frameless([f EXCEPT !.texts = t]) = [Frameless(f) EXCEPT !.texts = t]
BY DEF Frameless

LEMMA AddedAside ==
  ASSUME NEW f, NEW g, NEW x, NEW y, Frameless(f) = [g EXCEPT !.added = x]
  PROVE  Frameless([f EXCEPT !.added = y]) = [g EXCEPT !.added = y]
<1>1. Frameless([f EXCEPT !.added = y]) = [Frameless(f) EXCEPT !.added = y]
  BY DEF Frameless
<1>2. [[g EXCEPT !.added = x] EXCEPT !.added = y] = [g EXCEPT !.added = y]
  OBVIOUS
<1> QED BY <1>1, <1>2, Zenon

LEMMA NothingAdded ==
  ASSUME NEW f, NEW t, NEW x, f.added = x, "added" \in DOMAIN f
  PROVE  [[f EXCEPT !.texts = t] EXCEPT !.added = x] = [f EXCEPT !.texts = t]
OBVIOUS

LEMMA SameArtists ==
  ASSUME NEW f, NEW g, NEW x, Frameless(f) = [g EXCEPT !.added = x], "artists" \in DOMAIN f
  PROVE  f.artists = g.artists
<1>1. DOMAIN f = DOMAIN g
  <2>1. DOMAIN Frameless(f) = DOMAIN f
    BY DEF Frameless
  <2> QED BY <2>1
<1>2. f.artists = Frameless(f).artists
  BY DEF Frameless
<1>3. [g EXCEPT !.added = x].artists = g.artists
  BY <1>1
<1> QED BY <1>2, <1>3

\* One add-on more: what it adds is the same whatever has been drawn before.
LEMMA AddOnRuns ==
  ASSUME MplInv, NEW name, Mpl!AddOn(name),
         ~TableBroken(asked[Mpl!Now], name),
         Mpl!Done(Added(asked[Mpl!Now], name))
  PROVE  MplInv'
<1> DEFINE a == asked[Mpl!Now]
           y == Append(fig.added, Added(a, name))
<1>1. /\ MplMade /\ options = MplOptions(a) /\ MplScaled(a) /\ objects = MplObjects(a) /\ AddedSoFar(a, fig.added)
      /\ Frameless(fig) = [MplFigure(a) EXCEPT !.added = fig.added]
      /\ DOMAIN fig = DOMAIN Mpl!EmptyFigure /\ DOMAIN rc = {"figsize", "frameon"} /\ rc.figsize = MplOptions(a).figsize
      /\ stage = "add_ons"
  BY DEF MplInv, MplWork, MplBefore, Mpl!AddOn, Mpl!At
<1>2. fig' = [fig EXCEPT !.added = y] /\ Mpl!Then("add_ons") /\ options' = options /\ objects' = objects /\ lims' = lims /\ rc' = rc
  BY <1>1, Zenon DEF Mpl!Done, Mpl!Then
<1>3. options.add_ons[Len(fig.added) + 1] = name
  BY DEF Mpl!AddOn, Mpl!Ran
<1> HIDE DEF a
<1>4. AddedSoFar(a, y)
  <2>1. fig.added \in Seq(Range(fig.added))
    BY <1>1 DEF AddedSoFar
  <2>2. /\ Len(fig.added) \in Nat /\ DOMAIN fig.added = 1 .. Len(fig.added)
        /\ y \in Seq(Range(y)) /\ DOMAIN y = 1 .. Len(fig.added) + 1
        /\ y[Len(fig.added) + 1] = Added(a, name)
        /\ \A i \in 1 .. Len(fig.added) : y[i] = fig.added[i]
    BY <2>1, OneMore
  <2> HIDE DEF y
  <2>3. ASSUME NEW k \in DOMAIN y
        PROVE  y[k] = Added(a, MplOptions(a).add_ons[k]) /\ ~TableBroken(a, MplOptions(a).add_ons[k])
    <3>1. CASE k = Len(fig.added) + 1
      BY <1>1, <1>3, <2>2, <3>1 DEF a
    <3>2. CASE k \in 1 .. Len(fig.added)
      BY <1>1, <2>2, <3>2 DEF AddedSoFar
    <3> QED BY <2>2, <3>1, <3>2, SMT
  <2> QED BY <2>2, <2>3 DEF AddedSoFar
<1> HIDE DEF y
<1>5. DOMAIN fig' = DOMAIN Mpl!EmptyFigure /\ fig.added' = y
  BY <1>1, <1>2, Frames
<1>6. Frameless(fig') = [MplFigure(a) EXCEPT !.added = fig.added']
  <2>1. Frameless([fig EXCEPT !.added = y]) = [MplFigure(a) EXCEPT !.added = y]
    BY <1>1, AddedAside
  <2> QED BY <1>2, <1>5, <2>1, Zenon
<1>7. MplBefore("add_ons", a, options', objects', lims', fig', rc.figsize')
  BY <1>1, <1>2, <1>4, <1>5, <1>6 DEF MplBefore
<1> QED BY <1>1, <1>2, <1>5, <1>7, MplContinues DEF a

LEMMA MplStep == ASSUME MplInv, Mpl!Next PROVE MplInv'
<1> DEFINE a == asked[Mpl!Now]
<1>0. /\ MplMade /\ MplBefore(stage, a, options, objects, lims, fig, rc.figsize)
      /\ DOMAIN fig = DOMAIN Mpl!EmptyFigure /\ (stage # "add_ons" => fig.added = <<>>) /\ DOMAIN rc = {"figsize", "frameon"}
  BY DEF MplInv, MplWork
<1> HIDE DEF a
<1>1. CASE Mpl!PrepareArgs
  <2>1. PICK given \in {IF "rectangle" \in Mpl!ToSet(a.options.add_ons) /\ Mpl!rectangles_fail(a.options)
                           THEN Mpl!Failure(options) ELSE Mpl!prepare_args(a.options, a.objects)} :
           \/ Mpl!HasFailed(given) /\ Mpl!Raise("prepare_args")
           \/ /\ ~Mpl!HasFailed(given) /\ options' = given /\ objects' = a.objects
              /\ Mpl!Then("set_style") /\ fig' = fig /\ rc' = rc
    BY <1>1, Zenon DEF Mpl!PrepareArgs, a
  <2>2. Mpl!HasFailed(Mpl!Failure(options))
    BY DEF Mpl!HasFailed, Mpl!Failure
  <2>3. /\ MplPrepared(a) <=> ~Mpl!HasFailed(given)
        /\ ~Mpl!HasFailed(given) => given = MplOptions(a)
    BY <2>1, <2>2, Zenon DEF MplPrepared, MplOptions
  <2>4. fig = Mpl!EmptyFigure /\ fig.added = <<>>
    BY Frames, <1>0, <1>1 DEF MplBefore, Mpl!PrepareArgs, Mpl!At
  <2>5. CASE Mpl!HasFailed(given) /\ Mpl!Raise("prepare_args")
    BY <2>3, <2>5, MplRaises DEF MplOutcome, a
  <2>6. CASE /\ ~Mpl!HasFailed(given) /\ options' = given /\ objects' = a.objects
             /\ Mpl!Then("set_style") /\ fig' = fig /\ rc' = rc
    <3>1. MplBefore("set_style", a, options', objects', lims', fig', rc.figsize')
      BY <2>3, <2>4, <2>6 DEF MplBefore
    <3> QED BY <1>0, <2>4, <2>6, <3>1, MplContinues DEF a
  <2> QED BY <2>1, <2>5, <2>6
<1>2. CASE Mpl!SetStyle
  <2>1. options = MplOptions(a) /\ MplPrepared(a) /\ objects = a.objects /\ fig = Mpl!EmptyFigure
    BY <1>0, <1>2 DEF MplBefore, Mpl!SetStyle, Mpl!At
  <2>0. fig.added = <<>>
    BY <1>0, <1>2 DEF Mpl!SetStyle, Mpl!At
  <2>2. \/ ~(Len(options.figsize) = 2 /\ options.aspect_ratio = 1) /\ Mpl!Raise("set_style")
        \/ /\ Len(options.figsize) = 2 /\ options.aspect_ratio = 1
           /\ rc' = [rc EXCEPT !.figsize = options.figsize]
           /\ Mpl!Then("create_canvas") /\ options' = options /\ objects' = objects /\ lims' = lims /\ fig' = fig
    BY <1>2 DEF Mpl!SetStyle, Mpl!plot
  <2>3. MplSized(a) <=> Len(options.figsize) = 2 /\ options.aspect_ratio = 1
    BY <2>1, Zenon DEF MplSized
  <2>4. CASE ~(Len(options.figsize) = 2 /\ options.aspect_ratio = 1) /\ Mpl!Raise("set_style")
    BY <2>1, <2>3, <2>4, MplRaises DEF MplOutcome, a
  <2>5. CASE /\ Len(options.figsize) = 2 /\ options.aspect_ratio = 1
             /\ rc' = [rc EXCEPT !.figsize = options.figsize]
             /\ Mpl!Then("create_canvas") /\ options' = options /\ objects' = objects /\ lims' = lims /\ fig' = fig
    <3>1. DOMAIN rc' = {"figsize", "frameon"} /\ rc.figsize' = options.figsize
      BY <1>0, <2>5
    <3>2. MplBefore("create_canvas", a, options', objects', lims', fig', rc.figsize')
      BY <2>1, <2>3, <2>5, <3>1 DEF MplBefore
    <3> QED BY <1>0, <2>0, <2>5, <3>1, <3>2, MplContinues DEF a
  <2> QED BY <2>2, <2>4, <2>5
<1>3. CASE Mpl!CreateCanvas
  <2>1. options = MplOptions(a) /\ MplSized(a) /\ objects = a.objects /\ fig = Mpl!EmptyFigure /\ rc.figsize = MplOptions(a).figsize
    BY <1>0, <1>3 DEF MplBefore, Mpl!CreateCanvas, Mpl!At
  <2> DEFINE bar == IF \E n \in DOMAIN objects : objects[n].kind = "TH2" THEN <<"bar">> ELSE <<>>
  <2>2. /\ fig' = [fig EXCEPT !.axes = IF options.subplot_nicks # <<>> THEN <<"main", "sub">> \o bar
                                       ELSE IF options.three_d THEN <<"3d">> ELSE <<"main">>]
        /\ Mpl!Then("prepare_histograms") /\ options' = options /\ objects' = objects /\ lims' = lims /\ rc' = rc
    BY <1>3, Zenon DEF Mpl!CreateCanvas
  <2>3. fig' = MplCanvas(a)
    BY <2>1, <2>2, Zenon DEF MplCanvas
  <2>4. DOMAIN fig' = DOMAIN Mpl!EmptyFigure /\ fig.added' = <<>>
    BY <1>0, <1>3, <2>2 DEF Mpl!CreateCanvas, Mpl!At
  <2>5. MplBefore("prepare_histograms", a, options', objects', lims', fig', rc.figsize')
    BY <2>1, <2>2, <2>3 DEF MplBefore
  <2> QED BY <1>0, <2>2, <2>4, <2>5, MplContinues DEF a
<1>4. CASE Mpl!PrepareHistograms
  <2>1. options = MplOptions(a) /\ MplSized(a) /\ objects = a.objects /\ fig = MplCanvas(a) /\ rc.figsize = MplOptions(a).figsize
    BY <1>0, <1>4 DEF MplBefore, Mpl!PrepareHistograms, Mpl!At
  <2>0. fig.added = <<>>
    BY <1>0, <1>4 DEF Mpl!PrepareHistograms, Mpl!At
  <2>2. PICK given \in {Mpl!base_prepare_histograms(options, objects)} :
           \/ Mpl!HasFailed(given) /\ Mpl!Raise("prepare_histograms")
           \/ /\ ~Mpl!HasFailed(given) /\ objects' = given /\ lims' = Mpl!base_determine_plot_lims(options, given)
              /\ Mpl!Then("make_plots") /\ options' = options /\ fig' = fig /\ rc' = rc
    BY <1>4, Zenon DEF Mpl!PrepareHistograms
  <2>3. given = MplObjects(a) /\ Mpl!base_determine_plot_lims(options, given) = MplLims(a)
    BY <2>1, <2>2, Zenon DEF MplObjects, MplLims
  <2>4. MplStacked(a) <=> ~Mpl!HasFailed(given)
    BY <2>1, <2>3 DEF MplStacked
  <2>5. MplPrepared(a)
    BY <2>1 DEF MplSized
  <2>6. CASE Mpl!HasFailed(given) /\ Mpl!Raise("prepare_histograms")
    BY <2>1, <2>4, <2>5, <2>6, MplRaises DEF MplOutcome, a
  <2>7. CASE /\ ~Mpl!HasFailed(given) /\ objects' = given /\ lims' = Mpl!base_determine_plot_lims(options, given)
             /\ Mpl!Then("make_plots") /\ options' = options /\ fig' = fig /\ rc' = rc
    <3>1. MplBefore("make_plots", a, options', objects', lims', fig', rc.figsize')
      BY <2>1, <2>3, <2>4, <2>7 DEF MplBefore
    <3> QED BY <1>0, <2>0, <2>7, <3>1, MplContinues DEF a
  <2> QED BY <2>2, <2>6, <2>7
<1>5. CASE Mpl!MakePlots
  <2>1. /\ options = MplOptions(a) /\ MplStacked(a) /\ objects = MplObjects(a) /\ lims = MplLims(a) /\ fig = MplCanvas(a)
        /\ rc.figsize = MplOptions(a).figsize
    BY <1>0, <1>5 DEF MplBefore, Mpl!MakePlots, Mpl!At
  <2>2. \/ Mpl!plots_fail(options, objects) /\ Mpl!Raise("make_plots")
        \/ /\ ~Mpl!plots_fail(options, objects) /\ fig' = [fig EXCEPT !.artists = Mpl!get_artists(options, objects)]
           /\ Mpl!Then("modify_axes") /\ options' = options /\ objects' = objects /\ lims' = lims /\ rc' = rc
    BY <1>5, Zenon DEF Mpl!MakePlots
  <2>3. MplPlotted(a) <=> ~Mpl!plots_fail(options, objects)
    BY <2>1, Zenon DEF MplPlotted
  <2>4. MplPrepared(a) /\ MplSized(a)
    BY <2>1 DEF MplStacked, MplSized
  <2>5. CASE Mpl!plots_fail(options, objects) /\ Mpl!Raise("make_plots")
    BY <2>1, <2>3, <2>4, <2>5, MplRaises DEF MplOutcome, a
  <2>6. CASE /\ ~Mpl!plots_fail(options, objects) /\ fig' = [fig EXCEPT !.artists = Mpl!get_artists(options, objects)]
             /\ Mpl!Then("modify_axes") /\ options' = options /\ objects' = objects /\ lims' = lims /\ rc' = rc
    <3>1. fig' = MplDrawn(a)
      BY <2>1, <2>6, Zenon DEF MplDrawn
    <3>2. DOMAIN fig' = DOMAIN Mpl!EmptyFigure /\ fig.added' = <<>>
      BY <1>0, <1>5, <2>6 DEF Mpl!MakePlots, Mpl!At
    <3>3. MplBefore("modify_axes", a, options', objects', lims', fig', rc.figsize')
      BY <2>1, <2>3, <2>6, <3>1 DEF MplBefore
    <3> QED BY <1>0, <2>6, <3>2, <3>3, MplContinues DEF a
  <2> QED BY <2>2, <2>5, <2>6
<1>6. CASE Mpl!ModifyAxes
  <2> DEFINE dim == Mpl!dimension(options, objects)
             axes == [fig EXCEPT !.x = IF dim = 3 THEN Mpl!Nothing ELSE Mpl!x_limits(options, objects),
                                 !.y = IF dim = 3 THEN Mpl!Nothing ELSE Mpl!y_limits(options, objects, lims.y),
                                 !.y_sub = IF options.subplot_nicks # <<>> /\ options.y_subplot_lims # NotGiven THEN options.y_subplot_lims ELSE @,
                                 !.lines = [i \in DOMAIN options.lines |-> <<options.lines[i], Mpl!line_styles(options)[i]>>],
                                 !.colorbar = IF dim # 2 THEN NotGiven ELSE IF options.subplot_nicks # <<>> THEN 3 ELSE 1]
  <2>1. /\ options = MplOptions(a) /\ MplPlotted(a) /\ objects = MplObjects(a) /\ lims = MplLims(a) /\ fig = MplDrawn(a)
        /\ rc.figsize = MplOptions(a).figsize
    BY <1>0, <1>6 DEF MplBefore, Mpl!ModifyAxes, Mpl!At
  <2>2. \/ Mpl!axes_fail(options, objects) /\ Mpl!Raise("modify_axes")
        \/ /\ ~Mpl!axes_fail(options, objects) /\ fig' = axes
           /\ Mpl!Then("add_labels") /\ options' = options /\ objects' = objects /\ lims' = lims /\ rc' = rc
    BY <1>6, Zenon DEF Mpl!ModifyAxes
  <2>3. axes = MplAxes(a)
    BY <2>1, Zenon DEF MplAxes, MplDimension
  <2>4. DOMAIN axes = DOMAIN Mpl!EmptyFigure /\ axes.added = <<>>
    BY <1>0, <1>6 DEF Mpl!ModifyAxes, Mpl!At
  <2> HIDE DEF axes
  <2>5. MplScaled(a) <=> ~Mpl!axes_fail(options, objects)
    BY <2>1, Zenon DEF MplScaled
  <2>6. MplPrepared(a) /\ MplSized(a) /\ MplStacked(a)
    BY <2>1 DEF MplPlotted, MplStacked, MplSized
  <2>7. CASE Mpl!axes_fail(options, objects) /\ Mpl!Raise("modify_axes")
    BY <2>1, <2>5, <2>6, <2>7, MplRaises DEF MplOutcome, a
  <2>8. CASE /\ ~Mpl!axes_fail(options, objects) /\ fig' = axes
             /\ Mpl!Then("add_labels") /\ options' = options /\ objects' = objects /\ lims' = lims /\ rc' = rc
    <3>1. MplBefore("add_labels", a, options', objects', lims', fig', rc.figsize')
      BY <2>1, <2>3, <2>5, <2>8 DEF MplBefore
    <3> QED BY <1>0, <2>4, <2>8, <3>1, MplContinues DEF a
  <2> QED BY <2>2, <2>7, <2>8
<1>7. CASE Mpl!AddLabels
  <2> DEFINE main == Mpl!legend_of(Mpl!on_axis(fig.artists, 1), options, options.legend)
             sub == IF Len(fig.axes) > 1 THEN Mpl!legend_of(Mpl!on_axis(fig.artists, 2), options, options.subplot_legend) ELSE <<>>
  <2>1. options = MplOptions(a) /\ MplScaled(a) /\ objects = MplObjects(a) /\ fig = MplAxes(a) /\ rc.figsize = MplOptions(a).figsize
    BY <1>0, <1>7 DEF MplBefore, Mpl!AddLabels, Mpl!At
  <2>2. PICK framed, frame :
           /\ rc' = [rc EXCEPT !.frameon = framed]
           /\ fig' = [fig EXCEPT !.legend = main, !.sub_legend = sub, !.frame = frame]
           /\ Mpl!Then("add_texts") /\ options' = options /\ objects' = objects /\ lims' = lims
    BY <1>7, Zenon DEF Mpl!AddLabels
  <2>3. MplLegends(a) = [fig EXCEPT !.legend = main, !.sub_legend = sub, !.frame = FALSE]
    BY <2>1, Zenon DEF MplLegends
  <2>4. fig.added = <<>>
    BY <1>0, <1>7 DEF Mpl!AddLabels, Mpl!At
  <2> HIDE DEF main, sub
  <2>5. Frameless(fig') = MplLegends(a)
    <3>1. Frameless([fig EXCEPT !.legend = main, !.sub_legend = sub, !.frame = frame])
            = [fig EXCEPT !.legend = main, !.sub_legend = sub, !.frame = FALSE]
      BY DEF Frameless
    <3>2. Frameless(fig') = Frameless([fig EXCEPT !.legend = main, !.sub_legend = sub, !.frame = frame])
      BY <2>2, Zenon
    <3> QED BY <2>3, <3>1, <3>2, Zenon
  <2>6. DOMAIN fig' = DOMAIN Mpl!EmptyFigure /\ DOMAIN rc' = {"figsize", "frameon"} /\ rc.figsize' = rc.figsize
    BY <1>0, <2>2
  <2>7. fig.added' = <<>>
    BY <1>0, <2>2, <2>4, Frames
  <2>8. MplBefore("add_texts", a, options', objects', lims', fig', rc.figsize')
    BY <2>1, <2>2, <2>5, <2>6, <2>7 DEF MplBefore
  <2> QED BY <1>0, <2>2, <2>6, <2>7, <2>8, MplContinues DEF a
<1>8. CASE Mpl!AddTexts
  <2> DEFINE t == options.texts \o IF Mpl!dimension(options, objects) = 3 THEN <<>> ELSE Mpl!base_dataset_title(options)
  <2>1. /\ options = MplOptions(a) /\ MplScaled(a) /\ objects = MplObjects(a) /\ Frameless(fig) = MplLegends(a)
        /\ rc.figsize = MplOptions(a).figsize /\ fig.added = <<>>
    BY <1>0, <1>8 DEF MplBefore, Mpl!AddTexts, Mpl!At
  <2>2. /\ fig' = [fig EXCEPT !.texts = t]
        /\ Mpl!Then("add_ons") /\ options' = options /\ objects' = objects /\ lims' = lims /\ rc' = rc
    BY <1>8, Zenon DEF Mpl!AddTexts
  <2>3. MplFigure(a) = [Frameless(fig) EXCEPT !.texts = t]
    BY <2>1, Zenon DEF MplFigure, MplDimension
  <2> HIDE DEF t
  <2>4. Frameless([fig EXCEPT !.texts = t]) = MplFigure(a)
    BY <2>3, TextsAside
  <2>5. Frameless(fig') = MplFigure(a)
    BY <2>2, <2>4, Zenon
  <2>6. DOMAIN fig' = DOMAIN Mpl!EmptyFigure /\ fig.added' = <<>>
    BY <1>0, <2>1, <2>2
  <2>7. MplFigure(a) = [MplFigure(a) EXCEPT !.added = <<>>]
    <3>1. DOMAIN Frameless(fig) = DOMAIN fig /\ Frameless(fig).added = <<>>
      BY <1>0, <2>1, Frames DEF Frameless
    <3>2. [[Frameless(fig) EXCEPT !.texts = t] EXCEPT !.added = <<>>] = [Frameless(fig) EXCEPT !.texts = t]
      BY <1>0, <3>1, NothingAdded, Frames
    <3> QED BY <2>3, <3>2, Zenon
  <2>8. AddedSoFar(a, <<>>)
    BY DEF AddedSoFar
  <2>9. MplBefore("add_ons", a, options', objects', lims', fig', rc.figsize')
    <3>1. Frameless(fig') = [MplFigure(a) EXCEPT !.added = fig.added']
      BY <2>5, <2>6, <2>7, Zenon
    <3>2. AddedSoFar(a, fig.added')
      BY <2>6, <2>8
    <3> QED BY <2>1, <2>2, <3>1, <3>2 DEF MplBefore
  <2> QED BY <1>0, <2>2, <2>6, <2>9, MplContinues DEF a
<1>9. ASSUME stage = "add_ons"
      PROVE  /\ options = MplOptions(a) /\ MplScaled(a) /\ objects = MplObjects(a) /\ AddedSoFar(a, fig.added)
             /\ Frameless(fig) = [MplFigure(a) EXCEPT !.added = fig.added] /\ rc.figsize = MplOptions(a).figsize
             /\ fig.artists = MplFigure(a).artists
  <2>1. /\ options = MplOptions(a) /\ MplScaled(a) /\ objects = MplObjects(a) /\ AddedSoFar(a, fig.added)
        /\ Frameless(fig) = [MplFigure(a) EXCEPT !.added = fig.added] /\ rc.figsize = MplOptions(a).figsize
    BY <1>0, <1>9 DEF MplBefore
  <2>2. fig.artists = MplFigure(a).artists
    BY <1>0, <2>1, SameArtists, Frames
  <2> QED BY <2>1, <2>2
<1>10. CASE Mpl!Mean
  <2>1. stage = "add_ons" /\ Mpl!AddOn("mean") /\ Mpl!Done([means |-> Mpl!means(options, objects)])
    BY <1>10 DEF Mpl!Mean, Mpl!AddOn, Mpl!At
  <2>2. Added(a, "mean") = [means |-> Mpl!means(options, objects)] /\ ~TableBroken(a, "mean")
    BY <1>9, <2>1 DEF Added, TableBroken
  <2> QED BY <2>1, <2>2, AddOnRuns DEF a
<1>11. CASE Mpl!Rectangle
  <2>1. stage = "add_ons" /\ Mpl!AddOn("rectangle") /\ Mpl!Done([rectangles |-> Mpl!rectangles(options)])
    BY <1>11 DEF Mpl!Rectangle, Mpl!AddOn, Mpl!At
  <2>2. Added(a, "rectangle") = [rectangles |-> Mpl!rectangles(options)] /\ ~TableBroken(a, "rectangle")
    BY <1>9, <2>1 DEF Added, TableBroken
  <2> QED BY <2>1, <2>2, AddOnRuns DEF a
<1>12. CASE Mpl!LegendTable
  <2>1. /\ stage = "add_ons" /\ Mpl!AddOn("table")
        /\ \/ Mpl!TableFails(options, fig.artists) /\ Mpl!Raise("table")
           \/ ~Mpl!TableFails(options, fig.artists) /\ Mpl!Done([table |-> Mpl!table(options, fig.artists)])
    BY <1>12 DEF Mpl!LegendTable, Mpl!AddOn, Mpl!At
  <2>2. Added(a, "table") = [table |-> Mpl!table(options, fig.artists)]
    BY <1>9, <2>1 DEF Added
  <2>3. TableBroken(a, "table") <=> Mpl!TableFails(options, fig.artists)
    BY <1>9, <2>1, Zenon DEF TableBroken
  <2>4. CASE Mpl!TableFails(options, fig.artists) /\ Mpl!Raise("table")
    <3>1. ~MplComplete(a)
      <4>1. Len(fig.added) \in Nat
        BY <1>9, <2>1, OneMore DEF AddedSoFar
      <4>2. Len(fig.added) < Len(MplOptions(a).add_ons) /\ MplOptions(a).add_ons[Len(fig.added) + 1] = "table"
        BY <1>9, <2>1 DEF Mpl!AddOn, Mpl!Ran
      <4> QED BY <2>3, <2>4, <4>1, <4>2, Zenon DEF MplComplete
    <3>2. MplPrepared(a) /\ MplSized(a) /\ MplStacked(a) /\ MplPlotted(a) /\ MplScaled(a)
      BY <1>9, <2>1 DEF MplScaled, MplPlotted, MplStacked, MplSized
    <3>3. MplOutcome(a) = Raised("table")
      BY <3>1, <3>2 DEF MplOutcome
    <3> QED BY <2>4, <3>3, MplRaises DEF a
  <2>5. CASE ~Mpl!TableFails(options, fig.artists) /\ Mpl!Done([table |-> Mpl!table(options, fig.artists)])
    BY <2>1, <2>2, <2>3, <2>5, AddOnRuns DEF a
  <2> QED BY <2>1, <2>4, <2>5
<1>13. CASE Mpl!Save
  <2> DEFINE saved == IF options.save_legend
                      THEN Mpl!get_legend_handles_labels_ordered(Mpl!on_axis(fig.artists, 1), options.labels) ELSE <<>>
             r == [figure |-> fig, size |-> rc.figsize, saved |-> saved]
             list == MplOptions(a).add_ons
  <2>1. stage = "add_ons" /\ Len(fig.added) = Len(options.add_ons)
    BY <1>13 DEF Mpl!Save, Mpl!At, Mpl!Ran
  <2>2. made' = Append(made, r) /\ asked' = asked /\ stage' = "prepare_args" /\ fig' = Mpl!EmptyFigure /\ rc' = rc
    BY <1>13, Zenon DEF Mpl!Save
  <2>3. /\ Len(list) \in Nat /\ DOMAIN fig.added = 1 .. Len(list)
        /\ \A k \in 1 .. Len(list) : fig.added[k] = Added(a, list[k]) /\ ~TableBroken(a, list[k])
    <3>1. Len(fig.added) \in Nat /\ DOMAIN fig.added = 1 .. Len(fig.added)
      BY <1>9, <2>1, OneMore DEF AddedSoFar
    <3> QED BY <1>9, <2>1, <3>1 DEF AddedSoFar
  <2>4. fig.added = [k \in 1 .. Len(list) |-> Added(a, list[k])]
    <3>1. fig.added = [k \in DOMAIN fig.added |-> fig.added[k]]
      BY <1>9, <2>1, LenProperties DEF AddedSoFar
    <3> QED BY <2>3, <3>1, Zenon
  <2>5. MplComplete(a)
    <3>1. ASSUME NEW k \in Nat, k < Len(list) PROVE ~TableBroken(a, list[k + 1])
      <4>1. k + 1 \in 1 .. Len(list)
        BY <2>3, <3>1, SMT
      <4> QED BY <2>3, <4>1
    <3> QED BY <1>9, <2>1, <3>1 DEF MplComplete
  <2>6. MplPrepared(a) /\ MplSized(a) /\ MplStacked(a) /\ MplPlotted(a) /\ MplScaled(a)
    BY <1>9, <2>1 DEF MplScaled, MplPlotted, MplStacked, MplSized
  <2>7. saved = IF MplOptions(a).save_legend
                THEN Mpl!get_legend_handles_labels_ordered(Mpl!on_axis(MplFigure(a).artists, 1), MplOptions(a).labels) ELSE <<>>
    BY <1>9, <2>1, Zenon
  <2> HIDE DEF saved, list
  <2>8. MplOutcome(a) = [figure |-> [MplFigure(a) EXCEPT !.added = fig.added], size |-> MplOptions(a).figsize, saved |-> saved]
    BY <2>4, <2>5, <2>6, <2>7, Zenon DEF MplOutcome, list
  <2>9. WithoutFrame(r) = [figure |-> Frameless(fig), size |-> rc.figsize, saved |-> saved]
    BY DEF WithoutFrame
  <2>10. WithoutFrame(r) = MplOutcome(a)
    BY <1>9, <2>1, <2>8, <2>9, Zenon
  <2> HIDE DEF r
  <2> QED BY <2>2, <2>10, MplEnds DEF a
<1> QED
  BY <1>1, <1>2, <1>3, <1>4, <1>5, <1>6, <1>7, <1>8, <1>10, <1>11, <1>12, <1>13 DEF Mpl!Next

LEMMA PlotterSafe == Spec => []PlotterInv
<1>1. Init => PlotterInv
  <2> SUFFICES ASSUME Init PROVE PlotterInv
    OBVIOUS
  <2>1. ASSUME plotter = "PlotRoot", Root!Init PROVE RootInv
    <3>1. made = <<>> /\ stage = "prepare_args" /\ fig = Root!EmptyFigure
      BY <2>1 DEF Root!Init
    <3> QED BY <3>1 DEF RootInv, RootWork, RootBefore, RootMade
  <2>2. ASSUME plotter = "PlotMpl", Mpl!Init PROVE MplInv
    <3>1. made = <<>> /\ stage = "prepare_args" /\ fig = Mpl!EmptyFigure /\ DOMAIN rc = {"figsize", "frameon"}
      BY <2>2 DEF Mpl!Init
    <3> QED BY <3>1, Frames DEF MplInv, MplWork, MplBefore, MplMade
  <2> QED BY <2>1, <2>2 DEF Init, PlotterInv, OfRoot, OfMpl
<1>2. PlotterInv /\ [Next]_plotterVars => PlotterInv'
  <2> SUFFICES ASSUME PlotterInv, [Next]_plotterVars PROVE PlotterInv'
    OBVIOUS
  <2>1. CASE plotter = "PlotRoot" /\ Root!Next /\ UNCHANGED plotter
    <3>1. RootInv'
      BY <2>1, RootStep DEF PlotterInv, OfRoot
    <3> QED BY <2>1, <3>1 DEF PlotterInv, OfRoot, OfMpl
  <2>2. CASE plotter = "PlotMpl" /\ Mpl!Next /\ UNCHANGED plotter
    <3>1. MplInv'
      BY <2>2, MplStep DEF PlotterInv, OfMpl
    <3> QED BY <2>2, <3>1 DEF PlotterInv, OfRoot, OfMpl
  <2>3. CASE UNCHANGED plotterVars
    <3>1. RootInv => RootInv'
      BY <2>3 DEF plotterVars, RootInv, RootWork, RootMade, Root!Now
    <3>2. MplInv => MplInv'
      BY <2>3 DEF plotterVars, MplInv, MplWork, MplMade, Mpl!Now
    <3> QED BY <2>3, <3>1, <3>2 DEF PlotterInv, OfRoot, OfMpl, plotterVars
  <2> QED BY <2>1, <2>2, <2>3 DEF Next
<1> QED BY <1>1, <1>2, PTL DEF Spec

\* The plots that one process makes, with ROOT or with Matplotlib, do not influence each
\* other: the same options and objects give the same figure in the same style, or the
\* failure of the same step, whatever has been plotted before and however that has ended.
\* The texts of CMS_lumi and the frame of Matplotlib's legend are excepted (plotroot.py
\* and plotmpl.py: set_style, prepare_args).
THEOREM PlotsDoNotInteract == Spec => []PlotsAreIndependent
<1>1. ASSUME plotter = "PlotRoot", RootInv PROVE Root!PlotsAreIndependent
  <2> SUFFICES ASSUME NEW i \in DOMAIN made, NEW j \in DOMAIN made, asked[i] = asked[j]
               PROVE  /\ Root!Ended(i) <=> Root!Ended(j)
                      /\ Root!Ended(i) => /\ made[i].style = made[j].style
                                          /\ [Root!Figure(i) EXCEPT !.cms = <<>>] = [Root!Figure(j) EXCEPT !.cms = <<>>]
                      /\ ~Root!Ended(i) => made[i] = made[j]
    BY DEF Root!PlotsAreIndependent
  <2>1. WithoutCms(made[i]) = WithoutCms(made[j])
    BY <1>1, Zenon DEF RootInv, RootMade
  <2>2. \A r : "figure" \in DOMAIN WithoutCms(r) <=> "figure" \in DOMAIN r
    BY DEF WithoutCms
  <2>3. Root!Ended(i) <=> Root!Ended(j)
    BY <2>1, <2>2, Zenon DEF Root!Ended
  <2>4. CASE Root!Ended(i)
    BY <2>1, <2>3, <2>4 DEF Root!Ended, Root!Figure, WithoutCms
  <2>5. CASE ~Root!Ended(i)
    BY <2>1, <2>3, <2>5 DEF Root!Ended, WithoutCms
  <2> QED BY <2>3, <2>4, <2>5
<1>2. ASSUME plotter = "PlotMpl", MplInv PROVE Mpl!PlotsAreIndependent
  <2> SUFFICES ASSUME NEW i \in DOMAIN made, NEW j \in DOMAIN made, asked[i] = asked[j]
               PROVE  /\ Mpl!Ended(i) <=> Mpl!Ended(j)
                      /\ Mpl!Ended(i) => /\ made[i].size = made[j].size
                                         /\ [Mpl!Figure(i) EXCEPT !.frame = FALSE] = [Mpl!Figure(j) EXCEPT !.frame = FALSE]
                      /\ ~Mpl!Ended(i) => made[i] = made[j]
    BY DEF Mpl!PlotsAreIndependent
  <2>1. WithoutFrame(made[i]) = WithoutFrame(made[j])
    BY <1>2, Zenon DEF MplInv, MplMade
  <2>2. \A r : "figure" \in DOMAIN WithoutFrame(r) <=> "figure" \in DOMAIN r
    BY DEF WithoutFrame
  <2>3. Mpl!Ended(i) <=> Mpl!Ended(j)
    BY <2>1, <2>2, Zenon DEF Mpl!Ended
  <2>4. CASE Mpl!Ended(i)
    BY <2>1, <2>3, <2>4 DEF Mpl!Ended, Mpl!Figure, WithoutFrame, Frameless
  <2>5. CASE ~Mpl!Ended(i)
    BY <2>1, <2>3, <2>5 DEF Mpl!Ended, WithoutFrame
  <2> QED BY <2>3, <2>4, <2>5
<1>3. PlotterInv => PlotsAreIndependent
  BY <1>1, <1>2 DEF PlotterInv, PlotsAreIndependent, OfRoot, OfMpl
<1> QED BY <1>3, PlotterSafe, PTL

-----------------------------------------------------------------------------
(* Why the exported file is the plot: the modules that the first parse has *)
(* found are those that the final arguments name, and what is left out of  *)
(* the file is what they and the parser have as defaults.                  *)
First == FirstArgs(cli, json)
Final == FinalArgs(cli, Chain(First), json)
ForExport == ExportArgs(Final, Defaults(Chain(First), json), json)

CoreInv ==
  /\ cli \in CommandLines /\ json \in JsonFiles
  /\ pc \in {"first", "select", "reparse", "chain", "save", "end"}
  /\ pc = "select" => args = First
  /\ pc \in {"reparse", "chain", "save", "end"} => processors = Chain(First) /\ AllValid(First)
  /\ pc \in {"chain", "save", "end"} =>
       /\ DOMAIN cli \subseteq DOMAIN Declared(processors)
       /\ toExport = ForExport
       /\ DOMAIN args = DOMAIN Final
       /\ \A k \in DOMAIN Final \ {"export_json"} : args[k] = Final[k]
  /\ pc \notin {"save", "end"} => exported = <<>>
  /\ pc \in {"save", "end"} =>
       /\ done = processors
       /\ \/ exported = <<>> /\ args["export_json"] = Str("None")
          \/ exported = <<args["export_json"].str, toExport>>
  /\ pc # "end" => remote = <<>> /\ files \in Seq(Range(files))
  /\ pc = "end" /\ remote # <<>> => exported # <<>> /\ exported[1] \in Range(remote)


LEMMA ModulesOfBase ==
  /\ ModuleOptions \subseteq DOMAIN BaseDefaults /\ "export_json" \in DOMAIN BaseDefaults
  /\ \A k \in ModuleOptions : IsList(BaseDefaults[k]) /\ ("list" \in DOMAIN BaseDefaults[k] => BaseDefaults[k].list = <<>>)
<1>1. DOMAIN BaseDefaults = {"input_modules", "analysis_modules", "plot_modules", "list_available_modules", "export_json", "comment"}
  BY DEF BaseDefaults
<1>2. BaseDefaults["input_modules"] = Str("InputRoot") /\ BaseDefaults["plot_modules"] = Str("PlotMpl")
  BY DEF BaseDefaults
<1>3. BaseDefaults["analysis_modules"] = Lst(<<>>)
  BY DEF BaseDefaults
<1>4. \A x : "list" \notin DOMAIN Str(x) /\ Lst(x).list = x
  BY DEF Str, Lst
<1>5. ASSUME NEW k \in ModuleOptions
      PROVE  IsList(BaseDefaults[k]) /\ ("list" \in DOMAIN BaseDefaults[k] => BaseDefaults[k].list = <<>>)
  <2>1. CASE k = "analysis_modules"
    <3>1. BaseDefaults[k].list = <<>>
      BY <2>1, <1>3, <1>4
    <3> QED BY <3>1 DEF IsList
  <2>2. CASE k # "analysis_modules"
    BY <2>2, <1>2, <1>4 DEF ModuleOptions, IsList
  <2> QED BY <2>1, <2>2
<1> QED BY <1>1, <1>5 DEF ModuleOptions

LEMMA SameChain ==
  ASSUME NEW a, NEW b, \A k \in ModuleOptions : a[k] = b[k]
  PROVE  Chain(a) = Chain(b)
BY DEF ModuleOptions, Chain, Requested, Names

\* What a parse has as default is not redefined where no module declares it.
LEMMA DeclaredModules ==
  ASSUME NEW a, AllValid(a), \A k \in ModuleOptions : IsList(a[k])
  PROVE  /\ DOMAIN BaseDefaults \subseteq DOMAIN Declared(Chain(a))
         /\ \A k \in ModuleOptions : Declared(Chain(a))[k] = BaseDefaults[k]
<1> DEFINE R == Requested(a)
<1>1. \A kind \in {"Input", "Analysis", "Plot"} : R[kind] \in Seq(Range(R[kind])) /\ Range(R[kind]) \subseteq DOMAIN Kind
  <2> SUFFICES ASSUME NEW kind \in {"Input", "Analysis", "Plot"}
               PROVE  R[kind] \in Seq(Range(R[kind])) /\ Range(R[kind]) \subseteq DOMAIN Kind
    OBVIOUS
  <2>1. Range(R[kind]) \subseteq DOMAIN Kind
    BY DEF AllValid, Requested, IsValidProcessor
  <2>2. \E k \in ModuleOptions : R[kind] = Names(a, k)
    BY DEF Requested, ModuleOptions
  <2>3. \A k \in ModuleOptions : Names(a, k) \in Seq(Range(Names(a, k)))
    <3> SUFFICES ASSUME NEW k \in ModuleOptions PROVE Names(a, k) \in Seq(Range(Names(a, k)))
      OBVIOUS
    <3>1. CASE "list" \in DOMAIN a[k]
      BY <3>1 DEF Names, IsList
    <3>2. CASE "list" \notin DOMAIN a[k]
      <4>1. PICK x : Names(a, k) = <<x>>
        BY <3>2 DEF Names
      <4> QED BY <4>1, SingleIsPath DEF IsPath
    <3> QED BY <3>1, <3>2
  <2> QED BY <2>1, <2>2, <2>3
<1>2. \A kind \in {"Input", "Analysis", "Plot"} : R[kind] \in Seq(DOMAIN Kind)
  BY <1>1 DEF Range
<1> HIDE DEF R
<1>3. Chain(a) \in Seq(DOMAIN Kind)
  <2>1. Chain(a) = R["Input"] \o R["Analysis"] \o R["Plot"]
    BY DEF Chain, R
  <2> QED BY <2>1, <1>2
<1>4. \A k \in ModuleOptions : Declaring(Chain(a), k) = {}
  BY <1>3, DeclaresType DEF Declaring
<1>5. \A k \in DOMAIN BaseDefaults : k \in DOMAIN Declared(Chain(a)) /\ (Declaring(Chain(a), k) = {} => Declared(Chain(a))[k] = BaseDefaults[k])
  BY DEF Declared
<1> QED BY <1>4, <1>5, ModulesOfBase

\* Whether a module is given on the command line, in the JSON file or not at all,
\* both parses find the same.
LEMMA SameModules ==
  ASSUME cli \in CommandLines, json \in JsonFiles, AllValid(First)
  PROVE  /\ \A k \in ModuleOptions : k \in DOMAIN Final /\ Final[k] = First[k] /\ IsList(First[k])
         /\ "export_json" \in DOMAIN Final
<1> DEFINE base == Over(Restrict(cli, DOMAIN cli \cap DOMAIN BaseDefaults), BaseDefaults)
           changed == RestrictDomain(base, LAMBDA k : base[k] # BaseDefaults[k])
<1>1. First = Over(changed, Over(Json(json), base))
  BY DEF First, FirstArgs
<1>2. \A k \in ModuleOptions : /\ k \in DOMAIN base
                               /\ base[k] = IF k \in DOMAIN cli THEN cli[k] ELSE BaseDefaults[k]
  BY ModulesOfBase DEF Restrict, Over
<1>3. \A k \in ModuleOptions : k \in DOMAIN cli => cli[k] # BaseDefaults[k]
  BY CommandLineType, ModulesOfBase
<1>4. \A k \in ModuleOptions : (k \in DOMAIN changed <=> k \in DOMAIN cli) /\ (k \in DOMAIN cli => changed[k] = cli[k])
  BY <1>2, <1>3 DEF RestrictDomain, Restrict
<1> HIDE DEF changed, base
<1>5. \A k \in ModuleOptions :
        First[k] = IF k \in DOMAIN cli THEN cli[k] ELSE IF k \in DOMAIN Json(json) THEN Json(json)[k] ELSE BaseDefaults[k]
  BY <1>1, <1>2, <1>4 DEF Over
<1>6. \A k \in ModuleOptions : IsList(First[k])
  BY <1>5, CommandLineType, JsonFilesType, ModulesOfBase
<1>7. /\ DOMAIN BaseDefaults \subseteq DOMAIN Declared(Chain(First))
      /\ \A k \in ModuleOptions : Declared(Chain(First))[k] = BaseDefaults[k]
  BY <1>6, DeclaredModules
<1>8. Final = Over(cli, Over(Json(json), Declared(Chain(First))))
  BY DEF Final, FinalArgs, Defaults
<1>9. DOMAIN Final = DOMAIN cli \cup DOMAIN Json(json) \cup DOMAIN Declared(Chain(First))
  BY <1>8 DEF Over
<1>10. \A k \in ModuleOptions :
        Final[k] = IF k \in DOMAIN cli THEN cli[k] ELSE IF k \in DOMAIN Json(json) THEN Json(json)[k] ELSE BaseDefaults[k]
  BY <1>7, <1>8, ModulesOfBase DEF Over
<1> QED BY <1>5, <1>6, <1>7, <1>9, <1>10, ModulesOfBase

\* What the exported file gives back.
LEMMA ReadAgain ==
  ASSUME cli \in CommandLines, json \in JsonFiles, AllValid(First), DOMAIN cli \subseteq DOMAIN Declared(Chain(First))
  PROVE  /\ Chain(FirstArgs(NoOptions, <<ForExport>>)) = Chain(First)
         /\ Chain(First) = Chain(Final)
         /\ LET again == FinalArgs(NoOptions, Chain(First), <<ForExport>>)
            IN  \A k \in DOMAIN Final \ NotExported : k \in DOMAIN again /\ again[k] = Final[k]
<1> DEFINE decl == Declared(Chain(First))
           again == FinalArgs(NoOptions, Chain(First), <<ForExport>>)
<1>1. /\ \A k \in ModuleOptions : k \in DOMAIN Final /\ Final[k] = First[k] /\ IsList(First[k])
      /\ "export_json" \in DOMAIN Final
  BY SameModules
<1>2. /\ DOMAIN BaseDefaults \subseteq DOMAIN decl
      /\ \A k \in ModuleOptions : decl[k] = BaseDefaults[k]
  BY <1>1, DeclaredModules
<1>3. Final = Over(cli, Over(Json(json), decl)) /\ Defaults(Chain(First), json) = Over(Json(json), decl)
  BY DEF Final, FinalArgs, Defaults
<1>4. /\ DOMAIN ForExport = {k \in DOMAIN Final : k \notin NotExported /\ (Final[k] = Defaults(Chain(First), json)[k] => k \in DOMAIN Json(json))}
      /\ \A k \in DOMAIN ForExport : ForExport[k] = Final[k]
  BY DEF ForExport, ExportArgs, RestrictDomain, Restrict
<1> HIDE DEF decl
<1>5. \A k \in DOMAIN Final \ NotExported : k \notin DOMAIN ForExport => k \in DOMAIN decl /\ Final[k] = decl[k]
  <2> SUFFICES ASSUME NEW k \in DOMAIN Final \ NotExported, k \notin DOMAIN ForExport
               PROVE  k \in DOMAIN decl /\ Final[k] = decl[k]
    OBVIOUS
  <2>1. Final[k] = Over(Json(json), decl)[k] /\ k \notin DOMAIN Json(json)
    BY <1>3, <1>4
  <2>2. k \in DOMAIN decl
    BY <2>1, <1>3 DEF Over, decl
  <2> QED BY <2>1, <2>2 DEF Over
<1>6. Json(<<ForExport>>) = ForExport
  BY DEF Json
<1>7. \A k \in ModuleOptions : FirstArgs(NoOptions, <<ForExport>>)[k] = Final[k]
  <2> DEFINE base == Over(Restrict(NoOptions, DOMAIN NoOptions \cap DOMAIN BaseDefaults), BaseDefaults)
             changed == RestrictDomain(base, LAMBDA k : base[k] # BaseDefaults[k])
  <2>1. DOMAIN base = DOMAIN BaseDefaults /\ \A k \in DOMAIN BaseDefaults : base[k] = BaseDefaults[k]
    BY DEF NoOptions, Restrict, Over
  <2>2. DOMAIN changed = {}
    BY <2>1 DEF RestrictDomain, Restrict, Over
  <2>3. FirstArgs(NoOptions, <<ForExport>>) = Over(changed, Over(ForExport, base))
    BY <1>6 DEF FirstArgs
  <2> HIDE DEF base, changed
  <2> SUFFICES ASSUME NEW k \in ModuleOptions PROVE FirstArgs(NoOptions, <<ForExport>>)[k] = Final[k]
    OBVIOUS
  <2>4. k \in DOMAIN Final \ NotExported /\ k \in DOMAIN BaseDefaults
    BY <1>1, ModulesOfBase DEF ModuleOptions, NotExported
  <2>5. FirstArgs(NoOptions, <<ForExport>>)[k] = IF k \in DOMAIN ForExport THEN ForExport[k] ELSE BaseDefaults[k]
    BY <2>1, <2>2, <2>3, <2>4 DEF Over
  <2> QED BY <2>4, <2>5, <1>2, <1>4, <1>5
<1>8. Chain(FirstArgs(NoOptions, <<ForExport>>)) = Chain(Final)
  BY <1>7, SameChain
<1>9. Chain(First) = Chain(Final)
  BY <1>1, SameChain
<1>10. \A k \in DOMAIN Final \ NotExported : k \in DOMAIN again /\ again[k] = Final[k]
  <2>1. again = Over(NoOptions, Over(ForExport, decl))
    BY <1>6 DEF FinalArgs, Defaults, decl
  <2>2. DOMAIN NoOptions = {}
    BY DEF NoOptions
  <2> HIDE DEF again
  <2> QED BY <2>1, <2>2, <1>4, <1>5 DEF Over
<1> QED BY <1>8, <1>9, <1>10


LEMMA ReparseKeeps == ASSUME CoreInv, Reparse PROVE CoreInv'
<1>1. pc = "reparse" /\ cli \in CommandLines /\ json \in JsonFiles /\ UNCHANGED <<cli, json, processors, exported, remote, files>>
  BY DEF CoreInv, Reparse, Reached, setup, outputs
<1>2. processors = Chain(First) /\ AllValid(First) /\ exported = <<>> /\ remote = <<>> /\ files \in Seq(Range(files))
  BY <1>1 DEF CoreInv
<1>3. First' = First /\ Final' = Final /\ ForExport' = ForExport
  BY <1>1 DEF First, Final, ForExport
<1>4. CASE DOMAIN cli \subseteq DOMAIN Declared(processors)
  <2>1. pc' = "chain" /\ args' = Updated(Final) /\ toExport' = ForExport
    BY <1>2, <1>4 DEF Reparse, Final, ForExport
  <2>2. DOMAIN args' = DOMAIN Final /\ \A k \in DOMAIN Final \ {"export_json"} : args'[k] = Final[k]
    BY <2>1 DEF Updated
  <2> QED BY <1>1, <1>2, <1>3, <1>4, <2>1, <2>2 DEF CoreInv
<1>5. CASE ~(DOMAIN cli \subseteq DOMAIN Declared(processors))
  <2>1. UNCHANGED <<pc, args>>
    BY <1>5 DEF Reparse
  <2> QED BY <1>1, <1>2, <1>3, <2>1 DEF CoreInv
<1> QED BY <1>4, <1>5

LEMMA ChainKeeps == ASSUME CoreInv, Prepare \/ Run PROVE CoreInv'
<1>1. pc = "chain" /\ UNCHANGED <<cli, json, pc, processors, toExport, exported, remote>>
  BY DEF Prepare, Run, Reached, setup
<1>2. /\ cli \in CommandLines /\ json \in JsonFiles /\ processors = Chain(First) /\ AllValid(First)
      /\ DOMAIN cli \subseteq DOMAIN Declared(processors) /\ toExport = ForExport
      /\ DOMAIN args = DOMAIN Final /\ (\A k \in DOMAIN Final \ {"export_json"} : args[k] = Final[k])
      /\ exported = <<>> /\ remote = <<>> /\ files \in Seq(Range(files))
  BY <1>1 DEF CoreInv
<1>3. First' = First /\ Final' = Final /\ ForExport' = ForExport
  BY <1>1 DEF First, Final, ForExport
<1>4. /\ args' = args \/ \E x : args' = [args EXCEPT !["export_json"] = x]
      /\ files' = files \/ files' = <<"plot.root">> \/ files' = <<"plot.png">>
  <2>1. CASE Prepare
    <3>1. DEFINE m == processors[Len(done) + 1]
    <3>2. \/ files' = <<IF m = "ExportRoot" THEN "plot.root" ELSE "plot.png">>
             /\ args' = [args EXCEPT !["export_json"] = IF args["export_json"] = Str("default") THEN Str("plot.json") ELSE args["export_json"]]
          \/ UNCHANGED <<files, args>>
      BY <2>1, Zenon DEF Prepare
    <3> QED BY <3>2
  <2>2. CASE Run
    BY <2>2 DEF Run
  <2> QED BY <2>1, <2>2
<1>5. files' \in Seq(Range(files'))
  BY <1>2, <1>4, SingleIsPath DEF IsPath
<1>6. DOMAIN args' = DOMAIN Final /\ \A k \in DOMAIN Final \ {"export_json"} : args'[k] = Final[k]
  <2>1. CASE args' = args
    BY <2>1, <1>2
  <2>2. CASE args' # args
    <3>1. PICK x : args' = [args EXCEPT !["export_json"] = x]
      BY <2>2, <1>4
    <3> QED BY <3>1, <1>2
  <2> QED BY <2>1, <2>2
<1> QED BY <1>1, <1>2, <1>3, <1>5, <1>6 DEF CoreInv

LEMMA ExportKeeps == ASSUME CoreInv, Export PROVE CoreInv'
<1>1. pc = "chain" /\ pc' = "save" /\ done = processors /\ UNCHANGED <<cli, json, processors, done, toExport, remote, files>>
  BY DEF Export, Reached, setup
<1>2. /\ cli \in CommandLines /\ json \in JsonFiles /\ processors = Chain(First) /\ AllValid(First)
      /\ DOMAIN cli \subseteq DOMAIN Declared(processors) /\ toExport = ForExport
      /\ DOMAIN args = DOMAIN Final /\ (\A k \in DOMAIN Final \ {"export_json"} : args[k] = Final[k])
      /\ exported = <<>> /\ remote = <<>> /\ files \in Seq(Range(files))
  BY <1>1 DEF CoreInv
<1>3. First' = First /\ Final' = Final /\ ForExport' = ForExport
  BY <1>1 DEF First, Final, ForExport
<1>4. "export_json" \in DOMAIN args
  BY <1>2, SameModules
<1>5. /\ DOMAIN args' = DOMAIN Final /\ \A k \in DOMAIN Final \ {"export_json"} : args'[k] = Final[k]
      /\ \/ exported' = <<>> /\ args'["export_json"] = Str("None")
         \/ exported' = <<args'["export_json"].str, toExport'>>
  <2>1. CASE args["export_json"].str \in {"default", "False", "None"}
    <3>1. args' = [args EXCEPT !["export_json"] = Str("None")] /\ exported' = exported
      BY <2>1 DEF Export
    <3> QED BY <3>1, <1>2, <1>4
  <2>2. CASE args["export_json"].str \notin {"default", "False", "None"}
    <3>1. args' = args /\ exported' = <<args["export_json"].str, toExport>>
      BY <2>2 DEF Export
    <3> QED BY <3>1, <1>1, <1>2
  <2> QED BY <2>1, <2>2
<1> QED BY <1>1, <1>2, <1>3, <1>5 DEF CoreInv

LEMMA AtTheEnd ==
  ASSUME NEW T, NEW s \in Seq(T), NEW y \in T, NEW x \in T
  PROVE  x \in Range(s \o <<y, x>>)
<1>1. <<y, x>> \in Seq(T) /\ Len(<<y, x>>) = 2 /\ <<y, x>>[2] = x
  OBVIOUS
<1>2. DOMAIN (s \o <<y, x>>) = 1 .. Len(s) + 2 /\ (s \o <<y, x>>)[Len(s) + 2] = x
  BY <1>1
<1> QED BY <1>2 DEF Range

LEMMA SaveKeepsCore == ASSUME CoreInv, SavePlot PROVE CoreInv'
<1>1. pc = "save" /\ pc' = "end" /\ UNCHANGED <<cli, json, args, processors, done, toExport, exported>>
  BY DEF SavePlot, Reached, setup
<1>2. /\ cli \in CommandLines /\ json \in JsonFiles /\ processors = Chain(First) /\ AllValid(First)
      /\ DOMAIN cli \subseteq DOMAIN Declared(processors) /\ toExport = ForExport
      /\ DOMAIN args = DOMAIN Final /\ (\A k \in DOMAIN Final \ {"export_json"} : args[k] = Final[k])
      /\ done = processors /\ remote = <<>> /\ files \in Seq(Range(files))
  BY <1>1 DEF CoreInv
<1>3. \/ exported = <<>> /\ args["export_json"] = Str("None")
      \/ exported = <<args["export_json"].str, toExport>>
  BY <1>1 DEF CoreInv
<1>4. First' = First /\ Final' = Final /\ ForExport' = ForExport
  BY <1>1 DEF First, Final, ForExport
<1>5. ASSUME remote' # <<>> PROVE exported # <<>> /\ exported[1] \in Range(remote')
  <2> DEFINE x == args["export_json"].str
             tail == <<"index.html", x>>
             copied == files \o tail
  <2>1. remote' = copied /\ "None" \notin Range(copied)
    BY <1>2, <1>5 DEF SavePlot
  <2>2. x \in Range(copied)
    <3>1. files \in Seq(Range(files) \cup {"index.html", x})
      BY <1>2
    <3> HIDE DEF x
    <3> QED BY <3>1, AtTheEnd
  <2>3. x # "None"
    BY <2>1, <2>2
  <2>4. exported = <<x, toExport>>
    BY <1>3, <2>3 DEF Str
  <2> QED BY <2>1, <2>2, <2>4
<1> QED BY <1>1, <1>2, <1>3, <1>4, <1>5 DEF CoreInv

LEMMA NextKeepsCore == CoreInv /\ [CoreNext]_coreVars => CoreInv'
<1> SUFFICES ASSUME CoreInv, [CoreNext]_coreVars PROVE CoreInv'
  OBVIOUS
<1>1. CASE FirstParse
  <2>1. pc = "first" /\ pc' = "select" /\ args' = First /\ UNCHANGED <<cli, json, exported, remote, files>>
    BY <1>1 DEF FirstParse, Reached, setup, outputs, First
  <2>2. First' = First
    BY <2>1 DEF First
  <2> QED BY <2>1, <2>2 DEF CoreInv
<1>2. CASE Select
  <2>1. pc = "select" /\ UNCHANGED <<cli, json, args, exported, remote, files>>
    BY <1>2 DEF Select, Reached, setup, outputs
  <2>2. pc' = pc \/ (pc' = "reparse" /\ processors' = Chain(args) /\ AllValid(args))
    BY <1>2 DEF Select
  <2>3. First' = First /\ (AllValid(First) => AllValid(First)')
    BY <2>1 DEF First, AllValid
  <2> QED BY <2>1, <2>2, <2>3 DEF CoreInv
<1>3. CASE Reparse
  BY <1>3, ReparseKeeps
<1>4. CASE Prepare \/ Run
  BY <1>4, ChainKeeps
<1>5. CASE Export
  BY <1>5, ExportKeeps
<1>6. CASE SavePlot
  BY <1>6, SaveKeepsCore
<1>7. CASE UNCHANGED coreVars
  <2>1. First' = First /\ Final' = Final /\ ForExport' = ForExport
    BY <1>7 DEF coreVars, First, Final, ForExport
  <2> QED BY <1>7, <2>1 DEF coreVars, CoreInv
<1> QED BY <1>1, <1>2, <1>3, <1>4, <1>5, <1>6, <1>7 DEF CoreNext

\* The JSON file that a call of harry.py exports makes the same plot again, with the same
\* modules and the same arguments but those that are never exported; the modules that run
\* are those that the final arguments name; and a plot is published only when all of them
\* have run, with the file that it was exported to (core.py: HarryCore.run, plotdata.py: save).
THEOREM ExportsReproduce == CoreSpec => []ExportReproduces
<1>1. CoreInit => CoreInv
  BY DEF CoreInit, CoreInv
<1>2. CoreInv => ExportReproduces
  <2> SUFFICES ASSUME CoreInv PROVE ExportReproduces
    OBVIOUS
  <2>1. ASSUME pc \in {"chain", "save", "end"}
        PROVE  /\ Chain(FirstArgs(NoOptions, <<ForExport>>)) = processors
               /\ processors = Chain(Final) /\ Chain(Final) = Chain(args)
               /\ LET again == FinalArgs(NoOptions, processors, <<ForExport>>)
                  IN  \A k \in DOMAIN args \ NotExported : k \in DOMAIN again /\ again[k] = args[k]
    <3>1. /\ cli \in CommandLines /\ json \in JsonFiles /\ processors = Chain(First) /\ AllValid(First)
          /\ DOMAIN cli \subseteq DOMAIN Declared(processors)
          /\ DOMAIN args = DOMAIN Final /\ (\A k \in DOMAIN Final \ {"export_json"} : args[k] = Final[k])
      BY <2>1 DEF CoreInv
    <3>2. Chain(Final) = Chain(args)
      <4>1. \A k \in ModuleOptions : k \in DOMAIN Final \ {"export_json"}
        BY <3>1, SameModules DEF ModuleOptions
      <4> QED BY <4>1, <3>1, SameChain
    <3> HIDE DEF First
    <3>3. "export_json" \in NotExported
      BY DEF NotExported
    <3> QED BY <3>1, <3>2, <3>3, ReadAgain, Zenon
  <2>2. ExportIsThePlot
    <3> SUFFICES ASSUME pc \in {"save", "end"}, exported # <<>>
                 PROVE  /\ Chain(FirstArgs(NoOptions, <<exported[2]>>)) = processors
                        /\ \A k \in DOMAIN args \ NotExported : k \in DOMAIN Again /\ Again[k] = args[k]
      BY DEF ExportIsThePlot
    <3>1. exported[2] = ForExport
      BY DEF CoreInv
    <3>2. Again = FinalArgs(NoOptions, processors, <<ForExport>>)
      BY <3>1, <2>1 DEF Again
    <3> QED BY <3>1, <3>2, <2>1
  <2>3. ChainAsParsed
    BY <2>1 DEF ChainAsParsed, CoreInv
  <2> QED BY <2>2, <2>3 DEF ExportReproduces
<1> QED BY <1>1, <1>2, NextKeepsCore, PTL DEF CoreSpec

-----------------------------------------------------------------------------
(* Why the results of HenryPlotter are complete: the holder has references *)
(* into the heap only, and what it holds after a production has a result   *)
(* that is in the file or among the branches that will be.                 *)
IsSeq(s) == s \in Seq(Range(s))
IsObject(o) == IsSetting(o) /\ \E s \in Asked : o.cuts = s.cuts
HasEntry(r) == \E entry \in written \cup branches : entry.result = heap[r].result

HolderTypeOK ==
  /\ IsSeq(heap) /\ \A r \in DOMAIN heap : IsObject(heap[r])
  /\ root_objects \in Seq(DOMAIN heap)
  /\ produced \in BOOLEAN /\ existed \in BOOLEAN

HolderInv ==
  /\ HolderTypeOK
  /\ ~produced => output_file = "none"
  /\ produced => output_file \in {IF existed THEN "zombie" ELSE "open", "closed"}
  /\ produced /\ error = "none" => \A i \in DOMAIN root_objects :
       heap[root_objects[i]].result # NotYet /\ (~existed => HasEntry(root_objects[i]))
  /\ output_file = "closed" /\ ~existed => branches \subseteq filled

LEMMA Least == ASSUME NEW S \in SUBSET Nat, S # {} PROVE \E p \in S : \A q \in S : p <= q
<1>1. PICK p \in S : \A q \in S : ~(<<q, p>> \in OpToRel(<, Nat))
  BY NatLessThanWellFounded, WFMin
<1>2. \A q \in S : ~(q < p)
  BY <1>1 DEF OpToRel
<1> QED BY <1>2

\* Two sequences put one behind the other.
IsJoined(u, s, t) ==
  /\ IsSeq(u) /\ Len(s) \in Nat /\ Len(t) \in Nat
  /\ DOMAIN s = 1 .. Len(s) /\ DOMAIN t = 1 .. Len(t) /\ DOMAIN u = 1 .. Len(s) + Len(t)
  /\ \A i \in DOMAIN s : u[i] = s[i]
  /\ \A i \in DOMAIN t : u[Len(s) + i] = t[i]
LEMMA Joined == ASSUME NEW s, IsSeq(s), NEW t, IsSeq(t) PROVE IsJoined(s \o t, s, t)
<1> DEFINE S == Range(s) \cup Range(t)
<1>1. s \in Seq(S) /\ t \in Seq(S)
  BY DEF IsSeq
<1> HIDE DEF S
<1>2. /\ s \o t \in Seq(S) /\ Len(s) \in Nat /\ Len(t) \in Nat
      /\ DOMAIN s = 1 .. Len(s) /\ DOMAIN t = 1 .. Len(t)
      /\ DOMAIN (s \o t) = 1 .. Len(s) + Len(t)
      /\ \A i \in 1 .. Len(s) : (s \o t)[i] = s[i]
      /\ \A i \in 1 .. Len(t) : (s \o t)[Len(s) + i] = t[i]
  BY <1>1
<1>3. IsSeq(s \o t)
  <2> DEFINE u == s \o t
  <2>1. u \in Seq(S)
    BY <1>2
  <2> HIDE DEF u
  <2>2. IsSeq(u)
    BY <2>1, SeqOfRange DEF IsSeq
  <2> QED BY <2>2 DEF u
<1> QED BY <1>2, <1>3 DEF IsJoined

LEMMA FunctionIsSeq ==
  ASSUME NEW s, IsSeq(s), NEW f, f = [i \in DOMAIN s |-> f[i]]
  PROVE  IsSeq(f) /\ DOMAIN f = DOMAIN s /\ Len(f) = Len(s)
<1>1. Len(s) \in Nat /\ DOMAIN s = 1 .. Len(s)
  BY DEF IsSeq
<1>2. f \in [1 .. Len(s) -> Range(f)]
  BY <1>1 DEF Range
<1>3. f \in Seq(Range(f))
  BY <1>1, <1>2, SeqDef
<1> QED BY <1>1, <1>2, <1>3 DEF IsSeq

-----------------------------------------------------------------------------
\* What an object becomes.
LEMMA SettingResult ==
  ASSUME NEW o, IsObject(o), NEW v, NEW n, n = [o EXCEPT !.result = v]
  PROVE  /\ IsObject(n) /\ n.result = v
         /\ \A f \in Attributes \ {"result"} : n[f] = o[f]
         /\ n.name = o.name /\ n.kind = o.kind /\ n.inputfiles = o.inputfiles /\ n.folder = o.folder /\ n.cuts = o.cuts
<1>1. DOMAIN n = DOMAIN o /\ \A f \in DOMAIN o : n[f] = IF f = "result" THEN v ELSE o[f]
  OBVIOUS
<1>2. {"kind", "name", "inputfiles", "cuts", "folder", "result"} \subseteq DOMAIN o /\ Attributes \subseteq DOMAIN o
  BY DEF IsObject, IsSetting, Attributes
<1>3. n.result = v /\ n.name = o.name /\ n.kind = o.kind /\ n.inputfiles = o.inputfiles /\ n.folder = o.folder /\ n.cuts = o.cuts
  BY <1>1, <1>2
<1> QED BY <1>1, <1>2, <1>3 DEF IsObject, IsSetting

\* A result is not False, whatever it is.
LEMMA IsResult ==
  /\ \A n, b : Drawn(n, b) # NotYet /\ Drawn(n, b).entries = n
  /\ \A n : Number(n) # NotYet /\ Number(n).entries = n
BY DEF Drawn, Number, NotYet

LEMMA ClassicResult ==
  ASSUME NEW o, IsObject(o), ~CreateFails(o), ~SaveFails(WithResult(o))
  PROVE  /\ IsObject(WithResult(o)) /\ WithResult(o).name = o.name /\ WithResult(o).kind = o.kind
         /\ WithResult(o).result # NotYet /\ WithResult(o).result.entries = Total(WithResult(o))
<1> DEFINE chain == InputChain(o.inputfiles, o.folder)
<1>1. /\ IsObject(WithResult(o)) /\ WithResult(o).result = create_result(o)
      /\ WithResult(o).name = o.name /\ WithResult(o).kind = o.kind
      /\ WithResult(o).inputfiles = o.inputfiles /\ WithResult(o).folder = o.folder /\ WithResult(o).cuts = o.cuts
  <2>1. WithResult(o) = [o EXCEPT !.result = create_result(o)]
    BY DEF WithResult
  <2> QED BY <2>1, SettingResult
<1>2. create_result(o) # NoHistogram
  BY <1>1 DEF SaveFails
<1>3. chain # {}
  BY <1>2 DEF create_result, Draw
<1>4. create_result(o) # NotYet /\ create_result(o).entries = SumOver(o, chain)
  <2>1. create_result(o) = IF o.kind = "Histogram" THEN Drawn(SumOver(o, chain), Bins(extract(o.binning))) ELSE Number(SumOver(o, chain))
    BY <1>3 DEF create_result, Draw
  <2> HIDE DEF chain
  <2> QED BY <2>1, IsResult
<1>5. SumOver(o, chain) = Total(o)
  <2>1. [i \in DOMAIN o.inputfiles |-> IF i \in chain THEN Selected(o, i) ELSE 0]
          = [i \in DOMAIN o.inputfiles |-> IF <<o.inputfiles[i], o.folder>> \in DOMAIN Entries THEN Selected(o, i) ELSE 0]
    BY DEF InputChain
  <2> QED BY <2>1 DEF SumOver, Total
<1>6. Total(WithResult(o)) = Total(o)
  BY <1>1 DEF Total, Selected
<1> QED BY <1>1, <1>4, <1>5, <1>6

\* The sum over one file.
LEMMA SumOfOne == ASSUME NEW n \in Nat PROVE Sum([i \in {1} |-> n]) = n
<1> DEFINE f == [i \in {1} |-> n]
           S == {1}
           Is(g) == g = [s \in SUBSET S |-> IF s = {} THEN 0 ELSE LET x == CHOOSE x \in s : TRUE IN f[x] + g[s \ {x}]]
           h == [s \in SUBSET S |-> IF s = {} THEN 0 ELSE n]
<1>1. SUBSET S = {{}, {1}}
  OBVIOUS
<1>2. Is(h)
  <2>1. (CHOOSE x \in {1} : TRUE) = 1
    OBVIOUS
  <2>2. ASSUME NEW s \in SUBSET S
        PROVE  h[s] = IF s = {} THEN 0 ELSE LET x == CHOOSE x \in s : TRUE IN f[x] + h[s \ {x}]
    <3>1. CASE s = {}
      BY <3>1
    <3>2. CASE s = {1}
      <4>1. h[s] = n /\ s \ {1} = {} /\ h[{}] = 0 /\ f[1] = n
        BY <3>2
      <4> QED BY <3>2, <4>1, <2>1
    <3> QED BY <1>1, <3>1, <3>2
  <2> QED BY <2>2
<1>3. Sum(f) = (CHOOSE g : Is(g))[S]
  BY DEF Sum, FoldFunction, FoldFunctionOnSet, MapThenFoldSet
<1>4. PICK g : Is(g) /\ Sum(f) = g[S]
  BY <1>2, <1>3
<1>5. g[{1}] = f[1] + g[{}] /\ g[{}] = 0
  <2>1. {1} \in SUBSET S /\ {} \in SUBSET S /\ (CHOOSE x \in {1} : TRUE) = 1 /\ {1} \ {1} = {} /\ {1} # {}
    OBVIOUS
  <2>2. \A s \in SUBSET S : g[s] = IF s = {} THEN 0 ELSE f[CHOOSE x \in s : TRUE] + g[s \ {CHOOSE x \in s : TRUE}]
    BY <1>4
  <2>3. g[{}] = 0
    BY <2>1, <2>2
  <2>4. g[{1}] = f[CHOOSE x \in {1} : TRUE] + g[{1} \ {CHOOSE x \in {1} : TRUE}]
    BY <2>1, <2>2
  <2> QED BY <2>1, <2>3, <2>4
<1> QED BY <1>4, <1>5

-----------------------------------------------------------------------------
\* The first of those that fail.
LEMMA NoneIsFirst ==
  ASSUME NEW I \in SUBSET (Nat \ {0}), I # {}
  PROVE  Min(I) # 0
<1>1. PICK p \in I : \A q \in I : p <= q
  BY Least
<1>2. Min(I) \in I
  BY <1>1 DEF Min
<1> QED BY <1>2

LEMMA NothingFails ==
  ASSUME NEW s, IsSeq(s)
  PROVE  /\ SelectInSeq(s, CreateFails) = 0 => \A i \in DOMAIN s : ~CreateFails(s[i])
         /\ SelectInSeq(s, SaveFails) = 0 => \A i \in DOMAIN s : ~SaveFails(s[i])
<1>0. DOMAIN s = 1 .. Len(s) /\ Len(s) \in Nat
  BY DEF IsSeq
<1>1. ASSUME SelectInSeq(s, CreateFails) = 0 PROVE \A i \in DOMAIN s : ~CreateFails(s[i])
  <2> DEFINE I == {i \in 1 .. Len(s) : CreateFails(s[i])}
  <2>1. I \in SUBSET (Nat \ {0})
    BY <1>0
  <2>2. (IF I # {} THEN Min(I) ELSE 0) = 0
    BY <1>1 DEF SelectInSeq
  <2>3. I = {}
    <3> HIDE DEF I
    <3> QED BY <2>1, <2>2, NoneIsFirst
  <2> QED BY <2>3, <1>0
<1>2. ASSUME SelectInSeq(s, SaveFails) = 0 PROVE \A i \in DOMAIN s : ~SaveFails(s[i])
  <2> DEFINE I == {i \in 1 .. Len(s) : SaveFails(s[i])}
  <2>1. I \in SUBSET (Nat \ {0})
    BY <1>0
  <2>2. (IF I # {} THEN Min(I) ELSE 0) = 0
    BY <1>2 DEF SelectInSeq
  <2>3. I = {}
    <3> HIDE DEF I
    <3> QED BY <2>1, <2>2, NoneIsFirst
  <2> QED BY <2>3, <1>0
<1> QED BY <1>1, <1>2

\* What is held, as a sequence.
LEMMA HeldIsSeq ==
  ASSUME HolderTypeOK
  PROVE  /\ IsSeq(root_objects) /\ IsSeq(Held) /\ DOMAIN Held = DOMAIN root_objects /\ Len(Held) = Len(root_objects)
         /\ IsSeq(Copies) /\ DOMAIN Copies = DOMAIN root_objects /\ Len(Copies) = Len(root_objects)
         /\ DOMAIN root_objects = 1 .. Len(root_objects) /\ Len(root_objects) \in Nat
         /\ \A i \in DOMAIN root_objects : root_objects[i] \in DOMAIN heap /\ Held[i] = heap[root_objects[i]] /\ IsObject(Held[i])
<1>1. root_objects \in Seq(DOMAIN heap)
  BY DEF HolderTypeOK
<1>2. IsSeq(root_objects)
  BY <1>1, SeqOfRange DEF IsSeq
<1>3. Held = [i \in DOMAIN root_objects |-> Held[i]] /\ Copies = [i \in DOMAIN root_objects |-> Copies[i]]
  BY DEF Held, Copies
<1>4. IsSeq(Held) /\ DOMAIN Held = DOMAIN root_objects /\ Len(Held) = Len(root_objects)
  BY <1>2, <1>3, FunctionIsSeq
<1>5. IsSeq(Copies) /\ DOMAIN Copies = DOMAIN root_objects /\ Len(Copies) = Len(root_objects)
  BY <1>2, <1>3, FunctionIsSeq
<1>6. DOMAIN root_objects = 1 .. Len(root_objects) /\ Len(root_objects) \in Nat
      /\ \A i \in DOMAIN root_objects : root_objects[i] \in DOMAIN heap
  BY <1>1
<1> QED BY <1>2, <1>4, <1>5, <1>6 DEF Held, HolderTypeOK

\* What is written of results of which none fails.
LEMMA AllWritten ==
  ASSUME HolderTypeOK, NEW drawings, IsSeq(drawings), WriteResults(drawings, 0), ~existed => output_file' = "open"
  PROVE  \A i \in DOMAIN drawings : drawings[i].kind \in {"Histogram", "Count"} /\ ~existed =>
           \E entry \in written' \cup branches' : entry.result = drawings[i].result
<1> SUFFICES ASSUME NEW i \in DOMAIN drawings, drawings[i].kind \in {"Histogram", "Count"}, ~existed
             PROVE  \E entry \in written' \cup branches' : entry.result = drawings[i].result
  OBVIOUS
<1> DEFINE o == drawings[i]
           entry == [name |-> o.name, result |-> o.result]
           saved == {drawings[j] : j \in 1 .. Len(drawings)}
<1>1. written' = written \cup Keys(saved) /\ branches' = branches \cup NewBranches(saved)
  BY DEF WriteResults
<1>2. o \in saved
  BY DEF IsSeq
<1>3. entry.result = o.result
  OBVIOUS
<1> HIDE DEF saved
<1>4. CASE o.kind = "Histogram"
  <2>1. entry \in Keys(saved)
    BY <1>2, <1>4 DEF Keys
  <2> QED BY <2>1, <1>1, <1>3
<1>5. CASE o.kind = "Count"
  <2>1. entry \in NewBranches(saved)
    BY <1>2, <1>5 DEF NewBranches
  <2> QED BY <2>1, <1>1, <1>3
<1> QED BY <1>4, <1>5

LEMMA ResultIsObject == ASSUME NEW o, IsObject(o) PROVE IsObject(WithResult(o))
<1>1. WithResult(o) = [o EXCEPT !.result = create_result(o)]
  BY DEF WithResult
<1> QED BY <1>1, SettingResult

\* A production in place: an object that is held has a new result, each stays an object.
LEMMA ResultsInPlace ==
  ASSUME HolderTypeOK, NEW upto \in Int, NEW f,
         f = InPlace(upto)
  PROVE  /\ IsSeq(f) /\ DOMAIN f = DOMAIN heap /\ \A r \in DOMAIN f : IsObject(f[r])
         /\ \A i \in 1 .. upto : i \in DOMAIN root_objects => f[root_objects[i]] = WithResult(Held[i])
<1>1. f = [r \in DOMAIN heap |-> IF \E i \in 1 .. upto : root_objects[i] = r THEN WithResult(heap[r]) ELSE heap[r]]
  BY DEF InPlace
<1>2. IsSeq(f) /\ DOMAIN f = DOMAIN heap
  <2>1. f = [r \in DOMAIN heap |-> f[r]]
    BY <1>1
  <2> QED BY <2>1, FunctionIsSeq DEF HolderTypeOK
<1>3. ASSUME NEW r \in DOMAIN f PROVE IsObject(f[r])
  <2>1. IsObject(heap[r])
    BY <1>2 DEF HolderTypeOK
  <2>3. IsObject(WithResult(heap[r]))
    BY <2>1, ResultIsObject
  <2> QED BY <1>1, <1>2, <2>1, <2>3
<1>4. ASSUME NEW i \in 1 .. upto, i \in DOMAIN root_objects PROVE f[root_objects[i]] = WithResult(Held[i])
  <2>1. root_objects[i] \in DOMAIN heap /\ Held[i] = heap[root_objects[i]]
    BY <1>4, HeldIsSeq
  <2> QED BY <1>1, <2>1
<1> QED BY <1>2, <1>3, <1>4

\* A production by a pool: copies behind the objects.
LEMMA ResultsAsCopies ==
  ASSUME HolderTypeOK, NEW f, f = heap \o Copies
  PROVE  /\ IsSeq(f) /\ \A r \in DOMAIN f : IsObject(f[r])
         /\ [i \in DOMAIN root_objects |-> Len(heap) + i] \in Seq(DOMAIN f)
         /\ \A i \in DOMAIN root_objects : f[Len(heap) + i] = WithResult(Held[i])
<1>1. /\ IsSeq(heap) /\ IsSeq(Copies) /\ DOMAIN Copies = DOMAIN root_objects
      /\ DOMAIN root_objects = 1 .. Len(root_objects) /\ Len(root_objects) \in Nat /\ Len(Copies) = Len(root_objects)
  BY HeldIsSeq DEF HolderTypeOK
<1>2. /\ IsSeq(f) /\ Len(heap) \in Nat /\ DOMAIN heap = 1 .. Len(heap)
      /\ DOMAIN f = 1 .. Len(heap) + Len(root_objects)
      /\ \A i \in DOMAIN heap : f[i] = heap[i]
      /\ \A i \in DOMAIN root_objects : f[Len(heap) + i] = Copies[i]
  <2> DEFINE c == Copies
  <2>1. IsSeq(c) /\ DOMAIN c = DOMAIN root_objects /\ Len(c) = Len(root_objects) /\ f = heap \o c
    BY <1>1
  <2> HIDE DEF c
  <2>2. IsJoined(heap \o c, heap, c)
    BY <1>1, <2>1, Joined
  <2>3. IsJoined(f, heap, c)
    BY <2>1, <2>2
  <2>4. /\ IsSeq(f) /\ Len(heap) \in Nat /\ DOMAIN heap = 1 .. Len(heap)
        /\ DOMAIN f = 1 .. Len(heap) + Len(root_objects)
        /\ \A i \in DOMAIN heap : f[i] = heap[i]
        /\ \A i \in DOMAIN root_objects : f[Len(heap) + i] = c[i]
    BY <2>1, <2>3 DEF IsJoined
  <2> QED BY <2>4 DEF c
<1>3. \A i \in DOMAIN root_objects : Copies[i] = WithResult(Held[i]) /\ IsObject(Copies[i])
  <2> SUFFICES ASSUME NEW i \in DOMAIN root_objects PROVE Copies[i] = WithResult(Held[i]) /\ IsObject(Copies[i])
    OBVIOUS
  <2>1. Copies[i] = WithResult(Held[i]) /\ IsObject(Held[i])
    BY HeldIsSeq DEF Copies
  <2>3. IsObject(WithResult(Held[i]))
    BY <2>1, ResultIsObject
  <2> QED BY <2>1, <2>3
<1>4. ASSUME NEW r \in DOMAIN f PROVE IsObject(f[r])
  <2>1. CASE r \in DOMAIN heap
    BY <2>1, <1>2 DEF HolderTypeOK
  <2>2. CASE r \notin DOMAIN heap
    <3>1. r - Len(heap) \in DOMAIN root_objects /\ r = Len(heap) + (r - Len(heap))
      BY <2>2, <1>1, <1>2
    <3>2. f[Len(heap) + (r - Len(heap))] = Copies[r - Len(heap)]
      BY <3>1, <1>2
    <3> QED BY <3>1, <3>2, <1>3
  <2> QED BY <2>1, <2>2
<1>5. [i \in DOMAIN root_objects |-> Len(heap) + i] \in Seq(DOMAIN f)
  <2>1. [i \in DOMAIN root_objects |-> Len(heap) + i] \in [1 .. Len(root_objects) -> DOMAIN f]
    BY <1>1, <1>2
  <2> QED BY <2>1, <1>1, SeqDef
<1> QED BY <1>2, <1>3, <1>4, <1>5

-----------------------------------------------------------------------------
\* The step of each action.
LEMMA NewIsObject == ASSUME NEW s, IsObject(s) PROVE IsObject(NewObject(s))
<1>1. NewObject(s) = [s EXCEPT !.result = NotYet]
  BY DEF NewObject
<1> QED BY <1>1, SettingResult

LEMMA AddKeeps ==
  ASSUME HolderInv, NEW new \in Seq(Asked), AddAll(new), UNCHANGED fileVars
  PROVE  HolderInv' /\ produced' = produced
<1>1. CASE error' # "none"
  <2>1. UNCHANGED <<heap, root_objects, produced, written, branches, output_file, filled, existed>>
    BY <1>1 DEF AddAll, holderVars, fileVars
  <2> QED BY <1>1, <2>1 DEF HolderInv, HolderTypeOK
<1>2. CASE error' = "none"
  <2> DEFINE more == [i \in DOMAIN new |-> NewObject(new[i])]
             refs == [i \in DOMAIN new |-> Len(heap) + i]
  <2>1. /\ heap' = heap \o more /\ root_objects' = root_objects \o refs
        /\ UNCHANGED <<produced, written, branches, output_file, filled, existed>> /\ ~produced
    BY <1>2 DEF AddAll, AddError, fileVars
  <2>2. IsSeq(new)
    BY SeqOfRange DEF IsSeq
  <2>3. IsSeq(more) /\ DOMAIN more = DOMAIN new /\ Len(more) = Len(new)
    <3>1. more = [i \in DOMAIN new |-> more[i]]
      OBVIOUS
    <3> HIDE DEF more
    <3> QED BY <2>2, <3>1, FunctionIsSeq
  <2>4. \A i \in DOMAIN new : IsObject(more[i])
    <3> SUFFICES ASSUME NEW i \in DOMAIN new PROVE IsObject(more[i])
      OBVIOUS
    <3>1. IsObject(new[i])
      <4>1. new[i] \in Asked
        OBVIOUS
      <4> QED BY <4>1, SettingsType DEF IsObject
    <3> QED BY <3>1, NewIsObject
  <2> HIDE DEF more
  <2>5. IsSeq(heap) /\ root_objects \in Seq(DOMAIN heap) /\ \A r \in DOMAIN heap : IsObject(heap[r])
    BY DEF HolderInv, HolderTypeOK
  <2>6. /\ IsSeq(heap \o more) /\ Len(heap) \in Nat /\ Len(new) \in Nat
        /\ DOMAIN heap = 1 .. Len(heap) /\ DOMAIN new = 1 .. Len(new)
        /\ DOMAIN (heap \o more) = 1 .. Len(heap) + Len(new)
        /\ \A i \in DOMAIN heap : (heap \o more)[i] = heap[i]
        /\ \A i \in DOMAIN new : (heap \o more)[Len(heap) + i] = more[i]
    <3>1. IsJoined(heap \o more, heap, more)
      BY <2>3, <2>5, Joined
    <3> QED BY <3>1, <2>3 DEF IsJoined
  <2>7. ASSUME NEW r \in DOMAIN (heap \o more) PROVE IsObject((heap \o more)[r])
    <3>1. CASE r \in DOMAIN heap
      BY <3>1, <2>5, <2>6
    <3>2. CASE r \notin DOMAIN heap
      <4>1. r - Len(heap) \in DOMAIN new /\ r = Len(heap) + (r - Len(heap))
        BY <2>6, <3>2
      <4>2. (heap \o more)[Len(heap) + (r - Len(heap))] = more[r - Len(heap)]
        BY <4>1, <2>6
      <4> QED BY <4>1, <4>2, <2>4
    <3> QED BY <3>1, <3>2
  <2>8. root_objects \o refs \in Seq(DOMAIN (heap \o more))
    <3>1. refs \in [1 .. Len(new) -> 1 .. Len(heap) + Len(new)]
      BY <2>6
    <3>2. refs \in Seq(1 .. Len(heap) + Len(new))
      BY <3>1, <2>6, SeqDef
    <3>3. root_objects \in Seq(1 .. Len(heap) + Len(new))
      <4>1. DOMAIN heap \subseteq 1 .. Len(heap) + Len(new)
        BY <2>6
      <4> QED BY <4>1, <2>5, SeqMonotonic
    <3> HIDE DEF refs
    <3> QED BY <2>6, <3>2, <3>3
  <2>9. HolderTypeOK'
    BY <2>1, <2>6, <2>7, <2>8 DEF HolderInv, HolderTypeOK
  <2> QED BY <2>1, <2>9 DEF HolderInv
<1> QED BY <1>1, <1>2

LEMMA NewKeeps == ASSUME HolderInv, New \/ AddList PROVE HolderInv' /\ produced' = produced
<1>1. CASE New
  <2>1. PICK s \in Settings : IF Refused(s) THEN error' = "Exception" /\ UNCHANGED holderVars ELSE AddAll(<<s>>)
    BY <1>1 DEF New
  <2>2. UNCHANGED fileVars
    BY <1>1 DEF New
  <2>3. CASE Refused(s)
    <3>1. error' # "none" /\ UNCHANGED <<heap, root_objects, produced, written, branches, output_file, filled, existed>>
      BY <2>1, <2>2, <2>3 DEF holderVars, fileVars
    <3> QED BY <3>1 DEF HolderInv, HolderTypeOK
  <2>4. CASE ~Refused(s)
    <3>1. <<s>> \in Seq(Asked) /\ AddAll(<<s>>)
      BY <2>1, <2>4 DEF Asked
    <3> QED BY <3>1, <2>2, AddKeeps
  <2> QED BY <2>3, <2>4
<1>2. CASE AddList
  <2>1. PICK list \in Lists : AddAll(list)
    BY <1>2 DEF AddList
  <2>2. list \in Seq(Asked) /\ UNCHANGED fileVars
    BY <1>2, SettingsType DEF AddList
  <2> QED BY <2>1, <2>2, AddKeeps
<1> QED BY <1>1, <1>2

\* Of the places of the holder, those that are kept are put in some order.
LEMMA OrderOfKept ==
  ASSUME HolderTypeOK, NEW order \in SetToSeqs(Kept)
  PROVE  /\ Kept \subseteq DOMAIN root_objects
         /\ order \in Seq(Kept)
         /\ \A k \in Kept : \E j \in DOMAIN order : order[j] = k
         /\ \A i, j \in DOMAIN order : order[i] = order[j] => i = j
<1>1. Kept \subseteq 1 .. Len(root_objects) /\ Kept \subseteq DOMAIN root_objects /\ Len(root_objects) \in Nat
  BY HeldIsSeq DEF Kept
<1>2. IsFiniteSet(Kept) /\ Cardinality(Kept) \in Nat
  <2>1. IsFiniteSet(1 .. Len(root_objects))
    BY <1>1, FS_Interval
  <2>2. IsFiniteSet(Kept)
    BY <1>1, <2>1, FS_Subset
  <2> QED BY <2>2, FS_CardinalityType
<1> DEFINE n == Cardinality(Kept)
<1>3. order \in [1 .. n -> Kept] /\ \A i, j \in 1 .. n : i # j => order[i] # order[j]
  BY DEF SetToSeqs
<1>4. order \in Injection(1 .. n, Kept)
  BY <1>3 DEF Injection, IsInjective
<1>5. Cardinality(1 .. n) = n
  BY <1>2, FS_Interval
<1>6. order \in Surjection(1 .. n, Kept)
  BY <1>2, <1>4, <1>5, FS_Injection
<1>7. \A k \in Kept : \E j \in 1 .. n : order[j] = k
  BY <1>6 DEF Surjection
<1>8. order \in Seq(Kept) /\ DOMAIN order = 1 .. n
  BY <1>2, <1>3, SeqDef
<1> QED BY <1>1, <1>3, <1>7, <1>8

\* Each object has the hash of one that is kept.
LEMMA KeptOne ==
  ASSUME HolderTypeOK, NEW i \in DOMAIN root_objects
  PROVE  \E k \in Kept : HashOf(Held[k]) = HashOf(Held[i])
<1> DEFINE S == {k \in DOMAIN root_objects : HashOf(Held[k]) = HashOf(Held[i])}
<1>1. S \in SUBSET Nat /\ S # {}
  BY HeldIsSeq
<1>2. PICK k \in S : \A m \in S : k <= m
  <2> HIDE DEF S
  <2> QED BY <1>1, Least
<1>3. ASSUME NEW j \in 1 .. k - 1 PROVE HashOf(Held[j]) # HashOf(Held[k])
  <2>1. DOMAIN root_objects = 1 .. Len(root_objects) /\ Len(root_objects) \in Nat
    BY HeldIsSeq
  <2>2. j \in DOMAIN root_objects /\ ~(k <= j)
    BY <2>1
  <2>3. j \notin S
    BY <1>2, <2>2
  <2> QED BY <2>2, <2>3
<1>4. k \in Kept
  BY <1>3 DEF Kept
<1> QED BY <1>4

LEMMA DuplicatesKeep == ASSUME HolderInv, RemoveDuplicates PROVE HolderInv' /\ OneOfEach /\ produced' = produced
<1>1. HolderTypeOK /\ error = "none" /\ UNCHANGED <<heap, produced, written, branches, output_file, filled, existed>>
  BY DEF HolderInv, RemoveDuplicates, Call, fileVars
<1>2. CASE error' # "none"
  <2>1. root_objects' = root_objects
    BY <1>2 DEF RemoveDuplicates
  <2> QED BY <1>1, <1>2, <2>1 DEF HolderInv, HolderTypeOK, OneOfEach
<1>3. CASE error' = "none"
  <2>1. PICK order \in SetToSeqs(Kept) : root_objects' = [k \in DOMAIN order |-> root_objects[order[k]]]
    BY <1>3 DEF RemoveDuplicates
  <2>2. /\ Kept \subseteq DOMAIN root_objects /\ order \in Seq(Kept)
        /\ \A k \in Kept : \E j \in DOMAIN order : order[j] = k
        /\ \A i, j \in DOMAIN order : order[i] = order[j] => i = j
    BY <1>1, OrderOfKept
  <2>3. \A i \in DOMAIN root_objects : root_objects[i] \in DOMAIN heap /\ Held[i] = heap[root_objects[i]]
    BY <1>1, HeldIsSeq
  <2>4. /\ DOMAIN root_objects' = DOMAIN order
        /\ \A j \in DOMAIN order : order[j] \in Kept /\ root_objects'[j] = root_objects[order[j]]
                                   /\ heap[root_objects'[j]] = Held[order[j]]
    BY <2>1, <2>2, <2>3
  <2>5. root_objects' \in Seq(DOMAIN heap)
    <3>1. DOMAIN order = 1 .. Len(order) /\ Len(order) \in Nat
      BY <2>2
    <3>2. root_objects' \in [1 .. Len(order) -> DOMAIN heap]
      BY <2>1, <2>2, <2>3, <2>4, <3>1
    <3> QED BY <3>1, <3>2, SeqDef
  <2>6. HolderInv'
    <3>1. HolderTypeOK'
      BY <1>1, <2>5 DEF HolderTypeOK
    <3>2. ASSUME produced, NEW j \in DOMAIN root_objects'
          PROVE  heap[root_objects'[j]].result # NotYet /\ (~existed => HasEntry(root_objects'[j]))
      <4>1. order[j] \in DOMAIN root_objects /\ root_objects'[j] = root_objects[order[j]]
        BY <2>2, <2>4, <3>2
      <4> QED BY <1>1, <3>2, <4>1 DEF HolderInv
    <3>3. \A r : HasEntry(r)' <=> HasEntry(r)
      BY <1>1 DEF HasEntry
    <3> QED BY <1>1, <3>1, <3>2, <3>3 DEF HolderInv
  <2>7. ASSUME NEW i \in DOMAIN root_objects PROVE \E j \in DOMAIN root_objects' : Same(Held[i], heap[root_objects'[j]])
    <3>1. PICK k \in Kept : HashOf(Held[k]) = HashOf(Held[i])
      BY <1>1, KeptOne
    <3>2. PICK j \in DOMAIN order : order[j] = k
      BY <2>2
    <3>3. HashOf(heap[root_objects'[j]]) = HashOf(Held[i])
      BY <2>4, <3>1, <3>2
    <3>4. Same(Held[i], heap[root_objects'[j]])
      BY <3>3 DEF HashOf, Same
    <3> QED BY <2>4, <3>4
  <2>8. ASSUME NEW i \in DOMAIN root_objects', NEW j \in DOMAIN root_objects', Same(heap[root_objects'[i]], heap[root_objects'[j]])
        PROVE  i = j
    <3>1. HashOf(Held[order[i]]) = HashOf(Held[order[j]])
      BY <2>4, <2>8 DEF HashOf, Same
    <3>2. order[i] \in Kept /\ order[j] \in Kept /\ order[i] \in Nat \ {0} /\ order[j] \in Nat \ {0}
      BY <1>1, <2>2, <2>4, HeldIsSeq
    <3>3. order[i] = order[j]
      <4>1. \A k \in Kept : \A m \in 1 .. k - 1 : HashOf(Held[m]) # HashOf(Held[k])
        BY DEF Kept
      <4>2. ~(order[i] < order[j])
        <5>1. order[i] < order[j] => order[i] \in 1 .. order[j] - 1
          BY <3>2
        <5> QED BY <3>1, <3>2, <4>1, <5>1
      <4>3. ~(order[j] < order[i])
        <5>1. order[j] < order[i] => order[j] \in 1 .. order[i] - 1
          BY <3>2
        <5> QED BY <3>1, <3>2, <4>1, <5>1
      <4> QED BY <3>2, <4>2, <4>3
    <3> QED BY <2>2, <2>4, <3>3
  <2> QED BY <1>1, <2>6, <2>7, <2>8 DEF OneOfEach
<1> QED BY <1>2, <1>3

LEMMA Renamed ==
  ASSUME NEW o, IsObject(o), NEW new, NEW n, n = [o EXCEPT !.name = new]
  PROVE  IsObject(n) /\ n.result = o.result
<1>1. DOMAIN n = DOMAIN o /\ \A f \in DOMAIN o : f # "name" => n[f] = o[f]
  OBVIOUS
<1>2. {"kind", "inputfiles", "cuts", "result"} \subseteq DOMAIN o /\ Attributes \subseteq DOMAIN o
  BY DEF IsObject, IsSetting, Attributes
<1>3. n.result = o.result /\ n.kind = o.kind /\ n.inputfiles = o.inputfiles /\ n.cuts = o.cuts
  BY <1>1, <1>2
<1> QED BY <1>1, <1>2, <1>3 DEF IsObject, IsSetting

LEMMA NamingKeeps == ASSUME HolderInv, SetName PROVE HolderInv' /\ produced' = produced
<1>1. error = "none" /\ UNCHANGED <<root_objects, produced, written, branches, output_file, filled, existed>>
  BY DEF SetName, Call, fileVars
<1>2. PICK new, r : heap' = [heap EXCEPT ![r].name = new]
  BY DEF SetName
<1>3. \A q \in DOMAIN heap : IsObject(heap[q])
  BY DEF HolderInv, HolderTypeOK
<1>4. ASSUME NEW q \in DOMAIN heap PROVE IsObject(heap'[q]) /\ heap'[q].result = heap[q].result
  <2>1. CASE q # r
    BY <1>2, <1>3, <2>1
  <2>2. CASE q = r
    <3>1. heap'[q] = [heap[q] EXCEPT !.name = new]
      BY <1>2, <2>2
    <3> QED BY <1>3, <3>1, Renamed
  <2> QED BY <2>1, <2>2
<1>5. IsSeq(heap') /\ DOMAIN heap' = DOMAIN heap
  <2>1. heap' = [q \in DOMAIN heap |-> heap'[q]]
    BY <1>2
  <2> DEFINE f == heap'
  <2>2. f = [q \in DOMAIN heap |-> f[q]]
    BY <2>1
  <2> HIDE DEF f
  <2>3. IsSeq(f) /\ DOMAIN f = DOMAIN heap
    BY <2>2, FunctionIsSeq DEF HolderInv, HolderTypeOK
  <2> QED BY <2>3 DEF f
<1>6. HolderTypeOK'
  <2>1. root_objects \in Seq(DOMAIN heap) /\ produced \in BOOLEAN /\ existed \in BOOLEAN
    BY DEF HolderInv, HolderTypeOK
  <2> QED BY <1>1, <1>4, <1>5, <2>1 DEF HolderTypeOK, IsSeq
<1>7. \A i \in DOMAIN root_objects : root_objects[i] \in DOMAIN heap
  BY HeldIsSeq DEF HolderInv
<1>8. \A q \in DOMAIN heap : HasEntry(q) => HasEntry(q)'
  BY <1>1, <1>4 DEF HasEntry
<1>9. ASSUME produced PROVE \A i \in DOMAIN root_objects :
        heap'[root_objects[i]].result # NotYet /\ (~existed => HasEntry(root_objects[i])')
  BY <1>1, <1>4, <1>7, <1>8, <1>9 DEF HolderInv
<1> QED BY <1>1, <1>6, <1>9 DEF HolderInv

LEMMA AskingKeeps == ASSUME HolderInv, GetResult \/ SaveObjects PROVE HolderInv' /\ produced' = produced
<1>1. error = "none" /\ UNCHANGED <<heap, root_objects, produced, written, branches, existed>>
  BY DEF GetResult, SaveObjects, Call, holderVars, fileVars
<1>2. HolderTypeOK' /\ \A r : HasEntry(r)' <=> HasEntry(r)
  BY <1>1 DEF HolderInv, HolderTypeOK, HasEntry, IsSeq
<1>3. CASE GetResult
  <2>1. UNCHANGED <<output_file, filled>>
    BY <1>3 DEF GetResult, fileVars
  <2> QED BY <1>1, <1>2, <2>1 DEF HolderInv
<1>4. CASE SaveObjects
  <2>1. CASE ~produced
    <3>1. UNCHANGED <<output_file, filled>>
      BY <1>4, <2>1 DEF SaveObjects
    <3> QED BY <1>1, <1>2, <2>1, <3>1 DEF HolderInv
  <2>2. CASE produced
    <3>1. output_file # "closed" /\ output_file' = "closed" /\ filled' = IF output_file = "open" THEN branches ELSE filled
      BY <1>4, <2>2 DEF SaveObjects
    <3>2. ~existed => filled' = branches
      BY <2>2, <3>1 DEF HolderInv
    <3> QED BY <1>1, <1>2, <2>2, <3>1, <3>2 DEF HolderInv
  <2> QED BY <2>1, <2>2
<1> QED BY <1>3, <1>4

-----------------------------------------------------------------------------
\* A production: what it leaves of every object, and what it writes.
LEMMA ClassicKeeps == ASSUME HolderInv, ProduceClassic PROVE HolderInv' /\ EveryTreeIsRead
<1>1. /\ HolderTypeOK /\ ~produced /\ produced' = TRUE /\ existed' = existed /\ filled' = filled
      /\ output_file' = IF existed THEN "zombie" ELSE "open"
  BY DEF HolderInv, ProduceClassic, Opened
<1>2. PICK processes \in 1 .. 2 :
        IF FirstFailure # 0
        THEN /\ error' = "AttributeError" /\ UNCHANGED <<root_objects, written, branches>>
             /\ heap' = IF processes = 1 THEN InPlace(FirstFailure - 1) ELSE heap
        ELSE /\ IF processes = 1 THEN heap' = InPlace(Len(root_objects)) /\ UNCHANGED root_objects
                ELSE /\ heap' = heap \o Copies
                     /\ root_objects' = [i \in DOMAIN root_objects |-> Len(heap) + i]
             /\ WriteResults(Copies, SelectInSeq(Copies, SaveFails))
  BY DEF ProduceClassic
<1>3. /\ DOMAIN root_objects = 1 .. Len(root_objects) /\ Len(root_objects) \in Nat /\ IsSeq(Held) /\ IsSeq(Copies)
      /\ DOMAIN Held = DOMAIN root_objects /\ DOMAIN Copies = DOMAIN root_objects
      /\ \A i \in DOMAIN root_objects : IsObject(Held[i]) /\ Copies[i] = WithResult(Held[i])
  BY <1>1, HeldIsSeq DEF Copies
<1>4. CASE FirstFailure # 0
  <2>1. error' # "none" /\ root_objects' = root_objects
    BY <1>2, <1>4
  <2>2. IsSeq(heap') /\ DOMAIN heap' = DOMAIN heap /\ \A r \in DOMAIN heap' : IsObject(heap'[r])
    <3>1. CASE processes = 1
      <4>1. heap' = InPlace(FirstFailure - 1)
        BY <1>2, <1>4, <3>1
      <4>2. FirstFailure - 1 \in Int
        <5> DEFINE I == {i \in 1 .. Len(Held) : CreateFails(Held[i])}
        <5>1. FirstFailure = Min(I) /\ I # {}
          BY <1>4 DEF FirstFailure, SelectInSeq
        <5>2. I \in SUBSET Nat
          BY <1>3 DEF IsSeq
        <5> HIDE DEF I
        <5>3. Min(I) \in I
          BY <5>1, <5>2, Least DEF Min
        <5>4. FirstFailure \in Nat
          BY <5>1, <5>2, <5>3
        <5> QED BY <5>4
      <4> QED BY <1>1, <4>1, <4>2, ResultsInPlace
    <3>2. CASE processes # 1
      BY <1>1, <1>2, <1>4, <3>2 DEF HolderTypeOK
    <3> QED BY <3>1, <3>2
  <2>3. HolderTypeOK'
    BY <1>1, <2>1, <2>2 DEF HolderTypeOK
  <2> QED BY <1>1, <2>1, <2>3 DEF HolderInv, EveryTreeIsRead
<1>5. CASE FirstFailure = 0
  <2>1. WriteResults(Copies, SelectInSeq(Copies, SaveFails))
    BY <1>2, <1>5
  <2>2. /\ HolderTypeOK' /\ DOMAIN root_objects' = DOMAIN root_objects
        /\ \A i \in DOMAIN root_objects : heap'[root_objects'[i]] = WithResult(Held[i])
    <3>1. CASE processes = 1
      <4>1. heap' = InPlace(Len(root_objects)) /\ root_objects' = root_objects
        BY <1>2, <1>5, <3>1
      <4>2. /\ IsSeq(heap') /\ DOMAIN heap' = DOMAIN heap /\ \A r \in DOMAIN heap' : IsObject(heap'[r])
            /\ \A i \in 1 .. Len(root_objects) : i \in DOMAIN root_objects => heap'[root_objects[i]] = WithResult(Held[i])
        BY <1>1, <1>3, <4>1, ResultsInPlace
      <4> QED BY <1>1, <1>3, <4>1, <4>2 DEF HolderTypeOK
    <3>2. CASE processes # 1
      <4>1. heap' = heap \o Copies /\ root_objects' = [i \in DOMAIN root_objects |-> Len(heap) + i]
        BY <1>2, <1>5, <3>2
      <4>2. /\ IsSeq(heap') /\ \A r \in DOMAIN heap' : IsObject(heap'[r])
            /\ root_objects' \in Seq(DOMAIN heap')
            /\ \A i \in DOMAIN root_objects : heap'[Len(heap) + i] = WithResult(Held[i])
        BY <1>1, <4>1, ResultsAsCopies
      <4> QED BY <1>1, <4>1, <4>2 DEF HolderTypeOK
    <3> QED BY <3>1, <3>2
  <2>3. CASE error' # "none"
    BY <1>1, <2>2, <2>3 DEF HolderInv, EveryTreeIsRead
  <2>4. CASE error' = "none"
    <3>1. SelectInSeq(Copies, SaveFails) = 0
      BY <2>1, <2>4 DEF WriteResults
    <3>2. \A i \in DOMAIN root_objects : ~CreateFails(Held[i]) /\ ~SaveFails(WithResult(Held[i]))
      BY <1>3, <1>5, <3>1, NothingFails DEF FirstFailure
    <3>3. \A i \in DOMAIN root_objects :
            /\ IsObject(WithResult(Held[i])) /\ WithResult(Held[i]).name = Held[i].name
            /\ WithResult(Held[i]).result # NotYet /\ WithResult(Held[i]).result.entries = Total(WithResult(Held[i]))
      BY <1>3, <3>2, ClassicResult
    <3>4. \A i \in DOMAIN root_objects : ~existed =>
            \E entry \in written' \cup branches' : entry.result = WithResult(Held[i]).result
      <4>1. WriteResults(Copies, 0)
        BY <2>1, <3>1
      <4>2. \A i \in DOMAIN Copies : Copies[i].kind \in {"Histogram", "Count"}
        BY <1>3, <3>3 DEF IsObject, IsSetting
      <4> QED BY <1>1, <1>3, <4>1, <4>2, AllWritten
    <3>5. EveryTreeIsRead
      BY <2>2, <3>3 DEF EveryTreeIsRead
    <3> QED BY <1>1, <2>2, <3>3, <3>4, <3>5 DEF HolderInv, HasEntry
  <2> QED BY <2>3, <2>4
<1> QED BY <1>4, <1>5

LEMMA FrameResult ==
  ASSUME NEW o, IsObject(o), FrameExists(o), NEW n, n = [o EXCEPT !.result = tdf_result(o)]
  PROVE  /\ IsObject(n) /\ n.name = o.name /\ n.kind = o.kind /\ n.result # NotYet
         /\ Len(n.inputfiles) = 1 => n.result.entries = Total(n)
<1>1. /\ IsObject(n) /\ n.result = tdf_result(o) /\ n.name = o.name /\ n.kind = o.kind
      /\ n.inputfiles = o.inputfiles /\ n.folder = o.folder /\ n.cuts = o.cuts
  BY SettingResult
<1>2. tdf_result(o) # NotYet /\ tdf_result(o).entries = Selected(o, 1)
  <2>1. tdf_result(o) = IF o.kind = "Histogram" THEN Drawn(Selected(o, 1), DefaultBins) ELSE Number(Selected(o, 1))
    BY DEF tdf_result
  <2> QED BY <2>1, IsResult
<1>3. ASSUME Len(n.inputfiles) = 1 PROVE Total(n) = Selected(o, 1)
  <2>1. o.inputfiles \in Seq(Range(o.inputfiles))
    BY DEF IsObject, IsSetting
  <2>2. DOMAIN n.inputfiles = {1}
    BY <1>1, <1>3, <2>1
  <2>3. Selected(n, 1) = Selected(o, 1)
    BY <1>1 DEF Selected
  <2>4. Selected(o, 1) \in Nat
    BY EntriesType DEF Selected, FrameExists, IsObject
  <2>5. [i \in DOMAIN n.inputfiles |-> IF <<n.inputfiles[i], n.folder>> \in DOMAIN Entries THEN Selected(n, i) ELSE 0]
          = [i \in {1} |-> Selected(o, 1)]
    BY <1>1, <2>2, <2>3 DEF FrameExists
  <2>6. Total(n) = Sum([i \in {1} |-> Selected(o, 1)])
    BY <2>5 DEF Total
  <2> QED BY <2>4, <2>6, SumOfOne
<1> QED BY <1>1, <1>2, <1>3

LEMMA FramesKeep == ASSUME HolderInv, ProduceTdf PROVE HolderInv' /\ (~ProduceClassic => EveryTreeIsRead)
<1>1. /\ HolderTypeOK /\ ~produced /\ produced' = TRUE /\ UNCHANGED <<existed, filled, root_objects>>
      /\ output_file' = IF existed THEN "zombie" ELSE "open"
      /\ \A i \in DOMAIN root_objects : FrameExists(Held[i])
  BY DEF HolderInv, ProduceTdf, Opened
<1> DEFINE IsHeld(r) == \E i \in DOMAIN root_objects : root_objects[i] = r
           drawings == [i \in DOMAIN root_objects |-> heap'[root_objects[i]]]
<1>2. /\ heap' = [r \in DOMAIN heap |-> IF IsHeld(r) THEN [heap[r] EXCEPT !.result = tdf_result(heap[r])] ELSE heap[r]]
      /\ WriteResults(drawings, 0)
  BY DEF ProduceTdf
<1>3. /\ DOMAIN root_objects = 1 .. Len(root_objects) /\ Len(root_objects) \in Nat /\ IsSeq(root_objects)
      /\ \A i \in DOMAIN root_objects : root_objects[i] \in DOMAIN heap /\ Held[i] = heap[root_objects[i]]
  BY <1>1, HeldIsSeq
<1>4. \A r \in DOMAIN heap : IsObject(heap[r])
  BY <1>1 DEF HolderTypeOK
<1>5. ASSUME NEW i \in DOMAIN root_objects
      PROVE  LET o == heap'[root_objects[i]]
             IN  /\ IsObject(o) /\ o.name = Held[i].name /\ o.result # NotYet
                 /\ Len(o.inputfiles) = 1 => o.result.entries = Total(o)
  <2> DEFINE o == heap[root_objects[i]]
             n == heap'[root_objects[i]]
  <2>1. n = [o EXCEPT !.result = tdf_result(o)] /\ IsObject(o) /\ FrameExists(o) /\ o = Held[i]
    BY <1>1, <1>2, <1>3, <1>4
  <2> HIDE DEF o, n
  <2>2. /\ IsObject(n) /\ n.name = o.name /\ n.result # NotYet /\ (Len(n.inputfiles) = 1 => n.result.entries = Total(n))
    BY <2>1, FrameResult
  <2>3. n.name = Held[i].name
    BY <2>1, <2>2
  <2> QED BY <2>2, <2>3 DEF n
<1>6. HolderTypeOK'
  <2>1. ASSUME NEW r \in DOMAIN heap PROVE IsObject(heap'[r])
    <3>1. CASE IsHeld(r)
      BY <3>1, <1>5
    <3>2. CASE ~IsHeld(r)
      <4> HIDE DEF IsHeld
      <4>1. heap'[r] = heap[r]
        BY <3>2, <1>2
      <4> QED BY <4>1, <1>4
    <3> QED BY <3>1, <3>2
  <2>2. IsSeq(heap') /\ DOMAIN heap' = DOMAIN heap
    <3> DEFINE f == heap'
    <3>1. f = [r \in DOMAIN heap |-> f[r]]
      <4> HIDE DEF IsHeld
      <4> QED BY <1>2
    <3>2. IsSeq(heap)
      BY <1>1 DEF HolderTypeOK
    <3> HIDE DEF f
    <3>3. IsSeq(f) /\ DOMAIN f = DOMAIN heap
      BY <3>1, <3>2, FunctionIsSeq
    <3> QED BY <3>3 DEF f
  <2>3. root_objects \in Seq(DOMAIN heap)
    BY <1>1 DEF HolderTypeOK
  <2> QED BY <1>1, <2>1, <2>2, <2>3 DEF HolderTypeOK
<1>7. \A i \in DOMAIN root_objects : ~existed => HasEntry(root_objects[i])'
  <2>1. IsSeq(drawings) /\ DOMAIN drawings = DOMAIN root_objects
    <3>1. drawings = [i \in DOMAIN root_objects |-> drawings[i]]
      OBVIOUS
    <3> HIDE DEF drawings
    <3> QED BY <1>3, <3>1, FunctionIsSeq
  <2>2. \A i \in DOMAIN root_objects : drawings[i] = heap'[root_objects[i]]
    OBVIOUS
  <2>3. \A i \in DOMAIN drawings : drawings[i].kind \in {"Histogram", "Count"}
    BY <1>5, <2>1, <2>2 DEF IsObject, IsSetting
  <2> HIDE DEF drawings
  <2>4. \A i \in DOMAIN drawings : ~existed => \E entry \in written' \cup branches' : entry.result = drawings[i].result
    BY <1>1, <1>2, <2>1, <2>3, AllWritten
  <2> QED BY <1>1, <2>1, <2>2, <2>4 DEF HasEntry
<1>8. ~ProduceClassic => EveryTreeIsRead
  BY <1>1, <1>5 DEF EveryTreeIsRead
<1> QED BY <1>1, <1>5, <1>6, <1>7, <1>8 DEF HolderInv

\* A production reads every tree of every object; after one that raised no exception
\* everything held has a result; a file that is saved has all results; and of the objects
\* with one hash exactly one is left (histogram.py: create_result, produce_classic, save,
\* remove_duplicates).
THEOREM ResultsComplete == HolderSpec => ResultsAreComplete
<1>1. HolderInit => HolderInv
  <2> SUFFICES ASSUME HolderInit PROVE HolderInv
    OBVIOUS
  <2>1. <<>> \in Seq(Range(<<>>)) /\ <<>> \in Seq(DOMAIN <<>>) /\ DOMAIN <<>> = {}
    OBVIOUS
  <2> QED BY <2>1 DEF HolderInit, HolderInv, HolderTypeOK, IsSeq
<1>2. ASSUME HolderInv, HolderNext PROVE HolderInv' /\ EveryTreeIsRead /\ OneOfEach
  <2>1. CASE RemoveDuplicates
    BY <1>2, <2>1, DuplicatesKeep DEF EveryTreeIsRead
  <2>2. CASE ~RemoveDuplicates /\ ProduceClassic
    BY <1>2, <2>2, ClassicKeeps DEF OneOfEach
  <2>3. CASE ~RemoveDuplicates /\ ~ProduceClassic /\ ProduceTdf
    BY <1>2, <2>3, FramesKeep DEF OneOfEach
  <2>4. CASE ~RemoveDuplicates /\ (New \/ AddList)
    BY <1>2, <2>4, NewKeeps DEF OneOfEach, EveryTreeIsRead
  <2>5. CASE ~RemoveDuplicates /\ SetName
    BY <1>2, <2>5, NamingKeeps DEF OneOfEach, EveryTreeIsRead
  <2>6. CASE ~RemoveDuplicates /\ (GetResult \/ SaveObjects)
    BY <1>2, <2>6, AskingKeeps DEF OneOfEach, EveryTreeIsRead
  <2> QED BY <1>2, <2>1, <2>2, <2>3, <2>4, <2>5, <2>6 DEF HolderNext
<1>3. HolderInv /\ UNCHANGED henryVars => HolderInv'
  <2> SUFFICES ASSUME HolderInv, UNCHANGED henryVars PROVE HolderInv'
    OBVIOUS
  <2>1. UNCHANGED <<heap, root_objects, produced, output_file, written, branches, filled, existed, error>>
    BY DEF henryVars, holderVars, fileVars
  <2>2. \A r : HasEntry(r)' <=> HasEntry(r)
    BY <2>1 DEF HasEntry
  <2> QED BY <2>1, <2>2 DEF HolderInv, HolderTypeOK
<1>4. HolderInv => HeldIsProduced /\ SavedIsComplete
  <2> SUFFICES ASSUME HolderInv PROVE HeldIsProduced /\ SavedIsComplete
    OBVIOUS
  <2>1. \A i \in DOMAIN root_objects : Held[i] = heap[root_objects[i]]
    BY DEF Held
  <2>2. HeldIsProduced
    BY <2>1 DEF HeldIsProduced, HolderInv
  <2>3. ASSUME output_file = "closed", ~existed, error = "none", NEW i \in DOMAIN root_objects
        PROVE  \E entry \in written \cup filled : entry.result = Held[i].result
    <3>1. produced /\ branches \subseteq filled
      BY <2>3 DEF HolderInv, HolderTypeOK
    <3>2. HasEntry(root_objects[i])
      BY <2>3, <3>1 DEF HolderInv
    <3> QED BY <2>1, <2>3, <3>1, <3>2 DEF HasEntry
  <2> QED BY <2>2, <2>3 DEF SavedIsComplete
<1> QED BY <1>1, <1>2, <1>3, <1>4, PTL DEF HolderSpec, ResultsAreComplete
=============================================================================
