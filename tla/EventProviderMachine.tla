------------------------- MODULE EventProviderMachine -------------------------
(***************************************************************************)
(* The event provider under a caller that asks for any entry at any time,  *)
(* also behind the end of the chain and also again after a refusal.        *)
(***************************************************************************)
EXTENDS EventProvider

VARIABLES
  calls,    \* number of GetEntry calls so far, at most MaxCalls
  before    \* history: file, run and lumisection of the event in memory when
            \* the current call was made; -1 when there was none yet

CONSTANT MaxCalls

ASSUME MaxCallsType == MaxCalls \in Nat

vars == <<providerVars, calls, before>>

Here == [tree |-> treeNumber, run |-> event.run, lumi |-> event.lumi]

Init ==
  /\ ProviderInit
  /\ calls = 0
  /\ before = [tree |-> -1, run |-> -1, lumi |-> -1]

\* What the flags of this call are measured against is the event the last call
\* that got as far as a comparison left in memory.
Call(l) ==
  /\ calls < MaxCalls
  /\ CallGetEntry(l)
  /\ calls' = calls + 1
  /\ before' = IF prevRun = -1 THEN before ELSE Here

Next ==
  \/ \E l \in 0 .. MaxEntries : Call(l)
  \/ ProviderNext /\ UNCHANGED <<calls, before>>

\* The calling thread keeps going: it does its bookkeeping, and wait_for returns
\* after five minutes at the latest.  Nothing is assumed of the workers.
Fairness == WF_vars(Bookkeep /\ UNCHANGED <<calls, before>>)
            /\ WF_vars(Timeout /\ UNCHANGED <<calls, before>>)

Spec == Init /\ [][Next]_vars /\ Fairness

-----------------------------------------------------------------------------
TypeOK == ProviderTypeOK /\ calls \in 0 .. MaxCalls

\* Whenever GetEntry returned true, the lumisection metadata in memory belongs to
\* the event in memory: same file, same run, same lumisection.  Lumisection
\* numbers restart in every run, so this needs the resets in Bookkeep.
MetadataMatchesEvent == Delivered => lumiInfo = Here

\* The flags of a delivered event tell exactly the changes since the event before
\* it: a new run iff the run number changed, a new lumisection iff file, run or
\* lumisection number changed.
FlagsTellChanges ==
  Delivered => /\ newRun <=> Here.run # before.run
               /\ newLumisection <=> Here # before

\* The event delivered exists and is the one asked for (EventProviderBase.h:14-15),
\* unless ROOT reported an I/O error: the error's -1 is not 0, so the stale event
\* of an earlier call goes out again.
DeliveredIsRequested ==
  Delivered => /\ Exists(lEvent)
               /\ event.index = lEvent \/ bytes = "error"

\* Every call returns or ends the program, even when a worker never answers.
CallsEnd == (stage # "idle") ~> (stage \in {"idle", "fatal"})

-----------------------------------------------------------------------------
(***************************************************************************)
(* Proofs.  The provider delivers what it was asked for, with the metadata *)
(* of its lumisection and the right flags, for every chain of files.       *)
(*                                                                         *)
(* The heart of the matter is what m_prevTree, m_prevRun and m_prevLumi    *)
(* mean: between two calls they describe the event in memory, and, unless  *)
(* the lumisection was forgotten, the loaded metadata.                     *)
(***************************************************************************)

Known == [tree |-> prevTree, run |-> prevRun, lumi |-> prevLumi]

\* Between two calls the memory describes the event; before the first it is empty.
Remembers ==
  stage = "idle" => IF prevRun = -1 THEN before = Known ELSE Known = Here

\* Up to the comparison it still describes the event before.
Compares == stage \in {"reading", "bookkeeping"} => before = Known

\* The metadata is that of the remembered lumisection.
Loaded == stage \in {"idle", "reading", "bookkeeping"} => prevLumi = -1 \/ lumiInfo = Known

\* While the metadata is read the comparison is done.
Compared ==
  stage = "readingMeta" =>
    /\ Known = Here
    /\ newRun <=> Here.run # before.run
    /\ Here # before

\* What the bytes say of the entry asked for.
Answered ==
  stage \in {"bookkeeping", "readingMeta"} =>
    /\ bytes # "zero" => Exists(lEvent)
    /\ bytes = "some" => event.index = lEvent

Promise == MetadataMatchesEvent /\ FlagsTellChanges /\ DeliveredIsRequested

IInv == TypeOK /\ Remembers /\ Compares /\ Loaded /\ Compared /\ Answered /\ Promise

USE DEF Here, Known, Delivered

\* The invariant holds before the first call, whatever the flags hold.
LEMMA InitInv == Init => IInv
<1> SUFFICES ASSUME Init PROVE IInv
  OBVIOUS
<1>1. TypeOK
  BY ProviderInitType, MaxCallsType DEF Init, TypeOK
<1>2. stage = "idle" /\ result = FALSE /\ before = Known /\ prevRun = -1 /\ prevLumi = -1
  BY DEF Init, ProviderInit
<1>3. QED
  BY <1>1, <1>2 DEF IInv, Remembers, Compares, Loaded, Compared, Answered, Promise,
     MetadataMatchesEvent, FlagsTellChanges, DeliveredIsRequested

\* A call keeps it: what is remembered becomes what the flags will be measured by.
LEMMA CallInv ==
  ASSUME IInv, NEW l \in 0 .. MaxEntries, Call(l)
  PROVE  IInv'
<1>1. TypeOK'
  <2>1. ProviderTypeOK'
    BY CallGetEntryType DEF IInv, TypeOK, Call
  <2>2. calls' \in 0 .. MaxCalls
    BY MaxCallsType DEF IInv, TypeOK, Call
  <2>3. QED
    BY <2>1, <2>2 DEF TypeOK
<1>2. stage = "idle" /\ before' = IF prevRun = -1 THEN before ELSE Here
  BY DEF Call, CallGetEntry
<1>3. before' = Known
  BY <1>2 DEF IInv, Remembers
<1>4. UNCHANGED <<treeNumber, event, lumiInfo, prevRun, prevLumi, prevTree>>
  BY DEF Call, CallGetEntry, memory
<1>5. CASE stage' = "idle" /\ result' = FALSE
  BY <1>1, <1>2, <1>3, <1>4, <1>5 DEF IInv, Remembers, Compares, Loaded, Compared, Answered,
     Promise, MetadataMatchesEvent, FlagsTellChanges, DeliveredIsRequested
<1>6. CASE stage' = "reading"
  BY <1>1, <1>2, <1>3, <1>4, <1>6 DEF IInv, Remembers, Compares, Loaded, Compared, Answered,
     Promise, MetadataMatchesEvent, FlagsTellChanges, DeliveredIsRequested
<1>7. QED
  BY <1>5, <1>6 DEF Call, CallGetEntry, Return

\* So does every step of the provider: the bookkeeping compares and remembers, and
\* only a step with the metadata of the event in memory returns.
LEMMA StepInv ==
  ASSUME IInv, ProviderNext, UNCHANGED <<calls, before>>
  PROVE  IInv'
<1>1. TypeOK'
  BY ProviderNextType DEF IInv, TypeOK
<1>2. CASE EntryRead
  <2>1. stage = "reading" /\ stage' = "bookkeeping"
    BY <1>2 DEF EntryRead
  <2>2. UNCHANGED <<chain, lEvent, lumiInfo, prevRun, prevLumi, prevTree>>
    BY <1>2 DEF EntryRead, memory
  <2>3. Answered'
    BY <1>2 DEF EntryRead, Answered, Exists
  <2>4. QED
    BY <1>1, <2>1, <2>2, <2>3 DEF IInv, Remembers, Compares, Loaded, Compared,
       Promise, MetadataMatchesEvent, FlagsTellChanges, DeliveredIsRequested
<1>3. CASE Timeout
  BY <1>1, <1>3 DEF Timeout, IInv, Remembers, Compares, Loaded, Compared, Answered,
     Promise, MetadataMatchesEvent, FlagsTellChanges, DeliveredIsRequested
<1>4. CASE Bookkeep
  <2> DEFINE fresh == prevTree # treeNumber \/ prevRun # event.run
  <2>1. stage = "bookkeeping" /\ before = Known /\ (prevLumi = -1 \/ lumiInfo = Known)
    BY <1>4 DEF Bookkeep, IInv, Compares, Loaded
  <2>2. UNCHANGED <<chain, lEvent, bytes, treeNumber, event, lumiInfo, before>>
    BY <1>4 DEF Bookkeep
  <2>3. Known' = Here /\ Here' = Here
    BY <1>4, <2>2 DEF Bookkeep
  <2>4. newRun' <=> Here.run # before.run
    BY <1>4, <2>1 DEF Bookkeep
  <2>5. event.run \in Nat /\ event.lumi \in Nat
    BY DEF IInv, TypeOK, ProviderTypeOK
  <2>6. CASE fresh \/ prevLumi # event.lumi
    <3>1. stage' = "readingMeta"
      BY <1>4, <2>5, <2>6 DEF Bookkeep, KnownLumi
    <3>2. Here # before
      BY <2>1, <2>6
    <3>3. QED
      BY <1>1, <2>1, <2>2, <2>3, <2>4, <3>1, <3>2 DEF IInv, Remembers, Compares, Loaded,
         Compared, Answered, Exists, Promise, MetadataMatchesEvent, FlagsTellChanges,
         DeliveredIsRequested
  <2>7. CASE ~fresh /\ prevLumi = event.lumi
    <3>1. stage' = "idle" /\ result' = Accepted /\ newLumisection' = FALSE
      BY <1>4, <2>7 DEF Bookkeep, KnownLumi, Return
    <3>2. Here = before /\ lumiInfo = Here
      BY <2>1, <2>5, <2>7
    <3>3. prevRun' # -1
      BY <1>4, <2>5 DEF Bookkeep
    <3>4. FlagsTellChanges'
      BY <2>2, <2>3, <2>4, <3>1, <3>2 DEF FlagsTellChanges
    <3>5. DeliveredIsRequested'
      BY <2>1, <2>2, <3>1 DEF IInv, TypeOK, ProviderTypeOK, Answered, Exists, Accepted,
         DeliveredIsRequested
    <3>6. QED
      BY <1>1, <2>2, <2>3, <3>1, <3>2, <3>3, <3>4, <3>5 DEF IInv, Remembers, Compares, Loaded,
         Compared, Answered, Promise, MetadataMatchesEvent
  <2>8. QED
    BY <2>6, <2>7
<1>5. CASE MetaEntryRead
  <2>1. stage = "readingMeta" /\ stage' = "idle" /\ result' = Accepted
    BY <1>5 DEF MetaEntryRead, Return
  <2>2. UNCHANGED <<chain, lEvent, bytes, treeNumber, event, newRun, prevRun, prevLumi,
                    prevTree, before>>
    BY <1>5 DEF MetaEntryRead, memory
  <2>3. Known = Here /\ (newRun <=> Here.run # before.run) /\ Here # before
    BY <2>1 DEF IInv, Compared
  <2>4. lumiInfo' = Here /\ newLumisection' = TRUE
    BY <1>5 DEF MetaEntryRead, Metadata
  <2>5. prevRun # -1
    BY <2>3 DEF IInv, TypeOK, ProviderTypeOK
  <2>6. FlagsTellChanges'
    BY <2>2, <2>3, <2>4 DEF FlagsTellChanges
  <2>7. DeliveredIsRequested'
    BY <2>1, <2>2 DEF IInv, TypeOK, ProviderTypeOK, Answered, Exists, Accepted,
       DeliveredIsRequested
  <2>8. QED
    BY <1>1, <2>1, <2>2, <2>3, <2>4, <2>5, <2>6, <2>7 DEF IInv, Remembers, Compares, Loaded,
       Compared, Answered, Promise, MetadataMatchesEvent
<1>6. QED
  BY <1>2, <1>3, <1>4, <1>5 DEF ProviderNext

\* The invariant is inductive.
THEOREM Inductive == Spec => []IInv
<1>1. IInv /\ [Next]_vars => IInv'
  <2> SUFFICES ASSUME IInv, [Next]_vars PROVE IInv'
    OBVIOUS
  <2>1. CASE \E l \in 0 .. MaxEntries : Call(l)
    BY <2>1, CallInv
  <2>2. CASE ProviderNext /\ UNCHANGED <<calls, before>>
    BY <2>2, StepInv
  <2>3. CASE UNCHANGED vars
    BY <2>3 DEF vars, providerVars, flags, memory, IInv, TypeOK, ProviderTypeOK, Remembers,
       Compares, Loaded, Compared, Answered, Exists, Promise, MetadataMatchesEvent,
       FlagsTellChanges, DeliveredIsRequested
  <2>4. QED
    BY <2>1, <2>2, <2>3 DEF Next
<1>2. QED
  BY InitInv, <1>1, PTL DEF Spec

\* The variables have their types (KappaEventProviderBase's members).
THEOREM TypeCorrect == Spec => []TypeOK
<1>1. IInv => TypeOK
  BY DEF IInv
<1>2. QED
  BY <1>1, Inductive, PTL

\* The metadata in memory is that of a delivered event's lumisection, whatever the
\* order of entries asked for (KappaEventProviderBase.h:71-101).
THEOREM MetadataCorrect == Spec => []MetadataMatchesEvent
<1>1. IInv => MetadataMatchesEvent
  BY DEF IInv, Promise
<1>2. QED
  BY <1>1, Inductive, PTL

\* NewRun and NewLumisection tell what changed since the event before.
THEOREM FlagsCorrect == Spec => []FlagsTellChanges
<1>1. IInv => FlagsTellChanges
  BY DEF IInv, Promise
<1>2. QED
  BY <1>1, Inductive, PTL

\* Only existing entries are delivered, and it is the one asked for unless ROOT
\* reported an I/O error.
THEOREM RequestsAnswered == Spec => []DeliveredIsRequested
<1>1. IInv => DeliveredIsRequested
  BY DEF IInv, Promise
<1>2. QED
  BY <1>1, Inductive, PTL
=============================================================================
