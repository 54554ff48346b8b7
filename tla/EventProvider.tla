---------------------------- MODULE EventProvider ----------------------------
(***************************************************************************)
(* KappaEventProviderBase (KappaAnalysis/interface/KappaEventProviderBase.h): *)
(* GetEntry reads one entry of the Events tree on a worker thread, works   *)
(* out whether a new run or a new lumisection begins, and reads the        *)
(* metadata of a new lumisection on a second worker thread.  The caller    *)
(* waits for either worker for five minutes and aborts the program when it *)
(* has not answered.                                                       *)
(*                                                                         *)
(* ROOT (TChain, Kappa's FileInterface2 and ProgressMonitor) is outside    *)
(* the repository: a read of an existing entry loads its content, or fails *)
(* with an I/O error (TTree::GetEntry returns -1 and the content of the    *)
(* event stays), or never answers; a read behind the end returns 0.        *)
(***************************************************************************)
EXTENDS Integers, Sequences, TLAPS

CONSTANTS
  Trees,      \* numbers of the input files in the chain
  Runs,       \* run numbers
  Lumis,      \* lumisection numbers (they restart with every run)
  MaxEntries  \* bound on the number of entries in the chain

ASSUME ProviderConstants ==
  /\ Trees \subseteq Nat
  /\ Runs \subseteq Nat
  /\ Lumis \subseteq Nat
  /\ MaxEntries \in Nat

VARIABLES
  chain,        \* the input: entry i of the program is chain[i + 1]; never changes
  stage,        \* where GetEntry is; "idle" between two calls
  lEvent,       \* its argument
  result,       \* the value the last call returned
  bytes,        \* what the read of the entry returned: "some", "zero" or "error"
  treeNumber,   \* m_fi.eventdata.GetTreeNumber()
  event,        \* content of m_event: which entry, and its run and lumisection
  lumiInfo,     \* the lumisection whose metadata is loaded
  newRun, newLumisection, prevRun, prevLumi, prevTree    \* the m_ members

flags == <<newRun, newLumisection>>
memory == <<prevRun, prevLumi, prevTree>>
providerVars ==
  <<chain, stage, lEvent, result, bytes, treeNumber, event, lumiInfo, flags, memory>>

Entry == [tree : Trees, run : Runs, lumi : Lumis]

\* The files of a chain are read one after the other.
Chains ==
  {c \in UNION {[1 .. n -> Entry] : n \in 0 .. MaxEntries} :
     \A i, j \in DOMAIN c : i < j => c[i].tree <= c[j].tree}

Exists(l) == l + 1 \in DOMAIN chain

-----------------------------------------------------------------------------
\* The flags have no initialiser: they hold any value before the first call.
ProviderInit ==
  /\ chain \in Chains
  /\ stage = "idle"
  /\ lEvent = -1
  /\ result = FALSE
  /\ bytes = "zero"
  /\ treeNumber = -1
  /\ event = [index |-> -1, run |-> 0, lumi |-> 0]
  /\ lumiInfo = [tree |-> -1, run |-> 0, lumi |-> 0]
  /\ newRun \in BOOLEAN
  /\ newLumisection \in BOOLEAN
  /\ prevRun = -1
  /\ prevLumi = -1
  /\ prevTree = -1

Return(r) == stage' = "idle" /\ result' = r

\* What GetEntry makes of the number of bytes read: it looks for zero only.
AcceptedAlways == TRUE                             \* mutant: no look at it
Accepted == bytes # "zero"

\* GetEntry(l): the progress monitor may stop the job, else the read is started.
CallGetEntry(l) ==
  /\ stage = "idle"
  /\ lEvent' = l
  /\ \/ Return(FALSE)
     \/ stage' = "reading" /\ UNCHANGED result
  /\ UNCHANGED <<chain, bytes, treeNumber, event, lumiInfo, flags, memory>>

\* The worker answers: the content is there, the entry is missing, or I/O failed.
\* An I/O error may strike before or after the chain moved to the entry's file.
EntryRead ==
  /\ stage = "reading"
  /\ stage' = "bookkeeping"
  /\ \/ /\ Exists(lEvent)
        /\ LET e == chain[lEvent + 1] IN
             \/ /\ bytes' = "some"
                /\ treeNumber' = e.tree
                /\ event' = [index |-> lEvent, run |-> e.run, lumi |-> e.lumi]
             \/ /\ bytes' = "error"
                /\ treeNumber' \in {treeNumber, e.tree}
                /\ UNCHANGED event
     \/ /\ ~Exists(lEvent)
        /\ bytes' = "zero"
        /\ UNCHANGED <<treeNumber, event>>
  /\ UNCHANGED <<chain, lEvent, result, lumiInfo, flags, memory>>

\* wait_for gave up on a worker: LOG(FATAL) ends the program.
WaitForEver == FALSE                               \* mutant: wait, not wait_for
Timeout ==
  /\ stage \in {"reading", "readingMeta"}
  /\ stage' = "fatal"
  /\ UNCHANGED <<chain, lEvent, result, bytes, treeNumber, event, lumiInfo, flags, memory>>

\* A change of file or of run forgets the lumisection, so that its metadata is
\* read again even if the number is the same.
KnownLumiOfFile(freshTree, freshRun) ==            \* mutant: a new run keeps it
  IF freshTree THEN -1 ELSE prevLumi
KnownLumiOfRun(freshTree, freshRun) ==             \* mutant: a new file keeps it
  IF freshRun THEN -1 ELSE prevLumi
KnownLumi(freshTree, freshRun) ==
  IF freshTree \/ freshRun THEN -1 ELSE prevLumi

Bookkeep ==
  LET freshTree == prevTree # treeNumber
      freshRun  == prevRun # event.run
  IN  /\ stage = "bookkeeping"
      /\ prevTree' = treeNumber
      /\ prevRun' = event.run
      /\ newRun' = freshRun
      /\ prevLumi' = event.lumi
      /\ IF KnownLumi(freshTree, freshRun) # event.lumi
         THEN stage' = "readingMeta" /\ UNCHANGED <<result, newLumisection>>
         ELSE Return(Accepted) /\ newLumisection' = FALSE
      /\ UNCHANGED <<chain, lEvent, bytes, treeNumber, event, lumiInfo>>

\* FileInterface2::GetMetaEntry loads the metadata of the event's lumisection.
Metadata == [tree |-> treeNumber, run |-> event.run, lumi |-> event.lumi]

MetaEntryRead ==
  /\ stage = "readingMeta"
  /\ lumiInfo' = Metadata
  /\ newLumisection' = TRUE
  /\ Return(Accepted)
  /\ UNCHANGED <<chain, lEvent, bytes, treeNumber, event, newRun, memory>>

ProviderNext == EntryRead \/ Timeout \/ Bookkeep \/ MetaEntryRead

-----------------------------------------------------------------------------
ProviderTypeOK ==
  /\ chain \in Seq(Entry)
  /\ stage \in {"idle", "reading", "bookkeeping", "readingMeta", "fatal"}
  /\ lEvent \in Int
  /\ result \in BOOLEAN
  /\ bytes \in {"some", "zero", "error"}
  /\ treeNumber \in Int
  /\ event \in [index : Int, run : Nat, lumi : Nat]
  /\ lumiInfo \in [tree : Int, run : Nat, lumi : Nat]
  /\ newRun \in BOOLEAN /\ newLumisection \in BOOLEAN
  /\ prevRun \in Int /\ prevLumi \in Int /\ prevTree \in Int

\* A call that returned true left an event behind.
Delivered == stage = "idle" /\ result

-----------------------------------------------------------------------------
(* The steps of the event provider keep the types of its variables, for    *)
(* every chain of files; what the modules that contain a provider cite.    *)

\* The initial values have their types.
LEMMA ProviderInitType == ProviderInit => ProviderTypeOK
<1> SUFFICES ASSUME ProviderInit PROVE ProviderTypeOK
  OBVIOUS
<1>1. chain \in Seq(Entry)
  <2>1. PICK n \in 0 .. MaxEntries : chain \in [1 .. n -> Entry]
    BY DEF ProviderInit, Chains
  <2>2. QED
    BY <2>1, ProviderConstants
<1>2. event \in [index : Int, run : Nat, lumi : Nat]
  BY DEF ProviderInit
<1>3. lumiInfo \in [tree : Int, run : Nat, lumi : Nat]
  BY DEF ProviderInit
<1>4. QED
  BY <1>1, <1>2, <1>3 DEF ProviderInit, ProviderTypeOK

\* A call of GetEntry keeps them.
LEMMA CallGetEntryType ==
  ASSUME ProviderTypeOK, NEW l \in Int, CallGetEntry(l)
  PROVE  ProviderTypeOK'
BY DEF ProviderTypeOK, CallGetEntry, Return, flags, memory

\* So does every step of the provider itself.
LEMMA ProviderNextType ==
  ASSUME ProviderTypeOK, ProviderNext
  PROVE  ProviderTypeOK'
<1>1. CASE EntryRead
  <2>0. \A e \in Entry : e.tree \in Int /\ e.run \in Nat /\ e.lumi \in Nat
    <3>1. \A e \in Entry : e.tree \in Trees /\ e.run \in Runs /\ e.lumi \in Lumis
      BY DEF Entry
    <3>2. Trees \subseteq Int /\ Runs \subseteq Nat /\ Lumis \subseteq Nat
      BY ProviderConstants
    <3>3. QED
      BY <3>1, <3>2, Zenon
  <2>1. Exists(lEvent) => chain[lEvent + 1] \in Entry
    BY DEF ProviderTypeOK, Exists
  <2>2. Exists(lEvent) => /\ chain[lEvent + 1].tree \in Int
                          /\ chain[lEvent + 1].run \in Nat
                          /\ chain[lEvent + 1].lumi \in Nat
    BY <2>0, <2>1
  <2>3. treeNumber' \in Int
    BY <1>1, <2>1, <2>2 DEF EntryRead, ProviderTypeOK
  <2>4. event' \in [index : Int, run : Nat, lumi : Nat]
    BY <1>1, <2>1, <2>2 DEF EntryRead, ProviderTypeOK
  <2>5. bytes' \in {"some", "zero", "error"}
    BY <1>1 DEF EntryRead
  <2>6. QED
    BY <1>1, <2>3, <2>4, <2>5 DEF EntryRead, ProviderTypeOK, flags, memory
<1>2. CASE Timeout
  BY <1>2 DEF Timeout, ProviderTypeOK, flags, memory
<1>3. CASE Bookkeep
  <2>1. newRun' \in BOOLEAN
    BY <1>3, Zenon DEF Bookkeep
  <2>2. Accepted \in BOOLEAN
    BY Zenon DEF Accepted
  <2>3. result' \in BOOLEAN /\ newLumisection' \in BOOLEAN
    BY <1>3, <2>2 DEF Bookkeep, Return, ProviderTypeOK
  <2>4. stage' \in {"idle", "readingMeta"}
    BY <1>3 DEF Bookkeep, Return
  <2>5. prevTree' \in Int /\ prevRun' \in Int /\ prevLumi' \in Int
    BY <1>3 DEF Bookkeep, ProviderTypeOK
  <2>6. UNCHANGED <<chain, lEvent, bytes, treeNumber, event, lumiInfo>>
    BY <1>3 DEF Bookkeep
  <2>7. QED
    BY <2>1, <2>3, <2>4, <2>5, <2>6 DEF ProviderTypeOK
<1>4. CASE MetaEntryRead
  <2>1. lumiInfo' \in [tree : Int, run : Nat, lumi : Nat]
    BY <1>4 DEF MetaEntryRead, Metadata, ProviderTypeOK
  <2>2. QED
    BY <1>4, <2>1 DEF MetaEntryRead, ProviderTypeOK, Return, Accepted, memory
<1>5. QED
  BY <1>1, <1>2, <1>3, <1>4 DEF ProviderNext
=============================================================================
