---------------------------- MODULE FilterResult ----------------------------
(***************************************************************************)
(* The class FilterResult (Core/interface/FilterResult.h and               *)
(* Core/src/FilterResult.cc): the list of filter decisions of one event,   *)
(* the tagging filters, and the mutable cache behind HasPassed.            *)
(*                                                                         *)
(* An object is a record.  m_filterDecisions is a std::list whose entries  *)
(* are looked up by name and never removed; it is kept here as a function  *)
(* from the listed names to their entries, and "place" is the position of  *)
(* the entry in the list (the consumers of a cut flow walk the list).      *)
(* m_taggingFilters is only ever searched, so it is a set.  A method that  *)
(* changes the object is an operator that returns the changed object.      *)
(***************************************************************************)
EXTENDS Integers, Sequences, FiniteSets, Functions, FiniteSetTheorems, TLAPS

CONSTANT FilterName   \* the filter ids and pipeline names in use

ASSUME FilterNameFinite == IsFiniteSet(FilterName)

Decision == {"Undefined", "Passed", "NotPassed"}
TaggingMode == {"Tagging", "Filtering"}

DecisionEntry ==
  [filterDecision : Decision, taggingMode : TaggingMode, place : Nat]

IsFilterResult(r) ==
  /\ r \in [taggingFilters    : SUBSET FilterName,
            filterDecisions   : {r.filterDecisions},
            cacheHasPassed    : BOOLEAN,
            isCachedHasPassed : BOOLEAN]
  /\ DOMAIN r.filterDecisions \subseteq FilterName
  /\ r.filterDecisions \in [DOMAIN r.filterDecisions -> DecisionEntry]

-----------------------------------------------------------------------------
(* Queries.                                                                *)

Listed(r) == DOMAIN r.filterDecisions

IsTaggingFilter(r, n) == IF n \in r.taggingFilters THEN "Tagging" ELSE "Filtering"

\* The entries that make an event fail: filters (not taggers) that said no.
Rejecting(r) ==
  {n \in Listed(r) : /\ r.filterDecisions[n].filterDecision = "NotPassed"
                     /\ r.filterDecisions[n].taggingMode = "Filtering"}

\* The answer HasPassed gives: the cached one if there is one.
HasPassed(r) ==
  IF r.isCachedHasPassed THEN r.cacheHasPassed ELSE Rejecting(r) = {}

\* HasPassed is const, but it leaves its answer in the mutable cache.
AfterHasPassed(r) ==
  [r EXCEPT !.cacheHasPassed = HasPassed(r), !.isCachedHasPassed = TRUE]

-----------------------------------------------------------------------------
(* Updates.                                                                *)

\* The position of n's first occurrence in the list fn.
FirstIn(fn, n) ==
  CHOOSE i \in DOMAIN fn : fn[i] = n /\ \A j \in DOMAIN fn : fn[j] = n => i <= j

Fresh(r, fn) == Range(fn) \ Listed(r)

\* The entry appended for the name n of fn: undecided, with n's tagging mode of
\* this moment, behind the listed entries and the fresh names before n.
FreshEntry(r, fn, n) ==
  [filterDecision |-> "Undefined",
   taggingMode    |-> IsTaggingFilter(r, n),
   place          |-> Cardinality(Listed(r)) +
                      Cardinality({m \in Fresh(r, fn) : FirstIn(fn, m) <= FirstIn(fn, n)})]

\* Every name of fn that is not listed yet is appended; listed entries stay.
AppendAnew(r, fn) ==                               \* mutant: listed ones again
  [r EXCEPT !.filterDecisions =
     [n \in Listed(r) \cup Fresh(r, fn) |->
        IF n \in Listed(r) /\ n \notin Range(fn) THEN r.filterDecisions[n]
                                                 ELSE FreshEntry(r, fn, n)]]
AddFilterNames(r, fn) ==
  [r EXCEPT !.filterDecisions =
     [n \in Listed(r) \cup Fresh(r, fn) |->
        IF n \in Listed(r) THEN r.filterDecisions[n] ELSE FreshEntry(r, fn, n)]]

\* The overload that first extends the tagging filters.
AddFilterNamesTagging(r, fn, tagging) ==
  AddFilterNames([r EXCEPT !.taggingFilters = @ \cup tagging], fn)

\* The default constructor and the one that takes names and tagging filters.
EmptyFilterResult ==
  [taggingFilters    |-> {},
   filterDecisions   |-> [n \in {} |-> "none"],
   cacheHasPassed    |-> TRUE,
   isCachedHasPassed |-> FALSE]

NewFilterResult(fn, tagging) ==
  AddFilterNames([EmptyFilterResult EXCEPT !.taggingFilters = tagging], fn)

\* n's entry after it decided: the listed one overwritten, else a new last one.
DecidedEntry(r, n, passed) ==
  LET decision == IF passed THEN "Passed" ELSE "NotPassed"
  IN  IF n \in Listed(r)
      THEN [r.filterDecisions[n] EXCEPT !.filterDecision = decision]
      ELSE [filterDecision |-> decision,
            taggingMode    |-> IsTaggingFilter(r, n),
            place          |-> Cardinality(Listed(r)) + 1]

\* Record a decision; drop the cached verdict only if the decision differs from it.
SetKeepingCache(r, n, passed) ==                   \* mutant: the verdict stays
  [r EXCEPT !.filterDecisions = [m \in Listed(r) \cup {n} |->
                                   IF m = n THEN DecidedEntry(r, n, passed)
                                            ELSE r.filterDecisions[m]]]
SetFilterDecision(r, n, passed) ==
  [r EXCEPT
     !.filterDecisions = [m \in Listed(r) \cup {n} |->
                            IF m = n THEN DecidedEntry(r, n, passed)
                                     ELSE r.filterDecisions[m]],
     !.isCachedHasPassed = IF r.cacheHasPassed # passed THEN FALSE ELSE @]

-----------------------------------------------------------------------------
\* The cached answer, if there is one, is the answer the list gives.
CacheCoherent(r) == r.isCachedHasPassed => r.cacheHasPassed = (Rejecting(r) = {})

-----------------------------------------------------------------------------
(***************************************************************************)
(* What the operations preserve, for every object and every finite set of  *)
(* names.  The proofs about the modules that keep FilterResults cite these *)
(* lemmas and never open the operations.                                   *)
(***************************************************************************)
\* The fields of an object have their types.
LEMMA FieldTypes ==
  ASSUME NEW r, IsFilterResult(r)
  PROVE  /\ Listed(r) \subseteq FilterName
         /\ IsFiniteSet(Listed(r))
         /\ Cardinality(Listed(r)) \in Nat
         /\ r.taggingFilters \subseteq FilterName
         /\ r.cacheHasPassed \in BOOLEAN
         /\ r.isCachedHasPassed \in BOOLEAN
         /\ \A n \in Listed(r) : r.filterDecisions[n] \in DecisionEntry
<1>1. /\ Listed(r) \subseteq FilterName
      /\ r.taggingFilters \subseteq FilterName
      /\ r.cacheHasPassed \in BOOLEAN
      /\ r.isCachedHasPassed \in BOOLEAN
      /\ \A n \in Listed(r) : r.filterDecisions[n] \in DecisionEntry
  BY DEF IsFilterResult, Listed
<1>2. IsFiniteSet(Listed(r))
  BY <1>1, FilterNameFinite, FS_Subset
<1>3. QED
  BY <1>1, <1>2, FS_CardinalityType

\* HasPassed answers with a truth value.
LEMMA HasPassedBoolean ==
  ASSUME NEW r, IsFilterResult(r)
  PROVE  HasPassed(r) \in BOOLEAN
BY FieldTypes DEF HasPassed

\* A coherent cache makes HasPassed answer for the list.
LEMMA HasPassedIsTheListsAnswer ==
  ASSUME NEW r, IsFilterResult(r), CacheCoherent(r)
  PROVE  HasPassed(r) = (Rejecting(r) = {})
BY FieldTypes DEF HasPassed, CacheCoherent

\* Asking for the verdict changes nothing but the cache, and fills it rightly.
LEMMA AskPreserves ==
  ASSUME NEW r, IsFilterResult(r), CacheCoherent(r)
  PROVE  /\ IsFilterResult(AfterHasPassed(r))
         /\ CacheCoherent(AfterHasPassed(r))
         /\ AfterHasPassed(r).filterDecisions = r.filterDecisions
         /\ AfterHasPassed(r).taggingFilters = r.taggingFilters
         /\ AfterHasPassed(r).isCachedHasPassed
         /\ AfterHasPassed(r).cacheHasPassed = HasPassed(r)
         /\ HasPassed(AfterHasPassed(r)) = HasPassed(r)
<1>1. HasPassed(r) \in BOOLEAN
  BY HasPassedBoolean
<1>2. HasPassed(r) = (Rejecting(r) = {})
  BY HasPassedIsTheListsAnswer
<1>3. /\ AfterHasPassed(r).filterDecisions = r.filterDecisions
      /\ AfterHasPassed(r).taggingFilters = r.taggingFilters
      /\ AfterHasPassed(r).isCachedHasPassed = TRUE
      /\ AfterHasPassed(r).cacheHasPassed = HasPassed(r)
  BY DEF AfterHasPassed, IsFilterResult
<1>4. IsFilterResult(AfterHasPassed(r))
  BY <1>1 DEF AfterHasPassed, IsFilterResult
<1>5. Rejecting(AfterHasPassed(r)) = Rejecting(r)
  BY <1>3 DEF Rejecting, Listed
<1>6. CacheCoherent(AfterHasPassed(r))
  BY <1>2, <1>3, <1>5 DEF CacheCoherent
<1>7. HasPassed(AfterHasPassed(r)) = HasPassed(r)
  BY <1>3 DEF HasPassed
<1>8. QED
  BY <1>3, <1>4, <1>6, <1>7

\* Appending names leaves every listed entry as it is, adds only undecided
\* entries, and keeps type and cache coherence.
LEMMA AddNamesPreserves ==
  ASSUME NEW r, IsFilterResult(r), NEW fn \in Seq(FilterName)
  PROVE  /\ IsFilterResult(AddFilterNames(r, fn))
         /\ Listed(AddFilterNames(r, fn)) = Listed(r) \cup Range(fn)
         /\ \A n \in Listed(r) :
              AddFilterNames(r, fn).filterDecisions[n] = r.filterDecisions[n]
         /\ \A n \in Range(fn) \ Listed(r) :
              /\ AddFilterNames(r, fn).filterDecisions[n].filterDecision = "Undefined"
              /\ AddFilterNames(r, fn).filterDecisions[n].taggingMode = IsTaggingFilter(r, n)
         /\ AddFilterNames(r, fn).taggingFilters = r.taggingFilters
         /\ Rejecting(AddFilterNames(r, fn)) = Rejecting(r)
         /\ HasPassed(AddFilterNames(r, fn)) = HasPassed(r)
         /\ CacheCoherent(r) => CacheCoherent(AddFilterNames(r, fn))
<1> DEFINE s == AddFilterNames(r, fn)
           fresh == Fresh(r, fn)
           rank(n) == {m \in fresh : FirstIn(fn, m) <= FirstIn(fn, n)}
<1>1. Range(fn) \subseteq FilterName
  BY DEF Range
<1>2. IsFiniteSet(fresh)
  BY <1>1, FilterNameFinite, FS_Subset DEF Fresh
<1>3. \A n : Cardinality(rank(n)) \in Nat
  <2>1. \A n : rank(n) \in SUBSET fresh
    OBVIOUS
  <2>2. \A n : IsFiniteSet(rank(n))
    BY <1>2, <2>1, FS_Subset
  <2>3. QED
    BY <2>2, FS_CardinalityType
<1>4. /\ s.filterDecisions =
           [n \in Listed(r) \cup fresh |->
              IF n \in Listed(r) THEN r.filterDecisions[n]
              ELSE FreshEntry(r, fn, n)]
      /\ s.taggingFilters = r.taggingFilters
      /\ s.cacheHasPassed = r.cacheHasPassed
      /\ s.isCachedHasPassed = r.isCachedHasPassed
      /\ s = [taggingFilters |-> s.taggingFilters, filterDecisions |-> s.filterDecisions,
              cacheHasPassed |-> s.cacheHasPassed, isCachedHasPassed |-> s.isCachedHasPassed]
  BY DEF AddFilterNames, IsFilterResult
<1>5. Listed(s) = Listed(r) \cup Range(fn)
  BY <1>4 DEF Listed, Fresh
<1>6. \A n \in Listed(r) : s.filterDecisions[n] = r.filterDecisions[n]
  BY <1>4
<1>7. \A n \in fresh : /\ s.filterDecisions[n].filterDecision = "Undefined"
                       /\ s.filterDecisions[n].taggingMode = IsTaggingFilter(r, n)
                       /\ s.filterDecisions[n] \in DecisionEntry
  <2> SUFFICES ASSUME NEW n \in fresh
               PROVE  /\ s.filterDecisions[n].filterDecision = "Undefined"
                      /\ s.filterDecisions[n].taggingMode = IsTaggingFilter(r, n)
                      /\ s.filterDecisions[n] \in DecisionEntry
    OBVIOUS
  <2>1. s.filterDecisions[n] =
          [filterDecision |-> "Undefined",
           taggingMode    |-> IsTaggingFilter(r, n),
           place          |-> Cardinality(Listed(r)) + Cardinality(rank(n))]
    BY <1>4 DEF Fresh, FreshEntry
  <2>2. Cardinality(Listed(r)) + Cardinality(rank(n)) \in Nat
    <3>1. Cardinality(Listed(r)) \in Nat
      BY FieldTypes
    <3>2. Cardinality(rank(n)) \in Nat
      BY <1>3
    <3>3. \A i, j \in Nat : i + j \in Nat
      OBVIOUS
    <3>4. QED
      BY <3>1, <3>2, <3>3
  <2>3. IsTaggingFilter(r, n) \in TaggingMode
    BY DEF IsTaggingFilter, TaggingMode
  <2>4. QED
    BY <2>1, <2>2, <2>3 DEF DecisionEntry, Decision
<1>8. IsFilterResult(s)
  <2>1. \A n \in Listed(s) : s.filterDecisions[n] \in DecisionEntry
    BY <1>4, <1>6, <1>7, FieldTypes DEF Listed
  <2>2. s.filterDecisions \in [Listed(s) -> DecisionEntry]
    BY <1>4, <2>1 DEF Listed
  <2>3. Listed(s) \subseteq FilterName
    BY <1>1, <1>5, FieldTypes
  <2>4. QED
    BY <1>4, <2>2, <2>3, FieldTypes DEF IsFilterResult, Listed
<1>9. Rejecting(s) = Rejecting(r)
  <2>1. \A n \in fresh : s.filterDecisions[n].filterDecision # "NotPassed"
    BY <1>7
  <2>2. QED
    BY <1>4, <1>6, <2>1 DEF Rejecting, Listed
<1>10. HasPassed(s) = HasPassed(r) /\ (CacheCoherent(r) => CacheCoherent(s))
  BY <1>4, <1>9 DEF HasPassed, CacheCoherent
<1>11. QED
  BY <1>4, <1>5, <1>6, <1>7, <1>8, <1>9, <1>10 DEF Fresh

\* The overload that extends the tagging filters first: the modes of the listed
\* entries do not change with it, so neither does the verdict.
LEMMA AddNamesTaggingPreserves ==
  ASSUME NEW r, IsFilterResult(r), NEW fn \in Seq(FilterName),
         NEW tagging \in SUBSET FilterName
  PROVE  LET s == AddFilterNamesTagging(r, fn, tagging)
         IN  /\ IsFilterResult(s)
             /\ Listed(s) = Listed(r) \cup Range(fn)
             /\ \A n \in Listed(r) : s.filterDecisions[n] = r.filterDecisions[n]
             /\ s.taggingFilters = r.taggingFilters \cup tagging
             /\ \A n \in Range(fn) \ Listed(r) :
                  /\ s.filterDecisions[n].filterDecision = "Undefined"
                  /\ s.filterDecisions[n].taggingMode = IsTaggingFilter(s, n)
             /\ Rejecting(s) = Rejecting(r)
             /\ HasPassed(s) = HasPassed(r)
             /\ CacheCoherent(r) => CacheCoherent(s)
<1> DEFINE x == [r EXCEPT !.taggingFilters = @ \cup tagging]
<1>1. /\ x.filterDecisions = r.filterDecisions
      /\ x.cacheHasPassed = r.cacheHasPassed
      /\ x.isCachedHasPassed = r.isCachedHasPassed
      /\ x.taggingFilters = r.taggingFilters \cup tagging
      /\ IsFilterResult(x)
  BY DEF IsFilterResult
<1>2. Listed(x) = Listed(r) /\ Rejecting(x) = Rejecting(r)
  BY <1>1 DEF Listed, Rejecting
<1>3. HasPassed(x) = HasPassed(r) /\ (CacheCoherent(r) => CacheCoherent(x))
  BY <1>1, <1>2 DEF HasPassed, CacheCoherent
<1>4. AddFilterNamesTagging(r, fn, tagging) = AddFilterNames(x, fn)
  BY DEF AddFilterNamesTagging
<1> HIDE DEF x
<1>5. \A s, n : s.taggingFilters = x.taggingFilters
               => IsTaggingFilter(s, n) = IsTaggingFilter(x, n)
  BY DEF IsTaggingFilter
<1>6. QED
  BY <1>1, <1>2, <1>3, <1>4, <1>5, AddNamesPreserves

\* A newly constructed object is undecided, uncached and passes.
LEMMA NewPreserves ==
  ASSUME NEW fn \in Seq(FilterName), NEW tagging \in SUBSET FilterName
  PROVE  LET s == NewFilterResult(fn, tagging)
         IN  /\ IsFilterResult(s)
             /\ Listed(s) = Range(fn)
             /\ s.taggingFilters = tagging
             /\ \A n \in Listed(s) :
                  /\ s.filterDecisions[n].filterDecision = "Undefined"
                  /\ s.filterDecisions[n].taggingMode = IsTaggingFilter(s, n)
             /\ Rejecting(s) = {}
             /\ CacheCoherent(s)
             /\ HasPassed(s)
<1> DEFINE e == [EmptyFilterResult EXCEPT !.taggingFilters = tagging]
<1>1. /\ IsFilterResult(e) /\ Listed(e) = {} /\ Rejecting(e) = {} /\ ~e.isCachedHasPassed
      /\ e.taggingFilters = tagging
  BY DEF EmptyFilterResult, IsFilterResult, Listed, Rejecting
<1>2. CacheCoherent(e) /\ HasPassed(e)
  BY <1>1 DEF CacheCoherent, HasPassed
<1>3. NewFilterResult(fn, tagging) = AddFilterNames(e, fn)
  BY DEF NewFilterResult
<1> HIDE DEF e
<1> DEFINE s == AddFilterNames(e, fn)
<1>4. /\ IsFilterResult(s)
      /\ Listed(s) = Range(fn)
      /\ Rejecting(s) = {}
      /\ CacheCoherent(s)
      /\ HasPassed(s)
  <2>1. IsFilterResult(s) /\ Listed(s) = {} \cup Range(fn) /\ Rejecting(s) = {}
    BY <1>1, AddNamesPreserves
  <2>2. CacheCoherent(s)
    BY <1>1, <1>2, AddNamesPreserves
  <2>3. HasPassed(s) = HasPassed(e)
    BY <1>1, AddNamesPreserves
  <2>4. QED
    BY <1>2, <2>1, <2>2, <2>3
<1>5. /\ s.taggingFilters = tagging
      /\ \A n \in Listed(s) : /\ s.filterDecisions[n].filterDecision = "Undefined"
                              /\ s.filterDecisions[n].taggingMode = IsTaggingFilter(e, n)
  BY <1>1, <1>4, AddNamesPreserves
<1>6. \A n : IsTaggingFilter(e, n) = IsTaggingFilter(s, n)
  BY <1>1, <1>5 DEF IsTaggingFilter
<1>7. QED
  BY <1>3, <1>4, <1>5, <1>6

\* Recording a decision keeps the other entries, the mode of the entry it
\* overwrites, and the coherence of the cache: a cached verdict survives only if
\* the decision cannot overturn it.
LEMMA SetDecisionPreserves ==
  ASSUME NEW r, IsFilterResult(r), CacheCoherent(r),
         NEW n \in FilterName, NEW passed \in BOOLEAN
  PROVE  LET s == SetFilterDecision(r, n, passed)
         IN  /\ IsFilterResult(s)
             /\ CacheCoherent(s)
             /\ Listed(s) = Listed(r) \cup {n}
             /\ \A m \in Listed(r) \ {n} : s.filterDecisions[m] = r.filterDecisions[m]
             /\ s.taggingFilters = r.taggingFilters
             /\ s.filterDecisions[n].filterDecision = IF passed THEN "Passed" ELSE "NotPassed"
             /\ n \notin Listed(r) => s.filterDecisions[n].taggingMode = IsTaggingFilter(r, n)
             /\ n \in Listed(r) =>
                  /\ s.filterDecisions[n].taggingMode = r.filterDecisions[n].taggingMode
                  /\ s.filterDecisions[n].place = r.filterDecisions[n].place
<1> DEFINE s == SetFilterDecision(r, n, passed)
           decision == IF passed THEN "Passed" ELSE "NotPassed"
           entry == DecidedEntry(r, n, passed)
           list == [m \in Listed(r) \cup {n} |->
                      IF m = n THEN entry ELSE r.filterDecisions[m]]
           cached == IF r.cacheHasPassed # passed THEN FALSE ELSE r.isCachedHasPassed
<1>1. /\ s.filterDecisions = list
      /\ s.taggingFilters = r.taggingFilters
      /\ s.cacheHasPassed = r.cacheHasPassed
      /\ s.isCachedHasPassed = cached
      /\ s = [taggingFilters |-> s.taggingFilters, filterDecisions |-> s.filterDecisions,
              cacheHasPassed |-> s.cacheHasPassed, isCachedHasPassed |-> s.isCachedHasPassed]
  <2>1. s = [r EXCEPT !.filterDecisions = list, !.isCachedHasPassed = cached]
    BY DEF SetFilterDecision
  <2> HIDE DEF s, list, cached
  <2>2. QED
    BY <2>1 DEF IsFilterResult
<1>2. decision \in Decision
  BY DEF Decision
<1>3. entry \in DecisionEntry /\ entry.filterDecision = decision
  <2>1. CASE n \in Listed(r)
    BY <1>2, <2>1, FieldTypes DEF DecidedEntry, DecisionEntry
  <2>2. CASE n \notin Listed(r)
    <3>1. Cardinality(Listed(r)) + 1 \in Nat
      <4>1. Cardinality(Listed(r)) \in Nat
        BY FieldTypes
      <4>2. \A i \in Nat : i + 1 \in Nat
        OBVIOUS
      <4>3. QED
        BY <4>1, <4>2
    <3>2. IsTaggingFilter(r, n) \in TaggingMode
      BY DEF IsTaggingFilter, TaggingMode
    <3>3. entry = [filterDecision |-> decision,
                   taggingMode    |-> IsTaggingFilter(r, n),
                   place          |-> Cardinality(Listed(r)) + 1]
      BY <2>2 DEF DecidedEntry
    <3>4. QED
      BY <1>2, <3>1, <3>2, <3>3 DEF DecisionEntry
  <2>3. QED
    BY <2>1, <2>2
<1>4. n \in Listed(r) => /\ entry.taggingMode = r.filterDecisions[n].taggingMode
                         /\ entry.place = r.filterDecisions[n].place
  BY FieldTypes DEF DecidedEntry, DecisionEntry
<1>5. n \notin Listed(r) => entry.taggingMode = IsTaggingFilter(r, n)
  BY DEF DecidedEntry
<1> HIDE DEF entry, s
<1>6. /\ Listed(s) = Listed(r) \cup {n}
      /\ s.filterDecisions[n] = entry
      /\ \A m \in Listed(r) \ {n} : s.filterDecisions[m] = r.filterDecisions[m]
  BY <1>1 DEF Listed
<1>7. IsFilterResult(s)
  <2>1. \A m \in Listed(s) : s.filterDecisions[m] \in DecisionEntry
    BY <1>3, <1>6, FieldTypes
  <2>2. s.filterDecisions \in [Listed(s) -> DecisionEntry]
    BY <1>1, <2>1 DEF Listed
  <2>3. Listed(s) \subseteq FilterName
    BY <1>6, FieldTypes
  <2>4. QED
    BY <1>1, <2>2, <2>3, FieldTypes DEF IsFilterResult, Listed
<1>8. CacheCoherent(s)
  <2>1. SUFFICES ASSUME s.isCachedHasPassed
                 PROVE  s.cacheHasPassed = (Rejecting(s) = {})
    BY DEF CacheCoherent
  <2>2. r.isCachedHasPassed /\ r.cacheHasPassed = passed /\ s.cacheHasPassed = passed
    BY <1>1, <2>1
  <2>3. passed = (Rejecting(r) = {})
    BY <2>2 DEF CacheCoherent
  <2>4. CASE passed
    <3>1. entry.filterDecision # "NotPassed"
      BY <1>3, <2>4
    <3>2. Rejecting(s) \subseteq Rejecting(r)
      BY <1>6, <3>1 DEF Rejecting
    <3>3. QED
      BY <2>2, <2>3, <2>4, <3>2
  <2>5. CASE ~passed
    <3>1. PICK m \in Rejecting(r) : TRUE
      BY <2>3, <2>5
    <3>2. m \in Rejecting(s)
      <4>1. CASE m = n
        BY <1>3, <1>4, <1>6, <2>5, <3>1, <4>1 DEF Rejecting
      <4>2. CASE m # n
        BY <1>6, <3>1, <4>2 DEF Rejecting
      <4>3. QED
        BY <4>1, <4>2
    <3>3. QED
      BY <2>2, <2>5, <3>2
  <2>6. QED
    BY <2>4, <2>5
<1>9. QED
  BY <1>1, <1>3, <1>4, <1>5, <1>6, <1>7, <1>8 DEF s
=============================================================================
