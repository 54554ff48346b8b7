------------------------- MODULE FilterResultMachine -------------------------
(***************************************************************************)
(* One FilterResult under every sequence of calls its users can make: the  *)
(* event loop and the pipelines construct it, extend it with names and     *)
(* tagging filters, record decisions and ask for the verdict, in any       *)
(* order.  "told" is a history variable: what each filter last said.       *)
(***************************************************************************)
EXTENDS FilterResult

CONSTANT NameLists    \* the lists of filter names a settings object can hold

ASSUME NameListsType == NameLists \subseteq Seq(FilterName)

\* For model checking: the lists of up to two names, some with a name twice.
ShortLists == UNION {[1 .. k -> FilterName] : k \in 0 .. 2}

VARIABLES fres,       \* the object
          told,       \* last decision recorded for each name
          answer      \* the last answer of HasPassed, "none" once it may be outdated

vars == <<fres, told, answer>>

Init ==
  /\ \E fn \in NameLists, tagging \in SUBSET FilterName : fres = NewFilterResult(fn, tagging)
  /\ told = [n \in FilterName |-> "Undefined"]
  /\ answer = "none"

\* Pipeline::RunEvent extends its copy with the names of the pipeline.
Extend(fn, tagging) ==
  /\ fres' = AddFilterNamesTagging(fres, fn, tagging)
  /\ UNCHANGED <<told, answer>>

Decide(n, passed) ==
  /\ fres' = SetFilterDecision(fres, n, passed)
  /\ told' = [told EXCEPT ![n] = IF passed THEN "Passed" ELSE "NotPassed"]
  /\ answer' = "none"

Ask ==
  /\ fres' = AfterHasPassed(fres)
  /\ answer' = IF HasPassed(fres) THEN "yes" ELSE "no"
  /\ UNCHANGED told

Next ==
  \/ \E fn \in NameLists, tagging \in SUBSET FilterName : Extend(fn, tagging)
  \/ \E n \in FilterName, passed \in BOOLEAN : Decide(n, passed)
  \/ Ask

Spec == Init /\ [][Next]_vars

-----------------------------------------------------------------------------
TypeOK ==
  /\ IsFilterResult(fres)
  /\ told \in [FilterName -> Decision]
  /\ answer \in {"none", "yes", "no"}

\* Whatever was decided, re-decided or appended in between, the verdict that
\* HasPassed last gave is the one the filters' latest decisions imply: "no"
\* exactly when a listed filter that is not a tagger last said no.  It fails if
\* SetFilterDecision keeps a cached verdict that its decision overturns.
VerdictFollowsDecisions ==
  answer # "none" =>
    (answer = "no" <=> \E n \in Listed(fres) :
                          /\ told[n] = "NotPassed"
                          /\ fres.filterDecisions[n].taggingMode = "Filtering")

\* The cache never disagrees with the list it summarises, also between calls:
\* Pipeline::RunEvent copies the object, cache included.
CacheIsCoherent == CacheCoherent(fres)

\* An entry is never dropped or moved, and its tagging mode is fixed when it is
\* appended: a tagging filter declared later does not turn a filter into a tagger.
EntriesStay ==
  [][\A n \in Listed(fres) :
        /\ n \in Listed(fres')
        /\ fres'.filterDecisions[n].taggingMode = fres.filterDecisions[n].taggingMode
        /\ fres'.filterDecisions[n].place = fres.filterDecisions[n].place]_vars

-----------------------------------------------------------------------------
(***************************************************************************)
(* Every FilterResult, for every finite set of names and every sequence of *)
(* calls, answers HasPassed by the latest decisions of its filters.        *)
(***************************************************************************)
\* The list records what each filter last said, and an answer that is still
\* current is the one in the cache.
Records ==
  /\ \A n \in Listed(fres) : fres.filterDecisions[n].filterDecision = told[n]
  /\ \A n \in FilterName \ Listed(fres) : told[n] = "Undefined"
  /\ answer # "none" => /\ fres.isCachedHasPassed
                        /\ fres.cacheHasPassed = (answer = "yes")

IInv == TypeOK /\ CacheIsCoherent /\ Records

\* The inductive invariant holds in every reachable state of the object.
THEOREM Inductive == Spec => []IInv
<1>1. Init => IInv
  <2> SUFFICES ASSUME Init
               PROVE  IInv
    OBVIOUS
  <2>1. PICK fn \in NameLists, tagging \in SUBSET FilterName :
           fres = NewFilterResult(fn, tagging)
    BY DEF Init
  <2>2. fn \in Seq(FilterName)
    BY NameListsType
  <2>3. /\ IsFilterResult(fres)
        /\ CacheCoherent(fres)
        /\ \A n \in Listed(fres) : fres.filterDecisions[n].filterDecision = "Undefined"
    BY <2>1, <2>2, NewPreserves
  <2>4. Listed(fres) \subseteq FilterName
    BY <2>3, FieldTypes
  <2>5. told = [n \in FilterName |-> "Undefined"] /\ answer = "none"
    BY DEF Init
  <2>6. QED
    BY <2>3, <2>4, <2>5 DEF IInv, TypeOK, CacheIsCoherent, Records, Decision
<1>2. IInv /\ [Next]_vars => IInv'
  <2> SUFFICES ASSUME IInv, [Next]_vars
               PROVE  IInv'
    OBVIOUS
  <2> USE DEF IInv, TypeOK, CacheIsCoherent
  <2>0. Listed(fres) \subseteq FilterName
    BY FieldTypes
  <2>1. ASSUME NEW fn \in NameLists, NEW tagging \in SUBSET FilterName, Extend(fn, tagging)
        PROVE  IInv'
    <3>1. fn \in Seq(FilterName)
      BY NameListsType
    <3>2. /\ IsFilterResult(fres')
          /\ CacheCoherent(fres')
          /\ Listed(fres') = Listed(fres) \cup Range(fn)
          /\ \A n \in Listed(fres) : fres'.filterDecisions[n] = fres.filterDecisions[n]
          /\ \A n \in Range(fn) \ Listed(fres) :
                fres'.filterDecisions[n].filterDecision = "Undefined"
      BY <2>1, <3>1, AddNamesTaggingPreserves DEF Extend
    <3>3. /\ fres'.isCachedHasPassed = fres.isCachedHasPassed
          /\ fres'.cacheHasPassed = fres.cacheHasPassed
      BY <2>1 DEF Extend, AddFilterNamesTagging, AddFilterNames, IsFilterResult
    <3>4. Listed(fres') \subseteq FilterName
      BY <3>2, FieldTypes
    <3>5. Records'
      BY <2>0, <2>1, <3>2, <3>3, <3>4 DEF Records, Extend
    <3>6. QED
      BY <2>1, <3>2, <3>5 DEF Extend
  <2>2. ASSUME NEW n \in FilterName, NEW passed \in BOOLEAN, Decide(n, passed)
        PROVE  IInv'
    <3>1. /\ IsFilterResult(fres')
          /\ CacheCoherent(fres')
          /\ Listed(fres') = Listed(fres) \cup {n}
          /\ \A m \in Listed(fres) \ {n} : fres'.filterDecisions[m] = fres.filterDecisions[m]
          /\ fres'.filterDecisions[n].filterDecision = IF passed THEN "Passed" ELSE "NotPassed"
      BY <2>2, SetDecisionPreserves DEF Decide
    <3>2. told' = [told EXCEPT ![n] = IF passed THEN "Passed" ELSE "NotPassed"]
          /\ answer' = "none"
      BY <2>2 DEF Decide
    <3>3. Records'
      BY <2>0, <3>1, <3>2 DEF Records
    <3>4. QED
      BY <3>1, <3>2, <3>3 DEF Decision
  <2>3. CASE Ask
    <3>1. /\ IsFilterResult(fres')
          /\ CacheCoherent(fres')
          /\ fres'.filterDecisions = fres.filterDecisions
          /\ fres'.isCachedHasPassed
          /\ fres'.cacheHasPassed = HasPassed(fres)
      BY <2>3, AskPreserves DEF Ask
    <3>2. answer' = (IF HasPassed(fres) THEN "yes" ELSE "no") /\ told' = told
      BY <2>3 DEF Ask
    <3>3. HasPassed(fres) \in BOOLEAN
      BY HasPassedBoolean
    <3>4. fres'.cacheHasPassed = (answer' = "yes")
      BY <3>1, <3>2, <3>3
    <3>5. Records'
      BY <3>1, <3>2, <3>4 DEF Records, Listed
    <3>6. QED
      BY <3>1, <3>2, <3>5
  <2>4. CASE UNCHANGED vars
    BY <2>4 DEF vars, Records
  <2>5. QED
    BY <2>1, <2>2, <2>3, <2>4 DEF Next
<1>3. QED
  BY <1>1, <1>2, PTL DEF Spec

\* The variables keep their types.
THEOREM TypeCorrect == Spec => []TypeOK
<1>1. IInv => TypeOK
  BY DEF IInv
<1>2. QED
  BY <1>1, Inductive, PTL

\* The cached verdict never disagrees with the list of decisions.
THEOREM CacheCorrect == Spec => []CacheIsCoherent
<1>1. IInv => CacheIsCoherent
  BY DEF IInv
<1>2. QED
  BY <1>1, Inductive, PTL

\* The verdict last given is the one the filters' latest decisions imply.
THEOREM VerdictCorrect == Spec => []VerdictFollowsDecisions
<1>1. IInv => VerdictFollowsDecisions
  <2> SUFFICES ASSUME IInv, answer # "none"
               PROVE  answer = "no" <=> \E n \in Listed(fres) :
                          /\ told[n] = "NotPassed"
                          /\ fres.filterDecisions[n].taggingMode = "Filtering"
    BY DEF VerdictFollowsDecisions
  <2>1. fres.cacheHasPassed = (Rejecting(fres) = {})
    BY DEF IInv, Records, CacheIsCoherent, CacheCoherent
  <2>2. (answer = "no") <=> Rejecting(fres) # {}
    BY <2>1 DEF IInv, Records, TypeOK
  <2>3. QED
    BY <2>2 DEF IInv, Records, Rejecting
<1>2. QED
  BY <1>1, Inductive, PTL

\* No entry is ever dropped, moved in the list or changed in its tagging mode.
THEOREM EntriesStayPut == Spec => EntriesStay
<1>1. IInv /\ [Next]_vars =>
        [\A n \in Listed(fres) :
           /\ n \in Listed(fres')
           /\ fres'.filterDecisions[n].taggingMode = fres.filterDecisions[n].taggingMode
           /\ fres'.filterDecisions[n].place = fres.filterDecisions[n].place]_vars
  <2> SUFFICES ASSUME IInv, Next, NEW n \in Listed(fres)
               PROVE  /\ n \in Listed(fres')
                      /\ fres'.filterDecisions[n].taggingMode
                           = fres.filterDecisions[n].taggingMode
                      /\ fres'.filterDecisions[n].place = fres.filterDecisions[n].place
    OBVIOUS
  <2> USE DEF IInv, TypeOK, CacheIsCoherent
  <2>1. ASSUME NEW fn \in NameLists, NEW tagging \in SUBSET FilterName, Extend(fn, tagging)
        PROVE  n \in Listed(fres') /\ fres'.filterDecisions[n] = fres.filterDecisions[n]
    BY <2>1, NameListsType, AddNamesTaggingPreserves DEF Extend
  <2>2. ASSUME NEW k \in FilterName, NEW passed \in BOOLEAN, Decide(k, passed)
        PROVE  /\ n \in Listed(fres')
               /\ fres'.filterDecisions[n].taggingMode = fres.filterDecisions[n].taggingMode
               /\ fres'.filterDecisions[n].place = fres.filterDecisions[n].place
    BY <2>2, SetDecisionPreserves DEF Decide
  <2>3. ASSUME Ask
        PROVE  n \in Listed(fres') /\ fres'.filterDecisions[n] = fres.filterDecisions[n]
    BY <2>3, AskPreserves DEF Ask, Listed
  <2>4. QED
    BY <2>1, <2>2, <2>3 DEF Next
<1>2. QED
  BY <1>1, Inductive, PTL DEF Spec, EntriesStay
=============================================================================
