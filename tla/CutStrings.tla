------------------------------ MODULE CutStrings ------------------------------
(***************************************************************************)
(* The cut and weight expressions of HenryPlotter (python/cutstring.py):   *)
(* Weight, Constant, Weights, Cut and Cuts.                                *)
(*                                                                         *)
(* A cut string is one comparison of a variable (of letters and digits)    *)
(* with a number, its operator may be one the class does not know, like >=;*)
(* two cut strings joined by a connective; or a flag without an operator.  *)
(* Cut objects live on a heap: a Cuts object holds references, so that the *)
(* sum of two Cuts shares their Cut objects, and Weights.square puts one   *)
(* object into its list twice.  A weight string is a product of numbers:   *)
(* its value for some event.                                               *)
(***************************************************************************)
EXTENDS Integers, Sequences, SequencesExt, TLC

CONSTANT None

\* The strings of the comparison operators (cutstring.py:14, 15).
supported_operators == <<"<", ">", "&&", "||", "==", "!=">>
\* Mutant: the operator == is kept.
EqualityKept == <<">", "<", "||", "&&", "==", "!=">>
inverted_operators == <<">", "<", "||", "&&", "!=", "==">>

Compare(v, o, n) == [kind |-> "compare", var |-> v, op |-> o, value |-> n]
Join(o, l, r) == [kind |-> "join", op |-> o, left |-> l, right |-> r]
Flag(v) == [kind |-> "flag", var |-> v]

RECURSIVE OperatorsIn(_), Alphanumeric(_)
\* The operators that occur in the string, from left to right.
OperatorsIn(s) ==
  CASE s.kind = "flag" -> <<>>
    [] s.kind = "compare" -> IF s.op = ">=" THEN <<">">> ELSE <<s.op>>
    [] s.kind = "join" -> OperatorsIn(s.left) \o <<s.op>> \o OperatorsIn(s.right)
\* Its letters and digits: the sign of the number, ==, != and the connectives go.
Alphanumeric(s) ==
  LET Word(o) == CASE o \in {">", ">="} -> "Gt" [] o = "<" -> "St" [] OTHER -> ""
      Digits(n) == ToString(IF n < 0 THEN -n ELSE n)
  IN  CASE s.kind = "flag" -> s.var
        [] s.kind = "compare" -> s.var \o Word(s.op) \o Digits(s.value)
        [] s.kind = "join" -> Alphanumeric(s.left) \o Alphanumeric(s.right)

-----------------------------------------------------------------------------
\* class Cut.  The constructor takes the first operator it knows; only a string in
\* which it alone is found, once, is parsed, and its right side has to be a number.
update_weightstring(c) ==
  IF c.varleft # None /\ c.operator # None /\ c.varright # None
  THEN [c EXCEPT !.weightstring = Compare(c.varleft, c.operator, c.varright)] ELSE c

Unparsed(s, name) ==
  [weightstring |-> s, name |-> IF name = None THEN Alphanumeric(s) ELSE name, varleft |-> None, operator |-> None, varright |-> None]
IsNumber(s) == s.kind = "compare" /\ s.op # ">="

NewCut(s, name, operators) ==
  CASE operators = <<>> -> [error |-> "IndexError", cut |-> Unparsed(s, name)]
    [] Len(OperatorsIn(s)) = 1 /\ ~IsNumber(s) -> [error |-> "ValueError", cut |-> Unparsed(s, name)]
    [] Len(OperatorsIn(s)) = 1 /\ IsNumber(s) ->
         [error |-> "none", cut |-> update_weightstring([Unparsed(s, name) EXCEPT !.varleft = s.var, !.operator = operators[1], !.varright = s.value])]
    [] Len(OperatorsIn(s)) > 1 -> [error |-> "none", cut |-> [Unparsed(s, name) EXCEPT !.operator = operators[1]]]
Cut(s, name) == NewCut(s, name, SelectSeq(supported_operators, LAMBDA o : o \in Range(OperatorsIn(s))))

IndexOf(o) == CHOOSE i \in DOMAIN supported_operators : supported_operators[i] = o
invert(c) == update_weightstring([c EXCEPT !.operator = inverted_operators[IndexOf(c.operator)]])
set_value(c, n) == update_weightstring([c EXCEPT !.varright = n])
set_variable(c, v) == update_weightstring([c EXCEPT !.varleft = v])

\* Whether an event passes a comparison, and the whole string, as ROOT evaluates it.
Passes(o, x, n) ==
  CASE o = "<" -> x < n
    [] o = ">" -> x > n
    [] o = ">=" -> x >= n
    [] o = "==" -> x = n
    [] o = "!=" -> x # n
    [] o = "&&" -> x # 0 /\ n # 0
    [] o = "||" -> x # 0 \/ n # 0
RECURSIVE Accepts(_, _)
Accepts(s, event) ==
  CASE s.kind = "flag" -> event[s.var] # 0
    [] s.kind = "compare" -> Passes(s.op, event[s.var], s.value)
    [] s.kind = "join" /\ s.op = "&&" -> Accepts(s.left, event) /\ Accepts(s.right, event)
    [] s.kind = "join" /\ s.op = "||" -> Accepts(s.left, event) \/ Accepts(s.right, event)

-----------------------------------------------------------------------------
\* class Cuts over the heap of Cut objects: a sequence of references.
Holds(heap, refs, name) == \E i \in DOMAIN refs : heap[refs[i]].name = name
First(heap, refs, name) == refs[CHOOSE i \in DOMAIN refs : /\ heap[refs[i]].name = name
                                                           /\ \A j \in 1 .. i - 1 : heap[refs[j]].name # name]
Removed(heap, refs, name) == SelectSeq(refs, LAMBDA r : heap[r].name # name)
expand(heap, refs, event) == \A i \in DOMAIN refs : Accepts(heap[refs[i]].weightstring, event)

\* Cuts.add, for every reference of a sequence in turn: the name has to be new.
AddOne(heap, sum, r) == IF sum.error = "none" /\ Holds(heap, sum.refs, heap[r].name)
                        THEN [sum EXCEPT !.error = "LookupError"]
                        ELSE IF sum.error = "none" THEN [sum EXCEPT !.refs = Append(@, r)] ELSE sum
AddAll(heap, sum, refs) == FoldLeft(LAMBDA acc, r : AddOne(heap, acc, r), sum, refs)
\* Cuts.__add__: a new holder with the objects of both.
Plus(heap, a, b) == AddAll(heap, AddAll(heap, [error |-> "none", refs |-> <<>>], a), b)

-----------------------------------------------------------------------------
\* class Weights over the heap of Weight objects, each with a name and a value.
extract(heap, refs) == FoldLeft(LAMBDA product, r : product * heap[r].value, 1, refs)

\* The message about a name that is not unique uses a variable that does not exist.
AddWeightTo(heap, refs, r) == IF Holds(heap, refs, heap[r].name) THEN [error |-> "NameError", refs |-> refs]
                                                                 ELSE [error |-> "none", refs |-> Append(refs, r)]
\* square: the object is renamed and put into the list once more.
square(heap, refs, r) == [heap |-> [heap EXCEPT ![r].name = @ \o "2"], refs |-> Append(refs, r)]

-----------------------------------------------------------------------------
CONSTANTS
  CutInputs,    \* the pairs of a cut string and a name or None that are given to Cut
  WeightInputs, \* the records [name, value, constant] that are given to Weight and Constant
  Values,       \* numbers for set_value, and the values of the variables of an event
  Variables,    \* the variables of an event
  MaxCuts,      \* bound on the Cut objects
  MaxWeights,   \* bound on the entries of the Weights object
  MaxCalls      \* bound on the calls of a behaviour

VARIABLES
  cuts,         \* the heap of Cut objects
  category, estimation, combined,  \* Cuts objects; combined is category + estimation
  weights,      \* the heap of Weight objects
  product,      \* a Weights object
  error,        \* the exception of the last call
  calls

cutVars == <<cuts, category, estimation, combined>>
weightVars == <<weights, product>>
vars == <<cutVars, weightVars, error, calls>>
Event == [Variables -> Values]

Init == /\ cuts = <<>> /\ category = <<>> /\ estimation = <<>> /\ combined = <<>>
        /\ weights = <<>> /\ product = <<>>
        /\ error = "none" /\ calls = 0

Call == calls < MaxCalls /\ calls' = calls + 1

\* Cuts.add(Cut(string, name)) to the cuts of the category or of the estimation.
NewCutIn(new, held) ==
  /\ Len(cuts) < MaxCuts
  /\ IF new.error # "none" THEN error' = new.error /\ UNCHANGED <<cuts, held>>
     ELSE IF Holds(cuts, held, new.cut.name) THEN error' = "LookupError" /\ UNCHANGED <<cuts, held>>
     ELSE error' = "none" /\ cuts' = Append(cuts, new.cut) /\ held' = Append(held, Len(cuts) + 1)
AddCut == /\ Call /\ UNCHANGED <<combined, weightVars>>
          /\ \E input \in CutInputs :
               \/ NewCutIn(Cut(input[1], input[2]), category) /\ UNCHANGED estimation
               \/ NewCutIn(Cut(input[1], input[2]), estimation) /\ UNCHANGED category

\* combined = category + estimation
Add == /\ Call /\ UNCHANGED <<cuts, category, estimation, weightVars>>
       /\ \E sum \in {Plus(cuts, category, estimation)} :
            /\ error' = sum.error
            /\ combined' = IF sum.error = "none" THEN sum.refs ELSE combined

\* get(name) and a method of the Cut object; an unknown name is a KeyError.
Change(refs, name, Method(_)) ==
  IF Holds(cuts, refs, name) THEN error' = "none" /\ \E r \in {First(cuts, refs, name)} : cuts' = [cuts EXCEPT ![r] = Method(@)]
                             ELSE error' = "KeyError" /\ UNCHANGED cuts
CutNames == {Cut(input[1], input[2]).cut.name : input \in CutInputs}
Holders == {category, estimation, combined}
Invert == /\ Call /\ UNCHANGED <<category, estimation, combined, weightVars>>
          /\ \E name \in CutNames, refs \in Holders : Change(refs, name, invert)
SetValue == /\ Call /\ UNCHANGED <<category, estimation, combined, weightVars>>
            /\ \E name \in CutNames, refs \in Holders, n \in Values : Change(refs, name, LAMBDA c : set_value(c, n))
SetVariable == /\ Call /\ UNCHANGED <<category, estimation, combined, weightVars>>
               /\ \E name \in CutNames, refs \in Holders, v \in Variables : Change(refs, name, LAMBDA c : set_variable(c, v))

\* Cuts.remove: an unknown name is no error.
RemoveCut == /\ Call /\ error' = "none" /\ UNCHANGED <<cuts, weightVars>>
             /\ \E name \in CutNames :
                  \/ category' = Removed(cuts, category, name) /\ UNCHANGED <<estimation, combined>>
                  \/ combined' = Removed(cuts, combined, name) /\ UNCHANGED <<category, estimation>>

\* Weights.add(Weight(..)) or of a Constant; both need a name.
Nameless(w) == w.name = None
AddWeight == /\ Call /\ UNCHANGED cutVars /\ Len(product) < MaxWeights
             /\ \E w \in WeightInputs :
                  IF Nameless(w) THEN error' = "ValueError" /\ UNCHANGED weightVars
                  ELSE \E heap \in {Append(weights, w)} : \E new \in {AddWeightTo(heap, product, Len(heap))} :
                         /\ error' = new.error /\ product' = new.refs
                         /\ weights' = IF new.error = "none" THEN heap ELSE weights

WeightNames == {w.name : w \in {v \in WeightInputs : ~Nameless(v)} \cup Range(weights)}
RemoveWeight == /\ Call /\ UNCHANGED <<cutVars, weights>>
                /\ \E name \in WeightNames :
                     IF Holds(weights, product, name) THEN error' = "none" /\ product' = Removed(weights, product, name)
                                                      ELSE error' = "KeyError" /\ UNCHANGED product
SquareWeight == /\ Call /\ UNCHANGED cutVars /\ Len(product) < MaxWeights
                /\ \E name \in WeightNames :
                     IF Holds(weights, product, name)
                     THEN /\ error' = "none"
                          /\ \E new \in {square(weights, product, First(weights, product, name))} :
                               weights' = new.heap /\ product' = new.refs
                     ELSE error' = "KeyError" /\ UNCHANGED weightVars

\* Constant.invert looks up a variable of its constructor: NameError before any change.
InvertConstant == /\ Call /\ UNCHANGED <<cutVars, weightVars>>
                  /\ \E i \in DOMAIN weights : weights[i].constant /\ error' = "NameError"

Next == \/ AddCut \/ Add \/ Invert \/ SetValue \/ SetVariable \/ RemoveCut
        \/ AddWeight \/ RemoveWeight \/ SquareWeight \/ InvertConstant

Spec == Init /\ [][Next]_vars

-----------------------------------------------------------------------------
\* No Cuts object ever holds two cuts of one name, whatever was added to it or summed
\* up in it: get(name) and remove(name) mean one cut (cutstring.py:194-237).
OneCutPerName == \A refs \in {category, estimation, combined} :
                   \A i, j \in DOMAIN refs : cuts[refs[i]].name = cuts[refs[j]].name => i = j
\* Inverting a cut a second time gives the cut back, after every change of its value
\* and variable, compound cuts included (cutstring.py:146-155).
InvertTwice == \A i \in DOMAIN cuts : invert(invert(cuts[i])) = cuts[i]
\* No event passes a parsed cut and its inverse: the region of a background estimate
\* does not overlap the signal region (estimation_methods.py:244).
RegionsDisjoint == \A i \in DOMAIN cuts : \A event \in Event :
  cuts[i].varleft # None /\ cuts[i].varright # None /\ cuts[i].operator \in {"<", ">", "==", "!="} =>
    ~(Accepts(cuts[i].weightstring, event) /\ Accepts(invert(cuts[i]).weightstring, event))
\* What passes the sum of the cuts of a category and of an estimation passes both, and
\* only that (cutstring.py:194-201).
SumSelectsBoth == Add /\ error' = "none" => \A event \in Event :
  expand(cuts', combined', event) <=> expand(cuts, category, event) /\ expand(cuts, estimation, event)
\* Squaring a weight applies it exactly once more, and no other (cutstring.py:112-116).
SquareAppliesOnceMore == SquareWeight /\ error' = "none" =>
  \E r \in DOMAIN weights : /\ weights'[r].name # weights[r].name
                            /\ extract(weights', product') = extract(weights, product) * weights[r].value
\* A removed weight is gone, also one that was squared and is in the list more than
\* once; the others stay (cutstring.py:104-110).
RemovedIsGone == RemoveWeight /\ error' = "none" => \E name \in WeightNames :
  /\ Holds(weights, product, name) /\ ~Holds(weights, product', name)
  /\ \A i \in DOMAIN product : weights[product[i]].name # name => \E j \in DOMAIN product' : product'[j] = product[i]
=============================================================================
