----------------------------- MODULE ListTools -----------------------------
(***************************************************************************)
(* The functions of Utility/python/tools.py on strings and lists: common   *)
(* parts of names, products of weights, white- and blacklists, and merged  *)
(* lists.  A string is the sequence of its characters (of its tokens, for  *)
(* a formula); a regular expression is the set of strings it is found in.  *)
(***************************************************************************)
EXTENDS Integers, Sequences, SequencesExt, FiniteSetsExt, TLC

\* The first of the longest runs of elements that s and t have in common.
Runs(s, t, n) == {i \in 1..(Len(s) - n + 1) : \E j \in 1..(Len(t) - n + 1) : SubSeq(s, i, i + n - 1) = SubSeq(t, j, j + n - 1)}
longest_common_substring(s, t) ==
  LET n == Max({0} \cup {k \in 1..Len(s) : Runs(s, t, k) # {}})
  IN  IF n = 0 THEN <<>> ELSE LET i == Min(Runs(s, t, n)) IN SubSeq(s, i, i + n - 1)

\* The first place of part in s.
First(s, part) == Min({i \in 1..(Len(s) - Len(part) + 1) : SubSeq(s, i, i + Len(part) - 1) = part})

\* The longest common run of two lists, at least shortest elements long, with the
\* common parts before and after it; between(s, t) is what stays of pieces without one.
CommonParts(list, other, shortest, between(_, _)) ==
  LET parts[from \in 1 .. Len(list) + 1, to \in 0 .. Len(list), start \in 1 .. Len(other) + 1, end \in 0 .. Len(other)] ==
        LET s == SubSeq(list, from, to)
            t == SubSeq(other, start, end)
            com == longest_common_substring(s, t)
            i == from + First(s, com) - 1
            j == start + First(t, com) - 1
        IN  IF Len(com) < shortest THEN between(s, t)
            ELSE parts[from, i - 1, start, j - 1] \o com \o parts[i + Len(com), to, j + Len(com), end]
  IN  parts[1, Len(list), 1, Len(other)]

\* The common parts of two strings, of at least two characters each.
find_common_string(s, t) == CommonParts(s, t, 2, LAMBDA u, v : <<>>)

-----------------------------------------------------------------------------
\* Formulas: a product is split at the stars outside of parentheses, factors
\* 1.0 are dropped, and every factor is put into parentheses.
Depth(f, from, to) == Cardinality({i \in from..to : f[i] = "("}) - Cardinality({i \in from..to : f[i] = ")"})
Stars(f) == {i \in 1..Len(f) : f[i] = "*" /\ Depth(f, 1, i - 1) = 0}
Cuts(f) == SetToSortSeq(Stars(f) \cup {0, Len(f) + 1}, <)

AddFactor(product, f) ==
  IF f = <<"1.0">> THEN product
  ELSE (IF product = <<>> THEN <<>> ELSE product \o <<"*">>) \o <<"(">> \o f \o <<")">>
make_multiplication(factors) ==
  LET product == FoldLeft(AddFactor, <<>>, factors)
  IN  IF product = <<>> THEN <<"(", "1.0", ")">> ELSE product

\* Every factor is split in its turn, and what is in parentheses instead of them.
clean_multiplication(formula) ==
  LET clean[from \in 1 .. Len(formula) + 1, to \in 0 .. Len(formula)] ==
        LET f == SubSeq(formula, from, to)
            factor(k) == clean[from + Cuts(f)[k], from + Cuts(f)[k + 1] - 2]
        IN  CASE Stars(f) # {} -> make_multiplication([k \in 1 .. Len(Cuts(f)) - 1 |-> factor(k)])
              [] Stars(f) = {} /\ f # <<>> /\ f[1] = "(" -> clean[from + 1, to - 1]
              [] OTHER -> f
  IN  clean[1, Len(formula)]

-----------------------------------------------------------------------------
\* The items found by the first expression of the whitelist, then those that are
\* left and found by the second one, ..., without the ones of the blacklist.
KeepListed(r, regex) ==
  [left |-> r.left, taken |-> r.taken \o SelectSeq(r.left, LAMBDA x : x \in regex)]
TakeListed(r, regex) ==
  [left |-> SelectSeq(r.left, LAMBDA x : x \notin regex), taken |-> r.taken \o SelectSeq(r.left, LAMBDA x : x \in regex)]
matching_sublist(input, white, black) ==
  LET whites == IF white = <<>> THEN input ELSE FoldLeft(TakeListed, [left |-> input, taken |-> <<>>], white).taken
  IN  SelectSeq(whites, LAMBDA x : \A i \in DOMAIN black : x \notin black[i])

-----------------------------------------------------------------------------
\* Merged lists: the matching blocks of difflib, and between them what the first
\* list has and what the second one has.  [raised] is the exception.
Raised(e) == [raised |-> e]
Failed(r) == "raised" \in DOMAIN r
Blocks(s, t) == CommonParts(s, t, 1, LAMBDA u, v : u \o v)
MergeTwo(s, t) == IF IsInjective(Blocks(s, t)) THEN [merged |-> Blocks(s, t)] ELSE Raised("ValueError")

\* More than two lists are merged in pairs, and the pairs by one more call, which
\* takes two arguments and no more.
MergeBoth(a, b) == IF Failed(a) THEN a ELSE IF Failed(b) THEN b ELSE MergeTwo(a.merged, b.merged)
merge_sequences(s) ==
  LET n == Len(s)
      pairs == [i \in 1..(n \div 2) |-> MergeTwo(s[2*i - 1], s[2*i])]
      all == IF n % 2 = 0 THEN pairs ELSE Append(pairs, [merged |-> s[n]])
  IN  CASE n = 1 -> [merged |-> s[1]]
        [] n = 2 -> MergeTwo(s[1], s[2])
        [] OTHER -> IF \E i \in DOMAIN all : Failed(all[i]) THEN Raised("ValueError")
                    ELSE IF Len(all) # 2 THEN Raised("TypeError") ELSE MergeBoth(all[1], all[2])
=============================================================================
