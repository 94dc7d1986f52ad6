--------------------------------- MODULE Rng ---------------------------------
(***************************************************************************)
(* What the generator of include/rng.hpp may return: each operator is the  *)
(* set of the possible results of the function it is named after.  Vectors *)
(* are sequences, so the element at index i of the code is s[i + 1].       *)
(***************************************************************************)
EXTENDS Integers, Sequences, FiniteSets, SequencesExt

\* The elements of a finite set in the order in which `before` puts them (std::sort).
Sorted(S, before(_, _)) ==
  [i \in 1 .. Cardinality(S) |->
     CHOOSE x \in S : Cardinality({y \in S : before(y, x)}) = i - 1]

\* operator()(lower, upper): upper is exclusive.
Draw(lower, upper) == lower .. upper - 1

\* The sorted vectors of n draws.
SortedDraws(n, lower, upper) ==
  {s \in [1 .. n -> Draw(lower, upper)] : \A i \in 1 .. n - 1 : s[i] <= s[i + 1]}

\* Where pos gets to in `while (pos < excluded.size() && excluded[pos] <= x+pos) pos++`.
Skip(x, pos, excluded) ==
  Min({q \in pos .. Len(excluded) : q = Len(excluded) \/ excluded[q + 1] > x + q})

\* The second loop of get_distinct, over the sorted draws.
Shifted(ans, excluded) ==
  LET pos[i \in 0 .. Len(ans)] ==
        IF i = 0 THEN 0 ELSE Skip(ans[i] + i - 1, pos[i - 1], excluded)
  IN  [i \in DOMAIN ans |-> ans[i] + i - 1 + pos[i]]

\* The first loop: what is excluded has been passed when it is compared, so every
\* number is taken.
EveryNumber(lower, upper) == [i \in 1 .. (IF upper > lower THEN upper - lower ELSE 0) |-> lower + i - 1]

get_distinct(amount, lower, upper, excluded) ==
  IF amount + lower + Len(excluded) >= upper
  THEN {EveryNumber(lower, upper)}
  ELSE {Shifted(s, excluded) : s \in SortedDraws(amount, lower, upper - amount - Len(excluded))}

\* choose_weighted: lower_bound of a number that may be 0 and may be the total.
choose_weighted(weight_ps) ==
  {Min({i \in DOMAIN weight_ps : weight_ps[i] >= r}) - 1 : r \in Draw(0, Last(weight_ps) + 1)}
==============================================================================
