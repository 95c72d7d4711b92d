-------------------------------- MODULE Lists --------------------------------
(***************************************************************************)
(* Operators on finite sequences and on sets of positions, in a form that  *)
(* can be reasoned about: by a count, or by a recursive function.          *)
(***************************************************************************)
EXTENDS Integers, FiniteSets, Sequences

(* The i-th smallest element of a set of positive numbers.                 *)
Nth(S, i) == CHOOSE k \in S : Cardinality(S \cap 1..k) = i

(* What a sequence has at these positions, in its order.                   *)
Picked(s, S) == [i \in 1..Cardinality(S) |-> s[Nth(S, i)]]
Ascending(S) == [i \in 1..Cardinality(S) |-> Nth(S, i)]
Backwards(s) == [i \in 1..Len(s) |-> s[Len(s) + 1 - i]]

(* Each element where it comes first.                                      *)
Distinct(s) == Picked(s, {i \in DOMAIN s : \A j \in 1..(i - 1) : s[j] # s[i]})

(* One after the other.                                                    *)
Concat(ss) ==
  LET joined[i \in 0..Len(ss)] == IF i = 0 THEN <<>> ELSE joined[i - 1] \o ss[i]
  IN  joined[Len(ss)]
=============================================================================
