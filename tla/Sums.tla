--------------------------------- MODULE Sums ---------------------------------
(***************************************************************************)
(* A sum of natural numbers over a finite set, as the number of units that *)
(* its members contribute, so that it can be reasoned about as a           *)
(* cardinality; and a sum of whole numbers along a sequence, as the loop   *)
(* that adds up its first terms.                                           *)
(***************************************************************************)
EXTENDS Integers, FiniteSets

Units(S, n) == UNION {{x} \X (1..n[x]) : x \in S}
Total(S, n) == Cardinality(Units(S, n))

SumsTo(f, n) == LET upTo[i \in 0..n] == IF i = 0 THEN 0 ELSE upTo[i - 1] + f[i] IN upTo
SumTo(f, n) == SumsTo(f, n)[n]
=============================================================================
