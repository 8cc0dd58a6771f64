---------------------------- MODULE MCTempMatchers ----------------------------
(* Small instances of the store of temporary matchers for TLC. *)
EXTENDS TempMatchers, TLC

CONSTANTS m1, m2, c1, c2, c3

\* Each matcher in a shard of its own.
TwoShards == m1 :> 1 @@ m2 :> 2
\* Remove is Delete without its mark, and Add is Reprioritise of an absent matcher.
MostKinds == AllKinds \ {"Add", "Remove"}

\* Calls are alike.
Symmetry == Permutations({c1, c2, c3})
=============================================================================
