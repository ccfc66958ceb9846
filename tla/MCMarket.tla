------------------------------ MODULE MCMarket ------------------------------
(* An instance of Market for TLC. *)
EXTENDS Market, TLC

CONSTANTS ann, bob, sword, cap

TwoChars == {ann, bob}
TwoItems == {sword, cap}
Costs    == [i \in Items |-> 2]
Fees     == [i \in Items |-> 1]
Symmetry == Permutations(Chars) \cup Permutations(Items)

\* What follows a meeting of two calls is not looked at.
Uncrossed == ~crossed
=============================================================================
