------------------------------ MODULE MCDuels ------------------------------
(* An instance of Duels for TLC. *)
EXTENDS Duels, TLC

CONSTANTS ann, bob, eve

ThreeChars == {ann, bob, eve}
Alike      == Permutations(ThreeChars)
=============================================================================
