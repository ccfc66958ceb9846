------------------------------ MODULE MCParty ------------------------------
(* Instances of Party for TLC. *)
EXTENDS Party, TLC

CONSTANTS ann, bob, eve

ThreeChars == {ann, bob, eve}
=============================================================================
