------------------------------ MODULE MCGuild ------------------------------
(* Instances of Guild for TLC. *)
EXTENDS Guild, TLC

CONSTANTS ann, bob, eve

ThreeChars == {ann, bob, eve}
Sages == {GROLE_SAGE}
Alike == Permutations(Chars)
=============================================================================
