------------------------------- MODULE MCMobs -------------------------------
(* An instance of Mobs for TLC. *)
EXTENDS Mobs, TLC

CONSTANTS ann, bob

Alike == Permutations(Chars)
TwoChars == {ann, bob}
\* A temple pays like a plain mob when its conquest goes on.
EveryKind == [kind : {"shared", "temple"}, once : {FALSE}]
               \cup {[kind |-> "plain", once |-> TRUE]}
=============================================================================
