------------------------------ MODULE MCDrops ------------------------------
(* Instances of Drops for TLC. *)
EXTENDS Drops, TLC

CONSTANTS ann, bob, field, arena

TwoChars == {ann, bob}
TwoMaps  == {field, arena}
Arena    == {arena}
=============================================================================
