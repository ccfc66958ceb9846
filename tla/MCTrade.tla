------------------------------- MODULE MCTrade -------------------------------
(* Instances of Trade for TLC. *)
EXTENDS Trade, TLC

CONSTANTS ann, bob, eve, sword, helm, ring, free

Symmetry == Permutations(Chars)
NoItems == {}
Bound   == {ring}
NoBags  == [c \in Chars |-> [i \in Slots |-> Empty]]
NoGold  == [c \in Chars |-> 0]

SomeItems   == {sword, helm, ring}
OnlyAnn     == {ann}
OnlySword   == {sword}
TwoUsers    == {ann, bob}
ThreeUsers  == {ann, bob, eve}

\* ann carries two items, one of them untradable in some runs, and bob one.
SomeBags == [c \in Chars |->
  [i \in Slots |-> IF c = ann /\ i = 1 THEN sword
                   ELSE IF c = ann /\ i = 2 THEN helm
                   ELSE IF c = bob /\ i = 1 THEN ring ELSE Empty]]
SomeGold == [c \in Chars |-> IF c = ann THEN 2 ELSE 1]

\* They have nothing; items only; items or gold, which divides the questions.
Nothing     == {[inv |-> NoBags, gold |-> NoGold]}
ItemsOnly   == {[inv |-> SomeBags, gold |-> NoGold]}
ItemsOrGold == ItemsOnly \cup {[inv |-> NoBags, gold |-> SomeGold]}
=============================================================================
