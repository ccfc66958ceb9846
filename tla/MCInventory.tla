---------------------------- MODULE MCInventory ----------------------------
(* Instances of Inventory for TLC. *)
EXTENDS Inventory, TLC

CONSTANTS ann, bob

TwoChars == {ann, bob}
EitherChar == Permutations(TwoChars)
TwoSlots == {1, 2}
OneSlot == {3}
SwordAndPotion == {1, 2}
Potion == {2}
=============================================================================
