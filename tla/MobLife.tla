------------------------------ MODULE MobLife ------------------------------
(***************************************************************************)
(* What the death of a mob promises to those who attack it: it is paid     *)
(* to attackers who had a part in it and to nobody else, at most once      *)
(* each, and what is not paid when the mob is back is not paid any more.   *)
(* Module Mobs shows how the code keeps this with nothing but two looks    *)
(* at the health.                                                          *)
(***************************************************************************)
CONSTANT Chars       \* who may attack the mob

VARIABLES
  alive,      \* the mob has health
  entitled,   \* who may still be paid for its death
  paying      \* who is being paid, for this death or an earlier one

vars == <<alive, entitled, paying>>

Init ==
  /\ alive = TRUE
  /\ entitled = {}
  /\ paying = {}

\* The mob dies by the blows of some of those who are free to strike.
Die ==
  /\ alive /\ alive' = FALSE
  /\ entitled' \in SUBSET (Chars \ paying) /\ entitled' # {}
  /\ UNCHANGED paying

Start(c) ==
  /\ c \in entitled
  /\ entitled' = entitled \ {c} /\ paying' = paying \cup {c}
  /\ UNCHANGED alive

Finish(c) ==
  /\ c \in paying
  /\ paying' = paying \ {c}
  /\ UNCHANGED <<alive, entitled>>

\* An attacker whose part in it gets lost is not paid.
Forgo(c) ==
  /\ c \in entitled
  /\ entitled' = entitled \ {c}
  /\ UNCHANGED <<alive, paying>>

Revive ==
  /\ ~alive /\ alive' = TRUE
  /\ entitled' = {}
  /\ UNCHANGED paying

Next == Die \/ Revive \/ \E c \in Chars : Start(c) \/ Forgo(c) \/ Finish(c)

Spec == Init /\ [][Next]_vars
============================================================================
