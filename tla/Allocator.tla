------------------------------ MODULE Allocator ------------------------------
(***************************************************************************)
(* What an allocator promises: a block it hands out shares no unit of      *)
(* memory with any block that is still in use.                             *)
(***************************************************************************)
EXTENDS FiniteSets

VARIABLE live   \* the blocks in use: name of the allocation -> its units

Init == DOMAIN live = {}

Allocate ==
  LET before == live
      after == live'
  IN \E n \in DOMAIN after \ DOMAIN before :
       /\ DOMAIN after = DOMAIN before \cup {n}
       /\ \A m \in DOMAIN before : /\ after[m] = before[m]
                                   /\ after[m] \cap after[n] = {}

Release ==
  LET before == live
      after == live'
  IN \E n \in DOMAIN before :
       /\ DOMAIN after = DOMAIN before \ {n}
       /\ \A m \in DOMAIN after : after[m] = before[m]

Spec == Init /\ [][Allocate \/ Release]_live
=============================================================================
