-------------------------------- MODULE Lanes --------------------------------
(* Instances that share no state can be checked in one run: a behaviour works  *)
(* on one lane of one of them, chosen at the start, and the state of the       *)
(* others keeps its initial value.                                             *)
VARIABLE lane
=============================================================================
