----------------------------- MODULE MCMainUnit ----------------------------
(***************************************************************************)
(* MainUnit on small instances: the end units, door units, motion sensors  *)
(* and gateways are the model values of each cfg.                          *)
(***************************************************************************)
EXTENDS MainUnit, TLC

\* Devices of one type are interchangeable.
SameType == Permutations(EndUnit) \cup Permutations(DoorUnit) \cup Permutations(Gateway)

=============================================================================
