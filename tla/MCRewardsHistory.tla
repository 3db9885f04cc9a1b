-------------------------- MODULE MCRewardsHistory --------------------------
(* Instance for TLC: one block an hour, never on the hour, as on a chain whose *)
(* slots do not divide the hour evenly from its genesis.                       *)
EXTENDS RewardsHistory

HalfPast == [b \in Blocks |-> 2 * b + 1]
=============================================================================
