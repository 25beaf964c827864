-------------------------- MODULE MCMoveScheduler --------------------------
(* Four locations (three registers, one spill slot) give every partial     *)
(* map of origins: chains, swaps, 3- and 4-cycles, fan-in (rejected) and   *)
(* self-moves.                                                             *)
EXTENDS MoveScheduler

MCLocations == {"r0", "r1", "r2", "s0"}

=============================================================================
