--------------------------- MODULE MoveScheduler ---------------------------
(***************************************************************************)
(* MoveScheduler::scheduleMoves (src/hadron/MoveScheduler.hpp; the body   *)
(* is not in this tree and follows section 4.4 of the design): check the  *)
(* move set for duplicate destinations, then emit one single move at a    *)
(* time, never overwriting a location some pending move still reads, and  *)
(* break each permutation cycle through a scratch location.               *)
(***************************************************************************)
EXTENDS FiniteSets

CONSTANTS
  Locations,  \* registers and spill slots a move can name
  Scratch     \* the spare location used to break cycles

ASSUME Scratch \notin Locations

VARIABLES
  moves,      \* input: origin -> destination
  pending,    \* moves not yet emitted, as [from, to] records
  memory,     \* contents of every location, the scratch included
  phase       \* "check", "emit", "done" or "rejected"

vars == <<moves, pending, memory, phase>>

P == INSTANCE ParallelMoves WITH result <- "pending"

Move == [from : Locations \cup {Scratch}, to : Locations]

(* Mutant: any pending move may be emitted, readers or not.              *)
IsSafeUnchecked(m) == TRUE

(* The pending move m may be emitted: no other pending move reads m.to.   *)
IsSafe(m) == \A m2 \in pending \ {m} : m2.from # m.to

Init ==
  /\ moves \in P!MoveSets
  /\ pending = {}
  /\ memory = [l \in Locations \cup {Scratch} |-> IF l = Scratch THEN "empty" ELSE l]
  /\ phase = "check"

(* Ambiguous input: scheduleMoves returns false and emits nothing.        *)
RejectAmbiguous ==
  /\ phase = "check"
  /\ P!IsAmbiguous(moves)
  /\ phase' = "rejected"
  /\ UNCHANGED <<moves, pending, memory>>

(* Build the pending set (the dependency graph) from the map.             *)
Accept ==
  /\ phase = "check"
  /\ ~P!IsAmbiguous(moves)
  /\ pending' = {[from |-> o, to |-> moves[o]] : o \in DOMAIN moves}
  /\ phase' = "emit"
  /\ UNCHANGED <<moves, memory>>

(* MoveScheduler::move: emit one move whose destination nobody reads.     *)
EmitMove ==
  /\ phase = "emit"
  /\ \E m \in pending :
       /\ IsSafe(m)
       /\ memory' = [memory EXCEPT ![m.to] = memory[m.from]]
       /\ pending' = pending \ {m}
  /\ UNCHANGED <<moves, phase>>

(* Mutant: the cycle is broken by redirecting the destination instead of *)
(* the readers of it.                                                     *)
BreakCycleRedirectingDestination ==
  /\ phase = "emit"
  /\ pending # {}
  /\ \A m \in pending : ~IsSafe(m)
  /\ \E m \in pending :
       /\ memory' = [memory EXCEPT ![Scratch] = memory[m.to]]
       /\ pending' = {IF m2.to = m.to THEN [m2 EXCEPT !.to = Scratch] ELSE m2 :
                        m2 \in pending}
  /\ UNCHANGED <<moves, phase>>

(* Every pending move is blocked, so the pending moves hold a cycle: save *)
(* one destination into the scratch location and read it from there.      *)
BreakCycle ==
  /\ phase = "emit"
  /\ pending # {}
  /\ \A m \in pending : ~IsSafe(m)
  /\ \E m \in pending :
       /\ memory' = [memory EXCEPT ![Scratch] = memory[m.to]]
       /\ pending' = {IF m2.from = m.to THEN [m2 EXCEPT !.from = Scratch] ELSE m2 :
                        m2 \in pending}
  /\ UNCHANGED <<moves, phase>>

(* Mutant: scheduleMoves returns without checking that all were emitted. *)
FinishUnchecked ==
  /\ phase = "emit"
  /\ phase' = "done"
  /\ UNCHANGED <<moves, pending, memory>>

Finish ==
  /\ phase = "emit"
  /\ pending = {}
  /\ phase' = "done"
  /\ UNCHANGED <<moves, pending, memory>>

Next == RejectAmbiguous \/ Accept \/ EmitMove \/ BreakCycle \/ Finish

(* scheduleMoves runs to completion on one thread.                        *)
Spec == Init /\ [][Next]_vars /\ WF_vars(Next)

-----------------------------------------------------------------------------
TypeOK ==
  /\ moves \in P!MoveSets
  /\ pending \subseteq Move
  /\ memory \in [Locations \cup {Scratch} -> Locations \cup {"empty"}]
  /\ phase \in {"check", "emit", "done", "rejected"}

(* The origin a pending move was created from (destinations are unique).  *)
OriginOf(m) == CHOOSE o \in DOMAIN moves : moves[o] = m.to

(* No value is overwritten before it is read: whatever location a pending *)
(* move now reads (its origin, or the scratch after a cycle was broken)   *)
(* still holds the origin's original value, and every destination already *)
(* written holds its final value.                                         *)
NoSourceClobbered ==
  phase = "emit" =>
    /\ \A m \in pending : memory[m.from] = P!InitialMemory[OriginOf(m)]
    /\ \A o \in DOMAIN moves :
         moves[o] \notin {m.to : m \in pending} => memory[moves[o]] = o

(* The sequential schedule implements simultaneous-move semantics: seen   *)
(* through the mapping below, every behaviour of scheduleMoves is one of  *)
(* ParallelMoves (same final memory, same refusals, and it finishes).     *)
Abstract == INSTANCE ParallelMoves WITH
  memory <- IF phase = "done"
            THEN [l \in Locations |-> memory[l]]
            ELSE P!InitialMemory,
  result <- CASE phase = "done" -> "scheduled"
              [] phase = "rejected" -> "rejected"
              [] OTHER -> "pending"

ImplementsParallelMoves == Abstract!PSpec

=============================================================================
