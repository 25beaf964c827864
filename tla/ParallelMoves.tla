--------------------------- MODULE ParallelMoves ---------------------------
(***************************************************************************)
(* What MoveScheduler::scheduleMoves promises (MoveScheduler.hpp): a move *)
(* set keyed by origin location is carried out as if every move happened *)
(* at once, or, when two origins name the same destination, it is         *)
(* refused and nothing is emitted.                                         *)
(***************************************************************************)
EXTENDS FiniteSets

CONSTANTS
  Locations   \* registers and spill slots a move can name

VARIABLES
  moves,      \* origin -> destination (std::unordered_map<int, int>)
  memory,     \* location -> the value it holds
  result      \* "pending", "scheduled" or "rejected"

pvars == <<moves, memory, result>>

(* Every move set the resolver can hand over: a partial map of origins.   *)
MoveSets == UNION {[O -> Locations] : O \in SUBSET Locations}

(* Before the moves every location holds its own value.                   *)
InitialMemory == [l \in Locations |-> l]

(* More than one move has the same destination.                           *)
IsAmbiguous(m) == \E o1, o2 \in DOMAIN m : o1 # o2 /\ m[o1] = m[o2]

(* All moves read their origins first, then all destinations are written. *)
Simultaneous(mem, m) ==
  [l \in DOMAIN mem |->
     IF \E o \in DOMAIN m : m[o] = l
     THEN mem[CHOOSE o \in DOMAIN m : m[o] = l]
     ELSE mem[l]]

PInit ==
  /\ moves \in MoveSets
  /\ memory = InitialMemory
  /\ result = "pending"

Schedule ==
  /\ result = "pending"
  /\ ~IsAmbiguous(moves)
  /\ memory' = Simultaneous(memory, moves)
  /\ result' = "scheduled"
  /\ UNCHANGED moves

Reject ==
  /\ result = "pending"
  /\ IsAmbiguous(moves)
  /\ result' = "rejected"
  /\ UNCHANGED <<moves, memory>>

PNext == Schedule \/ Reject

PSpec == PInit /\ [][PNext]_pvars /\ WF_pvars(PNext)

=============================================================================
