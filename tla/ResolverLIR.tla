----------------------------- MODULE ResolverLIR -----------------------------
(***************************************************************************)
(* The LinearFrame resolver of src/hadron/Resolver.cpp.  It walks the same *)
(* edges as the HIR resolver and finds each edge's predecessor index, but  *)
(* the loop that filled its move map is commented out (lines 54-93): the   *)
(* std::unordered_map<int, int> moves stays empty, moves.size() is 0 and   *)
(* nothing is ever merged into a BranchLIR or LabelLIR.                    *)
(*                                                                         *)
(* Its findAt encodes a location as one int: the register number, or      *)
(* -1 - spillSlot for a spill slot.                                        *)
(*                                                                         *)
(* The frame and the allocator's output are those of the Resolver module, *)
(* taken through an instance whose move lists are the (always empty) ones *)
(* this resolver writes.                                                   *)
(***************************************************************************)
EXTENDS Integers, Sequences, FiniteSets

CONSTANTS Values, Registers, SpillSlots, BlockOrder, BlockRange, Successors,
          Predecessors, LiveIns, Phis, PhiInputs, LiveAt

VARIABLES
  ndebug,          \* TRUE in a release build: asserts are compiled out
  valueLifetimes,  \* the register allocator's output, as in Resolver
  bi,              \* index into linearFrame->blockOrder
  si,              \* index into the block's successors
  status           \* "running" or "done"

vars == <<ndebug, valueLifetimes, bi, si, status>>

NoMoves == [b \in DOMAIN Successors |-> {}]

HIR == INSTANCE Resolver
         WITH branchMoves <- NoMoves, labelMoves <- NoMoves,
              visited <- {}, edgeMoves <- [e \in {} |-> {}]

(* Resolver::findAt's int location of an interval.                         *)
Location(op) == IF op.isSpill THEN -1 - op.number ELSE op.number

(* The blockIndex loop finds b among s's predecessors.                     *)
PredecessorFound(b, s) ==
  \E i \in 1..Len(Predecessors[s]) : Predecessors[s][i] = b

(* Mutant: the successor index starts at 0 (a 1-based loop read as       *)
(* 0-based).                                                               *)
InitFromZero ==
  /\ ndebug \in BOOLEAN
  /\ valueLifetimes \in HIR!Allocations
  /\ bi = 1
  /\ si = 0
  /\ status = "running"

Init ==
  /\ ndebug \in BOOLEAN
  /\ valueLifetimes \in HIR!Allocations
  /\ bi = 1
  /\ si = 1
  /\ status = "running"

CurrentBlock == BlockOrder[bi]
CurrentSucc == Successors[CurrentBlock][si]

InEdgeLoop ==
  /\ status = "running"
  /\ bi <= Len(BlockOrder)
  /\ si <= Len(Successors[CurrentBlock])

(* One iteration of the successor loop: the predecessor index is found    *)
(* (a debug build stops at assert(blockIndex < predecessors.size())        *)
(* otherwise); moves stays empty, so the placement code (lines 94-115) is  *)
(* skipped.                                                                *)
ResolveEdge ==
  /\ InEdgeLoop
  /\ ndebug \/ PredecessorFound(CurrentBlock, CurrentSucc)
  /\ si' = si + 1
  /\ UNCHANGED <<ndebug, valueLifetimes, bi, status>>

NextBlock ==
  /\ status = "running"
  /\ bi <= Len(BlockOrder)
  /\ si > Len(Successors[CurrentBlock])
  /\ bi' = bi + 1
  /\ si' = 1
  /\ UNCHANGED <<ndebug, valueLifetimes, status>>

Finish ==
  /\ status = "running"
  /\ bi > Len(BlockOrder)
  /\ status' = "done"
  /\ UNCHANGED <<ndebug, valueLifetimes, bi, si>>

Next == ResolveEdge \/ NextBlock \/ Finish

Spec == Init /\ [][Next]_vars

-----------------------------------------------------------------------------
TypeOK ==
  /\ ndebug \in BOOLEAN
  /\ valueLifetimes \in [HIR!LivePoints -> HIR!MoveOperand]
  /\ bi \in 1..Len(BlockOrder) + 1
  /\ si \in 1..Cardinality(HIR!Blocks) + 1
  /\ status \in {"running", "done"}

=============================================================================
