------------------------------ MODULE Resolver ------------------------------
(***************************************************************************)
(* SSA resolution of src/Resolver.cpp (Resolver::resolve over a           *)
(* LinearBlock).  For every control-flow edge the resolver computes the   *)
(* moves that bring each value live at the successor into place and       *)
(* attaches them to the predecessor's branch, to the successor's label,   *)
(* or gives up on a critical edge.                                        *)
(*                                                                         *)
(* The frame (blocks, ranges, successors, predecessors, live-ins, phis,   *)
(* per-line liveness) is a constant input; the register allocator's      *)
(* output (valueLifetimes) is chosen in Init among all non-aliasing       *)
(* assignments.  The build mode (assert enabled or NDEBUG) is chosen in   *)
(* Init too: a debug build aborts on a failed assert, a release build     *)
(* runs on with whatever the unchecked operand holds.                     *)
(***************************************************************************)
EXTENDS Integers, Sequences, FiniteSets

CONSTANTS
  Values,        \* SSA value numbers of the frame
  Registers,     \* register numbers the allocator may assign
  SpillSlots,    \* spill slot numbers the allocator may assign
  BlockOrder,    \* linearBlock->blockOrder
  BlockRange,    \* linearBlock->blockRanges: [Blocks -> [first, second]]
  Successors,    \* LabelHIR::successors, in order
  Predecessors,  \* LabelHIR::predecessors, in order (indexes phi inputs)
  LiveIns,       \* LabelHIR::liveIns
  Phis,          \* values defined by the phis of each block
  PhiInputs,     \* PhiHIR::inputs of each phi value, one per predecessor
  LiveAt         \* lines -> values whose lifetime interval covers the line

Blocks == DOMAIN Successors

ASSUME /\ DOMAIN Predecessors = Blocks
       /\ \A b \in Blocks : \A i \in 1..Len(Successors[b]) :
            \E j \in 1..Len(Predecessors[Successors[b][i]]) :
               Predecessors[Successors[b][i]][j] = b
       /\ \A b \in Blocks : \A p \in Phis[b] :
            Len(PhiInputs[p]) = Len(Predecessors[b])

(* hir::MoveOperand: a register or a spill slot, told apart by isSpill.   *)
MoveOperand == [isSpill : {FALSE}, number : Registers]
                 \cup [isSpill : {TRUE}, number : SpillSlots]

Move == [from : MoveOperand, to : MoveOperand]

Edges == {<<b, s>> \in Blocks \X Blocks :
            \E i \in 1..Len(Successors[b]) : Successors[b][i] = s}

FirstLine(b) == BlockRange[b].first          \* the block's label
LastLine(b) == BlockRange[b].second - 1      \* the block's branch

BoundaryLines == {FirstLine(b) : b \in Blocks} \cup {LastLine(b) : b \in Blocks}

(* The points findAt can be asked about and an interval covers.           *)
LivePoints == {<<v, l>> \in Values \X BoundaryLines : v \in LiveAt[l]}

(* Register allocator output: one location per covered point, never two  *)
(* values live at the same line in the same place.                        *)
Allocations ==
  {f \in [LivePoints -> MoveOperand] :
     \A p, q \in LivePoints : p[2] = q[2] /\ p[1] # q[1] => f[p] # f[q]}

VARIABLES
  ndebug,          \* TRUE in a release build: asserts are compiled out
  valueLifetimes,  \* allocation of every live point to a MoveOperand
  bi,              \* index into BlockOrder (outer loop)
  si,              \* index into the current block's successors (inner loop)
  branchMoves,     \* BranchHIR::moves of each block's terminating branch
  labelMoves,      \* LabelHIR::moves of each block's label
  visited,         \* history: the edges the loop has resolved
  edgeMoves,       \* history: the moves computed for each visited edge
  status           \* "running", "done" or "aborted" (a failed assert)

vars == <<ndebug, valueLifetimes, bi, si, branchMoves, labelMoves,
          visited, edgeMoves, status>>

(***************************************************************************)
(* findAt: the location of valueNumber's interval covering line, if any.  *)
(***************************************************************************)
findAt(v, line) == <<v, line>> \in DOMAIN valueLifetimes

(* Position of predecessor b among the successor's predecessors.          *)
BlockIndex(b, s) == CHOOSE i \in 1..Len(Predecessors[s]) : Predecessors[s][i] = b

(* The value moved from: the phi's input for this predecessor, or itself. *)
MoveFromValue(b, s, live) ==
  IF live \in Phis[s] THEN PhiInputs[live][BlockIndex(b, s)] ELSE live

(* Every findAt call the live loop makes for edge b -> s.  The source is  *)
(* looked up at the predecessor's last line; the destination, as written  *)
(* in the code, at blockRange.first, the predecessor's first line.        *)
FromLookups(b, s) == {<<MoveFromValue(b, s, live), LastLine(b)>> : live \in LiveIns[s]}
ToLookups(b, s) == {<<live, FirstLine(b)>> : live \in LiveIns[s]}

Missing(b, s) == {p \in FromLookups(b, s) \cup ToLookups(b, s) : ~findAt(p[1], p[2])}

(* Mutant: a spill slot s is encoded as register number -1 - s, the     *)
(* integer encoding of the LinearFrame resolver.                          *)
OperandAsRegister(p, junk) ==
  LET op == IF findAt(p[1], p[2]) THEN valueLifetimes[p] ELSE junk[p] IN
  [isSpill |-> FALSE, number |-> IF op.isSpill THEN -1 - op.number ELSE op.number]

(* The operand a lookup leaves behind: the interval's location, or in a   *)
(* release build whatever the unwritten MoveOperand holds (junk).         *)
Operand(p, junk) == IF findAt(p[1], p[2]) THEN valueLifetimes[p] ELSE junk[p]

(* moves: one per live-in whose source and destination differ.            *)
EdgeMoveSet(b, s, junk) ==
  LET mv(live) == [from |-> Operand(<<MoveFromValue(b, s, live), LastLine(b)>>, junk),
                   to   |-> Operand(<<live, FirstLine(b)>>, junk)]
  IN  {mv(live) : live \in LiveIns[s]} \ {m \in Move : m.from = m.to}

(* Moves of an edge go on the branch when the block has one successor or  *)
(* the edge leads to its last successor.                                  *)
OnBranch(b, s) ==
  Len(Successors[b]) = 1 \/ s = Successors[b][Len(Successors[b])]

(* Mutant: the label takes the moves whatever its predecessor count.     *)
OnLabelAnyPredecessors(b, s) == Len(Predecessors[s]) >= 1

OnLabel(b, s) == Len(Predecessors[s]) = 1

Init ==
  /\ ndebug \in BOOLEAN
  /\ valueLifetimes \in Allocations
  /\ bi = 1
  /\ si = 1
  /\ branchMoves = [b \in Blocks |-> {}]
  /\ labelMoves = [b \in Blocks |-> {}]
  /\ visited = {}
  /\ edgeMoves = [e \in Edges |-> {}]
  /\ status = "running"

CurrentBlock == BlockOrder[bi]
CurrentSucc == Successors[CurrentBlock][si]

InEdgeLoop ==
  /\ status = "running"
  /\ bi <= Len(BlockOrder)
  /\ si <= Len(Successors[CurrentBlock])

NextEdge == si' = si + 1

(* A failed assert(found) in a debug build aborts the compilation.        *)
AssertionFailure ==
  /\ InEdgeLoop
  /\ ~ndebug
  /\ Missing(CurrentBlock, CurrentSucc) # {}
  /\ status' = "aborted"
  /\ UNCHANGED <<ndebug, valueLifetimes, bi, si, branchMoves, labelMoves, visited, edgeMoves>>

(* One iteration of the successor loop: compute moves and place them.     *)
ResolveEdge ==
  LET b == CurrentBlock
      s == CurrentSucc
  IN
  /\ InEdgeLoop
  /\ ndebug \/ Missing(b, s) = {}
  /\ \E junk \in [Missing(b, s) -> MoveOperand] :
       LET moves == EdgeMoveSet(b, s, junk) IN
       /\ visited' = visited \cup {<<b, s>>}
       /\ edgeMoves' = [edgeMoves EXCEPT ![<<b, s>>] = moves]
       /\ NextEdge
       /\ \/ /\ moves = {}
             /\ UNCHANGED <<branchMoves, labelMoves, status>>
          \/ /\ moves # {}
             /\ OnBranch(b, s)
             /\ branchMoves' = [branchMoves EXCEPT ![b] = @ \cup moves]
             /\ UNCHANGED <<labelMoves, status>>
          \/ /\ moves # {}
             /\ ~OnBranch(b, s)
             /\ OnLabel(b, s)
             /\ labelMoves' = [labelMoves EXCEPT ![s] = @ \cup moves]
             /\ UNCHANGED <<branchMoves, status>>
          \/ \* critical edge: assert(false); a release build drops the moves
             /\ moves # {}
             /\ ~OnBranch(b, s)
             /\ ~OnLabel(b, s)
             /\ status' = IF ndebug THEN status ELSE "aborted"
             /\ UNCHANGED <<branchMoves, labelMoves>>
  /\ UNCHANGED <<ndebug, valueLifetimes, bi>>

(* End of a block's successor list: go on with the next block in order.   *)
NextBlock ==
  /\ status = "running"
  /\ bi <= Len(BlockOrder)
  /\ si > Len(Successors[CurrentBlock])
  /\ bi' = bi + 1
  /\ si' = 1
  /\ UNCHANGED <<ndebug, valueLifetimes, branchMoves, labelMoves, visited, edgeMoves, status>>

Finish ==
  /\ status = "running"
  /\ bi > Len(BlockOrder)
  /\ status' = "done"
  /\ UNCHANGED <<ndebug, valueLifetimes, bi, si, branchMoves, labelMoves, visited, edgeMoves>>

Next == AssertionFailure \/ ResolveEdge \/ NextBlock \/ Finish

Spec == Init /\ [][Next]_vars

-----------------------------------------------------------------------------
(***************************************************************************)
(* Execution of the resolved frame along one edge b -> s.                 *)
(***************************************************************************)

(* Moves that run when control goes from b to s: the branch's moves run   *)
(* before the final (unconditional) branch, which goes to the last        *)
(* successor; the label's moves run on every entry into s.                *)
ExecutedOn(b, s) ==
  (IF s = Successors[b][Len(Successors[b])] THEN branchMoves[b] ELSE {})
    \cup labelMoves[s]

Garbage == "garbage"

(* Contents of each location at b's branch: every value live there sits   *)
(* where the allocator put it.                                            *)
MemoryAtEnd(b) ==
  [loc \in MoveOperand |->
     IF \E v \in LiveAt[LastLine(b)] : valueLifetimes[<<v, LastLine(b)>>] = loc
     THEN CHOOSE v \in LiveAt[LastLine(b)] : valueLifetimes[<<v, LastLine(b)>>] = loc
     ELSE Garbage]

(* Simultaneous execution of a move set.                                  *)
ApplyParallel(mem, moves) ==
  [loc \in DOMAIN mem |->
     IF \E m \in moves : m.to = loc
     THEN mem[(CHOOSE m \in moves : m.to = loc).from]
     ELSE mem[loc]]

(* At s's label every live-in holds its value (a phi: its input from b).  *)
EdgeCorrect(b, s) ==
  LET mem == ApplyParallel(MemoryAtEnd(b), ExecutedOn(b, s)) IN
  \A live \in LiveIns[s] :
    mem[valueLifetimes[<<live, FirstLine(s)>>]] = MoveFromValue(b, s, live)

-----------------------------------------------------------------------------
TypeOK ==
  /\ ndebug \in BOOLEAN
  /\ valueLifetimes \in [LivePoints -> MoveOperand]
  /\ bi \in 1..Len(BlockOrder) + 1
  /\ si \in 1..Cardinality(Blocks) + 1
  /\ branchMoves \in [Blocks -> SUBSET Move]
  /\ labelMoves \in [Blocks -> SUBSET Move]
  /\ visited \subseteq Edges
  /\ edgeMoves \in [Edges -> SUBSET Move]
  /\ status \in {"running", "done", "aborted"}

(* Moves placed by the resolver run only on the edge they were computed   *)
(* for: whatever executes when control goes b -> s was computed for that  *)
(* edge (placement rules of Resolver::resolve, lines 90-107).             *)
MovesStayOnTheirEdge ==
  \A e \in Edges : ExecutedOn(e[1], e[2]) \subseteq edgeMoves[e]

(* No computed move is lost: every move computed for a visited edge runs  *)
(* when control takes that edge (the spec requires critical edges to be   *)
(* split rather than left unhandled).                                     *)
NoComputedMoveDropped ==
  \A e \in Edges :
    e \in visited => edgeMoves[e] \subseteq ExecutedOn(e[1], e[2])

(* Once the resolver finishes, every edge delivers each value live at the *)
(* successor into the location the allocator gave it there.              *)
LocationsCorrect ==
  status = "done" => \A e \in Edges : EdgeCorrect(e[1], e[2])

=============================================================================
