CONSTANTS
  Values <- MCValues
  Registers <- MCRegisters
  SpillSlots <- MCSpillSlots
  BlockOrder <- MCBlockOrder
  BlockRange <- MCBlockRange
  Successors <- MCSuccessors
  Predecessors <- MCPredecessors
  LiveIns <- MCLiveIns
  Phis <- MCPhis
  PhiInputs <- MCPhiInputs
  LiveAt <- MCLiveAt

SPECIFICATION Spec

\* The resolver returns (done) or the compilation aborts: both are final.
CHECK_DEADLOCK FALSE

INVARIANTS
  TypeOK
  MovesStayOnTheirEdge
