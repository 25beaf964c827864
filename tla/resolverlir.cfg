CONSTANTS
  Values <- MCValues
  Registers <- MCRegisters
  SpillSlots <- MCSpillSlots
  BlockOrder <- MCBlockOrder
  BlockRange <- MCBlockRange
  Successors <- MCSuccessors
  Predecessors <- MCPredecessors
  LiveIns <- MCLiveIns
  Phis <- MCPhis
  PhiInputs <- MCPhiInputs
  LiveAt <- MCLiveAt

SPECIFICATION Spec

\* The resolver stops after Finish or an aborted assert.
CHECK_DEADLOCK FALSE

INVARIANTS
  TypeOK
