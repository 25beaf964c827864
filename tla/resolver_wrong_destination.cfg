CONSTANTS
  Values <- MCValues
  Registers <- MCRegisters
  SpillSlots <- MCSpillSlots
  BlockOrder <- MCBlockOrder
  BlockRange <- MCBlockRange
  Successors <- MCSuccessors
  Predecessors <- MCPredecessors
  LiveIns <- MCLiveIns
  Phis <- MCPhis
  PhiInputs <- MCPhiInputs
  LiveAt <- MCLiveAt

SPECIFICATION Spec

CHECK_DEADLOCK FALSE

INVARIANT
  LocationsCorrect
