CONSTANTS
  Locations <- MCLocations
  Scratch = Scratch

SPECIFICATION Spec

\* scheduleMoves returns once the moves are emitted or refused.
CHECK_DEADLOCK FALSE

INVARIANTS
  TypeOK
  NoSourceClobbered

PROPERTIES
  ImplementsParallelMoves
