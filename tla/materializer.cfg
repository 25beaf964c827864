CONSTANTS
  R = R
  A = A
  B = B
  C = C
  Frames <- MCFrames
  Root = R
  Shapes <- MCShapes
  Instructions <- MCInstructions
  MaxBytesPerInstruction = 16
  CapacitySlack = 8
  Nil = Nil

SPECIFICATION Spec

\* materialize returns, or a debug build stops at its assert.
CHECK_DEADLOCK FALSE

INVARIANTS
  TypeOK
  SelectorsMirrorBlocks
  InnerCompiledFirst

