CONSTANTS
  Files <- MCFiles
  FileOutcome <- MCFileOutcome
  IsClassFile <- MCIsClassFile
  StopPoints <- MCStopPoints
  MaxRequests = 4
  ClassNames <- MCClassNames
  MethodNames <- MCMethodNames
  Hashes <- MCHashes
  Library <- MCLibrary
  ClassNodes <- MCClassNodes
  Nil = Nil
  h1 = h1
  h2 = h2

SPECIFICATION Spec

\* The client stops after a failed initialize, after its last request, or
\* when the server has crashed.
CHECK_DEADLOCK FALSE

INVARIANTS
  CleanFileGetsDiagnostics
