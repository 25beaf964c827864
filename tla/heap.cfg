CONSTANTS
  kSmallObjectSize = 1
  kMediumObjectSize = 2
  kLargeObjectSize = 4
  kPageSize = 8
  MapStarts <- MCMapStarts
  Requests <- MCRequests
  MaxPages = 3
  MaxAllocs = 3

SPECIFICATION Spec

\* The heap stops when the Page bound is reached or a debug build crashed.
CHECK_DEADLOCK FALSE

INVARIANTS
  TypeOK
  OffsetTracksDepth
  FindsOwnPage
  ObjectsDisjoint
  SegmentsFound
