CONSTANTS
  s1 = s1
  s2 = s2
  s3 = s3
  s4 = s4
  h1 = h1
  h2 = h2
  h3 = h3
  Strings <- MCStrings
  Hashes <- MCHashes
  PreloadNames <- MCPreloadNames

SPECIFICATION Spec

\* A debug build stops at the failed assert of a hash collision.
CHECK_DEADLOCK FALSE

INVARIANTS
  TypeOK
