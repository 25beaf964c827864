---------------------------- MODULE MCSymbolTable ----------------------------
(* Four strings, two of them preloaded (standing for "Array", "at", ...),  *)
(* and three hash values: every hash function from four strings to three  *)
(* values is tried, from none colliding to all colliding, with collisions *)
(* inside the preload and between a preloaded name and a later one.       *)
EXTENDS SymbolTable
CONSTANTS s1, s2, s3, s4, h1, h2, h3
MCStrings == {s1, s2, s3, s4}
MCHashes == {h1, h2, h3}
MCPreloadNames == <<s1, s2>>
=============================================================================
