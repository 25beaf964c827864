---------------------------- MODULE SymbolTable ----------------------------
(***************************************************************************)
(* The symbol table of src/hadron/SymbolTable.cpp.  A Symbol              *)
(* (src/hadron/library/Symbol.hpp) is the Hash of its string, and two     *)
(* Symbols are == when their hashes are.  m_symbolMap maps a hash to the  *)
(* String first interned under it; addSymbol meets a second string with   *)
(* the same hash only at assert(compare(v)), which a release build drops. *)
(*                                                                         *)
(* The hash function (Hash.hpp is not in the tree) is any function from   *)
(* the strings to a small set of hashes, fixed for the run and chosen in  *)
(* Init.  Strings are model values.  Symbol::fromView (not in the tree)   *)
(* interns its view with addSymbol and returns the Symbol of the hash.    *)
(***************************************************************************)
EXTENDS Naturals, Sequences, FiniteSets, Functions, TLC

CONSTANTS
  Strings,       \* the string views callers intern
  Hashes,        \* the values of hash()
  PreloadNames   \* the names preloadSymbols interns, in its order

ASSUME /\ PreloadNames \in Seq(Strings)
       /\ IsInjective(PreloadNames)

VARIABLES
  ndebug,      \* TRUE in a release build: asserts are compiled out
  hash,        \* the hash function
  symbolMap,   \* m_symbolMap: hash -> String
  preloaded,   \* preloadSymbols has run
  members,     \* m_Array, m_at, ...: the Symbol of each preloaded name
  asked,       \* history: the views addSymbol was called with
  interned,    \* history: the Symbols handed out, with their views
  crashed      \* a failed assert stopped the process

vars == <<ndebug, hash, symbolMap, preloaded, members, asked, interned, crashed>>

(* Mutant: the Symbol wraps the String itself instead of its Hash.       *)
SymbolOfView(v) == [view |-> v, hash |-> v]

(* A Symbol handed out for view v: the hash addSymbol returned.           *)
SymbolOf(v) == [view |-> v, hash |-> hash[v]]

(* assert(mapIter->second.compare(v)) fails: the hash is taken by a       *)
(* different string.                                                       *)
Collides(map, v) == hash[v] \in DOMAIN map /\ map[hash[v]] # v

(* emplace only when find() missed: an entry is never replaced.           *)
Intern(map, v) == IF hash[v] \in DOMAIN map THEN map ELSE (hash[v] :> v) @@ map

(* SymbolTable::addSymbol on a state record [map, asked, interned,        *)
(* crashed]; a debug build stops at the failed assert and returns nothing.*)
AddSymbolTo(st, v) ==
  LET stop == ~ndebug /\ Collides(st.map, v) IN
  [map      |-> Intern(st.map, v),
   asked    |-> st.asked \cup {v},
   interned |-> IF stop THEN st.interned ELSE st.interned \cup {SymbolOf(v)},
   crashed  |-> stop]

(* The fromView calls of preloadSymbols from the i-th on, in order.        *)
RECURSIVE Preload(_, _)
Preload(st, i) ==
  IF i > Len(PreloadNames) \/ st.crashed THEN st
  ELSE Preload(AddSymbolTo(st, PreloadNames[i]), i + 1)

Current == [map |-> symbolMap, asked |-> asked, interned |-> interned,
            crashed |-> crashed]

Apply(st) ==
  /\ symbolMap' = st.map
  /\ asked' = st.asked
  /\ interned' = st.interned
  /\ crashed' = st.crashed

Init ==
  /\ ndebug \in BOOLEAN
  /\ hash \in [Strings -> Hashes]
  /\ symbolMap = [h \in {} |-> CHOOSE v \in Strings : TRUE]
  /\ preloaded = FALSE
  /\ members = <<>>
  /\ asked = {}
  /\ interned = {}
  /\ crashed = FALSE

(* SymbolTable::preloadSymbols, run once when the runtime starts.          *)
PreloadSymbols ==
  LET st == Preload(Current, 1) IN
  /\ ~preloaded
  /\ Apply(st)
  /\ preloaded' = TRUE
  /\ members' = IF st.crashed THEN members
                ELSE [i \in DOMAIN PreloadNames |-> hash[PreloadNames[i]]]
  /\ UNCHANGED <<ndebug, hash>>

(* Symbol::fromView(context, v) once the runtime has started.              *)
FromView(v) ==
  /\ preloaded
  /\ ~crashed
  /\ Apply(AddSymbolTo(Current, v))
  /\ UNCHANGED <<ndebug, hash, preloaded, members>>

(* SymbolTable::getString: the String of a Symbol's hash; -1 stands for   *)
(* the empty String returned after assert(false).                           *)
getString(h) == IF h \in DOMAIN symbolMap THEN symbolMap[h] ELSE -1

Next == PreloadSymbols \/ \E v \in Strings : FromView(v)

Spec == Init /\ [][Next]_vars

-----------------------------------------------------------------------------
TypeOK ==
  /\ ndebug \in BOOLEAN
  /\ hash \in [Strings -> Hashes]
  /\ DOMAIN symbolMap \subseteq Hashes
  /\ \A h \in DOMAIN symbolMap : symbolMap[h] \in Strings
  /\ preloaded \in BOOLEAN
  /\ members \in Seq(Hashes)
  /\ asked \subseteq Strings
  /\ interned \subseteq [view : Strings, hash : Hashes]
  /\ crashed \in BOOLEAN
=============================================================================
