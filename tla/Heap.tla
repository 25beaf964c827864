-------------------------------- MODULE Heap --------------------------------
(***************************************************************************)
(* The whole Heap of src/hadron/Heap.cpp: the stack segments of HeapStack  *)
(* and the size-class pages of HeapSized in one process.  Both create     *)
(* Pages in one sequence, map them into one address space (an address an  *)
(* unmapped stack page gave up may be mapped again by either) and record  *)
(* them in the one m_pageEnds that findPageContaining and                 *)
(* getAllocationSize search.  Each step is a step of one of the two.      *)
(***************************************************************************)
EXTENDS Naturals, Sequences, Page

CONSTANTS
  kSmallObjectSize, kMediumObjectSize, kLargeObjectSize, kPageSize,
  MapStarts, Requests, MaxPages, MaxAllocs

VARIABLES
  ndebug, pages, mapped, pageEnds, crashed,             \* shared
  stackSegments, stackPageOffset, segments, destroyed,  \* stack segments
  sizedPages, objects, calls                            \* sized pages

StackOnly == <<stackSegments, stackPageOffset, segments, destroyed>>
SizedOnly == <<sizedPages, objects, calls>>
vars == <<ndebug, pages, mapped, pageEnds, crashed>> \o StackOnly \o SizedOnly

Stack == INSTANCE HeapStack
Sized == INSTANCE HeapSized

Init == Stack!Init /\ Sized!Init

Next ==
  \/ Stack!Next /\ UNCHANGED SizedOnly
  \/ Sized!Next /\ UNCHANGED StackOnly

Spec == Init /\ [][Next]_vars

(* Heap::getAllocationSize: the object size of the Page findPageContaining *)
(* returns; 0 where that is nullptr (after assert(false)), -1 where        *)
(* findPageContaining's own assert failed.                                 *)
getAllocationSize(addr) ==
  LET p == Sized!findPageContaining(addr) IN
  IF p \in DOMAIN pages THEN pages[p].objectSize ELSE p

-----------------------------------------------------------------------------
TypeOK == Stack!TypeOK /\ Sized!TypeOK

(* The stack offset follows the stack depth while sized allocations map   *)
(* pages in between.                                                       *)
OffsetTracksDepth == Stack!OffsetTracksDepth

(* Sized objects are found in their own Page, although m_pageEnds also    *)
(* holds stack pages, live and destroyed.                                  *)
FindsOwnPage == Sized!FindsOwnPage

(* Sized objects never overlap one another.                                *)
ObjectsDisjoint == Sized!ObjectsDisjoint

(* getAllocationSize of a live stack segment in a mapped stack Page is    *)
(* kLargeObjectSize: findPageContaining finds the segment's own Page even *)
(* after stack pages were destroyed and their addresses mapped again.     *)
SegmentsFound ==
  \A i \in DOMAIN segments :
    segments[i][1] \in Stack!MappedPages =>
      getAllocationSize(pages[segments[i][1]].start + segments[i][2]) = kLargeObjectSize

(* A stack segment the runtime still uses never overlaps an object the    *)
(* heap handed out of a mapped size-class page.                            *)
SegmentsAndObjectsDisjoint ==
  \A i \in DOMAIN segments, o \in objects :
    LET s == pages[segments[i][1]].start + segments[i][2] IN
    pages[segments[i][1]].start # Null /\ Sized!Mapped(o) =>
      \/ s + kLargeObjectSize <= o.addr
      \/ o.addr + pages[o.page].objectSize <= s

(* Alternating allocateStackSegment and freeTopStackSegment at a page     *)
(* boundary keeps at most one spare stack page, as the TODO at line 48    *)
(* expects (map/unmap per oscillation), while sized allocation runs too.  *)
StackPagesBounded == Stack!StackPagesBounded
=============================================================================
