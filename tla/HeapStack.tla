----------------------------- MODULE HeapStack -----------------------------
(***************************************************************************)
(* Stack segments of src/hadron/Heap.cpp: Heap::allocateStackSegment and  *)
(* Heap::freeTopStackSegment.  Stack pages are Pages of kPageSize holding *)
(* segments of kLargeObjectSize; m_stackPageOffset is the byte offset of  *)
(* the next segment in the back page.  The caller (the runtime's stack)   *)
(* frees segments in the reverse order it got them; its view of the live  *)
(* segments is the history variable `segments`.  A Page destroyed by      *)
(* pop_back() is unmapped, and its address may be mapped again.           *)
(***************************************************************************)
EXTENDS Naturals, Sequences, FiniteSets, TLC, Page

CONSTANTS
  kLargeObjectSize, kPageSize,
  MapStarts,        \* page-aligned addresses a successful map() may return
  MaxPages          \* bound on Page objects ever created

ASSUME /\ kPageSize % kLargeObjectSize = 0
       /\ kLargeObjectSize < kPageSize
       /\ Null \notin MapStarts

PageIds == 1..MaxPages   \* Page objects, numbered in creation order

VARIABLES
  ndebug,           \* TRUE in a release build: asserts are compiled out
  pages,            \* the Page objects created, in creation order
  mapped,           \* addresses of the Pages currently mapped
  pageEnds,         \* m_pageEnds: end address -> Page
  stackSegments,    \* m_stackSegments: the owned stack Pages, in order
  stackPageOffset,  \* m_stackPageOffset
  segments,         \* caller's live segments: <<Page, offset>>, in order
  destroyed,        \* history: stack Pages destroyed by pop_back()
  crashed           \* a failed assert stopped the process

vars == <<ndebug, pages, mapped, pageEnds, stackSegments, stackPageOffset,
          segments, destroyed, crashed>>

(* The stack Pages still owned by m_stackSegments.                        *)
Owned == {stackSegments[i] : i \in DOMAIN stackSegments}

(* Owned Pages whose map() succeeded.                                     *)
MappedPages == {p \in Owned : pages[p].start # Null}

Top(s) == s[Len(s)]

Init ==
  /\ ndebug \in BOOLEAN
  /\ pages = <<>>
  /\ mapped = {}
  /\ pageEnds = [a \in {} |-> 1]
  /\ stackSegments = <<>>
  /\ stackPageOffset = 0
  /\ segments = <<>>
  /\ destroyed = {}
  /\ crashed = FALSE

(* Mutant: the offset advances without wrapping at the page size.        *)
HandOutNoWrap(ss, start) ==
  /\ pageEnds' = ((start + kPageSize) :> Top(ss)) @@ pageEnds
  /\ segments' = Append(segments, <<Top(ss), stackPageOffset>>)
  /\ stackPageOffset' = stackPageOffset + kLargeObjectSize

(* Mutant: the page is registered under its start address, not its end.  *)
HandOutKeyedByStart(ss, start) ==
  /\ pageEnds' = (start :> Top(ss)) @@ pageEnds
  /\ segments' = Append(segments, <<Top(ss), stackPageOffset>>)
  /\ stackPageOffset' = (stackPageOffset + kLargeObjectSize) % kPageSize

(* Register the back page in m_pageEnds and hand out the segment at the   *)
(* current offset (Heap.cpp lines 38-44).                                 *)
HandOut(ss, start) ==
  /\ pageEnds' = ((start + kPageSize) :> Top(ss)) @@ pageEnds
  /\ segments' = Append(segments, <<Top(ss), stackPageOffset>>)
  /\ stackPageOffset' = (stackPageOffset + kLargeObjectSize) % kPageSize

(* allocateStackSegment at offset 0: create and map a new stack Page.     *)
AllocateOnNewPage ==
  /\ ~crashed
  /\ stackPageOffset = 0
  /\ Len(pages) < MaxPages
  /\ \E addr \in MapStarts \ mapped :
       /\ pages' = Append(pages, NewPage(kLargeObjectSize, kPageSize, addr))
       /\ mapped' = mapped \cup {addr}
       /\ stackSegments' = Append(stackSegments, Len(pages) + 1)
       /\ HandOut(stackSegments', addr)
  /\ UNCHANGED <<ndebug, destroyed, crashed>>

(* map() fails: the new Page stays in m_stackSegments, unmapped; a debug  *)
(* build stops on assert(false), a release build returns nullptr.         *)
MapFailure ==
  /\ ~crashed
  /\ stackPageOffset = 0
  /\ Len(pages) < MaxPages
  /\ pages' = Append(pages, NewPage(kLargeObjectSize, kPageSize, Null))
  /\ stackSegments' = Append(stackSegments, Len(pages) + 1)
  /\ crashed' = ~ndebug
  /\ UNCHANGED <<ndebug, mapped, pageEnds, stackPageOffset, segments, destroyed>>

(* allocateStackSegment with room left on the back page.  back() on an   *)
(* empty m_stackSegments is undefined; the model counts it as a crash.    *)
(* A back Page whose map() failed has start 0: assert(address) stops a    *)
(* debug build, a release build registers end kPageSize and hands out an  *)
(* offset from null.                                                       *)
AllocateOnBackPage ==
  /\ ~crashed
  /\ stackPageOffset # 0
  /\ \/ /\ stackSegments # <<>>
        /\ ndebug \/ pages[Top(stackSegments)].start # Null
        /\ HandOut(stackSegments, pages[Top(stackSegments)].start)
        /\ UNCHANGED <<stackSegments, crashed>>
     \/ /\ \/ stackSegments = <<>>
           \/ /\ stackSegments # <<>>
              /\ ~ndebug
              /\ pages[Top(stackSegments)].start = Null
        /\ crashed' = TRUE
        /\ UNCHANGED <<stackSegments, stackPageOffset, pageEnds, segments>>
  /\ UNCHANGED <<ndebug, pages, mapped, destroyed>>

(* Mutant: after popping a page the offset restarts at zero.             *)
LastOffsetZero == 0

(* kPageSize - kLargeObjectSize: the offset of the last segment of a page. *)
LastOffset == kPageSize - kLargeObjectSize

(* freeTopStackSegment, called by the owner of the top segment.  At       *)
(* offset 0 the back Page is destroyed and unmapped (its m_pageEnds entry *)
(* stays).  With no Page left, a debug build stops at the assert; in a   *)
(* release build pop_back() on the empty vector is undefined: the process *)
(* may fail there or go on with the vector as it was.                      *)
FreeTopStackSegment ==
  /\ ~crashed
  /\ segments # <<>>
  /\ segments' = SubSeq(segments, 1, Len(segments) - 1)
  /\ \/ /\ stackPageOffset = 0
        /\ \/ /\ stackSegments # <<>>
              /\ stackSegments' = SubSeq(stackSegments, 1, Len(stackSegments) - 1)
              /\ mapped' = mapped \ {pages[Top(stackSegments)].start}
              /\ destroyed' = destroyed \cup {Top(stackSegments)}
              /\ stackPageOffset' = LastOffset
              /\ UNCHANGED crashed
           \/ /\ stackSegments = <<>>
              /\ crashed' \in {TRUE, ~ndebug}
              /\ stackPageOffset' = LastOffset
              /\ UNCHANGED <<stackSegments, mapped, destroyed>>
     \/ /\ stackPageOffset # 0
        /\ stackPageOffset' = stackPageOffset - kLargeObjectSize
        /\ UNCHANGED <<stackSegments, mapped, destroyed, crashed>>
  /\ UNCHANGED <<ndebug, pages, pageEnds>>

Next ==
  \/ AllocateOnNewPage
  \/ MapFailure
  \/ AllocateOnBackPage
  \/ FreeTopStackSegment

Spec == Init /\ [][Next]_vars

-----------------------------------------------------------------------------
Offsets == {k * kLargeObjectSize : k \in 0..kPageSize \div kLargeObjectSize - 1}

TypeOK ==
  /\ ndebug \in BOOLEAN
  /\ Len(pages) <= MaxPages
  /\ mapped \subseteq MapStarts
  /\ \A a \in DOMAIN pageEnds : pageEnds[a] \in DOMAIN pages
  /\ \A i \in DOMAIN stackSegments : stackSegments[i] \in DOMAIN pages
  /\ stackPageOffset \in Offsets
  /\ \A i \in DOMAIN segments :
       segments[i][1] \in DOMAIN pages /\ segments[i][2] \in Offsets
  /\ destroyed \subseteq DOMAIN pages
  /\ crashed \in BOOLEAN

(* m_stackPageOffset always equals the live stack depth in bytes modulo   *)
(* the page size: allocate and free keep it in step with the caller's     *)
(* stack, also across the wrap at a page boundary.                        *)
OffsetTracksDepth ==
  ~crashed => stackPageOffset = (Len(segments) * kLargeObjectSize) % kPageSize

(* The stack keeps no more mapped pages than its live segments fill, plus *)
(* the one spare page the TODO at freeTopStackSegment allows for: an alloc *)
(* and a free that oscillate at a page boundary map and unmap one page,    *)
(* they do not keep a page per call.                                       *)
StackPagesBounded ==
  Cardinality(MappedPages) <=
    (Len(segments) * kLargeObjectSize + kPageSize - 1) \div kPageSize + 1
=============================================================================
