------------------------------ MODULE HeapSized ------------------------------
(***************************************************************************)
(* Size-class allocation of src/hadron/Heap.cpp: allocateNew and          *)
(* allocateJIT over allocateSized, getSizeClass, getSize, and             *)
(* findPageContaining over m_pageEnds, on the Pages of the Page module.   *)
(***************************************************************************)
EXTENDS Integers, Sequences, FiniteSets, TLC, Page

CONSTANTS
  kSmallObjectSize, kMediumObjectSize, kLargeObjectSize, kPageSize,
  MapStarts,     \* page-aligned addresses a successful map() may return
  Requests,      \* sizes callers ask for
  MaxPages,      \* bound on Page objects created
  MaxAllocs      \* bound on allocation calls

ASSUME /\ 0 < kSmallObjectSize /\ kSmallObjectSize < kMediumObjectSize
       /\ kMediumObjectSize < kLargeObjectSize /\ kLargeObjectSize <= kPageSize
       /\ Null \notin MapStarts
       /\ \A r \in Requests : r <= kPageSize

Classes == {"kSmall", "kMedium", "kLarge", "kOversize"}
HeapKinds == {"young", "executable"}      \* m_youngPages, m_executablePages
PageIds == 1..MaxPages

VARIABLES
  ndebug,      \* TRUE in a release build
  pages,       \* the Page objects created, in creation order
  mapped,      \* addresses of the Pages currently mapped
  sizedPages,  \* [HeapKinds \X Classes -> Seq(PageIds)]
  pageEnds,    \* m_pageEnds: end address -> Page
  objects,     \* history: addresses returned: Page, request, call number
  calls,       \* number of allocation calls made
  crashed      \* a failed assert ended a debug build

vars == <<ndebug, pages, mapped, sizedPages, pageEnds, objects, calls, crashed>>

(* Heap::getSizeClass *)
getSizeClass(size) ==
  CASE size <= kSmallObjectSize -> "kSmall"
    [] size <= kMediumObjectSize -> "kMedium"
    [] size <= kLargeObjectSize -> "kLarge"
    [] OTHER -> "kOversize"

(* Heap::getSize: 0 for kOversize.                                        *)
getSize(cls) ==
  CASE cls = "kSmall" -> kSmallObjectSize
    [] cls = "kMedium" -> kMediumObjectSize
    [] cls = "kLarge" -> kLargeObjectSize
    [] OTHER -> 0

(* The addresses map() may return, and nullptr for a failed map().        *)
MapResults == (MapStarts \ mapped) \cup {Null}

(* Mutant: the capacity test of the page loop is dropped.                 *)
HasCapacityUnchecked(p) == TRUE

(* Page::capacity() is non-zero.                                           *)
HasCapacity(p) == pages[p].used < pages[p].totalSize \div pages[p].objectSize

(* Index of the first Page of a list with capacity (the loop at 116-120). *)
FirstWithCapacity(list) ==
  CHOOSE i \in 1..Len(list) :
    HasCapacity(list[i]) /\ \A j \in 1..i - 1 : ~HasCapacity(list[j])

(* No page of the list has capacity: the loop at 116-120 falls through.    *)
ClassFull(list) == \A i \in 1..Len(list) : ~HasCapacity(list[i])

(* assert(false) after a failed map() of a new size-class page.           *)
MapAssert == crashed' = ~ndebug

(* The address reaches the caller of allocateNew or allocateJIT (whose    *)
(* allocatedSize, getSize of the class, is not tracked).                   *)
Return(heap, size, p, addr) ==
  objects' = IF addr = Null THEN objects
             ELSE objects \cup {[addr |-> addr, page |-> p, size |-> size, call |-> calls]}

(* Mutant: the page's fill count is not advanced.                        *)
HandOutNoBump(ps, p, heap, size) ==
  LET addr == ps[p].start + ps[p].used * ps[p].objectSize IN
  /\ pages' = ps
  /\ Return(heap, size, p, addr)

(* Page::allocate on Page p of the page list ps, returned to the caller.  *)
HandOut(ps, p, heap, size) ==
  LET addr == ps[p].start + ps[p].used * ps[p].objectSize IN
  /\ pages' = [ps EXCEPT ![p].used = @ + 1]
  /\ Return(heap, size, p, addr)

Init ==
  /\ ndebug \in BOOLEAN
  /\ pages = <<>>
  /\ mapped = {}
  /\ sizedPages = [k \in HeapKinds \X Classes |-> <<>>]
  /\ pageEnds = [e \in {} |-> 0]
  /\ objects = {}
  /\ calls = 0
  /\ crashed = FALSE

(* Heap::allocateSized for heap's page lists; heap = "young" is           *)
(* allocateNew, heap = "executable" is allocateJIT.                        *)
AllocateSized(heap, size) ==
  LET cls == getSizeClass(size)
      list == sizedPages[<<heap, cls>>]
      id == Len(pages) + 1
      Push == sizedPages' = [sizedPages EXCEPT ![<<heap, cls>>] = Append(@, id)]
  IN
  /\ ~crashed
  /\ calls < MaxAllocs
  /\ calls' = calls + 1
  /\ \/ /\ cls = "kOversize"                 \* assert(false) at line 105
        /\ ~ndebug
        /\ crashed' = TRUE
        /\ UNCHANGED <<pages, mapped, sizedPages, pageEnds, objects>>
     \/ /\ cls = "kOversize"                 \* a page of its own, not in m_pageEnds
        /\ ndebug
        /\ id <= MaxPages
        /\ Push
        /\ \E start \in MapResults :
             LET ps == Append(pages, NewPage(size, size, start)) IN
             /\ mapped' = (mapped \cup {start}) \ {Null}
             /\ IF start = Null THEN pages' = ps /\ Return(heap, size, id, Null)
                                ELSE HandOut(ps, id, heap, size)
        /\ UNCHANGED <<pageEnds, crashed>>
     \/ /\ cls # "kOversize"                 \* an existing page with capacity
        /\ \E i \in 1..Len(list) : HasCapacity(list[i])
        /\ HandOut(pages, list[FirstWithCapacity(list)], heap, size)
        /\ UNCHANGED <<mapped, sizedPages, pageEnds, crashed>>
     \/ /\ cls # "kOversize"                 \* mark(), sweep(), then a new page
        /\ ClassFull(list)
        /\ id <= MaxPages
        /\ Push
        /\ \E start \in MapResults :
             LET ps == Append(pages, NewPage(getSize(cls), kPageSize, start)) IN
             /\ mapped' = (mapped \cup {start}) \ {Null}
             /\ IF start = Null
                THEN /\ pages' = ps             \* map() failed: assert(false)
                     /\ MapAssert
                     /\ Return(heap, size, id, Null)
                     /\ UNCHANGED pageEnds
                ELSE /\ pageEnds' = ((start + kPageSize) :> id) @@ pageEnds
                     /\ HandOut(ps, id, heap, size)
                     /\ UNCHANGED crashed
  /\ UNCHANGED ndebug

Next == \E heap \in HeapKinds, size \in Requests : AllocateSized(heap, size)

Spec == Init /\ [][Next]_vars

(* Mutant: lower_bound instead of upper_bound.                            *)
LowerBound(addr) ==
  LET keys == {e \in DOMAIN pageEnds : e >= addr} IN
  CHOOSE e \in keys : \A k \in keys : e <= k

(* m_pageEnds.upper_bound(addr): the first page end above addr.            *)
UpperBound(addr) ==
  LET keys == {e \in DOMAIN pageEnds : e > addr} IN
  CHOOSE e \in keys : \A k \in keys : e <= k

(* Heap::findPageContaining: the Page, Null (nullptr), or -1 where        *)
(* assert(addressValue >= startAddress) fails.                             *)
findPageContaining(addr) ==
  IF \A e \in DOMAIN pageEnds : e <= addr THEN Null
  ELSE LET p == pageEnds[UpperBound(addr)] IN
       CASE addr < pages[p].start -> -1
         [] addr - pages[p].start < pages[p].totalSize -> p
         [] OTHER -> Null
-----------------------------------------------------------------------------
TypeOK ==
  /\ ndebug \in BOOLEAN
  /\ Len(pages) <= MaxPages
  /\ \A p \in DOMAIN pages :
       /\ pages[p].start \in MapStarts \cup {Null}
       /\ pages[p].used \in 0..pages[p].totalSize \div pages[p].objectSize
  /\ mapped \subseteq MapStarts
  /\ \A k \in HeapKinds \X Classes : \A i \in 1..Len(sizedPages[k]) :
       sizedPages[k][i] \in DOMAIN pages
  /\ \A e \in DOMAIN pageEnds : pageEnds[e] \in DOMAIN pages
  /\ calls \in 0..MaxAllocs
  /\ crashed \in BOOLEAN

Mapped(o) == pages[o.page].start # Null
Sized(o) == getSizeClass(pages[o.page].objectSize) # "kOversize"

(* findPageContaining finds the Page of every object allocateSized handed *)
(* out of a mapped size-class page, whichever heap and page it came from. *)
FindsOwnPage ==
  \A o \in objects : Mapped(o) /\ Sized(o) => findPageContaining(o.addr) = o.page

(* Objects handed out of mapped pages never overlap.                       *)
ObjectsDisjoint ==
  \A o1, o2 \in objects :
    o1 # o2 /\ Mapped(o1) /\ Mapped(o2) /\ o1.addr <= o2.addr
      => o1.addr + pages[o1.page].objectSize <= o2.addr

=============================================================================
