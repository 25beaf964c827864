-------------------------------- MODULE Page --------------------------------
(***************************************************************************)
(* The Page objects Heap.cpp creates with std::make_unique<Page>(objectSize,*)
(* totalSize, isExecutable) (Page.hpp is not in the tree).  A Page is      *)
(* mapped by map(), which may fail; startAddress() of a Page whose map()  *)
(* failed is nullptr, address 0.  allocate() hands out the objects of a    *)
(* Page in order, startAddress + used * objectSize, and capacity() is the  *)
(* number of objects left.  Addresses and sizes are in small units.       *)
(***************************************************************************)
EXTENDS Naturals

Null == 0

NewPage(objectSize, totalSize, start) ==
  [objectSize |-> objectSize, totalSize |-> totalSize, start |-> start, used |-> 0]

PageRecords(Sizes, Starts, Counts) ==
  [objectSize : Sizes, totalSize : Sizes, start : Starts \cup {Null}, used : Counts]
=============================================================================
