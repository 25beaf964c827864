------------------------------- MODULE MCHeap -------------------------------
(* Object sizes 1, 2 and 4 in pages of 8 (two stack segments of 4 each),  *)
(* requests of 1, 2, 4 and the oversize 5, and two page addresses, 8 and  *)
(* 16, so that pages are adjacent and an address unmapped by the stack    *)
(* can be mapped again by a size class.                                    *)
EXTENDS Heap
MCMapStarts == {8, 16}
MCRequests == {1, 2, 4, 5}
=============================================================================
