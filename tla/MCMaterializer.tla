--------------------------- MODULE MCMaterializer ---------------------------
(* A method R whose block literals A, B and C nest in every way: each of   *)
(* them inside R or inside another one, giving flat, chained and branching *)
(* nestings up to depth three.  Siblings keep the order A, B, C.  The      *)
(* Emitter may write up to 16 bytes per instruction, so the byte code fits *)
(* with room, fills its array exactly, or not at all.                      *)
EXTENDS Materializer, TLC
CONSTANTS R, A, B, C
MCFrames == {R, A, B, C}
Blocks == {A, B, C}
Order == <<A, B, C>>

(* The Frame reached from f by n steps up the nesting p.                   *)
RECURSIVE Up(_, _, _)
Up(p, f, n) == IF n = 0 \/ f = R THEN f ELSE Up(p, p[f], n - 1)

Parents == {p \in [Blocks -> MCFrames] :
              \A f \in Blocks : p[f] # f /\ Up(p, f, Cardinality(Blocks)) = R}

MCShapes ==
  {[f \in MCFrames |-> SelectSeq(Order, LAMBDA g : p[g] = f)] : p \in Parents}

MCInstructions == (R :> 2) @@ (A :> 1) @@ (B :> 1) @@ (C :> 1)
=============================================================================
