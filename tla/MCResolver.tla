----------------------------- MODULE MCResolver -----------------------------
(* Resolver of src/Resolver.cpp on the frame of MCFrame.                  *)
EXTENDS Resolver, MCFrame
=============================================================================
