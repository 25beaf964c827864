---------------------------- MODULE MCResolverLIR ----------------------------
(* Resolver of src/hadron/Resolver.cpp on the frame of MCFrame.           *)
EXTENDS ResolverLIR, MCFrame
=============================================================================
