----------------------------- MODULE MCGrpcCalls -----------------------------
(* Small instances of GrpcCalls for TLC. *)
EXTENDS GrpcCalls

CONSTANTS c1, c2
=============================================================================
