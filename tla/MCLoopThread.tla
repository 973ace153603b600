---------------------------- MODULE MCLoopThread -----------------------------
(* Small instances of LoopThread for TLC. *)
EXTENDS LoopThread

CONSTANTS t1, t2, t3, t4
=============================================================================
