---------------------------- MODULE MCReqCancel ----------------------------
(* Instance of ReqCancel for TLC: one of two addresses ends in a zero byte. *)
EXTENDS ReqCancel

CONSTANTS r1, r2

OneAligned == {r1}
=============================================================================
