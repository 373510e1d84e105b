----------------------------- MODULE MCSession -----------------------------
(* A small instance of Session: the test client and one other window. *)
EXTENDS Session, MCCompositor
=============================================================================
