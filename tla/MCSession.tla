----------------------------- MODULE MCSession -----------------------------
(* Session, instantiated for TLC.  The transmit buffers are numbered: the  *)
(* stack Init builds of them has an order, so no symmetry is claimed.      *)
EXTENDS Session
=============================================================================
