--------------------------- MODULE MCPollerWrapper ---------------------------
(* The hosts of the wrappers of PollerWrapper, for TLC. *)
EXTENDS PollerWrapper

CONSTANTS w1, w2, h1, h2, d1, d2
TwoHosts == [w \in Wrapper |-> IF w = w1 THEN h1 ELSE h2]
=============================================================================
