--------------------------- MODULE MCPollerService ---------------------------
(* Which process the workers of PollerService belong to, for TLC. *)
EXTENDS PollerService

CONSTANTS w1, w2, h1, h2
TwoHosts == [w \in Worker |-> IF w = w1 THEN h1 ELSE h2]
OneHost  == [w \in Worker |-> h1]
=============================================================================
