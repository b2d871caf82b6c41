--------------------------- MODULE MCSchemaUpdate ---------------------------
(* Programs and process ids for TLC: discovery.php and a request of the  *)
(* installer.                                                              *)
EXTENDS SchemaUpdate

CONSTANTS discovery, installer, n1, n2, n3
=============================================================================
