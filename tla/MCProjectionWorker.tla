-------------------------- MODULE MCProjectionWorker --------------------------
(* Pages of two rows, so that one table spans several pages.                  *)
EXTENDS ProjectionWorker

CONSTANTS u1, u2

=============================================================================
