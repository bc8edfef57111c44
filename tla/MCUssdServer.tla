----------------------------- MODULE MCUssdServer -----------------------------
(* Two connections that can ask for the same session.                        *)
EXTENDS UssdServer

CONSTANTS c1, c2

=============================================================================
