------------------------------ MODULE MCCatalog ------------------------------
(* Two requests at a time, and two tools. *)
EXTENDS AdapterCatalog, TLC

CONSTANTS r1, r2, none
=============================================================================
