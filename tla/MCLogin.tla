------------------------------- MODULE MCLogin -------------------------------
(* Two browsers; the username that is tried is the address of one of them. *)
EXTENDS ConsoleLogin

CONSTANTS a1, a2, none
=============================================================================
