------------------------------ MODULE MCRegistry ------------------------------
(* A console, a bridge and an import-json over two Targets. *)
EXTENDS RegistryAdmin, TLC

CONSTANTS console, b1, i1, w1, w2, h1, h2, none, noRow
=============================================================================
