------------------------------ MODULE MCRelease ------------------------------
(* The life cycle of two releases, with a console and the daily maintenance  *)
(* that leaves one backup.                                                  *)
EXTENDS ReleaseLifecycle, TLC

CONSTANTS v1, v2, console

MCVersions == {v1, v2}
MCRequesters == {console}
Symmetry == Permutations(MCVersions)
=============================================================================
