-------------------------------- MODULE MCJob --------------------------------
(***************************************************************************)
(* Two starts of one job id, of which the second comes at any time, with a *)
(* status and a cleanup at any time.                                       *)
(***************************************************************************)
EXTENDS ResumableJob
=============================================================================
