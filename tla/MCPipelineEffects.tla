-------------------------- MODULE MCPipelineEffects --------------------------
(***************************************************************************)
(* Two calls that meet on one path of the Target: their helpers, the       *)
(* answers that get lost and the retries, with every switch on.            *)
(***************************************************************************)
EXTENDS MutationPipeline, TLC

CONSTANTS r1, r2, p1

A(tool, mode) ==
  [tool |-> tool, local |-> TRUE, path |-> p1, dest |-> p1, mode |-> mode]

MCRequests == {r1, r2}
MCCalls ==
  { A("write_file", "create"), A("write_file", "overwrite"),
    A("append_file", "overwrite"), A("delete_file", "overwrite") }
\* Of the calls above: two clients that overwrite what both of them have read,
\* and clients that only write.
MCOverwrites == {A("write_file", "overwrite")}
MCWrites == {A("write_file", "create"), A("write_file", "overwrite")}
AllOn == {[s \in Switches |-> TRUE]}
Symmetry == Permutations(MCRequests)
=============================================================================
