------------------------- MODULE MCPipelineSwitches -------------------------
(***************************************************************************)
(* One call, of a tool of each kind and by either kind of client, against  *)
(* an administrator who flips switches and an audit sink that may fail.    *)
(***************************************************************************)
EXTENDS MutationPipeline

CONSTANTS p1, p2

Mode(tool) == CASE tool = "write_file" -> "create"
                [] tool = "mkdir" -> "parents"
                [] OTHER -> "overwrite"

MCCalls ==
  { [tool |-> t, local |-> l, path |-> p1, dest |-> p2, mode |-> Mode(t)] :
      t \in {"write_file", "mkdir", "copy_file", "move_file", "run_task", "run_command"},
      l \in BOOLEAN }

AnySetting == [Switches -> BOOLEAN]
=============================================================================
