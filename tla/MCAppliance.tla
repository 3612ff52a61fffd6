---------------------------- MODULE MCAppliance -----------------------------
(* Two commits; the release of the second has no tunnel check, which         *)
(* deployments leave alone.                                                  *)
EXTENDS Appliance

CONSTANTS c1, c2, admin, tunnel, check

MCCommits == {c1, c2}
MCAdapter == [c \in MCCommits |-> c]
MCDeployed == <<admin, tunnel>>
MCInstalled == <<admin, tunnel, check>>
MCBrings ==
  [v \in Releases |->
     [u \in {admin, tunnel, check} |-> IF v.commit = c2 /\ u = check THEN None ELSE v.commit]]
=============================================================================
