----------------------------- MODULE Appliance ------------------------------
(***************************************************************************)
(* The two ways in which a runtime gets to the appliance: install.sh, run  *)
(* there by its user, and deploy-pi.sh, run by the maintainer over ssh.    *)
(* Both replace the tree at the same path (INSTALL_DIR, REMOTE_TARGET_DIR) *)
(* and the unit files of systemd, and each keeps a way back of its own     *)
(* that the other knows nothing of.  One begins when the other is over.    *)
(***************************************************************************)
EXTENDS Naturals

CONSTANTS
  Commits,        \* commits, as releases and as deployments
  Installed,      \* what install.sh puts in the system, in its order
  Deployed,       \* the units among them, which deploy-pi.sh installs
  Brings,         \* Brings[v][u]: the file of unit u in release v, if any
  Adapter,        \* Adapter[c]: the hash of the adapter of commit c
  None, Unsaved,
  MaxRuns, MaxDeploys,
  MaxChanges,     \* bound: runs and deployments together, a deployment counted twice
  MaxFaults       \* bound: faults of both

VARIABLES
  current, units,         \* what both replace
  faults,
  \* install.sh
  kept, aside, unitBackup, checked, run, runs, proven, worn, apart, slipped, cut,
  \* deploy-pi.sh
  candidate, previous, failed, backup, local, session, accepted, before, cutOff, late,
  strayed

runVars ==
  <<kept, aside, unitBackup, checked, run, runs, proven, worn, apart, slipped, cut>>
deploymentVars ==
  <<candidate, previous, failed, backup, local, session, accepted, before, cutOff, late,
    strayed>>
vars == <<current, units, faults, runVars, deploymentVars>>

Dep == INSTANCE Deployment WITH Order <- Deployed

\* A release has no record of a deployment in it.
Releases == [commit : Commits, by : {0}, sha : {None}, proof : {None}]

Inst == INSTANCE Installer WITH
  installed <- current, previous <- kept, backup <- unitBackup,
  Order <- Installed, Versions <- Releases, Others <- Dep!Tree \ Releases, Files <- Commits

ASSUME ApplianceAssumption ==
  /\ Inst!InstallerAssumption /\ Dep!DeploymentAssumption
  /\ Dep!Units \subseteq Inst!Units

-----------------------------------------------------------------------------
\* An appliance that has nothing, or a tree and its units.
Init ==
  \/ Inst!Init /\ Dep!NoDeploymentYet
  \/ Dep!Found(Inst!Units) /\ Dep!NoDeploymentYet /\ Inst!NoRunYet

\* install.sh begins when no deployment is under way, and what the last one has
\* reported is past.
RunStep ==
  /\ Dep!Quiet
  /\ Inst!Next
  /\ local' = Dep!NoReport(local.d)
  /\ before' = [tree |-> None, units |-> [u \in Inst!Units |-> None]]
  /\ cutOff' = FALSE /\ late' = FALSE
  /\ UNCHANGED <<candidate, previous, failed, backup, session, accepted, strayed>>

\* And the other way round.
DeploymentStep ==
  /\ run.at = "idle"
  /\ Dep!Next
  /\ run' = Inst!Idle
  /\ checked' = "nothing"
  /\ UNCHANGED <<kept, aside, unitBackup, runs, proven, worn, apart, slipped, cut>>

Next ==
  /\ RunStep \/ DeploymentStep
  /\ runs' + 2 * local'.d <= MaxChanges

Spec == Init /\ [][Next]_vars

-----------------------------------------------------------------------------
\* Every variable has its type.
TypeOK == Inst!TypeOK /\ Dep!TypeOK

OnDisk == {current, kept} \cup {t[1] : t \in aside} \cup Dep!OnDisk
\* Trees that Doctor has passed, in a run or at the acceptance of a deployment.
Sound ==
  {t \in OnDisk \ {None} : t.by \in accepted \ {0} \/ \E p \in proven : Dep!IsTree(t, p)}

\* Once a run has verified a release, a tree that Doctor has passed stays on disk,
\* wherever: whatever fails, however often, and in whatever order the two scripts
\* are run, as long as no run was cut short in the midst of a change.
RuntimeKept == ~cut /\ proven # {} => Sound # {}

\* Rollbacks of install.sh restore tree and units as a set, also when a deployment
\* came in between.
WholeSetRestored == Inst!WholeSetRestored

\* What is reported verified runs with its units, and the set to go back to is
\* whole.
SuccessLeavesWayBack == Inst!SuccessLeavesWayBack /\ Dep!VerifiedLeavesWayBack

\* Records in trees, releases among them, are true.
ProvenanceIsTrue == Dep!ProvenanceIsTrue

\* A deployment that was rolled back leaves what it found, also what an
\* installation that failed had left.
RollbackRestores == Dep!RollbackRestores

\* And so does one that failed, whose tree is kept whatever was lost or killed.
FailureKeepsWhatWas == Dep!FailureKeepsWhatWas
=============================================================================
