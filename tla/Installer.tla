------------------------------ MODULE Installer ------------------------------
(***************************************************************************)
(* install.sh: the installer of release trees and its rollback.  It keeps  *)
(* one previous tree and one copy of the system's unit files beside the    *)
(* installed tree, and replaces the three one after another.  Until it has *)
(* declared success a trap undoes what was activated: by rollback_runtime, *)
(* which `install.sh --rollback' also runs, but there with `set -e' in     *)
(* force; the trap calls it as `rollback_runtime || true', which suspends  *)
(* `set -e' in all of it.                                                  *)
(*                                                                         *)
(* Runs follow each other, each possibly killed (SIGKILL, power) between   *)
(* two steps, or told to end by a signal the trap catches.  All trees are  *)
(* in the service's home: moving one is a rename, which does not fail.     *)
(***************************************************************************)
EXTENDS Naturals, Sequences

CONSTANTS
  Versions,       \* release trees
  Others,         \* trees that get there by other ways
  Order,          \* unit files and the tunnel check, in the order of the loops
  Files,          \* what they may contain
  Brings,         \* Brings[v][u]: the unit file of release v, if it has one
  None,           \* no tree, no file
  Unsaved,        \* neither a copy nor a note that there was none
  MaxRuns,        \* bound: runs of install.sh
  MaxFaults       \* bound: commands that fail, kills and signals

Units == {Order[i] : i \in DOMAIN Order}
Trees == Versions \cup Others \cup {None}

InstallerAssumption ==
  /\ None \notin Versions \cup Others \cup Files
  /\ Unsaved \notin Files \cup {None}
  /\ Order \in Seq(Units) /\ Order # <<>>
  /\ Brings \in [Versions -> [Units -> Files \cup {None}]]
  /\ MaxRuns \in Nat /\ MaxFaults \in Nat

VARIABLES
  installed,    \* the tree at INSTALL_DIR
  previous,     \* the tree at PREVIOUS_DIR
  aside,        \* trees at mcp-gateway.failed-install.<time>, with the run
  units,        \* units[u]: the unit file in place
  backup,       \* backup[u]: its copy in UNIT_BACKUP
  checked,      \* what the checks have said of what is installed since it
                \* last changed: nothing, "ready" or "sound" (Doctor passed)
  run,          \* the run of install.sh
  runs, faults,
  proven,       \* history: trees a run has verified
  worn,         \* history: tree and units when a run last moved the tree
  apart,        \* history: units saved since, but no tree moved
  slipped,      \* history: a step of this run failed and nobody noticed
  cut           \* history: a run was cut short in the midst of a change, and
                \* none has been verified since

treeVars == <<installed, previous, aside>>
unitVars == <<units, backup>>
historyVars == <<proven, worn, apart, slipped, cut>>
vars == <<treeVars, unitVars, checked, run, runs, faults, historyVars>>

-----------------------------------------------------------------------------
InstallPlaces ==
  {"stage", "clear", "save", "drop", "move", "place", "mark", "units", "restart", "doctor", "setup"}
RollbackPlaces == {"stop", "away", "back", "restore", "start", "examine", "clean"}
WithdrawPlaces == {"remove", "withdraw", "withdrawn"}
\* What it prints last, or how it ends without.
Outcomes == {"none", "installed", "rolled back", "withdrawn", "failed", "killed"}

RunState ==
  [at : {"idle"} \cup InstallPlaces \cup RollbackPlaces \cup WithdrawPlaces,
   mode : {"install", "rollback", "recover"},
   version : Trees, turn : 1..Len(Order), activated : BOOLEAN, outcome : Outcomes]

Idle ==
  [at |-> "idle", mode |-> "install", version |-> None, turn |-> 1, activated |-> FALSE,
   outcome |-> "none"]

NoRunYet ==
  /\ previous = None /\ aside = {}
  /\ backup = [u \in Units |-> Unsaved]
  /\ checked = "nothing"
  /\ run = Idle
  /\ runs = 0 /\ faults = 0
  /\ proven = {}
  /\ worn = [tree |-> installed, units |-> units]
  /\ apart = FALSE /\ slipped = FALSE /\ cut = FALSE

Init ==
  /\ installed = None
  /\ units = [u \in Units |-> None]
  /\ NoRunYet

Goto(place) == run' = [run EXCEPT !.at = place, !.turn = 1]
\* What the process knew is gone with it.
End(outcome) ==
  run' = [run EXCEPT !.at = "idle", !.turn = 1, !.activated = FALSE, !.outcome = outcome]

\* A loop over the units is at u; after the last one the run goes on to next.
Loop(place, u, next) ==
  /\ run.at = place
  /\ u = Order[run.turn]
  /\ IF run.turn = Len(Order) THEN Goto(next) ELSE run' = [run EXCEPT !.turn = @ + 1]

Begin(mode, version, place) ==
  /\ run.at = "idle"
  /\ runs < MaxRuns
  /\ runs' = runs + 1
  /\ run' = [at |-> place, mode |-> mode, version |-> version, turn |-> 1,
             activated |-> FALSE, outcome |-> "none"]
  /\ slipped' = FALSE
  /\ UNCHANGED <<treeVars, unitVars, checked, faults, proven, worn, apart, cut>>

Install(v) == Begin("install", v, "stage")
Rollback == Begin("rollback", None, "stop")

-----------------------------------------------------------------------------
(* How a run that does not succeed ends.                                   *)

\* install_exit, with a status other than 0.
InstallExit ==
  \/ /\ run.activated /\ previous # None
     /\ run' = [run EXCEPT !.at = "stop", !.mode = "recover", !.turn = 1]
  \/ /\ run.activated /\ previous = None
     /\ Goto("remove")
  \/ /\ ~run.activated
     /\ End("failed")

\* The places where a command may fail while `set -e' or a check ends the run.
Fails ==
  \/ /\ run.at \in {"stage", "clear", "save", "drop", "units", "restart", "doctor", "setup"}
     /\ InstallExit
  \/ /\ \/ run.at = "start"
        \/ run.at \in {"restore", "examine"} /\ run.mode = "rollback"
     /\ End("failed")

Fault ==
  /\ faults < MaxFaults
  /\ faults' = faults + 1

StepFails ==
  /\ Fails
  /\ Fault
  /\ UNCHANGED <<treeVars, unitVars, checked, runs, historyVars>>

Disturb(halfway) ==
  /\ Fault
  /\ cut' = (cut \/ halfway)
  /\ UNCHANGED <<treeVars, unitVars, checked, runs, proven, worn, apart, slipped>>

\* HUP, INT or TERM, while the trap is set.  Between the renames and ACTIVATED=1
\* the trap undoes nothing.
Interrupt ==
  /\ run.at \in InstallPlaces
  /\ InstallExit
  /\ Disturb(run.at \in {"place", "mark"})

Kill ==
  /\ run.at # "idle"
  /\ End("killed")
  /\ Disturb(run.at \notin {"stage", "clear", "save", "drop", "move"})

-----------------------------------------------------------------------------
(* Installation, [2/9] to [9/9].                                           *)

\* Staging, secrets and the Registry, whose rows stay.
Stage ==
  /\ run.at = "stage"
  /\ Goto("clear")
  /\ UNCHANGED <<treeVars, unitVars, checked, runs, faults, historyVars>>

ClearUnitBackup ==
  /\ run.at = "clear"
  /\ backup' = [u \in Units |-> Unsaved]
  /\ apart' = TRUE
  /\ Goto("save")
  /\ UNCHANGED <<treeVars, units, checked, runs, faults, proven, worn, slipped, cut>>

SaveUnit(u) ==
  /\ Loop("save", u, "drop")
  /\ backup' = [backup EXCEPT ![u] = units[u]]
  /\ UNCHANGED <<treeVars, units, checked, runs, faults, historyVars>>

DropPrevious ==
  /\ run.at = "drop"
  /\ previous' = None
  /\ Goto("move")
  /\ UNCHANGED <<installed, aside, unitVars, checked, runs, faults, historyVars>>

MoveInstalled ==
  /\ run.at = "move"
  /\ previous' = installed
  /\ installed' = None
  /\ worn' = [tree |-> installed, units |-> units]
  /\ apart' = FALSE
  /\ checked' = "nothing"
  /\ Goto("place")
  /\ UNCHANGED <<aside, unitVars, runs, faults, proven, slipped, cut>>

PlaceStage ==
  /\ run.at = "place"
  /\ installed' = run.version
  /\ Goto("mark")
  /\ UNCHANGED <<previous, aside, unitVars, checked, runs, faults, historyVars>>

MarkActivated ==
  /\ run.at = "mark"
  /\ run' = [run EXCEPT !.at = "units", !.activated = TRUE]
  /\ UNCHANGED <<treeVars, unitVars, checked, runs, faults, historyVars>>

InstallUnit(u) ==
  /\ Loop("units", u, "restart")
  /\ units' = [units EXCEPT ![u] = IF Brings[installed][u] # None THEN Brings[installed][u] ELSE @]
  /\ UNCHANGED <<treeVars, backup, checked, runs, faults, historyVars>>

\* restart_runtime and its waits, at either of its calls.
RestartRuntime ==
  /\ \/ run.at = "restart" /\ Goto("doctor")
     \/ run.at = "start" /\ Goto("examine")
  /\ checked' = "ready"
  /\ UNCHANGED <<treeVars, unitVars, runs, faults, historyVars>>

\* Doctor passes, at either of its calls.
Doctor ==
  /\ \/ run.at = "doctor" /\ Goto("setup")
     \/ run.at = "examine" /\ Goto("clean")
  /\ checked' = "sound"
  /\ UNCHANGED <<treeVars, unitVars, runs, faults, historyVars>>

\* The run is over; if Doctor has passed, what is installed has been verified.
Verified ==
  /\ proven' = IF checked = "sound" THEN proven \cup {installed} ELSE proven
  /\ cut' = (cut /\ checked # "sound")
  /\ UNCHANGED <<worn, apart, slipped>>

\* Mutant: the copies are removed on success, whether there is a previous tree.
FinishAndForget ==
  /\ run.at = "setup"
  /\ backup' = [u \in Units |-> Unsaved]
  /\ End("installed")
  /\ Verified
  /\ UNCHANGED <<treeVars, units, checked, runs, faults>>

FinishInstall ==
  /\ run.at = "setup"
  /\ backup' = IF previous = None THEN [u \in Units |-> Unsaved] ELSE backup
  /\ End("installed")
  /\ Verified
  /\ UNCHANGED <<treeVars, units, checked, runs, faults>>

-----------------------------------------------------------------------------
(* rollback_runtime, asked for or in the trap.                             *)

StopServices ==
  /\ run.at = "stop"
  /\ checked' = "nothing"
  /\ Goto("away")
  /\ UNCHANGED <<treeVars, unitVars, runs, faults, historyVars>>

MoveAway ==
  /\ run.at = "away"
  /\ aside' = IF installed = None THEN aside ELSE aside \cup {<<installed, runs>>}
  /\ installed' = None
  /\ Goto("back")
  /\ UNCHANGED <<previous, unitVars, checked, runs, faults, historyVars>>

MoveBack ==
  /\ run.at = "back"
  /\ previous # None
  /\ installed' = previous
  /\ previous' = None
  /\ Goto("restore")
  /\ UNCHANGED <<aside, unitVars, checked, runs, faults, historyVars>>

\* Mutant: what was moved aside is removed although there is nothing to move back.
NothingAndRemove ==
  /\ run.at = "back"
  /\ previous = None
  /\ aside' = {t \in aside : t[2] # runs}
  /\ End("failed")
  /\ UNCHANGED <<installed, previous, unitVars, checked, runs, faults, historyVars>>

\* It looks for the previous tree only once the installed one is gone.
NothingToMoveBack ==
  /\ run.at = "back"
  /\ previous = None
  /\ End("failed")
  /\ UNCHANGED <<treeVars, unitVars, checked, runs, faults, historyVars>>

\* Mutant: a unit that was absent is left in place.
RestoreCopy(u) ==
  /\ \/ Loop("restore", u, "start")
     \/ Loop("withdraw", u, "withdrawn")
  /\ units' = [units EXCEPT ![u] = IF backup[u] \in {Unsaved, None} THEN @ ELSE backup[u]]
  /\ UNCHANGED <<treeVars, backup, checked, runs, faults, historyVars>>

\* restore_system_files, for one unit: its copy, its absence, or neither.
RestoreUnit(u) ==
  /\ \/ Loop("restore", u, "start")
     \/ Loop("withdraw", u, "withdrawn")
  /\ units' = [units EXCEPT ![u] = IF backup[u] = Unsaved THEN @ ELSE backup[u]]
  /\ UNCHANGED <<treeVars, backup, checked, runs, faults, historyVars>>

\* Within `|| true' a unit that cannot be restored is passed over.
PassOver(u) ==
  /\ \/ run.mode = "recover" /\ Loop("restore", u, "start")
     \/ Loop("withdraw", u, "withdrawn")
  /\ Fault
  /\ slipped' = TRUE
  /\ UNCHANGED <<treeVars, unitVars, checked, runs, proven, worn, apart, cut>>

\* And so is a Doctor that fails.
PassOverDoctor ==
  /\ run.at = "examine" /\ run.mode = "recover"
  /\ Goto("clean")
  /\ Fault
  /\ UNCHANGED <<treeVars, unitVars, checked, runs, historyVars>>

\* ROLLBACK_VERIFIED.
CleanUp ==
  /\ run.at = "clean"
  /\ aside' = {t \in aside : t[2] # runs}
  /\ backup' = [u \in Units |-> Unsaved]
  /\ End("rolled back")
  /\ Verified
  /\ UNCHANGED <<installed, previous, units, checked, runs, faults>>

-----------------------------------------------------------------------------
(* The trap, when there was no tree to go back to.                         *)

RemoveInstalled ==
  /\ run.at = "remove"
  /\ installed' = None
  /\ checked' = "nothing"
  /\ Goto("withdraw")
  /\ UNCHANGED <<previous, aside, unitVars, runs, faults, historyVars>>

Withdrawn ==
  /\ run.at = "withdrawn"
  /\ End("withdrawn")
  /\ UNCHANGED <<treeVars, unitVars, checked, runs, faults, historyVars>>

-----------------------------------------------------------------------------
InstallStep ==
  \/ Stage \/ ClearUnitBackup \/ DropPrevious \/ MoveInstalled \/ PlaceStage
  \/ MarkActivated \/ RestartRuntime \/ Doctor \/ FinishInstall
  \/ \E u \in Units : SaveUnit(u) \/ InstallUnit(u)

RollbackStep ==
  \/ StopServices \/ MoveAway \/ MoveBack \/ NothingToMoveBack \/ PassOverDoctor \/ CleanUp
  \/ RemoveInstalled \/ Withdrawn
  \/ \E u \in Units : RestoreUnit(u) \/ PassOver(u)

Next ==
  \/ \E v \in Versions : Install(v)
  \/ Rollback
  \/ InstallStep \/ RollbackStep
  \/ StepFails \/ Interrupt \/ Kill

Spec == Init /\ [][Next]_vars

-----------------------------------------------------------------------------
\* Every variable has its type.
TypeOK ==
  /\ installed \in Trees /\ previous \in Trees
  /\ aside \subseteq (Trees \ {None}) \X (1..MaxRuns)
  /\ units \in [Units -> Files \cup {None}]
  /\ backup \in [Units -> Files \cup {None, Unsaved}]
  /\ checked \in {"nothing", "ready", "sound"}
  /\ run \in RunState
  /\ runs \in 0..MaxRuns /\ faults \in 0..MaxFaults
  /\ proven \subseteq Trees
  /\ worn \in [tree : Trees, units : [Units -> Files \cup {None}]]
  /\ apart \in BOOLEAN /\ slipped \in BOOLEAN /\ cut \in BOOLEAN

\* ROLLBACK_VERIFIED, asked for or in the trap, and the withdrawal of a first
\* installation restore the tree that was moved and the units it ran with, as a set:
\* unless a later run saved units and moved nothing, or a unit was passed over.
\* When the rollback was asked for, Doctor has passed.
WholeSetRestored ==
  /\ run.outcome \in {"rolled back", "withdrawn"} /\ ~apart /\ ~slipped =>
       installed = worn.tree /\ units = worn.units
  /\ run.outcome = "rolled back" /\ run.mode = "rollback" => checked = "sound"

\* INSTALLATION_VERIFIED: the release is installed with the units it has and is
\* sound, and the set to go back to is whole.
SuccessLeavesWayBack ==
  run.outcome = "installed" =>
    /\ installed = run.version /\ checked = "sound"
    /\ \A u \in Units : Brings[installed][u] \in {None, units[u]}
    /\ previous = worn.tree
    /\ previous # None => backup = worn.units
=============================================================================
