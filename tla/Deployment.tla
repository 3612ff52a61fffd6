----------------------------- MODULE Deployment -----------------------------
(***************************************************************************)
(* deploy-pi.sh: the deployment of one exact commit.  The script runs at   *)
(* the maintainer's and opens one ssh session after another on the         *)
(* appliance; a session runs a script of its own, under `set -e', and its  *)
(* status is all that comes back.  When a connection is lost the local     *)
(* script goes on as if the session had failed, while the commands on the  *)
(* appliance, which have had their whole script, may go on as well: beside *)
(* those of the rollback.                                                  *)
(*                                                                         *)
(* Trees and unit copies of a deployment carry its time in their names, so *)
(* that those of two deployments never meet.  The next one begins when no  *)
(* session is left, as docs/update-rollback.md asks of who reconnects.     *)
(***************************************************************************)
EXTENDS Naturals, Sequences

CONSTANTS
  Commits,      \* commits that are deployed
  Order,        \* the unit files a tree brings, in the order of the loops
  None,         \* no tree, no file, no commit on record
  Unsaved,      \* no copy of a unit
  Adapter,      \* Adapter[c]: the hash of the adapter built from commit c
  MaxDeploys,   \* bound: deployments
  MaxFaults     \* bound: commands that fail, connections lost, processes killed

Units == {Order[i] : i \in DOMAIN Order}
Deploys == 1..MaxDeploys
\* A tree: the commit it was unpacked from, the deployment that brought it (0:
\* it was there), and what .deployed-git-sha and .deployment.json say.
Tree ==
  [commit : Commits, by : 0..MaxDeploys, sha : Commits \cup {None}, proof : Commits \cup {None}]

DeploymentAssumption ==
  /\ None \notin Commits /\ Unsaved \notin Commits \cup {None}
  /\ None \notin Tree
  /\ Order \in Seq(Units) /\ Order # <<>>
  /\ MaxDeploys \in Nat /\ MaxFaults \in Nat

VARIABLES
  current,    \* the tree at REMOTE_TARGET_DIR
  candidate, previous, failed,  \* each deployment's other trees
  units,      \* units[u]: the commit whose unit file is in place
  backup,     \* backup[d][u]: its copy in REMOTE_UNIT_BACKUP
  local,      \* deploy-pi.sh: the session it waits for, and its variables
  session,    \* session[s]: where the commands of a session are
  faults,
  accepted,   \* history: deployments whose tree has passed the acceptance
  before,     \* history: tree and units when the deployment began
  cutOff,     \* history: this deployment lost a connection
  late,       \* history: a lost session wrote a unit of a tree that may be gone
  strayed     \* history: a session nobody waited for recorded a deployment

treeVars == <<current, candidate, previous, failed>>
unitVars == <<units, backup>>
historyVars == <<accepted, before, cutOff, late, strayed>>
vars == <<treeVars, unitVars, local, session, faults, historyVars>>

-----------------------------------------------------------------------------
\* The sessions of a deployment that succeeds, in their order.
Forward == <<"prepare", "activate", "install", "accept", "record", "verify", "tidy">>
Scripts == {Forward[i] : i \in 1..7} \cup {"rollback", "discard"}
Places ==
  {"off", "go", "save", "move", "place", "units", "start", "sha", "branch",
   "back", "restore", "examine", "clean"}
Reports == {"none", "already", "verified", "failed", "rollback failed", "killed"}

At(place) == [at |-> place, turn |-> 1]
Off == At("off")

\* The script between deployments, d of which there have been.
NoReport(d) ==
  [at |-> "idle", d |-> d, commit |-> None, old |-> None, activated |-> FALSE,
   undone |-> FALSE, report |-> "none"]

NoDeploymentYet ==
  /\ candidate = [d \in Deploys |-> None]
  /\ previous = [d \in Deploys |-> None]
  /\ failed = [d \in Deploys |-> None]
  /\ backup = [d \in Deploys |-> [u \in Units |-> Unsaved]]
  /\ local = NoReport(0)
  /\ session = [s \in Scripts |-> Off]
  /\ faults = 0
  /\ accepted = {0}
  /\ before = [tree |-> current, units |-> units]
  /\ cutOff = FALSE /\ late = FALSE /\ strayed = FALSE

\* The appliance has a tree with its units, of which there may be a record.
Found(there) ==
  \E c \in Commits : \E recorded \in {c, None} :
    /\ current = [commit |-> c, by |-> 0, sha |-> recorded, proof |-> recorded]
    /\ units = [u \in there |-> c]

Init == Found(Units) /\ NoDeploymentYet

dep == local.d

-----------------------------------------------------------------------------
(* The local script.                                                       *)

Quiet == local.at = "idle" /\ \A s \in Scripts : session[s].at = "off"

Start(c) ==
  /\ Quiet
  /\ dep < MaxDeploys
  /\ local' = [at |-> "prepare", d |-> dep + 1, commit |-> c,
               old |-> IF current = None THEN None ELSE current.sha,
               activated |-> FALSE, undone |-> FALSE, report |-> "none"]
  /\ session' = [session EXCEPT !["prepare"] = At("go")]
  /\ before' = [tree |-> current, units |-> units]
  /\ cutOff' = FALSE /\ late' = FALSE
  /\ UNCHANGED <<treeVars, unitVars, faults, accepted, strayed>>

\* .deployed-git-sha and a verified .deployment.json name the commit; and the
\* services answer.
AlreadyDeployed(c) ==
  /\ Quiet
  /\ current # None
  /\ current.sha = c /\ current.proof = c
  /\ local' = [local EXCEPT !.commit = c, !.report = "already"]
  /\ UNCHANGED <<treeVars, unitVars, session, faults, historyVars>>

\* Mutant: recorded as soon as the services have answered.
RecordFirst ==
  [s \in Scripts |->
     IF s = "install" THEN "record" ELSE IF s = "record" THEN "accept"
     ELSE IF s = "accept" THEN "verify"
     ELSE IF s = "rollback" THEN "discard" ELSE IF s \in {"tidy", "discard"} THEN "idle"
     ELSE Forward[(CHOOSE i \in 1..6 : Forward[i] = s) + 1]]

\* What is done when a session has ended well, and when it has not.
AfterSuccess ==
  [s \in Scripts |->
     IF s = "rollback" THEN "discard" ELSE IF s \in {"tidy", "discard"} THEN "idle"
     ELSE Forward[(CHOOSE i \in 1..6 : Forward[i] = s) + 1]]

AfterFailure(s) ==
  IF s = "discard" THEN "idle"
  ELSE IF local.activated /\ s # "rollback" THEN "rollback" ELSE "discard"

\* One session is left as it is to be, and the next one opened.
Switch(s, left, next) ==
  session' = [t \in Scripts |->
                IF t = next THEN At("go") ELSE IF t = s THEN left ELSE session[t]]

\* Mutant: activated once the units are installed.
SucceedsLate(s) ==
  /\ local.at = s
  /\ local' = [local EXCEPT !.at = AfterSuccess[s],
                            !.activated = (@ \/ s = "install") /\ s \notin {"tidy", "rollback"},
                            !.undone = @ \/ s = "rollback",
                            !.report = IF s = "tidy" THEN "verified" ELSE @]
  /\ Switch(s, Off, AfterSuccess[s])

Succeeds(s) ==
  /\ local.at = s
  /\ local' = [local EXCEPT !.at = AfterSuccess[s],
                            !.activated = (@ \/ s = "activate") /\ s \notin {"tidy", "rollback"},
                            !.undone = @ \/ s = "rollback",
                            !.report = IF s = "tidy" THEN "verified" ELSE @]
  /\ Switch(s, Off, AfterSuccess[s])

Errs(s, left) ==
  /\ local.at = s
  /\ local' = [local EXCEPT !.at = AfterFailure(s),
                            !.report = IF s = "discard" THEN @
                                       ELSE IF s = "rollback" THEN "rollback failed" ELSE "failed"]
  /\ Switch(s, left, AfterFailure(s))

\* Nobody waits for the session any more.
EndsUnheard(s) ==
  /\ local.at # s
  /\ session' = [session EXCEPT ![s] = Off]
  /\ UNCHANGED local

Fault ==
  /\ faults < MaxFaults
  /\ faults' = faults + 1

Lose ==
  /\ Fault
  /\ cutOff' = TRUE
  /\ UNCHANGED <<treeVars, unitVars, accepted, before, late, strayed>>

\* ssh fails, and what runs on the appliance goes on.
Disconnect(s) ==
  /\ Errs(s, session[s])
  /\ Lose

\* The commands are killed, or the appliance restarts.
Die(s) ==
  /\ session[s].at # "off"
  /\ Errs(s, Off) \/ EndsUnheard(s)
  /\ Lose

KillLocal ==
  /\ local.at # "idle"
  /\ local' = [local EXCEPT !.at = "idle", !.report = "killed"]
  /\ UNCHANGED session
  /\ Lose

-----------------------------------------------------------------------------
(* The steps of a session.                                                 *)

Is(s, place) == session[s].at = place
Ends(s) == Succeeds(s) \/ EndsUnheard(s)
Breaks(s) == Errs(s, Off) \/ EndsUnheard(s)
Goto(s, place) ==
  /\ session' = [session EXCEPT ![s] = At(place)]
  /\ UNCHANGED local

\* A loop over the units is at u; after the last one the session goes on to next.
Loop(s, place, u, next) ==
  /\ Is(s, place)
  /\ u = Order[session[s].turn]
  /\ IF session[s].turn = Len(Order) THEN Goto(s, next)
     ELSE /\ session' = [session EXCEPT ![s].turn = @ + 1]
          /\ UNCHANGED local

\* Where a command may fail for reasons of its own.
MayFail ==
  {<<"prepare", "go">>, <<"activate", "save">>, <<"install", "units">>, <<"install", "start">>,
   <<"accept", "go">>, <<"record", "go">>, <<"record", "branch">>, <<"verify", "go">>,
   <<"tidy", "go">>, <<"rollback", "restore">>, <<"rollback", "start">>,
   <<"rollback", "examine">>, <<"discard", "go">>}

StepFails(s) ==
  /\ <<s, session[s].at>> \in MayFail
  /\ Breaks(s)
  /\ Fault
  /\ UNCHANGED <<treeVars, unitVars, historyVars>>

\* [1/10] to [4/10]: unpacked and checked beside the current tree.
Prepare ==
  /\ Is("prepare", "go")
  /\ candidate' = [candidate EXCEPT ![dep] =
                     [commit |-> local.commit, by |-> dep, sha |-> None, proof |-> None]]
  /\ Ends("prepare")
  /\ UNCHANGED <<current, previous, failed, unitVars, faults, historyVars>>

\* [5/10].
CheckTrees ==
  /\ Is("activate", "go")
  /\ IF current # None /\ candidate[dep] # None THEN Goto("activate", "save")
     ELSE Breaks("activate")
  /\ UNCHANGED <<treeVars, unitVars, faults, historyVars>>

\* Mutant: the copies are of what the tree brings, not of what systemd has.
SaveFromTree(u) ==
  /\ Loop("activate", "save", u, "move")
  /\ units[u] # None
  /\ backup' = [backup EXCEPT ![dep][u] = current.commit]
  /\ UNCHANGED <<treeVars, units, faults, historyVars>>

SaveUnit(u) ==
  /\ Loop("activate", "save", u, "move")
  /\ units[u] # None
  /\ backup' = [backup EXCEPT ![dep][u] = units[u]]
  /\ UNCHANGED <<treeVars, units, faults, historyVars>>

\* A unit that is not there cannot be copied.
NoUnitToSave ==
  /\ Is("activate", "save")
  /\ units[Order[session["activate"].turn]] = None
  /\ Breaks("activate")
  /\ UNCHANGED <<treeVars, unitVars, faults, historyVars>>

MoveCurrent ==
  /\ Is("activate", "move")
  /\ previous' = [previous EXCEPT ![dep] = current]
  /\ current' = None
  /\ Goto("activate", "place")
  /\ UNCHANGED <<candidate, failed, unitVars, faults, historyVars>>

PlaceCandidate ==
  /\ Is("activate", "place")
  /\ candidate[dep] # None
  /\ current' = candidate[dep]
  /\ candidate' = [candidate EXCEPT ![dep] = None]
  /\ Ends("activate")
  /\ UNCHANGED <<previous, failed, unitVars, faults, historyVars>>

\* restore_on_error: the candidate has been discarded meanwhile.
RestoreOnError ==
  /\ Is("activate", "place")
  /\ candidate[dep] = None
  /\ current' = previous[dep]
  /\ previous' = [previous EXCEPT ![dep] = None]
  /\ Breaks("activate")
  /\ UNCHANGED <<candidate, failed, unitVars, faults, historyVars>>

\* [6/10].
OpenInstall ==
  /\ Is("install", "go")
  /\ Goto("install", "units")
  /\ UNCHANGED <<treeVars, unitVars, faults, historyVars>>

InstallUnit(u) ==
  /\ Loop("install", "units", u, "start")
  /\ current # None
  /\ units' = [units EXCEPT ![u] = current.commit]
  /\ UNCHANGED <<treeVars, backup, faults, historyVars>>

\* The session is lost, and has opened the candidate's file before the rollback
\* moved the tree away; it writes what it has read, whatever tree is there by now.
InstallLate(u) ==
  /\ local.at # "install" /\ ~late
  /\ Loop("install", "units", u, "start")
  /\ units' = [units EXCEPT ![u] = local.commit]
  /\ late' = TRUE
  /\ UNCHANGED <<treeVars, backup, faults, accepted, before, cutOff, strayed>>

NoUnitToInstall ==
  /\ Is("install", "units")
  /\ current = None
  /\ Breaks("install")
  /\ UNCHANGED <<treeVars, unitVars, faults, historyVars>>

Restart ==
  /\ Is("install", "start")
  /\ Ends("install")
  /\ UNCHANGED <<treeVars, unitVars, faults, historyVars>>

\* The tree in place has the adapter of the commit.
HasAdapter == current # None /\ Adapter[current.commit] = Adapter[local.commit]

\* [7/10].
Accept ==
  /\ Is("accept", "go")
  /\ IF HasAdapter THEN accepted' = accepted \cup {current.by} /\ Ends("accept")
     ELSE Breaks("accept") /\ UNCHANGED accepted
  /\ UNCHANGED <<treeVars, unitVars, faults, before, cutOff, late, strayed>>

\* A command of [8/10] writes into the tree in place, if there is one.
Writes(written) ==
  /\ current' = IF current = None THEN None ELSE written
  /\ strayed' = (strayed \/ local.at # "record")
  /\ UNCHANGED <<candidate, previous, failed, unitVars, faults, accepted, before, cutOff, late>>

\* Mutant: verified, without the commit.
RecordFlag ==
  /\ Is("record", "go")
  /\ Writes([current EXCEPT !.proof = TRUE])
  /\ Goto("record", "sha")

\* [8/10]: commands separated by `;', whose last one gives the status.
RecordProof ==
  /\ Is("record", "go")
  /\ Writes([current EXCEPT !.proof = local.commit])
  /\ Goto("record", "sha")

RecordSha ==
  /\ Is("record", "sha")
  /\ Writes([current EXCEPT !.sha = local.commit])
  /\ Goto("record", "branch")

\* One of the first two fails, and the next one is run.
PassOverRecord ==
  /\ \/ Is("record", "go") /\ Goto("record", "sha")
     \/ Is("record", "sha") /\ Goto("record", "branch")
  /\ Fault
  /\ UNCHANGED <<treeVars, unitVars, historyVars>>

\* The branch is written for the reader; with no tree there is nowhere to.
RecordBranch ==
  /\ Is("record", "branch")
  /\ IF current # None THEN Ends("record") ELSE Breaks("record")
  /\ UNCHANGED <<treeVars, unitVars, faults, historyVars>>

\* [9/10].
Verify ==
  /\ Is("verify", "go")
  /\ IF HasAdapter /\ current.sha = local.commit /\ current.proof = local.commit
     THEN Ends("verify") ELSE Breaks("verify")
  /\ UNCHANGED <<treeVars, unitVars, faults, historyVars>>

\* Mutant: the transfer goes, and the copies of the units with it.
TidyAll ==
  /\ Is("tidy", "go")
  /\ backup' = [backup EXCEPT ![dep] = [u \in Units |-> Unsaved]]
  /\ Ends("tidy")
  /\ UNCHANGED <<treeVars, units, faults, historyVars>>

\* [10/10].
Tidy ==
  /\ Is("tidy", "go")
  /\ Ends("tidy")
  /\ UNCHANGED <<treeVars, unitVars, faults, historyVars>>

\* cleanup_remote_transfer.
Discard ==
  /\ Is("discard", "go")
  /\ candidate' = IF local.activated THEN candidate ELSE [candidate EXCEPT ![dep] = None]
  /\ Ends("discard")
  /\ UNCHANGED <<current, previous, failed, unitVars, faults, historyVars>>

-----------------------------------------------------------------------------
(* rollback, with the services stopped.                                    *)

MoveAway ==
  /\ Is("rollback", "go")
  /\ failed' = [failed EXCEPT ![dep] = current]
  /\ current' = None
  /\ Goto("rollback", "back")
  /\ UNCHANGED <<candidate, previous, unitVars, faults, historyVars>>

MoveBack ==
  /\ Is("rollback", "back")
  /\ IF previous[dep] # None THEN Goto("rollback", "restore") ELSE Breaks("rollback")
  /\ current' = previous[dep]
  /\ previous' = [previous EXCEPT ![dep] = None]
  /\ UNCHANGED <<candidate, failed, unitVars, faults, historyVars>>

\* Mutant: a copy is moved back, not copied.
MoveUnitBack(u) ==
  /\ Loop("rollback", "restore", u, "start")
  /\ backup[dep][u] # Unsaved
  /\ units' = [units EXCEPT ![u] = backup[dep][u]]
  /\ backup' = [backup EXCEPT ![dep][u] = Unsaved]
  /\ UNCHANGED <<treeVars, faults, historyVars>>

RestoreUnit(u) ==
  /\ Loop("rollback", "restore", u, "start")
  /\ backup[dep][u] # Unsaved
  /\ units' = [units EXCEPT ![u] = backup[dep][u]]
  /\ UNCHANGED <<treeVars, backup, faults, historyVars>>

\* The services are started again, and the tree is the one that was there.
RestartPrevious ==
  /\ Is("rollback", "start")
  /\ IF local.old # None /\ current.sha # local.old THEN Breaks("rollback")
     ELSE Goto("rollback", "examine")
  /\ UNCHANGED <<treeVars, unitVars, faults, historyVars>>

Doctor ==
  /\ Is("rollback", "examine")
  /\ Goto("rollback", "clean")
  /\ UNCHANGED <<treeVars, unitVars, faults, historyVars>>

CleanUp ==
  /\ Is("rollback", "clean")
  /\ failed' = [failed EXCEPT ![dep] = None]
  /\ backup' = [backup EXCEPT ![dep] = [u \in Units |-> Unsaved]]
  /\ Ends("rollback")
  /\ UNCHANGED <<current, candidate, previous, units, faults, historyVars>>

-----------------------------------------------------------------------------
DeployStep ==
  \/ Prepare \/ CheckTrees \/ MoveCurrent \/ PlaceCandidate \/ RestoreOnError
  \/ NoUnitToSave \/ OpenInstall \/ NoUnitToInstall \/ Restart \/ Accept
  \/ RecordProof \/ RecordSha \/ PassOverRecord \/ RecordBranch
  \/ Verify \/ Tidy \/ Discard
  \/ \E u \in Units : SaveUnit(u) \/ InstallUnit(u) \/ InstallLate(u)

RollbackStep ==
  \/ MoveAway \/ MoveBack \/ RestartPrevious \/ Doctor \/ CleanUp
  \/ \E u \in Units : RestoreUnit(u)

Next ==
  \/ \E c \in Commits : Start(c) \/ AlreadyDeployed(c)
  \/ DeployStep \/ RollbackStep
  \/ \E s \in Scripts : StepFails(s) \/ Disconnect(s) \/ Die(s)
  \/ KillLocal

Spec == Init /\ [][Next]_vars

-----------------------------------------------------------------------------
TreeOrNone == Tree \cup {None}

\* Every variable has its type.
TypeOK ==
  /\ current \in TreeOrNone
  /\ candidate \in [Deploys -> TreeOrNone]
  /\ previous \in [Deploys -> TreeOrNone]
  /\ failed \in [Deploys -> TreeOrNone]
  /\ \A u \in Units : units[u] \in Commits \cup {None}
  /\ backup \in [Deploys -> [Units -> Commits \cup {Unsaved}]]
  /\ local \in [at : {"idle"} \cup Scripts, d : 0..MaxDeploys, commit : Commits \cup {None},
                old : Commits \cup {None}, activated : BOOLEAN, undone : BOOLEAN,
                report : Reports]
  /\ session \in [Scripts -> [at : Places, turn : 1..Len(Order)]]
  /\ faults \in 0..MaxFaults
  /\ accepted \subseteq 0..MaxDeploys
  /\ before.tree \in TreeOrNone
  /\ cutOff \in BOOLEAN /\ late \in BOOLEAN /\ strayed \in BOOLEAN

\* The tree itself, apart from what is recorded in it.
IsTree(t, other) ==
  \/ t = None /\ other = None
  \/ t # None /\ other # None /\ t.commit = other.commit /\ t.by = other.by

Reported(report) == Quiet /\ local.report = report
\* The deployment found a tree with its own units.
FoundPaired == before.tree # None /\ \A u \in Units : before.units[u] = before.tree.commit
Saved == \A u \in Units : backup[dep][u] = before.units[u]
AsBefore == IsTree(current, before.tree) /\ units = before.units

OnDisk == {current} \cup UNION {{candidate[d], previous[d], failed[d]} : d \in Deploys}

\* What the documentation says of the record of a tree, wherever the tree is: it
\* names the commit the tree was unpacked from, and only a tree that has passed
\* the acceptance has one.
RecordedAfterAcceptance ==
  \A t \in OnDisk \ {None} :
    /\ t.proof # None => t.proof = t.commit /\ t.by \in accepted
    /\ t.sha # None => t.sha = t.commit

\* It is so, and the tree for which "already deployed" is said is that of the
\* commit, unless a session recorded a deployment when nobody waited for it any
\* more.  Of its units that says nothing.
ProvenanceIsTrue == ~strayed => RecordedAfterAcceptance

\* The commands of a lost session may go on beside the rollback, and install the
\* units of the tree they find: which are the same if the deployment found tree and
\* units that belong together.
Undisturbed == ~cutOff \/ (FoundPaired /\ ~late)

\* ROLLBACK_VERIFIED: the tree and the units are those the deployment found, unless
\* a unit of the candidate, read before the rollback, was written beside it.
RollbackRestores == local.undone /\ Undisturbed => AsBefore

\* A deployment that failed leaves the appliance as it found it, if no connection was
\* lost.  Whatever was lost, and wherever the script was killed, also when the trees
\* were moved and it never heard of it: the tree there was is current, or where the
\* message says.  With ROLLBACK_FAILED, "manual recovery required", so are the units,
\* or the copies of them.
FailureKeepsWhatWas ==
  /\ Reported("failed") /\ ~cutOff => AsBefore
  /\ before.tree # None /\ (\E how \in {"failed", "rollback failed", "killed"} : Reported(how)) =>
       IsTree(current, before.tree) \/ IsTree(previous[dep], before.tree)
  /\ Reported("rollback failed") /\ Undisturbed => units = before.units \/ Saved

\* DEPLOYMENT_VERIFIED: the tree and the units are those of the commit, with its
\* record, and what was there before is whole and kept to be rolled back to.
VerifiedLeavesWayBack ==
  Reported("verified") =>
    /\ current = [commit |-> local.commit, by |-> dep, sha |-> local.commit,
                  proof |-> local.commit]
    /\ \A u \in Units : units[u] = local.commit
    /\ IsTree(previous[dep], before.tree) /\ Saved
=============================================================================
