-------------------------- MODULE ReleaseLifecycle --------------------------
(***************************************************************************)
(* lifecycle.py and what calls it: update_release copies a candidate into  *)
(* releases/<version>, points `previous' at the release `current' points   *)
(* at and `current' at the new one, and puts `current' back if Doctor      *)
(* finds the gateway unhealthy; the console's rollback points `current' at *)
(* what `previous' points at; the Registry is backed up (by an update, the *)
(* console, the bridge and the daily maintenance), old backups are removed *)
(* by the maintenance, and one of them is restored.  No lock keeps these   *)
(* processes apart and each may be killed between any two of its steps.    *)
(*                                                                         *)
(* The temporary links are private to one procedure, which removes what a  *)
(* killed one has left before it makes its own: symlink and os.replace     *)
(* together are one step, the replacement.                                 *)
(***************************************************************************)
EXTENDS Naturals, FiniteSets

CONSTANTS
  Versions,     \* versions of releases
  Requesters,   \* processes that back the Registry up when asked to
  Console,      \* the one that also rolls releases back
  None,         \* no link, no file
  Standalone,   \* a directory that is itself at the path `current'
  Whole,        \* what a database file with its schema and rows contains
  Empty,        \* what one without a schema contains
  Missing,      \* what the Registry is when its file does not exist
  KeepBackups,  \* how many backups the maintenance leaves (5)
  MaxClock,     \* bound: seconds that pass
  MaxUpdates,   \* bound: updates begun
  MaxKills      \* bound: processes killed

Seconds == 0..MaxClock
Contents == {Whole, Empty}
Links == Versions \cup {None, Standalone}
Updater == "update"
Keeper == "maintenance"
Savers == Requesters \cup {Updater, Keeper}

ASSUME ReleaseAssumption ==
  /\ None \notin Versions /\ Standalone \notin Versions /\ None # Standalone
  /\ Console \in Requesters /\ Updater \notin Requesters /\ Keeper \notin Requesters
  /\ KeepBackups \in Nat \ {0}
  /\ MaxClock \in Nat /\ MaxUpdates \in Nat /\ MaxKills \in Nat
  /\ None \notin Nat
  /\ Whole # Empty /\ Missing \notin {Whole, Empty} /\ None \notin {Whole, Empty}

VARIABLES
  releases,  \* releases[v]: how much of releases/<v> there is
  current,   \* where `current' points
  previous,  \* where `previous' points; Standalone: at the directory `current'
  updater,   \* update_release
  roller,    \* rollback_release
  database,  \* the Registry's content
  backups,   \* backups[s]: content of gateway_backup_<s>.db, None if absent
  written,   \* written[s]: its mtime, 0 if absent
  saving,    \* saving[p]: the file p's backup_database writes
  keeper,    \* gateway_maintenance, with the files it is about to remove
  restorer,  \* restore_database, the file it restores from, and whether that
             \* has been removed since it was checked
  clock, updates, kills,
  exposed,   \* history: versions copied again while a link led to them
  wiped      \* history: the Registry was purged, or restored from nothing

linkVars == <<releases, current, previous, exposed>>
dataVars == <<database, backups, written, saving, wiped>>
boundVars == <<clock, updates, kills>>
vars == <<linkVars, dataVars, boundVars, updater, roller, keeper, restorer>>

-----------------------------------------------------------------------------
(* Candidates and Doctor.                                                  *)

Candidate ==
  [version : Versions,
   manifest : {"missing", "unreadable", "incompatible", "compatible"},
   sums : {"absent", "match", "mismatch"}]

\* Its contracts and its architecture are those of this gateway.
ManifestAccepted(c) == c.manifest = "compatible"
\* SHA256SUMS need not be there.
SumsAccepted(c) == c.sums # "mismatch"

\* What update_release asks of a candidate before it changes anything, and
\* what `mcp-gateway update --check' reports.
Verified(c) == ManifestAccepted(c) /\ SumsAccepted(c)

\* The severities at which each group of checks can report a failure: a service
\* that does not answer is a warning, like permissions of a directory.
RuntimeFailures == {"error"}
RegistryFailures == {"error"}
PermissionFailures == {"error", "warning"}
CoreFailures == {"error"}
EndpointFailures == {"error", "warning"}
ClientFailures == {"error", "warning"}

CheckSeverities ==
  [runtime_and_contracts |-> RuntimeFailures,
   registry_integrity |-> RegistryFailures,
   security_permissions |-> PermissionFailures,
   core_and_tools |-> CoreFailures,
   ai_clients_and_grants |-> ClientFailures,
   mcp_endpoints |-> EndpointFailures]

Reports ==
  {r \in [DOMAIN CheckSeverities -> SUBSET {"error", "warning"}] :
     \A group \in DOMAIN r : r[group] \subseteq CheckSeverities[group]}

Overall(r) ==
  IF \E group \in DOMAIN r : "error" \in r[group] THEN "UNHEALTHY"
  ELSE IF \E group \in DOMAIN r : r[group] # {} THEN "DEGRADED"
  ELSE "HEALTHY"

AnyVerdict == {Overall(r) : r \in Reports}
\* user_version is 0 in a file without a schema.
NoSchemaVerdict == {Overall(r) : r \in {q \in Reports : "error" \in q.registry_integrity}}

DoctorVerdicts == IF database = Empty THEN NoSchemaVerdict ELSE AnyVerdict

-----------------------------------------------------------------------------
UpdaterPlaces ==
  {"idle", "save", "saving", "copy", "copying", "read", "previous", "current",
   "doctor", "revert"}
Outcomes == {"none", "refused", "updated", "failed", "raised", "killed"}

UpdaterState ==
  {u \in [at : UpdaterPlaces, version : Versions \cup {None}, old : Links, since : Seconds,
          outcome : Outcomes, crossed : BOOLEAN] : u.at # "idle" => u.version \in Versions}
RollerState == [at : {"idle", "swap"}, target : Links]
KeeperState == [at : {"idle", "saving", "list", "remove"}, doomed : SUBSET Seconds]
RestorerState ==
  {r \in [at : {"idle", "copy"}, file : Seconds \cup {None}, lost : BOOLEAN] :
     r.at = "copy" => r.file \in Seconds}

NoUpdate == [at |-> "idle", version |-> None, old |-> None, since |-> 0,
             outcome |-> "none", crossed |-> FALSE]
NoRollback == [at |-> "idle", target |-> None]
NoRestore == [at |-> "idle", file |-> None, lost |-> FALSE]

Init ==
  /\ current \in Links
  /\ previous = None
  /\ releases = [v \in Versions |-> IF v = current THEN "whole" ELSE "absent"]
  /\ updater = NoUpdate
  /\ roller = NoRollback
  /\ database = Whole
  /\ backups = [s \in Seconds |-> None]
  /\ written = [s \in Seconds |-> 0]
  /\ saving = [p \in Savers |-> None]
  /\ keeper = [at |-> "idle", doomed |-> {}]
  /\ restorer = NoRestore
  /\ clock = 0 /\ updates = 0 /\ kills = 0
  /\ exposed = {}
  /\ wiped = FALSE

Tick ==
  /\ clock < MaxClock
  /\ clock' = clock + 1
  /\ UNCHANGED <<linkVars, dataVars, updates, kills, updater, roller, keeper, restorer>>

\* A process that opens the Registry and finds no database, or none with a
\* schema, makes one.
CreateSchema ==
  /\ database \in {Empty, Missing}
  /\ database' = Whole
  /\ UNCHANGED <<linkVars, backups, written, saving, wiped, boundVars,
                 updater, roller, keeper, restorer>>

-----------------------------------------------------------------------------
(* backup_database: the file is named by the second.  It is there, without *)
(* a schema, before the copy commits.                                      *)

OpenBackup(p) ==
  /\ database # Missing
  /\ saving' = [saving EXCEPT ![p] = clock]
  /\ backups' = [backups EXCEPT ![clock] = IF @ = None THEN Empty ELSE @]
  /\ written' = [written EXCEPT ![clock] = clock]
  /\ UNCHANGED <<database, wiped>>

\* A file removed meanwhile stays removed; a database removed meanwhile is made
\* again, empty, by the connection to it.
CloseBackup(p) ==
  LET file == saving[p]
  IN /\ file # None
     /\ backups' = [backups EXCEPT ![file] =
                      IF @ = None THEN None ELSE IF database = Missing THEN Empty ELSE database]
     /\ written' = [written EXCEPT ![file] = IF backups[file] = None THEN 0 ELSE clock]
     /\ saving' = [saving EXCEPT ![p] = None]
     /\ UNCHANGED <<database, wiped>>

\* The console answers one request at a time.
Serving(p) == p = Console => roller.at = "idle"

BeginBackup(p) ==
  /\ saving[p] = None
  /\ Serving(p)
  /\ OpenBackup(p)
  /\ UNCHANGED <<linkVars, boundVars, updater, roller, keeper, restorer>>

FinishBackup(p) ==
  /\ CloseBackup(p)
  /\ UNCHANGED <<linkVars, boundVars, updater, roller, keeper, restorer>>

-----------------------------------------------------------------------------
(* gateway_maintenance: a backup, then all but the newest are removed.     *)

KeeperGoto(place, files) == keeper' = [at |-> place, doomed |-> files]

BeginMaintenance ==
  /\ keeper.at = "idle"
  /\ OpenBackup(Keeper)
  /\ KeeperGoto("saving", {})
  /\ UNCHANGED <<linkVars, boundVars, updater, roller, restorer>>

SaveInMaintenance ==
  /\ keeper.at = "saving"
  /\ CloseBackup(Keeper)
  /\ KeeperGoto("list", {})
  /\ UNCHANGED <<linkVars, boundVars, updater, roller, restorer>>

Files == {s \in Seconds : backups[s] # None}

\* Mutant: sorted the other way round.
SurplusOfNewest(old) ==
  /\ old \subseteq Files
  /\ Cardinality(old) = IF Cardinality(Files) > KeepBackups
                        THEN Cardinality(Files) - KeepBackups ELSE 0
  /\ \A s \in old, t \in Files \ old : written[s] >= written[t]

\* The files that are removed: the oldest, however many there are over the limit.
Surplus(old) ==
  /\ old \subseteq Files
  /\ Cardinality(old) = IF Cardinality(Files) > KeepBackups
                        THEN Cardinality(Files) - KeepBackups ELSE 0
  /\ \A s \in old, t \in Files \ old : written[s] <= written[t]

ListBackups ==
  /\ keeper.at = "list"
  /\ \E old \in SUBSET Seconds :
       /\ Surplus(old)
       /\ KeeperGoto(IF old = {} THEN "idle" ELSE "remove", old)
  /\ UNCHANGED <<linkVars, dataVars, boundVars, updater, roller, restorer>>

RemoveBackup ==
  /\ keeper.at = "remove"
  /\ \E s \in keeper.doomed :
       /\ backups' = [backups EXCEPT ![s] = None]
       /\ written' = [written EXCEPT ![s] = 0]
       /\ KeeperGoto(IF keeper.doomed = {s} THEN "idle" ELSE "remove", keeper.doomed \ {s})
       /\ restorer' = [restorer EXCEPT !.lost = @ \/ restorer.file = s]
  /\ UNCHANGED <<linkVars, database, saving, wiped, boundVars, updater, roller>>

-----------------------------------------------------------------------------
(* restore_database: the backup is checked through one connection and read *)
(* through another, which makes an empty file if there is none any more.   *)

\* Mutant: integrity_check alone, which an empty database passes.
RestorableIfIntact(file) == backups[file] # None

Restorable(file) == backups[file] \notin {None, Empty}

CheckBackup(file) ==
  /\ restorer.at = "idle"
  /\ Restorable(file)
  /\ restorer' = [at |-> "copy", file |-> file, lost |-> FALSE]
  /\ UNCHANGED <<linkVars, dataVars, boundVars, updater, roller, keeper>>

RestoreBackup ==
  LET file == restorer.file
      there == backups[file] # None
  IN /\ restorer.at = "copy"
     /\ database' = IF there THEN backups[file] ELSE Empty
     /\ backups' = IF there THEN backups ELSE [backups EXCEPT ![file] = Empty]
     /\ written' = IF there THEN written ELSE [written EXCEPT ![file] = clock]
     /\ wiped' = (wiped \/ database' = Empty)
     /\ restorer' = NoRestore
     /\ UNCHANGED <<linkVars, saving, boundVars, updater, roller, keeper>>

\* uninstall removes the data only if it is asked to.
Uninstall(purge) ==
  /\ IF purge
     THEN /\ database' = Missing
          /\ backups' = [s \in Seconds |-> None]
          /\ written' = [s \in Seconds |-> 0]
          /\ wiped' = TRUE
          /\ restorer' = [restorer EXCEPT !.lost = restorer.at = "copy"]
     ELSE UNCHANGED <<database, backups, written, wiped, restorer>>
  /\ UNCHANGED <<linkVars, saving, boundVars, updater, roller, keeper>>

-----------------------------------------------------------------------------
(* update_release.                                                         *)

IsDirectory(link) == link = Standalone \/ (link \in Versions /\ releases[link] # "absent")

UpdaterGoto(place) == updater' = [updater EXCEPT !.at = place]
UpdateReturns(outcome) ==
  updater' = [updater EXCEPT !.at = "idle", !.since = 0, !.outcome = outcome]

BeginUpdate(c) ==
  /\ updater.at = "idle"
  /\ updates < MaxUpdates
  /\ updates' = updates + 1
  /\ updater' = IF Verified(c)
                THEN [NoUpdate EXCEPT !.at = "save", !.version = c.version, !.since = clock]
                ELSE [NoUpdate EXCEPT !.outcome = "refused"]
  /\ UNCHANGED <<linkVars, dataVars, clock, kills, roller, keeper, restorer>>

OpenUpdateBackup ==
  /\ updater.at = "save"
  /\ OpenBackup(Updater)
  /\ UpdaterGoto("saving")
  /\ UNCHANGED <<linkVars, boundVars, roller, keeper, restorer>>

NoDatabaseToSave ==
  /\ updater.at = "save"
  /\ database = Missing
  /\ UpdateReturns("refused")
  /\ UNCHANGED <<linkVars, dataVars, boundVars, roller, keeper, restorer>>

CloseUpdateBackup ==
  /\ updater.at = "saving"
  /\ CloseBackup(Updater)
  /\ UpdaterGoto("copy")
  /\ UNCHANGED <<linkVars, boundVars, roller, keeper, restorer>>

\* Where a link leads, or a rollback that has read one is about to make it lead.
Led == {current, previous, roller.target}

\* rmtree of what is there, which ignores its errors, then the first files of
\* copytree.
StartCopy ==
  /\ updater.at = "copy"
  /\ \E rest \in {"absent", "partial", releases[updater.version]} :
       releases' = [releases EXCEPT ![updater.version] = rest]
  /\ exposed' = exposed \cup ({updater.version} \cap Led)
  /\ UpdaterGoto("copying")
  /\ UNCHANGED <<current, previous, dataVars, boundVars, roller, keeper, restorer>>

\* An exception of copytree, which takes no directory that is there, leaves what
\* there is.
CopyFails ==
  /\ updater.at = "copying"
  /\ UpdateReturns("raised")
  /\ UNCHANGED <<linkVars, dataVars, boundVars, roller, keeper, restorer>>

FinishCopy ==
  /\ updater.at = "copying"
  /\ releases' = [releases EXCEPT ![updater.version] = "whole"]
  /\ exposed' = exposed \ {updater.version}
  /\ UpdaterGoto("read")
  /\ UNCHANGED <<current, previous, dataVars, boundVars, roller, keeper, restorer>>

\* Mutant: the links are turned before the copy is complete.
ReadActiveEarly ==
  /\ updater.at \in {"copying", "read"}
  /\ updater' = [updater EXCEPT !.at = "previous", !.old = current, !.crossed = FALSE]
  /\ UNCHANGED <<linkVars, dataVars, boundVars, roller, keeper, restorer>>

ReadActive ==
  /\ updater.at = "read"
  /\ updater' = [updater EXCEPT !.at = "previous", !.old = current, !.crossed = FALSE]
  /\ UNCHANGED <<linkVars, dataVars, boundVars, roller, keeper, restorer>>

LinkPrevious ==
  /\ updater.at = "previous"
  /\ previous' = IF IsDirectory(updater.old) THEN updater.old ELSE previous
  /\ UpdaterGoto("current")
  /\ UNCHANGED <<releases, current, exposed, dataVars, boundVars, roller, keeper, restorer>>

\* os.replace does not put a link in the place of a directory.
LinkCurrent ==
  /\ updater.at = "current"
  /\ IF current = Standalone
     THEN UpdateReturns("raised") /\ UNCHANGED current
     ELSE UpdaterGoto("doctor") /\ current' = updater.version
  /\ UNCHANGED <<releases, previous, exposed, dataVars, boundVars, roller, keeper, restorer>>

\* The verdict is about this process and the services that run, not about the
\* release.  Without an old target there is nothing to go back to.
RunDoctor ==
  /\ updater.at = "doctor"
  /\ \E verdict \in DoctorVerdicts :
       IF verdict # "UNHEALTHY" THEN UpdateReturns("updated")
       ELSE IF updater.old = None THEN UpdateReturns("failed")
       ELSE UpdaterGoto("revert")
  /\ UNCHANGED <<linkVars, dataVars, boundVars, roller, keeper, restorer>>

\* Mutant: back to what `previous' names now.
RevertToPrevious ==
  /\ updater.at = "revert"
  /\ current' = previous
  /\ UpdateReturns("failed")
  /\ UNCHANGED <<releases, previous, exposed, dataVars, boundVars, roller, keeper, restorer>>

RevertCurrent ==
  /\ updater.at = "revert"
  /\ current' = updater.old
  /\ UpdateReturns("failed")
  /\ UNCHANGED <<releases, previous, exposed, dataVars, boundVars, roller, keeper, restorer>>

-----------------------------------------------------------------------------
(* rollback_release, a request to the console.  A release whose manifest   *)
(* is of other contracts is refused.                                       *)

ReadPrevious ==
  /\ roller.at = "idle"
  /\ saving[Console] = None
  /\ IsDirectory(previous)
  /\ roller' = [at |-> "swap", target |-> previous]
  /\ UNCHANGED <<linkVars, dataVars, boundVars, updater, keeper, restorer>>

SwapBack ==
  /\ roller.at = "swap"
  /\ current' = IF current = Standalone THEN Standalone ELSE roller.target
  /\ roller' = NoRollback
  /\ updater' = [updater EXCEPT !.crossed = TRUE]
  /\ UNCHANGED <<releases, previous, exposed, dataVars, boundVars, keeper, restorer>>

-----------------------------------------------------------------------------
(* A process is killed.                                                    *)

Forgets(p) ==
  /\ kills < MaxKills
  /\ kills' = kills + 1
  /\ saving' = [saving EXCEPT ![p] = None]
  /\ UNCHANGED <<linkVars, database, backups, written, wiped, clock, updates>>

KillUpdate ==
  /\ updater.at # "idle"
  /\ Forgets(Updater)
  /\ UpdateReturns("killed")
  /\ UNCHANGED <<roller, keeper, restorer>>

KillMaintenance ==
  /\ keeper.at # "idle"
  /\ Forgets(Keeper)
  /\ KeeperGoto("idle", {})
  /\ UNCHANGED <<updater, roller, restorer>>

KillRequester(p) ==
  /\ saving[p] # None \/ (p = Console /\ roller.at # "idle")
  /\ Forgets(p)
  /\ roller' = IF p = Console THEN NoRollback ELSE roller
  /\ UNCHANGED <<updater, keeper, restorer>>

-----------------------------------------------------------------------------
Update ==
  \/ \E c \in Candidate : BeginUpdate(c)
  \/ OpenUpdateBackup \/ NoDatabaseToSave \/ CloseUpdateBackup
  \/ StartCopy \/ CopyFails \/ FinishCopy
  \/ ReadActive \/ LinkPrevious \/ LinkCurrent \/ RunDoctor \/ RevertCurrent

Maintain == BeginMaintenance \/ SaveInMaintenance \/ ListBackups \/ RemoveBackup

Next ==
  \/ Tick \/ CreateSchema
  \/ Update
  \/ Maintain
  \/ \E p \in Requesters : BeginBackup(p) \/ FinishBackup(p) \/ KillRequester(p)
  \/ \E s \in Seconds : CheckBackup(s)
  \/ RestoreBackup
  \/ \E purge \in BOOLEAN : Uninstall(purge)
  \/ ReadPrevious \/ SwapBack
  \/ KillUpdate \/ KillMaintenance

Spec == Init /\ [][Next]_vars

-----------------------------------------------------------------------------
TypeOK ==
  /\ releases \in [Versions -> {"absent", "partial", "whole"}]
  /\ current \in Links /\ previous \in Links
  /\ updater \in UpdaterState
  /\ roller \in RollerState
  /\ database \in Contents \cup {Missing}
  /\ backups \in [Seconds -> Contents \cup {None}]
  /\ written \in [Seconds -> Seconds]
  /\ saving \in [Savers -> Seconds \cup {None}]
  /\ keeper \in KeeperState
  /\ restorer \in RestorerState
  /\ clock \in Seconds
  /\ updates \in 0..MaxUpdates /\ kills \in 0..MaxKills
  /\ exposed \subseteq Versions
  /\ wiped \in BOOLEAN

\* `current' and `previous' lead to whole releases, at every moment, also when
\* an update is killed and an old one is rolled back to.  The exception is a
\* release that is installed again while it is linked: update_release removes
\* the directory before it copies.
LinkedReleasesWhole ==
  \A v \in {current, previous} \cap Versions : releases[v] # "whole" => v \in exposed

\* From the moment an update goes beyond its backup until it returns there is a
\* backup that was completed since it began, however many the console makes in
\* the same second and however many the maintenance removes, if no more of them
\* have been cut short than the maintenance leaves.
PreUpdateBackupKept ==
  /\ updater.at \notin {"idle", "save", "saving"}
  /\ ~wiped
  /\ Cardinality({s \in Files : backups[s] = Empty}) < KeepBackups
  => \E s \in Files : backups[s] # Empty /\ written[s] >= updater.since

\* What update_release reports is what it has done: `updated' leaves the
\* candidate active and the release before it to be rolled back to, `failed'
\* leaves the release that was active, if there was one, unless the console has
\* rolled back since update_release looked at it.
UpdateReportIsTrue ==
  /\ updater.at = "idle"
  /\ ~updater.crossed
  => /\ updater.outcome = "updated" =>
          /\ current = updater.version
          /\ updater.old \in Versions => previous = updater.old \/ releases[updater.old] = "absent"
     /\ updater.outcome = "failed" /\ updater.old # None => current = updater.old

\* A restore leaves a Registry without a schema only if the file it has checked
\* is removed before it is read, or the data had been removed before: a backup
\* that was cut short is never restored, and the daily maintenance is what can
\* still empty the Registry under a restore.
EmptiedOnlyByRemoval ==
  [][restorer.at = "copy" /\ restorer'.at = "idle" /\ database' = Empty
       => restorer.lost \/ wiped]_vars
=============================================================================
