---------------------- MODULE ReleaseLifecycle_proofs ----------------------
(***************************************************************************)
(* For any releases, requesters and number of backups: the types, that the *)
(* links lead to whole releases, that update_release reports what it did,  *)
(* when a restore can empty the Registry, and that an update's backup      *)
(* outlives the maintenance.                                               *)
(***************************************************************************)
EXTENDS ReleaseLifecycle, FiniteSetTheorems, TLAPS

\* The clock starts at a second.
LEMMA ZeroIsSecond == 0 \in Seconds
BY ReleaseAssumption DEF Seconds

\* The records' initial values, and what the steps make of them.
LEMMA InitialRecords ==
  /\ NoUpdate \in UpdaterState
  /\ NoRollback \in RollerState
  /\ [at |-> "idle", doomed |-> {}] \in KeeperState
  /\ NoRestore \in RestorerState
<1>1. NoUpdate \in UpdaterState
  BY ZeroIsSecond DEF UpdaterState, UpdaterPlaces, Outcomes, Links, NoUpdate
<1>2. NoRollback \in RollerState
  BY DEF RollerState, NoRollback, Links
<1>3. [at |-> "idle", doomed |-> {}] \in KeeperState
  BY DEF KeeperState
<1>4. NoRestore \in RestorerState
  BY DEF RestorerState, NoRestore
<1>5. QED
  BY <1>1, <1>2, <1>3, <1>4

LEMMA UpdaterGoes ==
  ASSUME NEW u \in UpdaterState, u.at # "idle", NEW place \in UpdaterPlaces
  PROVE  [u EXCEPT !.at = place] \in UpdaterState
BY DEF UpdaterState

LEMMA UpdaterReturns ==
  ASSUME NEW u \in UpdaterState, NEW outcome \in Outcomes
  PROVE  [u EXCEPT !.at = "idle", !.since = 0, !.outcome = outcome] \in UpdaterState
BY ZeroIsSecond DEF UpdaterState, UpdaterPlaces

LEMMA UpdaterBegins ==
  ASSUME NEW version \in Versions, NEW since \in Seconds
  PROVE  /\ [NoUpdate EXCEPT !.at = "save", !.version = version, !.since = since]
              \in UpdaterState
         /\ [NoUpdate EXCEPT !.outcome = "refused"] \in UpdaterState
BY InitialRecords DEF UpdaterState, UpdaterPlaces, Outcomes

LEMMA UpdaterReads ==
  ASSUME NEW u \in UpdaterState, u.at = "read", NEW old \in Links
  PROVE  [u EXCEPT !.at = "previous", !.old = old, !.crossed = FALSE] \in UpdaterState
BY DEF UpdaterState, UpdaterPlaces

LEMMA UpdaterCrossed ==
  ASSUME NEW u \in UpdaterState
  PROVE  [u EXCEPT !.crossed = TRUE] \in UpdaterState
BY DEF UpdaterState

LEMMA RestorerLoses ==
  ASSUME NEW r \in RestorerState, NEW lost \in BOOLEAN
  PROVE  [r EXCEPT !.lost = lost] \in RestorerState
BY DEF RestorerState

\* What opening and closing a backup leave well typed.
LEMMA BackupTypes ==
  ASSUME TypeOK, NEW p \in Savers, OpenBackup(p) \/ CloseBackup(p)
  PROVE  /\ database' \in Contents \cup {Missing}
         /\ backups' \in [Seconds -> Contents \cup {None}]
         /\ written' \in [Seconds -> Seconds]
         /\ saving' \in [Savers -> Seconds \cup {None}]
         /\ wiped' \in BOOLEAN
<1>1. CASE OpenBackup(p)
  BY <1>1 DEF TypeOK, OpenBackup, Contents
<1>2. CASE CloseBackup(p)
  <2>1. saving[p] \in Seconds
    BY <1>2 DEF TypeOK, CloseBackup
  <2>2. QED
    BY <1>2, <2>1, ZeroIsSecond DEF TypeOK, CloseBackup, Contents
<1>3. QED
  BY <1>1, <1>2

\* The types hold at first.
LEMMA InitTypeOK == Init => TypeOK
<1> SUFFICES ASSUME Init PROVE TypeOK
  OBVIOUS
<1>1. current \in Links /\ previous \in Links
  BY DEF Init, Links
<1>2. clock \in Seconds /\ updates \in 0..MaxUpdates /\ kills \in 0..MaxKills
  BY ReleaseAssumption DEF Init, Seconds
<1>3. QED
  BY <1>1, <1>2, InitialRecords, ZeroIsSecond DEF Init, TypeOK, Contents

\* Every step keeps the types.
LEMMA StepTypeOK == TypeOK /\ [Next]_vars => TypeOK'
<1> SUFFICES ASSUME TypeOK, [Next]_vars PROVE TypeOK'
  OBVIOUS
<1> USE DEF TypeOK, linkVars, dataVars, boundVars
<1>1. CASE Tick \/ CreateSchema
  <2>1. CASE Tick
    <3>1. clock' \in Seconds
      BY <2>1, ReleaseAssumption DEF Tick, Seconds
    <3>2. QED
      BY <2>1, <3>1 DEF Tick
  <2>2. CASE CreateSchema
    BY <2>2 DEF CreateSchema, Contents
  <2>3. QED
    BY <1>1, <2>1, <2>2
<1>2. CASE Update
  <2>1. ASSUME NEW c \in Candidate, BeginUpdate(c) PROVE TypeOK'
    <3>1. c.version \in Versions
      BY DEF Candidate
    <3>2. updater' \in UpdaterState
      BY <2>1, <3>1, UpdaterBegins DEF BeginUpdate
    <3>3. updates' \in 0..MaxUpdates
      BY <2>1, ReleaseAssumption DEF BeginUpdate
    <3>4. QED
      BY <2>1, <3>2, <3>3 DEF BeginUpdate
  <2>2. CASE OpenUpdateBackup
    <3>1. updater' \in UpdaterState
      BY <2>2, UpdaterGoes DEF OpenUpdateBackup, UpdaterGoto, UpdaterPlaces
    <3>2. QED
      BY <2>2, <3>1, BackupTypes DEF OpenUpdateBackup, Savers
  <2>3. CASE NoDatabaseToSave
    BY <2>3, UpdaterReturns DEF NoDatabaseToSave, UpdateReturns, Outcomes
  <2>4. CASE CloseUpdateBackup
    <3>1. updater' \in UpdaterState
      BY <2>4, UpdaterGoes DEF CloseUpdateBackup, UpdaterGoto, UpdaterPlaces
    <3>2. QED
      BY <2>4, <3>1, BackupTypes DEF CloseUpdateBackup, Savers
  <2>5. CASE StartCopy \/ CopyFails \/ FinishCopy
    <3>1. updater' \in UpdaterState
      <4>1. CASE CopyFails
        BY <4>1, UpdaterReturns DEF CopyFails, UpdateReturns, Outcomes
      <4> QED
        BY <2>5, <4>1, UpdaterGoes DEF StartCopy, FinishCopy, UpdaterGoto, UpdaterPlaces
    <3>2. releases' \in [Versions -> {"absent", "partial", "whole"}]
      <4>1. CASE StartCopy
        <5>1. updater.version \in Versions
          BY <4>1 DEF StartCopy, UpdaterState
        <5> QED
          BY <4>1, <5>1 DEF StartCopy
      <4> QED
        BY <2>5, <4>1 DEF CopyFails, FinishCopy
    <3>3. exposed' \subseteq Versions
      <4>1. CASE StartCopy
        <5>1. {updater.version} \cap Led \subseteq Versions
          BY <4>1 DEF StartCopy, UpdaterState
        <5>2. QED
          BY <4>1, <5>1 DEF StartCopy
      <4>2. CASE FinishCopy
        BY <4>2 DEF FinishCopy
      <4>3. QED
        BY <2>5, <4>1, <4>2 DEF CopyFails
    <3>4. QED
      BY <2>5, <3>1, <3>2, <3>3 DEF StartCopy, CopyFails, FinishCopy
  <2>6. CASE ReadActive
    BY <2>6, UpdaterReads DEF ReadActive
  <2>7. CASE LinkPrevious
    <3>1. updater' \in UpdaterState /\ updater.old \in Links
      BY <2>7, UpdaterGoes DEF LinkPrevious, UpdaterGoto, UpdaterPlaces, UpdaterState
    <3>2. QED
      BY <2>7, <3>1 DEF LinkPrevious
  <2>8. CASE LinkCurrent
    <3>1. updater' \in UpdaterState
      BY <2>8, UpdaterGoes, UpdaterReturns
        DEF LinkCurrent, UpdaterGoto, UpdateReturns, UpdaterPlaces, Outcomes
    <3>2. updater.version \in Links
      BY DEF UpdaterState, Links
    <3>3. QED
      BY <2>8, <3>1, <3>2 DEF LinkCurrent
  <2>9. CASE RunDoctor
    <3>1. updater' \in UpdaterState
      BY <2>9, UpdaterGoes, UpdaterReturns
        DEF RunDoctor, UpdaterGoto, UpdateReturns, UpdaterPlaces, Outcomes
    <3>2. QED
      BY <2>9, <3>1 DEF RunDoctor
  <2>10. CASE RevertCurrent
    <3>1. updater' \in UpdaterState /\ updater.old \in Links
      BY <2>10, UpdaterReturns DEF RevertCurrent, UpdateReturns, Outcomes, UpdaterState
    <3>2. QED
      BY <2>10, <3>1 DEF RevertCurrent
  <2>11. QED
    BY <1>2, <2>1, <2>2, <2>3, <2>4, <2>5, <2>6, <2>7, <2>8, <2>9, <2>10 DEF Update
<1>3. CASE Maintain
  <2>1. keeper' \in KeeperState
    BY <1>3 DEF Maintain, BeginMaintenance, SaveInMaintenance, ListBackups, RemoveBackup,
      KeeperGoto, KeeperState
  <2>2. CASE BeginMaintenance \/ SaveInMaintenance
    BY <2>1, <2>2, BackupTypes DEF BeginMaintenance, SaveInMaintenance, Savers
  <2>3. CASE ListBackups
    BY <2>1, <2>3 DEF ListBackups
  <2>4. CASE RemoveBackup
    <3>1. restorer' \in RestorerState
      BY <2>4, RestorerLoses DEF RemoveBackup
    <3>2. PICK s \in keeper.doomed : /\ backups' = [backups EXCEPT ![s] = None]
                                     /\ written' = [written EXCEPT ![s] = 0]
      BY <2>4 DEF RemoveBackup
    <3>3. /\ backups' \in [Seconds -> Contents \cup {None}]
          /\ written' \in [Seconds -> Seconds]
      BY <3>2, ZeroIsSecond
    <3>4. QED
      BY <2>1, <2>4, <3>1, <3>3 DEF RemoveBackup
  <2>5. QED
    BY <1>3, <2>2, <2>3, <2>4 DEF Maintain
<1>4. ASSUME NEW p \in Requesters, BeginBackup(p) \/ FinishBackup(p) \/ KillRequester(p)
      PROVE  TypeOK'
  <2>1. CASE BeginBackup(p) \/ FinishBackup(p)
    BY <2>1, BackupTypes DEF BeginBackup, FinishBackup, Savers
  <2>2. CASE KillRequester(p)
    <3>1. kills' \in 0..MaxKills
      BY <2>2, ReleaseAssumption DEF KillRequester, Forgets
    <3>2. roller' \in RollerState
      BY <2>2, InitialRecords DEF KillRequester
    <3>3. QED
      BY <2>2, <3>1, <3>2 DEF KillRequester, Forgets
  <2>3. QED
    BY <1>4, <2>1, <2>2
<1>5. ASSUME NEW s \in Seconds, CheckBackup(s) PROVE TypeOK'
  <2>1. restorer' \in RestorerState
    BY <1>5 DEF CheckBackup, RestorerState
  <2>2. QED
    BY <1>5, <2>1 DEF CheckBackup
<1>6. CASE RestoreBackup
  <2>1. restorer.file \in Seconds
    BY <1>6 DEF RestoreBackup, RestorerState
  <2>2. QED
    BY <1>6, <2>1, InitialRecords DEF RestoreBackup, Contents
<1>7. ASSUME NEW purge \in BOOLEAN, Uninstall(purge) PROVE TypeOK'
  <2>1. restorer' \in RestorerState
    BY <1>7, RestorerLoses DEF Uninstall
  <2>2. QED
    BY <1>7, <2>1, ZeroIsSecond DEF Uninstall
<1>8. CASE ReadPrevious \/ SwapBack
  <2>1. CASE ReadPrevious
    BY <2>1 DEF ReadPrevious, RollerState
  <2>2. CASE SwapBack
    <3>1. roller.target \in Links
      BY DEF RollerState
    <3>2. current' \in Links
      BY <2>2, <3>1 DEF SwapBack
    <3>3. QED
      BY <2>2, <3>2, InitialRecords, UpdaterCrossed DEF SwapBack
  <2>3. QED
    BY <1>8, <2>1, <2>2
<1>9. CASE KillUpdate \/ KillMaintenance
  <2>1. kills' \in 0..MaxKills
    BY <1>9, ReleaseAssumption DEF KillUpdate, KillMaintenance, Forgets
  <2>2. saving' \in [Savers -> Seconds \cup {None}]
    BY <1>9 DEF KillUpdate, KillMaintenance, Forgets
  <2>3. updater' \in UpdaterState
    BY <1>9, UpdaterReturns DEF KillUpdate, KillMaintenance, UpdateReturns, Outcomes
  <2>4. keeper' \in KeeperState
    BY <1>9, InitialRecords DEF KillUpdate, KillMaintenance, KeeperGoto
  <2>5. QED
    BY <1>9, <2>1, <2>2, <2>3, <2>4 DEF KillUpdate, KillMaintenance, Forgets
<1>10. CASE UNCHANGED vars
  BY <1>10 DEF vars
<1>11. QED
  BY <1>1, <1>2, <1>3, <1>4, <1>5, <1>6, <1>7, <1>8, <1>9, <1>10 DEF Next

\* Type correctness of the life cycle.
THEOREM ReleaseTypeCorrect == Spec => []TypeOK
BY InitTypeOK, StepTypeOK, PTL DEF Spec

-----------------------------------------------------------------------------
\* The release update_release has read as the active one, while it may still
\* link to it.
HoldsOld == updater.at \in {"previous", "current", "doctor", "revert"}

\* Whatever a link leads to, or may be made to lead to by a process that has
\* read it, is whole or was taken away by an update that copies it again.
LinkInv ==
  /\ \A v \in Versions \cap Led : releases[v] = "whole" \/ v \in exposed
  /\ HoldsOld \/ updater.at = "read" => releases[updater.version] = "whole"
  /\ HoldsOld /\ updater.old \in Versions =>
       releases[updater.old] = "whole" \/ updater.old \in exposed

\* Only the active release is there at first.
LEMMA InitLinkInv == Init => LinkInv
BY ReleaseAssumption DEF Init, LinkInv, HoldsOld, Led, NoUpdate, NoRollback

\* Every step keeps the linked releases whole.
LEMMA StepLinkInv == TypeOK /\ LinkInv /\ [Next]_vars => LinkInv'
<1> SUFFICES ASSUME TypeOK, LinkInv, [Next]_vars PROVE LinkInv'
  OBVIOUS
<1> USE DEF LinkInv, HoldsOld, Led, linkVars, dataVars, boundVars
<1>1. updater.at # "idle" => updater.version \in Versions
  BY DEF TypeOK, UpdaterState
<1>2. ASSUME UNCHANGED <<linkVars, updater, roller>> PROVE LinkInv'
  BY <1>2
<1>3. ASSUME UNCHANGED <<linkVars, roller>>,
             updater'.at \notin {"read", "previous", "current", "doctor", "revert"}
      PROVE  LinkInv'
  BY <1>3
<1>4. CASE Update
  <2>1. ASSUME NEW c \in Candidate, BeginUpdate(c) PROVE LinkInv'
    <3>1. updater'.at \in {"save", "idle"}
      BY <2>1 DEF BeginUpdate, NoUpdate
    <3>2. QED
      BY <2>1, <3>1, <1>3 DEF BeginUpdate
  <2>2. CASE OpenUpdateBackup \/ NoDatabaseToSave \/ CloseUpdateBackup \/ CopyFails
    <3>1. updater'.at \in {"saving", "idle", "copy"}
      BY <2>2 DEF OpenUpdateBackup, NoDatabaseToSave, CloseUpdateBackup, CopyFails, UpdaterGoto,
        UpdateReturns, TypeOK, UpdaterState
    <3>2. QED
      BY <2>2, <3>1, <1>3 DEF OpenUpdateBackup, NoDatabaseToSave, CloseUpdateBackup, CopyFails
  <2>3. CASE StartCopy
    <3>1. updater'.at = "copying"
      BY <2>3 DEF StartCopy, UpdaterGoto, TypeOK, UpdaterState
    <3>2. QED
      BY <2>3, <3>1 DEF StartCopy, TypeOK
  <2>4. CASE FinishCopy
    <3>1. updater'.at = "read" /\ updater'.version = updater.version
      BY <2>4 DEF FinishCopy, UpdaterGoto, TypeOK, UpdaterState
    <3>2. QED
      BY <1>1, <2>4, <3>1 DEF FinishCopy, TypeOK
  <2>5. CASE ReadActive
    <3>1. updater'.version = updater.version /\ updater'.old = current
      BY <2>5 DEF ReadActive, TypeOK, UpdaterState
    <3>2. QED
      BY <2>5, <3>1 DEF ReadActive
  <2>6. CASE LinkPrevious
    <3>1. updater'.version = updater.version /\ updater'.old = updater.old
      BY <2>6 DEF LinkPrevious, UpdaterGoto, TypeOK, UpdaterState
    <3>2. QED
      BY <2>6, <3>1 DEF LinkPrevious
  <2>7. CASE LinkCurrent
    <3>1. updater'.version = updater.version /\ updater'.old = updater.old
      BY <2>7 DEF LinkCurrent, UpdaterGoto, UpdateReturns, TypeOK, UpdaterState
    <3>2. updater'.at # "read"
      BY <2>7 DEF LinkCurrent, UpdaterGoto, UpdateReturns, TypeOK, UpdaterState
    <3>3. QED
      BY <2>7, <3>1, <3>2 DEF LinkCurrent
  <2>8. CASE RunDoctor
    <3>1. updater'.version = updater.version /\ updater'.old = updater.old
      BY <2>8 DEF RunDoctor, UpdaterGoto, UpdateReturns, TypeOK, UpdaterState
    <3>2. QED
      BY <2>8, <3>1 DEF RunDoctor
  <2>9. CASE RevertCurrent
    <3>1. updater'.at = "idle"
      BY <2>9 DEF RevertCurrent, UpdateReturns, TypeOK, UpdaterState
    <3>2. QED
      BY <2>9, <3>1 DEF RevertCurrent
  <2>10. QED
    BY <1>4, <2>1, <2>2, <2>3, <2>4, <2>5, <2>6, <2>7, <2>8, <2>9 DEF Update
<1>5. CASE ReadPrevious
  BY <1>5 DEF ReadPrevious, TypeOK, RollerState
<1>6. CASE SwapBack
  <2>1. /\ updater'.at = updater.at /\ updater'.version = updater.version
        /\ updater'.old = updater.old
    BY <1>6 DEF SwapBack, TypeOK, UpdaterState
  <2>2. roller'.target \notin Versions
    BY <1>6, ReleaseAssumption DEF SwapBack, NoRollback
  <2>3. QED
    BY <1>6, <2>1, <2>2, ReleaseAssumption DEF SwapBack
<1>7. CASE KillUpdate
  <2>1. updater'.at = "idle"
    BY <1>7 DEF KillUpdate, UpdateReturns, TypeOK, UpdaterState
  <2>2. QED
    BY <1>7, <2>1, <1>3 DEF KillUpdate, Forgets
<1>8. ASSUME NEW p \in Requesters, BeginBackup(p) \/ FinishBackup(p) \/ KillRequester(p)
      PROVE  LinkInv'
  <2>1. CASE BeginBackup(p) \/ FinishBackup(p)
    BY <1>2, <2>1 DEF BeginBackup, FinishBackup
  <2>2. CASE KillRequester(p)
    <3>1. UNCHANGED <<linkVars, updater>> /\ (roller' = roller \/ roller' = NoRollback)
      BY <2>2 DEF KillRequester, Forgets
    <3>2. NoRollback.target \notin Versions
      BY ReleaseAssumption DEF NoRollback
    <3>3. QED
      BY <3>1, <3>2
  <2>3. QED
    BY <1>8, <2>1, <2>2
<1>9. QED
  BY <1>2, <1>4, <1>5, <1>6, <1>7, <1>8
    DEF Next, vars, Tick, CreateSchema, Maintain, BeginMaintenance, SaveInMaintenance,
        ListBackups, RemoveBackup, CheckBackup, RestoreBackup, Uninstall, KillMaintenance, Forgets

\* A link leads to a whole release at every moment, for any releases.
THEOREM LinksLeadToWholeReleases == Spec => []LinkedReleasesWhole
<1>1. LinkInv => LinkedReleasesWhole
  BY DEF LinkInv, LinkedReleasesWhole, Led
<1>2. QED
  BY <1>1, InitTypeOK, StepTypeOK, InitLinkInv, StepLinkInv, PTL DEF Spec

-----------------------------------------------------------------------------
\* The release before the update can be rolled back to.
OldIsPrevious ==
  updater.old \in Versions => previous = updater.old \/ releases[updater.old] = "absent"

\* Where update_release is, and what it has made of the links it has read, as
\* long as the console has not rolled back.
ReportInv ==
  /\ updater.at = "revert" => updater.old # None
  /\ ~updater.crossed =>
       /\ updater.at \in {"previous", "current"} => current = updater.old
       /\ updater.at \in {"current", "doctor", "revert"} => OldIsPrevious
       /\ updater.at \in {"doctor", "revert"} => current = updater.version
  /\ UpdateReportIsTrue

\* Nothing has been reported at first.
LEMMA InitReportInv == Init => ReportInv
BY DEF Init, ReportInv, UpdateReportIsTrue, NoUpdate

\* Every step keeps the report true.
LEMMA StepReportInv == TypeOK /\ ReportInv /\ [Next]_vars => ReportInv'
<1> SUFFICES ASSUME TypeOK, ReportInv, [Next]_vars PROVE ReportInv'
  OBVIOUS
<1> USE DEF ReportInv, OldIsPrevious, UpdateReportIsTrue, linkVars, dataVars, boundVars
<1>1. updater \in UpdaterState
  BY DEF TypeOK
<1>2. ASSUME UNCHANGED <<linkVars, updater>> PROVE ReportInv'
  BY <1>2
<1>3. ASSUME updater'.at \notin {"idle", "previous", "current", "doctor", "revert"}
      PROVE  ReportInv'
  BY <1>3
<1>4. ASSUME updater'.at = "idle", updater'.outcome \in {"refused", "killed", "raised"}
      PROVE  ReportInv'
  BY <1>4
<1>5. CASE Update
  <2>1. ASSUME NEW c \in Candidate, BeginUpdate(c) PROVE ReportInv'
    <3>1. \/ updater'.at = "save"
          \/ updater'.at = "idle" /\ updater'.outcome = "refused"
      BY <2>1 DEF BeginUpdate, NoUpdate
    <3>2. QED
      BY <3>1, <1>3, <1>4
  <2>2. CASE OpenUpdateBackup \/ CloseUpdateBackup \/ StartCopy \/ FinishCopy
    <3>1. updater'.at \in {"saving", "copy", "copying", "read"}
      BY <1>1, <2>2 DEF OpenUpdateBackup, CloseUpdateBackup, StartCopy, FinishCopy,
        UpdaterGoto, UpdaterState
    <3>2. QED
      BY <3>1, <1>3
  <2>3. CASE NoDatabaseToSave \/ CopyFails
    <3>1. updater'.at = "idle" /\ updater'.outcome \in {"refused", "raised"}
      BY <1>1, <2>3 DEF NoDatabaseToSave, CopyFails, UpdateReturns, UpdaterState
    <3>2. QED
      BY <3>1, <1>4
  <2>4. CASE ReadActive
    <3>1. updater'.at = "previous" /\ updater'.old = current
      BY <1>1, <2>4 DEF ReadActive, UpdaterState
    <3>2. QED
      BY <2>4, <3>1 DEF ReadActive
  <2>5. CASE LinkPrevious
    <3>1. /\ updater'.at = "current" /\ updater'.old = updater.old
          /\ updater'.crossed = updater.crossed
      BY <1>1, <2>5 DEF LinkPrevious, UpdaterGoto, UpdaterState
    <3>2. OldIsPrevious'
      BY <2>5, <3>1 DEF LinkPrevious, IsDirectory
    <3>3. QED
      BY <2>5, <3>1, <3>2 DEF LinkPrevious
  <2>6. CASE LinkCurrent
    <3>1. CASE current = Standalone
      <4>1. updater'.at = "idle" /\ updater'.outcome = "raised"
        BY <1>1, <2>6, <3>1 DEF LinkCurrent, UpdateReturns, UpdaterState
      <4>2. QED
        BY <4>1, <1>4
    <3>2. CASE current # Standalone
      <4>1. /\ updater'.at = "doctor" /\ updater'.old = updater.old
            /\ updater'.version = updater.version /\ updater'.crossed = updater.crossed
        BY <1>1, <2>6, <3>2 DEF LinkCurrent, UpdaterGoto, UpdaterState
      <4>2. QED
        BY <2>6, <3>2, <4>1 DEF LinkCurrent
    <3>3. QED
      BY <3>1, <3>2
  <2>7. CASE RunDoctor
    <3>1. /\ updater'.old = updater.old /\ updater'.version = updater.version
          /\ updater'.crossed = updater.crossed
          /\ \/ updater'.at = "idle" /\ updater'.outcome = "updated"
             \/ updater'.at = "idle" /\ updater'.outcome = "failed" /\ updater.old = None
             \/ updater'.at = "revert" /\ updater.old # None
      BY <1>1, <2>7 DEF RunDoctor, UpdaterGoto, UpdateReturns, UpdaterState
    <3>2. QED
      BY <2>7, <3>1 DEF RunDoctor
  <2>8. CASE RevertCurrent
    <3>1. /\ updater'.at = "idle" /\ updater'.outcome = "failed"
          /\ updater'.old = updater.old
      BY <1>1, <2>8 DEF RevertCurrent, UpdateReturns, UpdaterState
    <3>2. QED
      BY <2>8, <3>1 DEF RevertCurrent
  <2>9. QED
    BY <1>5, <2>1, <2>2, <2>3, <2>4, <2>5, <2>6, <2>7, <2>8 DEF Update
<1>6. CASE SwapBack
  <2>1. updater'.crossed /\ updater'.at = updater.at /\ updater'.old = updater.old
    BY <1>1, <1>6 DEF SwapBack, UpdaterState
  <2>2. QED
    BY <2>1
<1>7. CASE KillUpdate
  <2>1. updater'.at = "idle" /\ updater'.outcome = "killed"
    BY <1>1, <1>7 DEF KillUpdate, UpdateReturns, UpdaterState
  <2>2. QED
    BY <2>1, <1>4
<1>8. ASSUME NEW p \in Requesters, BeginBackup(p) \/ FinishBackup(p) \/ KillRequester(p)
      PROVE  ReportInv'
  BY <1>2, <1>8 DEF BeginBackup, FinishBackup, KillRequester, Forgets
<1>9. QED
  BY <1>2, <1>5, <1>6, <1>7, <1>8
    DEF Next, vars, Tick, CreateSchema, Maintain, BeginMaintenance, SaveInMaintenance,
        ListBackups, RemoveBackup, CheckBackup, RestoreBackup, Uninstall, ReadPrevious,
        KillMaintenance, Forgets

\* What update_release reports of the links is so, for any releases.
THEOREM UpdatesReportWhatTheyDid == Spec => []UpdateReportIsTrue
<1>1. ReportInv => UpdateReportIsTrue
  BY DEF ReportInv
<1>2. QED
  BY <1>1, InitTypeOK, StepTypeOK, InitReportInv, StepReportInv, PTL DEF Spec

-----------------------------------------------------------------------------
\* Unless the data has been wiped the Registry is whole, and so is the file a
\* restore has checked until it is removed.
RestoreInv ==
  /\ ~wiped => database = Whole
  /\ restorer.at = "copy" /\ ~restorer.lost /\ ~wiped => backups[restorer.file] = Whole

\* The Registry is whole at first.
LEMMA InitRestoreInv == Init => RestoreInv
BY DEF Init, RestoreInv, NoRestore

\* A backup that is opened or closed leaves a whole file whole.
LEMMA BackupsStayWhole ==
  ASSUME TypeOK, RestoreInv, NEW p \in Savers, OpenBackup(p) \/ CloseBackup(p),
         restorer' = restorer
  PROVE  RestoreInv'
<1>1. CASE OpenBackup(p)
  BY <1>1, ReleaseAssumption DEF TypeOK, RestoreInv, OpenBackup, RestorerState
<1>2. CASE CloseBackup(p)
  BY <1>2, ReleaseAssumption DEF TypeOK, RestoreInv, CloseBackup, RestorerState
<1>3. QED
  BY <1>1, <1>2

\* Every step keeps a checked file whole.
LEMMA StepRestoreInv == TypeOK /\ RestoreInv /\ [Next]_vars => RestoreInv'
<1> SUFFICES ASSUME TypeOK, RestoreInv, [Next]_vars PROVE RestoreInv'
  OBVIOUS
<1> USE DEF RestoreInv, dataVars
<1>1. restorer \in RestorerState /\ backups \in [Seconds -> Contents \cup {None}]
  BY DEF TypeOK
<1>2. ASSUME UNCHANGED <<database, backups, wiped, restorer>> PROVE RestoreInv'
  BY <1>2
<1>3. CASE CreateSchema
  BY <1>3 DEF CreateSchema
<1>4. CASE Update
  <2>1. CASE OpenUpdateBackup \/ CloseUpdateBackup
    BY <2>1, BackupsStayWhole DEF OpenUpdateBackup, CloseUpdateBackup, Savers
  <2>2. QED
    BY <1>2, <1>4, <2>1 DEF Update, BeginUpdate, NoDatabaseToSave, StartCopy, CopyFails, FinishCopy,
      ReadActive, LinkPrevious, LinkCurrent, RunDoctor, RevertCurrent
<1>5. CASE Maintain
  <2>1. CASE BeginMaintenance \/ SaveInMaintenance
    BY <2>1, BackupsStayWhole DEF BeginMaintenance, SaveInMaintenance, Savers
  <2>2. CASE RemoveBackup
    <3>1. PICK s \in keeper.doomed :
            /\ backups' = [backups EXCEPT ![s] = None]
            /\ restorer' = [restorer EXCEPT !.lost = @ \/ restorer.file = s]
      BY <2>2 DEF RemoveBackup
    <3>2. /\ restorer'.at = restorer.at /\ restorer'.file = restorer.file
          /\ ~restorer'.lost => ~restorer.lost /\ restorer.file # s
      BY <1>1, <3>1 DEF RestorerState
    <3>3. QED
      BY <1>1, <2>2, <3>1, <3>2 DEF RemoveBackup, RestorerState
  <2>3. QED
    BY <1>2, <1>5, <2>1, <2>2 DEF Maintain, ListBackups
<1>6. ASSUME NEW p \in Requesters, BeginBackup(p) \/ FinishBackup(p) \/ KillRequester(p)
      PROVE  RestoreInv'
  BY <1>2, <1>6, BackupsStayWhole DEF BeginBackup, FinishBackup, KillRequester, Forgets, Savers
<1>7. ASSUME NEW s \in Seconds, CheckBackup(s) PROVE RestoreInv'
  <2>1. backups[s] = Whole
    BY <1>1, <1>7 DEF CheckBackup, Restorable, Contents
  <2>2. QED
    BY <1>7, <2>1 DEF CheckBackup
<1>8. CASE RestoreBackup
  <2>1. restorer'.at # "copy"
    BY <1>8 DEF RestoreBackup, NoRestore
  <2>2. restorer.file \in Seconds
    BY <1>1, <1>8 DEF RestoreBackup, RestorerState
  <2>3. database' \in Contents
    BY <1>1, <1>8, <2>2 DEF RestoreBackup, Contents
  <2>4. QED
    BY <1>8, <2>1, <2>3 DEF RestoreBackup, Contents
<1>9. ASSUME NEW purge \in BOOLEAN, Uninstall(purge) PROVE RestoreInv'
  BY <1>9 DEF Uninstall
<1>10. QED
  BY <1>2, <1>3, <1>4, <1>5, <1>6, <1>7, <1>8, <1>9
    DEF Next, vars, Tick, ReadPrevious, SwapBack, KillUpdate, KillMaintenance, Forgets

\* A restore empties the Registry only if the file it has checked was removed,
\* or the data wiped, for any number of requesters and backups.
THEOREM RestoresEmptyOnlyByRemoval == Spec => EmptiedOnlyByRemoval
<1>1. ASSUME TypeOK, RestoreInv, [Next]_vars,
             restorer.at = "copy", restorer'.at = "idle", database' = Empty,
             ~restorer.lost, ~wiped
      PROVE  FALSE
  <2>1. restorer \in RestorerState
    BY <1>1 DEF TypeOK
  <2>2. RestoreBackup
    <3>1. restorer' # restorer
      BY <1>1
    <3>2. CASE RemoveBackup
      BY <1>1, <2>1, <3>2 DEF RemoveBackup, RestorerState
    <3>3. ASSUME NEW purge \in BOOLEAN, Uninstall(purge) PROVE FALSE
      BY <1>1, <2>1, <3>3 DEF Uninstall, RestorerState
    <3>4. QED
      BY <1>1, <3>1, <3>2, <3>3
        DEF Next, vars, Tick, CreateSchema, Update, BeginUpdate, OpenUpdateBackup,
            NoDatabaseToSave, CloseUpdateBackup, StartCopy, CopyFails, FinishCopy, ReadActive,
            LinkPrevious, LinkCurrent, RunDoctor, RevertCurrent, Maintain, BeginMaintenance,
            SaveInMaintenance, ListBackups, BeginBackup, FinishBackup, KillRequester,
            CheckBackup, ReadPrevious, SwapBack, KillUpdate, KillMaintenance, Forgets
  <2>3. backups[restorer.file] = Whole
    BY <1>1 DEF RestoreInv
  <2>4. QED
    BY <1>1, <2>2, <2>3, ReleaseAssumption DEF RestoreBackup
<1>2. TypeOK /\ RestoreInv /\ [Next]_vars =>
        [restorer.at = "copy" /\ restorer'.at = "idle" /\ database' = Empty
           => restorer.lost \/ wiped]_vars
  BY <1>1
<1>3. QED
  BY <1>2, InitTypeOK, StepTypeOK, InitRestoreInv, StepRestoreInv, PTL
    DEF Spec, EmptiedOnlyByRemoval

-----------------------------------------------------------------------------
\* What the maintenance is not about to remove, and of it what is no older
\* than the update: complete backups, and those that were cut short.
Kept == Files \ keeper.doomed
Recent(s) == written[s] >= updater.since
CutShort == {s \in Kept : backups[s] = Empty /\ Recent(s)}
Safe ==
  \/ \E s \in Kept : backups[s] = Whole /\ Recent(s)
  \/ Cardinality(CutShort) >= KeepBackups

\* As many as the maintenance leaves are no older than any it removes.
Newer == {t \in Kept : \A d \in keeper.doomed : written[t] >= d}
Spared == keeper.doomed # {} => Cardinality(Newer) >= KeepBackups

\* An update's backup may be doomed before it is written, if there was one of
\* the same second; then there are enough others.
BackupInv ==
  ~wiped =>
    /\ \A s \in Files : s <= written[s]
    /\ \A s \in Seconds : written[s] <= clock
    /\ updater.at # "idle" => updater.since <= clock
    /\ updater.at = "saving" =>
         Safe \/ (saving[Updater] \in Kept /\ Recent(saving[Updater]))
    /\ updater.at \notin {"idle", "save", "saving"} => Safe
    /\ Spared

\* Seconds can be compared.
LEMMA SecondsAreNaturals == \A s \in Seconds : s \in Nat
BY ReleaseAssumption DEF Seconds

\* Sets of files can be counted.
LEMMA FilesAreFinite ==
  /\ IsFiniteSet(Seconds)
  /\ \A S \in SUBSET Seconds : IsFiniteSet(S) /\ Cardinality(S) \in Nat
  /\ \A S, T \in SUBSET Seconds : S \subseteq T => Cardinality(S) <= Cardinality(T)
<1>1. IsFiniteSet(Seconds)
  BY ReleaseAssumption, FS_Interval DEF Seconds
<1>2. \A S \in SUBSET Seconds : IsFiniteSet(S)
  BY <1>1, FS_Subset
<1>3. \A S, T \in SUBSET Seconds : S \subseteq T => Cardinality(S) <= Cardinality(T)
  BY <1>2, FS_Subset
<1> QED
  BY <1>1, <1>2, <1>3, FS_CardinalityType

\* The sets in question are of files, named by seconds.
LEMMA SetsOfFiles ==
  /\ Files \subseteq Seconds /\ Kept \subseteq Seconds
  /\ CutShort \subseteq Seconds /\ Newer \subseteq Seconds
BY DEF Files, Kept, CutShort, Newer

\* Enough files of which none is older than the update make it safe.
LEMMA EnoughAreSafe ==
  ASSUME TypeOK, NEW S \in SUBSET Kept, Cardinality(S) >= KeepBackups, \A s \in S : Recent(s)
  PROVE  Safe
<1>1. CASE \E s \in S : backups[s] = Whole
  BY <1>1 DEF Safe
<1>2. CASE \A s \in S : backups[s] # Whole
  <2>1. S \subseteq CutShort
    BY <1>2 DEF CutShort, Kept, Files, TypeOK, Contents
  <2>2. Cardinality(S) <= Cardinality(CutShort) /\ Cardinality(S) \in Nat /\ Cardinality(CutShort) \in Nat
    BY <2>1, FilesAreFinite, SetsOfFiles
  <2> QED
    BY <2>2, ReleaseAssumption DEF Safe
<1> QED
  BY <1>1, <1>2

\* What is kept stays, grows no older, and is not cut short again.
Matures ==
  /\ \A s \in Kept :
       /\ s \in Kept' /\ written'[s] >= written[s]
       /\ backups[s] = Whole => backups'[s] = Whole
  /\ updater'.since = updater.since

\* What matures stays safe and spared.
LEMMA MatureIsSafe ==
  ASSUME TypeOK, TypeOK', Matures
  PROVE  /\ Safe => Safe'
         /\ keeper'.doomed \subseteq keeper.doomed /\ Spared => Spared'
         /\ \A s \in Kept : Recent(s) => s \in Kept' /\ Recent(s)'
<1>0. /\ \A s \in Seconds : written[s] \in Nat /\ written'[s] \in Nat
      /\ updater.since \in Nat /\ \A s \in Seconds : s \in Nat
  BY SecondsAreNaturals DEF TypeOK, UpdaterState
<1>1. \A s \in Kept : s \in Kept' /\ (Recent(s) => Recent(s)')
  BY <1>0, SetsOfFiles DEF Matures, Recent
<1>2. ASSUME Safe PROVE Safe'
  <2>1. CASE \E s \in Kept : backups[s] = Whole /\ Recent(s)
    BY <1>1, <2>1 DEF Matures, Safe
  <2>2. CASE Cardinality(CutShort) >= KeepBackups
    <3>1. \A s \in CutShort : s \in Kept' /\ Recent(s)'
      BY <1>1 DEF CutShort
    <3>2. CASE \E s \in CutShort : backups'[s] = Whole
      BY <3>1, <3>2 DEF Safe
    <3>3. CASE \A s \in CutShort : backups'[s] # Whole
      <4>1. CutShort \subseteq CutShort'
        BY <3>1, <3>3 DEF CutShort, Kept, Files, TypeOK, Contents
      <4>2. CutShort \in SUBSET Seconds /\ CutShort' \in SUBSET Seconds
        BY DEF CutShort, Kept, Files
      <4>3. /\ Cardinality(CutShort) <= Cardinality(CutShort')
            /\ Cardinality(CutShort) \in Nat /\ Cardinality(CutShort') \in Nat
        BY <4>1, <4>2, FilesAreFinite
      <4> QED
        BY <2>2, <4>3, ReleaseAssumption DEF Safe
    <3> QED
      BY <3>2, <3>3
  <2> QED
    BY <1>2, <2>1, <2>2 DEF Safe
<1>3. ASSUME keeper'.doomed \subseteq keeper.doomed, Spared PROVE Spared'
  <2> SUFFICES ASSUME keeper'.doomed # {} PROVE Cardinality(Newer') >= KeepBackups
    BY DEF Spared
  <2>1. Cardinality(Newer) >= KeepBackups
    BY <1>3 DEF Spared
  <2>2. keeper.doomed \subseteq Seconds
    BY DEF TypeOK, KeeperState
  <2>3. Newer \subseteq Newer'
    BY <1>0, <1>1, <1>3, <2>2, SetsOfFiles DEF Newer, Matures
  <2>4. Newer \in SUBSET Seconds /\ Newer' \in SUBSET Seconds
    BY DEF Newer, Kept, Files
  <2>5. /\ Cardinality(Newer) <= Cardinality(Newer')
        /\ Cardinality(Newer) \in Nat /\ Cardinality(Newer') \in Nat
    BY <2>3, <2>4, FilesAreFinite
  <2> QED
    BY <2>1, <2>5, ReleaseAssumption
<1> QED
  BY <1>1, <1>2, <1>3

\* What is opened or closed matures what is kept, and has the time it has.
LEMMA BackupsMature ==
  ASSUME TypeOK, TypeOK', BackupInv, RestoreInv, ~wiped, NEW p \in Savers,
         OpenBackup(p) \/ CloseBackup(p), keeper'.doomed \subseteq keeper.doomed,
         updater'.since = updater.since, clock' = clock
  PROVE  /\ Matures
         /\ \A s \in Files' : s <= written'[s]
         /\ \A s \in Seconds : written'[s] <= clock'
<1>0. /\ \A s \in Seconds : written[s] \in Nat /\ s \in Nat /\ written[s] <= clock
      /\ \A s \in Files : s <= written[s]
      /\ clock \in Nat /\ clock \in Seconds /\ 0 \in Seconds /\ database = Whole
      /\ backups \in [Seconds -> Contents \cup {None}] /\ written \in [Seconds -> Seconds]
      /\ keeper.doomed \subseteq Seconds
  BY SecondsAreNaturals, ZeroIsSecond DEF TypeOK, BackupInv, RestoreInv, KeeperState
<1>1. CASE OpenBackup(p)
  <2>1. /\ backups' = [backups EXCEPT ![clock] = IF @ = None THEN Empty ELSE @]
        /\ written' = [written EXCEPT ![clock] = clock]
    BY <1>1 DEF OpenBackup
  <2>2. \A s \in Files : s \in Files' /\ backups'[s] = backups[s] /\ written'[s] >= written[s]
    <3> SUFFICES ASSUME NEW s \in Files
                 PROVE  s \in Files' /\ backups'[s] = backups[s] /\ written'[s] >= written[s]
      OBVIOUS
    <3>1. s \in Seconds /\ backups[s] # None
      BY DEF Files
    <3>2. backups'[s] = backups[s]
      BY <1>0, <2>1, <3>1
    <3>3. written'[s] >= written[s]
      BY <1>0, <2>1, <3>1
    <3> QED
      BY <3>1, <3>2, <3>3 DEF Files
  <2>3. \A s \in Files' : s <= written'[s]
    BY <1>0, <2>1 DEF Files
  <2>4. \A s \in Seconds : written'[s] <= clock
    BY <1>0, <2>1
  <2> QED
    BY <2>2, <2>3, <2>4 DEF Matures, Kept
<1>2. CASE CloseBackup(p)
  <2> DEFINE f == saving[p]
  <2>1. /\ f \in Seconds
        /\ backups' = [backups EXCEPT ![f] = IF @ = None THEN None ELSE Whole]
        /\ written' = [written EXCEPT ![f] = IF backups[f] = None THEN 0 ELSE clock]
    BY <1>0, <1>2, ReleaseAssumption DEF CloseBackup, TypeOK
  <2> HIDE DEF f
  <2>2. \A s \in Files : /\ s \in Files' /\ written'[s] >= written[s]
                         /\ backups[s] = Whole => backups'[s] = Whole
    <3> SUFFICES ASSUME NEW s \in Files
                 PROVE  /\ s \in Files' /\ written'[s] >= written[s]
                        /\ backups[s] = Whole => backups'[s] = Whole
      OBVIOUS
    <3>1. s \in Seconds /\ backups[s] # None
      BY DEF Files
    <3>2. backups'[s] = backups[s] \/ backups'[s] = Whole
      BY <1>0, <2>1, <3>1
    <3>3. written'[s] >= written[s]
      BY <1>0, <2>1, <3>1
    <3> QED
      BY <3>1, <3>2, <3>3, ReleaseAssumption DEF Files
  <2>3. \A s \in Files' : s <= written'[s]
    <3> SUFFICES ASSUME NEW s \in Files' PROVE s <= written'[s]
      OBVIOUS
    <3>1. s \in Seconds /\ s \in Files
      BY <1>0, <2>1 DEF Files
    <3>2. written'[s] >= written[s] /\ written'[s] \in Nat
      BY <1>0, <2>1, <2>2, <3>1
    <3>3. s <= written[s] /\ s \in Nat /\ written[s] \in Nat
      BY <1>0, <3>1
    <3> QED
      BY <3>2, <3>3
  <2>4. \A s \in Seconds : written'[s] <= clock
    BY <1>0, <2>1
  <2> QED
    BY <2>2, <2>3, <2>4 DEF Matures, Kept
<1> QED
  BY <1>1, <1>2

\* What the maintenance is about to remove leaves the newest, and with them
\* what makes the update safe.
LEMMA ListingSpares ==
  ASSUME TypeOK, TypeOK', ListBackups, keeper.doomed = {},
         \A s \in Files : s <= written[s]
  PROVE  /\ Spared'
         /\ Safe => Safe'
         /\ \A s \in Files : Recent(s) => Safe' \/ s \in Kept'
<1>1. PICK old \in SUBSET Seconds : Surplus(old) /\ keeper'.doomed = old
  BY DEF ListBackups, KeeperGoto
<1>2. /\ UNCHANGED <<backups, written, updater>>
      /\ Files' = Files /\ Kept = Files /\ Kept' = Files \ old /\ \A s : Recent(s)' <=> Recent(s)
  BY <1>1 DEF ListBackups, dataVars, Kept, Files, Recent
<1>3. \A s \in Seconds : written[s] \in Nat /\ s \in Nat
  BY SecondsAreNaturals DEF TypeOK
<1>4. old # {} => Cardinality(Kept') = KeepBackups
  <2> SUFFICES ASSUME old # {} PROVE Cardinality(Files \ old) = KeepBackups
    BY <1>2
  <2>1. IsFiniteSet(Files) /\ Cardinality(Files) \in Nat /\ IsFiniteSet(old) /\ Cardinality(old) \in Nat
    BY FilesAreFinite, SetsOfFiles
  <2>2. Cardinality(old) # 0
    BY <2>1, FS_EmptySet
  <2>3. Cardinality(old) = Cardinality(Files) - KeepBackups
    BY <1>1, <2>2 DEF Surplus
  <2>4. Files \cap old = old
    BY <1>1 DEF Surplus
  <2>5. Cardinality(Files \ old) = Cardinality(Files) - Cardinality(old)
    BY <2>1, <2>4, FS_Difference
  <2> QED
    BY <2>1, <2>3, <2>5, ReleaseAssumption
<1>5. \A t \in Kept', d \in old : written[d] <= written[t] /\ d <= written[t] /\ d \in Files
  BY <1>1, <1>2, <1>3, SetsOfFiles DEF Surplus
<1>6. Spared'
  <2> SUFFICES ASSUME old # {} PROVE Cardinality(Newer') >= KeepBackups
    BY <1>1 DEF Spared
  <2>1. Newer' = Kept'
    BY <1>1, <1>2, <1>3, <1>5, SetsOfFiles DEF Newer
  <2> QED
    BY <1>4, <2>1, ReleaseAssumption
<1>7. ASSUME NEW s \in old, Recent(s) PROVE Safe'
  <2>1. Cardinality(Kept') >= KeepBackups
    BY <1>4, <1>7, ReleaseAssumption
  <2>2. \A t \in Kept' : Recent(t)'
    <3> SUFFICES ASSUME NEW t \in Kept' PROVE Recent(t)
      BY <1>2
    <3>1. written[s] <= written[t] /\ t \in Seconds /\ s \in Seconds
      BY <1>2, <1>5, SetsOfFiles
    <3>2. updater.since \in Nat
      BY SecondsAreNaturals DEF TypeOK, UpdaterState
    <3> QED
      BY <1>3, <1>7, <3>1, <3>2 DEF Recent
  <2>3. CASE \E t \in Kept' : backups'[t] = Whole
    BY <2>2, <2>3 DEF Safe
  <2>4. CASE \A t \in Kept' : backups'[t] # Whole
    <3>1. Kept' = CutShort'
      BY <2>2, <2>4 DEF CutShort, Kept, Files, TypeOK, Contents
    <3> QED
      BY <2>1, <3>1 DEF Safe
  <2> QED
    BY <2>3, <2>4
<1>8. ASSUME Safe PROVE Safe'
  <2>1. CASE \E s \in old : Recent(s)
    BY <1>7, <2>1
  <2>2. CASE \A s \in old : ~Recent(s)
    <3>1. CutShort' = CutShort
      BY <1>2, <2>2 DEF CutShort
    <3>2. \A s \in Kept : Recent(s) => s \in Kept'
      BY <1>2, <2>2
    <3> QED
      BY <1>2, <1>8, <3>1, <3>2 DEF Safe
  <2> QED
    BY <2>1, <2>2
<1> QED
  BY <1>2, <1>6, <1>7, <1>8

\* Files are doomed only while they are being removed.
DoomedInv == keeper.at # "remove" => keeper.doomed = {}

\* Only a listing dooms files, and a removal ends with the last.
LEMMA StepDoomedInv == DoomedInv /\ [Next]_vars => DoomedInv'
<1> SUFFICES ASSUME DoomedInv, [Next]_vars PROVE DoomedInv'
  OBVIOUS
<1> USE DEF DoomedInv, KeeperGoto
<1>1. CASE ListBackups
  BY <1>1 DEF ListBackups
<1>2. CASE RemoveBackup
  BY <1>2 DEF RemoveBackup
<1>3. CASE BeginMaintenance \/ SaveInMaintenance \/ KillMaintenance
  BY <1>3 DEF BeginMaintenance, SaveInMaintenance, KillMaintenance
<1>4. ASSUME UNCHANGED keeper PROVE DoomedInv'
  BY <1>4
<1>5. CASE Update
  BY <1>4, <1>5
     DEF Update, BeginUpdate, OpenUpdateBackup, NoDatabaseToSave, CloseUpdateBackup, StartCopy,
         CopyFails, FinishCopy, ReadActive, LinkPrevious, LinkCurrent, RunDoctor, RevertCurrent
<1> QED
  BY <1>1, <1>2, <1>3, <1>4, <1>5
     DEF Next, vars, Tick, CreateSchema, Maintain, BeginBackup, FinishBackup, KillRequester,
         CheckBackup, RestoreBackup, Uninstall, ReadPrevious, SwapBack, KillUpdate

\* There is no update and no backup at first.
LEMMA InitBackupInv == Init => BackupInv /\ DoomedInv
BY SecondsAreNaturals, ZeroIsSecond DEF Init, BackupInv, DoomedInv, Files, NoUpdate, Spared

\* A step that changes neither where the update is nor which file it writes.
LEMMA OthersKeepBackups ==
  ASSUME TypeOK, TypeOK', BackupInv, ~wiped, Matures,
         keeper'.doomed \subseteq keeper.doomed, clock <= clock',
         \A s \in Files' : s <= written'[s],
         \A s \in Seconds : written'[s] <= clock',
         updater'.at = updater.at, saving'[Updater] = saving[Updater]
  PROVE  BackupInv'
<1>1. clock \in Nat /\ clock' \in Nat /\ updater.since \in Nat /\ updater'.since = updater.since
  BY SecondsAreNaturals DEF TypeOK, UpdaterState, Matures
<1>2. updater'.at # "idle" => updater'.since <= clock'
  BY <1>1 DEF BackupInv
<1>3. updater'.at = "saving" => Safe' \/ (saving'[Updater] \in Kept' /\ Recent(saving[Updater])')
  BY MatureIsSafe DEF BackupInv
<1>4. updater'.at \notin {"idle", "save", "saving"} => Safe'
  BY MatureIsSafe DEF BackupInv
<1>5. Spared'
  BY MatureIsSafe DEF BackupInv
<1>6. Recent(saving[Updater])' <=> written'[saving'[Updater]] >= updater'.since
  BY DEF Recent
<1> QED
  BY <1>2, <1>3, <1>4, <1>5, <1>6 DEF BackupInv

\* An update that opens its backup has it kept, or enough others spared.
LEMMA UpdateOpensBackup ==
  ASSUME TypeOK, TypeOK', BackupInv, RestoreInv, ~wiped, OpenUpdateBackup PROVE BackupInv'
<1>1. /\ OpenBackup(Updater) /\ updater.at = "save" /\ updater' = [updater EXCEPT !.at = "saving"]
      /\ UNCHANGED <<keeper, clock, wiped>>
  BY DEF OpenUpdateBackup, UpdaterGoto, boundVars, OpenBackup
<1>2. updater'.at = "saving" /\ updater'.since = updater.since
  BY <1>1 DEF TypeOK, UpdaterState
<1>3. Matures /\ (\A s \in Files' : s <= written'[s]) /\ \A s \in Seconds : written'[s] <= clock'
  BY <1>1, <1>2, BackupsMature DEF Savers
<1>4. updater.since <= clock /\ Spared
  BY <1>1 DEF BackupInv
<1>5. /\ saving'[Updater] = clock /\ clock \in Seconds /\ written'[clock] = clock /\ backups'[clock] # None
  BY <1>1, ReleaseAssumption DEF OpenBackup, TypeOK, Savers
<1>6. CASE clock \in keeper.doomed
  <2>1. Cardinality(Newer) >= KeepBackups /\ Newer \in SUBSET Kept
    BY <1>4, <1>6 DEF Spared, Newer
  <2>2. \A s \in Newer : Recent(s)
    <3>1. \A s \in Newer : written[s] >= clock /\ written[s] \in Nat
      BY <1>6, SetsOfFiles, SecondsAreNaturals DEF Newer, TypeOK
    <3>2. clock \in Nat /\ updater.since \in Nat
      BY SecondsAreNaturals DEF TypeOK, UpdaterState
    <3> QED
      BY <1>4, <3>1, <3>2 DEF Recent
  <2>3. Safe'
    BY <1>3, <2>1, <2>2, EnoughAreSafe, MatureIsSafe
  <2> QED
    BY <1>1, <1>2, <1>3, <1>4, <2>3, MatureIsSafe DEF BackupInv
<1>7. CASE clock \notin keeper.doomed
  <2>1. clock \in Kept'
    BY <1>1, <1>5, <1>7 DEF Kept, Files
  <2>2. saving'[Updater] \in Kept' /\ Recent(saving[Updater])'
    BY <1>1, <1>2, <1>4, <1>5, <2>1 DEF Recent
  <2> QED
    BY <1>1, <1>2, <1>3, <1>4, <2>2, MatureIsSafe DEF BackupInv
<1> QED
  BY <1>6, <1>7

\* Its backup is kept when it is closed, or there are enough others.
LEMMA UpdateClosesBackup ==
  ASSUME TypeOK, TypeOK', BackupInv, RestoreInv, ~wiped, CloseUpdateBackup PROVE BackupInv'
<1>1. /\ CloseBackup(Updater) /\ updater.at = "saving" /\ updater' = [updater EXCEPT !.at = "copy"]
      /\ UNCHANGED <<keeper, clock, wiped>>
  BY DEF CloseUpdateBackup, UpdaterGoto, boundVars, CloseBackup
<1>2. updater'.at = "copy" /\ updater'.since = updater.since
  BY <1>1 DEF TypeOK, UpdaterState
<1>3. Matures /\ (\A s \in Files' : s <= written'[s]) /\ \A s \in Seconds : written'[s] <= clock'
  BY <1>1, <1>2, BackupsMature DEF Savers
<1>4. updater.since <= clock /\ Spared
  BY <1>1 DEF BackupInv
<1>5. CASE Safe
  BY <1>1, <1>2, <1>3, <1>4, <1>5, MatureIsSafe DEF BackupInv
<1>6. CASE ~Safe
  <2> DEFINE f == saving[Updater]
  <2>1. f \in Kept
    BY <1>1, <1>6 DEF BackupInv
  <2>2. f \in Seconds /\ backups[f] # None
    BY <2>1 DEF Kept, Files
  <2>3. backups'[f] = Whole /\ written'[f] = clock
    BY <1>1, <2>2, ReleaseAssumption DEF CloseBackup, TypeOK, RestoreInv
  <2>4. f \in Kept'
    BY <1>3, <2>1 DEF Matures
  <2>5. Safe'
    BY <1>2, <1>4, <2>3, <2>4 DEF Safe, Recent
  <2> QED
    BY <1>1, <1>2, <1>3, <1>4, <2>5, MatureIsSafe DEF BackupInv
<1> QED
  BY <1>5, <1>6

\* What removes nothing that is kept.
LEMMA UnchangedMatures ==
  ASSUME TypeOK, BackupInv, ~wiped, UNCHANGED <<backups, written, clock>>,
         keeper'.doomed \subseteq keeper.doomed, updater'.since = updater.since
  PROVE  /\ Matures /\ clock <= clock'
         /\ \A s \in Files' : s <= written'[s]
         /\ \A s \in Seconds : written'[s] <= clock'
<1>1. Files' = Files
  BY DEF Files
<1>2. \A s \in Seconds : written[s] \in Nat
  BY SecondsAreNaturals DEF TypeOK
<1>3. clock \in Nat
  BY SecondsAreNaturals DEF TypeOK
<1> QED
  BY <1>1, <1>2, <1>3, SetsOfFiles DEF Matures, Kept, BackupInv

\* Every step keeps what the running update needs.
LEMMA StepBackupInv ==
  TypeOK /\ TypeOK' /\ BackupInv /\ RestoreInv /\ DoomedInv /\ [Next]_vars => BackupInv'
<1> SUFFICES ASSUME TypeOK, TypeOK', BackupInv, DoomedInv, RestoreInv, [Next]_vars, ~wiped' PROVE BackupInv'
  BY DEF BackupInv
<1> USE DEF dataVars, boundVars, linkVars
<1>0. ~wiped
  BY DEF Next, vars, Tick, CreateSchema, Update, BeginUpdate, OpenUpdateBackup,
         NoDatabaseToSave, CloseUpdateBackup, StartCopy, CopyFails, FinishCopy, ReadActive,
         LinkPrevious, LinkCurrent, RunDoctor, RevertCurrent, Maintain, BeginMaintenance,
         SaveInMaintenance, ListBackups, RemoveBackup, BeginBackup, FinishBackup, KillRequester,
         CheckBackup, RestoreBackup, Uninstall, ReadPrevious, SwapBack, KillUpdate,
         KillMaintenance, Forgets, OpenBackup, CloseBackup
<1>1. ASSUME UNCHANGED <<backups, written, clock>>, keeper'.doomed \subseteq keeper.doomed,
             updater'.since = updater.since, updater'.at = updater.at,
             saving'[Updater] = saving[Updater]
      PROVE  BackupInv'
  BY <1>0, <1>1, UnchangedMatures, OthersKeepBackups
<1>2. CASE Tick
  <2>1. clock' = clock + 1 /\ UNCHANGED <<backups, written, keeper, updater, saving>>
    BY <1>2 DEF Tick
  <2>2. \A s \in Seconds : written[s] \in Nat /\ written[s] <= clock
    BY <1>0, SecondsAreNaturals DEF TypeOK, BackupInv
  <2>3. clock \in Nat
    BY SecondsAreNaturals DEF TypeOK
  <2>4. Matures /\ \A s \in Files' : s <= written'[s]
    BY <1>0, <2>1, <2>2, SetsOfFiles DEF Matures, Kept, Files, BackupInv
  <2>5. clock <= clock' /\ \A s \in Seconds : written'[s] <= clock'
    BY <2>1, <2>2, <2>3
  <2> QED
    BY <1>0, <2>1, <2>4, <2>5, OthersKeepBackups
<1>3. CASE CreateSchema
  BY <1>0, <1>3, ReleaseAssumption DEF CreateSchema, RestoreInv
<1>4. CASE Update
  <2>1. ASSUME NEW c \in Candidate, BeginUpdate(c) PROVE BackupInv'
    <3>1. UNCHANGED <<backups, written, clock, keeper, saving>>
      BY <2>1 DEF BeginUpdate
    <3>2. updater' = [NoUpdate EXCEPT !.at = "save", !.version = c.version, !.since = clock]
          \/ updater' = [NoUpdate EXCEPT !.outcome = "refused"]
      BY <2>1 DEF BeginUpdate
    <3>3. updater'.at = "idle" \/ (updater'.at = "save" /\ updater'.since = clock)
      BY <3>2 DEF NoUpdate
    <3>4. clock <= clock
      BY SecondsAreNaturals DEF TypeOK
    <3>5. Spared'
      BY <1>0, <3>1 DEF BackupInv, Spared, Newer, Kept, Files
    <3> QED
      BY <1>0, <3>1, <3>3, <3>4, <3>5 DEF BackupInv, Files
  <2>2. CASE OpenUpdateBackup
    BY <1>0, <2>2, UpdateOpensBackup
  <2>3. CASE CloseUpdateBackup
    BY <1>0, <2>3, UpdateClosesBackup
  <2>4. CASE NoDatabaseToSave
    BY <1>0, <2>4, ReleaseAssumption DEF NoDatabaseToSave, RestoreInv
  <2>5. CASE StartCopy \/ CopyFails \/ FinishCopy \/ ReadActive \/ LinkPrevious \/ LinkCurrent \/ RunDoctor \/ RevertCurrent
    <3>1. UNCHANGED <<backups, written, clock, keeper, saving>>
      BY <2>5 DEF StartCopy, CopyFails, FinishCopy, ReadActive, LinkPrevious, LinkCurrent, RunDoctor, RevertCurrent
    <3>2. updater.at \notin {"idle", "save", "saving"}
      BY <2>5 DEF StartCopy, CopyFails, FinishCopy, ReadActive, LinkPrevious, LinkCurrent, RunDoctor, RevertCurrent
    <3>3. \/ updater'.at = "idle"
          \/ updater'.since = updater.since /\ updater'.at \notin {"idle", "save", "saving"}
      BY <2>5 DEF StartCopy, CopyFails, FinishCopy, ReadActive, LinkPrevious, LinkCurrent, RunDoctor, RevertCurrent,
                  UpdaterGoto, UpdateReturns, TypeOK, UpdaterState
    <3>4. CASE updater'.at = "idle"
      <4>1. Spared'
        BY <1>0, <3>1 DEF BackupInv, Spared, Newer, Kept, Files
      <4> QED
        BY <1>0, <3>1, <3>4, <4>1 DEF BackupInv, Files
    <3>5. CASE updater'.since = updater.since /\ updater'.at \notin {"idle", "save", "saving"}
      <4>1. Matures
        BY <1>0, <3>1, <3>5, UnchangedMatures
      <4>2. Safe' /\ Spared'
        BY <1>0, <3>1, <3>2, <4>1, MatureIsSafe DEF BackupInv
      <4> QED
        BY <1>0, <3>1, <3>2, <3>5, <4>2 DEF BackupInv, Files
    <3> QED
      BY <3>3, <3>4, <3>5
  <2> QED
    BY <1>4, <2>1, <2>2, <2>3, <2>4, <2>5 DEF Update
<1>5. ASSUME NEW p \in Savers, p # Updater, OpenBackup(p) \/ CloseBackup(p), updater' = updater,
             clock' = clock, keeper'.doomed \subseteq keeper.doomed
      PROVE  BackupInv'
  <2>1. saving'[Updater] = saving[Updater]
    BY <1>5 DEF OpenBackup, CloseBackup, TypeOK, Savers
  <2>2. clock <= clock'
    BY <1>5, SecondsAreNaturals DEF TypeOK
  <2> QED
    BY <1>0, <1>5, <2>1, <2>2, BackupsMature, OthersKeepBackups
<1>6. CASE BeginMaintenance \/ SaveInMaintenance
  <2>1. keeper'.doomed = {}
    BY <1>6 DEF BeginMaintenance, SaveInMaintenance, KeeperGoto
  <2>2. Keeper \in Savers /\ Keeper # Updater
    BY DEF Savers, Keeper, Updater
  <2> QED
    BY <1>5, <1>6, <2>1, <2>2 DEF BeginMaintenance, SaveInMaintenance
<1>7. CASE ListBackups
  <2>0. keeper.doomed = {}
    BY <1>7 DEF ListBackups, DoomedInv
  <2>1. UNCHANGED <<backups, written, clock, saving, updater>>
    BY <1>7 DEF ListBackups
  <2>2. \A s \in Files : s <= written[s]
    BY <1>0 DEF BackupInv
  <2>3. /\ Spared' /\ (Safe => Safe')
        /\ \A s \in Files : Recent(s) => Safe' \/ s \in Kept'
    BY <1>7, <2>0, <2>2, ListingSpares
  <2>4. \A s : Recent(s)' <=> Recent(s)
    BY <2>1 DEF Recent
  <2>5. saving[Updater] \in Kept => saving[Updater] \in Files
    BY DEF Kept
  <2> QED
    BY <1>0, <2>1, <2>3, <2>4, <2>5 DEF BackupInv, Files, Recent
<1>8. CASE RemoveBackup
  <2>0. PICK s \in keeper.doomed :
          /\ backups' = [backups EXCEPT ![s] = None]
          /\ written' = [written EXCEPT ![s] = 0]
          /\ KeeperGoto(IF keeper.doomed = {s} THEN "idle" ELSE "remove", keeper.doomed \ {s})
    BY <1>8 DEF RemoveBackup
  <2>1. /\ backups' = [backups EXCEPT ![s] = None]
        /\ written' = [written EXCEPT ![s] = 0]
        /\ keeper'.doomed = keeper.doomed \ {s}
    BY <2>0 DEF KeeperGoto
  <2>2. UNCHANGED <<clock, saving, updater>>
    BY <1>8 DEF RemoveBackup
  <2>3. \A t \in Seconds : written[t] \in Nat /\ written[t] <= clock /\ clock \in Nat
    BY <1>0, SecondsAreNaturals DEF TypeOK, BackupInv
  <2>4. \A t \in Kept : t \in Kept' /\ written'[t] = written[t] /\ backups'[t] = backups[t]
    BY <2>1 DEF Kept, Files, TypeOK
  <2>5. Matures /\ clock <= clock'
    BY <2>2, <2>3, <2>4, SetsOfFiles, ZeroIsSecond DEF Matures
  <2>6. \A t \in Files' : t <= written'[t]
    BY <1>0, <2>1 DEF BackupInv, Files, TypeOK
  <2>7. \A t \in Seconds : written'[t] <= clock'
    BY <2>1, <2>2, <2>3 DEF TypeOK
  <2> QED
    BY <1>0, <2>1, <2>2, <2>5, <2>6, <2>7, OthersKeepBackups
<1>9. ASSUME NEW p \in Requesters, BeginBackup(p) \/ FinishBackup(p) PROVE BackupInv'
  <2>1. p \in Savers /\ p # Updater
    BY ReleaseAssumption DEF Savers
  <2> QED
    BY <1>5, <1>9, <2>1 DEF BeginBackup, FinishBackup
<1>10. ASSUME NEW p \in Requesters, KillRequester(p) PROVE BackupInv'
  <2>1. p # Updater
    BY ReleaseAssumption
  <2> QED
    BY <1>1, <1>10, <2>1 DEF KillRequester, Forgets, TypeOK, Savers
<1>11. CASE KillMaintenance
  <2>1. Keeper # Updater
    BY DEF Keeper, Updater
  <2> QED
    BY <1>1, <1>11, <2>1 DEF KillMaintenance, Forgets, KeeperGoto, TypeOK, Savers
<1>12. CASE KillUpdate
  <2>1. UNCHANGED <<backups, written, clock, keeper>> /\ updater'.at = "idle"
    BY <1>12 DEF KillUpdate, Forgets, UpdateReturns, TypeOK, UpdaterState
  <2>2. Spared'
    BY <1>0, <2>1 DEF BackupInv, Spared, Newer, Kept, Files
  <2> QED
    BY <1>0, <2>1, <2>2 DEF BackupInv, Files
<1>13. CASE RestoreBackup
  <2>1. database' # Empty
    BY <1>13 DEF RestoreBackup
  <2> QED
    BY <1>1, <1>13, <2>1 DEF RestoreBackup
<1>14. ASSUME NEW s \in Seconds, CheckBackup(s) PROVE BackupInv'
  BY <1>1, <1>14 DEF CheckBackup
<1>15. ASSUME NEW purge \in BOOLEAN, Uninstall(purge) PROVE BackupInv'
  BY <1>1, <1>15 DEF Uninstall
<1>16. CASE ReadPrevious \/ SwapBack
  BY <1>1, <1>16 DEF ReadPrevious, SwapBack, TypeOK, UpdaterState
<1>17. CASE UNCHANGED vars
  BY <1>1, <1>17 DEF vars
<1> QED
  BY <1>2, <1>3, <1>4, <1>6, <1>7, <1>8, <1>9, <1>10, <1>11, <1>12, <1>13, <1>14, <1>15, <1>16, <1>17
     DEF Next, Maintain

\* From its backup to its end an update has a backup that was completed since it
\* began, whoever makes or removes others, for any number that is left.
THEOREM RunningUpdatesKeepTheirBackup == Spec => []PreUpdateBackupKept
<1>1. ASSUME TypeOK, BackupInv PROVE PreUpdateBackupKept
  <2> SUFFICES ASSUME updater.at \notin {"idle", "save", "saving"}, ~wiped,
                      Cardinality({s \in Files : backups[s] = Empty}) < KeepBackups
               PROVE  \E s \in Files : backups[s] # Empty /\ written[s] >= updater.since
    BY DEF PreUpdateBackupKept
  <2>1. Safe
    BY <1>1 DEF BackupInv
  <2>2. Cardinality(CutShort) < KeepBackups
    <3> DEFINE E == {s \in Files : backups[s] = Empty}
    <3>1. CutShort \in SUBSET Seconds /\ E \in SUBSET Seconds /\ CutShort \subseteq E
      BY DEF CutShort, Kept, Files
    <3>2. /\ Cardinality(CutShort) <= Cardinality(E)
          /\ Cardinality(CutShort) \in Nat /\ Cardinality(E) \in Nat
      BY <3>1, FilesAreFinite
    <3> QED
      BY <3>2, ReleaseAssumption
  <2>3. PICK s \in Kept : backups[s] = Whole /\ Recent(s)
    <3>1. Cardinality(CutShort) \in Nat /\ KeepBackups \in Nat
      BY FilesAreFinite, SetsOfFiles, ReleaseAssumption
    <3> QED
      BY <2>1, <2>2, <3>1 DEF Safe
  <2> QED
    BY <2>3, ReleaseAssumption DEF Kept, Recent
<1> QED
  BY <1>1, InitTypeOK, StepTypeOK, InitRestoreInv, StepRestoreInv, InitBackupInv, StepBackupInv,
     StepDoomedInv, PTL DEF Spec
=============================================================================
