-------------------------- MODULE Appliance_proofs ---------------------------
(***************************************************************************)
(* For any commits, units, runs, deployments and faults: what install.sh   *)
(* and deploy-pi.sh keep of each other's tree and units, and what is true  *)
(* of their reports.                                                       *)
(***************************************************************************)
EXTENDS Appliance, Sequences, TLAPS

(***************************************************************************)
(* The inductive invariants.                                               *)
(***************************************************************************)
Units == Inst!Units
DepUnits == Dep!Units
dep == local.d
was == before.tree

\* Types, and those that depend on where a script is.
Typing ==
  /\ TypeOK
  /\ before \in [tree : Dep!TreeOrNone, units : [Units -> Commits \cup {None}]]
  /\ run.at # "idle" => runs > 0
  /\ run.at \in Inst!InstallPlaces => run.version \in Releases
  /\ run.at \in {"mark", "units"} => current \in Releases
  /\ ~Dep!Quiet => local.commit \in Commits /\ dep > 0

\* While install.sh runs there is no deployment.
OneAtATime ==
  run.at # "idle" => Dep!Quiet /\ local = Dep!NoReport(dep) /\ was = None

\* After the trees are replaced, up to the end.
Replaced == {"install", "accept", "record", "verify", "tidy"}
ForwardScripts == {"prepare", "activate"} \cup Replaced
On(s) == session[s].at # "off"

\* Where the commands of a session can be.
PlacesOf(s) ==
  {"off", "go"} \cup
    IF s = "activate" THEN {"save", "move", "place"}
    ELSE IF s = "install" THEN {"units", "start"}
    ELSE IF s = "record" THEN {"sha", "branch"}
    ELSE IF s = "rollback" THEN {"back", "restore", "start", "examine", "clean"}
    ELSE {}
Whereabouts == \A s \in Dep!Scripts : session[s].at \in PlacesOf(s)

\* A session is lost only when a connection is, and only a failure opens the
\* rollback, which is opened once.
SessionInv ==
  /\ local.at # "idle" => On(local.at)
  /\ local.at \in ForwardScripts \/ ~cutOff => \A s \in Dep!Scripts \ {local.at} : ~On(s)
  /\ local.at = "rollback" => ~On("discard")
  /\ local.at \in {"prepare", "activate"} => ~local.activated /\ ~local.undone
  /\ \/ local.at \in Replaced \cup {"rollback"}
     \/ On("rollback") \/ local.report = "rollback failed"
     => local.activated
  /\ local.activated \/ local.undone => ~On("prepare") /\ ~On("activate")
  /\ \A s \in Replaced : On(s) => local.activated \/ local.undone
  /\ On("activate") => ~On("prepare")
  /\ local.undone => ~local.activated /\ local.at \in {"discard", "idle"}
  /\ local.at \in ForwardScripts => local.report = "none"
  /\ local.at = "rollback" => local.report = "failed"
  /\ local.at = "discard" => local.report \in {"failed", "rollback failed"}
  /\ local.report = "verified" => Dep!Quiet

\* The tree that was there, with its units, is where a rollback looks for it.
WayBack == previous[dep] = was /\ was # None /\ Dep!Saved

\* Until the trees are replaced.
BeforeMove ==
  /\ \/ local.at = "prepare" \/ On("prepare")
     \/ session["activate"].at \in {"go", "save", "move"}
     => current = was /\ units = before.units /\ previous[dep] = None
  /\ session["activate"].at \in {"save", "move"} => was # None
  /\ session["activate"].at = "save" =>
       \A j \in DOMAIN Deployed :
         j < session["activate"].turn => backup[dep][Deployed[j]] = before.units[Deployed[j]]
  /\ session["activate"].at = "move" => Dep!Saved
  /\ session["activate"].at = "place" => WayBack /\ current = None /\ units = before.units
  /\ local.at = "activate" =>
       candidate[dep] = [commit |-> local.commit, by |-> dep, sha |-> None, proof |-> None]

\* From then on, while nothing has failed.
AfterMove ==
  /\ local.at \in Replaced =>
       WayBack /\ current # None /\ current.commit = local.commit /\ current.by = dep
  /\ local.at = "install" /\ session["install"].at = "units" =>
       \A j \in DOMAIN Deployed :
         j < session["install"].turn => units[Deployed[j]] = local.commit
  /\ \/ local.at = "install" /\ session["install"].at = "start"
     \/ local.at \in Replaced \ {"install"}
     => \A u \in DepUnits : units[u] = local.commit
  /\ local.at \in {"record", "verify", "tidy"} => dep \in accepted
  /\ local.at = "tidy" => current.proof = local.commit /\ current.sha = local.commit
  /\ Dep!VerifiedLeavesWayBack

\* What a lost session can still do to the units makes no difference.
Sure == ~cutOff \/ (Dep!FoundPaired /\ ~late)

\* The units deploy-pi.sh does not install are those it has found.
OthersStay ==
  ~Dep!Quiet \/ local.undone \/ local.report \in {"failed", "rollback failed"} =>
    \A u \in Units \ DepUnits : units[u] = before.units[u]

\* While a rollback goes on.
RollingBack ==
  /\ session["rollback"].at \in {"go", "back"} => WayBack
  /\ session["rollback"].at \in {"restore", "start", "examine", "clean"} =>
       Dep!IsTree(current, was) /\ was # None /\ Dep!Saved
  /\ session["rollback"].at = "restore" /\ Sure =>
       \A j \in DOMAIN Deployed :
         j < session["rollback"].turn => units[Deployed[j]] = before.units[Deployed[j]]
  /\ session["rollback"].at \in {"start", "examine", "clean"} /\ Sure => units = before.units

\* What is there when it is reported, or will be.
Restoring ==
  /\ local.undone => Dep!IsTree(current, was) /\ was # None /\ (Sure => units = before.units)
  /\ local.report = "rollback failed" /\ ~On("rollback") /\ Sure =>
       \/ Dep!Saved /\ (Dep!IsTree(current, was) \/ previous[dep] = was)
       \/ Dep!IsTree(current, was) /\ units = before.units
  /\ local.report = "failed" /\ ~cutOff /\ local.at \in {"discard", "idle"} => Dep!AsBefore

RollbackInv == OthersStay /\ RollingBack /\ Restoring

DeployInv == BeforeMove /\ AfterMove /\ RollbackInv

\* Of deployments to come there is nothing yet.
NotYet == \A d \in Dep!Deploys : d > dep => previous[d] = None /\ failed[d] = None

\* Records are true wherever a tree is.
TrueRecord(t) ==
  t # None =>
    /\ t.proof # None => t.proof = t.commit /\ t.by \in accepted
    /\ t.sha # None => t.sha = t.commit
RecordInv ==
  ~strayed =>
    /\ TrueRecord(current) /\ TrueRecord(kept)
    /\ \A a \in aside : TrueRecord(a[1])
    /\ \A d \in Dep!Deploys :
         TrueRecord(candidate[d]) /\ TrueRecord(previous[d]) /\ TrueRecord(failed[d])

-----------------------------------------------------------------------------
\* install.sh: the copies and the previous tree belong to what was worn, unless
\* units were saved since.
Installing == {"units", "restart", "doctor", "setup"}
Restored == {"start", "examine", "clean"}

RunInv ==
  /\ run.at # "idle" => run.outcome = "none"
  /\ run.at \in Inst!InstallPlaces =>
       run.mode = "install" /\ (run.activated <=> run.at \in Installing)
  /\ run.at \in {"stop", "away", "back"} => run.mode # "install"
  /\ run.at = "back" => current = None
  /\ run.at = "mark" => run.turn = 1

SetInv ==
  /\ run.at = "save" =>
       \A j \in DOMAIN Installed :
         j < run.turn => unitBackup[Installed[j]] = units[Installed[j]]
  /\ run.at \in {"save", "drop", "move"} => apart
  /\ run.at \in {"drop", "move"} => unitBackup = units
  /\ run.at = "move" => kept = None
  /\ run.at \in {"place", "mark"} => ~apart /\ units = worn.units
  /\ run.at \in Installing => ~apart
  /\ run.at \in {"place", "mark"} \cup Installing => kept = worn.tree /\ unitBackup = worn.units
  /\ ~apart => kept = None \/ (kept = worn.tree /\ unitBackup = worn.units)
  /\ run.at \in {"remove", "withdraw", "withdrawn"} =>
       ~apart /\ kept = None /\ worn.tree = None /\ unitBackup = worn.units
  /\ run.at \in {"withdraw", "withdrawn"} => current = None
  /\ run.at \in {"restore"} \cup Restored => current # None
  /\ run.at \in {"restore"} \cup Restored /\ ~apart =>
       current = worn.tree /\ kept = None
  /\ run.at = "restore" /\ ~apart => unitBackup = worn.units
  /\ run.at \in {"restore", "withdraw"} /\ ~apart /\ ~slipped =>
       \A j \in DOMAIN Installed :
         j < run.turn => units[Installed[j]] = worn.units[Installed[j]]
  /\ run.at \in Restored \cup {"withdrawn"} /\ ~apart /\ ~slipped => units = worn.units
  /\ run.at = "clean" /\ run.mode = "rollback" => checked = "sound"
  /\ WholeSetRestored

InstallInv ==
  /\ run.at \in {"mark"} \cup Installing => current = run.version
  /\ run.at = "units" =>
       \A j \in DOMAIN Installed :
         j < run.turn => Brings[current][Installed[j]] \in {None, units[Installed[j]]}
  /\ run.at \in Installing \ {"units"} =>
       \A u \in Units : Brings[current][u] \in {None, units[u]}
  /\ run.at = "setup" => checked = "sound"
  /\ run.at = "idle" => Inst!SuccessLeavesWayBack

InstallerInv == RunInv /\ SetInv /\ InstallInv

-----------------------------------------------------------------------------
\* Where a tree that Doctor has passed is.
SoundTree(t) == t # None /\ (t.by \in accepted \ {0} \/ \E p \in proven : Dep!IsTree(t, p))

\* The previous tree of install.sh is needed when the installed one has moved.
Away ==
  \/ run.at \in {"place", "mark"} \cup Installing \cup {"remove", "withdraw", "withdrawn"}
  \/ run.at \in {"stop", "away", "back"} /\ run.mode = "recover"
KeptAside(t) ==
  \E a \in aside : t = a[1] /\ (run.at = "idle" \/ run.mode = "rollback" \/ a[2] # runs)
InPlace(t) == IF Away THEN t = kept ELSE t = current
\* It is what the deployment found, if there was one.
AsFound(t) == was = None \/ Dep!IsTree(t, was)
KeptByDeployment(t) ==
  \/ \E d \in Dep!Deploys \ {dep} : t = previous[d] \/ t = failed[d]
  \/ dep > 0 /\ t = previous[dep] /\ AsFound(t)
Lasting(t) == KeptAside(t) \/ KeptByDeployment(t) \/ (InPlace(t) /\ (Away \/ AsFound(t)))

WitnessInv ==
  /\ \A a \in aside : a[2] <= runs
  /\ ~cut /\ proven # {} => \E t \in Dep!Tree : SoundTree(t) /\ Lasting(t)

\* What the assumptions say of the constants, in the names used here.
LEMMA Constants ==
  /\ Releases \subseteq Dep!Tree
  /\ Inst!Trees = Dep!TreeOrNone
  /\ None \notin Dep!Tree /\ None \notin Commits /\ Unsaved \notin Commits \cup {None}
  /\ DepUnits \subseteq Units
  /\ Deployed \in Seq(DepUnits) /\ Installed \in Seq(Units)
  /\ Len(Deployed) \in Nat \ {0} /\ Len(Installed) \in Nat \ {0}
  /\ DOMAIN Deployed = 1 .. Len(Deployed) /\ DOMAIN Installed = 1 .. Len(Installed)
  /\ \A u \in DepUnits : \E i \in DOMAIN Deployed : u = Deployed[i]
  /\ \A u \in Units : \E i \in DOMAIN Installed : u = Installed[i]
  /\ Brings \in [Releases -> [Units -> Commits \cup {None}]]
  /\ MaxDeploys \in Nat /\ MaxRuns \in Nat /\ MaxFaults \in Nat
<1>1. /\ Inst!InstallerAssumption /\ Dep!DeploymentAssumption /\ DepUnits \subseteq Units
  BY ApplianceAssumption DEF Units, DepUnits
<1>2. Releases \subseteq Dep!Tree
  BY <1>1 DEF Releases, Dep!Tree, Dep!DeploymentAssumption
<1>3. Inst!Trees = Dep!TreeOrNone
  BY <1>2 DEF Inst!Trees, Dep!TreeOrNone
<1>4. Deployed \in Seq(DepUnits) /\ Deployed # <<>> /\ Installed \in Seq(Units) /\ Installed # <<>>
  BY <1>1 DEF Inst!InstallerAssumption, Dep!DeploymentAssumption, Units, DepUnits
<1>5. /\ \A u \in DepUnits : \E i \in DOMAIN Deployed : u = Deployed[i]
      /\ \A u \in Units : \E i \in DOMAIN Installed : u = Installed[i]
  BY DEF DepUnits, Units, Dep!Units, Inst!Units
<1> QED
  BY <1>1, <1>2, <1>3, <1>4, <1>5 DEF Inst!InstallerAssumption, Dep!DeploymentAssumption, Units

\* The order of the sessions, spelt out.
LEMMA ScriptOrder ==
  /\ Dep!AfterSuccess["prepare"] = "activate"
  /\ Dep!AfterSuccess["activate"] = "install"
  /\ Dep!AfterSuccess["install"] = "accept"
  /\ Dep!AfterSuccess["accept"] = "record"
  /\ Dep!AfterSuccess["record"] = "verify"
  /\ Dep!AfterSuccess["verify"] = "tidy"
  /\ Dep!AfterSuccess["tidy"] = "idle"
  /\ Dep!AfterSuccess["rollback"] = "discard"
  /\ Dep!AfterSuccess["discard"] = "idle"
  /\ Dep!Scripts = ForwardScripts \cup {"rollback", "discard"}
<1>1. Dep!Scripts = ForwardScripts \cup {"rollback", "discard"}
  BY DEF Dep!Scripts, Dep!Forward, ForwardScripts, Replaced
<1>2. Dep!Forward[1] = "prepare" /\ Dep!Forward[2] = "activate" /\ Dep!Forward[3] = "install"
      /\ Dep!Forward[4] = "accept" /\ Dep!Forward[5] = "record" /\ Dep!Forward[6] = "verify"
      /\ Dep!Forward[7] = "tidy"
  BY DEF Dep!Forward
<1>3. ASSUME NEW i \in 1 .. 6, NEW s, s = Dep!Forward[i]
      PROVE  (CHOOSE j \in 1 .. 6 : Dep!Forward[j] = s) = i
  <2>1. \A j \in 1 .. 6 : Dep!Forward[j] = s <=> j = i
    BY <1>2, <1>3
  <2> QED
    BY <2>1
<1>4. ASSUME NEW i \in 1 .. 6
      PROVE  Dep!AfterSuccess[Dep!Forward[i]] = Dep!Forward[i + 1]
  <2> DEFINE s == Dep!Forward[i]
  <2>1. s \in ForwardScripts \ {"tidy"}
    BY <1>2 DEF ForwardScripts, Replaced
  <2>2. s \in Dep!Scripts /\ s # "rollback" /\ s \notin {"tidy", "discard"}
    BY <1>1, <2>1 DEF ForwardScripts, Replaced
  <2>3. (CHOOSE j \in 1 .. 6 : Dep!Forward[j] = s) = i
    BY <1>3
  <2> HIDE DEF s
  <2>4. Dep!AfterSuccess[s] = Dep!Forward[(CHOOSE j \in 1 .. 6 : Dep!Forward[j] = s) + 1]
    BY <2>2 DEF Dep!AfterSuccess
  <2>5. Dep!AfterSuccess[s] = Dep!Forward[i + 1]
    BY <2>3, <2>4
  <2> QED
    BY <2>5 DEF s
<1>5. /\ Dep!AfterSuccess["tidy"] = "idle" /\ Dep!AfterSuccess["rollback"] = "discard"
      /\ Dep!AfterSuccess["discard"] = "idle"
  BY <1>1 DEF Dep!AfterSuccess, ForwardScripts, Replaced
<1>6. /\ Dep!AfterSuccess[Dep!Forward[1]] = Dep!Forward[2]
      /\ Dep!AfterSuccess[Dep!Forward[2]] = Dep!Forward[3]
      /\ Dep!AfterSuccess[Dep!Forward[3]] = Dep!Forward[4]
      /\ Dep!AfterSuccess[Dep!Forward[4]] = Dep!Forward[5]
      /\ Dep!AfterSuccess[Dep!Forward[5]] = Dep!Forward[6]
      /\ Dep!AfterSuccess[Dep!Forward[6]] = Dep!Forward[7]
  BY <1>4
<1> QED
  BY <1>1, <1>2, <1>5, <1>6

-----------------------------------------------------------------------------
(* How the script and its sessions move.                                   *)

LocalState ==
  [at : {"idle"} \cup Dep!Scripts, d : 0 .. MaxDeploys, commit : Commits \cup {None},
   old : Commits \cup {None}, activated : BOOLEAN, undone : BOOLEAN, report : Dep!Reports]
SessionState == [at : Dep!Places, turn : 1 .. Len(Deployed)]

\* A session goes on, ends, or breaks, heard or not.
Advances(s) ==
  /\ On(s)
  /\ UNCHANGED local
  /\ \E left \in SessionState :
       left.at \in PlacesOf(s) \ {"off"} /\ session' = [session EXCEPT ![s] = left]
Moves(s) == Advances(s) \/ (On(s) /\ (Dep!Ends(s) \/ Dep!Breaks(s)))
Loses(s) == On(s) /\ (Dep!Errs(s, session[s]) \/ Dep!Breaks(s))

\* A session that goes to its next command advances.
LEMMA GoesOn ==
  ASSUME Typing, NEW s \in Dep!Scripts, NEW place \in PlacesOf(s) \ {"off"}, On(s),
         Dep!Goto(s, place)
  PROVE  Advances(s)
<1>1. Dep!At(place) \in SessionState /\ Dep!At(place).at \in PlacesOf(s) \ {"off"}
  BY Constants DEF Dep!At, SessionState, PlacesOf, Dep!Places
<1> QED
  BY <1>1 DEF Advances, Dep!Goto

\* So does one that takes a turn of a loop over the units.
LEMMA LoopsOn ==
  ASSUME Typing, NEW s \in Dep!Scripts, NEW place \in PlacesOf(s) \ {"off"}, NEW u,
         NEW next \in PlacesOf(s) \ {"off"}, Dep!Loop(s, place, u, next)
  PROVE  Advances(s)
<1>1. On(s) /\ session[s] \in SessionState
  BY DEF Dep!Loop, Dep!Is, On, Typing, TypeOK, Dep!TypeOK, SessionState
<1>2. CASE Dep!Goto(s, next)
  BY <1>1, <1>2, GoesOn
<1>3. CASE session[s].turn # Len(Deployed)
  <2>1. session' = [session EXCEPT ![s].turn = @ + 1] /\ UNCHANGED local
    BY <1>3 DEF Dep!Loop
  <2> DEFINE left == [session[s] EXCEPT !.turn = @ + 1]
  <2>4. Len(Deployed) \in Nat
    BY Constants
  <2>5. session[s].turn + 1 \in 1 .. Len(Deployed)
    BY <1>1, <1>3, <2>4 DEF SessionState
  <2>6. session[s].at = place
    BY DEF Dep!Loop, Dep!Is
  <2>2. left \in SessionState /\ left.at \in PlacesOf(s) \ {"off"}
    BY <1>1, <2>5, <2>6 DEF SessionState
  <2>3. session' = [session EXCEPT ![s] = left]
    BY <2>1
  <2> QED
    BY <1>1, <2>1, <2>2, <2>3 DEF Advances
<1> QED
  BY <1>2, <1>3 DEF Dep!Loop

\* What the local script may assign leaves its state well typed.
LEMMA LocalChanges ==
  ASSUME NEW l \in LocalState, NEW at \in {"idle"} \cup Dep!Scripts, NEW activated \in BOOLEAN,
         NEW undone \in BOOLEAN, NEW report \in Dep!Reports
  PROVE  [l EXCEPT !.at = at, !.activated = activated, !.undone = undone, !.report = report]
           \in LocalState
BY DEF LocalState

\* The script's own variables.
LEMMA LocalTypes ==
  ASSUME Typing, NEW s \in Dep!Scripts, Moves(s) \/ Loses(s)
  PROVE  /\ local' \in LocalState /\ local'.d = local.d /\ local'.commit = local.commit
         /\ local'.old = local.old
         /\ session' \in [Dep!Scripts -> SessionState]
<1>1. /\ local \in LocalState /\ session \in [Dep!Scripts -> SessionState]
      /\ Dep!At("go") \in SessionState /\ Dep!Off \in SessionState
  BY Constants DEF Typing, TypeOK, Dep!TypeOK, LocalState, SessionState, Dep!Off, Dep!At, Dep!Places
<1>2. ASSUME NEW left \in SessionState, NEW next, Dep!Switch(s, left, next)
      PROVE  session' \in [Dep!Scripts -> SessionState]
  BY <1>1, <1>2 DEF Dep!Switch
<1>3. CASE Advances(s) \/ Dep!EndsUnheard(s)
  BY <1>1, <1>3 DEF Advances, Dep!EndsUnheard
<1>4. CASE Dep!Succeeds(s)
  <2>1. Dep!AfterSuccess[s] \in {"idle"} \cup Dep!Scripts
    BY ScriptOrder DEF ForwardScripts, Replaced
  <2>2. local' \in LocalState
    <3> DEFINE activated == (local.activated \/ s = "activate") /\ s \notin {"tidy", "rollback"}
               undone == local.undone \/ s = "rollback"
               report == IF s = "tidy" THEN "verified" ELSE local.report
    <3>1. local' = [local EXCEPT !.at = Dep!AfterSuccess[s], !.activated = activated,
                                 !.undone = undone, !.report = report]
      BY <1>4 DEF Dep!Succeeds
    <3>2. activated \in BOOLEAN /\ undone \in BOOLEAN
      OBVIOUS
    <3>3. report \in Dep!Reports
      BY <1>1 DEF LocalState, Dep!Reports
    <3> HIDE DEF activated, undone, report
    <3> QED
      BY <1>1, <2>1, <3>1, <3>2, <3>3, LocalChanges
  <2>3. local'.d = local.d /\ local'.commit = local.commit /\ local'.old = local.old
    BY <1>1, <1>4 DEF Dep!Succeeds, LocalState
  <2> QED
    BY <1>1, <1>2, <1>4, <2>2, <2>3 DEF Dep!Succeeds
<1>5. ASSUME NEW left \in SessionState, Dep!Errs(s, left)
      PROVE  /\ local' \in LocalState /\ local'.d = local.d /\ local'.commit = local.commit
             /\ local'.old = local.old
             /\ session' \in [Dep!Scripts -> SessionState]
  <2>1. Dep!AfterFailure(s) \in {"idle"} \cup Dep!Scripts
    BY ScriptOrder DEF Dep!AfterFailure
  <2>2. local' \in LocalState
    BY <1>1, <1>5, <2>1 DEF Dep!Errs, LocalState, Dep!Reports
  <2>3. local'.d = local.d /\ local'.commit = local.commit /\ local'.old = local.old
    BY <1>1, <1>5 DEF Dep!Errs, LocalState
  <2> QED
    BY <1>2, <1>5, <2>2, <2>3 DEF Dep!Errs
<1> QED
  BY <1>1, <1>3, <1>4, <1>5 DEF Moves, Loses, Dep!Ends, Dep!Breaks

\* What every step of a deployment is to the script and the sessions.
LEMMA DeploymentMoves ==
  ASSUME Typing, SessionInv, Dep!Next
  PROVE  \/ \E s \in Dep!Scripts : Moves(s) /\ UNCHANGED <<cutOff, before>>
         \/ \E s \in Dep!Scripts : Loses(s) /\ cutOff' = TRUE /\ UNCHANGED before
         \/ Dep!KillLocal
         \/ \E c \in Commits : Dep!Start(c) \/ Dep!AlreadyDeployed(c)
<1> USE DEF Dep!historyVars
<1>1. \A s \in Dep!Scripts : \A place : Dep!Is(s, place) /\ place # "off" => On(s)
  BY DEF Dep!Is, On
<1>2. {"prepare", "activate", "install", "accept", "record", "verify", "tidy", "rollback",
       "discard"} = Dep!Scripts
  BY ScriptOrder DEF ForwardScripts, Replaced
<1>3. /\ PlacesOf("activate") = {"off", "go", "save", "move", "place"}
      /\ PlacesOf("install") = {"off", "go", "units", "start"}
      /\ PlacesOf("record") = {"off", "go", "sha", "branch"}
      /\ PlacesOf("rollback") = {"off", "go", "back", "restore", "start", "examine", "clean"}
  BY DEF PlacesOf
<1>4. CASE Dep!DeployStep
  <2>1. CASE Dep!Prepare
    BY <1>1, <1>2, <1>3, <2>1 DEF Dep!Prepare, Moves
  <2>2. CASE Dep!CheckTrees
    <3>1. On("activate") /\ "activate" \in Dep!Scripts /\ "save" \in PlacesOf("activate") \ {"off"}
      BY <1>1, <1>2, <1>3, <2>2 DEF Dep!CheckTrees
    <3> QED
      BY <2>2, <3>1, GoesOn DEF Dep!CheckTrees, Moves
  <2>3. CASE Dep!MoveCurrent
    <3>1. On("activate") /\ "activate" \in Dep!Scripts /\ "place" \in PlacesOf("activate") \ {"off"}
      BY <1>1, <1>2, <1>3, <2>3 DEF Dep!MoveCurrent
    <3> QED
      BY <2>3, <3>1, GoesOn DEF Dep!MoveCurrent, Moves
  <2>4. CASE Dep!PlaceCandidate \/ Dep!RestoreOnError
    BY <1>1, <1>2, <1>3, <2>4 DEF Dep!PlaceCandidate, Dep!RestoreOnError, Moves
  <2>5. CASE Dep!OpenInstall
    <3>1. On("install") /\ "install" \in Dep!Scripts /\ "units" \in PlacesOf("install") \ {"off"}
      BY <1>1, <1>2, <1>3, <2>5 DEF Dep!OpenInstall
    <3> QED
      BY <2>5, <3>1, GoesOn DEF Dep!OpenInstall, Moves
  <2>6. CASE Dep!NoUnitToInstall \/ Dep!Restart
    BY <1>1, <1>2, <1>3, <2>6 DEF Dep!NoUnitToInstall, Dep!Restart, Moves
  <2>7. CASE Dep!NoUnitToSave \/ Dep!Accept \/ Dep!RecordBranch
    BY <1>1, <1>2, <1>3, <2>7 DEF Dep!NoUnitToSave, Dep!Accept, Dep!RecordBranch, Moves
  <2>8. CASE Dep!RecordProof \/ Dep!RecordSha \/ Dep!PassOverRecord
    <3>1. /\ On("record") /\ "record" \in Dep!Scripts
          /\ Dep!Goto("record", "sha") \/ Dep!Goto("record", "branch")
          /\ UNCHANGED <<cutOff, before>>
      BY <1>1, <1>2, <2>8
        DEF Dep!RecordProof, Dep!RecordSha, Dep!PassOverRecord, Dep!Writes
    <3>2. {"sha", "branch"} \subseteq PlacesOf("record") \ {"off"}
      BY <1>3
    <3> QED
      BY <3>1, <3>2, GoesOn DEF Moves
  <2>9. CASE Dep!Verify \/ Dep!Tidy \/ Dep!Discard
    BY <1>1, <1>2, <1>3, <2>9 DEF Dep!Verify, Dep!Tidy, Dep!Discard, Moves
  <2>10. ASSUME NEW u \in Dep!Units, Dep!SaveUnit(u)
         PROVE  Moves("activate") /\ UNCHANGED <<cutOff, before>>
    BY <1>2, <1>3, <2>10, LoopsOn DEF Dep!SaveUnit, Moves
  <2>11. ASSUME NEW u \in Dep!Units, Dep!InstallUnit(u)
         PROVE  Moves("install") /\ UNCHANGED <<cutOff, before>>
    BY <1>2, <1>3, <2>11, LoopsOn DEF Dep!InstallUnit, Moves
  <2>12. ASSUME NEW u \in Dep!Units, Dep!InstallLate(u)
         PROVE  Moves("install") /\ UNCHANGED <<cutOff, before>>
    BY <1>2, <1>3, <2>12, LoopsOn DEF Dep!InstallLate, Moves
  <2> QED
    BY <1>2, <1>4, <2>1, <2>2, <2>3, <2>4, <2>5, <2>6, <2>7, <2>8, <2>9, <2>10, <2>11, <2>12
      DEF Dep!DeployStep
<1>5. CASE Dep!RollbackStep
  <2>1. CASE Dep!MoveAway \/ Dep!MoveBack \/ Dep!RestartPrevious \/ Dep!Doctor
    <3>1. On("rollback") /\ "rollback" \in Dep!Scripts
      BY <1>1, <1>2, <1>3, <2>1 DEF Dep!MoveAway, Dep!MoveBack, Dep!RestartPrevious, Dep!Doctor
    <3>2. {"back", "restore", "examine", "clean"} \subseteq PlacesOf("rollback") \ {"off"}
      BY <1>3
    <3> QED
      BY <2>1, <3>1, <3>2, GoesOn
        DEF Dep!MoveAway, Dep!MoveBack, Dep!RestartPrevious, Dep!Doctor, Moves
  <2>2. CASE Dep!CleanUp
    BY <1>1, <1>2, <1>3, <2>2 DEF Dep!CleanUp, Moves
  <2>3. ASSUME NEW u \in Dep!Units, Dep!RestoreUnit(u)
        PROVE  Moves("rollback") /\ UNCHANGED <<cutOff, before>>
    BY <1>2, <1>3, <2>3, LoopsOn DEF Dep!RestoreUnit, Moves
  <2> QED
    BY <1>2, <1>5, <2>1, <2>2, <2>3 DEF Dep!RollbackStep
<1>6. ASSUME NEW s \in Dep!Scripts, Dep!StepFails(s)
      PROVE  Moves(s) /\ UNCHANGED <<cutOff, before>>
  <2>1. On(s)
    BY <1>6 DEF Dep!StepFails, Dep!MayFail, On
  <2> QED
    BY <1>6, <2>1 DEF Dep!StepFails, Moves
<1>7. ASSUME NEW s \in Dep!Scripts, Dep!Disconnect(s) \/ Dep!Die(s)
      PROVE  Loses(s) /\ cutOff' = TRUE /\ UNCHANGED before
  <2>1. On(s)
    <3>1. CASE Dep!Disconnect(s)
      <4>1. local.at = s /\ s # "idle"
        BY <1>2, <3>1 DEF Dep!Disconnect, Dep!Errs
      <4> QED
        BY <4>1 DEF SessionInv
    <3>2. CASE Dep!Die(s)
      BY <3>2 DEF Dep!Die, On
    <3> QED
      BY <1>7, <3>1, <3>2
  <2> QED
    BY <1>7, <2>1 DEF Dep!Disconnect, Dep!Die, Dep!Lose, Loses, Dep!Breaks
<1> QED
  BY <1>4, <1>5, <1>6, <1>7 DEF Dep!Next

-----------------------------------------------------------------------------
(* The sessions and the script.                                            *)

\* What is on after a session has been left and the next one opened.
LEMMA SwitchedOn ==
  ASSUME Typing, NEW s \in Dep!Scripts, NEW left, NEW next, Dep!Switch(s, left, next)
  PROVE  \A t \in Dep!Scripts :
           On(t)' <=> (t = next \/ (t = s /\ left.at # "off") \/ (t # s /\ On(t)))
BY DEF Dep!Switch, On, Dep!At

\* A step that goes on or ends unheard.
LEMMA SessionUnheard ==
  ASSUME Typing, SessionInv, NEW s \in Dep!Scripts, On(s), UNCHANGED <<local, before>>,
         Advances(s) \/ Dep!EndsUnheard(s), cutOff' \in {cutOff, TRUE}
  PROVE  SessionInv'
<1>1. \A t \in Dep!Scripts : On(t)' => On(t)
  BY DEF Advances, Dep!EndsUnheard, On, Dep!Off, Dep!At, Typing, TypeOK, Dep!TypeOK
<1>2. \A t \in Dep!Scripts : t # s \/ Advances(s) => (On(t)' <=> On(t))
  BY DEF Advances, Dep!EndsUnheard, On, Dep!Off, Dep!At, Typing, TypeOK, Dep!TypeOK
<1>3. Advances(s) \/ local.at # s
  BY DEF Dep!EndsUnheard
<1>4. local.at # "idle" => local.at \in Dep!Scripts
  BY DEF Typing, TypeOK, Dep!TypeOK
<1>5. local.report = "verified" => Dep!Quiet'
  <2>1. local.report # "verified"
    BY DEF SessionInv, Dep!Quiet, On
  <2> QED
    BY <2>1
<1> HIDE DEF On
<1>6. {"prepare", "activate", "rollback", "discard"} \cup Replaced \subseteq Dep!Scripts
  BY ScriptOrder DEF ForwardScripts
<1> QED
  BY <1>1, <1>2, <1>3, <1>4, <1>5, <1>6 DEF SessionInv

\* A session ends well, and the next one is opened.
LEMMA SessionSucceeds ==
  ASSUME Typing, SessionInv, NEW s \in Dep!Scripts, On(s), Dep!Succeeds(s),
         UNCHANGED <<cutOff, before>>
  PROVE  SessionInv'
<1>1. /\ local.at = s /\ local'.at = Dep!AfterSuccess[s]
      /\ local'.activated <=> (local.activated \/ s = "activate") /\ s \notin {"tidy", "rollback"}
      /\ local'.undone <=> local.undone \/ s = "rollback"
      /\ local'.report = IF s = "tidy" THEN "verified" ELSE local.report
  BY DEF Dep!Succeeds, Typing, TypeOK, Dep!TypeOK
<1>2. \A t \in Dep!Scripts :
        On(t)' <=> (t = local'.at \/ (t # s /\ On(t)))
  BY <1>1, SwitchedOn DEF Dep!Succeeds, Dep!Off, Dep!At
<1>3. local'.at \in {"idle"} \cup Dep!Scripts
  BY <1>1, ScriptOrder DEF ForwardScripts, Replaced
<1>4. Dep!Quiet' <=> local'.at = "idle" /\ \A t \in Dep!Scripts : ~On(t)'
  BY DEF Dep!Quiet, On
<1> HIDE DEF On
<1> USE <1>1, <1>2, <1>3, <1>4, ScriptOrder
<1>5. CASE s \in ForwardScripts
  BY <1>5 DEF SessionInv, ForwardScripts, Replaced
<1>6. CASE s \in {"rollback", "discard"}
  BY <1>6 DEF SessionInv, ForwardScripts, Replaced
<1> QED
  BY <1>5, <1>6

\* A session fails, or its connection is lost, and the local script turns back.
LEMMA SessionErrs ==
  ASSUME Typing, SessionInv, NEW s \in Dep!Scripts, NEW left, Dep!Errs(s, left),
         On(s), cutOff' \in {cutOff, TRUE}, left.at = "off" \/ cutOff' = TRUE,
         UNCHANGED before
  PROVE  SessionInv'
<1>1. /\ local.at = s /\ local'.at = Dep!AfterFailure(s)
      /\ local'.activated <=> local.activated
      /\ local'.undone <=> local.undone
      /\ local'.report = IF s = "discard" THEN local.report
                         ELSE IF s = "rollback" THEN "rollback failed" ELSE "failed"
  BY DEF Dep!Errs, Typing, TypeOK, Dep!TypeOK
<1>2. \A t \in Dep!Scripts :
        On(t)' => (t = local'.at \/ On(t)) /\ (t # s \/ left.at # "off" \/ t = local'.at)
  BY <1>1, SwitchedOn DEF Dep!Errs
<1>3. \A t \in Dep!Scripts : t = local'.at => On(t)'
  BY <1>1, SwitchedOn DEF Dep!Errs
<1>4. Dep!Quiet' <=> local'.at = "idle" /\ \A t \in Dep!Scripts : ~On(t)'
  BY DEF Dep!Quiet, On
<1> HIDE DEF On
<1> USE <1>1, <1>2, <1>3, <1>4, ScriptOrder
<1>5. CASE s \in ForwardScripts
  BY <1>5 DEF SessionInv, ForwardScripts, Replaced, Dep!AfterFailure
<1>6. CASE s \in {"rollback", "discard"}
  BY <1>6 DEF SessionInv, ForwardScripts, Replaced, Dep!AfterFailure
<1> QED
  BY <1>5, <1>6

\* SessionInv holds when there has been no deployment.
LEMMA SessionInit == Init => SessionInv
<1> SUFFICES ASSUME Init PROVE SessionInv
  OBVIOUS
<1>1. /\ local.at = "idle" /\ ~local.activated /\ ~local.undone /\ local.report = "none"
      /\ \A s \in Dep!Scripts : ~On(s)
  BY DEF Init, Dep!NoDeploymentYet, Dep!NoReport, On, Dep!Off, Dep!At
<1>2. {"prepare", "activate", "rollback", "discard"} \cup Replaced \subseteq Dep!Scripts
  BY ScriptOrder DEF ForwardScripts
<1> HIDE DEF On
<1> QED
  BY <1>1, <1>2 DEF SessionInv, ForwardScripts, Replaced

\* SessionInv is kept by every step of either script.
LEMMA SessionStep == Typing /\ SessionInv /\ [Next]_vars => SessionInv'
<1> SUFFICES ASSUME Typing, SessionInv, [Next]_vars PROVE SessionInv'
  OBVIOUS
<1>0. {"prepare", "activate", "rollback", "discard"} \cup Replaced \subseteq Dep!Scripts
  BY ScriptOrder DEF ForwardScripts
<1>1. CASE RunStep
  <2>1. /\ local'.at = "idle" /\ ~local'.activated /\ ~local'.undone /\ local'.report = "none"
        /\ \A s \in Dep!Scripts : ~On(s)'
    BY <1>1 DEF RunStep, Dep!NoReport, Dep!Quiet, On
  <2> HIDE DEF On
  <2> QED
    BY <1>0, <2>1 DEF SessionInv, ForwardScripts, Replaced
<1>2. CASE Dep!Next
  <2>1. ASSUME NEW s \in Dep!Scripts, Moves(s), UNCHANGED <<cutOff, before>>
        PROVE  SessionInv'
    <3>1. CASE Advances(s) \/ Dep!EndsUnheard(s)
      <4>1. UNCHANGED local
        BY <3>1 DEF Advances, Dep!EndsUnheard
      <4> QED
        BY <2>1, <3>1, <4>1, SessionUnheard DEF Moves, Advances
    <3>2. CASE On(s) /\ Dep!Succeeds(s)
      BY <2>1, <3>2, SessionSucceeds
    <3>3. CASE On(s) /\ Dep!Errs(s, Dep!Off)
      <4>1. Dep!Off.at = "off" /\ cutOff' \in {cutOff, TRUE} /\ UNCHANGED before
        BY <2>1 DEF Dep!Off, Dep!At
      <4> QED
        BY <2>1, <3>3, <4>1, SessionErrs
    <3> QED
      BY <2>1, <3>1, <3>2, <3>3 DEF Moves, Dep!Ends, Dep!Breaks
  <2>2. ASSUME NEW s \in Dep!Scripts, Loses(s), cutOff' = TRUE, UNCHANGED before
        PROVE  SessionInv'
    <3>1. CASE On(s) /\ Dep!EndsUnheard(s)
      <4>1. UNCHANGED local
        BY <3>1 DEF Dep!EndsUnheard
      <4> QED
        BY <2>2, <3>1, <4>1, SessionUnheard
    <3>2. CASE On(s) /\ Dep!Errs(s, session[s])
      BY <2>2, <3>2, SessionErrs
    <3>3. CASE On(s) /\ Dep!Errs(s, Dep!Off)
      <4>1. Dep!Off.at = "off"
        BY DEF Dep!Off, Dep!At
      <4> QED
        BY <2>2, <3>3, <4>1, SessionErrs
    <3> QED
      BY <2>2, <3>1, <3>2, <3>3 DEF Loses, Dep!Breaks
  <2>3. CASE Dep!KillLocal
    <3>1. /\ local'.at = "idle" /\ local'.report = "killed" /\ cutOff' = TRUE
          /\ local'.activated = local.activated /\ local'.undone = local.undone
          /\ \A s \in Dep!Scripts : On(s)' <=> On(s)
      BY <2>3 DEF Dep!KillLocal, Dep!Lose, On, Typing, TypeOK, Dep!TypeOK
    <3>2. local.activated \in BOOLEAN /\ local.undone \in BOOLEAN
      BY DEF Typing, TypeOK, Dep!TypeOK
    <3> HIDE DEF On
    <3> QED
      BY <1>0, <3>1, <3>2 DEF SessionInv, ForwardScripts, Replaced
  <2>4. ASSUME NEW c \in Commits, Dep!Start(c)
        PROVE  SessionInv'
    <3>1. /\ local'.at = "prepare" /\ ~local'.activated /\ ~local'.undone
          /\ local'.report = "none"
      BY <2>4 DEF Dep!Start
    <3>2. \A s \in Dep!Scripts : On(s)' <=> s = "prepare"
      BY <2>4 DEF Dep!Start, Dep!Quiet, On, Dep!At, Typing, TypeOK, Dep!TypeOK
    <3> HIDE DEF On
    <3> QED
      BY <1>0, <3>1, <3>2 DEF SessionInv, ForwardScripts, Replaced
  <2>5. ASSUME NEW c \in Commits, Dep!AlreadyDeployed(c)
        PROVE  SessionInv'
    <3>1. /\ local'.at = "idle" /\ local'.report = "already"
          /\ local'.activated = local.activated /\ local'.undone = local.undone
          /\ \A s \in Dep!Scripts : ~On(s)'
      BY <2>5 DEF Dep!AlreadyDeployed, Dep!Quiet, On, Typing, TypeOK, Dep!TypeOK
    <3> HIDE DEF On
    <3> QED
      BY <1>0, <3>1 DEF SessionInv, ForwardScripts, Replaced
  <2> QED
    BY <1>2, <2>1, <2>2, <2>3, <2>4, <2>5, DeploymentMoves
<1>3. CASE UNCHANGED vars
  BY <1>3 DEF vars, deploymentVars, SessionInv, On, Dep!Quiet
<1> QED
  BY <1>1, <1>2, <1>3 DEF Next, DeploymentStep

\* Whereabouts holds when there has been no deployment.
LEMMA WhereaboutsInit == Init => Whereabouts
BY DEF Init, Dep!NoDeploymentYet, Whereabouts, PlacesOf, Dep!Off, Dep!At

\* A session is only at commands of its own script.
LEMMA WhereaboutsStep == Typing /\ SessionInv /\ Whereabouts /\ [Next]_vars => Whereabouts'
<1> SUFFICES ASSUME Typing, SessionInv, Whereabouts, [Next]_vars PROVE Whereabouts'
  OBVIOUS
<1>0. session \in [Dep!Scripts -> SessionState] /\ \A s : {"off", "go"} \subseteq PlacesOf(s)
  BY DEF Typing, TypeOK, Dep!TypeOK, SessionState, PlacesOf
<1>1. CASE Dep!Next
  <2>1. ASSUME NEW s \in Dep!Scripts, Advances(s) PROVE Whereabouts'
    BY <1>0, <2>1 DEF Advances, Whereabouts
  <2>2. ASSUME NEW s \in Dep!Scripts, Dep!EndsUnheard(s) PROVE Whereabouts'
    BY <1>0, <2>2 DEF Dep!EndsUnheard, Whereabouts, Dep!Off, Dep!At
  <2>3. ASSUME NEW s \in Dep!Scripts, NEW left, NEW next, Dep!Switch(s, left, next),
               left.at = "off" \/ left = session[s]
        PROVE  Whereabouts'
    BY <1>0, <2>3 DEF Dep!Switch, Whereabouts, Dep!At
  <2>4. ASSUME NEW s \in Dep!Scripts, Moves(s) \/ Loses(s) PROVE Whereabouts'
    <3>1. Dep!Off.at = "off"
      BY DEF Dep!Off, Dep!At
    <3> QED
      BY <2>1, <2>2, <2>3, <2>4, <3>1
        DEF Moves, Loses, Dep!Ends, Dep!Breaks, Dep!Succeeds, Dep!Errs
  <2>5. CASE Dep!KillLocal \/ \E c \in Commits : Dep!Start(c) \/ Dep!AlreadyDeployed(c)
    <3>1. UNCHANGED session \/ session' = [session EXCEPT !["prepare"] = Dep!At("go")]
      BY <2>5 DEF Dep!KillLocal, Dep!Start, Dep!AlreadyDeployed
    <3> QED
      BY <1>0, <3>1 DEF Whereabouts, Dep!At
  <2> QED
    BY <1>1, <2>4, <2>5, DeploymentMoves
<1>2. CASE RunStep \/ UNCHANGED vars
  BY <1>2 DEF RunStep, vars, deploymentVars, Whereabouts
<1> QED
  BY <1>1, <1>2 DEF Next, DeploymentStep

-----------------------------------------------------------------------------
(* Types.                                                                  *)

UnitFiles == [Units -> Commits \cup {None}]
InDeployment == dep \in Dep!Deploys /\ local.commit \in Commits

\* While a session is on, the deployment has its number and its commit.
LEMMA DeploymentUnderWay ==
  ASSUME Typing, ~Dep!Quiet
  PROVE  InDeployment
BY Constants DEF Typing, TypeOK, Dep!TypeOK, InDeployment, dep, Dep!Deploys

\* What the steps of a deployment leave well typed.
DataTypes ==
  /\ current \in Dep!TreeOrNone
  /\ candidate \in [Dep!Deploys -> Dep!TreeOrNone]
  /\ previous \in [Dep!Deploys -> Dep!TreeOrNone]
  /\ failed \in [Dep!Deploys -> Dep!TreeOrNone]
  /\ units \in UnitFiles
  /\ backup \in [Dep!Deploys -> [DepUnits -> Commits \cup {Unsaved}]]
  /\ faults \in 0 .. MaxFaults
  /\ accepted \subseteq 0 .. MaxDeploys
  /\ cutOff \in BOOLEAN /\ late \in BOOLEAN /\ strayed \in BOOLEAN

\* The type invariant in the parts that the two scripts change.
LEMMA TypesSplit ==
  TypeOK <=> Inst!TypeOK /\ DataTypes /\ local \in LocalState
             /\ session \in [Dep!Scripts -> SessionState] /\ was \in Dep!TreeOrNone
<1>1. Inst!TypeOK => units \in UnitFiles /\ \A u \in DepUnits : units[u] \in Commits \cup {None}
  BY Constants DEF Inst!TypeOK, UnitFiles, Units
<1> QED
  BY <1>1 DEF TypeOK, Dep!TypeOK, DataTypes, LocalState, SessionState, DepUnits, was

\* Faults are bounded.
LEMMA FaultTypes ==
  ASSUME DataTypes, Dep!Fault
  PROVE  faults' \in 0 .. MaxFaults
BY Constants DEF DataTypes, Dep!Fault

\* Forward steps of a deployment keep the types of the data.
LEMMA DeployStepTypes ==
  ASSUME DataTypes, InDeployment, Dep!DeployStep
  PROVE  DataTypes'
<1> USE DEF DataTypes, InDeployment, dep, Dep!dep, Dep!treeVars, Dep!unitVars, Dep!historyVars
<1>0. /\ MaxDeploys \in Nat /\ Commits \subseteq UNION {Commits \cup {None}}
      /\ \A t \in Dep!TreeOrNone : t # None => t \in Dep!Tree
      /\ Dep!Tree \subseteq Dep!TreeOrNone /\ None \in Dep!TreeOrNone
  BY Constants DEF Dep!TreeOrNone
<1>1. CASE Dep!Prepare
  <2>1. [commit |-> local.commit, by |-> local.d, sha |-> None, proof |-> None] \in Dep!Tree
    BY DEF Dep!Tree, Dep!Deploys
  <2> QED
    BY <1>0, <1>1, <2>1 DEF Dep!Prepare
<1>2. CASE Dep!CheckTrees \/ Dep!NoUnitToSave \/ Dep!OpenInstall \/ Dep!NoUnitToInstall
           \/ Dep!Restart \/ Dep!RecordBranch \/ Dep!Verify \/ Dep!Tidy
  BY <1>2 DEF Dep!CheckTrees, Dep!NoUnitToSave, Dep!OpenInstall, Dep!NoUnitToInstall, Dep!Restart,
     Dep!RecordBranch, Dep!Verify, Dep!Tidy
<1>3. CASE Dep!MoveCurrent
  BY <1>0, <1>3 DEF Dep!MoveCurrent
<1>4. CASE Dep!PlaceCandidate
  BY <1>0, <1>4 DEF Dep!PlaceCandidate
<1>5. CASE Dep!RestoreOnError
  BY <1>0, <1>5 DEF Dep!RestoreOnError
<1>6. CASE Dep!Accept
  <2>1. Dep!HasAdapter => current.by \in 0 .. MaxDeploys
    BY <1>0 DEF Dep!HasAdapter, Dep!Tree
  <2> QED
    BY <1>6, <2>1 DEF Dep!Accept
<1>7. CASE Dep!RecordProof
  <2>1. current # None => [current EXCEPT !.proof = local.commit] \in Dep!Tree
    BY <1>0 DEF Dep!Tree
  <2>2. strayed' \in BOOLEAN
    BY <1>7 DEF Dep!RecordProof, Dep!Writes
  <2> QED
    BY <1>0, <1>7, <2>1, <2>2 DEF Dep!RecordProof, Dep!Writes
<1>8. CASE Dep!RecordSha
  <2>1. current # None => [current EXCEPT !.sha = local.commit] \in Dep!Tree
    BY <1>0 DEF Dep!Tree
  <2>2. strayed' \in BOOLEAN
    BY <1>8 DEF Dep!RecordSha, Dep!Writes
  <2> QED
    BY <1>0, <1>8, <2>1, <2>2 DEF Dep!RecordSha, Dep!Writes
<1>9. CASE Dep!Discard
  BY <1>0, <1>9 DEF Dep!Discard
<1>10. ASSUME NEW u \in DepUnits, Dep!SaveUnit(u) PROVE DataTypes'
  <2>1. units[u] \in Commits
    BY <1>10, Constants DEF Dep!SaveUnit, UnitFiles
  <2> QED
    BY <1>10, <2>1 DEF Dep!SaveUnit
<1>11. ASSUME NEW u \in DepUnits, Dep!InstallUnit(u) PROVE DataTypes'
  <2>1. current.commit \in Commits
    BY <1>0, <1>11 DEF Dep!InstallUnit, Dep!Tree
  <2> QED
    BY <1>11, <2>1 DEF Dep!InstallUnit, UnitFiles
<1>12. ASSUME NEW u \in DepUnits, Dep!InstallLate(u) PROVE DataTypes'
  BY <1>12 DEF Dep!InstallLate, UnitFiles
<1>13. CASE Dep!PassOverRecord
  <2>1. faults' \in 0 .. MaxFaults
    BY <1>13, FaultTypes DEF Dep!PassOverRecord
  <2> QED
    BY <1>13, <2>1 DEF Dep!PassOverRecord
<1> QED
  BY <1>1, <1>2, <1>3, <1>4, <1>5, <1>6, <1>7, <1>8, <1>9, <1>10, <1>11, <1>12, <1>13
    DEF Dep!DeployStep, DepUnits

\* So do those of its rollback.
LEMMA RollbackStepTypes ==
  ASSUME DataTypes, InDeployment, Dep!RollbackStep
  PROVE  DataTypes'
<1> USE DEF DataTypes, InDeployment, dep, Dep!dep, Dep!treeVars, Dep!unitVars, Dep!historyVars
<1>0. None \in Dep!TreeOrNone
  BY DEF Dep!TreeOrNone
<1>1. CASE Dep!MoveAway
  BY <1>0, <1>1 DEF Dep!MoveAway
<1>4. CASE Dep!MoveBack
  <2>1. previous[local.d] \in Dep!TreeOrNone
    OBVIOUS
  <2> QED
    BY <1>0, <1>4, <2>1 DEF Dep!MoveBack
<1>5. CASE Dep!RestartPrevious \/ Dep!Doctor
  BY <1>5 DEF Dep!RestartPrevious, Dep!Doctor
<1>2. CASE Dep!CleanUp
  BY <1>0, <1>2 DEF Dep!CleanUp, DepUnits
<1>3. ASSUME NEW u \in DepUnits, Dep!RestoreUnit(u) PROVE DataTypes'
  <2>1. backup[local.d][u] \in Commits
    BY <1>3 DEF Dep!RestoreUnit
  <2> QED
    BY <1>3, <2>1 DEF Dep!RestoreUnit, UnitFiles
<1> QED
  BY <1>1, <1>2, <1>3, <1>4, <1>5 DEF Dep!RollbackStep, DepUnits

-----------------------------------------------------------------------------
(* How a run of install.sh moves.                                          *)

RunPlaces == {"idle"} \cup Inst!InstallPlaces \cup Inst!RollbackPlaces \cup Inst!WithdrawPlaces
SameRun ==
  run'.mode = run.mode /\ run'.version = run.version /\ (run'.activated <=> run.activated)

\* All places, for whoever must tell them apart.
LEMMA RunPlaceNames ==
  RunPlaces =
    {"idle", "stage", "clear", "save", "drop", "move", "place", "mark", "units", "restart",
     "doctor", "setup", "stop", "away", "back", "restore", "start", "examine", "clean",
     "remove", "withdraw", "withdrawn"}
BY DEF RunPlaces, Inst!InstallPlaces, Inst!RollbackPlaces, Inst!WithdrawPlaces

\* A command that ends, and the run goes on at another place.
LEMMA RunGoesTo ==
  ASSUME run \in Inst!RunState, NEW place \in RunPlaces, Inst!Goto(place)
  PROVE  /\ run' \in Inst!RunState
         /\ run'.at = place /\ run'.turn = 1 /\ SameRun /\ run'.outcome = run.outcome
<1>1. 1 \in 1 .. Len(Installed)
  BY Constants
<1>2. run' = [run EXCEPT !.at = place, !.turn = 1]
  BY DEF Inst!Goto
<1> QED
  BY <1>1, <1>2 DEF Inst!RunState, RunPlaces, SameRun

\* The end of a run.
LEMMA RunEnds ==
  ASSUME run \in Inst!RunState, NEW outcome \in Inst!Outcomes, Inst!End(outcome)
  PROVE  /\ run' \in Inst!RunState
         /\ run'.at = "idle" /\ run'.mode = run.mode /\ run'.version = run.version
         /\ ~run'.activated /\ run'.outcome = outcome
<1>1. 1 \in 1 .. Len(Installed)
  BY Constants
<1> QED
  BY <1>1 DEF Inst!End, Inst!RunState

\* One turn of a loop over what is installed.
LEMMA RunLoops ==
  ASSUME run \in Inst!RunState, NEW place \in RunPlaces, NEW u, NEW next \in RunPlaces,
         Inst!Loop(place, u, next)
  PROVE  /\ run.at = place /\ u = Installed[run.turn] /\ run.turn \in 1 .. Len(Installed)
         /\ run' \in Inst!RunState /\ SameRun /\ run'.outcome = run.outcome
         /\ \/ run.turn = Len(Installed) /\ run'.at = next /\ run'.turn = 1
            \/ run.turn < Len(Installed) /\ run'.at = place /\ run'.turn = run.turn + 1
<1>1. run.at = place /\ u = Installed[run.turn] /\ run.turn \in 1 .. Len(Installed)
  BY DEF Inst!Loop, Inst!RunState
<1>2. CASE run.turn = Len(Installed)
  BY <1>1, <1>2, RunGoesTo DEF Inst!Loop
<1>3. CASE run.turn # Len(Installed)
  <2>1. run' = [run EXCEPT !.turn = run.turn + 1]
    BY <1>3 DEF Inst!Loop
  <2>2. run.turn < Len(Installed) /\ run.turn + 1 \in 1 .. Len(Installed)
    <3>1. Len(Installed) \in Nat
      BY Constants
    <3> QED
      BY <1>1, <1>3, <3>1
  <2> QED
    BY <1>1, <2>1, <2>2 DEF Inst!RunState, SameRun
<1> QED
  BY <1>2, <1>3

\* The end of a run that fails, or what it does first.
LEMMA RunExits ==
  ASSUME run \in Inst!RunState, Inst!InstallExit
  PROVE  /\ run' \in Inst!RunState
         /\ run'.version = run.version
         /\ \/ /\ run.activated /\ kept # None
               /\ run'.at = "stop" /\ run'.mode = "recover" /\ run'.outcome = run.outcome
            \/ /\ run.activated /\ kept = None
               /\ run'.at = "remove" /\ run'.mode = run.mode /\ run'.outcome = run.outcome
            \/ /\ ~run.activated
               /\ run'.at = "idle" /\ run'.mode = run.mode /\ run'.outcome = "failed"
<1>1. 1 \in 1 .. Len(Installed)
  BY Constants
<1>2. CASE run.activated /\ kept # None
  <2>1. run' = [run EXCEPT !.at = "stop", !.mode = "recover", !.turn = 1]
    BY <1>2 DEF Inst!InstallExit
  <2> QED
    BY <1>1, <1>2, <2>1 DEF Inst!RunState, Inst!RollbackPlaces
<1>3. CASE run.activated /\ kept = None
  <2>1. Inst!Goto("remove")
    BY <1>3 DEF Inst!InstallExit
  <2> QED
    BY <1>3, <2>1, RunGoesTo, RunPlaceNames DEF SameRun
<1>4. CASE ~run.activated
  BY <1>4, RunEnds DEF Inst!InstallExit, Inst!Outcomes
<1> QED
  BY <1>2, <1>3, <1>4

\* A run begins.
LEMMA RunBegins ==
  ASSUME NEW mode \in {"install", "rollback"}, NEW version \in Inst!Trees, NEW place \in RunPlaces,
         Inst!Begin(mode, version, place)
  PROVE  /\ run' \in Inst!RunState
         /\ run'.at = place /\ run'.mode = mode /\ run'.version = version /\ ~run'.activated
         /\ run'.outcome = "none" /\ run'.turn = 1
<1>1. 1 \in 1 .. Len(Installed)
  BY Constants
<1> QED
  BY <1>1 DEF Inst!Begin, Inst!RunState, Inst!Outcomes, RunPlaces

\* What the steps of a run leave well typed, beside the run.
RunTypes ==
  /\ current \in Inst!Trees /\ kept \in Inst!Trees
  /\ aside \subseteq (Inst!Trees \ {None}) \X (1 .. MaxRuns)
  /\ units \in UnitFiles
  /\ unitBackup \in [Units -> Commits \cup {None, Unsaved}]
  /\ checked \in {"nothing", "ready", "sound"}
  /\ runs \in 0 .. MaxRuns /\ faults \in 0 .. MaxFaults
  /\ proven \subseteq Inst!Trees
  /\ worn \in [tree : Inst!Trees, units : UnitFiles]
  /\ apart \in BOOLEAN /\ slipped \in BOOLEAN /\ cut \in BOOLEAN

\* The type invariant of install.sh, with the run's state apart.
LEMMA RunTypesSplit == Inst!TypeOK <=> RunTypes /\ run \in Inst!RunState
BY DEF Inst!TypeOK, RunTypes, UnitFiles, Units

\* What the invariants need to know of a run.
RunTyping ==
  /\ Inst!TypeOK
  /\ run.at # "idle" => runs > 0
  /\ run.at \in Inst!InstallPlaces => run.version \in Releases
  /\ run.at \in {"mark", "units"} => current \in Releases

\* Steps of an installation keep the types.
LEMMA InstallStepTypes ==
  ASSUME RunTyping, Inst!InstallStep
  PROVE  RunTyping'
<1>0. /\ RunTypes /\ run \in Inst!RunState
      /\ run.at # "idle" => runs > 0
      /\ run.at \in Inst!InstallPlaces => run.version \in Releases
      /\ run.at \in {"mark", "units"} => current \in Releases
  BY RunTypesSplit DEF RunTyping
<1>00. /\ Releases \subseteq Inst!Trees /\ None \in Inst!Trees
       /\ \A v \in Releases, u \in Units : Brings[v][u] \in Commits \cup {None}
       /\ [u \in Units |-> Unsaved] \in [Units -> Commits \cup {None, Unsaved}]
  BY Constants DEF Inst!Trees
<1> DEFINE TypedStep ==
      /\ RunTypes' /\ run' \in Inst!RunState
      /\ runs' = runs /\ run.at # "idle"
      /\ run'.at \in Inst!InstallPlaces =>
           run'.version = run.version /\ run.at \in Inst!InstallPlaces
      /\ run'.at \in {"mark", "units"} => current' \in Releases
<1> SUFFICES TypedStep
  BY <1>0 DEF RunTyping, RunTypes, Inst!TypeOK, UnitFiles, Units
<1> USE DEF Inst!InstallPlaces, Inst!RollbackPlaces, SameRun, Inst!treeVars, Inst!unitVars,
            Inst!historyVars, RunTypes
<1> USE RunPlaceNames
<1>1. CASE Inst!Stage
  <2>1. Inst!Goto("clear")
    BY <1>1 DEF Inst!Stage
  <2>2. run' \in Inst!RunState /\ SameRun /\ run'.at = "clear"
    BY <1>0, <2>1, RunGoesTo
  <2> QED
    BY <1>0, <1>1, <2>2 DEF Inst!Stage
<1>2. CASE Inst!ClearUnitBackup
  <2>1. Inst!Goto("save")
    BY <1>2 DEF Inst!ClearUnitBackup
  <2>2. run' \in Inst!RunState /\ SameRun /\ run'.at = "save"
    BY <1>0, <2>1, RunGoesTo
  <2> QED
    BY <1>0, <1>00, <1>2, <2>2 DEF Inst!ClearUnitBackup, Units
<1>3. CASE Inst!DropPrevious
  <2>1. Inst!Goto("move")
    BY <1>3 DEF Inst!DropPrevious
  <2>2. run' \in Inst!RunState /\ SameRun /\ run'.at = "move"
    BY <1>0, <2>1, RunGoesTo
  <2> QED
    BY <1>0, <1>00, <1>3, <2>2 DEF Inst!DropPrevious
<1>4. CASE Inst!MoveInstalled
  <2>1. Inst!Goto("place")
    BY <1>4 DEF Inst!MoveInstalled
  <2>2. run' \in Inst!RunState /\ SameRun /\ run'.at = "place"
    BY <1>0, <2>1, RunGoesTo
  <2> QED
    BY <1>0, <1>00, <1>4, <2>2 DEF Inst!MoveInstalled
<1>5. CASE Inst!PlaceStage
  <2>1. Inst!Goto("mark")
    BY <1>5 DEF Inst!PlaceStage
  <2>2. run' \in Inst!RunState /\ SameRun /\ run'.at = "mark"
    BY <1>0, <2>1, RunGoesTo
  <2> QED
    BY <1>0, <1>00, <1>5, <2>2 DEF Inst!PlaceStage
<1>6. CASE Inst!MarkActivated
  <2>2. run' \in Inst!RunState /\ run'.version = run.version /\ run'.at = "units"
    BY <1>0, <1>6 DEF Inst!MarkActivated, Inst!RunState
  <2> QED
    BY <1>0, <1>6, <2>2 DEF Inst!MarkActivated
<1>7. CASE Inst!RestartRuntime \/ Inst!Doctor
  <2>1. \/ run.at = "restart" /\ Inst!Goto("doctor")
        \/ run.at = "start" /\ Inst!Goto("examine")
        \/ run.at = "doctor" /\ Inst!Goto("setup")
        \/ run.at = "examine" /\ Inst!Goto("clean")
    BY <1>7 DEF Inst!RestartRuntime, Inst!Doctor
  <2>2. \E at \in {"doctor", "examine", "setup", "clean"} :
          run' \in Inst!RunState /\ SameRun /\ run'.at = at
    BY <1>0, <2>1, RunGoesTo
  <2>3. run'.at \in Inst!InstallPlaces => run.at \in Inst!InstallPlaces
    BY <1>0, <2>1, RunGoesTo
  <2> QED
    BY <1>0, <1>7, <2>1, <2>2, <2>3 DEF Inst!RestartRuntime, Inst!Doctor
<1>8. CASE Inst!FinishInstall
  <2>1. Inst!End("installed")
    BY <1>8 DEF Inst!FinishInstall
  <2>2. run' \in Inst!RunState /\ run'.at = "idle"
    BY <1>0, <2>1, RunEnds DEF Inst!Outcomes
  <2>3. proven' \subseteq Inst!Trees /\ cut' \in BOOLEAN
    BY <1>0, <1>8 DEF Inst!FinishInstall, Inst!Verified
  <2>4. unitBackup' \in [Units -> Commits \cup {None, Unsaved}]
    BY <1>0, <1>00, <1>8 DEF Inst!FinishInstall, Units
  <2> QED
    BY <1>0, <1>8, <2>2, <2>3, <2>4 DEF Inst!FinishInstall, Inst!Verified
<1>9. ASSUME NEW u \in Units, Inst!SaveUnit(u)
      PROVE  TypedStep
  <2>1. Inst!Loop("save", u, "drop")
    BY <1>9 DEF Inst!SaveUnit
  <2>2. run' \in Inst!RunState /\ SameRun /\ run.at = "save" /\ run'.at \in {"save", "drop"}
    BY <1>0, <2>1, RunLoops
  <2>3. unitBackup' \in [Units -> Commits \cup {None, Unsaved}]
    BY <1>0, <1>9 DEF Inst!SaveUnit, UnitFiles
  <2> QED
    BY <1>0, <1>9, <2>2, <2>3 DEF Inst!SaveUnit
<1>10. ASSUME NEW u \in Units, Inst!InstallUnit(u)
       PROVE  TypedStep
  <2>1. Inst!Loop("units", u, "restart")
    BY <1>10 DEF Inst!InstallUnit
  <2>2. run' \in Inst!RunState /\ SameRun /\ run.at = "units" /\ run'.at \in {"units", "restart"}
    BY <1>0, <2>1, RunLoops
  <2>3. units' \in UnitFiles
    BY <1>0, <1>00, <1>10, <2>2 DEF Inst!InstallUnit, UnitFiles
  <2> QED
    BY <1>0, <1>10, <2>2, <2>3 DEF Inst!InstallUnit
<1> QED
  BY <1>1, <1>2, <1>3, <1>4, <1>5, <1>6, <1>7, <1>8, <1>9, <1>10 DEF Inst!InstallStep, Units

\* So do those of the rollback and of the withdrawal.
LEMMA WithdrawStepTypes ==
  ASSUME RunTyping, Inst!RollbackStep
  PROVE  RunTyping'
<1>0. /\ RunTypes /\ run \in Inst!RunState
      /\ run.at # "idle" => runs > 0
      /\ None \in Inst!Trees
      /\ [u \in Units |-> Unsaved] \in [Units -> Commits \cup {None, Unsaved}]
      /\ MaxFaults \in Nat
  BY Constants, RunTypesSplit DEF RunTyping, Inst!Trees
<1> DEFINE TypedStep ==
      /\ RunTypes' /\ run' \in Inst!RunState
      /\ runs' = runs /\ run.at # "idle"
      /\ run'.at \in {"idle"} \cup Inst!RollbackPlaces \cup Inst!WithdrawPlaces
<1> SUFFICES TypedStep
  BY <1>0, RunPlaceNames
    DEF RunTyping, RunTypes, Inst!TypeOK, UnitFiles, Units, Inst!InstallPlaces, Inst!RollbackPlaces,
        Inst!WithdrawPlaces
<1> USE DEF Inst!RollbackPlaces, Inst!WithdrawPlaces, SameRun, Inst!treeVars, Inst!unitVars,
            Inst!historyVars, RunTypes
<1> USE RunPlaceNames
<1>1. CASE Inst!StopServices
  <2>1. Inst!Goto("away")
    BY <1>1 DEF Inst!StopServices
  <2>2. run' \in Inst!RunState /\ run'.at = "away"
    BY <1>0, <2>1, RunGoesTo
  <2> QED
    BY <1>0, <1>1, <2>2 DEF Inst!StopServices
<1>2. CASE Inst!MoveAway
  <2>1. Inst!Goto("back")
    BY <1>2 DEF Inst!MoveAway
  <2>2. run' \in Inst!RunState /\ run'.at = "back"
    BY <1>0, <2>1, RunGoesTo
  <2>3. aside' \subseteq (Inst!Trees \ {None}) \X (1 .. MaxRuns)
    <3>1. runs \in 1 .. MaxRuns
      BY <1>0, <1>2, Constants DEF Inst!MoveAway
    <3> QED
      BY <1>0, <1>2, <3>1 DEF Inst!MoveAway
  <2> QED
    BY <1>0, <1>2, <2>2, <2>3 DEF Inst!MoveAway
<1>3. CASE Inst!MoveBack
  <2>1. Inst!Goto("restore")
    BY <1>3 DEF Inst!MoveBack
  <2>2. run' \in Inst!RunState /\ run'.at = "restore"
    BY <1>0, <2>1, RunGoesTo
  <2> QED
    BY <1>0, <1>3, <2>2 DEF Inst!MoveBack
<1>4. CASE Inst!NothingToMoveBack
  <2>2. run' \in Inst!RunState /\ run'.at = "idle"
    BY <1>0, <1>4, RunEnds DEF Inst!Outcomes, Inst!NothingToMoveBack
  <2> QED
    BY <1>0, <1>4, <2>2 DEF Inst!NothingToMoveBack
<1>5. CASE Inst!PassOverDoctor
  <2>1. Inst!Goto("clean")
    BY <1>5 DEF Inst!PassOverDoctor
  <2>2. run' \in Inst!RunState /\ run'.at = "clean"
    BY <1>0, <2>1, RunGoesTo
  <2> QED
    BY <1>0, <1>5, <2>2 DEF Inst!PassOverDoctor, Inst!Fault
<1>6. CASE Inst!CleanUp
  <2>2. run' \in Inst!RunState /\ run'.at = "idle"
    BY <1>0, <1>6, RunEnds DEF Inst!Outcomes, Inst!CleanUp
  <2>3. proven' \subseteq Inst!Trees /\ cut' \in BOOLEAN
    BY <1>0, <1>6 DEF Inst!CleanUp, Inst!Verified
  <2> QED
    BY <1>0, <1>6, <2>2, <2>3 DEF Inst!CleanUp, Inst!Verified, Units
<1>7. CASE Inst!RemoveInstalled
  <2>1. Inst!Goto("withdraw")
    BY <1>7 DEF Inst!RemoveInstalled
  <2>2. run' \in Inst!RunState /\ run'.at = "withdraw"
    BY <1>0, <2>1, RunGoesTo
  <2> QED
    BY <1>0, <1>7, <2>2 DEF Inst!RemoveInstalled
<1>8. CASE Inst!Withdrawn
  <2>2. run' \in Inst!RunState /\ run'.at = "idle"
    BY <1>0, <1>8, RunEnds DEF Inst!Outcomes, Inst!Withdrawn
  <2> QED
    BY <1>0, <1>8, <2>2 DEF Inst!Withdrawn
<1>9. ASSUME NEW u \in Units, Inst!RestoreUnit(u) \/ Inst!PassOver(u)
      PROVE  TypedStep
  <2>1. Inst!Loop("restore", u, "start") \/ Inst!Loop("withdraw", u, "withdrawn")
    BY <1>9 DEF Inst!RestoreUnit, Inst!PassOver
  <2>2. /\ run' \in Inst!RunState /\ run.at # "idle"
        /\ run'.at \in {"restore", "start", "withdraw", "withdrawn"}
    BY <1>0, <2>1, RunLoops
  <2>3. CASE Inst!RestoreUnit(u)
    <3>1. units' \in UnitFiles
      BY <1>0, <2>3 DEF Inst!RestoreUnit, UnitFiles
    <3> QED
      BY <1>0, <2>2, <2>3, <3>1 DEF Inst!RestoreUnit
  <2>4. CASE Inst!PassOver(u)
    BY <1>0, <2>2, <2>4 DEF Inst!PassOver, Inst!Fault
  <2> QED
    BY <1>9, <2>3, <2>4
<1> QED
  BY <1>1, <1>2, <1>3, <1>4, <1>5, <1>6, <1>7, <1>8, <1>9 DEF Inst!RollbackStep, Units

\* So does every step of install.sh.
LEMMA RunStepTypes ==
  ASSUME RunTyping, Inst!Next
  PROVE  RunTyping'
<1>0. /\ RunTypes /\ run \in Inst!RunState
      /\ run.at # "idle" => runs > 0
      /\ Releases \subseteq Inst!Trees /\ None \in Inst!Trees
      /\ MaxFaults \in Nat /\ MaxRuns \in Nat
  BY Constants, RunTypesSplit DEF RunTyping, Inst!Trees
<1> USE DEF SameRun, Inst!treeVars, Inst!unitVars, Inst!historyVars
<1> USE RunPlaceNames
<1>1. ASSUME NEW v \in Releases, Inst!Install(v)
      PROVE  RunTyping'
  <2>1. run' \in Inst!RunState /\ run'.at = "stage" /\ run'.version = v
    BY <1>0, <1>1, RunBegins DEF Inst!Install
  <2>2. RunTypes' /\ runs' > 0
    <3>1. runs' \in 0 .. MaxRuns /\ runs' > 0
      <4>1. runs \in 0 .. MaxRuns /\ runs < MaxRuns /\ runs' = runs + 1
        BY <1>0, <1>1 DEF Inst!Install, Inst!Begin, RunTypes
      <4> QED
        BY <1>0, <4>1
    <3>2. slipped' \in BOOLEAN /\ UNCHANGED <<current, kept, aside, units, unitBackup, checked,
                                            faults, proven, worn, apart, cut>>
      BY <1>1 DEF Inst!Install, Inst!Begin
    <3> QED
      BY <1>0, <3>1, <3>2 DEF RunTypes
  <2> QED
    BY <2>1, <2>2 DEF RunTyping, RunTypes, Inst!TypeOK, UnitFiles, Units
<1>2. CASE Inst!Rollback
  <2>1. run' \in Inst!RunState /\ run'.at = "stop"
    BY <1>0, <1>2, RunBegins DEF Inst!Rollback
  <2>2. RunTypes' /\ runs' > 0
    <3>1. runs' \in 0 .. MaxRuns /\ runs' > 0
      <4>1. runs \in 0 .. MaxRuns /\ runs < MaxRuns /\ runs' = runs + 1
        BY <1>0, <1>2 DEF Inst!Rollback, Inst!Begin, RunTypes
      <4> QED
        BY <1>0, <4>1
    <3>2. slipped' \in BOOLEAN /\ UNCHANGED <<current, kept, aside, units, unitBackup, checked,
                                            faults, proven, worn, apart, cut>>
      BY <1>2 DEF Inst!Rollback, Inst!Begin
    <3> QED
      BY <1>0, <3>1, <3>2 DEF RunTypes
  <2> QED
    BY <2>1, <2>2 DEF RunTyping, RunTypes, Inst!TypeOK, UnitFiles, Units, Inst!InstallPlaces
<1>3. ASSUME Inst!StepFails \/ Inst!Interrupt \/ Inst!Kill
      PROVE  RunTyping'
  <2>1. run' \in Inst!RunState /\ run.at # "idle" /\ run'.at \notin Inst!InstallPlaces
    <3>1. CASE Inst!InstallExit /\ run.at # "idle"
      BY <1>0, <3>1, RunExits DEF Inst!InstallPlaces
    <3>2. CASE (Inst!End("failed") \/ Inst!End("killed")) /\ run.at # "idle"
      BY <1>0, <3>2, RunEnds DEF Inst!InstallPlaces, Inst!Outcomes
    <3> QED
      BY <1>3, <3>1, <3>2
        DEF Inst!StepFails, Inst!Fails, Inst!Interrupt, Inst!Kill, Inst!InstallPlaces
  <2>2. RunTypes' /\ runs' = runs
    <3>1. cut' \in BOOLEAN
      BY <1>0, <1>3 DEF Inst!StepFails, Inst!Interrupt, Inst!Kill, Inst!Disturb, RunTypes
    <3> QED
      BY <1>0, <1>3, <3>1
        DEF Inst!StepFails, Inst!Interrupt, Inst!Kill, Inst!Disturb, Inst!Fault, RunTypes
  <2> QED
    BY <1>0, <2>1, <2>2 DEF RunTyping, RunTypes, Inst!TypeOK, UnitFiles, Units, Inst!InstallPlaces
<1> QED
  BY <1>1, <1>2, <1>3, InstallStepTypes, WithdrawStepTypes DEF Inst!Next

\* Typing holds at first, and nothing runs.
LEMMA TypingInit == Init => Typing /\ OneAtATime
<1> SUFFICES ASSUME Init PROVE Typing /\ OneAtATime
  OBVIOUS
<1>0. /\ None \in Dep!TreeOrNone /\ Inst!Trees = Dep!TreeOrNone /\ None \in Inst!Trees
      /\ 1 \in 1 .. Len(Installed) /\ 1 \in 1 .. Len(Deployed)
      /\ 0 \in 0 .. MaxRuns /\ 0 \in 0 .. MaxDeploys /\ 0 \in 0 .. MaxFaults
  BY Constants DEF Dep!TreeOrNone
<1>1. Dep!NoDeploymentYet /\ Inst!NoRunYet
  BY DEF Init, Inst!Init
<1>2. current \in Dep!TreeOrNone /\ units \in UnitFiles
  <2>1. CASE Inst!Init
    BY <1>0, <2>1 DEF Inst!Init, UnitFiles, Units
  <2>2. CASE Dep!Found(Inst!Units)
    <3>1. PICK c \in Commits, recorded \in Commits \cup {None} :
            /\ current = [commit |-> c, by |-> 0, sha |-> recorded, proof |-> recorded]
            /\ units = [u \in Inst!Units |-> c]
      BY <2>2 DEF Dep!Found
    <3> QED
      BY <1>0, <3>1 DEF UnitFiles, Units, Dep!TreeOrNone, Dep!Tree
  <2> QED
    BY <2>1, <2>2 DEF Init
<1>3. RunTypes
  BY <1>0, <1>1, <1>2 DEF Inst!NoRunYet, RunTypes, Units
<1>4. run \in Inst!RunState /\ run.at = "idle"
  BY <1>0, <1>1 DEF Inst!NoRunYet, Inst!Idle, Inst!RunState, Inst!Outcomes
<1>5. DataTypes
  BY <1>0, <1>1, <1>2 DEF Dep!NoDeploymentYet, DataTypes, DepUnits
<1>6. local \in LocalState /\ local = Dep!NoReport(0)
  BY <1>0, <1>1 DEF Dep!NoDeploymentYet, Dep!NoReport, LocalState, Dep!Reports
<1>7. session \in [Dep!Scripts -> SessionState] /\ Dep!Quiet
  BY <1>0, <1>1, <1>6
    DEF Dep!NoDeploymentYet, Dep!Off, Dep!At, SessionState, Dep!Places, Dep!Quiet, Dep!NoReport
<1>8. before \in [tree : Dep!TreeOrNone, units : UnitFiles]
  BY <1>1, <1>2 DEF Dep!NoDeploymentYet
<1>9. TypeOK
  BY <1>3, <1>4, <1>5, <1>6, <1>7, <1>8, RunTypesSplit, TypesSplit DEF was
<1> QED
  BY <1>4, <1>7, <1>8, <1>9 DEF Typing, OneAtATime, Inst!InstallPlaces, UnitFiles

\* Deployments.
LEMMA DeploymentTypes ==
  ASSUME Typing, SessionInv, Dep!Next
  PROVE  /\ DataTypes' /\ local' \in LocalState /\ session' \in [Dep!Scripts -> SessionState]
         /\ before' \in [tree : Dep!TreeOrNone, units : UnitFiles]
         /\ ~Dep!Quiet' => local'.commit \in Commits /\ local'.d > 0
<1>0. /\ DataTypes /\ local \in LocalState /\ session \in [Dep!Scripts -> SessionState]
      /\ before \in [tree : Dep!TreeOrNone, units : UnitFiles]
      /\ MaxFaults \in Nat /\ MaxDeploys \in Nat
      /\ "prepare" \in Dep!Scripts
      /\ Dep!At("go") \in SessionState
  BY TypesSplit, Constants, ScriptOrder
    DEF Typing, UnitFiles, ForwardScripts, Dep!At, SessionState, Dep!Places
<1> USE DEF Dep!treeVars, Dep!unitVars, Dep!historyVars
<1>1. ASSUME NEW c \in Commits, Dep!Start(c)
      PROVE  /\ DataTypes' /\ local' \in LocalState
             /\ session' \in [Dep!Scripts -> SessionState]
             /\ before' \in [tree : Dep!TreeOrNone, units : UnitFiles]
             /\ local'.commit \in Commits /\ local'.d > 0
  <2>1. local.d + 1 \in 0 .. MaxDeploys /\ local.d + 1 > 0
    <3>1. local.d \in 0 .. MaxDeploys /\ local.d < MaxDeploys
      BY <1>0, <1>1 DEF Dep!Start, Dep!dep, LocalState
    <3> QED
      BY <1>0, <3>1
  <2>2. current # None => current.sha \in Commits \cup {None}
    BY <1>0 DEF DataTypes, Dep!TreeOrNone, Dep!Tree
  <2>3. DataTypes'
    BY <1>0, <1>1 DEF Dep!Start, DataTypes
  <2>4. local' \in LocalState /\ local'.commit \in Commits /\ local'.d > 0
    BY <1>0, <1>1, <2>1, <2>2 DEF Dep!Start, Dep!dep, LocalState, Dep!Reports
  <2> QED
    BY <1>0, <1>1, <2>3, <2>4 DEF Dep!Start, DataTypes
<1>2. ASSUME NEW c \in Commits, Dep!AlreadyDeployed(c)
      PROVE  /\ DataTypes' /\ local' \in LocalState
             /\ session' \in [Dep!Scripts -> SessionState]
             /\ UNCHANGED before /\ Dep!Quiet'
  <2>1. DataTypes'
    BY <1>0, <1>2 DEF Dep!AlreadyDeployed, DataTypes
  <2>2. local' \in LocalState
    BY <1>0, <1>2 DEF Dep!AlreadyDeployed, LocalState, Dep!Reports
  <2> QED
    BY <1>0, <1>2, <2>1, <2>2 DEF Dep!AlreadyDeployed, Dep!Quiet, LocalState
<1>3. CASE Dep!KillLocal
  <2>1. DataTypes'
    <3>1. faults' \in 0 .. MaxFaults
      BY <1>0, <1>3, FaultTypes DEF Dep!KillLocal, Dep!Lose
    <3> QED
      BY <1>0, <1>3, <3>1 DEF Dep!KillLocal, Dep!Lose, DataTypes
  <2>2. local' \in LocalState /\ local'.commit = local.commit /\ local'.d = local.d
    BY <1>0, <1>3 DEF Dep!KillLocal, LocalState, Dep!Reports
  <2>3. local.commit \in Commits /\ local.d > 0
    BY <1>3 DEF Typing, Dep!KillLocal, Dep!Quiet, dep
  <2> QED
    BY <1>0, <1>3, <2>1, <2>2, <2>3 DEF Dep!KillLocal, Dep!Lose
<1>4. CASE \E s \in Dep!Scripts : Moves(s) \/ Loses(s)
  <2>1. ~Dep!Quiet
    BY <1>4 DEF Moves, Loses, Advances, On, Dep!Quiet
  <2>2. InDeployment /\ local.d > 0
    BY <2>1, DeploymentUnderWay DEF Typing, dep
  <2>3. /\ local' \in LocalState /\ session' \in [Dep!Scripts -> SessionState]
        /\ local'.d = local.d /\ local'.commit = local.commit
    BY <1>4, LocalTypes
  <2>4. DataTypes'
    <3>1. CASE Dep!DeployStep \/ Dep!RollbackStep
      BY <1>0, <2>2, <3>1, DeployStepTypes, RollbackStepTypes
    <3>2. ASSUME NEW s \in Dep!Scripts, Dep!StepFails(s) \/ Dep!Disconnect(s) \/ Dep!Die(s)
          PROVE  DataTypes'
      <4>1. faults' \in 0 .. MaxFaults
        BY <1>0, <3>2, FaultTypes DEF Dep!StepFails, Dep!Disconnect, Dep!Die, Dep!Lose
      <4> QED
        BY <1>0, <3>2, <4>1 DEF Dep!StepFails, Dep!Disconnect, Dep!Die, Dep!Lose, DataTypes
    <3> QED
      BY <1>1, <1>2, <1>3, <2>1, <3>1, <3>2 DEF Dep!Next
  <2>5. UNCHANGED before
    BY <1>4, <2>1, DeploymentMoves DEF Dep!Start, Dep!AlreadyDeployed, Dep!KillLocal, Dep!Lose
  <2> QED
    BY <1>0, <2>2, <2>3, <2>4, <2>5 DEF InDeployment
<1> QED
  BY <1>0, <1>1, <1>2, <1>3, <1>4, DeploymentMoves

\* Typing is kept by every step, and one script at a time runs.
LEMMA TypingStep ==
  Typing /\ SessionInv /\ OneAtATime /\ [Next]_vars => Typing' /\ OneAtATime'
<1> SUFFICES ASSUME Typing, SessionInv, OneAtATime, [Next]_vars PROVE Typing' /\ OneAtATime'
  OBVIOUS
<1> DEFINE Types ==
      /\ RunTyping
      /\ DataTypes /\ local \in LocalState /\ session \in [Dep!Scripts -> SessionState]
      /\ before \in [tree : Dep!TreeOrNone, units : UnitFiles]
      /\ ~Dep!Quiet => local.commit \in Commits /\ local.d > 0
<1>0. Types
  BY TypesSplit DEF Typing, RunTyping, UnitFiles, dep
<1>1. ASSUME Types' PROVE Typing'
  <2>1. Inst!TypeOK' => units' \in UnitFiles /\ \A u \in DepUnits : units'[u] \in Commits \cup {None}
    BY Constants DEF Inst!TypeOK, UnitFiles, Units
  <2>2. TypeOK'
    BY <1>1, <2>1
      DEF TypeOK, Dep!TypeOK, RunTyping, DataTypes, LocalState, SessionState, DepUnits, was
  <2> QED
    BY <1>1, <2>2 DEF Typing, RunTyping, UnitFiles, dep
<1>2. CASE RunStep
  <2>1. RunTyping'
    BY <1>0, <1>2, RunStepTypes DEF RunStep
  <2>2. DataTypes' /\ before' \in [tree : Dep!TreeOrNone, units : UnitFiles]
    <3>1. /\ Inst!Trees = Dep!TreeOrNone /\ None \in Dep!TreeOrNone
          /\ [u \in Inst!Units |-> None] \in UnitFiles
      BY Constants DEF Dep!TreeOrNone, UnitFiles, Units
    <3>2. current' \in Dep!TreeOrNone /\ units' \in UnitFiles /\ faults' \in 0 .. MaxFaults
      BY <2>1, <3>1 DEF RunTyping, Inst!TypeOK, UnitFiles, Units
    <3> QED
      BY <1>0, <1>2, <3>1, <3>2 DEF RunStep, DataTypes
  <2>3. local' \in LocalState /\ Dep!Quiet' /\ local' = Dep!NoReport(local'.d)
    BY <1>0, <1>2 DEF RunStep, Dep!NoReport, LocalState, Dep!Reports, Dep!Quiet
  <2>4. OneAtATime'
    BY <1>2, <2>3 DEF OneAtATime, RunStep, was, dep
  <2>5. session' \in [Dep!Scripts -> SessionState]
    BY <1>0, <1>2 DEF RunStep
  <2> QED
    BY <1>1, <2>1, <2>2, <2>3, <2>4, <2>5
<1>3. CASE DeploymentStep
  <2>1. /\ DataTypes' /\ local' \in LocalState /\ session' \in [Dep!Scripts -> SessionState]
        /\ before' \in [tree : Dep!TreeOrNone, units : UnitFiles]
        /\ ~Dep!Quiet' => local'.commit \in Commits /\ local'.d > 0
    BY <1>3, DeploymentTypes DEF DeploymentStep
  <2>2. run' = Inst!Idle /\ run'.at = "idle" /\ run' \in Inst!RunState
    <3>1. 1 \in 1 .. Len(Installed) /\ None \in Inst!Trees
      BY Constants DEF Inst!Trees
    <3> QED
      BY <1>3, <3>1 DEF DeploymentStep, Inst!Idle, Inst!RunState, Inst!Outcomes
  <2>3. RunTypes'
    <3>1. RunTypes
      BY <1>0, RunTypesSplit DEF RunTyping
    <3>2. Inst!Trees = Dep!TreeOrNone
      BY Constants
    <3> QED
      BY <1>3, <2>1, <3>1, <3>2 DEF DeploymentStep, RunTypes, DataTypes
  <2>4. RunTyping'
    BY <2>2, <2>3 DEF RunTyping, RunTypes, Inst!TypeOK, UnitFiles, Units, Inst!InstallPlaces
  <2> QED
    BY <1>1, <2>1, <2>2, <2>4 DEF OneAtATime
<1>4. CASE UNCHANGED vars
  <2>1. UNCHANGED <<current, units, faults>> /\ UNCHANGED runVars /\ UNCHANGED deploymentVars
    BY <1>4 DEF vars
  <2>2. Types'
    BY <1>0, <2>1
      DEF runVars, deploymentVars, RunTyping, Inst!TypeOK, DataTypes, Dep!Quiet
  <2>3. OneAtATime'
    BY <2>1 DEF runVars, deploymentVars, OneAtATime, Dep!Quiet, dep, was
  <2> QED
    BY <1>1, <2>2, <2>3
<1> QED
  BY <1>2, <1>3, <1>4 DEF Next

\* Every variable of install.sh, of deploy-pi.sh and of their histories has its type
\* after any steps of either, faults included.
THEOREM ApplianceTypeCorrect == Spec => []TypeOK
<1>1. Init => Typing /\ SessionInv /\ OneAtATime
  BY TypingInit, SessionInit
<1>2. (Typing /\ SessionInv /\ OneAtATime) /\ [Next]_vars
        => (Typing /\ SessionInv /\ OneAtATime)'
  BY TypingStep, SessionStep
<1>3. Typing => TypeOK
  BY DEF Typing
<1> QED
  BY <1>1, <1>2, <1>3, PTL DEF Spec

-----------------------------------------------------------------------------
(* Deployments: a session that fails, or is lost.                          *)

DataKept == UNCHANGED <<current, previous, units, backup, before, late>>

\* All scripts, for whoever must tell them apart.
LEMMA SomeScripts ==
  Dep!Scripts = {"prepare", "activate", "install", "accept", "record", "verify", "tidy",
                 "rollback", "discard"}
BY ScriptOrder DEF ForwardScripts, Replaced

\* A session that is left or ends, and none but the rollback opened, adds nothing to
\* what must hold before and after the move.
LEMMA NothingOpened ==
  ASSUME Typing, SessionInv, BeforeMove, DataKept, local'.d = local.d,
         local'.at \notin ForwardScripts, local'.report # "verified",
         \A t \in Dep!Scripts \ {"rollback", "discard"} :
           session'[t].at = "off" \/ session'[t] = session[t]
  PROVE  BeforeMove' /\ AfterMove'
<1>1. BeforeMove'
  BY SomeScripts
    DEF BeforeMove, DataKept, On, WayBack, Dep!Saved, Dep!dep, dep, was, ForwardScripts, Replaced
<1>2. AfterMove'
  BY DEF AfterMove, ForwardScripts, Replaced, Dep!VerifiedLeavesWayBack, Dep!Reported
<1> QED
  BY <1>1, <1>2

\* What is said of the data alone.
LEMMA SameData ==
  ASSUME Typing, DataKept, local'.d = local.d, cutOff' \in {cutOff, TRUE}
  PROVE  /\ WayBack' <=> WayBack
         /\ Dep!Saved' <=> Dep!Saved
         /\ Dep!AsBefore' <=> Dep!AsBefore
         /\ Dep!IsTree(current, was)' <=> Dep!IsTree(current, was)
         /\ (previous[dep] = was)' <=> previous[dep] = was
         /\ Sure' => Sure
         /\ UNCHANGED <<was, units, before, current>>
<1>1. cutOff \in BOOLEAN
  BY DEF Typing, TypeOK, Dep!TypeOK
<1>2. UNCHANGED <<was, dep, units, before, current, previous, backup, late>>
  BY DEF DataKept, was, dep
<1>3. Dep!Saved' <=> Dep!Saved
  BY <1>2 DEF Dep!Saved, Dep!dep, dep
<1>4. (previous[dep] = was)' <=> previous[dep] = was
  BY <1>2
<1>5. Dep!IsTree(current, was)' <=> Dep!IsTree(current, was)
  BY <1>2 DEF Dep!IsTree
<1>6. Dep!AsBefore' <=> Dep!AsBefore
  BY <1>2, <1>5 DEF Dep!AsBefore, was
<1>7. Sure' => Sure
  BY <1>1, <1>2 DEF Sure, Dep!FoundPaired
<1> QED
  BY <1>2, <1>3, <1>4, <1>5, <1>6, <1>7 DEF WayBack

\* A failed session that left the data alone keeps DeployInv.
LEMMA FailureKeeps ==
  ASSUME Typing, SessionInv, Whereabouts, DeployInv, NEW s \in Dep!Scripts, NEW left, Dep!Errs(s, left), On(s),
         cutOff' \in {cutOff, TRUE}, left = Dep!Off \/ (left = session[s] /\ cutOff' = TRUE),
         s = "activate" /\ session[s].at = "place" => cutOff' = TRUE,
         DataKept
  PROVE  DeployInv'
<1>1. /\ local.at = s /\ local'.at = Dep!AfterFailure(s)
      /\ local'.activated = local.activated /\ local'.undone = local.undone
      /\ local'.commit = local.commit /\ local'.d = local.d
      /\ local'.report = IF s = "discard" THEN local.report
                         ELSE IF s = "rollback" THEN "rollback failed" ELSE "failed"
  BY DEF Dep!Errs, Typing, TypeOK, Dep!TypeOK
<1>2. local.activated \in BOOLEAN /\ local.undone \in BOOLEAN /\ cutOff \in BOOLEAN
  BY DEF Typing, TypeOK, Dep!TypeOK
<1>3. \A t \in Dep!Scripts : t # local'.at /\ t # s => session'[t] = session[t]
  BY <1>1 DEF Dep!Errs, Dep!Switch
<1>4. local'.at # s => session'[s] = left
  BY <1>1 DEF Dep!Errs, Dep!Switch
<1>5. local'.at # "idle" => session'[local'.at].at = "go" /\ local'.at \in {"rollback", "discard"}
  BY <1>1, SomeScripts DEF Dep!Errs, Dep!Switch, Dep!At, Dep!AfterFailure
<1>6. local'.at = "rollback" => s \in Replaced
  BY <1>1, SomeScripts DEF Dep!AfterFailure, SessionInv, Replaced
<1>7. left.at = "off" \/ (left = session[s] /\ cutOff' = TRUE)
  BY DEF Dep!Off, Dep!At
<1>8. \A t \in Dep!Scripts \ {"rollback", "discard"} :
        session'[t].at = "off" \/ session'[t] = session[t]
  BY <1>1, <1>3, <1>4, <1>5, <1>7, SomeScripts
<1>9. BeforeMove' /\ AfterMove'
  <2>1. local'.at \notin ForwardScripts
    BY <1>5 DEF ForwardScripts, Replaced, Dep!AfterFailure
  <2>2. local'.report # "verified"
    BY <1>1 DEF SessionInv
  <2> QED
    BY <1>1, <1>8, <2>1, <2>2, NothingOpened DEF DeployInv
<1>10. RollbackInv'
  <2>1. \/ session'["rollback"].at = "off"
        \/ session'["rollback"] = session["rollback"]
        \/ session'["rollback"].at = "go" /\ s \in Replaced
    BY <1>3, <1>4, <1>5, <1>6, <1>7, SomeScripts
  <2>2. ~Dep!Quiet
    BY <1>1, SomeScripts DEF Dep!Quiet
  <2>3. s \in Replaced => WayBack
    BY <1>1 DEF DeployInv, AfterMove
  <2>4. /\ WayBack' <=> WayBack
        /\ Dep!Saved' <=> Dep!Saved
        /\ Dep!AsBefore' <=> Dep!AsBefore
        /\ Dep!IsTree(current, was)' <=> Dep!IsTree(current, was)
        /\ (previous[dep] = was)' <=> previous[dep] = was
        /\ Sure' => Sure
        /\ UNCHANGED <<was, units, before, current>>
    BY <1>1, SameData
  <2>5. OthersStay'
    BY <1>1, <1>2, <2>2, <2>4 DEF DeployInv, RollbackInv, OthersStay
  <2>6. RollingBack'
    BY <2>1, <2>3, <2>4 DEF DeployInv, RollbackInv, RollingBack
  <2>7. Restoring'
    <3>1. local'.undone => local.undone
      BY <1>1, <1>2
    <3>2. local'.report = "rollback failed" /\ ~On("rollback")' =>
            \/ s = "rollback" /\ On("rollback")
            \/ local.report = "rollback failed" /\ ~On("rollback")
      BY <1>1, <1>3, <1>4, <1>5, SomeScripts DEF On
    <3>3. On("rollback") =>
            session["rollback"].at \in {"go", "back", "restore", "start", "examine", "clean"}
      BY SomeScripts DEF Whereabouts, PlacesOf, On
    <3>4. On("rollback") => Dep!Saved /\ (Dep!IsTree(current, was) \/ previous[dep] = was)
      BY <3>3 DEF DeployInv, RollbackInv, RollingBack, WayBack
    <3>5. local'.report = "failed" /\ cutOff' # TRUE =>
            (local.report = "failed" /\ ~cutOff /\ s = "discard") \/ s \in {"prepare", "activate"}
             \/ local'.at = "rollback"
      BY <1>1, <1>2, SomeScripts DEF Dep!AfterFailure, SessionInv, Replaced
    <3>6. s \in {"prepare", "activate"} /\ cutOff' # TRUE => Dep!AsBefore
      <4>1. current = was /\ units = before.units => Dep!AsBefore
        BY DEF Dep!AsBefore, Dep!IsTree, was
      <4>2. On("activate") => session["activate"].at \in {"go", "save", "move", "place"}
        BY SomeScripts DEF Whereabouts, PlacesOf, On
      <4> QED
        BY <1>1, <4>1, <4>2 DEF DeployInv, BeforeMove
    <3> QED
      BY <1>1, <1>2, <2>4, <3>1, <3>2, <3>4, <3>5, <3>6 DEF DeployInv, RollbackInv, Restoring
  <2> QED
    BY <2>5, <2>6, <2>7 DEF RollbackInv
<1> QED
  BY <1>9, <1>10 DEF DeployInv

\* Where the commands of a rollback can be.
LEMMA RollbackWhere ==
  ASSUME Whereabouts, On("rollback")
  PROVE  session["rollback"].at \in {"go", "back", "restore", "start", "examine", "clean"}
BY SomeScripts DEF Whereabouts, PlacesOf, On

\* A session nobody waits for ends.
LEMMA UnheardKeeps ==
  ASSUME Typing, SessionInv, Whereabouts, DeployInv, NEW s \in Dep!Scripts, Dep!EndsUnheard(s),
         On(s), cutOff' \in {cutOff, TRUE}, DataKept
  PROVE  DeployInv'
<1>1. UNCHANGED local /\ local.at # s
  BY DEF Dep!EndsUnheard
<1>2. /\ session' = [session EXCEPT ![s] = Dep!Off]
      /\ \A t \in Dep!Scripts : session'[t].at = "off" \/ session'[t] = session[t]
      /\ \A t \in Dep!Scripts : t # s => session'[t] = session[t]
  BY DEF Dep!EndsUnheard, Dep!Off, Dep!At, Typing, TypeOK, Dep!TypeOK
<1>3. local.at \notin ForwardScripts /\ ~Dep!Quiet /\ local.report # "verified"
  BY <1>1 DEF SessionInv, Dep!Quiet, On
<1>4. BeforeMove' /\ AfterMove'
  BY <1>1, <1>2, <1>3, NothingOpened DEF DeployInv
<1>5. /\ WayBack' <=> WayBack
      /\ Dep!Saved' <=> Dep!Saved
      /\ Dep!AsBefore' <=> Dep!AsBefore
      /\ Dep!IsTree(current, was)' <=> Dep!IsTree(current, was)
      /\ (previous[dep] = was)' <=> previous[dep] = was
      /\ Sure' => Sure
      /\ UNCHANGED <<was, units, before, current>>
  BY <1>1, SameData
<1>6. OthersStay'
  BY <1>3, <1>5 DEF DeployInv, RollbackInv, OthersStay
<1>7. RollingBack'
  <2>1. session'["rollback"].at = "off" \/ session'["rollback"] = session["rollback"]
    BY <1>2, SomeScripts
  <2> QED
    BY <1>5, <2>1 DEF DeployInv, RollbackInv, RollingBack
<1>8. Restoring'
  <2>1. ~On("rollback")' => (s = "rollback" /\ On("rollback")) \/ ~On("rollback")
    BY <1>2, SomeScripts DEF On
  <2>2. On("rollback") => Dep!Saved /\ (Dep!IsTree(current, was) \/ previous[dep] = was)
    BY RollbackWhere DEF DeployInv, RollbackInv, RollingBack, WayBack
  <2>3. cutOff' # TRUE => ~cutOff
    BY DEF Typing, TypeOK, Dep!TypeOK
  <2> QED
    BY <1>1, <1>5, <2>1, <2>2, <2>3 DEF DeployInv, RollbackInv, Restoring
<1> QED
  BY <1>4, <1>6, <1>7, <1>8 DEF DeployInv, RollbackInv

\* Killing the local script keeps DeployInv: nobody waits, nothing is promised.
LEMMA KillKeeps ==
  ASSUME Typing, SessionInv, DeployInv, Dep!KillLocal
  PROVE  DeployInv'
<1>1. /\ local'.at = "idle" /\ local'.report = "killed" /\ cutOff' = TRUE
      /\ local'.undone = local.undone /\ local'.d = local.d
      /\ UNCHANGED session /\ DataKept /\ ~Dep!Quiet
  BY DEF Dep!KillLocal, Dep!Lose, Typing, TypeOK, Dep!TypeOK, DataKept, Dep!treeVars, Dep!unitVars,
         Dep!Quiet
<1>2. BeforeMove' /\ AfterMove'
  BY <1>1, NothingOpened DEF DeployInv, ForwardScripts, Replaced
<1>3. /\ WayBack' <=> WayBack
      /\ Dep!Saved' <=> Dep!Saved
      /\ Dep!IsTree(current, was)' <=> Dep!IsTree(current, was)
      /\ Sure' => Sure
      /\ UNCHANGED <<was, units, before, current>>
  BY <1>1, SameData
<1>4. OthersStay'
  BY <1>1, <1>3 DEF DeployInv, RollbackInv, OthersStay
<1>5. RollingBack'
  BY <1>1, <1>3 DEF DeployInv, RollbackInv, RollingBack
<1>6. Restoring'
  BY <1>1, <1>3 DEF DeployInv, RollbackInv, Restoring
<1> QED
  BY <1>2, <1>4, <1>5, <1>6 DEF DeployInv, RollbackInv

\* No deployment is under way, and what the last one has reported is true.
LEMMA QuietKeeps ==
  ASSUME Dep!Quiet', OthersStay', Restoring', local'.report # "verified"
  PROVE  DeployInv'
<1>1. local'.at = "idle" /\ \A s \in Dep!Scripts : session'[s].at = "off"
  BY DEF Dep!Quiet
<1>2. BeforeMove'
  BY <1>1, SomeScripts DEF BeforeMove, On
<1>3. AfterMove'
  BY <1>1 DEF AfterMove, Replaced, Dep!VerifiedLeavesWayBack, Dep!Reported
<1>4. RollingBack'
  BY <1>1, SomeScripts DEF RollingBack
<1> QED
  BY <1>2, <1>3, <1>4 DEF DeployInv, RollbackInv

\* A deployment begins with nothing of its own on disk.
LEMMA BeginningKeeps ==
  ASSUME Typing, SessionInv, DeployInv, NotYet, NEW c \in Commits,
         Dep!Start(c) \/ Dep!AlreadyDeployed(c)
  PROVE  DeployInv'
<1>1. CASE Dep!AlreadyDeployed(c)
  <2>1. /\ Dep!Quiet' /\ local'.report = "already" /\ local'.d = local.d
        /\ local'.undone = local.undone /\ UNCHANGED cutOff /\ DataKept
    BY <1>1 DEF Dep!AlreadyDeployed, Dep!Quiet, Typing, TypeOK, Dep!TypeOK, DataKept, Dep!treeVars,
                Dep!unitVars, Dep!historyVars
  <2>2. /\ Dep!IsTree(current, was)' <=> Dep!IsTree(current, was)
        /\ Sure' => Sure
        /\ UNCHANGED <<was, units, before, current>>
    BY <2>1, SameData
  <2>3. OthersStay' /\ Restoring'
    BY <2>1, <2>2 DEF DeployInv, RollbackInv, OthersStay, Restoring
  <2> QED
    BY <2>1, <2>3, QuietKeeps
<1>2. CASE Dep!Start(c)
  <2>1. /\ local'.at = "prepare" /\ local'.d = local.d + 1
        /\ ~local'.undone /\ local'.report = "none"
        /\ before'.tree = current /\ before'.units = units
        /\ UNCHANGED <<current, units, previous>>
    BY <1>2 DEF Dep!Start, Dep!dep, Dep!treeVars, Dep!unitVars
  <2>2. \A t \in Dep!Scripts : t # "prepare" => session'[t].at = "off"
    BY <1>2 DEF Dep!Start, Dep!Quiet, Typing, TypeOK, Dep!TypeOK
  <2>3. previous[local.d + 1] = None
    <3>1. local.d \in 0 .. MaxDeploys /\ local.d < MaxDeploys /\ MaxDeploys \in Nat
      BY <1>2, Constants DEF Dep!Start, Dep!dep, Typing, TypeOK, Dep!TypeOK
    <3>2. local.d + 1 \in Dep!Deploys /\ local.d + 1 > local.d
      BY <3>1 DEF Dep!Deploys
    <3> QED
      BY <3>2 DEF NotYet, dep
  <2>4. BeforeMove'
    BY <2>1, <2>2, <2>3, SomeScripts DEF BeforeMove, was, dep
  <2>5. AfterMove'
    BY <2>1, <2>2 DEF AfterMove, Replaced, Dep!VerifiedLeavesWayBack, Dep!Reported
  <2>6. OthersStay'
    BY <2>1 DEF OthersStay
  <2>7. RollingBack' /\ Restoring'
    BY <2>1, <2>2, SomeScripts DEF RollingBack, Restoring
  <2> QED
    BY <2>4, <2>5, <2>6, <2>7 DEF DeployInv, RollbackInv
<1> QED
  BY <1>1, <1>2

\* A run of install.sh.
LEMMA RunStepKeeps ==
  ASSUME RunStep
  PROVE  DeployInv'
<1>1. Dep!Quiet' /\ ~local'.undone /\ local'.report = "none"
  BY DEF RunStep, Dep!Quiet, Dep!NoReport
<1>2. OthersStay' /\ Restoring'
  BY <1>1 DEF OthersStay, Restoring
<1> QED
  BY <1>1, <1>2, QuietKeeps

-----------------------------------------------------------------------------
(* Deployments: a session that succeeds.                                   *)

\* What the local script and the sessions are when one has ended well.
LEMMA SuccessSteps ==
  ASSUME Typing, SessionInv, NEW s \in Dep!Scripts, Dep!Succeeds(s)
  PROVE  /\ local.at = s /\ local'.at = Dep!AfterSuccess[s]
         /\ local'.d = local.d /\ local'.commit = local.commit
         /\ local'.undone <=> local.undone \/ s = "rollback"
         /\ local'.report = IF s = "tidy" THEN "verified" ELSE local.report
         /\ local'.at \in Dep!Scripts => session'[local'.at].at = "go"
         /\ \A t \in Dep!Scripts \ {local'.at, s} : session'[t] = session[t]
         /\ local'.at # s => session'[s].at = "off"
         /\ s \in ForwardScripts => \A t \in Dep!Scripts \ {local'.at} : session'[t].at = "off"
<1>1. /\ local.at = s /\ local'.at = Dep!AfterSuccess[s]
      /\ local'.d = local.d /\ local'.commit = local.commit
      /\ local'.undone <=> local.undone \/ s = "rollback"
      /\ local'.report = IF s = "tidy" THEN "verified" ELSE local.report
  BY DEF Dep!Succeeds, Typing, TypeOK, Dep!TypeOK
<1>2. \A t \in Dep!Scripts :
        session'[t] = IF t = local'.at THEN Dep!At("go") ELSE IF t = s THEN Dep!Off ELSE session[t]
  BY <1>1 DEF Dep!Succeeds, Dep!Switch
<1>3. /\ local'.at \in Dep!Scripts => session'[local'.at].at = "go"
      /\ \A t \in Dep!Scripts \ {local'.at, s} : session'[t] = session[t]
      /\ local'.at # s => session'[s].at = "off"
  BY <1>2 DEF Dep!At, Dep!Off
<1>4. s \in ForwardScripts => \A t \in Dep!Scripts \ {s} : session[t].at = "off"
  BY <1>1 DEF SessionInv, On
<1>5. s \in ForwardScripts => \A t \in Dep!Scripts \ {local'.at} : session'[t].at = "off"
  BY <1>2, <1>4 DEF Dep!Off, Dep!At
<1> QED
  BY <1>1, <1>3, <1>5

\* The same, for a session before the last: only the next one is on.
LEMMA ForwardSucceeds ==
  ASSUME Typing, SessionInv,
         NEW s \in {"prepare", "activate", "install", "accept", "record", "verify"},
         Dep!Succeeds(s),
         NEW n \in {"activate"} \cup Replaced, n = Dep!AfterSuccess[s]
  PROVE  /\ local.at = s /\ local'.at = n /\ local'.report = "none"
         /\ local'.d = local.d /\ local'.commit = local.commit
         /\ ~local'.undone /\ session'[n].at = "go"
         /\ \A t \in Dep!Scripts \ {n} : session'[t].at = "off"
         /\ session[s].at # "off"
<1>1. s \in Dep!Scripts /\ n \in Dep!Scripts /\ s \in ForwardScripts /\ s # "tidy"
      /\ s # "idle" /\ s # "rollback"
  BY SomeScripts DEF ForwardScripts, Replaced
<1>2. /\ local.at = s /\ local'.at = n
      /\ local'.d = local.d /\ local'.commit = local.commit
      /\ local'.undone <=> local.undone
      /\ local'.report = local.report
      /\ session'[n].at = "go"
      /\ \A t \in Dep!Scripts \ {n} : session'[t].at = "off"
  BY <1>1, SuccessSteps
<1>3. ~local.undone /\ local.report = "none" /\ session[s].at # "off"
  BY <1>1, <1>2, SomeScripts DEF SessionInv, ForwardScripts, Replaced, On
<1> QED
  BY <1>2, <1>3

\* The units that deploy-pi.sh does not install.
LEMMA OthersKept ==
  ASSUME Typing, ~Dep!Quiet, OthersStay, UNCHANGED before,
         UNCHANGED units \/ \E u \in DepUnits : \E c : units' = [units EXCEPT ![u] = c]
  PROVE  OthersStay'
<1>1. \A u \in Units \ DepUnits : units[u] = before.units[u]
  BY DEF OthersStay
<1>2. DOMAIN units = Units
  BY DEF Typing, TypeOK, Inst!TypeOK, Units
<1>3. \A u \in Units \ DepUnits : units'[u] = units[u]
  BY <1>2
<1> QED
  BY <1>1, <1>3 DEF OthersStay

\* What must hold when the next session of a deployment that succeeds is opened.
LEMMA NextOpened ==
  ASSUME NEW n \in {"activate"} \cup Replaced, local'.at = n, local'.report = "none",
         ~local'.undone, session'[n].at = "go",
         \A t \in Dep!Scripts \ {n} : session'[t].at = "off",
         OthersStay',
         n = "activate" =>
           (/\ current = was /\ units = before.units /\ previous[dep] = None
            /\ candidate[dep] = [commit |-> local.commit, by |-> dep, sha |-> None, proof |-> None])',
         n \in Replaced =>
           (WayBack /\ current # None /\ current.commit = local.commit /\ current.by = dep)',
         n \in Replaced \ {"install"} => (\A u \in DepUnits : units[u] = local.commit)',
         n \in {"record", "verify", "tidy"} => (dep \in accepted)',
         n = "tidy" => (current.proof = local.commit /\ current.sha = local.commit)'
  PROVE  DeployInv'
<1>0. /\ n \in Dep!Scripts /\ n # "prepare" /\ n # "rollback"
      /\ {"prepare", "activate", "install", "record", "rollback"} \subseteq Dep!Scripts
      /\ n # "activate" => session'["activate"].at = "off"
  BY SomeScripts DEF Replaced
<1>1. BeforeMove'
  BY <1>0 DEF BeforeMove, On, Replaced
<1>2. AfterMove'
  BY <1>0 DEF AfterMove, Dep!VerifiedLeavesWayBack, Dep!Reported, Replaced
<1>3. RollingBack' /\ Restoring'
  BY <1>0 DEF RollingBack, Restoring
<1> QED
  BY <1>1, <1>2, <1>3 DEF DeployInv, RollbackInv

\* Prepare keeps DeployInv.
LEMMA PrepareKeeps ==
  ASSUME Typing, SessionInv, Whereabouts, DeployInv, Dep!Prepare
  PROVE  DeployInv'
<1> DEFINE s == "prepare"
<1>0. s \in Dep!Scripts /\ On(s) /\ UNCHANGED cutOff /\ DataKept /\ ~Dep!Quiet
  BY SomeScripts DEF Dep!Prepare, Dep!Is, On, Dep!historyVars, DataKept, Dep!unitVars, Dep!Quiet
<1>1. CASE Dep!EndsUnheard(s)
  BY <1>0, <1>1, UnheardKeeps
<1>2. CASE Dep!Succeeds(s)
  <2>1. /\ local.at = s /\ local'.at = "activate" /\ local'.report = "none"
        /\ local'.d = local.d /\ local'.commit = local.commit
        /\ ~local'.undone /\ session'["activate"].at = "go"
        /\ \A t \in Dep!Scripts \ {"activate"} : session'[t].at = "off"
    BY <1>2, ForwardSucceeds, ScriptOrder
  <2>2. OthersStay'
    BY <1>0, OthersKept DEF DataKept, DeployInv, RollbackInv
  <2>3. /\ current' = was' /\ units' = before'.units /\ previous'[dep'] = None
        /\ candidate'[dep'] =
             [commit |-> local'.commit, by |-> dep', sha |-> None, proof |-> None]
    <3>1. current = was /\ units = before.units /\ previous[dep] = None
      BY <2>1 DEF DeployInv, BeforeMove
    <3>2. dep \in Dep!Deploys /\ DOMAIN candidate = Dep!Deploys
      BY <1>0, DeploymentUnderWay DEF InDeployment, Typing, TypeOK, Dep!TypeOK
    <3> QED
      BY <1>0, <2>1, <3>1, <3>2 DEF Dep!Prepare, Dep!dep, dep, was, DataKept
  <2> QED
    BY <2>1, <2>2, <2>3, NextOpened DEF Replaced
<1> QED
  BY <1>1, <1>2 DEF Dep!Prepare, Dep!Ends

\* While the activation goes on nothing has come after it.
LEMMA ActivateOn ==
  ASSUME Typing, SessionInv, On("activate")
  PROVE  /\ ~local.activated /\ ~local.undone
         /\ ~On("prepare") /\ ~On("rollback") /\ local.at \notin {"prepare", "rollback"} \cup Replaced
         /\ local.report \notin {"verified", "rollback failed"}
         /\ ~cutOff => local.at = "activate"
         /\ ~Dep!Quiet /\ InDeployment
<1>1. "activate" \in Dep!Scripts /\ "prepare" \in Dep!Scripts
  BY SomeScripts
<1>2. ~Dep!Quiet
  BY <1>1 DEF Dep!Quiet, On
<1>3. local.at # "prepare"
  BY <1>1 DEF SessionInv, ForwardScripts
<1> HIDE DEF On
<1> QED
  BY <1>1, <1>2, <1>3, DeploymentUnderWay DEF SessionInv

\* A step of the activation keeps DeployInv if it keeps BeforeMove.
LEMMA ActivateMoves ==
  ASSUME Typing, SessionInv, DeployInv, On("activate"), NEW left,
         session' = [session EXCEPT !["activate"] = left],
         UNCHANGED <<local, units, before, cutOff, late>>, BeforeMove'
  PROVE  DeployInv'
<1>1. AfterMove'
  BY ActivateOn DEF AfterMove, Dep!VerifiedLeavesWayBack, Dep!Reported, Replaced
<1>2. OthersStay'
  BY ActivateOn, OthersKept DEF DeployInv, RollbackInv
<1>3. session'["rollback"].at = "off"
  BY ActivateOn, SomeScripts DEF On, Typing, TypeOK, Dep!TypeOK
<1>4. RollingBack'
  BY <1>3 DEF RollingBack
<1>5. Restoring'
  BY ActivateOn DEF Restoring
<1> QED
  BY <1>1, <1>2, <1>4, <1>5 DEF DeployInv, RollbackInv

\* CheckTrees keeps DeployInv.
LEMMA CheckTreesKeeps ==
  ASSUME Typing, SessionInv, Whereabouts, DeployInv, Dep!CheckTrees
  PROVE  DeployInv'
<1>1. /\ "activate" \in Dep!Scripts /\ On("activate") /\ UNCHANGED <<cutOff, late, accepted>> /\ DataKept
      /\ session["activate"].at = "go" /\ UNCHANGED candidate
  BY SomeScripts
    DEF Dep!CheckTrees, Dep!Is, On, Dep!historyVars, Dep!treeVars, Dep!unitVars, DataKept
<1>2. CASE Dep!Breaks("activate")
  BY <1>1, <1>2, UnheardKeeps, FailureKeeps DEF Dep!Breaks, Dep!Off, Dep!At
<1>3. CASE Dep!Goto("activate", "save") /\ current # None
  <2>1. /\ session' = [session EXCEPT !["activate"] = Dep!At("save")] /\ UNCHANGED local
        /\ session'["activate"].at = "save" /\ session'["activate"].turn = 1
        /\ session'["prepare"] = session["prepare"]
    BY <1>1, <1>3, SomeScripts DEF Dep!Goto, Dep!At, Typing, TypeOK, Dep!TypeOK
  <2>2. current = was /\ units = before.units /\ previous[dep] = None
    BY <1>1 DEF DeployInv, BeforeMove
  <2>3. local.at = "activate" =>
          candidate[dep] = [commit |-> local.commit, by |-> dep, sha |-> None, proof |-> None]
    BY DEF DeployInv, BeforeMove
  <2>4. \A j \in DOMAIN Deployed : ~(j < 1)
    BY Constants
  <2>5. BeforeMove'
    BY <1>1, <1>3, <2>1, <2>2, <2>3, <2>4 DEF BeforeMove, DataKept, dep, was
  <2> QED
    BY <1>1, <2>1, <2>5, ActivateMoves DEF DataKept
<1> QED
  BY <1>2, <1>3 DEF Dep!CheckTrees

\* One turn of a loop over the units.
LEMMA LoopTurns ==
  ASSUME Typing, NEW s \in Dep!Scripts, NEW place, NEW u, NEW next, Dep!Loop(s, place, u, next)
  PROVE  /\ session[s].at = place /\ UNCHANGED local
         /\ session[s].turn \in 1 .. Len(Deployed) /\ u = Deployed[session[s].turn]
         /\ \E left :
              /\ session' = [session EXCEPT ![s] = left] /\ session'[s] = left
              /\ \A t \in Dep!Scripts : t # s => session'[t] = session[t]
              /\ \/ session[s].turn = Len(Deployed) /\ left.at = next
                 \/ /\ session[s].turn < Len(Deployed)
                    /\ left.at = place /\ left.turn = session[s].turn + 1
<1>1. /\ session \in [Dep!Scripts -> SessionState] /\ Len(Deployed) \in Nat
      /\ session[s].turn \in 1 .. Len(Deployed)
  BY Constants DEF Typing, TypeOK, Dep!TypeOK, SessionState
<1>2. CASE session[s].turn = Len(Deployed)
  BY <1>1, <1>2 DEF Dep!Loop, Dep!Goto, Dep!At, Dep!Is
<1>3. CASE session[s].turn # Len(Deployed)
  <2> DEFINE left == [session[s] EXCEPT !.turn = session[s].turn + 1]
  <2>1. session' = [session EXCEPT ![s].turn = session[s].turn + 1] /\ UNCHANGED local
    BY <1>3 DEF Dep!Loop
  <2>2. session' = [session EXCEPT ![s] = left]
    BY <2>1
  <2>3. session[s].turn < Len(Deployed)
    BY <1>1, <1>3
  <2>4. left.at = session[s].at /\ left.turn = session[s].turn + 1
    BY <1>1 DEF SessionState
  <2> HIDE DEF left
  <2> QED
    BY <1>1, <2>1, <2>2, <2>3, <2>4 DEF Dep!Loop, Dep!Is
<1> QED
  BY <1>2, <1>3

\* The loops over the units of a deployment reach each of them.
LEMMA UnitsInOrder ==
  /\ Len(Deployed) \in Nat /\ DOMAIN Deployed = 1 .. Len(Deployed)
  /\ \A j \in DOMAIN Deployed : Deployed[j] \in DepUnits
  /\ \A v \in DepUnits : \E j \in DOMAIN Deployed : v = Deployed[j]
BY Constants

\* SaveUnit keeps DeployInv: the copies so far are those of what was found.
LEMMA SaveUnitKeeps ==
  ASSUME Typing, SessionInv, Whereabouts, DeployInv, NEW u \in DepUnits, Dep!SaveUnit(u)
  PROVE  DeployInv'
<1>1. /\ "activate" \in Dep!Scripts /\ On("activate")
      /\ UNCHANGED <<cutOff, late, current, candidate, previous, units, before>>
      /\ session["activate"].at = "save"
      /\ u = Deployed[session["activate"].turn]
      /\ backup' = [backup EXCEPT ![dep][u] = units[u]]
  BY SomeScripts
    DEF Dep!SaveUnit, Dep!Loop, Dep!Is, On, Dep!historyVars, Dep!treeVars, Dep!dep, dep
<1>2. dep \in Dep!Deploys /\ backup \in [Dep!Deploys -> [DepUnits -> Commits \cup {Unsaved}]]
  BY <1>1, ActivateOn DEF InDeployment, Typing, TypeOK, Dep!TypeOK, DepUnits
<1>3. current = was /\ units = before.units /\ previous[dep] = None /\ was # None
  BY <1>1 DEF DeployInv, BeforeMove
<1>4. \A j \in DOMAIN Deployed :
        j < session["activate"].turn => backup[dep][Deployed[j]] = before.units[Deployed[j]]
  BY <1>1 DEF DeployInv, BeforeMove
<1>5. backup'[dep][u] = before.units[u] /\ \A v \in DepUnits : v # u => backup'[dep][v] = backup[dep][v]
  BY <1>1, <1>2, <1>3
<1>7. UNCHANGED local /\ session["activate"].turn \in 1 .. Len(Deployed)
      /\ \E left :
           /\ session' = [session EXCEPT !["activate"] = left] /\ session'["activate"] = left
           /\ \A t \in Dep!Scripts : t # "activate" => session'[t] = session[t]
           /\ \/ session["activate"].turn = Len(Deployed) /\ left.at = "move"
              \/ /\ session["activate"].turn < Len(Deployed)
                 /\ left.at = "save" /\ left.turn = session["activate"].turn + 1
  BY <1>1, LoopTurns DEF Dep!SaveUnit
<1>6. \A j \in DOMAIN Deployed :
        j <= session["activate"].turn => backup'[dep][Deployed[j]] = before.units[Deployed[j]]
  <2> TAKE j \in DOMAIN Deployed
  <2>1. CASE Deployed[j] = u
    BY <1>5, <2>1
  <2>2. CASE Deployed[j] # u
    <3>1. j # session["activate"].turn
      BY <1>1, <2>2
    <3>2. j <= session["activate"].turn => j < session["activate"].turn
      BY <1>7, <3>1, UnitsInOrder
    <3> QED
      BY <1>4, <1>5, <2>2, <3>2, UnitsInOrder
  <2> QED
    BY <2>1, <2>2
<1>8. PICK left :
        /\ session' = [session EXCEPT !["activate"] = left] /\ session'["activate"] = left
        /\ session'["prepare"] = session["prepare"]
        /\ \/ session["activate"].turn = Len(Deployed) /\ left.at = "move"
           \/ /\ session["activate"].turn < Len(Deployed)
              /\ left.at = "save" /\ left.turn = session["activate"].turn + 1
  BY <1>1, <1>7, SomeScripts
<1>9. BeforeMove'
  <2>1. CASE left.at = "move"
    <3>1. session["activate"].turn = Len(Deployed)
      BY <1>8, <2>1
    <3>2. \A v \in DepUnits : backup'[dep][v] = before.units[v]
      BY <1>6, <3>1, UnitsInOrder
    <3>3. Dep!Saved'
      BY <1>1, <1>7, <3>2 DEF Dep!Saved, DepUnits, Dep!dep, dep
    <3> QED
      BY <1>1, <1>3, <1>7, <1>8, <2>1, <3>3 DEF DeployInv, BeforeMove, dep, was
  <2>2. CASE left.at = "save" /\ left.turn = session["activate"].turn + 1
    <3>1. \A j \in DOMAIN Deployed :
            j < left.turn => backup'[dep][Deployed[j]] = before.units[Deployed[j]]
      BY <1>6, <1>7, <2>2, UnitsInOrder
    <3> QED
      BY <1>1, <1>3, <1>7, <1>8, <2>2, <3>1 DEF DeployInv, BeforeMove, dep, was
  <2> QED
    BY <1>8, <2>1, <2>2
<1> QED
  BY <1>1, <1>7, <1>8, <1>9, ActivateMoves

\* NoUnitToSave keeps DeployInv: nothing has been moved yet.
LEMMA NoUnitToSaveKeeps ==
  ASSUME Typing, SessionInv, Whereabouts, DeployInv, Dep!NoUnitToSave
  PROVE  DeployInv'
<1>1. /\ "activate" \in Dep!Scripts /\ On("activate") /\ UNCHANGED cutOff /\ DataKept
      /\ session["activate"].at = "save"
  BY SomeScripts
    DEF Dep!NoUnitToSave, Dep!Is, On, Dep!historyVars, Dep!treeVars, Dep!unitVars, DataKept
<1> QED
  BY <1>1, UnheardKeeps, FailureKeeps DEF Dep!NoUnitToSave, Dep!Breaks, Dep!Off, Dep!At

\* MoveCurrent keeps DeployInv: from here on there is a way back.
LEMMA MoveCurrentKeeps ==
  ASSUME Typing, SessionInv, Whereabouts, DeployInv, Dep!MoveCurrent
  PROVE  DeployInv'
<1>1. /\ "activate" \in Dep!Scripts /\ On("activate")
      /\ UNCHANGED <<cutOff, late, candidate, units, backup, before>>
      /\ session["activate"].at = "move"
      /\ previous' = [previous EXCEPT ![dep] = current] /\ current' = None
  BY SomeScripts
    DEF Dep!MoveCurrent, Dep!Is, On, Dep!historyVars, Dep!unitVars, Dep!dep, dep
<1>2. dep \in Dep!Deploys /\ DOMAIN previous = Dep!Deploys
  BY <1>1, ActivateOn DEF InDeployment, Typing, TypeOK, Dep!TypeOK
<1>3. current = was /\ units = before.units /\ was # None /\ Dep!Saved
  BY <1>1 DEF DeployInv, BeforeMove
<1>4. /\ session' = [session EXCEPT !["activate"] = Dep!At("place")] /\ UNCHANGED local
      /\ session'["activate"].at = "place" /\ session'["prepare"] = session["prepare"]
  BY <1>1, SomeScripts DEF Dep!MoveCurrent, Dep!Goto, Dep!At, Typing, TypeOK, Dep!TypeOK
<1>5. previous'[dep] = was /\ Dep!Saved'
  BY <1>1, <1>2, <1>3, <1>4 DEF Dep!Saved, Dep!dep, dep
<1>6. BeforeMove'
  BY <1>1, <1>3, <1>4, <1>5, ActivateOn DEF DeployInv, BeforeMove, WayBack, dep, was, On
<1> QED
  BY <1>1, <1>4, <1>6, ActivateMoves

\* PlaceCandidate and restore_on_error keep DeployInv.
LEMMA PlaceCandidateKeeps ==
  ASSUME Typing, SessionInv, Whereabouts, DeployInv, Dep!PlaceCandidate \/ Dep!RestoreOnError
  PROVE  DeployInv'
<1>1. /\ "activate" \in Dep!Scripts /\ On("activate")
      /\ UNCHANGED <<cutOff, late, units, backup, before>>
      /\ session["activate"].at = "place"
  BY SomeScripts
    DEF Dep!PlaceCandidate, Dep!RestoreOnError, Dep!Is, On, Dep!historyVars, Dep!unitVars
<1>2. WayBack /\ units = before.units
  BY <1>1 DEF DeployInv, BeforeMove
<1>3. CASE Dep!EndsUnheard("activate")
  <2>1. /\ session' = [session EXCEPT !["activate"] = Dep!Off] /\ UNCHANGED local
        /\ session'["activate"].at = "off" /\ session'["prepare"] = session["prepare"]
        /\ local.at # "activate"
    BY <1>1, <1>3, SomeScripts DEF Dep!EndsUnheard, Dep!Off, Dep!At, Typing, TypeOK, Dep!TypeOK
  <2>2. BeforeMove'
    BY <1>1, <2>1, ActivateOn DEF BeforeMove, On
  <2> QED
    BY <1>1, <2>1, <2>2, ActivateMoves
<1>4. CASE local.at = "activate"
  <2>1. candidate[dep] = [commit |-> local.commit, by |-> dep, sha |-> None, proof |-> None]
    BY <1>4 DEF DeployInv, BeforeMove
  <2>2. candidate[dep] # None
    <3>1. candidate[dep] \in Dep!Tree
      <4>1. local.commit \in Commits /\ dep \in 0 .. MaxDeploys
        <5>1. InDeployment
          BY <1>1, ActivateOn
        <5> QED
          BY <5>1 DEF InDeployment, Dep!Deploys
      <4> QED
        BY <2>1, <4>1 DEF Dep!Tree
    <3> QED
      BY <3>1, Constants
  <2>3. Dep!PlaceCandidate /\ Dep!Succeeds("activate")
    BY <1>4, <2>2
      DEF Dep!PlaceCandidate, Dep!RestoreOnError, Dep!Ends, Dep!EndsUnheard, Dep!dep, dep
  <2>4. /\ local'.at = "install" /\ local'.report = "none"
        /\ local'.d = local.d /\ local'.commit = local.commit
        /\ ~local'.undone /\ session'["install"].at = "go"
        /\ \A t \in Dep!Scripts \ {"install"} : session'[t].at = "off"
    BY <2>3, ForwardSucceeds, ScriptOrder DEF Replaced
  <2>5. OthersStay'
    BY <1>1, ActivateOn, OthersKept DEF DeployInv, RollbackInv
  <2>6. /\ current' # None /\ current'.commit = local.commit /\ current'.by = dep
        /\ UNCHANGED previous
    BY <2>1, <2>2, <2>3 DEF Dep!PlaceCandidate, Dep!dep, dep
  <2>7. WayBack'
    BY <1>1, <1>2, <2>4, <2>6 DEF WayBack, Dep!Saved, Dep!dep, dep, was
  <2> QED
    BY <2>4, <2>5, <2>6, <2>7, NextOpened DEF Replaced, dep
<1> QED
  BY <1>3, <1>4
    DEF Dep!PlaceCandidate, Dep!RestoreOnError, Dep!Ends, Dep!Breaks, Dep!Succeeds, Dep!Errs

\* What is on beside a session that comes after the move.
LEMMA ReplacedOn ==
  ASSUME Typing, SessionInv, NEW s \in Replaced, On(s)
  PROVE  /\ s \in Dep!Scripts /\ ~Dep!Quiet /\ InDeployment
         /\ ~On("prepare") /\ ~On("activate") /\ local.at \notin {"prepare", "activate"}
         /\ local.report # "verified"
         /\ local.at # s => local.at \notin ForwardScripts /\ cutOff = TRUE
         /\ local.at = s => ~local.undone /\ local.report = "none"
                            /\ \A t \in Dep!Scripts \ {s} : ~On(t)
<1>1. s \in Dep!Scripts /\ s \in ForwardScripts
  BY SomeScripts DEF Replaced, ForwardScripts
<1>2. ~Dep!Quiet
  BY <1>1 DEF Dep!Quiet, On
<1>3. local.at # "idle" => local.at \in Dep!Scripts
  BY DEF Typing, TypeOK, Dep!TypeOK
<1>4. cutOff \in BOOLEAN
  BY DEF Typing, TypeOK, Dep!TypeOK
<1>5. "prepare" \in Dep!Scripts /\ "activate" \in Dep!Scripts
      /\ "prepare" \notin Replaced /\ "activate" \notin Replaced /\ "rollback" \notin Replaced
      /\ "discard" \notin Replaced /\ "idle" \notin Replaced
  BY SomeScripts DEF Replaced
<1> HIDE DEF On
<1>6. local.at # s => local.at \notin ForwardScripts /\ cutOff = TRUE
  BY <1>1, <1>4 DEF SessionInv
<1>7. local.at \notin {"prepare", "activate"}
  BY <1>5, <1>6 DEF ForwardScripts
<1>8. ~On("prepare") /\ ~On("activate")
  BY DEF SessionInv
<1>9. local.at = s => ~local.undone /\ local.report = "none" /\ \A t \in Dep!Scripts \ {s} : ~On(t)
  BY <1>1, <1>5 DEF SessionInv
<1>10. local.report # "verified"
  BY <1>2 DEF SessionInv
<1> QED
  BY <1>1, <1>2, <1>6, <1>7, <1>8, <1>9, <1>10, DeploymentUnderWay

\* A step of a session that is waited for keeps DeployInv if it keeps AfterMove.
LEMMA ReplacedMoves ==
  ASSUME Typing, SessionInv, DeployInv, NEW s \in Replaced, On(s), local.at = s, NEW left,
         session' = [session EXCEPT ![s] = left],
         UNCHANGED <<local, before>>,
         UNCHANGED units \/ \E u \in DepUnits : \E c : units' = [units EXCEPT ![u] = c],
         AfterMove'
  PROVE  DeployInv'
<1>1. {"prepare", "activate", "rollback"} \subseteq Dep!Scripts
      /\ s \notin {"prepare", "activate", "rollback"}
      /\ session \in [Dep!Scripts -> SessionState]
  BY SomeScripts DEF Replaced, Typing, TypeOK, Dep!TypeOK, SessionState
<1>2. session'["prepare"].at = "off" /\ session'["activate"].at = "off"
      /\ session'["rollback"].at = "off"
  BY <1>1, ReplacedOn DEF On
<1>3. BeforeMove'
  BY <1>2, ReplacedOn DEF BeforeMove, On
<1>4. OthersStay'
  BY ReplacedOn, OthersKept DEF DeployInv, RollbackInv
<1>5. RollingBack'
  BY <1>2 DEF RollingBack
<1>6. Restoring'
  BY ReplacedOn DEF Restoring
<1> QED
  BY <1>3, <1>4, <1>5, <1>6 DEF DeployInv, RollbackInv

\* A session nobody waits for: what it writes into the tree is not the tree itself,
\* and the units it installs are those of the tree it finds.
LEMMA StrayKeeps ==
  ASSUME Typing, SessionInv, DeployInv, NEW s \in Replaced, On(s), local.at # s, NEW left,
         session' = [session EXCEPT ![s] = left],
         UNCHANGED <<local, before, previous, backup, cutOff, late>>,
         current' = current \/ (/\ current # None /\ current' # None
                                /\ current'.commit = current.commit /\ current'.by = current.by),
         UNCHANGED units
           \/ (/\ current # None
               /\ \E u \in DepUnits : units' = [units EXCEPT ![u] = current.commit])
  PROVE  DeployInv'
<1>1. {"prepare", "activate", "rollback"} \subseteq Dep!Scripts
      /\ s \notin {"prepare", "activate", "rollback"}
      /\ session \in [Dep!Scripts -> SessionState] /\ units \in UnitFiles
  BY SomeScripts, TypesSplit DEF Replaced, Typing, DataTypes
<1>2. session'["prepare"].at = "off" /\ session'["activate"].at = "off"
      /\ session'["rollback"] = session["rollback"]
  BY <1>1, ReplacedOn DEF On
<1>3. BeforeMove'
  BY <1>2, ReplacedOn DEF BeforeMove, On
<1>4. AfterMove'
  BY ReplacedOn DEF AfterMove, Dep!VerifiedLeavesWayBack, Dep!Reported, Replaced, ForwardScripts
<1>5. OthersStay'
  BY ReplacedOn, OthersKept DEF DeployInv, RollbackInv
<1>6. /\ WayBack' <=> WayBack
      /\ Dep!Saved' <=> Dep!Saved
      /\ (previous[dep] = was)' <=> previous[dep] = was
      /\ Dep!IsTree(current, was)' <=> Dep!IsTree(current, was)
      /\ Sure' => Sure /\ Dep!FoundPaired
      /\ cutOff' = TRUE
      /\ UNCHANGED <<was, before>>
  <2>1. UNCHANGED <<was, dep>> /\ cutOff = TRUE
    BY ReplacedOn DEF was, dep
  <2>2. Dep!Saved' <=> Dep!Saved
    BY <2>1 DEF Dep!Saved, Dep!dep, dep
  <2>3. Dep!IsTree(current, was)' <=> Dep!IsTree(current, was)
    BY <2>1 DEF Dep!IsTree
  <2>4. Sure' => Sure /\ Dep!FoundPaired
    BY <2>1 DEF Sure, Dep!FoundPaired
  <2> QED
    BY <2>1, <2>2, <2>3, <2>4 DEF WayBack
<1>7. ASSUME Dep!IsTree(current, was), was # None, Sure'
      PROVE  \A v \in Units : units'[v] \in {units[v], before.units[v]}
  <2>1. \A u \in DepUnits : before.units[u] = current.commit
    BY <1>6, <1>7 DEF Dep!FoundPaired, Dep!IsTree, was, DepUnits
  <2> QED
    BY <1>1, <2>1 DEF UnitFiles
<1>8. (before.units \in UnitFiles /\ units' \in UnitFiles) \/ UNCHANGED units
  <2>1. ASSUME NEW u \in DepUnits, current # None PROVE current.commit \in Commits
    BY <2>1, TypesSplit DEF Typing, DataTypes, Dep!TreeOrNone, Dep!Tree
  <2> QED
    BY <1>1, <2>1 DEF UnitFiles, Typing
<1>9. ASSUME Dep!IsTree(current, was), was # None, Sure', units = before.units
      PROVE  units' = before.units
  <2>1. \A v \in Units : units'[v] = before.units[v]
    BY <1>7, <1>9
  <2> QED
    BY <1>8, <1>9, <2>1 DEF UnitFiles
<1>10. RollingBack'
  <2>1. ASSUME session["rollback"].at = "restore", Sure', NEW j \in DOMAIN Deployed,
               j < session["rollback"].turn
        PROVE  units'[Deployed[j]] = before.units[Deployed[j]]
    <3>1. units[Deployed[j]] = before.units[Deployed[j]]
      BY <1>6, <2>1 DEF DeployInv, RollbackInv, RollingBack
    <3>2. Dep!IsTree(current, was) /\ was # None
      BY <2>1 DEF DeployInv, RollbackInv, RollingBack
    <3>3. Deployed[j] \in Units
      BY UnitsInOrder, Constants
    <3> QED
      BY <1>7, <2>1, <3>1, <3>2, <3>3
  <2>2. session["rollback"].at \in {"start", "examine", "clean"} /\ Sure' => units' = before.units
    BY <1>6, <1>9 DEF DeployInv, RollbackInv, RollingBack
  <2> QED
    BY <1>2, <1>6, <2>1, <2>2 DEF DeployInv, RollbackInv, RollingBack
<1>11. Restoring'
  <2>1. local.undone => Dep!IsTree(current, was) /\ was # None /\ (Sure' => units' = before.units)
    BY <1>6, <1>9 DEF DeployInv, RollbackInv, Restoring
  <2>2. ASSUME local.report = "rollback failed", ~On("rollback"), Sure'
        PROVE  \/ Dep!Saved /\ (Dep!IsTree(current, was) \/ previous[dep] = was)
               \/ Dep!IsTree(current, was) /\ units' = before.units
    <3>1. was # None
      BY <1>6, <2>2 DEF Dep!FoundPaired, was
    <3> QED
      BY <1>6, <1>9, <2>2, <3>1 DEF DeployInv, RollbackInv, Restoring
  <2>3. On("rollback")' <=> On("rollback")
    BY <1>2 DEF On
  <2> QED
    BY <1>6, <2>1, <2>2, <2>3 DEF Restoring
<1> QED
  BY <1>3, <1>4, <1>5, <1>10, <1>11 DEF DeployInv, RollbackInv

\* Steps around the loop of the installation keep DeployInv.
LEMMA InstallStepsKeep ==
  ASSUME Typing, SessionInv, Whereabouts, DeployInv,
         Dep!OpenInstall \/ Dep!NoUnitToInstall \/ Dep!Restart
  PROVE  DeployInv'
<1> DEFINE s == "install"
<1>1. s \in Replaced /\ s \in Dep!Scripts /\ s # "activate" /\ On(s)
      /\ UNCHANGED <<current, units, accepted, before, cutOff, late, previous, backup>> /\ DataKept
  BY SomeScripts DEF Dep!OpenInstall, Dep!NoUnitToInstall, Dep!Restart, Dep!Is, On,
     Dep!historyVars, Dep!treeVars, Dep!unitVars, DataKept, Replaced
<1>2. local.at = s => WayBack /\ current # None /\ current.commit = local.commit /\ current.by = dep
  BY <1>1 DEF DeployInv, AfterMove
<1>3. CASE Dep!OpenInstall
  <2>1. /\ session' = [session EXCEPT ![s] = Dep!At("units")] /\ UNCHANGED local
        /\ session'[s].at = "units" /\ session'[s].turn = 1
    BY <1>1, <1>3 DEF Dep!OpenInstall, Dep!Goto, Dep!At, Typing, TypeOK, Dep!TypeOK
  <2>2. CASE local.at # s
    BY <1>1, <2>1, <2>2, StrayKeeps
  <2>3. CASE local.at = s
    <3>1. \A j \in DOMAIN Deployed : ~(j < 1)
      BY UnitsInOrder
    <3>2. WayBack' /\ dep' = dep /\ current' = current
      BY <1>1, <1>2, <2>1, <2>3 DEF WayBack, Dep!Saved, Dep!dep, dep, was
    <3>3. AfterMove'
      BY <1>2, <2>1, <2>3, <3>1, <3>2, ReplacedOn, <1>1
        DEF AfterMove, Replaced, Dep!VerifiedLeavesWayBack, Dep!Reported
    <3> QED
      BY <1>1, <2>1, <2>3, <3>3, ReplacedMoves
  <2> QED
    BY <2>2, <2>3
<1>4. CASE Dep!NoUnitToInstall
  BY <1>1, <1>4, UnheardKeeps, FailureKeeps DEF Dep!NoUnitToInstall, Dep!Breaks, Dep!Off, Dep!At
<1>5. CASE Dep!Restart
  <2>1. CASE Dep!EndsUnheard(s)
    BY <1>1, <2>1, UnheardKeeps
  <2>2. CASE Dep!Succeeds(s)
    <3>1. /\ local.at = s /\ local'.at = "accept" /\ local'.report = "none"
          /\ local'.d = local.d /\ local'.commit = local.commit
          /\ ~local'.undone /\ session'["accept"].at = "go"
          /\ \A t \in Dep!Scripts \ {"accept"} : session'[t].at = "off"
      BY <2>2, ForwardSucceeds, ScriptOrder DEF Replaced
    <3>2. session[s].at = "start"
      BY <1>5 DEF Dep!Restart, Dep!Is
    <3>3. \A u \in DepUnits : units[u] = local.commit
      BY <3>1, <3>2 DEF DeployInv, AfterMove
    <3>4. OthersStay'
      BY <1>1, ReplacedOn, OthersKept DEF DeployInv, RollbackInv
    <3>5. WayBack' /\ dep' = dep /\ UNCHANGED <<current, units>>
      BY <1>1, <1>2, <3>1 DEF WayBack, Dep!Saved, Dep!dep, dep, was
    <3> QED
      BY <1>2, <3>1, <3>3, <3>4, <3>5, NextOpened DEF Replaced
  <2> QED
    BY <1>5, <2>1, <2>2 DEF Dep!Restart, Dep!Ends
<1> QED
  BY <1>3, <1>4, <1>5

\* InstallUnit keeps DeployInv.
LEMMA InstallUnitKeeps ==
  ASSUME Typing, SessionInv, Whereabouts, DeployInv, NEW u \in DepUnits, Dep!InstallUnit(u)
  PROVE  DeployInv'
<1> DEFINE s == "install"
<1>1. s \in Replaced /\ s \in Dep!Scripts /\ On(s) /\ session[s].at = "units"
      /\ UNCHANGED <<current, before, cutOff, late, previous, backup>>
      /\ current # None /\ units' = [units EXCEPT ![u] = current.commit]
      /\ u = Deployed[session[s].turn]
  BY SomeScripts DEF Dep!InstallUnit, Dep!Loop, Dep!Is, On, Dep!historyVars, Dep!treeVars, Replaced
<1>2. UNCHANGED local /\ session[s].turn \in 1 .. Len(Deployed)
  BY <1>1, LoopTurns DEF Dep!InstallUnit
<1>3. PICK left :
        /\ session' = [session EXCEPT ![s] = left] /\ session'[s] = left
        /\ \/ session[s].turn = Len(Deployed) /\ left.at = "start"
           \/ /\ session[s].turn < Len(Deployed)
              /\ left.at = "units" /\ left.turn = session[s].turn + 1
  BY <1>1, LoopTurns DEF Dep!InstallUnit
<1>4. CASE local.at # s
  BY <1>1, <1>2, <1>3, <1>4, StrayKeeps
<1>5. CASE local.at = s
  <2>1. WayBack /\ current.commit = local.commit /\ current.by = dep
    BY <1>1, <1>5 DEF DeployInv, AfterMove
  <2>2. \A j \in DOMAIN Deployed : j < session[s].turn => units[Deployed[j]] = local.commit
    BY <1>1, <1>5 DEF DeployInv, AfterMove
  <2>3. units \in UnitFiles /\ DepUnits \subseteq Units
    BY TypesSplit, Constants DEF Typing, DataTypes
  <2>4. units'[u] = local.commit /\ \A v \in DepUnits : v # u => units'[v] = units[v]
    BY <1>1, <2>1, <2>3 DEF UnitFiles
  <2>5. \A j \in DOMAIN Deployed : j <= session[s].turn => units'[Deployed[j]] = local.commit
    <3> TAKE j \in DOMAIN Deployed
    <3>1. CASE Deployed[j] = u
      BY <2>4, <3>1
    <3>2. CASE Deployed[j] # u
      <4>1. j # session[s].turn
        BY <1>1, <3>2
      <4>2. j <= session[s].turn => j < session[s].turn
        BY <1>2, <4>1, UnitsInOrder
      <4> QED
        BY <2>2, <2>4, <3>2, <4>2, UnitsInOrder
    <3> QED
      BY <3>1, <3>2
  <2>6. WayBack' /\ dep' = dep
    BY <1>1, <1>2, <2>1 DEF WayBack, Dep!Saved, Dep!dep, dep, was
  <2>7. AfterMove'
    <3>1. CASE left.at = "start"
      <4>1. \A v \in DepUnits : units'[v] = local.commit
        BY <1>3, <2>5, <3>1, UnitsInOrder
      <4> QED
        BY <1>1, <1>2, <1>3, <1>5, <2>1, <2>6, <3>1, <4>1, ReplacedOn
          DEF AfterMove, Replaced, Dep!VerifiedLeavesWayBack, Dep!Reported
    <3>2. CASE left.at = "units" /\ left.turn = session[s].turn + 1
      <4>1. \A j \in DOMAIN Deployed : j < left.turn => units'[Deployed[j]] = local.commit
        BY <1>2, <2>5, <3>2, UnitsInOrder
      <4> QED
        BY <1>1, <1>2, <1>3, <1>5, <2>1, <2>6, <3>2, <4>1, ReplacedOn
          DEF AfterMove, Replaced, Dep!VerifiedLeavesWayBack, Dep!Reported
    <3> QED
      BY <1>3, <3>1, <3>2
  <2> QED
    BY <1>1, <1>2, <1>3, <1>5, <2>7, ReplacedMoves
<1> QED
  BY <1>4, <1>5

\* InstallLate keeps DeployInv: nothing is promised of the units any more.
LEMMA InstallLateKeeps ==
  ASSUME Typing, SessionInv, Whereabouts, DeployInv, NEW u \in DepUnits, Dep!InstallLate(u)
  PROVE  DeployInv'
<1> DEFINE s == "install"
<1>1. s \in Replaced /\ s \in Dep!Scripts /\ On(s) /\ local.at # s
      /\ UNCHANGED <<current, before, cutOff, previous, backup>>
      /\ late' = TRUE /\ units' = [units EXCEPT ![u] = local.commit]
  BY SomeScripts DEF Dep!InstallLate, Dep!Loop, Dep!Is, On, Dep!treeVars, Replaced
<1>2. UNCHANGED local /\ \A t \in Dep!Scripts : t # s => session'[t] = session[t]
  BY <1>1, LoopTurns DEF Dep!InstallLate
<1>3. {"prepare", "activate", "rollback"} \subseteq Dep!Scripts
      /\ s \notin {"prepare", "activate", "rollback"}
  BY SomeScripts
<1>4. session'["prepare"].at = "off" /\ session'["activate"].at = "off"
      /\ session'["rollback"] = session["rollback"]
  BY <1>1, <1>2, <1>3, ReplacedOn DEF On
<1>5. BeforeMove'
  BY <1>1, <1>2, <1>4, ReplacedOn DEF BeforeMove, On
<1>6. AfterMove'
  BY <1>1, <1>2, ReplacedOn
    DEF AfterMove, Dep!VerifiedLeavesWayBack, Dep!Reported, Replaced, ForwardScripts
<1>7. OthersStay'
  BY <1>1, ReplacedOn, OthersKept DEF DeployInv, RollbackInv
<1>8. UNCHANGED <<was, dep, current, previous, backup, before>> /\ cutOff' = TRUE /\ ~Sure'
  BY <1>1, <1>2, ReplacedOn DEF was, dep, Sure
<1>9. /\ Dep!Saved' <=> Dep!Saved
      /\ Dep!IsTree(current, was)' <=> Dep!IsTree(current, was)
  BY <1>2, <1>8 DEF Dep!Saved, Dep!dep, dep, Dep!IsTree
<1>10. WayBack' <=> WayBack
  BY <1>8, <1>9 DEF WayBack
<1>11. RollingBack'
  BY <1>4, <1>8, <1>9, <1>10 DEF DeployInv, RollbackInv, RollingBack
<1>12. Restoring'
  BY <1>2, <1>8, <1>9 DEF DeployInv, RollbackInv, Restoring
<1> QED
  BY <1>5, <1>6, <1>7, <1>11, <1>12 DEF DeployInv, RollbackInv

\* Accept keeps DeployInv.
LEMMA AcceptKeeps ==
  ASSUME Typing, SessionInv, Whereabouts, DeployInv, Dep!Accept
  PROVE  DeployInv'
<1> DEFINE s == "accept"
<1>1. s \in Replaced /\ s \in Dep!Scripts /\ s # "activate" /\ On(s)
      /\ UNCHANGED <<current, units, before, cutOff, late, previous, backup>> /\ DataKept
  BY SomeScripts DEF Dep!Accept, Dep!Is, On, Dep!treeVars, Dep!unitVars, DataKept, Replaced
<1>2. CASE Dep!EndsUnheard(s)
  BY <1>1, <1>2, UnheardKeeps
<1>3. CASE Dep!Succeeds(s) /\ accepted' = accepted \cup {current.by}
  <2>1. /\ local.at = s /\ local'.at = "record" /\ local'.report = "none"
        /\ local'.d = local.d /\ local'.commit = local.commit
        /\ ~local'.undone /\ session'["record"].at = "go"
        /\ \A t \in Dep!Scripts \ {"record"} : session'[t].at = "off"
    BY <1>3, ForwardSucceeds, ScriptOrder DEF Replaced
  <2>2. /\ WayBack /\ current # None /\ current.commit = local.commit /\ current.by = dep
        /\ \A u \in DepUnits : units[u] = local.commit
    BY <1>1, <2>1 DEF DeployInv, AfterMove
  <2>3. OthersStay'
    BY <1>1, ReplacedOn, OthersKept DEF DeployInv, RollbackInv
  <2>4. WayBack' /\ dep' = dep /\ UNCHANGED <<current, units>> /\ dep \in accepted'
    BY <1>1, <1>3, <2>1, <2>2 DEF WayBack, Dep!Saved, Dep!dep, dep, was
  <2> QED
    BY <2>1, <2>2, <2>3, <2>4, NextOpened DEF Replaced
<1>4. CASE Dep!Errs(s, Dep!Off)
  BY <1>1, <1>4, FailureKeeps
<1> QED
  BY <1>2, <1>3, <1>4 DEF Dep!Accept, Dep!Ends, Dep!Breaks

\* A command of the record that is not the last one keeps DeployInv, whatever it writes
\* about the tree.
LEMMA RecordGoesOn ==
  ASSUME Typing, SessionInv, DeployInv, On("record"), NEW place, Dep!Goto("record", place),
         place \in {"sha", "branch"},
         UNCHANGED <<units, before, cutOff, late, previous, backup, accepted>>,
         current' = current \/ (/\ current # None /\ current' # None
                                /\ current'.commit = current.commit /\ current'.by = current.by)
  PROVE  DeployInv'
<1> DEFINE s == "record"
<1>1. s \in Replaced
  BY DEF Replaced
<1>2. session' = [session EXCEPT ![s] = Dep!At(place)] /\ UNCHANGED local
  BY DEF Dep!Goto
<1>3. CASE local.at # s
  BY <1>1, <1>2, <1>3, StrayKeeps
<1>4. CASE local.at = s
  <2>1. /\ WayBack /\ current # None /\ current.commit = local.commit /\ current.by = dep
        /\ \A u \in DepUnits : units[u] = local.commit
        /\ dep \in accepted
    BY <1>1, <1>4 DEF DeployInv, AfterMove
  <2>2. WayBack' /\ dep' = dep
    BY <1>2, <2>1 DEF WayBack, Dep!Saved, Dep!dep, dep, was
  <2>3. AfterMove'
    BY <1>1, <1>2, <1>4, <2>1, <2>2, ReplacedOn
      DEF AfterMove, Replaced, Dep!VerifiedLeavesWayBack, Dep!Reported
  <2> QED
    BY <1>1, <1>2, <1>4, <2>3, ReplacedMoves
<1> QED
  BY <1>3, <1>4

\* RecordProof, RecordSha and PassOverRecord keep DeployInv.
LEMMA RecordKeeps ==
  ASSUME Typing, SessionInv, Whereabouts, DeployInv,
         Dep!RecordProof \/ Dep!RecordSha \/ Dep!PassOverRecord
  PROVE  DeployInv'
<1>1. On("record") /\ "record" \in Replaced
  BY DEF Dep!RecordProof, Dep!RecordSha, Dep!PassOverRecord, Dep!Is, On, Replaced
<1>2. local.commit \in Commits /\ current \in Dep!TreeOrNone
  BY <1>1, ReplacedOn, TypesSplit DEF InDeployment, Typing, DataTypes
<1>3. /\ UNCHANGED <<units, before, cutOff, late, previous, backup, accepted>>
      /\ \E place \in {"sha", "branch"} : Dep!Goto("record", place)
      /\ \/ current' = current
         \/ current # None /\ current' = [current EXCEPT !.proof = local.commit]
         \/ current # None /\ current' = [current EXCEPT !.sha = local.commit]
  BY DEF Dep!RecordProof, Dep!RecordSha, Dep!PassOverRecord, Dep!Writes, Dep!unitVars,
         Dep!treeVars, Dep!historyVars
<1>4. ASSUME current # None, current' # current
      PROVE  current' # None /\ current'.commit = current.commit /\ current'.by = current.by
  <2>1. /\ current' \in Dep!Tree
        /\ current'.commit = current.commit /\ current'.by = current.by
    BY <1>2, <1>3, <1>4 DEF Dep!TreeOrNone, Dep!Tree
  <2> QED
    BY <2>1, Constants
<1> QED
  BY <1>1, <1>3, <1>4, RecordGoesOn

\* RecordBranch keeps DeployInv.
LEMMA RecordBranchKeeps ==
  ASSUME Typing, SessionInv, Whereabouts, DeployInv, Dep!RecordBranch
  PROVE  DeployInv'
<1> DEFINE s == "record"
<1>1. s \in Replaced /\ s \in Dep!Scripts /\ s # "activate" /\ On(s)
      /\ UNCHANGED <<current, units, accepted, before, cutOff, late, previous, backup>> /\ DataKept
  BY SomeScripts
    DEF Dep!RecordBranch, Dep!Is, On, Dep!historyVars, Dep!treeVars, Dep!unitVars, DataKept,
        Replaced
<1>2. CASE Dep!Breaks(s)
  BY <1>1, <1>2, UnheardKeeps, FailureKeeps DEF Dep!Breaks, Dep!Off, Dep!At
<1>3. CASE Dep!EndsUnheard(s)
  BY <1>1, <1>3, UnheardKeeps
<1>4. CASE Dep!Succeeds(s)
  <2>1. /\ local.at = s /\ local'.at = "verify" /\ local'.report = "none"
        /\ local'.d = local.d /\ local'.commit = local.commit
        /\ ~local'.undone /\ session'["verify"].at = "go"
        /\ \A t \in Dep!Scripts \ {"verify"} : session'[t].at = "off"
    BY <1>4, ForwardSucceeds, ScriptOrder DEF Replaced
  <2>2. /\ WayBack /\ current # None /\ current.commit = local.commit /\ current.by = dep
        /\ \A u \in DepUnits : units[u] = local.commit
        /\ dep \in accepted
    BY <1>1, <2>1 DEF DeployInv, AfterMove
  <2>3. OthersStay'
    BY <1>1, ReplacedOn, OthersKept DEF DeployInv, RollbackInv
  <2>4. WayBack' /\ dep' = dep
    BY <1>1, <2>1, <2>2 DEF WayBack, Dep!Saved, Dep!dep, dep, was
  <2> QED
    BY <1>1, <2>1, <2>2, <2>3, <2>4, NextOpened DEF Replaced
<1> QED
  BY <1>2, <1>3, <1>4 DEF Dep!RecordBranch, Dep!Ends

\* Verify keeps DeployInv.
LEMMA VerifyKeeps ==
  ASSUME Typing, SessionInv, Whereabouts, DeployInv, Dep!Verify
  PROVE  DeployInv'
<1> DEFINE s == "verify"
<1>1. s \in Replaced /\ s \in Dep!Scripts /\ s # "activate" /\ On(s)
      /\ UNCHANGED <<current, units, accepted, before, cutOff, late, previous, backup>> /\ DataKept
  BY SomeScripts
    DEF Dep!Verify, Dep!Is, On, Dep!historyVars, Dep!treeVars, Dep!unitVars, DataKept, Replaced
<1>2. CASE Dep!Breaks(s)
  BY <1>1, <1>2, UnheardKeeps, FailureKeeps DEF Dep!Breaks, Dep!Off, Dep!At
<1>3. CASE Dep!EndsUnheard(s)
  BY <1>1, <1>3, UnheardKeeps
<1>4. CASE Dep!Succeeds(s) /\ current.sha = local.commit /\ current.proof = local.commit
  <2>1. /\ local.at = s /\ local'.at = "tidy" /\ local'.report = "none"
        /\ local'.d = local.d /\ local'.commit = local.commit
        /\ ~local'.undone /\ session'["tidy"].at = "go"
        /\ \A t \in Dep!Scripts \ {"tidy"} : session'[t].at = "off"
    BY <1>4, ForwardSucceeds, ScriptOrder DEF Replaced
  <2>2. /\ WayBack /\ current # None /\ current.commit = local.commit /\ current.by = dep
        /\ \A u \in DepUnits : units[u] = local.commit
        /\ dep \in accepted
    BY <1>1, <2>1 DEF DeployInv, AfterMove, Replaced
  <2>3. OthersStay'
    BY <1>1, ReplacedOn, OthersKept DEF DeployInv, RollbackInv
  <2>4. WayBack' /\ dep' = dep
    BY <1>1, <2>1, <2>2 DEF WayBack, Dep!Saved, Dep!dep, dep, was
  <2> QED
    BY <1>1, <1>4, <2>1, <2>2, <2>3, <2>4, NextOpened DEF Replaced
<1> QED
  BY <1>2, <1>3, <1>4 DEF Dep!Verify, Dep!Ends

\* Tidy keeps DeployInv: what is reported verified is whole, and so is the way back.
LEMMA TidyKeeps ==
  ASSUME Typing, SessionInv, Whereabouts, DeployInv, Dep!Tidy
  PROVE  DeployInv'
<1> DEFINE s == "tidy"
<1>1. s \in Replaced /\ s \in Dep!Scripts /\ On(s)
      /\ UNCHANGED <<current, units, before, cutOff, late, previous, backup>> /\ DataKept
      /\ current \in Dep!TreeOrNone
  BY SomeScripts, TypesSplit
    DEF Dep!Tidy, Dep!Is, On, Dep!historyVars, Dep!treeVars, Dep!unitVars, DataKept, Replaced,
        Typing, DataTypes
<1>2. CASE Dep!EndsUnheard(s)
  BY <1>1, <1>2, UnheardKeeps
<1>3. CASE Dep!Succeeds(s)
  <2>1. /\ local.at = s /\ local'.at = "idle" /\ local'.report = "verified"
        /\ local'.d = local.d /\ local'.commit = local.commit
        /\ local'.undone <=> local.undone
        /\ \A t \in Dep!Scripts : session'[t].at = "off"
    BY <1>1, <1>3, SuccessSteps, ScriptOrder, SomeScripts DEF ForwardScripts
  <2>2. ~local.undone
    BY <1>1, <2>1, ReplacedOn
  <2>3. /\ WayBack /\ current # None /\ current.commit = local.commit /\ current.by = dep
        /\ \A u \in DepUnits : units[u] = local.commit
        /\ current.proof = local.commit /\ current.sha = local.commit
    BY <1>1, <2>1 DEF DeployInv, AfterMove, Replaced
  <2>4. current = [commit |-> local.commit, by |-> dep, sha |-> local.commit, proof |-> local.commit]
    BY <1>1, <2>3 DEF Dep!TreeOrNone, Dep!Tree
  <2>5. Dep!IsTree(previous[dep], was) /\ Dep!Saved
    BY <2>3 DEF WayBack, Dep!IsTree
  <2>6. Dep!VerifiedLeavesWayBack'
    BY <1>1, <2>1, <2>3, <2>4, <2>5
      DEF Dep!VerifiedLeavesWayBack, Dep!IsTree, Dep!Saved, Dep!dep, dep, was, DepUnits
  <2>7. AfterMove'
    BY <2>1, <2>6 DEF AfterMove, Replaced
  <2>8. BeforeMove' /\ RollingBack' /\ Restoring'
    BY <2>1, <2>2, SomeScripts DEF BeforeMove, RollingBack, Restoring, On
  <2>9. OthersStay'
    BY <2>1, <2>2 DEF OthersStay, Dep!Quiet
  <2> QED
    BY <2>7, <2>8, <2>9 DEF DeployInv, RollbackInv
<1> QED
  BY <1>2, <1>3 DEF Dep!Tidy, Dep!Ends

\* Discard keeps DeployInv.
LEMMA DiscardKeeps ==
  ASSUME Typing, SessionInv, Whereabouts, DeployInv, Dep!Discard
  PROVE  DeployInv'
<1> DEFINE s == "discard"
<1>1. s \in Dep!Scripts /\ On(s) /\ UNCHANGED cutOff /\ DataKept /\ ~Dep!Quiet
      /\ {"prepare", "activate", "rollback"} \subseteq Dep!Scripts
  BY SomeScripts
    DEF Dep!Discard, Dep!Is, On, Dep!historyVars, Dep!unitVars, DataKept, Dep!Quiet
<1>2. CASE Dep!EndsUnheard(s)
  BY <1>1, <1>2, UnheardKeeps
<1>3. CASE Dep!Succeeds(s)
  <2>1. /\ local.at = s /\ local'.at = "idle" /\ local'.report = local.report
        /\ local'.d = local.d
        /\ local'.undone <=> local.undone
        /\ \A t \in Dep!Scripts \ {"discard"} : session'[t] = session[t]
    BY <1>1, <1>3, SuccessSteps, ScriptOrder, SomeScripts
  <2>2. local.report \in {"failed", "rollback failed"}
    BY <2>1 DEF SessionInv
  <2>3. BeforeMove' /\ AfterMove'
    BY <2>1, <2>2, <1>1, NothingOpened DEF DeployInv, ForwardScripts, Replaced
  <2>4. /\ WayBack' <=> WayBack
        /\ Dep!Saved' <=> Dep!Saved
        /\ Dep!AsBefore' <=> Dep!AsBefore
        /\ Dep!IsTree(current, was)' <=> Dep!IsTree(current, was)
        /\ (previous[dep] = was)' <=> previous[dep] = was
        /\ Sure' => Sure
        /\ UNCHANGED <<was, units, before, current>>
    BY <1>1, <2>1, SameData
  <2>5. OthersStay'
    BY <1>1, <2>2, <2>4 DEF DeployInv, RollbackInv, OthersStay
  <2>6. session'["rollback"] = session["rollback"]
    BY <1>1, <2>1
  <2>7. RollingBack'
    BY <2>4, <2>6 DEF DeployInv, RollbackInv, RollingBack
  <2>8. Restoring'
    BY <1>1, <2>1, <2>2, <2>4, <2>6 DEF DeployInv, RollbackInv, Restoring, On
  <2> QED
    BY <2>3, <2>5, <2>7, <2>8 DEF DeployInv, RollbackInv
<1> QED
  BY <1>2, <1>3 DEF Dep!Discard, Dep!Ends

-----------------------------------------------------------------------------
(* Deployments: the rollback.                                              *)

\* While the rollback goes on nothing forward is waited for.
LEMMA RollbackOn ==
  ASSUME Typing, SessionInv, On("rollback")
  PROVE  /\ "rollback" \in Dep!Scripts /\ ~Dep!Quiet /\ InDeployment
         /\ ~On("prepare") /\ ~On("activate") /\ ~local.undone
         /\ local.at \notin ForwardScripts
         /\ local.report # "verified"
         /\ ~cutOff => local.at = "rollback"
         /\ local.at = "rollback" => local.report = "failed"
<1>1. "rollback" \in Dep!Scripts /\ "rollback" \notin ForwardScripts
  BY SomeScripts DEF ForwardScripts, Replaced
<1>2. ~Dep!Quiet
  BY <1>1 DEF Dep!Quiet, On
<1> HIDE DEF On
<1>3. local.activated
  BY DEF SessionInv
<1>4. local.at \notin ForwardScripts
  BY <1>1 DEF SessionInv
<1> QED
  BY <1>1, <1>2, <1>3, <1>4, DeploymentUnderWay DEF SessionInv

\* A step of the rollback keeps DeployInv if it keeps RollingBack.
LEMMA RollbackMoves ==
  ASSUME Typing, SessionInv, DeployInv, On("rollback"), NEW left, left.at # "off",
         session' = [session EXCEPT !["rollback"] = left],
         UNCHANGED <<local, before, cutOff, late>>,
         UNCHANGED units \/ \E u \in DepUnits : \E c : units' = [units EXCEPT ![u] = c],
         OthersStay' => RollingBack'
  PROVE  DeployInv'
<1>1. /\ session'["prepare"].at = "off" /\ session'["activate"].at = "off"
      /\ session'["rollback"] = left
  BY RollbackOn, SomeScripts DEF On, Typing, TypeOK, Dep!TypeOK
<1>2. BeforeMove'
  BY <1>1, RollbackOn DEF BeforeMove, On, ForwardScripts
<1>3. AfterMove'
  BY RollbackOn DEF AfterMove, Dep!VerifiedLeavesWayBack, Dep!Reported, Replaced, ForwardScripts
<1>4. OthersStay'
  BY RollbackOn, OthersKept DEF DeployInv, RollbackInv
<1>5. Restoring'
  BY <1>1, RollbackOn DEF Restoring, On
<1> QED
  BY <1>2, <1>3, <1>4, <1>5 DEF DeployInv, RollbackInv

\* MoveAway keeps DeployInv.
LEMMA MoveAwayKeeps ==
  ASSUME Typing, SessionInv, Whereabouts, DeployInv, Dep!MoveAway
  PROVE  DeployInv'
<1>1. /\ On("rollback") /\ session["rollback"].at = "go" /\ UNCHANGED local
      /\ UNCHANGED <<cutOff, late, units, backup, before, previous>>
      /\ session' = [session EXCEPT !["rollback"] = Dep!At("back")]
      /\ Dep!At("back").at = "back"
  BY DEF Dep!MoveAway, Dep!Is, On, Dep!historyVars, Dep!unitVars, Dep!Goto, Dep!At
<1>2. session'["rollback"].at = "back"
  BY <1>1, RollbackOn DEF Typing, TypeOK, Dep!TypeOK
<1>3. WayBack
  BY <1>1 DEF DeployInv, RollbackInv, RollingBack
<1>4. WayBack'
  BY <1>1, <1>3 DEF WayBack, Dep!Saved, Dep!dep, dep, was
<1>5. RollingBack'
  BY <1>2, <1>4 DEF RollingBack
<1> QED
  BY <1>1, <1>5, RollbackMoves

\* MoveBack keeps DeployInv: the tree there was is in place again.
LEMMA MoveBackKeeps ==
  ASSUME Typing, SessionInv, Whereabouts, DeployInv, Dep!MoveBack
  PROVE  DeployInv'
<1>1. /\ On("rollback") /\ session["rollback"].at = "back"
      /\ UNCHANGED <<cutOff, late, units, backup, before>>
      /\ current' = previous[dep]
  BY DEF Dep!MoveBack, Dep!Is, On, Dep!historyVars, Dep!unitVars, Dep!dep, dep
<1>2. WayBack
  BY <1>1 DEF DeployInv, RollbackInv, RollingBack
<1>3. /\ session' = [session EXCEPT !["rollback"] = Dep!At("restore")] /\ UNCHANGED local
      /\ Dep!At("restore").at = "restore"
  BY <1>2 DEF Dep!MoveBack, WayBack, Dep!dep, dep, Dep!Goto, Dep!At
<1>4. session'["rollback"].at = "restore" /\ session'["rollback"].turn = 1
  BY <1>1, <1>3, RollbackOn DEF Dep!At, Typing, TypeOK, Dep!TypeOK
<1>5. Dep!IsTree(current', was) /\ was # None
  BY <1>1, <1>2 DEF WayBack, Dep!IsTree
<1>6. Dep!Saved' /\ was' = was
  BY <1>1, <1>2, <1>3 DEF WayBack, Dep!Saved, Dep!dep, dep, was
<1>7. \A j \in DOMAIN Deployed : ~(j < 1)
  BY UnitsInOrder
<1>8. RollingBack'
  BY <1>4, <1>5, <1>6, <1>7 DEF RollingBack
<1> QED
  BY <1>1, <1>3, <1>8, RollbackMoves

\* RestoreUnit keeps DeployInv.
LEMMA RestoreUnitKeeps ==
  ASSUME Typing, SessionInv, Whereabouts, DeployInv, NEW u \in DepUnits, Dep!RestoreUnit(u)
  PROVE  DeployInv'
<1>1. /\ On("rollback") /\ session["rollback"].at = "restore"
      /\ UNCHANGED <<cutOff, late, current, previous, backup, before>>
      /\ units' = [units EXCEPT ![u] = backup[dep][u]]
      /\ u = Deployed[session["rollback"].turn]
  BY DEF Dep!RestoreUnit, Dep!Loop, Dep!Is, On, Dep!historyVars, Dep!treeVars, Dep!dep, dep
<1>2. UNCHANGED local /\ session["rollback"].turn \in 1 .. Len(Deployed)
  BY <1>1, RollbackOn, LoopTurns DEF Dep!RestoreUnit
<1>3. PICK left :
        /\ session' = [session EXCEPT !["rollback"] = left] /\ session'["rollback"] = left
        /\ \/ session["rollback"].turn = Len(Deployed) /\ left.at = "start"
           \/ /\ session["rollback"].turn < Len(Deployed)
              /\ left.at = "restore" /\ left.turn = session["rollback"].turn + 1
  BY <1>1, RollbackOn, LoopTurns DEF Dep!RestoreUnit
<1>4. Dep!IsTree(current, was) /\ was # None /\ Dep!Saved
  BY <1>1 DEF DeployInv, RollbackInv, RollingBack
<1>5. /\ Sure' <=> Sure
      /\ UNCHANGED <<was, current, dep>>
      /\ Dep!Saved'
      /\ Dep!IsTree(current', was')
  BY <1>1, <1>2, <1>4 DEF Sure, Dep!FoundPaired, Dep!Saved, Dep!dep, dep, was
<1>6. units \in UnitFiles /\ before.units \in UnitFiles /\ DepUnits \subseteq Units
  BY TypesSplit, Constants DEF Typing, DataTypes, UnitFiles
<1>7. units'[u] = before.units[u] /\ \A v \in Units : v # u => units'[v] = units[v]
  BY <1>1, <1>4, <1>6 DEF Dep!Saved, Dep!dep, dep, DepUnits, UnitFiles
<1>8. ASSUME Sure, NEW j \in DOMAIN Deployed, j <= session["rollback"].turn
      PROVE  units'[Deployed[j]] = before.units[Deployed[j]]
  <2>1. CASE Deployed[j] = u
    BY <1>7, <2>1
  <2>2. CASE Deployed[j] # u
    <3>1. j # session["rollback"].turn
      BY <1>1, <2>2
    <3>2. j < session["rollback"].turn
      BY <1>2, <1>8, <3>1, UnitsInOrder
    <3>3. units[Deployed[j]] = before.units[Deployed[j]]
      BY <1>1, <1>8, <3>2 DEF DeployInv, RollbackInv, RollingBack
    <3>4. Deployed[j] \in Units
      BY <1>6, UnitsInOrder
    <3> QED
      BY <1>7, <2>2, <3>3, <3>4
  <2> QED
    BY <2>1, <2>2
<1>9. CASE left.at = "restore" /\ left.turn = session["rollback"].turn + 1
  <2>1. Sure => \A j \in DOMAIN Deployed :
                  j < left.turn => units'[Deployed[j]] = before.units[Deployed[j]]
    BY <1>2, <1>8, <1>9, UnitsInOrder
  <2>2. RollingBack'
    BY <1>1, <1>3, <1>4, <1>5, <1>9, <2>1 DEF RollingBack
  <2> QED
    BY <1>1, <1>2, <1>3, <1>9, <2>2, RollbackMoves
<1>10. CASE left.at = "start" /\ session["rollback"].turn = Len(Deployed)
  <2>1. ASSUME Sure PROVE \A v \in DepUnits : units'[v] = before.units[v]
    <3> TAKE v \in DepUnits
    <3>1. PICK j \in DOMAIN Deployed : v = Deployed[j]
      BY UnitsInOrder
    <3>2. j <= session["rollback"].turn
      BY <1>10, UnitsInOrder
    <3> QED
      BY <1>8, <2>1, <3>1, <3>2
  <2>2. ASSUME Sure, OthersStay' PROVE units' = before.units
    <3>1. ~Dep!Quiet'
      BY <1>3, <1>10, RollbackOn, <1>1 DEF Dep!Quiet
    <3>2. \A v \in Units \ DepUnits : units'[v] = before.units[v]
      BY <1>1, <2>2, <3>1 DEF OthersStay
    <3>3. units' \in UnitFiles
      <4>1. before.units[u] \in Commits \cup {None}
        BY <1>6 DEF UnitFiles
      <4> QED
        BY <1>1, <1>6, <1>7, <4>1 DEF UnitFiles
    <3>4. \A v \in Units : units'[v] = before.units[v]
      BY <2>1, <2>2, <3>2
    <3> QED
      BY <1>6, <3>3, <3>4 DEF UnitFiles
  <2>3. OthersStay' => RollingBack'
    BY <1>1, <1>3, <1>4, <1>5, <1>10, <2>2 DEF RollingBack
  <2> QED
    BY <1>1, <1>2, <1>3, <1>10, <2>3, RollbackMoves
<1> QED
  BY <1>3, <1>9, <1>10

\* RestartPrevious and Doctor keep DeployInv.
LEMMA RestartPreviousKeeps ==
  ASSUME Typing, SessionInv, Whereabouts, DeployInv, Dep!RestartPrevious \/ Dep!Doctor
  PROVE  DeployInv'
<1>1. /\ On("rollback") /\ session["rollback"].at \in {"start", "examine"}
      /\ UNCHANGED <<cutOff, late, units, current, backup, before, previous>> /\ DataKept
      /\ "rollback" # "activate"
  BY DEF Dep!RestartPrevious, Dep!Doctor, Dep!Is, On, Dep!historyVars, Dep!treeVars, Dep!unitVars,
         DataKept
<1>2. CASE Dep!Breaks("rollback")
  BY <1>1, <1>2, RollbackOn, UnheardKeeps, FailureKeeps DEF Dep!Breaks, Dep!Off, Dep!At
<1>3. ASSUME NEW place \in {"examine", "clean"}, Dep!Goto("rollback", place)
      PROVE  DeployInv'
  <2>1. /\ session' = [session EXCEPT !["rollback"] = Dep!At(place)] /\ UNCHANGED local
        /\ Dep!At(place).at # "off"
    BY <1>3 DEF Dep!Goto, Dep!At
  <2>2. session'["rollback"].at \in {"examine", "clean"}
    BY <1>1, <2>1, RollbackOn DEF Dep!At, Typing, TypeOK, Dep!TypeOK
  <2>3. /\ Dep!IsTree(current, was) /\ was # None /\ Dep!Saved
        /\ Sure => units = before.units
    BY <1>1 DEF DeployInv, RollbackInv, RollingBack
  <2>4. /\ Dep!Saved' <=> Dep!Saved
        /\ Dep!IsTree(current, was)' <=> Dep!IsTree(current, was)
        /\ Sure' => Sure
        /\ UNCHANGED <<was, units, before>>
    BY <1>1, <2>1, SameData
  <2>5. RollingBack'
    BY <2>2, <2>3, <2>4 DEF RollingBack
  <2> QED
    BY <1>1, <2>1, <2>5, RollbackMoves
<1> QED
  BY <1>2, <1>3 DEF Dep!RestartPrevious, Dep!Doctor

\* CleanUp keeps DeployInv: the copies go once the units are those found.
LEMMA CleanUpKeeps ==
  ASSUME Typing, SessionInv, Whereabouts, DeployInv, Dep!CleanUp
  PROVE  DeployInv'
<1>1. /\ On("rollback") /\ session["rollback"].at = "clean"
      /\ UNCHANGED <<cutOff, late, units, current, before, previous>>
  BY DEF Dep!CleanUp, Dep!Is, On, Dep!historyVars
<1>2. Dep!IsTree(current, was) /\ was # None /\ (Sure => units = before.units)
  BY <1>1 DEF DeployInv, RollbackInv, RollingBack
<1>3. /\ local'.d = local.d /\ local'.report = local.report
      /\ local'.at \notin ForwardScripts \cup {"rollback"} \/ local'.at = local.at
      /\ session'["prepare"].at = "off" /\ session'["activate"].at = "off"
      /\ session'["rollback"].at = "off"
      /\ local'.report = "failed" /\ ~cutOff /\ local'.at \in {"discard", "idle"} => local'.undone
      /\ local'.undone \in BOOLEAN
  <2>1. CASE Dep!EndsUnheard("rollback")
    BY <1>1, <2>1, RollbackOn, SomeScripts
      DEF Dep!EndsUnheard, Dep!Off, Dep!At, On, Typing, TypeOK, Dep!TypeOK
  <2>2. CASE Dep!Succeeds("rollback")
    <3>1. /\ local'.at = "discard" /\ local'.undone
          /\ local'.d = local.d /\ local'.report = local.report
          /\ session'["rollback"].at = "off"
          /\ session'["prepare"] = session["prepare"] /\ session'["activate"] = session["activate"]
      BY <1>1, <2>2, RollbackOn, SuccessSteps, ScriptOrder, SomeScripts
    <3> QED
      BY <1>1, <3>1, RollbackOn DEF On, ForwardScripts, Replaced
  <2> QED
    BY <2>1, <2>2 DEF Dep!CleanUp, Dep!Ends
<1>4. local'.at \notin ForwardScripts /\ local'.report # "verified"
  BY <1>1, <1>3, RollbackOn
<1>5. BeforeMove'
  BY <1>3, <1>4 DEF BeforeMove, On, ForwardScripts
<1>6. AfterMove'
  BY <1>4 DEF AfterMove, Dep!VerifiedLeavesWayBack, Dep!Reported, Replaced, ForwardScripts
<1>7. UNCHANGED <<was, dep, before>> /\ (Sure' <=> Sure) /\ Dep!IsTree(current', was)
  BY <1>1, <1>2, <1>3 DEF was, dep, Sure, Dep!FoundPaired
<1>8. OthersStay'
  BY <1>1, RollbackOn, OthersKept DEF DeployInv, RollbackInv
<1>9. RollingBack'
  BY <1>3 DEF RollingBack
<1>10. Restoring'
  <2>1. ~cutOff' => Sure'
    BY DEF Sure
  <2>2. Sure' => Dep!AsBefore'
    BY <1>1, <1>2, <1>7 DEF Dep!AsBefore, was
  <2>3. cutOff' = cutOff
    BY <1>1
  <2> QED
    BY <1>1, <1>2, <1>3, <1>7, <2>1, <2>2, <2>3 DEF Restoring
<1> QED
  BY <1>5, <1>6, <1>8, <1>9, <1>10 DEF DeployInv, RollbackInv

\* Commands that fail, connections lost and sessions killed keep DeployInv.
LEMMA FaultsKeep ==
  ASSUME Typing, SessionInv, Whereabouts, DeployInv, NEW s \in Dep!Scripts,
         Dep!StepFails(s) \/ Dep!Disconnect(s) \/ Dep!Die(s)
  PROVE  DeployInv'
<1>1. CASE Dep!StepFails(s)
  <2>1. On(s) /\ DataKept /\ UNCHANGED cutOff /\ ~(s = "activate" /\ session[s].at = "place")
    BY <1>1
      DEF Dep!StepFails, Dep!MayFail, On, DataKept, Dep!treeVars, Dep!unitVars, Dep!historyVars
  <2>2. Dep!Errs(s, Dep!Off) \/ Dep!EndsUnheard(s)
    BY <1>1 DEF Dep!StepFails, Dep!Breaks
  <2> QED
    BY <2>1, <2>2, UnheardKeeps, FailureKeeps
<1>2. CASE Dep!Disconnect(s) \/ Dep!Die(s)
  <2>1. DataKept /\ cutOff' = TRUE
    BY <1>2 DEF Dep!Disconnect, Dep!Die, Dep!Lose, DataKept, Dep!treeVars, Dep!unitVars
  <2>2. \/ Dep!Errs(s, session[s])
        \/ On(s) /\ (Dep!Errs(s, Dep!Off) \/ Dep!EndsUnheard(s))
    BY <1>2 DEF Dep!Disconnect, Dep!Die, On
  <2>3. CASE Dep!Errs(s, session[s])
    <3>1. On(s)
      <4>1. local.at = s /\ s # "idle"
        BY <2>3, SomeScripts DEF Dep!Errs
      <4> QED
        BY <4>1 DEF SessionInv
    <3> QED
      BY <2>1, <2>3, <3>1, FailureKeeps
  <2> QED
    BY <2>1, <2>2, <2>3, UnheardKeeps, FailureKeeps
<1> QED
  BY <1>1, <1>2

\* DeployInv and NotYet hold when there has been no deployment.
LEMMA DeployInit == Init => DeployInv /\ NotYet
<1> SUFFICES ASSUME Init PROVE DeployInv /\ NotYet
  OBVIOUS
<1>1. /\ local.at = "idle" /\ ~local.undone /\ local.report = "none"
      /\ \A s \in Dep!Scripts : session[s].at = "off"
      /\ \A d \in Dep!Deploys : previous[d] = None /\ failed[d] = None
  BY DEF Init, Dep!NoDeploymentYet, Dep!NoReport, Dep!Off, Dep!At
<1>2. BeforeMove
  BY <1>1, SomeScripts DEF BeforeMove, On
<1>3. AfterMove
  BY <1>1 DEF AfterMove, Replaced, Dep!VerifiedLeavesWayBack, Dep!Reported
<1>4. RollingBack /\ Restoring
  BY <1>1, SomeScripts DEF RollingBack, Restoring
<1>5. OthersStay
  BY <1>1 DEF OthersStay, Dep!Quiet
<1> QED
  BY <1>1, <1>2, <1>3, <1>4, <1>5 DEF DeployInv, RollbackInv, NotYet

\* DeployInv is kept by every step of either script.
LEMMA DeployStepKeeps ==
  Typing /\ SessionInv /\ Whereabouts /\ DeployInv /\ NotYet /\ [Next]_vars => DeployInv'
<1> SUFFICES ASSUME Typing, SessionInv, Whereabouts, DeployInv, NotYet, [Next]_vars
             PROVE  DeployInv'
  OBVIOUS
<1>1. CASE RunStep
  BY <1>1, RunStepKeeps
<1>2. CASE Dep!Next
  <2>1. CASE Dep!DeployStep
    BY <2>1, PrepareKeeps, CheckTreesKeeps, SaveUnitKeeps, MoveCurrentKeeps, PlaceCandidateKeeps,
       NoUnitToSaveKeeps, InstallStepsKeep, InstallUnitKeeps, InstallLateKeeps, AcceptKeeps,
       RecordKeeps, RecordBranchKeeps, VerifyKeeps, TidyKeeps, DiscardKeeps
      DEF Dep!DeployStep, DepUnits
  <2>2. CASE Dep!RollbackStep
    BY <2>2, MoveAwayKeeps, MoveBackKeeps, RestoreUnitKeeps, RestartPreviousKeeps, CleanUpKeeps
      DEF Dep!RollbackStep, DepUnits
  <2> QED
    BY <1>2, <2>1, <2>2, FaultsKeep, KillKeeps, BeginningKeeps DEF Dep!Next
<1>3. CASE UNCHANGED vars
  <2>1. UNCHANGED <<current, units, candidate, previous, backup, local, session, accepted, before,
                    cutOff, late>>
    BY <1>3 DEF vars, deploymentVars
  <2>2. BeforeMove'
    BY <2>1 DEF DeployInv, BeforeMove, WayBack, Dep!Saved, Dep!dep, dep, was, On
  <2>3. AfterMove'
    BY <2>1 DEF DeployInv, AfterMove, WayBack, Dep!Saved, Dep!dep, dep, was,
                Dep!VerifiedLeavesWayBack, Dep!Reported, Dep!Quiet, Dep!IsTree
  <2>4. RollbackInv'
    <3>1. DataKept /\ local'.d = local.d /\ cutOff' \in {cutOff, TRUE} /\ cutOff' = cutOff
      BY <2>1 DEF DataKept
    <3>2. /\ WayBack' <=> WayBack
          /\ Dep!Saved' <=> Dep!Saved
          /\ Dep!AsBefore' <=> Dep!AsBefore
          /\ Dep!IsTree(current, was)' <=> Dep!IsTree(current, was)
          /\ (previous[dep] = was)' <=> previous[dep] = was
          /\ Sure' => Sure
          /\ UNCHANGED <<was, units, before, current>>
      BY <3>1, SameData
    <3>3. OthersStay'
      BY <2>1 DEF DeployInv, RollbackInv, OthersStay, Dep!Quiet
    <3>4. RollingBack'
      BY <2>1, <3>2 DEF DeployInv, RollbackInv, RollingBack
    <3>5. Restoring'
      BY <2>1, <3>2 DEF DeployInv, RollbackInv, Restoring, On
    <3> QED
      BY <3>3, <3>4, <3>5 DEF RollbackInv
  <2> QED
    BY <2>2, <2>3, <2>4 DEF DeployInv
<1> QED
  BY <1>1, <1>2, <1>3 DEF Next, DeploymentStep

\* A deployment writes nowhere but into its own trees.
LEMMA OwnTrees ==
  ASSUME Typing, SessionInv, Dep!Next
  PROVE  /\ \A d \in Dep!Deploys \ {dep} : previous'[d] = previous[d] /\ failed'[d] = failed[d]
         /\ local'.d = local.d \/ (/\ local'.d = local.d + 1 /\ UNCHANGED <<previous, failed>>
                                   /\ \E c \in Commits : Dep!Start(c))
<1>1. /\ previous \in [Dep!Deploys -> Dep!TreeOrNone]
      /\ failed \in [Dep!Deploys -> Dep!TreeOrNone]
  BY DEF Typing, TypeOK, Dep!TypeOK
<1>2. /\ \E t : previous' \in {previous, [previous EXCEPT ![dep] = t]}
      /\ \E t : failed' \in {failed, [failed EXCEPT ![dep] = t]}
  <2> USE DEF Dep!treeVars, Dep!dep, dep
  <2>1. CASE Dep!DeployStep
    BY <2>1
      DEF Dep!DeployStep, Dep!Prepare, Dep!CheckTrees, Dep!MoveCurrent, Dep!PlaceCandidate,
          Dep!RestoreOnError, Dep!OpenInstall, Dep!NoUnitToInstall, Dep!Restart, Dep!Accept,
          Dep!RecordProof, Dep!RecordSha, Dep!PassOverRecord, Dep!RecordBranch, Dep!Writes,
          Dep!Verify, Dep!Tidy, Dep!Discard, Dep!SaveUnit, Dep!NoUnitToSave, Dep!InstallUnit,
          Dep!InstallLate
  <2>2. CASE Dep!RollbackStep
    BY <2>2
      DEF Dep!RollbackStep, Dep!MoveAway, Dep!MoveBack, Dep!RestartPrevious, Dep!Doctor,
          Dep!CleanUp, Dep!RestoreUnit
  <2>3. CASE \/ \E s \in Dep!Scripts : Dep!StepFails(s) \/ Dep!Disconnect(s) \/ Dep!Die(s)
             \/ Dep!KillLocal \/ \E c \in Commits : Dep!Start(c) \/ Dep!AlreadyDeployed(c)
    BY <2>3
      DEF Dep!StepFails, Dep!Disconnect, Dep!Die, Dep!KillLocal, Dep!Lose, Dep!Start,
          Dep!AlreadyDeployed
  <2> QED
    BY <2>1, <2>2, <2>3 DEF Dep!Next
<1>3. local'.d = local.d \/ \E c \in Commits : Dep!Start(c)
  <2>1. CASE Dep!KillLocal \/ \E c \in Commits : Dep!AlreadyDeployed(c)
    BY <2>1 DEF Dep!KillLocal, Dep!AlreadyDeployed, Typing, TypeOK, Dep!TypeOK
  <2> QED
    BY <2>1, DeploymentMoves, LocalTypes
<1>4. (\E c \in Commits : Dep!Start(c)) => local'.d = local.d + 1 /\ UNCHANGED <<previous, failed>>
  BY DEF Dep!Start, Dep!treeVars, Dep!dep
<1> QED
  BY <1>1, <1>2, <1>3, <1>4

\* Nothing is made of deployments to come.
LEMMA NotYetStep == Typing /\ SessionInv /\ NotYet /\ [Next]_vars => NotYet'
<1> SUFFICES ASSUME Typing, SessionInv, NotYet, [Next]_vars PROVE NotYet'
  OBVIOUS
<1>1. CASE RunStep
  BY <1>1 DEF RunStep, Dep!NoReport, NotYet, dep
<1>2. CASE Dep!Next
  <2>1. local.d \in Nat /\ Dep!Deploys \subseteq Nat
    BY Constants DEF Typing, TypeOK, Dep!TypeOK, Dep!Deploys
  <2> QED
    BY <1>2, <2>1, OwnTrees DEF NotYet, dep
<1>3. CASE UNCHANGED vars
  BY <1>3 DEF vars, deploymentVars, NotYet, dep
<1> QED
  BY <1>1, <1>2, <1>3 DEF Next, DeploymentStep

-----------------------------------------------------------------------------
(* What the reports of a deployment promise.                               *)

Kernel == Typing /\ OneAtATime /\ SessionInv /\ Whereabouts /\ DeployInv /\ NotYet

\* The inductive invariant of deploy-pi.sh, with the types, holds of the appliance
\* for all commits, units, numbers of runs and deployments, and faults.
LEMMA KernelHolds == Spec => []Kernel
<1>1. Init => Kernel
  BY TypingInit, SessionInit, WhereaboutsInit, DeployInit DEF Kernel
<1>2. Kernel /\ [Next]_vars => Kernel'
  BY TypingStep, SessionStep, WhereaboutsStep, DeployStepKeeps, NotYetStep DEF Kernel
<1> QED
  BY <1>1, <1>2, PTL DEF Spec

\* A deployment that was rolled back leaves the tree and the units it found, whatever
\* failed, whoever was cut off and goes on beside the rollback, and also when what it
\* found was left by an installation that failed.
THEOREM RollbackIsTrue == Spec => []RollbackRestores
<1>1. Kernel => RollbackRestores
  BY DEF Kernel, DeployInv, RollbackInv, Restoring, RollbackRestores, Dep!RollbackRestores,
         Dep!AsBefore, Dep!Undisturbed, Sure, was
<1> QED
  BY <1>1, KernelHolds, PTL

\* Between deployments there is nothing but the beginning of the next.
LEMMA QuietStarts ==
  ASSUME Typing, SessionInv, Dep!Next, Dep!Quiet
  PROVE  \E c \in Commits : Dep!Start(c) \/ Dep!AlreadyDeployed(c)
<1>1. \A s \in Dep!Scripts : ~On(s)
  BY DEF Dep!Quiet, On
<1>2. ~Dep!KillLocal
  BY DEF Dep!KillLocal, Dep!Quiet
<1> QED
  BY <1>1, <1>2, DeploymentMoves DEF Moves, Loses, Advances

\* What becomes of the tree in place and of the deployment's previous one.
LEMMA TreesMove ==
  ASSUME Typing, SessionInv, DeployInv, Dep!Next
  PROVE  /\ dep > 0 /\ previous[dep] # None =>
              previous'[dep] = previous[dep] \/ current' = previous[dep]
         /\ current # None =>
              \/ Dep!IsTree(current, current')
              \/ dep > 0 /\ previous'[dep] = current
              \/ dep > 0 /\ was # None /\ (previous'[dep] = was \/ current' = was)
<1> USE DEF Dep!treeVars, Dep!dep, dep
<1>1. /\ previous \in [Dep!Deploys -> Dep!TreeOrNone]
      /\ current # None => current \in Dep!Tree
      /\ Dep!IsTree(current, current)
  BY DEF Typing, TypeOK, Dep!TypeOK, Dep!TreeOrNone, Dep!IsTree
<1>2. CASE UNCHANGED <<current, previous>>
  BY <1>1, <1>2
<1>3. CASE Dep!MoveCurrent
  <2>1. dep \in Dep!Deploys /\ dep > 0
    BY <1>3, ActivateOn DEF Dep!MoveCurrent, Dep!Is, On, InDeployment, Typing
  <2>2. previous[dep] = None
    BY <1>3 DEF Dep!MoveCurrent, Dep!Is, DeployInv, BeforeMove
  <2>3. previous'[dep] = current
    BY <1>1, <1>3, <2>1 DEF Dep!MoveCurrent
  <2> QED
    BY <2>1, <2>2, <2>3
<1>4. CASE Dep!PlaceCandidate \/ Dep!RestoreOnError
  <2>1. session["activate"].at = "place" /\ current = None
    BY <1>4 DEF Dep!PlaceCandidate, Dep!RestoreOnError, Dep!Is, DeployInv, BeforeMove
  <2>2. previous' = previous \/ current' = previous[dep]
    BY <1>4 DEF Dep!PlaceCandidate, Dep!RestoreOnError
  <2> QED
    BY <2>1, <2>2
<1>5. CASE Dep!RecordProof \/ Dep!RecordSha
  <2>1. /\ previous' = previous
        /\ \/ current' = current
           \/ /\ current # None
              /\ \/ current' = [current EXCEPT !.proof = local.commit]
                 \/ current' = [current EXCEPT !.sha = local.commit]
    BY <1>5 DEF Dep!RecordProof, Dep!RecordSha, Dep!Writes
  <2>2. CASE current # None
    <3>1. local.commit \in Commits
      <4>1. On("record")
        BY <1>5 DEF Dep!RecordProof, Dep!RecordSha, Dep!Is, On
      <4> QED
        BY <4>1, ReplacedOn DEF Replaced, InDeployment
    <3>2. ASSUME NEW c \in Commits
          PROVE  /\ Dep!IsTree(current, [current EXCEPT !.proof = c])
                 /\ Dep!IsTree(current, [current EXCEPT !.sha = c])
      <4>1. /\ [current EXCEPT !.proof = c] \in Dep!Tree
            /\ [current EXCEPT !.proof = c].commit = current.commit
            /\ [current EXCEPT !.proof = c].by = current.by
        BY <1>1, <2>2 DEF Dep!Tree
      <4>2. /\ [current EXCEPT !.sha = c] \in Dep!Tree
            /\ [current EXCEPT !.sha = c].commit = current.commit
            /\ [current EXCEPT !.sha = c].by = current.by
        BY <1>1, <2>2 DEF Dep!Tree
      <4>3. [current EXCEPT !.proof = c] # None /\ [current EXCEPT !.sha = c] # None
        BY <4>1, <4>2, Constants
      <4> QED
        BY <2>2, <4>1, <4>2, <4>3 DEF Dep!IsTree
    <3> QED
      BY <1>1, <2>1, <3>1, <3>2
  <2>3. CASE current = None
    BY <2>1, <2>3
  <2> QED
    BY <2>2, <2>3
<1>6. CASE Dep!MoveAway \/ Dep!MoveBack
  <2>1. session["rollback"].at \in {"go", "back"} /\ On("rollback")
    BY <1>6 DEF Dep!MoveAway, Dep!MoveBack, Dep!Is, On
  <2>2. dep \in Dep!Deploys /\ dep > 0
    BY <2>1, RollbackOn DEF InDeployment, Typing
  <2>3. previous[dep] = was /\ was # None
    BY <2>1 DEF DeployInv, RollbackInv, RollingBack, WayBack
  <2>4. previous'[dep] = previous[dep] \/ current' = previous[dep]
    BY <1>6 DEF Dep!MoveAway, Dep!MoveBack
  <2> QED
    BY <2>2, <2>3, <2>4
<1>7. CASE \/ Dep!Prepare \/ Dep!CheckTrees \/ Dep!OpenInstall \/ Dep!NoUnitToInstall
           \/ Dep!Restart \/ Dep!Accept \/ Dep!Verify \/ Dep!Tidy \/ Dep!Discard
           \/ Dep!NoUnitToSave \/ Dep!PassOverRecord \/ Dep!RecordBranch
           \/ Dep!RestartPrevious \/ Dep!Doctor \/ Dep!CleanUp
           \/ \E u \in Dep!Units : Dep!SaveUnit(u) \/ Dep!InstallUnit(u) \/ Dep!InstallLate(u)
                                 \/ Dep!RestoreUnit(u)
  <2>1. UNCHANGED <<current, previous>>
    BY <1>7
      DEF Dep!Prepare, Dep!CheckTrees, Dep!OpenInstall, Dep!NoUnitToInstall, Dep!Restart,
          Dep!Accept, Dep!Verify, Dep!Tidy, Dep!Discard, Dep!RestartPrevious, Dep!Doctor,
          Dep!CleanUp, Dep!SaveUnit, Dep!InstallUnit, Dep!RestoreUnit,
          Dep!NoUnitToSave, Dep!PassOverRecord, Dep!RecordBranch, Dep!InstallLate
  <2> QED
    BY <1>2, <2>1
<1>8. CASE \/ \E s \in Dep!Scripts : Dep!StepFails(s) \/ Dep!Disconnect(s) \/ Dep!Die(s)
           \/ Dep!KillLocal \/ \E c \in Commits : Dep!Start(c) \/ Dep!AlreadyDeployed(c)
  <2>1. UNCHANGED <<current, previous>>
    BY <1>8
      DEF Dep!StepFails, Dep!Disconnect, Dep!Die, Dep!KillLocal, Dep!Lose, Dep!Start,
          Dep!AlreadyDeployed
  <2> QED
    BY <1>2, <2>1
<1> QED
  BY <1>3, <1>4, <1>5, <1>6, <1>7, <1>8 DEF Dep!Next, Dep!DeployStep, Dep!RollbackStep

\* The tree that was there stays, in place or where a rollback would look for it, while
\* a deployment goes on, and after one that did not come to its end.
TreeStays ==
  was # None /\ (~Dep!Quiet \/ local.report \in {"failed", "rollback failed", "killed"}) =>
    Dep!IsTree(current, was) \/ Dep!IsTree(previous[dep], was)

\* TreeStays is kept by every step of either script.
LEMMA TreeStaysStep == Kernel /\ TreeStays /\ [Next]_vars => TreeStays'
<1> SUFFICES ASSUME Kernel, TreeStays, [Next]_vars PROVE TreeStays'
  OBVIOUS
<1>1. CASE RunStep
  BY <1>1 DEF RunStep, TreeStays, Dep!Quiet, Dep!NoReport
<1>2. CASE Dep!Next
  <2>1. Typing /\ SessionInv /\ DeployInv
    BY DEF Kernel
  <2>2. ASSUME NEW c \in Commits, Dep!AlreadyDeployed(c) PROVE TreeStays'
    BY <2>1, <2>2 DEF Dep!AlreadyDeployed, TreeStays, Dep!Quiet, Typing, TypeOK, Dep!TypeOK
  <2>3. ASSUME NEW c \in Commits, Dep!Start(c) PROVE TreeStays'
    <3>1. current' = current /\ was' = current
      BY <2>3 DEF Dep!Start, Dep!treeVars, was
    <3> QED
      BY <3>1 DEF TreeStays, Dep!IsTree
  <2>4. ASSUME ~Dep!Quiet, ~\E c \in Commits : Dep!Start(c), was' # None PROVE TreeStays'
    <3>1. UNCHANGED <<was, dep>> /\ dep > 0
      <4>1. dep' = dep /\ dep \in Dep!Deploys
        BY <1>2, <2>1, <2>4, OwnTrees, DeploymentUnderWay DEF dep, InDeployment
      <4>2. was' = was
        BY <1>2, <2>1, <2>4, DeploymentMoves
          DEF Dep!KillLocal, Dep!Lose, Dep!AlreadyDeployed, Dep!historyVars, was
      <4> QED
        BY <2>1, <2>4, <4>1, <4>2 DEF Typing, dep
    <3>2. Dep!IsTree(current, was) \/ Dep!IsTree(previous[dep], was)
      BY <2>4, <3>1 DEF TreeStays
    <3>3. /\ previous[dep] # None => previous'[dep] = previous[dep] \/ current' = previous[dep]
          /\ current # None =>
               \/ Dep!IsTree(current, current')
               \/ previous'[dep] = current
               \/ was # None /\ (previous'[dep] = was \/ current' = was)
      BY <1>2, <2>1, <3>1, TreesMove
    <3>4. Dep!IsTree(current', was) \/ Dep!IsTree(previous'[dep], was)
      BY <3>2, <3>3, <2>4, <3>1 DEF Dep!IsTree
    <3> QED
      BY <3>1, <3>4 DEF TreeStays
  <2> QED
    BY <1>2, <2>1, <2>2, <2>3, <2>4, QuietStarts DEF TreeStays
<1>3. CASE UNCHANGED vars
  BY <1>3 DEF vars, deploymentVars, TreeStays, Dep!Quiet, Dep!IsTree, was, dep
<1> QED
  BY <1>1, <1>2, <1>3 DEF Next, DeploymentStep

\* A deployment that says it failed leaves what it found, if no connection was lost.
\* Whatever was lost or killed, the tree that was there is in place or where the message
\* says; and so are the units, or their copies, if a rollback failed.
THEOREM FailureIsTrue == Spec => []FailureKeepsWhatWas
<1>1. Kernel /\ TreeStays => FailureKeepsWhatWas
  <2> SUFFICES ASSUME Kernel, TreeStays PROVE Dep!FailureKeepsWhatWas
    BY DEF FailureKeepsWhatWas
  <2>1. ASSUME Dep!Reported("failed"), ~cutOff PROVE Dep!AsBefore
    BY <2>1 DEF Kernel, DeployInv, RollbackInv, Restoring, Dep!Reported, Dep!Quiet
  <2>2. ASSUME Dep!Reported("rollback failed"), Dep!Undisturbed
        PROVE  units = before.units \/ Dep!Saved
    <3>1. ~On("rollback")
      BY <2>2, SomeScripts DEF Dep!Reported, Dep!Quiet, On
    <3> QED
      BY <2>2, <3>1
        DEF Kernel, DeployInv, RollbackInv, Restoring, Dep!Reported, Dep!Undisturbed, Sure
  <2>3. ASSUME before.tree # None, NEW how \in {"failed", "rollback failed", "killed"},
               Dep!Reported(how)
        PROVE  Dep!IsTree(current, before.tree) \/ Dep!IsTree(previous[dep], before.tree)
    BY <2>3 DEF TreeStays, Dep!Reported, was
  <2> QED
    BY <2>1, <2>2, <2>3 DEF Dep!FailureKeepsWhatWas, Dep!dep, dep
<1>2. Init => TreeStays
  <2> SUFFICES ASSUME Init PROVE TreeStays
    OBVIOUS
  <2>1. local.at = "idle" /\ local.report = "none"
    BY DEF Init, Dep!NoDeploymentYet, Dep!NoReport
  <2>2. ASSUME NEW s \in Dep!Scripts PROVE session[s].at = "off"
    <3>1. session = [x \in Dep!Scripts |-> [at |-> "off", turn |-> 1]]
      BY DEF Init, Dep!NoDeploymentYet, Dep!Off, Dep!At
    <3> QED
      BY <3>1, <2>2
  <2>3. Dep!Quiet
    BY <2>1, <2>2 DEF Dep!Quiet
  <2> QED
    BY <2>1, <2>3 DEF TreeStays
<1>3. Spec => []TreeStays
  BY <1>2, KernelHolds, TreeStaysStep, PTL DEF Spec
<1> QED
  BY <1>1, <1>3, KernelHolds, PTL

-----------------------------------------------------------------------------
(* The records.                                                            *)

\* Where install.sh may put a tree.
LEMMA RunTrees ==
  ASSUME Inst!Next
  PROVE  /\ current' \in {current, kept, None}
              \/ (run.at = "place" /\ current' = run.version)
         /\ kept' \in {current, kept, None}
         /\ aside' \subseteq aside \cup {<<current, runs>>}
<1> USE DEF Inst!treeVars
<1>1. CASE Inst!InstallStep
  BY <1>1
    DEF Inst!InstallStep, Inst!Stage, Inst!ClearUnitBackup, Inst!DropPrevious, Inst!MoveInstalled,
        Inst!PlaceStage, Inst!MarkActivated, Inst!RestartRuntime, Inst!Doctor, Inst!FinishInstall,
        Inst!SaveUnit, Inst!InstallUnit
<1>2. CASE Inst!RollbackStep
  BY <1>2
    DEF Inst!RollbackStep, Inst!StopServices, Inst!MoveAway, Inst!MoveBack, Inst!NothingToMoveBack,
        Inst!PassOverDoctor, Inst!CleanUp, Inst!RemoveInstalled, Inst!Withdrawn, Inst!RestoreUnit,
        Inst!PassOver
<1>3. CASE \/ \E v \in Releases : Inst!Install(v)
           \/ Inst!Rollback \/ Inst!StepFails \/ Inst!Interrupt \/ Inst!Kill
  BY <1>3
    DEF Inst!Install, Inst!Rollback, Inst!Begin, Inst!StepFails, Inst!Interrupt, Inst!Kill,
        Inst!Disturb
<1> QED
  BY <1>1, <1>2, <1>3 DEF Inst!Next

\* What a deployment moves and where, apart from what it records.
LEMMA DeploymentTrees ==
  ASSUME Typing, SessionInv, Dep!Next, ~Dep!RecordProof, ~Dep!RecordSha
  PROVE  /\ current' \in {current, None, candidate[dep], previous[dep]}
         /\ \A d \in Dep!Deploys :
              /\ candidate'[d] \in {candidate[d], None}
                   \/ candidate'[d] = [commit |-> local.commit, by |-> dep, sha |-> None, proof |-> None]
              /\ previous'[d] \in {previous[d], current, None}
              /\ failed'[d] \in {failed[d], current, None}
<1> USE DEF Dep!treeVars, Dep!dep, dep
<1>1. /\ candidate \in [Dep!Deploys -> Dep!TreeOrNone]
      /\ previous \in [Dep!Deploys -> Dep!TreeOrNone]
      /\ failed \in [Dep!Deploys -> Dep!TreeOrNone]
  BY DEF Typing, TypeOK, Dep!TypeOK
<1>2. CASE Dep!Prepare
  BY <1>1, <1>2 DEF Dep!Prepare
<1>3. CASE Dep!MoveCurrent
  BY <1>1, <1>3 DEF Dep!MoveCurrent
<1>4. CASE Dep!PlaceCandidate
  BY <1>1, <1>4 DEF Dep!PlaceCandidate
<1>5. CASE Dep!RestoreOnError
  BY <1>1, <1>5 DEF Dep!RestoreOnError
<1>6. CASE Dep!Discard
  BY <1>1, <1>6 DEF Dep!Discard
<1>7. CASE Dep!MoveAway
  BY <1>1, <1>7 DEF Dep!MoveAway
<1>8. CASE Dep!MoveBack
  BY <1>1, <1>8 DEF Dep!MoveBack
<1>9. CASE Dep!CleanUp
  BY <1>1, <1>9 DEF Dep!CleanUp
<1>10. CASE UNCHANGED <<current, candidate, previous, failed>>
  BY <1>1, <1>10
<1>11. CASE \/ Dep!CheckTrees \/ Dep!OpenInstall \/ Dep!NoUnitToInstall \/ Dep!Restart
            \/ Dep!NoUnitToSave \/ Dep!Accept \/ Dep!PassOverRecord \/ Dep!RecordBranch
            \/ Dep!Verify \/ Dep!Tidy \/ Dep!RestartPrevious \/ Dep!Doctor
            \/ \E u \in Dep!Units : Dep!SaveUnit(u) \/ Dep!InstallUnit(u) \/ Dep!InstallLate(u)
                                  \/ Dep!RestoreUnit(u)
  <2>1. UNCHANGED <<current, candidate, previous, failed>>
    BY <1>11
      DEF Dep!CheckTrees, Dep!OpenInstall, Dep!NoUnitToInstall, Dep!Restart, Dep!Accept,
          Dep!NoUnitToSave, Dep!PassOverRecord, Dep!RecordBranch, Dep!InstallLate,
          Dep!Verify, Dep!Tidy, Dep!SaveUnit, Dep!InstallUnit, Dep!RestartPrevious, Dep!Doctor,
          Dep!RestoreUnit
  <2> QED
    BY <1>10, <2>1
<1>12. CASE \/ \E s \in Dep!Scripts : Dep!StepFails(s) \/ Dep!Disconnect(s) \/ Dep!Die(s)
            \/ Dep!KillLocal \/ \E c \in Commits : Dep!Start(c) \/ Dep!AlreadyDeployed(c)
  <2>1. UNCHANGED <<current, candidate, previous, failed>>
    BY <1>12
      DEF Dep!StepFails, Dep!Disconnect, Dep!Die, Dep!KillLocal, Dep!Lose, Dep!Start,
          Dep!AlreadyDeployed
  <2> QED
    BY <1>10, <2>1
<1> QED
  BY <1>2, <1>3, <1>4, <1>5, <1>6, <1>7, <1>8, <1>9, <1>11, <1>12
    DEF Dep!Next, Dep!DeployStep, Dep!RollbackStep

\* What has been accepted stays so; and so does a record that strayed.
LEMMA AcceptedGrows ==
  ASSUME Dep!Next
  PROVE  /\ accepted \subseteq accepted'
         /\ strayed' = strayed
            \/ ((Dep!RecordProof \/ Dep!RecordSha)
                /\ strayed' = (strayed \/ local.at # "record") /\ accepted' = accepted)
<1> USE DEF Dep!historyVars
<1>1. CASE \/ Dep!Prepare \/ Dep!CheckTrees \/ Dep!MoveCurrent \/ Dep!PlaceCandidate
           \/ Dep!RestoreOnError \/ Dep!OpenInstall \/ Dep!NoUnitToInstall \/ Dep!Restart
           \/ Dep!NoUnitToSave \/ Dep!PassOverRecord \/ Dep!RecordBranch
           \/ Dep!Verify \/ Dep!Tidy \/ Dep!Discard
           \/ \E u \in Dep!Units : Dep!SaveUnit(u) \/ Dep!InstallUnit(u) \/ Dep!InstallLate(u)
  <2>1. accepted' = accepted /\ strayed' = strayed
    BY <1>1
      DEF Dep!Prepare, Dep!CheckTrees, Dep!MoveCurrent, Dep!PlaceCandidate,
          Dep!RestoreOnError, Dep!OpenInstall, Dep!NoUnitToInstall, Dep!Restart,
          Dep!NoUnitToSave, Dep!PassOverRecord, Dep!RecordBranch, Dep!InstallLate,
          Dep!Verify, Dep!Tidy, Dep!Discard, Dep!SaveUnit, Dep!InstallUnit
  <2> QED
    BY <2>1
<1>2. CASE Dep!RollbackStep
  <2>1. accepted' = accepted /\ strayed' = strayed
    BY <1>2
      DEF Dep!RollbackStep, Dep!MoveAway, Dep!MoveBack, Dep!RestartPrevious, Dep!Doctor,
          Dep!CleanUp, Dep!RestoreUnit
  <2> QED
    BY <2>1
<1>3. CASE \/ \E s \in Dep!Scripts : Dep!StepFails(s) \/ Dep!Disconnect(s) \/ Dep!Die(s)
           \/ Dep!KillLocal \/ \E c \in Commits : Dep!Start(c) \/ Dep!AlreadyDeployed(c)
  <2>1. accepted' = accepted /\ strayed' = strayed
    BY <1>3
      DEF Dep!StepFails, Dep!Disconnect, Dep!Die, Dep!KillLocal, Dep!Lose, Dep!Start,
          Dep!AlreadyDeployed
  <2> QED
    BY <2>1
<1>4. CASE Dep!Accept
  <2>1. accepted \subseteq accepted' /\ strayed' = strayed
    BY <1>4 DEF Dep!Accept
  <2> QED
    BY <2>1
<1>5. CASE Dep!RecordProof
  <2>1. accepted' = accepted /\ strayed' = (strayed \/ local.at # "record")
    BY <1>5 DEF Dep!RecordProof, Dep!Writes
  <2> QED
    BY <1>5, <2>1
<1>6. CASE Dep!RecordSha
  <2>1. accepted' = accepted /\ strayed' = (strayed \/ local.at # "record")
    BY <1>6 DEF Dep!RecordSha, Dep!Writes
  <2> QED
    BY <1>6, <2>1
<1> QED
  BY <1>1, <1>2, <1>3, <1>4, <1>5, <1>6 DEF Dep!Next, Dep!DeployStep

\* At first a record, if there is one, is of the commit that was found.
LEMMA RecordInit == Init => RecordInv
<1> SUFFICES ASSUME Init PROVE RecordInv
  OBVIOUS
<1>1. TrueRecord(current)
  <2>1. CASE Inst!Init
    BY <2>1 DEF Inst!Init, TrueRecord
  <2>2. CASE Dep!Found(Inst!Units)
    BY <2>2 DEF Dep!Found, TrueRecord, Init, Dep!NoDeploymentYet
  <2> QED
    BY <2>1, <2>2 DEF Init
<1>2. /\ kept = None /\ aside = {}
      /\ \A d \in Dep!Deploys : candidate[d] = None /\ previous[d] = None /\ failed[d] = None
  BY DEF Init, Inst!Init, Inst!NoRunYet, Dep!NoDeploymentYet
<1> QED
  BY <1>1, <1>2 DEF RecordInv, TrueRecord

\* install.sh moves trees with their records, and a release has none.
LEMMA RunStepRecords ==
  ASSUME Typing, RecordInv, RunStep
  PROVE  RecordInv'
<1>1. /\ current' \in {current, kept, None} \/ (run.at = "place" /\ current' = run.version)
      /\ kept' \in {current, kept, None}
      /\ aside' \subseteq aside \cup {<<current, runs>>}
      /\ UNCHANGED <<candidate, previous, failed, accepted, strayed>>
  BY RunTrees DEF RunStep
<1>2. run.at = "place" => run.version.proof = None /\ run.version.sha = None
  BY DEF Typing, Inst!InstallPlaces, Releases
<1> SUFFICES ASSUME ~strayed PROVE RecordInv'
  BY <1>1 DEF RecordInv
<1>3. RecordInv!2
  BY DEF RecordInv
<1>4. \A d \in Dep!Deploys :
        TrueRecord(candidate[d])' /\ TrueRecord(previous[d])' /\ TrueRecord(failed[d])'
  BY <1>1, <1>3 DEF TrueRecord
<1>5. TrueRecord(current)' /\ TrueRecord(kept)'
  BY <1>1, <1>2, <1>3 DEF TrueRecord
<1>6. \A a \in aside' : TrueRecord(a[1])'
  <2>1. ASSUME NEW a \in aside' PROVE TrueRecord(a[1])'
    <3>1. CASE a \in aside
      BY <1>1, <1>3, <3>1 DEF TrueRecord
    <3>2. CASE a = <<current, runs>>
      BY <1>1, <1>3, <3>2 DEF TrueRecord
    <3> QED
      BY <1>1, <2>1, <3>1, <3>2
  <2> QED
    BY <2>1
<1> QED
  BY <1>4, <1>5, <1>6 DEF RecordInv

\* A deployment moves trees with their records, and records what it has accepted.
LEMMA DeploymentRecords ==
  ASSUME Typing, SessionInv, DeployInv, RecordInv, DeploymentStep
  PROVE  RecordInv'
<1>1. /\ Dep!Next
      /\ UNCHANGED <<kept, aside>>
      /\ accepted \subseteq accepted'
  BY AcceptedGrows DEF DeploymentStep
<1>2. SUFFICES ASSUME ~strayed' PROVE RecordInv'
  BY DEF RecordInv
<1>3. ~strayed
  BY <1>1, <1>2, AcceptedGrows
<1>4. RecordInv!2
  BY <1>3 DEF RecordInv
<1> DEFINE Then(t) ==
      t # None =>
        /\ t.proof # None => t.proof = t.commit /\ t.by \in accepted'
        /\ t.sha # None => t.sha = t.commit
<1>5. \A t : TrueRecord(t) => Then(t)
  BY <1>1 DEF TrueRecord
<1>6. ASSUME Then(current'), \A d \in Dep!Deploys : Then(candidate'[d]) /\ Then(previous'[d]) /\ Then(failed'[d])
      PROVE  RecordInv'
  <2>1. Then(kept') /\ \A a \in aside' : Then(a[1])
    <3> HIDE DEF Then
    <3> QED
      BY <1>1, <1>4, <1>5
  <2> QED
    BY <1>6, <2>1 DEF RecordInv, TrueRecord
<1>7. Then(None)
  OBVIOUS
<1>8. CASE ~Dep!RecordProof /\ ~Dep!RecordSha
  <2>1. Then([commit |-> local.commit, by |-> dep, sha |-> None, proof |-> None])
    OBVIOUS
  <2>2. /\ current' \in {current, None, candidate[dep], previous[dep]}
        /\ \A d \in Dep!Deploys :
              /\ candidate'[d] \in {candidate[d], None}
                   \/ candidate'[d] = [commit |-> local.commit, by |-> dep, sha |-> None, proof |-> None]
              /\ previous'[d] \in {previous[d], current, None}
              /\ failed'[d] \in {failed[d], current, None}
    BY <1>1, <1>8, DeploymentTrees
  <2> HIDE DEF Then
  <2>3. \A d \in Dep!Deploys : Then(candidate'[d]) /\ Then(previous'[d]) /\ Then(failed'[d])
    BY <1>4, <1>5, <1>7, <2>1, <2>2
  <2>4. current' \in {current, None} \/ dep \in Dep!Deploys
    <3>1. CASE dep \in Dep!Deploys
      BY <3>1
    <3>2. CASE Dep!Quiet
      <4>1. \E c \in Commits : Dep!Start(c) \/ Dep!AlreadyDeployed(c)
        BY <1>1, <3>2, QuietStarts
      <4> QED
        BY <4>1 DEF Dep!Start, Dep!AlreadyDeployed, Dep!treeVars
    <3> QED
      BY <3>1, <3>2, DeploymentUnderWay DEF InDeployment
  <2>5. Then(current')
    BY <1>4, <1>5, <1>7, <2>2, <2>4
  <2> QED
    BY <1>6, <2>3, <2>5
<1>9. CASE Dep!RecordProof \/ Dep!RecordSha
  <2>1. /\ UNCHANGED <<candidate, previous, failed, accepted>>
        /\ On("record")
        /\ session["record"].at \in {"go", "sha"}
    BY <1>9 DEF Dep!RecordProof, Dep!RecordSha, Dep!Writes, Dep!Is, On
  <2>2. local.at = "record"
    <3>1. CASE Dep!RecordProof
      BY <1>2, <3>1 DEF Dep!RecordProof, Dep!Writes
    <3>2. CASE Dep!RecordSha
      BY <1>2, <3>2 DEF Dep!RecordSha, Dep!Writes
    <3> QED
      BY <1>9, <3>1, <3>2
  <2>3. current # None /\ current.commit = local.commit /\ current.by = dep /\ dep \in accepted
    BY <2>2 DEF DeployInv, AfterMove, Replaced
  <2>4. current \in Dep!Tree
    BY <2>3 DEF Typing, TypeOK, Dep!TypeOK, Dep!TreeOrNone
  <2>5. Then(current')
    <3>1. CASE Dep!RecordProof
      <4>1. current' = [current EXCEPT !.proof = local.commit]
        BY <2>3, <3>1 DEF Dep!RecordProof, Dep!Writes
      <4>2. /\ current'.proof = local.commit /\ current'.commit = local.commit
            /\ current'.by = dep /\ current'.sha = current.sha
        BY <2>3, <2>4, <4>1 DEF Dep!Tree
      <4> QED
        BY <1>4, <2>1, <2>3, <4>2 DEF TrueRecord
    <3>2. CASE Dep!RecordSha
      <4>1. current' = [current EXCEPT !.sha = local.commit]
        BY <2>3, <3>2 DEF Dep!RecordSha, Dep!Writes
      <4>2. /\ current'.proof = current.proof /\ current'.commit = local.commit
            /\ current'.by = dep /\ current'.sha = local.commit
        BY <2>3, <2>4, <4>1 DEF Dep!Tree
      <4> QED
        BY <1>4, <2>1, <2>3, <4>2 DEF TrueRecord
    <3> QED
      BY <1>9, <3>1, <3>2
  <2> HIDE DEF Then
  <2>6. \A d \in Dep!Deploys : Then(candidate'[d]) /\ Then(previous'[d]) /\ Then(failed'[d])
    BY <1>4, <1>5, <2>1
  <2> QED
    BY <1>6, <2>5, <2>6
<1> QED
  BY <1>8, <1>9

\* RecordInv is kept by every step of either script.
LEMMA RecordStep == Kernel /\ RecordInv /\ [Next]_vars => RecordInv'
<1> SUFFICES ASSUME Kernel, RecordInv, [Next]_vars PROVE RecordInv'
  OBVIOUS
<1>1. CASE UNCHANGED vars
  BY <1>1 DEF vars, runVars, deploymentVars, RecordInv, TrueRecord
<1> QED
  BY <1>1, RunStepRecords, DeploymentRecords DEF Next, Kernel

\* What is on record of a tree is true of it, wherever the tree has been moved by either
\* script, unless a session recorded a deployment that nobody waited for any more.
THEOREM ProvenanceIsKept == Spec => []ProvenanceIsTrue
<1>1. RecordInv => ProvenanceIsTrue
  BY DEF RecordInv, TrueRecord, ProvenanceIsTrue, Dep!ProvenanceIsTrue,
         Dep!RecordedAfterAcceptance, Dep!OnDisk
<1>2. Spec => []RecordInv
  BY KernelHolds, RecordInit, RecordStep, PTL DEF Spec
<1> QED
  BY <1>1, <1>2, PTL

-----------------------------------------------------------------------------
(* install.sh: its way back and its success.                               *)

\* The loops of install.sh reach each unit.
LEMMA InstalledInOrder ==
  /\ Len(Installed) \in Nat /\ DOMAIN Installed = 1 .. Len(Installed)
  /\ \A j \in DOMAIN Installed : Installed[j] \in Units
  /\ \A v \in Units : \E j \in DOMAIN Installed : v = Installed[j]
BY Constants

\* A run that stops to do its work between two moves of the tree.
LEMMA PreparesKeep ==
  ASSUME RunTyping, InstallerInv,
         Inst!Stage \/ Inst!ClearUnitBackup \/ Inst!DropPrevious \/ Inst!MarkActivated
  PROVE  InstallerInv'
<1>0. RunTypes /\ run \in Inst!RunState
  BY RunTypesSplit DEF RunTyping
<1> USE DEF InstallerInv, Inst!treeVars, Inst!unitVars, Inst!historyVars, Installing, Restored,
            Inst!InstallPlaces
<1>1. \A j \in DOMAIN Installed : ~(j < 1)
  BY InstalledInOrder
<1>2. CASE Inst!Stage
  <2>1. run'.at = "clear" /\ run'.turn = 1 /\ SameRun /\ run'.outcome = run.outcome /\ run.at = "stage"
    BY <1>0, <1>2, RunGoesTo, RunPlaceNames DEF Inst!Stage
  <2>2. UNCHANGED <<current, kept, units, unitBackup, checked, worn, apart, slipped>>
    BY <1>2 DEF Inst!Stage
  <2> QED
    BY <2>1, <2>2 DEF RunInv, SetInv, InstallInv, WholeSetRestored, Inst!WholeSetRestored, SameRun
<1>3. CASE Inst!ClearUnitBackup
  <2>1. run'.at = "save" /\ run'.turn = 1 /\ SameRun /\ run'.outcome = run.outcome /\ run.at = "clear"
    BY <1>0, <1>3, RunGoesTo, RunPlaceNames DEF Inst!ClearUnitBackup
  <2>2. UNCHANGED <<current, kept, units, checked, worn, slipped>> /\ apart'
    BY <1>3 DEF Inst!ClearUnitBackup
  <2> QED
    BY <1>1, <2>1, <2>2
      DEF RunInv, SetInv, InstallInv, WholeSetRestored, Inst!WholeSetRestored, SameRun
<1>4. CASE Inst!DropPrevious
  <2>1. run'.at = "move" /\ run'.turn = 1 /\ SameRun /\ run'.outcome = run.outcome /\ run.at = "drop"
    BY <1>0, <1>4, RunGoesTo, RunPlaceNames DEF Inst!DropPrevious
  <2>2. UNCHANGED <<current, units, unitBackup, checked, worn, apart, slipped>> /\ kept' = None
    BY <1>4 DEF Inst!DropPrevious
  <2> QED
    BY <2>1, <2>2 DEF RunInv, SetInv, InstallInv, WholeSetRestored, Inst!WholeSetRestored, SameRun
<1>5. CASE Inst!MarkActivated
  <2>1. run'.at = "units" /\ run'.turn = run.turn /\ run'.version = run.version
        /\ run'.mode = run.mode /\ run'.activated
        /\ run'.outcome = run.outcome /\ run.at = "mark"
    BY <1>0, <1>5 DEF Inst!MarkActivated, Inst!RunState
  <2>2. UNCHANGED <<current, kept, units, unitBackup, checked, worn, apart, slipped>>
    BY <1>5 DEF Inst!MarkActivated
  <2> QED
    BY <1>1, <2>1, <2>2 DEF RunInv, SetInv, InstallInv, WholeSetRestored, Inst!WholeSetRestored
<1> QED
  BY <1>2, <1>3, <1>4, <1>5

\* The two renames keep InstallerInv: from the first one on tree and copies pair.
LEMMA MovesKeep ==
  ASSUME RunTyping, InstallerInv, Inst!MoveInstalled \/ Inst!PlaceStage
  PROVE  InstallerInv'
<1>0. RunTypes /\ run \in Inst!RunState
  BY RunTypesSplit DEF RunTyping
<1> USE DEF InstallerInv, Inst!treeVars, Inst!unitVars, Inst!historyVars, Installing, Restored,
            Inst!InstallPlaces
<1>1. CASE Inst!MoveInstalled
  <2>1. run'.at = "place" /\ run'.turn = 1 /\ SameRun /\ run'.outcome = run.outcome /\ run.at = "move"
    BY <1>0, <1>1, RunGoesTo, RunPlaceNames DEF Inst!MoveInstalled
  <2>2. /\ UNCHANGED <<units, unitBackup>>
        /\ kept' = current /\ worn'.tree = current /\ worn'.units = units /\ ~apart'
    BY <1>1 DEF Inst!MoveInstalled
  <2> QED
    BY <2>1, <2>2 DEF RunInv, SetInv, InstallInv, WholeSetRestored, Inst!WholeSetRestored, SameRun
<1>2. CASE Inst!PlaceStage
  <2>1. run'.at = "mark" /\ run'.turn = 1 /\ SameRun /\ run'.outcome = run.outcome /\ run.at = "place"
    BY <1>0, <1>2, RunGoesTo, RunPlaceNames DEF Inst!PlaceStage
  <2>2. UNCHANGED <<kept, units, unitBackup, checked, worn, apart, slipped>> /\ current' = run.version
    BY <1>2 DEF Inst!PlaceStage
  <2> QED
    BY <2>1, <2>2 DEF RunInv, SetInv, InstallInv, WholeSetRestored, Inst!WholeSetRestored, SameRun
<1> QED
  BY <1>1, <1>2

\* Restarts and Doctor keep InstallerInv.
LEMMA ChecksKeep ==
  ASSUME RunTyping, InstallerInv, Inst!RestartRuntime \/ Inst!Doctor \/ Inst!PassOverDoctor
  PROVE  InstallerInv'
<1>0. RunTypes /\ run \in Inst!RunState
  BY RunTypesSplit DEF RunTyping
<1> USE DEF InstallerInv, Inst!treeVars, Inst!unitVars, Inst!historyVars, Installing, Restored,
            Inst!InstallPlaces
<1>1. UNCHANGED <<current, kept, units, unitBackup, worn, apart, slipped>>
  BY DEF Inst!RestartRuntime, Inst!Doctor, Inst!PassOverDoctor
<1>2. /\ SameRun /\ run'.outcome = run.outcome
      /\ \/ run.at = "restart" /\ run'.at = "doctor"
         \/ run.at = "start" /\ run'.at = "examine"
         \/ run.at = "doctor" /\ run'.at = "setup" /\ checked' = "sound"
         \/ run.at = "examine" /\ run'.at = "clean" /\ (checked' = "sound" \/ run.mode = "recover")
  BY <1>0, RunGoesTo, RunPlaceNames DEF Inst!RestartRuntime, Inst!Doctor, Inst!PassOverDoctor
<1> QED
  BY <1>1, <1>2 DEF RunInv, SetInv, InstallInv, WholeSetRestored, Inst!WholeSetRestored, SameRun

\* SaveUnit keeps InstallerInv.
LEMMA SavesKeep ==
  ASSUME RunTyping, InstallerInv, NEW u \in Units, Inst!SaveUnit(u)
  PROVE  InstallerInv'
<1>0. RunTypes /\ run \in Inst!RunState
  BY RunTypesSplit DEF RunTyping
<1> USE DEF InstallerInv, Inst!treeVars, Inst!historyVars, Installing, Restored,
            Inst!InstallPlaces
<1>1. /\ UNCHANGED <<current, kept, units, checked, worn, apart, slipped>>
      /\ unitBackup' = [unitBackup EXCEPT ![u] = units[u]]
      /\ Inst!Loop("save", u, "drop")
  BY DEF Inst!SaveUnit
<1>2. /\ run.at = "save" /\ u = Installed[run.turn] /\ run.turn \in 1 .. Len(Installed)
      /\ SameRun /\ run'.outcome = run.outcome
      /\ \/ run.turn = Len(Installed) /\ run'.at = "drop"
         \/ run.turn < Len(Installed) /\ run'.at = "save" /\ run'.turn = run.turn + 1
  BY <1>0, <1>1, RunLoops, RunPlaceNames, ZenonT(60)
<1>3. \A j \in DOMAIN Installed : j <= run.turn => unitBackup'[Installed[j]] = units[Installed[j]]
  <2> SUFFICES ASSUME NEW j \in DOMAIN Installed, j <= run.turn
               PROVE  unitBackup'[Installed[j]] = units[Installed[j]]
    OBVIOUS
  <2>1. Installed[j] \in Units /\ j \in Nat /\ run.turn \in Nat
    BY <1>2, InstalledInOrder
  <2>2. j = run.turn \/ j < run.turn
    BY <2>1
  <2>3. j < run.turn => unitBackup[Installed[j]] = units[Installed[j]]
    BY <1>2 DEF SetInv
  <2> QED
    BY <1>0, <1>1, <1>2, <2>1, <2>2, <2>3 DEF RunTypes
<1>4. CASE run.turn = Len(Installed)
  <2>1. \A v \in Units : unitBackup'[v] = units[v]
    BY <1>3, <1>4, InstalledInOrder
  <2>2. unitBackup' = units
    BY <1>0, <1>1, <2>1 DEF RunTypes, UnitFiles
  <2>3. run'.at = "drop"
    BY <1>2, <1>4
  <2> QED
    BY <1>1, <1>2, <2>2, <2>3
      DEF RunInv, SetInv, InstallInv, WholeSetRestored, Inst!WholeSetRestored, SameRun
<1>5. CASE run.turn < Len(Installed)
  <2>1. run'.at = "save" /\ run'.turn = run.turn + 1
    BY <1>2, <1>5, InstalledInOrder
  <2>2. \A j \in DOMAIN Installed : j < run'.turn => unitBackup'[Installed[j]] = units'[Installed[j]]
    <3>1. \A j \in DOMAIN Installed : j < run'.turn => j <= run.turn
      BY <1>2, <2>1, InstalledInOrder
    <3> QED
      BY <1>1, <1>3, <3>1
  <2> QED
    BY <1>1, <1>2, <2>1, <2>2
      DEF RunInv, SetInv, InstallInv, WholeSetRestored, Inst!WholeSetRestored, SameRun
<1> QED
  BY <1>2, <1>4, <1>5

\* InstallUnit keeps InstallerInv.
LEMMA InstallsKeep ==
  ASSUME RunTyping, InstallerInv, NEW u \in Units, Inst!InstallUnit(u)
  PROVE  InstallerInv'
<1>0. RunTypes /\ run \in Inst!RunState
  BY RunTypesSplit DEF RunTyping
<1> USE DEF InstallerInv, Inst!treeVars, Inst!historyVars, Installing, Restored,
            Inst!InstallPlaces
<1>1. /\ UNCHANGED <<current, kept, unitBackup, checked, worn, apart, slipped>>
      /\ units' = [units EXCEPT ![u] = IF Brings[current][u] # None THEN Brings[current][u] ELSE units[u]]
      /\ Inst!Loop("units", u, "restart")
  BY DEF Inst!InstallUnit
<1>2. /\ run.at = "units" /\ u = Installed[run.turn] /\ run.turn \in 1 .. Len(Installed)
      /\ SameRun /\ run'.outcome = run.outcome
      /\ \/ run.turn = Len(Installed) /\ run'.at = "restart"
         \/ run.turn < Len(Installed) /\ run'.at = "units" /\ run'.turn = run.turn + 1
  BY <1>0, <1>1, RunLoops, RunPlaceNames
<1>3. \A j \in DOMAIN Installed :
        j <= run.turn => Brings[current][Installed[j]] \in {None, units'[Installed[j]]}
  <2> SUFFICES ASSUME NEW j \in DOMAIN Installed, j <= run.turn
               PROVE  Brings[current][Installed[j]] \in {None, units'[Installed[j]]}
    OBVIOUS
  <2>1. Installed[j] \in Units /\ j \in Nat /\ run.turn \in Nat
    BY <1>2, InstalledInOrder
  <2>2. j = run.turn \/ j < run.turn
    BY <2>1
  <2>3. j < run.turn => Brings[current][Installed[j]] \in {None, units[Installed[j]]}
    BY <1>2 DEF InstallInv
  <2> QED
    BY <1>0, <1>1, <1>2, <2>1, <2>2, <2>3 DEF RunTypes, UnitFiles
<1>4. CASE run.turn = Len(Installed)
  <2>1. \A v \in Units : Brings[current][v] \in {None, units'[v]}
    BY <1>3, <1>4, InstalledInOrder
  <2>2. run'.at = "restart"
    BY <1>2, <1>4
  <2> QED
    BY <1>1, <1>2, <2>1, <2>2
      DEF RunInv, SetInv, InstallInv, WholeSetRestored, Inst!WholeSetRestored, SameRun
<1>5. CASE run.turn < Len(Installed)
  <2>1. run'.at = "units" /\ run'.turn = run.turn + 1
    BY <1>2, <1>5, InstalledInOrder
  <2>2. \A j \in DOMAIN Installed :
          j < run'.turn => Brings[current'][Installed[j]] \in {None, units'[Installed[j]]}
    <3>1. \A j \in DOMAIN Installed : j < run'.turn => j <= run.turn
      BY <1>2, <2>1, InstalledInOrder
    <3> QED
      BY <1>1, <1>3, <3>1
  <2> QED
    BY <1>1, <1>2, <2>1, <2>2
      DEF RunInv, SetInv, InstallInv, WholeSetRestored, Inst!WholeSetRestored, SameRun
<1> QED
  BY <1>2, <1>4, <1>5

\* RestoreUnit keeps InstallerInv, in a rollback and in a withdrawal.
LEMMA RestoresKeep ==
  ASSUME RunTyping, InstallerInv, NEW u \in Units, Inst!RestoreUnit(u)
  PROVE  InstallerInv'
<1>0. RunTypes /\ run \in Inst!RunState
  BY RunTypesSplit DEF RunTyping
<1> USE DEF InstallerInv, Inst!treeVars, Inst!historyVars, Installing, Restored,
            Inst!InstallPlaces
<1>1. /\ UNCHANGED <<current, kept, unitBackup, checked, worn, apart, slipped>>
      /\ units' = [units EXCEPT ![u] = IF unitBackup[u] = Unsaved THEN units[u] ELSE unitBackup[u]]
      /\ Inst!Loop("restore", u, "start") \/ Inst!Loop("withdraw", u, "withdrawn")
  BY DEF Inst!RestoreUnit
<1>2. /\ run.at \in {"restore", "withdraw"}
      /\ u = Installed[run.turn] /\ run.turn \in 1 .. Len(Installed)
      /\ SameRun /\ run'.outcome = run.outcome
      /\ \/ run.turn = Len(Installed)
            /\ \/ run.at = "restore" /\ run'.at = "start"
               \/ run.at = "withdraw" /\ run'.at = "withdrawn"
         \/ run.turn < Len(Installed) /\ run'.at = run.at /\ run'.turn = run.turn + 1
  BY <1>0, <1>1, RunLoops, RunPlaceNames, ZenonT(60)
<1>3. ASSUME ~apart, ~slipped
      PROVE  \A j \in DOMAIN Installed : j <= run.turn => units'[Installed[j]] = worn.units[Installed[j]]
  <2> SUFFICES ASSUME NEW j \in DOMAIN Installed, j <= run.turn
               PROVE  units'[Installed[j]] = worn.units[Installed[j]]
    OBVIOUS
  <2>1. Installed[j] \in Units /\ j \in Nat /\ run.turn \in Nat
    BY <1>2, InstalledInOrder
  <2>2. j = run.turn \/ j < run.turn
    BY <2>1
  <2>3. j < run.turn => units[Installed[j]] = worn.units[Installed[j]]
    BY <1>2, <1>3 DEF SetInv
  <2>4. unitBackup = worn.units
    BY <1>2, <1>3 DEF SetInv
  <2>5. worn.units[Installed[j]] # Unsaved /\ worn.units[u] # Unsaved
    BY <1>0, <2>1, Constants DEF RunTypes, UnitFiles
  <2> QED
    BY <1>0, <1>1, <1>2, <2>1, <2>2, <2>3, <2>4, <2>5 DEF RunTypes, UnitFiles
<1>4. CASE run.turn = Len(Installed)
  <2>1. ~apart /\ ~slipped => \A v \in Units : units'[v] = worn.units[v]
    BY <1>3, <1>4, InstalledInOrder
  <2>2. ~apart /\ ~slipped => units' = worn.units
    <3>1. units' \in [Units -> Commits \cup {None, Unsaved}] /\ worn.units \in UnitFiles
      BY <1>0, <1>1 DEF RunTypes, UnitFiles
    <3> QED
      BY <2>1, <3>1 DEF UnitFiles
  <2>3. \/ run.at = "restore" /\ run'.at = "start"
        \/ run.at = "withdraw" /\ run'.at = "withdrawn"
    BY <1>2, <1>4
  <2> QED
    BY <1>1, <1>2, <2>2, <2>3
      DEF RunInv, SetInv, InstallInv, WholeSetRestored, Inst!WholeSetRestored, SameRun
<1>5. CASE run.turn < Len(Installed)
  <2>1. run'.at = run.at /\ run'.turn = run.turn + 1
    BY <1>2, <1>5, InstalledInOrder
  <2>2. ~apart /\ ~slipped =>
          \A j \in DOMAIN Installed : j < run'.turn => units'[Installed[j]] = worn.units[Installed[j]]
    <3>1. \A j \in DOMAIN Installed : j < run'.turn => j <= run.turn
      BY <1>2, <2>1, InstalledInOrder
    <3> QED
      BY <1>3, <3>1
  <2> QED
    BY <1>1, <1>2, <2>1, <2>2
      DEF RunInv, SetInv, InstallInv, WholeSetRestored, Inst!WholeSetRestored, SameRun
<1> QED
  BY <1>2, <1>4, <1>5

\* A unit passed over keeps InstallerInv: it is noted in slipped.
LEMMA PassesKeep ==
  ASSUME RunTyping, InstallerInv, NEW u \in Units, Inst!PassOver(u)
  PROVE  InstallerInv'
<1>0. RunTypes /\ run \in Inst!RunState
  BY RunTypesSplit DEF RunTyping
<1> USE DEF InstallerInv, Inst!treeVars, Inst!unitVars, Inst!historyVars, Installing, Restored,
            Inst!InstallPlaces
<1>1. /\ UNCHANGED <<current, kept, units, unitBackup, checked, worn, apart>> /\ slipped'
      /\ Inst!Loop("restore", u, "start") \/ Inst!Loop("withdraw", u, "withdrawn")
  BY DEF Inst!PassOver
<1>2. /\ SameRun /\ run'.outcome = run.outcome
      /\ \/ run.at = "restore" /\ run'.at \in {"start", "restore"}
         \/ run.at = "withdraw" /\ run'.at \in {"withdrawn", "withdraw"}
  BY <1>0, <1>1, RunLoops, RunPlaceNames
<1> QED
  BY <1>1, <1>2 DEF RunInv, SetInv, InstallInv, WholeSetRestored, Inst!WholeSetRestored, SameRun

\* The moves of a rollback keep InstallerInv.
LEMMA ReturnsKeep ==
  ASSUME RunTyping, InstallerInv,
         Inst!StopServices \/ Inst!MoveAway \/ Inst!MoveBack \/ Inst!NothingToMoveBack
  PROVE  InstallerInv'
<1>0. RunTypes /\ run \in Inst!RunState
  BY RunTypesSplit DEF RunTyping
<1> USE DEF InstallerInv, Inst!treeVars, Inst!unitVars, Inst!historyVars, Installing, Restored,
            Inst!InstallPlaces
<1>1. \A j \in DOMAIN Installed : ~(j < 1)
  BY InstalledInOrder
<1>2. CASE Inst!StopServices
  <2>1. run'.at = "away" /\ SameRun /\ run'.outcome = run.outcome /\ run.at = "stop"
    BY <1>0, <1>2, RunGoesTo, RunPlaceNames DEF Inst!StopServices
  <2>2. UNCHANGED <<current, kept, units, unitBackup, worn, apart, slipped>>
    BY <1>2 DEF Inst!StopServices
  <2> QED
    BY <2>1, <2>2 DEF RunInv, SetInv, InstallInv, WholeSetRestored, Inst!WholeSetRestored, SameRun
<1>3. CASE Inst!MoveAway
  <2>1. run'.at = "back" /\ SameRun /\ run'.outcome = run.outcome /\ run.at = "away"
    BY <1>0, <1>3, RunGoesTo, RunPlaceNames DEF Inst!MoveAway
  <2>2. UNCHANGED <<kept, units, unitBackup, checked, worn, apart, slipped>> /\ current' = None
    BY <1>3 DEF Inst!MoveAway
  <2> QED
    BY <2>1, <2>2 DEF RunInv, SetInv, InstallInv, WholeSetRestored, Inst!WholeSetRestored, SameRun
<1>4. CASE Inst!MoveBack
  <2>1. run'.at = "restore" /\ run'.turn = 1 /\ SameRun /\ run'.outcome = run.outcome /\ run.at = "back"
    BY <1>0, <1>4, RunGoesTo, RunPlaceNames DEF Inst!MoveBack
  <2>2. /\ UNCHANGED <<units, unitBackup, checked, worn, apart, slipped>>
        /\ kept # None /\ current' = kept /\ kept' = None
    BY <1>4 DEF Inst!MoveBack
  <2> QED
    BY <1>1, <2>1, <2>2
      DEF RunInv, SetInv, InstallInv, WholeSetRestored, Inst!WholeSetRestored, SameRun
<1>5. CASE Inst!NothingToMoveBack
  <2>1. /\ run'.at = "idle" /\ run'.mode = run.mode /\ ~run'.activated
        /\ run'.outcome = "failed" /\ run.at = "back"
    BY <1>0, <1>5, RunEnds DEF Inst!NothingToMoveBack, Inst!Outcomes
  <2>2. UNCHANGED <<current, kept, units, unitBackup, checked, worn, apart, slipped>>
    BY <1>5 DEF Inst!NothingToMoveBack
  <2> QED
    BY <2>1, <2>2
      DEF RunInv, SetInv, InstallInv, WholeSetRestored, Inst!WholeSetRestored, Inst!SuccessLeavesWayBack
<1> QED
  BY <1>2, <1>3, <1>4, <1>5

\* A withdrawal keeps InstallerInv.
LEMMA WithdrawalsKeep ==
  ASSUME RunTyping, InstallerInv, Inst!RemoveInstalled \/ Inst!Withdrawn
  PROVE  InstallerInv'
<1>0. RunTypes /\ run \in Inst!RunState
  BY RunTypesSplit DEF RunTyping
<1> USE DEF InstallerInv, Inst!treeVars, Inst!unitVars, Inst!historyVars, Installing, Restored,
            Inst!InstallPlaces
<1>1. \A j \in DOMAIN Installed : ~(j < 1)
  BY InstalledInOrder
<1>2. CASE Inst!RemoveInstalled
  <2>1. run'.at = "withdraw" /\ run'.turn = 1 /\ SameRun /\ run'.outcome = run.outcome /\ run.at = "remove"
    BY <1>0, <1>2, RunGoesTo, RunPlaceNames DEF Inst!RemoveInstalled
  <2>2. UNCHANGED <<kept, units, unitBackup, worn, apart, slipped>> /\ current' = None
    BY <1>2 DEF Inst!RemoveInstalled
  <2> QED
    BY <1>1, <2>1, <2>2
      DEF RunInv, SetInv, InstallInv, WholeSetRestored, Inst!WholeSetRestored, SameRun
<1>3. CASE Inst!Withdrawn
  <2>1. /\ run'.at = "idle" /\ run'.mode = run.mode /\ ~run'.activated
        /\ run'.outcome = "withdrawn" /\ run.at = "withdrawn"
    BY <1>0, <1>3, RunEnds DEF Inst!Withdrawn, Inst!Outcomes
  <2>2. UNCHANGED <<current, kept, units, unitBackup, checked, worn, apart, slipped>>
    BY <1>3 DEF Inst!Withdrawn
  <2> QED
    BY <2>1, <2>2
      DEF RunInv, SetInv, InstallInv, WholeSetRestored, Inst!WholeSetRestored, Inst!SuccessLeavesWayBack
<1> QED
  BY <1>2, <1>3

\* The ends of a run that verifies keep InstallerInv.
LEMMA EndingsKeep ==
  ASSUME RunTyping, InstallerInv, Inst!FinishInstall \/ Inst!CleanUp
  PROVE  InstallerInv'
<1>0. RunTypes /\ run \in Inst!RunState
  BY RunTypesSplit DEF RunTyping
<1> USE DEF InstallerInv, Inst!treeVars, Inst!unitVars, Inst!historyVars, Installing, Restored,
            Inst!InstallPlaces
<1>1. CASE Inst!FinishInstall
  <2>1. /\ run'.at = "idle" /\ run'.mode = run.mode /\ ~run'.activated /\ run'.version = run.version
        /\ run'.outcome = "installed" /\ run.at = "setup"
    BY <1>0, <1>1, RunEnds DEF Inst!FinishInstall, Inst!Outcomes
  <2>2. /\ UNCHANGED <<current, kept, units, checked, worn, apart, slipped>>
        /\ kept # None => unitBackup' = unitBackup
    BY <1>1 DEF Inst!FinishInstall, Inst!Verified
  <2> QED
    BY <2>1, <2>2
      DEF RunInv, SetInv, InstallInv, WholeSetRestored, Inst!WholeSetRestored, Inst!SuccessLeavesWayBack, Units
<1>2. CASE Inst!CleanUp
  <2>1. /\ run'.at = "idle" /\ run'.mode = run.mode /\ ~run'.activated
        /\ run'.outcome = "rolled back" /\ run.at = "clean"
    BY <1>0, <1>2, RunEnds DEF Inst!CleanUp, Inst!Outcomes
  <2>2. UNCHANGED <<current, kept, units, checked, worn, apart, slipped>>
    BY <1>2 DEF Inst!CleanUp, Inst!Verified
  <2> QED
    BY <2>1, <2>2
      DEF RunInv, SetInv, InstallInv, WholeSetRestored, Inst!WholeSetRestored, Inst!SuccessLeavesWayBack
<1> QED
  BY <1>1, <1>2

\* So does the beginning of a run.
LEMMA BeginningsKeep ==
  ASSUME RunTyping, InstallerInv, Inst!Rollback \/ \E v \in Releases : Inst!Install(v)
  PROVE  InstallerInv'
<1> USE DEF InstallerInv, Inst!treeVars, Inst!unitVars, Installing, Restored, Inst!InstallPlaces
<1>1. /\ ~run'.activated /\ run'.outcome = "none"
      /\ \/ run'.at = "stage" /\ run'.mode = "install"
         \/ run'.at = "stop" /\ run'.mode = "rollback"
  BY DEF Inst!Install, Inst!Rollback, Inst!Begin
<1>2. UNCHANGED <<current, kept, units, unitBackup, checked, worn, apart>>
  BY DEF Inst!Install, Inst!Rollback, Inst!Begin
<1> QED
  BY <1>1, <1>2 DEF RunInv, SetInv, InstallInv, WholeSetRestored, Inst!WholeSetRestored

\* Whatever ends a run, or sends it back.
LEMMA RunFaultsKeep ==
  ASSUME RunTyping, InstallerInv, Inst!StepFails \/ Inst!Interrupt \/ Inst!Kill
  PROVE  InstallerInv'
<1>0. RunTypes /\ run \in Inst!RunState
  BY RunTypesSplit DEF RunTyping
<1> USE DEF InstallerInv, Inst!treeVars, Inst!unitVars, Inst!historyVars, Installing, Restored,
            Inst!InstallPlaces
<1>1. UNCHANGED <<current, kept, units, unitBackup, checked, worn, apart, slipped>>
  BY DEF Inst!StepFails, Inst!Interrupt, Inst!Kill, Inst!Disturb
<1>2. CASE Inst!End("failed") \/ Inst!End("killed")
  <2>1. run'.at = "idle" /\ ~run'.activated /\ run'.outcome \in {"failed", "killed"}
    BY <1>0, <1>2, RunEnds DEF Inst!Outcomes
  <2> QED
    BY <1>1, <2>1
      DEF RunInv, SetInv, InstallInv, WholeSetRestored, Inst!WholeSetRestored, Inst!SuccessLeavesWayBack
<1>3. CASE run.at \in Inst!InstallPlaces /\ Inst!InstallExit
  <2>1. CASE ~run.activated
    BY <1>2, <1>3, <2>1 DEF Inst!InstallExit
  <2>2. CASE run.activated /\ kept # None
    <3>1. run'.at = "stop" /\ run'.mode = "recover" /\ run'.outcome = run.outcome
      BY <1>0, <1>3, <2>2, RunExits
    <3> QED
      BY <1>1, <1>3, <3>1
        DEF RunInv, SetInv, InstallInv, WholeSetRestored, Inst!WholeSetRestored
  <2>3. CASE run.activated /\ kept = None
    <3>1. run'.at = "remove" /\ run'.mode = run.mode /\ run'.outcome = run.outcome
      BY <1>0, <1>3, <2>3, RunExits
    <3>2. run.at \in Installing
      BY <1>3, <2>3 DEF RunInv
    <3> QED
      BY <1>1, <1>3, <2>3, <3>1, <3>2
        DEF RunInv, SetInv, InstallInv, WholeSetRestored, Inst!WholeSetRestored
  <2> QED
    BY <2>1, <2>2, <2>3
<1> QED
  BY <1>2, <1>3 DEF Inst!StepFails, Inst!Fails, Inst!Interrupt, Inst!Kill

\* InstallerInv is kept by every step of either script.
LEMMA InstallerStep == Typing /\ InstallerInv /\ [Next]_vars => InstallerInv'
<1> SUFFICES ASSUME Typing, InstallerInv, [Next]_vars PROVE InstallerInv'
  OBVIOUS
<1>1. CASE RunStep
  <2>1. RunTyping /\ Inst!Next
    BY <1>1 DEF RunStep, Typing, TypeOK, RunTyping
  <2> QED
    BY <2>1, PreparesKeep, MovesKeep, ChecksKeep, SavesKeep, InstallsKeep, RestoresKeep, PassesKeep,
       ReturnsKeep, WithdrawalsKeep, EndingsKeep, BeginningsKeep, RunFaultsKeep
      DEF Inst!Next, Inst!InstallStep, Inst!RollbackStep, Units
<1>2. CASE DeploymentStep
  <2>1. run.at = "idle" /\ run' = Inst!Idle /\ UNCHANGED <<kept, unitBackup, worn, apart>>
    BY <1>2 DEF DeploymentStep
  <2>2. run'.at = "idle" /\ run'.outcome = "none" /\ ~run'.activated
    BY <2>1 DEF Inst!Idle
  <2>3. RunInv'
    BY <2>2 DEF RunInv, Inst!InstallPlaces
  <2>4. SetInv'
    BY <2>1, <2>2, ZenonT(60)
      DEF InstallerInv, SetInv, WholeSetRestored, Inst!WholeSetRestored, Installing, Restored,
          Inst!InstallPlaces
  <2>5. InstallInv'
    BY <2>2 DEF InstallInv, Inst!SuccessLeavesWayBack, Installing, Inst!InstallPlaces
  <2> QED
    BY <2>3, <2>4, <2>5 DEF InstallerInv
<1>3. CASE UNCHANGED vars
  <2>1. UNCHANGED <<current, units, kept, unitBackup, checked, run, worn, apart, slipped>>
    BY <1>3 DEF vars, runVars
  <2>2. RunInv'
    BY <2>1 DEF InstallerInv, RunInv
  <2>3. SetInv'
    BY <2>1, ZenonT(60) DEF InstallerInv, SetInv, WholeSetRestored, Inst!WholeSetRestored
  <2>4. InstallInv'
    BY <2>1 DEF InstallerInv, InstallInv, Inst!SuccessLeavesWayBack
  <2> QED
    BY <2>2, <2>3, <2>4 DEF InstallerInv
<1> QED
  BY <1>1, <1>2, <1>3 DEF Next

\* InstallerInv holds before the first run.
LEMMA InstallerInit == Init => InstallerInv
<1> SUFFICES ASSUME Init PROVE InstallerInv
  OBVIOUS
<1>1. run = Inst!Idle /\ kept = None
  BY DEF Init, Inst!Init, Inst!NoRunYet
<1>2. run.at = "idle" /\ run.outcome = "none" /\ ~run.activated
  BY <1>1 DEF Inst!Idle
<1> QED
  BY <1>1, <1>2
    DEF InstallerInv, RunInv, SetInv, InstallInv, WholeSetRestored, Inst!WholeSetRestored,
        Inst!SuccessLeavesWayBack, Installing, Restored, Inst!InstallPlaces

\* The inductive invariant of install.sh holds of the appliance.
LEMMA InstallerHolds == Spec => []InstallerInv
<1>1. Kernel /\ InstallerInv /\ [Next]_vars => InstallerInv'
  BY InstallerStep DEF Kernel
<1> QED
  BY <1>1, KernelHolds, InstallerInit, PTL DEF Spec

\* A rollback of install.sh, asked for or in its trap, and a withdrawal restore the tree that
\* was moved and the units it ran with, as a set, also when a deployment replaced both in
\* between; unless units were saved since and no tree moved, or a unit was passed over.
THEOREM WholeSetIsRestored == Spec => []WholeSetRestored
<1>1. InstallerInv => WholeSetRestored
  BY DEF InstallerInv, SetInv
<1> QED
  BY <1>1, InstallerHolds, PTL

\* What either script reports verified is in place with its units and sound, and the set to
\* go back to is whole.
THEOREM SuccessKeepsWayBack == Spec => []SuccessLeavesWayBack
<1>1. Kernel /\ InstallerInv => SuccessLeavesWayBack
  <2> SUFFICES ASSUME Kernel, InstallerInv PROVE SuccessLeavesWayBack
    OBVIOUS
  <2>1. Inst!SuccessLeavesWayBack
    <3>1. run.outcome = "installed" => run.at = "idle"
      BY DEF InstallerInv, RunInv
    <3> QED
      BY <3>1 DEF InstallerInv, InstallInv, Inst!SuccessLeavesWayBack
  <2> QED
    BY <2>1 DEF Kernel, DeployInv, AfterMove, SuccessLeavesWayBack
<1> QED
  BY <1>1, InstallerHolds, KernelHolds, PTL

-----------------------------------------------------------------------------
(* The runtime that stays.                                                 *)

\* A run that leaves the trees where they are, or moves them where they are needed.
LEMMA StepsLeaveTree ==
  ASSUME RunTyping, InstallerInv, NEW t \in Dep!Tree, KeptAside(t) \/ InPlace(t),
         \/ Inst!Stage \/ Inst!ClearUnitBackup \/ Inst!DropPrevious \/ Inst!MarkActivated
         \/ Inst!RestartRuntime \/ Inst!Doctor \/ Inst!PassOverDoctor \/ Inst!StopServices
         \/ \E u \in Units :
              Inst!SaveUnit(u) \/ Inst!InstallUnit(u) \/ Inst!RestoreUnit(u) \/ Inst!PassOver(u)
  PROVE  KeptAside(t)' \/ InPlace(t)'
<1>0. run \in Inst!RunState
  BY RunTypesSplit DEF RunTyping
<1> USE DEF Inst!treeVars, Inst!unitVars, Inst!historyVars, Installing
<1>1. UNCHANGED <<current, aside, runs>>
  BY DEF Inst!Stage, Inst!ClearUnitBackup, Inst!DropPrevious, Inst!MarkActivated,
         Inst!RestartRuntime, Inst!Doctor, Inst!PassOverDoctor, Inst!StopServices,
         Inst!SaveUnit, Inst!InstallUnit, Inst!RestoreUnit, Inst!PassOver
<1>2. kept' = kept \/ run.at = "drop"
  BY DEF Inst!Stage, Inst!ClearUnitBackup, Inst!DropPrevious, Inst!MarkActivated,
         Inst!RestartRuntime, Inst!Doctor, Inst!PassOverDoctor, Inst!StopServices,
         Inst!SaveUnit, Inst!InstallUnit, Inst!RestoreUnit, Inst!PassOver
<1> DEFINE Onward ==
      /\ run'.mode = run.mode
      /\ \/ run.at = "stage" /\ run'.at = "clear"
         \/ run.at = "clear" /\ run'.at = "save"
         \/ run.at = "save" /\ run'.at \in {"save", "drop"}
         \/ run.at = "drop" /\ run'.at = "move"
         \/ run.at = "mark" /\ run'.at = "units"
         \/ run.at = "units" /\ run'.at \in {"units", "restart"}
         \/ run.at = "restart" /\ run'.at = "doctor"
         \/ run.at = "doctor" /\ run'.at = "setup"
         \/ run.at = "stop" /\ run'.at = "away"
         \/ run.at = "restore" /\ run'.at \in {"restore", "start"}
         \/ run.at = "start" /\ run'.at = "examine"
         \/ run.at = "examine" /\ run'.at = "clean"
         \/ run.at = "withdraw" /\ run'.at \in {"withdraw", "withdrawn"}
<1>3. Onward
  <2>1. CASE \/ Inst!Stage \/ Inst!ClearUnitBackup \/ Inst!DropPrevious \/ Inst!RestartRuntime
             \/ Inst!Doctor \/ Inst!PassOverDoctor \/ Inst!StopServices
    BY <1>0, <2>1, RunGoesTo, RunPlaceNames
      DEF Inst!Stage, Inst!ClearUnitBackup, Inst!DropPrevious, Inst!RestartRuntime, Inst!Doctor,
          Inst!PassOverDoctor, Inst!StopServices, SameRun
  <2>2. CASE Inst!MarkActivated
    BY <1>0, <2>2 DEF Inst!MarkActivated, Inst!RunState
  <2>3. ASSUME NEW u \in Units,
               Inst!SaveUnit(u) \/ Inst!InstallUnit(u) \/ Inst!RestoreUnit(u) \/ Inst!PassOver(u)
        PROVE  Onward
    <3>1. \/ Inst!Loop("save", u, "drop") \/ Inst!Loop("units", u, "restart")
          \/ Inst!Loop("restore", u, "start") \/ Inst!Loop("withdraw", u, "withdrawn")
      BY <2>3 DEF Inst!SaveUnit, Inst!InstallUnit, Inst!RestoreUnit, Inst!PassOver
    <3>2. ASSUME NEW place \in RunPlaces, NEW next \in RunPlaces, Inst!Loop(place, u, next)
          PROVE  run'.mode = run.mode /\ run.at = place /\ run'.at \in {place, next}
      BY <1>0, <3>2, RunLoops DEF SameRun
    <3>3. {"save", "drop", "units", "restart", "restore", "start", "withdraw", "withdrawn"}
            \subseteq RunPlaces
      BY RunPlaceNames
    <3>4. CASE Inst!Loop("save", u, "drop") \/ Inst!Loop("units", u, "restart")
      BY <3>2, <3>3, <3>4
    <3>5. CASE Inst!Loop("restore", u, "start") \/ Inst!Loop("withdraw", u, "withdrawn")
      BY <3>2, <3>3, <3>5
    <3> QED
      BY <3>1, <3>4, <3>5
  <2> QED
    BY <2>1, <2>2, <2>3
<1>4. Away' <=> Away
  BY <1>3 DEF Away
<1> QED
  BY <1>1, <1>2, <1>3, <1>4 DEF KeptAside, InPlace, Away

\* A run that moves trees leaves the one that is needed where it will be looked for.
LEMMA MovesLeaveTree ==
  ASSUME RunTyping, InstallerInv, NEW t \in Dep!Tree, KeptAside(t) \/ InPlace(t),
         \/ Inst!MoveInstalled \/ Inst!PlaceStage \/ Inst!MoveAway \/ Inst!MoveBack
         \/ Inst!NothingToMoveBack \/ Inst!RemoveInstalled \/ Inst!Withdrawn
  PROVE  KeptAside(t)' \/ InPlace(t)'
<1>0. run \in Inst!RunState /\ t # None
  BY RunTypesSplit, Constants DEF RunTyping
<1> USE DEF Inst!treeVars, Installing
<1>1. UNCHANGED runs
  BY DEF Inst!MoveInstalled, Inst!PlaceStage, Inst!MoveAway, Inst!MoveBack,
         Inst!NothingToMoveBack, Inst!RemoveInstalled, Inst!Withdrawn
<1>2. CASE Inst!MoveInstalled
  <2>1. run.at = "move" /\ run'.at = "place" /\ run'.mode = run.mode
    BY <1>0, <1>2, RunGoesTo, RunPlaceNames DEF Inst!MoveInstalled, SameRun
  <2>2. kept' = current /\ aside' = aside
    BY <1>2 DEF Inst!MoveInstalled
  <2> QED
    BY <1>1, <2>1, <2>2 DEF KeptAside, InPlace, Away
<1>3. CASE Inst!PlaceStage
  <2>1. run.at = "place" /\ run'.at = "mark" /\ run'.mode = run.mode
    BY <1>0, <1>3, RunGoesTo, RunPlaceNames DEF Inst!PlaceStage, SameRun
  <2>2. kept' = kept /\ aside' = aside
    BY <1>3 DEF Inst!PlaceStage
  <2> QED
    BY <1>1, <2>1, <2>2 DEF KeptAside, InPlace, Away
<1>4. CASE Inst!MoveAway
  <2>1. run.at = "away" /\ run'.at = "back" /\ run'.mode = run.mode
    BY <1>0, <1>4, RunGoesTo, RunPlaceNames DEF Inst!MoveAway, SameRun
  <2>2. /\ kept' = kept
        /\ aside' = IF current = None THEN aside ELSE aside \cup {<<current, runs>>}
    BY <1>4 DEF Inst!MoveAway
  <2>3. run.mode \in {"rollback", "recover"}
    BY <1>0, <2>1 DEF Inst!RunState, InstallerInv, RunInv
  <2>4. KeptAside(t) => KeptAside(t)'
    BY <1>1, <2>1, <2>2 DEF KeptAside
  <2>5. CASE run.mode = "recover"
    BY <1>1, <2>1, <2>2, <2>4, <2>5 DEF InPlace, Away
  <2>6. CASE run.mode = "rollback"
    <3>1. ASSUME t = current PROVE KeptAside(t)'
      <4>1. <<current, runs>> \in aside' /\ <<current, runs>>[1] = t
        BY <1>0, <2>2, <3>1
      <4> QED
        BY <2>1, <2>6, <4>1 DEF KeptAside
    <3> QED
      BY <2>1, <2>4, <2>6, <3>1 DEF InPlace, Away
  <2> QED
    BY <2>3, <2>5, <2>6
<1>5. CASE Inst!MoveBack
  <2>1. run.at = "back" /\ run'.at = "restore" /\ run'.mode = run.mode
    BY <1>0, <1>5, RunGoesTo, RunPlaceNames DEF Inst!MoveBack, SameRun
  <2>2. current' = kept /\ aside' = aside
    BY <1>5 DEF Inst!MoveBack
  <2>3. current = None
    BY <2>1 DEF InstallerInv, RunInv
  <2> QED
    BY <1>0, <1>1, <2>1, <2>2, <2>3 DEF KeptAside, InPlace, Away
<1>6. CASE Inst!NothingToMoveBack
  <2>1. run.at = "back" /\ run'.at = "idle" /\ run'.mode = run.mode
    BY <1>0, <1>6, RunEnds DEF Inst!NothingToMoveBack, Inst!Outcomes
  <2>2. aside' = aside /\ kept = None
    BY <1>6 DEF Inst!NothingToMoveBack
  <2>3. current = None
    BY <2>1 DEF InstallerInv, RunInv
  <2> QED
    BY <1>0, <2>1, <2>2, <2>3 DEF KeptAside, InPlace
<1>7. CASE Inst!RemoveInstalled
  <2>1. run.at = "remove" /\ run'.at = "withdraw" /\ run'.mode = run.mode
    BY <1>0, <1>7, RunGoesTo, RunPlaceNames DEF Inst!RemoveInstalled, SameRun
  <2>2. kept' = kept /\ aside' = aside
    BY <1>7 DEF Inst!RemoveInstalled
  <2> QED
    BY <1>1, <2>1, <2>2 DEF KeptAside, InPlace, Away
<1>8. CASE Inst!Withdrawn
  <2>1. run.at = "withdrawn" /\ run'.at = "idle" /\ run'.mode = run.mode
    BY <1>0, <1>8, RunEnds DEF Inst!Withdrawn, Inst!Outcomes
  <2>2. aside' = aside /\ kept = None
    BY <1>8, <2>1 DEF Inst!Withdrawn, InstallerInv, SetInv
  <2> QED
    BY <1>0, <2>1, <2>2 DEF KeptAside, InPlace, Away
<1> QED
  BY <1>2, <1>3, <1>4, <1>5, <1>6, <1>7, <1>8

\* So does a run that begins, ends, or is cut short outside of a change.
LEMMA EndsLeaveTree ==
  ASSUME RunTyping, InstallerInv, NEW t \in Dep!Tree, KeptAside(t) \/ InPlace(t),
         \A a \in aside : a[2] <= runs,
         \/ Inst!CleanUp /\ checked # "sound"
         \/ Inst!Rollback \/ \E v \in Releases : Inst!Install(v)
         \/ (Inst!StepFails \/ Inst!Interrupt \/ Inst!Kill) /\ ~cut'
  PROVE  KeptAside(t)' \/ InPlace(t)'
<1>0. run \in Inst!RunState /\ t # None
  BY RunTypesSplit, Constants DEF RunTyping
<1> USE DEF Inst!treeVars, Installing
<1>1. CASE Inst!CleanUp /\ checked # "sound"
  <2>1. run.at = "clean" /\ run'.at = "idle" /\ run'.mode = run.mode
    BY <1>0, <1>1, RunEnds DEF Inst!CleanUp, Inst!Outcomes
  <2>2. UNCHANGED <<current, runs>> /\ aside' = {a \in aside : a[2] # runs}
    BY <1>1 DEF Inst!CleanUp
  <2>3. run.mode # "rollback"
    BY <1>1, <2>1 DEF InstallerInv, SetInv
  <2> QED
    BY <2>1, <2>2, <2>3 DEF KeptAside, InPlace, Away
<1>2. CASE Inst!Rollback \/ \E v \in Releases : Inst!Install(v)
  <2>1. /\ run.at = "idle" /\ runs' = runs + 1
        /\ run'.at = "stage" \/ (run'.at = "stop" /\ run'.mode = "rollback")
        /\ UNCHANGED <<current, aside>>
    BY <1>2 DEF Inst!Rollback, Inst!Install, Inst!Begin
  <2>2. \A a \in aside : a[2] # runs'
    <3>1. runs \in Nat /\ \A a \in aside : a[2] \in Nat
      BY Constants DEF RunTyping, Inst!TypeOK
    <3> QED
      BY <2>1, <3>1
  <2> QED
    BY <2>1, <2>2 DEF KeptAside, InPlace, Away
<1>3. CASE (Inst!StepFails \/ Inst!Interrupt \/ Inst!Kill) /\ ~cut'
  <2>1. UNCHANGED <<current, kept, aside, runs>>
    BY <1>3 DEF Inst!StepFails, Inst!Interrupt, Inst!Kill, Inst!Disturb
  <2>2. ASSUME run'.at = "idle", ~Away PROVE KeptAside(t)' \/ InPlace(t)'
    BY <2>1, <2>2 DEF KeptAside, InPlace, Away
  <2>3. ASSUME Inst!InstallExit, run.at \in Inst!InstallPlaces, run.at \notin {"place", "mark"}
        PROVE  KeptAside(t)' \/ InPlace(t)'
    <3>1. run.mode = "install" /\ (run.activated <=> run.at \in Installing)
      BY <2>3 DEF InstallerInv, RunInv
    <3>2. \/ run.at \in Installing /\ run'.at = "stop" /\ run'.mode = "recover"
          \/ run.at \in Installing /\ run'.at = "remove"
          \/ run.at \notin Installing /\ run'.at = "idle"
      BY <1>0, <2>3, <3>1, RunExits
    <3>3. run.at \notin Installing => ~Away
      BY <2>3, <3>1 DEF Away, Inst!InstallPlaces
    <3>4. run.at \in Installing => Away
      BY DEF Away
    <3> QED
      BY <2>1, <2>2, <3>1, <3>2, <3>3, <3>4 DEF KeptAside, InPlace, Away
  <2>4. CASE Inst!StepFails
    <3>1. CASE Inst!InstallExit
               /\ run.at \in {"stage", "clear", "save", "drop", "units", "restart", "doctor", "setup"}
      BY <2>3, <3>1 DEF Inst!InstallPlaces
    <3>2. CASE Inst!End("failed") /\ run.at \in {"start", "restore", "examine"}
      <4>1. run'.at = "idle" /\ ~Away
        BY <1>0, <3>2, RunEnds DEF Inst!Outcomes, Away
      <4> QED
        BY <2>2, <4>1
    <3> QED
      BY <2>4, <3>1, <3>2 DEF Inst!StepFails, Inst!Fails
  <2>5. CASE Inst!Interrupt
    BY <1>3, <2>3, <2>5 DEF Inst!Interrupt, Inst!Disturb
  <2>6. CASE Inst!Kill
    <3>1. run'.at = "idle" /\ run.at \in {"stage", "clear", "save", "drop", "move"}
      BY <1>0, <1>3, <2>6, RunEnds DEF Inst!Kill, Inst!Disturb, Inst!Outcomes
    <3> QED
      BY <2>2, <3>1 DEF Away
  <2> QED
    BY <1>3, <2>4, <2>5, <2>6
<1> QED
  BY <1>1, <1>2, <1>3

\* What a run has proven stays so; and it proves what is installed, when its checks are
\* sound.
LEMMA RunHistory ==
  ASSUME RunTyping, InstallerInv, Inst!Next
  PROVE  /\ runs' \in {runs, runs + 1}
         /\ \/ /\ (Inst!FinishInstall \/ Inst!CleanUp) /\ checked = "sound"
               /\ proven' = proven \cup {current} /\ current' = current /\ current # None
               /\ run'.at = "idle"
            \/ /\ proven' = proven /\ (cut => cut') /\ ~Inst!FinishInstall
               /\ Inst!CleanUp => checked # "sound"
<1>0. run \in Inst!RunState /\ cut \in BOOLEAN
  BY RunTypesSplit DEF RunTyping, RunTypes
<1> USE DEF Inst!historyVars
<1>1. CASE Inst!FinishInstall
  <2>1. run.at = "setup" /\ runs' = runs /\ current' = current
    BY <1>1 DEF Inst!FinishInstall, Inst!treeVars
  <2>2. checked = "sound" /\ current = run.version /\ run.version \in Releases
    BY <2>1 DEF InstallerInv, InstallInv, Installing, RunTyping, Inst!InstallPlaces
  <2>3. proven' = proven \cup {current} /\ run'.at = "idle"
    BY <1>0, <1>1, <2>2, RunEnds DEF Inst!FinishInstall, Inst!Verified, Inst!Outcomes
  <2> QED
    BY <1>1, <2>1, <2>2, <2>3, Constants
<1>2. CASE Inst!CleanUp
  <2>1. run.at = "clean" /\ runs' = runs /\ current' = current /\ ~Inst!FinishInstall
    BY <1>2 DEF Inst!CleanUp, Inst!FinishInstall
  <2>2. current # None
    BY <2>1 DEF InstallerInv, SetInv, Restored
  <2>3. run'.at = "idle"
    BY <1>0, <1>2, RunEnds DEF Inst!CleanUp, Inst!Outcomes
  <2>4. CASE checked = "sound"
    <3>1. proven' = proven \cup {current}
      BY <1>2, <2>4 DEF Inst!CleanUp, Inst!Verified
    <3> QED
      BY <1>2, <2>1, <2>2, <2>3, <2>4, <3>1
  <2>5. CASE checked # "sound"
    <3>1. proven' = proven /\ cut' = (cut /\ checked # "sound")
      BY <1>2, <2>5 DEF Inst!CleanUp, Inst!Verified
    <3> QED
      BY <2>1, <2>5, <3>1
  <2> QED
    BY <2>4, <2>5
<1>3. CASE Inst!InstallStep \/ Inst!RollbackStep
  <2> SUFFICES ASSUME ~Inst!FinishInstall, ~Inst!CleanUp
               PROVE  runs' = runs /\ proven' = proven /\ cut' = cut
    BY <1>1, <1>2
  <2>1. CASE Inst!InstallStep
    BY <2>1
      DEF Inst!InstallStep, Inst!Stage, Inst!ClearUnitBackup, Inst!DropPrevious, Inst!MoveInstalled,
          Inst!PlaceStage, Inst!MarkActivated, Inst!RestartRuntime, Inst!Doctor,
          Inst!SaveUnit, Inst!InstallUnit
  <2>2. CASE Inst!RollbackStep
    BY <2>2
      DEF Inst!RollbackStep, Inst!StopServices, Inst!MoveAway, Inst!MoveBack,
          Inst!NothingToMoveBack, Inst!PassOverDoctor, Inst!RemoveInstalled, Inst!Withdrawn,
          Inst!RestoreUnit, Inst!PassOver
  <2> QED
    BY <1>3, <2>1, <2>2
<1>4. CASE \/ Inst!Rollback \/ \E v \in Releases : Inst!Install(v)
           \/ Inst!StepFails \/ Inst!Interrupt \/ Inst!Kill
  <2> SUFFICES ASSUME ~Inst!FinishInstall, ~Inst!CleanUp
               PROVE  runs' \in {runs, runs + 1} /\ proven' = proven /\ (cut => cut')
    BY <1>1, <1>2
  <2>1. CASE Inst!Rollback \/ \E v \in Releases : Inst!Install(v)
    BY <2>1 DEF Inst!Rollback, Inst!Install, Inst!Begin
  <2>2. CASE Inst!StepFails
    BY <2>2 DEF Inst!StepFails
  <2>3. CASE Inst!Interrupt \/ Inst!Kill
    <3>1. runs' = runs /\ proven' = proven /\ \E halfway : cut' = (cut \/ halfway)
      BY <2>3 DEF Inst!Interrupt, Inst!Kill, Inst!Disturb
    <3> QED
      BY <3>1
  <2> QED
    BY <1>4, <2>1, <2>2, <2>3
<1> QED
  BY <1>3, <1>4 DEF Inst!Next

\* What is sound stays so.
LEMMA StaysSound ==
  ASSUME accepted \subseteq accepted', proven \subseteq proven', NEW t, NEW s, SoundTree(t),
         Dep!IsTree(t, s)
  PROVE  /\ s # None
         /\ s.by \in accepted' \ {0} \/ \E p \in proven' : Dep!IsTree(s, p)
BY DEF SoundTree, Dep!IsTree

\* WitnessInv is kept by every step of install.sh.
LEMMA RunWitness ==
  ASSUME Typing, InstallerInv, WitnessInv, RunStep
  PROVE  WitnessInv'
<1>1. RunTyping /\ Inst!Next
  BY DEF RunStep, Typing, TypeOK, RunTyping
<1>2. /\ UNCHANGED <<previous, failed, accepted>> /\ local'.d = dep /\ was' = None
  BY DEF RunStep, Dep!NoReport, was, dep
<1>3. /\ runs \in Nat /\ current \in Inst!Trees
      /\ \A a \in aside : a[2] \in Nat /\ a[2] <= runs
  BY <1>1, Constants DEF RunTyping, Inst!TypeOK, WitnessInv
<1>4. \A a \in aside' : a[2] <= runs'
  <2>1. aside' \subseteq aside \cup {<<current, runs>>} /\ runs' \in {runs, runs + 1}
    BY <1>1, RunTrees, RunHistory
  <2>2. ASSUME NEW a \in aside' PROVE a[2] <= runs
    <3>1. a \in aside \/ a = <<current, runs>>
      BY <2>1, <2>2
    <3> QED
      BY <1>3, <3>1
  <2>3. ASSUME NEW a \in aside' PROVE a[2] \in Nat
    <3>1. a \in aside \/ a = <<current, runs>>
      BY <2>1, <2>3
    <3> QED
      BY <1>3, <3>1
  <2> QED
    BY <1>3, <2>1, <2>2, <2>3
<1>5. ASSUME ~cut', proven' # {}
      PROVE  \E t \in Dep!Tree : SoundTree(t)' /\ Lasting(t)'
  <2>1. CASE proven' = proven \cup {current} /\ current' = current /\ current # None /\ run'.at = "idle"
    <3>1. current \in Dep!Tree
      BY <1>3, <2>1, Constants DEF Dep!TreeOrNone
    <3>2. SoundTree(current)' /\ Lasting(current)'
      BY <1>2, <2>1 DEF SoundTree, Dep!IsTree, Lasting, InPlace, AsFound, Away, Installing
    <3>3. PICK t \in Dep!Tree : t = current
      BY <3>1
    <3>4. SoundTree(t)' /\ Lasting(t)'
      BY <2>1, <3>2, <3>3
        DEF SoundTree, Lasting, KeptAside, KeptByDeployment, InPlace, AsFound
    <3> QED
      BY <3>4
  <2>2. CASE /\ proven' = proven /\ (cut => cut') /\ ~Inst!FinishInstall
             /\ Inst!CleanUp => checked # "sound"
    <3>1. PICK t \in Dep!Tree : SoundTree(t) /\ Lasting(t)
      BY <1>5, <2>2 DEF WitnessInv
    <3>2. SoundTree(t)'
      BY <1>2, <2>2, <3>1 DEF SoundTree
    <3>3. ASSUME KeptByDeployment(t) PROVE Lasting(t)'
      BY <1>2, <3>3 DEF KeptByDeployment, Lasting, AsFound, dep
    <3>4. ASSUME KeptAside(t) \/ InPlace(t) PROVE Lasting(t)'
      <4>1. KeptAside(t)' \/ InPlace(t)'
        BY <1>1, <1>3, <1>5, <2>2, <3>4, StepsLeaveTree, MovesLeaveTree, EndsLeaveTree
          DEF Inst!Next, Inst!InstallStep, Inst!RollbackStep, Units
      <4> QED
        BY <1>2, <4>1 DEF Lasting, AsFound
    <3> QED
      BY <3>1, <3>2, <3>3, <3>4 DEF Lasting
  <2> QED
    BY <1>1, <2>1, <2>2, RunHistory
<1> QED
  BY <1>4, <1>5 DEF WitnessInv

\* WitnessInv is kept by every step of deploy-pi.sh.
LEMMA DeploymentWitness ==
  ASSUME Typing, SessionInv, DeployInv, NotYet, WitnessInv, DeploymentStep
  PROVE  WitnessInv'
<1>1. /\ Dep!Next /\ run.at = "idle" /\ run'.at = "idle"
      /\ UNCHANGED <<kept, aside, runs, proven, cut>>
      /\ accepted \subseteq accepted'
  BY AcceptedGrows DEF DeploymentStep, Inst!Idle
<1>2. ~Away /\ ~Away'
  BY <1>1 DEF Away, Installing
<1>3. \A a \in aside' : a[2] <= runs'
  BY <1>1 DEF WitnessInv
<1> SUFFICES ASSUME ~cut', proven' # {}
             PROVE  \E t \in Dep!Tree : SoundTree(t)' /\ Lasting(t)'
  BY <1>3 DEF WitnessInv
<1>4. PICK t \in Dep!Tree : SoundTree(t) /\ Lasting(t)
  BY <1>1 DEF WitnessInv
<1>5. t # None /\ SoundTree(t)'
  BY <1>1, <1>4, Constants DEF SoundTree
<1>6. /\ dep \in Nat
      /\ dep > 0 => dep \in Dep!Deploys
      /\ \A d \in Dep!Deploys : d \in Nat
      /\ previous \in [Dep!Deploys -> Dep!TreeOrNone]
      /\ current \in Dep!TreeOrNone /\ was \in Dep!TreeOrNone
  <2>1. dep \in 0 .. MaxDeploys /\ MaxDeploys \in Nat
    BY Constants DEF Typing, TypeOK, Dep!TypeOK, dep
  <2>2. dep \in Nat /\ (dep > 0 => dep \in Dep!Deploys) /\ \A d \in Dep!Deploys : d \in Nat
    BY <2>1 DEF Dep!Deploys
  <2> QED
    BY <2>2 DEF Typing, TypeOK, Dep!TypeOK, was
<1>7. CASE KeptAside(t)
  BY <1>1, <1>4, <1>5, <1>7 DEF KeptAside, Lasting
<1>8. CASE \E d \in Dep!Deploys \ {dep} : t = previous[d] \/ t = failed[d]
  <2>1. PICK d \in Dep!Deploys \ {dep} : t = previous[d] \/ t = failed[d]
    BY <1>8
  <2>2. d # dep + 1
    BY <1>5, <1>6, <2>1 DEF NotYet
  <2>3. local'.d \in {dep, dep + 1} /\ (t = previous'[d] \/ t = failed'[d])
    BY <1>1, <2>1, OwnTrees DEF dep
  <2>4. d # dep'
    BY <2>1, <2>2, <2>3 DEF dep
  <2>5. KeptByDeployment(t)'
    BY <2>1, <2>3, <2>4 DEF KeptByDeployment
  <2> QED
    BY <1>5, <2>5 DEF Lasting
<1>9. ASSUME NEW c \in Commits, Dep!Start(c),
             (dep > 0 /\ t = previous[dep] /\ AsFound(t)) \/ (t = current /\ AsFound(t))
      PROVE  Lasting(t)'
  <2>1. /\ UNCHANGED <<current, previous>> /\ local'.d = dep + 1 /\ was' = current
    BY <1>9 DEF Dep!Start, Dep!treeVars, Dep!dep, dep, was
  <2>2. CASE t = current
    BY <1>2, <1>5, <2>1, <2>2 DEF Lasting, InPlace, AsFound, Dep!IsTree
  <2>3. CASE dep > 0 /\ t = previous[dep]
    <3>1. dep \in Dep!Deploys /\ dep # dep'
      BY <1>6, <2>1, <2>3 DEF dep
    <3>2. KeptByDeployment(t)'
      BY <2>1, <2>3, <3>1 DEF KeptByDeployment
    <3> QED
      BY <3>2 DEF Lasting
  <2> QED
    BY <1>9, <2>2, <2>3
<1>10. ASSUME \A c \in Commits : ~Dep!Start(c)
       PROVE  local'.d = dep /\ UNCHANGED <<before, was>>
  <2>1. local'.d = dep
    BY <1>1, <1>10, OwnTrees DEF dep
  <2>2. UNCHANGED before
    <3>1. CASE Dep!KillLocal \/ \E c \in Commits : Dep!AlreadyDeployed(c)
      BY <3>1 DEF Dep!KillLocal, Dep!Lose, Dep!AlreadyDeployed, Dep!historyVars
    <3> QED
      BY <1>1, <1>10, <3>1, DeploymentMoves
  <2> QED
    BY <2>1, <2>2 DEF was
<1>11. ASSUME \A c \in Commits : ~Dep!Start(c), dep > 0, t = previous[dep], AsFound(t)
       PROVE  Lasting(t)'
  <2>1. AsFound(t)' /\ local'.d = dep
    BY <1>10, <1>11 DEF AsFound
  <2>2. previous'[dep] = t \/ current' = t
    BY <1>1, <1>5, <1>11, TreesMove
  <2> QED
    BY <1>2, <1>11, <2>1, <2>2 DEF Lasting, KeptByDeployment, InPlace, dep
<1>12. ASSUME \A c \in Commits : ~Dep!Start(c), t = current, AsFound(t)
       PROVE  \E s \in Dep!Tree : SoundTree(s)' /\ Lasting(s)'
  <2>0. local'.d = dep /\ was' = was
    BY <1>10, <1>12
  <2>1. CASE Dep!IsTree(current, current')
    <3>1. current' \in Dep!Tree
      <4>1. current' \in Dep!TreeOrNone
        BY <1>1, DeploymentTypes DEF DataTypes
      <4> QED
        BY <1>5, <1>12, <2>1, <4>1 DEF Dep!IsTree, Dep!TreeOrNone
    <3>2. PICK s \in Dep!Tree : s = current'
      BY <3>1
    <3>3. Dep!IsTree(t, s)
      BY <1>12, <2>1, <3>2
    <3>4. SoundTree(s)'
      BY <1>1, <1>4, <3>3, StaysSound DEF SoundTree
    <3>5. AsFound(s)'
      BY <1>5, <1>12, <2>0, <3>3 DEF AsFound, Dep!IsTree
    <3>6. Lasting(s)'
      BY <1>2, <3>2, <3>5 DEF Lasting, InPlace
    <3> QED
      BY <3>4, <3>6
  <2>2. CASE dep > 0 /\ previous'[dep] = current
    <3>1. AsFound(t)'
      BY <1>12, <2>0 DEF AsFound
    <3>2. KeptByDeployment(t)'
      BY <1>12, <2>0, <2>2, <3>1 DEF KeptByDeployment, dep
    <3> QED
      BY <1>5, <3>2 DEF Lasting
  <2>3. CASE dep > 0 /\ was # None /\ (previous'[dep] = was \/ current' = was)
    <3>1. PICK s \in Dep!Tree : s = was
      BY <1>6, <2>3 DEF Dep!TreeOrNone
    <3>2. Dep!IsTree(t, s)
      BY <1>12, <2>3, <3>1 DEF AsFound
    <3>3. SoundTree(s)'
      BY <1>1, <1>4, <3>2, StaysSound DEF SoundTree
    <3>4. AsFound(s)'
      BY <2>0, <2>3, <3>1 DEF AsFound, Dep!IsTree
    <3>5. Lasting(s)'
      BY <1>2, <2>0, <2>3, <3>1, <3>4 DEF Lasting, KeptByDeployment, InPlace, dep
    <3> QED
      BY <3>3, <3>5
  <2> QED
    BY <1>1, <1>5, <1>12, <2>1, <2>2, <2>3, TreesMove
<1> QED
  BY <1>2, <1>4, <1>5, <1>7, <1>8, <1>9, <1>11, <1>12 DEF Lasting, KeptByDeployment, InPlace

\* WitnessInv is kept by every step of either script.
LEMMA WitnessStep == Kernel /\ InstallerInv /\ WitnessInv /\ [Next]_vars => WitnessInv'
<1> SUFFICES ASSUME Kernel, InstallerInv, WitnessInv, [Next]_vars PROVE WitnessInv'
  OBVIOUS
<1>1. CASE UNCHANGED vars
  <2>1. UNCHANGED <<aside, runs, run, cut, proven, accepted, current, kept, previous, failed, local, before>>
    BY <1>1 DEF vars, runVars, deploymentVars
  <2>2. \A t : (SoundTree(t)' <=> SoundTree(t)) /\ (Lasting(t)' <=> Lasting(t))
    BY <2>1
      DEF SoundTree, Lasting, KeptAside, KeptByDeployment, InPlace, AsFound, Away, was, dep
  <2> QED
    BY <2>1, <2>2 DEF WitnessInv
<1> QED
  BY <1>1, RunWitness, DeploymentWitness DEF Next, Kernel

\* At first nothing has been proven.
LEMMA WitnessInit == Init => WitnessInv
BY DEF Init, Inst!Init, Inst!NoRunYet, WitnessInv

\* Once a run has verified a release, a tree that Doctor has passed stays on disk: whatever
\* fails in either script, however often, and in whatever order they are run, as long as no
\* run is cut short in the midst of a change.
THEOREM RuntimeIsKept == Spec => []RuntimeKept
<1>1. Kernel /\ WitnessInv => RuntimeKept
  <2> SUFFICES ASSUME Kernel, WitnessInv, ~cut, proven # {} PROVE Sound # {}
    BY DEF RuntimeKept
  <2>1. PICK t \in Dep!Tree : SoundTree(t) /\ Lasting(t)
    BY DEF WitnessInv
  <2>2. dep > 0 => dep \in Dep!Deploys
    <3>1. dep \in 0 .. MaxDeploys
      BY DEF Kernel, Typing, TypeOK, Dep!TypeOK, dep
    <3> QED
      BY <3>1, Constants DEF Dep!Deploys
  <2>3. t \in OnDisk
    <3>1. CASE KeptAside(t)
      BY <3>1 DEF KeptAside, OnDisk
    <3>2. CASE KeptByDeployment(t)
      BY <2>2, <3>2 DEF KeptByDeployment, OnDisk, Dep!OnDisk
    <3>3. CASE InPlace(t)
      BY <3>3 DEF InPlace, OnDisk
    <3> QED
      BY <2>1, <3>1, <3>2, <3>3 DEF Lasting
  <2> QED
    BY <2>1, <2>3 DEF SoundTree, Sound
<1>2. Kernel /\ InstallerInv /\ WitnessInv /\ [Next]_vars => WitnessInv'
  BY WitnessStep
<1>3. Spec => []WitnessInv
  BY <1>2, KernelHolds, InstallerHolds, WitnessInit, PTL DEF Spec
<1> QED
  BY <1>1, <1>3, KernelHolds, PTL
=============================================================================
