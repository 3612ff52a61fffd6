---------------------------- MODULE ResumableJob ----------------------------
(***************************************************************************)
(* One job id of scripts/run-resumable.sh.  Invocations of the script that *)
(* start, inspect and clean up the job, and the workers they launch, meet  *)
(* only in the job's directory and in the lock on its file `lock`; every   *)
(* command of the script reaches both by path, whatever has happened there *)
(* since its last one.                                                     *)
(*                                                                         *)
(* To see whether the lock is held the script takes it (`flock -n LOCK -c  *)
(* true`), so inspecting a job is visible to everybody else.  A worker's   *)
(* lock is a descriptor its command inherits: it lasts as long as one of   *)
(* its processes does.  Left out: the pid, log and meta files, which only  *)
(* change what status prints, and with them VERIFIED, a FINISHED whose log *)
(* has the expected marker.                                                *)
(***************************************************************************)
EXTENDS Naturals

CONSTANTS
  Starts,        \* invocations of `start`, all for the same job id
  Looks,         \* invocations of `status`
  Cleanups,      \* invocations of `cleanup`
  CleanUpAfter,  \* the answers after which operators clean up
  Nobody         \* owner of a directory that does not exist

Invocations == Starts \cup Looks \cup Cleanups
States == {"RUNNING", "FINISHED", "FAILED", "INTERRUPTED"}
Answers == States \cup {"denied", "refused", "cleaned", "error"}

ASSUME JobAssumption ==
  /\ Starts \cap (Looks \cup Cleanups) = {}
  /\ Looks \cap Cleanups = {}
  /\ CleanUpAfter \subseteq States
  /\ Nobody \notin Starts

Progress ==
  {"idle", "made", "ready", "waiting",            \* of start
   "test", "try", "holding", "free", "held",      \* lock_is_held
   "removing", "emptied",                         \* of cleanup
   "done"}
WorkerStates ==
  {"none", "spawned", "refused", "locked", "running", "orphan",
   "exited", "recorded", "ended", "killed"}
ExitCodes == {"none", "zero", "nonzero"}

VARIABLES
  job,     \* the directory at the job's path: who made it, and its files
           \* (lock: the inode, 0 if there is no such file)
  inodes,  \* lock files created so far
  pc,      \* pc[p]: how far an invocation is
  held,    \* held[p]: the inode its probe has locked
  worker,  \* worker[s]: the process start s has launched
  wlock,   \* wlock[s]: the inode that process has locked
  exit,    \* exit[s]: what its command exited with
  answer,  \* answer[p]: what the invocation printed
  told,    \* the last state operators were told of the directory now there
  about,   \* history: about[p], whose directory that answer was read from
  began    \* history: began[p], the workers that had gone for the lock when p was invoked

vars == <<job, inodes, pc, held, worker, wlock, exit, answer, told, about, began>>
workerVars == <<worker, wlock, exit>>
askVars == <<answer, told, about>>

Exists == job.owner # Nobody
Empty(owner) == [owner |-> owner, lock |-> 0, rc |-> "none", state |-> "none"]

Locked(i) == \/ \E p \in Invocations : held[p] = i
             \/ \E s \in Starts : wlock[s] = i

\* What opening the lock file for flock, which creates it, finds there.
Opened == IF job.lock = 0 THEN inodes + 1 ELSE job.lock
Open == /\ job' = [job EXCEPT !.lock = Opened]
        /\ inodes' = IF job.lock = 0 THEN inodes + 1 ELSE inodes

\* The worker or its command is alive, and has the lock.
Alive(s) == worker[s] \in {"locked", "running", "orphan", "exited", "recorded"}

Say(p, a) == /\ pc' = [pc EXCEPT ![p] = "done"]
             /\ answer' = [answer EXCEPT ![p] = a]

-----------------------------------------------------------------------------
Init ==
  /\ job = Empty(Nobody)
  /\ inodes = 0
  /\ pc = [p \in Invocations |-> "idle"]
  /\ held = [p \in Invocations |-> 0]
  /\ worker = [s \in Starts |-> "none"]
  /\ wlock = [s \in Starts |-> 0]
  /\ exit = [s \in Starts |-> "none"]
  /\ answer = [p \in Invocations |-> "none"]
  /\ told = "none"
  /\ about = [p \in Invocations |-> Nobody]
  /\ began = [p \in Invocations |-> {}]

\* The script finds the job's directory and goes on to look at its lock.
Inspect(p) ==
  /\ began' = [began EXCEPT ![p] = {s \in Starts : worker[s] \notin {"none", "spawned"}}]
  /\ IF Exists THEN pc' = [pc EXCEPT ![p] = "test"] /\ UNCHANGED answer
               ELSE Say(p, "error")

(* start *)

\* mkdir decides who starts the job; the others look at the lock to say why not.
Make(s) ==
  /\ pc[s] = "idle"
  /\ IF Exists
     THEN pc' = [pc EXCEPT ![s] = "test"] /\ UNCHANGED <<job, told>>
     ELSE /\ job' = Empty(s)
          /\ told' = "none"
          /\ pc' = [pc EXCEPT ![s] = "made"]
  /\ UNCHANGED <<inodes, held, workerVars, answer, about, began>>

\* The log, the lock, the metadata and the state STARTING.
Prepare(s) ==
  /\ pc[s] = "made"
  /\ IF Exists
     THEN /\ job' = [job EXCEPT !.lock = Opened, !.state = "STARTING"]
          /\ inodes' = IF job.lock = 0 THEN inodes + 1 ELSE inodes
          /\ pc' = [pc EXCEPT ![s] = "ready"]
          /\ UNCHANGED answer
     ELSE Say(s, "error") /\ UNCHANGED <<job, inodes>>
  /\ UNCHANGED <<held, workerVars, told, about, began>>

Launch(s) ==
  /\ pc[s] = "ready"
  /\ IF Exists
     THEN /\ worker' = [worker EXCEPT ![s] = "spawned"]
          /\ pc' = [pc EXCEPT ![s] = "waiting"]
          /\ UNCHANGED answer
     ELSE Say(s, "error") /\ UNCHANGED worker
  /\ UNCHANGED <<job, inodes, held, wlock, exit, told, about, began>>

\* The worker has reported, or has not within three seconds: start ends with
\* the same status as the command of that name.
Wait(s) ==
  /\ pc[s] = "waiting"
  /\ Inspect(s)
  /\ UNCHANGED <<job, inodes, held, workerVars, told, about>>

(* status and cleanup *)

Look(q) ==
  /\ pc[q] = "idle"
  /\ Inspect(q)
  /\ UNCHANGED <<job, inodes, held, workerVars, told, about>>

\* "After evidence is collected and the job is no longer running": one
\* operator at a time, who has just been told one of CleanUpAfter.
CleanUp(c) ==
  /\ pc[c] = "idle"
  /\ told \in CleanUpAfter
  /\ \A d \in Cleanups : pc[d] \in {"idle", "done"}
  /\ told' = "none"
  /\ Inspect(c)
  /\ UNCHANGED <<job, inodes, held, workerVars, about>>

(* lock_is_held *)

Test(p) ==
  /\ pc[p] = "test"
  /\ pc' = [pc EXCEPT ![p] = IF job.lock = 0 THEN "free" ELSE "try"]
  /\ UNCHANGED <<job, inodes, held, workerVars, askVars, began>>

\* Mutant: flock without -n.
TryAndWait(p) ==
  /\ pc[p] = "try"
  /\ IF ~Exists
     THEN pc' = [pc EXCEPT ![p] = "held"] /\ UNCHANGED <<job, inodes, held>>
     ELSE /\ ~Locked(Opened)
          /\ Open
          /\ held' = [held EXCEPT ![p] = Opened]
          /\ pc' = [pc EXCEPT ![p] = "holding"]
  /\ UNCHANGED <<workerVars, askVars, began>>

\* flock -n: any failure, also to open the file, counts as held.
Try(p) ==
  /\ pc[p] = "try"
  /\ IF ~Exists
     THEN pc' = [pc EXCEPT ![p] = "held"] /\ UNCHANGED <<job, inodes, held>>
     ELSE /\ Open
          /\ IF Locked(Opened)
             THEN pc' = [pc EXCEPT ![p] = "held"] /\ UNCHANGED held
             ELSE /\ held' = [held EXCEPT ![p] = Opened]
                  /\ pc' = [pc EXCEPT ![p] = "holding"]
  /\ UNCHANGED <<workerVars, askVars, began>>

Release(p) ==
  /\ pc[p] = "holding"
  /\ held' = [held EXCEPT ![p] = 0]
  /\ pc' = [pc EXCEPT ![p] = "free"]
  /\ UNCHANGED <<job, inodes, workerVars, askVars, began>>

\* The rest of cmd_status: the exit code, read after the lock.
State(p) ==
  CASE pc[p] = "held" -> "RUNNING"
    [] pc[p] = "free" /\ job.rc = "zero" -> "FINISHED"
    [] pc[p] = "free" /\ job.rc = "nonzero" -> "FAILED"
    [] OTHER -> "INTERRUPTED"

Report(p) ==
  /\ pc[p] \in {"free", "held"}
  /\ p \in Looks \/ (p \in Starts /\ worker[p] # "none")
  /\ Say(p, State(p))
  /\ told' = State(p)
  /\ about' = [about EXCEPT ![p] = job.owner]
  /\ UNCHANGED <<job, inodes, held, workerVars, began>>

\* "job is already running" or "job state already exists".
Deny(s) ==
  /\ pc[s] \in {"free", "held"}
  /\ worker[s] = "none"
  /\ Say(s, "denied")
  /\ UNCHANGED <<job, inodes, held, workerVars, told, about, began>>

\* Mutant: cleanup does not mind the lock.
DecideToRemove(c) ==
  /\ pc[c] \in {"free", "held"}
  /\ pc' = [pc EXCEPT ![c] = "removing"]
  /\ UNCHANGED <<job, inodes, held, workerVars, askVars, began>>

\* "refusing cleanup while job is running"
Decide(c) ==
  /\ \/ pc[c] = "held" /\ Say(c, "refused")
     \/ pc[c] = "free" /\ pc' = [pc EXCEPT ![c] = "removing"] /\ UNCHANGED answer
  /\ UNCHANGED <<job, inodes, held, workerVars, told, about, began>>

\* rm -rf, first the files, then the directory if nobody has put one there.
RemoveFiles(c) ==
  /\ pc[c] = "removing"
  /\ job' = Empty(job.owner)
  /\ pc' = [pc EXCEPT ![c] = "emptied"]
  /\ UNCHANGED <<inodes, held, workerVars, askVars, began>>

RemoveDirectory(c) ==
  /\ pc[c] = "emptied"
  /\ IF job = Empty(job.owner)
     THEN job' = Empty(Nobody) /\ Say(c, "cleaned")
     ELSE UNCHANGED job /\ Say(c, "error")
  /\ UNCHANGED <<inodes, held, workerVars, told, about, began>>

-----------------------------------------------------------------------------
(* The worker: `flock -n LOCK SELF __worker`, the shell it runs, and the   *)
(* job's command.                                                          *)

TakeLock(s) ==
  /\ worker[s] = "spawned"
  /\ IF Exists /\ ~Locked(Opened)
     THEN /\ wlock' = [wlock EXCEPT ![s] = Opened]
          /\ worker' = [worker EXCEPT ![s] = "locked"]
     ELSE worker' = [worker EXCEPT ![s] = "refused"] /\ UNCHANGED wlock
  /\ IF Exists THEN Open ELSE UNCHANGED <<job, inodes>>
  /\ UNCHANGED <<pc, held, exit, askVars, began>>

\* A write into the directory, which fails if there is none, and set -e.
WriteOrEnd(s, next, written) ==
  IF Exists
  THEN /\ job' = written
       /\ worker' = [worker EXCEPT ![s] = next]
       /\ wlock' = IF next = "ended" THEN [wlock EXCEPT ![s] = 0] ELSE wlock
  ELSE /\ worker' = [worker EXCEPT ![s] = "ended"]
       /\ wlock' = [wlock EXCEPT ![s] = 0]
       /\ UNCHANGED job

Begin(s) ==
  /\ worker[s] = "locked"
  /\ WriteOrEnd(s, "running", [job EXCEPT !.state = "RUNNING"])
  /\ UNCHANGED <<inodes, pc, held, exit, askVars, began>>

Exit(s) ==
  /\ worker[s] = "running"
  /\ worker' = [worker EXCEPT ![s] = "exited"]
  /\ \E code \in {"zero", "nonzero"} : exit' = [exit EXCEPT ![s] = code]
  /\ UNCHANGED <<job, inodes, pc, held, wlock, askVars, began>>

\* Mutant: the exit code read after `set -e`, which is always 0.
RecordZero(s) ==
  /\ worker[s] = "exited"
  /\ WriteOrEnd(s, "recorded", [job EXCEPT !.rc = "zero"])
  /\ UNCHANGED <<inodes, pc, held, exit, askVars, began>>

RecordExit(s) ==
  /\ worker[s] = "exited"
  /\ WriteOrEnd(s, "recorded", [job EXCEPT !.rc = exit[s]])
  /\ UNCHANGED <<inodes, pc, held, exit, askVars, began>>

\* Mutant: the exit code where the state belongs.
FinishWithCode(s) ==
  /\ worker[s] = "recorded"
  /\ WriteOrEnd(s, "ended", [job EXCEPT !.state = exit[s]])
  /\ UNCHANGED <<inodes, pc, held, exit, askVars, began>>

Finish(s) ==
  /\ worker[s] = "recorded"
  /\ WriteOrEnd(s, "ended",
       [job EXCEPT !.state = IF exit[s] = "zero" THEN "FINISHED" ELSE "FAILED"])
  /\ UNCHANGED <<inodes, pc, held, exit, askVars, began>>

\* Mutant: flock --close, so that the command does not inherit the lock.
LoseShellAndLock(s) ==
  /\ worker[s] = "running"
  /\ worker' = [worker EXCEPT ![s] = "orphan"]
  /\ wlock' = [wlock EXCEPT ![s] = 0]
  /\ UNCHANGED <<job, inodes, pc, held, exit, askVars, began>>

\* Android kills flock and the worker's shell, but not the command.
LoseShell(s) ==
  /\ worker[s] = "running"
  /\ worker' = [worker EXCEPT ![s] = "orphan"]
  /\ UNCHANGED <<job, inodes, pc, held, wlock, exit, askVars, began>>

\* The worker and its command die: killed, or the worker by set -e (a full
\* disk, a wake lock that is not granted), or the orphaned command has ended.
Die(s) ==
  /\ worker[s] = "spawned" \/ Alive(s)
  /\ worker' = [worker EXCEPT ![s] = "killed"]
  /\ wlock' = [wlock EXCEPT ![s] = 0]
  /\ UNCHANGED <<job, inodes, pc, held, exit, askVars, began>>

\* The device restarts: every process is gone, the files stay.
Reboot ==
  /\ pc' = [p \in Invocations |-> IF pc[p] = "idle" THEN "idle" ELSE "done"]
  /\ held' = [p \in Invocations |-> 0]
  /\ worker' = [s \in Starts |->
                  IF worker[s] = "spawned" \/ Alive(s) THEN "killed" ELSE worker[s]]
  /\ wlock' = [s \in Starts |-> 0]
  /\ UNCHANGED <<job, inodes, exit, askVars, began>>

-----------------------------------------------------------------------------
Start(s) == Make(s) \/ Prepare(s) \/ Launch(s) \/ Wait(s) \/ Deny(s)
Clean(c) == CleanUp(c) \/ Decide(c) \/ RemoveFiles(c) \/ RemoveDirectory(c)
Probe(p) == Test(p) \/ Try(p) \/ Release(p) \/ Report(p)
Worker(s) == \/ TakeLock(s) \/ Begin(s) \/ Exit(s) \/ RecordExit(s) \/ Finish(s)
             \/ LoseShell(s) \/ Die(s)

Next ==
  \/ \E s \in Starts : Start(s) \/ Worker(s)
  \/ \E q \in Looks : Look(q)
  \/ \E c \in Cleanups : Clean(c)
  \/ \E p \in Invocations : Probe(p)
  \/ Reboot

\* An invocation that has begun is one shell script, which runs on.  Nothing
\* is assumed of the job's command, which may run for ever.
Fairness == \A p \in Invocations : WF_vars(Probe(p))

Spec == Init /\ [][Next]_vars /\ Fairness

-----------------------------------------------------------------------------
TypeOK ==
  /\ job \in [owner : Starts \cup {Nobody}, lock : Nat, rc : ExitCodes,
              state : {"none", "STARTING", "RUNNING", "FINISHED", "FAILED"}]
  /\ inodes \in Nat
  /\ pc \in [Invocations -> Progress]
  /\ held \in [Invocations -> Nat]
  /\ worker \in [Starts -> WorkerStates]
  /\ wlock \in [Starts -> Nat]
  /\ exit \in [Starts -> ExitCodes]
  /\ answer \in [Invocations -> Answers \cup {"none"}]
  /\ told \in States \cup {"none"}
  /\ about \in [Invocations -> Starts \cup {Nobody}]
  /\ began \in [Invocations -> SUBSET Starts]

\* A live worker has the job's directory to itself: no second start, cleanup
\* or status leaves it writing its state and exit code into the directory of
\* another job of that id, or into none.  Cleaning up after FINISHED or FAILED
\* keeps it so.
WorkerKeepsItsDirectory == \A s \in Starts : Alive(s) => job.owner = s

\* FINISHED and FAILED are the exit code of the command of the job that is
\* asked about, although both job and lock are reached by path only.
AnswerIsTheExitCode ==
  \A p \in Invocations :
    /\ answer[p] = "FINISHED" => about[p] \in Starts /\ exit[about[p]] = "zero"
    /\ answer[p] = "FAILED" => about[p] \in Starts /\ exit[about[p]] = "nonzero"

\* operations.md: INTERRUPTED means that the lock is gone and no exit code was
\* recorded.  If the worker had gone for the lock before status was invoked,
\* it and its command are dead by then, and never record one.
InterruptedIsFinal ==
  \A p \in Invocations :
    answer[p] = "INTERRUPTED" =>
      \A s \in began[p] : ~Alive(s) /\ (job.owner = s => job.rc = "none")

\* Looking at a job never waits for it: status, start and cleanup that got as
\* far as the lock come to a decision, however long the command runs.
LookingNeverWaits ==
  \A p \in Invocations : pc[p] = "test" ~> pc[p] \notin {"test", "try", "holding"}

-----------------------------------------------------------------------------
\* run-resumable.sh refuses "cleanup while job is running": what is removed is
\* not the directory of a job whose worker has the lock.
CleanupRefusesRunningJob ==
  [][\A c \in Cleanups :
       pc[c] = "removing" /\ pc'[c] = "emptied" => \A s \in Starts : ~Alive(s)]_vars
=============================================================================
