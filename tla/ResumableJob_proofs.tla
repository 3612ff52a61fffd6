------------------------ MODULE ResumableJob_proofs ------------------------
(***************************************************************************)
(* Type correctness of a job and, for operators who clean up after         *)
(* FINISHED or FAILED only, its three safety properties, from one          *)
(* inductive invariant.                                                    *)
(***************************************************************************)
EXTENDS ResumableJob, TLAPS

\* The initial values have their types.
LEMMA InitTypeOK == Init => TypeOK
BY DEF Init, TypeOK, Empty, Progress, WorkerStates, ExitCodes

\* Every step of an invocation keeps the types.
LEMMA ProbeTypeOK ==
  ASSUME TypeOK, NEW p \in Invocations, Probe(p) PROVE TypeOK'
<1> USE DEF TypeOK, Progress, workerVars, askVars
<1>1. CASE Test(p)
  BY <1>1 DEF Test
<1>2. CASE Try(p)
  BY <1>2 DEF Try, Open, Opened
<1>3. CASE Release(p)
  BY <1>3 DEF Release
<1>4. CASE Report(p)
  <2>1. State(p) \in States
    BY DEF State, States
  <2>2. QED
    BY <1>4, <2>1 DEF Report, Say, Answers
<1>5. QED
  BY <1>1, <1>2, <1>3, <1>4 DEF Probe

\* So do the steps of start, status and cleanup of their own.
LEMMA InvocationTypeOK ==
  ASSUME TypeOK, NEW p \in Invocations,
         \/ p \in Starts /\ Start(p)
         \/ p \in Looks /\ Look(p)
         \/ p \in Cleanups /\ Clean(p)
  PROVE  TypeOK'
<1> USE DEF TypeOK, Progress, Answers, ExitCodes, Empty, workerVars, askVars
<1>1. CASE p \in Starts /\ Start(p)
  <2>1. CASE Make(p)
    BY <1>1, <2>1 DEF Make
  <2>2. CASE Prepare(p)
    <3>1. CASE Exists
      <4>1. Opened \in Nat
        BY DEF Opened
      <4>2. job' \in [owner : Starts \cup {Nobody}, lock : Nat, rc : ExitCodes,
                     state : {"none", "STARTING", "RUNNING", "FINISHED", "FAILED"}]
        BY <2>2, <3>1, <4>1 DEF Prepare
      <4>3. QED
        BY <1>1, <2>2, <3>1, <4>2 DEF Prepare
    <3>2. CASE ~Exists
      BY <1>1, <2>2, <3>2 DEF Prepare, Say
    <3>3. QED
      BY <3>1, <3>2
  <2>3. CASE Launch(p)
    BY <1>1, <2>3 DEF Launch, Say, WorkerStates
  <2>4. CASE Wait(p)
    BY <1>1, <2>4 DEF Wait, Inspect, Say
  <2>5. CASE Deny(p)
    BY <1>1, <2>5 DEF Deny, Say
  <2>6. QED
    BY <1>1, <2>1, <2>2, <2>3, <2>4, <2>5 DEF Start
<1>2. CASE p \in Looks /\ Look(p)
  BY <1>2 DEF Look, Inspect, Say
<1>3. CASE p \in Cleanups /\ Clean(p)
  <2>1. CASE CleanUp(p)
    BY <1>3, <2>1 DEF CleanUp, Inspect, Say
  <2>2. CASE Decide(p)
    BY <1>3, <2>2 DEF Decide, Say
  <2>3. CASE RemoveFiles(p)
    BY <1>3, <2>3 DEF RemoveFiles
  <2>4. CASE RemoveDirectory(p)
    BY <1>3, <2>4 DEF RemoveDirectory, Say
  <2>5. QED
    BY <1>3, <2>1, <2>2, <2>3, <2>4 DEF Clean
<1>4. QED
  BY <1>1, <1>2, <1>3

\* So do the steps of a worker.
LEMMA WorkerTypeOK ==
  ASSUME TypeOK, NEW s \in Starts, Worker(s) PROVE TypeOK'
<1> USE DEF TypeOK, WorkerStates, ExitCodes, askVars
<1>1. CASE TakeLock(s)
  BY <1>1 DEF TakeLock, Open, Opened
<1>2. CASE Begin(s)
  BY <1>2 DEF Begin, WriteOrEnd
<1>3. CASE Exit(s)
  BY <1>3 DEF Exit
<1>4. CASE RecordExit(s)
  BY <1>4 DEF RecordExit, WriteOrEnd
<1>5. CASE Finish(s)
  BY <1>5 DEF Finish, WriteOrEnd
<1>6. CASE LoseShell(s)
  BY <1>6 DEF LoseShell
<1>7. CASE Die(s)
  BY <1>7 DEF Die
<1>8. QED
  BY <1>1, <1>2, <1>3, <1>4, <1>5, <1>6, <1>7 DEF Worker

\* Every step keeps the types.
LEMMA StepTypeOK == TypeOK /\ [Next]_vars => TypeOK'
<1> SUFFICES ASSUME TypeOK, [Next]_vars PROVE TypeOK'
  OBVIOUS
<1>1. CASE Reboot
  BY <1>1 DEF Reboot, TypeOK, Progress, WorkerStates, askVars
<1>2. CASE UNCHANGED vars
  BY <1>2 DEF TypeOK, vars, workerVars, askVars
<1>3. QED
  BY <1>1, <1>2, ProbeTypeOK, InvocationTypeOK, WorkerTypeOK DEF Next, Invocations

\* Type correctness of a job, for any number of invocations of the script.
THEOREM JobTypeCorrect == Spec => []TypeOK
BY InitTypeOK, StepTypeOK, PTL DEF Spec

-----------------------------------------------------------------------------
\* A worker that has recorded its exit code, or will never record one.
Over(s) == worker[s] \in {"recorded", "ended", "killed"}

InFlight(c) == pc[c] \notin {"idle", "done"}

\* A start owns its directory from mkdir to the end of its worker, and the
\* worker's lock is on the file that is there.
StartsOwn ==
  \A s \in Starts :
    /\ pc[s] \in {"idle", "made", "ready"} => worker[s] = "none"
    /\ pc[s] \in {"made", "ready"} \/ worker[s] = "spawned" \/ Alive(s) => job.owner = s
    /\ Alive(s) => job.lock # 0 /\ wlock[s] = job.lock

\* The exit code is that of the directory's owner, and so is a final answer.
CodesAreTrue ==
  /\ job.rc # "none" =>
       job.owner \in Starts /\ Over(job.owner) /\ exit[job.owner] = job.rc
  /\ told \in {"FINISHED", "FAILED"} => job.owner = Nobody \/ Over(job.owner)
  /\ \A p \in Invocations :
       answer[p] \in {"FINISHED", "FAILED"} =>
         /\ about[p] \in Starts
         /\ Over(about[p])
         /\ exit[about[p]] = (IF answer[p] = "FINISHED" THEN "zero" ELSE "nonzero")

\* One cleanup at a time, of a job that is over; the one that goes on to
\* remove it has found that nobody has the lock.
CleanupsAreSafe ==
  /\ \A c \in Cleanups : InFlight(c) =>
       /\ job.owner \in Starts
       /\ Over(job.owner)
       /\ pc[c] \in {"holding", "free", "removing", "emptied"} => ~Alive(job.owner)
  /\ \A c, d \in Cleanups : InFlight(c) /\ InFlight(d) => c = d

\* Who finds the lock free finds the workers dead that had gone for it.
LooksAreTrue ==
  \A p \in Invocations :
    /\ pc[p] # "done" => answer[p] = "none"
    /\ \A s \in began[p] :
         /\ worker[s] \notin {"none", "spawned"}
         /\ pc[p] \in {"holding", "free"} \/ answer[p] = "INTERRUPTED" => ~Alive(s)
         /\ answer[p] = "INTERRUPTED" /\ job.owner = s => job.rc = "none"

JobInv == TypeOK /\ StartsOwn /\ CodesAreTrue /\ CleanupsAreSafe /\ LooksAreTrue

\* mkdir makes a directory only where there was none: no start is under way.
LEMMA MakeKeeps ==
  ASSUME JobInv, TypeOK', NEW s \in Starts, Make(s) PROVE JobInv'
<1> USE JobAssumption DEF JobInv, TypeOK, Invocations, Alive, Over, Exists, workerVars, askVars
<1>1. StartsOwn'
  BY DEF Make, Empty, StartsOwn, CodesAreTrue, CleanupsAreSafe, InFlight
<1>2. CodesAreTrue'
  BY DEF Make, Empty, StartsOwn, CodesAreTrue, CleanupsAreSafe, InFlight
<1>3. CleanupsAreSafe'
  BY DEF Make, Empty, StartsOwn, CodesAreTrue, CleanupsAreSafe, InFlight
<1>4. LooksAreTrue'
  BY DEF Make, Empty, StartsOwn, CodesAreTrue, CleanupsAreSafe, LooksAreTrue, InFlight
<1>5. QED
  BY <1>1, <1>2, <1>3, <1>4

\* The start whose directory it is writes its files; a lock that is there stays.
LEMMA PrepareKeeps ==
  ASSUME JobInv, TypeOK', NEW s \in Starts, Prepare(s) PROVE JobInv'
<1> USE JobAssumption DEF JobInv, TypeOK, Invocations, Alive, Over, Exists, workerVars, askVars
<1>0. /\ job.owner = job'.owner /\ job.rc = job'.rc
      /\ job.lock # 0 => job'.lock = job.lock
      /\ \/ pc' = [pc EXCEPT ![s] = "ready"] /\ UNCHANGED answer
         \/ Say(s, "error")
  <2>1. CASE Exists
    <3>1. job' = [job EXCEPT !.lock = Opened, !.state = "STARTING"]
      BY <2>1 DEF Prepare
    <3>2. job'.owner = job.owner /\ job'.rc = job.rc /\ job'.lock = Opened
      BY <3>1
    <3>3. QED
      BY <2>1, <3>2 DEF Prepare, Opened
  <2>2. CASE ~Exists
    BY <2>2 DEF Prepare
  <2>3. QED
    BY <2>1, <2>2
<1>1. StartsOwn'
  BY <1>0 DEF Prepare, Say, StartsOwn, CodesAreTrue, CleanupsAreSafe, InFlight
<1>2. CodesAreTrue'
  BY <1>0 DEF Prepare, Say, StartsOwn, CodesAreTrue, CleanupsAreSafe, InFlight
<1>3. CleanupsAreSafe'
  BY <1>0 DEF Prepare, Say, StartsOwn, CodesAreTrue, CleanupsAreSafe, InFlight
<1>4. LooksAreTrue'
  BY <1>0 DEF Prepare, Say, StartsOwn, CodesAreTrue, CleanupsAreSafe, LooksAreTrue, InFlight
<1>5. QED
  BY <1>1, <1>2, <1>3, <1>4

\* The worker is spawned into the directory of its start.
LEMMA LaunchKeeps ==
  ASSUME JobInv, TypeOK', NEW s \in Starts, Launch(s) PROVE JobInv'
<1> USE JobAssumption DEF JobInv, TypeOK, Invocations, Alive, Over, Exists, workerVars, askVars
<1>1. StartsOwn'
  BY DEF Launch, Say, StartsOwn, CodesAreTrue, CleanupsAreSafe, InFlight
<1>2. CodesAreTrue'
  BY DEF Launch, Say, StartsOwn, CodesAreTrue, CleanupsAreSafe, InFlight
<1>3. CleanupsAreSafe'
  BY DEF Launch, Say, StartsOwn, CodesAreTrue, CleanupsAreSafe, InFlight
<1>4. LooksAreTrue'
  BY DEF Launch, Say, StartsOwn, CodesAreTrue, CleanupsAreSafe, LooksAreTrue, InFlight
<1>5. QED
  BY <1>1, <1>2, <1>3, <1>4

\* What start has seen of the workers before its final status.
LEMMA WaitKeeps ==
  ASSUME JobInv, TypeOK', NEW s \in Starts, Wait(s) PROVE JobInv'
<1> USE JobAssumption DEF JobInv, TypeOK, Invocations, Alive, Over, Exists, workerVars, askVars
<1>1. StartsOwn'
  BY DEF Wait, Inspect, Say, StartsOwn, CodesAreTrue, CleanupsAreSafe, InFlight
<1>2. CodesAreTrue'
  BY DEF Wait, Inspect, Say, StartsOwn, CodesAreTrue, CleanupsAreSafe, InFlight
<1>3. CleanupsAreSafe'
  BY DEF Wait, Inspect, Say, StartsOwn, CodesAreTrue, CleanupsAreSafe, InFlight
<1>4. LooksAreTrue'
  BY DEF Wait, Inspect, Say, StartsOwn, CodesAreTrue, CleanupsAreSafe, LooksAreTrue, InFlight
<1>5. QED
  BY <1>1, <1>2, <1>3, <1>4

\* What status has seen of the workers when it is invoked.
LEMMA LookKeeps ==
  ASSUME JobInv, TypeOK', NEW q \in Looks, Look(q) PROVE JobInv'
<1> USE JobAssumption DEF JobInv, TypeOK, Invocations, Alive, Over, Exists, workerVars, askVars
<1>1. StartsOwn'
  BY DEF Look, Inspect, Say, StartsOwn, CodesAreTrue, CleanupsAreSafe, InFlight
<1>2. CodesAreTrue'
  BY DEF Look, Inspect, Say, StartsOwn, CodesAreTrue, CleanupsAreSafe, InFlight
<1>3. CleanupsAreSafe'
  BY DEF Look, Inspect, Say, StartsOwn, CodesAreTrue, CleanupsAreSafe, InFlight
<1>4. LooksAreTrue'
  BY DEF Look, Inspect, Say, StartsOwn, CodesAreTrue, CleanupsAreSafe, LooksAreTrue, InFlight
<1>5. QED
  BY <1>1, <1>2, <1>3, <1>4

\* A cleanup that follows a final answer is of a job that is over, and the only one.
LEMMA CleanUpKeeps ==
  ASSUME JobInv, TypeOK', CleanUpAfter \subseteq {"FINISHED", "FAILED"}, NEW c \in Cleanups, CleanUp(c) PROVE JobInv'
<1> USE JobAssumption DEF JobInv, TypeOK, Invocations, Alive, Over, Exists, workerVars, askVars
<1>1. StartsOwn'
  BY DEF CleanUp, Inspect, Say, StartsOwn, CodesAreTrue, CleanupsAreSafe, InFlight
<1>2. CodesAreTrue'
  BY DEF CleanUp, Inspect, Say, StartsOwn, CodesAreTrue, CleanupsAreSafe, InFlight
<1>3. CleanupsAreSafe'
  BY DEF CleanUp, Inspect, Say, StartsOwn, CodesAreTrue, CleanupsAreSafe, InFlight
<1>4. LooksAreTrue'
  BY DEF CleanUp, Inspect, Say, StartsOwn, CodesAreTrue, CleanupsAreSafe, LooksAreTrue, InFlight
<1>5. QED
  BY <1>1, <1>2, <1>3, <1>4

\* Without a lock file there is no live worker.
LEMMA TestKeeps ==
  ASSUME JobInv, TypeOK', NEW p \in Invocations, Test(p) PROVE JobInv'
<1> USE JobAssumption DEF JobInv, TypeOK, Invocations, Alive, Over, Exists, workerVars, askVars
<1>1. StartsOwn'
  BY DEF Test, StartsOwn, CodesAreTrue, CleanupsAreSafe, InFlight
<1>2. CodesAreTrue'
  BY DEF Test, StartsOwn, CodesAreTrue, CleanupsAreSafe, InFlight
<1>3. CleanupsAreSafe'
  BY DEF Test, StartsOwn, CodesAreTrue, CleanupsAreSafe, InFlight
<1>4. LooksAreTrue'
  BY DEF Test, StartsOwn, CodesAreTrue, CleanupsAreSafe, LooksAreTrue, InFlight
<1>5. QED
  BY <1>1, <1>2, <1>3, <1>4

\* Whoever gets the lock has it from no worker.
LEMMA TryKeeps ==
  ASSUME JobInv, TypeOK', NEW p \in Invocations, Try(p) PROVE JobInv'
<1> USE JobAssumption DEF JobInv, TypeOK, Invocations, Alive, Over, Exists, workerVars, askVars
<1>1. StartsOwn'
  BY DEF Try, Open, Opened, Locked, StartsOwn, CodesAreTrue, CleanupsAreSafe, InFlight
<1>2. CodesAreTrue'
  BY DEF Try, Open, Opened, Locked, StartsOwn, CodesAreTrue, CleanupsAreSafe, InFlight
<1>3. CleanupsAreSafe'
  BY DEF Try, Open, Opened, Locked, StartsOwn, CodesAreTrue, CleanupsAreSafe, InFlight
<1>4. LooksAreTrue'
  BY DEF Try, Open, Opened, Locked, StartsOwn, CodesAreTrue, CleanupsAreSafe, LooksAreTrue, InFlight
<1>5. QED
  BY <1>1, <1>2, <1>3, <1>4

\* The lock is given back; a job that is over stays so.
LEMMA ReleaseKeeps ==
  ASSUME JobInv, TypeOK', NEW p \in Invocations, Release(p) PROVE JobInv'
<1> USE JobAssumption DEF JobInv, TypeOK, Invocations, Alive, Over, Exists, workerVars, askVars
<1>1. StartsOwn'
  BY DEF Release, StartsOwn, CodesAreTrue, CleanupsAreSafe, InFlight
<1>2. CodesAreTrue'
  BY DEF Release, StartsOwn, CodesAreTrue, CleanupsAreSafe, InFlight
<1>3. CleanupsAreSafe'
  BY DEF Release, StartsOwn, CodesAreTrue, CleanupsAreSafe, InFlight
<1>4. LooksAreTrue'
  BY DEF Release, StartsOwn, CodesAreTrue, CleanupsAreSafe, LooksAreTrue, InFlight
<1>5. QED
  BY <1>1, <1>2, <1>3, <1>4

\* A final answer has the exit code of the directory's owner, and INTERRUPTED has none.
LEMMA ReportKeeps ==
  ASSUME JobInv, TypeOK', NEW p \in Invocations, Report(p) PROVE JobInv'
<1> USE JobAssumption DEF JobInv, TypeOK, Invocations, Alive, Over, Exists, workerVars, askVars
<1>1. StartsOwn'
  BY DEF Report, State, States, Say, StartsOwn, CodesAreTrue, CleanupsAreSafe, InFlight
<1>2. CodesAreTrue'
  BY DEF Report, State, States, Say, StartsOwn, CodesAreTrue, CleanupsAreSafe, InFlight
<1>3. CleanupsAreSafe'
  BY DEF Report, State, States, Say, StartsOwn, CodesAreTrue, CleanupsAreSafe, InFlight
<1>0. State(p) = "INTERRUPTED" => pc[p] = "free" /\ job.rc = "none"
  BY DEF State, Report, ExitCodes
<1>4. LooksAreTrue'
  BY <1>0 DEF Report, Say, StartsOwn, CodesAreTrue, CleanupsAreSafe, LooksAreTrue, InFlight
<1>5. QED
  BY <1>1, <1>2, <1>3, <1>4

\* A start that is denied changes nothing.
LEMMA DenyKeeps ==
  ASSUME JobInv, TypeOK', NEW s \in Starts, Deny(s) PROVE JobInv'
<1> USE JobAssumption DEF JobInv, TypeOK, Invocations, Alive, Over, Exists, workerVars, askVars
<1>1. StartsOwn'
  BY DEF Deny, Say, StartsOwn, CodesAreTrue, CleanupsAreSafe, InFlight
<1>2. CodesAreTrue'
  BY DEF Deny, Say, StartsOwn, CodesAreTrue, CleanupsAreSafe, InFlight
<1>3. CleanupsAreSafe'
  BY DEF Deny, Say, StartsOwn, CodesAreTrue, CleanupsAreSafe, InFlight
<1>4. LooksAreTrue'
  BY DEF Deny, Say, StartsOwn, CodesAreTrue, CleanupsAreSafe, LooksAreTrue, InFlight
<1>5. QED
  BY <1>1, <1>2, <1>3, <1>4

\* Only a cleanup that has found the lock free goes on to remove the job.
LEMMA DecideKeeps ==
  ASSUME JobInv, TypeOK', NEW c \in Cleanups, Decide(c) PROVE JobInv'
<1> USE JobAssumption DEF JobInv, TypeOK, Invocations, Alive, Over, Exists, workerVars, askVars
<1>1. StartsOwn'
  BY DEF Decide, Say, StartsOwn, CodesAreTrue, CleanupsAreSafe, InFlight
<1>2. CodesAreTrue'
  BY DEF Decide, Say, StartsOwn, CodesAreTrue, CleanupsAreSafe, InFlight
<1>3. CleanupsAreSafe'
  BY DEF Decide, Say, StartsOwn, CodesAreTrue, CleanupsAreSafe, InFlight
<1>4. LooksAreTrue'
  BY DEF Decide, Say, StartsOwn, CodesAreTrue, CleanupsAreSafe, LooksAreTrue, InFlight
<1>5. QED
  BY <1>1, <1>2, <1>3, <1>4

\* The lock file goes when nobody alive has it.
LEMMA RemoveFilesKeeps ==
  ASSUME JobInv, TypeOK', NEW c \in Cleanups, RemoveFiles(c) PROVE JobInv'
<1> USE JobAssumption DEF JobInv, TypeOK, Invocations, Alive, Over, Exists, workerVars, askVars
<1>1. StartsOwn'
  BY DEF RemoveFiles, Empty, StartsOwn, CodesAreTrue, CleanupsAreSafe, InFlight
<1>2. CodesAreTrue'
  BY DEF RemoveFiles, Empty, StartsOwn, CodesAreTrue, CleanupsAreSafe, InFlight
<1>3. CleanupsAreSafe'
  BY DEF RemoveFiles, Empty, StartsOwn, CodesAreTrue, CleanupsAreSafe, InFlight
<1>4. LooksAreTrue'
  BY DEF RemoveFiles, Empty, StartsOwn, CodesAreTrue, CleanupsAreSafe, LooksAreTrue, InFlight
<1>5. QED
  BY <1>1, <1>2, <1>3, <1>4

\* The directory goes when nobody alive owns it.
LEMMA RemoveDirectoryKeeps ==
  ASSUME JobInv, TypeOK', NEW c \in Cleanups, RemoveDirectory(c) PROVE JobInv'
<1> USE JobAssumption DEF JobInv, TypeOK, Invocations, Alive, Over, Exists, workerVars, askVars
<1>1. StartsOwn'
  BY DEF RemoveDirectory, Empty, Say, StartsOwn, CodesAreTrue, CleanupsAreSafe, InFlight
<1>2. CodesAreTrue'
  BY DEF RemoveDirectory, Empty, Say, StartsOwn, CodesAreTrue, CleanupsAreSafe, InFlight
<1>3. CleanupsAreSafe'
  BY DEF RemoveDirectory, Empty, Say, StartsOwn, CodesAreTrue, CleanupsAreSafe, InFlight
<1>4. LooksAreTrue'
  BY DEF RemoveDirectory, Empty, Say, StartsOwn, CodesAreTrue, CleanupsAreSafe, LooksAreTrue, InFlight
<1>5. QED
  BY <1>1, <1>2, <1>3, <1>4

\* A worker locks the file that is in its own directory.
LEMMA TakeLockKeeps ==
  ASSUME JobInv, TypeOK', NEW s \in Starts, TakeLock(s) PROVE JobInv'
<1> USE JobAssumption DEF JobInv, TypeOK, Invocations, Alive, Over, Exists, workerVars, askVars
<1>1. StartsOwn'
  BY DEF TakeLock, Open, Opened, Locked, StartsOwn, CodesAreTrue, CleanupsAreSafe, InFlight
<1>2. CodesAreTrue'
  BY DEF TakeLock, Open, Opened, Locked, StartsOwn, CodesAreTrue, CleanupsAreSafe, InFlight
<1>3. CleanupsAreSafe'
  BY DEF TakeLock, Open, Opened, Locked, StartsOwn, CodesAreTrue, CleanupsAreSafe, InFlight
<1>4. LooksAreTrue'
  BY DEF TakeLock, Open, Opened, Locked, StartsOwn, CodesAreTrue, CleanupsAreSafe, LooksAreTrue, InFlight
<1>5. QED
  BY <1>1, <1>2, <1>3, <1>4

\* The worker runs in its own directory.
LEMMA BeginKeeps ==
  ASSUME JobInv, TypeOK', NEW s \in Starts, Begin(s) PROVE JobInv'
<1> USE JobAssumption DEF JobInv, TypeOK, Invocations, Alive, Over, Exists, workerVars, askVars
<1>1. StartsOwn'
  BY DEF Begin, WriteOrEnd, StartsOwn, CodesAreTrue, CleanupsAreSafe, InFlight
<1>2. CodesAreTrue'
  BY DEF Begin, WriteOrEnd, StartsOwn, CodesAreTrue, CleanupsAreSafe, InFlight
<1>3. CleanupsAreSafe'
  BY DEF Begin, WriteOrEnd, StartsOwn, CodesAreTrue, CleanupsAreSafe, InFlight
<1>4. LooksAreTrue'
  BY DEF Begin, WriteOrEnd, StartsOwn, CodesAreTrue, CleanupsAreSafe, LooksAreTrue, InFlight
<1>5. QED
  BY <1>1, <1>2, <1>3, <1>4

\* Only a running command gets an exit code, and its job is not over.
LEMMA ExitKeeps ==
  ASSUME JobInv, TypeOK', NEW s \in Starts, Exit(s) PROVE JobInv'
<1> USE JobAssumption DEF JobInv, TypeOK, Invocations, Alive, Over, Exists, workerVars, askVars
<1>1. StartsOwn'
  BY DEF Exit, StartsOwn, CodesAreTrue, CleanupsAreSafe, InFlight
<1>2. CodesAreTrue'
  BY DEF Exit, StartsOwn, CodesAreTrue, CleanupsAreSafe, InFlight
<1>3. CleanupsAreSafe'
  BY DEF Exit, StartsOwn, CodesAreTrue, CleanupsAreSafe, InFlight
<1>4. LooksAreTrue'
  BY DEF Exit, StartsOwn, CodesAreTrue, CleanupsAreSafe, LooksAreTrue, InFlight
<1>5. QED
  BY <1>1, <1>2, <1>3, <1>4

\* The exit code goes into the worker's own directory.
LEMMA RecordExitKeeps ==
  ASSUME JobInv, TypeOK', NEW s \in Starts, RecordExit(s) PROVE JobInv'
<1> USE JobAssumption DEF JobInv, TypeOK, Invocations, Alive, Over, Exists, workerVars, askVars
<1>1. StartsOwn'
  BY DEF RecordExit, WriteOrEnd, StartsOwn, CodesAreTrue, CleanupsAreSafe, InFlight
<1>2. CodesAreTrue'
  BY DEF RecordExit, WriteOrEnd, StartsOwn, CodesAreTrue, CleanupsAreSafe, InFlight
<1>3. CleanupsAreSafe'
  BY DEF RecordExit, WriteOrEnd, StartsOwn, CodesAreTrue, CleanupsAreSafe, InFlight
<1>4. LooksAreTrue'
  BY DEF RecordExit, WriteOrEnd, StartsOwn, CodesAreTrue, CleanupsAreSafe, LooksAreTrue, InFlight
<1>5. QED
  BY <1>1, <1>2, <1>3, <1>4

\* A worker that ends leaves its exit code.
LEMMA FinishKeeps ==
  ASSUME JobInv, TypeOK', NEW s \in Starts, Finish(s) PROVE JobInv'
<1> USE JobAssumption DEF JobInv, TypeOK, Invocations, Alive, Over, Exists, workerVars, askVars
<1>1. StartsOwn'
  BY DEF Finish, WriteOrEnd, StartsOwn, CodesAreTrue, CleanupsAreSafe, InFlight
<1>2. CodesAreTrue'
  BY DEF Finish, WriteOrEnd, StartsOwn, CodesAreTrue, CleanupsAreSafe, InFlight
<1>3. CleanupsAreSafe'
  BY DEF Finish, WriteOrEnd, StartsOwn, CodesAreTrue, CleanupsAreSafe, InFlight
<1>4. LooksAreTrue'
  BY DEF Finish, WriteOrEnd, StartsOwn, CodesAreTrue, CleanupsAreSafe, LooksAreTrue, InFlight
<1>5. QED
  BY <1>1, <1>2, <1>3, <1>4

\* The command keeps the lock when its shell is gone.
LEMMA LoseShellKeeps ==
  ASSUME JobInv, TypeOK', NEW s \in Starts, LoseShell(s) PROVE JobInv'
<1> USE JobAssumption DEF JobInv, TypeOK, Invocations, Alive, Over, Exists, workerVars, askVars
<1>1. StartsOwn'
  BY DEF LoseShell, StartsOwn, CodesAreTrue, CleanupsAreSafe, InFlight
<1>2. CodesAreTrue'
  BY DEF LoseShell, StartsOwn, CodesAreTrue, CleanupsAreSafe, InFlight
<1>3. CleanupsAreSafe'
  BY DEF LoseShell, StartsOwn, CodesAreTrue, CleanupsAreSafe, InFlight
<1>4. LooksAreTrue'
  BY DEF LoseShell, StartsOwn, CodesAreTrue, CleanupsAreSafe, LooksAreTrue, InFlight
<1>5. QED
  BY <1>1, <1>2, <1>3, <1>4

\* A dead worker is over.
LEMMA DieKeeps ==
  ASSUME JobInv, TypeOK', NEW s \in Starts, Die(s) PROVE JobInv'
<1> USE JobAssumption DEF JobInv, TypeOK, Invocations, Alive, Over, Exists, workerVars, askVars
<1>1. StartsOwn'
  BY DEF Die, StartsOwn, CodesAreTrue, CleanupsAreSafe, InFlight
<1>2. CodesAreTrue'
  BY DEF Die, StartsOwn, CodesAreTrue, CleanupsAreSafe, InFlight
<1>3. CleanupsAreSafe'
  BY DEF Die, StartsOwn, CodesAreTrue, CleanupsAreSafe, InFlight
<1>4. LooksAreTrue'
  BY DEF Die, StartsOwn, CodesAreTrue, CleanupsAreSafe, LooksAreTrue, InFlight
<1>5. QED
  BY <1>1, <1>2, <1>3, <1>4

\* Nothing has happened at first.
LEMMA InitJobInv == Init => JobInv
<1> SUFFICES ASSUME Init PROVE JobInv
  OBVIOUS
<1>1. TypeOK
  BY InitTypeOK
<1>2. StartsOwn /\ CodesAreTrue
  BY JobAssumption DEF Init, StartsOwn, CodesAreTrue, Alive, Empty, Invocations
<1>3. CleanupsAreSafe /\ LooksAreTrue
  BY DEF Init, CleanupsAreSafe, LooksAreTrue, InFlight, Invocations
<1>4. QED
  BY <1>1, <1>2, <1>3 DEF JobInv

\* A restart kills everybody at once, and leaves the files.
LEMMA RebootKeeps ==
  ASSUME JobInv, TypeOK', Reboot PROVE JobInv'
<1> USE JobAssumption DEF JobInv, TypeOK, Invocations, Alive, Over, askVars
<1>1. StartsOwn'
  BY DEF Reboot, StartsOwn
<1>2. CodesAreTrue'
  BY DEF Reboot, CodesAreTrue
<1>3. CleanupsAreSafe'
  BY DEF Reboot, CleanupsAreSafe, InFlight
<1>4. LooksAreTrue'
  BY DEF Reboot, LooksAreTrue
<1>5. QED
  BY <1>1, <1>2, <1>3, <1>4

\* The invariant is inductive for operators who clean up after a final answer.
LEMMA StepJobInv ==
  ASSUME CleanUpAfter \subseteq {"FINISHED", "FAILED"}
  PROVE  JobInv /\ [Next]_vars => JobInv'
<1> SUFFICES ASSUME JobInv, [Next]_vars PROVE JobInv'
  OBVIOUS
<1>0. TypeOK'
  BY StepTypeOK DEF JobInv
<1>1. ASSUME NEW s \in Starts, Start(s) PROVE JobInv'
  BY <1>0, <1>1, MakeKeeps, PrepareKeeps, LaunchKeeps, WaitKeeps, DenyKeeps DEF Start
<1>2. ASSUME NEW s \in Starts, Worker(s) PROVE JobInv'
  BY <1>0, <1>2, TakeLockKeeps, BeginKeeps, ExitKeeps, RecordExitKeeps,
     FinishKeeps, LoseShellKeeps, DieKeeps DEF Worker
<1>3. ASSUME NEW q \in Looks, Look(q) PROVE JobInv'
  BY <1>0, <1>3, LookKeeps
<1>4. ASSUME NEW c \in Cleanups, Clean(c) PROVE JobInv'
  BY <1>0, <1>4, CleanUpKeeps, DecideKeeps, RemoveFilesKeeps, RemoveDirectoryKeeps DEF Clean
<1>5. ASSUME NEW p \in Invocations, Probe(p) PROVE JobInv'
  BY <1>0, <1>5, TestKeeps, TryKeeps, ReleaseKeeps, ReportKeeps DEF Probe
<1>6. CASE Reboot
  BY <1>0, <1>6, RebootKeeps
<1>7. CASE UNCHANGED vars
  BY <1>0, <1>7 DEF JobInv, StartsOwn, CodesAreTrue, CleanupsAreSafe, LooksAreTrue,
     Alive, Over, InFlight, vars, workerVars, askVars
<1>8. QED
  BY <1>1, <1>2, <1>3, <1>4, <1>5, <1>6, <1>7 DEF Next

-----------------------------------------------------------------------------
\* A live worker has the job's directory to itself, whoever starts, inspects
\* or cleans up the job and whatever is killed.
THEOREM DirectoryIsKept ==
  ASSUME CleanUpAfter \subseteq {"FINISHED", "FAILED"}
  PROVE  Spec => []WorkerKeepsItsDirectory
<1>1. JobInv => WorkerKeepsItsDirectory
  BY DEF JobInv, StartsOwn, WorkerKeepsItsDirectory
<1>2. QED
  BY <1>1, InitJobInv, StepJobInv, PTL DEF Spec

\* FINISHED and FAILED are the exit code of the job that was asked about.
THEOREM AnswersAreTrue ==
  ASSUME CleanUpAfter \subseteq {"FINISHED", "FAILED"}
  PROVE  Spec => []AnswerIsTheExitCode
<1>1. JobInv => AnswerIsTheExitCode
  BY DEF JobInv, CodesAreTrue, AnswerIsTheExitCode
<1>2. QED
  BY <1>1, InitJobInv, StepJobInv, PTL DEF Spec

\* A worker that had gone for its lock is dead once the job is INTERRUPTED.
THEOREM InterruptedStays ==
  ASSUME CleanUpAfter \subseteq {"FINISHED", "FAILED"}
  PROVE  Spec => []InterruptedIsFinal
<1>1. JobInv => InterruptedIsFinal
  BY DEF JobInv, LooksAreTrue, InterruptedIsFinal
<1>2. QED
  BY <1>1, InitJobInv, StepJobInv, PTL DEF Spec
=============================================================================
