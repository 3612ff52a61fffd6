---------------------- MODULE MutationPipeline_proofs ----------------------
(***************************************************************************)
(* The pipeline for any number of requests, paths and flips: its types,    *)
(* then its safety, then that it implements AuditedEffects.                *)
(***************************************************************************)
EXTENDS MutationPipeline, TLAPS

\* A token appended to a file's content leaves a file's content.
LEMMA AppendedContent ==
  ASSUME NEW d \in Seq(Token), NEW t \in Token
  PROVE  Append(d, t) \in Seq(Token) /\ <<t>> \in Seq(Token)
OBVIOUS

\* Every remote script leaves every path with an entry of the right type.
LEMMA EffectType ==
  ASSUME NEW c \in CallType, NEW f \in [Paths -> Entry], NEW t \in Token
  PROVE  AfterApply(c, f, t) \in [Paths -> Entry]
<1> c.path \in Paths /\ c.dest \in Paths
  BY DEF CallType
<1> Absent \in Entry /\ Dir \in Entry
  BY DEF Absent, Dir, Entry
<1> \A d \in Seq(Token) : File(d) \in Entry
  BY DEF File, Entry
<1> File(<<t>>) \in Entry /\ File(Append(f[c.path].data, t)) \in Entry
  BY AppendedContent DEF Entry
<1> QED
  BY DEF AfterApply

\* What a script may have come to: only its whole effect is "applied", and what
\* a write leaves of a cut input is "torn".
LEMMA OutcomeStates ==
  ASSUME NEW r, NEW k, NEW whole \in BOOLEAN, NEW state \in Outcomes(r, k, whole)
  PROVE  /\ state \in {"applied", "torn", "nonzero"}
         /\ state = "applied" => whole
         /\ state = "torn" => ~whole
         /\ call[r].tool = "write_file" /\ ~whole => state = "torn"
         /\ call[r].tool = "append_file" /\ state = "torn" => ~Attached(r, k)
BY DEF Outcomes

\* A step of an execution is its own business.
LEMMA HelperStep ==
  ASSUME TypeOK, NEW r \in Requests, NEW k \in Runs, Helper(r, k)
  PROVE  /\ \A q \in Requests, j \in Runs : q # r \/ j # k => run'[q][j] = run[q][j]
         /\ \A q \in Requests \ {r} : run'[q] = run[q]
<1>1. \E state : run' = [run EXCEPT ![r][k] = state]
  BY DEF Helper, HelperCheck, HelperApply, HelperFails
<1> QED
  BY <1>1 DEF TypeOK

\* What the audit helpers may do: the record only grows, by an event of the
\* request at hand that is not its ATTEMPT.
AuditStep(r) ==
  \/ UNCHANGED audit
  \/ \E kind \in EventKinds \ {"ATTEMPT"} : audit' = audit \cup {<<r, kind>>}

LEMMA Recording ==
  ASSUME NEW r, NEW kind \in EventKinds \ {"ATTEMPT"}, TryRecord(r, kind)
  PROVE  AuditStep(r)
BY DEF TryRecord, Record, AuditStep

LEMMA Denying ==
  ASSUME NEW r, Deny(r)
  PROVE  pc' = [pc EXCEPT ![r] = "denied"] /\ AuditStep(r)
<1> "REFUSAL" \in EventKinds \ {"ATTEMPT"}
  BY DEF EventKinds
<1> QED
  BY Recording DEF Deny, AuditStep

LEMMA Reporting ==
  ASSUME NEW r, NEW answer, Report(r, answer)
  PROVE  pc' = [pc EXCEPT ![r] = answer] /\ AuditStep(r)
<1> "RESULT" \in EventKinds \ {"ATTEMPT"}
  BY DEF EventKinds
<1> QED
  BY Recording DEF Report

LEMMA ReportingError ==
  ASSUME NEW r, ReportError(r)
  PROVE  pc' = [pc EXCEPT ![r] = "error"] /\ AuditStep(r)
<1> "REFUSAL" \in EventKinds \ {"ATTEMPT"}
  BY DEF EventKinds
<1> QED
  BY Recording DEF ReportError, AuditStep

LEMMA ReportingFailure ==
  ASSUME NEW r, ReportFailure(r)
  PROVE  /\ \E answer \in {"reported", "error"} : pc' = [pc EXCEPT ![r] = answer]
         /\ AuditStep(r)
BY Reporting, ReportingError DEF ReportFailure

\* An answer, of whatever kind, keeps the types of what it changes.
LEMMA ReplyType ==
  ASSUME TypeOK, NEW r \in Requests,
         \/ Deny(r)
         \/ \E answer \in {"ok", "reported"} : Report(r, answer)
         \/ ReportError(r)
         \/ ReportFailure(r)
  PROVE  /\ pc' \in [Requests -> Progress]
         /\ audit' \in SUBSET (Requests \X EventKinds)
<1>1. AuditStep(r)
  BY Denying, Reporting, ReportingError, ReportingFailure
<1>2. \E answer \in Terminal : pc' = [pc EXCEPT ![r] = answer]
  BY Denying, Reporting, ReportingError, ReportingFailure DEF Terminal
<1>3. audit' \in SUBSET (Requests \X EventKinds)
  BY <1>1 DEF AuditStep, TypeOK
<1>4. pc' \in [Requests -> Progress]
  BY <1>2 DEF TypeOK, Progress
<1> QED
  BY <1>3, <1>4

LEMMA EventType ==
  ASSUME TypeOK, NEW r \in Requests, NEW kind \in EventKinds,
         Record(r, kind) \/ TryRecord(r, kind)
  PROVE  audit' \in SUBSET (Requests \X EventKinds)
BY DEF Record, TryRecord, TypeOK

\* Every variable keeps its type.
THEOREM TypeCorrect == Spec => []TypeOK
<1> USE PipelineAssumption
<1>1. Init => TypeOK
  <2> {Absent, Dir, File(<<>>)} \subseteq Entry
    BY DEF Entry, Absent, Dir, File
  <2> QED
    BY DEF Init, TypeOK, Runs, Progress, RunStates
<1>2. TypeOK /\ [Next]_vars => TypeOK'
  <2> SUFFICES ASSUME TypeOK, [Next]_vars PROVE TypeOK'
    OBVIOUS
  <2> USE DEF TypeOK
  <2> USE DEF Progress, Terminal, Stages, Runs, RunStates
  <2>1. ASSUME NEW s \in Flippable, Flip(s) PROVE TypeOK'
    BY <2>1 DEF Flip
  <2>2. ASSUME NEW r \in Requests, Submit(r) PROVE TypeOK'
    <3>1. call[r].path \in Paths
      BY DEF CallType
    <3>2. fs[call[r].path].data \in Seq(Token)
      BY <3>1 DEF Entry
    <3> QED BY <2>2, <3>2 DEF Submit
  <2>3. ASSUME NEW r \in Requests, CheckSwitch(r) PROVE TypeOK'
    <3>1. CASE pos' = [pos EXCEPT ![r] = @ + 1] /\ UNCHANGED <<pc, audit>>
      <4>1. pos' \in [Requests -> Nat \ {0}]
        BY <3>1
      <4> QED BY <2>3, <3>1, <4>1 DEF CheckSwitch
    <3>2. CASE Deny(r) /\ UNCHANGED pos
      <4> HIDE DEF Progress
      <4> QED BY <2>3, <3>2, ReplyType DEF CheckSwitch
    <3> QED BY <2>3, <3>1, <3>2 DEF CheckSwitch
  <2>4. ASSUME NEW r \in Requests, NextStage(r) PROVE TypeOK'
    BY <2>4 DEF NextStage, After
  <2>5. ASSUME NEW r \in Requests, Probe(r) PROVE TypeOK'
    <3>1. CASE Deny(r)
      BY <2>5, <3>1, ReplyType DEF Probe
    <3>2. CASE ~Deny(r)
      <4>1. audit' \in SUBSET (Requests \X EventKinds)
        BY <2>5, <3>2, EventType DEF Probe, EventKinds
      <4> QED BY <2>5, <3>2, <4>1 DEF Probe
    <3> QED BY <3>1, <3>2
  <2>6. ASSUME NEW r \in Requests, RecordAttempt(r) PROVE TypeOK'
    <3>1. CASE Deny(r)
      BY <2>6, <3>1, ReplyType DEF RecordAttempt
    <3>2. CASE ~Deny(r)
      <4>1. audit' \in SUBSET (Requests \X EventKinds)
        BY <2>6, <3>2, EventType DEF RecordAttempt, EventKinds
      <4> QED BY <2>6, <3>2, <4>1 DEF RecordAttempt
    <3> QED BY <3>1, <3>2
  <2>7. ASSUME NEW r \in Requests, Connect(r) PROVE TypeOK'
    BY <2>7 DEF Connect
  <2>8. ASSUME NEW r \in Requests, ConnectFails(r) PROVE TypeOK'
    <3>1. pc' \in [Requests -> Progress] /\ audit' \in SUBSET (Requests \X EventKinds)
      BY <2>8, ReplyType DEF ConnectFails
    <3>2. tries' \in [Requests -> 0 .. MaxRuns]
      BY <2>8 DEF ConnectFails
    <3>3. run' \in [Requests -> [Runs -> RunStates]]
      BY <2>8 DEF ConnectFails
    <3>4. UNCHANGED <<on, call, pos, seen, base, fs>>
      BY <2>8 DEF ConnectFails
    <3> HIDE DEF Progress, RunStates, Runs
    <3> QED BY <3>1, <3>2, <3>3, <3>4
  <2>9. ASSUME NEW r \in Requests, Answer(r) PROVE TypeOK'
    <3>1. pc' \in [Requests -> Progress] /\ audit' \in SUBSET (Requests \X EventKinds)
      BY <2>9, ReplyType DEF Answer
    <3> QED BY <2>9, <3>1 DEF Answer
  <2>10. ASSUME NEW r \in Requests, Misread(r) PROVE TypeOK'
    BY <2>10 DEF Misread
  <2>11. ASSUME NEW r \in Requests, TimeOut(r) PROVE TypeOK'
    BY <2>11 DEF TimeOut
  <2>12. ASSUME NEW r \in Requests, Disconnect(r) PROVE TypeOK'
    BY <2>12, ReplyType DEF Disconnect
  <2>13. ASSUME NEW r \in Requests, Retry(r) PROVE TypeOK'
    BY <2>13 DEF Retry
  <2>14. ASSUME NEW r \in Requests, NoRetry(r) PROVE TypeOK'
    <3>1. pc' \in [Requests -> Progress] /\ audit' \in SUBSET (Requests \X EventKinds)
      BY <2>14, ReplyType DEF NoRetry
    <3> QED BY <2>14, <3>1 DEF NoRetry
  <2>15. ASSUME NEW r \in Requests, BridgeKilled(r) PROVE TypeOK'
    BY <2>15 DEF BridgeKilled
  <2>16. ASSUME NEW r \in Requests, NEW k \in Runs, HelperCheck(r, k) PROVE TypeOK'
    BY <2>16 DEF HelperCheck
  <2>17. ASSUME NEW r \in Requests, NEW k \in Runs, HelperApply(r, k) PROVE TypeOK'
    <3>1. fs' \in [Paths -> Entry]
      <4>1. PICK whole \in BOOLEAN :
               fs' = AfterApply(call[r], fs, [by |-> r, whole |-> whole])
        BY <2>17 DEF HelperApply
      <4>2. [by |-> r, whole |-> whole] \in Token /\ call[r] \in CallType
        BY DEF Token
      <4> QED BY <4>1, <4>2, EffectType
    <3>2. run' \in [Requests -> [Runs -> RunStates]]
      BY <2>17, OutcomeStates DEF HelperApply
    <3> QED BY <2>17, <3>1, <3>2 DEF HelperApply
  <2>18. ASSUME NEW r \in Requests, NEW k \in Runs, HelperFails(r, k) PROVE TypeOK'
    BY <2>18 DEF HelperFails
  <2>19. CASE UNCHANGED vars
    BY <2>19 DEF vars
  <2> QED
    BY <2>1, <2>2, <2>3, <2>4, <2>5, <2>6, <2>7, <2>8, <2>9, <2>10, <2>11, <2>12,
       <2>13, <2>14, <2>15, <2>16, <2>17, <2>18, <2>19 DEF Next, Gateway, Helper
<1> QED
  BY <1>1, <1>2, PTL DEF Spec

-----------------------------------------------------------------------------
(***************************************************************************)
(* The safety of the pipeline: the audit comes first, the retry is one,    *)
(* and a switch that stays off stops every request.                        *)
(***************************************************************************)

\* Where a request is before its attempt, and where it has made it.
Before == {"idle", "probe", "attempt", "denied", "previewed"} \cup Stages
Beyond == {"dispatch", "waiting", "timed_out", "net_failed", "ok", "reported", "error"}

(***************************************************************************)
(* The inductive invariant of the audit and of the retry.  The last        *)
(* conjunct is needed because a helper goes on after its bridge process    *)
(* was killed, when pc tells nothing more.                                 *)
(***************************************************************************)
Unattempted == \A r \in Requests : pc[r] \in Before => ~Attempted(r) /\ tries[r] = 0
Underway == \A r \in Requests : pc[r] \in Beyond => Attempted(r)
TriesBound ==
  \A r \in Requests : tries[r] <= 2 /\ (pc[r] = "dispatch" => tries[r] <= 1)
Started ==
  \A r \in Requests : pc[r] \in {"waiting", "timed_out", "net_failed"} => tries[r] # 0
RunsStarted ==
  \A r \in Requests, k \in Runs : run[r][k] # "none" => k <= tries[r] /\ Attempted(r)

AuditInv == Unattempted /\ Underway /\ TriesBound /\ Started /\ RunsStarted

(***************************************************************************)
(* The inductive invariant of the switches: what is on now was seen by     *)
(* every active request, and so was every check a request has passed, but  *)
(* for the one that an exception can excuse before the tool asks again.    *)
(***************************************************************************)
ChecksOf(r, stage) ==
  {Checks(call[r], stage)[i] : i \in 1 .. Len(Checks(call[r], stage))}

\* The check that authorize_client may pass over without having made it.
Excused(stage) == IF stage \in {"bridge", "core"} THEN {"project_write"} ELSE {}

Fresh == \A r \in Requests : pc[r] = "idle" => pos[r] = 1
NowSeen == \A r \in Requests, s \in Switches : Active(r) /\ on[s] => s \in seen[r]
StagePassed ==
  \A r \in Requests : pc[r] \in Stages =>
    \A i \in 1 .. Len(Checks(call[r], pc[r])) :
      i < pos[r] => Checks(call[r], pc[r])[i] \in seen[r] \cup Excused(pc[r])
StagesPassed ==
  \A r \in Requests :
    /\ pc[r] \in {"kill", "core", "tool"} =>
         ChecksOf(r, "bridge") \subseteq seen[r] \cup Excused("bridge")
    /\ pc[r] \in {"core", "tool"} => "gateway" \in seen[r]
AllPassed ==
  \A r \in Requests :
    pc[r] \in {"probe", "attempt"} \cup Beyond => Needed(call[r]) \subseteq seen[r]

SwitchInv ==
  Fresh /\ NowSeen /\ StagePassed /\ StagesPassed /\ AllPassed /\ PermittedSinceSubmission

-----------------------------------------------------------------------------
\* Only RecordAttempt writes an ATTEMPT.
LEMMA AttemptsKept ==
  ASSUME NEW r, AuditStep(r) \/ UNCHANGED audit
  PROVE  \A q \in Requests : Attempted(q)' <=> Attempted(q)
BY DEF AuditStep, Attempted

\* The steps that change neither the tries nor the executions.
Local(r) ==
  \/ CheckSwitch(r) \/ NextStage(r) \/ Probe(r) \/ Answer(r) \/ Misread(r)
  \/ TimeOut(r) \/ Disconnect(r) \/ Retry(r) \/ NoRetry(r)

\* They leave a request on its side of the attempt.
Moves(r, place) ==
  /\ pc' = [pc EXCEPT ![r] = place]
  /\ pc[r] \in Before => place \in Before
  /\ pc[r] \notin Before => pc[r] \in Beyond /\ place \in Beyond
  /\ place = "dispatch" => tries[r] = 1
  /\ place \in {"waiting", "timed_out", "net_failed"} => pc[r] = "waiting"

\* What such a step does to the place of its request.
LEMMA LocalStep ==
  ASSUME TypeOK, NEW r \in Requests, Local(r)
  PROVE  /\ UNCHANGED <<tries, run>>
         /\ AuditStep(r)
         /\ \E place \in Progress : Moves(r, place)
<1> USE DEF Before, Beyond, Stages, Moves
<1>1. CASE CheckSwitch(r)
  <2>1. CASE pos' = [pos EXCEPT ![r] = @ + 1] /\ UNCHANGED <<pc, audit>>
    <3>1. pc' = [pc EXCEPT ![r] = pc[r]] /\ pc[r] \in Progress
      BY <2>1 DEF TypeOK
    <3> QED BY <1>1, <2>1, <3>1 DEF CheckSwitch, AuditStep
  <2>2. CASE Deny(r)
    BY <1>1, <2>2, Denying DEF CheckSwitch, Progress, Terminal
  <2> QED BY <1>1, <2>1, <2>2 DEF CheckSwitch
<1>2. CASE NextStage(r)
  <2>1. Moves(r, After(pc[r])) /\ After(pc[r]) \in Progress
    BY <1>2 DEF NextStage, After, Progress
  <2> QED BY <1>2, <2>1 DEF NextStage, AuditStep
<1>3. CASE Probe(r)
  <2>1. CASE Deny(r)
    BY <1>3, <2>1, Denying DEF Probe, Progress, Terminal
  <2>2. CASE pc' = [pc EXCEPT ![r] = "previewed"] /\ TryRecord(r, "DRY_RUN")
    <3>1. AuditStep(r)
      BY <2>2, Recording DEF EventKinds
    <3> QED BY <1>3, <2>2, <3>1 DEF Probe, Progress, Terminal
  <2>3. CASE pc' = [pc EXCEPT ![r] = "attempt"] /\ UNCHANGED audit
    <3>1. Moves(r, "attempt") /\ "attempt" \in Progress
      BY <1>3, <2>3 DEF Probe, Progress
    <3> QED BY <1>3, <2>3, <3>1 DEF Probe, AuditStep
  <2> QED BY <1>3, <2>1, <2>2, <2>3 DEF Probe
<1>4. CASE Answer(r)
  <2>1. \E answer \in {"ok", "reported", "error"} :
          pc' = [pc EXCEPT ![r] = answer] /\ AuditStep(r)
    BY <1>4, Reporting, ReportingFailure DEF Answer
  <2> QED BY <1>4, <2>1 DEF Answer, Progress, Terminal
<1>5. CASE Misread(r)
  <2>1. Moves(r, "net_failed") /\ "net_failed" \in Progress
    BY <1>5 DEF Misread, Progress
  <2> QED BY <1>5, <2>1 DEF Misread, AuditStep
<1>6. CASE TimeOut(r)
  <2>1. Moves(r, "timed_out") /\ "timed_out" \in Progress
    BY <1>6 DEF TimeOut, Progress
  <2> QED BY <1>6, <2>1 DEF TimeOut, AuditStep
<1>7. CASE Disconnect(r)
  <2>1. \E place \in {"net_failed", "reported", "error"} :
          pc' = [pc EXCEPT ![r] = place] /\ AuditStep(r)
    BY <1>7, ReportingFailure DEF Disconnect, AuditStep
  <2> QED BY <1>7, <2>1 DEF Disconnect, Progress, Terminal
<1>8. CASE Retry(r)
  <2>1. Moves(r, "dispatch") /\ "dispatch" \in Progress
    BY <1>8 DEF Retry, Progress
  <2> QED BY <1>8, <2>1 DEF Retry, AuditStep
<1>9. CASE NoRetry(r)
  <2>1. \E answer \in {"reported", "error"} :
          pc' = [pc EXCEPT ![r] = answer] /\ AuditStep(r)
    BY <1>9, Reporting, ReportingError, ReportingFailure DEF NoRetry
  <2> QED BY <1>9, <2>1 DEF NoRetry, Progress, Terminal
<1> QED
  BY <1>1, <1>2, <1>3, <1>4, <1>5, <1>6, <1>7, <1>8, <1>9 DEF Local
\* Starting an execution moves on to an answer, or to waiting for one.
LEMMA ConnectStep ==
  ASSUME NEW r, Connect(r) \/ ConnectFails(r)
  PROVE  /\ pc[r] = "dispatch" /\ AuditStep(r)
         /\ \E place \in {"waiting", "net_failed", "reported", "error"} :
              pc' = [pc EXCEPT ![r] = place]
<1>1. CASE Connect(r)
  BY <1>1 DEF Connect, AuditStep
<1>2. CASE ConnectFails(r)
  <2>1. CASE pc' = [pc EXCEPT ![r] = "net_failed"] /\ UNCHANGED audit
    BY <1>2, <2>1 DEF ConnectFails, AuditStep
  <2>2. CASE ReportFailure(r) \/ ReportError(r)
    BY <1>2, <2>2, ReportingFailure, ReportingError DEF ConnectFails
  <2> QED BY <1>2, <2>1, <2>2 DEF ConnectFails
<1> QED
  BY <1>1, <1>2

-----------------------------------------------------------------------------
LEMMA AuditInvInit == Init => AuditInv
BY DEF Init, AuditInv, Unattempted, Underway, TriesBound, Started, RunsStarted, Attempted,
       Before, Beyond, Stages, Runs

LEMMA AuditInvStep == TypeOK /\ AuditInv /\ [Next]_vars => AuditInv'
<1> SUFFICES ASSUME TypeOK, AuditInv, [Next]_vars PROVE AuditInv'
  OBVIOUS
<1> USE PipelineAssumption
<1> USE DEF AuditInv, Unattempted, Underway, TriesBound, Started, RunsStarted
<1>1. ASSUME NEW r \in Requests, Local(r) PROVE AuditInv'
  <2>1. \A q \in Requests : Attempted(q)' <=> Attempted(q)
    BY <1>1, LocalStep, AttemptsKept
  <2>2. PICK place \in Progress : Moves(r, place)
    BY <1>1, LocalStep
  <2>3. pc' = [pc EXCEPT ![r] = place] /\ Before \cap Beyond = {}
    BY <2>2 DEF Moves, Before, Beyond, Stages
  <2>4. UNCHANGED <<tries, run>>
    BY <1>1, LocalStep
  <2>5. Unattempted' /\ Underway'
    BY <2>1, <2>2, <2>3, <2>4 DEF Moves, TypeOK
  <2>6. TriesBound' /\ Started'
    BY <2>2, <2>3, <2>4 DEF Moves, TypeOK
  <2>7. RunsStarted'
    BY <2>1, <2>4
  <2> QED BY <2>5, <2>6, <2>7
<1>2. ASSUME NEW r \in Requests, RecordAttempt(r) PROVE AuditInv'
  <2>1. CASE Record(r, "ATTEMPT") /\ pc' = [pc EXCEPT ![r] = "dispatch"]
    <3>1. \A q \in Requests : Attempted(q)' <=> Attempted(q) \/ q = r
      BY <2>1 DEF Record, Attempted
    <3>2. UNCHANGED <<tries, run>> /\ pc[r] = "attempt"
      BY <1>2 DEF RecordAttempt
    <3> QED BY <2>1, <3>1, <3>2 DEF TypeOK, Before, Beyond, Stages
  <2>2. CASE Deny(r)
    <3>1. \A q \in Requests : Attempted(q)' <=> Attempted(q)
      BY <2>2, Denying, AttemptsKept
    <3>2. pc' = [pc EXCEPT ![r] = "denied"] /\ pc[r] = "attempt"
      BY <1>2, <2>2, Denying DEF RecordAttempt
    <3>3. UNCHANGED <<tries, run>>
      BY <1>2 DEF RecordAttempt
    <3> QED BY <3>1, <3>2, <3>3 DEF TypeOK, Before, Beyond, Stages
  <2> QED BY <1>2, <2>1, <2>2 DEF RecordAttempt
<1>3. ASSUME NEW r \in Requests, Connect(r) \/ ConnectFails(r) PROVE AuditInv'
  <2>1. /\ pc[r] = "dispatch" /\ AuditStep(r)
        /\ \E place \in {"waiting", "net_failed", "reported", "error"} :
             pc' = [pc EXCEPT ![r] = place]
    BY <1>3, ConnectStep
  <2>2. \A q \in Requests : Attempted(q)' <=> Attempted(q)
    BY <2>1, AttemptsKept
  <2>3. tries' = [tries EXCEPT ![r] = @ + 1]
    BY <1>3 DEF Connect, ConnectFails
  <2>4. \A q \in Requests, k \in Runs :
          q # r \/ k # tries[r] + 1 => run'[q][k] = run[q][k]
    BY <1>3 DEF Connect, ConnectFails, TypeOK
  <2>5. Unattempted' /\ Underway' /\ TriesBound' /\ Started'
    BY <2>1, <2>2, <2>3 DEF TypeOK, Before, Beyond, Stages
  <2>6. RunsStarted'
    <3>1. Attempted(r)
      BY <2>1 DEF Beyond
    <3>2. \A q \in Requests : tries[q] \in Nat /\ tries'[q] = IF q = r THEN tries[q] + 1 ELSE tries[q]
      BY <2>3 DEF TypeOK
    <3> QED BY <2>2, <2>4, <3>1, <3>2 DEF Runs
  <2> QED BY <2>5, <2>6
<1>4. ASSUME NEW r \in Requests, NEW k \in Runs, Helper(r, k) PROVE AuditInv'
  <2>1. UNCHANGED <<pc, audit, tries>> /\ run[r][k] # "none"
    BY <1>4 DEF Helper, HelperCheck, HelperApply, Poised, HelperFails
  <2>2. \A q \in Requests, j \in Runs : q # r \/ j # k => run'[q][j] = run[q][j]
    BY <1>4, HelperStep
  <2> QED BY <2>1, <2>2 DEF Attempted
<1>5. ASSUME NEW s \in Flippable, Flip(s) PROVE AuditInv'
  BY <1>5 DEF Flip, Attempted
<1>6. ASSUME NEW r \in Requests, Submit(r) PROVE AuditInv'
  BY <1>6 DEF Submit, Attempted, TypeOK, Before, Beyond, Stages
<1>7. ASSUME NEW r \in Requests, BridgeKilled(r) PROVE AuditInv'
  BY <1>7 DEF BridgeKilled, Attempted, TypeOK, Before, Beyond, Stages
<1>8. CASE UNCHANGED vars
  BY <1>8 DEF vars, Attempted
<1> QED
  BY <1>1, <1>2, <1>3, <1>4, <1>5, <1>6, <1>7, <1>8 DEF Next, Gateway, Local

\* The audit sink comes first: no execution of a tool that changes the Target,
\* first or repeated, attached or abandoned, without its ATTEMPT on record.
THEOREM AuditFirst == Spec => []AttemptBeforeExecution
<1>1. AuditInv => AttemptBeforeExecution
  BY DEF AuditInv, RunsStarted, AttemptBeforeExecution
<1> QED
  BY <1>1, TypeCorrect, AuditInvInit, AuditInvStep, PTL DEF Spec

\* A remote command is executed at most once more, whatever goes wrong again.
THEOREM RetryOnce == Spec => []RetriedOnce
<1>1. AuditInv => RetriedOnce
  BY DEF AuditInv, TriesBound, RetriedOnce
<1> QED
  BY <1>1, TypeCorrect, AuditInvInit, AuditInvStep, PTL DEF Spec
-----------------------------------------------------------------------------
\* The checks of the four stages together ask for everything that is needed.
LEMMA NeededIsChecked ==
  ASSUME NEW r \in Requests, call[r] \in CallType
  PROVE  Needed(call[r]) \subseteq
           (ChecksOf(r, "bridge") \ {"project_write"}) \cup {"gateway"} \cup ChecksOf(r, "tool")
<1> DEFINE c == call[r]
<1>1. c.tool \in WriteTools \cup ExecTools /\ c.local \in BOOLEAN
  BY DEF CallType
<1>2. CASE c.tool \in WriteTools
  <2>1. /\ Checks(c, "tool") = <<"writes", "scope", "project_write">>
        /\ ~c.local =>
             Checks(c, "bridge") = <<"grant", "gateway", "scope", "writes", "project_write">>
    BY <1>2 DEF Checks, Authorize
  <2>2. {"writes", "scope", "project_write"} \subseteq ChecksOf(r, "tool")
    BY <2>1 DEF ChecksOf
  <2>3. ~c.local => "grant" \in ChecksOf(r, "bridge")
    BY <2>1 DEF ChecksOf
  <2> QED BY <1>2, <2>2, <2>3 DEF Needed, WriteTools, ExecTools
<1>3. CASE c.tool \notin WriteTools
  <2>1. /\ Checks(c, "tool") = <<"scope">>
        /\ ~c.local => Checks(c, "bridge") =
             IF c.tool = "run_command" THEN <<"grant", "gateway", "shell", "scope">>
                                       ELSE <<"grant", "gateway", "scope">>
    BY <1>3 DEF Checks, Authorize
  <2>2. "scope" \in ChecksOf(r, "tool")
    BY <2>1 DEF ChecksOf
  <2>3. ~c.local => "grant" \in ChecksOf(r, "bridge")
    BY <2>1 DEF ChecksOf
  <2>4. ~c.local /\ c.tool = "run_command" => "shell" \in ChecksOf(r, "bridge")
    BY <2>1 DEF ChecksOf
  <2> QED BY <1>3, <2>2, <2>3, <2>4 DEF Needed
<1> QED
  BY <1>2, <1>3

LEMMA GatewayIsChecked ==
  ASSUME NEW c
  PROVE  \E i \in 1 .. Len(Checks(c, "kill")) : Checks(c, "kill")[i] = "gateway"
BY DEF Checks

\* Every check reads one of the switches.
LEMMA ChecksReadSwitches ==
  ASSUME NEW c, NEW stage \in Stages
  PROVE  /\ Len(Checks(c, stage)) \in Nat
         /\ \A i \in 1 .. Len(Checks(c, stage)) : Checks(c, stage)[i] \in Switches
<1> DEFINE Reads(l) == Len(l) \in Nat /\ \A i \in 1 .. Len(l) : l[i] \in Switches
<1>1. Reads(Authorize(c))
  <2>1. Reads(<<>>)
    OBVIOUS
  <2>2. Reads(<<"grant", "gateway", "scope", "writes", "project_write">>)
    BY DEF Switches
  <2>3. Reads(<<"grant", "gateway", "shell", "scope">>)
    BY DEF Switches
  <2>4. Reads(<<"grant", "gateway", "scope">>)
    BY DEF Switches
  <2> HIDE DEF Reads
  <2> QED BY <2>1, <2>2, <2>3, <2>4 DEF Authorize
<1>2. Reads(<<"scope", "gateway">>) /\ Reads(<<"gateway">>)
  BY DEF Switches
<1>3. Reads(<<"writes", "scope", "project_write">>) /\ Reads(<<"scope">>)
  BY DEF Switches
<1>4. Reads(Checks(c, stage))
  <2> HIDE DEF Reads
  <2> QED BY <1>1, <1>2, <1>3 DEF Checks, Stages
<1> QED
  BY <1>4

LEMMA SwitchInvInit == Init => SwitchInv
BY DEF Init, SwitchInv, Fresh, NowSeen, StagePassed, StagesPassed, AllPassed,
       PermittedSinceSubmission, Active, Stages, Beyond, Runs

\* What every step but Submit, Flip, CheckSwitch and NextStage leaves alone.
LEMMA SwitchFrame ==
  ASSUME TypeOK, SwitchInv, UNCHANGED <<on, call, seen>>,
         NEW r \in Requests, NEW place,
         pc' = [pc EXCEPT ![r] = place] /\ pos' = pos,
         place \notin Stages \cup {"idle"},
         place \notin Terminal => Active(r),
         place \in {"probe", "attempt"} \cup Beyond
           => Needed(call[r]) \subseteq seen[r],
         \A q \in Requests :
           (\E k \in Runs : run'[q][k] # "none")
             => (\E k \in Runs : run[q][k] # "none") \/ Needed(call[q]) \subseteq seen[q]
  PROVE  SwitchInv'
<1>1. \A q \in Requests : pc'[q] = IF q = r THEN place ELSE pc[q]
  BY DEF TypeOK
<1>2. Fresh' /\ StagePassed'
  BY <1>1 DEF SwitchInv, Fresh, StagePassed
<1>3. NowSeen'
  BY <1>1 DEF SwitchInv, NowSeen, Active
<1>4. StagesPassed'
  BY <1>1 DEF SwitchInv, StagesPassed, ChecksOf, Stages
<1>5. AllPassed'
  BY <1>1 DEF SwitchInv, AllPassed
<1>6. PermittedSinceSubmission'
  BY DEF SwitchInv, PermittedSinceSubmission
<1> QED
  BY <1>2, <1>3, <1>4, <1>5, <1>6 DEF SwitchInv
\* The steps after the checks.
AfterChecks(r) ==
  \/ Probe(r) \/ RecordAttempt(r) \/ Connect(r) \/ ConnectFails(r) \/ Answer(r)
  \/ Misread(r) \/ TimeOut(r) \/ Disconnect(r) \/ Retry(r) \/ NoRetry(r)

LEMMA AfterChecksStep ==
  ASSUME TypeOK, NEW r \in Requests, AfterChecks(r)
  PROVE  /\ UNCHANGED <<on, call, pos, seen>>
         /\ pc[r] \in {"probe", "attempt"} \cup Beyond
         /\ Active(r)
         /\ \E place \in ({"attempt"} \cup Beyond \cup Terminal) \ Stages :
              pc' = [pc EXCEPT ![r] = place]
         /\ \A q \in Requests \ {r} : run'[q] = run[q]
<1> USE DEF Beyond, Active, Terminal, Stages
<1>1. CASE Probe(r)
  BY <1>1, Denying DEF Probe
<1>2. CASE RecordAttempt(r)
  BY <1>2, Denying DEF RecordAttempt
<1>3. CASE Connect(r)
  BY <1>3 DEF Connect, TypeOK
<1>4. CASE ConnectFails(r)
  <2>1. \A q \in Requests \ {r} : run'[q] = run[q]
    BY <1>4 DEF ConnectFails, TypeOK
  <2> QED BY <1>4, <2>1, ConnectStep DEF ConnectFails
<1>5. CASE Answer(r)
  BY <1>5, Reporting, ReportingFailure DEF Answer
<1>6. CASE Misread(r) \/ TimeOut(r) \/ Retry(r)
  BY <1>6 DEF Misread, TimeOut, Retry
<1>7. CASE Disconnect(r)
  BY <1>7, ReportingFailure DEF Disconnect
<1>8. CASE NoRetry(r)
  BY <1>8, Reporting, ReportingError, ReportingFailure DEF NoRetry
<1> QED
  BY <1>1, <1>2, <1>3, <1>4, <1>5, <1>6, <1>7, <1>8 DEF AfterChecks

LEMMA SwitchInvStep == TypeOK /\ AuditInv /\ SwitchInv /\ [Next]_vars => SwitchInv'
<1> SUFFICES ASSUME TypeOK, AuditInv, SwitchInv, [Next]_vars PROVE SwitchInv'
  OBVIOUS
<1>1. ASSUME NEW r \in Requests, AfterChecks(r) PROVE SwitchInv'
  <2>1. PICK place \in ({"attempt"} \cup Beyond \cup Terminal) \ Stages :
          pc' = [pc EXCEPT ![r] = place]
    BY <1>1, AfterChecksStep
  <2>2. Needed(call[r]) \subseteq seen[r]
    BY <1>1, AfterChecksStep DEF SwitchInv, AllPassed
  <2>3. UNCHANGED <<on, call, pos, seen>> /\ Active(r)
        /\ \A q \in Requests \ {r} : run'[q] = run[q]
    BY <1>1, AfterChecksStep
  <2>4. place \notin Stages \cup {"idle"}
    BY <2>1 DEF Beyond, Terminal, Stages
  <2> QED BY <2>1, <2>2, <2>3, <2>4, SwitchFrame
<1>2. ASSUME NEW r \in Requests, CheckSwitch(r) PROVE SwitchInv'
  <2>1. /\ pc[r] \in Stages /\ Active(r) /\ pos[r] \in Nat \ {0}
        /\ UNCHANGED <<on, call, seen, run>>
    BY <1>2 DEF CheckSwitch, Active, Stages, Terminal, TypeOK
  <2>2. CASE Deny(r) /\ UNCHANGED pos
    <3>1. pc' = [pc EXCEPT ![r] = "denied"]
      BY <2>2, Denying
    <3> QED BY <2>1, <2>2, <3>1, SwitchFrame DEF Stages, Beyond, Terminal
  <2>3. CASE /\ on[Checks(call[r], pc[r])[pos[r]]] \/ PassedOver(r)
             /\ pos' = [pos EXCEPT ![r] = @ + 1] /\ UNCHANGED <<pc, audit>>
    <3> DEFINE s == Checks(call[r], pc[r])[pos[r]]
    <3>1. s \in Switches
      <4>1. pos[r] \in 1 .. Len(Checks(call[r], pc[r]))
        BY <1>2, <2>1, ChecksReadSwitches DEF CheckSwitch
      <4> QED BY <2>1, <4>1, ChecksReadSwitches
    <3>2. s \in seen[r] \cup Excused(pc[r])
      BY <2>1, <2>3, <3>1 DEF SwitchInv, NowSeen, PassedOver, Excused
    <3>3. \A q \in Requests : pos'[q] = IF q = r THEN pos[r] + 1 ELSE pos[q]
      BY <2>3 DEF TypeOK
    <3>4. StagePassed'
      <4>1. \A i \in 1 .. Len(Checks(call[r], pc[r])) :
              i < pos[r] + 1 => Checks(call[r], pc[r])[i] \in seen[r] \cup Excused(pc[r])
        <5> SUFFICES ASSUME NEW i \in 1 .. Len(Checks(call[r], pc[r])), i < pos[r] + 1
                     PROVE  Checks(call[r], pc[r])[i] \in seen[r] \cup Excused(pc[r])
          OBVIOUS
        <5>1. i \in Nat
          BY <2>1, ChecksReadSwitches
        <5>2. i < pos[r] \/ i = pos[r]
          BY <2>1, <5>1
        <5> QED BY <2>1, <3>2, <5>2 DEF SwitchInv, StagePassed
      <4> QED BY <2>1, <2>3, <3>3, <4>1 DEF SwitchInv, StagePassed
    <3>5. Fresh'
      BY <2>1, <2>3, <3>3 DEF SwitchInv, Fresh, Stages
    <3>6. NowSeen' /\ StagesPassed' /\ AllPassed' /\ PermittedSinceSubmission'
      BY <2>1, <2>3 DEF SwitchInv, NowSeen, Active, StagesPassed, ChecksOf, AllPassed,
                        PermittedSinceSubmission
    <3> QED BY <3>4, <3>5, <3>6 DEF SwitchInv
  <2> QED BY <1>2, <2>2, <2>3 DEF CheckSwitch
<1>3. ASSUME NEW r \in Requests, NextStage(r) PROVE SwitchInv'
  <2>1. /\ pc[r] \in Stages /\ Active(r) /\ pos[r] \in Nat \ {0}
        /\ pos[r] > Len(Checks(call[r], pc[r]))
        /\ UNCHANGED <<on, call, seen, run>>
    BY <1>3 DEF NextStage, Active, Stages, Terminal, TypeOK
  <2>2. /\ \A q \in Requests : pc'[q] = IF q = r THEN After(pc[r]) ELSE pc[q]
        /\ \A q \in Requests : pos'[q] = IF q = r THEN 1 ELSE pos[q]
    BY <1>3 DEF NextStage, TypeOK
  <2>3. After(pc[r]) \in {"kill", "core", "tool", "probe"}
    BY <2>1 DEF After, Stages
  <2>4. \A i \in 1 .. Len(Checks(call[r], pc[r])) : i < pos[r]
    <3>1. Len(Checks(call[r], pc[r])) \in Nat
      BY <2>1 DEF Checks, Authorize, Stages
    <3> QED BY <2>1, <3>1
  <2>5. ChecksOf(r, pc[r]) \subseteq seen[r] \cup Excused(pc[r])
    BY <2>1, <2>4 DEF SwitchInv, StagePassed, ChecksOf
  <2>6. Fresh'
    BY <2>2 DEF SwitchInv, Fresh
  <2>7. NowSeen'
    BY <2>1, <2>2 DEF SwitchInv, NowSeen, Active
  <2>8. StagePassed'
    <3>1. \A q \in Requests \ {r} : pc'[q] = pc[q] /\ pos'[q] = pos[q]
      BY <2>2
    <3>2. \A q \in Requests \ {r} : pc[q] \in Stages =>
            \A i \in 1 .. Len(Checks(call[q], pc[q])) :
              i < pos[q] => Checks(call[q], pc[q])[i] \in seen[q] \cup Excused(pc[q])
      BY DEF SwitchInv, StagePassed
    <3>3. pos'[r] = 1
      BY <2>2
    <3> QED BY <2>1, <3>1, <3>2, <3>3 DEF StagePassed
  <2>9. StagesPassed'
    <3>1. pc[r] = "kill" => "gateway" \in seen[r]
      BY <2>5, GatewayIsChecked DEF ChecksOf, Excused
    <3>2. /\ pc'[r] \in {"kill", "core", "tool"} =>
               ChecksOf(r, "bridge") \subseteq seen[r] \cup Excused("bridge")
          /\ pc'[r] \in {"core", "tool"} => "gateway" \in seen[r]
      BY <2>1, <2>2, <2>5, <3>1 DEF SwitchInv, StagesPassed, After, Stages
    <3>3. ASSUME NEW q \in Requests
          PROVE  /\ pc'[q] \in {"kill", "core", "tool"} =>
                      ChecksOf(q, "bridge") \subseteq seen[q] \cup Excused("bridge")
                 /\ pc'[q] \in {"core", "tool"} => "gateway" \in seen[q]
      <4>1. CASE q = r
        BY <3>2, <4>1
      <4>2. CASE q # r
        <5>1. pc'[q] = pc[q]
          BY <2>2, <4>2
        <5> QED BY <5>1 DEF SwitchInv, StagesPassed
      <4> QED BY <4>1, <4>2
    <3>4. \A q \in Requests : ChecksOf(q, "bridge")' = ChecksOf(q, "bridge") /\ seen'[q] = seen[q]
      BY <2>1 DEF ChecksOf
    <3> QED BY <3>3, <3>4 DEF StagesPassed, Excused
  <2>10. AllPassed'
    <3>1. pc[r] = "tool" => Needed(call[r]) \subseteq seen[r]
      <4>1. call[r] \in CallType
        BY PipelineAssumption DEF TypeOK
      <4> QED BY <2>5, <4>1, NeededIsChecked DEF SwitchInv, StagesPassed, Excused
    <3>2. pc'[r] = "probe" => pc[r] = "tool"
      BY <2>1, <2>2 DEF After, Stages
    <3> QED BY <2>1, <2>2, <2>3, <3>1, <3>2 DEF SwitchInv, AllPassed, Beyond
  <2>11. PermittedSinceSubmission'
    BY <2>1 DEF SwitchInv, PermittedSinceSubmission
  <2> QED BY <2>6, <2>7, <2>8, <2>9, <2>10, <2>11 DEF SwitchInv
<1>4. ASSUME NEW r \in Requests, Submit(r) PROVE SwitchInv'
  <2>1. /\ pc[r] = "idle" /\ UNCHANGED <<on, call, pos, run>>
        /\ \A q \in Requests : pc'[q] = IF q = r THEN "bridge" ELSE pc[q]
        /\ \A q \in Requests : seen'[q] = IF q = r THEN {s \in Switches : on[s]} ELSE seen[q]
    BY <1>4 DEF Submit, TypeOK
  <2>2. \A k \in Runs : run[r][k] = "none"
    BY <2>1 DEF AuditInv, Unattempted, RunsStarted, Before
  <2>3. pos[r] = 1
    BY <2>1 DEF SwitchInv, Fresh
  <2>4. Fresh' /\ NowSeen' /\ StagesPassed' /\ AllPassed'
    <3>1. Fresh'
      BY <2>1 DEF SwitchInv, Fresh
    <3>2. NowSeen'
      BY <2>1 DEF SwitchInv, NowSeen, Active
    <3>3. StagesPassed'
      <4>1. \A q \in Requests : ChecksOf(q, "bridge")' = ChecksOf(q, "bridge")
        BY <2>1 DEF ChecksOf
      <4>2. \A q \in Requests :
              pc'[q] \in {"kill", "core", "tool"} => pc'[q] = pc[q] /\ seen'[q] = seen[q]
        BY <2>1
      <4>3. Excused("bridge")' = Excused("bridge")
        BY DEF Excused
      <4> QED BY <4>1, <4>2, <4>3 DEF SwitchInv, StagesPassed
    <3>4. AllPassed'
      BY <2>1 DEF SwitchInv, AllPassed, Beyond
    <3> QED BY <3>1, <3>2, <3>3, <3>4
  <2>5. StagePassed'
    <3>1. \A i \in 1 .. Len(Checks(call[r], "bridge")) : ~(i < 1)
      BY ChecksReadSwitches DEF Stages
    <3> QED BY <2>1, <2>3, <3>1 DEF SwitchInv, StagePassed
  <2>6. PermittedSinceSubmission'
    BY <2>1, <2>2 DEF SwitchInv, PermittedSinceSubmission
  <2> QED BY <2>4, <2>5, <2>6 DEF SwitchInv
<1>5. ASSUME NEW s \in Flippable, Flip(s) PROVE SwitchInv'
  <2>1. UNCHANGED <<call, pc, pos, run>>
    BY <1>5 DEF Flip
  <2>2. \A q \in Requests : seen[q] \subseteq seen'[q]
    BY <1>5 DEF Flip
  <2>3. NowSeen'
    BY <1>5, <2>1 DEF Flip, SwitchInv, NowSeen, Active, TypeOK
  <2>4. Fresh' /\ StagePassed' /\ AllPassed' /\ PermittedSinceSubmission'
    BY <2>1, <2>2 DEF SwitchInv, Fresh, StagePassed, AllPassed, PermittedSinceSubmission
  <2>5. StagesPassed'
    BY <2>1, <2>2 DEF SwitchInv, StagesPassed, ChecksOf
  <2> QED BY <2>3, <2>4, <2>5 DEF SwitchInv
<1>6. ASSUME NEW r \in Requests, BridgeKilled(r) PROVE SwitchInv'
  BY <1>6, SwitchFrame DEF BridgeKilled, Stages, Beyond, Terminal
<1>7. ASSUME NEW r \in Requests, NEW k \in Runs, Helper(r, k) PROVE SwitchInv'
  <2>1. UNCHANGED <<on, call, pc, pos, seen>> /\ run[r][k] # "none"
    BY <1>7 DEF Helper, HelperCheck, HelperApply, Poised, HelperFails
  <2>2. \A q \in Requests \ {r} : run'[q] = run[q]
    BY <1>7, HelperStep
  <2>3. PermittedSinceSubmission'
    BY <2>1, <2>2 DEF SwitchInv, PermittedSinceSubmission
  <2> QED BY <2>1, <2>3 DEF SwitchInv, Fresh, NowSeen, Active, StagePassed, StagesPassed,
                           ChecksOf, AllPassed
<1>8. CASE UNCHANGED vars
  BY <1>8 DEF vars, SwitchInv, Fresh, NowSeen, Active, StagePassed, StagesPassed,
              ChecksOf, AllPassed, PermittedSinceSubmission
<1> QED
  BY <1>1, <1>2, <1>3, <1>4, <1>5, <1>6, <1>7, <1>8 DEF Next, Gateway, AfterChecks

\* However many switches are flipped, and whenever: a request executes only if
\* each switch it needs was on at some time since it came in.
THEOREM PermittedBySwitches == Spec => []PermittedSinceSubmission
<1>1. SwitchInv => PermittedSinceSubmission
  BY DEF SwitchInv
<1> QED
  BY <1>1, TypeCorrect, AuditInvInit, AuditInvStep, SwitchInvInit, SwitchInvStep,
     PTL DEF Spec

-----------------------------------------------------------------------------
(***************************************************************************)
(* The pipeline implements AuditedEffects: every step of it is a step of   *)
(* that module, or changes nothing of what that module speaks about.  What *)
(* was acknowledged stays in its file.                                     *)
(***************************************************************************)

\* The refinement mapping, and what leaves each part of it as it is.
PhaseBar == [r \in Requests |-> Phase(r)]
RecordedBar == {r \in Requests : Attempted(r)}
EffectsBar == [r \in Requests |-> {k \in Runs : Applied(r, k)}]

SameRecord == \A q \in Requests : Attempted(q)' <=> Attempted(q)
SameEffects == \A q \in Requests, k \in Runs : Applied(q, k)' <=> Applied(q, k)

LEMMA RecordedUnchanged == ASSUME SameRecord PROVE RecordedBar' = RecordedBar
BY DEF SameRecord, RecordedBar

LEMMA EffectsUnchanged == ASSUME SameEffects PROVE EffectsBar' = EffectsBar
<1>1. \A q \in Requests : {k \in Runs : Applied(q, k)}' = {k \in Runs : Applied(q, k)}
  BY DEF SameEffects, Runs
<1> QED
  BY <1>1 DEF EffectsBar

\* A request that was open moves on, and nothing else the promise sees changes.
LEMMA OpenMoves ==
  ASSUME TypeOK, NEW r \in Requests, NEW place \in Progress,
         pc' = [pc EXCEPT ![r] = place], SameRecord, SameEffects,
         Phase(r) = "open",
         place \in {"denied", "previewed"} => ~Attempted(r),
         place = "ok" => \E k \in Runs : Applied(r, k),
         place \in {"error", "reported"} => Attempted(r)
  PROVE  [Promise!Next]_(Promise!vars)
<1>1. RecordedBar' = RecordedBar /\ EffectsBar' = EffectsBar
  BY RecordedUnchanged, EffectsUnchanged
<1>2. \A q \in Requests \ {r} : Phase(q)' = Phase(q)
  BY DEF Phase, SameRecord, TypeOK
<1>3. PhaseBar' = [PhaseBar EXCEPT ![r] = Phase(r)']
  BY <1>2 DEF PhaseBar
<1>4. PhaseBar[r] = "open" /\ (r \in RecordedBar <=> Attempted(r))
      /\ EffectsBar[r] = {k \in Runs : Applied(r, k)}
  BY DEF PhaseBar, RecordedBar, EffectsBar
<1>5. pc'[r] = place /\ (Attempted(r)' <=> Attempted(r))
  BY DEF TypeOK, SameRecord
<1>6. CASE Phase(r)' = "open"
  <2>1. PhaseBar' = PhaseBar
    BY <1>3, <1>4, <1>6 DEF PhaseBar
  <2> QED BY <1>1, <2>1 DEF Promise!vars, PhaseBar, RecordedBar, EffectsBar
<1>7. CASE Phase(r)' = "refused"
  <2>1. ~Attempted(r)
    BY <1>5, <1>7 DEF Phase
  <2>2. Promise!Refuse(r)
    BY <1>1, <1>3, <1>4, <1>7, <2>1 DEF Promise!Refuse, PhaseBar, RecordedBar, EffectsBar
  <2> QED BY <2>2 DEF Promise!Next
<1>8. CASE Phase(r)' = "acknowledged"
  <2>1. \E k \in Runs : Applied(r, k)
    BY <1>5, <1>8 DEF Phase
  <2>2. Promise!Acknowledge(r)
    BY <1>1, <1>3, <1>4, <1>8, <2>1 DEF Promise!Acknowledge, PhaseBar, RecordedBar, EffectsBar
  <2> QED BY <2>2 DEF Promise!Next
<1>9. CASE Phase(r)' = "indeterminate"
  <2>1. Attempted(r)
    BY <1>5, <1>9 DEF Phase
  <2>2. Promise!Abandon(r)
    BY <1>1, <1>3, <1>4, <1>9, <2>1 DEF Promise!Abandon, PhaseBar, RecordedBar, EffectsBar
  <2> QED BY <2>2 DEF Promise!Next
<1> QED
  BY <1>6, <1>7, <1>8, <1>9 DEF Phase
-----------------------------------------------------------------------------
\* A step that moves no request and writes no ATTEMPT is Apply or nothing.
LEMMA ExecutionMoves ==
  ASSUME TypeOK, AuditInv, UNCHANGED <<pc, audit>>,
         NEW r \in Requests, NEW k \in Runs, run[r][k] # "none",
         \A q \in Requests, j \in Runs :
           q # r \/ j # k => (Applied(q, j)' <=> Applied(q, j)),
         Applied(r, k) => Applied(r, k)'
  PROVE  [Promise!Next]_(Promise!vars)
<1>1. SameRecord
  BY DEF SameRecord, Attempted
<1>2. RecordedBar' = RecordedBar /\ r \in RecordedBar
  BY <1>1, RecordedUnchanged DEF RecordedBar, AuditInv, RunsStarted
<1>3. PhaseBar' = PhaseBar
  BY DEF PhaseBar, Phase, Attempted
<1>4. CASE Applied(r, k)' <=> Applied(r, k)
  <2>1. SameEffects
    BY <1>4 DEF SameEffects
  <2>2. EffectsBar' = EffectsBar
    BY <2>1, EffectsUnchanged
  <2> QED BY <1>2, <1>3, <2>2 DEF Promise!vars, PhaseBar, RecordedBar, EffectsBar
<1>5. CASE ~Applied(r, k) /\ Applied(r, k)'
  <2>1. k \in Runs \ EffectsBar[r]
    BY <1>5 DEF EffectsBar
  <2>2. EffectsBar' = [EffectsBar EXCEPT ![r] = @ \cup {k}]
    <3>1. \A q \in Requests \ {r} : {j \in Runs : Applied(q, j)}' = {j \in Runs : Applied(q, j)}
      BY DEF Runs
    <3>2. {j \in Runs : Applied(r, j)}' = {j \in Runs : Applied(r, j)} \cup {k}
      BY <1>5 DEF Runs
    <3> QED BY <3>1, <3>2 DEF EffectsBar
  <2>3. Promise!Apply(r)
    BY <1>2, <1>3, <2>1, <2>2 DEF Promise!Apply, PhaseBar, RecordedBar, EffectsBar
  <2> QED BY <2>3 DEF Promise!Next
<1> QED
  BY <1>4, <1>5

LEMMA SimulationInit == Init => Promise!Init
<1> SUFFICES ASSUME Init PROVE Promise!Init
  OBVIOUS
<1>1. \A r \in Requests : Phase(r) = "open" /\ ~Attempted(r)
  BY DEF Init, Phase, Attempted
<1>2. \A r \in Requests, k \in Runs : ~Applied(r, k)
  BY DEF Init, Applied
<1> QED
  BY <1>1, <1>2 DEF Promise!Init

\* No other step of a call reports its success.
LEMMA OnlyAnswer ==
  ASSUME TypeOK, NEW r \in Requests, Local(r), pc'[r] = "ok", pc[r] # "ok"
  PROVE  Answer(r)
<1>1. ~CheckSwitch(r) /\ ~NextStage(r) /\ ~Probe(r)
  BY Denying DEF TypeOK, CheckSwitch, NextStage, After, Stages, Probe
<1>2. ~Misread(r) /\ ~TimeOut(r) /\ ~Retry(r)
  BY DEF TypeOK, Misread, TimeOut, Retry
<1>3. ~Disconnect(r)
  BY ReportingFailure DEF TypeOK, Disconnect
<1>4. ~NoRetry(r)
  BY Reporting, ReportingError, ReportingFailure DEF TypeOK, NoRetry
<1> QED
  BY <1>1, <1>2, <1>3, <1>4 DEF Local

LEMMA SimulationStep ==
  TypeOK /\ AuditInv /\ [Next]_vars => [Promise!Next]_(Promise!vars)
<1> SUFFICES ASSUME TypeOK, AuditInv, [Next]_vars
             PROVE  [Promise!Next]_(Promise!vars)
  OBVIOUS
<1> DEFINE Goal == [Promise!Next]_(Promise!vars)
<1> HIDE DEF Goal
<1>0. \A r \in Requests : pc[r] \in (Before \cup Beyond) \ Terminal => Phase(r) = "open"
  BY DEF Phase, Before, Beyond, Terminal, Stages
<1>1. ASSUME NEW r \in Requests, Local(r) PROVE Goal
  <2>1. PICK place \in Progress : Moves(r, place)
    BY <1>1, LocalStep
  <2>2. SameRecord
    BY <1>1, LocalStep, AttemptsKept DEF SameRecord
  <2>3. SameEffects
    BY <1>1, LocalStep DEF SameEffects, Applied
  <2>4. pc[r] \in (Before \cup Beyond) \ Terminal
    BY <1>1, <2>1 DEF Local, Before, Beyond, Terminal, Stages, CheckSwitch, NextStage, Probe,
       Answer, Misread, TimeOut, Disconnect, Retry, NoRetry
  <2>5. place \in {"denied", "previewed"} => ~Attempted(r)
    BY <2>1, <2>4 DEF Moves, AuditInv, Unattempted, Beyond
  <2>6. place \in {"error", "reported"} => Attempted(r)
    BY <2>1, <2>4 DEF Moves, AuditInv, Underway, Before, Stages
  <2>7. place = "ok" => \E k \in Runs : Applied(r, k)
    <3> SUFFICES ASSUME place = "ok" PROVE \E k \in Runs : Applied(r, k)
      OBVIOUS
    <3>1. pc'[r] = "ok" /\ pc[r] # "ok"
      BY <2>1, <2>4 DEF Moves, TypeOK, Terminal
    <3>2. Answer(r)
      BY <1>1, <3>1, OnlyAnswer
    <3>3. run[r][tries[r]] \in {"applied", "torn"}
      BY <3>1, <3>2, ReportingFailure DEF Answer, TypeOK
    <3>4. tries[r] \in Runs
      BY <3>2 DEF Answer, AuditInv, Started, TypeOK, Runs
    <3> QED BY <3>3, <3>4 DEF Applied
  <2> QED
    BY <1>0, <2>1, <2>2, <2>3, <2>4, <2>5, <2>6, <2>7, OpenMoves DEF Moves, Goal
<1>2. ASSUME NEW r \in Requests, RecordAttempt(r) PROVE Goal
  <2>1. CASE Record(r, "ATTEMPT") /\ pc' = [pc EXCEPT ![r] = "dispatch"]
    <3>1. pc[r] = "attempt" /\ UNCHANGED run
      BY <1>2 DEF RecordAttempt
    <3>2. \A q \in Requests : Attempted(q)' <=> Attempted(q) \/ q = r
      BY <2>1 DEF Record, Attempted
    <3>3. RecordedBar' = RecordedBar \cup {r}
      BY <3>2 DEF RecordedBar
    <3>4. SameEffects
      BY <3>1 DEF SameEffects, Applied
    <3>5. \A q \in Requests : Phase(q)' = Phase(q)
      BY <2>1, <3>1, <3>2 DEF Phase, TypeOK
    <3>6. PhaseBar' = PhaseBar /\ PhaseBar[r] = "open"
      BY <1>0, <3>1, <3>5 DEF PhaseBar, Before, Terminal
    <3>7. Promise!Record(r)
      BY <3>3, <3>4, <3>6, EffectsUnchanged
         DEF Promise!Record, PhaseBar, RecordedBar, EffectsBar
    <3> QED BY <3>7 DEF Promise!Next, Goal
  <2>2. CASE Deny(r)
    <3>1. pc[r] = "attempt" /\ UNCHANGED run /\ pc' = [pc EXCEPT ![r] = "denied"]
      BY <1>2, <2>2, Denying DEF RecordAttempt
    <3>2. SameRecord
      BY <2>2, Denying, AttemptsKept DEF SameRecord
    <3>3. SameEffects
      BY <3>1 DEF SameEffects, Applied
    <3>4. ~Attempted(r) /\ Phase(r) = "open" /\ "denied" \in Progress
      BY <1>0, <3>1 DEF AuditInv, Unattempted, Before, Terminal, Progress
    <3> QED BY <3>1, <3>2, <3>3, <3>4, OpenMoves DEF Goal
  <2> QED BY <1>2, <2>1, <2>2 DEF RecordAttempt
<1>3. ASSUME NEW r \in Requests, Connect(r) \/ ConnectFails(r) PROVE Goal
  <2>1. PICK place \in {"waiting", "net_failed", "reported", "error"} :
          pc' = [pc EXCEPT ![r] = place] /\ AuditStep(r)
    BY <1>3, ConnectStep
  <2>2. SameRecord
    BY <2>1, AttemptsKept DEF SameRecord
  <2>3. SameEffects
    <3>1. PICK state \in {"running", "unsent"} : run' = [run EXCEPT ![r][tries[r] + 1] = state]
      BY <1>3 DEF Connect, ConnectFails
    <3>2. tries[r] + 1 \in Runs => run[r][tries[r] + 1] = "none"
      BY DEF AuditInv, RunsStarted, TypeOK, Runs
    <3> QED BY <3>1, <3>2 DEF SameEffects, Applied, TypeOK
  <2>4. pc[r] = "dispatch" /\ Attempted(r) /\ Phase(r) = "open"
    BY <1>0, <1>3 DEF Connect, ConnectFails, AuditInv, Underway, Beyond, Terminal
  <2>5. place \in Progress
    BY <2>1 DEF Progress, Terminal
  <2> QED BY <2>1, <2>2, <2>3, <2>4, <2>5, OpenMoves DEF Goal
<1>4. ASSUME NEW r \in Requests, NEW k \in Runs, Helper(r, k) PROVE Goal
  <2>1. UNCHANGED <<pc, audit>> /\ run[r][k] \notin {"none", "applied", "torn", "nonzero"}
    BY <1>4 DEF Helper, HelperCheck, HelperApply, Poised, HelperFails
  <2>2. \A q \in Requests, j \in Runs : q # r \/ j # k => run'[q][j] = run[q][j]
    BY <1>4, HelperStep
  <2> QED BY <2>1, <2>2, ExecutionMoves DEF Applied, Goal
<1>5. ASSUME UNCHANGED <<pc, audit, run>> PROVE Goal
  BY <1>5 DEF Goal, Promise!vars, Phase, Attempted, Applied
<1>6. ASSUME NEW r \in Requests, Submit(r) PROVE Goal
  <2>1. SameRecord /\ SameEffects /\ pc[r] = "idle" /\ pc' = [pc EXCEPT ![r] = "bridge"]
    BY <1>6 DEF Submit, SameRecord, SameEffects, Attempted, Applied
  <2>2. Phase(r) = "open" /\ "bridge" \in Progress
    BY <1>0, <2>1 DEF Before, Terminal, Progress, Stages
  <2> QED BY <2>1, <2>2, OpenMoves DEF Goal
<1>7. ASSUME NEW r \in Requests, BridgeKilled(r) PROVE Goal
  <2>1. SameRecord /\ SameEffects /\ Active(r) /\ pc' = [pc EXCEPT ![r] = "killed"]
    BY <1>7 DEF BridgeKilled, SameRecord, SameEffects, Attempted, Applied
  <2>2. Phase(r) = "open" /\ "killed" \in Progress
    BY <2>1 DEF Active, Phase, Terminal, Progress
  <2> QED BY <2>1, <2>2, OpenMoves DEF Goal
<1> QED
  BY <1>1, <1>2, <1>3, <1>4, <1>5, <1>6, <1>7
     DEF Next, Gateway, Local, Flip, vars, Goal

\* The detailed pipeline implements the abstract promise.
THEOREM PipelineKeepsPromise == Spec => KeepsPromise
<1> QED
  BY TypeCorrect, AuditInvInit, AuditInvStep, SimulationInit, SimulationStep,
     PTL DEF Spec, KeepsPromise, Promise!Spec

\* The promise itself accounts for its effects, for any number of requests and of
\* executions: every step of AuditedEffects keeps its type and its accounts.
LEMMA PromisedEffects == Promise!Spec => [](Promise!TypeOK /\ Promise!EffectsAccountedFor)
<1>1. Promise!Init => Promise!TypeOK /\ Promise!EffectsAccountedFor
  BY DEF Promise!Init, Promise!TypeOK, Promise!EffectsAccountedFor, Promise!Phases
<1>2. Promise!TypeOK /\ Promise!EffectsAccountedFor /\ [Promise!Next]_(Promise!vars)
        => (Promise!TypeOK /\ Promise!EffectsAccountedFor)'
  <2> SUFFICES ASSUME Promise!TypeOK, Promise!EffectsAccountedFor, [Promise!Next]_(Promise!vars)
               PROVE  Promise!TypeOK' /\ Promise!EffectsAccountedFor'
    OBVIOUS
  <2> USE DEF Promise!TypeOK, Promise!EffectsAccountedFor, Promise!Phases
  <2>1. ASSUME NEW r \in Requests, Promise!Record(r) PROVE Promise!TypeOK' /\ Promise!EffectsAccountedFor'
    BY <2>1 DEF Promise!Record
  <2>2. ASSUME NEW r \in Requests, Promise!Apply(r) PROVE Promise!TypeOK' /\ Promise!EffectsAccountedFor'
    BY <2>2 DEF Promise!Apply
  <2>3. ASSUME NEW r \in Requests, Promise!Refuse(r) PROVE Promise!TypeOK' /\ Promise!EffectsAccountedFor'
    BY <2>3, ZenonT(60) DEF Promise!Refuse
  <2>4. ASSUME NEW r \in Requests, Promise!Acknowledge(r) PROVE Promise!TypeOK' /\ Promise!EffectsAccountedFor'
    BY <2>4 DEF Promise!Acknowledge
  <2>5. ASSUME NEW r \in Requests, Promise!Abandon(r) PROVE Promise!TypeOK' /\ Promise!EffectsAccountedFor'
    BY <2>5 DEF Promise!Abandon
  <2>6. CASE UNCHANGED Promise!vars
    BY <2>6 DEF Promise!vars
  <2> QED
    BY <2>1, <2>2, <2>3, <2>4, <2>5, <2>6 DEF Promise!Next
<1> QED
  BY <1>1, <1>2, PTL DEF Promise!Spec

\* So whatever AuditedEffects promises, the pipeline keeps: no effect without its
\* attempt on record, no acknowledgement without an effect, no trace of a refusal.
THEOREM PipelineEffectsAccountedFor == Spec => []Promise!EffectsAccountedFor
BY PipelineKeepsPromise, PromisedEffects, PTL DEF KeepsPromise
-----------------------------------------------------------------------------
(***************************************************************************)
(* The content of an acknowledged write.  The invariant speaks of every    *)
(* write that took effect, acknowledged or not: its helper may go on when  *)
(* its call has ended, and may do so beside the retry of the same call.    *)
(***************************************************************************)
Writes(r) == call[r].tool \in {"write_file", "append_file"}
Effective(r) == \E k \in Runs : Applied(r, k)
Complete(r) == \E k \in Runs : run[r][k] = "applied"
Late(r) == call[r].tool = "write_file" /\ \E k \in Runs : run[r][k] = "torn"
Untouched(r) ==
  \A q \in Requests \ {r}, k \in Runs :
    Applied(q, k) => call[r].path \notin {call[q].path, call[q].dest}
Holds(r) == \E i \in DOMAIN fs[call[r].path].data : fs[call[r].path].data[i].by = r
HoldsAll(r) ==
  \E i \in DOMAIN fs[call[r].path].data :
    fs[call[r].path].data[i].by = r /\ fs[call[r].path].data[i].whole

\* Who had an effect left something; a complete effect left all of it, unless
\* the same call has an execution that was cut short.
ContentKept ==
  \A r \in Requests : Writes(r) /\ Untouched(r) =>
    /\ Effective(r) => Holds(r)
    /\ Complete(r) /\ ~Late(r) => HoldsAll(r)

\* Only an execution that lost its ssh client is cut short, so its end is never
\* what is answered: an acknowledgement has a complete execution behind it.
CutUnheard ==
  \A r \in Requests, k \in Runs :
    run[r][k] \in {"checked_torn", "torn"} /\ Writes(r) => ~Attached(r, k)
AnsweredComplete ==
  \A r \in Requests :
    pc[r] = "ok" /\ Writes(r) => tries[r] \in Runs /\ run[r][tries[r]] = "applied"

ContentInv == ContentKept /\ CutUnheard /\ AnsweredComplete

\* No step changes what was called.
LEMMA CallUnchanged == ASSUME [Next]_vars PROVE UNCHANGED call
BY DEF Next, Gateway, Helper, vars, Flip, Submit, CheckSwitch, NextStage, Probe,
   RecordAttempt, Connect, ConnectFails, Answer, Misread, TimeOut, Disconnect, Retry,
   NoRetry, BridgeKilled, HelperCheck, HelperApply, HelperFails

\* The kinds of steps, as the next lemmas take them one by one.
Each ==
  \/ \E r \in Requests :
       \/ Local(r) \/ RecordAttempt(r) \/ Connect(r) \/ ConnectFails(r)
       \/ Submit(r) \/ BridgeKilled(r)
  \/ \E r \in Requests, k \in Runs : Helper(r, k)
  \/ \E s \in Flippable : Flip(s)
  \/ UNCHANGED vars

LEMMA EachStep == [Next]_vars => Each
BY DEF Next, Gateway, Local, Each

\* An execution changes by a step of its own, or starts, or never gets through.
LEMMA RunsStep ==
  ASSUME TypeOK, AuditInv, [Next]_vars, NEW q \in Requests, NEW k \in Runs
  PROVE  \/ run'[q][k] = run[q][k]
         \/ Helper(q, k)
         \/ run[q][k] = "none" /\ run'[q][k] \in {"running", "unsent"}
<1>1. ASSUME NEW r \in Requests, NEW j \in Runs, Helper(r, j)
      PROVE  run'[q][k] = run[q][k] \/ Helper(q, k)
  BY <1>1, HelperStep
<1>2. ASSUME NEW r \in Requests, Connect(r) \/ ConnectFails(r)
      PROVE  \/ run'[q][k] = run[q][k]
             \/ run[q][k] = "none" /\ run'[q][k] \in {"running", "unsent"}
  <2>1. PICK state \in {"running", "unsent"} : run' = [run EXCEPT ![r][tries[r] + 1] = state]
    BY <1>2 DEF Connect, ConnectFails
  <2>2. tries[r] + 1 \in Runs => run[r][tries[r] + 1] = "none"
    BY DEF AuditInv, RunsStarted, TypeOK, Runs
  <2>3. q # r \/ k # tries[r] + 1 => run'[q][k] = run[q][k]
    BY <2>1 DEF TypeOK
  <2>4. q = r /\ k = tries[r] + 1 => run'[q][k] = state
    BY <2>1 DEF TypeOK
  <2> QED BY <2>2, <2>3, <2>4
<1>3. ASSUME NEW r \in Requests, Local(r) PROVE UNCHANGED run
  BY <1>3, LocalStep
<1>4. ASSUME NEW r \in Requests, RecordAttempt(r) \/ Submit(r) \/ BridgeKilled(r) PROVE UNCHANGED run
  BY <1>4 DEF RecordAttempt, Submit, BridgeKilled
<1>5. ASSUME NEW s \in Flippable, Flip(s) PROVE UNCHANGED run
  BY <1>5 DEF Flip
<1>6. CASE UNCHANGED vars
  BY <1>6 DEF vars
<1> QED
  BY <1>1, <1>2, <1>3, <1>4, <1>5, <1>6 DEF Next, Gateway, Local

\* A call waits because it has just started an execution, or goes on waiting
\* for the one it started last.
LEMMA WaitingStep ==
  ASSUME TypeOK, [Next]_vars, NEW r \in Requests, pc'[r] = "waiting"
  PROVE  Connect(r) \/ (pc[r] = "waiting" /\ tries'[r] = tries[r])
<1> DEFINE Goal == Connect(r) \/ (pc[r] = "waiting" /\ tries'[r] = tries[r])
<1> HIDE DEF Goal
<1>1. ASSUME NEW q \in Requests, Local(q) PROVE Goal
  <2>1. PICK place \in Progress : Moves(q, place)
    BY <1>1, LocalStep
  <2>2. UNCHANGED tries
    BY <1>1, LocalStep
  <2> QED BY <2>1, <2>2 DEF Goal, Moves, TypeOK
<1>2. ASSUME NEW q \in Requests, RecordAttempt(q) PROVE Goal
  <2>1. \E place \in {"dispatch", "denied"} : pc' = [pc EXCEPT ![q] = place]
    BY <1>2, Denying DEF RecordAttempt
  <2> QED BY <1>2, <2>1 DEF Goal, RecordAttempt, TypeOK
<1>3. ASSUME NEW q \in Requests, Connect(q) PROVE Goal
  BY <1>3 DEF Goal, Connect, TypeOK
<1>4. ASSUME NEW q \in Requests, ConnectFails(q) PROVE Goal
  <2>1. \E place \in {"net_failed", "reported", "error"} : pc' = [pc EXCEPT ![q] = place]
    BY <1>4, ReportingFailure, ReportingError DEF ConnectFails
  <2>2. tries' = [tries EXCEPT ![q] = @ + 1]
    BY <1>4 DEF ConnectFails
  <2> QED BY <2>1, <2>2 DEF Goal, TypeOK
<1>5. ASSUME NEW q \in Requests, Submit(q) \/ BridgeKilled(q) PROVE Goal
  BY <1>5 DEF Goal, Submit, BridgeKilled, TypeOK
<1>6. ASSUME NEW q \in Requests, NEW k \in Runs, Helper(q, k) PROVE Goal
  BY <1>6 DEF Goal, Helper, HelperCheck, HelperApply, HelperFails
<1>7. ASSUME NEW s \in Flippable, Flip(s) PROVE Goal
  BY <1>7 DEF Goal, Flip
<1>8. CASE UNCHANGED vars
  BY <1>8 DEF Goal, vars
<1> QED
  BY <1>1, <1>2, <1>3, <1>4, <1>5, <1>6, <1>7, <1>8, EachStep DEF Each, Goal

\* Success is reported by Answer alone, of the execution that is waited for.
LEMMA AnswerStep ==
  ASSUME TypeOK, [Next]_vars, NEW r \in Requests, pc'[r] = "ok"
  PROVE  /\ tries'[r] = tries[r]
         /\ pc[r] # "ok" => pc[r] = "waiting" /\ run[r][tries[r]] \in {"applied", "torn"}
<1> DEFINE Goal == /\ tries'[r] = tries[r]
                   /\ pc[r] # "ok" => pc[r] = "waiting" /\ run[r][tries[r]] \in {"applied", "torn"}
<1> HIDE DEF Goal
<1>1. ASSUME NEW q \in Requests, Local(q) PROVE Goal
  <2>1. UNCHANGED tries
    BY <1>1, LocalStep
  <2>2. PICK place \in Progress : pc' = [pc EXCEPT ![q] = place]
    BY <1>1, LocalStep DEF Moves
  <2>3. CASE pc[r] = "ok"
    BY <2>1, <2>3 DEF Goal
  <2>4. CASE pc[r] # "ok"
    <3>1. q = r
      BY <2>2, <2>4 DEF TypeOK
    <3>2. Answer(r)
      BY <1>1, <2>4, <3>1, OnlyAnswer
    <3>3. run[r][tries[r]] \in {"applied", "torn"}
      BY <3>2, ReportingFailure DEF Answer, TypeOK
    <3> QED BY <2>1, <3>2, <3>3 DEF Goal, Answer
  <2> QED BY <2>3, <2>4
<1>2. ASSUME NEW q \in Requests, RecordAttempt(q) PROVE Goal
  <2>1. \E place \in {"dispatch", "denied"} : pc' = [pc EXCEPT ![q] = place]
    BY <1>2, Denying DEF RecordAttempt
  <2> QED BY <1>2, <2>1 DEF Goal, RecordAttempt, TypeOK
<1>3. ASSUME NEW q \in Requests, Connect(q) \/ ConnectFails(q) PROVE Goal
  <2>1. \E place \in {"waiting", "net_failed", "reported", "error"} : pc' = [pc EXCEPT ![q] = place]
    BY <1>3, ConnectStep
  <2>2. tries' = [tries EXCEPT ![q] = @ + 1]
    BY <1>3 DEF Connect, ConnectFails
  <2> QED BY <2>1, <2>2 DEF Goal, TypeOK
<1>4. ASSUME NEW q \in Requests, Submit(q) \/ BridgeKilled(q) PROVE Goal
  BY <1>4 DEF Goal, Submit, BridgeKilled, TypeOK
<1>5. ASSUME NEW q \in Requests, NEW k \in Runs, Helper(q, k) PROVE Goal
  BY <1>5 DEF Goal, Helper, HelperCheck, HelperApply, HelperFails
<1>6. ASSUME NEW s \in Flippable, Flip(s) PROVE Goal
  BY <1>6 DEF Goal, Flip
<1>7. CASE UNCHANGED vars
  BY <1>7 DEF Goal, vars
<1> QED
  BY <1>1, <1>2, <1>3, <1>4, <1>5, <1>6, <1>7, EachStep DEF Each, Goal

\* Nothing has taken effect at first.
LEMMA ContentInit == Init => ContentInv
BY DEF Init, ContentInv, ContentKept, CutUnheard, AnsweredComplete, Effective, Complete,
       Applied, Runs

\* A step that leaves the file system and how effects came out as they are.
SameOutcomes ==
  \A q \in Requests, k \in Runs, state \in {"applied", "torn", "nonzero"} :
    run'[q][k] = state <=> run[q][k] = state

LEMMA ContentFrame ==
  ASSUME ContentKept, UNCHANGED <<call, fs>>, SameOutcomes
  PROVE  ContentKept' /\ \A r \in Requests : Complete(r)' <=> Complete(r)
<1>1. \A q \in Requests, k \in Runs : Applied(q, k)' <=> Applied(q, k)
  BY DEF SameOutcomes, Applied
<1>2. \A q \in Requests : (Effective(q)' <=> Effective(q)) /\ (Complete(q)' <=> Complete(q))
                          /\ (Late(q)' <=> Late(q))
  BY <1>1 DEF Effective, Complete, Late, SameOutcomes, Runs
<1>3. \A q \in Requests : Untouched(q)' <=> Untouched(q)
  BY <1>1 DEF Untouched, Runs
<1> QED
  BY <1>2, <1>3 DEF ContentKept, Writes, Holds, HoldsAll

\* A script leaves the paths that are not its own.
LEMMA OtherPathsStay ==
  ASSUME NEW c \in CallType, NEW f \in [Paths -> Entry], NEW t, NEW p \in Paths \ {c.path, c.dest}
  PROVE  AfterApply(c, f, t)[p] = f[p]
BY DEF AfterApply, CallType

\* What a write or an append puts into its file is in it afterwards.
LEMMA WrittenIsThere ==
  ASSUME NEW c \in CallType, c.tool \in {"write_file", "append_file"},
         NEW f \in [Paths -> Entry], NEW t \in Token
  PROVE  \E i \in DOMAIN AfterApply(c, f, t)[c.path].data : AfterApply(c, f, t)[c.path].data[i] = t
<1>1. c.path \in Paths /\ f[c.path].data \in Seq(Token)
  BY DEF CallType, Entry
<1>2. CASE c.tool = "write_file"
  <2>1. AfterApply(c, f, t)[c.path].data = <<t>>
    BY <1>1, <1>2 DEF AfterApply, File
  <2> QED BY <2>1
<1>3. CASE c.tool = "append_file"
  <2>1. AfterApply(c, f, t)[c.path].data = Append(f[c.path].data, t)
    BY <1>1, <1>3 DEF AfterApply, File
  <2>2. Len(f[c.path].data) + 1 \in DOMAIN Append(f[c.path].data, t)
        /\ Append(f[c.path].data, t)[Len(f[c.path].data) + 1] = t
    BY <1>1
  <2> QED BY <2>1, <2>2
<1> QED
  BY <1>2, <1>3

\* An append leaves what was there before it.
LEMMA AppendKeeps ==
  ASSUME NEW c \in CallType, c.tool = "append_file", NEW f \in [Paths -> Entry], NEW t \in Token,
         NEW i \in DOMAIN f[c.path].data
  PROVE  /\ i \in DOMAIN AfterApply(c, f, t)[c.path].data
         /\ AfterApply(c, f, t)[c.path].data[i] = f[c.path].data[i]
<1>1. c.path \in Paths /\ f[c.path].data \in Seq(Token)
  BY DEF CallType, Entry
<1>2. AfterApply(c, f, t)[c.path].data = Append(f[c.path].data, t)
  BY <1>1 DEF AfterApply, File
<1> QED
  BY <1>1, <1>2

\* An execution takes effect: its own call's content is there, and all of it if
\* nothing cut it short; the content of other calls is left alone.
LEMMA EffectKeepsContent ==
  ASSUME TypeOK, ContentKept, NEW r \in Requests, NEW k \in Runs, HelperApply(r, k)
  PROVE  ContentKept'
<1>1. PICK whole \in BOOLEAN :
        /\ run[r][k] = Poised(r, whole)
        /\ fs' = AfterApply(call[r], fs, [by |-> r, whole |-> whole])
        /\ \E state \in Outcomes(r, k, whole) : run' = [run EXCEPT ![r][k] = state]
  BY DEF HelperApply
<1>2. PICK state \in Outcomes(r, k, whole) : run' = [run EXCEPT ![r][k] = state]
  BY <1>1
<1> DEFINE token == [by |-> r, whole |-> whole]
<1>3. /\ UNCHANGED call
      /\ \A q \in Requests, j \in Runs : q # r \/ j # k => run'[q][j] = run[q][j]
      /\ run'[r][k] = state
  BY <1>2 DEF HelperApply, TypeOK
<1>4. /\ state \in {"applied", "torn", "nonzero"}
      /\ state = "applied" => whole
      /\ call[r].tool = "write_file" /\ ~whole => state = "torn"
  BY <1>2, OutcomeStates
<1>5. ~Applied(r, k)
  BY <1>1 DEF Poised, Applied
<1>6. \A q \in Requests : call[q] \in CallType
  BY PipelineAssumption DEF TypeOK
<1>7. fs \in [Paths -> Entry] /\ token \in Token
  BY DEF TypeOK, Token
<1> SUFFICES ASSUME NEW q \in Requests, Writes(q)', Untouched(q)'
             PROVE  /\ Effective(q)' => Holds(q)'
                    /\ Complete(q)' /\ ~Late(q)' => HoldsAll(q)'
  BY DEF ContentKept
<1>8. Untouched(q)
  <2>1. \A o \in Requests \ {q}, j \in Runs : Applied(o, j) => Applied(o, j)'
    BY <1>3, <1>5 DEF Applied
  <2>2. Runs' = Runs
    BY DEF Runs
  <2> QED BY <1>3, <2>1, <2>2 DEF Untouched
<1>9. Writes(q) /\ call'[q] = call[q]
  BY <1>3 DEF Writes
<1>10. CASE q = r
  <2>1. PICK i \in DOMAIN fs'[call[r].path].data : fs'[call[r].path].data[i] = token
    BY <1>1, <1>6, <1>7, <1>9, <1>10, WrittenIsThere DEF Writes
  <2>2. Holds(r)'
    BY <1>9, <1>10, <2>1 DEF Holds
  <2>3. ASSUME Complete(r)', ~Late(r)' PROVE HoldsAll(r)'
    <3>1. CASE whole
      BY <1>9, <1>10, <2>1, <3>1 DEF HoldsAll
    <3>2. CASE ~whole
      <4>1. call[r].tool = "append_file"
        <5>1. run'[r][k] = "torn" => call[r].tool # "write_file"
          BY <1>9, <1>10, <2>3 DEF Late, Runs
        <5> QED BY <1>3, <1>4, <1>9, <1>10, <3>2, <5>1 DEF Writes
      <4>2. Complete(r)
        <5>1. PICK j \in Runs : run'[r][j] = "applied"
          BY <2>3 DEF Complete, Runs
        <5>2. j # k
          BY <1>3, <1>4, <3>2, <5>1
        <5> QED BY <1>3, <5>1, <5>2 DEF Complete
      <4>3. HoldsAll(r)
        BY <1>8, <1>9, <1>10, <4>1, <4>2 DEF ContentKept, Late
      <4>4. PICK m \in DOMAIN fs[call[r].path].data :
               fs[call[r].path].data[m].by = r /\ fs[call[r].path].data[m].whole
        BY <4>3 DEF HoldsAll
      <4>5. /\ m \in DOMAIN fs'[call[r].path].data
            /\ fs'[call[r].path].data[m] = fs[call[r].path].data[m]
        BY <1>1, <1>6, <1>7, <4>1, AppendKeeps
      <4> QED BY <1>9, <1>10, <4>4, <4>5 DEF HoldsAll
    <3> QED BY <3>1, <3>2
  <2> QED BY <1>10, <2>2, <2>3
<1>11. CASE q # r
  <2>1. Applied(r, k)'
    BY <1>3, <1>4 DEF Applied
  <2>2. call[q].path \notin {call[r].path, call[r].dest}
    BY <1>3, <1>11, <2>1 DEF Untouched, Runs
  <2>3. fs'[call[q].path] = fs[call[q].path]
    BY <1>1, <1>6, <1>7, <2>2, OtherPathsStay DEF CallType
  <2>4. /\ Effective(q)' => Effective(q)
        /\ Complete(q)' => Complete(q)
        /\ Late(q) => Late(q)'
    BY <1>3, <1>11 DEF Effective, Complete, Late, Applied, Runs
  <2> QED BY <1>8, <1>9, <2>3, <2>4 DEF ContentKept, Holds, HoldsAll
<1> QED
  BY <1>10, <1>11

\* Every step keeps the content of what took effect.
LEMMA ContentKeptStep == TypeOK /\ AuditInv /\ ContentKept /\ [Next]_vars => ContentKept'
<1> SUFFICES ASSUME TypeOK, AuditInv, ContentKept, [Next]_vars PROVE ContentKept'
  OBVIOUS
<1>1. ASSUME NEW r \in Requests, NEW k \in Runs, HelperApply(r, k) PROVE ContentKept'
  BY <1>1, EffectKeepsContent
<1>2. CASE \A r \in Requests, k \in Runs : ~HelperApply(r, k)
  <2>1. UNCHANGED fs
    BY <1>2 DEF Next, Gateway, Helper, vars, Flip, Submit, CheckSwitch, NextStage, Probe,
       RecordAttempt, Connect, ConnectFails, Answer, Misread, TimeOut, Disconnect, Retry,
       NoRetry, BridgeKilled, HelperCheck, HelperFails
  <2>2. SameOutcomes
    <3> SUFFICES ASSUME NEW q \in Requests, NEW k \in Runs, run'[q][k] # run[q][k]
                 PROVE  /\ run[q][k] \notin {"applied", "torn", "nonzero"}
                        /\ run'[q][k] \notin {"applied", "torn", "nonzero"}
      BY DEF SameOutcomes
    <3>1. CASE Helper(q, k)
      <4>1. HelperCheck(q, k) \/ HelperFails(q, k)
        BY <1>2, <3>1 DEF Helper
      <4>2. /\ run[q][k] \in {"running", "checked", "checked_torn"}
            /\ run'[q][k] \in {"checked", "checked_torn", "refused", "failed"}
        BY <4>1 DEF HelperCheck, HelperFails, TypeOK
      <4> QED BY <4>2
    <3> QED BY <3>1, RunsStep
  <2> QED BY <2>1, <2>2, CallUnchanged, ContentFrame
<1> QED
  BY <1>1, <1>2

\* Whoever is not heard stays unheard: a helper is attached only to the
\* execution that its call started last and still waits for.
LEMMA CutUnheardStep == TypeOK /\ AuditInv /\ CutUnheard /\ [Next]_vars => CutUnheard'
<1> SUFFICES ASSUME TypeOK, AuditInv, CutUnheard, [Next]_vars,
                    NEW r \in Requests, NEW k \in Runs,
                    run'[r][k] \in {"checked_torn", "torn"}, Writes(r)', Attached(r, k)'
             PROVE  FALSE
  <2> Runs' = Runs
    BY DEF Runs
  <2> QED BY DEF CutUnheard
<1>1. UNCHANGED call /\ Writes(r)
  BY CallUnchanged DEF Writes
<1>2. CASE Attached(r, k)
  <2>1. run[r][k] \notin {"checked_torn", "torn"}
    BY <1>1, <1>2 DEF CutUnheard
  <2>2. Helper(r, k)
    BY <2>1, RunsStep
  <2>4. CASE HelperCheck(r, k)
    <3>1. PICK state \in {"checked", "checked_torn", "refused"} :
            (state = "checked_torn" => ~Attached(r, k)) /\ run' = [run EXCEPT ![r][k] = state]
      BY <2>4 DEF HelperCheck
    <3> QED BY <1>2, <3>1 DEF TypeOK
  <2>5. CASE HelperApply(r, k)
    <3>0. PICK whole \in BOOLEAN :
            /\ run[r][k] = Poised(r, whole)
            /\ \E state \in Outcomes(r, k, whole) : run' = [run EXCEPT ![r][k] = state]
      BY <2>5 DEF HelperApply
    <3>1. PICK state \in Outcomes(r, k, whole) : run' = [run EXCEPT ![r][k] = state]
      BY <3>0
    <3>2. run'[r][k] = state
      BY <3>1 DEF TypeOK
    <3>3. state = "torn" /\ ~whole
      BY <3>1, <3>2, OutcomeStates
    <3>4. call[r].tool = "append_file"
      BY <1>1, <2>1, <3>0, <3>3 DEF Poised, Writes
    <3> QED BY <1>2, <3>3, <3>4, OutcomeStates
  <2>6. CASE HelperFails(r, k)
    BY <2>6 DEF HelperFails, TypeOK
  <2> QED BY <2>2, <2>4, <2>5, <2>6 DEF Helper
<1>3. CASE ~Attached(r, k)
  <2>1. Connect(r)
    BY <1>3, WaitingStep DEF Attached
  <2>2. k = tries[r] + 1
    BY <2>1 DEF Connect, Attached, TypeOK
  <2> QED BY <2>1, <2>2 DEF Connect, TypeOK
<1> QED
  BY <1>2, <1>3

\* An acknowledgement is the answer of the execution that was waited for, and
\* what has come to its end stays as it is.
LEMMA AnsweredStep ==
  TypeOK /\ AuditInv /\ CutUnheard /\ AnsweredComplete /\ [Next]_vars => AnsweredComplete'
<1> SUFFICES ASSUME TypeOK, AuditInv, CutUnheard, AnsweredComplete, [Next]_vars,
                    NEW r \in Requests, pc'[r] = "ok", Writes(r)'
             PROVE  tries'[r] \in Runs /\ run'[r][tries'[r]] = "applied"
  BY DEF AnsweredComplete, Runs
<1>1. UNCHANGED call /\ Writes(r)
  BY CallUnchanged DEF Writes
<1>2. \A k \in Runs : run[r][k] = "applied" => run'[r][k] = "applied"
  <2>1. \A k \in Runs : Helper(r, k) => run[r][k] # "applied"
    BY DEF Helper, HelperCheck, HelperApply, Poised, HelperFails
  <2> QED BY <2>1, RunsStep
<1>3. tries'[r] = tries[r]
  BY AnswerStep
<1>4. tries[r] \in Runs /\ run[r][tries[r]] = "applied"
  <2>1. CASE pc[r] = "ok"
    BY <1>1, <2>1 DEF AnsweredComplete
  <2>2. CASE pc[r] # "ok"
    <3>1. pc[r] = "waiting" /\ run[r][tries[r]] \in {"applied", "torn"}
      BY <2>2, AnswerStep
    <3>2. tries[r] \in Runs
      BY <3>1 DEF AuditInv, Started, TypeOK, Runs
    <3> QED BY <1>1, <3>1, <3>2 DEF CutUnheard, Attached
  <2> QED BY <2>1, <2>2
<1> QED
  BY <1>2, <1>3, <1>4

LEMMA ContentStep == TypeOK /\ AuditInv /\ ContentInv /\ [Next]_vars => ContentInv'
BY ContentKeptStep, CutUnheardStep, AnsweredStep DEF ContentInv

\* What was acknowledged is in its file, and is all there, until another request
\* takes effect there: only a write's own earlier execution that was cut short
\* may take a part of it away.
THEOREM AcknowledgedWritesStay == Spec => []AcknowledgedContentStays
<1>1. TypeOK /\ AuditInv /\ ContentInv => AcknowledgedContentStays
  <2> SUFFICES ASSUME TypeOK, AuditInv, ContentInv,
                      NEW r \in Requests, pc[r] = "ok", Writes(r), Untouched(r)
               PROVE  \E i \in DOMAIN fs[call[r].path].data :
                        /\ fs[call[r].path].data[i].by = r
                        /\ fs[call[r].path].data[i].whole \/ CutShort(r)
    BY DEF AcknowledgedContentStays, Writes, Untouched
  <2>1. Complete(r)
    BY DEF ContentInv, AnsweredComplete, Complete
  <2>2. Holds(r)
    <3>1. Effective(r)
      BY <2>1 DEF Complete, Effective, Applied
    <3> QED BY <3>1 DEF ContentInv, ContentKept
  <2>3. CASE ~Late(r)
    BY <2>1, <2>3 DEF ContentInv, ContentKept, HoldsAll
  <2>4. CASE Late(r)
    <3>1. PICK k \in Runs : run[r][k] = "torn"
      BY <2>4 DEF Late
    <3>2. k < tries[r]
      <4>1. k <= tries[r] /\ k # tries[r]
        BY <3>1 DEF AuditInv, RunsStarted, ContentInv, AnsweredComplete
      <4> QED BY <4>1 DEF TypeOK, Runs
    <3> QED BY <2>2, <2>4, <3>1, <3>2 DEF Holds, CutShort, Late
  <2> QED BY <2>3, <2>4
<1> QED
  BY <1>1, TypeCorrect, AuditInvInit, AuditInvStep, ContentInit, ContentStep, PTL DEF Spec
=============================================================================
