-------------------------- MODULE MutationPipeline --------------------------
(***************************************************************************)
(* The path of an operation that changes something on a Target:            *)
(*                                                                         *)
(*   bridge.invoke_tool -> GatewayTools.<tool> -> SSHTransport.run_command *)
(*     -> a python helper (or a command) that runs on the Target           *)
(*                                                                         *)
(* Each call of a tool is a process of its own: the Go adapter starts one  *)
(* bridge process per call and the Admin console another thread of control.*)
(* They share the Registry (switches, grants, audit) and the file system   *)
(* of the Target, and nothing orders one call's reads and remote commands  *)
(* with another's.  A helper outlives the ssh client that started it.      *)
(***************************************************************************)
EXTENDS Naturals, Sequences

CONSTANTS
  Requests,     \* calls of tools, each made once
  Paths,        \* the paths of one project's root on one Target
  Calls,        \* the calls clients make (a subset of CallType)
  Settings,     \* the settings of the switches the gateway may start with
  Flippable,    \* the switches the administrator flips
  MaxRuns,      \* bound: executions of one remote command
  RegistryFaults \* whether a read of the Registry or an audit event can fail

WriteTools ==
  {"write_file", "append_file", "delete_file", "copy_file", "move_file", "mkdir"}
ExecTools == {"run_task", "run_command"}

(***************************************************************************)
(* grant: the client is enabled and a grant of it covers the tool and the  *)
(* scope; scope: Target and Project are configured and enabled; gateway,   *)
(* writes and shell: the three kill switches; project_write: the project's *)
(* own permission.                                                         *)
(***************************************************************************)
Switches == {"grant", "gateway", "shell", "scope", "writes", "project_write"}

CallType ==
  [ tool  : WriteTools \cup ExecTools,
    local : BOOLEAN,          \* "local", "admin", "system", "test": no client checks
    path  : Paths,
    dest  : Paths,            \* of copy_file and move_file
    mode  : {"create", "overwrite", "unhashed", "preview", "parents", "single"} ]

ASSUME PipelineAssumption ==
  /\ Calls \subseteq CallType
  /\ Settings \subseteq [Switches -> BOOLEAN]
  /\ Flippable \subseteq Switches
  /\ MaxRuns \in Nat \ {0, 1}
  /\ RegistryFaults \in BOOLEAN

Runs == 1 .. MaxRuns

\* What one request wrote into a file; not whole if its standard input was cut
\* or it failed half-way.
Token == [by : Requests, whole : BOOLEAN]
Entry == [kind : {"absent", "dir", "file"}, data : Seq(Token)]

Absent == [kind |-> "absent", data |-> <<>>]
Dir == [kind |-> "dir", data |-> <<>>]
File(d) == [kind |-> "file", data |-> d]

Stages == {"bridge", "kill", "core", "tool"}
Terminal == {"ok", "reported", "error", "denied", "previewed", "killed"}
Progress ==
  Stages \cup Terminal \cup
    {"idle", "probe", "attempt", "dispatch", "waiting", "timed_out", "net_failed"}
RunStates ==
  {"none", "unsent", "running", "checked", "checked_torn",
   "applied", "torn", "nonzero", "refused", "failed"}
EventKinds == {"ATTEMPT", "RESULT", "REFUSAL", "DRY_RUN"}

VARIABLES
  on,      \* on[s]: the Registry's switches
  call,    \* call[r]: the arguments of the call
  pc,      \* pc[r]: how far the gateway got with it, then what it answered
  pos,     \* pos[r]: the next check of the current stage
  seen,    \* history: seen[r], the switches that were on at some time since r came in
  base,    \* base[r]: the content the client read before it made the call
  audit,   \* the audit record: <<request, kind>>
  fs,      \* fs[p]: the Target's file system under the project's root
  tries,   \* tries[r]: the executions started
  run      \* run[r][k]: the k-th execution of r's remote command

reqVars == <<call, base>>
vars == <<on, call, pc, pos, seen, base, audit, fs, tries, run>>

\* An execution took effect: as asked, on an input that was cut short, or with
\* an error after some or all of its effect.
Applied(r, k) == run[r][k] \in {"applied", "torn", "nonzero"}
Attempted(r) == <<r, "ATTEMPT">> \in audit
Active(r) == pc[r] \notin Terminal \cup {"idle"}

-----------------------------------------------------------------------------
(* The checks, each a read of the Registry of its own.                     *)

\* The reads of policy.authorize_client, in its order.
Authorize(c) ==
  IF c.local THEN <<>>
  ELSE IF c.tool \in WriteTools
       THEN <<"grant", "gateway", "scope", "writes", "project_write">>
  ELSE IF c.tool = "run_command"
       THEN <<"grant", "gateway", "shell", "scope">>
  ELSE <<"grant", "gateway", "scope">>

\* Mutant: the tool no longer reads the writes switch itself.
ChecksLeftToBridge(c, stage) ==
  CASE stage = "bridge" -> Authorize(c)
    [] stage = "kill"   -> <<"scope", "gateway">>
    [] stage = "core"   -> Authorize(c)
    [] stage = "tool"   -> <<"scope">>

\* The bridge authorizes, _check_gateway_enabled reads the kill switch and
\* authorizes again, and the tool reads its own switch and its scope.
Checks(c, stage) ==
  CASE stage = "bridge" -> Authorize(c)
    [] stage = "kill"   -> IF c.tool = "run_command" THEN <<"scope", "gateway">>
                                                     ELSE <<"gateway">>
    [] stage = "core"   -> Authorize(c)
    [] stage = "tool"   -> IF c.tool \in WriteTools
                           THEN <<"writes", "scope", "project_write">>
                           ELSE <<"scope">>

After(stage) ==
  CASE stage = "bridge" -> "kill"
    [] stage = "kill"   -> "core"
    [] stage = "core"   -> "tool"
    [] stage = "tool"   -> "probe"

\* What has to be on for the operation to be permitted.
Needed(c) ==
  {"gateway", "scope"}
    \cup (IF c.local THEN {} ELSE {"grant"})
    \cup (IF c.tool \in WriteTools THEN {"writes", "project_write"} ELSE {})
    \cup (IF c.tool = "run_command" /\ ~c.local THEN {"shell"} ELSE {})

-----------------------------------------------------------------------------
(* Audit events.  Only the ATTEMPT is required: the others are best effort *)
(* and some tools do not write them at all.                                *)

Record(r, kind) == audit' = audit \cup {<<r, kind>>}
TryRecord(r, kind) == Record(r, kind) \/ (RegistryFaults /\ UNCHANGED audit)

\* The denials a tool writes to the audit record.
AuditsDenial(r) ==
  \/ call[r].tool = "write_file" /\ pc[r] # "bridge"
  \/ /\ call[r].tool = "run_command"
     /\ pc[r] \in {"tool", "probe", "attempt"} \/ (pc[r] = "kill" /\ pos[r] = 1)

Deny(r) ==
  /\ pc' = [pc EXCEPT ![r] = "denied"]
  /\ IF AuditsDenial(r) THEN TryRecord(r, "REFUSAL") ELSE UNCHANGED audit

\* The tool returns success or an exit code: every tool records its result.
Report(r, answer) ==
  /\ pc' = [pc EXCEPT ![r] = answer]
  /\ TryRecord(r, "RESULT")

\* The tool returns an error after its attempt (audit action DENY or ERROR).
ReportError(r) ==
  /\ pc' = [pc EXCEPT ![r] = "error"]
  /\ IF call[r].tool \in {"write_file", "run_command"}
     THEN TryRecord(r, "REFUSAL") ELSE UNCHANGED audit

\* A remote command that ended badly: the execution tools pass its exit code
\* on as a result, the file tools turn it into an error.
ReportFailure(r) ==
  IF call[r].tool \in ExecTools THEN Report(r, "reported") ELSE ReportError(r)
-----------------------------------------------------------------------------
(* The file system: what each helper script does to it.                    *)

\* What the tools require of the path, by probe_remote_path.
Precondition(c, f, expected) ==
  CASE c.tool = "write_file" ->
         IF c.mode = "create" THEN f[c.path].kind = "absent"
         ELSE c.mode # "unhashed" /\ f[c.path] = File(expected)
    [] c.tool = "append_file" -> f[c.path].kind = "file"
    [] c.tool \in {"delete_file", "copy_file", "move_file"} -> f[c.path].kind # "absent"
    [] OTHER -> TRUE

\* Whether the script's system calls can succeed on file system f.
CanApply(c, f) ==
  CASE c.tool \in {"write_file", "append_file"} -> f[c.path].kind # "dir"
    [] c.tool = "delete_file" -> f[c.path].kind # "absent"
    [] c.tool = "copy_file" -> f[c.path].kind = "file" /\ c.path # c.dest
    [] c.tool = "move_file" ->
         /\ f[c.path].kind # "absent"
         /\ f[c.path].kind = "dir" => f[c.dest].kind # "file"
    [] c.tool = "mkdir" ->
         f[c.path].kind = "absent" \/ (f[c.path].kind = "dir" /\ c.mode = "parents")
    [] OTHER -> TRUE

\* What it leaves.  A copy or a move onto a directory goes inside it, where no
\* path of the model is; a command's own effects are outside the model too.  A
\* copy that fails half-way has truncated its destination and left some part.
AfterApply(c, f, token) ==
  CASE c.tool = "write_file" -> [f EXCEPT ![c.path] = File(<<token>>)]
    [] c.tool = "append_file" ->
         [f EXCEPT ![c.path] = File(Append(f[c.path].data, token))]
    [] c.tool = "delete_file" -> [f EXCEPT ![c.path] = Absent]
    [] c.tool = "copy_file" ->
         IF f[c.dest].kind = "dir" THEN f
         ELSE [f EXCEPT ![c.dest] = IF token.whole THEN f[c.path] ELSE File(<<token>>)]
    [] c.tool = "move_file" ->
         IF c.path = c.dest THEN f
         ELSE IF f[c.dest].kind = "dir" THEN [f EXCEPT ![c.path] = Absent]
         ELSE [f EXCEPT ![c.dest] = f[c.path], ![c.path] = Absent]
    [] c.tool = "mkdir" -> [f EXCEPT ![c.path] = Dir]
    [] OTHER -> f

-----------------------------------------------------------------------------
Init ==
  /\ on \in Settings
  /\ call \in [Requests -> Calls]
  /\ pc = [r \in Requests |-> "idle"]
  /\ pos = [r \in Requests |-> 1]
  /\ seen = [r \in Requests |-> {}]
  /\ base = [r \in Requests |-> <<>>]
  /\ audit = {}
  /\ fs \in [Paths -> {Absent, Dir, File(<<>>)}]
  /\ tries = [r \in Requests |-> 0]
  /\ run = [r \in Requests |-> [k \in Runs |-> "none"]]

\* The client has read the file (its hash is the expected_sha256) and calls.
Submit(r) ==
  /\ pc[r] = "idle"
  /\ pc' = [pc EXCEPT ![r] = "bridge"]
  /\ seen' = [seen EXCEPT ![r] = {s \in Switches : on[s]}]
  /\ base' = [base EXCEPT ![r] = fs[call[r].path].data]
  /\ UNCHANGED <<on, call, pos, audit, fs, tries, run>>

\* An administrator flips a switch, from the Admin console or the CLI.
Flip(s) ==
  /\ on' = [on EXCEPT ![s] = ~@]
  /\ seen' = [r \in Requests |->
                IF Active(r) /\ ~on[s] THEN seen[r] \cup {s} ELSE seen[r]]
  /\ UNCHANGED <<call, pc, pos, base, audit, fs, tries, run>>

\* authorize_client passes over an exception of its last read, that of the
\* project's own permission: the Registry fails, or the Target or the Project
\* was disabled since they were checked.
PassedOver(r) ==
  /\ pc[r] \in {"bridge", "core"}
  /\ Checks(call[r], pc[r])[pos[r]] = "project_write"
  /\ RegistryFaults \/ ~on["scope"]

CheckSwitch(r) ==
  /\ pc[r] \in Stages
  /\ pos[r] <= Len(Checks(call[r], pc[r]))
  /\ \/ /\ on[Checks(call[r], pc[r])[pos[r]]] \/ PassedOver(r)
        /\ pos' = [pos EXCEPT ![r] = @ + 1] /\ UNCHANGED <<pc, audit>>
     \/ /\ ~on[Checks(call[r], pc[r])[pos[r]]] \/ RegistryFaults
        /\ Deny(r) /\ UNCHANGED pos
  /\ UNCHANGED <<on, call, seen, base, fs, tries, run>>

\* Mutant: off by one in the position of the next check.
NextStageFromZero(r) ==
  /\ pc[r] \in Stages
  /\ pos[r] > Len(Checks(call[r], pc[r]))
  /\ pc' = [pc EXCEPT ![r] = After(pc[r])]
  /\ pos' = [pos EXCEPT ![r] = 0]
  /\ UNCHANGED <<on, call, seen, base, audit, fs, tries, run>>

NextStage(r) ==
  /\ pc[r] \in Stages
  /\ pos[r] > Len(Checks(call[r], pc[r]))
  /\ pc' = [pc EXCEPT ![r] = After(pc[r])]
  /\ pos' = [pos EXCEPT ![r] = 1]
  /\ UNCHANGED <<on, call, seen, base, audit, fs, tries, run>>

\* Canonical root, safe destination, probe and preconditions, all read-only;
\* a dry run of write_file ends here.  An ssh failure of the probe denies.
Probe(r) ==
  /\ pc[r] = "probe"
  /\ \/ /\ Precondition(call[r], fs, base[r])
        /\ IF call[r].tool = "write_file" /\ call[r].mode = "preview"
           THEN pc' = [pc EXCEPT ![r] = "previewed"] /\ TryRecord(r, "DRY_RUN")
           ELSE pc' = [pc EXCEPT ![r] = "attempt"] /\ UNCHANGED audit
     \/ Deny(r)
  /\ UNCHANGED <<on, call, pos, seen, base, fs, tries, run>>

\* Mutant: the attempt is recorded like any other event, as well as can be.
RecordAttemptIfPossible(r) ==
  /\ pc[r] = "attempt"
  /\ TryRecord(r, "ATTEMPT")
  /\ pc' = [pc EXCEPT ![r] = "dispatch"]
  /\ UNCHANGED <<on, call, pos, seen, base, fs, tries, run>>

\* The required audit event; without it the tool answers AUDIT_UNAVAILABLE.
RecordAttempt(r) ==
  /\ pc[r] = "attempt"
  /\ \/ Record(r, "ATTEMPT") /\ pc' = [pc EXCEPT ![r] = "dispatch"]
     \/ RegistryFaults /\ Deny(r)
  /\ UNCHANGED <<on, call, pos, seen, base, fs, tries, run>>

-----------------------------------------------------------------------------
(* SSHTransport.run_command                                                *)

\* ssh reaches the Target and the remote command starts.
Connect(r) ==
  /\ pc[r] = "dispatch"
  /\ tries[r] < MaxRuns
  /\ tries' = [tries EXCEPT ![r] = @ + 1]
  /\ run' = [run EXCEPT ![r][tries[r] + 1] = "running"]
  /\ pc' = [pc EXCEPT ![r] = "waiting"]
  /\ UNCHANGED <<on, call, pos, seen, base, audit, fs>>

\* ssh fails before anything ran: the network, the host key, the login, or
\* the ssh binary itself.
ConnectFails(r) ==
  /\ pc[r] = "dispatch"
  /\ tries[r] < MaxRuns
  /\ tries' = [tries EXCEPT ![r] = @ + 1]
  /\ run' = [run EXCEPT ![r][tries[r] + 1] = "unsent"]
  /\ \/ pc' = [pc EXCEPT ![r] = "net_failed"] /\ UNCHANGED audit
     \/ ReportFailure(r)
     \/ ReportError(r)
  /\ UNCHANGED <<on, call, pos, seen, base, fs>>

\* Mutant: the answer of a file tool is a success whatever the exit status.
AnswerUnread(r) ==
  /\ pc[r] = "waiting"
  /\ run[r][tries[r]] # "running"
  /\ Report(r, IF call[r].tool \in WriteTools THEN "ok" ELSE "reported")
  /\ UNCHANGED <<on, call, pos, seen, base, fs, tries, run>>

\* The helper's exit status and output arrive.
Answer(r) ==
  /\ pc[r] = "waiting"
  /\ LET state == run[r][tries[r]]
     IN \/ /\ state \in {"applied", "torn"}
           /\ Report(r, IF call[r].tool \in WriteTools THEN "ok" ELSE "reported")
        \/ state \in {"refused", "failed", "nonzero"} /\ ReportFailure(r)
  /\ UNCHANGED <<on, call, pos, seen, base, fs, tries, run>>

\* A command or a script that failed by itself, and whose own error output
\* reads like an ssh network error to classify_ssh_transport_failure.
Misread(r) ==
  /\ pc[r] = "waiting"
  /\ run[r][tries[r]] \in {"nonzero", "failed"}
  /\ pc' = [pc EXCEPT ![r] = "net_failed"]
  /\ UNCHANGED <<on, call, pos, seen, base, audit, fs, tries, run>>

\* Mutant: subprocess.run without a timeout.
TimeOutNever(r) == FALSE /\ pc[r] = "waiting" /\ UNCHANGED vars

\* subprocess.run kills the ssh client at the timeout.
TimeOut(r) ==
  /\ pc[r] = "waiting"
  /\ pc' = [pc EXCEPT ![r] = "timed_out"]
  /\ UNCHANGED <<on, call, pos, seen, base, audit, fs, tries, run>>

\* The connection breaks while the command runs, with an error that either
\* counts as a network failure or does not.
Disconnect(r) ==
  /\ pc[r] = "waiting"
  /\ \/ pc' = [pc EXCEPT ![r] = "net_failed"] /\ UNCHANGED audit
     \/ ReportFailure(r)
  /\ UNCHANGED <<on, call, pos, seen, base, fs, tries, run>>

\* Mutant: the retry may be retried.
RetryAgain(r) ==
  /\ pc[r] \in {"timed_out", "net_failed"}
  /\ pc' = [pc EXCEPT ![r] = "dispatch"]
  /\ UNCHANGED <<on, call, pos, seen, base, audit, fs, tries, run>>

\* Discovery finds the pinned key and the command is run once more.
Retry(r) ==
  /\ pc[r] \in {"timed_out", "net_failed"}
  /\ tries[r] = 1
  /\ pc' = [pc EXCEPT ![r] = "dispatch"]
  /\ UNCHANGED <<on, call, pos, seen, base, audit, fs, tries, run>>

\* Discovery finds nothing, this was the retry, or the Registry fails to take
\* the endpoint that was found.
NoRetry(r) ==
  /\ \/ pc[r] = "net_failed" /\ ReportFailure(r)
     \/ /\ pc[r] = "timed_out"
        /\ IF call[r].tool = "run_command" THEN Report(r, "reported") ELSE ReportError(r)
     \/ /\ RegistryFaults
        /\ pc[r] \in {"timed_out", "net_failed"} /\ tries[r] = 1
        /\ ReportError(r)
  /\ UNCHANGED <<on, call, pos, seen, base, fs, tries, run>>

\* The adapter's deadline kills the bridge process, whatever it is doing.
BridgeKilled(r) ==
  /\ Active(r)
  /\ pc' = [pc EXCEPT ![r] = "killed"]
  /\ UNCHANGED <<on, call, pos, seen, base, audit, fs, tries, run>>

-----------------------------------------------------------------------------
(* The k-th execution of r's command on the Target.                        *)

\* The ssh client that feeds this execution is still there.
Attached(r, k) == pc[r] = "waiting" /\ tries[r] = k

\* Mutant: the helper takes what one read of its pipe gives for its input.
HelperCheckOfFirstRead(r, k) ==
  /\ run[r][k] = "running"
  /\ call[r].tool = "write_file"
  /\ \E state \in {"checked", "checked_torn", "refused"} :
       /\ state = "refused" <=> ~Precondition(call[r], fs, base[r])
       /\ run' = [run EXCEPT ![r][k] = state]
  /\ UNCHANGED <<on, call, pc, pos, seen, base, audit, fs, tries>>

\* write_file's helper has read its input (cut short, if its ssh client is
\* gone) and checks the preconditions again on the spot.
HelperCheck(r, k) ==
  /\ run[r][k] = "running"
  /\ call[r].tool = "write_file"
  /\ \E state \in {"checked", "checked_torn", "refused"} :
       /\ state = "refused" <=> ~Precondition(call[r], fs, base[r])
       /\ state = "checked_torn" => ~Attached(r, k)
       /\ run' = [run EXCEPT ![r][k] = state]
  /\ UNCHANGED <<on, call, pc, pos, seen, base, audit, fs, tries>>

\* Where a script is before its effect: only write_file's has read its input.
Poised(r, whole) ==
  IF call[r].tool # "write_file" THEN "running"
  ELSE IF whole THEN "checked" ELSE "checked_torn"

\* How the effect may turn out.  Any process may exit with an error or die after
\* it; an append or a copy may fail half-way, with a part of the content there;
\* write_file's and append_file's do not notice that their input was cut.
Outcomes(r, k, whole) ==
  CASE whole -> {"applied", "nonzero"}
    [] ~whole /\ call[r].tool = "write_file" -> {"torn"}
    [] ~whole /\ call[r].tool = "append_file" ->
         IF Attached(r, k) THEN {"nonzero"} ELSE {"torn", "nonzero"}
    [] ~whole /\ call[r].tool = "copy_file" -> {"nonzero"}
    [] OTHER -> {}

\* The effect: os.replace for write_file, the one-line script for the others.
HelperApply(r, k) ==
  /\ CanApply(call[r], fs)
  /\ \E whole \in BOOLEAN :
       /\ run[r][k] = Poised(r, whole)
       /\ fs' = AfterApply(call[r], fs, [by |-> r, whole |-> whole])
       /\ \E state \in Outcomes(r, k, whole) : run' = [run EXCEPT ![r][k] = state]
  /\ UNCHANGED <<on, call, pc, pos, seen, base, audit, tries>>

\* A system call fails or the process dies before the effect.
HelperFails(r, k) ==
  /\ run[r][k] \in {"running", "checked", "checked_torn"}
  /\ run' = [run EXCEPT ![r][k] = "failed"]
  /\ UNCHANGED <<on, call, pc, pos, seen, base, audit, fs, tries>>

-----------------------------------------------------------------------------
Gateway(r) ==
  \/ CheckSwitch(r) \/ NextStage(r) \/ Probe(r) \/ RecordAttempt(r)
  \/ Connect(r) \/ ConnectFails(r) \/ Answer(r) \/ Misread(r)
  \/ TimeOut(r) \/ Retry(r) \/ NoRetry(r)

Helper(r, k) == HelperCheck(r, k) \/ HelperApply(r, k) \/ HelperFails(r, k)

Next ==
  \/ \E s \in Flippable : Flip(s)
  \/ \E r \in Requests : Submit(r) \/ Gateway(r) \/ Disconnect(r) \/ BridgeKilled(r)
  \/ \E r \in Requests, k \in Runs : Helper(r, k)

(***************************************************************************)
(* The gateway's own steps are one thread that blocks only in ssh, and ssh *)
(* runs under subprocess.run's timeout.  Nothing is assumed of clients, of *)
(* administrators, of the network or of the Target.                        *)
(***************************************************************************)
Fairness == \A r \in Requests : WF_vars(Gateway(r))

Spec == Init /\ [][Next]_vars /\ Fairness

-----------------------------------------------------------------------------
TypeOK ==
  /\ on \in [Switches -> BOOLEAN]
  /\ call \in [Requests -> Calls]
  /\ pc \in [Requests -> Progress]
  /\ pos \in [Requests -> Nat \ {0}]
  /\ seen \in [Requests -> SUBSET Switches]
  /\ base \in [Requests -> Seq(Token)]
  /\ audit \in SUBSET (Requests \X EventKinds)
  /\ fs \in [Paths -> Entry]
  /\ tries \in [Requests -> 0 .. MaxRuns]
  /\ run \in [Requests -> [Runs -> RunStates]]

\* security.md: critical mutations require the audit sink before execution.
\* Whatever fails, is retried or outlives its caller, no execution of a
\* mutating tool exists on a Target without its ATTEMPT on the record.
AttemptBeforeExecution ==
  \A r \in Requests : (\E k \in Runs : run[r][k] # "none") => Attempted(r)

\* A switch that was off for the whole life of a request stops it, whichever
\* client makes it and however the administrator's flips fall between the
\* gateway's separate reads: a request has an execution only if each switch
\* it needs was on at some time since it came in.
PermittedSinceSubmission ==
  \A r \in Requests :
    (\E k \in Runs : run[r][k] # "none") => Needed(call[r]) \subseteq seen[r]

\* _attempt_discovery_and_retry runs the command "EXACTLY ONCE" more, also when
\* the retry times out or its output reads like a network failure again.
RetriedOnce == \A r \in Requests : tries[r] <= 2

\* An earlier execution of the write, given up for lost, took effect on the
\* prefix it had read.
CutShort(r) ==
  /\ call[r].tool = "write_file"
  /\ \E k \in Runs : k < tries[r] /\ run[r][k] = "torn"

\* A write or an append that was acknowledged is in its file and is all there,
\* whichever of its executions did it and whatever an earlier one still does,
\* until another request takes effect on that path.  The exception is what the
\* code allows: write_file's own first execution, cut short when its ssh client
\* was killed, may leave a prefix beside or after the retry that is answered.
AcknowledgedContentStays ==
  \A r \in Requests :
    /\ pc[r] = "ok"
    /\ call[r].tool \in {"write_file", "append_file"}
    /\ \A q \in Requests \ {r}, k \in Runs :
         Applied(q, k) => call[r].path \notin {call[q].path, call[q].dest}
    => \E i \in DOMAIN fs[call[r].path].data :
         LET token == fs[call[r].path].data[i]
         IN token.by = r /\ (token.whole \/ CutShort(r))

\* Every call is answered: no ssh hang, lost connection or failed discovery
\* leaves a tool waiting for ever.
EveryCallIsAnswered ==
  \A r \in Requests : pc[r] = "bridge" ~> pc[r] \in Terminal

-----------------------------------------------------------------------------
(* The pipeline keeps the promise of AuditedEffects.                       *)

Phase(r) ==
  CASE pc[r] \in {"denied", "previewed"} -> "refused"
    [] pc[r] = "killed" -> IF Attempted(r) THEN "indeterminate" ELSE "refused"
    [] pc[r] = "ok" -> "acknowledged"
    [] pc[r] \in {"error", "reported"} -> "indeterminate"
    [] OTHER -> "open"

Promise == INSTANCE AuditedEffects WITH
  Slots    <- Runs,
  phase    <- [r \in Requests |-> Phase(r)],
  recorded <- {r \in Requests : Attempted(r)},
  effects  <- [r \in Requests |-> {k \in Runs : Applied(r, k)}]

\* Seen from outside, the pipeline only ever does what AuditedEffects allows.
KeepsPromise == Promise!Spec

-----------------------------------------------------------------------------
(* Claims of the repository's documents that the code does not live up to. *)

\* controlled-write.md: write_file with expected_sha256 is free of races and
\* WRITE_CONFLICT prevents lost updates.  An overwrite replaces only what its
\* client had read, or what an earlier execution of the same call has put there.
NoLostUpdate ==
  [][\A r \in Requests :
       /\ call[r].tool = "write_file" /\ call[r].mode = "overwrite"
       /\ \E k \in Runs : ~Applied(r, k) /\ Applied(r, k)'
       => \/ fs[call[r].path] = File(base[r])
          \/ \E whole \in BOOLEAN : fs[call[r].path] = File(<<[by |-> r, whole |-> whole]>>)]_vars

\* ssh_transport.py: the helper writes content atomically.  No file holds a part
\* of what a write_file was to put there.
NoTornContent ==
  \A p \in Paths : \A i \in DOMAIN fs[p].data :
    LET token == fs[p].data[i]
    IN call[token.by].tool = "write_file" => token.whole
=============================================================================
