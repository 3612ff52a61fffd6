# MCP-Pi Gateway: TLA+ models and proofs

The MCP-Pi Gateway lets AI clients operate on *Targets* (small machines reached
by ssh) through a fixed catalogue of tools. This directory keeps its formal
models: TLA+ modules translated from the source, TLC runs that check them on small
instances, and TLAPS proofs of what matters most for every instance.

Paths below are relative to the repository: `core/` stands for `src/mcp_gateway/`.

## 1. Inventory

| Component | Source | State it keeps | Operations | Talks to |
|---|---|---|---|---|
| MCP adapter | `mcp-adapter/server.go`, `main.go` | readiness, the catalogue registered with the MCP server | start, compatibility check, `tools/list`, `tools/call`, HTTP endpoints, token check | starts one bridge process per call, kills it at its deadline |
| Bridge | `core/bridge.py` | none | `invoke`, `tools`, `version` | policy, tools |
| Tools | `core/tools.py` | none between calls; gateway-side backups of overwritten files | 20 tools, 8 of which change a Target | policy, Registry, transport |
| Policy | `core/policy.py` | none | `authorize_client`, path, size and encoding validators | Registry |
| Registry | `core/registry.py`, `schema.py`, `config.py` | SQLite: targets, projects, clients, grants, settings, activity, admin users | CRUD, settings, `record_activity`, `prune_activity`, migration, JSON import | shared by every bridge process, the console and the CLIs |
| SSH transport | `core/ssh_transport.py` | none | `run_command`, probes, atomic write helper, failure classification, one retry | ssh, discovery, Registry |
| Target discovery | `core/discovery.py` | per process: locks, last attempt, last result of each Target | `discover_target` | known_hosts, kernel neighbours, subnets |
| Admin console | `core/web/*` | sessions, failed logins by address and by username in one table; everything else is the Registry's | login, toggles of targets, projects, clients and switches, maintenance, rollback | Registry, lifecycle |
| Release lifecycle | `core/lifecycle.py` | `releases/`, the `current` and `previous` links, database backups | update, rollback, backup, restore, uninstall | systemd, Registry |
| Installer | `install.sh` | the installed and the previous tree, the unit files and their copy, its activation flag | check, install, roll back, undo in its trap | systemd, Registry |
| Deployment | `scripts/deploy-pi.sh`, `backup-appliance.sh` | on the appliance a candidate, previous and failed tree and a copy of the units for each deployment, the record in the tree; at the maintainer's its activation flag | deploy, accept, record, roll back, back up | one ssh session after another, systemd |
| Resumable jobs | `scripts/run-resumable.sh` | a directory per job: lock, pid, state, rc, log | start, status, log, cleanup, list | flock, the deployment |
| CLIs, doctor | `core/cli*.py`, `admin_cli.py`, `doctor.py`, `compatibility.py` | none | wrappers and read-only diagnostics | Registry |

How they interact. The adapter starts a fresh bridge process for every call, so
nothing in memory orders two calls; the console and the CLIs are further
processes. All of them meet in the Registry (each access is one SQLite
connection and one transaction) and on the Target (each access is one ssh
command). A remote process outlives the ssh client that started it.

What is hard, and what makes each component correct:

* **Pipeline** (bridge, policy, tools, transport): a call makes several dozen
  separate reads and remote commands; switches are flipped in between, the audit
  sink fails, ssh times out after the command started, the retry runs it again,
  the answer is lost, the bridge is killed. Correct: attempt on record before
  any effect, no effect against a switch that was off throughout, at most one
  retry, no success reported that did not happen, always an answer.
* **Discovery**: concurrent discoveries of one Target, a cached result that is
  stale, several hosts with one key. Correct: the endpoint only ever becomes one
  that showed a pinned key, ambiguity changes nothing, mutual exclusion.
* **Registry**: several processes open a Registry that is not there, each makes the
  schema and imports the JSON file, and any of them may be killed; the console
  and the bridges write the same rows. Correct: who has opened it finds it
  whole, an import is whole, what the administrator has chosen stands, an
  emergency stop holds.
* **Console**: counts of failures against ends of windows and lockouts, forms and
  cookies of another login, restarts. Correct: guesses are limited and nobody is
  locked out without cause, a form counts only for the login it was shown to.
* **Adapter**: a catalogue fetched before another one and installed after it.
  Correct: what is left is one answer, and nothing is listed that was revoked
  before any of the requests in service began.
* **Resumable jobs**: `status` and `cleanup` look at a lock that the worker has not
  taken yet, or take it themselves to look; crashes without an exit code.
* **Release lifecycle**: a crash between any two replacements of links, rolling back
  to what the update has already replaced, backups removed while they are needed.
  Correct: links lead to whole releases, a running update has its backup, its report is true.
* **Installer**: trees, units and their copy are replaced one after another, a run may fail or be killed between
  any two of them, and the next one, or a rollback, starts from what is there. Correct: a verified tree stays on disk,
  and what a rollback puts back is a tree with the units it ran with.
* **Deployment**: each session's status is all that comes back, a lost one may have done all, part or nothing, and its
  commands may still run, beside those of the rollback. Correct: a failure leaves what was there, what is reported
  verified is what runs, and a tree's record names the commit it was unpacked from.

## 2. Plan

In this order; each step is a component module, its MC module and its proofs.

1. `MutationPipeline` with its abstract specification `AuditedEffects` (done, proved).
2. `TargetDiscovery`: failure classification, tiers, lock, cooldown and cache, the
   update of the Registry's endpoint (done, safety proved).
3. `ResumableJob`: start, worker, status, cleanup, crash (done, safety proved).
4. `ReleaseLifecycle`: links, backups, maintenance, restore, kill (done, safety proved).
5. `RegistryAdmin`: opening, bootstrap, import, the console's and the bridges' changes (done,
   safety proved).
6. `ConsoleLogin`: rate limiter, sessions, tokens, key (done, safety proved).
7. `AdapterCatalog`: the catalogue's synchronisation (done, safety proved).
8. `Installer`: installation, its trap, the rollback; `Deployment`: sessions, activation, record, rollback (done).
9. `Appliance`, which composes the two over the tree and the units both replace (done, safety proved
   of the composition, so of both scripts beside each other).
10. Left: the matching of grants against capabilities, compared
   with a reference definition; the adapter's readiness and token; pruning of the activity log.

## 3. Modules

| Module | Models | Kind |
|---|---|---|
| `AuditedEffects` | what the gateway promises of an operation | abstract specification |
| `MutationPipeline` | a mutating call, from the bridge to the Target and back | component |
| `TargetDiscovery` | rediscovery of a Target and the change of its endpoint | component |
| `ResumableJob` | one job id of `run-resumable.sh` | component |
| `ReleaseLifecycle` | releases and their links, backups of the Registry, maintenance and restore | component |
| `RegistryAdmin` | processes that open the Registry, import into it and change it | component |
| `ConsoleLogin` | failed logins, sessions, tokens and the key of the console | component |
| `AdapterCatalog` | overlapping `tools/list` requests at the adapter | component |
| `Installer` | runs of `install.sh` over the trees and units they replace | component |
| `Deployment` | `deploy-pi.sh` and its sessions on the appliance | component |
| `Appliance` | installations and deployments in any order, over one tree and one set of units | composition |
| `MCPipelineSwitches`, `MCPipelineEffects`, `MCDiscovery`, `MCJob`, `MCRelease`, `MCRegistry`, `MCLogin`, `MCCatalog`, `MCAppliance` | the small instances TLC checks | model checking |
| `MutationPipeline_proofs`, `TargetDiscovery_proofs`, `ResumableJob_proofs`, `ReleaseLifecycle_proofs`, `RegistryAdmin_proofs`, `ConsoleLogin_proofs`, `AdapterCatalog_proofs`, `Appliance_proofs` | theorems and their proofs | proofs |

The components meet where one's state is another's environment: `Flip` of `MutationPipeline` and
`Change` of `AdapterCatalog` are what `RegistryAdmin`'s requests do to switches and grants; `Edit` and
`Resolve` of `TargetDiscovery` are its `EditTarget` and `EndCall`; `gateway_backup` and
`gateway_maintenance`, tools like those of the pipeline, are requesters of `ReleaseLifecycle`.

`PROJECT.json` maps every definition to the lines it models. An operator whose
comment starts with "Mutant:" is a plausible bug; it is part of no specification
and shows that a property notices the bug when it takes the place of the
definition that follows it.

### 3.1 MutationPipeline

State. `on` are the settings and permissions of the Registry the pipeline reads
(`grant` and `scope` stand for several rows); `audit` is the activity table;
`fs` is the project's tree on the Target; `run[r][k]` is the k-th remote process
of request `r`, `tries[r]` the executions started. `pc[r]` is where the bridge
process is, `pos[r]` the next of the separate Registry reads. `seen` and `base`
are history: the switches that were on at some time since the call came in, and
the content its client had read before.

Actions, in the order of a call: `Submit` (bridge.invoke_tool); `CheckSwitch` and
`NextStage` (authorize_client in the bridge, `_check_gateway_enabled`, which
authorizes again, and the tool's own checks: one Registry read a step); `Probe`
(canonical path, probe, preconditions, dry run); `RecordAttempt` (the required
audit event); `Connect`, `ConnectFails`, `Answer`, `Misread`, `TimeOut`,
`Disconnect` (run_command and its failure classification); `Retry`, `NoRetry`
(discovery, and one more execution); `BridgeKilled` (the adapter's deadline).
On the Target `HelperCheck`, `HelperApply` and `HelperFails` are the helper of
write_file and the one-line scripts of the other tools; they go on after the ssh
client, or the bridge, has died, which may cut the helper's input short. `Flip`
is an administrator.

A denial, an error or a result records an audit event where the tool does so in
the code. With `RegistryFaults` any read of the Registry may raise, which denies the call, and
any event may be lost with its sink; only at the project's own permission does authorize_client
swallow the exception and go on (`PassedOver`, policy.py:319-324), and the tool checks it again.

A script on the Target that has been started may be cut short: `Poised` says where it is before
its effect, `Outcomes` how the effect may turn out. A helper of write_file whose input was cut replaces
the file by a prefix; an append or a copy may fail half-way and leave a part; any of them may
exit with an error, or die, after its effect.

Abstractions: a path is a member of a small set, with no path inside another; a
directory has no content; a copy or an append appears with one step, whole or in part, so that another
script does not read it half-way; a command's own effects are outside `fs`; the size,
encoding and path validators, which only deny, are in the nondeterministic denial
of `Probe`. Discovery is the choice between `Retry` and `NoRetry`.

### 3.2 TargetDiscovery

State. `endpoint` is `targets.host`; `shown` the addresses at which a host now
shows a pinned key; `locked`, `fresh` and `last` the lock, the running cooldown
and the last result of one TargetDiscovery object; `mine` the endpoint in a
caller's own copy of the Target; `todo`, `near`, `found` the locals of
`discover_target`. `seen` and `raised` are history.

`Acquire` (not blocking), `WakeUp` (the blocking acquire that waits for another's scan), `LetGo` (the
release that follows at once, between which a third caller finds the lock held), `Wake` (the result that
was waited for), `Cached`, `NoPinnedKey`, `ScanNeighbors`, `Verify` (one
ssh-keyscan), `ScanSubnets`, `Finish` and `Raise` are the steps of
`discover_target`; `Command`, `Connect`, `Resolve` (the UPDATE), `Audit` and `Retry`
those of SSHTransport, `Over` where a command ends. Candidates are scanned in a fixed order, as the code sorts them. Subnets that overlap list a
host twice, and one that answers both times is taken for two: `Verdicts` has `Ambiguous` beside what the set of hosts
says, which changes nothing. `Move` changes the network between any two of them, `Edit`
is an administrator, who enters one of `Entries`, `CooldownEnds` the clock, `Kill` the deadline. `Return` is the
`finally`: it releases the lock (`Unlock`) whoever holds it, and raises if nobody does, as
happens to a caller that waited for a discovery that raised.

A bridge process makes its ssh commands in one thread; the locks of the class are
for several. The instance has two threads in one process, because there the lock
matters; the theorems are for any threads in any processes.

### 3.3 ResumableJob

State. `job` is the directory at the job's path: the start that made it and its
files; `held` and `wlock` say who has locked which inode, as a lock file that is
removed and created again is another lock. `pc` is the progress of an invocation,
`worker` that of a launched worker, `exit` what its command exited with. `told`,
`about`, `began` are history.

`Make`, `Prepare`, `Launch`, `Wait`, `Deny` are `start`; `Test`, `Try`, `Release` are
`lock_is_held`, which takes the lock to see whether it is held; `Report` is the rest
of `status`; `CleanUp`, `Decide`, `RemoveFiles`, `RemoveDirectory` are `cleanup`;
`TakeLock`, `Begin`, `Exit`, `RecordExit`, `Finish` are the worker. `LoseShell` kills the
worker's shell and leaves its command, which has inherited the lock; `Die` and `Reboot`
kill more. Opening the lock file and locking it is one step.

Operators are constrained by `CleanUpAfter`: they clean up, one at a time, after an
answer in this set about the directory that is there. With FINISHED and FAILED the
properties hold; with INTERRUPTED, which `docs/operations.md` leaves open ("the job is
no longer running"), they do not (4.1).

### 3.4 ReleaseLifecycle

State. `releases[v]` is how much of `releases/<v>` there is; `current` and `previous` are where the
links lead; `backups[s]` and `written[s]` the content and mtime of the backup named by second `s`;
`database` the Registry's content, reduced to whether it has a schema. `updater`, `roller`, `keeper`
and `restorer` are the four procedures with their locals, `saving[p]` the file a `backup_database`
is writing. `exposed` and `wiped` are history.

`BeginUpdate`, `OpenUpdateBackup`, `CloseUpdateBackup`, `StartCopy`, `FinishCopy`, `CopyFails`, `ReadActive`,
`LinkPrevious`, `LinkCurrent`, `RunDoctor` and `RevertCurrent` are the steps of `update_release`;
`ReadPrevious` and `SwapBack` the console's rollback; `BeginMaintenance`, `SaveInMaintenance`,
`ListBackups` and `RemoveBackup` are `gateway_maintenance`; `BeginBackup` and `FinishBackup` whoever
else backs up; `CheckBackup` and `RestoreBackup` are `restore_database`; `Uninstall`,
`CreateSchema` (any process that opens the Registry), and the kills. No lock keeps them apart in
the code, and none does here.

Abstractions: a candidate is its version and the outcome of its checks; the doctor is the set of
verdicts it can come to, from the severities each group of its checks can report; a symlink and the
os.replace that puts it in place are one step. rmtree may leave all or part of what was there; copytree then
raises (`CopyFails`), as it may at any file, and the exception leaves update_release.

### 3.5 RegistryAdmin

State. `tables`, `version` and `stored` are the schema as `executescript` leaves it, statement by
statement; `rows[t]` is a Target with its project; `lock` and `draft` the transaction of an import;
`at[p]` where a process is; `serving[w]` a request of the console with what it has read.
`intent`, `added`, `raced`, `panicked`, `saved`, `torn` are history.

`Start`, `ReadVersion`, `CreateTable`, `MarkVersion`, `InsertDefaults` and `CountTargets` are
`get_registry` and the schema; `LookForTarget`, `BeginImport`, `ImportTarget` and `CommitImport`
`import_from_json`, at a bootstrap and by the command; `ReadTarget`, `EndCall` and `EndBridge` a
bridge; the rest are the console's requests, those that read, negate and write in two steps, and the
settings form in one step a setting. `Kill`, `OpeningIsBusy` and `RequestIsBusy` are the faults.
The server takes one request at a time (wsgiref), which `Accept` says although there are two
workers: the properties need it, and a mutant without it breaks `PanicHolds`.

Abstractions: a Target has at most one project; AI clients and grants, which are switched as Targets
are, the ports and the JSON backend are left out; statements that only read see what is committed.

### 3.6 ConsoleLogin

State. `failed[k]` is `_FAILED_LOGINS` for an address or a username: the code keeps both in one dict, and nothing keeps
a username that is tried from being somebody's address, so that `Users` and `Addresses` may overlap; `checking` the login whose
password is being checked, as its time passes; `file` and `key` the signing key on disk and in
the server; `jar[a]`, `page[a]` and `sent` the browser's cookie, the form it shows and the requests it
has sent, with the cookie of that moment. `past`, `active`, `served`, `unstored` are history.

`TryLogin`, `LoginFails` and `LoginSucceeds` are the login; `Refuse`, `Redirect`, `Serve` and `Logout`
what `before_request` and `login_required` make of a request; `Start`, `StoreKey` and `Kill` the
server. Sessions are the browser's: after a logout, the response to a request that was in flight
brings the cookie back, as with any signed cookie.

Abstractions: a clock that is set back, and the token of the login form, are left out; and so is the cookie's own lifetime
of 30 minutes, the same as the timeout: a change sent with a cookie that has run out is refused with 403
and not redirected to the login, and is in neither case served.

### 3.7 AdapterCatalog

State. `granted` is what the client's grants in the Registry allow, tool by tool, `enabled` the client itself; `registered` the tools of the
MCP server, `current` is `currentAllowed`, `mutex` is `catalogMu`; `at`, `turn` and `allowed` are where
a request is and what its bridge has answered. `crowded`, `lately`, `admitted`, `listed` are history.

`Begin`, `ReadClient` and `ReadGrants` (one tool of `get_tools_catalog`: authorize_client reads the client and its grants in
two accesses, between which both may change), `AskFails`, `Lock`, `Compare` (which removes every
tool if the answers differ), `Register` (one tool), `List` (the SDK, without the mutex).

### 3.8 Installer

State. `installed` and `previous` are the trees at INSTALL_DIR and PREVIOUS_DIR, `aside` those a rollback has moved to
`mcp-gateway.failed-install.<time>`; `units[u]` the release whose file is in place, `backup[u]` its copy in
UNIT_BACKUP, or the note that there was none. `run` is the run under way: the place in the script, its MODE and
ACTIVATED. `checked` is what restart_runtime and Doctor have said since the trees changed. `proven`, `worn`,
`apart`, `slipped`, `cut` are history.

`Stage` to `FinishInstall` are [2/9] to [9/9]; `StopServices` to `CleanUp` are rollback_runtime, `RemoveInstalled` and
`Withdrawn` the trap when there is no tree to go back to. `InstallExit` is the trap, and `StepFails` any command that
may fail before it; the trap's rollback is in mode "recover", where `PassOver` and `PassOverDoctor` go on after a failure: in
the operand of `||` the shell ignores `set -e` in the whole function. `Interrupt` is a signal the trap catches, `Kill` one it does not.

Abstractions: a unit, the tunnel check and the link of the command line are all members of `Units`, which the loops go
through in the order of `Order`; a command that fails, a signal and a kill each count as a fault; the copy of the Registry and init_db, which keep its rows, are in `Stage`. Renames within the service's home do not fail, a
command that fails has changed nothing, and `rm -rf` of the previous tree is one step that does not fail. One that is cut short
would leave half a tree, which `--rollback` would move back; that is a moment at which the units' copies are already those of the later
release (`apart`), and of which no property says that a rollback restores anything.

### 3.9 Deployment

State. `current` is the tree at REMOTE_TARGET_DIR; `candidate[d]`, `previous[d]`, `failed[d]` and `backup[d]` carry the
time of deployment `d` in their names. A tree is the commit it was unpacked from, the deployment that brought it, and what
`.deployed-git-sha` and `.deployment.json` say. `local` is the script: the session it waits for, OLD_DEPLOY_SHA, ACTIVATED;
`session[s]` where the commands of a session are. `Adapter[c]` is the hash of the adapter built from
`c`, which the acceptance and the verification compare. `accepted`, `before`, `cutOff`, `late`, `strayed` are history.

`Start` and `AlreadyDeployed` begin a deployment; `Prepare`, `CheckTrees` to `RestoreOnError`, `OpenInstall` to
`Restart`, `Accept`, `RecordProof`, `RecordSha` and `RecordBranch`, `Verify`, `Tidy` are the sessions [1/10] to [10/10]. The commands of
the record are separated by `;`: one that fails is passed over (`PassOverRecord`), and the last gives the status. A unit that is
not there ends the session that saves it (`NoUnitToSave`). `InstallLate` is a session that was lost after it had opened
the candidate's unit and writes it when another tree may be in place, once a deployment. `MoveAway` to `CleanUp` the
rollback, `Discard` cleanup_remote_transfer. `Succeeds` and `Errs` are what the script makes of a session's status,
`Disconnect` a status 255 while the commands go on, `Die` commands that are killed, `KillLocal` the script's end.

Assumption: the next deployment begins when no session is left, as `docs/update-rollback.md` ("Reconstruct state
first") asks of who reconnects.

### 3.10 Appliance

`Dep` and `Inst` are instances of the two modules with one `current` tree (INSTALL_DIR and REMOTE_TARGET_DIR are one path),
one set of `units` and one count of `faults`. A release is a tree without a record; a tree that a deployment brought is to
the installer one of `Others`, which it moves, keeps as the previous one and puts back like any. `RunStep` and
`DeploymentStep` say that one begins when the other is over, which nothing in the code enforces; each makes what the other
has last reported a thing of the past, and nothing else of it.

## 4. What TLC checks

Passing runs:

* **pipeline_switches** (`MCPipelineSwitches`, 540 thousand states): one call of each kind
  of tool, local or remote, from all 64 settings of the six switches, two of which are
  flipped at any time, with reads and an audit sink that may fail and three possible executions. One
  call is enough: the properties are about one request, and flips are the only thing
  another process can do to it. `TypeOK`; `AttemptBeforeExecution`; `PermittedSinceSubmission`;
  `RetriedOnce` (the bound of three is above what it allows); `KeepsPromise`, the
  refinement of `AuditedEffects`; `EveryCallIsAnswered`.
* **pipeline_effects** (`MCPipelineEffects`, 1.9 million states): two calls that create,
  overwrite, append to or delete one path, with two executions each, lost answers and
  helpers that outlive their callers. `AcknowledgedContentStays`: what was acknowledged is in the file and is all there
(its exception is in 4.1). Two calls with two
  executions are the smallest number in which a late helper of one call meets another.
* **discovery** (`MCDiscovery`, 333 thousand states): two threads of one process, one with two
  commands to run, so that a command follows a result it may take from the cache; three hosts,
  two of them neighbours, and a Target at the third or, copied, at both neighbours; every set
  of open ports. Three hosts are needed for an ambiguity besides the endpoint that failed.
  `TypeOK` (a match has one host), `OneScanAtATime`, `EndpointWasVerified`, `WaitersReturn`.
* **resumable_job** (`MCJob`, 380 thousand states): two starts, a status and a cleanup in every
  order. Two starts suffice for one job's worker to meet the directory of another; both
  starts ask for the status as well. `TypeOK`, `WorkerKeepsItsDirectory`, `AnswerIsTheExitCode`,
  `InterruptedIsFinal`, `LookingNeverWaits`.

* **release** (`MCRelease`, 2.8 million states): two versions, two updates of them, a console that also
  backs up and rolls back, a maintenance that leaves one backup, restores, a purge and a kill, within
  two seconds. Two updates are needed for one to find a release linked, two seconds for backups
  to be of different age and one left for them to compete. `LinkedReleasesWhole`, `PreUpdateBackupKept`,
  `UpdateReportIsTrue`, `EmptiedOnlyByRemoval`.
* **registry** (`MCRegistry`, 634 thousand states): a console, a bridge and an import-json open a Registry that is
  not there; two tables, Targets, hosts and limits, two requests of the administrator and one fault. Two
  tables suffice for a schema to be half made, two Targets for an import to be, two requests for one to come
  between the read and the write of another if the server let it. `StartedOnWholeSchema`,
  `ImportedWhole`, `AdminHasTheLastWord`, `PanicHolds`, `OneFormAtATime`, `ConsoleServes`.
* **login** (`MCLogin`, 2.6 million states): two browsers and one username, which is the address of one of them; a limit of
  three failures, a window and a lockout of two ticks, a timeout of one, three ticks, two logins, one request in flight and a kill.
  One key is thus only an address and the other an address and a username, counted once or twice for an attempt. Three
  ticks are enough for a lockout to end and a window after it; two logins for a form to be another
  login's. `GuessesAreLimited`, `LockedOutForCause`, `ChangesServedToTheirLogin`, `RestartKeepsSessions`.
* **catalog** (`MCCatalog`, 636 thousand states): two requests over and over, two tools, two changes of what is
  granted or of the client's switch: the fewest for a client to be switched off and then granted something between the two reads. With two tools a catalogue can be half registered. `CatalogIsOneAnswer`, `ListedWasGranted`, `EveryRequestAnswered`.

The `TypeOK` of `ReleaseLifecycle`, `RegistryAdmin`, `ConsoleLogin` and `AdapterCatalog`, and `AloneListsItsAnswer`, are
proved for every instance (section 5) and are in no run.

* **appliance** (`MCAppliance`, 735 thousand states): two commits, as releases and as deployments, with adapters of their own; two units, and a tunnel check
  that only the installer brings and only the first release has. Three installations, rollbacks or deployments in any order,
  one of them a deployment, or two deployments (a deployment counts twice towards the bound of four), and two faults: commands
  that fail, lost connections, signals and kills. Three are an installation to go back to, a change by either script, and a
  rollback; a deployed tree with its record is also among what is found at the beginning; two faults suffice for one to
  come while the other is undone. `TypeOK` and `RuntimeKept` are about both scripts; `WholeSetRestored` about the installer's rollbacks,
  also of what a deployment has changed; `SuccessLeavesWayBack` about what each reports verified; `ProvenanceIsTrue`,
  `RollbackRestores` and `FailureKeepsWhatWas` about deployments, also over what an installation has left.

Deadlock is checked in **registry** and **catalog**, whose processes start over and over. In the others calls,
commands, invocations, updates, logins, runs and deployments are finite, and all may be over.

Fairness. The pipeline's own steps are weakly fair, because a bridge process is one
thread that blocks only in ssh, under the timeout of subprocess.run. So are the steps of a
discovery: each socket, ssh-keyscan and ip command has a timeout. A waiting thread may be
overtaken by others, finitely often in the instance, as the number of commands is bounded;
beyond it, `WaitersReturn` would need a fair lock, which threading.Lock does not promise. So are the steps
of a script that has got to the lock. `ConsoleServes` rests on systemd's Restart=on-failure, with at most as many
failures as its start limit allows, and on processes that run going on; an import that holds the write lock either goes
on or is killed, and the faults are bounded. `EveryRequestAnswered` rests on the bridge's timeout of 30 s and on Go's mutex, which
hands itself to who has waited long (strong fairness of `Lock`). Nothing is assumed of clients, administrators,
the network, Targets, jobs' commands or the audit sink.

### 4.1 Where the documents and the code disagree

Each is a run that TLC ends with a counterexample.

* **lost_update**: `NoLostUpdate`. controlled-write.md says expected_sha256 prevents lost
  updates. The helper compares hashes, then replaces the file, with no lock between: of two overwrites with the same
  hash the later one replaces what the earlier has written. The run has overwrites alone, and a call that replaces its
  own content, at its retry, does not count.
* **torn_content**: `NoTornContent`. ssh_transport.py says write_file's helper writes atomically. It takes end of file for the
  end of the content, so when its ssh client is killed at the timeout it replaces the file by a prefix. The run has calls of
  write_file alone: nobody claims as much of append_file.
* **cleanup_race**: `CleanupRefusesRunningJob`. A job that is only starting is INTERRUPTED to
  whoever asks; cleanup finds its lock free, the worker takes it, and the directory is
  removed under the worker.

What follows was met while modelling. It is in the models, and the properties say what remains true; no run is spent on it.

* A write_file that times out is executed again, while its first execution, cut short, may still be about to replace the
  file: by a prefix, after the retry was acknowledged. `AcknowledgedContentStays` excepts it by name (`CutShort`); it is what **torn_content** shows,
  at its worst.
* web/auth.py:29 has a lockout for "the key (IP or username)". An attempt counts under both in one dict, so that an address which somebody
  types as a username is locked out without a failure of its own, and one that is typed where it is counts twice (`LeastFailures` in `LockedOutForCause`).
* A process killed while `executescript` makes the schema leaves tables and version 0, and every later start
  fails at the first of them, against docs/archive/runbooks/reboot-recovery.md:11, "sin intervención humana".
  `ConsoleServes` excepts it by name (`HalfMade`).
* A bootstrap counts the Targets and imports in two connections: it may write over, and enable, a
  Target the administrator has added in between (`raced` in `AdminHasTheLastWord`).
* A backup may be removed by the maintenance between a restore's check and its copy, which then restores an
  empty file (`EmptiedOnlyByRemoval`); docs/reference/lifecycle.md:42 calls the restore safe.
* A Target's form sets every column, so a form that is stale puts back the host discovery has replaced;
  `AdminHasTheLastWord` is about the columns that are the administrator's.
* Of two `tools/list` requests that overlap one may list half a catalogue, or the other's answer, which may be older than it
  is; docs/reference/ai-clients.md:61 says the catalogue is evaluated in real time. `AloneListsItsAnswer`
  and `ListedWasGranted` are what is true.
* docs/reference/client-grants.md:52 has a denied write_file leave an audit event; a denial by the bridge leaves none.
* docs/installation.md:119 says ROLLBACK_VERIFIED is printed only after services and Doctor recover. In the trap
  `rollback_runtime || true` suspends `set -e`, and a unit that cannot be restored (`slipped` in `WholeSetRestored`) or a failing Doctor is passed over: `WholeSetRestored` says that
  Doctor has passed only of a rollback that was asked for.
* docs/update-rollback.md:32 has a rollback restore runtime and units as a set. An installation that fails at [5/9] has replaced the
  copy of the units and not yet the previous tree: a rollback then pairs an older tree with later units (`apart`).
* docs/architecture.md:109 calls the rollback of a deployment transactional. If the session that moves the trees is lost,
  ACTIVATED is 0 and there is no rollback: the appliance may be left activated, or without a current tree (`cutOff`). What is true, and
  `FailureKeepsWhatWas` says, is that the tree it had is there, in place or as the previous one.
* Commands of a lost session go on beside the rollback: one that has opened the candidate's unit may write it after the rollback has
  restored the old one, and ROLLBACK_VERIFIED is printed (`late` in `RollbackRestores`).
* docs/update-rollback.md:75 has `verified=true` come only after acceptance. The session that records it names the tree by its
  path, and one that outlives its connection may write into the tree that was put back (`strayed`).
* ALREADY_DEPLOYED looks at the record in the tree and at the services, not at the units: after a rollback that was cut
  short it may be answered for a tree that runs under another commit's units. A `--rollback` of the installer that was
  killed cannot be repeated: the tree is at `mcp-gateway.failed-install.<time>`, where nothing looks for it (`cut` in `RuntimeKept`).

## 5. What is proved

The theorems hold for every value of the constants that satisfies the modules' assumptions, none
of which bounds a set.

* **Pipeline.** `TypeCorrect`. `AuditFirst` (AttemptBeforeExecution) and `RetryOnce` follow from the inductive
  invariant `AuditInv`: neither is inductive, because the promise that an attempt is on record is made
  at "attempt" and used at "dispatch", and a second execution depends on what `tries` was at the
  first. `PermittedBySwitches` follows from `SwitchInv`, which says what each stage and position has
  already seen to be on: after the checks of all four stages that is at least `Needed`, whose members
  are spread over them. `PipelineKeepsPromise`: each initial state maps to one of `AuditedEffects`, each step to
  a step of it or to none, under the mapping at the end of `MutationPipeline` (the executions that
  took effect, the attempts on record, and the answer as acknowledged, refused or indeterminate).
  With the lemma `PromisedEffects`, that `AuditedEffects` itself accounts for its effects, this gives `PipelineEffectsAccountedFor`.
  `AcknowledgedWritesStay` needs `ContentKept`: once a writing request has taken effect, its content is in the file
  as long as no applied execution of another request touched the path, and all of it once an execution was complete, unless
  one of the same write_file was cut short; and `CutUnheard`: only an execution that has lost its ssh client is cut short, so that
  an acknowledgement has a complete execution behind it (`AnsweredComplete`).
* **Discovery.** `DiscoveryTypeCorrect`. `OnlyVerifiedEndpoints` (EndpointWasVerified): by the invariant `Verified`, what
  a scan has found, a process remembers and a caller is about to use has all been seen with a pinned
  key by that process; the cache and the wait hand it from one to the other. `ScansAreSerial` (OneScanAtATime): until a
  discovery has raised, who waits has a result to go on with, so that whoever releases the lock holds it.
* **Job.** `JobTypeCorrect`. With `CleanUpAfter` within FINISHED and FAILED, `DirectoryIsKept`, `AnswersAreTrue` and
  `InterruptedStays`, all from `JobInv`: a start owns its directory until its worker ends, and the live
  worker's lock is on the file that is there (`StartsOwn`); the exit code in the directory is its owner's
  (`CodesAreTrue`); a cleanup under way is the only one, and past its probe no worker is alive
  (`CleanupsAreSafe`); who found the lock free knows the workers dead that had gone for it (`LooksAreTrue`). The
  four need each other: the directory stays because cleanups are safe, these are safe because
  the answers before them are true, and answers are true because the directory stays.
* **Releases.** `ReleaseTypeCorrect`; `LinksLeadToWholeReleases`, from `LinkInv`, which adds what the procedures have read and are about to link;
  `UpdatesReportWhatTheyDid`, from `ReportInv`, which follows the active release through the update;
  `RestoresEmptyOnlyByRemoval`, from `RestoreInv`. `RunningUpdatesKeepTheirBackup` (PreUpdateBackupKept) counts: a file the update has opened may
  already be doomed, by a listing that found an older file of its second. `BackupInv` says that the files not doomed
  then hold enough that are no older than any doomed one (`Spared`), so that one of them is complete, or
  as many as the maintenance leaves were cut short.
* **Registry.** `RegistryTypeCorrect`; `EveryoneStartsOnWholeSchema`, from `SchemaInv`: whoever is about to set the version
  has found all tables made, version 1 means the whole schema, whoever was killed on the way, and whoever adds defaults or
  has opened the database goes on from version 1; `ImportsAreWhole` and `ChoicesStand`, from `RowInv`
  and `AdminInv`: the draft of who holds the lock is the rows with a part of the file; `PanicHoldsUntilAsked` and
  `LimitsAreOneForm`, from `SettingInv`: there is one request at a time, and the form has been saved up to its next setting.
* **Login.** `ConsoleTypeCorrect`. `GuessesStayLimited` and `LockoutsHaveCause`, from `FailuresInv`, which relates the pair of numbers the code keeps to
  the history of failures: the last of them came each within the window of the one before, and
  that run began more than a window after the failure before it (`InRun`). The count is the length of the run for a key
  that is an address or a username, and between its length and twice that for one that is both: nothing is assumed to keep the two apart. The proof needs a limit of at least two, since a first failure sets no
  lockout, and a lockout no longer than the window; the code's are 5, 60 s and 300 s. `FormsStayWithTheirLogin` and
  `SessionsOutliveRestarts`, from `SessionInv`, about every cookie in a browser or on its way.
* **Catalogue.** `CatalogTypeCorrect`; `CatalogHasOneSource`, `SolitaryRequestsListTheirAnswer` and `RevokedIsNotListed`, from
  `CatalogInv`: who is inside the mutex has registered its answer up to its turn, and what is there when an
  asked request is to list was granted lately to a client that was enabled lately, whoever installed it.

* **Appliance.** Under `ApplianceAssumption` alone (what the two scripts' own assumptions say, and that deploy-pi.sh's units are
  among install.sh's): the seven invariants of the run, over any commits, units, orders of units, numbers of runs and
  deployments, and faults. Deployments come first, because what they find and leave is what the installer works on.
  * `ApplianceTypeCorrect`, `RollbackIsTrue` (RollbackRestores) and `FailureIsTrue` (FailureKeepsWhatWas), from `Kernel`. None
    is inductive: a session whose connection was lost goes on beside those the script opens next. `SessionInv` and `Whereabouts`
    say which sessions can be under way together and where their commands can be: only a lost connection leaves one behind, only
    an activation makes a rollback, and it is opened once. `BeforeMove` says that nothing has changed, and which units are saved, until
    the trees are replaced; `AfterMove` what is in place then, unit by unit, and that the way back (`WayBack`) is there; `RollbackInv`
    how much of it a rollback has put back, where the units can be trusted only if no connection was cut, or the
    tree found was paired with its units and no unit of a tree that is gone was written late (`Sure`). That the tree found is kept whatever is lost
    or killed is `TreeStays`, kept by each step because the two moves of an activation, and of its undoing, are never out of order.
  * `ProvenanceIsKept`, from `RecordInv`: a tree's record is true in each of the places where either script may put it, since
    each moves trees the other has recorded.
  * `WholeSetIsRestored` and `SuccessKeepsWayBack`, from `InstallerInv`: `SetInv` says at which steps the previous tree and
    the copies of the units are one set (`apart` is the history of when they are not), `InstallInv` which units of the release
    are in place, `RunInv` when the trap will roll back. A deployment between two runs changes neither copy nor
    previous tree, which is why a rollback restores a whole set after it.
  * `RuntimeIsKept`, from `WitnessInv`: there is a tree Doctor has passed, and it is in a place that nothing under way removes
    (`Lasting`): set aside, kept by a deployment, in place, or, while the installed one is away, the previous one. What
    a deployment finds and the tree in place must be the same to Doctor while it may still be moved back, hence `AsFound`.

Only model-checked: the liveness properties (`EveryCallIsAnswered`, `WaitersReturn`, `LookingNeverWaits`, `ConsoleServes`,
`EveryRequestAnswered`); every invariant and every safety property of the other passing runs is stated by a theorem. Out of the prover's reach are liveness under fairness and ENABLED, induction over data, and RECURSIVE
operators, of which these modules have none.

## 6. What is not modelled, and why

* The read-only tools; the construction of ssh arguments; canonicalisation and the validators of
  paths, sizes and encodings (they only deny).
* The matching of grants against capabilities: `grant` is one switch in the pipeline, and a set of tools in the catalogue.
* `gateway_reboot`, which asks systemd; the Gateway-side backups of write_file, which nothing reads again.
* Pruning of the activity log, whose only reader is a page; the JSON backend, kept for migration; AI clients
  and grants in `RegistryAdmin`, which are switched as Targets are.
* A clock that is set back while failures are counted, and the token of the login form.
* The adapter's readiness, token and HTTP checks: set once, or without state.
* `backup-appliance.sh`, which reads the appliance's state into an archive and changes none of it; `install.sh --check` and
  the validation of a release, which end before anything is changed; a deployment and an installation at one time.
* `update_release` is modelled as it is written and tested, though the command line only prints how to update: its one
  caller in the tree is its test. What a candidate contains, beyond the outcome of its checks, is left out.
* The contents of known_hosts and the output of ip and ssh-keyscan: the set of hosts that show a
  pinned key stands for them.
* The pid, log and meta files of a job, and with them VERIFIED; wake locks, except that a worker may die
  for want of one.
* Status, setup, set-password, export-json and argument parsing; templates, packaging and units: no state of their own.
