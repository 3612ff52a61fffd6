---------------------------- MODULE RegistryAdmin ----------------------------
(***************************************************************************)
(* The SQLite Registry and those that change it: processes open it (and    *)
(* make the schema, the default settings and, when there is no Target, an  *)
(* import of the JSON file), the console serves the administrator's        *)
(* requests, the bridges' discovery records where a Target has been found, *)
(* and `import-json' imports the file at the administrator's wish.         *)
(*                                                                         *)
(* A statement outside a transaction is a step.  An import is a            *)
(* transaction of many statements: it holds SQLite's write lock from its   *)
(* first change on, and its changes are a draft until it commits.  A       *)
(* statement that changes anything waits for the lock, and fails if it     *)
(* waits for five seconds.  Reading needs no lock.                         *)
(*                                                                         *)
(* A Target has at most one project here; AI clients are switched like     *)
(* Targets, and are left out.  The activity log is written after a change, *)
(* in a transaction of its own, whose failure is ignored.                  *)
(***************************************************************************)
EXTENDS Integers, FiniteSets

CONSTANTS
  Bridges,     \* bridge processes
  Importers,   \* processes of import-json
  Console,     \* the console's process
  Workers,     \* who serve its requests
  NTables,     \* CREATE TABLE statements of the schema (8)
  NTargets,    \* Targets, in the order of the JSON file, which names them all
  Hosts, FileHost,
  NLimits,     \* settings of the settings form, in the order it saves them (5)
  Limits, DefaultLimit,   \* values within the form's ranges
  Switches,    \* settings that are on or off
  NoRow, None,
  MaxRequests, \* bound: requests and imports of the administrator
  MaxFaults    \* bound: processes killed, and waits for the lock that fail

Procs == Bridges \cup Importers \cup {Console}
Targets == 1 .. NTargets

ASSUME RegistryAssumption ==
  /\ Console \notin Bridges \cup Importers /\ Bridges \cap Importers = {}
  /\ None \notin Procs
  /\ NTables \in Nat \ {0} /\ NTargets \in Nat \ {0} /\ NLimits \in Nat \ {0}
  /\ FileHost \in Hosts /\ DefaultLimit \in Limits /\ "writes" \in Switches
  /\ MaxRequests \in Nat /\ MaxFaults \in Nat

Row == [host : Hosts, enabled : BOOLEAN, project : {"none", "read", "write"}]
ASSUME NoRowAssumption ==
  /\ NoRow \notin Row
  /\ NoRow \notin [target : Targets, row : Row]
  /\ NoRow \notin [enabled : BOOLEAN, project : {"none", "read", "write"}]

VARIABLES
  tables,    \* how many tables there are
  version,   \* PRAGMA user_version
  stored,    \* whether the settings are stored
  switches, limits,   \* the settings' values
  rows,      \* rows[t]: the Target's row and its project's, NoRow if absent
  lock,      \* who holds the write lock across statements
  draft,     \* rows, as the transaction that holds the lock sees them
  at,        \* at[p]: where a process is
  count,     \* count[p]: the tables it has made, the Targets it has imported
  known,     \* known[b]: the row a bridge has read
  serving,   \* serving[w]: the request a worker serves, with what it has read
  requests, faults,
  intent,    \* history: what was last chosen for a Target
  added,     \* history: Targets the administrator has added
  raced,     \* history: a bootstrap was committed over other choices
  panicked,  \* history: writes were disabled in an emergency, and no request
             \* to switch them has begun since
  saved,     \* history: the settings form of the last request to save one
  torn       \* history: that form was saved in part

schemaVars == <<tables, version, stored>>
settingVars == <<switches, limits, panicked, saved, torn>>
rowVars == <<rows, lock, draft, intent, added, raced>>
procVars == <<at, count, known>>
webVars == <<serving, requests>>
vars == <<schemaVars, settingVars, rowVars, procVars, webVars, faults>>

-----------------------------------------------------------------------------
\* What the file says of every Target.
FileRow == [host |-> FileHost, enabled |-> TRUE, project |-> "read"]

\* The part of a row that is the administrator's to choose.
Choice(row) ==
  IF row = NoRow THEN NoRow ELSE [enabled |-> row.enabled, project |-> row.project]

\* INSERT OR IGNORE's values.
DefaultSwitch(s) == s = "gateway"

Idle == [kind |-> "idle"]

Init ==
  /\ tables = 0 /\ version = 0 /\ stored = FALSE
  /\ switches = [s \in Switches |-> DefaultSwitch(s)]
  /\ limits = [k \in 1 .. NLimits |-> DefaultLimit]
  /\ rows = [t \in Targets |-> NoRow]
  /\ lock = None /\ draft = rows
  /\ at = [p \in Procs |-> "off"]
  /\ count = [p \in Procs |-> 0]
  /\ known = [b \in Bridges |-> NoRow]
  /\ serving = [w \in Workers |-> Idle]
  /\ requests = 0 /\ faults = 0
  /\ intent = rows /\ added = {} /\ raced = FALSE
  /\ panicked = FALSE /\ torn = FALSE /\ saved = limits

Unlocked == lock = None
Goto(p, place) == at' = [at EXCEPT ![p] = place]
Count(p, n) == count' = [count EXCEPT ![p] = n]

\* The bound on what the administrator does.
Asks == requests < MaxRequests /\ requests' = requests + 1

-----------------------------------------------------------------------------
(* SQLiteRegistry and get_registry: the schema and the settings.           *)

Start(p) ==
  /\ at[p] = "off"
  /\ IF p \in Importers THEN Asks ELSE UNCHANGED requests
  /\ Goto(p, "version")
  /\ UNCHANGED <<schemaVars, settingVars, rowVars, count, known, serving, faults>>

\* Mutant: the schema is for a version that it does not set.
ReadOldVersion(p) ==
  /\ at[p] = "version"
  /\ Goto(p, IF version < 2 THEN "create" ELSE "defaults")
  /\ Count(p, 0)
  /\ UNCHANGED <<schemaVars, settingVars, rowVars, known, webVars, faults>>

ReadVersion(p) ==
  /\ at[p] = "version"
  /\ Goto(p, IF version = 0 THEN "create" ELSE "defaults")
  /\ Count(p, 0)
  /\ UNCHANGED <<schemaVars, settingVars, rowVars, known, webVars, faults>>

\* Mutant: the version is set by the schema's first statement.
CreateTableMarked(p) ==
  /\ at[p] = "create"
  /\ Unlocked
  /\ version' = 1
  /\ IF tables = count[p]
     THEN /\ tables' = tables + 1
          /\ Count(p, tables + 1)
          /\ Goto(p, IF tables + 1 = NTables THEN "mark" ELSE "create")
     ELSE Goto(p, "off") /\ UNCHANGED <<tables, count>>
  /\ UNCHANGED <<stored, settingVars, rowVars, known, webVars, faults>>

\* executescript, a statement at a time: a table that is there already is an
\* error that ends the process.
CreateTable(p) ==
  /\ at[p] = "create"
  /\ Unlocked
  /\ IF tables = count[p]
     THEN /\ tables' = tables + 1
          /\ Count(p, tables + 1)
          /\ Goto(p, IF tables + 1 = NTables THEN "mark" ELSE "create")
     ELSE Goto(p, "off") /\ UNCHANGED <<tables, count>>
  /\ UNCHANGED <<version, stored, settingVars, rowVars, known, webVars, faults>>

MarkVersion(p) ==
  /\ at[p] = "mark"
  /\ Unlocked
  /\ version' = 1
  /\ Goto(p, "defaults")
  /\ UNCHANGED <<tables, stored, settingVars, rowVars, count, known, webVars, faults>>

\* Mutant: INSERT OR REPLACE.
ReplaceByDefaults(p) ==
  /\ at[p] = "defaults"
  /\ Unlocked
  /\ stored' = TRUE
  /\ switches' = [s \in Switches |-> DefaultSwitch(s)]
  /\ limits' = [k \in 1 .. NLimits |-> DefaultLimit]
  /\ Goto(p, IF p \in Importers THEN "look" ELSE "count")
  /\ UNCHANGED <<tables, version, panicked, saved, torn, rowVars, count, known, webVars, faults>>

\* INSERT OR IGNORE: settings that are stored stay as they are.
InsertDefaults(p) ==
  /\ at[p] = "defaults"
  /\ Unlocked
  /\ IF tables = NTables
     THEN /\ stored' = TRUE
          /\ Goto(p, IF p \in Importers THEN "look" ELSE "count")
     ELSE Goto(p, "off") /\ UNCHANGED stored
  /\ UNCHANGED <<tables, version, settingVars, rowVars, count, known, webVars, faults>>

-----------------------------------------------------------------------------
(* import_from_json, at a bootstrap and by import-json.                    *)

\* Without Targets, a bootstrap, unless the file is missing or not valid.
CountTargets(p) ==
  /\ at[p] = "count"
  /\ \/ /\ \A t \in Targets : rows[t] = NoRow
        /\ Goto(p, "look")
     \/ Goto(p, "ready")
  /\ UNCHANGED <<schemaVars, settingVars, rowVars, count, known, webVars, faults>>

\* Who bootstraps goes on, whether the import was done or failed.
ImportOver(p) == Goto(p, IF p \in Importers THEN "off" ELSE "ready")

\* The SELECT for the first Target comes before the transaction.
LookForTarget(p) ==
  /\ at[p] = "look"
  /\ Goto(p, IF rows[1] = NoRow THEN "insert" ELSE "update")
  /\ UNCHANGED <<schemaVars, settingVars, rowVars, count, known, webVars, faults>>

\* The first INSERT or UPDATE takes the lock; an INSERT of what somebody has
\* inserted since fails, and the import with it.
BeginImport(p) ==
  /\ at[p] \in {"insert", "update"}
  /\ Unlocked
  /\ IF at[p] = "insert" /\ rows[1] # NoRow
     THEN ImportOver(p) /\ UNCHANGED <<lock, draft, count>>
     ELSE /\ lock' = p
          /\ draft' = [rows EXCEPT ![1] = FileRow]
          /\ Count(p, 1)
          /\ Goto(p, "import")
  /\ UNCHANGED <<schemaVars, settingVars, rows, intent, added, raced, known, webVars, faults>>

ImportTarget(p) ==
  /\ at[p] = "import"
  /\ count[p] < NTargets
  /\ draft' = [draft EXCEPT ![count[p] + 1] = FileRow]
  /\ Count(p, count[p] + 1)
  /\ UNCHANGED <<schemaVars, settingVars, rows, lock, intent, added, raced, at, known, webVars, faults>>

\* Mutant: each Target's statements are committed with it.
CommitEach(p) ==
  /\ at[p] = "import"
  /\ rows' = draft
  /\ intent' = [t \in Targets |-> Choice(draft[t])]
  /\ IF count[p] = NTargets
     THEN lock' = None /\ ImportOver(p) /\ UNCHANGED <<draft, count>>
     ELSE /\ draft' = [draft EXCEPT ![count[p] + 1] = FileRow]
          /\ Count(p, count[p] + 1)
          /\ UNCHANGED <<lock, at>>
  /\ UNCHANGED <<schemaVars, settingVars, added, raced, known, webVars, faults>>

\* import-json is the administrator's choice, a bootstrap only of Targets
\* nobody has chosen anything for.
CommitImport(p) ==
  /\ at[p] = "import"
  /\ count[p] = NTargets
  /\ rows' = draft
  /\ lock' = None
  /\ raced' = (raced \/ (p \notin Importers
                        /\ \E t \in Targets : Choice(rows[t]) \notin {NoRow, Choice(FileRow)}))
  /\ intent' = [t \in Targets |-> IF p \in Importers \/ intent[t] = NoRow
                                  THEN Choice(draft[t]) ELSE intent[t]]
  /\ ImportOver(p)
  /\ UNCHANGED <<schemaVars, settingVars, draft, added, count, known, webVars, faults>>

-----------------------------------------------------------------------------
(* A bridge's tool call: it reads its Target, and may discover where it is. *)

ReadTarget(b) ==
  /\ at[b] = "ready"
  /\ \E t \in Targets :
       /\ rows[t] # NoRow /\ rows[t].enabled
       /\ known' = [known EXCEPT ![b] = [target |-> t, row |-> rows[t]]]
  /\ Goto(b, "calling")
  /\ UNCHANGED <<schemaVars, settingVars, rowVars, count, webVars, faults>>

\* The call needs no Target, or its Target is unknown or disabled.
EndBridge(b) ==
  /\ at[b] = "ready"
  /\ Goto(b, "off")
  /\ UNCHANGED <<schemaVars, settingVars, rowVars, count, known, webVars, faults>>

\* Mutant: the row is written back as it was read, with the new host.
WriteWholeRow(b) ==
  /\ at[b] = "calling"
  /\ \/ /\ Unlocked
        /\ \E h \in Hosts :
             rows' = [rows EXCEPT ![known[b].target] = [known[b].row EXCEPT !.host = h]]
     \/ UNCHANGED rows
  /\ known' = [known EXCEPT ![b] = NoRow]
  /\ Goto(b, "off")
  /\ UNCHANGED <<schemaVars, settingVars, lock, draft, intent, added, raced, count, webVars, faults>>

\* update_target with the host (the port is left out), or no change.
EndCall(b) ==
  /\ at[b] = "calling"
  /\ \/ /\ Unlocked
        /\ \E h \in Hosts : rows' = [rows EXCEPT ![known[b].target].host = h]
     \/ UNCHANGED rows
  /\ known' = [known EXCEPT ![b] = NoRow]
  /\ Goto(b, "off")
  /\ UNCHANGED <<schemaVars, settingVars, lock, draft, intent, added, raced, count, webVars, faults>>

-----------------------------------------------------------------------------
(* The console's requests that change the Registry.                        *)

Free(w) == serving[w] = Idle
Reply(w) == serving' = [serving EXCEPT ![w] = Idle]

\* Mutant: a server with threads.
WorkerFree(w) == at[Console] = "ready" /\ Free(w) /\ Asks

\* wsgiref's server takes the next request when it has served the last.
Accept(w) == at[Console] = "ready" /\ (\A v \in Workers : Free(v)) /\ Asks

AddTarget(w, t, h, e) ==
  /\ Accept(w)
  /\ Unlocked
  /\ rows[t] = NoRow
  /\ rows' = [rows EXCEPT ![t] = [host |-> h, enabled |-> e, project |-> "none"]]
  /\ intent' = [intent EXCEPT ![t] = Choice(rows'[t])]
  /\ added' = added \cup {t}
  /\ UNCHANGED <<schemaVars, settingVars, lock, draft, raced, procVars, serving, faults>>

\* The form sets every column of the Target; the host may be one that was
\* stale when the form was sent.
EditTarget(w, t, h, e) ==
  /\ Accept(w)
  /\ Unlocked
  /\ rows[t] # NoRow
  /\ rows' = [rows EXCEPT ![t].host = h, ![t].enabled = e]
  /\ intent' = [intent EXCEPT ![t] = Choice(rows'[t])]
  /\ UNCHANGED <<schemaVars, settingVars, lock, draft, added, raced, procVars, serving, faults>>

\* project_add and project_edit.
PutProject(w, t, kind) ==
  /\ Accept(w)
  /\ Unlocked
  /\ rows[t] # NoRow
  /\ rows' = [rows EXCEPT ![t].project = kind]
  /\ intent' = [intent EXCEPT ![t] = Choice(rows'[t])]
  /\ UNCHANGED <<schemaVars, settingVars, lock, draft, added, raced, procVars, serving, faults>>

\* target_toggle reads, and then writes the opposite of what it has read.
ReadEnabled(w, t) ==
  /\ Accept(w)
  /\ rows[t] # NoRow
  /\ serving' = [serving EXCEPT ![w] = [kind |-> "target", target |-> t, on |-> ~rows[t].enabled]]
  /\ UNCHANGED <<schemaVars, settingVars, rowVars, procVars, faults>>

WriteEnabled(w) ==
  /\ serving[w].kind = "target"
  /\ Unlocked
  /\ LET t == serving[w].target IN
       /\ rows' = [rows EXCEPT ![t].enabled = serving[w].on]
       /\ intent' = [intent EXCEPT ![t] = Choice(rows'[t])]
  /\ Reply(w)
  /\ UNCHANGED <<schemaVars, settingVars, lock, draft, added, raced, procVars, requests, faults>>

\* project_toggle_write, likewise.
ReadWritable(w, t) ==
  /\ Accept(w)
  /\ rows[t] # NoRow /\ rows[t].project # "none"
  /\ serving' = [serving EXCEPT ![w] =
                   [kind |-> "project", target |-> t, on |-> rows[t].project = "read"]]
  /\ UNCHANGED <<schemaVars, settingVars, rowVars, procVars, faults>>

WriteWritable(w) ==
  /\ serving[w].kind = "project"
  /\ Unlocked
  /\ LET t == serving[w].target IN
       /\ rows' = [rows EXCEPT ![t].project = IF serving[w].on THEN "write" ELSE "read"]
       /\ intent' = [intent EXCEPT ![t] = Choice(rows'[t])]
  /\ Reply(w)
  /\ UNCHANGED <<schemaVars, settingVars, lock, draft, added, raced, procVars, requests, faults>>

\* toggle_kill_switch, toggle_writes_switch, toggle_shell_switch.
ReadSwitch(w, s) ==
  /\ Accept(w)
  /\ serving' = [serving EXCEPT ![w] = [kind |-> "switch", switch |-> s, on |-> ~switches[s]]]
  /\ panicked' = (panicked /\ s # "writes")
  /\ UNCHANGED <<schemaVars, switches, limits, saved, torn, rowVars, procVars, faults>>

WriteSwitch(w) ==
  /\ serving[w].kind = "switch"
  /\ Unlocked
  /\ switches' = [switches EXCEPT ![serving[w].switch] = serving[w].on]
  /\ Reply(w)
  /\ UNCHANGED <<schemaVars, limits, panicked, saved, torn, rowVars, procVars, requests, faults>>

\* disable_writes.
DisableWrites(w) ==
  /\ Accept(w)
  /\ Unlocked
  /\ switches' = [switches EXCEPT !["writes"] = FALSE]
  /\ panicked' = TRUE
  /\ UNCHANGED <<schemaVars, limits, saved, torn, rowVars, procVars, serving, faults>>

\* The form is checked as a whole, and saved a setting at a time.
SubmitSettings(w, form) ==
  /\ Accept(w)
  /\ serving' = [serving EXCEPT ![w] = [kind |-> "settings", form |-> form, next |-> 1]]
  /\ saved' = form /\ torn' = FALSE
  /\ UNCHANGED <<schemaVars, switches, limits, panicked, rowVars, procVars, faults>>

SaveSetting(w) ==
  /\ serving[w].kind = "settings"
  /\ Unlocked
  /\ LET k == serving[w].next IN
       /\ limits' = [limits EXCEPT ![k] = serving[w].form[k]]
       /\ IF k = NLimits THEN Reply(w)
          ELSE serving' = [serving EXCEPT ![w].next = k + 1]
  /\ UNCHANGED <<schemaVars, switches, panicked, saved, torn, rowVars, procVars, requests, faults>>

-----------------------------------------------------------------------------
(* Faults: a process is killed, or waits for the write lock in vain.       *)

Fails == faults < MaxFaults /\ faults' = faults + 1

Saving == \E w \in Workers : serving[w].kind = "settings"

\* What a transaction has not committed is rolled back.
Kill(p) ==
  /\ Fails
  /\ at[p] # "off"
  /\ Goto(p, "off")
  /\ lock' = IF lock = p THEN None ELSE lock
  /\ known' = [b \in Bridges |-> IF b = p THEN NoRow ELSE known[b]]
  /\ IF p = Console
     THEN /\ serving' = [w \in Workers |-> Idle]
          /\ torn' = (torn \/ Saving)
     ELSE UNCHANGED <<serving, torn>>
  /\ UNCHANGED <<schemaVars, switches, limits, panicked, saved,
                 rows, draft, intent, added, raced, count, requests>>

\* It ends the process that opens the Registry; an import fails.
OpeningIsBusy(p) ==
  /\ Fails
  /\ lock \notin {None, p}
  /\ at[p] \in {"create", "mark", "defaults", "insert", "update"}
  /\ IF at[p] \in {"insert", "update"} THEN ImportOver(p) ELSE Goto(p, "off")
  /\ UNCHANGED <<schemaVars, settingVars, rowVars, count, known, webVars>>

\* It is an internal error of the request.
RequestIsBusy(w) ==
  /\ Fails
  /\ lock # None
  /\ ~Free(w)
  /\ torn' = (torn \/ serving[w].kind = "settings")
  /\ Reply(w)
  /\ UNCHANGED <<schemaVars, switches, limits, panicked, saved, rowVars, procVars, requests>>

-----------------------------------------------------------------------------
Opening(p) ==
  \/ ReadVersion(p) \/ CreateTable(p) \/ MarkVersion(p) \/ InsertDefaults(p)
  \/ CountTargets(p) \/ LookForTarget(p) \/ BeginImport(p) \/ ImportTarget(p) \/ CommitImport(p)

Request(w) ==
  \/ \E t \in Targets, h \in Hosts, e \in BOOLEAN : AddTarget(w, t, h, e) \/ EditTarget(w, t, h, e)
  \/ \E t \in Targets, kind \in {"read", "write"} : PutProject(w, t, kind)
  \/ \E t \in Targets : ReadEnabled(w, t) \/ ReadWritable(w, t)
  \/ \E s \in Switches : ReadSwitch(w, s)
  \/ DisableWrites(w)
  \/ \E form \in [1 .. NLimits -> Limits] : SubmitSettings(w, form)

Serve(w) == WriteEnabled(w) \/ WriteWritable(w) \/ WriteSwitch(w) \/ SaveSetting(w)

Next ==
  \/ \E p \in Procs : Start(p) \/ Opening(p) \/ Kill(p) \/ OpeningIsBusy(p)
  \/ \E b \in Bridges : ReadTarget(b) \/ EndCall(b) \/ EndBridge(b)
  \/ \E w \in Workers : Request(w) \/ Serve(w) \/ RequestIsBusy(w)

\* systemd starts the console again when it has failed (Restart=on-failure,
\* StartLimitBurst=5); a process that runs goes on opening the Registry.
Fairness ==
  /\ WF_vars(Start(Console))
  /\ \A p \in Procs : WF_vars(Opening(p))

Spec == Init /\ [][Next]_vars /\ Fairness

-----------------------------------------------------------------------------
(* Properties                                                              *)

Places == {"off", "version", "create", "mark", "defaults", "count",
           "look", "insert", "update", "import", "ready", "calling"}

Served ==
  {Idle} \cup [kind : {"target", "project"}, target : Targets, on : BOOLEAN]
         \cup [kind : {"switch"}, switch : Switches, on : BOOLEAN]
         \cup [kind : {"settings"}, form : [1 .. NLimits -> Limits], next : 1 .. NLimits]

\* Types, and what serves the rest: the lock is held by who imports.
TypeOK ==
  /\ tables \in 0 .. NTables /\ version \in {0, 1} /\ stored \in BOOLEAN
  /\ switches \in [Switches -> BOOLEAN] /\ limits \in [1 .. NLimits -> Limits]
  /\ rows \in [Targets -> Row \cup {NoRow}] /\ draft \in [Targets -> Row \cup {NoRow}]
  /\ lock \in Procs \cup {None}
  /\ at \in [Procs -> Places] /\ count \in [Procs -> Nat]
  /\ known \in [Bridges -> {NoRow} \cup [target : Targets, row : Row]]
  /\ serving \in [Workers -> Served]
  /\ requests \in 0 .. MaxRequests /\ faults \in 0 .. MaxFaults
  /\ raced \in BOOLEAN /\ panicked \in BOOLEAN /\ torn \in BOOLEAN
  /\ added \subseteq Targets /\ saved \in [1 .. NLimits -> Limits]

\* Whatever processes open the Registry at once, and wherever they are
\* killed: a version of 1 is that of a whole schema, and who has opened the
\* Registry finds the schema whole and the settings stored.
StartedOnWholeSchema ==
  /\ version = 1 => tables = NTables
  /\ \A p \in Procs : at[p] \in {"count", "look", "insert", "update", "import", "ready", "calling"}
                        => version = 1 /\ stored

\* An import is done in whole or not at all: besides the Targets the
\* administrator has added there are all of the file's, or none.
ImportedWhole ==
  {t \in Targets : rows[t] # NoRow} \in {added, Targets}

\* Neither a discovery nor a process that opens the Registry changes what
\* the administrator has chosen for a Target, except that a bootstrap which
\* counted the Targets before there were any may write over what was chosen
\* since.
AdminHasTheLastWord ==
  raced \/ intent = [t \in Targets |-> Choice(rows[t])]

\* Once writes are disabled in an emergency they stay so, until somebody asks
\* to switch them: no request from before enables them again.
PanicHolds == panicked => ~switches["writes"]

\* The limits in force are one form's, unless it was not saved to its end;
\* opening the Registry does not reset them.
OneFormAtATime == Saving \/ torn \/ limits = saved

\* Somebody's schema was left half made.
HalfMade ==
  /\ version = 0 /\ tables > 0
  /\ \A p \in Procs : at[p] \notin {"create", "mark"} \/ (at[p] = "create" /\ count[p] # tables)

\* The console that is started serves, or the schema was left half made: no
\* race to make it, and no import, keeps the console from serving for ever.
ConsoleServes == at[Console] = "version" ~> (at[Console] = "ready" \/ HalfMade)
=============================================================================
