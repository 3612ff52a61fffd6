------------------------- MODULE RegistryAdmin_proofs -------------------------
(***************************************************************************)
(* Theorems about the Registry and its console, for any processes, Targets *)
(* and settings, and any number of requests and faults.                    *)
(***************************************************************************)
EXTENDS RegistryAdmin, TLAPS

USE RegistryAssumption, NoRowAssumption DEF Procs, Targets

-----------------------------------------------------------------------------
(* Where processes are: who imports has the lock, and a count is in range. *)

AtOK ==
  /\ at \in [Procs -> Places] /\ count \in [Procs -> Nat]
  /\ lock \in Procs \cup {None}
  /\ tables \in Nat /\ version \in {0, 1} /\ stored \in BOOLEAN
  /\ \A p \in Procs : at[p] = "import" <=> lock = p
  /\ \A p \in Procs : at[p] = "create" => count[p] < NTables
  /\ \A p \in Procs : at[p] = "import" => count[p] \in 1 .. NTargets

Opened == {"count", "look", "insert", "update", "import", "ready", "calling"}

\* StartedOnWholeSchema, with those that are about to open the Registry.
SchemaInv ==
  /\ AtOK
  /\ tables <= NTables
  /\ version = 1 => tables = NTables
  /\ \A p \in Procs : at[p] = "mark" => tables = NTables
  /\ \A p \in Procs : at[p] = "defaults" => version = 1
  /\ \A p \in Procs : at[p] \in Opened => version = 1 /\ stored

\* The initial states.
LEMMA SchemaInit == Init => SchemaInv
<1> SUFFICES ASSUME Init PROVE SchemaInv
  OBVIOUS
<1>1. /\ at = [p \in Procs |-> "off"] /\ count = [p \in Procs |-> 0]
      /\ lock = None /\ tables = 0 /\ version = 0 /\ stored = FALSE
  BY DEF Init
<1>2. \A p \in Procs : at[p] = "off" /\ p # None
  BY <1>1
<1>3. AtOK
  BY <1>1, <1>2 DEF AtOK, Places
<1> QED
  BY <1>1, <1>2, <1>3 DEF SchemaInv, Opened

\* A step of a process that opens the Registry.
LEMMA SchemaOpening ==
  ASSUME SchemaInv, NEW p \in Procs, Start(p) \/ Opening(p)
  PROVE  SchemaInv'
<1>1. CASE Start(p)
  BY <1>1 DEF Start, Goto, SchemaInv, AtOK, Places, Opened, schemaVars, rowVars
<1>2. CASE ReadVersion(p)
  BY <1>2 DEF ReadVersion, Goto, Count, SchemaInv, AtOK, Places, Opened, schemaVars, rowVars
<1>3. CASE CreateTable(p)
  BY <1>3 DEF CreateTable, Goto, Count, SchemaInv, AtOK, Places, Opened, Unlocked, rowVars
<1>4. CASE MarkVersion(p)
  BY <1>4 DEF MarkVersion, Goto, SchemaInv, AtOK, Places, Opened, rowVars
<1>5. CASE InsertDefaults(p)
  BY <1>5 DEF InsertDefaults, Goto, SchemaInv, AtOK, Places, Opened, rowVars
<1>6. CASE CountTargets(p)
  BY <1>6 DEF CountTargets, Goto, SchemaInv, AtOK, Places, Opened, schemaVars, rowVars
<1>7. CASE LookForTarget(p)
  BY <1>7 DEF LookForTarget, Goto, SchemaInv, AtOK, Places, Opened, schemaVars, rowVars
<1>8. CASE BeginImport(p)
  BY <1>8 DEF BeginImport, ImportOver, Goto, Count, SchemaInv, AtOK, Places, Opened, Unlocked, schemaVars
<1>9. CASE ImportTarget(p)
  BY <1>9 DEF ImportTarget, Count, SchemaInv, AtOK, Places, Opened, schemaVars
<1>10. CASE CommitImport(p)
  BY <1>10 DEF CommitImport, ImportOver, Goto, SchemaInv, AtOK, Places, Opened, schemaVars
<1> QED
  BY <1>1, <1>2, <1>3, <1>4, <1>5, <1>6, <1>7, <1>8, <1>9, <1>10 DEF Opening

\* A step of anything else.
LEMMA SchemaOthers ==
  ASSUME SchemaInv, [Next]_vars, ~\E p \in Procs : Start(p) \/ Opening(p)
  PROVE  SchemaInv'
<1>1. ASSUME NEW p \in Procs, Kill(p) PROVE SchemaInv'
  BY <1>1 DEF Kill, Goto, SchemaInv, AtOK, Places, Opened, schemaVars
<1>2. ASSUME NEW p \in Procs, OpeningIsBusy(p) PROVE SchemaInv'
  BY <1>2 DEF OpeningIsBusy, ImportOver, Goto, SchemaInv, AtOK, Places, Opened, schemaVars, rowVars
<1>3. ASSUME NEW b \in Bridges, ReadTarget(b) \/ EndCall(b) \/ EndBridge(b) PROVE SchemaInv'
  BY <1>3 DEF ReadTarget, EndCall, EndBridge, Goto, SchemaInv, AtOK, Places, Opened, schemaVars, rowVars
<1>4. ASSUME NEW w \in Workers, Request(w) \/ Serve(w) \/ RequestIsBusy(w)
      PROVE  UNCHANGED <<schemaVars, lock, at, count>>
  BY <1>4 DEF Request, Serve, RequestIsBusy, AddTarget, EditTarget, PutProject, ReadEnabled,
              WriteEnabled, ReadWritable, WriteWritable, ReadSwitch, WriteSwitch, DisableWrites,
              SubmitSettings, SaveSetting, procVars, rowVars
<1>5. ASSUME UNCHANGED <<schemaVars, lock, at, count>> PROVE SchemaInv'
  BY <1>5 DEF SchemaInv, AtOK, schemaVars
<1>6. CASE UNCHANGED vars
  BY <1>5, <1>6 DEF vars, rowVars, procVars
<1> QED
  BY <1>1, <1>2, <1>3, <1>4, <1>5, <1>6 DEF Next

\* Every reachable state has SchemaInv.
LEMMA SchemaAlways == Spec => []SchemaInv
<1>1. SchemaInv /\ [Next]_vars => SchemaInv'
  BY SchemaOpening, SchemaOthers
<1> QED
  BY SchemaInit, <1>1, PTL DEF Spec

\* StartedOnWholeSchema: whoever makes the schema, and is killed doing so, a
\* process that has opened the Registry (schema.py) finds it whole.
THEOREM EveryoneStartsOnWholeSchema == Spec => []StartedOnWholeSchema
<1>1. SchemaInv => StartedOnWholeSchema
  BY DEF SchemaInv, StartedOnWholeSchema, Opened
<1> QED
  BY SchemaAlways, <1>1, PTL

-----------------------------------------------------------------------------
(* The rows: what somebody is about to change is there, and stays.         *)

Rows == [Targets -> Row \cup {NoRow}]

RowsOK ==
  /\ rows \in Rows /\ draft \in Rows
  /\ lock # None => \A t \in Targets : rows[t] # NoRow => draft[t] # NoRow

ServingOK ==
  /\ serving \in [Workers -> Served]
  /\ \A w \in Workers : serving[w].kind \in {"target", "project"} => rows[serving[w].target] # NoRow

CallingOK ==
  /\ known \in [Bridges -> {NoRow} \cup [target : Targets, row : Row]]
  /\ \A b \in Bridges : at[b] = "calling" => known[b] # NoRow /\ rows[known[b].target] # NoRow

RowInv == RowsOK /\ ServingOK /\ CallingOK

Grows == \A t \in Targets : rows[t] # NoRow => rows'[t] # NoRow

\* A request that is served is of its kind's shape.
LEMMA ServedKinds ==
  ASSUME NEW s \in Served
  PROVE  /\ s.kind \in {"idle", "target", "project", "switch", "settings"}
         /\ s = Idle <=> s.kind = "idle"
         /\ s.kind \in {"target", "project"} => s.target \in Targets /\ s.on \in BOOLEAN
         /\ s.kind = "switch" => s.switch \in Switches /\ s.on \in BOOLEAN
         /\ s.kind = "settings" => /\ s.form \in [1 .. NLimits -> Limits]
                                   /\ s.next \in 1 .. NLimits
BY DEF Served, Idle

\* The shapes a request can be given.
LEMMA ServedShapes ==
  /\ Idle \in Served
  /\ \A k \in {"target", "project"}, t \in Targets, e \in BOOLEAN :
       [kind |-> k, target |-> t, on |-> e] \in Served
  /\ \A x \in Switches, e \in BOOLEAN : [kind |-> "switch", switch |-> x, on |-> e] \in Served
  /\ \A f \in [1 .. NLimits -> Limits], k \in 1 .. NLimits :
       [kind |-> "settings", form |-> f, next |-> k] \in Served
BY DEF Served

\* A change of some columns of a row that is there leaves a row.
LEMMA RowChanges ==
  ASSUME NEW r \in Row, NEW h \in Hosts, NEW e \in BOOLEAN, NEW k \in {"none", "read", "write"}
  PROVE  /\ [r EXCEPT !.host = h] \in Row
         /\ [r EXCEPT !.enabled = e] \in Row
         /\ [r EXCEPT !.host = h, !.enabled = e] \in Row
         /\ [r EXCEPT !.project = k] \in Row
BY DEF Row

\* What is chosen of a row is never NoRow.
LEMMA Choices ==
  ASSUME NEW r \in Row
  PROVE  r # NoRow /\ Choice(r) # NoRow /\ Choice(NoRow) = NoRow
BY DEF Row, Choice

\* What the file says is a row.
LEMMA FileRowIsRow == FileRow \in Row
BY DEF FileRow, Row

\* Changing a row in place keeps all rows there.
LEMMA ChangeOneRow ==
  ASSUME NEW r \in Rows, NEW t \in Targets, NEW x \in Row
  PROVE  /\ [r EXCEPT ![t] = x] \in Rows
         /\ \A u \in Targets : r[u] # NoRow => [r EXCEPT ![t] = x][u] # NoRow
BY Choices DEF Rows

\* The initial states.
LEMMA RowInit == Init => RowInv
<1> SUFFICES ASSUME Init PROVE RowInv
  OBVIOUS
<1>1. RowsOK
  BY DEF Init, RowsOK, Rows
<1>2. ServingOK
  <2>1. serving = [w \in Workers |-> Idle]
    BY DEF Init
  <2> QED
    BY <2>1, ServedShapes DEF ServingOK, Idle
<1>3. CallingOK
  <2>1. at = [p \in Procs |-> "off"] /\ known = [b \in Bridges |-> NoRow]
    BY DEF Init
  <2> QED
    BY <2>1 DEF CallingOK
<1> QED
  BY <1>1, <1>2, <1>3 DEF RowInv

\* An import's steps.
LEMMA RowsImport ==
  ASSUME SchemaInv, RowsOK, NEW p \in Procs, BeginImport(p) \/ ImportTarget(p) \/ CommitImport(p)
  PROVE  RowsOK' /\ Grows /\ UNCHANGED <<serving, known>>
<1>1. CASE BeginImport(p)
  <2>1. CASE UNCHANGED <<lock, draft>>
    BY <1>1, <2>1 DEF BeginImport, RowsOK, Grows, webVars
  <2>2. CASE draft' = [rows EXCEPT ![1] = FileRow]
    <3>1. 1 \in Targets
      OBVIOUS
    <3> QED
      BY <1>1, <2>2, <3>1, ChangeOneRow, FileRowIsRow DEF BeginImport, RowsOK, Grows, webVars
  <2> QED
    BY <1>1, <2>1, <2>2 DEF BeginImport
<1>2. CASE ImportTarget(p)
  <2>1. count[p] + 1 \in Targets
    BY <1>2 DEF ImportTarget, SchemaInv, AtOK
  <2>2. draft' = [draft EXCEPT ![count[p] + 1] = FileRow] /\ UNCHANGED <<rows, lock, serving, known>>
    BY <1>2 DEF ImportTarget, webVars
  <2> QED
    BY <2>1, <2>2, ChangeOneRow, FileRowIsRow DEF RowsOK, Grows
<1>3. CASE CommitImport(p)
  <2>1. lock = p
    BY <1>3 DEF CommitImport, SchemaInv, AtOK
  <2> QED
    BY <1>3, <2>1 DEF CommitImport, RowsOK, Grows, webVars
<1> QED
  BY <1>1, <1>2, <1>3

\* A change of one row that is there, or of none.
LEMMA RowsChange ==
  ASSUME RowsOK, lock = None, UNCHANGED <<lock, draft>>,
         NEW t \in Targets, NEW x \in Row, rows' = [rows EXCEPT ![t] = x]
  PROVE  RowsOK' /\ Grows
BY ChangeOneRow DEF RowsOK, Grows

\* What a request leaves of the rows and of what is served.
Kept == RowsOK' /\ Grows /\ ServingOK'

\* A request that has not been answered is served on while rows stay.
LEMMA ServingStays ==
  ASSUME ServingOK, Grows, UNCHANGED serving
  PROVE  ServingOK'
<1> SUFFICES ASSUME NEW w \in Workers, serving[w].kind \in {"target", "project"}
             PROVE  rows'[serving[w].target] # NoRow
  BY DEF ServingOK
<1>1. serving[w].target \in Targets /\ rows[serving[w].target] # NoRow
  BY ServedKinds DEF ServingOK
<1> QED
  BY <1>1 DEF Grows

\* The same with one worker's request answered, or begun on a row that is there.
LEMMA ServingOne ==
  ASSUME ServingOK, Grows, NEW w \in Workers, NEW s \in Served,
         serving' = [serving EXCEPT ![w] = s],
         s.kind \in {"target", "project"} => rows'[s.target] # NoRow
  PROVE  ServingOK'
<1>1. serving' \in [Workers -> Served]
  BY DEF ServingOK
<1>2. ASSUME NEW v \in Workers, serving'[v].kind \in {"target", "project"}
      PROVE  rows'[serving'[v].target] # NoRow
  <2>1. CASE v = w
    BY <1>2, <2>1 DEF ServingOK
  <2>2. CASE v # w
    <3>1. serving'[v] = serving[v]
      BY <2>2 DEF ServingOK
    <3>2. serving[v].target \in Targets /\ rows[serving[v].target] # NoRow
      BY <1>2, <3>1, ServedKinds DEF ServingOK
    <3> QED
      BY <3>1, <3>2 DEF Grows
  <2> QED
    BY <2>1, <2>2
<1> QED
  BY <1>1, <1>2 DEF ServingOK

\* Rows that stay as they are.
LEMMA RowsStay ==
  ASSUME RowsOK, UNCHANGED <<rows, lock, draft>>
  PROVE  RowsOK' /\ Grows
BY DEF RowsOK, Grows

\* Requests that are served in one step.
LEMMA KeptByForms ==
  ASSUME RowInv, NEW w \in Workers, NEW t \in Targets, NEW h \in Hosts, NEW e \in BOOLEAN,
         NEW k \in {"read", "write"},
         AddTarget(w, t, h, e) \/ EditTarget(w, t, h, e) \/ PutProject(w, t, k)
  PROVE  Kept
<1>0. RowsOK /\ ServingOK /\ UNCHANGED serving /\ lock = None /\ UNCHANGED <<lock, draft>>
  BY DEF RowInv, AddTarget, EditTarget, PutProject, Unlocked
<1>1. \E x \in Row : rows' = [rows EXCEPT ![t] = x]
  <2>1. CASE AddTarget(w, t, h, e)
    <3>1. [host |-> h, enabled |-> e, project |-> "none"] \in Row
      BY DEF Row
    <3> QED
      BY <2>1, <3>1 DEF AddTarget
  <2>2. CASE EditTarget(w, t, h, e)
    <3>1. rows[t] \in Row
      BY <1>0, <2>2 DEF EditTarget, RowsOK, Rows
    <3>2. rows' = [rows EXCEPT ![t] = [rows[t] EXCEPT !.host = h, !.enabled = e]]
      BY <1>0, <2>2 DEF EditTarget, RowsOK, Rows
    <3> QED
      BY <3>1, <3>2, RowChanges
  <2>3. CASE PutProject(w, t, k)
    <3>1. rows[t] \in Row
      BY <1>0, <2>3 DEF PutProject, RowsOK, Rows
    <3>2. rows' = [rows EXCEPT ![t] = [rows[t] EXCEPT !.project = k]]
      BY <1>0, <2>3 DEF PutProject, RowsOK, Rows
    <3> QED
      BY <3>1, <3>2, RowChanges
  <2> QED
    BY <2>1, <2>2, <2>3
<1> QED
  BY <1>0, <1>1, RowsChange, ServingStays DEF Kept

\* The first steps of requests with two.
LEMMA KeptByReading ==
  ASSUME RowInv, NEW w \in Workers, NEW t \in Targets, NEW x \in Switches,
         NEW form \in [1 .. NLimits -> Limits],
         \/ ReadEnabled(w, t) \/ ReadWritable(w, t) \/ ReadSwitch(w, x)
         \/ DisableWrites(w) \/ SubmitSettings(w, form)
  PROVE  Kept
<1>0. RowsOK /\ ServingOK /\ UNCHANGED <<rows, lock, draft>>
  BY DEF RowInv, ReadEnabled, ReadWritable, ReadSwitch, DisableWrites, SubmitSettings, rowVars
<1>1. RowsOK' /\ Grows
  BY <1>0, RowsStay
<1>2. CASE ReadEnabled(w, t)
  <2> DEFINE s == [kind |-> "target", target |-> t, on |-> ~rows[t].enabled]
  <2>1. s \in Served
    BY ServedShapes
  <2> QED
    BY <1>0, <1>1, <1>2, <2>1, ServingOne DEF ReadEnabled, Kept
<1>3. CASE ReadWritable(w, t)
  <2> DEFINE s == [kind |-> "project", target |-> t, on |-> rows[t].project = "read"]
  <2>1. s \in Served
    BY ServedShapes
  <2> QED
    BY <1>0, <1>1, <1>3, <2>1, ServingOne DEF ReadWritable, Kept
<1>4. CASE ReadSwitch(w, x)
  <2> DEFINE s == [kind |-> "switch", switch |-> x, on |-> ~switches[x]]
  <2>1. s \in Served
    BY ServedShapes
  <2> QED
    BY <1>0, <1>1, <1>4, <2>1, ServingOne DEF ReadSwitch, Kept
<1>5. CASE DisableWrites(w)
  BY <1>0, <1>1, <1>5, ServingStays DEF DisableWrites, Kept
<1>6. CASE SubmitSettings(w, form)
  <2> DEFINE s == [kind |-> "settings", form |-> form, next |-> 1]
  <2>1. s \in Served
    <3>1. 1 \in 1 .. NLimits
      OBVIOUS
    <3> QED
      BY <3>1, ServedShapes
  <2> QED
    BY <1>0, <1>1, <1>6, <2>1, ServingOne DEF SubmitSettings, Kept
<1> QED
  BY <1>2, <1>3, <1>4, <1>5, <1>6

\* Their later steps.
LEMMA KeptByServing ==
  ASSUME RowInv, NEW w \in Workers, Serve(w) \/ RequestIsBusy(w)
  PROVE  Kept
<1>0. RowsOK /\ ServingOK /\ serving[w] \in Served /\ Idle \in Served /\ Idle.kind = "idle"
  BY ServedShapes DEF RowInv, ServingOK, Idle
<1>1. CASE WriteEnabled(w) \/ WriteWritable(w)
  <2> DEFINE t == serving[w].target
  <2>1. serving[w].kind \in {"target", "project"}
    BY <1>1 DEF WriteEnabled, WriteWritable
  <2>2. t \in Targets /\ serving[w].on \in BOOLEAN /\ rows[t] \in Row
    BY <1>0, <2>1, ServedKinds DEF RowsOK, Rows, ServingOK
  <2>3. \E x \in Row : rows' = [rows EXCEPT ![t] = x]
    <3>1. CASE WriteEnabled(w)
      <4>1. rows' = [rows EXCEPT ![t] = [rows[t] EXCEPT !.enabled = serving[w].on]]
        BY <1>0, <2>2, <3>1 DEF WriteEnabled, RowsOK, Rows
      <4>2. [rows[t] EXCEPT !.enabled = serving[w].on] \in Row
        BY <2>2 DEF Row
      <4> QED
        BY <4>1, <4>2
    <3>2. CASE WriteWritable(w)
      <4> DEFINE k == IF serving[w].on THEN "write" ELSE "read"
      <4>1. rows' = [rows EXCEPT ![t] = [rows[t] EXCEPT !.project = k]]
        BY <1>0, <2>2, <3>2 DEF WriteWritable, RowsOK, Rows
      <4>2. [rows[t] EXCEPT !.project = k] \in Row
        BY <2>2 DEF Row
      <4> QED
        BY <4>1, <4>2
    <3> QED
      BY <1>1, <3>1, <3>2
  <2>4. lock = None /\ UNCHANGED <<lock, draft>> /\ serving' = [serving EXCEPT ![w] = Idle]
    BY <1>1 DEF WriteEnabled, WriteWritable, Unlocked, Reply
  <2>5. RowsOK' /\ Grows
    BY <1>0, <2>2, <2>3, <2>4, RowsChange
  <2> QED
    BY <1>0, <2>4, <2>5, ServingOne DEF Kept
<1>2. CASE WriteSwitch(w) \/ SaveSetting(w) \/ RequestIsBusy(w)
  <2>1. UNCHANGED <<rows, lock, draft>>
    BY <1>2 DEF WriteSwitch, SaveSetting, RequestIsBusy, rowVars
  <2>2. RowsOK' /\ Grows
    BY <1>0, <2>1, RowsStay
  <2>3. \E s \in Served : /\ serving' = [serving EXCEPT ![w] = s]
                          /\ s.kind \notin {"target", "project"}
    <3>1. CASE Reply(w)
      BY <1>0, <3>1 DEF Reply
    <3>2. CASE ~Reply(w)
      <4>1. /\ SaveSetting(w) /\ serving[w].kind = "settings" /\ serving[w].next # NLimits
            /\ serving' = [serving EXCEPT ![w].next = serving[w].next + 1]
        BY <1>2, <3>2 DEF WriteSwitch, SaveSetting, RequestIsBusy
      <4> DEFINE s == [serving[w] EXCEPT !.next = serving[w].next + 1]
      <4>2. serving' = [serving EXCEPT ![w] = s]
        BY <1>0, <4>1 DEF ServingOK
      <4>3. s \in Served /\ s.kind = "settings"
        BY <1>0, <4>1 DEF Served, Idle
      <4> QED
        BY <4>2, <4>3
    <3> QED
      BY <3>1, <3>2
  <2> QED
    BY <1>0, <2>2, <2>3, ServingOne DEF Kept
<1> QED
  BY <1>1, <1>2 DEF Serve

\* A bridge that is not touched is served on while rows stay.
LEMMA CallingStays ==
  ASSUME SchemaInv, CallingOK, Grows, UNCHANGED known,
         \A b \in Bridges : at'[b] = "calling" => at[b] = "calling"
  PROVE  CallingOK'
<1> SUFFICES ASSUME NEW b \in Bridges, at[b] = "calling"
             PROVE  known[b] # NoRow /\ rows'[known[b].target] # NoRow
  BY DEF CallingOK
<1>1. known[b] # NoRow /\ known[b].target \in Targets /\ rows[known[b].target] # NoRow
  BY DEF CallingOK
<1> QED
  BY <1>1 DEF Grows

\* What bridges do.
LEMMA RowBridge ==
  ASSUME SchemaInv, RowInv, NEW b \in Bridges, ReadTarget(b) \/ EndCall(b) \/ EndBridge(b)
  PROVE  RowInv'
<1>0. RowsOK /\ ServingOK /\ CallingOK /\ at \in [Procs -> Places] /\ b \in Procs
  BY DEF RowInv, SchemaInv, AtOK
<1>1. CASE ReadTarget(b)
  <2>1. UNCHANGED <<rows, lock, draft, serving>>
    BY <1>1 DEF ReadTarget, rowVars, webVars
  <2>2. RowsOK' /\ Grows /\ ServingOK'
    BY <1>0, <2>1, RowsStay, ServingStays
  <2>3. PICK t \in Targets : /\ rows[t] # NoRow
                            /\ known' = [known EXCEPT ![b] = [target |-> t, row |-> rows[t]]]
    BY <1>1 DEF ReadTarget
  <2>4. [target |-> t, row |-> rows[t]] \in [target : Targets, row : Row]
    BY <1>0, <2>3 DEF RowsOK, Rows
  <2>5. at' = [at EXCEPT ![b] = "calling"]
    BY <1>1 DEF ReadTarget, Goto
  <2>6. known' \in [Bridges -> {NoRow} \cup [target : Targets, row : Row]]
    BY <1>0, <2>3, <2>4 DEF CallingOK
  <2>7. ASSUME NEW c \in Bridges, at'[c] = "calling"
        PROVE  known'[c] # NoRow /\ rows'[known'[c].target] # NoRow
    <3>1. CASE c = b
      BY <1>0, <2>1, <2>3, <2>4, <3>1 DEF CallingOK
    <3>2. CASE c # b
      BY <1>0, <2>1, <2>3, <2>5, <2>7, <3>2 DEF CallingOK
    <3> QED
      BY <3>1, <3>2
  <2> QED
    BY <2>2, <2>6, <2>7 DEF RowInv, CallingOK
<1>2. CASE EndCall(b)
  <2>1. UNCHANGED <<lock, draft, serving>> /\ known' = [known EXCEPT ![b] = NoRow]
        /\ at' = [at EXCEPT ![b] = "off"]
    BY <1>2 DEF EndCall, webVars, Goto
  <2>2. known[b] # NoRow /\ known[b].target \in Targets /\ rows[known[b].target] # NoRow
    BY <1>0, <1>2 DEF EndCall, CallingOK
  <2>3. RowsOK' /\ Grows
    <3>1. CASE UNCHANGED rows
      BY <1>0, <2>1, <3>1, RowsStay
    <3>2. CASE rows' # rows
      <4> DEFINE t == known[b].target
      <4>1. PICK h \in Hosts : rows' = [rows EXCEPT ![t].host = h]
        BY <1>2, <3>2 DEF EndCall
      <4>2. lock = None
        BY <1>2, <3>2 DEF EndCall, Unlocked
      <4>3. rows[t] \in Row
        BY <1>0, <2>2 DEF RowsOK, Rows
      <4>4. [rows[t] EXCEPT !.host = h] \in Row
        BY <4>3 DEF Row
      <4>5. rows' = [rows EXCEPT ![t] = [rows[t] EXCEPT !.host = h]]
        BY <1>0, <2>2, <4>1 DEF RowsOK, Rows
      <4> QED
        BY <1>0, <2>1, <2>2, <4>2, <4>4, <4>5, RowsChange
    <3> QED
      BY <3>1, <3>2
  <2>4. ServingOK'
    BY <1>0, <2>1, <2>3, ServingStays
  <2>5. ASSUME NEW c \in Bridges, at'[c] = "calling"
        PROVE  known'[c] # NoRow /\ rows'[known'[c].target] # NoRow
    <3>1. c # b /\ at[c] = "calling" /\ known'[c] = known[c]
      BY <1>0, <2>1, <2>5 DEF CallingOK
    <3>2. known[c] # NoRow /\ known[c].target \in Targets /\ rows[known[c].target] # NoRow
      BY <1>0, <3>1 DEF CallingOK
    <3> QED
      BY <2>3, <3>1, <3>2 DEF Grows
  <2>6. known' \in [Bridges -> {NoRow} \cup [target : Targets, row : Row]]
    BY <1>0, <2>1 DEF CallingOK
  <2> QED
    BY <2>3, <2>4, <2>5, <2>6 DEF RowInv, CallingOK
<1>3. CASE EndBridge(b)
  <2>1. UNCHANGED <<rows, lock, draft, serving, known>>
    BY <1>3 DEF EndBridge, rowVars, webVars
  <2>2. RowsOK' /\ Grows /\ ServingOK'
    BY <1>0, <2>1, RowsStay, ServingStays
  <2>3. \A c \in Bridges : at'[c] = "calling" => at[c] = "calling"
    BY <1>0, <1>3 DEF EndBridge, Goto
  <2> QED
    BY <1>0, <2>1, <2>2, <2>3, CallingStays DEF RowInv
<1> QED
  BY <1>1, <1>2, <1>3

\* Processes that open the Registry, fail, or are killed.
LEMMA RowProcess ==
  ASSUME SchemaInv, RowInv, NEW p \in Procs,
         Start(p) \/ Opening(p) \/ Kill(p) \/ OpeningIsBusy(p)
  PROVE  RowInv'
<1>0. RowsOK /\ ServingOK /\ CallingOK /\ at \in [Procs -> Places]
  BY DEF RowInv, SchemaInv, AtOK
<1>1. CASE BeginImport(p) \/ ImportTarget(p) \/ CommitImport(p)
  <2>1. RowsOK' /\ Grows /\ UNCHANGED <<serving, known>>
    BY <1>0, <1>1, RowsImport
  <2>2. \A c \in Bridges : at'[c] = "calling" => at[c] = "calling"
    BY <1>0, <1>1 DEF BeginImport, ImportTarget, CommitImport, ImportOver, Goto
  <2> QED
    BY <1>0, <2>1, <2>2, ServingStays, CallingStays DEF RowInv
<1>2. CASE \/ Start(p) \/ ReadVersion(p) \/ CreateTable(p) \/ MarkVersion(p) \/ InsertDefaults(p)
           \/ CountTargets(p) \/ LookForTarget(p) \/ OpeningIsBusy(p)
  <2>1. UNCHANGED <<rows, lock, draft, serving, known>>
    BY <1>2 DEF Start, ReadVersion, CreateTable, MarkVersion, InsertDefaults, CountTargets,
                LookForTarget, OpeningIsBusy, rowVars, webVars
  <2>2. RowsOK' /\ Grows /\ ServingOK'
    BY <1>0, <2>1, RowsStay, ServingStays
  <2>3. \A c \in Bridges : at'[c] = "calling" => at[c] = "calling"
    BY <1>0, <1>2 DEF Start, ReadVersion, CreateTable, MarkVersion, InsertDefaults, CountTargets,
                      LookForTarget, OpeningIsBusy, ImportOver, Goto
  <2> QED
    BY <1>0, <2>1, <2>2, <2>3, CallingStays DEF RowInv
<1>3. CASE Kill(p)
  <2>1. UNCHANGED <<rows, draft>> /\ at' = [at EXCEPT ![p] = "off"]
        /\ known' = [b \in Bridges |-> IF b = p THEN NoRow ELSE known[b]]
        /\ lock' = (IF lock = p THEN None ELSE lock)
    BY <1>3 DEF Kill, Goto
  <2>2. RowsOK' /\ Grows
    BY <1>0, <2>1 DEF RowsOK, Grows
  <2>3. ServingOK'
    <3>1. CASE UNCHANGED serving
      BY <1>0, <2>2, <3>1, ServingStays
    <3>2. CASE serving' = [w \in Workers |-> Idle]
      BY <3>2, ServedShapes DEF ServingOK, Idle
    <3> QED
      BY <1>3, <3>1, <3>2 DEF Kill
  <2>4. CallingOK'
    BY <1>0, <2>1 DEF CallingOK
  <2> QED
    BY <2>2, <2>3, <2>4 DEF RowInv
<1> QED
  BY <1>1, <1>2, <1>3 DEF Opening

\* What workers do.
LEMMA RowWorker ==
  ASSUME SchemaInv, RowInv, NEW w \in Workers, Request(w) \/ Serve(w) \/ RequestIsBusy(w)
  PROVE  RowInv'
<1>1. Kept
  <2>1. /\ 1 \in Targets /\ FileHost \in Hosts /\ TRUE \in BOOLEAN /\ "writes" \in Switches
        /\ "read" \in {"read", "write"}
        /\ [k \in 1 .. NLimits |-> DefaultLimit] \in [1 .. NLimits -> Limits]
    OBVIOUS
  <2>2. ASSUME NEW t \in Targets, NEW h \in Hosts, NEW e \in BOOLEAN,
               AddTarget(w, t, h, e) \/ EditTarget(w, t, h, e)
        PROVE  Kept
    BY <2>1, <2>2, KeptByForms
  <2>3. ASSUME NEW t \in Targets, NEW k \in {"read", "write"}, PutProject(w, t, k)
        PROVE  Kept
    BY <2>1, <2>3, KeptByForms
  <2>4. ASSUME NEW t \in Targets, ReadEnabled(w, t) \/ ReadWritable(w, t) PROVE Kept
    BY <2>1, <2>4, KeptByReading
  <2>5. ASSUME NEW x \in Switches, ReadSwitch(w, x) PROVE Kept
    BY <2>1, <2>5, KeptByReading
  <2>6. CASE DisableWrites(w)
    BY <2>1, <2>6, KeptByReading
  <2>7. ASSUME NEW form \in [1 .. NLimits -> Limits], SubmitSettings(w, form) PROVE Kept
    BY <2>1, <2>7, KeptByReading
  <2> QED
    BY <2>2, <2>3, <2>4, <2>5, <2>6, <2>7, KeptByServing DEF Request
<1>2. UNCHANGED <<at, known>>
  BY DEF Request, Serve, RequestIsBusy, AddTarget, EditTarget, PutProject, ReadEnabled,
         WriteEnabled, ReadWritable, WriteWritable, ReadSwitch, WriteSwitch, DisableWrites,
         SubmitSettings, SaveSetting, procVars
<1> QED
  BY <1>1, <1>2, CallingStays DEF Kept, RowInv

\* Every reachable state has RowInv.
LEMMA RowAlways == Spec => []RowInv
<1>1. SchemaInv /\ RowInv /\ [Next]_vars => RowInv'
  <2> SUFFICES ASSUME SchemaInv, RowInv, [Next]_vars PROVE RowInv'
    OBVIOUS
  <2>1. CASE UNCHANGED vars
    <3>1. UNCHANGED <<rows, lock, draft, serving, known, at>>
      BY <2>1 DEF vars, rowVars, webVars, procVars
    <3> QED
      BY <3>1 DEF RowInv, RowsOK, ServingOK, CallingOK
  <2> QED
    BY <2>1, RowProcess, RowBridge, RowWorker DEF Next
<1> QED
  BY RowInit, <1>1, SchemaAlways, PTL DEF Spec

-----------------------------------------------------------------------------
(* The settings, and the one request that is served at a time.             *)

Forms == [1 .. NLimits -> Limits]

SettingTypes ==
  /\ switches \in [Switches -> BOOLEAN] /\ limits \in Forms /\ saved \in Forms
  /\ torn \in BOOLEAN /\ panicked \in BOOLEAN

OneServed == \A v, w \in Workers : serving[v] # Idle /\ serving[w] # Idle => v = w

PanicInv ==
  panicked => /\ ~switches["writes"]
              /\ \A w \in Workers : serving[w].kind = "switch" => serving[w].switch # "writes"

\* While a form is saved, the settings before the next one are the form's.
FormInv ==
  /\ \A w \in Workers : serving[w].kind = "settings" =>
       /\ ~torn /\ serving[w].form = saved
       /\ \A k \in 1 .. NLimits : k < serving[w].next => limits[k] = saved[k]
  /\ OneFormAtATime

SettingInv == SettingTypes /\ OneServed /\ PanicInv /\ FormInv

\* The initial states.
LEMMA SettingInit == Init => SettingInv
<1> SUFFICES ASSUME Init PROVE SettingInv
  OBVIOUS
<1>1. \A w \in Workers : serving[w] = Idle /\ serving[w].kind = "idle"
  BY DEF Init, Idle
<1>2. SettingTypes
  BY DEF Init, SettingTypes, Forms, DefaultSwitch
<1>3. limits = saved /\ panicked = FALSE
  BY DEF Init
<1> QED
  BY <1>1, <1>2, <1>3 DEF SettingInv, OneServed, PanicInv, FormInv, OneFormAtATime

\* Steps that leave the settings and the requests alone.
LEMMA SettingsStay ==
  ASSUME SettingInv, UNCHANGED <<settingVars, serving>>
  PROVE  SettingInv'
BY DEF SettingInv, SettingTypes, OneServed, PanicInv, FormInv, OneFormAtATime, Saving, settingVars

\* The first steps of requests: nothing is being served.
LEMMA SettingsRequest ==
  ASSUME ServingOK, SettingInv, NEW w \in Workers, Request(w)
  PROVE  SettingInv'
<1>0. \A v \in Workers : serving[v] = Idle /\ serving[v].kind = "idle"
  <2>1. Accept(w)
    BY DEF Request, AddTarget, EditTarget, PutProject, ReadEnabled, ReadWritable, ReadSwitch,
           DisableWrites, SubmitSettings
  <2> QED
    BY <2>1 DEF Accept, Free, Idle
<1>1. serving \in [Workers -> Served] /\ SettingTypes /\ OneServed /\ PanicInv /\ FormInv
  BY DEF ServingOK, SettingInv
<1>2. ASSUME NEW t \in Targets, NEW h \in Hosts, NEW e \in BOOLEAN,
             AddTarget(w, t, h, e) \/ EditTarget(w, t, h, e)
      PROVE  SettingInv'
  BY <1>2, SettingsStay DEF AddTarget, EditTarget
<1>3. ASSUME NEW t \in Targets, NEW k \in {"read", "write"}, PutProject(w, t, k)
      PROVE  SettingInv'
  BY <1>3, SettingsStay DEF PutProject
<1>4. ASSUME NEW t \in Targets, ReadEnabled(w, t) \/ ReadWritable(w, t)
      PROVE  SettingInv'
  <2>1. UNCHANGED settingVars
    BY <1>4 DEF ReadEnabled, ReadWritable
  <2> DEFINE toggle(k, on) == [kind |-> k, target |-> t, on |-> on]
  <2>2. PICK s : serving' = [serving EXCEPT ![w] = s] /\ s.kind \in {"target", "project"}
    <3>1. CASE ReadEnabled(w, t)
      <4>1. serving' = [serving EXCEPT ![w] = toggle("target", ~rows[t].enabled)]
        BY <3>1 DEF ReadEnabled
      <4>2. toggle("target", ~rows[t].enabled).kind = "target"
        OBVIOUS
      <4> QED
        BY <4>1, <4>2
    <3>2. CASE ReadWritable(w, t)
      <4>1. serving' = [serving EXCEPT ![w] = toggle("project", rows[t].project = "read")]
        BY <3>2 DEF ReadWritable
      <4>2. toggle("project", rows[t].project = "read").kind = "project"
        OBVIOUS
      <4> QED
        BY <4>1, <4>2
    <3> QED
      BY <1>4, <3>1, <3>2
  <2>3. \A v \in Workers : serving'[v] # Idle => v = w /\ serving'[v].kind \in {"target", "project"}
    BY <1>0, <1>1, <2>2
  <2>4. OneServed' /\ PanicInv'
    BY <1>1, <2>1, <2>3 DEF OneServed, PanicInv, settingVars, Idle
  <2>5. FormInv'
    BY <1>0, <1>1, <2>1, <2>3 DEF FormInv, OneFormAtATime, Saving, settingVars, Idle
  <2> QED
    BY <1>1, <2>1, <2>4, <2>5 DEF SettingInv, SettingTypes, settingVars
<1>5. ASSUME NEW x \in Switches, ReadSwitch(w, x) PROVE SettingInv'
  <2>1. UNCHANGED <<switches, limits, saved, torn>> /\ panicked' = (panicked /\ x # "writes")
    BY <1>5 DEF ReadSwitch
  <2>2. PICK s : /\ serving' = [serving EXCEPT ![w] = s]
                 /\ s.kind = "switch" /\ s.switch = x
    <3> DEFINE s == [kind |-> "switch", switch |-> x, on |-> ~switches[x]]
    <3>1. serving' = [serving EXCEPT ![w] = s]
      BY <1>5 DEF ReadSwitch
    <3>2. s.kind = "switch" /\ s.switch = x
      OBVIOUS
    <3> QED
      BY <3>1, <3>2
  <2>3. \A v \in Workers : serving'[v] # Idle =>
          v = w /\ serving'[v].kind = "switch" /\ serving'[v].switch = x
    BY <1>0, <1>1, <2>2
  <2>4. OneServed'
    BY <2>3 DEF OneServed
  <2>5. FormInv'
    BY <1>0, <1>1, <2>1, <2>3 DEF FormInv, OneFormAtATime, Saving, Idle
  <2>6. SettingTypes'
    BY <1>1, <2>1 DEF SettingTypes
  <2>7. PanicInv'
    <3> SUFFICES ASSUME panicked'
                 PROVE  /\ ~switches'["writes"]
                        /\ \A v \in Workers : serving'[v].kind = "switch" => serving'[v].switch # "writes"
      BY DEF PanicInv
    <3>1. panicked /\ x # "writes"
      BY <1>1, <2>1 DEF SettingTypes
    <3>2. \A v \in Workers : serving'[v] = Idle \/ serving'[v].switch = x
      BY <2>3
    <3> QED
      BY <1>1, <2>1, <3>1, <3>2 DEF PanicInv, Idle
  <2> QED
    BY <2>4, <2>5, <2>6, <2>7 DEF SettingInv
<1>6. CASE DisableWrites(w)
  <2>1. UNCHANGED <<limits, saved, torn, serving>> /\ panicked' = TRUE
        /\ switches' = [switches EXCEPT !["writes"] = FALSE]
    BY <1>6 DEF DisableWrites
  <2> QED
    BY <1>0, <1>1, <2>1
    DEF SettingInv, SettingTypes, OneServed, PanicInv, FormInv, OneFormAtATime, Saving
<1>7. ASSUME NEW form \in Forms, SubmitSettings(w, form) PROVE SettingInv'
  <2>1. UNCHANGED <<switches, limits, panicked>> /\ saved' = form /\ torn' = FALSE
    BY <1>7 DEF SubmitSettings
  <2>2. PICK s : /\ serving' = [serving EXCEPT ![w] = s]
                 /\ s.kind = "settings" /\ s.form = form /\ s.next = 1
    <3> DEFINE s == [kind |-> "settings", form |-> form, next |-> 1]
    <3>1. serving' = [serving EXCEPT ![w] = s]
      BY <1>7 DEF SubmitSettings
    <3>2. s.kind = "settings" /\ s.form = form /\ s.next = 1
      OBVIOUS
    <3> QED
      BY <3>1, <3>2
  <2>3. \A v \in Workers : serving'[v] # Idle => v = w
    BY <1>0, <1>1, <2>2
  <2>4. serving'[w].kind = "settings" /\ serving'[w].form = form /\ serving'[w].next = 1
    BY <1>1, <2>2
  <2>5. OneServed' /\ PanicInv'
    BY <1>1, <2>1, <2>3, <2>4 DEF OneServed, PanicInv, Idle
  <2>6. FormInv'
    BY <1>1, <2>1, <2>3, <2>4 DEF FormInv, OneFormAtATime, Saving, Idle
  <2>7. SettingTypes'
    BY <1>1, <2>1 DEF SettingTypes
  <2> QED
    BY <2>5, <2>6, <2>7 DEF SettingInv
<1> QED
  BY <1>2, <1>3, <1>4, <1>5, <1>6, <1>7 DEF Request, Forms

\* The later steps: the one request that is served goes on, or ends.
LEMMA SettingsServe ==
  ASSUME ServingOK, SettingInv, NEW w \in Workers, Serve(w) \/ RequestIsBusy(w)
  PROVE  SettingInv'
<1>1. serving \in [Workers -> Served] /\ SettingTypes /\ OneServed /\ PanicInv /\ FormInv
  BY DEF ServingOK, SettingInv
<1>2. serving[w] \in Served /\ serving[w] # Idle
  BY <1>1 DEF Serve, RequestIsBusy, WriteEnabled, WriteWritable, WriteSwitch, SaveSetting, Free, Idle
<1>3. \A v \in Workers \ {w} : serving[v] = Idle
  BY <1>1, <1>2 DEF OneServed
<1>4. ASSUME Reply(w) PROVE \A v \in Workers : serving'[v] = Idle /\ serving'[v].kind = "idle"
  BY <1>1, <1>3, <1>4 DEF Reply, Idle
<1>5. CASE WriteEnabled(w) \/ WriteWritable(w)
  <2>1. UNCHANGED settingVars /\ Reply(w) /\ serving[w].kind \in {"target", "project"}
    BY <1>5 DEF WriteEnabled, WriteWritable
  <2>2. \A v \in Workers : serving[v].kind # "settings"
    BY <1>3, <2>1 DEF Idle
  <2> QED
    BY <1>1, <1>4, <2>1, <2>2
    DEF SettingInv, SettingTypes, OneServed, PanicInv, FormInv, OneFormAtATime, Saving, settingVars
<1>6. CASE WriteSwitch(w)
  <2>1. /\ UNCHANGED <<limits, saved, torn, panicked>> /\ Reply(w) /\ serving[w].kind = "switch"
        /\ switches' = [switches EXCEPT ![serving[w].switch] = serving[w].on]
    BY <1>6 DEF WriteSwitch
  <2>2. \A v \in Workers : serving[v].kind # "settings"
    BY <1>3, <2>1 DEF Idle
  <2>3. serving[w].switch \in Switches /\ serving[w].on \in BOOLEAN
    BY <1>2, <2>1, ServedKinds
  <2>4. SettingTypes'
    BY <1>1, <2>1, <2>3 DEF SettingTypes
  <2>5. PanicInv'
    BY <1>1, <1>4, <2>1, <2>3 DEF PanicInv, SettingTypes
  <2>6. FormInv' /\ OneServed'
    BY <1>1, <1>4, <2>1, <2>2 DEF FormInv, OneServed, OneFormAtATime, Saving
  <2> QED
    BY <2>4, <2>5, <2>6 DEF SettingInv
<1>7. CASE SaveSetting(w)
  <2> DEFINE k == serving[w].next
  <2>1. /\ UNCHANGED <<switches, saved, torn, panicked>> /\ serving[w].kind = "settings"
        /\ limits' = [limits EXCEPT ![k] = serving[w].form[k]]
    BY <1>7 DEF SaveSetting
  <2>2. ~torn /\ serving[w].form = saved /\ \A j \in 1 .. NLimits : j < k => limits[j] = saved[j]
    BY <1>1, <2>1 DEF FormInv
  <2>3. k \in 1 .. NLimits
    BY <1>2, <2>1, ServedKinds
  <2>4. limits' \in Forms /\ \A j \in 1 .. NLimits : j < k + 1 => limits'[j] = saved[j]
    BY <1>1, <2>1, <2>2, <2>3 DEF SettingTypes, Forms
  <2>5. SettingTypes'
    BY <1>1, <2>1, <2>4 DEF SettingTypes
  <2>6. CASE k = NLimits
    <3>1. Reply(w)
      BY <1>7, <2>6 DEF SaveSetting
    <3>2. limits' = saved
      BY <1>1, <2>4, <2>6 DEF SettingTypes, Forms
    <3> QED
      BY <1>1, <1>4, <2>1, <2>5, <3>1, <3>2
      DEF SettingInv, OneServed, PanicInv, FormInv, OneFormAtATime
  <2>7. CASE k # NLimits
    <3>1. serving' = [serving EXCEPT ![w].next = k + 1]
      BY <1>7, <2>7 DEF SaveSetting
    <3>2. \A v \in Workers \ {w} : serving'[v] = Idle /\ serving'[v].kind = "idle"
      BY <1>1, <1>3, <3>1 DEF Idle
    <3>3. serving'[w].kind = "settings" /\ serving'[w].form = saved /\ serving'[w].next = k + 1
      <4>1. serving'[w] = [serving[w] EXCEPT !.next = k + 1]
        BY <1>1, <3>1
      <4>2. serving[w] \in [kind : {"settings"}, form : Forms, next : 1 .. NLimits]
        BY <1>2, <2>1 DEF Served, Idle, Forms
      <4> QED
        BY <2>2, <4>1, <4>2
    <3>4. FormInv'
      BY <2>1, <2>2, <2>4, <3>2, <3>3 DEF FormInv, OneFormAtATime, Saving
    <3>5. OneServed' /\ PanicInv'
      BY <1>1, <2>1, <3>2, <3>3 DEF OneServed, PanicInv
    <3> QED
      BY <2>5, <3>4, <3>5 DEF SettingInv
  <2> QED
    BY <2>6, <2>7
<1>8. CASE RequestIsBusy(w)
  <2>1. /\ UNCHANGED <<switches, limits, saved, panicked>> /\ Reply(w)
        /\ torn' = (torn \/ serving[w].kind = "settings")
    BY <1>8 DEF RequestIsBusy
  <2>2. \A v \in Workers \ {w} : serving[v].kind = "idle"
    BY <1>3 DEF Idle
  <2>3. torn' \/ limits = saved
    BY <1>1, <2>1, <2>2 DEF FormInv, OneFormAtATime, Saving
  <2>4. SettingTypes'
    BY <1>1, <2>1 DEF SettingTypes
  <2> QED
    BY <1>1, <1>4, <2>1, <2>3, <2>4 DEF SettingInv, OneServed, PanicInv, FormInv, OneFormAtATime
<1> QED
  BY <1>5, <1>6, <1>7, <1>8 DEF Serve

\* A console that is killed serves no request any more.
LEMMA SettingsKill ==
  ASSUME SettingInv, NEW p \in Procs, Kill(p)
  PROVE  SettingInv'
<1>1. SettingTypes /\ OneServed /\ PanicInv /\ FormInv
  BY DEF SettingInv
<1>2. CASE p # Console
  BY <1>2, SettingsStay DEF Kill, settingVars
<1>3. CASE p = Console
  <2>1. /\ UNCHANGED <<switches, limits, saved, panicked>> /\ torn' = (torn \/ Saving)
        /\ serving' = [w \in Workers |-> Idle]
    BY <1>3 DEF Kill
  <2>2. \A v \in Workers : serving'[v] = Idle /\ serving'[v].kind = "idle"
    BY <2>1 DEF Idle
  <2>3. torn' \/ limits = saved
    BY <1>1, <2>1 DEF FormInv, OneFormAtATime
  <2>4. SettingTypes'
    BY <1>1, <2>1 DEF SettingTypes
  <2> QED
    BY <1>1, <2>1, <2>2, <2>3, <2>4 DEF SettingInv, OneServed, PanicInv, FormInv, OneFormAtATime
<1> QED
  BY <1>2, <1>3

\* Every reachable state has SettingInv.
LEMMA SettingAlways == Spec => []SettingInv
<1>1. RowInv /\ SettingInv /\ [Next]_vars => SettingInv'
  <2> SUFFICES ASSUME RowInv, SettingInv, [Next]_vars PROVE SettingInv'
    OBVIOUS
  <2>1. ServingOK
    BY DEF RowInv
  <2>2. CASE UNCHANGED vars
    BY <2>2, SettingsStay DEF vars, webVars
  <2>3. ASSUME NEW p \in Procs, Start(p) \/ Opening(p) \/ OpeningIsBusy(p)
        PROVE  UNCHANGED <<settingVars, serving>>
    BY <2>3 DEF Start, Opening, ReadVersion, CreateTable, MarkVersion, InsertDefaults, CountTargets,
                LookForTarget, BeginImport, ImportTarget, CommitImport, OpeningIsBusy, webVars
  <2>4. ASSUME NEW b \in Bridges, ReadTarget(b) \/ EndCall(b) \/ EndBridge(b)
        PROVE  UNCHANGED <<settingVars, serving>>
    BY <2>4 DEF ReadTarget, EndCall, EndBridge, webVars
  <2> QED
    BY <2>1, <2>2, <2>3, <2>4, SettingsStay, SettingsRequest, SettingsServe, SettingsKill DEF Next
<1> QED
  BY SettingInit, <1>1, RowAlways, PTL DEF Spec

\* PanicHolds: no toggle that read the switch before the emergency
\* (views.toggle_writes_switch) enables writes after it.
THEOREM PanicHoldsUntilAsked == Spec => []PanicHolds
<1>1. SettingInv => PanicHolds
  BY DEF SettingInv, PanicInv, PanicHolds
<1> QED
  BY SettingAlways, <1>1, PTL

\* OneFormAtATime: the settings that views.settings_view saves one by one
\* are one form's in the end, and opening the Registry leaves them so.
THEOREM LimitsAreOneForm == Spec => []OneFormAtATime
<1>1. SettingInv => OneFormAtATime
  BY DEF SettingInv, FormInv
<1> QED
  BY SettingAlways, <1>1, PTL

-----------------------------------------------------------------------------
(* Imports, and what the administrator has chosen.                         *)

ImportInv ==
  /\ added \subseteq Targets
  /\ ImportedWhole
  /\ \A p \in Procs : at[p] = "import" => \A t \in Targets : t <= count[p] => draft[t] = FileRow

Choosable == [enabled : BOOLEAN, project : {"none", "read", "write"}] \cup {NoRow}

WordInv ==
  /\ intent \in [Targets -> Choosable] /\ raced \in BOOLEAN
  /\ AdminHasTheLastWord

AdminInv == ImportInv /\ WordInv

\* What is chosen of a row, or of none.
LEMMA ChoiceType == \A r \in Row \cup {NoRow} : Choice(r) \in Choosable
BY DEF Row, Choice, Choosable

\* AdminHasTheLastWord, a Target at a time.
LEMMA WordOfEach ==
  ASSUME intent \in [Targets -> Choosable]
  PROVE  AdminHasTheLastWord <=> (raced \/ \A t \in Targets : intent[t] = Choice(rows[t]))
BY DEF AdminHasTheLastWord

\* The initial states.
LEMMA AdminInit == Init => AdminInv
<1> SUFFICES ASSUME Init PROVE AdminInv
  OBVIOUS
<1>1. /\ rows = [t \in Targets |-> NoRow] /\ intent = rows /\ added = {} /\ raced = FALSE
      /\ at = [p \in Procs |-> "off"]
  BY DEF Init
<1>2. Choice(NoRow) = NoRow /\ NoRow \in Choosable
  BY DEF Choice, Choosable
<1>3. intent \in [Targets -> Choosable] /\ \A t \in Targets : intent[t] = Choice(rows[t])
  BY <1>1, <1>2
<1>4. WordInv
  BY <1>1, <1>3, WordOfEach DEF WordInv
<1>5. {t \in Targets : rows[t] # NoRow} = {}
  BY <1>1
<1>6. ImportInv
  BY <1>1, <1>5 DEF ImportInv, ImportedWhole
<1> QED
  BY <1>4, <1>6 DEF AdminInv

\* Steps that leave the rows alone, and imports that are under way.
LEMMA AdminStays ==
  ASSUME AdminInv, UNCHANGED <<rows, draft, intent, added, raced>>,
         \A p \in Procs : at'[p] = "import" => at[p] = "import" /\ count'[p] = count[p]
  PROVE  AdminInv'
BY DEF AdminInv, ImportInv, ImportedWhole, WordInv, AdminHasTheLastWord

\* The administrator's choice for one Target.
LEMMA AdminChooses ==
  ASSUME RowsOK, AdminInv, UNCHANGED <<draft, raced, at, count>>,
         NEW t \in Targets, NEW x \in Row, rows' = [rows EXCEPT ![t] = x],
         intent' = [intent EXCEPT ![t] = Choice(rows'[t])],
         \/ rows[t] = NoRow /\ added' = added \cup {t}
         \/ rows[t] # NoRow /\ UNCHANGED added
  PROVE  AdminInv'
<1>0. rows \in Rows /\ ImportInv /\ WordInv
  BY DEF RowsOK, AdminInv
<1>1. rows'[t] = x /\ \A u \in Targets \ {t} : rows'[u] = rows[u]
  BY <1>0 DEF Rows
<1>2. intent' \in [Targets -> Choosable] /\ intent'[t] = Choice(rows'[t])
      /\ \A u \in Targets \ {t} : intent'[u] = intent[u]
  BY <1>0, <1>1, ChoiceType DEF WordInv
<1>3. raced' \/ \A u \in Targets : intent'[u] = Choice(rows'[u])
  BY <1>0, <1>1, <1>2, WordOfEach DEF WordInv
<1>4. AdminHasTheLastWord'
  BY <1>2, <1>3 DEF AdminHasTheLastWord
<1>5. {u \in Targets : rows'[u] # NoRow} = {u \in Targets : rows[u] # NoRow} \cup {t}
  BY <1>1
<1>6. added' \subseteq Targets /\ ImportedWhole'
  BY <1>0, <1>5 DEF ImportInv, ImportedWhole
<1> QED
  BY <1>0, <1>2, <1>4, <1>6 DEF AdminInv, ImportInv, WordInv

\* What workers do.
LEMMA AdminWorker ==
  ASSUME RowInv, AdminInv, NEW w \in Workers, Request(w) \/ Serve(w) \/ RequestIsBusy(w)
  PROVE  AdminInv'
<1>0. RowsOK /\ ServingOK /\ rows \in Rows
  BY DEF RowInv, RowsOK
<1>1. ASSUME NEW t \in Targets, NEW h \in Hosts, NEW e \in BOOLEAN, AddTarget(w, t, h, e)
      PROVE  AdminInv'
  <2>1. [host |-> h, enabled |-> e, project |-> "none"] \in Row
    BY DEF Row
  <2> QED
    BY <1>0, <1>1, <2>1, AdminChooses DEF AddTarget, procVars
<1>2. ASSUME NEW t \in Targets, NEW h \in Hosts, NEW e \in BOOLEAN, EditTarget(w, t, h, e)
      PROVE  AdminInv'
  <2>1. rows[t] \in Row
    BY <1>0, <1>2 DEF EditTarget, Rows
  <2>2. rows' = [rows EXCEPT ![t] = [rows[t] EXCEPT !.host = h, !.enabled = e]]
    BY <1>0, <1>2 DEF EditTarget, Rows
  <2>3. [rows[t] EXCEPT !.host = h, !.enabled = e] \in Row
    BY <2>1 DEF Row
  <2> QED
    BY <1>0, <1>2, <2>2, <2>3, AdminChooses DEF EditTarget, procVars
<1>3. ASSUME NEW t \in Targets, NEW k \in {"read", "write"}, PutProject(w, t, k)
      PROVE  AdminInv'
  <2>1. rows[t] \in Row
    BY <1>0, <1>3 DEF PutProject, Rows
  <2>2. rows' = [rows EXCEPT ![t] = [rows[t] EXCEPT !.project = k]]
    BY <1>0, <1>3 DEF PutProject, Rows
  <2>3. [rows[t] EXCEPT !.project = k] \in Row
    BY <2>1 DEF Row
  <2> QED
    BY <1>0, <1>3, <2>2, <2>3, AdminChooses DEF PutProject, procVars
<1>4. CASE WriteEnabled(w) \/ WriteWritable(w)
  <2> DEFINE t == serving[w].target
             k == IF serving[w].on THEN "write" ELSE "read"
  <2>1. serving[w].kind \in {"target", "project"} /\ serving[w] \in Served
    BY <1>0, <1>4 DEF WriteEnabled, WriteWritable, ServingOK
  <2>2. t \in Targets /\ serving[w].on \in BOOLEAN /\ rows[t] # NoRow /\ rows[t] \in Row
    BY <1>0, <2>1, ServedKinds DEF Rows, ServingOK
  <2>3. [rows[t] EXCEPT !.enabled = serving[w].on] \in Row /\ [rows[t] EXCEPT !.project = k] \in Row
    BY <2>2 DEF Row
  <2>4. \/ rows' = [rows EXCEPT ![t] = [rows[t] EXCEPT !.enabled = serving[w].on]]
        \/ rows' = [rows EXCEPT ![t] = [rows[t] EXCEPT !.project = k]]
    BY <1>0, <1>4, <2>2 DEF WriteEnabled, WriteWritable, Rows
  <2> QED
    BY <1>0, <1>4, <2>2, <2>3, <2>4, AdminChooses DEF WriteEnabled, WriteWritable, procVars
<1>5. ASSUME \/ \E t \in Targets : ReadEnabled(w, t) \/ ReadWritable(w, t)
             \/ \E x \in Switches : ReadSwitch(w, x)
             \/ DisableWrites(w)
             \/ \E form \in [1 .. NLimits -> Limits] : SubmitSettings(w, form)
             \/ WriteSwitch(w) \/ SaveSetting(w) \/ RequestIsBusy(w)
      PROVE  UNCHANGED <<rowVars, procVars>>
  BY <1>5 DEF ReadEnabled, ReadWritable, ReadSwitch, DisableWrites, SubmitSettings,
              WriteSwitch, SaveSetting, RequestIsBusy
<1>6. ASSUME UNCHANGED <<rowVars, procVars>> PROVE AdminInv'
  BY <1>6, AdminStays DEF rowVars, procVars
<1> QED
  BY <1>1, <1>2, <1>3, <1>4, <1>5, <1>6 DEF Request, Serve

\* A discovery changes nothing that is chosen.
LEMMA AdminBridge ==
  ASSUME SchemaInv, RowInv, AdminInv, NEW b \in Bridges, ReadTarget(b) \/ EndCall(b) \/ EndBridge(b)
  PROVE  AdminInv'
<1>0. RowsOK /\ CallingOK /\ rows \in Rows /\ at \in [Procs -> Places] /\ b \in Procs
  BY DEF RowInv, RowsOK, SchemaInv, AtOK
<1>1. UNCHANGED <<draft, intent, added, raced, count>>
      /\ \A p \in Procs : at'[p] = "import" => at[p] = "import"
  BY <1>0 DEF ReadTarget, EndCall, EndBridge, Goto, rowVars
<1>2. CASE UNCHANGED rows
  BY <1>1, <1>2, AdminStays
<1>3. CASE rows' # rows
  <2> DEFINE t == known[b].target
  <2>0. EndCall(b)
    BY <1>3 DEF ReadTarget, EndBridge, rowVars
  <2>1. t \in Targets /\ rows[t] # NoRow /\ rows[t] \in Row
    BY <1>0, <2>0 DEF EndCall, CallingOK, Rows
  <2>2. PICK h \in Hosts : rows' = [rows EXCEPT ![t].host = h]
    BY <1>3, <2>0 DEF EndCall
  <2> DEFINE x == [rows[t] EXCEPT !.host = h]
  <2>3. x \in Row /\ x.enabled = rows[t].enabled /\ x.project = rows[t].project
    BY <2>1 DEF Row
  <2>4. rows'[t] = x /\ \A u \in Targets \ {t} : rows'[u] = rows[u]
    BY <1>0, <2>1, <2>2 DEF Rows
  <2>5. Choice(x) = Choice(rows[t]) /\ x # NoRow
    BY <2>1, <2>3, Choices DEF Choice
  <2>6. \A u \in Targets : Choice(rows'[u]) = Choice(rows[u]) /\ (rows'[u] = NoRow <=> rows[u] = NoRow)
    BY <2>1, <2>4, <2>5
  <2>7. {u \in Targets : rows'[u] # NoRow} = {u \in Targets : rows[u] # NoRow}
    BY <2>6
  <2>8. ImportInv'
    BY <1>1, <2>7 DEF AdminInv, ImportInv, ImportedWhole
  <2>9. intent \in [Targets -> Choosable] /\ (raced \/ \A u \in Targets : intent[u] = Choice(rows[u]))
    BY WordOfEach DEF AdminInv, WordInv
  <2>10. raced' \/ \A u \in Targets : intent'[u] = Choice(rows'[u])
    BY <1>1, <2>6, <2>9
  <2>11. WordInv'
    BY <1>1, <2>9, <2>10 DEF AdminInv, WordInv, AdminHasTheLastWord
  <2> QED
    BY <2>8, <2>11 DEF AdminInv
<1> QED
  BY <1>2, <1>3

\* An import's first statement that changes anything.
LEMMA AdminBegins ==
  ASSUME SchemaInv, RowInv, AdminInv, NEW p \in Procs, BeginImport(p)
  PROVE  AdminInv'
<1>0. rows \in Rows /\ at \in [Procs -> Places] /\ count \in [Procs -> Nat] /\ AtOK
  BY DEF RowInv, RowsOK, SchemaInv, AtOK
<1>1. UNCHANGED <<rows, intent, added, raced>> /\ lock = None
  BY DEF BeginImport, Unlocked
<1>2. CASE draft' = [rows EXCEPT ![1] = FileRow] /\ Count(p, 1) /\ Goto(p, "import")
  <2>1. \A q \in Procs : at[q] # "import"
    BY <1>0, <1>1 DEF AtOK
  <2>2. \A q \in Procs : at'[q] = "import" => q = p
    BY <1>0, <1>2, <2>1 DEF Goto
  <2>3. count'[p] = 1 /\ draft'[1] = FileRow
    BY <1>0, <1>2 DEF Count, Rows
  <2>4. \A t \in Targets : t <= 1 => t = 1
    OBVIOUS
  <2> QED
    BY <1>1, <2>2, <2>3, <2>4 DEF AdminInv, ImportInv, ImportedWhole, WordInv, AdminHasTheLastWord
<1>3. CASE UNCHANGED <<draft, count>> /\ ImportOver(p)
  <2>1. \A q \in Procs : at'[q] = "import" => at[q] = "import"
    BY <1>0, <1>3 DEF ImportOver, Goto
  <2> QED
    BY <1>1, <1>3, <2>1, AdminStays
<1> QED
  BY <1>2, <1>3 DEF BeginImport

\* Its next Target.
LEMMA AdminImports ==
  ASSUME SchemaInv, RowInv, AdminInv, NEW p \in Procs, ImportTarget(p)
  PROVE  AdminInv'
<1>0. /\ rows \in Rows /\ draft \in Rows /\ AtOK
      /\ count[p] + 1 \in Targets /\ UNCHANGED <<rows, intent, added, raced, at>>
      /\ draft' = [draft EXCEPT ![count[p] + 1] = FileRow]
      /\ count' = [count EXCEPT ![p] = count[p] + 1]
  BY DEF RowInv, RowsOK, SchemaInv, AtOK, ImportTarget, Count
<1>1. \A q \in Procs : at[q] = "import" => q = p
  BY <1>0 DEF AtOK, ImportTarget
<1>2. \A t \in Targets : t <= count[p] => draft[t] = FileRow
  BY DEF AdminInv, ImportInv, ImportTarget
<1>3. count'[p] = count[p] + 1 /\ count[p] \in Nat
  BY <1>0 DEF AtOK
<1>4. \A t \in Targets : t <= count[p] + 1 => draft'[t] = FileRow
  BY <1>0, <1>2, <1>3 DEF Rows
<1> QED
  BY <1>0, <1>1, <1>3, <1>4 DEF AdminInv, ImportInv, ImportedWhole, WordInv, AdminHasTheLastWord

\* Its commit: all of the file's Targets are there, and where a bootstrap has
\* written over another choice, that is told.
LEMMA AdminCommits ==
  ASSUME SchemaInv, RowInv, AdminInv, NEW p \in Procs, CommitImport(p)
  PROVE  AdminInv'
<1>0. /\ rows \in Rows /\ draft \in Rows /\ AtOK /\ lock = p /\ rows' = draft
      /\ UNCHANGED <<draft, added, count>> /\ ImportInv /\ WordInv
  BY DEF RowInv, RowsOK, SchemaInv, AtOK, CommitImport, AdminInv
<1>1. \A t \in Targets : rows'[t] = FileRow
  BY <1>0 DEF CommitImport, ImportInv
<1>2. {t \in Targets : rows'[t] # NoRow} = Targets
  BY <1>1, FileRowIsRow, Choices
<1>3. \A q \in Procs : at'[q] # "import"
  BY <1>0 DEF AtOK, CommitImport, ImportOver, Goto
<1>4. ImportInv'
  BY <1>0, <1>2, <1>3 DEF ImportInv, ImportedWhole
<1>5. intent' = [t \in Targets |-> IF p \in Importers \/ intent[t] = NoRow
                                  THEN Choice(draft[t]) ELSE intent[t]]
  BY DEF CommitImport
<1>6. intent' \in [Targets -> Choosable]
  BY <1>0, <1>5, ChoiceType DEF WordInv, Rows
<1>7. raced' \in BOOLEAN /\ (raced => raced')
  BY <1>0 DEF CommitImport, WordInv
<1>8. ASSUME ~raced', NEW t \in Targets PROVE intent'[t] = Choice(rows'[t])
  <2>1. CASE p \in Importers \/ intent[t] = NoRow
    BY <1>0, <1>5, <2>1
  <2>2. CASE p \notin Importers /\ intent[t] # NoRow
    <3>1. intent[t] = Choice(rows[t])
      BY <1>0, <1>7, <1>8, WordOfEach DEF WordInv
    <3>2. Choice(rows[t]) \in {NoRow, Choice(FileRow)}
      BY <1>8, <2>2 DEF CommitImport
    <3> QED
      BY <1>1, <1>5, <2>2, <3>1, <3>2
  <2> QED
    BY <2>1, <2>2
<1>9. WordInv'
  <2>1. raced' \/ \A t \in Targets : intent'[t] = Choice(rows'[t])
    BY <1>8
  <2> QED
    BY <1>6, <1>7, <2>1 DEF WordInv, AdminHasTheLastWord
<1> QED
  BY <1>4, <1>9 DEF AdminInv

\* Every reachable state has AdminInv.
LEMMA AdminAlways == Spec => []AdminInv
<1>1. SchemaInv /\ RowInv /\ AdminInv /\ [Next]_vars => AdminInv'
  <2> SUFFICES ASSUME SchemaInv, RowInv, AdminInv, [Next]_vars PROVE AdminInv'
    OBVIOUS
  <2>0. at \in [Procs -> Places] /\ count \in [Procs -> Nat]
    BY DEF SchemaInv, AtOK
  <2>1. CASE UNCHANGED vars
    BY <2>1, AdminStays DEF vars, rowVars, procVars
  <2>2. ASSUME NEW p \in Procs,
               \/ Start(p) \/ ReadVersion(p) \/ CreateTable(p) \/ MarkVersion(p) \/ InsertDefaults(p)
               \/ CountTargets(p) \/ LookForTarget(p) \/ OpeningIsBusy(p) \/ Kill(p)
        PROVE  AdminInv'
    <3>1. UNCHANGED <<rows, draft, intent, added, raced>>
      BY <2>2 DEF Start, ReadVersion, CreateTable, MarkVersion, InsertDefaults, CountTargets,
                  LookForTarget, OpeningIsBusy, Kill, rowVars
    <3>2. \A q \in Procs : at'[q] = "import" => at[q] = "import" /\ count'[q] = count[q]
      BY <2>0, <2>2 DEF Start, ReadVersion, CreateTable, MarkVersion, InsertDefaults, CountTargets,
                        LookForTarget, OpeningIsBusy, Kill, ImportOver, Goto, Count
    <3> QED
      BY <3>1, <3>2, AdminStays
  <2> QED
    BY <2>1, <2>2, AdminBegins, AdminImports, AdminCommits, AdminBridge, AdminWorker
    DEF Next, Opening
<1> QED
  BY AdminInit, <1>1, SchemaAlways, RowAlways, PTL DEF Spec

\* ImportedWhole: import_from_json, killed or refused wherever it may be,
\* leaves all of the file's Targets or none.
THEOREM ImportsAreWhole == Spec => []ImportedWhole
<1>1. AdminInv => ImportedWhole
  BY DEF AdminInv, ImportInv
<1> QED
  BY AdminAlways, <1>1, PTL

\* AdminHasTheLastWord: discovery's update_target and processes that open the
\* Registry leave what is chosen, but for a bootstrap that has been overtaken.
THEOREM ChoicesStand == Spec => []AdminHasTheLastWord
<1>1. AdminInv => AdminHasTheLastWord
  BY DEF AdminInv, WordInv
<1> QED
  BY AdminAlways, <1>1, PTL

-----------------------------------------------------------------------------
Bounds == requests \in 0 .. MaxRequests /\ faults \in 0 .. MaxFaults

\* The bounds of the model.
LEMMA BoundsAlways == Spec => []Bounds
<1>1. Init => Bounds
  BY DEF Init, Bounds
<1>2. Bounds /\ [Next]_vars => Bounds'
  <2> SUFFICES ASSUME Bounds, [Next]_vars PROVE Bounds'
    OBVIOUS
  <2>1. UNCHANGED requests \/ Asks
    BY DEF Next, vars, Start, Opening, ReadVersion, CreateTable, MarkVersion, InsertDefaults,
           CountTargets, LookForTarget, BeginImport, ImportTarget, CommitImport, OpeningIsBusy, Kill,
           ReadTarget, EndCall, EndBridge, Request, Serve, RequestIsBusy, AddTarget, EditTarget,
           PutProject, ReadEnabled, WriteEnabled, ReadWritable, WriteWritable, ReadSwitch,
           WriteSwitch, DisableWrites, SubmitSettings, SaveSetting, Accept, webVars
  <2>2. UNCHANGED faults \/ Fails
    BY ZenonT(60) DEF Next, vars, Start, Opening, ReadVersion, CreateTable, MarkVersion, InsertDefaults,
           CountTargets, LookForTarget, BeginImport, ImportTarget, CommitImport, OpeningIsBusy, Kill,
           ReadTarget, EndCall, EndBridge, Request, Serve, RequestIsBusy, AddTarget, EditTarget,
           PutProject, ReadEnabled, WriteEnabled, ReadWritable, WriteWritable, ReadSwitch,
           WriteSwitch, DisableWrites, SubmitSettings, SaveSetting
  <2> QED
    BY <2>1, <2>2 DEF Bounds, Asks, Fails
<1> QED
  BY <1>1, <1>2, PTL DEF Spec

\* TypeOK, of the Registry, the processes and the console.
THEOREM RegistryTypeCorrect == Spec => []TypeOK
<1>1. SchemaInv /\ RowInv /\ SettingInv /\ AdminInv /\ Bounds => TypeOK
  BY DEF SchemaInv, AtOK, RowInv, RowsOK, Rows, ServingOK, CallingOK, SettingInv, SettingTypes, Forms,
         AdminInv, ImportInv, WordInv, Bounds, TypeOK
<1> QED
  BY SchemaAlways, RowAlways, SettingAlways, AdminAlways, BoundsAlways, <1>1, PTL
=============================================================================
