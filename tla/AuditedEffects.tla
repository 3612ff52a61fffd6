--------------------------- MODULE AuditedEffects ---------------------------
(***************************************************************************)
(* What the gateway promises about any operation that changes something on *)
(* a Target, whatever tool carries it: the attempt is on the audit record  *)
(* before the first effect, a refused request never has one, a request     *)
(* that is acknowledged had at least one, and a request has a bounded      *)
(* number of them.  How checks, ssh, timeouts and retries bring this about *)
(* is the business of MutationPipeline, which implements this module.      *)
(***************************************************************************)
CONSTANTS
  Requests,   \* the requests clients may make
  Slots       \* the executions one request may give rise to

VARIABLES
  phase,      \* phase[r]: what the client has been told
  recorded,   \* the requests whose attempt is on the audit record
  effects     \* effects[r]: the executions of r that took effect

vars == <<phase, recorded, effects>>

Phases == {"open", "refused", "acknowledged", "indeterminate"}

TypeOK ==
  /\ phase \in [Requests -> Phases]
  /\ recorded \in SUBSET Requests
  /\ effects \in [Requests -> SUBSET Slots]

Init ==
  /\ phase = [r \in Requests |-> "open"]
  /\ recorded = {}
  /\ effects = [r \in Requests |-> {}]

-----------------------------------------------------------------------------
Record(r) ==
  /\ phase[r] = "open"
  /\ recorded' = recorded \cup {r}
  /\ UNCHANGED <<phase, effects>>

\* An execution may take effect after its request was given up on.
Apply(r) ==
  /\ r \in recorded
  /\ \E s \in Slots \ effects[r] : effects' = [effects EXCEPT ![r] = @ \cup {s}]
  /\ UNCHANGED <<phase, recorded>>

Refuse(r) ==
  /\ phase[r] = "open"
  /\ r \notin recorded
  /\ phase' = [phase EXCEPT ![r] = "refused"]
  /\ UNCHANGED <<recorded, effects>>

Acknowledge(r) ==
  /\ phase[r] = "open"
  /\ effects[r] # {}
  /\ phase' = [phase EXCEPT ![r] = "acknowledged"]
  /\ UNCHANGED <<recorded, effects>>

\* The client learns that something was tried, not whether it took effect.
Abandon(r) ==
  /\ phase[r] = "open"
  /\ r \in recorded
  /\ phase' = [phase EXCEPT ![r] = "indeterminate"]
  /\ UNCHANGED <<recorded, effects>>

Next ==
  \E r \in Requests :
    Record(r) \/ Apply(r) \/ Refuse(r) \/ Acknowledge(r) \/ Abandon(r)

Spec == Init /\ [][Next]_vars

-----------------------------------------------------------------------------
\* Every effect has its attempt on record, every acknowledgement stands for
\* an effect, and a refused request leaves no trace on the Target.
EffectsAccountedFor ==
  \A r \in Requests :
    /\ effects[r] # {} => r \in recorded
    /\ phase[r] = "acknowledged" => effects[r] # {}
    /\ phase[r] = "refused" => r \notin recorded
=============================================================================
