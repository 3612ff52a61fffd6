-------------------------- MODULE TargetDiscovery --------------------------
(***************************************************************************)
(* What SSHTransport and TargetDiscovery do when a Target does not answer  *)
(* at the endpoint the Registry has for it: look for the host that shows   *)
(* the Target's pinned key, first among the kernel's neighbours, then on   *)
(* the subnets, make it the endpoint, and run the command once more.       *)
(*                                                                         *)
(* The locks, the cooldown and the last result belong to a process; its    *)
(* threads share them.  (A bridge process has one thread and makes several *)
(* ssh commands; the class is written for several.)  The Registry belongs  *)
(* to all processes.  Hosts come, go and change addresses at any time,     *)
(* also between the key scans of one discovery.                            *)
(***************************************************************************)
EXTENDS Naturals

CONSTANTS
  Callers,      \* threads that run ssh commands against one Target
  Processes,
  Home,         \* Home[c]: the process of caller c
  Hosts,        \* addresses
  Entries,      \* the addresses the administrator may enter
  Placements,   \* the sets of addresses at which the pinned key may be shown
  Neighborhoods, \* what the kernel's table of neighbours may hold
  MaxCommands   \* bound: MaxCommands[c] ssh commands of caller c

\* A DiscoveryResult; host has the new host of an identity match.
Result ==
  [status : {"IDENTITY_MATCH"}, host : {{h} : h \in Hosts}]
    \cup [status : {"AMBIGUOUS_TARGET_IDENTITY", "TARGET_NOT_FOUND", "ERROR", "none"},
          host : {{}}]
NoResult == [status |-> "none", host |-> {}]

ASSUME DiscoveryAssumption ==
  /\ Home \in [Callers -> Processes]
  /\ Entries \subseteq Hosts
  /\ Placements \subseteq SUBSET Hosts
  /\ Neighborhoods \subseteq SUBSET Hosts
  /\ MaxCommands \in [Callers -> Nat]

Progress ==
  {"idle", "connect", "lookup", "blocked", "woken", "waited", "cooldown", "neighbors",
   "subnets", "resolve", "audit", "retry", "dead"}
Scanning == {"neighbors", "subnets"}

VARIABLES
  endpoint,  \* the Registry's targets.host
  shown,     \* the addresses at which a host shows the pinned key
  locked,    \* locked[p]: the Target's lock
  fresh,     \* fresh[p]: the last attempt is less than the cooldown ago
  last,      \* last[p]: the last result, NoResult if there is none
  pc,        \* pc[c]: where the caller is
  left,      \* left[c]: ssh commands it may still run
  mine,      \* mine[c]: the endpoint in the caller's own copy of the Target
  todo,      \* todo[c]: candidates whose keys are still to be scanned
  near,      \* near[c]: the neighbours of its first tier
  found,     \* found[c]: candidates of this tier that showed a pinned key
  outcome,   \* outcome[c]: the result it got
  seen,      \* history: seen[p], the hosts that showed p a pinned key
  raised     \* history: raised[p], a discovery of p ended in an exception

procVars == <<locked, fresh, last, raised>>
scanVars == <<todo, near, found, seen>>
vars == <<endpoint, shown, locked, fresh, last, pc, left, mine,
          todo, near, found, outcome, seen, raised>>

-----------------------------------------------------------------------------
Init ==
  /\ endpoint \in Entries
  /\ shown \in Placements
  /\ locked = [p \in Processes |-> FALSE]
  /\ fresh = [p \in Processes |-> FALSE]
  /\ last = [p \in Processes |-> NoResult]
  /\ pc = [c \in Callers |-> "idle"]
  /\ left = MaxCommands
  /\ mine = [c \in Callers |-> endpoint]
  /\ todo = [c \in Callers |-> {}]
  /\ near = [c \in Callers |-> {}]
  /\ found = [c \in Callers |-> {}]
  /\ outcome = [c \in Callers |-> NoResult]
  /\ seen = [p \in Processes |-> {}]
  /\ raised = [p \in Processes |-> FALSE]

Goto(c, place) == pc' = [pc EXCEPT ![c] = place]

\* discover_target returns: its local variables are gone.
Forget(c) == /\ todo' = [todo EXCEPT ![c] = {}]
             /\ near' = [near EXCEPT ![c] = {}]
             /\ found' = [found EXCEPT ![c] = {}]
             /\ UNCHANGED seen

(* Outside: the network, the administrator, the clock, the deadline.       *)

Move ==
  /\ shown' \in Placements
  /\ UNCHANGED <<endpoint, procVars, pc, left, mine, scanVars, outcome>>

\* The administrator edits the Target.
Edit ==
  /\ endpoint' \in Entries
  /\ UNCHANGED <<shown, procVars, pc, left, mine, scanVars, outcome>>

CooldownEnds(p) ==
  /\ fresh' = [fresh EXCEPT ![p] = FALSE]
  /\ UNCHANGED <<endpoint, shown, locked, last, raised, pc, left, mine, scanVars, outcome>>

\* With the process goes all it remembers.
Kill(p) ==
  LET Without(local, none) == [c \in Callers |-> IF Home[c] = p THEN none ELSE local[c]]
  IN /\ pc' = Without(pc, "dead")
     /\ todo' = Without(todo, {})
     /\ near' = Without(near, {})
     /\ found' = Without(found, {})
     /\ outcome' = Without(outcome, NoResult)
     /\ locked' = [locked EXCEPT ![p] = FALSE]
     /\ fresh' = [fresh EXCEPT ![p] = FALSE]
     /\ last' = [last EXCEPT ![p] = NoResult]
     /\ UNCHANGED <<endpoint, shown, raised, left, mine, seen>>

-----------------------------------------------------------------------------
(* SSHTransport.run_command                                                *)

\* The next command, with the copy of the Target of the last one, or a new one.
Command(c) ==
  /\ pc[c] = "idle"
  /\ left[c] > 0
  /\ left' = [left EXCEPT ![c] = @ - 1]
  /\ \E h \in {mine[c], endpoint} : mine' = [mine EXCEPT ![c] = h]
  /\ outcome' = [outcome EXCEPT ![c] = NoResult]
  /\ Goto(c, "connect")
  /\ UNCHANGED <<endpoint, shown, procVars, scanVars>>

\* The command runs or fails for good; or a network failure, a timeout or an
\* unexpected host key start a discovery.
Connect(c) ==
  /\ pc[c] = "connect"
  /\ \E place \in {"idle", "lookup"} : Goto(c, place)
  /\ UNCHANGED <<endpoint, shown, procVars, left, mine, scanVars, outcome>>

\* The command ends, with its output or its error.
Over(c) == /\ Goto(c, "idle")
           /\ outcome' = [outcome EXCEPT ![c] = NoResult]

\* The end of _attempt_discovery_and_retry: one UPDATE of targets.host.
Resolve(c) ==
  /\ pc[c] = "resolve"
  /\ IF outcome[c].status = "IDENTITY_MATCH"
     THEN \E h \in outcome[c].host :
            IF h = mine[c] THEN Goto(c, "retry") /\ UNCHANGED <<endpoint, outcome>>
            ELSE \/ endpoint' = h /\ Goto(c, "audit") /\ UNCHANGED outcome
                 \/ UNCHANGED endpoint /\ Over(c)      \* the Registry fails
     ELSE Over(c) /\ UNCHANGED endpoint
  /\ UNCHANGED <<shown, procVars, left, mine, scanVars>>

\* The event target_endpoint_updated; without it the command fails, with the
\* endpoint changed in the Registry and not in the caller's copy.
Audit(c) ==
  /\ pc[c] = "audit"
  /\ \/ /\ \E h \in outcome[c].host : mine' = [mine EXCEPT ![c] = h]
        /\ Goto(c, "retry")
        /\ UNCHANGED outcome
     \/ Over(c) /\ UNCHANGED mine
  /\ UNCHANGED <<endpoint, shown, procVars, left, scanVars>>

\* The command once more, whatever becomes of it.
Retry(c) ==
  /\ pc[c] = "retry"
  /\ Over(c)
  /\ UNCHANGED <<endpoint, shown, procVars, left, mine, scanVars>>

-----------------------------------------------------------------------------
(* TargetDiscovery.discover_target                                         *)

Acquire(c) ==
  /\ pc[c] = "lookup"
  /\ IF locked[Home[c]]
     THEN Goto(c, "blocked") /\ UNCHANGED locked
     ELSE Goto(c, "cooldown") /\ locked' = [locked EXCEPT ![Home[c]] = TRUE]
  /\ UNCHANGED <<endpoint, shown, fresh, last, raised, left, mine, scanVars, outcome>>

\* The lock is released, whoever holds it; with nobody holding it that raises
\* an exception.
Unlock(c, place) ==
  IF locked[Home[c]]
  THEN /\ locked' = [locked EXCEPT ![Home[c]] = FALSE]
       /\ Goto(c, place)
       /\ UNCHANGED raised
  ELSE /\ Goto(c, "idle")
       /\ raised' = [raised EXCEPT ![Home[c]] = TRUE]
       /\ UNCHANGED locked

\* A caller that waited takes the lock, and gives it back: another one may come
\* in between, and wait for this one.
WakeUp(c) ==
  /\ pc[c] = "blocked"
  /\ ~locked[Home[c]]
  /\ locked' = [locked EXCEPT ![Home[c]] = TRUE]
  /\ Goto(c, "woken")
  /\ UNCHANGED <<endpoint, shown, fresh, last, raised, left, mine, scanVars, outcome>>

LetGo(c) ==
  /\ pc[c] = "woken"
  /\ Unlock(c, "waited")
  /\ UNCHANGED <<endpoint, shown, fresh, last, left, mine, scanVars, outcome>>

\* Mutant: the caller that waited does not take the result of the other.
WakeToScan(c) ==
  /\ pc[c] = "waited"
  /\ todo' = [todo EXCEPT ![c] = Hosts \ {mine[c]}]
  /\ found' = [found EXCEPT ![c] = {}]
  /\ Goto(c, "neighbors")
  /\ UNCHANGED <<endpoint, shown, procVars, left, mine, near, seen, outcome>>

\* It returns the last result, which is that of the discovery it waited for or a
\* later one.  If the discovery raised an exception there may be none, and the
\* caller goes on without the lock.
Wake(c) ==
  /\ pc[c] = "waited"
  /\ IF last[Home[c]] # NoResult
     THEN Goto(c, "resolve") /\ outcome' = [outcome EXCEPT ![c] = last[Home[c]]]
     ELSE Goto(c, "cooldown") /\ UNCHANGED outcome
  /\ UNCHANGED <<endpoint, shown, procVars, left, mine, scanVars>>

\* finally, where an exception takes the place of the result.
Return(c) == Unlock(c, "resolve")

Conclude(c, result) ==
  /\ last' = [last EXCEPT ![Home[c]] = result]
  /\ fresh' = [fresh EXCEPT ![Home[c]] = TRUE]
  /\ outcome' = [outcome EXCEPT ![c] = result]
  /\ Return(c)

\* The last result is still good.
Cached(c) ==
  /\ pc[c] = "cooldown"
  /\ fresh[Home[c]]
  /\ last[Home[c]] # NoResult
  /\ outcome' = [outcome EXCEPT ![c] = last[Home[c]]]
  /\ Return(c)
  /\ UNCHANGED <<endpoint, shown, fresh, last, left, mine, scanVars>>

\* known_hosts has no key for this Target.
NoPinnedKey(c) ==
  /\ pc[c] = "cooldown"
  /\ ~(fresh[Home[c]] /\ last[Home[c]] # NoResult)
  /\ Conclude(c, [status |-> "ERROR", host |-> {}])
  /\ UNCHANGED <<endpoint, shown, left, mine, scanVars>>

\* Tier 1: the neighbours, but for the endpoint that failed.
ScanNeighbors(c) ==
  /\ pc[c] = "cooldown"
  /\ ~(fresh[Home[c]] /\ last[Home[c]] # NoResult)
  /\ \E n \in Neighborhoods : /\ near' = [near EXCEPT ![c] = n]
                              /\ todo' = [todo EXCEPT ![c] = n \ {mine[c]}]
  /\ found' = [found EXCEPT ![c] = {}]
  /\ Goto(c, "neighbors")
  /\ UNCHANGED <<endpoint, shown, procVars, left, mine, seen, outcome>>

\* Mutant: a host that answers ssh-keyscan is taken for the Target.
VerifyAnyKey(c) ==
  /\ pc[c] \in Scanning
  /\ todo[c] # {}
  /\ LET h == CHOOSE x \in todo[c] : TRUE IN
       /\ todo' = [todo EXCEPT ![c] = @ \ {h}]
       /\ found' = [found EXCEPT ![c] = @ \cup {h}]
       /\ seen' = IF h \in shown THEN [seen EXCEPT ![Home[c]] = @ \cup {h}] ELSE seen
  /\ UNCHANGED <<endpoint, shown, procVars, pc, left, mine, near, outcome>>

\* verify_candidate, in the order of the addresses: ssh-keyscan shows a pinned
\* key, another one, or nothing, as where the port is not open at all.
Verify(c) ==
  /\ pc[c] \in Scanning
  /\ todo[c] # {}
  /\ LET h == CHOOSE x \in todo[c] : TRUE IN
       /\ todo' = [todo EXCEPT ![c] = @ \ {h}]
       /\ \/ /\ h \in shown
             /\ found' = [found EXCEPT ![c] = @ \cup {h}]
             /\ seen' = [seen EXCEPT ![Home[c]] = @ \cup {h}]
          \/ UNCHANGED <<found, seen>>
  /\ UNCHANGED <<endpoint, shown, procVars, pc, left, mine, near, outcome>>

\* Tier 2: the hosts of the subnets that tier 1 has not looked at.
ScanSubnets(c) ==
  /\ pc[c] = "neighbors"
  /\ todo[c] = {}
  /\ found[c] = {}
  /\ todo' = [todo EXCEPT ![c] = Hosts \ (near[c] \cup {mine[c]})]
  /\ near' = [near EXCEPT ![c] = {}]
  /\ Goto(c, "subnets")
  /\ UNCHANGED <<endpoint, shown, procVars, left, mine, found, seen, outcome>>

Ambiguous == [status |-> "AMBIGUOUS_TARGET_IDENTITY", host |-> {}]

\* Mutant: the first of several matches is taken.
FirstMatch(hosts) ==
  IF hosts # {} THEN [status |-> "IDENTITY_MATCH", host |-> hosts]
  ELSE [status |-> "TARGET_NOT_FOUND", host |-> {}]

\* One match, none, or more than one.
Verdict(hosts) ==
  IF \E h \in Hosts : hosts = {h} THEN [status |-> "IDENTITY_MATCH", host |-> hosts]
  ELSE IF hosts = {} THEN [status |-> "TARGET_NOT_FOUND", host |-> {}]
  ELSE Ambiguous

\* An address that is in two of the subnets is scanned twice, and may be two
\* matches.
Verdicts(c) ==
  {Verdict(found[c])} \cup IF pc[c] = "subnets" /\ found[c] # {} THEN {Ambiguous} ELSE {}

\* Mutant: no finally.
FinishLocked(c) ==
  /\ pc[c] \in Scanning
  /\ todo[c] = {}
  /\ pc[c] = "neighbors" => found[c] # {}
  /\ last' = [last EXCEPT ![Home[c]] = Verdict(found[c])]
  /\ fresh' = [fresh EXCEPT ![Home[c]] = TRUE]
  /\ outcome' = [outcome EXCEPT ![c] = Verdict(found[c])]
  /\ Goto(c, "resolve")
  /\ Forget(c)
  /\ UNCHANGED <<endpoint, shown, locked, raised, left, mine>>

Finish(c) ==
  /\ pc[c] \in Scanning
  /\ todo[c] = {}
  /\ pc[c] = "neighbors" => found[c] # {}
  /\ \E result \in Verdicts(c) : Conclude(c, result)
  /\ Forget(c)
  /\ UNCHANGED <<endpoint, shown, left, mine>>

\* An exception, as when no thread can be started; finally again.
Raise(c) ==
  /\ pc[c] \in {"cooldown"} \cup Scanning
  /\ Goto(c, "idle")
  /\ locked' = [locked EXCEPT ![Home[c]] = FALSE]
  /\ raised' = [raised EXCEPT ![Home[c]] = TRUE]
  /\ Forget(c)
  /\ UNCHANGED <<endpoint, shown, fresh, last, left, mine, outcome>>

-----------------------------------------------------------------------------
Discover(c) ==
  \/ Acquire(c) \/ WakeUp(c) \/ LetGo(c) \/ Wake(c) \/ Cached(c) \/ NoPinnedKey(c)
  \/ ScanNeighbors(c) \/ Verify(c) \/ ScanSubnets(c) \/ Finish(c) \/ Raise(c)
Transport(c) == Connect(c) \/ Resolve(c) \/ Audit(c) \/ Retry(c)

Next ==
  \/ \E c \in Callers : Command(c) \/ Transport(c) \/ Discover(c)
  \/ \E p \in Processes : CooldownEnds(p) \/ Kill(p)
  \/ Move \/ Edit

\* A thread in a discovery goes on: every socket, ssh-keyscan and ip command
\* it starts has a timeout.
Fairness == \A c \in Callers : WF_vars(Discover(c))

Spec == Init /\ [][Next]_vars /\ Fairness

-----------------------------------------------------------------------------
TypeOK ==
  /\ endpoint \in Hosts
  /\ shown \in SUBSET Hosts
  /\ locked \in [Processes -> BOOLEAN]
  /\ fresh \in [Processes -> BOOLEAN]
  /\ last \in [Processes -> Result]
  /\ pc \in [Callers -> Progress]
  /\ left \in [Callers -> Nat]
  /\ mine \in [Callers -> Hosts]
  /\ todo \in [Callers -> SUBSET Hosts]
  /\ near \in [Callers -> SUBSET Hosts]
  /\ found \in [Callers -> SUBSET Hosts]
  /\ outcome \in [Callers -> Result]
  /\ seen \in [Processes -> SUBSET Hosts]
  /\ raised \in [Processes -> BOOLEAN]

\* architecture.md: rediscovery may update an address only after cryptographic
\* identity matches.  By a fresh result or a cached one, by a caller that
\* scanned or one that waited: the endpoint it sets has shown its process a
\* pinned key.
EndpointWasVerified ==
  [][\A c \in Callers :
       pc[c] = "resolve" /\ pc'[c] = "audit" => endpoint' \in seen[Home[c]]]_vars

\* v1.2.0.md: the lock prevents duplicate network scans.  As long as no
\* discovery of the process has raised an exception, one thread of it scans.
OneScanAtATime ==
  \A p \in Processes :
    ~raised[p] => \A c, d \in {x \in Callers : Home[x] = p /\ pc[x] \in Scanning} : c = d

\* A thread that waits for another's discovery gets out of it, whatever that
\* one ends in.
WaitersReturn ==
  \A c \in Callers : pc[c] = "blocked" ~> pc[c] \notin {"blocked", "woken", "waited"}
=============================================================================
