---------------------------- MODULE AdapterCatalog ----------------------------
(***************************************************************************)
(* tools/list at the Go adapter.  Each request asks a bridge process which *)
(* tools the client may use; the bridge decides one tool after another,    *)
(* each from the Registry as it is then.  Under a mutex the answer is      *)
(* compared with the catalogue in force and, if it differs, all tools are  *)
(* removed from the MCP server and those of the answer are added one by    *)
(* one.  The SDK then lists the tools that are there, without the mutex.   *)
(*                                                                         *)
(* The requests are served at the same time, by one server.  What the      *)
(* client is granted may change at any moment.                             *)
(***************************************************************************)
EXTENDS Integers, FiniteSets

CONSTANTS
  Requests,    \* tools/list requests: each is served over and over
  NTools,      \* tools, in the bridge's and the adapter's order (21)
  None,
  MaxChanges   \* bound: changes of what is granted

Tools == 1 .. NTools

ASSUME CatalogAssumption ==
  NTools \in Nat \ {0} /\ MaxChanges \in Nat /\ None \notin Requests

VARIABLES
  granted,     \* tools whose capability one of the client's grants has
  enabled,     \* whether the client is enabled
  changes,
  registered,  \* tools of the MCP server
  current,     \* currentAllowed
  mutex,       \* catalogMu
  at,          \* at[r]: where a request is
  turn,        \* turn[r]: the tool that is decided on, or added, next
  allowed,     \* allowed[r]: what the bridge has answered
  asked,       \* asked[r]: whether the bridge has answered
  crowded,     \* history: crowded[r]: r was not alone
  lately,      \* history: tools that were granted since no request was served
  admitted,    \* history: the client was enabled since then
  listed       \* history: the last response

registryVars == <<granted, enabled, changes>>
serverVars == <<registered, current, mutex>>
requestVars == <<at, turn, allowed, asked>>
historyVars == <<crowded, lately, admitted, listed>>
vars == <<registryVars, serverVars, requestVars, historyVars>>

NothingListed == [tools |-> {}, answer |-> {}, asked |-> FALSE, alone |-> FALSE]

\* NewGatewayServer asks once, and takes a failure for no tool at all.
Init ==
  /\ granted \in SUBSET Tools /\ enabled \in BOOLEAN /\ changes = 0
  /\ current \in SUBSET Tools /\ registered = current
  /\ mutex = None
  /\ at = [r \in Requests |-> "idle"]
  /\ turn = [r \in Requests |-> 1]
  /\ allowed = [r \in Requests |-> {}]
  /\ asked = [r \in Requests |-> FALSE]
  /\ crowded = [r \in Requests |-> FALSE]
  /\ lately = granted /\ admitted = enabled /\ listed = NothingListed

Goto(r, place) == at' = [at EXCEPT ![r] = place]
Others(r) == \E q \in Requests \ {r} : at[q] # "idle"

Begin(r) ==
  /\ at[r] = "idle"
  /\ Goto(r, "ask")
  /\ turn' = [turn EXCEPT ![r] = 1]
  /\ allowed' = [allowed EXCEPT ![r] = {}]
  /\ asked' = [asked EXCEPT ![r] = FALSE]
  /\ crowded' = [q \in Requests |-> IF q = r THEN Others(r) ELSE crowded[q] \/ at[q] # "idle"]
  /\ lately' = IF Others(r) THEN lately ELSE granted
  /\ admitted' = IF Others(r) THEN admitted ELSE enabled
  /\ UNCHANGED <<registryVars, serverVars, listed>>

\* get_tools_catalog: the next tool, if there is one.
NextTool(r) ==
  IF turn[r] = NTools
  THEN /\ Goto(r, "lock")
       /\ asked' = [asked EXCEPT ![r] = TRUE]
       /\ UNCHANGED turn
  ELSE /\ Goto(r, "ask")
       /\ turn' = [turn EXCEPT ![r] = turn[r] + 1]
       /\ UNCHANGED asked

\* authorize_client for one tool, with for_catalog, reads the client, and then
\* its grants.
ReadClient(r) ==
  /\ at[r] = "ask"
  /\ IF enabled THEN Goto(r, "grants") /\ UNCHANGED <<turn, asked>> ELSE NextTool(r)
  /\ UNCHANGED <<registryVars, serverVars, allowed, historyVars>>

ReadGrants(r) ==
  /\ at[r] = "grants"
  /\ allowed' = [allowed EXCEPT ![r] = @ \cup ({turn[r]} \cap granted)]
  /\ NextTool(r)
  /\ UNCHANGED <<registryVars, serverVars, historyVars>>

\* Mutant: a bridge that fails is asked again.
AskAgain(r) ==
  /\ at[r] \in {"ask", "grants"}
  /\ Goto(r, "ask")
  /\ turn' = [turn EXCEPT ![r] = 1]
  /\ allowed' = [allowed EXCEPT ![r] = {}]
  /\ UNCHANGED <<registryVars, serverVars, asked, historyVars>>

\* The bridge fails or takes 30 seconds: the catalogue stays as it is.
AskFails(r) ==
  /\ at[r] \in {"ask", "grants"}
  /\ Goto(r, "list")
  /\ UNCHANGED <<registryVars, serverVars, turn, allowed, asked, historyVars>>

Lock(r) ==
  /\ at[r] = "lock"
  /\ mutex = None
  /\ mutex' = r
  /\ Goto(r, "compare")
  /\ UNCHANGED <<registryVars, registered, current, turn, allowed, asked, historyVars>>

\* Mutant: sets of as many tools are taken for equal.
SameNumber(a, b) == Cardinality(a) = Cardinality(b)

\* toolSetsEqual.
SameTools(a, b) == a = b

\* Mutant: nothing is removed.
CompareAndAdd(r) ==
  /\ at[r] = "compare"
  /\ IF SameTools(current, allowed[r])
     THEN mutex' = None /\ Goto(r, "list") /\ UNCHANGED turn
     ELSE /\ turn' = [turn EXCEPT ![r] = 1]
          /\ Goto(r, "register")
          /\ UNCHANGED mutex
  /\ UNCHANGED <<registryVars, registered, current, allowed, asked, historyVars>>

\* syncServerTools begins by removing every tool.
Compare(r) ==
  /\ at[r] = "compare"
  /\ IF SameTools(current, allowed[r])
     THEN mutex' = None /\ Goto(r, "list") /\ UNCHANGED <<registered, turn>>
     ELSE /\ registered' = {}
          /\ turn' = [turn EXCEPT ![r] = 1]
          /\ Goto(r, "register")
          /\ UNCHANGED mutex
  /\ UNCHANGED <<registryVars, current, allowed, asked, historyVars>>

\* With the last tool the answer is remembered.
Register(r) ==
  /\ at[r] = "register"
  /\ registered' = registered \cup ({turn[r]} \cap allowed[r])
  /\ IF turn[r] = NTools
     THEN current' = allowed[r] /\ mutex' = None /\ Goto(r, "list") /\ UNCHANGED turn
     ELSE turn' = [turn EXCEPT ![r] = turn[r] + 1] /\ UNCHANGED <<current, mutex, at>>
  /\ UNCHANGED <<registryVars, allowed, asked, historyVars>>

\* The SDK's handler.
List(r) ==
  /\ at[r] = "list"
  /\ listed' = [tools |-> registered, answer |-> allowed[r], asked |-> asked[r],
                alone |-> ~crowded[r]]
  /\ Goto(r, "idle")
  /\ UNCHANGED <<registryVars, serverVars, turn, allowed, asked, crowded, lately, admitted>>

\* The administrator changes the client's grants, or switches the client.
Change ==
  /\ changes < MaxChanges /\ changes' = changes + 1
  /\ \/ granted' \in SUBSET Tools /\ UNCHANGED enabled
     \/ enabled' = ~enabled /\ UNCHANGED granted
  /\ lately' = lately \cup granted' /\ admitted' = (admitted \/ enabled')
  /\ UNCHANGED <<serverVars, requestVars, crowded, listed>>

Serve(r) ==
  ReadClient(r) \/ ReadGrants(r) \/ AskFails(r) \/ Lock(r) \/ Compare(r) \/ Register(r) \/ List(r)

Next == Change \/ \E r \in Requests : Begin(r) \/ Serve(r)

\* A bridge ends within its timeout, and Go's mutex starves nobody.
Fairness == \A r \in Requests : WF_vars(Serve(r)) /\ SF_vars(Lock(r))

Spec == Init /\ [][Next]_vars /\ Fairness

-----------------------------------------------------------------------------
(* Properties                                                              *)

\* Types; who compares or registers has the mutex.
TypeOK ==
  /\ granted \subseteq Tools /\ enabled \in BOOLEAN /\ changes \in 0 .. MaxChanges
  /\ registered \subseteq Tools /\ current \subseteq Tools
  /\ mutex \in Requests \cup {None}
  /\ at \in [Requests -> {"idle", "ask", "grants", "lock", "compare", "register", "list"}]
  /\ turn \in [Requests -> Tools]
  /\ allowed \in [Requests -> SUBSET Tools] /\ asked \in [Requests -> BOOLEAN]
  /\ crowded \in [Requests -> BOOLEAN] /\ lately \subseteq Tools /\ admitted \in BOOLEAN
  /\ listed \in [tools : SUBSET Tools, answer : SUBSET Tools, asked : BOOLEAN, alone : BOOLEAN]
  /\ \A r \in Requests : at[r] \in {"compare", "register"} => mutex = r

\* However requests overlap, the catalogue they leave is one bridge's answer,
\* the one that the next request's answer is compared with.
CatalogIsOneAnswer == mutex = None => registered = current

\* A request whose bridge answered, and that met no other, lists that answer.
AloneListsItsAnswer ==
  listed.asked /\ listed.alone => listed.tools = listed.answer

\* A request whose bridge answered lists no tool but those that were granted,
\* and none unless the client was enabled, while it or one of a chain of requests
\* that overlap was served: what is revoked, or all of a client that is switched
\* off, is listed by none that begins when those before have ended.
ListedWasGranted ==
  [][\A r \in Requests :
       List(r) /\ asked[r] => registered \subseteq lately /\ (registered # {} => admitted)]_vars

\* Every request is answered, whatever the others do.
EveryRequestAnswered == \A r \in Requests : at[r] = "ask" ~> at[r] = "idle"
=============================================================================
