----------------------- MODULE AdapterCatalog_proofs -----------------------
(***************************************************************************)
(* The catalogue of the adapter for any number of requests and tools.      *)
(***************************************************************************)
EXTENDS AdapterCatalog, TLAPS

Active(r) == at[r] # "idle"

\* Who is inside the mutex has taken it, and left the catalogue as far as it
\* has got: as it was at the comparison, then the answer's tools up to its turn.
Inside ==
  /\ mutex # None => at[mutex] \in {"compare", "register"}
  /\ \A r \in Requests : at[r] = "compare" => registered = current
  /\ \A r \in Requests : at[r] = "register" => registered = {t \in allowed[r] : t < turn[r]}

\* A request that met no other is the only one.
Solitary ==
  \A r, q \in Requests : Active(r) /\ ~crowded[r] /\ q # r => ~Active(q)

\* What was asked by a request that is alone is what is there to be listed.
Installed ==
  \A r \in Requests : at[r] = "list" /\ asked[r] /\ ~crowded[r] => registered = allowed[r]

\* A bridge's answer is of what was granted while requests were served, and
\* once one of them is to be listed so is what is there.
AnswersWereGranted ==
  /\ granted \subseteq lately
  /\ \A r \in Requests : Active(r) => allowed[r] \subseteq lately
  /\ \A r \in Requests : at[r] \in {"ask", "grants"} => ~asked[r]
  /\ \A r \in Requests : at[r] = "list" /\ asked[r] => registered \subseteq lately

\* And whoever was found enabled was so lately.
ClientsWereEnabled ==
  /\ enabled => admitted
  /\ \A r \in Requests : at[r] = "grants" => admitted
  /\ \A r \in Requests : Active(r) => (allowed[r] # {} => admitted)
  /\ \A r \in Requests : at[r] = "list" /\ asked[r] => (registered # {} => admitted)

CatalogInv ==
  /\ Inside /\ CatalogIsOneAnswer
  /\ Solitary /\ Installed /\ AloneListsItsAnswer
  /\ AnswersWereGranted /\ ClientsWereEnabled

-----------------------------------------------------------------------------
LEMMA InitTypeOK == Init => TypeOK
BY CatalogAssumption DEF Init, TypeOK, Tools, NothingListed

LEMMA NextTypeOK == TypeOK /\ [Next]_vars => TypeOK'
<1> SUFFICES ASSUME TypeOK, [Next]_vars PROVE TypeOK'
  OBVIOUS
<1>a. 1 \in Tools /\ NTools \in Tools
  BY CatalogAssumption DEF Tools
<1>b. \A t \in Tools : t # NTools => t + 1 \in Tools
  BY CatalogAssumption DEF Tools
<1> USE DEF TypeOK, Goto, registryVars, serverVars, requestVars, historyVars
<1>1. CASE UNCHANGED vars
  BY <1>1 DEF vars
<1>2. CASE Change
  <2>1. granted' \subseteq Tools /\ lately' \subseteq Tools
    BY <1>2, Zenon DEF Change
  <2>3. enabled' \in BOOLEAN /\ admitted' \in BOOLEAN
    BY <1>2, Zenon DEF Change
  <2>2. changes' \in 0 .. MaxChanges
    BY <1>2, CatalogAssumption DEF Change
  <2> QED
    BY <1>2, <2>1, <2>2, <2>3 DEF Change
<1>3. ASSUME NEW r \in Requests, Begin(r) PROVE TypeOK'
  <2>1. crowded' \in [Requests -> BOOLEAN]
    BY <1>3 DEF Begin, Others
  <2> QED
    BY <1>3, <1>a, <2>1, CatalogAssumption DEF Begin
<1>4. ASSUME NEW r \in Requests, ReadClient(r) \/ ReadGrants(r) PROVE TypeOK'
  <2>1. allowed' \in [Requests -> SUBSET Tools]
    <3>1. (allowed[r] \cup ({turn[r]} \cap granted)) \in SUBSET Tools
      OBVIOUS
    <3> QED
      BY <1>4, <3>1 DEF ReadClient, ReadGrants
  <2>2. at' \in [Requests -> {"idle", "ask", "grants", "lock", "compare", "register", "list"}]
    BY <1>4 DEF ReadClient, ReadGrants, NextTool
  <2>3. turn' \in [Requests -> Tools]
    BY <1>4, <1>b DEF ReadClient, ReadGrants, NextTool
  <2>4. asked' \in [Requests -> BOOLEAN]
    BY <1>4 DEF ReadClient, ReadGrants, NextTool
  <2> QED
    BY <1>4, <2>1, <2>2, <2>3, <2>4 DEF ReadClient, ReadGrants, NextTool
<1>5. ASSUME NEW r \in Requests, AskFails(r) PROVE TypeOK'
  BY <1>5 DEF AskFails
<1>6. ASSUME NEW r \in Requests, Lock(r) PROVE TypeOK'
  BY <1>6, CatalogAssumption DEF Lock
<1>7. ASSUME NEW r \in Requests, Compare(r) PROVE TypeOK'
  BY <1>7, <1>a DEF Compare, SameTools
<1>8. ASSUME NEW r \in Requests, Register(r) PROVE TypeOK'
  BY <1>8, <1>b DEF Register
<1>9. ASSUME NEW r \in Requests, List(r) PROVE TypeOK'
  BY <1>9 DEF List
<1> QED
  BY <1>1, <1>2, <1>3, <1>4, <1>5, <1>6, <1>7, <1>8, <1>9 DEF Next, Serve

\* Type correctness of the adapter, for any number of requests and tools; who
\* compares or registers has the mutex.
THEOREM CatalogTypeCorrect == Spec => []TypeOK
BY InitTypeOK, NextTypeOK, PTL DEF Spec

-----------------------------------------------------------------------------
LEMMA InitCatalogInv == Init => CatalogInv
BY CatalogAssumption
   DEF Init, CatalogInv, Inside, CatalogIsOneAnswer, Solitary, Installed, AloneListsItsAnswer,
       AnswersWereGranted, ClientsWereEnabled, Active, NothingListed

LEMMA NextCatalogInv == TypeOK /\ TypeOK' /\ CatalogInv /\ [Next]_vars => CatalogInv'
<1> SUFFICES ASSUME TypeOK, TypeOK', CatalogInv, [Next]_vars PROVE CatalogInv'
  OBVIOUS
<1> USE DEF CatalogInv, Goto, registryVars, serverVars, requestVars, historyVars
<1>1. CASE UNCHANGED vars
  BY <1>1 DEF vars, Inside, CatalogIsOneAnswer, Solitary, Installed, AloneListsItsAnswer,
              AnswersWereGranted, ClientsWereEnabled, Active
<1>2. CASE Change
  BY <1>2 DEF Change, Inside, CatalogIsOneAnswer, Solitary, Installed, AloneListsItsAnswer,
              AnswersWereGranted, ClientsWereEnabled, Active, TypeOK
<1>3. ASSUME NEW r \in Requests, Serve(r) \/ Begin(r) PROVE CatalogInv'
  <2>1. CASE Begin(r)
    <3>1. Inside' /\ CatalogIsOneAnswer' /\ AloneListsItsAnswer'
      BY <2>1, CatalogAssumption DEF Begin, Inside, CatalogIsOneAnswer, AloneListsItsAnswer, TypeOK
    <3>2. Solitary' /\ Installed'
      BY <2>1 DEF Begin, Others, Solitary, Installed, Active, TypeOK
    <3>3. AnswersWereGranted' /\ ClientsWereEnabled'
      BY <2>1 DEF Begin, Others, AnswersWereGranted, ClientsWereEnabled, Active, TypeOK
    <3> QED
      BY <3>1, <3>2, <3>3
  <2>2. CASE ReadClient(r) \/ ReadGrants(r)
    <3>1. Inside' /\ CatalogIsOneAnswer' /\ AloneListsItsAnswer'
      BY <2>2, CatalogAssumption
        DEF ReadClient, ReadGrants, NextTool, Inside, CatalogIsOneAnswer, AloneListsItsAnswer, TypeOK
    <3>2. Solitary' /\ Installed'
      BY <2>2 DEF ReadClient, ReadGrants, NextTool, Solitary, Installed, Active, TypeOK
    <3>3. AnswersWereGranted'
      BY <2>2 DEF ReadClient, ReadGrants, NextTool, AnswersWereGranted, Active, TypeOK
    <3>4. ClientsWereEnabled'
      BY <2>2 DEF ReadClient, ReadGrants, NextTool, ClientsWereEnabled, AnswersWereGranted, Active, TypeOK
    <3> QED
      BY <3>1, <3>2, <3>3, <3>4
  <2>3. CASE AskFails(r)
    <3>1. Inside' /\ CatalogIsOneAnswer' /\ AloneListsItsAnswer'
      BY <2>3, CatalogAssumption DEF AskFails, Inside, CatalogIsOneAnswer, AloneListsItsAnswer, TypeOK
    <3>2. Solitary' /\ Installed' /\ AnswersWereGranted' /\ ClientsWereEnabled'
      BY <2>3 DEF AskFails, Solitary, Installed, AnswersWereGranted, ClientsWereEnabled, Active, TypeOK
    <3> QED
      BY <3>1, <3>2
  <2>4. CASE Lock(r)
    <3>1. Inside' /\ CatalogIsOneAnswer' /\ AloneListsItsAnswer'
      BY <2>4, CatalogAssumption DEF Lock, Inside, CatalogIsOneAnswer, AloneListsItsAnswer, TypeOK
    <3>2. Solitary' /\ Installed' /\ AnswersWereGranted' /\ ClientsWereEnabled'
      BY <2>4 DEF Lock, Solitary, Installed, AnswersWereGranted, ClientsWereEnabled, Active, TypeOK
    <3> QED
      BY <3>1, <3>2
  <2>5. CASE Compare(r)
    <3>1. registered = current /\ mutex = r
      BY <2>5 DEF Compare, Inside, TypeOK
    <3>2. \A q \in Requests : q # r => at[q] \notin {"compare", "register"}
      BY <3>1 DEF TypeOK
    <3>3. {t \in allowed[r] : t < 1} = {}
      BY DEF TypeOK, Tools
    <3>7. Inside'
      BY <2>5, <3>1, <3>2, <3>3 DEF Compare, Inside, TypeOK
    <3>4. CatalogIsOneAnswer' /\ AloneListsItsAnswer'
      BY <2>5, <3>1, CatalogAssumption DEF Compare, CatalogIsOneAnswer, AloneListsItsAnswer, TypeOK
    <3>5. Solitary' /\ Installed'
      BY <2>5, <3>1 DEF Compare, SameTools, Solitary, Installed, Active, TypeOK
    <3>6. AnswersWereGranted' /\ ClientsWereEnabled'
      BY <2>5, <3>1 DEF Compare, SameTools, AnswersWereGranted, ClientsWereEnabled, Active, TypeOK
    <3> QED
      BY <3>4, <3>5, <3>6, <3>7
  <2>6. CASE Register(r)
    <3>1. registered = {t \in allowed[r] : t < turn[r]} /\ mutex = r
      BY <2>6 DEF Register, Inside, TypeOK
    <3>2. \A q \in Requests : q # r => at[q] \notin {"compare", "register"}
      BY <3>1 DEF TypeOK
    <3>3. registered' = {t \in allowed[r] : t < turn[r] + 1}
      BY <2>6, <3>1 DEF Register, TypeOK, Tools
    <3>4. turn[r] = NTools => registered' = allowed[r]
      BY <3>3, CatalogAssumption DEF TypeOK, Tools
    <3>5. Inside'
      BY <2>6, <3>1, <3>2, <3>3 DEF Register, Inside, TypeOK
    <3>6. CatalogIsOneAnswer' /\ AloneListsItsAnswer'
      BY <2>6, <3>1, <3>4, CatalogAssumption
         DEF Register, CatalogIsOneAnswer, AloneListsItsAnswer, TypeOK
    <3>7. Solitary' /\ Installed'
      BY <2>6, <3>4 DEF Register, Solitary, Installed, Active, TypeOK
    <3>8. AnswersWereGranted' /\ ClientsWereEnabled'
      BY <2>6, <3>3 DEF Register, AnswersWereGranted, ClientsWereEnabled, Active, TypeOK
    <3> QED
      BY <3>5, <3>6, <3>7, <3>8
  <2>7. CASE List(r)
    <3>1. Inside' /\ CatalogIsOneAnswer'
      BY <2>7, CatalogAssumption DEF List, Inside, CatalogIsOneAnswer, TypeOK
    <3>2. AloneListsItsAnswer'
      BY <2>7 DEF List, AloneListsItsAnswer, Installed, TypeOK
    <3>3. Solitary' /\ Installed' /\ AnswersWereGranted' /\ ClientsWereEnabled'
      BY <2>7 DEF List, Solitary, Installed, AnswersWereGranted, ClientsWereEnabled, Active, TypeOK
    <3> QED
      BY <3>1, <3>2, <3>3
  <2> QED
    BY <1>3, <2>1, <2>2, <2>3, <2>4, <2>5, <2>6, <2>7 DEF Serve
<1> QED
  BY <1>1, <1>2, <1>3 DEF Next

LEMMA CatalogInvariant == Spec => [](TypeOK /\ CatalogInv)
BY InitTypeOK, NextTypeOK, InitCatalogInv, NextCatalogInv, PTL DEF Spec

\* However many requests overlap, the catalogue they leave is one bridge's
\* answer.
THEOREM CatalogHasOneSource == Spec => []CatalogIsOneAnswer
BY CatalogInvariant, PTL DEF CatalogInv

\* A request that met no other lists what its bridge has answered.
THEOREM SolitaryRequestsListTheirAnswer == Spec => []AloneListsItsAnswer
BY CatalogInvariant, PTL DEF CatalogInv

\* What was revoked before any of the requests in service began is not listed, and
\* nothing of a client that was switched off before.
THEOREM RevokedIsNotListed == Spec => ListedWasGranted
<1>1. CatalogInv => \A r \in Requests :
        List(r) /\ asked[r] => registered \subseteq lately /\ (registered # {} => admitted)
  BY DEF CatalogInv, AnswersWereGranted, ClientsWereEnabled, List
<1> QED
  BY <1>1, CatalogInvariant, PTL DEF ListedWasGranted
=============================================================================
