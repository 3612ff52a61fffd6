----------------------- MODULE TargetDiscovery_proofs -----------------------
(***************************************************************************)
(* Discovery keeps its types, changes an endpoint only to a host that has  *)
(* shown a pinned key, and scans one thread at a time.                     *)
(***************************************************************************)
EXTENDS TargetDiscovery, TLAPS

\* What a scan concludes is a result, with the one host there is in a match.
LEMMA VerdictType ==
  ASSUME NEW c \in Callers, found[c] \in SUBSET Hosts, NEW result \in Verdicts(c)
  PROVE  result \in Result /\ result.host \subseteq found[c]
BY DEF Verdicts, Verdict, Ambiguous, Result

\* The constants' part of the type invariant, and the initial values.
LEMMA InitTypeOK == Init => TypeOK
BY DiscoveryAssumption DEF Init, TypeOK, Progress, Result, NoResult

\* Every step keeps the types.
LEMMA StepTypeOK == TypeOK /\ [Next]_vars => TypeOK'
<1> SUFFICES ASSUME TypeOK, [Next]_vars PROVE TypeOK'
  OBVIOUS
<1> USE DiscoveryAssumption DEF TypeOK, Progress, procVars, scanVars
<1>1. ASSUME NEW c \in Callers, Command(c) PROVE TypeOK'
  BY <1>1 DEF Command, Goto, Result, NoResult
<1>2. ASSUME NEW c \in Callers, Transport(c) PROVE TypeOK'
  <2>1. \A h \in outcome[c].host : h \in Hosts
    BY DEF Result
  <2>2. NoResult \in Result
    BY DEF NoResult, Result
  <2>3. CASE Connect(c)
    BY <2>3 DEF Connect, Goto
  <2>4. CASE Resolve(c)
    BY <2>1, <2>2, <2>4 DEF Resolve, Over, Goto
  <2>5. CASE Audit(c)
    BY <2>1, <2>2, <2>5 DEF Audit, Over, Goto
  <2>6. CASE Retry(c)
    BY <2>2, <2>6 DEF Retry, Over, Goto
  <2>7. QED
    BY <1>2, <2>3, <2>4, <2>5, <2>6 DEF Transport
<1>3. ASSUME NEW c \in Callers, Discover(c) PROVE TypeOK'
  <2>1. Home[c] \in Processes /\ \A result \in Verdicts(c) : result \in Result
    BY VerdictType
  <2>2. [status |-> "ERROR", host |-> {}] \in Result
    BY DEF Result
  <2>3. CASE Acquire(c)
    BY <2>1, <2>3 DEF Acquire, Goto
  <2>4. CASE WakeUp(c) \/ LetGo(c) \/ Wake(c)
    <3>1. CASE WakeUp(c)
      BY <2>1, <3>1 DEF WakeUp, Goto
    <3>2. CASE LetGo(c)
      BY <2>1, <3>2 DEF LetGo, Unlock, Goto
    <3>3. CASE Wake(c)
      BY <2>1, <3>3 DEF Wake, Goto
    <3>4. QED
      BY <2>4, <3>1, <3>2, <3>3
  <2>5. CASE Cached(c)
    BY <2>1, <2>5 DEF Cached, Return, Unlock, Goto
  <2>6. CASE NoPinnedKey(c)
    BY <2>1, <2>2, <2>6 DEF NoPinnedKey, Conclude, Return, Unlock, Goto
  <2>7. CASE ScanNeighbors(c)
    BY <2>7 DEF ScanNeighbors, Goto
  <2>8. CASE Verify(c)
    BY <2>1, <2>8 DEF Verify
  <2>9. CASE ScanSubnets(c)
    BY <2>9 DEF ScanSubnets, Goto
  <2>10. CASE Finish(c)
    <3>1. PICK result \in Verdicts(c) : Conclude(c, result)
      BY <2>10 DEF Finish
    <3>2. result \in Result
      BY <2>1
    <3>3. UNCHANGED <<endpoint, shown, left, mine>> /\ Forget(c)
      BY <2>10 DEF Finish
    <3>4. last' \in [Processes -> Result] /\ fresh' \in [Processes -> BOOLEAN]
          /\ outcome' \in [Callers -> Result]
      BY <2>1, <3>1, <3>2 DEF Conclude
    <3>5. locked' \in [Processes -> BOOLEAN] /\ raised' \in [Processes -> BOOLEAN]
          /\ pc' \in [Callers -> Progress]
      BY <2>1, <3>1 DEF Conclude, Return, Unlock, Goto
    <3>6. QED
      BY <3>3, <3>4, <3>5 DEF Forget
  <2>11. CASE Raise(c)
    BY <2>1, <2>11 DEF Raise, Forget, Goto
  <2>12. QED
    BY <1>3, <2>3, <2>4, <2>5, <2>6, <2>7, <2>8, <2>9, <2>10, <2>11 DEF Discover
<1>4. ASSUME NEW p \in Processes, CooldownEnds(p) \/ Kill(p) PROVE TypeOK'
  <2>1. NoResult \in Result
    BY DEF NoResult, Result
  <2>2. CASE CooldownEnds(p)
    BY <2>2 DEF CooldownEnds
  <2>3. CASE Kill(p)
    BY <2>1, <2>3 DEF Kill
  <2>4. QED
    BY <1>4, <2>2, <2>3
<1>5. CASE Move \/ Edit
  BY <1>5 DEF Move, Edit
<1>6. CASE UNCHANGED vars
  BY <1>6 DEF vars
<1>7. QED
  BY <1>1, <1>2, <1>3, <1>4, <1>5, <1>6 DEF Next

\* Type correctness of discovery, for any threads, processes and hosts.
THEOREM DiscoveryTypeCorrect == Spec => []TypeOK
BY InitTypeOK, StepTypeOK, PTL DEF Spec

-----------------------------------------------------------------------------
\* Where a pinned key must have been shown: to the scan that found it, the
\* process that remembers it and the caller that is about to use it.
Verified ==
  /\ \A c \in Callers : /\ found[c] \subseteq seen[Home[c]]
                        /\ outcome[c].host \subseteq seen[Home[c]]
  /\ \A p \in Processes : last[p].host \subseteq seen[p]

\* Nothing has been found at first.
LEMMA InitVerified == Init => Verified
BY DEF Init, Verified, NoResult

\* Every step keeps what is found, remembered and used among the hosts seen.
LEMMA StepVerified == TypeOK /\ Verified /\ [Next]_vars => Verified'
<1> SUFFICES ASSUME TypeOK, Verified, [Next]_vars PROVE Verified'
  OBVIOUS
<1> USE DiscoveryAssumption DEF TypeOK, Verified, procVars, scanVars
<1>1. ASSUME NEW c \in Callers, Command(c) \/ Transport(c) PROVE Verified'
  BY <1>1 DEF Command, Transport, Connect, Resolve, Audit, Retry, Over, NoResult
<1>2. ASSUME NEW c \in Callers, Discover(c) PROVE Verified'
  <2>1. Home[c] \in Processes /\ \A result \in Verdicts(c) : result.host \subseteq found[c]
    BY VerdictType
  <2>2. CASE Acquire(c)
    BY <2>2 DEF Acquire
  <2>3. CASE WakeUp(c) \/ LetGo(c) \/ Wake(c)
    BY <2>1, <2>3 DEF WakeUp, LetGo, Wake
  <2>4. CASE Cached(c)
    BY <2>1, <2>4 DEF Cached
  <2>5. CASE NoPinnedKey(c)
    BY <2>1, <2>5 DEF NoPinnedKey, Conclude
  <2>6. CASE ScanNeighbors(c)
    BY <2>6 DEF ScanNeighbors
  <2>7. CASE Verify(c)
    BY <2>1, <2>7 DEF Verify
  <2>8. CASE ScanSubnets(c)
    BY <2>8 DEF ScanSubnets
  <2>9. CASE Finish(c)
    BY <2>1, <2>9 DEF Finish, Conclude, Forget
  <2>10. CASE Raise(c)
    BY <2>10 DEF Raise, Forget
  <2>11. QED
    BY <1>2, <2>2, <2>3, <2>4, <2>5, <2>6, <2>7, <2>8, <2>9, <2>10 DEF Discover
<1>3. ASSUME NEW p \in Processes, CooldownEnds(p) \/ Kill(p) PROVE Verified'
  <2>1. CASE CooldownEnds(p)
    BY <2>1 DEF CooldownEnds
  <2>2. CASE Kill(p)
    <3>1. \A c \in Callers : /\ found'[c] \in {{}, found[c]}
                            /\ outcome'[c] \in {NoResult, outcome[c]}
      BY <2>2 DEF Kill
    <3>2. \A q \in Processes : last'[q] \in {NoResult, last[q]}
      BY <2>2 DEF Kill
    <3>3. seen' = seen /\ NoResult.host = {}
      BY <2>2 DEF Kill, NoResult
    <3>4. QED
      BY <3>1, <3>2, <3>3
  <2>3. QED
    BY <1>3, <2>1, <2>2
<1>4. CASE Move \/ Edit \/ UNCHANGED vars
  BY <1>4 DEF Move, Edit, vars
<1>5. QED
  BY <1>1, <1>2, <1>3, <1>4 DEF Next

\* The step from "resolve" to "audit" is Resolve of an identity match.
LEMMA StepEndpoint ==
  ASSUME TypeOK, Verified, [Next]_vars,
         NEW c \in Callers, pc[c] = "resolve", pc'[c] = "audit"
  PROVE  endpoint' \in seen[Home[c]]
<1> USE DEF TypeOK, procVars, scanVars
<1>1. CASE \E d \in Callers : Transport(d)
  <2>1. PICK d \in Callers : Transport(d)
    BY <1>1
  <2>2. d = c /\ Resolve(c)
    BY <2>1 DEF Transport, Connect, Resolve, Audit, Retry, Over, Goto
  <2>3. endpoint' \in outcome[c].host
    BY <2>2 DEF Resolve, Over, Goto
  <2>4. QED
    BY <2>3 DEF Verified
<1>2. CASE \E d \in Callers : Command(d) \/ Discover(d)
  BY <1>2 DEF Command, Discover, Acquire, WakeUp, LetGo, Wake, Cached, NoPinnedKey,
     ScanNeighbors, Verify, ScanSubnets, Finish, Raise, Conclude, Return, Unlock, Goto
<1>3. CASE \E p \in Processes : CooldownEnds(p) \/ Kill(p)
  BY <1>3 DEF CooldownEnds, Kill
<1>4. CASE Move \/ Edit \/ UNCHANGED vars
  BY <1>4 DEF Move, Edit, vars
<1>5. QED
  BY <1>1, <1>2, <1>3, <1>4 DEF Next

\* Discovery changes an endpoint only to a host that showed its process a
\* pinned key, by whichever of its ways it came to the result.
THEOREM OnlyVerifiedEndpoints == Spec => EndpointWasVerified
<1> DEFINE Step == \A c \in Callers :
      pc[c] = "resolve" /\ pc'[c] = "audit" => endpoint' \in seen[Home[c]]
<1>1. TypeOK /\ Verified /\ [Next]_vars => [Step]_vars
  BY StepEndpoint
<1>2. QED
  BY <1>1, InitTypeOK, StepTypeOK, InitVerified, StepVerified, PTL DEF Spec, EndpointWasVerified
-----------------------------------------------------------------------------
\* Who is between taking the lock and giving it back.
Inside(p) == {c \in Callers : Home[c] = p /\ pc[c] \in {"woken", "cooldown"} \cup Scanning}
Blocked(p) == {c \in Callers : Home[c] = p /\ pc[c] = "blocked"}
Awake(p) == {c \in Callers : Home[c] = p /\ pc[c] \in {"woken", "waited"}}

\* Until a discovery has ended in an exception: who is inside has the lock and
\* is alone, who waits finds the lock taken or a result, and who has waited finds
\* a result.
LockWorks(p) ==
  /\ Inside(p) # {} => locked[p]
  /\ \A c, d \in Inside(p) : c = d
  /\ Blocked(p) # {} => locked[p] \/ last[p] # NoResult
  /\ Awake(p) # {} => last[p] # NoResult
OneInside == \A p \in Processes : ~raised[p] => LockWorks(p)

\* Nobody is inside at first.
LEMMA InitOneInside == Init => OneInside
BY DEF Init, OneInside, LockWorks, Inside, Blocked, Awake, Scanning

\* What concludes a discovery is a result.
LEMMA VerdictIsResult == \A c : \A result \in Verdicts(c) : result # NoResult
BY DEF Verdicts, Verdict, Ambiguous, NoResult

\* A step that concerns neither a process' lock and result nor where its
\* callers are leaves its lock working.
LEMMA ElsewhereLockWorks ==
  ASSUME NEW p \in Processes, LockWorks(p),
         locked'[p] = locked[p], last'[p] = last[p],
         Inside(p)' \subseteq Inside(p), Blocked(p)' \subseteq Blocked(p),
         Awake(p)' \subseteq Awake(p)
  PROVE  LockWorks(p)'
BY DEF LockWorks

\* A caller that comes out, with a result if it gives the lock back, leaves
\* the lock working.
LEMMA ReturnLockWorks ==
  ASSUME TypeOK, NEW p \in Processes, LockWorks(p),
         NEW c \in Callers, c \in Inside(p),
         last'[p] # NoResult,
         Inside(p)' = Inside(p) \ {c}
  PROVE  LockWorks(p)'
BY DEF LockWorks

\* Every step keeps one caller inside.
LEMMA StepOneInside == TypeOK /\ OneInside /\ [Next]_vars => OneInside'
<1> SUFFICES ASSUME TypeOK, OneInside, [Next]_vars,
                    NEW p \in Processes, ~raised'[p]
             PROVE  LockWorks(p)'
  BY DEF OneInside
<1> USE DiscoveryAssumption DEF Scanning
<1>1. ASSUME NEW c \in Callers, Command(c) \/ Transport(c) PROVE LockWorks(p)'
  <2>1. UNCHANGED <<locked, last, raised>>
    BY <1>1 DEF Command, Transport, Connect, Resolve, Audit, Retry, procVars
  <2>2. \A d \in Callers : pc'[d] \notin {"cooldown", "neighbors", "subnets", "blocked", "woken", "waited"}
                           \/ pc'[d] = pc[d]
    BY <1>1 DEF Command, Transport, Connect, Resolve, Audit, Retry, Over, Goto, TypeOK
  <2>3. Inside(p)' \subseteq Inside(p) /\ Blocked(p)' \subseteq Blocked(p) /\ Awake(p)' \subseteq Awake(p)
    BY <2>2 DEF Inside, Blocked, Awake
  <2>4. QED
    BY <2>1, <2>3, ElsewhereLockWorks DEF OneInside
<1>2. ASSUME NEW c \in Callers, Discover(c) PROVE LockWorks(p)'
  <2>1. Home[c] \in Processes
    OBVIOUS
  <2>2. \A d \in Callers : d # c => pc'[d] = pc[d]
    BY <1>2 DEF Discover, Acquire, WakeUp, LetGo, Wake, Cached, NoPinnedKey, ScanNeighbors,
       Verify, ScanSubnets, Finish, Raise, Conclude, Return, Unlock, Goto, TypeOK
  <2>3. \A q \in Processes : q # Home[c] =>
          locked'[q] = locked[q] /\ last'[q] = last[q] /\ raised'[q] = raised[q]
    BY <1>2, <2>1 DEF Discover, Acquire, WakeUp, LetGo, Wake, Cached, NoPinnedKey, ScanNeighbors,
       Verify, ScanSubnets, Finish, Raise, Conclude, Return, Unlock, TypeOK, procVars
  <2>4. CASE p # Home[c]
    <3>1. Inside(p)' = Inside(p) /\ Blocked(p)' = Blocked(p) /\ Awake(p)' = Awake(p)
      BY <2>2, <2>4 DEF Inside, Blocked, Awake
    <3>2. QED
      BY <2>3, <2>4, <3>1, ElsewhereLockWorks DEF OneInside
  <2>5. CASE p = Home[c]
    <3>1. ~raised[p]
      BY <1>2, <2>5 DEF Discover, Acquire, WakeUp, LetGo, Wake, Cached, NoPinnedKey, ScanNeighbors,
         Verify, ScanSubnets, Finish, Raise, Conclude, Return, Unlock, TypeOK, procVars
    <3>2. LockWorks(p)
      BY <3>1 DEF OneInside
    <3>3. CASE Acquire(c)
      BY <2>2, <2>5, <3>2, <3>3 DEF Acquire, Goto, TypeOK, LockWorks, Inside, Blocked, Awake
    <3>4. CASE WakeUp(c) \/ LetGo(c) \/ Wake(c)
      <4>1. CASE WakeUp(c)
        BY <2>2, <2>5, <3>2, <4>1 DEF WakeUp, Goto, TypeOK, LockWorks, Inside, Blocked, Awake
      <4>2. CASE LetGo(c)
        BY <2>2, <2>5, <3>2, <4>2
           DEF LetGo, Unlock, Goto, TypeOK, LockWorks, Inside, Blocked, Awake
      <4>3. CASE Wake(c)
        BY <2>2, <2>5, <3>2, <4>3
           DEF Wake, Goto, TypeOK, procVars, LockWorks, Inside, Blocked, Awake
      <4> QED
        BY <3>4, <4>1, <4>2, <4>3
    <3>5. CASE ScanNeighbors(c) \/ Verify(c) \/ ScanSubnets(c)
      <4>1. UNCHANGED <<locked, last>>
        BY <3>5 DEF ScanNeighbors, Verify, ScanSubnets, procVars
      <4>2. c \in Inside(p) /\ pc'[c] \notin {"blocked", "woken", "waited"}
        BY <2>5, <3>5 DEF ScanNeighbors, Verify, ScanSubnets, Goto, TypeOK, Inside
      <4>3. Inside(p)' \subseteq Inside(p) /\ Blocked(p)' \subseteq Blocked(p) /\ Awake(p)' \subseteq Awake(p)
        BY <2>2, <4>2 DEF Inside, Blocked, Awake
      <4>4. QED
        BY <3>2, <4>1, <4>3, ElsewhereLockWorks
    <3>6. CASE Cached(c) \/ NoPinnedKey(c) \/ Finish(c)
      <4>1. c \in Inside(p) /\ pc'[c] \in {"resolve", "idle"}
        BY <2>5, <3>6 DEF Cached, NoPinnedKey, Finish, Conclude, Return, Unlock, Goto, TypeOK, Inside
      <4>2. Inside(p)' = Inside(p) \ {c}
        BY <2>2, <4>1 DEF Inside
      <4>3. last'[p] # NoResult
        BY <2>5, <3>6, VerdictIsResult DEF Cached, NoPinnedKey, Finish, Conclude, NoResult, TypeOK
      <4>4. QED
        BY <3>2, <4>1, <4>2, <4>3, ReturnLockWorks
    <3>7. CASE Raise(c)
      BY <2>5, <3>7 DEF Raise, TypeOK
    <3>8. QED
      BY <1>2, <3>3, <3>4, <3>5, <3>6, <3>7 DEF Discover
  <2>6. QED
    BY <2>4, <2>5
<1>3. ASSUME NEW q \in Processes, CooldownEnds(q) \/ Kill(q) PROVE LockWorks(p)'
  <2>1. CASE Kill(q) /\ q = p
    <3>1. \A d \in Callers : Home[d] = p => pc'[d] = "dead"
      BY <2>1 DEF Kill
    <3>2. Inside(p)' = {} /\ Blocked(p)' = {} /\ Awake(p)' = {}
      BY <3>1 DEF Inside, Blocked, Awake
    <3>3. QED
      BY <3>2 DEF LockWorks
  <2>2. CASE CooldownEnds(q) \/ q # p
    <3>1. locked'[p] = locked[p] /\ last'[p] = last[p] /\ raised'[p] = raised[p]
      <4>1. CASE CooldownEnds(q)
        BY <4>1 DEF CooldownEnds
      <4>2. CASE Kill(q) /\ q # p
        BY <4>2 DEF Kill, TypeOK
      <4>3. QED
        BY <1>3, <2>2, <4>1, <4>2
    <3>2. \A d \in Callers : pc'[d] = "dead" \/ pc'[d] = pc[d]
      BY <1>3 DEF CooldownEnds, Kill
    <3>3. Inside(p)' \subseteq Inside(p) /\ Blocked(p)' \subseteq Blocked(p) /\ Awake(p)' \subseteq Awake(p)
      BY <3>2 DEF Inside, Blocked, Awake
    <3>4. QED
      BY <3>1, <3>3, ElsewhereLockWorks DEF OneInside
  <2>3. QED
    BY <1>3, <2>1, <2>2
<1>4. CASE Move \/ Edit \/ UNCHANGED vars
  <2>1. UNCHANGED <<locked, last, raised, pc>>
    BY <1>4 DEF Move, Edit, vars, procVars
  <2>2. Inside(p)' = Inside(p) /\ Blocked(p)' = Blocked(p) /\ Awake(p)' = Awake(p)
    BY <2>1 DEF Inside, Blocked, Awake
  <2>3. QED
    BY <2>1, <2>2, ElsewhereLockWorks DEF OneInside
<1>5. QED
  BY <1>1, <1>2, <1>3, <1>4 DEF Next

\* The lock prevents duplicate scans, whatever the cooldown and the callers
\* that waited do, as long as no discovery of the process has raised.
THEOREM ScansAreSerial == Spec => []OneScanAtATime
<1>1. OneInside => OneScanAtATime
  BY DEF OneInside, LockWorks, Inside, OneScanAtATime
<1>2. QED
  BY <1>1, InitTypeOK, StepTypeOK, InitOneInside, StepOneInside, PTL DEF Spec
=============================================================================
