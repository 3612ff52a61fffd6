------------------------ MODULE ConsoleLogin_proofs ------------------------
(***************************************************************************)
(* The console's login for any users, browsers, limits and times.          *)
(***************************************************************************)
EXTENDS ConsoleLogin, TLAPS

Limit == MaxFailedAttempts

\* Times on record are in order, and none is later than now.
InOrder(p, now) == \A i, j \in 1 .. Len(p) : i <= j => p[i] <= p[j] /\ p[j] <= now

\* What one attempt counts at most: twice for a key that is an address and is
\* tried as a username.
AtMost(k, r) == IF k \in Users \cap Addresses THEN r + r ELSE r

\* The last r failures on record each came within the window of the one before,
\* and that run began after the window had passed: they are what is counted.
InRun(k, f, p, r) ==
  /\ r <= f.count /\ f.count <= AtMost(k, r)
  /\ r > 0 => Len(p) > 0 /\ f.last = p[Len(p)]
  /\ Len(p) < r => Len(p) = Limit + 1
  /\ \A i \in 1 .. Len(p) - 1 : i > Len(p) - r => p[i + 1] - p[i] <= FailureWindow
  /\ 0 < r /\ r < Len(p) => p[Len(p) - r + 1] - p[Len(p) - r] > FailureWindow

CountsTheRun(k, f, p, now, r) ==
  /\ InRun(k, f, p, r)
  /\ r = 0 /\ Len(p) > 0 => now - p[Len(p)] > FailureWindow

CountsItsRun(k, f, p, now) == \E r \in Nat : CountsTheRun(k, f, p, now, r)

\* A lockout begins with the last failure, once there are enough.
LocksOut(f) == f.until = IF f.count >= Limit THEN f.last + Lockout ELSE 0

\* No more than Limit of the failures on record are within a lockout's time.
Spread(p) == Len(p) > Limit => p[Len(p)] - p[1] >= Lockout

Sound(k, f, p, now) ==
  /\ f \in Failure
  /\ p \in Seq(Times) /\ Len(p) <= Limit + 1
  /\ InOrder(p, now) /\ CountsItsRun(k, f, p, now) /\ LocksOut(f) /\ Spread(p)

FailuresInv ==
  /\ \A k \in Keys : Sound(k, failed[k], past[k], clock)
  /\ DOMAIN past = Keys
  /\ checking # None => ~Limited(checking.address) /\ ~Limited(checking.user)

-----------------------------------------------------------------------------
\* What remains on record, when the clock's time is added to it.
LEMMA RememberedIs ==
  ASSUME NEW p \in Seq(Times), Len(p) <= Limit + 1, clock \in Times
  PROVE  /\ Remembered(p) \in Seq(Times)
         /\ Len(Remembered(p)) = IF Len(p) = Limit + 1 THEN Len(p) ELSE Len(p) + 1
         /\ Remembered(p)[Len(Remembered(p))] = clock
         /\ Len(p) = Limit + 1 => \A i \in 1 .. Len(p) - 1 : Remembered(p)[i] = p[i + 1]
         /\ Len(p) <= Limit => \A i \in 1 .. Len(p) : Remembered(p)[i] = p[i]
<1> DEFINE t == Append(p, clock)
<1>1. t \in Seq(Times) /\ Len(t) = Len(p) + 1 /\ t[Len(p) + 1] = clock
      /\ \A i \in 1 .. Len(p) : t[i] = p[i]
  OBVIOUS
<1>2. Limit \in Nat \ {0} /\ Len(p) \in Nat
  BY LoginAssumption DEF Limit
<1>3. CASE Len(p) = Limit + 1
  <2>1. Remembered(p) = Tail(t)
    BY <1>1, <1>2, <1>3 DEF Remembered, Limit
  <2>2. /\ Tail(t) \in Seq(Times) /\ Len(Tail(t)) = Len(p)
        /\ \A i \in 1 .. Len(p) : Tail(t)[i] = t[i + 1]
    BY <1>1, <1>2, t # <<>>
  <2> HIDE DEF t
  <2> QED
    BY <1>1, <1>2, <1>3, <2>1, <2>2
<1>4. CASE Len(p) <= Limit
  <2>1. Remembered(p) = t
    BY <1>1, <1>2, <1>4 DEF Remembered, Limit
  <2> HIDE DEF t
  <2> QED
    BY <1>1, <1>2, <1>4, <2>1
<1> QED
  BY <1>2, <1>3, <1>4

\* A run that has become longer by one begins where it did.
LEMMA ShiftedIndex ==
  ASSUME NEW m \in Nat, NEW n \in Nat, NEW c \in Nat, NEW d \in Nat, d = c + 1, c > 0, d < m
  PROVE  /\ m - d \in 1 .. m - 1 /\ (m - d) + n + 1 - m = n - c
         /\ m - d + 1 \in 1 .. m - 1 /\ (m - d + 1) + n + 1 - m = n - c + 1
OBVIOUS

\* What one attempt makes of the count of a key.
OneAttempt(k, f, g) ==
  \/ g = Recorded(f)
  \/ k \in Users \cap Addresses /\ g = Recorded(Recorded(f))

\* A failure that is recorded is the last one, and goes with those before it
\* unless they are none or too old.
LEMMA RecordedOnceOrTwice ==
  ASSUME NEW k, NEW f \in Failure, NEW g, OneAttempt(k, f, g), LocksOut(f), clock \in Times,
         NEW r \in Nat, r <= f.count, f.count <= AtMost(k, r)
  PROVE  LET s == IF r = 0 \/ clock - f.last > FailureWindow THEN 1 ELSE r + 1
         IN  g \in Failure /\ g.last = clock /\ s <= g.count /\ g.count <= AtMost(k, s) /\ LocksOut(g)
<1>1. /\ f.count \in Nat /\ f.last \in Nat /\ f.until \in Nat /\ clock \in Nat
      /\ Limit \in Nat /\ Limit > 1 /\ Lockout \in Nat /\ FailureWindow \in Nat
      /\ (f.count = 0) = (r = 0)
  BY LoginAssumption DEF Failure, Times, Limit, AtMost
<1>2. ASSUME NEW h \in Failure, LocksOut(h)
      PROVE  /\ Recorded(h) \in Failure /\ Recorded(h).last = clock /\ LocksOut(Recorded(h))
             /\ Recorded(h).count = (IF h.count = 0 \/ clock - h.last > FailureWindow
                                     THEN 1 ELSE h.count + 1)
  <2>1. h.count \in Nat /\ h.last \in Nat
    BY LoginAssumption DEF Failure, Times
  <2>2. /\ Recorded(h).last = clock
        /\ Recorded(h).count = (IF h.count = 0 \/ clock - h.last > FailureWindow
                                THEN 1 ELSE h.count + 1)
    BY <1>1, <2>1 DEF Recorded, Expired
  <2>3. Recorded(h) \in Failure
    BY <1>1, <2>1 DEF Recorded, Failure
  <2>4. LocksOut(Recorded(h))
    BY <1>1, <1>2, <2>1 DEF Recorded, Expired, LocksOut, Limit
  <2> QED
    BY <2>2, <2>3, <2>4
<1>3. CASE g = Recorded(f)
  BY <1>1, <1>2, <1>3 DEF AtMost
<1>4. CASE k \in Users \cap Addresses /\ g = Recorded(Recorded(f))
  <2>1. /\ Recorded(f) \in Failure /\ Recorded(f).last = clock /\ LocksOut(Recorded(f))
        /\ Recorded(f).count = (IF r = 0 \/ clock - f.last > FailureWindow THEN 1 ELSE f.count + 1)
    BY <1>1, <1>2
  <2>2. /\ g \in Failure /\ g.last = clock /\ LocksOut(g)
        /\ g.count = Recorded(f).count + 1
    BY <1>1, <1>2, <1>4, <2>1
  <2> QED
    BY <1>1, <1>4, <2>1, <2>2 DEF AtMost
<1> QED
  BY <1>3, <1>4 DEF OneAttempt

\* A failure that is recorded while the key is not locked out keeps the record.
LEMMA RecordedIsSound ==
  ASSUME NEW k, NEW f, NEW g, NEW p, Sound(k, f, p, clock), clock \in Times,
         ~(f.count > 0 /\ clock < f.until), OneAttempt(k, f, g)
  PROVE  Sound(k, g, Remembered(p), clock)
<1> DEFINE q == Remembered(p)
           n == Len(p)
           m == Len(q)
<1>1. /\ f \in Failure
      /\ f.count \in Nat /\ f.last \in Nat /\ f.until \in Nat /\ clock \in Nat
      /\ p \in Seq(Times) /\ n \in Nat /\ n <= Limit + 1
      /\ \A i \in 1 .. n : p[i] \in Nat
      /\ Limit \in Nat \ {0} /\ Lockout \in Nat /\ FailureWindow \in Nat
      /\ Lockout <= FailureWindow
  BY LoginAssumption DEF Sound, Failure, Times, Limit
<1>2. /\ q \in Seq(Times)
      /\ m = IF n = Limit + 1 THEN n ELSE n + 1
      /\ q[m] = clock
      /\ n = Limit + 1 => \A i \in 1 .. n - 1 : q[i] = p[i + 1]
      /\ n <= Limit => \A i \in 1 .. n : q[i] = p[i]
  BY <1>1, RememberedIs
<1>4. InOrder(p, clock) /\ CountsItsRun(k, f, p, clock) /\ LocksOut(f) /\ Spread(p)
  BY DEF Sound
<1>r. PICK r \in Nat : CountsTheRun(k, f, p, clock, r)
  BY <1>4 DEF CountsItsRun
<1> DEFINE s == IF r = 0 \/ clock - f.last > FailureWindow THEN 1 ELSE r + 1
<1>3. g \in Failure /\ g.last = clock /\ s <= g.count /\ g.count <= AtMost(k, s) /\ LocksOut(g)
  BY <1>1, <1>4, <1>r, RecordedOnceOrTwice DEF CountsTheRun, InRun
<1>b. \A i, j \in 1 .. n : i <= j => p[i] <= p[j] /\ p[j] <= clock
  BY <1>4 DEF InOrder
<1>c. /\ r <= f.count /\ f.count <= r + r
      /\ r > 0 => n > 0 /\ f.last = p[n]
      /\ n < r => n = Limit + 1
      /\ \A i \in 1 .. n - 1 : i > n - r => p[i + 1] - p[i] <= FailureWindow
      /\ 0 < r /\ r < n => p[n - r + 1] - p[n - r] > FailureWindow
      /\ r = 0 /\ n > 0 => clock - p[n] > FailureWindow
  BY <1>r, <1>1 DEF CountsTheRun, InRun, AtMost
<1>d. f.count >= Limit => f.until = f.last + Lockout
  BY <1>4 DEF LocksOut
<1>s. s \in Nat /\ s > 0 /\ s = (IF r = 0 \/ clock - f.last > FailureWindow THEN 1 ELSE r + 1)
  OBVIOUS
<1> HIDE DEF s, q, n, m
<1>e. m \in Nat /\ m \in 1 .. Limit + 1 /\ (m = n \/ m = n + 1) /\ (m = n => n = Limit + 1)
  BY <1>1, <1>2
<1>5. \A i \in 1 .. m - 1 : i + n + 1 - m \in 1 .. n /\ q[i] = p[i + n + 1 - m] /\ q[i] \in Nat
  <2>1. CASE n = Limit + 1
    BY <1>1, <1>2, <2>1
  <2>2. CASE n <= Limit
    BY <1>1, <1>2, <2>2
  <2> QED
    BY <1>1, <2>1, <2>2
<1>6. n > 0 => m > 1 /\ q[m - 1] = p[n]
  BY <1>1, <1>e, <1>5
<1>7. InOrder(q, clock)
  <2> SUFFICES ASSUME NEW i \in 1 .. m, NEW j \in 1 .. m, i <= j
               PROVE  q[i] <= q[j] /\ q[j] <= clock
    BY DEF InOrder, m
  <2>1. CASE j = m
    <3>1. CASE i = m
      BY <1>1, <1>2, <2>1, <3>1
    <3>2. CASE i < m
      <4>1. q[i] = p[i + n + 1 - m] /\ i + n + 1 - m \in 1 .. n
        BY <1>e, <1>5, <3>2
      <4> QED
        BY <1>1, <1>2, <1>b, <2>1, <4>1
    <3> QED
      BY <1>e, <3>1, <3>2
  <2>2. CASE j < m
    <3>1. /\ q[i] = p[i + n + 1 - m] /\ i + n + 1 - m \in 1 .. n
          /\ q[j] = p[j + n + 1 - m] /\ j + n + 1 - m \in 1 .. n
      BY <1>e, <1>5, <2>2
    <3>2. i + n + 1 - m <= j + n + 1 - m
      BY <1>1, <1>e
    <3> QED
      BY <1>b, <3>1, <3>2
  <2> QED
    BY <1>e, <2>1, <2>2
<1>8. CountsTheRun(k, g, q, clock, s)
  <2>1. s \in Nat /\ s > 0 /\ m > 0
    BY <1>s, <1>e
  <2>2. m < s => m = Limit + 1
    BY <1>1, <1>s, <1>c, <1>e
  <2>3. ASSUME NEW i \in 1 .. m - 1, i > m - s
        PROVE  q[i + 1] - q[i] <= FailureWindow
    <3>1. CASE i = m - 1
      <4>1. s > 1 /\ r > 0 /\ clock - f.last <= FailureWindow
        BY <1>1, <1>s, <1>e, <2>3, <3>1
      <4> QED
        BY <1>1, <1>2, <1>6, <1>c, <1>e, <3>1, <4>1
    <3>2. CASE i < m - 1
      <4>1. s = r + 1
        BY <1>1, <1>s, <1>e, <2>3, <3>2
      <4> DEFINE h == i + n + 1 - m
      <4>2. h \in 1 .. n - 1 /\ h > n - r
        BY <1>1, <1>e, <2>3, <3>2, <4>1
      <4>3. q[i] = p[h] /\ q[i + 1] = p[h + 1]
        <5>1. (i + 1) + n + 1 - m = h + 1 /\ i + 1 \in 1 .. m - 1
          BY <1>1, <1>e, <3>2
        <5> QED
          BY <1>5, <5>1
      <4> HIDE DEF h
      <4> QED
        BY <1>c, <4>2, <4>3
    <3> QED
      BY <1>e, <3>1, <3>2
  <2>4. ASSUME s < m
        PROVE  q[m - s + 1] - q[m - s] > FailureWindow
    <3>1. CASE s = 1
      <4>1. r = 0 \/ clock - f.last > FailureWindow
        BY <1>1, <1>s, <3>1
      <4>2. n > 0
        BY <1>1, <1>e, <2>4, <3>1
      <4>3. clock - p[n] > FailureWindow
        BY <1>1, <1>c, <4>1, <4>2
      <4>4. m - s + 1 = m /\ m - s = m - 1
        BY <1>e, <3>1
      <4> QED
        BY <1>2, <1>6, <4>2, <4>3, <4>4
    <3>2. CASE s # 1
      <4>1. s = r + 1 /\ r > 0 /\ r < n
        BY <1>1, <1>s, <1>e, <2>4, <3>2
      <4>0. r \in Nat /\ n \in Nat /\ m \in Nat
        BY <1>1, <1>e
      <4>2. p[n - r + 1] - p[n - r] > FailureWindow
        BY <1>c, <4>1
      <4>3. q[m - s] = p[n - r]
        <5>1. m - s \in 1 .. m - 1 /\ (m - s) + n + 1 - m = n - r
          BY ShiftedIndex, <2>1, <2>4, <4>0, <4>1
        <5> QED
          BY <1>5, <5>1
      <4>4. q[m - s + 1] = p[n - r + 1]
        <5>1. m - s + 1 \in 1 .. m - 1 /\ (m - s + 1) + n + 1 - m = n - r + 1
          BY ShiftedIndex, <2>1, <2>4, <4>0, <4>1
        <5> QED
          BY <1>5, <5>1
      <4> QED
        BY <4>2, <4>3, <4>4
    <3> QED
      BY <3>1, <3>2
  <2> QED
    BY <1>2, <1>3, <2>1, <2>2, <2>3, <2>4 DEF CountsTheRun, InRun, m
<1>9. Spread(q)
  <2> SUFFICES ASSUME m > Limit PROVE clock - q[1] >= Lockout
    BY <1>2 DEF Spread, m
  <2>0. m = Limit + 1 /\ n >= Limit /\ n > 0
    BY <1>1, <1>e
  <2> DEFINE h == n + 1 - Limit
  <2>1. h \in 1 .. n /\ q[1] = p[h]
    <3>1. 1 \in 1 .. m - 1 /\ 1 + n + 1 - m = h
      BY <1>1, <2>0
    <3> QED
      BY <1>1, <1>5, <2>0, <3>1
  <2>2. CASE f.count >= Limit
    <3>1. clock >= p[n] + Lockout
      BY <1>1, <1>c, <1>d, <2>2
    <3>2. p[h] <= p[n] /\ p[h] \in Nat /\ p[n] \in Nat
      BY <1>1, <1>b, <2>1
    <3> QED
      BY <1>1, <2>1, <3>1, <3>2
  <2>3. CASE r = 0
    <3>1. clock - p[n] > FailureWindow
      BY <1>c, <2>0, <2>3
    <3>2. p[h] <= p[n] /\ p[h] \in Nat /\ p[n] \in Nat
      BY <1>1, <1>b, <2>1
    <3> QED
      BY <1>1, <2>1, <3>1, <3>2
  <2>4. CASE 0 < r /\ r < Limit
    <3> DEFINE l == n - r
    <3>1. l \in 1 .. n /\ l + 1 \in 1 .. n /\ h <= l
      BY <1>1, <2>0, <2>4
    <3>2. p[l + 1] - p[l] > FailureWindow
      BY <1>1, <1>c, <2>0, <2>4
    <3> HIDE DEF h, l
    <3>3. p[h] <= p[l] /\ p[l + 1] <= clock
      BY <1>b, <2>1, <3>1
    <3>4. p[h] \in Nat /\ p[l] \in Nat /\ p[l + 1] \in Nat
      BY <1>1, <2>1, <3>1
    <3> QED
      BY <1>1, <2>1, <3>2, <3>3, <3>4
  <2> QED
    BY <1>1, <1>c, <2>2, <2>3, <2>4
<1>10. CountsItsRun(k, g, q, clock)
  BY <1>8, <1>s DEF CountsItsRun
<1> QED
  BY <1>1, <1>2, <1>3, <1>7, <1>9, <1>10, <1>e DEF Sound, q, m

\* Nothing on record and nothing counted.
LEMMA NothingIsSound ==
  ASSUME NEW k, NEW now \in Times PROVE Sound(k, NoFailure, <<>>, now)
<1>1. CountsTheRun(k, NoFailure, <<>>, now, 0)
  BY DEF CountsTheRun, InRun, NoFailure, AtMost
<1> QED
  BY <1>1, LoginAssumption
     DEF Sound, NoFailure, Failure, Times, InOrder, CountsItsRun, LocksOut, Spread, Limit

\* Time passes.
LEMMA SoundLater ==
  ASSUME NEW k, NEW f, NEW p, NEW now \in Times, Sound(k, f, p, now)
  PROVE  Sound(k, f, p, now + 1)
<1>1. \A i \in 1 .. Len(p) : p[i] \in Nat
  <2>1. p \in Seq(Times)
    BY DEF Sound
  <2>2. \A i \in 1 .. Len(p) : p[i] \in Times
    BY <2>1
  <2> QED
    BY <2>2, LoginAssumption DEF Times
<1>2. InOrder(p, now + 1)
  BY <1>1 DEF Sound, InOrder, Times
<1>3. CountsItsRun(k, f, p, now + 1)
  <2>1. PICK r \in Nat : CountsTheRun(k, f, p, now, r)
    BY DEF Sound, CountsItsRun
  <2>2. CountsTheRun(k, f, p, now + 1, r)
    <3>1. Len(p) \in Nat /\ now \in Nat /\ FailureWindow \in Nat
      BY LoginAssumption DEF Sound, Times
    <3>2. r = 0 /\ Len(p) > 0 => now + 1 - p[Len(p)] > FailureWindow
      BY <1>1, <2>1, <3>1 DEF CountsTheRun
    <3> QED
      BY <1>1, <2>1, <3>1, <3>2 DEF CountsTheRun
  <2> QED
    BY <2>2 DEF CountsItsRun
<1> QED
  BY <1>2, <1>3 DEF Sound

\* A look at the count forgets it when its window is over.
LEMMA LookedIsSound ==
  ASSUME NEW k \in Keys, Sound(k, failed[k], past[k], clock), clock \in Times
  PROVE  Sound(k, Looked(k), past[k], clock)
<1>1. CASE Looked(k) = failed[k]
  BY <1>1
<1>2. CASE Looked(k) # failed[k]
  <2>1. Looked(k) = NoFailure /\ failed[k].count > 0 /\ clock - failed[k].last > FailureWindow
    BY <1>2 DEF Looked, Expired
  <2>2. CountsItsRun(k, NoFailure, past[k], clock)
    <3>1. PICK r \in Nat : CountsTheRun(k, failed[k], past[k], clock, r)
      BY DEF Sound, CountsItsRun
    <3>2. r > 0
      <4>1. failed[k].count \in Nat
        BY DEF Sound, Failure
      <4>2. failed[k].count <= AtMost(k, r)
        BY <3>1 DEF CountsTheRun, InRun
      <4> QED
        BY <2>1, <4>1, <4>2 DEF AtMost
    <3>3. Len(past[k]) > 0 /\ clock - past[k][Len(past[k])] > FailureWindow
      BY <2>1, <3>1, <3>2 DEF CountsTheRun, InRun
    <3>4. Len(past[k]) \in Nat
      BY DEF Sound
    <3>5. CountsTheRun(k, NoFailure, past[k], clock, 0)
      BY <3>3, <3>4 DEF CountsTheRun, InRun, NoFailure, AtMost
    <3> QED
      BY <3>5 DEF CountsItsRun
  <2>3. NoFailure \in Failure /\ LocksOut(NoFailure)
    BY LoginAssumption DEF NoFailure, Failure, Times, LocksOut, Limit
  <2> QED
    BY <2>1, <2>2, <2>3 DEF Sound
<1> QED
  BY <1>1, <1>2

-----------------------------------------------------------------------------
\* A failed attempt counts for its address and for its username.
LEMMA FailsAreRecorded ==
  ASSUME TypeOK, LoginFails
  PROVE  /\ \A k \in {checking.address, checking.user} : OneAttempt(k, failed[k], failed'[k])
         /\ \A k \in Keys \ {checking.address, checking.user} : failed'[k] = failed[k]
         /\ failed' \in [Keys -> {failed'[k] : k \in Keys}]
<1>1. checking.address \in Addresses /\ checking.user \in Users /\ failed \in [Keys -> Failure]
  BY DEF TypeOK, LoginFails
<1>2. failed' = [[failed EXCEPT ![checking.address] = Recorded(@)]
                        EXCEPT ![checking.user] = Recorded(@)]
  BY DEF LoginFails
<1>3. CASE checking.address = checking.user
  <2>1. failed'[checking.user] = Recorded(Recorded(failed[checking.user]))
    BY <1>1, <1>2, <1>3 DEF Keys
  <2> QED
    BY <1>1, <1>2, <1>3, <2>1 DEF OneAttempt, Keys
<1>4. CASE checking.address # checking.user
  BY <1>1, <1>2, <1>4 DEF OneAttempt, Keys
<1> QED
  BY <1>3, <1>4

LEMMA InitFailures == Init => FailuresInv
BY NothingIsSound, LoginAssumption DEF Init, FailuresInv, Times

LEMMA NextFailures == TypeOK /\ FailuresInv /\ [Next]_vars => FailuresInv'
<1> SUFFICES ASSUME TypeOK, FailuresInv, [Next]_vars PROVE FailuresInv'
  OBVIOUS
<1> USE DEF FailuresInv
<1>0. clock \in Times /\ DOMAIN past = Keys
  BY DEF TypeOK
<1>1. ASSUME UNCHANGED <<clock, failed, past, checking>> PROVE FailuresInv'
  BY <1>1 DEF Limited
<1>2. CASE Tick
  <2>1. clock' = clock + 1 /\ UNCHANGED <<failed, past, checking>>
    BY <1>2 DEF Tick, authVars
  <2>2. \A k \in Keys : Sound(k, failed'[k], past'[k], clock')
    BY <1>0, <2>1, SoundLater
  <2>3. \A k \in Keys : ~Limited(k) => ~Limited(k)'
    BY <1>0, <2>1 DEF Limited, Sound, Failure, Times
  <2>4. checking # None => checking.address \in Keys /\ checking.user \in Keys
    BY DEF TypeOK, Keys
  <2> QED
    BY <2>1, <2>2, <2>3, <2>4
<1>3. ASSUME NEW a \in Addresses, NEW u \in Users, TryLogin(a, u) PROVE FailuresInv'
  <2>1. UNCHANGED <<past, clock>> /\ a \in Keys /\ u \in Keys
    BY <1>3 DEF TryLogin, Keys
  <2>2. \A k \in Keys : failed'[k] \in {Looked(k), failed[k]}
    BY <1>3 DEF TryLogin
  <2>3. \A k \in Keys : Sound(k, failed'[k], past'[k], clock')
    BY <1>0, <2>1, <2>2, LookedIsSound
  <2>4. \A k \in Keys : ~Limited(k) => ~Limited(k)'
    BY <2>1, <2>2 DEF Limited, Looked, NoFailure
  <2>5. checking' # None => checking' = [address |-> a, user |-> u] /\ ~Limited(a) /\ ~Limited(u)
    BY <1>3 DEF TryLogin
  <2> QED
    BY <1>0, <2>1, <2>3, <2>4, <2>5
<1>4. CASE LoginFails
  <2>1. UNCHANGED clock /\ checking' = None /\ DOMAIN past' = Keys
    BY <1>4 DEF LoginFails
  <2>2. ASSUME NEW k \in Keys PROVE Sound(k, failed'[k], past'[k], clock')
    <3>1. CASE k \in {checking.address, checking.user}
      <4>1. ~(failed[k].count > 0 /\ clock < failed[k].until)
        BY <1>4, <3>1 DEF LoginFails, Limited
      <4>2. OneAttempt(k, failed[k], failed'[k]) /\ past'[k] = Remembered(past[k])
        BY <1>4, <3>1, FailsAreRecorded DEF LoginFails
      <4> QED
        BY <1>0, <2>1, <4>1, <4>2, RecordedIsSound
    <3>2. CASE k \notin {checking.address, checking.user}
      BY <1>4, <2>1, <3>2, FailsAreRecorded DEF LoginFails
    <3> QED
      BY <3>1, <3>2
  <2> QED
    BY <2>1, <2>2
<1>5. CASE LoginSucceeds
  <2>1. UNCHANGED clock /\ checking' = None /\ DOMAIN past' = Keys
    BY <1>5 DEF LoginSucceeds
  <2>2. \A k \in Keys : \/ failed'[k] = NoFailure /\ past'[k] = <<>>
                        \/ failed'[k] = failed[k] /\ past'[k] = past[k]
    BY <1>5 DEF LoginSucceeds
  <2> QED
    BY <1>0, <2>1, <2>2, NothingIsSound
<1>6. CASE Kill
  BY <1>0, <1>6, NothingIsSound DEF Kill
<1>7. CASE UNCHANGED vars
  BY <1>1, <1>7 DEF vars, authVars
<1>8. CASE Start \/ StoreKey
  BY <1>1, <1>8 DEF Start, StoreKey, authVars
<1>9. ASSUME NEW r \in sent, Refuse(r) \/ Redirect(r) \/ Serve(r) \/ Logout(r) PROVE FailuresInv'
  BY <1>1, <1>9 DEF Refuse, Redirect, Serve, Logout, authVars
<1>10. ASSUME NEW a \in Addresses, NEW kind \in {"page", "change", "logout"}, Send(a, kind)
       PROVE  FailuresInv'
  BY <1>1, <1>10 DEF Send, authVars
<1> QED
  BY <1>2, <1>3, <1>4, <1>5, <1>6, <1>7, <1>8, <1>9, <1>10 DEF Next

-----------------------------------------------------------------------------
\* Whom a cookie is of, when it was served last, and whose signature it has.
Genuine(c) ==
  c # None =>
    /\ c.login \in 1 .. MaxLogins /\ c.token = c.login
    /\ c.last <= active[c.login]
    /\ c.key # 0 /\ (c.key = file \/ c.key \in unstored)

SessionInv ==
  /\ \A a \in Addresses : Genuine(jar[a]) /\ page[a].token = page[a].login
  /\ \A r \in sent : Genuine(r.cookie) /\ r.page.token = r.page.login
  /\ active \in [1 .. MaxLogins -> Times]
  /\ \A l \in 1 .. MaxLogins : active[l] <= clock
  /\ checking # None => logins < MaxLogins
  /\ server = "generated" => file = 0 /\ key # 0
  /\ server = "up" => key # 0 /\ (key = file \/ (file = 0 /\ key \in unstored))

LEMMA InitSessions == Init => TypeOK /\ SessionInv /\ ChangesServedToTheirLogin
BY LoginAssumption
   DEF Init, TypeOK, SessionInv, ChangesServedToTheirLogin, Genuine, NoFailure, Failure, NoPage,
       NoChange, Page, Tokens, Times, StartKeys

\* Every step leaves the types as they are.
LEMMA NextTypeOK == TypeOK /\ SessionInv /\ [Next]_vars => TypeOK'
<1> SUFFICES ASSUME TypeOK, SessionInv, [Next]_vars PROVE TypeOK'
  OBVIOUS
<1>0. 0 \in Times /\ 0 \in StartKeys /\ clock \in Times /\ clock \in Nat
      /\ (kills < MaxKills => kills + 1 \in 0 .. MaxKills) /\ kills + 1 \in StartKeys /\ kills + 1 # 0
  BY LoginAssumption DEF TypeOK, Times, StartKeys
<1> USE DEF TypeOK
<1>1. CASE UNCHANGED vars
  BY <1>1 DEF vars, authVars, keyVars, webVars
<1>2. CASE Tick
  BY <1>2, LoginAssumption DEF Tick, authVars, keyVars, webVars, Times
<1>3. ASSUME NEW a \in Addresses, NEW u \in Users, TryLogin(a, u) PROVE TypeOK'
  <2>1. \A k \in Keys : Looked(k) \in Failure
    BY <1>0 DEF Looked, NoFailure, Failure
  <2>2. failed' \in [Keys -> Failure]
    BY <1>3, <2>1 DEF TryLogin
  <2> QED
    BY <1>3, <2>2 DEF TryLogin, keyVars, webVars, Ready
<1>4. CASE LoginFails
  <2>1. \A f \in Failure : Recorded(f) \in Failure
    BY <1>0, LoginAssumption DEF Recorded, Failure
  <2>2. failed' \in [Keys -> Failure]
    <3>1. \A k \in {checking.address, checking.user} : failed'[k] \in Failure
      <4> SUFFICES ASSUME NEW k \in {checking.address, checking.user} PROVE failed'[k] \in Failure
        OBVIOUS
      <4>1. k \in Keys /\ failed[k] \in Failure
        BY <1>4 DEF LoginFails, Keys
      <4> QED
        BY <1>4, <2>1, <4>1, FailsAreRecorded DEF OneAttempt
    <3> QED
      BY <1>4, <3>1, FailsAreRecorded
  <2> QED
    BY <1>4, <2>2 DEF LoginFails, keyVars, webVars
<1>5. CASE LoginSucceeds
  <2>1. NoFailure \in Failure
    BY <1>0 DEF NoFailure, Failure
  <2>2. failed' \in [Keys -> Failure]
    BY <1>5, <2>1 DEF LoginSucceeds
  <2>3. logins + 1 \in Tokens
    BY <1>5, LoginAssumption DEF LoginSucceeds, SessionInv, Tokens
  <2>4. jar' \in [Addresses -> Cookie \cup {None}]
    BY <1>0, <1>5, <2>3 DEF LoginSucceeds, Cookie, FreshToken
  <2> QED
    BY <1>5, <2>2, <2>3, <2>4 DEF LoginSucceeds, keyVars
<1>6. ASSUME NEW a \in Addresses, NEW kind \in {"page", "change", "logout"}, Send(a, kind)
      PROVE  TypeOK'
  <2>1. [from |-> a, kind |-> kind, cookie |-> jar[a], page |-> page[a]] \in Sent
    BY DEF Sent
  <2> QED
    BY <1>6, <2>1 DEF Send, authVars, keyVars
<1>7. ASSUME NEW r \in sent, Refuse(r) \/ Redirect(r) \/ Logout(r) PROVE TypeOK'
  <2>1. r.from \in Addresses
    BY DEF Sent
  <2> QED
    BY <1>7, <2>1 DEF Refuse, Redirect, Logout, authVars, keyVars
<1>8. ASSUME NEW r \in sent, Serve(r) PROVE TypeOK'
  <2>1. r.from \in Addresses /\ r.cookie \in Cookie
    BY <1>8 DEF Sent, Serve, Alive, Session
  <2>2. [r.cookie EXCEPT !.last = clock] \in Cookie
    BY <1>0, <2>1 DEF Cookie
  <2>3. [token |-> r.cookie.token, login |-> r.cookie.login] \in Page
    BY <2>1 DEF Cookie, Page
  <2> QED
    BY <1>8, <2>1, <2>2, <2>3 DEF Serve, authVars, keyVars
<1>9. CASE Start
  BY <1>0, <1>9 DEF Start, StoredKey, authVars, webVars
<1>10. CASE StoreKey
  BY <1>10 DEF StoreKey, authVars, webVars, SessionInv
<1>11. CASE Kill
  BY <1>0, <1>11 DEF Kill, NoFailure, Failure
<1> QED
  BY <1>1, <1>2, <1>3, <1>4, <1>5, <1>6, <1>7, <1>8, <1>9, <1>10, <1>11 DEF Next

\* A cookie stays genuine while services go on and the key's file is kept.
LEMMA GenuineStays ==
  ASSUME TypeOK, TypeOK', SessionInv, NEW c, Genuine(c),
         active' \in [1 .. MaxLogins -> Times],
         \A l \in 1 .. MaxLogins : active'[l] \in {active[l], clock},
         file' = file \/ file = 0, unstored \subseteq unstored',
         c # None => c.last \in Times
  PROVE  Genuine(c)'
<1>1. ASSUME NEW l \in 1 .. MaxLogins
      PROVE  active[l] <= active'[l]
  <2>1. active[l] \in Nat /\ active[l] <= clock /\ clock \in Nat
    BY LoginAssumption DEF SessionInv, Times, TypeOK
  <2>2. active'[l] = active[l] \/ active'[l] = clock
    OBVIOUS
  <2> QED
    BY <2>1, <2>2
<1> QED
  BY <1>1, LoginAssumption DEF Genuine, Times, SessionInv

LEMMA NextSessions ==
  TypeOK /\ TypeOK' /\ SessionInv /\ ChangesServedToTheirLogin /\ [Next]_vars
    => SessionInv' /\ ChangesServedToTheirLogin'
<1> SUFFICES ASSUME TypeOK, TypeOK', SessionInv, ChangesServedToTheirLogin, [Next]_vars
             PROVE  SessionInv' /\ ChangesServedToTheirLogin'
  OBVIOUS
<1>0. /\ \A a \in Addresses : jar[a] # None => jar[a].last \in Times
      /\ \A r \in sent : r.cookie # None => r.cookie.last \in Times
  BY DEF TypeOK, Cookie, Sent
<1>1. CASE UNCHANGED vars
  BY <1>1 DEF vars, authVars, keyVars, webVars, SessionInv, ChangesServedToTheirLogin, Genuine
<1>2. CASE Tick
  <2>1. \A l \in 1 .. MaxLogins : active'[l] <= clock'
    BY <1>2, LoginAssumption DEF Tick, webVars, SessionInv, TypeOK, Times
  <2> QED
    BY <1>2, <2>1 DEF Tick, authVars, keyVars, webVars, SessionInv, ChangesServedToTheirLogin, Genuine
<1>3. ASSUME NEW a \in Addresses, NEW u \in Users, TryLogin(a, u)
      PROVE  SessionInv' /\ ChangesServedToTheirLogin'
  BY <1>3 DEF TryLogin, keyVars, webVars, SessionInv, ChangesServedToTheirLogin, Genuine, Ready
<1>4. CASE LoginFails
  BY <1>4 DEF LoginFails, keyVars, webVars, SessionInv, ChangesServedToTheirLogin, Genuine
<1>5. CASE LoginSucceeds
  <2>1. /\ server = "up" /\ checking.address \in Addresses /\ logins + 1 \in 1 .. MaxLogins
        /\ UNCHANGED <<clock, keyVars, page, sent, served>>
        /\ checking' = None /\ active' = [active EXCEPT ![logins + 1] = clock]
    BY <1>5, LoginAssumption DEF LoginSucceeds, SessionInv, TypeOK, Tokens
  <2>2. /\ active' \in [1 .. MaxLogins -> Times]
        /\ \A l \in 1 .. MaxLogins : active'[l] \in {active[l], clock} /\ active'[l] <= clock
    BY <2>1, LoginAssumption DEF SessionInv, TypeOK, Times
  <2>3. \A r \in sent : Genuine(r.cookie)'
    BY <1>0, <2>1, <2>2, GenuineStays DEF SessionInv, keyVars
  <2>4. \A b \in Addresses : Genuine(jar[b])'
    <3> SUFFICES ASSUME NEW b \in Addresses PROVE Genuine(jar[b])'
      OBVIOUS
    <3>1. CASE b # checking.address
      <4>1. jar'[b] = jar[b]
        BY <1>5, <3>1 DEF LoginSucceeds, TypeOK
      <4>2. Genuine(jar[b]) /\ (jar[b] # None => jar[b].last \in Times)
        BY <1>0 DEF SessionInv, TypeOK, Cookie
      <4>3. file' = file /\ unstored' = unstored
        BY <2>1 DEF keyVars
      <4>4. \A x : Genuine(x) /\ (x # None => x.last \in Times) => Genuine(x)'
        BY <1>0, <2>2, <4>3, GenuineStays
      <4> QED
        BY <4>1, <4>2, <4>4 DEF Genuine
    <3>2. CASE b = checking.address
      <4>1. jar'[b] = [login |-> logins + 1, token |-> logins + 1, last |-> clock, key |-> key]
        BY <1>5, <3>2 DEF LoginSucceeds, FreshToken, TypeOK
      <4>2. active'[logins + 1] = clock /\ clock <= clock
        BY <2>1, LoginAssumption DEF SessionInv, TypeOK, Times
      <4>3. key # 0 /\ (key = file \/ key \in unstored)
        BY <2>1 DEF SessionInv
      <4> QED
        BY <2>1, <4>1, <4>2, <4>3 DEF Genuine, keyVars
    <3> QED
      BY <3>1, <3>2
  <2> QED
    BY <2>1, <2>2, <2>3, <2>4 DEF SessionInv, ChangesServedToTheirLogin, keyVars
<1>6. ASSUME NEW a \in Addresses, NEW kind \in {"page", "change", "logout"}, Send(a, kind)
      PROVE  SessionInv' /\ ChangesServedToTheirLogin'
  BY <1>6 DEF Send, authVars, keyVars, SessionInv, ChangesServedToTheirLogin, Genuine
<1>7. ASSUME NEW r \in sent, Refuse(r) \/ Redirect(r) \/ Logout(r)
      PROVE  SessionInv' /\ ChangesServedToTheirLogin'
  <2>1. \A a \in Addresses : jar'[a] \in {jar[a], None}
    BY <1>7 DEF Refuse, Redirect, Logout, TypeOK
  <2>2. sent' \subseteq sent /\ UNCHANGED <<clock, authVars, keyVars, page, logins, active, served>>
    BY <1>7 DEF Refuse, Redirect, Logout
  <2> QED
    BY <2>1, <2>2 DEF authVars, keyVars, SessionInv, ChangesServedToTheirLogin, Genuine
<1>8. ASSUME NEW r \in sent, Serve(r) PROVE SessionInv' /\ ChangesServedToTheirLogin'
  <2> DEFINE c == r.cookie
  <2>1. /\ Genuine(c) /\ c # None /\ c \in Cookie /\ r.from \in Addresses
        /\ c.login \in 1 .. MaxLogins /\ r.page.token = r.page.login
    BY <1>8 DEF Serve, Alive, Session, SessionInv, Genuine, TypeOK, Sent
  <2>2. /\ clock - c.last <= Timeout
        /\ r.kind # "page" => r.page.token = c.token
    BY <1>8, <2>1, LoginAssumption DEF Serve, Alive, Idle, Session, Forged, Token, TypeOK, Cookie, Times
  <2>3. /\ active' = [active EXCEPT ![c.login] = clock]
        /\ jar' = [jar EXCEPT ![r.from] = [c EXCEPT !.last = clock]]
        /\ sent' \subseteq sent /\ UNCHANGED <<clock, authVars, keyVars, logins>>
    BY <1>8 DEF Serve
  <2>4. /\ active' \in [1 .. MaxLogins -> Times]
        /\ \A l \in 1 .. MaxLogins : active'[l] \in {active[l], clock} /\ active'[l] <= clock
    BY <2>1, <2>3, LoginAssumption DEF SessionInv, TypeOK, Times
  <2>5. \A q \in sent : Genuine(q.cookie)'
    BY <1>0, <2>3, <2>4, GenuineStays DEF SessionInv, keyVars
  <2>6. \A b \in Addresses : Genuine(jar[b])'
    <3> SUFFICES ASSUME NEW b \in Addresses PROVE Genuine(jar[b])'
      OBVIOUS
    <3>1. CASE b # r.from
      <4>1. jar'[b] = jar[b]
        BY <2>3, <3>1 DEF TypeOK
      <4>2. Genuine(jar[b]) /\ (jar[b] # None => jar[b].last \in Times)
        BY <1>0 DEF SessionInv, TypeOK, Cookie
      <4>3. file' = file /\ unstored' = unstored
        BY <2>3 DEF keyVars
      <4>4. \A x : Genuine(x) /\ (x # None => x.last \in Times) => Genuine(x)'
        BY <1>0, <2>4, <4>3, GenuineStays
      <4> QED
        BY <4>1, <4>2, <4>4 DEF Genuine
    <3>2. CASE b = r.from
      <4> DEFINE d == jar'[b]
      <4>1. d = [c EXCEPT !.last = clock]
        BY <2>3, <3>2 DEF TypeOK
      <4>2. d.login = c.login /\ d.token = c.token /\ d.key = c.key /\ d.last = clock
        BY <2>1, <4>1 DEF Cookie
      <4>3. active'[c.login] = clock /\ clock <= clock
        BY <2>1, <2>3, LoginAssumption DEF SessionInv, TypeOK, Times
      <4> HIDE DEF d
      <4> QED
        BY <2>1, <2>3, <4>2, <4>3 DEF Genuine, keyVars, d
    <3> QED
      BY <3>1, <3>2
  <2>7. \A b \in Addresses : page'[b].token = page'[b].login
    BY <1>8, <2>1 DEF Serve, SessionInv, Genuine, TypeOK
  <2>8. ChangesServedToTheirLogin'
    <3>1. CASE r.kind = "page"
      BY <1>8, <3>1 DEF Serve, ChangesServedToTheirLogin
    <3>2. CASE r.kind # "page"
      <4>1. served' = [shown |-> r.page.login, login |-> c.login, idle |-> clock - active[c.login]]
        BY <1>8, <3>2 DEF Serve
      <4>2. r.page.login = c.login
        BY <2>1, <2>2, <3>2 DEF Genuine
      <4>3. clock - active[c.login] <= Timeout
        BY <2>1, <2>2, LoginAssumption DEF Genuine, SessionInv, TypeOK, Cookie, Times
      <4> QED
        BY <4>1, <4>2, <4>3 DEF ChangesServedToTheirLogin
    <3> QED
      BY <3>1, <3>2
  <2> QED
    BY <2>3, <2>4, <2>5, <2>6, <2>7, <2>8 DEF SessionInv, authVars, keyVars
<1>9. CASE Start
  <2>1. kills + 1 # 0
    BY LoginAssumption DEF TypeOK
  <2> QED
    BY <1>9, <2>1
       DEF Start, StoredKey, authVars, webVars, SessionInv, ChangesServedToTheirLogin, Genuine
<1>10. CASE StoreKey
  BY <1>10 DEF StoreKey, authVars, webVars, SessionInv, ChangesServedToTheirLogin, Genuine
<1>11. CASE Kill
  BY <1>11 DEF Kill, SessionInv, ChangesServedToTheirLogin, Genuine
<1> QED
  BY <1>1, <1>2, <1>3, <1>4, <1>5, <1>6, <1>7, <1>8, <1>9, <1>10, <1>11 DEF Next

-----------------------------------------------------------------------------
LEMMA ConsoleInvariant ==
  Spec => [](TypeOK /\ SessionInv /\ ChangesServedToTheirLogin /\ FailuresInv)
BY InitSessions, InitFailures, NextTypeOK, NextSessions, NextFailures, PTL DEF Spec

\* Type correctness of the console's login, for any limits and times.
THEOREM ConsoleTypeCorrect == Spec => []TypeOK
BY ConsoleInvariant, PTL

\* Of the passwords that are looked at for a username, or from an address,
\* without a success between them, no more than the limit are within a
\* lockout's time.
THEOREM GuessesStayLimited == Spec => []GuessesAreLimited
<1>1. FailuresInv => GuessesAreLimited
  BY DEF FailuresInv, Sound, Spread, GuessesAreLimited, Limit
<1> QED
  BY <1>1, ConsoleInvariant, PTL

\* Who is locked out has failed often enough, within the windows and lately;
\* half as often, at the least, a key that is both an address and a username.
THEOREM LockoutsHaveCause == Spec => []LockedOutForCause
<1>1. ASSUME TypeOK, FailuresInv, NEW k \in Keys, Limited(k)
      PROVE  LET n == Len(past[k]) IN
               /\ n >= LeastFailures(k)
               /\ \A i \in n - LeastFailures(k) + 1 .. n - 1 :
                    past[k][i + 1] - past[k][i] <= FailureWindow
               /\ clock - past[k][n] < Lockout
  <2> DEFINE f == failed[k]
             n == Len(past[k])
             least == LeastFailures(k)
  <2>1. f \in Failure /\ n \in Nat /\ clock \in Nat /\ Limit \in Nat /\ Limit > 1 /\ Lockout \in Nat
    BY <1>1, LoginAssumption DEF FailuresInv, Sound, TypeOK, Times, Limit
  <2>2. f.count >= Limit /\ f.until = f.last + Lockout
    BY <1>1, <2>1 DEF FailuresInv, Sound, LocksOut, Limited, Failure
  <2>3. PICK r \in Nat : CountsTheRun(k, f, past[k], clock, r)
    BY <1>1 DEF FailuresInv, Sound, CountsItsRun
  <2>4. clock < f.last + Lockout /\ f.last \in Nat /\ f.count \in Nat
    BY <1>1, <2>1, <2>2, LoginAssumption DEF Limited, Failure, Times
  <2>5. least \in Nat /\ least <= Limit /\ r >= least /\ r > 0
    <3>1. CASE k \in Users \cap Addresses
      <4>1. least = (Limit + 1) \div 2 /\ f.count <= r + r
        BY <2>3, <3>1 DEF LeastFailures, CountsTheRun, InRun, AtMost, Limit
      <4> HIDE DEF least, f
      <4> QED
        BY <2>1, <2>2, <2>4, <4>1
    <3>2. CASE k \notin Users \cap Addresses
      <4>1. least = Limit /\ f.count <= r
        BY <2>3, <3>2 DEF LeastFailures, CountsTheRun, InRun, AtMost, Limit
      <4> HIDE DEF least, f
      <4> QED
        BY <2>1, <2>2, <2>4, <4>1
    <3> QED
      BY <3>1, <3>2
  <2>6. /\ n > 0 /\ f.last = past[k][n] /\ (n < r => n = Limit + 1)
        /\ \A i \in 1 .. n - 1 : i > n - r => past[k][i + 1] - past[k][i] <= FailureWindow
    BY <2>3, <2>5 DEF CountsTheRun, InRun
  <2> HIDE DEF f, n, least
  <2>7. n >= least
    BY <2>1, <2>5, <2>6
  <2>8. \A i \in n - least + 1 .. n - 1 : i \in 1 .. n - 1 /\ i > n - r
    BY <2>1, <2>5, <2>7
  <2>9. clock - past[k][n] < Lockout
    BY <2>1, <2>4, <2>6
  <2> QED
    BY <2>6, <2>7, <2>8, <2>9 DEF n, least
<1>2. TypeOK /\ FailuresInv => LockedOutForCause
  BY <1>1 DEF LockedOutForCause
<1> QED
  BY <1>2, ConsoleInvariant, PTL

\* A change is served to the login that was shown its form, in time.
THEOREM FormsStayWithTheirLogin == Spec => []ChangesServedToTheirLogin
BY ConsoleInvariant, PTL

\* A console that starts again serves the sessions of the one before it.
THEOREM SessionsOutliveRestarts == Spec => []RestartKeepsSessions
<1>1. SessionInv => RestartKeepsSessions
  BY DEF SessionInv, Genuine, RestartKeepsSessions
<1> QED
  BY <1>1, ConsoleInvariant, PTL
=============================================================================
