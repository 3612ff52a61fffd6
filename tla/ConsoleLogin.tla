----------------------------- MODULE ConsoleLogin -----------------------------
(***************************************************************************)
(* Who may use the admin console: failed logins are counted, in memory, by *)
(* address and by username, and a session is a cookie that the browser     *)
(* keeps, signed with a key that the console reads from a file.            *)
(*                                                                         *)
(* The server serves one request at a time.  A browser does not wait for a *)
(* response before it sends the next request, so that a request is served  *)
(* with the cookie the browser had when it was sent.  While a password is  *)
(* checked time passes; a clock that is set back is left out, and so is    *)
(* the token of the login form, which is in a session without a user.      *)
(***************************************************************************)
EXTENDS Integers, Sequences, FiniteSets

CONSTANTS
  Users, Addresses,   \* usernames that are tried, and the addresses of browsers
  MaxFailedAttempts,  \* 5
  FailureWindow, Lockout,   \* 300 s and 60 s
  Timeout,            \* 1800 s: after this long without a request a session ends
  None,
  MaxClock, MaxLogins, MaxSent, MaxKills   \* bounds

\* One table for both: what is typed as a username may be an address.
Keys == Users \cup Addresses

\* A first failure never locks out, whatever the limit.
ASSUME LoginAssumption ==
  /\ None \notin Keys
  /\ MaxFailedAttempts \in Nat \ {0, 1} /\ Timeout \in Nat
  /\ Lockout \in Nat /\ FailureWindow \in Nat /\ Lockout <= FailureWindow
  /\ MaxClock \in Nat /\ MaxLogins \in Nat /\ MaxSent \in Nat /\ MaxKills \in Nat

VARIABLES
  clock,
  failed,    \* failed[k]: _FAILED_LOGINS[k]
  server,    \* "down", "generated" (a key that is in no file yet), "up"
  checking,  \* the login whose password is being checked
  file, key, \* the key in the file, 0 without one, and the server's
  jar,       \* jar[a]: the browser's cookie
  page,      \* page[a]: the token in the page the browser shows, and whose it is
  sent,      \* requests the browsers have sent
  logins, kills,
  past,      \* history: times of the last failed attempts from an address or
             \* for a username, since it was reset or the server started
  active,    \* history: active[l]: when the l-th login was served last
  served,    \* history: the last change that was served
  unstored   \* history: keys that could not be written to the file

authVars == <<failed, checking, past>>
keyVars == <<server, file, key, unstored>>
webVars == <<jar, page, sent, logins, active, served>>
vars == <<clock, authVars, keyVars, webVars, kills>>

NoFailure == [count |-> 0, last |-> 0, until |-> 0]
NoPage == [token |-> 0, login |-> 0]
NoChange == [shown |-> 0, login |-> 0, idle |-> 0]

Init ==
  /\ clock = 0
  /\ failed = [k \in Keys |-> NoFailure]
  /\ server = "down" /\ checking = None
  /\ file = 0 /\ key = 0
  /\ jar = [a \in Addresses |-> None] /\ page = [a \in Addresses |-> NoPage]
  /\ sent = {}
  /\ logins = 0 /\ kills = 0
  /\ past = [k \in Keys |-> <<>>]
  /\ active = [l \in 1 .. MaxLogins |-> 0]
  /\ served = NoChange
  /\ unstored = {}

Tick ==
  /\ clock < MaxClock
  /\ clock' = clock + 1
  /\ UNCHANGED <<authVars, keyVars, webVars, kills>>

\* One request is served at a time.
Ready == server = "up" /\ checking = None

-----------------------------------------------------------------------------
(* auth.py: the count of failures of an address or a username.             *)

Expired(f) == f.count > 0 /\ clock - f.last > FailureWindow
Limited(k) == failed[k].count > 0 /\ clock < failed[k].until

\* is_rate_limited forgets failures whose window is over.
Looked(k) == IF ~Limited(k) /\ Expired(failed[k]) THEN NoFailure ELSE failed[k]

\* Mutant: the limit is one attempt later.
RecordedLate(f) ==
  IF f.count = 0 \/ Expired(f)
  THEN [count |-> 1, last |-> clock, until |-> 0]
  ELSE [count |-> f.count + 1, last |-> clock,
        until |-> IF f.count + 1 > MaxFailedAttempts THEN clock + Lockout ELSE 0]

\* Mutant: the window does not end.
RecordedForEver(f) ==
  [count |-> f.count + 1, last |-> clock,
   until |-> IF f.count + 1 >= MaxFailedAttempts THEN clock + Lockout ELSE 0]

\* record_login_failure.
Recorded(f) ==
  IF f.count = 0 \/ Expired(f)
  THEN [count |-> 1, last |-> clock, until |-> 0]
  ELSE [count |-> f.count + 1, last |-> clock,
        until |-> IF f.count + 1 >= MaxFailedAttempts THEN clock + Lockout ELSE 0]

\* The last failures that matter, the newest at the end.
Remembered(s) ==
  LET t == Append(s, clock) IN
    IF Len(t) > MaxFailedAttempts + 1 THEN Tail(t) ELSE t

-----------------------------------------------------------------------------
(* login and logout.                                                       *)

\* A login from a locked-out address or for a locked-out username is refused
\* before its password is looked at, and is not counted.  The username is
\* not looked up when the address is locked out.
TryLogin(a, u) ==
  /\ Ready
  /\ logins < MaxLogins
  /\ checking' = IF Limited(a) \/ Limited(u) THEN None ELSE [address |-> a, user |-> u]
  /\ failed' = [k \in Keys |-> IF k = a \/ (k = u /\ ~Limited(a)) THEN Looked(k) ELSE failed[k]]
  /\ UNCHANGED <<clock, keyVars, webVars, past, kills>>

\* The user is unknown or disabled, or the password is not the user's.  The
\* failure is counted for the address, then for the username; an attempt from
\* an address that names it as the username is counted twice.
LoginFails ==
  /\ checking # None
  /\ failed' = [[failed EXCEPT ![checking.address] = Recorded(@)]
                        EXCEPT ![checking.user] = Recorded(@)]
  /\ past' = [k \in Keys |-> IF k \in {checking.address, checking.user}
                             THEN Remembered(past[k]) ELSE past[k]]
  /\ checking' = None
  /\ UNCHANGED <<clock, keyVars, webVars, kills>>

\* Mutant: the session is not cleared, and keeps the token it has.
KeptToken(a) == IF jar[a] = None THEN logins + 1 ELSE jar[a].token

\* get_csrf_token, in the session that has been cleared.
FreshToken(a) == logins + 1

LoginSucceeds ==
  /\ checking # None
  /\ LET a == checking.address IN
       /\ failed' = [k \in Keys |-> IF k \in {a, checking.user} THEN NoFailure ELSE failed[k]]
       /\ past' = [k \in Keys |-> IF k \in {a, checking.user} THEN <<>> ELSE past[k]]
       /\ jar' = [jar EXCEPT ![a] = [login |-> logins + 1, token |-> FreshToken(a),
                                     last |-> clock, key |-> key]]
  /\ logins' = logins + 1
  /\ active' = [active EXCEPT ![logins + 1] = clock]
  /\ checking' = None
  /\ UNCHANGED <<clock, keyVars, page, sent, served, kills>>

-----------------------------------------------------------------------------
(* The browsers' requests: before_request, login_required.                 *)

\* A page that shows a form, a change (a form that is submitted), a logout.
Send(a, kind) ==
  /\ Cardinality(sent) < MaxSent
  /\ sent' = sent \cup {[from |-> a, kind |-> kind, cookie |-> jar[a], page |-> page[a]]}
  /\ UNCHANGED <<clock, authVars, keyVars, jar, page, logins, active, served, kills>>

\* A cookie with another key's signature is none.
Session(r) == IF r.cookie # None /\ r.cookie.key = key THEN r.cookie ELSE None

\* A request whose method changes something needs its session's token.
Token(r) == IF Session(r) = None THEN None ELSE Session(r).token
Forged(r) == r.kind # "page" /\ r.page.token # Token(r)

\* Mutant: the session is refreshed before its time is looked at.
NeverIdle(r) == FALSE

Idle(r) == clock - Session(r).last > Timeout

Alive(r) == Session(r) # None /\ ~Idle(r)

\* 403, and the session as it was.
Refuse(r) ==
  /\ Ready /\ r \in sent
  /\ Forged(r)
  /\ sent' = sent \ {r}
  /\ UNCHANGED <<clock, authVars, keyVars, jar, page, logins, active, served, kills>>

\* To the login page; a session that has ended is cleared.
Redirect(r) ==
  /\ Ready /\ r \in sent
  /\ ~Forged(r) /\ r.kind # "logout"
  /\ ~Alive(r)
  /\ jar' = IF Session(r) = None THEN jar ELSE [jar EXCEPT ![r.from] = None]
  /\ sent' = sent \ {r}
  /\ UNCHANGED <<clock, authVars, keyVars, page, logins, active, served, kills>>

\* The response refreshes the cookie.
Serve(r) ==
  /\ Ready /\ r \in sent
  /\ ~Forged(r) /\ r.kind # "logout"
  /\ Alive(r)
  /\ LET login == r.cookie.login IN
       /\ jar' = [jar EXCEPT ![r.from] = [r.cookie EXCEPT !.last = clock]]
       /\ active' = [active EXCEPT ![login] = clock]
       /\ IF r.kind = "page"
          THEN /\ page' = [page EXCEPT ![r.from] = [token |-> r.cookie.token, login |-> login]]
               /\ UNCHANGED served
          ELSE /\ served' = [shown |-> r.page.login, login |-> login, idle |-> clock - active[login]]
               /\ UNCHANGED page
  /\ sent' = sent \ {r}
  /\ UNCHANGED <<clock, authVars, keyVars, logins, kills>>

Logout(r) ==
  /\ Ready /\ r \in sent
  /\ ~Forged(r) /\ r.kind = "logout"
  /\ jar' = [jar EXCEPT ![r.from] = None]
  /\ sent' = sent \ {r}
  /\ UNCHANGED <<clock, authVars, keyVars, page, logins, active, served, kills>>

-----------------------------------------------------------------------------
(* get_or_create_secret_key, and the server's end.                         *)

\* Mutant: the file is not read.
FoundKey == 0

\* The file may be missing, or empty after a kill.
StoredKey == file

Start ==
  /\ server = "down"
  /\ IF StoredKey # 0
     THEN server' = "up" /\ key' = StoredKey
     ELSE server' = "generated" /\ key' = kills + 1
  /\ UNCHANGED <<clock, authVars, file, unstored, webVars, kills>>

\* The file is truncated, and the key written; a failure is ignored.
StoreKey ==
  /\ server = "generated"
  /\ \/ file' = key /\ UNCHANGED unstored
     \/ unstored' = unstored \cup {key} /\ UNCHANGED file
  /\ server' = "up"
  /\ UNCHANGED <<clock, authVars, key, webVars, kills>>

\* The failures and the requests that are not served yet are lost.
Kill ==
  /\ server # "down"
  /\ kills < MaxKills
  /\ kills' = kills + 1
  /\ server' = "down"
  /\ failed' = [k \in Keys |-> NoFailure]
  /\ past' = [k \in Keys |-> <<>>]
  /\ checking' = None
  /\ sent' = {} /\ key' = 0
  /\ UNCHANGED <<clock, file, unstored, jar, page, logins, active, served>>

Next ==
  \/ Tick
  \/ \E a \in Addresses, u \in Users : TryLogin(a, u)
  \/ LoginFails \/ LoginSucceeds
  \/ \E a \in Addresses, kind \in {"page", "change", "logout"} : Send(a, kind)
  \/ \E r \in sent : Refuse(r) \/ Redirect(r) \/ Serve(r) \/ Logout(r)
  \/ Start \/ StoreKey \/ Kill

Spec == Init /\ [][Next]_vars

-----------------------------------------------------------------------------
(* Properties                                                              *)

Times == 0 .. MaxClock
Failure == [count : Nat, last : Times, until : Nat]
Tokens == 0 .. MaxLogins
StartKeys == 0 .. MaxKills + 1
Cookie == [login : Tokens, token : Tokens, last : Times, key : StartKeys]
Page == [token : Tokens, login : Tokens]
Sent == [from : Addresses, kind : {"page", "change", "logout"}, cookie : Cookie \cup {None}, page : Page]

\* Types; a server that is up has a key, and only such a one checks passwords.
TypeOK ==
  /\ clock \in Times
  /\ failed \in [Keys -> Failure]
  /\ server \in {"down", "generated", "up"}
  /\ checking \in [address : Addresses, user : Users] \cup {None}
  /\ checking # None => server = "up"
  /\ server = "up" => key # 0
  /\ file \in StartKeys /\ key \in StartKeys /\ unstored \subseteq StartKeys
  /\ jar \in [Addresses -> Cookie \cup {None}] /\ page \in [Addresses -> Page]
  /\ sent \subseteq Sent
  /\ logins \in Tokens /\ kills \in 0 .. MaxKills

\* Of the passwords tried for a username, or from an address, without a
\* success or a restart in between, no more than MAX_FAILED_ATTEMPTS are
\* looked at within LOCKOUT_SECONDS, however the attempts fall on the ends of
\* lockouts and windows and whoever else fails meanwhile.
GuessesAreLimited ==
  \A k \in Keys : Len(past[k]) > MaxFailedAttempts
                    => past[k][Len(past[k])] - past[k][1] >= Lockout

\* How many failed attempts a lockout stands for at least: each counts once for
\* a key that is only an address or only a username, and up to twice for a key
\* that is both.
LeastFailures(k) ==
  IF k \in Users \cap Addresses THEN (MaxFailedAttempts + 1) \div 2 ELSE MaxFailedAttempts

\* Nobody is locked out who has not failed MAX_FAILED_ATTEMPTS times, each
\* within the window of the one before, and last within the lockout: neither
\* attempts that are refused nor old failures prolong a lockout.  An address
\* that is tried as a username too is locked out after half as many attempts at
\* the least, made from it or naming it.
LockedOutForCause ==
  \A k \in Keys : Limited(k) =>
    LET n == Len(past[k]) IN
      /\ n >= LeastFailures(k)
      /\ \A i \in n - LeastFailures(k) + 1 .. n - 1 : past[k][i + 1] - past[k][i] <= FailureWindow
      /\ clock - past[k][n] < Lockout

\* A change is served to the login that was shown its form, never to the one
\* that has taken its place in the browser since, and within the timeout of
\* what that login was last served.
ChangesServedToTheirLogin ==
  served.shown = served.login /\ served.idle <= Timeout

\* A console that is started again serves the sessions of the one before,
\* unless that one could not store its key.
RestartKeepsSessions ==
  \A a \in Addresses :
    server = "up" /\ jar[a] # None => jar[a].key = key \/ jar[a].key \in unstored
=============================================================================
