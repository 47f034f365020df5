-------------------------------- MODULE Access --------------------------------
(***************************************************************************)
(* symbivpn/auth.py and the part of symbivpn/api.py that lets requests in: *)
(* AttemptLimiter, SessionStore, AdminToken, Dashboard.authorised and the  *)
(* login and logout handlers, as requests served by concurrent threads.    *)
(*                                                                         *)
(* Only durations are kept.  A failure has an age, a lockout and a session *)
(* have seconds left; past the window ages no longer differ and stop       *)
(* growing.  A method that reads the clock and then takes its lock is one  *)
(* step, the wall clock of the sessions runs with the monotonic one.  The  *)
(* slow password check reads nothing that changes while the process runs,  *)
(* so it is one step with the entry of its outcome; what matters is that   *)
(* it comes after locked_out(), with other requests in between.            *)
(*                                                                         *)
(* A stored password is the value of dashboard.password, its fingerprint   *)
(* stands for it.  The secret a request carries is right, wrong or absent. *)
(***************************************************************************)
EXTENDS Integers, Sequences, FiniteSets

CONSTANTS
    Clients,          \* client addresses
    Threads,          \* the threads of the dashboard's server
    Tokens,           \* session tokens the generator can give
    Secrets,          \* admin tokens the generator can give
    Passwords,        \* the values dashboard.password has over time
    NoPassword,       \* dashboard.password = ""
    None,             \* no secret, no cookie, no credential
    Limit,            \* AttemptLimiter.limit
    Window,           \* AttemptLimiter.window
    Lockout,          \* AttemptLimiter.lockout
    MaxTracked,       \* AttemptLimiter.MAX_TRACKED
    SweepInterval,    \* AttemptLimiter.SWEEP_INTERVAL
    Lifetime,         \* SessionStore.LIFETIME
    MaxSessions       \* SessionStore.MAX_SESSIONS

ASSUME AccessAssumption ==
    /\ Limit \in Nat \ {0} /\ Window \in Nat \ {0} /\ Lockout \in Nat \ {0}
    /\ MaxTracked \in Nat \ {0} /\ SweepInterval \in Nat
    /\ Lifetime \in Nat \ {0} /\ MaxSessions \in Nat \ {0}
    /\ IsFiniteSet(Clients) /\ IsFiniteSet(Threads) /\ IsFiniteSet(Tokens)
    /\ NoPassword \notin Passwords /\ None \notin Secrets \cup Tokens

VARIABLES
    failures,    \* AttemptLimiter._failures: ages, oldest entry first, <<>> if there are none
    locked,      \* AttemptLimiter._locked: seconds left, Free if there is none
    sweep,       \* seconds to AttemptLimiter._next_sweep
    sessions,    \* SessionStore._sessions: seconds left, 0 if there is none
    made,        \* the session tokens given so far
    phase,       \* of the process: "down", "load", "write", "up"
    password,    \* config.dashboard.password
    file,        \* admin.token: the secret and the password it is for
    value,       \* AdminToken._value
    issued,      \* history: the password each secret was issued for
    retired,     \* history: the secrets a changed password has revoked
    req,         \* the request each thread serves
    evicted      \* history: clients whose lockout was dropped for space

limiter == <<failures, locked, sweep, evicted>>
store == <<sessions, made>>
process == <<phase, password, file, value, issued, retired>>
vars == <<limiter, store, process, req>>

Free == -1

Wrong == "wrong"
Credentials == {None, Wrong} \cup Passwords \cup Secrets

Idle == [pc |-> "idle"]
Request == [pc : {"limit", "verify"}, client : Clients] \cup [pc : {"create"}]
           \cup [pc : {"revoke"}, cookie : Tokens]

NoFile == [secret |-> None, issued_for |-> NoPassword]

TypeOK ==
    /\ \A c \in Clients : failures[c] \in Seq(0..Window)
    /\ locked \in [Clients -> Free..Lockout] /\ sweep \in 0..SweepInterval
    /\ sessions \in [Tokens -> 0..Lifetime]
    /\ \A k \in Tokens \ made : sessions[k] = 0
    /\ phase \in {"down", "load", "write", "up"}
    /\ password \in Passwords \cup {NoPassword}
    /\ file \in [secret : Secrets \cup {None}, issued_for : Passwords \cup {NoPassword}]
    /\ value \in Secrets \cup {None}
    /\ issued \in [Secrets -> Passwords \cup {NoPassword}] /\ retired \subseteq Secrets
    /\ \A t \in Threads : req[t] = Idle \/ (req[t] \in Request /\ phase = "up")
    /\ evicted \subseteq Clients

Init ==
    /\ failures = [c \in Clients |-> <<>>] /\ locked = [c \in Clients |-> Free]
    /\ sweep = 0 /\ evicted = {}
    /\ sessions = [k \in Tokens |-> 0] /\ made = {}
    /\ phase = "down" /\ password = NoPassword /\ file = NoFile /\ value = None
    /\ issued = [s \in Secrets |-> NoPassword] /\ retired = {}
    /\ req = [t \in Threads |-> Idle]

(***************************************************************************)
(* AttemptLimiter.                                                         *)
(***************************************************************************)
Latest(ages) == ages[Len(ages)]
Cleared(f, S) == [c \in Clients |-> IF c \in S THEN <<>> ELSE f[c]]
Released(l, S) == [c \in Clients |-> IF c \in S THEN Free ELSE l[c]]
Failing(f) == {c \in Clients : f[c] # <<>>}
LockedIn(l) == {c \in Clients : l[c] # Free}

\* The sets of clients that may be dropped from S, those of least rank first:
\* none up to the ceiling, else all but seven eighths of it.
Surplus(S, rank) ==
    IF Cardinality(S) <= MaxTracked THEN {{}}
    ELSE {D \in SUBSET S : /\ Cardinality(D) = Cardinality(S) - (MaxTracked * 7) \div 8
                           /\ \A x \in D, y \in S \ D : rank[x] <= rank[y]}

Due(f, l) ==
    \/ sweep = 0
    \/ Cardinality(LockedIn(l)) > MaxTracked
    \/ Cardinality(Failing(f)) > MaxTracked

\* _prune(): what has expired, then what is too much, is forgotten.
Prune(f, l) ==
    IF ~Due(f, l)
    THEN failures' = f /\ locked' = l /\ UNCHANGED <<sweep, evicted>>
    ELSE LET over == {c \in Clients : l[c] = 0}
             live == Released(l, over)
             kept == Cleared(f, over)
             left == Cleared(kept, {c \in Failing(kept) : Latest(kept[c]) >= Window})
         IN \E D \in Surplus(LockedIn(live), live),
               E \in Surplus(Failing(left), [c \in Failing(left) |-> -Latest(left[c])]) :
               /\ locked' = Released(live, D)
               /\ failures' = Cleared(left, E)
               /\ sweep' = SweepInterval
               /\ evicted' = {c \in evicted \cup D : failures'[c] # <<>>}

\* locked_out(): Refused, or else an expired lockout is forgotten.
Refused(c) == locked[c] > 0

Unlock(c) ==
    /\ IF locked[c] = 0
       THEN /\ locked' = Released(locked, {c})
            /\ failures' = Cleared(failures, {c})
            /\ evicted' = evicted \ {c}
       ELSE UNCHANGED <<locked, failures, evicted>>
    /\ UNCHANGED sweep

RecordSuccess(c) ==
    /\ locked' = Released(locked, {c})
    /\ failures' = Cleared(failures, {c})
    /\ evicted' = evicted \ {c}
    /\ UNCHANGED sweep

\* Mutant: one failure more is let pass.
EnoughOffByOne(attempts) == Len(attempts) > Limit

Enough(attempts) == Len(attempts) >= Limit

\* The failures inside the window.  The oldest come first, so they are the end.
Recent(ages) ==
    SubSeq(ages, 1 + Cardinality({i \in DOMAIN ages : ages[i] >= Window}), Len(ages))

RecordFailure(c) ==
    LET attempts == Append(Recent(failures[c]), 0)
    IN Prune([failures EXCEPT ![c] = attempts],
             IF Enough(attempts) THEN [locked EXCEPT ![c] = Lockout] ELSE locked)

(***************************************************************************)
(* SessionStore.  A session that is over is as good as pruned.             *)
(***************************************************************************)
Live(k) == sessions[k] > 0

Full == Cardinality({k \in Tokens : Live(k)}) >= MaxSessions

\* create(): when all places are taken the session that ends first makes room.
Create(k) ==
    /\ k \notin made /\ made' = made \cup {k}
    /\ IF Full
       THEN \E o \in {x \in Tokens : Live(x)} :
               /\ \A x \in Tokens : Live(x) => sessions[o] <= sessions[x]
               /\ sessions' = [sessions EXCEPT ![o] = 0, ![k] = Lifetime]
       ELSE sessions' = [sessions EXCEPT ![k] = Lifetime]

Revoke(k) == sessions' = [sessions EXCEPT ![k] = 0]

(***************************************************************************)
(* Requests: Dashboard.authorised, _post_login, _post_logout.  What a      *)
(* request carries is chosen when it is looked at.  A request that is      *)
(* refused for its form (read-only mode, no JSON), and one that is let in  *)
(* because no password is set, changes nothing here and is left out.       *)
(***************************************************************************)
Becomes(t, r) == req' = [req EXCEPT ![t] = r]
Guarded == phase = "up" /\ password # NoPassword

\* A live session lets the request in: only a logout then changes anything.
BeginLogOut(t, k) ==
    /\ Guarded /\ req[t] = Idle /\ Live(k)
    /\ Becomes(t, [pc |-> "revoke", cookie |-> k])
    /\ UNCHANGED <<limiter, store, process>>

\* Any other request, and every login, goes to the limiter.
Begin(t, c) ==
    /\ Guarded /\ req[t] = Idle
    /\ Becomes(t, [pc |-> "limit", client |-> c])
    /\ UNCHANGED <<limiter, store, process>>

\* Mutant: being refused counts as another attempt.
CheckLimitExtends(t) ==
    LET c == req[t].client
    IN /\ req[t].pc = "limit"
       /\ \/ /\ Refused(c) /\ Becomes(t, Idle)
             /\ locked' = [locked EXCEPT ![c] = Lockout]
             /\ UNCHANGED <<failures, sweep, evicted>>
          \/ ~Refused(c) /\ Becomes(t, [pc |-> "verify", client |-> c]) /\ Unlock(c)
       /\ UNCHANGED <<store, process>>

CheckLimit(t) ==
    LET c == req[t].client
    IN /\ req[t].pc = "limit"
       /\ \/ Refused(c) /\ Becomes(t, Idle) /\ UNCHANGED limiter
          \/ ~Refused(c) /\ Becomes(t, [pc |-> "verify", client |-> c]) /\ Unlock(c)
       /\ UNCHANGED <<store, process>>

\* A login takes the password only, other requests the admin token too.
Right(credential, login) ==
    \/ credential = password
    \/ ~login /\ value # None /\ credential = value

LetIn(t, credential, login) ==
    /\ req[t].pc = "verify" /\ Right(credential, login)
    /\ RecordSuccess(req[t].client)
    /\ Becomes(t, IF login THEN [pc |-> "create"] ELSE Idle)
    /\ UNCHANGED <<store, process>>

\* Without a credential, or when the body of a login is not JSON, nothing
\* is counted.
TurnAway(t, credential, login) ==
    /\ req[t].pc = "verify" /\ ~Right(credential, login)
    /\ IF credential = None THEN UNCHANGED limiter ELSE RecordFailure(req[t].client)
    /\ Becomes(t, Idle)
    /\ UNCHANGED <<store, process>>

LogIn(t, k) ==
    /\ req[t].pc = "create"
    /\ Create(k) /\ Becomes(t, Idle)
    /\ UNCHANGED <<limiter, process>>

LogOut(t) ==
    /\ req[t].pc = "revoke"
    /\ Revoke(req[t].cookie) /\ Becomes(t, Idle)
    /\ UNCHANGED <<limiter, made, process>>

(***************************************************************************)
(* The process: Dashboard.start and AdminToken.load_or_create, which read  *)
(* the token file and may write it anew, and the end of the process, which *)
(* can come between the two and takes all tables with it.                  *)
(***************************************************************************)
Start(p) ==
    /\ phase = "down"
    /\ password' = p /\ phase' = IF p = NoPassword THEN "up" ELSE "load"
    /\ UNCHANGED <<limiter, store, file, value, issued, retired, req>>

\* Coming up with a password revokes the secrets issued for another.
ComesUp(s) ==
    /\ phase' = "up" /\ value' = s
    /\ retired' = retired \cup {x \in Secrets : issued'[x] \notin {NoPassword, password}}

\* Mutant: any token found is kept.
LoadAny ==
    /\ phase = "load"
    /\ IF file.secret # None
       THEN UNCHANGED <<file, issued>> /\ ComesUp(file.secret)
       ELSE /\ phase' = "write" /\ file' = NoFile
            /\ UNCHANGED <<value, issued, retired>>
    /\ UNCHANGED <<limiter, store, password, req>>

\* read() and issued_for(); a file of another password is opened, and emptied.
Load ==
    /\ phase = "load"
    /\ IF file.secret # None /\ file.issued_for = password
       THEN UNCHANGED <<file, issued>> /\ ComesUp(file.secret)
       ELSE /\ phase' = "write" /\ file' = NoFile
            /\ UNCHANGED <<value, issued, retired>>
    /\ UNCHANGED <<limiter, store, password, req>>

Write(s) ==
    /\ phase = "write" /\ issued[s] = NoPassword
    /\ issued' = [issued EXCEPT ![s] = password]
    /\ file' = [secret |-> s, issued_for |-> password]
    /\ ComesUp(s)
    /\ UNCHANGED <<limiter, store, password, req>>

\* The write is cut short: the secret may be there, what it is for is not.
WriteTorn(s) ==
    /\ phase = "write" /\ issued[s] = NoPassword
    /\ issued' = [issued EXCEPT ![s] = password]
    /\ file' = [secret |-> s, issued_for |-> NoPassword]
    /\ phase' = "down"
    /\ UNCHANGED <<limiter, store, password, value, retired, req>>

Die ==
    /\ phase # "down" /\ phase' = "down"
    /\ failures' = [c \in Clients |-> <<>>] /\ locked' = [c \in Clients |-> Free]
    /\ sweep' = 0 /\ evicted' = {}
    /\ sessions' = [k \in Tokens |-> 0]
    /\ req' = [t \in Threads |-> Idle]
    /\ value' = None
    /\ UNCHANGED <<made, password, file, issued, retired>>

Less(n) == IF n > 0 THEN n - 1 ELSE n
Older(ages) == [i \in DOMAIN ages |-> IF ages[i] < Window THEN ages[i] + 1 ELSE Window]

Tick ==
    /\ phase = "up"
    /\ failures' = [c \in Clients |-> Older(failures[c])]
    /\ locked' = [c \in Clients |-> Less(locked[c])]
    /\ sweep' = Less(sweep)
    /\ sessions' = [k \in Tokens |-> Less(sessions[k])]
    /\ UNCHANGED <<made, process, req, evicted>>

Serve(t) ==
    \/ (\E k \in Tokens : BeginLogOut(t, k)) \/ (\E c \in Clients : Begin(t, c))
    \/ CheckLimit(t)
    \/ \E credential \in Credentials, login \in BOOLEAN :
          LetIn(t, credential, login) \/ TurnAway(t, credential, login)
    \/ (\E k \in Tokens : LogIn(t, k)) \/ LogOut(t)

Next ==
    \/ \E t \in Threads : Serve(t)
    \/ \E p \in Passwords \cup {NoPassword} : Start(p)
    \/ Load \/ (\E s \in Secrets : Write(s) \/ WriteTorn(s)) \/ Die \/ Tick

Spec == Init /\ [][Next]_vars

\* Time passes.
FairSpec == Spec /\ WF_vars(Tick)

(***************************************************************************)
(* Properties.                                                             *)
(***************************************************************************)
\* An admin token never works again once the dashboard has come up with
\* another password, not even when the first password is set again
\* (load_or_create, auth.py:219), whatever the crashes in between.
RetiredStaysDead == value \notin retired

\* The guesses that slip through between locked_out() and record_failure()
\* are at most one per other thread: a client has no more live failures than
\* the limit and one for each of them, unless its lockout was dropped because
\* the table was full (auth.py:151, 164).
GuessesBounded ==
    \A c \in Clients \ evicted : Len(failures[c]) <= Limit + Cardinality(Threads) - 1

\* The tables never outgrow their ceilings, whatever the clients do, in
\* particular between two sweeps (_prune, auth.py:106; create, auth.py:375).
TablesBounded ==
    /\ Cardinality(LockedIn(locked)) <= MaxTracked
    /\ Cardinality(Failing(failures)) <= MaxTracked
    /\ Cardinality({k \in Tokens : Live(k)}) <= MaxSessions

\* A lockout ends: neither requests that are turned away because of it nor
\* late ones that fail while it holds can keep it going (auth.py:151-179).
LockoutEnds == \A c \in Clients : locked[c] > 0 ~> locked[c] <= 0
===============================================================================
