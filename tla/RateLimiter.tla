------------------------------ MODULE RateLimiter ------------------------------
(***************************************************************************)
(* symbivpn/server.py, class RateLimiter: a token bucket per client        *)
(* address, refilled lazily when the client is next seen, with the buckets *)
(* of idle clients swept away now and then.  The DNS listeners and the     *)
(* time server each own one.                                               *)
(*                                                                         *)
(* Tokens are counted in fractions of a query: a query costs Cost of them. *)
(* A bucket keeps the time since it was last touched instead of the time   *)
(* of the touch; past IdleCutoff the difference no longer matters.  With   *)
(* rate_limit <= 0 allow() returns before it looks at a bucket; here the   *)
(* limiter is on.                                                          *)
(***************************************************************************)
EXTENDS Integers

CONSTANTS
    Clients,     \* client addresses inside the allowed networks
    Rate,        \* rate: tokens gained per tick
    Burst,       \* burst: what a bucket holds at most
    Cost,        \* the tokens of one query
    SweepEvery,  \* the 60 seconds between two sweeps, in ticks
    IdleCutoff   \* the 300 seconds after which a bucket is idle, in ticks

\* The last conjunct is what makes the sweep harmless: a bucket that idle
\* is full again.  The default settings satisfy it a hundred times over.
ASSUME RateAssumption ==
    /\ {Rate, Burst, Cost, IdleCutoff} \subseteq Nat \ {0}
    /\ SweepEvery \in Nat
    /\ Rate * IdleCutoff >= Burst

VARIABLES
    bucket,     \* self._buckets
    lastSweep,  \* time since self._last_sweep
    fair        \* history: what a bucket that is never dropped would hold

rateVars == <<bucket, lastSweep, fair>>

AtMost(n, m) == IF n < m THEN n ELSE m

RateInit ==
    /\ bucket = <<>>
    /\ lastSweep = 0
    /\ fair = [c \in Clients |-> Burst]

\* Mutant: the time since the last query is credited twice.
TokensTwice(c) ==
    IF c \in DOMAIN bucket
    THEN AtMost(Burst, bucket[c].tokens + bucket[c].age * Rate * 2)
    ELSE Burst

\* The tokens allow() finds: the stored ones and those earned since.
Tokens(c) ==
    IF c \in DOMAIN bucket
    THEN AtMost(Burst, bucket[c].tokens + bucket[c].age * Rate)
    ELSE Burst

Put(c, tokens) ==
    [x \in DOMAIN bucket \cup {c} |->
        IF x = c THEN [tokens |-> tokens, age |-> 0] ELSE bucket[x]]

Swept(buckets) ==
    [x \in {y \in DOMAIN buckets : buckets[y].age < IdleCutoff} |-> buckets[x]]

\* allow() returning True.  Only this path sweeps.
Allow(c) ==
    /\ Tokens(c) >= Cost
    /\ IF lastSweep > SweepEvery
       THEN bucket' = Swept(Put(c, Tokens(c) - Cost)) /\ lastSweep' = 0
       ELSE bucket' = Put(c, Tokens(c) - Cost) /\ UNCHANGED lastSweep
    /\ fair' = [fair EXCEPT ![c] = @ - Cost]

\* allow() returning False.
Deny(c) ==
    /\ Tokens(c) < Cost
    /\ bucket' = Put(c, Tokens(c))
    /\ UNCHANGED <<lastSweep, fair>>

\* time.monotonic() moves on.
RateTick ==
    /\ bucket' = [c \in DOMAIN bucket |->
                    [bucket[c] EXCEPT !.age = AtMost(IdleCutoff, @ + 1)]]
    /\ lastSweep' = AtMost(SweepEvery + 1, lastSweep + 1)
    /\ fair' = [c \in Clients |-> AtMost(Burst, fair[c] + Rate)]

RateNext == RateTick \/ \E c \in Clients : Allow(c) \/ Deny(c)

RateSpec == RateInit /\ [][RateNext]_rateVars

RateTypeOK ==
    /\ DOMAIN bucket \subseteq Clients
    /\ bucket \in [DOMAIN bucket -> [tokens : 0..Burst, age : 0..IdleCutoff]]
    /\ lastSweep \in 0..(SweepEvery + 1)
    /\ fair \in [Clients -> Int]

\* No client ever gets more than its burst and its rate allow, whatever the
\* sweep forgets: the queries let through never overdraw a bucket that is
\* refilled on every tick and never dropped (server.py:43).
RateRespected == \A c \in Clients : fair[c] >= 0

\* Why: the limiter never credits a client with more than it has.  A bucket
\* that was dropped, or never made, belongs to a client whose own is full.
NeverGenerous == \A c \in Clients : Tokens(c) <= fair[c]
===============================================================================
