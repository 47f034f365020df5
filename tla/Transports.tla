------------------------------ MODULE Transports ------------------------------
(***************************************************************************)
(* symbivpn/resolver.py, DoHUpstream and DoTUpstream: one encrypted        *)
(* upstream, its pool of connections and the threads that ask through it.  *)
(* A connection has one query on it at a time and what it yields is only   *)
(* told apart by what was sent before, so a connection that goes back to   *)
(* the pool with an answer still to come would give it to the next query.  *)
(*                                                                         *)
(* The far end is external.  It answers a query it has received once, when *)
(* it likes, and closes connections when it likes; over HTTP it may close  *)
(* with an answer.  http.client then keeps the object without its socket   *)
(* and opens a new one inside the next request(): such a connection is     *)
(* parked here.                                                            *)
(***************************************************************************)
EXTENDS Integers, Sequences, SequencesExt

CONSTANTS
    Askers,       \* threads in resolve()
    Connections,  \* connection objects, enough for the pool and every thread
    Queries,      \* told apart so that answers are
    PoolSize,     \* the pool's size, 4 in the code
    NoQuery, NoConnection

ASSUME TransportsAssumption == NoQuery \notin Queries /\ NoConnection \notin Connections

VARIABLES
    protocol,  \* "DoH" or "DoT"
    idle,      \* the pool's LifoQueue, last in at the end
    line,      \* line[c]: both ends of connection c
    asker      \* asker[a]: where a is in resolve()

transportVars == <<protocol, idle, line, asker>>

Gone == [up |-> FALSE, parked |-> FALSE, due |-> NoQuery, stream |-> <<>>]
Opened == [Gone EXCEPT !.up = TRUE]
Waiting == [at |-> "idle", query |-> NoQuery, attempt |-> 0, using |-> NoConnection, got |-> NoQuery]

TransportsInit ==
    /\ protocol \in {"DoH", "DoT"}
    /\ idle = <<>>
    /\ line = [c \in Connections |-> Gone]
    /\ asker = [a \in Askers |-> Waiting]

At(a, place) == asker[a].at = place
Using(a) == asker[a].using

Held == ToSet(idle) \cup {Using(a) : a \in Askers}

\* Queries somebody is still waiting for, or that are on some line.
Pending == {asker[a].query : a \in Askers} \cup {line[c].due : c \in Connections}
            \cup UNION {ToSet(line[c].stream) : c \in Connections}

BeginLookup(a) ==
    /\ At(a, "idle")
    /\ \E q \in Queries \ Pending :
        asker' = [asker EXCEPT ![a] = [@ EXCEPT !.at = "acquire", !.query = q, !.attempt = 1]]
    /\ UNCHANGED <<protocol, idle, line>>

\* acquire(): the connection used last.
AcquireIdle(a) ==
    /\ At(a, "acquire")
    /\ idle # <<>>
    /\ idle' = Front(idle)
    /\ asker' = [asker EXCEPT ![a] = [@ EXCEPT !.at = "send", !.using = Last(idle)]]
    /\ UNCHANGED <<protocol, line>>

\* acquire() with an empty pool: _connect() shakes hands and checks the pin.
Connect(a) ==
    /\ At(a, "acquire")
    /\ idle = <<>>
    /\ \E c \in Connections \ Held :
        /\ line' = [line EXCEPT ![c] = Opened]
        /\ asker' = [asker EXCEPT ![a] = [@ EXCEPT !.at = "send", !.using = c]]
    /\ UNCHANGED <<protocol, idle>>

\* An exception on the first attempt is followed by the second.
NextAttempt(a) ==
    [asker EXCEPT ![a] = [@ EXCEPT !.at = IF asker[a].attempt = 1 THEN "acquire" ELSE "failed",
                                   !.attempt = 2, !.using = NoConnection]]

\* Unreachable, a failed handshake or a pin that does not match.
ConnectFails(a) ==
    /\ At(a, "acquire")
    /\ idle = <<>>
    /\ asker' = NextAttempt(a)
    /\ UNCHANGED <<protocol, idle, line>>

\* request() or sendall().  A far end that has closed may take the bytes all
\* the same; a parked connection is opened again.
Send(a) ==
    LET c == Using(a)
    IN  /\ At(a, "send")
        /\ line' = [line EXCEPT ![c] =
                IF @.parked THEN [Opened EXCEPT !.due = asker[a].query]
                ELSE IF @.up THEN [@ EXCEPT !.due = asker[a].query] ELSE @]
        /\ asker' = [asker EXCEPT ![a] = [@ EXCEPT !.at = "read"]]
        /\ UNCHANGED <<protocol, idle>>

\* Mutant: the connection is given back on the way out, error or not.
GiveUpReleases(a) ==
    /\ idle' = IF Len(idle) < PoolSize THEN Append(idle, Using(a)) ELSE idle
    /\ asker' = NextAttempt(a)
    /\ UNCHANGED <<protocol, line>>

\* discard(), and once more from the start.
GiveUp(a) ==
    /\ line' = [line EXCEPT ![Using(a)] = Gone]
    /\ asker' = NextAttempt(a)
    /\ UNCHANGED <<protocol, idle>>

\* The line is broken, or the parked connection does not open.
SendFails(a) ==
    /\ At(a, "send")
    /\ ~line[Using(a)].up
    /\ GiveUp(a)

\* Timed out, closed in the middle of a message, or not a message.
ReadFails(a) == At(a, "read") /\ GiveUp(a)

\* release(): back into the pool, or closed if that is full.
Read(a) ==
    LET c == Using(a)
    IN  /\ At(a, "read")
        /\ line[c].stream # <<>>
        /\ asker' = [asker EXCEPT ![a] = [@ EXCEPT !.at = "answered", !.using = NoConnection,
                                                   !.got = Head(line[c].stream)]]
        /\ IF Len(idle) < PoolSize
           THEN /\ idle' = Append(idle, c)
                /\ line' = [line EXCEPT ![c].stream = Tail(@)]
           ELSE /\ line' = [line EXCEPT ![c] = Gone]
                /\ UNCHANGED idle
        /\ UNCHANGED protocol

\* Any HTTP status but 200 ends the lookup at once.
ReadRefusal(a) ==
    /\ At(a, "read")
    /\ protocol = "DoH"
    /\ line[Using(a)].stream # <<>>
    /\ line' = [line EXCEPT ![Using(a)] = Gone]
    /\ asker' = [asker EXCEPT ![a] = [@ EXCEPT !.at = "failed", !.using = NoConnection]]
    /\ UNCHANGED <<protocol, idle>>

Return(a) ==
    /\ asker[a].at \in {"answered", "failed"}
    /\ asker' = [asker EXCEPT ![a] = Waiting]
    /\ UNCHANGED <<protocol, idle, line>>

\* close() while queries are under way; theirs are pooled again afterwards.
Drain ==
    /\ idle # <<>>
    /\ idle' = <<>>
    /\ line' = [c \in Connections |-> IF c \in ToSet(idle) THEN Gone ELSE line[c]]
    /\ UNCHANGED <<protocol, asker>>

\* The far end, with or without "Connection: close".
FarAnswers(c, closing) ==
    /\ line[c].due # NoQuery
    /\ closing => protocol = "DoH"
    /\ line' = [line EXCEPT ![c] = [up |-> ~closing, parked |-> closing, due |-> NoQuery,
                                    stream |-> Append(@.stream, @.due)]]
    /\ UNCHANGED <<protocol, idle, asker>>

FarCloses(c) ==
    /\ line[c].up
    /\ line' = [line EXCEPT ![c] = [@ EXCEPT !.up = FALSE, !.due = NoQuery]]
    /\ UNCHANGED <<protocol, idle, asker>>

TransportsNext ==
    \/ \E a \in Askers :
        \/ BeginLookup(a) \/ AcquireIdle(a) \/ Connect(a) \/ ConnectFails(a) \/ Send(a)
        \/ SendFails(a) \/ ReadFails(a) \/ Read(a) \/ ReadRefusal(a) \/ Return(a)
    \/ Drain
    \/ \E c \in Connections : FarCloses(c) \/ \E closing \in BOOLEAN : FarAnswers(c, closing)

TransportsSpec == TransportsInit /\ [][TransportsNext]_transportVars

\* A lookup returns the answer to its own query, and never one that an earlier
\* lookup on the same connection gave up waiting for (resolver.py:263).
OwnAnswer == \A a \in Askers : At(a, "answered") => asker[a].got = asker[a].query
===============================================================================
