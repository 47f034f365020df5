-------------------------------- MODULE Cluster --------------------------------
(***************************************************************************)
(* symbivpn/cluster.py, class Cluster: the nodes tell each other that they *)
(* are there, and each hands its clients the list of nodes, the preferred  *)
(* one first.                                                              *)
(*                                                                         *)
(* Heartbeats and the parting "bye" are datagrams: they may be lost,       *)
(* duplicated, delayed up to MaxDelay and so overtake one another.         *)
(* Authentication, the counters and cache sharing are left out.  A node is *)
(* its name, and names are numbers so that they are ordered.               *)
(*                                                                         *)
(* Time passes in ticks and only durations are kept.  resolver_order()     *)
(* treats a node it never heard of, one that said bye and one that timed   *)
(* out alike, so "no entry" is an entry of age Timeout.                    *)
(***************************************************************************)
EXTENDS Integers, Sequences, FiniteSets

CONSTANTS
    Nodes,          \* the names of the nodes
    Priority,       \* config.priority of each
    Yielding,       \* the nodes configured with yield_when_idle
    YieldPriority,  \* YIELD_PRIORITY
    Interval,       \* HEARTBEAT_INTERVAL
    Timeout,        \* NODE_TIMEOUT
    MaxDelay,       \* longest time a datagram travels
    Tolerance,      \* consecutive beats that may be lost
    MaxFaults       \* bound on losses, stops and changes of use, for TLC

ASSUME NodesAssumption ==
    /\ Nodes \subseteq Nat /\ IsFiniteSet(Nodes) /\ Priority \in [Nodes -> Nat]
    /\ Yielding \subseteq Nodes /\ YieldPriority \in Nat
    /\ Tolerance \in Nat /\ MaxFaults \in Nat

\* 35 seconds against three beats of 10 seconds and the travel time.
ASSUME TimingAssumption ==
    /\ Interval \in Nat /\ Timeout \in Nat /\ MaxDelay \in Nat
    /\ MaxDelay < Interval
    /\ (Tolerance + 1) * Interval + MaxDelay < Timeout

VARIABLES
    up,        \* the nodes that run
    idle,      \* those whose IdleMonitor.should_yield() says so
    nextBeat,  \* time left until its next heartbeat
    age,       \* age[<<m, n>>]: time since m heard from n (now - last_seen)
    prio,      \* prio[<<m, n>>]: the effective priority n told m
    net,       \* datagrams on their way
    faults,    \* faults so far
    heard,     \* history: <<m, n>>, m heard n and has had no bye of it since
    missed,    \* history: beats of n lost on the way to m since
    downFor    \* history: how long a node has been down

clusterVars == <<up, idle, nextBeat, age, prio, net, faults, heard, missed, downFor>>

Links == Nodes \X Nodes

Longest == Timeout + MaxDelay + 1

Message == [kind : {"beat", "bye"}, from : Nodes, to : Nodes, prio : Nat,
            age : 0..MaxDelay]

ClusterTypeOK ==
    /\ up \in SUBSET Nodes
    /\ idle \in SUBSET Nodes
    /\ nextBeat \in [Nodes -> 0..Interval]
    /\ age \in [Links -> 0..Timeout]
    /\ prio \in [Links -> Nat]
    /\ net \in SUBSET Message
    /\ faults \in 0..MaxFaults
    /\ heard \in SUBSET Links
    /\ missed \in [Links -> 0..Tolerance + 1]
    /\ downFor \in [Nodes -> 0..Longest]

ClusterInit ==
    /\ up = {}
    /\ idle = {}
    /\ nextBeat = [n \in Nodes |-> 0]
    /\ age = [l \in Links |-> Timeout]
    /\ prio = [l \in Links |-> 0]
    /\ net = {}
    /\ faults = 0
    /\ heard = {}
    /\ missed = [l \in Links |-> 0]
    /\ downFor = [n \in Nodes |-> Longest]

(***************************************************************************)
(* The election.                                                           *)
(***************************************************************************)
EffectivePriority(n) ==
    IF n \in Yielding /\ n \in idle THEN YieldPriority ELSE Priority[n]

\* Mutants: gone after two intervals; still there when the timeout is reached.
AliveTooShort(m, n) == age[<<m, n>>] < 2 * Interval
AliveTooLong(m, n) == age[<<m, n>>] <= Timeout

Alive(m, n) == age[<<m, n>>] < Timeout

Listed(m) == {m} \cup {n \in Nodes : Alive(m, n)}

\* A node takes its own priority as it is now, the others' as they told it.
Rank(m, n) == IF n = m THEN EffectivePriority(m) ELSE prio[<<m, n>>]

\* Mutant: on a tie every node prefers itself.
BeforeSelfFirst(m, n, o) ==
    Rank(m, n) > Rank(m, o) \/ (Rank(m, n) = Rank(m, o) /\ (n = m \/ (o # m /\ n < o)))

\* Highest priority first, the name breaks ties.
Before(m, n, o) == Rank(m, n) > Rank(m, o) \/ (Rank(m, n) = Rank(m, o) /\ n < o)

resolver_order(m) ==
    CHOOSE s \in [1..Cardinality(Listed(m)) -> Listed(m)] :
        \A i, j \in DOMAIN s : i < j => Before(m, s[i], s[j])

(***************************************************************************)
(* Starting and stopping.  A new process knows nobody; its first beat is   *)
(* due after one interval.                                                 *)
(***************************************************************************)
Peers(n) == Nodes \ {n}

Sent(kind, n) ==
    {[kind |-> kind, from |-> n, to |-> m, prio |-> EffectivePriority(n), age |-> 0]
        : m \in Peers(n)}

Fault == faults < MaxFaults /\ faults' = faults + 1

StartNode(n) ==
    /\ n \notin up
    /\ up' = up \cup {n}
    /\ nextBeat' = [nextBeat EXCEPT ![n] = Interval]
    /\ age' = [l \in Links |-> IF l[1] = n THEN Timeout ELSE age[l]]
    /\ heard' = {l \in heard : l[1] # n}
    /\ missed' = [l \in Links |-> IF l[1] = n THEN 0 ELSE missed[l]]
    /\ downFor' = [downFor EXCEPT ![n] = 0]
    /\ UNCHANGED <<idle, prio, net, faults>>

\* Going down, with a bye to every peer or without a word.
GoesDown(n) ==
    /\ n \in up
    /\ Fault
    /\ up' = up \ {n}
    /\ heard' = {l \in heard : l[2] # n}
    /\ UNCHANGED <<idle, nextBeat, age, prio, missed, downFor>>

StopNode(n) ==
    /\ GoesDown(n)
    /\ net' = net \cup Sent("bye", n)

Crash(n) ==
    /\ GoesDown(n)
    /\ net' = net

(***************************************************************************)
(* Messages.                                                               *)
(***************************************************************************)
Beat(n) ==
    /\ n \in up
    /\ nextBeat[n] = 0
    /\ nextBeat' = [nextBeat EXCEPT ![n] = Interval]
    /\ net' = net \cup Sent("beat", n)
    /\ UNCHANGED <<up, idle, age, prio, faults, heard, missed, downFor>>

HandleBeat(m, n, p) ==
    /\ age' = [age EXCEPT ![<<m, n>>] = 0]
    /\ prio' = [prio EXCEPT ![<<m, n>>] = p]
    /\ heard' = IF n \in up THEN heard \cup {<<m, n>>} ELSE heard \ {<<m, n>>}
    /\ missed' = [missed EXCEPT ![<<m, n>>] = 0]

HandleBye(m, n) ==
    /\ age' = [age EXCEPT ![<<m, n>>] = Timeout]
    /\ heard' = heard \ {<<m, n>>}
    /\ UNCHANGED <<prio, missed>>

\* A datagram arrives; the network may deliver it once more later.
Deliver(msg, again) ==
    /\ msg.to \in up
    /\ \/ msg.kind = "beat" /\ HandleBeat(msg.to, msg.from, msg.prio)
       \/ msg.kind = "bye" /\ HandleBye(msg.to, msg.from)
    /\ net' = IF again THEN net ELSE net \ {msg}
    /\ UNCHANGED <<up, idle, nextBeat, faults, downFor>>

Lose(msg) ==
    /\ Fault
    /\ net' = net \ {msg}
    /\ missed' = IF msg.kind = "beat" /\ missed[<<msg.to, msg.from>>] <= Tolerance
                 THEN [missed EXCEPT ![<<msg.to, msg.from>>] = @ + 1] ELSE missed
    /\ UNCHANGED <<up, idle, nextBeat, age, prio, heard, downFor>>

\* A datagram for a node that is down goes nowhere.
Unheard(msg) ==
    /\ msg.to \notin up
    /\ net' = net \ {msg}
    /\ UNCHANGED <<up, idle, nextBeat, age, prio, faults, heard, missed, downFor>>

(***************************************************************************)
(* The device falls idle, or is used again.                                *)
(***************************************************************************)
ChangeUse(n) ==
    /\ n \in Yielding
    /\ Fault
    /\ idle' = IF n \in idle THEN idle \ {n} ELSE idle \cup {n}
    /\ UNCHANGED <<up, nextBeat, age, prio, net, heard, missed, downFor>>

\* Time passes, but not past a beat that is due or a datagram's longest delay.
Least(x, y) == IF x < y THEN x ELSE y

Tick ==
    /\ \A n \in up : nextBeat[n] > 0
    /\ \A msg \in net : msg.age < MaxDelay
    /\ nextBeat' = [n \in Nodes |-> IF n \in up THEN nextBeat[n] - 1 ELSE nextBeat[n]]
    /\ age' = [l \in Links |-> Least(age[l] + 1, Timeout)]
    /\ net' = {[msg EXCEPT !.age = @ + 1] : msg \in net}
    /\ downFor' = [n \in Nodes |-> IF n \in up THEN 0 ELSE Least(downFor[n] + 1, Longest)]
    /\ UNCHANGED <<up, idle, prio, faults, heard, missed>>

Arrive == \E msg \in net : Deliver(msg, FALSE) \/ Unheard(msg)

ClusterNext ==
    \/ \E n \in Nodes : StartNode(n) \/ StopNode(n) \/ Crash(n) \/ Beat(n) \/ ChangeUse(n)
    \/ \E msg \in net : Deliver(msg, TRUE) \/ Lose(msg)
    \/ Arrive
    \/ Tick

ClusterSpec == ClusterInit /\ [][ClusterNext]_clusterVars

\* Time passes, a running node beats and a datagram that is not lost arrives.
FairClusterSpec ==
    /\ ClusterSpec
    /\ WF_clusterVars(Tick) /\ WF_clusterVars(Arrive)
    /\ \A n \in Nodes : WF_clusterVars(Beat(n))
-------------------------------------------------------------------------------
\* "Three missed beats, so a single dropped packet on a flaky link changes
\* nothing" (cluster.py:42): a running node that has been heard stays in the
\* list of a running peer while no more than Tolerance of its beats in a row
\* are lost, whatever overtakes what.
DropsTolerated ==
    \A m, n \in Nodes :
        m # n /\ m \in up /\ n \in up /\ <<m, n>> \in heard /\ missed[<<m, n>>] <= Tolerance
        => Alive(m, n)

\* A node that went away, with or without a bye, is out of every list once
\* NODE_TIMEOUT and the travel time of its last datagram are over, also when
\* an old beat arrives after the bye.
GoneInTime ==
    \A m, n \in Nodes :
        m # n /\ m \in up /\ Alive(m, n) => n \in up \/ downFor[n] < Timeout + MaxDelay

\* "every node agrees on the same ordering without needing to negotiate"
\* (cluster.py:278): once all nodes keep running and nothing more is lost or
\* changes, all hand out the same list, from then on.
Agreement ==
    <>[](up = Nodes)
        => <>[](\A m, n \in Nodes : resolver_order(m) = resolver_order(n))
================================================================================
