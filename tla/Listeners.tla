------------------------------- MODULE Listeners -------------------------------
(***************************************************************************)
(* symbivpn/server.py, class DNSServer: one UDP and one TCP listener       *)
(* thread, a pool of workers for each, the connection slots, and stop().   *)
(*                                                                         *)
(* A listener is split between taking something off its socket and handing *)
(* it to the pool, because stop() may run in between.  The pools hand work *)
(* out first come, first served.  A query _accept() turns down, for its    *)
(* network or its rate (module RateLimiter), leaves no trace but a         *)
(* counter: what arrives here has passed.  What a worker answers is the    *)
(* business of module Resolution: it takes its time, may record the query, *)
(* and replies or not.                                                     *)
(***************************************************************************)
EXTENDS QueryLog, FiniteSets

CONSTANTS
    Clients,         \* client addresses inside the allowed networks
    Datagrams,       \* UDP queries in flight
    Connections,     \* TCP connections
    ClientOf,        \* the client of each of them
    UdpWorkers,      \* workers
    MaxConnections,  \* tcp_max_connections
    MaxPerClient     \* tcp_max_per_client

ASSUME ClientsAssumption == ClientOf \in [Datagrams \cup Connections -> Clients]
ASSUME PoolsAssumption ==
    {UdpWorkers, MaxConnections, MaxPerClient} \subseteq Nat \ {0}

VARIABLES
    dgram,        \* where each datagram is
    udpQueue,     \* the work queue of self._pool
    conn,         \* where each connection is
    tcpQueue,     \* the work queue of self._tcp_pool
    tcpOpen,      \* self._tcp_open
    tcpPerClient, \* self._tcp_per_client, 0 for no entry
    listener,     \* the two listener threads
    pools,        \* both pools: "none", "up", "shut" or "gone" (None again)
    dnsStop       \* self._stop, set together with closing the sockets

udpVars == <<dgram, udpQueue>>
tcpVars == <<conn, tcpQueue, tcpOpen, tcpPerClient>>
dnsVars == <<udpVars, tcpVars, listener, pools, dnsStop>>

DnsTypeOK ==
    /\ dgram \in [Datagrams -> {"none", "held", "queued", "running"}]
    /\ udpQueue \in Seq(Datagrams)
    /\ conn \in [Connections -> {"none", "held", "claimed", "refused",
                                 "queued", "serving"}]
    /\ tcpQueue \in Seq(Connections)
    /\ tcpOpen \in 0..MaxConnections
    /\ tcpPerClient \in [Clients -> 0..MaxPerClient]
    /\ listener \in [{"udp", "tcp"} -> {"off", "loop", "busy", "ended"}]
    /\ pools \in {"none", "up", "shut", "gone"}
    /\ dnsStop \in BOOLEAN

DnsInit ==
    /\ dgram = [d \in Datagrams |-> "none"]
    /\ udpQueue = <<>>
    /\ conn = [k \in Connections |-> "none"]
    /\ tcpQueue = <<>>
    /\ tcpOpen = 0
    /\ tcpPerClient = [c \in Clients |-> 0]
    /\ listener = [l \in {"udp", "tcp"} |-> "off"]
    /\ pools = "none"
    /\ dnsStop = FALSE

\* start(): both pools, both sockets, both threads.
DnsStart ==
    /\ dnsStop' = FALSE
    /\ pools' = "up"
    /\ listener' = [l \in {"udp", "tcp"} |-> "loop"]
    /\ UNCHANGED <<udpVars, tcpVars>>

DgramTo(d, state) == dgram' = [dgram EXCEPT ![d] = state]
ConnTo(k, state) == conn' = [conn EXCEPT ![k] = state]
ListenerTo(l, state) == listener' = [listener EXCEPT ![l] = state]

-------------------------------------------------------------------------------
(* UDP *)

\* _serve_udp(): a datagram comes in and _accept() lets it through.
UdpReceive(d) ==
    /\ listener["udp"] = "loop" /\ ~dnsStop
    /\ dgram[d] = "none"
    /\ DgramTo(d, "held")
    /\ ListenerTo("udp", "busy")
    /\ UNCHANGED <<udpQueue, tcpVars, pools, dnsStop, logVars>>

\* _serve_udp(): hand it to the pool.  A pool that is shut raises, one that
\* is gone ends the loop: the datagram is dropped and the thread with it.
UdpSubmit(d) ==
    /\ dgram[d] = "held"
    /\ IF pools = "up"
       THEN /\ DgramTo(d, "queued")
            /\ udpQueue' = Append(udpQueue, d)
            /\ ListenerTo("udp", "loop")
       ELSE /\ DgramTo(d, "none")
            /\ ListenerTo("udp", "ended")
            /\ UNCHANGED udpQueue
    /\ UNCHANGED <<tcpVars, pools, dnsStop, logVars>>

Running == {d \in Datagrams : dgram[d] = "running"}
Serving == {k \in Connections : conn[k] = "serving"}

\* Mutant: TCP connections are served by the UDP pool.
UdpWorkerFreeShared == Cardinality(Running) + Cardinality(Serving) < UdpWorkers

UdpWorkerFree == Cardinality(Running) < UdpWorkers

UdpBegin ==
    /\ udpQueue # <<>> /\ UdpWorkerFree
    /\ DgramTo(Head(udpQueue), "running")
    /\ udpQueue' = Tail(udpQueue)
    /\ UNCHANGED <<tcpVars, listener, pools, dnsStop, logVars>>

\* _handle_udp(): the engine answers and records the query, or fails and
\* SERVFAIL goes out unrecorded.
UdpAnswer(d) ==
    /\ dgram[d] = "running"
    /\ DgramTo(d, "none")
    /\ Record \/ UNCHANGED logVars
    /\ UNCHANGED <<udpQueue, tcpVars, listener, pools, dnsStop>>

-------------------------------------------------------------------------------
(* TCP *)

\* _serve_tcp(): accept() and _accept().  Only the connection is charged to
\* the limiter, not the queries that follow on it.
TcpAccept(k) ==
    /\ listener["tcp"] = "loop" /\ ~dnsStop
    /\ conn[k] = "none"
    /\ ConnTo(k, "held")
    /\ ListenerTo("tcp", "busy")
    /\ UNCHANGED <<tcpQueue, tcpOpen, tcpPerClient, udpVars, pools, dnsStop, logVars>>

SlotFree(c) == tcpOpen < MaxConnections /\ tcpPerClient[c] < MaxPerClient

\* _claim_tcp_slot(), under its lock.
TcpClaim(k) ==
    /\ conn[k] = "held"
    /\ IF pools = "gone"
       THEN /\ ConnTo(k, "none")
            /\ ListenerTo("tcp", "ended")
            /\ UNCHANGED <<tcpOpen, tcpPerClient>>
       ELSE IF SlotFree(ClientOf[k])
       THEN /\ ConnTo(k, "claimed")
            /\ tcpOpen' = tcpOpen + 1
            /\ tcpPerClient' = [tcpPerClient EXCEPT ![ClientOf[k]] = @ + 1]
            /\ UNCHANGED listener
       ELSE /\ ConnTo(k, "refused")
            /\ UNCHANGED <<tcpOpen, tcpPerClient, listener>>
    /\ UNCHANGED <<tcpQueue, udpVars, pools, dnsStop, logVars>>

TcpTurnAway(k) ==
    /\ conn[k] = "refused"
    /\ ConnTo(k, "none")
    /\ ListenerTo("tcp", "loop")
    /\ UNCHANGED <<tcpQueue, tcpOpen, tcpPerClient, udpVars, pools, dnsStop, logVars>>

\* _serve_tcp(): hand it to the pool.  One that is shut raises: the thread
\* ends and the slot is never given back.
TcpSubmit(k) ==
    /\ conn[k] = "claimed"
    /\ IF pools = "up"
       THEN /\ ConnTo(k, "queued")
            /\ tcpQueue' = Append(tcpQueue, k)
            /\ ListenerTo("tcp", "loop")
       ELSE /\ ConnTo(k, "none")
            /\ ListenerTo("tcp", "ended")
            /\ UNCHANGED tcpQueue
    /\ UNCHANGED <<tcpOpen, tcpPerClient, udpVars, pools, dnsStop, logVars>>

\* The pool is as large as the connection ceiling (start()).
TcpWorkerFree == Cardinality(Serving) < MaxConnections

TcpBegin ==
    /\ tcpQueue # <<>> /\ TcpWorkerFree
    /\ ConnTo(Head(tcpQueue), "serving")
    /\ tcpQueue' = Tail(tcpQueue)
    /\ UNCHANGED <<tcpOpen, tcpPerClient, udpVars, listener, pools, dnsStop, logVars>>

\* _handle_tcp(): one query is read, answered and recorded.
TcpExchange(k) ==
    /\ conn[k] = "serving" /\ ~dnsStop
    /\ Record
    /\ UNCHANGED <<tcpVars, udpVars, listener, pools, dnsStop>>

Less(n) == IF n > 0 THEN n - 1 ELSE 0

\* Mutant: the client's own count is left alone.
TcpEndHalf(k) ==
    /\ conn[k] = "serving"
    /\ ConnTo(k, "none")
    /\ tcpOpen' = Less(tcpOpen)
    /\ UNCHANGED <<tcpPerClient, tcpQueue, udpVars, listener, pools, dnsStop, logVars>>

\* _handle_tcp(), how it ends: the client hangs up, says nothing for too
\* long or talks nonsense, no answer can be made or sent, or the server is
\* stopping.  Then _release_tcp_slot(), under its lock.
TcpEnd(k) ==
    /\ conn[k] = "serving"
    /\ ConnTo(k, "none")
    /\ tcpOpen' = Less(tcpOpen)
    /\ tcpPerClient' = [tcpPerClient EXCEPT ![ClientOf[k]] = Less(@)]
    /\ UNCHANGED <<tcpQueue, udpVars, listener, pools, dnsStop, logVars>>

-------------------------------------------------------------------------------
(* stop() *)

\* A listener that finds its socket closed leaves.
ListenerLeaves(l) ==
    /\ listener[l] = "loop" /\ dnsStop
    /\ ListenerTo(l, "ended")
    /\ UNCHANGED <<udpVars, tcpVars, pools, dnsStop, logVars>>

DnsStopSet ==
    /\ dnsStop' = TRUE
    /\ UNCHANGED <<udpVars, tcpVars, listener, pools>>

\* shutdown(wait=False, cancel_futures=True): what no worker has begun is
\* dropped, what one has begun goes on.
DnsShutPools ==
    /\ pools' = "shut"
    /\ udpQueue' = <<>>
    /\ tcpQueue' = <<>>
    /\ dgram' = [d \in Datagrams |->
                    IF dgram[d] = "queued" THEN "none" ELSE dgram[d]]
    /\ conn' = [k \in Connections |->
                    IF conn[k] = "queued" THEN "none" ELSE conn[k]]
    /\ UNCHANGED <<tcpOpen, tcpPerClient, listener, dnsStop>>

DnsReset ==
    /\ pools' = "gone"
    /\ tcpOpen' = 0
    /\ tcpPerClient' = [c \in Clients |-> 0]
    /\ UNCHANGED <<udpVars, conn, tcpQueue, listener, dnsStop>>

DnsThreads ==
    \/ \E d \in Datagrams : UdpReceive(d) \/ UdpSubmit(d) \/ UdpAnswer(d)
    \/ UdpBegin
    \/ \E k \in Connections :
          \/ TcpAccept(k) \/ TcpClaim(k) \/ TcpTurnAway(k) \/ TcpSubmit(k)
          \/ TcpExchange(k) \/ TcpEnd(k)
    \/ TcpBegin
    \/ \E l \in {"udp", "tcp"} : ListenerLeaves(l)
===============================================================================
