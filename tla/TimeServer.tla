------------------------------ MODULE TimeServer ------------------------------
(***************************************************************************)
(* symbivpn/gateway/timeserver.py: the SNTP server for devices that come   *)
(* up without a clock.  It drives a RateLimiter of its own.  The host's    *)
(* clock may be set, or lost, while it runs; a reply carries the host's    *)
(* time, so all that is kept of it is whether that was plausible.          *)
(***************************************************************************)
EXTENDS RateLimiter

CONSTANT
    Requests  \* datagrams: [size, version, mode]

VARIABLES
    clockGood,  \* time.time() > MINIMUM_PLAUSIBLE_TIME
    socket,     \* self._socket: "none", or "bound"
    reply       \* whether the last datagram got one

timeVars == <<bucket, lastSweep, fair, clockGood, socket, reply>>

PACKET_SIZE == 48
MODE_CLIENT == 3

TimeInit ==
    /\ RateInit
    /\ clockGood \in BOOLEAN
    /\ socket = "none"
    /\ reply = FALSE

\* The host is set by its own time service, or wakes with a flat battery.
ClockChanges ==
    /\ clockGood' = ~clockGood
    /\ UNCHANGED <<bucket, lastSweep, fair, socket, reply>>

\* start(): not with an implausible clock, and not if the port is taken; in
\* both cases it returns with nothing changed.
StartTime ==
    /\ socket = "none"
    /\ clockGood
    /\ socket' = "bound"
    /\ UNCHANGED <<bucket, lastSweep, fair, clockGood, reply>>

StopTime ==
    /\ socket = "bound"
    /\ socket' = "none"
    /\ UNCHANGED <<bucket, lastSweep, fair, clockGood, reply>>

\* build_reply() returning a packet.
BuildReply(request) ==
    /\ request.size >= PACKET_SIZE
    /\ request.mode = MODE_CLIENT
    /\ request.version \in 1..4
    /\ clockGood

\* _serve(): the limiter is charged before the packet is looked at.
ServeTime(client, request) ==
    /\ socket = "bound"
    /\ \/ /\ Allow(client)
          /\ reply' = BuildReply(request)
       \/ /\ Deny(client)
          /\ reply' = FALSE
    /\ UNCHANGED <<clockGood, socket>>

TimePasses ==
    /\ RateTick
    /\ UNCHANGED <<clockGood, socket, reply>>

TimeNext ==
    \/ TimePasses \/ ClockChanges \/ StartTime \/ StopTime
    \/ \E client \in Clients, request \in Requests : ServeTime(client, request)

TimeSpec == TimeInit /\ [][TimeNext]_timeVars
===============================================================================
