------------------------------- MODULE Reflector -------------------------------
(***************************************************************************)
(* symbivpn/gateway/reflector.py: discovery packets are copied between the *)
(* networks of a gateway.  Two gateways that join the same networks feed   *)
(* each other's copies back; the own-address check does not know the other *)
(* gateway's, so only the memory of recent packets ends the circle.        *)
(*                                                                         *)
(* A packet in flight is on its way to one gateway and takes at most       *)
(* MaxDelay ticks, or is lost.  IP_MULTICAST_LOOP is off: a gateway does   *)
(* not receive its own transmissions on the network it sends them to.      *)
(* Groups differ only in their sockets; there is one here.  The per-source *)
(* limiter may drop a packet at any time, and the different packets it     *)
(* lets through in one window are at most Volume.  The memory keeps the    *)
(* age of an entry, up to the window, where entries cease to matter.       *)
(***************************************************************************)
EXTENDS Integers, FiniteSets

CONSTANTS
    Boxes,          \* gateways running a reflector
    Networks,       \* interfaces in play, the same for both
    Payloads,       \* packets devices send; groups and payloads tell digests apart
    Device,         \* the sender address of a device
    Window,         \* DEDUPE_SECONDS in ticks
    MaxRemembered,  \* MAX_REMEMBERED
    MaxDelay,       \* ticks a packet spends on a network at most
    Volume,         \* packets the limiter lets through in one window
    MaxSends        \* bound: packets the devices send

ASSUME ReflectorAssumption ==
    /\ Window \in Nat /\ MaxDelay \in Nat /\ MaxRemembered \in Nat \ {0}
    /\ IsFiniteSet(Boxes)
    /\ Cardinality(Boxes) * MaxDelay < Window  \* through all of them inside the window
    /\ Volume \in Nat /\ Volume <= MaxRemembered  \* what is young is never forgotten

VARIABLES
    open,   \* open[b]: the networks b has a socket on; {} when not running
    seen,   \* seen[b]: self._seen, the age of each digest
    air,    \* packets on their way
    sends   \* packets sent by devices so far

reflectVars == <<open, seen, air, sends>>

ReflectorInit ==
    /\ open = [b \in Boxes |-> {}]
    /\ seen = [b \in Boxes |-> <<>>]
    /\ air = {}
    /\ sends = 0

\* start() opens what it can; with fewer than two networks it does nothing.
StartReflector(b) ==
    /\ open[b] = {}
    /\ Cardinality(Networks) >= 2
    /\ \E opened \in SUBSET Networks \ {{}} : open' = [open EXCEPT ![b] = opened]
    /\ UNCHANGED <<seen, air, sends>>

\* stop() closes the sockets; the memory stays with the object.
StopReflector(b) ==
    /\ open[b] # {}
    /\ open' = [open EXCEPT ![b] = {}]
    /\ UNCHANGED <<seen, air, sends>>

On(network, payload, sender, receivers) ==
    {[to |-> b, network |-> network, payload |-> payload, sender |-> sender, age |-> 0] : b \in receivers}

\* A device announces itself or asks.
DeviceSends(network, payload) ==
    /\ sends < MaxSends
    /\ sends' = sends + 1
    /\ air' = air \cup On(network, payload, Device, Boxes)
    /\ UNCHANGED <<open, seen>>

Young(memory) == {p \in DOMAIN memory : memory[p] < Window}

\* Mutant: the memory is asked about the second just past.
RecentBriefly(b, payload) == payload \in DOMAIN seen[b] /\ seen[b][payload] < 1

Recent(b, payload) == payload \in Young(seen[b])

\* The newest half, ties broken either way.
Halves(memory) ==
    {S \in SUBSET DOMAIN memory :
        /\ Cardinality(S) = MaxRemembered \div 2
        /\ \A p \in S, q \in DOMAIN memory \ S : memory[p] <= memory[q]}

\* _already_seen() on a new packet: remember it, then trim by age and, if
\* that is not enough, by half.
Remembered(b, payload) ==
    LET all   == [p \in DOMAIN seen[b] \cup {payload} |-> IF p = payload THEN 0 ELSE seen[b][p]]
        young == [p \in Young(all) |-> all[p]]
    IN  IF Cardinality(DOMAIN all) <= MaxRemembered THEN {all}
        ELSE IF Cardinality(DOMAIN young) <= MaxRemembered THEN {young}
        ELSE {[p \in S |-> young[p]] : S \in Halves(young)}

\* The sockets of the other networks; a send on one of them may fail.
Copies(b, packet) ==
    {UNION {On(n, packet.payload, b, Boxes \ {b}) : n \in out} :
        out \in SUBSET (open[b] \ {packet.network})}

\* _reflect() sends the packet on.
ReflectPacket(packet) ==
    LET b == packet.to
    IN  /\ packet.network \in open[b]
        /\ packet.sender # b
        /\ Cardinality(Young(seen[b]) \cup {packet.payload}) <= Volume
        /\ ~Recent(b, packet.payload)
        /\ \E memory \in Remembered(b, packet.payload) : seen' = [seen EXCEPT ![b] = memory]
        /\ \E copies \in Copies(b, packet) : air' = (air \ {packet}) \cup copies
        /\ UNCHANGED <<open, sends>>

\* The packet ends here: lost, no socket, our own, rate limited or a duplicate.
DropPacket(packet) ==
    /\ air' = air \ {packet}
    /\ UNCHANGED <<open, seen, sends>>

\* Time passes, but no packet stays on a network longer than MaxDelay.
ReflectorTick ==
    /\ \A p \in air : p.age < MaxDelay
    /\ air' = {[p EXCEPT !.age = @ + 1] : p \in air}
    /\ seen' = [b \in Boxes |->
        [p \in DOMAIN seen[b] |-> IF seen[b][p] < Window THEN seen[b][p] + 1 ELSE Window]]
    /\ UNCHANGED <<open, sends>>

ReflectorNext ==
    \/ ReflectorTick
    \/ \E b \in Boxes : StartReflector(b) \/ StopReflector(b)
    \/ \E n \in Networks, p \in Payloads : DeviceSends(n, p)
    \/ \E packet \in air : ReflectPacket(packet) \/ DropPacket(packet)

ReflectorSpec == ReflectorInit /\ [][ReflectorNext]_reflectVars

\* A packet is received in the end.
Received == \E packet \in air : ReflectPacket(packet) \/ DropPacket(packet)

\* Nothing circulates for ever between two gateways that do not know each
\* other's addresses: once the devices fall silent, so do the networks
\* (reflector.py:259).
StormEnds == <>[](air = {})
===============================================================================
