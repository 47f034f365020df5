--------------------------------- MODULE DHCP ---------------------------------
(***************************************************************************)
(* symbivpn/gateway/dhcp.py, class DHCPServer: the lease table of the      *)
(* hotspot, its copy on disk, and what the devices believe they hold.      *)
(*                                                                         *)
(* One thread answers the packets, one after the other, so handling one is *)
(* a step.  The reply leaves after the table was saved; it may be lost.    *)
(* The server may be stopped or crash and start again from the file.       *)
(*                                                                         *)
(* A sender is a <<key, mac>> pair: the table is keyed by the client       *)
(* identifier, or by the hardware address when there is none.  Host names, *)
(* options and the wire format are left out.                               *)
(***************************************************************************)
EXTENDS Integers, FiniteSets

CONSTANTS
    Keys, Macs,
    Senders,       \* the devices: pairs of a key and a hardware address
    Subnet,        \* the addresses of the subnet, as numbers
    Pool,          \* the window between first_offset and last_offset
    ServerIP,      \* config.server_ip
    Foreign,       \* addresses of other networks a client may ask for
    HoldTime,      \* OFFER_HOLD_SECONDS
    LeaseTime,     \* lease_seconds
    NoLease, NoIP,
    MaxTime        \* bound on the clock, for TLC

ASSUME SendersAssumption == Senders \subseteq Keys \X Macs
ASSUME AddressAssumption ==
    /\ Subnet \subseteq Nat /\ Foreign \subseteq Nat
    /\ Pool \subseteq Subnet /\ ServerIP \in Subnet \ Pool
    /\ NoIP \notin Subnet \cup Foreign
ASSUME TimesAssumption ==
    /\ HoldTime \in Nat \ {0} /\ LeaseTime \in Nat \ {0} /\ MaxTime \in Nat

VARIABLES
    leases,  \* self.leases
    file,    \* the lease file
    failed,  \* history: a save has failed
    held,    \* what each device believes: its address and until when
    now      \* time.time()

dhcpVars == <<leases, file, failed, held, now>>

Lease == [ip : Subnet, mac : Macs, expires : Nat]
Belief == [ip : Subnet, until : Nat]

ASSUME NoLeaseAssumption == NoLease \notin Lease \cup Belief

DhcpTypeOK ==
    /\ leases \in [Keys -> Lease \cup {NoLease}]
    /\ file \in [Keys -> Lease \cup {NoLease}]
    /\ failed \in BOOLEAN
    /\ held \in [Senders -> Belief \cup {NoLease}]
    /\ now \in Nat

\* The clock is never 0, so that the 0 of a released lease is in the past.
DhcpInit ==
    /\ leases = [k \in Keys |-> NoLease]
    /\ file = [k \in Keys |-> NoLease]
    /\ failed = FALSE
    /\ held = [s \in Senders |-> NoLease]
    /\ now = 1

Active(k) == leases[k] # NoLease /\ leases[k].expires > now

(***************************************************************************)
(* _allocate(): the client's own entry whatever its age; else the address  *)
(* it asked for, the first free one of the pool, or the one that expired   *)
(* longest ago.  Allocations is the set of possible tables (leases that    *)
(* expired together are reclaimed in either order), empty when there is no *)
(* address.                                                                *)
(***************************************************************************)
Taken == {leases[k].ip : k \in {j \in Keys : Active(j)}}

Free == Pool \ Taken

LowestFree == {a \in Free : \A b \in Free : a <= b}

InPool(ip) == ip \in Subnet

Reserve(table, k, mac, ip) ==
    [table EXCEPT ![k] = [ip |-> ip, mac |-> mac, expires |-> now + HoldTime]]

Expired == {k \in Keys : leases[k] # NoLease /\ leases[k].expires <= now}

\* Mutant: unexpired entries are reclaimed like expired ones.
LongestHeld ==
    LET present == {k \in Keys : leases[k] # NoLease}
    IN {k \in present : \A j \in present : leases[k].expires <= leases[j].expires}

LongestExpired == {k \in Expired : \A j \in Expired : leases[k].expires <= leases[j].expires}

Allocations(k, mac, requested) ==
    IF leases[k] # NoLease THEN {leases}
    ELSE IF requested # NoIP /\ requested \notin Taken /\ InPool(requested)
    THEN {Reserve(leases, k, mac, requested)}
    ELSE IF Free # {}
    THEN {Reserve(leases, k, mac, ip) : ip \in LowestFree}
    ELSE {Reserve([leases EXCEPT ![j] = NoLease], k, mac, leases[j].ip) : j \in LongestExpired}

(***************************************************************************)
(* The packets of handle().                                                *)
(***************************************************************************)
\* An OSError is logged and the old file stays.
Save(table) ==
    \/ file' = table /\ failed' = failed
    \/ file' = file /\ failed' = TRUE

Discover(s, requested) ==
    /\ leases' \in Allocations(s[1], s[2], requested)
    /\ UNCHANGED <<file, failed, held, now>>

\* The client took another server's offer: it no longer uses ours.
RequestElsewhere(s) ==
    /\ leases' = IF leases[s[1]] # NoLease /\ leases[s[1]].mac = s[2]
                 THEN [leases EXCEPT ![s[1]] = NoLease] ELSE leases
    /\ held' = [held EXCEPT ![s] = NoLease]
    /\ UNCHANGED <<file, failed, now>>

Confirmed(table, k) == [table EXCEPT ![k].expires = now + LeaseTime]

\* Mutant: the lease is acknowledged before it is on disk.
RequestAckUnsaved(s, requested, delivered) ==
    \E table \in Allocations(s[1], s[2], requested) :
        /\ requested = NoIP \/ requested = table[s[1]].ip
        /\ leases' = Confirmed(table, s[1])
        /\ held' = IF delivered
                   THEN [held EXCEPT ![s] = [ip |-> table[s[1]].ip, until |-> now + LeaseTime]]
                   ELSE held
        /\ UNCHANGED <<file, failed, now>>

RequestAck(s, requested, delivered) ==
    \E table \in Allocations(s[1], s[2], requested) :
        /\ requested = NoIP \/ requested = table[s[1]].ip
        /\ leases' = Confirmed(table, s[1])
        /\ Save(leases')
        /\ held' = IF delivered
                   THEN [held EXCEPT ![s] = [ip |-> table[s[1]].ip, until |-> now + LeaseTime]]
                   ELSE held
        /\ UNCHANGED now

\* NAK: no address at all, or not the one asked for.  What _allocate did to
\* the table stays.
RequestNak(s, requested, delivered) ==
    /\ \/ \E table \in Allocations(s[1], s[2], requested) :
             /\ requested # NoIP /\ requested # table[s[1]].ip
             /\ leases' = table
       \/ /\ Allocations(s[1], s[2], requested) = {}
          /\ leases' = leases
    /\ held' = IF delivered THEN [held EXCEPT ![s] = NoLease] ELSE held
    /\ UNCHANGED <<file, failed, now>>

Release(s) ==
    /\ leases' = IF leases[s[1]] # NoLease
                 THEN [leases EXCEPT ![s[1]].expires = 0] ELSE leases
    /\ Save(leases')
    /\ held' = [held EXCEPT ![s] = NoLease]
    /\ UNCHANGED now

\* stop() saves the table; the next start reads it back.
DhcpStop ==
    /\ Save(leases)
    /\ leases' = file'
    /\ UNCHANGED <<held, now>>

Crash ==
    /\ leases' = file
    /\ UNCHANGED <<file, failed, held, now>>

Tick ==
    /\ now < MaxTime
    /\ now' = now + 1
    /\ UNCHANGED <<leases, file, failed, held>>

Asked == Subnet \cup Foreign \cup {NoIP}

\* The packets that look for an address.
Ask(s) ==
    \E requested \in Asked :
        \/ Discover(s, requested)
        \/ \E delivered \in BOOLEAN : \/ RequestAck(s, requested, delivered)
                                      \/ RequestNak(s, requested, delivered)

DhcpNext ==
    \/ \E s \in Senders : Ask(s)
    \/ \E s \in Senders : RequestElsewhere(s) \/ Release(s)
    \/ DhcpStop
    \/ Crash
    \/ Tick

DhcpSpec == DhcpInit /\ [][DhcpNext]_dhcpVars
-------------------------------------------------------------------------------
Using(s) == held[s] # NoLease /\ held[s].until > now

\* A promise outlives a crash: for as long as a device may use the address it
\* was acknowledged, the table and the file both hold it for that device, for
\* at least that long.  Needs a disk that works and one device per key.
PromiseKept ==
    ~failed => \A s \in Senders : Using(s) =>
        \A table \in {leases, file} :
            /\ table[s[1]] # NoLease
            /\ table[s[1]].ip = held[s].ip
            /\ table[s[1]].expires >= held[s].until

NewEntry(s) == leases[s[1]] = NoLease /\ leases'[s[1]] # NoLease /\ Ask(s)

\* While the pool has a free address, a device new to the table never gets one
\* that an unexpired entry holds, be it leased or only offered (dhcp.py:30).
NewEntryIsFree ==
    [][\A s \in Senders : NewEntry(s) /\ Free # {} => leases'[s[1]].ip \notin Taken]_dhcpVars

\* An unexpired entry, leased or only offered, loses its address only by a
\* restart or because the device it was made for went to another server:
\* neither another device in need of an address nor one that sends the same
\* client identifier takes it away (dhcp.py:453).
OfferHeld ==
    [][\A k \in Keys :
         Active(k) /\ (leases'[k] = NoLease \/ leases'[k].ip # leases[k].ip)
         => DhcpStop \/ Crash \/ RequestElsewhere(<<k, leases[k].mac>>)]_dhcpVars

\* "two devices joining at the same moment are offered the same address" is
\* what the hold is there to prevent (dhcp.py:30), and
\* test_different_devices_get_different_addresses: no two devices use one
\* address.
UniqueAddress ==
    \A s, t \in Senders : s # t /\ Using(s) /\ Using(t) => held[s].ip # held[t].ip
===============================================================================
