-------------------------------- MODULE Gateway --------------------------------
(***************************************************************************)
(* symbivpn/gateway/manager.py, class GatewayManager, with what it drives: *)
(* the access point (hotspot.py), the kernel's tables (module Firewall)    *)
(* and its view of the interfaces (interfaces.py, networks.py).  The main  *)
(* thread starts and stops the gateway, as Application.start() and stop()  *)
(* call it; the watcher thread polls the uplink and rebuilds the rules.    *)
(*                                                                         *)
(* Every look at the kernel and every command is a step of its own, for    *)
(* the laptop moves between networks at any time and the two threads run   *)
(* the same functions.  A network the laptop joins is new: an interface    *)
(* gets an address in a network it never had.  nft fails now and then.     *)
(*                                                                         *)
(* Bounds: MaxMoves moves, MaxFailures commands that fail under the        *)
(* watcher.                                                                *)
(***************************************************************************)
EXTENDS Firewall

CONSTANTS
    NoDevice,     \* no interface
    MaxMoves,     \* bound on changes of the network
    MaxFailures   \* bound on nft commands that fail under the watcher

ASSUME DevicesAssumption ==
    /\ AP \notin Uplinks /\ Tunnel \notin Uplinks \cup {AP}
    /\ Uplinks # {} /\ NoDevice \notin Devices
    /\ MaxMoves \in Nat /\ MaxNet > MaxMoves

VARIABLES
    route,      \* the kernel: the device of the default route
    net,        \* the kernel: the network each uplink device is attached to
    nat,        \* the kernel: table ip symbivpn
    filter,     \* the kernel: table inet symbivpn_filter
    radio,      \* the access point: "off", "address" (it has one) or "on"
    services,   \* of DHCP, time and discovery, those running
    pinned,     \* hotspot.uplink, or NoDevice
    viaVpn,     \* hotspot.route_through_vpn
    state,      \* self.state
    pc,         \* where the threads are
    saw,        \* what each thread has read so far
    stopping,   \* self._stop
    outlived,   \* stop() stopped waiting for the watcher
    moves,      \* changes of the network so far
    failures,   \* failing commands so far
    raced       \* history: the rules were taken for up to date and were not

kernel == <<route, net, nat, filter>>
tables == <<nat, filter>>
ap == <<radio, services>>
settings == <<pinned, viaVpn>>
rest == <<stopping, outlived>>
bounds == <<moves, failures>>
vars == <<kernel, ap, settings, state, pc, saw, rest, bounds, raced>>

Threads == {"main", "watch"}

\* interfaces.uplink_fingerprint(): device and address of the default route.
Fingerprint == <<route, IF route = NoDevice THEN 0 ELSE net[route]>>

\* interfaces.pick_uplink(): the default route's device, or else any other
\* interface with an address.
Picks ==
    IF route # NoDevice THEN {route}
    ELSE IF \E u \in Uplinks : net[u] # 0 THEN {u \in Uplinks : net[u] # 0}
    ELSE {NoDevice}

\* What start() and _check_uplink() make of the setting.
Candidates == IF pinned # NoDevice THEN {pinned} ELSE Picks

\* _shared_networks(), from networks.discover_local_networks(): the networks
\* of all interfaces but the default route's and the uplink.
SharedNetworks(uplink) ==
    {Home} \cup ({net[u] : u \in Uplinks \ {uplink, route}} \ {0})

Blank == [uplink |-> NoDevice, finger |-> <<NoDevice, 0>>, rules |-> NoRules]

\* The laptop is on some network, or on one network twice.
Init ==
    /\ route = (CHOOSE u \in Uplinks : TRUE)
    /\ net \in [Uplinks -> {0, 1}] /\ net[route] = 1
    /\ nat = NoRules /\ filter = NoRules
    /\ radio = "off" /\ services = {}
    /\ pinned \in {NoDevice, route}
    /\ viaVpn \in BOOLEAN
    /\ state = [uplink |-> NoDevice, finger |-> <<NoDevice, 0>>, applied |-> FALSE]
    /\ pc = [t \in Threads |-> "off"]
    /\ saw = [t \in Threads |-> Blank]
    /\ stopping = FALSE /\ outlived = FALSE
    /\ moves = 0 /\ failures = 0
    /\ raced = FALSE

Goto(t, from, to) == pc[t] = from /\ pc' = [pc EXCEPT ![t] = to]
Forget(t) == saw' = [saw EXCEPT ![t] = Blank]
Saw(t, field, value) == saw' = [saw EXCEPT ![t] = [@ EXCEPT ![field] = value]]

\* An interface leaves its network or joins a new one, and the default route
\* ends up on one that has an address, or nowhere.  While the main thread is
\* applying the first rules that is a race: start() reads the fingerprint
\* only after it computed them.
Move ==
    /\ moves < MaxMoves
    /\ pc["main"] \in {"apply", "nat", "filter", "load", "record", "ready", "up"}
    /\ moves' = moves + 1
    /\ \E u \in Uplinks, n \in {0, moves + 2} : net' = [net EXCEPT ![u] = n]
    /\ route' \in {v \in Uplinks : net'[v] # 0} \cup {NoDevice}
    /\ raced' = (raced \/ pc["main"] \notin {"ready", "up"})
    /\ UNCHANGED <<tables, ap, settings, state, pc, saw, rest, failures>>

-------------------------------------------------------------------------------
(* _apply_rules(), which start() and the watcher share *)

\* The topology as it is now.
ComputeRules(t) ==
    /\ Goto(t, "apply", "nat")
    /\ Saw(t, "rules", [uplink |-> saw[t].uplink, vpn |-> viaVpn,
                        subnet |-> net[saw[t].uplink],
                        shared |-> SharedNetworks(saw[t].uplink)])
    /\ UNCHANGED <<kernel, ap, settings, state, rest, bounds, raced>>

\* firewall.teardown(), one table after the other, then `nft -f`.
Command(t) ==
    \/ /\ Goto(t, "nat", "filter")
       /\ nat' = NoRules /\ UNCHANGED filter
    \/ /\ Goto(t, "filter", "load")
       /\ filter' = NoRules /\ UNCHANGED nat
    \/ /\ Goto(t, "load", "record")
       /\ nat' = saw[t].rules /\ filter' = saw[t].rules

RunCommand(t) ==
    /\ Command(t)
    /\ UNCHANGED <<route, net, ap, settings, state, saw, rest, bounds, raced>>

\* FirewallError: start() is over, and with it the program; the watcher
\* notes it and tries again at its next turn.
CommandFails(t) ==
    /\ pc[t] \in {"nat", "filter", "load"}
    /\ \/ /\ t = "main"
          /\ pc' = [pc EXCEPT !["main"] = "failed"]
          /\ UNCHANGED <<state, failures>>
       \/ /\ t = "watch" /\ failures < MaxFailures
          /\ pc' = [pc EXCEPT !["watch"] = "sleep"]
          /\ state' = [state EXCEPT !.applied = FALSE]
          /\ failures' = failures + 1
    /\ Forget(t)
    /\ UNCHANGED <<kernel, ap, settings, rest, moves, raced>>

\* The new uplink, with the fingerprint as it is by now.
RecordRules(t) ==
    /\ Goto(t, "record", IF t = "main" THEN "ready" ELSE "settle")
    /\ state' = [uplink |-> saw[t].uplink, finger |-> Fingerprint, applied |-> TRUE]
    /\ IF t = "main" THEN Forget(t) ELSE UNCHANGED saw
    /\ UNCHANGED <<kernel, ap, settings, rest, bounds, raced>>

ApplyRules(t) == ComputeRules(t) \/ RunCommand(t) \/ CommandFails(t) \/ RecordRules(t)

-------------------------------------------------------------------------------
(* The watcher: _watch() and _check_uplink() *)

\* self._stop.wait(5).  A pinned uplink is not looked for.
WatchWakes ==
    /\ \/ Goto("watch", "sleep", "ended") /\ stopping /\ UNCHANGED saw
       \/ /\ Goto("watch", "sleep", "finger") /\ ~stopping
          /\ \E u \in Candidates : Saw("watch", "uplink", u)
    /\ UNCHANGED <<kernel, ap, settings, state, rest, bounds, raced>>

WatchReads ==
    /\ Goto("watch", "finger", "decide")
    /\ Saw("watch", "finger", Fingerprint)
    /\ UNCHANGED <<kernel, ap, settings, state, rest, bounds, raced>>

Changed ==
    \/ pinned = NoDevice /\ saw["watch"].uplink # state.uplink
    \/ saw["watch"].finger # state.finger

\* _check_uplink(): no uplink, nothing new, or new rules.  It goes by the
\* fingerprint alone: after a failure the rules are not tried again if the
\* laptop has returned to the network of the last success.
WatchDecides ==
    /\ \/ /\ Goto("watch", "decide", "sleep")
          /\ saw["watch"].uplink = NoDevice
          /\ state' = IF state.uplink = NoDevice THEN state
                      ELSE [state EXCEPT !.uplink = NoDevice,
                                         !.finger = saw["watch"].finger]
          /\ Forget("watch") /\ UNCHANGED raced
       \/ /\ Goto("watch", "decide", "sleep")
          /\ saw["watch"].uplink # NoDevice /\ ~Changed
          /\ raced' = (raced \/ ~state.applied)
          /\ Forget("watch") /\ UNCHANGED state
       \/ /\ Goto("watch", "decide", "apply")
          /\ saw["watch"].uplink # NoDevice /\ Changed
          /\ UNCHANGED <<state, saw, raced>>
    /\ UNCHANGED <<kernel, ap, settings, rest, bounds>>

\* Mutant: the fingerprint read after the rules were applied stays.
WatchSettlesLate ==
    /\ Goto("watch", "settle", "sleep")
    /\ Forget("watch")
    /\ UNCHANGED <<kernel, ap, settings, state, rest, bounds, raced>>

\* _on_uplink_change(): the fingerprint from before the rules were computed
\* replaces the one _apply_rules() stored, so that a move in between is seen.
WatchSettles ==
    /\ Goto("watch", "settle", "sleep")
    /\ state' = [state EXCEPT !.finger = saw["watch"].finger]
    /\ Forget("watch")
    /\ UNCHANGED <<kernel, ap, settings, rest, bounds, raced>>

Watch == WatchWakes \/ WatchReads \/ WatchDecides \/ ApplyRules("watch") \/ WatchSettles

-------------------------------------------------------------------------------
(* The main thread: start() *)

\* The uplink, or none and the end of the program.
StartPick ==
    /\ \/ \E u \in Candidates \ {NoDevice} :
             Goto("main", "off", "radio") /\ Saw("main", "uplink", u)
       \/ Candidates = {NoDevice} /\ Goto("main", "off", "failed") /\ UNCHANGED saw
    /\ UNCHANGED <<kernel, ap, settings, state, rest, bounds, raced>>

\* Hotspot.start(): the address, then hostapd, else NetworkManager.
StartRadio ==
    /\ \/ Goto("main", "radio", "dhcp") /\ radio' = "on"
       \/ Goto("main", "radio", "failed") /\ radio' = "address"
    /\ UNCHANGED <<kernel, services, settings, state, saw, rest, bounds, raced>>

\* DHCP, which may not get its port; time and discovery, which may not start
\* but never fail; and enable_forwarding().
StartServices ==
    /\ \/ Goto("main", "dhcp", "apply")
          /\ services' = {"dhcp", "time", "discovery"}
       \/ Goto("main", "dhcp", "failed") /\ services' \in {{}, {"dhcp"}}
    /\ UNCHANGED <<kernel, radio, settings, state, saw, rest, bounds, raced>>

\* The watcher starts; then the dashboard does, or the program ends.
StartWatch ==
    /\ \/ pc["main"] = "ready" /\ pc' = [pc EXCEPT !["main"] = "up", !["watch"] = "sleep"]
       \/ Goto("main", "ready", "failed")
    /\ UNCHANGED <<kernel, ap, settings, state, saw, rest, bounds, raced>>

Start == StartPick \/ StartRadio \/ StartServices \/ ApplyRules("main") \/ StartWatch

-------------------------------------------------------------------------------
(* The main thread: stop() *)

Shutdown ==
    /\ Goto("main", "up", "join")
    /\ stopping' = TRUE
    /\ UNCHANGED <<kernel, ap, settings, state, saw, outlived, bounds, raced>>

\* Mutant: nobody waits for the watcher.
StopServicesAtOnce ==
    /\ Goto("main", "join", "down nat")
    /\ services' = {} /\ radio' = "off"
    /\ UNCHANGED <<kernel, settings, state, saw, rest, bounds, raced>>

\* join(timeout=7): the watcher may be in the middle of a command.  Then
\* discovery, time and DHCP, and Hotspot.stop().
StopServices ==
    /\ Goto("main", "join", "down nat")
    /\ outlived' = (pc["watch"] # "ended")
    /\ services' = {} /\ radio' = "off"
    /\ UNCHANGED <<kernel, settings, state, saw, stopping, bounds, raced>>

\* firewall.teardown(), and the state with it; a command that hangs ends the
\* program here.
StopTables ==
    /\ \/ /\ Goto("main", "down nat", "down filter")
          /\ nat' = NoRules /\ UNCHANGED <<filter, state>>
       \/ /\ Goto("main", "down filter", "stopped")
          /\ filter' = NoRules /\ UNCHANGED nat
          /\ state' = [state EXCEPT !.applied = FALSE]
       \/ /\ pc["main"] \in {"down nat", "down filter"}
          /\ pc' = [pc EXCEPT !["main"] = "aborted"]
          /\ UNCHANGED <<tables, state>>
    /\ UNCHANGED <<route, net, ap, settings, saw, rest, bounds, raced>>

Stop == Shutdown \/ StopServices \/ StopTables

-------------------------------------------------------------------------------
Next == Move \/ Start \/ Watch \/ Stop

Spec == Init /\ [][Next]_vars

\* Both threads run; nobody has to stop the gateway, and the laptop moves or
\* stays as it likes.
FairSpec == Spec /\ WF_vars(Watch) /\ WF_vars(Start)

TypeOK ==
    /\ route \in Uplinks \cup {NoDevice} /\ net \in [Uplinks -> 0..MaxNet]
    /\ nat \in Rulesets \cup {NoRules} /\ filter \in Rulesets \cup {NoRules}
    /\ services \subseteq {"dhcp", "time", "discovery"}
    /\ stopping \in BOOLEAN /\ outlived \in BOOLEAN /\ raced \in BOOLEAN

-------------------------------------------------------------------------------
(* Properties *)

\* Whatever rules are in force, however often the laptop has moved, they
\* contain the clients (firewall.py:8).  The networks that share discovery
\* never open the one the gateway joined, even if a second interface is on
\* the same network (firewall.py:206).
ClientsContained == filter = NoRules \/ filter \in Containing

Settled == pc["watch"] = "sleep" /\ pc["main"] = "up"

\* The state the manager keeps is true of the kernel: while it says rules
\* are applied and nobody is applying any, both tables are there, route
\* through the tunnel if they should, and name the recorded uplink; and if
\* the recorded fingerprint is the present one, they isolate the network the
\* uplink is on now (manager.py:283).
RulesAsRecorded ==
    Settled /\ state.applied =>
        /\ filter # NoRules /\ nat = filter /\ filter.vpn = viaVpn
        /\ state.uplink \in {filter.uplink, NoDevice}
        /\ ~raced /\ route # NoDevice /\ state.finger = Fingerprint
              /\ state.uplink = route => filter.subnet = net[route]

\* When stop() has returned, nothing of the gateway is left in the kernel
\* or on the air, unless the watcher outlived the wait (manager.py:228).
StopsClean ==
    pc["main"] = "stopped" /\ ~outlived =>
        /\ nat = NoRules /\ filter = NoRules
        /\ radio = "off" /\ services = {}

\* The default route is on the uplink the rules are for, so that the
\* fingerprint tells of every change.
InView == route # NoDevice /\ pinned \in {NoDevice, route}

\* Once the laptop stays put, the rules end up being those of the network it
\* is on, though it moved while they were computed and nft failed (manager.py:9).
RulesFollow ==
    <>[](pc["main"] = "up" /\ InView /\ ~raced) =>
        <>[](filter # NoRules /\ filter.uplink = route /\ filter.subnet = net[route])
===============================================================================
