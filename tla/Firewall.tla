-------------------------------- MODULE Firewall --------------------------------
(***************************************************************************)
(* symbivpn/gateway/firewall.py: the ruleset of the gateway, as what it    *)
(* does with a packet.  build_ruleset() writes chains of rules of which    *)
(* the first that matches decides; here a rule is the sets of values it    *)
(* matches and its verdict, and a packet is a record of those values.      *)
(*                                                                         *)
(* An address is a network or one of two places on the internet: a public  *)
(* resolver, or anywhere else.  Ports are reduced to the services that the *)
(* rules name.                                                             *)
(***************************************************************************)
EXTENDS Integers, Sequences, FiniteSets, FiniteSetsExt

CONSTANTS
    AP,            \* the access point's interface
    Uplinks,       \* interfaces that may carry the uplink
    Tunnel,        \* the WireGuard interface
    MaxNet,        \* networks are 1..MaxNet; 0 stands for none
    Home,          \* the hotspot's own network
    Resolver,      \* a public resolver's address
    Internet,      \* any other address out there
    Isolate,       \* isolate_from_uplink
    AllowIPv6,     \* allow_ipv6
    NoRules        \* a table that does not exist

Nets == 1..MaxNet \cup {Home}
Devices == Uplinks \cup {AP, Tunnel}
Places == Nets \cup {Resolver, Internet}
Services == {"dns", "dhcp", "ntp", "dashboard", "cluster"}
Kinds == {"new4", "new6", "dot", "reply", "invalid"}
IPv4 == Kinds \ {"new6"}

\* What GatewayRules tells build_ruleset() about the topology.
Rulesets == [uplink : Uplinks, vpn : BOOLEAN, subnet : 0..MaxNet, shared : SUBSET Nets]

ASSUME PlacesAssumption ==
    /\ MaxNet \in Nat
    /\ {Home, Resolver, Internet} \cap 0..MaxNet = {}
    /\ NoRules \notin Rulesets

Out(r) == IF r.vpn THEN Tunnel ELSE r.uplink

Rule(iif, oif, src, dst, kind, verdict) ==
    <<[iif |-> iif, oif |-> oif, src |-> src, dst |-> dst, kind |-> kind,
       verdict |-> verdict]>>

When(condition, rules) == IF condition THEN rules ELSE <<>>

\* DNS over TLS, then resolvers dialled by address.
BypassRules ==
    Rule({AP}, Devices, Places, Places, {"dot"}, "reject")
    \o Rule({AP}, Devices, Places, {Resolver}, Kinds, "reject")

\* Strangers on the network the gateway joined.
IsolationRules(r) ==
    When(Isolate /\ r.subnet # 0,
         Rule({AP}, Devices, Places, {r.subnet}, IPv4, "drop"))

\* Networks that share discovery reach one another.
SharedRules(r) ==
    When(Cardinality(r.shared) > 1,
         Rule(Devices, Devices, r.shared, r.shared, IPv4, "accept"))

Ipv6Rule(r) ==
    IF AllowIPv6 THEN Rule({AP}, {Out(r)}, Places, Places, Kinds, "accept")
    ELSE Rule({AP}, Devices, Places, Places, {"new6"}, "reject")

\* Mutant: the shared networks come before the isolation.
ForwardChainSwapped(r) ==
    Rule(Devices, Devices, Places, Places, {"reply"}, "accept")
    \o Rule(Devices, Devices, Places, Places, {"invalid"}, "drop")
    \o BypassRules \o SharedRules(r) \o IsolationRules(r)
    \o Rule({AP}, {Out(r)}, Places, Places, {"new4", "dot"}, "accept")
    \o Ipv6Rule(r)
    \o Rule({AP}, {r.uplink}, Places, Places, Kinds, "drop")

\* build_ruleset(): chain forward, policy drop.
ForwardChain(r) ==
    Rule(Devices, Devices, Places, Places, {"reply"}, "accept")
    \o Rule(Devices, Devices, Places, Places, {"invalid"}, "drop")
    \o BypassRules \o IsolationRules(r) \o SharedRules(r)
    \o Rule({AP}, {Out(r)}, Places, Places, {"new4", "dot"}, "accept")
    \o Ipv6Rule(r)
    \o Rule({AP}, {r.uplink}, Places, Places, Kinds, "drop")

\* _apply_rules() and build_ruleset(): every port SymbiVPN opens, the
\* cluster's among them.
UplinkDrop == {"dns", "dhcp", "ntp", "dashboard"} \cup {"cluster"}

\* build_ruleset(): chain input, policy accept; the destination is one of
\* our own services.
InputChain(r) ==
    Rule(Devices, {AP}, Places, Services, {"reply"}, "accept")
    \o Rule({AP}, {AP}, Places, {"dns", "dhcp", "dashboard"}, Kinds, "accept")
    \o Rule({r.uplink}, {AP}, Places, UplinkDrop, Kinds, "drop")

Matches(rule, p) ==
    /\ p.iif \in rule.iif /\ p.oif \in rule.oif
    /\ p.src \in rule.src /\ p.dst \in rule.dst
    /\ p.kind \in rule.kind

\* The first rule that matches decides, else the chain's policy.
Verdict(chain, policy, p) ==
    LET hits == {i \in DOMAIN chain : Matches(chain[i], p)}
    IN IF hits = {} THEN policy ELSE chain[Min(hits)].verdict

\* What becomes of a packet to forward, given the filter table.  Without
\* the table the kernel forwards whatever it is asked to.
Forwarded(filter, p) ==
    filter = NoRules \/ Verdict(ForwardChain(filter), "drop", p) = "accept"

\* Whether a packet from a device reaches one of our own services.
Reached(filter, p) ==
    filter = NoRules \/ Verdict(InputChain(filter), "accept", p) = "accept"

Fresh == {"new4", "new6", "dot"}

FromClients ==
    {p \in [iif : {AP}, oif : Uplinks \cup {Tunnel}, src : {Home},
            dst : Places, kind : Fresh] : p.kind = "new6" => p.dst \notin Nets}

FromUplink(r) ==
    [iif : {r.uplink}, oif : {AP}, src : Places, dst : Services, kind : Fresh]

\* Clients reach the internet through the intended interface and nothing
\* else: not a public resolver, not a host of the network the gateway
\* joined, no IPv6 path around the filter, and with a tunnel configured
\* nothing but the tunnel -- save for the networks they deliberately share.
\* And nothing we serve answers the network the gateway joined.
Contains(r) ==
    /\ \A p \in FromClients : Forwarded(r, p) =>
          /\ p.dst # Resolver /\ p.kind # "dot"
          /\ Isolate => p.dst # r.subnet
          /\ p.kind = "new6" => AllowIPv6
          /\ p.oif = Out(r) \/ p.dst \in r.shared
    /\ \A p \in FromUplink(r) : ~Reached(r, p)

Containing == {r \in Rulesets : Contains(r)}
================================================================================
