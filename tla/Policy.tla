-------------------------------- MODULE Policy --------------------------------
(***************************************************************************)
(* symbivpn/policy.py: which group a client belongs to and what the group  *)
(* says about a name, and symbivpn/compat.py: which names a device breaks  *)
(* without.  Both are functions of the configuration, of what the DHCP     *)
(* server learned about an address, and of the time.                       *)
(***************************************************************************)
EXTENDS Integers, FiniteSets

CONSTANTS
    Names,
    Groups,        \* group name -> its rules
    DefaultGroup,
    Exact,         \* address -> group, for the addresses listed as such
    ByMac,         \* hardware address -> group
    ByHostname,    \* host name -> group, for the names some pattern matches
    Networks,      \* <<addresses, prefix length, group>> triples
    NoHint,        \* nothing known about an address
    NoName,
    DayLength,     \* of a day, in the unit of the schedules
    Essential,     \* names of the essential services
    Profiles,      \* names of the device profiles that are switched on
    CompatExtra    \* compatibility.allow

Schedule == [start : 0..DayLength - 1, end : 0..DayLength - 1, days : SUBSET (0..6),
             block_all : BOOLEAN, categories : SUBSET Names]

Group == [filtering : BOOLEAN, allow : SUBSET Names, block : SUBSET Names,
          categories : SUBSET Names, schedules : SUBSET Schedule, default_deny : BOOLEAN,
          safe_search : [Names -> Names \cup {NoName}]]

Moment == [day : 0..6, time : 0..DayLength - 1]

ASSUME GroupsAssumption ==
    /\ DayLength \in Nat \ {0}
    /\ DefaultGroup \in DOMAIN Groups
    /\ \A g \in DOMAIN Groups : Groups[g] \in Group
    /\ NoName \notin Names
    /\ Essential \subseteq Names /\ Profiles \subseteq Names /\ CompatExtra \subseteq Names

\* Schedule.active_at: a window that ends before it starts wraps past
\* midnight.  The day is always that of the moment.
InWindow(start, end, time) ==
    IF start <= end THEN start <= time /\ time < end ELSE time >= start \/ time < end

ActiveAt(schedule, moment) ==
    /\ schedule.days # {} => moment.day \in schedule.days
    /\ InWindow(schedule.start, schedule.end, moment.time)

\* PolicyEngine.group_for: the address itself, then what DHCP learned about
\* it, then the most specific network; the larger name when two are equally
\* specific, which does not happen here.
Hinted(hint) ==
    IF hint = NoHint THEN {}
    ELSE IF hint.mac \in DOMAIN ByMac THEN {ByMac[hint.mac]}
    ELSE IF hint.hostname \in DOMAIN ByHostname THEN {ByHostname[hint.hostname]}
    ELSE {}

Matching(address) == {n \in Networks : address \in n[1]}

Candidates(address, hint) ==
    IF address \in DOMAIN Exact THEN {Exact[address]}
    ELSE IF Hinted(hint) # {} THEN Hinted(hint)
    ELSE {n[3] : n \in {m \in Matching(address) : \A o \in Matching(address) : o[2] <= m[2]}}

GroupFor(address, hint) ==
    LET known == Candidates(address, hint) \cap DOMAIN Groups
    IN IF known = {} THEN DefaultGroup ELSE CHOOSE g \in known : TRUE

\* PolicyEngine.evaluate.
Forbidden(group, name, moment) ==
    \/ name \in group.block
    \/ name \in group.categories
    \/ \E s \in group.schedules : ActiveAt(s, moment) /\ (s.block_all \/ name \in s.categories)
    \/ group.default_deny

Evaluate(group, name, moment) ==
    IF name \in group.allow THEN "allow"
    ELSE IF Forbidden(group, name, moment) THEN "block"
    ELSE IF group.safe_search[name] # NoName THEN "rewrite"
    ELSE "allow"

\* CompatibilityGuard: a rule added later for the same name replaces the
\* earlier one, and only those of the essential services protect.
CompatRules == Essential \cup Profiles \cup CompatExtra

IsProtected(name) == name \in Essential \ (Profiles \cup CompatExtra)
===============================================================================
