------------------------------ MODULE MCFiltering ------------------------------
(***************************************************************************)
(* A household: two groups of clients behind one filtered server.          *)
(***************************************************************************)
EXTENDS Filtering

MCDomains == {"tracker", "page", "clock"}
MCUnder == [d \in MCDomains |-> {d}]

\* What the one list serves: its rule, and in the second set nothing later on.
MCText == {[block |-> {"tracker"}, allow |-> {"tracker"}]}
MCTexts == MCText \cup {[block |-> {}, allow |-> {}]}

NoSafeSearch == [n \in MCDomains |-> "noName"]

\* From six in the evening to six in the morning, in quarters of a day.
Night == [start |-> 3, end |-> 1, days |-> {}, block_all |-> TRUE, categories |-> {}]

MCGroups ==
    [kids |-> [filtering |-> TRUE, allow |-> {}, block |-> {"clock"}, categories |-> {},
               schedules |-> {Night}, default_deny |-> FALSE,
               safe_search |-> [NoSafeSearch EXCEPT !["page"] = "tracker"]],
     adults |-> [filtering |-> TRUE, allow |-> {"page"}, block |-> {}, categories |-> {},
                 schedules |-> {}, default_deny |-> FALSE, safe_search |-> NoSafeSearch]]

MCExact == [a \in {} |-> "adults"]
MCByMac == [m \in {"tablet"} |-> "kids"]
MCByHostname == [h \in {} |-> "kids"]
MCNetworks == {<<{"lan"}, 24, "adults">>}
MCHints == {NoHint, [mac |-> "tablet", hostname |-> "tab"]}
MCMoments == {[day |-> 0, time |-> 2], [day |-> 0, time |-> 3]}

\* The page sends clients through the tracker, the clock's answer ends in a
\* private address.
MCAnswers ==
    [n \in MCDomains |->
        CASE n = "page" -> {[chain |-> <<"tracker", "page">>, private |-> FALSE]}
          [] n = "clock" -> {[chain |-> <<"tracker">>, private |-> TRUE]}
          [] OTHER -> {[chain |-> <<>>, private |-> FALSE]}]
================================================================================
