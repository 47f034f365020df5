------------------------------- MODULE Filtering -------------------------------
(***************************************************************************)
(* symbivpn/engine.py, FilterEngine.handle: the decisions one query goes   *)
(* through, from the group's policy over the blocklists, safe search, the  *)
(* local zones and the cache to the checks on what upstream returned.      *)
(*                                                                         *)
(* The rules in force are those of Blocklists, which rebuilds and edits    *)
(* them while queries are decided: each look at self.allow, self.block and *)
(* the cache is a step of its own.  How the cache and upstream work is     *)
(* Resolution's business; here a lookup returns one of the answers the     *)
(* name may have, or fails.  An answer is the chain of names it goes       *)
(* through and whether it ends in a private address.                       *)
(***************************************************************************)
EXTENDS Blocklists, Policy, Sequences

CONSTANTS
    Queries,       \* worker threads, one query each at a time
    Addresses,     \* of the clients
    Hints,         \* what DHCP may learn about one
    Moments,       \* the times a query may come at
    Answers,       \* name -> the answers upstream may give for it
    NoAnswer,
    LocalNames,    \* names of the local zones and of DHCP hosts
    RebindAllow    \* engine.rebinding_allow, and public reverse names

ASSUME FilteringAssumption ==
    /\ Names = Domains /\ Names # {}
    /\ \A n \in Names : Answers[n] \subseteq [chain : Seq(Names), private : BOOLEAN]
    /\ \A n \in Names : NoAnswer \notin Answers[n]
    /\ Moments \subseteq Moment
    /\ NoHint \in Hints
    /\ LocalNames \subseteq Names /\ RebindAllow \subseteq Names

VARIABLES
    cache,   \* the answer cached for each name, or kept in the cache file
    query,   \* where each query is
    best     \* history: the kindest the rules were to each name meanwhile

vars == <<ruleVars, cache, query, best>>

Answer0 == {NoAnswer} \cup UNION {Answers[n] : n \in Names}

Query == [pc : {"idle", "allowed", "blocked", "rewrite", "cache", "resolve", "hop", "hopBlocked",
                "done"},
          name : Names, group : DOMAIN Groups, answer : Answer0, hop : Nat,
          outcome : {"none", "silent", "error", "canary", "block", "rewrite", "local", "cached",
                     "fetched", "rebinding"}]

TypeOK ==
    /\ RulesTypeOK
    /\ cache \in [Names -> Answer0]
    /\ \A n \in Names : cache[n] \in {NoAnswer} \cup Answers[n]
    /\ query \in [Queries -> Query]
    /\ best \in [Queries -> [Names -> {"blocked", "open", "allowed"}]]

NoQuery == [pc |-> "idle", name |-> CHOOSE n \in Names : TRUE, group |-> DefaultGroup,
            answer |-> NoAnswer, hop |-> 1, outcome |-> "none"]

Standing(allowed, blocked, n) ==
    IF Match(allowed, n) THEN "allowed" ELSE IF Match(blocked, n) THEN "blocked" ELSE "open"

Kinder(x, y) == IF "allowed" \in {x, y} THEN "allowed" ELSE IF "open" \in {x, y} THEN "open" ELSE "blocked"

Init ==
    /\ RulesInit
    /\ cache = [n \in Names |-> NoAnswer]
    /\ query = [q \in Queries |-> NoQuery]
    /\ best = [q \in Queries |-> [n \in Names |-> "blocked"]]

\* The history of the queries under way: how the rules stood to each name.
Watch ==
    best' = [q \in Queries |-> [n \in Names |->
                IF query'[q].pc = "idle" THEN "blocked"
                ELSE IF query[q].pc = "done" THEN best[q][n]
                ELSE Kinder(best[q][n], Standing(allow', block', n))]]

(***************************************************************************)
(* FilterEngine.handle.                                                    *)
(***************************************************************************)
Goes(q, pc) == query' = [query EXCEPT ![q].pc = pc]

Done(q, outcome) ==
    query' = [query EXCEPT ![q].pc = "done", ![q].outcome = outcome, ![q].hop = 1]

\* A packet that is no plain question: malformed packets and responses get no
\* reply, an unknown opcode, an unparsable question, another class and ANY an
\* error, Firefox's canary NXDOMAIN.
NoQuestion(q, outcome) ==
    /\ phase = "serving" /\ query[q].pc = "idle"
    /\ query' = [query EXCEPT ![q] = [NoQuery EXCEPT !.pc = "done", !.outcome = outcome]]
    /\ UNCHANGED <<ruleVars, cache>>

\* The policy decides, but not over an essential service.  The hint is what the
\* DHCP server has told about the address by now, which may be nothing.
Begin(q, address, hint, name, moment) ==
    LET group == GroupFor(address, hint)
        decision == Evaluate(Groups[group], name, moment)
        start == [NoQuery EXCEPT !.name = name, !.group = group]
    IN /\ phase = "serving" /\ query[q].pc = "idle"
       /\ query' = [query EXCEPT ![q] =
             IF IsProtected(name) THEN [start EXCEPT !.pc = "cache"]
             ELSE IF decision = "block" THEN [start EXCEPT !.pc = "done", !.outcome = "block"]
             ELSE IF decision = "rewrite" THEN [start EXCEPT !.pc = "rewrite"]
             ELSE IF Groups[group].filtering THEN [start EXCEPT !.pc = "allowed"]
             ELSE [start EXCEPT !.pc = "cache"]]
       /\ UNCHANGED <<ruleVars, cache>>

IsAllowed(q) ==
    /\ query[q].pc = "allowed"
    /\ IF Match(allow, query[q].name) \/ query[q].name \in CompatRules
       THEN Goes(q, "cache") ELSE Goes(q, "blocked")
    /\ UNCHANGED <<ruleVars, cache>>

\* Mutant: a look at the rules that lets an already cached name through.
IsBlockedUnlessCached(q) ==
    /\ query[q].pc = "blocked"
    /\ IF Match(block, query[q].name) /\ cache[query[q].name] = NoAnswer
       THEN Done(q, "block") ELSE Goes(q, "cache")
    /\ UNCHANGED <<ruleVars, cache>>

IsBlocked(q) ==
    /\ query[q].pc = "blocked"
    /\ IF Match(block, query[q].name) THEN Done(q, "block") ELSE Goes(q, "cache")
    /\ UNCHANGED <<ruleVars, cache>>

\* _rewrite: the answer of the safe-search name, from the cache or upstream.
\* Without one, and for other record types, the query goes on as it was.
Rewrite(q) ==
    LET target == Groups[query[q].group].safe_search[query[q].name]
    IN /\ query[q].pc = "rewrite"
       /\ \/ /\ cache[target] # NoAnswer
             /\ Done(q, "rewrite") /\ cache' = cache
          \/ /\ cache[target] = NoAnswer
             /\ \E answer \in Answers[target] : cache' = [cache EXCEPT ![target] = answer]
             /\ Done(q, "rewrite")
          \/ Goes(q, "cache") /\ cache' = cache
       /\ UNCHANGED ruleVars

\* _answer_locally, then the cache, whose answer is not looked at again.
CacheGet(q) ==
    LET name == query[q].name
    IN /\ query[q].pc = "cache"
       /\ query' = IF name \in LocalNames
                   THEN [query EXCEPT ![q].pc = "done", ![q].outcome = "local"]
                   ELSE IF cache[name] # NoAnswer
                   THEN [query EXCEPT ![q].pc = "done", ![q].outcome = "cached",
                                      ![q].answer = cache[name]]
                   ELSE [query EXCEPT ![q].pc = "resolve"]
       /\ UNCHANGED <<ruleVars, cache>>

\* _rebinding_block, and the end of handle().
Verdict(name, answer) ==
    IF answer.private /\ name \notin RebindAllow THEN "rebinding" ELSE "fetched"

\* Mutant: the chain of every answer to a filtered group is looked at.
UncloaksEssential(q) == Groups[query[q].group].filtering

Uncloaks(q) == Groups[query[q].group].filtering /\ ~IsProtected(query[q].name)

\* _resolve: the answer is cached before it is checked, unless the client
\* validates it itself (CD).
Fetch(q, answer, stored) ==
    LET name == query[q].name
        look == Uncloaks(q) /\ answer.chain # <<>>
    IN /\ query[q].pc = "resolve"
       /\ cache' = IF stored THEN [cache EXCEPT ![name] = answer] ELSE cache
       /\ query' = [query EXCEPT ![q].answer = answer,
                        ![q].pc = IF look THEN "hop" ELSE "done",
                        ![q].outcome = IF look THEN "none" ELSE Verdict(name, answer)]
       /\ UNCHANGED ruleVars

\* Upstream fails, and there is no stale answer either.
Fail(q) ==
    /\ query[q].pc = "resolve"
    /\ Done(q, "error")
    /\ UNCHANGED <<ruleVars, cache>>

\* _cname_block, one name of the chain after the other.
Hop(q) == query[q].answer.chain[query[q].hop]

HopAllowed(q) ==
    /\ query[q].pc = "hop"
    /\ IF Match(allow, Hop(q)) THEN Done(q, Verdict(query[q].name, query[q].answer))
                               ELSE Goes(q, "hopBlocked")
    /\ UNCHANGED <<ruleVars, cache>>

\* Mutant: only the last name of the chain is looked at.
HopBlockedLast(q) ==
    /\ query[q].pc = "hopBlocked"
    /\ IF Match(block, Hop(q)) /\ query[q].hop > 1 THEN Done(q, "block")
       ELSE IF query[q].hop < Len(query[q].answer.chain)
       THEN query' = [query EXCEPT ![q].pc = "hop", ![q].hop = @ + 1]
       ELSE Done(q, Verdict(query[q].name, query[q].answer))
    /\ UNCHANGED <<ruleVars, cache>>

HopBlocked(q) ==
    /\ query[q].pc = "hopBlocked"
    /\ IF Match(block, Hop(q)) THEN Done(q, "block")
       ELSE IF query[q].hop < Len(query[q].answer.chain)
       THEN query' = [query EXCEPT ![q].pc = "hop", ![q].hop = @ + 1]
       ELSE Done(q, Verdict(query[q].name, query[q].answer))
    /\ UNCHANGED <<ruleVars, cache>>

Reply(q) ==
    /\ query[q].pc = "done"
    /\ query' = [query EXCEPT ![q] = NoQuery]
    /\ UNCHANGED <<ruleVars, cache>>

QueryStep(q) ==
    \/ \E outcome \in {"silent", "error", "canary"} : NoQuestion(q, outcome)
    \/ \E address \in Addresses, hint \in Hints, name \in Names, moment \in Moments :
          Begin(q, address, hint, name, moment)
    \/ IsAllowed(q) \/ IsBlocked(q) \/ Rewrite(q) \/ CacheGet(q)
    \/ \E answer \in Answers[query[q].name], stored \in BOOLEAN : Fetch(q, answer, stored)
    \/ Fail(q) \/ HopAllowed(q) \/ HopBlocked(q) \/ Reply(q)

(***************************************************************************)
(* Around the queries: what rebuilds and edits drop from the cache, entries*)
(* that expire, refreshes in the background, the end of the process.       *)
(***************************************************************************)
Dropped(names) == [n \in Names |-> IF n \in names THEN NoAnswer ELSE cache[n]]

\* A start-up loads the cache file only after it has dropped these answers.
FlushAfterLoad(l) ==
    /\ EndLoad(l)
    /\ cache' = IF phase = "loading" THEN cache
                ELSE Dropped(loader[l].local.block \cup loader[l].local.allow)
    /\ UNCHANGED query

FlushAfterEdit(e) ==
    /\ EndEdit(e)
    /\ cache' = Dropped({editor[e].domain})
    /\ UNCHANGED query

\* Expiry, eviction, or a flush from the dashboard.
Expire(n) ==
    /\ phase = "serving" /\ cache[n] # NoAnswer
    /\ cache' = Dropped({n})
    /\ UNCHANGED <<ruleVars, query>>

\* A popular entry is refreshed in the background, or a cluster node shares it.
Refresh(n, answer) ==
    /\ phase = "serving" /\ cache[n] # NoAnswer
    /\ cache' = [cache EXCEPT ![n] = answer]
    /\ UNCHANGED <<ruleVars, query>>

\* The cache that the next start finds in the file is that of some earlier time.
Die ==
    /\ Crash
    /\ cache' \in {c \in [Names -> Answer0] : \A n \in Names : c[n] \in Answers[n] \cup {NoAnswer}}
    /\ query' = [q \in Queries |-> NoQuery]

Step ==
    \/ RuleStep /\ UNCHANGED <<cache, query>>
    \/ \E l \in Loaders : FlushAfterLoad(l)
    \/ \E e \in Editors : FlushAfterEdit(e)
    \/ \E q \in Queries : QueryStep(q)
    \/ \E n \in Names : Expire(n) \/ \E answer \in Answers[n] : Refresh(n, answer)
    \/ Die

Next == Step /\ Watch

Spec == Init /\ [][Next]_vars
-------------------------------------------------------------------------------
\* Subject to the shared lists: the group is filtered, the name is nothing a
\* device breaks without, and the group's policy does not rewrite it.
Filtered(q) ==
    LET group == Groups[query[q].group]
    IN /\ group.filtering
       /\ query[q].name \notin CompatRules
       /\ query[q].name \in group.allow \/ group.safe_search[query[q].name] = NoName

Answered(q) == query[q].pc = "done" /\ query[q].outcome \in {"cached", "fetched"}

\* "A blocked name never reaches the network" (engine.py:4), nor an answer: a
\* query is forwarded or answered only if at some moment since it came in the
\* rules in force let its name through, however rebuilds and edits are
\* interleaved with its two looks at them.
BlockedNeverAnswered ==
    \A q \in Queries : (Answered(q) \/ query[q].pc = "resolve") /\ Filtered(q)
        => best[q][query[q].name] # "blocked"

\* "A tracker reached through a CNAME is blocked on the way back"
\* (engine.py:275): in an answer from upstream, no name of the chain was
\* blocked all the while, unless the rules allowed one of the others.
TrackerUncloaked ==
    \A q \in Queries : Answered(q) /\ query[q].outcome = "fetched" /\ Filtered(q) =>
        LET chain == query[q].answer.chain
        IN \/ \A i \in DOMAIN chain : best[q][chain[i]] # "blocked"
           \/ \E i \in DOMAIN chain : best[q][chain[i]] = "allowed"

\* Essential services are "allowed ahead of every blocklist, every category,
\* every group rule and every schedule" (docs/compatibility.md:27), in the
\* chain of an answer too, for the names no profile or extra rule repeats.
EssentialNeverBlocked ==
    \A q \in Queries : query[q].pc = "done" /\ query[q].outcome = "block"
        => query[q].name \notin Essential \ (Profiles \cup CompatExtra)

\* "CNAME uncloaking so trackers hiding inside first-party subdomains are
\* caught too" (README.md:28): no answer of a filtered group goes through a
\* name that was blocked all the while, wherever it came from.
CloakedNeverServed ==
    \A q \in Queries : Answered(q) /\ Filtered(q) =>
        LET chain == query[q].answer.chain
        IN \/ \A i \in DOMAIN chain : best[q][chain[i]] # "blocked"
           \/ \E i \in DOMAIN chain : best[q][chain[i]] = "allowed"
================================================================================
