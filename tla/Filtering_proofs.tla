--------------------------- MODULE Filtering_proofs ---------------------------
(***************************************************************************)
(* What FilterEngine.handle promises of a decided query, for every set of  *)
(* names, lists, groups, devices, worker threads and dashboard requests.   *)
(*                                                                         *)
(* The properties speak of queries that are done.  The invariant says what *)
(* is already settled on the way: past the look at the block rules a       *)
(* filtered name has been let through by the rules of some moment, and     *)
(* only names that are not protected are looked at at all.                 *)
(***************************************************************************)
EXTENDS Filtering, TLAPS

QueryType ==
    /\ cache \in [Names -> Answer0]
    /\ query \in [Queries -> Query]
    /\ best \in [Queries -> [Names -> {"blocked", "open", "allowed"}]]

\* Past the two looks at the rules.
Past(q) == query[q].pc \in {"cache", "resolve", "hop", "hopBlocked"} \/ Answered(q)

PassedInv ==
    \A q \in Queries : Filtered(q) =>
        /\ query[q].pc # "rewrite"
        /\ Past(q) => best[q][query[q].name] # "blocked"

UnprotectedInv ==
    \A q \in Queries :
        \/ query[q].pc \in {"allowed", "blocked", "hop", "hopBlocked"}
        \/ query[q].pc = "done" /\ query[q].outcome = "block"
        => ~IsProtected(query[q].name)

IInv == QueryType /\ PassedInv /\ UnprotectedInv

-------------------------------------------------------------------------------
\* PolicyEngine.group_for always finds a group that exists.
LEMMA GroupExists ==
    ASSUME NEW address, NEW hint
    PROVE  GroupFor(address, hint) \in DOMAIN Groups
<1>. DEFINE known == Candidates(address, hint) \cap DOMAIN Groups
<1>1. CASE known = {}
  BY <1>1, GroupsAssumption DEF GroupFor
<1>2. CASE known # {}
  <2>1. (CHOOSE g \in known : TRUE) \in known
    BY <1>2
  <2>. QED
    BY <1>2, <2>1 DEF GroupFor
<1>. QED
  BY <1>1, <1>2

\* A thread between two queries.
LEMMA NoQueryType == NoQuery \in Query
<1>1. (CHOOSE n \in Names : TRUE) \in Names
  BY FilteringAssumption
<1>2. NoAnswer \in Answer0 /\ DefaultGroup \in DOMAIN Groups /\ 1 \in Nat
  BY GroupsAssumption DEF Answer0
<1>. QED
  BY <1>1, <1>2 DEF NoQuery, Query

\* What the rules once let through stays so for the query.
LEMMA BestGrows ==
    ASSUME Watch, NEW q \in Queries, NEW n \in Names, query'[q].pc # "idle",
           \/ best[q][n] # "blocked"
           \/ query[q].pc # "done" /\ Standing(allow', block', n) # "blocked"
    PROVE  best'[q][n] # "blocked" \/ best[q][n] \notin {"blocked", "open", "allowed"}
<1>1. best'[q][n] = IF query[q].pc = "done" THEN best[q][n]
                    ELSE Kinder(best[q][n], Standing(allow', block', n))
  BY DEF Watch
<1>2. Standing(allow', block', n) \in {"blocked", "open", "allowed"}
  BY DEF Standing
<1>. QED
  BY <1>1, <1>2 DEF Kinder

\* The invariant for one query that a step leaves where it was.
LEMMA OthersKeep ==
    ASSUME IInv, Watch, NEW q \in Queries, query'[q] = query[q]
    PROVE  /\ Filtered(q)' => query'[q].pc # "rewrite"
           /\ Filtered(q)' /\ Past(q)' => best'[q][query'[q].name] # "blocked"
           /\ \/ query'[q].pc \in {"allowed", "blocked", "hop", "hopBlocked"}
              \/ query'[q].pc = "done" /\ query'[q].outcome = "block"
              => ~IsProtected(query'[q].name)
<1>1. query[q] \in Query /\ query[q].name \in Names
  BY DEF IInv, QueryType, Query
<1>2. Filtered(q)' = Filtered(q) /\ Past(q)' = Past(q)
  BY DEF Filtered, Past, Answered
<1>3. Past(q) => query'[q].pc # "idle"
  BY DEF Past, Answered
<1>4. best[q][query[q].name] \in {"blocked", "open", "allowed"}
  BY <1>1 DEF IInv, QueryType
<1>. QED
  BY <1>1, <1>2, <1>3, <1>4, BestGrows DEF IInv, PassedInv, UnprotectedInv

\* What Goes and Done change of a query.
LEMMA GoesChanges ==
    ASSUME QueryType, NEW q \in Queries, NEW next, Goes(q, next)
    PROVE  /\ query'[q].pc = next /\ query'[q].outcome = query[q].outcome
           /\ query'[q].name = query[q].name /\ query'[q].group = query[q].group
           /\ query'[q].answer = query[q].answer /\ query'[q].hop = query[q].hop
<1>1. query \in [Queries -> Query] /\ query[q] \in Query
  BY DEF QueryType
<1>2. query' = [query EXCEPT ![q] = [query[q] EXCEPT !.pc = next]]
  BY DEF Goes
<1>3. query'[q] = [query[q] EXCEPT !.pc = next]
  BY <1>1, <1>2
<1>. QED
  BY <1>1, <1>3 DEF Query

LEMMA DoneChanges ==
    ASSUME QueryType, NEW q \in Queries, NEW outcome, Done(q, outcome)
    PROVE  /\ query'[q].pc = "done" /\ query'[q].outcome = outcome /\ query'[q].hop = 1
           /\ query'[q].name = query[q].name /\ query'[q].group = query[q].group
           /\ query'[q].answer = query[q].answer
<1>1. query \in [Queries -> Query] /\ query[q] \in Query
  BY DEF QueryType
<1>2. query' = [query EXCEPT ![q] =
                  [query[q] EXCEPT !.pc = "done", !.outcome = outcome, !.hop = 1]]
  BY DEF Done
<1>3. query'[q] = [query[q] EXCEPT !.pc = "done", !.outcome = outcome, !.hop = 1]
  BY <1>1, <1>2
<1>. QED
  BY <1>1, <1>3 DEF Query

\* A thread moves no query but its own.
LEMMA OthersStand ==
    ASSUME QueryType, NEW q \in Queries, NEW other \in Queries, other # q, QueryStep(other)
    PROVE  query'[q] = query[q]
<1>0. query \in [Queries -> Query]
  BY DEF QueryType
<1>1. /\ \A next : Goes(other, next) => query'[q] = query[q]
      /\ \A outcome : Done(other, outcome) => query'[q] = query[q]
  BY <1>0 DEF Goes, Done
<1>2. CASE IsAllowed(other) \/ IsBlocked(other) \/ Rewrite(other) \/ Fail(other) \/ HopAllowed(other)
  BY <1>1, <1>2, Zenon DEF IsAllowed, IsBlocked, Rewrite, Fail, HopAllowed
<1>3. CASE \/ \E outcome \in {"silent", "error", "canary"} : NoQuestion(other, outcome)
           \/ Reply(other)
  BY <1>0, <1>3 DEF NoQuestion, Reply
<1>4. CASE \E address \in Addresses, hint \in Hints, name \in Names, moment \in Moments :
              Begin(other, address, hint, name, moment)
  BY <1>0, <1>4 DEF Begin
<1>5. CASE CacheGet(other)
  BY <1>0, <1>5 DEF CacheGet
<1>6. CASE \E answer \in Answers[query[other].name], stored \in BOOLEAN : Fetch(other, answer, stored)
  BY <1>0, <1>6 DEF Fetch
<1>7. CASE HopBlocked(other)
  BY <1>0, <1>1, <1>7 DEF HopBlocked
<1>. QED
  BY <1>2, <1>3, <1>4, <1>5, <1>6, <1>7 DEF QueryStep

\* Every step keeps the types of the cache, the queries and their history.
LEMMA QueryTypeStep == QueryType /\ [Next]_vars => QueryType'
<1>. SUFFICES ASSUME QueryType, [Next]_vars PROVE QueryType'
  OBVIOUS
<1>. USE DEF QueryType
<1>1. Next => best' \in [Queries -> [Names -> {"blocked", "open", "allowed"}]]
  BY DEF Next, Watch, Kinder, Standing
<1>2. ASSUME Step PROVE cache' \in [Names -> Answer0] /\ query' \in [Queries -> Query]
  <2>1. NoAnswer \in Answer0 /\ \A n \in Names : Answers[n] \subseteq Answer0
    BY DEF Answer0
  <2>2. NoQuery \in Query
    BY NoQueryType
  <2>3. CASE RuleStep /\ UNCHANGED <<cache, query>>
    BY <2>3
  <2>4. ASSUME NEW l \in Loaders, FlushAfterLoad(l) PROVE cache' \in [Names -> Answer0] /\ query' = query
    BY <2>1, <2>4 DEF FlushAfterLoad, Dropped
  <2>5. ASSUME NEW e \in Editors, FlushAfterEdit(e) PROVE cache' \in [Names -> Answer0] /\ query' = query
    BY <2>1, <2>5 DEF FlushAfterEdit, Dropped
  <2>6. ASSUME NEW n \in Names, Expire(n) \/ \E answer \in Answers[n] : Refresh(n, answer)
        PROVE  cache' \in [Names -> Answer0] /\ query' = query
    BY <2>1, <2>6 DEF Expire, Refresh, Dropped
  <2>7. CASE Die
    BY <2>2, <2>7 DEF Die
  <2>8. ASSUME NEW q \in Queries, QueryStep(q)
        PROVE  cache' \in [Names -> Answer0] /\ query' \in [Queries -> Query]
    <3>. USE <2>1, <2>2
    <3>1. ASSUME NEW outcome \in {"silent", "error", "canary"}, NoQuestion(q, outcome)
          PROVE  cache' \in [Names -> Answer0] /\ query' \in [Queries -> Query]
      BY <3>1 DEF NoQuestion, Query
    <3>2. ASSUME NEW address \in Addresses, NEW hint \in Hints, NEW name \in Names,
                 NEW moment \in Moments, Begin(q, address, hint, name, moment)
          PROVE  cache' \in [Names -> Answer0] /\ query' \in [Queries -> Query]
      <4>1. GroupFor(address, hint) \in DOMAIN Groups
        BY GroupExists
      <4>. DEFINE start == [NoQuery EXCEPT !.name = name, !.group = GroupFor(address, hint)]
      <4>2. /\ \A next \in {"allowed", "rewrite", "cache"} : [start EXCEPT !.pc = next] \in Query
            /\ [start EXCEPT !.pc = "done", !.outcome = "block"] \in Query
        BY <4>1 DEF Query
      <4>. QED
        BY <3>2, <4>2 DEF Begin
    <3>0. /\ \A next \in {"cache", "blocked", "hop", "hopBlocked"} :
                Goes(q, next) => query' \in [Queries -> Query]
          /\ \A outcome \in {"block", "rewrite", "error", "fetched", "rebinding"} :
                Done(q, outcome) => query' \in [Queries -> Query]
      <4>1. ASSUME NEW next \in {"cache", "blocked", "hop", "hopBlocked"}, Goes(q, next)
            PROVE  query' \in [Queries -> Query]
        <5>1. [query[q] EXCEPT !.pc = next] \in Query
          BY <4>1 DEF Query
        <5>2. query' = [query EXCEPT ![q] = [query[q] EXCEPT !.pc = next]]
          BY <4>1 DEF Goes
        <5>. QED
          BY <5>1, <5>2
      <4>2. ASSUME NEW outcome \in {"block", "rewrite", "error", "fetched", "rebinding"},
                   Done(q, outcome)
            PROVE  query' \in [Queries -> Query]
        <5>1. [query[q] EXCEPT !.pc = "done", !.outcome = outcome, !.hop = 1] \in Query
          BY <4>2 DEF Query
        <5>2. query' = [query EXCEPT ![q] = [query[q] EXCEPT !.pc = "done", !.outcome = outcome, !.hop = 1]]
          BY <4>2 DEF Done
        <5>. QED
          BY <5>1, <5>2
      <4>. QED
        BY <4>1, <4>2
    <3>3. CASE IsAllowed(q) \/ IsBlocked(q)
      <4>1. cache' = cache /\ (Goes(q, "cache") \/ Goes(q, "blocked") \/ Done(q, "block"))
        BY <3>3, Zenon DEF IsAllowed, IsBlocked
      <4>. QED
        BY <3>0, <4>1
    <3>4. CASE Rewrite(q)
      <4>. DEFINE target == Groups[query[q].group].safe_search[query[q].name]
      <4>1. ASSUME NEW answer \in Answers[target], cache' = [cache EXCEPT ![target] = answer]
            PROVE  cache' \in [Names -> Answer0]
        BY <4>1
      <4>. QED
        BY <3>0, <3>4, <4>1 DEF Rewrite
    <3>5. CASE CacheGet(q)
      <4>1. /\ [query[q] EXCEPT !.pc = "done", !.outcome = "local"] \in Query
            /\ [query[q] EXCEPT !.pc = "done", !.outcome = "cached",
                                !.answer = cache[query[q].name]] \in Query
            /\ [query[q] EXCEPT !.pc = "resolve"] \in Query
        BY DEF Query
      <4>. QED
        BY <3>5, <4>1 DEF CacheGet
    <3>6. ASSUME NEW answer \in Answers[query[q].name], NEW stored \in BOOLEAN, Fetch(q, answer, stored)
          PROVE  cache' \in [Names -> Answer0] /\ query' \in [Queries -> Query]
      BY <3>6 DEF Fetch, Query, Verdict
    <3>7. CASE Fail(q) \/ HopAllowed(q) \/ HopBlocked(q)
      <4>1. Verdict(query[q].name, query[q].answer) \in {"fetched", "rebinding"}
        BY DEF Verdict
      <4>2. query' = [query EXCEPT ![q].pc = "hop", ![q].hop = @ + 1] => query' \in [Queries -> Query]
        BY SMTT(30) DEF Query
      <4>. QED
        BY <3>0, <3>7, <4>1, <4>2 DEF Fail, HopAllowed, HopBlocked
    <3>8. CASE Reply(q)
      BY <3>8 DEF Reply
    <3>. QED
      BY <2>8, <3>1, <3>2, <3>3, <3>4, <3>5, <3>6, <3>7, <3>8 DEF QueryStep
  <2>. QED
    BY <1>2, <2>3, <2>4, <2>5, <2>6, <2>7, <2>8 DEF Step
<1>. QED
  BY <1>1, <1>2 DEF Next, vars

\* What the steps of its own thread do to a query: it is past the looks at the
\* rules only if they let the name through just now, or were past them before.
LEMMA OwnStep ==
    ASSUME IInv, QueryType', Watch, NEW q \in Queries, QueryStep(q)
    PROVE  /\ Filtered(q)' => query'[q].pc # "rewrite"
           /\ Filtered(q)' /\ Past(q)' => best'[q][query'[q].name] # "blocked"
           /\ \/ query'[q].pc \in {"allowed", "blocked", "hop", "hopBlocked"}
              \/ query'[q].pc = "done" /\ query'[q].outcome = "block"
              => ~IsProtected(query'[q].name)
<1>. DEFINE Good == /\ Filtered(q)' => query'[q].pc # "rewrite"
                    /\ Filtered(q)' /\ Past(q)' => best'[q][query'[q].name] # "blocked"
                    /\ \/ query'[q].pc \in {"allowed", "blocked", "hop", "hopBlocked"}
                       \/ query'[q].pc = "done" /\ query'[q].outcome = "block"
                       => ~IsProtected(query'[q].name)
            name == query[q].name
<1>0. /\ query \in [Queries -> Query] /\ query[q] \in Query /\ name \in Names
      /\ best[q][name] \in {"blocked", "open", "allowed"}
  BY DEF IInv, QueryType, Query
<1>. USE <1>0
\* The name and the group stay, and the query was past the looks before.
<1>a. ASSUME query'[q].name = name, query'[q].group = query[q].group, query'[q].pc # "idle"
      PROVE  /\ Filtered(q)' = Filtered(q)
             /\ Filtered(q) /\ Past(q) => best'[q][name] # "blocked"
             /\ query[q].pc # "done" /\ (Match(allow', name) \/ ~Match(block', name))
                   => best'[q][name] # "blocked"
  <2>1. Filtered(q)' = Filtered(q)
    BY <1>a DEF Filtered
  <2>2. Match(allow', name) \/ ~Match(block', name) => Standing(allow', block', name) # "blocked"
    BY DEF Standing
  <2>. QED
    BY <1>a, <2>1, <2>2, BestGrows DEF IInv, PassedInv
<1>1. ASSUME NEW outcome \in {"silent", "error", "canary"}, NoQuestion(q, outcome) PROVE Good
  <2>1. query'[q].pc = "done" /\ query'[q].outcome = outcome
    BY <1>1 DEF NoQuestion, NoQuery
  <2>. QED
    BY <2>1 DEF Past, Answered
<1>2. ASSUME NEW address \in Addresses, NEW hint \in Hints, NEW asked \in Names,
             NEW moment \in Moments, Begin(q, address, hint, asked, moment)
      PROVE  Good
  <2>. DEFINE group == GroupFor(address, hint)
              decision == Evaluate(Groups[group], asked, moment)
  <2>1. query'[q].name = asked /\ query'[q].group = group
    BY <1>2 DEF Begin, NoQuery
  <2>2. CASE IsProtected(asked)
    <3>1. query'[q].pc = "cache"
      BY <1>2, <2>2 DEF Begin, NoQuery
    <3>2. ~Filtered(q)'
      BY <2>1, <2>2 DEF Filtered, IsProtected, CompatRules
    <3>. QED
      BY <3>1, <3>2
  <2>3. CASE ~IsProtected(asked) /\ decision = "block"
    <3>1. query'[q].pc = "done" /\ query'[q].outcome = "block"
      BY <1>2, <2>3 DEF Begin, NoQuery
    <3>. QED
      BY <2>1, <2>3, <3>1 DEF Past, Answered
  <2>4. CASE ~IsProtected(asked) /\ decision = "rewrite"
    <3>1. query'[q].pc = "rewrite"
      BY <1>2, <2>4 DEF Begin, NoQuery
    <3>2. ~Filtered(q)'
      BY <2>1, <2>4 DEF Filtered, Evaluate
    <3>. QED
      BY <2>1, <2>4, <3>1, <3>2 DEF Past, Answered
  <2>5. CASE ~IsProtected(asked) /\ decision \notin {"block", "rewrite"} /\ Groups[group].filtering
    <3>1. query'[q].pc = "allowed"
      BY <1>2, <2>5 DEF Begin, NoQuery
    <3>. QED
      BY <2>1, <2>5, <3>1 DEF Past, Answered
  <2>6. CASE ~IsProtected(asked) /\ decision \notin {"block", "rewrite"} /\ ~Groups[group].filtering
    <3>1. query'[q].pc = "cache"
      BY <1>2, <2>6 DEF Begin, NoQuery
    <3>2. ~Filtered(q)'
      BY <2>1, <2>6 DEF Filtered
    <3>. QED
      BY <3>1, <3>2
  <2>. QED
    BY <2>2, <2>3, <2>4, <2>5, <2>6
<1>3. CASE IsAllowed(q)
  <2>1. /\ query[q].pc = "allowed" /\ query'[q].name = name /\ query'[q].group = query[q].group
        /\ allow' = allow
        /\ \/ query'[q].pc = "cache" /\ (Match(allow, name) \/ name \in CompatRules)
           \/ query'[q].pc = "blocked"
    BY <1>0, <1>3, GoesChanges DEF IsAllowed, ruleVars, IInv
  <2>2. name \in CompatRules => ~Filtered(q)'
    BY <2>1 DEF Filtered
  <2>3. ~IsProtected(name)
    BY <2>1 DEF IInv, UnprotectedInv
  <2>. QED
    BY <1>a, <2>1, <2>2, <2>3 DEF Past, Answered
<1>4. CASE IsBlocked(q)
  <2>1. /\ query[q].pc = "blocked" /\ query'[q].name = name /\ query'[q].group = query[q].group
        /\ block' = block
        /\ \/ query'[q].pc = "cache" /\ ~Match(block, name)
           \/ query'[q].pc = "done" /\ query'[q].outcome = "block"
    <3>1. /\ query[q].pc = "blocked" /\ block' = block
          /\ \/ Goes(q, "cache") /\ ~Match(block, name)
             \/ Done(q, "block")
      BY <1>4 DEF IsBlocked, ruleVars
    <3>2. QueryType
      BY DEF IInv
    <3>. QED
      BY <3>1, <3>2, GoesChanges, DoneChanges
  <2>2. ~IsProtected(name)
    BY <2>1 DEF IInv, UnprotectedInv
  <2>. QED
    BY <1>a, <2>1, <2>2 DEF Past, Answered
<1>5. CASE Rewrite(q)
  <2>1. /\ query[q].pc = "rewrite" /\ query'[q].name = name /\ query'[q].group = query[q].group
        /\ \/ query'[q].pc = "cache"
           \/ query'[q].pc = "done" /\ query'[q].outcome = "rewrite"
    <3>1. /\ query[q].pc = "rewrite"
          /\ Done(q, "rewrite") \/ Goes(q, "cache")
      BY <1>5, Zenon DEF Rewrite
    <3>2. QueryType
      BY DEF IInv
    <3>. QED
      BY <3>1, <3>2, GoesChanges, DoneChanges
  <2>2. ~Filtered(q)'
    BY <1>a, <2>1 DEF IInv, PassedInv
  <2>. QED
    BY <2>1, <2>2
<1>6. CASE CacheGet(q)
  <2>1. /\ query[q].pc = "cache" /\ query'[q].name = name /\ query'[q].group = query[q].group
        /\ \/ query'[q].pc = "resolve"
           \/ query'[q].pc = "done" /\ query'[q].outcome \in {"local", "cached"}
    BY <1>6 DEF CacheGet, Query
  <2>. QED
    BY <1>a, <2>1 DEF Past, Answered
<1>7. ASSUME NEW answer \in Answers[query[q].name], NEW stored \in BOOLEAN, Fetch(q, answer, stored)
      PROVE  Good
  <2>1. /\ query[q].pc = "resolve" /\ query'[q].name = name /\ query'[q].group = query[q].group
        /\ \/ query'[q].pc = "hop" /\ ~IsProtected(name)
           \/ query'[q].pc = "done" /\ query'[q].outcome \in {"fetched", "rebinding"}
    BY <1>7 DEF Fetch, Uncloaks, Verdict, Query
  <2>. QED
    BY <1>a, <2>1 DEF Past, Answered
<1>8. CASE Fail(q)
  <2>1. query'[q].pc = "done" /\ query'[q].outcome = "error"
    BY <1>8, DoneChanges DEF Fail, IInv
  <2>. QED
    BY <2>1 DEF Past, Answered
<1>9. CASE HopAllowed(q) \/ HopBlocked(q)
  <2>1. Verdict(name, query[q].answer) \in {"fetched", "rebinding"}
    BY DEF Verdict
  <2>2. /\ query[q].pc \in {"hop", "hopBlocked"}
        /\ query'[q].name = name /\ query'[q].group = query[q].group
        /\ query'[q].pc \in {"hop", "hopBlocked", "done"}
    BY <1>9, <2>1 DEF HopAllowed, HopBlocked, Goes, Done, Query
  <2>3. ~IsProtected(name)
    BY <2>2 DEF IInv, UnprotectedInv
  <2>. QED
    BY <1>a, <2>2, <2>3 DEF Past, Answered
<1>10. CASE Reply(q)
  <2>1. query'[q].pc = "idle"
    BY <1>10 DEF Reply, NoQuery
  <2>. QED
    BY <2>1 DEF Past, Answered
<1>. QED
  BY <1>1, <1>2, <1>3, <1>4, <1>5, <1>6, <1>7, <1>8, <1>9, <1>10 DEF QueryStep

\* The invariant is inductive: other threads, rebuilds, edits and crashes leave
\* a query where it was or end it.
LEMMA Inductive == IInv /\ [Next]_vars => IInv'
<1>. SUFFICES ASSUME IInv, [Next]_vars PROVE IInv'
  OBVIOUS
<1>1. QueryType'
  BY QueryTypeStep DEF IInv
<1>2. CASE UNCHANGED vars
  BY <1>2 DEF vars, IInv, QueryType, PassedInv, UnprotectedInv, Past, Answered, Filtered
<1>3. CASE Next
  <2>. SUFFICES ASSUME NEW q \in Queries
                PROVE  /\ Filtered(q)' => query'[q].pc # "rewrite"
                       /\ Filtered(q)' /\ Past(q)' => best'[q][query'[q].name] # "blocked"
                       /\ \/ query'[q].pc \in {"allowed", "blocked", "hop", "hopBlocked"}
                          \/ query'[q].pc = "done" /\ query'[q].outcome = "block"
                          => ~IsProtected(query'[q].name)
    BY <1>1 DEF IInv, PassedInv, UnprotectedInv
  <2>1. Watch /\ Step
    BY <1>3 DEF Next
  <2>2. CASE QueryStep(q)
    BY <1>1, <2>1, <2>2, OwnStep
  <2>3. CASE query'[q] = query[q]
    BY <2>1, <2>3, OthersKeep
  <2>4. CASE Die
    <3>1. query'[q].pc = "idle"
      BY <2>4 DEF Die, NoQuery
    <3>. QED
      BY <3>1 DEF Past, Answered
  <2>5. ASSUME NEW r \in Queries, r # q, QueryStep(r) PROVE query'[q] = query[q]
    BY <2>5, OthersStand DEF IInv
  <2>. QED
    BY <2>1, <2>2, <2>3, <2>4, <2>5
       DEF Step, FlushAfterLoad, FlushAfterEdit, Expire, Refresh
<1>. QED
  BY <1>2, <1>3

\* No query is under way at first.
LEMMA InitIInv == Init => IInv
<1>. SUFFICES ASSUME Init PROVE IInv
  OBVIOUS
<1>1. QueryType
  BY NoQueryType DEF Init, QueryType, Answer0
<1>2. \A q \in Queries : query[q].pc = "idle"
  BY DEF Init, NoQuery
<1>. QED
  BY <1>1, <1>2 DEF IInv, PassedInv, UnprotectedInv, Past, Answered

\* The invariant holds in every state.
LEMMA Invariance == Spec => []IInv
  BY InitIInv, Inductive, PTL DEF Spec

\* FilterEngine.handle forwards or answers a filtered name only if the rules of
\* some moment since the query came in let it through, however rebuilds of the
\* lists, dashboard edits and crashes are interleaved with its looks at them.
THEOREM BlockedStaysBlocked == Spec => []BlockedNeverAnswered
<1>1. IInv => BlockedNeverAnswered
  BY DEF IInv, PassedInv, Past, BlockedNeverAnswered
<1>. QED
  BY <1>1, Invariance, PTL

\* No group rule, schedule, list, local rule or CNAME chain makes
\* FilterEngine.handle block an essential service.
THEOREM EssentialStaysOpen == Spec => []EssentialNeverBlocked
<1>1. IInv => EssentialNeverBlocked
  BY DEF IInv, UnprotectedInv, EssentialNeverBlocked, IsProtected
<1>. QED
  BY <1>1, Invariance, PTL
-------------------------------------------------------------------------------
(***************************************************************************)
(* The rules in force.  A query never changes them, so what holds of the   *)
(* rules alone holds while queries are decided.                            *)
(***************************************************************************)

\* Every step of the engine is a step of BlocklistManager or leaves it alone.
LEMMA StepIsRuleStep == [Next]_vars => [RulesNext]_ruleVars
<1>1. Step => RulesNext \/ UNCHANGED ruleVars
  <2>1. ASSUME NEW q \in Queries, QueryStep(q) PROVE UNCHANGED ruleVars
    <3>1. CASE \E outcome \in {"silent", "error", "canary"} : NoQuestion(q, outcome)
      BY <3>1 DEF NoQuestion
    <3>2. CASE \E address \in Addresses, hint \in Hints, name \in Names, moment \in Moments :
                  Begin(q, address, hint, name, moment)
      BY <3>2 DEF Begin
    <3>3. CASE \E answer \in Answers[query[q].name], stored \in BOOLEAN : Fetch(q, answer, stored)
      BY <3>3 DEF Fetch
    <3>4. CASE IsAllowed(q) \/ IsBlocked(q) \/ Rewrite(q) \/ CacheGet(q) \/ Fail(q) \/ Reply(q)
      BY <3>4, Zenon DEF IsAllowed, IsBlocked, Rewrite, CacheGet, Fail, Reply
    <3>5. CASE HopAllowed(q) \/ HopBlocked(q)
      BY <3>5 DEF HopAllowed, HopBlocked
    <3>. QED
      BY <2>1, <3>1, <3>2, <3>3, <3>4, <3>5 DEF QueryStep
  <2>2. ASSUME NEW l \in Loaders, FlushAfterLoad(l) PROVE RulesNext
    BY <2>2 DEF FlushAfterLoad, RulesNext
  <2>3. ASSUME NEW e \in Editors, FlushAfterEdit(e) PROVE RulesNext
    BY <2>3 DEF FlushAfterEdit, RulesNext
  <2>4. Die => RulesNext
    BY DEF Die, RulesNext
  <2>5. ASSUME NEW n \in Names, Expire(n) \/ \E answer \in Answers[n] : Refresh(n, answer)
        PROVE  UNCHANGED ruleVars
    BY <2>5 DEF Expire, Refresh
  <2>. QED
    BY <2>1, <2>2, <2>3, <2>4, <2>5 DEF Step, RulesNext
<1>2. UNCHANGED vars => UNCHANGED ruleVars
  BY DEF vars
<1>. QED
  BY <1>1, <1>2 DEF Next

\* FilterEngine.handle only reads the rules: seen from BlocklistManager, the
\* running engine is BlocklistManager on its own.
THEOREM EngineKeepsRules == Spec => RulesSpec
<1>1. Init => RulesInit
  BY DEF Init
<1>. QED
  BY <1>1, StepIsRuleStep, PTL DEF Spec, RulesSpec

\* Loading and Editing, with the values of a thread that is idle.
LoaderType ==
    [pc : {"idle", "read", "tag", "copy", "judge", "allow", "counts", "flush"},
     refresh : BOOLEAN, local : Rules, left : SUBSET Sources,
     at : Sources \cup {NotLoading.at}, text : Text0, texts : [Sources -> Text0],
     need : SUBSET Sources]

EditorType ==
    [pc : {"idle", "write", "apply", "drop", "flush"},
     domain : Domains \cup {NotEditing.domain}, allow : BOOLEAN, rules : Rules]

ThreadTypes ==
    /\ remote \in [Sources -> Text0]
    /\ copy \in [Sources -> Text0]
    /\ rules \in Rules
    /\ once \in SUBSET Sources
    /\ loader \in [Loaders -> LoaderType]
    /\ editor \in [Editors -> EditorType]

\* A list once in force has a copy, which is never lost; a rebuild merges some
\* text for every list it has read and for which there was one.
CopiesInv ==
    /\ \A u \in once : copy[u] # NoText
    /\ \A l \in Loaders :
          /\ loader[l].pc \in {"tag", "copy", "judge"} =>
                loader[l].text # NoText /\ loader[l].at \in Sources
          /\ loader[l].pc = "judge" => copy[loader[l].at] # NoText
          /\ \A u \in loader[l].need : copy[u] # NoText
          /\ \A u \in Sources : loader[l].texts[u] # NoText => copy[u] # NoText
          /\ \A u \in loader[l].need \ loader[l].left : loader[l].texts[u] # NoText

RulesInv == ThreadTypes /\ CopiesInv

\* Both threads are idle at first.
LEMMA IdleTypes == NotLoading \in LoaderType /\ NotEditing \in EditorType
<1>1. NoRules \in Rules /\ Nowhere \in [Sources -> Text0] /\ NoText \in Text0
  BY DEF NoRules, Rules, Nowhere, Text0
<1>. QED
  BY <1>1 DEF NotLoading, NotEditing, LoaderType, EditorType

\* Every step keeps the types of the threads and of what they work on.
LEMMA ThreadTypesStep == ThreadTypes /\ [RulesNext]_ruleVars => ThreadTypes'
<1>. SUFFICES ASSUME ThreadTypes, [RulesNext]_ruleVars PROVE ThreadTypes'
  OBVIOUS
<1>. USE IdleTypes DEF ThreadTypes
<1>1. ASSUME NEW l \in Loaders, NEW refresh \in BOOLEAN, BeginLoad(l, refresh) PROVE ThreadTypes'
  <2>1. [NotLoading EXCEPT !.pc = "read", !.refresh = refresh, !.local = rules, !.left = Sources,
                           !.need = once] \in LoaderType
    BY DEF LoaderType
  <2>. QED
    BY <1>1, <2>1 DEF BeginLoad, disk
<1>2. ASSUME NEW l \in Loaders, NEW u \in Sources, ReadCopy(l, u) PROVE ThreadTypes'
  <2>1. [loader[l] EXCEPT !.pc = "judge", !.at = u, !.text = copy[u]] \in LoaderType
    BY DEF LoaderType
  <2>. QED
    BY <1>2, <2>1 DEF ReadCopy, disk
<1>3. ASSUME NEW l \in Loaders, NEW u \in Sources, Download(l, u) PROVE ThreadTypes'
  <2>1. [loader[l] EXCEPT !.pc = "tag", !.at = u, !.text = remote[u]] \in LoaderType
    BY DEF LoaderType
  <2>. QED
    BY <1>3, <2>1 DEF Download, disk
<1>4. ASSUME NEW l \in Loaders, NEW u \in Sources, SkipSource(l, u) PROVE ThreadTypes'
  <2>1. [loader[l] EXCEPT !.left = @ \ {u}] \in LoaderType
    BY DEF LoaderType
  <2>. QED
    BY <1>4, <2>1 DEF SkipSource, disk
<1>5. ASSUME NEW l \in Loaders,
             SaveValidators(l) \/ SwapBlock(l) \/ SwapAllow(l) \/ SaveCounts(l)
      PROVE  ThreadTypes'
  <2>1. \A next \in {"copy", "allow", "counts", "flush"} :
           [loader[l] EXCEPT !.pc = next] \in LoaderType
    BY DEF LoaderType
  <2>2. \E next \in {"copy", "allow", "counts", "flush"} : loader' = [loader EXCEPT ![l].pc = next]
    BY <1>5 DEF SaveValidators, SwapBlock, SwapAllow, SaveCounts
  <2>3. loader' \in [Loaders -> LoaderType]
    BY <2>1, <2>2
  <2>4. UNCHANGED <<remote, copy, rules, editor>> /\ once' \subseteq once \cup Sources
    BY <1>5 DEF SaveValidators, SwapBlock, SwapAllow, SaveCounts, disk
  <2>. QED
    BY <2>3, <2>4
<1>6. ASSUME NEW l \in Loaders, WriteCopy(l) PROVE ThreadTypes'
  <2>1. [loader[l] EXCEPT !.pc = "judge"] \in LoaderType /\ loader[l].text \in Text0
    BY DEF LoaderType
  <2>. QED
    BY <1>6, <2>1 DEF WriteCopy
<1>7. ASSUME NEW l \in Loaders, Judge(l) PROVE ThreadTypes'
  <2>. DEFINE u == loader[l].at
              texts(t) == [loader[l].texts EXCEPT ![u] = t]
  <2>0. loader[l] \in LoaderType
    OBVIOUS
  <2>1. PICK t \in {copy[u], loader[l].text} :
           loader' = [loader EXCEPT ![l].pc = "read", ![l].left = @ \ {u}, ![l].texts[u] = t]
    BY <1>7 DEF Judge
  <2>2. texts(t) \in [Sources -> Text0]
    BY <2>0, <2>1 DEF LoaderType
  <2>3. [loader[l] EXCEPT !.pc = "read", !.left = @ \ {u}, !.texts = texts(t)] \in LoaderType
    BY <2>0, <2>2 DEF LoaderType
  <2>4. loader' = [loader EXCEPT ![l] = [loader[l] EXCEPT !.pc = "read", !.left = @ \ {u},
                                                          !.texts = texts(t)]]
    BY <2>1
  <2>5. loader' \in [Loaders -> LoaderType]
    BY <2>3, <2>4
  <2>6. UNCHANGED <<remote, copy, rules, once, editor>>
    BY <1>7 DEF Judge, disk
  <2>. QED
    BY <2>5, <2>6
<1>8. ASSUME NEW l \in Loaders, EndLoad(l) PROVE ThreadTypes'
  BY <1>8 DEF EndLoad, disk
<1>9. ASSUME NEW e \in Editors, NEW d \in Editable, NEW allowed \in BOOLEAN, BeginEdit(e, d, allowed)
      PROVE  ThreadTypes'
  <2>1. d \in Domains /\ Edited(rules, d, allowed) \in Rules
    BY DomainsAssumption DEF Edited, Rules
  <2>2. [pc |-> "write", domain |-> d, allow |-> allowed, rules |-> Edited(rules, d, allowed)]
           \in EditorType
    BY <2>1 DEF EditorType
  <2>. QED
    BY <1>9, <2>2 DEF BeginEdit, disk
<1>10. ASSUME NEW e \in Editors, WriteRules(e) \/ ApplyRule(e) \/ DropAllow(e) PROVE ThreadTypes'
  <2>1. /\ editor[e].rules \in Rules
        /\ \A next \in {"apply", "drop", "flush"} : [editor[e] EXCEPT !.pc = next] \in EditorType
    BY DEF EditorType
  <2>2. /\ \E next \in {"apply", "drop", "flush"} : editor' = [editor EXCEPT ![e].pc = next]
        /\ rules' \in {rules, editor[e].rules}
    BY <1>10 DEF WriteRules, ApplyRule, DropAllow, disk
  <2>3. editor' \in [Editors -> EditorType] /\ rules' \in Rules
    BY <2>1, <2>2
  <2>. QED
    BY <1>10, <2>3 DEF WriteRules, ApplyRule, DropAllow, disk
<1>11. ASSUME NEW e \in Editors, EndEdit(e) PROVE ThreadTypes'
  BY <1>11 DEF EndEdit, disk
<1>12. ASSUME NEW u \in Sources, NEW text \in Text0, RemoteChanges(u, text) PROVE ThreadTypes'
  BY <1>12 DEF RemoteChanges, disk
<1>13. CASE Crash
  BY <1>13 DEF Crash, disk
<1>14. CASE UNCHANGED ruleVars
  BY <1>14 DEF ruleVars, disk
<1>. QED
  BY <1>1, <1>2, <1>3, <1>4, <1>5, <1>6, <1>7, <1>8, <1>9, <1>10, <1>11, <1>12, <1>13, <1>14
     DEF RulesNext, RuleStep
\* Every step keeps the copies, and the promise of the rebuilds under way.
LEMMA CopiesInvStep == RulesInv /\ [RulesNext]_ruleVars => CopiesInv'
<1>. SUFFICES ASSUME RulesInv, [RulesNext]_ruleVars PROVE CopiesInv'
  OBVIOUS
<1>. USE DEF RulesInv
<1>0. \A l \in Loaders : loader[l] \in LoaderType
  BY DEF ThreadTypes
<1>. DEFINE Keeps(l) ==
       /\ loader'[l].pc \in {"tag", "copy", "judge"} =>
             loader'[l].text # NoText /\ loader'[l].at \in Sources
       /\ loader'[l].pc = "judge" => copy'[loader'[l].at] # NoText
       /\ \A u \in loader'[l].need : copy'[u] # NoText
       /\ \A u \in Sources : loader'[l].texts[u] # NoText => copy'[u] # NoText
       /\ \A u \in loader'[l].need \ loader'[l].left : loader'[l].texts[u] # NoText
\* Without a new copy only the loaders that moved matter.
<1>a. ASSUME copy' = copy, once' = once, \A l \in Loaders : loader'[l] = loader[l] \/ Keeps(l)
      PROVE  CopiesInv'
  BY <1>a DEF CopiesInv
<1>1. ASSUME NEW l \in Loaders, NEW refresh \in BOOLEAN, BeginLoad(l, refresh) PROVE CopiesInv'
  <2>1. /\ copy' = copy /\ once' = once /\ \A k \in Loaders : k = l \/ loader'[k] = loader[k]
        /\ loader'[l] = [NotLoading EXCEPT !.pc = "read", !.refresh = refresh, !.local = rules,
                                           !.left = Sources, !.need = once]
    BY <1>1 DEF BeginLoad, disk, ThreadTypes
  <2>2. Keeps(l)
    BY <2>1 DEF NotLoading, Nowhere, CopiesInv, ThreadTypes
  <2>. QED
    BY <1>a, <2>1, <2>2
<1>2. ASSUME NEW l \in Loaders, NEW u \in Sources, ReadCopy(l, u) PROVE CopiesInv'
  <2>1. /\ copy' = copy /\ once' = once /\ \A k \in Loaders : k = l \/ loader'[k] = loader[k]
        /\ loader'[l] = [loader[l] EXCEPT !.pc = "judge", !.at = u, !.text = copy[u]]
        /\ copy[u] # NoText
    BY <1>2 DEF ReadCopy, CopyServes, disk, ThreadTypes
  <2>2. Keeps(l)
    BY <1>0, <2>1 DEF CopiesInv, LoaderType
  <2>. QED
    BY <1>a, <2>1, <2>2
<1>3. ASSUME NEW l \in Loaders, NEW u \in Sources, Download(l, u) PROVE CopiesInv'
  <2>1. /\ copy' = copy /\ once' = once /\ \A k \in Loaders : k = l \/ loader'[k] = loader[k]
        /\ loader'[l] = [loader[l] EXCEPT !.pc = "tag", !.at = u, !.text = remote[u]]
        /\ remote[u] # NoText
    BY <1>3 DEF Download, disk, ThreadTypes
  <2>2. Keeps(l)
    BY <1>0, <2>1 DEF CopiesInv, LoaderType
  <2>. QED
    BY <1>a, <2>1, <2>2
<1>4. ASSUME NEW l \in Loaders, NEW u \in Sources, SkipSource(l, u) PROVE CopiesInv'
  <2>1. /\ copy' = copy /\ once' = once /\ \A k \in Loaders : k = l \/ loader'[k] = loader[k]
        /\ loader'[l] = [loader[l] EXCEPT !.left = @ \ {u}]
        /\ copy[u] = NoText /\ loader[l].pc = "read"
    BY <1>4 DEF SkipSource, CopyServes, disk, ThreadTypes
  <2>2. Keeps(l)
    BY <1>0, <2>1 DEF CopiesInv, LoaderType
  <2>. QED
    BY <1>a, <2>1, <2>2
<1>5. ASSUME NEW l \in Loaders, SaveValidators(l) \/ SwapAllow(l) \/ SaveCounts(l) PROVE CopiesInv'
  <2>1. /\ copy' = copy /\ once' = once /\ \A k \in Loaders : k = l \/ loader'[k] = loader[k]
        /\ \/ loader'[l] = [loader[l] EXCEPT !.pc = "copy"] /\ loader[l].pc = "tag"
           \/ loader'[l] = [loader[l] EXCEPT !.pc = "counts"]
           \/ loader'[l] = [loader[l] EXCEPT !.pc = "flush"]
    BY <1>5 DEF SaveValidators, SwapAllow, SaveCounts, disk, ThreadTypes
  <2>2. Keeps(l)
    BY <1>0, <2>1 DEF CopiesInv, LoaderType
  <2>. QED
    BY <1>a, <2>1, <2>2
<1>6. ASSUME NEW l \in Loaders, WriteCopy(l) PROVE CopiesInv'
  <2>1. /\ once' = once /\ \A k \in Loaders : k = l \/ loader'[k] = loader[k]
        /\ loader'[l] = [loader[l] EXCEPT !.pc = "judge"] /\ loader[l].pc = "copy"
        /\ copy' = [copy EXCEPT ![loader[l].at] = loader[l].text]
    BY <1>6 DEF WriteCopy, ThreadTypes
  <2>2. \A u \in Sources : copy[u] # NoText => copy'[u] # NoText
    BY <2>1 DEF CopiesInv, ThreadTypes
  <2>3. copy'[loader[l].at] # NoText
    BY <2>1 DEF CopiesInv, ThreadTypes
  <2>4. \A k \in Loaders : /\ loader'[k].need = loader[k].need /\ loader'[k].left = loader[k].left
                           /\ loader'[k].texts = loader[k].texts /\ loader'[k].at = loader[k].at
                           /\ loader'[k].text = loader[k].text
                           /\ k = l \/ loader'[k].pc = loader[k].pc
    BY <1>0, <2>1 DEF LoaderType
  <2>5. \A k \in Loaders : Keeps(k)
    BY <1>0, <2>1, <2>2, <2>3, <2>4 DEF CopiesInv, LoaderType
  <2>. QED
    BY <2>1, <2>2, <2>5 DEF CopiesInv, ThreadTypes
<1>7. ASSUME NEW l \in Loaders, Judge(l) PROVE CopiesInv'
  <2>. DEFINE at == loader[l].at
  <2>1. copy' = copy /\ once' = once /\ loader[l].pc = "judge"
    BY <1>7 DEF Judge, disk
  <2>2. PICK t \in {copy[at], loader[l].text} :
           loader' = [loader EXCEPT ![l].pc = "read", ![l].left = @ \ {at}, ![l].texts[at] = t]
    BY <1>7 DEF Judge
  <2>3. t # NoText /\ copy[at] # NoText /\ at \in Sources
    BY <2>1, <2>2 DEF CopiesInv
  <2>4. /\ loader'[l] = [loader[l] EXCEPT !.pc = "read", !.left = @ \ {at},
                                          !.texts = [loader[l].texts EXCEPT ![at] = t]]
        /\ \A k \in Loaders : k = l \/ loader'[k] = loader[k]
    BY <2>2 DEF ThreadTypes
  <2>5. /\ loader'[l].pc = "read" /\ loader'[l].left = loader[l].left \ {at}
        /\ loader'[l].need = loader[l].need
        /\ loader'[l].texts = [loader[l].texts EXCEPT ![at] = t]
    BY <1>0, <2>4 DEF LoaderType
  <2>6. loader[l].texts \in [Sources -> Text0]
    BY <1>0 DEF LoaderType
  <2>7. Keeps(l)
    BY <1>0, <2>1, <2>3, <2>5, <2>6 DEF CopiesInv, LoaderType
  <2>. QED
    BY <1>a, <2>1, <2>4, <2>7
<1>8. ASSUME NEW l \in Loaders, SwapBlock(l) PROVE CopiesInv'
  <2>1. /\ copy' = copy /\ \A k \in Loaders : k = l \/ loader'[k] = loader[k]
        /\ once' = once \cup {u \in Sources : loader[l].texts[u] # NoText}
        /\ loader'[l] = [loader[l] EXCEPT !.pc = "allow"]
    BY <1>8 DEF SwapBlock, disk, ThreadTypes
  <2>2. /\ loader'[l].pc = "allow" /\ loader'[l].need = loader[l].need
        /\ loader'[l].left = loader[l].left /\ loader'[l].texts = loader[l].texts
    BY <1>0, <2>1 DEF LoaderType
  <2>3. Keeps(l)
    BY <1>0, <2>1, <2>2 DEF CopiesInv, LoaderType
  <2>4. \A k \in Loaders : k # l => Keeps(k)
    BY <2>1 DEF CopiesInv
  <2>5. \A u \in once' : copy'[u] # NoText
    BY <2>1 DEF CopiesInv
  <2>. QED
    BY <2>3, <2>4, <2>5 DEF CopiesInv
<1>9. ASSUME NEW l \in Loaders, EndLoad(l) PROVE CopiesInv'
  <2>1. /\ copy' = copy /\ once' = once /\ \A k \in Loaders : k = l \/ loader'[k] = loader[k]
        /\ loader'[l] = NotLoading
    BY <1>9 DEF EndLoad, disk, ThreadTypes
  <2>2. Keeps(l)
    BY <2>1 DEF NotLoading, Nowhere
  <2>. QED
    BY <1>a, <2>1, <2>2
<1>10. CASE Crash
  <2>1. copy' = copy /\ once' = once /\ \A l \in Loaders : loader'[l] = NotLoading
    BY <1>10 DEF Crash, disk
  <2>2. ASSUME NEW l \in Loaders PROVE Keeps(l)
    <3>1. loader'[l] = NotLoading
      BY <2>1
    <3>. QED
      BY <3>1 DEF NotLoading, Nowhere
  <2>. QED
    BY <1>a, <2>1, <2>2
<1>11. ASSUME NEW e \in Editors,
              \/ \E d \in Editable, allowed \in BOOLEAN : BeginEdit(e, d, allowed)
              \/ WriteRules(e) \/ ApplyRule(e) \/ DropAllow(e) \/ EndEdit(e)
       PROVE  CopiesInv'
  <2>1. copy' = copy /\ once' = once /\ loader' = loader
    BY <1>11 DEF BeginEdit, WriteRules, ApplyRule, DropAllow, EndEdit, disk
  <2>. QED
    BY <1>a, <2>1
<1>12. CASE UNCHANGED ruleVars \/ \E u \in Sources, text \in Text0 : RemoteChanges(u, text)
  <2>1. copy' = copy /\ once' = once /\ loader' = loader
    BY <1>12 DEF RemoteChanges, ruleVars, disk
  <2>. QED
    BY <1>a, <2>1
<1>. QED
  BY <1>1, <1>2, <1>3, <1>4, <1>5, <1>6, <1>7, <1>8, <1>9, <1>10, <1>11, <1>12 DEF RulesNext, RuleStep

\* The invariant of the rebuilds holds in every state.
LEMMA RulesInvariance == RulesSpec => []RulesInv
<1>1. RulesInit => RulesInv
  <2>. SUFFICES ASSUME RulesInit PROVE RulesInv
    OBVIOUS
  <2>1. ThreadTypes
    BY IdleTypes DEF RulesInit, ThreadTypes, Nowhere, NoRules, Rules, Text0
  <2>2. CopiesInv
    BY DEF RulesInit, CopiesInv, NotLoading, Nowhere
  <2>. QED
    BY <2>1, <2>2 DEF RulesInv
<1>2. RulesInv /\ [RulesNext]_ruleVars => RulesInv'
  BY ThreadTypesStep, CopiesInvStep DEF RulesInv
<1>. QED
  BY <1>1, <1>2, PTL DEF RulesSpec

\* BlocklistManager.load() puts some version of every list in force that was
\* ever in force before it began, whatever downloads fail, whichever texts it
\* refuses, and however often the process died in between.
THEOREM RestartComesUpFiltering == Spec => ComesUpFiltering
<1>1. RulesInv /\ [RulesNext]_ruleVars
        => [\A l \in Loaders : SwapBlock(l) => \A u \in loader[l].need : force'[u] # NoText]_ruleVars
  BY DEF RulesInv, CopiesInv, SwapBlock
<1>2. RulesSpec => ComesUpFiltering
  BY <1>1, RulesInvariance, PTL DEF RulesSpec, ComesUpFiltering
<1>. QED
  BY <1>2, EngineKeepsRules
-------------------------------------------------------------------------------
\* The local rules on their way into force, as long as no edit ran beside
\* another or beside a rebuild: what each step of a rebuild and of an edit has
\* already done about them.
EditorsIdle == \A e \in Editors : editor[e].pc = "idle"

LoadersCarry ==
    \A l \in Loaders : loader[l].pc # "idle" =>
        /\ EditorsIdle /\ loader[l].local = rules
        /\ loader[l].pc \in {"allow", "counts", "flush"} => rules.block \subseteq block
        /\ loader[l].pc \in {"counts", "flush"} => rules.allow \subseteq allow

EditorsCarry ==
    \A e \in Editors :
        LET edit == editor[e]
            set == edit.rules
        IN edit.pc # "idle" =>
             /\ \A f \in Editors : f = e \/ editor[f].pc = "idle"
             /\ edit.pc = "write" =>
                   \/ edit.allow /\ set.allow \subseteq allow \cup {edit.domain} /\ set.block \subseteq block
                   \/ /\ ~edit.allow /\ set.block \subseteq block \cup {edit.domain}
                      /\ set.allow \subseteq allow \ {edit.domain}
             /\ edit.pc = "apply" =>
                   \/ edit.allow /\ rules.allow \subseteq allow \cup {edit.domain} /\ rules.block \subseteq block
                   \/ /\ ~edit.allow /\ rules.block \subseteq block \cup {edit.domain}
                      /\ rules.allow \subseteq allow \ {edit.domain}
             /\ edit.pc = "drop" =>
                   rules.block \subseteq block /\ rules.allow \subseteq allow \ {edit.domain}
             /\ edit.pc = "flush" => rules.block \subseteq block /\ rules.allow \subseteq allow

InForce == rules.block \subseteq block /\ rules.allow \subseteq allow

CarryInv ==
    ~overlap => /\ LoadersCarry /\ EditorsCarry
                /\ phase = "serving" /\ EditorsIdle => InForce

\* A rebuild keeps what is known of the local rules.
LEMMA LoadersStep ==
    ASSUME ThreadTypes, CarryInv, NEW l \in Loaders,
           \/ \E refresh \in BOOLEAN : BeginLoad(l, refresh)
           \/ \E u \in Sources : ReadCopy(l, u) \/ Download(l, u) \/ SkipSource(l, u)
           \/ SaveValidators(l) \/ WriteCopy(l) \/ Judge(l)
           \/ SwapBlock(l) \/ SwapAllow(l) \/ SaveCounts(l) \/ EndLoad(l)
    PROVE  CarryInv'
<1>. SUFFICES ASSUME ~overlap' PROVE (LoadersCarry /\ EditorsCarry)' /\ (phase = "serving" /\ EditorsIdle => InForce)'
  BY DEF CarryInv
<1>0. loader \in [Loaders -> LoaderType] /\ loader[l] \in LoaderType
  BY DEF ThreadTypes
\* What a step of l may change of what the invariant speaks of.
<1>a. ASSUME editor' = editor, rules' = rules, ~overlap, EditorsIdle,
             \A k \in Loaders : k = l \/ loader'[k] = loader[k],
             rules.block \subseteq block => rules.block \subseteq block',
             rules.allow \subseteq allow => rules.allow \subseteq allow',
             loader'[l].pc # "idle" =>
                 /\ loader'[l].local = rules
                 /\ loader'[l].pc \in {"allow", "counts", "flush"} => rules.block \subseteq block'
                 /\ loader'[l].pc \in {"counts", "flush"} => rules.allow \subseteq allow',
             phase' = "serving" => phase = "serving" \/ InForce
      PROVE  (LoadersCarry /\ EditorsCarry)' /\ (phase = "serving" /\ EditorsIdle => InForce)'
  <2>1. LoadersCarry /\ (phase = "serving" => InForce) /\ EditorsIdle'
    BY <1>a DEF CarryInv, EditorsIdle
  <2>2. InForce => InForce'
    BY <1>a DEF InForce
  <2>3. LoadersCarry'
    BY <1>a, <2>1 DEF LoadersCarry
  <2>4. EditorsCarry'
    BY <1>a, <2>1 DEF EditorsCarry, EditorsIdle
  <2>. QED
    BY <1>a, <2>1, <2>2, <2>3, <2>4
<1>1. ASSUME NEW refresh \in BOOLEAN, BeginLoad(l, refresh)
      PROVE  (LoadersCarry /\ EditorsCarry)' /\ (phase = "serving" /\ EditorsIdle => InForce)'
  <2>1. /\ editor' = editor /\ rules' = rules /\ block' = block /\ allow' = allow
        /\ \A k \in Loaders : k = l \/ loader'[k] = loader[k]
        /\ phase' = "serving" => phase = "serving"
    <3>1. UNCHANGED <<editor, rules, block, allow>> /\ (phase' = "serving" => phase = "serving")
      BY <1>1 DEF BeginLoad, disk
    <3>2. \A k \in Loaders : k = l \/ loader'[k] = loader[k]
      BY <1>0, <1>1 DEF BeginLoad
    <3>. QED
      BY <3>1, <3>2
  <2>2. ~overlap /\ EditorsIdle
    BY <1>1 DEF BeginLoad, EditorsIdle
  <2>3. loader'[l].pc = "read" /\ loader'[l].local = rules
    BY <1>0, <1>1 DEF BeginLoad, NotLoading
  <2>. QED
    BY <1>a, <2>1, <2>2, <2>3
<1>b. ASSUME ~(\E refresh \in BOOLEAN : BeginLoad(l, refresh))
      PROVE  loader[l].pc # "idle" /\ overlap' = overlap /\ EditorsIdle
  <2>1. loader[l].pc # "idle" /\ overlap' = overlap
    BY <1>b DEF ReadCopy, Download, SkipSource, SaveValidators, WriteCopy, Judge, SwapBlock, SwapAllow,
                SaveCounts, EndLoad
  <2>. QED
    BY <2>1 DEF CarryInv, LoadersCarry
<1>2. ASSUME \/ \E u \in Sources : ReadCopy(l, u) \/ Download(l, u) \/ SkipSource(l, u)
             \/ SaveValidators(l) \/ WriteCopy(l) \/ Judge(l)
      PROVE  (LoadersCarry /\ EditorsCarry)' /\ (phase = "serving" /\ EditorsIdle => InForce)'
  <2>1. /\ editor' = editor /\ rules' = rules /\ block' = block /\ allow' = allow /\ phase' = phase
        /\ \A k \in Loaders : k = l \/ loader'[k] = loader[k]
        /\ loader[l].pc # "idle" /\ overlap' = overlap
    BY <1>0, <1>2 DEF ReadCopy, Download, SkipSource, SaveValidators, WriteCopy, Judge, disk
  <2>2. loader'[l].local = loader[l].local /\ loader'[l].pc \in {"read", "tag", "copy", "judge"}
    <3>1. CASE \E u \in Sources : ReadCopy(l, u) \/ Download(l, u) \/ SkipSource(l, u)
      <4>1. PICK u \in Sources : ReadCopy(l, u) \/ Download(l, u) \/ SkipSource(l, u)
        BY <3>1
      <4>2. \/ loader'[l] = [loader[l] EXCEPT !.pc = "judge", !.at = u, !.text = copy[u]]
            \/ loader'[l] = [loader[l] EXCEPT !.pc = "tag", !.at = u, !.text = remote[u]]
            \/ loader'[l] = [loader[l] EXCEPT !.left = @ \ {u}] /\ loader[l].pc = "read"
        BY <1>0, <4>1 DEF ReadCopy, Download, SkipSource
      <4>. QED
        BY <1>0, <4>2 DEF LoaderType
    <3>2. CASE SaveValidators(l) \/ WriteCopy(l) \/ Judge(l)
      BY <1>0, <3>2 DEF SaveValidators, WriteCopy, Judge, LoaderType
    <3>. QED
      BY <1>2, <3>1, <3>2
  <2>3. EditorsIdle /\ loader[l].local = rules
    BY <2>1 DEF CarryInv, LoadersCarry
  <2>. QED
    BY <1>a, <2>1, <2>2, <2>3
<1>3. CASE SwapBlock(l)
  <2>1. /\ editor' = editor /\ rules' = rules /\ allow' = allow /\ phase' = phase
        /\ overlap' = overlap /\ loader[l].pc # "idle"
        /\ loader' = [loader EXCEPT ![l].pc = "allow"] /\ loader[l].local.block \subseteq block'
    BY <1>3 DEF SwapBlock, disk
  <2>2. EditorsIdle /\ loader[l].local = rules
    BY <2>1 DEF CarryInv, LoadersCarry
  <2>3. /\ loader'[l].local = loader[l].local /\ loader'[l].pc = "allow"
        /\ \A k \in Loaders : k = l \/ loader'[k] = loader[k]
    BY <1>0, <2>1 DEF LoaderType
  <2>. QED
    BY <1>a, <2>1, <2>2, <2>3
<1>4. CASE SwapAllow(l)
  <2>1. /\ editor' = editor /\ rules' = rules /\ block' = block /\ phase' = phase
        /\ overlap' = overlap /\ loader[l].pc = "allow"
        /\ loader' = [loader EXCEPT ![l].pc = "counts"] /\ loader[l].local.allow \subseteq allow'
    BY <1>4 DEF SwapAllow, disk
  <2>2. EditorsIdle /\ loader[l].local = rules /\ rules.block \subseteq block
    BY <2>1 DEF CarryInv, LoadersCarry
  <2>3. /\ loader'[l].local = loader[l].local /\ loader'[l].pc = "counts"
        /\ \A k \in Loaders : k = l \/ loader'[k] = loader[k]
    BY <1>0, <2>1 DEF LoaderType
  <2>. QED
    BY <1>a, <2>1, <2>2, <2>3
<1>5. CASE SaveCounts(l)
  <2>1. /\ editor' = editor /\ rules' = rules /\ block' = block /\ allow' = allow /\ phase' = phase
        /\ overlap' = overlap /\ loader[l].pc = "counts" /\ loader' = [loader EXCEPT ![l].pc = "flush"]
    BY <1>5 DEF SaveCounts
  <2>2. EditorsIdle /\ loader[l].local = rules /\ rules.block \subseteq block /\ rules.allow \subseteq allow
    BY <2>1 DEF CarryInv, LoadersCarry
  <2>3. /\ loader'[l].local = loader[l].local /\ loader'[l].pc = "flush"
        /\ \A k \in Loaders : k = l \/ loader'[k] = loader[k]
    BY <1>0, <2>1 DEF LoaderType
  <2>. QED
    BY <1>a, <2>1, <2>2, <2>3
<1>6. CASE EndLoad(l)
  <2>1. /\ editor' = editor /\ rules' = rules /\ block' = block /\ allow' = allow
        /\ overlap' = overlap /\ loader[l].pc = "flush" /\ loader' = [loader EXCEPT ![l] = NotLoading]
    BY <1>6 DEF EndLoad, disk
  <2>2. EditorsIdle /\ InForce
    BY <2>1 DEF CarryInv, LoadersCarry, InForce
  <2>3. loader'[l].pc = "idle" /\ \A k \in Loaders : k = l \/ loader'[k] = loader[k]
    BY <1>0, <2>1 DEF NotLoading
  <2>. QED
    BY <1>a, <2>1, <2>2, <2>3
<1>. QED
  BY <1>1, <1>2, <1>3, <1>4, <1>5, <1>6

\* An edit keeps what is known of the local rules.
LEMMA EditorsStep ==
    ASSUME ThreadTypes, CarryInv, NEW e \in Editors,
           \/ \E d \in Editable, allowed \in BOOLEAN : BeginEdit(e, d, allowed)
           \/ WriteRules(e) \/ ApplyRule(e) \/ DropAllow(e) \/ EndEdit(e)
    PROVE  CarryInv'
<1>. SUFFICES ASSUME ~overlap' PROVE (LoadersCarry /\ EditorsCarry)' /\ (phase = "serving" /\ EditorsIdle => InForce)'
  BY DEF CarryInv
<1>0. editor \in [Editors -> EditorType] /\ editor[e] \in EditorType /\ rules \in Rules
  BY DEF ThreadTypes
<1>1. ASSUME NEW d \in Editable, NEW allowed \in BOOLEAN, BeginEdit(e, d, allowed)
      PROVE  (LoadersCarry /\ EditorsCarry)' /\ (phase = "serving" /\ EditorsIdle => InForce)'
  <2>1. /\ ~overlap /\ ~Busy /\ phase = "serving" /\ loader' = loader
        /\ UNCHANGED <<rules, block, allow>>
    BY <1>1 DEF BeginEdit, disk
  <2>2. InForce
    BY <2>1 DEF CarryInv, Busy, EditorsIdle
  <2>3. /\ editor'[e] = [pc |-> "write", domain |-> d, allow |-> allowed,
                         rules |-> Edited(rules, d, allowed)]
        /\ \A f \in Editors : f = e \/ editor'[f].pc = "idle"
    BY <1>0, <1>1, <2>1 DEF BeginEdit, Busy
  <2>4. LoadersCarry'
    BY <2>1 DEF LoadersCarry, Busy
  <2>5. \/ /\ allowed /\ Edited(rules, d, allowed).allow \subseteq allow \cup {d}
           /\ Edited(rules, d, allowed).block \subseteq block
        \/ /\ ~allowed /\ Edited(rules, d, allowed).block \subseteq block \cup {d}
           /\ Edited(rules, d, allowed).allow \subseteq allow \ {d}
    BY <2>2 DEF Edited, InForce
  <2>6. EditorsCarry'
    BY <2>1, <2>3, <2>5 DEF EditorsCarry
  <2>7. ~EditorsIdle'
    BY <2>3 DEF EditorsIdle
  <2>. QED
    BY <2>4, <2>6, <2>7
<1>a. ASSUME ~(\E d \in Editable, allowed \in BOOLEAN : BeginEdit(e, d, allowed))
      PROVE  /\ editor[e].pc # "idle" /\ ~overlap /\ EditorsCarry
             /\ \A l \in Loaders : loader[l].pc = "idle" /\ loader'[l] = loader[l]
             /\ LoadersCarry'
             /\ \A f \in Editors : f = e \/ (editor[f].pc = "idle" /\ editor'[f] = editor[f])
  <2>1. editor[e].pc # "idle" /\ overlap' = overlap /\ loader' = loader
    BY <1>a DEF WriteRules, ApplyRule, DropAllow, EndEdit
  <2>2. LoadersCarry /\ EditorsCarry
    BY <2>1 DEF CarryInv
  <2>3. \A l \in Loaders : loader[l].pc = "idle"
    BY <2>1, <2>2 DEF LoadersCarry, EditorsIdle
  <2>4. \A f \in Editors : f = e \/ editor[f].pc = "idle"
    BY <2>1, <2>2 DEF EditorsCarry
  <2>5. \A f \in Editors : f = e \/ editor'[f] = editor[f]
    BY <1>0, <1>a DEF WriteRules, ApplyRule, DropAllow, EndEdit
  <2>6. LoadersCarry'
    BY <2>1, <2>3 DEF LoadersCarry
  <2>. QED
    BY <2>1, <2>2, <2>3, <2>4, <2>5, <2>6
<1>2. CASE WriteRules(e)
  <2>1. /\ editor[e].pc = "write" /\ rules' = editor[e].rules /\ block' = block /\ allow' = allow
        /\ editor'[e] = [editor[e] EXCEPT !.pc = "apply"]
    BY <1>0, <1>2 DEF WriteRules
  <2>2. /\ editor'[e].pc = "apply" /\ editor'[e].allow = editor[e].allow
        /\ editor'[e].domain = editor[e].domain
    BY <1>0, <2>1 DEF EditorType
  <2>3. /\ EditorsCarry /\ LoadersCarry' /\ editor[e].pc # "idle"
        /\ \A f \in Editors : f = e \/ editor'[f].pc = "idle"
    BY <1>a, <2>1 DEF BeginEdit
  <2>4. EditorsCarry'
    BY <2>1, <2>2, <2>3 DEF EditorsCarry
  <2>5. ~EditorsIdle'
    BY <2>2 DEF EditorsIdle
  <2>. QED
    BY <2>3, <2>4, <2>5
<1>3. CASE ApplyRule(e)
  <2>1. /\ editor[e].pc = "apply" /\ rules' = rules
        /\ allow' = IF editor[e].allow THEN allow \cup {editor[e].domain} ELSE allow
        /\ block' = IF editor[e].allow THEN block ELSE block \cup {editor[e].domain}
        /\ editor'[e] = [editor[e] EXCEPT !.pc = IF editor[e].allow THEN "flush" ELSE "drop"]
    BY <1>0, <1>3 DEF ApplyRule, disk
  <2>2. /\ editor'[e].pc = (IF editor[e].allow THEN "flush" ELSE "drop")
        /\ editor'[e].domain = editor[e].domain
    BY <1>0, <2>1 DEF EditorType
  <2>3. /\ EditorsCarry /\ LoadersCarry' /\ editor[e].pc # "idle"
        /\ \A f \in Editors : f = e \/ editor'[f].pc = "idle"
    BY <1>a, <2>1 DEF BeginEdit
  <2>4. EditorsCarry'
    BY <2>1, <2>2, <2>3 DEF EditorsCarry
  <2>5. ~EditorsIdle'
    BY <2>2 DEF EditorsIdle
  <2>. QED
    BY <2>3, <2>4, <2>5
<1>4. CASE DropAllow(e)
  <2>1. /\ editor[e].pc = "drop" /\ rules' = rules /\ block' = block
        /\ allow' = allow \ {editor[e].domain}
        /\ editor'[e] = [editor[e] EXCEPT !.pc = "flush"]
    BY <1>0, <1>4 DEF DropAllow, disk
  <2>2. editor'[e].pc = "flush" /\ editor'[e].domain = editor[e].domain
    BY <1>0, <2>1 DEF EditorType
  <2>3. /\ EditorsCarry /\ LoadersCarry' /\ editor[e].pc # "idle"
        /\ \A f \in Editors : f = e \/ editor'[f].pc = "idle"
    BY <1>a, <2>1 DEF BeginEdit
  <2>4. EditorsCarry'
    BY <2>1, <2>2, <2>3 DEF EditorsCarry
  <2>5. ~EditorsIdle'
    BY <2>2 DEF EditorsIdle
  <2>. QED
    BY <2>3, <2>4, <2>5
<1>5. CASE EndEdit(e)
  <2>1. /\ editor[e].pc = "flush" /\ rules' = rules /\ block' = block /\ allow' = allow
        /\ editor'[e].pc = "idle"
    BY <1>0, <1>5 DEF EndEdit, disk, NotEditing
  <2>2. LoadersCarry' /\ EditorsCarry' /\ InForce'
    BY <1>5, <1>a, <2>1 DEF EditorsCarry, InForce, BeginEdit
  <2>. QED
    BY <2>2
<1>. QED
  BY <1>1, <1>2, <1>3, <1>4, <1>5

\* What is known of the local rules holds in every state.
LEMMA CarryInvariance == RulesSpec => []CarryInv
<1>1. RulesInit => CarryInv
  BY DEF RulesInit, CarryInv, LoadersCarry, EditorsCarry, NotLoading, NotEditing
<1>2. RulesInv /\ CarryInv /\ [RulesNext]_ruleVars => CarryInv'
  <2>. SUFFICES ASSUME RulesInv, CarryInv, [RulesNext]_ruleVars PROVE CarryInv'
    OBVIOUS
  <2>0. ThreadTypes
    BY DEF RulesInv
  <2>1. CASE Crash
    <3>1. /\ \A l \in Loaders : loader'[l].pc = "idle"
          /\ \A e \in Editors : editor'[e].pc = "idle"
          /\ phase' = "down"
      BY <2>1 DEF Crash, NotLoading, NotEditing
    <3>. QED
      BY <3>1 DEF CarryInv, LoadersCarry, EditorsCarry
  <2>2. CASE UNCHANGED ruleVars \/ \E u \in Sources, text \in Text0 : RemoteChanges(u, text)
    <3>1. UNCHANGED <<rules, block, allow, phase, loader, editor, overlap>>
      BY <2>2 DEF RemoteChanges, ruleVars, disk
    <3>. QED
      BY <3>1 DEF CarryInv, LoadersCarry, EditorsCarry, EditorsIdle, InForce
  <2>3. ASSUME NEW l \in Loaders,
               \/ \E refresh \in BOOLEAN : BeginLoad(l, refresh)
               \/ \E u \in Sources : ReadCopy(l, u) \/ Download(l, u) \/ SkipSource(l, u)
               \/ SaveValidators(l) \/ WriteCopy(l) \/ Judge(l)
               \/ SwapBlock(l) \/ SwapAllow(l) \/ SaveCounts(l) \/ EndLoad(l)
        PROVE  CarryInv'
    BY <2>0, <2>3, LoadersStep
  <2>4. ASSUME NEW e \in Editors,
               \/ \E d \in Editable, allowed \in BOOLEAN : BeginEdit(e, d, allowed)
               \/ WriteRules(e) \/ ApplyRule(e) \/ DropAllow(e) \/ EndEdit(e)
        PROVE  CarryInv'
    BY <2>0, <2>4, EditorsStep
  <2>. QED
    BY <2>1, <2>2, <2>3, <2>4 DEF RulesNext, RuleStep
<1>. QED
  BY <1>1, <1>2, RulesInvariance, PTL DEF RulesSpec

\* A rule that add_local_rule() wrote is in force whenever nothing is under way,
\* after rebuilds, refusals, crashes and restarts, as long as no edit ever ran
\* beside another edit or beside a rebuild.
THEOREM LocalRulesStayInForce == Spec => []LocalRulesInForce
<1>1. CarryInv => LocalRulesInForce
  BY DEF CarryInv, LocalRulesInForce, Busy, EditorsIdle, InForce
<1>2. RulesSpec => []LocalRulesInForce
  BY <1>1, CarryInvariance, PTL
<1>. QED
  BY <1>2, EngineKeepsRules
-------------------------------------------------------------------------------
(***************************************************************************)
(* The names behind an answer from upstream.                               *)
(***************************************************************************)

\* The names of a chain before position i were not blocked all the while.
Seen(q, i) ==
    \A j \in DOMAIN query[q].answer.chain : j < i => best[q][query[q].answer.chain[j]] # "blocked"

\* The chain is looked at from its first name on; what has been passed stood
\* open at some moment, and the look ends early only at a name that is allowed.
ChainInv ==
    \A q \in Queries :
        LET chain == query[q].answer.chain
        IN /\ query[q].pc \notin {"hop", "hopBlocked"} => query[q].hop = 1
           /\ query[q].pc \in {"hop", "hopBlocked"} =>
                /\ chain \in Seq(Names) /\ query[q].hop \in DOMAIN chain
                /\ Seen(q, query[q].hop)
           /\ query[q].pc = "done" /\ query[q].outcome = "fetched" /\ Filtered(q) =>
                /\ chain \in Seq(Names)
                /\ \/ \A i \in DOMAIN chain : best[q][chain[i]] # "blocked"
                   \/ \E i \in DOMAIN chain : best[q][chain[i]] = "allowed"

\* The history of a query only gets kinder until it is over.
LEMMA BestStays ==
    ASSUME QueryType, Watch, NEW q \in Queries, NEW n \in Names, query'[q].pc # "idle"
    PROVE  /\ best[q][n] # "blocked" => best'[q][n] # "blocked"
           /\ best[q][n] = "allowed" => best'[q][n] = "allowed"
           /\ query[q].pc # "done" /\ Match(allow', n) => best'[q][n] = "allowed"
           /\ query[q].pc # "done" /\ ~Match(block', n) => best'[q][n] # "blocked"
<1>1. best'[q][n] = IF query[q].pc = "done" THEN best[q][n]
                    ELSE Kinder(best[q][n], Standing(allow', block', n))
  BY DEF Watch
<1>2. best[q][n] \in {"blocked", "open", "allowed"}
  BY DEF QueryType
<1>. QED
  BY <1>1, <1>2 DEF Kinder, Standing

\* The part of the invariant about one query, in the next state.
ChainNext(q) ==
    LET chain == query'[q].answer.chain
    IN /\ query'[q].pc \notin {"hop", "hopBlocked"} => query'[q].hop = 1
       /\ query'[q].pc \in {"hop", "hopBlocked"} =>
            /\ chain \in Seq(Names) /\ query'[q].hop \in DOMAIN chain
            /\ \A j \in DOMAIN chain : j < query'[q].hop => best'[q][chain[j]] # "blocked"
       /\ query'[q].pc = "done" /\ query'[q].outcome = "fetched" /\ Filtered(q)' =>
            /\ chain \in Seq(Names)
            /\ \/ \A i \in DOMAIN chain : best'[q][chain[i]] # "blocked"
               \/ \E i \in DOMAIN chain : best'[q][chain[i]] = "allowed"

\* A query that a step leaves where it was keeps what it has seen.
LEMMA ChainOthers ==
    ASSUME QueryType, ChainInv, Watch, NEW q \in Queries, query'[q] = query[q]
    PROVE  ChainNext(q)
<1>. DEFINE chain == query[q].answer.chain
<1>0. query'[q].pc \notin {"hop", "hopBlocked"} => query'[q].hop = 1
  BY DEF ChainInv
<1>1. CASE query[q].pc \in {"hop", "hopBlocked"}
  <2>1. /\ chain \in Seq(Names) /\ query[q].hop \in DOMAIN chain
        /\ \A j \in DOMAIN chain : j < query[q].hop => best[q][chain[j]] # "blocked"
    BY <1>1 DEF ChainInv, Seen
  <2>2. \A j \in DOMAIN chain : chain[j] \in Names
    BY <2>1
  <2>3. ASSUME NEW j \in DOMAIN chain
        PROVE  best[q][chain[j]] # "blocked" => best'[q][chain[j]] # "blocked"
    <3>1. chain[j] \in Names
      BY <2>2
    <3>2. query'[q].pc # "idle"
      BY <1>1
    <3>. QED
      BY <3>1, <3>2, BestStays
  <2>. QED
    BY <1>0, <1>1, <2>1, <2>3 DEF ChainNext
<1>2. CASE query[q].pc = "done" /\ query[q].outcome = "fetched" /\ Filtered(q)
  <2>1. chain \in Seq(Names) /\ \/ \A i \in DOMAIN chain : best[q][chain[i]] # "blocked"
                                \/ \E i \in DOMAIN chain : best[q][chain[i]] = "allowed"
    BY <1>2 DEF ChainInv
  <2>2. \A j \in DOMAIN chain : chain[j] \in Names
    BY <2>1
  <2>3. \A j \in DOMAIN chain : /\ best[q][chain[j]] # "blocked" => best'[q][chain[j]] # "blocked"
                                /\ best[q][chain[j]] = "allowed" => best'[q][chain[j]] = "allowed"
    BY <1>2, <2>2, BestStays
  <2>. QED
    BY <1>0, <1>2, <2>1, <2>3 DEF ChainNext
<1>3. Filtered(q)' = Filtered(q)
  BY DEF Filtered
<1>. QED
  BY <1>0, <1>1, <1>2, <1>3 DEF ChainNext

\* What the steps of its own thread do: an answer is passed on once every name
\* of its chain has been looked at, or one of them is allowed.
LEMMA ChainOwn ==
    ASSUME QueryType, ChainInv, Watch, NEW q \in Queries, QueryStep(q)
    PROVE  ChainNext(q)
<1>. DEFINE chain == query[q].answer.chain
            name == query[q].name
<1>0. query \in [Queries -> Query] /\ query[q] \in Query /\ name \in Names
  BY DEF QueryType, Query
<1>1. CASE \/ \E outcome \in {"silent", "error", "canary"} : NoQuestion(q, outcome)
           \/ \E address \in Addresses, hint \in Hints, asked \in Names, moment \in Moments :
                  Begin(q, address, hint, asked, moment)
           \/ Reply(q)
  <2>1. /\ query'[q].pc \notin {"hop", "hopBlocked"} /\ query'[q].hop = 1
        /\ query'[q].outcome # "fetched"
    <3>1. ASSUME NEW outcome \in {"silent", "error", "canary"}, NoQuestion(q, outcome)
          PROVE  /\ query'[q].pc = "done" /\ query'[q].hop = 1 /\ query'[q].outcome = outcome
      BY <1>0, <3>1 DEF NoQuestion, NoQuery
    <3>2. ASSUME NEW address \in Addresses, NEW hint \in Hints, NEW asked \in Names,
                 NEW moment \in Moments, Begin(q, address, hint, asked, moment)
          PROVE  /\ query'[q].pc \in {"allowed", "rewrite", "cache", "done"}
                 /\ query'[q].hop = 1 /\ query'[q].outcome \in {"none", "block"}
      BY <1>0, <3>2 DEF Begin, NoQuery
    <3>3. Reply(q) => /\ query'[q].pc = "idle" /\ query'[q].hop = 1
                      /\ query'[q].outcome = "none"
      BY <1>0 DEF Reply, NoQuery
    <3>. QED
      BY <1>1, <3>1, <3>2, <3>3
  <2>. QED
    BY <2>1 DEF ChainNext
<1>2. CASE IsAllowed(q) \/ IsBlocked(q) \/ Rewrite(q) \/ Fail(q)
  <2>1. \/ \E next \in {"cache", "blocked"} : Goes(q, next)
        \/ \E outcome \in {"block", "rewrite", "error"} : Done(q, outcome)
    <3>1. IsAllowed(q) => Goes(q, "cache") \/ Goes(q, "blocked")
      BY Zenon DEF IsAllowed
    <3>2. IsBlocked(q) => Goes(q, "cache") \/ Done(q, "block")
      BY Zenon DEF IsBlocked
    <3>3. Rewrite(q) => Goes(q, "cache") \/ Done(q, "rewrite")
      BY Zenon DEF Rewrite
    <3>4. Fail(q) => Done(q, "error")
      BY Zenon DEF Fail
    <3>. QED
      BY <1>2, <3>1, <3>2, <3>3, <3>4
  <2>2. query[q].pc \in {"allowed", "blocked", "rewrite", "resolve"}
    BY <1>2 DEF IsAllowed, IsBlocked, Rewrite, Fail
  <2>3. query[q].hop = 1
    BY <2>2 DEF ChainInv
  <2>4. /\ query'[q].pc \notin {"hop", "hopBlocked"} /\ query'[q].hop = 1
        /\ ~(query'[q].pc = "done" /\ query'[q].outcome = "fetched")
    BY <2>1, <2>3, GoesChanges, DoneChanges
  <2>. QED
    BY <2>4 DEF ChainNext
<1>3. CASE CacheGet(q)
  <2>1. query[q].hop = 1
    BY <1>3 DEF CacheGet, ChainInv
  <2>2. /\ query'[q].pc \notin {"hop", "hopBlocked"} /\ query'[q].hop = query[q].hop
        /\ ~(query'[q].pc = "done" /\ query'[q].outcome = "fetched")
    BY <1>0, <1>3 DEF CacheGet, Query
  <2>. QED
    BY <2>1, <2>2 DEF ChainNext
<1>4. ASSUME NEW answer \in Answers[name], NEW stored \in BOOLEAN, Fetch(q, answer, stored)
      PROVE  ChainNext(q)
  <2>. DEFINE look == Uncloaks(q) /\ answer.chain # <<>>
  <2>1. answer.chain \in Seq(Names)
    BY <1>0, FilteringAssumption
  <2>0. query[q].hop = 1
    BY <1>4 DEF Fetch, ChainInv
  <2>2. CASE look
    <3>1. query' = [query EXCEPT ![q].answer = answer, ![q].pc = "hop", ![q].outcome = "none"]
      BY <1>4, <2>2 DEF Fetch
    <3>2. /\ query'[q].pc = "hop" /\ query'[q].answer = answer /\ query'[q].hop = query[q].hop
      BY <1>0, <3>1 DEF Query
    <3>. QED
      BY <2>0, <2>1, <2>2, <3>2 DEF ChainNext
  <2>3. CASE ~look
    <3>1. /\ query'[q].pc = "done" /\ query'[q].answer = answer /\ query'[q].hop = query[q].hop
          /\ query'[q].name = name /\ query'[q].group = query[q].group
      BY <1>0, <1>4, <2>3 DEF Fetch, Query
    <3>2. Filtered(q)' => Uncloaks(q)
      BY <3>1 DEF Filtered, Uncloaks, IsProtected, CompatRules
    <3>3. Filtered(q)' => DOMAIN answer.chain = {}
      BY <2>3, <3>2
    <3>. QED
      BY <2>0, <2>1, <3>1, <3>3 DEF ChainNext
  <2>. QED
    BY <2>2, <2>3
<1>5. CASE HopAllowed(q)
  <2>1. /\ query[q].pc = "hop" /\ chain \in Seq(Names) /\ query[q].hop \in DOMAIN chain
        /\ \A j \in DOMAIN chain : j < query[q].hop => best[q][chain[j]] # "blocked"
    BY <1>5 DEF HopAllowed, ChainInv, Seen
  <2>2. CASE Match(allow, Hop(q))
    <3>1. /\ query'[q].pc = "done" /\ query'[q].answer = query[q].answer
          /\ query'[q].hop = 1 /\ allow' = allow
      BY <1>0, <1>5, <2>2 DEF HopAllowed, Done, Query, ruleVars
    <3>2. best'[q][chain[query[q].hop]] = "allowed"
      BY <2>1, <2>2, <3>1, BestStays DEF Hop
    <3>. QED
      BY <2>1, <3>1, <3>2 DEF ChainNext
  <2>3. CASE ~Match(allow, Hop(q))
    <3>1. query' = [query EXCEPT ![q].pc = "hopBlocked"]
      BY <1>5, <2>3 DEF HopAllowed, Goes
    <3>2. /\ query'[q].pc = "hopBlocked" /\ query'[q].answer = query[q].answer
          /\ query'[q].hop = query[q].hop
      BY <1>0, <3>1 DEF Query
    <3>3. \A j \in DOMAIN chain : j < query[q].hop => best'[q][chain[j]] # "blocked"
      BY <2>1, <3>2, BestStays
    <3>. QED
      BY <2>1, <3>2, <3>3 DEF ChainNext
  <2>. QED
    BY <2>2, <2>3
<1>6. CASE HopBlocked(q)
  <2>1. /\ query[q].pc = "hopBlocked" /\ chain \in Seq(Names) /\ query[q].hop \in DOMAIN chain
        /\ \A j \in DOMAIN chain : j < query[q].hop => best[q][chain[j]] # "blocked"
    BY <1>6 DEF HopBlocked, ChainInv, Seen
  <2>2. CASE Match(block, Hop(q))
    <3>1. query'[q].pc = "done" /\ query'[q].outcome = "block" /\ query'[q].hop = 1
      BY <1>0, <1>6, <2>2 DEF HopBlocked, Done, Query
    <3>. QED
      BY <3>1 DEF ChainNext
  <2>3. CASE ~Match(block, Hop(q))
    <3>1. /\ query'[q].pc \in {"hop", "done"} /\ query'[q].answer = query[q].answer
          /\ IF query[q].hop < Len(chain)
             THEN query'[q].pc = "hop" /\ query'[q].hop = query[q].hop + 1
             ELSE query'[q].pc = "done" /\ query'[q].hop = 1
          /\ block' = block
      BY <1>0, <1>6, <2>3 DEF HopBlocked, Done, Query, ruleVars
    <3>2. \A j \in DOMAIN chain : j < query[q].hop + 1 => best'[q][chain[j]] # "blocked"
      <4>1. \A j \in DOMAIN chain : j < query[q].hop => best'[q][chain[j]] # "blocked"
        BY <2>1, <3>1, BestStays
      <4>2. best'[q][chain[query[q].hop]] # "blocked"
        BY <2>1, <2>3, <3>1, BestStays DEF Hop
      <4>. QED
        BY <2>1, <4>1, <4>2
    <3>3. CASE query[q].hop < Len(chain)
      BY <2>1, <3>1, <3>2, <3>3 DEF ChainNext
    <3>4. CASE ~(query[q].hop < Len(chain))
      <4>1. \A j \in DOMAIN chain : best'[q][chain[j]] # "blocked"
        BY <2>1, <3>2, <3>4
      <4>. QED
        BY <2>1, <3>1, <3>4, <4>1 DEF ChainNext
    <3>. QED
      BY <3>3, <3>4
  <2>. QED
    BY <2>2, <2>3
<1>. QED
  BY <1>1, <1>2, <1>3, <1>4, <1>5, <1>6 DEF QueryStep

\* The invariant of the chains is inductive.
LEMMA ChainInvStep == QueryType /\ ChainInv /\ [Next]_vars => ChainInv'
<1>. SUFFICES ASSUME QueryType, ChainInv, [Next]_vars PROVE ChainInv'
  OBVIOUS
<1>1. CASE UNCHANGED vars
  BY <1>1 DEF vars, ChainInv, Seen, Filtered
<1>2. CASE Next
  <2>1. Watch /\ Step
    BY <1>2 DEF Next
  <2>2. ASSUME NEW q \in Queries PROVE ChainNext(q)
    <3>1. CASE QueryStep(q)
      BY <2>1, <3>1, ChainOwn
    <3>2. CASE query'[q] = query[q]
      BY <2>1, <3>2, ChainOthers
    <3>3. CASE Die
      BY <3>3 DEF Die, NoQuery, ChainNext
    <3>4. ASSUME NEW r \in Queries, r # q, QueryStep(r) PROVE query'[q] = query[q]
      BY <3>4, OthersStand
    <3>. QED
      BY <2>1, <3>1, <3>2, <3>3, <3>4 DEF Step, FlushAfterLoad, FlushAfterEdit, Expire, Refresh
  <2>. QED
    BY <2>2 DEF ChainInv, ChainNext, Seen
<1>. QED
  BY <1>1, <1>2
\* A filtered query is handed an answer from upstream only if no name behind it
\* was blocked all the while FilterEngine.handle worked on it, unless the rules
\* allowed another of them, for every length of the chain and every interleaving
\* with rebuilds and edits.
THEOREM ChainsUncloaked == Spec => []TrackerUncloaked
<1>1. Init => ChainInv
  BY DEF Init, NoQuery, ChainInv
<1>2. IInv => QueryType
  BY DEF IInv
<1>3. ChainInv => TrackerUncloaked
  BY DEF ChainInv, TrackerUncloaked, Answered
<1>. QED
  BY <1>1, <1>2, <1>3, ChainInvStep, Invariance, PTL DEF Spec
===============================================================================
