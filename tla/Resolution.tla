------------------------------ MODULE Resolution ------------------------------
(***************************************************************************)
(* symbivpn/engine.py, FilterEngine: how a query that passed the filters   *)
(* gets its answer.  handle() tries the cache, _resolve() goes upstream    *)
(* under single flight, _schedule_prefetch() refreshes popular entries in  *)
(* background threads.  The module composes SingleFlight (F) and DNSCache  *)
(* (C): a step of the engine is a step of one of them, or of neither,      *)
(* together with the engine's own progress.                                *)
(*                                                                         *)
(* The upstream pool is abstracted to its three outcomes: an answer, a     *)
(* ResolutionError, or another exception (module UpstreamPool shows that   *)
(* all three happen).  The checking-disabled path uses neither the cache   *)
(* nor single flight and is left out.                                      *)
(***************************************************************************)
EXTENDS Integers, Sequences, FiniteSets

CONSTANTS
    Threads, Keys, NoKey, Events, NoEvent, MaxResults, Grace,
    NoEntry, MaxEntries, UpstreamTTLs, MinTTL, MaxTTL, StaleFor,
    PrefetchNum, PrefetchDen, PrefetchMinHits,
    Slots,       \* the prefetch semaphore: one slot per background thread
    ServeStale,  \* config.serve_stale
    MaxTime

VARIABLES
    pc, key, ev, popped, waiters, isSet, results, handed,  \* SingleFlight
    entries, order, disk,                                          \* DNSCache
    now,
    step,       \* where each worker thread is in the engine
    want,       \* the key of its query
    then,       \* where it goes once the prefetch callback returns
    got,        \* what it has to answer with
    published,  \* what the retained result of each key is
    slot,       \* what each background thread is doing
    target      \* the key it refreshes

F == INSTANCE SingleFlight
C == INSTANCE DNSCache

ASSUME EngineAssumption ==
    /\ NoEvent \notin Events /\ NoKey \notin Keys
    /\ MaxResults \in Nat /\ Grace \in Nat /\ MaxTime \in Nat
    /\ ServeStale \in BOOLEAN /\ C!CacheConfigOK /\ NoEntry \notin C!Entry

flight == <<pc, key, ev, popped, waiters, isSet, results, handed>>
cache == <<entries, order, disk>>
engine == <<step, want, then, got>>
refresh == <<slot, target>>
vars == <<flight, cache, now, engine, published, refresh>>

Steps == {"idle", "resolve", "upstream", "fallback", "publish", "flight",
          "follow", "recheck", "prefetch"}
Answers == {"none", "fresh", "stale"}

TypeOK ==
    /\ F!TypeOK
    /\ C!TypeOK
    /\ step \in [Threads -> Steps]
    /\ want \in [Threads -> Keys \cup {NoKey}]
    /\ then \in [Threads -> Steps]
    /\ got \in [Threads -> Answers]
    /\ published \in [Keys -> Answers]
    /\ slot \in [Slots -> {"free", "resolving", "finish", "release"}]
    /\ target \in [Slots -> Keys \cup {NoKey}]

Init ==
    /\ F!Init
    /\ C!Init
    /\ step = [t \in Threads |-> "idle"]
    /\ want = [t \in Threads |-> NoKey]
    /\ then = [t \in Threads |-> "idle"]
    /\ got = [t \in Threads |-> "none"]
    /\ published = [k \in Keys |-> "none"]
    /\ slot = [w \in Slots |-> "free"]
    /\ target = [w \in Slots |-> NoKey]

Goto(t, from, to) == step[t] = from /\ step' = [step EXCEPT ![t] = to]

(***************************************************************************)
(* cache.get() as the engine calls it: the lookup, and when the entry is   *)
(* due the prefetch callback, which runs in the calling thread after the   *)
(* cache's lock is released.                                               *)
(***************************************************************************)
Outcome(k, allowStale) ==
    IF C!Lookup(k, allowStale) = "miss" THEN "none" ELSE C!Lookup(k, allowStale)

CacheGet(t, k, allowStale, from, to) ==
    /\ Goto(t, from, IF C!DueForPrefetch(k) THEN "prefetch" ELSE to)
    /\ C!Get(k, allowStale)
    /\ then' = [then EXCEPT ![t] = IF C!DueForPrefetch(k) THEN to ELSE "idle"]
    /\ got' = [got EXCEPT ![t] = Outcome(k, allowStale)]

\* handle() reaches the cache.
Query(t, k) ==
    /\ step[t] = "idle"
    /\ want' = [want EXCEPT ![t] = k]
    /\ CacheGet(t, k, FALSE, "idle",
                IF C!Lookup(k, FALSE) = "fresh" THEN "idle" ELSE "resolve")
    /\ UNCHANGED <<flight, published, refresh>>

(***************************************************************************)
(* _schedule_prefetch(): take a slot and start a thread, or drop the flag. *)
(***************************************************************************)
StartRefresh(t, w) ==
    /\ Goto(t, "prefetch", then[t])
    /\ slot[w] = "free"
    /\ slot' = [slot EXCEPT ![w] = "resolving"]
    /\ target' = [target EXCEPT ![w] = want[t]]
    /\ then' = [then EXCEPT ![t] = "idle"]
    /\ UNCHANGED <<flight, cache, now, want, got, published>>

\* Mutant: without a free slot the refresh is skipped and its mark stays.
NoSlotForgets(t) ==
    /\ Goto(t, "prefetch", then[t])
    /\ \A w \in Slots : slot[w] # "free"
    /\ then' = [then EXCEPT ![t] = "idle"]
    /\ UNCHANGED <<flight, cache, now, want, got, published, refresh>>

NoSlot(t) ==
    /\ Goto(t, "prefetch", then[t])
    /\ \A w \in Slots : slot[w] # "free"
    /\ C!FinishRefresh(want[t])
    /\ then' = [then EXCEPT ![t] = "idle"]
    /\ UNCHANGED <<flight, want, got, published, refresh>>

RefreshAnswered(w) ==
    /\ slot[w] = "resolving"
    /\ slot' = [slot EXCEPT ![w] = "finish"]
    /\ \E ttl \in UpstreamTTLs : C!Put(target[w], ttl)
    /\ UNCHANGED <<flight, engine, published, target>>

RefreshFailed(w) ==
    /\ slot[w] = "resolving"
    /\ slot' = [slot EXCEPT ![w] = "finish"]
    /\ UNCHANGED <<flight, cache, now, engine, published, target>>

RefreshDone(w) ==
    /\ slot[w] = "finish"
    /\ slot' = [slot EXCEPT ![w] = "release"]
    /\ C!FinishRefresh(target[w])
    /\ UNCHANGED <<flight, engine, published, target>>

ReleaseSlot(w) ==
    /\ slot[w] = "release"
    /\ slot' = [slot EXCEPT ![w] = "free"]
    /\ target' = [target EXCEPT ![w] = NoKey]
    /\ UNCHANGED <<flight, cache, now, engine, published>>

(***************************************************************************)
(* _resolve(), the leader.                                                 *)
(***************************************************************************)
Lead(t) ==
    /\ Goto(t, "resolve", "upstream")
    /\ F!Lead(t, want[t])
    /\ UNCHANGED <<cache, want, then, got, published, refresh>>

UpstreamAnswers(t) ==
    /\ Goto(t, "upstream", "publish")
    /\ \E ttl \in UpstreamTTLs : C!Put(want[t], ttl)
    /\ got' = [got EXCEPT ![t] = "fresh"]
    /\ UNCHANGED <<flight, want, then, published, refresh>>

UpstreamFails(t) ==
    /\ Goto(t, "upstream", IF ServeStale THEN "fallback" ELSE "publish")
    /\ UNCHANGED <<flight, cache, now, want, then, got, published, refresh>>

StaleFallback(t) ==
    /\ CacheGet(t, want[t], TRUE, "fallback", "publish")
    /\ UNCHANGED <<flight, want, published, refresh>>

\* Mutant: done() is not in a `finally`.
UpstreamRaisesPastDone(t) ==
    /\ Goto(t, "upstream", "idle")
    /\ pc' = [pc EXCEPT ![t] = "idle"]
    /\ UNCHANGED <<key, ev, popped, waiters, isSet, results, handed, cache,
                   now, want, then, got, published, refresh>>

\* An exception other than ResolutionError: only the `finally` runs.
UpstreamRaises(t) ==
    /\ Goto(t, "upstream", "flight")
    /\ F!Die(t)
    /\ UNCHANGED <<cache, want, then, got, published, refresh>>

Publish(t) ==
    /\ Goto(t, "publish", "flight")
    /\ F!Publish(t)
    /\ published' = [published EXCEPT ![want[t]] = got[t]]
    /\ UNCHANGED <<cache, want, then, got, refresh>>

Release(t) ==
    /\ step[t] = "flight"
    /\ F!Notify(t) \/ F!Done(t)
    /\ UNCHANGED <<cache, engine, published, refresh>>

LeaderReturns(t) ==
    /\ Goto(t, "flight", "idle")
    /\ F!Return(t)
    /\ UNCHANGED <<cache, want, then, got, published, refresh>>

(***************************************************************************)
(* _resolve(), a follower: the leader's result, else the cache again.      *)
(***************************************************************************)
Follow(t) ==
    /\ Goto(t, "resolve", "follow")
    /\ F!Follow(t, want[t])
    /\ UNCHANGED <<cache, want, then, got, published, refresh>>

Wake(t) ==
    /\ step[t] = "follow"
    /\ F!Wake(t)
    /\ UNCHANGED <<cache, engine, published, refresh>>

Shared(k) == IF results[k] = F!NoTime THEN "none" ELSE published[k]

Collect(t) ==
    /\ Goto(t, "follow", IF Shared(want[t]) = "none" THEN "recheck" ELSE "idle")
    /\ F!Collect(t)
    /\ got' = [got EXCEPT ![t] = Shared(want[t])]
    /\ UNCHANGED <<cache, want, then, published, refresh>>

GiveUp(t) ==
    /\ Goto(t, "follow", "recheck")
    /\ F!GiveUp(t)
    /\ UNCHANGED <<cache, want, then, got, published, refresh>>

\* Mutant: a follower left without an answer starts over.
RecheckRetries(t) ==
    /\ CacheGet(t, want[t], ServeStale, "recheck",
                IF Outcome(want[t], ServeStale) = "none" THEN "resolve" ELSE "idle")
    /\ UNCHANGED <<flight, want, published, refresh>>

Recheck(t) ==
    /\ CacheGet(t, want[t], ServeStale, "recheck", "idle")
    /\ UNCHANGED <<flight, want, published, refresh>>

-------------------------------------------------------------------------------
\* A rule changed, or the dashboard flushes a name.
Invalidate(k) ==
    /\ C!Invalidate({k})
    /\ UNCHANGED <<flight, engine, published, refresh>>

Tick ==
    /\ now < MaxTime
    /\ now' = now + 1
    /\ UNCHANGED <<flight, cache, engine, published, refresh>>

\* What a thread does once it has a query, its own timeout aside.
Thread(t) ==
    \/ \E w \in Slots : StartRefresh(t, w)
    \/ NoSlot(t)
    \/ Lead(t) \/ UpstreamAnswers(t) \/ UpstreamFails(t) \/ UpstreamRaises(t)
    \/ StaleFallback(t) \/ Publish(t) \/ Release(t) \/ LeaderReturns(t)
    \/ Follow(t) \/ Wake(t) \/ Collect(t) \/ Recheck(t)

Refresher(w) ==
    RefreshAnswered(w) \/ RefreshFailed(w) \/ RefreshDone(w) \/ ReleaseSlot(w)

Next ==
    \/ \E t \in Threads : \/ Thread(t) \/ GiveUp(t)
                          \/ \E k \in Keys : Query(t, k)
    \/ \E w \in Slots : Refresher(w)
    \/ \E k \in Keys : Invalidate(k)
    \/ Tick

Spec == Init /\ [][Next]_vars

\* Threads that have work are scheduled, and upstream lookups end.
FairSpec ==
    /\ Spec
    /\ \A t \in Threads : WF_vars(Thread(t))
    /\ \A w \in Slots : WF_vars(Refresher(w))
-------------------------------------------------------------------------------
\* An entry is marked "refreshing" only while somebody is on the way to clear
\* the mark: the thread whose lookup set it and has not called the prefetch
\* callback yet, or a background thread.  A mark left behind would switch
\* prefetching off for that name.
RefreshMarkOwned ==
    \A k \in Keys : entries[k] # NoEntry /\ entries[k].refreshing =>
        \/ \E t \in Threads : step[t] = "prefetch" /\ want[t] = k
        \/ \E w \in Slots : slot[w] \in {"resolving", "finish"} /\ target[w] = k

\* Every query comes back, also when its leader dies of an unexpected error,
\* and without the help of the follower's timeout.
QueryReturns == \A t \in Threads : step[t] # "idle" ~> step[t] = "idle"

\* What single flight and the cache promise holds of the engine, which drives
\* both only through their operations: a thread, the prefetch callback in it
\* and the background threads never leave either in a state of their own
\* making, also when upstream fails or raises (engine.py:480).
ComponentsImplemented == F!Spec /\ C!Spec
===============================================================================
