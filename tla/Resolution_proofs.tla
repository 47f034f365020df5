--------------------------- MODULE Resolution_proofs ---------------------------
(***************************************************************************)
(* Theorems about the resolution engine, for any keys, threads, lifetimes  *)
(* and sizes.                                                              *)
(*                                                                         *)
(* Every step of the engine is a step of single flight and a step of the   *)
(* cache, or leaves them alone.  So the promises of both carry over, and   *)
(* the invariant of the cache with them, from which follows that every     *)
(* refresh mark has a thread that will clear it.                           *)
(***************************************************************************)
EXTENDS Resolution, TLAPS

FP == INSTANCE SingleFlight_proofs
CP == INSTANCE DNSCache_proofs

\* A thread at work has a key, and so has a background thread.
EngineInv ==
    /\ step \in [Threads -> Steps] /\ want \in [Threads -> Keys \cup {NoKey}]
    /\ then \in [Threads -> Steps]
    /\ slot \in [Slots -> {"free", "resolving", "finish", "release"}]
    /\ target \in [Slots -> Keys \cup {NoKey}]
    /\ \A t \in Threads : step[t] # "idle" => want[t] \in Keys
    /\ \A w \in Slots : slot[w] # "free" => target[w] \in Keys

\* It holds when the engine starts.
LEMMA EngineInit == Init => EngineInv
BY DEF Init, EngineInv, Steps

\* Every step of the engine keeps it.
LEMMA EngineStep == EngineInv /\ [Next]_vars => EngineInv'
<1>. SUFFICES ASSUME EngineInv, [Next]_vars PROVE EngineInv'
  OBVIOUS
<1>. USE DEF EngineInv, Goto, Steps, engine, refresh
<1>1. ASSUME NEW t \in Threads, NEW k \in Keys, Query(t, k) PROVE EngineInv'
  BY <1>1 DEF Query, CacheGet
<1>2. ASSUME NEW t \in Threads, NEW w \in Slots, StartRefresh(t, w) PROVE EngineInv'
  BY <1>2 DEF StartRefresh
<1>3. ASSUME NEW t \in Threads, NoSlot(t) PROVE EngineInv'
  BY <1>3 DEF NoSlot, refresh
<1>4. ASSUME NEW t \in Threads, Lead(t) PROVE EngineInv'
  BY <1>4 DEF Lead
<1>5. ASSUME NEW t \in Threads, UpstreamAnswers(t) PROVE EngineInv'
  BY <1>5 DEF UpstreamAnswers
<1>6. ASSUME NEW t \in Threads, UpstreamFails(t) PROVE EngineInv'
  BY <1>6 DEF UpstreamFails
<1>7. ASSUME NEW t \in Threads, UpstreamRaises(t) PROVE EngineInv'
  BY <1>7 DEF UpstreamRaises
<1>8. ASSUME NEW t \in Threads, StaleFallback(t) PROVE EngineInv'
  BY <1>8 DEF StaleFallback, CacheGet
<1>9. ASSUME NEW t \in Threads, Publish(t) PROVE EngineInv'
  BY <1>9 DEF Publish
<1>10. ASSUME NEW t \in Threads, Release(t) PROVE EngineInv'
  BY <1>10 DEF Release
<1>11. ASSUME NEW t \in Threads, LeaderReturns(t) PROVE EngineInv'
  BY <1>11 DEF LeaderReturns
<1>12. ASSUME NEW t \in Threads, Follow(t) PROVE EngineInv'
  BY <1>12 DEF Follow
<1>13. ASSUME NEW t \in Threads, Wake(t) PROVE EngineInv'
  BY <1>13 DEF Wake
<1>14. ASSUME NEW t \in Threads, Collect(t) PROVE EngineInv'
  BY <1>14 DEF Collect
<1>15. ASSUME NEW t \in Threads, Recheck(t) PROVE EngineInv'
  BY <1>15 DEF Recheck, CacheGet
<1>16. ASSUME NEW t \in Threads, GiveUp(t) PROVE EngineInv'
  BY <1>16 DEF GiveUp
<1>17. ASSUME NEW w \in Slots, RefreshAnswered(w) PROVE EngineInv'
  BY <1>17 DEF RefreshAnswered
<1>18. ASSUME NEW w \in Slots, RefreshFailed(w) PROVE EngineInv'
  BY <1>18 DEF RefreshFailed
<1>19. ASSUME NEW w \in Slots, RefreshDone(w) PROVE EngineInv'
  BY <1>19 DEF RefreshDone
<1>20. ASSUME NEW w \in Slots, ReleaseSlot(w) PROVE EngineInv'
  BY <1>20 DEF ReleaseSlot
<1>21. ASSUME NEW k \in Keys, Invalidate(k) PROVE EngineInv'
  BY <1>21 DEF Invalidate
<1>22. CASE Tick
  BY <1>22 DEF Tick
<1>23. CASE UNCHANGED vars
  BY <1>23 DEF vars
<1>. QED
  BY <1>1, <1>2, <1>3, <1>4, <1>5, <1>6, <1>7, <1>8, <1>9, <1>10, <1>11, <1>12, <1>13, <1>14, <1>15, <1>16, <1>17, <1>18, <1>19, <1>20, <1>21, <1>22, <1>23 DEF Next, Thread, Refresher

\* Every step of the engine is a step of single flight, or none of it.
LEMMA FlightStep == EngineInv /\ [Next]_vars => [F!Next]_(F!vars)
<1>. SUFFICES ASSUME EngineInv, [Next]_vars PROVE [F!Next]_(F!vars)
  OBVIOUS
<1>. USE DEF Goto, flight, F!vars
<1>1. ASSUME NEW t \in Threads, NEW k \in Keys, Query(t, k) PROVE [F!Next]_(F!vars)
  BY <1>1 DEF Query, CacheGet, C!Get
<1>2. ASSUME NEW t \in Threads, NEW w \in Slots, StartRefresh(t, w) PROVE [F!Next]_(F!vars)
  BY <1>2 DEF StartRefresh
<1>3. ASSUME NEW t \in Threads, NoSlot(t) PROVE [F!Next]_(F!vars)
  BY <1>3 DEF NoSlot, refresh, C!FinishRefresh
<1>4. ASSUME NEW t \in Threads, Lead(t) PROVE [F!Next]_(F!vars)
  BY <1>4 DEF Lead, F!Next, F!Thread, EngineInv
<1>5. ASSUME NEW t \in Threads, UpstreamAnswers(t) PROVE [F!Next]_(F!vars)
  BY <1>5 DEF UpstreamAnswers, C!Put
<1>6. ASSUME NEW t \in Threads, UpstreamFails(t) PROVE [F!Next]_(F!vars)
  BY <1>6 DEF UpstreamFails
<1>7. ASSUME NEW t \in Threads, UpstreamRaises(t) PROVE [F!Next]_(F!vars)
  BY <1>7 DEF UpstreamRaises, F!Next, F!Thread, EngineInv
<1>8. ASSUME NEW t \in Threads, StaleFallback(t) PROVE [F!Next]_(F!vars)
  BY <1>8 DEF StaleFallback, CacheGet, C!Get
<1>9. ASSUME NEW t \in Threads, Publish(t) PROVE [F!Next]_(F!vars)
  BY <1>9 DEF Publish, F!Next, F!Thread, EngineInv
<1>10. ASSUME NEW t \in Threads, Release(t) PROVE [F!Next]_(F!vars)
  BY <1>10 DEF Release, F!Next, F!Thread, EngineInv
<1>11. ASSUME NEW t \in Threads, LeaderReturns(t) PROVE [F!Next]_(F!vars)
  BY <1>11 DEF LeaderReturns, F!Next, F!Thread, EngineInv
<1>12. ASSUME NEW t \in Threads, Follow(t) PROVE [F!Next]_(F!vars)
  BY <1>12 DEF Follow, F!Next, F!Thread, EngineInv
<1>13. ASSUME NEW t \in Threads, Wake(t) PROVE [F!Next]_(F!vars)
  BY <1>13 DEF Wake, F!Next, F!Thread, EngineInv
<1>14. ASSUME NEW t \in Threads, Collect(t) PROVE [F!Next]_(F!vars)
  BY <1>14 DEF Collect, F!Next, F!Thread, EngineInv
<1>15. ASSUME NEW t \in Threads, Recheck(t) PROVE [F!Next]_(F!vars)
  BY <1>15 DEF Recheck, CacheGet, C!Get
<1>16. ASSUME NEW t \in Threads, GiveUp(t) PROVE [F!Next]_(F!vars)
  BY <1>16 DEF GiveUp, F!Next, F!Thread, EngineInv
<1>17. ASSUME NEW w \in Slots, RefreshAnswered(w) PROVE [F!Next]_(F!vars)
  BY <1>17 DEF RefreshAnswered, C!Put
<1>18. ASSUME NEW w \in Slots, RefreshFailed(w) PROVE [F!Next]_(F!vars)
  BY <1>18 DEF RefreshFailed
<1>19. ASSUME NEW w \in Slots, RefreshDone(w) PROVE [F!Next]_(F!vars)
  BY <1>19 DEF RefreshDone, C!FinishRefresh
<1>20. ASSUME NEW w \in Slots, ReleaseSlot(w) PROVE [F!Next]_(F!vars)
  BY <1>20 DEF ReleaseSlot
<1>21. ASSUME NEW k \in Keys, Invalidate(k) PROVE [F!Next]_(F!vars)
  BY <1>21 DEF Invalidate, C!Invalidate
<1>22. CASE Tick
  BY <1>22 DEF Tick, F!Next, F!Tick
<1>23. CASE UNCHANGED vars
  BY <1>23 DEF vars
<1>. QED
  BY <1>1, <1>2, <1>3, <1>4, <1>5, <1>6, <1>7, <1>8, <1>9, <1>10, <1>11, <1>12, <1>13, <1>14, <1>15, <1>16, <1>17, <1>18, <1>19, <1>20, <1>21, <1>22, <1>23 DEF Next, Thread, Refresher

\* Every step of the engine is a step of the cache, or none of it.
LEMMA CacheStep == EngineInv /\ [Next]_vars => [C!Next]_(C!vars)
<1>. SUFFICES ASSUME EngineInv, [Next]_vars PROVE [C!Next]_(C!vars)
  OBVIOUS
<1>. USE DEF Goto, cache, C!vars
<1>1. ASSUME NEW t \in Threads, NEW k \in Keys, Query(t, k) PROVE [C!Next]_(C!vars)
  BY <1>1 DEF Query, CacheGet, C!Next, EngineInv
<1>2. ASSUME NEW t \in Threads, NEW w \in Slots, StartRefresh(t, w) PROVE [C!Next]_(C!vars)
  BY <1>2 DEF StartRefresh
<1>3. ASSUME NEW t \in Threads, NoSlot(t) PROVE [C!Next]_(C!vars)
  BY <1>3 DEF NoSlot, refresh, C!Next, EngineInv
<1>4. ASSUME NEW t \in Threads, Lead(t) PROVE [C!Next]_(C!vars)
  BY <1>4 DEF Lead, F!Lead
<1>5. ASSUME NEW t \in Threads, UpstreamAnswers(t) PROVE [C!Next]_(C!vars)
  BY <1>5 DEF UpstreamAnswers, C!Next, EngineInv
<1>6. ASSUME NEW t \in Threads, UpstreamFails(t) PROVE [C!Next]_(C!vars)
  BY <1>6 DEF UpstreamFails
<1>7. ASSUME NEW t \in Threads, UpstreamRaises(t) PROVE [C!Next]_(C!vars)
  BY <1>7 DEF UpstreamRaises, F!Die
<1>8. ASSUME NEW t \in Threads, StaleFallback(t) PROVE [C!Next]_(C!vars)
  BY <1>8 DEF StaleFallback, CacheGet, C!Next, EngineInv
<1>9. ASSUME NEW t \in Threads, Publish(t) PROVE [C!Next]_(C!vars)
  BY <1>9 DEF Publish, F!Publish
<1>10. ASSUME NEW t \in Threads, Release(t) PROVE [C!Next]_(C!vars)
  BY <1>10 DEF Release, F!Notify, F!Done
<1>11. ASSUME NEW t \in Threads, LeaderReturns(t) PROVE [C!Next]_(C!vars)
  BY <1>11 DEF LeaderReturns, F!Return
<1>12. ASSUME NEW t \in Threads, Follow(t) PROVE [C!Next]_(C!vars)
  BY <1>12 DEF Follow, F!Follow
<1>13. ASSUME NEW t \in Threads, Wake(t) PROVE [C!Next]_(C!vars)
  BY <1>13 DEF Wake, F!Wake
<1>14. ASSUME NEW t \in Threads, Collect(t) PROVE [C!Next]_(C!vars)
  BY <1>14 DEF Collect, F!Collect
<1>15. ASSUME NEW t \in Threads, Recheck(t) PROVE [C!Next]_(C!vars)
  BY <1>15, EngineAssumption DEF Recheck, CacheGet, C!Next, EngineInv
<1>16. ASSUME NEW t \in Threads, GiveUp(t) PROVE [C!Next]_(C!vars)
  BY <1>16 DEF GiveUp, F!GiveUp
<1>17. ASSUME NEW w \in Slots, RefreshAnswered(w) PROVE [C!Next]_(C!vars)
  BY <1>17 DEF RefreshAnswered, C!Next, EngineInv
<1>18. ASSUME NEW w \in Slots, RefreshFailed(w) PROVE [C!Next]_(C!vars)
  BY <1>18 DEF RefreshFailed
<1>19. ASSUME NEW w \in Slots, RefreshDone(w) PROVE [C!Next]_(C!vars)
  BY <1>19 DEF RefreshDone, C!Next, EngineInv
<1>20. ASSUME NEW w \in Slots, ReleaseSlot(w) PROVE [C!Next]_(C!vars)
  BY <1>20 DEF ReleaseSlot
<1>21. ASSUME NEW k \in Keys, Invalidate(k) PROVE [C!Next]_(C!vars)
  BY <1>21 DEF Invalidate, C!Next, EngineInv
<1>22. CASE Tick
  BY <1>22 DEF Tick, C!Next, C!Tick
<1>23. CASE UNCHANGED vars
  BY <1>23 DEF vars
<1>. QED
  BY <1>1, <1>2, <1>3, <1>4, <1>5, <1>6, <1>7, <1>8, <1>9, <1>10, <1>11, <1>12, <1>13, <1>14, <1>15, <1>16, <1>17, <1>18, <1>19, <1>20, <1>21, <1>22, <1>23 DEF Next, Thread, Refresher

\* resolve() of engine.py uses single flight and the cache only as they may be
\* used: every behaviour of the engine is one of SingleFlight and one of DNSCache,
\* with an upstream that may fail any leader and a prefetch slot for every thread.
THEOREM EngineImplementsComponents == Spec => ComponentsImplemented
<1>1. Init => F!Init /\ C!Init
  BY DEF Init
<1>. QED
  BY <1>1, EngineInit, EngineStep, FlightStep, CacheStep, PTL DEF Spec, ComponentsImplemented, F!Spec, C!Spec


\* The single flight the engine contains is the one SingleFlight_proofs is about.
LEMMA SameFlight == [F!Next]_(F!vars) => [FP!Next]_(FP!vars)
<1>. USE DEF F!Goto, FP!Goto, F!NoTime, FP!NoTime
<1>1. \A t \in Threads, k \in Keys : F!Lead(t, k) => FP!Lead(t, k)
  BY DEF F!Lead, FP!Lead, F!FreshEvent, FP!FreshEvent, F!InUse, FP!InUse
<1>2. \A t \in Threads, k \in Keys : F!Follow(t, k) => FP!Follow(t, k)
  BY DEF F!Follow, FP!Follow
<1>3. \A t \in Threads : F!Publish(t) => FP!Publish(t)
  BY DEF F!Publish, FP!Publish, F!Pruned, FP!Pruned, F!Retained, FP!Retained, F!InGrace, FP!InGrace,
     F!Keep, FP!Keep, F!OlderHalves, FP!OlderHalves, F!Cardinality, FP!Cardinality
<1>4. \A t \in Threads : F!Notify(t) => FP!Notify(t)
  BY DEF F!Notify, FP!Notify, F!Flagged, FP!Flagged
<1>5. \A t \in Threads : F!Die(t) => FP!Die(t)
  BY DEF F!Die, FP!Die
<1>6. \A t \in Threads : F!Done(t) => FP!Done(t)
  BY DEF F!Done, FP!Done
<1>7. \A t \in Threads : F!Return(t) => FP!Return(t)
  BY DEF F!Return, FP!Return, F!Forget, FP!Forget, F!Flagged, FP!Flagged
<1>8. \A t \in Threads : F!Wake(t) => FP!Wake(t)
  BY DEF F!Wake, FP!Wake
<1>9. \A t \in Threads : F!Collect(t) => FP!Collect(t)
  BY DEF F!Collect, FP!Collect, F!Forget, FP!Forget
<1>10. \A t \in Threads : F!GiveUp(t) => FP!GiveUp(t)
  BY DEF F!GiveUp, FP!GiveUp, F!Forget, FP!Forget
<1>11. F!Tick => FP!Tick
  BY DEF F!Tick, FP!Tick
<1>. QED
  BY <1>1, <1>2, <1>3, <1>4, <1>5, <1>6, <1>7, <1>8, <1>9, <1>10, <1>11
     DEF F!Next, FP!Next, F!Thread, FP!Thread, F!vars, FP!vars

\* And so is its cache the one of DNSCache_proofs.
LEMMA SameCache == [C!Next]_(C!vars) => [CP!Next]_(CP!vars)
\* The operators of the two are the same.
<1>1. /\ \A r : C!Listed(r) = CP!Listed(r)
      /\ \A r, S : C!Only(r, S) = CP!Only(r, S)
  BY DEF C!Listed, CP!Listed, C!Only, CP!Only
<1>2. \A r, k : C!Without(r, k) = CP!Without(r, k)
  BY <1>1 DEF C!Without, CP!Without
<1>3. \A k : /\ C!Fresh(k) = CP!Fresh(k)
             /\ C!Kept(k) = CP!Kept(k)
  BY DEF C!Fresh, CP!Fresh, C!Kept, CP!Kept
<1>4. \A e : C!Hit(e) = CP!Hit(e)
  BY DEF C!Hit, CP!Hit
<1>5. /\ \A k, stale : C!Lookup(k, stale) = CP!Lookup(k, stale)
      /\ \A k : C!DueForPrefetch(k) = CP!DueForPrefetch(k)
  BY <1>3, <1>4 DEF C!Lookup, CP!Lookup, C!DueForPrefetch, CP!DueForPrefetch
<1>6. /\ \A ttl : C!Clamp(ttl) = CP!Clamp(ttl)
      /\ \A ttl : C!NewEntry(ttl) = CP!NewEntry(ttl)
  BY DEF C!Clamp, CP!Clamp, C!NewEntry, CP!NewEntry
<1>7. \A r : C!Hottest(r) = CP!Hottest(r)
  BY DEF C!Hottest, CP!Hottest
<1>8. \A table, r : C!ForKeys(table, r) = CP!ForKeys(table, r)
  BY <1>1 DEF C!ForKeys, CP!ForKeys
<1>9. \A r : C!Restored(r) = CP!Restored(r)
  BY <1>1 DEF C!Restored, CP!Restored
<1>10. \A pairs : C!TableOf(pairs) = CP!TableOf(pairs)
  BY DEF C!TableOf, CP!TableOf
\* And so are the steps.
<1>11. \A k \in Keys, stale \in BOOLEAN : C!Get(k, stale) => CP!Get(k, stale)
  BY <1>2, <1>3, <1>4, <1>5 DEF C!Get, CP!Get
<1>12. \A k \in Keys, ttl \in UpstreamTTLs : C!Put(k, ttl) => CP!Put(k, ttl)
  <2>1. \A k, ttl : C!Store(k, ttl) => CP!Store(k, ttl)
    BY <1>2, <1>6, <1>7, <1>8 DEF C!Store, CP!Store
  <2>. QED
    BY <1>6, <2>1 DEF C!Put, CP!Put
<1>13. \A k \in Keys : C!FinishRefresh(k) => CP!FinishRefresh(k)
  BY DEF C!FinishRefresh, CP!FinishRefresh
<1>14. \A S : C!Invalidate(S) => CP!Invalidate(S)
  BY <1>1 DEF C!Invalidate, CP!Invalidate
<1>15. C!Save => CP!Save
  BY <1>1, <1>3 DEF C!Save, CP!Save
<1>16. \A n \in 0..Len(disk) : C!Restart(n) => CP!Restart(n)
  BY <1>7, <1>8, <1>9, <1>10 DEF C!Restart, CP!Restart
<1>17. C!Tick => CP!Tick
  BY DEF C!Tick, CP!Tick
<1>. QED
  BY <1>11, <1>12, <1>13, <1>14, <1>15, <1>16, <1>17 DEF C!Next, CP!Next, C!vars, CP!vars

\* What the engine assumes is enough for the cache.
LEMMA CacheAssumption == CP!CacheConfigOK /\ NoEntry \notin CP!Entry
  BY EngineAssumption DEF C!CacheConfigOK, CP!CacheConfigOK, C!Entry, CP!Entry

\* Its behaviours are the same.
LEMMA SameCacheSpec == C!Spec => CP!Spec
<1>1. C!Init => CP!Init
  BY DEF C!Init, CP!Init
<1>. QED
  BY <1>1, SameCache, PTL DEF C!Spec, CP!Spec

\* What single flight and the cache promise on their own they keep inside
\* resolve() of engine.py, whatever upstream does to its leaders.
THEOREM EngineKeepsPromises ==
    Spec => [](F!NoAbandonedKey /\ F!NoLostWakeup /\ C!BoundedLRU) /\ C!NoResurrection
<1>1. F!Init => FP!Init
  BY DEF F!Init, FP!Init, F!NoTime, FP!NoTime
<1>2. FP!NoAbandonedKey /\ FP!NoLostWakeup => F!NoAbandonedKey /\ F!NoLostWakeup
  BY DEF F!NoAbandonedKey, FP!NoAbandonedKey, F!NoLostWakeup, FP!NoLostWakeup
<1>3. FP!Spec => []FP!NoAbandonedKey /\ []FP!NoLostWakeup
  <2>1. NoEvent \notin Events /\ NoKey \notin Keys
    BY EngineAssumption
  <2>2. MaxResults \in Nat /\ Grace \in Nat /\ MaxTime \in Nat
    BY EngineAssumption
  <2>. QED
    BY FP!KeyNeverAbandoned, FP!WakeupNeverLost, <2>1, <2>2, PTL
<1>4. C!Spec => []C!BoundedLRU /\ C!NoResurrection
  <2>1. CP!Spec => []CP!BoundedLRU /\ CP!NoResurrection
    BY CacheAssumption, CP!CacheStaysBounded, CP!CacheNeverResurrects
  <2>2. CP!BoundedLRU => C!BoundedLRU
    BY DEF C!BoundedLRU, CP!BoundedLRU, C!Listed, CP!Listed, C!Cardinality, CP!Cardinality
  <2>3. CP!NoResurrection => C!NoResurrection
    BY DEF C!NoResurrection, CP!NoResurrection, C!vars, CP!vars
  <2>. QED
    BY <2>1, <2>2, <2>3, SameCacheSpec, PTL
<1>. QED
  BY <1>1, <1>2, <1>3, <1>4, SameFlight, EngineImplementsComponents,
     PTL DEF ComponentsImplemented, F!Spec, FP!Spec

-------------------------------------------------------------------------------
\* The invariant of the cache, as far as marks depend on it.
EntriesTyped == entries \in [Keys -> C!Entry \cup {NoEntry}]

LEMMA EntriesAreTyped == C!Spec => []EntriesTyped
<1>1. CP!CacheInv => EntriesTyped
  BY DEF CP!CacheInv, CP!TableInv, CP!Entry, C!Entry, EntriesTyped
<1>2. CP!Spec => []CP!CacheInv
  BY CacheAssumption, CP!CacheInvariance
<1>. QED
  BY <1>1, <1>2, SameCacheSpec, PTL

\* The entry of the key carries the refresh mark.
Marked(k) == entries[k] # NoEntry /\ entries[k].refreshing

\* Some thread is on its way to clear the mark.
Owned(k) ==
    \/ \E t \in Threads : step[t] = "prefetch" /\ want[t] = k
    \/ \E w \in Slots : slot[w] \in {"resolving", "finish"} /\ target[w] = k

\* Who may set a mark: the lookup that finds the entry due.
LEMMA GetMarks ==
    ASSUME EntriesTyped, NEW k \in Keys, NEW stale \in BOOLEAN, C!Get(k, stale)
    PROVE  \A j \in Keys : Marked(j)' => Marked(j) \/ (j = k /\ C!DueForPrefetch(k))
<1>1. CASE C!Lookup(k, stale) # "miss"
  <2>1. entries[k] # NoEntry /\ entries[k] \in C!Entry
    BY <1>1 DEF C!Lookup, EntriesTyped
  <2>2. entries' = [entries EXCEPT ![k].hits = C!Hit(entries[k]),
                            ![k].refreshing = @ \/ C!DueForPrefetch(k)]
    BY <1>1 DEF C!Get
  <2>3. entries'[k].refreshing = (entries[k].refreshing \/ C!DueForPrefetch(k))
    BY <2>1, <2>2 DEF C!Entry, EntriesTyped
  <2>4. \A j \in Keys : j # k => entries'[j] = entries[j]
    BY <2>2 DEF EntriesTyped
  <2>. QED
    BY <2>1, <2>3, <2>4 DEF Marked
<1>2. CASE C!Lookup(k, stale) = "miss"
  BY <1>2 DEF C!Get, EntriesTyped, Marked
<1>. QED
  BY <1>1, <1>2

\* Nothing else does, and finish_refresh() clears it.
LEMMA OthersMark ==
    ASSUME EntriesTyped, NEW k \in Keys
    PROVE  /\ \A ttl \in UpstreamTTLs : C!Put(k, ttl) => \A j \in Keys : Marked(j)' => Marked(j)
           /\ C!FinishRefresh(k) => \A j \in Keys : Marked(j)' => Marked(j) /\ j # k
           /\ C!Invalidate({k}) => \A j \in Keys : Marked(j)' => Marked(j)
<1>1. ASSUME NEW ttl \in UpstreamTTLs, C!Put(k, ttl), NEW j \in Keys, Marked(j)' PROVE Marked(j)
  BY <1>1 DEF C!Put, C!Store, C!ForKeys, C!NewEntry, Marked, EntriesTyped
<1>2. ASSUME C!FinishRefresh(k), NEW j \in Keys, Marked(j)' PROVE Marked(j) /\ j # k
  <2>1. entries[k] # NoEntry => entries[k] \in C!Entry
    BY DEF EntriesTyped
  <2>. QED
    BY <1>2, <2>1 DEF C!FinishRefresh, Marked, EntriesTyped, C!Entry
<1>3. ASSUME C!Invalidate({k}), NEW j \in Keys, Marked(j)' PROVE Marked(j)
  BY <1>3 DEF C!Invalidate, Marked, EntriesTyped
<1>. QED
  BY <1>1, <1>2, <1>3

\* Every step keeps the mark owned.
LEMMA MarkStep == EngineInv /\ EntriesTyped /\ RefreshMarkOwned /\ [Next]_vars => RefreshMarkOwned'
<1>. SUFFICES ASSUME EngineInv, EntriesTyped, RefreshMarkOwned, [Next]_vars,
                     NEW j \in Keys, Marked(j)'
              PROVE  Owned(j)'
  BY DEF RefreshMarkOwned, Marked, Owned
<1>. USE DEF Goto, EngineInv, Steps
<1>0. Marked(j) => Owned(j)
  BY DEF RefreshMarkOwned, Marked, Owned
<1>1. ASSUME NEW t \in Threads, NEW k \in Keys, NEW stale \in BOOLEAN, C!Get(k, stale),
             step[t] # "prefetch", want' = [want EXCEPT ![t] = k],
             NEW to, step' = [step EXCEPT ![t] = IF C!DueForPrefetch(k) THEN "prefetch" ELSE to],
             UNCHANGED refresh
      PROVE  Owned(j)'
  <2>1. Marked(j) \/ (j = k /\ C!DueForPrefetch(k))
    BY <1>1, GetMarks
  <2>2. CASE Marked(j)
    BY <1>0, <1>1, <2>2 DEF Owned, refresh
  <2>3. CASE j = k /\ C!DueForPrefetch(k)
    BY <1>1, <2>3 DEF Owned
  <2>. QED
    BY <2>1, <2>2, <2>3
<1>2. ASSUME NEW t \in Threads, NEW k \in Keys, Query(t, k) PROVE Owned(j)'
  BY <1>1, <1>2 DEF Query, CacheGet
<1>3. ASSUME NEW t \in Threads, StaleFallback(t) \/ Recheck(t) PROVE Owned(j)'
  <2>1. /\ want[t] \in Keys /\ want' = want /\ want' = [want EXCEPT ![t] = want[t]]
        /\ step[t] \in {"fallback", "recheck"} /\ UNCHANGED refresh
    BY <1>3 DEF StaleFallback, Recheck, CacheGet
  <2>2. PICK to : step' = [step EXCEPT ![t] = IF C!DueForPrefetch(want[t]) THEN "prefetch" ELSE to]
    BY <1>3 DEF StaleFallback, Recheck, CacheGet
  <2>3. PICK stale \in BOOLEAN : C!Get(want[t], stale)
    BY <1>3, EngineAssumption DEF StaleFallback, Recheck, CacheGet
  <2>4. step[t] # "prefetch"
    BY <2>1
  <2>. HIDE DEF EngineInv
  <2>. QED
    BY <1>1, <2>1, <2>2, <2>3, <2>4
<1>4. ASSUME NEW t \in Threads, NEW w \in Slots, StartRefresh(t, w) PROVE Owned(j)'
  <2>1. Marked(j)
    BY <1>4 DEF StartRefresh, Marked, cache
  <2>2. CASE want[t] = j
    BY <1>4, <2>2 DEF StartRefresh, Owned
  <2>3. CASE want[t] # j
    BY <1>0, <1>4, <2>1, <2>3 DEF StartRefresh, Owned
  <2>. QED
    BY <2>2, <2>3
<1>5. ASSUME NEW t \in Threads, NoSlot(t) PROVE Owned(j)'
  <2>1. want[t] \in Keys /\ C!FinishRefresh(want[t]) /\ UNCHANGED <<want, refresh>>
        /\ step' = [step EXCEPT ![t] = then[t]]
    BY <1>5 DEF NoSlot
  <2>2. Marked(j) /\ j # want[t]
    BY <2>1, OthersMark
  <2>. QED
    BY <1>0, <2>1, <2>2 DEF Owned, refresh
<1>6. ASSUME NEW w \in Slots, RefreshAnswered(w) PROVE Owned(j)'
  <2>1. Marked(j)
    BY <1>6, OthersMark DEF RefreshAnswered
  <2>. QED
    BY <1>0, <1>6, <2>1 DEF RefreshAnswered, Owned, engine
<1>7. ASSUME NEW w \in Slots, RefreshDone(w) PROVE Owned(j)'
  <2>1. target[w] \in Keys /\ C!FinishRefresh(target[w])
    BY <1>7 DEF RefreshDone
  <2>2. Marked(j) /\ j # target[w]
    BY <2>1, OthersMark
  <2>. QED
    BY <1>0, <1>7, <2>2 DEF RefreshDone, Owned, engine
<1>8. ASSUME NEW w \in Slots, RefreshFailed(w) \/ ReleaseSlot(w) PROVE Owned(j)'
  <2>1. Marked(j)
    BY <1>8 DEF RefreshFailed, ReleaseSlot, Marked, cache
  <2>. QED
    BY <1>0, <1>8, <2>1 DEF RefreshFailed, ReleaseSlot, Owned, engine
<1>9. ASSUME NEW t \in Threads, UpstreamAnswers(t) PROVE Owned(j)'
  <2>1. Marked(j)
    BY <1>9, OthersMark DEF UpstreamAnswers
  <2>. QED
    BY <1>0, <1>9, <2>1 DEF UpstreamAnswers, Owned, refresh
<1>10. ASSUME NEW k \in Keys, Invalidate(k) PROVE Owned(j)'
  <2>1. Marked(j)
    BY <1>10, OthersMark DEF Invalidate
  <2>. QED
    BY <1>0, <1>10, <2>1 DEF Invalidate, Owned, refresh, engine
<1>11. ASSUME NEW t \in Threads,
              \/ Lead(t) \/ UpstreamFails(t) \/ UpstreamRaises(t) \/ Publish(t) \/ Release(t)
              \/ LeaderReturns(t) \/ Follow(t) \/ Wake(t) \/ Collect(t) \/ GiveUp(t)
       PROVE  Owned(j)'
  <2>1. /\ UNCHANGED <<entries, want, refresh>>
        /\ \/ UNCHANGED step
           \/ step[t] # "prefetch" /\ \E to : step' = [step EXCEPT ![t] = to]
    BY <1>11 DEF Lead, UpstreamFails, UpstreamRaises, Publish, Release, LeaderReturns,
         Follow, Wake, Collect, GiveUp, cache, engine
  <2>. QED
    BY <1>0, <2>1 DEF Owned, Marked, refresh
<1>12. CASE Tick \/ UNCHANGED vars
  BY <1>0, <1>12 DEF Tick, vars, Owned, Marked, refresh, engine, cache
<1>. QED
  BY <1>2, <1>3, <1>4, <1>5, <1>6, <1>7, <1>8, <1>9, <1>10, <1>11, <1>12 DEF Next, Thread, Refresher

\* Nobody forgets a refresh mark: an entry is marked only while a thread of
\* engine.py is on its way to finish_refresh(), so prefetching is never switched
\* off for a name.
THEOREM MarkAlwaysOwned == Spec => []RefreshMarkOwned
<1>1. Init => RefreshMarkOwned
  BY DEF Init, C!Init, RefreshMarkOwned
<1>. QED
  BY <1>1, EngineInit, EngineStep, MarkStep, EngineImplementsComponents, EntriesAreTyped, PTL
     DEF Spec, ComponentsImplemented
===============================================================================
