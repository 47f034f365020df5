-------------------------- MODULE SingleFlight_proofs --------------------------
(***************************************************************************)
(* Theorems about SingleFlight, for any number of threads, keys and        *)
(* events.                                                                 *)
(*                                                                         *)
(* NoAbandonedKey and NoLostWakeup are not inductive alone.  The           *)
(* strengthening says who may hold which event: an event out of the map is *)
(* held by at most one thread on its way to set it, no event is registered *)
(* twice, and a follower waits on the event of its own key.                *)
(***************************************************************************)
EXTENDS SingleFlight, FiniteSetTheorems, TLAPS

\* A thread outside the class holds nothing, one inside has a key and an event.
HoldingInv ==
    \A t \in Threads :
        /\ pc[t] = "idle" => ev[t] = NoEvent /\ key[t] = NoKey
        /\ pc[t] # "idle" => ev[t] \in Events /\ key[t] \in Keys
        /\ popped[t] # NoEvent => pc[t] \in {"notify", "notify2"}

\* A registered event is registered once and nobody is about to set it.
RegisteredInv ==
    \A k \in Keys : waiters[k] # NoEvent =>
        /\ \A j \in Keys : waiters[j] = waiters[k] => j = k
        /\ \A t \in Threads : popped[t] # waiters[k]

\* A follower waits on the event of its own key.
FollowInv ==
    \A t \in Threads, k \in Keys :
        pc[t] = "waiting" /\ ev[t] = waiters[k] => key[t] = k

IInv ==
    /\ TypeOK
    /\ HoldingInv
    /\ RegisteredInv
    /\ FollowInv
    /\ NoAbandonedKey
    /\ NoLostWakeup

-------------------------------------------------------------------------------
\* leader() never hands out an event somebody still refers to.
LEMMA FreshIsUnused ==
    ASSUME \E e \in Events : e \notin InUse
    PROVE  /\ FreshEvent \in Events
           /\ FreshEvent \notin InUse
           /\ FreshEvent # NoEvent
BY NoneAssumption DEF FreshEvent

\* _prune returns a table of the same kind.
LEMMA PrunedType ==
    ASSUME NEW r \in [Keys -> Nat \cup {NoTime}], NEW q \in Pruned(r)
    PROVE  q \in [Keys -> Nat \cup {NoTime}]
<1>1. \A S : Keep(r, S) \in [Keys -> Nat \cup {NoTime}]
  BY DEF Keep
<1>. QED
  BY <1>1 DEF Pruned

\* The invariant holds before the first call.
LEMMA InitIInv == Init => IInv
BY NoneAssumption DEF Init, IInv, TypeOK, Phases, HoldingInv, RegisteredInv, FollowInv,
       NoAbandonedKey, NoLostWakeup

\* Every step keeps the type.
LEMMA TypeStep == TypeOK /\ HoldingInv /\ [Next]_vars => TypeOK'
<1>. SUFFICES ASSUME TypeOK, HoldingInv, [Next]_vars PROVE TypeOK'
  OBVIOUS
<1>. USE DEF TypeOK, Phases, Goto, Forget, Flagged
<1>1. ASSUME NEW t \in Threads, NEW k \in Keys, Lead(t, k) PROVE TypeOK'
  BY <1>1, FreshIsUnused DEF Lead
<1>2. ASSUME NEW t \in Threads, NEW k \in Keys, Follow(t, k) PROVE TypeOK'
  BY <1>2 DEF Follow
<1>3. ASSUME NEW t \in Threads, Publish(t) PROVE TypeOK'
  <2>. key[t] \in Keys
    BY <1>3 DEF Publish, HoldingInv
  <2>1. [results EXCEPT ![key[t]] = now] \in [Keys -> Nat \cup {NoTime}]
    BY <1>3
  <2>2. results' \in [Keys -> Nat \cup {NoTime}]
    BY <1>3, <2>1, PrunedType DEF Publish
  <2>. QED
    BY <1>3, <2>2 DEF Publish
<1>4. ASSUME NEW t \in Threads, Notify(t) PROVE TypeOK'
  BY <1>4 DEF Notify
<1>5. ASSUME NEW t \in Threads, Die(t) PROVE TypeOK'
  BY <1>5 DEF Die
<1>6. ASSUME NEW t \in Threads, Done(t) PROVE TypeOK'
  BY <1>6 DEF Done, HoldingInv
<1>7. ASSUME NEW t \in Threads, Return(t) PROVE TypeOK'
  BY <1>7 DEF Return
<1>8. ASSUME NEW t \in Threads, Wake(t) PROVE TypeOK'
  BY <1>8 DEF Wake
<1>9. ASSUME NEW t \in Threads, Collect(t) PROVE TypeOK'
  BY <1>9 DEF Collect
<1>10. ASSUME NEW t \in Threads, GiveUp(t) PROVE TypeOK'
  BY <1>10 DEF GiveUp
<1>11. CASE Tick
  BY <1>11 DEF Tick
<1>12. CASE UNCHANGED vars
  BY <1>12 DEF vars
<1>. QED
  BY <1>1, <1>2, <1>3, <1>4, <1>5, <1>6, <1>7, <1>8, <1>9, <1>10, <1>11, <1>12
     DEF Next, Thread

\* Every step keeps the strengthening.
LEMMA HoldingStep == IInv /\ [Next]_vars => HoldingInv'
<1>. SUFFICES ASSUME IInv, [Next]_vars PROVE HoldingInv'
  OBVIOUS
<1>. USE NoneAssumption DEF IInv, TypeOK, HoldingInv, Goto, Forget, Flagged
<1>1. ASSUME NEW t \in Threads, NEW k \in Keys, Lead(t, k) PROVE HoldingInv'
  BY <1>1, FreshIsUnused DEF Lead
<1>2. ASSUME NEW t \in Threads, NEW k \in Keys, Follow(t, k) PROVE HoldingInv'
  BY <1>2 DEF Follow
<1>3. ASSUME NEW t \in Threads, Publish(t) PROVE HoldingInv'
  BY <1>3 DEF Publish
<1>4. ASSUME NEW t \in Threads, Thread(t), ~Publish(t) PROVE HoldingInv'
  BY <1>4 DEF Thread, Notify, Die, Done, Return, Wake, Collect
<1>5. ASSUME NEW t \in Threads, GiveUp(t) PROVE HoldingInv'
  BY <1>5 DEF GiveUp
<1>6. CASE Tick \/ UNCHANGED vars
  BY <1>6 DEF Tick, vars
<1>. QED
  BY <1>1, <1>2, <1>3, <1>4, <1>5, <1>6 DEF Next

\* Every step keeps a registered event registered once, and out of the hands of setters.
LEMMA RegisteredStep == IInv /\ [Next]_vars => RegisteredInv'
<1>. SUFFICES ASSUME IInv, [Next]_vars PROVE RegisteredInv'
  OBVIOUS
<1>. USE NoneAssumption DEF IInv, TypeOK, RegisteredInv, HoldingInv, Goto, Forget, Flagged
<1>1. ASSUME NEW t \in Threads, NEW k \in Keys, Lead(t, k) PROVE RegisteredInv'
  BY <1>1, FreshIsUnused DEF Lead, InUse
<1>2. ASSUME NEW t \in Threads, NEW k \in Keys, Follow(t, k) PROVE RegisteredInv'
  BY <1>2 DEF Follow
<1>3. ASSUME NEW t \in Threads, Publish(t) PROVE RegisteredInv'
  BY <1>3 DEF Publish
<1>4. ASSUME NEW t \in Threads, Thread(t), ~Publish(t) PROVE RegisteredInv'
  BY <1>4 DEF Thread, Notify, Die, Done, Return, Wake, Collect
<1>5. ASSUME NEW t \in Threads, GiveUp(t) PROVE RegisteredInv'
  BY <1>5 DEF GiveUp
<1>6. CASE Tick \/ UNCHANGED vars
  BY <1>6 DEF Tick, vars
<1>. QED
  BY <1>1, <1>2, <1>3, <1>4, <1>5, <1>6 DEF Next

\* Every step keeps followers on the event of their own key.
LEMMA FollowStep == IInv /\ [Next]_vars => FollowInv'
<1>. SUFFICES ASSUME IInv, [Next]_vars PROVE FollowInv'
  OBVIOUS
<1>. USE NoneAssumption DEF IInv, TypeOK, FollowInv, HoldingInv, Goto, Forget, Flagged
<1>1. ASSUME NEW t \in Threads, NEW k \in Keys, Lead(t, k) PROVE FollowInv'
  BY <1>1, FreshIsUnused DEF Lead, InUse
<1>2. ASSUME NEW t \in Threads, NEW k \in Keys, Follow(t, k) PROVE FollowInv'
  BY <1>2 DEF Follow, RegisteredInv
<1>3. ASSUME NEW t \in Threads, Publish(t) PROVE FollowInv'
  BY <1>3 DEF Publish
<1>4. ASSUME NEW t \in Threads, Thread(t), ~Publish(t) PROVE FollowInv'
  BY <1>4 DEF Thread, Notify, Die, Done, Return, Wake, Collect
<1>5. ASSUME NEW t \in Threads, GiveUp(t) PROVE FollowInv'
  BY <1>5 DEF GiveUp
<1>6. CASE Tick \/ UNCHANGED vars
  BY <1>6 DEF Tick, vars
<1>. QED
  BY <1>1, <1>2, <1>3, <1>4, <1>5, <1>6 DEF Next

\* Every step keeps a leader at work behind each key of the map.
LEMMA AbandonedStep == IInv /\ [Next]_vars => NoAbandonedKey'
<1>. SUFFICES ASSUME IInv, [Next]_vars PROVE NoAbandonedKey'
  OBVIOUS
<1>. USE NoneAssumption DEF IInv, TypeOK, NoAbandonedKey, HoldingInv, Goto, Forget, Flagged
<1>1. ASSUME NEW t \in Threads, NEW k \in Keys, Lead(t, k) PROVE NoAbandonedKey'
  BY <1>1, FreshIsUnused DEF Lead, InUse
<1>2. ASSUME NEW t \in Threads, NEW k \in Keys, Follow(t, k) PROVE NoAbandonedKey'
  BY <1>2 DEF Follow
<1>3. ASSUME NEW t \in Threads, Publish(t) PROVE NoAbandonedKey'
  BY <1>3 DEF Publish
<1>4. ASSUME NEW t \in Threads, Notify(t) PROVE NoAbandonedKey'
  BY <1>4 DEF Notify, RegisteredInv
<1>5. ASSUME NEW t \in Threads, Die(t) \/ Done(t) \/ Wake(t) PROVE NoAbandonedKey'
  BY <1>5 DEF Die, Done, Wake
<1>6. ASSUME NEW t \in Threads, Return(t) PROVE NoAbandonedKey'
  BY <1>6 DEF Return, RegisteredInv
<1>7. ASSUME NEW t \in Threads, Collect(t) \/ GiveUp(t) PROVE NoAbandonedKey'
  BY <1>7 DEF Collect, GiveUp
<1>8. CASE Tick \/ UNCHANGED vars
  BY <1>8 DEF Tick, vars
<1>. QED
  BY <1>1, <1>2, <1>3, <1>4, <1>5, <1>6, <1>7, <1>8 DEF Next, Thread

\* Every step keeps somebody in charge of waking each follower.
LEMMA WakeupStep == IInv /\ [Next]_vars => NoLostWakeup'
<1>. SUFFICES ASSUME IInv, [Next]_vars PROVE NoLostWakeup'
  OBVIOUS
<1>. USE NoneAssumption DEF IInv, TypeOK, NoLostWakeup, HoldingInv, Goto, Forget, Flagged
<1>1. ASSUME NEW t \in Threads, NEW k \in Keys, Lead(t, k) PROVE NoLostWakeup'
  BY <1>1, FreshIsUnused DEF Lead, InUse
<1>2. ASSUME NEW t \in Threads, NEW k \in Keys, Follow(t, k) PROVE NoLostWakeup'
  BY <1>2 DEF Follow
<1>3. ASSUME NEW t \in Threads, Publish(t) PROVE NoLostWakeup'
  BY <1>3 DEF Publish
<1>4. ASSUME NEW t \in Threads, Notify(t) \/ Die(t) \/ Done(t) \/ Wake(t)
      PROVE NoLostWakeup'
  BY <1>4 DEF Notify, Die, Done, Wake
<1>5. ASSUME NEW t \in Threads, Return(t) PROVE NoLostWakeup'
  BY <1>5 DEF Return
<1>6. ASSUME NEW t \in Threads, Collect(t) \/ GiveUp(t) PROVE NoLostWakeup'
  BY <1>6 DEF Collect, GiveUp
<1>7. CASE Tick \/ UNCHANGED vars
  BY <1>7 DEF Tick, vars
<1>. QED
  BY <1>1, <1>2, <1>3, <1>4, <1>5, <1>6, <1>7 DEF Next, Thread

-------------------------------------------------------------------------------
\* The invariant holds in every state.
LEMMA Invariance == Spec => []IInv
<1>1. IInv /\ [Next]_vars => IInv'
  BY TypeStep, HoldingStep, RegisteredStep, FollowStep, AbandonedStep, WakeupStep
     DEF IInv
<1>. QED
  BY <1>1, InitIInv, PTL DEF Spec

\* The variables keep their types.
THEOREM TypeCorrect == Spec => []TypeOK
BY Invariance, PTL DEF IInv

\* What done() promises: a key in the map always belongs to a leader that is
\* still at work, and its event is not set yet.
THEOREM KeyNeverAbandoned == Spec => []NoAbandonedKey
BY Invariance, PTL DEF IInv

\* What the split of publish() and done() around their lock must not break: a
\* follower's event is set, or registered, or about to be set.
THEOREM WakeupNeverLost == Spec => []NoLostWakeup
BY Invariance, PTL DEF IInv

-------------------------------------------------------------------------------
(***************************************************************************)
(* The handover.  As long as the keys in play cannot push the table past   *)
(* MAX_RESULTS, _prune drops only what is past its grace, and a follower   *)
(* that is scheduled inside the grace finds its leader's answer.           *)
(***************************************************************************)
HandedInv ==
    \A t \in Threads : handed[t] # NoTime =>
        /\ pc[t] \in {"waiting", "woken"}
        /\ handed[t] <= now
        /\ now >= handed[t] + Grace \/ results[key[t]] >= handed[t]

\* Below the ceiling, an answer is dropped only when its grace is over.
LEMMA PrunedKeepsGrace ==
    ASSUME IsFiniteSet(Keys), Cardinality(Keys) <= MaxResults, now \in Nat,
           NEW r \in [Keys -> Nat \cup {NoTime}], NEW q \in Pruned(r), NEW k \in Keys
    PROVE  q[k] = r[k] \/ r[k] = NoTime \/ r[k] + Grace <= now
<1>1. InGrace(r) \in SUBSET Keys
  BY DEF InGrace, Retained
<1>2. Cardinality(InGrace(r)) <= MaxResults
  <2>1. IsFiniteSet(InGrace(r)) /\ Cardinality(InGrace(r)) <= Cardinality(Keys)
    BY <1>1, FS_Subset
  <2>2. Cardinality(InGrace(r)) \in Nat /\ Cardinality(Keys) \in Nat
    BY <2>1, FS_CardinalityType
  <2>. QED
    BY <2>1, <2>2, SizesAssumption
<1>3. q = r \/ q = Keep(r, InGrace(r))
  BY <1>2 DEF Pruned
<1>4. k \in InGrace(r) => Keep(r, InGrace(r))[k] = r[k]
  BY DEF Keep
<1>5. k \notin InGrace(r) => r[k] = NoTime \/ r[k] + Grace <= now
  BY SizesAssumption DEF InGrace, Retained, NoTime
<1>. QED
  BY <1>3, <1>4, <1>5

\* Every step keeps the answer of a follower whose event a publication took, for the grace.
LEMMA HandedStep ==
    ASSUME IsFiniteSet(Keys), Cardinality(Keys) <= MaxResults
    PROVE  IInv /\ HandedInv /\ [Next]_vars => HandedInv'
<1>. SUFFICES ASSUME IInv, HandedInv, [Next]_vars PROVE HandedInv'
  OBVIOUS
<1>. USE NoneAssumption, SizesAssumption
     DEF IInv, TypeOK, HandedInv, HoldingInv, Goto, Forget, NoTime
<1>1. ASSUME NEW t \in Threads, NEW k \in Keys, Lead(t, k) \/ Follow(t, k)
      PROVE HandedInv'
  BY <1>1 DEF Lead, Follow
<1>2. ASSUME NEW t \in Threads, Publish(t) PROVE HandedInv'
  <2>. DEFINE r == [results EXCEPT ![key[t]] = now]
  <2>1. key[t] \in Keys /\ r \in [Keys -> Nat \cup {NoTime}] /\ results' \in Pruned(r)
    BY <1>2 DEF Publish
  <2>2. r[key[t]] = now /\ \A k \in Keys : k # key[t] => r[k] = results[k]
    BY <2>1
  <2>3. \A k \in Keys : results'[k] = r[k] \/ r[k] = NoTime \/ r[k] + Grace <= now
    BY <2>1, PrunedKeepsGrace
  <2>. SUFFICES ASSUME NEW s \in Threads, handed'[s] # NoTime
                PROVE  /\ pc'[s] \in {"waiting", "woken"}
                       /\ handed'[s] <= now'
                       /\ now' >= handed'[s] + Grace \/ results'[key'[s]] >= handed'[s]
    OBVIOUS
  <2>4. results' \in [Keys -> Nat \cup {NoTime}]
    BY <2>1, PrunedType
  <2>5. CASE pc[s] = "waiting" /\ ev[s] = waiters[key[t]]
    <3>1. key[s] = key[t] /\ handed'[s] = now /\ s # t
      BY <1>2, <2>1, <2>5 DEF Publish, FollowInv
    <3>. QED
      BY <1>2, <2>1, <2>2, <2>3, <2>4, <2>5, <3>1 DEF Publish
  <2>6. CASE ~(pc[s] = "waiting" /\ ev[s] = waiters[key[t]])
    <3>1. handed'[s] = handed[s] /\ s # t /\ key[s] \in Keys
      BY <1>2, <2>6 DEF Publish
    <3>2. results[key[s]] = r[key[s]] \/ r[key[s]] = now
      BY <2>2, <3>1
    <3>. HIDE DEF r
    <3>. QED
      BY <1>2, <2>1, <2>3, <2>4, <3>1, <3>2 DEF Publish
  <2>. QED
    BY <2>5, <2>6
<1>3. ASSUME NEW t \in Threads, Thread(t) \/ GiveUp(t), ~Publish(t) PROVE HandedInv'
  BY <1>3 DEF Thread, Notify, Die, Done, Return, Wake, Collect, GiveUp
<1>4. CASE Tick \/ UNCHANGED vars
  BY <1>4 DEF Tick, vars
<1>. QED
  BY <1>1, <1>2, <1>3, <1>4 DEF Next

\* The purpose of RESULT_GRACE, for any table that stays below MAX_RESULTS: a
\* follower scheduled within the grace reads its leader's answer or a later one.
THEOREM HandoverWithinGrace ==
    ASSUME IsFiniteSet(Keys), Cardinality(Keys) <= MaxResults
    PROVE  Spec => []HandoverReliable
<1>1. Init => HandedInv
  BY DEF Init, HandedInv
<1>2. IInv /\ HandedInv /\ [Next]_vars => HandedInv'
  BY HandedStep
<1>3. IInv /\ HandedInv => HandoverReliable
  BY SizesAssumption DEF IInv, TypeOK, HoldingInv, HandedInv, HandoverReliable, NoTime
<1>. QED
  BY <1>1, <1>2, <1>3, Invariance, PTL DEF Spec

(***************************************************************************)
(* The ceiling.  A publication adds at most one result; pruning brings one *)
(* too many back under MAX_RESULTS.                                        *)
(***************************************************************************)
LEMMA PrunedBounded ==
    ASSUME IsFiniteSet(Keys), MaxResults >= 1, now \in Nat,
           NEW r \in [Keys -> Nat \cup {NoTime}], NEW q \in Pruned(r),
           Cardinality(Retained(r)) <= MaxResults + 1
    PROVE  Cardinality(Retained(q)) <= MaxResults
<1>. USE SizesAssumption
<1>1. InGrace(r) \in SUBSET Retained(r) /\ Retained(r) \in SUBSET Keys
  BY DEF InGrace, Retained
<1>2. IsFiniteSet(Retained(r)) /\ Cardinality(Retained(r)) \in Nat
  BY <1>1, FS_Subset, FS_CardinalityType
<1>3. /\ IsFiniteSet(InGrace(r)) /\ Cardinality(InGrace(r)) \in Nat
      /\ Cardinality(InGrace(r)) <= MaxResults + 1
  BY <1>1, <1>2, FS_Subset, FS_CardinalityType
<1>4. ASSUME NEW S \in SUBSET InGrace(r) PROVE Retained(Keep(r, S)) = S
  BY <1>1, <1>4 DEF Retained, Keep, InGrace
<1>5. CASE Cardinality(Retained(r)) <= MaxResults \div 2
  <2>1. q = r
    BY <1>5 DEF Pruned
  <2>. QED
    BY <1>2, <1>5, <2>1
<1>6. CASE /\ ~(Cardinality(Retained(r)) <= MaxResults \div 2)
           /\ Cardinality(InGrace(r)) <= MaxResults
  <2>1. q = Keep(r, InGrace(r))
    BY <1>6 DEF Pruned
  <2>. QED
    BY <1>4, <1>6, <2>1
<1>7. CASE /\ ~(Cardinality(Retained(r)) <= MaxResults \div 2)
           /\ ~(Cardinality(InGrace(r)) <= MaxResults)
  <2>1. PICK H \in OlderHalves(r, InGrace(r)) : q = Keep(r, InGrace(r) \ H)
    BY <1>7 DEF Pruned
  <2>2. H \in SUBSET InGrace(r) /\ Cardinality(H) = Cardinality(InGrace(r)) \div 2
    BY <2>1 DEF OlderHalves
  <2>3. Cardinality(InGrace(r) \ H) = Cardinality(InGrace(r)) - Cardinality(H)
    <3>1. InGrace(r) \cap H = H
      BY <2>2
    <3>. QED
      BY <1>3, <3>1, FS_Difference
  <2>4. Cardinality(InGrace(r)) = MaxResults + 1
    BY <1>3, <1>7
  <2>5. Cardinality(InGrace(r) \ H) <= MaxResults
    BY <2>2, <2>3, <2>4
  <2>. QED
    BY <1>4, <2>1, <2>5
<1>. QED
  BY <1>5, <1>6, <1>7

\* MAX_RESULTS is a hard ceiling on the retained answers, however many distinct
\* names are asked for inside one grace window (_prune).
THEOREM CeilingHolds ==
    ASSUME IsFiniteSet(Keys), MaxResults >= 1
    PROVE  Spec => []ResultsBounded
<1>. USE SizesAssumption
<1>1. Init => ResultsBounded
  <2>. SUFFICES ASSUME Init PROVE ResultsBounded
    OBVIOUS
  <2>1. Retained(results) = {}
    BY DEF Init, Retained
  <2>. QED
    BY <2>1, FS_EmptySet DEF ResultsBounded
<1>2. IInv /\ ResultsBounded /\ [Next]_vars => ResultsBounded'
  <2>. SUFFICES ASSUME IInv, ResultsBounded, [Next]_vars PROVE ResultsBounded'
    OBVIOUS
  <2>1. ASSUME NEW t \in Threads, Publish(t) PROVE ResultsBounded'
    <3>. DEFINE r == [results EXCEPT ![key[t]] = now]
    <3>1. /\ key[t] \in Keys /\ now \in Nat /\ results' \in Pruned(r)
          /\ r \in [Keys -> Nat \cup {NoTime}]
      BY <2>1 DEF IInv, TypeOK, HoldingInv, Publish, Goto
    <3>2. Retained(results) \in SUBSET Keys /\ Retained(r) \in SUBSET (Retained(results) \cup {key[t]})
      BY <3>1 DEF Retained, IInv, TypeOK
    <3>3. IsFiniteSet(Retained(results)) /\ Cardinality(Retained(results)) \in Nat
      BY <3>2, FS_Subset, FS_CardinalityType
    <3>4. /\ IsFiniteSet(Retained(results) \cup {key[t]})
          /\ Cardinality(Retained(results) \cup {key[t]}) <= Cardinality(Retained(results)) + 1
          /\ Cardinality(Retained(results) \cup {key[t]}) \in Nat
      <4>. DEFINE T == Retained(results)
      <4>1. IsFiniteSet(T) /\ Cardinality(T) \in Nat
        BY <3>3
      <4>. HIDE DEF T
      <4>2. /\ IsFiniteSet(T \cup {key[t]})
            /\ Cardinality(T \cup {key[t]}) =
                  IF key[t] \in T THEN Cardinality(T) ELSE Cardinality(T) + 1
        BY <4>1, FS_AddElement
      <4>3. /\ Cardinality(T \cup {key[t]}) <= Cardinality(T) + 1
            /\ Cardinality(T \cup {key[t]}) \in Nat
        BY <4>1, <4>2
      <4>. QED
        BY <4>2, <4>3 DEF T
    <3>5. Cardinality(Retained(r)) <= Cardinality(Retained(results) \cup {key[t]})
          /\ Cardinality(Retained(r)) \in Nat
      BY <3>2, <3>4, FS_Subset, FS_CardinalityType
    <3>6. Cardinality(Retained(r)) <= MaxResults + 1
      BY <3>3, <3>4, <3>5 DEF ResultsBounded
    <3>. HIDE DEF r
    <3>7. Cardinality(Retained(results')) <= MaxResults
      BY <3>1, <3>6, PrunedBounded
    <3>. QED
      BY <3>7 DEF ResultsBounded, Retained
  <2>2. ASSUME results' = results PROVE ResultsBounded'
    BY <2>2 DEF ResultsBounded, Retained
  <2>. QED
    BY <2>1, <2>2 DEF Next, vars, Tick, Lead, Follow, Thread, Notify, Die, Done, Return,
                      Wake, Collect, GiveUp
<1>. QED
  BY <1>1, <1>2, Invariance, PTL DEF Spec
===============================================================================
