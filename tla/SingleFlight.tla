----------------------------- MODULE SingleFlight -----------------------------
(***************************************************************************)
(* symbivpn/cache.py, class SingleFlight: concurrent lookups of one key    *)
(* are collapsed into one.  The first caller becomes the leader and works; *)
(* the others wait on its event and then read the retained result.         *)
(*                                                                         *)
(* Each method is split where the code releases its lock: publish() and    *)
(* done() pop the event under the lock and set it after the release, so    *)
(* other callers run in between.  A caller is driven the way               *)
(* FilterEngine._resolve drives the class: leader(); the leader publishes  *)
(* or dies of an unexpected error, and its `finally` always calls done();  *)
(* a follower calls collect().                                             *)
(*                                                                         *)
(* What is published is abstracted to when: `results` holds the time of    *)
(* the publication.  An event is an identity out of the pool Events; once  *)
(* nobody refers to it, it is garbage: its flag goes and it can be reused. *)
(***************************************************************************)
EXTENDS Integers, FiniteSets

CONSTANTS
    Threads,     \* the resolver's worker threads
    Keys,        \* cache keys
    NoKey,       \* the key of a thread outside the class
    Events,      \* identities of threading.Event objects
    NoEvent,     \* None
    MaxResults,  \* MAX_RESULTS
    Grace,       \* RESULT_GRACE, in ticks
    MaxTime      \* bound on the clock, for TLC

ASSUME NoneAssumption == NoEvent \notin Events /\ NoKey \notin Keys
ASSUME SizesAssumption == MaxResults \in Nat /\ Grace \in Nat /\ MaxTime \in Nat

VARIABLES
    pc,       \* where each thread is inside the class
    key,      \* the key it is looking up
    ev,       \* the event leader() returned to it
    popped,   \* the event it took out of the map and has yet to set
    waiters,  \* self._waiters
    isSet,    \* the events whose flag is up
    results,  \* self._results: time of the publication, or NoTime
    now,      \* time.monotonic()
    handed    \* history: when a publication took the event it waits on

vars == <<pc, key, ev, popped, waiters, isSet, results, now, handed>>

NoTime == -1

Phases == {"idle", "leading", "notify", "finally", "notify2", "waiting", "woken"}

TypeOK ==
    /\ pc \in [Threads -> Phases]
    /\ key \in [Threads -> Keys \cup {NoKey}]
    /\ ev \in [Threads -> Events \cup {NoEvent}]
    /\ popped \in [Threads -> Events \cup {NoEvent}]
    /\ waiters \in [Keys -> Events \cup {NoEvent}]
    /\ isSet \in SUBSET Events
    /\ results \in [Keys -> Nat \cup {NoTime}]
    /\ now \in Nat
    /\ handed \in [Threads -> Nat \cup {NoTime}]

Init ==
    /\ pc = [t \in Threads |-> "idle"]
    /\ key = [t \in Threads |-> NoKey]
    /\ ev = [t \in Threads |-> NoEvent]
    /\ popped = [t \in Threads |-> NoEvent]
    /\ waiters = [k \in Keys |-> NoEvent]
    /\ isSet = {}
    /\ results = [k \in Keys |-> NoTime]
    /\ now = 0
    /\ handed = [t \in Threads |-> NoTime]

Goto(t, from, to) == pc[t] = from /\ pc' = [pc EXCEPT ![t] = to]

InUse == {ev[t] : t \in Threads} \cup {popped[t] : t \in Threads}
            \cup {waiters[k] : k \in Keys}

FreshEvent == CHOOSE e \in Events : e \notin InUse

(***************************************************************************)
(* leader(): the first caller registers an event and leads, the others     *)
(* take the registered one and wait.                                       *)
(***************************************************************************)
Lead(t, k) ==
    /\ Goto(t, "idle", "leading")
    /\ waiters[k] = NoEvent
    /\ \E e \in Events : e \notin InUse
    /\ key' = [key EXCEPT ![t] = k]
    /\ ev' = [ev EXCEPT ![t] = FreshEvent]
    /\ waiters' = [waiters EXCEPT ![k] = FreshEvent]
    /\ isSet' = isSet \ {FreshEvent}
    /\ UNCHANGED <<popped, results, now, handed>>

Follow(t, k) ==
    /\ Goto(t, "idle", "waiting")
    /\ waiters[k] # NoEvent
    /\ key' = [key EXCEPT ![t] = k]
    /\ ev' = [ev EXCEPT ![t] = waiters[k]]
    /\ UNCHANGED <<popped, waiters, isSet, results, now, handed>>

(***************************************************************************)
(* _prune(): nothing below half the ceiling; else the answers past their   *)
(* grace go, and if that is not enough the older half of the rest.         *)
(***************************************************************************)
Retained(r) == {k \in Keys : r[k] # NoTime}

Keep(r, S) == [k \in Keys |-> IF k \in S THEN r[k] ELSE NoTime]

\* Mutant: the cutoff forgets to add the grace.
InGraceNoGrace(r) == {k \in Retained(r) : r[k] > now}

InGrace(r) == {k \in Retained(r) : r[k] + Grace > now}

OlderHalves(r, S) ==
    {H \in SUBSET S : /\ Cardinality(H) = Cardinality(S) \div 2
                      /\ \A h \in H, k \in S \ H : r[h] <= r[k]}

Pruned(r) ==
    IF Cardinality(Retained(r)) <= MaxResults \div 2 THEN {r}
    ELSE IF Cardinality(InGrace(r)) <= MaxResults THEN {Keep(r, InGrace(r))}
    ELSE {Keep(r, InGrace(r) \ H) : H \in OlderHalves(r, InGrace(r))}

(***************************************************************************)
(* publish(): under the lock, retain the answer, take whatever event the   *)
(* key has by now, prune; then set the event.                              *)
(***************************************************************************)
Publish(t) ==
    /\ Goto(t, "leading", "notify")
    /\ results' \in Pruned([results EXCEPT ![key[t]] = now])
    /\ popped' = [popped EXCEPT ![t] = waiters[key[t]]]
    /\ waiters' = [waiters EXCEPT ![key[t]] = NoEvent]
    /\ handed' = [s \in Threads |->
                    IF pc[s] = "waiting" /\ ev[s] = waiters[key[t]]
                    THEN now ELSE handed[s]]
    /\ UNCHANGED <<key, ev, isSet, now>>

Flagged(t) == isSet \cup ({popped[t]} \ {NoEvent})

Notify(t) ==
    /\ Goto(t, "notify", "finally")
    /\ isSet' = Flagged(t)
    /\ popped' = [popped EXCEPT ![t] = NoEvent]
    /\ UNCHANGED <<key, ev, waiters, results, now, handed>>

\* The leader fails in a way _resolve does not expect, and never publishes.
Die(t) ==
    /\ Goto(t, "leading", "finally")
    /\ UNCHANGED <<key, ev, popped, waiters, isSet, results, now, handed>>

\* The thread leaves the class: it forgets its event.
Forget(t, flags) ==
    /\ key' = [key EXCEPT ![t] = NoKey]
    /\ ev' = [ev EXCEPT ![t] = NoEvent]
    /\ handed' = [handed EXCEPT ![t] = NoTime]
    /\ isSet' = {e \in flags : \E s \in Threads \ {t} : ev[s] = e}

\* Mutant: the event is read but stays in the map.
DoneKeepsKey(t) ==
    /\ Goto(t, "finally", "notify2")
    /\ popped' = [popped EXCEPT ![t] = waiters[key[t]]]
    /\ UNCHANGED <<key, ev, waiters, isSet, results, now, handed>>

\* Mutant: the key is dropped without waking anybody.
DoneSilently(t) ==
    /\ Goto(t, "finally", "notify2")
    /\ waiters' = [waiters EXCEPT ![key[t]] = NoEvent]
    /\ UNCHANGED <<key, ev, popped, isSet, results, now, handed>>

(***************************************************************************)
(* done(), from the `finally` of _resolve: take whatever event the key has *)
(* now and set it after releasing the lock.                                *)
(***************************************************************************)
Done(t) ==
    /\ Goto(t, "finally", "notify2")
    /\ popped' = [popped EXCEPT ![t] = waiters[key[t]]]
    /\ waiters' = [waiters EXCEPT ![key[t]] = NoEvent]
    /\ UNCHANGED <<key, ev, isSet, results, now, handed>>

Return(t) ==
    /\ Goto(t, "notify2", "idle")
    /\ Forget(t, Flagged(t))
    /\ popped' = [popped EXCEPT ![t] = NoEvent]
    /\ UNCHANGED <<waiters, results, now>>

(***************************************************************************)
(* collect(): wait for the event, then read the answer under the lock; or  *)
(* give up when the timeout runs out first.                                *)
(***************************************************************************)
Wake(t) ==
    /\ Goto(t, "waiting", "woken")
    /\ ev[t] \in isSet
    /\ UNCHANGED <<key, ev, popped, waiters, isSet, results, now, handed>>

Collect(t) ==
    /\ Goto(t, "woken", "idle")
    /\ Forget(t, isSet)
    /\ UNCHANGED <<popped, waiters, results, now>>

GiveUp(t) ==
    /\ Goto(t, "waiting", "idle")
    /\ ev[t] \notin isSet
    /\ Forget(t, isSet)
    /\ UNCHANGED <<popped, waiters, results, now>>

Tick ==
    /\ now < MaxTime
    /\ now' = now + 1
    /\ UNCHANGED <<pc, key, ev, popped, waiters, isSet, results, handed>>

Thread(t) ==
    \/ Publish(t) \/ Notify(t) \/ Die(t) \/ Done(t) \/ Return(t)
    \/ Wake(t) \/ Collect(t)

Next ==
    \/ \E t \in Threads : \/ Thread(t) \/ GiveUp(t)
                          \/ \E k \in Keys : Lead(t, k) \/ Follow(t, k)
    \/ Tick

Spec == Init /\ [][Next]_vars

(***************************************************************************)
(* A thread inside the class keeps running (an upstream lookup ends, if    *)
(* only by its own timeout).  Nothing is asked of new callers, of the      *)
(* clock, or of GiveUp: a follower must not need its timeout.              *)
(***************************************************************************)
Fairness == \A t \in Threads : WF_vars(Thread(t))

FairSpec == Spec /\ Fairness
-------------------------------------------------------------------------------
(***************************************************************************)
(* Properties.                                                             *)
(***************************************************************************)

\* A key in the map belongs to a leader that is still at work, and its event
\* has not been set: what done() is there for.  A key left behind by a leader
\* that has gone would make every later caller wait out the full timeout.
NoAbandonedKey ==
    \A k \in Keys : waiters[k] # NoEvent =>
        /\ waiters[k] \notin isSet
        /\ \E t \in Threads : /\ pc[t] \in {"leading", "finally"}
                              /\ key[t] = k
                              /\ ev[t] = waiters[k]

\* No wake-up is lost between the unlock and the event.set() of publish() and
\* done(): a follower's event is set, or registered, or in the hands of a
\* thread about to set it.
NoLostWakeup ==
    \A t \in Threads : pc[t] = "waiting" =>
        \/ ev[t] \in isSet
        \/ waiters[key[t]] = ev[t]
        \/ \E s \in Threads : pc[s] \in {"notify", "notify2"} /\ popped[s] = ev[t]

\* The reason for RESULT_GRACE: a follower whose event was taken by a
\* publication, and that gets to run inside the grace, finds that answer or a
\* later one.
HandoverReliable ==
    \A t \in Threads :
        /\ pc[t] \in {"waiting", "woken"}
        /\ handed[t] # NoTime
        /\ now < handed[t] + Grace
        => results[key[t]] >= handed[t]

\* MAX_RESULTS is a hard ceiling on the retained answers.
ResultsBounded == Cardinality(Retained(results)) <= MaxResults

\* A follower is released by what leaders do, without its own timeout.
FollowerReleased ==
    \A t \in Threads : pc[t] = "waiting" ~> pc[t] # "waiting"
===============================================================================
