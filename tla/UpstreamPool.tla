----------------------------- MODULE UpstreamPool -----------------------------
(***************************************************************************)
(* symbivpn/resolver.py, UpstreamHealth and UpstreamPool: which upstream   *)
(* is asked next, and when one is benched.                                 *)
(*                                                                         *)
(* Several worker threads resolve at once.  The health records are shared  *)
(* and written without a lock (the pool's lock covers only the two list    *)
(* comprehensions of _ordered, whose writers do not take it), so every     *)
(* read and every write of a field is a step of its own.                   *)
(*                                                                         *)
(* Upstreams are numbered in configuration order.  An upstream's exchange  *)
(* (DoH, DoT, plain: transport, retries, _validate_response) is external:  *)
(* it ends in a good answer after some latency, or in an error.            *)
(***************************************************************************)
EXTENDS Integers, Sequences, FiniteSets

CONSTANTS
    Workers,       \* the resolver's worker threads
    NumUpstreams,  \* len(self.upstreams)
    Latencies,     \* measured latencies, in some unit, all positive
    Threshold,     \* FAILURE_THRESHOLD
    BackoffBase,   \* BACKOFF_BASE
    BackoffMax,    \* BACKOFF_MAX
    FloatMaxExp,   \* the least n for which 2 ** n no longer fits a float
    MaxFailures,   \* where the model stops counting failures, for TLC
    MaxTime        \* bound on the clock, for TLC

Upstreams == 1..NumUpstreams

ASSUME UpstreamsAssumption == NumUpstreams \in Nat \ {0}
ASSUME LatenciesAssumption == Latencies \subseteq Nat \ {0} /\ Latencies # {}
ASSUME BackoffAssumption ==
    /\ Threshold \in Nat /\ BackoffBase \in Nat /\ BackoffMax \in Nat
    /\ FloatMaxExp \in Nat /\ MaxTime \in Nat

\* Nothing in the code tells two counts past the overflow apart, so counting
\* may stop there.
ASSUME CapAssumption == MaxFailures \in Nat /\ MaxFailures >= Threshold + FloatMaxExp

VARIABLES
    failed,      \* UpstreamHealth.failures
    down_until,  \* UpstreamHealth.down_until
    latency,     \* UpstreamHealth.latency_ms, 0 until the first answer
    now,         \* time.time()
    stage,       \* where each thread is in resolve()
    healthy,     \* the first list of _ordered, still to be sorted
    queue,       \* the upstreams this call has left to ask
    read,        \* the value of failures a `+= 1` has loaded
    tried        \* history: the upstreams this call has asked

health == <<failed, down_until, latency>>
call == <<healthy, queue, read, tried>>
poolVars == <<failed, down_until, latency, now, stage, healthy, queue, read, tried>>

Phases == {"idle", "order", "ask", "load", "store", "check", "bench",
           "reset", "clear", "time"}

PoolTypeOK ==
    /\ failed \in [Upstreams -> Nat]
    /\ down_until \in [Upstreams -> Nat]
    /\ latency \in [Upstreams -> Nat]
    /\ now \in Nat
    /\ stage \in [Workers -> Phases]
    /\ healthy \in [Workers -> SUBSET Upstreams]
    /\ queue \in [Workers -> Seq(Upstreams)]
    /\ read \in [Workers -> Nat]
    /\ tried \in [Workers -> SUBSET Upstreams]

PoolInit ==
    /\ failed = [u \in Upstreams |-> 0]
    /\ down_until = [u \in Upstreams |-> 0]
    /\ latency = [u \in Upstreams |-> 0]
    /\ now = 0
    /\ stage = [t \in Workers |-> "idle"]
    /\ healthy = [t \in Workers |-> {}]
    /\ queue = [t \in Workers |-> <<>>]
    /\ read = [t \in Workers |-> 0]
    /\ tried = [t \in Workers |-> {}]

PoolGoto(t, from, to) == stage[t] = from /\ stage' = [stage EXCEPT ![t] = to]

Available(u) == now >= down_until[u]

(***************************************************************************)
(* _ordered(): the available upstreams, fastest first with the untried     *)
(* ones ahead (`latency_ms or -1.0`), then the benched ones.  The two      *)
(* lists are built one after the other, each reading the clock and the     *)
(* records anew.                                                           *)
(***************************************************************************)
Before(u, v) == latency[u] < latency[v] \/ (latency[u] = latency[v] /\ u < v)

IsSorting(s, S, Less(_, _)) ==
    /\ Len(s) = Cardinality(S)
    /\ {s[i] : i \in 1..Len(s)} = S
    /\ \A i, j \in 1..Len(s) : i < j => Less(s[i], s[j])

SortingsBy(S, Less(_, _)) ==
    {s \in [1..Cardinality(S) -> S] : IsSorting(s, S, Less)}

OrderHealthy(t) ==
    /\ PoolGoto(t, "idle", "order")
    /\ healthy' = [healthy EXCEPT ![t] = {u \in Upstreams : Available(u)}]
    /\ UNCHANGED <<health, now, queue, read, tried>>

OrderBenched(t) ==
    LET benched == {u \in Upstreams : ~Available(u)} IN
    /\ PoolGoto(t, "order", "ask")
    /\ \E fast \in SortingsBy(healthy[t], Before), last \in SortingsBy(benched, <) :
          queue' = [queue EXCEPT ![t] = fast \o last]
    /\ healthy' = [healthy EXCEPT ![t] = {}]
    /\ UNCHANGED <<health, now, read, tried>>

(***************************************************************************)
(* The loop of resolve().                                                  *)
(***************************************************************************)
Asked(t) == Head(queue[t])

PoolEnd(t) ==
    /\ queue' = [queue EXCEPT ![t] = <<>>]
    /\ tried' = [tried EXCEPT ![t] = {}]

\* The question cannot be encoded: resolve() gives up before asking anybody.
CannotEncode(t) ==
    /\ PoolGoto(t, "ask", "idle")
    /\ queue[t] # <<>> /\ tried[t] = {}
    /\ PoolEnd(t)
    /\ UNCHANGED <<health, now, healthy, read>>

AskFails(t) ==
    /\ PoolGoto(t, "ask", "load")
    /\ queue[t] # <<>>
    /\ tried' = [tried EXCEPT ![t] = @ \cup {Asked(t)}]
    /\ UNCHANGED <<health, now, healthy, queue, read>>

AskAnswers(t) ==
    /\ PoolGoto(t, "ask", "reset")
    /\ queue[t] # <<>>
    /\ tried' = [tried EXCEPT ![t] = @ \cup {Asked(t)}]
    /\ UNCHANGED <<health, now, healthy, queue, read>>

Exhausted(t) ==
    /\ PoolGoto(t, "ask", "idle")
    /\ queue[t] = <<>>
    /\ PoolEnd(t)
    /\ UNCHANGED <<health, now, healthy, read>>

(***************************************************************************)
(* record_failure(): `failures += 1` is a load and a store; the threshold  *)
(* and the exponent read the field again.                                  *)
(***************************************************************************)
LoadFailures(t) ==
    /\ PoolGoto(t, "load", "store")
    /\ read' = [read EXCEPT ![t] = failed[Asked(t)]]
    /\ UNCHANGED <<health, now, healthy, queue, tried>>

StoreFailures(t) ==
    /\ PoolGoto(t, "store", "check")
    /\ failed' = [failed EXCEPT ![Asked(t)] =
                       IF read[t] < MaxFailures THEN read[t] + 1 ELSE MaxFailures]
    /\ read' = [read EXCEPT ![t] = 0]
    /\ UNCHANGED <<down_until, latency, now, healthy, queue, tried>>

\* BACKOFF_BASE / 2 ** k, rounded down.
Halved(k) ==
    LET fitting == {q \in 0..BackoffBase : q * 2 ^ k <= BackoffBase}
    IN CHOOSE q \in fitting : \A r \in fitting : r <= q

\* BACKOFF_BASE * 2 ** (failures - FAILURE_THRESHOLD), at most BACKOFF_MAX.
\* The exponent is negative if another thread has reset the count since the
\* check.
Backoff(n) ==
    LET raw == IF n >= Threshold THEN BackoffBase * 2 ^ (n - Threshold)
                                 ELSE Halved(Threshold - n)
    IN IF raw < BackoffMax THEN raw ELSE BackoffMax

CheckThreshold(t) ==
    /\ stage[t] = "check"
    /\ \/ /\ failed[Asked(t)] >= Threshold
          /\ PoolGoto(t, "check", "bench")
          /\ queue' = queue
       \/ /\ failed[Asked(t)] < Threshold
          /\ PoolGoto(t, "check", "ask")
          /\ queue' = [queue EXCEPT ![t] = Tail(@)]
    /\ UNCHANGED <<health, now, healthy, read, tried>>

\* Mutant: the loop asks the benched upstream again.
BenchAndRetry(t) ==
    /\ PoolGoto(t, "bench", "ask")
    /\ failed[Asked(t)] - Threshold < FloatMaxExp
    /\ down_until' = [down_until EXCEPT ![Asked(t)] = now + Backoff(failed[Asked(t)])]
    /\ UNCHANGED <<failed, latency, now, healthy, queue, read, tried>>

Bench(t) ==
    /\ PoolGoto(t, "bench", "ask")
    /\ failed[Asked(t)] - Threshold < FloatMaxExp
    /\ down_until' = [down_until EXCEPT ![Asked(t)] = now + Backoff(failed[Asked(t)])]
    /\ queue' = [queue EXCEPT ![t] = Tail(@)]
    /\ UNCHANGED <<failed, latency, now, healthy, read, tried>>

\* int too large to convert to float: not a ResolutionError, so it leaves the
\* loop of resolve() and the `except` of its callers.
BenchOverflows(t) ==
    /\ PoolGoto(t, "bench", "idle")
    /\ failed[Asked(t)] - Threshold >= FloatMaxExp
    /\ PoolEnd(t)
    /\ UNCHANGED <<health, now, healthy, read>>

(***************************************************************************)
(* record_success(): three stores.  The moving average is abstracted to    *)
(* the last sample.                                                        *)
(***************************************************************************)
ResetFailures(t) ==
    /\ PoolGoto(t, "reset", "clear")
    /\ failed' = [failed EXCEPT ![Asked(t)] = 0]
    /\ UNCHANGED <<down_until, latency, now, call>>

ClearBench(t) ==
    /\ PoolGoto(t, "clear", "time")
    /\ down_until' = [down_until EXCEPT ![Asked(t)] = 0]
    /\ UNCHANGED <<failed, latency, now, call>>

RecordLatency(t) ==
    /\ PoolGoto(t, "time", "idle")
    /\ \E l \in Latencies : latency' = [latency EXCEPT ![Asked(t)] = l]
    /\ PoolEnd(t)
    /\ UNCHANGED <<failed, down_until, now, healthy, read>>

PoolTick ==
    /\ now < MaxTime
    /\ now' = now + 1
    /\ UNCHANGED <<health, stage, call>>

\* Everything a thread does once it has begun a call.
PoolStep(t) ==
    \/ OrderBenched(t) \/ CannotEncode(t) \/ AskFails(t) \/ AskAnswers(t)
    \/ Exhausted(t) \/ LoadFailures(t) \/ StoreFailures(t) \/ CheckThreshold(t)
    \/ Bench(t) \/ BenchOverflows(t)
    \/ ResetFailures(t) \/ ClearBench(t) \/ RecordLatency(t)

PoolNext ==
    \/ \E t \in Workers : OrderHealthy(t) \/ PoolStep(t)
    \/ PoolTick

PoolSpec == PoolInit /\ [][PoolNext]_poolVars

\* A call that has begun goes on: an exchange ends, if only by its timeout.
PoolFairSpec == PoolSpec /\ \A t \in Workers : WF_poolVars(PoolStep(t))
-------------------------------------------------------------------------------
\* However the stores of two threads interleave, an upstream is never benched
\* for longer than BACKOFF_MAX from now, so one that recovers is preferred
\* again in bounded time.
BenchBounded == \A u \in Upstreams : down_until[u] <= now + BackoffMax

\* A lookup ends: whatever the other threads do to the records, the loop of
\* resolve() runs out of upstreams.
LookupEnds == \A t \in Workers : stage[t] = "order" ~> stage[t] = "idle"

\* Why it ends: an upstream is in each of the two lists at most once, and no
\* step, of whichever thread, takes a call that has its list further from its
\* end.
ListBounded == \A t \in Workers : Len(queue[t]) <= 2 * NumUpstreams

StepsToGo ==
    [p \in Phases |-> CASE p = "ask" -> 6
                        [] p \in {"load", "reset"} -> 5
                        [] p \in {"store", "clear"} -> 4
                        [] p \in {"check", "time"} -> 3
                        [] p = "bench" -> 2
                        [] OTHER -> 0]

ToGo(t) == 7 * Len(queue[t]) + StepsToGo[stage[t]]

CallShortens ==
    [][\A t \in Workers : stage[t] \notin {"idle", "order"} =>
          \/ stage'[t] = "idle"
          \/ ToGo(t)' < ToGo(t)
          \/ UNCHANGED <<stage[t], queue[t]>>]_poolVars

\* "routes around failure" (resolver.py:532): a lookup fails only when every
\* upstream has failed it.
RoutesAroundFailure ==
    [][\A t \in Workers :
         Exhausted(t) \/ BenchOverflows(t) => tried[t] = Upstreams]_poolVars
===============================================================================
