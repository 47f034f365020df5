------------------------------- MODULE DNSCache -------------------------------
(***************************************************************************)
(* symbivpn/cache.py, class DNSCache: a bounded LRU table of answers with  *)
(* a TTL floor, a window in which an expired answer may still be served,   *)
(* a prefetch flag, and a copy on disk.                                    *)
(*                                                                         *)
(* Each method holds the table's lock for all it does to the table, so it  *)
(* is one step.  The prefetch callback of get() runs after the unlock and  *)
(* is the caller's (module Resolution).  The answer itself is abstracted   *)
(* away: an entry is its times and its counters.                           *)
(***************************************************************************)
EXTENDS Integers, Sequences, FiniteSets

CONSTANTS
    Keys,             \* cache keys
    NoEntry,          \* no entry under this key
    MaxEntries,       \* max_entries
    UpstreamTTLs,     \* the TTLs answers arrive with
    MinTTL, MaxTTL,   \* min_ttl and max_ttl, or the negative pair
    StaleFor,         \* serve_stale_for
    PrefetchNum, PrefetchDen,  \* prefetch_after, a fraction
    PrefetchMinHits,  \* prefetch_min_hits
    MaxTime           \* bound on the clock, for TLC

CacheConfigOK ==
    /\ MaxEntries \in Nat /\ MinTTL \in Nat /\ MaxTTL \in Nat /\ StaleFor \in Nat
    /\ PrefetchNum \in Nat /\ PrefetchDen \in Nat /\ PrefetchMinHits \in Nat
    /\ UpstreamTTLs \subseteq Nat /\ MaxTime \in Nat

VARIABLES
    entries,  \* self._entries
    order,    \* the order of the OrderedDict, least recently used first
    disk,     \* the persisted copy, in order: <<key, entry>> pairs
    now       \* time.time()

vars == <<entries, order, disk, now>>

\* hits stops counting at PrefetchMinHits, the only value it is compared with.
Entry == [stored : Nat, expires : Nat, ttl : Nat, hits : 0..PrefetchMinHits,
          refreshing : BOOLEAN]

ASSUME CacheConfigAssumption == CacheConfigOK /\ NoEntry \notin Entry

TypeOK ==
    /\ entries \in [Keys -> Entry \cup {NoEntry}]
    /\ order \in Seq(Keys)
    /\ disk \in Seq(Keys \X Entry)
    /\ now \in Nat

Init ==
    /\ entries = [k \in Keys |-> NoEntry]
    /\ order = <<>>
    /\ disk = <<>>
    /\ now = 0

Listed(s) == {s[i] : i \in 1..Len(s)}

\* The elements of s that are in S, in their order.
Only(s, S) ==
    LET upto[i \in 0..Len(s)] ==
            IF i = 0 THEN <<>>
            ELSE IF s[i] \in S THEN Append(upto[i - 1], s[i]) ELSE upto[i - 1]
    IN  upto[Len(s)]

Without(s, k) == Only(s, Listed(s) \ {k})

Fresh(k) == now < entries[k].expires
Kept(k) == now < entries[k].expires + StaleFor

(***************************************************************************)
(* get(): a fresh entry is a hit; an expired one is kept and served only   *)
(* to a caller that allows it; past the window it is deleted.              *)
(***************************************************************************)
Lookup(k, allowStale) ==
    IF entries[k] = NoEntry THEN "miss"
    ELSE IF Fresh(k) THEN "fresh"
    ELSE IF Kept(k) /\ allowStale THEN "stale"
    ELSE "miss"

Hit(e) == IF e.hits < PrefetchMinHits THEN e.hits + 1 ELSE e.hits

DueForPrefetch(k) ==
    LET e == entries[k] IN
    /\ e # NoEntry
    /\ Fresh(k)
    /\ ~e.refreshing
    /\ Hit(e) >= PrefetchMinHits
    /\ e.ttl > 0
    /\ (now - e.stored) * PrefetchDen >= e.ttl * PrefetchNum

Get(k, allowStale) ==
    /\ \/ /\ Lookup(k, allowStale) # "miss"
          /\ order' = Append(Without(order, k), k)
          /\ entries' = [entries EXCEPT ![k].hits = Hit(entries[k]),
                            ![k].refreshing = @ \/ DueForPrefetch(k)]
       \/ /\ Lookup(k, allowStale) = "miss"
          /\ IF entries[k] # NoEntry /\ ~Kept(k)
             THEN /\ entries' = [entries EXCEPT ![k] = NoEntry]
                  /\ order' = Without(order, k)
             ELSE UNCHANGED <<entries, order>>
    /\ UNCHANGED <<disk, now>>

(***************************************************************************)
(* put(): clamp the TTL, store, and evict from the cold end.  A truncated  *)
(* or unreadable answer changes nothing, like one whose TTL clamps to 0.   *)
(***************************************************************************)
Clamp(ttl) == LET top == IF ttl < MaxTTL THEN ttl ELSE MaxTTL
              IN IF top > MinTTL THEN top ELSE MinTTL

NewEntry(ttl) == [stored |-> now, expires |-> now + ttl, ttl |-> ttl,
                  hits |-> 0, refreshing |-> FALSE]

\* Mutant: eviction starts one entry late.
HottestLate(s) ==
    IF Len(s) > MaxEntries + 1 THEN SubSeq(s, Len(s) - MaxEntries + 1, Len(s)) ELSE s

\* The tail of s that _evict_if_needed leaves.
Hottest(s) == IF Len(s) > MaxEntries THEN SubSeq(s, Len(s) - MaxEntries + 1, Len(s)) ELSE s

ForKeys(table, s) == [k \in Keys |-> IF k \in Listed(s) THEN table[k] ELSE NoEntry]

Store(k, ttl) ==
    LET touched == Append(Without(order, k), k) IN
    /\ order' = Hottest(touched)
    /\ entries' = ForKeys([entries EXCEPT ![k] = NewEntry(ttl)], Hottest(touched))

Put(k, ttl) ==
    /\ \/ Clamp(ttl) > 0 /\ Store(k, Clamp(ttl))
       \/ Clamp(ttl) <= 0 /\ UNCHANGED <<entries, order>>
    /\ UNCHANGED <<disk, now>>

FinishRefresh(k) ==
    /\ entries' = IF entries[k] = NoEntry THEN entries
                  ELSE [entries EXCEPT ![k].refreshing = FALSE]
    /\ UNCHANGED <<order, disk, now>>

\* invalidate(): the names in S (all of them, or one).
Invalidate(S) ==
    /\ order' = Only(order, Keys \ S)
    /\ entries' = [k \in Keys |-> IF k \in S THEN NoEntry ELSE entries[k]]
    /\ UNCHANGED <<disk, now>>

(***************************************************************************)
(* save() writes the unexpired entries aside and renames the file into     *)
(* place; load() after a restart drops those that have expired since.  The *)
(* refreshing flag is not saved.  A file cut short (the first n records    *)
(* readable) restores what was read, and skips the eviction.               *)
(***************************************************************************)
Save ==
    /\ LET names == Only(order, {k \in Listed(order) : Fresh(k)})
       IN  disk' = [i \in 1..Len(names) |-> <<names[i], entries[names[i]]>>]
    /\ UNCHANGED <<entries, order, now>>

\* Mutant: load() takes the saved records as they are.
RestoredUnfiltered(records) ==
    [i \in 1..Len(records) |->
        <<records[i][1], [records[i][2] EXCEPT !.refreshing = FALSE]>>]

Restored(records) ==
    LET live == Only(records, {r \in Listed(records) : now < r[2].expires})
    IN [i \in 1..Len(live) |->
           <<live[i][1], [live[i][2] EXCEPT !.refreshing = FALSE]>>]

TableOf(pairs) ==
    [k \in Keys |-> IF \E i \in 1..Len(pairs) : pairs[i][1] = k
                    THEN pairs[CHOOSE i \in 1..Len(pairs) : pairs[i][1] = k][2]
                    ELSE NoEntry]

\* The process stops and starts: the table is rebuilt from the file.
Restart(readable) ==
    LET pairs == Restored(SubSeq(disk, 1, readable))
        names == [i \in 1..Len(pairs) |-> pairs[i][1]]
        kept == IF readable = Len(disk) THEN Hottest(names) ELSE names
    IN /\ order' = kept
       /\ entries' = ForKeys(TableOf(pairs), kept)
       /\ UNCHANGED <<disk, now>>

Tick ==
    /\ now < MaxTime
    /\ now' = now + 1
    /\ UNCHANGED <<entries, order, disk>>

Next ==
    \/ \E k \in Keys, stale \in BOOLEAN : Get(k, stale)
    \/ \E k \in Keys, ttl \in UpstreamTTLs : Put(k, ttl)
    \/ \E k \in Keys : FinishRefresh(k)
    \/ \E S \in {Keys} \cup {{k} : k \in Keys} : Invalidate(S)
    \/ Save
    \/ \E n \in 0..Len(disk) : Restart(n)
    \/ Tick

Spec == Init /\ [][Next]_vars
-------------------------------------------------------------------------------
\* The table and its recency order agree, and the table never outgrows
\* max_entries, whatever mix of stores, expiries, invalidations and reloads
\* (a file cut short included) led there.
BoundedLRU ==
    /\ Len(order) <= MaxEntries
    /\ Cardinality(Listed(order)) = Len(order)
    /\ Listed(order) = {k \in Keys : entries[k] # NoEntry}

\* An entry appears, or gets a longer life, only by being stored now or by
\* being read back from disk while it has not run out: a restart neither
\* brings back an expired answer nor prolongs one, whatever was saved when.
NoResurrection ==
    [][\A k \in Keys :
         /\ entries'[k] # NoEntry
         /\ entries[k] = NoEntry \/ entries'[k].expires > entries[k].expires
         => entries'[k].stored = now \/ now < entries'[k].expires]_vars
===============================================================================
