----------------------------- MODULE DNSCache_proofs ----------------------------
(***************************************************************************)
(* Theorems about DNSCache, for any keys, lifetimes and limits.            *)
(*                                                                         *)
(* CacheInv says that the table and the recency order list the same keys,  *)
(* each once.  Only(s, S), the order without some keys, is defined by      *)
(* recursion on the length; what it returns is proved here by the least    *)
(* element of a set of natural numbers (Induction).                        *)
(***************************************************************************)
EXTENDS DNSCache, SequenceTheorems, FiniteSetTheorems, WellFoundedInduction, TLAPS

\* A set of natural numbers has a least element.
LEMMA LeastElement ==
    ASSUME NEW T \in SUBSET Nat, T # {}
    PROVE  \E x \in T : \A y \in T : x <= y
<1>1. \E x \in T : \A y \in T : ~(<<y, x>> \in OpToRel(<, Nat))
  BY WFMin, NatLessThanWellFounded
<1>2. \A x, y \in Nat : <<y, x>> \in OpToRel(<, Nat) <=> y < x
  BY DEF OpToRel
<1>3. \E x \in T : \A y \in T : ~(y < x)
  BY <1>1, <1>2, Zenon
<1>. QED
  BY <1>3

\* Induction: a set of naturals with 0 that is closed under + 1 has them all.
LEMMA Induction ==
    ASSUME NEW P, 0 \in P, \A n \in Nat : n \in P => n + 1 \in P
    PROVE  Nat \subseteq P
<1>. SUFFICES ASSUME Nat \ P # {} PROVE FALSE
  OBVIOUS
<1>1. PICK x \in Nat \ P : \A y \in Nat \ P : x <= y
  BY LeastElement
<1>2. x # 0 /\ x - 1 \in Nat
  BY <1>1
<1>3. x - 1 \in P
  BY <1>1, <1>2
<1>. QED
  BY <1>1, <1>2, <1>3

\* One element of what Only chooses.
Step(f, s, S, i) == IF i = 0 THEN <<>> ELSE IF s[i] \in S THEN Append(f[i - 1], s[i]) ELSE f[i - 1]

\* What Only chooses for the first n elements.
Filters(f, s, S, n) ==
    f = [i \in 0..n |-> IF i = 0 THEN <<>>
                        ELSE IF s[i] \in S THEN Append(f[i - 1], s[i]) ELSE f[i - 1]]

\* It exists.
LEMMA OnlyExists ==
    ASSUME NEW s, NEW S, NEW n \in Nat
    PROVE  \E f : Filters(f, s, S, n)
<1>. DEFINE P == {m \in Nat : \E f : f = [i \in 0..m |-> Step(f, s, S, i)]}
<1>1. 0 \in P
  <2>. DEFINE f == [i \in 0..0 |-> <<>>]
  <2>1. f = [i \in 0..0 |-> Step(f, s, S, i)]
    BY DEF Step
  <2>. QED
    BY <2>1
<1>2. ASSUME NEW m \in Nat, m \in P PROVE m + 1 \in P
  <2>1. PICK f : f = [i \in 0..m |-> Step(f, s, S, i)]
    BY <1>2
  <2>. DEFINE g == [i \in 0..m + 1 |-> IF i <= m THEN f[i] ELSE Step(f, s, S, m + 1)]
  <2>2. \A i \in 0..m + 1 : g[i] = Step(g, s, S, i)
    <3>. TAKE i \in 0..m + 1
    <3>1. CASE i = 0
      BY <2>1, <3>1 DEF Step
    <3>2. CASE i \in 1..m
      <4>1. g[i] = f[i] /\ g[i - 1] = f[i - 1]
        BY <3>2
      <4>2. f[i] = Step(f, s, S, i)
        BY <2>1, <3>2
      <4>. QED
        BY <3>2, <4>1, <4>2 DEF Step
    <3>3. CASE i = m + 1
      <4>1. g[i] = Step(f, s, S, m + 1) /\ g[i - 1] = f[i - 1]
        BY <3>3
      <4>. QED
        BY <3>3, <4>1 DEF Step
    <3>. QED
      BY <3>1, <3>2, <3>3
  <2>3. g = [i \in 0..m + 1 |-> Step(g, s, S, i)]
    <3>1. DOMAIN g = 0..m + 1
      OBVIOUS
    <3>. HIDE DEF g
    <3>2. g = [i \in 0..m + 1 |-> g[i]]
      BY <3>1 DEF g
    <3>. QED
      BY <2>2, <3>2
  <2>. HIDE DEF g
  <2>. QED
    BY <2>3
<1>. HIDE DEF P
<1>3. n \in P
  BY <1>1, <1>2, Induction
<1>. QED
  BY <1>3 DEF P, Step, Filters

\* No element twice.
Distinct(s) == \A i, j \in 1..Len(s) : s[i] = s[j] => i = j

\* The elements of a sequence made longer.
LEMMA ListedAppend ==
    ASSUME NEW T, NEW s \in Seq(T), NEW e \in T
    PROVE  /\ Listed(Append(s, e)) = Listed(s) \cup {e}
           /\ Distinct(s) /\ e \notin Listed(s) => Distinct(Append(s, e))
<1>. DEFINE n == Len(s)  t == Append(s, e)
<1>1. /\ n \in Nat /\ Len(t) = n + 1 /\ t[n + 1] = e /\ \A i \in 1..n : t[i] = s[i]
  BY AppendProperties
<1>2. \A i \in 1..Len(t) : i = n + 1 \/ i \in 1..n
  BY <1>1
<1>2a. n + 1 \in 1..Len(t) /\ \A i \in 1..n : i \in 1..Len(t)
  BY <1>1
<1>. HIDE DEF n, t
<1>3. Listed(t) = Listed(s) \cup {e}
  BY <1>1, <1>2, <1>2a, Zenon DEF Listed, n
<1>4. ASSUME Distinct(s), e \notin Listed(s), NEW i \in 1..Len(t), NEW j \in 1..Len(t), t[i] = t[j] PROVE i = j
  <2>0. \A k \in 1..n : s[k] # e
    BY <1>4 DEF Listed, n
  <2>1. CASE i \in 1..n /\ j \in 1..n
    BY <1>1, <1>4, <2>1, Zenon DEF n, Distinct
  <2>2. CASE i = n + 1 /\ j \in 1..n
    BY <1>1, <1>4, <2>0, <2>2, Zenon
  <2>3. CASE i \in 1..n /\ j = n + 1
    BY <1>1, <1>4, <2>0, <2>3, Zenon
  <2>. QED
    BY <1>2, <2>1, <2>2, <2>3
<1>. QED
  BY <1>3, <1>4, Zenon DEF n, t, Distinct

\* Only(s, S): the elements of s in S, in their order.
LEMMA OnlyProperties ==
    ASSUME NEW T, NEW s \in Seq(T), NEW S
    PROVE  /\ Only(s, S) \in Seq(T) /\ Len(Only(s, S)) <= Len(s)
           /\ Listed(Only(s, S)) = Listed(s) \cap S
           /\ Distinct(s) => Distinct(Only(s, S))
<1>. DEFINE u == CHOOSE f : Filters(f, s, S, Len(s))
<1>0. Len(s) \in Nat
  OBVIOUS
<1>1. Filters(u, s, S, Len(s))
  BY <1>0, OnlyExists
<1>3. Only(s, S) = u[Len(s)]
  BY DEF Only, Filters
<1>. HIDE DEF u
<1>4. u[0] = <<>> /\ \A i \in 1..Len(s) : u[i] = IF s[i] \in S THEN Append(u[i - 1], s[i]) ELSE u[i - 1]
  <2>1. \A i \in 0..Len(s) : u[i] = IF i = 0 THEN <<>>
                        ELSE IF s[i] \in S THEN Append(u[i - 1], s[i]) ELSE u[i - 1]
    BY <1>1, Zenon DEF Filters
  <2>2. 0 \in 0..Len(s) /\ \A i \in 1..Len(s) : i \in 0..Len(s) /\ i # 0
    BY <1>0
  <2>. QED
    BY <2>1, <2>2, Zenon
<1>. DEFINE Before(m) == {s[j] : j \in 1..m}
            Good(m) == /\ u[m] \in Seq(T) /\ Len(u[m]) <= m
                       /\ Listed(u[m]) = Before(m) \cap S
                       /\ Distinct(s) => Distinct(u[m])
            P == {m \in Nat : m <= Len(s) => Good(m)}
<1>5. 0 \in P
  <2>1. u[0] \in Seq(T) /\ Len(u[0]) <= 0 /\ Distinct(u[0])
    BY <1>4 DEF Distinct
  <2>2. Listed(u[0]) = {} /\ Before(0) = {}
    BY <1>4 DEF Listed
  <2>. QED
    BY <2>1, <2>2
<1>6. ASSUME NEW m \in Nat, m \in P PROVE m + 1 \in P
  <2>. SUFFICES ASSUME m + 1 <= Len(s) PROVE Good(m + 1)
    OBVIOUS
  <2>1. Good(m) /\ m + 1 \in 1..Len(s) /\ (m + 1) - 1 = m
    BY <1>0, <1>6
  <2>2. s[m + 1] \in T /\ Before(m + 1) = Before(m) \cup {s[m + 1]}
    <3>1. 1..(m + 1) = (1..m) \cup {m + 1}
      OBVIOUS
    <3>. QED
      BY <2>1, <3>1
  <2>3. Distinct(s) => s[m + 1] \notin Before(m)
    BY <2>1, <1>0 DEF Distinct
  <2>. HIDE DEF Before
  <2>4. CASE s[m + 1] \in S
    <3>1. u[m + 1] = Append(u[m], s[m + 1])
      BY <1>4, <2>1, <2>4
    <3>2. u[m + 1] \in Seq(T) /\ Len(u[m + 1]) = Len(u[m]) + 1 /\ Len(u[m]) \in Nat
      BY <2>1, <2>2, <3>1
    <3>2a. u[m] \in Seq(T) /\ s[m + 1] \in T
      BY <2>1, <2>2
    <3>2b. /\ Listed(u[m + 1]) = Listed(u[m]) \cup {s[m + 1]}
           /\ Distinct(u[m]) /\ s[m + 1] \notin Listed(u[m]) => Distinct(u[m + 1])
      BY <3>1, <3>2a, ListedAppend
    <3>3. Listed(u[m + 1]) = Listed(u[m]) \cup {s[m + 1]}
      BY <3>2b
    <3>4. Distinct(s) => Distinct(u[m + 1])
      BY <2>1, <2>3, <3>2b, Zenon
    <3>5. Listed(u[m + 1]) = Before(m + 1) \cap S
      BY <2>1, <2>2, <2>4, <3>3, Zenon
    <3>6. Len(u[m + 1]) <= m + 1
      BY <2>1, <3>2
    <3>. QED
      BY <3>2, <3>4, <3>5, <3>6
  <2>5. CASE s[m + 1] \notin S
    <3>1. u[m + 1] = u[m]
      BY <1>4, <2>1, <2>5
    <3>2. Len(u[m]) \in Nat /\ Len(u[m]) <= m + 1
      BY <2>1
    <3>. QED
      BY <2>1, <2>2, <2>5, <3>1, <3>2
  <2>. QED
    BY <2>4, <2>5
<1>7. Len(s) \in P
  <2>. HIDE DEF P
  <2>. QED
    BY <1>0, <1>5, <1>6, Induction
<1>8. Good(Len(s))
  BY <1>0, <1>7
<1>9. Before(Len(s)) = Listed(s)
  BY DEF Listed
<1>. QED
  BY <1>3, <1>8, <1>9

\* A sequence without repetitions has as many elements as it is long.
LEMMA DistinctCardinality ==
    ASSUME NEW T, NEW s \in Seq(T), Distinct(s)
    PROVE  IsFiniteSet(Listed(s)) /\ Cardinality(Listed(s)) = Len(s)
<1>1. Len(s) \in Nat /\ s \in Bijection(1..Len(s), Listed(s))
  BY DEF Distinct, Listed, Bijection, Injection, Surjection, IsInjective
<1>2. IsFiniteSet(1..Len(s)) /\ Cardinality(1..Len(s)) = Len(s)
  <2>. DEFINE n == Len(s)
  <2>1. n \in Int /\ n >= 0
    BY <1>1
  <2>. HIDE DEF n
  <2>2. IsFiniteSet(1..n) /\ Cardinality(1..n) = n
    BY <2>1, FS_Interval
  <2>. QED
    BY <2>2 DEF n
<1>3. ExistsBijection(1..Len(s), Listed(s))
  BY <1>1 DEF ExistsBijection
<1>. QED
  BY <1>2, <1>3, FS_Bijection

\* move_to_end(), of a key that may be new.
LEMMA TouchProperties ==
    ASSUME NEW s \in Seq(Keys), Distinct(s), NEW k \in Keys
    PROVE  /\ Without(s, k) \in Seq(Keys) /\ Distinct(Without(s, k))
           /\ Len(Without(s, k)) <= Len(s)
           /\ Listed(Without(s, k)) = Listed(s) \ {k}
           /\ Append(Without(s, k), k) \in Seq(Keys)
           /\ Distinct(Append(Without(s, k), k))
           /\ Listed(Append(Without(s, k), k)) = Listed(s) \cup {k}
<1>. DEFINE w == Without(s, k)
<1>1. w \in Seq(Keys) /\ Distinct(w) /\ Len(w) <= Len(s) /\ Listed(w) = Listed(s) \ {k}
  <2>1. Listed(s) \cap (Listed(s) \ {k}) = Listed(s) \ {k}
    OBVIOUS
  <2>. QED
    BY <2>1, OnlyProperties DEF Without
<1>. HIDE DEF w
<1>2. Append(w, k) \in Seq(Keys)
  BY <1>1
<1>3. Distinct(Append(w, k)) /\ Listed(Append(w, k)) = Listed(w) \cup {k}
  BY <1>1, ListedAppend
<1>. QED
  BY <1>1, <1>2, <1>3 DEF w

\* A stretch of a sequence without repetitions.
LEMMA StretchProperties ==
    ASSUME NEW T, NEW s \in Seq(T), NEW m \in Int, NEW n \in Int, 1 <= m, n <= Len(s)
    PROVE  /\ SubSeq(s, m, n) \in Seq(T)
           /\ Len(SubSeq(s, m, n)) = IF m <= n THEN n - m + 1 ELSE 0
           /\ \A i \in 1..n - m + 1 : SubSeq(s, m, n)[i] = s[m + i - 1]
           /\ Listed(SubSeq(s, m, n)) \subseteq Listed(s)
           /\ Distinct(s) => Distinct(SubSeq(s, m, n))
<1>. DEFINE t == SubSeq(s, m, n)
<1>0. Len(s) \in Nat /\ \A i \in 1..Len(s) : s[i] \in T
  OBVIOUS
<1>1. /\ t \in Seq(T)
      /\ Len(t) = IF m <= n THEN n - m + 1 ELSE 0
      /\ \A i \in 1..n - m + 1 : t[i] = s[m + i - 1]
  <2>1. \A i \in m..n : s[i] \in T
    BY <1>0
  <2>. QED
    BY <2>1, SubSeqProperties
<1>. HIDE DEF t
<1>2. \A i \in 1..Len(t) : t[i] = s[m + i - 1] /\ m + i - 1 \in 1..Len(s) /\ i \in Int
  BY <1>0, <1>1
<1>3. Listed(t) \subseteq Listed(s)
  BY <1>2 DEF Listed
<1>4. ASSUME Distinct(s), NEW i \in 1..Len(t), NEW j \in 1..Len(t), t[i] = t[j] PROVE i = j
  <2>1. m + i - 1 = m + j - 1
    BY <1>2, <1>4, Zenon DEF Distinct
  <2>. QED
    BY <1>2, <2>1
<1>5. Distinct(s) => Distinct(t)
  BY <1>4 DEF Distinct
<1>. QED
  BY <1>1, <1>3, <1>5 DEF t

\* _evict_if_needed(): the warm end, and no more than the table may hold.
LEMMA HottestProperties ==
    ASSUME NEW s \in Seq(Keys), Distinct(s)
    PROVE  /\ Hottest(s) \in Seq(Keys) /\ Distinct(Hottest(s))
           /\ Len(Hottest(s)) <= MaxEntries
           /\ Listed(Hottest(s)) \subseteq Listed(s)
<1>1. MaxEntries \in Nat /\ Len(s) \in Nat
  BY CacheConfigAssumption DEF CacheConfigOK
<1>2. CASE Len(s) > MaxEntries
  <2>. DEFINE m == Len(s) - MaxEntries + 1  n == Len(s)
  <2>1. m \in Int /\ n \in Int /\ 1 <= m /\ n <= Len(s) /\ n - m + 1 = MaxEntries
        /\ ((IF m <= n THEN n - m + 1 ELSE 0) <= MaxEntries)
    BY <1>1, <1>2
  <2>2. Hottest(s) = SubSeq(s, m, n)
    BY <1>2 DEF Hottest
  <2>. HIDE DEF m, n
  <2>3. /\ SubSeq(s, m, n) \in Seq(Keys) /\ Len(SubSeq(s, m, n)) <= MaxEntries
        /\ Listed(SubSeq(s, m, n)) \subseteq Listed(s) /\ Distinct(SubSeq(s, m, n))
    BY <2>1, StretchProperties
  <2>. QED
    BY <2>2, <2>3
<1>3. CASE ~(Len(s) > MaxEntries)
  BY <1>1, <1>3 DEF Hottest
<1>. QED
  BY <1>2, <1>3

-------------------------------------------------------------------------------
\* The table: what it holds is what the order lists, each key once, and no more
\* than max_entries of them.
TableInv ==
    /\ entries \in [Keys -> Entry \cup {NoEntry}]
    /\ order \in Seq(Keys) /\ Distinct(order) /\ Len(order) <= MaxEntries
    /\ Listed(order) = {k \in Keys : entries[k] # NoEntry}
    /\ now \in Nat

\* The file of the last save(), likewise.
DiskInv ==
    /\ disk \in Seq(Keys \X Entry) /\ Len(disk) <= MaxEntries
    /\ \A i, j \in 1..Len(disk) : disk[i][1] = disk[j][1] => i = j

\* The inductive invariant of the cache.
CacheInv == TableInv /\ DiskInv

\* An empty cache.
LEMMA CacheInitInv == Init => CacheInv
<1>. SUFFICES ASSUME Init PROVE CacheInv
  OBVIOUS
<1>1. Len(<<>>) = 0 /\ <<>> \in Seq(Keys) /\ <<>> \in Seq(Keys \X Entry) /\ Listed(<<>>) = {}
      /\ Distinct(<<>>)
  BY DEF Listed, Distinct
<1>. QED
  BY <1>1, CacheConfigAssumption DEF Init, CacheInv, TableInv, DiskInv, CacheConfigOK

\* get(): a hit is moved to the warm end, an entry past its end is dropped.
LEMMA GetInv ==
    ASSUME CacheInv, NEW k \in Keys, NEW stale \in BOOLEAN, Get(k, stale) PROVE CacheInv'
<1>1. DiskInv' /\ now' \in Nat
  BY DEF CacheInv, DiskInv, TableInv, Get
<1>2. CASE Lookup(k, stale) # "miss"
  <2>1. entries[k] # NoEntry /\ entries[k] \in Entry
    BY <1>2 DEF Lookup, CacheInv, TableInv
  <2>2. entries' = [entries EXCEPT ![k].hits = Hit(entries[k]),
                            ![k].refreshing = @ \/ DueForPrefetch(k)]
    BY <1>2 DEF Get
  <2>3. Hit(entries[k]) \in 0..PrefetchMinHits
    BY <2>1, CacheConfigAssumption DEF Hit, Entry, CacheConfigOK
  <2>4. entries'[k] \in Entry /\ entries' \in [Keys -> Entry \cup {NoEntry}] /\ \A j \in Keys : j # k => entries'[j] = entries[j]
    BY <2>1, <2>2, <2>3 DEF Entry, CacheInv, TableInv, DueForPrefetch
  <2>5. order' = Append(Without(order, k), k)
    BY <1>2 DEF Get
  <2>6. order' \in Seq(Keys) /\ Distinct(order') /\ Listed(order') = Listed(order) \cup {k}
    BY <2>5, TouchProperties DEF CacheInv, TableInv
  <2>7. Listed(order') = Listed(order)
    BY <2>1, <2>6 DEF CacheInv, TableInv
  <2>8. Len(order') = Len(order)
    BY <2>6, <2>7, DistinctCardinality DEF CacheInv, TableInv
  <2>9. Listed(order') = {j \in Keys : entries'[j] # NoEntry}
    BY <2>1, <2>4, <2>7, CacheConfigAssumption DEF CacheInv, TableInv
  <2>. QED
    BY <1>1, <2>4, <2>6, <2>8, <2>9 DEF CacheInv, TableInv
<1>3. CASE Lookup(k, stale) = "miss" /\ entries[k] # NoEntry /\ ~Kept(k)
  <2>1. entries' = [entries EXCEPT ![k] = NoEntry] /\ order' = Without(order, k)
    BY <1>3 DEF Get
  <2>2. /\ order' \in Seq(Keys) /\ Distinct(order') /\ Len(order') <= Len(order)
        /\ Listed(order') = Listed(order) \ {k}
    BY <2>1, TouchProperties DEF CacheInv, TableInv
  <2>3. Len(order') <= MaxEntries
    BY <2>2, CacheConfigAssumption DEF CacheInv, TableInv, CacheConfigOK
  <2>4. Listed(order') = {j \in Keys : entries'[j] # NoEntry}
    BY <2>1, <2>2 DEF CacheInv, TableInv
  <2>. QED
    BY <1>1, <2>1, <2>2, <2>3, <2>4 DEF CacheInv, TableInv
<1>4. CASE UNCHANGED <<entries, order>>
  BY <1>1, <1>4 DEF CacheInv, TableInv
<1>. QED
  BY <1>2, <1>3, <1>4 DEF Get

\* A table cut down to the keys of a list of distinct ones.
LEMMA RestrictInv ==
    ASSUME NEW table \in [Keys -> Entry \cup {NoEntry}],
           NEW s \in Seq(Keys), \A k \in Listed(s) : table[k] # NoEntry
    PROVE  /\ ForKeys(table, s) \in [Keys -> Entry \cup {NoEntry}]
           /\ Listed(s) = {k \in Keys : ForKeys(table, s)[k] # NoEntry}
<1>1. Listed(s) \subseteq Keys
  BY DEF Listed
<1>. QED
  BY <1>1 DEF ForKeys

\* put(): the new entry, and the eviction it may cause.
LEMMA PutInv ==
    ASSUME CacheInv, NEW k \in Keys, NEW ttl \in UpstreamTTLs, Put(k, ttl) PROVE CacheInv'
<1>1. DiskInv' /\ now' \in Nat
  BY DEF CacheInv, DiskInv, TableInv, Put
<1>2. CASE Clamp(ttl) > 0 /\ Store(k, Clamp(ttl))
  <2>. DEFINE touched == Append(Without(order, k), k)
              table == [entries EXCEPT ![k] = NewEntry(Clamp(ttl))]
  <2>1. order' = Hottest(touched) /\ entries' = ForKeys(table, Hottest(touched))
    BY <1>2 DEF Store
  <2>2. touched \in Seq(Keys) /\ Distinct(touched) /\ Listed(touched) = Listed(order) \cup {k}
    BY TouchProperties DEF CacheInv, TableInv
  <2>3. NewEntry(Clamp(ttl)) \in Entry
    <3>1. Clamp(ttl) \in Nat
      BY CacheConfigAssumption DEF Clamp, CacheConfigOK
    <3>. QED
      BY <3>1, CacheConfigAssumption DEF NewEntry, Entry, CacheConfigOK, CacheInv, TableInv
  <2>4. table \in [Keys -> Entry \cup {NoEntry}] /\ \A j \in Listed(touched) : table[j] # NoEntry
    BY <2>2, <2>3, CacheConfigAssumption DEF CacheInv, TableInv
  <2>. HIDE DEF touched, table
  <2>5. /\ order' \in Seq(Keys) /\ Distinct(order') /\ Len(order') <= MaxEntries
        /\ Listed(order') \subseteq Listed(touched)
    BY <2>1, <2>2, HottestProperties
  <2>6. /\ entries' \in [Keys -> Entry \cup {NoEntry}]
        /\ Listed(order') = {j \in Keys : entries'[j] # NoEntry}
    BY <2>1, <2>4, <2>5, RestrictInv
  <2>. QED
    BY <1>1, <2>5, <2>6 DEF CacheInv, TableInv
<1>3. CASE UNCHANGED <<entries, order>>
  BY <1>1, <1>3 DEF CacheInv, TableInv
<1>. QED
  BY <1>2, <1>3 DEF Put

\* finish_refresh().
LEMMA FinishInv ==
    ASSUME CacheInv, NEW k \in Keys, FinishRefresh(k) PROVE CacheInv'
<1>1. DiskInv' /\ now' \in Nat /\ order' = order
  BY DEF CacheInv, DiskInv, TableInv, FinishRefresh
<1>2. /\ entries' \in [Keys -> Entry \cup {NoEntry}]
      /\ \A j \in Keys : entries'[j] # NoEntry <=> entries[j] # NoEntry
  <2>1. entries[k] # NoEntry => [entries[k] EXCEPT !.refreshing = FALSE] \in Entry
    BY DEF CacheInv, TableInv, Entry
  <2>. QED
    BY <2>1, CacheConfigAssumption DEF FinishRefresh, CacheInv, TableInv
<1>. QED
  BY <1>1, <1>2 DEF CacheInv, TableInv

\* flush() and invalidate().
LEMMA InvalidateInv ==
    ASSUME CacheInv, NEW S \in SUBSET Keys, Invalidate(S) PROVE CacheInv'
<1>1. DiskInv' /\ now' \in Nat
  BY DEF CacheInv, DiskInv, TableInv, Invalidate
<1>2. /\ order' = Only(order, Keys \ S)
      /\ entries' = [k \in Keys |-> IF k \in S THEN NoEntry ELSE entries[k]]
  BY DEF Invalidate
<1>3. /\ order' \in Seq(Keys) /\ Distinct(order') /\ Len(order') <= Len(order)
      /\ Listed(order') = Listed(order) \cap (Keys \ S)
  BY <1>2, OnlyProperties DEF CacheInv, TableInv
<1>4. Len(order') <= MaxEntries
  BY <1>3, CacheConfigAssumption DEF CacheInv, TableInv, CacheConfigOK
<1>5. Listed(order') = {k \in Keys : entries'[k] # NoEntry}
  BY <1>2, <1>3 DEF CacheInv, TableInv
<1>. QED
  BY <1>1, <1>2, <1>3, <1>4, <1>5 DEF CacheInv, TableInv

\* save(): the live entries, in their order.
LEMMA SaveInv == ASSUME CacheInv, Save PROVE CacheInv'
<1>. DEFINE names == Only(order, {k \in Listed(order) : Fresh(k)})
<1>1. /\ names \in Seq(Keys) /\ Distinct(names) /\ Len(names) <= Len(order)
      /\ Listed(names) \subseteq Listed(order)
  BY OnlyProperties DEF CacheInv, TableInv
<1>2. disk' = [i \in 1..Len(names) |-> <<names[i], entries[names[i]]>>]
  BY DEF Save
<1>. HIDE DEF names
<1>3. Len(names) \in Nat /\ Len(names) <= MaxEntries
  BY <1>1, CacheConfigAssumption DEF CacheInv, TableInv, CacheConfigOK
<1>4. \A i \in 1..Len(names) : names[i] \in Keys /\ entries[names[i]] \in Entry
  BY <1>1 DEF Listed, CacheInv, TableInv
<1>5. disk' \in Seq(Keys \X Entry) /\ Len(disk') = Len(names)
  BY <1>2, <1>3, <1>4
<1>6. \A i, j \in 1..Len(disk') : disk'[i][1] = disk'[j][1] => i = j
  BY <1>1, <1>2, <1>5 DEF Distinct
<1>. QED
  BY <1>3, <1>5, <1>6 DEF Save, CacheInv, TableInv, DiskInv

\* What load() makes of the first records of the file: entries of distinct
\* keys, no more than there were, and none that has run out.
LEMMA RestoredProperties ==
    ASSUME CacheInv, NEW readable \in 0..Len(disk)
    PROVE  LET pairs == Restored(SubSeq(disk, 1, readable)) IN
           /\ pairs \in Seq(Keys \X Entry) /\ Len(pairs) <= MaxEntries
           /\ \A i, j \in 1..Len(pairs) : pairs[i][1] = pairs[j][1] => i = j
           /\ \A i \in 1..Len(pairs) : now < pairs[i][2].expires
<1>. DEFINE R == Keys \X Entry
            records == SubSeq(disk, 1, readable)
            unexpired == {r \in Listed(records) : now < r[2].expires}
            live == Only(records, unexpired)
            pairs == Restored(records)
<1>1. /\ disk \in Seq(R) /\ Len(disk) \in Nat /\ Len(disk) <= MaxEntries /\ MaxEntries \in Nat
      /\ \A i, j \in 1..Len(disk) : disk[i][1] = disk[j][1] => i = j
  BY CacheConfigAssumption DEF CacheInv, DiskInv, CacheConfigOK
<1>2. Distinct(disk)
  BY <1>1 DEF Distinct
<1>3. /\ records \in Seq(R) /\ Distinct(records) /\ Listed(records) \subseteq Listed(disk)
      /\ Len(records) = IF 1 <= readable THEN readable - 1 + 1 ELSE 0
  <2>1. readable \in Int /\ readable <= Len(disk)
    BY <1>1
  <2>. QED
    BY <1>1, <1>2, <2>1, StretchProperties
<1>4. Len(records) <= Len(disk)
  BY <1>1, <1>3
<1>. HIDE DEF records, unexpired, R
<1>5. /\ live \in Seq(R) /\ Distinct(live) /\ Len(live) <= Len(records)
      /\ Listed(live) = Listed(records) \cap unexpired
  BY <1>3, OnlyProperties
<1>6. pairs = [i \in 1..Len(live) |-> <<live[i][1], [live[i][2] EXCEPT !.refreshing = FALSE]>>]
  BY DEF Restored, unexpired
<1>. HIDE DEF live, pairs
<1>7. Len(live) \in Nat /\ Len(live) <= MaxEntries
  BY <1>1, <1>3, <1>4, <1>5
<1>8. \A i \in 1..Len(live) : live[i] \in R /\ live[i] \in Listed(disk) /\ now < live[i][2].expires
  <2>1. \A i \in 1..Len(live) : live[i] \in Listed(live)
    BY DEF Listed
  <2>. QED
    BY <1>3, <1>5, <2>1 DEF unexpired
<1>9. \A i \in 1..Len(live) :
        /\ live[i][1] \in Keys /\ live[i][2] \in Entry
        /\ [live[i][2] EXCEPT !.refreshing = FALSE] \in Entry
        /\ [live[i][2] EXCEPT !.refreshing = FALSE].expires = live[i][2].expires
  BY <1>8 DEF R, Entry
<1>10. pairs \in Seq(R) /\ Len(pairs) = Len(live)
  BY <1>6, <1>7, <1>9 DEF R
<1>11. ASSUME NEW i \in 1..Len(live), NEW j \in 1..Len(live), live[i][1] = live[j][1] PROVE i = j
  <2>1. PICK a \in 1..Len(disk), b \in 1..Len(disk) : live[i] = disk[a] /\ live[j] = disk[b]
    BY <1>8 DEF Listed
  <2>2. a = b
    BY <1>1, <1>11, <2>1
  <2>. QED
    BY <1>5, <2>1, <2>2 DEF Distinct
<1>12. \A i, j \in 1..Len(pairs) : pairs[i][1] = pairs[j][1] => i = j
  BY <1>6, <1>10, <1>11
<1>13. \A i \in 1..Len(pairs) : now < pairs[i][2].expires
  BY <1>6, <1>8, <1>9, <1>10
<1>. QED
  BY <1>7, <1>10, <1>12, <1>13 DEF pairs, R, records

\* The table those records make.
LEMMA TableOfProperties ==
    ASSUME NEW pairs \in Seq(Keys \X Entry)
    PROVE  /\ TableOf(pairs) \in [Keys -> Entry \cup {NoEntry}]
           /\ \A k \in Keys : (\E i \in 1..Len(pairs) : pairs[i][1] = k)
                => \E i \in 1..Len(pairs) : TableOf(pairs)[k] = pairs[i][2]
           /\ \A k \in Keys : ~(\E i \in 1..Len(pairs) : pairs[i][1] = k)
                => TableOf(pairs)[k] = NoEntry
<1>1. \A i \in 1..Len(pairs) : pairs[i][2] \in Entry
  OBVIOUS
<1>2. ASSUME NEW k \in Keys, \E i \in 1..Len(pairs) : pairs[i][1] = k
      PROVE  \E i \in 1..Len(pairs) : TableOf(pairs)[k] = pairs[i][2]
  <2>. DEFINE i == CHOOSE i \in 1..Len(pairs) : pairs[i][1] = k
  <2>1. i \in 1..Len(pairs)
    BY <1>2
  <2>2. TableOf(pairs)[k] = pairs[i][2]
    BY <1>2 DEF TableOf
  <2>. QED
    BY <2>1, <2>2
<1>3. ASSUME NEW k \in Keys, ~(\E i \in 1..Len(pairs) : pairs[i][1] = k)
      PROVE  TableOf(pairs)[k] = NoEntry
  BY <1>3 DEF TableOf
<1>4. \A k \in Keys : TableOf(pairs)[k] \in Entry \cup {NoEntry}
  BY <1>1, <1>2, <1>3
<1>5. TableOf(pairs) = [k \in Keys |-> TableOf(pairs)[k]]
  BY DEF TableOf
<1>. QED
  BY <1>2, <1>3, <1>4, <1>5

\* load(), of a file that may be cut short.
LEMMA RestartInv ==
    ASSUME CacheInv, NEW readable \in 0..Len(disk), Restart(readable)
    PROVE  /\ CacheInv'
           /\ \A k \in Keys : entries'[k] # NoEntry => now < entries'[k].expires
<1>. DEFINE pairs == Restored(SubSeq(disk, 1, readable))
            names == [i \in 1..Len(pairs) |-> pairs[i][1]]
            kept == IF readable = Len(disk) THEN Hottest(names) ELSE names
<1>1. order' = kept /\ entries' = ForKeys(TableOf(pairs), kept) /\ UNCHANGED <<disk, now>>
  BY DEF Restart
<1>2. /\ pairs \in Seq(Keys \X Entry) /\ Len(pairs) <= MaxEntries
      /\ \A i, j \in 1..Len(pairs) : pairs[i][1] = pairs[j][1] => i = j
      /\ \A i \in 1..Len(pairs) : now < pairs[i][2].expires
  BY RestoredProperties
<1>. HIDE DEF pairs
<1>3. names \in Seq(Keys) /\ Distinct(names) /\ Len(names) = Len(pairs)
  BY <1>2 DEF Distinct
<1>4. \A k \in Listed(names) : k \in Keys /\ \E i \in 1..Len(pairs) : pairs[i][1] = k
  BY <1>2, <1>3 DEF Listed
<1>. HIDE DEF names
<1>5. /\ kept \in Seq(Keys) /\ Distinct(kept) /\ Len(kept) <= MaxEntries
      /\ Listed(kept) \subseteq Listed(names)
  BY <1>2, <1>3, HottestProperties
<1>. HIDE DEF kept
<1>6. TableOf(pairs) \in [Keys -> Entry \cup {NoEntry}]
  BY <1>2, TableOfProperties
<1>7. ASSUME NEW k \in Keys
      PROVE  \/ TableOf(pairs)[k] = NoEntry /\ k \notin Listed(names)
             \/ TableOf(pairs)[k] \in Entry /\ now < TableOf(pairs)[k].expires
  BY <1>2, <1>4, TableOfProperties
<1>8. \A k \in Listed(kept) : TableOf(pairs)[k] # NoEntry
  BY <1>4, <1>5, <1>7, CacheConfigAssumption
<1>9. /\ entries' \in [Keys -> Entry \cup {NoEntry}]
      /\ Listed(order') = {k \in Keys : entries'[k] # NoEntry}
  BY <1>1, <1>5, <1>6, <1>8, RestrictInv
<1>10. \A k \in Keys : entries'[k] # NoEntry => now < entries'[k].expires
  BY <1>1, <1>7 DEF ForKeys
<1>. QED
  BY <1>1, <1>5, <1>9, <1>10 DEF CacheInv, TableInv, DiskInv

\* Every step of the cache keeps its invariant.
LEMMA CacheInvStep == CacheInv /\ [Next]_(vars) => CacheInv'
<1>. SUFFICES ASSUME CacheInv, [Next]_(vars) PROVE CacheInv'
  OBVIOUS
<1>1. ASSUME NEW S \in {Keys} \cup {{k} : k \in Keys}, Invalidate(S) PROVE CacheInv'
  BY <1>1, InvalidateInv
<1>2. CASE Tick
  BY <1>2 DEF Tick, CacheInv, TableInv, DiskInv
<1>3. CASE UNCHANGED vars
  BY <1>3 DEF vars, CacheInv, TableInv, DiskInv
<1>4. ASSUME NEW n \in 0..Len(disk), Restart(n) PROVE CacheInv'
  BY <1>4, RestartInv
<1>5. ASSUME NEW k \in Keys, NEW stale \in BOOLEAN, Get(k, stale) PROVE CacheInv'
  BY <1>5, GetInv
<1>6. ASSUME NEW k \in Keys, NEW ttl \in UpstreamTTLs, Put(k, ttl) PROVE CacheInv'
  BY <1>6, PutInv
<1>7. ASSUME NEW k \in Keys, FinishRefresh(k) PROVE CacheInv'
  BY <1>7, FinishInv
<1>8. CASE Save
  BY <1>8, SaveInv
<1>. QED
  BY <1>1, <1>2, <1>3, <1>4, <1>5, <1>6, <1>7, <1>8 DEF Next

\* So it always holds.
LEMMA CacheInvariance == Spec => []CacheInv
BY CacheInitInv, CacheInvStep, PTL DEF Spec

\* The table and its recency order agree and the table keeps to max_entries, for
\* any mix of stores, expiries, invalidations, saves and reloads: get(), put() and
\* _evict_if_needed() of cache.py.
THEOREM CacheStaysBounded == Spec => []BoundedLRU
<1>1. CacheInv => BoundedLRU
  <2>. SUFFICES ASSUME CacheInv PROVE BoundedLRU
    OBVIOUS
  <2>1. order \in Seq(Keys) /\ Distinct(order)
    BY DEF CacheInv, TableInv
  <2>2. Cardinality(Listed(order)) = Len(order)
    BY <2>1, DistinctCardinality
  <2>. QED
    BY <2>2 DEF CacheInv, TableInv, BoundedLRU
<1>. QED
  BY <1>1, CacheInvariance, PTL

\* No get() and no load() of cache.py brings an answer back that has run out, or
\* gives one more time: an entry appears, or lasts longer, only as a new answer or
\* as one that had time left when it was saved.
THEOREM CacheNeverResurrects == Spec => NoResurrection
<1>. DEFINE Honest ==
        \A k \in Keys :
         /\ entries'[k] # NoEntry
         /\ entries[k] = NoEntry \/ entries'[k].expires > entries[k].expires
         => entries'[k].stored = now \/ now < entries'[k].expires
<1>1. CacheInv /\ [Next]_(vars) => [Honest]_(vars)
  <2>. SUFFICES ASSUME CacheInv, Next PROVE Honest
    BY DEF vars
  <2>. USE DEF CacheInv, TableInv
  <2>1. ASSUME NEW k \in Keys, NEW stale \in BOOLEAN, Get(k, stale) PROVE Honest
    <3>1. \A j \in Keys : entries'[j] # NoEntry => entries[j] # NoEntry /\ entries'[j].expires = entries[j].expires
      <4>1. CASE Lookup(k, stale) # "miss"
        <5>1. entries[k] # NoEntry /\ entries[k] \in Entry
          BY <4>1 DEF Lookup
        <5>2. entries' = [entries EXCEPT ![k].hits = Hit(entries[k]),
                            ![k].refreshing = @ \/ DueForPrefetch(k)]
          BY <2>1, <4>1 DEF Get
        <5>. QED
          BY <5>1, <5>2 DEF Entry
      <4>2. CASE Lookup(k, stale) = "miss"
        BY <2>1, <4>2 DEF Get
      <4>. QED
        BY <4>1, <4>2
    <3>2. \A j \in Keys : entries[j] # NoEntry => entries[j].expires \in Nat
      BY DEF Entry
    <3>. QED
      BY <3>1, <3>2
  <2>2. ASSUME NEW k \in Keys, NEW ttl \in UpstreamTTLs, Put(k, ttl) PROVE Honest
    <3>1. \A j \in Keys : entries[j] # NoEntry => entries[j].expires \in Nat
      BY DEF Entry
    <3>2. \A j \in Keys : entries'[j] # NoEntry => entries'[j] = entries[j] \/ entries'[j].stored = now
      BY <2>2 DEF Put, Store, ForKeys, NewEntry
    <3>. QED
      BY <3>1, <3>2
  <2>3. ASSUME NEW k \in Keys, FinishRefresh(k) PROVE Honest
    <3>1. \A j \in Keys : entries[j] # NoEntry => entries[j] \in Entry /\ entries[j].expires \in Nat
      BY DEF Entry
    <3>2. \A j \in Keys : entries'[j] # NoEntry => entries[j] # NoEntry /\ entries'[j].expires = entries[j].expires
      BY <2>3, <3>1 DEF FinishRefresh, Entry
    <3>. QED
      BY <3>1, <3>2
  <2>4. CASE \/ \E S \in {Keys} \cup {{k} : k \in Keys} : Invalidate(S)
             \/ Save \/ Tick
    <3>1. \A j \in Keys : entries[j] # NoEntry => entries[j].expires \in Nat
      BY DEF Entry
    <3>2. \A j \in Keys : entries'[j] # NoEntry => entries'[j] = entries[j]
      BY <2>4 DEF Invalidate, Save, Tick
    <3>. QED
      BY <3>1, <3>2
  <2>5. ASSUME NEW n \in 0..Len(disk), Restart(n) PROVE Honest
    <3>. HIDE DEF CacheInv
    <3>. QED
      BY <2>5, RestartInv
  <2>. QED
    BY <2>1, <2>2, <2>3, <2>4, <2>5 DEF Next
<1>. QED
  BY <1>1, CacheInvariance, PTL DEF Spec, NoResurrection
===============================================================================
