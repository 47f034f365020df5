----------------------------- MODULE Gateway_proofs -----------------------------
(***************************************************************************)
(* Theorems about the gateway and its servers: the rate limiter, alone and *)
(* in the time server; the firewall's rulesets and the threads that load   *)
(* them; the DHCP server; and the reflector.                               *)
(*                                                                         *)
(* Rulesets: the first rule that matches decides, so the verdict of a      *)
(* chain put together from parts is that of its first part, with that of   *)
(* the rest as its policy (VerdictOfConcat).                               *)
(*                                                                         *)
(* The DHCP server: AllocationKeeps says what _allocate() may do to the    *)
(* entry of a key: it stays, unless it is the key that asked and had none, *)
(* or it has expired.  The rest follows from it.                           *)
(*                                                                         *)
(* The reflector: a packet is followed by the boxes that remember it since *)
(* it came by.  A copy has one box more behind it than what it is a copy   *)
(* of, as long as the delays of all the boxes fit into the window.         *)
(***************************************************************************)
EXTENDS Gateway, TimeServer, DHCP, Reflector, SequenceTheorems, FiniteSetTheorems,
         WellFoundedInduction, TLAPS

-------------------------------------------------------------------------------
\* Every step of the limiter and of its clients keeps the types and both limits.
LEMMA RateStep ==
    ASSUME RateTypeOK, NeverGenerous, RateRespected, RateNext
    PROVE  RateTypeOK' /\ NeverGenerous' /\ RateRespected'
<1> USE RateAssumption
<1>1. /\ Rate \in Nat /\ Burst \in Nat /\ Cost \in Nat /\ IdleCutoff \in Nat
      /\ Rate > 0 /\ Burst > 0 /\ Cost > 0 /\ IdleCutoff > 0
      /\ SweepEvery \in Nat /\ Rate * IdleCutoff >= Burst
    BY DEF RateAssumption
<1>2. ASSUME NEW c \in DOMAIN bucket
      PROVE  /\ bucket[c].tokens \in 0..Burst /\ bucket[c].age \in 0..IdleCutoff
             /\ bucket[c].age * Rate \in Nat
             /\ bucket[c] = [tokens |-> bucket[c].tokens, age |-> bucket[c].age]
             /\ c \in Clients
    BY <1>1 DEF RateTypeOK
<1>3. ASSUME NEW c \in Clients
      PROVE  Tokens(c) \in 0..Burst /\ fair[c] \in Int
    BY <1>1, <1>2 DEF Tokens, AtMost, RateTypeOK
<1>4. CASE RateTick
  <2>1. /\ DOMAIN bucket' = DOMAIN bucket
        /\ \A c \in DOMAIN bucket :
              /\ bucket'[c].tokens = bucket[c].tokens
              /\ bucket'[c].age = AtMost(IdleCutoff, bucket[c].age + 1)
              /\ bucket'[c] \in [tokens : 0..Burst, age : 0..IdleCutoff]
    BY <1>1, <1>2, <1>4 DEF RateTick, AtMost
  <2>2. RateTypeOK'
    <3>1. bucket' = [c \in DOMAIN bucket' |-> bucket'[c]]
      BY <1>4 DEF RateTick
    <3>2. bucket' \in [DOMAIN bucket' -> [tokens : 0..Burst, age : 0..IdleCutoff]]
      BY <2>1, <3>1
    <3>3. lastSweep' \in 0..(SweepEvery + 1) /\ fair' \in [Clients -> Int]
      BY <1>1, <1>3, <1>4 DEF RateTick, AtMost, RateTypeOK
    <3> QED
      BY <2>1, <3>2, <3>3 DEF RateTypeOK
  <2>3. ASSUME NEW c \in Clients
        PROVE  Tokens(c)' <= AtMost(Burst, Tokens(c) + Rate)
    <3>1. CASE c \notin DOMAIN bucket
      BY <1>1, <2>1, <3>1 DEF Tokens, AtMost
    <3>2. CASE c \in DOMAIN bucket
      <4> DEFINE old == bucket[c].age
                 new == AtMost(IdleCutoff, bucket[c].age + 1)
      <4>1. new \in Nat /\ old \in Nat /\ (new = old \/ new = old + 1)
        BY <1>1, <1>2, <3>2 DEF AtMost
      <4>2. new * Rate <= old * Rate + Rate /\ new * Rate \in Nat /\ old * Rate \in Nat
        BY <1>1, <4>1
      <4>3. Tokens(c)' = AtMost(Burst, bucket[c].tokens + new * Rate)
        BY <2>1, <3>2 DEF Tokens
      <4>4. Tokens(c) = AtMost(Burst, bucket[c].tokens + old * Rate)
        BY <3>2 DEF Tokens
      <4> HIDE DEF old, new
      <4> QED
        BY <1>1, <1>2, <3>2, <4>2, <4>3, <4>4 DEF AtMost
    <3> QED
      BY <3>1, <3>2
  <2>4. ASSUME NEW c \in Clients
        PROVE  fair'[c] = AtMost(Burst, fair[c] + Rate) /\ Tokens(c) <= fair[c]
    BY <1>4 DEF RateTick, NeverGenerous
  <2>5. ASSUME NEW c \in Clients
        PROVE  Tokens(c)' \in Int
    BY <1>1, <2>1, <2>2 DEF RateTypeOK, Tokens, AtMost
  <2>6. NeverGenerous'
    BY <1>1, <1>3, <2>3, <2>4, <2>5 DEF NeverGenerous, AtMost
  <2>7. RateRespected'
    BY <1>1, <1>3, <2>4 DEF RateRespected, AtMost
  <2> QED
    BY <2>2, <2>6, <2>7
<1>5. ASSUME NEW c \in Clients, NEW n \in 0..Burst
      PROVE  /\ DOMAIN Put(c, n) = DOMAIN bucket \cup {c}
             /\ Put(c, n) \in [DOMAIN bucket \cup {c} ->
                                  [tokens : 0..Burst, age : 0..IdleCutoff]]
             /\ Put(c, n)[c] = [tokens |-> n, age |-> 0]
             /\ \A x \in DOMAIN bucket \ {c} : Put(c, n)[x] = bucket[x]
  <2>1. [tokens |-> n, age |-> 0] \in [tokens : 0..Burst, age : 0..IdleCutoff]
    BY <1>1
  <2> QED
    BY <2>1 DEF Put, RateTypeOK
<1>6. ASSUME NEW c \in Clients, Deny(c)
      PROVE  RateTypeOK' /\ NeverGenerous' /\ RateRespected'
  <2>0. Tokens(c) \in 0..Burst
    BY <1>3
  <2>1. /\ UNCHANGED <<lastSweep, fair>>
        /\ DOMAIN bucket' = DOMAIN bucket \cup {c}
        /\ bucket' \in [DOMAIN bucket \cup {c} -> [tokens : 0..Burst, age : 0..IdleCutoff]]
        /\ bucket'[c] = [tokens |-> Tokens(c), age |-> 0]
        /\ \A x \in DOMAIN bucket \ {c} : bucket'[x] = bucket[x]
    <3>1. bucket' = Put(c, Tokens(c)) /\ UNCHANGED <<lastSweep, fair>>
      BY <1>6 DEF Deny
    <3> QED
      BY <1>5, <2>0, <3>1
  <2>2. RateTypeOK'
    BY <2>1 DEF RateTypeOK
  <2>3. ASSUME NEW x \in Clients PROVE Tokens(x)' = Tokens(x)
    <3>1. CASE x = c
      <4>1. bucket'[x].tokens = Tokens(x) /\ bucket'[x].age = 0 /\ x \in DOMAIN bucket'
        BY <2>1, <3>1
      <4> QED
        BY <1>1, <1>3, <4>1 DEF Tokens, AtMost
    <3>2. CASE x # c
      BY <2>1, <3>2 DEF Tokens
    <3> QED
      BY <3>1, <3>2
  <2> QED
    BY <2>1, <2>2, <2>3 DEF NeverGenerous, RateRespected
<1>7. ASSUME NEW c \in Clients, Allow(c)
      PROVE  RateTypeOK' /\ NeverGenerous' /\ RateRespected'
  <2> DEFINE put == Put(c, Tokens(c) - Cost)
  <2>1. Tokens(c) - Cost \in 0..Burst
    BY <1>1, <1>3, <1>7 DEF Allow
  <2>2. /\ DOMAIN put = DOMAIN bucket \cup {c}
        /\ put \in [DOMAIN bucket \cup {c} -> [tokens : 0..Burst, age : 0..IdleCutoff]]
        /\ put[c] = [tokens |-> Tokens(c) - Cost, age |-> 0]
        /\ \A x \in DOMAIN bucket \ {c} : put[x] = bucket[x]
    BY <1>5, <2>1
  <2> HIDE DEF put
  <2>3. \/ bucket' = put /\ UNCHANGED lastSweep
        \/ bucket' = Swept(put) /\ lastSweep' = 0
    BY <1>7 DEF Allow, put
  <2>4. /\ DOMAIN bucket' \subseteq DOMAIN bucket \cup {c}
        /\ c \in DOMAIN bucket'
        /\ \A x \in DOMAIN bucket' : bucket'[x] = put[x]
        /\ \A x \in DOMAIN bucket \ DOMAIN bucket' : bucket[x].age >= IdleCutoff
        /\ bucket' \in [DOMAIN bucket' -> [tokens : 0..Burst, age : 0..IdleCutoff]]
    <3>1. CASE bucket' = put
      BY <2>2, <3>1
    <3>2. CASE bucket' = Swept(put)
      <4>1. DOMAIN bucket' = {y \in DOMAIN put : put[y].age < IdleCutoff}
        BY <3>2 DEF Swept
      <4>2. \A x \in DOMAIN bucket' : bucket'[x] = put[x]
        BY <3>2, <4>1 DEF Swept
      <4>3. c \in DOMAIN bucket'
        BY <1>1, <2>2, <4>1
      <4>4. ASSUME NEW x \in DOMAIN bucket \ DOMAIN bucket'
            PROVE  bucket[x].age >= IdleCutoff
        BY <1>1, <1>2, <2>2, <4>1, <4>3
      <4>5. bucket' \in [DOMAIN bucket' -> [tokens : 0..Burst, age : 0..IdleCutoff]]
        BY <2>2, <3>2, <4>1 DEF Swept
      <4> QED
        BY <2>2, <4>1, <4>2, <4>3, <4>4, <4>5
    <3> QED
      BY <2>3, <3>1, <3>2
  <2>5. fair' = [fair EXCEPT ![c] = @ - Cost]
    BY <1>7 DEF Allow
  <2>6. RateTypeOK'
    <3>1. lastSweep' \in 0..(SweepEvery + 1) /\ fair' \in [Clients -> Int]
      BY <1>1, <2>3, <2>5 DEF RateTypeOK
    <3> QED
      BY <2>4, <3>1 DEF RateTypeOK
  <2>7. Tokens(c)' = Tokens(c) - Cost
    <3>1. bucket'[c].tokens = Tokens(c) - Cost /\ bucket'[c].age = 0
      BY <2>2, <2>4
    <3> QED
      BY <1>1, <2>1, <2>4, <3>1 DEF Tokens, AtMost
  <2>8. ASSUME NEW x \in Clients, x # c
        PROVE  Tokens(x)' = Tokens(x)
    <3>1. CASE x \in DOMAIN bucket'
      <4>1. x \in DOMAIN bucket /\ bucket'[x] = bucket[x]
        BY <2>2, <2>4, <2>8, <3>1
      <4> QED
        BY <3>1, <4>1 DEF Tokens
    <3>2. CASE x \notin DOMAIN bucket'
      <4>1. CASE x \notin DOMAIN bucket
        BY <3>2, <4>1 DEF Tokens
      <4>2. CASE x \in DOMAIN bucket
        <5>1. bucket[x].age = IdleCutoff /\ bucket[x].tokens \in 0..Burst
          <6>1. bucket[x].age >= IdleCutoff
            BY <2>4, <3>2, <4>2
          <6>2. bucket[x].tokens \in 0..Burst /\ bucket[x].age \in 0..IdleCutoff
            BY <1>2, <4>2
          <6> QED
            BY <1>1, <6>1, <6>2
        <5>2. bucket[x].age * Rate >= Burst /\ bucket[x].age * Rate \in Nat
          BY <1>1, <5>1
        <5>3. Tokens(x) = Burst
          BY <1>1, <4>2, <5>1, <5>2 DEF Tokens, AtMost
        <5> QED
          BY <3>2, <5>3 DEF Tokens
      <4> QED
        BY <4>1, <4>2
    <3> QED
      BY <3>1, <3>2
  <2>9. NeverGenerous'
    BY <1>1, <1>3, <2>5, <2>7, <2>8 DEF NeverGenerous, RateTypeOK
  <2>10. RateRespected'
    BY <1>1, <1>3, <2>1, <2>5 DEF NeverGenerous, RateRespected, RateTypeOK
  <2> QED
    BY <2>6, <2>9, <2>10
<1> QED
    BY <1>4, <1>6, <1>7 DEF RateNext

\* RateLimiter.allow() of server.py, whose table forgets clients, never grants a
\* client more than a bucket that forgets nobody would, for any rate, burst, number
\* of clients and interval between sweeps.
THEOREM LimiterNeverGenerous == RateSpec => [](RateRespected /\ NeverGenerous)
<1> DEFINE IInv == RateTypeOK /\ NeverGenerous /\ RateRespected
<1>1. RateInit => IInv
    BY RateAssumption
    DEF RateInit, RateTypeOK, NeverGenerous, RateRespected, Tokens, RateAssumption
<1>2. IInv /\ [RateNext]_rateVars => IInv'
  <2>1. IInv /\ RateNext => IInv'
    BY RateStep
  <2>2. IInv /\ UNCHANGED rateVars => IInv'
    BY DEF rateVars, RateTypeOK, NeverGenerous, RateRespected, Tokens
  <2> QED
    BY <2>1, <2>2
<1> QED
    BY <1>1, <1>2, PTL DEF RateSpec

\* The same of the limiter inside the time server of timeserver.py: whatever
\* requests arrive, no client gets more answers than the limiter allows.
THEOREM TimeServerLimited == TimeSpec => []RateRespected
<1>1. TimeInit => RateInit
    BY DEF TimeInit
<1>2. [TimeNext]_timeVars => [RateNext]_rateVars
  <2>1. ASSUME TimeNext PROVE RateNext \/ UNCHANGED rateVars
    <3>1. CASE TimePasses
      BY <3>1 DEF TimePasses, RateNext
    <3>2. CASE ClockChanges \/ StartTime \/ StopTime
      BY <3>2 DEF ClockChanges, StartTime, StopTime, rateVars
    <3>3. ASSUME NEW client \in Clients, NEW request \in Requests,
                 ServeTime(client, request)
          PROVE  RateNext
      BY <3>3 DEF ServeTime, RateNext
    <3> QED
      BY <2>1, <3>1, <3>2, <3>3 DEF TimeNext
  <2>2. UNCHANGED timeVars => UNCHANGED rateVars
    BY DEF timeVars, rateVars
  <2> QED
    BY <2>1, <2>2
<1> QED
    BY <1>1, <1>2, LimiterNeverGenerous, PTL DEF TimeSpec, RateSpec

-------------------------------------------------------------------------------
\* A set of natural numbers has a least element, which Min chooses.
LEMMA LeastElement ==
    ASSUME NEW S \in SUBSET Nat, S # {}
    PROVE  Min(S) \in S /\ \A y \in S : Min(S) <= y
<1>1. \E x \in S : \A y \in S : ~(<<y, x>> \in OpToRel(<, Nat))
    BY NatLessThanWellFounded, WFMin
<1>2. \A x, y \in Nat : <<y, x>> \in OpToRel(<, Nat) <=> y < x
    BY DEF OpToRel
<1>3. \E x \in S : \A y \in S : ~(y < x)
    BY <1>1, <1>2, Zenon
<1>4. \E x \in S : \A y \in S : x <= y
    BY <1>3
<1> QED
    BY <1>4 DEF Min

\* The places of the rules that match.
Hits(chain, p) == {i \in DOMAIN chain : Matches(chain[i], p)}

\* The first rule that matches decides.
LEMMA FirstHit ==
    ASSUME NEW R, NEW chain \in Seq(R), NEW policy, NEW p,
           NEW i \in DOMAIN chain, Matches(chain[i], p),
           \A j \in DOMAIN chain : j < i => ~Matches(chain[j], p)
    PROVE  Verdict(chain, policy, p) = chain[i].verdict
<1> DEFINE hits == Hits(chain, p)
<1>1. hits \in SUBSET Nat /\ i \in hits
    BY DEF Hits
<1>2. Min(hits) \in hits /\ Min(hits) <= i
    BY <1>1, LeastElement
<1>3. Min(hits) = i
    BY <1>1, <1>2 DEF Hits
<1> QED
    BY <1>1, <1>3 DEF Verdict, Hits

\* If none matches, the policy does.
LEMMA NoHit ==
    ASSUME NEW chain, NEW policy, NEW p, Hits(chain, p) = {}
    PROVE  Verdict(chain, policy, p) = policy
    BY DEF Verdict, Hits

\* A chain that goes on: what the first part does not decide the rest does.
LEMMA VerdictOfConcat ==
    ASSUME NEW R, NEW a \in Seq(R), NEW b \in Seq(R), NEW policy, NEW p
    PROVE  Verdict(a \o b, policy, p) = Verdict(a, Verdict(b, policy, p), p)
<1> DEFINE c == a \o b
<1>1. /\ c \in Seq(R) /\ Len(c) = Len(a) + Len(b) /\ Len(a) \in Nat /\ Len(b) \in Nat
      /\ DOMAIN a = 1..Len(a) /\ DOMAIN b = 1..Len(b) /\ DOMAIN c = 1..Len(c)
      /\ \A i \in 1..Len(a) : c[i] = a[i]
      /\ \A i \in 1..Len(b) : c[Len(a) + i] = b[i]
    BY ConcatProperties, LenProperties
<1> HIDE DEF c
<1>0. c \in Seq(R)
    BY <1>1
<1>2. CASE Hits(a, p) # {}
  <2>1. Hits(a, p) \in SUBSET Nat
    BY <1>1 DEF Hits
  <2>2. PICK i \in Hits(a, p) : \A y \in Hits(a, p) : i <= y
    BY <1>2, <2>1, LeastElement
  <2>3. i \in DOMAIN a /\ Matches(a[i], p)
        /\ \A j \in DOMAIN a : j < i => ~Matches(a[j], p)
    BY <1>1, <2>2 DEF Hits
  <2>4. Verdict(a, Verdict(b, policy, p), p) = a[i].verdict
    BY <2>3, FirstHit
  <2>5. i \in DOMAIN c /\ Matches(c[i], p)
        /\ \A j \in DOMAIN c : j < i => ~Matches(c[j], p)
    BY <1>1, <2>3
  <2>6. Verdict(c, policy, p) = c[i].verdict
    BY <1>0, <2>5, FirstHit
  <2> QED
    BY <1>1, <2>3, <2>4, <2>6 DEF c
<1>3. CASE Hits(a, p) = {} /\ Hits(b, p) # {}
  <2>1. Hits(b, p) \in SUBSET Nat
    BY <1>1 DEF Hits
  <2>2. PICK i \in Hits(b, p) : \A y \in Hits(b, p) : i <= y
    BY <1>3, <2>1, LeastElement
  <2>3. i \in DOMAIN b /\ Matches(b[i], p)
        /\ \A j \in DOMAIN b : j < i => ~Matches(b[j], p)
    BY <1>1, <2>2 DEF Hits
  <2>4. Verdict(b, policy, p) = b[i].verdict
    BY <2>3, FirstHit
  <2>5. Len(a) + i \in DOMAIN c /\ Matches(c[Len(a) + i], p)
        /\ c[Len(a) + i] = b[i]
    BY <1>1, <2>3
  <2>6. ASSUME NEW j \in DOMAIN c, j < Len(a) + i
        PROVE  ~Matches(c[j], p)
    <3>1. CASE j \in 1..Len(a)
      BY <1>1, <1>3, <3>1 DEF Hits
    <3>2. CASE j \notin 1..Len(a)
      <4>1. j - Len(a) \in 1..Len(b) /\ j - Len(a) < i /\ j = Len(a) + (j - Len(a))
        BY <1>1, <2>3, <2>6, <3>2
      <4>2. c[j] = b[j - Len(a)]
        BY <1>1, <4>1
      <4> QED
        BY <1>1, <2>3, <4>1, <4>2
    <3> QED
      BY <3>1, <3>2
  <2>7. Verdict(c, policy, p) = c[Len(a) + i].verdict
    BY <1>0, <2>5, <2>6, FirstHit
  <2> QED
    BY <1>3, <2>4, <2>5, <2>7, NoHit DEF c
<1>4. CASE Hits(a, p) = {} /\ Hits(b, p) = {}
  <2>1. ASSUME NEW j \in DOMAIN c PROVE ~Matches(c[j], p)
    <3>1. CASE j \in 1..Len(a)
      BY <1>1, <1>4, <3>1 DEF Hits
    <3>2. CASE j \notin 1..Len(a)
      <4>1. j - Len(a) \in 1..Len(b) /\ j = Len(a) + (j - Len(a))
        BY <1>1, <3>2
      <4>2. c[j] = b[j - Len(a)]
        BY <1>1, <4>1
      <4> QED
        BY <1>1, <1>4, <4>1, <4>2 DEF Hits
    <3> QED
      BY <3>1, <3>2
  <2>2. Hits(c, p) = {}
    BY <2>1 DEF Hits
  <2> QED
    BY <1>4, <2>2, NoHit DEF c
<1> QED
    BY <1>2, <1>3, <1>4
-------------------------------------------------------------------------------
\* What rules can be.
RuleRecords ==
    [iif : SUBSET Devices, oif : SUBSET Devices, src : SUBSET Places,
     dst : SUBSET (Places \cup Services), kind : SUBSET Kinds,
     verdict : {"accept", "drop", "reject"}]

\* Rule() is a sequence of them.
LEMMA RuleInSeq ==
    ASSUME NEW iif \in SUBSET Devices, NEW oif \in SUBSET Devices,
           NEW src \in SUBSET Places, NEW dst \in SUBSET (Places \cup Services),
           NEW kind \in SUBSET Kinds, NEW verdict \in {"accept", "drop", "reject"}
    PROVE  Rule(iif, oif, src, dst, kind, verdict) \in Seq(RuleRecords)
<1> DEFINE rec == [iif |-> iif, oif |-> oif, src |-> src, dst |-> dst,
                   kind |-> kind, verdict |-> verdict]
<1>1. rec \in RuleRecords
    BY DEF RuleRecords
<1>2. Rule(iif, oif, src, dst, kind, verdict) = <<rec>>
    BY DEF Rule
<1> HIDE DEF rec
<1> QED
    BY <1>1, <1>2

\* What a chain of one rule says.
LEMMA RuleVerdict ==
    ASSUME NEW iif, NEW oif, NEW src, NEW dst, NEW kind, NEW verdict,
           NEW policy, NEW p
    PROVE  Verdict(Rule(iif, oif, src, dst, kind, verdict), policy, p)
           = IF /\ p.iif \in iif /\ p.oif \in oif /\ p.src \in src
                /\ p.dst \in dst /\ p.kind \in kind
             THEN verdict ELSE policy
<1> DEFINE rec == [iif |-> iif, oif |-> oif, src |-> src, dst |-> dst,
                   kind |-> kind, verdict |-> verdict]
           chain == Rule(iif, oif, src, dst, kind, verdict)
<1>1. chain = <<rec>>
    BY DEF Rule
<1>2. Matches(rec, p) <=> /\ p.iif \in iif /\ p.oif \in oif /\ p.src \in src
                          /\ p.dst \in dst /\ p.kind \in kind
    BY DEF Matches
<1>3. rec.verdict = verdict
    OBVIOUS
<1> HIDE DEF rec, chain
<1>4. chain \in Seq({rec}) /\ DOMAIN chain = {1} /\ chain[1] = rec
    BY <1>1
<1>5. CASE Matches(rec, p)
  <2>1. /\ 1 \in DOMAIN chain /\ Matches(chain[1], p)
        /\ \A j \in DOMAIN chain : j < 1 => ~Matches(chain[j], p)
    BY <1>4, <1>5
  <2>2. Verdict(chain, policy, p) = chain[1].verdict
    BY <1>4, <2>1, FirstHit
  <2> QED
    BY <1>2, <1>3, <1>4, <1>5, <2>2 DEF chain
<1>6. CASE ~Matches(rec, p)
  <2>1. Hits(chain, p) = {}
    BY <1>4, <1>6 DEF Hits
  <2>2. Verdict(chain, policy, p) = policy
    BY <2>1, NoHit
  <2> QED
    BY <1>2, <1>6, <2>2 DEF chain
<1> QED
    BY <1>5, <1>6

\* What an empty chain says.
LEMMA EmptyVerdict ==
    /\ <<>> \in Seq(RuleRecords)
    /\ \A policy, p : Verdict(<<>>, policy, p) = policy
<1>1. ASSUME NEW p PROVE Hits(<<>>, p) = {}
    BY DEF Hits
<1> QED
    BY <1>1, NoHit

\* The sets the rules of a ruleset name are sets of devices and places.
LEMMA Inside ==
    ASSUME NEW r \in Rulesets
    PROVE  /\ {AP} \subseteq Devices /\ {Out(r)} \subseteq Devices
           /\ {r.uplink} \subseteq Devices /\ Devices \subseteq Devices
           /\ Places \subseteq Places \cup Services /\ {Resolver} \subseteq Places
           /\ Places \subseteq Places
           /\ r.subnet # 0 => {r.subnet} \subseteq Places
           /\ r.shared \subseteq Places
           /\ IPv4 \subseteq Kinds /\ {"new4", "dot"} \subseteq Kinds
           /\ {"new6"} \subseteq Kinds /\ {"dot"} \subseteq Kinds
           /\ {"reply"} \subseteq Kinds /\ {"invalid"} \subseteq Kinds
           /\ Kinds \subseteq Kinds
    BY DEF Rulesets, Devices, Out, Places, Nets, IPv4, Kinds

\* What the forward chain says of a packet from a client.
LEMMA ForwardVerdict ==
    ASSUME NEW r \in Rulesets, NEW p \in FromClients
    PROVE  LET last == "drop"
               v6 == IF AllowIPv6
                     THEN IF p.oif = Out(r) THEN "accept" ELSE last
                     ELSE IF p.kind = "new6" THEN "reject" ELSE last
               ok == IF p.oif = Out(r) /\ p.kind \in {"new4", "dot"}
                     THEN "accept" ELSE v6
               sh == IF Cardinality(r.shared) > 1 /\ Home \in r.shared
                        /\ p.dst \in r.shared /\ p.kind \in IPv4
                     THEN "accept" ELSE ok
               iso == IF Isolate /\ r.subnet # 0 /\ p.dst = r.subnet /\ p.kind \in IPv4
                      THEN "drop" ELSE sh
           IN  Verdict(ForwardChain(r), "drop", p)
               = IF p.kind = "dot" \/ p.dst = Resolver THEN "reject" ELSE iso
<1> DEFINE A == Rule(Devices, Devices, Places, Places, {"reply"}, "accept")
           B == Rule(Devices, Devices, Places, Places, {"invalid"}, "drop")
           C1 == Rule({AP}, Devices, Places, Places, {"dot"}, "reject")
           C2 == Rule({AP}, Devices, Places, {Resolver}, Kinds, "reject")
           D == IsolationRules(r)
           E == SharedRules(r)
           F == Rule({AP}, {Out(r)}, Places, Places, {"new4", "dot"}, "accept")
           G == Ipv6Rule(r)
           H == Rule({AP}, {r.uplink}, Places, Places, Kinds, "drop")
           S == Seq(RuleRecords)
<1>0. /\ p.iif = AP /\ p.iif \in Devices /\ p.oif \in Devices /\ p.src \in Places
      /\ p.dst \in Places /\ p.kind \in {"new4", "new6", "dot"} /\ p.src = Home
    BY DEF FromClients, Devices, Places, Nets, Fresh
<1>1. A \in S /\ \A v : Verdict(A, v, p) = v
    BY <1>0, Inside, RuleVerdict, RuleInSeq
<1>2. B \in S /\ \A v : Verdict(B, v, p) = v
    BY <1>0, Inside, RuleVerdict, RuleInSeq
<1>3. C1 \in S /\ \A v : Verdict(C1, v, p) = IF p.kind = "dot" THEN "reject" ELSE v
    BY <1>0, Inside, RuleVerdict, RuleInSeq
<1>4. C2 \in S /\ \A v : Verdict(C2, v, p) = IF p.dst = Resolver THEN "reject" ELSE v
  <2>1. {Resolver} \subseteq Places \cup Services /\ p.kind \in Kinds
    BY <1>0 DEF Places, Kinds
  <2> QED
    BY <1>0, <2>1, Inside, RuleVerdict, RuleInSeq
<1>5. D \in S /\ \A v : Verdict(D, v, p) =
            IF Isolate /\ r.subnet # 0 /\ p.dst = r.subnet /\ p.kind \in IPv4
            THEN "drop" ELSE v
  <2>1. CASE Isolate /\ r.subnet # 0
    <3>1. D = Rule({AP}, Devices, Places, {r.subnet}, IPv4, "drop")
      BY <2>1 DEF IsolationRules, When
    <3>2. {r.subnet} \subseteq Places \cup Services
      BY <2>1, Inside
    <3> HIDE DEF D
    <3> QED
      BY <1>0, <2>1, <3>1, <3>2, Inside, RuleVerdict, RuleInSeq
  <2>2. CASE ~(Isolate /\ r.subnet # 0)
    <3>1. D = <<>>
      BY <2>2 DEF IsolationRules, When
    <3> HIDE DEF D
    <3> QED
      BY <2>2, <3>1, EmptyVerdict
  <2> QED
    BY <2>1, <2>2
<1>6. E \in S /\ \A v : Verdict(E, v, p) =
            IF Cardinality(r.shared) > 1 /\ Home \in r.shared
               /\ p.dst \in r.shared /\ p.kind \in IPv4
            THEN "accept" ELSE v
  <2>1. CASE Cardinality(r.shared) > 1
    <3>1. E = Rule(Devices, Devices, r.shared, r.shared, IPv4, "accept")
      BY <2>1 DEF SharedRules, When
    <3>2. r.shared \subseteq Places \cup Services
      BY Inside
    <3> HIDE DEF E
    <3> QED
      BY <1>0, <2>1, <3>1, <3>2, Inside, RuleVerdict, RuleInSeq
  <2>2. CASE ~(Cardinality(r.shared) > 1)
    <3>1. E = <<>>
      BY <2>2 DEF SharedRules, When
    <3> HIDE DEF E
    <3> QED
      BY <2>2, <3>1, EmptyVerdict
  <2> QED
    BY <2>1, <2>2
<1>7. F \in S /\ \A v : Verdict(F, v, p) =
            IF p.oif = Out(r) /\ p.kind \in {"new4", "dot"} THEN "accept" ELSE v
    BY <1>0, Inside, RuleVerdict, RuleInSeq
<1>8. G \in S /\ \A v : Verdict(G, v, p) =
            IF AllowIPv6 THEN IF p.oif = Out(r) THEN "accept" ELSE v
            ELSE IF p.kind = "new6" THEN "reject" ELSE v
  <2>0. p.kind \in Kinds
    BY <1>0 DEF Kinds
  <2>1. CASE AllowIPv6
    <3>1. G = Rule({AP}, {Out(r)}, Places, Places, Kinds, "accept")
      BY <2>1 DEF Ipv6Rule
    <3> HIDE DEF G
    <3> QED
      BY <1>0, <2>0, <2>1, <3>1, Inside, RuleVerdict, RuleInSeq
  <2>2. CASE ~AllowIPv6
    <3>1. G = Rule({AP}, Devices, Places, Places, {"new6"}, "reject")
      BY <2>2 DEF Ipv6Rule
    <3> HIDE DEF G
    <3> QED
      BY <1>0, <2>2, <3>1, Inside, RuleVerdict, RuleInSeq
  <2> QED
    BY <2>1, <2>2
<1>9. H \in S /\ Verdict(H, "drop", p) = "drop"
    BY <1>0, Inside, RuleVerdict, RuleInSeq
<1>10. ForwardChain(r) = A \o B \o (C1 \o C2) \o D \o E \o F \o G \o H
    BY DEF ForwardChain, BypassRules
<1> HIDE DEF A, B, C1, C2, D, E, F, G, H
<1>11. /\ A \o B \in S /\ C1 \o C2 \in S
       /\ A \o B \o (C1 \o C2) \in S
       /\ A \o B \o (C1 \o C2) \o D \in S
       /\ A \o B \o (C1 \o C2) \o D \o E \in S
       /\ A \o B \o (C1 \o C2) \o D \o E \o F \in S
       /\ A \o B \o (C1 \o C2) \o D \o E \o F \o G \in S
    BY <1>1, <1>2, <1>3, <1>4, <1>5, <1>6, <1>7, <1>8, ConcatProperties
<1>12. ASSUME NEW x \in S, NEW y \in S
       PROVE  \A v : Verdict(x \o y, v, p) = Verdict(x, Verdict(y, v, p), p)
    BY VerdictOfConcat
<1> HIDE DEF S
<1>13. Verdict(ForwardChain(r), "drop", p) =
         Verdict(A \o B \o (C1 \o C2), Verdict(D, Verdict(E, Verdict(F,
            Verdict(G, Verdict(H, "drop", p), p), p), p), p), p)
    BY <1>5, <1>6, <1>7, <1>8, <1>9, <1>10, <1>11, <1>12
<1>14. ASSUME NEW v
       PROVE  Verdict(A \o B \o (C1 \o C2), v, p)
              = Verdict(A, Verdict(B, Verdict(C1, Verdict(C2, v, p), p), p), p)
    BY <1>1, <1>2, <1>3, <1>4, <1>11, <1>12
<1> QED
    BY <1>1, <1>2, <1>3, <1>4, <1>5, <1>6, <1>7, <1>8, <1>9, <1>13, <1>14

\* What the input chain says of a packet from the uplink.
LEMMA InputVerdict ==
    ASSUME NEW r \in Rulesets, NEW p \in FromUplink(r)
    PROVE  Verdict(InputChain(r), "accept", p) = "drop"
<1> DEFINE A == Rule(Devices, {AP}, Places, Services, {"reply"}, "accept")
           B == Rule({AP}, {AP}, Places, {"dns", "dhcp", "dashboard"}, Kinds, "accept")
           C == Rule({r.uplink}, {AP}, Places, UplinkDrop, Kinds, "drop")
           S == Seq(RuleRecords)
<1>0. /\ p.iif = r.uplink /\ p.oif = AP /\ p.src \in Places /\ p.dst \in Services
      /\ p.kind \in {"new4", "new6", "dot"} /\ p.iif # AP
    BY DevicesAssumption DEF FromUplink, Fresh, Rulesets
<1>1. A \in S /\ \A v : Verdict(A, v, p) = v
  <2>1. Services \subseteq Places \cup Services
    OBVIOUS
  <2> QED
    BY <1>0, <2>1, Inside, RuleVerdict, RuleInSeq
<1>2. B \in S /\ \A v : Verdict(B, v, p) = v
  <2>1. {"dns", "dhcp", "dashboard"} \subseteq Places \cup Services
    BY DEF Services
  <2> QED
    BY <1>0, <2>1, Inside, RuleVerdict, RuleInSeq
<1>3. C \in S /\ \A v : Verdict(C, v, p) = "drop"
  <2>1. UplinkDrop \subseteq Places \cup Services /\ p.dst \in UplinkDrop
        /\ p.kind \in Kinds
    BY <1>0 DEF Services, UplinkDrop, Kinds
  <2> QED
    BY <1>0, <2>1, Inside, RuleVerdict, RuleInSeq
<1>4. InputChain(r) = A \o B \o C
    BY DEF InputChain
<1> HIDE DEF A, B, C
<1>5. A \o B \in S
    BY <1>1, <1>2, ConcatProperties
<1>7. ASSUME NEW x \in S, NEW y \in S
      PROVE  \A v : Verdict(x \o y, v, p) = Verdict(x, Verdict(y, v, p), p)
    BY VerdictOfConcat
<1> HIDE DEF S
<1>6. Verdict(InputChain(r), "accept", p) = Verdict(A, Verdict(B, Verdict(C, "accept", p), p), p)
    BY <1>1, <1>2, <1>3, <1>4, <1>5, <1>7
<1> QED
    BY <1>1, <1>2, <1>3, <1>6

\* Every ruleset build_ruleset() of gateway/firewall.py renders contains the clients,
\* for any devices and networks, with or without a VPN, isolation, IPv6 and shared
\* networks: what a client may send past the gateway leaves by the one way out or
\* for a network that shares discovery, and is no DNS to somebody else; and nothing
\* from the network the gateway joined reaches its services.
THEOREM EveryRulesetContains == Containing = Rulesets
<1>1. SUFFICES ASSUME NEW r \in Rulesets PROVE Contains(r)
    BY DEF Containing
<1>2. r # NoRules
    BY PlacesAssumption
<1>3. ASSUME NEW p \in FromClients, Forwarded(r, p)
      PROVE  /\ p.dst # Resolver /\ p.kind # "dot"
             /\ Isolate => p.dst # r.subnet
             /\ p.kind = "new6" => AllowIPv6
             /\ p.oif = Out(r) \/ p.dst \in r.shared
  <2>1. Verdict(ForwardChain(r), "drop", p) = "accept"
    BY <1>2, <1>3 DEF Forwarded
  <2>2. /\ p.kind \in {"new4", "new6", "dot"} /\ p.dst \in Places
        /\ p.kind = "new6" => p.dst \notin Nets
    BY DEF FromClients, Fresh
  <2>3. r.subnet \in 0..MaxNet /\ p.dst # 0
    BY <2>2, PlacesAssumption DEF Rulesets, Places, Nets
  <2>4. r.subnet # 0 => r.subnet \in Nets
    BY <2>3, PlacesAssumption DEF Nets
  <2>5. "new4" \in IPv4 /\ "new6" \notin IPv4
    BY DEF IPv4, Kinds
  <2> QED
    BY <2>1, <2>2, <2>3, <2>4, <2>5, ForwardVerdict
<1>4. ASSUME NEW p \in FromUplink(r) PROVE ~Reached(r, p)
    BY <1>2, InputVerdict DEF Reached
<1> QED
    BY <1>3, <1>4 DEF Contains
-------------------------------------------------------------------------------
\* Where a thread of the gateway can be; what it can have read.
Points == {"off", "radio", "dhcp", "apply", "nat", "filter", "load", "record",
           "ready", "up", "failed", "join", "down nat", "down filter",
           "stopped", "aborted", "sleep", "ended", "finger", "decide", "settle"}

Readings ==
    [uplink : Uplinks \cup {NoDevice},
     finger : (Uplinks \cup {NoDevice}) \X (0..MaxNet),
     rules : Rulesets \cup {NoRules}]

\* Where a thread goes on with an uplink it has found.
Applying == {"apply", "nat", "filter", "load", "record", "settle"}

\* What the kernel can hold.
KernelInv ==
    /\ route \in Uplinks \cup {NoDevice} /\ net \in [Uplinks -> 0..MaxNet]
    /\ nat \in Rulesets \cup {NoRules} /\ filter \in Rulesets \cup {NoRules}
    /\ pinned \in Uplinks \cup {NoDevice} /\ viaVpn \in BOOLEAN
    /\ moves \in 0..MaxMoves

\* What each thread can have read by where it is: an uplink from the moment it
\* decides on one, a ruleset from the moment it has computed one.
ThreadInv ==
    /\ pc \in [Threads -> Points]
    /\ saw \in [Threads -> Readings]
    /\ \A t \in Threads :
          /\ pc[t] \in Applying \cup {"radio", "dhcp"} => saw[t].uplink \in Uplinks
          /\ pc[t] \in Applying \ {"apply"} => saw[t].rules \in Rulesets

\* A thread reads the uplink.
LEMMA SeesUplink ==
    ASSUME ThreadInv, NEW t \in Threads, NEW u \in Uplinks \cup {NoDevice},
           Saw(t, "uplink", u)
    PROVE  /\ saw' \in [Threads -> Readings]
           /\ saw'[t].uplink = u /\ saw'[t].rules = saw[t].rules
           /\ \A x \in Threads \ {t} : saw'[x] = saw[x]
<1>1. [saw[t] EXCEPT !["uplink"] = u] \in Readings
    BY DEF ThreadInv, Readings
<1> QED
    BY <1>1 DEF Saw, ThreadInv, Readings

\* A thread reads the fingerprint.
LEMMA SeesFinger ==
    ASSUME ThreadInv, NEW t \in Threads,
           NEW f \in (Uplinks \cup {NoDevice}) \X (0..MaxNet), Saw(t, "finger", f)
    PROVE  /\ saw' \in [Threads -> Readings]
           /\ saw'[t].uplink = saw[t].uplink /\ saw'[t].rules = saw[t].rules
           /\ \A x \in Threads \ {t} : saw'[x] = saw[x]
<1>1. [saw[t] EXCEPT !["finger"] = f] \in Readings
    BY DEF ThreadInv, Readings
<1> QED
    BY <1>1 DEF Saw, ThreadInv, Readings

\* A thread computes the rules.
LEMMA SeesRules ==
    ASSUME ThreadInv, NEW t \in Threads, NEW r \in Rulesets, Saw(t, "rules", r)
    PROVE  /\ saw' \in [Threads -> Readings]
           /\ saw'[t].uplink = saw[t].uplink /\ saw'[t].rules = r
           /\ \A x \in Threads \ {t} : saw'[x] = saw[x]
<1>1. [saw[t] EXCEPT !["rules"] = r] \in Readings
    BY DEF ThreadInv, Readings
<1> QED
    BY <1>1 DEF Saw, ThreadInv, Readings

\* A thread starts over.
LEMMA Forgets ==
    ASSUME ThreadInv, NEW t \in Threads, Forget(t)
    PROVE  /\ saw' \in [Threads -> Readings]
           /\ \A x \in Threads \ {t} : saw'[x] = saw[x]
<1>1. Blank \in Readings
    BY PlacesAssumption DEF Blank, Readings
<1> QED
    BY <1>1 DEF Forget, ThreadInv

\* A thread that goes somewhere, with what it has read.
LEMMA Goes ==
    ASSUME ThreadInv, NEW t \in Threads, NEW to \in Points,
           pc' = [pc EXCEPT ![t] = to],
           saw' \in [Threads -> Readings],
           \A x \in Threads \ {t} : saw'[x] = saw[x],
           to \in Applying \cup {"radio", "dhcp"} => saw'[t].uplink \in Uplinks,
           to \in Applying \ {"apply"} => saw'[t].rules \in Rulesets
    PROVE  ThreadInv'
<1>1. /\ pc' \in [Threads -> Points] /\ pc'[t] = to
      /\ \A x \in Threads \ {t} : pc'[x] = pc[x]
    BY DEF ThreadInv
<1> QED
    BY <1>1 DEF ThreadInv

\* The rules and the fingerprint computed from what is there.
LEMMA TopologyTyped ==
    ASSUME KernelInv, NEW u \in Uplinks
    PROVE  /\ [uplink |-> u, vpn |-> viaVpn, subnet |-> net[u],
               shared |-> SharedNetworks(u)] \in Rulesets
           /\ Fingerprint \in (Uplinks \cup {NoDevice}) \X (0..MaxNet)
<1>1. SharedNetworks(u) \in SUBSET Nets
    BY PlacesAssumption DEF SharedNetworks, Nets, KernelInv
<1>2. net[u] \in 0..MaxNet /\ viaVpn \in BOOLEAN
    BY DEF KernelInv
<1>3. Fingerprint \in (Uplinks \cup {NoDevice}) \X (0..MaxNet)
    BY PlacesAssumption DEF Fingerprint, KernelInv
<1> QED
    BY <1>1, <1>2, <1>3 DEF Rulesets

\* apply() of firewall.py, by either thread.
LEMMA ApplyStep ==
    ASSUME KernelInv, ThreadInv, NEW t \in Threads, ApplyRules(t)
    PROVE  KernelInv' /\ ThreadInv'
<1>1. CASE ComputeRules(t)
  <2>1. KernelInv'
    BY <1>1 DEF ComputeRules, KernelInv, kernel, settings, bounds
  <2> DEFINE r == [uplink |-> saw[t].uplink, vpn |-> viaVpn,
                   subnet |-> net[saw[t].uplink],
                   shared |-> SharedNetworks(saw[t].uplink)]
  <2>2. pc[t] = "apply" /\ pc' = [pc EXCEPT ![t] = "nat"] /\ Saw(t, "rules", r)
    BY <1>1 DEF ComputeRules, Goto
  <2>3. saw[t].uplink \in Uplinks
    BY <2>2 DEF ThreadInv, Applying
  <2>4. r \in Rulesets
    BY <2>3, TopologyTyped
  <2> HIDE DEF r
  <2>5. /\ saw' \in [Threads -> Readings]
        /\ saw'[t].uplink = saw[t].uplink /\ saw'[t].rules = r
        /\ \A x \in Threads \ {t} : saw'[x] = saw[x]
    BY <2>2, <2>4, SeesRules
  <2>6. ThreadInv'
    BY <2>2, <2>3, <2>4, <2>5, Goes DEF Points
  <2> QED
    BY <2>1, <2>6
<1>2. CASE RunCommand(t)
  <2>1. PICK to \in {"filter", "load", "record"} :
           /\ pc[t] \in {"nat", "filter", "load"}
           /\ pc' = [pc EXCEPT ![t] = to]
    BY <1>2 DEF RunCommand, Command, Goto
  <2>2. saw[t].uplink \in Uplinks /\ saw[t].rules \in Rulesets /\ saw' = saw
    BY <1>2, <2>1 DEF ThreadInv, Applying, RunCommand
  <2>3. /\ nat' \in Rulesets \cup {NoRules} /\ filter' \in Rulesets \cup {NoRules}
    BY <1>2, <2>2 DEF RunCommand, Command, KernelInv
  <2>4. KernelInv'
    BY <1>2, <2>3 DEF RunCommand, KernelInv, settings, bounds
  <2>5. saw' \in [Threads -> Readings]
    BY <2>2 DEF ThreadInv
  <2>6. ThreadInv'
    BY <2>1, <2>2, <2>5, Goes DEF Points
  <2> QED
    BY <2>4, <2>6
<1>3. CASE CommandFails(t)
  <2>1. KernelInv'
    BY <1>3 DEF CommandFails, KernelInv, kernel, settings
  <2>2. PICK to \in {"failed", "sleep"} : pc' = [pc EXCEPT ![t] = to]
    BY <1>3 DEF CommandFails
  <2>3. /\ saw' \in [Threads -> Readings]
        /\ \A x \in Threads \ {t} : saw'[x] = saw[x]
    BY <1>3, Forgets DEF CommandFails
  <2>4. ThreadInv'
    BY <2>2, <2>3, Goes DEF Points, Applying
  <2> QED
    BY <2>1, <2>4
<1>4. CASE RecordRules(t)
  <2>1. KernelInv'
    BY <1>4 DEF RecordRules, KernelInv, kernel, settings, bounds
  <2>2. pc[t] = "record"
    BY <1>4 DEF RecordRules, Goto
  <2>3. saw[t].uplink \in Uplinks /\ saw[t].rules \in Rulesets
    BY <2>2 DEF ThreadInv, Applying
  <2>4. CASE t = "main"
    <3>1. pc' = [pc EXCEPT ![t] = "ready"] /\ Forget(t)
      BY <1>4, <2>4 DEF RecordRules, Goto
    <3>2. /\ saw' \in [Threads -> Readings]
          /\ \A x \in Threads \ {t} : saw'[x] = saw[x]
      BY <3>1, Forgets
    <3> QED
      BY <2>1, <3>1, <3>2, Goes DEF Points, Applying
  <2>5. CASE t # "main"
    <3>1. pc' = [pc EXCEPT ![t] = "settle"] /\ saw' = saw
      BY <1>4, <2>5 DEF RecordRules, Goto
    <3>2. saw' \in [Threads -> Readings]
      BY <3>1 DEF ThreadInv
    <3> QED
      BY <2>1, <2>3, <3>1, <3>2, Goes DEF Points, Applying
  <2> QED
    BY <2>4, <2>5
<1> QED
    BY <1>1, <1>2, <1>3, <1>4 DEF ApplyRules

\* The uplinks that can be picked.
LEMMA CandidatesTyped ==
    ASSUME KernelInv
    PROVE  Candidates \subseteq Uplinks \cup {NoDevice}
    BY DEF KernelInv, Candidates, Picks

\* The watch thread.
LEMMA WatchStep ==
    ASSUME KernelInv, ThreadInv, Watch
    PROVE  KernelInv' /\ ThreadInv'
<1>0. "watch" \in Threads
    BY DEF Threads
<1>1. CASE WatchWakes
  <2>1. KernelInv'
    BY <1>1 DEF WatchWakes, KernelInv, kernel, settings, bounds
  <2>2. CASE Goto("watch", "sleep", "ended") /\ UNCHANGED saw
    <3>1. saw' \in [Threads -> Readings] /\ pc' = [pc EXCEPT !["watch"] = "ended"]
      BY <2>2 DEF ThreadInv, Goto
    <3> QED
      BY <1>0, <2>1, <2>2, <3>1, Goes DEF Points, Applying
  <2>3. CASE Goto("watch", "sleep", "finger") /\ \E u \in Candidates : Saw("watch", "uplink", u)
    <3>1. PICK u \in Uplinks \cup {NoDevice} : Saw("watch", "uplink", u)
      BY <2>3, CandidatesTyped
    <3>2. /\ saw' \in [Threads -> Readings]
          /\ \A x \in Threads \ {"watch"} : saw'[x] = saw[x]
      BY <1>0, <3>1, SeesUplink
    <3>3. pc' = [pc EXCEPT !["watch"] = "finger"]
      BY <2>3 DEF Goto
    <3> QED
      BY <1>0, <2>1, <3>2, <3>3, Goes DEF Points, Applying
  <2> QED
    BY <1>1, <2>2, <2>3 DEF WatchWakes
<1>2. CASE WatchReads
  <2>1. KernelInv'
    BY <1>2 DEF WatchReads, KernelInv, kernel, settings, bounds
  <2>2. Fingerprint \in (Uplinks \cup {NoDevice}) \X (0..MaxNet)
    BY DevicesAssumption, TopologyTyped
  <2>3. /\ saw' \in [Threads -> Readings]
        /\ \A x \in Threads \ {"watch"} : saw'[x] = saw[x]
    BY <1>0, <1>2, <2>2, SeesFinger DEF WatchReads
  <2>4. pc' = [pc EXCEPT !["watch"] = "decide"]
    BY <1>2 DEF WatchReads, Goto
  <2> QED
    BY <1>0, <2>1, <2>3, <2>4, Goes DEF Points, Applying
<1>3. CASE WatchDecides
  <2>1. KernelInv'
    BY <1>3 DEF WatchDecides, KernelInv, kernel, settings, bounds
  <2>2. CASE pc' = [pc EXCEPT !["watch"] = "sleep"] /\ Forget("watch")
    <3>1. /\ saw' \in [Threads -> Readings]
          /\ \A x \in Threads \ {"watch"} : saw'[x] = saw[x]
      BY <1>0, <2>2, Forgets
    <3> QED
      BY <1>0, <2>1, <2>2, <3>1, Goes DEF Points, Applying
  <2>3. CASE /\ pc' = [pc EXCEPT !["watch"] = "apply"] /\ UNCHANGED saw
             /\ saw["watch"].uplink # NoDevice
    <3>1. saw' \in [Threads -> Readings] /\ saw'["watch"].uplink \in Uplinks
      BY <1>0, <2>3 DEF ThreadInv, Readings
    <3> QED
      BY <1>0, <2>1, <2>3, <3>1, Goes DEF Points, Applying
  <2> QED
    BY <1>3, <2>2, <2>3 DEF WatchDecides, Goto
<1>4. CASE WatchSettles
  <2>1. KernelInv'
    BY <1>4 DEF WatchSettles, KernelInv, kernel, settings, bounds
  <2>2. /\ saw' \in [Threads -> Readings]
        /\ \A x \in Threads \ {"watch"} : saw'[x] = saw[x]
    BY <1>0, <1>4, Forgets DEF WatchSettles
  <2>3. pc' = [pc EXCEPT !["watch"] = "sleep"]
    BY <1>4 DEF WatchSettles, Goto
  <2> QED
    BY <1>0, <2>1, <2>2, <2>3, Goes DEF Points, Applying
<1> QED
    BY <1>0, <1>1, <1>2, <1>3, <1>4, ApplyStep DEF Watch

\* start() of the gateway.
LEMMA StartStep ==
    ASSUME KernelInv, ThreadInv, Start
    PROVE  KernelInv' /\ ThreadInv'
<1>0. "main" \in Threads /\ "watch" \in Threads
    BY DEF Threads
<1>1. CASE StartPick
  <2>1. KernelInv'
    BY <1>1 DEF StartPick, KernelInv, kernel, settings, bounds
  <2>2. CASE Goto("main", "off", "failed") /\ UNCHANGED saw
    <3>1. saw' \in [Threads -> Readings] /\ pc' = [pc EXCEPT !["main"] = "failed"]
      BY <2>2 DEF ThreadInv, Goto
    <3> QED
      BY <1>0, <2>1, <2>2, <3>1, Goes DEF Points, Applying
  <2>3. ASSUME NEW u \in Candidates \ {NoDevice},
               Goto("main", "off", "radio"), Saw("main", "uplink", u)
        PROVE  ThreadInv'
    <3>1. u \in Uplinks
      BY CandidatesTyped
    <3>2. /\ saw' \in [Threads -> Readings] /\ saw'["main"].uplink = u
          /\ \A x \in Threads \ {"main"} : saw'[x] = saw[x]
      BY <1>0, <2>3, <3>1, SeesUplink
    <3>3. pc' = [pc EXCEPT !["main"] = "radio"]
      BY <2>3 DEF Goto
    <3> QED
      BY <1>0, <3>1, <3>2, <3>3, Goes DEF Points, Applying
  <2> QED
    BY <1>1, <2>1, <2>2, <2>3 DEF StartPick
<1>2. CASE StartRadio \/ StartServices
  <2>1. KernelInv'
    BY <1>2 DEF StartRadio, StartServices, KernelInv, kernel, settings, bounds
  <2>2. PICK to \in {"dhcp", "apply", "failed"} :
           pc[ "main"] \in {"radio", "dhcp"} /\ pc' = [pc EXCEPT !["main"] = to]
    BY <1>2 DEF StartRadio, StartServices, Goto
  <2>3. saw' = saw /\ saw' \in [Threads -> Readings] /\ saw'["main"].uplink \in Uplinks
    BY <1>0, <1>2, <2>2 DEF StartRadio, StartServices, ThreadInv
  <2> QED
    BY <1>0, <2>1, <2>2, <2>3, Goes DEF Points, Applying
<1>3. CASE StartWatch
  <2>1. KernelInv' /\ saw' = saw
    BY <1>3 DEF StartWatch, KernelInv, kernel, settings, bounds
  <2>2. CASE pc' = [pc EXCEPT !["main"] = "up", !["watch"] = "sleep"]
    BY <2>1, <2>2 DEF ThreadInv, Points, Applying, Threads
  <2>3. CASE Goto("main", "ready", "failed")
    <3>1. saw' \in [Threads -> Readings] /\ pc' = [pc EXCEPT !["main"] = "failed"]
      BY <2>1, <2>3 DEF ThreadInv, Goto
    <3> QED
      BY <1>0, <2>1, <2>3, <3>1, Goes DEF Points, Applying
  <2> QED
    BY <1>3, <2>2, <2>3 DEF StartWatch
<1> QED
    BY <1>0, <1>1, <1>2, <1>3, ApplyStep DEF Start

\* stop() of the gateway.
LEMMA StopStep ==
    ASSUME KernelInv, ThreadInv, Stop
    PROVE  KernelInv' /\ ThreadInv'
<1>0. "main" \in Threads
    BY DEF Threads
<1>1. KernelInv'
    BY DEF Stop, Shutdown, StopServices, StopTables, KernelInv, kernel, settings,
        bounds, tables
<1>2. PICK to \in {"join", "down nat", "down filter", "stopped", "aborted"} :
           pc' = [pc EXCEPT !["main"] = to]
    BY DEF Stop, Shutdown, StopServices, StopTables, Goto
<1>3. saw' = saw /\ saw' \in [Threads -> Readings]
    BY DEF Stop, Shutdown, StopServices, StopTables, ThreadInv
<1> QED
    BY <1>0, <1>1, <1>2, <1>3, Goes DEF Points, Applying

\* The uplink moves.
LEMMA MoveStep ==
    ASSUME KernelInv, ThreadInv, Move
    PROVE  KernelInv' /\ ThreadInv'
<1>1. ThreadInv'
    BY DEF Move, ThreadInv
<1>2. PICK u \in Uplinks, n \in {0, moves + 2} : net' = [net EXCEPT ![u] = n]
    BY DEF Move
<1>3. n \in 0..MaxNet /\ moves' \in 0..MaxMoves
    BY DevicesAssumption, PlacesAssumption DEF Move, KernelInv
<1>4. net' \in [Uplinks -> 0..MaxNet]
    BY <1>2, <1>3 DEF KernelInv
<1> QED
    BY <1>1, <1>3, <1>4 DEF Move, KernelInv, tables, settings

\* What the kernel holds and what the threads have read is so in every state.
LEMMA ThreadsTyped == Spec => [](KernelInv /\ ThreadInv)
<1> DEFINE IInv == KernelInv /\ ThreadInv
<1>1. Init => IInv
  <2>1. SUFFICES ASSUME Init PROVE IInv
    OBVIOUS
  <2>2. route \in Uplinks
    BY <2>1, DevicesAssumption DEF Init
  <2>3. KernelInv
    BY <2>1, <2>2, DevicesAssumption, PlacesAssumption DEF Init, KernelInv
  <2>4. Blank \in Readings
    BY PlacesAssumption DEF Blank, Readings
  <2>5. ThreadInv
    BY <2>1, <2>4 DEF Init, ThreadInv, Points, Applying, Threads
  <2> QED
    BY <2>3, <2>5
<1>2. IInv /\ [Next]_vars => IInv'
  <2>1. IInv /\ Next => IInv'
    BY MoveStep, StartStep, WatchStep, StopStep DEF Next
  <2>2. IInv /\ UNCHANGED vars => IInv'
    BY DEF vars, kernel, settings, bounds, KernelInv, ThreadInv
  <2> QED
    BY <2>1, <2>2
<1> QED
    BY <1>1, <1>2, PTL DEF Spec

\* While clients are forwarded the filter in the kernel contains them, however the
\* start, the stop, the watch thread and the uplink's moves interleave: start(),
\* stop() and _watch() of gateway/manager.py.
THEOREM ClientsAlwaysContained == Spec => []ClientsContained
<1>1. KernelInv => ClientsContained
    BY EveryRulesetContains DEF KernelInv, ClientsContained
<1> QED
    BY <1>1, ThreadsTyped, PTL
-------------------------------------------------------------------------------
\* Rules computed under a fingerprint isolate the network it tells of, as long
\* as the interface is on that network.
Fits(finger, rules) ==
    \A u \in Uplinks : finger = <<u, net[u]>> /\ net[u] # 0 /\ rules.uplink = u
                          => rules.subnet = net[u]

\* What the manager keeps in self.state.
States ==
    [uplink : Uplinks \cup {NoDevice},
     finger : (Uplinks \cup {NoDevice}) \X (0..MaxNet),
     applied : BOOLEAN]

\* A network that an interface joins is one nobody can have seen before.
FreshInv ==
    /\ \A u \in Uplinks : net[u] <= moves + 1
    /\ route # NoDevice => net[route] # 0
    /\ state \in States /\ state.finger[2] <= moves + 1
    /\ saw["watch"].finger[2] <= moves + 1

\* The rules a thread has computed are for its uplink, and both tables hold them.
Computed(t) == saw[t].rules.uplink = saw[t].uplink /\ saw[t].rules.vpn = viaVpn
Loaded(t) == nat = saw[t].rules /\ filter = saw[t].rules

\* What the state says when nobody is at work on the rules.
Recorded ==
    state.applied =>
        /\ filter \in Rulesets /\ nat = filter /\ filter.vpn = viaVpn
        /\ state.uplink \in {filter.uplink, NoDevice}
        /\ raced \/ state.uplink = NoDevice \/ Fits(state.finger, filter)

\* How far the main thread has come with the first rules.
FirstRules ==
    /\ pc["main"] \in {"nat", "filter", "load", "record"} =>
          Computed("main") /\ (raced \/ saw["main"].rules.subnet = net[saw["main"].uplink])
    /\ pc["main"] = "record" => Loaded("main")
    /\ pc["main"] = "ready" => Recorded

\* How far the watcher has come with the next ones.
NextRules ==
    pc["main"] = "up" =>
        /\ pc["watch"] \in {"sleep", "finger", "decide"} => Recorded
        /\ pc["watch"] \in {"nat", "filter", "load", "record", "settle"} =>
              Computed("watch") /\ Fits(saw["watch"].finger, saw["watch"].rules)
        /\ pc["watch"] \in {"record", "settle"} => Loaded("watch")
        /\ pc["watch"] = "settle" => state.uplink = saw["watch"].uplink

Starting == {"off", "radio", "dhcp", "apply", "nat", "filter", "load", "record", "ready"}

RecordInv ==
    /\ FreshInv /\ FirstRules /\ NextRules
    /\ pc["main"] \in Starting => pc["watch"] = "off"

\* The laptop moves: the interface is on a network that no fingerprint tells of.
LEMMA RecordMove ==
    ASSUME KernelInv, ThreadInv, RecordInv, Move
    PROVE  RecordInv'
<1>0. /\ moves \in Nat /\ moves' = moves + 1 /\ net \in [Uplinks -> 0..MaxNet]
      /\ "watch" \in Threads /\ saw["watch"].finger \in (Uplinks \cup {NoDevice}) \X (0..MaxNet)
      /\ state.finger \in (Uplinks \cup {NoDevice}) \X (0..MaxNet)
    BY DEF KernelInv, ThreadInv, Threads, Readings, Move, RecordInv, FreshInv, States
<1>1. PICK v \in Uplinks, n \in {0, moves + 2} : net' = [net EXCEPT ![v] = n]
    BY DEF Move
<1>2. UNCHANGED <<nat, filter, state, pc, saw, viaVpn>>
    BY DEF Move, tables, settings
<1>3. /\ pc["main"] \in {"nat", "filter", "load", "record"} => raced'
      /\ raced => raced'
    BY DEF Move
<1>4. ASSUME NEW f \in (Uplinks \cup {NoDevice}) \X (0..MaxNet), NEW r, f[2] <= moves + 1, Fits(f, r),
             NEW u \in Uplinks, f = <<u, net'[u]>>, net'[u] # 0, r.uplink = u
      PROVE  r.subnet = net'[u]
  <2>1. f[2] = net'[u] /\ f[2] \in Nat
    BY <1>4, PlacesAssumption
  <2>2. u # v
    BY <1>0, <1>1, <1>4, <2>1
  <2>3. net'[u] = net[u]
    BY <1>0, <1>1, <2>2
  <2> QED
    BY <1>4, <2>3 DEF Fits
<1>5. FreshInv'
  <2>1. \A u \in Uplinks : net'[u] <= moves' + 1
    BY <1>0, <1>1, PlacesAssumption DEF RecordInv, FreshInv
  <2>2. route' # NoDevice => net'[route'] # 0
    BY DEF Move
  <2>3. state.finger[2] <= moves' + 1 /\ saw["watch"].finger[2] <= moves' + 1
    BY <1>0, PlacesAssumption DEF RecordInv, FreshInv
  <2> QED
    BY <1>2, <2>1, <2>2, <2>3 DEF RecordInv, FreshInv
<1>6. Recorded => Recorded'
  <2>1. Fits(state.finger, filter) => Fits(state.finger, filter)'
    BY <1>0, <1>2, <1>4 DEF Fits, RecordInv, FreshInv
  <2> QED
    BY <1>2, <1>3, <2>1 DEF Recorded
<1>7. Fits(saw["watch"].finger, saw["watch"].rules) => Fits(saw["watch"].finger, saw["watch"].rules)'
    BY <1>0, <1>2, <1>4 DEF Fits, RecordInv, FreshInv
<1> QED
    BY <1>2, <1>3, <1>5, <1>6, <1>7 DEF RecordInv, FirstRules, NextRules, Computed, Loaded

\* A fingerprint tells of a network the laptop has been on.
LEMMA FingerprintFresh ==
    ASSUME KernelInv, FreshInv
    PROVE  /\ Fingerprint \in (Uplinks \cup {NoDevice}) \X (0..MaxNet)
           /\ Fingerprint[2] <= moves + 1
<1>1. moves \in Nat /\ net \in [Uplinks -> 0..MaxNet] /\ route \in Uplinks \cup {NoDevice}
    BY DEF KernelInv
<1>2. (IF route = NoDevice THEN 0 ELSE net[route]) \in 0..MaxNet
    BY <1>1, PlacesAssumption
<1>3. (IF route = NoDevice THEN 0 ELSE net[route]) <= moves + 1
    BY <1>1 DEF FreshInv
<1> QED
    BY <1>1, <1>2, <1>3 DEF Fingerprint

\* Nothing but moves changes what the fingerprints and networks are compared by.
Still == UNCHANGED <<route, net, moves, viaVpn>>

\* The main thread applies the first rules.
LEMMA RecordFirst ==
    ASSUME KernelInv, ThreadInv, RecordInv, ApplyRules("main")
    PROVE  RecordInv'
<1>0. /\ "main" \in Threads /\ "watch" \in Threads /\ pc \in [Threads -> Points]
      /\ saw \in [Threads -> Readings] /\ saw["main"] \in Readings
    BY DEF ThreadInv, Threads
<1>1. Still /\ raced' = raced
    BY DEF Still, ApplyRules, ComputeRules, RunCommand, CommandFails, RecordRules, kernel, settings, bounds
<1>2. PICK to \in {"nat", "filter", "load", "record", "failed", "ready"} :
         pc["main"] \in {"apply", "nat", "filter", "load", "record"}
            /\ pc' = [pc EXCEPT !["main"] = to]
    BY DEF ApplyRules, ComputeRules, RunCommand, Command, CommandFails, RecordRules, Goto
<1>3. pc'["main"] = to /\ pc'["watch"] = pc["watch"] /\ pc["watch"] = "off"
    BY <1>0, <1>2 DEF RecordInv, Starting
<1>4. saw'["watch"] = saw["watch"]
    BY <1>0 DEF ApplyRules, ComputeRules, RunCommand, CommandFails, RecordRules, Saw, Forget
<1>5. FreshInv'
  <2>1. \/ state' = state
        \/ state' = [uplink |-> saw["main"].uplink, finger |-> Fingerprint, applied |-> TRUE]
    BY DEF ApplyRules, ComputeRules, RunCommand, CommandFails, RecordRules
  <2>2. /\ Fingerprint \in (Uplinks \cup {NoDevice}) \X (0..MaxNet)
        /\ Fingerprint[2] <= moves + 1
    BY FingerprintFresh DEF RecordInv
  <2>3. state' \in States /\ state'.finger[2] <= moves + 1
    <3>1. state \in States /\ state.finger[2] <= moves + 1 /\ saw["main"].uplink \in Uplinks \cup {NoDevice}
      BY <1>0 DEF Readings, RecordInv, FreshInv
    <3>2. CASE state' = state
      BY <3>1, <3>2
    <3>3. CASE state' = [uplink |-> saw["main"].uplink, finger |-> Fingerprint, applied |-> TRUE]
      <4>1. state'.finger = Fingerprint
        BY <3>3
      <4>2. state' \in States
        BY <2>2, <3>1, <3>3 DEF States
      <4> QED
        BY <2>2, <4>1, <4>2
    <3> QED
      BY <2>1, <3>2, <3>3
  <2> QED
    BY <1>1, <1>4, <2>3 DEF FreshInv, RecordInv, Still
<1>6. NextRules' /\ (pc["main"] \in Starting => pc["watch"] = "off")'
    BY <1>2, <1>3 DEF NextRules, Starting
<1>7. FirstRules'
  <2>1. CASE ComputeRules("main")
    <3>1. /\ pc'["main"] = "nat"
          /\ saw'["main"].uplink = saw["main"].uplink
          /\ saw'["main"].rules = [uplink |-> saw["main"].uplink, vpn |-> viaVpn,
                                   subnet |-> net[saw["main"].uplink],
                                   shared |-> SharedNetworks(saw["main"].uplink)]
      BY <1>0, <2>1 DEF ComputeRules, Goto, Saw, Readings
    <3> QED
      BY <1>1, <3>1 DEF FirstRules, Computed, Still
  <2>2. CASE RunCommand("main")
    <3>1. /\ saw' = saw /\ pc["main"] \in {"nat", "filter", "load"}
          /\ pc'["main"] \in {"filter", "load", "record"}
          /\ pc'["main"] = "record" => nat' = saw["main"].rules /\ filter' = saw["main"].rules
      BY <1>0, <2>2 DEF RunCommand, Command, Goto
    <3> QED
      BY <1>1, <3>1 DEF RecordInv, FirstRules, Computed, Loaded, Still
  <2>3. CASE CommandFails("main")
    <3>1. pc'["main"] = "failed"
      BY <1>0, <2>3 DEF CommandFails
    <3> QED
      BY <3>1 DEF FirstRules
  <2>4. CASE RecordRules("main")
    <3>1. /\ pc["main"] = "record" /\ pc'["main"] = "ready" /\ nat' = nat /\ filter' = filter
          /\ state' = [uplink |-> saw["main"].uplink, finger |-> Fingerprint, applied |-> TRUE]
      BY <1>0, <2>4 DEF RecordRules, Goto, kernel
    <3>2. /\ Loaded("main") /\ Computed("main") /\ saw["main"].rules \in Rulesets
          /\ raced \/ saw["main"].rules.subnet = net[saw["main"].uplink]
      BY <1>0, <3>1 DEF RecordInv, FirstRules, ThreadInv, Applying
    <3>3. raced \/ Fits(state.finger, filter)'
      BY <1>1, <3>1, <3>2 DEF Fits, Loaded, Computed, Still
    <3>4. Recorded'
      BY <1>1, <3>1, <3>2, <3>3 DEF Recorded, Loaded, Computed, Still
    <3> QED
      BY <3>1, <3>4 DEF FirstRules
  <2> QED
    BY <2>1, <2>2, <2>3, <2>4 DEF ApplyRules
<1> QED
    BY <1>5, <1>6, <1>7 DEF RecordInv

\* The rest of start(), and stop().
LEMMA RecordMain ==
    ASSUME KernelInv, ThreadInv, RecordInv,
           StartPick \/ StartRadio \/ StartServices \/ StartWatch \/ Stop
    PROVE  RecordInv'
<1>0. "main" \in Threads /\ "watch" \in Threads /\ pc \in [Threads -> Points] /\ saw \in [Threads -> Readings]
    BY DEF ThreadInv, Threads
<1>1. Still /\ raced' = raced /\ state' \in States /\ state'.finger = state.finger
  <2>0. state \in States
    BY DEF RecordInv, FreshInv
  <2>1. CASE StartPick \/ StartRadio \/ StartServices \/ StartWatch
    BY <2>0, <2>1 DEF Still, StartPick, StartRadio, StartServices, StartWatch, kernel, settings, bounds
  <2>2. CASE Shutdown \/ StopServices
    BY <2>0, <2>2 DEF Still, Shutdown, StopServices, kernel, settings, bounds
  <2>3. CASE StopTables
    <3>1. state' = state \/ state' = [state EXCEPT !.applied = FALSE]
      BY <2>3 DEF StopTables
    <3>2. state' \in States /\ state'.finger = state.finger
      BY <2>0, <3>1 DEF States
    <3> QED
      BY <2>3, <3>2 DEF Still, StopTables, settings, bounds
  <2> QED
    BY <2>1, <2>2, <2>3 DEF Stop
<1>2. saw'["watch"] = saw["watch"]
  <2>1. CASE StartPick
    BY <1>0, <2>1 DEF StartPick, Saw
  <2>2. CASE ~StartPick
    BY <2>2 DEF StartRadio, StartServices, StartWatch, Stop, Shutdown, StopServices, StopTables
  <2> QED
    BY <2>1, <2>2
<1>3. FreshInv'
    BY <1>1, <1>2 DEF RecordInv, FreshInv, Still
<1>4. CASE StartPick \/ StartRadio \/ StartServices
  <2>1. PICK to \in {"radio", "dhcp", "apply", "failed"} :
           pc["main"] \in {"off", "radio", "dhcp"} /\ pc' = [pc EXCEPT !["main"] = to]
    BY <1>4 DEF StartPick, StartRadio, StartServices, Goto
  <2>2. pc'["main"] = to /\ pc'["watch"] = "off"
    BY <1>0, <2>1 DEF RecordInv, Starting
  <2> QED
    BY <1>3, <2>2 DEF RecordInv, FirstRules, NextRules
<1>5. CASE StartWatch
  <2>1. pc["main"] = "ready" /\ UNCHANGED <<nat, filter, state, saw>>
    BY <1>5 DEF StartWatch, Goto, kernel
  <2>2. \/ pc'["main"] = "up" /\ pc'["watch"] = "sleep"
        \/ pc'["main"] = "failed"
    BY <1>0, <1>5 DEF StartWatch, Goto
  <2>3. Recorded'
    BY <1>1, <2>1 DEF RecordInv, FirstRules, Recorded, Fits, Still
  <2> QED
    BY <1>3, <2>2, <2>3 DEF RecordInv, FirstRules, NextRules, Starting
<1>6. CASE Stop
  <2>1. pc'["main"] \in {"join", "down nat", "down filter", "stopped", "aborted"}
    BY <1>0, <1>6 DEF Stop, Shutdown, StopServices, StopTables, Goto
  <2> QED
    BY <1>3, <2>1 DEF RecordInv, FirstRules, NextRules, Starting
<1> QED
    BY <1>4, <1>5, <1>6

\* The watcher, outside _apply_rules().
LEMMA RecordWatcher ==
    ASSUME KernelInv, ThreadInv, RecordInv, WatchWakes \/ WatchReads \/ WatchDecides \/ WatchSettles
    PROVE  FreshInv' /\ NextRules'
<1>0. /\ "watch" \in Threads /\ "main" \in Threads
      /\ pc \in [Threads -> Points] /\ saw \in [Threads -> Readings]
      /\ saw["watch"] \in Readings /\ state \in States /\ moves \in Nat
    BY DEF ThreadInv, Threads, RecordInv, FreshInv, KernelInv
<1>1. Still /\ UNCHANGED <<nat, filter>>
    BY DEF Still, WatchWakes, WatchReads, WatchDecides, WatchSettles, kernel, settings, bounds
<1>2. ASSUME state' \in States, state'.finger[2] <= moves + 1, saw'["watch"].finger[2] <= moves + 1
      PROVE  FreshInv'
    BY <1>1, <1>2 DEF FreshInv, RecordInv, Still
<1>3. ASSUME Recorded, state' = state, raced => raced'
      PROVE  Recorded'
    BY <1>1, <1>3 DEF Recorded, Fits, Still
<1>4. ASSUME pc'["main"] = pc["main"], pc'["watch"] \in {"sleep", "finger", "decide"},
             pc["main"] = "up" => Recorded'
      PROVE  NextRules'
    BY <1>4 DEF NextRules
<1>5. state.finger[2] <= moves + 1 /\ saw["watch"].finger[2] <= moves + 1
    BY DEF RecordInv, FreshInv
<1>6. ASSUME Forget("watch")
      PROVE  saw'["watch"].finger[2] <= moves + 1
    BY <1>0, <1>6 DEF Forget, Blank
<1>7. CASE WatchWakes
  <2>1. /\ pc["watch"] = "sleep" /\ pc'["main"] = pc["main"] /\ pc'["watch"] \in {"ended", "finger"}
        /\ state' = state /\ raced' = raced
        /\ saw'["watch"].finger = saw["watch"].finger
    BY <1>0, <1>7 DEF WatchWakes, Goto, Saw, Readings
  <2>2. pc["main"] = "up" => Recorded'
    BY <1>3, <2>1 DEF RecordInv, NextRules
  <2>3. NextRules'
    BY <2>1, <2>2 DEF NextRules
  <2> QED
    BY <1>0, <1>2, <1>5, <2>1, <2>3
<1>8. CASE WatchReads
  <2>1. /\ pc["watch"] = "finger" /\ pc'["main"] = pc["main"] /\ pc'["watch"] = "decide"
        /\ state' = state /\ raced' = raced
        /\ saw'["watch"].finger = Fingerprint
    BY <1>0, <1>8 DEF WatchReads, Goto, Saw, Readings
  <2>2. pc["main"] = "up" => Recorded'
    BY <1>3, <2>1 DEF RecordInv, NextRules
  <2>3. Fingerprint[2] <= moves + 1
    BY FingerprintFresh DEF RecordInv
  <2> QED
    BY <1>0, <1>2, <1>4, <1>5, <2>1, <2>2, <2>3
<1>9. CASE WatchDecides
  <2>1. /\ pc["watch"] = "decide" /\ pc'["main"] = pc["main"]
        /\ pc["main"] = "up" => Recorded
    BY <1>0, <1>9 DEF WatchDecides, Goto, RecordInv, NextRules
  <2>2. CASE /\ Goto("watch", "decide", "sleep")
             /\ state' = IF state.uplink = NoDevice THEN state
                         ELSE [state EXCEPT !.uplink = NoDevice, !.finger = saw["watch"].finger]
             /\ Forget("watch") /\ UNCHANGED raced
    <3>1. pc'["watch"] = "sleep"
      BY <1>0, <2>2 DEF Goto
    <3>2. /\ state' \in States /\ state'.applied = state.applied /\ state'.uplink = NoDevice
          /\ state'.finger \in {state.finger, saw["watch"].finger}
      BY <1>0, <2>2 DEF States, Readings
    <3>3. pc["main"] = "up" => Recorded'
      BY <1>1, <2>1, <2>2, <3>2 DEF Recorded, Still
    <3> QED
      BY <1>2, <1>4, <1>5, <1>6, <2>1, <2>2, <3>1, <3>2, <3>3
  <2>3. CASE /\ Goto("watch", "decide", "sleep")
             /\ raced' = (raced \/ ~state.applied)
             /\ Forget("watch") /\ UNCHANGED state
    <3>1. pc'["watch"] = "sleep"
      BY <1>0, <2>3 DEF Goto
    <3> QED
      BY <1>0, <1>2, <1>3, <1>4, <1>5, <1>6, <2>1, <2>3, <3>1
  <2>4. CASE Goto("watch", "decide", "apply") /\ UNCHANGED <<state, saw, raced>>
    <3>1. pc'["watch"] = "apply"
      BY <1>0, <2>4 DEF Goto
    <3>2. NextRules'
      BY <3>1 DEF NextRules
    <3> QED
      BY <1>0, <1>2, <1>5, <2>4, <3>2
  <2> QED
    BY <1>9, <2>2, <2>3, <2>4 DEF WatchDecides
<1>10. CASE WatchSettles
  <2>1. /\ pc["watch"] = "settle" /\ pc'["main"] = pc["main"] /\ pc'["watch"] = "sleep"
        /\ raced' = raced /\ Forget("watch")
    BY <1>0, <1>10 DEF WatchSettles, Goto
  <2>2. /\ state' \in States /\ state'.applied = state.applied /\ state'.uplink = state.uplink
        /\ state'.finger = saw["watch"].finger
    BY <1>0, <1>10 DEF WatchSettles, States, Readings
  <2>3. pc["main"] = "up" => Recorded'
    <3>1. SUFFICES ASSUME pc["main"] = "up" PROVE Recorded'
      OBVIOUS
    <3>2. /\ saw["watch"].rules \in Rulesets /\ Loaded("watch") /\ Computed("watch")
          /\ Fits(saw["watch"].finger, saw["watch"].rules) /\ state.uplink = saw["watch"].uplink
      BY <1>0, <2>1, <3>1 DEF ThreadInv, Applying, RecordInv, NextRules
    <3>3. Fits(state.finger, filter)'
      BY <1>1, <2>2, <3>2 DEF Fits, Loaded, Still
    <3> QED
      BY <1>1, <2>2, <3>2, <3>3 DEF Recorded, Loaded, Computed, Still
  <2> QED
    BY <1>2, <1>4, <1>5, <1>6, <2>1, <2>2, <2>3
<1> QED
    BY <1>7, <1>8, <1>9, <1>10

\* The watcher applies the next rules.
LEMMA RecordNext ==
    ASSUME KernelInv, ThreadInv, RecordInv, ApplyRules("watch")
    PROVE  FreshInv' /\ NextRules'
<1>0. /\ "watch" \in Threads /\ "main" \in Threads
      /\ pc \in [Threads -> Points] /\ saw \in [Threads -> Readings]
      /\ saw["watch"] \in Readings /\ state \in States /\ moves \in Nat
    BY DEF ThreadInv, Threads, RecordInv, FreshInv, KernelInv
<1>1. Still
    BY DEF Still, ApplyRules, ComputeRules, RunCommand, CommandFails, RecordRules, kernel, settings, bounds
<1>2. ASSUME state' \in States, state'.finger[2] <= moves + 1, saw'["watch"].finger[2] <= moves + 1
      PROVE  FreshInv'
    BY <1>1, <1>2 DEF FreshInv, RecordInv, Still
<1>3. state.finger[2] <= moves + 1 /\ saw["watch"].finger[2] <= moves + 1
    BY DEF RecordInv, FreshInv
<1>4. CASE ComputeRules("watch")
  <2>1. /\ pc'["watch"] = "nat" /\ state' = state
        /\ saw'["watch"].uplink = saw["watch"].uplink
        /\ saw'["watch"].finger = saw["watch"].finger
        /\ saw'["watch"].rules = [uplink |-> saw["watch"].uplink, vpn |-> viaVpn,
                                  subnet |-> net[saw["watch"].uplink],
                                  shared |-> SharedNetworks(saw["watch"].uplink)]
    BY <1>0, <1>4 DEF ComputeRules, Goto, Saw, Readings
  <2>2. Computed("watch")'
    BY <1>1, <2>1 DEF Computed, Still
  <2>3. Fits(saw["watch"].finger, saw["watch"].rules)'
    BY <1>1, <2>1 DEF Fits, Still
  <2>4. NextRules'
    BY <2>1, <2>2, <2>3 DEF NextRules
  <2> QED
    BY <1>0, <1>2, <1>3, <2>1, <2>4
<1>5. CASE RunCommand("watch")
  <2>1. /\ pc["watch"] \in {"nat", "filter", "load"} /\ pc'["main"] = pc["main"]
        /\ pc'["watch"] \in {"filter", "load", "record"}
        /\ pc'["watch"] = "record" => nat' = saw["watch"].rules /\ filter' = saw["watch"].rules
        /\ saw' = saw /\ state' = state
    BY <1>0, <1>5 DEF RunCommand, Command, Goto
  <2>2. NextRules'
    BY <1>1, <2>1 DEF RecordInv, NextRules, Computed, Loaded, Fits, Still
  <2> QED
    BY <1>0, <1>2, <1>3, <2>1, <2>2
<1>6. CASE CommandFails("watch")
  <2>1. /\ pc'["watch"] = "sleep" /\ state' = [state EXCEPT !.applied = FALSE] /\ Forget("watch")
    BY <1>0, <1>6 DEF CommandFails
  <2>2. state' \in States /\ ~state'.applied /\ state'.finger = state.finger
    BY <1>0, <2>1 DEF States
  <2>3. saw'["watch"].finger[2] <= moves + 1
    BY <1>0, <2>1 DEF Forget, Blank
  <2>4. NextRules'
    BY <2>1, <2>2 DEF NextRules, Recorded
  <2> QED
    BY <1>2, <1>3, <2>2, <2>3, <2>4
<1>7. CASE RecordRules("watch")
  <2>1. /\ pc["watch"] = "record" /\ pc'["main"] = pc["main"] /\ pc'["watch"] = "settle"
        /\ UNCHANGED <<saw, nat, filter>>
        /\ state' = [uplink |-> saw["watch"].uplink, finger |-> Fingerprint, applied |-> TRUE]
    BY <1>0, <1>7 DEF RecordRules, Goto, kernel
  <2>2. /\ Fingerprint \in (Uplinks \cup {NoDevice}) \X (0..MaxNet)
        /\ Fingerprint[2] <= moves + 1
    BY FingerprintFresh DEF RecordInv
  <2>3. saw["watch"].uplink \in Uplinks \cup {NoDevice}
    BY <1>0 DEF Readings
  <2>4. state' \in States
    BY <2>1, <2>2, <2>3 DEF States
  <2>5. state'.finger = Fingerprint /\ state'.uplink = saw["watch"].uplink
    BY <2>1
  <2>6. NextRules'
    BY <1>1, <2>1, <2>5 DEF RecordInv, NextRules, Computed, Loaded, Fits, Still
  <2> QED
    BY <1>2, <1>3, <2>1, <2>2, <2>4, <2>5, <2>6
<1> QED
    BY <1>4, <1>5, <1>6, <1>7 DEF ApplyRules

\* Whatever the watcher does, the first rules are behind it.
LEMMA RecordWatch ==
    ASSUME KernelInv, ThreadInv, RecordInv, Watch
    PROVE  RecordInv'
<1>0. "watch" \in Threads /\ "main" \in Threads /\ pc \in [Threads -> Points]
    BY DEF ThreadInv, Threads
<1>1. pc["watch"] # "off" /\ pc'["main"] = pc["main"]
    BY <1>0 DEF Watch, WatchWakes, WatchReads, WatchDecides, WatchSettles, ApplyRules,
        ComputeRules, RunCommand, Command, CommandFails, RecordRules, Goto
<1>2. pc'["main"] \notin Starting
    BY <1>1 DEF RecordInv
<1>3. FirstRules' /\ (pc["main"] \in Starting => pc["watch"] = "off")'
    BY <1>2 DEF FirstRules, Starting
<1>4. FreshInv' /\ NextRules'
    BY RecordWatcher, RecordNext DEF Watch
<1> QED
    BY <1>3, <1>4 DEF RecordInv

\* What the manager's state says of the rules is true whenever neither thread is
\* at work on them, though the laptop moved while they were computed and nft
\* failed: _apply_rules(), _check_uplink() and _on_uplink_change() of
\* gateway/manager.py.
THEOREM RulesAlwaysAsRecorded == Spec => []RulesAsRecorded
<1> DEFINE Typed == KernelInv /\ ThreadInv
<1>1. Init => RecordInv
  <2>1. SUFFICES ASSUME Init PROVE RecordInv
    OBVIOUS
  <2>2. /\ \A u \in Uplinks : net[u] \in {0, 1}
        /\ moves = 0 /\ net[route] = 1 /\ ~state.applied
        /\ pc["main"] = "off" /\ pc["watch"] = "off"
    BY <2>1 DEF Init, Threads
  <2>3. saw["watch"].finger[2] = 0 /\ state.finger[2] = 0
    BY <2>1 DEF Init, Threads, Blank
  <2>4. state \in States
    BY <2>1, PlacesAssumption DEF Init, States
  <2>5. FreshInv
    BY <2>2, <2>3, <2>4 DEF FreshInv
  <2> QED
    BY <2>2, <2>5 DEF RecordInv, FirstRules, NextRules
<1>2. Typed /\ RecordInv /\ [Next]_vars => RecordInv'
  <2>1. SUFFICES ASSUME KernelInv, ThreadInv, RecordInv, [Next]_vars PROVE RecordInv'
    BY DEF Typed
  <2>2. CASE Start
    BY <2>1, <2>2, RecordFirst, RecordMain DEF Start
  <2>3. CASE Move \/ Watch \/ Stop
    BY <2>1, <2>3, RecordMove, RecordWatch, RecordMain
  <2>4. CASE UNCHANGED vars
    BY <2>1, <2>4 DEF vars, kernel, settings, bounds, RecordInv, FreshInv, FirstRules, NextRules,
        Recorded, Computed, Loaded, Fits
  <2> QED
    BY <2>1, <2>2, <2>3, <2>4 DEF Next
<1>3. Typed /\ RecordInv => RulesAsRecorded
  <2>1. SUFFICES ASSUME KernelInv, RecordInv, Settled, state.applied
                 PROVE  /\ filter # NoRules /\ nat = filter /\ filter.vpn = viaVpn
                        /\ state.uplink \in {filter.uplink, NoDevice}
                        /\ ~raced /\ route # NoDevice /\ state.finger = Fingerprint
                              /\ state.uplink = route => filter.subnet = net[route]
    BY DEF Typed, RulesAsRecorded
  <2>2. Recorded
    BY <2>1 DEF Settled, RecordInv, NextRules
  <2>3. filter # NoRules
    BY <2>1, <2>2, PlacesAssumption DEF Recorded
  <2>4. ASSUME ~raced, route # NoDevice, state.finger = Fingerprint, state.uplink = route
        PROVE  filter.subnet = net[route]
    <3>1. route \in Uplinks /\ net[route] # 0 /\ state.finger = <<route, net[route]>>
      BY <2>1, <2>4 DEF KernelInv, RecordInv, FreshInv, Fingerprint
    <3>2. filter.uplink = route /\ Fits(state.finger, filter)
      BY <2>1, <2>2, <2>4 DEF Recorded
    <3> QED
      BY <3>1, <3>2 DEF Fits
  <2> QED
    BY <2>1, <2>2, <2>3, <2>4 DEF Recorded
<1> HIDE DEF Typed
<1>4. Spec => []Typed
    BY ThreadsTyped, PTL DEF Typed
<1> QED
    BY <1>1, <1>2, <1>3, <1>4, PTL DEF Spec
-------------------------------------------------------------------------------
\* Where main is when the rules are removed.
Downing == {"down nat", "down filter", "stopped"}

\* Which of the two threads can still be at work: the watch thread only after it
\* was started and, past the join, only if it outlived it.
StopInv ==
    /\ pc \in [Threads -> Points]
    /\ pc["main"] \in {"off", "radio", "dhcp", "apply", "nat", "filter", "load",
                       "record", "ready", "failed"} => pc["watch"] = "off"
    /\ outlived \in BOOLEAN
    /\ ~outlived /\ pc["main"] \in Downing =>
          /\ pc["watch"] = "ended" /\ radio = "off" /\ services = {}
          /\ pc["main"] \in {"down filter", "stopped"} => nat = NoRules
          /\ pc["main"] = "stopped" => filter = NoRules

\* Every step keeps it.
LEMMA StopInvStep ==
    ASSUME StopInv, Next
    PROVE  StopInv'
<1>0. "main" \in Threads /\ "watch" \in Threads
    BY DEF Threads
<1>1. CASE Move
    BY <1>1 DEF Move, StopInv, tables, ap, rest
\* The watcher works while it is neither off nor ended.
<1>2. ASSUME pc["watch"] \notin {"off", "ended"}, UNCHANGED <<radio, services, outlived>>,
             NEW to \in Points, pc' = [pc EXCEPT !["watch"] = to]
      PROVE  StopInv'
  <2>1. pc'["main"] = pc["main"] /\ pc' \in [Threads -> Points]
    BY <1>0, <1>2 DEF StopInv
  <2> QED
    BY <1>2, <2>1 DEF StopInv
<1>3. CASE Watch
  <2>1. pc["watch"] \notin {"off", "ended"} /\ UNCHANGED <<radio, services, outlived>>
    BY <1>3 DEF Watch, WatchWakes, WatchReads, WatchDecides, WatchSettles, ApplyRules,
        ComputeRules, RunCommand, Command, CommandFails, RecordRules, Goto, ap, rest
  <2>2. \E to \in Points : pc' = [pc EXCEPT !["watch"] = to]
    BY <1>3 DEF Watch, WatchWakes, WatchReads, WatchDecides, WatchSettles, ApplyRules,
        ComputeRules, RunCommand, Command, CommandFails, RecordRules, Goto, Points
  <2> QED
    BY <1>2, <2>1, <2>2
\* The main thread before the gateway is up.
<1>4. ASSUME pc["main"] \in {"off", "radio", "dhcp", "apply", "nat", "filter", "load",
                             "record", "ready"}, UNCHANGED outlived,
             NEW to \in Points \ (Downing \cup {"join"}), pc' = [pc EXCEPT !["main"] = to]
      PROVE  StopInv'
  <2>1. /\ pc'["main"] = to /\ pc'["watch"] = pc["watch"] /\ pc["watch"] = "off"
        /\ pc' \in [Threads -> Points]
    BY <1>0, <1>4 DEF StopInv
  <2> QED
    BY <1>4, <2>1 DEF StopInv, Downing
<1>5. CASE Start
  <2>1. CASE StartPick \/ StartRadio \/ StartServices
    <3>1. /\ pc["main"] \in {"off", "radio", "dhcp"} /\ UNCHANGED outlived
      BY <2>1 DEF StartPick, StartRadio, StartServices, Goto, rest
    <3>2. \E to \in Points \ (Downing \cup {"join"}) : pc' = [pc EXCEPT !["main"] = to]
      BY <2>1 DEF StartPick, StartRadio, StartServices, Goto, Points, Downing
    <3> QED
      BY <1>4, <3>1, <3>2
  <2>2. CASE ApplyRules("main")
    <3>1. pc["main"] \in {"apply", "nat", "filter", "load", "record"} /\ UNCHANGED outlived
      BY <2>2 DEF ApplyRules, ComputeRules, RunCommand, Command, CommandFails, RecordRules,
        Goto, rest
    <3>2. \E to \in Points \ (Downing \cup {"join"}) : pc' = [pc EXCEPT !["main"] = to]
      BY <2>2 DEF ApplyRules, ComputeRules, RunCommand, Command, CommandFails, RecordRules,
        Goto, Points, Downing
    <3> QED
      BY <1>4, <3>1, <3>2
  <2>3. CASE StartWatch
    <3>1. CASE pc["main"] = "ready" /\ pc' = [pc EXCEPT !["main"] = "up", !["watch"] = "sleep"]
      <4>1. pc' \in [Threads -> Points] /\ pc'["main"] = "up"
        BY <1>0, <3>1 DEF StopInv, Points
      <4> QED
        BY <2>3, <4>1 DEF StartWatch, StopInv, Downing, rest
    <3>2. CASE Goto("main", "ready", "failed")
      <4>1. "failed" \in Points \ (Downing \cup {"join"})
        BY DEF Points, Downing
      <4> QED
        BY <1>4, <2>3, <3>2, <4>1 DEF StartWatch, Goto, rest
    <3> QED
      BY <2>3, <3>1, <3>2 DEF StartWatch
  <2> QED
    BY <1>5, <2>1, <2>2, <2>3 DEF Start
<1>6. CASE Stop
  <2>1. CASE Shutdown
    <3>1. pc' \in [Threads -> Points] /\ pc'["main"] = "join" /\ pc'["watch"] = pc["watch"]
      BY <1>0, <2>1 DEF Shutdown, Goto, StopInv, Points
    <3> QED
      BY <2>1, <3>1 DEF Shutdown, StopInv, Downing
  <2>2. CASE StopServices
    <3>1. pc' \in [Threads -> Points] /\ pc'["main"] = "down nat" /\ pc'["watch"] = pc["watch"]
      BY <1>0, <2>2 DEF StopServices, Goto, StopInv, Points
    <3> QED
      BY <2>2, <3>1 DEF StopServices, StopInv, Downing
  <2>3. CASE StopTables
    <3>1. CASE /\ Goto("main", "down nat", "down filter")
               /\ nat' = NoRules /\ UNCHANGED <<filter, state>>
      <4>1. /\ pc' \in [Threads -> Points] /\ pc'["main"] = "down filter"
            /\ pc'["watch"] = pc["watch"] /\ pc["main"] = "down nat"
        BY <1>0, <3>1 DEF Goto, StopInv, Points
      <4> QED
        BY <2>3, <3>1, <4>1 DEF StopTables, StopInv, Downing, ap, rest
    <3>2. CASE /\ Goto("main", "down filter", "stopped")
               /\ filter' = NoRules /\ UNCHANGED nat
      <4>1. /\ pc' \in [Threads -> Points] /\ pc'["main"] = "stopped"
            /\ pc'["watch"] = pc["watch"] /\ pc["main"] = "down filter"
        BY <1>0, <3>2 DEF Goto, StopInv, Points
      <4> QED
        BY <2>3, <3>2, <4>1 DEF StopTables, StopInv, Downing, ap, rest
    <3>3. CASE /\ pc["main"] \in {"down nat", "down filter"}
               /\ pc' = [pc EXCEPT !["main"] = "aborted"]
      <4>1. /\ pc' \in [Threads -> Points] /\ pc'["main"] = "aborted"
        BY <1>0, <3>3 DEF StopInv, Points
      <4> QED
        BY <2>3, <4>1 DEF StopTables, StopInv, Downing, rest
    <3> QED
      BY <2>3, <3>1, <3>2, <3>3 DEF StopTables
  <2> QED
    BY <1>6, <2>1, <2>2, <2>3 DEF Stop
<1> QED
    BY <1>1, <1>3, <1>5, <1>6 DEF Next

\* A gateway that has stopped leaves no rule, no NAT, no radio and no service
\* behind, unless the watch thread outlived the join with its timeout: stop() of gateway/manager.py.
THEOREM AlwaysStopsClean == Spec => []StopsClean
<1>1. Init => StopInv
    BY DEF Init, StopInv, Points, Threads, Downing
<1>2. StopInv /\ [Next]_vars => StopInv'
  <2>1. StopInv /\ UNCHANGED vars => StopInv'
    <3>1. SUFFICES ASSUME StopInv, UNCHANGED vars PROVE StopInv'
      OBVIOUS
    <3>2. UNCHANGED <<pc, outlived, radio, services, nat, filter>>
      BY <3>1 DEF vars, kernel, ap, rest
    <3> QED
      BY <3>1, <3>2 DEF StopInv
  <2> QED
    BY <2>1, StopInvStep
<1>3. StopInv => StopsClean
    BY DEF StopInv, StopsClean, Downing
<1> QED
    BY <1>1, <1>2, <1>3, PTL DEF Spec

-------------------------------------------------------------------------------
(* The DHCP server, for any devices, pool, lease and hold times. *)


Lease0 == Lease \cup {NoLease}

\* _reserve() gives the key an entry with the address, and touches no other.
LEMMA ReserveType ==
    ASSUME NEW table \in [Keys -> Lease0], NEW k \in Keys, NEW mac \in Macs,
           NEW ip \in Subnet, now \in Nat
    PROVE  /\ Reserve(table, k, mac, ip) \in [Keys -> Lease0]
           /\ Reserve(table, k, mac, ip)[k] \in Lease
           /\ Reserve(table, k, mac, ip)[k].ip = ip
           /\ \A j \in Keys : j # k => Reserve(table, k, mac, ip)[j] = table[j]
  BY TimesAssumption DEF Reserve, Lease, Lease0

\* _allocate() keeps the entry of a known client, takes nothing but expired entries
\* from others, and gives a new client a free address while there is one.
LEMMA AllocationKeeps ==
    ASSUME DhcpTypeOK, NEW k \in Keys, NEW mac \in Macs, NEW requested \in Asked,
           NEW table \in Allocations(k, mac, requested)
    PROVE  /\ table \in [Keys -> Lease0]
           /\ table[k] \in Lease
           /\ leases[k] # NoLease => table = leases
           /\ \A j \in Keys : j # k /\ table[j] # leases[j] => j \in Expired
           /\ leases[k] = NoLease /\ Free # {} => table[k].ip \notin Taken
<1>. USE DEF DhcpTypeOK, Lease0
<1>1. CASE leases[k] # NoLease
  <2>1. table = leases
    BY <1>1 DEF Allocations
  <2>. QED
    BY <1>1, <2>1
<1>2. CASE leases[k] = NoLease /\ \E ip \in Subnet \ Taken : table = Reserve(leases, k, mac, ip)
  <2>1. PICK ip \in Subnet \ Taken : table = Reserve(leases, k, mac, ip)
    BY <1>2
  <2>. QED
    BY <1>2, <2>1, ReserveType
<1>3. CASE /\ leases[k] = NoLease /\ Free = {}
           /\ \E j \in LongestExpired :
                table = Reserve([leases EXCEPT ![j] = NoLease], k, mac, leases[j].ip)
  <2>1. PICK j \in LongestExpired :
                table = Reserve([leases EXCEPT ![j] = NoLease], k, mac, leases[j].ip)
    BY <1>3
  <2>2. j \in Keys /\ j \in Expired /\ leases[j] \in Lease /\ leases[j].ip \in Subnet
    BY <2>1 DEF LongestExpired, Expired, Lease
  <2>3. [leases EXCEPT ![j] = NoLease] \in [Keys -> Lease0]
    OBVIOUS
  <2>4. \A i \in Keys : i # j => [leases EXCEPT ![j] = NoLease][i] = leases[i]
    OBVIOUS
  <2>. DEFINE base == [leases EXCEPT ![j] = NoLease]
              ip == leases[j].ip
  <2>. HIDE DEF base, ip
  <2>5. /\ table \in [Keys -> Lease0] /\ table[k] \in Lease
        /\ \A i \in Keys : i # k => table[i] = base[i]
    <3>1. base \in [Keys -> Lease0] /\ ip \in Subnet /\ table = Reserve(base, k, mac, ip)
      BY <2>1, <2>2, <2>3 DEF base, ip
    <3>. QED
      BY <3>1, ReserveType
  <2>6. \A i \in Keys : i # k /\ table[i] # leases[i] => i = j
    BY <2>4, <2>5 DEF base
  <2>. QED
    BY <1>3, <2>2, <2>5, <2>6
<1>4. CASE leases[k] = NoLease
  <2>1. CASE requested # NoIP /\ requested \notin Taken /\ InPool(requested)
    BY <1>2, <1>4, <2>1 DEF Allocations, InPool
  <2>2. CASE ~(requested # NoIP /\ requested \notin Taken /\ InPool(requested)) /\ Free # {}
    BY <1>2, <1>4, <2>2, AddressAssumption DEF Allocations, Free, LowestFree
  <2>3. CASE ~(requested # NoIP /\ requested \notin Taken /\ InPool(requested)) /\ Free = {}
    BY <1>3, <1>4, <2>3 DEF Allocations
  <2>. QED
    BY <2>1, <2>2, <2>3
<1>. QED
  BY <1>1, <1>4

\* Changing only the date of an entry.
LEMMA Redated ==
    ASSUME NEW table \in [Keys -> Lease0], NEW k \in Keys, table[k] \in Lease, NEW e \in Nat,
           NEW r, r = [table EXCEPT ![k].expires = e]
    PROVE  /\ r \in [Keys -> Lease0] /\ r[k] \in Lease
           /\ r[k].ip = table[k].ip /\ r[k].expires = e
           /\ \A j \in Keys : j # k => r[j] = table[j]
<1>1. [table[k] EXCEPT !.expires = e] \in Lease
  BY DEF Lease
<1>2. r = [table EXCEPT ![k] = [table[k] EXCEPT !.expires = e]]
  OBVIOUS
<1>3. r[k] = [table[k] EXCEPT !.expires = e]
  BY <1>2
<1>4. \A j \in Keys : j # k => r[j] = table[j]
  BY <1>2
<1>5. r \in [Keys -> Lease0]
  BY <1>1, <1>2 DEF Lease0
<1>. QED
  BY <1>1, <1>3, <1>4, <1>5 DEF Lease

\* What acknowledging a request does to the table and to what devices hold.
LEMMA AckStep ==
    ASSUME DhcpTypeOK, NEW s \in Senders, NEW requested \in Asked, NEW delivered \in BOOLEAN,
           RequestAck(s, requested, delivered)
    PROVE  \E table \in Allocations(s[1], s[2], requested) :
              /\ leases' \in [Keys -> Lease0] /\ leases'[s[1]] \in Lease
              /\ leases'[s[1]].ip = table[s[1]].ip
              /\ leases'[s[1]].expires = now + LeaseTime
              /\ \A j \in Keys : j # s[1] => leases'[j] = table[j]
              /\ held' \in [Senders -> Belief \cup {NoLease}]
              /\ \A t \in Senders : t # s => held'[t] = held[t]
              /\ held'[s] = held[s] \/ held'[s] = [ip |-> table[s[1]].ip, until |-> now + LeaseTime]
<1>1. PICK table \in Allocations(s[1], s[2], requested) :
        /\ leases' = Confirmed(table, s[1])
        /\ held' = IF delivered
                   THEN [held EXCEPT ![s] = [ip |-> table[s[1]].ip, until |-> now + LeaseTime]]
                   ELSE held
  BY DEF RequestAck
<1>2. s[1] \in Keys /\ s[2] \in Macs
  BY SendersAssumption
<1>3. table \in [Keys -> Lease0] /\ table[s[1]] \in Lease
  BY <1>2, AllocationKeeps
<1>4. now + LeaseTime \in Nat
  BY TimesAssumption DEF DhcpTypeOK
<1>5. /\ leases' \in [Keys -> Lease0] /\ leases'[s[1]] \in Lease
      /\ leases'[s[1]].ip = table[s[1]].ip
      /\ leases'[s[1]].expires = now + LeaseTime
      /\ \A j \in Keys : j # s[1] => leases'[j] = table[j]
  <2>. DEFINE e == now + LeaseTime
              k == s[1]
  <2>. HIDE DEF e, k
  <2>1. leases' = [table EXCEPT ![k].expires = e]
    BY <1>1 DEF Confirmed, e, k
  <2>2. k \in Keys /\ table[k] \in Lease /\ e \in Nat
    BY <1>2, <1>3, <1>4 DEF e, k
  <2>3. /\ leases' \in [Keys -> Lease0] /\ leases'[k] \in Lease
        /\ leases'[k].ip = table[k].ip /\ leases'[k].expires = e
        /\ \A j \in Keys : j # k => leases'[j] = table[j]
    BY <1>3, <2>1, <2>2, Redated
  <2>. QED
    BY <2>3 DEF e, k
<1>6. [ip |-> table[s[1]].ip, until |-> now + LeaseTime] \in Belief
  BY <1>3, <1>4 DEF Belief, Lease
<1>7. /\ held' \in [Senders -> Belief \cup {NoLease}]
      /\ \A t \in Senders : t # s => held'[t] = held[t]
      /\ held'[s] = held[s] \/ held'[s] = [ip |-> table[s[1]].ip, until |-> now + LeaseTime]
  BY <1>1, <1>6 DEF DhcpTypeOK
<1>. QED
  BY <1>1, <1>5, <1>7

\* A refused REQUEST changes the table at most by an allocation and no belief but to none.
LEMMA NakStep ==
    ASSUME DhcpTypeOK, NEW s \in Senders, NEW requested \in Asked, NEW delivered \in BOOLEAN,
           RequestNak(s, requested, delivered)
    PROVE  /\ leases' \in Allocations(s[1], s[2], requested) \/ leases' = leases
           /\ held' \in [Senders -> Belief \cup {NoLease}]
           /\ \A t \in Senders : held'[t] = held[t] \/ held'[t] = NoLease
           /\ UNCHANGED <<file, failed, now>>
  BY DEF RequestNak, DhcpTypeOK

\* A RELEASE ends the entry of its sender and keeps the address in it.
LEMMA ReleaseStep ==
    ASSUME DhcpTypeOK, NEW s \in Senders, Release(s)
    PROVE  /\ leases' \in [Keys -> Lease0]
           /\ leases[s[1]] # NoLease => leases'[s[1]] \in Lease /\ leases'[s[1]].ip = leases[s[1]].ip
           /\ leases[s[1]] = NoLease => leases' = leases
           /\ \A j \in Keys : j # s[1] => leases'[j] = leases[j]
<1>1. s[1] \in Keys /\ leases \in [Keys -> Lease0]
  BY SendersAssumption DEF DhcpTypeOK, Lease0
<1>2. CASE leases[s[1]] # NoLease
  <2>1. leases[s[1]] \in Lease
    BY <1>1, <1>2 DEF Lease0
  <2>2. leases' = [leases EXCEPT ![s[1]].expires = 0]
    BY <1>2 DEF Release
  <2>. QED
    BY <1>1, <1>2, <2>1, <2>2, Redated
<1>3. CASE leases[s[1]] = NoLease
  BY <1>1, <1>3 DEF Release
<1>. QED
  BY <1>2, <1>3

\* Every step keeps the type.
LEMMA LeaseTypeStep == DhcpTypeOK /\ [DhcpNext]_dhcpVars => DhcpTypeOK'
<1>. SUFFICES ASSUME DhcpTypeOK, [DhcpNext]_dhcpVars PROVE DhcpTypeOK'
  OBVIOUS
<1>0. ASSUME NEW table \in [Keys -> Lease0], Save(table)
      PROVE  file' \in [Keys -> Lease0] /\ failed' \in BOOLEAN
  BY <1>0 DEF Save, DhcpTypeOK, Lease0
<1>1. ASSUME NEW s \in Senders, NEW requested \in Asked, Discover(s, requested) PROVE DhcpTypeOK'
  BY <1>1, AllocationKeeps, SendersAssumption DEF Discover, DhcpTypeOK, Lease0
<1>2. ASSUME NEW s \in Senders, NEW requested \in Asked, NEW delivered \in BOOLEAN,
             RequestAck(s, requested, delivered)
      PROVE  DhcpTypeOK'
  <2>1. leases' \in [Keys -> Lease0] /\ held' \in [Senders -> Belief \cup {NoLease}]
    BY <1>2, AckStep
  <2>2. Save(leases') /\ now' = now
    BY <1>2 DEF RequestAck
  <2>. QED
    BY <1>0, <2>1, <2>2 DEF DhcpTypeOK, Lease0
<1>3. ASSUME NEW s \in Senders, NEW requested \in Asked, NEW delivered \in BOOLEAN,
             RequestNak(s, requested, delivered)
      PROVE  DhcpTypeOK'
  <2>1. leases' \in [Keys -> Lease0]
    BY <1>3, NakStep, AllocationKeeps, SendersAssumption DEF DhcpTypeOK, Lease0
  <2>. QED
    BY <1>3, <2>1, NakStep DEF DhcpTypeOK, Lease0
<1>4. ASSUME NEW s \in Senders, RequestElsewhere(s) PROVE DhcpTypeOK'
  BY <1>4, SendersAssumption DEF RequestElsewhere, DhcpTypeOK
<1>5. ASSUME NEW s \in Senders, Release(s) PROVE DhcpTypeOK'
  <2>1. leases' \in [Keys -> Lease0]
    BY <1>5, ReleaseStep
  <2>2. Save(leases') /\ now' = now /\ held' \in [Senders -> Belief \cup {NoLease}]
    BY <1>5 DEF Release, DhcpTypeOK
  <2>. QED
    BY <1>0, <2>1, <2>2 DEF DhcpTypeOK, Lease0
<1>6. CASE DhcpStop
  <2>1. file' \in [Keys -> Lease0] /\ failed' \in BOOLEAN
    BY <1>0, <1>6 DEF DhcpStop, DhcpTypeOK, Lease0
  <2>. QED
    BY <1>6, <2>1 DEF DhcpStop, DhcpTypeOK, Lease0
<1>7. CASE Crash
  BY <1>7 DEF Crash, DhcpTypeOK
<1>8. CASE Tick
  BY <1>8 DEF Tick, DhcpTypeOK
<1>9. CASE UNCHANGED dhcpVars
  BY <1>9 DEF dhcpVars, DhcpTypeOK
<1>. QED
  BY <1>1, <1>2, <1>3, <1>4, <1>5, <1>6, <1>7, <1>8, <1>9 DEF DhcpNext, Ask

\* The lease table, its file and the devices' beliefs keep their types through
\* every packet, restart and crash.
THEOREM LeasesTypeCorrect == DhcpSpec => []DhcpTypeOK
<1>1. ASSUME DhcpInit PROVE DhcpTypeOK
  <2>1. leases \in [Keys -> Lease \cup {NoLease}] /\ file \in [Keys -> Lease \cup {NoLease}]
    BY <1>1 DEF DhcpInit
  <2>2. held \in [Senders -> Belief \cup {NoLease}]
    BY <1>1 DEF DhcpInit
  <2>3. failed \in BOOLEAN /\ now \in Nat
    BY <1>1 DEF DhcpInit
  <2>. QED
    BY <2>1, <2>2, <2>3 DEF DhcpTypeOK
<1>. QED
  BY <1>1, LeaseTypeStep, PTL DEF DhcpSpec

\* Every device has a client identifier of its own.
OneDevicePerKey == \A s, t \in Senders : s[1] = t[1] => s = t

Promise(s, table) ==
    /\ table[s[1]] # NoLease
    /\ table[s[1]].ip = held[s].ip
    /\ table[s[1]].expires >= held[s].until

\* A device that uses an address has an unexpired entry, so an allocation for
\* whomever leaves that entry as it is.
LEMMA PromiseUntouched ==
    ASSUME DhcpTypeOK, NEW s \in Senders, NEW k \in Keys, NEW mac \in Macs, NEW requested \in Asked,
           NEW table \in Allocations(k, mac, requested), Using(s), Promise(s, leases)
    PROVE  table[s[1]] = leases[s[1]]
<1>1. s[1] \in Keys
  BY SendersAssumption
<1>2. leases[s[1]] \in Lease /\ leases[s[1]] # NoLease /\ leases[s[1]].expires \in Nat
  BY <1>1 DEF DhcpTypeOK, Promise, Lease
<1>3. held[s] \in Belief /\ held[s].until \in Nat /\ held[s].until > now
  BY DEF Using, DhcpTypeOK, Belief
<1>4. s[1] \notin Expired
  BY <1>2, <1>3 DEF Expired, Promise, DhcpTypeOK
<1>. QED
  BY <1>1, <1>2, <1>4, AllocationKeeps

\* No device believes in a lease longer than the server grants: what makes
\* PromiseKept inductive when a renewal is acknowledged and the ACK is lost.
HeldBounded == \A s \in Senders : held[s] # NoLease => held[s].until <= now + LeaseTime

\* No packet, loss or restart makes a device believe in a longer lease.
LEMMA HeldStep ==
    ASSUME DhcpTypeOK, HeldBounded, [DhcpNext]_dhcpVars
    PROVE  HeldBounded'
<1>. SUFFICES ASSUME NEW s \in Senders, held'[s] # NoLease
              PROVE  held'[s].until <= now' + LeaseTime
  BY DEF HeldBounded
<1>. USE TimesAssumption
<1>0. now \in Nat /\ (held[s] # NoLease => held[s].until \in Nat /\ held[s].until <= now + LeaseTime)
  BY DEF DhcpTypeOK, Belief, HeldBounded
<1>1. ASSUME held'[s] = held[s] \/ held'[s] = NoLease, now' = now \/ now' = now + 1
      PROVE  held'[s].until <= now' + LeaseTime
  BY <1>0, <1>1
<1>2. ASSUME NEW t \in Senders, NEW requested \in Asked, NEW delivered \in BOOLEAN,
             RequestAck(t, requested, delivered)
      PROVE  held'[s].until <= now' + LeaseTime
  <2>1. now' = now
    BY <1>2 DEF RequestAck
  <2>2. held'[s] = held[s] \/ held'[s].until = now + LeaseTime
    <3>1. PICK table \in Allocations(t[1], t[2], requested) :
              /\ \A u \in Senders : u # t => held'[u] = held[u]
              /\ held'[t] = held[t] \/ held'[t] = [ip |-> table[t[1]].ip, until |-> now + LeaseTime]
      BY <1>2, AckStep
    <3>. QED
      BY <3>1
  <2>. QED
    BY <1>0, <1>1, <2>1, <2>2
<1>3. ASSUME NEW t \in Senders, NEW requested \in Asked, NEW delivered \in BOOLEAN,
             Discover(t, requested) \/ RequestNak(t, requested, delivered)
      PROVE  held'[s].until <= now' + LeaseTime
  BY <1>1, <1>3, NakStep DEF Discover
<1>4. ASSUME NEW t \in Senders, RequestElsewhere(t) \/ Release(t)
      PROVE  held'[s].until <= now' + LeaseTime
  BY <1>1, <1>4 DEF RequestElsewhere, Release, DhcpTypeOK
<1>5. CASE DhcpStop \/ Crash \/ Tick \/ UNCHANGED dhcpVars
  BY <1>1, <1>5 DEF DhcpStop, Crash, Tick, dhcpVars
<1>. QED
  BY <1>2, <1>3, <1>4, <1>5 DEF DhcpNext, Ask

\* Every packet, restart and crash keeps the promises in the table and in the file.
LEMMA PromiseStep ==
    ASSUME OneDevicePerKey, DhcpTypeOK, HeldBounded, PromiseKept, [DhcpNext]_dhcpVars
    PROVE  PromiseKept'
<1>. SUFFICES ASSUME ~failed', NEW s \in Senders, Using(s)'
              PROVE  Promise(s, leases)' /\ Promise(s, file)'
  BY DEF PromiseKept, Promise
<1>0. s[1] \in Keys
  BY SendersAssumption
<1>1. ~failed /\ Using(s) => Promise(s, leases) /\ Promise(s, file)
  BY DEF PromiseKept, Promise
\* Steps that keep the device's belief and its two entries.
<1>2. ASSUME ~failed, Using(s), held'[s] = held[s],
             leases'[s[1]] = leases[s[1]], file'[s[1]] \in {file[s[1]], leases[s[1]]}
      PROVE  Promise(s, leases)' /\ Promise(s, file)'
  BY <1>1, <1>2 DEF Promise
<1>3. ASSUME NEW t \in Senders, NEW requested \in Asked, Discover(t, requested)
      PROVE  Promise(s, leases)' /\ Promise(s, file)'
  <2>1. ~failed /\ Using(s) /\ held' = held /\ file' = file
    BY <1>3 DEF Discover, Using
  <2>2. leases'[s[1]] = leases[s[1]]
    BY <1>1, <1>3, <2>1, PromiseUntouched, SendersAssumption DEF Discover
  <2>. QED
    BY <1>2, <2>1, <2>2
<1>4. ASSUME NEW t \in Senders, NEW requested \in Asked, NEW delivered \in BOOLEAN,
             RequestAck(t, requested, delivered)
      PROVE  Promise(s, leases)' /\ Promise(s, file)'
  <2>1. ~failed /\ file' = leases' /\ now' = now
    BY <1>4 DEF RequestAck, Save
  <2>2. PICK table \in Allocations(t[1], t[2], requested) :
              /\ leases'[t[1]] \in Lease /\ leases'[t[1]].ip = table[t[1]].ip
              /\ leases'[t[1]].expires = now + LeaseTime
              /\ \A j \in Keys : j # t[1] => leases'[j] = table[j]
              /\ \A u \in Senders : u # t => held'[u] = held[u]
              /\ held'[t] = held[t] \/ held'[t] = [ip |-> table[t[1]].ip, until |-> now + LeaseTime]
    BY <1>4, AckStep
  <2>3. CASE s # t
    <3>1. held'[s] = held[s] /\ Using(s)
      BY <2>1, <2>2, <2>3 DEF Using
    <3>2. table[s[1]] = leases[s[1]]
      BY <1>1, <2>1, <3>1, PromiseUntouched, SendersAssumption
    <3>3. s[1] # t[1]
      BY <2>3 DEF OneDevicePerKey
    <3>. QED
      BY <1>0, <1>2, <2>1, <2>2, <3>1, <3>2, <3>3
  <2>4. CASE s = t /\ held'[s] = [ip |-> table[t[1]].ip, until |-> now + LeaseTime]
    <3>1. leases'[s[1]] # NoLease
      BY <2>2, <2>4, NoLeaseAssumption
    <3>2. now + LeaseTime \in Nat
      BY TimesAssumption DEF DhcpTypeOK
    <3>. QED
      BY <2>1, <2>2, <2>4, <3>1, <3>2 DEF Promise
  <2>5. CASE s = t /\ held'[s] = held[s]
    <3>1. Using(s)
      BY <2>1, <2>5 DEF Using
    <3>2. table[s[1]] = leases[s[1]]
      BY <1>1, <2>1, <3>1, PromiseUntouched, SendersAssumption
    <3>3. held[s].until \in Nat /\ leases[s[1]].expires \in Nat /\ leases[s[1]] \in Lease
      BY <1>0, <1>1, <2>1, <3>1 DEF Using, DhcpTypeOK, Belief, Lease, Promise
    <3>4. leases'[s[1]] # NoLease
      BY <2>2, <2>5, NoLeaseAssumption
    <3>5. held[s].until <= now + LeaseTime
      BY <3>1 DEF HeldBounded, Using
    <3>. QED
      BY <1>1, <2>1, <2>2, <2>5, <3>1, <3>2, <3>3, <3>4, <3>5 DEF Promise
  <2>. QED
    BY <2>2, <2>3, <2>4, <2>5
<1>5. ASSUME NEW t \in Senders, NEW requested \in Asked, NEW delivered \in BOOLEAN,
             RequestNak(t, requested, delivered)
      PROVE  Promise(s, leases)' /\ Promise(s, file)'
  <2>1. held'[s] = held[s] /\ ~failed /\ Using(s) /\ file' = file
    BY <1>5, NakStep DEF Using
  <2>2. leases'[s[1]] = leases[s[1]]
    BY <1>1, <1>5, <2>1, NakStep, PromiseUntouched, SendersAssumption
  <2>. QED
    BY <1>2, <2>1, <2>2
<1>6. ASSUME NEW t \in Senders, RequestElsewhere(t)
      PROVE  Promise(s, leases)' /\ Promise(s, file)'
  <2>1. s # t
    BY <1>6 DEF RequestElsewhere, Using, DhcpTypeOK
  <2>2. s[1] # t[1] /\ t[1] \in Keys
    BY <2>1, SendersAssumption DEF OneDevicePerKey
  <2>3. held'[s] = held[s] /\ ~failed /\ Using(s) /\ file' = file
    BY <1>6, <2>1 DEF RequestElsewhere, Using, DhcpTypeOK
  <2>4. leases'[s[1]] = leases[s[1]]
    BY <1>0, <1>6, <2>2 DEF RequestElsewhere, DhcpTypeOK
  <2>. QED
    BY <1>2, <2>3, <2>4
<1>7. ASSUME NEW t \in Senders, Release(t)
      PROVE  Promise(s, leases)' /\ Promise(s, file)'
  <2>1. s # t
    BY <1>7 DEF Release, Using, DhcpTypeOK
  <2>2. s[1] # t[1]
    BY <2>1 DEF OneDevicePerKey
  <2>3. held'[s] = held[s] /\ ~failed /\ Using(s) /\ file' = leases'
    BY <1>7, <2>1 DEF Release, Save, Using, DhcpTypeOK
  <2>4. leases'[s[1]] = leases[s[1]]
    BY <1>0, <1>7, <2>2, ReleaseStep
  <2>. QED
    BY <1>2, <2>3, <2>4
<1>8. CASE DhcpStop
  <2>1. held' = held /\ ~failed /\ Using(s) /\ file' = leases /\ leases' = leases
    BY <1>8 DEF DhcpStop, Save, Using
  <2>. QED
    BY <1>2, <2>1
<1>9. CASE Crash
  <2>1. held' = held /\ ~failed /\ Using(s) /\ file' = file /\ leases' = file
    BY <1>9 DEF Crash, Using
  <2>. QED
    BY <1>1, <2>1 DEF Promise
<1>10. CASE Tick
  <2>1. held' = held /\ ~failed /\ file' = file /\ leases' = leases /\ now' = now + 1
    BY <1>10 DEF Tick
  <2>2. Using(s)
    BY <2>1 DEF Using, DhcpTypeOK, Belief
  <2>. QED
    BY <1>2, <2>1, <2>2
<1>11. CASE UNCHANGED dhcpVars
  BY <1>2, <1>11 DEF dhcpVars, Using
<1>. QED
  BY <1>3, <1>4, <1>5, <1>6, <1>7, <1>8, <1>9, <1>10, <1>11 DEF DhcpNext, Ask

\* As long as no save fails and every device has its own key, a lease that was
\* acknowledged stays in the table and on disk until it ends, through lost
\* replies, restarts and crashes (dhcp.py:473 saves before the ACK leaves).
THEOREM PromisesAreKept ==
    ASSUME OneDevicePerKey
    PROVE  DhcpSpec => []PromiseKept
<1>1. DhcpInit => HeldBounded /\ PromiseKept
  BY DEF DhcpInit, HeldBounded, PromiseKept, Using
<1>2. DhcpTypeOK /\ HeldBounded /\ PromiseKept /\ [DhcpNext]_dhcpVars => HeldBounded' /\ PromiseKept'
  BY HeldStep, PromiseStep
<1>. QED
  BY <1>1, <1>2, LeasesTypeCorrect, PTL DEF DhcpSpec

\* A device new to the table gets a free address as long as there is one.
THEOREM NewEntriesAreFree == DhcpSpec => NewEntryIsFree
<1>1. DhcpTypeOK /\ [DhcpNext]_dhcpVars =>
        [\A s \in Senders : NewEntry(s) /\ Free # {} => leases'[s[1]].ip \notin Taken]_dhcpVars
  <2>. SUFFICES ASSUME DhcpTypeOK, NEW s \in Senders, NewEntry(s), Free # {}
                PROVE  leases'[s[1]].ip \notin Taken
    OBVIOUS
  <2>0. s[1] \in Keys /\ s[2] \in Macs
    BY SendersAssumption
  <2>1. PICK requested \in Asked :
            \/ Discover(s, requested)
            \/ \E delivered \in BOOLEAN : \/ RequestAck(s, requested, delivered)
                                          \/ RequestNak(s, requested, delivered)
    BY DEF NewEntry, Ask
  <2>2. CASE leases' \in Allocations(s[1], s[2], requested)
    BY <2>0, <2>2, AllocationKeeps DEF NewEntry
  <2>3. CASE \E delivered \in BOOLEAN : RequestAck(s, requested, delivered)
    <3>1. PICK table \in Allocations(s[1], s[2], requested) : leases'[s[1]].ip = table[s[1]].ip
      BY <2>3, AckStep
    <3>. QED
      BY <2>0, <3>1, AllocationKeeps DEF NewEntry
  <2>. QED
    BY <2>1, <2>2, <2>3, NakStep DEF Discover, NewEntry
<1>. QED
  BY <1>1, LeasesTypeCorrect, PTL DEF DhcpSpec, NewEntryIsFree

\* Nobody but the device an unexpired entry was made for can make it go away
\* or change its address, whatever client identifiers the senders use.
THEOREM OffersAreHeld == DhcpSpec => OfferHeld
<1>. DEFINE Lost(k) == leases'[k] = NoLease \/ leases'[k].ip # leases[k].ip
            Excused(k) == DhcpStop \/ Crash \/ RequestElsewhere(<<k, leases[k].mac>>)
<1>1. DhcpTypeOK /\ [DhcpNext]_dhcpVars => [\A k \in Keys : Active(k) /\ Lost(k) => Excused(k)]_dhcpVars
  <2>. SUFFICES ASSUME DhcpTypeOK, DhcpNext, NEW k \in Keys, Active(k), Lost(k), ~Excused(k)
                PROVE  FALSE
    BY DEF dhcpVars, Active
  <2>0. leases[k] \in Lease /\ leases[k] # NoLease /\ k \notin Expired
    BY DEF Active, Expired, DhcpTypeOK, Lease
  <2>1. ASSUME NEW s \in Senders, NEW requested \in Asked,
               NEW table \in Allocations(s[1], s[2], requested)
        PROVE  table[k] = leases[k]
    BY <2>0, AllocationKeeps, SendersAssumption
  <2>2. ASSUME NEW s \in Senders, NEW requested \in Asked, NEW delivered \in BOOLEAN,
               RequestAck(s, requested, delivered)
        PROVE  FALSE
    <3>1. PICK table \in Allocations(s[1], s[2], requested) :
              /\ leases'[s[1]] \in Lease /\ leases'[s[1]].ip = table[s[1]].ip
              /\ \A j \in Keys : j # s[1] => leases'[j] = table[j]
      BY <2>2, AckStep
    <3>. QED
      BY <2>0, <2>1, <3>1, NoLeaseAssumption
  <2>3. ASSUME NEW s \in Senders, NEW requested \in Asked, NEW delivered \in BOOLEAN,
               Discover(s, requested) \/ RequestNak(s, requested, delivered)
        PROVE  FALSE
    BY <2>0, <2>1, <2>3, NakStep DEF Discover
  <2>4. ASSUME NEW s \in Senders, RequestElsewhere(s) PROVE FALSE
    <3>1. s[1] \in Keys /\ s = <<s[1], s[2]>>
      BY SendersAssumption
    <3>2. CASE s[1] = k /\ leases[k].mac = s[2]
      BY <2>4, <3>1, <3>2
    <3>3. CASE ~(s[1] = k /\ leases[k].mac = s[2])
      BY <2>0, <2>4, <3>1, <3>3 DEF RequestElsewhere, DhcpTypeOK
    <3>. QED
      BY <3>2, <3>3
  <2>5. ASSUME NEW s \in Senders, Release(s) PROVE FALSE
    <3>1. CASE s[1] = k
      BY <2>0, <2>5, <3>1, ReleaseStep, NoLeaseAssumption
    <3>2. CASE s[1] # k
      BY <2>0, <2>5, <3>2, ReleaseStep
    <3>. QED
      BY <3>1, <3>2
  <2>6. CASE Tick
    BY <2>0, <2>6 DEF Tick
  <2>. QED
    BY <2>2, <2>3, <2>4, <2>5, <2>6 DEF DhcpNext, Ask
<1>. QED
  BY <1>1, LeasesTypeCorrect, PTL DEF DhcpSpec, OfferHeld
-------------------------------------------------------------------------------
\* A packet on its way, and what boxes remember: ages.
AirPacket == [to : Boxes, network : Networks, payload : Payloads,
              sender : Boxes \cup {Device}, age : 0..MaxDelay]

ReflectorType ==
    /\ air \subseteq AirPacket /\ \A b \in Boxes : open[b] \subseteq Networks
    /\ open = [b \in Boxes |-> open[b]]
    /\ seen = [b \in Boxes |-> seen[b]]
    /\ \A b \in Boxes : /\ IsFiniteSet(DOMAIN seen[b])
                        /\ \A p \in DOMAIN seen[b] : seen[b][p] \in Nat
    /\ sends \in Nat

\* At least k boxes remember the payload of a packet since it came by: the last
\* of them since the packet was sent, the others one delay longer each.
Visited(packet, k) ==
    \E B \in SUBSET Boxes :
        /\ Cardinality(B) = k
        /\ \A b \in B :
              /\ packet.payload \in DOMAIN seen[b]
              /\ seen[b][packet.payload] <= (k - 1) * MaxDelay + packet.age

\* What becomes of a packet p in a step: q is p, perhaps a tick older, or a
\* copy that replaces it, and then one more box has been visited.
Carried(p, q) ==
    /\ q \in {p, [p EXCEPT !.age = @ + 1]}
    /\ \A k \in Nat : Visited(p, k) => Visited(q, k)'
Copied(p, q) ==
    /\ p \notin air' /\ q.payload = p.payload
    /\ \A k \in Nat : Visited(p, k) => Visited(q, k + 1)'

\* Unless a device sends something, what is on its way was so before or is a
\* copy, and every copy has visited one box more than what it is a copy of.
EchoesEnd ==
    [][\A q \in air' :
        \/ sends' > sends /\ q.sender = Device /\ q.age = 0
        \/ \E p \in air : Carried(p, q) \/ Copied(p, q)]_reflectVars

\* There are no more boxes to visit than there are.
VisitsBounded == \A p \in air, k \in Nat : Visited(p, k) => k <= Cardinality(Boxes)

\* The delays of k boxes are inside the window, for all the boxes there are.
LEMMA DelaysFit ==
    ASSUME NEW k \in Nat, k <= Cardinality(Boxes)
    PROVE  /\ Cardinality(Boxes) \in Nat /\ Window \in Nat /\ MaxDelay \in Nat
           /\ k * MaxDelay \in Nat /\ k * MaxDelay < Window /\ 0 < Window
           /\ (k - 1) * MaxDelay + MaxDelay = k * MaxDelay
           /\ (k - 1) * MaxDelay \in Int
<1>1. Cardinality(Boxes) \in Nat /\ Window \in Nat /\ MaxDelay \in Nat
  BY ReflectorAssumption, FS_CardinalityType
<1>2. Cardinality(Boxes) * MaxDelay < Window
  BY ReflectorAssumption
<1> DEFINE n == Cardinality(Boxes)
<1> HIDE DEF n
<1>3. n \in Nat /\ n * MaxDelay < Window /\ k <= n
  BY <1>1, <1>2 DEF n
<1>4. k * MaxDelay <= n * MaxDelay /\ k * MaxDelay \in Nat
  BY <1>1, <1>3
<1>5. (k - 1) * MaxDelay = k * MaxDelay - MaxDelay
  BY <1>1
<1> QED BY <1>1, <1>3, <1>4, <1>5 DEF n

\* Boxes can be counted.
LEMMA BoxesCounted ==
    ASSUME NEW B \in SUBSET Boxes
    PROVE  /\ IsFiniteSet(B) /\ Cardinality(B) \in Nat /\ Cardinality(B) <= Cardinality(Boxes)
           /\ \A b \in Boxes \ B : Cardinality(B \cup {b}) = Cardinality(B) + 1
<1>1. IsFiniteSet(B) /\ Cardinality(B) <= Cardinality(Boxes)
  BY ReflectorAssumption, FS_Subset
<1> QED BY <1>1, FS_CardinalityType, FS_AddElement

\* A step that only makes the memory younger, or forgets what is old, takes
\* nothing away from what a packet has visited.
Keeps ==
    \A b \in Boxes, p \in Payloads :
        p \in DOMAIN seen[b] /\ seen[b][p] < Window
        => p \in DOMAIN seen'[b] /\ seen'[b][p] <= seen[b][p]

LEMMA KeepsVisits ==
    ASSUME ReflectorType, ReflectorType', Keeps, NEW p \in AirPacket, NEW k \in Nat, Visited(p, k)
    PROVE  Visited(p, k)'
<1>1. PICK B \in SUBSET Boxes :
        /\ Cardinality(B) = k
        /\ \A b \in B : /\ p.payload \in DOMAIN seen[b]
                        /\ seen[b][p.payload] <= (k - 1) * MaxDelay + p.age
  BY DEF Visited
<1>2. k <= Cardinality(Boxes)
  BY <1>1, BoxesCounted
<1>3. p.payload \in Payloads /\ p.age \in Nat /\ p.age <= MaxDelay
  BY <1>2, DelaysFit DEF AirPacket
<1>4. ASSUME NEW b \in B
      PROVE  p.payload \in DOMAIN seen'[b] /\ seen'[b][p.payload] <= (k - 1) * MaxDelay + p.age
  <2> DEFINE a == seen[b][p.payload]
             d == (k - 1) * MaxDelay
  <2>1. a \in Nat /\ a <= d + p.age /\ d \in Int /\ d + MaxDelay < Window /\ Window \in Nat /\ MaxDelay \in Nat
    BY <1>1, <1>2, DelaysFit DEF ReflectorType
  <2> HIDE DEF a, d
  <2>2. a < Window
    BY <1>3, <2>1
  <2>3. p.payload \in DOMAIN seen'[b] /\ seen'[b][p.payload] <= a
    BY <1>1, <1>3, <2>2 DEF Keeps, a
  <2>4. seen'[b][p.payload] \in Nat
    BY <2>3 DEF ReflectorType
  <2> QED BY <1>3, <2>1, <2>3, <2>4 DEF d
<1> QED BY <1>1, <1>4 DEF Visited

\* The memory of a box after a new packet: the packet is in it, and what is
\* young has not been forgotten, since the limiter lets less through.
LEMMA RememberedKeeps ==
    ASSUME ReflectorType, NEW b \in Boxes, NEW payload \in Payloads,
           Cardinality(Young(seen[b]) \cup {payload}) <= Volume,
           NEW memory \in Remembered(b, payload)
    PROVE  /\ payload \in DOMAIN memory /\ memory[payload] = 0
           /\ IsFiniteSet(DOMAIN memory) /\ \A p \in DOMAIN memory : memory[p] \in Nat
           /\ \A p \in DOMAIN seen[b] : p # payload /\ seen[b][p] < Window
                => p \in DOMAIN memory /\ memory[p] = seen[b][p]
<1> DEFINE all == [p \in DOMAIN seen[b] \cup {payload} |-> IF p = payload THEN 0 ELSE seen[b][p]]
           young == [p \in Young(all) |-> all[p]]
<1>0. 0 < Window /\ Window \in Nat
  <2>1. 0 <= Cardinality(Boxes)
    BY ReflectorAssumption, FS_CardinalityType
  <2> QED BY <2>1, DelaysFit
<1>1. \A p \in DOMAIN seen[b] : seen[b][p] \in Nat
  BY DEF ReflectorType
<1>2. DOMAIN all = DOMAIN seen[b] \cup {payload}
  OBVIOUS
<1>3. Young(all) = Young(seen[b]) \cup {payload}
  BY <1>0, <1>1, <1>2 DEF Young
<1>4. DOMAIN young = Young(all)
  OBVIOUS
<1>5. /\ all[payload] = 0
      /\ \A p \in DOMAIN seen[b] : p # payload => all[p] = seen[b][p]
  OBVIOUS
<1>6. \A p \in Young(all) : young[p] = all[p] /\ p \in DOMAIN all
  BY DEF Young
<1>7. Cardinality(DOMAIN young) <= MaxRemembered
  <2>1. Cardinality(DOMAIN young) = Cardinality(Young(seen[b]) \cup {payload})
    BY <1>3, <1>4
  <2>2. IsFiniteSet(Young(seen[b]) \cup {payload})
    <3>1. IsFiniteSet(DOMAIN seen[b]) /\ Young(seen[b]) \subseteq DOMAIN seen[b]
      BY DEF ReflectorType, Young
    <3> QED BY <3>1, FS_Subset, FS_AddElement
  <2>3. Cardinality(Young(seen[b]) \cup {payload}) \in Nat
    BY <2>2, FS_CardinalityType
  <2> HIDE DEF all, young
  <2> QED BY <2>1, <2>3, ReflectorAssumption
<1>8. memory \in {all, young}
  <2>1. Remembered(b, payload) =
            IF Cardinality(DOMAIN all) <= MaxRemembered THEN {all}
            ELSE IF Cardinality(DOMAIN young) <= MaxRemembered THEN {young}
            ELSE {[p \in S |-> young[p]] : S \in Halves(young)}
    BY DEF Remembered
  <2> HIDE DEF all, young
  <2> QED BY <1>7, <2>1
<1>9. payload \in Young(all) /\ \A p \in DOMAIN seen[b] : seen[b][p] < Window => p \in Young(all)
  BY <1>3 DEF Young
<1>12. IsFiniteSet(DOMAIN all) /\ IsFiniteSet(DOMAIN young)
  <2>1. IsFiniteSet(DOMAIN seen[b]) /\ Young(all) \subseteq DOMAIN all
    BY DEF ReflectorType, Young
  <2> HIDE DEF all, young
  <2> QED BY <1>2, <1>4, <2>1, FS_Subset, FS_AddElement
<1> HIDE DEF all, young
<1>10. CASE memory = all
  BY <1>1, <1>2, <1>5, <1>10, <1>12
<1>11. CASE memory = young
  BY <1>1, <1>2, <1>4, <1>5, <1>6, <1>9, <1>11, <1>12
<1> QED BY <1>8, <1>10, <1>11

\* Packets a box or a device puts on a network are packets.
LEMMA OnTyped ==
    ASSUME NEW n \in Networks, NEW p \in Payloads, NEW sender \in Boxes \cup {Device},
           NEW receivers \in SUBSET Boxes
    PROVE  \A q \in On(n, p, sender, receivers) :
              q \in AirPacket /\ q.payload = p /\ q.sender = sender /\ q.age = 0
<1>1. MaxDelay \in Nat
  BY ReflectorAssumption
<1> QED BY <1>1 DEF On, AirPacket

\* What a box makes of a packet: the packet is gone, and the copies are its own.
LEMMA ReflectMakes ==
    ASSUME ReflectorType, NEW packet \in air, ReflectPacket(packet)
    PROVE  /\ packet.to \in Boxes /\ packet.payload \in Payloads /\ packet \in AirPacket
           /\ packet \notin air'
           /\ \A q \in air' : \/ q \in air
                              \/ /\ q \in AirPacket /\ q.payload = packet.payload
                                 /\ q.sender = packet.to /\ q.age = 0
<1> DEFINE b == packet.to
<1>1. packet \in AirPacket /\ b \in Boxes /\ packet.payload \in Payloads /\ packet.sender # b
  BY DEF ReflectorType, AirPacket, ReflectPacket
<1>2. PICK copies \in Copies(b, packet) : air' = (air \ {packet}) \cup copies
  BY DEF ReflectPacket
<1>3. PICK out \in SUBSET (open[b] \ {packet.network}) :
        copies = UNION {On(n, packet.payload, b, Boxes \ {b}) : n \in out}
  BY <1>2 DEF Copies
<1> HIDE DEF b
<1>4. ASSUME NEW q \in copies
      PROVE  q \in AirPacket /\ q.payload = packet.payload /\ q.sender = b /\ q.age = 0
  <2>1. PICK n \in out : q \in On(n, packet.payload, b, Boxes \ {b})
    BY <1>3, <1>4
  <2>2. n \in open[b] /\ open[b] \subseteq Networks
    BY <1>1, <1>3, <2>1 DEF ReflectorType
  <2> QED BY <1>1, <2>1, <2>2, OnTyped
<1> QED BY <1>1, <1>2, <1>4 DEF b

\* Every step keeps the types.
LEMMA ReflectorTypeStep == ReflectorType /\ [ReflectorNext]_reflectVars => ReflectorType'
<1> SUFFICES ASSUME ReflectorType, [ReflectorNext]_reflectVars PROVE ReflectorType'
  OBVIOUS
<1>0. MaxDelay \in Nat /\ Window \in Nat
  BY ReflectorAssumption
<1>1. CASE UNCHANGED reflectVars
  BY <1>1 DEF reflectVars, ReflectorType
<1>2. CASE ReflectorTick
  <2>1. ASSUME NEW q \in air' PROVE q \in AirPacket
    <3>1. PICK p \in air : q = [p EXCEPT !.age = @ + 1]
      BY <1>2, <2>1 DEF ReflectorTick
    <3>2. p \in AirPacket /\ p.age + 1 \in 0..MaxDelay
      BY <1>0, <1>2 DEF ReflectorTick, ReflectorType, AirPacket
    <3> QED BY <3>1, <3>2 DEF AirPacket
  <2>2. ASSUME NEW b \in Boxes
        PROVE  /\ DOMAIN seen'[b] = DOMAIN seen[b]
               /\ \A p \in DOMAIN seen[b] : seen'[b][p] \in Nat
    BY <1>0, <1>2 DEF ReflectorTick, ReflectorType
  <2>3. seen' = [b \in Boxes |-> seen'[b]]
    BY <1>2 DEF ReflectorTick
  <2> QED BY <1>2, <2>1, <2>2, <2>3 DEF ReflectorTick, ReflectorType
<1>3. ASSUME NEW b \in Boxes, StartReflector(b) \/ StopReflector(b) PROVE ReflectorType'
  BY <1>3 DEF StartReflector, StopReflector, ReflectorType
<1>4. ASSUME NEW n \in Networks, NEW p \in Payloads, DeviceSends(n, p) PROVE ReflectorType'
  <2>1. air' \subseteq AirPacket
    BY <1>4, OnTyped DEF DeviceSends, ReflectorType
  <2> QED BY <1>4, <2>1 DEF DeviceSends, ReflectorType
<1>5. ASSUME NEW packet \in air, ReflectPacket(packet) PROVE ReflectorType'
  <2> DEFINE b == packet.to
  <2>1. packet.to \in Boxes /\ packet.payload \in Payloads
    BY <1>5, ReflectMakes
  <2>2. PICK memory \in Remembered(b, packet.payload) : seen' = [seen EXCEPT ![b] = memory]
    BY <1>5 DEF ReflectPacket
  <2>3. Cardinality(Young(seen[b]) \cup {packet.payload}) <= Volume
    BY <1>5 DEF ReflectPacket
  <2>4. IsFiniteSet(DOMAIN memory) /\ \A p \in DOMAIN memory : memory[p] \in Nat
    BY <2>1, <2>2, <2>3, RememberedKeeps
  <2>5. air' \subseteq AirPacket
    BY <1>5, ReflectMakes DEF ReflectorType
  <2>6. UNCHANGED <<open, sends>>
    BY <1>5 DEF ReflectPacket
  <2> HIDE DEF b
  <2>7. seen = [x \in Boxes |-> seen[x]] /\ b \in Boxes
    BY <2>1 DEF ReflectorType, b
  <2>8. seen'[b] = memory /\ \A x \in Boxes : x # b => seen'[x] = seen[x]
    BY <2>2, <2>7
  <2>9. seen' = [x \in Boxes |-> seen'[x]]
    BY <2>2, <2>7
  <2> QED BY <2>4, <2>5, <2>6, <2>8, <2>9 DEF ReflectorType
<1>6. ASSUME NEW packet \in air, DropPacket(packet) PROVE ReflectorType'
  BY <1>6 DEF DropPacket, ReflectorType
<1> QED BY <1>1, <1>2, <1>3, <1>4, <1>5, <1>6 DEF ReflectorNext

\* A copy has reached one box more: the one that made it, which the payload had
\* not come by before, or it would have remembered that.
LEMMA CopyVisits ==
    ASSUME ReflectorType, ReflectorType', NEW packet \in air, ReflectPacket(packet),
           NEW q \in AirPacket, q.payload = packet.payload, q.age = 0,
           NEW k \in Nat, Visited(packet, k)
    PROVE  Visited(q, k + 1)'
<1> DEFINE b == packet.to
           p == packet.payload
           d == (k - 1) * MaxDelay
<1>1. b \in Boxes /\ p \in Payloads /\ packet \in AirPacket
  BY ReflectMakes
<1>2. PICK B \in SUBSET Boxes :
        /\ Cardinality(B) = k
        /\ \A x \in B : p \in DOMAIN seen[x] /\ seen[x][p] <= d + packet.age
  BY DEF Visited
<1>3. k <= Cardinality(Boxes)
  BY <1>2, BoxesCounted
<1>4. /\ packet.age \in Nat /\ packet.age <= MaxDelay /\ d \in Int /\ k * MaxDelay \in Nat
      /\ d + MaxDelay = k * MaxDelay /\ k * MaxDelay < Window /\ Window \in Nat /\ MaxDelay \in Nat
  BY <1>1, <1>3, DelaysFit DEF AirPacket
<1>5. PICK memory \in Remembered(b, p) : seen' = [seen EXCEPT ![b] = memory]
  BY DEF ReflectPacket
<1>6. p \in DOMAIN memory /\ memory[p] = 0
  <2>1. Cardinality(Young(seen[b]) \cup {p}) <= Volume
    BY DEF ReflectPacket
  <2> QED BY <1>1, <1>5, <2>1, RememberedKeeps
<1>7. ~Recent(b, p)
  BY DEF ReflectPacket
<1> HIDE DEF b, p, d
<1>8. seen = [x \in Boxes |-> seen[x]]
  BY DEF ReflectorType
<1>9. seen'[b] = memory /\ \A x \in Boxes : x # b => seen'[x] = seen[x]
  BY <1>1, <1>5, <1>8
<1>10. \A x \in B : seen[x][p] \in Nat /\ seen[x][p] <= k * MaxDelay
  <2>1. \A x \in B : seen[x][p] \in Nat /\ seen[x][p] <= d + packet.age
    BY <1>2 DEF ReflectorType
  <2> QED BY <1>4, <2>1
<1>11. b \notin B
  BY <1>2, <1>4, <1>7, <1>10 DEF Recent, Young
<1>12. Cardinality(B \cup {b}) = k + 1
  BY <1>1, <1>2, <1>11, BoxesCounted
<1>13. ASSUME NEW x \in B \cup {b}
       PROVE  p \in DOMAIN seen'[x] /\ seen'[x][p] <= k * MaxDelay
  <2>1. CASE x = b
    BY <1>4, <1>6, <1>9, <2>1
  <2>2. CASE x # b
    BY <1>2, <1>9, <1>10, <1>13, <2>2
  <2> QED BY <2>1, <2>2
<1>14. ((k + 1) - 1) * MaxDelay + q.age = k * MaxDelay
  BY <1>4
<1> QED BY <1>1, <1>12, <1>13, <1>14 DEF Visited, p

\* What becomes of the packets in a step that sends none.
LEMMA EchoStep ==
    ASSUME ReflectorType, ReflectorType', ReflectorNext, NEW q \in air'
    PROVE  \/ sends' > sends /\ q.sender = Device /\ q.age = 0
           \/ \E p \in air : Carried(p, q) \/ Copied(p, q)
<1>0. MaxDelay \in Nat /\ Window \in Nat /\ \A p \in air : p \in AirPacket
  BY ReflectorAssumption DEF ReflectorType
<1>1. ASSUME q \in air, Keeps PROVE Carried(q, q)
  BY <1>0, <1>1, KeepsVisits DEF Carried
<1>2. ASSUME seen' = seen PROVE Keeps
  BY <1>2 DEF Keeps, ReflectorType
<1>3. CASE ReflectorTick
  <2>1. PICK p \in air : q = [p EXCEPT !.age = @ + 1]
    BY <1>3 DEF ReflectorTick
  <2>2. p \in AirPacket /\ p.age \in Nat /\ p.payload \in Payloads
    BY <1>0 DEF AirPacket
  <2>3. q.payload = p.payload /\ q.age = p.age + 1
    BY <2>1, <2>2 DEF AirPacket
  <2>4. ASSUME NEW k \in Nat, Visited(p, k) PROVE Visited(q, k)'
    <3>1. PICK B \in SUBSET Boxes :
            /\ Cardinality(B) = k
            /\ \A b \in B : /\ p.payload \in DOMAIN seen[b]
                            /\ seen[b][p.payload] <= (k - 1) * MaxDelay + p.age
      BY <2>4 DEF Visited
    <3>2. k <= Cardinality(Boxes)
      BY <3>1, BoxesCounted
    <3> DEFINE d == (k - 1) * MaxDelay
    <3>3. d \in Int
      BY <3>2, DelaysFit
    <3> HIDE DEF d
    <3>4. ASSUME NEW b \in B
          PROVE  p.payload \in DOMAIN seen'[b] /\ seen'[b][p.payload] <= d + q.age
      <4>1. seen[b][p.payload] \in Nat /\ p.payload \in DOMAIN seen[b]
            /\ seen[b][p.payload] <= d + p.age
        BY <3>1 DEF ReflectorType, d
      <4>2. /\ DOMAIN seen'[b] = DOMAIN seen[b]
            /\ seen'[b][p.payload] = IF seen[b][p.payload] < Window
                                     THEN seen[b][p.payload] + 1 ELSE Window
        BY <1>3, <4>1 DEF ReflectorTick
      <4> QED BY <1>0, <2>2, <2>3, <3>3, <4>1, <4>2
    <3> QED BY <2>3, <3>1, <3>4 DEF Visited, d
  <2>5. Carried(p, q)
    BY <2>1, <2>4 DEF Carried
  <2> QED BY <2>5
<1>4. ASSUME NEW b \in Boxes, StartReflector(b) \/ StopReflector(b)
      PROVE  \E p \in air : Carried(p, q)
  BY <1>1, <1>2, <1>4 DEF StartReflector, StopReflector
<1>5. ASSUME NEW n \in Networks, NEW p \in Payloads, DeviceSends(n, p)
      PROVE  \/ sends' > sends /\ q.sender = Device /\ q.age = 0
             \/ \E x \in air : Carried(x, q)
  <2>1. CASE q \in air
    BY <1>1, <1>2, <1>5, <2>1 DEF DeviceSends
  <2>2. CASE q \notin air
    <3>1. q \in On(n, p, Device, Boxes) /\ sends' = sends + 1
      BY <1>5, <2>2 DEF DeviceSends
    <3>2. q.sender = Device /\ q.age = 0
      BY <1>5, <3>1, OnTyped
    <3>3. sends' > sends
      BY <3>1 DEF ReflectorType
    <3> QED BY <3>2, <3>3
  <2> QED BY <2>1, <2>2
<1>6. ASSUME NEW packet \in air, ReflectPacket(packet)
      PROVE  \E p \in air : Carried(p, q) \/ Copied(p, q)
  <2> DEFINE b == packet.to
  <2>1. packet.to \in Boxes /\ packet.payload \in Payloads /\ packet \notin air'
    BY <1>6, ReflectMakes
  <2>2. CASE q \in air
    <3>1. PICK memory \in Remembered(b, packet.payload) : seen' = [seen EXCEPT ![b] = memory]
      BY <1>6 DEF ReflectPacket
    <3>2. Cardinality(Young(seen[b]) \cup {packet.payload}) <= Volume
      BY <1>6 DEF ReflectPacket
    <3>3. /\ packet.payload \in DOMAIN memory /\ memory[packet.payload] = 0
          /\ \A p \in DOMAIN seen[b] : p # packet.payload /\ seen[b][p] < Window
                => p \in DOMAIN memory /\ memory[p] = seen[b][p]
      BY <2>1, <3>1, <3>2, RememberedKeeps
    <3> HIDE DEF b
    <3>4. seen = [x \in Boxes |-> seen[x]] /\ b \in Boxes
      BY <2>1 DEF ReflectorType, b
    <3>5. seen'[b] = memory /\ \A x \in Boxes : x # b => seen'[x] = seen[x]
      BY <3>1, <3>4
    <3>6. \A x \in Boxes : \A p \in DOMAIN seen[x] : seen[x][p] \in Nat
      BY DEF ReflectorType
    <3>7. Keeps
      BY <3>3, <3>5, <3>6 DEF Keeps
    <3> QED BY <1>1, <2>2, <3>7
  <2>3. CASE q \notin air
    <3>1. q \in AirPacket /\ q.payload = packet.payload /\ q.age = 0
      BY <1>6, <2>3, ReflectMakes
    <3>2. \A k \in Nat : Visited(packet, k) => Visited(q, k + 1)'
      BY <1>6, <3>1, CopyVisits
    <3> QED BY <2>1, <3>1, <3>2 DEF Copied
  <2> QED BY <2>2, <2>3
<1>7. ASSUME NEW packet \in air, DropPacket(packet)
      PROVE  \E p \in air : Carried(p, q)
  BY <1>1, <1>2, <1>7 DEF DropPacket
<1> QED BY <1>3, <1>4, <1>5, <1>6, <1>7 DEF ReflectorNext

\* No packet goes round for ever between gateways that do not know each other's
\* addresses, however many they are: every copy of a copy has come by one box
\* more, and there are only so many (_already_seen() and _reflect() of
\* gateway/reflector.py).  The safety half of StormEnds.
THEOREM EchoesAreBounded == ReflectorSpec => []VisitsBounded /\ EchoesEnd
<1>1. ReflectorInit => ReflectorType
  <2>1. SUFFICES ASSUME ReflectorInit PROVE ReflectorType
    OBVIOUS
  <2>2. \A b \in Boxes : DOMAIN seen[b] = {} /\ open[b] = {}
    BY <2>1 DEF ReflectorInit
  <2> QED BY <2>1, <2>2, FS_EmptySet DEF ReflectorInit, ReflectorType
<1>2. ReflectorType => VisitsBounded
  BY BoxesCounted DEF VisitsBounded, Visited
<1>3. ReflectorType /\ ReflectorType' /\ [ReflectorNext]_reflectVars =>
        [\A q \in air' :
            \/ sends' > sends /\ q.sender = Device /\ q.age = 0
            \/ \E p \in air : Carried(p, q) \/ Copied(p, q)]_reflectVars
  BY EchoStep
<1> QED
  BY <1>1, <1>2, <1>3, ReflectorTypeStep, PTL DEF ReflectorSpec, EchoesEnd
===============================================================================
