----------------------------- MODULE Access_proofs -----------------------------
(***************************************************************************)
(* Of three parts, each with its own state.                                *)
(*                                                                         *)
(* The dashboard's access: what holds of the admin token for any           *)
(* passwords, secrets and crashes, and of the limiter for any number of    *)
(* clients and threads, no lockout outliving its time among it.            *)
(*                                                                         *)
(* The upstream pool: a call at work on an upstream has it at the head of  *)
(* its list (PoolInv), every step but the sorting takes it onward from     *)
(* there (Onward), and no bench goes beyond its ceiling.                   *)
(*                                                                         *)
(* Messages: the reply a client gets is its own (AnswersStayIntact).  A    *)
(* loop that reads a message is a function of how many passes it has made; *)
(* two bodies that are alike in the cells it looks at, its trail, give it  *)
(* the same names, questions and records.  What the program does to an     *)
(* answer, the spelling, the ageing, the cutting, leaves the trails alike. *)
(* Intact says, stage by stage, what there is to be read.                  *)
(***************************************************************************)
EXTENDS Access, UpstreamPool, Messages, FiniteSetTheorems, SequenceTheorems,
        WellFoundedInduction, TLAPS

\* What the files, the running process and the record of issued secrets have
\* to do with each other.
TokenType ==
    /\ file \in [secret : Secrets \cup {None}, issued_for : Passwords \cup {NoPassword}]
    /\ value \in Secrets \cup {None}
    /\ password \in Passwords \cup {NoPassword}
    /\ issued \in [Secrets -> Passwords \cup {NoPassword}]
    /\ retired \subseteq Secrets
    /\ phase \in {"down", "load", "write", "up"}
    /\ phase \in {"load", "write"} => password # NoPassword

\* A token file names the password its secret was issued for, or none when the
\* write was cut short; a revoked secret is in no file and not in memory.
TokenInv ==
    /\ TokenType
    /\ file.issued_for # NoPassword => file.secret # None /\ issued[file.secret] = file.issued_for
    /\ \A s \in retired : issued[s] # NoPassword
    /\ file.secret \notin retired
    /\ value \in {None, file.secret}
    /\ phase \in {"load", "write"} => value = None
    /\ phase = "down" => value = None

\* Dashboard.start begins with no token file and no secret issued.
LEMMA TokenInit == Init => TokenInv
  BY AccessAssumption DEF Init, TokenInv, TokenType, NoFile

\* No request, crash or restart breaks the relation between token file,
\* process and issued secrets.
LEMMA TokenStep == TokenInv /\ [Next]_vars => TokenInv'
<1> SUFFICES ASSUME TokenInv, [Next]_vars PROVE TokenInv'
  OBVIOUS
<1> USE AccessAssumption DEF TokenInv, TokenType
<1>1. CASE UNCHANGED vars
  BY <1>1 DEF vars, process
<1>2. ASSUME NEW t \in Threads, Serve(t) PROVE TokenInv'
  <2>1. UNCHANGED process
    BY <1>2 DEF Serve, BeginLogOut, Begin, CheckLimit, LetIn, TurnAway, LogIn, LogOut
  <2> QED BY <2>1 DEF process
<1>3. ASSUME NEW p \in Passwords \cup {NoPassword}, Start(p) PROVE TokenInv'
  BY <1>3 DEF Start
<1>4. CASE Load
  <2>1. CASE file.secret # None /\ file.issued_for = password
    BY <1>4, <2>1 DEF Load, ComesUp
  <2>2. CASE ~(file.secret # None /\ file.issued_for = password)
    BY <1>4, <2>2 DEF Load, NoFile
  <2> QED BY <2>1, <2>2
<1>5. ASSUME NEW s \in Secrets, Write(s) PROVE TokenInv'
  BY <1>5 DEF Write, ComesUp
<1>6. ASSUME NEW s \in Secrets, WriteTorn(s) PROVE TokenInv'
  BY <1>6 DEF WriteTorn
<1>7. CASE Die
  BY <1>7 DEF Die
<1>8. CASE Tick
  BY <1>8 DEF Tick, process
<1> QED
  BY <1>1, <1>2, <1>3, <1>4, <1>5, <1>6, <1>7, <1>8 DEF Next

\* A secret that a changed password has revoked never works again, for any
\* passwords, in any order, through any crash of load_or_create().
THEOREM RevokedTokenIsDead == Spec => []RetiredStaysDead
<1>1. TokenInv => RetiredStaysDead
  BY AccessAssumption DEF TokenInv, TokenType, RetiredStaysDead
<1> QED BY <1>1, TokenInit, TokenStep, PTL DEF Spec

\* Requests of a client that have passed locked_out() and not yet failed.
Checked(c) == {t \in Threads : req[t] = [pc |-> "verify", client |-> c]}

LimiterType ==
    /\ failures \in [Clients -> Seq(Nat)]
    /\ locked \in [Clients -> Nat \cup {Free}]
    /\ req \in [Threads -> Request \cup {Idle}]

\* A client that used up its attempts is locked out, and those checked already
\* and still to be counted are part of the bound.
GuessInv ==
    /\ LimiterType
    /\ \A c \in Clients \ evicted : Len(failures[c]) >= Limit => locked[c] # Free
    /\ \A c \in Clients \ evicted :
          Len(failures[c]) + Cardinality(Checked(c)) <= Limit + Cardinality(Threads) - 1

\* What the window leaves of the failures is no longer than what there was.
LEMMA RecentType ==
    ASSUME NEW ages \in Seq(Nat)
    PROVE  Recent(ages) \in Seq(Nat) /\ Len(Recent(ages)) <= Len(ages)
<1> DEFINE S == {i \in DOMAIN ages : ages[i] >= Window}
<1>1. IsFiniteSet(1..Len(ages))
  BY FS_Interval
<1>2. S \subseteq 1..Len(ages)
  OBVIOUS
<1>3. Cardinality(S) \in Nat
  BY <1>1, <1>2, FS_Subset, FS_CardinalityType
<1> HIDE DEF S
<1>4. Recent(ages) = SubSeq(ages, 1 + Cardinality(S), Len(ages))
  BY DEF Recent, S
<1> DEFINE m == 1 + Cardinality(S)
<1>5. m \in Nat /\ m >= 1 /\ Len(ages) \in Nat
  BY <1>3
<1> HIDE DEF m
<1>6. SubSeq(ages, m, Len(ages)) \in Seq(Nat) /\ Len(SubSeq(ages, m, Len(ages))) <= Len(ages)
  <2>1. \A i \in m..Len(ages) : ages[i] \in Nat
    BY <1>5
  <2> QED BY <1>5, <2>1, SubSeqProperties
<1> QED BY <1>4, <1>6 DEF m

\* The requests under way are a subset of the threads, so they can be counted.
LEMMA CheckedFinite ==
    ASSUME NEW c \in Clients
    PROVE  /\ Cardinality(Checked(c)) \in Nat
           /\ Cardinality(Checked(c)) <= Cardinality(Threads)
           /\ Cardinality(Threads) \in Nat
           /\ IsFiniteSet(Checked(c))
  BY AccessAssumption, FS_Subset, FS_CardinalityType DEF Checked

\* The same, after a step.
LEMMA CheckedFiniteNext ==
    ASSUME NEW c \in Clients
    PROVE  /\ Cardinality(Checked(c)') \in Nat
           /\ Cardinality(Checked(c)') <= Cardinality(Threads)
  BY AccessAssumption, FS_Subset, FS_CardinalityType DEF Checked

\* _prune() leaves a client as it was, or without failures, or without a
\* lockout for want of space.
LEMMA PruneKeeps ==
    ASSUME NEW f \in [Clients -> Seq(Nat)], NEW l \in [Clients -> Nat \cup {Free}], Prune(f, l)
    PROVE  /\ failures' \in [Clients -> Seq(Nat)]
           /\ locked' \in [Clients -> Nat \cup {Free}]
           /\ \A c \in Clients \ evicted' :
                 \/ failures'[c] = <<>>
                 \/ c \notin evicted /\ failures'[c] = f[c] /\ locked'[c] = l[c]
<1>1. CASE ~Due(f, l)
  BY <1>1 DEF Prune
<1>2. CASE Due(f, l)
  <2> DEFINE over == {c \in Clients : l[c] = 0}
             live == Released(l, over)
             kept == Cleared(f, over)
             left == Cleared(kept, {c \in Failing(kept) : Latest(kept[c]) >= Window})
  <2>1. PICK D, E : /\ locked' = Released(live, D)
                    /\ failures' = Cleared(left, E)
                    /\ evicted' = {c \in evicted \cup D : failures'[c] # <<>>}
    BY <1>2 DEF Prune
  <2>2. /\ left \in [Clients -> Seq(Nat)] /\ live \in [Clients -> Nat \cup {Free}]
        /\ \A c \in Clients : left[c] = <<>> \/ (left[c] = f[c] /\ live[c] = l[c])
    <3>1. <<>> \in Seq(Nat) /\ Free \in Nat \cup {Free}
      BY DEF Free
    <3>2. kept \in [Clients -> Seq(Nat)] /\ live \in [Clients -> Nat \cup {Free}]
      BY <3>1 DEF Released, Cleared
    <3>3. left \in [Clients -> Seq(Nat)]
      BY <3>1, <3>2 DEF Cleared
    <3> QED BY <3>2, <3>3 DEF Released, Cleared
  <2> HIDE DEF over, live, kept, left
  <2>3. failures' \in [Clients -> Seq(Nat)] /\ locked' \in [Clients -> Nat \cup {Free}]
    <3>1. <<>> \in Seq(Nat) /\ Free \in Nat \cup {Free}
      BY DEF Free
    <3> QED BY <2>1, <2>2, <3>1 DEF Released, Cleared
  <2>4. ASSUME NEW c \in Clients, c \notin evicted', failures'[c] # <<>>
        PROVE  c \notin evicted /\ failures'[c] = f[c] /\ locked'[c] = l[c]
    <3>1. c \notin evicted /\ c \notin D
      BY <2>1, <2>4
    <3>2. failures'[c] = left[c] /\ locked'[c] = live[c]
      BY <2>1, <2>4, <3>1 DEF Released, Cleared
    <3> QED BY <2>2, <2>4, <3>1, <3>2
  <2> QED BY <2>3, <2>4
<1> QED BY <1>1, <1>2

\* The three ways in which a step keeps to the bound for a client: it leaves
\* few failures, adds none and checks no new request, or turns a checked
\* request into one failure, with the lockout that goes with it.
FewLeft(c) == Len(failures'[c]) < Limit

NoneAdded(c) ==
    /\ c \notin evicted /\ Len(failures'[c]) <= Len(failures[c])
    /\ Len(failures'[c]) >= Limit => locked'[c] # Free
    /\ Checked(c)' \subseteq Checked(c)

OneCounted(c) ==
    /\ c \notin evicted /\ Len(failures'[c]) <= Len(failures[c]) + 1
    /\ Len(failures'[c]) >= Limit => locked'[c] # Free
    /\ \E t \in Checked(c) : Checked(c)' \subseteq Checked(c) \ {t}

\* In each of them the bound of the limiter holds for the client afterwards.
LEMMA GuessKept ==
    ASSUME GuessInv, LimiterType', NEW c \in Clients, c \notin evicted',
           FewLeft(c) \/ NoneAdded(c) \/ OneCounted(c)
    PROVE  /\ Len(failures'[c]) >= Limit => locked'[c] # Free
           /\ Len(failures'[c]) + Cardinality(Checked(c)') <= Limit + Cardinality(Threads) - 1
<1>1. Len(failures[c]) \in Nat /\ Len(failures'[c]) \in Nat /\ Limit \in Nat
  BY AccessAssumption DEF GuessInv, LimiterType
<1>2. /\ Cardinality(Checked(c)) \in Nat /\ Cardinality(Checked(c)') \in Nat
      /\ Cardinality(Checked(c)') <= Cardinality(Threads)
      /\ Cardinality(Threads) \in Nat /\ IsFiniteSet(Checked(c))
  BY CheckedFinite, CheckedFiniteNext
<1>3. CASE FewLeft(c)
  BY <1>1, <1>2, <1>3 DEF FewLeft
<1>4. CASE NoneAdded(c)
  <2>1. Cardinality(Checked(c)') <= Cardinality(Checked(c))
    BY <1>2, <1>4, FS_Subset DEF NoneAdded
  <2>2. Len(failures[c]) + Cardinality(Checked(c)) <= Limit + Cardinality(Threads) - 1
    BY <1>4 DEF GuessInv, NoneAdded
  <2> QED BY <1>1, <1>2, <1>4, <2>1, <2>2 DEF NoneAdded
<1>5. CASE OneCounted(c)
  <2>1. PICK t \in Checked(c) : Checked(c)' \subseteq Checked(c) \ {t}
    BY <1>5 DEF OneCounted
  <2>2. /\ IsFiniteSet(Checked(c) \ {t})
        /\ Cardinality(Checked(c) \ {t}) = Cardinality(Checked(c)) - 1
    BY <1>2, FS_RemoveElement
  <2>3. Cardinality(Checked(c)') <= Cardinality(Checked(c)) - 1
    BY <2>1, <2>2, FS_Subset
  <2>4. Len(failures[c]) + Cardinality(Checked(c)) <= Limit + Cardinality(Threads) - 1
    BY <1>5 DEF GuessInv, OneCounted
  <2> QED BY <1>1, <1>2, <1>5, <2>3, <2>4 DEF OneCounted
<1> QED BY <1>3, <1>4, <1>5

\* It is enough to show one of the three for every client.
LEMMA GuessCombine ==
    ASSUME GuessInv, LimiterType',
           \A c \in Clients \ evicted' : FewLeft(c) \/ NoneAdded(c) \/ OneCounted(c)
    PROVE  GuessInv'
<1>1. ASSUME NEW c \in Clients \ evicted'
      PROVE  /\ Len(failures'[c]) >= Limit => locked'[c] # Free
             /\ Len(failures'[c]) + Cardinality(Checked(c)') <= Limit + Cardinality(Threads) - 1
  BY <1>1, GuessKept
<1> QED BY <1>1 DEF GuessInv

\* At the start nobody has failed and no request is under way.
LEMMA GuessInit == Init => GuessInv
<1> SUFFICES ASSUME Init PROVE GuessInv
  OBVIOUS
<1>1. LimiterType
  BY DEF Init, LimiterType, Free
<1>2. \A c \in Clients : Len(failures[c]) = 0
  BY DEF Init
<1>3. \A c \in Clients : /\ Cardinality(Checked(c)) \in Nat
                         /\ Cardinality(Checked(c)) <= Cardinality(Threads)
                         /\ Cardinality(Threads) \in Nat
  BY CheckedFinite
<1> QED BY <1>1, <1>2, <1>3, AccessAssumption DEF GuessInv

\* A thread that goes on to anything but the check of a credential is no
\* longer among the checked ones, and no other thread joins them.
LEMMA LeavesChecked ==
    ASSUME req \in [Threads -> Request \cup {Idle}], NEW t \in Threads,
           NEW r \in Request \cup {Idle}, r.pc # "verify", Becomes(t, r), NEW c \in Clients
    PROVE  /\ req' \in [Threads -> Request \cup {Idle}]
           /\ Checked(c)' \subseteq Checked(c) \ {t}
<1>1. req' \in [Threads -> Request \cup {Idle}] /\ req'[t] = r
  BY DEF Becomes
<1>2. \A u \in Threads : u # t => req'[u] = req[u]
  BY DEF Becomes
<1>3. r # [pc |-> "verify", client |-> c]
  OBVIOUS
<1> QED BY <1>1, <1>2, <1>3 DEF Checked

\* What a thread can go on to is a request.
LEMMA RequestTypes ==
    /\ Idle \in Request \cup {Idle} /\ Idle.pc = "idle"
    /\ \A c \in Clients : /\ [pc |-> "limit", client |-> c] \in Request
                          /\ [pc |-> "verify", client |-> c] \in Request
    /\ [pc |-> "create"] \in Request
    /\ \A k \in Tokens : [pc |-> "revoke", cookie |-> k] \in Request
  BY DEF Idle, Request

\* A request before or in the check of its credential has a client.
LEMMA RequestClient ==
    ASSUME req \in [Threads -> Request \cup {Idle}], NEW t \in Threads,
           req[t].pc \in {"limit", "verify"}
    PROVE  /\ req[t].client \in Clients
           /\ req[t].pc = "verify" => t \in Checked(req[t].client)
<1>1. req[t] # Idle
  BY DEF Idle
<1>2. req[t] \in [pc : {"limit", "verify"}, client : Clients]
  BY <1>1 DEF Request
<1> QED BY <1>2 DEF Checked

\* A step that leaves the limiter alone and checks no credential.
LEMMA LimiterIdle ==
    ASSUME GuessInv, UNCHANGED <<failures, locked, evicted>>,
           req' \in [Threads -> Request \cup {Idle}],
           \A c \in Clients : Checked(c)' \subseteq Checked(c)
    PROVE  GuessInv'
<1>1. LimiterType'
  BY DEF GuessInv, LimiterType
<1>2. \A c \in Clients \ evicted' : NoneAdded(c)
  BY DEF NoneAdded, GuessInv, LimiterType
<1> QED BY <1>1, <1>2, GuessCombine

\* record_failure() after a wrong credential: the request that was checked
\* becomes one failure.
LEMMA TurnAwayKeeps ==
    ASSUME GuessInv, NEW t \in Threads, NEW credential, NEW login, TurnAway(t, credential, login)
    PROVE  GuessInv'
<1> DEFINE c == req[t].client
<1>1. /\ failures \in [Clients -> Seq(Nat)] /\ locked \in [Clients -> Nat \cup {Free}]
      /\ req \in [Threads -> Request \cup {Idle}]
  BY DEF GuessInv, LimiterType
<1>2. c \in Clients /\ t \in Checked(c)
  BY <1>1, RequestClient DEF TurnAway
<1>3. req' \in [Threads -> Request \cup {Idle}] /\ \A x \in Clients : Checked(x)' \subseteq Checked(x) \ {t}
  BY <1>1, <1>2, LeavesChecked, RequestTypes DEF TurnAway
<1> HIDE DEF c
<1>4. CASE credential = None
  <2>1. UNCHANGED <<failures, locked, evicted>>
    BY <1>4 DEF TurnAway, limiter
  <2> QED BY <1>3, <2>1, LimiterIdle
<1>5. CASE credential # None
  <2> DEFINE attempts == Append(Recent(failures[c]), 0)
             f == [failures EXCEPT ![c] = attempts]
             l == IF Enough(attempts) THEN [locked EXCEPT ![c] = Lockout] ELSE locked
  <2>1. Prune(f, l)
    BY <1>5 DEF TurnAway, RecordFailure, c
  <2>2. attempts \in Seq(Nat) /\ Len(attempts) <= Len(failures[c]) + 1
    <3>1. Recent(failures[c]) \in Seq(Nat) /\ Len(Recent(failures[c])) <= Len(failures[c])
      BY <1>1, <1>2, RecentType
    <3> QED BY <1>1, <1>2, <3>1
  <2>3. Lockout # Free /\ Lockout \in Nat \cup {Free}
    BY AccessAssumption DEF Free
  <2>4. f \in [Clients -> Seq(Nat)] /\ l \in [Clients -> Nat \cup {Free}]
    <3> HIDE DEF attempts
    <3> QED BY <1>1, <2>2, <2>3
  <2>5. /\ f[c] = attempts /\ (Len(f[c]) >= Limit => l[c] # Free)
        /\ \A x \in Clients : x # c => f[x] = failures[x] /\ l[x] = locked[x]
    BY <1>1, <1>2, <2>3 DEF Enough
  <2> HIDE DEF f, l, attempts
  <2>6. /\ failures' \in [Clients -> Seq(Nat)] /\ locked' \in [Clients -> Nat \cup {Free}]
        /\ \A x \in Clients \ evicted' :
              \/ failures'[x] = <<>>
              \/ x \notin evicted /\ failures'[x] = f[x] /\ locked'[x] = l[x]
    BY <2>1, <2>4, PruneKeeps
  <2>7. LimiterType'
    BY <1>3, <2>6 DEF LimiterType
  <2>8. ASSUME NEW x \in Clients \ evicted' PROVE FewLeft(x) \/ NoneAdded(x) \/ OneCounted(x)
    <3>1. CASE failures'[x] = <<>>
      BY <3>1, AccessAssumption DEF FewLeft
    <3>2. CASE x \notin evicted /\ failures'[x] = f[x] /\ locked'[x] = l[x] /\ x = c
      BY <1>2, <1>3, <2>2, <2>5, <3>2 DEF OneCounted
    <3>3. CASE x \notin evicted /\ failures'[x] = f[x] /\ locked'[x] = l[x] /\ x # c
      <4>1. failures'[x] = failures[x] /\ locked'[x] = locked[x] /\ Len(failures[x]) \in Nat
        BY <1>1, <2>5, <3>3
      <4>2. Len(failures[x]) >= Limit => locked[x] # Free
        BY <3>3 DEF GuessInv
      <4> QED BY <1>3, <3>3, <4>1, <4>2 DEF NoneAdded
    <3> QED BY <2>6, <3>1, <3>2, <3>3
  <2> QED BY <2>7, <2>8, GuessCombine
<1> QED BY <1>4, <1>5

\* locked_out(): the request is refused, or its client has attempts left.
LEMMA CheckLimitKeeps ==
    ASSUME GuessInv, NEW t \in Threads, CheckLimit(t)
    PROVE  GuessInv'
<1> DEFINE c == req[t].client
<1>1. /\ failures \in [Clients -> Seq(Nat)] /\ locked \in [Clients -> Nat \cup {Free}]
      /\ req \in [Threads -> Request \cup {Idle}]
  BY DEF GuessInv, LimiterType
<1>2. c \in Clients
  BY <1>1, RequestClient DEF CheckLimit
<1> HIDE DEF c
<1>3. CASE Refused(c)
  <2>1. UNCHANGED <<failures, locked, evicted>> /\ Becomes(t, Idle)
    BY <1>3 DEF CheckLimit, limiter, c
  <2>2. req' \in [Threads -> Request \cup {Idle}] /\ \A x \in Clients : Checked(x)' \subseteq Checked(x)
    BY <1>1, <1>2, <2>1, LeavesChecked, RequestTypes
  <2> QED BY <2>1, <2>2, LimiterIdle
<1>4. CASE ~Refused(c)
  <2>1. Unlock(c) /\ Becomes(t, [pc |-> "verify", client |-> c])
    BY <1>4 DEF CheckLimit, c
  <2>2. req' = [req EXCEPT ![t] = [pc |-> "verify", client |-> c]]
    BY <2>1 DEF Becomes
  <2>3. [pc |-> "verify", client |-> c] \in Request
    BY <1>2, RequestTypes
  <2>4. req' \in [Threads -> Request \cup {Idle}]
    BY <1>1, <2>2, <2>3
  <2>5. ASSUME NEW x \in Clients, x # c PROVE Checked(x)' \subseteq Checked(x)
    <3>1. [pc |-> "verify", client |-> c] # [pc |-> "verify", client |-> x]
      BY <2>5
    <3> QED BY <1>1, <2>2, <3>1 DEF Checked
  <2>6. /\ failures' \in [Clients -> Seq(Nat)] /\ locked' \in [Clients -> Nat \cup {Free}]
        /\ \A x \in Clients : x # c => /\ failures'[x] = failures[x] /\ locked'[x] = locked[x]
                                       /\ x \notin evicted' => x \notin evicted
    <3>1. <<>> \in Seq(Nat) /\ Free \in Nat \cup {Free}
      BY DEF Free
    <3>2. CASE locked[c] = 0
      BY <1>1, <2>1, <3>1, <3>2 DEF Unlock, Released, Cleared
    <3>3. CASE locked[c] # 0
      BY <1>1, <2>1, <3>3 DEF Unlock
    <3> QED BY <3>2, <3>3
  <2>7. c \notin evicted' => FewLeft(c)
    <3>1. CASE locked[c] = 0
      BY <1>2, <2>1, <3>1, AccessAssumption DEF Unlock, Cleared, FewLeft
    <3>2. CASE locked[c] # 0
      <4>1. UNCHANGED <<failures, evicted>>
        BY <2>1, <3>2 DEF Unlock
      <4>2. ASSUME c \notin evicted, Len(failures[c]) >= Limit PROVE FALSE
        <5>1. CASE locked[c] = Free
          BY <1>2, <4>2, <5>1 DEF GuessInv
        <5>2. CASE locked[c] # Free
          BY <1>1, <1>2, <1>4, <3>2, <5>2 DEF Refused, Free
        <5> QED BY <5>1, <5>2
      <4> QED BY <1>1, <1>2, <4>1, <4>2, AccessAssumption DEF FewLeft
    <3> QED BY <3>1, <3>2
  <2>8. LimiterType'
    BY <2>4, <2>6 DEF LimiterType
  <2>9. ASSUME NEW x \in Clients \ evicted' PROVE FewLeft(x) \/ NoneAdded(x) \/ OneCounted(x)
    <3>1. CASE x = c
      BY <2>7, <3>1
    <3>2. CASE x # c
      <4>1. x \notin evicted /\ failures'[x] = failures[x] /\ locked'[x] = locked[x] /\ Len(failures[x]) \in Nat
        BY <1>1, <2>6, <2>9, <3>2
      <4> QED BY <2>5, <3>2, <4>1 DEF NoneAdded, GuessInv
    <3> QED BY <3>1, <3>2
  <2> QED BY <2>8, <2>9, GuessCombine
<1> QED BY <1>3, <1>4

\* record_success() forgets the failures of the client.
LEMMA LetInKeeps ==
    ASSUME GuessInv, NEW t \in Threads, NEW credential, NEW login, LetIn(t, credential, login)
    PROVE  GuessInv'
<1> DEFINE c == req[t].client
<1>1. /\ failures \in [Clients -> Seq(Nat)] /\ locked \in [Clients -> Nat \cup {Free}]
      /\ req \in [Threads -> Request \cup {Idle}]
  BY DEF GuessInv, LimiterType
<1>2. c \in Clients
  BY <1>1, RequestClient DEF LetIn
<1>3. PICK r \in Request \cup {Idle} : r.pc # "verify" /\ Becomes(t, r)
  BY RequestTypes DEF LetIn
<1>4. req' \in [Threads -> Request \cup {Idle}] /\ \A x \in Clients : Checked(x)' \subseteq Checked(x)
  BY <1>1, <1>2, <1>3, LeavesChecked
<1>5. /\ locked' = Released(locked, {c}) /\ failures' = Cleared(failures, {c})
      /\ evicted' = evicted \ {c}
  BY DEF LetIn, RecordSuccess
<1> HIDE DEF c
<1>6. LimiterType'
  <2>1. <<>> \in Seq(Nat) /\ Free \in Nat \cup {Free}
    OBVIOUS
  <2> QED BY <1>1, <1>4, <1>5, <2>1 DEF LimiterType, Released, Cleared
<1>7. ASSUME NEW x \in Clients \ evicted' PROVE FewLeft(x) \/ NoneAdded(x) \/ OneCounted(x)
  <2>1. CASE x = c
    BY <1>5, <2>1, AccessAssumption DEF FewLeft, Cleared
  <2>2. CASE x # c
    <3>1. x \notin evicted /\ failures'[x] = failures[x] /\ locked'[x] = locked[x] /\ Len(failures[x]) \in Nat
      BY <1>1, <1>5, <1>7, <2>2 DEF Released, Cleared
    <3> QED BY <1>4, <3>1 DEF NoneAdded, GuessInv
  <2> QED BY <2>1, <2>2
<1> QED BY <1>6, <1>7, GuessCombine

\* The passing of time makes failures older and lockouts shorter, no more.
LEMMA TickKeeps == ASSUME GuessInv, Tick PROVE GuessInv'
<1>1. /\ failures \in [Clients -> Seq(Nat)] /\ locked \in [Clients -> Nat \cup {Free}]
      /\ req \in [Threads -> Request \cup {Idle}] /\ Window \in Nat
  BY AccessAssumption DEF GuessInv, LimiterType
<1>2. ASSUME NEW ages \in Seq(Nat) PROVE Older(ages) \in Seq(Nat) /\ Len(Older(ages)) = Len(ages)
  BY <1>1 DEF Older
<1>3. ASSUME NEW n \in Nat \cup {Free}
      PROVE  Less(n) \in Nat \cup {Free} /\ (n # Free => Less(n) # Free)
  BY DEF Less, Free
<1>4. /\ failures' = [c \in Clients |-> Older(failures[c])]
      /\ locked' = [c \in Clients |-> Less(locked[c])]
      /\ req' = req /\ evicted' = evicted
  BY DEF Tick
<1>5. LimiterType'
  BY <1>1, <1>2, <1>3, <1>4 DEF LimiterType
<1>6. ASSUME NEW c \in Clients \ evicted' PROVE NoneAdded(c)
  <2>1. c \notin evicted /\ Len(failures'[c]) = Len(failures[c]) /\ Len(failures[c]) \in Nat
    BY <1>1, <1>2, <1>4, <1>6
  <2>2. locked[c] # Free => locked'[c] # Free
    BY <1>1, <1>3, <1>4, <1>6
  <2>3. Checked(c)' \subseteq Checked(c)
    BY <1>4 DEF Checked
  <2> QED BY <2>1, <2>2, <2>3 DEF NoneAdded, GuessInv
<1> QED BY <1>5, <1>6, GuessCombine

\* No step of a request, of the process or of time breaks the bound.
LEMMA GuessStep == GuessInv /\ [Next]_vars => GuessInv'
<1> SUFFICES ASSUME GuessInv, [Next]_vars PROVE GuessInv'
  OBVIOUS
<1>0. req \in [Threads -> Request \cup {Idle}]
  BY DEF GuessInv, LimiterType
<1>1. ASSUME UNCHANGED limiter, req' = req PROVE GuessInv'
  <2>1. \A c \in Clients : Checked(c)' \subseteq Checked(c)
    BY <1>1 DEF Checked
  <2> QED BY <1>0, <1>1, <2>1, LimiterIdle DEF limiter
<1>2. ASSUME NEW t \in Threads, NEW r \in Request \cup {Idle}, r.pc # "verify", Becomes(t, r),
             UNCHANGED limiter
      PROVE  GuessInv'
  <2>1. \A c \in Clients : req' \in [Threads -> Request \cup {Idle}] /\ Checked(c)' \subseteq Checked(c)
    BY <1>0, <1>2, LeavesChecked
  <2>2. req' \in [Threads -> Request \cup {Idle}]
    BY <1>0, <1>2 DEF Becomes
  <2> QED BY <1>2, <2>1, <2>2, LimiterIdle DEF limiter
<1>3. ASSUME NEW t \in Threads, Serve(t) PROVE GuessInv'
  <2>1. ASSUME NEW k \in Tokens, BeginLogOut(t, k) PROVE GuessInv'
    BY <1>2, <2>1, RequestTypes DEF BeginLogOut
  <2>2. ASSUME NEW c \in Clients, Begin(t, c) PROVE GuessInv'
    BY <1>2, <2>2, RequestTypes DEF Begin
  <2>3. ASSUME NEW k \in Tokens, LogIn(t, k) PROVE GuessInv'
    BY <1>2, <2>3, RequestTypes DEF LogIn
  <2>4. CASE LogOut(t)
    BY <1>2, <2>4, RequestTypes DEF LogOut
  <2> QED BY <1>3, <2>1, <2>2, <2>3, <2>4, CheckLimitKeeps, LetInKeeps, TurnAwayKeeps DEF Serve
<1>4. CASE Die
  <2>1. /\ failures' = [c \in Clients |-> <<>>] /\ locked' = [c \in Clients |-> Free]
        /\ req' = [t \in Threads |-> Idle]
    BY <1>4 DEF Die
  <2>2. LimiterType'
    BY <2>1 DEF LimiterType
  <2>3. \A c \in Clients : FewLeft(c)
    BY <2>1, AccessAssumption DEF FewLeft
  <2> QED BY <2>2, <2>3, GuessCombine
<1>5. CASE Tick
  BY <1>5, TickKeeps
<1>6. ASSUME NEW p, Start(p) PROVE GuessInv'
  BY <1>1, <1>6 DEF Start
<1>7. CASE Load
  BY <1>1, <1>7 DEF Load
<1>8. ASSUME NEW s, Write(s) \/ WriteTorn(s) PROVE GuessInv'
  BY <1>1, <1>8 DEF Write, WriteTorn
<1>9. CASE UNCHANGED vars
  BY <1>1, <1>9 DEF vars
<1> QED
  BY <1>3, <1>4, <1>5, <1>6, <1>7, <1>8, <1>9 DEF Next

\* Every state is one of those.
LEMMA GuessAlways == Spec => []GuessInv
<1> QED
  BY GuessInit, GuessStep, PTL DEF Spec

\* However many clients guess through however many threads, a client gets at
\* most the limit and one guess per other thread before it is locked out.
THEOREM GuessingIsBounded == Spec => []GuessesBounded
<1>1. GuessInv => GuessesBounded
  <2> SUFFICES ASSUME GuessInv, NEW c \in Clients \ evicted
               PROVE  Len(failures[c]) <= Limit + Cardinality(Threads) - 1
    BY DEF GuessesBounded
  <2>1. Len(failures[c]) \in Nat /\ Limit \in Nat
    BY AccessAssumption DEF GuessInv, LimiterType
  <2> QED BY <2>1, CheckedFinite DEF GuessInv
<1> QED BY <1>1, GuessAlways, PTL
\* Clients can be counted, and so can any of them.
LEMMA ClientsCounted ==
    ASSUME NEW S \in SUBSET Clients
    PROVE  /\ IsFiniteSet(S) /\ Cardinality(S) \in Nat
           /\ \A T \in SUBSET S : Cardinality(T) \in Nat /\ Cardinality(T) <= Cardinality(S)
                                  /\ Cardinality(S \ T) = Cardinality(S) - Cardinality(T)
<1>1. IsFiniteSet(S)
  BY AccessAssumption, FS_Subset
<1>2. ASSUME NEW T \in SUBSET S
      PROVE  Cardinality(T) \in Nat /\ Cardinality(T) <= Cardinality(S)
             /\ Cardinality(S \ T) = Cardinality(S) - Cardinality(T)
  <2>1. IsFiniteSet(T) /\ Cardinality(T) \in Nat /\ Cardinality(T) <= Cardinality(S)
    BY <1>1, FS_Subset, FS_CardinalityType
  <2>2. Cardinality(S \ T) = Cardinality(S) - Cardinality(S \cap T) /\ S \cap T = T
    BY <1>1, FS_Difference
  <2> QED
    BY <2>1, <2>2
<1> QED
  BY <1>1, <1>2, FS_CardinalityType

\* What is left without a surplus fits the table.
LEMMA SurplusLeaves ==
    ASSUME NEW S \in SUBSET Clients, NEW rank, NEW D \in Surplus(S, rank)
    PROVE  Cardinality(S \ D) <= MaxTracked
<1>1. MaxTracked \in Nat /\ (MaxTracked * 7) \div 8 <= MaxTracked /\ (MaxTracked * 7) \div 8 \in Nat
  BY AccessAssumption
<1>2. CASE Cardinality(S) <= MaxTracked
  <2>1. D = {}
    BY <1>2 DEF Surplus
  <2>2. S \ D = S
    BY <2>1
  <2> QED
    BY <1>2, <2>2
<1>3. CASE ~(Cardinality(S) <= MaxTracked)
  <2>1. D \in SUBSET S /\ Cardinality(D) = Cardinality(S) - (MaxTracked * 7) \div 8
    BY <1>3 DEF Surplus
  <2>2. Cardinality(S) \in Nat /\ Cardinality(S \ D) = Cardinality(S) - Cardinality(D)
    BY <2>1, ClientsCounted
  <2> QED
    BY <1>1, <2>1, <2>2
<1> QED
  BY <1>2, <1>3

\* _prune() leaves tables that fit, whatever was put into them.
LEMMA PruneFits ==
    ASSUME NEW f \in [Clients -> Seq(Nat)], NEW l \in [Clients -> Nat \cup {Free}], Prune(f, l)
    PROVE  /\ Cardinality(LockedIn(locked')) <= MaxTracked
           /\ Cardinality(Failing(failures')) <= MaxTracked
<1>0. MaxTracked \in Nat
  BY AccessAssumption
<1>1. CASE ~Due(f, l)
  <2>1. Cardinality(LockedIn(l)) \in Nat /\ Cardinality(Failing(f)) \in Nat
    <3>1. LockedIn(l) \in SUBSET Clients /\ Failing(f) \in SUBSET Clients
      BY DEF LockedIn, Failing
    <3> QED
      BY <3>1, ClientsCounted
  <2>2. failures' = f /\ locked' = l
    BY <1>1 DEF Prune
  <2> QED
    BY <1>0, <1>1, <2>1, <2>2 DEF Due
<1>2. CASE Due(f, l)
  <2> DEFINE over == {c \in Clients : l[c] = 0}
             live == Released(l, over)
             kept == Cleared(f, over)
             left == Cleared(kept, {c \in Failing(kept) : Latest(kept[c]) >= Window})
             rank == [c \in Failing(left) |-> -Latest(left[c])]
  <2>1. PICK D \in Surplus(LockedIn(live), live), E \in Surplus(Failing(left), rank) :
             locked' = Released(live, D) /\ failures' = Cleared(left, E)
    BY <1>2 DEF Prune
  <2> HIDE DEF live, left, rank
  <2>2. LockedIn(live) \in SUBSET Clients /\ Failing(left) \in SUBSET Clients
    BY DEF LockedIn, Failing
  <2>3. LockedIn(locked') = LockedIn(live) \ D
    BY <2>1 DEF LockedIn, Released
  <2>4. Failing(failures') = Failing(left) \ E
    BY <2>1 DEF Failing, Cleared
  <2>5. Cardinality(LockedIn(live) \ D) <= MaxTracked /\ Cardinality(Failing(left) \ E) <= MaxTracked
    BY <2>2, SurplusLeaves
  <2> QED
    BY <2>3, <2>4, <2>5
<1> QED
  BY <1>1, <1>2

\* The two tables of the limiter, and the sessions.
LimiterFits == Cardinality(LockedIn(locked)) <= MaxTracked /\ Cardinality(Failing(failures)) <= MaxTracked
Open == {k \in Tokens : Live(k)}
StoreFits == sessions \in [Tokens -> Nat] /\ Cardinality(Open) <= MaxSessions

\* A table from which clients are only taken fits as before.
LEMMA LimiterShrinks ==
    ASSUME LimiterFits, LockedIn(locked') \subseteq LockedIn(locked), Failing(failures') \subseteq Failing(failures)
    PROVE  LimiterFits'
<1>1. LockedIn(locked) \in SUBSET Clients /\ Failing(failures) \in SUBSET Clients
  BY DEF LockedIn, Failing
<1>2. /\ Cardinality(LockedIn(locked)) \in Nat /\ Cardinality(Failing(failures)) \in Nat
      /\ Cardinality(LockedIn(locked')) \in Nat /\ Cardinality(Failing(failures')) \in Nat
      /\ Cardinality(LockedIn(locked')) <= Cardinality(LockedIn(locked))
      /\ Cardinality(Failing(failures')) <= Cardinality(Failing(failures))
  BY <1>1, ClientsCounted
<1>3. MaxTracked \in Nat
  BY AccessAssumption
<1> QED
  BY <1>2, <1>3 DEF LimiterFits

\* Of the limiter's methods only record_failure() adds to a table, and prunes.
LEMMA LimiterStep ==
    ASSUME LimiterType, LimiterFits, [Next]_vars
    PROVE  LimiterFits'
<1>0. /\ failures \in [Clients -> Seq(Nat)] /\ locked \in [Clients -> Nat \cup {Free}]
      /\ req \in [Threads -> Request \cup {Idle}]
  BY DEF LimiterType
<1>1. CASE UNCHANGED <<failures, locked>>
  BY <1>1 DEF LimiterFits, LockedIn, Failing
<1>2. ASSUME NEW c, locked' = Released(locked, {c}), failures' = Cleared(failures, {c})
      PROVE  LimiterFits'
  BY <1>2, LimiterShrinks DEF LockedIn, Released, Failing, Cleared
<1>3. ASSUME NEW t \in Threads, CheckLimit(t) PROVE LimiterFits'
  BY <1>1, <1>2, <1>3 DEF CheckLimit, Unlock, limiter
<1>4. ASSUME NEW t \in Threads, NEW credential, NEW login, LetIn(t, credential, login)
      PROVE  LimiterFits'
  BY <1>2, <1>4 DEF LetIn, RecordSuccess
<1>5. ASSUME NEW t \in Threads, NEW credential, NEW login, TurnAway(t, credential, login)
      PROVE  LimiterFits'
  <2> DEFINE c == req[t].client
             attempts == Append(Recent(failures[c]), 0)
             f == [failures EXCEPT ![c] = attempts]
             l == IF Enough(attempts) THEN [locked EXCEPT ![c] = Lockout] ELSE locked
  <2>1. CASE credential = None
    BY <1>1, <1>5, <2>1 DEF TurnAway, limiter
  <2>2. CASE credential # None
    <3>1. Prune(f, l)
      BY <1>5, <2>2 DEF TurnAway, RecordFailure
    <3>2. c \in Clients
      BY <1>0, <1>5, RequestClient DEF TurnAway
    <3>3. attempts \in Seq(Nat)
      <4>1. Recent(failures[c]) \in Seq(Nat)
        BY <1>0, <3>2, RecentType
      <4> QED
        BY <4>1
    <3> HIDE DEF c, attempts
    <3>4. f \in [Clients -> Seq(Nat)]
      BY <1>0, <3>3
    <3>5. l \in [Clients -> Nat \cup {Free}]
      BY <1>0, AccessAssumption
    <3> HIDE DEF f, l
    <3> QED
      BY <3>1, <3>4, <3>5, PruneFits DEF LimiterFits
  <2> QED
    BY <2>1, <2>2
<1>6. CASE Die
  <2>1. LockedIn(locked') = {} /\ Failing(failures') = {}
    BY <1>6 DEF Die, LockedIn, Failing
  <2> QED
    BY <2>1, LimiterShrinks
<1>7. CASE Tick
  <2>1. \A c \in Clients : locked'[c] = Less(locked[c]) /\ failures'[c] = Older(failures[c])
    BY <1>7 DEF Tick
  <2>2. \A c \in Clients : Less(locked[c]) # Free => locked[c] # Free
    BY <1>0 DEF Less, Free
  <2>3. \A c \in Clients : Older(failures[c]) # <<>> => failures[c] # <<>>
    <3>1. Older(<<>>) = <<>>
      BY DEF Older
    <3> QED
      BY <3>1
  <2>4. LockedIn(locked') \subseteq LockedIn(locked) /\ Failing(failures') \subseteq Failing(failures)
    BY <2>1, <2>2, <2>3 DEF LockedIn, Failing
  <2> QED
    BY <2>4, LimiterShrinks
<1>8. ASSUME NEW t \in Threads, Serve(t) PROVE LimiterFits'
  <2>1. CASE \/ \E k \in Tokens : BeginLogOut(t, k) \/ LogIn(t, k)
             \/ \E c \in Clients : Begin(t, c)
             \/ LogOut(t)
    BY <1>1, <2>1 DEF BeginLogOut, Begin, LogIn, LogOut, limiter
  <2> QED
    BY <1>3, <1>4, <1>5, <1>8, <2>1 DEF Serve
<1>9. CASE \/ \E p \in Passwords \cup {NoPassword} : Start(p)
           \/ Load \/ \E s \in Secrets : Write(s) \/ WriteTorn(s)
           \/ UNCHANGED vars
  BY <1>1, <1>9 DEF Start, Load, Write, WriteTorn, vars, limiter
<1> QED
  BY <1>6, <1>7, <1>8, <1>9 DEF Next

\* create() makes room first.
LEMMA StoreStep ==
    ASSUME StoreFits, [Next]_vars
    PROVE  StoreFits'
<1>0. /\ sessions \in [Tokens -> Nat] /\ IsFiniteSet(Open) /\ Cardinality(Open) \in Nat
      /\ Cardinality(Open) <= MaxSessions /\ MaxSessions \in Nat /\ Lifetime \in Nat \ {0}
  BY AccessAssumption, FS_Subset, FS_CardinalityType DEF StoreFits, Open
<1>1. ASSUME sessions' \in [Tokens -> Nat], Open' \subseteq Open PROVE StoreFits'
  <2>1. Cardinality(Open') \in Nat /\ Cardinality(Open') <= Cardinality(Open)
    BY <1>0, <1>1, FS_Subset, FS_CardinalityType
  <2> QED
    BY <1>0, <1>1, <2>1 DEF StoreFits
<1>2. CASE UNCHANGED sessions
  BY <1>0, <1>1, <1>2 DEF Open, Live
<1>3. ASSUME NEW k \in Tokens, Create(k) PROVE StoreFits'
  <2>1. CASE ~Full
    <3>1. sessions' = [sessions EXCEPT ![k] = Lifetime]
      BY <1>3, <2>1 DEF Create
    <3>2. sessions' \in [Tokens -> Nat] /\ Open' \subseteq Open \cup {k}
      BY <1>0, <3>1 DEF Open, Live
    <3>3. Cardinality(Open) < MaxSessions
      BY <1>0, <2>1 DEF Full, Open
    <3>4. IsFiniteSet(Open \cup {k}) /\ Cardinality(Open \cup {k}) <= Cardinality(Open) + 1
          /\ Cardinality(Open \cup {k}) \in Nat
      <4>1. /\ IsFiniteSet(Open \cup {k})
            /\ Cardinality(Open \cup {k}) = (IF k \in Open THEN Cardinality(Open) ELSE Cardinality(Open) + 1)
        BY <1>0, FS_AddElement
      <4> QED
        BY <1>0, <4>1, FS_CardinalityType
    <3>5. Cardinality(Open') <= Cardinality(Open \cup {k}) /\ Cardinality(Open') \in Nat
      BY <3>2, <3>4, FS_Subset, FS_CardinalityType
    <3> QED
      BY <1>0, <3>2, <3>3, <3>4, <3>5 DEF StoreFits
  <2>2. CASE Full
    <3>1. PICK o \in Open : sessions' = [sessions EXCEPT ![o] = 0, ![k] = Lifetime]
      BY <1>3, <2>2 DEF Create, Open
    <3>2. o \in Tokens
      BY DEF Open
    <3>3. sessions' \in [Tokens -> Nat] /\ Open' \subseteq (Open \ {o}) \cup {k}
      BY <1>0, <3>1, <3>2 DEF Open, Live
    <3>4. IsFiniteSet(Open \ {o}) /\ Cardinality(Open \ {o}) = Cardinality(Open) - 1
      BY <1>0, FS_RemoveElement
    <3>5. IsFiniteSet((Open \ {o}) \cup {k}) /\ Cardinality((Open \ {o}) \cup {k}) <= Cardinality(Open)
          /\ Cardinality((Open \ {o}) \cup {k}) \in Nat
      <4> DEFINE T == Open \ {o}
      <4>1. IsFiniteSet(T) /\ Cardinality(T) = Cardinality(Open) - 1
        BY <3>4
      <4> HIDE DEF T
      <4>2. /\ IsFiniteSet(T \cup {k})
            /\ Cardinality(T \cup {k}) = (IF k \in T THEN Cardinality(T) ELSE Cardinality(T) + 1)
        BY <4>1, FS_AddElement
      <4>3. Cardinality(T \cup {k}) <= Cardinality(Open) /\ Cardinality(T \cup {k}) \in Nat
        BY <1>0, <4>1, <4>2, FS_CardinalityType
      <4> QED
        BY <4>2, <4>3 DEF T
    <3>6. Cardinality(Open') <= Cardinality((Open \ {o}) \cup {k}) /\ Cardinality(Open') \in Nat
      BY <3>3, <3>5, FS_Subset, FS_CardinalityType
    <3> QED
      BY <1>0, <3>3, <3>5, <3>6 DEF StoreFits
  <2> QED
    BY <2>1, <2>2
<1>4. ASSUME NEW k, Revoke(k) PROVE StoreFits'
  <2>1. sessions' = [sessions EXCEPT ![k] = 0]
    BY <1>4 DEF Revoke
  <2>2. \A x \in Tokens : sessions'[x] = 0 \/ sessions'[x] = sessions[x]
    BY <1>0, <2>1
  <2>3. sessions' \in [Tokens -> Nat]
    BY <1>0, <2>1, <2>2
  <2>4. Open' \subseteq Open
    BY <2>2 DEF Open, Live
  <2> QED
    BY <1>1, <2>3, <2>4
<1>5. CASE Die
  <2>1. sessions' \in [Tokens -> Nat] /\ Open' \subseteq Open
    BY <1>5 DEF Die, Open, Live
  <2> QED
    BY <1>1, <2>1
<1>6. CASE Tick
  <2>1. sessions' = [k \in Tokens |-> Less(sessions[k])]
    BY <1>6 DEF Tick
  <2>2. \A k \in Tokens : Less(sessions[k]) \in Nat /\ (Less(sessions[k]) > 0 => sessions[k] > 0)
    BY <1>0 DEF Less
  <2>3. sessions' \in [Tokens -> Nat] /\ Open' \subseteq Open
    BY <2>1, <2>2 DEF Open, Live
  <2> QED
    BY <1>1, <2>3
<1>7. ASSUME NEW t \in Threads, Serve(t) PROVE StoreFits'
  <2>1. CASE \E k \in Tokens : LogIn(t, k)
    BY <1>3, <2>1 DEF LogIn
  <2>2. CASE LogOut(t)
    BY <1>4, <2>2 DEF LogOut
  <2>3. CASE CheckLimit(t) \/ (\E k \in Tokens : BeginLogOut(t, k)) \/ (\E c \in Clients : Begin(t, c))
             \/ \E credential \in Credentials, login \in BOOLEAN :
                   LetIn(t, credential, login) \/ TurnAway(t, credential, login)
    BY <1>2, <2>3 DEF CheckLimit, BeginLogOut, Begin, LetIn, TurnAway, store
  <2> QED
    BY <1>7, <2>1, <2>2, <2>3 DEF Serve
<1>8. CASE \/ \E p \in Passwords \cup {NoPassword} : Start(p)
           \/ Load \/ \E s \in Secrets : Write(s) \/ WriteTorn(s)
           \/ UNCHANGED vars
  BY <1>2, <1>8 DEF Start, Load, Write, WriteTorn, vars, store
<1> QED
  BY <1>5, <1>6, <1>7, <1>8 DEF Next

\* No table outgrows its ceiling, however many addresses fail and however many
\* sessions are opened, and not between two sweeps either: _prune() of
\* AttemptLimiter and create() of SessionStore in auth.py.
THEOREM TablesStayBounded == Spec => []TablesBounded
<1>1. Init => LimiterFits /\ StoreFits
  <2>1. SUFFICES ASSUME Init PROVE LimiterFits /\ StoreFits
    OBVIOUS
  <2>2. LockedIn(locked) = {} /\ Failing(failures) = {} /\ Open = {}
    BY <2>1 DEF Init, LockedIn, Failing, Open, Live
  <2>3. sessions \in [Tokens -> Nat]
    BY <2>1 DEF Init
  <2> QED
    BY <2>2, <2>3, FS_EmptySet, AccessAssumption DEF LimiterFits, StoreFits
<1>2. GuessInv /\ LimiterFits /\ StoreFits /\ [Next]_vars => LimiterFits' /\ StoreFits'
  BY LimiterStep, StoreStep DEF GuessInv
<1>3. LimiterFits /\ StoreFits => TablesBounded
  BY DEF LimiterFits, StoreFits, Open, TablesBounded
<1> QED
  BY <1>1, <1>2, <1>3, GuessAlways, PTL DEF Spec

\* How long a lockout can still last: what is left of it, and one lockout more
\* for every request that was checked before it and can still be counted.
LockLeft(c) == locked[c] + Lockout * Cardinality(Checked(c))

\* While a client is locked out no step prolongs that, and time shortens it.
LockoutShortens ==
    [][\A c \in Clients : locked[c] > 0 /\ locked'[c] > 0 =>
            /\ LockLeft(c)' <= LockLeft(c)
            /\ Tick => LockLeft(c)' < LockLeft(c)]_vars

\* It is over at the latest after one lockout, and one more per thread.
LockoutBounded ==
    \A c \in Clients : LockLeft(c) <= Lockout + Lockout * Cardinality(Threads)

\* The types of the limiter, and no lockout longer than the one configured.
LockInv ==
    /\ LimiterType
    /\ \A c \in Clients : locked[c] <= Lockout

\* What a step may do to the lockout of a client: end it, leave it running with
\* no request more, or begin it anew for a request that is counted with that.
Ends(c) == locked'[c] \in {Free, 0}
RunsOn(c) ==
    /\ locked'[c] <= locked[c]
    /\ locked[c] > 0 => Checked(c)' \subseteq Checked(c)
BeginsAnew(c) ==
    /\ locked'[c] = Lockout
    /\ \E t \in Checked(c) : Checked(c)' \subseteq Checked(c) \ {t}

\* Pruning leaves a lockout as it is or ends it.
LEMMA PruneLocks ==
    ASSUME NEW f, NEW l \in [Clients -> Nat \cup {Free}], Prune(f, l), NEW c \in Clients
    PROVE  locked'[c] \in {l[c], Free}
<1>1. CASE ~Due(f, l)
  BY <1>1 DEF Prune
<1>2. CASE Due(f, l)
  <2> DEFINE live == Released(l, {x \in Clients : l[x] = 0})
  <2>1. PICK D : locked' = Released(live, D)
    BY <1>2 DEF Prune
  <2> QED BY <2>1 DEF Released
<1> QED BY <1>1, <1>2

\* A request that is turned away for its credential ends a lockout, by pruning,
\* or begins it anew, or does nothing to it.
LEMMA TurnAwayLocks ==
    ASSUME LockInv, NEW t \in Threads, NEW credential, NEW login, TurnAway(t, credential, login),
           NEW c \in Clients
    PROVE  Ends(c) \/ RunsOn(c) \/ BeginsAnew(c)
<1> DEFINE d == req[t].client
<1>1. /\ failures \in [Clients -> Seq(Nat)] /\ locked \in [Clients -> Nat \cup {Free}]
      /\ req \in [Threads -> Request \cup {Idle}]
  BY DEF LockInv, LimiterType
<1>2. d \in Clients /\ t \in Checked(d)
  BY <1>1, RequestClient DEF TurnAway
<1>3. \A x \in Clients : Checked(x)' \subseteq Checked(x) \ {t}
  BY <1>1, <1>2, LeavesChecked, RequestTypes DEF TurnAway
<1>4. CASE credential = None
  <2>1. locked' = locked
    BY <1>4 DEF TurnAway, limiter
  <2>2. locked[c] <= locked[c]
    BY <1>1 DEF Free
  <2> QED BY <1>3, <2>1, <2>2 DEF RunsOn
<1>5. CASE credential # None
  <2> DEFINE attempts == Append(Recent(failures[d]), 0)
             f == [failures EXCEPT ![d] = attempts]
             l == IF Enough(attempts) THEN [locked EXCEPT ![d] = Lockout] ELSE locked
  <2>1. Prune(f, l)
    BY <1>5 DEF TurnAway, RecordFailure, d
  <2>2. Lockout \in Nat \cup {Free}
    BY AccessAssumption
  <2> HIDE DEF attempts, d
  <2>3. l \in [Clients -> Nat \cup {Free}] /\ (l[c] = locked[c] \/ (c = d /\ l[c] = Lockout))
    BY <1>1, <1>2, <2>2
  <2> HIDE DEF f, l
  <2>4. locked'[c] \in {l[c], Free}
    BY <2>1, <2>3, PruneLocks
  <2>5. locked[c] <= locked[c]
    BY <1>1 DEF Free
  <2> QED BY <1>2, <1>3, <2>3, <2>4, <2>5 DEF Ends, RunsOn, BeginsAnew
<1> QED BY <1>4, <1>5

\* locked_out() lets nobody join the checked requests of a client while its
\* lockout runs.
LEMMA CheckLimitLocks ==
    ASSUME LockInv, NEW t \in Threads, CheckLimit(t), NEW c \in Clients
    PROVE  Ends(c) \/ RunsOn(c)
<1> DEFINE d == req[t].client
<1>1. /\ locked \in [Clients -> Nat \cup {Free}] /\ req \in [Threads -> Request \cup {Idle}]
      /\ locked[c] <= locked[c]
  BY DEF LockInv, LimiterType, Free
<1>2. CASE Refused(d)
  <2>1. locked' = locked /\ Becomes(t, Idle)
    BY <1>2 DEF CheckLimit, limiter
  <2>2. Checked(c)' \subseteq Checked(c)
    BY <1>1, <2>1, LeavesChecked, RequestTypes
  <2> QED BY <1>1, <2>1, <2>2 DEF RunsOn
<1>3. CASE ~Refused(d)
  <2>1. Unlock(d) /\ Becomes(t, [pc |-> "verify", client |-> d])
    BY <1>3 DEF CheckLimit
  <2>2. d \in Clients
    BY <1>1, RequestClient DEF CheckLimit
  <2> HIDE DEF d
  <2>3. req' = [req EXCEPT ![t] = [pc |-> "verify", client |-> d]]
    BY <2>1 DEF Becomes
  <2>4. CASE c = d
    <3>1. ~(locked[c] > 0)
      BY <1>3, <2>4 DEF Refused
    <3>2. locked'[c] <= locked[c] \/ locked'[c] = Free
      BY <1>1, <2>1, <2>4 DEF Unlock, Released
    <3> QED BY <3>1, <3>2 DEF RunsOn, Ends
  <2>5. CASE c # d
    <3>1. [pc |-> "verify", client |-> d] # [pc |-> "verify", client |-> c]
      BY <2>5
    <3>2. Checked(c)' \subseteq Checked(c)
      BY <1>1, <2>3, <3>1 DEF Checked
    <3>3. locked'[c] = locked[c]
      BY <1>1, <2>1, <2>5 DEF Unlock, Released
    <3> QED BY <1>1, <3>2, <3>3 DEF RunsOn
  <2> QED BY <2>4, <2>5
<1> QED BY <1>2, <1>3

\* Every step does one of the three to every client.
LEMMA LockStep ==
    ASSUME LockInv, [Next]_vars, NEW c \in Clients
    PROVE  Ends(c) \/ RunsOn(c) \/ BeginsAnew(c)
<1>0. /\ locked \in [Clients -> Nat \cup {Free}] /\ req \in [Threads -> Request \cup {Idle}]
      /\ locked[c] <= locked[c]
  BY DEF LockInv, LimiterType, Free
<1>1. ASSUME locked' = locked, req' = req PROVE RunsOn(c)
  BY <1>0, <1>1 DEF RunsOn, Checked
<1>2. ASSUME NEW t \in Threads, NEW r \in Request \cup {Idle}, r.pc # "verify", Becomes(t, r),
             locked' = locked
      PROVE  RunsOn(c)
  <2>1. Checked(c)' \subseteq Checked(c)
    BY <1>0, <1>2, LeavesChecked
  <2> QED BY <1>0, <1>2, <2>1 DEF RunsOn
<1>3. ASSUME NEW t \in Threads, NEW credential, NEW login, LetIn(t, credential, login)
      PROVE  Ends(c) \/ RunsOn(c)
  <2>1. PICK r \in Request \cup {Idle} : r.pc # "verify" /\ Becomes(t, r)
    BY <1>3, RequestTypes DEF LetIn
  <2>2. Checked(c)' \subseteq Checked(c)
    BY <1>0, <2>1, LeavesChecked
  <2>3. locked'[c] \in {Free, locked[c]}
    BY <1>3 DEF LetIn, RecordSuccess, Released
  <2> QED BY <1>0, <2>2, <2>3 DEF Ends, RunsOn
<1>4. ASSUME NEW t \in Threads, Serve(t) PROVE Ends(c) \/ RunsOn(c) \/ BeginsAnew(c)
  <2>1. ASSUME NEW k \in Tokens, BeginLogOut(t, k) PROVE RunsOn(c)
    BY <1>2, <2>1, RequestTypes DEF BeginLogOut, limiter
  <2>2. ASSUME NEW d \in Clients, Begin(t, d) PROVE RunsOn(c)
    BY <1>2, <2>2, RequestTypes DEF Begin, limiter
  <2>3. ASSUME NEW k \in Tokens, LogIn(t, k) PROVE RunsOn(c)
    BY <1>2, <2>3, RequestTypes DEF LogIn, limiter
  <2>4. ASSUME LogOut(t) PROVE RunsOn(c)
    BY <1>2, <2>4, RequestTypes DEF LogOut, limiter
  <2> QED
    BY <1>3, <1>4, <2>1, <2>2, <2>3, <2>4, CheckLimitLocks, TurnAwayLocks DEF Serve
<1>5. CASE Die
  BY <1>5 DEF Die, Ends
<1>6. CASE Tick
  BY <1>0, <1>6 DEF Tick, Less, RunsOn, Checked, Free
<1>7. CASE \/ \E p \in Passwords \cup {NoPassword} : Start(p)
           \/ Load \/ \E s \in Secrets : Write(s) \/ WriteTorn(s)
           \/ UNCHANGED vars
  BY <1>1, <1>7 DEF Start, Load, Write, WriteTorn, vars, limiter
<1> QED BY <1>4, <1>5, <1>6, <1>7 DEF Next

\* One request less leaves room for one lockout.
LEMMA OneLockout ==
    ASSUME NEW k \in Nat, NEW m \in Nat, m < k
    PROVE  Lockout + Lockout * m <= Lockout * k /\ Lockout * m \in Nat /\ Lockout * k \in Nat
  BY AccessAssumption

\* The bound on what is left, from the number of requests.
LEMMA LockCount ==
    ASSUME LockInv, NEW c \in Clients
    PROVE  /\ LockLeft(c) \in Int
           /\ LockLeft(c) <= Lockout + Lockout * Cardinality(Threads)
<1>1. /\ Cardinality(Checked(c)) \in Nat /\ Cardinality(Threads) \in Nat
      /\ Cardinality(Checked(c)) <= Cardinality(Threads)
  BY CheckedFinite
<1>2. locked[c] \in Int /\ locked[c] <= Lockout /\ Lockout \in Nat
  BY AccessAssumption DEF LockInv, LimiterType, Free
<1>3. ASSUME NEW m \in Nat, NEW k \in Nat, m <= k PROVE Lockout * m <= Lockout * k /\ Lockout * m \in Nat
  BY <1>2, <1>3
<1> QED BY <1>1, <1>2, <1>3 DEF LockLeft

\* A lockout ends: the safety half of LockoutEnds, by which time is all it takes
\* (AttemptLimiter.locked_out() and record_failure() of auth.py).  Clients that
\* go on trying do not prolong it beyond the requests that were already checked.
THEOREM LockoutsRunOut == Spec => []LockoutBounded /\ LockoutShortens
<1>1. Init => LockInv
  <2> SUFFICES ASSUME Init PROVE LockInv
    OBVIOUS
  <2>1. LimiterType
    BY DEF Init, LimiterType, Free
  <2> QED BY <2>1, AccessAssumption DEF LockInv, Init, Free
<1>2. LimiterType /\ LimiterType' /\ LockInv /\ [Next]_vars => LockInv'
  <2> SUFFICES ASSUME LimiterType, LimiterType', LockInv, [Next]_vars, NEW c \in Clients
               PROVE  locked'[c] <= Lockout
    BY DEF LockInv
  <2>1. locked[c] <= Lockout /\ locked[c] \in Int /\ locked'[c] \in Int /\ Lockout \in Nat
    BY AccessAssumption DEF LockInv, LimiterType, Free
  <2> QED BY <2>1, LockStep DEF Ends, RunsOn, BeginsAnew, Free
<1>3. LockInv => LockoutBounded
  BY LockCount DEF LockoutBounded
<1>4. LockInv /\ LockInv' /\ [Next]_vars =>
        [\A c \in Clients : locked[c] > 0 /\ locked'[c] > 0 =>
            /\ LockLeft(c)' <= LockLeft(c)
            /\ Tick => LockLeft(c)' < LockLeft(c)]_vars
  <2> SUFFICES ASSUME LockInv, LockInv', [Next]_vars, NEW c \in Clients, locked[c] > 0, locked'[c] > 0
               PROVE  LockLeft(c)' <= LockLeft(c) /\ (Tick => LockLeft(c)' < LockLeft(c))
    OBVIOUS
  <2> DEFINE k == Cardinality(Checked(c))
             m == Cardinality(Checked(c)')
  <2>1. k \in Nat /\ m \in Nat /\ IsFiniteSet(Checked(c))
    BY CheckedFinite, CheckedFiniteNext
  <2>2. locked[c] \in Nat /\ locked'[c] \in Nat /\ Lockout \in Nat
    BY AccessAssumption DEF LockInv, LimiterType, Free
  <2>3. LockLeft(c) = locked[c] + Lockout * k /\ LockLeft(c)' = locked'[c] + Lockout * m
    BY DEF LockLeft
  <2>4. CASE RunsOn(c)
    <3>1. m <= k
      BY <2>1, <2>4, FS_Subset DEF RunsOn
    <3>2. Tick => locked'[c] < locked[c]
      BY <2>2 DEF Tick, Less
    <3> HIDE DEF k, m
    <3>3. Lockout * m <= Lockout * k /\ Lockout * m \in Nat /\ Lockout * k \in Nat
      BY <2>1, <2>2, <3>1, OneLockout
    <3> QED BY <2>2, <2>3, <2>4, <3>2, <3>3 DEF RunsOn
  <2>5. CASE BeginsAnew(c)
    <3>1. PICK t \in Checked(c) : Checked(c)' \subseteq Checked(c) \ {t}
      BY <2>5 DEF BeginsAnew
    <3>2. /\ IsFiniteSet(Checked(c) \ {t})
          /\ Cardinality(Checked(c) \ {t}) = k - 1
      BY <2>1, FS_RemoveElement
    <3>3. m < k
      BY <2>1, <3>1, <3>2, FS_Subset
    <3> HIDE DEF k, m
    <3>4. Lockout + Lockout * m <= Lockout * k /\ Lockout * m \in Nat /\ Lockout * k \in Nat
      BY <2>1, <3>3, OneLockout
    <3> QED BY <2>2, <2>3, <2>5, <3>4 DEF BeginsAnew
  <2>6. ~Ends(c)
    BY <2>2 DEF Ends, Free
  <2> QED BY <2>4, <2>5, <2>6, LockStep
<1>5. GuessInv => LimiterType
  BY DEF GuessInv
<1> QED
  BY <1>1, <1>2, <1>3, <1>4, <1>5, GuessAlways, PTL DEF Spec, LockoutShortens

-------------------------------------------------------------------------------
(* The upstream pool *)

\* Where a call is at work on the first upstream of its list.
Turns == {"load", "store", "check", "bench", "reset", "clear", "time"}

\* What the records and the calls hold.  Of the backoff only that it is an
\* integer is known, since nothing is of the powers of two.
PoolInv ==
    /\ failed \in [Upstreams -> Nat] /\ down_until \in [Upstreams -> Int]
    /\ now \in Nat /\ stage \in [Workers -> Phases]
    /\ healthy \in [Workers -> SUBSET Upstreams]
    /\ queue \in [Workers -> Seq(Upstreams)] /\ read \in [Workers -> Nat]
    /\ \A t \in Workers : stage[t] \in Turns => queue[t] # <<>>

\* A set of natural numbers has a least element.
LEMMA LeastElement ==
    ASSUME NEW T \in SUBSET Nat, T # {}
    PROVE  \E x \in T : \A y \in T : x <= y
<1>1. \E x \in T : \A y \in T : ~(<<y, x>> \in OpToRel(<, Nat))
  BY WFMin, NatLessThanWellFounded
<1>2. \A x, y \in Nat : <<y, x>> \in OpToRel(<, Nat) <=> y < x
  BY DEF OpToRel
<1>3. \E x \in T : \A y \in T : ~(y < x)
  BY <1>1, <1>2, Zenon
<1>. QED
  BY <1>3

\* Halving the base gives a part of it.
LEMMA HalvedTyped ==
    ASSUME NEW k \in Nat
    PROVE  Halved(k) \in 0..BackoffBase
<1> DEFINE fitting == {q \in 0..BackoffBase : q * 2 ^ k <= BackoffBase}
           short == {BackoffBase - q : q \in fitting}
<1>1. BackoffBase \in Nat /\ 2 ^ k \in Int
    BY BackoffAssumption
<1>2. 0 \in fitting
    BY <1>1
<1>3. short \in SUBSET Nat /\ short # {}
    BY <1>1, <1>2
<1>4. PICK x \in short : \A y \in short : x <= y
    BY <1>3, LeastElement
<1>5. PICK q \in fitting : x = BackoffBase - q
    BY <1>4
<1>6. \A r \in fitting : r <= q
  <2>1. SUFFICES ASSUME NEW r \in fitting PROVE r <= q
    OBVIOUS
  <2>2. BackoffBase - r \in short /\ r \in Int /\ q \in Int
    OBVIOUS
  <2>3. BackoffBase - q <= BackoffBase - r
    BY <1>4, <1>5, <2>2
  <2> QED
    BY <1>1, <2>2, <2>3
<1>7. Halved(k) \in fitting
    BY <1>5, <1>6 DEF Halved
<1> QED
    BY <1>7

\* The backoff has its ceiling whatever the exponent, negative ones included.
LEMMA BackoffCapped ==
    ASSUME NEW n \in Nat
    PROVE  Backoff(n) \in Int /\ Backoff(n) <= BackoffMax
<1>1. ASSUME n >= Threshold
      PROVE  BackoffBase * 2 ^ (n - Threshold) \in Int
  <2>1. n - Threshold \in Nat
    BY <1>1, BackoffAssumption
  <2> QED
    BY <2>1, BackoffAssumption
<1>2. ASSUME ~(n >= Threshold)
      PROVE  Halved(Threshold - n) \in Int
    BY <1>2, HalvedTyped, BackoffAssumption
<1> QED
    BY <1>1, <1>2, BackoffAssumption DEF Backoff

\* A sorted list has each upstream of the set once.
LEMMA SortingTyped ==
    ASSUME NEW S \in SUBSET Upstreams, NEW s \in [1..Cardinality(S) -> S]
    PROVE  s \in Seq(Upstreams) /\ Len(s) = Cardinality(S) /\ Len(s) <= NumUpstreams
<1>1. IsFiniteSet(Upstreams) /\ Cardinality(Upstreams) = NumUpstreams
    BY FS_Interval, UpstreamsAssumption DEF Upstreams
<1>2. Cardinality(S) \in Nat /\ Cardinality(S) <= NumUpstreams
    BY <1>1, FS_Subset, FS_CardinalityType
<1> QED
    BY <1>2

\* The clock, and a call that begins.
LEMMA PoolBegins ==
    ASSUME PoolInv, PoolTick \/ \E t \in Workers : OrderHealthy(t)
    PROVE  PoolInv'
<1>1. CASE PoolTick
    BY <1>1 DEF PoolInv, PoolTick, health, call
<1>2. CASE \E t \in Workers : OrderHealthy(t)
  <2>1. PICK t \in Workers : OrderHealthy(t)
    BY <1>2
  <2>2. stage' = [stage EXCEPT ![t] = "order"] /\ "order" \in Phases \ Turns
    BY <2>1 DEF OrderHealthy, PoolGoto, Phases, Turns
  <2>3. {u \in Upstreams : Available(u)} \in SUBSET Upstreams
    OBVIOUS
  <2> QED
    BY <2>1, <2>2, <2>3 DEF PoolInv, OrderHealthy, health
<1> QED
    BY <1>1, <1>2

\* A call that has its list.
LEMMA PoolOrders ==
    ASSUME PoolInv, NEW t \in Workers, OrderBenched(t)
    PROVE  /\ PoolInv'
           /\ queue' = [queue EXCEPT ![t] = queue'[t]] /\ Len(queue'[t]) <= 2 * NumUpstreams
           /\ UNCHANGED <<failed, down_until, now>>
<1>1. PICK fast \in [1..Cardinality(healthy[t]) -> healthy[t]],
           last \in [1..Cardinality({u \in Upstreams : ~Available(u)}) -> {u \in Upstreams : ~Available(u)}] :
        queue' = [queue EXCEPT ![t] = fast \o last]
    BY DEF OrderBenched, SortingsBy
<1>2. healthy[t] \in SUBSET Upstreams /\ {u \in Upstreams : ~Available(u)} \in SUBSET Upstreams
    BY DEF PoolInv
<1>3. /\ fast \in Seq(Upstreams) /\ Len(fast) <= NumUpstreams
      /\ last \in Seq(Upstreams) /\ Len(last) <= NumUpstreams
    BY <1>1, <1>2, SortingTyped
<1>4. fast \o last \in Seq(Upstreams) /\ Len(fast \o last) <= 2 * NumUpstreams
    BY <1>3, UpstreamsAssumption
<1>5. queue'[t] = fast \o last /\ queue' \in [Workers -> Seq(Upstreams)]
    BY <1>1, <1>4 DEF PoolInv
<1>6. stage' = [stage EXCEPT ![t] = "ask"] /\ "ask" \in Phases \ Turns
    BY DEF OrderBenched, PoolGoto, Phases, Turns
<1>7. \A x \in Workers : stage'[x] \in Turns => queue'[x] # <<>>
    BY <1>1, <1>6 DEF PoolInv
<1> QED
    BY <1>1, <1>4, <1>5, <1>6, <1>7 DEF PoolInv, OrderBenched, health

\* What a step of a call does to its list and to its stage.
Onward(t) ==
    \/ stage' = [stage EXCEPT ![t] = "idle"] /\ queue' = [queue EXCEPT ![t] = <<>>]
    \/ /\ queue' = queue /\ queue[t] # <<>>
       /\ \/ stage[t] = "ask" /\ stage' = [stage EXCEPT ![t] = "load"]
          \/ stage[t] = "ask" /\ stage' = [stage EXCEPT ![t] = "reset"]
          \/ stage[t] = "load" /\ stage' = [stage EXCEPT ![t] = "store"]
          \/ stage[t] = "store" /\ stage' = [stage EXCEPT ![t] = "check"]
          \/ stage[t] = "check" /\ stage' = [stage EXCEPT ![t] = "bench"]
          \/ stage[t] = "reset" /\ stage' = [stage EXCEPT ![t] = "clear"]
          \/ stage[t] = "clear" /\ stage' = [stage EXCEPT ![t] = "time"]
    \/ /\ stage[t] \in {"check", "bench"} /\ stage' = [stage EXCEPT ![t] = "ask"]
       /\ queue[t] # <<>> /\ queue' = [queue EXCEPT ![t] = Tail(@)]

\* Every step but the sorting goes onward.
LEMMA PoolOnward ==
    ASSUME PoolInv, NEW t \in Workers, PoolStep(t), ~OrderBenched(t)
    PROVE  Onward(t)
<1>1. CASE CannotEncode(t) \/ Exhausted(t) \/ BenchOverflows(t) \/ RecordLatency(t)
    BY <1>1 DEF Onward, CannotEncode, Exhausted, BenchOverflows, RecordLatency, PoolGoto, PoolEnd
<1>2. CASE AskFails(t) \/ AskAnswers(t)
    BY <1>2 DEF Onward, AskFails, AskAnswers, PoolGoto
<1>3. CASE LoadFailures(t) \/ StoreFailures(t)
    BY <1>3 DEF PoolInv, Turns, Onward, LoadFailures, StoreFailures, PoolGoto
<1>4. CASE ResetFailures(t) \/ ClearBench(t)
    BY <1>4 DEF PoolInv, Turns, Onward, ResetFailures, ClearBench, PoolGoto, call
<1>5. CASE CheckThreshold(t) \/ Bench(t)
    BY <1>5 DEF PoolInv, Turns, Onward, CheckThreshold, Bench, PoolGoto
<1> QED
    BY <1>1, <1>2, <1>3, <1>4, <1>5 DEF PoolStep

\* Going onward keeps the types of the call and shortens it.
LEMMA PoolCalls ==
    ASSUME PoolInv, NEW t \in Workers, Onward(t)
    PROVE  /\ stage' \in [Workers -> Phases] /\ queue' \in [Workers -> Seq(Upstreams)]
           /\ \A x \in Workers : stage'[x] \in Turns => queue'[x] # <<>>
           /\ \A x \in Workers : Len(queue'[x]) <= Len(queue[x])
           /\ stage'[t] = "idle" \/ ToGo(t)' < ToGo(t)
           /\ \A x \in Workers \ {t} : UNCHANGED <<stage[x], queue[x]>>
<1>0. /\ stage \in [Workers -> Phases] /\ queue \in [Workers -> Seq(Upstreams)]
      /\ queue[t] \in Seq(Upstreams) /\ stage[t] \in Phases
    BY DEF PoolInv
<1>1. CASE stage' = [stage EXCEPT ![t] = "idle"] /\ queue' = [queue EXCEPT ![t] = <<>>]
  <2>1. "idle" \in Phases \ Turns /\ <<>> \in Seq(Upstreams)
    BY DEF Phases, Turns
  <2>2. /\ stage' \in [Workers -> Phases] /\ queue' \in [Workers -> Seq(Upstreams)]
        /\ stage'[t] = "idle" /\ Len(queue'[t]) = 0
        /\ \A x \in Workers \ {t} : UNCHANGED <<stage[x], queue[x]>>
    BY <1>0, <1>1, <2>1
  <2>3. \A x \in Workers : Len(queue[x]) \in Nat
    BY <1>0
  <2>4. \A x \in Workers : Len(queue'[x]) <= Len(queue[x])
    BY <2>2, <2>3
  <2>5. \A x \in Workers : stage'[x] \in Turns => queue'[x] # <<>>
    BY <2>1, <2>2 DEF PoolInv
  <2> QED
    BY <2>2, <2>4, <2>5
<1>2. ASSUME queue' = queue, queue[t] # <<>>,
             NEW to \in Phases, stage' = [stage EXCEPT ![t] = to], StepsToGo[to] < StepsToGo[stage[t]],
             StepsToGo[to] \in Nat, StepsToGo[stage[t]] \in Nat
      PROVE  /\ stage' \in [Workers -> Phases]
             /\ \A x \in Workers : stage'[x] \in Turns => queue'[x] # <<>>
             /\ ToGo(t)' < ToGo(t)
             /\ \A x \in Workers \ {t} : UNCHANGED <<stage[x], queue[x]>>
  <2>1. /\ stage' \in [Workers -> Phases] /\ stage'[t] = to
        /\ \A x \in Workers \ {t} : UNCHANGED <<stage[x], queue[x]>>
    BY <1>0, <1>2
  <2>2. Len(queue[t]) \in Nat
    BY <1>0
  <2>3. ToGo(t)' = 7 * Len(queue[t]) + StepsToGo[to] /\ ToGo(t) = 7 * Len(queue[t]) + StepsToGo[stage[t]]
    BY <1>2, <2>1 DEF ToGo, StepsToGo, Phases
  <2> QED
    BY <1>2, <2>1, <2>2, <2>3 DEF PoolInv
<1>3. /\ StepsToGo["ask"] = 6 /\ StepsToGo["load"] = 5 /\ StepsToGo["reset"] = 5
      /\ StepsToGo["store"] = 4 /\ StepsToGo["clear"] = 4
      /\ StepsToGo["check"] = 3 /\ StepsToGo["time"] = 3 /\ StepsToGo["bench"] = 2
    BY DEF StepsToGo, Phases
<1>4. CASE queue' = queue /\ queue[t] # <<>>
             /\ \/ stage[t] = "ask" /\ stage' = [stage EXCEPT ![t] = "load"]
                \/ stage[t] = "ask" /\ stage' = [stage EXCEPT ![t] = "reset"]
                \/ stage[t] = "load" /\ stage' = [stage EXCEPT ![t] = "store"]
                \/ stage[t] = "store" /\ stage' = [stage EXCEPT ![t] = "check"]
                \/ stage[t] = "check" /\ stage' = [stage EXCEPT ![t] = "bench"]
                \/ stage[t] = "reset" /\ stage' = [stage EXCEPT ![t] = "clear"]
                \/ stage[t] = "clear" /\ stage' = [stage EXCEPT ![t] = "time"]
  <2>1. \E to \in Phases : /\ stage' = [stage EXCEPT ![t] = to]
                           /\ StepsToGo[to] < StepsToGo[stage[t]]
                           /\ StepsToGo[to] \in Nat /\ StepsToGo[stage[t]] \in Nat
    BY <1>3, <1>4 DEF Phases
  <2>2. \A x \in Workers : Len(queue'[x]) <= Len(queue[x])
    BY <1>0, <1>4
  <2> QED
    BY <1>0, <1>2, <1>4, <2>1, <2>2
<1>5. CASE /\ stage[t] \in {"check", "bench"} /\ stage' = [stage EXCEPT ![t] = "ask"]
           /\ queue[t] # <<>> /\ queue' = [queue EXCEPT ![t] = Tail(@)]
  <2>1. /\ Tail(queue[t]) \in Seq(Upstreams) /\ Len(queue[t]) \in Nat
        /\ Len(Tail(queue[t])) = Len(queue[t]) - 1
    BY <1>0, <1>5
  <2>2. "ask" \in Phases \ Turns
    BY DEF Phases, Turns
  <2>3. /\ stage' \in [Workers -> Phases] /\ queue' \in [Workers -> Seq(Upstreams)]
        /\ stage'[t] = "ask" /\ queue'[t] = Tail(queue[t])
        /\ \A x \in Workers \ {t} : UNCHANGED <<stage[x], queue[x]>>
    BY <1>0, <1>5, <2>1, <2>2
  <2>4. ToGo(t)' = 7 * Len(Tail(queue[t])) + 6 /\ ToGo(t) = 7 * Len(queue[t]) + StepsToGo[stage[t]]
    BY <1>3, <2>3 DEF ToGo, StepsToGo, Phases
  <2>5. ToGo(t)' < ToGo(t)
    BY <1>3, <1>5, <2>1, <2>4
  <2>6. \A x \in Workers : Len(queue[x]) \in Nat
    BY <1>0
  <2>7. \A x \in Workers : Len(queue'[x]) <= Len(queue[x])
    BY <2>1, <2>3, <2>6
  <2> QED
    BY <2>2, <2>3, <2>5, <2>7 DEF PoolInv
<1> QED
    BY <1>1, <1>4, <1>5 DEF Onward

\* What a step of a call does to the records.
LEMMA PoolRecords ==
    ASSUME PoolInv, BenchBounded, NEW t \in Workers, PoolStep(t)
    PROVE  /\ failed' \in [Upstreams -> Nat] /\ down_until' \in [Upstreams -> Int]
           /\ now' = now /\ BenchBounded'
           /\ healthy' \in [Workers -> SUBSET Upstreams] /\ read' \in [Workers -> Nat]
<1>0. /\ failed \in [Upstreams -> Nat] /\ down_until \in [Upstreams -> Int] /\ now \in Nat
      /\ healthy \in [Workers -> SUBSET Upstreams] /\ read \in [Workers -> Nat]
      /\ BackoffMax \in Nat /\ MaxFailures \in Nat
    BY BackoffAssumption, CapAssumption DEF PoolInv
<1>1. stage[t] \in Turns => Asked(t) \in Upstreams
    BY DEF PoolInv, Asked
<1>2. now' = now
    BY DEF PoolStep, OrderBenched, CannotEncode, AskFails, AskAnswers, Exhausted, LoadFailures,
        StoreFailures, CheckThreshold, Bench, BenchOverflows, ResetFailures, ClearBench, RecordLatency
<1>3. CASE UNCHANGED <<failed, down_until, read>> /\ (healthy' = healthy \/ OrderBenched(t))
  <2>1. healthy' \in [Workers -> SUBSET Upstreams]
    BY <1>0, <1>3 DEF OrderBenched
  <2> QED
    BY <1>0, <1>2, <1>3, <2>1 DEF BenchBounded
<1>4. CASE LoadFailures(t)
  <2>1. stage[t] = "load" /\ UNCHANGED <<failed, down_until, healthy>>
            /\ read' = [read EXCEPT ![t] = failed[Asked(t)]]
    BY <1>4 DEF LoadFailures, PoolGoto, health
  <2>2. failed[Asked(t)] \in Nat
    BY <1>0, <1>1, <2>1 DEF Turns
  <2> QED
    BY <1>0, <1>2, <2>1, <2>2 DEF BenchBounded
<1>5. CASE StoreFailures(t)
  <2>1. /\ UNCHANGED <<down_until, healthy>> /\ read' = [read EXCEPT ![t] = 0]
        /\ failed' = [failed EXCEPT ![Asked(t)] = IF read[t] < MaxFailures THEN read[t] + 1 ELSE MaxFailures]
    BY <1>5 DEF StoreFailures
  <2>2. (IF read[t] < MaxFailures THEN read[t] + 1 ELSE MaxFailures) \in Nat
    BY <1>0
  <2>3. failed' \in [Upstreams -> Nat] /\ read' \in [Workers -> Nat]
    BY <1>0, <2>1, <2>2
  <2> QED
    BY <1>0, <1>2, <2>1, <2>3 DEF BenchBounded
<1>6. CASE Bench(t)
  <2>1. /\ stage[t] = "bench" /\ UNCHANGED <<failed, healthy, read>>
        /\ down_until' = [down_until EXCEPT ![Asked(t)] = now + Backoff(failed[Asked(t)])]
    BY <1>6 DEF Bench, PoolGoto
  <2>2. /\ Backoff(failed[Asked(t)]) \in Int
        /\ Backoff(failed[Asked(t)]) <= BackoffMax
    BY <1>0, <1>1, <2>1, BackoffCapped DEF Turns
  <2>3. down_until' \in [Upstreams -> Int]
    <3>1. now + Backoff(failed[Asked(t)]) \in Int
      BY <1>0, <2>2
    <3> QED
      BY <1>0, <2>1, <3>1
  <2>4. \A u \in Upstreams : down_until'[u] <= now + BackoffMax
    BY <1>0, <2>1, <2>2 DEF BenchBounded
  <2> QED
    BY <1>0, <1>2, <2>1, <2>3, <2>4 DEF BenchBounded
<1>7. CASE ResetFailures(t)
    BY <1>0, <1>2, <1>7 DEF ResetFailures, BenchBounded, call
<1>8. CASE ClearBench(t)
  <2>1. down_until' = [down_until EXCEPT ![Asked(t)] = 0] /\ UNCHANGED <<failed, healthy, read>>
    BY <1>8 DEF ClearBench, call
  <2>2. down_until' \in [Upstreams -> Int]
    <3>1. stage[t] = "clear" /\ Asked(t) \in Upstreams /\ 0 \in Int
      BY <1>1, <1>8 DEF ClearBench, PoolGoto, Turns
    <3> QED
      BY <1>0, <2>1, <3>1
  <2>3. \A u \in Upstreams : down_until'[u] <= now + BackoffMax
    BY <1>0, <2>1 DEF BenchBounded
  <2> QED
    BY <1>0, <1>2, <2>1, <2>2, <2>3 DEF BenchBounded
<1>9. CASE OrderBenched(t)
    BY <1>3, <1>9 DEF OrderBenched, health
<1>10. CASE CannotEncode(t) \/ AskFails(t) \/ AskAnswers(t) \/ Exhausted(t)
    BY <1>3, <1>10 DEF CannotEncode, AskFails, AskAnswers, Exhausted, health
<1>11. CASE CheckThreshold(t) \/ BenchOverflows(t) \/ RecordLatency(t)
    BY <1>3, <1>11 DEF CheckThreshold, BenchOverflows, RecordLatency, health
<1> QED
    BY <1>4, <1>5, <1>6, <1>7, <1>8, <1>9, <1>10, <1>11 DEF PoolStep

\* What holds in every state of the pool.
PoolStrong == PoolInv /\ BenchBounded /\ ListBounded

\* A step of a call keeps all of it and shortens the call.
LEMMA PoolStepKeeps ==
    ASSUME PoolStrong, NEW t \in Workers, PoolStep(t)
    PROVE  /\ PoolStrong'
           /\ stage[t] # "order" => stage'[t] = "idle" \/ ToGo(t)' < ToGo(t)
           /\ \A x \in Workers \ {t} : UNCHANGED <<stage[x], queue[x]>>
<1>0. PoolInv /\ BenchBounded /\ ListBounded /\ stage \in [Workers -> Phases] /\ queue \in [Workers -> Seq(Upstreams)]
    BY DEF PoolStrong, PoolInv
<1>1. BenchBounded'
    BY <1>0, PoolRecords
<1>2. CASE OrderBenched(t)
  <2>1. PoolInv' /\ queue' = [queue EXCEPT ![t] = queue'[t]] /\ Len(queue'[t]) <= 2 * NumUpstreams
    BY <1>0, <1>2, PoolOrders
  <2>2. stage[t] = "order" /\ \A x \in Workers \ {t} : UNCHANGED <<stage[x], queue[x]>>
    BY <1>0, <1>2, <2>1 DEF OrderBenched, PoolGoto
  <2>3. ListBounded'
    BY <1>0, <2>1, <2>2 DEF ListBounded
  <2> QED
    BY <1>1, <2>1, <2>2, <2>3 DEF PoolStrong
<1>3. CASE ~OrderBenched(t)
  <2>1. Onward(t)
    BY <1>0, <1>3, PoolOnward
  <2>2. /\ stage' \in [Workers -> Phases] /\ queue' \in [Workers -> Seq(Upstreams)]
        /\ \A x \in Workers : stage'[x] \in Turns => queue'[x] # <<>>
        /\ \A x \in Workers : Len(queue'[x]) <= Len(queue[x])
        /\ stage'[t] = "idle" \/ ToGo(t)' < ToGo(t)
        /\ \A x \in Workers \ {t} : UNCHANGED <<stage[x], queue[x]>>
    BY <1>0, <2>1, PoolCalls
  <2>3. PoolInv'
    BY <1>0, <2>2, PoolRecords DEF PoolInv
  <2>4. \A x \in Workers : Len(queue[x]) \in Nat /\ Len(queue'[x]) \in Nat
    BY <1>0, <2>2
  <2>5. ListBounded'
    BY <1>0, <2>2, <2>4, UpstreamsAssumption DEF ListBounded
  <2> QED
    BY <1>1, <2>2, <2>3, <2>5 DEF PoolStrong
<1> QED
    BY <1>2, <1>3

\* The invariant of the pool.
LEMMA PoolAlways == PoolSpec => []PoolStrong
<1>1. PoolInit => PoolStrong
  <2>1. SUFFICES ASSUME PoolInit PROVE PoolStrong
    OBVIOUS
  <2>2. PoolInv
    BY <2>1 DEF PoolInit, PoolInv, Phases, Turns
  <2>3. BenchBounded /\ ListBounded
    BY <2>1, BackoffAssumption, UpstreamsAssumption DEF PoolInit, BenchBounded, ListBounded
  <2> QED
    BY <2>2, <2>3 DEF PoolStrong
<1>2. PoolStrong /\ [PoolNext]_poolVars => PoolStrong'
  <2>1. SUFFICES ASSUME PoolStrong, [PoolNext]_poolVars PROVE PoolStrong'
    OBVIOUS
  <2>2. CASE \E t \in Workers : PoolStep(t)
    BY <2>1, <2>2, PoolStepKeeps
  <2>3. CASE PoolTick \/ \E t \in Workers : OrderHealthy(t)
    <3>1. PoolInv'
      BY <2>1, <2>3, PoolBegins DEF PoolStrong
    <3>2. UNCHANGED <<queue, down_until>> /\ (now' = now \/ now' = now + 1)
      BY <2>3 DEF PoolTick, OrderHealthy, call, health
    <3>3. BenchBounded'
      BY <2>1, <3>2, BackoffAssumption DEF PoolStrong, PoolInv, BenchBounded
    <3> QED
      BY <2>1, <3>1, <3>2, <3>3 DEF PoolStrong, ListBounded
  <2>4. CASE UNCHANGED poolVars
    BY <2>1, <2>4 DEF poolVars, PoolStrong, PoolInv, BenchBounded, ListBounded
  <2> QED
    BY <2>1, <2>2, <2>3, <2>4 DEF PoolNext
<1> QED
    BY <1>1, <1>2, PTL DEF PoolSpec

\* No upstream is benched further ahead than BACKOFF_MAX, however many threads
\* count its failed at once and wherever a success comes in between:
\* UpstreamHealth.record_failure() and record_success() of resolver.py.
THEOREM BenchAlwaysBounded == PoolSpec => []BenchBounded
    BY PoolAlways, PTL DEF PoolStrong

\* Why every lookup ends: its list has each upstream at most twice, and every
\* step shortens the call or leaves it alone (UpstreamPool.resolve()), so that
\* what is left to liveness is only that threads take steps.
THEOREM CallsAreBounded == PoolSpec => []ListBounded /\ CallShortens
<1>1. PoolStrong /\ [PoolNext]_poolVars =>
        [\A t \in Workers : stage[t] \notin {"idle", "order"} =>
            \/ stage'[t] = "idle"
            \/ ToGo(t)' < ToGo(t)
            \/ UNCHANGED <<stage[t], queue[t]>>]_poolVars
  <2>1. SUFFICES ASSUME PoolStrong, PoolNext, NEW t \in Workers, stage[t] \notin {"idle", "order"}
                 PROVE  \/ stage'[t] = "idle"
                        \/ ToGo(t)' < ToGo(t)
                        \/ UNCHANGED <<stage[t], queue[t]>>
    OBVIOUS
  <2>2. CASE \E x \in Workers : PoolStep(x)
    BY <2>1, <2>2, PoolStepKeeps
  <2>3. CASE PoolTick
    BY <2>3 DEF PoolTick, call
  <2>4. CASE \E x \in Workers : OrderHealthy(x)
    BY <2>1, <2>4 DEF OrderHealthy, PoolGoto, PoolStrong, PoolInv
  <2> QED
    BY <2>1, <2>2, <2>3, <2>4 DEF PoolNext
<1>2. PoolStrong => ListBounded
    BY DEF PoolStrong
<1> QED
    BY <1>1, <1>2, PoolAlways, PTL DEF PoolSpec, CallShortens

-------------------------------------------------------------------------------
(* Numbers, for what follows on messages. *)

\* A set of numbers that is not empty has a least one.
LEMMA LeastNumber ==
    ASSUME NEW T \in SUBSET Nat, T # {}
    PROVE  \E x \in T : \A y \in T : x <= y
<1>1. \E x \in T : \A y \in T : ~(<<y, x>> \in OpToRel(<, Nat))
  BY WFMin, NatLessThanWellFounded
<1>2. \A x, y \in Nat : <<y, x>> \in OpToRel(<, Nat) <=> y < x
  BY DEF OpToRel
<1>3. \E x \in T : \A y \in T : ~(y < x)
  BY <1>1, <1>2, Zenon
<1> QED BY <1>3

\* Induction, for a set of numbers.
LEMMA AllNumbers ==
    ASSUME NEW S \in SUBSET Nat, 0 \in S, \A n \in S : n + 1 \in S
    PROVE  \A n \in Nat : n \in S
<1>1. SUFFICES ASSUME Nat \ S # {} PROVE FALSE
  OBVIOUS
<1>2. PICK x \in Nat \ S : \A y \in Nat \ S : x <= y
  BY <1>1, LeastNumber
<1>3. x - 1 \in Nat /\ x - 1 < x
  BY <1>2
<1>4. x - 1 \in S
  BY <1>2, <1>3
<1> QED BY <1>2, <1>3, <1>4

\* The first step of a loop.
LEMMA FirstOnly == 0..1 - 1 = {0}
  OBVIOUS

\* A number is the last of those up to it.
LEMMA OwnRange ==
    ASSUME NEW n \in Nat
    PROVE  n \in 0..n
  OBVIOUS

\* The cells of a body.
LEMMA SeqDomain ==
    ASSUME NEW s \in Seq(Nat)
    PROVE  Len(s) \in Nat /\ DOMAIN s = 1..Len(s)
  OBVIOUS

\* The head of a sequence.
LEMMA HeadIs ==
    ASSUME NEW s
    PROVE  Head(s) = s[1]
  OBVIOUS

-------------------------------------------------------------------------------
(* The loops *)

\* What a loop starts with, and what a pass of it makes of that.
Outset(loop, offset) ==
    IF loop = "name" THEN [state |-> "reading", cursor |-> offset, name |-> <<>>, jumps |-> 0, end |-> 0]
    ELSE IF loop = "questions" THEN [ok |-> TRUE, questions |-> <<>>, end |-> 1]
    ELSE [ok |-> TRUE, records |-> <<>>, end |-> offset]

\* One pass of it.
Pass(loop, body, s) ==
    IF loop = "name" THEN ReadLabel(body, s)
    ELSE IF loop = "questions" THEN ReadQuestion(body, s)
    ELSE ReadRecord(body, s)

\* g is what the loop has after each of n passes.
Run(loop, body, offset, g, n) ==
    g = [i \in 0..n |-> IF i = 0 THEN Outset(loop, offset) ELSE Pass(loop, body, g[i - 1])]

\* A function gives what the loop has after each pass.
Runs(loop, body, offset, f) ==
    /\ f = [n \in Nat |-> f[n]]
    /\ f[0] = Outset(loop, offset)
    /\ \A n \in Nat : f[n + 1] = Pass(loop, body, f[n])

\* A loop has something after every pass.
LEMMA LoopRuns ==
    ASSUME NEW loop, NEW body, NEW offset
    PROVE  \E f : Runs(loop, body, offset, f)
<1> DEFINE R(g, n) == Run(loop, body, offset, g, n)
           P(s) == Pass(loop, body, s)
           S == {n \in Nat : \E g : R(g, n)}
           f == [n \in Nat |-> (CHOOSE g : R(g, n))[n]]
<1>1. \A n \in Nat : \A g : R(g, n) => g[0] = Outset(loop, offset) /\ \A i \in 1..n : g[i] = P(g[i - 1])
  BY DEF Run
<1>2. ASSUME NEW n \in Nat, NEW g, R(g, n) PROVE \E h : R(h, n + 1)
  <2> DEFINE h == [i \in 0..n + 1 |-> IF i <= n THEN g[i] ELSE P(g[n])]
  <2>1. R(h, n + 1)
    <3>1. \A i \in 0..n + 1 : h[i] = IF i = 0 THEN Outset(loop, offset) ELSE Pass(loop, body, h[i - 1])
      <4> HIDE DEF R
      <4> QED BY <1>1, <1>2
    <3> QED BY <3>1 DEF Run
  <2> QED BY <2>1
<1>3. \A n \in Nat : \E g : R(g, n)
  <2>1. 0 \in S
    <3>1. R([i \in 0..0 |-> Outset(loop, offset)], 0)
      BY DEF Run
    <3> QED BY <3>1
  <2>2. \A n \in S : n + 1 \in S
    BY <1>2
  <2> HIDE DEF R
  <2>3. \A n \in Nat : n \in S
    BY <2>1, <2>2, AllNumbers
  <2> QED BY <2>3
<1> HIDE DEF R
<1>4. ASSUME NEW n \in Nat, NEW m \in Nat, NEW g, NEW h, R(g, n), R(h, m)
      PROVE  \A i \in Nat : i <= n /\ i <= m => g[i] = h[i]
  <2> DEFINE T == {i \in Nat : i <= n /\ i <= m => g[i] = h[i]}
  <2>1. 0 \in T
    BY <1>1, <1>4
  <2>2. \A i \in T : i + 1 \in T
    <3> SUFFICES ASSUME NEW i \in T, i + 1 <= n, i + 1 <= m PROVE g[i + 1] = h[i + 1]
      OBVIOUS
    <3>1. g[i] = h[i] /\ i + 1 \in 1..n /\ i + 1 \in 1..m /\ (i + 1) - 1 = i
      OBVIOUS
    <3>2. g[i + 1] = P(g[i]) /\ h[i + 1] = P(h[i])
      BY <1>1, <1>4, <3>1
    <3> QED BY <3>1, <3>2
  <2>3. \A i \in Nat : i \in T
    BY <2>1, <2>2, AllNumbers
  <2> QED BY <2>3
<1>5. \A n \in Nat : R(CHOOSE g : R(g, n), n)
  BY <1>3
<1>6. f[0] = Outset(loop, offset) /\ \A n \in Nat : f[n + 1] = P(f[n])
  <2>1. f[0] = Outset(loop, offset)
    BY <1>1, <1>5
  <2>2. ASSUME NEW n \in Nat PROVE f[n + 1] = P(f[n])
    <3> DEFINE g == CHOOSE g : R(g, n + 1)
               h == CHOOSE x : R(x, n)
    <3>1. R(g, n + 1) /\ R(h, n)
      BY <1>5
    <3>2. f[n + 1] = g[n + 1] /\ f[n] = h[n]
      OBVIOUS
    <3> HIDE DEF g, h, f, P
    <3>3. g[n] = h[n]
      BY <1>4, <3>1
    <3>4. g[n + 1] = P(g[n])
      <4>1. n + 1 \in 1..(n + 1) /\ (n + 1) - 1 = n /\ n + 1 \in Nat
        OBVIOUS
      <4> QED BY <1>1, <3>1, <4>1
    <3> QED BY <3>2, <3>3, <3>4
  <2> QED BY <2>1, <2>2
<1>7. f = [n \in Nat |-> f[n]]
  OBVIOUS
<1> HIDE DEF f
<1> QED BY <1>6, <1>7 DEF Runs

\* The loops can be unrolled.
LEMMA ReadingSteps ==
    ASSUME NEW body, NEW offset
    PROVE  /\ Reading(body, offset)[0] = Outset("name", offset)
           /\ \A n \in Nat : Reading(body, offset)[n + 1] = ReadLabel(body, Reading(body, offset)[n])
<1> DEFINE r == Reading(body, offset)
           St == Outset("name", offset)
<1>1. r = CHOOSE p : p = [n \in Nat |-> IF n = 0 THEN St ELSE ReadLabel(body, p[n - 1])]
  BY DEF Reading, Outset
<1>2. PICK f : Runs("name", body, offset, f)
  BY LoopRuns
<1> HIDE DEF r
<1>3. St = Outset("name", offset) /\ \A s : Pass("name", body, s) = ReadLabel(body, s)
  BY DEF Outset, Pass
<1> HIDE DEF St
<1>4. f = [n \in Nat |-> IF n = 0 THEN St ELSE ReadLabel(body, f[n - 1])]
  <2>1. \A n \in Nat : f[n] = IF n = 0 THEN St ELSE ReadLabel(body, f[n - 1])
    <3>1. \A n \in Nat : n # 0 => n - 1 \in Nat /\ (n - 1) + 1 = n
      OBVIOUS
    <3> QED BY <1>2, <1>3, <3>1 DEF Runs
  <2> QED BY <1>2, <2>1 DEF Runs
<1>5. r = [n \in Nat |-> IF n = 0 THEN St ELSE ReadLabel(body, r[n - 1])]
  BY <1>1, <1>4
<1>6. \A n \in Nat : n + 1 \in Nat /\ n + 1 # 0 /\ (n + 1) - 1 = n
  OBVIOUS
<1> QED BY <1>5, <1>6 DEF r, St

\* parse_questions() reads one question after the other.
LEMMA QuestionsSteps ==
    ASSUME NEW body
    PROVE  /\ QuestionsOf(body)[0] = [ok |-> TRUE, questions |-> <<>>, end |-> 1]
           /\ \A n \in Nat : QuestionsOf(body)[n + 1] = ReadQuestion(body, QuestionsOf(body)[n])
<1> DEFINE r == QuestionsOf(body)
           St == [ok |-> TRUE, questions |-> <<>>, end |-> 1]
<1>1. r = CHOOSE p : p = [n \in Nat |-> IF n = 0 THEN St ELSE ReadQuestion(body, p[n - 1])]
  BY DEF QuestionsOf
<1>2. PICK f : Runs("questions", body, 1, f)
  BY LoopRuns
<1> HIDE DEF r
<1>3. St = Outset("questions", 1) /\ \A s : Pass("questions", body, s) = ReadQuestion(body, s)
  BY DEF Outset, Pass
<1> HIDE DEF St
<1>4. f = [n \in Nat |-> IF n = 0 THEN St ELSE ReadQuestion(body, f[n - 1])]
  <2>1. \A n \in Nat : f[n] = IF n = 0 THEN St ELSE ReadQuestion(body, f[n - 1])
    <3>1. \A n \in Nat : n # 0 => n - 1 \in Nat /\ (n - 1) + 1 = n
      OBVIOUS
    <3> QED BY <1>2, <1>3, <3>1 DEF Runs
  <2> QED BY <1>2, <2>1 DEF Runs
<1>5. r = [n \in Nat |-> IF n = 0 THEN St ELSE ReadQuestion(body, r[n - 1])]
  BY <1>1, <1>4
<1>6. \A n \in Nat : n + 1 \in Nat /\ n + 1 # 0 /\ (n + 1) - 1 = n
  OBVIOUS
<1> QED BY <1>5, <1>6 DEF r, St

\* iter_records() reads one record after the other.
LEMMA RecordsSteps ==
    ASSUME NEW body, NEW offset
    PROVE  /\ RecordsFrom(body, offset)[0] = [ok |-> TRUE, records |-> <<>>, end |-> offset]
           /\ \A n \in Nat : RecordsFrom(body, offset)[n + 1] = ReadRecord(body, RecordsFrom(body, offset)[n])
<1> DEFINE r == RecordsFrom(body, offset)
           St == [ok |-> TRUE, records |-> <<>>, end |-> offset]
<1>1. r = CHOOSE p : p = [n \in Nat |-> IF n = 0 THEN St ELSE ReadRecord(body, p[n - 1])]
  BY DEF RecordsFrom
<1>2. PICK f : Runs("records", body, offset, f)
  BY LoopRuns
<1> HIDE DEF r
<1>3. St = Outset("records", offset) /\ \A s : Pass("records", body, s) = ReadRecord(body, s)
  BY DEF Outset, Pass
<1> HIDE DEF St
<1>4. f = [n \in Nat |-> IF n = 0 THEN St ELSE ReadRecord(body, f[n - 1])]
  <2>1. \A n \in Nat : f[n] = IF n = 0 THEN St ELSE ReadRecord(body, f[n - 1])
    <3>1. \A n \in Nat : n # 0 => n - 1 \in Nat /\ (n - 1) + 1 = n
      OBVIOUS
    <3> QED BY <1>2, <1>3, <3>1 DEF Runs
  <2> QED BY <1>2, <2>1 DEF Runs
<1>5. r = [n \in Nat |-> IF n = 0 THEN St ELSE ReadRecord(body, r[n - 1])]
  BY <1>1, <1>4
<1>6. \A n \in Nat : n + 1 \in Nat /\ n + 1 # 0 /\ (n + 1) - 1 = n
  OBVIOUS
<1> QED BY <1>5, <1>6 DEF r, St

-------------------------------------------------------------------------------
(* Names *)

\* What the loop of read_name() has.
NameState ==
    [state : {"reading", "read", "malformed"}, cursor : Nat, name : Seq(Nat), jumps : Nat, end : Nat]

\* What one pass does, for a cell that may be looked at.
LEMMA PassTyped ==
    ASSUME NEW body \in Seq(Nat), NEW s \in NameState, 0 \notin Looked(body, s), NEW offset \in Nat,
           s.end = 0 => s.cursor >= offset /\ s.state # "read", s.end # 0 => s.end > offset
    PROVE  LET t == ReadLabel(body, s)
           IN  /\ t \in NameState
               /\ t.end = 0 => t.cursor >= offset /\ t.state # "read"
               /\ t.end # 0 => t.end > offset
<1>1. CASE s.state # "reading"
  BY <1>1 DEF ReadLabel
<1> SUFFICES ASSUME s.state = "reading" PROVE LET t == ReadLabel(body, s)
           IN  /\ t \in NameState
               /\ t.end = 0 => t.cursor >= offset /\ t.state # "read"
               /\ t.end # 0 => t.end > offset
  BY <1>1
<1> DEFINE t == ReadLabel(body, s)
           cell == body[s.cursor]
           past == IF s.end = 0 THEN s.cursor + 1 ELSE s.end
           wrong == \/ s.cursor > Len(body)
                    \/ IsReserved(cell)
                    \/ IsPointer(cell) /\ (cell - 192 >= s.cursor \/ s.jumps = MaxJumps)
                    \/ cell \in 1..63 /\ \/ s.cursor + cell > Len(body)
                                         \/ NameSize(s.name) + cell + 1 > MaxNameLen
<1>2. s.cursor \in Nat \ {0} /\ s.name \in Seq(Nat) /\ s.jumps \in Nat /\ s.end \in Nat
  BY DEF NameState, Looked
<1>3. past \in Nat \ {0} /\ past > offset
  BY <1>2
<1>4. CASE wrong
  <2>1. t = [s EXCEPT !.state = "malformed"]
    BY <1>4 DEF ReadLabel
  <2> QED BY <2>1 DEF NameState
<1>5. CASE ~wrong
  <2>1. s.cursor \in 1..Len(body) /\ cell \in Nat /\ Len(body) \in Nat
    <3>1. ~(s.cursor > Len(body)) /\ Len(body) \in Nat
      BY <1>5
    <3>2. s.cursor \in 1..Len(body)
      BY <1>2, <3>1
    <3> QED BY <3>1, <3>2
  <2>2. /\ ~IsReserved(cell)
        /\ cell \in 1..63 => s.cursor + cell <= Len(body)
    BY <1>2, <1>5, <2>1
  <2>3. s = [state |-> "reading", cursor |-> s.cursor, name |-> s.name, jumps |-> s.jumps, end |-> s.end]
    BY DEF NameState
  <2> DEFINE label == [i \in 1..cell |-> Lower(body[s.cursor + i])]
  <2>4. t = IF IsPointer(cell) THEN [s EXCEPT !.cursor = cell - 192, !.jumps = @ + 1, !.end = past]
            ELSE IF cell = 0 THEN [s EXCEPT !.state = "read", !.end = past]
            ELSE [s EXCEPT !.cursor = @ + cell + 1, !.name = Longer(@, label)]
    BY <1>5 DEF ReadLabel
  <2>5. cell \in 1..63 => label \in Seq(Nat)
    <3> SUFFICES ASSUME cell \in 1..63 PROVE label \in Seq(Nat)
      OBVIOUS
    <3>1. \A i \in 1..cell : s.cursor + i \in 1..Len(body)
      <4> DEFINE c == s.cursor
                 l == Len(body)
      <4>1. c \in Nat \ {0} /\ l \in Nat /\ c + cell <= l /\ cell \in Nat
        BY <1>2, <2>1, <2>2
      <4> HIDE DEF cell, c, l
      <4>2. \A i \in 1..cell : c + i \in 1..l
        BY <4>1
      <4> QED BY <4>2 DEF c, l
    <3>2. \A i \in 1..cell : body[s.cursor + i] \in Nat
      BY <3>1
    <3>3. \A i \in 1..cell : Lower(body[s.cursor + i]) \in Nat
      BY <3>2 DEF Lower
    <3> QED BY <2>1, <3>3
  <2> HIDE DEF past, t, cell, label
  <2>6. CASE IsPointer(cell)
    <3>1. t = [state |-> "reading", cursor |-> cell - 192, name |-> s.name, jumps |-> s.jumps + 1, end |-> past]
      BY <2>3, <2>4, <2>6
    <3>2. cell - 192 \in Nat
      BY <2>1, <2>6 DEF IsPointer
    <3> QED BY <1>2, <1>3, <3>1, <3>2 DEF NameState, t
  <2>7. CASE cell = 0
    <3>1. t = [state |-> "read", cursor |-> s.cursor, name |-> s.name, jumps |-> s.jumps, end |-> past]
      <4>1. ~IsPointer(cell)
        BY <2>7 DEF IsPointer
      <4>2. t = [s EXCEPT !.state = "read", !.end = past]
        BY <2>4, <2>7, <4>1
      <4> QED BY <2>3, <4>2
    <3> QED BY <1>2, <1>3, <3>1 DEF NameState, t
  <2>8. CASE ~IsPointer(cell) /\ cell # 0
    <3>1. t = [state |-> "reading", cursor |-> s.cursor + cell + 1, name |-> Longer(s.name, label),
               jumps |-> s.jumps, end |-> s.end]
      BY <2>3, <2>4, <2>8
    <3>2. cell \in 1..63
      BY <2>1, <2>2, <2>8 DEF IsPointer, IsReserved
    <3>3. Longer(s.name, label) \in Seq(Nat)
      BY <1>2, <2>5, <3>2 DEF Longer, Dot
    <3> QED BY <1>2, <2>1, <3>1, <3>3 DEF NameState, t
  <2> QED BY <2>6, <2>7, <2>8
<1> QED BY <1>4, <1>5

\* A cell that a name may be read from is in both bodies or in neither, and
\* holds the same but for the case of a letter.
Alike(a, b, i) ==
    /\ i # 0
    /\ i \in DOMAIN a <=> i \in DOMAIN b
    /\ i \in DOMAIN a => Lower(a[i]) = Lower(b[i])

\* The case of a letter is nothing to the reader: letters are no lengths and
\* no pointers.
LEMMA CaseOfCell ==
    ASSUME NEW x \in Nat, NEW y \in Nat, Lower(x) = Lower(y)
    PROVE  x = y \/ (IsReserved(x) /\ IsReserved(y))
BY DEF Lower, IsReserved

\* What a cell can be to the reader.
LEMMA CellKinds ==
    ASSUME NEW x \in Nat
    PROVE  /\ IsReserved(x) \/ IsPointer(x) \/ x = 0 \/ x \in 1..63
           /\ x = 0 \/ x \in 1..63 => ~IsReserved(x) /\ ~IsPointer(x)
           /\ IsPointer(x) => ~IsReserved(x) /\ x # 0 /\ x \notin 1..63
           /\ x \in 1..63 => x # 0
BY DEF IsReserved, IsPointer

\* A pass of read_name() over two bodies that are alike where it looks.
LEMMA PassSame ==
    ASSUME NEW a \in Seq(Nat), NEW b \in Seq(Nat), NEW s \in NameState,
           \A i \in Looked(a, s) : Alike(a, b, i)
    PROVE  ReadLabel(a, s) = ReadLabel(b, s)
<1>1. CASE s.state # "reading"
  BY <1>1 DEF ReadLabel
<1>2. CASE s.state = "reading" /\ s.cursor \notin DOMAIN a
  <2>1. s.cursor \in Nat \ {0} /\ s.cursor \notin DOMAIN b
    BY <1>2 DEF Looked, Alike, NameState
  <2>2. s.cursor > Len(a) /\ s.cursor > Len(b)
    <3>1. Len(a) \in Nat /\ Len(b) \in Nat /\ DOMAIN a = 1..Len(a) /\ DOMAIN b = 1..Len(b)
      OBVIOUS
    <3> QED BY <1>2, <2>1, <3>1
  <2> QED BY <1>2, <2>2 DEF ReadLabel
<1>3. CASE s.state = "reading" /\ s.cursor \in DOMAIN a
  <2> DEFINE x == a[s.cursor]
             y == b[s.cursor]
  <2>1. s.cursor \in Looked(a, s)
    <3>1. CASE x \in 1..63
      <4>1. s.cursor \in Nat /\ x \in Nat
        BY <1>3 DEF NameState
      <4>2. s.cursor \in s.cursor..s.cursor + x
        BY <4>1
      <4> QED BY <1>3, <3>1, <4>2 DEF Looked
    <3> QED BY <1>3, <3>1 DEF Looked
  <2>2. s.cursor \in DOMAIN b /\ Lower(x) = Lower(y) /\ x \in Nat /\ y \in Nat
    BY <1>3, <2>1 DEF Alike
  <2>3. /\ s.cursor \in Nat \ {0} /\ Len(a) \in Nat /\ Len(b) \in Nat
        /\ s.cursor <= Len(a) /\ s.cursor <= Len(b)
    BY <1>3, <2>2 DEF NameState
  <2>4. CASE IsReserved(x) /\ IsReserved(y)
    BY <1>3, <2>3, <2>4 DEF ReadLabel
  <2>5. CASE x = y /\ x \notin 1..63
    <3>1. IsReserved(x) \/ IsPointer(x) \/ x = 0
      BY <2>2, <2>5, CellKinds
    <3>2. CASE IsReserved(x)
      BY <1>3, <2>3, <2>5, <3>2 DEF ReadLabel
    <3>3. CASE IsPointer(x) /\ ~IsReserved(x)
      <4>1. x # 0 /\ x \notin 1..63
        BY <2>2, <3>3, CellKinds
      <4> DEFINE past == IF s.end = 0 THEN s.cursor + 1 ELSE s.end
      <4>2. ReadLabel(a, s) =
              IF s.state # "reading" THEN s
              ELSE IF \/ s.cursor > Len(a)
                      \/ IsReserved(x)
                      \/ IsPointer(x) /\ (x - 192 >= s.cursor \/ s.jumps = MaxJumps)
                      \/ x \in 1..63 /\ (s.cursor + x > Len(a) \/ NameSize(s.name) + x + 1 > MaxNameLen)
                   THEN [s EXCEPT !.state = "malformed"]
              ELSE IF IsPointer(x)
                   THEN [s EXCEPT !.cursor = x - 192, !.jumps = @ + 1, !.end = past]
              ELSE IF x = 0 THEN [s EXCEPT !.state = "read", !.end = past]
              ELSE [s EXCEPT !.cursor = @ + x + 1,
                             !.name = Longer(@, [i \in 1..x |-> Lower(a[s.cursor + i])])]
        BY DEF ReadLabel
      <4>3. ReadLabel(b, s) =
              IF s.state # "reading" THEN s
              ELSE IF \/ s.cursor > Len(b)
                      \/ IsReserved(y)
                      \/ IsPointer(y) /\ (y - 192 >= s.cursor \/ s.jumps = MaxJumps)
                      \/ y \in 1..63 /\ (s.cursor + y > Len(b) \/ NameSize(s.name) + y + 1 > MaxNameLen)
                   THEN [s EXCEPT !.state = "malformed"]
              ELSE IF IsPointer(y)
                   THEN [s EXCEPT !.cursor = y - 192, !.jumps = @ + 1, !.end = past]
              ELSE IF y = 0 THEN [s EXCEPT !.state = "read", !.end = past]
              ELSE [s EXCEPT !.cursor = @ + y + 1,
                             !.name = Longer(@, [i \in 1..y |-> Lower(b[s.cursor + i])])]
        BY DEF ReadLabel
      <4> HIDE DEF x, y, past
      <4> DEFINE u == [s EXCEPT !.cursor = x - 192, !.jumps = @ + 1, !.end = past]
                 v == [s EXCEPT !.state = "malformed"]
      <4>4. ~(s.cursor > Len(a)) /\ ~(s.cursor > Len(b)) /\ s.state = "reading"
        BY <1>3, <2>3
      <4>5. ReadLabel(a, s) = IF x - 192 >= s.cursor \/ s.jumps = MaxJumps THEN v ELSE u
        BY <3>3, <4>1, <4>2, <4>4, Zenon
      <4>6. ReadLabel(b, s) = IF x - 192 >= s.cursor \/ s.jumps = MaxJumps THEN v ELSE u
        BY <2>5, <3>3, <4>1, <4>3, <4>4, Zenon
      <4> QED BY <4>5, <4>6
    <3>4. CASE x = 0 /\ ~IsPointer(x) /\ ~IsReserved(x)
      BY <1>3, <2>3, <2>5, <3>4 DEF ReadLabel
    <3>5. x = 0 => ~IsPointer(x) /\ ~IsReserved(x)
      BY DEF IsPointer, IsReserved
    <3> QED BY <3>1, <3>2, <3>3, <3>4, <3>5
  <2>6. CASE x = y /\ x \in 1..63
    <3> DEFINE la == [i \in 1..x |-> Lower(a[s.cursor + i])]
               lb == [i \in 1..x |-> Lower(b[s.cursor + i])]
    <3>1. Looked(a, s) = s.cursor..s.cursor + x
      BY <1>3, <2>6 DEF Looked
    <3>2. \A i \in 0..x : s.cursor + i \in Looked(a, s)
      <4> DEFINE c == s.cursor
      <4>1. c \in Nat /\ x \in Nat
        BY <2>2, <2>3
      <4> HIDE DEF c, x
      <4>2. \A i \in 0..x : c + i \in c..c + x
        BY <4>1
      <4> QED BY <3>1, <4>2 DEF c
    <3>3. s.cursor + x \in DOMAIN a <=> s.cursor + x \in DOMAIN b
      <4>1. s.cursor + x \in Looked(a, s)
        <5>1. x \in 0..x
          <6>1. x \in Nat
            BY <2>2, <2>3
          <6> QED BY <6>1, OwnRange
        <5> QED BY <3>2, <5>1
      <4> QED BY <4>1 DEF Alike
    <3>4. s.cursor + x > Len(a) <=> s.cursor + x > Len(b)
      BY <2>2, <2>3, <3>3
    <3>5. s.cursor + x <= Len(a) => la = lb
      <4> SUFFICES ASSUME s.cursor + x <= Len(a), NEW i \in 1..x PROVE Lower(a[s.cursor + i]) = Lower(b[s.cursor + i])
        OBVIOUS
      <4>1. s.cursor + i \in DOMAIN a /\ s.cursor + i \in Looked(a, s)
        BY <2>2, <2>3, <3>2, SMTT(30)
      <4> QED BY <4>1 DEF Alike
    <3>6. ~IsReserved(x) /\ ~IsPointer(x) /\ x # 0
      BY <2>2, <2>6, CellKinds
    <3>7. ReadLabel(a, s) = IF s.cursor + x > Len(a) \/ NameSize(s.name) + x + 1 > MaxNameLen
                            THEN [s EXCEPT !.state = "malformed"]
                            ELSE [s EXCEPT !.cursor = @ + x + 1, !.name = Longer(@, la)]
      BY <1>3, <2>3, <2>6, <3>6 DEF ReadLabel
    <3>8. ReadLabel(b, s) = IF s.cursor + x > Len(b) \/ NameSize(s.name) + x + 1 > MaxNameLen
                            THEN [s EXCEPT !.state = "malformed"]
                            ELSE [s EXCEPT !.cursor = @ + x + 1, !.name = Longer(@, lb)]
      BY <1>3, <2>3, <2>6, <3>6 DEF ReadLabel
    <3> HIDE DEF x, y, la, lb
    <3>9. CASE s.cursor + x > Len(a)
      BY <3>4, <3>7, <3>8, <3>9
    <3>10. CASE ~(s.cursor + x > Len(a))
      <4>1. la = lb
        BY <2>2, <2>3, <3>5, <3>10
      <4> QED BY <3>4, <3>7, <3>8, <3>10, <4>1
    <3> QED BY <3>9, <3>10
  <2> QED BY <2>2, <2>4, <2>5, <2>6, CaseOfCell
<1> QED BY <1>1, <1>2, <1>3

\* The state of the loop after each pass.
LEMMA ReadingTyped ==
    ASSUME NEW body \in Seq(Nat), NEW offset \in Nat, 0 \notin Trail(body, offset),
           NEW n \in 0..Passes + 1
    PROVE  LET s == Reading(body, offset)[n]
           IN  /\ s \in NameState
               /\ s.end = 0 => s.cursor >= offset /\ s.state # "read"
               /\ s.end # 0 => s.end > offset
<1> DEFINE r == Reading(body, offset)
           OK(s) == /\ s \in NameState
                    /\ s.end = 0 => s.cursor >= offset /\ s.state # "read"
                    /\ s.end # 0 => s.end > offset
           S == {k \in Nat : k <= Passes + 1 => OK(r[k])}
<1>0. Passes \in Nat
  BY MessagesAssumption DEF Passes
<1>1. 0 \in S
  <2>1. r[0] = [state |-> "reading", cursor |-> offset, name |-> <<>>, jumps |-> 0, end |-> 0]
    BY ReadingSteps DEF Outset
  <2>2. <<>> \in Seq(Nat)
    OBVIOUS
  <2> HIDE DEF r
  <2>3. OK(r[0])
    BY <2>1, <2>2 DEF NameState
  <2> QED BY <2>3
<1>2. ASSUME NEW k \in S PROVE k + 1 \in S
  <2> SUFFICES ASSUME k <= Passes PROVE OK(r[k + 1])
    BY <1>0
  <2>1. OK(r[k]) /\ k \in 0..Passes
    BY <1>0
  <2>2. r[k + 1] = ReadLabel(body, r[k])
    BY ReadingSteps
  <2>3. 0 \notin Looked(body, r[k])
    BY <2>1 DEF Trail
  <2> HIDE DEF r
  <2> QED BY <2>1, <2>2, <2>3, PassTyped
<1> HIDE DEF S, OK, r
<1>3. \A k \in Nat : k \in S
  <2>1. S \in SUBSET Nat
    BY DEF S
  <2> QED BY <1>1, <1>2, <2>1, AllNumbers
<1>4. n \in Nat /\ n <= Passes + 1
  BY <1>0
<1> QED BY <1>3, <1>4 DEF S, OK, r

\* A name is what the cells on its trail say.
LEMMA ReadNameSame ==
    ASSUME NEW a \in Seq(Nat), NEW b \in Seq(Nat), NEW offset \in Nat,
           \A i \in Trail(a, offset) : Alike(a, b, i)
    PROVE  /\ ReadName(b, offset) = ReadName(a, offset)
           /\ Trail(b, offset) = Trail(a, offset)
<1> DEFINE ra == Reading(a, offset)
           rb == Reading(b, offset)
           S == {k \in Nat : k <= Passes + 1 => ra[k] = rb[k]}
<1>0. Passes \in Nat
  BY MessagesAssumption DEF Passes
<1>1. 0 \in S
  BY ReadingSteps
<1>2. ASSUME NEW k \in S PROVE k + 1 \in S
  <2> SUFFICES ASSUME k <= Passes PROVE ra[k + 1] = rb[k + 1]
    BY <1>0
  <2>1. ra[k] = rb[k] /\ k \in 0..Passes /\ k \in 0..Passes + 1
    BY <1>0
  <2>2. 0 \notin Trail(a, offset)
    BY DEF Alike
  <2>3. ra[k] \in NameState
    BY <2>1, <2>2, ReadingTyped
  <2>4. \A i \in Looked(a, ra[k]) : Alike(a, b, i)
    BY <2>1 DEF Trail
  <2>5. ra[k + 1] = ReadLabel(a, ra[k]) /\ rb[k + 1] = ReadLabel(b, rb[k])
    BY ReadingSteps
  <2> HIDE DEF ra, rb
  <2> QED BY <2>1, <2>3, <2>4, <2>5, PassSame
<1> HIDE DEF S, ra, rb
<1>3. \A k \in 0..Passes + 1 : ra[k] = rb[k]
  <2>1. S \in SUBSET Nat
    BY DEF S
  <2>2. \A k \in Nat : k \in S
    BY <1>1, <1>2, <2>1, AllNumbers
  <2> QED BY <1>0, <2>2 DEF S
<1>4. ReadName(b, offset) = ReadName(a, offset)
  <2>1. ra[Passes + 1] = rb[Passes + 1]
    BY <1>0, <1>3
  <2> QED BY <2>1 DEF ReadName, NameOf, Passes, ra, rb
<1>5. \A n \in 0..Passes : Looked(b, rb[n]) = Looked(a, ra[n])
  <2> SUFFICES ASSUME NEW n \in 0..Passes PROVE Looked(b, ra[n]) = Looked(a, ra[n])
    BY <1>0, <1>3
  <2> DEFINE s == ra[n]
  <2>1. \A i \in Looked(a, s) : Alike(a, b, i)
    BY DEF Trail, ra
  <2>2. 0 \notin Trail(a, offset)
    BY DEF Alike
  <2>3. s \in NameState
    <3>1. n \in 0..Passes + 1
      BY <1>0
    <3> QED BY <2>2, <3>1, ReadingTyped, Zenon DEF ra
  <2> SUFFICES Looked(b, s) = Looked(a, s)
    OBVIOUS
  <2> HIDE DEF s
  <2>4. s.cursor \in Nat
    BY <2>3 DEF NameState
  <2>5. CASE s.state # "reading"
    BY <2>5 DEF Looked
  <2>6. CASE s.state = "reading" /\ s.cursor \notin DOMAIN a
    <3>1. s.cursor \in Looked(a, s)
      BY <2>6 DEF Looked
    <3>2. s.cursor \notin DOMAIN b
      BY <2>1, <2>6, <3>1 DEF Alike
    <3> QED BY <2>6, <3>2 DEF Looked
  <2>7. CASE s.state = "reading" /\ s.cursor \in DOMAIN a
    <3>1. s.cursor \in Looked(a, s)
      <4>1. a[s.cursor] \in Nat
        BY <2>7
      <4>2. a[s.cursor] \in 1..63 => s.cursor \in s.cursor..s.cursor + a[s.cursor]
        BY <2>4, <4>1
      <4> QED BY <2>7, <4>2 DEF Looked
    <3>2. s.cursor \in DOMAIN b /\ Lower(a[s.cursor]) = Lower(b[s.cursor])
      BY <2>1, <2>7, <3>1 DEF Alike
    <3>3. a[s.cursor] \in Nat /\ b[s.cursor] \in Nat
      BY <2>7, <3>2
    <3>4. a[s.cursor] = b[s.cursor] \/ (a[s.cursor] \notin 1..63 /\ b[s.cursor] \notin 1..63)
      <4>1. \A x, y \in Nat : Lower(x) = Lower(y) => x = y \/ (IsReserved(x) /\ IsReserved(y))
        BY CaseOfCell
      <4>2. \A x \in Nat : IsReserved(x) => x \notin 1..63
        BY DEF IsReserved
      <4> QED BY <3>2, <3>3, <4>1, <4>2
    <3> QED BY <2>7, <3>2, <3>4 DEF Looked
  <2> QED BY <2>5, <2>6, <2>7
<1> QED BY <1>4, <1>5 DEF Trail, ra, rb

\* A name that is read ends after the cell it begins at.
LEMMA NameTyped ==
    ASSUME NEW body \in Seq(Nat), NEW offset \in Nat, 0 \notin Trail(body, offset),
           ReadName(body, offset).ok
    PROVE  LET name == ReadName(body, offset)
           IN  name.name \in Seq(Nat) /\ name.end \in Nat /\ name.end > offset
<1> DEFINE s == Reading(body, offset)[Passes + 1]
<1>1. /\ s \in NameState
      /\ s.end = 0 => s.cursor >= offset /\ s.state # "read"
      /\ s.end # 0 => s.end > offset
  <2>1. Passes + 1 \in 0..Passes + 1
    BY MessagesAssumption DEF Passes
  <2> QED BY <2>1, ReadingTyped
<1>2. ReadName(body, offset) = IF s.state = "read" THEN [ok |-> TRUE, name |-> s.name, end |-> s.end]
                               ELSE [ok |-> FALSE]
  BY DEF ReadName, NameOf, Passes, Malformed
<1> HIDE DEF s
<1>3. s.state = "read"
  BY <1>2
<1> QED BY <1>1, <1>2, <1>3 DEF NameState

-------------------------------------------------------------------------------
(* Questions *)

\* A question that can be read, and where it ends.
LEMMA QuestionRead ==
    ASSUME NEW body \in Seq(Nat), NEW k \in Nat, QuestionsOf(body)[k + 1].ok
    PROVE  LET s    == QuestionsOf(body)[k]
               name == ReadName(body, s.end)
           IN  /\ s.ok /\ name.ok /\ ~(name.end + 1 > Len(body))
               /\ QuestionsOf(body)[k + 1] =
                    [ok |-> TRUE, end |-> name.end + 2, questions |->
                        Append(s.questions, [name |-> name.name, qtype |-> body[name.end],
                                             qclass |-> body[name.end + 1]])]
<1> DEFINE s == QuestionsOf(body)[k]
           t == QuestionsOf(body)[k + 1]
           name == ReadName(body, s.end)
<1>1. t = IF ~s.ok THEN s
          ELSE IF ~name.ok \/ name.end + 1 > Len(body) THEN [ok |-> FALSE]
          ELSE [ok |-> TRUE, end |-> name.end + 2, questions |->
                  Append(s.questions, [name |-> name.name, qtype |-> body[name.end],
                                       qclass |-> body[name.end + 1]])]
  BY QuestionsSteps DEF ReadQuestion, QuestionAfter, Malformed
<1> HIDE DEF s, t, name
<1>2. t.ok
  BY DEF t
<1>3. s.ok /\ name.ok /\ ~(name.end + 1 > Len(body))
  BY <1>1, <1>2
<1> QED BY <1>1, <1>3 DEF s, t, name

\* If all can be read, then so can the first ones.
LEMMA QuestionsReadBefore ==
    ASSUME NEW body \in Seq(Nat), NEW n \in Nat, QuestionsOf(body)[n].ok
    PROVE  \A k \in 0..n : QuestionsOf(body)[k].ok
<1> DEFINE S == {j \in Nat : j <= n => QuestionsOf(body)[n - j].ok}
<1>1. 0 \in S
  OBVIOUS
<1>2. ASSUME NEW j \in S, j + 1 <= n PROVE QuestionsOf(body)[n - (j + 1)].ok
  <2>1. n - (j + 1) \in Nat /\ (n - (j + 1)) + 1 = n - j
    BY <1>2
  <2>2. QuestionsOf(body)[(n - (j + 1)) + 1].ok
    BY <1>2, <2>1
  <2> QED BY <2>1, <2>2, QuestionRead
<1>3. \A j \in Nat : j \in S
  <2>1. S \in SUBSET Nat
    OBVIOUS
  <2>2. \A j \in S : j + 1 \in S
    BY <1>2
  <2> HIDE DEF S
  <2> QED BY <1>1, <2>1, <2>2, AllNumbers
<1>4. \A k \in 0..n : n - k \in Nat /\ n - k <= n /\ n - (n - k) = k
  OBVIOUS
<1> QED BY <1>3, <1>4

\* A question that is read.
Question == [name : Seq(Nat), qtype : Nat, qclass : Nat]

\* What has been read after k questions.
QuestionsWell(body, k, s) ==
    /\ s.end \in Nat /\ k < s.end /\ s.end <= Len(body) + 1
    /\ s.questions \in Seq(Question) /\ Len(s.questions) = k

\* Questions that are read are as many as are asked for, one behind the other.
LEMMA QuestionsTyped ==
    ASSUME NEW body \in Seq(Nat), NEW n \in Nat, QuestionsOf(body)[n].ok,
           0 \notin QuestionTrails(body, n)
    PROVE  \A k \in 0..n : QuestionsWell(body, k, QuestionsOf(body)[k])
<1> DEFINE S == {k \in Nat : k <= n => QuestionsWell(body, k, QuestionsOf(body)[k])}
<1>1. 0 \in S
  <2>1. <<>> \in Seq(Question) /\ Len(<<>>) = 0 /\ Len(body) \in Nat
    OBVIOUS
  <2>2. QuestionsOf(body)[0] = [ok |-> TRUE, questions |-> <<>>, end |-> 1]
    BY QuestionsSteps
  <2> DEFINE z == QuestionsOf(body)[0]
  <2>3. z.end = 1 /\ z.questions = <<>>
    BY <2>2
  <2> HIDE DEF z
  <2>4. QuestionsWell(body, 0, z)
    BY <2>1, <2>3 DEF QuestionsWell
  <2> QED BY <2>4 DEF z
<1>2. ASSUME NEW k \in Nat, QuestionsWell(body, k, QuestionsOf(body)[k]), k + 1 <= n
      PROVE  QuestionsWell(body, k + 1, QuestionsOf(body)[k + 1])
  <2> DEFINE s == QuestionsOf(body)[k]
             t == QuestionsOf(body)[k + 1]
             name == ReadName(body, s.end)
             q == [name |-> name.name, qtype |-> body[name.end], qclass |-> body[name.end + 1]]
  <2>1. k \in 0..n - 1 /\ k + 1 \in 0..n
    BY <1>2
  <2>2. t.ok
    BY <2>1, QuestionsReadBefore
  <2>3. /\ name.ok /\ ~(name.end + 1 > Len(body))
        /\ t = [ok |-> TRUE, end |-> name.end + 2, questions |-> Append(s.questions, q)]
    BY <2>2, QuestionRead
  <2>4. 0 \notin Trail(body, s.end)
    BY <2>1 DEF QuestionTrails
  <2>5. /\ s.end \in Nat /\ k < s.end
        /\ s.questions \in Seq(Question) /\ Len(s.questions) = k
    BY <1>2 DEF QuestionsWell
  <2>6. name.name \in Seq(Nat) /\ name.end \in Nat /\ name.end > s.end
    BY <2>3, <2>4, <2>5, NameTyped
  <2>7. t.end = name.end + 2 /\ t.questions = Append(s.questions, q)
    <3> HIDE DEF s, t, name, q
    <3> QED BY <2>3
  <2>8. /\ name.end \in 1..Len(body) /\ name.end + 1 \in 1..Len(body) /\ name.end + 2 <= Len(body) + 1
        /\ k + 1 < name.end + 2
    <3> DEFINE e == name.end
               f == s.end
               l == Len(body)
    <3>1. e \in Nat /\ f \in Nat /\ l \in Nat /\ k \in Nat /\ ~(e + 1 > l) /\ k < f /\ e > f
      BY <2>3, <2>5, <2>6
    <3> HIDE DEF e, f, l
    <3>2. e \in 1..l /\ e + 1 \in 1..l /\ e + 2 <= l + 1 /\ k + 1 < e + 2
      BY <3>1
    <3> QED BY <3>2 DEF e, l
  <2>9. q \in Question
    <3>1. body[name.end] \in Nat /\ body[name.end + 1] \in Nat
      <4> DEFINE e == name.end
      <4>1. e \in 1..Len(body) /\ e + 1 \in 1..Len(body)
        BY <2>8
      <4> HIDE DEF e
      <4>2. body[e] \in Nat /\ body[e + 1] \in Nat
        BY <4>1
      <4> QED BY <4>2 DEF e
    <3> QED BY <2>6, <3>1 DEF Question
  <2> HIDE DEF s, t, name, q
  <2>10. Append(s.questions, q) \in Seq(Question) /\ Len(Append(s.questions, q)) = k + 1
    BY <2>5, <2>9
  <2>11. t.end \in Nat /\ k + 1 < t.end /\ t.end <= Len(body) + 1
    BY <2>6, <2>7, <2>8, SMTT(30)
  <2> QED BY <2>7, <2>10, <2>11 DEF QuestionsWell, t
<1>3. \A k \in Nat : k \in S
  <2>1. S \in SUBSET Nat
    OBVIOUS
  <2>2. \A k \in S : k + 1 \in S
    BY <1>2
  <2> HIDE DEF S
  <2> QED BY <1>1, <2>1, <2>2, AllNumbers
<1> QED BY <1>3

\* Questions are the same in a body that is alike on their trails, and holds
\* the same types and classes.
LEMMA QuestionsSame ==
    ASSUME NEW a \in Seq(Nat), NEW b \in Seq(Nat), NEW n \in Nat, QuestionsOf(a)[n].ok,
           \A i \in QuestionTrails(a, n) : Alike(a, b, i),
           \A k \in 1..n : LET e == QuestionsOf(a)[k].end
                           IN  e <= Len(b) + 1 /\ b[e - 2] = a[e - 2] /\ b[e - 1] = a[e - 1]
    PROVE  /\ \A k \in 0..n : QuestionsOf(b)[k] = QuestionsOf(a)[k]
           /\ QuestionTrails(b, n) = QuestionTrails(a, n)
<1>0. 0 \notin QuestionTrails(a, n)
  BY DEF Alike
<1>1. \A k \in 0..n : QuestionsOf(a)[k].ok /\ QuestionsOf(a)[k].end \in Nat
  BY <1>0, QuestionsReadBefore, QuestionsTyped DEF QuestionsWell
<1>2. \A k \in 0..n - 1 : LET e == QuestionsOf(a)[k].end
                          IN  ReadName(b, e) = ReadName(a, e) /\ Trail(b, e) = Trail(a, e)
  <2> SUFFICES ASSUME NEW k \in 0..n - 1
               PROVE  LET e == QuestionsOf(a)[k].end
                      IN  ReadName(b, e) = ReadName(a, e) /\ Trail(b, e) = Trail(a, e)
    OBVIOUS
  <2>1. \A i \in Trail(a, QuestionsOf(a)[k].end) : Alike(a, b, i)
    BY DEF QuestionTrails
  <2>2. QuestionsOf(a)[k].end \in Nat
    BY <1>1
  <2> QED BY <2>1, <2>2, ReadNameSame
<1> DEFINE S == {k \in Nat : k <= n => QuestionsOf(b)[k] = QuestionsOf(a)[k]}
<1>3. 0 \in S
  BY QuestionsSteps
<1>4. ASSUME NEW k \in S, k + 1 <= n PROVE QuestionsOf(b)[k + 1] = QuestionsOf(a)[k + 1]
  <2> DEFINE s == QuestionsOf(a)[k]
             name == ReadName(a, s.end)
             t == [ok |-> TRUE, end |-> name.end + 2, questions |->
                    Append(s.questions, [name |-> name.name, qtype |-> a[name.end],
                                         qclass |-> a[name.end + 1]])]
  <2>1. k \in 0..n - 1 /\ k + 1 \in 0..n /\ k + 1 \in 1..n /\ QuestionsOf(b)[k] = s
    BY <1>4
  <2>2. s.ok /\ name.ok /\ QuestionsOf(a)[k + 1] = t
    BY <1>1, <2>1, QuestionRead
  <2>3. ReadName(b, s.end) = name
    BY <1>2, <2>1
  <2>4. name.end \in Nat
    <3>1. 0 \notin Trail(a, s.end)
      BY <1>0, <2>1 DEF QuestionTrails
    <3>2. s.end \in Nat
      BY <1>1, <2>1
    <3> QED BY <2>2, <3>1, <3>2, NameTyped
  <2>5. t.end = name.end + 2
    OBVIOUS
  <2> HIDE DEF name
  <2>6. ~(name.end + 1 > Len(b)) /\ b[name.end] = a[name.end] /\ b[name.end + 1] = a[name.end + 1]
    <3> DEFINE e == name.end
    <3>1. e + 2 <= Len(b) + 1 /\ b[(e + 2) - 2] = a[(e + 2) - 2] /\ b[(e + 2) - 1] = a[(e + 2) - 1]
      <4>1. e + 2 = QuestionsOf(a)[k + 1].end
        BY <2>2, <2>5
      <4> HIDE DEF e
      <4> QED BY <2>1, <4>1
    <3>2. e \in Nat
      BY <2>4
    <3> HIDE DEF e
    <3>3. Len(b) \in Nat /\ (e + 2) - 2 = e /\ (e + 2) - 1 = e + 1
      BY <3>2
    <3>4. ~(e + 1 > Len(b)) /\ b[e] = a[e] /\ b[e + 1] = a[e + 1]
      BY <3>1, <3>2, <3>3
    <3> QED BY <3>4 DEF e
  <2>7. QuestionsOf(b)[k + 1] = ReadQuestion(b, s)
    BY <2>1, QuestionsSteps
  <2> HIDE DEF s
  <2>8. ReadQuestion(b, s) = [ok |-> TRUE, end |-> name.end + 2, questions |->
                    Append(s.questions, [name |-> name.name, qtype |-> b[name.end],
                                         qclass |-> b[name.end + 1]])]
    BY <2>2, <2>3, <2>6 DEF ReadQuestion, QuestionAfter
  <2> QED BY <2>2, <2>6, <2>7, <2>8
<1>5. \A k \in Nat : k \in S
  <2>1. S \in SUBSET Nat
    OBVIOUS
  <2>2. \A k \in S : k + 1 \in S
    BY <1>4
  <2> HIDE DEF S
  <2> QED BY <1>3, <2>1, <2>2, AllNumbers
<1>6. \A k \in 0..n : QuestionsOf(b)[k] = QuestionsOf(a)[k]
  BY <1>5
<1>7. \A k \in 0..n - 1 : Trail(b, QuestionsOf(b)[k].end) = Trail(a, QuestionsOf(a)[k].end)
  BY <1>2, <1>6
<1> QED BY <1>6, <1>7 DEF QuestionTrails
-------------------------------------------------------------------------------
(* Encoded names *)

\* A label ends at the next dot or where the text ends.
LEMMA LabelLengthIs ==
    ASSUME NEW text \in Seq(Nat), NEW i \in 1..Len(text)
    PROVE  /\ LabelLength(text, i) \in 0..Len(text) /\ i + LabelLength(text, i) <= Len(text) + 1
           /\ i + LabelLength(text, i) > Len(text) \/ text[i + LabelLength(text, i)] = Dot
           /\ \A k \in 0..LabelLength(text, i) - 1 : text[i + k] # Dot
<1> DEFINE T == {k \in 0..Len(text) : i + k > Len(text) \/ text[i + k] = Dot}
           m == LabelLength(text, i)
<1>1. Len(text) \in Nat
  OBVIOUS
<1>2. Len(text) - i + 1 \in T
  BY <1>1
<1>3. T \in SUBSET Nat
  BY <1>1
<1>4. \E x \in T : \A y \in T : x <= y
  BY <1>2, <1>3, LeastNumber
<1>5. m = CHOOSE x \in T : \A y \in T : x <= y
  BY DEF LabelLength, Min
<1> HIDE DEF m
<1>6. m \in T /\ \A y \in T : m <= y
  <2> HIDE DEF T
  <2> QED BY <1>4, <1>5
<1>7. m \in 0..Len(text) /\ m <= Len(text) - i + 1
  BY <1>2, <1>6
<1>8. \A k \in 0..m - 1 : k \notin T /\ k \in 0..Len(text)
  <2>1. \A k \in 0..m - 1 : k \in 0..Len(text) /\ ~(m <= k)
    BY <1>1, <1>7
  <2> HIDE DEF T
  <2> QED BY <1>6, <2>1
<1>9. \A k \in 0..m - 1 : text[i + k] # Dot
  BY <1>8
<1> QED BY <1>1, <1>6, <1>7, <1>9 DEF m

\* The wire form of a name that encode_name() accepts.
LEMMA EncodeIs ==
    ASSUME NEW X, Encodable(X), X # <<>>
    PROVE  /\ X \in Seq(Nat) /\ Len(X) \in Nat /\ Len(X) + 2 <= MaxNameLen
           /\ \A i \in LabelStarts(X) : LabelLength(X, i) \in 1..63
           /\ EncodeName(X).cells =
                [i \in 1..Len(X) + 2 |-> IF i > Len(X) + 1 THEN 0
                                         ELSE IF i \in LabelStarts(X) THEN LabelLength(X, i)
                                         ELSE X[i - 1]]
<1> DEFINE c == [i \in 1..Len(X) + 2 |-> IF i > Len(X) + 1 THEN 0
                                         ELSE IF i \in LabelStarts(X) THEN LabelLength(X, i)
                                         ELSE X[i - 1]]
           bad == (\E i \in LabelStarts(X) : LabelLength(X, i) \notin 1..63) \/ Len(X) + 2 > MaxNameLen
<1>1. EncodeName(X) = IF bad THEN [ok |-> FALSE] ELSE [ok |-> TRUE, cells |-> c]
  BY DEF EncodeName, Malformed, Encodable
<1>2. EncodeName(X).ok /\ X \in Seq(Nat)
  BY DEF Encodable
<1> HIDE DEF c, bad
<1>3. ~bad
  BY <1>1, <1>2
<1>4. EncodeName(X).cells = c
  BY <1>1, <1>3
<1>5. Len(X) \in Nat /\ MaxNameLen \in Nat
  BY <1>2, MessagesAssumption
<1>6. ~(Len(X) + 2 > MaxNameLen) /\ \A i \in LabelStarts(X) : LabelLength(X, i) \in 1..63
  BY <1>3 DEF bad
<1> QED BY <1>2, <1>4, <1>5, <1>6 DEF c

\* It has one cell for each dot and character, and two more.
LEMMA EncodeTyped ==
    ASSUME NEW X, Encodable(X)
    PROVE  LET c == EncodeName(X).cells
           IN  c \in Seq(Nat) /\ Len(c) = IF X = <<>> THEN 1 ELSE Len(X) + 2
<1>1. CASE X = <<>>
  <2>1. EncodeName(X) = [ok |-> TRUE, cells |-> <<0>>]
    BY <1>1 DEF EncodeName, Encodable
  <2>2. EncodeName(X).cells = <<0>>
    BY <2>1
  <2>3. <<0>> \in Seq(Nat) /\ Len(<<0>>) = 1
    OBVIOUS
  <2> QED BY <1>1, <2>2, <2>3
<1>2. CASE X # <<>>
  <2> DEFINE n == Len(X) + 2
             e(i) == IF i > Len(X) + 1 THEN 0
                     ELSE IF i \in LabelStarts(X) THEN LabelLength(X, i) ELSE X[i - 1]
  <2>1. EncodeName(X).cells = [i \in 1..n |-> e(i)]
    BY <1>2, EncodeIs
  <2>2. \A i \in 1..n : e(i) \in Nat
    <3>0. Len(X) \in Nat /\ X \in Seq(Nat) /\ \A i \in LabelStarts(X) : LabelLength(X, i) \in Nat
      <4>1. Len(X) \in Nat /\ X \in Seq(Nat) /\ \A i \in LabelStarts(X) : LabelLength(X, i) \in 1..63
        BY <1>2, EncodeIs
      <4>2. \A k \in 1..63 : k \in Nat
        OBVIOUS
      <4> HIDE DEF n, e
      <4> QED BY <4>1, <4>2
    <3>1. ASSUME NEW i \in 1..n, ~(i > Len(X) + 1), i \notin LabelStarts(X) PROVE X[i - 1] \in Nat
      <4>1. i \in Nat /\ 1 <= i /\ i <= Len(X) + 1
        BY <3>0, <3>1
      <4>2. i # 1
        <5>1. Len(X) # 0
          BY <1>2, <3>0
        <5>2. 1 \in DOMAIN X
          BY <3>0, <5>1
        <5> QED BY <3>1, <5>2 DEF LabelStarts
      <4>3. i - 1 \in 1..Len(X)
        BY <3>0, <4>1, <4>2
      <4> QED BY <3>0, <4>3
    <3> HIDE DEF n
    <3> QED BY <3>0, <3>1
  <2>3. n \in Nat
    BY <1>2, EncodeIs
  <2> HIDE DEF e, n
  <2>4. [i \in 1..n |-> e(i)] \in Seq(Nat) /\ Len([i \in 1..n |-> e(i)]) = n
    BY <2>2, <2>3
  <2> QED BY <1>2, <2>1, <2>4 DEF n
<1> QED BY <1>1, <1>2

\* Names without dots around them do not begin or end with one.
LEMMA StrippedIs ==
    ASSUME NEW X \in Seq(Nat), X # <<>>
    PROVE  Stripped(X) = X <=> X[1] # Dot /\ X[Len(X)] # Dot
<1> DEFINE I == {i \in DOMAIN X : X[i] # Dot}
           lo == Min(I)
           hi == Max(I)
           n == Len(X)
<1>1. n \in Nat \ {0} /\ DOMAIN X = 1..n
  <2>1. Len(X) \in Nat /\ DOMAIN X = 1..Len(X)
    OBVIOUS
  <2>2. Len(X) # 0
    OBVIOUS
  <2> QED BY <2>1, <2>2
<1>2. CASE I = {}
  <2>1. Stripped(X) = <<>>
    BY <1>2 DEF Stripped
  <2>2. X[1] = Dot
    BY <1>1, <1>2
  <2> QED BY <2>1, <2>2
<1>3. CASE I # {}
  <2>1. I \in SUBSET Nat
    BY <1>1
  <2>2. PICK x \in I : \A y \in I : x <= y
    BY <1>3, <2>1, LeastNumber
  <2>3. lo = CHOOSE x1 \in I : \A y \in I : x1 <= y
    BY DEF Min
  <2>4. lo \in I /\ \A y \in I : lo <= y
    <3> HIDE DEF I, lo
    <3> QED BY <2>2, <2>3
  <2> DEFINE J == {n - i : i \in I}
  <2>5. PICK w \in J : \A y \in J : w <= y
    <3>1. J \in SUBSET Nat /\ J # {}
      <4> HIDE DEF n
      <4> QED BY <1>1, <1>3
    <3> HIDE DEF J
    <3> QED BY <3>1, LeastNumber
  <2>6. PICK z \in I : w = n - z
    OBVIOUS
  <2>7. \A y \in I : y <= z
    <3> SUFFICES ASSUME NEW y \in I PROVE y <= z
      OBVIOUS
    <3>1. n - y \in J /\ n - z <= n - y
      BY <2>5, <2>6
    <3>2. y \in Nat /\ z \in Nat /\ n \in Nat
      BY <1>1, <2>1
    <3> HIDE DEF n, I, J
    <3> QED BY <3>1, <3>2
  <2>8. hi = CHOOSE x1 \in I : \A y \in I : x1 >= y
    BY DEF Max
  <2>9. hi \in I /\ \A y \in I : hi >= y
    <3>1. \A y \in I : z >= y
      BY <1>1, <2>1, <2>7
    <3> HIDE DEF I, hi
    <3> QED BY <2>8, <3>1
  <2>10. Stripped(X) = SubSeq(X, lo, hi)
    BY <1>3 DEF Stripped
  <2>11. lo \in 1..n /\ hi \in 1..n /\ X[lo] # Dot /\ X[hi] # Dot /\ lo <= hi
    BY <1>1, <2>4, <2>9
  <2> HIDE DEF lo, hi, n
  <2>12. Len(SubSeq(X, lo, hi)) = hi - lo + 1
    BY <1>1, <2>11 DEF n
  <2>13. ASSUME Stripped(X) = X PROVE X[1] # Dot /\ X[n] # Dot
    <3>1. hi - lo + 1 = n
      BY <2>10, <2>12, <2>13 DEF n
    <3>2. lo = 1 /\ hi = n
      BY <1>1, <2>11, <3>1
    <3> QED BY <2>11, <3>2
  <2>14. ASSUME X[1] # Dot, X[n] # Dot PROVE Stripped(X) = X
    <3>1. 1 \in I /\ n \in I
      BY <1>1, <2>14
    <3>2. lo = 1 /\ hi = n
      BY <1>1, <2>4, <2>9, <2>11, <3>1, SMTT(30)
    <3> QED BY <2>10, <3>2 DEF n
  <2> QED BY <2>13, <2>14 DEF n
<1> QED BY <1>2, <1>3

\* A name in lower case.
Lowered(name) == [i \in DOMAIN name |-> Lower(name[i])]

\* What read_name() has at the length of a label of X.
SoFar(X, c) == IF c = 1 THEN <<>> ELSE [i \in 1..c - 2 |-> Lower(X[i])]
At(X, c, j, e) == [state |-> "reading", cursor |-> c, name |-> SoFar(X, c), jumps |-> j, end |-> e]
ReadAll(X, c, j, e) ==
    [state |-> "read", cursor |-> c, name |-> Lowered(X), jumps |-> j, end |-> IF e = 0 THEN c + 1 ELSE e]

\* Small numbers are no letters.
LEMMA LowerSmall ==
    ASSUME NEW x \in Nat, NEW k \in 0..63, Lower(x) = Lower(k)
    PROVE  x = k
BY DEF Lower

\* A pass of read_name() over a label that encode_name() wrote.
LEMMA LabelPass ==
    ASSUME NEW X, Encodable(X), X # <<>>, NEW body \in Seq(Nat), Written(body, X),
           NEW c \in LabelStarts(X), NEW j, NEW e
    PROVE  LET n == c + LabelLength(X, c) + 1
           IN  /\ n \in LabelStarts(X) \cup {Len(X) + 2} /\ n > c
               /\ ReadLabel(body, At(X, c, j, e)) = At(X, n, j, e)
               /\ Looked(body, At(X, c, j, e)) \subseteq 1..Len(X) + 2
<1> DEFINE k == LabelLength(X, c)
           n == c + k + 1
           l == Len(X)
           s == At(X, c, j, e)
           cells == EncodeName(X).cells
<1>1. X \in Seq(Nat) /\ l \in Nat /\ k \in 1..63 /\ MaxNameLen \in Nat /\ l + 2 <= MaxNameLen
      /\ c \in 1..l /\ (c = 1 \/ X[c - 1] = Dot)
  <2>1. X \in Seq(Nat) /\ l \in Nat /\ k \in 1..63 /\ l + 2 <= MaxNameLen
    BY EncodeIs
  <2>2. c \in 1..l /\ (c = 1 \/ X[c - 1] = Dot)
    BY <2>1 DEF LabelStarts
  <2> QED BY <2>1, <2>2, MessagesAssumption
<1>2. /\ c + k <= l + 1
      /\ c + k > l \/ X[c + k] = Dot
      /\ \A i \in 0..k - 1 : X[c + i] # Dot
  BY <1>1, LabelLengthIs
<1>3. X[1] # Dot /\ X[l] # Dot
  BY <1>1, StrippedIs DEF Encodable
<1>4. cells = [i \in 1..l + 2 |-> IF i > l + 1 THEN 0
                                  ELSE IF i \in LabelStarts(X) THEN LabelLength(X, i)
                                  ELSE X[i - 1]]
  BY EncodeIs
<1>5. \A i \in 1..l + 2 : i \in 1..Len(body) /\ body[i] \in Nat /\ Lower(body[i]) = Lower(cells[i])
  BY <1>4 DEF Written
<1> HIDE DEF k, l, cells
<1>6. c + k <= l + 1 /\ (c + k > l \/ X[c + k] = Dot)
  BY <1>1, <1>2, LabelLengthIs DEF k, l
<1>7. n \in LabelStarts(X) \cup {l + 2} /\ n > c
  <2>1. CASE c + k > l
    BY <1>1, <1>6, <2>1
  <2>2. CASE X[c + k] = Dot /\ ~(c + k > l)
    <3>1. c + k # l
      BY <1>3, <2>2
    <3>2. n \in 1..l /\ n - 1 = c + k /\ n > c
      BY <1>1, <2>2, <3>1
    <3> QED BY <1>1, <2>2, <3>2, SMTT(30) DEF LabelStarts, l
  <2> QED BY <1>6, <2>1, <2>2
<1>8. body[c] = k /\ c <= Len(body) /\ c + k <= Len(body) /\ c \in DOMAIN body
  <2>1. c \in 1..l + 2 /\ ~(c > l + 1) /\ c + k \in 1..l + 2 /\ k \in 0..63
    BY <1>1, <1>6
  <2>2. cells[c] = k
    BY <1>4, <2>1 DEF k
  <2>3. body[c] \in Nat /\ Lower(body[c]) = Lower(k)
    BY <1>5, <2>1, <2>2
  <2>4. body[c] = k
    BY <2>1, <2>3, LowerSmall
  <2> QED BY <1>5, <2>1, <2>4
<1> DEFINE label == [i \in 1..k |-> Lower(body[c + i])]
<1>9. \A i \in 1..k : label[i] = Lower(X[c + i - 1])
  <2> SUFFICES ASSUME NEW i \in 1..k PROVE Lower(body[c + i]) = Lower(X[c + i - 1])
    OBVIOUS
  <2>1. c + i \in 1..l + 2 /\ ~(c + i > l + 1) /\ (c + i) - 1 = c + (i - 1) /\ i - 1 \in 0..k - 1 /\ c + i # 1
        /\ c + i - 1 = (c + i) - 1
    BY <1>1, <1>6
  <2>2. X[(c + i) - 1] # Dot
    BY <1>2, <2>1 DEF k
  <2>3. c + i \notin LabelStarts(X)
    BY <2>1, <2>2 DEF LabelStarts
  <2>4. cells[c + i] = X[(c + i) - 1]
    BY <1>4, <2>1, <2>3
  <2> QED BY <1>5, <2>1, <2>4
<1>10. c # 2 /\ NameSize(SoFar(X, c)) = c - 1
  <2>1. c # 2
    BY <1>1, <1>3
  <2>2. CASE c = 1
    BY <2>2 DEF SoFar, NameSize
  <2>3. CASE c # 1
    <3>1. c - 2 \in Nat \ {0}
      BY <1>1, <2>1, <2>3
    <3>2. Len([i \in 1..c - 2 |-> Lower(X[i])]) = c - 2
      BY <3>1
    <3>3. SoFar(X, c) # <<>> /\ Len(SoFar(X, c)) = c - 2
      BY <2>3, <3>1, <3>2 DEF SoFar
    <3> QED BY <1>1, <2>1, <3>1, <3>3 DEF NameSize
  <2> QED BY <2>1, <2>2, <2>3
<1>11. Longer(SoFar(X, c), label) = SoFar(X, n)
  <2>1. n # 1 /\ SoFar(X, n) = [i \in 1..c + k - 1 |-> Lower(X[i])]
    <3>1. n # 1 /\ n - 2 = c + k - 1
      BY <1>1
    <3> QED BY <3>1 DEF SoFar
  <2>2. label = [i \in 1..k |-> Lower(X[c + i - 1])]
    BY <1>9
  <2> HIDE DEF label
  <2>3. CASE c = 1
    <3>1. \A i \in 1..k : c + i - 1 = i
      BY <1>1, <2>3
    <3>2. label = [i \in 1..k |-> Lower(X[i])] /\ c + k - 1 = k
      BY <1>1, <2>2, <2>3, <3>1
    <3> QED BY <2>1, <2>3, <3>2 DEF Longer, SoFar
  <2>4. CASE c # 1
    <3> DEFINE p == c - 2
               pre == [i \in 1..p |-> Lower(X[i])]
    <3>1. p \in Nat \ {0} /\ p + 1 = c - 1
      BY <1>1, <1>10, <2>4
    <3>2. SoFar(X, c) = pre /\ pre # <<>> /\ pre \in Seq(Nat) /\ Len(pre) = p
      <4>1. \A i \in 1..p : Lower(X[i]) \in Nat
        <5>1. \A i \in 1..p : X[i] \in Nat
          BY <1>1, <3>1 DEF l
        <5> QED BY <5>1 DEF Lower
      <4>2. SoFar(X, c) = pre
        BY <2>4 DEF SoFar
      <4> HIDE DEF p
      <4>3. pre \in Seq(Nat) /\ Len(pre) = p
        BY <3>1, <4>1
      <4>4. pre # <<>>
        <5> HIDE DEF pre
        <5> QED BY <3>1, <4>3
      <4> QED BY <4>2, <4>3, <4>4
    <3>3. label \in Seq(Nat) /\ Len(label) = k
      <4>1. \A i \in 1..k : Lower(X[c + i - 1]) \in Nat
        <5>1. \A i \in 1..k : c + i - 1 \in 1..l
          BY <1>1, <1>6
        <5>2. \A i \in 1..k : X[c + i - 1] \in Nat
          BY <1>1, <5>1, SMTT(30) DEF l
        <5> QED BY <5>2 DEF Lower
      <4> QED BY <1>1, <2>2, <4>1
    <3> HIDE DEF pre, p
    <3>4. Longer(SoFar(X, c), label) = (pre \o <<Dot>>) \o label
      BY <3>2 DEF Longer
    <3> DEFINE new == (pre \o <<Dot>>) \o label
    <3>5. new \in Seq(Nat) /\ Len(new) = c + k - 1
      BY <1>1, <3>1, <3>2, <3>3 DEF Dot, p
    <3>6. ASSUME NEW i \in 1..c + k - 1 PROVE new[i] = Lower(X[i])
      <4>0. k \in Nat /\ c \in Nat /\ p \in Nat /\ c = p + 2 /\ i \in Nat
        BY <1>1, <3>1, <3>6 DEF p
      <4>1. CASE i <= p
        <5>1. new[i] = pre[i] /\ i \in 1..p
          BY <3>2, <3>3, <3>6, <4>0, <4>1
        <5> QED BY <5>1 DEF pre
      <4>2. CASE i = p + 1
        <5>1. new[i] = Dot
          <6> DEFINE one == pre \o <<Dot>>
          <6>1. Len(<<Dot>>) = 1 /\ <<Dot>>[1] = Dot /\ <<Dot>> \in Seq(Nat)
            BY DEF Dot
          <6> HIDE DEF Dot
          <6>2. one \in Seq(Nat) /\ Len(one) = p + 1 /\ one[p + 1] = Dot
            BY <3>2, <4>0, <6>1
          <6> HIDE DEF one
          <6>3. (one \o label)[p + 1] = one[p + 1]
            BY <3>3, <4>0, <6>2
          <6> QED BY <4>2, <6>2, <6>3 DEF one
        <5>2. X[i] = Dot
          BY <1>1, <2>4, <3>1, <4>2
        <5>3. Lower(Dot) = Dot
          BY DEF Lower, Dot
        <5> QED BY <5>1, <5>2, <5>3
      <4>3. CASE i > p + 1
        <5>1. i - (p + 1) \in 1..k /\ c + (i - (p + 1)) - 1 = i
          BY <3>6, <4>0, <4>3
        <5>2. new[i] = label[i - (p + 1)]
          BY <3>2, <3>3, <3>6, <4>0, <4>3
        <5> QED BY <2>2, <5>1, <5>2
      <4>4. i <= p \/ i = p + 1 \/ i > p + 1
        BY <4>0
      <4> HIDE DEF new
      <4> QED BY <4>1, <4>2, <4>3, <4>4
    <3>7. new = [i \in 1..c + k - 1 |-> new[i]]
      BY <3>5, SMTT(30)
    <3> HIDE DEF new
    <3> QED BY <2>1, <3>4, <3>6, <3>7 DEF new
  <2> QED BY <2>3, <2>4
<1>12. ReadLabel(body, s) = At(X, n, j, e)
  <2> DEFINE wrong == \/ c > Len(body)
                      \/ IsReserved(k)
                      \/ IsPointer(k) /\ (k - 192 >= c \/ j = MaxJumps)
                      \/ k \in 1..63 /\ (c + k > Len(body) \/ NameSize(SoFar(X, c)) + k + 1 > MaxNameLen)
  <2>1. k \in Nat /\ ~IsReserved(k) /\ ~IsPointer(k) /\ k # 0
    BY <1>1, CellKinds
  <2>2. ~wrong
    <3>1. Len(body) \in Nat /\ ~(c > Len(body)) /\ ~(c + k > Len(body))
      BY <1>1, <1>8
    <3>2. ~(NameSize(SoFar(X, c)) + k + 1 > MaxNameLen)
      BY <1>1, <1>6, <1>10
    <3> QED BY <2>1, <3>1, <3>2
  <2> HIDE DEF k, label
  <2>3. s.state = "reading" /\ s.cursor = c /\ s.name = SoFar(X, c) /\ s.jumps = j /\ s.end = e
    BY DEF At
  <2>4. ReadLabel(body, s) = [s EXCEPT !.cursor = c + k + 1, !.name = Longer(SoFar(X, c), label)]
    <3> HIDE DEF s
    <3>1. ReadLabel(body, s) =
            IF wrong THEN [s EXCEPT !.state = "malformed"]
            ELSE IF IsPointer(k) THEN [s EXCEPT !.cursor = k - 192, !.jumps = s.jumps + 1,
                                                !.end = IF e = 0 THEN c + 1 ELSE e]
            ELSE IF k = 0 THEN [s EXCEPT !.state = "read", !.end = IF e = 0 THEN c + 1 ELSE e]
            ELSE [s EXCEPT !.cursor = c + k + 1, !.name = Longer(SoFar(X, c), label)]
      BY <1>8, <2>3 DEF ReadLabel, label
    <3> HIDE DEF wrong
    <3> QED BY <2>1, <2>2, <3>1, Zenon
  <2> QED BY <1>11, <2>4 DEF At
<1>13. Looked(body, s) \subseteq 1..l + 2
  <2>1. s.state = "reading" /\ s.cursor = c
    BY DEF At
  <2> HIDE DEF s
  <2>2. Looked(body, s) = c..c + k
    BY <1>1, <1>8, <2>1 DEF Looked
  <2> QED BY <1>1, <1>6, <2>2
<1> QED BY <1>7, <1>12, <1>13 DEF k, l

\* The pass over the zero at the end of an encoded name.
LEMMA LastPass ==
    ASSUME NEW X, Encodable(X), NEW body \in Seq(Nat), Written(body, X), NEW j, NEW e
    PROVE  LET z == Len(EncodeName(X).cells)
           IN  /\ ReadLabel(body, At(X, z, j, e)) = ReadAll(X, z, j, e)
               /\ Looked(body, At(X, z, j, e)) = {z}
<1> DEFINE cells == EncodeName(X).cells
           z == Len(cells)
           s == At(X, z, j, e)
<1>1. cells \in Seq(Nat) /\ z \in Nat \ {0} /\ cells[z] = 0 /\ z \in DOMAIN cells
  <2>1. CASE X = <<>>
    <3>1. EncodeName(X) = [ok |-> TRUE, cells |-> <<0>>]
      BY <2>1 DEF EncodeName, Encodable
    <3>2. cells = <<0>>
      BY <3>1
    <3> HIDE DEF cells
    <3> QED BY <3>2
  <2>2. CASE X # <<>>
    <3>1. cells \in Seq(Nat) /\ z = Len(X) + 2 /\ Len(X) \in Nat
      BY <2>2, EncodeTyped, EncodeIs
    <3>2. z \in 1..Len(X) + 2 /\ z > Len(X) + 1
      BY <3>1
    <3>3. cells = [i \in 1..Len(X) + 2 |-> IF i > Len(X) + 1 THEN 0
                                  ELSE IF i \in LabelStarts(X) THEN LabelLength(X, i)
                                  ELSE X[i - 1]]
      BY <2>2, EncodeIs
    <3> HIDE DEF cells, z
    <3> QED BY <3>1, <3>2, <3>3
  <2> QED BY <2>1, <2>2
<1>2. SoFar(X, z) = Lowered(X)
  <2>1. CASE X = <<>>
    <3>1. z = 1
      BY <2>1, EncodeTyped
    <3>2. DOMAIN X = {} /\ DOMAIN <<>> = {}
      BY <2>1
    <3>3. Lowered(X) = <<>>
      BY <3>2 DEF Lowered
    <3> HIDE DEF z
    <3> QED BY <3>1, <3>3 DEF SoFar
  <2>2. CASE X # <<>>
    <3>1. z = Len(X) + 2 /\ Len(X) \in Nat /\ X \in Seq(Nat)
      BY <2>2, EncodeTyped, EncodeIs
    <3> HIDE DEF z
    <3>2. z # 1 /\ z - 2 = Len(X) /\ DOMAIN X = 1..Len(X)
      BY <3>1
    <3> QED BY <3>2 DEF SoFar, Lowered
  <2> QED BY <2>1, <2>2
<1>3. z \in DOMAIN body /\ body[z] = 0
  <2>1. z \in DOMAIN body /\ Lower(body[z]) = Lower(0)
    BY <1>1 DEF Written
  <2>2. body[z] \in Nat /\ 0 \in 0..63
    BY <2>1
  <2>3. body[z] = 0
    <3> DEFINE x == body[z]
    <3> HIDE DEF x
    <3>1. x \in Nat /\ Lower(x) = Lower(0) /\ 0 \in 0..63
      BY <2>1, <2>2 DEF x
    <3>2. x = 0
      BY <3>1, LowerSmall
    <3> QED BY <3>2 DEF x
  <2> QED BY <2>1, <2>3
<1> HIDE DEF z, cells
<1>4. s.state = "reading" /\ s.cursor = z /\ s.name = SoFar(X, z) /\ s.jumps = j /\ s.end = e
  BY DEF At
<1>5. ReadLabel(body, s) = [s EXCEPT !.state = "read", !.end = IF e = 0 THEN z + 1 ELSE e]
  <2> HIDE DEF s
  <2>1. ~(z > Len(body)) /\ ~IsReserved(0) /\ ~IsPointer(0) /\ ~(0 \in 1..63)
    BY <1>1, <1>3, CellKinds
  <2> QED BY <1>3, <1>4, <2>1 DEF ReadLabel
<1>6. Looked(body, s) = {z}
  <2> HIDE DEF s
  <2>1. ~(0 \in 1..63)
    OBVIOUS
  <2> QED BY <1>3, <1>4, <2>1 DEF Looked
<1> QED BY <1>2, <1>5, <1>6 DEF At, ReadAll, z, cells

\* Where the loop stops on the way over an encoded name.
LEMMA StopsIn ==
    ASSUME NEW X, Encodable(X)
    PROVE  LET z == Len(EncodeName(X).cells)
               stops == IF X = <<>> THEN {1} ELSE LabelStarts(X) \cup {z}
           IN  z \in Nat /\ z >= 1 /\ 1 \in stops /\ \A c \in stops : c \in 1..z
<1> DEFINE z == Len(EncodeName(X).cells)
           stops == IF X = <<>> THEN {1} ELSE LabelStarts(X) \cup {z}
<1>1. z \in Nat /\ z >= 1 /\ \A c \in stops : c \in 1..z
  <2>1. CASE X = <<>>
    <3>1. z = 1
      BY <2>1, EncodeTyped
    <3>2. stops = {1}
      BY <2>1
    <3> HIDE DEF z, stops
    <3> QED BY <3>1, <3>2
  <2>2. CASE X # <<>>
    <3>1. z = Len(X) + 2 /\ Len(X) \in Nat /\ X \in Seq(Nat)
      BY <2>2, EncodeTyped, EncodeIs
    <3>2. LabelStarts(X) \subseteq DOMAIN X /\ DOMAIN X = 1..Len(X)
      BY <3>1 DEF LabelStarts
    <3>3. stops = LabelStarts(X) \cup {z}
      BY <2>2
    <3> DEFINE l == Len(X)
    <3>4. l \in Nat /\ z = l + 2 /\ \A c \in stops : c \in 1..l \/ c = z
      BY <3>1, <3>2, <3>3
    <3> HIDE DEF z, stops, l
    <3> QED BY <3>4
  <2> QED BY <2>1, <2>2
<1>2. 1 \in stops
  <2>1. CASE X # <<>>
    <3>1. X \in Seq(Nat) /\ Len(X) \in Nat
      BY <2>1, EncodeIs
    <3>2. Len(X) # 0
      BY <2>1, <3>1
    <3> QED BY <2>1, <3>1, <3>2 DEF LabelStarts
  <2> QED BY <2>1
<1> QED BY <1>1, <1>2

\* From pass m on the loop goes over an encoded name and stays at its end.
Crosses(X, body, r, m, j, e) ==
    \A k \in Nat : /\ Looked(body, r[m + k]) \subseteq 1..Len(EncodeName(X).cells)
                   /\ k >= Len(EncodeName(X).cells)
                        => r[m + k] = ReadAll(X, Len(EncodeName(X).cells), j, e)

\* How the loop goes over an encoded name, from any pass on.
LEMMA LoopOver ==
    ASSUME NEW X, Encodable(X), NEW body \in Seq(Nat), Written(body, X),
           NEW r, NEW m \in Nat, NEW j, NEW e, r[m] = At(X, 1, j, e),
           \A n \in Nat : r[n + 1] = ReadLabel(body, r[n])
    PROVE  Crosses(X, body, r, m, j, e)
<1> DEFINE z == Len(EncodeName(X).cells)
           stops == IF X = <<>> THEN {1} ELSE LabelStarts(X) \cup {z}
           Here(k) == \/ \E c \in stops : c > k /\ r[m + k] = At(X, c, j, e)
                      \/ r[m + k] = ReadAll(X, z, j, e)
           S == {k \in Nat : Here(k)}
<1>1. z \in Nat /\ z >= 1 /\ \A c \in stops : c \in 1..z
  BY StopsIn
<1>2. 1 \in stops
  BY StopsIn
<1>3. \A k \in Nat : r[(m + k) + 1] = ReadLabel(body, r[m + k])
  OBVIOUS
<1>4. 0 \in S
  <2>1. m + 0 = m /\ 0 \in Nat /\ 1 > 0
    OBVIOUS
  <2>2. r[m + 0] = At(X, 1, j, e)
    BY <2>1
  <2> HIDE DEF stops, z
  <2>3. Here(0)
    BY <1>2, <2>1, <2>2
  <2> HIDE DEF Here
  <2> QED BY <2>1, <2>3
<1>5. ASSUME NEW c \in stops
      PROVE  /\ Looked(body, At(X, c, j, e)) \subseteq 1..z
             /\ \/ ReadLabel(body, At(X, c, j, e)) = ReadAll(X, z, j, e)
                \/ \E d \in stops : d > c /\ ReadLabel(body, At(X, c, j, e)) = At(X, d, j, e)
  <2>1. CASE c = z
    <3>1. ReadLabel(body, At(X, z, j, e)) = ReadAll(X, z, j, e) /\ Looked(body, At(X, z, j, e)) = {z}
      BY LastPass
    <3> HIDE DEF z, stops
    <3> QED BY <1>1, <2>1, <3>1
  <2>2. CASE c # z
    <3>1. X # <<>>
      BY <2>2, EncodeTyped
    <3>2. c \in LabelStarts(X) /\ z = Len(X) + 2
      BY <2>2, <3>1, EncodeTyped
    <3> DEFINE d == c + LabelLength(X, c) + 1
    <3>3. /\ d \in LabelStarts(X) \cup {z} /\ d > c
          /\ ReadLabel(body, At(X, c, j, e)) = At(X, d, j, e)
          /\ Looked(body, At(X, c, j, e)) \subseteq 1..z
      <4>1. LET n == c + LabelLength(X, c) + 1
            IN  /\ n \in LabelStarts(X) \cup {Len(X) + 2} /\ n > c
                /\ ReadLabel(body, At(X, c, j, e)) = At(X, n, j, e)
                /\ Looked(body, At(X, c, j, e)) \subseteq 1..Len(X) + 2
        BY <3>1, <3>2, LabelPass
      <4> HIDE DEF z
      <4> QED BY <3>2, <4>1
    <3>4. d \in stops
      <4>1. stops = LabelStarts(X) \cup {z}
        BY <3>1
      <4> HIDE DEF d, z, stops
      <4> QED BY <3>3, <4>1
    <3> HIDE DEF d, z, stops
    <3> QED BY <3>3, <3>4
  <2> QED BY <2>1, <2>2
<1>6. ReadLabel(body, ReadAll(X, z, j, e)) = ReadAll(X, z, j, e) /\ Looked(body, ReadAll(X, z, j, e)) = {}
  <2> DEFINE t == ReadAll(X, z, j, e)
  <2>1. t.state # "reading"
    BY DEF ReadAll
  <2> HIDE DEF t
  <2>2. ReadLabel(body, t) = t
    BY <2>1, Zenon DEF ReadLabel
  <2>3. Looked(body, t) = {}
    BY <2>1, Zenon DEF Looked
  <2> QED BY <2>2, <2>3 DEF t
<1> HIDE DEF z, stops
<1>7. \A k \in Nat : k \in S
  <2>1. S \in SUBSET Nat
    OBVIOUS
  <2>2. ASSUME NEW k \in S PROVE k + 1 \in S
    <3> SUFFICES Here(k + 1)
      OBVIOUS
    <3> k \in Nat /\ Here(k)
      OBVIOUS
    <3>0. r[m + (k + 1)] = ReadLabel(body, r[m + k])
      <4>1. m + (k + 1) = (m + k) + 1
        OBVIOUS
      <4> QED BY <1>3, <4>1
    <3>1. CASE \E c \in stops : c > k /\ r[m + k] = At(X, c, j, e)
      <4>1. PICK c \in stops : c > k /\ r[m + k] = At(X, c, j, e)
        BY <3>1
      <4>2. \A d \in stops : d > c => d > k + 1
        BY <1>1, <4>1
      <4> QED BY <1>5, <3>0, <4>1, <4>2
    <3>2. CASE r[m + k] = ReadAll(X, z, j, e)
      BY <1>6, <3>0, <3>2
    <3> QED BY <3>1, <3>2
  <2> HIDE DEF S
  <2> QED BY <1>4, <2>1, <2>2, AllNumbers
<1>8. ASSUME NEW k \in Nat
      PROVE  Looked(body, r[m + k]) \subseteq 1..z /\ (k >= z => r[m + k] = ReadAll(X, z, j, e))
  <2>1. Here(k)
    BY <1>7
  <2>2. CASE \E c \in stops : c > k /\ r[m + k] = At(X, c, j, e)
    <3>1. PICK c \in stops : c > k /\ r[m + k] = At(X, c, j, e)
      BY <2>2
    <3>2. ~(k >= z)
      BY <1>1, <3>1
    <3> QED BY <1>5, <3>1, <3>2
  <2>3. CASE r[m + k] = ReadAll(X, z, j, e)
    BY <1>6, <2>3
  <2> QED BY <2>1, <2>2, <2>3
<1> QED BY <1>8 DEF z, Crosses

\* What is read of an encoded name that a body begins with.
LEMMA ReadEncoded ==
    ASSUME NEW X, Encodable(X), NEW body \in Seq(Nat), Written(body, X)
    PROVE  LET z == Len(EncodeName(X).cells)
           IN  /\ ReadName(body, 1) = [ok |-> TRUE, name |-> Lowered(X), end |-> z + 1]
               /\ Trail(body, 1) \subseteq 1..z
               /\ z \in Nat \ {0} /\ z <= Passes
<1> DEFINE z == Len(EncodeName(X).cells)
           r == Reading(body, 1)
<1>1. MaxJumps \in Nat /\ MaxNameLen \in Nat /\ MaxJumps # 0
  BY MessagesAssumption
<1>2. z \in Nat \ {0} /\ z <= Passes
  <2>1. CASE X = <<>>
    <3>1. z = 1
      BY <2>1, EncodeTyped
    <3> HIDE DEF z
    <3> QED BY <1>1, <3>1 DEF Passes
  <2>2. CASE X # <<>>
    <3>1. z = Len(X) + 2 /\ Len(X) \in Nat /\ Len(X) + 2 <= MaxNameLen
      BY <2>2, EncodeTyped, EncodeIs
    <3> HIDE DEF z
    <3> QED BY <1>1, <3>1 DEF Passes
  <2> QED BY <2>1, <2>2
<1>3. r[0] = At(X, 1, 0, 0) /\ \A n \in Nat : r[n + 1] = ReadLabel(body, r[n])
  <2>1. Outset("name", 1) = At(X, 1, 0, 0)
    BY DEF Outset, At, SoFar
  <2> QED BY <2>1, ReadingSteps
<1> HIDE DEF r
<1>4. \A k \in Nat : /\ Looked(body, r[k]) \subseteq 1..z
                     /\ k >= z => r[k] = ReadAll(X, z, 0, 0)
  <2> SUFFICES ASSUME NEW m \in Nat, m = 0
               PROVE  \A k \in Nat : /\ Looked(body, r[k]) \subseteq 1..z
                                     /\ k >= z => r[k] = ReadAll(X, z, 0, 0)
    OBVIOUS
  <2>1. r[m] = At(X, 1, 0, 0) /\ \A n \in Nat : r[n + 1] = ReadLabel(body, r[n])
    BY <1>3
  <2>2. Crosses(X, body, r, m, 0, 0)
    BY <2>1, LoopOver
  <2>3. \A k \in Nat : m + k = k
    OBVIOUS
  <2> QED BY <2>2, <2>3 DEF Crosses
<1> HIDE DEF z
<1>5. Passes + 1 \in Nat /\ Passes + 1 >= z
  BY <1>1, <1>2 DEF Passes
<1>6. r[Passes + 1] = ReadAll(X, z, 0, 0)
  BY <1>4, <1>5
<1>7. ReadName(body, 1) = [ok |-> TRUE, name |-> Lowered(X), end |-> z + 1]
  <2> DEFINE last == ReadAll(X, z, 0, 0)
  <2>1. last.state = "read" /\ last.name = Lowered(X) /\ last.end = z + 1
    BY DEF ReadAll
  <2>2. Reading(body, 1)[MaxJumps + MaxNameLen + 1] = last
    BY <1>6 DEF Passes, r
  <2> HIDE DEF last
  <2> QED BY <2>1, <2>2 DEF ReadName, NameOf
<1>8. \A n \in 0..Passes : Looked(body, r[n]) \subseteq 1..z
  <2>1. \A n \in 0..Passes : n \in Nat
    OBVIOUS
  <2> QED BY <1>4, <2>1
<1> QED BY <1>2, <1>7, <1>8 DEF Trail, r, z

\* The root, as an OPT record has it.
LEMMA RootRead ==
    ASSUME NEW body \in Seq(Nat), NEW o \in 1..Len(body), body[o] = 0
    PROVE  /\ ReadName(body, o) = [ok |-> TRUE, name |-> <<>>, end |-> o + 1]
           /\ Trail(body, o) = {o}
<1> DEFINE r == Reading(body, o)
           first == [state |-> "reading", cursor |-> o, name |-> <<>>, jumps |-> 0, end |-> 0]
           last == [state |-> "read", cursor |-> o, name |-> <<>>, jumps |-> 0, end |-> o + 1]
           S == {k \in Nat : r[k + 1] = last}
<1>0. Passes \in Nat
  BY MessagesAssumption DEF Passes
<1>1. r[0] = first /\ \A n \in Nat : r[n + 1] = ReadLabel(body, r[n])
  <2>1. Outset("name", o) = first
    BY DEF Outset
  <2> HIDE DEF first
  <2> QED BY <2>1, ReadingSteps, Zenon
<1>2. ReadLabel(body, first) = last /\ Looked(body, first) = {o}
  <2>1. ~IsReserved(body[o]) /\ ~IsPointer(body[o]) /\ ~(body[o] \in 1..63) /\ ~(o > Len(body)) /\ o \in DOMAIN body
    BY CellKinds
  <2>2. first.state = "reading" /\ first.cursor = o /\ first.end = 0
    OBVIOUS
  <2>3. last = [first EXCEPT !.state = "read", !.end = o + 1]
    <3> DEFINE t == [first EXCEPT !.state = "read", !.end = o + 1]
    <3>1. first = [state |-> "reading", cursor |-> o, name |-> <<>>, jumps |-> 0, end |-> 0]
      OBVIOUS
    <3> HIDE DEF first
    <3>2. t = [first EXCEPT !.state = "read", !.end = o + 1]
      OBVIOUS
    <3> HIDE DEF t
    <3>3. t = [state |-> "read", cursor |-> o, name |-> <<>>, jumps |-> 0, end |-> o + 1]
      BY <3>1, <3>2
    <3> QED BY <3>3 DEF t
  <2> HIDE DEF first, last
  <2> QED BY <2>1, <2>2, <2>3 DEF ReadLabel, Looked
<1>3. ReadLabel(body, last) = last /\ Looked(body, last) = {}
  <2>1. last.state # "reading"
    OBVIOUS
  <2> HIDE DEF last
  <2> QED BY <2>1, Zenon DEF ReadLabel, Looked
<1> HIDE DEF r, first, last
<1>4. \A k \in Nat : k \in S
  <2>1. 0 \in S
    <3> SUFFICES ASSUME NEW k \in Nat, k = 0 PROVE r[k + 1] = last
      OBVIOUS
    <3> QED BY <1>1, <1>2
  <2>2. ASSUME NEW k \in S PROVE k + 1 \in S
    <3>1. k \in Nat /\ k + 1 \in Nat /\ r[k + 1] = last
      OBVIOUS
    <3>2. r[(k + 1) + 1] = ReadLabel(body, r[k + 1])
      BY <1>1, <3>1
    <3> QED BY <1>3, <3>1, <3>2
  <2>3. S \in SUBSET Nat
    OBVIOUS
  <2> HIDE DEF S
  <2> QED BY <2>1, <2>2, <2>3, AllNumbers
<1>5. ReadName(body, o) = [ok |-> TRUE, name |-> <<>>, end |-> o + 1]
  <2>1. Reading(body, o)[MaxJumps + MaxNameLen + 1] = last
    BY <1>0, <1>4 DEF Passes, r
  <2>2. last.state = "read" /\ last.name = <<>> /\ last.end = o + 1
    BY DEF last
  <2> QED BY <2>1, <2>2 DEF ReadName, NameOf
<1>6. \A n \in 0..Passes : Looked(body, r[n]) = IF n = 0 THEN {o} ELSE {}
  <2> SUFFICES ASSUME NEW n \in 0..Passes PROVE Looked(body, r[n]) = IF n = 0 THEN {o} ELSE {}
    OBVIOUS
  <2>1. CASE n = 0
    BY <1>1, <1>2, <2>1
  <2>2. CASE n # 0
    <3>1. n - 1 \in Nat /\ (n - 1) + 1 = n
      BY <2>2
    <3>2. r[(n - 1) + 1] = last
      BY <1>4, <3>1
    <3> QED BY <1>3, <2>2, <3>1, <3>2
  <2> QED BY <2>1, <2>2
<1>7. Trail(body, o) = {o}
  <2>1. 0 \in 0..Passes
    BY <1>0
  <2> QED BY <1>6, <2>1 DEF Trail, r
<1> QED BY <1>5, <1>7

\* A pointer to the first name, as the answers made here have it.
LEMMA PointerRead ==
    ASSUME NEW X, Encodable(X), NEW body \in Seq(Nat), Written(body, X),
           NEW o \in 2..Len(body), body[o] = Pointer(1)
    PROVE  ReadName(body, o) = [ok |-> TRUE, name |-> Lowered(X), end |-> o + 1]
<1> DEFINE r == Reading(body, o)
           z == Len(EncodeName(X).cells)
<1>0. Passes \in Nat /\ MaxJumps # 0 /\ z \in Nat \ {0} /\ z <= Passes
  BY ReadEncoded, MessagesAssumption DEF Passes
<1>1. r[0] = [state |-> "reading", cursor |-> o, name |-> <<>>, jumps |-> 0, end |-> 0]
      /\ \A n \in Nat : r[n + 1] = ReadLabel(body, r[n])
  BY ReadingSteps DEF Outset
<1> HIDE DEF r, z
<1>2. ReadLabel(body, r[0]) = At(X, 1, 1, o + 1)
  <2> DEFINE s == r[0]
  <2>1. ~IsReserved(body[o]) /\ IsPointer(body[o]) /\ ~(body[o] \in 1..63) /\ ~(o > Len(body))
        /\ body[o] - 192 = 1 /\ ~(1 >= o)
    BY DEF Pointer, IsPointer, IsReserved
  <2>2. s.state = "reading" /\ s.cursor = o /\ s.name = <<>> /\ s.jumps = 0 /\ s.end = 0
    BY <1>1
  <2>3. [s EXCEPT !.cursor = 1, !.jumps = s.jumps + 1, !.end = o + 1] = At(X, 1, 1, o + 1)
    <3> DEFINE t == [s EXCEPT !.cursor = 1, !.jumps = s.jumps + 1, !.end = o + 1]
    <3>1. s = [state |-> "reading", cursor |-> o, name |-> <<>>, jumps |-> 0, end |-> 0] /\ s.jumps + 1 = 1
      BY <1>1
    <3> HIDE DEF s
    <3>2. t = [s EXCEPT !.cursor = 1, !.jumps = 1, !.end = o + 1]
      BY <3>1
    <3> HIDE DEF t
    <3>3. t = [state |-> "reading", cursor |-> 1, name |-> <<>>, jumps |-> 1, end |-> o + 1]
      BY <3>1, <3>2
    <3> QED BY <3>3 DEF t, At, SoFar
  <2>4. s.jumps # MaxJumps
    BY <1>0, <2>2
  <2> HIDE DEF s
  <2>5. ReadLabel(body, s) = [s EXCEPT !.cursor = 1, !.jumps = s.jumps + 1, !.end = o + 1]
    BY <2>1, <2>2, <2>4 DEF ReadLabel
  <2> QED BY <2>3, <2>5 DEF s
<1>3. r[1 + Passes] = ReadAll(X, z, 1, o + 1)
  <2> SUFFICES ASSUME NEW m \in Nat, m = 1 PROVE r[m + Passes] = ReadAll(X, z, 1, o + 1)
    OBVIOUS
  <2>1. r[m] = At(X, 1, 1, o + 1)
    <3>1. r[0 + 1] = ReadLabel(body, r[0])
      BY <1>1
    <3> QED BY <1>2, <3>1
  <2>2. Crosses(X, body, r, m, 1, o + 1)
    BY <1>1, <2>1, LoopOver
  <2> QED BY <1>0, <2>2 DEF Crosses, z
<1>4. Reading(body, o)[MaxJumps + MaxNameLen + 1] = ReadAll(X, z, 1, o + 1)
  <2>1. MaxJumps + MaxNameLen + 1 = 1 + Passes
    BY MessagesAssumption DEF Passes
  <2> QED BY <1>3, <2>1 DEF r
<1>5. o + 1 # 0
  OBVIOUS
<1> DEFINE last == ReadAll(X, z, 1, o + 1)
<1>6. last.state = "read" /\ last.name = Lowered(X) /\ last.end = o + 1
  BY <1>5 DEF ReadAll
<1> HIDE DEF last
<1> QED BY <1>4, <1>6 DEF ReadName, NameOf, last

-------------------------------------------------------------------------------
(* Spellings *)

\* A name with the dots of an encodable one is encodable, in as many cells.
LEMMA EncodeShape ==
    ASSUME NEW X, Encodable(X), NEW Y \in Seq(Nat), Len(Y) = Len(X),
           \A i \in 1..Len(X) : Y[i] = Dot <=> X[i] = Dot
    PROVE  Encodable(Y) /\ Len(EncodeName(Y).cells) = Len(EncodeName(X).cells)
<1>1. CASE X = <<>>
  <2>1. Y = <<>>
    BY <1>1
  <2> QED BY <1>1, <2>1
<1>2. CASE X # <<>>
  <2> DEFINE l == Len(X)
             bad(text) == (\E i \in LabelStarts(text) : LabelLength(text, i) \notin 1..63) \/ Len(text) + 2 > MaxNameLen
  <2>1. X \in Seq(Nat) /\ l \in Nat /\ l + 2 <= MaxNameLen /\ \A i \in LabelStarts(X) : LabelLength(X, i) \in 1..63
    BY <1>2, EncodeIs
  <2>2. Y # <<>> /\ DOMAIN X = 1..l /\ DOMAIN Y = 1..l /\ l # 0
    BY <1>2, <2>1
  <2>3. Stripped(Y) = Y
    <3>1. X[1] # Dot /\ X[l] # Dot
      BY <1>2, <2>1, StrippedIs DEF Encodable
    <3>2. 1 \in 1..l /\ l \in 1..l
      BY <2>1, <2>2
    <3>3. Y[1] # Dot /\ Y[Len(Y)] # Dot
      BY <3>1, <3>2
    <3> QED BY <2>2, <3>3, StrippedIs
  <2>4. LabelStarts(Y) = LabelStarts(X)
    <3>1. \A i \in 1..l : i = 1 \/ i - 1 \in 1..l
      BY <2>1
    <3> HIDE DEF l
    <3> QED BY <2>2, <3>1 DEF LabelStarts, l
  <2>5. \A i \in LabelStarts(Y) : LabelLength(Y, i) = LabelLength(X, i)
    <3> SUFFICES ASSUME NEW i \in LabelStarts(Y) PROVE LabelLength(Y, i) = LabelLength(X, i)
      OBVIOUS
    <3>1. i \in 1..l /\ i \in Nat
      BY <2>2 DEF LabelStarts
    <3>2. \A k \in 0..l : i + k > l \/ (Y[i + k] = Dot <=> X[i + k] = Dot)
      BY <2>1, <3>1
    <3>3. {k \in 0..Len(Y) : i + k > Len(Y) \/ Y[i + k] = Dot} = {k \in 0..Len(X) : i + k > Len(X) \/ X[i + k] = Dot}
      BY <3>2
    <3> QED BY <3>3, Zenon DEF LabelLength
  <2>6. ~bad(Y)
    <3>1. Len(Y) \in Nat /\ MaxNameLen \in Nat /\ ~(Len(Y) + 2 > MaxNameLen)
      BY <2>1, MessagesAssumption
    <3> QED BY <2>1, <2>4, <2>5, <3>1
  <2>7. EncodeName(Y).ok
    <3> DEFINE c == [i \in 1..Len(Y) + 2 |-> IF i > Len(Y) + 1 THEN 0
                                         ELSE IF i \in LabelStarts(Y) THEN LabelLength(Y, i)
                                         ELSE Y[i - 1]]
    <3>1. EncodeName(Y) = IF bad(Y) THEN Malformed ELSE [ok |-> TRUE, cells |-> c]
      BY <2>2, <2>3 DEF EncodeName
    <3> HIDE DEF bad, c
    <3>2. EncodeName(Y) = [ok |-> TRUE, cells |-> c]
      BY <2>6, <3>1
    <3> QED BY <3>2
  <2>8. Encodable(Y)
    BY <2>3, <2>7 DEF Encodable
  <2> QED BY <1>2, <2>2, <2>8, EncodeTyped
<1> QED BY <1>1, <1>2

\* apply_0x20() spells a name so that it takes the same cells and reads the same.
LEMMA SpelledOut ==
    ASSUME NEW X, Encodable(X), Lowered(X) = X, NEW Y \in Spellings(X) \cup {X}
    PROVE  Encodable(Y) /\ Lowered(Y) = X /\ Len(EncodeName(Y).cells) = Len(EncodeName(X).cells)
<1>1. CASE Y = X
  BY <1>1
<1>2. CASE Y \in Spellings(X)
  <2>1. PICK raised \in SUBSET {i \in DOMAIN X : X[i] \in 97..122} :
            Y = [i \in DOMAIN X |-> IF i \in raised THEN X[i] - 32 ELSE X[i]]
    BY <1>2 DEF Spellings
  <2>2. X \in Seq(Nat) /\ DOMAIN X = 1..Len(X) /\ Len(X) \in Nat
    BY DEF Encodable
  <2>3. \A i \in DOMAIN X : X[i] \in Nat /\ Y[i] \in Nat /\ (Y[i] = Dot <=> X[i] = Dot) /\ Lower(Y[i]) = X[i]
    <3> SUFFICES ASSUME NEW i \in DOMAIN X
                 PROVE  X[i] \in Nat /\ Y[i] \in Nat /\ (Y[i] = Dot <=> X[i] = Dot) /\ Lower(Y[i]) = X[i]
      OBVIOUS
    <3> DEFINE x == X[i]
    <3>1. x \in Nat /\ Lower(x) = x
      <4>1. Lowered(X)[i] = Lower(X[i])
        BY Zenon DEF Lowered
      <4>2. X[i] = Lower(X[i])
        BY <4>1, Zenon
      <4>3. X[i] \in Nat
        BY <2>2
      <4> QED BY <4>2, <4>3
    <3>2. (i \in raised => x \in 97..122) /\ Y[i] = IF i \in raised THEN x - 32 ELSE x
      BY <2>1
    <3> HIDE DEF x
    <3>3. Y[i] \in Nat /\ (Y[i] = Dot <=> x = Dot) /\ Lower(Y[i]) = x
      BY <3>1, <3>2 DEF Lower, Dot
    <3> QED BY <3>1, <3>3 DEF x
  <2>4. Y \in Seq(Nat) /\ Len(Y) = Len(X) /\ DOMAIN Y = DOMAIN X
    <3>1. Y = [i \in 1..Len(X) |-> Y[i]] /\ \A i \in 1..Len(X) : Y[i] \in Nat
      BY <2>1, <2>2, <2>3
    <3> DEFINE l == Len(X)
    <3> HIDE DEF l
    <3>2. Y = [i \in 1..l |-> Y[i]] /\ (\A i \in 1..l : Y[i] \in Nat) /\ l \in Nat
      BY <2>2, <3>1 DEF l
    <3>3. Y \in Seq(Nat) /\ Len(Y) = l /\ DOMAIN Y = 1..l
      BY <3>2
    <3> QED BY <2>2, <3>3 DEF l
  <2>5. Lowered(Y) = X
    <3>1. Lowered(Y) = [i \in DOMAIN X |-> X[i]]
      BY <2>3, <2>4 DEF Lowered
    <3>2. X = [i \in DOMAIN X |-> X[i]]
      BY <2>2
    <3> QED BY <3>1, <3>2
  <2> QED BY <2>2, <2>3, <2>4, <2>5, EncodeShape
<1> QED BY <1>1, <1>2

-------------------------------------------------------------------------------
(* Records *)

\* A record that is read.
Rr == [name : Seq(Nat), rtype : Nat, rclass : Nat, ttl : Nat, rdata : Seq(Nat), ttlOffset : Nat]

\* The record whose owner's name ends before a cell.
RecordAt(body, name, at) ==
    [name |-> name, rtype |-> body[at], rclass |-> body[at + 1],
     ttl |-> body[at + 2], rdata |-> SubSeq(body, at + 4, at + 3 + body[at + 3]),
     ttlOffset |-> at + 2]

\* The cells that reading n owners' names looks at.
RecTrails(body, o, n) == UNION {Trail(body, RecordsFrom(body, o)[k].end) : k \in 0..n - 1}

\* The loop of iter_records(), from a cell on.
RecordLoop(body, o, r) ==
    /\ r[0] = [ok |-> TRUE, records |-> <<>>, end |-> o]
    /\ \A n \in Nat : r[n + 1] = ReadRecord(body, r[n])

\* The loop of iter_records() is such a loop.
LEMMA RecordsLoop ==
    ASSUME NEW body, NEW o
    PROVE  RecordLoop(body, o, RecordsFrom(body, o))
BY RecordsSteps DEF RecordLoop

\* What the loop has before and after a record.
RecordState(s) == s = [ok |-> s.ok, records |-> s.records, end |-> s.end] /\ s.ok \in BOOLEAN

\* A record can be read or not.
LEMMA RecordRead ==
    ASSUME NEW body, NEW s, RecordState(s)
    PROVE  LET name == ReadName(body, s.end)
               at == name.end
               t == ReadRecord(body, s)
           IN  /\ RecordState(t)
               /\ t.ok => /\ s.ok /\ name.ok /\ ~(at + 3 > Len(body)) /\ ~(at + 3 + body[at + 3] > Len(body))
                          /\ t = [ok |-> TRUE, end |-> at + 4 + body[at + 3],
                                  records |-> Append(s.records, RecordAt(body, name.name, at))]
               /\ ~t.ok => t.end = s.end /\ t.records = s.records
<1> DEFINE name == ReadName(body, s.end)
           at == name.end
           t == ReadRecord(body, s)
           bad == ~name.ok \/ at + 3 > Len(body) \/ at + 3 + body[at + 3] > Len(body)
           cut == [s EXCEPT !.ok = FALSE]
           next == at + 4 + body[at + 3]
           more == Append(s.records, RecordAt(body, name.name, at))
           new == [ok |-> TRUE, end |-> next, records |-> more]
<1>1. t = IF ~s.ok THEN s ELSE IF bad THEN cut ELSE new
  BY DEF ReadRecord, RecordAfter, RecordAt
<1>2. cut = [ok |-> FALSE, records |-> s.records, end |-> s.end]
  <2> DEFINE a == s.ok
             b == s.records
             c == s.end
  <2>1. s = [ok |-> a, records |-> b, end |-> c]
    BY DEF RecordState
  <2> HIDE DEF a, b, c
  <2>2. cut = [s EXCEPT !.ok = FALSE]
    OBVIOUS
  <2> HIDE DEF cut
  <2>3. cut = [ok |-> FALSE, records |-> b, end |-> c]
    BY <2>1, <2>2
  <2> QED BY <2>3 DEF b, c
<1>3. RecordState(cut) /\ ~cut.ok /\ cut.end = s.end /\ cut.records = s.records
  <2> HIDE DEF cut
  <2> QED BY <1>2 DEF RecordState
<1>4. RecordState(new) /\ new.ok
  <2> HIDE DEF next, more
  <2>1. new.ok = TRUE /\ new.end = next /\ new.records = more
    OBVIOUS
  <2>2. new = [ok |-> new.ok, records |-> new.records, end |-> new.end]
    BY <2>1
  <2> HIDE DEF new
  <2> QED BY <2>1, <2>2 DEF RecordState
<1>5. CASE ~s.ok
  <2>1. t = s
    BY <1>1, <1>5
  <2> HIDE DEF t
  <2> QED BY <1>5, <2>1 DEF t
<1>6. CASE s.ok /\ bad
  <2>1. t = cut
    BY <1>1, <1>6
  <2> HIDE DEF t, cut
  <2> QED BY <1>3, <2>1 DEF t
<1>7. CASE s.ok /\ ~bad
  <2>1. t = new
    BY <1>1, <1>7
  <2> HIDE DEF t, new
  <2>2. t.ok /\ RecordState(t)
    BY <1>4, <2>1
  <2> QED BY <1>7, <2>1, <2>2 DEF t, new
<1> QED BY <1>5, <1>6, <1>7

\* What has been read when records may have been read or not.
RecordsWell(o, s) ==
    /\ RecordState(s)
    /\ s.end \in Nat /\ s.end >= o
    /\ s.records \in Seq(Rr)

\* A record that is read lies in the body, behind the name of its owner.
LEMMA RecordTyped ==
    ASSUME NEW body \in Seq(Nat), NEW o \in Nat, NEW s, RecordsWell(o, s), 0 \notin Trail(body, s.end)
    PROVE  LET name == ReadName(body, s.end)
               at == name.end
               t == ReadRecord(body, s)
           IN  /\ RecordsWell(o, t)
               /\ t.ok => /\ at \in Nat /\ at > s.end /\ at + 3 <= Len(body) /\ body[at + 3] \in Nat
                          /\ at + 3 + body[at + 3] <= Len(body)
                          /\ RecordAt(body, name.name, at) \in Rr
<1> DEFINE name == ReadName(body, s.end)
           at == name.end
           t == ReadRecord(body, s)
<1>1. RecordState(s) /\ s.end \in Nat /\ s.end >= o /\ s.records \in Seq(Rr)
  BY DEF RecordsWell
<1>2. /\ RecordState(t)
      /\ t.ok => /\ s.ok /\ name.ok /\ ~(at + 3 > Len(body)) /\ ~(at + 3 + body[at + 3] > Len(body))
                 /\ t = [ok |-> TRUE, end |-> at + 4 + body[at + 3],
                         records |-> Append(s.records, RecordAt(body, name.name, at))]
      /\ ~t.ok => t.end = s.end /\ t.records = s.records
  BY <1>1, RecordRead
<1> HIDE DEF t
<1>3. CASE ~t.ok
  BY <1>1, <1>2, <1>3 DEF RecordsWell, t
<1>4. CASE t.ok
  <2>1. name.name \in Seq(Nat) /\ at \in Nat /\ at > s.end
    BY <1>1, <1>2, <1>4, NameTyped
  <2> DEFINE e == at
             l == Len(body)
             rr == RecordAt(body, name.name, at)
  <2>2. ~(e + 3 > l) /\ ~(e + 3 + body[e + 3] > l) /\ e \in Nat /\ e > s.end /\ l \in Nat
    BY <1>2, <1>4, <2>1
  <2>3. t.end = e + 4 + body[e + 3] /\ t.records = Append(s.records, rr)
    BY <1>2, <1>4
  <2>4. RecordAt(body, name.name, e) = rr /\ DOMAIN body = 1..l
    OBVIOUS
  <2> DEFINE n == name.name
  <2>5. n \in Seq(Nat) /\ rr = RecordAt(body, n, e)
    BY <2>1
  <2> HIDE DEF e, l, rr, n, name
  <2>6. e \in 1..l /\ e + 1 \in 1..l /\ e + 2 \in 1..l /\ e + 3 \in 1..l
    BY <1>1, <2>2
  <2>7. body[e] \in Nat /\ body[e + 1] \in Nat /\ body[e + 2] \in Nat /\ body[e + 3] \in Nat
    BY <2>4, <2>6 DEF l
  <2>8. SubSeq(body, e + 4, e + 3 + body[e + 3]) \in Seq(Nat)
    <3> DEFINE k == body[e + 3]
    <3>1. k \in Nat /\ e + 3 + k <= l
      BY <2>2, <2>7
    <3> HIDE DEF k
    <3>2. \A i \in e + 4..e + 3 + k : i \in 1..l
      BY <2>2, <3>1
    <3>3. \A i \in e + 4..e + 3 + k : body[i] \in Nat
      BY <2>4, <3>2 DEF l
    <3>4. e + 4 \in Nat /\ e + 3 + k \in Nat
      BY <2>2, <3>1
    <3>5. SubSeq(body, e + 4, e + 3 + k) \in Seq(Nat)
      BY <2>2, <2>4, <3>1, <3>3, <3>4 DEF l
    <3> QED BY <3>5 DEF k
  <2>9. rr \in Rr
    BY <2>2, <2>5, <2>7, <2>8 DEF Rr, RecordAt
  <2>10. t.end \in Nat /\ t.end >= o
    <3> DEFINE k == body[e + 3]
    <3>1. k \in Nat /\ t.end = e + 4 + k
      BY <2>3, <2>7
    <3> HIDE DEF k
    <3> QED BY <1>1, <2>2, <3>1
  <2>11. t.records \in Seq(Rr)
    BY <1>1, <2>3, <2>9
  <2>12. RecordsWell(o, t)
    BY <1>2, <2>10, <2>11 DEF RecordsWell
  <2>13. e + 3 <= l /\ e + 3 + body[e + 3] <= l
    BY <2>2, <2>7
  <2> QED BY <2>2, <2>5, <2>7, <2>9, <2>12, <2>13 DEF e, l, n, name, t
<1> QED BY <1>3, <1>4

\* Records that can be read or not are typed, if no name is read through cell 0.
LEMMA RecordsTyped ==
    ASSUME NEW body \in Seq(Nat), NEW o \in Nat, NEW n \in Nat, 0 \notin RecTrails(body, o, n)
    PROVE  \A k \in 0..n : RecordsWell(o, RecordsFrom(body, o)[k])
<1> DEFINE r == RecordsFrom(body, o)
           S == {k \in Nat : k <= n => RecordsWell(o, r[k])}
<1>1. r[0] = [ok |-> TRUE, records |-> <<>>, end |-> o] /\ \A k \in Nat : r[k + 1] = ReadRecord(body, r[k])
  <2>1. RecordLoop(body, o, r)
    BY RecordsLoop
  <2> QED BY <2>1 DEF RecordLoop
<1>2. \A k \in 0..n - 1 : 0 \notin Trail(body, r[k].end)
  BY DEF RecTrails
<1> HIDE DEF r
<1>3. 0 \in S
  <2> DEFINE z == r[0]
  <2>1. z = [ok |-> TRUE, records |-> <<>>, end |-> o]
    BY <1>1
  <2> HIDE DEF z
  <2>2. z.ok = TRUE /\ z.records = <<>> /\ z.end = o
    BY <2>1
  <2>3. RecordState(z)
    BY <2>1, <2>2 DEF RecordState
  <2>4. <<>> \in Seq(Rr)
    OBVIOUS
  <2>5. RecordsWell(o, z)
    BY <2>2, <2>3, <2>4 DEF RecordsWell
  <2> QED BY <2>5 DEF z
<1>4. ASSUME NEW k \in S PROVE k + 1 \in S
  <2> SUFFICES ASSUME k + 1 <= n PROVE RecordsWell(o, r[k + 1])
    OBVIOUS
  <2>1. k \in Nat /\ k \in 0..n - 1 /\ RecordsWell(o, r[k])
    OBVIOUS
  <2>2. r[k + 1] = ReadRecord(body, r[k])
    BY <1>1, <2>1
  <2> QED BY <1>2, <2>1, <2>2, RecordTyped
<1>5. S \in SUBSET Nat
  OBVIOUS
<1>6. \A k \in Nat : k \in S
  <2> HIDE DEF S
  <2> QED BY <1>3, <1>4, <1>5, AllNumbers
<1> QED BY <1>6 DEF r

\* If all can be read, then so can the first ones.
LEMMA RecordsReadBefore ==
    ASSUME NEW body, NEW o, NEW n \in Nat, RecordsFrom(body, o)[n].ok
    PROVE  \A k \in 0..n : RecordState(RecordsFrom(body, o)[k]) /\ RecordsFrom(body, o)[k].ok
<1> DEFINE r == RecordsFrom(body, o)
           T == {k \in Nat : RecordState(r[k])}
           S == {j \in Nat : j <= n => r[n - j].ok}
<1>1. RecordLoop(body, o, r)
  BY RecordsLoop
<1>2. r[n].ok
  OBVIOUS
<1> HIDE DEF r
<1>3. \A k \in Nat : k \in T
  <2>1. 0 \in T
    <3> DEFINE z == r[0]
    <3>1. z = [ok |-> TRUE, records |-> <<>>, end |-> o]
      BY <1>1 DEF RecordLoop
    <3> HIDE DEF z
    <3>2. RecordState(z)
      BY <3>1 DEF RecordState
    <3> QED BY <3>2 DEF z
  <2>2. ASSUME NEW k \in T PROVE k + 1 \in T
    <3>1. r[k + 1] = ReadRecord(body, r[k])
      BY <1>1 DEF RecordLoop
    <3>2. RecordState(r[k + 1])
      BY <3>1, RecordRead
    <3> QED BY <3>2
  <2>3. T \in SUBSET Nat
    OBVIOUS
  <2> HIDE DEF T
  <2> QED BY <2>1, <2>2, <2>3, AllNumbers
<1>4. \A j \in Nat : j \in S
  <2>1. 0 \in S
    BY <1>2
  <2>2. ASSUME NEW j \in S PROVE j + 1 \in S
    <3> SUFFICES ASSUME j + 1 <= n PROVE r[n - (j + 1)].ok
      OBVIOUS
    <3> DEFINE i == n - (j + 1)
    <3>1. i \in Nat /\ i + 1 = n - j /\ j <= n
      OBVIOUS
    <3>2. r[n - j].ok
      BY <3>1
    <3> HIDE DEF i
    <3>3. r[i + 1] = ReadRecord(body, r[i]) /\ RecordState(r[i])
      BY <1>1, <1>3, <3>1 DEF RecordLoop
    <3>4. r[i].ok
      BY <3>1, <3>2, <3>3, RecordRead
    <3> QED BY <3>4 DEF i
  <2>3. S \in SUBSET Nat
    OBVIOUS
  <2> HIDE DEF S
  <2> QED BY <2>1, <2>2, <2>3, AllNumbers
<1>5. \A k \in 0..n : n - k \in Nat /\ n - k <= n /\ n - (n - k) = k
  OBVIOUS
<1>6. \A k \in 0..n : r[k].ok
  BY <1>4, <1>5
<1>7. \A k \in 0..n : RecordState(r[k])
  BY <1>3
<1> QED BY <1>6, <1>7 DEF r

\* A record between two others.
NextRecord(body, o, s, t) ==
    LET name == ReadName(body, s.end)
        at == name.end
    IN  /\ RecordsWell(o, s) /\ RecordsWell(o, t) /\ s.ok /\ name.ok
        /\ at \in Nat /\ at > s.end /\ at + 3 <= Len(body) /\ body[at + 3] \in Nat
        /\ at + 3 + body[at + 3] <= Len(body)
        /\ RecordAt(body, name.name, at) \in Rr
        /\ t = [ok |-> TRUE, end |-> at + 4 + body[at + 3],
                records |-> Append(s.records, RecordAt(body, name.name, at))]

\* Each record that is read begins where the one before ended.
LEMMA RecordNext ==
    ASSUME NEW body \in Seq(Nat), NEW o \in Nat, NEW n \in Nat, RecordsFrom(body, o)[n].ok,
           0 \notin RecTrails(body, o, n), NEW k \in 0..n - 1
    PROVE  NextRecord(body, o, RecordsFrom(body, o)[k], RecordsFrom(body, o)[k + 1])
<1> DEFINE r == RecordsFrom(body, o)
<1>1. RecordLoop(body, o, r) /\ \A i \in 0..n : r[i].ok /\ RecordsWell(o, r[i])
  BY RecordsLoop, RecordsTyped, RecordsReadBefore
<1>2. k \in Nat /\ k \in 0..n /\ k + 1 \in 0..n
  OBVIOUS
<1>3. 0 \notin Trail(body, r[k].end)
  BY DEF RecTrails
<1> HIDE DEF r
<1>4. r[k + 1] = ReadRecord(body, r[k]) /\ r[k + 1].ok /\ RecordsWell(o, r[k]) /\ RecordsWell(o, r[k + 1]) /\ r[k].ok
  BY <1>1, <1>2 DEF RecordLoop
<1>5. RecordState(r[k])
  BY <1>4 DEF RecordsWell
<1> DEFINE s == r[k]
           name == ReadName(body, s.end)
           at == name.end
<1>6. /\ at \in Nat /\ at > s.end /\ at + 3 <= Len(body) /\ body[at + 3] \in Nat
      /\ at + 3 + body[at + 3] <= Len(body)
      /\ RecordAt(body, name.name, at) \in Rr
  BY <1>3, <1>4, RecordTyped
<1>7. /\ name.ok
      /\ ReadRecord(body, s) = [ok |-> TRUE, end |-> at + 4 + body[at + 3],
                                records |-> Append(s.records, RecordAt(body, name.name, at))]
  <2>1. ReadRecord(body, s).ok /\ RecordState(s)
    BY <1>4, <1>5
  <2> HIDE DEF s
  <2> QED BY <2>1, RecordRead, Zenon
<1> QED BY <1>4, <1>6, <1>7, Zenon DEF r, NextRecord

\* Where the lifetimes of k records are, with regard to where records end.
Placed(r, k) ==
    /\ Len(r[k].records) = k
    /\ \A i \in 0..k :
        /\ r[i].end <= r[k].end
        /\ \A j \in 1..i : r[k].records[j].ttlOffset < r[i].end /\ r[k].records[j] = r[i].records[j]
        /\ \A j \in i + 1..k : r[k].records[j].ttlOffset >= r[i].end

\* The lifetimes of the records lie one behind the other.
LEMMA RecordsPlaced ==
    ASSUME NEW body \in Seq(Nat), NEW o \in Nat, NEW n \in Nat, RecordsFrom(body, o)[n].ok,
           0 \notin RecTrails(body, o, n)
    PROVE  \A k \in 0..n : Placed(RecordsFrom(body, o), k)
<1> DEFINE r == RecordsFrom(body, o)
           S == {k \in Nat : k <= n => Placed(r, k)}
<1>1. \A k \in 0..n : RecordsWell(o, r[k])
  BY RecordsTyped
<1>2. 0 \in S
  <2> DEFINE z == r[0]
  <2>1. z = [ok |-> TRUE, records |-> <<>>, end |-> o]
    BY RecordsSteps
  <2>2. z.records = <<>> /\ z.end \in Nat
    BY <2>1
  <2>3. Placed(r, 0)
    BY <2>2 DEF Placed
  <2> QED BY <2>3
<1>3. ASSUME NEW k \in S PROVE k + 1 \in S
  <2> SUFFICES ASSUME k + 1 <= n PROVE Placed(r, k + 1)
    OBVIOUS
  <2>1. k \in Nat /\ k \in 0..n - 1 /\ k \in 0..n /\ k + 1 \in 0..n /\ Placed(r, k)
    OBVIOUS
  <2> DEFINE s == r[k]
             t == r[k + 1]
             name == ReadName(body, s.end)
             at == name.end
             rr == RecordAt(body, name.name, at)
             l == body[at + 3]
  <2>2. /\ at \in Nat /\ at > s.end /\ l \in Nat /\ rr \in Rr
        /\ t = [ok |-> TRUE, end |-> at + 4 + l, records |-> Append(s.records, rr)]
        /\ RecordsWell(o, s)
    <3>1. NextRecord(body, o, s, t)
      BY <2>1, RecordNext
    <3> HIDE DEF s, t
    <3> QED BY <3>1, Zenon DEF NextRecord
  <2>3. t.end = at + 4 + l /\ t.records = Append(s.records, rr) /\ rr.ttlOffset = at + 2
    <3>1. rr.ttlOffset = at + 2
      BY DEF RecordAt
    <3> HIDE DEF rr, at, l, t
    <3> QED BY <2>2, <3>1
  <2>4. s.records \in Seq(Rr) /\ s.end \in Nat /\ Len(s.records) = k
    BY <2>1, <2>2 DEF RecordsWell, Placed
  <2>5. \A i \in 0..k : r[i].end \in Nat
    <3>1. \A i \in 0..k : i \in 0..n
      BY <2>1
    <3> QED BY <1>1, <3>1 DEF RecordsWell
  <2>6. \A i \in 0..k :
            /\ r[i].end <= s.end
            /\ \A j \in 1..i : s.records[j].ttlOffset < r[i].end /\ s.records[j] = r[i].records[j]
            /\ \A j \in i + 1..k : s.records[j].ttlOffset >= r[i].end
    BY <2>1 DEF Placed
  <2> HIDE DEF r, s, t, at, rr, l, S
  <2>7. Len(t.records) = k + 1 /\ t.records[k + 1] = rr /\ \A j \in 1..k : t.records[j] = s.records[j]
    BY <2>1, <2>3, <2>4, <2>2
  <2>8. \A j \in 1..k : s.records[j].ttlOffset \in Nat
    <3>1. \A j \in 1..k : s.records[j] \in Rr
      BY <2>1, <2>4
    <3> QED BY <3>1 DEF Rr
  <2>9. ASSUME NEW i \in 0..k
        PROVE  /\ r[i].end <= t.end
               /\ \A j \in 1..i : t.records[j].ttlOffset < r[i].end /\ t.records[j] = r[i].records[j]
               /\ \A j \in i + 1..k + 1 : t.records[j].ttlOffset >= r[i].end
    <3> DEFINE e == r[i].end
               f == t.end
    <3>1. e \in Nat /\ e <= s.end /\ f = at + 4 + l
      BY <2>3, <2>5, <2>6
    <3> HIDE DEF e, f
    <3>2. e <= f
      BY <2>2, <2>4, <3>1
    <3>3. \A j \in 1..i : j \in 1..k
      BY <2>1
    <3>4. \A j \in 1..i : t.records[j].ttlOffset < r[i].end /\ t.records[j] = r[i].records[j]
      BY <2>6, <2>7, <3>3
    <3>5. ASSUME NEW j \in i + 1..k + 1 PROVE t.records[j].ttlOffset >= r[i].end
      <4>1. CASE j = k + 1
        <5>1. at + 2 >= e
          BY <2>2, <2>4, <3>1
        <5> QED BY <2>3, <2>7, <4>1, <5>1 DEF e
      <4>2. CASE j # k + 1
        <5>1. j \in 1..k /\ j \in i + 1..k
          BY <2>1, <4>2
        <5> QED BY <2>6, <2>7, <5>1
      <4> QED BY <4>1, <4>2
    <3> QED BY <3>2, <3>4, <3>5 DEF e, f
  <2>10. /\ t.end <= t.end
         /\ \A j \in 1..k + 1 : t.records[j].ttlOffset < t.end /\ t.records[j] = t.records[j]
         /\ \A j \in (k + 1) + 1..k + 1 : t.records[j].ttlOffset >= t.end
    <3> DEFINE f == t.end
    <3>1. f \in Nat /\ f = at + 4 + l
      BY <2>2, <2>3
    <3> HIDE DEF f
    <3>2. s.end < f /\ at + 2 < f
      BY <2>2, <2>4, <3>1
    <3>3. ASSUME NEW j \in 1..k + 1 PROVE t.records[j].ttlOffset < f
      <4>1. CASE j = k + 1
        BY <2>3, <2>7, <3>2, <4>1
      <4>2. CASE j # k + 1
        <5>1. j \in 1..k /\ k \in 0..k
          BY <2>1, <4>2
        <5> DEFINE p == s.records[j].ttlOffset
        <5>2. p < s.end /\ p \in Nat /\ t.records[j].ttlOffset = p
          BY <2>6, <2>7, <2>8, <5>1 DEF s
        <5> HIDE DEF p
        <5> QED BY <2>4, <3>1, <3>2, <5>2
      <4> QED BY <4>1, <4>2
    <3>4. (k + 1) + 1..k + 1 = {}
      BY <2>1
    <3>5. f <= f
      BY <3>1
    <3> QED BY <3>3, <3>4, <3>5 DEF f
  <2>11. \A i \in 0..k + 1 : i \in 0..k \/ i = k + 1
    BY <2>1
  <2> QED BY <2>7, <2>9, <2>10, <2>11 DEF Placed, t
<1>4. S \in SUBSET Nat
  OBVIOUS
<1>5. \A k \in Nat : k \in S
  <2> HIDE DEF S
  <2> QED BY <1>2, <1>3, <1>4, AllNumbers
<1> QED BY <1>5

\* A record whose lifetime is taken from another body.
Renew(rr, b) ==
    [name |-> rr.name, rtype |-> rr.rtype, rclass |-> rr.rclass, ttl |-> b[rr.ttlOffset],
     rdata |-> rr.rdata, ttlOffset |-> rr.ttlOffset]
Renewed(records, b) == [j \in DOMAIN records |-> Renew(records[j], b)]

\* Two bodies hold the same from one cell to another.
Agree(a, b, m, n) == \A i \in m..n : a[i] \in Nat /\ b[i] = a[i]
Piece(body, m, n) == SubSeq(body, m, n)

\* The same cells make the same piece.
LEMMA SubSeqSame ==
    ASSUME NEW a, NEW b, NEW m, NEW n, m \in Nat, n \in Nat, Agree(a, b, m, n)
    PROVE  Piece(b, m, n) = Piece(a, m, n)
<1> DEFINE A == SubSeq(a, m, n)
           B == SubSeq(b, m, n)
<1>0. m \in Int /\ n \in Int
  OBVIOUS
<1>1. \A i \in m..n : a[i] \in Nat /\ b[i] = a[i]
  BY DEF Agree
<1>2. /\ A \in Seq(Nat) /\ Len(A) = IF m <= n THEN n - m + 1 ELSE 0
      /\ \A i \in 1..n - m + 1 : A[i] = a[m + i - 1]
  BY <1>0, <1>1, SubSeqProperties
<1>3. /\ B \in Seq(Nat) /\ Len(B) = IF m <= n THEN n - m + 1 ELSE 0
      /\ \A i \in 1..n - m + 1 : B[i] = b[m + i - 1]
  <2>1. \A i \in m..n : b[i] \in Nat
    BY <1>1
  <2> QED BY <1>0, <2>1, SubSeqProperties
<1>4. \A i \in 1..n - m + 1 : m + i - 1 \in m..n
  OBVIOUS
<1> HIDE DEF A, B
<1>5. \A i \in 1..n - m + 1 : B[i] = A[i]
  BY <1>2, <1>3, <1>4, <1>1
<1>6. \A i \in 1..Len(B) : i \in 1..n - m + 1
  BY <1>3
<1>7. B = A
  BY <1>2, <1>3, <1>5, <1>6, SeqEqual
<1> QED BY <1>7 DEF A, B, Piece

\* From a cell on, two bodies differ in the lifetimes of n records at most.
OtherLifetimes(a, b, o, n) ==
    \A i \in o..Len(a) : b[i] = a[i] \/ \E j \in 1..n : RecordsFrom(a, o)[n].records[j].ttlOffset = i

\* Two bodies are alike in some cells.
AlikeOn(a, b, cells) == \A i \in cells : Alike(a, b, i)

\* Records are the same, but for their lifetimes, in a body that is alike where
\* their owners' names are read, and elsewhere has other lifetimes at most.
LEMMA RecordsSame ==
    ASSUME NEW a \in Seq(Nat), NEW b \in Seq(Nat), Len(b) = Len(a),
           NEW o \in Nat, NEW n \in Nat, RecordsFrom(a, o)[n].ok,
           AlikeOn(a, b, RecTrails(a, o, n)), OtherLifetimes(a, b, o, n)
    PROVE  \A k \in 0..n : RecordsFrom(b, o)[k] =
                [ok |-> TRUE, end |-> RecordsFrom(a, o)[k].end,
                 records |-> Renewed(RecordsFrom(a, o)[k].records, b)]
<1> DEFINE r == RecordsFrom(a, o)
           q == RecordsFrom(b, o)
           Same(k) == q[k] = [ok |-> TRUE, end |-> r[k].end, records |-> Renewed(r[k].records, b)]
           S == {k \in Nat : k <= n => Same(k)}
<1>1. 0 \notin RecTrails(a, o, n)
  BY DEF Alike, AlikeOn
<1>2. \A k \in 0..n - 1 : NextRecord(a, o, r[k], r[k + 1])
  BY <1>1, RecordNext
<1>3. \A k \in 0..n : Placed(r, k)
  BY <1>1, RecordsPlaced
<1>4. RecordLoop(a, o, r) /\ RecordLoop(b, o, q)
  BY RecordsLoop
<1>5. \A k \in 0..n - 1 : \A i \in Trail(a, r[k].end) : Alike(a, b, i)
  BY DEF RecTrails, AlikeOn
<1>6. \A i \in o..Len(a) : b[i] = a[i] \/ \E j \in 1..n : r[n].records[j].ttlOffset = i
  BY DEF OtherLifetimes
<1>7. DOMAIN b = DOMAIN a /\ Len(b) \in Nat
  OBVIOUS
<1>8. \A k \in 0..n : RecordsWell(o, r[k])
  BY <1>1, RecordsTyped
<1> HIDE DEF r, q
<1>9. 0 \in S
  <2>1. r[0] = [ok |-> TRUE, records |-> <<>>, end |-> o] /\ q[0] = [ok |-> TRUE, records |-> <<>>, end |-> o]
    BY <1>4 DEF RecordLoop
  <2>2. r[0].records = <<>> /\ r[0].end = o
    BY <2>1
  <2>3. Renewed(<<>>, b) = <<>>
    BY DEF Renewed
  <2> QED BY <2>1, <2>2, <2>3
<1>10. ASSUME NEW k \in S PROVE k + 1 \in S
  <2> SUFFICES ASSUME k + 1 <= n PROVE Same(k + 1)
    OBVIOUS
  <2>1. k \in Nat /\ k \in 0..n - 1 /\ k \in 0..n /\ k + 1 \in 0..n /\ n \in 0..n /\ Same(k)
    OBVIOUS
  <2> DEFINE s == r[k]
             t == r[k + 1]
             name == ReadName(a, s.end)
             at == name.end
             rr == RecordAt(a, name.name, at)
             ss == RecordAt(b, name.name, at)
             l == a[at + 3]
             x == s.end
             y == t.end
             A == Len(a)
  <2>2. NextRecord(a, o, s, t)
    BY <1>2, <2>1
  <2>3. /\ at \in Nat /\ at > x /\ at + 3 <= A /\ l \in Nat /\ at + 3 + l <= A /\ rr \in Rr /\ name.ok
        /\ t = [ok |-> TRUE, end |-> at + 4 + l, records |-> Append(s.records, rr)]
        /\ RecordsWell(o, s)
    <3> HIDE DEF s, t
    <3> QED BY <2>2, Zenon DEF NextRecord
  <2>4. y = at + 4 + l /\ t.records = Append(s.records, rr) /\ rr.ttlOffset = at + 2
    <3>1. rr.ttlOffset = at + 2
      BY DEF RecordAt
    <3> HIDE DEF rr, at, l, t
    <3> QED BY <2>3, <3>1 DEF y
  <2>5. x \in Nat /\ x >= o /\ s.records \in Seq(Rr) /\ A \in Nat /\ Len(s.records) = k
    <3>1. Len(s.records) = k
      BY <1>3, <2>1 DEF Placed
    <3>2. x \in Nat /\ x >= o /\ s.records \in Seq(Rr)
      <4> HIDE DEF s
      <4> QED BY <2>3 DEF RecordsWell
    <3> QED BY <3>1, <3>2
  <2>6. ReadName(b, x) = name
    BY <1>5, <2>1, <2>5, ReadNameSame
  <2> HIDE DEF s, t, name, at, rr, ss, l, x, y, A
  \* Between the two ends one lifetime is found.
  <2>7. ASSUME NEW c \in x..y - 1, c # at + 2 PROVE b[c] = a[c]
    <3>1. c \in o..A /\ c \in Nat /\ c < y /\ c >= x
      BY <2>3, <2>4, <2>5, <2>7, SMTT(30)
    <3>2. ASSUME NEW j \in 1..n PROVE r[n].records[j].ttlOffset # c
      <4> DEFINE p == r[n].records[j].ttlOffset
      <4>0. p \in Nat
        <5>1. RecordsWell(o, r[n]) /\ Len(r[n].records) = n
          BY <1>3, <1>8, <2>1 DEF Placed
        <5>2. r[n].records[j] \in Rr
          BY <5>1 DEF RecordsWell
        <5> QED BY <5>2 DEF Rr
      <4>1. CASE j <= k
        <5>1. j \in 1..k
          BY <4>1
        <5>2. p < x
          BY <1>3, <2>1, <5>1 DEF Placed, x, s
        <5> HIDE DEF p
        <5> QED BY <2>5, <3>1, <4>0, <5>2 DEF p
      <4>2. CASE j = k + 1
        <5>1. k + 1 \in 1..k + 1 /\ n \in 0..n /\ Placed(r, n)
          BY <1>3, <2>1
        <5>2. r[n].records[j] = t.records[k + 1]
          BY <2>1, <4>2, <5>1 DEF Placed, t
        <5>3. t.records[k + 1] = rr
          BY <2>3, <2>4, <2>5
        <5> QED BY <2>4, <2>7, <5>2, <5>3
      <4>3. CASE j > k + 1
        <5>1. j \in (k + 1) + 1..n
          BY <2>1, <4>3
        <5>2. p >= y
          BY <1>3, <2>1, <5>1 DEF Placed, y, t
        <5>3. y \in Nat
          BY <2>3, <2>4
        <5> HIDE DEF p
        <5> QED BY <3>1, <4>0, <5>2, <5>3 DEF p
      <4>4. j <= k \/ j = k + 1 \/ j > k + 1
        BY <2>1
      <4> QED BY <4>1, <4>2, <4>3, <4>4
    <3> QED BY <1>6, <3>1, <3>2 DEF A
  <2>8. b[at] = a[at] /\ b[at + 1] = a[at + 1] /\ b[at + 3] = l
    <3>1. at \in x..y - 1 /\ at + 1 \in x..y - 1 /\ at + 3 \in x..y - 1 /\ at # at + 2 /\ at + 1 # at + 2 /\ at + 3 # at + 2
      BY <2>3, <2>4, <2>5
    <3> QED BY <2>7, <3>1 DEF l
  <2>9. SubSeq(b, at + 4, at + 3 + l) = SubSeq(a, at + 4, at + 3 + l)
    <3>0. at \in Nat /\ l \in Nat /\ x \in Nat /\ A \in Nat /\ at > x /\ y = at + 4 + l /\ at + 3 + l <= A
      BY <2>3, <2>4, <2>5
    <3>1. at + 4 \in Nat /\ at + 3 + l \in Nat
          /\ \A c \in at + 4..at + 3 + l : c \in x..y - 1 /\ c # at + 2 /\ c \in 1..A
      BY <3>0
    <3>2. \A c \in at + 4..at + 3 + l : a[c] \in Nat
      <4>1. \A c \in 1..A : a[c] \in Nat
        BY DEF A
      <4> QED BY <3>1, <4>1
    <3> DEFINE m == at + 4
               p == at + 3 + l
    <3>3. Agree(a, b, m, p)
      BY <2>7, <3>1, <3>2 DEF Agree
    <3>4. m \in Nat
      BY <3>1
    <3>5. p \in Nat
      BY <3>1
    <3> HIDE DEF m, p
    <3>6. Piece(b, m, p) = Piece(a, m, p)
      <4> HIDE DEF S, Same
      <4> QED BY <3>3, <3>4, <3>5, SubSeqSame
    <3> QED BY <3>6 DEF m, p, Piece
  <2>10. ss = Renew(rr, b)
    <3>1. rr = [name |-> name.name, rtype |-> a[at], rclass |-> a[at + 1], ttl |-> a[at + 2],
                rdata |-> SubSeq(a, at + 4, at + 3 + l), ttlOffset |-> at + 2]
      BY DEF rr, RecordAt, l
    <3>2. ss = [name |-> name.name, rtype |-> a[at], rclass |-> a[at + 1], ttl |-> b[at + 2],
                rdata |-> SubSeq(a, at + 4, at + 3 + l), ttlOffset |-> at + 2]
      BY <2>8, <2>9 DEF ss, RecordAt
    <3> QED BY <3>1, <3>2 DEF Renew
  <2>11. Renewed(t.records, b) = Append(Renewed(s.records, b), Renew(rr, b))
    <3> DEFINE u == s.records
    <3>1. u \in Seq(Rr) /\ Len(u) = k /\ DOMAIN u = 1..k /\ t.records = Append(u, rr) /\ rr \in Rr
      BY <2>3, <2>4, <2>5
    <3> HIDE DEF u
    <3>2. DOMAIN Append(u, rr) = 1..k + 1 /\ Append(u, rr)[k + 1] = rr /\ \A j \in 1..k : Append(u, rr)[j] = u[j]
      <4> DEFINE p == Append(u, rr)
      <4>1. p \in Seq(Rr) /\ Len(p) = k + 1 /\ p[k + 1] = rr /\ \A j \in 1..k : p[j] = u[j]
        BY <3>1, AppendProperties
      <4>2. DOMAIN p = 1..Len(p)
        BY <4>1
      <4> QED BY <4>1, <4>2
    <3> DEFINE v == Renewed(u, b)
               w == Renewed(Append(u, rr), b)
               new == Renew(rr, b)
               E == {Renew(u[j], b) : j \in 1..k} \cup {new}
    <3>3. v = [j \in 1..k |-> Renew(u[j], b)]
      BY <3>1 DEF Renewed
    <3>4. w = [j \in 1..k + 1 |-> IF j = k + 1 THEN new ELSE Renew(u[j], b)]
      <4>1. \A j \in 1..k + 1 : j = k + 1 \/ j \in 1..k
        BY <2>1
      <4> QED BY <3>2, <4>1 DEF Renewed
    <3>5. new \in E /\ \A j \in 1..k : Renew(u[j], b) \in E
      OBVIOUS
    <3> HIDE DEF new, v, w, E
    <3>6. v \in Seq(E) /\ Len(v) = k
      BY <2>1, <3>3, <3>5
    <3>7. w \in Seq(E) /\ Len(w) = k + 1 /\ w[k + 1] = new /\ \A j \in 1..k : w[j] = v[j]
      <4>1. \A j \in 1..k + 1 : (IF j = k + 1 THEN new ELSE Renew(u[j], b)) \in E
        <5>1. \A j \in 1..k + 1 : j = k + 1 \/ j \in 1..k
          BY <2>1
        <5> QED BY <3>5, <5>1
      <4>2. k + 1 \in Nat /\ k + 1 \in 1..k + 1 /\ \A j \in 1..k : j # k + 1 /\ j \in 1..k + 1
        BY <2>1
      <4>3. w \in Seq(E) /\ Len(w) = k + 1
        BY <3>4, <4>1, <4>2
      <4>4. w[k + 1] = new /\ \A j \in 1..k : w[j] = v[j]
        BY <3>3, <3>4, <4>2
      <4> QED BY <4>3, <4>4
    <3>8. /\ Append(v, new) \in Seq(E) /\ Len(Append(v, new)) = k + 1
          /\ Append(v, new)[k + 1] = new /\ \A j \in 1..k : Append(v, new)[j] = v[j]
      BY <3>5, <3>6, AppendProperties
    <3>9. w = Append(v, new)
      <4>1. \A j \in 1..k + 1 : j = k + 1 \/ j \in 1..k
        BY <2>1
      <4>2. \A j \in 1..k + 1 : w[j] = Append(v, new)[j]
        BY <3>7, <3>8, <4>1
      <4> QED BY <3>7, <3>8, <4>2, SeqEqual
    <3> QED BY <3>1, <3>9 DEF new, u, v, w
  <2>12. ReadRecord(b, q[k]) = [ok |-> TRUE, end |-> at + 4 + l, records |-> Append(Renewed(s.records, b), ss)]
    <3> DEFINE h == q[k]
    <3>1. h = [ok |-> TRUE, end |-> x, records |-> Renewed(s.records, b)]
      BY <2>1 DEF s, x
    <3> HIDE DEF h
    <3>2. h.ok = TRUE /\ h.end = x /\ h.records = Renewed(s.records, b)
      BY <3>1
    <3>3. ~(at + 3 > Len(b)) /\ ~(at + 3 + l > Len(b))
      BY <2>3, <2>5, SMTT(30) DEF A
    <3>4. ReadRecord(b, h) = [ok |-> TRUE, end |-> at + 4 + l, records |-> Append(h.records, ss)]
      <4>1. ReadName(b, h.end) = name /\ name.end = at /\ name.ok /\ b[at + 3] = l
        BY <2>3, <2>6, <2>8, <3>2 DEF at
      <4> QED BY <3>2, <3>3, <4>1 DEF ReadRecord, RecordAfter, ss, RecordAt
    <3> QED BY <3>2, <3>4 DEF h
  <2>13. q[k + 1] = ReadRecord(b, q[k])
    BY <1>4, <2>1 DEF RecordLoop
  <2> QED BY <2>4, <2>10, <2>11, <2>12, <2>13 DEF t, y
<1>11. S \in SUBSET Nat
  OBVIOUS
<1>12. \A k \in Nat : k \in S
  <2> HIDE DEF S
  <2> QED BY <1>9, <1>10, <1>11, AllNumbers
<1> QED BY <1>12 DEF r, q

-------------------------------------------------------------------------------
(* Questions on a prefix *)

\* Each question ends after the one before.
LEMMA QuestionEnds ==
    ASSUME NEW body \in Seq(Nat), NEW n \in Nat, QuestionsOf(body)[n].ok, 0 \notin QuestionTrails(body, n)
    PROVE  LET r == QuestionsOf(body)
           IN  /\ \A k \in 0..n : r[k].ok /\ r[k].end \in Nat /\ r[k].end <= r[n].end
               /\ \A k \in 1..n : r[k].end >= 3
               /\ r[n].end \in 1..Len(body) + 1
               /\ r[n].questions \in Seq(Question) /\ Len(r[n].questions) = n
<1> DEFINE r == QuestionsOf(body)
           S == {k \in Nat : k <= n => \A i \in 0..k : r[i].end <= r[k].end}
<1>1. \A k \in 0..n : r[k].ok /\ QuestionsWell(body, k, r[k])
  BY QuestionsReadBefore, QuestionsTyped
<1>2. ASSUME NEW k \in 0..n - 1 PROVE r[k + 1].end >= r[k].end + 3
  <2>1. k \in Nat /\ k \in 0..n /\ k + 1 \in 0..n
    OBVIOUS
  <2> DEFINE s == r[k]
             t == r[k + 1]
             name == ReadName(body, s.end)
             x == s.end
             y == name.end
  <2>2. t.ok /\ x \in Nat
    BY <1>1, <2>1 DEF QuestionsWell
  <2>3. /\ name.ok
        /\ t = [ok |-> TRUE, end |-> y + 2, questions |->
                Append(s.questions, [name |-> name.name, qtype |-> body[y], qclass |-> body[y + 1]])]
    BY <2>1, <2>2, QuestionRead
  <2>4. t.end = y + 2
    <3> HIDE DEF t, y
    <3> QED BY <2>3
  <2>5. 0 \notin Trail(body, x)
    BY DEF QuestionTrails
  <2>6. y \in Nat /\ y > x
    BY <2>2, <2>3, <2>5, NameTyped
  <2> HIDE DEF x, y, t
  <2> QED BY <2>2, <2>4, <2>6 DEF x, t
<1> HIDE DEF r
<1>3. \A k \in 0..n : r[k].end \in Nat
  BY <1>1 DEF QuestionsWell
<1>4. 0 \in S
  <2> SUFFICES ASSUME NEW i \in 0..0 PROVE r[i].end <= r[0].end
    OBVIOUS
  <2>1. i = 0 /\ 0 \in 0..n
    OBVIOUS
  <2> DEFINE x == r[0].end
  <2>2. x \in Nat
    BY <1>3, <2>1
  <2> HIDE DEF x
  <2> QED BY <2>1, <2>2 DEF x
<1>5. ASSUME NEW k \in S PROVE k + 1 \in S
  <2> SUFFICES ASSUME k + 1 <= n, NEW i \in 0..k + 1 PROVE r[i].end <= r[k + 1].end
    OBVIOUS
  <2> DEFINE x == r[i].end
             y == r[k].end
             z == r[k + 1].end
  <2>1. k \in 0..n - 1 /\ k \in 0..n /\ k + 1 \in 0..n /\ i \in 0..n /\ (i = k + 1 \/ i \in 0..k)
    OBVIOUS
  <2>2. x \in Nat /\ y \in Nat /\ z \in Nat /\ z >= y + 3
    BY <1>2, <1>3, <2>1
  <2>3. i \in 0..k => x <= y
    BY <2>1
  <2> HIDE DEF x, y, z
  <2>4. CASE i = k + 1
    BY <2>2, <2>4 DEF x, z
  <2>5. CASE i \in 0..k
    <3>1. x <= z
      BY <2>2, <2>3, <2>5
    <3> QED BY <3>1 DEF x, z
  <2> QED BY <2>1, <2>4, <2>5
<1>6. S \in SUBSET Nat
  OBVIOUS
<1>7. \A k \in Nat : k \in S
  <2> HIDE DEF S
  <2> QED BY <1>4, <1>5, <1>6, AllNumbers
<1>8. \A i \in 0..n : r[i].end <= r[n].end
  BY <1>7
<1>9. \A k \in 1..n : r[k].end >= 3
  <2> SUFFICES ASSUME NEW k \in 1..n PROVE r[k].end >= 3
    OBVIOUS
  <2> DEFINE j == k - 1
  <2>1. j \in 0..n - 1 /\ j \in 0..n /\ j + 1 = k
    OBVIOUS
  <2> HIDE DEF j
  <2> DEFINE x == r[j].end
             y == r[j + 1].end
  <2>2. x \in Nat /\ y >= x + 3 /\ y \in Nat
    <3>1. j + 1 \in 0..n
      BY <2>1
    <3> QED BY <1>2, <1>3, <2>1, <3>1
  <2> HIDE DEF x, y
  <2>3. y >= 3
    BY <2>2
  <2> QED BY <2>1, <2>3 DEF y
<1>10. n \in 0..n /\ QuestionsWell(body, n, r[n]) /\ Len(body) \in Nat
  BY <1>1
<1>11. r[n].end \in 1..Len(body) + 1 /\ r[n].questions \in Seq(Question) /\ Len(r[n].questions) = n
  <2> DEFINE x == r[n].end
  <2>1. x \in Nat /\ n < x /\ x <= Len(body) + 1
    BY <1>10 DEF QuestionsWell
  <2> HIDE DEF x
  <2>2. x \in 1..Len(body) + 1
    BY <1>10, <2>1
  <2> QED BY <1>10, <2>2 DEF QuestionsWell, x
<1> QED BY <1>1, <1>3, <1>8, <1>9, <1>11 DEF r

\* A body that begins with the question section of another has its questions.
LEMMA PrefixSame ==
    ASSUME NEW a \in Seq(Nat), NEW b \in Seq(Nat), NEW n \in Nat, QuestionsOf(a)[n].ok,
           QuestionTrails(a, n) \subseteq 1..QuestionsOf(a)[n].end - 1,
           Len(b) + 1 >= QuestionsOf(a)[n].end, \A i \in 1..QuestionsOf(a)[n].end - 1 : b[i] = a[i]
    PROVE  QuestionsOf(b)[n] = QuestionsOf(a)[n] /\ QuestionTrails(b, n) = QuestionTrails(a, n)
<1> DEFINE r == QuestionsOf(a)
           e == r[n].end
<1>1. 0 \notin QuestionTrails(a, n)
  OBVIOUS
<1>2. /\ \A k \in 0..n : r[k].ok /\ r[k].end \in Nat /\ r[k].end <= e
      /\ \A k \in 1..n : r[k].end >= 3
      /\ e \in 1..Len(a) + 1
  BY <1>1, QuestionEnds
<1>3. Len(b) \in Nat /\ Len(a) \in Nat /\ e <= Len(b) + 1
  BY <1>2
<1>4. QuestionTrails(a, n) \subseteq 1..e - 1 /\ \A i \in 1..e - 1 : b[i] = a[i]
  OBVIOUS
<1> HIDE DEF r, e
<1>5. \A i \in 1..e - 1 : i \in DOMAIN a /\ i \in DOMAIN b /\ i # 0
  BY <1>2, <1>3
<1>6. \A i \in QuestionTrails(a, n) : Alike(a, b, i)
  BY <1>4, <1>5 DEF Alike
<1>7. ASSUME NEW k \in 1..n
      PROVE  LET f == r[k].end IN f <= Len(b) + 1 /\ b[f - 2] = a[f - 2] /\ b[f - 1] = a[f - 1]
  <2> DEFINE f == r[k].end
  <2>1. k \in 0..n
    OBVIOUS
  <2>2. f \in Nat /\ f >= 3 /\ f <= e
    BY <1>2, <2>1
  <2> HIDE DEF f
  <2>3. f <= Len(b) + 1 /\ f - 2 \in 1..e - 1 /\ f - 1 \in 1..e - 1
    BY <1>2, <1>3, <2>2
  <2> QED BY <1>4, <2>3 DEF f
<1>8. /\ \A k \in 0..n : QuestionsOf(b)[k] = QuestionsOf(a)[k]
      /\ QuestionTrails(b, n) = QuestionTrails(a, n)
  BY <1>6, <1>7, QuestionsSame DEF r
<1>9. n \in 0..n
  OBVIOUS
<1> QED BY <1>8, <1>9

\* The first question stays the first.
LEMMA FirstStays ==
    ASSUME NEW body \in Seq(Nat), NEW n \in Nat \ {0}, QuestionsOf(body)[n].ok, 0 \notin QuestionTrails(body, n)
    PROVE  QuestionsOf(body)[n].questions[1] = QuestionsOf(body)[1].questions[1]
<1> DEFINE r == QuestionsOf(body)
           S == {k \in Nat : k + 1 <= n => r[k + 1].questions[1] = r[1].questions[1]}
<1>1. \A k \in 0..n : r[k].ok /\ QuestionsWell(body, k, r[k])
  <2>1. n \in Nat
    OBVIOUS
  <2> QED BY <2>1, QuestionsReadBefore, QuestionsTyped
<1>2. 0 \in S
  OBVIOUS
<1>3. ASSUME NEW k \in S PROVE k + 1 \in S
  <2> SUFFICES ASSUME (k + 1) + 1 <= n PROVE r[(k + 1) + 1].questions[1] = r[1].questions[1]
    OBVIOUS
  <2> DEFINE j == k + 1
             s == r[j]
             t == r[j + 1]
             name == ReadName(body, s.end)
             q == [name |-> name.name, qtype |-> body[name.end], qclass |-> body[name.end + 1]]
  <2>1. j \in Nat /\ j >= 1 /\ j \in 0..n /\ j + 1 \in 0..n /\ s.questions[1] = r[1].questions[1]
    OBVIOUS
  <2> HIDE DEF j
  <2>2. t.ok /\ QuestionsWell(body, j, s)
    BY <1>1, <2>1
  <2>3. t = [ok |-> TRUE, end |-> name.end + 2, questions |-> Append(s.questions, q)]
    BY <2>1, <2>2, QuestionRead
  <2>4. t.questions = Append(s.questions, q)
    <3> HIDE DEF t, q, name
    <3> QED BY <2>3
  <2>5. s.questions \in Seq(Question) /\ Len(s.questions) = j
    BY <2>2 DEF QuestionsWell
  <2> DEFINE u == s.questions
             E == Question \cup {q}
  <2>6. u \in Seq(E) /\ Len(u) = j /\ q \in E
    <3>1. \A i \in 1..j : u[i] \in Question
      BY <2>1, <2>5
    <3>2. u = [i \in 1..j |-> u[i]]
      <4> HIDE DEF u
      <4>1. u \in Seq(Question) /\ Len(u) = j
        BY <2>5 DEF u
      <4> QED BY <4>1
    <3> HIDE DEF u, q
    <3>3. u \in Seq(E)
      BY <2>1, <3>1, <3>2, SMTT(30)
    <3> QED BY <2>5, <3>3 DEF u
  <2> HIDE DEF u, q, E, t
  <2>7. Append(u, q)[1] = u[1]
    <3>1. \A i \in 1..Len(u) : Append(u, q)[i] = u[i]
      BY <2>6, AppendProperties
    <3>2. 1 \in 1..Len(u)
      BY <2>1, <2>6
    <3> QED BY <3>1, <3>2
  <2> QED BY <2>1, <2>4, <2>7 DEF t, u, j
<1>4. S \in SUBSET Nat
  OBVIOUS
<1>5. \A k \in Nat : k \in S
  <2> HIDE DEF S
  <2> QED BY <1>2, <1>3, <1>4, AllNumbers
<1>6. n - 1 \in Nat /\ (n - 1) + 1 = n /\ n <= n
  OBVIOUS
<1>7. n - 1 \in S
  BY <1>5, <1>6
<1> QED BY <1>6, <1>7

\* A message whose questions can be read, and where they end.
LEMMA QuestionsIn ==
    ASSUME NEW m, m.body \in Seq(Nat), m.qd \in Nat, ParseQuestions(m).ok,
           QuestionTrails(m.body, m.qd) \subseteq 1..ParseQuestions(m).end - 1
    PROVE  LET p == ParseQuestions(m)
           IN  /\ p.end \in 1..Len(m.body) + 1
               /\ p.questions \in Seq(Question) /\ Len(p.questions) = m.qd
               /\ QuestionCells(m) \in Seq(Nat) /\ Len(QuestionCells(m)) = p.end - 1
               /\ \A i \in 1..p.end - 1 : QuestionCells(m)[i] = m.body[i]
<1> DEFINE a == m.body
           n == m.qd
           p == ParseQuestions(m)
           e == p.end
           c == QuestionCells(m)
<1>1. 0 \notin QuestionTrails(a, n) /\ QuestionsOf(a)[n].ok /\ p = QuestionsOf(a)[n]
  BY DEF ParseQuestions
<1>2. a \in Seq(Nat) /\ n \in Nat
  OBVIOUS
<1>3. e \in 1..Len(a) + 1 /\ p.questions \in Seq(Question) /\ Len(p.questions) = n
  <2> HIDE DEF a, n, p
  <2> QED BY <1>1, <1>2, QuestionEnds
<1>4. c = SubSeq(a, 1, e - 1)
  BY DEF QuestionCells
<1> HIDE DEF a, e, c
<1>5. \A i \in 1..e - 1 : a[i] \in Nat
  BY <1>2, <1>3
<1>6. 1 \in Int /\ e - 1 \in Int /\ 1 + (e - 1) - 1 = e - 1 /\ (e - 1) - 1 + 1 = e - 1
  BY <1>3
<1>7. /\ SubSeq(a, 1, e - 1) \in Seq(Nat)
      /\ Len(SubSeq(a, 1, e - 1)) = IF 1 <= e - 1 THEN (e - 1) - 1 + 1 ELSE 0
      /\ \A i \in 1..(e - 1) - 1 + 1 : SubSeq(a, 1, e - 1)[i] = a[1 + i - 1]
  BY <1>5, <1>6, SubSeqProperties
<1>8. \A i \in 1..e - 1 : i \in 1..(e - 1) - 1 + 1 /\ 1 + i - 1 = i
  BY <1>3
<1>9. c \in Seq(Nat) /\ Len(c) = e - 1 /\ \A i \in 1..e - 1 : c[i] = a[i]
  <2>1. /\ c \in Seq(Nat) /\ Len(c) = IF 1 <= e - 1 THEN (e - 1) - 1 + 1 ELSE 0
        /\ \A i \in 1..(e - 1) - 1 + 1 : c[i] = a[1 + i - 1]
    BY <1>4, <1>7, Zenon
  <2>2. e \in Nat \ {0}
    BY <1>3
  <2>3. Len(c) = e - 1
    BY <2>1, <2>2
  <2> QED BY <1>8, <2>1, <2>3, Zenon
<1> QED BY <1>3, <1>9 DEF a, e, c, n, p

\* The first question of a query, as it is written.
LEMMA FirstQuestion ==
    ASSUME NEW a \in Seq(Nat), NEW n \in Nat \ {0}, QuestionsOf(a)[n].ok, 0 \notin QuestionTrails(a, n),
           Encodable(QuestionsOf(a)[n].questions[1].name), Written(a, QuestionsOf(a)[n].questions[1].name)
    PROVE  LET q == QuestionsOf(a)[n].questions[1]
               z == Len(EncodeName(q.name).cells)
           IN  /\ q \in Question /\ Lowered(q.name) = q.name
               /\ z \in Nat \ {0} /\ z + 2 <= Len(a) /\ a[z + 1] = q.qtype /\ a[z + 2] = q.qclass
               /\ QuestionsOf(a)[1] = [ok |-> TRUE, questions |-> <<q>>, end |-> z + 3]
               /\ QuestionTrails(a, 1) \subseteq 1..z
               /\ QuestionsOf(a)[n].end >= z + 3
<1> DEFINE r == QuestionsOf(a)
           q == r[n].questions[1]
           z == Len(EncodeName(q.name).cells)
           name == ReadName(a, 1)
<1>1. n \in Nat /\ 1 \in 0..n /\ 1 \in 1..n /\ 0 \in 0..n - 1
  OBVIOUS
<1>2. r[1].ok /\ r[1].end \in Nat /\ r[1].end <= r[n].end
  BY <1>1, QuestionEnds
<1>3. QuestionsWell(a, 1, r[1]) /\ q = r[1].questions[1]
  <2>1. QuestionsWell(a, 1, r[1])
    BY <1>1, QuestionsTyped
  <2> QED BY <2>1, FirstStays
<1>4. name = [ok |-> TRUE, name |-> Lowered(q.name), end |-> z + 1] /\ z \in Nat \ {0}
      /\ Trail(a, 1) \subseteq 1..z
  BY ReadEncoded
<1>5. r[0] = [ok |-> TRUE, questions |-> <<>>, end |-> 1]
  BY QuestionsSteps
<1>6. r[0].end = 1 /\ r[0].questions = <<>>
  BY <1>5
<1> DEFINE new == [name |-> name.name, qtype |-> a[name.end], qclass |-> a[name.end + 1]]
<1>7. ~(name.end + 1 > Len(a))
      /\ r[1] = [ok |-> TRUE, end |-> name.end + 2, questions |-> Append(r[0].questions, new)]
  <2>1. r[0 + 1].ok
    BY <1>2
  <2>2. LET s == QuestionsOf(a)[0]
            nm == ReadName(a, s.end)
        IN  /\ s.ok /\ nm.ok /\ ~(nm.end + 1 > Len(a))
            /\ QuestionsOf(a)[0 + 1] = [ok |-> TRUE, end |-> nm.end + 2, questions |->
                    Append(s.questions, [name |-> nm.name, qtype |-> a[nm.end], qclass |-> a[nm.end + 1]])]
    BY <2>1, QuestionRead
  <2> QED BY <1>6, <2>2
<1>8. name.name = Lowered(q.name) /\ name.end = z + 1
  BY <1>4
<1> HIDE DEF r, name, z
<1>9. new = [name |-> Lowered(q.name), qtype |-> a[z + 1], qclass |-> a[z + 2]]
  <2>1. (z + 1) + 1 = z + 2
    BY <1>4
  <2> QED BY <1>8, <2>1
<1> HIDE DEF new
<1>10. Append(r[0].questions, new) = <<new>>
  BY <1>6
<1>11. r[1].questions = <<new>> /\ r[1].end = z + 3
  <2>1. (z + 1) + 2 = z + 3
    BY <1>4
  <2> QED BY <1>7, <1>8, <1>10, <2>1
<1>12. q = new
  BY <1>3, <1>11
<1>13. q \in Question
  BY <1>3 DEF QuestionsWell
<1>14. Lowered(q.name) = q.name /\ a[z + 1] = q.qtype /\ a[z + 2] = q.qclass
  BY <1>9, <1>12
<1>15. z + 2 <= Len(a)
  <2>1. Len(a) \in Nat /\ ~((z + 1) + 1 > Len(a))
    BY <1>7, <1>8
  <2> QED BY <1>4, <2>1
<1>16. r[1] = [ok |-> TRUE, questions |-> <<q>>, end |-> z + 3]
  <2> DEFINE y == name.end + 2
             x == Append(r[0].questions, new)
  <2>1. y = z + 3 /\ x = <<q>>
    <3>1. (z + 1) + 2 = z + 3
      BY <1>4
    <3> QED BY <1>8, <1>10, <1>12, <3>1
  <2>2. r[1] = [ok |-> TRUE, end |-> y, questions |-> x]
    BY <1>7
  <2> HIDE DEF x, y, q
  <2>3. r[1] = [ok |-> TRUE, questions |-> x, end |-> y]
    BY <2>2
  <2> QED BY <2>1, <2>3
<1>17. QuestionTrails(a, 1) \subseteq 1..z
  <2>1. QuestionTrails(a, 1) = Trail(a, r[0].end)
    <3>1. 0..1 - 1 = {0}
      BY FirstOnly
    <3> QED BY <3>1 DEF QuestionTrails, r
  <2> QED BY <1>4, <1>6, <2>1
<1>18. r[n].end >= z + 3
  BY <1>2, <1>11
<1> QED BY <1>4, <1>13, <1>14, <1>15, <1>16, <1>17, <1>18, Zenon DEF r, z

-------------------------------------------------------------------------------
(* Replies *)

\* A message, field by field.
MessageForm(m) ==
    m = [id |-> m.id, flags |-> m.flags, opcode |-> m.opcode, rcode |-> m.rcode,
         qd |-> m.qd, an |-> m.an, ns |-> m.ns, ar |-> m.ar, body |-> m.body]

\* A message whose questions can be read, from the question section alone.
Readably(m) ==
    /\ m.body \in Seq(Nat) /\ m.qd \in Nat
    /\ ParseQuestions(m).ok
    /\ QuestionTrails(m.body, m.qd) \subseteq 1..ParseQuestions(m).end - 1

\* A reply that is its query's.
Fits(reply, query) ==
    /\ MessageForm(reply) /\ Readably(reply)
    /\ reply.id = query.id /\ "QR" \in reply.flags
    /\ query.qd = 1 => QuestionCells(reply) = QuestionCells(query)
    /\ query.qd > 0 => Head(ParseQuestions(reply).questions) = Head(ParseQuestions(query).questions)

\* A message that begins with the question section of another.
LEMMA SameSection ==
    ASSUME NEW m, Readably(m), NEW n, n.body \in Seq(Nat), n.qd = m.qd,
           Len(n.body) + 1 >= ParseQuestions(m).end,
           \A i \in 1..ParseQuestions(m).end - 1 : n.body[i] = m.body[i]
    PROVE  /\ Readably(n) /\ ParseQuestions(n) = ParseQuestions(m)
           /\ QuestionCells(n) = QuestionCells(m)
<1> DEFINE a == m.body
           b == n.body
           k == m.qd
           e == ParseQuestions(m).end
<1>1. /\ a \in Seq(Nat) /\ b \in Seq(Nat) /\ k \in Nat /\ n.qd = k
      /\ ParseQuestions(m) = QuestionsOf(a)[k] /\ ParseQuestions(n) = QuestionsOf(b)[k]
      /\ QuestionsOf(a)[k].ok /\ e = QuestionsOf(a)[k].end
      /\ QuestionTrails(a, k) \subseteq 1..e - 1
      /\ Len(b) + 1 >= e /\ \A i \in 1..e - 1 : b[i] = a[i]
  BY DEF Readably, ParseQuestions
<1>2. e \in 1..Len(a) + 1
  BY QuestionsIn DEF Readably
<1> HIDE DEF a, b, k, e
<1>3. QuestionsOf(b)[k] = QuestionsOf(a)[k] /\ QuestionTrails(b, k) = QuestionTrails(a, k)
  <2>1. /\ QuestionTrails(a, k) \subseteq 1..QuestionsOf(a)[k].end - 1
        /\ Len(b) + 1 >= QuestionsOf(a)[k].end
        /\ \A i \in 1..QuestionsOf(a)[k].end - 1 : b[i] = a[i]
    BY <1>1, Zenon
  <2>2. a \in Seq(Nat) /\ b \in Seq(Nat) /\ k \in Nat /\ QuestionsOf(a)[k].ok
    BY <1>1, Zenon
  <2> QED BY <2>1, <2>2, PrefixSame
<1>4. ParseQuestions(n) = ParseQuestions(m)
  BY <1>1, <1>3
<1>5. Readably(n)
  BY <1>1, <1>3, <1>4 DEF Readably, a, b, k, e
<1>6. QuestionCells(n) = QuestionCells(m)
  <2> DEFINE l == e - 1
  <2>1. l \in Nat /\ 1 \in Nat /\ \A i \in 1..l : i \in 1..Len(a)
    BY <1>2
  <2>2. Agree(a, b, 1, l)
    BY <1>1, <2>1 DEF Agree
  <2>3. QuestionCells(m) = Piece(a, 1, l) /\ QuestionCells(n) = Piece(b, 1, l)
    BY <1>4 DEF QuestionCells, Piece, a, b, e
  <2> HIDE DEF l
  <2>4. Piece(b, 1, l) = Piece(a, 1, l)
    BY <2>1, <2>2, SubSeqSame
  <2> QED BY <2>3, <2>4
<1> QED BY <1>4, <1>5, <1>6

\* Without records there is nothing to misread.
LEMMA NoRecords ==
    ASSUME NEW m, ParseQuestions(m).ok, m.an + m.ns + m.ar = 0
    PROVE  IterRecords(m).ok
<1> DEFINE o == ParseQuestions(m).end
<1> HIDE DEF o
<1>1. IterRecords(m) = RecordsFrom(m.body, o)[0]
  BY DEF IterRecords, o
<1>2. RecordsFrom(m.body, o)[0] = [ok |-> TRUE, records |-> <<>>, end |-> o]
  BY RecordsSteps
<1> QED BY <1>1, <1>2

\* _truncate() leaves a reply its query's.
LEMMA TruncatedFits ==
    ASSUME NEW reply, NEW query, Fits(reply, query)
    PROVE  Fits(Truncate(reply), query) /\ IterRecords(Truncate(reply)).ok
<1> DEFINE c == QuestionCells(reply)
           t == Truncate(reply)
           e == ParseQuestions(reply).end
<1>1. MessageForm(reply) /\ Readably(reply)
  BY DEF Fits
<1>2. t = [id |-> reply.id, flags |-> reply.flags \cup {"TC"}, opcode |-> reply.opcode, rcode |-> reply.rcode,
           qd |-> reply.qd, an |-> 0, ns |-> 0, ar |-> 0, body |-> c]
  <2> HIDE DEF c
  <2>1. t = [reply EXCEPT !.flags = @ \cup {"TC"}, !.an = 0, !.ns = 0, !.ar = 0, !.body = c]
    BY <1>1 DEF Truncate, Readably, c
  <2> HIDE DEF t
  <2> QED BY <1>1, <2>1 DEF MessageForm
<1>3. /\ e \in 1..Len(reply.body) + 1 /\ c \in Seq(Nat) /\ Len(c) = e - 1
      /\ \A i \in 1..e - 1 : c[i] = reply.body[i]
  BY <1>1, QuestionsIn DEF Readably
<1> HIDE DEF c, t
<1>4. /\ t.id = reply.id /\ t.flags = reply.flags \cup {"TC"}
      /\ t.qd = reply.qd /\ t.an = 0 /\ t.ns = 0 /\ t.ar = 0 /\ t.body = c
  BY <1>2
<1>5. MessageForm(t)
  BY <1>2 DEF MessageForm
<1>6. /\ Readably(t) /\ ParseQuestions(t) = ParseQuestions(reply)
      /\ QuestionCells(t) = QuestionCells(reply)
  <2>1. Len(c) + 1 >= e
    BY <1>3
  <2> QED BY <1>1, <1>3, <1>4, <2>1, SameSection
<1>7. IterRecords(t).ok
  <2>1. ParseQuestions(t).ok /\ t.an + t.ns + t.ar = 0
    BY <1>4, <1>6 DEF Readably
  <2> QED BY <2>1, NoRecords
<1>8. Fits(t, query)
  BY <1>4, <1>5, <1>6 DEF Fits
<1> QED BY <1>7, <1>8 DEF t

\* The smaller of two numbers.
LEMMA MinOfTwo ==
    ASSUME NEW a \in Nat, NEW b \in Nat
    PROVE  Min({a, b}) \in {a, b}
<1>1. \E x \in {a, b} : \A y \in {a, b} : x =< y
  <2>1. {a, b} \in SUBSET Nat /\ {a, b} # {}
    OBVIOUS
  <2> QED BY <2>1, LeastNumber
<1> QED BY <1>1 DEF Min

\* The larger of two numbers.
LEMMA MaxOfTwo ==
    ASSUME NEW a \in Int, NEW b \in Int
    PROVE  Max({a, b}) = IF a >= b THEN a ELSE b
<1>1. CASE a >= b
  <2>1. \A x \in {a, b} : (\A y \in {a, b} : x >= y) => x = a
    BY <1>1
  <2>2. a \in {a, b} /\ \A y \in {a, b} : a >= y
    BY <1>1
  <2> QED BY <1>1, <2>1, <2>2 DEF Max
<1>2. CASE ~(a >= b)
  <2>1. \A x \in {a, b} : (\A y \in {a, b} : x >= y) => x = b
    BY <1>2
  <2>2. b \in {a, b} /\ \A y \in {a, b} : b >= y
    BY <1>2
  <2> QED BY <1>2, <2>1, <2>2 DEF Max
<1> QED BY <1>1, <1>2

\* The payload size that is offered back.
LEMMA ClampTyped ==
    ASSUME NEW n \in Nat
    PROVE  Clamp(n, 512, SAFE_UDP_PAYLOAD) \in Nat
<1> DEFINE m == Min({n, SAFE_UDP_PAYLOAD})
<1>1. SAFE_UDP_PAYLOAD \in Nat
  BY DEF SAFE_UDP_PAYLOAD
<1>2. m \in Nat
  BY <1>1, MinOfTwo
<1> HIDE DEF m
<1>3. Max({512, m}) \in Nat
  BY <1>2, MaxOfTwo
<1> QED BY <1>3 DEF Clamp, m

\* A query that can be read.
LEMMA QueryReadable ==
    ASSUME NEW q \in ClientQueries, Ordinary(q), ParseQuestions(q).ok
    PROVE  /\ Readably(q) /\ q.id \in Nat /\ q.flags \in SUBSET STRING /\ q.opcode \in Nat
           /\ q.qd \in Nat /\ 0 \notin RecordTrails(q)
           /\ q.an \in Nat /\ q.ns \in Nat /\ q.ar \in Nat
<1>1. q \in DnsMessage
  BY MessagesAssumption
<1>2. /\ q.id \in Nat /\ q.flags \in SUBSET STRING /\ q.opcode \in Nat /\ q.qd \in Nat /\ q.body \in Seq(Nat)
      /\ q.an \in Nat /\ q.ns \in Nat /\ q.ar \in Nat
  BY <1>1 DEF DnsMessage
<1>3. 0 \notin RecordTrails(q) /\ QuestionTrails(q.body, q.qd) \subseteq 1..ParseQuestions(q).end - 1
  BY DEF Ordinary
<1> QED BY <1>2, <1>3 DEF Readably

\* The cells that reading the records of a message looks at.
LEMMA RecordTrailsAre ==
    ASSUME NEW m, m.an \in Nat, m.ns \in Nat, m.ar \in Nat
    PROVE  RecordTrails(m) = RecTrails(m.body, ParseQuestions(m).end, m.an + m.ns + m.ar)
<1> DEFINE last == m.an + m.ns + m.ar - 1
           n == m.an + m.ns + m.ar
           o == ParseQuestions(m).end
<1>1. RecordTrails(m) = UNION {Trail(m.body, RecordsFrom(m.body, o)[k].end) : k \in 0..last}
  BY Zenon DEF RecordTrails
<1>2. last = n - 1
  OBVIOUS
<1> HIDE DEF n, last
<1>3. RecTrails(m.body, o, n) = UNION {Trail(m.body, RecordsFrom(m.body, o)[k].end) : k \in 0..n - 1}
  BY Zenon DEF RecTrails
<1>4. RecordTrails(m) = RecTrails(m.body, o, n)
  BY <1>1, <1>2, <1>3
<1> QED BY <1>4 DEF n

\* The OPT record that answers the query's.
Additional(q) ==
    IF OptPlaces(q) = {} THEN <<>> ELSE OptRecord(Clamp(FirstOpt(q).rclass, 512, SAFE_UDP_PAYLOAD), 0)

\* _response_skeleton() adds an OPT record or nothing.
LEMMA AdditionalIs ==
    ASSUME NEW q \in ClientQueries, Ordinary(q), ParseQuestions(q).ok
    PROVE  \/ Additional(q) = <<>>
           \/ \E size \in Nat : Additional(q) = <<0, TYPE_OPT, size, 0, 0>>
<1> DEFINE o == ParseQuestions(q).end
           n == q.an + q.ns + q.ar
           records == IterRecords(q).records
<1>1. /\ Readably(q) /\ 0 \notin RecordTrails(q) /\ n \in Nat /\ q.body \in Seq(Nat)
  BY QueryReadable DEF Readably
<1>2. o \in Nat
  BY <1>1, QuestionsIn DEF Readably
<1>3. RecordTrails(q) = RecTrails(q.body, o, n)
  BY QueryReadable, RecordTrailsAre
<1>4. IterRecords(q) = RecordsFrom(q.body, o)[n]
  BY DEF IterRecords
<1> HIDE DEF o, n
<1>5. RecordsWell(o, RecordsFrom(q.body, o)[n])
  <2>1. n \in 0..n
    BY <1>1
  <2> QED BY <1>1, <1>2, <1>3, <2>1, RecordsTyped
<1>6. records \in Seq(Rr)
  BY <1>4, <1>5 DEF RecordsWell
<1>7. CASE OptPlaces(q) # {}
  <2>1. OptPlaces(q) \subseteq DOMAIN records /\ DOMAIN records \subseteq Nat
    BY <1>6 DEF OptPlaces
  <2>2. Min(OptPlaces(q)) \in OptPlaces(q)
    <3>1. OptPlaces(q) \in SUBSET Nat
      BY <2>1
    <3>2. \E x \in OptPlaces(q) : \A y \in OptPlaces(q) : x =< y
      BY <1>7, <3>1, LeastNumber
    <3> QED BY <3>2 DEF Min
  <2>3. FirstOpt(q) \in Rr
    BY <1>6, <2>1, <2>2 DEF FirstOpt
  <2>4. FirstOpt(q).rclass \in Nat
    BY <2>3 DEF Rr
  <2> DEFINE size == Clamp(FirstOpt(q).rclass, 512, SAFE_UDP_PAYLOAD)
  <2>5. size \in Nat
    BY <2>4, ClampTyped
  <2>6. Additional(q) = <<0, TYPE_OPT, size, 0, 0>>
    BY <1>7 DEF Additional, OptRecord
  <2> HIDE DEF size
  <2> QED BY <2>5, <2>6
<1>8. CASE OptPlaces(q) = {}
  BY <1>8 DEF Additional
<1> QED BY <1>7, <1>8

\* What is made here begins with the question section and is its query's.
LEMMA SynthesisedFits ==
    ASSUME NEW q \in ClientQueries, Ordinary(q), ParseQuestions(q).ok,
           NEW rcode, NEW answers, NEW records \in Seq(Nat)
    PROVE  LET s == Synthesised(q, rcode, answers, records)
               m == s.message
           IN  /\ s.ok /\ Fits(m, q) /\ m.qd = q.qd /\ ParseQuestions(m) = ParseQuestions(q)
               /\ m.an = answers /\ m.ns = 0 /\ m.ar = Len(Additional(q)) \div 5
               /\ m.body = QuestionCells(q) \o records \o Additional(q)
               /\ MessageForm(m)
<1> DEFINE s == Synthesised(q, rcode, answers, records)
           m == s.message
           add == Additional(q)
           c == QuestionCells(q)
           e == ParseQuestions(q).end
           flags == {"QR", "RA"} \cup (q.flags \cap {"RD", "CD"})
           body == c \o records \o add
           ar == Len(add) \div 5
           form == [id |-> q.id, flags |-> flags, opcode |-> q.opcode, rcode |-> rcode,
                    qd |-> q.qd, an |-> answers, ns |-> 0, ar |-> ar, body |-> body]
<1>1. s = [ok |-> TRUE, message |-> form]
  BY DEF Synthesised, Additional
<1>2. "QR" \in flags
  OBVIOUS
<1> HIDE DEF flags, body, ar
<1>3. s.ok /\ m = form
  <2> HIDE DEF form
  <2> QED BY <1>1
<1> HIDE DEF m, s
<1>4. /\ m.id = q.id /\ m.flags = flags /\ m.qd = q.qd /\ m.an = answers /\ m.ns = 0 /\ m.ar = ar /\ m.body = body
  BY <1>3
<1>5. MessageForm(m)
  BY <1>3 DEF MessageForm
<1>6. Readably(q)
  BY QueryReadable
<1>7. /\ e \in 1..Len(q.body) + 1 /\ c \in Seq(Nat) /\ Len(c) = e - 1
      /\ \A i \in 1..e - 1 : c[i] = q.body[i]
      /\ ParseQuestions(q).questions \in Seq(Question)
  BY <1>6, QuestionsIn DEF Readably
<1>8. add \in Seq(Nat)
  <2>1. CASE add = <<>>
    <3>1. <<>> \in Seq(Nat)
      OBVIOUS
    <3> QED BY <2>1, <3>1
  <2>2. ASSUME NEW size \in Nat, add = <<0, TYPE_OPT, size, 0, 0>>
        PROVE  add \in Seq(Nat)
    <3>1. TYPE_OPT \in Nat
      BY DEF TYPE_OPT
    <3>2. <<0, TYPE_OPT, size, 0, 0>> \in Seq(Nat)
      BY <3>1
    <3> QED BY <2>2, <3>2
  <2> HIDE DEF add
  <2>3. add = <<>> \/ \E size \in Nat : add = <<0, TYPE_OPT, size, 0, 0>>
    BY AdditionalIs DEF add
  <2> QED BY <2>1, <2>2, <2>3
<1> HIDE DEF c, e, add
<1>9. body \in Seq(Nat) /\ Len(body) >= e - 1 /\ \A i \in 1..e - 1 : body[i] = c[i]
  <2> DEFINE x == c \o records
  <2>1. x \in Seq(Nat) /\ Len(x) = Len(c) + Len(records)
        /\ \A i \in 1..Len(c) + Len(records) : x[i] = IF i <= Len(c) THEN c[i] ELSE records[i - Len(c)]
    BY <1>7, ConcatProperties
  <2> HIDE DEF x
  <2>2. x \o add \in Seq(Nat) /\ Len(x \o add) = Len(x) + Len(add)
        /\ \A i \in 1..Len(x) + Len(add) : (x \o add)[i] = IF i <= Len(x) THEN x[i] ELSE add[i - Len(x)]
    BY <1>8, <2>1, ConcatProperties
  <2>3. body = x \o add
    BY DEF body, x
  <2>4. Len(c) \in Nat /\ Len(records) \in Nat /\ Len(add) \in Nat /\ e \in Nat
    BY <1>7, <1>8
  <2> DEFINE y == x \o add
  <2>5. body = y /\ y \in Seq(Nat) /\ Len(y) = Len(x) + Len(add)
        /\ \A i \in 1..Len(x) + Len(add) : y[i] = IF i <= Len(x) THEN x[i] ELSE add[i - Len(x)]
    BY <2>2, <2>3
  <2> HIDE DEF y
  <2>6. \A i \in 1..e - 1 : i \in 1..Len(x) + Len(add) /\ i <= Len(x) /\ i \in 1..Len(c) + Len(records) /\ i <= Len(c)
    BY <1>7, <2>1, <2>4
  <2>7. Len(y) >= e - 1
    BY <1>7, <2>1, <2>4, <2>5
  <2> QED BY <2>1, <2>5, <2>6, <2>7
<1>10. Readably(m) /\ ParseQuestions(m) = ParseQuestions(q) /\ QuestionCells(m) = QuestionCells(q)
  <2>1. m.body \in Seq(Nat) /\ m.qd = q.qd
    BY <1>4, <1>9
  <2>2. Len(m.body) + 1 >= ParseQuestions(q).end
    BY <1>4, <1>7, <1>9 DEF e
  <2>3. \A i \in 1..ParseQuestions(q).end - 1 : m.body[i] = q.body[i]
    BY <1>4, <1>7, <1>9 DEF e
  <2> QED BY <1>6, <2>1, <2>2, <2>3, SameSection
<1>11. Fits(m, q)
  BY <1>2, <1>4, <1>5, <1>10 DEF Fits
<1> QED BY <1>3, <1>4, <1>5, <1>10, <1>11 DEF s, m, c, add, body, ar

-------------------------------------------------------------------------------
(* Replies that are made here *)

\* One sequence behind the other, cell by cell.
Joined(s, t, u) ==
    /\ u \in Seq(Nat) /\ Len(u) = Len(s) + Len(t)
    /\ \A i \in 1..Len(s) + Len(t) : u[i] = IF i <= Len(s) THEN s[i] ELSE t[i - Len(s)]

\* What two sequences make, one behind the other.
LEMMA Joins ==
    ASSUME NEW s \in Seq(Nat), NEW t \in Seq(Nat), NEW u
    PROVE  u = s \o t => Joined(s, t, u)
<1>0. SUFFICES ASSUME u = s \o t PROVE Joined(s, t, u)
  OBVIOUS
<1>1. /\ s \o t \in Seq(Nat) /\ Len(s \o t) = Len(s) + Len(t)
      /\ \A i \in 1..Len(s) + Len(t) : (s \o t)[i] = IF i <= Len(s) THEN s[i] ELSE t[i - Len(s)]
  BY ConcatProperties
<1> DEFINE w == s \o t
<1>2. u = w
  BY <1>0
<1>3. /\ w \in Seq(Nat) /\ Len(w) = Len(s) + Len(t)
      /\ \A i \in 1..Len(s) + Len(t) : w[i] = IF i <= Len(s) THEN s[i] ELSE t[i - Len(s)]
  BY <1>1
<1> HIDE DEF w
<1> QED BY <1>2, <1>3 DEF Joined

\* A record whose name takes one cell.
LEMMA OneRecord ==
    ASSUME NEW body \in Seq(Nat), NEW s, RecordState(s), s.ok, NEW o \in Nat, s.end = o,
           NEW name, ReadName(body, o) = [ok |-> TRUE, name |-> name, end |-> o + 1],
           NEW l \in Nat, o + 4 + l <= Len(body), body[o + 4] = l
    PROVE  LET t == ReadRecord(body, s)
           IN  RecordState(t) /\ t.ok /\ t.end = o + 5 + l
<1> DEFINE at == o + 1
           n == ReadName(body, o)
           t == ReadRecord(body, s)
           wrong == ~n.ok \/ at + 3 > Len(body) \/ at + 3 + body[at + 3] > Len(body)
           r == Append(s.records, RecordAt(body, n.name, at))
<1>1. n.ok = TRUE /\ n.end = at
  OBVIOUS
<1>2. at + 3 = o + 4 /\ Len(body) \in Nat /\ ~wrong
  <2>1. at + 3 = o + 4 /\ Len(body) \in Nat
    OBVIOUS
  <2> HIDE DEF at
  <2> QED BY <1>1, <2>1, SMTT(30)
<1>3. t = [ok |-> TRUE, end |-> at + 4 + body[at + 3], records |-> r]
  <2> HIDE DEF at, n, r, wrong
  <2>1. t = IF ~s.ok THEN s ELSE IF wrong THEN [s EXCEPT !.ok = FALSE]
            ELSE [ok |-> TRUE, end |-> at + 4 + body[at + 3], records |-> r]
    BY <1>1 DEF t, ReadRecord, RecordAfter, RecordAt, n, r, wrong
  <2> QED BY <1>2, <2>1
<1> HIDE DEF t, r, wrong, n
<1>4. at + 4 + body[at + 3] = o + 5 + l
  <2>1. at + 4 = o + 5
    OBVIOUS
  <2> HIDE DEF at
  <2>2. body[at + 3] = l
    BY <1>2
  <2> QED BY <2>1, <2>2
<1> HIDE DEF at
<1>5. t.ok = TRUE /\ t.end = o + 5 + l /\ t.records = r
  BY <1>3, <1>4
<1>6. RecordState(t)
  BY <1>3, <1>4, <1>5 DEF RecordState
<1> QED BY <1>5, <1>6 DEF t

\* The cells of a part of a body.
Holds(body, x, part) ==
    /\ x + Len(part) <= Len(body) + 1
    /\ \A i \in 1..Len(part) : body[x - 1 + i] = part[i]

\* What is put behind a question section.
LEMMA Behind ==
    ASSUME NEW c \in Seq(Nat), NEW r \in Seq(Nat), NEW d \in Seq(Nat)
    PROVE  LET body == c \o r \o d
           IN  /\ body \in Seq(Nat) /\ Len(body) = Len(c) + Len(r) + Len(d)
               /\ \A i \in 1..Len(c) : body[i] = c[i]
               /\ Holds(body, Len(c) + 1, r) /\ Holds(body, Len(c) + Len(r) + 1, d)
<1> DEFINE x == c \o r
           y == x \o d
<1>0. x = c \o r /\ y = x \o d
  OBVIOUS
<1> HIDE DEF x, y
<1>1. x \in Seq(Nat) /\ Len(x) = Len(c) + Len(r)
      /\ \A i \in 1..Len(c) + Len(r) : x[i] = IF i <= Len(c) THEN c[i] ELSE r[i - Len(c)]
  BY <1>0, Joins DEF Joined
<1>2. y \in Seq(Nat) /\ Len(y) = Len(x) + Len(d)
      /\ \A i \in 1..Len(x) + Len(d) : y[i] = IF i <= Len(x) THEN x[i] ELSE d[i - Len(x)]
  BY <1>0, <1>1, Joins DEF Joined
<1>3. Len(c) \in Nat /\ Len(r) \in Nat /\ Len(d) \in Nat
  OBVIOUS
<1> DEFINE lc == Len(c)
           lr == Len(r)
           ld == Len(d)
<1>4. /\ lc \in Nat /\ lr \in Nat /\ ld \in Nat /\ Len(x) = lc + lr /\ Len(y) = lc + lr + ld
      /\ \A i \in 1..lc + lr : x[i] = IF i <= lc THEN c[i] ELSE r[i - lc]
      /\ \A i \in 1..lc + lr + ld : y[i] = IF i <= lc + lr THEN x[i] ELSE d[i - (lc + lr)]
  BY <1>1, <1>2, <1>3
<1>5. Len(c) = lc /\ Len(r) = lr /\ Len(d) = ld
  OBVIOUS
<1> HIDE DEF lc, lr, ld
<1>6. \A i \in 1..lc : y[i] = c[i]
  <2> TAKE i \in 1..lc
  <2>1. i \in 1..lc + lr /\ i \in 1..lc + lr + ld /\ i <= lc + lr /\ i <= lc
    BY <1>4
  <2> QED BY <1>4, <2>1
<1>7. \A i \in 1..lr : y[lc + i] = r[i]
  <2> TAKE i \in 1..lr
  <2>1. /\ lc + i \in 1..lc + lr /\ lc + i \in 1..lc + lr + ld /\ lc + i <= lc + lr /\ ~(lc + i <= lc)
        /\ lc + i - lc = i
    BY <1>4, SMTT(30)
  <2> QED BY <1>4, <2>1, SMTT(30)
<1>8. \A i \in 1..ld : y[lc + lr + i] = d[i]
  <2> TAKE i \in 1..ld
  <2> DEFINE m == lc + lr + i
             p == lc + lr
  <2>1. m \in 1..p + ld /\ ~(m <= p) /\ m - p = i
    <3>1. p \in Nat /\ ld \in Nat
      BY <1>4
    <3>2. m = p + i
      OBVIOUS
    <3> HIDE DEF m, p
    <3> QED BY <3>1, <3>2
  <2>2. \A k \in 1..p + ld : y[k] = IF k <= p THEN x[k] ELSE d[k - p]
    BY <1>4
  <2> HIDE DEF m, p
  <2>3. y[m] = d[i]
    BY <2>1, <2>2
  <2> QED BY <2>3 DEF m
<1>9. Holds(y, lc + 1, r)
  <2>1. \A i \in 1..lr : y[lc + 1 - 1 + i] = r[i]
    <3> TAKE i \in 1..lr
    <3>1. lc + 1 - 1 + i = lc + i
      BY <1>4
    <3> QED BY <1>7, <3>1
  <2>2. lc + 1 + lr <= Len(y) + 1
    BY <1>4
  <2> QED BY <1>5, <2>1, <2>2 DEF Holds
<1>10. Holds(y, lc + lr + 1, d)
  <2>1. \A i \in 1..ld : y[lc + lr + 1 - 1 + i] = d[i]
    <3> TAKE i \in 1..ld
    <3>1. lc + lr + 1 - 1 + i = lc + lr + i
      BY <1>4
    <3> QED BY <1>8, <3>1
  <2>2. lc + lr + 1 + ld <= Len(y) + 1
    BY <1>4
  <2> QED BY <1>5, <2>1, <2>2 DEF Holds
<1>11. c \o r \o d = y
  BY DEF y, x
<1> QED BY <1>2, <1>4, <1>5, <1>6, <1>9, <1>10, <1>11

\* The OPT record of a reply is read.
LEMMA OptReads ==
    ASSUME NEW body \in Seq(Nat), NEW s, RecordState(s), s.ok, NEW o \in Nat \ {0}, s.end = o,
           NEW size \in Nat, NEW part, Holds(body, o, part)
    PROVE  part = <<0, TYPE_OPT, size, 0, 0>> => ReadRecord(body, s).ok
<1>0. SUFFICES ASSUME part = <<0, TYPE_OPT, size, 0, 0>> PROVE ReadRecord(body, s).ok
  OBVIOUS
<1>1. Len(part) = 5 /\ part[1] = 0 /\ part[5] = 0
  BY <1>0
<1>2. o + 5 <= Len(body) + 1 /\ \A i \in 1..5 : body[o - 1 + i] = part[i]
  BY <1>1 DEF Holds
<1>3. Len(body) \in Nat /\ o - 1 + 1 = o /\ o - 1 + 5 = o + 4 /\ 1 \in 1..5 /\ 5 \in 1..5
  OBVIOUS
<1>4. body[o] = 0 /\ body[o + 4] = 0
  BY <1>1, <1>2, <1>3
<1>5. o \in 1..Len(body) /\ 0 \in Nat /\ o + 4 + 0 <= Len(body) /\ o \in Nat
  <2> DEFINE len == Len(body)
  <2>1. len \in Nat /\ o + 5 <= len + 1
    BY <1>2, <1>3
  <2> HIDE DEF len
  <2>2. o \in 1..len /\ 0 \in Nat /\ o + 4 + 0 <= len /\ o \in Nat
    BY <2>1
  <2> QED BY <2>2 DEF len
<1>6. ReadName(body, o) = [ok |-> TRUE, name |-> <<>>, end |-> o + 1]
  BY <1>4, <1>5, RootRead
<1> QED BY <1>4, <1>5, <1>6, OneRecord

\* The next record is read and ends before a cell.
Follows(body, s, end) ==
    LET t == ReadRecord(body, s)
    IN  RecordState(t) /\ t.ok /\ t.end = end

\* The address record of a reply is read.
LEMMA AddressReads ==
    ASSUME NEW X, Encodable(X), NEW body \in Seq(Nat), Written(body, X),
           NEW s, RecordState(s), s.ok, NEW o \in Nat, o >= 2, s.end = o,
           NEW qtype \in Nat, NEW ttl \in Nat, NEW address \in Seq(Nat), NEW part, Holds(body, o, part)
    PROVE  part = <<Pointer(1), qtype, CLASS_IN, ttl, Len(address)>> \o address =>
                Follows(body, s, o + Len(part))
<1>0. SUFFICES ASSUME part = <<Pointer(1), qtype, CLASS_IN, ttl, Len(address)>> \o address
               PROVE  Follows(body, s, o + Len(part))
  OBVIOUS
<1> DEFINE l == Len(address)
           head == <<Pointer(1), qtype, CLASS_IN, ttl, l>>
<1>1. l \in Nat /\ Pointer(1) = 193
  BY DEF Pointer
<1>2. head \in Seq(Nat) /\ Len(head) = 5 /\ head[1] = 193 /\ head[5] = l
  <2>1. CLASS_IN \in Nat
    BY DEF CLASS_IN
  <2> HIDE DEF l
  <2> QED BY <1>1, <2>1
<1>3. part = head \o address
  BY <1>0, Zenon
<1> HIDE DEF head
<1>4. Len(part) = 5 + l /\ part[1] = 193 /\ part[5] = l
  <2>1. Len(part) = Len(head) + Len(address)
        /\ \A i \in 1..Len(head) + Len(address) : part[i] = IF i <= Len(head) THEN head[i] ELSE address[i - Len(head)]
    <3>1. Joined(head, address, part)
      BY <1>2, <1>3, Joins
    <3> QED BY <3>1 DEF Joined
  <2>2. 1 \in 1..5 + l /\ 5 \in 1..5 + l
    BY <1>1
  <2> QED BY <1>1, <1>2, <1>3, <2>1, <2>2
<1> HIDE DEF l
<1>5. o + (5 + l) <= Len(body) + 1 /\ \A i \in 1..5 + l : body[o - 1 + i] = part[i]
  BY <1>4 DEF Holds
<1>6. /\ Len(body) \in Nat /\ o - 1 + 1 = o /\ o - 1 + 5 = o + 4 /\ 1 \in 1..5 + l /\ 5 \in 1..5 + l
  BY <1>1
<1>7. body[o] = 193 /\ body[o + 4] = l
  BY <1>4, <1>5, <1>6, SMTT(30)
<1>8. o \in 2..Len(body) /\ o + 4 + l <= Len(body) /\ o + 5 + l = o + (5 + l)
  BY <1>1, <1>5, <1>6
<1>9. ReadName(body, o) = [ok |-> TRUE, name |-> Lowered(X), end |-> o + 1]
  BY <1>1, <1>7, <1>8, PointerRead
<1>10. LET t == ReadRecord(body, s)
       IN  RecordState(t) /\ t.ok /\ t.end = o + 5 + l
  BY <1>1, <1>7, <1>8, <1>9, OneRecord, SMTT(30)
<1> QED BY <1>4, <1>8, <1>10 DEF Follows

\* What is put between the question section and the OPT record.
Between(q, answers, records) ==
    \/ answers = 0 /\ records = <<>>
    \/ /\ answers = 1 /\ q.qd > 0
       /\ \E qtype \in Nat, ttl \in Nat, address \in Seq(Nat) :
            records = <<Pointer(1), qtype, CLASS_IN, ttl, Len(address)>> \o address

\* The records of a reply that is made here are cells.
LEMMA BetweenTyped ==
    ASSUME NEW q, NEW answers, NEW records, Between(q, answers, records)
    PROVE  records \in Seq(Nat) /\ answers \in Nat
<1>1. CASE answers = 0 /\ records = <<>>
  <2>1. <<>> \in Seq(Nat) /\ 0 \in Nat
    OBVIOUS
  <2> QED BY <1>1, <2>1
<1>2. ASSUME NEW qtype \in Nat, NEW ttl \in Nat, NEW address \in Seq(Nat), answers = 1,
             records = <<Pointer(1), qtype, CLASS_IN, ttl, Len(address)>> \o address
      PROVE  records \in Seq(Nat) /\ answers \in Nat
  <2> DEFINE l == Len(address)
             p == Pointer(1)
             head == <<p, qtype, CLASS_IN, ttl, l>>
  <2>1. l \in Nat /\ p \in Nat /\ CLASS_IN \in Nat /\ answers \in Nat
    BY <1>2 DEF Pointer, CLASS_IN
  <2>2. records = head \o address
    BY Zenon, <1>2
  <2> HIDE DEF l, p
  <2>3. head \in Seq(Nat)
    BY <2>1
  <2> HIDE DEF head
  <2>4. Joined(head, address, records)
    BY <2>2, <2>3, Joins
  <2> QED BY <2>1, <2>4 DEF Joined
<1>3. ASSUME answers = 1, \E qtype \in Nat, ttl \in Nat, address \in Seq(Nat) :
                records = <<Pointer(1), qtype, CLASS_IN, ttl, Len(address)>> \o address
      PROVE  records \in Seq(Nat) /\ answers \in Nat
  BY Zenon, <1>2, <1>3
<1> QED BY Zenon, <1>1, <1>3 DEF Between

\* What is made here can be read to its end.
LEMMA SynthesisedReads ==
    ASSUME NEW q \in ClientQueries, Ordinary(q), ParseQuestions(q).ok,
           NEW rcode, NEW answers, NEW records, Between(q, answers, records)
    PROVE  IterRecords(Synthesised(q, rcode, answers, records).message).ok
<1> DEFINE m == Synthesised(q, rcode, answers, records).message
           c == QuestionCells(q)
           add == Additional(q)
           body == c \o records \o add
           e == ParseQuestions(q).end
           r == RecordsFrom(body, e)
<1>1. records \in Seq(Nat) /\ answers \in Nat
  BY BetweenTyped
<1>2. /\ ParseQuestions(m) = ParseQuestions(q) /\ m.an = answers /\ m.ns = 0
      /\ m.ar = Len(add) \div 5 /\ m.body = body
  BY <1>1, SynthesisedFits, SMTT(30)
<1>3. Readably(q)
  BY QueryReadable
<1>4. /\ e \in 1..Len(q.body) + 1 /\ c \in Seq(Nat) /\ Len(c) = e - 1
      /\ \A i \in 1..e - 1 : c[i] = q.body[i]
  BY <1>3, QuestionsIn DEF Readably
<1>5. add = <<>> \/ \E size \in Nat : add = <<0, TYPE_OPT, size, 0, 0>>
  BY AdditionalIs
<1> HIDE DEF m, c, add, e
<1>6. add \in Seq(Nat)
  <2>1. CASE add = <<>>
    <3>1. <<>> \in Seq(Nat)
      OBVIOUS
    <3> QED BY <2>1, <3>1
  <2>2. ASSUME NEW size \in Nat, add = <<0, TYPE_OPT, size, 0, 0>>
        PROVE  add \in Seq(Nat)
    <3>1. TYPE_OPT \in Nat
      BY DEF TYPE_OPT
    <3>2. <<0, TYPE_OPT, size, 0, 0>> \in Seq(Nat)
      BY <3>1
    <3> QED BY <2>2, <3>2
  <2> QED BY <1>5, <2>1, <2>2
<1>7. /\ body \in Seq(Nat)
      /\ \A i \in 1..Len(c) : body[i] = c[i]
      /\ Holds(body, Len(c) + 1, records) /\ Holds(body, Len(c) + Len(records) + 1, add)
  BY <1>1, <1>4, <1>6, Behind
<1> HIDE DEF body
<1>8. e \in Nat \ {0} /\ Len(c) + 1 = e /\ Len(c) + Len(records) + 1 = e + Len(records) /\ Len(records) \in Nat
  <2>1. Len(records) \in Nat
    BY <1>1
  <2> QED BY <1>4, <2>1
<1>9. Holds(body, e, records) /\ Holds(body, e + Len(records), add)
  BY <1>7, <1>8
<1>10. IterRecords(m) = r[answers + 0 + Len(add) \div 5]
  BY <1>2 DEF IterRecords, e
<1> HIDE DEF r
<1>11. RecordLoop(body, e, r)
  BY RecordsLoop DEF r
<1>12. RecordState(r[0]) /\ r[0].ok /\ r[0].end = e
  <2>1. r[0] = [ok |-> TRUE, records |-> <<>>, end |-> e]
    BY <1>11 DEF RecordLoop
  <2> QED BY <2>1 DEF RecordState
<1>13. RecordState(r[answers]) /\ r[answers].ok /\ r[answers].end = e + Len(records)
  <2>1. CASE answers = 0 /\ records = <<>>
    <3>1. Len(records) = 0
      BY <2>1
    <3>2. e + Len(records) = e
      BY <1>8, <3>1
    <3> QED BY <1>12, <2>1, <3>2
  <2>2. ASSUME NEW qtype \in Nat, NEW ttl \in Nat, NEW address \in Seq(Nat), answers = 1, q.qd > 0,
               records = <<Pointer(1), qtype, CLASS_IN, ttl, Len(address)>> \o address
        PROVE  RecordState(r[answers]) /\ r[answers].ok /\ r[answers].end = e + Len(records)
    <3> DEFINE X == AskedFor(q).name
               z == Len(EncodeName(X).cells)
    <3>1. Encodable(X) /\ Written(q.body, X)
      BY <2>2 DEF Ordinary
    <3>2. q.body \in Seq(Nat) /\ q.qd \in Nat \ {0} /\ QuestionsOf(q.body)[q.qd].ok
          /\ QuestionTrails(q.body, q.qd) \subseteq 1..e - 1 /\ e = QuestionsOf(q.body)[q.qd].end
      <4>1. q.qd \in Nat \ {0}
        BY <1>3, <2>2 DEF Readably
      <4> QED BY <1>3, <4>1, Zenon DEF Readably, ParseQuestions, e
    <3>3. X = QuestionsOf(q.body)[q.qd].questions[1].name
      BY DEF AskedFor, ParseQuestions
    <3> HIDE DEF X
    <3>4. z \in Nat \ {0} /\ e >= z + 3
      <4>1. 0 \notin QuestionTrails(q.body, q.qd)
        BY <3>2
      <4> QED BY <3>1, <3>2, <3>3, <4>1, FirstQuestion, Zenon
    <3>5. Written(body, X)
      <4> SUFFICES ASSUME NEW i \in DOMAIN EncodeName(X).cells
                   PROVE  i \in DOMAIN body /\ Lower(body[i]) = Lower(EncodeName(X).cells[i])
        BY DEF Written
      <4>1. EncodeName(X).cells \in Seq(Nat)
        BY <3>1, EncodeTyped
      <4>2. i \in 1..z
        BY <4>1
      <4> HIDE DEF z
      <4>3. i \in 1..Len(c) /\ i \in 1..e - 1 /\ e - 1 <= Len(body)
        <5>1. e + Len(records) <= Len(body) + 1
          BY <1>9 DEF Holds
        <5>2. Len(body) \in Nat
          BY <1>7
        <5> QED BY <1>4, <1>8, <3>4, <4>2, <5>1, <5>2
      <4>4. body[i] = q.body[i]
        BY <1>4, <1>7, <4>3
      <4>5. i \in 1..Len(body)
        <5>1. Len(body) \in Nat
          BY <1>7
        <5> QED BY <1>8, <4>3, <5>1
      <4>6. DOMAIN body = 1..Len(body)
        BY <1>7
      <4> QED BY <3>1, <4>4, <4>5, <4>6 DEF Written
    <3>6. e \in Nat /\ e >= 2
      BY <1>8, <3>4
    <3>7. Follows(body, r[0], e + Len(records))
      <4> DEFINE s == r[0]
      <4>1. RecordState(s) /\ s.ok /\ s.end = e
        BY <1>12
      <4>2. body \in Seq(Nat) /\ Holds(body, e, records)
        BY <1>7, <1>9
      <4> HIDE DEF z, s
      <4>3. Follows(body, s, e + Len(records))
        BY <2>2, <3>1, <3>5, <3>6, <4>1, <4>2, AddressReads
      <4> QED BY <4>3 DEF s
    <3>8. r[answers] = ReadRecord(body, r[0])
      <4>1. 0 \in Nat /\ answers = 0 + 1
        BY <2>2
      <4> QED BY <1>11, <4>1 DEF RecordLoop
    <3> QED BY <3>7, <3>8 DEF Follows
  <2>3. ASSUME answers = 1, q.qd > 0, \E qtype \in Nat, ttl \in Nat, address \in Seq(Nat) :
                    records = <<Pointer(1), qtype, CLASS_IN, ttl, Len(address)>> \o address
        PROVE  RecordState(r[answers]) /\ r[answers].ok /\ r[answers].end = e + Len(records)
    BY Zenon, <2>2, <2>3
  <2> QED BY Zenon, <2>1, <2>3 DEF Between
<1>14. CASE add = <<>>
  <2>1. Len(add) = 0
    BY <1>14
  <2>2. answers + 0 + Len(add) \div 5 = answers
    BY <1>1, <2>1
  <2> QED BY <1>10, <1>13, <2>2 DEF m
<1>15. ASSUME NEW size \in Nat, add = <<0, TYPE_OPT, size, 0, 0>>
       PROVE  IterRecords(m).ok
  <2>1. Len(add) = 5
    BY <1>15
  <2>2. answers + 0 + Len(add) \div 5 = answers + 1
    BY <1>1, <2>1
  <2>3. r[answers + 1] = ReadRecord(body, r[answers])
    BY <1>1, <1>11 DEF RecordLoop
  <2> DEFINE o == e + Len(records)
  <2>4. o \in Nat \ {0} /\ r[answers].end = o /\ Holds(body, o, add)
    BY <1>8, <1>9, <1>13
  <2> HIDE DEF o
  <2>5. ReadRecord(body, r[answers]).ok
    BY <1>7, <1>13, <1>15, <2>4, OptReads
  <2> QED BY <1>10, <2>2, <2>3, <2>5
<1> QED BY <1>5, <1>14, <1>15 DEF m

-------------------------------------------------------------------------------
(* The question sent upstream, and its answer *)

\* The question section of a body that begins with an encoded name.
Single(X, body) ==
    LET z == Len(EncodeName(X).cells)
    IN  [ok |-> TRUE, end |-> z + 3, questions |->
            <<[name |-> Lowered(X), qtype |-> body[z + 1], qclass |-> body[z + 2]]>>]

\* A question section of one name that is written out.
LEMMA PlainQuestion ==
    ASSUME NEW X, Encodable(X), NEW body \in Seq(Nat), Written(body, X),
           Len(EncodeName(X).cells) + 2 <= Len(body)
    PROVE  /\ QuestionsOf(body)[1] = Single(X, body)
           /\ QuestionTrails(body, 1) \subseteq 1..Len(EncodeName(X).cells)
<1> DEFINE r == QuestionsOf(body)
           z == Len(EncodeName(X).cells)
           name == ReadName(body, 1)
           new == [name |-> name.name, qtype |-> body[name.end], qclass |-> body[name.end + 1]]
<1>1. name = [ok |-> TRUE, name |-> Lowered(X), end |-> z + 1] /\ z \in Nat \ {0}
      /\ Trail(body, 1) \subseteq 1..z
  BY ReadEncoded
<1>2. r[0] = [ok |-> TRUE, questions |-> <<>>, end |-> 1]
  BY QuestionsSteps
<1>3. r[0].ok = TRUE /\ r[0].end = 1 /\ r[0].questions = <<>>
  BY <1>2
<1>4. r[1] = ReadQuestion(body, r[0])
  <2>1. 0 \in Nat /\ 0 + 1 = 1
    OBVIOUS
  <2>2. QuestionsOf(body)[0 + 1] = ReadQuestion(body, QuestionsOf(body)[0])
    BY <2>1, QuestionsSteps
  <2> QED BY <2>1, <2>2
<1>5. z + 2 <= Len(body)
  OBVIOUS
<1> HIDE DEF r, z
<1>6. name.ok = TRUE /\ name.name = Lowered(X) /\ name.end = z + 1
  BY <1>1
<1>7. z + 1 + 1 = z + 2 /\ z + 1 + 2 = z + 3 /\ ~(z + 2 > Len(body))
  <2>1. Len(body) \in Nat
    OBVIOUS
  <2> QED BY <1>1, <1>5, <2>1
<1> DEFINE bad == ~name.ok \/ name.end + 1 > Len(body)
<1>8. ~bad
  <2> HIDE DEF name
  <2> QED BY <1>6, <1>7
<1>9. r[1] = [ok |-> TRUE, end |-> name.end + 2, questions |-> Append(r[0].questions, new)]
  <2> DEFINE q == Append(r[0].questions, new)
             d == [ok |-> TRUE, end |-> name.end + 2, questions |-> q]
  <2>1. ReadQuestion(body, r[0]) = IF ~r[0].ok THEN r[0] ELSE IF bad THEN Malformed ELSE d
    BY <1>3 DEF ReadQuestion, QuestionAfter
  <2> HIDE DEF d, bad
  <2>2. r[1] = d
    BY <1>3, <1>4, <1>8, <2>1
  <2> QED BY <2>2 DEF d
<1>10. new = [name |-> Lowered(X), qtype |-> body[z + 1], qclass |-> body[z + 2]]
  <2> HIDE DEF name
  <2> QED BY <1>6, <1>7
<1> HIDE DEF new
<1>11. Append(r[0].questions, new) = <<new>>
  BY <1>3
<1>12. r[1] = Single(X, body)
  <2> DEFINE q == Append(r[0].questions, new)
             y == name.end + 2
  <2>1. q = <<new>> /\ y = z + 3
    BY <1>6, <1>7, <1>11
  <2>2. r[1] = [ok |-> TRUE, end |-> y, questions |-> q]
    BY <1>9
  <2> HIDE DEF q, y, new
  <2>3. r[1] = [ok |-> TRUE, end |-> z + 3, questions |-> <<new>>]
    BY <2>1, <2>2
  <2>4. Single(X, body) = [ok |-> TRUE, end |-> z + 3, questions |-> <<new>>]
    BY <1>10 DEF Single, z
  <2> QED BY <2>3, <2>4
<1>13. QuestionTrails(body, 1) \subseteq 1..z
  <2>1. QuestionTrails(body, 1) = Trail(body, r[0].end)
    <3>1. 0..1 - 1 = {0}
      BY FirstOnly
    <3> QED BY <3>1 DEF QuestionTrails, r
  <2> QED BY <1>1, <1>3, <2>1
<1> QED BY <1>12, <1>13 DEF r, z

\* The first question of a query that is asked on.
LEMMA AskedIs ==
    ASSUME NEW q \in ClientQueries, Ordinary(q), ParseQuestions(q).ok, q.qd > 0
    PROVE  LET Q == AskedFor(q)
               z == Len(EncodeName(Q.name).cells)
           IN  /\ Q = ParseQuestions(q).questions[1]
               /\ Q \in Question /\ Encodable(Q.name) /\ Lowered(Q.name) = Q.name /\ Written(q.body, Q.name)
               /\ q.body \in Seq(Nat) /\ q.qd \in Nat \ {0}
               /\ z \in Nat \ {0} /\ z + 2 <= Len(q.body) /\ z + 3 <= ParseQuestions(q).end
               /\ q.body[z + 1] = Q.qtype /\ q.body[z + 2] = Q.qclass
               /\ QuestionsOf(q.body)[1] = [ok |-> TRUE, questions |-> <<Q>>, end |-> z + 3]
               /\ QuestionTrails(q.body, 1) \subseteq 1..z
<1> DEFINE Q == AskedFor(q)
           z == Len(EncodeName(Q.name).cells)
           a == q.body
           n == q.qd
<1>1. Readably(q)
  BY QueryReadable
<1>2. a \in Seq(Nat) /\ n \in Nat \ {0} /\ QuestionsOf(a)[n].ok /\ 0 \notin QuestionTrails(a, n)
      /\ ParseQuestions(q) = QuestionsOf(a)[n]
  BY <1>1 DEF Readably, ParseQuestions
<1>3. Encodable(Q.name) /\ Written(a, Q.name)
  BY DEF Ordinary
<1>4. Q = QuestionsOf(a)[n].questions[1]
  <2>1. Q = Head(QuestionsOf(a)[n].questions)
    <3> HIDE DEF a, n
    <3> QED BY <1>2, ZenonT(60) DEF AskedFor
  <2> QED BY <2>1, HeadIs
<1> HIDE DEF Q, a, n
<1>5. /\ Q \in Question /\ Lowered(Q.name) = Q.name
      /\ z \in Nat \ {0} /\ z + 2 <= Len(a) /\ a[z + 1] = Q.qtype /\ a[z + 2] = Q.qclass
      /\ QuestionsOf(a)[1] = [ok |-> TRUE, questions |-> <<Q>>, end |-> z + 3]
      /\ QuestionTrails(a, 1) \subseteq 1..z
      /\ QuestionsOf(a)[n].end >= z + 3
  BY <1>2, <1>3, <1>4, FirstQuestion
<1>6. z + 3 <= ParseQuestions(q).end
  <2>1. QuestionsOf(a)[n].end \in Nat
    BY <1>1, <1>2, QuestionsIn DEF Readably, a, n
  <2> QED BY <1>2, <1>5, <2>1
<1> QED BY <1>2, <1>3, <1>4, <1>5, <1>6, Zenon DEF Q, z, a, n

\* The query that goes upstream.
SentWell(X, m) ==
    LET z == Len(EncodeName(X).cells)
        w == QuestionCells(m)
    IN  /\ m.id = 0 /\ w \in Seq(Nat) /\ Len(w) = z + 2
        /\ \A i \in 1..z + 2 : m.body[i] = w[i]
        /\ \A i \in 1..z : w[i] = EncodeName(X).cells[i]

\* _build_upstream_query() makes a question of that kind.
LEMMA SentIs ==
    ASSUME NEW X, Encodable(X), NEW Q \in Question, NEW dnssec, NEW disabled
    PROVE  SentWell(X, UpstreamQuery(X, Q, dnssec, disabled))
<1> DEFINE m == UpstreamQuery(X, Q, dnssec, disabled)
           c == EncodeName(X).cells
           z == Len(c)
           qq == <<Q.qtype, Q.qclass>>
           opt == OptRecord(IF dnssec THEN 4096 ELSE SAFE_UDP_PAYLOAD, IF dnssec THEN DO_BIT ELSE 0)
           body == c \o qq \o opt
           w == QuestionCells(m)
<1>1. m.id = 0 /\ m.qd = 1 /\ m.body = body
  BY Zenon DEF UpstreamQuery
<1>2. c \in Seq(Nat) /\ z \in Nat
  BY EncodeTyped
<1>3. qq \in Seq(Nat) /\ Len(qq) = 2
  BY DEF Question
<1>4. opt \in Seq(Nat)
  <2> DEFINE size == IF dnssec THEN 4096 ELSE SAFE_UDP_PAYLOAD
             bit == IF dnssec THEN DO_BIT ELSE 0
  <2>1. size \in Nat /\ bit \in Nat /\ TYPE_OPT \in Nat /\ opt = OptRecord(size, bit)
    BY DEF SAFE_UDP_PAYLOAD, DO_BIT, TYPE_OPT
  <2> HIDE DEF size, bit
  <2>2. opt = <<0, TYPE_OPT, size, bit, 0>>
    BY <2>1 DEF OptRecord
  <2> HIDE DEF opt
  <2> QED BY <2>1, <2>2
<1> HIDE DEF c, qq, opt, m
<1>5. /\ body \in Seq(Nat) /\ Len(body) = Len(c) + Len(qq) + Len(opt)
      /\ \A i \in 1..Len(c) : body[i] = c[i]
  BY <1>2, <1>3, <1>4, Behind
<1> HIDE DEF body
<1>6. z + 2 <= Len(body)
  <2>1. Len(opt) \in Nat
    BY <1>4
  <2> QED BY <1>2, <1>3, <1>5, <2>1
<1>7. Written(body, X)
  <2>1. DOMAIN c = 1..z /\ DOMAIN body = 1..Len(body) /\ Len(body) \in Nat
    BY <1>2, <1>5
  <2>2. \A i \in 1..z : i \in 1..Len(body) /\ body[i] = c[i]
    BY <1>2, <1>5, <1>6, <2>1
  <2> QED BY <2>1, <2>2 DEF Written, c
<1>8. QuestionsOf(body)[1] = Single(X, body) /\ QuestionTrails(body, 1) \subseteq 1..z
  BY <1>5, <1>6, <1>7, PlainQuestion DEF c
<1>9. ParseQuestions(m) = Single(X, body)
  BY <1>1, <1>8 DEF ParseQuestions
<1>10. ParseQuestions(m).ok /\ ParseQuestions(m).end = z + 3
  BY <1>9 DEF Single, c
<1>11. m.body \in Seq(Nat) /\ m.qd \in Nat /\ QuestionTrails(m.body, m.qd) \subseteq 1..ParseQuestions(m).end - 1
  <2>1. 1..z \subseteq 1..z + 3 - 1
    BY <1>2
  <2> QED BY <1>1, <1>5, <1>8, <1>10, <2>1
<1>12. /\ QuestionCells(m) \in Seq(Nat) /\ Len(QuestionCells(m)) = ParseQuestions(m).end - 1
       /\ \A i \in 1..ParseQuestions(m).end - 1 : QuestionCells(m)[i] = m.body[i]
  BY <1>10, <1>11, QuestionsIn
<1>13. z + 3 - 1 = z + 2 /\ \A i \in 1..z : i \in 1..z + 2
  BY <1>2
<1>14. w \in Seq(Nat) /\ Len(w) = z + 2 /\ \A i \in 1..z + 2 : m.body[i] = w[i]
  BY <1>10, <1>12, <1>13
<1>15. \A i \in 1..z : w[i] = c[i]
  BY <1>1, <1>5, <1>13, <1>14
<1> QED BY <1>1, <1>14, <1>15 DEF m, c, SentWell

\* Cells that begin with a name, in any case, and the type and the class.
Spelled(v, X) ==
    /\ v \in Seq(Nat) /\ Len(v) = Len(EncodeName(X).cells) + 2
    /\ \A i \in 1..Len(EncodeName(X).cells) : Lower(v[i]) = Lower(EncodeName(X).cells[i])

\* Lower case stays as it is.
LEMMA LowerTwice ==
    ASSUME NEW x \in Nat
    PROVE  Lower(x) \in Nat /\ Lower(Lower(x)) = Lower(x)
<1>1. CASE x \in 65..90
  <2> DEFINE y == x + 32
  <2>1. y \in Nat /\ ~(y \in 65..90)
    BY <1>1
  <2>2. Lower(x) = y
    BY <1>1 DEF Lower
  <2> HIDE DEF y
  <2>3. Lower(y) = y
    BY <2>1 DEF Lower
  <2> QED BY <2>1, <2>2, <2>3
<1>2. CASE x \notin 65..90
  <2>1. Lower(x) = x
    BY <1>2 DEF Lower
  <2> QED BY <2>1
<1> QED BY <1>1, <1>2

\* The question as it comes back: as it was sent, or in lower case.
LEMMA Echoed ==
    ASSUME NEW X, Encodable(X), NEW w \in Seq(Nat), Len(w) = Len(EncodeName(X).cells) + 2,
           \A i \in 1..Len(EncodeName(X).cells) : w[i] = EncodeName(X).cells[i],
           NEW v \in {w, [i \in DOMAIN w |-> Lower(w[i])]}
    PROVE  Spelled(v, X)
<1> DEFINE c == EncodeName(X).cells
           z == Len(c)
<1>1. c \in Seq(Nat) /\ z \in Nat /\ DOMAIN w = 1..z + 2 /\ \A i \in 1..z : i \in 1..z + 2
  BY EncodeTyped
<1>2. \A x \in Nat : Lower(x) \in Nat /\ Lower(Lower(x)) = Lower(x)
  BY LowerTwice
<1>3. CASE v = w
  BY <1>3 DEF Spelled
<1>4. CASE v = [i \in DOMAIN w |-> Lower(w[i])]
  <2>1. \A i \in 1..z + 2 : v[i] = Lower(w[i]) /\ w[i] \in Nat
    BY <1>1, <1>4
  <2>2. v = [i \in 1..z + 2 |-> v[i]] /\ \A i \in 1..z + 2 : v[i] \in Nat
    BY <1>1, <1>2, <1>4, <2>1
  <2>3. v \in Seq(Nat) /\ Len(v) = z + 2
    <3> DEFINE n == z + 2
    <3>1. n \in Nat
      BY <1>1
    <3>2. v = [i \in 1..n |-> v[i]] /\ \A i \in 1..n : v[i] \in Nat
      BY <2>2
    <3> HIDE DEF n
    <3>3. v \in [1..n -> Nat]
      BY <3>2
    <3>4. v \in Seq(Nat) /\ Len(v) = n
      BY <3>1, <3>3
    <3> QED BY <3>4 DEF n
  <2> HIDE DEF c, z
  <2>4. \A i \in 1..z : w[i] = c[i]
    BY DEF c, z
  <2>5. \A i \in 1..z : Lower(v[i]) = Lower(c[i])
    BY <1>1, <1>2, <2>1, <2>4
  <2> QED BY <2>3, <2>5 DEF Spelled, c, z
<1> QED BY <1>3, <1>4

\* A message with another body.
LEMMA NewBody ==
    ASSUME NEW m, MessageForm(m), NEW b
    PROVE  [m EXCEPT !.body = b] =
             [id |-> m.id, flags |-> m.flags, opcode |-> m.opcode, rcode |-> m.rcode,
              qd |-> m.qd, an |-> m.an, ns |-> m.ns, ar |-> m.ar, body |-> b]
<1> DEFINE i == m.id
           f == m.flags
           o == m.opcode
           r == m.rcode
           q == m.qd
           a == m.an
           n == m.ns
           x == m.ar
           y == m.body
<1>1. m = [id |-> i, flags |-> f, opcode |-> o, rcode |-> r, qd |-> q, an |-> a, ns |-> n, ar |-> x, body |-> y]
  BY DEF MessageForm
<1> HIDE DEF i, f, o, r, q, a, n, x, y
<1>2. [m EXCEPT !.body = b] =
        [id |-> i, flags |-> f, opcode |-> o, rcode |-> r, qd |-> q, an |-> a, ns |-> n, ar |-> x, body |-> b]
  BY <1>1
<1> QED BY <1>2 DEF i, f, o, r, q, a, n, x

\* Three sequences one behind the other.
LEMMA Regroup ==
    ASSUME NEW s \in Seq(Nat), NEW t \in Seq(Nat), NEW u \in Seq(Nat)
    PROVE  s \o t \o u = s \o (t \o u)
BY ConcatAssociative, SMTT(30)

\* A question that is answered, with the name as it is asked for in lower case.
Unspelled(response, Q, d) ==
    [id |-> response.id, flags |-> response.flags, opcode |-> response.opcode,
     rcode |-> response.rcode, qd |-> response.qd, an |-> response.an, ns |-> response.ns,
     ar |-> response.ar, body |-> EncodeName(Q.name).cells \o <<Q.qtype, Q.qclass>> \o d]

\* _rewrite_question_name() puts the name in lower case and touches nothing else.
LEMMA Rewritten ==
    ASSUME NEW X, Encodable(X), NEW Q \in Question, Encodable(Q.name),
           Len(EncodeName(X).cells) = Len(EncodeName(Q.name).cells),
           NEW v, Spelled(v, X), NEW d \in Seq(Nat),
           NEW response, MessageForm(response), response.qd = 1, response.body = v \o d,
           ParseQuestions(response).questions[1] = Q
    PROVE  RewriteQuestionName(response, Q.name) = Unspelled(response, Q, d)
<1> DEFINE x == EncodeName(X).cells
           c == EncodeName(Q.name).cells
           z == Len(c)
           body == response.body
           qq == <<Q.qtype, Q.qclass>>
<1>1. c \in Seq(Nat) /\ x \in Seq(Nat) /\ z \in Nat /\ Len(x) = z
  BY EncodeTyped
<1>2. v \in Seq(Nat) /\ Len(v) = z + 2 /\ \A i \in 1..z : Lower(v[i]) = Lower(x[i])
  BY <1>1 DEF Spelled
<1>3. qq \in Seq(Nat) /\ Len(qq) = 2 /\ qq[1] = Q.qtype /\ qq[2] = Q.qclass
  BY DEF Question
<1>4. response.body = body /\ body = v \o d
  OBVIOUS
<1> HIDE DEF x, c, qq, body
<1>5. /\ body \in Seq(Nat) /\ Len(body) = z + 2 + Len(d)
      /\ \A i \in 1..z + 2 + Len(d) : body[i] = IF i <= z + 2 THEN v[i] ELSE d[i - (z + 2)]
  <2>1. Joined(v, d, body)
    BY <1>2, <1>4, Joins
  <2> QED BY <1>2, <2>1 DEF Joined
<1> DEFINE ld == Len(d)
<1>6. ld \in Nat /\ Len(d) = ld
  OBVIOUS
<1> HIDE DEF z, ld
<1>7. \A i \in 1..z + 2 : body[i] = v[i]
  <2> TAKE i \in 1..z + 2
  <2>1. i \in 1..z + 2 + ld /\ i <= z + 2
    BY <1>1, <1>6
  <2> QED BY <1>5, <1>6, <2>1
<1>8. \A i \in 1..ld : body[z + 2 + i] = d[i]
  <2> TAKE i \in 1..ld
  <2> DEFINE p == z + 2
             k == p + i
  <2>1. k \in 1..p + ld /\ ~(k <= p) /\ k - p = i
    BY <1>1, <1>6
  <2>2. \A j \in 1..p + ld : body[j] = IF j <= p THEN v[j] ELSE d[j - p]
    BY <1>5, <1>6
  <2> HIDE DEF p, k
  <2>3. body[k] = d[i]
    BY <2>1, <2>2
  <2> QED BY <2>3 DEF k, p
<1>9. Written(body, X)
  <2> SUFFICES ASSUME NEW i \in DOMAIN EncodeName(X).cells
               PROVE  i \in DOMAIN body /\ Lower(body[i]) = Lower(EncodeName(X).cells[i])
    BY DEF Written
  <2>1. i \in 1..z
    BY <1>1 DEF x
  <2>2. i \in 1..z + 2 /\ i \in 1..z + 2 + ld
    BY <1>1, <1>6, <2>1
  <2>3. i \in DOMAIN body
    BY <1>5, <1>6, <2>2
  <2>4. Lower(body[i]) = Lower(x[i])
    BY <1>2, <1>7, <2>1, <2>2
  <2> QED BY <2>3, <2>4 DEF x
<1>10. body[z + 1] = Q.qtype /\ body[z + 2] = Q.qclass
  <2>1. Len(EncodeName(X).cells) + 2 <= Len(body) /\ Len(EncodeName(X).cells) = z
    BY <1>1, <1>5, <1>6 DEF x
  <2>2. QuestionsOf(body)[1] = Single(X, body)
    BY <1>5, <1>9, <2>1, PlainQuestion
  <2>3. ParseQuestions(response) = Single(X, body)
    BY <1>4, <2>2 DEF ParseQuestions
  <2>4. Q = [name |-> Lowered(X), qtype |-> body[z + 1], qclass |-> body[z + 2]]
    BY <2>1, <2>3 DEF Single
  <2> QED BY <2>4
<1> DEFINE s == SubSeq(body, z + 1, Len(body))
           w == qq \o d
<1>11. /\ w \in Seq(Nat) /\ Len(w) = 2 + ld
       /\ \A i \in 1..2 + ld : w[i] = IF i <= 2 THEN qq[i] ELSE d[i - 2]
  <2>1. Joined(qq, d, w)
    BY <1>3, Joins
  <2> QED BY <1>3, <1>6, <2>1 DEF Joined
<1>12. s \in Seq(Nat) /\ Len(s) = 2 + ld /\ \A i \in 1..2 + ld : s[i] = body[z + i]
  <2> DEFINE n == Len(body)
             m == z + 1
  <2>1. m \in Int /\ n \in Int /\ \A i \in m..n : body[i] \in Nat
    <3>1. n \in Nat /\ DOMAIN body = 1..n
      BY <1>5, SeqDomain
    <3>2. z \in Nat
      BY <1>1
    <3>3. \A i \in 1..n : body[i] \in Nat
      BY <1>5
    <3> HIDE DEF n, z
    <3> QED BY <3>1, <3>2, <3>3
  <2>2. n = z + 2 + ld
    BY <1>5, <1>6
  <2>3. m <= n /\ n - m + 1 = 2 + ld /\ \A i \in 1..2 + ld : m + i - 1 = z + i
    BY <1>1, <1>6, <2>2
  <2>4. s = SubSeq(body, m, n)
    OBVIOUS
  <2> HIDE DEF s, m, n
  <2>5. /\ SubSeq(body, m, n) \in Seq(Nat) /\ Len(SubSeq(body, m, n)) = IF m <= n THEN n - m + 1 ELSE 0
        /\ \A i \in 1..n - m + 1 : SubSeq(body, m, n)[i] = body[m + i - 1]
    BY <2>1, SubSeqProperties
  <2> QED BY <2>3, <2>4, <2>5
<1> HIDE DEF s, w
<1>13. s = w
  <2>1. ASSUME NEW i \in 1..2 + ld
        PROVE  s[i] = w[i]
    <3>1. CASE i = 1
      <4>1. 1 \in 1..2 + ld
        BY <1>6
      <4> QED BY <1>3, <1>10, <1>11, <1>12, <3>1, <4>1
    <3>2. CASE i = 2
      <4>1. 2 \in 1..2 + ld
        BY <1>6
      <4> QED BY <1>3, <1>10, <1>11, <1>12, <3>2, <4>1
    <3>3. CASE i > 2
      <4> DEFINE j == i - 2
      <4>1. j \in 1..ld /\ z + i = z + 2 + j /\ ~(i <= 2)
        BY <1>1, <1>6, <3>3
      <4>2. w[i] = d[j] /\ s[i] = body[z + i]
        BY <1>11, <1>12, <4>1
      <4> HIDE DEF j
      <4> QED BY <1>8, <4>1, <4>2
    <3> QED BY <1>6, <3>1, <3>2, <3>3
  <2>2. \A i \in 1..Len(s) : s[i] = w[i]
    BY <1>12, <2>1
  <2> QED BY <1>11, <1>12, <2>2, SeqEqual
<1>14. c \o s = c \o qq \o d
  <2>1. (c \o qq) \o d = c \o (qq \o d)
    BY <1>1, <1>3, Regroup
  <2> QED BY <1>13, <2>1 DEF w
<1>15. RewriteQuestionName(response, Q.name) = [response EXCEPT !.body = c \o s]
  <2>1. ~(Len(body) < z)
    BY <1>1, <1>5, <1>6
  <2> QED BY <2>1 DEF RewriteQuestionName, s, c, z, body
<1>16. RewriteQuestionName(response, Q.name) =
             [id |-> response.id, flags |-> response.flags, opcode |-> response.opcode,
              rcode |-> response.rcode, qd |-> response.qd, an |-> response.an, ns |-> response.ns,
              ar |-> response.ar, body |-> c \o s]
  <2> DEFINE b == c \o s
  <2>1. RewriteQuestionName(response, Q.name) = [response EXCEPT !.body = b]
    BY <1>15
  <2> HIDE DEF b
  <2>2. RewriteQuestionName(response, Q.name) =
             [id |-> response.id, flags |-> response.flags, opcode |-> response.opcode,
              rcode |-> response.rcode, qd |-> response.qd, an |-> response.an, ns |-> response.ns,
              ar |-> response.ar, body |-> b]
    BY <2>1, NewBody
  <2> QED BY <2>2 DEF b
<1> QED BY <1>14, <1>16 DEF c, qq, Unspelled

\* The cells of a question about a name.
Section(X) == Len(EncodeName(X).cells) + 2

\* A body that asks a question first.
Asks(body, Q) ==
    /\ body \in Seq(Nat) /\ Written(body, Q.name)
    /\ Section(Q.name) <= Len(body)
    /\ body[Len(EncodeName(Q.name).cells) + 1] = Q.qtype
    /\ body[Len(EncodeName(Q.name).cells) + 2] = Q.qclass

\* A question that is asked with the name in lower case.
Plain(Q) == Q \in Question /\ Encodable(Q.name) /\ Lowered(Q.name) = Q.name

\* The one question of such a message is read.
LEMMA PlainMessage ==
    ASSUME NEW Q, Plain(Q), NEW m, m.qd = 1, Asks(m.body, Q)
    PROVE  /\ Readably(m)
           /\ ParseQuestions(m) = [ok |-> TRUE, end |-> Section(Q.name) + 1, questions |-> <<Q>>]
           /\ Section(Q.name) \in Nat
<1> DEFINE X == Q.name
           z == Len(EncodeName(X).cells)
           body == m.body
<1>1. Encodable(X) /\ Q \in Question /\ Lowered(X) = X
  BY DEF Plain
<1>2. z \in Nat
  BY <1>1, EncodeTyped
<1>3. /\ body \in Seq(Nat) /\ Written(body, X) /\ z + 2 <= Len(body)
      /\ body[z + 1] = Q.qtype /\ body[z + 2] = Q.qclass
  BY DEF Asks, Section
<1>4. QuestionsOf(body)[1] = Single(X, body) /\ QuestionTrails(body, 1) \subseteq 1..z
  <2> HIDE DEF body, X
  <2> QED BY <1>1, <1>3, PlainQuestion
<1> HIDE DEF body
<1>5. Q = [name |-> Lowered(X), qtype |-> body[z + 1], qclass |-> body[z + 2]]
  <2>1. Q = [name |-> Q.name, qtype |-> Q.qtype, qclass |-> Q.qclass]
    BY <1>1 DEF Question
  <2> QED BY <1>1, <1>3, <2>1
<1>6. Single(X, body) = [ok |-> TRUE, end |-> z + 3, questions |-> <<Q>>]
  <2> HIDE DEF X
  <2>1. Single(X, body) = [ok |-> TRUE, end |-> z + 3, questions |->
            <<[name |-> Lowered(X), qtype |-> body[z + 1], qclass |-> body[z + 2]]>>]
    BY DEF Single
  <2> QED BY <1>5, <2>1
<1>7. ParseQuestions(m) = [ok |-> TRUE, end |-> z + 3, questions |-> <<Q>>]
  BY <1>4, <1>6 DEF ParseQuestions, body
<1>8. Section(Q.name) = z + 2 /\ z + 2 \in Nat /\ z + 2 + 1 = z + 3
  BY <1>2 DEF Section
<1>9. Readably(m)
  <2> DEFINE e == z + 3
  <2>1. 1..z \subseteq 1..e - 1
    BY <1>2
  <2>2. ParseQuestions(m).ok /\ ParseQuestions(m).end = e
    BY <1>7
  <2>3. 1 \in Nat
    OBVIOUS
  <2>4. m.body \in Seq(Nat)
    BY <1>3 DEF body
  <2>5. QuestionTrails(m.body, m.qd) \subseteq 1..z
    BY <1>4 DEF body
  <2> HIDE DEF z, e
  <2> QED BY <2>1, <2>2, <2>3, <2>4, <2>5 DEF Readably
<1> QED BY <1>7, <1>8, <1>9

\* What is kept of an answer can be read.
LEMMA KeptReads ==
    ASSUME NEW Q, Plain(Q), NEW section, section.an \in Nat, section.ar \in Nat, section.cells \in Seq(Nat)
    PROVE  LET m == KeptAnswer(Q, section)
           IN  /\ MessageForm(m) /\ m.qd = 1 /\ "QR" \in m.flags
               /\ m.an = section.an /\ m.ns = 0 /\ m.ar = section.ar
               /\ Asks(m.body, Q)
<1> DEFINE m == KeptAnswer(Q, section)
           c == EncodeName(Q.name).cells
           z == Len(c)
           qq == <<Q.qtype, Q.qclass>>
           d == section.cells
           body == c \o qq \o d
<1>1. MessageForm(m) /\ m.qd = 1 /\ "QR" \in m.flags /\ m.an = section.an /\ m.ns = 0 /\ m.ar = section.ar
      /\ m.body = body
  BY DEF KeptAnswer, MessageForm
<1>2. c \in Seq(Nat) /\ z \in Nat
  BY EncodeTyped DEF Plain
<1>3. qq \in Seq(Nat) /\ Len(qq) = 2 /\ qq[1] = Q.qtype /\ qq[2] = Q.qclass
  BY DEF Question, Plain
<1>4. d \in Seq(Nat) /\ Len(d) \in Nat
  OBVIOUS
<1> HIDE DEF m, c, qq, d
<1>5. /\ body \in Seq(Nat) /\ Len(body) = Len(c) + Len(qq) + Len(d)
      /\ \A i \in 1..Len(c) : body[i] = c[i]
      /\ Holds(body, Len(c) + 1, qq)
  BY <1>2, <1>3, <1>4, Behind, ZenonT(60)
<1> HIDE DEF body
<1>6. z + 2 <= Len(body)
  BY <1>2, <1>3, <1>4, <1>5
<1>7. body[z + 1] = Q.qtype /\ body[z + 2] = Q.qclass
  <2>1. \A i \in 1..2 : body[z + 1 - 1 + i] = qq[i]
    BY <1>3, <1>5, SMTT(30) DEF Holds
  <2>2. 1 \in 1..2 /\ 2 \in 1..2 /\ z + 1 - 1 + 1 = z + 1 /\ z + 1 - 1 + 2 = z + 2
    BY <1>2
  <2>3. body[z + 1 - 1 + 1] = qq[1] /\ body[z + 1 - 1 + 2] = qq[2]
    BY <2>1, <2>2
  <2> QED BY <1>3, <2>2, <2>3
<1>8. Written(body, Q.name)
  <2>1. DOMAIN c = 1..z /\ DOMAIN body = 1..Len(body) /\ Len(body) \in Nat
    BY <1>2, <1>5
  <2>2. \A i \in 1..z : i \in 1..Len(body) /\ body[i] = c[i]
    BY <1>2, <1>5, <1>6, <2>1
  <2> QED BY <2>1, <2>2 DEF Written, c
<1>9. Asks(m.body, Q)
  BY <1>1, <1>5, <1>6, <1>7, <1>8 DEF Asks, Section, c
<1> QED BY <1>1, <1>9 DEF m

-------------------------------------------------------------------------------
(* Ageing *)

\* The lifetime given to a client: STALE_TTL for an answer past its time.
NewTtl(age, ttl) == IF age = -1 THEN STALE_TTL ELSE IF ttl > age THEN ttl - age ELSE 0

\* The cell holds the lifetime of a record that ages.
Ages(m, i) ==
    \E k \in DOMAIN IterRecords(m).records :
        IterRecords(m).records[k].ttlOffset = i /\ IterRecords(m).records[k].rtype # TYPE_OPT

\* The same header, in a message of the same length.
SameHead(d, m) ==
    /\ MessageForm(d) /\ d.id = m.id /\ d.flags = m.flags /\ d.opcode = m.opcode /\ d.rcode = m.rcode
    /\ d.qd = m.qd /\ d.an = m.an /\ d.ns = m.ns /\ d.ar = m.ar
    /\ d.body \in Seq(Nat) /\ Len(d.body) = Len(m.body)

\* An answer with its lifetimes run down.
AgedFor(m, d, age) ==
    /\ SameHead(d, m)
    /\ \A i \in 1..Len(m.body) :
        d.body[i] = IF Ages(m, i) THEN NewTtl(age, m.body[i]) ELSE m.body[i]

\* A lifetime stays a number.
LEMMA NewTtlTyped ==
    ASSUME NEW age \in Nat \cup {-1}, NEW ttl \in Nat
    PROVE  NewTtl(age, ttl) \in Nat
BY DEF NewTtl, STALE_TTL

\* A message whose body is written anew, cell by cell.
LEMMA CellByCell ==
    ASSUME NEW m, MessageForm(m), m.body \in Seq(Nat), NEW age \in Nat \cup {-1}, NEW d, NEW body,
           DOMAIN body = DOMAIN m.body, body = [i \in DOMAIN m.body |-> body[i]],
           \A i \in DOMAIN m.body : body[i] = IF Ages(m, i) THEN NewTtl(age, m.body[i]) ELSE m.body[i]
    PROVE  d = [m EXCEPT !.body = body] => AgedFor(m, d, age)
<1>0. SUFFICES ASSUME d = [m EXCEPT !.body = body] PROVE AgedFor(m, d, age)
  OBVIOUS
<1>1. d = [id |-> m.id, flags |-> m.flags, opcode |-> m.opcode, rcode |-> m.rcode,
           qd |-> m.qd, an |-> m.an, ns |-> m.ns, ar |-> m.ar, body |-> body]
  BY <1>0, NewBody
<1>2. /\ d.id = m.id /\ d.flags = m.flags /\ d.opcode = m.opcode /\ d.rcode = m.rcode
      /\ d.qd = m.qd /\ d.an = m.an /\ d.ns = m.ns /\ d.ar = m.ar /\ d.body = body
  BY <1>1
<1>3. MessageForm(d)
  BY <1>1, <1>2 DEF MessageForm
<1> DEFINE n == Len(m.body)
<1>4. n \in Nat /\ DOMAIN m.body = 1..n /\ \A i \in 1..n : m.body[i] \in Nat
  OBVIOUS
<1> HIDE DEF n
<1>5. \A i \in 1..n : body[i] \in Nat
  BY <1>4, NewTtlTyped
<1>6. body \in Seq(Nat) /\ Len(body) = n
  <2>1. body \in [1..n -> Nat]
    BY <1>4, <1>5
  <2> QED BY <1>4, <2>1
<1>7. SameHead(d, m)
  BY <1>2, <1>3, <1>6 DEF SameHead, n
<1>8. \A i \in 1..n : d.body[i] = IF Ages(m, i) THEN NewTtl(age, m.body[i]) ELSE m.body[i]
  BY <1>2, <1>4
<1> QED BY <1>7, <1>8 DEF AgedFor, n

\* with_ttls_reduced() changes the lifetimes, each by the age.
LEMMA ReducedIs ==
    ASSUME NEW m, MessageForm(m), m.body \in Seq(Nat), NEW age \in Nat
    PROVE  AgedFor(m, WithTtlsReduced(m, age), age)
<1> DEFINE body == [i \in DOMAIN m.body |-> IF Ages(m, i) THEN (IF m.body[i] > age THEN m.body[i] - age ELSE 0)
                                            ELSE m.body[i]]
           d == WithTtlsReduced(m, age)
<1>1. d = [m EXCEPT !.body = body]
  BY DEF WithTtlsReduced, WithTtls, Ages
<1>2. \A i \in DOMAIN m.body : body[i] = IF Ages(m, i) THEN NewTtl(age, m.body[i]) ELSE m.body[i]
  <2>1. \A ttl : NewTtl(age, ttl) = IF ttl > age THEN ttl - age ELSE 0
    BY DEF NewTtl
  <2> QED BY <2>1
<1>3. DOMAIN body = DOMAIN m.body /\ body = [i \in DOMAIN m.body |-> body[i]]
  OBVIOUS
<1> HIDE DEF body, d
<1>4. age \in Nat \cup {-1}
  OBVIOUS
<1>5. AgedFor(m, d, age)
  BY <1>1, <1>2, <1>3, <1>4, CellByCell
<1> QED BY <1>5 DEF d

\* _rewrite_all_ttls() changes the lifetimes, each to the same.
LEMMA RewrittenAre ==
    ASSUME NEW m, MessageForm(m), m.body \in Seq(Nat), IterRecords(m).ok
    PROVE  AgedFor(m, RewriteAllTtls(m), -1)
<1> DEFINE body == [i \in DOMAIN m.body |-> IF Ages(m, i) THEN STALE_TTL ELSE m.body[i]]
           d == RewriteAllTtls(m)
<1>1. d = [m EXCEPT !.body = body]
  BY DEF RewriteAllTtls, WithTtls, Ages
<1>2. \A i \in DOMAIN m.body : body[i] = IF Ages(m, i) THEN NewTtl(-1, m.body[i]) ELSE m.body[i]
  <2>1. \A ttl : NewTtl(-1, ttl) = STALE_TTL
    BY DEF NewTtl
  <2> QED BY <2>1
<1>3. DOMAIN body = DOMAIN m.body /\ body = [i \in DOMAIN m.body |-> body[i]]
  OBVIOUS
<1> HIDE DEF body, d
<1>4. -1 \in Nat \cup {-1}
  OBVIOUS
<1>5. AgedFor(m, d, -1)
  BY <1>1, <1>2, <1>3, <1>4, CellByCell
<1> QED BY <1>5 DEF d

\* An answer that is given at once is given as it is.
LEMMA UnagedIs ==
    ASSUME NEW m, MessageForm(m), m.body \in Seq(Nat)
    PROVE  AgedFor(m, m, 0)
<1>1. SameHead(m, m)
  BY DEF SameHead
<1>2. \A ttl \in Nat : NewTtl(0, ttl) = ttl
  BY DEF NewTtl
<1>3. \A i \in 1..Len(m.body) : m.body[i] \in Nat
  OBVIOUS
<1> QED BY <1>1, <1>2, <1>3 DEF AgedFor

-------------------------------------------------------------------------------
(* The question put back *)

\* A message with another identifier.
LEMMA NewId ==
    ASSUME NEW m, MessageForm(m), NEW id
    PROVE  [m EXCEPT !.id = id] =
             [id |-> id, flags |-> m.flags, opcode |-> m.opcode, rcode |-> m.rcode,
              qd |-> m.qd, an |-> m.an, ns |-> m.ns, ar |-> m.ar, body |-> m.body]
<1> DEFINE i == m.id
           f == m.flags
           o == m.opcode
           r == m.rcode
           q == m.qd
           a == m.an
           n == m.ns
           x == m.ar
           y == m.body
<1>1. m = [id |-> i, flags |-> f, opcode |-> o, rcode |-> r, qd |-> q, an |-> a, ns |-> n, ar |-> x, body |-> y]
  BY DEF MessageForm
<1> HIDE DEF i, f, o, r, q, a, n, x, y
<1>2. [m EXCEPT !.id = id] =
        [id |-> id, flags |-> f, opcode |-> o, rcode |-> r, qd |-> q, an |-> a, ns |-> n, ar |-> x, body |-> y]
  BY <1>1
<1> QED BY <1>2 DEF f, o, r, q, a, n, x, y

\* The question section of one message in front of the rest of another.
Splice(c, b, e) == c \o SubSeq(b, e, Len(b))

\* One body up to a cell and the other from there.
Spliced(c, b, e, r) ==
    /\ r \in Seq(Nat) /\ Len(r) = Len(b)
    /\ \A i \in 1..e - 1 : r[i] = c[i]
    /\ \A i \in e..Len(b) : r[i] = b[i]

\* What the splice in _prepare_reply() makes.
LEMMA SplicedIs ==
    ASSUME NEW c \in Seq(Nat), NEW b \in Seq(Nat), NEW e \in Nat, Len(c) + 1 = e, e <= Len(b) + 1
    PROVE  Spliced(c, b, e, Splice(c, b, e))
<1> DEFINE l == Len(b)
           s == SubSeq(b, e, l)
           r == c \o s
<1>1. l \in Nat /\ Len(c) \in Nat /\ Len(c) = e - 1 /\ e <= l + 1 /\ e >= 1
  <2>1. Len(c) \in Nat
    OBVIOUS
  <2> QED BY <2>1
<1>2. \A i \in e..l : b[i] \in Nat
  BY <1>1
<1> HIDE DEF l
<1>3. s \in Seq(Nat) /\ Len(s) = l - e + 1 /\ \A i \in 1..l - e + 1 : s[i] = b[e + i - 1]
  <2>1. e \in Int /\ l \in Int
    BY <1>1
  <2>2. /\ s \in Seq(Nat) /\ Len(s) = IF e <= l THEN l - e + 1 ELSE 0
        /\ \A i \in 1..l - e + 1 : s[i] = b[e + i - 1]
    BY <1>2, <2>1, SubSeqProperties
  <2>3. ~(e <= l) => l - e + 1 = 0
    BY <1>1
  <2> HIDE DEF s
  <2> QED BY <2>2, <2>3
<1>4. r = c \o s
  OBVIOUS
<1> HIDE DEF s, r
<1>5. /\ r \in Seq(Nat) /\ Len(r) = Len(c) + Len(s)
      /\ \A i \in 1..Len(c) + Len(s) : r[i] = IF i <= Len(c) THEN c[i] ELSE s[i - Len(c)]
  BY <1>3, <1>4, Joins, ZenonT(60) DEF Joined
<1> DEFINE k == e - 1
           n == l - e + 1
<1>6. k \in Nat /\ n \in Nat /\ k + n = l /\ Len(c) = k /\ Len(s) = n /\ e = k + 1
  BY <1>1, <1>3
<1>7. \A i \in 1..n : s[i] = b[k + i]
  <2> TAKE i \in 1..n
  <2>1. i \in 1..l - e + 1 /\ e + i - 1 = k + i
    BY <1>1
  <2> QED BY <1>3, <2>1
<1>8. r \in Seq(Nat) /\ Len(r) = l /\ \A i \in 1..l : r[i] = IF i <= k THEN c[i] ELSE s[i - k]
  BY <1>5, <1>6
<1> HIDE DEF k, n
<1>9. \A i \in 1..k : r[i] = c[i]
  BY <1>6, <1>8
<1>10. \A i \in k + 1..l : r[i] = b[i]
  <2> TAKE i \in k + 1..l
  <2> DEFINE j == i - k
  <2>1. j \in 1..n /\ k + j = i /\ i \in 1..l /\ ~(i <= k)
    BY <1>1, <1>6
  <2>2. r[i] = s[j]
    BY <1>8, <2>1
  <2> HIDE DEF j
  <2>3. s[j] = b[k + j]
    BY <1>7, <2>1
  <2> QED BY <2>1, <2>2, <2>3
<1>11. e - 1 = k
  BY DEF k
<1> QED BY <1>6, <1>8, <1>9, <1>10, <1>11 DEF l, s, r, Splice, Spliced

\* _prepare_reply() makes a message that answers a question the query's.
LEMMA Prepared ==
    ASSUME NEW q \in ClientQueries, Ordinary(q), ParseQuestions(q).ok, q.qd > 0,
           NEW d, MessageForm(d), d.qd = 1, "QR" \in d.flags, Asks(d.body, AskedFor(q))
    PROVE  LET reply == PrepareReply(d, q)
           IN  /\ Fits(reply, q) /\ Asks(reply.body, AskedFor(q))
               /\ reply.qd = 1 /\ reply.an = d.an /\ reply.ns = d.ns /\ reply.ar = d.ar
               /\ Len(reply.body) = Len(d.body)
               /\ \A i \in Section(AskedFor(q).name) + 1..Len(d.body) : reply.body[i] = d.body[i]
<1> DEFINE Q == AskedFor(q)
           z == Len(EncodeName(Q.name).cells)
           e == z + 3
           b == d.body
           c == QuestionCells(q)
           mine == ParseQuestions(q)
           same == mine.end = e
           R == IF same THEN c \o SubSeq(b, e, Len(b)) ELSE b
           reply == PrepareReply(d, q)
           form == [id |-> q.id, flags |-> d.flags, opcode |-> d.opcode, rcode |-> d.rcode,
                    qd |-> d.qd, an |-> d.an, ns |-> d.ns, ar |-> d.ar, body |-> R]
<1>1. /\ Q = ParseQuestions(q).questions[1] /\ Plain(Q) /\ Written(q.body, Q.name)
      /\ q.body \in Seq(Nat) /\ q.qd \in Nat \ {0}
      /\ z \in Nat \ {0} /\ z + 2 <= Len(q.body) /\ z + 3 <= ParseQuestions(q).end
      /\ q.body[z + 1] = Q.qtype /\ q.body[z + 2] = Q.qclass
      /\ QuestionsOf(q.body)[1] = [ok |-> TRUE, questions |-> <<Q>>, end |-> z + 3]
  BY AskedIs DEF Plain
<1>2. Section(Q.name) = z + 2 /\ Section(Q.name) + 1 = e
  <2>1. z + 2 + 1 = z + 3
    BY <1>1
  <2> QED BY <2>1 DEF Section
<1>3. ParseQuestions(d) = [ok |-> TRUE, end |-> e, questions |-> <<Q>>]
  <2>1. d.qd = 1 /\ Asks(d.body, Q)
    OBVIOUS
  <2> HIDE DEF Q, e
  <2> QED BY <1>1, <1>2, <2>1, PlainMessage
<1>4. /\ b \in Seq(Nat) /\ Written(b, Q.name) /\ z + 2 <= Len(b)
      /\ b[z + 1] = Q.qtype /\ b[z + 2] = Q.qclass
  BY DEF Asks, Section
<1>5. Readably(q)
  BY QueryReadable
<1>6. /\ c \in Seq(Nat) /\ Len(c) = mine.end - 1 /\ mine.end \in Nat
      /\ \A i \in 1..mine.end - 1 : c[i] = q.body[i]
  BY <1>5, QuestionsIn DEF Readably
<1>7. reply = form
  <2> DEFINE r0 == [d EXCEPT !.id = q.id]
             x == c \o SubSeq(b, e, Len(b))
  <2>1. r0 = [id |-> q.id, flags |-> d.flags, opcode |-> d.opcode, rcode |-> d.rcode,
              qd |-> d.qd, an |-> d.an, ns |-> d.ns, ar |-> d.ar, body |-> d.body]
    BY NewId
  <2>2. ParseQuestions(d).ok = TRUE /\ ParseQuestions(d).end = e /\ mine.ok
    BY <1>3
  <2>3. reply = IF same THEN [r0 EXCEPT !.body = c \o SubSeq(@, ParseQuestions(d).end, Len(@))] ELSE r0
    BY <2>2 DEF PrepareReply
  <2> HIDE DEF r0
  <2>4. r0.body = b
    BY <2>1
  <2>5. [r0 EXCEPT !.body = c \o SubSeq(@, ParseQuestions(d).end, Len(@))] = [r0 EXCEPT !.body = x]
    BY <2>2, <2>4
  <2> HIDE DEF x, same, reply
  <2>6. MessageForm(r0)
    BY <2>1 DEF MessageForm
  <2>7. [r0 EXCEPT !.body = x] =
             [id |-> r0.id, flags |-> r0.flags, opcode |-> r0.opcode, rcode |-> r0.rcode,
              qd |-> r0.qd, an |-> r0.an, ns |-> r0.ns, ar |-> r0.ar, body |-> x]
    BY <2>6, NewBody
  <2>8. /\ r0.id = q.id /\ r0.flags = d.flags /\ r0.opcode = d.opcode /\ r0.rcode = d.rcode
        /\ r0.qd = d.qd /\ r0.an = d.an /\ r0.ns = d.ns /\ r0.ar = d.ar
    BY <2>1
  <2>9. CASE same
    <3>1. R = x
      BY <2>9 DEF x
    <3> HIDE DEF R
    <3>2. reply = [r0 EXCEPT !.body = x]
      BY <2>3, <2>5, <2>9
    <3> QED BY <2>7, <2>8, <3>1, <3>2
  <2>10. CASE ~same
    <3>1. R = b
      BY <2>10
    <3> HIDE DEF R
    <3>2. reply = r0
      BY <2>3, <2>10
    <3> QED BY <2>1, <3>1, <3>2
  <2> QED BY <2>9, <2>10
<1>8. /\ R \in Seq(Nat) /\ Len(R) = Len(b)
      /\ \A i \in 1..z + 2 : R[i] = IF same THEN q.body[i] ELSE b[i]
      /\ \A i \in e..Len(b) : R[i] = b[i]
  <2>1. CASE same
    <3> DEFINE x == Splice(c, b, e)
    <3>1. R = x
      BY <2>1, SMTT(30) DEF Splice
    <3>2. e \in Nat /\ Len(c) + 1 = e /\ e <= Len(b) + 1
      <4>1. Len(b) \in Nat
        BY <1>4
      <4> QED BY <1>1, <1>4, <1>6, <2>1, <4>1
    <3> HIDE DEF e, c, b, R
    <3>3. /\ x \in Seq(Nat) /\ Len(x) = Len(b)
          /\ \A i \in 1..e - 1 : x[i] = c[i]
          /\ \A i \in e..Len(b) : x[i] = b[i]
      <4>1. b \in Seq(Nat) /\ c \in Seq(Nat)
        BY <1>4, <1>6
      <4>2. Spliced(c, b, e, x)
        BY <3>2, <4>1, SplicedIs
      <4> QED BY <4>2 DEF Spliced
    <3> HIDE DEF x
    <3>4. \A i \in 1..z + 2 : i \in 1..e - 1
      BY <1>1 DEF e
    <3>5. \A i \in 1..e - 1 : c[i] = q.body[i]
      BY <1>6, <2>1
    <3> QED BY <2>1, <3>1, <3>3, <3>4, <3>5
  <2>2. CASE ~same
    <3>1. R = b
      BY <2>2
    <3> HIDE DEF R, e
    <3> QED BY <1>4, <2>2, <3>1
  <2> QED BY <2>1, <2>2
<1> HIDE DEF R, b, reply
<1>9. /\ reply.id = q.id /\ reply.flags = d.flags /\ reply.qd = d.qd /\ reply.an = d.an
      /\ reply.ns = d.ns /\ reply.ar = d.ar /\ reply.body = R
  BY <1>7
<1>10. MessageForm(reply)
  BY <1>7, <1>9 DEF MessageForm
<1>11. Asks(R, Q)
  <2> HIDE DEF Q, same
  <2>1. \A i \in 1..z : i \in 1..z + 2
    BY <1>1
  <2>2. z + 1 \in 1..z + 2 /\ z + 2 \in 1..z + 2
    <3>1. z \in Nat
      BY <1>1, SMTT(30)
    <3> HIDE DEF z
    <3> QED BY <3>1
  <2>3. R[z + 1] = Q.qtype /\ R[z + 2] = Q.qclass
    BY <1>1, <1>4, <1>8, <2>2
  <2>4. Written(R, Q.name)
    <3> SUFFICES ASSUME NEW i \in DOMAIN EncodeName(Q.name).cells
                 PROVE  i \in DOMAIN R /\ Lower(R[i]) = Lower(EncodeName(Q.name).cells[i])
      BY DEF Written
    <3>1. EncodeName(Q.name).cells \in Seq(Nat)
      BY <1>1, EncodeTyped DEF Plain
    <3>2. i \in 1..z
      <4> DEFINE cells == EncodeName(Q.name).cells
      <4>1. DOMAIN cells = 1..Len(cells)
        BY <3>1, SeqDomain, SMTT(30)
      <4> QED BY <4>1
    <3>3. Lower(q.body[i]) = Lower(EncodeName(Q.name).cells[i]) /\ Lower(b[i]) = Lower(EncodeName(Q.name).cells[i])
      BY <1>1, <1>4 DEF Written
    <3>4. i \in 1..Len(R) /\ DOMAIN R = 1..Len(R)
      <4>1. Len(R) \in Nat /\ z + 2 <= Len(R)
        BY <1>4, <1>8
      <4> HIDE DEF z
      <4> QED BY <1>1, <1>8, <3>2, <4>1
    <3>5. R[i] = q.body[i] \/ R[i] = b[i]
      BY <1>8, <2>1, <3>2
    <3> QED BY <3>3, <3>4, <3>5
  <2>5. Section(Q.name) <= Len(R)
    BY <1>2, <1>4, <1>8
  <2> QED BY <1>8, <2>3, <2>4, <2>5 DEF Asks
<1>12. Readably(reply) /\ ParseQuestions(reply) = [ok |-> TRUE, end |-> e, questions |-> <<Q>>]
  <2>1. reply.qd = 1 /\ Asks(reply.body, Q)
    BY <1>9, <1>11
  <2> HIDE DEF Q, e, reply
  <2> QED BY <1>1, <1>2, <2>1, PlainMessage
<1>13. ASSUME q.qd = 1
       PROVE  QuestionCells(reply) = QuestionCells(q)
  <2>1. mine.end = e
    BY <1>1, <1>13 DEF ParseQuestions
  <2>2. reply.body \in Seq(Nat) /\ reply.qd = q.qd
    BY <1>8, <1>9, <1>13, SMTT(30)
  <2>3. Len(reply.body) + 1 >= mine.end
    <3>1. Len(b) \in Nat
      BY <1>4
    <3> QED BY <1>1, <1>4, <1>8, <1>9, <2>1, <3>1
  <2>4. \A i \in 1..mine.end - 1 : reply.body[i] = q.body[i]
    <3>1. \A i \in 1..e - 1 : i \in 1..z + 2
      BY <1>1
    <3>2. same
      BY <2>1
    <3> HIDE DEF same, e
    <3>3. \A i \in 1..e - 1 : R[i] = q.body[i]
      BY <1>8, <3>1, <3>2
    <3> QED BY <1>9, <2>1, <3>3
  <2> HIDE DEF reply
  <2> QED BY <1>5, <2>2, <2>3, <2>4, SameSection
<1>14. Head(ParseQuestions(reply).questions) = Head(ParseQuestions(q).questions)
  <2>1. Head(<<Q>>) = Q
    <3> HIDE DEF Q
    <3> QED OBVIOUS
  <2>2. ParseQuestions(reply).questions = <<Q>>
    BY <1>12
  <2> QED BY <2>1, <2>2 DEF AskedFor
<1>15. Fits(reply, q)
  BY <1>9, <1>10, <1>12, <1>13, <1>14 DEF Fits
<1>16. \A i \in Section(Q.name) + 1..Len(b) : reply.body[i] = b[i]
  <2> HIDE DEF e, Q
  <2> QED BY <1>2, <1>8, <1>9
<1>17. Len(reply.body) = Len(b) /\ Asks(reply.body, Q)
  BY <1>8, <1>9, <1>11
<1> QED BY <1>9, <1>15, <1>16, <1>17 DEF reply, b

-------------------------------------------------------------------------------
(* Records in an aged answer *)

\* Where the lifetimes of the records of a body are.
LEMMA LifetimesIn ==
    ASSUME NEW a \in Seq(Nat), NEW o \in Nat, NEW n \in Nat, RecordsFrom(a, o)[n].ok,
           0 \notin RecTrails(a, o, n)
    PROVE  LET rs == RecordsFrom(a, o)[n].records
           IN  /\ rs \in Seq(Rr) /\ Len(rs) = n
               /\ \A j \in 1..n : /\ rs[j].ttlOffset \in o..Len(a)
                                  /\ rs[j].ttl = a[rs[j].ttlOffset]
               /\ \A j, k \in 1..n : rs[j].ttlOffset = rs[k].ttlOffset => j = k
<1> DEFINE r == RecordsFrom(a, o)
           rs == r[n].records
<1>1. n \in 0..n /\ 0 \in 0..n
  OBVIOUS
<1>2. RecordsWell(o, r[n])
  BY <1>1, RecordsTyped
<1>3. rs \in Seq(Rr) /\ r[n].end \in Nat
  BY <1>2 DEF RecordsWell
<1>4. Placed(r, n)
  BY <1>1, RecordsPlaced
<1>5. r[0].end = o
  <2>1. r[0] = [ok |-> TRUE, records |-> <<>>, end |-> o]
    BY RecordsSteps
  <2> QED BY <2>1
<1>6. Len(rs) = n
  BY <1>4 DEF Placed
<1>7. \A j \in 1..n : rs[j].ttlOffset \in Nat
  <2>1. \A j \in 1..n : rs[j] \in Rr
    BY <1>3, <1>6
  <2> QED BY <2>1 DEF Rr
<1>8. n > 0 => r[n].end <= Len(a) + 1
  <2> SUFFICES ASSUME n > 0
               PROVE  r[n].end <= Len(a) + 1
    OBVIOUS
  <2> DEFINE k == n - 1
             s == r[k]
             t == r[k + 1]
             name == ReadName(a, s.end)
             at == name.end
  <2>1. k \in 0..n - 1 /\ k + 1 = n
    OBVIOUS
  <2>2. NextRecord(a, o, RecordsFrom(a, o)[k], RecordsFrom(a, o)[k + 1])
    <3> HIDE DEF k
    <3> QED BY <2>1, RecordNext
  <2>3. /\ at \in Nat /\ a[at + 3] \in Nat /\ at + 3 + a[at + 3] <= Len(a)
        /\ t = [ok |-> TRUE, end |-> at + 4 + a[at + 3],
                records |-> Append(s.records, RecordAt(a, name.name, at))]
    <3> HIDE DEF k
    <3> QED BY <2>2 DEF NextRecord
  <2> DEFINE x == Append(s.records, RecordAt(a, name.name, at))
             l == a[at + 3]
             y == at + 4 + l
  <2>4. t.end = y
    <3>1. t = [ok |-> TRUE, end |-> y, records |-> x]
      BY <2>3
    <3> HIDE DEF x, y, t
    <3> QED BY <3>1
  <2>5. at \in Nat /\ l \in Nat /\ at + 3 + l <= Len(a) /\ Len(a) \in Nat
    BY <2>3
  <2>6. r[n] = t
    BY <2>1
  <2> HIDE DEF at, l, t
  <2>7. y <= Len(a) + 1
    BY <2>5
  <2> QED BY <2>4, <2>6, <2>7
<1> HIDE DEF r
<1>9. \A j \in 1..n : rs[j].ttlOffset \in o..Len(a)
  <2> TAKE j \in 1..n
  <2>1. rs[j].ttlOffset >= o
    <3>1. j \in 0 + 1..n
      OBVIOUS
    <3> QED BY <1>1, <1>4, <1>5, <3>1 DEF Placed
  <2>2. rs[j].ttlOffset < r[n].end
    BY <1>1, <1>4 DEF Placed
  <2>3. n > 0 /\ Len(a) \in Nat
    OBVIOUS
  <2> QED BY <1>3, <1>7, <1>8, <2>1, <2>2, <2>3, SMTT(30)
<1>10. ASSUME NEW j \in 1..n, NEW k \in 1..n, j < k
       PROVE  rs[j].ttlOffset < rs[k].ttlOffset
  <2>1. j \in 0..n /\ j \in 1..j /\ k \in j + 1..n
    BY <1>10
  <2>2. rs[j].ttlOffset < r[j].end /\ rs[k].ttlOffset >= r[j].end
    BY <1>4, <2>1 DEF Placed
  <2>3. r[j].end \in Nat
    <3>1. RecordsWell(o, r[j])
      BY <2>1, RecordsTyped DEF r
    <3> QED BY <3>1 DEF RecordsWell
  <2> QED BY <1>7, <2>2, <2>3
<1>11. \A j, k \in 1..n : rs[j].ttlOffset = rs[k].ttlOffset => j = k
  <2> SUFFICES ASSUME NEW j \in 1..n, NEW k \in 1..n, rs[j].ttlOffset = rs[k].ttlOffset
               PROVE  j = k
    OBVIOUS
  <2>1. rs[j].ttlOffset \in Nat
    BY <1>7
  <2>2. ~(j < k)
    BY <1>10, <2>1
  <2>3. ~(k < j)
    BY <1>10, <2>1
  <2> QED BY <2>2, <2>3
<1>12. r[n].records = Renewed(rs, a)
  <2>1. AlikeOn(a, a, RecTrails(a, o, n))
    BY DEF AlikeOn, Alike
  <2>2. OtherLifetimes(a, a, o, n)
    BY DEF OtherLifetimes
  <2>3. \A k \in 0..n : RecordsFrom(a, o)[k] =
                [ok |-> TRUE, end |-> RecordsFrom(a, o)[k].end,
                 records |-> Renewed(RecordsFrom(a, o)[k].records, a)]
    BY <2>1, <2>2, RecordsSame
  <2>4. r[n] = [ok |-> TRUE, end |-> r[n].end, records |-> Renewed(rs, a)]
    BY <1>1, <2>3 DEF r
  <2> DEFINE x == Renewed(rs, a)
             y == r[n].end
  <2> HIDE DEF x, y
  <2>5. r[n] = [ok |-> TRUE, end |-> y, records |-> x]
    BY <2>4 DEF x, y
  <2>6. r[n].records = x
    BY <2>5
  <2> QED BY <2>6 DEF x
<1>13. \A j \in 1..n : rs[j].ttl = a[rs[j].ttlOffset]
  <2> TAKE j \in 1..n
  <2>1. j \in DOMAIN rs
    BY <1>3, <1>6
  <2>2. Renewed(rs, a)[j] = Renew(rs[j], a)
    BY <2>1 DEF Renewed
  <2>3. rs[j] = Renew(rs[j], a)
    <3>1. rs = Renewed(rs, a)
      BY <1>12
    <3> HIDE DEF rs
    <3> QED BY <2>2, <3>1
  <2> DEFINE x == rs[j]
             v == a[x.ttlOffset]
  <2>4. Renew(x, a).ttl = v
    BY DEF Renew
  <2> QED BY <2>3, <2>4
<1> QED BY <1>3, <1>6, <1>9, <1>11, <1>13 DEF r

\* The lifetime that a record is given to a client with.
KeptTtl(age, rr) ==
    IF rr.rtype = TYPE_OPT THEN rr.ttl
    ELSE IF age = -1 THEN STALE_TTL
    ELSE Max({0, rr.ttl - age})

\* A reply made of a kept message that is some age.
Replayed(m, d, reply, age) ==
    /\ m.body \in Seq(Nat) /\ ParseQuestions(m).ok /\ ParseQuestions(m).end \in Nat \ {0}
    /\ m.an \in Nat /\ m.ns \in Nat /\ m.ar \in Nat
    /\ IterRecords(m).ok /\ Apart(m)
    /\ AgedFor(m, d, age) /\ age \in Nat \cup {-1}
    /\ reply.body \in Seq(Nat) /\ Len(reply.body) = Len(m.body)
    /\ \A i \in 1..ParseQuestions(m).end - 1 :
        i \in 1..Len(m.body) => Lower(reply.body[i]) = Lower(m.body[i])
    /\ \A i \in ParseQuestions(m).end..Len(m.body) : reply.body[i] = d.body[i]
    /\ ParseQuestions(reply).ok /\ ParseQuestions(reply).end = ParseQuestions(m).end
    /\ reply.an = m.an /\ reply.ns = m.ns /\ reply.ar = m.ar

\* The records of a message.
Total(m) == m.an + m.ns + m.ar

\* The records of an answer in the cache, and the cells of their lifetimes.
LEMMA KeptRecords ==
    ASSUME NEW m, m.body \in Seq(Nat), ParseQuestions(m).ok, ParseQuestions(m).end \in Nat \ {0},
           m.an \in Nat, m.ns \in Nat, m.ar \in Nat, IterRecords(m).ok, Apart(m)
    PROVE  LET rs == IterRecords(m).records
               o == ParseQuestions(m).end
               n == Total(m)
           IN  /\ n \in Nat /\ IterRecords(m) = RecordsFrom(m.body, o)[n]
               /\ RecTrails(m.body, o, n) \cap (LifetimeCells(m) \cup {0}) = {}
               /\ rs \in Seq(Rr) /\ Len(rs) = n
               /\ \A j \in 1..n : /\ rs[j].ttlOffset \in o..Len(m.body)
                                  /\ rs[j].ttl = m.body[rs[j].ttlOffset]
               /\ \A j, k \in 1..n : rs[j].ttlOffset = rs[k].ttlOffset => j = k
               /\ LifetimeCells(m) = {rs[j].ttlOffset : j \in 1..n}
<1> DEFINE rs == IterRecords(m).records
           o == ParseQuestions(m).end
           n == Total(m)
<1>1. n \in Nat
  BY DEF Total
<1>2. IterRecords(m) = RecordsFrom(m.body, o)[n]
  BY DEF IterRecords, Total
<1>3. RecordTrails(m) = RecTrails(m.body, o, n)
  BY RecordTrailsAre DEF Total
<1>4. RecordTrails(m) \cap (LifetimeCells(m) \cup {0}) = {}
  BY DEF Apart
<1>5. o \in Nat /\ RecordsFrom(m.body, o)[n].ok /\ 0 \notin RecTrails(m.body, o, n)
  BY <1>2, <1>3, <1>4
<1> HIDE DEF o, n
<1>6. LET x == RecordsFrom(m.body, o)[n].records
      IN  /\ x \in Seq(Rr) /\ Len(x) = n
          /\ \A j \in 1..n : /\ x[j].ttlOffset \in o..Len(m.body)
                             /\ x[j].ttl = m.body[x[j].ttlOffset]
          /\ \A j, k \in 1..n : x[j].ttlOffset = x[k].ttlOffset => j = k
  BY <1>1, <1>5, LifetimesIn
<1>7. /\ rs \in Seq(Rr) /\ Len(rs) = n
      /\ \A j \in 1..n : /\ rs[j].ttlOffset \in o..Len(m.body)
                         /\ rs[j].ttl = m.body[rs[j].ttlOffset]
      /\ \A j, k \in 1..n : rs[j].ttlOffset = rs[k].ttlOffset => j = k
  BY <1>2, <1>6
<1>8. LifetimeCells(m) = {rs[j].ttlOffset : j \in 1..n}
  <2>1. DOMAIN rs = 1..n
    BY <1>7
  <2>2. LifetimeCells(m) = {rr.ttlOffset : rr \in {rs[j] : j \in DOMAIN rs}}
    BY Zenon DEF LifetimeCells, Range
  <2> HIDE DEF rs
  <2> QED BY <2>1, <2>2
<1> QED BY <1>1, <1>2, <1>3, <1>4, <1>7, <1>8 DEF o, n

\* Two bodies that are alike except in some cells.
LEMMA ReplayAlike ==
    ASSUME NEW m, NEW d, NEW reply, NEW age, Replayed(m, d, reply, age)
    PROVE  /\ \A i : i # 0 /\ i \notin LifetimeCells(m) => Alike(m.body, reply.body, i)
           /\ \A i \in ParseQuestions(m).end..Len(m.body) :
                i \notin LifetimeCells(m) => reply.body[i] = m.body[i]
<1> DEFINE a == m.body
           b == reply.body
           o == ParseQuestions(m).end
           l == Len(a)
           rs == IterRecords(m).records
           n == Total(m)
<1>1. /\ a \in Seq(Nat) /\ b \in Seq(Nat) /\ Len(b) = l /\ l \in Nat /\ o \in Nat \ {0}
      /\ DOMAIN a = 1..l /\ DOMAIN b = 1..l
      /\ \A i \in 1..o - 1 : i \in 1..l => Lower(b[i]) = Lower(a[i])
      /\ \A i \in o..l : b[i] = d.body[i]
      /\ \A i \in 1..l : d.body[i] = IF Ages(m, i) THEN NewTtl(age, a[i]) ELSE a[i]
  <2>1. /\ a \in Seq(Nat) /\ b \in Seq(Nat) /\ Len(b) = l /\ o \in Nat \ {0}
        /\ \A i \in 1..o - 1 : i \in 1..l => Lower(b[i]) = Lower(a[i])
        /\ \A i \in o..l : b[i] = d.body[i]
        /\ AgedFor(m, d, age)
    BY Zenon DEF Replayed
  <2>2. \A i \in 1..l : d.body[i] = IF Ages(m, i) THEN NewTtl(age, a[i]) ELSE a[i]
    BY <2>1, Zenon DEF AgedFor
  <2>3. l \in Nat /\ DOMAIN a = 1..l
    BY <2>1, SeqDomain
  <2>4. DOMAIN b = 1..l
    BY <2>1, SeqDomain
  <2> QED BY <2>1, <2>2, <2>3, <2>4, Zenon
<1>2. rs \in Seq(Rr) /\ Len(rs) = n /\ LifetimeCells(m) = {rs[j].ttlOffset : j \in 1..n}
  BY KeptRecords DEF Replayed
<1>3. \A i : i \notin LifetimeCells(m) => ~Ages(m, i)
  <2>1. DOMAIN rs = 1..n
    BY <1>2
  <2> QED BY <1>2, <2>1 DEF Ages
<1> HIDE DEF a, b, o, l
<1>4. \A i \in o..l : i \notin LifetimeCells(m) => b[i] = a[i]
  <2> TAKE i \in o..l
  <2>1. i \in 1..l
    BY <1>1
  <2> QED BY <1>1, <1>3, <2>1
<1>5. ASSUME NEW i, i # 0, i \notin LifetimeCells(m)
      PROVE  Alike(a, b, i)
  <2>1. i \in DOMAIN a <=> i \in DOMAIN b
    BY <1>1
  <2>2. ASSUME i \in DOMAIN a
        PROVE  Lower(a[i]) = Lower(b[i])
    <3>1. i \in 1..l
      BY <1>1, <2>2
    <3>2. i \in 1..o - 1 \/ i \in o..l
      BY <1>1, <3>1
    <3>3. CASE i \in o..l
      BY <1>4, <1>5, <3>3
    <3>4. CASE i \in 1..o - 1
      BY <1>1, <3>1, <3>4
    <3> QED BY <3>2, <3>3, <3>4
  <2> QED BY <1>5, <2>1, <2>2 DEF Alike
<1> QED BY <1>4, <1>5 DEF a, b, o, l

\* The records of a reply are the kept ones.
LEMMA ReplayReads ==
    ASSUME NEW m, NEW d, NEW reply, NEW age, Replayed(m, d, reply, age)
    PROVE  /\ IterRecords(reply).ok
           /\ IterRecords(reply).records = Renewed(IterRecords(m).records, reply.body)
<1> DEFINE a == m.body
           b == reply.body
           o == ParseQuestions(m).end
           rs == IterRecords(m).records
           n == Total(m)
<1>1. /\ a \in Seq(Nat) /\ b \in Seq(Nat) /\ Len(b) = Len(a) /\ o \in Nat /\ IterRecords(m).ok
  BY DEF Replayed
<1>2. /\ n \in Nat /\ IterRecords(m) = RecordsFrom(a, o)[n]
      /\ RecTrails(a, o, n) \cap (LifetimeCells(m) \cup {0}) = {}
      /\ LifetimeCells(m) = {rs[j].ttlOffset : j \in 1..n}
  BY KeptRecords DEF Replayed
<1>3. /\ \A i : i # 0 /\ i \notin LifetimeCells(m) => Alike(a, b, i)
      /\ \A i \in o..Len(a) : i \notin LifetimeCells(m) => b[i] = a[i]
  BY ReplayAlike
<1>4. IterRecords(reply) = RecordsFrom(b, o)[n]
  BY DEF IterRecords, Replayed, Total
<1> HIDE DEF a, b, o, n
<1>5. AlikeOn(a, b, RecTrails(a, o, n))
  BY <1>2, <1>3 DEF AlikeOn
<1>6. OtherLifetimes(a, b, o, n)
  BY <1>2, <1>3 DEF OtherLifetimes
<1>7. RecordsFrom(a, o)[n].ok /\ n \in 0..n
  BY <1>1, <1>2
<1>8. RecordsFrom(b, o)[n] =
        [ok |-> TRUE, end |-> RecordsFrom(a, o)[n].end, records |-> Renewed(RecordsFrom(a, o)[n].records, b)]
  BY <1>1, <1>2, <1>5, <1>6, <1>7, RecordsSame
<1> DEFINE x == Renewed(rs, b)
           y == IterRecords(m).end
<1>9. IterRecords(reply) = [ok |-> TRUE, end |-> y, records |-> x]
  BY <1>2, <1>4, <1>8
<1> HIDE DEF x, y
<1>10. IterRecords(reply).ok = TRUE /\ IterRecords(reply).records = x
  BY <1>9
<1> QED BY <1>10 DEF x, b

\* A renewed record is the kept one but for its lifetime.
LEMMA ReplayRenews ==
    ASSUME NEW m, NEW d, NEW reply, NEW age, Replayed(m, d, reply, age),
           NEW j \in DOMAIN IterRecords(m).records
    PROVE  LET rr == IterRecords(m).records[j]
           IN  Renew(rr, reply.body) = [rr EXCEPT !.ttl = KeptTtl(age, rr)]
<1> DEFINE a == m.body
           b == reply.body
           o == ParseQuestions(m).end
           rs == IterRecords(m).records
           n == Total(m)
           rr == rs[j]
           off == rr.ttlOffset
<1>1. /\ n \in Nat /\ rs \in Seq(Rr) /\ Len(rs) = n
      /\ \A i \in 1..n : rs[i].ttlOffset \in o..Len(a) /\ rs[i].ttl = a[rs[i].ttlOffset]
      /\ \A i, k \in 1..n : rs[i].ttlOffset = rs[k].ttlOffset => i = k
  BY KeptRecords DEF Replayed
<1>2. /\ a \in Seq(Nat) /\ o \in Nat \ {0} /\ age \in Nat \cup {-1}
      /\ \A i \in o..Len(a) : b[i] = d.body[i]
      /\ \A i \in 1..Len(a) : d.body[i] = IF Ages(m, i) THEN NewTtl(age, a[i]) ELSE a[i]
  BY DEF Replayed, AgedFor
<1>3. j \in 1..n /\ DOMAIN rs = 1..n
  BY <1>1
<1>4. rr \in Rr
  BY <1>1, <1>3
<1>5. off \in o..Len(a) /\ rr.ttl = a[off]
  BY <1>1, <1>3
<1>6. Ages(m, off) <=> rr.rtype # TYPE_OPT
  <2>1. ASSUME rr.rtype # TYPE_OPT PROVE Ages(m, off)
    BY <1>3, <2>1 DEF Ages
  <2>2. ASSUME NEW k \in 1..n, rs[k].ttlOffset = off, rs[k].rtype # TYPE_OPT
        PROVE  rr.rtype # TYPE_OPT
    <3>1. k = j
      BY <1>1, <1>3, <2>2
    <3> QED BY <2>2, <3>1
  <2> QED BY <1>3, <2>1, <2>2 DEF Ages
<1> HIDE DEF rs, a, b, o, n
<1>7. b[off] = IF rr.rtype # TYPE_OPT THEN NewTtl(age, rr.ttl) ELSE rr.ttl
  <2>1. off \in 1..Len(a)
    <3>1. Len(a) \in Nat
      BY <1>2
    <3> QED BY <1>2, <1>5, <3>1
  <2> QED BY <1>2, <1>5, <1>6, <2>1
<1>8. b[off] = KeptTtl(age, rr)
  <2>1. rr.ttl \in Nat
    BY <1>4 DEF Rr
  <2>2. CASE rr.rtype = TYPE_OPT
    BY <1>7, <2>2 DEF KeptTtl
  <2>3. CASE rr.rtype # TYPE_OPT /\ age = -1
    BY <1>7, <2>3 DEF KeptTtl, NewTtl
  <2>4. CASE rr.rtype # TYPE_OPT /\ age # -1
    <3> DEFINE t == rr.ttl
               x == t - age
    <3>1. age \in Nat /\ t \in Nat /\ x \in Int
      BY <1>2, <2>1, <2>4
    <3>2. NewTtl(age, t) = IF t > age THEN x ELSE 0
      BY <2>4 DEF NewTtl
    <3>3. Max({0, x}) = IF 0 >= x THEN 0 ELSE x
      <4> HIDE DEF x
      <4> QED BY <3>1, MaxOfTwo
    <3>4. t > age <=> ~(0 >= x)
      BY <3>1
    <3>5. KeptTtl(age, rr) = Max({0, x})
      BY <2>4 DEF KeptTtl
    <3>6. b[off] = NewTtl(age, t)
      BY <1>7, <2>4
    <3> HIDE DEF x, t
    <3> QED BY <3>2, <3>3, <3>4, <3>5, <3>6
  <2> QED BY <2>2, <2>3, <2>4
<1>9. rr = [name |-> rr.name, rtype |-> rr.rtype, rclass |-> rr.rclass, ttl |-> rr.ttl,
            rdata |-> rr.rdata, ttlOffset |-> rr.ttlOffset]
  BY <1>4 DEF Rr
<1> DEFINE t == KeptTtl(age, rr)
<1>10. Renew(rr, b) = [name |-> rr.name, rtype |-> rr.rtype, rclass |-> rr.rclass, ttl |-> t,
                       rdata |-> rr.rdata, ttlOffset |-> rr.ttlOffset]
  BY <1>8 DEF Renew
<1> HIDE DEF rr, t
<1>11. [rr EXCEPT !.ttl = t] = [name |-> rr.name, rtype |-> rr.rtype, rclass |-> rr.rclass, ttl |-> t,
                               rdata |-> rr.rdata, ttlOffset |-> rr.ttlOffset]
  <2> DEFINE f1 == rr.name
             f2 == rr.rtype
             f3 == rr.rclass
             f4 == rr.ttl
             f5 == rr.rdata
             f6 == rr.ttlOffset
  <2>1. rr = [name |-> f1, rtype |-> f2, rclass |-> f3, ttl |-> f4, rdata |-> f5, ttlOffset |-> f6]
    BY <1>9
  <2> HIDE DEF f1, f2, f3, f4, f5, f6
  <2>2. [rr EXCEPT !.ttl = t] = [name |-> f1, rtype |-> f2, rclass |-> f3, ttl |-> t, rdata |-> f5, ttlOffset |-> f6]
    BY <2>1
  <2> QED BY <2>2 DEF f1, f2, f3, f5, f6
<1> QED BY <1>10, <1>11 DEF rr, t, rs, b

\* The answers of a reply are the kept ones, renewed.
LEMMA ReplayAnswers ==
    ASSUME NEW m, NEW d, NEW reply, NEW age, Replayed(m, d, reply, age)
    PROVE  /\ DOMAIN Answers(m).records = 1..m.an
           /\ DOMAIN Answers(reply).records = 1..m.an
           /\ \A i \in 1..m.an :
                /\ i \in DOMAIN IterRecords(m).records
                /\ Answers(m).records[i] = IterRecords(m).records[i]
                /\ Answers(reply).records[i] = Renew(IterRecords(m).records[i], reply.body)
<1> DEFINE rs == IterRecords(m).records
           new == IterRecords(reply).records
           b == reply.body
           n == Total(m)
           k == m.an
<1>1. n \in Nat /\ rs \in Seq(Rr) /\ Len(rs) = n
  BY KeptRecords DEF Replayed
<1>2. k \in Nat /\ k <= n /\ reply.an = k
  BY DEF Replayed, Total
<1>3. IterRecords(reply).ok /\ new = Renewed(rs, b)
  BY ReplayReads
<1>4. IterRecords(m).ok
  BY DEF Replayed
<1>5. Answers(m).records = SubSeq(rs, 1, k) /\ Answers(reply).records = SubSeq(new, 1, k)
  BY <1>2, <1>3, <1>4 DEF Answers
<1> HIDE DEF rs, new, b, n
<1>6. DOMAIN rs = 1..n /\ \A i \in 1..k : i \in 1..n
  BY <1>1, <1>2
<1>7. \A i \in 1..k : new[i] = Renew(rs[i], b)
  BY <1>3, <1>6 DEF Renewed
<1>8. \A s : DOMAIN SubSeq(s, 1, k) = 1..k /\ \A i \in 1..k : SubSeq(s, 1, k)[i] = s[i]
  <2> TAKE s
  <2>1. SubSeq(s, 1, k) = [i \in 1..1 + k - 1 |-> s[i + 1 - 1]]
    BY <1>2
  <2>2. 1..1 + k - 1 = 1..k /\ \A i \in 1..k : i + 1 - 1 = i
    BY <1>2
  <2> QED BY <2>1, <2>2
<1> QED BY <1>5, <1>6, <1>7, <1>8 DEF rs, new, b

\* The aliases among the answers, and the addresses.
Target(m, i) == ReadName(m.body, Answers(m).records[i].ttlOffset + 2)

\* The CNAME records among the answers that cname_chain() takes.
Aliases(m) ==
    {i \in DOMAIN Answers(m).records :
        /\ <<Answers(m).records[i].rtype, Answers(m).records[i].rclass>> = <<TYPE_CNAME, CLASS_IN>>
        /\ Target(m, i).ok /\ Target(m, i).name # <<>>}

\* The address records among the answers that answer_addresses() takes.
Addresses(m) ==
    {i \in DOMAIN Answers(m).records :
        /\ Answers(m).records[i].rclass = CLASS_IN
        /\ <<Answers(m).records[i].rtype, Len(Answers(m).records[i].rdata)>> \in {<<TYPE_A, 1>>, <<TYPE_AAAA, 2>>}}

\* cname_chain() gives the targets of the aliases, in their order.
LEMMA ChainIs ==
    ASSUME NEW m
    PROVE  CnameChain(m) = InOrder([i \in Aliases(m) |-> Target(m, i).name])
<1> DEFINE answers == Answers(m).records
           target == [i \in DOMAIN answers |-> ReadName(m.body, answers[i].ttlOffset + 2)]
           good == {i \in DOMAIN answers : /\ <<answers[i].rtype, answers[i].rclass>> = <<TYPE_CNAME, CLASS_IN>>
                                           /\ target[i].ok /\ target[i].name # <<>>}
           f == [i \in good |-> target[i].name]
           g == [i \in Aliases(m) |-> Target(m, i).name]
<1>1. CnameChain(m) = InOrder(f)
  BY DEF CnameChain
<1>2. \A i \in DOMAIN answers : target[i] = Target(m, i)
  BY DEF Target
<1>3. good = Aliases(m)
  <2> HIDE DEF target
  <2> QED BY <1>2 DEF Aliases
<1>4. \A i \in good : i \in DOMAIN answers
  OBVIOUS
<1> HIDE DEF good, target, answers
<1>5. f = g
  BY <1>2, <1>3, <1>4
<1> HIDE DEF f, g
<1>6. InOrder(f) = InOrder(g)
  BY <1>5
<1> QED BY <1>1, <1>6 DEF g

\* answer_addresses() gives the data of the address records, in their order.
LEMMA AddressesAre ==
    ASSUME NEW m
    PROVE  AnswerAddresses(m) = InOrder([i \in Addresses(m) |-> Answers(m).records[i].rdata])
BY DEF AnswerAddresses, Addresses

\* The chain and the addresses of a reply are the kept ones.
LEMMA ReplayJudged ==
    ASSUME NEW m, NEW d, NEW reply, NEW age, Replayed(m, d, reply, age)
    PROVE  /\ CnameChain(reply) = CnameChain(m)
           /\ AnswerAddresses(reply) = AnswerAddresses(m)
<1> DEFINE old == Answers(m).records
           new == Answers(reply).records
           a == m.body
           b == reply.body
           k == m.an
<1>1. /\ DOMAIN old = 1..k /\ DOMAIN new = 1..k
      /\ \A i \in 1..k : i \in DOMAIN IterRecords(m).records /\ old[i] = IterRecords(m).records[i]
                         /\ new[i] = Renew(IterRecords(m).records[i], b)
  BY ReplayAnswers
<1>2. \A i \in 1..k : new[i] = Renew(old[i], b)
  BY <1>1
<1>3. \A i \in 1..k : /\ new[i].rtype = old[i].rtype /\ new[i].rclass = old[i].rclass
                      /\ new[i].rdata = old[i].rdata /\ new[i].ttlOffset = old[i].ttlOffset
  <2>1. \A rr : /\ Renew(rr, b).rtype = rr.rtype /\ Renew(rr, b).rclass = rr.rclass
                /\ Renew(rr, b).rdata = rr.rdata /\ Renew(rr, b).ttlOffset = rr.ttlOffset
    BY DEF Renew
  <2> HIDE DEF old, new
  <2> QED BY <1>2, <2>1
<1> HIDE DEF a, b, k
<1>4. ASSUME NEW i \in 1..k, old[i].rtype = TYPE_CNAME
      PROVE  Target(reply, i) = Target(m, i)
  <2> DEFINE off == old[i].ttlOffset + 2
  <2>1. old[i] \in Range(IterRecords(m).records)
    BY <1>1 DEF Range
  <2>2. Trail(m.body, off) \cap (LifetimeCells(m) \cup {0}) = {}
    BY <1>4, <2>1 DEF Replayed, Apart
  <2>3. m.body \in Seq(Nat) /\ reply.body \in Seq(Nat) /\ off \in Nat
    <3>1. IterRecords(m).records \in Seq(Rr)
      BY KeptRecords DEF Replayed
    <3>2. old[i] \in Rr
      BY <1>1, <3>1
    <3>3. old[i].ttlOffset \in Nat
      <4> DEFINE rr == old[i]
      <4>1. rr \in Rr
        BY <3>2
      <4> HIDE DEF rr
      <4>2. rr.ttlOffset \in Nat
        BY <4>1 DEF Rr
      <4> QED BY <4>2 DEF rr
    <3>4. m.body \in Seq(Nat) /\ reply.body \in Seq(Nat)
      BY DEF Replayed
    <3> HIDE DEF old
    <3> QED BY <3>3, <3>4
  <2>4. \A j : j # 0 /\ j \notin LifetimeCells(m) => Alike(m.body, reply.body, j)
    BY ReplayAlike
  <2> HIDE DEF off
  <2>5. \A j \in Trail(m.body, off) : Alike(m.body, reply.body, j)
    BY <2>2, <2>4
  <2>6. ReadName(reply.body, off) = ReadName(m.body, off)
    BY <2>3, <2>5, ReadNameSame
  <2>7. new[i].ttlOffset + 2 = off
    BY <1>3 DEF off
  <2>8. Target(m, i) = ReadName(m.body, off) /\ Target(reply, i) = ReadName(reply.body, off)
    BY <2>7 DEF Target, off
  <2> QED BY <2>6, <2>8
<1>5. Aliases(reply) = Aliases(m)
  <2>1. \A i \in 1..k : i \in Aliases(reply) <=> i \in Aliases(m)
    <3> TAKE i \in 1..k
    <3>1. CASE old[i].rtype = TYPE_CNAME
      <4>1. Target(reply, i) = Target(m, i)
        BY <1>4, <3>1
      <4> QED BY <1>1, <1>3, <4>1 DEF Aliases
    <3>2. CASE old[i].rtype # TYPE_CNAME
      BY <1>1, <1>3, <3>2 DEF Aliases
    <3> QED BY <3>1, <3>2
  <2>2. Aliases(reply) \subseteq 1..k /\ Aliases(m) \subseteq 1..k
    BY <1>1 DEF Aliases
  <2> QED BY <2>1, <2>2
<1>6. \A i \in Aliases(m) : Target(reply, i) = Target(m, i)
  <2>1. \A i \in Aliases(m) : i \in 1..k /\ old[i].rtype = TYPE_CNAME
    BY <1>1 DEF Aliases
  <2> QED BY <1>4, <2>1
<1>7. CnameChain(reply) = CnameChain(m)
  <2> DEFINE f == [i \in Aliases(m) |-> Target(m, i).name]
             g == [i \in Aliases(reply) |-> Target(reply, i).name]
  <2>1. g = f
    BY <1>5, <1>6
  <2>2. CnameChain(m) = InOrder(f) /\ CnameChain(reply) = InOrder(g)
    BY ChainIs
  <2> HIDE DEF f, g
  <2> QED BY <2>1, <2>2
<1>8. Addresses(reply) = Addresses(m) /\ Addresses(m) \subseteq 1..k
  <2>1. Addresses(reply) \subseteq 1..k /\ Addresses(m) \subseteq 1..k
    BY <1>1 DEF Addresses
  <2>2. \A i \in 1..k : i \in Addresses(reply) <=> i \in Addresses(m)
    BY <1>1, <1>3 DEF Addresses
  <2> QED BY <2>1, <2>2
<1>9. AnswerAddresses(reply) = AnswerAddresses(m)
  <2> DEFINE f == [i \in Addresses(m) |-> old[i].rdata]
             g == [i \in Addresses(reply) |-> new[i].rdata]
  <2>1. g = f
    <3> HIDE DEF old, new
    <3> QED BY <1>3, <1>8
  <2>2. AnswerAddresses(m) = InOrder(f) /\ AnswerAddresses(reply) = InOrder(g)
    BY AddressesAre
  <2> HIDE DEF f, g
  <2> QED BY <2>1, <2>2
<1> QED BY <1>7, <1>9

-------------------------------------------------------------------------------
(* The invariant *)

\* What is made here is its query's, and can be read.
Good(m, q) == Fits(m, q) /\ IterRecords(m).ok

\* build_error_response() makes a good reply.
LEMMA ErrorReply ==
    ASSUME NEW q \in ClientQueries, Ordinary(q), ParseQuestions(q).ok, NEW rcode
    PROVE  Good(BuildErrorResponse(q, rcode).message, q)
<1> DEFINE m == Synthesised(q, rcode, 0, <<>>).message
<1>1. <<>> \in Seq(Nat)
  OBVIOUS
<1>2. Between(q, 0, <<>>)
  BY DEF Between
<1>3. Fits(m, q)
  BY <1>1, SynthesisedFits
<1>4. IterRecords(m).ok
  BY <1>2, SynthesisedReads
<1> HIDE DEF m
<1>5. BuildErrorResponse(q, rcode).message = m
  BY DEF BuildErrorResponse, m
<1> QED BY <1>3, <1>4, <1>5 DEF Good

\* build_address_response() makes a good reply.
LEMMA AddressReply ==
    ASSUME NEW q \in ClientQueries, Ordinary(q), ParseQuestions(q).ok, q.qd > 0,
           NEW qtype \in Nat, NEW address \in Seq(Nat)
    PROVE  Good(BuildAddressResponse(q, qtype, address, 60).message, q)
<1>1. CASE address = <<>>
  <2> DEFINE m == Synthesised(q, NOERROR, 0, <<>>).message
  <2>1. <<>> \in Seq(Nat)
    OBVIOUS
  <2>2. Between(q, 0, <<>>)
    BY DEF Between
  <2>3. Fits(m, q)
    BY <2>1, SynthesisedFits
  <2>4. IterRecords(m).ok
    BY <2>2, SynthesisedReads
  <2> HIDE DEF m
  <2>5. BuildAddressResponse(q, qtype, address, 60).message = m
    BY <1>1 DEF BuildAddressResponse, m
  <2> QED BY <2>3, <2>4, <2>5 DEF Good
<1>2. CASE address # <<>>
  <2> DEFINE records == <<Pointer(1), qtype, CLASS_IN, 60, Len(address)>> \o address
             m == Synthesised(q, NOERROR, 1, records).message
  <2>1. BuildAddressResponse(q, qtype, address, 60).message = m
    BY <1>2 DEF BuildAddressResponse
  <2>2. Between(q, 1, records)
    <3>1. 60 \in Nat
      OBVIOUS
    <3>2. \E t \in Nat, ttl \in Nat, x \in Seq(Nat) :
            records = <<Pointer(1), t, CLASS_IN, ttl, Len(x)>> \o x
      BY Zenon, <3>1
    <3> HIDE DEF records
    <3> QED BY Zenon, <3>2 DEF Between
  <2> HIDE DEF records
  <2>3. records \in Seq(Nat)
    BY <2>2, BetweenTyped
  <2>4. Fits(m, q)
    BY <2>3, SynthesisedFits
  <2>5. IterRecords(m).ok
    BY <2>2, SynthesisedReads
  <2> QED BY <2>1, <2>4, <2>5 DEF Good
<1> QED BY <1>1, <1>2

\* The upstream's part of the way.
Proceeds(q) == q \in ClientQueries /\ ParseQuestions(q).ok /\ q.qd > 0

\* A question is on its way upstream, in one of its spellings.
Asking(w) ==
    /\ Proceeds(w.query) /\ w.question = AskedFor(w.query)
    /\ w.name \in Spellings(w.question.name) \cup {w.question.name}
    /\ w.sent.id = 0 /\ QuestionCells(w.sent) \in Seq(Nat)
    /\ Len(QuestionCells(w.sent)) = Section(w.question.name)
    /\ \A i \in 1..Section(w.question.name) : w.sent.body[i] = QuestionCells(w.sent)[i]
    /\ \A i \in 1..Section(w.question.name) - 2 : QuestionCells(w.sent)[i] = EncodeName(w.name).cells[i]

\* The question as an upstream may give it back.
Echoes(w) == {QuestionCells(w.sent), [i \in DOMAIN QuestionCells(w.sent) |-> Lower(w.sent.body[i])]}

\* An upstream has answered it.
Answered(w) ==
    /\ Asking(w)
    /\ \E section \in Sections(Section(w.question.name)), cells \in Echoes(w) :
        w.response = [id |-> w.response.id, flags |-> {"QR", "RD", "RA"}, opcode |-> 0, rcode |-> 0, qd |-> 1,
                      an |-> section.an, ns |-> 0, ar |-> section.ar, body |-> cells \o section.cells]

\* Its answer is in the cache.
Stored(w) ==
    /\ Proceeds(w.query)
    /\ \E section \in Sections(Section(AskedFor(w.query).name)) : w.kept = KeptAnswer(AskedFor(w.query), section)

\* Every stage of an answer: the inductive invariant.
Intact ==
    \/ wire = [stage |-> "asked", query |-> wire.query] /\ wire.query \in ClientQueries
    \/ wire.stage = "ignored"
    \/ wire.stage = "sent" /\ Asking(wire)
    \/ wire.stage = "answered" /\ Answered(wire)
    \/ wire.stage = "stored" /\ Stored(wire)
    \/ Replied /\ Fits(wire.reply, wire.query) /\ RecordsKept

\* An answer that is accepted is kept under its question.
LEMMA AcceptedIs ==
    ASSUME NEW w, Answered(w), Ordinary(w.query), Orderly(w.query),
           Valid(w.response, w.sent, w.name, w.question, w.strict)
    PROVE  \E section \in Sections(Section(AskedFor(w.query).name)) :
                RewriteQuestionName(w.response, w.question.name) = KeptAnswer(AskedFor(w.query), section)
<1> DEFINE q == w.query
           Q == AskedFor(q)
           X == w.name
           z == Len(EncodeName(Q.name).cells)
           response == w.response
<1>1. Proceeds(q) /\ w.question = Q /\ Asking(w)
  BY DEF Answered, Asking
<1>2. Q \in Question /\ Encodable(Q.name) /\ Lowered(Q.name) = Q.name /\ z \in Nat
  BY <1>1, AskedIs DEF Proceeds
<1>3. X \in Spellings(Q.name) \cup {Q.name}
  BY <1>1 DEF Asking
<1> DEFINE S == QuestionCells(w.sent)
<1>4. /\ w.sent.id = 0 /\ S \in Seq(Nat) /\ Len(S) = z + 2
      /\ \A i \in 1..z + 2 : w.sent.body[i] = S[i]
      /\ \A i \in 1..z : S[i] = EncodeName(X).cells[i]
  <2>1. Section(Q.name) = z + 2 /\ Section(Q.name) - 2 = z
    BY <1>2 DEF Section
  <2> HIDE DEF z, S
  <2> QED BY <1>1, <2>1 DEF Asking, S
<1>5. PICK section \in Sections(Section(Q.name)), cells \in Echoes(w) :
        response = [id |-> response.id, flags |-> {"QR", "RD", "RA"}, opcode |-> 0, rcode |-> 0, qd |-> 1,
                    an |-> section.an, ns |-> 0, ar |-> section.ar, body |-> cells \o section.cells]
  BY <1>1 DEF Answered
<1> HIDE DEF q, Q, X, z, response, S
<1>6. Encodable(X) /\ Len(EncodeName(X).cells) = z
  BY <1>2, <1>3, SpelledOut DEF z
<1>7. Spelled(cells, X)
  <2>1. DOMAIN S = 1..z + 2
    BY <1>4
  <2>2. [i \in DOMAIN S |-> Lower(w.sent.body[i])] = [i \in DOMAIN S |-> Lower(S[i])]
    BY <1>4, <2>1
  <2>3. cells \in {S, [i \in DOMAIN S |-> Lower(S[i])]}
    <3>1. cells \in {S, [i \in DOMAIN S |-> Lower(w.sent.body[i])]}
      BY Zenon, <1>5 DEF Echoes, S
    <3> QED BY <2>2, <3>1
  <2> QED BY <1>4, <1>6, <2>3, Echoed
<1>8. section.an \in Nat /\ section.ar \in Nat /\ section.cells \in Seq(Nat)
  <2>1. ParseQuestions(q).ok /\ q.qd > 0
    BY <1>1 DEF Proceeds
  <2> QED BY <1>5, <2>1 DEF Orderly, Section, q, Q
<1>9. response.id = 0 /\ ParseQuestions(response).questions[1] = Q
  BY <1>1, <1>4 DEF Valid, response
<1> DEFINE v == cells \o section.cells
           f == {"QR", "RD", "RA"}
<1>10. response = [id |-> 0, flags |-> f, opcode |-> 0, rcode |-> 0, qd |-> 1,
                   an |-> section.an, ns |-> 0, ar |-> section.ar, body |-> v]
  BY <1>5, <1>9
<1> HIDE DEF v, f
<1>11. /\ response.id = 0 /\ response.flags = f /\ response.opcode = 0 /\ response.rcode = 0 /\ response.qd = 1
       /\ response.an = section.an /\ response.ns = 0 /\ response.ar = section.ar /\ response.body = v
  BY <1>10
<1>12. MessageForm(response)
  BY <1>10, <1>11 DEF MessageForm
<1>13. Len(EncodeName(X).cells) = Len(EncodeName(Q.name).cells) /\ response.body = cells \o section.cells
  BY <1>6, <1>11 DEF z, v
<1>14. RewriteQuestionName(response, Q.name) = Unspelled(response, Q, section.cells)
  <2> DEFINE d == section.cells
  <2>1. d \in Seq(Nat) /\ response.body = cells \o d
    BY <1>8, <1>13
  <2> HIDE DEF d
  <2>2. RewriteQuestionName(response, Q.name) = Unspelled(response, Q, d)
    BY <1>2, <1>6, <1>7, <1>9, <1>11, <1>12, <1>13, <2>1, Rewritten
  <2> QED BY <2>2 DEF d
<1>15. RewriteQuestionName(response, Q.name) = KeptAnswer(Q, section)
  <2> DEFINE b == EncodeName(Q.name).cells \o <<Q.qtype, Q.qclass>> \o section.cells
  <2>1. KeptAnswer(Q, section) =
             [id |-> 0, flags |-> f, opcode |-> 0, rcode |-> 0, qd |-> 1, an |-> section.an, ns |-> 0,
              ar |-> section.ar, body |-> b]
    BY DEF KeptAnswer, f
  <2>2. Unspelled(response, Q, section.cells) =
             [id |-> response.id, flags |-> response.flags, opcode |-> response.opcode,
              rcode |-> response.rcode, qd |-> response.qd, an |-> response.an, ns |-> response.ns,
              ar |-> response.ar, body |-> b]
    BY DEF Unspelled
  <2> HIDE DEF b
  <2> QED BY <1>11, <1>14, <2>1, <2>2
<1> QED BY <1>1, <1>5, <1>15 DEF Q, q, response

\* A body asks what another asks when it begins with the same cells.
LEMMA AsksToo ==
    ASSUME NEW Q, Plain(Q), NEW a, Asks(a, Q), NEW b \in Seq(Nat), Len(b) = Len(a),
           \A i \in 1..Section(Q.name) : b[i] = a[i]
    PROVE  Asks(b, Q)
<1> DEFINE z == Len(EncodeName(Q.name).cells)
<1>1. z \in Nat /\ Section(Q.name) = z + 2 /\ EncodeName(Q.name).cells \in Seq(Nat)
  BY EncodeTyped DEF Plain, Section
<1>2. /\ a \in Seq(Nat) /\ Written(a, Q.name) /\ z + 2 <= Len(a)
      /\ a[z + 1] = Q.qtype /\ a[z + 2] = Q.qclass
  BY <1>1 DEF Asks
<1>3. z + 1 \in 1..z + 2 /\ z + 2 \in 1..z + 2 /\ \A i \in 1..z : i \in 1..z + 2
  BY <1>1
<1>4. DOMAIN EncodeName(Q.name).cells = 1..z /\ DOMAIN a = 1..Len(a) /\ DOMAIN b = 1..Len(a)
  BY <1>1, <1>2
<1> HIDE DEF z
<1>5. b[z + 1] = Q.qtype /\ b[z + 2] = Q.qclass
  BY <1>1, <1>2, <1>3
<1>6. Written(b, Q.name)
  <2>1. \A i \in 1..z : i \in DOMAIN a /\ Lower(a[i]) = Lower(EncodeName(Q.name).cells[i])
    BY <1>2, <1>4 DEF Written
  <2>2. \A i \in 1..z : b[i] = a[i]
    BY <1>1, <1>3
  <2> QED BY <1>4, <2>1, <2>2 DEF Written
<1> QED BY <1>1, <1>2, <1>5, <1>6 DEF Asks, z

\* What a reply from the cache owes to what is kept.
Faithful(m, reply, age) ==
    IterRecords(m).ok =>
        /\ IterRecords(reply).ok
        /\ IterRecords(reply).records =
             [i \in DOMAIN IterRecords(m).records |->
                [IterRecords(m).records[i] EXCEPT !.ttl = KeptTtl(age, IterRecords(m).records[i])]]
        /\ CnameChain(reply) = CnameChain(m)
        /\ AnswerAddresses(reply) = AnswerAddresses(m)

\* An aged answer keeps its records, its aliases and its addresses.
LEMMA ReplayFaithful ==
    ASSUME NEW m, NEW d, NEW reply, NEW age, Replayed(m, d, reply, age)
    PROVE  Faithful(m, reply, age)
<1> DEFINE rs == IterRecords(m).records
           T(rr) == [rr EXCEPT !.ttl = KeptTtl(age, rr)]
<1>1. IterRecords(reply).ok /\ IterRecords(reply).records = Renewed(rs, reply.body)
  BY ReplayReads
<1>2. \A j \in DOMAIN rs : Renew(rs[j], reply.body) = T(rs[j])
  BY ReplayRenews
<1>3. Renewed(rs, reply.body) = [i \in DOMAIN rs |-> T(rs[i])]
  <2> HIDE DEF rs, T
  <2> QED BY <1>2 DEF Renewed
<1>4. CnameChain(reply) = CnameChain(m) /\ AnswerAddresses(reply) = AnswerAddresses(m)
  BY ReplayJudged
<1>5. IterRecords(reply).records = [i \in DOMAIN rs |-> T(rs[i])]
  <2> HIDE DEF T
  <2> QED BY <1>1, <1>3
<1> QED BY <1>1, <1>4, <1>5 DEF Faithful

\* What is served of an answer that is kept.
LEMMA ServedWell ==
    ASSUME NEW q \in ClientQueries, Ordinary(q), Orderly(q), ParseQuestions(q).ok, q.qd > 0,
           NEW section \in Sections(Section(AskedFor(q).name)), NEW m, m = KeptAnswer(AskedFor(q), section),
           NEW age \in Nat \cup {-1}, NEW d, AgedFor(m, d, age), d = m \/ IterRecords(m).ok
    PROVE  Fits(PrepareReply(d, q), q) /\ Faithful(m, PrepareReply(d, q), age)
<1> DEFINE Q == AskedFor(q)
           e == Section(Q.name) + 1
           reply == PrepareReply(d, q)
<1>1. Plain(Q) /\ Section(Q.name) \in Nat
  <2> DEFINE z == Len(EncodeName(Q.name).cells)
  <2>1. Plain(Q) /\ z \in Nat
    BY AskedIs DEF Plain
  <2>2. Section(Q.name) = z + 2
    BY DEF Section
  <2> HIDE DEF z
  <2> QED BY <2>1, <2>2
<1>2. section.an \in Nat /\ section.ar \in Nat /\ section.cells \in Seq(Nat) /\ Apart(m)
  BY DEF Orderly, Section
<1>3. /\ MessageForm(m) /\ m.qd = 1 /\ "QR" \in m.flags
      /\ m.an = section.an /\ m.ns = 0 /\ m.ar = section.ar
      /\ Asks(m.body, Q)
  BY <1>1, <1>2, KeptReads
<1> HIDE DEF Q
<1>4. ParseQuestions(m) = [ok |-> TRUE, end |-> e, questions |-> <<Q>>]
  <2> HIDE DEF e
  <2> QED BY <1>1, <1>3, PlainMessage DEF e
<1>5. ParseQuestions(m).ok /\ ParseQuestions(m).end = e /\ e \in Nat \ {0}
  BY <1>1, <1>4
<1>6. m.body \in Seq(Nat) /\ e - 1 <= Len(m.body) /\ Len(m.body) \in Nat
  <2>1. m.body \in Seq(Nat) /\ Section(Q.name) <= Len(m.body)
    BY <1>3 DEF Asks
  <2> QED BY <1>1, <2>1
<1>7. MessageForm(d) /\ d.qd = 1 /\ "QR" \in d.flags /\ d.an = m.an /\ d.ns = m.ns /\ d.ar = m.ar
      /\ d.body \in Seq(Nat) /\ Len(d.body) = Len(m.body)
      /\ \A i \in 1..Len(m.body) : ~Ages(m, i) => d.body[i] = m.body[i]
  BY <1>3 DEF AgedFor, SameHead
<1>8. \A i \in 1..e - 1 : d.body[i] = m.body[i]
  <2>1. CASE d = m
    BY <2>1
  <2>2. CASE IterRecords(m).ok
    <3> DEFINE rs == IterRecords(m).records
               n == Total(m)
    <3>1. /\ n \in Nat /\ rs \in Seq(Rr) /\ Len(rs) = n
          /\ \A j \in 1..n : rs[j].ttlOffset \in e..Len(m.body)
      BY <1>2, <1>3, <1>5, <1>6, <2>2, KeptRecords, SMTT(30)
    <3>2. DOMAIN rs = 1..n
      BY <3>1
    <3> HIDE DEF e
    <3>3. \A i \in 1..e - 1 : ~Ages(m, i) /\ i \in 1..Len(m.body)
      <4> TAKE i \in 1..e - 1
      <4>1. \A j \in 1..n : rs[j].ttlOffset # i
        BY <1>5, <3>1
      <4>2. i \in 1..Len(m.body)
        BY <1>5, <1>6
      <4> QED BY <3>2, <4>1, <4>2 DEF Ages
    <3> QED BY <1>7, <3>3
  <2> QED BY <2>1, <2>2
<1>9. Asks(d.body, Q)
  <2>1. \A i \in 1..Section(Q.name) : d.body[i] = m.body[i]
    <3>1. e - 1 = Section(Q.name)
      BY <1>1
    <3> QED BY <1>8, <3>1
  <2> QED BY <1>1, <1>3, <1>7, <2>1, AsksToo
<1>10. /\ Fits(reply, q) /\ Asks(reply.body, Q)
       /\ reply.qd = 1 /\ reply.an = d.an /\ reply.ns = d.ns /\ reply.ar = d.ar
       /\ Len(reply.body) = Len(d.body)
       /\ \A i \in e..Len(d.body) : reply.body[i] = d.body[i]
  BY <1>7, <1>9, Prepared DEF Q
<1> HIDE DEF reply
<1>11. ParseQuestions(reply) = [ok |-> TRUE, end |-> e, questions |-> <<Q>>]
  <2> HIDE DEF e
  <2> QED BY <1>1, <1>10, PlainMessage DEF e
<1>12. ASSUME IterRecords(m).ok
       PROVE  Faithful(m, reply, age)
  <2>1. reply.body \in Seq(Nat) /\ Written(reply.body, Q.name) /\ Written(m.body, Q.name)
        /\ reply.body[Len(EncodeName(Q.name).cells) + 1] = m.body[Len(EncodeName(Q.name).cells) + 1]
        /\ reply.body[Len(EncodeName(Q.name).cells) + 2] = m.body[Len(EncodeName(Q.name).cells) + 2]
    BY <1>3, <1>10 DEF Asks
  <2> DEFINE z == Len(EncodeName(Q.name).cells)
  <2>2. z \in Nat /\ e - 1 = z + 2 /\ DOMAIN EncodeName(Q.name).cells = 1..z
    <3>1. EncodeName(Q.name).cells \in Seq(Nat)
      BY <1>1, EncodeTyped DEF Plain
    <3> QED BY <3>1 DEF Section
  <2>3. \A i \in 1..z : Lower(reply.body[i]) = Lower(m.body[i])
    BY <2>1, <2>2 DEF Written
  <2> HIDE DEF z
  <2>4. \A i \in 1..e - 1 : Lower(reply.body[i]) = Lower(m.body[i])
    <3> TAKE i \in 1..e - 1
    <3>1. i \in 1..z \/ i = z + 1 \/ i = z + 2
      BY <2>2
    <3> QED BY <2>1, <2>3, <3>1 DEF z
  <2>5. ParseQuestions(reply).ok /\ ParseQuestions(reply).end = e
    BY <1>11
  <2> HIDE DEF e
  <2>6. Replayed(m, d, reply, age)
    BY <1>2, <1>3, <1>5, <1>6, <1>7, <1>10, <1>12, <2>1, <2>4, <2>5 DEF Replayed
  <2> QED BY <2>6, ReplayFaithful
<1>13. Faithful(m, reply, age)
  BY <1>12 DEF Faithful
<1> QED BY <1>10, <1>13 DEF reply

\* A reply that is made here.
LEMMA MadeHere ==
    ASSUME NEW message, Good(message, wire.query), Reply(message)
    PROVE  Intact'
<1>1. wire' = [stage |-> "replied", query |-> wire.query, reply |-> message]
  BY DEF Reply
<1>2. wire'.stage = "replied" /\ wire'.query = wire.query /\ wire'.reply = message
  BY <1>1
<1>3. "kept" \notin DOMAIN wire'
  BY <1>1
<1>4. Replied'
  BY <1>2 DEF Replied
<1>5. Fits(wire.reply, wire.query)'
  BY <1>2 DEF Good
<1>6. RecordsKept'
  BY <1>2, <1>3 DEF RecordsKept, Good
<1> QED BY <1>4, <1>5, <1>6 DEF Intact

\* A query that is read.
LEMMA Reads ==
    ASSUME Intact, wire.stage = "asked"
    PROVE  wire = [stage |-> "asked", query |-> wire.query] /\ wire.query \in ClientQueries
BY DEF Intact, Replied

\* A query that has just come.
LEMMA InitIntact ==
    ASSUME MessagesInit
    PROVE  Intact
<1>1. PICK query \in ClientQueries : wire = [stage |-> "asked", query |-> query]
  BY DEF MessagesInit
<1>2. wire.query = query
  BY <1>1
<1> QED BY <1>1, <1>2 DEF Intact

\* The invariant says what is wanted of a reply.
LEMMA IntactIs ==
    ASSUME Intact
    PROVE  AnswerIntact
<1>1. ASSUME Replied
      PROVE  Fits(wire.reply, wire.query) /\ RecordsKept
  <2>1. wire.stage = "replied" \/ wire.stage = "truncated"
    BY <1>1 DEF Replied
  <2>2. ~(wire = [stage |-> "asked", query |-> wire.query])
    BY <2>1
  <2> QED BY <2>1, <2>2 DEF Intact
<1>2. RepliesMatch
  BY <1>1 DEF RepliesMatch, Fits, Readably
<1>3. RecordsKept
  BY <1>1 DEF RecordsKept
<1> QED BY <1>2, <1>3 DEF AnswerIntact

\* No step of the engine, the resolver, the cache or the listener breaks it.
LEMMA NextIntact ==
    ASSUME \A query \in ClientQueries : Ordinary(query) /\ Orderly(query),
           Intact, [MessagesNext]_wire
    PROVE  Intact'
<1>1. ASSUME Ignore
      PROVE  Intact'
  <2>1. wire = [stage |-> "asked", query |-> wire.query]
    BY <1>1, Reads DEF Ignore
  <2>2. wire' = [wire EXCEPT !.stage = "ignored"]
    BY <1>1 DEF Ignore
  <2>3. wire'.stage = "ignored"
    BY <2>1, <2>2
  <2> QED BY <2>3 DEF Intact
<1>2. ASSUME Refuse
      PROVE  Intact'
  <2>1. wire.query \in ClientQueries /\ ParseQuestions(wire.query).ok /\ Ordinary(wire.query)
    BY <1>2, Reads DEF Refuse, Readable
  <2>2. PICK rcode : Reply(BuildErrorResponse(wire.query, rcode).message)
    BY <1>2 DEF Refuse
  <2>3. Good(BuildErrorResponse(wire.query, rcode).message, wire.query)
    BY <2>1, ErrorReply
  <2> QED BY <2>2, <2>3, MadeHere
<1>3. ASSUME AnswerHere
      PROVE  Intact'
  <2> DEFINE qtype == Head(ParseQuestions(wire.query).questions).qtype
             addresses == CASE qtype = TYPE_A -> {<<>>, <<0>>}
                            [] qtype = TYPE_AAAA -> {<<>>, <<0, 0>>}
                            [] OTHER -> {<<>>}
  <2>1. /\ wire.query \in ClientQueries /\ ParseQuestions(wire.query).ok /\ Ordinary(wire.query)
        /\ wire.query.qd > 0
    BY <1>3, Reads DEF AnswerHere, Proper, Readable
  <2>2. qtype \in Nat
    <3>1. AskedFor(wire.query) \in Question
      BY <2>1, AskedIs
    <3> QED BY <3>1 DEF AskedFor, Question
  <2>3. addresses \subseteq Seq(Nat)
    <3>1. <<>> \in Seq(Nat) /\ <<0>> \in Seq(Nat) /\ <<0, 0>> \in Seq(Nat)
      OBVIOUS
    <3> HIDE DEF qtype
    <3>2. addresses \subseteq {<<>>, <<0>>, <<0, 0>>}
      BY DEF TYPE_A, TYPE_AAAA
    <3> QED BY <3>1, <3>2
  <2>4. \/ \E rcode : Reply(BuildErrorResponse(wire.query, rcode).message)
        \/ \E address \in addresses : Reply(BuildAddressResponse(wire.query, qtype, address, 60).message)
    BY <1>3 DEF AnswerHere
  <2> HIDE DEF qtype, addresses
  <2>5. ASSUME NEW rcode, Reply(BuildErrorResponse(wire.query, rcode).message)
        PROVE  Intact'
    <3>1. Good(BuildErrorResponse(wire.query, rcode).message, wire.query)
      BY <2>1, ErrorReply
    <3> QED BY <2>5, <3>1, MadeHere
  <2>6. ASSUME NEW address \in addresses, Reply(BuildAddressResponse(wire.query, qtype, address, 60).message)
        PROVE  Intact'
    <3>1. Good(BuildAddressResponse(wire.query, qtype, address, 60).message, wire.query)
      BY <2>1, <2>2, <2>3, AddressReply
    <3> QED BY <2>6, <3>1, MadeHere
  <2> QED BY <2>4, <2>5, <2>6
<1>4. ASSUME AskUpstream
      PROVE  Intact'
  <2> DEFINE q == wire.query
             Q == AskedFor(q)
  <2>1. Proceeds(q) /\ Ordinary(q)
    BY <1>4, Reads DEF AskUpstream, Proper, Readable, Proceeds
  <2>2. /\ Q = ParseQuestions(q).questions[1]
        /\ Q \in Question /\ Encodable(Q.name) /\ Lowered(Q.name) = Q.name
        /\ Len(EncodeName(Q.name).cells) \in Nat
    BY <2>1, AskedIs DEF Proceeds
  <2>3. PICK strict \in BOOLEAN, name \in Spellings(Q.name) \cup {Q.name} :
            wire' = [stage |-> "sent", query |-> q, name |-> name, strict |-> strict, question |-> Q,
                     sent |-> UpstreamQuery(name, Q, WantsDnssec(q), "CD" \in q.flags)]
    <3>1. \E strict \in BOOLEAN : \E name \in IF strict THEN Spellings(Q.name) ELSE {Q.name} :
            wire' = [stage |-> "sent", query |-> q, name |-> name, strict |-> strict, question |-> Q,
                     sent |-> UpstreamQuery(name, Q, WantsDnssec(q), "CD" \in q.flags)]
      BY <1>4, <2>2 DEF AskUpstream
    <3> HIDE DEF Q, q
    <3> QED BY <3>1
  <2> DEFINE m == UpstreamQuery(name, Q, WantsDnssec(q), "CD" \in q.flags)
             w == QuestionCells(m)
             z == Len(EncodeName(Q.name).cells)
  <2>4. Encodable(name) /\ Len(EncodeName(name).cells) = z
    <3> HIDE DEF Q
    <3> QED BY <2>2, SpelledOut
  <2>5. /\ m.id = 0 /\ w \in Seq(Nat) /\ Len(w) = z + 2
        /\ \A i \in 1..z + 2 : m.body[i] = w[i]
        /\ \A i \in 1..z : w[i] = EncodeName(name).cells[i]
    <3>1. SentWell(name, m)
      <4> HIDE DEF Q
      <4> QED BY <2>2, <2>4, SentIs
    <3> QED BY <2>4, <3>1 DEF SentWell
  <2> HIDE DEF m, Q, q, z
  <2>6. wire' = [stage |-> "sent", query |-> q, name |-> name, strict |-> strict, question |-> Q, sent |-> m]
    BY <2>3 DEF m
  <2>7. /\ wire'.stage = "sent" /\ wire'.query = q /\ wire'.name = name /\ wire'.question = Q /\ wire'.sent = m
    BY <2>6
  <2>8. Section(Q.name) = z + 2 /\ Section(Q.name) - 2 = z
    BY <2>2 DEF Section, z
  <2>9. Asking(wire')
    BY <2>1, <2>3, <2>5, <2>7, <2>8 DEF Asking, Q
  <2>10. Asking(wire)'
    BY <2>9 DEF Asking
  <2> QED BY <2>7, <2>10 DEF Intact
<1>5. ASSUME Respond
      PROVE  Intact'
  <2>1. wire.stage = "sent" /\ Asking(wire)
    BY <1>5 DEF Respond, Intact, Replied
  <2> DEFINE lower == [i \in DOMAIN QuestionCells(wire.sent) |-> Lower(wire.sent.body[i])]
  <2>2. PICK section \in Sections(Len(QuestionCells(wire.sent))), id \in 0..1,
             cells \in {QuestionCells(wire.sent), lower} :
        wire' = [stage |-> "answered", query |-> wire.query, name |-> wire.name,
                 strict |-> wire.strict, question |-> wire.question, sent |-> wire.sent, response |->
                    [id |-> id, flags |-> {"QR", "RD", "RA"}, opcode |-> 0, rcode |-> 0, qd |-> 1,
                     an |-> section.an, ns |-> 0, ar |-> section.ar, body |-> cells \o section.cells]]
    BY <1>5 DEF Respond
  <2> DEFINE response ==
                [id |-> id, flags |-> {"QR", "RD", "RA"}, opcode |-> 0, rcode |-> 0, qd |-> 1,
                 an |-> section.an, ns |-> 0, ar |-> section.ar, body |-> cells \o section.cells]
  <2>3. response.id = id
    OBVIOUS
  <2>4. response = [id |-> response.id, flags |-> {"QR", "RD", "RA"}, opcode |-> 0, rcode |-> 0, qd |-> 1,
                    an |-> section.an, ns |-> 0, ar |-> section.ar, body |-> cells \o section.cells]
    BY <2>3
  <2>5. cells \in Echoes(wire)
    BY Zenon, <2>2 DEF Echoes
  <2> HIDE DEF response, lower
  <2>6. wire' = [stage |-> "answered", query |-> wire.query, name |-> wire.name,
                 strict |-> wire.strict, question |-> wire.question, sent |-> wire.sent, response |-> response]
    BY <2>2 DEF response
  <2>7. /\ wire'.stage = "answered" /\ wire'.query = wire.query /\ wire'.name = wire.name
        /\ wire'.question = wire.question /\ wire'.sent = wire.sent /\ wire'.response = response
    BY <2>6
  <2>8. Asking(wire)'
    BY <2>1, <2>7 DEF Asking
  <2>9. section \in Sections(Section(wire.question.name)) /\ cells \in Echoes(wire)'
    BY <2>1, <2>2, <2>5, <2>7 DEF Asking, Echoes
  <2>10. Answered(wire)'
    BY <2>4, <2>7, <2>8, <2>9 DEF Answered
  <2> QED BY <2>7, <2>10 DEF Intact
<1>6. ASSUME Reject
      PROVE  Intact'
  <2>1. Answered(wire)
    BY <1>6 DEF Reject, Intact, Replied
  <2>2. wire.query \in ClientQueries /\ ParseQuestions(wire.query).ok
    BY <2>1 DEF Answered, Asking, Proceeds
  <2>3. Good(BuildErrorResponse(wire.query, SERVFAIL).message, wire.query)
    BY <2>2, ErrorReply
  <2>4. Reply(BuildErrorResponse(wire.query, SERVFAIL).message)
    BY <1>6 DEF Reject
  <2> QED BY <2>3, <2>4, MadeHere
<1>7. ASSUME Accept
      PROVE  Intact'
  <2>1. Answered(wire)
    BY <1>7 DEF Accept, Intact, Replied
  <2>2. Proceeds(wire.query)
    BY <2>1 DEF Answered, Asking
  <2>3. Ordinary(wire.query) /\ Orderly(wire.query)
    BY <2>2 DEF Proceeds
  <2> DEFINE kept == RewriteQuestionName(wire.response, wire.question.name)
  <2>4. \E section \in Sections(Section(AskedFor(wire.query).name)) : kept = KeptAnswer(AskedFor(wire.query), section)
    BY <1>7, <2>1, <2>3, AcceptedIs DEF Accept
  <2>5. wire' = [stage |-> "stored", query |-> wire.query, kept |-> kept]
    BY <1>7 DEF Accept
  <2> HIDE DEF kept
  <2>6. wire'.stage = "stored" /\ wire'.query = wire.query /\ wire'.kept = kept
    BY <2>5
  <2>7. Stored(wire)'
    BY <2>2, <2>4, <2>6 DEF Stored
  <2> QED BY <2>6, <2>7 DEF Intact
<1>8. ASSUME Replay
      PROVE  Intact'
  <2> DEFINE q == wire.query
             m == wire.kept
  <2>1. Stored(wire)
    BY <1>8 DEF Replay, Intact, Replied
  <2>2. q \in ClientQueries /\ ParseQuestions(q).ok /\ q.qd > 0 /\ Ordinary(q) /\ Orderly(q)
    BY <2>1 DEF Stored, Proceeds
  <2>3. PICK section \in Sections(Section(AskedFor(q).name)) : m = KeptAnswer(AskedFor(q), section)
    BY <2>1 DEF Stored
  <2>4. MessageForm(m) /\ m.body \in Seq(Nat)
    <3>1. Plain(AskedFor(q))
      BY <2>2, AskedIs DEF Plain
    <3>2. section.an \in Nat /\ section.ar \in Nat /\ section.cells \in Seq(Nat)
      BY <2>2, <2>3 DEF Orderly, Section
    <3> HIDE DEF q, m
    <3>3. MessageForm(m) /\ Asks(m.body, AskedFor(q))
      BY <2>3, <3>1, <3>2, KeptReads
    <3> QED BY <3>3 DEF Asks
  <2>5. \E age \in Nat \cup {-1} : \E d :
            /\ AgedFor(m, d, age) /\ (d = m \/ IterRecords(m).ok)
            /\ wire' = [stage |-> "replied", query |-> q, kept |-> m, age |-> age, reply |-> PrepareReply(d, q)]
    <3>1. CASE \E elapsed \in Elapsed :
                /\ elapsed > 0 => IterRecords(m).ok /\ elapsed < Max({MinTtl, MessageTtl(m)})
                /\ wire' = [stage |-> "replied", query |-> q, kept |-> m, age |-> elapsed,
                            reply |-> PrepareReply(IF elapsed = 0 THEN m ELSE WithTtlsReduced(m, elapsed), q)]
      <4>1. PICK elapsed \in Elapsed :
                /\ elapsed > 0 => IterRecords(m).ok /\ elapsed < Max({MinTtl, MessageTtl(m)})
                /\ wire' = [stage |-> "replied", query |-> q, kept |-> m, age |-> elapsed,
                            reply |-> PrepareReply(IF elapsed = 0 THEN m ELSE WithTtlsReduced(m, elapsed), q)]
        BY <3>1
      <4>2. elapsed \in Nat
        BY MessagesAssumption
      <4> HIDE DEF q, m
      <4> DEFINE d == IF elapsed = 0 THEN m ELSE WithTtlsReduced(m, elapsed)
      <4>3. AgedFor(m, d, elapsed)
        BY <2>4, <4>2, UnagedIs, ReducedIs
      <4>4. d = m \/ IterRecords(m).ok
        BY <4>1, <4>2
      <4> HIDE DEF d
      <4>5. wire' = [stage |-> "replied", query |-> q, kept |-> m, age |-> elapsed, reply |-> PrepareReply(d, q)]
        BY <4>1 DEF d
      <4> QED BY <4>2, <4>3, <4>4, <4>5
    <3>2. CASE /\ IterRecords(m).ok
               /\ wire' = [stage |-> "replied", query |-> q, kept |-> m, age |-> -1,
                           reply |-> PrepareReply(RewriteAllTtls(m), q)]
      <4>1. AgedFor(m, RewriteAllTtls(m), -1)
        BY <2>4, <3>2, RewrittenAre
      <4> QED BY <3>2, <4>1
    <3> QED BY <1>8, <3>1, <3>2 DEF Replay
  <2>6. PICK age, d :
            /\ age \in Nat \cup {-1}
            /\ AgedFor(m, d, age) /\ (d = m \/ IterRecords(m).ok)
            /\ wire' = [stage |-> "replied", query |-> q, kept |-> m, age |-> age, reply |-> PrepareReply(d, q)]
    BY <2>5
  <2> DEFINE reply == PrepareReply(d, q)
  <2>7. Fits(reply, q) /\ Faithful(m, reply, age)
    <3> HIDE DEF q, m
    <3> QED BY <2>2, <2>3, <2>6, ServedWell
  <2> HIDE DEF q, m, reply
  <2>8. wire' = [stage |-> "replied", query |-> q, kept |-> m, age |-> age, reply |-> reply]
    BY <2>6 DEF reply
  <2>9. wire'.stage = "replied" /\ wire'.query = q /\ wire'.kept = m /\ wire'.age = age /\ wire'.reply = reply
        /\ "kept" \in DOMAIN wire'
    BY <2>8
  <2>10. Replied' /\ Fits(wire.reply, wire.query)'
    BY <2>7, <2>9 DEF Replied
  <2>11. RecordsKept'
    BY <2>7, <2>9 DEF RecordsKept, Faithful, KeptTtl
  <2> QED BY <2>10, <2>11 DEF Intact
<1>9. ASSUME TooLong
      PROVE  Intact'
  <2>1. Fits(wire.reply, wire.query)
    BY <1>9 DEF TooLong, Intact, Replied
  <2> DEFINE t == Truncate(wire.reply)
  <2>2. Fits(t, wire.query) /\ IterRecords(t).ok
    BY <2>1, TruncatedFits
  <2>3. wire' = [stage |-> "truncated", query |-> wire.query, reply |-> t]
    BY <1>9 DEF TooLong
  <2> HIDE DEF t
  <2>4. wire'.stage = "truncated" /\ wire'.query = wire.query /\ wire'.reply = t /\ "kept" \notin DOMAIN wire'
    BY <2>3
  <2>5. Replied' /\ Fits(wire.reply, wire.query)' /\ RecordsKept'
    <3>1. Replied'
      BY <2>4 DEF Replied
    <3>2. Fits(wire.reply, wire.query)' /\ IterRecords(wire.reply).ok'
      BY <2>2, <2>4, Zenon
    <3> QED BY <2>4, <3>1, <3>2, Zenon DEF RecordsKept
  <2> QED BY <2>5 DEF Intact
<1>10. ASSUME UNCHANGED wire
       PROVE  Intact'
  <2>1. Replied' <=> Replied
    BY <1>10 DEF Replied
  <2>2. RecordsKept' <=> RecordsKept
    BY <1>10, <2>1 DEF RecordsKept
  <2>3. Asking(wire)' <=> Asking(wire)
    BY <1>10
  <2>4. Answered(wire)' <=> Answered(wire)
    BY <1>10
  <2>5. Stored(wire)' <=> Stored(wire)
    BY <1>10
  <2>6. Fits(wire.reply, wire.query)' <=> Fits(wire.reply, wire.query)
    BY <1>10
  <2> QED BY <1>10, <2>1, <2>2, <2>3, <2>4, <2>5, <2>6 DEF Intact
<1> QED BY <1>1, <1>2, <1>3, <1>4, <1>5, <1>6, <1>7, <1>8, <1>9, <1>10 DEF MessagesNext

\* AnswersStayIntact: the reply a client gets is its own, however upstreams
\* answer and however old the answer is: the client's identifier and question
\* in the client's spelling (_prepare_reply(), engine.py), in front of the very
\* records that were judged, with their names, aliases and addresses, their
\* lifetimes run down (with_ttls_reduced(), _rewrite_all_ttls()).  For queries
\* that are Ordinary and answers that are Orderly: see Messages.
THEOREM AnswersStayIntact ==
    ASSUME \A query \in ClientQueries : Ordinary(query) /\ Orderly(query)
    PROVE  MessagesSpec => []AnswerIntact
<1>1. MessagesInit => Intact
  BY InitIntact
<1>2. Intact /\ [MessagesNext]_wire => Intact'
  BY NextIntact
<1>3. Intact => AnswerIntact
  BY IntactIs
<1> QED BY <1>1, <1>2, <1>3, PTL DEF MessagesSpec
=====================
