----------------------------- MODULE Service_proofs -----------------------------
(***************************************************************************)
(* Theorems about the service: its query log, the file its cache is saved  *)
(* in and the slots of its TCP listener, for any number of rows, clients,  *)
(* connections and workers; and about the cluster of nodes it is one of,   *)
(* for any number of nodes, any priorities and any timing that satisfies   *)
(* TimingAssumption.                                                       *)
(*                                                                         *)
(* Every step of the service is first reduced to what it does to the part  *)
(* a theorem is about (LogKinds, DnsKinds, SlotKinds).                     *)
(*                                                                         *)
(* Neither DropsTolerated nor GoneInTime is inductive.  What is needed is  *)
(* how old a datagram can be (WireInv), how long ago a node that is down   *)
(* can have been heard (DownInv), and how the time since m heard n is made *)
(* up of lost beats, the time since the last beat, and a beat on its way   *)
(* (GapInv).  The order of preference is a sorting by distinct keys, of    *)
(* which there is only one (OrderIsDefinite, AgreementLasts).              *)
(***************************************************************************)
EXTENDS Service, Cluster, SequenceTheorems, FiniteSetTheorems, WellFoundedInduction,
        TLAPS

USE LogAssumption, ClientsAssumption, PoolsAssumption

-------------------------------------------------------------------------------
\* Where main is between the start of the DNS server and the end of the log.
Middle == {"dns", "threads", "up", "failed", "join", "close", "listeners",
           "pools", "reset", "save", "replace", "log"}

\* What a step of the service does to the query log.
LEMMA LogKinds ==
    ASSUME Next
    PROVE  \/ MainTo("boot", "dns") /\ LogStart
           \/ MainTo("log", "drain") /\ LogStopSet
           \/ MainTo("drain", "database") /\ LogJoin
           \/ MainTo("database", "off") /\ LogClose
           \/ main' = main /\ (Record \/ Drain)
           \/ UNCHANGED logVars /\ (main' = main \/ {main, main'} \subseteq Middle)
<1>1. CASE StartLog
    BY <1>1 DEF StartLog
<1>2. CASE StartDns \/ StartUpkeep \/ Shutdown
    BY <1>2 DEF StartDns, StartUpkeep, Shutdown, MainTo, Middle
<1>3. CASE Stop
  <2>1. CASE StopLog \/ JoinWriter \/ CloseLog
    BY <2>1 DEF StopLog, JoinWriter, CloseLog
  <2>2. CASE StopUpkeep \/ CloseSockets \/ JoinListeners \/ ShutPools
    BY <2>2 DEF StopUpkeep, CloseSockets, JoinListeners, ShutPools, MainTo, Middle
  <2>3. CASE ResetSlots \/ OpenCache \/ ReplaceCache
    BY <2>3 DEF ResetSlots, OpenCache, ReplaceCache, MainTo, Middle
  <2> QED
    BY <1>3, <2>1, <2>2, <2>3 DEF Stop
<1>4. CASE Threads
    BY <1>4 DEF Threads, Alone, appVars, DnsThreads, UdpReceive, UdpSubmit,
        UdpAnswer, UdpBegin, TcpAccept, TcpClaim, TcpTurnAway, TcpSubmit,
        TcpBegin, TcpExchange, TcpEnd, ListenerLeaves
<1>5. CASE Writer
    BY <1>5 DEF Writer, appVars
<1>6. CASE Upkeep
    BY <1>6 DEF Upkeep, UpkeepWakes, UpkeepWorks, UpkeepSaves
<1> QED
    BY <1>1, <1>2, <1>3, <1>4, <1>5, <1>6 DEF Next

\* The writer leaves only after the log was told to stop and with nothing but
\* the stop mark behind it in the queue; only then is the database closed.
RowsInv ==
    /\ writer \in {"off", "loop", "get"} => Len(batch) < BatchSize
    /\ main = "boot" => writer = "off"
    /\ logStop <=> main \in {"drain", "database", "off"}
    /\ connection = "closed" <=> main = "off"
    /\ writer \in {"leave", "ended"} => logStop /\ "early" \notin RowsIn(queue)
    /\ writer = "ended" => batch = <<>>
    /\ main \in {"database", "off"} /\ ~gaveUp => writer = "ended"

\* The inductive invariant of the query log.
LogInv == LogTypeOK /\ RowsInv

\* put_nowait(): the item, if there is room.
LEMMA PutRows ==
    ASSUME LogTypeOK, NEW item \in Rows \cup {"pill"}, PutNoWait(item)
    PROVE  /\ queue' \in Seq(Rows \cup {"pill"}) /\ Len(queue') <= QueueMax
           /\ RowsIn(queue') \subseteq RowsIn(queue) \cup {item}
    BY DEF LogTypeOK, PutNoWait, RowsIn

\* Every step keeps it.
LEMMA LogStep ==
    ASSUME LogInv, [Next]_vars
    PROVE  LogInv'
<1> USE DEF LogInv
<1>1. CASE MainTo("boot", "dns") /\ LogStart
  <2>1. LogTypeOK'
    BY <1>1 DEF LogStart, LogTypeOK
  <2>2. RowsInv'
    BY <1>1 DEF LogStart, LogTypeOK, RowsInv, MainTo, RowsIn
  <2> QED
    BY <2>1, <2>2
<1>2. CASE MainTo("log", "drain") /\ LogStopSet
  <2>1. LogTypeOK'
    BY <1>2, PutRows DEF LogStopSet, LogTypeOK
  <2>2. RowsInv'
    BY <1>2 DEF LogStopSet, LogTypeOK, RowsInv, MainTo
  <2> QED
    BY <2>1, <2>2
<1>3. CASE MainTo("drain", "database") /\ LogJoin
    BY <1>3 DEF LogJoin, LogTypeOK, RowsInv, MainTo, RowsIn
<1>4. CASE MainTo("database", "off") /\ LogClose
    BY <1>4 DEF LogClose, LogTypeOK, RowsInv, MainTo, RowsIn
<1>5. CASE main' = main /\ Record
  <2> DEFINE row == IF logStop THEN "late" ELSE "early"
  <2>1. row \in Rows
    BY DEF Rows
  <2>2. CASE connection = "open"
    <3>1. PutNoWait(row)
      BY <1>5, <2>2 DEF Record
    <3>2. /\ queue' \in Seq(Rows \cup {"pill"}) /\ Len(queue') <= QueueMax
          /\ RowsIn(queue') \subseteq RowsIn(queue) \cup {row}
      BY <2>1, <3>1, PutRows
    <3>3. LogTypeOK'
      BY <1>5, <3>2 DEF Record, LogTypeOK
    <3>4. RowsInv'
      BY <1>5, <3>2 DEF Record, LogTypeOK, RowsInv
    <3> QED
      BY <3>3, <3>4
  <2>3. CASE connection # "open"
    BY <1>5, <2>3 DEF Record, LogTypeOK, RowsInv, RowsIn
  <2> QED
    BY <2>2, <2>3
<1>6. CASE main' = main /\ Drain
  <2>1. CASE DrainLoop
    BY <1>6, <2>1 DEF DrainLoop, LogTypeOK, RowsInv, RowsIn
  <2>2. CASE DrainGet
    <3>1. /\ queue' \in Seq(Rows \cup {"pill"}) /\ Len(queue') <= QueueMax
          /\ batch' \in Seq(Rows) /\ Len(batch') <= BatchSize
      <4>1. CASE queue = <<>>
        BY <2>2, <4>1 DEF DrainGet, LogTypeOK
      <4>2. CASE queue # <<>>
        <5>1. queue' \in Seq(Rows \cup {"pill"}) /\ Len(queue') <= QueueMax
          <6>1. queue' = Tail(queue)
            BY <2>2, <4>2 DEF DrainGet
          <6>2. queue \in Seq(Rows \cup {"pill"}) /\ Len(queue) <= QueueMax /\ QueueMax \in Nat
            BY DEF LogTypeOK
          <6>3. Tail(queue) \in Seq(Rows \cup {"pill"}) /\ Len(Tail(queue)) = Len(queue) - 1
            BY <4>2, <6>2
          <6> QED
            BY <6>1, <6>2, <6>3
        <5>2. Head(queue) \in Rows \cup {"pill"}
          BY <4>2 DEF LogTypeOK
        <5>3. batch' \in Seq(Rows) /\ Len(batch') <= BatchSize
          <6>1. batch \in Seq(Rows) /\ Len(batch) < BatchSize /\ Len(batch) <= BatchSize
            BY <2>2 DEF DrainGet, LogTypeOK, RowsInv
          <6>2. CASE Head(queue) = "pill"
            BY <2>2, <4>2, <6>1, <6>2 DEF DrainGet
          <6>3. CASE Head(queue) # "pill"
            <7>1. batch' = Append(batch, Head(queue)) /\ Head(queue) \in Rows
              BY <2>2, <4>2, <5>2, <6>3 DEF DrainGet
            <7> HIDE DEF Rows
            <7>2. batch' \in Seq(Rows) /\ Len(batch') = Len(batch) + 1
              BY <6>1, <7>1
            <7> QED
              BY <6>1, <7>2
          <6> QED
            BY <6>2, <6>3
        <5> QED
          BY <5>1, <5>3
      <4> QED
        BY <4>1, <4>2
    <3>2. LogTypeOK'
      BY <2>2, <3>1 DEF DrainGet, LogTypeOK
    <3>3. writer' = "loop" => Len(batch') < BatchSize
      <4>1. SUFFICES ASSUME writer' = "loop" PROVE Len(batch') < BatchSize
        OBVIOUS
      <4>2. CASE batch' = <<>>
        BY <4>2
      <4>3. CASE batch' # <<>>
        BY <2>2, <3>1, <4>1, <4>3 DEF DrainGet
      <4> QED
        BY <4>2, <4>3
    <3>4. RowsInv'
      BY <1>6, <2>2, <3>3 DEF DrainGet, LogTypeOK, RowsInv
    <3> QED
      BY <3>2, <3>4
  <2>3. CASE DrainFlush
    BY <1>6, <2>3 DEF DrainFlush, LogTypeOK, RowsInv
  <2>4. CASE DrainLeave
    BY <1>6, <2>4 DEF DrainLeave, LogTypeOK, RowsInv, RowsIn
  <2> QED
    BY <1>6, <2>1, <2>2, <2>3, <2>4 DEF Drain
<1>7. CASE UNCHANGED logVars /\ (main' = main \/ {main, main'} \subseteq Middle)
    BY <1>7 DEF logVars, LogTypeOK, RowsInv, RowsIn, Middle
<1>8. CASE UNCHANGED vars
    BY <1>7, <1>8 DEF vars, appVars
<1> QED
    BY <1>1, <1>2, <1>3, <1>4, <1>5, <1>6, <1>7, <1>8, LogKinds

\* No row accepted before stop() stays in the queue when the writer of querylog.py
\* has gone, however the stop mark, a full queue and the writer's batches interleave.
THEOREM RowsNeverStranded == Spec => []NoRowStranded
<1>1. Init => LogInv
  <2>1. Init => LogTypeOK
    <3>1. SUFFICES ASSUME Init PROVE LogTypeOK
      OBVIOUS
    <3>2. queue \in Seq(Rows \cup {"pill"}) /\ Len(queue) <= QueueMax
      BY <3>1 DEF Init, LogInit
    <3>3. batch \in Seq(Rows) /\ Len(batch) <= BatchSize
      BY <3>1 DEF Init, LogInit
    <3> QED
      BY <3>1, <3>2, <3>3 DEF Init, LogInit, LogTypeOK
  <2>2. Init => Len(batch) < BatchSize
    BY DEF Init, LogInit
  <2>3. Init => RowsInv
    BY <2>2 DEF Init, LogInit, RowsInv
  <2> QED
    BY <2>1, <2>3 DEF LogInv
<1>2. LogInv /\ [Next]_vars => LogInv'
    BY LogStep
<1>3. LogInv => NoRowStranded
    BY DEF LogInv, LogTypeOK, RowsInv, RowsIn, NoRowStranded
<1> QED
    BY <1>1, <1>2, <1>3, PTL DEF Spec
-------------------------------------------------------------------------------
\* Where main is after the upkeep thread was told to stop.
Closing == {"close", "listeners", "pools", "reset", "save", "replace", "log",
            "drain", "database", "off"}

\* Who has the temporary cache file open: each of main and upkeep exactly while it
\* saves, and both at once only if upkeep outlived the join.
SaveInv ==
    /\ tmpOpen \subseteq {"main", "upkeep"}
    /\ "main" \in tmpOpen <=> main = "replace"
    /\ "upkeep" \in tmpOpen <=> upkeep = "saving"
    /\ main \in {"boot", "dns", "threads"} => upkeep = "off"
    /\ outlived \in BOOLEAN /\ tmpMoved \in BOOLEAN
    /\ outlived => main \in Closing
    /\ ~outlived /\ main \in Closing => upkeep = "ended"
    /\ ~outlived => ~tmpMoved /\ cacheFile = "whole"

\* Every step keeps it.
LEMMA SaveStep ==
    ASSUME SaveInv, [Next]_vars
    PROVE  SaveInv'
<1> USE DEF SaveInv, MainTo, Closing
<1>1. CASE StartLog
    BY <1>1 DEF StartLog, saveVars
<1>2. CASE StartDns
    BY <1>2 DEF StartDns, saveVars
<1>3. CASE StartUpkeep
    BY <1>3 DEF StartUpkeep, saveVars
<1>4. CASE Shutdown
    BY <1>4 DEF Shutdown, saveVars
<1>5. CASE Stop
  <2>1. CASE StopUpkeep
    BY <2>1 DEF StopUpkeep, saveVars
  <2>2. CASE CloseSockets
    BY <2>2 DEF CloseSockets, saveVars
  <2>3. CASE JoinListeners \/ ShutPools \/ ResetSlots
    <3>1. /\ main \in Closing \ {"replace"} /\ main' \in Closing \ {"replace"}
          /\ UNCHANGED <<upkeep, outlived, tmpOpen, tmpMoved, cacheFile>>
      BY <2>3 DEF JoinListeners, ShutPools, ResetSlots, saveVars
    <3> QED
      BY <3>1
  <2>4. CASE OpenCache
    BY <2>4 DEF OpenCache, SaveOpen
  <2>5. CASE ReplaceCache
    <3>1. "main" \notin tmpOpen' /\ tmpOpen' \subseteq {"main", "upkeep"}
          /\ ("upkeep" \in tmpOpen' <=> upkeep' = "saving")
      BY <2>5 DEF ReplaceCache, SaveReplace
    <3>2. ~outlived => tmpOpen' = {}
      BY <3>1, <2>5 DEF ReplaceCache, SaveReplace
    <3>3. ~outlived => ~tmpMoved' /\ cacheFile' = "whole"
      BY <3>2, <2>5 DEF SaveReplace, ReplaceCache
    <3>4. main = "replace" /\ main' = "log" /\ UNCHANGED <<upkeep, outlived>>
      BY <2>5 DEF ReplaceCache
    <3>5. tmpMoved' \in BOOLEAN
      BY <2>5 DEF ReplaceCache, SaveReplace
    <3> QED
      BY <3>1, <3>3, <3>4, <3>5
  <2>6. CASE StopLog \/ JoinWriter \/ CloseLog
    <3>1. /\ main \in Closing \ {"replace"} /\ main' \in Closing \ {"replace"}
          /\ UNCHANGED <<upkeep, outlived, tmpOpen, tmpMoved, cacheFile>>
      BY <2>6 DEF StopLog, JoinWriter, CloseLog, saveVars
    <3> QED
      BY <3>1
  <2> QED
    BY <1>5, <2>1, <2>2, <2>3, <2>4, <2>5, <2>6 DEF Stop
<1>6. CASE Threads \/ Writer
  <2>1. UNCHANGED <<main, upkeep, outlived, tmpOpen, tmpMoved, cacheFile>>
    BY <1>6 DEF Threads, Alone, Writer, appVars, saveVars
  <2> QED
    BY <2>1
<1>7. CASE UpkeepWakes
    BY <1>7 DEF UpkeepWakes, saveVars
<1>8. CASE UpkeepWorks
  <2>1. UNCHANGED <<main, outlived, tmpMoved, cacheFile>> /\ upkeep = "busy"
    BY <1>8 DEF UpkeepWorks, SaveOpen, saveVars
  <2>2. \/ upkeep' = "sleep" /\ tmpOpen' = tmpOpen
        \/ upkeep' = "saving" /\ tmpOpen' = tmpOpen \cup {"upkeep"}
    BY <1>8 DEF UpkeepWorks, SaveOpen, saveVars
  <2> QED
    BY <2>1, <2>2
<1>9. CASE UpkeepSaves
  <2>1. "upkeep" \notin tmpOpen' /\ tmpOpen' \subseteq {"main", "upkeep"}
        /\ ("main" \in tmpOpen' <=> main' = "replace")
    BY <1>9 DEF UpkeepSaves, SaveReplace
  <2>2. ~outlived => tmpOpen' = {}
    BY <2>1, <1>9 DEF UpkeepSaves, SaveReplace
  <2>3. ~outlived => ~tmpMoved' /\ cacheFile' = "whole"
    BY <2>2, <1>9 DEF UpkeepSaves, SaveReplace
  <2>4. upkeep = "saving" /\ upkeep' = "sleep" /\ UNCHANGED <<main, outlived>>
    BY <1>9 DEF UpkeepSaves
  <2>5. tmpMoved' \in BOOLEAN
    BY <1>9 DEF UpkeepSaves, SaveReplace
  <2> QED
    BY <2>1, <2>3, <2>4, <2>5
<1>10. CASE UNCHANGED vars
    BY <1>10 DEF vars, appVars, saveVars
<1> QED
    BY <1>1, <1>2, <1>3, <1>4, <1>5, <1>6, <1>7, <1>8, <1>9, <1>10
    DEF Next, Upkeep

\* The cache file is never one of two writers' mixed contents, unless the upkeep
\* thread outlived the join with its timeout: stop() of service.py, save() of
\* cache.py.
THEOREM CacheFileStaysWhole == Spec => []CacheFileWhole
<1>1. Init => SaveInv
    BY DEF Init, SaveInv, Closing
<1>2. SaveInv /\ [Next]_vars => SaveInv'
    BY SaveStep
<1>3. SaveInv => CacheFileWhole
    BY DEF SaveInv, CacheFileWhole
<1> QED
    BY <1>1, <1>2, <1>3, PTL DEF Spec
-------------------------------------------------------------------------------
\* The connections that hold a slot, those of one client, those that were refused;
\* whether slots are counted at all.
Admitted == {k \in Connections : conn[k] \in {"claimed", "queued", "serving"}}
AdmittedOf(c) == {k \in Admitted : ClientOf[k] = c}
Refused == {k \in Connections : conn[k] = "refused"}
Accepting == pools \in {"none", "up"}

\* What the variables of the listeners can hold.
SlotTypeOK ==
    /\ conn \in [Connections -> {"none", "held", "claimed", "refused",
                                 "queued", "serving"}]
    /\ tcpQueue \in Seq(Connections)
    /\ tcpOpen \in 0..MaxConnections
    /\ tcpPerClient \in [Clients -> 0..MaxPerClient]
    /\ listener \in [{"udp", "tcp"} -> {"off", "loop", "busy", "ended"}]
    /\ pools \in {"none", "up", "shut", "gone"}

\* A connection waits in the queue once.
QueueInv ==
    /\ \A i \in 1..Len(tcpQueue) : conn[tcpQueue[i]] = "queued"
    /\ \A i, j \in 1..Len(tcpQueue) : tcpQueue[i] = tcpQueue[j] => i = j

\* The counters are what they are meant to count.
CountInv ==
    /\ IsFiniteSet(Admitted)
    /\ Accepting => /\ tcpOpen = Cardinality(Admitted)
                    /\ \A c \in Clients :
                          tcpPerClient[c] = Cardinality(AdmittedOf(c))

\* Before the pools exist there is no listener and no connection.
StartInv ==
    /\ main \in {"boot", "dns"} => pools = "none"
    /\ pools = "none" => /\ listener["tcp"] = "off"
                         /\ \A k \in Connections : conn[k] = "none"

\* The inductive invariant of the connection slots.
SlotInv == SlotTypeOK /\ QueueInv /\ CountInv /\ StartInv

\* What a step of the service does to the DNS server.
LEMMA DnsKinds ==
    ASSUME Next
    PROVE  \/ MainTo("dns", "threads") /\ DnsStart
           \/ /\ main' \notin {"boot", "dns"}
              /\ DnsStopSet \/ DnsShutPools \/ DnsReset
           \/ main' = main /\ DnsThreads
           \/ UNCHANGED dnsVars /\ (main' = "dns" => main \in {"boot", "dns"})
              /\ (main' = "boot" => main = "boot")
<1>1. CASE StartLog \/ StartDns \/ StartUpkeep \/ Shutdown
    BY <1>1 DEF StartLog, StartDns, StartUpkeep, Shutdown, MainTo
<1>2. CASE Stop
  <2>1. CASE CloseSockets \/ ShutPools \/ ResetSlots
    BY <2>1 DEF CloseSockets, ShutPools, ResetSlots, MainTo
  <2>2. CASE StopUpkeep \/ JoinListeners \/ OpenCache \/ ReplaceCache
    BY <2>2 DEF StopUpkeep, JoinListeners, OpenCache, ReplaceCache, MainTo
  <2>3. CASE StopLog \/ JoinWriter \/ CloseLog
    BY <2>3 DEF StopLog, JoinWriter, CloseLog, MainTo
  <2> QED
    BY <1>2, <2>1, <2>2, <2>3 DEF Stop
<1>3. CASE Threads
    BY <1>3 DEF Threads, Alone, appVars
<1>4. CASE Writer
    BY <1>4 DEF Writer, appVars
<1>5. CASE Upkeep
    BY <1>5 DEF Upkeep, UpkeepWakes, UpkeepWorks, UpkeepSaves
<1> QED
    BY <1>1, <1>2, <1>3, <1>4, <1>5 DEF Next

\* One connection more holds a slot.
LEMMA OneMore ==
    ASSUME SlotTypeOK, IsFiniteSet(Admitted), NEW k \in Connections,
           k \notin Admitted, Admitted' = Admitted \cup {k}
    PROVE  /\ IsFiniteSet(Admitted')
           /\ Cardinality(Admitted') = Cardinality(Admitted) + 1
           /\ \A c \in Clients :
                 Cardinality(AdmittedOf(c)') = Cardinality(AdmittedOf(c))
                                               + (IF c = ClientOf[k] THEN 1 ELSE 0)
<1>1. IsFiniteSet(Admitted') /\ Cardinality(Admitted') = Cardinality(Admitted) + 1
    BY FS_AddElement
<1>2. ASSUME NEW c \in Clients
      PROVE  Cardinality(AdmittedOf(c)') = Cardinality(AdmittedOf(c))
                                           + (IF c = ClientOf[k] THEN 1 ELSE 0)
  <2>1. IsFiniteSet(AdmittedOf(c)) /\ Cardinality(AdmittedOf(c)) \in Nat
    BY FS_Subset, FS_CardinalityType DEF AdmittedOf
  <2>2. CASE c = ClientOf[k]
    <3>1. AdmittedOf(c)' = AdmittedOf(c) \cup {k} /\ k \notin AdmittedOf(c)
      BY <2>2 DEF AdmittedOf
    <3> QED
      BY <2>1, <2>2, <3>1, FS_AddElement
  <2>3. CASE c # ClientOf[k]
    <3>1. AdmittedOf(c)' = AdmittedOf(c)
      BY <2>3 DEF AdmittedOf
    <3> QED
      BY <2>1, <2>3, <3>1
  <2> QED
    BY <2>2, <2>3
<1> QED
    BY <1>1, <1>2

\* One less does.
LEMMA OneLess ==
    ASSUME SlotTypeOK, IsFiniteSet(Admitted), NEW k \in Connections,
           k \in Admitted, Admitted' = Admitted \ {k}
    PROVE  /\ IsFiniteSet(Admitted')
           /\ Cardinality(Admitted') = Cardinality(Admitted) - 1
           /\ Cardinality(Admitted) > 0
           /\ \A c \in Clients :
                 IF c = ClientOf[k]
                 THEN /\ Cardinality(AdmittedOf(c)') = Cardinality(AdmittedOf(c)) - 1
                      /\ Cardinality(AdmittedOf(c)) > 0
                 ELSE Cardinality(AdmittedOf(c)') = Cardinality(AdmittedOf(c))
<1>1. /\ IsFiniteSet(Admitted')
      /\ Cardinality(Admitted') = Cardinality(Admitted) - 1
      /\ Cardinality(Admitted) > 0
  <2>1. /\ IsFiniteSet(Admitted')
        /\ Cardinality(Admitted') = Cardinality(Admitted) - 1
    BY FS_RemoveElement
  <2>2. Cardinality(Admitted) \in Nat /\ Cardinality(Admitted') \in Nat
    BY <2>1, FS_CardinalityType
  <2> QED
    BY <2>1, <2>2
<1>2. ASSUME NEW c \in Clients
      PROVE  IF c = ClientOf[k]
             THEN /\ Cardinality(AdmittedOf(c)') = Cardinality(AdmittedOf(c)) - 1
                  /\ Cardinality(AdmittedOf(c)) > 0
             ELSE Cardinality(AdmittedOf(c)') = Cardinality(AdmittedOf(c))
  <2>1. IsFiniteSet(AdmittedOf(c)) /\ Cardinality(AdmittedOf(c)) \in Nat
    BY FS_Subset, FS_CardinalityType DEF AdmittedOf
  <2>2. CASE c = ClientOf[k]
    <3>1. AdmittedOf(c)' = AdmittedOf(c) \ {k} /\ k \in AdmittedOf(c)
      BY <2>2 DEF AdmittedOf
    <3>2. /\ IsFiniteSet(AdmittedOf(c)')
          /\ Cardinality(AdmittedOf(c)') = Cardinality(AdmittedOf(c)) - 1
      BY <2>1, <3>1, FS_RemoveElement
    <3>3. Cardinality(AdmittedOf(c)') \in Nat
      BY <3>2, FS_CardinalityType
    <3> QED
      BY <2>1, <2>2, <3>2, <3>3
  <2>3. CASE c # ClientOf[k]
    <3>1. AdmittedOf(c)' = AdmittedOf(c)
      BY <2>3 DEF AdmittedOf
    <3> QED
      BY <2>1, <2>3, <3>1
  <2> QED
    BY <2>2, <2>3
<1> QED
    BY <1>1, <1>2

\* What a thread of the server can do to the slots: nothing, take one for a
\* connection, refuse one, let one go.
Quiet ==
    Admitted' = Admitted /\ Refused' = Refused
    /\ UNCHANGED <<tcpOpen, tcpPerClient>>
Admits(k) ==
    /\ k \notin Admitted /\ SlotFree(ClientOf[k])
    /\ Admitted' = Admitted \cup {k} /\ Refused' = Refused
    /\ tcpOpen' = tcpOpen + 1
    /\ tcpPerClient' = [tcpPerClient EXCEPT ![ClientOf[k]] = @ + 1]
Refuses(k) ==
    /\ ~SlotFree(ClientOf[k])
    /\ Admitted' = Admitted /\ Refused' = Refused \cup {k}
    /\ UNCHANGED <<tcpOpen, tcpPerClient>>
Departs(k) ==
    /\ Admitted' = Admitted \ {k} /\ Refused' = Refused \ {k}
    /\ \/ k \notin Admitted /\ UNCHANGED <<tcpOpen, tcpPerClient>>
       \/ ~Accepting /\ UNCHANGED <<tcpOpen, tcpPerClient>>
       \/ /\ k \in Admitted
          /\ tcpOpen' = Less(tcpOpen)
          /\ tcpPerClient' = [tcpPerClient EXCEPT ![ClientOf[k]] = Less(@)]

\* Each step of a thread is one of those.
LEMMA SlotKinds ==
    ASSUME SlotInv, DnsThreads
    PROVE  /\ UNCHANGED pools
           /\ \/ Quiet
              \/ \E k \in Connections : Admits(k) \/ Refuses(k) \/ Departs(k)
<1>1. UNCHANGED pools
    BY DEF DnsThreads, UdpReceive, UdpSubmit, UdpAnswer, UdpBegin, TcpAccept,
        TcpClaim, TcpTurnAway, TcpSubmit, TcpBegin, TcpExchange, TcpEnd,
        ListenerLeaves
<1>2. CASE UNCHANGED tcpVars
    BY <1>1, <1>2 DEF tcpVars, Quiet, Admitted, Refused
<1>3. ASSUME NEW k \in Connections, TcpAccept(k)
      PROVE  Quiet
    BY <1>3 DEF TcpAccept, ConnTo, Quiet, Admitted, Refused, SlotInv, SlotTypeOK
<1>4. ASSUME NEW k \in Connections, TcpClaim(k)
      PROVE  Quiet \/ Admits(k) \/ Refuses(k)
  <2>1. CASE pools = "gone"
    BY <1>4, <2>1 DEF TcpClaim, ConnTo, Quiet, Admitted, Refused, SlotInv, SlotTypeOK
  <2>2. CASE pools # "gone" /\ SlotFree(ClientOf[k])
    <3>1. conn[k] = "held" /\ conn' = [conn EXCEPT ![k] = "claimed"]
          /\ conn \in [Connections -> {"none", "held", "claimed", "refused",
                                 "queued", "serving"}]
      BY <1>4, <2>2 DEF TcpClaim, ConnTo, SlotInv, SlotTypeOK
    <3>2. k \notin Admitted /\ Admitted' = Admitted \cup {k} /\ Refused' = Refused
      BY <3>1 DEF Admitted, Refused
    <3> QED
      BY <1>4, <2>2, <3>2 DEF TcpClaim, Admits
  <2>3. CASE pools # "gone" /\ ~SlotFree(ClientOf[k])
    <3>1. conn[k] = "held" /\ conn' = [conn EXCEPT ![k] = "refused"]
          /\ conn \in [Connections -> {"none", "held", "claimed", "refused",
                                 "queued", "serving"}]
      BY <1>4, <2>3 DEF TcpClaim, ConnTo, SlotInv, SlotTypeOK
    <3>2. Admitted' = Admitted /\ Refused' = Refused \cup {k}
      BY <3>1 DEF Admitted, Refused
    <3> QED
      BY <1>4, <2>3, <3>2 DEF TcpClaim, Refuses
  <2> QED
    BY <2>1, <2>2, <2>3
<1>5. ASSUME NEW k \in Connections, TcpTurnAway(k)
      PROVE  Departs(k)
    BY <1>5 DEF TcpTurnAway, ConnTo, Departs, Admitted, Refused, SlotInv, SlotTypeOK
<1>6. ASSUME NEW k \in Connections, TcpSubmit(k)
      PROVE  Quiet \/ Departs(k)
  <2>1. CASE pools = "up"
    BY <1>6, <2>1 DEF TcpSubmit, ConnTo, Quiet, Admitted, Refused, SlotInv, SlotTypeOK
  <2>2. CASE pools # "up"
    <3>1. ~Accepting
      BY <1>6, <2>2 DEF TcpSubmit, Accepting, SlotInv, StartInv
    <3> QED
      BY <1>6, <2>2, <3>1
      DEF TcpSubmit, ConnTo, Departs, Admitted, Refused, SlotInv, SlotTypeOK
  <2> QED
    BY <2>1, <2>2
<1>7. CASE TcpBegin
  <2> DEFINE k == Head(tcpQueue)
  <2>1. k = tcpQueue[1] /\ k \in Connections /\ 1 \in 1..Len(tcpQueue)
    BY <1>7 DEF TcpBegin, SlotInv, SlotTypeOK
  <2>2. conn[k] = "queued"
    BY <2>1 DEF SlotInv, QueueInv
  <2> QED
    BY <1>7, <1>1, <2>1, <2>2
    DEF TcpBegin, ConnTo, Quiet, Admitted, Refused, SlotInv, SlotTypeOK
<1>8. ASSUME NEW k \in Connections, TcpEnd(k)
      PROVE  Departs(k)
    BY <1>8 DEF TcpEnd, ConnTo, Departs, Admitted, Refused, SlotInv, SlotTypeOK
<1> QED
    BY <1>1, <1>2, <1>3, <1>4, <1>5, <1>6, <1>7, <1>8
    DEF DnsThreads, UdpReceive, UdpSubmit, UdpAnswer, UdpBegin, TcpExchange,
        ListenerLeaves

\* The counters count what they are meant to.
LEMMA CountStep ==
    ASSUME SlotInv, [Next]_vars
    PROVE  CountInv'
<1> USE DEF SlotInv
<1>1. CASE UNCHANGED dnsVars
    BY <1>1 DEF dnsVars, tcpVars, CountInv, Accepting, Admitted, AdmittedOf
<1>2. CASE MainTo("dns", "threads") /\ DnsStart
    BY <1>2 DEF MainTo, DnsStart, tcpVars, CountInv, StartInv, Accepting, Admitted, AdmittedOf
<1>3. CASE DnsStopSet
    BY <1>3 DEF DnsStopSet, tcpVars, CountInv, Accepting, Admitted, AdmittedOf
<1>4. CASE DnsShutPools \/ DnsReset
  <2>1. Admitted' \subseteq Admitted
    BY <1>4 DEF DnsShutPools, DnsReset, Admitted
  <2>2. ~Accepting'
    BY <1>4 DEF DnsShutPools, DnsReset, Accepting
  <2> QED
    BY <2>1, <2>2, FS_Subset DEF CountInv
<1>5. CASE DnsThreads
  <2>1. UNCHANGED pools /\ Accepting' = Accepting
    BY <1>5, SlotKinds DEF Accepting
  <2>2. CASE Quiet
    BY <2>1, <2>2 DEF Quiet, CountInv, AdmittedOf
  <2>3. ASSUME NEW k \in Connections, Admits(k)
        PROVE  CountInv'
    <3>1. /\ IsFiniteSet(Admitted')
          /\ Cardinality(Admitted') = Cardinality(Admitted) + 1
          /\ \A c \in Clients :
                 Cardinality(AdmittedOf(c)') = Cardinality(AdmittedOf(c))
                                               + (IF c = ClientOf[k] THEN 1 ELSE 0)
      BY <2>3, OneMore DEF Admits, CountInv
    <3>2. ASSUME Accepting, NEW c \in Clients
          PROVE  tcpPerClient'[c] = Cardinality(AdmittedOf(c)')
      BY <2>3, <3>1, <3>2 DEF Admits, CountInv, SlotTypeOK
    <3> QED
      BY <2>1, <2>3, <3>1, <3>2 DEF Admits, CountInv, SlotTypeOK
  <2>4. ASSUME NEW k \in Connections, Refuses(k)
        PROVE  CountInv'
    BY <2>1, <2>4 DEF Refuses, CountInv, AdmittedOf
  <2>5. ASSUME NEW k \in Connections, Departs(k)
        PROVE  CountInv'
    <3>1. CASE k \notin Admitted /\ UNCHANGED <<tcpOpen, tcpPerClient>>
      <4>1. Admitted' = Admitted
        BY <2>5, <3>1 DEF Departs
      <4> QED
        BY <2>1, <3>1, <4>1 DEF CountInv, AdmittedOf
    <3>2. CASE ~Accepting
      <4>1. IsFiniteSet(Admitted')
        BY <2>5, FS_RemoveElement DEF Departs, CountInv
      <4> QED
        BY <2>1, <3>2, <4>1 DEF CountInv
    <3>3. CASE /\ k \in Admitted
               /\ tcpOpen' = Less(tcpOpen)
               /\ tcpPerClient' = [tcpPerClient EXCEPT ![ClientOf[k]] = Less(@)]
      <4>1. /\ IsFiniteSet(Admitted')
            /\ Cardinality(Admitted') = Cardinality(Admitted) - 1
            /\ Cardinality(Admitted) > 0
            /\ \A c \in Clients :
                 IF c = ClientOf[k]
                 THEN /\ Cardinality(AdmittedOf(c)') = Cardinality(AdmittedOf(c)) - 1
                      /\ Cardinality(AdmittedOf(c)) > 0
                 ELSE Cardinality(AdmittedOf(c)') = Cardinality(AdmittedOf(c))
        BY <2>5, <3>3, OneLess DEF Departs, CountInv
      <4>2. ASSUME Accepting, NEW c \in Clients
            PROVE  tcpPerClient'[c] = Cardinality(AdmittedOf(c)')
        BY <3>3, <4>1, <4>2 DEF CountInv, SlotTypeOK, Less
      <4> QED
        BY <2>1, <3>3, <4>1, <4>2 DEF CountInv, SlotTypeOK, Less
    <3> QED
      BY <2>5, <3>1, <3>2, <3>3 DEF Departs
  <2> QED
    BY <1>5, <2>2, <2>3, <2>4, <2>5, SlotKinds
<1>6. CASE UNCHANGED vars
    BY <1>1, <1>6 DEF vars
<1> QED
    BY <1>1, <1>2, <1>3, <1>4, <1>5, <1>6, DnsKinds

\* Every step keeps the types.
LEMMA SlotTypeStep ==
    ASSUME SlotInv, [Next]_vars
    PROVE  SlotTypeOK'
<1> USE DEF SlotInv
<1>1. CASE UNCHANGED dnsVars
    BY <1>1 DEF dnsVars, tcpVars, SlotTypeOK
<1>2. CASE DnsStart
    BY <1>2 DEF DnsStart, tcpVars, SlotTypeOK
<1>3. CASE DnsStopSet
    BY <1>3 DEF DnsStopSet, tcpVars, SlotTypeOK
<1>4. CASE DnsShutPools
  <2>1. tcpQueue' \in Seq(Connections)
    BY <1>4 DEF DnsShutPools
  <2> QED
    BY <1>4, <2>1 DEF DnsShutPools, SlotTypeOK
<1>5. CASE DnsReset
    BY <1>5 DEF DnsReset, SlotTypeOK
<1>6. CASE DnsThreads
  <2>1. CASE UNCHANGED <<tcpVars, pools>> /\ (UNCHANGED listener \/
             \E l \in {"udp", "tcp"} : \E s \in {"loop", "busy", "ended"} :
                ListenerTo(l, s))
    BY <2>1 DEF tcpVars, SlotTypeOK, ListenerTo
  <2>2. ASSUME NEW k \in Connections, TcpAccept(k)
        PROVE  SlotTypeOK'
    BY <2>2 DEF TcpAccept, ConnTo, ListenerTo, SlotTypeOK
  <2>3. ASSUME NEW k \in Connections, TcpClaim(k)
        PROVE  SlotTypeOK'
    <3>1. ClientOf[k] \in Clients
      OBVIOUS
    <3>2. /\ tcpOpen' \in 0..MaxConnections
          /\ tcpPerClient' \in [Clients -> 0..MaxPerClient]
      <4>1. CASE UNCHANGED <<tcpOpen, tcpPerClient>>
        BY <4>1 DEF SlotTypeOK
      <4>2. CASE /\ SlotFree(ClientOf[k])
                 /\ tcpOpen' = tcpOpen + 1
                 /\ tcpPerClient' = [tcpPerClient EXCEPT ![ClientOf[k]] = @ + 1]
        <5>1. tcpPerClient[ClientOf[k]] + 1 \in 0..MaxPerClient
          BY <3>1, <4>2 DEF SlotFree, SlotTypeOK
        <5>2. tcpOpen' \in 0..MaxConnections
          BY <4>2 DEF SlotFree, SlotTypeOK
        <5> QED
          BY <4>2, <5>1, <5>2 DEF SlotTypeOK
      <4> QED
        BY <2>3, <4>1, <4>2 DEF TcpClaim
    <3> QED
      BY <2>3, <3>2 DEF TcpClaim, ConnTo, ListenerTo, SlotTypeOK
  <2>4. ASSUME NEW k \in Connections, TcpTurnAway(k)
        PROVE  SlotTypeOK'
    BY <2>4 DEF TcpTurnAway, ConnTo, ListenerTo, SlotTypeOK
  <2>5. ASSUME NEW k \in Connections, TcpSubmit(k)
        PROVE  SlotTypeOK'
    <3>1. tcpQueue' \in Seq(Connections)
      <4>1. tcpQueue \in Seq(Connections) /\ Append(tcpQueue, k) \in Seq(Connections)
        BY DEF SlotTypeOK
      <4> QED
        BY <2>5, <4>1 DEF TcpSubmit
    <3> QED
      BY <2>5, <3>1 DEF TcpSubmit, ConnTo, ListenerTo, SlotTypeOK
  <2>6. CASE TcpBegin
    <3>1. tcpQueue' \in Seq(Connections) /\ Head(tcpQueue) \in Connections
      BY <2>6 DEF TcpBegin, SlotTypeOK
    <3> QED
      BY <2>6, <3>1 DEF TcpBegin, ConnTo, SlotTypeOK
  <2>7. ASSUME NEW k \in Connections, TcpEnd(k)
        PROVE  SlotTypeOK'
    BY <2>7 DEF TcpEnd, Less, ConnTo, SlotTypeOK
  <2>8. CASE (\E d \in Datagrams : UdpReceive(d) \/ UdpSubmit(d) \/ UdpAnswer(d))
             \/ UdpBegin \/ \E l \in {"udp", "tcp"} : ListenerLeaves(l)
    BY <2>1, <2>8
    DEF UdpReceive, UdpSubmit, UdpAnswer, UdpBegin, ListenerLeaves
  <2>9. ASSUME NEW k \in Connections, TcpExchange(k)
        PROVE  SlotTypeOK'
    BY <2>1, <2>9 DEF TcpExchange
  <2> QED
    BY <1>6, <2>2, <2>3, <2>4, <2>5, <2>6, <2>7, <2>8, <2>9 DEF DnsThreads
<1>7. CASE UNCHANGED vars
    BY <1>1, <1>7 DEF vars
<1> QED
    BY <1>1, <1>2, <1>3, <1>4, <1>5, <1>6, <1>7, DnsKinds

\* Every step keeps StartInv.
LEMMA StartStep ==
    ASSUME SlotInv, [Next]_vars
    PROVE  StartInv'
<1> USE DEF SlotInv, StartInv
<1>1. CASE UNCHANGED dnsVars /\ (main' = "dns" => main \in {"boot", "dns"})
           /\ (main' = "boot" => main = "boot")
    BY <1>1 DEF dnsVars, tcpVars
<1>2. CASE MainTo("dns", "threads") /\ DnsStart
    BY <1>2 DEF MainTo, DnsStart
<1>3. CASE main' \notin {"boot", "dns"} /\ (DnsStopSet \/ DnsShutPools \/ DnsReset)
    BY <1>3 DEF DnsStopSet, DnsShutPools, DnsReset, tcpVars
<1>4. CASE main' = main /\ DnsThreads
  <2>1. UNCHANGED pools
    BY <1>4, SlotKinds
  <2>2. CASE pools # "none"
    BY <1>4, <2>1, <2>2
  <2>3. CASE pools = "none"
    <3>1. /\ listener["tcp"] = "off"
          /\ \A k \in Connections : conn[k] = "none"
          /\ tcpQueue = <<>>
      <4>1. tcpQueue # <<>> => tcpQueue[1] \in Connections /\ 1 \in 1..Len(tcpQueue)
        BY DEF SlotTypeOK
      <4> QED
        BY <2>3, <4>1 DEF QueueInv
    <3>2. /\ UNCHANGED conn
          /\ \/ UNCHANGED listener
             \/ \E s \in {"loop", "busy", "ended"} : ListenerTo("udp", s)
      BY <1>4, <3>1
      DEF DnsThreads, UdpReceive, UdpSubmit, UdpAnswer, UdpBegin, TcpAccept,
        TcpClaim, TcpTurnAway, TcpSubmit, TcpBegin, TcpExchange, TcpEnd,
        ListenerLeaves, tcpVars
    <3> QED
      BY <1>4, <2>1, <2>3, <3>1, <3>2 DEF ListenerTo, SlotTypeOK
  <2> QED
    BY <2>2, <2>3
<1>5. CASE UNCHANGED vars
    BY <1>1, <1>5 DEF vars, appVars
<1> QED
    BY <1>1, <1>2, <1>3, <1>4, <1>5, DnsKinds

\* Every step keeps QueueInv.
LEMMA QueueStep ==
    ASSUME SlotInv, [Next]_vars
    PROVE  QueueInv'
<1> USE DEF SlotInv, QueueInv
<1>1. CASE UNCHANGED tcpVars
    BY <1>1 DEF tcpVars
<1>2. CASE DnsShutPools
    BY <1>2 DEF DnsShutPools
<1>3. CASE DnsReset
    BY <1>3 DEF DnsReset
<1>4. ASSUME NEW k \in Connections, conn[k] # "queued",
             conn' = [conn EXCEPT ![k] = conn'[k]], UNCHANGED tcpQueue
      PROVE  QueueInv'
    BY <1>4 DEF SlotTypeOK
<1>5. ASSUME NEW k \in Connections, TcpSubmit(k)
      PROVE  QueueInv'
  <2>1. CASE pools = "up"
    <3>1. /\ conn' = [conn EXCEPT ![k] = "queued"]
          /\ tcpQueue' = Append(tcpQueue, k)
          /\ conn[k] # "queued"
      BY <1>5, <2>1 DEF TcpSubmit, ConnTo
    <3>2. /\ Len(tcpQueue') = Len(tcpQueue) + 1 /\ Len(tcpQueue) \in Nat
          /\ \A i \in 1..Len(tcpQueue) :
                tcpQueue'[i] = tcpQueue[i] /\ tcpQueue[i] \in Connections
          /\ tcpQueue'[Len(tcpQueue) + 1] = k
      BY <3>1 DEF SlotTypeOK
    <3>3. \A i \in 1..Len(tcpQueue) : tcpQueue[i] # k
      BY <3>1
    <3>4. \A i \in 1..Len(tcpQueue') : i \in 1..Len(tcpQueue) \/ i = Len(tcpQueue) + 1
      BY <3>2
    <3>5. \A i \in 1..Len(tcpQueue') : conn'[tcpQueue'[i]] = "queued"
      <4>1. ASSUME NEW i \in 1..Len(tcpQueue) PROVE conn'[tcpQueue'[i]] = "queued"
        BY <3>1, <3>2, <3>3 DEF SlotTypeOK
      <4>2. conn'[k] = "queued"
        BY <3>1 DEF SlotTypeOK
      <4> QED
        BY <3>2, <3>4, <4>1, <4>2
    <3>6. \A i, j \in 1..Len(tcpQueue') : tcpQueue'[i] = tcpQueue'[j] => i = j
      BY <3>2, <3>3, <3>4
    <3> QED
      BY <3>5, <3>6
  <2>2. CASE pools # "up"
    BY <1>4, <1>5, <2>2 DEF TcpSubmit, ConnTo, SlotTypeOK
  <2> QED
    BY <2>1, <2>2
<1>6. CASE TcpBegin
  <2>1. /\ conn' = [conn EXCEPT ![tcpQueue[1]] = "serving"]
        /\ tcpQueue' = Tail(tcpQueue) /\ tcpQueue # <<>>
    BY <1>6 DEF TcpBegin, ConnTo, SlotTypeOK
  <2>2. /\ Len(tcpQueue') = Len(tcpQueue) - 1 /\ Len(tcpQueue) \in Nat \ {0}
        /\ \A i \in 1..Len(tcpQueue') : tcpQueue'[i] = tcpQueue[i + 1]
    BY <2>1 DEF SlotTypeOK
  <2>3. \A i \in 1..Len(tcpQueue') : i + 1 \in 1..Len(tcpQueue) /\ i + 1 # 1
    BY <2>2
  <2>4. 1 \in 1..Len(tcpQueue) /\ \A i \in 1..Len(tcpQueue) : tcpQueue[i] \in Connections
    BY <2>2 DEF SlotTypeOK
  <2>5. \A i \in 1..Len(tcpQueue') : tcpQueue[i + 1] # tcpQueue[1]
    BY <2>3, <2>4
  <2>6. \A i \in 1..Len(tcpQueue') : conn'[tcpQueue'[i]] = "queued"
    BY <2>1, <2>2, <2>3, <2>4, <2>5 DEF SlotTypeOK
  <2>7. \A i, j \in 1..Len(tcpQueue') : tcpQueue'[i] = tcpQueue'[j] => i = j
    <3>1. TAKE i, j \in 1..Len(tcpQueue')
    <3>2. tcpQueue'[i] = tcpQueue'[j] => i + 1 = j + 1
      BY <2>2, <2>3
    <3> QED
      BY <3>2
  <2> QED
    BY <2>6, <2>7
<1>7. CASE DnsThreads
  <2>1. ASSUME NEW k \in Connections,
               TcpAccept(k) \/ TcpClaim(k) \/ TcpTurnAway(k) \/ TcpEnd(k)
        PROVE  QueueInv'
    <3>1. conn[k] # "queued" /\ conn' = [conn EXCEPT ![k] = conn'[k]]
          /\ UNCHANGED tcpQueue
      BY <2>1 DEF TcpAccept, TcpClaim, TcpTurnAway, TcpEnd, ConnTo, SlotTypeOK
    <3> QED
      BY <1>4, <3>1
  <2> QED
    BY <1>1, <1>5, <1>6, <1>7, <2>1
    DEF DnsThreads, UdpReceive, UdpSubmit, UdpAnswer, UdpBegin, TcpExchange,
        ListenerLeaves
<1> QED
    BY <1>1, <1>2, <1>3, <1>7, DnsKinds DEF vars, dnsVars, DnsStart, DnsStopSet

\* Every step keeps the invariant of the slots.
LEMMA SlotStep ==
    ASSUME SlotInv, [Next]_vars
    PROVE  SlotInv'
    BY SlotTypeStep, QueueStep, CountStep, StartStep DEF SlotInv

\* It holds before the service starts.
LEMMA SlotStart ==
    ASSUME Init
    PROVE  SlotInv
<1> USE DEF Init, DnsInit
<1>1. Admitted = {} /\ \A c \in Clients : AdmittedOf(c) = {}
    BY DEF Admitted, AdmittedOf
<1>2. CountInv
    BY <1>1, FS_EmptySet DEF CountInv
<1>3. tcpQueue \in Seq(Connections) /\ Len(tcpQueue) = 0
    OBVIOUS
<1>4. SlotTypeOK
    BY <1>3 DEF SlotTypeOK
<1>5. QueueInv
    BY <1>3 DEF QueueInv
<1>6. StartInv
    BY DEF StartInv
<1> QED
    BY <1>2, <1>4, <1>5, <1>6 DEF SlotInv

\* The TCP server of server.py, with its two counters, its queue, its workers and
\* their teardown, implements Admission: a slot is taken for a connection that is
\* within both limits, refused to one that is not, and given back once.
THEOREM SlotsImplemented == Spec => SlotSpec
<1>1. Init => Slots!Init
    BY DEF Init, DnsInit, Slots!Init
<1>2. SlotInv /\ SlotInv' /\ [Next]_vars
      => [Slots!Next]_<<Admitted, Refused, Accepting>>
  <2>1. SUFFICES ASSUME SlotInv, SlotInv', [Next]_vars
                 PROVE  Slots!Next \/ UNCHANGED <<Admitted, Refused, Accepting>>
    OBVIOUS
  <2>2. CASE UNCHANGED dnsVars
    BY <2>2 DEF dnsVars, tcpVars, Admitted, Refused, Accepting
  <2>3. CASE MainTo("dns", "threads") /\ DnsStart
    BY <2>1, <2>3 DEF MainTo, DnsStart, SlotInv, StartInv, tcpVars, Admitted,
        Refused, Accepting
  <2>4. CASE DnsStopSet
    BY <2>4 DEF DnsStopSet, tcpVars, Admitted, Refused, Accepting
  <2>5. CASE DnsShutPools \/ DnsReset
    <3>1. Admitted' \subseteq Admitted /\ Refused' = Refused /\ ~Accepting'
      BY <2>5 DEF DnsShutPools, DnsReset, Admitted, Refused, Accepting
    <3>2. Slots!Shut
      BY <3>1 DEF Slots!Shut, Admitted, Refused, Accepting
    <3> QED
      BY <3>2 DEF Slots!Next
  <2>6. CASE DnsThreads
    <3>1. Accepting' = Accepting
      BY <2>1, <2>6, SlotKinds DEF Accepting
    <3>2. ASSUME NEW k \in Connections
          PROVE  Accepting => (SlotFree(ClientOf[k]) <=> Slots!HasRoom(k))
      <4>1. ClientOf[k] \in Clients
        OBVIOUS
      <4>2. Slots!SharedBy(k) = AdmittedOf(ClientOf[k])
        BY DEF Slots!SharedBy, AdmittedOf, Admitted
      <4>3. ASSUME NEW S PROVE Slots!Cardinality(S) = Cardinality(S)
        BY DEF Slots!Cardinality, Cardinality
      <4>4. Slots!HasRoom(k) <=> /\ Cardinality(Admitted) < MaxConnections
                                 /\ Cardinality(AdmittedOf(ClientOf[k])) < MaxPerClient
        BY <4>2, <4>3 DEF Slots!HasRoom, Admitted
      <4> QED
        BY <2>1, <4>1, <4>4 DEF SlotFree, SlotInv, CountInv
    <3>3. ASSUME NEW k \in Connections, Admits(k)
          PROVE  Slots!Admit(k)
      BY <3>1, <3>2, <3>3 DEF Admits, Slots!Admit, Admitted, Refused, Accepting
    <3>4. ASSUME NEW k \in Connections, Refuses(k)
          PROVE  Slots!Refuse(k)
      BY <3>1, <3>2, <3>4 DEF Refuses, Slots!Refuse, Admitted, Refused, Accepting
    <3>5. ASSUME NEW k \in Connections, Departs(k)
          PROVE  Slots!Depart(k)
      BY <3>1, <3>5 DEF Departs, Slots!Depart, Admitted, Refused, Accepting
    <3>6. CASE Quiet
      BY <3>1, <3>6 DEF Quiet
    <3> QED
      BY <2>1, <2>6, <3>3, <3>4, <3>5, <3>6, SlotKinds DEF Slots!Next
  <2> QED
    BY <2>1, <2>2, <2>3, <2>4, <2>5, <2>6, DnsKinds DEF vars
<1>3. [Slots!Next]_<<Admitted, Refused, Accepting>> =>
      [Slots!Next]_<<{k \in Connections :
                    conn[k] \in {"claimed", "queued", "serving"}},
                {k \in Connections : conn[k] = "refused"}, pools \in {"none", "up"}>>
    BY DEF Admitted, Refused, Accepting
<1>4. Init => SlotInv
    BY SlotStart
<1>5. SlotInv /\ [Next]_vars => SlotInv'
    BY SlotStep
<1> QED
    BY <1>1, <1>2, <1>3, <1>4, <1>5, PTL DEF Spec, SlotSpec, Slots!Spec

-------------------------------------------------------------------------------
(* The cluster *)
\* Time since a running node last sent a beat, or started.
SinceBeat(n) == Interval - nextBeat[n]

OnItsWay(m, n) == \E msg \in net : msg.kind = "beat" /\ msg.from = n /\ msg.to = m

\* A datagram of a running node is no younger than the node's last beat, one
\* of a node that is down no younger than its end.
WireInv ==
    \A msg \in net :
        /\ msg.from # msg.to
        /\ msg.from \in up => SinceBeat(msg.from) <= msg.age
        /\ msg.from \notin up => downFor[msg.from] <= msg.age

DownInv ==
    /\ \A n \in Nodes : n \in up => downFor[n] = 0
    /\ \A m, n \in Nodes : n \notin up => <<m, n>> \notin heard
    /\ \A m, n \in Nodes : n \notin up /\ age[<<m, n>>] < Timeout => downFor[n] <= age[<<m, n>>] + MaxDelay

Tracked(m, n) == m # n /\ m \in up /\ n \in up /\ <<m, n>> \in heard /\ missed[<<m, n>>] <= Tolerance

Pending(m, n) == IF OnItsWay(m, n) THEN Interval ELSE 0

GapInv ==
    \A m, n \in Nodes : Tracked(m, n) =>
        age[<<m, n>>] <= missed[<<m, n>>] * Interval + SinceBeat(n) + Pending(m, n)

ClusterInv == ClusterTypeOK /\ WireInv /\ DownInv /\ GapInv

\* Arithmetic the provers do not do by themselves: products grow with a factor.
LEMMA Products ==
    ASSUME NEW a \in Nat, NEW b \in Nat, NEW c \in Nat, a <= c
    PROVE  /\ (a + 1) * b = a * b + b
           /\ a * b <= c * b
           /\ a * b \in Nat
  BY SMT

\* The invariant holds of a cluster that has just been switched on.
LEMMA ClusterInitInv == ClusterInit => ClusterInv
  BY NodesAssumption, TimingAssumption
     DEF ClusterInit, ClusterInv, ClusterTypeOK, WireInv, DownInv, GapInv, Tracked, Longest, Links

\* What Cluster._send puts on the wire are messages of the node, to others, of age 0.
LEMMA SentIsMessage ==
    ASSUME ClusterTypeOK, NEW n \in Nodes, NEW kind \in {"beat", "bye"}
    PROVE  \A msg \in Sent(kind, n) :
              msg \in Message /\ msg.kind = kind /\ msg.from = n /\ msg.to # n /\ msg.age = 0
  BY NodesAssumption, TimingAssumption
     DEF ClusterTypeOK, Sent, Message, Peers, EffectivePriority

\* Every step keeps the type.
LEMMA ClusterTypeStep == ClusterTypeOK /\ [ClusterNext]_clusterVars => ClusterTypeOK'
<1>. SUFFICES ASSUME ClusterTypeOK, [ClusterNext]_clusterVars PROVE ClusterTypeOK'
  OBVIOUS
<1>. USE NodesAssumption, TimingAssumption DEF ClusterTypeOK, Longest, Fault, Links
<1>1. ASSUME NEW n \in Nodes, StartNode(n) PROVE ClusterTypeOK'
  BY <1>1 DEF StartNode
<1>2. ASSUME NEW n \in Nodes, StopNode(n) PROVE ClusterTypeOK'
  <2>1. net' \in SUBSET Message
    BY <1>2, SentIsMessage DEF StopNode
  <2>. QED
    BY <1>2, <2>1 DEF StopNode, GoesDown
<1>3. ASSUME NEW n \in Nodes, Crash(n) PROVE ClusterTypeOK'
  BY <1>3 DEF Crash, GoesDown
<1>4. ASSUME NEW n \in Nodes, Beat(n) PROVE ClusterTypeOK'
  <2>1. net' \in SUBSET Message
    BY <1>4, SentIsMessage DEF Beat
  <2>. QED
    BY <1>4, <2>1 DEF Beat
<1>5. ASSUME NEW n \in Nodes, ChangeUse(n) PROVE ClusterTypeOK'
  BY <1>5 DEF ChangeUse
<1>6. ASSUME NEW msg \in net, NEW again \in BOOLEAN, Deliver(msg, again) PROVE ClusterTypeOK'
  <2>1. msg.from \in Nodes /\ msg.to \in Nodes /\ msg.prio \in Nat
    BY DEF Message
  <2>2. net' \in SUBSET Message
    BY <1>6 DEF Deliver
  <2>3. up' \in SUBSET Nodes /\ idle' \in SUBSET Nodes /\ nextBeat' \in [Nodes -> 0..Interval]
        /\ faults' \in 0..MaxFaults /\ downFor' \in [Nodes -> 0..Longest]
    BY <1>6 DEF Deliver
  <2>4. CASE HandleBeat(msg.to, msg.from, msg.prio)
    <3>1. age' \in [Links -> 0..Timeout] /\ prio' \in [Links -> Nat]
          /\ missed' \in [Links -> 0..Tolerance + 1]
      BY <2>1, <2>4 DEF HandleBeat
    <3>2. heard' \in SUBSET Links
      BY <2>1, <2>4 DEF HandleBeat
    <3>. QED
      BY <2>2, <2>3, <3>1, <3>2
  <2>5. CASE HandleBye(msg.to, msg.from)
    <3>1. age' \in [Links -> 0..Timeout] /\ prio' \in [Links -> Nat]
          /\ missed' \in [Links -> 0..Tolerance + 1]
      BY <2>1, <2>5 DEF HandleBye
    <3>2. heard' \in SUBSET Links
      BY <2>1, <2>5 DEF HandleBye
    <3>. QED
      BY <2>2, <2>3, <3>1, <3>2
  <2>. QED
    BY <1>6, <2>4, <2>5 DEF Deliver
<1>7. ASSUME NEW msg \in net, Lose(msg) PROVE ClusterTypeOK'
  <2>1. msg.from \in Nodes /\ msg.to \in Nodes
    BY DEF Message
  <2>. QED
    BY <1>7, <2>1 DEF Lose
<1>8. ASSUME NEW msg \in net, Unheard(msg) PROVE ClusterTypeOK'
  BY <1>8 DEF Unheard
<1>9. CASE Tick
  <2>1. net' \in SUBSET Message
    <3>. SUFFICES ASSUME NEW x \in net' PROVE x \in Message
      OBVIOUS
    <3>1. PICK msg \in net : x = [msg EXCEPT !.age = msg.age + 1]
      BY <1>9 DEF Tick
    <3>2. msg \in Message /\ msg.age + 1 \in 0..MaxDelay
      BY <1>9 DEF Tick, Message
    <3>. QED
      BY <3>1, <3>2 DEF Message
  <2>. QED
    BY <1>9, <2>1 DEF Tick, Least
<1>10. CASE UNCHANGED clusterVars
  BY <1>10 DEF clusterVars
<1>. QED
  BY <1>1, <1>2, <1>3, <1>4, <1>5, <1>6, <1>7, <1>8, <1>9, <1>10 DEF ClusterNext, Arrive

\* Every step leaves the cluster's state well typed.
THEOREM ClusterTypeCorrect == ClusterSpec => []ClusterTypeOK
<1>1. ClusterInit => ClusterTypeOK
  BY ClusterInitInv DEF ClusterInv
<1>. QED
  BY <1>1, ClusterTypeStep, PTL DEF ClusterSpec

\* The fields of a datagram on its way.
LEMMA MessageFields ==
    ASSUME ClusterTypeOK, NEW msg \in net
    PROVE  /\ msg.from \in Nodes /\ msg.to \in Nodes
           /\ msg.age \in 0..MaxDelay /\ msg.kind \in {"beat", "bye"}
  BY DEF ClusterTypeOK, Message

\* A tick makes every datagram one older and changes nothing else about it.
LEMMA TickMessages ==
    ASSUME ClusterTypeOK, Tick, NEW x \in net'
    PROVE  \E msg \in net : x.kind = msg.kind /\ x.from = msg.from /\ x.to = msg.to
                              /\ x.age = msg.age + 1
<1>1. PICK msg \in net : x = [msg EXCEPT !.age = msg.age + 1]
  BY DEF Tick
<1>2. msg \in Message
  BY DEF ClusterTypeOK
<1>. QED
  BY <1>1, <1>2 DEF Message

\* Beats, stops and ticks keep the ages of the datagrams and of their senders in step.
LEMMA WireStep == ClusterTypeOK /\ WireInv /\ DownInv /\ [ClusterNext]_clusterVars => WireInv'
<1>. SUFFICES ASSUME ClusterTypeOK, WireInv, DownInv, [ClusterNext]_clusterVars PROVE WireInv'
  OBVIOUS
<1>. DEFINE Young(x) == /\ x.from # x.to
                        /\ x.from \in up => SinceBeat(x.from) <= x.age
                        /\ x.from \notin up => downFor[x.from] <= x.age
<1>. SUFFICES ASSUME NEW x \in net' PROVE Young(x)'
  BY DEF WireInv
<1>. USE NodesAssumption, TimingAssumption
<1>0. x \in net => x.from \in Nodes /\ x.age \in 0..MaxDelay /\ Young(x)
  BY MessageFields DEF WireInv
<1>1. ASSUME NEW n \in Nodes, StartNode(n) PROVE Young(x)'
  <2>1. x \in net
    BY <1>1 DEF StartNode
  <2>2. CASE x.from = n
    BY <1>0, <1>1, <2>1, <2>2 DEF StartNode, SinceBeat, ClusterTypeOK
  <2>3. CASE x.from # n
    BY <1>0, <1>1, <2>1, <2>3 DEF StartNode, SinceBeat, ClusterTypeOK
  <2>. QED
    BY <2>2, <2>3
<1>2. ASSUME NEW n \in Nodes, GoesDown(n), x \in net PROVE Young(x)'
  BY <1>0, <1>2 DEF GoesDown, SinceBeat, DownInv
<1>3. ASSUME NEW n \in Nodes, StopNode(n) PROVE Young(x)'
  <2>1. CASE x \in net
    BY <1>2, <1>3, <2>1 DEF StopNode
  <2>2. CASE x \in Sent("bye", n)
    <3>1. x.from = n /\ x.to # n /\ x.age = 0
      BY <2>2, SentIsMessage
    <3>. QED
      BY <1>3, <3>1 DEF StopNode, GoesDown, DownInv, ClusterTypeOK
  <2>. QED
    BY <1>3, <2>1, <2>2 DEF StopNode
<1>4. ASSUME NEW n \in Nodes, Crash(n) PROVE Young(x)'
  BY <1>2, <1>4 DEF Crash
<1>5. ASSUME NEW n \in Nodes, Beat(n) PROVE Young(x)'
  <2>1. CASE x \in net
    BY <1>0, <1>5, <2>1 DEF Beat, SinceBeat, ClusterTypeOK
  <2>2. CASE x \in Sent("beat", n)
    <3>1. x.from = n /\ x.to # n /\ x.age = 0
      BY <2>2, SentIsMessage
    <3>. QED
      BY <1>5, <3>1 DEF Beat, SinceBeat, ClusterTypeOK
  <2>. QED
    BY <1>5, <2>1, <2>2 DEF Beat
<1>6. ASSUME x \in net, UNCHANGED <<up, nextBeat, downFor>> PROVE Young(x)'
  BY <1>0, <1>6 DEF SinceBeat
<1>7. CASE Tick
  <2>1. PICK msg \in net : x.from = msg.from /\ x.to = msg.to /\ x.age = msg.age + 1
    BY <1>7, TickMessages
  <2>2. msg.from \in Nodes /\ msg.age \in 0..MaxDelay /\ Young(msg)
    BY MessageFields DEF WireInv
  <2>3. CASE msg.from \in up
    BY <1>7, <2>1, <2>2, <2>3 DEF Tick, SinceBeat, ClusterTypeOK
  <2>4. CASE msg.from \notin up
    <3>1. /\ downFor[msg.from] \in Nat /\ downFor'[msg.from] \in Nat
          /\ downFor'[msg.from] <= downFor[msg.from] + 1
      BY <1>7, <2>2, <2>4 DEF Tick, Least, ClusterTypeOK, Longest
    <3>2. up' = up
      BY <1>7 DEF Tick
    <3>. QED
      BY <2>1, <2>2, <2>4, <3>1, <3>2
  <2>. QED
    BY <2>3, <2>4
<1>8. ASSUME NEW n \in Nodes, ChangeUse(n) PROVE Young(x)'
  BY <1>6, <1>8 DEF ChangeUse
<1>9. ASSUME NEW msg \in net, NEW again \in BOOLEAN, Deliver(msg, again) PROVE Young(x)'
  BY <1>6, <1>9 DEF Deliver
<1>10. ASSUME NEW msg \in net, Lose(msg) \/ Unheard(msg) PROVE Young(x)'
  BY <1>6, <1>10 DEF Lose, Unheard
<1>11. CASE UNCHANGED clusterVars
  BY <1>6, <1>11 DEF clusterVars
<1>. QED
  BY <1>1, <1>3, <1>4, <1>5, <1>7, <1>8, <1>9, <1>10, <1>11 DEF ClusterNext, Arrive

\* A node that is down is remembered only from datagrams it sent while it ran.
LEMMA DownStep == ClusterTypeOK /\ WireInv /\ DownInv /\ [ClusterNext]_clusterVars => DownInv'
<1>. SUFFICES ASSUME ClusterTypeOK, WireInv, DownInv, [ClusterNext]_clusterVars PROVE DownInv'
  OBVIOUS
<1>. DEFINE Settled(m, n) ==
              /\ n \in up => downFor[n] = 0
              /\ n \notin up => <<m, n>> \notin heard
              /\ n \notin up /\ age[<<m, n>>] < Timeout => downFor[n] <= age[<<m, n>>] + MaxDelay
<1>. SUFFICES ASSUME NEW m \in Nodes, NEW n \in Nodes PROVE Settled(m, n)'
  BY DEF DownInv
<1>. USE NodesAssumption, TimingAssumption DEF Longest
<1>0. /\ Settled(m, n) /\ <<m, n>> \in Links
      /\ downFor[n] \in Nat /\ age[<<m, n>>] \in 0..Timeout
  <2>1. Settled(m, n)
    BY DEF DownInv
  <2>2. <<m, n>> \in Links
    BY DEF Links
  <2>. QED
    BY <2>1, <2>2 DEF ClusterTypeOK
<1>1. ASSUME NEW k \in Nodes, StartNode(k) PROVE Settled(m, n)'
  <2>1. /\ n = k => n \in up' /\ downFor'[n] = 0
        /\ n # k => (n \in up' <=> n \in up) /\ downFor'[n] = downFor[n]
    BY <1>1 DEF StartNode, ClusterTypeOK
  <2>2. /\ <<m, n>> \in heard' => <<m, n>> \in heard
        /\ age'[<<m, n>>] = age[<<m, n>>] \/ age'[<<m, n>>] = Timeout
    BY <1>0, <1>1 DEF StartNode
  <2>. QED
    BY <1>0, <2>1, <2>2
<1>2. ASSUME NEW k \in Nodes, GoesDown(k) PROVE Settled(m, n)'
  <2>1. n = k => n \in up /\ n \notin up'
    BY <1>2 DEF GoesDown
  <2>2. n # k => (n \in up' <=> n \in up)
    BY <1>2 DEF GoesDown
  <2>3. heard' \subseteq heard /\ (n = k => <<m, n>> \notin heard')
    BY <1>2 DEF GoesDown
  <2>4. downFor' = downFor /\ age' = age
    BY <1>2 DEF GoesDown
  <2>. QED
    BY <1>0, <2>1, <2>2, <2>3, <2>4
<1>3. ASSUME UNCHANGED <<up, age, heard, downFor>> PROVE Settled(m, n)'
  BY <1>0, <1>3
<1>4. ASSUME NEW msg \in net, NEW again \in BOOLEAN, Deliver(msg, again) PROVE Settled(m, n)'
  <2>1. msg.from \in Nodes /\ msg.to \in Nodes /\ msg.age \in 0..MaxDelay
    BY MessageFields
  <2>2. up' = up /\ downFor' = downFor
    BY <1>4 DEF Deliver
  <2>3. CASE msg.to = m /\ msg.from = n /\ HandleBeat(msg.to, msg.from, msg.prio)
    <3>1. n \notin up => downFor[n] <= MaxDelay
      BY <1>0, <2>1, <2>3 DEF WireInv
    <3>2. age'[<<m, n>>] = 0
      BY <1>0, <2>3 DEF HandleBeat, ClusterTypeOK
    <3>3. n \notin up => <<m, n>> \notin heard'
      BY <2>3 DEF HandleBeat
    <3>. QED
      BY <1>0, <2>2, <3>1, <3>2, <3>3
  <2>4. CASE msg.to = m /\ msg.from = n /\ HandleBye(msg.to, msg.from)
    <3>1. age'[<<m, n>>] = Timeout /\ <<m, n>> \notin heard'
      BY <1>0, <2>4 DEF HandleBye, ClusterTypeOK
    <3>. QED
      BY <1>0, <2>2, <3>1
  <2>5. CASE ~(msg.to = m /\ msg.from = n)
    <3>1. <<msg.to, msg.from>> # <<m, n>>
      BY <2>5
    <3>2. age'[<<m, n>>] = age[<<m, n>>]
      BY <1>0, <1>4, <3>1 DEF Deliver, HandleBeat, HandleBye, ClusterTypeOK
    <3>3. <<m, n>> \in heard' <=> <<m, n>> \in heard
      BY <1>4, <3>1 DEF Deliver, HandleBeat, HandleBye
    <3>. QED
      BY <1>0, <2>2, <3>2, <3>3
  <2>. QED
    BY <1>4, <2>3, <2>4, <2>5 DEF Deliver
<1>5. CASE Tick
  <2>1. up' = up /\ heard' = heard
    BY <1>5 DEF Tick
  <2>2. /\ n \in up => downFor'[n] = 0
        /\ n \notin up => downFor'[n] \in Nat /\ downFor'[n] <= downFor[n] + 1
    BY <1>0, <1>5 DEF Tick, Least
  <2>3. age'[<<m, n>>] = Timeout \/ age'[<<m, n>>] = age[<<m, n>>] + 1
    BY <1>0, <1>5 DEF Tick, Least
  <2>4. age'[<<m, n>>] = age[<<m, n>>] + 1 /\ age'[<<m, n>>] < Timeout => age[<<m, n>>] < Timeout
    BY <1>0
  <2>. QED
    BY <1>0, <2>1, <2>2, <2>3, <2>4
<1>6. CASE UNCHANGED clusterVars
  BY <1>3, <1>6 DEF clusterVars
<1>7. ASSUME NEW k \in Nodes, StopNode(k) \/ Crash(k) \/ Beat(k) \/ ChangeUse(k) PROVE Settled(m, n)'
  BY <1>2, <1>3, <1>7 DEF StopNode, Crash, Beat, ChangeUse
<1>8. ASSUME NEW msg \in net, Lose(msg) \/ Unheard(msg) PROVE Settled(m, n)'
  BY <1>3, <1>8 DEF Lose, Unheard
<1>. QED
  BY <1>1, <1>4, <1>5, <1>6, <1>7, <1>8 DEF ClusterNext, Arrive

\* A beat of n is on its way to m only in the first part of an interval.
LEMMA NothingAtTheBeat ==
    ASSUME ClusterTypeOK, WireInv, NEW m \in Nodes, NEW n \in Nodes, n \in up, OnItsWay(m, n)
    PROVE  SinceBeat(n) <= MaxDelay
<1>1. PICK msg \in net : msg.from = n
  BY DEF OnItsWay
<1>2. msg.age \in 0..MaxDelay
  BY MessageFields
<1>. QED
  BY <1>1, <1>2, TimingAssumption DEF WireInv, SinceBeat, ClusterTypeOK

\* The silence between two nodes grows by one interval per lost beat, and no faster.
LEMMA GapStep ==
    ASSUME ClusterTypeOK, ClusterTypeOK', WireInv, DownInv, GapInv, [ClusterNext]_clusterVars
    PROVE  GapInv'
<1>. DEFINE Bound(m, n) == missed[<<m, n>>] * Interval + SinceBeat(n) + Pending(m, n)
<1>. SUFFICES ASSUME NEW m \in Nodes, NEW n \in Nodes, Tracked(m, n)'
              PROVE  (age[<<m, n>>] <= Bound(m, n))'
  BY DEF GapInv
<1>. USE NodesAssumption, TimingAssumption
<1>. DEFINE a == age[<<m, n>>]
            k == missed[<<m, n>>]
<1>0. /\ <<m, n>> \in Links /\ m # n
      /\ a \in 0..Timeout /\ a' \in 0..Timeout
      /\ k \in Nat /\ k' \in Nat
      /\ k * Interval \in Nat /\ k' * Interval \in Nat
      /\ SinceBeat(n) \in 0..Interval /\ SinceBeat(n)' \in 0..Interval
      /\ Pending(m, n) \in {0, Interval} /\ Pending(m, n)' \in {0, Interval}
  <2>1. <<m, n>> \in Links /\ m # n
    BY DEF Links, Tracked
  <2>2. k \in Nat /\ k' \in Nat /\ a \in 0..Timeout /\ a' \in 0..Timeout
    BY <2>1 DEF ClusterTypeOK
  <2>3. SinceBeat(n) \in 0..Interval /\ SinceBeat(n)' \in 0..Interval
    BY DEF ClusterTypeOK, SinceBeat
  <2>. QED
    BY <2>1, <2>2, <2>3, Products DEF Pending
<1>1. Tracked(m, n) => a <= Bound(m, n)
  BY DEF GapInv
\* Steps that leave the link and n's beat alone.
<1>2. ASSUME Tracked(m, n), a' = a, k' = k, nextBeat'[n] = nextBeat[n],
             OnItsWay(m, n) => OnItsWay(m, n)'
      PROVE  a' <= Bound(m, n)'
  <2>1. SinceBeat(n)' = SinceBeat(n)
    BY <1>2 DEF SinceBeat
  <2>2. Pending(m, n) <= Pending(m, n)'
    BY <1>0, <1>2 DEF Pending
  <2>. QED
    BY <1>0, <1>1, <1>2, <2>1, <2>2
<1>3. ASSUME NEW j \in Nodes, StartNode(j) PROVE a' <= Bound(m, n)'
  <2>1. m # j /\ n # j
    BY <1>3 DEF StartNode, Tracked, DownInv
  <2>2. Tracked(m, n) /\ a' = a /\ k' = k /\ nextBeat'[n] = nextBeat[n]
    BY <1>0, <1>3, <2>1 DEF StartNode, Tracked, ClusterTypeOK
  <2>3. OnItsWay(m, n) => OnItsWay(m, n)'
    BY <1>3 DEF StartNode, OnItsWay
  <2>. QED
    BY <1>2, <2>2, <2>3
<1>4. ASSUME NEW j \in Nodes, StopNode(j) \/ Crash(j) PROVE a' <= Bound(m, n)'
  <2>1. Tracked(m, n) /\ a' = a /\ k' = k /\ nextBeat' = nextBeat /\ net \subseteq net'
    BY <1>4 DEF StopNode, Crash, GoesDown, Tracked
  <2>. QED
    BY <1>2, <2>1 DEF OnItsWay
<1>5. ASSUME NEW j \in Nodes, Beat(j) PROVE a' <= Bound(m, n)'
  <2>1. Tracked(m, n) /\ a' = a /\ k' = k /\ net \subseteq net'
    BY <1>5 DEF Beat, Tracked
  <2>2. CASE j # n
    <3>1. nextBeat'[n] = nextBeat[n]
      BY <1>5, <2>2 DEF Beat, ClusterTypeOK
    <3>. QED
      BY <1>2, <2>1, <3>1 DEF OnItsWay
  <2>3. CASE j = n
    <3>1. SinceBeat(n) = Interval
      BY <1>5, <2>3 DEF Beat, SinceBeat, ClusterTypeOK
    <3>2. Pending(m, n) = 0
      BY <3>1, <1>5, <2>3, NothingAtTheBeat DEF Pending, Beat
    <3>3. OnItsWay(m, n)'
      <4>. DEFINE x == [kind |-> "beat", from |-> n, to |-> m, prio |-> EffectivePriority(n), age |-> 0]
      <4>1. x \in Sent("beat", n)
        BY <1>0 DEF Sent, Peers
      <4>. QED
        BY <1>5, <2>3, <4>1 DEF Beat, OnItsWay
    <3>. QED
      BY <1>0, <1>1, <2>1, <3>1, <3>2, <3>3 DEF Pending
  <2>. QED
    BY <2>2, <2>3
<1>6. ASSUME NEW msg \in net, NEW again \in BOOLEAN, Deliver(msg, again) PROVE a' <= Bound(m, n)'
  <2>1. msg.from \in Nodes /\ msg.to \in Nodes
    BY MessageFields
  <2>2. CASE msg.to = m /\ msg.from = n
    <3>1. CASE HandleBeat(msg.to, msg.from, msg.prio)
      <4>1. a' = 0
        BY <1>0, <2>2, <3>1 DEF HandleBeat, ClusterTypeOK
      <4>. QED
        BY <1>0, <4>1
    <3>2. CASE HandleBye(msg.to, msg.from)
      BY <2>2, <3>2 DEF HandleBye, Tracked
    <3>. QED
      BY <1>6, <3>1, <3>2 DEF Deliver
  <2>3. CASE ~(msg.to = m /\ msg.from = n)
    <3>1. <<msg.to, msg.from>> # <<m, n>>
      BY <2>3
    <3>2. a' = a /\ k' = k
      BY <1>0, <1>6, <3>1 DEF Deliver, HandleBeat, HandleBye, ClusterTypeOK
    <3>3. <<m, n>> \in heard' <=> <<m, n>> \in heard
      BY <1>6, <3>1 DEF Deliver, HandleBeat, HandleBye
    <3>4. Tracked(m, n) /\ nextBeat' = nextBeat
      BY <1>6, <3>2, <3>3 DEF Tracked, Deliver
    <3>5. OnItsWay(m, n) => OnItsWay(m, n)'
      BY <1>6, <2>3 DEF Deliver, OnItsWay
    <3>. QED
      BY <1>2, <3>2, <3>4, <3>5
  <2>. QED
    BY <2>2, <2>3
<1>7. ASSUME NEW msg \in net, Lose(msg) PROVE a' <= Bound(m, n)'
  <2>1. msg.from \in Nodes /\ msg.to \in Nodes
    BY MessageFields
  <2>2. a' = a /\ nextBeat' = nextBeat /\ up' = up /\ heard' = heard
    BY <1>7 DEF Lose
  <2>3. CASE msg.to = m /\ msg.from = n /\ msg.kind = "beat"
    <3>1. k <= Tolerance
      BY <1>0, <1>7, <2>3 DEF Lose, Tracked
    <3>2. k' = k + 1
      BY <1>0, <1>7, <2>3, <3>1 DEF Lose, ClusterTypeOK
    <3>3. k' * Interval = k * Interval + Interval
      BY <1>0, <3>2, Products
    <3>4. Tracked(m, n)
      BY <2>2, <3>1 DEF Tracked
    <3>5. SinceBeat(n)' = SinceBeat(n)
      BY <2>2 DEF SinceBeat
    <3>. QED
      BY <1>0, <1>1, <2>2, <3>3, <3>4, <3>5
  <2>4. CASE ~(msg.to = m /\ msg.from = n /\ msg.kind = "beat")
    <3>1. k' = k
      <4>1. CASE msg.kind = "beat"
        <5>1. <<msg.to, msg.from>> # <<m, n>>
          BY <2>4, <4>1
        <5>. QED
          BY <1>0, <1>7, <5>1 DEF Lose, ClusterTypeOK
      <4>2. CASE msg.kind # "beat"
        BY <1>7, <4>2 DEF Lose
      <4>. QED
        BY <4>1, <4>2
    <3>2. Tracked(m, n)
      BY <2>2, <3>1 DEF Tracked
    <3>3. OnItsWay(m, n) => OnItsWay(m, n)'
      BY <1>7, <2>4 DEF Lose, OnItsWay
    <3>. QED
      BY <1>2, <2>2, <3>1, <3>2, <3>3
  <2>. QED
    BY <2>3, <2>4
<1>8. ASSUME NEW msg \in net, Unheard(msg) PROVE a' <= Bound(m, n)'
  <2>1. Tracked(m, n) /\ a' = a /\ k' = k /\ nextBeat' = nextBeat
    BY <1>8 DEF Unheard, Tracked
  <2>2. OnItsWay(m, n) => OnItsWay(m, n)'
    BY <1>8, <2>1 DEF Unheard, OnItsWay, Tracked
  <2>. QED
    BY <1>2, <2>1, <2>2
<1>9. CASE Tick
  <2>1. Tracked(m, n) /\ k' = k
    BY <1>9 DEF Tick, Tracked
  <2>2. a' <= a + 1
    BY <1>0, <1>9 DEF Tick, Least
  <2>3. SinceBeat(n)' = SinceBeat(n) + 1
    BY <1>9, <2>1 DEF Tick, SinceBeat, Tracked, ClusterTypeOK
  <2>4. OnItsWay(m, n) => OnItsWay(m, n)'
    <3>. SUFFICES ASSUME NEW msg \in net, msg.kind = "beat" /\ msg.from = n /\ msg.to = m
                  PROVE  OnItsWay(m, n)'
      BY DEF OnItsWay
    <3>. DEFINE x == [msg EXCEPT !.age = msg.age + 1]
    <3>1. x \in net'
      BY <1>9 DEF Tick
    <3>2. x.kind = "beat" /\ x.from = n /\ x.to = m
      BY DEF ClusterTypeOK, Message
    <3>. QED
      BY <3>1, <3>2 DEF OnItsWay
  <2>5. Pending(m, n) <= Pending(m, n)'
    BY <1>0, <2>4 DEF Pending
  <2>. QED
    BY <1>0, <1>1, <2>1, <2>2, <2>3, <2>5
<1>10. ASSUME NEW j \in Nodes, ChangeUse(j) PROVE a' <= Bound(m, n)'
  BY <1>2, <1>10 DEF ChangeUse, Tracked, OnItsWay
<1>11. CASE UNCHANGED clusterVars
  BY <1>2, <1>11 DEF clusterVars, Tracked, OnItsWay
<1>. QED
  BY <1>3, <1>4, <1>5, <1>6, <1>7, <1>8, <1>9, <1>10, <1>11 DEF ClusterNext, Arrive

\* The invariant holds in every state of the cluster.
LEMMA ClusterInvariance == ClusterSpec => []ClusterInv
<1>1. ClusterInv /\ [ClusterNext]_clusterVars => ClusterInv'
  BY ClusterTypeStep, WireStep, DownStep, GapStep DEF ClusterInv
<1>. QED
  BY <1>1, ClusterInitInv, PTL DEF ClusterSpec

\* Whatever is lost, duplicated or delayed, a node that is down leaves every
\* list within NODE_TIMEOUT and the travel time of its last datagram, for any
\* number of nodes.
THEOREM GoneNodesLeave == ClusterSpec => []GoneInTime
<1>1. ClusterInv => GoneInTime
  <2>. SUFFICES ASSUME ClusterInv, NEW m \in Nodes, NEW n \in Nodes, Alive(m, n), n \notin up
                PROVE  downFor[n] < Timeout + MaxDelay
    BY DEF GoneInTime
  <2>1. age[<<m, n>>] \in Nat /\ age[<<m, n>>] < Timeout /\ downFor[n] \in Nat
    BY NodesAssumption, TimingAssumption DEF ClusterInv, ClusterTypeOK, Alive, Links, Longest
  <2>2. downFor[n] <= age[<<m, n>>] + MaxDelay
    BY <2>1 DEF ClusterInv, DownInv
  <2>. QED
    BY <2>1, <2>2, TimingAssumption
<1>. QED
  BY <1>1, ClusterInvariance, PTL

\* A running node stays listed while at most Tolerance of its beats in a row
\* are lost, for every timing with (Tolerance + 1) intervals and the travel
\* time below NODE_TIMEOUT.
THEOREM LossesTolerated == ClusterSpec => []DropsTolerated
<1>1. ClusterInv => DropsTolerated
  <2>. SUFFICES ASSUME ClusterInv, NEW m \in Nodes, NEW n \in Nodes, Tracked(m, n)
                PROVE  Alive(m, n)
    BY DEF DropsTolerated, Tracked
  <2>. DEFINE k == missed[<<m, n>>]
  <2>. USE NodesAssumption, TimingAssumption
  <2>1. age[<<m, n>>] \in Nat /\ k \in Nat /\ SinceBeat(n) \in 0..Interval
    BY DEF ClusterInv, ClusterTypeOK, Links, SinceBeat
  <2>2. k * Interval \in Nat /\ k * Interval <= Tolerance * Interval
        /\ (Tolerance + 1) * Interval = Tolerance * Interval + Interval
        /\ Tolerance * Interval \in Nat
    BY <2>1, Products DEF Tracked
  <2>3. age[<<m, n>>] <= k * Interval + SinceBeat(n) + Pending(m, n)
    BY DEF ClusterInv, GapInv
  <2>4. CASE OnItsWay(m, n)
    <3>1. SinceBeat(n) <= MaxDelay /\ Pending(m, n) = Interval
      BY <2>4, NothingAtTheBeat DEF ClusterInv, Tracked, Pending
    <3>. QED
      BY <2>1, <2>2, <2>3, <3>1 DEF Alive
  <2>5. CASE ~OnItsWay(m, n)
    BY <2>1, <2>2, <2>3, <2>5 DEF Pending, Alive
  <2>. QED
    BY <2>4, <2>5
<1>. QED
  BY <1>1, ClusterInvariance, PTL
-------------------------------------------------------------------------------
(* The order of preference *)

\* A set of natural numbers has a least element.
LEMMA LeastNumber ==
    ASSUME NEW T \in SUBSET Nat, T # {}
    PROVE  \E x \in T : \A y \in T : x <= y
<1>1. \E x \in T : \A y \in T : ~(<<y, x>> \in OpToRel(<, Nat))
  BY WFMin, NatLessThanWellFounded
<1>2. \A x, y \in Nat : <<y, x>> \in OpToRel(<, Nat) <=> y < x
  BY DEF OpToRel
<1>3. \E x \in T : \A y \in T : ~(y < x)
  BY <1>1, <1>2, Zenon
<1> QED BY <1>3

\* By rank, the highest first, and by name among equals.
Precedes(r, n, o) == r[n] > r[o] \/ (r[n] = r[o] /\ n < o)

\* Every element of S once, those that precede others first.
Ordered(s, S, r) ==
    /\ s \in [1..Cardinality(S) -> S]
    /\ \A i, j \in 1..Cardinality(S) : i < j => Precedes(r, s[i], s[j])

\* A finite set that is not empty has a first element.
LEMMA FirstExists ==
    ASSUME NEW r \in [Nodes -> Nat],
           NEW S \in SUBSET Nodes, S # {}
    PROVE  \E x \in S : \A y \in S \ {x} : Precedes(r, x, y)
<1> DEFINE Without(k) == \E T \in SUBSET Nodes :
                            /\ T # {} /\ IsFiniteSet(T) /\ Cardinality(T) = k
                            /\ ~ \E x \in T : \A y \in T \ {x} : Precedes(r, x, y)
           Bad == {k \in Nat : Without(k)}
<1>1. ASSUME Bad # {} PROVE FALSE
  <2>1. PICK k \in Bad : \A l \in Bad : k <= l
    <3> HIDE DEF Bad
    <3>1. Bad \in SUBSET Nat
      BY DEF Bad
    <3> QED BY <1>1, <3>1, LeastNumber
  <2>2. PICK T \in SUBSET Nodes :
            /\ T # {} /\ IsFiniteSet(T) /\ Cardinality(T) = k
            /\ ~ \E x \in T : \A y \in T \ {x} : Precedes(r, x, y)
    BY <2>1
  <2>3. PICK x \in T : TRUE
    BY <2>2
  <2>4. IsFiniteSet(T \ {x}) /\ Cardinality(T \ {x}) = k - 1 /\ k \in Nat
    BY <2>2, <2>3, FS_RemoveElement, FS_CardinalityType
  <2>5. T \ {x} # {}
    BY <2>2, <2>3
  <2>6. k - 1 \in Nat
    BY <2>4, FS_CardinalityType
  <2>7. k - 1 \notin Bad
    BY <2>1, <2>4
  <2>8. PICK y \in T \ {x} : \A z \in (T \ {x}) \ {y} : Precedes(r, y, z)
    BY <2>2, <2>4, <2>5, <2>6, <2>7
  <2>9. x \in Nodes /\ y \in Nodes /\ x \in Nat /\ y \in Nat /\ r[x] \in Nat /\ r[y] \in Nat
    BY <2>2, <2>3, <2>8, NodesAssumption
  <2>10. CASE Precedes(r, x, y)
    <3>1. ASSUME NEW z \in T \ {x} PROVE Precedes(r, x, z)
      <4>1. z = y \/ Precedes(r, y, z)
        BY <2>8, <3>1
      <4>2. z \in Nat /\ r[z] \in Nat
        BY <2>2, <3>1, NodesAssumption
      <4> QED BY <2>9, <2>10, <4>1, <4>2 DEF Precedes
    <3> QED BY <2>2, <2>3, <3>1
  <2>11. CASE ~Precedes(r, x, y)
    <3>1. Precedes(r, y, x)
      BY <2>8, <2>9, <2>11 DEF Precedes
    <3>2. \A z \in T \ {y} : Precedes(r, y, z)
      BY <2>8, <3>1
    <3> QED BY <2>2, <2>8, <3>2
  <2> QED BY <2>10, <2>11
<1>2. IsFiniteSet(S) /\ Cardinality(S) \in Nat
  BY NodesAssumption, FS_Subset, FS_CardinalityType
<1> QED BY <1>1, <1>2

\* So it can be put in order.
LEMMA OrderExists ==
    ASSUME NEW r \in [Nodes -> Nat], NEW S \in SUBSET Nodes
    PROVE  \E s : Ordered(s, S, r)
<1> DEFINE Without(k) == \E T \in SUBSET Nodes : /\ IsFiniteSet(T) /\ Cardinality(T) = k
                                                /\ ~ \E s : Ordered(s, T, r)
           Bad == {k \in Nat : Without(k)}
<1>1. ASSUME Bad # {} PROVE FALSE
  <2>1. PICK k \in Bad : \A l \in Bad : k <= l
    <3> HIDE DEF Bad
    <3>1. Bad \in SUBSET Nat
      BY DEF Bad
    <3> QED BY <1>1, <3>1, LeastNumber
  <2>2. PICK T \in SUBSET Nodes : /\ IsFiniteSet(T) /\ Cardinality(T) = k
                                  /\ ~ \E s : Ordered(s, T, r)
    BY <2>1
  <2>3. CASE T = {}
    <3>1. Cardinality(T) = 0
      BY <2>3, FS_EmptySet
    <3>2. Ordered([i \in 1..0 |-> i], T, r)
      BY <3>1 DEF Ordered
    <3> QED BY <2>2, <3>2
  <2>4. CASE T # {}
    <3>1. PICK x \in T : \A y \in T \ {x} : Precedes(r, x, y)
      BY <2>2, <2>4, FirstExists
    <3>2. IsFiniteSet(T \ {x}) /\ Cardinality(T \ {x}) = k - 1 /\ k \in Nat
      BY <2>2, <3>1, FS_RemoveElement, FS_CardinalityType
    <3>3. k - 1 \in Nat
      BY <3>2, FS_CardinalityType
    <3>4. k - 1 \notin Bad
      BY <2>1, <3>2
    <3>5. PICK t : Ordered(t, T \ {x}, r)
      BY <2>2, <3>2, <3>3, <3>4
    <3> DEFINE s == [i \in 1..k |-> IF i = 1 THEN x ELSE t[i - 1]]
    <3>6. /\ t \in [1..(k - 1) -> T \ {x}]
          /\ \A i, j \in 1..(k - 1) : i < j => Precedes(r, t[i], t[j])
      BY <3>2, <3>5 DEF Ordered
    <3>7. \A i \in 1..k : i # 1 => i - 1 \in 1..(k - 1)
      BY <3>2
    <3>8. s \in [1..k -> T]
      BY <3>1, <3>6, <3>7
    <3>9. ASSUME NEW i \in 1..k, NEW j \in 1..k, i < j PROVE Precedes(r, s[i], s[j])
      <4>1. j # 1 /\ s[j] = t[j - 1] /\ t[j - 1] \in T \ {x}
        BY <3>2, <3>6, <3>7, <3>9
      <4>2. CASE i = 1
        BY <3>1, <4>1, <4>2
      <4>3. CASE i # 1
        <5>1. s[i] = t[i - 1] /\ i - 1 \in 1..(k - 1) /\ j - 1 \in 1..(k - 1) /\ i - 1 < j - 1
          BY <3>2, <3>7, <3>9, <4>1, <4>3
        <5> QED BY <3>6, <4>1, <5>1
      <4> QED BY <4>2, <4>3
    <3> HIDE DEF s
    <3>10. Ordered(s, T, r)
      BY <2>2, <3>8, <3>9 DEF Ordered
    <3> QED BY <2>2, <3>10
  <2> QED BY <2>3, <2>4
<1>2. IsFiniteSet(S) /\ Cardinality(S) \in Nat
  BY NodesAssumption, FS_Subset, FS_CardinalityType
<1> QED BY <1>1, <1>2

\* A list in order leaves nobody out.
LEMMA OrderedIsOnto ==
    ASSUME NEW r \in [Nodes -> Nat], NEW S \in SUBSET Nodes, NEW s, Ordered(s, S, r)
    PROVE  /\ \A i, j \in 1..Cardinality(S) : i # j => s[i] # s[j]
           /\ \A x \in S : \E i \in 1..Cardinality(S) : s[i] = x
<1> DEFINE k == Cardinality(S)
<1>1. IsFiniteSet(S) /\ k \in Nat
  BY NodesAssumption, FS_Subset, FS_CardinalityType
<1>2. s \in [1..k -> S] /\ \A i, j \in 1..k : i < j => Precedes(r, s[i], s[j])
  BY DEF Ordered
<1>3. ASSUME NEW i \in 1..k, NEW j \in 1..k, i # j PROVE s[i] # s[j]
  <2>1. Precedes(r, s[i], s[j]) \/ Precedes(r, s[j], s[i])
    BY <1>1, <1>2, <1>3
  <2>2. s[i] \in Nat /\ s[j] \in Nat /\ r[s[i]] \in Nat /\ r[s[j]] \in Nat
    BY <1>2, NodesAssumption
  <2> QED BY <2>1, <2>2 DEF Precedes
<1>4. Cardinality(1..k) = k /\ IsFiniteSet(1..k)
  BY <1>1, FS_Interval
<1> HIDE DEF k
<1>5. s \in Injection(1..k, S)
  BY <1>2, <1>3 DEF Injection, IsInjective
<1>6. s \in Surjection(1..k, S)
  BY <1>1, <1>4, <1>5, FS_Injection DEF k
<1>7. \A x \in S : \E i \in 1..k : s[i] = x
  BY <1>6 DEF Surjection
<1> QED BY <1>3, <1>7 DEF k

\* And there is only one order.
LEMMA OrderUnique ==
    ASSUME NEW r \in [Nodes -> Nat], NEW S \in SUBSET Nodes,
           NEW s, NEW t, Ordered(s, S, r), Ordered(t, S, r)
    PROVE  s = t
<1> DEFINE k == Cardinality(S)
           Differ == {i \in 1..k : s[i] # t[i]}
<1>1. IsFiniteSet(S) /\ k \in Nat
  BY NodesAssumption, FS_Subset, FS_CardinalityType
<1>2. /\ s \in [1..k -> S] /\ \A i, j \in 1..k : i < j => Precedes(r, s[i], s[j])
      /\ t \in [1..k -> S] /\ \A i, j \in 1..k : i < j => Precedes(r, t[i], t[j])
  BY DEF Ordered
<1>3. ASSUME Differ # {} PROVE FALSE
  <2>1. PICK i \in Differ : \A j \in Differ : i <= j
    <3> HIDE DEF Differ
    <3>1. Differ \in SUBSET Nat
      BY <1>1 DEF Differ
    <3> QED BY <1>3, <3>1, LeastNumber
  <2>2. PICK j \in 1..k : t[j] = s[i]
    <3>1. s[i] \in S
      BY <1>2, <2>1
    <3>2. \A x \in S : \E l \in 1..k : t[l] = x
      BY OrderedIsOnto
    <3> QED BY <3>1, <3>2
  <2>3. PICK l \in 1..k : s[l] = t[i]
    <3>1. t[i] \in S
      BY <1>2, <2>1
    <3>2. \A x \in S : \E h \in 1..k : s[h] = x
      BY OrderedIsOnto
    <3> QED BY <3>1, <3>2
  <2>4. i \in 1..k /\ s[i] # t[i] /\ \A x \in 1..k : x < i => s[x] = t[x]
    BY <1>1, <2>1
  <2>5. j > i
    <3>1. j # i
      BY <2>2, <2>4
    <3>2. ~(j < i)
      <4>1. j < i => s[j] = s[i] /\ j # i
        BY <1>1, <2>2, <2>4
      <4> QED BY <2>2, <2>4, <4>1, OrderedIsOnto
    <3> QED BY <1>1, <2>2, <2>4, <3>1, <3>2
  <2>6. l > i
    <3>1. l # i
      BY <2>3, <2>4
    <3>2. ~(l < i)
      <4>1. l < i => t[l] = t[i] /\ l # i
        BY <1>1, <2>3, <2>4
      <4> QED BY <2>3, <2>4, <4>1, OrderedIsOnto
    <3> QED BY <1>1, <2>3, <2>4, <3>1, <3>2
  <2>7. Precedes(r, t[i], s[i]) /\ Precedes(r, s[i], t[i])
    BY <1>2, <2>2, <2>3, <2>4, <2>5, <2>6
  <2>8. s[i] \in Nat /\ t[i] \in Nat /\ r[s[i]] \in Nat /\ r[t[i]] \in Nat
    BY <1>2, <2>4, NodesAssumption
  <2> QED BY <2>7, <2>8 DEF Precedes
<1>4. \A i \in 1..k : s[i] = t[i]
  BY <1>3
<1> HIDE DEF k, Differ
<1>5. s = [i \in 1..k |-> s[i]] /\ t = [i \in 1..k |-> t[i]]
  BY <1>2
<1> QED BY <1>4, <1>5

\* The ranks that a node gives to the nodes.
Ranks(m) == [n \in Nodes |-> Rank(m, n)]

LEMMA RanksTyped ==
    ASSUME ClusterTypeOK, NEW m \in Nodes
    PROVE  /\ Ranks(m) \in [Nodes -> Nat] /\ Listed(m) \in SUBSET Nodes
           /\ \A n, o \in Nodes : Before(m, n, o) <=> Precedes(Ranks(m), n, o)
<1>1. ASSUME NEW n \in Nodes PROVE Rank(m, n) \in Nat
  BY NodesAssumption DEF Rank, EffectivePriority, ClusterTypeOK, Links
<1> QED BY <1>1 DEF Ranks, Before, Precedes, Listed

\* resolver_order() is the list of the nodes that are there, in order.
LEMMA OrderOf ==
    ASSUME ClusterTypeOK, NEW m \in Nodes
    PROVE  Ordered(resolver_order(m), Listed(m), Ranks(m))
<1> DEFINE F == [1..Cardinality(Listed(m)) -> Listed(m)]
           Good(s) == \A i, j \in DOMAIN s : i < j => Before(m, s[i], s[j])
<1>1. Ranks(m) \in [Nodes -> Nat] /\ Listed(m) \in SUBSET Nodes
  BY RanksTyped
<1>2. PICK s : Ordered(s, Listed(m), Ranks(m))
  BY <1>1, OrderExists
<1>3. ASSUME NEW u \in F PROVE Good(u) <=> Ordered(u, Listed(m), Ranks(m))
  <2>1. \A i \in 1..Cardinality(Listed(m)) : u[i] \in Nodes
    BY <1>1
  <2> QED BY <2>1, RanksTyped DEF Ordered
<1>4. s \in F /\ Good(s)
  BY <1>2, <1>3 DEF Ordered
<1>5. resolver_order(m) = CHOOSE u \in F : Good(u)
  BY DEF resolver_order
<1> HIDE DEF F, Good
<1>6. resolver_order(m) \in F /\ Good(resolver_order(m))
  BY <1>4, <1>5
<1> QED BY <1>3, <1>6

\* The list a node hands out: everyone it takes to be there and nobody else,
\* each once, and nobody before a node that is preferred.
Preference(m) ==
    LET s == resolver_order(m)
    IN  /\ DOMAIN s = 1..Cardinality(Listed(m))
        /\ {s[i] : i \in DOMAIN s} = Listed(m)
        /\ \A i, j \in DOMAIN s : i < j => Before(m, s[i], s[j])

\* Nodes that know the same hand out the same list.
SameView(m, n) == Listed(m) = Listed(n) /\ \A o \in Listed(m) : Rank(m, o) = Rank(n, o)

OrdersDefinite ==
    /\ \A m \in Nodes : Preference(m)
    /\ \A m, n \in Nodes : SameView(m, n) => resolver_order(m) = resolver_order(n)

\* It is what it has to be, and there is no other such list.
LEMMA DefiniteOrders == ASSUME ClusterTypeOK PROVE OrdersDefinite
<1>1. ASSUME NEW m \in Nodes PROVE Preference(m)
  <2> DEFINE s == resolver_order(m)
             k == Cardinality(Listed(m))
  <2>1. Ordered(s, Listed(m), Ranks(m)) /\ Ranks(m) \in [Nodes -> Nat] /\ Listed(m) \in SUBSET Nodes
    BY OrderOf, RanksTyped
  <2>2. s \in [1..k -> Listed(m)] /\ \A i, j \in 1..k : i < j => Precedes(Ranks(m), s[i], s[j])
    BY <2>1 DEF Ordered
  <2>3. \A x \in Listed(m) : \E i \in 1..k : s[i] = x
    BY <2>1, OrderedIsOnto
  <2> HIDE DEF s, k
  <2>4. {s[i] : i \in DOMAIN s} = Listed(m)
    BY <2>2, <2>3
  <2>5. \A i, j \in 1..k : i < j => Before(m, s[i], s[j])
    BY <2>1, <2>2, RanksTyped
  <2> QED BY <2>2, <2>4, <2>5 DEF Preference, s, k
<1>2. ASSUME NEW m \in Nodes, NEW n \in Nodes, SameView(m, n)
      PROVE  resolver_order(m) = resolver_order(n)
  <2> DEFINE s == resolver_order(m)
             t == resolver_order(n)
  <2>1. /\ Ordered(s, Listed(m), Ranks(m)) /\ Ordered(t, Listed(n), Ranks(n))
        /\ Ranks(m) \in [Nodes -> Nat] /\ Listed(m) \in SUBSET Nodes
    BY OrderOf, RanksTyped
  <2>2. \A o \in Listed(m) : Ranks(m)[o] = Ranks(n)[o]
    BY <1>2, <2>1 DEF SameView, Ranks
  <2>3. Ordered(t, Listed(m), Ranks(n))
    BY <1>2, <2>1 DEF SameView
  <2> HIDE DEF s, t
  <2>4. Ordered(t, Listed(m), Ranks(m))
    BY <2>2, <2>3 DEF Ordered, Precedes
  <2> QED BY <2>1, <2>4, OrderUnique DEF s, t
<1> QED BY <1>1, <1>2 DEF OrdersDefinite

\* The list is definite, for any nodes and priorities, equal ones too: what a
\* node hands out depends only on whom it takes to be there and on what they
\* told it (Cluster.resolver_order of cluster.py).
THEOREM OrderIsDefinite == ClusterSpec => []OrdersDefinite
  BY DefiniteOrders, ClusterTypeCorrect, PTL

\* All nodes run and have heard each other; what they know of each other's
\* priority, and what is on its way, is as things are.
Settled ==
    /\ up = Nodes
    /\ \A m, n \in Nodes : m # n =>
          /\ <<m, n>> \in heard /\ missed[<<m, n>>] <= Tolerance
          /\ prio[<<m, n>>] = EffectivePriority(n)
    /\ \A msg \in net : msg.kind = "beat" /\ msg.prio = EffectivePriority(msg.from)

OrdersAgree == \A m, n \in Nodes : resolver_order(m) = resolver_order(n)

\* What is settled stays so through beats, deliveries in any order, duplicates
\* and time.
LEMMA SettledStep ==
    ASSUME ClusterTypeOK, Settled, ClusterNext, faults' = faults
    PROVE  Settled'
<1>1. \A n \in Nodes : n \in up
  BY DEF Settled
<1>2. faults \in Nat /\ ~Fault
  BY NodesAssumption DEF ClusterTypeOK, Fault
<1>3. ASSUME NEW n \in Nodes, Beat(n) PROVE Settled'
  <2>1. ASSUME NEW msg \in net' PROVE msg.kind = "beat" /\ msg.prio = EffectivePriority(msg.from)'
    <3>1. CASE msg \in net
      BY <1>3, <3>1 DEF Beat, Settled, EffectivePriority
    <3>2. CASE msg \in Sent("beat", n)
      BY <1>3, <3>2 DEF Beat, Sent, EffectivePriority
    <3> QED BY <1>3, <2>1, <3>1, <3>2 DEF Beat
  <2> QED BY <1>3, <2>1 DEF Beat, Settled, EffectivePriority
<1>4. ASSUME NEW msg \in net, NEW again \in BOOLEAN, Deliver(msg, again) PROVE Settled'
  <2>1. msg.kind = "beat" /\ msg.prio = EffectivePriority(msg.from)
    BY DEF Settled
  <2>2. msg.to \in Nodes /\ msg.from \in Nodes
    BY DEF ClusterTypeOK, Message
  <2>3. HandleBeat(msg.to, msg.from, msg.prio) /\ up' = up /\ idle' = idle /\ net' \subseteq net
    BY <1>4, <2>1 DEF Deliver
  <2>4. \A n \in Nodes : EffectivePriority(n)' = EffectivePriority(n)
    BY <2>3 DEF EffectivePriority
  <2>5. ASSUME NEW m \in Nodes, NEW n \in Nodes, m # n
        PROVE  /\ <<m, n>> \in heard' /\ missed'[<<m, n>>] <= Tolerance
               /\ prio'[<<m, n>>] = EffectivePriority(n)
    <3>1. <<m, n>> \in Links /\ missed \in [Links -> 0..Tolerance + 1] /\ prio \in [Links -> Nat]
      BY DEF ClusterTypeOK, Links
    <3>2. /\ heard' = heard \cup {<<msg.to, msg.from>>}
          /\ missed' = [missed EXCEPT ![<<msg.to, msg.from>>] = 0]
          /\ prio' = [prio EXCEPT ![<<msg.to, msg.from>>] = msg.prio]
      BY <1>1, <2>2, <2>3 DEF HandleBeat
    <3>3. /\ <<m, n>> \in heard /\ missed[<<m, n>>] <= Tolerance
          /\ prio[<<m, n>>] = EffectivePriority(n) /\ 0 <= Tolerance
      BY <2>5, NodesAssumption DEF Settled
    <3>4. CASE <<m, n>> = <<msg.to, msg.from>>
      BY <2>1, <3>1, <3>2, <3>3, <3>4
    <3>5. CASE <<m, n>> # <<msg.to, msg.from>>
      BY <3>1, <3>2, <3>3, <3>5
    <3> QED BY <3>4, <3>5
  <2>6. ASSUME NEW other \in net' PROVE other.kind = "beat" /\ other.prio = EffectivePriority(other.from)'
    BY <2>3, <2>6 DEF Settled, EffectivePriority
  <2> QED BY <2>3, <2>4, <2>5, <2>6 DEF Settled
<1>5. CASE Tick
  <2>1. up' = up /\ idle' = idle /\ prio' = prio /\ heard' = heard /\ missed' = missed
    BY <1>5 DEF Tick
  <2>2. ASSUME NEW msg \in net' PROVE msg.kind = "beat" /\ msg.prio = EffectivePriority(msg.from)'
    <3>1. PICK old \in net : msg = [old EXCEPT !.age = @ + 1]
      BY <1>5, <2>2 DEF Tick
    <3>2. old \in Message
      BY DEF ClusterTypeOK
    <3>3. msg.kind = old.kind /\ msg.prio = old.prio /\ msg.from = old.from
      BY <3>1, <3>2 DEF Message
    <3> QED BY <2>1, <3>3 DEF Settled, EffectivePriority
  <2> QED BY <2>1, <2>2 DEF Settled, EffectivePriority
<1>6. ASSUME NEW n \in Nodes PROVE ~StartNode(n) /\ ~StopNode(n) /\ ~Crash(n) /\ ~ChangeUse(n)
  BY <1>1, <1>2 DEF StartNode, StopNode, Crash, GoesDown, ChangeUse, Fault
<1>7. ASSUME NEW msg \in net PROVE ~Lose(msg) /\ ~Unheard(msg)
  BY <1>1, <1>2 DEF Lose, Unheard, Fault, ClusterTypeOK, Message
<1> QED BY <1>3, <1>4, <1>5, <1>6, <1>7 DEF ClusterNext, Arrive

\* And settled nodes agree.
LEMMA SettledAgrees ==
    ASSUME ClusterTypeOK, DropsTolerated, Settled
    PROVE  OrdersAgree
<1>1. ASSUME NEW m \in Nodes PROVE Listed(m) = Nodes
  <2>1. \A n \in Nodes : n # m => Alive(m, n)
    BY DEF DropsTolerated, Settled
  <2> QED BY <2>1 DEF Listed
<1>2. ASSUME NEW m \in Nodes, NEW n \in Nodes PROVE Rank(m, n) = EffectivePriority(n)
  BY DEF Rank, Settled
<1>3. \A m, n \in Nodes : SameView(m, n)
  BY <1>1, <1>2 DEF SameView
<1> QED BY <1>3, DefiniteOrders DEF OrdersAgree, OrdersDefinite

\* The safety half of Agreement: nodes that have told each other how things are
\* hand out the same list, and go on doing so until something fails or changes.
THEOREM AgreementLasts ==
    ClusterSpec => /\ [](Settled => OrdersAgree)
                   /\ [][Settled /\ faults' = faults => Settled']_clusterVars
<1>1. ClusterTypeOK /\ DropsTolerated => (Settled => OrdersAgree)
  BY SettledAgrees
<1>2. ClusterTypeOK /\ [ClusterNext]_clusterVars
        => [Settled /\ faults' = faults => Settled']_clusterVars
  BY SettledStep
<1> QED BY <1>1, <1>2, ClusterTypeCorrect, LossesTolerated, PTL DEF ClusterSpec
===============================================================================
