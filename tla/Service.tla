-------------------------------- MODULE Service --------------------------------
(***************************************************************************)
(* symbivpn/app.py, class Application: the order in which the main thread  *)
(* starts and stops the query log, the listeners and the maintenance       *)
(* thread, composed with the threads of those parts; and DNSCache.save(),  *)
(* which the maintenance thread and the shutdown both call.  The gateway   *)
(* and the cluster have modules of their own; the dashboard is in Access.  *)
(*                                                                         *)
(* The cache file is reduced to whether it is one whole snapshot.  save()  *)
(* writes a temporary file of a fixed name and renames it, outside any     *)
(* lock: a writer that truncates the temporary file while another renames  *)
(* it leaves a torn file.                                                  *)
(***************************************************************************)
EXTENDS Listeners

VARIABLES
    main,       \* where the main thread is
    upkeep,     \* where the maintenance thread is
    appStop,    \* Application._stop
    outlived,   \* stop() stopped waiting for the maintenance thread
    tmpOpen,    \* the threads that have truncated the temporary file
    tmpMoved,   \* one of them is writing to the file it was renamed to
    cacheFile   \* "whole" or "torn"

saveVars == <<tmpOpen, tmpMoved, cacheFile>>
appVars == <<main, upkeep, appStop, outlived>>
vars == <<logVars, dnsVars, appVars, saveVars>>

TypeOK ==
    /\ LogTypeOK /\ DnsTypeOK
    /\ main \in {"boot", "dns", "threads", "up", "failed", "join", "close",
                 "listeners", "pools", "reset", "save", "replace", "log",
                 "drain", "database", "off"}
    /\ upkeep \in {"off", "sleep", "busy", "saving", "ended"}
    /\ appStop \in BOOLEAN /\ outlived \in BOOLEAN
    /\ tmpOpen \subseteq {"main", "upkeep"}
    /\ tmpMoved \in BOOLEAN
    /\ cacheFile \in {"whole", "torn"}

Init ==
    /\ LogInit /\ DnsInit
    /\ main = "boot"
    /\ upkeep = "off"
    /\ appStop = FALSE
    /\ outlived = FALSE
    /\ tmpOpen = {}
    /\ tmpMoved = FALSE
    /\ cacheFile = "whole"

MainTo(from, to) == main = from /\ main' = to

-------------------------------------------------------------------------------
(* DNSCache.save() *)

SaveOpen(w) ==
    /\ tmpOpen' = tmpOpen \cup {w}
    /\ UNCHANGED <<tmpMoved, cacheFile>>

\* The bytes are written and the file renamed.  If the other thread has
\* truncated it meanwhile, what is renamed is its unfinished file; when that
\* thread is done there is nothing left to rename, and the file holds the
\* shorter of the two over the longer.
SaveReplace(w) ==
    /\ tmpOpen' = tmpOpen \ {w}
    /\ \/ /\ tmpMoved
          /\ tmpMoved' = FALSE
          /\ cacheFile' \in {"whole", "torn"}
       \/ /\ ~tmpMoved /\ tmpOpen' # {}
          /\ tmpMoved' = TRUE
          /\ cacheFile' = "torn"
       \/ /\ ~tmpMoved /\ tmpOpen' = {}
          /\ cacheFile' = "whole"
          /\ UNCHANGED tmpMoved

-------------------------------------------------------------------------------
(* The maintenance thread: _maintain() *)

\* self._stop.wait(60): a minute passed, or the service is stopping.
UpkeepWakes ==
    /\ upkeep = "sleep"
    /\ upkeep' = IF appStop THEN "ended" ELSE "busy"
    /\ UNCHANGED <<logVars, dnsVars, main, appStop, outlived, saveVars>>

\* The blocklists are refreshed and the log pruned, when due; then the
\* cache is saved, when due.
UpkeepWorks ==
    /\ upkeep = "busy"
    /\ \/ upkeep' = "sleep" /\ UNCHANGED saveVars
       \/ upkeep' = "saving" /\ SaveOpen("upkeep")
    /\ UNCHANGED <<logVars, dnsVars, main, appStop, outlived>>

UpkeepSaves ==
    /\ upkeep = "saving"
    /\ upkeep' = "sleep"
    /\ SaveReplace("upkeep")
    /\ UNCHANGED <<logVars, dnsVars, main, appStop, outlived>>

Upkeep == UpkeepWakes \/ UpkeepWorks \/ UpkeepSaves

-------------------------------------------------------------------------------
(* The main thread: start(), run_forever(), stop() *)

StartLog ==
    /\ MainTo("boot", "dns")
    /\ LogStart
    /\ UNCHANGED <<dnsVars, upkeep, appStop, outlived, saveVars>>

\* An address that cannot be bound ends the program.
StartDns ==
    /\ \/ MainTo("dns", "threads") /\ DnsStart
       \/ MainTo("dns", "failed") /\ UNCHANGED dnsVars
    /\ UNCHANGED <<logVars, upkeep, appStop, outlived, saveVars>>

StartUpkeep ==
    /\ MainTo("threads", "up")
    /\ upkeep' = "sleep"
    /\ UNCHANGED <<logVars, dnsVars, appStop, outlived, saveVars>>

\* SIGTERM or SIGINT reached run_forever().
Shutdown ==
    /\ MainTo("up", "join")
    /\ appStop' = TRUE
    /\ UNCHANGED <<logVars, dnsVars, upkeep, outlived, saveVars>>

\* Mutant: nobody waits for the maintenance thread.
StopUpkeepNoJoin ==
    /\ MainTo("join", "close")
    /\ UNCHANGED <<logVars, dnsVars, upkeep, appStop, outlived, saveVars>>

\* join(timeout=5) on a thread that may be downloading blocklists.
StopUpkeep ==
    /\ MainTo("join", "close")
    /\ outlived' = (upkeep # "ended")
    /\ UNCHANGED <<logVars, dnsVars, upkeep, appStop, saveVars>>

CloseSockets ==
    /\ MainTo("close", "listeners")
    /\ DnsStopSet
    /\ UNCHANGED <<logVars, upkeep, appStop, outlived, saveVars>>

\* join(timeout=3) on each listener: it has left or it has not.
JoinListeners ==
    /\ MainTo("listeners", "pools")
    /\ UNCHANGED <<logVars, dnsVars, upkeep, appStop, outlived, saveVars>>

ShutPools ==
    /\ MainTo("pools", "reset")
    /\ DnsShutPools
    /\ UNCHANGED <<logVars, upkeep, appStop, outlived, saveVars>>

ResetSlots ==
    /\ MainTo("reset", "save")
    /\ DnsReset
    /\ UNCHANGED <<logVars, upkeep, appStop, outlived, saveVars>>

OpenCache ==
    /\ MainTo("save", "replace")
    /\ SaveOpen("main")
    /\ UNCHANGED <<logVars, dnsVars, upkeep, appStop, outlived>>

ReplaceCache ==
    /\ MainTo("replace", "log")
    /\ SaveReplace("main")
    /\ UNCHANGED <<logVars, dnsVars, upkeep, appStop, outlived>>

StopLog ==
    /\ MainTo("log", "drain")
    /\ LogStopSet
    /\ UNCHANGED <<dnsVars, upkeep, appStop, outlived, saveVars>>

\* Mutant: join() without a timeout.
JoinWriterForever ==
    /\ MainTo("drain", "database")
    /\ LogJoin /\ UNCHANGED gaveUp
    /\ UNCHANGED <<dnsVars, upkeep, appStop, outlived, saveVars>>

JoinWriter ==
    /\ MainTo("drain", "database")
    /\ LogJoin
    /\ UNCHANGED <<dnsVars, upkeep, appStop, outlived, saveVars>>

CloseLog ==
    /\ MainTo("database", "off")
    /\ LogClose
    /\ UNCHANGED <<dnsVars, upkeep, appStop, outlived, saveVars>>

Stop == StopUpkeep \/ CloseSockets \/ JoinListeners \/ ShutPools \/ ResetSlots
        \/ OpenCache \/ ReplaceCache \/ StopLog \/ JoinWriter \/ CloseLog

-------------------------------------------------------------------------------
Alone == UNCHANGED <<appVars, saveVars>>

Threads == DnsThreads /\ Alone
Writer == Drain /\ UNCHANGED <<dnsVars, appVars, saveVars>>

Next ==
    \/ StartLog \/ StartDns \/ StartUpkeep \/ Shutdown \/ Stop
    \/ Threads \/ Writer \/ Upkeep

Spec == Init /\ [][Next]_vars

(***************************************************************************)
(* Fairness: a worker that is free takes what is queued, the main thread   *)
(* does not stall, and the engine answers or fails in bounded time         *)
(* (Resolution!QueryReturns).  The log's writer owes nothing either.  A    *)
(* TCP client owes nothing: a connection may stay silent for ever, and no  *)
(* client need send anything.  Nobody has to stop the service.             *)
(***************************************************************************)
Fairness ==
    /\ WF_vars(UdpBegin /\ Alone) /\ WF_vars(TcpBegin /\ Alone)
    /\ \A d \in Datagrams : WF_vars((UdpSubmit(d) \/ UdpAnswer(d)) /\ Alone)
    /\ WF_vars(Stop)

FairSpec == Spec /\ Fairness

-------------------------------------------------------------------------------
(* Properties; NoRowStranded is in QueryLog *)

\* The listener's counters decide as Admission says: a connection gets a
\* slot exactly when there is one, however claims, releases, cancelled
\* futures and the reset of stop() interleave (server.py:300).  Once the
\* pools are shut no decision matters any more.
Slots == INSTANCE Admission WITH
    admitted <- {k \in Connections :
                    conn[k] \in {"claimed", "queued", "serving"}},
    turned <- {k \in Connections : conn[k] = "refused"},
    open <- pools \in {"none", "up"}

SlotSpec == Slots!Spec

\* The persisted cache is always one whole snapshot, even if the program
\* dies, as long as the maintenance thread ended before the shutdown saved
\* (app.py:215): the rename replaces the old file only by a finished one.
CacheFileWhole == ~outlived => cacheFile = "whole"

\* Idle TCP connections cost UDP nothing and cost each other nothing: a
\* query or a connection the listener handed over is taken up by a worker,
\* or dropped by stop(), although a TCP client may stay silent for ever
\* (server.py:97, server.py:124).
QueryServed ==
    /\ \A d \in Datagrams : dgram[d] = "queued" ~> dgram[d] # "queued"
    /\ \A k \in Connections : conn[k] = "queued" ~> conn[k] # "queued"

\* A shutdown comes to its end, whatever the threads it waits for do.
StopEnds == main = "join" ~> main = "off"
===============================================================================
