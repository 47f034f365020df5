------------------------------- MODULE QueryLog -------------------------------
(***************************************************************************)
(* symbivpn/stats.py, class QueryLog: record() puts a row on a bounded     *)
(* queue without ever blocking, one writer thread drains it into SQLite in *)
(* batches, and stop() asks the writer to finish, waits a bounded time and *)
(* closes the database.                                                    *)
(*                                                                         *)
(* A row is reduced to whether it was recorded before stop() was called    *)
(* ("early") or after ("late"); "pill" is the None that wakes the writer.  *)
(* SQLite is external: a write succeeds, or fails and loses the batch.     *)
(***************************************************************************)
EXTENDS Integers, Sequences

CONSTANTS
    QueueMax,   \* maxsize of the queue
    BatchSize   \* batch_size

ASSUME LogAssumption == QueueMax \in Nat \ {0} /\ BatchSize \in Nat \ {0}

VARIABLES
    queue,        \* self._queue
    batch,        \* the writer's batch
    writer,       \* where the writer thread is
    connection,   \* self._connection: "none", "open" or "closed"
    logStop,      \* self._stop
    gaveUp        \* stop() stopped waiting for the writer

logVars == <<queue, batch, writer, connection, logStop, gaveUp>>

Rows == {"early", "late"}

LogTypeOK ==
    /\ queue \in Seq(Rows \cup {"pill"}) /\ Len(queue) <= QueueMax
    /\ batch \in Seq(Rows) /\ Len(batch) <= BatchSize
    /\ writer \in {"off", "loop", "get", "flush", "leave", "ended"}
    /\ connection \in {"none", "open", "closed"}
    /\ logStop \in BOOLEAN
    /\ gaveUp \in BOOLEAN

LogInit ==
    /\ queue = <<>>
    /\ batch = <<>>
    /\ writer = "off"
    /\ connection = "none"
    /\ logStop = FALSE
    /\ gaveUp = FALSE

\* start(): open the database, prune it, start the writer.
LogStart ==
    /\ writer = "off"
    /\ connection' = "open"
    /\ logStop' = FALSE
    /\ writer' = "loop"
    /\ UNCHANGED <<queue, batch, gaveUp>>

\* put_nowait, and what a caller does about queue.Full: nothing.
PutNoWait(item) ==
    queue' = IF Len(queue) < QueueMax THEN Append(queue, item) ELSE queue

\* record(), called by the handler of a query.
Record ==
    /\ IF connection = "open"
       THEN PutNoWait(IF logStop THEN "late" ELSE "early")
       ELSE UNCHANGED queue
    /\ UNCHANGED <<batch, writer, connection, logStop, gaveUp>>

\* Mutant: the writer leaves as soon as it is told to.
DrainLoopHasty ==
    /\ writer = "loop"
    /\ writer' = IF logStop THEN "leave" ELSE "get"
    /\ UNCHANGED <<queue, batch, connection, logStop, gaveUp>>

\* _drain(), the loop condition.
DrainLoop ==
    /\ writer = "loop"
    /\ writer' = IF logStop /\ queue = <<>> THEN "leave" ELSE "get"
    /\ UNCHANGED <<queue, batch, connection, logStop, gaveUp>>

\* _drain(), one turn: a row, the pill or a timeout; then the batch goes out
\* when it is large enough, when it is due, or when the log is stopping.
DrainGet ==
    /\ writer = "get"
    /\ IF queue = <<>> THEN UNCHANGED <<queue, batch>>
       ELSE /\ queue' = Tail(queue)
            /\ batch' = IF Head(queue) = "pill" THEN batch
                        ELSE Append(batch, Head(queue))
    /\ \E due \in BOOLEAN :
          writer' = IF batch' # <<>> /\ (Len(batch') >= BatchSize \/ due \/ logStop)
                    THEN "flush" ELSE "loop"
    /\ UNCHANGED <<connection, logStop, gaveUp>>

\* _flush(): the rows are written, or lost to an error or a closed database.
\* Either way the batch is done with.
DrainFlush ==
    /\ writer = "flush"
    /\ batch' = <<>>
    /\ writer' = "loop"
    /\ UNCHANGED <<queue, connection, logStop, gaveUp>>

\* _drain(), after the loop: the last batch.
DrainLeave ==
    /\ writer = "leave"
    /\ batch' = <<>>
    /\ writer' = "ended"
    /\ UNCHANGED <<queue, connection, logStop, gaveUp>>

Drain == DrainLoop \/ DrainGet \/ DrainFlush \/ DrainLeave

\* stop(): the flag, then the pill if there is room.
LogStopSet ==
    /\ logStop' = TRUE
    /\ PutNoWait("pill")
    /\ UNCHANGED <<batch, writer, connection, gaveUp>>

\* stop(): join(timeout=5).  The writer is done, or it is not and the caller
\* goes on without it.
LogJoin ==
    /\ \/ writer = "ended" /\ UNCHANGED gaveUp
       \/ writer # "ended" /\ gaveUp' = TRUE
    /\ UNCHANGED <<queue, batch, writer, connection, logStop>>

\* stop(): commit and close, under the lock _flush() takes.
LogClose ==
    /\ connection' = "closed"
    /\ UNCHANGED <<queue, batch, writer, logStop, gaveUp>>

RowsIn(rows) == {rows[i] : i \in DOMAIN rows}

\* A row recorded before the log was told to stop is never stranded: once
\* the database is closed, unless the writer overran its 5 seconds, none is
\* left in the queue or in the writer's batch (stats.py:246).
NoRowStranded ==
    connection = "closed" /\ ~gaveUp =>
        "early" \notin RowsIn(queue) \cup RowsIn(batch)
===============================================================================
