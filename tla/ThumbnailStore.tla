--------------------------- MODULE ThumbnailStore ---------------------------
(***************************************************************************)
(* The store of generated thumbnails, internal/io/sqlite/sqlite.go: one    *)
(* writer goroutine takes thumbnails and deletions off a channel and       *)
(* commits them; readers see what is committed.  The writes are kept in    *)
(* one sequence, of which the writer has received and committed a prefix.  *)
(***************************************************************************)
EXTENDS Naturals, Sequences

CONSTANTS
    StoreCapacity   \* of the pending channel: 100 in the code

ASSUME StoreAssumption == StoreCapacity \in Nat \ {0}

VARIABLES
    thumbWrites,    \* every write sent: the file, and whether it has bytes
    received,       \* how many of them the writer has executed
    committed,      \* how many it has committed
    storeWriter,    \* what the writer is doing
    closed,         \* the channels that are closed
    closer,         \* Close
    flusher         \* Flush, and how many writes were sent before it

storeVars == <<thumbWrites, received, committed, storeWriter, closed, closer, flusher>>

NoFlush == [at |-> "idle", sent |-> 0]

\* New, on a database that has the given files.
InitStore(files) ==
    /\ thumbWrites = [k \in DOMAIN files |-> [file |-> files[k], bytes |-> TRUE]]
    /\ received = Len(files) /\ committed = received
    /\ storeWriter = "select"
    /\ closed = {} /\ closer = "open"
    /\ flusher = NoFlush

\* The files with a row after the first n writes.  INSERT OR REPLACE, and a
\* write without bytes deletes.
Stored(n) ==
    {thumbWrites[k].file : k \in {k \in 1..n :
        /\ thumbWrites[k].bytes
        /\ \A j \in k..n : thumbWrites[j].file = thumbWrites[k].file => thumbWrites[j].bytes}}

\* What Reader and Exists find.
Thumbs == Stored(committed)

Pending == Len(thumbWrites) - received
CanStore == Pending < StoreCapacity /\ closed = {}

\* Write, Delete, and SetWithBuffer, whose result does not tell whether the
\* image could be encoded: if it could not, there are no bytes.
Store(f, bytes) == CanStore /\ thumbWrites' = Append(thumbWrites, [file |-> f, bytes |-> bytes])

----------------------------------------------------------------------------
(* The writer.                                                             *)

\* A write; it is committed if no other is pending, or after ten seconds.
Receive ==
    /\ storeWriter = "select" /\ Pending > 0
    /\ received' = received + 1
    /\ \/ committed' = received'
       \/ Pending > 1 /\ UNCHANGED committed
    /\ UNCHANGED <<thumbWrites, storeWriter, closed, closer, flusher>>

\* A request to flush, or the zero value of the closed channel.
ReceiveFlush ==
    /\ storeWriter = "select"
    /\ flusher.at = "sent" \/ "flushes" \in closed
    /\ storeWriter' = "flush"
    /\ flusher' = [flusher EXCEPT !.at = IF @ = "sent" THEN "taken" ELSE @]
    /\ UNCHANGED <<thumbWrites, received, committed, closed, closer>>

Drain ==
    /\ storeWriter = "flush" /\ Pending > 0
    /\ received' = received + 1
    /\ UNCHANGED <<thumbWrites, committed, storeWriter, closed, closer, flusher>>

\* Faulty variant: it signals with the transaction still open.
FlushSignalled ==
    /\ storeWriter = "flush" /\ Pending = 0 /\ "pending" \notin closed
    /\ storeWriter' = "select"
    /\ flusher' = IF flusher.at = "taken" THEN NoFlush ELSE flusher
    /\ UNCHANGED <<thumbWrites, received, committed, closed, closer>>

\* A closed channel of writes is never empty: the loop that drains it goes on
\* for ever, deleting id 0.
Flushed ==
    /\ storeWriter = "flush" /\ Pending = 0 /\ "pending" \notin closed
    /\ committed' = received
    /\ storeWriter' = "select"
    /\ flusher' = IF flusher.at = "taken" THEN NoFlush ELSE flusher
    /\ UNCHANGED <<thumbWrites, received, closed, closer>>

Finish ==
    /\ storeWriter' = "stopped"
    /\ committed' = received

ReceiveClosed ==
    /\ storeWriter = "select" /\ Pending = 0 /\ "pending" \in closed
    /\ Finish
    /\ UNCHANGED <<thumbWrites, received, closed, closer, flusher>>

StoreWriter == Receive \/ ReceiveFlush \/ Drain \/ Flushed \/ ReceiveClosed

----------------------------------------------------------------------------
(* Flush and Close.                                                        *)

\* Modelled when there is something to write.
Flush ==
    /\ flusher = NoFlush /\ closed = {}
    /\ committed < Len(thumbWrites)
    /\ flusher' = [at |-> "sent", sent |-> Len(thumbWrites)]
    /\ UNCHANGED <<thumbWrites, received, committed, storeWriter, closed, closer>>

\* Faulty variant: the pool is closed before the channel.
ClosePoolFirst ==
    /\ closer = "open"
    /\ closer' = "closing"
    /\ UNCHANGED <<thumbWrites, received, committed, storeWriter, closed, flusher>>

\* A writer that waits in its select is woken by the first channel to be closed;
\* one that is busy, or about to select, may find both closed.
ClosePending ==
    /\ closer = "open"
    /\ closer' = "closing"
    /\ closed' = {"pending"}
    /\ \/ storeWriter = "select" /\ Pending = 0 /\ flusher.at # "sent" /\ Finish
       \/ UNCHANGED <<storeWriter, committed>>
    /\ UNCHANGED <<thumbWrites, received, flusher>>

CloseFlushes ==
    /\ closer = "closing"
    /\ closer' = "waiting"
    /\ closed' = closed \cup {"flushes"}
    /\ UNCHANGED <<thumbWrites, received, committed, storeWriter, flusher>>

\* The pool is closed when its connections are back.
PoolCloses ==
    /\ closer = "waiting" /\ storeWriter = "stopped"
    /\ closer' = "closed"
    /\ UNCHANGED <<thumbWrites, received, committed, storeWriter, closed, flusher>>

Close == ClosePending \/ CloseFlushes \/ PoolCloses

----------------------------------------------------------------------------
(* Properties.                                                             *)

\* "Flush waits for all pending writes to complete": what was sent before Flush
\* is committed when Flush returns, whichever the writer selects first.
FlushedMeansSaved ==
    [][flusher # NoFlush /\ flusher' = NoFlush => committed' >= flusher.sent]_storeVars

\* The writer stopped with nothing left, or has taken the closed channel of
\* flushes for a flush and never stops.
Spinning == storeWriter = "flush" /\ "pending" \in closed

\* Close returns, unless the writer spins.
CloseEnds == closer = "closing" ~> closer = "closed" \/ Spinning
=============================================================================
