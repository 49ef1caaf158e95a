--------------------------- MODULE EventPipeline ---------------------------
(***************************************************************************)
(* How a honeypot hit travels from OpenCanary to birdcage: the canary      *)
(* agent's intake (cmd/mockingbird/intake.go), its send loop               *)
(* (cmd/mockingbird/sender.go, internal/agent/client/batch.go), the saved  *)
(* log position (internal/agent/queue/position.go) and birdcage's batch    *)
(* handler (internal/ingest/batch.go).                                     *)
(*                                                                         *)
(* Three goroutines of the agent run concurrently: the tailer session of   *)
(* the log road, the monitor that restarts that session, and the sender.   *)
(* The webhook receiver and OpenCanary itself are the environment.  One    *)
(* step is what a goroutine does under one mutex.                          *)
(***************************************************************************)
EXTENDS MemQueue, Ledger

CONSTANTS
    HookIds,      \* events that also, or only, arrive by a memory-only road
    Invalid,      \* events birdcage's validation rejects
    BatchMax,     \* client.MaxEventsPerBatch
    MaxCrashes    \* bound: process deaths

ASSUME PipelineConstants ==
    /\ \A p \in Lines : IdOf[p] \in Ids \cup {NoId}
    /\ NoId \notin Ids
    /\ HookIds \subseteq Ids
    /\ Invalid \subseteq Ids
    /\ BatchMax \in Nat \ {0}
    /\ MaxCrashes \in Nat

VARIABLES
    written,    \* lines in OpenCanary's log
    hooked,     \* events the memory-only roads have delivered
    stored,     \* events birdcage has stored (or acked without storing)
    saved,      \* the saved position on disk, 0 for none
    queue,      \* MemQueue.order
    evicted,    \* Queue.Dropped() differs from the monitor's baseline
    collided,   \* Intake.Collisions() is not zero
    ledger,     \* what ledgerPtr points to
    monitor,    \* where runLogRoadOnce is
    tailer,     \* where the session's Follow goroutine is
    cursor,     \* lines the session has consumed
    cancelled,  \* sessionCtx is done
    sender,     \* where runSenderLoop is
    batch,      \* the ids peeked that the sender still has to go through
    due,        \* those that were sent, then those the answer settles
    stale,      \* applyVerdicts holds a ledger that has been replaced
    oldLedger,  \* that ledger
    abandoned,  \* history: lines a session gave up waiting for room for
    crashes

logVars    == <<written, hooked>>
roadVars   == <<monitor, tailer, cursor, cancelled>>
senderVars == <<sender, batch, due, stale, oldLedger>>
vars == <<logVars, stored, saved, queue, evicted, collided, ledger, roadVars,
          senderVars, abandoned, crashes>>

\* Intake.lowWater: three quarters of the capacity.
LowWater == (MaxEvents * 3) \div 4

TypeOK ==
    /\ written \in 0..MaxLines
    /\ hooked \subseteq HookIds
    /\ stored \subseteq Ids \ Invalid
    /\ saved \in 0..MaxLines
    /\ queue \in Seq(Ids)
    /\ evicted \in BOOLEAN
    /\ collided \in BOOLEAN
    /\ ledger \in LedgerType
    /\ monitor \in {"load", "install", "baseline", "watch", "ending"}
    /\ tailer \in {"off", "read", "blocked", "push", "append", "eof", "done"}
    /\ cursor \in 0..MaxLines
    /\ cancelled \in BOOLEAN
    /\ sender \in {"peek", "send", "ack", "resolve"}
    /\ batch \in Seq(Ids)
    /\ due \subseteq Ids
    /\ stale \in BOOLEAN
    /\ oldLedger \in LedgerType
    /\ abandoned \subseteq Lines
    /\ crashes \in 0..MaxCrashes

Init ==
    /\ written = 0
    /\ hooked = {}
    /\ stored = {}
    /\ saved = 0
    /\ queue = <<>>
    /\ evicted = FALSE
    /\ collided = FALSE
    /\ ledger = NewLedger
    /\ monitor = "load"
    /\ tailer = "off"
    /\ cursor = 0
    /\ cancelled = FALSE
    /\ sender = "peek"
    /\ batch = <<>>
    /\ due = {}
    /\ stale = FALSE
    /\ oldLedger = NewLedger
    /\ abandoned = {}
    /\ crashes = 0

-----------------------------------------------------------------------------
(* OpenCanary and the memory-only roads.                                    *)

\* OpenCanary appends a line to its log.
Write ==
    /\ written < MaxLines
    /\ written' = written + 1
    /\ UNCHANGED <<hooked, stored, saved, queue, evicted, collided, ledger,
                   roadVars, senderVars, abandoned, crashes>>

\* Enqueue an event: the queue, and whether the monitor sees an eviction.
Enqueue(id) ==
    /\ queue' = Push(queue, id)
    /\ evicted' = (evicted \/ Evictions(queue, id) > 0)

\* webhookHandler, and the other roads that push without a ledger entry.
Webhook(id) ==
    /\ id \in HookIds \ hooked
    /\ hooked' = hooked \cup {id}
    /\ Enqueue(id)
    /\ UNCHANGED <<written, stored, saved, collided, ledger, roadVars,
                   senderVars, abandoned, crashes>>

-----------------------------------------------------------------------------
(* The monitor: runLogRoadOnce.                                             *)

\* posStore.Load, which falls back to the start of the log when it fails.
LoadPosition ==
    /\ monitor = "load"
    /\ \E pos \in {saved, 0} : cursor' = pos
    /\ monitor' = "install"
    /\ UNCHANGED <<logVars, stored, saved, queue, evicted, collided, ledger,
                   tailer, cancelled, senderVars, abandoned, crashes>>

\* A sender that is applying verdicts keeps the ledger it started with.
DetachLedger ==
    IF sender \in {"ack", "resolve"} /\ ~stale
    THEN stale' = TRUE /\ oldLedger' = ledger
    ELSE UNCHANGED <<stale, oldLedger>>

InstallLedger_KeepsEntries ==
    /\ monitor = "install"
    /\ cancelled' = FALSE
    /\ tailer' = "read"
    /\ monitor' = "baseline"
    /\ UNCHANGED <<logVars, stored, saved, queue, evicted, collided, ledger,
                   cursor, senderVars, abandoned, crashes>>

\* A fresh ledger and a fresh Follow goroutine.
InstallLedger ==
    /\ monitor = "install"
    /\ DetachLedger
    /\ ledger' = NewLedger
    /\ cancelled' = FALSE
    /\ tailer' = "read"
    /\ monitor' = "baseline"
    /\ UNCHANGED <<logVars, stored, saved, queue, evicted, collided, cursor,
                   sender, batch, due, abandoned, crashes>>

\* baseline := in.Queue.Dropped(), after the goroutine has been started.
ReadBaseline ==
    /\ monitor = "baseline"
    /\ evicted' = FALSE
    /\ monitor' = "watch"
    /\ UNCHANGED <<logVars, stored, saved, queue, collided, ledger, tailer,
                   cursor, cancelled, senderVars, abandoned, crashes>>

\* The ticker: an eviction has happened and the queue has drained.
CancelSession ==
    /\ monitor = "watch"
    /\ evicted
    /\ Len(queue) <= LowWater
    /\ cancelled' = TRUE
    /\ monitor' = "ending"
    /\ UNCHANGED <<logVars, stored, saved, queue, evicted, collided, ledger,
                   tailer, cursor, senderVars, abandoned, crashes>>

\* <-done: the monitor waits for Follow to return before it starts over.
SessionOver ==
    /\ monitor = "ending"
    /\ tailer = "done"
    /\ tailer' = "off"
    /\ monitor' = "load"
    /\ UNCHANGED <<logVars, stored, saved, queue, evicted, collided, ledger,
                   cursor, cancelled, senderVars, abandoned, crashes>>

-----------------------------------------------------------------------------
(* The tailer session: Follow and its emit callback, handleLogLine.         *)

\* The line being handled.
Line == cursor + 1

\* Depth() at the head of waitForRoom.
Gate == IF Len(queue) < MaxEvents THEN "push" ELSE "blocked"

\* fill hands the next line to handleLogLine; a line without an id is
\* skipped, the others meet waitForRoom.
ReadLine ==
    /\ tailer = "read"
    /\ cursor < written
    /\ IF IdOf[Line] = NoId
       THEN cursor' = Line /\ UNCHANGED tailer
       ELSE tailer' = Gate /\ UNCHANGED cursor
    /\ UNCHANGED <<logVars, stored, saved, queue, evicted, collided, ledger,
                   monitor, cancelled, senderVars, abandoned, crashes>>

\* waitForRoom returns nil once the depth is under the low-water mark.
RoomAgain ==
    /\ tailer = "blocked"
    /\ Len(queue) < LowWater
    /\ tailer' = "push"
    /\ UNCHANGED <<logVars, stored, saved, queue, evicted, collided, ledger,
                   monitor, cursor, cancelled, senderVars, abandoned, crashes>>

\* waitForRoom returns ctx.Err(): handleLogLine returns without queueing
\* the line, and fill goes on with the next one.
AbandonLine ==
    /\ tailer = "blocked"
    /\ cancelled
    /\ tailer' = "read"
    /\ cursor' = Line
    /\ abandoned' = abandoned \cup {Line}
    /\ UNCHANGED <<logVars, stored, saved, queue, evicted, collided, ledger,
                   monitor, cancelled, senderVars, crashes>>

\* in.Queue.Push.
PushLine ==
    /\ tailer = "push"
    /\ Enqueue(IdOf[Line])
    /\ tailer' = "append"
    /\ UNCHANGED <<logVars, stored, saved, collided, ledger, monitor, cursor,
                   cancelled, senderVars, abandoned, crashes>>

\* ldg.Append.
AppendLine ==
    /\ tailer = "append"
    /\ ledger' = AppendEntry(ledger, Line)
    /\ collided' = (collided \/ Collides(ledger, Line))
    /\ cursor' = Line
    /\ tailer' = "read"
    /\ UNCHANGED <<logVars, stored, saved, queue, evicted, monitor, cancelled,
                   senderVars, abandoned, crashes>>

\* fill reaches the end of the log; only then does followLive look at ctx.
ReachEOF ==
    /\ tailer = "read"
    /\ cursor = written
    /\ tailer' = "eof"
    /\ UNCHANGED <<logVars, stored, saved, queue, evicted, collided, ledger,
                   monitor, cursor, cancelled, senderVars, abandoned, crashes>>

Poll_IgnoresCancel ==
    /\ tailer = "eof"
    /\ cursor < written
    /\ tailer' = "read"
    /\ UNCHANGED <<logVars, stored, saved, queue, evicted, collided, ledger,
                   monitor, cursor, cancelled, senderVars, abandoned, crashes>>

\* The next poll, or the end of the session.
Poll ==
    /\ tailer = "eof"
    /\ IF cancelled
       THEN tailer' = "done"
       ELSE cursor < written /\ tailer' = "read"
    /\ UNCHANGED <<logVars, stored, saved, queue, evicted, collided, ledger,
                   monitor, cursor, cancelled, senderVars, abandoned, crashes>>

-----------------------------------------------------------------------------
(* The sender: runSenderLoop and applyVerdicts, with birdcage's answer.     *)

\* The ledger applyVerdicts works on: the one that was live when it began.
HeldLedger == IF stale THEN oldLedger ELSE ledger

\* Replace the ledger applyVerdicts works on.
SetHeldLedger(l) ==
    IF stale
    THEN oldLedger' = l /\ UNCHANGED ledger
    ELSE ledger' = l /\ UNCHANGED oldLedger

\* Peek and send; events whose claim window is still undecided
\* (claims.pending) stay behind for another round.
PeekBatch(pending) ==
    /\ sender = "peek"
    /\ batch' = Peek(queue, BatchMax)
    /\ due' = Range(batch') \ pending
    /\ due' # {}
    /\ sender' = "send"
    /\ UNCHANGED <<logVars, stored, saved, queue, evicted, collided, ledger,
                   roadVars, stale, oldLedger, abandoned, crashes>>

PushBatch_StoresInvalid(kept, answered) ==
    /\ sender = "send"
    /\ stored' = stored \cup due
    /\ sender' = "ack"
    /\ UNCHANGED <<logVars, saved, queue, evicted, collided, ledger, roadVars,
                   batch, due, stale, oldLedger, abandoned, crashes>>

\* resolveAck: the events the answer names as stored or as rejected; the
\* others stay queued.
Named(kept) == kept \cup (due \cap Invalid)

\* InsertAlertIfNew: an alert already stored under the id is left alone.
InsertNew(kept) == stored' = stored \cup kept

\* PushBatch and handleBatch: birdcage stores the events in kept, fails to
\* store the other valid ones, and rejects the invalid ones; the answer
\* reaches the agent or does not.  An answer that names no event is an
\* error (503), after which everything is still queued.
PushBatch(kept, answered) ==
    /\ sender = "send"
    /\ kept \subseteq due \ Invalid
    /\ InsertNew(kept)
    /\ IF answered /\ Named(kept) # {}
       THEN sender' = "ack" /\ due' = Named(kept) /\ UNCHANGED batch
       ELSE sender' = "peek" /\ due' = {} /\ batch' = <<>>
    /\ UNCHANGED <<logVars, saved, queue, evicted, collided, ledger, roadVars,
                   stale, oldLedger, abandoned, crashes>>

AckEvent_UnnamedToo ==
    /\ sender = "ack"
    /\ batch # <<>>
    /\ queue' = RemoveLocked(queue, Head(batch))
    /\ sender' = "resolve"
    /\ UNCHANGED <<logVars, stored, saved, evicted, collided, ledger, roadVars,
                   batch, due, stale, oldLedger, abandoned, crashes>>

\* applyVerdicts: Queue.Ack or Queue.Reject of the next event the answer
\* names; the others are passed over.
AckEvent ==
    /\ sender = "ack"
    /\ batch # <<>>
    /\ IF Head(batch) \in due
       THEN /\ queue' = RemoveLocked(queue, Head(batch))
            /\ sender' = "resolve"
            /\ UNCHANGED batch
       ELSE batch' = Tail(batch) /\ UNCHANGED <<queue, sender>>
    /\ UNCHANGED <<logVars, stored, saved, evicted, collided, ledger, roadVars,
                   due, stale, oldLedger, abandoned, crashes>>

\* applyVerdicts: ldg.Resolve of the same event.
ResolveEvent ==
    /\ sender = "resolve"
    /\ SetHeldLedger(Resolve(HeldLedger, Head(batch)))
    /\ batch' = Tail(batch)
    /\ sender' = "ack"
    /\ UNCHANGED <<logVars, stored, saved, queue, evicted, collided, roadVars,
                   due, stale, abandoned, crashes>>

\* PositionStore.Save: the whole record replaces the old one, or the write
\* fails and the old one stands.
Save(positions) == saved' \in positions \cup {saved}

\* applyVerdicts: ldg.Advance, then the frontier it returned is saved.
AdvanceAndSave ==
    /\ sender = "ack"
    /\ batch = <<>>
    /\ Save(Frontier(HeldLedger))
    /\ ledger' = IF stale THEN ledger ELSE Advance(ledger)
    /\ oldLedger' = NewLedger
    /\ stale' = FALSE
    /\ due' = {}
    /\ sender' = "peek"
    /\ UNCHANGED <<logVars, stored, queue, evicted, collided, roadVars, batch,
                   abandoned, crashes>>

-----------------------------------------------------------------------------
\* The process dies or is stopped, and starts again with nothing but what
\* is on disk.
Crash ==
    /\ crashes < MaxCrashes
    /\ crashes' = crashes + 1
    /\ queue' = <<>>
    /\ evicted' = FALSE
    /\ collided' = FALSE
    /\ ledger' = NewLedger
    /\ monitor' = "load"
    /\ tailer' = "off"
    /\ cursor' = 0
    /\ cancelled' = FALSE
    /\ sender' = "peek"
    /\ batch' = <<>>
    /\ due' = {}
    /\ stale' = FALSE
    /\ oldLedger' = NewLedger
    /\ UNCHANGED <<logVars, stored, saved, abandoned>>

Monitor == LoadPosition \/ InstallLedger \/ ReadBaseline \/ CancelSession \/ SessionOver

Tailer == ReadLine \/ RoomAgain \/ AbandonLine \/ PushLine \/ AppendLine \/ ReachEOF \/ Poll

Settle == AckEvent \/ ResolveEvent \/ AdvanceAndSave

Next ==
    \/ Write
    \/ \E id \in HookIds : Webhook(id)
    \/ Monitor
    \/ Tailer
    \/ \E pending \in SUBSET Range(queue) : PeekBatch(pending)
    \/ \E kept \in SUBSET (due \ Invalid), answered \in BOOLEAN : PushBatch(kept, answered)
    \/ Settle
    \/ Crash

Spec == Init /\ [][Next]_vars

\* Goroutines are scheduled; a claim window closes within seconds, so every
\* so often the sender holds nothing back; and birdcage is reachable, so
\* every so often it stores a whole batch and is heard to say so.
Fairness ==
    /\ WF_vars(Monitor)
    /\ WF_vars(Tailer)
    /\ WF_vars(Settle)
    /\ WF_vars(\E pending \in SUBSET Range(queue) : PeekBatch(pending))
    /\ SF_vars(PeekBatch({}))
    /\ SF_vars(PushBatch(due \ Invalid, TRUE))

FairSpec == Spec /\ Fairness

-----------------------------------------------------------------------------
\* birdcage has given its final word on the event of a line, or it has none.
Settled(p) == IdOf[p] \in stored \cup Invalid \cup {NoId}

\* The saved position never moves past a line whose event birdcage has not
\* settled: a restart re-reads everything else (ledger/doc.go: "advancing
\* too far silently loses events forever").
NoLineBehindSavedPosition == \A p \in 1..saved : Settled(p)

\* The only lines the saved position can pass unsettled are those whose
\* wait for queue room ended with the session (handleLogLine's early
\* return): the ledger itself never lets the frontier pass one.
LossOnlyByAbandonedWait == \A p \in 1..saved : Settled(p) \/ p \in abandoned

\* The queue never outgrows its event cap and holds an event at most once,
\* whatever the roads and the sender do to it (Push, removeLocked).
QueueBounded ==
    /\ Len(queue) <= MaxEvents
    /\ \A i, j \in 1..Len(queue) : queue[i] = queue[j] => i = j

\* Nor its byte cap, but for one oversize event that is queued alone (Push).
QueueBytesBounded == Bytes(queue) <= MaxBytes \/ Len(queue) = 1

\* The books are right.  A collision is counted only for an id that really is
\* at two positions of the log: restarts and re-reads never look like one
\* (runLogRoadOnce).  And an event leaves the queue only when birdcage has
\* settled it, when the eviction that took it is on the monitor's books, or
\* with the process.
BooksHonest ==
    [][/\ collided' /\ ~ collided => \E p, q \in 1..written : p # q /\ IdOf[p] = IdOf[q]
       /\ \A id \in Range(queue) \ Range(queue') :
             id \in stored \cup Invalid \/ evicted' \/ crashes' # crashes]_vars

\* An eviction the monitor has seen leads to a fresh session
\* (RunLogRoad: "Recovery without a restart").
EvictionRestartsSession == (monitor = "watch" /\ evicted) ~> (monitor = "load")

\* Every line OpenCanary writes is settled in the end, crashes and failed
\* requests included.
EveryLineSettled == \A p \in Lines : (p <= written) ~> Settled(p)
=============================================================================
