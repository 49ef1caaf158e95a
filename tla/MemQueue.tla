------------------------------ MODULE MemQueue ------------------------------
(***************************************************************************)
(* The agent's in-memory send queue (internal/agent/queue/queue.go), as    *)
(* operators on its value: a sequence of event ids, oldest first.  The     *)
(* payload of an event is abstracted to its length, Size[id].              *)
(***************************************************************************)
EXTENDS Integers, Sequences, FiniteSetsExt

CONSTANTS
    Ids,        \* event ids, the SHA-256 of an event's bytes
    Size,       \* payload length of each event
    MaxEvents,  \* queue.Config.MaxEvents
    MaxBytes    \* queue.Config.MaxBytes

ASSUME QueueConstants ==
    /\ Size \in [Ids -> Nat]
    /\ MaxEvents \in Nat \ {0}
    /\ MaxBytes \in Nat \ {0}

\* MemQueue.bytes: the sum of the payload lengths that are queued.
Bytes(q) == MapThenSumSet(LAMBDA i : Size[q[i]], DOMAIN q)

\* The event is in the queue (MemQueue.index).
Queued(q, id) == id \in Range(q)

Fits_CountOffByOne(q, id) ==
    q = <<>> \/ (Len(q) <= MaxEvents /\ Bytes(q) + Size[id] <= MaxBytes)

Fits_IgnoresBytes(q, id) == q = <<>> \/ Len(q) < MaxEvents

\* Push stops evicting: the queue is empty or under both caps.
Fits(q, id) ==
    q = <<>> \/ (Len(q) < MaxEvents /\ Bytes(q) + Size[id] <= MaxBytes)

\* How many of the oldest events Push(id) evicts, which is what it adds to
\* MemQueue.dropped; nothing when the id is already queued.
Evictions(q, id) ==
    IF Queued(q, id)
    THEN 0
    ELSE Min({k \in 0..Len(q) : Fits(SubSeq(q, k + 1, Len(q)), id)})

\* Push: a queued id is left alone, anything else goes to the back once the
\* oldest events have made room.
Push(q, id) ==
    IF Queued(q, id)
    THEN q
    ELSE Append(SubSeq(q, Evictions(q, id) + 1, Len(q)), id)

\* Peek: up to n events, oldest first, left in the queue.
Peek(q, n) == SubSeq(q, 1, Min({n, Len(q)}))

\* removeLocked, under Ack and Reject: the id goes if it is there.
RemoveLocked(q, id) ==
    IF Queued(q, id)
    THEN LET i == CHOOSE j \in 1..Len(q) : q[j] = id
         IN  SubSeq(q, 1, i - 1) \o SubSeq(q, i + 1, Len(q))
    ELSE q
=============================================================================
