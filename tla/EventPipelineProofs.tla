------------------------ MODULE EventPipelineProofs ------------------------
(***************************************************************************)
(* Proofs about the event pipeline, for every log, every queue capacity    *)
(* and every number of crashes.                                            *)
(***************************************************************************)
EXTENDS EventPipeline, SequenceTheorems, WellFoundedInduction, TLAPS

-----------------------------------------------------------------------------
(* The queue's operators.                                                   *)

\* A non-empty set of naturals has a least element, and Min is it.
LEMMA MinNat ==
    ASSUME NEW S \in SUBSET Nat, S # {}
    PROVE  Min(S) \in S /\ \A n \in S : Min(S) <= n
<1>1. \E m \in S : \A n \in S : ~ (<<n, m>> \in OpToRel(<, Nat))
  BY NatLessThanWellFounded, WFMin, ZenonT(60)
<1>2. PICK m \in S : \A n \in S : ~ (<<n, m>> \in OpToRel(<, Nat))
  BY <1>1, ZenonT(60)
<1>3. ASSUME NEW n \in S PROVE m <= n
  <2>1. ~ (n < m)
    BY <1>2, <1>3, ZenonT(60) DEF OpToRel
  <2> QED BY <2>1
<1> QED BY <1>3, ZenonT(60) DEF Min

\* A queue Push can be applied to: bounded, and without duplicates.
GoodQueue(q) ==
    /\ q \in Seq(Ids)
    /\ Len(q) <= MaxEvents
    /\ \A i, j \in 1..Len(q) : q[i] = q[j] => i = j

\* Push evicts no more than there is, and as much as it has to.
LEMMA EvictionsEnough ==
    ASSUME NEW q \in Seq(Ids), NEW id \in Ids
    PROVE  /\ Evictions(q, id) \in 0..Len(q)
           /\ Queued(q, id) \/ Fits(SubSeq(q, Evictions(q, id) + 1, Len(q)), id)
<1> DEFINE K == {k \in 0..Len(q) : Fits(SubSeq(q, k + 1, Len(q)), id)}
<1>1. CASE Queued(q, id)
  BY <1>1 DEF Evictions
<1>2. CASE ~Queued(q, id)
  <2>1. SubSeq(q, Len(q) + 1, Len(q)) = <<>>
    OBVIOUS
  <2>2. Fits(SubSeq(q, Len(q) + 1, Len(q)), id)
    BY <2>1 DEF Fits
  <2>3. Len(q) \in K
    BY <2>2
  <2>4. Min(K) \in K
    <3> HIDE DEF K
    <3>1. K \in SUBSET Nat
      BY DEF K
    <3> QED BY <2>3, <3>1, MinNat
  <2>5. Evictions(q, id) = Min(K)
    BY <1>2 DEF Evictions
  <2> HIDE DEF K
  <2>6. Evictions(q, id) \in K
    BY <2>4, <2>5
  <2> QED BY <2>6 DEF K
<1> QED BY <1>1, <1>2

\* Push keeps the queue bounded and free of duplicates.
LEMMA PushGood ==
    ASSUME NEW q, GoodQueue(q), NEW id \in Ids
    PROVE  GoodQueue(Push(q, id))
<1> DEFINE k == Evictions(q, id)
           rest == SubSeq(q, k + 1, Len(q))
<1>1. q \in Seq(Ids)
  BY DEF GoodQueue
<1>2. CASE Queued(q, id)
  BY <1>2 DEF Push
<1>3. CASE ~Queued(q, id)
  <2>1. k \in 0..Len(q) /\ Fits(rest, id)
    BY <1>1, <1>3, EvictionsEnough
  <2>2. Push(q, id) = Append(rest, id)
    BY <1>3, ZenonT(60) DEF Push
  <2> HIDE DEF k
  <2>3. rest \in Seq(Ids) /\ Len(rest) = Len(q) - k /\ \A i \in 1..Len(rest) : rest[i] = q[i + k]
    BY <1>1, <2>1
  <2>4. rest = <<>> \/ Len(rest) < MaxEvents
    BY <2>1 DEF Fits
  <2>5. \A i \in 1..Len(q) : q[i] # id
    BY <1>1, <1>3 DEF Queued, Range
  <2> HIDE DEF rest
  <2>6. Len(rest) < MaxEvents
    BY <2>4, <2>3, QueueConstants, SMTT(60)
  <2>7. Append(rest, id) \in Seq(Ids) /\ Len(Append(rest, id)) <= MaxEvents
    BY <2>3, <2>6, QueueConstants, SMTT(60)
  <2>8. ASSUME NEW i \in 1..Len(Append(rest, id)), NEW j \in 1..Len(Append(rest, id)),
               Append(rest, id)[i] = Append(rest, id)[j]
        PROVE  i = j
    <3>1. \A n \in 1..Len(rest) : Append(rest, id)[n] = q[n + k] /\ n + k \in 1..Len(q)
      BY <2>1, <2>3, <1>1, SMTT(60)
    <3>2. Append(rest, id)[Len(rest) + 1] = id /\ Len(Append(rest, id)) = Len(rest) + 1
      BY <2>3
    <3>3. CASE i \in 1..Len(rest) /\ j \in 1..Len(rest)
      BY <3>1, <3>3, <2>8, <2>1, <1>1, SMTT(60) DEF GoodQueue
    <3>4. CASE i = Len(rest) + 1 \/ j = Len(rest) + 1
      BY <3>1, <3>2, <3>4, <2>8, <2>5, <2>3, SMTT(60)
    <3> QED BY <3>2, <3>3, <3>4, <2>3, SMTT(60)
  <2> QED BY <2>2, <2>7, <2>8 DEF GoodQueue
<1> QED BY <1>2, <1>3

\* So does the removal of an event.
LEMMA RemoveGood ==
    ASSUME NEW q, GoodQueue(q), NEW id
    PROVE  GoodQueue(RemoveLocked(q, id))
<1>1. CASE ~Queued(q, id)
  BY <1>1 DEF RemoveLocked
<1>2. CASE Queued(q, id)
  <2> DEFINE n == CHOOSE i \in 1..Len(q) : q[i] = id
             r == RemoveLocked(q, id)
  <2>1. q \in Seq(Ids)
    BY DEF GoodQueue
  <2>2. n \in 1..Len(q)
    BY <1>2, <2>1 DEF Queued, Range
  <2> DEFINE u == SubSeq(q, 1, n - 1)
             v == SubSeq(q, n + 1, Len(q))
  <2>3. r = u \o v
    BY <1>2, ZenonT(60) DEF RemoveLocked
  <2> HIDE DEF n, r
  <2>4. u \in Seq(Ids) /\ Len(u) = n - 1 /\ \A i \in 1..Len(u) : u[i] = q[i]
    BY <2>1, <2>2
  <2>5. v \in Seq(Ids) /\ Len(v) = Len(q) - n /\ \A i \in 1..Len(v) : v[i] = q[i + n]
    BY <2>1, <2>2
  <2>0. Len(q) \in Nat
    BY <2>1
  <2> HIDE DEF u, v
  <2>6. r \in Seq(Ids) /\ Len(r) = Len(q) - 1
    <3>1. u \in Seq(Ids) /\ v \in Seq(Ids)
      BY <2>4, <2>5
    <3>2. u \o v \in Seq(Ids) /\ Len(u \o v) = Len(u) + Len(v)
      BY <3>1, ConcatProperties, SMTT(60)
    <3>3. Len(u) = n - 1 /\ Len(v) = Len(q) - n
      BY <2>4, <2>5, SMTT(60)
    <3> QED BY <3>2, <3>3, <2>0, <2>2, <2>3, SMTT(60)
  <2>7. \A i \in 1..Len(r) : r[i] = IF i < n THEN q[i] ELSE q[i + 1]
    <3> SUFFICES ASSUME NEW i \in 1..Len(r)
                 PROVE  r[i] = IF i < n THEN q[i] ELSE q[i + 1]
      OBVIOUS
    <3>1. r[i] = IF i <= Len(u) THEN u[i] ELSE v[i - Len(u)]
      BY <2>3, <2>4, <2>5, SMTT(60)
    <3>2. CASE i < n
      BY <3>1, <3>2, <2>2, <2>4
    <3>3. CASE i >= n
      <4>1. i - Len(u) \in 1..Len(v) /\ (i - Len(u)) + n = i + 1
        BY <3>3, <2>0, <2>2, <2>4, <2>5, <2>6
      <4> QED BY <4>1, <3>1, <3>3, <2>2, <2>4, <2>5, SMTT(60)
    <3> QED BY <3>2, <3>3, <2>2, SMTT(60)
  <2>8. Len(r) <= MaxEvents
    BY <2>1, <2>6, QueueConstants, SMTT(60) DEF GoodQueue
  <2>9. ASSUME NEW i \in 1..Len(r), NEW j \in 1..Len(r), r[i] = r[j] PROVE i = j
    BY <2>1, <2>2, <2>6, <2>7, <2>9, SMTT(60) DEF GoodQueue
  <2> QED BY <2>6, <2>8, <2>9, SMTT(60) DEF GoodQueue, r
<1> QED BY <1>1, <1>2

-----------------------------------------------------------------------------
(* Types, and the bound on the queue.                                       *)

\* A fresh ledger has the ledger's type.
LEMMA NewLedgerType == NewLedger \in LedgerType
  BY DEF NewLedger, LedgerType

\* Append, Resolve and Advance keep the ledger's type.
LEMMA LedgerOpsType ==
    ASSUME NEW l \in LedgerType
    PROVE  /\ \A p \in Lines : AppendEntry(l, p) \in LedgerType
           /\ \A id : Resolve(l, id) \in LedgerType
           /\ Advance(l) \in LedgerType
           /\ Frontier(l) \subseteq Lines
<1>1. \A p \in Lines : AppendEntry(l, p) \in LedgerType
  BY DEF AppendEntry, LedgerType
<1>2. ASSUME NEW id PROVE Resolve(l, id) \in LedgerType
  BY DEF Resolve, LedgerType
<1>3. Advance(l) \in LedgerType
  BY DEF Advance, LedgerType, Newest, ResolvedPrefix
<1>4. Frontier(l) \subseteq Lines
  BY DEF Frontier, ResolvedPrefix, LedgerType
<1> QED BY <1>1, <1>2, <1>3, <1>4

\* A peeked batch is a prefix of the queue.
LEMMA PeekType ==
    ASSUME NEW q \in Seq(Ids)
    PROVE  Peek(q, BatchMax) \in Seq(Ids) /\ Range(Peek(q, BatchMax)) \subseteq Ids
<1> DEFINE m == Min({BatchMax, Len(q)})
<1>1. m \in {BatchMax, Len(q)} /\ m <= Len(q)
  <2>1. {BatchMax, Len(q)} \in SUBSET Nat /\ {BatchMax, Len(q)} # {}
    BY PipelineConstants
  <2> QED BY <2>1, MinNat, ZenonT(60)
<1>2. m \in 0..Len(q)
  BY <1>1, PipelineConstants
<1> HIDE DEF m
<1>3. SubSeq(q, 1, m) \in Seq(Ids)
  BY <1>2
<1>4. \A t \in Seq(Ids) : Range(t) \subseteq Ids
  BY DEF Range
<1>5. Peek(q, BatchMax) \in Seq(Ids)
  BY <1>3, ZenonT(60) DEF Peek, m
<1> QED BY <1>4, <1>5

\* TypeOK with what a step needs to keep it: the queue is within its cap, a
\* line in hand is one that was written and has an id, the sender that
\* resolves has something to resolve, and sessions do not overlap.
TypeInv ==
    /\ TypeOK
    /\ GoodQueue(queue)
    /\ tailer \in {"blocked", "push", "append"} => cursor < written /\ IdOf[Line] \in Ids
    /\ sender = "resolve" => batch # <<>>
    /\ monitor \in {"load", "install"} => tailer = "off"

\* The queue a process starts with is bounded and free of duplicates.
LEMMA EmptyGood == GoodQueue(<<>>)
  BY QueueConstants DEF GoodQueue

\* The types hold of a freshly started agent.
LEMMA TypeInit == Init => TypeInv
<1> SUFFICES ASSUME Init PROVE TypeInv
  OBVIOUS
<1>1. TypeOK
  <2>1. /\ written \in 0..MaxLines /\ saved \in 0..MaxLines /\ cursor \in 0..MaxLines
        /\ crashes \in 0..MaxCrashes
    BY LedgerConstants, PipelineConstants DEF Init
  <2>2. queue \in Seq(Ids) /\ batch \in Seq(Ids)
    BY EmptyGood DEF Init, GoodQueue
  <2>3. evicted \in BOOLEAN /\ collided \in BOOLEAN /\ cancelled \in BOOLEAN /\ stale \in BOOLEAN
    BY ZenonT(60) DEF Init
  <2>4. ledger \in LedgerType /\ oldLedger \in LedgerType
    BY NewLedgerType DEF Init
  <2> QED BY <2>1, <2>2, <2>3, <2>4, SMTT(60) DEF Init, TypeOK
<1>2. GoodQueue(queue)
  BY EmptyGood, SMTT(60) DEF Init
<1> QED BY <1>1, <1>2 DEF TypeInv, Init

\* Every step of the pipeline keeps the types and the queue's bound.
LEMMA TypeNext == TypeInv /\ [Next]_vars => TypeInv'
<1> SUFFICES ASSUME TypeInv, [Next]_vars PROVE TypeInv'
  BY SMTT(60)
<1> USE LedgerConstants, PipelineConstants
<1>0. \A p \in Lines : IdOf[p] # NoId => IdOf[p] \in Ids
  BY SMTT(60)
<1>1. CASE Write
  BY <1>1, SMTT(60) DEF TypeInv, TypeOK, Write, roadVars, senderVars, GoodQueue, Line
<1>2. ASSUME NEW id \in HookIds, Webhook(id) PROVE TypeInv'
  <2>1. GoodQueue(queue')
    BY <1>2, PushGood, SMTT(60) DEF TypeInv, Webhook, Enqueue
  <2> QED BY <1>2, <2>1, SMTT(60) DEF TypeInv, TypeOK, Webhook, Enqueue, roadVars, senderVars, GoodQueue, Line
<1>3. CASE LoadPosition
  BY <1>3 DEF TypeInv, TypeOK, LoadPosition, logVars, senderVars, GoodQueue, Line
<1>4. CASE InstallLedger
  BY <1>4, NewLedgerType, ZenonT(60)
     DEF TypeInv, TypeOK, InstallLedger, DetachLedger, logVars, GoodQueue, Line
<1>5. CASE ReadBaseline
  BY <1>5, ZenonT(60) DEF TypeInv, TypeOK, ReadBaseline, logVars, senderVars, GoodQueue, Line
<1>6. CASE CancelSession
  BY <1>6 DEF TypeInv, TypeOK, CancelSession, logVars, senderVars, GoodQueue, Line
<1>7. CASE SessionOver
  BY <1>7 DEF TypeInv, TypeOK, SessionOver, logVars, senderVars, GoodQueue, Line
<1>8. CASE ReadLine
  <2>1. Line \in Lines
    BY <1>8 DEF ReadLine, TypeInv, TypeOK, Line, Lines
  <2> QED BY <1>8, <1>0, <2>1
         DEF TypeInv, TypeOK, ReadLine, Gate, logVars, senderVars, GoodQueue, Line
<1>9. CASE RoomAgain
  BY <1>9, SMTT(60) DEF TypeInv, TypeOK, RoomAgain, logVars, senderVars, GoodQueue, Line
<1>10. CASE AbandonLine
  BY <1>10, SMTT(60) DEF TypeInv, TypeOK, AbandonLine, logVars, senderVars, GoodQueue, Line, Lines
<1>11. CASE PushLine
  <2>1. GoodQueue(queue')
    BY <1>11, PushGood, SMTT(60) DEF TypeInv, PushLine, Enqueue
  <2> QED BY <1>11, <2>1, SMTT(60) DEF TypeInv, TypeOK, PushLine, Enqueue, logVars, senderVars, GoodQueue, Line
<1>12. CASE AppendLine
  <2>1. Line \in Lines
    BY <1>12 DEF AppendLine, TypeInv, TypeOK, Line, Lines
  <2>2. ledger' \in LedgerType
    BY <1>12, <2>1, LedgerOpsType, ZenonT(60) DEF AppendLine, TypeInv, TypeOK
  <2>3. collided' \in BOOLEAN
    BY <1>12, SMTT(60) DEF AppendLine
  <2> QED BY <1>12, <2>1, <2>2, <2>3, SMTT(60)
         DEF TypeInv, TypeOK, AppendLine, logVars, senderVars, GoodQueue, Line, Lines
<1>13. CASE ReachEOF
  BY <1>13, SMTT(60) DEF TypeInv, TypeOK, ReachEOF, logVars, senderVars, GoodQueue, Line
<1>14. CASE Poll
  BY <1>14, SMTT(60) DEF TypeInv, TypeOK, Poll, logVars, senderVars, GoodQueue, Line
<1>15. ASSUME NEW pending, PeekBatch(pending) PROVE TypeInv'
  <2>1. batch' \in Seq(Ids) /\ due' \subseteq Ids
    BY <1>15, PeekType, SMTT(60) DEF PeekBatch, TypeInv, TypeOK
  <2> QED BY <1>15, <2>1, SMTT(60) DEF TypeInv, TypeOK, PeekBatch, logVars, roadVars, GoodQueue, Line
<1>16. ASSUME NEW kept, NEW answered, PushBatch(kept, answered) PROVE TypeInv'
  <2>1. stored' \subseteq Ids \ Invalid /\ due' \subseteq Ids
    BY <1>16 DEF TypeInv, TypeOK, PushBatch, Named, InsertNew
  <2>2. batch' \in Seq(Ids) /\ sender' \in {"ack", "peek"}
    <3>1. batch \in Seq(Ids) /\ <<>> \in Seq(Ids)
      BY EmptyGood, SMTT(60) DEF TypeInv, TypeOK, GoodQueue
    <3>2. (batch' = batch /\ sender' = "ack") \/ (batch' = <<>> /\ sender' = "peek")
      BY <1>16, SMTT(60) DEF PushBatch, Named, InsertNew
    <3> QED BY <3>1, <3>2, ZenonT(60)
  <2>3. UNCHANGED <<logVars, saved, queue, evicted, collided, ledger,
                    roadVars, stale, oldLedger, abandoned, crashes>>
    BY <1>16, SMTT(60) DEF PushBatch, Named, InsertNew
  <2> QED BY <2>1, <2>2, <2>3, SMTT(60) DEF TypeInv, TypeOK, logVars, roadVars, GoodQueue, Line
<1>17. CASE AckEvent
  <2>1. GoodQueue(queue')
    BY <1>17, RemoveGood, SMTT(60) DEF TypeInv, AckEvent
  <2>2. /\ batch' \in Seq(Ids) /\ sender' \in {"ack", "resolve"}
        /\ sender' = "resolve" => batch' # <<>>
    <3>1. batch \in Seq(Ids) /\ batch # <<>> /\ sender = "ack"
      BY <1>17 DEF TypeInv, TypeOK, AckEvent
    <3>2. Tail(batch) \in Seq(Ids)
      BY <3>1, SMTT(60)
    <3>3. (batch' = batch /\ sender' = "resolve") \/ (batch' = Tail(batch) /\ sender' = sender)
      BY <1>17, SMTT(60) DEF AckEvent
    <3> QED BY <3>1, <3>2, <3>3, SMTT(60)
  <2>3. UNCHANGED <<logVars, stored, saved, evicted, collided, ledger, roadVars,
                    due, stale, oldLedger, abandoned, crashes>>
    BY <1>17, SMTT(60) DEF AckEvent
  <2> QED BY <2>1, <2>2, <2>3, SMTT(60) DEF TypeInv, TypeOK, logVars, roadVars, GoodQueue, Line
<1>18. CASE ResolveEvent
  <2>1. ledger' \in LedgerType /\ oldLedger' \in LedgerType
    BY <1>18, LedgerOpsType, ZenonT(60) DEF TypeInv, TypeOK, ResolveEvent, SetHeldLedger, HeldLedger
  <2> QED BY <1>18, <2>1 DEF TypeInv, TypeOK, ResolveEvent, logVars, roadVars, GoodQueue, Line
<1>19. CASE AdvanceAndSave
  <2>1. ledger' \in LedgerType /\ oldLedger' \in LedgerType
    BY <1>19, LedgerOpsType, NewLedgerType DEF TypeInv, TypeOK, AdvanceAndSave, Save
  <2>2. saved' \in 0..MaxLines
    BY <1>19, LedgerOpsType, SMTT(60) DEF TypeInv, TypeOK, AdvanceAndSave, Save, HeldLedger, Lines
  <2> QED BY <1>19, <2>1, <2>2, ZenonT(60) DEF TypeInv, TypeOK, AdvanceAndSave, Save, logVars, roadVars, GoodQueue, Line
<1>20. CASE Crash
  <2>1. GoodQueue(queue')
    BY <1>20, EmptyGood, SMTT(60) DEF Crash
  <2>2. TypeOK'
    <3>1. /\ written' \in 0..MaxLines /\ saved' \in 0..MaxLines /\ cursor' \in 0..MaxLines
          /\ crashes' \in 0..MaxCrashes
      BY <1>20, SMTT(60) DEF TypeInv, TypeOK, Crash, logVars
    <3>2. queue' \in Seq(Ids) /\ batch' \in Seq(Ids)
      BY <1>20, EmptyGood DEF Crash, GoodQueue
    <3>3. /\ evicted' \in BOOLEAN /\ collided' \in BOOLEAN
          /\ cancelled' \in BOOLEAN /\ stale' \in BOOLEAN
      BY <1>20, ZenonT(60) DEF Crash
    <3>4. ledger' \in LedgerType /\ oldLedger' \in LedgerType
      BY <1>20, NewLedgerType, SMTT(60) DEF Crash
    <3>5. /\ hooked' \subseteq HookIds /\ stored' \subseteq Ids \ Invalid
          /\ abandoned' \subseteq Lines /\ due' \subseteq Ids
      BY <1>20, SMTT(60) DEF TypeInv, TypeOK, Crash, logVars
    <3> QED BY <1>20, <3>1, <3>2, <3>3, <3>4, <3>5, SMTT(60) DEF TypeOK, Crash
  <2> QED BY <1>20, <2>1, <2>2, SMTT(60) DEF TypeInv, Crash, GoodQueue
<1>21. CASE UNCHANGED vars
  BY <1>21 DEF TypeInv, TypeOK, vars, logVars, roadVars, senderVars, GoodQueue, Line
<1> QED
  BY <1>1, <1>2, <1>3, <1>4, <1>5, <1>6, <1>7, <1>8, <1>9, <1>10, <1>11, <1>12, <1>13,
     <1>14, <1>15, <1>16, <1>17, <1>18, <1>19, <1>20, <1>21, SMTT(60)
     DEF Next, Monitor, Tailer, Settle

\* Every variable keeps its type.
THEOREM TypeCorrect == Spec => []TypeOK
<1>1. TypeInv => TypeOK
  BY DEF TypeInv
<1> QED BY <1>1, TypeInit, TypeNext, PTL DEF Spec

\* The queue never holds more than MaxEvents events, nor one of them twice.
THEOREM QueueIsBounded == Spec => []QueueBounded
<1>1. TypeInv => QueueBounded
  BY DEF TypeInv, GoodQueue, QueueBounded
<1> QED BY <1>1, TypeInit, TypeNext, PTL DEF Spec

-----------------------------------------------------------------------------
(* The saved position never passes a line that still has to be sent.        *)

\* Nothing is owed for a line any more.
Covered(p) == Settled(p) \/ p \in abandoned

\* What a ledger knows can be trusted: its resolved entries are covered, and
\* so is every line before one of its entries that it has no entry for.
LedgerSound(l) ==
    /\ l.resolved \subseteq l.entries
    /\ \A p \in l.resolved : Covered(p)
    /\ \A p \in Lines : (p \notin l.entries /\ \E q \in l.entries : p <= q) => Covered(p)

\* The strengthening of LossOnlyByAbandonedWait that steps preserve: both
\* ledgers are sound; what the session has consumed is in its ledger or
\* covered; and the sender settles only what birdcage has settled.
SafetyInv ==
    /\ \A p \in 1..saved : Covered(p)
    /\ LedgerSound(ledger)
    /\ LedgerSound(oldLedger)
    /\ monitor = "install" => \A p \in 1..cursor : Covered(p)
    /\ tailer # "off" => \A p \in 1..cursor : p \in ledger.entries \/ Covered(p)
    /\ tailer # "off" => ledger.entries \subseteq 1..cursor
    /\ sender \in {"ack", "resolve"} => due \subseteq stored \cup Invalid
    /\ sender = "resolve" => Head(batch) \in due

\* A fresh ledger claims nothing, so it is sound.
LEMMA NewLedgerSound == LedgerSound(NewLedger)
  BY SMTT(60) DEF NewLedger, LedgerSound

\* Resolving an event birdcage has settled keeps a ledger sound.
LEMMA ResolveSound ==
    ASSUME NEW l \in LedgerType, LedgerSound(l), NEW id \in stored \cup Invalid
    PROVE  LedgerSound(Resolve(l, id))
<1> DEFINE r == Resolve(l, id)
<1>1. r.entries = l.entries
  BY DEF Resolve, LedgerType
<1>2. r.resolved \subseteq l.entries /\ \A p \in r.resolved : p \in l.resolved \/ IdOf[p] = id
  BY DEF Resolve, LedgerType, LedgerSound
<1> HIDE DEF r
<1> QED BY <1>1, <1>2 DEF LedgerSound, Covered, Settled, r

\* So does Advance, and the position it returns has only covered lines
\* before it.
LEMMA AdvanceSound ==
    ASSUME NEW l \in LedgerType, LedgerSound(l)
    PROVE  /\ LedgerSound(Advance(l))
           /\ \A f \in Frontier(l) : \A p \in 1..f : Covered(p)
<1> DEFINE done == ResolvedPrefix(l)
<1>0. l.entries \subseteq Lines /\ l.resolved \subseteq l.entries
  BY DEF LedgerType, LedgerSound
<1>1. done \subseteq l.resolved /\ \A p \in done : Covered(p)
  BY <1>0, SMTT(60) DEF ResolvedPrefix, LedgerSound, Lines
<1>2. Advance(l).entries = l.entries \ done /\ Advance(l).resolved = l.resolved \ done
  BY SMTT(60) DEF Advance
<1>3. LedgerSound(Advance(l))
  <2> HIDE DEF done
  <2> QED BY <1>0, <1>1, <1>2, SMTT(60) DEF LedgerSound
<1>4. ASSUME NEW f \in Frontier(l), NEW p \in 1..f PROVE Covered(p)
  <2>1. f \in l.entries /\ f \in Lines /\ \A q \in l.entries : q <= f => q \in l.resolved
    BY <1>0, <1>4, SMTT(60) DEF Frontier, ResolvedPrefix
  <2>2. p \in Lines /\ p <= f
    BY <1>4, <2>1, LedgerConstants, SMTT(60) DEF Lines
  <2>3. CASE p \in l.entries
    BY <2>1, <2>2, <2>3, SMTT(60) DEF LedgerSound
  <2>4. CASE p \notin l.entries
    BY <2>1, <2>2, <2>4, SMTT(60) DEF LedgerSound
  <2> QED BY <2>3, <2>4, SMTT(60)
<1> QED BY <1>3, <1>4

\* Covered lines stay covered, so a ledger that does not change stays sound.
LEMMA CoveredForGood ==
    ASSUME stored \subseteq stored', abandoned \subseteq abandoned'
    PROVE  /\ \A p : Covered(p) => Covered(p)'
           /\ \A l : LedgerSound(l) => LedgerSound(l)'
<1>1. \A p : Covered(p) => Covered(p)'
  BY SMTT(60) DEF Covered, Settled
<1>2. ASSUME NEW l, LedgerSound(l) PROVE LedgerSound(l)'
  BY <1>1, <1>2, SMTT(60) DEF LedgerSound
<1> QED BY <1>1, <1>2, SMTT(60)

\* The safety invariant holds of a freshly started agent.
LEMMA SafetyInit == Init => SafetyInv
<1> SUFFICES ASSUME Init PROVE SafetyInv
  OBVIOUS
<1>1. LedgerSound(ledger) /\ LedgerSound(oldLedger)
  BY NewLedgerSound, SMTT(60) DEF Init
<1> QED BY <1>1 DEF Init, SafetyInv

\* Steps that leave the ledgers, the cursor's session and the sender's
\* verdicts alone.
LEMMA SafetyStutter ==
    ASSUME SafetyInv, stored \subseteq stored', abandoned \subseteq abandoned',
           UNCHANGED <<saved, ledger, oldLedger, cursor>>,
           monitor' = "install" => monitor = "install",
           tailer' # "off" => tailer # "off",
           sender' \in {"ack", "resolve"} => due' \subseteq stored' \cup Invalid,
           sender' = "resolve" => Head(batch') \in due'
    PROVE  SafetyInv'
<1>1. \A p : Covered(p) => Covered(p)'
  BY CoveredForGood, SMTT(60)
<1>2. LedgerSound(ledger)' /\ LedgerSound(oldLedger)'
  BY <1>1, SMTT(60) DEF SafetyInv, LedgerSound
<1> QED BY <1>1, <1>2, SMTT(60) DEF SafetyInv

\* Steps that do not touch the sender either.
LEMMA SafetyFrame ==
    ASSUME SafetyInv, stored \subseteq stored', abandoned \subseteq abandoned',
           UNCHANGED <<saved, ledger, oldLedger, cursor, sender, due, batch>>,
           monitor' = "install" => monitor = "install",
           tailer' # "off" => tailer # "off"
    PROVE  SafetyInv'
<1>1. sender' \in {"ack", "resolve"} => due' \subseteq stored' \cup Invalid
  BY SMTT(60) DEF SafetyInv
<1>2. sender' = "resolve" => Head(batch') \in due'
  BY SMTT(60) DEF SafetyInv
<1> QED BY <1>1, <1>2, SafetyStutter, SMTT(60)

\* Every step of the pipeline keeps the safety invariant.
LEMMA SafetyNext == TypeInv /\ SafetyInv /\ [Next]_vars => SafetyInv'
<1> SUFFICES ASSUME TypeInv, SafetyInv, [Next]_vars PROVE SafetyInv'
  OBVIOUS
<1>1. CASE Write
  <2>1. /\ stored \subseteq stored' /\ abandoned \subseteq abandoned'
        /\ UNCHANGED <<saved, ledger, oldLedger, cursor, sender, due, batch>>
        /\ monitor' = "install" => monitor = "install"
        /\ tailer' # "off" => tailer # "off"
    BY <1>1, SMTT(60) DEF Write, roadVars, senderVars
  <2> QED BY <2>1, SafetyFrame, SMTT(60)
<1>2. ASSUME NEW id \in HookIds, Webhook(id) PROVE SafetyInv'
  <2>1. /\ stored \subseteq stored' /\ abandoned \subseteq abandoned'
        /\ UNCHANGED <<saved, ledger, oldLedger, cursor, sender, due, batch>>
        /\ monitor' = "install" => monitor = "install"
        /\ tailer' # "off" => tailer # "off"
    BY <1>2, SMTT(60) DEF Webhook, roadVars, senderVars
  <2> QED BY <2>1, SafetyFrame, SMTT(60)
<1>3. CASE LoadPosition
  <2>1. \A p : Covered(p) => Covered(p)'
    BY <1>3, CoveredForGood, SMTT(60) DEF LoadPosition
  <2>2. LedgerSound(ledger)' /\ LedgerSound(oldLedger)'
    BY <1>3, <2>1, SMTT(60) DEF SafetyInv, LedgerSound, LoadPosition, senderVars
  <2>3. tailer' = "off"
    BY <1>3, SMTT(60) DEF LoadPosition, TypeInv
  <2> QED BY <1>3, <2>1, <2>2, <2>3, SMTT(60) DEF LoadPosition, SafetyInv, senderVars
<1>4. CASE InstallLedger
  <2>1. \A p : Covered(p) => Covered(p)'
    BY <1>4, CoveredForGood, SMTT(60) DEF InstallLedger
  <2>2. LedgerSound(NewLedger)'
    BY <2>1, NewLedgerSound, SMTT(60) DEF LedgerSound, NewLedger
  <2>3. LedgerSound(ledger)'
    BY <1>4, <2>2, SMTT(60) DEF InstallLedger, LedgerSound
  <2>4. LedgerSound(oldLedger)'
    BY <1>4, <2>1, SMTT(60) DEF SafetyInv, LedgerSound, InstallLedger, DetachLedger
  <2> QED BY <1>4, <2>1, <2>3, <2>4, SMTT(60) DEF InstallLedger, SafetyInv, NewLedger
<1>5. CASE ReadBaseline
  <2>1. /\ stored \subseteq stored' /\ abandoned \subseteq abandoned'
        /\ UNCHANGED <<saved, ledger, oldLedger, cursor, sender, due, batch>>
        /\ monitor' = "install" => monitor = "install"
        /\ tailer' # "off" => tailer # "off"
    BY <1>5, SMTT(60) DEF ReadBaseline, senderVars
  <2> QED BY <2>1, SafetyFrame, SMTT(60)
<1>6. CASE CancelSession
  <2>1. /\ stored \subseteq stored' /\ abandoned \subseteq abandoned'
        /\ UNCHANGED <<saved, ledger, oldLedger, cursor, sender, due, batch>>
        /\ monitor' = "install" => monitor = "install"
        /\ tailer' # "off" => tailer # "off"
    BY <1>6, SMTT(60) DEF CancelSession, senderVars
  <2> QED BY <2>1, SafetyFrame, SMTT(60)
<1>7. CASE SessionOver
  <2>1. /\ stored \subseteq stored' /\ abandoned \subseteq abandoned'
        /\ UNCHANGED <<saved, ledger, oldLedger, cursor, sender, due, batch>>
        /\ monitor' = "install" => monitor = "install"
        /\ tailer' # "off" => tailer # "off"
    BY <1>7, SMTT(60) DEF SessionOver, senderVars
  <2> QED BY <2>1, SafetyFrame, SMTT(60)
<1>8. CASE ReadLine
  <2>1. \A p : Covered(p) => Covered(p)'
    BY <1>8, CoveredForGood, SMTT(60) DEF ReadLine
  <2>2. LedgerSound(ledger)' /\ LedgerSound(oldLedger)'
    BY <1>8, <2>1, SMTT(60) DEF SafetyInv, LedgerSound, ReadLine, senderVars
  <2>3. monitor' # "install" /\ tailer # "off"
    BY <1>8, SMTT(60) DEF ReadLine, TypeInv
  <2>4. ASSUME NEW p \in 1..cursor' PROVE p \in ledger'.entries \/ Covered(p)'
    <3>1. p \in 1..cursor \/ (p = Line /\ IdOf[Line] = NoId)
      BY <1>8, SMTT(60) DEF ReadLine, Line, TypeInv, TypeOK
    <3> QED BY <1>8, <2>1, <2>3, <3>1, SMTT(60) DEF ReadLine, SafetyInv, Covered, Settled
  <2>5. ledger'.entries \subseteq 1..cursor'
    BY <1>8, <2>3, SMTT(60) DEF ReadLine, SafetyInv, Line, TypeInv, TypeOK
  <2> QED BY <1>8, <2>1, <2>2, <2>3, <2>4, <2>5, SMTT(60) DEF ReadLine, SafetyInv, senderVars
<1>9. CASE RoomAgain
  <2>1. /\ stored \subseteq stored' /\ abandoned \subseteq abandoned'
        /\ UNCHANGED <<saved, ledger, oldLedger, cursor, sender, due, batch>>
        /\ monitor' = "install" => monitor = "install"
        /\ tailer' # "off" => tailer # "off"
    BY <1>9, SMTT(60) DEF RoomAgain, senderVars
  <2> QED BY <2>1, SafetyFrame, SMTT(60)
<1>10. CASE AbandonLine
  <2>1. \A p : Covered(p) => Covered(p)'
    BY <1>10, CoveredForGood, SMTT(60) DEF AbandonLine
  <2>2. LedgerSound(ledger)' /\ LedgerSound(oldLedger)'
    BY <1>10, <2>1, ZenonT(60) DEF SafetyInv, LedgerSound, AbandonLine, senderVars
  <2>3. monitor' # "install" /\ tailer # "off"
    BY <1>10, SMTT(60) DEF AbandonLine, TypeInv
  <2>4. ASSUME NEW p \in 1..cursor' PROVE p \in ledger'.entries \/ Covered(p)'
    <3>1. p \in 1..cursor \/ p = Line
      BY <1>10, SMTT(60) DEF AbandonLine, Line, TypeInv, TypeOK
    <3> QED BY <1>10, <2>1, <2>3, <3>1, SMTT(60) DEF AbandonLine, SafetyInv, Covered
  <2>5. ledger'.entries \subseteq 1..cursor'
    BY <1>10, <2>3, SMTT(60) DEF AbandonLine, SafetyInv, Line, TypeInv, TypeOK
  <2> QED BY <1>10, <2>1, <2>2, <2>3, <2>4, <2>5, SMTT(60) DEF AbandonLine, SafetyInv, senderVars
<1>11. CASE PushLine
  <2>1. /\ stored \subseteq stored' /\ abandoned \subseteq abandoned'
        /\ UNCHANGED <<saved, ledger, oldLedger, cursor, sender, due, batch>>
        /\ monitor' = "install" => monitor = "install"
        /\ tailer' # "off" => tailer # "off"
    BY <1>11, SMTT(60) DEF PushLine, senderVars
  <2> QED BY <2>1, SafetyFrame, SMTT(60)
<1>12. CASE AppendLine
  <2>1. \A p : Covered(p) => Covered(p)'
    BY <1>12, CoveredForGood, SMTT(60) DEF AppendLine
  <2>2. ledger'.entries = ledger.entries \cup {Line} /\ ledger'.resolved = ledger.resolved
    BY <1>12, SMTT(60) DEF AppendLine, AppendEntry, TypeInv, TypeOK, LedgerType
  <2>3. monitor' # "install" /\ tailer # "off" /\ cursor' = cursor + 1 /\ Line = cursor + 1
    BY <1>12, SMTT(60) DEF AppendLine, TypeInv, Line
  <2>4. cursor \in Nat
    BY SMTT(60) DEF TypeInv, TypeOK
  <2>5. ledger'.entries \subseteq 1..cursor'
    BY <2>2, <2>3, <2>4, SMTT(60) DEF SafetyInv
  <2>6. ASSUME NEW p \in 1..cursor' PROVE p \in ledger'.entries \/ Covered(p)'
    <3>1. p \in 1..cursor \/ p = Line
      BY <2>3, <2>4, SMTT(60)
    <3> QED BY <2>1, <2>2, <2>3, <3>1, SMTT(60) DEF SafetyInv
  <2>7. LedgerSound(ledger)'
    <3>1. ASSUME NEW p \in Lines, p \notin ledger'.entries, NEW q \in ledger'.entries, p <= q
          PROVE  Covered(p)'
      <4>1. p \in 1..cursor'
        BY <3>1, <2>3, <2>4, <2>5, LedgerConstants, SMTT(60) DEF Lines
      <4> QED BY <3>1, <4>1, <2>6, SMTT(60)
    <3>2. /\ ledger'.resolved \subseteq ledger'.entries
          /\ \A p \in ledger'.resolved : Covered(p)'
      BY <2>1, <2>2, SMTT(60) DEF SafetyInv, LedgerSound
    <3> QED BY <3>1, <3>2, SMTT(60) DEF LedgerSound
  <2>8. LedgerSound(oldLedger)'
    BY <1>12, <2>1, SMTT(60) DEF SafetyInv, LedgerSound, AppendLine, senderVars
  <2> QED BY <1>12, <2>1, <2>3, <2>5, <2>6, <2>7, <2>8, SMTT(60) DEF AppendLine, SafetyInv, senderVars
<1>13. CASE ReachEOF
  <2>1. /\ stored \subseteq stored' /\ abandoned \subseteq abandoned'
        /\ UNCHANGED <<saved, ledger, oldLedger, cursor, sender, due, batch>>
        /\ monitor' = "install" => monitor = "install"
        /\ tailer' # "off" => tailer # "off"
    BY <1>13, SMTT(60) DEF ReachEOF, senderVars
  <2> QED BY <2>1, SafetyFrame, SMTT(60)
<1>14. CASE Poll
  <2>1. /\ stored \subseteq stored' /\ abandoned \subseteq abandoned'
        /\ UNCHANGED <<saved, ledger, oldLedger, cursor, sender, due, batch>>
        /\ monitor' = "install" => monitor = "install"
        /\ tailer' # "off" => tailer # "off"
    BY <1>14, SMTT(60) DEF Poll, senderVars
  <2> QED BY <2>1, SafetyFrame, SMTT(60)
<1>15. ASSUME NEW pending, PeekBatch(pending) PROVE SafetyInv'
  BY <1>15, SafetyStutter, SMTT(60) DEF PeekBatch, roadVars
<1>16. ASSUME NEW kept, NEW answered, PushBatch(kept, answered) PROVE SafetyInv'
  <2>1. stored \subseteq stored' /\ sender' # "resolve"
    BY <1>16, SMTT(60) DEF PushBatch, Named, InsertNew
  <2>2. sender' = "ack" => due' \subseteq stored' \cup Invalid
    BY <1>16, SMTT(60) DEF PushBatch, Named, InsertNew
  <2> QED BY <1>16, <2>1, <2>2, SafetyStutter, SMTT(60) DEF PushBatch, Named, InsertNew, roadVars
<1>17. CASE AckEvent
  <2>1. sender' = "resolve" => Head(batch') \in due'
    BY <1>17, SMTT(60) DEF AckEvent
  <2>2. due' \subseteq stored' \cup Invalid
    BY <1>17, SMTT(60) DEF AckEvent, SafetyInv
  <2> QED BY <1>17, <2>1, <2>2, SafetyStutter, SMTT(60) DEF AckEvent, roadVars
<1>18. CASE ResolveEvent
  <2>1. \A p : Covered(p) => Covered(p)'
    BY <1>18, CoveredForGood, SMTT(60) DEF ResolveEvent
  <2>2. Head(batch) \in stored \cup Invalid
    BY <1>18, SMTT(60) DEF ResolveEvent, SafetyInv
  <2>3. LedgerSound(HeldLedger) /\ HeldLedger \in LedgerType
    BY SMTT(60) DEF SafetyInv, HeldLedger, TypeInv, TypeOK
  <2>4. LedgerSound(Resolve(HeldLedger, Head(batch)))
    BY <2>2, <2>3, ResolveSound, SMTT(60)
  <2>5. LedgerSound(ledger)' /\ LedgerSound(oldLedger)'
    BY <1>18, <2>1, <2>4, SMTT(60) DEF SafetyInv, LedgerSound, ResolveEvent, SetHeldLedger
  <2>6. ledger'.entries = ledger.entries
    BY <1>18, SMTT(60) DEF ResolveEvent, SetHeldLedger, HeldLedger, Resolve, TypeInv, TypeOK, LedgerType
  <2> QED BY <1>18, <2>1, <2>5, <2>6, SMTT(60) DEF ResolveEvent, SafetyInv, roadVars
<1>19. CASE AdvanceAndSave
  <2>1. \A p : Covered(p) => Covered(p)'
    BY <1>19, CoveredForGood, SMTT(60) DEF AdvanceAndSave, Save
  <2>2. LedgerSound(HeldLedger) /\ HeldLedger \in LedgerType
    BY DEF SafetyInv, HeldLedger, TypeInv, TypeOK
  <2>3. /\ LedgerSound(Advance(HeldLedger))
        /\ \A f \in Frontier(HeldLedger) : \A p \in 1..f : Covered(p)
    BY <2>2, AdvanceSound, SMTT(60)
  <2>4. \A p \in 1..saved' : Covered(p)'
    BY <1>19, <2>1, <2>3, SMTT(60) DEF AdvanceAndSave, Save, SafetyInv
  <2>5. LedgerSound(oldLedger)'
    BY <1>19, <2>1, NewLedgerSound, SMTT(60) DEF AdvanceAndSave, Save, LedgerSound, NewLedger
  <2>6. LedgerSound(ledger)'
    BY <1>19, <2>1, <2>3, SMTT(60) DEF AdvanceAndSave, Save, LedgerSound, HeldLedger, SafetyInv
  <2>9. ledger' = ledger \/ ledger' = Advance(ledger)
    BY <1>19, SMTT(60) DEF AdvanceAndSave
  <2>10. LedgerSound(ledger) /\ ledger \in LedgerType
    BY SMTT(60) DEF SafetyInv, TypeInv, TypeOK
  <2>7. \A p \in ledger.entries : p \in ledger'.entries \/ Covered(p)
    BY <2>9, <2>10, SMTT(60) DEF Advance, ResolvedPrefix, LedgerSound, LedgerType, Lines
  <2>8. ledger'.entries \subseteq ledger.entries
    BY <2>9, SMTT(60) DEF Advance
  <2> QED BY <1>19, <2>1, <2>4, <2>5, <2>6, <2>7, <2>8, ZenonT(60) DEF AdvanceAndSave, Save, SafetyInv, roadVars
<1>20. CASE Crash
  <2>1. \A p : Covered(p) => Covered(p)'
    BY <1>20, CoveredForGood, SMTT(60) DEF Crash
  <2>2. LedgerSound(ledger)' /\ LedgerSound(oldLedger)'
    BY <1>20, <2>1, NewLedgerSound, SMTT(60) DEF Crash, LedgerSound, NewLedger
  <2> QED BY <1>20, <2>1, <2>2, SMTT(60) DEF Crash, SafetyInv
<1>21. CASE UNCHANGED vars
  <2>1. /\ stored \subseteq stored' /\ abandoned \subseteq abandoned'
        /\ UNCHANGED <<saved, ledger, oldLedger, cursor, sender, due, batch>>
        /\ monitor' = "install" => monitor = "install"
        /\ tailer' # "off" => tailer # "off"
    BY <1>21, SMTT(60) DEF vars, roadVars, senderVars
  <2> QED BY <2>1, SafetyFrame, SMTT(60)
<1> QED
  BY SMTT(60), <1>1, <1>2, <1>3, <1>4, <1>5, <1>6, <1>7, <1>8, <1>9, <1>10, <1>11, <1>12, <1>13,
     <1>14, <1>15, <1>16, <1>17, <1>18, <1>19, <1>20, <1>21, SMTT(60)
     DEF Next, Monitor, Tailer, Settle

\* The saved position passes a line only when birdcage has settled its
\* event, when it has none, or when handleLogLine gave up waiting for room.
THEOREM SavedPositionSafe == Spec => []LossOnlyByAbandonedWait
<1>1. SafetyInv => LossOnlyByAbandonedWait
  BY SMTT(60) DEF SafetyInv, Covered, LossOnlyByAbandonedWait
<1> QED BY <1>1, TypeInit, TypeNext, SafetyInit, SafetyNext, PTL DEF Spec

\* The removal of an event leaves the others in the queue.
LEMMA RemoveKeeps ==
    ASSUME NEW q \in Seq(Ids), NEW id, NEW x \in Range(q), x # id
    PROVE  x \in Range(RemoveLocked(q, id))
<1>1. CASE ~Queued(q, id)
  BY <1>1, SMTT(60) DEF RemoveLocked
<1>2. CASE Queued(q, id)
  <2> DEFINE n == CHOOSE i \in 1..Len(q) : q[i] = id
             r == RemoveLocked(q, id)
  <2>1. n \in 1..Len(q) /\ q[n] = id
    BY <1>2 DEF Queued, Range
  <2> DEFINE u == SubSeq(q, 1, n - 1)
             v == SubSeq(q, n + 1, Len(q))
  <2>2. r = u \o v
    BY <1>2, ZenonT(60) DEF RemoveLocked
  <2> HIDE DEF n, r
  <2>3. u \in Seq(Ids) /\ Len(u) = n - 1 /\ \A i \in 1..Len(u) : u[i] = q[i]
    BY <2>1, SMTT(60)
  <2>4. v \in Seq(Ids) /\ Len(v) = Len(q) - n /\ \A i \in 1..Len(v) : v[i] = q[i + n]
    BY <2>1
  <2>0. Len(q) \in Nat
    BY SMTT(60)
  <2> HIDE DEF u, v
  <2>5. /\ u \o v \in Seq(Ids) /\ Len(u \o v) = Len(u) + Len(v)
        /\ \A i \in 1..Len(u) : (u \o v)[i] = u[i]
        /\ \A i \in 1..Len(v) : (u \o v)[Len(u) + i] = v[i]
    <3>1. u \in Seq(Ids) /\ v \in Seq(Ids)
      BY <2>3, <2>4, SMTT(60)
    <3>2. u \o v \in Seq(Ids) /\ Len(u \o v) = Len(u) + Len(v)
      BY <3>1, ConcatProperties, SMTT(60)
    <3>3. \A i \in 1..Len(u) : (u \o v)[i] = u[i]
      BY <3>1, SMTT(60)
    <3>4. \A i \in 1..Len(v) : (u \o v)[Len(u) + i] = v[i]
      BY <3>1, SMTT(60)
    <3> QED BY <3>2, <3>3, <3>4, SMTT(60)
  <2>6. PICK i \in 1..Len(q) : q[i] = x
    BY SMTT(60) DEF Range
  <2>7. PICK k \in 1..Len(r) : r[k] = x
    <3>1. CASE i < n
      <4>1. i \in 1..Len(u) /\ i \in 1..Len(u \o v)
        BY <3>1, <2>0, <2>1, <2>3, <2>4, <2>5, <2>6, SMTT(60)
      <4> QED BY <4>1, <2>2, <2>3, <2>5, <2>6, ZenonT(60)
    <3>2. CASE i > n
      <4>1. i - n \in 1..Len(v) /\ (i - n) + n = i /\ Len(u) + (i - n) \in 1..Len(u \o v)
        BY <3>2, <2>0, <2>1, <2>3, <2>4, <2>5, <2>6, SMTT(60)
      <4>2. PICK j \in 1..Len(v) : j = i - n
        BY <4>1
      <4>3. (u \o v)[Len(u) + j] = q[i] /\ Len(u) + j \in 1..Len(u \o v)
        BY <4>1, <4>2, <2>4, <2>5, ZenonT(60)
      <4> QED BY <4>3, <2>2, <2>6, ZenonT(60)
    <3>3. CASE i = n
      BY <3>3, <2>1, <2>6, SMTT(60)
    <3> QED BY <3>1, <3>2, <3>3, <2>1, <2>6, SMTT(60)
  <2>8. r \in Seq(Ids)
    BY <2>2, <2>5, SMTT(60)
  <2> QED BY <2>7, <2>8, SMTT(60) DEF Range, r
<1> QED BY <1>1, <1>2, SMTT(60)

\* Push takes nothing out of the queue unless it counts an eviction.
LEMMA PushKeeps ==
    ASSUME NEW q \in Seq(Ids), NEW id \in Ids, ~ (Evictions(q, id) > 0)
    PROVE  Range(q) \subseteq Range(Push(q, id))
<1>1. CASE Queued(q, id)
  BY <1>1 DEF Push
<1>2. CASE ~Queued(q, id)
  <2>1. Evictions(q, id) = 0
    BY EvictionsEnough
  <2>2. Push(q, id) = Append(SubSeq(q, 1, Len(q)), id)
    <3>1. 0 + 1 = 1
      OBVIOUS
    <3> QED BY <1>2, <2>1, <3>1, ZenonT(60) DEF Push
  <2>3. SubSeq(q, 1, Len(q)) = q
    BY SMTT(60)
  <2>4. ASSUME NEW x \in Range(q) PROVE x \in Range(Append(q, id))
    <3>1. PICK i \in 1..Len(q) : q[i] = x
      BY SMTT(60) DEF Range
    <3>2. Append(q, id) \in Seq(Ids) /\ i \in 1..Len(Append(q, id)) /\ Append(q, id)[i] = x
      BY <3>1
    <3> QED BY <3>2, SMTT(60) DEF Range
  <2> QED BY <2>2, <2>3, <2>4, ZenonT(60)
<1> QED BY <1>1, <1>2, SMTT(60)

\* What a session's ledger remembers, it has read.
Remembered == tailer # "off" => ledger.discarded \subseteq 1..cursor

\* Reading, discarding and a new session keep it so.
LEMMA RememberedNext == TypeInv /\ SafetyInv /\ Remembered /\ [Next]_vars => Remembered'
<1> SUFFICES ASSUME TypeInv, SafetyInv, Remembered, [Next]_vars PROVE Remembered'
  BY SMTT(60)
<1>t. cursor \in Nat /\ ledger \in LedgerType
  BY DEF TypeInv, TypeOK
<1>1. CASE ledger' = ledger /\ cursor' = cursor /\ (tailer' # "off" => tailer # "off")
  BY <1>1, ZenonT(60) DEF Remembered
<1>2. CASE ledger' = ledger /\ cursor' = Line /\ tailer # "off"
  BY <1>2, <1>t DEF Remembered, Line
<1>3. CASE ledger' = NewLedger
  <2>1. NewLedger.discarded = {}
    BY DEF NewLedger
  <2> QED BY <1>3, <2>1, ZenonT(60) DEF Remembered
<1>4. CASE AppendLine
  <2>1. ledger'.discarded = ledger.discarded /\ cursor' = Line
    BY <1>4, <1>t, SMTT(60) DEF AppendLine, AppendEntry, LedgerType
  <2>2. ledger.discarded \subseteq 1..Line
    BY <1>4, <1>t, SMTT(60) DEF AppendLine, Line, Remembered
  <2> QED BY <2>1, <2>2, ZenonT(60) DEF Remembered
<1>5. CASE ResolveEvent
  <2>1. UNCHANGED <<cursor, tailer>>
    BY <1>5 DEF ResolveEvent, roadVars
  <2>2. ledger'.discarded = ledger.discarded
    BY <1>5, <1>t DEF ResolveEvent, SetHeldLedger, HeldLedger, Resolve, LedgerType
  <2> QED BY <2>1, <2>2, ZenonT(60) DEF Remembered
<1>6. CASE AdvanceAndSave
  <2>1. UNCHANGED <<cursor, tailer>> /\ ledger' \in {ledger, Advance(ledger)}
    BY <1>6, SMTT(60) DEF AdvanceAndSave, roadVars
  <2>2. Advance(ledger).discarded \subseteq ledger.discarded \cup ledger.entries
    BY SMTT(60) DEF Advance, Newest, ResolvedPrefix
  <2> QED BY <2>1, <2>2, ZenonT(60) DEF Remembered, SafetyInv
<1>7. CASE LoadPosition
  <2>1. tailer' = "off"
    BY <1>7 DEF LoadPosition, TypeInv
  <2> QED BY <2>1, SMTT(60) DEF Remembered
<1>8. CASE InstallLedger \/ Crash
  BY <1>8, <1>3, ZenonT(60) DEF InstallLedger, Crash
<1>9. CASE ReadLine \/ AbandonLine
  <2>1. ledger' = ledger /\ tailer # "off" /\ (cursor' = cursor \/ cursor' = Line)
    BY <1>9 DEF ReadLine, AbandonLine
  <2> QED BY <2>1, <1>1, <1>2, ZenonT(60)
<1> QED
  BY <1>1, <1>4, <1>5, <1>6, <1>7, <1>8, <1>9, ZenonT(60)
  DEF Next, vars, logVars, roadVars, senderVars, Monitor, Tailer, Settle, Write, Webhook, ReadBaseline,
      CancelSession, SessionOver, RoomAgain, PushLine, ReachEOF, Poll, PeekBatch, PushBatch, AckEvent

\* The invariant of the books: what the other proofs keep, and Remembered.
BooksInv == TypeInv /\ SafetyInv /\ Remembered

\* The books are right, for every log and queue: runLogRoadOnce counts a
\* collision only for an id that is at two positions, whatever is read again
\* after restarts, and an event leaves the queue only settled by birdcage,
\* with an eviction that is counted, or with the process.
THEOREM BooksAreHonest == Spec => BooksHonest
<1>1. ASSUME BooksInv, [Next]_vars, collided', ~ collided
      PROVE  \E p, q \in 1..written : p # q /\ IdOf[p] = IdOf[q]
  <2>1. AppendLine
    BY <1>1, ZenonT(60)
    DEF Next, vars, logVars, roadVars, senderVars, Monitor, Tailer, Settle, Write, Webhook, LoadPosition,
        InstallLedger, ReadBaseline, CancelSession, SessionOver, ReadLine, RoomAgain, AbandonLine, PushLine,
        ReachEOF, Poll, PeekBatch, PushBatch, AckEvent, ResolveEvent, AdvanceAndSave, Crash
  <2>2. Collides(ledger, Line) /\ tailer = "append"
    BY <1>1, <2>1, ZenonT(60) DEF AppendLine
  <2>3. PICK q \in ledger.entries \cup ledger.discarded : IdOf[q] = IdOf[Line]
    BY <2>2, ZenonT(60) DEF Collides
  <2>4. q \in 1..cursor
    BY <1>1, <2>2, <2>3, ZenonT(60) DEF BooksInv, SafetyInv, Remembered
  <2>5. cursor \in Nat /\ written \in Nat /\ cursor < written
    BY <1>1, <2>2, SMTT(60) DEF BooksInv, TypeInv, TypeOK
  <2>6. q \in 1..written /\ Line \in 1..written /\ q # Line
    BY <2>4, <2>5, SMTT(60) DEF Line
  <2> QED BY <2>3, <2>6, ZenonT(60)
<1>2. ASSUME BooksInv, [Next]_vars, NEW id \in Range(queue), id \notin Range(queue')
      PROVE  id \in stored \cup Invalid \/ evicted' \/ crashes' # crashes
  <2>t. queue \in Seq(Ids) /\ crashes \in Nat
    BY <1>2, PipelineConstants, SMTT(60) DEF BooksInv, TypeInv, TypeOK
  <2>1. ASSUME NEW new \in Ids, Enqueue(new) PROVE evicted'
    BY <1>2, <2>1, <2>t, PushKeeps, ZenonT(60) DEF Enqueue
  <2>2. ASSUME NEW h \in HookIds, Webhook(h) PROVE evicted'
    BY <2>1, <2>2, PipelineConstants, ZenonT(60) DEF Webhook
  <2>3. CASE PushLine
    BY <1>2, <2>1, <2>3, ZenonT(60) DEF PushLine, BooksInv, TypeInv
  <2>4. CASE AckEvent
    <3>1. Head(batch) \in due /\ queue' = RemoveLocked(queue, Head(batch)) /\ sender = "ack"
      BY <1>2, <2>4, ZenonT(60) DEF AckEvent
    <3>2. id = Head(batch)
      BY <1>2, <3>1, <2>t, RemoveKeeps, ZenonT(60)
    <3> QED BY <1>2, <3>1, <3>2, ZenonT(60) DEF BooksInv, SafetyInv
  <2>5. CASE Crash
    BY <2>5, <2>t, SMTT(60) DEF Crash
  <2> QED
    BY <1>2, <2>2, <2>3, <2>4, <2>5, ZenonT(60)
    DEF Next, vars, logVars, roadVars, senderVars, Monitor, Tailer, Settle, Write, LoadPosition,
        InstallLedger, ReadBaseline, CancelSession, SessionOver, ReadLine, RoomAgain, AbandonLine, AppendLine,
        ReachEOF, Poll, PeekBatch, PushBatch, ResolveEvent, AdvanceAndSave
<1>3. Init => BooksInv
  <2>1. Init => tailer = "off"
    BY ZenonT(60) DEF Init
  <2> QED BY <2>1, TypeInit, SafetyInit, ZenonT(60) DEF BooksInv, Remembered
<1>4. BooksInv /\ [Next]_vars => BooksInv'
  BY TypeNext, SafetyNext, RememberedNext, ZenonT(60) DEF BooksInv
<1>5. BooksInv /\ [Next]_vars =>
        [/\ collided' /\ ~ collided => \E p, q \in 1..written : p # q /\ IdOf[p] = IdOf[q]
         /\ \A id \in Range(queue) \ Range(queue') :
              id \in stored \cup Invalid \/ evicted' \/ crashes' # crashes]_vars
  BY <1>1, <1>2, ZenonT(60)
<1> QED BY <1>3, <1>4, <1>5, PTL DEF Spec, BooksHonest
=============================================================================
