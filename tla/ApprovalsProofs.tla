-------------------------- MODULE ApprovalsProofs --------------------------
(***************************************************************************)
(* Proofs about the approval mailbox, for any number of replies, copies    *)
(* of a reply and pollers, whatever call fails.                            *)
(***************************************************************************)
EXTENDS Approvals, FiniteSetTheorems, TLAPS

\* What Verify may return, a poller's work, and a row of the table.
Given == {""} \cup {Verify(u, TRUE) : u \in Replies} \cup {Verify(u, FALSE) : u \in Replies}
Poll == [todo : Seq(Replies), stage : {"fetch", "record", "mark"}, verdict : Given]
Row == [id : {MessageID[u] : u \in Replies}, verdict : Given]

\* The state is well typed, and a poller between two polls has nothing in
\* hand.
TypeInv ==
    /\ flags \in [Replies -> {"unseen", "seen", "read", "gone"}]
    /\ approvals \in Seq(Row)
    /\ polls \in [Pollers -> Poll]
    /\ \A p \in Pollers : polls[p].todo = <<>> => polls[p].stage = "fetch"

\* A reply about to be marked is settled.
MarkedSettled ==
    \A p \in Pollers : (polls[p].todo # <<>> /\ polls[p].stage = "mark")
        => MessageID[Current(p)] = NoID \/ ApprovalSeen(MessageID[Current(p)])

\* The two together with the property are inductive.
ApprovalsInv == TypeInv /\ MarkedSettled /\ RepliesSettledOnce

\* What search hands a poller is a sequence of replies.
LEMMA SearchType ==
    ASSUME NEW wanted \in SUBSET Replies, NEW todo \in [1..Cardinality(wanted) -> wanted]
    PROVE  todo \in Seq(Replies)
<1>1. Cardinality(wanted) \in Nat
  BY RepliesAreUIDs, FS_Subset, FS_CardinalityType
<1> QED BY <1>1

\* The unread replies up to one are replies.
LEMMA UnreadType == Unread(Cardinality(Replies)) \subseteq Replies
<1>1. Cardinality(Replies) \in Nat
  BY RepliesAreUIDs, FS_CardinalityType
<1> QED BY <1>1, RepliesAreUIDs DEF Unread

\* A poller between two polls.
LEMMA IdlePoll == Idle \in Poll /\ Idle.todo = <<>> /\ Idle.stage = "fetch"
<1>1. <<>> \in Seq(Replies) /\ "" \in Given
  BY DEF Given
<1>2. ASSUME NEW t \in Seq(Replies)
      PROVE  [todo |-> t, stage |-> "fetch", verdict |-> ""] \in Poll
  BY <1>1, ZenonT(60) DEF Poll
<1>3. Idle \in Poll
  BY <1>1, <1>2, Zenon DEF Idle
<1>4. Idle.todo = <<>> /\ Idle.stage = "fetch"
  BY ZenonT(60) DEF Idle
<1> QED BY <1>3, <1>4

\* Every way a step updates a poll gives a poll.
LEMMA Polls ==
    ASSUME NEW q \in Poll
    PROVE  /\ Idle \in Poll /\ Idle.todo = <<>> /\ Idle.stage = "fetch"
           /\ q.todo # <<>> => /\ Head(q.todo) \in Replies
                               /\ [Idle EXCEPT !.todo = Tail(q.todo)] \in Poll
                               /\ [Idle EXCEPT !.todo = Tail(q.todo)].stage = "fetch"
           /\ \A t \in Seq(Replies) : [q EXCEPT !.todo = t] \in Poll
           /\ [q EXCEPT !.stage = "mark"] \in Poll
           /\ \A st \in {"mark", "record"}, v \in Given : [q EXCEPT !.stage = st, !.verdict = v] \in Poll
<1>2. q.todo \in Seq(Replies)
  BY DEF Poll
<1>3. Idle \in Poll /\ Idle.todo = <<>> /\ Idle.stage = "fetch"
  BY IdlePoll
<1>4. q.todo # <<>> => Head(q.todo) \in Replies /\ Tail(q.todo) \in Seq(Replies)
  BY <1>2
<1>5. \A t \in Seq(Replies) : [Idle EXCEPT !.todo = t] \in Poll /\ [Idle EXCEPT !.todo = t].stage = "fetch"
  BY <1>3 DEF Poll
<1>6. \A t \in Seq(Replies) : [q EXCEPT !.todo = t] \in Poll
  BY SMTT(60) DEF Poll
<1>7. [q EXCEPT !.stage = "mark"] \in Poll
  BY DEF Poll
<1>8. \A st \in {"mark", "record"}, v \in Given : [q EXCEPT !.stage = st, !.verdict = v] \in Poll
  BY ZenonT(60) DEF Poll
<1> QED BY <1>3, <1>4, <1>5, <1>6, <1>7, <1>8, ZenonT(60)

\* What RecordApproval appends is a row.
LEMMA RowType ==
    ASSUME NEW u \in Replies, NEW v \in Given
    PROVE  \E row \in Row : row = [id |-> MessageID[u], verdict |-> v] /\ row.id = MessageID[u]
<1>1. [id |-> MessageID[u], verdict |-> v] \in Row
  BY DEF Row
<1>2. [id |-> MessageID[u], verdict |-> v].id = MessageID[u]
  OBVIOUS
<1> QED BY <1>1, <1>2, Zenon

\* The state stays well typed.
LEMMA TypeStep ==
    ASSUME TypeInv, [ApprovalsNext]_approvalVars
    PROVE  TypeInv'
<1> USE DEF TypeInv
<1>1. ASSUME NEW p \in Pollers, Search(p)
      PROVE  TypeInv'
  <2> DEFINE wanted == {u \in Unread(Cardinality(Replies)) : Cardinality(Unread(u)) <= MaxMessagesPerPoll}
  <2>1. wanted \in SUBSET Replies
    BY UnreadType
  <2> HIDE DEF wanted
  <2>2. PICK todo \in [1..Cardinality(wanted) -> wanted] : polls' = [polls EXCEPT ![p].todo = todo]
    BY <1>1, ZenonT(60) DEF Search, wanted
  <2>3. todo \in Seq(Replies) /\ polls[p].stage = "fetch" /\ polls[p] \in Poll
    BY <2>1, <1>1, SearchType DEF Search
  <2>4. [polls[p] EXCEPT !.todo = todo] \in Poll /\ [polls[p] EXCEPT !.todo = todo].stage = "fetch"
    BY <2>3, Polls, ZenonT(60) DEF Poll
  <2>5. UNCHANGED <<flags, approvals>>
    BY <1>1 DEF Search
  <2> QED BY <2>2, <2>4, <2>5
<1>2. ASSUME NEW p \in Pollers, NEW ok \in BOOLEAN, SkipReply(p, ok)
      PROVE  TypeInv'
  <2>1. polls[p] \in Poll /\ polls[p].todo # <<>> /\ Current(p) \in Replies
    BY <1>2, Polls, ZenonT(60) DEF SkipReply, Current
  <2>2. flags' \in [Replies -> {"unseen", "seen", "read", "gone"}]
    BY <1>2, <2>1 DEF SkipReply
  <2>3. polls' = NextReply(p) \/ polls' = BreakOff(p)
    BY <1>2 DEF SkipReply
  <2>4. UNCHANGED approvals
    BY <1>2 DEF SkipReply
  <2> QED BY <2>1, <2>2, <2>3, <2>4, Polls, ZenonT(60) DEF NextReply, BreakOff
<1>3. ASSUME NEW p \in Pollers, NEW ok \in BOOLEAN, HandleReply(p, ok)
      PROVE  TypeInv'
  <2>1. polls[p] \in Poll /\ polls[p].todo # <<>> /\ Current(p) \in Replies
    BY <1>3, Polls, ZenonT(60) DEF HandleReply, Current
  <2>2. PICK v \in {Verify(Current(p), TRUE), Verify(Current(p), FALSE)}, st \in {"mark", "record"} :
            polls' = [polls EXCEPT ![p].stage = st, ![p].verdict = v]
    <3> DEFINE r == ~ ok \/ ApprovalSeen(MessageID[Current(p)])
    <3>1. Verify(Current(p), r) \in {Verify(Current(p), TRUE), Verify(Current(p), FALSE)}
      BY Zenon
    <3> QED BY <1>3, <3>1, Zenon DEF HandleReply
  <2>3. v \in Given
    BY <2>1, <2>2, ZenonT(60) DEF Given
  <2>4. [polls[p] EXCEPT !.stage = st, !.verdict = v] \in Poll
    BY <2>1, <2>3, Polls, ZenonT(60)
  <2>5. [polls[p] EXCEPT !.stage = st, !.verdict = v].todo # <<>>
    BY <2>1 DEF Poll
  <2>6. polls' = [polls EXCEPT ![p] = [polls[p] EXCEPT !.stage = st, !.verdict = v]]
    BY <2>1, <2>2, ZenonT(60)
  <2>7. UNCHANGED <<flags, approvals>>
    BY <1>3 DEF HandleReply
  <2> QED BY <2>4, <2>5, <2>6, <2>7, SMTT(60)
<1>4. ASSUME NEW p \in Pollers, NEW ok \in BOOLEAN, RecordApproval(p, ok)
      PROVE  TypeInv'
  <2>1. polls[p] \in Poll /\ polls[p].todo # <<>> /\ Current(p) \in Replies /\ polls[p].verdict \in Given
    BY <1>4, Polls, ZenonT(60) DEF RecordApproval, Current, Poll
  <2>2. [polls[p] EXCEPT !.stage = "mark"] \in Poll /\ [polls[p] EXCEPT !.stage = "mark"].todo # <<>>
    BY <2>1, Polls, ZenonT(60) DEF Poll
  <2>3. [id |-> MessageID[Current(p)], verdict |-> polls[p].verdict] \in Row
    BY <2>1, RowType
  <2>4. approvals' \in Seq(Row)
    <3>1. \/ approvals' = approvals
          \/ approvals' = Append(approvals, [id |-> MessageID[Current(p)], verdict |-> polls[p].verdict])
      BY <1>4, Zenon DEF RecordApproval
    <3> QED BY <3>1, <2>3, SMTT(60)
  <2>5. polls' = [polls EXCEPT ![p].stage = "mark"] \/ polls' = BreakOff(p)
    BY <1>4 DEF RecordApproval
  <2>6. UNCHANGED flags
    BY <1>4, SMTT(60) DEF RecordApproval
  <2> QED BY <2>1, <2>2, <2>4, <2>5, <2>6, Polls, ZenonT(60) DEF BreakOff
<1>5. ASSUME NEW p \in Pollers, MarkSeen(p)
      PROVE  TypeInv'
  <2>1. polls[p] \in Poll /\ polls[p].todo # <<>> /\ Current(p) \in Replies
    BY <1>5, Polls, ZenonT(60) DEF MarkSeen, Current
  <2> QED BY <1>5, <2>1, Polls, ZenonT(60) DEF MarkSeen, NextReply
<1>6. ASSUME NEW p \in Pollers, PollFails(p)
      PROVE  TypeInv'
  BY <1>6, Polls, ZenonT(60) DEF PollFails, BreakOff
<1>7. ASSUME NEW u \in Replies, OtherClient(u)
      PROVE  TypeInv'
  BY <1>7 DEF OtherClient
<1>8. CASE UNCHANGED approvalVars
  BY <1>8 DEF approvalVars
<1> QED BY <1>1, <1>2, <1>3, <1>4, <1>5, <1>6, <1>7, <1>8 DEF ApprovalsNext, PollerStep

\* A row appended leaves the rows before it, is seen, and is seen for
\* nothing but its own Message-ID.
LEMMA AppendRow ==
    ASSUME TypeInv, NEW row \in Row, approvals' = Append(approvals, row)
    PROVE  /\ \A id : ApprovalSeen(id) => ApprovalSeen(id)'
           /\ ApprovalSeen(row.id)'
<1>1. /\ approvals' \in Seq(Row) /\ Len(approvals) \in Nat /\ Len(approvals') = Len(approvals) + 1
      /\ \A i \in 1..Len(approvals) : approvals'[i] = approvals[i]
      /\ approvals'[Len(approvals) + 1] = row
  BY SMTT(60) DEF TypeInv
<1> QED BY <1>1 DEF ApprovalSeen

\* No row is ever taken away.
LEMMA RowsStay ==
    ASSUME TypeInv, [ApprovalsNext]_approvalVars
    PROVE  \A id : ApprovalSeen(id) => ApprovalSeen(id)'
<1>1. ASSUME NEW p \in Pollers, NEW ok \in BOOLEAN, RecordApproval(p, ok)
      PROVE  \A id : ApprovalSeen(id) => ApprovalSeen(id)'
  <2>1. polls[p] \in Poll /\ Current(p) \in Replies /\ polls[p].verdict \in Given
    BY <1>1, Polls, ZenonT(60) DEF RecordApproval, Current, Poll, TypeInv
  <2>2. [id |-> MessageID[Current(p)], verdict |-> polls[p].verdict] \in Row
    BY <2>1, RowType
  <2>3. \/ approvals' = approvals
        \/ approvals' = Append(approvals, [id |-> MessageID[Current(p)], verdict |-> polls[p].verdict])
    BY <1>1, Zenon DEF RecordApproval
  <2> QED BY <2>2, <2>3, AppendRow, SMTT(60) DEF ApprovalSeen
<1>2. CASE UNCHANGED approvals
  BY <1>2 DEF ApprovalSeen
<1> QED BY <1>1, <1>2, ZenonT(60) DEF ApprovalsNext, PollerStep, Search, SkipReply, HandleReply, MarkSeen, PollFails,
            OtherClient, approvalVars

\* A reply about to be marked stays settled, and becomes it when recorded.
LEMMA MarkedStep ==
    ASSUME ApprovalsInv, [ApprovalsNext]_approvalVars
    PROVE  MarkedSettled'
<1> USE DEF ApprovalsInv
<1>1. \A id : ApprovalSeen(id) => ApprovalSeen(id)'
  BY RowsStay
<1>2. ASSUME NEW p \in Pollers,
             \A q \in Pollers \ {p} : polls'[q] = polls[q],
             polls'[p].stage = "fetch" \/ polls'[p].todo = <<>>
      PROVE  MarkedSettled'
  BY <1>1, <1>2 DEF MarkedSettled, Current
<1>3. ASSUME NEW p \in Pollers, Search(p)
      PROVE  MarkedSettled'
  <2>1. polls[p].stage = "fetch" /\ polls[p] \in Poll
    BY <1>3 DEF Search, TypeInv
  <2>2. PICK todo : polls' = [polls EXCEPT ![p].todo = todo]
    BY <1>3, Zenon DEF Search
  <2>3. polls'[p].stage = "fetch" /\ \A q \in Pollers \ {p} : polls'[q] = polls[q]
    BY <2>1, <2>2 DEF TypeInv, Poll
  <2> QED BY <1>2, <2>3
<1>4. ASSUME NEW p \in Pollers, polls' = NextReply(p) \/ polls' = BreakOff(p), polls[p].todo # <<>>
      PROVE  MarkedSettled'
  <2>1. polls'[p].stage = "fetch" /\ \A q \in Pollers \ {p} : polls'[q] = polls[q]
    <3>1. polls[p] \in Poll /\ polls \in [Pollers -> Poll]
      BY SMTT(60) DEF TypeInv
    <3>2. PICK e : e.stage = "fetch" /\ polls' = [polls EXCEPT ![p] = e]
      BY <1>4, <3>1, Polls, ZenonT(60) DEF NextReply, BreakOff
    <3> QED BY <3>1, <3>2
  <2> QED BY <1>2, <2>1
<1>5. ASSUME NEW p \in Pollers, NEW ok \in BOOLEAN, HandleReply(p, ok)
      PROVE  MarkedSettled'
  <2>1. polls[p] \in Poll /\ polls \in [Pollers -> Poll]
    BY DEF TypeInv
  <2>2. PICK v : polls' = [polls EXCEPT ![p].stage = IF MessageID[Current(p)] = NoID THEN "mark" ELSE "record",
                                        ![p].verdict = v]
    BY <1>5, Zenon DEF HandleReply
  <2>3. /\ polls'[p].stage = "mark" => MessageID[Current(p)] = NoID
        /\ polls'[p].todo = polls[p].todo
        /\ \A q \in Pollers \ {p} : polls'[q] = polls[q]
    BY <2>1, <2>2 DEF Poll
  <2> QED BY <1>1, <2>3 DEF MarkedSettled, Current
<1>6. ASSUME NEW p \in Pollers, NEW ok \in BOOLEAN, RecordApproval(p, ok)
      PROVE  MarkedSettled'
  <2>1. /\ polls[p] \in Poll /\ polls \in [Pollers -> Poll] /\ polls[p].todo # <<>>
        /\ Current(p) \in Replies /\ polls[p].verdict \in Given
    BY <1>6, Polls, ZenonT(60) DEF RecordApproval, Current, Poll, TypeInv
  <2>2. PICK row \in Row : /\ row = [id |-> MessageID[Current(p)], verdict |-> polls[p].verdict]
                            /\ row.id = MessageID[Current(p)]
    BY <2>1, RowType
  <2>3. CASE polls' = BreakOff(p)
    BY <1>4, <2>1, <2>3
  <2>4. CASE polls' = [polls EXCEPT ![p].stage = "mark"] /\ (ApprovalSeen(MessageID[Current(p)]) \/ approvals' = Append(approvals, row))
    <3>1. ApprovalSeen(MessageID[Current(p)])'
      <4>1. ApprovalSeen(row.id) \/ approvals' = Append(approvals, row)
        BY <2>4, <2>2, Zenon
      <4>2. ApprovalSeen(row.id)'
        BY <4>1, <1>1, <2>2, AppendRow
      <4>3. polls'[p].todo = polls[p].todo
        BY <2>1, <2>4 DEF Poll
      <4> QED BY <4>2, <4>3, <2>2 DEF Current
    <3>2. polls'[p].todo = polls[p].todo /\ \A q \in Pollers \ {p} : polls'[q] = polls[q]
      BY <2>1, <2>4 DEF Poll
    <3> QED BY <1>1, <3>1, <3>2, SMTT(60) DEF MarkedSettled, Current
  <2> QED BY <1>6, <2>2, <2>3, <2>4, ZenonT(60) DEF RecordApproval
<1>7. CASE UNCHANGED polls
  BY <1>1, <1>7 DEF MarkedSettled, Current
<1> QED BY <1>3, <1>4, <1>5, <1>6, <1>7, SMTT(60) DEF ApprovalsNext, PollerStep, SkipReply, MarkSeen, PollFails,
            OtherClient, approvalVars

\* The property is kept by every step.
LEMMA SettledStep ==
    ASSUME ApprovalsInv, [ApprovalsNext]_approvalVars
    PROVE  RepliesSettledOnce'
<1> DEFINE Settled(u) == TooLarge(u) \/ MessageID[u] = NoID \/ ApprovalSeen(MessageID[u])
<1> USE DEF ApprovalsInv
<1>1. \A id : ApprovalSeen(id) => ApprovalSeen(id)'
  BY RowsStay, SMTT(60)
<1>2. \A u \in Replies : flags'[u] = "seen" => flags[u] = "seen" \/ Settled(u)
  <2>1. ASSUME NEW p \in Pollers, NEW ok \in BOOLEAN, SkipReply(p, ok)
        PROVE  \A u \in Replies : flags'[u] = "seen" => flags[u] = "seen" \/ Settled(u)
    BY <2>1 DEF SkipReply, TypeInv
  <2>2. ASSUME NEW p \in Pollers, MarkSeen(p)
        PROVE  \A u \in Replies : flags'[u] = "seen" => flags[u] = "seen" \/ Settled(u)
    BY <2>2 DEF MarkSeen, TypeInv, MarkedSettled
  <2>3. ASSUME NEW u \in Replies, OtherClient(u)
        PROVE  \A v \in Replies : flags'[v] = "seen" => flags[v] = "seen" \/ Settled(v)
    BY <2>3 DEF OtherClient, TypeInv
  <2>4. CASE UNCHANGED flags
    BY <2>4
  <2> QED BY <2>1, <2>2, <2>3, <2>4, ZenonT(60) DEF ApprovalsNext, PollerStep, Search, HandleReply, RecordApproval,
              PollFails, approvalVars
<1>3. \A u \in Replies :
         (flags'[u] = "seen" /\ ~ TooLarge(u) /\ MessageID[u] # NoID) => ApprovalSeen(MessageID[u])'
  BY <1>1, <1>2 DEF RepliesSettledOnce
<1>4. \A i, j \in 1..Len(approvals') : approvals'[i].id = approvals'[j].id => i = j
  <2>1. ASSUME NEW p \in Pollers, NEW ok \in BOOLEAN, RecordApproval(p, ok), approvals' # approvals
        PROVE  \A i, j \in 1..Len(approvals') : approvals'[i].id = approvals'[j].id => i = j
    <3>1. polls[p] \in Poll /\ Current(p) \in Replies /\ polls[p].verdict \in Given
      BY <2>1, Polls, ZenonT(60) DEF RecordApproval, Current, Poll, TypeInv
    <3>2. PICK row \in Row : /\ row = [id |-> MessageID[Current(p)], verdict |-> polls[p].verdict]
                             /\ row.id = MessageID[Current(p)]
      BY <3>1, RowType
    <3>3. approvals' = Append(approvals, row) /\ ~ ApprovalSeen(row.id)
      BY <2>1, <3>2, Zenon DEF RecordApproval
    <3>4. /\ Len(approvals) \in Nat /\ Len(approvals') = Len(approvals) + 1
          /\ \A i \in 1..Len(approvals) : approvals'[i] = approvals[i]
          /\ approvals'[Len(approvals) + 1] = row
      BY <3>3 DEF TypeInv
    <3> QED BY <3>3, <3>4 DEF RepliesSettledOnce, ApprovalSeen
  <2>2. CASE UNCHANGED approvals
    BY <2>2 DEF RepliesSettledOnce
  <2> QED BY <2>1, <2>2, ZenonT(60) DEF ApprovalsNext, PollerStep, Search, SkipReply, HandleReply, MarkSeen, PollFails,
              OtherClient, approvalVars
<1> QED BY <1>3, <1>4 DEF RepliesSettledOnce, TooLarge

\* A reply that birdcage has marked read has its verdict in the table, unless
\* it was too large, empty or without a Message-ID, and no Message-ID has two
\* verdicts: for any replies, copies and number of pollers, with any call to
\* the mail server or the database failing and a person using the mailbox.
THEOREM RepliesSettled == ApprovalsSpec => []RepliesSettledOnce
<1>1. ApprovalsInit => ApprovalsInv
  <2> SUFFICES ASSUME ApprovalsInit PROVE ApprovalsInv
    OBVIOUS
  <2>1. Idle \in Poll /\ Idle.todo = <<>> /\ Idle.stage = "fetch"
    BY IdlePoll
  <2>2. \A p \in Pollers : polls[p] = Idle
    BY DEF ApprovalsInit
  <2>3. TypeInv
    BY <2>1 DEF ApprovalsInit, TypeInv
  <2>4. MarkedSettled
    BY <2>1, <2>2 DEF MarkedSettled
  <2>5. RepliesSettledOnce
    BY DEF ApprovalsInit, RepliesSettledOnce
  <2> QED BY <2>3, <2>4, <2>5 DEF ApprovalsInv
<1>2. ApprovalsInv /\ [ApprovalsNext]_approvalVars => ApprovalsInv'
  BY TypeStep, MarkedStep, SettledStep DEF ApprovalsInv
<1>3. ApprovalsInv => RepliesSettledOnce
  BY DEF ApprovalsInv
<1> QED BY <1>1, <1>2, <1>3, PTL DEF ApprovalsSpec
=============================================================================
