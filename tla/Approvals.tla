------------------------------ MODULE Approvals ------------------------------
(***************************************************************************)
(* The approval mailbox: pollers that search for unread replies, verify    *)
(* each one, record the verdict in the approvals table and only then mark  *)
(* the message read.  A poll can break off at any call to the mail server  *)
(* or the database, and two processes may poll at once around a restart.   *)
(***************************************************************************)
EXTENDS Naturals, Sequences, FiniteSets

CONSTANTS
    Replies,        \* UIDs, 1..n
    MessageID,      \* per UID: its Message-ID header, or NoID
    Broken,         \* per UID: the rules of Verify it breaks, "size" and "empty"
    Pollers,
    MaxMessagesPerPoll,
    NoID

ASSUME RepliesAreUIDs == IsFiniteSet(Replies) /\ Replies = 1..Cardinality(Replies)

VARIABLES
    flags,          \* per UID: "unseen", "seen" (by birdcage), "read" (by a person), "gone"
    approvals,      \* the table: a sequence of [id, verdict]
    polls           \* per poller: [todo, stage, verdict]

approvalVars == <<flags, approvals, polls>>

Idle == [todo |-> <<>>, stage |-> "fetch", verdict |-> ""]

(* The rules in the order Verify applies them; the signature comes last.   *)
StructuralRules == <<"parse", "from", "subject", "date", "message_id", "replay">>
SignatureRules == <<"unsigned", "body_length", "domain", "dkim", "headers">>
Rules == StructuralRules \o SignatureRules
RuleNames == {Rules[i] : i \in 1..Len(Rules)}
Verdicts == {"", "verified"} \cup RuleNames

ApprovalsTypeOK ==
    /\ flags \in [Replies -> {"unseen", "seen", "read", "gone"}]
    /\ approvals \in Seq([id : {MessageID[u] : u \in Replies}, verdict : Verdicts \ {""}])
    /\ polls \in [Pollers -> [todo : Seq(Replies), stage : {"fetch", "record", "mark"}, verdict : Verdicts]]

ApprovalsInit ==
    /\ flags = [u \in Replies |-> "unseen"]
    /\ approvals = <<>>
    /\ polls = [p \in Pollers |-> Idle]

-----------------------------------------------------------------------------
ApprovalSeen(id) == \E i \in 1..Len(approvals) : approvals[i].id = id

(* Verify: the first rule broken, if any.                                  *)
Verify(u, replayed) ==
    LET broken == Broken[u] \cup (IF replayed THEN {"replay"} ELSE {})
        hits == {i \in 1..Len(Rules) : Rules[i] \in broken}
    IN  IF hits = {} THEN "verified" ELSE Rules[CHOOSE i \in hits : \A j \in hits : i <= j]

Current(p) == Head(polls[p].todo)
NextReply(p) == [polls EXCEPT ![p] = [Idle EXCEPT !.todo = Tail(polls[p].todo)]]
BreakOff(p) == [polls EXCEPT ![p] = Idle]

(* search: the unread replies, lowest UID first, at most a poll's worth.   *)
Unread(upto) == {u \in 1..upto : flags[u] = "unseen"}
Ascending(s) == \A i, j \in DOMAIN s : i < j => s[i] < s[j]
Search(p) ==
    LET wanted == {u \in Unread(Cardinality(Replies)) : Cardinality(Unread(u)) <= MaxMessagesPerPoll}
    IN  /\ polls[p].todo = <<>> /\ wanted # {}
        /\ \E todo \in [1..Cardinality(wanted) -> wanted] :
              Ascending(todo) /\ polls' = [polls EXCEPT ![p].todo = todo]
        /\ UNCHANGED <<flags, approvals>>

(* The whole message is passed over: gone, or read and not worth keeping.  *)
TooLarge(u) == Broken[u] \cap {"size", "empty"} # {}
SkipReply(p, marked) ==
    /\ polls[p].todo # <<>> /\ polls[p].stage = "fetch"
    /\ flags[Current(p)] = "gone" \/ TooLarge(Current(p))
    /\ flags' = IF marked /\ TooLarge(Current(p)) /\ flags[Current(p)] # "gone"
                THEN [flags EXCEPT ![Current(p)] = "seen"] ELSE flags
    /\ polls' = IF marked THEN NextReply(p) ELSE BreakOff(p)
    /\ UNCHANGED approvals

(* The fetch and the handler up to the verdict; a failed lookup of the     *)
(* Message-ID counts as a replay.                                          *)
HandleReply(p, lookedUp) ==
    LET u == Current(p)
    IN  /\ polls[p].todo # <<>> /\ polls[p].stage = "fetch"
        /\ flags[u] # "gone" /\ ~ TooLarge(u)
        /\ polls' = [polls EXCEPT ![p].stage = IF MessageID[u] = NoID THEN "mark" ELSE "record",
                                  ![p].verdict = Verify(u, ~ lookedUp \/ ApprovalSeen(MessageID[u]))]
        /\ UNCHANGED <<flags, approvals>>

(* RecordApproval under the unique index on message_id: a copy already     *)
(* recorded is settled, any other failure leaves the message owed.         *)
RecordApproval(p, stored) ==
    LET id == MessageID[Current(p)]
    IN  /\ polls[p].todo # <<>> /\ polls[p].stage = "record"
        /\ IF ApprovalSeen(id)
           THEN polls' = [polls EXCEPT ![p].stage = "mark"] /\ UNCHANGED approvals
           ELSE IF stored
                THEN /\ polls' = [polls EXCEPT ![p].stage = "mark"]
                     /\ approvals' = Append(approvals, [id |-> id, verdict |-> polls[p].verdict])
                ELSE polls' = BreakOff(p) /\ UNCHANGED approvals
        /\ UNCHANGED flags

MarkSeenFirst(p) ==        \* a reply is marked read before it is recorded
    /\ polls[p].todo # <<>> /\ polls[p].stage # "fetch"
    /\ flags' = [flags EXCEPT ![Current(p)] = IF @ = "gone" THEN @ ELSE "seen"]
    /\ polls' = IF polls[p].stage = "mark" THEN NextReply(p) ELSE polls
    /\ UNCHANGED approvals

(* markSeen: the last thing that happens to a message.                     *)
MarkSeen(p) ==
    /\ polls[p].todo # <<>> /\ polls[p].stage = "mark"
    /\ flags' = [flags EXCEPT ![Current(p)] = IF @ = "gone" THEN @ ELSE "seen"]
    /\ polls' = NextReply(p)
    /\ UNCHANGED approvals

(* The connection, the deadline or the process fails mid-poll.             *)
PollFails(p) ==
    /\ polls[p].todo # <<>>
    /\ polls' = BreakOff(p)
    /\ UNCHANGED <<flags, approvals>>

(* External: a person's mail client works in the same folder.              *)
OtherClient(u) ==
    /\ flags[u] = "unseen"
    /\ \E f \in {"read", "gone"} : flags' = [flags EXCEPT ![u] = f]
    /\ UNCHANGED <<approvals, polls>>

PollerStep(p) ==
    \/ Search(p) \/ MarkSeen(p)
    \/ \E ok \in BOOLEAN : SkipReply(p, ok) \/ HandleReply(p, ok) \/ RecordApproval(p, ok)

ApprovalsNext ==
    \/ \E p \in Pollers : PollerStep(p) \/ PollFails(p)
    \/ \E u \in Replies : OtherClient(u)

ApprovalsSpec == ApprovalsInit /\ [][ApprovalsNext]_approvalVars

-----------------------------------------------------------------------------
(* A reply birdcage has marked read is settled: its Message-ID has a row,  *)
(* unless it was too large or empty or carried none.  And no Message-ID is *)
(* settled twice, so one approval never counts as two, with two processes  *)
(* polling and any call failing.                                           *)
RepliesSettledOnce ==
    /\ \A u \in Replies :
          (flags[u] = "seen" /\ ~ TooLarge(u) /\ MessageID[u] # NoID) => ApprovalSeen(MessageID[u])
    /\ \A i, j \in 1..Len(approvals) : approvals[i].id = approvals[j].id => i = j

=============================================================================
