------------------------------- MODULE Outbox -------------------------------
(***************************************************************************)
(* The mail outbox: rows of mail_outbox and the sender's tick, which runs  *)
(* after each history tick.  A delivery is one SMTP conversation that the  *)
(* server accepts or refuses; recording the outcome may itself fail, which *)
(* ends the tick, and the process may die between delivery and record.     *)
(***************************************************************************)
EXTENDS Naturals, Sequences, FiniteSets

CONSTANTS
    Mails,        \* messages, in the order they are created
    Refused       \* those no server will ever take

VARIABLES
    outbox,       \* per message: [state, waiting, failed]
    sweeping,     \* what is left of the current tick's DueMail
    accepted      \* messages the server has taken at least once

outboxVars == <<outbox, sweeping, accepted>>

NoMail == [state |-> "none", waiting |-> FALSE, failed |-> FALSE]

OutboxTypeOK ==
    /\ outbox \in [Mails -> [state : {"none", "pending", "sent"}, waiting : BOOLEAN, failed : BOOLEAN]]
    /\ sweeping \in Seq(Mails) /\ accepted \subseteq Mails

OutboxInit == outbox = [m \in Mails |-> NoMail] /\ sweeping = <<>> /\ accepted = {}

(* EnqueueMail: due at once.                                               *)
EnqueueMail(m) ==
    /\ outbox[m].state = "none" /\ \A k \in Mails : k < m => outbox[k].state # "none"
    /\ outbox' = [outbox EXCEPT ![m].state = "pending"]
    /\ UNCHANGED <<sweeping, accepted>>

(* next_attempt_at comes around.                                           *)
BackoffPasses(m) ==
    /\ outbox[m].waiting
    /\ outbox' = [outbox EXCEPT ![m].waiting = FALSE]
    /\ UNCHANGED <<sweeping, accepted>>

(* DueMail: unsent, past next_attempt_at, oldest first.                    *)
IsDue(m) == outbox[m].state = "pending" /\ ~ outbox[m].waiting
InOrder(ms) ==
    LET upto[n \in 0..Cardinality(Mails)] ==
          IF n = 0 THEN <<>> ELSE IF n \in ms THEN Append(upto[n - 1], n) ELSE upto[n - 1]
    IN  upto[Cardinality(Mails)]

TickSender ==
    /\ sweeping = <<>> /\ \E m \in Mails : IsDue(m)
    /\ sweeping' = InOrder({m \in Mails : IsDue(m)})
    /\ UNCHANGED <<outbox, accepted>>

(* deliver: one SMTP conversation.  The server takes the message or not.   *)
Deliver(m) == m \notin Refused /\ accepted' = accepted \cup {m}

(* sendOne, delivered: MarkMailSent, guarded by sent_at IS NULL.  When the *)
(* write fails Tick returns and the rest waits for the next tick.          *)
MarkMailSent(marked) ==
    /\ sweeping # <<>> /\ Deliver(Head(sweeping))
    /\ outbox' = IF marked THEN [outbox EXCEPT ![Head(sweeping)].state = "sent"] ELSE outbox
    /\ sweeping' = IF marked THEN Tail(sweeping) ELSE <<>>

RecordMailFailureAndStop(recorded) ==   \* a failed delivery ends the tick
    /\ sweeping # <<>>
    /\ outbox' = IF recorded THEN [outbox EXCEPT ![Head(sweeping)].waiting = TRUE, ![Head(sweeping)].failed = TRUE] ELSE outbox
    /\ sweeping' = <<>>
    /\ UNCHANGED accepted

(* sendOne, not delivered: the attempt is counted and the next one put off *)
(* by the back-off; the tick goes on with the next message.                *)
RecordMailFailure(recorded) ==
    /\ sweeping # <<>>
    /\ outbox' = IF recorded THEN [outbox EXCEPT ![Head(sweeping)].waiting = TRUE, ![Head(sweeping)].failed = TRUE] ELSE outbox
    /\ sweeping' = IF recorded THEN Tail(sweeping) ELSE <<>>
    /\ UNCHANGED accepted

SenderCrash ==
    /\ sweeping # <<>>
    /\ sweeping' = <<>>
    /\ Deliver(Head(sweeping)) \/ UNCHANGED accepted
    /\ UNCHANGED outbox

OutboxNext ==
    \/ \E m \in Mails : EnqueueMail(m) \/ BackoffPasses(m)
    \/ TickSender \/ SenderCrash
    \/ \E done \in BOOLEAN : MarkMailSent(done) \/ RecordMailFailure(done)

(* Ticks come every thirty seconds, a tick in progress goes on, back-offs  *)
(* pass; crashes and failed writes do not meet the same message for ever,  *)
(* and a server offered a message it can take takes it now and then.       *)
SendStep == \E done \in BOOLEAN : MarkMailSent(done) \/ RecordMailFailure(done)
Settles(m) == sweeping # <<>> /\ Head(sweeping) = m /\ (MarkMailSent(TRUE) \/ RecordMailFailure(TRUE))
Goes(m) == sweeping # <<>> /\ Head(sweeping) = m /\ MarkMailSent(TRUE)
OutboxFairness ==
    /\ WF_outboxVars(TickSender) /\ WF_outboxVars(SendStep)
    /\ \A m \in Mails : WF_outboxVars(BackoffPasses(m)) /\ SF_outboxVars(Settles(m)) /\ SF_outboxVars(Goes(m))

OutboxSpec == OutboxInit /\ [][OutboxNext]_outboxVars /\ OutboxFairness

-----------------------------------------------------------------------------
(* No message holds up another: every queued message a server will take is *)
(* sent and recorded in the end, whatever becomes of the messages before   *)
(* it, through failed deliveries, failed writes and crashes.               *)
MailGetsOut == \A m \in Mails \ Refused : (outbox[m].state = "pending") ~> (outbox[m].state = "sent")

=============================================================================
