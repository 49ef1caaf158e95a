------------------------------- MODULE Health -------------------------------
(***************************************************************************)
(* An agent's tile on the dashboard: what ListCanaries makes of the        *)
(* agent's row, of the audit log and of its tokens, while heartbeats are   *)
(* being handled, requests refused and tokens rotated.  The row, the audit *)
(* log and the tokens are read one after the other, in no transaction, and *)
(* all judged by a time taken before the first read.  The two writes of a  *)
(* heartbeat are statements of their own too, and one heartbeat may be     *)
(* overtaken by another.                                                   *)
(*                                                                         *)
(* The states other modules decide (Upgrade, SelfTest, ScanRuns,           *)
(* DBRefresh) are in OtherStates.  An audit entry is written when the      *)
(* coalescer admits it: a failed write is left out.                        *)
(***************************************************************************)
EXTENDS Integers, Sequences, FiniteSets, FiniteSetsExt

CONSTANTS
    Reports,            \* the faults a heartbeat may report, as sets of states
    AuditActions,       \* of "rate_limited", "token_conflict"
    OtherStates,        \* states from elsewhere, shown beside
    SilenceThreshold, ThrottledWindow, TokenConflictQuietPeriod,
    CoalesceInterval,   \* auditCoalesceInterval
    RotationStalledThreshold, RotationStaleThreshold,
    MaxHeartbeats,      \* bound: heartbeats being handled at once
    MaxRotations,       \* bound: tokens of the agent
    LastReading,        \* bound: the clock
    NoTime

ASSUME HealthConstants ==
    /\ SilenceThreshold \in Nat /\ ThrottledWindow \in Nat /\ TokenConflictQuietPeriod \in Nat
    /\ CoalesceInterval \in Nat /\ RotationStalledThreshold \in Nat /\ RotationStaleThreshold \in Nat
    /\ LastReading \in Nat /\ NoTime \notin Nat

VARIABLES
    reading,        \* the clock
    agentRow,       \* agents: last_heartbeat_at and the self-report
    handled,        \* heartbeats being handled
    auditLog,       \* per action: the latest entry's time
    coalescer,      \* per action: lastWrite
    agentTokens,    \* agent_tokens, oldest first: [created, used]
    listing,        \* ListCanaries under way
    tile,           \* what this step returns, if it ends a ListCanaries
    heardAt,        \* history: when the last heartbeat arrived
    crossedAt,      \* history: per action, when it last happened
    rotatedAt       \* history: when a token was last used for the first time

healthVars == <<reading, agentRow, handled, auditLog, coalescer, agentTokens, listing, tile,
                heardAt, crossedAt, rotatedAt>>

(* healthStateRank: worst first.                                           *)
HealthStates == <<"token_conflict", "credential_conflict", "silent", "not_delivering",
    "opencanary_down", "hits_merged", "self_test_failed", "db_stale", "throttled",
    "rotation_stalled", "renewal_stalled", "upgrade_in_progress", "agent_out_of_date", "pending">>
HealthRank(s) == CHOOSE i \in 1..Len(HealthStates) : HealthStates[i] = s

AuditState(a) == IF a = "rate_limited" THEN "throttled" ELSE "token_conflict"
AuditWindow(a) == IF a = "rate_limited" THEN ThrottledWindow ELSE TokenConflictQuietPeriod

NoListing == [at |-> "idle", now |-> 0, row |-> [beat |-> NoTime, report |-> {}]]
NoTile == [active |-> {}, status |-> "ok"]
NoAnswer == [active |-> {}, status |-> "none"]

HealthTypeOK ==
    /\ reading \in 0..LastReading
    /\ agentRow \in [beat : (0..LastReading) \cup {NoTime}, report : Reports \cup {{}}]
    /\ handled \subseteq [at : 0..LastReading, report : Reports, recorded : BOOLEAN]
    /\ Cardinality(handled) <= MaxHeartbeats
    /\ agentTokens \in Seq([created : 0..LastReading, used : BOOLEAN])
    /\ listing.at \in {"idle", "rows", "signals"}
    /\ tile.active = {} <=> tile.status \in {"ok", "none"}

HealthInit ==
    /\ reading = 0 /\ agentRow = NoListing.row /\ handled = {}
    /\ auditLog = [a \in AuditActions |-> NoTime] /\ coalescer = auditLog
    /\ agentTokens = <<[created |-> 0, used |-> TRUE]>>
    /\ listing = NoListing /\ tile = NoAnswer
    /\ heardAt = NoTime /\ crossedAt = auditLog /\ rotatedAt = 0

-----------------------------------------------------------------------------
(* handleHeartbeat takes its time and its report ...                       *)
HandleHeartbeat(report) ==
    /\ Cardinality(handled) < MaxHeartbeats
    /\ handled' = handled \cup {[at |-> reading, report |-> report, recorded |-> FALSE]}
    /\ heardAt' = reading
    /\ UNCHANGED <<reading, agentRow, auditLog, coalescer, agentTokens, listing, crossedAt, rotatedAt>>
    /\ tile' = NoAnswer

(* ... RecordHeartbeat writes the time, whatever the row holds by then ... *)
RecordHeartbeat(b) ==
    /\ b \in handled /\ ~ b.recorded
    /\ agentRow' = [agentRow EXCEPT !.beat = b.at]
    /\ handled' = (handled \ {b}) \cup {[b EXCEPT !.recorded = TRUE]}
    /\ UNCHANGED <<reading, auditLog, coalescer, agentTokens, listing, heardAt, crossedAt, rotatedAt>>
    /\ tile' = NoAnswer

(* ... and RecordCanaryAgentHeartbeat the report.                          *)
RecordCanaryAgentHeartbeat(b) ==
    /\ b \in handled /\ b.recorded
    /\ agentRow' = [agentRow EXCEPT !.report = b.report]
    /\ handled' = handled \ {b}
    /\ UNCHANGED <<reading, auditLog, coalescer, agentTokens, listing, heardAt, crossedAt, rotatedAt>>
    /\ tile' = NoAnswer

(* Either statement fails and the handler answers 503.                     *)
HeartbeatFails(b) ==
    /\ b \in handled
    /\ handled' = handled \ {b}
    /\ UNCHANGED <<reading, agentRow, auditLog, coalescer, agentTokens, listing, heardAt, crossedAt, rotatedAt>>
    /\ tile' = NoAnswer

(* auditCoalescer.admit: at most one entry an interval.                    *)
AdmitAudit(a) == coalescer[a] = NoTime \/ reading - coalescer[a] >= CoalesceInterval

(* recordRateLimitCrossed, recordTokenConflict: a request is over the      *)
(* agent's limit, or presents a superseded token.                          *)
RecordCrossing(a) ==
    /\ crossedAt' = [crossedAt EXCEPT ![a] = reading]
    /\ IF AdmitAudit(a)
       THEN /\ auditLog' = [auditLog EXCEPT ![a] = reading]
            /\ coalescer' = [coalescer EXCEPT ![a] = reading]
       ELSE UNCHANGED <<auditLog, coalescer>>
    /\ UNCHANGED <<reading, agentRow, handled, agentTokens, listing, heardAt, rotatedAt>>
    /\ tile' = NoAnswer

(* A rotation issues a token, which the agent may never get to use; the    *)
(* first use of one supersedes those before it.                            *)
IssueToken ==
    /\ Len(agentTokens) < MaxRotations
    /\ agentTokens' = Append(agentTokens, [created |-> reading, used |-> FALSE])
    /\ UNCHANGED <<reading, agentRow, handled, auditLog, coalescer, listing, heardAt, crossedAt, rotatedAt>>
    /\ tile' = NoAnswer

FirstUse(i) ==
    /\ \A j \in i..Len(agentTokens) : ~ agentTokens[j].used
    /\ agentTokens' = [agentTokens EXCEPT ![i].used = TRUE]
    /\ rotatedAt' = reading
    /\ UNCHANGED <<reading, agentRow, handled, auditLog, coalescer, listing, heardAt, crossedAt>>
    /\ tile' = NoAnswer

-----------------------------------------------------------------------------
(* applyStatus: silent, unless the last heartbeat is recent, and no later  *)
(* than the time the listing began.                                        *)
ApplyStatus(row, now) ==
    ~ (row.beat # NoTime /\ now >= row.beat /\ now - row.beat <= SilenceThreshold)

(* latestAuditSince: an entry at the cutoff or later, a later one than now *)
(* included.                                                               *)
LatestAuditSince(a, cutoff) == auditLog[a] # NoTime /\ auditLog[a] >= cutoff

RotationSignalPending(now) ==
    LET n == Len(agentTokens) IN n > 1 /\ ~ agentTokens[n].used /\ now - agentTokens[n].created >= RotationStalledThreshold

(* rotationSignal: the newest token is still unused after a while, or the  *)
(* newest one ever used was issued long ago.                               *)
RotationSignal(now) ==
    LET used == {i \in 1..Len(agentTokens) : agentTokens[i].used}
    IN  \/ LET n == Len(agentTokens)
           IN  n > 1 /\ ~ agentTokens[n].used /\ now - agentTokens[n].created >= RotationStalledThreshold
        \/ used # {} /\ now - agentTokens[Max(used)].created >= RotationStaleThreshold

(* addActiveStates: the status is the first of the states by rank.         *)
AddActiveStates(t, states) ==
    LET active == t.active \cup states
    IN  [active |-> active,
         status |-> IF active = {} THEN "ok"
                    ELSE HealthStates[Min({HealthRank(s) : s \in active})]]

(* applyHealthState: the states of the row and of the signals.             *)
ApplyHealthState(row, now) ==
    AddActiveStates(NoTile,
        (IF ApplyStatus(row, now) THEN {"silent"} ELSE {})
        \cup {AuditState(a) : a \in {b \in AuditActions : LatestAuditSince(b, now - AuditWindow(b))}}
        \cup (IF RotationSignal(now) THEN {"rotation_stalled"} ELSE {})
        \cup (row.report \cap {"not_delivering"}))

(* ListCanaries: the caller takes the time, ...                            *)
BeginListing ==
    /\ listing.at = "idle"
    /\ listing' = [NoListing EXCEPT !.at = "rows", !.now = reading]
    /\ UNCHANGED <<reading, agentRow, handled, auditLog, coalescer, agentTokens, heardAt, crossedAt, rotatedAt>>
    /\ tile' = NoAnswer

(* ... the rows are read, ...                                              *)
ReadRows ==
    /\ listing.at = "rows"
    /\ listing' = [listing EXCEPT !.at = "signals", !.row = agentRow]
    /\ UNCHANGED <<reading, agentRow, handled, auditLog, coalescer, agentTokens, heardAt, crossedAt, rotatedAt>>
    /\ tile' = NoAnswer

(* ... then the signals, and the states are put together.                  *)
ListCanaries ==
    /\ listing.at = "signals"
    /\ listing' = NoListing
    /\ tile' = AddActiveStates(ApplyHealthState(listing.row, listing.now),
                               (listing.row.report \cap {"hits_merged", "opencanary_down"}) \cup OtherStates)
    /\ UNCHANGED <<reading, agentRow, handled, auditLog, coalescer, agentTokens, heardAt, crossedAt, rotatedAt>>

(* birdcage restarts: what is under way is lost, the coalescer is empty.   *)
BoardRestarts ==
    /\ handled' = {} /\ listing' = NoListing
    /\ coalescer' = [a \in AuditActions |-> NoTime]
    /\ UNCHANGED <<reading, agentRow, auditLog, agentTokens, heardAt, crossedAt, rotatedAt>>
    /\ tile' = NoAnswer

ReadingPasses ==
    /\ reading < LastReading
    /\ reading' = reading + 1
    /\ UNCHANGED <<agentRow, handled, auditLog, coalescer, agentTokens, listing, heardAt, crossedAt, rotatedAt>>
    /\ tile' = NoAnswer

HealthNext ==
    \/ \E r \in Reports : HandleHeartbeat(r)
    \/ \E b \in handled : RecordHeartbeat(b) \/ RecordCanaryAgentHeartbeat(b) \/ HeartbeatFails(b)
    \/ \E a \in AuditActions : RecordCrossing(a)
    \/ IssueToken \/ (\E i \in 1..Len(agentTokens) : FirstUse(i))
    \/ BeginListing \/ ReadRows \/ ListCanaries
    \/ BoardRestarts \/ ReadingPasses

HealthSpec == HealthInit /\ [][HealthNext]_healthVars

-----------------------------------------------------------------------------
(* What is wrong with an agent is on its tile, although the reads are      *)
(* apart and the audit entries are coalesced: no heartbeat for longer than *)
(* the threshold is silence, whatever writes overtook each other; requests *)
(* still being refused, or superseded tokens still being presented, keep   *)
(* their state on without a gap; a rotation not completed for              *)
(* RotationStaleThreshold is a stall, however many tokens were issued      *)
(* meanwhile and never used.                                               *)
TileOmitsNothing ==
    [][tile' # NoAnswer =>
         /\ (heardAt = NoTime \/ listing.now - heardAt > SilenceThreshold) => "silent" \in tile'.active
         /\ \A a \in AuditActions :
               crossedAt[a] # NoTime /\ listing.now - crossedAt[a] <= AuditWindow(a) - CoalesceInterval
                 => AuditState(a) \in tile'.active
         /\ listing.now - rotatedAt >= RotationStaleThreshold => "rotation_stalled" \in tile'.active]_healthVars

(* An agent is not called silent within the threshold of a heartbeat that  *)
(* was recorded ("how many heartbeat_interval_s a canary can go without a  *)
(* beat before its status flips", silenceThresholdMultiple).               *)
SilenceIsReal ==
    []["silent" \in tile'.active /\ listing.row.beat # NoTime =>
         listing.now - listing.row.beat > SilenceThreshold]_healthVars
=============================================================================
