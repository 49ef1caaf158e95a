----------------------------- MODULE DBRefresh -----------------------------
(***************************************************************************)
(* nightjar's vulnerability-database refresh: the tracker in memory, its   *)
(* files (written one after the other, best effort), and what birdcage     *)
(* makes of the reports: heartbeats and stage reports, which carry the     *)
(* failing state, and snapshots, which carry the last refresh's error.     *)
(* Reports can be lost and can be handled after later ones.                *)
(***************************************************************************)
EXTENDS Naturals, FiniteSets

CONSTANTS MaxFlying, MaxRefreshRestarts

VARIABLES
    refreshTracker,   \* dbRefreshTracker.status: [ok, failing]
    refreshFiles,     \* db-refreshed-at and db-refresh-failing-since
    persisting,       \* files persistLocked has still to write
    flying,           \* reports on their way to birdcage
    rowFailing,       \* agents.db_refresh_failing_since is set
    refreshRestarts

refreshVars == <<refreshTracker, refreshFiles, persisting, flying, rowFailing, refreshRestarts>>

Status == [ok : BOOLEAN, failing : BOOLEAN]

DBRefreshTypeOK ==
    /\ refreshTracker \in Status /\ refreshFiles \in Status /\ persisting \in {<<>>, <<"failing">>, <<"ok">>}
    /\ flying \subseteq [kind : {"heartbeat"}, failing : BOOLEAN] \cup [kind : {"snapshot"}, error : BOOLEAN, done : BOOLEAN]
    /\ rowFailing \in BOOLEAN /\ refreshRestarts \in 0..MaxRefreshRestarts

DBRefreshInit ==
    /\ refreshTracker = [ok |-> FALSE, failing |-> FALSE] /\ refreshFiles = refreshTracker
    /\ persisting = <<>> /\ flying = {} /\ rowFailing = FALSE /\ refreshRestarts = 0

Room == Cardinality(flying) < MaxFlying

(* recordSuccess and recordFailure set the status under the tracker's lock *)
(* and begin to persist it.                                                *)
RecordSuccess ==
    /\ persisting = <<>>
    /\ refreshTracker' = [ok |-> TRUE, failing |-> FALSE]
    /\ persisting' = <<"ok">>
    /\ UNCHANGED <<refreshFiles, flying, rowFailing, refreshRestarts>>

RecordFailure ==
    /\ persisting = <<>>
    /\ refreshTracker' = [refreshTracker EXCEPT !.failing = TRUE]
    /\ persisting' = <<"ok">>
    /\ UNCHANGED <<refreshFiles, flying, rowFailing, refreshRestarts>>

(* persistLocked: each file is written or removed; an error is logged and  *)
(* the file keeps what it had.                                             *)
PersistLocked(written) ==
    /\ persisting # <<>>
    /\ LET file == persisting[1] IN
       /\ refreshFiles' = IF written THEN [refreshFiles EXCEPT ![file] = refreshTracker[file]] ELSE refreshFiles
       /\ persisting' = IF file = "ok" THEN <<"failing">> ELSE <<>>
    /\ UNCHANGED <<refreshTracker, flying, rowFailing, refreshRestarts>>

(* loadDBRefreshTracker at start: a crash in the middle of persistLocked   *)
(* leaves the files of two refreshes.                                      *)
LoadTracker ==
    /\ refreshRestarts < MaxRefreshRestarts
    /\ refreshRestarts' = refreshRestarts + 1
    /\ refreshTracker' = refreshFiles
    /\ persisting' = <<>>
    /\ UNCHANGED <<refreshFiles, flying, rowFailing>>

(* dbRefreshReportIfFailing, in the minute's heartbeat or a stage report;  *)
(* the tracker's lock is held while it persists.                           *)
ReportIfFailing ==
    /\ persisting = <<>> /\ Room
    /\ flying' = flying \cup {[kind |-> "heartbeat", failing |-> refreshTracker.failing]}
    /\ UNCHANGED <<refreshTracker, refreshFiles, persisting, rowFailing, refreshRestarts>>

(* A snapshot: done is an OK scan naming a refresh time; a refresh that    *)
(* failed sends its error, whatever the scan gave.                         *)
PostSnapshot(scanned) ==
    /\ persisting = <<>> /\ Room
    /\ flying' = flying \cup {[kind |-> "snapshot", error |-> refreshTracker.failing,
                               done |-> scanned /\ refreshTracker.ok]}
    /\ UNCHANGED <<refreshTracker, refreshFiles, persisting, rowFailing, refreshRestarts>>

LoseRefreshReport(m) ==
    /\ flying' = flying \ {m}
    /\ UNCHANGED <<refreshTracker, refreshFiles, persisting, rowFailing, refreshRestarts>>

OnlyWhenPresent(m) == m.failing \/ rowFailing    \* an absent db_refresh taken for "no news"

(* recordScannerProgress: a heartbeat with no db_refresh says healthy.     *)
HeartbeatSays(m) == m.failing

(* storeScan's switch: an error sets, an OK snapshot with a refresh time   *)
(* clears, anything else leaves the column alone.                          *)
SnapshotSays(m) == IF m.error THEN TRUE ELSE IF m.done THEN FALSE ELSE rowFailing

(* SetCanaryDBRefresh.                                                     *)
SetCanaryDBRefresh(m) ==
    /\ m \in flying
    /\ flying' = flying \ {m}
    /\ rowFailing' = IF m.kind = "heartbeat" THEN HeartbeatSays(m) ELSE SnapshotSays(m)
    /\ UNCHANGED <<refreshTracker, refreshFiles, persisting, refreshRestarts>>

DBRefreshNext ==
    \/ RecordSuccess \/ RecordFailure \/ LoadTracker \/ ReportIfFailing
    \/ \E done \in BOOLEAN : PersistLocked(done) \/ PostSnapshot(done)
    \/ \E m \in flying : LoseRefreshReport(m) \/ SetCanaryDBRefresh(m)

(* A heartbeat every minute (a goroutine waiting for the tracker's lock    *)
(* gets it: Go's mutex starves nobody), writes that complete, requests     *)
(* that end, and no network that loses every heartbeat.                    *)
ReportEnds == \E m \in flying : LoseRefreshReport(m) \/ SetCanaryDBRefresh(m)
HeartbeatArrives(failing) == SetCanaryDBRefresh([kind |-> "heartbeat", failing |-> failing])
DBRefreshFairness ==
    /\ WF_refreshVars(\E done \in BOOLEAN : PersistLocked(done))
    /\ WF_refreshVars(ReportEnds) /\ SF_refreshVars(ReportIfFailing)
    /\ SF_refreshVars(HeartbeatArrives(TRUE)) /\ SF_refreshVars(HeartbeatArrives(FALSE))

DBRefreshSpec == DBRefreshInit /\ [][DBRefreshNext]_refreshVars /\ DBRefreshFairness

-----------------------------------------------------------------------------
(* Birdcage comes to agree with the scanner: once a refresh stays failing, *)
(* or stays good, the agent's row ends up saying so and keeps saying so,   *)
(* across lost and late reports and restarts that reload half-written      *)
(* files.                                                                  *)
RefreshStateAgrees ==
    /\ <>[] refreshTracker.failing => <>[] rowFailing
    /\ <>[] ~ refreshTracker.failing => <>[] ~ rowFailing

=============================================================================
