------------------------------ MODULE ScanRuns ------------------------------
(***************************************************************************)
(* The ordered scans of one scanner: birdcage mints a run                  *)
(* (internal/store/scanrun.go), nightjar fetches it, scans and posts a     *)
(* snapshot that answers it (cmd/nightjar, internal/agent/client/scans.go, *)
(* internal/ingest/scans.go), and heartbeats report how far the scan got   *)
(* and whether the vulnerability database still refreshes                  *)
(* (internal/ingest/heartbeat.go).                                         *)
(*                                                                         *)
(* Time runs in ticks, PerSecond to the second; both hosts agree on it.    *)
(* A heartbeat under way is handled in two steps, and may be overtaken by  *)
(* a later one.                                                            *)
(***************************************************************************)
EXTENDS Integers, Sequences, FiniteSets

CONSTANTS
    ScanOrders,     \* runs that may ever be minted
    PerSecond,      \* ticks to a second
    RunWindow,      \* scanRunWindow
    LastTick,       \* bound: the clock
    OrderBuffer,    \* the capacity of nightjar's order channel
    MaxReports,     \* bound: heartbeats under way
    NoRun

ASSUME PerSecondIsPositive == PerSecond \in Nat \ {0}

VARIABLES
    tick,
    scans,        \* self_test_runs of the scanner
    collected,    \* agent_commands with a delivered_at
    proven,       \* agents.registered_at is set
    ordering,     \* mints between the count of open runs and the insert
    reports,      \* heartbeats under way
    orders,       \* nightjar's order channel
    cycle,        \* the scan holding the gate
    reached,      \* currentRunTracker
    refreshed     \* dbRefreshTracker's last success

scanVars == <<tick, scans, collected, proven, ordering, reports,
              orders, cycle, reached, refreshed>>
birdcageScanVars == <<scans, collected, proven, ordering>>

Stages == <<"ordered", "collected", "mounts_checked", "db_refreshed", "scanning", "answered">>
Rank(stage) == CHOOSE i \in 1..Len(Stages) : Stages[i] = stage
Triggers == {"proof", "manual"}
NeverRefreshed == -1   \* no refresh ever succeeded

NoScan == [issued |-> 0, trigger |-> "proof", stage |-> "ordered", verdict |-> "none"]
OpenScans == {r \in ScanOrders : scans[r].verdict = "open"}
MintedScans == {r \in ScanOrders : scans[r].verdict # "none"}
NoCycle == [run |-> NoRun, phase |-> "idle", taken |-> 0, refreshed |-> NeverRefreshed, ok |-> TRUE]
NothingReached == [run |-> NoRun, stage |-> "ordered"]

ScanTypeOK ==
    /\ tick \in 0..LastTick
    /\ scans \in [ScanOrders -> [issued : 0..LastTick, trigger : Triggers, stage : {Stages[i] : i \in 1..6},
                                 verdict : {"none", "open", "passed", "failed"}]]
    /\ collected \subseteq MintedScans
    /\ proven \in BOOLEAN
    /\ ordering \subseteq Triggers
    /\ Cardinality(reports) <= MaxReports
    /\ orders \in Seq(MintedScans) /\ Len(orders) <= OrderBuffer
    /\ cycle.phase \in {"idle", "refresh", "scanning", "post"}
    /\ refreshed \in NeverRefreshed..LastTick

ScanInit ==
    /\ tick = 0
    /\ scans = [r \in ScanOrders |-> NoScan]
    /\ collected = {} /\ proven = FALSE /\ ordering = {}
    /\ reports = {} /\ orders = <<>> /\ cycle = NoCycle /\ reached = NothingReached
    /\ refreshed = NeverRefreshed

-----------------------------------------------------------------------------
(* birdcage *)

ScanDeadline(r) == scans[r].issued + RunWindow
IsOpen(r) == scans[r].verdict = "open" /\ tick < ScanDeadline(r)

\* MintScanCommand counts the open runs of the node.
CountOpenScans(trigger) ==
    /\ OpenScans = {}
    /\ ordering' = ordering \cup {trigger}
    /\ UNCHANGED <<tick, scans, collected, proven, reports, orders, cycle, reached, refreshed>>

\* Its insert, which the partial unique index refuses beside an open run.
MintScanCommand(trigger) ==
    /\ trigger \in ordering
    /\ ordering' = ordering \ {trigger}
    /\ \/ OpenScans # {} /\ UNCHANGED scans
       \/ /\ OpenScans = {} /\ MintedScans # ScanOrders
          /\ LET r == CHOOSE r \in ScanOrders : r \notin MintedScans   \* a fresh id
             IN  scans' = [scans EXCEPT ![r] = [NoScan EXCEPT !.issued = tick, !.trigger = trigger,
                                                            !.verdict = "open"]]
    /\ UNCHANGED <<tick, collected, proven, reports, orders, cycle, reached, refreshed>>

\* The deadline sweep of the scheduler's tick.
SweepScans ==
    /\ \E r \in OpenScans : ScanDeadline(r) <= tick
    /\ scans' = [r \in ScanOrders |-> IF r \in OpenScans /\ ScanDeadline(r) <= tick
                                     THEN [scans[r] EXCEPT !.verdict = "failed"]
                                     ELSE scans[r]]
    /\ UNCHANGED <<tick, collected, proven, ordering, reports, orders, cycle, reached, refreshed>>

\* AdvanceRunStage decides on the row it read ...
MayAdvance(r, stage) == r \in MintedScans /\ IsOpen(r) /\ Rank(stage) > Rank(scans[r].stage)

AdvanceWhateverSeen(r, stage, seen) == scans' = [scans EXCEPT ![r].stage = stage]

\* ... and its update applies only to the stage it saw, on a run not completed.
AdvanceRunStage(r, stage, seen) ==
    scans' = IF scans[r].verdict = "open" /\ scans[r].stage = seen
             THEN [scans EXCEPT ![r].stage = stage] ELSE scans

EnqueueBlindly(r) == Append(orders, r)

\* The poll loop's send to the order channel: dropped when it is full.
Enqueue(r) == IF Len(orders) < OrderBuffer THEN Append(orders, r) ELSE orders

\* handleCommands: the command is claimed and its run advances to
\* "collected"; the answer may be lost, and a full channel drops it.
PollScan(r, arrives) ==
    /\ r \in MintedScans \ collected /\ tick < ScanDeadline(r)
    /\ collected' = collected \cup {r}
    /\ IF MayAdvance(r, "collected") THEN AdvanceRunStage(r, "collected", scans[r].stage)
                                     ELSE UNCHANGED scans
    /\ orders' = IF arrives THEN Enqueue(r) ELSE orders
    /\ UNCHANGED <<tick, proven, ordering, reports, cycle, reached, refreshed>>

\* recordScannerProgress reads the run; the refresh state is DBRefresh's.
RecordScannerProgress(m) ==
    /\ m \in reports /\ m.seen = "none"
    /\ reports' = IF m.run # NoRun /\ MayAdvance(m.run, m.stage)
                  THEN (reports \ {m}) \cup {[m EXCEPT !.seen = scans[m.run].stage]}
                  ELSE reports \ {m}
    /\ UNCHANGED <<tick, scans, collected, proven, ordering, orders, cycle, reached, refreshed>>

ApplyStage(m) ==
    /\ m \in reports /\ m.seen # "none"
    /\ AdvanceRunStage(m.run, m.stage, m.seen)
    /\ reports' = reports \ {m}
    /\ UNCHANGED <<tick, collected, proven, ordering, orders, cycle, reached, refreshed>>

LoseReport(m) ==
    /\ m \in reports
    /\ reports' = reports \ {m}
    /\ UNCHANGED <<tick, birdcageScanVars, orders, cycle, reached, refreshed>>

\* time.RFC3339 on the wire: whole seconds.
OnTheWire(t) == t - (t % PerSecond)

PassesOnStatus(r, snap) == snap.ok /\ OnTheWire(snap.taken) >= scans[r].issued

\* scanRunFailure: the pass rule.  snap.ok is the status, after handleScan's
\* backstop for an outdated database.
ScanRunPasses(r, snap) ==
    /\ snap.ok
    /\ OnTheWire(snap.taken) >= scans[r].issued
    /\ snap.refreshed # NeverRefreshed /\ OnTheWire(snap.refreshed) >= scans[r].issued

\* storeScan and MatchScanRun, one transaction: an open run is completed,
\* and only the pass of a proof run settles a pending node.
MatchScanRun(r, snap) ==
    LET passes == ScanRunPasses(r, snap)
    IN  IF IsOpen(r)
        THEN /\ scans' = [scans EXCEPT ![r] = [@ EXCEPT !.verdict = IF passes THEN "passed" ELSE "failed",
                                                        !.stage = "answered"]]
             /\ proven' = (proven \/ (passes /\ scans[r].trigger = "proof"))
        ELSE UNCHANGED <<scans, proven>>

\* handleScan: a snapshot it can use is stored and matched, or, when the
\* transaction fails, neither; one too old by its database counts as failed.
HandleScan(snap, stored) ==
    IF stored THEN MatchScanRun(snap.run, snap) ELSE UNCHANGED <<scans, proven>>

-----------------------------------------------------------------------------
(* nightjar *)

\* One heartbeat more under way, while there is room for it.
Send(run, stage) ==
    reports' = IF Cardinality(reports) < MaxReports
               THEN reports \cup {[run |-> run, stage |-> stage, seen |-> "none"]}
               ELSE reports

\* newStageReporter: the tracker first, then a heartbeat of its own.
ReportStage(run, stage) == reached' = [run |-> run, stage |-> stage] /\ Send(run, stage)

\* sendHeartbeat: the ordinary tick repeats the stage reached.
SendHeartbeat ==
    /\ Send(reached.run, reached.stage)
    /\ UNCHANGED <<tick, birdcageScanVars, orders, cycle, reached, refreshed>>

\* A timer scan holds the gate from end to end and reports no stage; of
\* what it does an ordered scan only sees the refresh.
RunScanLoop(ok) ==
    /\ cycle.phase = "idle"
    /\ refreshed' = IF ok THEN tick ELSE refreshed
    /\ UNCHANGED <<tick, birdcageScanVars, reports, orders, cycle, reached>>

\* runOrderRunner takes the gate for the next order; buildSnapshot notes
\* the time and checks the mounts, and a failure is posted with no stage.
RunOrderRunner(mountsHold) ==
    /\ cycle.phase = "idle" /\ orders # <<>>
    /\ orders' = Tail(orders)
    /\ cycle' = [NoCycle EXCEPT !.run = Head(orders), !.taken = tick, !.ok = mountsHold,
                                !.phase = IF mountsHold THEN "refresh" ELSE "post"]
    /\ IF mountsHold THEN ReportStage(Head(orders), "mounts_checked") ELSE UNCHANGED <<reports, reached>>
    /\ UNCHANGED <<tick, birdcageScanVars, refreshed>>

\* runRefresh: the snapshot carries the last success, old or new.
RunRefresh(ok) ==
    /\ cycle.phase = "refresh"
    /\ refreshed' = IF ok THEN tick ELSE refreshed
    /\ cycle' = [cycle EXCEPT !.phase = "scanning", !.refreshed = refreshed']
    /\ ReportStage(cycle.run, "db_refreshed")
    /\ UNCHANGED <<tick, birdcageScanVars, orders>>

\* The scan itself.
BuildSnapshot(ok) ==
    /\ cycle.phase = "scanning"
    /\ cycle' = [cycle EXCEPT !.phase = "post", !.ok = ok]
    /\ ReportStage(cycle.run, "scanning")
    /\ UNCHANGED <<tick, birdcageScanVars, orders, refreshed>>

\* runScanOnce posts the snapshot once.  Only an answer clears the tracker.
RunScanOnce(stored, answered) ==
    /\ cycle.phase = "post"
    /\ answered => stored
    /\ HandleScan(cycle, stored)
    /\ reached' = IF answered THEN NothingReached ELSE reached
    /\ cycle' = NoCycle
    /\ UNCHANGED <<tick, collected, ordering, reports, orders, refreshed>>

\* persistLocked writes each value on its own, best-effort: what a restart
\* reads back may be as old as the last write that succeeded.
LoadDBRefreshTracker ==
    refreshed' \in NeverRefreshed..refreshed

NightjarRestart ==
    /\ orders' = <<>> /\ cycle' = NoCycle /\ reached' = NothingReached
    /\ LoadDBRefreshTracker
    /\ UNCHANGED <<tick, birdcageScanVars, reports>>

TickOn ==
    /\ tick < LastTick
    /\ tick' = tick + 1
    /\ UNCHANGED <<birdcageScanVars, reports, orders, cycle, reached, refreshed>>

ScanNext ==
    \/ \E t \in Triggers : CountOpenScans(t) \/ MintScanCommand(t)
    \/ SweepScans
    \/ \E r \in ScanOrders, b \in BOOLEAN : PollScan(r, b)
    \/ \E m \in reports : RecordScannerProgress(m) \/ ApplyStage(m) \/ LoseReport(m)
    \/ SendHeartbeat
    \/ \E b \in BOOLEAN : RunScanLoop(b) \/ RunOrderRunner(b) \/ RunRefresh(b)
    \/ \E ok \in BOOLEAN : BuildSnapshot(ok)
    \/ \E stored, answered \in BOOLEAN : RunScanOnce(stored, answered)
    \/ NightjarRestart
    \/ TickOn

ScanSpec == ScanInit /\ [][ScanNext]_scanVars

-----------------------------------------------------------------------------
\* A run's stage only moves forward, and nothing of a completed run moves,
\* however heartbeats, answers and the sweep overtake each other (the
\* guards of AdvanceRunStage and MatchScanRun).
StagesOnlyAdvance ==
    [][\A r \in MintedScans :
         /\ Rank(scans'[r].stage) >= Rank(scans[r].stage)
         /\ scans[r].verdict # "open" => scans'[r] = scans[r]]_scanVars

\* A node leaves pending only by the pass of a proof run, with a database
\* refreshed since that run was issued (MatchScanRun, scanRunFailure).
ProvenByProof ==
    [][~proven /\ proven' =>
         \E r \in OpenScans : /\ scans'[r].verdict = "passed" /\ scans[r].trigger = "proof"
                              /\ cycle.run = r /\ cycle.refreshed >= scans[r].issued]_scanVars

\* An ordered scan that begins, and refreshes, after its run was issued
\* passes when it succeeds ("a snapshot taken before the run was issued"
\* fails, MatchScanRun).
FreshScanCounts ==
    [][\A r \in OpenScans : scans'[r].stage = "answered" /\ cycle.ok /\ cycle.taken >= scans[r].issued
                              /\ cycle.refreshed >= scans[r].issued
                              => scans'[r].verdict = "passed"]_scanVars
=============================================================================
