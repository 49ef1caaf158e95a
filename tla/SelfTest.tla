------------------------------ MODULE SelfTest ------------------------------
(***************************************************************************)
(* The self-test of one honeypot: birdcage mints a run with one marker per *)
(* target (internal/selftestsched/scheduler.go, internal/store/selftest.go *)
(* and command.go), the agent fetches the command, probes itself, watches  *)
(* its own intake for the event of a probe that cannot carry a marker      *)
(* (cmd/mockingbird/command.go and claim.go), and birdcage recognises the  *)
(* events that come back (internal/ingest/batch.go).  A run passes when    *)
(* every target was matched, and the first pass registers a pending canary.*)
(*                                                                         *)
(* A marker is the pair of its run and its service.  Two targets stand for *)
(* all: "portscan", whose event carries no marker and must be claimed, and *)
(* "poisoner", whose result event carries it.  The scheduler's tick and    *)
(* the hooks of the ingest handlers mint concurrently; an event whose      *)
(* batch timed out may be handled a second time while the first goes on.   *)
(***************************************************************************)
EXTENDS Integers, Sequences, FiniteSets

CONSTANTS
    Runs,             \* self_test_runs rows that may ever be minted
    Visitors,         \* portscan events from the canary's address that no probe caused
    Handlers,         \* batch requests birdcage handles at a time
    Window,           \* selfTestWindow
    DoubleMintGuard,  \* doubleMintGuard
    MaxRestarts,      \* bound: deaths of either process
    MaxTime,          \* bound: the clock, with Window left for the last run
    RunnerBuffer,     \* commandRunnerBuffer
    None

VARIABLES
    clock,
    runs,        \* self_test_runs: issued_at and verdict
    delivered,   \* agent_commands with a delivered_at
    matched,     \* self_test_targets with a matched_at
    registered,  \* agents.registered_at is set
    index,       \* SelfTestIndex.byCanary: marker -> ClaimedBy
    loaded,      \* SelfTestIndex.loaded
    minter,      \* the scheduler's tick and one hook: where each is
    handler,     \* batch handlers: the event in hand
    taken,       \* events made synthetic by a claim since birdcage started
    box,         \* the agent's command channel
    probing,     \* the run the agent's runner is at, and its phase
    coming,      \* portscan events the agent's detector has yet to report
    window,      \* candidates of the open claim window
    claimed,     \* claimTracker.claimed
    sending,     \* events in the agent's queue
    restarts

serverVars == <<runs, delivered, matched, registered, index, loaded, minter, handler, taken>>
agentVars == <<box, probing, coming, window, claimed, sending, restarts>>
selfTestVars == <<clock, serverVars, agentVars>>

Services == {"portscan", "poisoner"}
Markers == Runs \X Services
Events == Markers \cup (Visitors \X {"portscan"})

\* gradeForService: what proves a target of this service.
GradeForService(s) ==
    IF s \in {"ntp", "portscan", "llmnr", "poisoner"} THEN "attributed"
    ELSE IF s = "vnc" THEN "challenge_marked" ELSE "marked"

\* The marker an event's raw bytes contain: encodeSelfTestResult puts it
\* into the event that reports the poisoner target.
RawMarker(e) == IF e \in Markers /\ e[2] = "poisoner" THEN e ELSE None

ASSUME NoneIsNoEvent == None \notin Events

Unminted == [issued |-> 0, verdict |-> "none"]
Minted == {r \in Runs : runs[r].verdict # "none"}
Deadline(r) == runs[r].issued + Window
IdleMinter == [pc |-> "idle", next |-> "idle"]
IdleHandler == [pc |-> "idle", ev |-> None, claim |-> None, marker |-> None]

SelfTestTypeOK ==
    /\ clock \in 0..MaxTime
    /\ runs \in [Runs -> [issued : 0..MaxTime, verdict : {"none", "open", "passed", "failed"}]]
    /\ delivered \subseteq Minted /\ matched \subseteq Minted \X Services
    /\ registered \in BOOLEAN /\ loaded \in BOOLEAN
    /\ DOMAIN index \subseteq Minted \X Services
    /\ \A m \in DOMAIN index : index[m] \in Events \cup {None}
    /\ \A x \in {"tick", "hook"} : minter[x].pc \in {"idle", "mint", "sweep"}
    /\ \A h \in Handlers : handler[h].pc \in {"idle", "target", "run", "settle", "claim"}
    /\ taken \in [Markers -> SUBSET Events]
    /\ box \in Seq(Minted) /\ Len(box) <= RunnerBuffer
    /\ window \subseteq Events /\ sending \subseteq Events
    /\ claimed \in [Events -> Markers \cup {None}]

SelfTestInit ==
    /\ clock = 0
    /\ runs = [r \in Runs |-> Unminted]
    /\ delivered = {} /\ matched = {} /\ registered = FALSE
    /\ index = <<>> /\ loaded = FALSE
    /\ minter = [x \in {"tick", "hook"} |-> IdleMinter]
    /\ handler = [h \in Handlers |-> IdleHandler]
    /\ taken = [m \in Markers |-> {}]
    /\ box = <<>> /\ probing = [run |-> None, phase |-> "idle"]
    /\ coming = Visitors \X {"portscan"} /\ window = {} /\ sending = {}
    /\ restarts = 0
    /\ claimed = [e \in Events |-> None]

-----------------------------------------------------------------------------
(* The scheduler. *)

SetMinter(x, pc, next) == minter' = [minter EXCEPT ![x] = [pc |-> pc, next |-> next]]

HasRecentSelfTestRun(since) == \E r \in Minted : runs[r].issued >= since

\* mintForCanary's guard: one SELECT, in no transaction with the mint.
MintForCanary(x, guard, next) ==
    IF HasRecentSelfTestRun(clock - guard)
    THEN SetMinter(x, next, "idle") ELSE SetMinter(x, "mint", next)

\* Tick when the settings say that the scheduled mint is due now.
TickScheduled ==
    /\ minter["tick"].pc = "idle"
    /\ MintForCanary("tick", DoubleMintGuard, "sweep")
    /\ UNCHANGED <<clock, runs, delivered, matched, registered, index, loaded, handler, taken, agentVars>>

SweepDeliveredRuns ==
    runs' = [r \in Runs |-> IF runs[r].verdict = "open" /\ Deadline(r) <= clock /\ r \in delivered
                            THEN [runs[r] EXCEPT !.verdict = "failed"] ELSE runs[r]]

\* SweepExpiredSelfTestRuns: whatever the settings say.
SweepExpiredSelfTestRuns ==
    runs' = [r \in Runs |-> IF runs[r].verdict = "open" /\ Deadline(r) <= clock
                            THEN [runs[r] EXCEPT !.verdict = "failed"] ELSE runs[r]]

\* retryPending: the guard of a canary still pending is the whole window.
RetryPending ==
    IF registered THEN SetMinter("tick", "idle", "idle") ELSE MintForCanary("tick", Window, "idle")

\* Tick without a mint due, or after it.  One that fails to read or to
\* sweep is a tick that does not happen.
TickScheduler ==
    /\ minter["tick"].pc \in {"idle", "sweep"}
    /\ SweepExpiredSelfTestRuns
    /\ RetryPending
    /\ UNCHANGED <<clock, delivered, matched, registered, index, loaded, handler, taken, agentVars>>

\* FirstContact, called by the handler that completed a first use.
FirstContact ==
    /\ minter["hook"].pc = "idle"
    /\ MintForCanary("hook", DoubleMintGuard, "idle")
    /\ UNCHANGED <<clock, runs, delivered, matched, registered, index, loaded, handler, taken, agentVars>>

\* MintSelfTestCommand commits the command, its run and its targets in one
\* transaction and adds the markers to the index.
MintSelfTestCommand(x) ==
    /\ minter[x].pc = "mint"
    /\ clock + Window <= MaxTime
    /\ \E r \in Runs \ Minted :
        /\ runs' = [runs EXCEPT ![r] = [issued |-> clock, verdict |-> "open"]]
        /\ index' = [m \in DOMAIN index \cup ({r} \X Services) |->
                       IF m[1] = r THEN None ELSE index[m]]
    /\ SetMinter(x, minter[x].next, "idle")
    /\ UNCHANGED <<clock, delivered, matched, registered, loaded, handler, taken, agentVars>>

\* The mint fails: logged and swallowed by mintLogged.
MintLogged(x) ==
    /\ minter[x].pc = "mint"
    /\ SetMinter(x, minter[x].next, "idle")
    /\ UNCHANGED <<clock, runs, delivered, matched, registered, index, loaded, handler, taken, agentVars>>

-----------------------------------------------------------------------------
(* The batch handler. *)

SetHandler(h, r) == handler' = [handler EXCEPT ![h] = r]
HandlerGoesTo(h, pc) == SetHandler(h, [handler[h] EXCEPT !.pc = pc])
Live(r, now) == Deadline(r) > now

\* ensureLoaded: the live markers of the database, once per process.
EnsureLoaded ==
    LET live == {r \in Minted : Live(r, clock)} \X Services
    IN  [m \in DOMAIN index \cup live |-> IF m \in live THEN None ELSE index[m]]

\* match drops every expired marker it passes; lookupMarker only its own.
MatchPrune(idx) == [m \in {x \in DOMAIN idx : Live(x[1], clock)} |-> idx[m]]
LookupPrune(idx, m) ==
    [x \in {y \in DOMAIN idx : y # m \/ Live(m[1], clock)} |-> idx[x]]

\* applyVerdicts: an acknowledged event leaves the queue and its claim is
\* forgotten; with the answer lost it is sent again.
Settled(e, ack) ==
    /\ sending' = IF ack THEN sending \ {e} ELSE sending
    /\ claimed' = IF ack THEN [claimed EXCEPT ![e] = None] ELSE claimed

\* MatchSelfTest: a live marker in the raw bytes.
MatchSelfTest(h, e, idx) ==
    LET pruned == MatchPrune(idx) IN
    /\ claimed[e] = None
    /\ index' = pruned
    /\ IF RawMarker(e) \in DOMAIN pruned
       THEN /\ SetHandler(h, [pc |-> "target", ev |-> e, claim |-> None,
                              marker |-> RawMarker(e)])
            /\ UNCHANGED <<sending, claimed>>
       ELSE /\ \E ack \in BOOLEAN : Settled(e, ack)
            /\ UNCHANGED handler

\* MatchSelfTestClaim: a live marker no other event holds, of an
\* attributed target of the event's own service; sourceAgrees is the
\* comparison with the canary's last-seen address.
MatchSelfTestClaim(h, e, idx, sourceAgrees) ==
    LET m == claimed[e]
        pruned == LookupPrune(idx, m)
    IN  /\ m # None
        /\ index' = pruned
        /\ IF /\ m \in DOMAIN pruned
              /\ pruned[m] \in {None, e}
              /\ GradeForService(m[2]) = "attributed"
              /\ m[2] = e[2]
              /\ sourceAgrees
           THEN /\ SetHandler(h, [pc |-> "target", ev |-> e, claim |-> m, marker |-> m])
                /\ UNCHANGED <<sending, claimed>>
           ELSE /\ \E ack \in BOOLEAN : Settled(e, ack)
                /\ UNCHANGED handler

\* handleBatch for one event the sender does not hold back.
HandleBatch(h, e) ==
    /\ handler[h].pc = "idle"
    /\ e \in sending \ window
    /\ loaded' = TRUE
    /\ LET idx == IF loaded THEN index ELSE EnsureLoaded
       IN  \/ MatchSelfTest(h, e, idx)
           \/ \E sourceAgrees \in BOOLEAN : MatchSelfTestClaim(h, e, idx, sourceAgrees)
    /\ UNCHANGED <<clock, runs, delivered, matched, registered, minter, taken, box, probing, coming, window, restarts>>

\* recordSelfTestMatch, statement by statement.  The target first; nothing
\* more is done for one already matched.
RecordTarget(h) ==
    LET m == handler[h].marker IN
    /\ handler[h].pc = "target"
    /\ matched' = matched \cup {m}
    /\ HandlerGoesTo(h, IF m \in matched THEN "claim" ELSE "run")
    /\ UNCHANGED <<clock, runs, delivered, registered, index, loaded, minter, taken, agentVars>>

AnyMatched(r) == \E s \in Services : <<r, s>> \in matched
AllMatched(r) == {r} \X Services \subseteq matched

MarkPassedAnyway(r) == runs' = [runs EXCEPT ![r].verdict = "passed"]

\* SET passed = 1 WHERE completed_at IS NULL
MarkPassed(r) ==
    runs' = IF runs[r].verdict = "open" THEN [runs EXCEPT ![r].verdict = "passed"] ELSE runs

\* Then the run, when no target of it is left.
RecordRun(h) ==
    LET r == handler[h].marker[1] IN
    /\ handler[h].pc = "run"
    /\ \/ ~AllMatched(r) /\ HandlerGoesTo(h, "claim") /\ UNCHANGED runs
       \/ AllMatched(r) /\ HandlerGoesTo(h, "settle") /\ MarkPassed(r)
    /\ UNCHANGED <<clock, delivered, matched, registered, index, loaded, minter, taken, agentVars>>

\* Then the canary, through settlePendingForCommand.
SettlePending(h) ==
    /\ handler[h].pc = "settle"
    /\ registered' = TRUE
    /\ HandlerGoesTo(h, "claim")
    /\ UNCHANGED <<clock, runs, delivered, matched, index, loaded, minter, taken, agentVars>>

\* A statement fails: the event is stored as real.
RecordFails(h) ==
    /\ handler[h].pc \in {"target", "run", "settle"}
    /\ SetHandler(h, IdleHandler)
    /\ \E ack \in BOOLEAN : Settled(handler[h].ev, ack)
    /\ UNCHANGED <<clock, runs, delivered, matched, registered, index, loaded, minter, taken,
                   box, probing, coming, window, restarts>>

\* tryClaim: the first event holds the marker; one no longer in the index
\* is nobody's to contest.
TryClaim(m, e) == m \in DOMAIN index => index[m] \in {None, e}

StoreEventUnbound(h) ==   \* the winner is not written down
    LET m == handler[h].claim
        e == handler[h].ev
    IN  /\ handler[h].pc = "claim"
        /\ taken' = IF m # None /\ TryClaim(m, e) THEN [taken EXCEPT ![m] = @ \cup {e}] ELSE taken
        /\ SetHandler(h, IdleHandler)
        /\ \E ack \in BOOLEAN : Settled(e, ack)
        /\ UNCHANGED <<clock, runs, delivered, matched, registered, index, loaded, minter, box, probing, coming, window, restarts>>

\* The event is stored, synthetic when the marker is its own.
StoreEvent(h) ==
    LET m == handler[h].claim
        e == handler[h].ev
        wins == m # None /\ TryClaim(m, e)
    IN  /\ handler[h].pc = "claim"
        /\ index' = IF wins /\ m \in DOMAIN index THEN [index EXCEPT ![m] = e] ELSE index
        /\ taken' = IF wins THEN [taken EXCEPT ![m] = @ \cup {e}] ELSE taken
        /\ SetHandler(h, IdleHandler)
        /\ \E ack \in BOOLEAN : Settled(e, ack)
        /\ UNCHANGED <<clock, runs, delivered, matched, registered, loaded, minter, box, probing, coming, window, restarts>>

Restart == restarts < MaxRestarts /\ restarts' = restarts + 1

\* birdcage restarts: the index, and so every binding, is gone.
ServerRestart ==
    /\ index' = <<>> /\ loaded' = FALSE
    /\ minter' = [x \in {"tick", "hook"} |-> IdleMinter]
    /\ handler' = [h \in Handlers |-> IdleHandler]
    /\ taken' = [m \in Markers |-> {}]
    /\ Restart
    /\ UNCHANGED <<clock, runs, delivered, matched, registered, box, probing, coming, window, claimed, sending>>

-----------------------------------------------------------------------------
(* The agent. *)

\* ClaimNextCanaryCommand: the oldest live command not yet delivered.
ClaimNextCanaryCommand(r) ==
    /\ r \in Minted \ delivered
    /\ Live(r, clock)
    /\ \A q \in Minted \ delivered : Live(q, clock) => runs[r].issued <= runs[q].issued

\* One poll.  The answer may be lost, and a full runner drops the newest.
Poll ==
    \E r \in Runs, arrives \in BOOLEAN :
        /\ ClaimNextCanaryCommand(r)
        /\ delivered' = delivered \cup {r}
        /\ box' = IF arrives /\ Len(box) < RunnerBuffer THEN Append(box, r) ELSE box
        /\ UNCHANGED <<clock, runs, matched, registered, index, loaded, minter, handler, taken,
                       probing, coming, window, claimed, sending, restarts>>

\* runSelfTest opens the claim window and sweeps.
RunSelfTest ==
    /\ probing.phase = "idle" /\ box # <<>>
    /\ probing' = [run |-> Head(box), phase |-> "sweep"]
    /\ box' = Tail(box)
    /\ coming' = coming \cup {<<Head(box), "portscan">>}
    /\ window' = {}
    /\ UNCHANGED <<clock, serverVars, restarts, claimed, sending>>

\* observe, then push: a portscan event reaches the intake while the
\* window is open or not.
SubmitPortscanEvent(e) ==
    /\ e \in coming
    /\ coming' = coming \ {e}
    /\ sending' = sending \cup {e}
    /\ window' = IF probing.phase = "sweep" THEN window \cup {e} ELSE window
    /\ UNCHANGED <<clock, serverVars, restarts, box, probing, claimed>>

\* resolveWindow: exactly one candidate is claimed.
ResolveWindow ==
    /\ probing.phase = "sweep"
    /\ claimed' = IF Cardinality(window) = 1
                  THEN [e \in Events |-> IF e \in window THEN <<probing.run, "portscan">> ELSE claimed[e]]
                  ELSE claimed
    /\ window' = {}
    /\ probing' = [probing EXCEPT !.phase = "handled"]
    /\ UNCHANGED <<clock, serverVars, restarts, box, coming, sending>>

\* runAgentHandledTarget reports the poisoner result, unless the bait
\* never went out.
RunAgentHandledTarget(sent) ==
    /\ probing.phase = "handled"
    /\ sending' = IF sent THEN sending \cup {<<probing.run, "poisoner">>} ELSE sending
    /\ probing' = [run |-> None, phase |-> "idle"]
    /\ UNCHANGED <<clock, serverVars, restarts, box, coming, window, claimed>>

\* The agent dies: queue, window and claims are memory.
AgentRestart ==
    /\ box' = <<>> /\ probing' = [run |-> None, phase |-> "idle"]
    /\ coming' = coming \ Markers /\ window' = {} /\ sending' = {}
    /\ claimed' = [e \in Events |-> None]
    /\ Restart
    /\ UNCHANGED <<clock, serverVars>>

\* A minute passes; a tick's statements and a mint take less.
Pass ==
    /\ clock < MaxTime
    /\ \A x \in {"tick", "hook"} : minter[x].pc = "idle"
    /\ clock' = clock + 1
    /\ UNCHANGED <<serverVars, agentVars>>

SelfTestNext ==
    \/ TickScheduled \/ TickScheduler \/ FirstContact
    \/ \E x \in {"tick", "hook"} :
        MintSelfTestCommand(x) \/ MintLogged(x)
    \/ \E h \in Handlers :
        \/ \E e \in Events : HandleBatch(h, e)
        \/ RecordTarget(h) \/ RecordRun(h) \/ SettlePending(h) \/ RecordFails(h) \/ StoreEvent(h)
    \/ ServerRestart
    \/ Poll \/ RunSelfTest \/ ResolveWindow \/ AgentRestart
    \/ \E e \in Events : SubmitPortscanEvent(e)
    \/ \E sent \in BOOLEAN : RunAgentHandledTarget(sent)
    \/ Pass

\* The ticker fires every minute and time passes.
SelfTestFairness ==
    /\ WF_selfTestVars(TickScheduled \/ TickScheduler \/ MintSelfTestCommand("tick") \/ MintLogged("tick"))
    /\ WF_selfTestVars(MintSelfTestCommand("hook") \/ MintLogged("hook"))
    /\ SF_selfTestVars(Pass)

SelfTestSpec == SelfTestInit /\ [][SelfTestNext]_selfTestVars /\ SelfTestFairness

-----------------------------------------------------------------------------
\* A verdict is final: whichever of the last match and the deadline sweep
\* completes a run first, the other leaves it alone (the completed_at IS
\* NULL of recordSelfTestMatch and of SweepExpiredSelfTestRuns).
VerdictIsFinal ==
    [][\A r \in Runs : runs[r].verdict \in {"passed", "failed"} =>
                          runs'[r].verdict = runs[r].verdict]_selfTestVars

\* A pass, and the registration that follows from it, is earned: every
\* target of the run was matched, whatever was lost, repeated or restarted
\* on the way (recordSelfTestMatch's count of what remains).
ProofsAreEarned ==
    /\ \A r \in Runs : runs[r].verdict = "passed" => {r} \X Services \subseteq matched
    /\ registered => \E r \in Minted : {r} \X Services \subseteq matched

\* While the index holds a marker, at most one event was made synthetic by
\* claiming it, and the marker is bound to that event, though the check
\* and the binding of MatchSelfTestClaim are apart (tryClaim).
OneEventPerClaim ==
    \A m \in DOMAIN index : taken[m] \subseteq {index[m]}

\* Every run ends: it passes, or the sweep fails it after its deadline,
\* even while the daily self-test is switched off (Tick).
EveryRunEnds ==
    \A r \in Runs : (runs[r].verdict = "open") ~> (runs[r].verdict \in {"passed", "failed"})

\* No two runs are issued within the guard (HasRecentSelfTestRun, "so
\* neither path can race the other into minting twice").
NeverMintedTwice ==
    \A q, r \in Minted : q # r => \/ runs[q].issued > runs[r].issued + DoubleMintGuard
                                  \/ runs[r].issued > runs[q].issued + DoubleMintGuard
=============================================================================
