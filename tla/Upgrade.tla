------------------------------- MODULE Upgrade -------------------------------
(***************************************************************************)
(* Upgrading one agent: the single-use token an operator mints with the    *)
(* pasted script, the script's steps on the agent's host, the token's      *)
(* presentation (retried, and handled concurrently), and the heartbeats    *)
(* from which birdcage tells two holders of one certificate, with the      *)
(* audit coalescer in front of what it records.  One unit of time is half  *)
(* the heartbeat interval.                                                 *)
(***************************************************************************)
EXTENDS Naturals, FiniteSets, Sequences

CONSTANTS
    UpgradeTokens,                      \* tokens, each with its own script
    Honeypot,                           \* the agent's kind: a honeypot, or a scanner
    UpgradeTokenTTL, UpgradeWindow, DualUseWindow, AuditCoalesceInterval,
    CredentialConflictWindow,
    MaxBeats,                           \* bound: heartbeats in flight
    LastMoment,                         \* bound: how long a behaviour lasts
    Never

\* The upgrade window is five minutes, the dual-use window and the coalescing
\* interval are one, the conflict window is two; a heartbeat takes at most one
\* unit of time to arrive.
ASSUME UpgradeConstants ==
    /\ UpgradeTokenTTL \in Nat /\ UpgradeWindow \in Nat /\ DualUseWindow \in Nat
    /\ AuditCoalesceInterval \in Nat /\ CredentialConflictWindow \in Nat \ {0}
    /\ DualUseWindow + 1 < UpgradeWindow
    /\ AuditCoalesceInterval <= CredentialConflictWindow
    /\ LastMoment \in Nat /\ Never \notin Nat

VARIABLES
    moment,
    upgradeTokens,   \* per token: [state, expires, window]
    minting,         \* the token a CLI has superseded the others for
    scripts,         \* per token: [at, told]: the next step, the last answer
    presented,       \* presentations at birdcage: [token, read]
    running,         \* the agent's container: "old", "new" or "none"
    beats,           \* heartbeats on the way: [build, sent]
    judging,         \* heartbeats past observe: [pair, at]
    seenBuild,       \* dualUseTracker: [build, at]
    lastWrite,       \* auditCoalescer's entry for the pair's key
    recordedAt,      \* agents.credential_dual_use_versions_at
    uncovered,       \* the last dual use no window covered
    cloned           \* a second host holds the agent's credential and old build

upgradeVars == <<moment, upgradeTokens, minting, scripts, presented, running, beats,
                 judging, seenBuild, lastWrite, recordedAt, uncovered, cloned>>
hostVars == <<scripts, presented, running, beats>>
flagVars == <<judging, seenBuild, lastWrite, recordedAt, uncovered, cloned>>

(* The steps of the script upgradeHoneypot or upgradeScanner writes; the   *)
(* honeypot's pull includes its check for an untracked lure.               *)
HoneypotSteps == <<"pull", "remove", "holder", "present", "start">>
ScannerSteps == <<"pull", "remove", "present", "start">>
Steps == IF Honeypot THEN HoneypotSteps ELSE ScannerSteps

Moments == 0..LastMoment
When == Moments \cup {Never}
Builds == {"old", "new"}
NotSeen == [build |-> "", at |-> 0]

UpgradeTypeOK ==
    /\ moment \in Moments /\ minting \subseteq UpgradeTokens
    /\ upgradeTokens \in [UpgradeTokens -> [state : {"none", "live", "used", "superseded"},
                                            expires : Nat, window : Nat \cup {Never}]]
    /\ scripts \in [UpgradeTokens -> [at : 0..Len(Steps) + 1, told : {"", "accepted", "refused"}]]
    /\ presented \subseteq [token : UpgradeTokens, read : BOOLEAN]
    /\ running \in Builds \cup {"none"}
    /\ beats \subseteq [build : Builds, sent : Moments]
    /\ judging \subseteq [pair : Builds \X Builds, at : Moments]
    /\ seenBuild \in [build : Builds \cup {""}, at : Moments]
    /\ {lastWrite, recordedAt, uncovered} \subseteq When /\ cloned \in BOOLEAN

UpgradeInit ==
    /\ moment = 0 /\ minting = {} /\ running = "old"
    /\ upgradeTokens = [t \in UpgradeTokens |-> [state |-> "none", expires |-> 0, window |-> Never]]
    /\ scripts = [t \in UpgradeTokens |-> [at |-> 0, told |-> ""]]
    /\ presented = {} /\ beats = {} /\ judging = {}
    /\ seenBuild = NotSeen /\ lastWrite = Never /\ recordedAt = Never /\ uncovered = Never
    /\ cloned \in BOOLEAN

-----------------------------------------------------------------------------
(* MintUpgradeToken, two statements of one transaction: every unused token *)
(* is superseded; then the new one is inserted, and its script printed.    *)
SupersedeEarlier(t) ==
    /\ upgradeTokens[t].state = "none" /\ t \notin minting /\ running = "old"
    /\ minting' = minting \cup {t}
    /\ upgradeTokens' = [u \in UpgradeTokens |->
           IF upgradeTokens[u].state = "live" THEN [upgradeTokens[u] EXCEPT !.state = "superseded"]
           ELSE upgradeTokens[u]]
    /\ UNCHANGED <<moment, hostVars, flagVars>>

MintUpgradeToken(t) ==
    /\ t \in minting
    /\ minting' = minting \ {t}
    /\ upgradeTokens' = [upgradeTokens EXCEPT ![t] = [state |-> "live", expires |-> moment + UpgradeTokenTTL, window |-> Never]]
    /\ scripts' = [scripts EXCEPT ![t].at = 1]
    /\ UNCHANGED <<moment, presented, running, beats, flagVars>>

-----------------------------------------------------------------------------
(* The script, run under set -e: a failed step stops it, except the        *)
(* removals and the presentation, whose failures it ignores.  One script   *)
(* is pasted at a time.                                                    *)
InProgress(t) == scripts[t].at \in 1..Len(Steps)
AtStep(t, s) == InProgress(t) /\ Steps[scripts[t].at] = s
NextStep(t) == [scripts EXCEPT ![t].at = @ + 1]
StopScript(t) == [scripts EXCEPT ![t].at = 0]


PullImages(t, pulled) ==
    /\ AtStep(t, "pull") /\ \A u \in UpgradeTokens : InProgress(u) => AtStep(u, "pull")
    /\ scripts' = IF pulled THEN NextStep(t) ELSE StopScript(t)
    /\ UNCHANGED <<moment, upgradeTokens, minting, presented, running, beats, flagVars>>

RemoveOldContainers(t, removed) ==
    /\ AtStep(t, "remove")
    /\ scripts' = NextStep(t)
    /\ running' = IF removed THEN "none" ELSE running
    /\ UNCHANGED <<moment, upgradeTokens, minting, presented, beats, flagVars>>

StartHolder(t, started) ==     \* a name still in use fails the step
    /\ AtStep(t, "holder")
    /\ started => running = "none"
    /\ scripts' = IF started THEN NextStep(t) ELSE StopScript(t)
    /\ UNCHANGED <<moment, upgradeTokens, minting, presented, running, beats, flagVars>>

StartAgent(t, started) ==
    /\ AtStep(t, "start")
    /\ started => running = "none"
    /\ running' = IF started THEN "new" ELSE running
    /\ scripts' = IF started THEN NextStep(t) ELSE StopScript(t)
    /\ UNCHANGED <<moment, upgradeTokens, minting, presented, beats, flagVars>>

-----------------------------------------------------------------------------
(* upgradetoken.Run: present, and present again while no answer comes and  *)
(* time is left; the last word moves the script on.                        *)
PresentToken(t) ==
    /\ AtStep(t, "present") /\ [token |-> t, read |-> FALSE] \notin presented
    /\ presented' = presented \cup {[token |-> t, read |-> FALSE]}
    /\ UNCHANGED <<moment, upgradeTokens, minting, scripts, running, beats, flagVars>>

Told(t, heard, answer) ==
    IF heard /\ AtStep(t, "present") THEN [NextStep(t) EXCEPT ![t].told = answer] ELSE scripts

GiveUpPresenting(t) ==
    /\ AtStep(t, "present")
    /\ scripts' = [NextStep(t) EXCEPT ![t].told = "refused"]
    /\ UNCHANGED <<moment, upgradeTokens, minting, presented, running, beats, flagVars>>

(* classifyUpgradeToken: used, superseded and expired tokens are refused.  *)
Acceptable(t) == upgradeTokens[t].state = "live" /\ moment < upgradeTokens[t].expires

(* PresentUpgradeToken's read; heard says whether the answer gets back.    *)
LookupUpgradeToken(p, heard) ==
    /\ p \in presented /\ ~ p.read
    /\ IF Acceptable(p.token)
       THEN presented' = (presented \ {p}) \cup {[p EXCEPT !.read = TRUE]} /\ UNCHANGED scripts
       ELSE presented' = presented \ {p} /\ scripts' = Told(p.token, heard, "refused")
    /\ UNCHANGED <<moment, upgradeTokens, minting, running, beats, flagVars>>

(* Its write, guarded by used_at IS NULL AND superseded_at IS NULL.        *)
SpendUpgradeToken(p, heard) ==
    LET t == p.token
        won == upgradeTokens[t].state = "live"
    IN  /\ p \in presented /\ p.read
        /\ presented' = presented \ {p}
        /\ upgradeTokens' = IF won THEN [upgradeTokens EXCEPT ![t].state = "used", ![t].window = moment + UpgradeWindow]
                            ELSE upgradeTokens
        /\ scripts' = Told(t, heard, IF won THEN "accepted" ELSE "refused")
        /\ UNCHANGED <<moment, minting, running, beats, flagVars>>

-----------------------------------------------------------------------------
Beat ==
    /\ Cardinality(beats) < MaxBeats
    /\ \E b \in ({running} \cup IF cloned THEN {"old"} ELSE {}) \cap Builds :
          beats' = beats \cup {[build |-> b, sent |-> moment]}
    /\ UNCHANGED <<moment, upgradeTokens, minting, scripts, presented, running, flagVars>>

(* dualUseTracker.observe: another build within the window is a dual use.  *)
ObserveBuild(b) ==
    LET dual == seenBuild.build \notin {"", b.build} /\ moment - seenBuild.at <= DualUseWindow
    IN  /\ b \in beats
        /\ beats' = beats \ {b}
        /\ seenBuild' = [build |-> b.build, at |-> moment]
        /\ judging' = IF dual THEN judging \cup {[pair |-> <<seenBuild.build, b.build>>, at |-> moment]} ELSE judging
        /\ UNCHANGED <<moment, upgradeTokens, minting, scripts, presented, running, lastWrite, recordedAt, uncovered, cloned>>

CoversForwards(pair, at) ==     \* only the old build first, then the new one
    \E t \in UpgradeTokens : upgradeTokens[t].state = "used" /\ at < upgradeTokens[t].window /\ pair = <<"old", "new">>

(* UpgradeWindowCovers: a window still open at that time, whose builds are *)
(* the pair in either order.                                               *)
UpgradeWindowCovers(pair, at) ==
    \E t \in UpgradeTokens : upgradeTokens[t].state = "used" /\ at < upgradeTokens[t].window /\ pair[1] # pair[2]

AdmitSliding(at) ==             \* every occurrence pushes the next write out
    [write |-> lastWrite = Never \/ at >= lastWrite + AuditCoalesceInterval, last |-> at]

(* auditCoalescer.admit: at most one write an interval.                    *)
Admit(at) ==
    LET write == lastWrite = Never \/ at >= lastWrite + AuditCoalesceInterval
    IN  [write |-> write, last |-> IF write THEN at ELSE lastWrite]

(* RecordCredentialDualUse: the time on the agent's row.                   *)
RecordCredentialDualUse(at) == recordedAt' = IF Admit(at).write THEN at ELSE recordedAt

(* observeAgentVersion and recordDualUse.                                  *)
ObserveAgentVersion(j) ==
    /\ j \in judging
    /\ judging' = judging \ {j}
    /\ IF UpgradeWindowCovers(j.pair, j.at) THEN UNCHANGED <<lastWrite, recordedAt, uncovered>>
       ELSE /\ uncovered' = moment
            /\ lastWrite' = Admit(moment).last
            /\ RecordCredentialDualUse(moment)
    /\ UNCHANGED <<moment, upgradeTokens, minting, hostVars, seenBuild, cloned>>

-----------------------------------------------------------------------------
(* Time passes; a heartbeat is answered or timed out within a unit.        *)
MomentPasses ==
    /\ moment < LastMoment /\ judging = {} /\ \A p \in presented : ~ p.read
    /\ moment' = moment + 1
    /\ beats' = {b \in beats : b.sent = moment}
    /\ UNCHANGED <<upgradeTokens, minting, scripts, presented, running, flagVars>>

(* birdcage restarts: the tracker and the coalescer start empty.           *)
BirdcageRestarts ==
    /\ seenBuild # NotSeen
    /\ seenBuild' = NotSeen /\ lastWrite' = Never /\ judging' = {} /\ presented' = {}
    /\ UNCHANGED <<moment, upgradeTokens, minting, scripts, running, beats, recordedAt, uncovered, cloned>>

(* runAgentUpgradeCommand: the transaction that mints, then the script.    *)
RunAgentUpgradeCommand(t) == SupersedeEarlier(t) \/ MintUpgradeToken(t)

UpgradeNext ==
    \/ \E t \in UpgradeTokens :
          \/ RunAgentUpgradeCommand(t) \/ PresentToken(t) \/ GiveUpPresenting(t)
          \/ \E ok \in BOOLEAN : PullImages(t, ok) \/ RemoveOldContainers(t, ok) \/ StartHolder(t, ok) \/ StartAgent(t, ok)
    \/ \E p \in presented, heard \in BOOLEAN : LookupUpgradeToken(p, heard) \/ SpendUpgradeToken(p, heard)
    \/ Beat \/ (\E b \in beats : ObserveBuild(b)) \/ (\E j \in judging : ObserveAgentVersion(j))
    \/ MomentPasses \/ BirdcageRestarts

UpgradeSpec == UpgradeInit /\ [][UpgradeNext]_upgradeVars

-----------------------------------------------------------------------------
(* recentPair: the agent shows credential_conflict at a time this soon     *)
(* after the one on its row.                                               *)
RecentPair(at) == recordedAt # Never /\ at - recordedAt < CredentialConflictWindow

(* With no copy of the credential about: once a script that was told its   *)
(* token was accepted has started the new build, the change of build is    *)
(* never taken for two holders of one credential, however the last         *)
(* heartbeats of the old build and the first of the new one are ordered.   *)
UpgradeNotFlagged ==
    [][(recordedAt' # recordedAt /\ ~ cloned) =>
         \A t \in UpgradeTokens : scripts[t] # [at |-> Len(Steps) + 1, told |-> "accepted"]]_upgradeVars

(* While dual uses keep being seen the agent keeps showing the conflict:   *)
(* whenever one was just seen, the time on the row is inside the window    *)
(* the health state reads, however many the coalescer folded away.         *)
DualUseStaysShown == uncovered # Never => RecentPair(uncovered)

=============================================================================
