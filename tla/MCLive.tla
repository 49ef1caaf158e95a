------------------------------- MODULE MCLive -------------------------------
(***************************************************************************)
(* What must eventually happen, checked side by side: a behaviour is one   *)
(* of the component that part names, and the variables of the others stay  *)
(* as they were initially.                                                 *)
(*                                                                         *)
(* As only one component moves in a behaviour, a fairness condition on the *)
(* disjunction of one action of each is the fairness of each.              *)
(***************************************************************************)
EXTENDS RenewalSwap, SelfTest, DBRefresh, Outbox, AgentSettings

VARIABLE part

liveVars == <<part, vars, selfTestVars, refreshVars, outboxVars, settingsVars>>

OnlySwap == UNCHANGED <<part, selfTestVars, refreshVars, outboxVars, settingsVars>>
OnlySelfTest == UNCHANGED <<part, vars, refreshVars, outboxVars, settingsVars>>
OnlyRefresh == UNCHANGED <<part, vars, selfTestVars, outboxVars, settingsVars>>
OnlyOutbox == UNCHANGED <<part, vars, selfTestVars, refreshVars, settingsVars>>
OnlySettings == UNCHANGED <<part, vars, selfTestVars, refreshVars, outboxVars>>

LiveInit ==
    /\ part \in {"swap", "self-test", "refresh", "outbox", "settings"}
    /\ Init /\ SelfTestInit /\ DBRefreshInit /\ OutboxInit /\ SettingsInit
    /\ part # "settings" => rows = Nothing /\ detecting

LiveNext ==
    \/ part = "swap" /\ Next /\ OnlySwap
    \/ part = "self-test" /\ SelfTestNext /\ OnlySelfTest
    \/ part = "refresh" /\ DBRefreshNext /\ OnlyRefresh
    \/ part = "outbox" /\ OutboxNext /\ OnlyOutbox
    \/ part = "settings" /\ SettingsNext /\ OnlySettings

----------------------------------------------------------------------------
(* The conditions of each component's own Fairness: weak fairness of what  *)
(* a goroutine does next, strong fairness of what a fault may put off.     *)
Goroutine1 ==
    \/ part = "swap" /\ Step /\ OnlySwap
    \/ /\ part = "self-test" /\ OnlySelfTest
       /\ TickScheduled \/ TickScheduler \/ MintSelfTestCommand("tick") \/ MintLogged("tick")
    \/ part = "refresh" /\ (\E done \in BOOLEAN : PersistLocked(done)) /\ OnlyRefresh
    \/ part = "outbox" /\ TickSender /\ OnlyOutbox
    \/ part = "settings" /\ HeartbeatLoop /\ OnlySettings

Goroutine2 ==
    \/ part = "self-test" /\ (MintSelfTestCommand("hook") \/ MintLogged("hook")) /\ OnlySelfTest
    \/ part = "refresh" /\ ReportEnds /\ OnlyRefresh
    \/ part = "outbox" /\ SendStep /\ OnlyOutbox
    \/ part = "settings" /\ RecordLate /\ OnlySettings

Goroutine3 == part = "outbox" /\ BackoffPasses(1) /\ OnlyOutbox

Goroutine4 == part = "outbox" /\ BackoffPasses(2) /\ OnlyOutbox

Recurring1 ==
    \/ part = "self-test" /\ Pass /\ OnlySelfTest
    \/ part = "refresh" /\ ReportIfFailing /\ OnlyRefresh
    \/ part = "outbox" /\ Settles(1) /\ OnlyOutbox
    \/ part = "settings" /\ RecordCanarySettingsHash /\ OnlySettings

Recurring2 ==
    \/ part = "refresh" /\ HeartbeatArrives(TRUE) /\ OnlyRefresh
    \/ part = "outbox" /\ Settles(2) /\ OnlyOutbox
    \/ part = "settings" /\ PushSettings /\ OnlySettings

Recurring3 ==
    \/ part = "refresh" /\ HeartbeatArrives(FALSE) /\ OnlyRefresh
    \/ part = "outbox" /\ Goes(2) /\ OnlyOutbox
    \/ part = "settings" /\ DeliverSettings /\ OnlySettings

LiveSpec ==
    /\ LiveInit /\ [][LiveNext]_liveVars
    /\ WF_liveVars(Goroutine1) /\ WF_liveVars(Goroutine2)
    /\ WF_liveVars(Goroutine3) /\ WF_liveVars(Goroutine4)
    /\ SF_liveVars(Recurring1) /\ SF_liveVars(Recurring2) /\ SF_liveVars(Recurring3)

----------------------------------------------------------------------------
SomeInputs == [segment_profile |-> {Off, Linux, Unusable}, pace_ceiling |-> {0, 1000, 2000}]
=============================================================================
