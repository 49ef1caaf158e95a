----------------------------- MODULE MCBirdcage -----------------------------
(***************************************************************************)
(* birdcage's own components that do not meet each other, checked side by  *)
(* side: a behaviour is one of the component that part names, and the      *)
(* variables of the others stay as they were initially.                    *)
(***************************************************************************)
EXTENDS SelfTest, ScanRuns, History, Approvals, Health, TLC

VARIABLE part

birdcageVars == <<part, selfTestVars, scanVars, historyVars, approvalVars, healthVars>>

BirdcageInit ==
    /\ part \in {"self-test", "scan", "history", "approval", "health"}
    /\ SelfTestInit /\ ScanInit /\ HistoryInit /\ ApprovalsInit /\ HealthInit

BirdcageNext ==
    \/ /\ part = "self-test" /\ SelfTestNext
       /\ UNCHANGED <<part, scanVars, historyVars, approvalVars, healthVars>>
    \/ /\ part = "scan" /\ ScanNext
       /\ UNCHANGED <<part, selfTestVars, historyVars, approvalVars, healthVars>>
    \/ /\ part = "history" /\ HistoryNext
       /\ UNCHANGED <<part, selfTestVars, scanVars, approvalVars, healthVars>>
    \/ /\ part = "approval" /\ ApprovalsNext
       /\ UNCHANGED <<part, selfTestVars, scanVars, historyVars, healthVars>>
    \/ /\ part = "health" /\ HealthNext
       /\ UNCHANGED <<part, selfTestVars, scanVars, historyVars, approvalVars>>

BirdcageSpec == BirdcageInit /\ [][BirdcageNext]_birdcageVars

----------------------------------------------------------------------------
\* Two copies of one reply, one of them forged, and one too large to verify.
SomeMessageIDs == <<"a", "a", "none">>
SomeBroken == <<{}, {"domain", "date"}, {"size"}>>

\* The handlers of batch requests are interchangeable.
HandlerSymmetry == Permutations(Handlers)

\* The variables of every component hold what their declarations say.
BirdcageTypeOK == SelfTestTypeOK /\ ScanTypeOK /\ HistoryTypeOK /\ ApprovalsTypeOK /\ HealthTypeOK
=============================================================================
