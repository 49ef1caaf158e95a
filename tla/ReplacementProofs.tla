------------------------- MODULE ReplacementProofs --------------------------
(***************************************************************************)
(* Proofs about what an agent replaces in place: its certificate pair, when *)
(* it renews it, and its own build, when it is upgraded, for any number of *)
(* upgrade tokens and any windows.                                         *)
(***************************************************************************)
EXTENDS RenewalSwap, Upgrade, TLAPS

-----------------------------------------------------------------------------
(* The renewal.                                                            *)

\* What the steps of a swap rely on, faults or not: a staged key is newer
\* than the live one, a staged certificate has its key staged or live, and
\* each step of the recovery still finds the files it was chosen for.
FileInv ==
    /\ TypeOK
    /\ cert <= key
    /\ key <= issued
    /\ newKey <= issued
    /\ newKey # 0 => key <= newKey
    /\ newCert # 0 => newCert <= IF newKey # 0 THEN newKey ELSE key
    /\ pc = "stageCert" => newKey = issued
    /\ pc = "swapKey" => newKey # 0 /\ newCert # 0
    /\ pc = "swapCert" => newKey = 0 /\ newCert # 0
    /\ pc = "discardKey" => newKey # 0 /\ newCert = 0

\* FileInv holds of an enrolled agent that has booted.
LEMMA FileInit == Init => FileInv
  BY SwapConstants DEF Init, FileInv, TypeOK

\* Every step of a swap, a recovery, a fault or a crash keeps FileInv.
LEMMA FileNext == FileInv /\ [Next]_vars => FileInv'
<1> SUFFICES ASSUME FileInv, [Next]_vars PROVE FileInv'
  OBVIOUS
<1> USE SwapConstants DEF FileInv, TypeOK, files
<1>1. CASE Tick
  BY <1>1 DEF Tick
<1>2. CASE StageKey
  BY <1>2 DEF StageKey, Fault, Failed
<1>3. CASE StageCert
  BY <1>3 DEF StageCert, Fault, Failed
<1>4. CASE RecoverPendingSwap
  BY <1>4 DEF RecoverPendingSwap, Recovered
<1>5. CASE SwapKey
  BY <1>5 DEF SwapKey, Fault, Failed
<1>6. CASE SwapCert
  BY <1>6 DEF SwapCert, Fault, Failed, Recovered
<1>7. CASE DiscardKey
  BY <1>7 DEF DiscardKey, Fault, Failed, Recovered
<1>8. CASE SwitchClient
  BY <1>8 DEF SwitchClient, Fault, Failed
<1>9. CASE LoadPair
  BY <1>9 DEF LoadPair
<1>10. CASE Crash
  BY <1>10 DEF Crash
<1>11. CASE UNCHANGED vars
  BY <1>11 DEF vars
<1> QED
  BY <1>1, <1>2, <1>3, <1>4, <1>5, <1>6, <1>7, <1>8, <1>9, <1>10, <1>11 DEF Next, Step

\* Every variable keeps its type.
THEOREM TypeCorrect == Spec => []TypeOK
<1>1. FileInv => TypeOK
  BY DEF FileInv
<1> QED BY <1>1, FileInit, FileNext, PTL DEF Spec

\* The live certificate is never ahead of the live key, whatever fails and
\* whenever the process dies.
THEOREM CertNeverAhead == Spec => []KeyNeverBehind
<1>1. FileInv => KeyNeverBehind
  BY DEF FileInv, KeyNeverBehind
<1> QED BY <1>1, FileInit, FileNext, PTL DEF Spec

-----------------------------------------------------------------------------
(* Crashes alone, as long as no system call has failed.                     *)

\* Nothing is staged except while a swap or a recovery is under way, and
\* what is staged or half swapped is the pair of one renewal.
CleanSwap ==
    /\ BootKey = BootCert
    /\ pc \in {"run", "stageKey", "switch", "load"} => newKey = 0 /\ newCert = 0
    /\ pc = "stageCert" => newCert = 0
    /\ newKey # 0 /\ newCert # 0 => newKey = newCert
    /\ pc # "dead"

\* The first failing call ends what CleanSwap promises.
SwapInv == faults = 0 => CleanSwap

\* SwapInv holds of an enrolled agent that has booted.
LEMMA SwapInit == Init => SwapInv
  BY DEF Init, SwapInv, CleanSwap, BootKey, BootCert

\* Every step keeps SwapInv.
LEMMA SwapNext == FileInv /\ SwapInv /\ [Next]_vars => SwapInv'
<1> SUFFICES ASSUME FileInv, SwapInv, [Next]_vars, faults' = 0 PROVE CleanSwap'
  BY DEF SwapInv
<1>0. ~ Fault
  BY DEF Fault, FileInv, TypeOK
<1>a. faults = 0
  BY <1>0 DEF Next, Step, Tick, StageKey, StageCert, RecoverPendingSwap, SwapKey, SwapCert,
              DiscardKey, SwitchClient, LoadPair, Crash, vars
<1>b. CleanSwap
  BY <1>a DEF SwapInv
<1> USE <1>b, SwapConstants DEF FileInv, TypeOK, CleanSwap, files, BootKey, BootCert
<1>1. CASE Tick
  BY <1>1 DEF Tick
<1>2. CASE StageKey
  BY <1>2, <1>0 DEF StageKey
<1>3. CASE StageCert
  BY <1>3, <1>0 DEF StageCert
<1>4. CASE RecoverPendingSwap
  BY <1>4 DEF RecoverPendingSwap, Recovered
<1>5. CASE SwapKey
  BY <1>5, <1>0 DEF SwapKey
<1>6. CASE SwapCert
  BY <1>6, <1>0 DEF SwapCert, Recovered
<1>7. CASE DiscardKey
  BY <1>7, <1>0 DEF DiscardKey, Recovered
<1>8. CASE SwitchClient
  BY <1>8, <1>0 DEF SwitchClient
<1>9. CASE LoadPair
  BY <1>9 DEF LoadPair
<1>10. CASE Crash
  BY <1>10 DEF Crash
<1>11. CASE UNCHANGED vars
  BY <1>11 DEF vars
<1> QED
  BY <1>1, <1>2, <1>3, <1>4, <1>5, <1>6, <1>7, <1>8, <1>9, <1>10, <1>11 DEF Next, Step

\* As long as no system call has failed, a crash at any point leaves a
\* matching pair for the next boot.
THEOREM NeverMixedByCrashes == Spec => []PairNeverMixed
<1>1. SwapInv => PairNeverMixed
  BY DEF SwapInv, CleanSwap, PairNeverMixed
<1> QED BY <1>1, FileInit, FileNext, SwapInit, SwapNext, PTL DEF Spec

\* The swap of the files replaces the certificate a boot would find by a
\* newer one in a single step, whatever fails and whenever the process dies.
THEOREM SwapImplementsAtomic == Spec => SwapIsAtomic
<1>1. Init => Atomic!Init
  BY DEF Init, Atomic!Init, BootCert
<1>2. FileInv /\ [Next]_vars => [Atomic!Replace]_BootCert
  <2> SUFFICES ASSUME FileInv, [Next]_vars
               PROVE  [Atomic!Replace]_BootCert
    OBVIOUS
  <2> USE SwapConstants DEF FileInv, TypeOK, files, BootCert, Atomic!Replace
  <2>1. CASE StageCert
    BY <2>1 DEF StageCert
  <2>2. CASE SwapKey
    BY <2>2 DEF SwapKey
  <2>3. CASE SwapCert
    BY <2>3 DEF SwapCert
  <2>4. CASE Tick \/ StageKey \/ RecoverPendingSwap \/ DiscardKey \/ SwitchClient \/ LoadPair
             \/ Crash \/ UNCHANGED vars
    BY <2>4 DEF Tick, StageKey, RecoverPendingSwap, DiscardKey, SwitchClient, LoadPair,
                Crash, vars
  <2> QED BY <2>1, <2>2, <2>3, <2>4 DEF Next, Step
<1> QED BY <1>1, <1>2, FileInit, FileNext, PTL DEF Spec, SwapIsAtomic, Atomic!Spec

-----------------------------------------------------------------------------
(* The upgrade.                                                            *)

\* Types, and the order of the hosts' scripts: only one of them is past its
\* image pull, one that has finished has replaced the old build, and a token
\* being minted does not exist yet.
UpgradeInv ==
    /\ UpgradeTypeOK
    /\ \A t \in UpgradeTokens, u \in UpgradeTokens :
         scripts[t].at \in 2..Len(Steps) /\ scripts[u].at \in 2..Len(Steps) => t = u
    /\ \A t \in UpgradeTokens : scripts[t].at = Len(Steps) + 1 => running # "old"
    /\ \A t \in minting : upgradeTokens[t].state = "none"

\* The coalescer's memory of its last write is what the row says, the row is
\* not of the future, and the conflict is shown.
ShownInv ==
    /\ lastWrite # Never => lastWrite = recordedAt
    /\ recordedAt # Never => recordedAt <= moment
    /\ DualUseStaysShown

\* A heartbeat arrives within a unit of time, and nothing was seen or is
\* being judged in the future; what is judged is a pair of two builds.
TimesInv ==
    /\ \A b \in beats : b.sent <= moment /\ moment <= b.sent + 1
    /\ \A j \in judging : j.at <= moment /\ j.pair[1] # j.pair[2]
    /\ seenBuild.at <= moment

\* The script of token t was told its token was accepted, and the old build
\* is gone.
Done(t) ==
    /\ scripts[t].told = "accepted" /\ scripts[t].at \in {Len(Steps), Len(Steps) + 1}
    /\ running # "old"

\* An accepted presentation's window is late enough for everything that the
\* old build still has under way: its heartbeats, the build last seen, and
\* the pairs being judged.
AccBounds(t) ==
    /\ upgradeTokens[t].state = "used" /\ upgradeTokens[t].window \in Nat
    /\ \A b \in beats : b.build = "old" => b.sent + UpgradeWindow <= upgradeTokens[t].window
    /\ seenBuild.build = "old" => seenBuild.at + UpgradeWindow <= upgradeTokens[t].window + 1
    /\ \A j \in judging : j.at + UpgradeWindow <= upgradeTokens[t].window + 1 + DualUseWindow

\* So it is for every accepted presentation while there is no copy of the
\* credential.
AccInv == ~ cloned => \A t \in UpgradeTokens : Done(t) => AccBounds(t)

\* A host's script, and a token's row.
ScriptRec == [at : 0..Len(Steps) + 1, told : {"", "accepted", "refused"}]

\* A row of upgrade_tokens.
TokenRec == [state : {"none", "live", "used", "superseded"}, expires : Nat, window : Nat \cup {Never}]

\* A presentation of token t that spends it.
Won(t) ==
    \E p \in presented, h \in BOOLEAN :
        SpendUpgradeToken(p, h) /\ p.token = t /\ upgradeTokens[t].state = "live"

\* What a step may do to the script of token t, but for the answer to a
\* presentation: mint it or stop it, or move it on one step.
Moved(t) ==
    /\ scripts' \in [UpgradeTokens -> ScriptRec]
    /\ \A u \in UpgradeTokens : u # t => scripts'[u] = scripts[u]
    /\ \/ scripts'[t].at \in {0, 1}
       \/ /\ InProgress(t) /\ scripts'[t].at = scripts[t].at + 1
          /\ scripts[t].at = 1 => \A u \in UpgradeTokens : InProgress(u) => scripts[u].at = 1
          /\ scripts[t].at = Len(Steps) => running = "none" /\ running' = "new" /\ scripts'[t].told = scripts[t].told
          /\ scripts[t].at + 1 = Len(Steps) => scripts'[t].told = "refused" \/ Won(t)

\* The script pulls first, presents its token last but one, and starts the
\* new agent last.
LEMMA StepOrder ==
    /\ Len(Steps) \in Nat /\ Len(Steps) >= 2
    /\ \A i \in 1..Len(Steps) : Steps[i] = "start" <=> i = Len(Steps)
    /\ \A i \in 1..Len(Steps) : Steps[i] = "pull" <=> i = 1
    /\ \A i \in 1..Len(Steps) : Steps[i] = "present" <=> i + 1 = Len(Steps)
BY DEF Steps, HoneypotSteps, ScannerSteps

\* The initial state.
LEMMA UpgradeInitInv == UpgradeInit => UpgradeInv /\ ShownInv
<1> SUFFICES ASSUME UpgradeInit PROVE UpgradeInv /\ ShownInv
  OBVIOUS
<1>a. 0 \in Moments /\ 0 \in 0..Len(Steps) + 1
  BY StepOrder, UpgradeConstants DEF Moments
<1>b. /\ upgradeTokens \in [UpgradeTokens -> [state : {"none", "live", "used", "superseded"},
                                            expires : Nat, window : Nat \cup {Never}]]
      /\ scripts \in [UpgradeTokens -> [at : 0..Len(Steps) + 1, told : {"", "accepted", "refused"}]]
  BY <1>a, ZenonT(60) DEF UpgradeInit
<1>c. seenBuild \in [build : Builds \cup {""}, at : Moments]
  BY <1>a, ZenonT(60) DEF UpgradeInit, NotSeen
<1>1. UpgradeTypeOK
  BY <1>a, <1>b, <1>c, Zenon DEF UpgradeInit, UpgradeTypeOK, When, Builds
<1>d. \A t \in UpgradeTokens : scripts[t].at = 0
  BY ZenonT(60) DEF UpgradeInit
<1>e. ~ (0 \in 2..Len(Steps)) /\ 0 # Len(Steps) + 1
  BY StepOrder
<1>f. minting = {} /\ lastWrite = Never /\ recordedAt = Never /\ uncovered = Never
  BY ZenonT(60) DEF UpgradeInit
<1>2. QED
  BY <1>1, <1>d, <1>e, <1>f, Zenon DEF UpgradeInv, ShownInv, DualUseStaysShown

\* A dual use that is folded away was preceded by a write that still shows it.
LEMMA ShownNext == UpgradeTypeOK /\ ShownInv /\ [UpgradeNext]_upgradeVars => ShownInv'
<1> SUFFICES ASSUME UpgradeTypeOK, ShownInv, [UpgradeNext]_upgradeVars PROVE ShownInv'
  OBVIOUS
<1> USE UpgradeConstants
<1>t. moment \in Nat /\ {lastWrite, recordedAt, uncovered} \subseteq Nat \cup {Never}
  <2>1. Moments \subseteq Nat
    BY DEF Moments
  <2>2. QED
    BY <2>1, Zenon DEF UpgradeTypeOK, When
<1>1. CASE UNCHANGED <<lastWrite, recordedAt, uncovered, moment>>
  BY <1>1 DEF ShownInv, DualUseStaysShown, RecentPair
<1>2. ASSUME NEW j \in judging, ObserveAgentVersion(j) PROVE ShownInv'
  <2>1. CASE UNCHANGED <<lastWrite, recordedAt, uncovered>>
    BY <1>2, <2>1 DEF ShownInv, DualUseStaysShown, RecentPair, ObserveAgentVersion
  <2>2. CASE /\ uncovered' = moment /\ lastWrite' = Admit(moment).last
             /\ RecordCredentialDualUse(moment)
    <3>1. CASE lastWrite = Never \/ moment >= lastWrite + AuditCoalesceInterval
      <4>1. lastWrite' = moment /\ recordedAt' = moment /\ moment' = moment
        BY <1>2, <2>2, <3>1, ZenonT(60) DEF Admit, RecordCredentialDualUse, ObserveAgentVersion
      <4>2. QED
        BY <4>1, <2>2, <1>t, SMTT(60) DEF ShownInv, DualUseStaysShown, RecentPair
    <3>2. CASE ~ (lastWrite = Never \/ moment >= lastWrite + AuditCoalesceInterval)
      <4>1. lastWrite' = lastWrite /\ recordedAt' = recordedAt /\ moment' = moment
        BY <1>2, <2>2, <3>2, ZenonT(60) DEF Admit, RecordCredentialDualUse, ObserveAgentVersion
      <4>2. lastWrite = recordedAt /\ recordedAt \in Nat /\ moment - recordedAt < AuditCoalesceInterval
        BY <3>2, <1>t DEF ShownInv
      <4>3. QED
        BY <4>1, <4>2, <2>2, <1>t DEF ShownInv, DualUseStaysShown, RecentPair
    <3>3. QED
      BY <3>1, <3>2
  <2>3. QED
    BY <1>2, <2>1, <2>2, Zenon DEF ObserveAgentVersion
<1>3. CASE MomentPasses
  BY <1>3, <1>t DEF MomentPasses, ShownInv, DualUseStaysShown, RecentPair, flagVars
<1>4. CASE BirdcageRestarts
  BY <1>4 DEF BirdcageRestarts, ShownInv, DualUseStaysShown, RecentPair
<1>5. QED
  BY <1>1, <1>2, <1>3, <1>4, ZenonT(60)
  DEF UpgradeNext, upgradeVars, hostVars, flagVars, RunAgentUpgradeCommand, SupersedeEarlier,
      MintUpgradeToken, PresentToken, GiveUpPresenting, PullImages, RemoveOldContainers, StartHolder,
      StartAgent, LookupUpgradeToken, SpendUpgradeToken, Beat, ObserveBuild

\* Writing a script's place writes nothing else.
LEMMA ScriptWritten ==
  ASSUME NEW s \in [UpgradeTokens -> ScriptRec], NEW t \in UpgradeTokens,
         NEW k \in 0..Len(Steps) + 1, NEW n, n = [s EXCEPT ![t].at = k]
  PROVE  /\ n \in [UpgradeTokens -> ScriptRec]
         /\ \A u \in UpgradeTokens : u # t => n[u] = s[u]
         /\ n[t].at = k /\ n[t].told = s[t].told
<1>1. PICK r : r = [s[t] EXCEPT !.at = k]
  OBVIOUS
<1>2. s[t] \in ScriptRec
  OBVIOUS
<1>3. PICK K : K = 0..Len(Steps) + 1
  OBVIOUS
<1>4. r \in ScriptRec /\ r.at = k /\ r.told = s[t].told
  BY <1>1, <1>2, <1>3, ZenonT(60) DEF ScriptRec
<1>5. n = [s EXCEPT ![t] = r]
  BY <1>1
<1>6. QED
  BY <1>4, <1>5, Zenon

\* A script moves on by one step.
LEMMA NextScripts ==
  ASSUME UpgradeTypeOK, NEW t \in UpgradeTokens, InProgress(t), NEW n, n = NextStep(t)
  PROVE  /\ n \in [UpgradeTokens -> ScriptRec]
         /\ \A u \in UpgradeTokens : u # t => n[u] = scripts[u]
         /\ n[t].at = scripts[t].at + 1 /\ n[t].told = scripts[t].told
<1>1. scripts \in [UpgradeTokens -> ScriptRec]
  BY ZenonT(60) DEF UpgradeTypeOK, ScriptRec
<1>2. scripts[t].at + 1 \in 0..Len(Steps) + 1
  BY StepOrder, SMTT(60) DEF InProgress
<1>3. n = [scripts EXCEPT ![t].at = scripts[t].at + 1]
  BY DEF NextStep
<1>4. QED
  BY <1>1, <1>2, <1>3, ScriptWritten

\* The script moves on, told the answer to its presentation.
Answered(t, a) == [NextStep(t) EXCEPT ![t].told = a]

\* A script that is told an answer moves on with it.
LEMMA ToldScripts ==
  ASSUME UpgradeTypeOK, NEW t \in UpgradeTokens, InProgress(t),
         NEW a, a \in {"accepted", "refused"}, NEW n, n = Answered(t, a)
  PROVE  /\ n \in [UpgradeTokens -> ScriptRec]
         /\ \A u \in UpgradeTokens : u # t => n[u] = scripts[u]
         /\ n[t].at = scripts[t].at + 1 /\ n[t].told = a
<1>1. PICK m : m = NextStep(t)
  OBVIOUS
<1>2. /\ m \in [UpgradeTokens -> ScriptRec]
      /\ \A u \in UpgradeTokens : u # t => m[u] = scripts[u]
      /\ m[t].at = scripts[t].at + 1
  BY <1>1, NextScripts
<1>3. n = [m EXCEPT ![t].told = a]
  BY <1>1 DEF Answered
<1>4. QED
  BY <1>2, <1>3, ZenonT(60) DEF ScriptRec

\* A script that starts or is stopped keeps what it was told.
LEMMA StoppedScripts ==
  ASSUME UpgradeTypeOK, NEW t \in UpgradeTokens, NEW k \in {0, 1}, NEW n, n = [scripts EXCEPT ![t].at = k]
  PROVE  /\ n \in [UpgradeTokens -> ScriptRec]
         /\ \A u \in UpgradeTokens : u # t => n[u] = scripts[u]
         /\ n[t].at = k /\ n[t].told = scripts[t].told
<1>1. scripts \in [UpgradeTokens -> ScriptRec]
  BY ZenonT(60) DEF UpgradeTypeOK, ScriptRec
<1>2. k \in 0..Len(Steps) + 1
  BY StepOrder
<1>3. PICK m \in 0..Len(Steps) + 1 : m = k
  BY <1>2, Zenon
<1>4. n = [scripts EXCEPT ![t].at = m]
  BY <1>3, Zenon
<1>5. n[t].at = m /\ n[t].told = scripts[t].told /\ n \in [UpgradeTokens -> ScriptRec]
      /\ \A u \in UpgradeTokens : u # t => n[u] = scripts[u]
  BY <1>1, <1>3, <1>4, ScriptWritten, SMTT(60)
<1>6. QED
  BY <1>3, <1>5, Zenon

\* A step moves at most one script, and only as Moved allows.
LEMMA ScriptMoves ==
  ASSUME UpgradeTypeOK, UpgradeNext
  PROVE  \/ scripts' = scripts
         \/ \E t \in UpgradeTokens : Moved(t)
<1>1. ASSUME NEW t \in UpgradeTokens, MintUpgradeToken(t) PROVE Moved(t)
  <2>1. scripts' = [scripts EXCEPT ![t].at = 1]
    BY <1>1 DEF MintUpgradeToken
  <2>2. QED
    BY <2>1, StoppedScripts, ZenonT(60) DEF Moved
<1>s. ASSUME NEW t \in UpgradeTokens, scripts' = StopScript(t) PROVE Moved(t)
  <2>1. scripts' = [scripts EXCEPT ![t].at = 0]
    BY <1>s DEF StopScript
  <2>2. QED
    BY <2>1, StoppedScripts, ZenonT(60) DEF Moved
<1>n. ASSUME NEW t \in UpgradeTokens, InProgress(t), scripts' = NextStep(t)
      PROVE  /\ scripts' \in [UpgradeTokens -> ScriptRec]
             /\ \A u \in UpgradeTokens : u # t => scripts'[u] = scripts[u]
             /\ scripts'[t].at = scripts[t].at + 1 /\ scripts'[t].told = scripts[t].told
  BY <1>n, NextScripts
<1>p. ASSUME NEW t \in UpgradeTokens, AtStep(t, "present"), NEW a \in {"accepted", "refused"},
             scripts' = Answered(t, a), a = "refused" \/ Won(t)
      PROVE  Moved(t)
  <2>1. InProgress(t) /\ scripts[t].at # 1 /\ scripts[t].at # Len(Steps)
    BY <1>p, StepOrder, SMTT(60) DEF AtStep, InProgress
  <2>2. /\ scripts' \in [UpgradeTokens -> ScriptRec]
        /\ \A u \in UpgradeTokens : u # t => scripts'[u] = scripts[u]
        /\ scripts'[t].at = scripts[t].at + 1 /\ scripts'[t].told = a
    BY <1>p, <2>1, ToldScripts
  <2>3. QED
    BY <1>p, <2>1, <2>2, Zenon DEF Moved
<1>2. ASSUME NEW t \in UpgradeTokens, NEW ok \in BOOLEAN, PullImages(t, ok) PROVE Moved(t)
  <2>1. CASE scripts' = StopScript(t)
    BY <2>1, <1>s
  <2>2. CASE scripts' = NextStep(t)
    <3>1. InProgress(t) /\ scripts[t].at # Len(Steps) /\ scripts[t].at + 1 # Len(Steps) /\ \A u \in UpgradeTokens : InProgress(u) => scripts[u].at = 1
      BY <1>2, StepOrder, SMTT(60) DEF PullImages, AtStep, InProgress
    <3>2. QED
      BY <2>2, <3>1, <1>n, ZenonT(60) DEF Moved
  <2>3. QED
    BY <1>2, <2>1, <2>2, Zenon DEF PullImages
<1>3. ASSUME NEW t \in UpgradeTokens, NEW ok \in BOOLEAN, RemoveOldContainers(t, ok) PROVE Moved(t)
  <2>1. InProgress(t) /\ scripts[t].at # 1 /\ scripts[t].at # Len(Steps) /\ scripts[t].at + 1 # Len(Steps)
    BY <1>3, StepOrder, SMTT(60) DEF RemoveOldContainers, AtStep, InProgress
  <2>2. QED
    BY <1>3, <2>1, <1>n, Zenon DEF Moved, RemoveOldContainers
<1>4. ASSUME NEW t \in UpgradeTokens, NEW ok \in BOOLEAN, StartHolder(t, ok) PROVE Moved(t)
  <2>1. InProgress(t) /\ scripts[t].at # 1 /\ scripts[t].at # Len(Steps) /\ scripts[t].at + 1 # Len(Steps)
    BY <1>4, StepOrder, SMTT(60) DEF StartHolder, AtStep, InProgress
  <2>2. QED
    BY <1>4, <2>1, <1>n, <1>s, Zenon DEF Moved, StartHolder
<1>5. ASSUME NEW t \in UpgradeTokens, NEW ok \in BOOLEAN, StartAgent(t, ok) PROVE Moved(t)
  <2>1. InProgress(t) /\ scripts[t].at # 1 /\ scripts[t].at + 1 # Len(Steps)
    BY <1>5, StepOrder, SMTT(60) DEF StartAgent, AtStep, InProgress
  <2>2. CASE ok
    BY <1>5, <2>1, <2>2, <1>n, Zenon DEF Moved, StartAgent
  <2>3. CASE ~ ok
    BY <1>5, <2>3, <1>s, Zenon DEF StartAgent
  <2>4. QED
    BY <2>2, <2>3
<1>6. ASSUME NEW t \in UpgradeTokens, GiveUpPresenting(t) PROVE Moved(t)
  BY <1>6, <1>p, Zenon DEF GiveUpPresenting, Answered
<1>7. ASSUME NEW t \in UpgradeTokens, NEW h, NEW a \in {"accepted", "refused"}, scripts' = Told(t, h, a),
             a = "refused" \/ Won(t)
      PROVE  scripts' = scripts \/ Moved(t)
  BY <1>7, <1>p, Zenon DEF Told, Answered
<1>8. ASSUME NEW p \in presented, NEW h \in BOOLEAN, LookupUpgradeToken(p, h) \/ SpendUpgradeToken(p, h)
      PROVE  scripts' = scripts \/ \E t \in UpgradeTokens : Moved(t)
  <2>1. p.token \in UpgradeTokens
    BY ZenonT(60) DEF UpgradeTypeOK
  <2>2. CASE LookupUpgradeToken(p, h)
    BY <2>1, <2>2, <1>7, Zenon DEF LookupUpgradeToken
  <2>3. CASE SpendUpgradeToken(p, h)
    <3>1. CASE upgradeTokens[p.token].state = "live"
      <4>1. scripts' = Told(p.token, h, "accepted")
        BY <2>3, <3>1 DEF SpendUpgradeToken
      <4>2. Won(p.token)
        BY <2>3, <3>1, Zenon DEF Won
      <4>3. QED
        BY <2>1, <4>1, <4>2, <1>7, ZenonT(60)
    <3>2. CASE upgradeTokens[p.token].state # "live"
      <4>1. scripts' = Told(p.token, h, "refused")
        BY <2>3, <3>2 DEF SpendUpgradeToken
      <4>2. QED
        BY <2>1, <4>1, <1>7, Zenon
    <3>3. QED
      BY <3>1, <3>2
  <2>4. QED
    BY <1>8, <2>2, <2>3, SMTT(60)
<1>9. CASE UNCHANGED scripts
  BY <1>9
<1>10. QED
  BY <1>1, <1>2, <1>3, <1>4, <1>5, <1>6, <1>8, <1>9, ZenonT(60)
  DEF UpgradeNext, hostVars, RunAgentUpgradeCommand, SupersedeEarlier, PresentToken, Beat, ObserveBuild,
      ObserveAgentVersion, MomentPasses, BirdcageRestarts

\* Only a live token, or one being minted, changes.
LEMMA TokenMoves ==
  ASSUME UpgradeInv, UpgradeNext
  PROVE  /\ upgradeTokens' \in [UpgradeTokens -> TokenRec] /\ minting' \subseteq UpgradeTokens
         /\ \A t \in UpgradeTokens :
              upgradeTokens'[t] = upgradeTokens[t] \/ upgradeTokens[t].state = "live" \/ t \in minting
         /\ \A t \in minting' : upgradeTokens'[t].state = "none"
<1>t. /\ upgradeTokens \in [UpgradeTokens -> TokenRec] /\ minting \subseteq UpgradeTokens /\ moment \in Nat
      /\ \A p \in presented : p.token \in UpgradeTokens
      /\ \A t \in minting : upgradeTokens[t].state = "none"
  <2>1. Moments \subseteq Nat
    BY DEF Moments
  <2>2. \A p \in presented : p.token \in UpgradeTokens
    BY ZenonT(60) DEF UpgradeInv, UpgradeTypeOK
  <2>3. QED
    BY <2>1, <2>2, Zenon DEF UpgradeInv, UpgradeTypeOK, TokenRec
<1>1. ASSUME NEW t \in UpgradeTokens, SupersedeEarlier(t)
      PROVE  /\ upgradeTokens' \in [UpgradeTokens -> TokenRec] /\ minting' \subseteq UpgradeTokens
             /\ \A u \in UpgradeTokens : upgradeTokens'[u] = upgradeTokens[u] \/ upgradeTokens[u].state = "live"
             /\ \A u \in minting' : upgradeTokens'[u].state = "none"
  <2>1. minting' = minting \cup {t} /\ upgradeTokens[t].state = "none"
    BY <1>1, Zenon DEF SupersedeEarlier
  <2>2. \A u \in UpgradeTokens : upgradeTokens'[u] =
           IF upgradeTokens[u].state = "live" THEN [upgradeTokens[u] EXCEPT !.state = "superseded"] ELSE upgradeTokens[u]
    BY <1>1, Zenon DEF SupersedeEarlier
  <2>3. \A r \in TokenRec : [r EXCEPT !.state = "superseded"] \in TokenRec
    BY DEF TokenRec
  <2>4. upgradeTokens' \in [UpgradeTokens -> TokenRec]
    <3>1. \A u \in UpgradeTokens : upgradeTokens'[u] \in TokenRec
      BY <2>2, <2>3, <1>t, ZenonT(60)
    <3>2. upgradeTokens' = [u \in UpgradeTokens |-> upgradeTokens'[u]]
      BY <1>1, Zenon DEF SupersedeEarlier
    <3>3. QED
      BY <3>1, <3>2, Zenon
  <2>5. QED
    BY <2>1, <2>2, <2>4, <1>t
<1>2. ASSUME NEW t \in UpgradeTokens, MintUpgradeToken(t)
      PROVE  /\ upgradeTokens' \in [UpgradeTokens -> TokenRec] /\ minting' \subseteq UpgradeTokens
             /\ \A u \in UpgradeTokens : upgradeTokens'[u] = upgradeTokens[u] \/ u \in minting
             /\ \A u \in minting' : upgradeTokens'[u].state = "none"
  <2>1. PICK r : r = [state |-> "live", expires |-> moment + UpgradeTokenTTL, window |-> Never]
    BY ZenonT(60)
  <2>2. r \in TokenRec
    BY <2>1, <1>t, UpgradeConstants DEF TokenRec
  <2>3. upgradeTokens' = [upgradeTokens EXCEPT ![t] = r] /\ minting' = minting \ {t} /\ t \in minting
    BY <1>2, <2>1, Zenon DEF MintUpgradeToken
  <2>4. QED
    BY <2>2, <2>3, <1>t, Zenon
<1>3. ASSUME NEW p \in presented, NEW h \in BOOLEAN, SpendUpgradeToken(p, h)
      PROVE  /\ upgradeTokens' \in [UpgradeTokens -> TokenRec] /\ minting' \subseteq UpgradeTokens
             /\ \A u \in UpgradeTokens : upgradeTokens'[u] = upgradeTokens[u] \/ upgradeTokens[u].state = "live"
             /\ \A u \in minting' : upgradeTokens'[u].state = "none"
  <2>1. PICK t \in UpgradeTokens : t = p.token
    BY <1>t
  <2>2. CASE upgradeTokens[t].state = "live"
    <3>1. PICK r : r = [upgradeTokens[t] EXCEPT !.state = "used", !.window = moment + UpgradeWindow]
      OBVIOUS
    <3>2. r \in TokenRec
      <4>1. PICK w \in Nat \cup {Never} : w = moment + UpgradeWindow
        BY <1>t, UpgradeConstants
      <4>2. upgradeTokens[t] \in TokenRec
        BY <1>t, <2>1, Zenon
      <4>3. r = [upgradeTokens[t] EXCEPT !.state = "used", !.window = w]
        BY <3>1, <4>1, Zenon
      <4>4. PICK W : W = Nat \cup {Never}
        BY ZenonT(60)
      <4>5. QED
        BY <4>1, <4>2, <4>3, <4>4, ZenonT(60) DEF TokenRec
    <3>a. upgradeTokens' = [upgradeTokens EXCEPT ![t].state = "used", ![t].window = moment + UpgradeWindow]
          /\ minting' = minting
      <4>1. upgradeTokens[p.token].state = "live"
        BY <2>1, <2>2, Zenon
      <4>2. upgradeTokens' = [upgradeTokens EXCEPT ![p.token].state = "used", ![p.token].window = moment + UpgradeWindow]
            /\ minting' = minting
        BY <1>3, <4>1 DEF SpendUpgradeToken
      <4>3. QED
        BY <4>2, <2>1
    <3>3. upgradeTokens' = [upgradeTokens EXCEPT ![t] = r] /\ minting' = minting
      BY <3>a, <2>1, <1>t, <3>1, ZenonT(60)
    <3>4. t \notin minting
      BY <2>2, <1>t
    <3>5. QED
      BY <2>1, <2>2, <3>2, <3>3, <3>4, <1>t, ZenonT(60)
  <2>3. CASE upgradeTokens[t].state # "live"
    BY <1>3, <2>1, <2>3, <1>t, Zenon DEF SpendUpgradeToken
  <2>4. QED
    BY <2>2, <2>3
<1>4. CASE UNCHANGED <<upgradeTokens, minting>>
  BY <1>4, <1>t, Zenon
<1>5. QED
  BY <1>1, <1>2, <1>3, <1>4, ZenonT(60)
  DEF UpgradeNext, hostVars, RunAgentUpgradeCommand, PresentToken, GiveUpPresenting, PullImages,
      RemoveOldContainers, StartHolder, StartAgent, LookupUpgradeToken, Beat, ObserveBuild,
      ObserveAgentVersion, MomentPasses, BirdcageRestarts

\* The variables of the detection keep their types.
LEMMA FlagTypes ==
  ASSUME UpgradeTypeOK, [UpgradeNext]_upgradeVars
  PROVE  /\ moment' \in Moments /\ running' \in Builds \cup {"none"}
         /\ presented' \subseteq [token : UpgradeTokens, read : BOOLEAN]
         /\ beats' \subseteq [build : Builds, sent : Moments]
         /\ judging' \subseteq [pair : Builds \X Builds, at : Moments]
         /\ seenBuild' \in [build : Builds \cup {""}, at : Moments]
         /\ {lastWrite', recordedAt', uncovered'} \subseteq When /\ cloned' \in BOOLEAN
<1> DEFINE Goal ==
         /\ moment' \in Moments /\ running' \in Builds \cup {"none"}
         /\ presented' \subseteq [token : UpgradeTokens, read : BOOLEAN]
         /\ beats' \subseteq [build : Builds, sent : Moments]
         /\ judging' \subseteq [pair : Builds \X Builds, at : Moments]
         /\ seenBuild' \in [build : Builds \cup {""}, at : Moments]
         /\ {lastWrite', recordedAt', uncovered'} \subseteq When /\ cloned' \in BOOLEAN
<1>t. /\ moment \in Moments /\ running \in Builds \cup {"none"}
      /\ presented \subseteq [token : UpgradeTokens, read : BOOLEAN]
      /\ beats \subseteq [build : Builds, sent : Moments]
      /\ judging \subseteq [pair : Builds \X Builds, at : Moments]
      /\ seenBuild \in [build : Builds \cup {""}, at : Moments]
      /\ {lastWrite, recordedAt, uncovered} \subseteq When /\ cloned \in BOOLEAN
      /\ 0 \in Moments
  <2>1. 0 \in Moments
    BY UpgradeConstants DEF Moments
  <2>2. QED
    BY <2>1, Zenon DEF UpgradeTypeOK
<1>1. CASE UNCHANGED <<moment, presented, running, beats, judging, seenBuild, lastWrite, recordedAt, uncovered, cloned>>
  BY <1>1, <1>t, Zenon
<1>2. ASSUME NEW t \in UpgradeTokens, NEW ok \in BOOLEAN, RemoveOldContainers(t, ok) \/ StartAgent(t, ok) PROVE Goal
  BY <1>2, <1>t, Zenon DEF RemoveOldContainers, StartAgent, flagVars, Builds
<1>3. ASSUME NEW t \in UpgradeTokens, PresentToken(t) PROVE Goal
  <2>1. [token |-> t, read |-> FALSE] \in [token : UpgradeTokens, read : BOOLEAN]
    OBVIOUS
  <2>2. QED
    BY <1>3, <2>1, <1>t, ZenonT(60) DEF PresentToken, flagVars
<1>4. ASSUME NEW p \in presented, NEW h \in BOOLEAN, LookupUpgradeToken(p, h) \/ SpendUpgradeToken(p, h) PROVE Goal
  <2>1. [p EXCEPT !.read = TRUE] \in [token : UpgradeTokens, read : BOOLEAN]
    BY <1>t, ZenonT(60)
  <2>2. QED
    BY <1>4, <2>1, <1>t, ZenonT(60) DEF LookupUpgradeToken, SpendUpgradeToken, flagVars
<1>5. CASE Beat
  <2>1. \A b \in Builds : [build |-> b, sent |-> moment] \in [build : Builds, sent : Moments]
    BY <1>t, ZenonT(60)
  <2>2. PICK b \in Builds : beats' = beats \cup {[build |-> b, sent |-> moment]}
    BY <1>5, Zenon DEF Beat
  <2>3. UNCHANGED <<moment, presented, running, flagVars>>
    BY <1>5, Zenon DEF Beat
  <2>4. QED
    BY <2>1, <2>2, <2>3, <1>t, ZenonT(60) DEF flagVars
<1>6. ASSUME NEW b \in beats, ObserveBuild(b) PROVE Goal
  <2>1. [build |-> b.build, at |-> moment] \in [build : Builds \cup {""}, at : Moments]
    BY <1>t, ZenonT(60)
  <2>2. /\ UNCHANGED <<moment, presented, running, lastWrite, recordedAt, uncovered, cloned>>
        /\ beats' = beats \ {b} /\ seenBuild' = [build |-> b.build, at |-> moment]
        /\ \/ judging' = judging
           \/ judging' = judging \cup {[pair |-> <<seenBuild.build, b.build>>, at |-> moment]} /\ seenBuild.build # ""
    <3>0. /\ UNCHANGED <<moment, presented, running, lastWrite, recordedAt, uncovered, cloned>>
          /\ beats' = beats \ {b} /\ seenBuild' = [build |-> b.build, at |-> moment]
      BY <1>6, ZenonT(60) DEF ObserveBuild
    <3>1. CASE seenBuild.build \notin {"", b.build} /\ moment - seenBuild.at <= DualUseWindow
      BY <1>6, <3>1, Zenon DEF ObserveBuild
    <3>2. CASE ~ (seenBuild.build \notin {"", b.build} /\ moment - seenBuild.at <= DualUseWindow)
      <4>1. judging' = judging
        BY <1>6, <3>2, ZenonT(60) DEF ObserveBuild
      <4>2. QED
        BY <3>0, <4>1, ZenonT(60)
    <3>3. QED
      BY <3>1, <3>2, ZenonT(60)
  <2>3. seenBuild.build # "" => [pair |-> <<seenBuild.build, b.build>>, at |-> moment] \in [pair : Builds \X Builds, at : Moments]
    BY <1>t, ZenonT(60)
  <2>4. QED
    BY <2>1, <2>2, <2>3, <1>t, ZenonT(60)
<1>7. ASSUME NEW j \in judging, ObserveAgentVersion(j) PROVE Goal
  <2>1. UNCHANGED <<moment, presented, running, beats, seenBuild, cloned>> /\ judging' = judging \ {j}
    BY <1>7, SMTT(60) DEF ObserveAgentVersion, hostVars
  <2>2. lastWrite' \in {lastWrite, moment} /\ recordedAt' \in {recordedAt, moment} /\ uncovered' \in {uncovered, moment}
    BY <1>7 DEF ObserveAgentVersion, Admit, RecordCredentialDualUse
  <2>3. {lastWrite', recordedAt', uncovered'} \subseteq When
    BY <2>2, <1>t, Zenon DEF When
  <2>4. QED
    BY <2>1, <2>3, <1>t, ZenonT(60)
<1>8. CASE MomentPasses
  <2>0. moment < LastMoment /\ moment' = moment + 1
    BY <1>8, Zenon DEF MomentPasses
  <2>1. moment' \in Moments
    <3>1. moment \in Moments
      BY <1>t, Zenon
    <3>2. QED
      BY <2>0, <3>1, UpgradeConstants, SMTT(60) DEF Moments
  <2>2. QED
    BY <1>8, <2>1, <1>t, ZenonT(60) DEF MomentPasses, flagVars
<1>9. CASE BirdcageRestarts
  <2>1. NotSeen \in [build : Builds \cup {""}, at : Moments]
    BY <1>t, ZenonT(60) DEF NotSeen
  <2>2. QED
    BY <1>9, <2>1, <1>t, ZenonT(60) DEF BirdcageRestarts, When
<1>10. QED
  BY <1>1, <1>2, <1>3, <1>4, <1>5, <1>6, <1>7, <1>8, <1>9, ZenonT(60)
  DEF UpgradeNext, upgradeVars, hostVars, flagVars, RunAgentUpgradeCommand, SupersedeEarlier,
      MintUpgradeToken, GiveUpPresenting, PullImages, StartHolder

\* The old build does not come back, and only a script removes it.
LEMMA RunningMoves ==
  ASSUME UpgradeTypeOK, UpgradeNext
  PROVE  /\ running' = "old" => running = "old"
         /\ running' # running =>
              \/ running = "none"
              \/ \E t \in UpgradeTokens : AtStep(t, "remove") /\ scripts' = NextStep(t)
  BY ZenonT(60)
  DEF UpgradeNext, hostVars, RunAgentUpgradeCommand, SupersedeEarlier, MintUpgradeToken, PresentToken,
      GiveUpPresenting, PullImages, RemoveOldContainers, StartHolder, StartAgent, LookupUpgradeToken,
      SpendUpgradeToken, Beat, ObserveBuild, ObserveAgentVersion, MomentPasses, BirdcageRestarts

\* The scripts stay in order.
LEMMA UpgradeInvNext == UpgradeInv /\ [UpgradeNext]_upgradeVars => UpgradeInv'
<1> SUFFICES ASSUME UpgradeInv, [UpgradeNext]_upgradeVars PROVE UpgradeInv'
  OBVIOUS
<1>1. CASE UNCHANGED upgradeVars
  BY <1>1, Zenon DEF upgradeVars, UpgradeInv, UpgradeTypeOK, When
<1>2. CASE UpgradeNext
  <2>i. /\ UpgradeTypeOK /\ scripts \in [UpgradeTokens -> ScriptRec]
        /\ \A t \in UpgradeTokens, u \in UpgradeTokens :
              scripts[t].at \in 2..Len(Steps) /\ scripts[u].at \in 2..Len(Steps) => t = u
        /\ \A t \in UpgradeTokens : scripts[t].at = Len(Steps) + 1 => running # "old"
    BY Zenon DEF UpgradeInv, UpgradeTypeOK, ScriptRec
  <2>1. scripts' \in [UpgradeTokens -> ScriptRec]
    BY <1>2, <2>i, ScriptMoves, Zenon DEF Moved
  <2>2. UpgradeTypeOK'
    BY <1>2, <2>1, <2>i, FlagTypes, TokenMoves, ZenonT(60) DEF UpgradeTypeOK, ScriptRec, TokenRec
  <2>3. \A t \in UpgradeTokens, u \in UpgradeTokens :
          scripts'[t].at \in 2..Len(Steps) /\ scripts'[u].at \in 2..Len(Steps) => t = u
    <3>1. CASE scripts' = scripts
      BY <3>1, <2>i, Zenon
    <3>2. ASSUME NEW m \in UpgradeTokens, Moved(m), NEW u \in UpgradeTokens, u # m,
                 scripts'[m].at \in 2..Len(Steps), scripts'[u].at \in 2..Len(Steps)
          PROVE  FALSE
      <4>1. scripts'[u] = scripts[u] /\ scripts[u].at \in 2..Len(Steps)
        BY <3>2, Zenon DEF Moved
      <4>2. /\ InProgress(m) /\ scripts'[m].at = scripts[m].at + 1
            /\ scripts[m].at = 1 => \A x \in UpgradeTokens : InProgress(x) => scripts[x].at = 1
        <5>1. scripts'[m].at \notin {0, 1}
          BY <3>2, StepOrder, SMTT(60)
        <5>2. QED
          BY <3>2, <5>1, ZenonT(60) DEF Moved
      <4>a. InProgress(u) /\ scripts[u].at # 1
        BY <4>1, StepOrder DEF InProgress
      <4>3. scripts[m].at # 1
        BY <4>a, <4>2, ZenonT(60)
      <4>4. scripts[m].at \in 2..Len(Steps)
        BY <4>2, <4>3, StepOrder DEF InProgress
      <4>5. QED
        BY <4>1, <4>4, <3>2, <2>i, ZenonT(60)
    <3>3. ASSUME NEW m \in UpgradeTokens, Moved(m), NEW t \in UpgradeTokens, NEW u \in UpgradeTokens,
                 scripts'[t].at \in 2..Len(Steps), scripts'[u].at \in 2..Len(Steps)
          PROVE  t = u
      <4>1. CASE t # m /\ u # m
        BY <4>1, <3>3, <2>i, Zenon DEF Moved
      <4>2. QED
        BY <4>1, <3>2, <3>3, Zenon
    <3>4. QED
      BY <1>2, <2>i, <3>1, <3>3, ScriptMoves, ZenonT(60)
  <2>4. ASSUME NEW t \in UpgradeTokens, scripts'[t].at = Len(Steps) + 1 PROVE running' # "old"
    <3>1. CASE scripts'[t] = scripts[t]
      BY <3>1, <2>4, <2>i, <1>2, RunningMoves, ZenonT(60)
    <3>2. ASSUME Moved(t) PROVE running' # "old"
      BY <3>2, <2>4, StepOrder, <2>i, SMTT(60) DEF Moved, InProgress
    <3>3. QED
      BY <1>2, <2>i, <3>1, <3>2, ScriptMoves, ZenonT(60) DEF Moved
  <2>5. QED
    BY <1>2, <2>2, <2>3, <2>4, TokenMoves, Zenon DEF UpgradeInv
<1>3. QED
  BY <1>1, <1>2

\* Times are natural numbers.
LEMMA TimesNat ==
  ASSUME UpgradeTypeOK
  PROVE  /\ moment \in Nat /\ seenBuild.at \in Nat /\ seenBuild.build \in Builds \cup {""}
         /\ \A b \in beats : b.sent \in Nat /\ b.build \in Builds
         /\ \A j \in judging : j.at \in Nat
<1>1. Moments \subseteq Nat
  BY DEF Moments
<1>2. PICK M : M = Moments
  OBVIOUS
<1>3. /\ moment \in M /\ beats \subseteq [build : Builds, sent : M]
      /\ judging \subseteq [pair : Builds \X Builds, at : M]
      /\ seenBuild \in [build : Builds \cup {""}, at : M]
  BY <1>2, Zenon DEF UpgradeTypeOK
<1>4. /\ moment \in M /\ seenBuild.at \in M /\ seenBuild.build \in Builds \cup {""}
      /\ \A b \in beats : b.sent \in M /\ b.build \in Builds
      /\ \A j \in judging : j.at \in M
  BY <1>3, ZenonT(60)
<1>5. QED
  BY <1>1, <1>2, <1>4, Zenon

\* What ObserveBuild adds to the pairs being judged: the build seen before
\* and this one, if it was seen within the window.
LEMMA ObserveEffect ==
  ASSUME NEW b \in beats, ObserveBuild(b)
  PROVE  /\ UNCHANGED <<moment, upgradeTokens, scripts, running, cloned>>
         /\ beats' = beats \ {b} /\ seenBuild'.build = b.build /\ seenBuild'.at = moment
         /\ \A j \in judging' : j \notin judging =>
              /\ j.at = moment /\ moment - seenBuild.at <= DualUseWindow
              /\ j.pair[1] = seenBuild.build /\ j.pair[2] = b.build
              /\ seenBuild.build # "" /\ seenBuild.build # b.build
<1>0. /\ UNCHANGED <<moment, upgradeTokens, scripts, running, cloned>>
      /\ beats' = beats \ {b} /\ seenBuild' = [build |-> b.build, at |-> moment]
  BY ZenonT(60) DEF ObserveBuild
<1>1. ASSUME NEW j \in judging', j \notin judging
      PROVE  /\ j = [pair |-> <<seenBuild.build, b.build>>, at |-> moment]
             /\ moment - seenBuild.at <= DualUseWindow
             /\ seenBuild.build \notin {"", b.build}
  <2>1. CASE seenBuild.build \notin {"", b.build} /\ moment - seenBuild.at <= DualUseWindow
    BY <1>1, <2>1, ZenonT(60) DEF ObserveBuild
  <2>2. CASE ~ (seenBuild.build \notin {"", b.build} /\ moment - seenBuild.at <= DualUseWindow)
    BY <1>1, <2>2, ZenonT(60) DEF ObserveBuild
  <2>3. QED
    BY <2>1, <2>2, ZenonT(60)
<1>2. ASSUME NEW j \in judging', j \notin judging
      PROVE  j.at = moment /\ j.pair[1] = seenBuild.build /\ j.pair[2] = b.build
  <2>1. PICK a, c : a = seenBuild.build /\ c = b.build
    OBVIOUS
  <2>2. j = [pair |-> <<a, c>>, at |-> moment]
    BY <1>1, <1>2, <2>1, ZenonT(60)
  <2>3. j.at = moment /\ j.pair[1] = a /\ j.pair[2] = c
    BY <2>2
  <2>4. QED
    BY <2>1, <2>3
<1>3. seenBuild'.build = b.build /\ seenBuild'.at = moment
  BY <1>0, SMTT(60)
<1>4. QED
  BY <1>0, <1>1, <1>2, <1>3, ZenonT(60)

\* Times stay in order.
LEMMA TimesNext ==
  ASSUME UpgradeTypeOK, TimesInv, [UpgradeNext]_upgradeVars
  PROVE  TimesInv'
<1>t. /\ moment \in Nat /\ seenBuild.at \in Nat
      /\ \A b \in beats : b.sent \in Nat /\ b.sent <= moment /\ moment <= b.sent + 1
      /\ \A j \in judging : j.at \in Nat /\ j.at <= moment /\ j.pair[1] # j.pair[2]
      /\ seenBuild.at <= moment
  BY TimesNat, Zenon DEF TimesInv
<1>1. CASE UNCHANGED <<moment, beats, judging, seenBuild>>
  BY <1>1, Zenon DEF TimesInv
<1>2. CASE Beat
  <2>1. PICK d \in Builds : beats' = beats \cup {[build |-> d, sent |-> moment]}
    BY <1>2, ZenonT(60) DEF Beat
  <2>2. moment' = moment /\ judging' = judging /\ seenBuild' = seenBuild
    BY <1>2 DEF Beat, flagVars
  <2>3. \A b \in beats' : b \in beats \/ b.sent = moment
    BY <2>1, SMTT(60)
  <2>4. \A b \in beats' : b.sent <= moment /\ moment <= b.sent + 1
    BY <2>3, <1>t
  <2>5. QED
    BY <2>2, <2>4, <1>t, ZenonT(60) DEF TimesInv
<1>3. ASSUME NEW b \in beats, ObserveBuild(b) PROVE TimesInv'
  <2>1. /\ moment' = moment /\ beats' = beats \ {b} /\ seenBuild'.at = moment
        /\ \A j \in judging' : j \notin judging =>
              /\ j.at = moment /\ j.pair[1] = seenBuild.build /\ j.pair[2] = b.build
              /\ seenBuild.build # b.build
    BY <1>3, ObserveEffect, ZenonT(60)
  <2>2. \A j \in judging' : j.at <= moment /\ j.pair[1] # j.pair[2]
    BY <2>1, <1>t, SMTT(60)
  <2>3. seenBuild'.at <= moment
    BY <2>1, <1>t
  <2>4. QED
    BY <2>1, <2>2, <2>3, <1>t, ZenonT(60) DEF TimesInv
<1>4. ASSUME NEW j \in judging, ObserveAgentVersion(j) PROVE TimesInv'
  <2>1. moment' = moment /\ beats' = beats /\ seenBuild' = seenBuild /\ judging' = judging \ {j}
    BY <1>4 DEF ObserveAgentVersion, hostVars
  <2>2. QED
    BY <2>1, ZenonT(60) DEF TimesInv
<1>5. CASE MomentPasses
  <2>1. /\ judging' = {} /\ moment' = moment + 1 /\ beats' = {b \in beats : b.sent = moment}
        /\ seenBuild' = seenBuild
    <3>1. /\ judging = {} /\ moment' = moment + 1 /\ beats' = {b \in beats : b.sent = moment}
          /\ UNCHANGED flagVars
      BY <1>5, Zenon DEF MomentPasses
    <3>2. judging' = judging /\ seenBuild' = seenBuild
      BY <3>1, SMTT(60) DEF flagVars
    <3>3. QED
      BY <3>1, <3>2
  <2>2. seenBuild.at <= moment + 1 /\ \A b \in beats' : b.sent <= moment + 1 /\ moment + 1 <= b.sent + 1
    BY <2>1, <1>t, SMTT(60)
  <2>3. QED
    BY <2>1, <2>2, ZenonT(60) DEF TimesInv
<1>6. CASE BirdcageRestarts
  <2>1. seenBuild' = NotSeen /\ judging' = {} /\ moment' = moment /\ beats' = beats
    BY <1>6, SMTT(60) DEF BirdcageRestarts
  <2>2. seenBuild'.at <= moment
    <3>1. NotSeen.at = 0
      BY DEF NotSeen
    <3>2. seenBuild'.at = 0
      BY <2>1, <3>1, Zenon
    <3>3. QED
      BY <3>2, <1>t, SMTT(60)
  <2>3. QED
    BY <2>1, <2>2, <1>t, ZenonT(60) DEF TimesInv
<1>7. QED
  BY <1>1, <1>2, <1>3, <1>4, <1>5, <1>6, ZenonT(60)
  DEF UpgradeNext, upgradeVars, hostVars, flagVars, RunAgentUpgradeCommand, SupersedeEarlier,
      MintUpgradeToken, PresentToken, GiveUpPresenting, PullImages, RemoveOldContainers, StartHolder,
      StartAgent, LookupUpgradeToken, SpendUpgradeToken

\* SpendUpgradeToken opens a window that starts now.
LEMMA SpendEffect ==
  ASSUME UpgradeTypeOK, NEW p \in presented, NEW h \in BOOLEAN, SpendUpgradeToken(p, h),
         upgradeTokens[p.token].state = "live"
  PROVE  /\ upgradeTokens'[p.token].state = "used"
         /\ upgradeTokens'[p.token].window = moment + UpgradeWindow
         /\ UNCHANGED <<moment, running, beats, judging, seenBuild, cloned>>
<1>1. PICK t \in UpgradeTokens : t = p.token
  BY ZenonT(60) DEF UpgradeTypeOK
<1>2. upgradeTokens' = [upgradeTokens EXCEPT ![p.token].state = "used", ![p.token].window = moment + UpgradeWindow]
  BY DEF SpendUpgradeToken
<1>3. upgradeTokens' = [upgradeTokens EXCEPT ![t].state = "used", ![t].window = moment + UpgradeWindow]
  BY <1>1, <1>2
<1>4. upgradeTokens \in [UpgradeTokens -> TokenRec]
  BY Zenon DEF UpgradeTypeOK, TokenRec
<1>5. upgradeTokens'[t].state = "used" /\ upgradeTokens'[t].window = moment + UpgradeWindow
  BY <1>1, <1>3, <1>4, SMTT(60) DEF TokenRec
<1>6. UNCHANGED <<moment, running, beats, judging, seenBuild, cloned>>
  BY DEF SpendUpgradeToken, flagVars
<1>7. QED
  BY <1>1, <1>5, <1>6, ZenonT(60)

\* A script is done with an accepted presentation only if it was so already,
\* or this step spends its token.
LEMMA DoneBefore ==
  ASSUME UpgradeInv, UpgradeNext, NEW t \in UpgradeTokens, Done(t)'
  PROVE  Done(t) \/ Won(t)
<1>i. /\ UpgradeTypeOK /\ scripts \in [UpgradeTokens -> ScriptRec]
      /\ \A u \in UpgradeTokens, v \in UpgradeTokens :
            scripts[u].at \in 2..Len(Steps) /\ scripts[v].at \in 2..Len(Steps) => u = v
      /\ \A u \in UpgradeTokens : scripts[u].at = Len(Steps) + 1 => running # "old"
  BY Zenon DEF UpgradeInv, UpgradeTypeOK, ScriptRec
<1>d. /\ scripts'[t].told = "accepted" /\ scripts'[t].at \in {Len(Steps), Len(Steps) + 1}
      /\ running' # "old"
  BY Zenon DEF Done
<1>1. ASSUME scripts'[t] = scripts[t] PROVE Done(t)
  <2>1. scripts[t].told = "accepted" /\ scripts[t].at \in {Len(Steps), Len(Steps) + 1}
    BY <1>1, <1>d, Zenon
  <2>2. ASSUME running = "old" PROVE FALSE
    <3>1. scripts[t].at = Len(Steps)
      BY <2>1, <2>2, <1>i, ZenonT(60)
    <3>2. PICK u \in UpgradeTokens : AtStep(u, "remove") /\ scripts' = NextStep(u)
      BY <2>2, <1>d, <1>i, RunningMoves, ZenonT(60)
    <3>3. scripts[u].at \in 2..Len(Steps) /\ scripts[u].at # Len(Steps)
      BY <3>2, StepOrder, SMTT(60) DEF AtStep, InProgress
    <3>4. scripts[t].at \in 2..Len(Steps)
      BY <3>1, StepOrder, SMTT(60)
    <3>5. QED
      BY <3>1, <3>3, <3>4, <1>i, ZenonT(60)
  <2>3. QED
    BY <2>1, <2>2, Zenon DEF Done
<1>2. ASSUME scripts'[t] # scripts[t], ~ Won(t) PROVE Done(t)
  <2>1. Moved(t)
    BY <1>2, <1>i, ScriptMoves, Zenon DEF Moved
  <2>2. /\ InProgress(t) /\ scripts'[t].at = scripts[t].at + 1
        /\ scripts[t].at = Len(Steps) => running = "none" /\ scripts'[t].told = scripts[t].told
        /\ scripts[t].at + 1 = Len(Steps) => scripts'[t].told = "refused"
    <3>1. scripts'[t].at \notin {0, 1}
      BY <1>d, StepOrder
    <3>2. QED
      BY <1>2, <2>1, <3>1, ZenonT(60) DEF Moved
  <2>3. CASE scripts[t].at = Len(Steps)
    BY <2>2, <2>3, <1>d, ZenonT(60) DEF Done
  <2>4. CASE scripts[t].at # Len(Steps)
    <3>1. scripts[t].at + 1 = Len(Steps)
      BY <2>2, <2>4, <1>d, StepOrder, SMTT(60) DEF InProgress
    <3>2. QED
      BY <2>2, <3>1, <1>d, SMTT(60)
  <2>5. QED
    BY <2>3, <2>4, SMTT(60)
<1>3. QED
  BY <1>1, <1>2, Zenon

\* The steps that touch the detection's state; none makes a copy of
\* the credential.
LEMMA FlagSteps ==
  ASSUME UpgradeNext
  PROVE  /\ cloned' = cloned
         /\ \/ UNCHANGED <<beats, judging, seenBuild>>
            \/ Beat
            \/ \E b \in beats : ObserveBuild(b)
            \/ \E j \in judging : ObserveAgentVersion(j)
            \/ MomentPasses
            \/ BirdcageRestarts
<1>1. cloned' = cloned
  BY ZenonT(60)
  DEF UpgradeNext, hostVars, flagVars, RunAgentUpgradeCommand, SupersedeEarlier, MintUpgradeToken, PresentToken,
      GiveUpPresenting, PullImages, RemoveOldContainers, StartHolder, StartAgent, LookupUpgradeToken,
      SpendUpgradeToken, Beat, ObserveBuild, ObserveAgentVersion, MomentPasses, BirdcageRestarts
<1>2. QED
  BY <1>1, ZenonT(60)
  DEF UpgradeNext, hostVars, flagVars, RunAgentUpgradeCommand, SupersedeEarlier, MintUpgradeToken, PresentToken,
      GiveUpPresenting, PullImages, RemoveOldContainers, StartHolder, StartAgent, LookupUpgradeToken,
      SpendUpgradeToken

\* Once a script is done the bounds of its window hold on: no heartbeat of
\* the old build is sent any more, and every pair that one of the last of
\* them leads to falls within the window.
LEMMA AccKept ==
  ASSUME UpgradeInv, TimesInv, UpgradeNext, NEW t \in UpgradeTokens, Done(t), ~ cloned, AccBounds(t)
  PROVE  AccBounds(t)'
<1> USE UpgradeConstants
<1>t. UpgradeTypeOK
  BY DEF UpgradeInv
<1>n. /\ moment \in Nat /\ seenBuild.at \in Nat /\ seenBuild.build \in Builds \cup {""}
      /\ \A b \in beats : b.sent \in Nat /\ b.build \in Builds /\ b.sent <= moment /\ moment <= b.sent + 1
      /\ \A j \in judging : j.at \in Nat
  BY <1>t, TimesNat, ZenonT(60) DEF TimesInv
<1>1. upgradeTokens'[t] = upgradeTokens[t]
  <2>1. t \notin minting
    BY Zenon DEF UpgradeInv, AccBounds
  <2>2. QED
    BY <2>1, TokenMoves DEF AccBounds
<1>2. PICK w : w = upgradeTokens[t].window
  OBVIOUS
<1>a. /\ w \in Nat
      /\ \A b \in beats : b.build = "old" => b.sent + UpgradeWindow <= w
      /\ seenBuild.build = "old" => seenBuild.at + UpgradeWindow <= w + 1
      /\ \A j \in judging : j.at + UpgradeWindow <= w + 1 + DualUseWindow
  BY <1>2, Zenon DEF AccBounds
<1>w. w \in Nat /\ moment \in Nat /\ UpgradeWindow \in Nat /\ DualUseWindow \in Nat
  BY <1>a, <1>n, Zenon
<1>s. SUFFICES /\ \A b \in beats' : b.build = "old" => b.sent + UpgradeWindow <= w
               /\ seenBuild'.build = "old" => seenBuild'.at + UpgradeWindow <= w + 1
               /\ \A j \in judging' : j.at + UpgradeWindow <= w + 1 + DualUseWindow
  BY <1>1, <1>2, Zenon DEF AccBounds
<1>3. CASE UNCHANGED <<beats, judging, seenBuild>>
  BY <1>3, <1>a, Zenon
<1>4. CASE Beat
  <2>1. PICK d \in Builds : d = running /\ beats' = beats \cup {[build |-> d, sent |-> moment]}
    BY <1>4, ZenonT(60) DEF Beat
  <2>2. judging' = judging /\ seenBuild' = seenBuild
    BY <1>4 DEF Beat, flagVars
  <2>3. d # "old"
    BY <2>1, ZenonT(60) DEF Done
  <2>4. \A b \in beats' : b \in beats \/ b.build # "old"
    BY <2>1, <2>3
  <2>5. QED
    BY <2>2, <2>4, <1>a, ZenonT(60)
<1>5. ASSUME NEW b \in beats, ObserveBuild(b)
      PROVE  /\ \A c \in beats' : c.build = "old" => c.sent + UpgradeWindow <= w
             /\ seenBuild'.build = "old" => seenBuild'.at + UpgradeWindow <= w + 1
             /\ \A j \in judging' : j.at + UpgradeWindow <= w + 1 + DualUseWindow
  <2>1. /\ beats' = beats \ {b} /\ seenBuild'.build = b.build /\ seenBuild'.at = moment
        /\ \A j \in judging' : j \notin judging =>
              /\ j.at = moment /\ moment - seenBuild.at <= DualUseWindow
              /\ seenBuild.build # "" /\ seenBuild.build # b.build
    BY <1>5, ObserveEffect, ZenonT(60)
  <2>2. seenBuild'.build = "old" => seenBuild'.at + UpgradeWindow <= w + 1
    <3>1. b.build = "old" => moment + UpgradeWindow <= w + 1
      <4>1. b.sent \in Nat /\ moment <= b.sent + 1 /\ (b.build = "old" => b.sent + UpgradeWindow <= w)
        BY <1>5, <1>a, <1>n, ZenonT(60)
      <4>2. QED
        BY <4>1, <1>w, SMTT(60)
    <3>2. QED
      BY <2>1, <3>1, ZenonT(60)
  <2>3. ASSUME NEW j \in judging', j \notin judging PROVE j.at + UpgradeWindow <= w + 1 + DualUseWindow
    <3>1. j.at = moment /\ moment - seenBuild.at <= DualUseWindow /\ (b.build = "old" \/ seenBuild.build = "old")
      BY <2>1, <2>3, <1>n, ZenonT(60) DEF Builds
    <3>2. CASE b.build = "old"
      <4>1. b.sent \in Nat /\ moment <= b.sent + 1 /\ b.sent + UpgradeWindow <= w
        BY <1>5, <3>2, <1>a, <1>n, ZenonT(60)
      <4>2. moment + UpgradeWindow <= w + 1 + DualUseWindow
        BY <4>1, <1>w, SMTT(60)
      <4>3. QED
        BY <3>1, <4>2, Zenon
    <3>3. CASE seenBuild.build = "old"
      BY <3>1, <3>3, <1>a, <1>n, TimesInv, SMTT(60) DEF TimesInv
    <3>4. QED
      BY <3>1, <3>2, <3>3, SMTT(60)
  <2>4. QED
    BY <2>1, <2>2, <2>3, <1>a, ZenonT(60)
<1>6. ASSUME NEW j \in judging, ObserveAgentVersion(j)
      PROVE  beats' = beats /\ seenBuild' = seenBuild /\ judging' \subseteq judging
  BY <1>6, Zenon DEF ObserveAgentVersion, hostVars
<1>7. CASE MomentPasses
  <2>1. beats' \subseteq beats /\ judging' = judging /\ seenBuild' = seenBuild
    BY <1>7, Zenon DEF MomentPasses, flagVars
  <2>2. QED
    BY <2>1, <1>a, ZenonT(60)
<1>8. CASE BirdcageRestarts
  <2>1. seenBuild' = NotSeen /\ judging' = {} /\ beats' = beats
    BY <1>8, SMTT(60) DEF BirdcageRestarts
  <2>2. NotSeen.build # "old"
    BY DEF NotSeen
  <2>3. QED
    BY <2>1, <2>2, <1>a, ZenonT(60)
<1>9. ASSUME NEW j \in judging, ObserveAgentVersion(j)
      PROVE  /\ \A b \in beats' : b.build = "old" => b.sent + UpgradeWindow <= w
             /\ seenBuild'.build = "old" => seenBuild'.at + UpgradeWindow <= w + 1
             /\ \A k \in judging' : k.at + UpgradeWindow <= w + 1 + DualUseWindow
  BY <1>6, <1>9, <1>a, ZenonT(60)
<1>10. QED
  BY <1>3, <1>4, <1>5, <1>7, <1>8, <1>9, FlagSteps, Zenon

\* A presentation that is accepted in this step satisfies the bounds: the
\* old build's last heartbeats were sent before it.
LEMMA AccNext ==
  ASSUME UpgradeInv, TimesInv, AccInv, [UpgradeNext]_upgradeVars
  PROVE  AccInv'
<1>1. CASE UNCHANGED upgradeVars
  BY <1>1, Zenon DEF upgradeVars, AccInv, Done, AccBounds
<1>2. ASSUME UpgradeNext, ~ cloned', NEW t \in UpgradeTokens, Done(t)' PROVE AccBounds(t)'
  <2>0. ~ cloned
    BY <1>2, FlagSteps
  <2>1. CASE Done(t)
    BY <1>2, <2>0, <2>1, AccKept, ZenonT(60) DEF AccInv
  <2>2. CASE Won(t)
    <3>t. UpgradeTypeOK
      BY DEF UpgradeInv
    <3>1. PICK p \in presented, h \in BOOLEAN :
             SpendUpgradeToken(p, h) /\ p.token = t /\ upgradeTokens[t].state = "live"
      BY <2>2, ZenonT(60) DEF Won
    <3>2. /\ upgradeTokens'[t].state = "used" /\ upgradeTokens'[t].window = moment + UpgradeWindow
          /\ moment' = moment /\ beats' = beats /\ judging' = judging /\ seenBuild' = seenBuild
      BY <3>t, <3>1, SpendEffect, SMTT(60)
    <3>3. PICK w : w = moment + UpgradeWindow
      BY SMTT(60)
    <3>4. /\ w \in Nat
          /\ \A b \in beats : b.build = "old" => b.sent + UpgradeWindow <= w
          /\ seenBuild.build = "old" => seenBuild.at + UpgradeWindow <= w + 1
          /\ \A j \in judging : j.at + UpgradeWindow <= w + 1 + DualUseWindow
      <4>1. /\ moment \in Nat /\ seenBuild.at \in Nat /\ seenBuild.at <= moment
            /\ \A b \in beats : b.sent \in Nat /\ b.sent <= moment
            /\ \A j \in judging : j.at \in Nat /\ j.at <= moment
        BY <3>t, TimesNat, Zenon DEF TimesInv
      <4>2. QED
        BY <4>1, <3>3, UpgradeConstants, SMTT(60)
    <3>5. QED
      BY <3>2, <3>3, <3>4, ZenonT(60) DEF AccBounds
  <2>3. QED
    BY <1>2, <2>1, <2>2, DoneBefore, SMTT(60)
<1>3. QED
  BY <1>1, <1>2, Zenon DEF AccInv

\* The inductive invariant of the upgrade.
UpgradeAll == UpgradeInv /\ ShownInv /\ TimesInv /\ AccInv

\* It holds in every reachable state.
LEMMA UpgradeAllInvariant == UpgradeSpec => []UpgradeAll
<1>1. UpgradeInit => UpgradeAll
  <2> SUFFICES ASSUME UpgradeInit PROVE UpgradeAll
    OBVIOUS
  <2>1. TimesInv
    <3>1. beats = {} /\ judging = {} /\ moment = 0 /\ seenBuild.at = 0
      BY ZenonT(60) DEF UpgradeInit, NotSeen
    <3>2. seenBuild.at <= moment
      BY <3>1
    <3>3. QED
      BY <3>1, <3>2, ZenonT(60) DEF TimesInv
  <2>2. AccInv
    <3>1. \A t \in UpgradeTokens : scripts[t].told # "accepted"
      BY ZenonT(60) DEF UpgradeInit
    <3>2. QED
      BY <3>1, ZenonT(60) DEF AccInv, Done
  <2>3. QED
    BY <2>1, <2>2, UpgradeInitInv, SMTT(60) DEF UpgradeAll
<1>2. UpgradeAll /\ [UpgradeNext]_upgradeVars => UpgradeAll'
  BY UpgradeInvNext, ShownNext, TimesNext, AccNext, Zenon DEF UpgradeAll, UpgradeInv
<1>3. QED
  BY <1>1, <1>2, PTL DEF UpgradeSpec

\* While dual uses keep being seen the agent keeps showing the conflict,
\* however many observeAgentVersion's coalescer folded away and over restarts
\* that forget them: for any number of tokens and any coalescing interval that
\* is no longer than the window the health state reads.
THEOREM DualUseShown == UpgradeSpec => []DualUseStaysShown
<1>1. UpgradeAll => DualUseStaysShown
  BY Zenon DEF UpgradeAll, ShownInv
<1>2. QED
  BY <1>1, UpgradeAllInvariant, PTL

\* Every variable keeps its type, for any number of tokens and any bounds.
THEOREM UpgradeTyped == UpgradeSpec => []UpgradeTypeOK
<1>1. UpgradeAll => UpgradeTypeOK
  BY Zenon DEF UpgradeAll, UpgradeInv
<1>2. QED
  BY <1>1, UpgradeAllInvariant, PTL

\* An upgrade whose presentation was accepted is never taken for two
\* holders of one credential, with no copy of it about: spendUpgradeToken's window
\* covers every pair of builds that a heartbeat in flight can still make,
\* for every upgrade window longer than the detection window and the flight
\* time, whichever order heartbeats, presentations and restarts take.
THEOREM UpgradesNotFlagged == UpgradeSpec => UpgradeNotFlagged
<1>1. ASSUME UpgradeAll, [UpgradeNext]_upgradeVars, recordedAt' # recordedAt, ~ cloned,
             NEW t \in UpgradeTokens, scripts[t] = [at |-> Len(Steps) + 1, told |-> "accepted"]
      PROVE  FALSE
  <2>1. UpgradeInv /\ TimesInv /\ AccInv /\ UpgradeTypeOK
    BY <1>1, SMTT(60) DEF UpgradeAll, UpgradeInv
  <2>2. PICK j \in judging : ObserveAgentVersion(j)
    BY <1>1, ZenonT(60)
    DEF UpgradeNext, upgradeVars, hostVars, flagVars, RunAgentUpgradeCommand, SupersedeEarlier, MintUpgradeToken,
        PresentToken, GiveUpPresenting, PullImages, RemoveOldContainers, StartHolder, StartAgent,
        LookupUpgradeToken, SpendUpgradeToken, Beat, ObserveBuild, MomentPasses, BirdcageRestarts
  <2>3. scripts[t].at = Len(Steps) + 1 /\ scripts[t].told = "accepted"
    BY <1>1
  <2>4. AccBounds(t)
    BY <1>1, <2>1, <2>3, ZenonT(60) DEF UpgradeInv, AccInv, Done
  <2>a. PICK w : w = upgradeTokens[t].window
    OBVIOUS
  <2>b. w \in Nat /\ j.at \in Nat /\ j.at + UpgradeWindow <= w + 1 + DualUseWindow
    BY <2>1, <2>2, <2>4, <2>a, TimesNat, ZenonT(60) DEF AccBounds
  <2>c. j.at < w
    BY <2>b, UpgradeConstants
  <2>5. j.at < upgradeTokens[t].window /\ upgradeTokens[t].state = "used" /\ j.pair[1] # j.pair[2]
    BY <2>1, <2>2, <2>4, <2>a, <2>c, ZenonT(60) DEF AccBounds, TimesInv
  <2>6. UpgradeWindowCovers(j.pair, j.at)
    BY <2>5, Zenon DEF UpgradeWindowCovers
  <2>7. QED
    BY <1>1, <2>2, <2>6, ZenonT(60) DEF ObserveAgentVersion
<1>2. UpgradeAll /\ [UpgradeNext]_upgradeVars =>
        ((recordedAt' # recordedAt /\ ~ cloned) =>
           \A t \in UpgradeTokens : scripts[t] # [at |-> Len(Steps) + 1, told |-> "accepted"])
  BY <1>1, ZenonT(60)
<1>3. QED
  BY <1>2, UpgradeAllInvariant, PTL DEF UpgradeSpec, UpgradeNotFlagged
=============================================================================
