----------------------------- MODULE RunsProofs -----------------------------
(***************************************************************************)
(* Proofs about the two kinds of run that birdcage asks of its agents: the *)
(* self-test and the scan, for any number of runs and of heartbeats that   *)
(* overtake each other.                                                    *)
(***************************************************************************)
EXTENDS SelfTest, ScanRuns, TLAPS

-----------------------------------------------------------------------------
(* The self-test.                                                          *)

\* A row of self_test_runs, a batch handler, and where a handler works on a
\* marker.
Run == [issued : Int, verdict : {"none", "open", "passed", "failed"}]
Hand == [pc : {"idle", "target", "run", "settle", "claim"}, ev : Events \cup {None},
         claim : Markers \cup {None}, marker : Markers \cup {None}]
MintedMarkers == Minted \X Services

\* The tables and the handlers are well typed, and a handler at work holds an
\* event and a marker of a minted run.
SelfTestTyped ==
    /\ clock \in Int
    /\ runs \in [Runs -> Run]
    /\ handler \in [Handlers -> Hand]
    /\ \A h \in Handlers : handler[h].pc # "idle" =>
          handler[h].ev \in Events /\ handler[h].marker \in MintedMarkers
    /\ \A h \in Handlers : handler[h].claim \in MintedMarkers \cup {None}
    /\ index = [m \in DOMAIN index |-> index[m]]
    /\ DOMAIN index \subseteq MintedMarkers
    /\ \A m \in DOMAIN index : index[m] \in Events \cup {None}

\* A handler that is about to register the canary has seen every target of
\* its run matched.
SettleEarned ==
    \A h \in Handlers : handler[h].pc = "settle" => AllMatched(handler[h].marker[1])

\* Only markers of minted runs were claimed, and none before the index was
\* loaded; nor is a handler at work then.
ClaimsKnown ==
    /\ taken \in [Markers -> SUBSET Events]
    /\ \A m \in Markers : taken[m] # {} => m \in MintedMarkers
    /\ ~ loaded => /\ \A m \in Markers : taken[m] = {}
                   /\ \A h \in Handlers : handler[h].pc = "idle"

\* Together with the two invariants they are inductive.
SelfTestInv == SelfTestTyped /\ SettleEarned /\ ProofsAreEarned /\ ClaimsKnown /\ OneEventPerClaim

\* What a step does to the table of runs: rows stay rows, a minted run stays
\* minted, a verdict stays, and a new pass has all its targets matched.
LEMMA RunsStep ==
    ASSUME SelfTestTyped, [SelfTestNext]_selfTestVars
    PROVE  /\ runs' \in [Runs -> Run] /\ clock' \in Int
           /\ Minted \subseteq Minted'
           /\ \A r \in Runs : runs[r].verdict \in {"passed", "failed"} => runs'[r].verdict = runs[r].verdict
           /\ \A r \in Runs : runs'[r].verdict = "passed" => runs[r].verdict = "passed" \/ AllMatched(r)
<1> DEFINE Good ==
           /\ runs' \in [Runs -> Run]
           /\ \A r \in Runs : runs[r].verdict # "none" => runs'[r].verdict # "none"
           /\ \A r \in Runs : runs[r].verdict \in {"passed", "failed"} => runs'[r].verdict = runs[r].verdict
           /\ \A r \in Runs : runs'[r].verdict = "passed" => runs[r].verdict = "passed" \/ AllMatched(r)
<1>1. ASSUME NEW r \in Runs, NEW v \in {"open", "passed", "failed"}
      PROVE  /\ [runs[r] EXCEPT !.verdict = v] \in Run /\ [runs[r] EXCEPT !.verdict = v].verdict = v
             /\ [issued |-> clock, verdict |-> v] \in Run /\ [issued |-> clock, verdict |-> v].verdict = v
  BY DEF SelfTestTyped, Run
<1>2. ASSUME SweepExpiredSelfTestRuns PROVE Good
  <2>1. \A r \in Runs : runs'[r] = IF runs[r].verdict = "open" /\ Deadline(r) <= clock
                                   THEN [runs[r] EXCEPT !.verdict = "failed"] ELSE runs[r]
    BY <1>2 DEF SweepExpiredSelfTestRuns
  <2>2. \A r \in Runs : runs'[r] \in Run
    BY <2>1, <1>1, ZenonT(60) DEF SelfTestTyped
  <2>3. runs' = [r \in Runs |-> runs'[r]]
    BY <1>2 DEF SweepExpiredSelfTestRuns
  <2>4. \A r \in Runs : runs'[r].verdict = runs[r].verdict
                        \/ (runs[r].verdict = "open" /\ runs'[r].verdict = "failed")
    BY <2>1, <1>1, ZenonT(60)
  <2> QED BY <2>2, <2>3, <2>4
<1>3. ASSUME NEW x \in {"tick", "hook"}, MintSelfTestCommand(x)
      PROVE  Good
  <2>1. PICK r \in Runs \ Minted : runs' = [runs EXCEPT ![r] = [issued |-> clock, verdict |-> "open"]]
    BY <1>3, Zenon DEF MintSelfTestCommand
  <2>2. runs[r].verdict = "none"
    BY <2>1 DEF Minted
  <2> QED BY <1>1, <2>1, <2>2, ZenonT(60) DEF SelfTestTyped
<1>4. ASSUME NEW h \in Handlers, RecordRun(h)
      PROVE  Good
  <2>1. CASE UNCHANGED runs
    BY <2>1 DEF SelfTestTyped
  <2>2. CASE ~ UNCHANGED runs
    <3>1. PICK r : r = handler[h].marker[1]
      OBVIOUS
    <3>2. r \in Runs
      BY <1>4, <3>1 DEF RecordRun, SelfTestTyped, MintedMarkers, Minted
    <3>3. AllMatched(r) /\ runs[r].verdict = "open" /\ runs' = [runs EXCEPT ![r].verdict = "passed"]
      BY <1>4, <2>2, <3>1 DEF RecordRun, MarkPassed
    <3>4. runs' = [runs EXCEPT ![r] = [runs[r] EXCEPT !.verdict = "passed"]]
      BY <3>2, <3>3 DEF SelfTestTyped
    <3> QED BY <1>1, <3>2, <3>3, <3>4, ZenonT(60) DEF SelfTestTyped
  <2> QED BY <2>1, <2>2
<1>5. ASSUME UNCHANGED runs PROVE Good
  BY <1>5 DEF SelfTestTyped
<1> HIDE DEF Good
<1>6. Good
  BY <1>2, <1>3, <1>4, <1>5, ZenonT(60) DEF SelfTestNext, TickScheduled, TickScheduler, FirstContact, MintLogged, HandleBatch,
     RecordTarget, SettlePending, RecordFails, StoreEvent, ServerRestart, Poll, RunSelfTest, ResolveWindow,
     AgentRestart, SubmitPortscanEvent, RunAgentHandledTarget, Pass, selfTestVars, serverVars
<1>7. clock' \in Int
  <2>1. ASSUME Pass PROVE clock' \in Int
    BY <2>1 DEF Pass, SelfTestTyped
  <2>2. ASSUME UNCHANGED clock PROVE clock' \in Int
    BY <2>2 DEF SelfTestTyped
  <2> QED
    BY <2>1, <2>2, ZenonT(60) DEF SelfTestNext, TickScheduled, TickScheduler, FirstContact, MintSelfTestCommand, MintLogged,
       HandleBatch, RecordTarget, RecordRun, SettlePending, RecordFails, StoreEvent, ServerRestart, Poll,
       RunSelfTest, ResolveWindow, AgentRestart, SubmitPortscanEvent, RunAgentHandledTarget, selfTestVars
<1> QED BY <1>6, <1>7 DEF Minted, Good

\* Markers are events, and None is not one.
LEMMA MarkersAreEvents == Markers \subseteq Events /\ None \notin Markers /\ MintedMarkers \subseteq Markers
BY NoneIsNoEvent DEF Events, MintedMarkers, Minted, Markers

\* No target loses its match, and a marker of a minted run stays one.
LEMMA Grows ==
    ASSUME SelfTestTyped, [SelfTestNext]_selfTestVars
    PROVE  matched \subseteq matched' /\ MintedMarkers \subseteq MintedMarkers'
<1>1. ASSUME NEW h \in Handlers, RecordTarget(h)
      PROVE  matched \subseteq matched'
  BY <1>1 DEF RecordTarget
<1>2. ASSUME UNCHANGED matched
      PROVE  matched \subseteq matched'
  BY <1>2
<1>3. matched \subseteq matched'
  BY <1>1, <1>2, Zenon DEF SelfTestNext, TickScheduled, TickScheduler, FirstContact, MintSelfTestCommand, MintLogged,
     HandleBatch, RecordRun, SettlePending, RecordFails, StoreEvent, ServerRestart, Poll, RunSelfTest,
     ResolveWindow, AgentRestart, SubmitPortscanEvent, RunAgentHandledTarget, Pass, selfTestVars, serverVars
<1> QED BY <1>3, RunsStep DEF MintedMarkers

\* The forms a handler takes.
LEMMA Hands ==
    /\ IdleHandler \in Hand /\ IdleHandler.pc = "idle" /\ IdleHandler.claim = None
    /\ \A q \in Hand, pc \in {"idle", "target", "run", "settle", "claim"} :
          LET n == [q EXCEPT !.pc = pc]
          IN  n \in Hand /\ n.pc = pc /\ n.ev = q.ev /\ n.claim = q.claim /\ n.marker = q.marker
    /\ \A e \in Events, c \in Markers \cup {None}, m \in Markers :
          LET n == [pc |-> "target", ev |-> e, claim |-> c, marker |-> m]
          IN  n \in Hand /\ n.pc = "target" /\ n.ev = e /\ n.claim = c /\ n.marker = m
BY DEF Hand, IdleHandler

\* A handler between two events.
LEMMA Idling == IdleHandler \in Hand /\ IdleHandler.pc = "idle" /\ IdleHandler.claim = None
BY Hands

\* The pass of a run, and so a registration, once earned stays earned, and
\* no step that leaves the handlers and the markers alone disturbs the rest.
LEMMA EarnedStep ==
    ASSUME SelfTestInv, [SelfTestNext]_selfTestVars,
           UNCHANGED registered \/ \E r \in Minted : AllMatched(r)
    PROVE  ProofsAreEarned'
<1>1. matched \subseteq matched' /\ Minted \subseteq Minted'
  BY Grows, RunsStep DEF SelfTestInv
<1>2. \A r \in Runs : runs'[r].verdict = "passed" => {r} \X Services \subseteq matched'
  BY <1>1, RunsStep DEF SelfTestInv, ProofsAreEarned, AllMatched
<1>3. registered' => \E r \in Minted : {r} \X Services \subseteq matched
  BY ZenonT(60) DEF SelfTestInv, ProofsAreEarned, AllMatched
<1> QED BY <1>1, <1>2, <1>3 DEF ProofsAreEarned

\* A step that leaves the handlers, the index and the claims alone.
LEMMA QuietStep ==
    ASSUME SelfTestInv, [SelfTestNext]_selfTestVars, UNCHANGED <<handler, index, loaded, taken, registered>>
    PROVE  SelfTestInv'
<1>1. ProofsAreEarned'
  BY EarnedStep
<1>2. MintedMarkers \subseteq MintedMarkers' /\ matched \subseteq matched'
  BY Grows DEF SelfTestInv
<1>3. SelfTestTyped'
  BY <1>2, RunsStep DEF SelfTestInv, SelfTestTyped
<1>4. SettleEarned'
  BY <1>2 DEF SelfTestInv, SettleEarned, AllMatched
<1>5. ClaimsKnown' /\ OneEventPerClaim'
  BY <1>2 DEF SelfTestInv, ClaimsKnown, OneEventPerClaim
<1> QED BY <1>1, <1>3, <1>4, <1>5 DEF SelfTestInv

\* A step of one handler that leaves the index and the claims alone.
LEMMA HandlerStep ==
    ASSUME SelfTestInv, [SelfTestNext]_selfTestVars, NEW h \in Handlers, NEW n \in Hand,
           handler' = [handler EXCEPT ![h] = n],
           handler[h].pc # "idle",
           n.pc # "idle" => n.ev = handler[h].ev /\ n.marker = handler[h].marker,
           n.claim \in {handler[h].claim, None},
           n.pc = "settle" => AllMatched(n.marker[1]),
           UNCHANGED <<index, loaded, taken>>,
           UNCHANGED registered \/ \E r \in Minted : AllMatched(r)
    PROVE  SelfTestInv'
<1>1. ProofsAreEarned'
  BY EarnedStep
<1>2. MintedMarkers \subseteq MintedMarkers' /\ matched \subseteq matched'
  BY Grows DEF SelfTestInv
<1>3. SelfTestTyped'
  BY <1>2, RunsStep DEF SelfTestInv, SelfTestTyped
<1>4. SettleEarned'
  BY <1>2 DEF SelfTestInv, SettleEarned, AllMatched, SelfTestTyped
<1>5. ClaimsKnown' /\ OneEventPerClaim'
  BY <1>2 DEF SelfTestInv, ClaimsKnown, OneEventPerClaim
<1> QED BY <1>1, <1>3, <1>4, <1>5 DEF SelfTestInv

\* The index a handler looks into, loaded now or before.
LEMMA LoadedIndex ==
    ASSUME SelfTestInv, NEW idx, idx = IF loaded THEN index ELSE EnsureLoaded
    PROVE  /\ DOMAIN idx \subseteq MintedMarkers
           /\ \A m \in DOMAIN idx : idx[m] \in Events \cup {None} /\ taken[m] \subseteq {idx[m]}
<1>1. CASE loaded
  BY <1>1 DEF SelfTestInv, SelfTestTyped, OneEventPerClaim
<1>2. CASE ~ loaded
  <2>1. /\ DOMAIN idx \subseteq MintedMarkers
        /\ \A m \in DOMAIN idx : idx[m] \in Events \cup {None}
    BY <1>2 DEF SelfTestInv, SelfTestTyped, EnsureLoaded, MintedMarkers
  <2>2. \A m \in MintedMarkers : taken[m] = {}
    BY <1>2, MarkersAreEvents DEF SelfTestInv, ClaimsKnown
  <2> QED BY <2>1, <2>2
<1> QED BY <1>1, <1>2

\* An event is taken in hand: its marker is in the index.
LEMMA HandleStep ==
    ASSUME SelfTestInv, [SelfTestNext]_selfTestVars, NEW h \in Handlers, NEW e \in Events, HandleBatch(h, e)
    PROVE  SelfTestInv'
<1> DEFINE Took(n, m, c) ==
      /\ n = [pc |-> "target", ev |-> e, claim |-> c, marker |-> m]
      /\ c \in {m, None}
      /\ handler' = [handler EXCEPT ![h] = n]
<1>1. PICK idx : idx = IF loaded THEN index ELSE EnsureLoaded
  OBVIOUS
<1>2. /\ DOMAIN idx \subseteq MintedMarkers
      /\ \A m \in DOMAIN idx : idx[m] \in Events \cup {None} /\ taken[m] \subseteq {idx[m]}
  BY <1>1, LoadedIndex
<1>3. \/ MatchSelfTest(h, e, idx)
      \/ \E sourceAgrees \in BOOLEAN : MatchSelfTestClaim(h, e, idx, sourceAgrees)
  BY <1>1 DEF HandleBatch
<1>4. \E D \in SUBSET DOMAIN idx :
         /\ index' = [m \in D |-> idx[m]]
         /\ UNCHANGED handler \/ \E m \in D : \E n, c : Took(n, m, c)
  <2>1. CASE MatchSelfTest(h, e, idx)
    <3> DEFINE D == {x \in DOMAIN idx : Live(x[1], clock)}
    <3>1. index' = [m \in D |-> idx[m]]
      BY <2>1 DEF MatchSelfTest, MatchPrune
    <3>2. UNCHANGED handler \/ \E m \in D : \E n, c : Took(n, m, c)
      BY <2>1, Zenon DEF MatchSelfTest, MatchPrune, SetHandler
    <3> QED BY <3>1, <3>2, ZenonT(60)
  <2>2. ASSUME NEW sourceAgrees \in BOOLEAN, MatchSelfTestClaim(h, e, idx, sourceAgrees)
        PROVE  \E D \in SUBSET DOMAIN idx :
                 /\ index' = [m \in D |-> idx[m]]
                 /\ UNCHANGED handler \/ \E m \in D : \E n, c : Took(n, m, c)
    <3> DEFINE D == {y \in DOMAIN idx : y # claimed[e] \/ Live(claimed[e][1], clock)}
    <3>1. index' = [m \in D |-> idx[m]]
      BY <2>2 DEF MatchSelfTestClaim, LookupPrune
    <3>2. UNCHANGED handler \/ \E m \in D : \E n, c : Took(n, m, c)
      BY <2>2, Zenon DEF MatchSelfTestClaim, LookupPrune, SetHandler
    <3> QED BY <3>1, <3>2
  <2> QED BY <1>3, <2>1, <2>2
<1>5. PICK D \in SUBSET DOMAIN idx :
         /\ index' = [m \in D |-> idx[m]]
         /\ UNCHANGED handler \/ \E m \in D : \E n, c : Took(n, m, c)
  BY <1>4
<1>6. handler[h].pc = "idle" /\ loaded' = TRUE /\ UNCHANGED <<registered, taken, matched>>
  BY DEF HandleBatch
<1>7. MintedMarkers \subseteq MintedMarkers'
  BY Grows DEF SelfTestInv
<1>8. CASE UNCHANGED handler
  <2>1. SelfTestTyped'
    BY <1>2, <1>5, <1>7, <1>8, RunsStep, SMTT(60) DEF SelfTestInv, SelfTestTyped
  <2>2. SettleEarned'
    BY <1>6, <1>8 DEF SelfTestInv, SettleEarned, AllMatched
  <2>3. ProofsAreEarned'
    BY <1>6, EarnedStep, SMTT(60)
  <2>4. ClaimsKnown' /\ OneEventPerClaim'
    BY <1>2, <1>5, <1>6, <1>7 DEF SelfTestInv, ClaimsKnown, OneEventPerClaim
  <2> QED BY <2>1, <2>2, <2>3, <2>4, SMTT(60) DEF SelfTestInv
<1>9. ASSUME NEW m \in D, NEW n, NEW c, Took(n, m, c)
      PROVE  SelfTestInv'
  <2>1. m \in MintedMarkers /\ m \in Markers /\ c \in Markers \cup {None}
    BY <1>2, <1>5, <1>9, MarkersAreEvents
  <2>2. n \in Hand /\ n.pc = "target" /\ n.ev = e /\ n.claim = c /\ n.marker = m
    BY <1>9, <2>1, Hands, SMTT(60)
  <2>3. SelfTestTyped'
    BY <1>2, <1>5, <1>7, <1>9, <2>1, <2>2, RunsStep, SMTT(60) DEF SelfTestInv, SelfTestTyped
  <2>4. SettleEarned'
    BY <1>6, <1>9, <2>2, SMTT(60) DEF SelfTestInv, SettleEarned, AllMatched, SelfTestTyped
  <2>5. ProofsAreEarned'
    BY <1>6, EarnedStep, SMTT(60)
  <2>6. ClaimsKnown' /\ OneEventPerClaim'
    BY <1>2, <1>5, <1>6, <1>7 DEF SelfTestInv, ClaimsKnown, OneEventPerClaim
  <2> QED BY <2>3, <2>4, <2>5, <2>6, SMTT(60) DEF SelfTestInv
<1> QED BY <1>5, <1>8, <1>9

\* A mint adds markers nobody has claimed.
LEMMA MintStep ==
    ASSUME SelfTestInv, [SelfTestNext]_selfTestVars, NEW x \in {"tick", "hook"}, MintSelfTestCommand(x)
    PROVE  SelfTestInv'
<1>1. PICK r \in Runs \ Minted :
        /\ runs' = [runs EXCEPT ![r] = [issued |-> clock, verdict |-> "open"]]
        /\ index' = [m \in DOMAIN index \cup ({r} \X Services) |-> IF m[1] = r THEN None ELSE index[m]]
  BY ZenonT(60) DEF MintSelfTestCommand
<1>2. MintedMarkers \subseteq MintedMarkers'
  BY Grows DEF SelfTestInv
<1>3. r \in Minted'
  BY <1>1 DEF Minted, SelfTestInv, SelfTestTyped
<1>4. UNCHANGED <<handler, loaded, taken, matched, registered>>
  BY DEF MintSelfTestCommand
<1>5. DOMAIN index' \subseteq MintedMarkers' /\ \A m \in DOMAIN index' : index'[m] \in Events \cup {None}
  <2>1. {r} \X Services \subseteq MintedMarkers'
    BY <1>3 DEF MintedMarkers
  <2>2. \A m \in {r} \X Services : m[1] = r
    OBVIOUS
  <2> QED BY <1>1, <1>2, <2>1, <2>2 DEF SelfTestInv, SelfTestTyped
<1>6. SelfTestTyped'
  <2>1. index' = [m \in DOMAIN index' |-> index'[m]]
    BY <1>1
  <2> QED BY <1>2, <1>4, <1>5, <2>1, RunsStep DEF SelfTestInv, SelfTestTyped
<1>7. SettleEarned' /\ ProofsAreEarned'
  BY <1>4, EarnedStep DEF SelfTestInv, SettleEarned, AllMatched
<1>8. ClaimsKnown'
  BY <1>2, <1>4 DEF SelfTestInv, ClaimsKnown
<1>9. OneEventPerClaim'
  <2>1. \A m \in {r} \X Services : taken[m] = {}
    BY <1>1 DEF SelfTestInv, ClaimsKnown, MintedMarkers, Markers
  <2>2. \A m \in DOMAIN index \ ({r} \X Services) : m[1] # r
    BY <1>1 DEF SelfTestInv, SelfTestTyped, MintedMarkers
  <2>3. ASSUME NEW m \in DOMAIN index'
        PROVE  taken[m] \subseteq {index'[m]}
    BY <1>1, <2>1, <2>2 DEF SelfTestInv, OneEventPerClaim
  <2> QED BY <1>4, <2>3 DEF OneEventPerClaim
<1> QED BY <1>6, <1>7, <1>8, <1>9, SMTT(60) DEF SelfTestInv

\* The winner of a claim is bound in the step that makes it synthetic.
LEMMA StoreStep ==
    ASSUME SelfTestInv, [SelfTestNext]_selfTestVars, NEW h \in Handlers, StoreEvent(h)
    PROVE  SelfTestInv'
<1>1. PICK m, e : m = handler[h].claim /\ e = handler[h].ev
  BY SMTT(60)
<1>2. /\ handler[h].pc = "claim" /\ handler' = [handler EXCEPT ![h] = IdleHandler]
      /\ UNCHANGED <<loaded, matched, registered>>
  BY DEF StoreEvent, SetHandler
<1>3. e \in Events /\ e # None /\ m \in MintedMarkers \cup {None} /\ loaded
  BY <1>1, <1>2, NoneIsNoEvent DEF SelfTestInv, SelfTestTyped, ClaimsKnown
<1>4. MintedMarkers \subseteq MintedMarkers'
  BY Grows DEF SelfTestInv
<1>5. \/ UNCHANGED <<index, taken>>
      \/ /\ m \in MintedMarkers /\ TryClaim(m, e)
         /\ index' = IF m \in DOMAIN index THEN [index EXCEPT ![m] = e] ELSE index
         /\ taken' = [taken EXCEPT ![m] = @ \cup {e}]
  BY <1>1, <1>3, Zenon DEF StoreEvent
<1>6. /\ DOMAIN index' = DOMAIN index /\ index' = [x \in DOMAIN index' |-> index'[x]]
      /\ \A x \in DOMAIN index : index'[x] \in Events \cup {None}
  BY <1>3, <1>5, SMTT(60) DEF SelfTestInv, SelfTestTyped
<1>7. SelfTestTyped'
  BY <1>2, <1>4, <1>6, Idling, RunsStep DEF SelfTestInv, SelfTestTyped
<1>8. SettleEarned' /\ ProofsAreEarned'
  <2>1. SettleEarned'
    BY <1>2, Idling DEF SelfTestInv, SettleEarned, AllMatched, SelfTestTyped
  <2> QED BY <1>2, <2>1, EarnedStep
<1>9. ClaimsKnown'
  <2>1. taken' \in [Markers -> SUBSET Events] /\ \A x \in Markers : taken'[x] # {} => x \in MintedMarkers
    BY <1>3, <1>5, MarkersAreEvents DEF SelfTestInv, ClaimsKnown
  <2> QED BY <1>2, <1>3, <1>4, <2>1, SMTT(60) DEF ClaimsKnown
<1>10. OneEventPerClaim'
  <2>1. CASE UNCHANGED <<index, taken>>
    BY <2>1 DEF SelfTestInv, OneEventPerClaim
  <2>2. CASE /\ m \in MintedMarkers /\ TryClaim(m, e)
             /\ index' = IF m \in DOMAIN index THEN [index EXCEPT ![m] = e] ELSE index
             /\ taken' = [taken EXCEPT ![m] = @ \cup {e}]
    <3>1. \A x \in DOMAIN index : x # m => taken'[x] = taken[x] /\ index'[x] = index[x]
      BY <2>2
    <3>2. m \in DOMAIN index => taken[m] \subseteq {e}
      <4>1. m \in DOMAIN index => taken[m] \subseteq {index[m]} /\ index[m] \in {None, e}
        BY <2>2 DEF SelfTestInv, OneEventPerClaim, TryClaim
      <4>2. None \notin taken[m]
        BY <2>2, NoneIsNoEvent, MarkersAreEvents DEF SelfTestInv, ClaimsKnown
      <4> QED BY <4>1, <4>2
    <3>3. m \in DOMAIN index => taken'[m] \subseteq {index'[m]}
      BY <2>2, <3>2, MarkersAreEvents DEF SelfTestInv, ClaimsKnown
    <3> QED BY <1>6, <3>1, <3>3 DEF SelfTestInv, OneEventPerClaim
  <2> QED BY <1>5, <2>1, <2>2
<1> QED BY <1>7, <1>8, <1>9, <1>10 DEF SelfTestInv

\* birdcage restarts with nothing in hand and nothing claimed.
LEMMA RestartStep ==
    ASSUME SelfTestInv, [SelfTestNext]_selfTestVars, ServerRestart
    PROVE  SelfTestInv'
<1>1. /\ index' = <<>> /\ ~ loaded' /\ handler' = [h \in Handlers |-> IdleHandler]
      /\ taken' = [m \in Markers |-> {}] /\ UNCHANGED registered
  BY DEF ServerRestart
<1>2. DOMAIN index' = {} /\ index' = [m \in DOMAIN index' |-> index'[m]]
  BY <1>1
<1>3. SelfTestTyped'
  BY <1>1, <1>2, Hands, RunsStep, ZenonT(60) DEF SelfTestInv, SelfTestTyped
<1>4. SettleEarned' /\ ProofsAreEarned'
  BY <1>1, Hands, EarnedStep DEF SettleEarned
<1>5. ClaimsKnown' /\ OneEventPerClaim'
  BY <1>1, <1>2, Hands DEF ClaimsKnown, OneEventPerClaim
<1> QED BY <1>3, <1>4, <1>5 DEF SelfTestInv

\* The handler's statements, one by one.
LEMMA RecordStep ==
    ASSUME SelfTestInv, [SelfTestNext]_selfTestVars, NEW h \in Handlers,
           RecordTarget(h) \/ RecordRun(h) \/ SettlePending(h) \/ RecordFails(h)
    PROVE  SelfTestInv'
<1>1. handler[h] \in Hand
  BY DEF SelfTestInv, SelfTestTyped
<1>2. CASE RecordTarget(h)
  <2>1. PICK pc \in {"claim", "run"} : handler' = [handler EXCEPT ![h] = [handler[h] EXCEPT !.pc = pc]]
    BY <1>2, ZenonT(60) DEF RecordTarget, HandlerGoesTo, SetHandler
  <2>2. handler[h].pc = "target" /\ UNCHANGED <<index, loaded, taken, registered>>
    BY <1>2 DEF RecordTarget
  <2> DEFINE n == [handler[h] EXCEPT !.pc = pc]
  <2>3. /\ n \in Hand /\ n.pc = pc /\ n.ev = handler[h].ev
        /\ n.claim = handler[h].claim /\ n.marker = handler[h].marker
    BY <1>1 DEF Hand
  <2>4. handler' = [handler EXCEPT ![h] = n]
    BY <2>1
  <2> HIDE DEF n
  <2> QED BY <2>1, <2>2, <2>3, <2>4, HandlerStep, ZenonT(60)
<1>3. CASE RecordRun(h)
  <2>1. PICK pc \in {"claim", "settle"} :
            /\ handler' = [handler EXCEPT ![h] = [handler[h] EXCEPT !.pc = pc]]
            /\ pc = "settle" => AllMatched(handler[h].marker[1])
    BY <1>3 DEF RecordRun, HandlerGoesTo, SetHandler
  <2>2. handler[h].pc = "run" /\ UNCHANGED <<index, loaded, taken, registered>>
    BY <1>3 DEF RecordRun
  <2> DEFINE n == [handler[h] EXCEPT !.pc = pc]
  <2>3. /\ n \in Hand /\ n.pc = pc /\ n.ev = handler[h].ev
        /\ n.claim = handler[h].claim /\ n.marker = handler[h].marker
    BY <1>1 DEF Hand
  <2>4. handler' = [handler EXCEPT ![h] = n]
    BY <2>1
  <2> HIDE DEF n
  <2> QED BY <2>1, <2>2, <2>3, <2>4, HandlerStep, ZenonT(60)
<1>4. CASE SettlePending(h)
  <2>1. handler' = [handler EXCEPT ![h] = [handler[h] EXCEPT !.pc = "claim"]]
    BY <1>4 DEF SettlePending, HandlerGoesTo, SetHandler
  <2>2. handler[h].pc = "settle" /\ UNCHANGED <<index, loaded, taken>>
    BY <1>4 DEF SettlePending
  <2>3. handler[h].marker[1] \in Minted /\ AllMatched(handler[h].marker[1])
    BY <2>2 DEF SelfTestInv, SelfTestTyped, SettleEarned, MintedMarkers
  <2> QED BY <1>1, <2>1, <2>2, <2>3, Hands, HandlerStep, ZenonT(60)
<1>5. CASE RecordFails(h)
  <2>1. /\ handler' = [handler EXCEPT ![h] = IdleHandler] /\ handler[h].pc # "idle"
        /\ UNCHANGED <<index, loaded, taken, registered>>
    BY <1>5 DEF RecordFails, SetHandler
  <2> QED BY <1>1, <2>1, Hands, HandlerStep, ZenonT(60)
<1> QED BY <1>2, <1>3, <1>4, <1>5

\* The invariant holds in every state.
LEMMA Invariant == SelfTestSpec => []SelfTestInv
<1>1. SelfTestInit => SelfTestInv
  <2> SUFFICES ASSUME SelfTestInit PROVE SelfTestInv
    OBVIOUS
  <2>1. Unminted \in Run /\ Unminted.verdict = "none"
    BY DEF Unminted, Run
  <2>2. DOMAIN index = {} /\ index = [m \in DOMAIN index |-> index[m]]
    BY SMTT(60) DEF SelfTestInit
  <2>3. SelfTestTyped
    BY <2>1, <2>2, Idling DEF SelfTestInit, SelfTestTyped
  <2>4. SettleEarned
    BY Hands, SMTT(60) DEF SelfTestInit, SettleEarned
  <2>5. ProofsAreEarned
    BY <2>1 DEF SelfTestInit, ProofsAreEarned
  <2>6. ClaimsKnown /\ OneEventPerClaim
    BY <2>2, Hands DEF SelfTestInit, ClaimsKnown, OneEventPerClaim
  <2> QED BY <2>3, <2>4, <2>5, <2>6 DEF SelfTestInv
<1>2. SelfTestInv /\ [SelfTestNext]_selfTestVars => SelfTestInv'
  <2> SUFFICES ASSUME SelfTestInv, [SelfTestNext]_selfTestVars PROVE SelfTestInv'
    OBVIOUS
  <2>1. CASE UNCHANGED <<handler, index, loaded, taken, registered>>
    BY <2>1, QuietStep
  <2> QED
    BY <2>1, MintStep, HandleStep, RecordStep, StoreStep, RestartStep, ZenonT(60) DEF SelfTestNext, TickScheduled, TickScheduler,
       FirstContact, MintLogged, Poll, RunSelfTest, ResolveWindow, AgentRestart, SubmitPortscanEvent,
       RunAgentHandledTarget, Pass, selfTestVars, serverVars
<1> QED BY <1>1, <1>2, PTL DEF SelfTestSpec

\* A run passes, and a pending canary is registered, only when every target
\* of the run was matched: for any number of runs and handlers, with events
\* handled twice and at once, statements failing and both sides restarting.
THEOREM PassesAreEarned == SelfTestSpec => []ProofsAreEarned
<1>1. SelfTestInv => ProofsAreEarned
  BY DEF SelfTestInv
<1> QED BY <1>1, Invariant, PTL

\* While the index holds a marker, at most one event was made synthetic by
\* claiming it, and the marker is bound to that event (tryClaim).
THEOREM ClaimsAreExclusive == SelfTestSpec => []OneEventPerClaim
<1>1. SelfTestInv => OneEventPerClaim
  BY DEF SelfTestInv
<1> QED BY <1>1, Invariant, PTL

\* The last match and the deadline sweep never overwrite each other's
\* verdict.
THEOREM VerdictsAreFinal == SelfTestSpec => VerdictIsFinal
<1>1. SelfTestInv /\ [SelfTestNext]_selfTestVars =>
        [\A r \in Runs : runs[r].verdict \in {"passed", "failed"} => runs'[r].verdict = runs[r].verdict]_selfTestVars
  BY RunsStep DEF SelfTestInv
<1> QED BY <1>1, Invariant, PTL DEF SelfTestSpec, VerdictIsFinal

-----------------------------------------------------------------------------
(* The scan.                                                               *)

\* The rows, the heartbeats under way and the scan in hand.
StageNames == {"ordered", "collected", "mounts_checked", "db_refreshed", "scanning", "answered"}
Scan == [issued : Nat, trigger : Triggers, stage : StageNames, verdict : {"none", "open", "passed", "failed"}]
Report == [run : ScanOrders \cup {NoRun}, stage : StageNames, seen : StageNames \cup {"none"}]
Cycle == [run : ScanOrders \cup {NoRun}, phase : {"idle", "refresh", "scanning", "post"}, taken : Nat,
          refreshed : Int, ok : BOOLEAN]

\* A scan under way answers an order.
ScanRunsTyped ==
    /\ tick \in Nat /\ refreshed \in Int
    /\ scans \in [ScanOrders -> Scan]
    /\ proven \in BOOLEAN
    /\ orders \in Seq(ScanOrders)
    /\ cycle \in Cycle /\ (cycle.phase # "idle" => cycle.run \in ScanOrders)
    /\ reached \in [run : ScanOrders \cup {NoRun}, stage : StageNames]
    /\ reports \in SUBSET Report

\* A heartbeat that was read against a row reports a later stage than the
\* row had then.
ReadReportsAdvance ==
    \A m \in reports : m.seen # "none" => m.run \in ScanOrders /\ Rank(m.stage) > Rank(m.seen)

ScanInv == ScanRunsTyped /\ ReadReportsAdvance

\* The rank of a stage is its place in the list.
LEMMA Ranks ==
    /\ \A st \in StageNames : Rank(st) \in 1..6 /\ Stages[Rank(st)] = st
    /\ Rank("answered") = 6
<1>1. /\ Len(Stages) = 6
      /\ Stages[1] = "ordered" /\ Stages[2] = "collected" /\ Stages[3] = "mounts_checked"
      /\ Stages[4] = "db_refreshed" /\ Stages[5] = "scanning" /\ Stages[6] = "answered"
  BY DEF Stages
<1>2. ASSUME NEW st \in StageNames
      PROVE  Rank(st) \in 1..6 /\ Stages[Rank(st)] = st
  <2>1. \E i \in 1..Len(Stages) : Stages[i] = st
    BY <1>1 DEF StageNames
  <2>2. Rank(st) \in 1..Len(Stages) /\ Stages[Rank(st)] = st
    BY <2>1, Zenon DEF Rank
  <2> QED BY <1>1, <2>2
<1>3. Rank("answered") \in 1..6 /\ Stages[Rank("answered")] = "answered"
  BY <1>2 DEF StageNames
<1>4. \A i \in 1..6 : Stages[i] = "answered" => i = 6
  BY <1>1
<1> QED BY <1>2, <1>3, <1>4

\* A time on the wire is not later than the time.
LEMMA WireNotLater == \A t \in Int : OnTheWire(t) \in Int /\ OnTheWire(t) <= t
<1>1. ASSUME NEW t \in Int
      PROVE  OnTheWire(t) \in Int /\ OnTheWire(t) <= t
  <2>1. t % PerSecond \in 0..(PerSecond - 1)
    BY PerSecondIsPositive
  <2> QED BY <2>1, PerSecondIsPositive DEF OnTheWire
<1> QED BY <1>1

\* The forms a row takes.
LEMMA ScanForms ==
    ASSUME NEW row \in Scan, NEW st \in StageNames, NEW v \in {"open", "passed", "failed"}
    PROVE  /\ [row EXCEPT !.stage = st] \in Scan
           /\ [row EXCEPT !.stage = st].stage = st
           /\ [row EXCEPT !.verdict = v] \in Scan
           /\ [row EXCEPT !.verdict = v].stage = row.stage
           /\ [row EXCEPT !.verdict = v, !.stage = st] \in Scan
           /\ [row EXCEPT !.verdict = v, !.stage = st].stage = st
           /\ [row EXCEPT !.verdict = v, !.stage = st].verdict = v
BY ZenonT(60) DEF Scan, StageNames

\* So is the row of a scan just ordered.
LEMMA NewScanForms ==
    ASSUME NEW n \in Nat, NEW t \in Triggers
    PROVE  /\ NoScan \in Scan
           /\ [NoScan EXCEPT !.issued = n, !.trigger = t, !.verdict = "open"] \in Scan
BY ZenonT(60) DEF Scan, StageNames, NoScan, Triggers

\* The two properties as what one step does; the first of them.
Advances ==
    \A r \in MintedScans :
         /\ Rank(scans'[r].stage) >= Rank(scans[r].stage)
         /\ scans[r].verdict # "open" => scans'[r] = scans[r]

\* The second of them.
Proves ==
    ~proven /\ proven' =>
         \E r \in OpenScans : /\ scans'[r].verdict = "passed" /\ scans[r].trigger = "proof"
                              /\ cycle.run = r /\ cycle.refreshed >= scans[r].issued

\* A step that leaves the rows alone moves no stage.
LEMMA SameRows ==
    ASSUME ScanRunsTyped, UNCHANGED scans
    PROVE  scans' \in [ScanOrders -> Scan] /\ Advances
<1>1. \A r \in MintedScans : Rank(scans[r].stage) \in 1..6
  BY Ranks DEF ScanRunsTyped, Scan, MintedScans
<1>2. ASSUME NEW r \in MintedScans
      PROVE  Rank(scans'[r].stage) >= Rank(scans[r].stage) /\ scans'[r] = scans[r]
  <2>1. scans'[r] = scans[r]
    OBVIOUS
  <2>2. Rank(scans[r].stage) >= Rank(scans[r].stage)
    BY <1>1
  <2> QED BY <2>1, <2>2
<1>3. scans' \in [ScanOrders -> Scan]
  BY DEF ScanRunsTyped
<1> QED BY <1>2, <1>3 DEF Advances

\* Neither does one that changes an open row to one of a later stage.
LEMMA OneRow ==
    ASSUME ScanRunsTyped, NEW r \in ScanOrders, NEW row \in Scan,
           scans' = [scans EXCEPT ![r] = row],
           \/ scans[r].verdict = "none"
           \/ scans[r].verdict = "open" /\ Rank(row.stage) >= Rank(scans[r].stage)
    PROVE  scans' \in [ScanOrders -> Scan] /\ Advances
<1>1. \A x \in ScanOrders : Rank(scans[x].stage) \in 1..6
  BY Ranks DEF ScanRunsTyped, Scan
<1>2. \A x \in ScanOrders : x # r => scans'[x] = scans[x]
  BY DEF ScanRunsTyped
<1>3. scans'[r] = row
  BY DEF ScanRunsTyped
<1>4. scans' \in [ScanOrders -> Scan]
  BY DEF ScanRunsTyped
<1>5. Advances
  <2> SUFFICES ASSUME NEW x \in MintedScans
               PROVE  /\ Rank(scans'[x].stage) >= Rank(scans[x].stage)
                      /\ scans[x].verdict # "open" => scans'[x] = scans[x]
    BY DEF Advances
  <2>1. x \in ScanOrders /\ scans[x].verdict # "none"
    BY DEF MintedScans
  <2>2. CASE x = r
    BY <1>3, <2>1, <2>2
  <2>3. CASE x # r
    BY <1>1, <1>2, <2>1, <2>3
  <2> QED BY <2>2, <2>3
<1> QED BY <1>4, <1>5

\* A guarded update of a stage, to a later one than was seen.
LEMMA StageUpdate ==
    ASSUME ScanRunsTyped, NEW r \in ScanOrders, NEW st \in StageNames, NEW seen \in StageNames,
           Rank(st) > Rank(seen), AdvanceRunStage(r, st, seen)
    PROVE  scans' \in [ScanOrders -> Scan] /\ Advances
<1>1. CASE scans[r].verdict = "open" /\ scans[r].stage = seen
  <2>1. PICK row : row = scans[r]
    OBVIOUS
  <2>2. row \in Scan
    BY <2>1 DEF ScanRunsTyped
  <2>3. PICK new : new = [row EXCEPT !.stage = st]
    BY ZenonT(60)
  <2>4. new \in Scan /\ new.stage = st
    BY <2>2, <2>3, ScanForms, ZenonT(60)
  <2>5. scans' = [scans EXCEPT ![r] = new]
    BY <1>1, <2>1, <2>3 DEF AdvanceRunStage, ScanRunsTyped
  <2>6. Rank(new.stage) >= Rank(scans[r].stage)
    BY <1>1, <2>4, Ranks
  <2> QED BY <1>1, <2>4, <2>5, <2>6, OneRow, ZenonT(60)
<1>2. CASE ~ (scans[r].verdict = "open" /\ scans[r].stage = seen)
  BY <1>2, SameRows DEF AdvanceRunStage
<1> QED BY <1>1, <1>2

\* The end of a run: the row moves to "answered" and takes a verdict.
LEMMA RunEnds ==
    ASSUME ScanRunsTyped, NEW r \in ScanOrders, NEW v \in {"passed", "failed"}, scans[r].verdict = "open",
           scans' = [scans EXCEPT ![r] = [@ EXCEPT !.verdict = v, !.stage = "answered"]]
    PROVE  scans' \in [ScanOrders -> Scan] /\ Advances /\ scans'[r].verdict = v
<1>1. PICK row : row = scans[r]
  OBVIOUS
<1>2. row \in Scan /\ row.stage \in StageNames
  BY <1>1 DEF ScanRunsTyped, Scan
<1>3. PICK new : new = [row EXCEPT !.verdict = v, !.stage = "answered"]
  OBVIOUS
<1>4. new \in Scan /\ new.stage = "answered" /\ new.verdict = v
  BY <1>2, <1>3, ZenonT(60) DEF Scan, StageNames
<1>5. scans' = [scans EXCEPT ![r] = new]
  BY <1>1, <1>3 DEF ScanRunsTyped
<1>6. Rank(new.stage) >= Rank(scans[r].stage)
  BY <1>1, <1>2, <1>4, Ranks
<1>7. scans'[r] = new
  BY <1>5 DEF ScanRunsTyped
<1> QED BY <1>4, <1>5, <1>6, <1>7, OneRow, ZenonT(60)

\* A heartbeat more, not read yet, keeps what is known of the others.
LEMMA SendKeeps ==
    ASSUME ScanRunsTyped, ReadReportsAdvance, NEW run \in ScanOrders \cup {NoRun}, NEW st \in StageNames,
           Send(run, st)
    PROVE  reports' \in SUBSET Report /\ ReadReportsAdvance'
<1>1. PICK m : m = [run |-> run, stage |-> st, seen |-> "none"]
  BY ZenonT(60)
<1>2. m \in Report /\ m.seen = "none"
  BY <1>1 DEF Report
<1>3. reports' = reports \/ reports' = reports \cup {m}
  BY <1>1 DEF Send
<1> QED BY <1>2, <1>3 DEF ScanRunsTyped, ReadReportsAdvance

\* So does taking one away.
LEMMA DropKeeps ==
    ASSUME ScanRunsTyped, ReadReportsAdvance, reports' \subseteq reports
    PROVE  reports' \in SUBSET Report /\ ReadReportsAdvance'
BY DEF ScanRunsTyped, ReadReportsAdvance

\* The initial state.
LEMMA ScanInitially == ScanInit => ScanInv
<1> SUFFICES ASSUME ScanInit PROVE ScanInv
  OBVIOUS
<1>1. NoScan \in Scan
  BY DEF Scan, StageNames, NoScan, Triggers
<1>2. scans \in [ScanOrders -> Scan]
  BY <1>1 DEF ScanInit
<1>3. NoCycle \in Cycle /\ NoCycle.phase = "idle"
  BY DEF NoCycle, Cycle, NeverRefreshed
<1>4. NothingReached \in [run : ScanOrders \cup {NoRun}, stage : StageNames]
  BY DEF NothingReached, StageNames
<1>5. ScanRunsTyped
  <2>1. tick \in Nat /\ refreshed \in Int /\ reports \in SUBSET Report
    BY DEF ScanInit, NeverRefreshed
  <2>2. proven \in BOOLEAN
    BY Zenon DEF ScanInit
  <2>3. orders \in Seq(ScanOrders)
    BY DEF ScanInit
  <2>4. cycle \in Cycle /\ (cycle.phase # "idle" => cycle.run \in ScanOrders)
    BY <1>3 DEF ScanInit
  <2>5. reached \in [run : ScanOrders \cup {NoRun}, stage : StageNames]
    BY <1>4 DEF ScanInit
  <2> QED BY <1>2, <2>1, <2>2, <2>3, <2>4, <2>5, Zenon DEF ScanRunsTyped
<1> QED BY <1>5 DEF ScanInit, ScanInv, ReadReportsAdvance

\* Steps of birdcage.
LEMMA BirdcageSteps ==
    ASSUME ScanInv,
           \/ \E t \in Triggers : CountOpenScans(t) \/ MintScanCommand(t)
           \/ SweepScans
           \/ \E r \in ScanOrders, b \in BOOLEAN : PollScan(r, b)
           \/ \E m \in reports : RecordScannerProgress(m) \/ ApplyStage(m) \/ LoseReport(m)
    PROVE  ScanInv' /\ Advances /\ Proves
<1> USE DEF ScanInv
<1>1. ASSUME NEW t \in Triggers, CountOpenScans(t)
      PROVE  ScanInv' /\ Advances /\ Proves
  <2>1. scans' \in [ScanOrders -> Scan] /\ Advances
    BY <1>1, SameRows DEF CountOpenScans
  <2> QED BY <1>1, <2>1 DEF CountOpenScans, ScanRunsTyped, ReadReportsAdvance, Proves
<1>2. ASSUME NEW t \in Triggers, MintScanCommand(t)
      PROVE  ScanInv' /\ Advances /\ Proves
  <2>1. scans' \in [ScanOrders -> Scan] /\ Advances
    <3>1. CASE UNCHANGED scans
      BY <3>1, SameRows
    <3>2. CASE ~ UNCHANGED scans
      <4>1. PICK r : r = CHOOSE x \in ScanOrders : x \notin MintedScans
        OBVIOUS
      <4>2. \E x \in ScanOrders : x \notin MintedScans
        BY <1>2, <3>2, ZenonT(60) DEF MintScanCommand, MintedScans
      <4>3. r \in ScanOrders /\ r \notin MintedScans
        BY <4>1, <4>2, Zenon
      <4>4. scans[r].verdict = "none"
        BY <4>3 DEF MintedScans
      <4>5. PICK row : row = [NoScan EXCEPT !.issued = tick, !.trigger = t, !.verdict = "open"]
        BY SMTT(60)
      <4>6. row \in Scan
        BY <4>5, NewScanForms, ZenonT(60) DEF ScanRunsTyped
      <4>7. scans' = [scans EXCEPT ![r] = row]
        BY <1>2, <3>2, <4>1, <4>5, ZenonT(60) DEF MintScanCommand
      <4> QED BY <4>3, <4>4, <4>6, <4>7, OneRow, ZenonT(60)
    <3> QED BY <3>1, <3>2
  <2> QED BY <1>2, <2>1, ZenonT(60) DEF MintScanCommand, ScanRunsTyped, ReadReportsAdvance, Proves
<1>3. ASSUME SweepScans
      PROVE  ScanInv' /\ Advances /\ Proves
  <2>1. ASSUME NEW r \in ScanOrders
        PROVE  /\ scans'[r] \in Scan
               /\ Rank(scans'[r].stage) >= Rank(scans[r].stage)
               /\ scans[r].verdict # "open" => scans'[r] = scans[r]
    <3>1. PICK row : row = scans[r]
      OBVIOUS
    <3>2. row \in Scan /\ row.stage \in StageNames
      BY <3>1 DEF ScanRunsTyped, Scan
    <3>3. PICK new : new = [row EXCEPT !.verdict = "failed"]
      BY ZenonT(60)
    <3>4. new \in Scan /\ new.stage = row.stage
      BY <3>2, <3>3, ScanForms, ZenonT(60) DEF StageNames
    <3>5. \/ scans'[r] = row
          \/ scans'[r] = new /\ scans[r].verdict = "open"
      BY <1>3, <3>1, <3>3 DEF SweepScans, OpenScans
    <3>6. Rank(row.stage) \in 1..6
      BY <3>2, Ranks
    <3> QED BY <3>1, <3>2, <3>4, <3>5, <3>6
  <2>2. scans' = [r \in ScanOrders |-> scans'[r]]
    BY <1>3 DEF SweepScans
  <2>3. scans' \in [ScanOrders -> Scan]
    BY <2>1, <2>2
  <2>4. Advances
    BY <2>1 DEF Advances, MintedScans
  <2> QED BY <1>3, <2>3, <2>4 DEF SweepScans, ScanRunsTyped, ReadReportsAdvance, Proves
<1>4. ASSUME NEW r \in ScanOrders, NEW b \in BOOLEAN, PollScan(r, b)
      PROVE  ScanInv' /\ Advances /\ Proves
  <2>1. scans' \in [ScanOrders -> Scan] /\ Advances
    <3>1. CASE MayAdvance(r, "collected")
      <4>1. scans[r].stage \in StageNames /\ "collected" \in StageNames
        BY DEF ScanRunsTyped, Scan, StageNames
      <4>2. Rank("collected") > Rank(scans[r].stage)
        BY <3>1 DEF MayAdvance
      <4>3. AdvanceRunStage(r, "collected", scans[r].stage)
        BY <1>4, <3>1 DEF PollScan
      <4> QED BY <4>1, <4>2, <4>3, StageUpdate
    <3>2. CASE ~ MayAdvance(r, "collected")
      BY <1>4, <3>2, SameRows DEF PollScan
    <3> QED BY <3>1, <3>2
  <2>2. orders' \in Seq(ScanOrders)
    BY <1>4 DEF PollScan, Enqueue, ScanRunsTyped
  <2> QED BY <1>4, <2>1, <2>2 DEF PollScan, ScanRunsTyped, ReadReportsAdvance, Proves
<1>5. ASSUME NEW m \in reports, RecordScannerProgress(m)
      PROVE  ScanInv' /\ Advances /\ Proves
  <2>1. scans' \in [ScanOrders -> Scan] /\ Advances
    BY <1>5, SameRows DEF RecordScannerProgress
  <2>2. reports' \in SUBSET Report /\ ReadReportsAdvance'
    <3>1. CASE m.run # NoRun /\ MayAdvance(m.run, m.stage)
      <4>1. m.run \in ScanOrders /\ Rank(m.stage) > Rank(scans[m.run].stage)
        BY <3>1 DEF MayAdvance, MintedScans
      <4>2. PICK st : st = scans[m.run].stage
        OBVIOUS
      <4>3. st \in StageNames
        BY <4>1, <4>2 DEF ScanRunsTyped, Scan
      <4>4. PICK n : n = [m EXCEPT !.seen = st]
        BY ZenonT(60)
      <4>5. m \in Report
        BY DEF ScanRunsTyped
      <4>6. n \in Report /\ n.run = m.run /\ n.stage = m.stage /\ n.seen = st
        BY <4>3, <4>4, <4>5 DEF Report
      <4>7. reports' = (reports \ {m}) \cup {n}
        BY <1>5, <3>1, <4>2, <4>4 DEF RecordScannerProgress
      <4> QED BY <4>1, <4>2, <4>6, <4>7 DEF ScanRunsTyped, ReadReportsAdvance
    <3>2. CASE ~ (m.run # NoRun /\ MayAdvance(m.run, m.stage))
      BY <1>5, <3>2, DropKeeps DEF RecordScannerProgress
    <3> QED BY <3>1, <3>2
  <2> QED BY <1>5, <2>1, <2>2 DEF RecordScannerProgress, ScanRunsTyped, Proves
<1>6. ASSUME NEW m \in reports, ApplyStage(m)
      PROVE  ScanInv' /\ Advances /\ Proves
  <2>1. m \in Report /\ m.seen # "none"
    BY <1>6 DEF ApplyStage, ScanRunsTyped
  <2>2. m.run \in ScanOrders /\ Rank(m.stage) > Rank(m.seen)
    BY <2>1 DEF ReadReportsAdvance
  <2>3. m.stage \in StageNames /\ m.seen \in StageNames
    BY <2>1 DEF Report
  <2>4. scans' \in [ScanOrders -> Scan] /\ Advances
    BY <1>6, <2>2, <2>3, StageUpdate DEF ApplyStage
  <2>5. reports' \in SUBSET Report /\ ReadReportsAdvance'
    BY <1>6, DropKeeps DEF ApplyStage
  <2> QED BY <1>6, <2>4, <2>5 DEF ApplyStage, ScanRunsTyped, Proves
<1>7. ASSUME NEW m \in reports, LoseReport(m)
      PROVE  ScanInv' /\ Advances /\ Proves
  <2>1. scans' \in [ScanOrders -> Scan] /\ Advances
    BY <1>7, SameRows DEF LoseReport, birdcageScanVars
  <2>2. reports' \in SUBSET Report /\ ReadReportsAdvance'
    BY <1>7, DropKeeps DEF LoseReport
  <2> QED BY <1>7, <2>1, <2>2 DEF LoseReport, birdcageScanVars, ScanRunsTyped, Proves
<1> QED BY <1>1, <1>2, <1>3, <1>4, <1>5, <1>6, <1>7

\* A step of nightjar that leaves birdcage alone moves no stage and proves
\* nothing.
LEMMA BirdcageAlone ==
    ASSUME ScanRunsTyped, UNCHANGED birdcageScanVars
    PROVE  scans' \in [ScanOrders -> Scan] /\ Advances /\ Proves /\ proven' \in BOOLEAN
<1>1. UNCHANGED scans /\ proven' = proven
  BY DEF birdcageScanVars
<1>2. scans' \in [ScanOrders -> Scan] /\ Advances
  BY <1>1, SameRows
<1>3. proven' \in BOOLEAN
  BY <1>1 DEF ScanRunsTyped
<1> QED BY <1>1, <1>2, <1>3 DEF Proves

\* What a snapshot of the scan in hand does to its run.
LEMMA Matching ==
    ASSUME ScanRunsTyped, NEW r \in ScanOrders, cycle.run = r, MatchScanRun(r, cycle)
    PROVE  scans' \in [ScanOrders -> Scan] /\ Advances /\ Proves /\ proven' \in BOOLEAN
<1>1. CASE ~ IsOpen(r)
  <2>1. UNCHANGED scans /\ proven' = proven
    BY <1>1 DEF MatchScanRun
  <2>2. scans' \in [ScanOrders -> Scan] /\ Advances
    BY <2>1, SameRows
  <2>3. proven' \in BOOLEAN
    BY <2>1 DEF ScanRunsTyped
  <2> QED BY <2>1, <2>2, <2>3 DEF Proves
<1>2. CASE IsOpen(r)
  <2>1. scans[r].verdict = "open" /\ r \in OpenScans
    BY <1>2 DEF IsOpen, OpenScans
  <2>2. PICK v : v = IF ScanRunPasses(r, cycle) THEN "passed" ELSE "failed"
    OBVIOUS
  <2>3. v \in {"passed", "failed"} /\ (ScanRunPasses(r, cycle) => v = "passed")
    BY <2>2
  <2>4. scans' = [scans EXCEPT ![r] = [@ EXCEPT !.verdict = v, !.stage = "answered"]]
    BY <1>2, <2>2, SMTT(60) DEF MatchScanRun
  <2>5. scans' \in [ScanOrders -> Scan] /\ Advances /\ scans'[r].verdict = v
    BY <2>1, <2>3, <2>4, RunEnds, ZenonT(60)
  <2>6. proven' = (proven \/ (ScanRunPasses(r, cycle) /\ scans[r].trigger = "proof"))
    BY <1>2, Zenon DEF MatchScanRun
  <2>7. proven' \in BOOLEAN
    BY <2>6, Zenon
  <2>8. ScanRunPasses(r, cycle) => cycle.refreshed >= scans[r].issued
    <3>1. cycle.refreshed \in Int /\ scans[r].issued \in Int
      BY DEF ScanRunsTyped, Cycle, Scan
    <3>2. OnTheWire(cycle.refreshed) \in Int /\ OnTheWire(cycle.refreshed) <= cycle.refreshed
      BY <3>1, WireNotLater
    <3> QED BY <3>1, <3>2 DEF ScanRunPasses
  <2>9. Proves
    BY <2>1, <2>3, <2>5, <2>6, <2>8, Zenon DEF Proves
  <2> QED BY <2>5, <2>7, <2>9
<1> QED BY <1>1, <1>2

\* The order runner takes the head of its channel.
LEMMA TakeOrder ==
    ASSUME NEW q \in Seq(ScanOrders), q # <<>>
    PROVE  Head(q) \in ScanOrders /\ Tail(q) \in Seq(ScanOrders)
OBVIOUS

\* Steps of nightjar, the clock and the steps that do nothing.
LEMMA NightjarSteps ==
    ASSUME ScanInv,
           \/ SendHeartbeat
           \/ \E b \in BOOLEAN : RunScanLoop(b) \/ RunOrderRunner(b) \/ RunRefresh(b)
           \/ \E ok \in BOOLEAN : BuildSnapshot(ok)
           \/ \E stored, answered \in BOOLEAN : RunScanOnce(stored, answered)
           \/ NightjarRestart
           \/ TickOn
           \/ UNCHANGED scanVars
    PROVE  ScanInv' /\ Advances /\ Proves
<1> USE DEF ScanInv
<1>a. ScanRunsTyped /\ ReadReportsAdvance
  OBVIOUS
<1>b. cycle \in Cycle /\ cycle.run \in ScanOrders \cup {NoRun}
  BY DEF ScanRunsTyped, Cycle
<1>c. NoCycle \in Cycle /\ NoCycle.phase = "idle"
  BY DEF NoCycle, Cycle, NeverRefreshed
<1>d. NothingReached \in [run : ScanOrders \cup {NoRun}, stage : StageNames]
  BY DEF NothingReached, StageNames
<1>e. UNCHANGED reports => reports' \in SUBSET Report /\ ReadReportsAdvance'
  BY DEF ScanRunsTyped, ReadReportsAdvance
<1>1. ASSUME SendHeartbeat
      PROVE  ScanInv' /\ Advances /\ Proves
  <2>1. scans' \in [ScanOrders -> Scan] /\ Advances /\ Proves /\ proven' \in BOOLEAN
    BY <1>1, BirdcageAlone DEF SendHeartbeat
  <2>2. reached.run \in ScanOrders \cup {NoRun} /\ reached.stage \in StageNames
    BY DEF ScanRunsTyped
  <2>3. reports' \in SUBSET Report /\ ReadReportsAdvance'
    BY <1>1, <2>2, SendKeeps DEF SendHeartbeat
  <2> QED BY <1>1, <2>1, <2>3 DEF SendHeartbeat, ScanRunsTyped
<1>2. ASSUME NEW b \in BOOLEAN, RunScanLoop(b)
      PROVE  ScanInv' /\ Advances /\ Proves
  <2>1. scans' \in [ScanOrders -> Scan] /\ Advances /\ Proves /\ proven' \in BOOLEAN
    BY <1>2, BirdcageAlone DEF RunScanLoop
  <2>2. refreshed' \in Int
    BY <1>2, SMTT(60) DEF RunScanLoop, ScanRunsTyped
  <2> QED BY <1>2, <1>e, <2>1, <2>2 DEF RunScanLoop, ScanRunsTyped
<1>3. ASSUME NEW b \in BOOLEAN, RunOrderRunner(b)
      PROVE  ScanInv' /\ Advances /\ Proves
  <2>1. scans' \in [ScanOrders -> Scan] /\ Advances /\ Proves /\ proven' \in BOOLEAN
    BY <1>3, BirdcageAlone, ZenonT(60) DEF RunOrderRunner
  <2>2. Head(orders) \in ScanOrders /\ orders' \in Seq(ScanOrders)
    BY <1>3, TakeOrder, ZenonT(60) DEF RunOrderRunner, ScanRunsTyped
  <2>3. PICK ph : ph = IF b THEN "refresh" ELSE "post"
    OBVIOUS
  <2>4. ph \in {"refresh", "post"}
    BY <2>3, SMTT(60)
  <2>5. cycle' = [NoCycle EXCEPT !.run = Head(orders), !.taken = tick, !.ok = b, !.phase = ph]
    BY <1>3, <2>3, ZenonT(60) DEF RunOrderRunner
  <2>6. cycle' \in Cycle /\ cycle'.run = Head(orders)
    <3>1. tick \in Nat
      BY DEF ScanRunsTyped
    <3>2. PICK c : c = NoCycle
      OBVIOUS
    <3>3. PICK r : r = Head(orders)
      OBVIOUS
    <3>4. c \in Cycle /\ r \in ScanOrders
      BY <1>c, <2>2, <3>2, <3>3
    <3>5. cycle' = [c EXCEPT !.run = r, !.taken = tick, !.ok = b, !.phase = ph]
      BY <2>5, <3>2, <3>3
    <3>6. cycle' \in Cycle /\ cycle'.run = r
      BY <2>4, <3>1, <3>4, <3>5, ZenonT(60) DEF Cycle
    <3> QED BY <3>3, <3>6
  <2>7. /\ reports' \in SUBSET Report /\ ReadReportsAdvance'
        /\ reached' \in [run : ScanOrders \cup {NoRun}, stage : StageNames]
    <3>1. CASE b
      <4>1. ReportStage(Head(orders), "mounts_checked") /\ "mounts_checked" \in StageNames
        BY <1>3, <3>1, ZenonT(60) DEF RunOrderRunner, StageNames
      <4>2. reports' \in SUBSET Report /\ ReadReportsAdvance'
        BY <2>2, <4>1, SendKeeps DEF ReportStage
      <4> QED BY <2>2, <4>1, <4>2 DEF ReportStage
    <3>2. CASE ~ b
      BY <1>3, <1>e, <3>2, ZenonT(60) DEF RunOrderRunner, ScanRunsTyped
    <3> QED BY <3>1, <3>2
  <2> QED BY <1>3, <2>1, <2>2, <2>6, <2>7, ZenonT(60) DEF RunOrderRunner, ScanRunsTyped
<1>4. ASSUME NEW b \in BOOLEAN, RunRefresh(b)
      PROVE  ScanInv' /\ Advances /\ Proves
  <2>1. scans' \in [ScanOrders -> Scan] /\ Advances /\ Proves /\ proven' \in BOOLEAN
    BY <1>4, BirdcageAlone DEF RunRefresh
  <2>2. refreshed' \in Int /\ cycle.run \in ScanOrders
    BY <1>4 DEF RunRefresh, ScanRunsTyped
  <2>3. cycle' \in Cycle /\ cycle'.run = cycle.run
    BY <1>4, <1>b, <2>2, ZenonT(60) DEF RunRefresh, Cycle
  <2>4. ReportStage(cycle.run, "db_refreshed") /\ "db_refreshed" \in StageNames
    BY <1>4 DEF RunRefresh, StageNames
  <2>5. reports' \in SUBSET Report /\ ReadReportsAdvance'
    BY <1>b, <2>4, SendKeeps DEF ReportStage
  <2>6. reached' \in [run : ScanOrders \cup {NoRun}, stage : StageNames]
    BY <1>b, <2>4 DEF ReportStage
  <2> QED BY <1>4, <2>1, <2>2, <2>3, <2>5, <2>6 DEF RunRefresh, ScanRunsTyped
<1>5. ASSUME NEW ok \in BOOLEAN, BuildSnapshot(ok)
      PROVE  ScanInv' /\ Advances /\ Proves
  <2>1. scans' \in [ScanOrders -> Scan] /\ Advances /\ Proves /\ proven' \in BOOLEAN
    BY <1>5, BirdcageAlone, ZenonT(60) DEF BuildSnapshot
  <2>2. cycle.run \in ScanOrders
    BY <1>5, ZenonT(60) DEF BuildSnapshot, ScanRunsTyped
  <2>3. cycle' \in Cycle /\ cycle'.run = cycle.run
    BY <1>5, <1>b, ZenonT(60) DEF BuildSnapshot, Cycle
  <2>4. ReportStage(cycle.run, "scanning") /\ "scanning" \in StageNames
    BY <1>5, ZenonT(60) DEF BuildSnapshot, StageNames
  <2>5. reports' \in SUBSET Report /\ ReadReportsAdvance'
    BY <1>b, <2>4, SendKeeps DEF ReportStage
  <2>6. reached' \in [run : ScanOrders \cup {NoRun}, stage : StageNames]
    BY <1>b, <2>4 DEF ReportStage
  <2> QED BY <1>5, <2>1, <2>2, <2>3, <2>5, <2>6, ZenonT(60) DEF BuildSnapshot, ScanRunsTyped
<1>6. ASSUME NEW stored \in BOOLEAN, NEW answered \in BOOLEAN, RunScanOnce(stored, answered)
      PROVE  ScanInv' /\ Advances /\ Proves
  <2>1. cycle.run \in ScanOrders
    BY <1>6 DEF RunScanOnce, ScanRunsTyped
  <2>2. scans' \in [ScanOrders -> Scan] /\ Advances /\ Proves /\ proven' \in BOOLEAN
    <3>1. CASE stored
      BY <1>6, <2>1, <3>1, Matching DEF RunScanOnce, HandleScan
    <3>2. CASE ~ stored
      <4>1. UNCHANGED scans /\ proven' = proven
        BY <1>6, <3>2 DEF RunScanOnce, HandleScan
      <4>2. scans' \in [ScanOrders -> Scan] /\ Advances
        BY <4>1, SameRows
      <4>3. proven' \in BOOLEAN
        BY <4>1 DEF ScanRunsTyped
      <4> QED BY <4>1, <4>2, <4>3 DEF Proves
    <3> QED BY <3>1, <3>2
  <2>3. reached' \in [run : ScanOrders \cup {NoRun}, stage : StageNames]
    BY <1>6, <1>d DEF RunScanOnce, ScanRunsTyped
  <2>4. cycle' \in Cycle /\ cycle'.phase = "idle"
    BY <1>6, <1>c DEF RunScanOnce
  <2> QED BY <1>6, <1>e, <2>2, <2>3, <2>4 DEF RunScanOnce, ScanRunsTyped
<1>7. ASSUME NightjarRestart
      PROVE  ScanInv' /\ Advances /\ Proves
  <2>1. scans' \in [ScanOrders -> Scan] /\ Advances /\ Proves /\ proven' \in BOOLEAN
    BY <1>7, BirdcageAlone DEF NightjarRestart
  <2>2. refreshed' \in Int /\ orders' \in Seq(ScanOrders)
    BY <1>7 DEF NightjarRestart, LoadDBRefreshTracker, NeverRefreshed, ScanRunsTyped
  <2>3. cycle' \in Cycle /\ cycle'.phase = "idle"
    BY <1>7, <1>c, SMTT(60) DEF NightjarRestart
  <2> QED BY <1>7, <1>d, <1>e, <2>1, <2>2, <2>3 DEF NightjarRestart, ScanRunsTyped
<1>8. ASSUME TickOn
      PROVE  ScanInv' /\ Advances /\ Proves
  <2>1. scans' \in [ScanOrders -> Scan] /\ Advances /\ Proves /\ proven' \in BOOLEAN
    BY <1>8, BirdcageAlone, SMTT(60) DEF TickOn
  <2> QED BY <1>8, <1>e, <2>1 DEF TickOn, ScanRunsTyped
<1>9. ASSUME UNCHANGED scanVars
      PROVE  ScanInv' /\ Advances /\ Proves
  <2>1. scans' \in [ScanOrders -> Scan] /\ Advances /\ Proves /\ proven' \in BOOLEAN
    BY <1>9, BirdcageAlone DEF scanVars, birdcageScanVars
  <2> QED BY <1>9, <1>e, <2>1 DEF scanVars, ScanRunsTyped
<1> QED BY <1>1, <1>2, <1>3, <1>4, <1>5, <1>6, <1>7, <1>8, <1>9

\* Every step keeps the invariant and does what the two properties say.
LEMMA ScanStep == ScanInv /\ [ScanNext]_scanVars => ScanInv' /\ Advances /\ Proves
BY BirdcageSteps, NightjarSteps DEF ScanNext

\* The invariant holds for any number of runs and heartbeats under way.
THEOREM ScanInvariant == ScanSpec => []ScanInv
<1>1. ScanInv /\ [ScanNext]_scanVars => ScanInv'
  BY ScanStep
<1> QED BY ScanInitially, <1>1, PTL DEF ScanSpec

\* No report, however late and in whatever order it is handled, moves a
\* run's stage back or touches a completed run (AdvanceRunStage).
THEOREM StagesAdvance == ScanSpec => StagesOnlyAdvance
<1>1. ScanInv /\ [ScanNext]_scanVars
      => [\A r \in MintedScans :
            /\ Rank(scans'[r].stage) >= Rank(scans[r].stage)
            /\ scans[r].verdict # "open" => scans'[r] = scans[r]]_scanVars
  BY ScanStep DEF Advances
<1> QED BY ScanInvariant, <1>1, PTL DEF ScanSpec, StagesOnlyAdvance

\* A node leaves pending only by an open proof run whose snapshot carries a
\* refresh made since it was issued (MatchScanRun).
THEOREM NodesAreProven == ScanSpec => ProvenByProof
<1>1. ScanInv /\ [ScanNext]_scanVars
      => [~proven /\ proven' =>
            \E r \in OpenScans : /\ scans'[r].verdict = "passed" /\ scans[r].trigger = "proof"
                                 /\ cycle.run = r /\ cycle.refreshed >= scans[r].issued]_scanVars
  BY ScanStep DEF Proves
<1> QED BY ScanInvariant, <1>1, PTL DEF ScanSpec, ProvenByProof
=============================================================================
