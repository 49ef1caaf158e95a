-------------------------- MODULE DashboardProofs ---------------------------
(***************************************************************************)
(* Proofs about what birdcage keeps and shows of its agents: the state     *)
(* history, for any agents, states and collapse window, and the tiles of   *)
(* the dashboard, for any thresholds.                                      *)
(***************************************************************************)
EXTENDS History, Health, TLAPS

-----------------------------------------------------------------------------
(* The state history.                                                      *)

\* A span is a row; it starts no later than the last tick, and if it has
\* ended, then not before it started and not in the future.
Span == [agent : Watched, state : SpanStates, from : Nat, to : Nat \cup {Still}]

\* Types and times of the spans.
SpanInv ==
    /\ instant \in Nat /\ lastTick \in Nat /\ lastTick <= instant
    /\ holding \subseteq HistoryKeys
    /\ spans \subseteq Span
    /\ \A p \in spans : p.from <= lastTick
    /\ \A p \in spans : p.to # Still => p.from <= p.to /\ p.to <= instant

\* q is the later of two spans of one state.
SameState(p, q) == p # q /\ p.agent = q.agent /\ p.state = q.state /\ p.state # "unobserved"

\* p ended, and so long before q that q was not collapsed into it.
LongBefore(p, q) == p.to # Still /\ p.to + CollapseWindow < q.from

\* Spans of one state are further apart than the collapse window, and so
\* only the latest of them can be open.
SpansApart == \A p, q \in spans : SameState(p, q) /\ p.from <= q.from => LongBefore(p, q)

\* A span's times are times.
LEMMA SpanForm ==
    ASSUME NEW p \in Span
    PROVE  p.from \in Nat /\ (p.to # Still => p.to \in Nat)
  BY DEF Span

\* Writing a span's end changes nothing else of it.
LEMMA EndWritten ==
    ASSUME NEW p \in Span, NEW t \in Nat \cup {Still}, NEW q, q = [p EXCEPT !.to = t]
    PROVE  q \in Span /\ q.agent = p.agent /\ q.state = p.state /\ q.from = p.from /\ q.to = t
  BY DEF Span

\* Where a row of the reconciled table comes from.
LEMMA Origins ==
    ASSUME NEW n \in Reconcile
    PROVE  \/ /\ n \in spans
              /\ ~(n.to = Still /\ <<n.agent, n.state>> \notin holding)
              /\ \A k \in NewlyActive : n \notin Collapsed(k)
           \/ \E k \in NewlyActive : n = OpenOrCollapse(k)
           \/ \E p \in spans : /\ p.to = Still /\ <<p.agent, p.state>> \notin holding
                               /\ n = CloseStatePeriod(p, instant)
  BY Zenon DEF Reconcile, OpenStatePeriods

\* The keys of the derived states.
LEMMA Keys ==
    ASSUME SpanInv, NEW k \in NewlyActive
    PROVE  /\ k \in holding /\ k = <<k[1], k[2]>> /\ k[1] \in Watched /\ k[2] \in SpanStates
           /\ k[2] # "unobserved"
           /\ \A p \in spans : p.agent = k[1] /\ p.state = k[2] => p.to # Still
<1>1. k \in Watched \X Conditions /\ k \in holding /\ ~Open(k, spans)
  BY DEF NewlyActive, SpanInv, HistoryKeys
<1>2. k = <<k[1], k[2]>> /\ k[1] \in Watched /\ k[2] \in Conditions
  BY <1>1, SMTT(60)
<1> QED BY <1>1, <1>2, HistoryConstants, ZenonT(60) DEF Open, SpanStates

\* openOrCollapse finds at most one span to collapse into, the latest of the
\* state, and all that it leaves alone ended long before the span it opens.
LEMMA Opened ==
    ASSUME SpanInv, SpansApart, NEW k \in NewlyActive, NEW n, n = OpenOrCollapse(k)
    PROVE  /\ n \in Span /\ n.agent = k[1] /\ n.state = k[2] /\ n.from <= instant /\ n.to = Still
           /\ \A q \in spans : q.agent = k[1] /\ q.state = k[2] /\ q \notin Collapsed(k)
                               => LongBefore(q, n)
<1>0. /\ instant \in Nat /\ lastTick \in Nat /\ lastTick <= instant /\ CollapseWindow \in Nat
      /\ \A p \in spans : p.from \in Nat /\ (p.to # Still => p.to \in Nat)
  BY SpanForm, HistoryConstants, SMTT(60) DEF SpanInv
<1>k. /\ k = <<k[1], k[2]>> /\ k[1] \in Watched /\ k[2] \in SpanStates /\ k[2] # "unobserved"
      /\ \A p \in spans : p.agent = k[1] /\ p.state = k[2] => p.to # Still
  BY Keys, SMTT(60)
<1>r. \A p \in Recent(k) : /\ p \in spans /\ p.agent = k[1] /\ p.state = k[2] /\ p.to # Still
                           /\ p.to + CollapseWindow >= instant
  <2>1. \A p \in Recent(k) : p \in spans /\ <<p.agent, p.state>> = k /\ p.to # Still
                             /\ p.to + CollapseWindow >= instant
    BY Zenon DEF Recent
  <2>2. \A a, b : <<a, b>> = k => a = k[1] /\ b = k[2]
    OBVIOUS
  <2> QED BY <2>1, <2>2, ZenonT(60)
<1>n. \A p \in spans : p.agent = k[1] /\ p.state = k[2] /\ p \notin Recent(k)
                       => p.to # Still /\ ~(p.to + CollapseWindow >= instant)
  BY <1>k, ZenonT(60) DEF Recent
<1>1. CASE Recent(k) = {}
  <2>1. n = [agent |-> k[1], state |-> k[2], from |-> instant, to |-> Still]
    BY <1>1, SMTT(60) DEF OpenOrCollapse
  <2>2. n \in Span /\ n.agent = k[1] /\ n.state = k[2] /\ n.from = instant /\ n.to = Still
    BY <1>0, <1>k, <2>1, SMTT(60) DEF Span
  <2>3. ASSUME NEW q \in spans, q.agent = k[1], q.state = k[2] PROVE LongBefore(q, n)
    BY <1>0, <1>1, <1>n, <2>2, <2>3, SMTT(60) DEF LongBefore
  <2> QED BY <1>0, <2>2, <2>3, SMTT(60)
<1>2. ASSUME NEW p \in Recent(k) PROVE Recent(k) = {p}
  <2> SUFFICES ASSUME NEW q \in Recent(k), q # p PROVE FALSE
    BY ZenonT(60)
  <2>1. SameState(p, q) /\ SameState(q, p)
    BY <1>k, <1>r, SMTT(60) DEF SameState
  <2>2. /\ p.from \in Nat /\ p.to \in Nat /\ q.from \in Nat /\ q.to \in Nat
        /\ p.from <= lastTick /\ q.from <= lastTick
    BY <1>0, <1>r, SMTT(60) DEF SpanInv
  <2>3. CASE p.from <= q.from
    BY <1>0, <1>r, <2>1, <2>2, <2>3, SMTT(60) DEF SpansApart, LongBefore
  <2>4. CASE q.from <= p.from
    BY <1>0, <1>r, <2>1, <2>2, <2>4, SMTT(60) DEF SpansApart, LongBefore
  <2> QED BY <2>2, <2>3, <2>4, SMTT(60)
<1>3. ASSUME NEW p \in Recent(k)
      PROVE  /\ n \in Span /\ n.agent = k[1] /\ n.state = k[2] /\ n.from <= instant /\ n.to = Still
             /\ \A q \in spans : q.agent = k[1] /\ q.state = k[2] /\ q \notin Collapsed(k)
                                 => LongBefore(q, n)
  <2>1. Recent(k) = {p} /\ p \in Span /\ p.to \in Nat /\ p.from \in Nat /\ p.from <= lastTick
    BY <1>0, <1>2, <1>r, SMTT(60) DEF SpanInv
  <2>2. Collapsed(k) = {p} /\ (CHOOSE x \in Recent(k) : \A q \in Recent(k) : q.to <= x.to) = p
    <3>1. p.to <= p.to
      BY <2>1
    <3> QED BY <2>1, <3>1, ZenonT(60) DEF Collapsed
  <2>3. n = [p EXCEPT !.to = Still]
    <3>1. Recent(k) # {}
      BY <2>1, ZenonT(60)
    <3>2. n = [(CHOOSE x \in Recent(k) : \A q \in Recent(k) : q.to <= x.to) EXCEPT !.to = Still]
      BY <3>1, ZenonT(60) DEF OpenOrCollapse
    <3> QED BY <2>2, <3>2, ZenonT(60)
  <2>4. n \in Span /\ n.agent = k[1] /\ n.state = k[2] /\ n.from = p.from /\ n.to = Still
    <3>1. Still \in Nat \cup {Still}
      BY Zenon
    <3>2. p.agent = k[1] /\ p.state = k[2]
      BY <1>r, ZenonT(60)
    <3> QED BY <2>1, <2>3, <3>1, <3>2, EndWritten, SMTT(60)
  <2>5. ASSUME NEW q \in spans, q.agent = k[1], q.state = k[2], q # p PROVE LongBefore(q, n)
    <3>1. SameState(p, q) /\ SameState(q, p)
      BY <1>k, <1>r, <2>5, SMTT(60) DEF SameState
    <3>2. q.from \in Nat /\ q.from <= lastTick
      BY <1>0, SMTT(60) DEF SpanInv
    <3>3. ~(p.from <= q.from)
      BY <1>0, <1>r, <2>1, <3>1, <3>2, SMTT(60) DEF SpansApart, LongBefore
    <3>4. LongBefore(q, p)
      BY <1>r, <2>1, <3>1, <3>2, <3>3, SMTT(60) DEF SpansApart
    <3> QED BY <2>4, <3>4, SMTT(60) DEF LongBefore
  <2> QED BY <1>0, <2>1, <2>2, <2>4, <2>5, SMTT(60)
<1> QED BY <1>1, <1>3, SMTT(60)

\* A row whose end is written was the only open one of its state.
LEMMA Closed ==
    ASSUME SpanInv, SpansApart, NEW p \in spans, p.to = Still, NEW t \in Nat,
           NEW n, n = CloseStatePeriod(p, t)
    PROVE  /\ n \in Span /\ n.agent = p.agent /\ n.state = p.state /\ n.from = p.from /\ n.to = t
           /\ \A q \in spans : SameState(q, p) => LongBefore(q, n)
<1>1. n \in Span /\ n.agent = p.agent /\ n.state = p.state /\ n.from = p.from /\ n.to = t
  BY EndWritten, SMTT(60) DEF SpanInv, CloseStatePeriod
<1>2. ASSUME NEW q \in spans, SameState(q, p) PROVE LongBefore(q, n)
  <2>1. p.from \in Nat /\ q.from \in Nat
    BY SpanForm, SMTT(60) DEF SpanInv
  <2>2. SameState(p, q)
    BY <1>2, SMTT(60) DEF SameState
  <2>3. ~(p.from <= q.from)
    BY <2>2, SMTT(60) DEF SpansApart, LongBefore
  <2>4. LongBefore(q, p)
    BY <1>2, <2>1, <2>3, SMTT(60) DEF SpansApart
  <2> QED BY <1>1, <2>4, SMTT(60) DEF LongBefore
<1> QED BY <1>1, <1>2, SMTT(60)

\* A row that reconcile writes comes after every other one of its state.
LEMMA Written ==
    ASSUME SpanInv, SpansApart, NEW n \in Reconcile, NEW m \in Reconcile, n \notin spans,
           SameState(m, n)
    PROVE  LongBefore(m, n)
<1>0. n.agent = m.agent /\ n.state = m.state /\ m # n /\ instant \in Nat
  BY DEF SameState, SpanInv
<1>1. ASSUME NEW k \in NewlyActive, n = OpenOrCollapse(k) PROVE LongBefore(m, n)
  <2>1. /\ n.agent = k[1] /\ n.state = k[2]
        /\ \A q \in spans : q.agent = k[1] /\ q.state = k[2] /\ q \notin Collapsed(k)
                            => LongBefore(q, n)
    BY <1>1, Opened
  <2>2. CASE m \in spans /\ \A j \in NewlyActive : m \notin Collapsed(j)
    BY <1>0, <2>1, <2>2, ZenonT(60)
  <2>3. ASSUME NEW j \in NewlyActive, m = OpenOrCollapse(j) PROVE FALSE
    <3>1. m.agent = j[1] /\ m.state = j[2]
      BY <2>3, Opened, SMTT(60)
    <3>2. j = k
      BY <1>0, <2>1, <3>1, Keys, ZenonT(60)
    <3> QED BY <1>0, <1>1, <2>3, <3>2, SMTT(60)
  <2>4. ASSUME NEW p \in spans, p.to = Still, m = CloseStatePeriod(p, instant) PROVE FALSE
    <3>1. m.agent = p.agent /\ m.state = p.state
      BY <1>0, <2>4, Closed
    <3> QED BY <1>0, <2>1, <2>4, <3>1, Keys, ZenonT(60)
  <2> QED BY <2>2, <2>3, <2>4, Origins
<1>2. ASSUME NEW p \in spans, p.to = Still, <<p.agent, p.state>> \notin holding,
             n = CloseStatePeriod(p, instant)
      PROVE  LongBefore(m, n)
  <2>1. /\ n.agent = p.agent /\ n.state = p.state
        /\ \A q \in spans : SameState(q, p) => LongBefore(q, n)
    BY <1>0, <1>2, Closed
  <2>2. CASE m \in spans /\ ~(m.to = Still /\ <<m.agent, m.state>> \notin holding)
    <3>1. m # p
      BY <1>2, <2>2
    <3>2. SameState(m, p)
      BY <2>1, <3>1, SMTT(60) DEF SameState
    <3> QED BY <2>1, <2>2, <3>2
  <2>3. ASSUME NEW j \in NewlyActive, m = OpenOrCollapse(j) PROVE FALSE
    <3>1. m.agent = j[1] /\ m.state = j[2]
      BY <2>3, Opened, SMTT(60)
    <3> QED BY <1>0, <1>2, <2>1, <3>1, Keys, SMTT(60)
  <2>4. ASSUME NEW q \in spans, q.to = Still, m = CloseStatePeriod(q, instant) PROVE FALSE
    <3>1. m.agent = q.agent /\ m.state = q.state
      BY <1>0, <2>4, Closed, SMTT(60)
    <3>2. q # p
      BY <1>0, <1>2, <2>4, SMTT(60)
    <3>3. SameState(q, p) /\ SameState(p, q)
      BY <2>1, <3>1, <3>2, SMTT(60) DEF SameState
    <3>4. p.from \in Nat /\ q.from \in Nat
      BY SpanForm, SMTT(60) DEF SpanInv
    <3> QED BY <1>2, <2>4, <3>3, <3>4, SMTT(60) DEF SpansApart, LongBefore
  <2> QED BY <2>2, <2>3, <2>4, Origins, ZenonT(60)
<1> QED BY <1>1, <1>2, Origins, ZenonT(60)

\* A table whose written rows each come after every other row of their state
\* keeps the spans apart.
LEMMA ApartFromLatest ==
    ASSUME SpansApart, spans' \subseteq Span,
           \A n \in spans' : n.to # Still => n.from <= n.to,
           \A n, m \in spans' : n \notin spans /\ SameState(m, n) => LongBefore(m, n)
    PROVE  SpansApart'
<1> SUFFICES ASSUME NEW p \in spans', NEW q \in spans', SameState(p, q), p.from <= q.from
             PROVE  LongBefore(p, q)
  BY SMTT(60) DEF SpansApart, SameState, LongBefore
<1>1. CASE q \notin spans
  BY <1>1, SMTT(60)
<1>2. CASE p \notin spans
  <2>1. SameState(q, p)
    BY SMTT(60) DEF SameState
  <2>2. LongBefore(q, p)
    BY <1>2, <2>1, SMTT(60)
  <2> QED BY <2>2, SpanForm, HistoryConstants, SMTT(60) DEF LongBefore
<1>3. CASE p \in spans /\ q \in spans
  BY <1>3, SMTT(60) DEF SpansApart
<1> QED BY <1>1, <1>2, <1>3, SMTT(60)

\* The tick's transaction.
LEMMA TickStep ==
    ASSUME SpanInv, SpansApart, Tick
    PROVE  SpanInv' /\ SpansApart'
<1>0. spans' = Reconcile /\ lastTick' = instant /\ UNCHANGED <<instant, holding>>
  BY ZenonT(60) DEF Tick
<1>1. instant \in Nat /\ lastTick \in Nat /\ lastTick <= instant /\ spans \subseteq Span
  BY SMTT(60) DEF SpanInv
<1>2. ASSUME NEW n \in Reconcile
      PROVE  n \in Span /\ n.from <= instant /\ (n.to # Still => n.from <= n.to /\ n.to <= instant)
  <2>1. CASE n \in spans
    <3>1. n.from \in Nat /\ n.from <= lastTick
      BY <1>1, <2>1, SpanForm, SMTT(60) DEF SpanInv
    <3> QED BY <1>1, <2>1, <3>1, SMTT(60) DEF SpanInv
  <2>2. ASSUME NEW k \in NewlyActive, n = OpenOrCollapse(k)
        PROVE  n \in Span /\ n.from <= instant /\ n.to = Still
    BY <2>2, Opened, SMTT(60)
  <2>3. ASSUME NEW p \in spans, p.to = Still, n = CloseStatePeriod(p, instant)
        PROVE  n \in Span /\ n.from <= instant /\ n.to = instant
    <3>1. n \in Span /\ n.from = p.from /\ n.to = instant
      BY <1>1, <2>3, Closed, SMTT(60)
    <3>2. p.from \in Nat /\ p.from <= lastTick
      BY <1>1, SpanForm, SMTT(60) DEF SpanInv
    <3> QED BY <1>1, <3>1, <3>2, SMTT(60)
  <2> QED BY <1>1, <2>1, <2>2, <2>3, Origins, SMTT(60)
<1>3. SpanInv'
  BY <1>0, <1>1, <1>2, SMTT(60) DEF SpanInv
<1>4. \A n, m \in spans' : n \notin spans /\ SameState(m, n) => LongBefore(m, n)
  BY <1>0, Written, SMTT(60)
<1> QED BY <1>3, <1>4, ApartFromLatest, SMTT(60) DEF SpanInv

\* recordUnobserved's transaction.
LEMMA UnobservedStep ==
    ASSUME SpanInv, SpansApart, RecordUnobserved
    PROVE  SpanInv' /\ SpansApart'
<1> DEFINE U == {[agent |-> a, state |-> "unobserved", from |-> lastTick, to |-> instant] : a \in Watched}
<1>0. /\ spans' = {p \in spans : p.to # Still}
                     \cup {CloseStatePeriod(p, lastTick) : p \in OpenStatePeriods} \cup U
      /\ UNCHANGED <<instant, holding, lastTick>>
  BY Zenon DEF RecordUnobserved
<1>1. instant \in Nat /\ lastTick \in Nat /\ lastTick <= instant /\ spans \subseteq Span
  BY SMTT(60) DEF SpanInv
<1>2. ASSUME NEW n \in U
      PROVE  n \in Span /\ n.state = "unobserved" /\ n.from = lastTick /\ n.to = instant
  BY <1>1 DEF Span, SpanStates
<1> HIDE DEF U
<1>3. ASSUME NEW n \in spans'
      PROVE  n \in spans \/ (\E p \in spans : p.to = Still /\ n = CloseStatePeriod(p, lastTick)) \/ n \in U
  BY <1>0, Zenon DEF OpenStatePeriods
<1>4. ASSUME NEW n \in spans', n \in spans PROVE n.to # Still
  <2>1. ASSUME NEW p \in spans, p.to = Still, n = CloseStatePeriod(p, lastTick) PROVE n.to # Still
    BY <1>1, <2>1, Closed, HistoryConstants, SMTT(60)
  <2>2. CASE n \in U
    BY <1>1, <1>2, <2>2, HistoryConstants, SMTT(60)
  <2> QED BY <1>0, <2>1, <2>2, ZenonT(60) DEF OpenStatePeriods
<1>5. ASSUME NEW n \in spans'
      PROVE  n \in Span /\ n.from <= lastTick /\ (n.to # Still => n.from <= n.to /\ n.to <= instant)
  <2>1. CASE n \in spans
    BY <2>1, SMTT(60) DEF SpanInv
  <2>2. ASSUME NEW p \in spans, p.to = Still, n = CloseStatePeriod(p, lastTick)
        PROVE  n \in Span /\ n.from <= lastTick /\ n.to = lastTick
    BY <1>1, <2>2, Closed, SMTT(60) DEF SpanInv
  <2> QED BY <1>1, <1>2, <1>3, <2>1, <2>2, SMTT(60)
<1>6. SpanInv'
  BY <1>0, <1>1, <1>5, SMTT(60) DEF SpanInv
<1>7. ASSUME NEW n \in spans', NEW m \in spans', n \notin spans, SameState(m, n)
      PROVE  LongBefore(m, n)
  <2>1. n \notin U /\ m \notin U
    BY <1>2, <1>7, SMTT(60) DEF SameState
  <2>2. PICK p \in spans : p.to = Still /\ n = CloseStatePeriod(p, lastTick)
    BY <1>3, <1>7, <2>1, SMTT(60)
  <2>3. /\ n.agent = p.agent /\ n.state = p.state
        /\ \A q \in spans : SameState(q, p) => LongBefore(q, n)
    BY <1>1, <2>2, Closed, SMTT(60)
  <2>4. CASE m \in spans
    <3>1. m # p
      BY <1>4, <2>2, <2>4, SMTT(60)
    <3>2. SameState(m, p)
      BY <1>7, <2>3, <3>1, SMTT(60) DEF SameState
    <3> QED BY <2>3, <2>4, <3>2, SMTT(60)
  <2>5. ASSUME NEW q \in spans, q.to = Still, m = CloseStatePeriod(q, lastTick) PROVE FALSE
    <3>1. m.agent = q.agent /\ m.state = q.state
      BY <1>1, <2>5, Closed, SMTT(60)
    <3>2. q # p
      BY <1>7, <2>2, <2>5, SMTT(60) DEF SameState
    <3>3. SameState(q, p) /\ SameState(p, q)
      BY <1>7, <2>3, <3>1, <3>2, SMTT(60) DEF SameState
    <3>4. p.from \in Nat /\ q.from \in Nat
      BY SpanForm DEF SpanInv
    <3> QED BY <2>2, <2>5, <3>3, <3>4, SMTT(60) DEF SpansApart, LongBefore
  <2> QED BY <1>3, <2>1, <2>4, <2>5, SMTT(60)
<1> QED BY <1>5, <1>6, <1>7, ApartFromLatest, SMTT(60) DEF SpanInv

\* The spans of one agent's state never overlap and at most one of them is
\* open, through flapping, collapsing, outages and crashes during start-up,
\* for any number of agents and states and any collapse window: openOrCollapse
\* never leaves two spans close enough for a later one to be collapsed into
\* the wrong one.
THEOREM HistorySpansDisjoint == HistorySpec => []SpansDisjoint
<1>1. HistoryInit => SpanInv /\ SpansApart
  BY DEF HistoryInit, SpanInv, SpansApart
<1>2. SpanInv /\ SpansApart /\ [HistoryNext]_historyVars => SpanInv' /\ SpansApart'
  <2> SUFFICES ASSUME SpanInv, SpansApart, [HistoryNext]_historyVars PROVE SpanInv' /\ SpansApart'
    BY SMTT(60)
  <2>1. CASE UNCHANGED <<instant, holding, spans, lastTick>>
    BY <2>1 DEF SpanInv, SpansApart, SameState, LongBefore
  <2>2. CASE StartAtOnce \/ DriftTick \/ RecorderCrash \/ UNCHANGED historyVars
    BY <2>1, <2>2, ZenonT(60) DEF StartAtOnce, DriftTick, RecorderCrash, historyVars
  <2>3. CASE InstantPasses
    <3>1. instant' = instant + 1 /\ holding' \subseteq HistoryKeys /\ UNCHANGED <<spans, lastTick>>
      BY <2>3, SMTT(60) DEF InstantPasses, SpanInv
    <3>2. SpansApart'
      BY <3>1, SMTT(60) DEF SpansApart, SameState, LongBefore
    <3>3. \A p \in spans : p.to # Still => p.to \in Nat
      BY SpanForm, SMTT(60) DEF SpanInv
    <3> QED BY <3>1, <3>2, <3>3, SMTT(60) DEF SpanInv
  <2> QED BY <2>2, <2>3, TickStep, UnobservedStep, SMTT(60) DEF HistoryNext
<1>3. SpanInv /\ SpansApart => SpansDisjoint
  <2> SUFFICES ASSUME SpanInv, SpansApart, NEW p \in spans, NEW q \in spans, SameState(p, q),
                      p.from <= q.from
               PROVE  p.to # Still /\ p.to <= q.from
    BY DEF SpansDisjoint, SameState
  <2> QED BY SpanForm, HistoryConstants, SMTT(60) DEF SpansApart, LongBefore, SpanInv
<1> QED BY <1>1, <1>2, <1>3, PTL DEF HistorySpec

-----------------------------------------------------------------------------
(* The tiles of the dashboard.                                             *)

\* A row of the agent's bearer tokens.
Token == [created : Nat, used : BOOLEAN]

\* A row's last heartbeat is one that was heard.
Beaten(row) == row.beat # NoTime => heardAt # NoTime /\ row.beat <= heardAt

\* The agent's row, a heartbeat being handled, and a listing under way.
AgentRow == [beat : Nat \cup {NoTime}, report : Reports \cup {{}}]

\* A heartbeat the handler works on.
Heartbeat == [at : Nat, report : Reports, recorded : BOOLEAN]

\* A request for the dashboard's list of agents.
Listing == [at : {"idle", "rows", "signals"}, now : Nat, row : AgentRow]

\* The types of the dashboard's variables that the others rest on.
BoardTyped ==
    /\ reading \in Nat /\ agentRow \in AgentRow /\ listing \in Listing /\ handled \subseteq Heartbeat
    /\ heardAt \in Nat \cup {NoTime}

\* Nothing the dashboard holds is later than the last heartbeat heard, and
\* that is not in the future.
HealthInv ==
    /\ BoardTyped
    /\ heardAt # NoTime => heardAt <= reading
    /\ Beaten(agentRow) /\ Beaten(listing.row)
    /\ \A b \in handled : heardAt # NoTime /\ b.at <= heardAt

\* What the coalescer remembers is the audit log's, and a crossing is
\* covered by an entry written within the coalescing interval before it.
CrossingInv ==
    /\ auditLog \in [AuditActions -> Nat \cup {NoTime}] /\ coalescer \in [AuditActions -> Nat \cup {NoTime}]
    /\ crossedAt \in [AuditActions -> Nat \cup {NoTime}]
    /\ \A a \in AuditActions :
         /\ coalescer[a] # NoTime => coalescer[a] = auditLog[a]
         /\ crossedAt[a] # NoTime => auditLog[a] # NoTime /\ crossedAt[a] - auditLog[a] <= CoalesceInterval

\* A used token was created no later than the last first use of one, and
\* there is a newest used token.
TokensInv ==
    /\ agentTokens \in Seq(Token) /\ rotatedAt \in Nat /\ rotatedAt <= reading
    /\ \A i \in 1..Len(agentTokens) :
         agentTokens[i].created <= reading /\ (agentTokens[i].used => agentTokens[i].created <= rotatedAt)
    /\ \E m \in 1..Len(agentTokens) :
         agentTokens[m].used /\ \A j \in 1..Len(agentTokens) : agentTokens[j].used => j <= m

\* The dashboard's variables keep their types.
LEMMA BoardTypes ==
  ASSUME BoardTyped, [HealthNext]_healthVars
  PROVE  BoardTyped'
<1> USE DEF BoardTyped
<1>1. CASE UNCHANGED <<reading, agentRow, handled, listing, heardAt>>
  BY <1>1, ZenonT(60)
<1>n. NoListing \in Listing /\ NoListing.row \in AgentRow
  <2>1. [beat |-> NoTime, report |-> {}] \in AgentRow
    BY SMTT(60) DEF AgentRow
  <2>2. PICK r \in AgentRow : r = [beat |-> NoTime, report |-> {}]
    BY <2>1, SMTT(60)
  <2>3. NoListing = [at |-> "idle", now |-> 0, row |-> r]
    BY <2>2, SMTT(60) DEF NoListing
  <2>4. QED
    BY <2>2, <2>3, SMTT(60) DEF Listing
<1>2. ASSUME NEW r \in Reports, HandleHeartbeat(r) PROVE BoardTyped'
  <2>1. [at |-> reading, report |-> r, recorded |-> FALSE] \in Heartbeat
    BY DEF Heartbeat
  <2>2. QED
    BY <1>2, <2>1, ZenonT(60) DEF HandleHeartbeat
<1>3. ASSUME NEW b \in handled, RecordHeartbeat(b) PROVE BoardTyped'
  <2>1. [b EXCEPT !.recorded = TRUE] \in Heartbeat
    BY ZenonT(60) DEF Heartbeat
  <2>2. [agentRow EXCEPT !.beat = b.at] \in AgentRow
    BY DEF Heartbeat, AgentRow
  <2>3. QED
    BY <1>3, <2>1, <2>2, ZenonT(60) DEF RecordHeartbeat
<1>4. ASSUME NEW b \in handled, RecordCanaryAgentHeartbeat(b) PROVE BoardTyped'
  <2>2. [agentRow EXCEPT !.report = b.report] \in AgentRow
    BY DEF Heartbeat, AgentRow
  <2>3. QED
    BY <1>4, <2>2, Zenon DEF RecordCanaryAgentHeartbeat
<1>5. ASSUME NEW b \in handled, HeartbeatFails(b) PROVE BoardTyped'
  BY <1>5, Zenon DEF HeartbeatFails
<1>6. CASE BeginListing
  <2>1. [NoListing EXCEPT !.at = "rows", !.now = reading] \in Listing
    BY <1>n, ZenonT(60) DEF Listing
  <2>2. QED
    BY <1>6, <2>1, Zenon DEF BeginListing
<1>7. CASE ReadRows
  <2>1. [listing EXCEPT !.at = "signals", !.row = agentRow] \in Listing
    BY ZenonT(60) DEF Listing
  <2>2. QED
    BY <1>7, <2>1, Zenon DEF ReadRows
<1>8. CASE ListCanaries \/ BoardRestarts
  BY <1>8, <1>n, Zenon DEF ListCanaries, BoardRestarts
<1>9. CASE ReadingPasses
  <2>1. reading' \in Nat
    BY <1>9 DEF ReadingPasses
  <2>2. QED
    BY <1>9, <2>1, Zenon DEF ReadingPasses
<1>10. QED
  BY <1>1, <1>2, <1>3, <1>4, <1>5, <1>6, <1>7, <1>8, <1>9, ZenonT(60)
  DEF HealthNext, healthVars, RecordCrossing, IssueToken, FirstUse

\* recordHeartbeat, and a listing that read its row before it, never hold a
\* heartbeat that was not heard.
LEMMA BeatsNext ==
  ASSUME HealthInv, [HealthNext]_healthVars
  PROVE  HealthInv'
<1>t. BoardTyped'
  BY BoardTypes, SMTT(60) DEF HealthInv
<1>i. /\ reading \in Nat /\ agentRow \in AgentRow /\ listing \in Listing /\ handled \subseteq Heartbeat
      /\ heardAt # NoTime => heardAt \in Nat /\ heardAt <= reading
      /\ Beaten(agentRow) /\ Beaten(listing.row)
      /\ \A b \in handled : heardAt # NoTime /\ b.at <= heardAt
  BY SMTT(60) DEF HealthInv, BoardTyped
<1>n. \A l : l = NoListing => l.row.beat = NoTime
  BY DEF NoListing
<1>1. CASE UNCHANGED <<reading, agentRow, handled, listing, heardAt>>
  BY <1>1, <1>t, <1>i, ZenonT(60) DEF HealthInv, Beaten
<1>2. ASSUME NEW r \in Reports, HandleHeartbeat(r) PROVE HealthInv'
  <2>1. /\ handled' = handled \cup {[at |-> reading, report |-> r, recorded |-> FALSE]} /\ heardAt' = reading
        /\ UNCHANGED <<reading, agentRow, listing>>
    BY <1>2, SMTT(60) DEF HandleHeartbeat
  <2>2. \A b \in handled' : b.at <= reading
    <3>1. \A b \in handled' : b \in handled \/ b.at = reading
      BY <2>1, SMTT(60)
    <3>2. \A b \in handled : b.at <= reading
      BY <1>i, SMTT(60) DEF Heartbeat
    <3>3. QED
      BY <3>1, <3>2, <1>i, SMTT(60)
  <2>3. ASSUME NEW row \in AgentRow, Beaten(row) PROVE row.beat # NoTime => row.beat <= reading
    BY <2>3, <1>i, SMTT(60) DEF Beaten, AgentRow
  <2>a. listing.row \in AgentRow
    BY <1>i, SMTT(60) DEF Listing
  <2>4. heardAt' # NoTime /\ heardAt' <= reading
    BY <2>1, <1>i, HealthConstants, SMTT(60)
  <2>5. Beaten(agentRow)' /\ Beaten(listing.row)'
    BY <2>1, <2>3, <2>4, <2>a, <1>i, ZenonT(60) DEF Beaten
  <2>6. QED
    BY <1>t, <2>1, <2>2, <2>4, <2>5, <1>i, ZenonT(60) DEF HealthInv
<1>3. ASSUME NEW b \in handled, RecordHeartbeat(b) PROVE HealthInv'
  <2>1. PICK c : c = [b EXCEPT !.recorded = TRUE]
    BY ZenonT(60)
  <2>2. c.at = b.at
    BY <2>1, <1>i DEF Heartbeat
  <2>3. /\ agentRow' = [agentRow EXCEPT !.beat = b.at] /\ handled' = (handled \ {b}) \cup {c}
        /\ UNCHANGED <<reading, listing, heardAt>>
    BY <1>3, <2>1, Zenon DEF RecordHeartbeat
  <2>4. agentRow'.beat = b.at
    BY <2>3, <1>i DEF AgentRow
  <2>5. QED
    BY <1>t, <2>2, <2>3, <2>4, <1>i, ZenonT(60) DEF HealthInv, Beaten
<1>4. ASSUME NEW b \in handled, RecordCanaryAgentHeartbeat(b) PROVE HealthInv'
  <2>1. agentRow' = [agentRow EXCEPT !.report = b.report] /\ handled' = handled \ {b}
        /\ UNCHANGED <<reading, listing, heardAt>>
    BY <1>4, Zenon DEF RecordCanaryAgentHeartbeat
  <2>2. agentRow'.beat = agentRow.beat
    BY <2>1, <1>i, SMTT(60) DEF AgentRow
  <2>3. QED
    BY <1>t, <2>1, <2>2, <1>i, Zenon DEF HealthInv, Beaten
<1>5. ASSUME NEW b \in handled, HeartbeatFails(b) PROVE HealthInv'
  BY <1>5, <1>t, <1>i, ZenonT(60) DEF HeartbeatFails, HealthInv, Beaten
<1>6. CASE BeginListing
  <2>1. listing' = [NoListing EXCEPT !.at = "rows", !.now = reading] /\ UNCHANGED <<reading, agentRow, handled, heardAt>>
    BY <1>6, Zenon DEF BeginListing
  <2>2. listing'.row.beat = NoTime
    BY <2>1, SMTT(60) DEF NoListing
  <2>3. QED
    BY <2>1, <2>2, <1>t, <1>i, ZenonT(60) DEF HealthInv, Beaten
<1>7. CASE ReadRows
  <2>1. listing' = [listing EXCEPT !.at = "signals", !.row = agentRow] /\ UNCHANGED <<reading, agentRow, handled, heardAt>>
    BY <1>7, ZenonT(60) DEF ReadRows
  <2>2. listing'.row = agentRow
    BY <2>1, <1>i, SMTT(60) DEF Listing
  <2>3. QED
    BY <2>1, <2>2, <1>t, <1>i, ZenonT(60) DEF HealthInv, Beaten
<1>8. CASE ListCanaries \/ BoardRestarts
  <2>1. listing' = NoListing /\ UNCHANGED <<reading, agentRow, heardAt>> /\ (handled' = handled \/ handled' = {})
    BY <1>8, ZenonT(60) DEF ListCanaries, BoardRestarts
  <2>2. QED
    BY <2>1, <1>n, <1>t, <1>i, ZenonT(60) DEF HealthInv, Beaten
<1>9. CASE ReadingPasses
  <2>1. reading' = reading + 1 /\ UNCHANGED <<agentRow, handled, listing, heardAt>>
    BY <1>9, ZenonT(60) DEF ReadingPasses
  <2>2. heardAt # NoTime => heardAt <= reading + 1
    BY <1>i, SMTT(60)
  <2>3. QED
    BY <2>1, <2>2, <1>t, <1>i, ZenonT(60) DEF HealthInv, Beaten
<1>10. QED
  BY <1>1, <1>2, <1>3, <1>4, <1>5, <1>6, <1>7, <1>8, <1>9, ZenonT(60)
  DEF HealthNext, healthVars, RecordCrossing, IssueToken, FirstUse

\* The coalescer drops a crossing only if the audit log has a recent one; a
\* restart that forgets it writes again.
LEMMA CrossingsNext ==
  ASSUME reading \in Nat, CrossingInv, [HealthNext]_healthVars
  PROVE  CrossingInv'
<1> USE HealthConstants
<1>1. CASE UNCHANGED <<auditLog, coalescer, crossedAt>>
  BY <1>1, ZenonT(60) DEF CrossingInv
<1>2. ASSUME NEW a \in AuditActions, RecordCrossing(a) PROVE CrossingInv'
  <2>0. crossedAt' = [crossedAt EXCEPT ![a] = reading]
    BY <1>2, SMTT(60) DEF RecordCrossing
  <2>1. CASE AdmitAudit(a)
    <3>1. auditLog' = [auditLog EXCEPT ![a] = reading] /\ coalescer' = [coalescer EXCEPT ![a] = reading]
      BY <1>2, <2>1, SMTT(60) DEF RecordCrossing
    <3>2. QED
      BY <2>0, <3>1, SMTT(60) DEF CrossingInv
  <2>2. CASE ~ AdmitAudit(a)
    <3>1. auditLog' = auditLog /\ coalescer' = coalescer
      BY <1>2, <2>2, SMTT(60) DEF RecordCrossing
    <3>2. auditLog[a] \in Nat /\ reading - auditLog[a] <= CoalesceInterval
      BY <2>2 DEF AdmitAudit, CrossingInv
    <3>3. QED
      BY <2>0, <3>1, <3>2, SMTT(60) DEF CrossingInv
  <2>3. QED
    BY <2>1, <2>2, SMTT(60)
<1>3. CASE BoardRestarts
  <2>1. coalescer' = [a \in AuditActions |-> NoTime] /\ auditLog' = auditLog /\ crossedAt' = crossedAt
    BY <1>3, SMTT(60) DEF BoardRestarts
  <2>2. QED
    BY <2>1, ZenonT(60) DEF CrossingInv
<1>4. QED
  BY <1>1, <1>2, <1>3, ZenonT(60)
  DEF HealthNext, healthVars, HandleHeartbeat, RecordHeartbeat, RecordCanaryAgentHeartbeat, HeartbeatFails,
      IssueToken, FirstUse, BeginListing, ReadRows, ListCanaries, ReadingPasses

\* Issuing a token appends it.
LEMMA Issued ==
  ASSUME NEW s \in Seq(Token), NEW t \in Token, NEW n, n = Append(s, t)
  PROVE  /\ n \in Seq(Token) /\ Len(n) = Len(s) + 1
         /\ \A i \in 1..Len(n) : (i \in 1..Len(s) /\ n[i] = s[i]) \/ n[i] = t
         /\ \A i \in 1..Len(s) : i \in 1..Len(n) /\ n[i] = s[i]
<1>1. n \in Seq(Token) /\ Len(n) = Len(s) + 1 /\ Len(s) \in Nat
  BY SMTT(60)
<1>2. \A i \in 1..Len(s) : n[i] = s[i]
  BY SMTT(60)
<1>3. n[Len(s) + 1] = t
  OBVIOUS
<1>4. QED
  BY <1>1, <1>2, <1>3, SMTT(60)

\* Issuing, first use and rotation keep the tokens in order.
LEMMA TokensNext ==
  ASSUME reading \in Nat, TokensInv, [HealthNext]_healthVars
  PROVE  TokensInv'
<1>i. /\ agentTokens \in Seq(Token) /\ rotatedAt \in Nat /\ rotatedAt <= reading
      /\ \A i \in 1..Len(agentTokens) :
           agentTokens[i].created <= reading /\ (agentTokens[i].used => agentTokens[i].created <= rotatedAt)
  BY SMTT(60) DEF TokensInv
<1>m. PICK m \in 1..Len(agentTokens) :
         agentTokens[m].used /\ \A j \in 1..Len(agentTokens) : agentTokens[j].used => j <= m
  BY SMTT(60) DEF TokensInv
<1>e. \A i \in 1..Len(agentTokens) : agentTokens[i] \in Token /\ agentTokens[i].created \in Nat
  <2>1. \A i \in 1..Len(agentTokens) : agentTokens[i] \in Token
    BY <1>i, SMTT(60)
  <2>2. QED
    BY <2>1, SMTT(60) DEF Token
<1>1. CASE UNCHANGED <<reading, agentTokens, rotatedAt>>
  BY <1>1, ZenonT(60) DEF TokensInv
<1>2. CASE ReadingPasses
  <2>1. reading' = reading + 1 /\ UNCHANGED <<agentTokens, rotatedAt>>
    BY <1>2, ZenonT(60) DEF ReadingPasses
  <2>2. rotatedAt <= reading + 1 /\ \A i \in 1..Len(agentTokens) : agentTokens[i].created <= reading + 1
    BY <1>i, <1>e, SMTT(60)
  <2>3. QED
    BY <2>1, <2>2, <1>i, <1>m, ZenonT(60) DEF TokensInv
<1>3. CASE IssueToken
  <2>1. PICK t : t = [created |-> reading, used |-> FALSE]
    BY ZenonT(60)
  <2>2. t \in Token /\ t.created = reading /\ ~ t.used
    BY <2>1 DEF Token
  <2>3. agentTokens' = Append(agentTokens, t) /\ reading' = reading /\ rotatedAt' = rotatedAt
    BY <1>3, <2>1, Zenon DEF IssueToken
  <2>4. /\ agentTokens' \in Seq(Token) /\ Len(agentTokens') = Len(agentTokens) + 1
        /\ \A i \in 1..Len(agentTokens') :
              (i \in 1..Len(agentTokens) /\ agentTokens'[i] = agentTokens[i]) \/ agentTokens'[i] = t
        /\ \A i \in 1..Len(agentTokens) : i \in 1..Len(agentTokens') /\ agentTokens'[i] = agentTokens[i]
    BY <2>2, <2>3, <1>i, Issued, SMTT(60)
  <2>5. \A i \in 1..Len(agentTokens') :
           agentTokens'[i].created <= reading /\ (agentTokens'[i].used => agentTokens'[i].created <= rotatedAt)
    BY <2>2, <2>4, <1>i, SMTT(60)
  <2>6. m \in 1..Len(agentTokens') /\ agentTokens'[m].used
        /\ \A j \in 1..Len(agentTokens') : agentTokens'[j].used => j <= m
    BY <2>2, <2>4, <1>m, SMTT(60)
  <2>7. QED
    BY <2>3, <2>4, <2>5, <2>6, <1>i, ZenonT(60) DEF TokensInv
<1>4. ASSUME NEW i \in 1..Len(agentTokens), FirstUse(i) PROVE TokensInv'
  <2>1. PICK t : t = [agentTokens[i] EXCEPT !.used = TRUE]
    BY ZenonT(60)
  <2>2. agentTokens[i] \in Token
    BY <1>i
  <2>3. t \in Token /\ t.created = agentTokens[i].created /\ t.used
    BY <2>1, <2>2, ZenonT(60) DEF Token
  <2>4. /\ agentTokens' = [agentTokens EXCEPT ![i] = t] /\ rotatedAt' = reading /\ reading' = reading
        /\ \A j \in i..Len(agentTokens) : ~ agentTokens[j].used
    BY <1>4, <2>1 DEF FirstUse
  <2>5. /\ agentTokens' \in Seq(Token) /\ Len(agentTokens') = Len(agentTokens) /\ agentTokens'[i] = t
        /\ \A j \in 1..Len(agentTokens) : j # i => agentTokens'[j] = agentTokens[j]
    BY <2>3, <2>4, <1>i
  <2>6. \A j \in 1..Len(agentTokens) : agentTokens'[j].created <= reading
    BY <2>3, <2>5, <1>i, SMTT(60)
  <2>7. \A j \in 1..Len(agentTokens) : agentTokens'[j].used => j <= i
    <3>1. ASSUME NEW j \in 1..Len(agentTokens), agentTokens'[j].used, ~ (j <= i) PROVE FALSE
      <4>1. j # i /\ j \in i..Len(agentTokens)
        BY <3>1, <1>4, <1>i, SMTT(60)
      <4>2. QED
        BY <3>1, <4>1, <2>4, <2>5, ZenonT(60)
    <3>2. QED
      BY <3>1
  <2>8. QED
    BY <2>3, <2>4, <2>5, <2>6, <2>7, <1>4, SMTT(60) DEF TokensInv
<1>5. QED
  BY <1>1, <1>2, <1>3, <1>4, ZenonT(60)
  DEF HealthNext, healthVars, HandleHeartbeat, RecordHeartbeat, RecordCanaryAgentHeartbeat, HeartbeatFails,
      RecordCrossing, BeginListing, ReadRows, ListCanaries, BoardRestarts

\* The newest used token was created no later than the last first use.
LEMMA NewestUsed ==
  ASSUME TokensInv
  PROVE  LET used == {i \in 1..Len(agentTokens) : agentTokens[i].used}
         IN  used # {} /\ agentTokens[Max(used)].created \in Nat /\ agentTokens[Max(used)].created <= rotatedAt
<1> DEFINE used == {i \in 1..Len(agentTokens) : agentTokens[i].used}
<1>1. PICK m \in used : \A j \in used : m >= j
  BY DEF TokensInv
<1>2. Max(used) \in used
  BY <1>1, ZenonT(60) DEF Max
<1>3. agentTokens \in Seq(Token)
  BY SMTT(60) DEF TokensInv
<1>4. agentTokens[Max(used)] \in Token
  BY <1>2, <1>3, SMTT(60)
<1>5. agentTokens[Max(used)].created <= rotatedAt
  BY <1>2, ZenonT(60) DEF TokensInv
<1>6. QED
  BY <1>2, <1>4, <1>5, SMTT(60) DEF Token

\* Adding states to a tile adds them all.
LEMMA ActiveAdded ==
  \A t, states : AddActiveStates(t, states).active = t.active \cup states
  BY DEF AddActiveStates

\* The inductive invariant of the dashboard.
BoardInv == HealthInv /\ CrossingInv /\ TokensInv

\* It holds in every reachable state.
LEMMA BoardInvariant == HealthSpec => []BoardInv
<1>1. HealthInit => BoardInv
  <2> SUFFICES ASSUME HealthInit PROVE BoardInv
    BY SMTT(60)
  <2>1. HealthInv
    <3>1. [beat |-> NoTime, report |-> {}] \in AgentRow
      BY SMTT(60) DEF AgentRow
    <3>2. PICK r \in AgentRow : r = [beat |-> NoTime, report |-> {}]
      BY <3>1, SMTT(60)
    <3>3. NoListing = [at |-> "idle", now |-> 0, row |-> r]
      BY <3>2, SMTT(60) DEF NoListing
    <3>4. NoListing \in Listing /\ NoListing.row = r /\ r.beat = NoTime
      BY <3>2, <3>3, SMTT(60) DEF Listing
    <3>5. reading = 0 /\ agentRow = r /\ handled = {} /\ listing = NoListing /\ heardAt = NoTime
      BY <3>4, SMTT(60) DEF HealthInit
    <3>6. QED
      BY <3>2, <3>4, <3>5, SMTT(60) DEF HealthInv, BoardTyped, Beaten
  <2>2. CrossingInv
    BY SMTT(60) DEF HealthInit, CrossingInv
  <2>3. TokensInv
    <3>1. PICK t : t = [created |-> 0, used |-> TRUE]
      BY ZenonT(60)
    <3>2. t \in Token /\ t.created = 0 /\ t.used
      BY <3>1 DEF Token
    <3>3. agentTokens = <<t>> /\ reading = 0 /\ rotatedAt = 0
      BY <3>1 DEF HealthInit
    <3>4. /\ agentTokens \in Seq(Token) /\ Len(agentTokens) = 1 /\ agentTokens[1] = t
      BY <3>2, <3>3
    <3>5. QED
      BY <3>2, <3>3, <3>4, SMTT(60) DEF TokensInv
  <2>4. QED
    BY <2>1, <2>2, <2>3, SMTT(60) DEF BoardInv
<1>2. BoardInv /\ [HealthNext]_healthVars => BoardInv'
  BY BeatsNext, CrossingsNext, TokensNext, Zenon DEF BoardInv, HealthInv, BoardTyped
<1>3. QED
  BY <1>1, <1>2, PTL DEF HealthSpec

\* What is wrong with an agent is on its tile (ListCanaries),
\* although the reads are apart and the audit entries are coalesced, whatever
\* heartbeats overtook each other and however many tokens were issued and
\* never used: for any thresholds and any coalescing interval.
THEOREM TileComplete == HealthSpec => TileOmitsNothing
<1> USE HealthConstants
<1> DEFINE Told ==
         /\ (heardAt = NoTime \/ listing.now - heardAt > SilenceThreshold) => "silent" \in tile'.active
         /\ \A a \in AuditActions :
               crossedAt[a] # NoTime /\ listing.now - crossedAt[a] <= AuditWindow(a) - CoalesceInterval
                 => AuditState(a) \in tile'.active
         /\ listing.now - rotatedAt >= RotationStaleThreshold => "rotation_stalled" \in tile'.active
<1>1. ASSUME BoardInv, ListCanaries PROVE Told
  <2>t. listing \in Listing /\ listing.now \in Nat /\ listing.row \in AgentRow /\ Beaten(listing.row)
        /\ heardAt \in Nat \cup {NoTime}
    BY <1>1 DEF BoardInv, HealthInv, BoardTyped, Listing
  <2> DEFINE row == listing.row
             now == listing.now
             audit == {AuditState(a) : a \in {b \in AuditActions : LatestAuditSince(b, now - AuditWindow(b))}}
  <2>1. tile'.active = ApplyHealthState(row, now).active \cup
           ((row.report \cap {"hits_merged", "opencanary_down"}) \cup OtherStates)
    BY <1>1, ActiveAdded, ZenonT(60) DEF ListCanaries
  <2>2. ApplyHealthState(row, now).active = NoTile.active \cup
           ((IF ApplyStatus(row, now) THEN {"silent"} ELSE {}) \cup audit
            \cup (IF RotationSignal(now) THEN {"rotation_stalled"} ELSE {})
            \cup (row.report \cap {"not_delivering"}))
    BY ActiveAdded, ZenonT(60) DEF ApplyHealthState
  <2>3. ASSUME heardAt = NoTime \/ now - heardAt > SilenceThreshold PROVE "silent" \in tile'.active
    <3>1. ApplyStatus(row, now)
      BY <2>3, <2>t, SMTT(60) DEF ApplyStatus, Beaten, AgentRow
    <3>2. QED
      BY <3>1, <2>1, <2>2, ZenonT(60)
  <2>4. ASSUME NEW a \in AuditActions, crossedAt[a] # NoTime, now - crossedAt[a] <= AuditWindow(a) - CoalesceInterval
        PROVE  AuditState(a) \in tile'.active
    <3>1. auditLog[a] \in Nat /\ crossedAt[a] \in Nat /\ crossedAt[a] - auditLog[a] <= CoalesceInterval
      BY <1>1, <2>4, SMTT(60) DEF BoardInv, CrossingInv
    <3>2. AuditWindow(a) \in Nat
      BY SMTT(60) DEF AuditWindow
    <3>3. LatestAuditSince(a, now - AuditWindow(a))
      BY <2>4, <3>1, <3>2, <2>t, SMTT(60) DEF LatestAuditSince
    <3>4. AuditState(a) \in audit
      BY <3>3, <2>4, ZenonT(60)
    <3>5. QED
      BY <3>4, <2>1, <2>2, ZenonT(60)
  <2>5. ASSUME now - rotatedAt >= RotationStaleThreshold PROVE "rotation_stalled" \in tile'.active
    <3> DEFINE used == {i \in 1..Len(agentTokens) : agentTokens[i].used}
    <3>0. PICK c : c = agentTokens[Max(used)].created
      BY ZenonT(60)
    <3>1. used # {} /\ c \in Nat /\ c <= rotatedAt
      BY <1>1, <3>0, NewestUsed, Zenon DEF BoardInv
    <3>2. rotatedAt \in Nat
      BY <1>1 DEF BoardInv, TokensInv
    <3>3. now - c >= RotationStaleThreshold
      BY <2>5, <3>1, <3>2, <2>t, SMTT(60)
    <3>4. RotationSignal(now)
      BY <3>0, <3>1, <3>3, ZenonT(60) DEF RotationSignal
    <3>5. QED
      BY <3>4, <2>1, <2>2, ZenonT(60)
  <2>6. QED
    BY <2>3, <2>4, <2>5, ZenonT(60)
<1>2. ASSUME [HealthNext]_healthVars, tile' # NoAnswer PROVE ListCanaries \/ UNCHANGED healthVars
  BY <1>2, ZenonT(60)
  DEF HealthNext, HandleHeartbeat, RecordHeartbeat, RecordCanaryAgentHeartbeat, HeartbeatFails, RecordCrossing,
      IssueToken, FirstUse, BeginListing, ReadRows, BoardRestarts, ReadingPasses
<1>3. BoardInv /\ [HealthNext]_healthVars => [tile' # NoAnswer => Told]_healthVars
  BY <1>1, <1>2, Zenon
<1>4. QED
  BY <1>3, BoardInvariant, PTL DEF HealthSpec, TileOmitsNothing
=============================================================================
