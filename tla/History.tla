------------------------------- MODULE History -------------------------------
(***************************************************************************)
(* The state history and the alerts it raises.  Each tick derives every    *)
(* agent's active states, reconciles the open spans with them and, in the  *)
(* same transaction, queues or suppresses a token-conflict mail for every  *)
(* conflict span it opens.  Start closes what an outage left open.  A tick *)
(* whose transaction fails leaves everything as it was and so is a stutter *)
(* here.  One unit of time is a tick interval.                             *)
(***************************************************************************)
EXTENDS Integers, Sequences, FiniteSetsExt

CONSTANTS
    Watched,            \* agents
    Conditions,         \* the derived states, "token_conflict" among them
    CollapseWindow, UnobservedAfter,
    PerCanaryCooldown, FleetHourlyCap, FleetCapWindow, DayLength,
    LastInstant,        \* bound: how long a behaviour lasts
    Still               \* "ended_at IS NULL"

ASSUME HistoryConstants ==
    /\ CollapseWindow \in Nat /\ LastInstant \in Nat
    /\ Still \notin Nat /\ "unobserved" \notin Conditions

VARIABLES
    instant, holding,   \* the time; the derived states, as <<agent, state>>
    spans,              \* state_history: [agent, state, from, to]
    lastTick,           \* settings: history.last_tick
    recorder,           \* "down", "starting" (unobserved written) or "up"
    alerts,             \* mail_outbox: [kind, agent, at, suppressed, reported]
    raised, logged      \* conflicts raised; suppressed with only a log line

historyVars == <<instant, holding, spans, lastTick, recorder, alerts, raised, logged>>

HistoryKeys == Watched \X Conditions
SpanStates == Conditions \cup {"unobserved"}
Alert == [kind : {"token_conflict", "agents_behind"}, agent : Watched \cup {Still},
          at : 0..LastInstant, suppressed : Nat, reported : Nat]

HistoryTypeOK ==
    /\ instant \in 0..LastInstant /\ lastTick \in 0..LastInstant
    /\ holding \subseteq HistoryKeys
    /\ spans \subseteq [agent : Watched, state : SpanStates, from : 0..LastInstant, to : 0..LastInstant \cup {Still}]
    /\ recorder \in {"down", "starting", "up"}
    /\ alerts \in Seq(Alert) /\ raised \in Nat /\ logged \in Nat

HistoryInit ==
    /\ instant = 0 /\ lastTick = 0 /\ recorder = "up"
    /\ holding = {} /\ spans = {}
    /\ alerts = <<>> /\ raised = 0 /\ logged = 0

-----------------------------------------------------------------------------
(* LatestMail: the newest row of a kind, of one agent or of any; 0 if none *)
LatestMail(box, kind, agents) ==
    LET of == {i \in 1..Len(box) : box[i].kind = kind /\ box[i].agent \in agents}
    IN  IF of = {} THEN 0 ELSE Max(of)

CountMailSince(box, since) == Cardinality({i \in 1..Len(box) : box[i].at >= since})

BumpMailSuppressed(s, i) == [s EXCEPT !.box[i].suppressed = @ + 1]

SuppressOnOwn(s, previous) ==      \* counts only against the agent's own mail
    IF previous = 0 THEN s ELSE BumpMailSuppressed(s, previous)

(* suppress: counted against the agent's last message, else against the    *)
(* last of the kind, else only logged.                                     *)
Suppress(s, previous) ==
    LET target == IF previous # 0 THEN previous
                  ELSE LatestMail(s.box, "token_conflict", Watched)
    IN  IF target = 0 THEN [s EXCEPT !.logged = @ + 1] ELSE BumpMailSuppressed(s, target)

EnqueueAlert(box, kind, a, reporting) ==
    Append(box, [kind |-> kind, agent |-> a, at |-> instant, suppressed |-> 0, reported |-> reporting])

(* EnqueueTokenConflict, inside the tick's transaction.                    *)
EnqueueTokenConflict(s, a) ==
    LET previous == LatestMail(s.box, "token_conflict", {a})
        cooling == previous # 0 /\ instant < s.box[previous].at + PerCanaryCooldown
        capped == CountMailSince(s.box, instant - FleetCapWindow) >= FleetHourlyCap
    IN  IF cooling \/ capped THEN Suppress(s, previous)
        ELSE [s EXCEPT !.box = EnqueueAlert(@, "token_conflict", a,
                                 IF previous = 0 THEN 0 ELSE s.box[previous].suppressed)]

(* EnqueueAgentsBehind: one a day, and it counts towards the fleet's cap.  *)
EnqueueAgentsBehind ==
    LET previous == LatestMail(alerts, "agents_behind", {Still})
    IN  /\ previous # 0 => alerts[previous].at \div DayLength # instant \div DayLength
        /\ alerts' = EnqueueAlert(alerts, "agents_behind", Still, 0)

(* The drift scheduler's Tick, when some agent is out of date.             *)
DriftTick ==
    /\ recorder = "up"
    /\ EnqueueAgentsBehind
    /\ UNCHANGED <<instant, holding, spans, lastTick, recorder, raised, logged>>

-----------------------------------------------------------------------------
OpenStatePeriods == {p \in spans : p.to = Still}
Open(k, ps) == \E p \in ps : p.to = Still /\ <<p.agent, p.state>> = k

(* LatestClosedStatePeriod: ended no longer ago than the collapse window.  *)
Recent(k) == {p \in spans : <<p.agent, p.state>> = k /\ p.to # Still /\ p.to + CollapseWindow >= instant}

(* openOrCollapse: the span a newly active state belongs to from now on.   *)
OpenOrCollapse(k) ==
    IF Recent(k) = {} THEN [agent |-> k[1], state |-> k[2], from |-> instant, to |-> Still]
    ELSE [(CHOOSE p \in Recent(k) : \A q \in Recent(k) : q.to <= p.to) EXCEPT !.to = Still]

Collapsed(k) == {p \in Recent(k) : \A q \in Recent(k) : q.to <= p.to}

ActiveKeys == holding                          \* forgets what is already open
NewlyActive == {k \in holding : ~ Open(k, spans)}

CloseStatePeriod(p, at) == [p EXCEPT !.to = at]

(* reconcile: open or reopen what became active, close what is no longer.  *)
Reconcile ==
    LET fresh == NewlyActive
        closing == {p \in OpenStatePeriods : <<p.agent, p.state>> \notin holding}
    IN  (spans \ (closing \cup UNION {Collapsed(k) : k \in fresh}))
            \cup {OpenOrCollapse(k) : k \in fresh}
            \cup {CloseStatePeriod(p, instant) : p \in closing}

(* Tick: one transaction for the spans, the alerts and last_tick.          *)
Tick ==
    LET conflicts == {k[1] : k \in {n \in NewlyActive : n[2] = "token_conflict"}}
        told == FoldSet(LAMBDA a, s : EnqueueTokenConflict(s, a),
                        [box |-> alerts, logged |-> logged], conflicts)
    IN  /\ recorder # "down" /\ (recorder = "up" => lastTick < instant)
        /\ spans' = Reconcile
        /\ alerts' = told.box /\ logged' = told.logged
        /\ raised' = raised + Cardinality(conflicts)
        /\ lastTick' = instant /\ recorder' = "up"
        /\ UNCHANGED <<instant, holding>>

(* recordUnobserved: a transaction of its own, before Start's first tick.  *)
RecordUnobserved ==
    /\ recorder = "down" /\ instant - lastTick > UnobservedAfter
    /\ spans' = {p \in spans : p.to # Still}
                  \cup {CloseStatePeriod(p, lastTick) : p \in OpenStatePeriods}
                  \cup {[agent |-> a, state |-> "unobserved", from |-> lastTick, to |-> instant] : a \in Watched}
    /\ recorder' = "starting"
    /\ UNCHANGED <<instant, holding, lastTick, alerts, raised, logged>>

(* Start after a gap short enough to be a pause between two ticks.         *)
StartAtOnce ==
    /\ recorder = "down" /\ instant - lastTick <= UnobservedAfter
    /\ recorder' = "starting"
    /\ UNCHANGED <<instant, holding, spans, lastTick, alerts, raised, logged>>

(* External: time, the agents and the process's end.                       *)
InstantPasses ==
    /\ instant < LastInstant /\ recorder # "starting"
    /\ recorder = "up" => lastTick = instant
    /\ instant' = instant + 1
    /\ \E k \in HistoryKeys : holding' \in {holding, holding \cup {k}, holding \ {k}}
    /\ UNCHANGED <<spans, lastTick, recorder, alerts, raised, logged>>

RecorderCrash ==
    /\ recorder # "down"
    /\ recorder' = "down"
    /\ UNCHANGED <<instant, holding, spans, lastTick, alerts, raised, logged>>

HistoryNext ==
    \/ Tick \/ RecordUnobserved \/ StartAtOnce
    \/ DriftTick \/ InstantPasses \/ RecorderCrash

HistorySpec == HistoryInit /\ [][HistoryNext]_historyVars

-----------------------------------------------------------------------------
(* The spans of one agent's state never overlap, and at most one is open,  *)
(* through flapping, collapsing, outages and crashes during start-up.      *)
SpansDisjoint ==
    \A p, q \in spans :
        (p # q /\ p.agent = q.agent /\ p.state = q.state /\ p.state # "unobserved" /\ p.from <= q.from)
            => p.to # Still /\ p.to <= q.from

(* Every conflict the history opened was mailed, or counted on a message,  *)
(* or (no message to count it on) logged; and every counted one has been   *)
(* reported by the agent's next message or is on its latest one, which the *)
(* next message will report.                                               *)
ConflictsAllTold ==
    LET conflicts == {i \in 1..Len(alerts) : alerts[i].kind = "token_conflict"}
        latest == {i \in conflicts : i = LatestMail(alerts, "token_conflict", {alerts[i].agent})}
        counted(S) == MapThenSumSet(LAMBDA i : alerts[i].suppressed, S)
    IN  /\ raised = Cardinality(conflicts) + counted(conflicts) + logged
        /\ counted(conflicts) = counted(latest) + MapThenSumSet(LAMBDA i : alerts[i].reported, conflicts)

(* The package comment's promise: "Nothing is assumed about the time       *)
(* birdcage was not running", so no state's span runs through an outage    *)
(* recorded as unobserved.  Reopening a span that the outage closed breaks *)
(* it.                                                                     *)
NothingAssumedOfOutage ==
    \A p, q \in spans :
        (p.agent = q.agent /\ q.state = "unobserved" /\ p.state # "unobserved")
            => (p.to # Still /\ p.to <= q.from) \/ p.from >= q.to

=============================================================================
