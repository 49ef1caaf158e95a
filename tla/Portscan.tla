----------------------------- MODULE Portscan -------------------------------
(***************************************************************************)
(* The agent's port-scan detector (internal/agent/portscan): a capture     *)
(* socket, and per source and protocol a sliding window of the closed      *)
(* ports it touched.  A source that touches Threshold of them inside the   *)
(* window is reported, then not again before its cooldown is over.  The    *)
(* table of sources is bounded and forgets the one seen longest ago.       *)
(***************************************************************************)
EXTENDS Integers, Sequences, FiniteSets, FiniteSetsExt, Functions

CONSTANTS
  Packets,       \* what the wire may bring: [src, port, kind, inbound]
  ConfPorts,     \* the ports opencanary.conf has a service on
  ConfReadable,  \* whether that file could be read when the agent started
  ExtraIgnorePorts, \* the operator's list and the agent's own port
  Threshold, ScanWindow, Cooldown,
  MaxSources,
  MaxPackets,    \* bound: packets captured
  LastSecond,    \* bound: the clock
  NotYet         \* a source that was never reported

ASSUME PortscanConstants ==
  /\ Threshold \in Nat \ {0} /\ MaxSources \in Nat \ {0}
  /\ ScanWindow \in Nat /\ Cooldown \in Nat

VARIABLES
  second,     \* the clock
  socket,     \* the capture socket: "closed", "open", or "off" for good
  states,     \* tracker.states: per tracked source its window
  recency,    \* tracker.recency, least recently seen first
  captured,   \* packets captured, for the bound
  touches,    \* history: when each source last touched each port
  reports,    \* history: when each source was last reported
  forgotten,  \* history: sources the table dropped
  verdict     \* history: what the last packet led to

portscanVars ==
  <<second, socket, states, recency, captured, touches, reports, forgotten, verdict>>

\* parseIPv4: a bare SYN or a datagram is an attempt to connect; anything
\* else, and a continuation fragment, is not.
Attempt(p) == p.kind \in {"syn", "datagram"}

\* trackerKey: one source in one protocol.
TrackerKey(p) == <<p.src, IF p.kind = "syn" THEN "tcp" ELSE "udp">>

ScanSources == {TrackerKey(p) : p \in {q \in Packets : Attempt(q)}}

\* readOpenCanaryConf: the ports of the enabled services, or none.
ReadOpenCanaryConf == IF ConfReadable THEN ConfPorts ELSE {}

\* New: the ports that something listens on.  With the configuration
\* unreadable, only those the agent was told of.
Ignore == ReadOpenCanaryConf \cup ExtraIgnorePorts
ClosedPorts == {p.port : p \in Packets} \ Ignore
LongAgo == -ScanWindow

NoDetection == [who |-> NotYet, at |-> 0, before |-> NotYet, ports |-> <<>>, dropped |-> {}]
NewState == [seen |-> <<>>, order |-> <<>>, lastEmit |-> NotYet]

PortscanInit ==
  /\ second = 0
  /\ socket = "closed"
  /\ states = <<>>
  /\ recency = <<>>
  /\ captured = 0
  /\ touches = [k \in ScanSources |-> [p \in ClosedPorts |-> LongAgo]]
  /\ reports = [k \in ScanSources |-> NotYet]
  /\ forgotten = {}
  /\ verdict = NoDetection

PortscanTypeOK ==
  /\ socket \in {"closed", "open", "off"}
  /\ DOMAIN states = Range(recency)
  /\ Cardinality(DOMAIN states) <= MaxSources
  /\ \A k \in DOMAIN states : DOMAIN states[k].seen = Range(states[k].order)

----------------------------------------------------------------------------
PruneLate(st) ==
  LET Kept(p) == st.seen[p] >= second - ScanWindow
  IN  [st EXCEPT !.order = SelectSeq(@, Kept),
                 !.seen  = Restrict(@, {p \in DOMAIN @ : Kept(p)})]

\* prune: ports last touched a window ago or longer are dropped from the map
\* and from the order.
Prune(st) ==
  LET Kept(p) == st.seen[p] > second - ScanWindow
  IN  [st EXCEPT !.order = SelectSeq(@, Kept),
                 !.seen  = Restrict(@, {p \in DOMAIN @ : Kept(p)})]

\* A port joins the order when it is not in the map; the map has its time.
RecordPort(st, port) ==
  [st EXCEPT !.order = IF port \in DOMAIN st.seen THEN @ ELSE Append(@, port),
             !.seen  = [p \in DOMAIN @ \cup {port} |-> IF p = port THEN second ELSE @[p]]]

\* The threshold is met and no report was made within the cooldown.
DueReport(st) ==
  /\ Cardinality(DOMAIN st.seen) >= Threshold
  /\ st.lastEmit # NotYet => second - st.lastEmit >= Cooldown

\* The source moves, or is added, to the back of the recency list.
MoveToBack(k) == Append(SelectSeq(recency, LAMBDA j : j # k), k)

\* evictOverCap: how many sources at the front of the list are over the cap.
OverTable(list) == Max({0, Len(list) - MaxSources})

\* tracker.Observe of an attempt on a closed port, and Detector.emit of what
\* it detected.
ObserveAttempt(k, port) ==
  LET list  == MoveToBack(k)
      out   == {list[i] : i \in 1 .. OverTable(list)}
      st    == RecordPort(Prune(IF k \in DOMAIN states THEN states[k] ELSE NewState), port)
      fires == DueReport(st)
  IN  /\ recency' = SubSeq(list, OverTable(list) + 1, Len(list))
      /\ states' = [j \in Range(recency') |->
                      IF j # k THEN states[j]
                      ELSE IF fires THEN [st EXCEPT !.lastEmit = second] ELSE st]
      /\ touches' = [touches EXCEPT ![k][port] = second]
      /\ reports' = IF fires THEN [reports EXCEPT ![k] = second] ELSE reports
      /\ forgotten' = forgotten \cup out
      /\ verdict' = [who |-> k, at |-> second, before |-> reports[k],
                     ports |-> IF fires THEN st.order ELSE <<>>, dropped |-> out]

\* Detector.Run reads a packet; its own traffic is passed over, and handle
\* drops what is no attempt and what aims at a listening port.
HandlePacket(p) ==
  /\ socket = "open"
  /\ captured < MaxPackets
  /\ captured' = captured + 1
  /\ IF p.inbound /\ Attempt(p) /\ p.port \notin Ignore
     THEN ObserveAttempt(TrackerKey(p), p.port)
     ELSE UNCHANGED <<states, recency, touches, reports, forgotten, verdict>>
  /\ UNCHANGED <<second, socket>>

\* newPortscanRoad: detection is disabled, or the socket cannot be opened,
\* and the agent runs without; or it is open.
OpenCapture ==
  /\ socket = "closed"
  /\ socket' \in {"open", "off"}
  /\ UNCHANGED <<second, states, recency, captured, touches, reports, forgotten, verdict>>

\* A read error that is no timeout ends Run; nothing opens the socket again.
CaptureFails ==
  /\ socket = "open"
  /\ socket' = "off"
  /\ UNCHANGED <<second, states, recency, captured, touches, reports, forgotten, verdict>>

SecondPasses ==
  /\ second < LastSecond
  /\ second' = second + 1
  /\ UNCHANGED <<socket, states, recency, captured, touches, reports, forgotten, verdict>>

PortscanNext ==
  \/ OpenCapture \/ CaptureFails \/ SecondPasses
  \/ \E p \in Packets : HandlePacket(p)

PortscanSpec == PortscanInit /\ [][PortscanNext]_portscanVars

----------------------------------------------------------------------------
\* When a source was last seen.
LastSeen(k) == Max({touches[k][p] : p \in ClosedPorts})

\* A source is reported exactly when it has touched Threshold closed ports
\* inside the window and its last report is a cooldown or more ago, and the
\* report names exactly those ports: the incremental window of tracker.go
\* loses and keeps nothing.  Only a source the bounded table has dropped may
\* be judged differently, and what it drops was seen no later than anything
\* it keeps.
ScanReportedExactly ==
  /\ verdict.who \in ScanSources \ forgotten =>
       LET window == {p \in ClosedPorts : touches[verdict.who][p] > verdict.at - ScanWindow}
           owed   == /\ Cardinality(window) >= Threshold
                     /\ verdict.before # NotYet => verdict.at - verdict.before >= Cooldown
       IN  Range(verdict.ports) = IF owed THEN window ELSE {}
  /\ \A k \in verdict.dropped, j \in DOMAIN states : LastSeen(k) <= LastSeen(j)

\* Two reports of one source are a cooldown apart (tracker.go, DefaultCooldown:
\* "the minimum gap between two events for the same source").
ReportsApart ==
  (verdict.ports # <<>> /\ verdict.before # NotYet) => verdict.at - verdict.before >= Cooldown
============================================================================
