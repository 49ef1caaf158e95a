------------------------------- MODULE SmbRoad -------------------------------
(***************************************************************************)
(* The SMB audit road: the tailer hands over the lure's audit lines, the   *)
(* collapser folds the lines of one visit, a ticker releases visits that   *)
(* went quiet, and the read position is noted only while nothing is held   *)
(* and saved by the ticker.  handle and release run under one mutex, so    *)
(* each is a step; a submit that waits for queue room can only be ended by *)
(* room or by shutdown.  The file is not rotated here (see Tailer).        *)
(***************************************************************************)
EXTENDS Integers, Sequences, FiniteSets

CONSTANTS
    AuditLines,       \* the lines the lure may write: [shape, who, path, at]
    CollapseSpan, MaxGroups, MaxPathsPerGroup,
    MaxAudit,         \* bound: lines in the file
    MaxRoadStarts,    \* bound: starts of the agent
    Undated           \* the time of a line whose header has no readable one

VARIABLES
    audit,            \* the audit file
    handed,           \* lines handed to the road in this session (lastPos)
    visits,           \* collapser.open, oldest first: [who, start, quiet, lines]
    noted, savedAt,   \* pending and the position on disk
    road,             \* "up", "stopping" (context cancelled) or "down"
    roadStarts,
    queued,           \* events ever pushed, by id (the line they came from)
    refused           \* lines whose events a submit gave up at shutdown

smbVars == <<audit, handed, visits, noted, savedAt, road, roadStarts, queued, refused>>

SmbTypeOK ==
    /\ audit \in Seq(AuditLines) /\ Len(audit) <= MaxAudit
    /\ {handed, noted, savedAt} \subseteq 0..Len(audit)
    /\ \A i \in 1..Len(visits) : visits[i].lines \in Seq(AuditLines) /\ visits[i].quiet \in BOOLEAN
    /\ Len(visits) <= MaxGroups
    /\ road \in {"up", "stopping", "down"} /\ roadStarts \in 0..MaxRoadStarts
    /\ queued \subseteq AuditLines /\ refused \subseteq AuditLines

SmbInit ==
    /\ audit = <<>> /\ handed = 0 /\ visits = <<>> /\ noted = 0 /\ savedAt = 0
    /\ road = "up" /\ roadStarts = 1 /\ queued = {} /\ refused = {}

-----------------------------------------------------------------------------
(* Parse: what a line of each shape is taken for; "few fields" is Samba's  *)
(* own chatter, "short" a line that claims to be an audit line and is not. *)
Parse(l) ==
    CASE l.shape \in {"no header", "few fields"} -> "none"
      [] l.shape = "panic" -> "panic"
      [] l.shape \in {"short", "odd result", "odd operation"} -> "unparseable"
      [] l.shape = "other operation" -> "unexpected operation"
      [] l.shape = "close" -> "access"

(* Only an access with a time is held; everything else is told at once.    *)
Held(l) == Parse(l) = "access" /\ l.at # Undated

(* isPathPrefix: the directory on the way to a file.                       *)
IsPathPrefix(a, b) == a = "dir" /\ b = "file"

(* take: the visit's events, without the directories walked through.       *)
Surviving(v) ==
    SelectSeq(v.lines, LAMBDA e : ~ \E i \in 1..Len(v.lines) : IsPathPrefix(e.path, v.lines[i].path))

Concat(vs) ==
    LET upto[n \in 0..Len(vs)] == IF n = 0 THEN <<>> ELSE upto[n - 1] \o Surviving(vs[n])
    IN  upto[Len(vs)]

InWindow(v, e) == e.at >= v.start /\ e.at < v.start + CollapseSpan

(* addPath: a path the visit already holds adds nothing.                   *)
AddPath(v, e) ==
    [v EXCEPT !.quiet = FALSE,
              !.lines = IF \E i \in 1..Len(@) : @[i].path = e.path THEN @ ELSE Append(@, e)]

OverCapByOne(groups) == IF groups > MaxGroups + 1 THEN groups - MaxGroups ELSE 0

(* Offer's cap on open visits: how many of the oldest have to go.          *)
OverCap(groups) == IF groups > MaxGroups THEN groups - MaxGroups ELSE 0

(* Offer: what the line flushes and what is open after it.                 *)
Offer(e) ==
    LET elapsed(v) == e.at >= v.start + CollapseSpan
        over(v) == v.who = e.who /\ ~ InWindow(v, e)
        late == SelectSeq(visits, LAMBDA v : over(v) /\ ~ elapsed(v))
        stay == SelectSeq(visits, LAMBDA v : ~ elapsed(v) /\ ~ over(v))
        mine == {i \in 1..Len(stay) : stay[i].who = e.who}
        joined == IF mine = {}
                  THEN Append(stay, AddPath([who |-> e.who, start |-> e.at, quiet |-> FALSE, lines |-> <<>>], e))
                  ELSE [i \in 1..Len(stay) |-> IF i \in mine THEN AddPath(stay[i], e) ELSE stay[i]]
        full == SelectSeq(joined, LAMBDA v : Len(v.lines) >= MaxPathsPerGroup)
        open == SelectSeq(joined, LAMBDA v : Len(v.lines) < MaxPathsPerGroup)
        excess == OverCap(Len(open))
    IN  [out |-> Concat(SelectSeq(visits, elapsed) \o late \o full \o SubSeq(open, 1, excess)),
         open |-> SubSeq(open, excess + 1, Len(open))]

SettleAlways(open, pos) == pos         \* forgets what the collapser holds

(* settle: the position moves only while the collapser holds nothing.      *)
Settle(open, pos) == IF open = <<>> THEN pos ELSE noted

(* dispatch: the events are pushed in order; a submit that was waiting for *)
(* room when the context ended gives up the rest, and nothing is settled.  *)
Dispatch(events, open, pos, pushed) ==
    /\ pushed < Len(events) => road = "stopping"
    /\ queued' = queued \cup {events[i] : i \in 1..pushed}
    /\ refused' = refused \cup {events[i] : i \in pushed + 1..Len(events)}
    /\ noted' = IF pushed < Len(events) THEN noted ELSE Settle(open, pos)
    /\ visits' = open

(* handle, the tailer's callback; fill goes on to the end of what it read, *)
(* whether or not the context has ended.                                   *)
Handle(pushed) ==
    LET line == audit[handed + 1]
        offered == IF Held(line) THEN Offer(line) ELSE [out |-> <<line>>, open |-> visits]
    IN  /\ road # "down" /\ handed < Len(audit)
        /\ handed' = handed + 1
        /\ IF Parse(line) = "none"
           THEN pushed = 0 /\ noted' = Settle(visits, handed + 1) /\ UNCHANGED <<visits, queued, refused>>
           ELSE pushed <= Len(offered.out) /\ Dispatch(offered.out, offered.open, handed + 1, pushed)
        /\ UNCHANGED <<audit, savedAt, road, roadStarts>>

(* release: what nobody added to for a whole window.                       *)
Release(pushed) ==
    LET due == SelectSeq(visits, LAMBDA v : v.quiet)
    IN  /\ road # "down" /\ due # <<>>
        /\ pushed <= Len(Concat(due))
        /\ Dispatch(Concat(due), SelectSeq(visits, LAMBDA v : ~ v.quiet), handed, pushed)
        /\ UNCHANGED <<audit, handed, savedAt, road, roadStarts>>

SaveRoadPosition ==
    /\ road # "down" /\ noted # savedAt
    /\ savedAt' = noted
    /\ UNCHANGED <<audit, handed, visits, noted, road, roadStarts, queued, refused>>

Shutdown ==
    /\ road = "up"
    /\ road' = "stopping"
    /\ UNCHANGED <<audit, handed, visits, noted, savedAt, roadStarts, queued, refused>>

(* The process ends, having saved at a clean stop or not at a crash.       *)
Ends ==
    /\ road # "down"
    /\ road' = "down"
    /\ visits' = <<>>
    /\ UNCHANGED <<audit, handed, noted, savedAt, roadStarts, queued, refused>>

StartRoad ==
    /\ road = "down" /\ roadStarts < MaxRoadStarts
    /\ road' = "up" /\ roadStarts' = roadStarts + 1
    /\ handed' = savedAt /\ noted' = savedAt
    /\ UNCHANGED <<audit, visits, savedAt, queued, refused>>

(* External: the lure writes a line; a visit goes quiet.                   *)
LureWrites ==
    /\ Len(audit) < MaxAudit
    /\ \E l \in AuditLines : audit' = Append(audit, l)
    /\ UNCHANGED <<handed, visits, noted, savedAt, road, roadStarts, queued, refused>>

GoesQuiet ==
    /\ \E i \in 1..Len(visits) : ~ visits[i].quiet /\ visits' = [visits EXCEPT ![i].quiet = TRUE]
    /\ UNCHANGED <<audit, handed, noted, savedAt, road, roadStarts, queued, refused>>

SmbNext ==
    \/ \E pushed \in 0..MaxAudit : Handle(pushed) \/ Release(pushed)
    \/ SaveRoadPosition \/ Shutdown \/ Ends \/ StartRoad \/ LureWrites \/ GoesQuiet

SmbSpec == SmbInit /\ [][SmbNext]_smbVars

-----------------------------------------------------------------------------
(* What a line tells is told by its own event or by that of the same visit *)
(* whose path it is on the way to.                                         *)
ToldBy(e, events) ==
    \E q \in events :
        \/ q = e
        \/ /\ Held(q) /\ Held(e) /\ q.who = e.who
           /\ q.at - e.at \in (1 - CollapseSpan)..(CollapseSpan - 1)
           /\ q.path = e.path \/ IsPathPrefix(e.path, q.path)

(* Nothing is lost to a crash by being held: every line before the saved   *)
(* position has been told, unless its submit was given up at a shutdown.   *)
SavedPastNothingHeld ==
    \A i \in 1..savedAt : Parse(audit[i]) = "none" \/ ToldBy(audit[i], queued \cup refused)

(* dispatch's comment on a submit ended by shutdown: "Deliberately nothing *)
(* settled: these lines are read again on the next start."                 *)
ShutdownRereads ==
    \A i \in 1..savedAt : Parse(audit[i]) = "none" \/ ToldBy(audit[i], queued)

=============================================================================
