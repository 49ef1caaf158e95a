------------------------------ MODULE Poisoner ------------------------------
(***************************************************************************)
(* The agent's poisoner detector (internal/agent/poisoner): it counts the  *)
(* name queries of the segment it sits on in a ring of hourly buckets, and *)
(* asks for names nobody has in bursts whose pace follows the median host, *)
(* inside the working hours.  Profile, names and pace may be replaced at   *)
(* any moment by a push from birdcage (SetLiveSettings).                   *)
(*                                                                         *)
(* Three kinds of goroutine meet here: one per counting socket, the asker, *)
(* and the heartbeat that applies a push.  A socket reads the clock before *)
(* it takes the counter's lock.  What a lookup puts on the wire and what   *)
(* is answered to it leave no state behind but an event in the agent's     *)
(* queue, which EventPipeline models.                                      *)
(***************************************************************************)
EXTENDS Integers, Sequences, FiniteSets, FiniteSetsExt, Functions

CONSTANTS
  Hosts,            \* source addresses on the segment
  Sockets,          \* the counting sockets that could be bound
  PaceBuckets,      \* paceBuckets, 24 in the code
  BucketWidth,      \* paceBucketWidth, in units of the clock
  MaxTrackedHosts,  \* maxTrackedHosts
  MinTalkingHosts,  \* minTalkingHosts
  MinCeilingGap,    \* MinCeilingGap
  DefaultFloorGap, DefaultCeilingGap,
  StartupDelayMax,  \* startupDelayMax
  BurstSizes,       \* minBurstLookups .. maxBurstLookups
  DayLength, DaysPerWeek,
  Settings,         \* the live settings a push may bring
  MaxQueries,       \* bound: queries heard
  LastMinute,       \* bound: the clock
  Idle              \* a socket with no datagram in hand

VARIABLES
  now,        \* the wall clock
  buckets,    \* paceCounter.buckets: per bucket the count of each host
  cur,        \* paceCounter.cur
  curStart,   \* paceCounter.curStart, in bucket widths
  overflowed, \* paceCounter.overflowed
  reading,    \* per socket: the query read, with the time read for it
  live,       \* profile, names and pace under liveMu
  asker,      \* where ask() stands
  lastBurst,  \* history: when the last burst began
  heard,      \* queries read, for the bound
  told        \* history: per hour, the queries counted in it

counter == <<buckets, cur, curStart, overflowed, told>>
poisonerVars == <<now, counter, reading, heard, live, asker, lastBurst>>

Hours == 0 .. LastMinute \div BucketWidth
NoCounts == [h \in Hosts |-> 0]

----------------------------------------------------------------------------
(* Working hours (schedule.go).                                            *)

\* Whether instant t lies in window w; a window may cross midnight, and the
\* part after midnight then belongs to the day before.
Contains(w, t) ==
  LET minute == t % DayLength
      day    == (t \div DayLength) % DaysPerWeek
  IN  IF w.start < w.end
        THEN day \in w.days /\ minute \in w.start .. w.end - 1
        ELSE \/ minute >= w.start /\ day \in w.days
             \/ minute < w.start /\ minute < w.end
                /\ (day + DaysPerWeek - 1) % DaysPerWeek \in w.days

NextStart(w, t) ==
  LET inside == {u \in t .. t + (DaysPerWeek + 1) * DayLength : Contains(w, u)}
  IN  IF inside = {} THEN t + DaysPerWeek * DayLength ELSE Min(inside)

DailySpan(w) ==
  LET span == w.end - w.start + (IF w.end < w.start THEN DayLength ELSE 0)
  IN  IF span <= 0 THEN 0 ELSE (span * Cardinality(w.days)) \div DaysPerWeek

----------------------------------------------------------------------------
(* The pace (pace.go, schedule.go).                                        *)

Normalise(s) ==
  LET floor   == IF s.floor <= 0 THEN DefaultFloorGap ELSE s.floor
      ceiling == IF s.ceiling <= 0 THEN DefaultCeilingGap
                 ELSE Max({s.ceiling, MinCeilingGap})
  IN  [floor |-> floor, ceiling |-> Min({ceiling, floor}), hours |-> s.hours]

Clamp(gap, s) == Max({Min({gap, s.floor}), s.ceiling})

\* Two lookups in seven, the mean of two and five, make one burst a day.
MatchedGap(queries, hosts, s) ==
  LET working      == DailySpan(s.hours)
      burstsPerDay == (2 * queries) \div (Min(BurstSizes) + Max(BurstSizes))
  IN  IF hosts < MinTalkingHosts \/ working <= 0 \/ burstsPerDay <= 0
        THEN s.floor
        ELSE Clamp(working \div burstsPerDay, s)

\* A quarter either way, then the same two clamps again.
Jitter(gap, s) ==
  LET swing == gap \div 4
  IN  {Clamp(gap + d, s) : d \in IF swing = 0 THEN {0} ELSE -swing .. swing - 1}

\* The ring after advance(at), at in bucket widths.
AdvanceOnlyTheNew(at) ==
  LET steps == at - curStart
  IN  IF steps <= 0
        THEN [buckets |-> buckets, cur |-> cur, start |-> curStart]
        ELSE LET to == (cur + steps) % PaceBuckets
             IN  [buckets |-> [buckets EXCEPT ![to] = NoCounts],
                  cur |-> to, start |-> at]

Advance(at) ==
  LET steps   == at - curStart
      cleared == {(cur + i) % PaceBuckets : i \in 1 .. steps}
  IN  IF steps <= 0
        THEN [buckets |-> buckets, cur |-> cur, start |-> curStart]
      ELSE IF steps >= PaceBuckets
        THEN [buckets |-> [b \in DOMAIN buckets |-> NoCounts],
              cur |-> 0, start |-> at]
      ELSE [buckets |-> [b \in DOMAIN buckets |->
                           IF b \in cleared THEN NoCounts ELSE buckets[b]],
            cur |-> (cur + steps) % PaceBuckets, start |-> at]

Totals(ring) ==
  [h \in Hosts |-> SumFunction([b \in DOMAIN ring |-> ring[b][h]])]

\* Median: the lower middle count of the hosts heard, and how many they are.
Median(ring) ==
  LET total  == Totals(ring)
      talking == {h \in Hosts : total[h] > 0}
      middle == (Cardinality(talking) + 1) \div 2
  IN  [hosts   |-> Cardinality(talking),
       queries |-> IF talking = {} THEN 0
                   ELSE Min({total[h] : h \in
                          {g \in talking : Cardinality({k \in talking :
                                           total[k] <= total[g]}) >= middle}})]

Protocols(profile) ==
  CASE profile = "windows" -> <<"LLMNR", "NBNS", "MDNS">>
    [] profile = "linux"   -> <<"LLMNR", "MDNS">>
    [] profile = "off"     -> <<>>

----------------------------------------------------------------------------
PoisonerTypeOK ==
  /\ now \in 0 .. LastMinute
  /\ buckets \in [0 .. PaceBuckets - 1 -> [Hosts -> 0 .. MaxQueries]]
  /\ cur \in DOMAIN buckets /\ curStart \in Hours /\ overflowed \in BOOLEAN
  /\ reading \in [Sockets -> {Idle} \cup [host : Hosts, at : 0 .. LastMinute]]
  /\ live \in Settings /\ heard \in 0 .. MaxQueries
  /\ asker.left \in 0 .. Max(BurstSizes) /\ asker.wake \in Nat
  /\ told \in [Hours -> [Hosts -> 0 .. MaxQueries]]

\* Open and Run: the counting sockets are joined, and the profile is one that
\* asks, so that the asker runs.
Opened ==
  /\ reading = [l \in Sockets |-> Idle] /\ heard = 0
  /\ live \in {s \in Settings : Protocols(s.profile) # <<>>}

\* poisonerSettings and New: the environment's settings, normalised.
PoisonerInit ==
  /\ now = 0
  /\ buckets = [b \in 0 .. PaceBuckets - 1 |-> NoCounts]
  /\ cur = 0 /\ curStart = 0 /\ overflowed = FALSE
  /\ Opened
  /\ \E wake \in 0 .. Min({StartupDelayMax, Normalise(live.pace).floor}) - 1 :
       asker = [at |-> "starting", wake |-> wake, left |-> 0, asking |-> <<>>]
  /\ lastBurst = -1
  /\ told = [b \in Hours |-> NoCounts]

----------------------------------------------------------------------------
(* The counting sockets.                                                   *)

\* count: a query was read; observe calls now() before Observe locks.
HearQuery(l, h) ==
  /\ reading[l] = Idle
  /\ heard < MaxQueries
  /\ heard' = heard + 1
  /\ reading' = [reading EXCEPT ![l] = [host |-> h, at |-> now]]
  /\ UNCHANGED <<now, counter, live, asker, lastBurst>>

Observe(l) ==
  /\ reading[l] # Idle
  /\ LET ring   == Advance(reading[l].at \div BucketWidth)
         host   == reading[l].host
         bucket == ring.buckets[ring.cur]
         full   == /\ bucket[host] = 0
                   /\ Cardinality({h \in Hosts : bucket[h] > 0}) >= MaxTrackedHosts
     IN  /\ cur' = ring.cur /\ curStart' = ring.start
         /\ overflowed' = (overflowed \/ full)
         /\ buckets' = IF full THEN ring.buckets
                       ELSE [ring.buckets EXCEPT ![ring.cur][host] = @ + 1]
         /\ told' = IF full THEN told ELSE [told EXCEPT ![ring.start][host] = @ + 1]
  /\ reading' = [reading EXCEPT ![l] = Idle]
  /\ UNCHANGED <<now, heard, live, asker, lastBurst>>

----------------------------------------------------------------------------
(* ask(): a goroutine of its own; a sleep may end late, never early.       *)

\* burst's head: how many lookups it makes is drawn once.
BeginBurst ==
  /\ \E n \in BurstSizes :
       asker' = [at |-> "step", wake |-> 0, left |-> n, asking |-> <<>>]
  /\ lastBurst' = now

StartupOver ==
  /\ asker.at = "starting" /\ now >= asker.wake
  /\ BeginBurst
  /\ UNCHANGED <<now, counter, reading, heard, live>>

\* A burst's next lookup step reads the shape afresh; there is always a name
\* to ask for, since DeriveNames ends every list with "wpad".  A profile that
\* asks nothing ends the step at once.
BurstStep ==
  /\ asker.at = "step" /\ now >= asker.wake
  /\ asker' = [asker EXCEPT !.at = "asking", !.asking = Protocols(live.profile)]
  /\ UNCHANGED <<now, counter, reading, heard, live, lastBurst>>

\* One lookup goes out (lookupLocked); one that fails to is only logged.
Lookup ==
  /\ asker.at = "asking" /\ asker.asking # <<>>
  /\ asker' = [asker EXCEPT !.asking = Tail(@)]
  /\ UNCHANGED <<now, counter, reading, heard, live, lastBurst>>

\* The step's protocols are done: the gap before the next, which is short, or
\* the burst is over.
StepDone ==
  /\ asker.at = "asking" /\ asker.asking = <<>>
  /\ asker' = IF asker.left > 1
                THEN [asker EXCEPT !.at = "step", !.left = @ - 1, !.wake = now]
                ELSE [at |-> "pace", wake |-> 0, left |-> 0, asking |-> <<>>]
  /\ UNCHANGED <<now, counter, reading, heard, live, lastBurst>>

\* The loop's head: the gap that the counted queries call for.
Pace ==
  /\ asker.at = "pace"
  /\ LET ring   == Advance(now \div BucketWidth)
         median == Median(ring.buckets)
         pace   == Normalise(live.pace)
     IN  /\ buckets' = ring.buckets /\ cur' = ring.cur /\ curStart' = ring.start
         /\ \E gap \in Jitter(MatchedGap(median.queries, median.hosts, pace), pace) :
              asker' = [asker EXCEPT !.at = "hours", !.wake = now + gap]
  /\ UNCHANGED <<now, overflowed, told, reading, heard, live, lastBurst>>

\* waitForWorkingHours: each waking reads the hours in force anew.
WaitForWorkingHours ==
  /\ asker.at = "hours" /\ now >= asker.wake
  /\ LET hours == Normalise(live.pace).hours
     IN  IF Contains(hours, now)
           THEN BeginBurst
           ELSE /\ asker' = [asker EXCEPT !.wake = Max({NextStart(hours, now), now + 1})]
                /\ UNCHANGED lastBurst
  /\ UNCHANGED <<now, counter, reading, heard, live>>

----------------------------------------------------------------------------
SetLiveSettings ==
  /\ live' \in Settings \ {live}
  /\ UNCHANGED <<now, counter, reading, heard, asker, lastBurst>>

MinutePasses ==
  /\ now < LastMinute
  /\ now' = now + 1
  /\ UNCHANGED <<counter, reading, heard, live, asker, lastBurst>>

PoisonerNext ==
  \/ \E l \in Sockets : (\E h \in Hosts : HearQuery(l, h)) \/ Observe(l)
  \/ StartupOver \/ BurstStep \/ Lookup \/ StepDone
  \/ Pace \/ WaitForWorkingHours
  \/ SetLiveSettings \/ MinutePasses

PoisonerSpec == PoisonerInit /\ [][PoisonerNext]_poisonerVars

----------------------------------------------------------------------------
\* The ring holds exactly the last PaceBuckets hours: a host's total is what
\* was counted for it in those hours, however far the clock moved between two
\* calls and however late a socket got the lock with the time it had read.
PaceWindowExact ==
  \A h \in Hosts :
    Totals(buckets)[h] =
      SumFunction([b \in {c \in Hours : c > curStart - PaceBuckets /\ c <= curStart}
                     |-> told[b][h]])

\* "MinCeilingGap is the least a ceiling may ever be, however it reaches
\* PaceSettings": no burst begins within MinCeilingGap of the one before.
NeverBroadcasts ==
  [][lastBurst' # lastBurst /\ lastBurst >= 0
       => lastBurst' - lastBurst >= MinCeilingGap]_poisonerVars
=============================================================================
