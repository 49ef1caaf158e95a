---------------------------- MODULE AgentSettings ----------------------------
(***************************************************************************)
(* The settings channel: an operator writes rows of canary_settings, every *)
(* heartbeat of the agent carries the hash of the settings it applied, and *)
(* birdcage answers one that differs from its rows with all the rows.  The *)
(* agent validates each key for itself, applies what it accepts to the     *)
(* running detector and keeps none of it over a restart.  A lost request   *)
(* or answer may leave a handler behind that records its hash late.        *)
(*                                                                         *)
(* A hash is taken to be injective, so the pairs it is taken over stand    *)
(* for it.  A duration is a number of milliseconds.                        *)
(***************************************************************************)
EXTENDS Integers, FiniteSets

CONSTANTS
    Inputs,          \* per key, the values an operator may type
    MinCeiling,      \* poisoner.MinCeilingGap
    MaxWrites,       \* bound: batches written
    MaxBoots,        \* bound: starts of the agent
    Windows, Linux, Off, \* the segment profiles
    Unusable,        \* a value the shared parsers refuse
    Blank,           \* the empty string
    Unset            \* no row, no pushed value, no hash

VARIABLES
    rows,            \* canary_settings
    recorded,        \* agents.settings_hash
    effective,       \* agentSettings.effective: pushed and applied
    running,         \* what the detector runs on, Unset for the environment's
    detecting,       \* whether the poisoner road came up in this process
    beat,            \* the heartbeat in flight
    late,            \* hashes in handlers whose agent stopped waiting
    writes, boots

settingsVars == <<rows, recorded, effective, running, detecting, beat, late, writes, boots>>

Keys == DOMAIN Inputs
Values == UNION {Inputs[k] : k \in Keys}
Nothing == [k \in Keys |-> Unset]
Pairs == [Keys -> Values \cup {Unset}]
NoBeat == [at |-> "none", hash |-> Unset, push |-> Unset]

(* SettingsHash; an agent with nothing applied reports no hash at all.     *)
Hash(pairs) == IF pairs = Nothing THEN Unset ELSE pairs

-----------------------------------------------------------------------------
(* canarySettingDefs: what birdcage stores.                                *)
Validate(k, v) ==
    CASE k = "segment_profile" -> v \in {Blank, Windows, Linux, Off}
      [] k \in {"pace_floor", "pace_ceiling"} -> v = Blank \/ v > 0
      [] k \in {"bait_names", "working_hours"} -> v # Unusable

(* Apply's own switch: what the agent takes.                               *)
Accepts(k, v) ==
    CASE k = "segment_profile" -> v \in {Blank, Windows, Linux, Off}
      [] k = "pace_floor" -> v # Blank /\ v > 0
      [] k = "pace_ceiling" -> v # Blank /\ v >= MinCeiling
      [] k \in {"bait_names", "working_hours"} -> v # Unusable

-----------------------------------------------------------------------------
SettingsTypeOK ==
    /\ {rows, effective, running} \subseteq Pairs
    /\ recorded \in Pairs \cup {Unset} /\ late \subseteq Pairs
    /\ beat.at \in {"none", "sent", "recorded", "answered"}
    /\ beat.hash \in Pairs \cup {Unset} /\ beat.push \in Pairs \cup {Unset}
    /\ detecting \in BOOLEAN /\ writes \in 0..MaxWrites /\ boots \in 1..MaxBoots

(* SeedCanarySettingsFromEnrolment: an enrolment may bring a first profile *)
(* and first names.                                                        *)
SettingsInit ==
    /\ rows \in {f \in Pairs : \A k \in Keys :
                   f[k] # Unset => /\ k \in {"segment_profile", "bait_names"}
                                   /\ f[k] \in Inputs[k] \ {Blank} /\ Validate(k, f[k])}
    /\ recorded = Unset /\ effective = Nothing /\ running = Nothing
    /\ detecting \in BOOLEAN /\ beat = NoBeat /\ late = {}
    /\ writes = 0 /\ boots = 1

(* SetCanarySettings: one transaction, which one bad value rolls back.     *)
SetCanarySettings(K) ==
    /\ writes < MaxWrites
    /\ \E updates \in [K -> Values] :
         /\ \A k \in K : updates[k] \in Inputs[k] /\ Validate(k, updates[k])
         /\ rows' = [k \in Keys |-> IF k \in K THEN updates[k] ELSE rows[k]]
    /\ writes' = writes + 1
    /\ UNCHANGED <<recorded, effective, running, detecting, beat, late, boots>>

-----------------------------------------------------------------------------
(* The agent's heartbeat loop: one at a time.                              *)
SendHeartbeat ==
    /\ beat.at = "none"
    /\ beat' = [NoBeat EXCEPT !.at = "sent", !.hash = Hash(effective)]
    /\ UNCHANGED <<rows, recorded, effective, running, detecting, late, writes, boots>>

(* Apply: key by key; one refused key leaves the others applied.           *)
Apply(push) ==
    LET taken == IF detecting THEN {k \in Keys : push[k] # Unset /\ Accepts(k, push[k])} ELSE {}
        Merge(old) == [k \in Keys |-> IF k \in taken THEN push[k] ELSE old[k]]
    IN  effective' = Merge(effective) /\ running' = Merge(running)

ReceiveAnswer ==
    /\ beat.at = "answered"
    /\ IF beat.push = Unset THEN UNCHANGED <<effective, running>> ELSE Apply(beat.push)
    /\ beat' = NoBeat
    /\ UNCHANGED <<rows, recorded, detecting, late, writes, boots>>

(* The request, its handler or the answer is lost; the handler that has    *)
(* not recorded its hash yet may still do so.                              *)
LoseHeartbeat ==
    /\ beat.at # "none"
    /\ \/ late' = late
       \/ beat.at = "sent" /\ beat.hash # Unset /\ late = {} /\ late' = {beat.hash}
    /\ beat' = NoBeat
    /\ UNCHANGED <<rows, recorded, effective, running, detecting, writes, boots>>

RestartAgent ==
    /\ boots < MaxBoots /\ boots' = boots + 1
    /\ effective' = Nothing /\ running' = Nothing /\ detecting' \in BOOLEAN
    /\ beat' = NoBeat
    /\ late' = IF beat.at = "sent" /\ beat.hash # Unset THEN late \cup {beat.hash} ELSE late
    /\ UNCHANGED <<rows, recorded, writes>>

-----------------------------------------------------------------------------
(* handleHoneypotHeartbeat and pushSettings.                               *)
RecordCanarySettingsHash ==
    /\ beat.at = "sent"
    /\ recorded' = IF beat.hash = Unset THEN recorded ELSE beat.hash
    /\ beat' = [beat EXCEPT !.at = "recorded"]
    /\ UNCHANGED <<rows, effective, running, detecting, late, writes, boots>>

RecordLate ==
    /\ late # {}
    /\ \E h \in late : recorded' = h /\ late' = late \ {h}
    /\ UNCHANGED <<rows, effective, running, detecting, beat, writes, boots>>

(* The rows are read after the hash was stored; a failed read answers      *)
(* without settings, and so do no rows and equal hashes.                   *)
PushOf(reported) == IF rows = Nothing \/ Hash(rows) = reported THEN Unset ELSE rows
PushOfRecorded(reported) == IF rows = Nothing \/ Hash(rows) = recorded THEN Unset ELSE rows

AnswerFrom(push) ==
    /\ beat.at = "recorded"
    /\ beat' = [beat EXCEPT !.at = "answered", !.push = push]
    /\ UNCHANGED <<rows, recorded, effective, running, detecting, late, writes, boots>>

PushSettingsByRecord == AnswerFrom(PushOfRecorded(beat.hash))
PushSettings == AnswerFrom(PushOf(beat.hash))
ListFails == AnswerFrom(Unset)

-----------------------------------------------------------------------------
SettingsNext ==
    \/ \E K \in SUBSET Keys \ {{}} : SetCanarySettings(K)
    \/ SendHeartbeat \/ ReceiveAnswer \/ LoseHeartbeat \/ RestartAgent
    \/ RecordCanarySettingsHash \/ RecordLate \/ PushSettings \/ ListFails

(* The ticker and the client's timeout keep the loop going, a handler that *)
(* runs on finishes, not every exchange is lost and not every read fails.  *)
HeartbeatLoop == SendHeartbeat \/ ReceiveAnswer \/ LoseHeartbeat
DeliverSettings == ReceiveAnswer /\ beat.push # Unset

SettingsFairness ==
    /\ WF_settingsVars(HeartbeatLoop) /\ WF_settingsVars(RecordLate)
    /\ SF_settingsVars(RecordCanarySettingsHash) /\ SF_settingsVars(PushSettings)
    /\ SF_settingsVars(DeliverSettings)

SettingsSpec == SettingsInit /\ [][SettingsNext]_settingsVars /\ SettingsFairness

-----------------------------------------------------------------------------
(* internal/api canaryFacts and "agent settings show".                     *)
Confirmed == recorded # Unset /\ recorded = Hash(rows)

Agrees == \A k \in Keys : rows[k] # Unset => running[k] = rows[k]

(* Once the operator stops writing and the agent stops restarting, an      *)
(* agent with a detector comes to run on every row, and birdcage to show   *)
(* it as confirmed, whatever heartbeats, answers and late handlers did.    *)
SettingsConverge == <>[](detecting /\ rows # Nothing => Agrees /\ Confirmed)

(* "true here means the agent's most recent heartbeat reported effective   *)
(* settings that hash identically to every row shown here".                *)
ConfirmedMeansRunning == Confirmed /\ beat.at = "recorded" => beat.hash = Hash(rows)
=============================================================================
