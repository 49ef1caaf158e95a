------------------------------- MODULE Tailer -------------------------------
(***************************************************************************)
(* The log tailer over files that rotate under it: the catch-up over the   *)
(* rotated siblings from the acknowledged position (catchUp, selectChain,  *)
(* readWhole) and the loop that follows the live file (followLive).        *)
(*                                                                         *)
(* A line is two bytes, its text and its newline, written one after the    *)
(* other.  A file is the number of its first line and its size, so that    *)
(* which lines are complete in it, and where each ends, follow.  Inodes    *)
(* are numbered in the order of creation and never used twice.             *)
(***************************************************************************)
EXTENDS Naturals, FiniteSets

CONSTANTS
    MaxLines,         \* lines the honeypot writes
    MaxInodes,        \* files it writes them to
    MaxRotatedFiles,  \* Config.MaxRotatedFiles
    MaxRotatedBytes,  \* Config.MaxRotatedBytes
    MaxSessions,      \* calls of Follow
    Pursued           \* excuses a behaviour is followed beyond

\* The bounds are numbers.
ASSUME TailerConstants == MaxLines \in Nat /\ MaxInodes \in Nat /\ MaxSessions \in Nat

VARIABLES
    logs,        \* per inode: [first, size, there]
    livePath,    \* the inode at the log's path, 0 when there is none
    nextLine,    \* the line being written
    reader,      \* the open lineReader: [inode, offset], inode 0 when nil
    session,     \* the Follow call: where it stands and its catch-up
    acked,       \* the saved position, inode 0 when there is none
    emitted,     \* lines handed to emit, in any session
    excuse       \* why lines may have been skipped: the first reason

tailerVars == <<logs, livePath, nextLine, reader, session, acked, emitted, excuse>>
fileVars == <<logs, livePath, nextLine>>

Inodes == 1..MaxInodes
NoPosition == [inode |-> 0, offset |-> 0]
LineBytes == 2
NoSessionYet == [pc |-> "off", nth |-> 0, chain |-> {}, from |-> 0, live |-> 0, found |-> TRUE, newest |-> 0]

LinesIn(i, upto) == {k \in 1..MaxLines : k >= logs[i].first /\ LineBytes * (k - logs[i].first + 1) <= upto}
Created == {i \in Inodes : logs[i].first # 0}
Newest == IF Created = {} THEN 0 ELSE CHOOSE i \in Created : \A j \in Created : j <= i
Reasons == {"none", "bounds", "rotated twice", "truncated", "listing race", "read error"}
Excuse(reason) == IF excuse = "none" THEN reason ELSE excuse

TailerTypeOK ==
    /\ logs \in [Inodes -> [first : 0..(MaxLines + 1), size : 0..(LineBytes * MaxLines), there : BOOLEAN]]
    /\ livePath \in 0..MaxInodes /\ nextLine \in 1..(MaxLines + 1)
    /\ reader \in [inode : 0..MaxInodes, offset : 0..(LineBytes * MaxLines)]
    /\ acked \in [inode : 0..MaxInodes, offset : 0..(LineBytes * MaxLines)]
    /\ session.pc \in {"off", "list", "chain", "open live", "reopen", "fill", "stat", "drain"}
    /\ session.nth \in 0..MaxSessions /\ session.chain \subseteq Inodes
    /\ emitted \subseteq 1..MaxLines /\ excuse \in Reasons

TailerInit ==
    /\ logs = [i \in Inodes |-> [first |-> 0, size |-> 0, there |-> FALSE]]
    /\ livePath = 0 /\ nextLine = 1
    /\ reader = NoPosition /\ session = NoSessionYet /\ acked = NoPosition
    /\ emitted = {} /\ excuse = "none"

-----------------------------------------------------------------------------
(* The honeypot's side.  A truncation is hidden by a size that reaches the *)
(* offset of a reader, or of the saved position, again.                    *)
AppendByte ==
    /\ livePath # 0 /\ nextLine <= MaxLines
    /\ LET size == logs[livePath].size + 1 IN
       /\ logs' = [logs EXCEPT ![livePath].size = size]
       /\ nextLine' = IF size % LineBytes = 0 THEN nextLine + 1 ELSE nextLine
       /\ excuse' = IF [inode |-> livePath, offset |-> size] \in {reader, acked}
                     THEN Excuse("truncated") ELSE excuse
    /\ UNCHANGED <<livePath, reader, session, acked, emitted>>

(* Rotation by rename: first the path is gone, then it names a new file.   *)
(* A reader that is not on the file being renamed will never open it, and  *)
(* neither will a catch-up that has made its list.                         *)
RotateAway ==
    /\ livePath # 0 /\ Newest < MaxInodes
    /\ livePath' = 0
    /\ nextLine' = IF logs[livePath].size % LineBytes = 0 THEN nextLine ELSE nextLine + 1
    /\ excuse' = IF reader.inode = livePath /\ reader.offset > logs[livePath].size
                  THEN Excuse("truncated")
                  ELSE IF session.pc = "chain" THEN Excuse("listing race")
                  ELSE IF session.pc \in {"reopen", "fill", "stat", "drain"} /\ reader.inode # livePath
                  THEN Excuse("rotated twice") ELSE excuse
    /\ UNCHANGED <<logs, reader, session, acked, emitted>>

CreateLive ==
    /\ livePath = 0 /\ Newest < MaxInodes /\ nextLine <= MaxLines
    /\ livePath' = Newest + 1
    /\ logs' = [logs EXCEPT ![Newest + 1] = [first |-> nextLine, size |-> 0, there |-> TRUE]]
    /\ UNCHANGED <<nextLine, reader, session, acked, emitted, excuse>>

(* A cleanup removes the oldest rotated file; before any acknowledgement   *)
(* nothing tells a later session that it is missing.                       *)
Purge(i) ==
    /\ logs[i].there /\ i # livePath /\ \A j \in Inodes : logs[j].there => i <= j
    /\ logs' = [logs EXCEPT ![i].there = FALSE]
    /\ excuse' = IF acked.inode = 0 /\ ~ LinesIn(i, logs[i].size) \subseteq emitted
                  THEN Excuse("bounds") ELSE excuse
    /\ UNCHANGED <<livePath, nextLine, reader, session, acked, emitted>>

Truncate ==
    /\ livePath # 0 /\ logs[livePath].size > 0 /\ logs[livePath].size % LineBytes = 0
    /\ logs' = [logs EXCEPT ![livePath] = [first |-> nextLine, size |-> 0, there |-> TRUE]]
    /\ excuse' = IF reader.inode = livePath /\ reader.offset = logs[livePath].size
                  THEN excuse ELSE Excuse("truncated")
    /\ UNCHANGED <<livePath, nextLine, reader, session, acked, emitted>>

-----------------------------------------------------------------------------
(* Emit: lineReader.fill reads to the end and hands over complete lines.   *)
EmitFrom(i, offset) == emitted' = emitted \cup (LinesIn(i, logs[i].size) \ LinesIn(i, offset))

Stop ==   \* ctx is cancelled, or the agent dies
    /\ session.pc # "off"
    /\ session' = [session EXCEPT !.pc = "off"]
    /\ reader' = NoPosition
    /\ UNCHANGED <<fileVars, acked, emitted, excuse>>

(* A line already emitted is acknowledged and its position saved.          *)
SavePosition ==
    /\ reader.inode # 0 /\ LinesIn(reader.inode, reader.offset) # {}
    /\ acked' = [inode |-> reader.inode, offset |-> LineBytes * (reader.offset \div LineBytes)]
    /\ acked' # acked
    /\ UNCHANGED <<fileVars, reader, session, emitted, excuse>>

Follow ==
    /\ session.pc = "off" /\ session.nth < MaxSessions
    /\ session' = [NoSessionYet EXCEPT !.pc = "list", !.nth = session.nth + 1]
    /\ UNCHANGED <<fileVars, reader, acked, emitted, excuse>>

There == {i \in Inodes : logs[i].there}
Siblings == There \ {livePath}
BytesFrom(files, start) ==
    LET size[n \in 0..MaxInodes] == IF n = 0 THEN 0 ELSE size[n - 1] + IF n \in files THEN logs[n].size ELSE 0
    IN  size[MaxInodes] - start
Affordable(files, start) ==
    Cardinality(files) <= MaxRotatedFiles /\ BytesFrom(files, start) <= MaxRotatedBytes
From(i) == {j \in Siblings : j >= i}

(* listCandidates and selectChain: the saved position's file and those     *)
(* after it if all of them are within bounds, else the newest files that   *)
(* are.                                                                    *)
SelectChain ==
    /\ session.pc = "list"
    /\ LET onLive == acked.inode # 0 /\ livePath = acked.inode /\ acked.offset <= logs[livePath].size
           onSibling == acked.inode \in Siblings /\ acked.offset <= logs[acked.inode].size
                        /\ Affordable(From(acked.inode), acked.offset)
           kept == CHOOSE files \in {f \in {From(i) : i \in Siblings} \cup {{}} : Affordable(f, 0)} :
                     \A i \in Siblings : Affordable(From(i), 0) => From(i) \subseteq files
           chain == IF onLive THEN {} ELSE IF onSibling THEN From(acked.inode) ELSE kept
           found == onLive \/ onSibling IN
       /\ session' = [session EXCEPT !.pc = "chain", !.chain = chain, !.found = found, !.live = livePath,
                                     !.from = IF onSibling THEN acked.offset ELSE 0, !.newest = Newest]
       /\ excuse' = IF found \/ (acked.inode = 0 /\ chain = Siblings) THEN excuse ELSE Excuse("bounds")
    /\ UNCHANGED <<fileVars, reader, acked, emitted>>

(* readWhole, oldest file first.  Its path names another file, or none,    *)
(* after a rotation or a cleanup: the file is skipped and the position is  *)
(* no longer reported as found.                                            *)
ReadWhole ==
    /\ session.pc = "chain" /\ session.chain # {}
    /\ LET i == CHOOSE i \in session.chain : \A j \in session.chain : i <= j
           opened == logs[i].there /\ Newest = session.newest /\ (session.live # 0 => livePath # 0) IN
       /\ session' = [session EXCEPT !.chain = @ \ {i}, !.from = 0, !.found = @ /\ opened]
       /\ IF opened THEN EmitFrom(i, session.from) ELSE UNCHANGED emitted
       /\ excuse' = IF opened THEN excuse ELSE Excuse("bounds")
    /\ UNCHANGED <<fileVars, reader, acked>>

Caught(pc) == session' = [NoSessionYet EXCEPT !.pc = pc, !.nth = session.nth, !.found = session.found]

(* catchUp's last part opens the live file by its path, wherever the path  *)
(* leads by now, at the saved offset if the saved position was in the live *)
(* file that was listed.                                                   *)
CatchUpLive ==
    /\ session.pc = "chain" /\ session.chain = {}
    /\ IF session.live = 0 \/ livePath = 0
       THEN reader' = NoPosition /\ Caught("reopen") /\ UNCHANGED emitted
       ELSE LET onLive == session.found /\ acked.inode = session.live
                start == IF onLive THEN acked.offset ELSE 0 IN
            /\ reader' = [inode |-> livePath, offset |-> IF start > logs[livePath].size THEN start ELSE logs[livePath].size]
            /\ EmitFrom(livePath, start)
            /\ Caught("fill")
    /\ UNCHANGED <<fileVars, acked, excuse>>

-----------------------------------------------------------------------------
Reopen ==
    /\ session.pc = "reopen" /\ livePath # 0
    /\ reader' = [inode |-> livePath, offset |-> 0]
    /\ session' = [session EXCEPT !.pc = "fill"]
    /\ UNCHANGED <<fileVars, acked, emitted, excuse>>

(* Reading to the end, and looking at the path afterwards.                 *)
Fill ==
    /\ session.pc = "fill"
    /\ EmitFrom(reader.inode, reader.offset)
    /\ reader' = [reader EXCEPT !.offset = IF logs[reader.inode].size > @ THEN logs[reader.inode].size ELSE @]
    /\ session' = [session EXCEPT !.pc = "stat"]
    /\ UNCHANGED <<fileVars, acked, excuse>>

FillError ==
    /\ session.pc = "fill"
    /\ reader' = NoPosition
    /\ session' = [session EXCEPT !.pc = "reopen"]
    /\ excuse' = IF reader.inode = livePath THEN excuse ELSE Excuse("read error")
    /\ UNCHANGED <<fileVars, acked, emitted>>

(* The path is gone: wait.  It names another file: drain this one.  The    *)
(* file shrank: start it again.  Otherwise: wait.                          *)
Stat ==
    /\ session.pc = "stat"
    /\ session' = [session EXCEPT !.pc = IF livePath \notin {0, reader.inode} THEN "drain" ELSE "fill"]
    /\ reader' = IF livePath = reader.inode /\ logs[livePath].size < reader.offset
                 THEN [reader EXCEPT !.offset = 0] ELSE reader
    /\ UNCHANGED <<fileVars, acked, emitted, excuse>>

SwitchWithoutDrain ==
    /\ session.pc = "drain"
    /\ reader' = NoPosition
    /\ session' = [session EXCEPT !.pc = "reopen"]
    /\ UNCHANGED <<fileVars, acked, emitted, excuse>>

(* The last bytes written before the rotation are read before the switch;  *)
(* a line without its newline is dropped with the file.                    *)
Drain ==
    /\ session.pc = "drain"
    /\ EmitFrom(reader.inode, reader.offset)
    /\ reader' = NoPosition
    /\ session' = [session EXCEPT !.pc = "reopen"]
    /\ UNCHANGED <<fileVars, acked, excuse>>

TailerStep ==
    \/ AppendByte \/ RotateAway \/ CreateLive \/ Truncate \/ (\E i \in Inodes : Purge(i))
    \/ Stop \/ SavePosition \/ Follow \/ SelectChain \/ ReadWhole \/ CatchUpLive
    \/ Reopen \/ Fill \/ FillError \/ Stat \/ Drain

(* Once something excuses a skipped line the rest says nothing: behaviours *)
(* end there, except after the excuses in Pursued.                         *)
TailerNext == excuse \in Pursued /\ TailerStep

TailerSpec == TailerInit /\ [][TailerNext]_tailerVars

-----------------------------------------------------------------------------
Following == session.pc \in {"fill", "stat", "drain"}
PassedBy == UNION {IF i < reader.inode THEN LinesIn(i, logs[i].size)
                   ELSE IF i = reader.inode /\ reader.offset <= logs[i].size THEN LinesIn(i, reader.offset)
                   ELSE {} : i \in Created}

(* A following session has emitted every complete line written before the  *)
(* point it reads from, in this file and in all earlier ones, unless one   *)
(* of the named things happened: history outside the recovery bounds, two  *)
(* rotations within one poll, a truncation or a read error with lines      *)
(* unread, or a rotation between catch-up's listing and its open.          *)
NothingSkipped == (Following /\ excuse = "none") => PassedBy \subseteq emitted

(* tailer.go on PositionFound: true when the position was located "and     *)
(* every line between it and the live file's then-current end was read".   *)
PositionFoundIsHonest ==
    (Following /\ session.found /\ excuse \in {"none", "listing race"}) => PassedBy \subseteq emitted

=============================================================================
