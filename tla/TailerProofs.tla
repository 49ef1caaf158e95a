---------------------------- MODULE TailerProofs ----------------------------
(***************************************************************************)
(* Proofs about the log tailer, for any number of lines, files and sessions *)
(* and any recovery bounds.                                                *)
(***************************************************************************)
EXTENDS Tailer, WellFoundedInduction, TLAPS

\* A log file, a position in one, and a call of Follow.
File == [first : Nat, size : Nat, there : BOOLEAN]

\* A position in a log file.
Position == [inode : Nat, offset : Nat]

\* A call of Follow.
Session == [pc : {"off", "list", "chain", "open live", "reopen", "fill", "stat", "drain"}, nth : Nat,
            chain : SUBSET Inodes, from : Nat, live : Nat, found : BOOLEAN, newest : Nat]

\* The types of the tailer's state.
TailerTyped ==
    /\ logs \in [Inodes -> File] /\ livePath \in Nat /\ nextLine \in Nat \ {0}
    /\ reader \in Position /\ acked \in Position /\ session \in Session

\* The complete lines of a file up to an offset, given its first line.
Lines(first, upto) == {k \in 1..MaxLines : k >= first /\ LineBytes * (k - first + 1) <= upto}

\* Every complete line of the file was emitted; every one up to an offset.
WholeEmitted(i) == Lines(logs[i].first, logs[i].size) \subseteq emitted

\* Every complete line of the file up to an offset was emitted.
EmittedTo(i, offset) == Lines(logs[i].first, offset) \subseteq emitted

\* Files are created one after the other, the last is the live one unless
\* it was just renamed, and the oldest go first.
FilesInOrder ==
    /\ \E n \in 0..MaxInodes : Created = 1..n /\ livePath \in {0, n}
    /\ livePath # 0 => livePath \in Created /\ logs[livePath].there
    /\ \A i \in Inodes : logs[i].there => i \in Created
    /\ \A i, j \in Created : logs[i].there /\ i < j => logs[j].there

\* What the saved position stands for.
AckedSound ==
    /\ acked.inode = 0 => \A i \in Created : ~ logs[i].there => WholeEmitted(i)
    /\ acked.inode # 0 =>
         /\ acked.inode \in Created /\ acked.offset # 0
         /\ \A i \in Created : i < acked.inode => WholeEmitted(i)
         /\ acked.offset <= logs[acked.inode].size => EmittedTo(acked.inode, acked.offset)

\* What the open reader stands for.
ReaderSound ==
    /\ ~ Following => reader.inode = 0
    /\ Following =>
         /\ reader.inode \in Created
         /\ \A i \in Created : i < reader.inode => WholeEmitted(i)
         /\ \A i \in Created : i > reader.inode => i = livePath
         /\ reader.offset <= logs[reader.inode].size => EmittedTo(reader.inode, reader.offset)
         /\ reader.offset > logs[reader.inode].size => reader.inode = livePath /\ reader.offset % LineBytes = 0
    /\ session.pc = "drain" => livePath # 0 /\ livePath # reader.inode

\* What a catch-up under way, or a reader about to open the live file, has
\* left to read.
CatchUpSound ==
    /\ session.pc = "reopen" => \A i \in Created : i # livePath => WholeEmitted(i)
    /\ session.pc = "chain" =>
         /\ session.live # 0 => livePath = session.live
         /\ session.chain \subseteq Created /\ livePath \notin session.chain
         /\ \A i \in Created : i # livePath /\ i \notin session.chain => WholeEmitted(i)
         /\ \A i \in session.chain : (\A j \in session.chain : i <= j) => EmittedTo(i, session.from)
         /\ (session.live # 0 /\ session.found /\ acked.inode = session.live)
              => acked.offset <= logs[session.live].size

\* The inductive invariant: all of this holds until something excuses a
\* skipped line.
TailerInv ==
    excuse = "none" => TailerTyped /\ FilesInOrder /\ AckedSound /\ ReaderSound /\ CatchUpSound

\* More of a file holds more of its lines, and nothing of it none.
LEMMA LinesUpTo ==
  ASSUME NEW first \in Nat, NEW a \in Nat, NEW b \in Nat, a <= b
  PROVE  Lines(first, a) \subseteq Lines(first, b) /\ Lines(first, 0) = {}
BY TailerConstants DEF Lines, LineBytes

\* The model's reading of a file is in these terms.
LEMMA LinesAre ==
  ASSUME NEW i, NEW a
  PROVE  LinesIn(i, a) = Lines(logs[i].first, a)
BY Zenon DEF LinesIn, Lines

\* The newest file has the highest number.
LEMMA NewestIs ==
  ASSUME NEW n \in 0..MaxInodes, Created = 1..n
  PROVE  Newest = n
<1>1. CASE n = 0
  BY <1>1 DEF Newest
<1>2. CASE n # 0
  <2>1. n \in Created /\ \A j \in Created : j <= n
    BY <1>2, TailerConstants, SMTT(60)
  <2>2. PICK m : m = CHOOSE i \in Created : \A j \in Created : j <= i
    OBVIOUS
  <2>3. m \in Created /\ \A j \in Created : j <= m
    BY <2>1, <2>2, ZenonT(60)
  <2>4. Newest = m /\ m = n
    BY <2>1, <2>2, <2>3, TailerConstants, SMTT(60) DEF Newest
  <2>5. QED
    BY <2>4
<1>3. QED
  BY <1>1, <1>2, SMTT(60)

\* Files are numbered from one.
LEMMA InodesNat == Inodes \subseteq Nat /\ 0 \notin Inodes /\ Created \subseteq Inodes
BY TailerConstants, SMTT(60) DEF Inodes, Created

\* A position is its two fields.
LEMMA PositionIs ==
  ASSUME NEW p \in Position
  PROVE  p = [inode |-> p.inode, offset |-> p.offset]
BY DEF Position

\* A reason once given stays given.
LEMMA ReasonKept ==
  ASSUME NEW reason, reason # "none", Excuse(reason) = "none"
  PROVE  FALSE
BY DEF Excuse

\* What the honeypot's steps do.
LEMMA AppendEffect ==
  ASSUME TailerTyped, FilesInOrder, AppendByte
  PROVE  /\ livePath \in Inodes /\ logs' \in [Inodes -> File] /\ nextLine' \in Nat \ {0}
         /\ \A i \in Inodes : i # livePath => logs'[i] = logs[i]
         /\ logs'[livePath].first = logs[livePath].first /\ logs'[livePath].there = logs[livePath].there
         /\ logs'[livePath].size = logs[livePath].size + 1
         /\ UNCHANGED <<livePath, reader, session, acked, emitted>>
         /\ excuse' = "none" =>
              /\ excuse = "none"
              /\ ~ (reader.inode = livePath /\ reader.offset = logs[livePath].size + 1)
              /\ ~ (acked.inode = livePath /\ acked.offset = logs[livePath].size + 1)
<1>1. livePath \in Inodes
  BY InodesNat, SMTT(60) DEF FilesInOrder, AppendByte
<1>2. PICK z : z = logs[livePath].size + 1
  OBVIOUS
<1>3. logs[livePath] \in File /\ logs \in [Inodes -> File] /\ z \in Nat
  BY <1>1, <1>2, SMTT(60) DEF TailerTyped, File
<1>4. PICK f : f = [logs[livePath] EXCEPT !.size = z]
  BY ZenonT(60)
<1>5. f \in File /\ f.first = logs[livePath].first /\ f.there = logs[livePath].there /\ f.size = z
  BY <1>3, <1>4 DEF File
<1>6. logs' = [logs EXCEPT ![livePath].size = z]
  BY <1>2, Zenon DEF AppendByte
<1>7. logs' = [logs EXCEPT ![livePath] = f]
  BY <1>4, <1>6
<1>8. nextLine' = nextLine \/ nextLine' = nextLine + 1
  BY Zenon DEF AppendByte
<1>9. nextLine' \in Nat \ {0}
  BY <1>8 DEF TailerTyped
<1>10. excuse' = IF [inode |-> livePath, offset |-> z] \in {reader, acked} THEN Excuse("truncated") ELSE excuse
  BY <1>2, Zenon DEF AppendByte
<1>11. ASSUME NEW p \in {reader, acked}, excuse' = "none" PROVE ~ (p.inode = livePath /\ p.offset = z) /\ excuse = "none"
  <2>1. p = [inode |-> p.inode, offset |-> p.offset]
    BY PositionIs DEF TailerTyped
  <2>2. QED
    BY <1>10, <1>11, <2>1, ReasonKept, Zenon
<1>12. UNCHANGED <<livePath, reader, session, acked, emitted>>
  BY Zenon DEF AppendByte
<1>13. QED
  BY <1>1, <1>2, <1>3, <1>5, <1>7, <1>9, <1>11, <1>12, ZenonT(60)

\* Truncation empties the live file; it loses nothing only if the reader had
\* reached a line's end at the file's.
LEMMA TruncateEffect ==
  ASSUME TailerTyped, FilesInOrder, Truncate
  PROVE  /\ livePath \in Inodes /\ logs' \in [Inodes -> File]
         /\ \A i \in Inodes : i # livePath => logs'[i] = logs[i]
         /\ logs'[livePath].first # 0 /\ logs'[livePath].there /\ logs'[livePath].size = 0
         /\ UNCHANGED <<livePath, nextLine, reader, session, acked, emitted>>
         /\ excuse' = "none" =>
              /\ excuse = "none" /\ reader.inode = livePath /\ reader.offset = logs[livePath].size
              /\ reader.offset > 0 /\ reader.offset % LineBytes = 0
<1>1. livePath \in Inodes
  BY InodesNat, SMTT(60) DEF FilesInOrder, Truncate
<1>2. PICK f : f = [first |-> nextLine, size |-> 0, there |-> TRUE]
  BY ZenonT(60)
<1>3. f \in File /\ f.first # 0 /\ f.there /\ f.size = 0
  BY <1>2 DEF File, TailerTyped
<1>4. logs' = [logs EXCEPT ![livePath] = f]
  BY <1>2, Zenon DEF Truncate
<1>5. logs \in [Inodes -> File]
  BY DEF TailerTyped
<1>6. /\ logs[livePath].size > 0 /\ logs[livePath].size % LineBytes = 0
      /\ excuse' = IF reader.inode = livePath /\ reader.offset = logs[livePath].size THEN excuse ELSE Excuse("truncated")
      /\ UNCHANGED <<livePath, nextLine, reader, session, acked, emitted>>
  BY Zenon DEF Truncate
<1>7. excuse' = "none" => excuse = "none" /\ reader.inode = livePath /\ reader.offset = logs[livePath].size
  BY <1>6, ReasonKept, Zenon
<1>8. QED
  BY <1>1, <1>3, <1>4, <1>5, <1>6, <1>7, ZenonT(60)

\* The new live file is one that did not exist.
LEMMA CreateEffect ==
  ASSUME TailerTyped, FilesInOrder, CreateLive
  PROVE  /\ livePath = 0 /\ livePath' \in Inodes /\ livePath' \notin Created /\ logs' \in [Inodes -> File]
         /\ Created = 1..(livePath' - 1)
         /\ \A i \in Inodes : i # livePath' => logs'[i] = logs[i]
         /\ logs'[livePath'].first # 0 /\ logs'[livePath'].there
         /\ UNCHANGED <<nextLine, reader, session, acked, emitted, excuse>>
<1>1. PICK n \in 0..MaxInodes : Created = 1..n
  BY DEF FilesInOrder
<1>2. Newest = n
  BY <1>1, NewestIs, SMTT(60)
<1>3. livePath = 0 /\ n < MaxInodes /\ livePath' = n + 1
  BY <1>2, ZenonT(60) DEF CreateLive
<1>4. PICK f : f = [first |-> nextLine, size |-> 0, there |-> TRUE]
  BY ZenonT(60)
<1>5. f \in File /\ f.first # 0 /\ f.there
  BY <1>4 DEF File, TailerTyped
<1>6. logs' = [logs EXCEPT ![n + 1] = f] /\ UNCHANGED <<nextLine, reader, session, acked, emitted, excuse>>
  BY <1>2, <1>4, Zenon DEF CreateLive
<1>7. livePath' \in Inodes /\ livePath' \notin Created /\ Created = 1..(livePath' - 1)
  BY <1>1, <1>3, TailerConstants DEF Inodes
<1>8. logs \in [Inodes -> File] /\ logs' = [logs EXCEPT ![livePath'] = f]
  BY <1>3, <1>6 DEF TailerTyped
<1>9. QED
  BY <1>3, <1>5, <1>6, <1>7, <1>8, Zenon

\* A cleanup removes the oldest file.
LEMMA PurgeEffect ==
  ASSUME TailerTyped, NEW i \in Inodes, Purge(i)
  PROVE  /\ logs' \in [Inodes -> File] /\ i # livePath /\ logs[i].there /\ ~ logs'[i].there
         /\ \A j \in Inodes : logs[j].there => i <= j
         /\ \A j \in Inodes : j # i => logs'[j] = logs[j]
         /\ logs'[i].first = logs[i].first /\ logs'[i].size = logs[i].size
         /\ UNCHANGED <<livePath, nextLine, reader, session, acked, emitted>>
         /\ excuse' = "none" => excuse = "none" /\ (acked.inode = 0 => WholeEmitted(i))
<1>1. PICK f : f = [logs[i] EXCEPT !.there = FALSE]
  BY ZenonT(60)
<1>2. logs \in [Inodes -> File] /\ logs[i] \in File
  BY DEF TailerTyped
<1>3. f \in File /\ f.first = logs[i].first /\ f.size = logs[i].size /\ ~ f.there
  BY <1>1, <1>2, ZenonT(60) DEF File
<1>4. logs' = [logs EXCEPT ![i].there = FALSE]
  BY Zenon DEF Purge
<1>5. logs' = [logs EXCEPT ![i] = f]
  BY <1>1, <1>4, SMTT(60)
<1>6. excuse' = "none" => excuse = "none" /\ (acked.inode = 0 => WholeEmitted(i))
  BY ReasonKept, LinesAre, ZenonT(60) DEF Purge, WholeEmitted
<1>7. QED
  BY <1>2, <1>3, <1>5, <1>6, ZenonT(60) DEF Purge

\* A rotation takes the live path away; it loses nothing only if the reader
\* is on the file, or has not listed the files yet.
LEMMA RotateEffect ==
  ASSUME TailerTyped, FilesInOrder, RotateAway
  PROVE  /\ livePath \in Created /\ livePath' = 0 /\ nextLine' \in Nat \ {0}
         /\ UNCHANGED <<logs, reader, session, acked, emitted>>
         /\ excuse' = "none" =>
              /\ excuse = "none" /\ session.pc # "chain"
              /\ ~ (reader.inode = livePath /\ reader.offset > logs[livePath].size)
              /\ session.pc \in {"reopen", "fill", "stat", "drain"} => reader.inode = livePath
<1>1. nextLine' = nextLine \/ nextLine' = nextLine + 1
  BY ZenonT(60) DEF RotateAway
<1>2. nextLine' \in Nat \ {0}
  BY <1>1, SMTT(60) DEF TailerTyped
<1>3. excuse' = "none" =>
              /\ excuse = "none" /\ session.pc # "chain"
              /\ ~ (reader.inode = livePath /\ reader.offset > logs[livePath].size)
              /\ session.pc \in {"reopen", "fill", "stat", "drain"} => reader.inode = livePath
  BY ReasonKept, ZenonT(60) DEF RotateAway
<1>4. QED
  BY <1>2, <1>3, ZenonT(60) DEF RotateAway, FilesInOrder

\* What the order of the files says of each of them.
LEMMA FileFacts ==
  ASSUME TailerTyped, FilesInOrder
  PROVE  /\ \A i \in Created : i \in Inodes /\ i \in Nat /\ i # 0
         /\ \A i \in Inodes : i \in Nat /\ logs[i].first \in Nat /\ logs[i].size \in Nat
         /\ livePath # 0 => livePath \in Created /\ \A i \in Created : i <= livePath
<1>1. \A i \in Created : i \in Inodes /\ i \in Nat /\ i # 0
  BY InodesNat, SMTT(60)
<1>2. \A i \in Inodes : i \in Nat /\ logs[i].first \in Nat /\ logs[i].size \in Nat
  BY InodesNat, SMTT(60) DEF TailerTyped, File
<1>3. PICK n \in 0..MaxInodes : Created = 1..n /\ livePath \in {0, n}
  BY SMTT(60) DEF FilesInOrder
<1>4. livePath # 0 => livePath \in Created /\ \A i \in Created : i <= livePath
  BY <1>3, TailerConstants, SMTT(60)
<1>5. QED
  BY <1>1, <1>2, <1>4, SMTT(60)

\* Positions are made of natural numbers.
LEMMA PositionTypes ==
  ASSUME TailerTyped
  PROVE  reader.inode \in Nat /\ reader.offset \in Nat /\ acked.inode \in Nat /\ acked.offset \in Nat
BY SMTT(60) DEF TailerTyped, Position

\* A byte appended to the live file disturbs no promise: what was emitted
\* lies before it.
LEMMA AppendSound ==
  ASSUME TailerTyped, FilesInOrder, AckedSound, ReaderSound, CatchUpSound, AppendByte,
         excuse = "none", excuse' = "none"
  PROVE  TailerTyped' /\ FilesInOrder' /\ AckedSound' /\ ReaderSound' /\ CatchUpSound'
<1>0. /\ livePath \in Inodes /\ logs' \in [Inodes -> File] /\ nextLine' \in Nat \ {0}
      /\ \A i \in Inodes : i # livePath => logs'[i] = logs[i]
      /\ logs'[livePath].first = logs[livePath].first /\ logs'[livePath].there = logs[livePath].there
      /\ logs'[livePath].size = logs[livePath].size + 1
      /\ livePath' = livePath /\ reader' = reader /\ session' = session /\ acked' = acked /\ emitted' = emitted
      /\ ~ (reader.inode = livePath /\ reader.offset = logs[livePath].size + 1)
      /\ ~ (acked.inode = livePath /\ acked.offset = logs[livePath].size + 1)
  BY AppendEffect, ZenonT(60)
<1>c. Created' = Created
  BY <1>0, ZenonT(60) DEF Created
<1>f. /\ \A i \in Created : i \in Inodes /\ i \in Nat /\ i # 0
      /\ \A i \in Inodes : i \in Nat /\ logs[i].first \in Nat /\ logs[i].size \in Nat
      /\ livePath # 0 /\ livePath \in Created /\ (\A i \in Created : i <= livePath)
      /\ logs[livePath].there
  BY <1>0, FileFacts, InodesNat, SMTT(60) DEF FilesInOrder
<1>p. reader.inode \in Nat /\ reader.offset \in Nat /\ acked.inode \in Nat /\ acked.offset \in Nat
  BY PositionTypes, SMTT(60)
<1>1. TailerTyped'
  BY <1>0, ZenonT(60) DEF TailerTyped
<1>2. FilesInOrder'
  <2>1. \A i \in Inodes : logs'[i].there = logs[i].there
    BY <1>0, ZenonT(60)
  <2>2. QED
    BY <1>0, <1>c, <1>f, <2>1, ZenonT(60) DEF FilesInOrder
<1>s. \A i \in Inodes : logs'[i].first = logs[i].first /\ logs'[i].there = logs[i].there
  BY <1>0, ZenonT(60)
<1>t. \A i \in Created : i # livePath /\ WholeEmitted(i) => WholeEmitted(i)'
  BY <1>0, <1>f, ZenonT(60) DEF WholeEmitted
<1>u. \A i \in Created : \A j \in Created : i < j => i # livePath
  BY <1>f, SMTT(60)
<1>3. AckedSound'
  <2>1. acked.inode = 0 => \A i \in Created : ~ logs'[i].there => WholeEmitted(i)'
    BY <1>f, <1>s, <1>t, ZenonT(60) DEF AckedSound
  <2>2. acked.inode # 0 => \A i \in Created : i < acked.inode => WholeEmitted(i)'
    BY <1>f, <1>t, <1>u, ZenonT(60) DEF AckedSound
  <2>3. acked.inode # 0 /\ acked.offset <= logs'[acked.inode].size => acked.offset <= logs[acked.inode].size
    BY <1>0, <1>f, <1>p, SMTT(60) DEF AckedSound
  <2>4. acked.inode # 0 /\ acked.offset <= logs'[acked.inode].size => Lines(logs'[acked.inode].first, acked.offset) \subseteq emitted
    BY <2>3, <1>s, <1>f, ZenonT(60) DEF AckedSound, EmittedTo
  <2>5. QED
    BY <2>1, <2>2, <2>4, <1>c, <1>0, ZenonT(60) DEF AckedSound, EmittedTo
<1>4. ReaderSound'
  <2>1. Following' = Following
    BY <1>0, ZenonT(60) DEF Following
  <2>2. Following => \A i \in Created : i < reader.inode => WholeEmitted(i)'
    BY <1>f, <1>t, <1>u, ZenonT(60) DEF ReaderSound
  <2>3. Following => (reader.offset <= logs'[reader.inode].size => reader.offset <= logs[reader.inode].size)
    BY <1>0, <1>f, <1>p, SMTT(60) DEF ReaderSound
  <2>4. Following => (reader.offset <= logs'[reader.inode].size => Lines(logs'[reader.inode].first, reader.offset) \subseteq emitted)
    BY <2>3, <1>s, <1>f, ZenonT(60) DEF ReaderSound, EmittedTo
  <2>5. Following => (reader.offset > logs'[reader.inode].size => reader.offset > logs[reader.inode].size)
    BY <1>0, <1>f, <1>p, SMTT(60) DEF ReaderSound
  <2>6. QED
    BY <2>1, <2>2, <2>4, <2>5, <1>c, <1>0, ZenonT(60) DEF ReaderSound, EmittedTo
<1>5. CatchUpSound'
  <2>1. session.pc = "chain" /\ (session.live # 0 /\ session.found /\ acked.inode = session.live)
          => acked.offset <= logs'[session.live].size
    <3>1. session.pc = "chain" /\ (session.live # 0 /\ session.found /\ acked.inode = session.live)
          => session.live = livePath /\ acked.offset <= logs[session.live].size
      BY Zenon DEF CatchUpSound
    <3>2. QED
      BY <3>1, <1>0, <1>f, <1>p, SMTT(60)
  <2>2. session.pc = "chain" => session.chain \subseteq Created
    BY Zenon DEF CatchUpSound
  <2>3. session.pc = "chain" => \A i \in session.chain : (\A j \in session.chain : i <= j) => Lines(logs'[i].first, session.from) \subseteq emitted
    BY <1>s, <1>f, <2>2, ZenonT(60) DEF CatchUpSound, EmittedTo
  <2>4. QED
    BY <2>1, <2>3, <1>t, <1>c, <1>0, ZenonT(60) DEF CatchUpSound, EmittedTo
<1>6. QED
  BY <1>1, <1>2, <1>3, <1>4, <1>5, SMTT(60)

\* A rotation makes the live file an old one that the reader is on.
LEMMA RotateSound ==
  ASSUME TailerTyped, FilesInOrder, AckedSound, ReaderSound, CatchUpSound, RotateAway,
         excuse = "none", excuse' = "none"
  PROVE  TailerTyped' /\ FilesInOrder' /\ AckedSound' /\ ReaderSound' /\ CatchUpSound'
<1>0. /\ livePath \in Created /\ livePath' = 0 /\ nextLine' \in Nat \ {0}
      /\ logs' = logs /\ reader' = reader /\ session' = session /\ acked' = acked /\ emitted' = emitted
      /\ session.pc # "chain"
      /\ ~ (reader.inode = livePath /\ reader.offset > logs[livePath].size)
      /\ session.pc \in {"reopen", "fill", "stat", "drain"} => reader.inode = livePath
  BY RotateEffect, ZenonT(60)
<1>c. Created' = Created
  BY <1>0, Zenon DEF Created
<1>f. /\ \A i \in Created : i \in Inodes /\ i \in Nat /\ i # 0
      /\ \A i \in Inodes : i \in Nat /\ logs[i].first \in Nat /\ logs[i].size \in Nat
      /\ livePath # 0 => livePath \in Created /\ (\A i \in Created : i <= livePath)
  BY FileFacts, ZenonT(60)
<1>p. reader.inode \in Nat /\ reader.offset \in Nat /\ acked.inode \in Nat /\ acked.offset \in Nat
  BY PositionTypes, SMTT(60)
<1>1. TailerTyped'
  BY <1>0 DEF TailerTyped
<1>2. FilesInOrder'
  BY <1>0, <1>c, ZenonT(60) DEF FilesInOrder
<1>3. AckedSound'
  BY <1>0, <1>c, ZenonT(60) DEF AckedSound, WholeEmitted, EmittedTo
<1>w. \A i \in Created : WholeEmitted(i)' = WholeEmitted(i)
  BY <1>0, Zenon DEF WholeEmitted
<1>4. ReaderSound'
  <2>1. Following' = Following
    BY <1>0, ZenonT(60) DEF Following
  <2>2. Following => reader.inode = livePath
    BY <1>0, ZenonT(60) DEF Following
  <2>3. Following => \A i \in Created : ~ (i > reader.inode)
    BY <1>0, <1>f, <2>2, SMTT(60)
  <2>4. Following => ~ (reader.offset > logs[reader.inode].size)
    BY <1>0, <2>2, ZenonT(60)
  <2>5. session.pc # "drain"
    BY <1>0, ZenonT(60) DEF ReaderSound
  <2>6. QED
    BY <2>1, <2>3, <2>4, <2>5, <1>c, <1>0, <1>w, ZenonT(60) DEF ReaderSound, EmittedTo
<1>5. CatchUpSound'
  <2>1. session.pc # "reopen"
    BY <1>0, <1>f, ZenonT(60) DEF ReaderSound, Following
  <2>2. QED
    BY <2>1, <1>0, ZenonT(60) DEF CatchUpSound
<1>6. QED
  BY <1>1, <1>2, <1>3, <1>4, <1>5, SMTT(60)

\* A new live file holds no lines yet, and all files before it were covered.
LEMMA CreateSound ==
  ASSUME TailerTyped, FilesInOrder, AckedSound, ReaderSound, CatchUpSound, CreateLive,
         excuse = "none", excuse' = "none"
  PROVE  TailerTyped' /\ FilesInOrder' /\ AckedSound' /\ ReaderSound' /\ CatchUpSound'
<1>m. PICK m : m = livePath'
  OBVIOUS
<1>0. /\ livePath = 0 /\ m \in Inodes /\ m \notin Created /\ logs' \in [Inodes -> File]
      /\ Created = 1..(m - 1)
      /\ \A i \in Inodes : i # m => logs'[i] = logs[i]
      /\ logs'[m].first # 0 /\ logs'[m].there
      /\ nextLine' = nextLine /\ reader' = reader /\ session' = session /\ acked' = acked /\ emitted' = emitted
  BY <1>m, CreateEffect, ZenonT(60)
<1>c. Created' = Created \cup {m}
  BY <1>0, Zenon DEF Created
<1>f. /\ \A i \in Created : i \in Inodes /\ i \in Nat /\ i # 0
      /\ \A i \in Inodes : i \in Nat /\ logs[i].first \in Nat /\ logs[i].size \in Nat
      /\ livePath # 0 => livePath \in Created /\ (\A i \in Created : i <= livePath)
  BY FileFacts, ZenonT(60)
<1>p. reader.inode \in Nat /\ reader.offset \in Nat /\ acked.inode \in Nat /\ acked.offset \in Nat
  BY PositionTypes, SMTT(60)
<1>n. m \in Nat /\ m \in 1..MaxInodes
  BY <1>0, TailerConstants, SMTT(60) DEF Inodes
<1>1. TailerTyped'
  BY <1>0, <1>m, <1>n, ZenonT(60) DEF TailerTyped
<1>2. FilesInOrder'
  <2>1. m \in 0..MaxInodes /\ Created' = 1..m
    BY <1>0, <1>c, <1>n, TailerConstants, SMTT(60)
  <2>2. \A i \in Inodes : logs'[i].there => i \in Created'
    BY <1>0, <1>c, ZenonT(60) DEF FilesInOrder
  <2>3. \A i \in Created : i < m /\ i # m
    BY <1>0, <1>n, SMTT(60)
  <2>4. \A i \in Created : ~ (m < i)
    BY <1>0, <1>n, SMTT(60)
  <2>5. ASSUME NEW i \in Created', NEW j \in Created', logs'[i].there, i < j PROVE logs'[j].there
    <3>1. CASE j = m
      BY <1>0, <3>1, SMTT(60)
    <3>2. CASE j # m /\ i = m
      BY <2>4, <2>5, <1>c, <3>2, SMTT(60)
    <3>3. CASE j # m /\ i # m
      BY <2>5, <1>c, <1>0, <1>f, <3>3, ZenonT(60) DEF FilesInOrder
    <3>4. QED
      BY <3>1, <3>2, <3>3, SMTT(60)
  <2>6. QED
    BY <2>1, <2>2, <2>5, <1>m, <1>c, <1>0, ZenonT(60) DEF FilesInOrder
<1>w. \A i \in Created : i # m /\ logs'[i] = logs[i] /\ WholeEmitted(i)' = WholeEmitted(i)
  BY <1>0, <1>f, ZenonT(60) DEF WholeEmitted
<1>l. \A i \in Created : ~ (m < i)
  BY <1>0, <1>n, SMTT(60)
<1>3. AckedSound'
  BY <1>0, <1>c, <1>w, <1>l, ZenonT(60) DEF AckedSound, EmittedTo
<1>4. ReaderSound'
  <2>1. Following' = Following
    BY <1>0, ZenonT(60) DEF Following
  <2>2. Following => reader.inode \in Created /\ reader.inode # livePath
    BY <1>0, <1>f, ZenonT(60) DEF ReaderSound
  <2>3. session.pc # "drain"
    BY <1>0, ZenonT(60) DEF ReaderSound
  <2>4. Following => \A i \in Created : ~ (i > reader.inode)
    BY <1>0, <1>f, ZenonT(60) DEF ReaderSound
  <2>6. QED
    BY <2>1, <2>2, <2>3, <2>4, <1>c, <1>0, <1>w, <1>l, <1>m, ZenonT(60) DEF ReaderSound, EmittedTo
<1>5. CatchUpSound'
  <2>1. session.pc = "chain" => session.live = 0
    BY <1>0, ZenonT(60) DEF CatchUpSound
  <2>2. \A i \in Created : i # livePath
    BY <1>0, <1>f, SMTT(60)
  <2>3. QED
    BY <2>1, <2>2, <1>c, <1>0, <1>w, <1>m, ZenonT(60) DEF CatchUpSound, EmittedTo
<1>6. QED
  BY <1>1, <1>2, <1>3, <1>4, <1>5, SMTT(60)

\* A cleanup changes no file that is still there.
LEMMA PurgeSound ==
  ASSUME TailerTyped, FilesInOrder, AckedSound, ReaderSound, CatchUpSound, NEW f \in Inodes, Purge(f),
         excuse = "none", excuse' = "none"
  PROVE  TailerTyped' /\ FilesInOrder' /\ AckedSound' /\ ReaderSound' /\ CatchUpSound'
<1>0. /\ logs' \in [Inodes -> File] /\ f # livePath /\ logs[f].there /\ ~ logs'[f].there
      /\ \A j \in Inodes : logs[j].there => f <= j
      /\ \A j \in Inodes : j # f => logs'[j] = logs[j]
      /\ logs'[f].first = logs[f].first /\ logs'[f].size = logs[f].size
      /\ livePath' = livePath /\ nextLine' = nextLine /\ reader' = reader /\ session' = session /\ acked' = acked
      /\ emitted' = emitted /\ (acked.inode = 0 => WholeEmitted(f))
  BY PurgeEffect, Zenon
<1>s. \A i \in Inodes : logs'[i].first = logs[i].first /\ logs'[i].size = logs[i].size
  BY <1>0, ZenonT(60)
<1>c. Created' = Created
  BY <1>s, ZenonT(60) DEF Created
<1>f. /\ \A i \in Created : i \in Inodes /\ i \in Nat /\ i # 0
      /\ \A i \in Inodes : i \in Nat /\ logs[i].first \in Nat /\ logs[i].size \in Nat
      /\ livePath # 0 => livePath \in Created /\ (\A i \in Created : i <= livePath)
  BY FileFacts, ZenonT(60)
<1>p. reader.inode \in Nat /\ reader.offset \in Nat /\ acked.inode \in Nat /\ acked.offset \in Nat
  BY PositionTypes, SMTT(60)
<1>w. \A i \in Created : WholeEmitted(i)' = WholeEmitted(i)
  BY <1>0, <1>s, <1>f, ZenonT(60) DEF WholeEmitted
<1>1. TailerTyped'
  BY <1>0, ZenonT(60) DEF TailerTyped
<1>2. FilesInOrder'
  <2>1. ASSUME NEW i \in Created, NEW j \in Created, logs'[i].there, i < j PROVE logs'[j].there
    <3>1. i # f /\ logs[i].there /\ logs[j].there /\ i \in Inodes /\ j \in Inodes
      BY <2>1, <1>0, <1>f, ZenonT(60) DEF FilesInOrder
    <3>2. f <= i /\ f \in Nat /\ i \in Nat /\ j \in Nat
      BY <3>1, <1>0, <1>f, ZenonT(60)
    <3>3. j # f
      BY <3>2, <2>1, SMTT(60)
    <3>4. QED
      BY <3>1, <3>3, <1>0, ZenonT(60)
  <2>2. \A i \in Inodes : logs'[i].there => i \in Created
    BY <1>0, ZenonT(60) DEF FilesInOrder
  <2>3. livePath # 0 => livePath \in Created /\ logs'[livePath].there
    BY <1>0, <1>f, ZenonT(60) DEF FilesInOrder
  <2>4. QED
    BY <2>1, <2>2, <2>3, <1>c, <1>0, ZenonT(60) DEF FilesInOrder
<1>3. AckedSound'
  <2>1. \A i \in Created : ~ logs'[i].there => i = f \/ ~ logs[i].there
    BY <1>0, <1>f, ZenonT(60)
  <2>2. QED
    BY <2>1, <1>0, <1>c, <1>w, <1>s, <1>f, ZenonT(60) DEF AckedSound, EmittedTo
<1>4. ReaderSound'
  <2>1. Following' = Following
    BY <1>0, ZenonT(60) DEF Following
  <2>2. QED
    BY <2>1, <1>0, <1>c, <1>w, <1>s, <1>f, ZenonT(60) DEF ReaderSound, EmittedTo
<1>5. CatchUpSound'
  <2>1. session.pc = "chain" /\ session.live # 0 => session.live \in Inodes
    BY <1>f, Zenon DEF CatchUpSound
  <2>2. session.pc = "chain" => \A i \in session.chain : i \in Inodes
    BY <1>f, ZenonT(60) DEF CatchUpSound
  <2>3. QED
    BY <2>1, <2>2, <1>0, <1>c, <1>w, <1>s, <1>f, ZenonT(60) DEF CatchUpSound, EmittedTo
<1>6. QED
  BY <1>1, <1>2, <1>3, <1>4, <1>5, SMTT(60)

\* After a truncation the reader's offset, and the saved one, lie past the end.
LEMMA TruncateSound ==
  ASSUME TailerTyped, FilesInOrder, AckedSound, ReaderSound, CatchUpSound, Truncate,
         excuse = "none", excuse' = "none"
  PROVE  TailerTyped' /\ FilesInOrder' /\ AckedSound' /\ ReaderSound' /\ CatchUpSound'
<1>0. /\ livePath \in Inodes /\ logs' \in [Inodes -> File]
      /\ \A i \in Inodes : i # livePath => logs'[i] = logs[i]
      /\ logs'[livePath].first # 0 /\ logs'[livePath].there /\ logs'[livePath].size = 0
      /\ livePath' = livePath /\ nextLine' = nextLine /\ reader' = reader /\ session' = session /\ acked' = acked
      /\ emitted' = emitted
      /\ reader.inode = livePath /\ reader.offset > 0 /\ reader.offset % LineBytes = 0
  BY TruncateEffect, Zenon
<1>f. /\ \A i \in Created : i \in Inodes /\ i \in Nat /\ i # 0
      /\ \A i \in Inodes : i \in Nat /\ logs[i].first \in Nat /\ logs[i].size \in Nat
      /\ livePath # 0 => livePath \in Created /\ (\A i \in Created : i <= livePath)
  BY FileFacts, ZenonT(60)
<1>p. reader.inode \in Nat /\ reader.offset \in Nat /\ acked.inode \in Nat /\ acked.offset \in Nat
  BY PositionTypes
<1>z. livePath # 0 /\ livePath \in Created
  BY <1>0, <1>f, InodesNat, ZenonT(60)
<1>c. Created' = Created
  BY <1>0, <1>z, ZenonT(60) DEF Created
<1>w. \A i \in Created : i # livePath => WholeEmitted(i)' = WholeEmitted(i) /\ logs'[i] = logs[i]
  BY <1>0, <1>f, ZenonT(60) DEF WholeEmitted
<1>u. \A i \in Created : \A j \in Created : i < j => i # livePath
  BY <1>f, <1>z, SMTT(60)
<1>1. TailerTyped'
  BY <1>0, ZenonT(60) DEF TailerTyped
<1>2. FilesInOrder'
  <2>1. \A i \in Created : i # livePath => logs'[i] = logs[i]
    BY <1>w, ZenonT(60)
  <2>2. \A i \in Inodes : logs'[i].there => i \in Created
    BY <1>0, <1>z, ZenonT(60) DEF FilesInOrder
  <2>3. QED
    BY <2>1, <2>2, <1>c, <1>0, <1>z, <1>u, ZenonT(60) DEF FilesInOrder
<1>3. AckedSound'
  <2>1. acked.inode = livePath => ~ (acked.offset <= logs'[acked.inode].size)
    BY <1>0, <1>z, <1>p, SMTT(60) DEF AckedSound
  <2>2. acked.inode # livePath /\ acked.inode # 0 => logs'[acked.inode] = logs[acked.inode]
    BY <1>w, ZenonT(60) DEF AckedSound
  <2>3. acked.inode # 0 => \A i \in Created : i < acked.inode => WholeEmitted(i)'
    BY <1>w, <1>u, ZenonT(60) DEF AckedSound
  <2>4. acked.inode = 0 => \A i \in Created : ~ logs'[i].there => WholeEmitted(i)'
    BY <1>w, <1>0, ZenonT(60) DEF AckedSound
  <2>5. QED
    BY <2>1, <2>2, <2>3, <2>4, <1>c, <1>0, ZenonT(60) DEF AckedSound, EmittedTo
<1>o. Following /\ session.pc # "drain"
  BY <1>0, <1>z, <1>f, ZenonT(60) DEF ReaderSound
<1>4. ReaderSound'
  <2>1. Following'
    BY <1>0, <1>o, ZenonT(60) DEF Following
  <2>2. ~ (reader.offset <= logs'[reader.inode].size)
    BY <1>0, <1>p, SMTT(60)
  <2>3. \A i \in Created : i < reader.inode => WholeEmitted(i)'
    BY <1>w, <1>u, <1>o, ZenonT(60) DEF ReaderSound
  <2>4. QED
    BY <2>1, <2>2, <2>3, <1>c, <1>0, <1>o, ZenonT(60) DEF ReaderSound, EmittedTo
<1>5. CatchUpSound'
  BY <1>0, <1>o, SMTT(60) DEF CatchUpSound, Following
<1>6. QED
  BY <1>1, <1>2, <1>3, <1>4, <1>5, SMTT(60)

\* The tailer's steps leave the files alone, and what was emitted stays so.
LEMMA FilesSame ==
  ASSUME FilesInOrder, UNCHANGED fileVars
  PROVE  Created' = Created /\ FilesInOrder' /\ logs' = logs /\ livePath' = livePath /\ nextLine' = nextLine
<1>1. logs' = logs /\ livePath' = livePath /\ nextLine' = nextLine
  BY Zenon DEF fileVars
<1>2. Created' = Created
  BY <1>1, ZenonT(60) DEF Created
<1>3. QED
  BY <1>1, <1>2, ZenonT(60) DEF FilesInOrder

\* The saved position stands for no less when more is emitted.
LEMMA AckedSame ==
  ASSUME AckedSound, Created' = Created, logs' = logs, acked' = acked, emitted \subseteq emitted'
  PROVE  AckedSound'
<1>1. \A i \in Created : WholeEmitted(i) => WholeEmitted(i)'
  BY Zenon DEF WholeEmitted
<1>2. QED
  BY <1>1, Zenon DEF AckedSound, EmittedTo

\* fill emits the complete lines from an offset to the file's end.
LEMMA EmitEffect ==
  ASSUME NEW i, NEW offset, EmitFrom(i, offset)
  PROVE  /\ emitted \subseteq emitted'
         /\ EmittedTo(i, offset) => Lines(logs[i].first, logs[i].size) \subseteq emitted'
<1>1. emitted' = emitted \cup (Lines(logs[i].first, logs[i].size) \ Lines(logs[i].first, offset))
  BY LinesAre, ZenonT(60) DEF EmitFrom
<1>2. QED
  BY <1>1, ZenonT(60) DEF EmittedTo

\* A session that goes to another step keeps its type.
LEMMA SessionAt ==
  ASSUME session \in Session, NEW pc \in {"off", "list", "chain", "open live", "reopen", "fill", "stat", "drain"},
         NEW s, s = [session EXCEPT !.pc = pc]
  PROVE  s \in Session /\ s.pc = pc
BY ZenonT(60) DEF Session

\* The fields of a session.
LEMMA SessionTypes ==
  ASSUME session \in Session
  PROVE  /\ session.nth \in Nat /\ session.chain \in SUBSET Inodes /\ session.from \in Nat
         /\ session.live \in Nat /\ session.found \in BOOLEAN
BY ZenonT(60) DEF Session

\* No position is on no file.
LEMMA NoPositionIs == NoPosition \in Position /\ NoPosition.inode = 0
BY DEF NoPosition, Position

\* A session that stops promises nothing.
LEMMA StopSound ==
  ASSUME TailerTyped, FilesInOrder, AckedSound, ReaderSound, CatchUpSound, Stop,
         excuse = "none", excuse' = "none"
  PROVE  TailerTyped' /\ FilesInOrder' /\ AckedSound' /\ ReaderSound' /\ CatchUpSound'
<1>0. /\ session' = [session EXCEPT !.pc = "off"] /\ reader' = NoPosition /\ UNCHANGED fileVars
      /\ acked' = acked /\ emitted' = emitted
  BY Zenon DEF Stop
<1>c. Created' = Created /\ FilesInOrder' /\ logs' = logs /\ livePath' = livePath /\ nextLine' = nextLine
  BY <1>0, FilesSame, ZenonT(60)
<1>s. session' \in Session /\ session'.pc = "off"
  BY <1>0, SessionAt, ZenonT(60) DEF TailerTyped
<1>1. TailerTyped'
  BY <1>0, <1>c, <1>s, NoPositionIs, ZenonT(60) DEF TailerTyped
<1>3. AckedSound'
  BY <1>0, <1>c, AckedSame, SMTT(60)
<1>4. ReaderSound'
  BY <1>0, <1>s, NoPositionIs, SMTT(60) DEF ReaderSound, Following
<1>5. CatchUpSound'
  BY <1>s, SMTT(60) DEF CatchUpSound
<1>6. QED
  BY <1>c, <1>1, <1>3, <1>4, <1>5, ZenonT(60)

\* Nor does one that starts.
LEMMA FollowSound ==
  ASSUME TailerTyped, FilesInOrder, AckedSound, ReaderSound, CatchUpSound, Follow,
         excuse = "none", excuse' = "none"
  PROVE  TailerTyped' /\ FilesInOrder' /\ AckedSound' /\ ReaderSound' /\ CatchUpSound'
<1>0. /\ session.pc = "off" /\ session' = [NoSessionYet EXCEPT !.pc = "list", !.nth = session.nth + 1]
      /\ UNCHANGED fileVars /\ reader' = reader /\ acked' = acked /\ emitted' = emitted
  BY Zenon DEF Follow
<1>c. Created' = Created /\ FilesInOrder' /\ logs' = logs /\ livePath' = livePath /\ nextLine' = nextLine
  BY <1>0, FilesSame, ZenonT(60)
<1>n. PICK n : n = session.nth + 1
  BY SMTT(60)
<1>m. n \in Nat
  BY <1>n, SessionTypes, SMTT(60) DEF TailerTyped
<1>r. session' = [pc |-> "list", nth |-> n, chain |-> {}, from |-> 0, live |-> 0, found |-> TRUE, newest |-> 0]
  BY <1>0, <1>n, ZenonT(60) DEF NoSessionYet
<1>s. session' \in Session /\ session'.pc = "list"
  BY <1>m, <1>r DEF Session
<1>1. TailerTyped'
  BY <1>0, <1>c, <1>s, Zenon DEF TailerTyped
<1>3. AckedSound'
  BY <1>0, <1>c, AckedSame
<1>4. ReaderSound'
  BY <1>0, <1>s DEF ReaderSound, Following
<1>5. CatchUpSound'
  BY <1>s DEF CatchUpSound
<1>6. QED
  BY <1>c, <1>1, <1>3, <1>4, <1>5, ZenonT(60)

\* A saved position is the reader's, rounded down to a line's end.
LEMMA SaveSound ==
  ASSUME TailerTyped, FilesInOrder, AckedSound, ReaderSound, CatchUpSound, SavePosition,
         excuse = "none", excuse' = "none"
  PROVE  TailerTyped' /\ FilesInOrder' /\ AckedSound' /\ ReaderSound' /\ CatchUpSound'
<1>0. /\ reader.inode # 0 /\ LinesIn(reader.inode, reader.offset) # {}
      /\ acked' = [inode |-> reader.inode, offset |-> LineBytes * (reader.offset \div LineBytes)]
      /\ UNCHANGED fileVars /\ reader' = reader /\ session' = session /\ emitted' = emitted
  BY Zenon DEF SavePosition
<1>c. Created' = Created /\ FilesInOrder' /\ logs' = logs /\ livePath' = livePath /\ nextLine' = nextLine
  BY <1>0, FilesSame, ZenonT(60)
<1>f. /\ \A i \in Created : i \in Inodes /\ i \in Nat /\ i # 0
      /\ \A i \in Inodes : i \in Nat /\ logs[i].first \in Nat /\ logs[i].size \in Nat
      /\ livePath # 0 => livePath \in Created /\ (\A i \in Created : i <= livePath)
  BY FileFacts, Zenon
<1>p. reader.inode \in Nat /\ reader.offset \in Nat /\ acked.inode \in Nat /\ acked.offset \in Nat
  BY PositionTypes
<1>o. Following /\ reader.inode \in Created /\ reader.inode \in Inodes
  BY <1>0, <1>f, ZenonT(60) DEF ReaderSound
<1>a. PICK o : o = LineBytes * (reader.offset \div LineBytes)
  OBVIOUS
<1>b. o \in Nat /\ o <= reader.offset /\ (reader.offset % LineBytes = 0 => o = reader.offset)
  BY <1>a, <1>p, SMTT(60) DEF LineBytes
<1>d. acked' \in Position /\ acked'.inode = reader.inode /\ acked'.offset = o
  BY <1>0, <1>a, <1>b, <1>p, SMTT(60) DEF Position
<1>e. o # 0
  <2>1. PICK k \in 1..MaxLines : k >= logs[reader.inode].first /\ LineBytes * (k - logs[reader.inode].first + 1) <= reader.offset
    BY <1>0, ZenonT(60) DEF LinesIn
  <2>2. PICK n : n = logs[reader.inode].first
    BY SMTT(60)
  <2>3. n \in Nat /\ k >= n /\ 2 * (k - n + 1) <= reader.offset /\ k \in Nat
    BY <1>f, <1>o, <2>1, <2>2, TailerConstants, SMTT(60) DEF LineBytes
  <2>4. reader.offset >= 2
    BY <2>3, <1>p, SMTT(60)
  <2>5. QED
    BY <2>4, <1>p, <1>a, SMTT(60) DEF LineBytes
<1>1. TailerTyped'
  BY <1>0, <1>c, <1>d, ZenonT(60) DEF TailerTyped
<1>w. \A i \in Created : WholeEmitted(i) => WholeEmitted(i)'
  BY <1>0, <1>c, ZenonT(60) DEF WholeEmitted
<1>3. AckedSound'
  <2>1. \A i \in Created : i < reader.inode => WholeEmitted(i)'
    BY <1>w, <1>o, ZenonT(60) DEF ReaderSound
  <2>2. ASSUME o <= logs[reader.inode].size PROVE Lines(logs[reader.inode].first, o) \subseteq emitted
    <3>1. logs[reader.inode].size \in Nat /\ logs[reader.inode].first \in Nat
      BY <1>f, <1>o, ZenonT(60)
    <3>2. reader.offset <= logs[reader.inode].size
      <4>1. reader.offset > logs[reader.inode].size => reader.offset % LineBytes = 0
        BY <1>o, ZenonT(60) DEF ReaderSound
      <4>2. QED
        BY <4>1, <3>1, <2>2, <1>b, <1>p, SMTT(60)
    <3>3. Lines(logs[reader.inode].first, reader.offset) \subseteq emitted
      BY <3>2, <1>o, ZenonT(60) DEF ReaderSound, EmittedTo
    <3>4. Lines(logs[reader.inode].first, o) \subseteq Lines(logs[reader.inode].first, reader.offset)
      BY <3>1, <1>b, <1>p, LinesUpTo, SMTT(60)
    <3>5. QED
      BY <3>3, <3>4, SMTT(60)
  <2>3. QED
    BY <2>1, <2>2, <1>0, <1>c, <1>d, <1>e, <1>o, ZenonT(60) DEF AckedSound, EmittedTo
<1>4. ReaderSound'
  <2>1. Following' = Following
    BY <1>0, ZenonT(60) DEF Following
  <2>2. QED
    BY <2>1, <1>0, <1>c, <1>w, ZenonT(60) DEF ReaderSound, EmittedTo
<1>5. CatchUpSound'
  BY <1>0, <1>o, ZenonT(60) DEF CatchUpSound, Following
<1>6. QED
  BY <1>c, <1>1, <1>3, <1>4, <1>5, ZenonT(60)

\* The live file is read from its start once all others are emitted.
LEMMA ReopenSound ==
  ASSUME TailerTyped, FilesInOrder, AckedSound, ReaderSound, CatchUpSound, Reopen,
         excuse = "none", excuse' = "none"
  PROVE  TailerTyped' /\ FilesInOrder' /\ AckedSound' /\ ReaderSound' /\ CatchUpSound'
<1>0. /\ session.pc = "reopen" /\ livePath # 0 /\ reader' = [inode |-> livePath, offset |-> 0]
      /\ session' = [session EXCEPT !.pc = "fill"] /\ UNCHANGED fileVars /\ acked' = acked /\ emitted' = emitted
  BY Zenon DEF Reopen
<1>c. Created' = Created /\ FilesInOrder' /\ logs' = logs /\ livePath' = livePath /\ nextLine' = nextLine
  BY <1>0, FilesSame, ZenonT(60)
<1>f. /\ \A i \in Created : i \in Inodes /\ i \in Nat /\ i # 0
      /\ \A i \in Inodes : i \in Nat /\ logs[i].first \in Nat /\ logs[i].size \in Nat
      /\ livePath # 0 => livePath \in Created /\ (\A i \in Created : i <= livePath)
  BY FileFacts, ZenonT(60)
<1>p. reader.inode \in Nat /\ reader.offset \in Nat /\ acked.inode \in Nat /\ acked.offset \in Nat
  BY PositionTypes, SMTT(60)
<1>w. \A i \in Created : WholeEmitted(i) => WholeEmitted(i)'
  BY <1>0, <1>c, ZenonT(60) DEF WholeEmitted
<1>s. session' \in Session /\ session'.pc = "fill"
  BY <1>0, SessionAt, ZenonT(60) DEF TailerTyped
<1>r. reader' \in Position /\ reader'.inode = livePath /\ reader'.offset = 0
  BY <1>0, SMTT(60) DEF TailerTyped, Position
<1>1. TailerTyped'
  BY <1>0, <1>c, <1>s, <1>r, ZenonT(60) DEF TailerTyped
<1>3. AckedSound'
  BY <1>0, <1>c, AckedSame, SMTT(60)
<1>4. ReaderSound'
  <2>1. livePath \in Created /\ livePath \in Inodes
    BY <1>f, <1>0, ZenonT(60)
  <2>2. \A i \in Created : ~ (i > livePath) /\ (i < livePath => i # livePath)
    BY <1>f, <1>0, <2>1, SMTT(60)
  <2>3. \A i \in Created : i < livePath => WholeEmitted(i)'
    BY <2>2, <1>w, <1>0, ZenonT(60) DEF CatchUpSound
  <2>4. Lines(logs[livePath].first, 0) = {} /\ ~ (0 > logs[livePath].size)
    BY <2>1, <1>f, LinesUpTo, SMTT(60)
  <2>5. QED
    BY <2>1, <2>2, <2>3, <2>4, <1>c, <1>r, <1>s, ZenonT(60) DEF ReaderSound, EmittedTo, Following
<1>5. CatchUpSound'
  BY <1>s, SMTT(60) DEF CatchUpSound
<1>6. QED
  BY <1>c, <1>1, <1>3, <1>4, <1>5, ZenonT(60)

\* A read error on the live file reopens it; all others were emitted.
LEMMA FillErrorSound ==
  ASSUME TailerTyped, FilesInOrder, AckedSound, ReaderSound, CatchUpSound, FillError,
         excuse = "none", excuse' = "none"
  PROVE  TailerTyped' /\ FilesInOrder' /\ AckedSound' /\ ReaderSound' /\ CatchUpSound'
<1>0. /\ session.pc = "fill" /\ reader' = NoPosition /\ session' = [session EXCEPT !.pc = "reopen"]
      /\ UNCHANGED fileVars /\ acked' = acked /\ emitted' = emitted /\ reader.inode = livePath
  BY ReasonKept, ZenonT(60) DEF FillError
<1>c. Created' = Created /\ FilesInOrder' /\ logs' = logs /\ livePath' = livePath /\ nextLine' = nextLine
  BY <1>0, FilesSame, ZenonT(60)
<1>f. /\ \A i \in Created : i \in Inodes /\ i \in Nat /\ i # 0
      /\ \A i \in Inodes : i \in Nat /\ logs[i].first \in Nat /\ logs[i].size \in Nat
      /\ livePath # 0 => livePath \in Created /\ (\A i \in Created : i <= livePath)
  BY FileFacts, ZenonT(60)
<1>p. reader.inode \in Nat /\ reader.offset \in Nat /\ acked.inode \in Nat /\ acked.offset \in Nat
  BY PositionTypes, SMTT(60)
<1>w. \A i \in Created : WholeEmitted(i) => WholeEmitted(i)'
  BY <1>0, <1>c, ZenonT(60) DEF WholeEmitted
<1>s. session' \in Session /\ session'.pc = "reopen"
  BY <1>0, SessionAt, ZenonT(60) DEF TailerTyped
<1>1. TailerTyped'
  BY <1>0, <1>c, <1>s, NoPositionIs, ZenonT(60) DEF TailerTyped
<1>3. AckedSound'
  BY <1>0, <1>c, AckedSame, SMTT(60)
<1>4. ReaderSound'
  BY <1>0, <1>s, NoPositionIs, SMTT(60) DEF ReaderSound, Following
<1>5. CatchUpSound'
  <2>1. Following /\ livePath # 0
    BY <1>0, <1>f, SMTT(60) DEF ReaderSound, Following
  <2>2. \A i \in Created : i # livePath => i < livePath
    BY <2>1, <1>f, SMTT(60)
  <2>3. \A i \in Created : i # livePath => WholeEmitted(i)'
    BY <2>1, <2>2, <1>w, <1>0, ZenonT(60) DEF ReaderSound
  <2>4. QED
    BY <2>3, <1>c, <1>s, SMTT(60) DEF CatchUpSound
<1>6. QED
  BY <1>c, <1>1, <1>3, <1>4, <1>5, ZenonT(60)

\* Reading to the end emits what is between the offset and the end.
LEMMA FillSound ==
  ASSUME TailerTyped, FilesInOrder, AckedSound, ReaderSound, CatchUpSound, Fill,
         excuse = "none", excuse' = "none"
  PROVE  TailerTyped' /\ FilesInOrder' /\ AckedSound' /\ ReaderSound' /\ CatchUpSound'
<1>0. /\ session.pc = "fill" /\ EmitFrom(reader.inode, reader.offset)
      /\ reader' = [reader EXCEPT !.offset = IF logs[reader.inode].size > reader.offset THEN logs[reader.inode].size ELSE reader.offset]
      /\ session' = [session EXCEPT !.pc = "stat"] /\ UNCHANGED fileVars /\ acked' = acked
  BY ZenonT(60) DEF Fill
<1>c. Created' = Created /\ FilesInOrder' /\ logs' = logs /\ livePath' = livePath /\ nextLine' = nextLine
  BY <1>0, FilesSame, ZenonT(60)
<1>f. /\ \A i \in Created : i \in Inodes /\ i \in Nat /\ i # 0
      /\ \A i \in Inodes : i \in Nat /\ logs[i].first \in Nat /\ logs[i].size \in Nat
      /\ livePath # 0 => livePath \in Created /\ (\A i \in Created : i <= livePath)
  BY FileFacts, ZenonT(60)
<1>p. reader.inode \in Nat /\ reader.offset \in Nat /\ acked.inode \in Nat /\ acked.offset \in Nat
  BY PositionTypes, SMTT(60)
<1>e. /\ emitted \subseteq emitted'
      /\ EmittedTo(reader.inode, reader.offset)
           => Lines(logs[reader.inode].first, logs[reader.inode].size) \subseteq emitted'
  BY <1>0, EmitEffect, ZenonT(60)
<1>w. \A i \in Created : WholeEmitted(i) => WholeEmitted(i)'
  BY <1>e, <1>c, ZenonT(60) DEF WholeEmitted
<1>s. session' \in Session /\ session'.pc = "stat"
  BY <1>0, SessionAt, ZenonT(60) DEF TailerTyped
<1>o. Following /\ reader.inode \in Created /\ reader.inode \in Inodes
  BY <1>0, <1>f, SMTT(60) DEF ReaderSound, Following
<1>z. PICK z : z = IF logs[reader.inode].size > reader.offset THEN logs[reader.inode].size ELSE reader.offset
  BY SMTT(60)
<1>y. logs[reader.inode].size \in Nat
  BY <1>f, <1>o, SMTT(60)
<1>x. z \in Nat
  BY <1>z, <1>y, <1>p, SMTT(60)
<1>r. reader' \in Position /\ reader'.inode = reader.inode /\ reader'.offset = z
  BY <1>0, <1>z, <1>x, SMTT(60) DEF TailerTyped, Position
<1>1. TailerTyped'
  BY <1>0, <1>c, <1>s, <1>r, ZenonT(60) DEF TailerTyped
<1>3. AckedSound'
  BY <1>0, <1>c, <1>e, AckedSame, SMTT(60)
<1>4. ReaderSound'
  <2>1. z <= logs[reader.inode].size => z = logs[reader.inode].size /\ reader.offset <= logs[reader.inode].size
    BY <1>z, <1>y, <1>p, SMTT(60)
  <2>2. z > logs[reader.inode].size => z = reader.offset
    BY <1>z, <1>y, <1>p, SMTT(60)
  <2>3. z <= logs[reader.inode].size => Lines(logs[reader.inode].first, z) \subseteq emitted'
    BY <2>1, <1>e, <1>o, ZenonT(60) DEF ReaderSound
  <2>4. z > logs[reader.inode].size => reader.inode = livePath /\ z % LineBytes = 0
    BY <2>2, <1>o, ZenonT(60) DEF ReaderSound
  <2>5. Following' /\ session'.pc # "drain"
    BY <1>s, SMTT(60) DEF Following
  <2>6. \A i \in Created : i < reader.inode => WholeEmitted(i)'
    BY <1>w, <1>o, ZenonT(60) DEF ReaderSound
  <2>7. \A i \in Created : i > reader.inode => i = livePath
    BY <1>o, ZenonT(60) DEF ReaderSound
  <2>8. QED
    BY <2>3, <2>4, <2>5, <2>6, <2>7, <1>c, <1>o, <1>r, ZenonT(60) DEF ReaderSound, EmittedTo
<1>5. CatchUpSound'
  BY <1>s, ZenonT(60) DEF CatchUpSound
<1>6. QED
  BY <1>c, <1>1, <1>3, <1>4, <1>5, ZenonT(60)

\* A file that shrank is started again; otherwise the offset stays.
LEMMA StatSound ==
  ASSUME TailerTyped, FilesInOrder, AckedSound, ReaderSound, CatchUpSound, Stat,
         excuse = "none", excuse' = "none"
  PROVE  TailerTyped' /\ FilesInOrder' /\ AckedSound' /\ ReaderSound' /\ CatchUpSound'
<1>0. /\ session.pc = "stat" /\ UNCHANGED fileVars /\ acked' = acked /\ emitted' = emitted
      /\ session' = [session EXCEPT !.pc = IF livePath \notin {0, reader.inode} THEN "drain" ELSE "fill"]
      /\ reader' = IF livePath = reader.inode /\ logs[livePath].size < reader.offset
                   THEN [reader EXCEPT !.offset = 0] ELSE reader
  BY Zenon DEF Stat
<1>c. Created' = Created /\ FilesInOrder' /\ logs' = logs /\ livePath' = livePath /\ nextLine' = nextLine
  BY <1>0, FilesSame, ZenonT(60)
<1>f. /\ \A i \in Created : i \in Inodes /\ i \in Nat /\ i # 0
      /\ \A i \in Inodes : i \in Nat /\ logs[i].first \in Nat /\ logs[i].size \in Nat
      /\ livePath # 0 => livePath \in Created /\ (\A i \in Created : i <= livePath)
  BY FileFacts, ZenonT(60)
<1>p. reader.inode \in Nat /\ reader.offset \in Nat /\ acked.inode \in Nat /\ acked.offset \in Nat
  BY PositionTypes, SMTT(60)
<1>w. \A i \in Created : WholeEmitted(i) => WholeEmitted(i)'
  BY <1>0, <1>c, ZenonT(60) DEF WholeEmitted
<1>o. Following /\ reader.inode \in Created /\ reader.inode \in Inodes
  BY <1>0, <1>f, SMTT(60) DEF ReaderSound, Following
<1>s. session' \in Session /\ session'.pc \in {"fill", "drain"} /\ (session'.pc = "drain" => livePath \notin {0, reader.inode})
  <2>1. PICK pc \in {"fill", "drain"} : pc = IF livePath \notin {0, reader.inode} THEN "drain" ELSE "fill"
    OBVIOUS
  <2>2. session' = [session EXCEPT !.pc = pc]
    BY <2>1, <1>0, SMTT(60)
  <2>3. session' \in Session /\ session'.pc = pc
    BY <2>1, <2>2, SessionAt, ZenonT(60) DEF TailerTyped
  <2>4. QED
    BY <2>1, <2>3, SMTT(60)
<1>r. /\ reader' \in Position /\ reader'.inode = reader.inode
      /\ reader'.offset = reader.offset \/ reader'.offset = 0
  <2>1. CASE reader' = reader
    BY <2>1, SMTT(60) DEF TailerTyped
  <2>2. CASE reader' = [reader EXCEPT !.offset = 0]
    BY <2>2, SMTT(60) DEF TailerTyped, Position
  <2>3. QED
    BY <2>1, <2>2, <1>0, ZenonT(60)
<1>z. PICK z : z = reader'.offset
  OBVIOUS
<1>1. TailerTyped'
  BY <1>0, <1>c, <1>s, <1>r, ZenonT(60) DEF TailerTyped
<1>3. AckedSound'
  BY <1>0, <1>c, AckedSame, SMTT(60)
<1>4. ReaderSound'
  <2>1. Lines(logs[reader.inode].first, 0) = {} /\ ~ (0 > logs[reader.inode].size)
    BY <1>o, <1>f, LinesUpTo, SMTT(60)
  <2>2. Following'
    BY <1>s, SMTT(60) DEF Following
  <2>3. z <= logs[reader.inode].size => Lines(logs[reader.inode].first, z) \subseteq emitted
    BY <2>1, <1>r, <1>z, <1>o, SMTT(60) DEF ReaderSound, EmittedTo
  <2>4. z > logs[reader.inode].size => reader.inode = livePath /\ z % LineBytes = 0
    BY <2>1, <1>r, <1>z, <1>o, ZenonT(60) DEF ReaderSound
  <2>5. \A i \in Created : i < reader.inode => WholeEmitted(i)'
    BY <1>w, <1>o, ZenonT(60) DEF ReaderSound
  <2>6. \A i \in Created : i > reader.inode => i = livePath
    BY <1>o, ZenonT(60) DEF ReaderSound
  <2>8. emitted' = emitted /\ reader'.inode = reader.inode
    BY <1>0, <1>r, SMTT(60)
  <2>7. QED
    BY <2>2, <2>3, <2>4, <2>5, <2>6, <2>8, <1>z, <1>c, <1>o, <1>s, ZenonT(60) DEF ReaderSound, EmittedTo
<1>5. CatchUpSound'
  BY <1>s, ZenonT(60) DEF CatchUpSound
<1>6. QED
  BY <1>c, <1>1, <1>3, <1>4, <1>5, ZenonT(60)

\* A file that was rotated away is read to its end before the switch.
LEMMA DrainSound ==
  ASSUME TailerTyped, FilesInOrder, AckedSound, ReaderSound, CatchUpSound, Drain,
         excuse = "none", excuse' = "none"
  PROVE  TailerTyped' /\ FilesInOrder' /\ AckedSound' /\ ReaderSound' /\ CatchUpSound'
<1>0. /\ session.pc = "drain" /\ EmitFrom(reader.inode, reader.offset) /\ reader' = NoPosition
      /\ session' = [session EXCEPT !.pc = "reopen"] /\ UNCHANGED fileVars /\ acked' = acked
  BY Zenon DEF Drain
<1>c. Created' = Created /\ FilesInOrder' /\ logs' = logs /\ livePath' = livePath /\ nextLine' = nextLine
  BY <1>0, FilesSame, ZenonT(60)
<1>f. /\ \A i \in Created : i \in Inodes /\ i \in Nat /\ i # 0
      /\ \A i \in Inodes : i \in Nat /\ logs[i].first \in Nat /\ logs[i].size \in Nat
      /\ livePath # 0 => livePath \in Created /\ (\A i \in Created : i <= livePath)
  BY FileFacts, ZenonT(60)
<1>p. reader.inode \in Nat /\ reader.offset \in Nat /\ acked.inode \in Nat /\ acked.offset \in Nat
  BY PositionTypes, SMTT(60)
<1>e. /\ emitted \subseteq emitted'
      /\ EmittedTo(reader.inode, reader.offset)
           => Lines(logs[reader.inode].first, logs[reader.inode].size) \subseteq emitted'
  BY <1>0, EmitEffect, ZenonT(60)
<1>w. \A i \in Created : WholeEmitted(i) => WholeEmitted(i)'
  BY <1>e, <1>c, ZenonT(60) DEF WholeEmitted
<1>s. session' \in Session /\ session'.pc = "reopen"
  BY <1>0, SessionAt, ZenonT(60) DEF TailerTyped
<1>o. Following /\ reader.inode \in Created /\ reader.inode \in Inodes /\ livePath # reader.inode
  BY <1>0, <1>f, SMTT(60) DEF ReaderSound, Following
<1>1. TailerTyped'
  BY <1>0, <1>c, <1>s, NoPositionIs, ZenonT(60) DEF TailerTyped
<1>3. AckedSound'
  BY <1>0, <1>c, <1>e, AckedSame, SMTT(60)
<1>4. ReaderSound'
  BY <1>0, <1>s, NoPositionIs, SMTT(60) DEF ReaderSound, Following
<1>5. CatchUpSound'
  <2>1. reader.offset <= logs[reader.inode].size
    <3>1. ~ (reader.offset > logs[reader.inode].size) /\ logs[reader.inode].size \in Nat
      BY <1>o, <1>f, ZenonT(60) DEF ReaderSound
    <3>2. QED
      BY <3>1, <1>p, SMTT(60)
  <2>2. \A i \in Created : i = reader.inode => WholeEmitted(i)'
    <3>1. Lines(logs[reader.inode].first, logs[reader.inode].size) \subseteq emitted'
      BY <2>1, <1>e, <1>o, ZenonT(60) DEF ReaderSound
    <3>2. QED
      BY <3>1, <1>c, ZenonT(60) DEF WholeEmitted
  <2>3. \A i \in Created : i < reader.inode \/ i = reader.inode \/ i > reader.inode
    BY <1>f, <1>p, SMTT(60)
  <2>4. \A i \in Created : i # livePath => WholeEmitted(i)'
    BY <2>2, <2>3, <1>w, <1>o, ZenonT(60) DEF ReaderSound
  <2>5. QED
    BY <2>4, <1>c, <1>s, SMTT(60) DEF CatchUpSound
<1>6. QED
  BY <1>c, <1>1, <1>3, <1>4, <1>5, ZenonT(60)

\* selectChain's three ways to start without losing anything.
OnLive == acked.inode # 0 /\ livePath = acked.inode /\ acked.offset <= logs[livePath].size

\* The saved position is in a rotated file that is still long enough.
OnSibling == acked.inode \in Siblings /\ acked.offset <= logs[acked.inode].size

\* selectChain's three ways to start without losing anything: at the saved
\* position in the live file, at it in a rotated file and all files after
\* it, or, with none saved, at all rotated files.
Chosen(chain, from) ==
    \/ OnLive /\ chain = {} /\ from \in Nat
    \/ ~ OnLive /\ OnSibling /\ chain = From(acked.inode) /\ from = acked.offset
    \/ acked.inode = 0 /\ chain = Siblings /\ from = 0

\* Without an excuse, selectChain took one of them.
LEMMA SelectEffect ==
  ASSUME TailerTyped, FilesInOrder, SelectChain, excuse' = "none"
  PROVE  /\ session.pc = "list" /\ UNCHANGED fileVars /\ reader' = reader /\ acked' = acked /\ emitted' = emitted
         /\ \E chain, from, found, newest :
              /\ found \in BOOLEAN /\ newest \in Nat /\ Chosen(chain, from)
              /\ session' = [session EXCEPT !.pc = "chain", !.chain = chain, !.found = found, !.live = livePath,
                                            !.from = from, !.newest = newest]
<1> DEFINE onLive == acked.inode # 0 /\ livePath = acked.inode /\ acked.offset <= logs[livePath].size
           onSibling == acked.inode \in Siblings /\ acked.offset <= logs[acked.inode].size
                        /\ Affordable(From(acked.inode), acked.offset)
           kept == CHOOSE files \in {f \in {From(i) : i \in Siblings} \cup {{}} : Affordable(f, 0)} :
                     \A i \in Siblings : Affordable(From(i), 0) => From(i) \subseteq files
           chain == IF onLive THEN {} ELSE IF onSibling THEN From(acked.inode) ELSE kept
           found == onLive \/ onSibling
           from == IF onSibling THEN acked.offset ELSE 0
<1>0. /\ session.pc = "list" /\ UNCHANGED fileVars /\ reader' = reader /\ acked' = acked /\ emitted' = emitted
      /\ session' = [session EXCEPT !.pc = "chain", !.chain = chain, !.found = found, !.live = livePath,
                                    !.from = from, !.newest = Newest]
      /\ excuse' = IF found \/ (acked.inode = 0 /\ chain = Siblings) THEN excuse ELSE Excuse("bounds")
  BY Zenon DEF SelectChain
<1>d. found \in BOOLEAN /\ (found <=> OnLive \/ onSibling) /\ (onLive <=> OnLive)
  BY ZenonT(60) DEF OnLive
<1>s. onSibling => OnSibling
  BY ZenonT(60) DEF OnSibling
<1>c. (onLive => chain = {}) /\ (~ onLive /\ onSibling => chain = From(acked.inode))
  BY ZenonT(60)
<1>f. (onSibling => from = acked.offset) /\ (~ onSibling => from = 0)
  BY ZenonT(60)
<1>4. acked.inode = 0 => ~ onSibling
  BY InodesNat, ZenonT(60) DEF Siblings, There
<1> HIDE DEF onLive, onSibling, kept, chain, found, from
<1>1. found \/ (acked.inode = 0 /\ chain = Siblings)
  BY <1>0, ReasonKept, ZenonT(60)
<1>2. Newest \in Nat
  <2>1. PICK n \in 0..MaxInodes : Created = 1..n
    BY DEF FilesInOrder
  <2>2. Newest = n
    BY <2>1, NewestIs, SMTT(60)
  <2>3. QED
    BY <2>1, <2>2, TailerConstants, SMTT(60)
<1>3. from \in Nat
  BY <1>f, PositionTypes, SMTT(60)
<1>5. Chosen(chain, from)
  <2>1. CASE onLive
    BY <2>1, <1>d, <1>c, <1>3, ZenonT(60) DEF Chosen
  <2>2. CASE ~ onLive /\ onSibling
    BY <2>2, <1>d, <1>s, <1>c, <1>f, ZenonT(60) DEF Chosen
  <2>3. CASE ~ onLive /\ ~ onSibling
    BY <2>3, <1>1, <1>d, <1>f, ZenonT(60) DEF Chosen
  <2>4. QED
    BY <2>1, <2>2, <2>3, ZenonT(60)
<1>6. QED
  BY <1>0, <1>d, <1>2, <1>5, ZenonT(60)

\* Whichever it took, what it leaves out was emitted before.
LEMMA SelectSound ==
  ASSUME TailerTyped, FilesInOrder, AckedSound, ReaderSound, CatchUpSound, SelectChain,
         excuse = "none", excuse' = "none"
  PROVE  TailerTyped' /\ FilesInOrder' /\ AckedSound' /\ ReaderSound' /\ CatchUpSound'
<1>0. session.pc = "list" /\ UNCHANGED fileVars /\ reader' = reader /\ acked' = acked /\ emitted' = emitted
  BY SelectEffect, ZenonT(60)
<1>e. PICK chain, from, found, newest :
        /\ found \in BOOLEAN /\ newest \in Nat /\ Chosen(chain, from)
        /\ session' = [session EXCEPT !.pc = "chain", !.chain = chain, !.found = found, !.live = livePath,
                                      !.from = from, !.newest = newest]
  BY SelectEffect, ZenonT(60)
<1>c. Created' = Created /\ FilesInOrder' /\ logs' = logs /\ livePath' = livePath /\ nextLine' = nextLine
  BY <1>0, FilesSame, ZenonT(60)
<1>f. /\ \A i \in Created : i \in Inodes /\ i \in Nat /\ i # 0
      /\ \A i \in Inodes : i \in Nat /\ logs[i].first \in Nat /\ logs[i].size \in Nat
      /\ livePath # 0 => livePath \in Created /\ (\A i \in Created : i <= livePath)
  BY FileFacts, ZenonT(60)
<1>p. reader.inode \in Nat /\ reader.offset \in Nat /\ acked.inode \in Nat /\ acked.offset \in Nat
  BY PositionTypes, SMTT(60)
<1>w. \A i \in Created : WholeEmitted(i) => WholeEmitted(i)'
  BY <1>0, <1>c, ZenonT(60) DEF WholeEmitted
<1>t. \A i \in Siblings : i \in Created /\ i # livePath /\ logs[i].there
  BY ZenonT(60) DEF Siblings, There, FilesInOrder
<1>u. \A i \in Created : logs[i].there /\ i # livePath => i \in Siblings
  BY <1>f, ZenonT(60) DEF Siblings, There
<1>g. chain \subseteq Siblings /\ from \in Nat
  BY <1>e, <1>p, ZenonT(60) DEF Chosen, From
<1>s. /\ session' \in Session /\ session'.pc = "chain" /\ session'.chain = chain /\ session'.found = found
      /\ session'.live = livePath /\ session'.from = from
  <2>1. chain \in SUBSET Inodes
    BY <1>g, <1>t, <1>f, ZenonT(60)
  <2>2. livePath \in Nat /\ session \in Session
    BY SMTT(60) DEF TailerTyped
  <2>3. PICK S : S = SUBSET Inodes
    BY ZenonT(60)
  <2>4. QED
    BY <2>1, <2>2, <2>3, <1>e, <1>g, ZenonT(60) DEF Session
<1>1. TailerTyped'
  BY <1>0, <1>c, <1>s, Zenon DEF TailerTyped
<1>3. AckedSound'
  BY <1>0, <1>c, AckedSame
<1>4. ReaderSound'
  BY <1>0, <1>s DEF ReaderSound, Following
<1>a. \A i \in Created : i # livePath /\ i \notin chain => WholeEmitted(i)
  <2>1. CASE OnLive
    <3>1. \A i \in Created : i # livePath => i < livePath
      BY <2>1, <1>f, SMTT(60) DEF OnLive
    <3>2. QED
      BY <2>1, <3>1, ZenonT(60) DEF OnLive, AckedSound
  <2>2. CASE OnSibling /\ chain = From(acked.inode)
    <3>1. acked.inode \in Created /\ logs[acked.inode].there /\ acked.inode # 0
      BY <2>2, <1>t, <1>f, ZenonT(60) DEF OnSibling
    <3>2. \A i \in Created : i < acked.inode \/ i = acked.inode \/ acked.inode < i
      BY <1>f, <1>p, SMTT(60)
    <3>3. \A i \in Created : i = acked.inode \/ acked.inode < i => logs[i].there
      BY <3>1, ZenonT(60) DEF FilesInOrder
    <3>4. \A i \in Created : i = acked.inode \/ acked.inode < i => i >= acked.inode
      BY <1>f, <1>p, SMTT(60)
    <3>5. QED
      BY <2>2, <3>1, <3>2, <3>3, <3>4, <1>u, ZenonT(60) DEF AckedSound, From
  <2>3. CASE acked.inode = 0 /\ chain = Siblings
    BY <2>3, <1>u, ZenonT(60) DEF AckedSound
  <2>4. QED
    BY <2>1, <2>2, <2>3, <1>e, ZenonT(60) DEF Chosen
<1>b. ASSUME NEW i \in chain, \A j \in chain : i <= j PROVE Lines(logs[i].first, from) \subseteq emitted
  <2>1. i \in Created /\ i \in Nat /\ logs[i].first \in Nat
    BY <1>b, <1>g, <1>t, <1>f, ZenonT(60)
  <2>2. CASE OnSibling /\ chain = From(acked.inode) /\ from = acked.offset
    <3>1. acked.inode \in Siblings /\ acked.inode # 0 /\ acked.inode \in Nat
      BY <2>2, <1>t, <1>f, ZenonT(60) DEF OnSibling
    <3>2. acked.inode >= acked.inode
      BY <3>1, SMTT(60)
    <3>3. acked.inode \in chain /\ i >= acked.inode
      BY <3>1, <3>2, <2>2, <1>b, ZenonT(60) DEF From
    <3>4. i = acked.inode
      BY <3>1, <3>3, <2>1, <1>b, SMTT(60)
    <3>5. QED
      BY <3>1, <3>4, <2>2, ZenonT(60) DEF AckedSound, OnSibling, EmittedTo
  <2>3. CASE from = 0
    BY <2>1, <2>3, LinesUpTo, SMTT(60)
  <2>4. QED
    BY <2>2, <2>3, <1>b, <1>e, ZenonT(60) DEF Chosen
<1>d. livePath # 0 /\ acked.inode = livePath => acked.offset <= logs[livePath].size
  BY <1>e, <1>t, ZenonT(60) DEF Chosen, OnLive, OnSibling
<1>5. CatchUpSound'
  <2>1. chain \subseteq Created /\ livePath \notin chain
    BY <1>g, <1>t, ZenonT(60)
  <2>2. session'.pc # "reopen"
    BY <1>s, SMTT(60)
  <2>3. QED
    BY <2>1, <2>2, <1>0, <1>a, <1>b, <1>c, <1>d, <1>s, <1>w, ZenonT(60) DEF CatchUpSound, EmittedTo
<1>6. QED
  BY <1>c, <1>1, <1>3, <1>4, <1>5, ZenonT(60)

\* A list of files that is not empty has an oldest one.
LEMMA OldestFirst ==
  ASSUME NEW S \in SUBSET Nat, S # {}
  PROVE  \E m \in S : \A x \in S : m <= x
<1>1. PICK m \in S : \A x \in S : ~ (<<x, m>> \in OpToRel(<, Nat))
  BY NatLessThanWellFounded, WFMin, ZenonT(60)
<1>2. \A x \in S : ~ (x < m)
  BY <1>1, ZenonT(60) DEF OpToRel
<1>3. QED
  BY <1>2, SMTT(60)

\* The oldest file of the list is emitted to its end.
LEMMA ReadWholeSound ==
  ASSUME TailerTyped, FilesInOrder, AckedSound, ReaderSound, CatchUpSound, ReadWhole,
         excuse = "none", excuse' = "none"
  PROVE  TailerTyped' /\ FilesInOrder' /\ AckedSound' /\ ReaderSound' /\ CatchUpSound'
<1> DEFINE oldest == CHOOSE i \in session.chain : \A j \in session.chain : i <= j
           opened == logs[oldest].there /\ Newest = session.newest /\ (session.live # 0 => livePath # 0)
<1>d. /\ session.pc = "chain" /\ session.chain # {}
      /\ session' = [session EXCEPT !.chain = session.chain \ {oldest}, !.from = 0, !.found = session.found /\ opened]
      /\ IF opened THEN EmitFrom(oldest, session.from) ELSE UNCHANGED emitted
      /\ excuse' = IF opened THEN excuse ELSE Excuse("bounds")
      /\ UNCHANGED fileVars /\ reader' = reader /\ acked' = acked
  BY Zenon DEF ReadWhole
<1>o. opened
  BY <1>d, ReasonKept, ZenonT(60)
<1>0. /\ session.pc = "chain" /\ EmitFrom(oldest, session.from) /\ UNCHANGED fileVars /\ reader' = reader /\ acked' = acked
  BY <1>d, <1>o, ZenonT(60)
<1>c. Created' = Created /\ FilesInOrder' /\ logs' = logs /\ livePath' = livePath /\ nextLine' = nextLine
  BY <1>0, FilesSame, ZenonT(60)
<1>f. /\ \A i \in Created : i \in Inodes /\ i \in Nat /\ i # 0
      /\ \A i \in Inodes : i \in Nat /\ logs[i].first \in Nat /\ logs[i].size \in Nat
      /\ livePath # 0 => livePath \in Created /\ (\A i \in Created : i <= livePath)
  BY FileFacts, ZenonT(60)
<1>p. reader.inode \in Nat /\ reader.offset \in Nat /\ acked.inode \in Nat /\ acked.offset \in Nat
  BY PositionTypes, SMTT(60)
<1>h. session.chain \subseteq Created /\ session.chain \subseteq Nat /\ session \in Session
  BY <1>0, <1>f, ZenonT(60) DEF CatchUpSound, TailerTyped
<1>i. oldest \in session.chain /\ \A j \in session.chain : oldest <= j
  <2>1. \E m \in session.chain : \A x \in session.chain : m <= x
    BY <1>h, <1>d, OldestFirst, ZenonT(60)
  <2>2. QED
    BY <2>1, ZenonT(60)
<1>b. PICK found \in BOOLEAN : found = (session.found /\ opened)
  BY ZenonT(60)
<1>j. (found => session.found) /\ session' = [session EXCEPT !.chain = session.chain \ {oldest}, !.from = 0, !.found = found]
  BY <1>b, <1>d, <1>o, SessionTypes, <1>h
<1> HIDE DEF oldest, opened
<1>k. PICK rest : rest = session.chain \ {oldest}
  BY ZenonT(60)
<1>s. /\ session' \in Session /\ session'.pc = "chain" /\ session'.chain = rest /\ session'.found = found
      /\ session'.from = 0 /\ session'.live = session.live
  <2>1. rest \in SUBSET Inodes
    BY <1>k, <1>h, <1>f, Zenon
  <2>2. session' = [session EXCEPT !.chain = rest, !.from = 0, !.found = found]
    BY <1>j, <1>k, Zenon
  <2>3. session.pc = "chain" /\ session \in Session /\ found \in BOOLEAN
    BY <1>0, <1>h, <1>b
  <2>4. session' \in Session
    BY <2>1, <2>2, <2>3, ZenonT(60) DEF Session
  <2>5. QED
    BY <2>2, <2>3, <2>4, ZenonT(60) DEF Session
<1>e. /\ emitted \subseteq emitted'
      /\ EmittedTo(oldest, session.from) => Lines(logs[oldest].first, logs[oldest].size) \subseteq emitted'
  BY <1>0, EmitEffect, ZenonT(60)
<1>w. \A i \in Created : WholeEmitted(i) => WholeEmitted(i)'
  BY <1>e, <1>c, ZenonT(60) DEF WholeEmitted
<1>1. TailerTyped'
  BY <1>0, <1>c, <1>s, ZenonT(60) DEF TailerTyped
<1>3. AckedSound'
  BY <1>0, <1>c, <1>e, AckedSame, SMTT(60)
<1>4. ReaderSound'
  BY <1>0, <1>s, SMTT(60) DEF ReaderSound, Following
<1>5. CatchUpSound'
  <2>1. EmittedTo(oldest, session.from)
    BY <1>0, <1>i, ZenonT(60) DEF CatchUpSound
  <2>2. \A k \in Created : k = oldest => WholeEmitted(k)'
    BY <2>1, <1>e, <1>c, ZenonT(60) DEF WholeEmitted
  <2>3. \A k \in Created : k # livePath /\ k \notin rest => WholeEmitted(k)'
    BY <2>2, <1>k, <1>w, <1>0, ZenonT(60) DEF CatchUpSound
  <2>4. \A k \in rest : Lines(logs[k].first, 0) = {}
    BY <1>k, <1>h, <1>f, LinesUpTo, SMTT(60)
  <2>5. rest \subseteq Created /\ livePath \notin rest
    BY <1>k, <1>0, ZenonT(60) DEF CatchUpSound
  <2>6. session.live # 0 => livePath = session.live
    BY <1>0, ZenonT(60) DEF CatchUpSound
  <2>7. (session.live # 0 /\ found /\ acked.inode = session.live) => acked.offset <= logs[session.live].size
    BY <1>0, <1>j, ZenonT(60) DEF CatchUpSound
  <2>8. session'.pc # "reopen"
    BY <1>s, SMTT(60)
  <2>9. QED
    BY <2>3, <2>4, <2>5, <2>6, <2>7, <2>8, <1>0, <1>c, <1>s, ZenonT(60) DEF CatchUpSound, EmittedTo
<1>6. QED
  BY <1>c, <1>1, <1>3, <1>4, <1>5, ZenonT(60)

\* The live file is opened at the saved offset if that was in it, at its
\* start otherwise, and is emitted to its end.
LEMMA CatchUpLiveSound ==
  ASSUME TailerTyped, FilesInOrder, AckedSound, ReaderSound, CatchUpSound, CatchUpLive,
         excuse = "none", excuse' = "none"
  PROVE  TailerTyped' /\ FilesInOrder' /\ AckedSound' /\ ReaderSound' /\ CatchUpSound'
<1>0. session.pc = "chain" /\ session.chain = {} /\ UNCHANGED fileVars /\ acked' = acked
  BY Zenon DEF CatchUpLive
<1>c. Created' = Created /\ FilesInOrder' /\ logs' = logs /\ livePath' = livePath /\ nextLine' = nextLine
  BY <1>0, FilesSame, ZenonT(60)
<1>f. /\ \A i \in Created : i \in Inodes /\ i \in Nat /\ i # 0
      /\ \A i \in Inodes : i \in Nat /\ logs[i].first \in Nat /\ logs[i].size \in Nat
      /\ livePath # 0 => livePath \in Created /\ (\A i \in Created : i <= livePath)
  BY FileFacts, ZenonT(60)
<1>p. reader.inode \in Nat /\ reader.offset \in Nat /\ acked.inode \in Nat /\ acked.offset \in Nat
  BY PositionTypes, SMTT(60)
<1>a. AckedSound
  OBVIOUS
<1>h. \A i \in Created : i # livePath => WholeEmitted(i)
  BY <1>0, Zenon DEF CatchUpSound
<1>v. session.live # 0 => livePath = session.live
  BY <1>0, ZenonT(60) DEF CatchUpSound
<1>t. ASSUME NEW pc \in {"reopen", "fill"}, Caught(pc) PROVE session' \in Session /\ session'.pc = pc
  <2>1. session.nth \in Nat /\ session.found \in BOOLEAN
    BY SessionTypes, SMTT(60) DEF TailerTyped
  <2>2. PICK nth \in Nat, found \in BOOLEAN : nth = session.nth /\ found = session.found
    BY <2>1, SMTT(60)
  <2>3. session' = [NoSessionYet EXCEPT !.pc = pc, !.nth = nth, !.found = found]
    BY <2>2, <1>t, ZenonT(60) DEF Caught
  <2>4. session' = [pc |-> pc, nth |-> nth, chain |-> {}, from |-> 0, live |-> 0, found |-> found, newest |-> 0]
    BY <2>3, ZenonT(60) DEF NoSessionYet
  <2>5. QED
    BY <2>2, <2>4, <1>t, ZenonT(60) DEF Session
<1>x. CASE session.live = 0 \/ livePath = 0
  <2>1. reader' = NoPosition /\ Caught("reopen") /\ emitted' = emitted
    BY <1>x, Zenon DEF CatchUpLive
  <2>2. session' \in Session /\ session'.pc = "reopen"
    BY <2>1, <1>t
  <2>w. \A i \in Created : WholeEmitted(i) => WholeEmitted(i)'
    BY <2>1, <1>c, ZenonT(60) DEF WholeEmitted
  <2>3. TailerTyped'
    BY <1>0, <2>1, <1>c, <2>2, NoPositionIs, ZenonT(60) DEF TailerTyped
  <2>4. AckedSound'
    BY <1>0, <2>1, <1>c, AckedSame, SMTT(60)
  <2>5. ReaderSound'
    BY <2>1, <2>2, NoPositionIs, SMTT(60) DEF ReaderSound, Following
  <2>6. CatchUpSound'
    BY <1>h, <2>w, <1>c, <2>2, ZenonT(60) DEF CatchUpSound
  <2>7. QED
    BY <2>3, <2>4, <2>5, <2>6, <1>c, Zenon
<1>y. CASE ~ (session.live = 0 \/ livePath = 0)
  <2> DEFINE onLive == session.found /\ acked.inode = session.live
             start == IF onLive THEN acked.offset ELSE 0
             size == logs[livePath].size
  <2>1. /\ reader' = [inode |-> livePath, offset |-> IF start > size THEN start ELSE size]
        /\ EmitFrom(livePath, start) /\ Caught("fill")
    BY <1>y, ZenonT(60) DEF CatchUpLive
  <2>2. session' \in Session /\ session'.pc = "fill"
    BY <2>1, <1>t, SMTT(60)
  <2>l. livePath \in Created /\ livePath \in Inodes /\ size \in Nat /\ logs[livePath].first \in Nat
    BY <1>y, <1>f, ZenonT(60)
  <2>s. start \in Nat /\ start <= size /\ EmittedTo(livePath, start)
    <3>1. CASE onLive
      <4>1. acked.inode = livePath /\ acked.inode # 0 /\ start = acked.offset
        BY <3>1, <1>y, <1>v, SMTT(60)
      <4>2. acked.offset <= logs[session.live].size
        BY <3>1, <1>0, <1>y, ZenonT(60) DEF CatchUpSound
      <4>3. start <= size
        BY <4>1, <4>2, <1>v, <1>y, SMTT(60)
      <4>4. EmittedTo(livePath, start)
        BY <4>1, <4>3, <1>a, SMTT(60) DEF AckedSound
      <4>5. QED
        BY <4>1, <4>3, <4>4, <1>p, SMTT(60)
    <3>2. CASE ~ onLive
      <4>1. start = 0
        BY <3>2, SMTT(60)
      <4>2. Lines(logs[livePath].first, 0) = {}
        BY <2>l, LinesUpTo, SMTT(60)
      <4>3. QED
        BY <4>1, <4>2, <2>l, SMTT(60) DEF EmittedTo
    <3>3. QED
      BY <3>1, <3>2, SMTT(60)
  <2> HIDE DEF onLive, start
  <2>3. reader' = [inode |-> livePath, offset |-> size]
    BY <2>1, <2>s, <2>l, SMTT(60)
  <2>r. reader' \in Position /\ reader'.inode = livePath /\ reader'.offset = size
    BY <2>3, <2>l, SMTT(60) DEF Position, TailerTyped
  <2>e. emitted \subseteq emitted' /\ Lines(logs[livePath].first, size) \subseteq emitted'
    BY <2>1, <2>s, EmitEffect, ZenonT(60)
  <2>w. \A i \in Created : WholeEmitted(i) => WholeEmitted(i)'
    BY <2>e, <1>c, ZenonT(60) DEF WholeEmitted
  <2>4. TailerTyped'
    BY <1>0, <1>c, <2>2, <2>r, ZenonT(60) DEF TailerTyped
  <2>5. AckedSound'
    BY <1>0, <2>e, <1>c, AckedSame, SMTT(60)
  <2>6. ReaderSound'
    <3>1. \A i \in Created : ~ (i > livePath) /\ (i < livePath => i # livePath)
      BY <1>f, <1>y, <2>l, SMTT(60)
    <3>2. \A i \in Created : i < livePath => WholeEmitted(i)'
      BY <3>1, <1>h, <2>w, ZenonT(60)
    <3>3. ~ (size > size) /\ Following' /\ session'.pc # "drain"
      BY <2>l, <2>2, SMTT(60) DEF Following
    <3>4. QED
      BY <3>1, <3>2, <3>3, <2>l, <2>e, <2>r, <1>c, ZenonT(60) DEF ReaderSound, EmittedTo
  <2>7. CatchUpSound'
    BY <2>2, SMTT(60) DEF CatchUpSound
  <2>8. QED
    BY <2>4, <2>5, <2>6, <2>7, <1>c, ZenonT(60)
<1>6. QED
  BY <1>x, <1>y, SMTT(60)

\* Once there is a reason it does not go away.
LEMMA ExcusedStays ==
  ASSUME TailerStep, excuse' = "none"
  PROVE  excuse = "none"
<1>1. ASSUME NEW reason PROVE Excuse(reason) = "none" => excuse = "none"
  BY DEF Excuse
<1>2. CASE AppendByte
  BY <1>1, <1>2, ZenonT(60) DEF AppendByte
<1>3. CASE RotateAway
  BY <1>1, <1>3, ZenonT(60) DEF RotateAway
<1>4. CASE CreateLive
  BY <1>4, ZenonT(60) DEF CreateLive
<1>5. CASE Truncate
  BY <1>1, <1>5, ZenonT(60) DEF Truncate
<1>6. CASE \E i \in Inodes : Purge(i)
  BY <1>1, <1>6, ZenonT(60) DEF Purge
<1>7. CASE Stop \/ SavePosition \/ Follow
  BY <1>7, ZenonT(60) DEF Stop, SavePosition, Follow
<1>8. CASE SelectChain
  BY <1>1, <1>8, ZenonT(60) DEF SelectChain
<1>9. CASE ReadWhole
  BY <1>1, <1>9, ZenonT(60) DEF ReadWhole
<1>10. CASE CatchUpLive \/ Reopen \/ Fill
  BY <1>10, ZenonT(60) DEF CatchUpLive, Reopen, Fill
<1>11. CASE FillError
  BY <1>1, <1>11, ZenonT(60) DEF FillError
<1>12. CASE Stat \/ Drain
  BY <1>12, ZenonT(60) DEF Stat, Drain
<1>13. QED
  BY <1>2, <1>3, <1>4, <1>5, <1>6, <1>7, <1>8, <1>9, <1>10, <1>11, <1>12, ZenonT(60) DEF TailerStep

\* Every step keeps the invariant, one lemma per action.
LEMMA TailerInvNext ==
  ASSUME TailerInv, [TailerNext]_tailerVars
  PROVE  TailerInv'
<1>1. SUFFICES ASSUME excuse' = "none"
               PROVE  TailerTyped' /\ FilesInOrder' /\ AckedSound' /\ ReaderSound' /\ CatchUpSound'
  BY ZenonT(60) DEF TailerInv
<1>2. CASE TailerStep
  <2>1. excuse = "none"
    BY <1>1, <1>2, ExcusedStays, SMTT(60)
  <2>2. TailerTyped /\ FilesInOrder /\ AckedSound /\ ReaderSound /\ CatchUpSound
    BY <2>1, ZenonT(60) DEF TailerInv
  <2>3. QED
    BY <1>1, <1>2, <2>1, <2>2, AppendSound, RotateSound, CreateSound, TruncateSound, PurgeSound, StopSound, SaveSound,
       FollowSound, SelectSound, ReadWholeSound, CatchUpLiveSound, ReopenSound, FillSound, FillErrorSound, StatSound,
       DrainSound, ZenonT(60) DEF TailerStep
<1>3. CASE UNCHANGED tailerVars
  <2>1. /\ logs' = logs /\ livePath' = livePath /\ nextLine' = nextLine /\ reader' = reader /\ session' = session
        /\ acked' = acked /\ emitted' = emitted /\ excuse' = excuse
    BY <1>3, ZenonT(60) DEF tailerVars, fileVars
  <2>2. TailerTyped /\ FilesInOrder /\ AckedSound /\ ReaderSound /\ CatchUpSound
    BY <1>1, <2>1, ZenonT(60) DEF TailerInv
  <2>3. Created' = Created /\ Following' = Following /\ \A i \in Created : WholeEmitted(i)' = WholeEmitted(i)
    BY <2>1, ZenonT(60) DEF Created, Following, WholeEmitted
  <2>4. TailerTyped' /\ FilesInOrder'
    BY <2>1, <2>2, <2>3, ZenonT(60) DEF TailerTyped, FilesInOrder
  <2>5. AckedSound'
    BY <2>1, <2>2, <2>3, ZenonT(60) DEF AckedSound, EmittedTo
  <2>6. ReaderSound'
    BY <2>1, <2>2, <2>3, ZenonT(60) DEF ReaderSound, EmittedTo
  <2>7. CatchUpSound'
    BY <2>1, <2>2, <2>3, ZenonT(60) DEF CatchUpSound, EmittedTo
  <2>8. QED
    BY <2>4, <2>5, <2>6, <2>7, SMTT(60)
<1>4. QED
  BY <1>2, <1>3, ZenonT(60) DEF TailerNext

\* The initial state satisfies it.
LEMMA TailerInvInit ==
  ASSUME TailerInit
  PROVE  TailerInv
<1>1. Created = {}
  BY SMTT(60) DEF TailerInit, Created
<1>2. TailerTyped
  BY DEF TailerInit, TailerTyped, File, Position, Session, NoPosition, NoSessionYet
<1>3. FilesInOrder
  <2>1. 0 \in 0..MaxInodes /\ 1..0 = {}
    BY TailerConstants, SMTT(60)
  <2>2. \A i \in Inodes : ~ logs[i].there
    BY SMTT(60) DEF TailerInit
  <2>3. livePath = 0
    BY SMTT(60) DEF TailerInit
  <2>4. QED
    BY <1>1, <2>1, <2>2, <2>3, ZenonT(60) DEF FilesInOrder
<1>4. AckedSound /\ ReaderSound /\ CatchUpSound
  BY <1>1, ZenonT(60) DEF TailerInit, AckedSound, ReaderSound, CatchUpSound, NoPosition, NoSessionYet, Following
<1>5. QED
  BY <1>2, <1>3, <1>4, SMTT(60) DEF TailerInv

\* It says that what the reader passed by was emitted.
LEMMA PassedByEmitted ==
  ASSUME TailerInv
  PROVE  NothingSkipped
<1>1. SUFFICES ASSUME Following, excuse = "none", NEW i \in Created,
                      NEW k \in IF i < reader.inode THEN LinesIn(i, logs[i].size)
                                ELSE IF i = reader.inode /\ reader.offset <= logs[i].size THEN LinesIn(i, reader.offset)
                                ELSE {}
               PROVE  k \in emitted
  BY ZenonT(60) DEF NothingSkipped, PassedBy
<1>2. ReaderSound
  BY <1>1, ZenonT(60) DEF TailerInv
<1>3. CASE i < reader.inode
  BY <1>1, <1>2, <1>3, LinesAre, ZenonT(60) DEF ReaderSound, WholeEmitted
<1>4. CASE ~ (i < reader.inode) /\ i = reader.inode /\ reader.offset <= logs[i].size
  BY <1>1, <1>2, <1>4, LinesAre, ZenonT(60) DEF ReaderSound, EmittedTo
<1>5. QED
  BY <1>1, <1>3, <1>4, SMTT(60)

\* A following session has emitted every complete line written before the
\* point it reads from, in this file and in all earlier ones, unless one of
\* the named excuses happened: for any number of lines, files and sessions
\* and any recovery bounds, whichever way rotations, truncations, cleanups,
\* saved positions and restarts fall between catchUp, readWhole, fill and
\* the stat that notices a rotation.
THEOREM TailerSkipsNothing == TailerSpec => []NothingSkipped
<1>1. TailerSpec => []TailerInv
  BY TailerInvInit, TailerInvNext, PTL DEF TailerSpec
<1>2. QED
  BY <1>1, PassedByEmitted, PTL
=============================================================================
