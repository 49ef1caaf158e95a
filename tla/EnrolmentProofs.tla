-------------------------- MODULE EnrolmentProofs --------------------------
(***************************************************************************)
(* Proofs about enrolment, for any number of sessions, containers, boots   *)
(* and retries, with requests that outlive the boot that sent them.        *)
(***************************************************************************)
EXTENDS Enrolment, FiniteSetTheorems, TLAPS

\* The records of the tables, of a request, of a boot and of a directory.
PCs == {"down", "hello", "key", "provision", "write", "cleanup", "up", "refused"}
Session == [state : {"absent", "minted", "contacted", "provisioned", "expired"},
            burned : BOOLEAN, secret : Containers \cup {NoSession}, agent : Nat]
Agent == [id : Nat \ {0}, session : Sessions, key : Containers \X Nat]
Request == [from : Containers, step : {"hello", "provision"}, try : Nat, boot : Nat,
            saw : {"nothing", "open", "late"}, session : Sessions, key : Nat]
Boot == [pc : PCs, boots : Nat, try : Nat, secret : Sessions \cup {NoSession}, key : Nat, agent : Nat, wrote : Nat]
Dir == [StateFiles \cup {"pending"} -> Nat]

\* A boot knows the token or the secret its step sends.
Knows(b, t) ==
    /\ b.pc = "hello" => t \in Sessions
    /\ b.pc \in {"key", "provision"} => b.secret \in Sessions
    /\ b.pc # "down" => b.boots # 0

\* A request to provision that a boot may still be waiting for carries the
\* key of that boot.
Carries(q, b) ==
    /\ q.boot <= b.boots
    /\ (q.step = "provision" /\ q.boot = b.boots) =>
          b.pc \notin {"hello", "key"} /\ (b.pc = "provision" => q.key = b.key)

\* The certificate of agent id was signed for key k of container c.
Issued(c, id, k, rows) == \E a \in rows : a.id = id /\ a.key = <<c, k>>

\* What the directory holds at each point of a boot.
Empty(d) == d["cert"] = 0 /\ d["key"] = 0 /\ d["token"] = 0
Whole(c, d, rows) == d["cert"] = d["token"] /\ Issued(c, d["cert"], d["key"], rows)
Written(b, d) ==
    \/ b.wrote = 0 /\ Empty(d)
    \/ b.wrote = 1 /\ d["cert"] = b.agent /\ d["key"] = 0 /\ d["token"] = 0
    \/ b.wrote = 2 /\ d["cert"] = b.agent /\ d["key"] = b.key /\ d["token"] = 0
Files(c, b, d, rows) ==
    /\ b.pc \in {"hello", "key", "provision"} => b.wrote = 0 /\ Empty(d)
    /\ b.pc \in {"provision", "write"} => b.key # 0
    /\ b.pc = "write" => b.agent # 0 /\ Issued(c, b.agent, b.key, rows) /\ Written(b, d)
    /\ (b.pc \in {"cleanup", "up"} \/ (d["cert"] # 0 /\ d["key"] # 0 /\ d["token"] # 0)) => Whole(c, d, rows)

TypeInv ==
    /\ sessions \in [Sessions -> Session]
    /\ agents \in SUBSET Agent /\ IsFiniteSet(agents)
    /\ handling \in SUBSET Request
    /\ boot \in [Containers -> Boot]
    /\ token \in [Containers -> Sessions \cup {NoSession}]
    /\ stateDir \in [Containers -> Dir]

\* A session with an agent has been used up.
UsedUp ==
    /\ \A s \in Sessions : sessions[s].state = "contacted" => sessions[s].burned
    /\ \A a \in agents : sessions[a.session].burned /\ sessions[a.session].state # "contacted"

BootsInv ==
    /\ \A c \in Containers : Knows(boot[c], token[c]) /\ Files(c, boot[c], stateDir[c], agents)
    /\ \A q \in handling : Carries(q, boot[q.from])

\* Inductive, and each of the two properties follows from it.
EnrolmentInv == TypeInv /\ UsedUp /\ OneAgentPerSession /\ BootsInv

\* The forms a boot takes.
LEMMA BootForms ==
    ASSUME NEW b \in Boot
    PROVE  /\ Refuse(b) \in Boot /\ Refuse(b).pc = "down" /\ Refuse(b).boots = b.boots
           /\ \A s \in Sessions : LET n == HelloAccepted(b, s) IN
                 n \in Boot /\ n.pc = "key" /\ n.boots = b.boots /\ n.secret = s /\ n.wrote = b.wrote
           /\ \A id \in Nat : LET n == ProvisionAccepted(b, id) IN
                 /\ n \in Boot /\ n.pc = "write" /\ n.boots = b.boots /\ n.agent = id
                 /\ n.key = b.key /\ n.wrote = b.wrote
BY ZenonT(60) DEF Boot, PCs, Refuse, HelloAccepted, ProvisionAccepted

\* A boot that begins.
LEMMA DownForms ==
    ASSUME NEW n \in Nat
    PROVE  /\ Down \in Boot /\ Down.pc = "down"
           /\ [Down EXCEPT !.boots = n] \in Boot /\ [Down EXCEPT !.boots = n].pc = "down"
           /\ [Down EXCEPT !.boots = n].boots = n
           /\ \A p \in PCs : LET d == [Down EXCEPT !.boots = n, !.pc = p] IN
                 d \in Boot /\ d.pc = p /\ d.boots = n /\ d.wrote = 0
BY ZenonT(60) DEF Boot, PCs, Down

\* The files are these three.
LEMMA FilesAre ==
    /\ FileOrder[1] = "cert" /\ FileOrder[2] = "key" /\ FileOrder[3] = "token" /\ Len(FileOrder) = 3
    /\ StateFiles = {"cert", "key", "token"}
<1>1. FileOrder[1] = "cert" /\ FileOrder[2] = "key" /\ FileOrder[3] = "token" /\ Len(FileOrder) = 3
  BY DEF FileOrder
<1>2. 1..3 = {1, 2, 3}
  OBVIOUS
<1> QED BY <1>1, <1>2 DEF StateFiles

\* A new row leaves every certificate issued before it.
LEMMA IssuedGrows ==
    ASSUME NEW c, NEW b, NEW d, NEW rows, NEW more, rows \subseteq more, Files(c, b, d, rows)
    PROVE  Files(c, b, d, more)
BY DEF Files, Issued, Whole

\* A step of one container's boot.
LEMMA OneBoot ==
    ASSUME TypeInv, BootsInv, NEW c \in Containers, NEW n \in Boot, NEW d \in Dir,
           boot' = [boot EXCEPT ![c] = n], stateDir' = [stateDir EXCEPT ![c] = d],
           UNCHANGED token, agents \subseteq agents',
           Knows(n, token[c]), Files(c, n, d, agents'),
           \A q \in handling : q.from = c => Carries(q, n),
           \A q \in handling' : q \in handling \/ Carries(q, boot'[q.from])
    PROVE  BootsInv'
<1>1. boot'[c] = n /\ stateDir'[c] = d
      /\ \A x \in Containers \ {c} : boot'[x] = boot[x] /\ stateDir'[x] = stateDir[x]
  BY DEF TypeInv
<1>2. \A x \in Containers : Knows(boot'[x], token'[x])
  BY <1>1 DEF BootsInv
<1>3. \A x \in Containers : Files(x, boot'[x], stateDir'[x], agents')
  <2>1. ASSUME NEW x \in Containers, x # c
        PROVE  Files(x, boot'[x], stateDir'[x], agents')
    <3>1. Files(x, boot[x], stateDir[x], agents)
      BY DEF BootsInv
    <3>2. Files(x, boot[x], stateDir[x], agents')
      BY <3>1, IssuedGrows
    <3> QED BY <1>1, <2>1, <3>2
  <2> QED BY <1>1, <2>1
<1>4. \A q \in handling : q.from \in Containers
  BY DEF TypeInv, Request
<1>5. \A q \in handling' : Carries(q, boot'[q.from])
  BY <1>1, <1>4 DEF BootsInv
<1> QED BY <1>2, <1>3, <1>5 DEF BootsInv

\* A step that leaves the boots and the directories alone.
LEMMA NoBoot ==
    ASSUME TypeInv, BootsInv, UNCHANGED <<boot, stateDir, token>>, agents \subseteq agents',
           \A q \in handling' : q \in handling \/ Carries(q, boot[q.from])
    PROVE  BootsInv'
<1>1. ASSUME NEW x \in Containers
      PROVE  Files(x, boot[x], stateDir[x], agents')
  <2>1. Files(x, boot[x], stateDir[x], agents)
    BY DEF BootsInv
  <2> QED BY <2>1, IssuedGrows
<1> QED BY <1>1 DEF BootsInv

\* A request read by its handler is otherwise the same request.
LEMMA ReadRequest ==
    ASSUME NEW q \in Request, NEW v \in {"open", "late"}
    PROVE  LET n == [q EXCEPT !.saw = v]
           IN  /\ n \in Request /\ n.from = q.from
               /\ \A b : Carries(q, b) => Carries(n, b)
<1>1. LET n == [q EXCEPT !.saw = v]
      IN  n \in Request /\ n.from = q.from /\ n.step = q.step /\ n.boot = q.boot /\ n.key = q.key
  BY DEF Request
<1> QED BY <1>1 DEF Carries

\* An answer: the boot that waits takes it, and no other.
LEMMA AnswerStep ==
    ASSUME TypeInv, BootsInv, NEW q \in handling, NEW n \in Boot, Answer(q, n),
           UNCHANGED <<stateDir, token>>, agents \subseteq agents', handling' \subseteq handling,
           n.boots = boot[q.from].boots,
           Waits(q) => Knows(n, token[q.from]) /\ Files(q.from, n, stateDir[q.from], agents'),
           n.pc = "provision" => FALSE,
           n.pc \in {"hello", "key"} => q.step = "hello"
    PROVE  BootsInv' /\ boot' \in [Containers -> Boot]
<1>1. q.from \in Containers /\ stateDir[q.from] \in Dir
  BY DEF TypeInv, Request
<1>2. CASE ~ Waits(q)
  <2>1. UNCHANGED boot
    BY <1>2 DEF Answer
  <2> QED BY <2>1, NoBoot DEF TypeInv
<1>3. CASE Waits(q)
  <2>1. boot' = [boot EXCEPT ![q.from] = n]
    BY <1>3 DEF Answer
  <2>2. stateDir' = [stateDir EXCEPT ![q.from] = stateDir[q.from]]
    BY <1>1 DEF TypeInv
  <2>3. \A r \in handling : r.from = q.from => Carries(r, n)
    <3>1. ASSUME NEW r \in handling, r.from = q.from
          PROVE  Carries(r, n)
      <4>1. Carries(r, boot[q.from])
        BY <3>1 DEF BootsInv
      <4>2. boot[q.from].pc = q.step
        BY <1>3, SMTT(60) DEF Waits
      <4> QED BY <4>1, <4>2 DEF Carries
    <3> QED BY <3>1
  <2>4. BootsInv'
    BY <1>1, <1>3, <2>1, <2>2, <2>3, OneBoot, ZenonT(60)
  <2> QED BY <1>1, <2>1, <2>4 DEF TypeInv
<1> QED BY <1>2, <1>3

\* A boot that ends waits for nothing.
LEMMA EndedBoot ==
    ASSUME TypeInv, BootsInv, NEW c \in Containers, NEW n \in Boot, n.pc = "down", NEW t, NEW rows, agents \subseteq rows
    PROVE  Knows(n, t) /\ Files(c, n, stateDir[c], rows)
<1>1. Files(c, boot[c], stateDir[c], rows)
  BY IssuedGrows DEF BootsInv
<1> QED BY <1>1 DEF Knows, Files

\* Both handlers' reads: the request is refused, or goes on.
LEMMA ReadStep ==
    ASSUME EnrolmentInv, NEW q \in handling, NEW late \in BOOLEAN, FirstContactRead(q, late) \/ ProvisionRead(q, late)
    PROVE  EnrolmentInv'
<1>1. UNCHANGED <<sessions, agents, token, stateDir>>
  BY DEF FirstContactRead, ProvisionRead
<1>2. \/ handling' = handling \ {q} /\ Answer(q, Refuse(boot[q.from]))
      \/ /\ \E v \in {"open", "late"} : handling' = (handling \ {q}) \cup {[q EXCEPT !.saw = v]}
         /\ UNCHANGED boot
  BY DEF FirstContactRead, ProvisionRead
<1>3. q \in Request /\ q.from \in Containers /\ boot[q.from] \in Boot /\ TypeInv /\ BootsInv
  BY DEF EnrolmentInv, TypeInv, Request
<1>4. UsedUp' /\ OneAgentPerSession'
  BY <1>1 DEF EnrolmentInv, UsedUp, OneAgentPerSession
<1>5. CASE handling' = handling \ {q} /\ Answer(q, Refuse(boot[q.from]))
  <2>1. Refuse(boot[q.from]) \in Boot /\ Refuse(boot[q.from]).pc = "down"
        /\ Refuse(boot[q.from]).boots = boot[q.from].boots
    BY <1>3, BootForms
  <2>2. Knows(Refuse(boot[q.from]), token[q.from])
        /\ Files(q.from, Refuse(boot[q.from]), stateDir[q.from], agents')
    BY <1>1, <1>3, <2>1, EndedBoot, SMTT(60)
  <2>3. BootsInv' /\ boot' \in [Containers -> Boot]
    BY <1>1, <1>3, <1>5, <2>1, <2>2, AnswerStep
  <2>4. TypeInv'
    BY <1>1, <1>5, <2>3 DEF EnrolmentInv, TypeInv
  <2> QED BY <1>4, <2>3, <2>4 DEF EnrolmentInv
<1>6. ASSUME NEW v \in {"open", "late"}, handling' = (handling \ {q}) \cup {[q EXCEPT !.saw = v]}, UNCHANGED boot
      PROVE  EnrolmentInv'
  <2> DEFINE n == [q EXCEPT !.saw = v]
  <2>1. n \in Request /\ n.from = q.from /\ Carries(n, boot[q.from])
    BY <1>3, ReadRequest, ZenonT(60) DEF BootsInv
  <2> HIDE DEF n
  <2>2. handling' = (handling \ {q}) \cup {n}
    BY <1>6 DEF n
  <2>3. BootsInv'
    BY <1>1, <1>3, <1>6, <2>1, <2>2, NoBoot
  <2>4. TypeInv'
    BY <1>1, <1>6, <2>1, <2>2 DEF EnrolmentInv, TypeInv
  <2> QED BY <1>4, <2>3, <2>4 DEF EnrolmentInv
<1> QED BY <1>2, <1>5, <1>6

\* The row of a session that is contacted.
LEMMA ContactedRow ==
    ASSUME TypeInv, NEW s \in Sessions, NEW c \in Containers
    PROVE  [sessions EXCEPT ![s].burned = TRUE, ![s].state = "contacted", ![s].secret = c] \in [Sessions -> Session]
<1>1. TRUE \in BOOLEAN /\ sessions[s] \in Session
  BY DEF TypeInv
<1>2. [sessions[s] EXCEPT !.burned = TRUE, !.state = "contacted", !.secret = c] \in Session
  BY <1>1, ZenonT(60) DEF Session
<1> QED BY <1>2 DEF TypeInv

\* The burn of a token.
LEMMA ContactStep ==
    ASSUME EnrolmentInv, NEW q \in handling, NEW ok \in BOOLEAN, FirstContact(q, ok)
    PROVE  EnrolmentInv'
<1>1. q.from \in Containers /\ q.session \in Sessions /\ boot[q.from] \in Boot /\ TypeInv /\ BootsInv
  BY DEF EnrolmentInv, TypeInv, Request
<1>2. UNCHANGED <<agents, token, stateDir>> /\ handling' = handling \ {q} /\ q.step = "hello"
  BY DEF FirstContact
<1>3. PICK n : Answer(q, n) /\ n \in {HelloAccepted(boot[q.from], q.session), Refuse(boot[q.from])}
  BY DEF FirstContact, HandleHello
<1>4. n \in Boot /\ n.boots = boot[q.from].boots /\ n.pc \in {"key", "down"}
  <2>1. CASE n = Refuse(boot[q.from])
    BY <1>1, <2>1, BootForms, SMTT(60)
  <2>2. CASE n = HelloAccepted(boot[q.from], q.session)
    BY <1>1, <2>2, BootForms, ZenonT(60)
  <2> QED BY <1>3, <2>1, <2>2, SMTT(60)
<1>5. Waits(q) => Knows(n, token[q.from]) /\ Files(q.from, n, stateDir[q.from], agents')
  <2>1. CASE n = Refuse(boot[q.from])
    BY <1>1, <1>2, <1>4, <2>1, BootForms, EndedBoot, ZenonT(60)
  <2>2. CASE n = HelloAccepted(boot[q.from], q.session) /\ Waits(q)
    <3>1. n.pc = "key" /\ n.secret = q.session /\ n.wrote = boot[q.from].wrote
      BY <1>1, <2>2, BootForms, ZenonT(60)
    <3>2. /\ boot[q.from].pc = "hello" /\ Knows(boot[q.from], token[q.from])
          /\ Files(q.from, boot[q.from], stateDir[q.from], agents)
      BY <1>1, <1>2, <2>2 DEF Waits, BootsInv
    <3> QED BY <1>1, <1>2, <1>4, <3>1, <3>2, SMTT(60) DEF Knows, Files
  <2> QED BY <1>3, <2>1, <2>2
<1>6. BootsInv' /\ boot' \in [Containers -> Boot]
  BY <1>1, <1>2, <1>3, <1>4, <1>5, AnswerStep
<1>7. \/ UNCHANGED sessions
      \/ sessions' = [sessions EXCEPT ![q.session].state = "expired"]
      \/ /\ ~ sessions[q.session].burned
         /\ sessions' = [sessions EXCEPT ![q.session].burned = TRUE, ![q.session].state = "contacted",
                                         ![q.session].secret = q.from]
  BY DEF FirstContact
<1>8. TypeInv'
  <2>1. sessions' \in [Sessions -> Session]
    <3>1. CASE UNCHANGED sessions
      BY <1>1, <3>1, SMTT(60) DEF TypeInv
    <3>2. CASE sessions' = [sessions EXCEPT ![q.session].state = "expired"]
      BY <1>1, <3>2 DEF TypeInv, Session
    <3>3. CASE sessions' = [sessions EXCEPT ![q.session].burned = TRUE, ![q.session].state = "contacted",
                                            ![q.session].secret = q.from]
      BY <1>1, <3>3, ContactedRow, ZenonT(60)
    <3> QED BY <1>7, <3>1, <3>2, <3>3
  <2> QED BY <1>1, <1>2, <1>6, <2>1 DEF TypeInv
<1>9. UsedUp' /\ OneAgentPerSession'
  <2>1. \A a \in agents : a.session \in Sessions
    BY <1>1, SMTT(60) DEF TypeInv, Agent
  <2>2. CASE UNCHANGED sessions
    BY <1>2, <2>2, SMTT(60) DEF EnrolmentInv, UsedUp, OneAgentPerSession
  <2>3. CASE sessions' = [sessions EXCEPT ![q.session].state = "expired"]
    <3>1. /\ sessions'[q.session].state = "expired" /\ sessions'[q.session].burned = sessions[q.session].burned
          /\ sessions'[q.session].agent = sessions[q.session].agent
          /\ \A x \in Sessions \ {q.session} : sessions'[x] = sessions[x]
      BY <1>1, <2>3, SMTT(60) DEF TypeInv, Session
    <3> QED BY <1>2, <2>1, <3>1, SMTT(60) DEF EnrolmentInv, UsedUp, OneAgentPerSession
  <2>4. CASE /\ ~ sessions[q.session].burned
             /\ sessions' = [sessions EXCEPT ![q.session].burned = TRUE, ![q.session].state = "contacted",
                                             ![q.session].secret = q.from]
    <3>1. sessions'[q.session].burned /\ \A x \in Sessions \ {q.session} : sessions'[x] = sessions[x]
      BY <1>1, <2>4, SMTT(60) DEF TypeInv, Session
    <3>2. \A a \in agents : a.session # q.session
      BY <2>4 DEF EnrolmentInv, UsedUp
    <3> QED BY <1>2, <2>1, <3>1, <3>2, SMTT(60) DEF EnrolmentInv, UsedUp, OneAgentPerSession
  <2> QED BY <1>7, <2>2, <2>3, <2>4, SMTT(60)
<1> QED BY <1>6, <1>8, <1>9 DEF EnrolmentInv

\* The writes of Provision: at most one agent to a session.
LEMMA ProvisionStep ==
    ASSUME EnrolmentInv, NEW q \in handling, NEW signed \in BOOLEAN, Provision(q, signed)
    PROVE  EnrolmentInv'
<1>1. /\ q.from \in Containers /\ q.session \in Sessions /\ q.key \in Nat /\ boot[q.from] \in Boot
      /\ TypeInv /\ BootsInv
  BY SMTT(60) DEF EnrolmentInv, TypeInv, Request
<1>2. UNCHANGED <<token, stateDir>> /\ handling' = handling \ {q} /\ q.step = "provision"
  BY DEF Provision
<1>3. PICK id : id = Cardinality(agents) + 1 /\ id \in Nat \ {0}
  BY <1>1, FS_CardinalityType, SMTT(60) DEF TypeInv
<1>4. \A a \in agents : a.session \in Sessions
  BY <1>1 DEF TypeInv, Agent
<1>5. CASE q.saw = "open" /\ signed /\ CompleteContactedSession(q.session)
  <2>1. PICK row : row = [id |-> id, session |-> q.session, key |-> <<q.from, q.key>>]
    BY ZenonT(60)
  <2>2. row \in Agent /\ row.id = id /\ row.session = q.session /\ row.key = <<q.from, q.key>>
    BY <1>1, <1>3, <2>1 DEF Agent
  <2>3. /\ sessions' = [sessions EXCEPT ![q.session].state = "provisioned", ![q.session].secret = NoSession,
                                        ![q.session].agent = id]
        /\ agents' = agents \cup {row}
        /\ Answer(q, ProvisionAccepted(boot[q.from], id))
    BY <1>3, <1>5, <2>1 DEF Provision, HandleProvision
  <2>0. PICK n : n = ProvisionAccepted(boot[q.from], id)
    OBVIOUS
  <2>4. /\ n \in Boot /\ n.pc = "write" /\ n.boots = boot[q.from].boots /\ n.agent = id
        /\ n.key = boot[q.from].key /\ n.wrote = boot[q.from].wrote
    BY <1>1, <1>3, <2>0, ZenonT(60) DEF ProvisionAccepted, Boot, PCs
  <2>5. Waits(q) => Knows(n, token[q.from]) /\ Files(q.from, n, stateDir[q.from], agents')
    <3> SUFFICES ASSUME Waits(q) PROVE Knows(n, token[q.from]) /\ Files(q.from, n, stateDir[q.from], agents')
      OBVIOUS
    <3>1. boot[q.from].pc = "provision" /\ boot[q.from].boots = q.boot
      BY <1>2, SMTT(60) DEF Waits
    <3>2. /\ Knows(boot[q.from], token[q.from]) /\ Files(q.from, boot[q.from], stateDir[q.from], agents)
          /\ Carries(q, boot[q.from])
      BY <1>1, SMTT(60) DEF BootsInv
    <3>3. q.key = n.key /\ n.key # 0 /\ n.wrote = 0 /\ Empty(stateDir[q.from]) /\ n.boots # 0
      BY <1>2, <2>4, <3>1, <3>2, SMTT(60) DEF Carries, Files, Knows
    <3>4. Issued(q.from, n.agent, n.key, agents')
      BY <2>2, <2>3, <2>4, <3>3, SMTT(60) DEF Issued
    <3>5. Knows(n, token[q.from])
      BY <2>4, <3>3, SMTT(60) DEF Knows
    <3> QED BY <1>3, <2>4, <3>3, <3>4, <3>5 DEF Files, Written, Empty
  <2>6. BootsInv' /\ boot' \in [Containers -> Boot]
    BY <1>1, <1>2, <2>0, <2>3, <2>4, <2>5, AnswerStep, ZenonT(60)
  <2>7. sessions' \in [Sessions -> Session]
    BY <1>1, <1>3, <2>3, SMTT(60) DEF TypeInv, Session
  <2>8. TypeInv'
    BY <1>1, <1>2, <2>2, <2>3, <2>6, <2>7, FS_AddElement, SMTT(60) DEF TypeInv
  <2>9. /\ sessions'[q.session].state = "provisioned" /\ sessions'[q.session].burned = sessions[q.session].burned
        /\ sessions'[q.session].agent = id
        /\ \A x \in Sessions \ {q.session} : sessions'[x] = sessions[x]
    BY <1>1, <1>3, <2>3, SMTT(60) DEF TypeInv, Session
  <2>10. sessions[q.session].burned /\ \A a \in agents : a.session # q.session
    BY <1>1, <1>5, SMTT(60) DEF EnrolmentInv, UsedUp, CompleteContactedSession
  <2>11. UsedUp' /\ OneAgentPerSession'
    <3>1. \A a \in agents : sessions'[a.session] = sessions[a.session]
      BY <1>4, <2>9, <2>10, SMTT(60)
    <3>2. UsedUp'
      BY <1>1, <2>2, <2>3, <2>9, <2>10, <3>1, ZenonT(60) DEF EnrolmentInv, UsedUp
    <3>3. ASSUME NEW a \in agents'
          PROVE  /\ sessions'[a.session].agent = a.id
                 /\ \A b \in agents' : b.session = a.session => b = a
      <4>1. CASE a = row
        BY <2>2, <2>3, <2>9, <2>10, <4>1, ZenonT(60)
      <4>2. CASE a \in agents
        <5>1. sessions[a.session].agent = a.id /\ \A b \in agents : b.session = a.session => b = a
          BY <4>2 DEF EnrolmentInv, OneAgentPerSession
        <5>2. row.session # a.session
          BY <2>2, <2>10, <4>2
        <5> QED BY <2>3, <3>1, <4>2, <5>1, <5>2, ZenonT(60)
      <4> QED BY <2>3, <4>1, <4>2
    <3> QED BY <3>2, <3>3, SMTT(60) DEF OneAgentPerSession
  <2> QED BY <2>6, <2>8, <2>11, SMTT(60) DEF EnrolmentInv
<1>6. CASE ~ (q.saw = "open" /\ signed /\ CompleteContactedSession(q.session))
  <2>1. /\ UNCHANGED agents /\ Answer(q, Refuse(boot[q.from]))
        /\ UNCHANGED sessions \/ sessions' = [sessions EXCEPT ![q.session].state = "expired"]
    BY <1>6 DEF Provision, HandleProvision
  <2>2. Refuse(boot[q.from]) \in Boot /\ Refuse(boot[q.from]).pc = "down"
        /\ Refuse(boot[q.from]).boots = boot[q.from].boots
    BY <1>1, BootForms, ZenonT(60)
  <2>3. Knows(Refuse(boot[q.from]), token[q.from])
        /\ Files(q.from, Refuse(boot[q.from]), stateDir[q.from], agents')
    BY <1>1, <2>1, <2>2, EndedBoot, SMTT(60)
  <2>4. BootsInv' /\ boot' \in [Containers -> Boot]
    BY <1>1, <1>2, <2>1, <2>2, <2>3, AnswerStep
  <2>5. /\ sessions' \in [Sessions -> Session]
        /\ \A x \in Sessions : /\ sessions'[x].burned = sessions[x].burned /\ sessions'[x].agent = sessions[x].agent
                               /\ sessions'[x].state \in {sessions[x].state, "expired"}
    BY <1>1, <2>1, SMTT(60) DEF TypeInv, Session
  <2>6. TypeInv'
    BY <1>1, <1>2, <2>1, <2>4, <2>5 DEF TypeInv
  <2>7. UsedUp' /\ OneAgentPerSession'
    BY <1>4, <2>1, <2>5, SMTT(60) DEF EnrolmentInv, UsedUp, OneAgentPerSession
  <2> QED BY <2>4, <2>6, <2>7 DEF EnrolmentInv
<1> QED BY <1>5, <1>6, SMTT(60)

\* The steps of the agent leave the tables alone.
LEMMA AgentStep ==
    ASSUME EnrolmentInv, NEW c \in Containers, NEW n \in Boot, NEW d \in Dir,
           boot' = [boot EXCEPT ![c] = n], stateDir' = [stateDir EXCEPT ![c] = d],
           UNCHANGED <<sessions, agents, token>>,
           Knows(n, token[c]), Files(c, n, d, agents),
           \A q \in handling : q.from = c => Carries(q, n),
           \A q \in handling' : q \in handling \/ (q \in Request /\ Carries(q, boot'[q.from]))
    PROVE  EnrolmentInv'
<1>1. BootsInv'
  BY OneBoot, ZenonT(60) DEF EnrolmentInv
<1>2. TypeInv'
  BY DEF EnrolmentInv, TypeInv
<1>3. UsedUp' /\ OneAgentPerSession'
  BY DEF EnrolmentInv, UsedUp, OneAgentPerSession
<1> QED BY <1>1, <1>2, <1>3, SMTT(60) DEF EnrolmentInv

\* The key is staged before it is used, and is never none.
LEMMA KeyStep ==
    ASSUME EnrolmentInv, NEW c \in Containers, LoadOrGeneratePendingKey(c)
    PROVE  EnrolmentInv'
<1>0. TypeInv /\ BootsInv
  BY DEF EnrolmentInv
<1>1. PICK key, d, n :
         /\ key = IF stateDir[c]["pending"] # NoFile THEN stateDir[c]["pending"] ELSE boot[c].boots
         /\ d = [stateDir[c] EXCEPT !["pending"] = key]
         /\ n = [boot[c] EXCEPT !.pc = "provision", !.key = key]
  BY ZenonT(60)
<1>2. boot[c] \in Boot /\ stateDir[c] \in Dir /\ boot[c].pc = "key" /\ boot[c].boots \in Nat
  BY <1>0 DEF TypeInv, Boot, LoadOrGeneratePendingKey
<1>3. key \in Nat \ {0}
  <2>1. boot[c].boots # 0 /\ stateDir[c]["pending"] \in Nat
    BY <1>0, <1>2, SMTT(60) DEF BootsInv, Knows, Dir
  <2> QED BY <1>1, <1>2, <2>1, SMTT(60) DEF NoFile
<1>4. /\ n \in Boot /\ n.pc = "provision" /\ n.key = key /\ n.boots = boot[c].boots /\ n.wrote = boot[c].wrote
      /\ n.secret = boot[c].secret
  BY <1>1, <1>2, <1>3, ZenonT(60) DEF Boot, PCs
<1>5. d \in Dir /\ d["cert"] = stateDir[c]["cert"] /\ d["key"] = stateDir[c]["key"] /\ d["token"] = stateDir[c]["token"]
  BY <1>1, <1>2, <1>3, FilesAre DEF Dir
<1>6. /\ boot' = [boot EXCEPT ![c] = n] /\ stateDir' = [stateDir EXCEPT ![c] = d]
      /\ UNCHANGED <<sessions, agents, handling, token>>
  BY <1>0, <1>1, ZenonT(60) DEF LoadOrGeneratePendingKey, TypeInv
<1>7. Knows(n, token[c]) /\ Files(c, n, d, agents)
  BY <1>0, <1>2, <1>3, <1>4, <1>5 DEF BootsInv, Knows, Files, Empty, Whole
<1>8. \A q \in handling : q.from = c => Carries(q, n)
  BY <1>0, <1>2, <1>4, SMTT(60) DEF BootsInv, Carries
<1> QED BY <1>4, <1>5, <1>6, <1>7, <1>8, AgentStep, ZenonT(60)

\* The three files, in order.
LEMMA WriteStep ==
    ASSUME EnrolmentInv, NEW c \in Containers, WriteState(c)
    PROVE  EnrolmentInv'
<1>0. TypeInv /\ BootsInv
  BY DEF EnrolmentInv
<1>1. PICK i, data, d, n :
         /\ i = boot[c].wrote + 1
         /\ data = IF FileOrder[i] = "key" THEN boot[c].key ELSE boot[c].agent
         /\ d = [stateDir[c] EXCEPT ![FileOrder[i]] = data]
         /\ n = [boot[c] EXCEPT !.wrote = i, !.pc = IF i = Len(FileOrder) THEN "cleanup" ELSE "write"]
  BY ZenonT(60)
<1>2. /\ boot[c] \in Boot /\ stateDir[c] \in Dir /\ boot[c].pc = "write"
      /\ boot[c].boots \in Nat /\ boot[c].key \in Nat /\ boot[c].agent \in Nat
  BY <1>0, SMTT(60) DEF TypeInv, Boot, WriteState
<1>3. /\ boot[c].key # 0 /\ boot[c].agent # 0 /\ Issued(c, boot[c].agent, boot[c].key, agents)
      /\ Written(boot[c], stateDir[c]) /\ boot[c].boots # 0
  BY <1>0, <1>2, SMTT(60) DEF BootsInv, Files, Knows
<1>4. i \in 1..3
  BY <1>1, <1>3, SMTT(60) DEF Written
<1>5. /\ n \in Boot /\ n.wrote = i /\ n.boots = boot[c].boots /\ n.key = boot[c].key /\ n.agent = boot[c].agent
      /\ n.pc = IF i = 3 THEN "cleanup" ELSE "write"
  <2>1. PICK p \in PCs : p = (IF i = 3 THEN "cleanup" ELSE "write") /\ n = [boot[c] EXCEPT !.wrote = i, !.pc = p]
    BY <1>1, FilesAre, ZenonT(60) DEF PCs
  <2>2. i \in Nat
    BY <1>4
  <2> QED BY <1>2, <2>1, <2>2, ZenonT(60) DEF Boot
<1>6. /\ boot' = [boot EXCEPT ![c] = n] /\ stateDir' = [stateDir EXCEPT ![c] = d]
      /\ UNCHANGED <<sessions, agents, handling, token>>
  BY <1>0, <1>1, ZenonT(60) DEF WriteState, TypeInv
<1>7. d \in Dir /\ Files(c, n, d, agents)
  <2>1. CASE i = 1
    <3>1. boot[c].wrote = 0 /\ Empty(stateDir[c])
      BY <1>1, <1>3, <2>1 DEF Written
    <3>2. d \in Dir /\ d["cert"] = n.agent /\ d["key"] = 0 /\ d["token"] = 0
      BY <1>1, <1>2, <1>5, <2>1, <3>1, FilesAre DEF Dir, Empty
    <3> QED BY <1>3, <1>5, <2>1, <3>2 DEF Files, Written
  <2>2. CASE i = 2
    <3>1. stateDir[c]["cert"] = boot[c].agent /\ stateDir[c]["token"] = 0
      BY <1>1, <1>3, <2>2, SMTT(60) DEF Written
    <3>2. d \in Dir /\ d["cert"] = n.agent /\ d["key"] = n.key /\ d["token"] = 0
      BY <1>1, <1>2, <1>5, <2>2, <3>1, FilesAre, SMTT(60) DEF Dir
    <3> QED BY <1>3, <1>5, <2>2, <3>2, SMTT(60) DEF Files, Written
  <2>3. CASE i = 3
    <3>1. stateDir[c]["cert"] = boot[c].agent /\ stateDir[c]["key"] = boot[c].key
      BY <1>1, <1>3, <2>3, SMTT(60) DEF Written
    <3>2. d \in Dir /\ d["cert"] = n.agent /\ d["key"] = n.key /\ d["token"] = n.agent
      BY <1>1, <1>2, <1>5, <2>3, <3>1, FilesAre, SMTT(60) DEF Dir
    <3> QED BY <1>3, <1>5, <2>3, <3>2, SMTT(60) DEF Files, Whole
  <2> QED BY <1>4, <2>1, <2>2, <2>3
<1>8. Knows(n, token[c]) /\ \A q \in handling : q.from = c => Carries(q, n)
  BY <1>0, <1>2, <1>3, <1>5, SMTT(60) DEF BootsInv, Knows, Carries
<1> QED BY <1>5, <1>6, <1>7, <1>8, AgentStep, ZenonT(60)

\* The staged key goes, or stays.
LEMMA DoneStep ==
    ASSUME EnrolmentInv, NEW c \in Containers, NEW removed \in BOOLEAN, EnrolAtBootDone(c, removed)
    PROVE  EnrolmentInv'
<1>0. TypeInv /\ BootsInv
  BY DEF EnrolmentInv
<1>1. PICK d, n : /\ d = [stateDir[c] EXCEPT !["pending"] = IF removed THEN NoFile ELSE @]
                  /\ n = [boot[c] EXCEPT !.pc = "up"]
  BY ZenonT(60)
<1>2. boot[c] \in Boot /\ stateDir[c] \in Dir /\ boot[c].pc = "cleanup"
  BY <1>0 DEF TypeInv, EnrolAtBootDone
<1>3. n \in Boot /\ n.pc = "up" /\ n.boots = boot[c].boots
  BY <1>1, <1>2 DEF Boot, PCs
<1>4. d \in Dir /\ d["cert"] = stateDir[c]["cert"] /\ d["key"] = stateDir[c]["key"] /\ d["token"] = stateDir[c]["token"]
  BY <1>1, <1>2, FilesAre DEF Dir, NoFile
<1>5. /\ boot' = [boot EXCEPT ![c] = n] /\ stateDir' = [stateDir EXCEPT ![c] = d]
      /\ UNCHANGED <<sessions, agents, handling, token>>
  BY <1>0, <1>1, SMTT(60) DEF EnrolAtBootDone, TypeInv
<1>6. Knows(n, token[c]) /\ Files(c, n, d, agents) /\ \A q \in handling : q.from = c => Carries(q, n)
  BY <1>0, <1>2, <1>3, <1>4, SMTT(60) DEF BootsInv, Knows, Files, Whole, Carries
<1> QED BY <1>3, <1>4, <1>5, <1>6, AgentStep, ZenonT(60)

\* The invariant holds in every state.
LEMMA Invariant == EnrolmentSpec => []EnrolmentInv
<1>1. EnrolmentInit => EnrolmentInv
  <2> SUFFICES ASSUME EnrolmentInit PROVE EnrolmentInv
    BY SMTT(60)
  <2>1. Down \in Boot /\ Down.pc = "down"
    BY DownForms, ZenonT(60)
  <2>2. \A c \in Containers : boot[c] = Down /\ stateDir[c] \in Dir /\ Empty(stateDir[c])
    BY FilesAre, SMTT(60) DEF EnrolmentInit, Dir, NoFile, Empty
  <2>3. TypeInv
    BY <2>1, <2>2, FS_EmptySet, SMTT(60) DEF EnrolmentInit, TypeInv, Session
  <2>4. BootsInv
    BY <2>1, <2>2, SMTT(60) DEF EnrolmentInit, BootsInv, Knows, Files, Empty
  <2>5. UsedUp /\ OneAgentPerSession
    BY SMTT(60) DEF EnrolmentInit, UsedUp, OneAgentPerSession
  <2> QED BY <2>3, <2>4, <2>5 DEF EnrolmentInv
<1>2. EnrolmentInv /\ [EnrolmentNext]_enrolmentVars => EnrolmentInv'
  <2> SUFFICES ASSUME EnrolmentInv, [EnrolmentNext]_enrolmentVars PROVE EnrolmentInv'
    OBVIOUS
  <2>0. TypeInv /\ BootsInv
    BY DEF EnrolmentInv
  <2>1. ASSUME NEW s \in Sessions, MintEnrolmentSession(s)
        PROVE  EnrolmentInv'
    <3>1. /\ sessions' \in [Sessions -> Session]
          /\ \A x \in Sessions : /\ sessions'[x].burned = sessions[x].burned /\ sessions'[x].agent = sessions[x].agent
                                 /\ sessions'[x].state \in {sessions[x].state, "minted"}
      BY <2>0, <2>1 DEF MintEnrolmentSession, TypeInv, Session
    <3>2. UNCHANGED <<agents, handling, boot, token, stateDir>>
      BY <2>1 DEF MintEnrolmentSession
    <3>3. \A a \in agents : a.session \in Sessions
      BY <2>0, SMTT(60) DEF TypeInv, Agent
    <3>4. UsedUp' /\ OneAgentPerSession'
      BY <3>1, <3>2, <3>3, SMTT(60) DEF EnrolmentInv, UsedUp, OneAgentPerSession
    <3>5. TypeInv' /\ BootsInv'
      BY <2>0, <3>1, <3>2, SMTT(60) DEF TypeInv, BootsInv
    <3> QED BY <3>4, <3>5 DEF EnrolmentInv
  <2>2. ASSUME NEW c \in Containers, NEW s \in Sessions, RunContainer(c, s)
        PROVE  EnrolmentInv'
    <3>1. /\ boot[c].pc = "down" /\ token' = [token EXCEPT ![c] = s]
          /\ UNCHANGED <<sessions, agents, handling, boot, stateDir>>
      BY <2>2, SMTT(60) DEF RunContainer
    <3>2. TypeInv' /\ UsedUp' /\ OneAgentPerSession'
      BY <3>1, SMTT(60) DEF EnrolmentInv, TypeInv, UsedUp, OneAgentPerSession
    <3>3. BootsInv'
      BY <2>0, <3>1, SMTT(60) DEF TypeInv, BootsInv, Knows
    <3> QED BY <3>2, <3>3, SMTT(60) DEF EnrolmentInv
  <2>3. ASSUME NEW q \in handling, LoseRequest(q)
        PROVE  EnrolmentInv'
    BY <2>3 DEF LoseRequest, EnrolmentInv, TypeInv, BootsInv, UsedUp, OneAgentPerSession
  <2>4. ASSUME NEW c \in Containers, EnsureEnrolled(c)
        PROVE  EnrolmentInv'
    <3>1. boot[c] \in Boot /\ boot[c].boots \in Nat /\ stateDir[c] \in Dir
      BY <2>0 DEF TypeInv, Boot
    <3>p. PICK p \in {"up", "hello", "refused"} :
            /\ boot' = [boot EXCEPT ![c] = [Down EXCEPT !.boots = boot[c].boots + 1, !.pc = p]]
            /\ p = "up" => Present(c) = StateFiles
            /\ p = "hello" => Present(c) = {}
      BY <2>4, ZenonT(60) DEF EnsureEnrolled
    <3>n. PICK n : n = [Down EXCEPT !.boots = boot[c].boots + 1, !.pc = p]
      BY ZenonT(60)
    <3>2. /\ n = [Down EXCEPT !.boots = boot[c].boots + 1, !.pc = p]
          /\ boot' = [boot EXCEPT ![c] = n]
          /\ p = "up" => Present(c) = StateFiles
          /\ p = "hello" => Present(c) = {}
      BY <3>p, <3>n, ZenonT(60)
    <3>3. n \in Boot /\ n.pc = p /\ n.boots = boot[c].boots + 1 /\ n.wrote = 0
      <4>1. boot[c].boots + 1 \in Nat /\ p \in PCs
        BY <3>1, SMTT(60) DEF PCs
      <4>2. PICK k \in Nat : k = boot[c].boots + 1
        BY <4>1
      <4>3. LET e == [Down EXCEPT !.boots = k, !.pc = p]
            IN  e \in Boot /\ e.pc = p /\ e.boots = k /\ e.wrote = 0
        BY <4>1, ZenonT(60) DEF Down, Boot
      <4> QED BY <3>2, <4>2, <4>3, SMTT(60)
    <3>4. /\ p = "hello" => Empty(stateDir[c])
          /\ p = "up" => stateDir[c]["cert"] # 0 /\ stateDir[c]["key"] # 0 /\ stateDir[c]["token"] # 0
      BY <3>2, FilesAre DEF Present, NoFile, Empty
    <3>5. token[c] \in Sessions
      BY <2>0, <2>4 DEF EnsureEnrolled, TypeInv
    <3>6. Knows(n, token[c]) /\ Files(c, n, stateDir[c], agents)
      BY <2>0, <3>1, <3>2, <3>3, <3>4, <3>5 DEF Knows, Files, BootsInv
    <3>7. \A q \in handling : q.from = c => Carries(q, n)
      <4>1. \A q \in handling : q.boot \in Nat
        BY <2>0 DEF TypeInv, Request
      <4> QED BY <2>0, <3>1, <3>3, <4>1 DEF BootsInv, Carries
    <3>8. UNCHANGED <<sessions, agents, handling, token>> /\ stateDir' = [stateDir EXCEPT ![c] = stateDir[c]]
      BY <2>0, <2>4, SMTT(60) DEF EnsureEnrolled, TypeInv
    <3> QED BY <3>1, <3>2, <3>3, <3>6, <3>7, <3>8, AgentStep, ZenonT(60)
  <2>5. ASSUME NEW c \in Containers, RetryEnrolStep(c)
        PROVE  EnrolmentInv'
    <3>1. boot[c] \in Boot /\ stateDir[c] \in Dir /\ boot[c].pc \in {"hello", "provision"}
      BY <2>0, <2>5 DEF TypeInv, RetryEnrolStep
    <3>2. PICK n : n = [boot[c] EXCEPT !.try = @ + 1]
      BY ZenonT(60)
    <3>3. /\ n \in Boot /\ n.pc = boot[c].pc /\ n.boots = boot[c].boots /\ n.secret = boot[c].secret
          /\ n.key = boot[c].key /\ n.agent = boot[c].agent /\ n.wrote = boot[c].wrote
      BY <3>1, <3>2 DEF Boot
    <3>4. /\ boot' = [boot EXCEPT ![c] = n] /\ stateDir' = [stateDir EXCEPT ![c] = stateDir[c]]
          /\ UNCHANGED <<sessions, agents, token>>
      BY <2>0, <2>5, <3>2 DEF RetryEnrolStep, TypeInv
    <3>5. Knows(n, token[c]) /\ Files(c, n, stateDir[c], agents) /\ \A q \in handling : q.from = c => Carries(q, n)
      BY <2>0, <3>3, SMTT(60) DEF BootsInv, Knows, Files, Written, Carries
    <3>6. PICK r : /\ r = [from |-> c, step |-> boot[c].pc, try |-> boot[c].try + 1, boot |-> boot[c].boots,
                           saw |-> "nothing", session |-> IF boot[c].pc = "hello" THEN token[c] ELSE boot[c].secret,
                           key |-> boot[c].key]
                   /\ handling' = handling \cup {r}
      BY <2>5, ZenonT(60) DEF RetryEnrolStep
    <3>7. (IF boot[c].pc = "hello" THEN token[c] ELSE boot[c].secret) \in Sessions
      BY <2>0, <3>1 DEF BootsInv, Knows
    <3>8. /\ r \in Request /\ r.from = c /\ r.boot = boot[c].boots /\ r.step = boot[c].pc /\ r.key = boot[c].key
      BY <3>1, <3>6, <3>7 DEF Request, Boot
    <3>9. Carries(r, boot'[r.from])
      <4>1. boot'[r.from] = n /\ boot[c].boots \in Nat
        BY <2>0, <3>1, <3>4, <3>8, SMTT(60) DEF TypeInv, Boot
      <4> QED BY <3>1, <3>3, <3>8, <4>1, SMTT(60) DEF Carries
    <3> QED BY <3>1, <3>3, <3>4, <3>5, <3>6, <3>8, <3>9, AgentStep, ZenonT(60)
  <2>6. ASSUME NEW c \in Containers, GiveUp(c) \/ AgentCrash(c)
        PROVE  EnrolmentInv'
    <3>1. boot[c] \in Boot /\ boot[c].boots \in Nat /\ stateDir[c] \in Dir
      BY <2>0 DEF TypeInv, Boot
    <3>2. PICK n : /\ boot' = [boot EXCEPT ![c] = n]
                   /\ n = Refuse(boot[c]) \/ n = [Down EXCEPT !.boots = boot[c].boots]
      <4>1. CASE GiveUp(c)
        BY <2>0, <4>1, ZenonT(60) DEF GiveUp, Refuse, TypeInv
      <4>2. CASE AgentCrash(c)
        BY <4>2, ZenonT(60) DEF AgentCrash
      <4> QED BY <2>6, <4>1, <4>2
    <3>3. n \in Boot /\ n.pc = "down" /\ n.boots = boot[c].boots
      <4>1. CASE n = Refuse(boot[c])
        BY <3>1, <4>1, BootForms, ZenonT(60)
      <4>2. CASE n = [Down EXCEPT !.boots = boot[c].boots]
        BY <3>1, <4>2, DownForms, ZenonT(60)
      <4> QED BY <3>2, <4>1, <4>2
    <3>4. Knows(n, token[c]) /\ Files(c, n, stateDir[c], agents)
      BY <2>0, <3>3, EndedBoot, SMTT(60)
    <3>5. \A q \in handling : q.from = c => Carries(q, n)
      BY <2>0, <3>3, SMTT(60) DEF BootsInv, Carries
    <3>6. UNCHANGED <<sessions, agents, handling, token>> /\ stateDir' = [stateDir EXCEPT ![c] = stateDir[c]]
      BY <2>0, <2>6, SMTT(60) DEF GiveUp, AgentCrash, TypeInv
    <3> QED BY <3>1, <3>2, <3>3, <3>4, <3>5, <3>6, AgentStep, ZenonT(60)
  <2>7. ASSUME NEW c \in Containers, LoadOrGeneratePendingKey(c)
        PROVE  EnrolmentInv'
    BY <2>7, KeyStep, SMTT(60)
  <2>8. ASSUME NEW c \in Containers, WriteState(c)
        PROVE  EnrolmentInv'
    BY <2>8, WriteStep, SMTT(60)
  <2>9. ASSUME NEW c \in Containers, NEW removed \in BOOLEAN, EnrolAtBootDone(c, removed)
        PROVE  EnrolmentInv'
    BY <2>9, DoneStep, SMTT(60)
  <2>10. CASE UNCHANGED enrolmentVars
    BY <2>10 DEF enrolmentVars, EnrolmentInv, TypeInv, BootsInv, UsedUp, OneAgentPerSession
  <2> QED
    BY <2>1, <2>2, <2>3, <2>4, <2>5, <2>6, <2>7, <2>8, <2>9, <2>10, ReadStep, ContactStep, ProvisionStep, SMTT(60)
       DEF EnrolmentNext
<1> QED BY <1>1, <1>2, PTL DEF EnrolmentSpec

\* A deploy token enrols at most one agent and its session names that agent:
\* for any number of containers started with it, of retries, crashes and
\* requests that finish late.
THEOREM SessionsEnrolOnce == EnrolmentSpec => []OneAgentPerSession
<1>1. EnrolmentInv => OneAgentPerSession
  BY DEF EnrolmentInv
<1> QED BY <1>1, Invariant, PTL

\* An agent that runs has the certificate and the token of one agent row and
\* the key that row's certificate was signed for, wherever earlier boots were
\* cut off and whatever request of theirs was still under way.
THEOREM StateIsWhole == EnrolmentSpec => []EnrolledStateIsWhole
<1>1. EnrolmentInv => EnrolledStateIsWhole
  BY SMTT(60) DEF EnrolmentInv, BootsInv, Files, Whole, Issued, EnrolledStateIsWhole
<1> QED BY <1>1, Invariant, PTL
=============================================================================
