----------------------------- MODULE Enrolment -----------------------------
(***************************************************************************)
(* Enrolment: a deploy token minted on the command line is exchanged by an *)
(* agent's first boot for a secret (POST /enrol/hello) and the secret for  *)
(* a client certificate and a bearer token (POST /enrol/provision).        *)
(*                                                                         *)
(* Both handlers are transactions that read the session and then update it *)
(* under a guard; two of them may be between the read and the update at    *)
(* once.  The agent retries a step whose answer it never got, so a request *)
(* the agent has given up on may still be running; it may also crash at    *)
(* any point and boot again from what its state directory holds.  The two  *)
(* deadlines may have passed at any read of the session.                   *)
(***************************************************************************)
EXTENDS Naturals, FiniteSets, Sequences

CONSTANTS
    Sessions,     \* enrolment sessions, one deploy token each
    Containers,   \* agents booting with a deploy token
    MaxTries,     \* requests one boot sends before retryEnrolStep gives up
    MaxBoots,     \* boots of one container
    MaxHandling,  \* requests under way at once
    NoSession

VARIABLES
    sessions,     \* enrolment_sessions
    agents,       \* agents rows: [id, session, key]
    handling,     \* requests birdcage is working on
    boot,         \* per container: the running boot
    token,        \* per container: the deploy token in its environment
    stateDir      \* per container: the files of its state directory

enrolmentVars == <<sessions, agents, handling, boot, token, stateDir>>

FileOrder == <<"cert", "key", "token">>   \* writeEnrolmentState
StateFiles == {FileOrder[i] : i \in 1..Len(FileOrder)}
NoFile == 0
Keys == 0..MaxBoots     \* the key a container generated in its n-th boot
AgentIDs == 0..(Cardinality(Containers) * MaxBoots)
Down == [pc |-> "down", boots |-> 0, try |-> 0, secret |-> NoSession, key |-> 0, agent |-> 0, wrote |-> 0]

EnrolmentTypeOK ==
    /\ sessions \in [Sessions -> [state : {"absent", "minted", "contacted", "provisioned", "expired"},
                                  burned : BOOLEAN, secret : Containers \cup {NoSession}, agent : AgentIDs]]
    /\ \A a \in agents : a.id \in AgentIDs \ {0} /\ a.session \in Sessions /\ a.key \in Containers \X Keys
    /\ \A q \in handling : /\ q.from \in Containers /\ q.step \in {"hello", "provision"} /\ q.try \in 1..MaxTries
                           /\ q.saw \in {"nothing", "open", "late"} /\ q.session \in Sessions
    /\ \A c \in Containers : /\ boot[c].pc \in 
                                   {"down", "hello", "key", "provision", "write", "cleanup", "up", "refused"}
                             /\ boot[c].boots \in 0..MaxBoots /\ boot[c].try \in 0..MaxTries
    /\ token \in [Containers -> Sessions \cup {NoSession}]

EnrolmentInit ==
    /\ sessions = [s \in Sessions |-> [state |-> "absent", burned |-> FALSE, secret |-> NoSession, agent |-> 0]]
    /\ agents = {} /\ handling = {}
    /\ boot = [c \in Containers |-> Down]
    /\ token = [c \in Containers |-> NoSession]
    /\ stateDir = [c \in Containers |-> [f \in StateFiles \cup {"pending"} |-> NoFile]]

(* birdcage agent enrol mints a session and prints the run command.        *)
MintEnrolmentSession(s) ==
    /\ sessions[s].state = "absent"
    /\ sessions' = [sessions EXCEPT ![s].state = "minted"]
    /\ UNCHANGED <<agents, handling, boot, token, stateDir>>

(* The operator starts a container with a printed token, possibly one that *)
(* already runs elsewhere, or starts a stopped one with a newer token.     *)
RunContainer(c, s) ==
    /\ boot[c].pc = "down" /\ sessions[s].state # "absent" /\ token[c] # s
    /\ token' = [token EXCEPT ![c] = s]
    /\ UNCHANGED <<sessions, agents, handling, boot, stateDir>>

-----------------------------------------------------------------------------
(* The answer reaches the container only if it still waits for this try.   *)
Waits(q) == boot[q.from].pc = q.step /\ boot[q.from].boots = q.boot /\ boot[q.from].try = q.try

Answer(q, b) == boot' = IF Waits(q) THEN [boot EXCEPT ![q.from] = b] ELSE boot

Refuse(b) == [b EXCEPT !.pc = "down"]   \* ErrRefused is not retryable: the boot fails

(* What the agent makes of an accepted answer: enrol.FirstContact returns  *)
(* the secret, enrol.Provision the credentials.                            *)
HelloAccepted(b, s) == [b EXCEPT !.pc = "key", !.try = 0, !.secret = s]
ProvisionAccepted(b, id) == [b EXCEPT !.pc = "write", !.agent = id]

(* handleHello and handleProvision: how a finished request is answered.    *)
(* The settings respondContacted reads after the burn may fail, which      *)
(* answers 503 and loses the secret.                                       *)
HandleHello(q, won, answered) ==
    Answer(q, IF won /\ answered THEN HelloAccepted(boot[q.from], q.session) ELSE Refuse(boot[q.from]))
HandleProvision(q, won, id) ==
    Answer(q, IF won THEN ProvisionAccepted(boot[q.from], id) ELSE Refuse(boot[q.from]))

(* store.FirstContact: the read.  A burned session, or one past its first- *)
(* contact deadline, is refused (the latter also marked expired).          *)
FirstContactRead(q, late) ==
    /\ q \in handling /\ q.step = "hello" /\ q.saw = "nothing"
    /\ \/ /\ sessions[q.session].burned
          /\ handling' = handling \ {q}
          /\ Answer(q, Refuse(boot[q.from]))
       \/ /\ ~ sessions[q.session].burned
          /\ handling' = (handling \ {q}) \cup {[q EXCEPT !.saw = IF late THEN "late" ELSE "open"]}
          /\ UNCHANGED boot
    /\ UNCHANGED <<sessions, agents, token, stateDir>>

(* store.FirstContact: the guarded update, and the answer.                 *)
FirstContact(q, answered) ==
    /\ q \in handling /\ q.step = "hello" /\ q.saw \in {"open", "late"}
    /\ LET s == q.session
           won == ~ sessions[s].burned /\ q.saw = "open" IN
       /\ sessions' = IF sessions[s].burned THEN sessions
                      ELSE IF won THEN [sessions EXCEPT ![s].burned = TRUE, ![s].state = "contacted",
                                                        ![s].secret = q.from]
                      ELSE [sessions EXCEPT ![s].state = "expired"]
       /\ HandleHello(q, won, answered)
    /\ handling' = handling \ {q}
    /\ UNCHANGED <<agents, token, stateDir>>

(* store.Provision: the secret is looked up among the contacted sessions.  *)
ProvisionRead(q, late) ==
    /\ q \in handling /\ q.step = "provision" /\ q.saw = "nothing"
    /\ LET s == q.session
           known == sessions[s].state = "contacted" /\ sessions[s].secret = q.from IN
       \/ /\ ~ known
          /\ handling' = handling \ {q}
          /\ Answer(q, Refuse(boot[q.from]))
       \/ /\ known
          /\ handling' = (handling \ {q}) \cup {[q EXCEPT !.saw = IF late THEN "late" ELSE "open"]}
          /\ UNCHANGED boot
    /\ UNCHANGED <<sessions, agents, token, stateDir>>

CompleteWhenRead(s) == TRUE                                       \* without the guard

(* completeContactedSession's guard.                                       *)
CompleteContactedSession(s) == sessions[s].state = "contacted"

(* store.Provision: the writes, all in the transaction that read.  The     *)
(* agent row, its certificate and its token stay only if the session could *)
(* still be completed; a session found past its window is marked expired   *)
(* whatever state it has by then.                                          *)
Provision(q, signed) ==
    /\ q \in handling /\ q.step = "provision" /\ q.saw \in {"open", "late"}
    /\ LET s == q.session
           id == Cardinality(agents) + 1
           won == q.saw = "open" /\ signed /\ CompleteContactedSession(s) IN
       /\ sessions' = IF won THEN [sessions EXCEPT ![s].state = "provisioned", ![s].secret = NoSession,
                                                   ![s].agent = id]
                      ELSE IF q.saw = "late" THEN [sessions EXCEPT ![s].state = "expired"]
                      ELSE sessions
       /\ agents' = IF won THEN agents \cup {[id |-> id, session |-> s, key |-> <<q.from, q.key>>]} ELSE agents
       /\ HandleProvision(q, won, id)
    /\ handling' = handling \ {q}
    /\ UNCHANGED <<token, stateDir>>

-----------------------------------------------------------------------------
Present(c) == {f \in StateFiles : stateDir[c][f] # NoFile}

EnsureEnrolledIfAny(c) ==   \* takes any file of an enrolment for all of it
    /\ boot[c].pc = "down" /\ boot[c].boots < MaxBoots /\ token[c] # NoSession
    /\ boot' = [boot EXCEPT ![c] = [Down EXCEPT !.boots = boot[c].boots + 1,
                     !.pc = IF Present(c) # {} THEN "up" ELSE "hello"]]
    /\ UNCHANGED <<sessions, agents, handling, token, stateDir>>

(* EnsureEnrolled: the state directory decides.  Complete: run; partly     *)
(* there: refuse to boot; empty: enrol.                                    *)
EnsureEnrolled(c) ==
    /\ boot[c].pc = "down" /\ boot[c].boots < MaxBoots /\ token[c] # NoSession
    /\ boot' = [boot EXCEPT ![c] = [Down EXCEPT !.boots = boot[c].boots + 1,
                     !.pc = IF Present(c) = StateFiles THEN "up"
                            ELSE IF Present(c) = {} THEN "hello" ELSE "refused"]]
    /\ UNCHANGED <<sessions, agents, handling, token, stateDir>>

(* retryEnrolStep: the next request of the step, the first one or another  *)
(* after a transport error; the earlier request may still be running.      *)
RetryEnrolStep(c) ==
    /\ boot[c].pc \in {"hello", "provision"} /\ boot[c].try < MaxTries /\ Cardinality(handling) < MaxHandling
    /\ boot' = [boot EXCEPT ![c].try = @ + 1]
    /\ handling' = handling \cup
         {[from |-> c, step |-> boot[c].pc, try |-> boot[c].try + 1, boot |-> boot[c].boots, saw |-> "nothing",
           session |-> IF boot[c].pc = "hello" THEN token[c] ELSE boot[c].secret, key |-> boot[c].key]}
    /\ UNCHANGED <<sessions, agents, token, stateDir>>

GiveUp(c) ==
    /\ boot[c].pc \in {"hello", "provision"} /\ boot[c].try = MaxTries
    /\ boot' = [boot EXCEPT ![c].pc = "down"]
    /\ UNCHANGED <<sessions, agents, handling, token, stateDir>>

(* A request that never arrives, or whose handler's transaction fails.     *)
LoseRequest(q) ==
    /\ handling' = handling \ {q}
    /\ UNCHANGED <<sessions, agents, boot, token, stateDir>>

(* The staged key of an earlier boot is used again, else one is generated  *)
(* and staged before the request that carries it.                          *)
LoadOrGeneratePendingKey(c) ==
    /\ boot[c].pc = "key"
    /\ LET key == IF stateDir[c]["pending"] # NoFile THEN stateDir[c]["pending"] ELSE boot[c].boots IN
       /\ boot' = [boot EXCEPT ![c].pc = "provision", ![c].key = key]
       /\ stateDir' = [stateDir EXCEPT ![c]["pending"] = key]
    /\ UNCHANGED <<sessions, agents, handling, token>>

(* writeState: one file after the other, each written whole.               *)
WriteState(c) ==
    /\ boot[c].pc = "write"
    /\ LET i == boot[c].wrote + 1
           data == IF FileOrder[i] = "key" THEN boot[c].key ELSE boot[c].agent IN
       /\ stateDir' = [stateDir EXCEPT ![c][FileOrder[i]] = data]
       /\ boot' = [boot EXCEPT ![c].wrote = i, ![c].pc = IF i = Len(FileOrder) THEN "cleanup" ELSE "write"]
    /\ UNCHANGED <<sessions, agents, handling, token>>

(* enrolAtBoot's last step removes the staged key, best effort.            *)
EnrolAtBootDone(c, removed) ==
    /\ boot[c].pc = "cleanup"
    /\ stateDir' = [stateDir EXCEPT ![c]["pending"] = IF removed THEN NoFile ELSE @]
    /\ boot' = [boot EXCEPT ![c].pc = "up"]
    /\ UNCHANGED <<sessions, agents, handling, token>>

(* The agent dies, or a write or a local step fails, which ends the boot.  *)
AgentCrash(c) ==
    /\ boot[c].pc # "down"
    /\ boot' = [boot EXCEPT ![c] = [Down EXCEPT !.boots = boot[c].boots]]
    /\ UNCHANGED <<sessions, agents, handling, token, stateDir>>

EnrolmentNext ==
    \/ \E s \in Sessions : MintEnrolmentSession(s)
    \/ \E c \in Containers, s \in Sessions : RunContainer(c, s)
    \/ \E q \in handling : LoseRequest(q)
    \/ \E q \in handling, late \in BOOLEAN : FirstContactRead(q, late) \/ ProvisionRead(q, late)
    \/ \E q \in handling, ok \in BOOLEAN : FirstContact(q, ok) \/ Provision(q, ok)
    \/ \E c \in Containers : \/ EnsureEnrolled(c) \/ RetryEnrolStep(c) \/ GiveUp(c)
                              \/ LoadOrGeneratePendingKey(c) \/ WriteState(c) \/ AgentCrash(c)
    \/ \E c \in Containers, removed \in BOOLEAN : EnrolAtBootDone(c, removed)

EnrolmentSpec == EnrolmentInit /\ [][EnrolmentNext]_enrolmentVars

-----------------------------------------------------------------------------
(* A deploy token enrols at most one agent, and the session names it: of   *)
(* any two requests carrying the same token or the same secret, retries    *)
(* and a second container with the same token included, the one that loses *)
(* the guarded update leaves no agent row and no credential behind.        *)
OneAgentPerSession ==
    \A a \in agents : /\ sessions[a.session].agent = a.id
                      /\ \A b \in agents : b.session = a.session => b = a

(* An agent runs only from one whole enrolment: the certificate and the    *)
(* token of one agent row, and the key that row's certificate was signed   *)
(* for, whatever was retried and wherever earlier boots were cut off.      *)
EnrolledStateIsWhole ==
    \A c \in Containers : boot[c].pc = "up" =>
        /\ stateDir[c]["cert"] = stateDir[c]["token"]
        /\ \E a \in agents : a.id = stateDir[c]["cert"] /\ a.key = <<c, stateDir[c]["key"]>>

=============================================================================
