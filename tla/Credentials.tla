---------------------------- MODULE Credentials ----------------------------
(***************************************************************************)
(* The credentials of one enrolled agent: its bearer token, replaced by    *)
(* POST /ingest/rotate, and its client certificate, replaced by POST       *)
(* /ingest/renew.  birdcage's side is internal/ingest/auth.go, rotate.go   *)
(* and renew.go over internal/store/token.go and clientcert.go; the        *)
(* agent's is cmd/mockingbird/rotate.go, internal/agent/renewal/manager.go *)
(* and internal/agent/client/client.go.                                    *)
(*                                                                         *)
(* Tokens and certificates are numbered in the order they were recorded.   *)
(* The rotation loop, the renewal tick and one other loop of the agent     *)
(* (events, heartbeats, commands) each have at most one request out.  A    *)
(* step of a request is one statement or transaction of the database.  The *)
(* two-file swap of RenewalSwap is one step here, which is what it         *)
(* implements (PairSwap).                                                  *)
(***************************************************************************)
EXTENDS Integers, FiniteSets

CONSTANTS
    MaxTokens,    \* bound: tokens ever minted
    MaxCerts,     \* bound: certificates ever issued
    MaxLate,      \* bound: requests birdcage goes on with after the agent gave up
    MaxFaults,    \* bound: transactions and file writes that fail
    MaxCrashes,   \* bound: deaths of the agent's process
    ClockSteps,   \* birdcage's wall clock may step back between two mints
    KeepAlive     \* the agent's idle connections are reused

ASSUME CredentialConstants ==
    /\ MaxTokens \in Nat \ {0}
    /\ MaxCerts \in Nat \ {0}
    /\ MaxLate \in Nat
    /\ MaxFaults \in Nat
    /\ MaxCrashes \in Nat
    /\ ClockSteps \in BOOLEAN
    /\ KeepAlive \in BOOLEAN

VARIABLES
    minted,      \* rows of agent_tokens
    liveTokens,  \* those with no revoked_at
    usedTokens,  \* those with a last_used_at
    stamp,       \* their created_at
    bound,       \* their cert_fingerprint, 0 for none
    issued,      \* rows of client_certs
    liveCerts,   \* those with no revoked_at
    usedCerts,   \* those with a first_used_at
    reqs,        \* requests under way
    token,       \* TokenStore.current
    tokenFile,   \* the token on disk
    rotator,     \* where rotate is
    newToken,    \* the token it was answered with
    cert,        \* what the client presents on a new connection
    certFile,    \* the pair a boot would load
    renewer,     \* where Manager.Tick is
    newCert,     \* the certificate it was answered with
    aged,        \* the last certificate known to be past its half-life
    pooled,      \* certificates that idle connections were opened with
    closing,     \* the transport closes connections that become idle
    faults,
    crashes

tokenRows == <<minted, liveTokens, usedTokens, stamp, bound>>
certRows  == <<issued, liveCerts, usedCerts>>
rotation  == <<token, tokenFile, rotator, newToken>>
renewal   == <<cert, certFile, renewer, newCert, aged>>
conns     == <<pooled, closing>>
vars == <<tokenRows, certRows, reqs, rotation, renewal, conns, faults, crashes>>

Tokens == 1..MaxTokens
Certs  == 1..MaxCerts
Loops  == {"rotate", "renew", "other"}

Request ==
    [loop : Loops, late : BOOLEAN, token : Tokens, cert : Certs,
     at : {"token", "cert", "binding", "tokenUse", "certUse", "handler", "answer"},
     fresh : BOOLEAN, result : 0..MaxTokens \cup 0..MaxCerts]

TypeOK ==
    /\ minted \in Tokens
    /\ liveTokens \subseteq 1..minted
    /\ usedTokens \subseteq 1..minted
    /\ stamp \in [Tokens -> 0..MaxTokens]
    /\ bound \in [Tokens -> 0..MaxCerts]
    /\ issued \in Certs
    /\ liveCerts \subseteq 1..issued
    /\ usedCerts \subseteq 1..issued
    /\ reqs \subseteq Request
    /\ token \in 1..minted /\ tokenFile \in 1..minted /\ newToken \in 0..minted
    /\ rotator \in {"idle", "write", "set"}
    /\ cert \in 1..issued /\ certFile \in 1..issued /\ newCert \in 0..issued
    /\ renewer \in {"idle", "persist", "swap"}
    /\ aged \in 0..issued
    /\ pooled \subseteq 1..issued
    /\ closing \in BOOLEAN
    /\ faults \in 0..MaxFaults
    /\ crashes \in 0..MaxCrashes

\* Enrolment has minted one token under one certificate; neither is used.
Init ==
    /\ minted = 1 /\ liveTokens = {1} /\ usedTokens = {}
    /\ stamp = [t \in Tokens |-> IF t = 1 THEN 1 ELSE 0]
    /\ bound = [t \in Tokens |-> IF t = 1 THEN 1 ELSE 0]
    /\ issued = 1 /\ liveCerts = {1} /\ usedCerts = {}
    /\ reqs = {}
    /\ token = 1 /\ tokenFile = 1 /\ rotator = "idle" /\ newToken = 0
    /\ cert = 1 /\ certFile = 1 /\ renewer = "idle" /\ newCert = 0
    /\ aged = 0
    /\ pooled = {} /\ closing = FALSE
    /\ faults = 0
    /\ crashes = 0

Fault == faults < MaxFaults /\ faults' = faults + 1

-----------------------------------------------------------------------------
(* The agent's requests.                                                    *)

Waiting(loop) == \E r \in reqs : r.loop = loop /\ ~r.late

\* The loop has nothing under way; the renewal tick also wants its
\* certificate past half-life.
Free(loop) ==
    /\ ~Waiting(loop)
    /\ loop = "rotate" => rotator = "idle"
    /\ loop = "renew" => renewer = "idle" /\ cert <= aged

\* Client.post, with the current token.  The transport takes an idle
\* connection if it has one, or dials and presents the current certificate.
Post(loop, c) ==
    /\ Free(loop)
    /\ c \in pooled \cup {cert}
    /\ reqs' = reqs \cup {[loop |-> loop, late |-> FALSE, token |-> token, cert |-> c,
                           at |-> "token", fresh |-> FALSE, result |-> 0]}
    /\ closing' = FALSE
    /\ UNCHANGED <<tokenRows, certRows, rotation, renewal, pooled, faults, crashes>>

\* The exchange is over; the connection goes back to the pool.
Finish(r) ==
    /\ reqs' = reqs \ {r}
    /\ pooled' = IF r.late \/ closing \/ ~KeepAlive THEN pooled ELSE pooled \cup {r.cert}
    /\ UNCHANGED closing

\* The request goes on at birdcage.
GoOn(r, s) ==
    /\ reqs' = (reqs \ {r}) \cup {s}
    /\ UNCHANGED conns

\* The agent times out, or the answer is lost, and the connection is closed.
\* birdcage's handler is cancelled with it, unless nobody tells birdcage.
GiveUp(r) ==
    /\ ~r.late
    /\ \/ reqs' = reqs \ {r}
       \/ /\ Cardinality({s \in reqs : s.late}) < MaxLate
          /\ reqs' = (reqs \ {r}) \cup {[r EXCEPT !.late = TRUE]}
    /\ UNCHANGED <<tokenRows, certRows, rotation, renewal, conns, faults, crashes>>

-----------------------------------------------------------------------------
(* requireBearerToken, for a request r.                                     *)

\* LookupCanaryTokenByHash.
LookupToken(r) ==
    /\ r.at = "token"
    /\ IF r.token \in liveTokens THEN GoOn(r, [r EXCEPT !.at = "cert"]) ELSE Finish(r)
    /\ UNCHANGED <<tokenRows, certRows, rotation, renewal, faults, crashes>>

\* checkClientCertificate: the row, which also says whether it was used.
LookupCert(r) ==
    /\ r.at = "cert"
    /\ IF r.cert \in liveCerts
       THEN GoOn(r, [r EXCEPT !.at = "binding", !.fresh = r.cert \notin usedCerts])
       ELSE Finish(r)
    /\ UNCHANGED <<tokenRows, certRows, rotation, renewal, faults, crashes>>

TokenBoundToCert_Exact(t, c) == bound[t] = c

\* The token's own certificate, or an older one while its own is unused.
TokenBoundToCert(t, c) ==
    \/ bound[t] = c
    \/ bound[t] > c /\ bound[t] \in liveCerts \ usedCerts

\* checkClientCertificate: the binding.
CheckBinding(r) ==
    /\ r.at = "binding"
    /\ IF TokenBoundToCert(r.token, r.cert)
       THEN GoOn(r, [r EXCEPT !.at = "tokenUse"])
       ELSE Finish(r)
    /\ UNCHANGED <<tokenRows, certRows, rotation, renewal, faults, crashes>>

AfterTokenUse(r) == [r EXCEPT !.at = IF r.fresh THEN "certUse" ELSE "handler"]

RevokeCanaryTokensSupersededBy_KeepsOrphans(t) ==
    {u \in liveTokens : u = t \/ u \notin usedTokens \/ stamp[u] >= stamp[t]}

\* The live tokens that t does not supersede.
RevokeCanaryTokensSupersededBy(t) == {u \in liveTokens : u = t \/ stamp[u] >= stamp[t]}

CompleteFirstUse_NoSweep(r) ==
    /\ r.at = "tokenUse"
    /\ GoOn(r, AfterTokenUse(r))
    /\ usedTokens' = usedTokens \cup {r.token}
    /\ UNCHANGED <<minted, liveTokens, stamp, bound, certRows, rotation, renewal, faults,
                   crashes>>

\* CompleteCanaryTokenFirstUse; when that transaction fails,
\* RecordCanaryTokenUse still marks the token used, if it can.
CompleteFirstUse(r) ==
    /\ r.at = "tokenUse"
    /\ GoOn(r, AfterTokenUse(r))
    /\ \/ /\ usedTokens' = usedTokens \cup {r.token}
          /\ liveTokens' = IF r.token \in usedTokens THEN liveTokens
                           ELSE RevokeCanaryTokensSupersededBy(r.token)
          /\ UNCHANGED faults
       \/ /\ Fault
          /\ usedTokens' \in {usedTokens, usedTokens \cup {r.token}}
          /\ UNCHANGED liveTokens
    /\ UNCHANGED <<minted, stamp, bound, certRows, rotation, renewal, crashes>>

CompleteRenewal_NoSweep(r) ==
    /\ r.at = "certUse"
    /\ GoOn(r, [r EXCEPT !.at = "handler"])
    /\ usedCerts' = usedCerts \cup {r.cert}
    /\ UNCHANGED <<issued, liveCerts, tokenRows, rotation, renewal, faults, crashes>>

\* completeRenewal: RecordClientCertFirstUse, which may fail.
CompleteRenewal(r) ==
    /\ r.at = "certUse"
    /\ GoOn(r, [r EXCEPT !.at = "handler"])
    /\ \/ /\ IF r.cert \in liveCerts \ usedCerts
             THEN /\ usedCerts' = usedCerts \cup {r.cert}
                  /\ liveCerts' = {c \in liveCerts : c >= r.cert}
             ELSE UNCHANGED <<usedCerts, liveCerts>>
          /\ UNCHANGED faults
       \/ Fault /\ UNCHANGED <<usedCerts, liveCerts>>
    /\ UNCHANGED <<issued, tokenRows, rotation, renewal, crashes>>

-----------------------------------------------------------------------------
(* The handlers.                                                            *)

\* The rate limiter, or a handler whose transaction failed: an error.
Refuse(r) ==
    /\ r.at = "handler"
    /\ Finish(r)
    /\ UNCHANGED <<tokenRows, certRows, rotation, renewal, faults, crashes>>

\* The newest live certificate, 0 when there is none.
CurrentClientCert == {c \in liveCerts \cup {0} : \A d \in liveCerts : d <= c}

\* created_at of the next token.
Stamps == IF ClockSteps THEN Tokens ELSE {minted + 1}

HandleRotate_PresentedCert(r) ==
    /\ r.at = "handler"
    /\ r.loop = "rotate"
    /\ minted < MaxTokens
    /\ minted' = minted + 1
    /\ liveTokens' = liveTokens \cup {minted + 1}
    /\ \E s \in Stamps : stamp' = [stamp EXCEPT ![minted + 1] = s]
    /\ bound' = [bound EXCEPT ![minted + 1] = r.cert]
    /\ GoOn(r, [r EXCEPT !.at = "answer", !.result = minted + 1])
    /\ UNCHANGED <<usedTokens, certRows, rotation, renewal, faults, crashes>>

HandleRotate_RevokesPresented(r) ==
    /\ r.at = "handler"
    /\ r.loop = "rotate"
    /\ minted < MaxTokens
    /\ minted' = minted + 1
    /\ liveTokens' = (liveTokens \ {r.token}) \cup {minted + 1}
    /\ \E s \in Stamps : stamp' = [stamp EXCEPT ![minted + 1] = s]
    /\ \E c \in CurrentClientCert : bound' = [bound EXCEPT ![minted + 1] = c]
    /\ GoOn(r, [r EXCEPT !.at = "answer", !.result = minted + 1])
    /\ UNCHANGED <<usedTokens, certRows, rotation, renewal, faults, crashes>>

\* handleRotate: a new token, bound to the newest live certificate.
HandleRotate(r) ==
    /\ r.at = "handler"
    /\ r.loop = "rotate"
    /\ minted < MaxTokens
    /\ minted' = minted + 1
    /\ liveTokens' = liveTokens \cup {minted + 1}
    /\ \E s \in Stamps : stamp' = [stamp EXCEPT ![minted + 1] = s]
    /\ \E c \in CurrentClientCert : bound' = [bound EXCEPT ![minted + 1] = c]
    /\ GoOn(r, [r EXCEPT !.at = "answer", !.result = minted + 1])
    /\ UNCHANGED <<usedTokens, certRows, rotation, renewal, faults, crashes>>

SupersedePendingClientCerts_None(inUse) == liveCerts

\* SupersedePendingClientCerts: what stays live of the certificates.
SupersedePendingClientCerts(inUse) ==
    {c \in liveCerts : c <= inUse \/ c \in usedCerts}

HandleRenew_PresentedTokenOnly(r) ==
    /\ r.at = "handler"
    /\ r.loop = "renew"
    /\ issued < MaxCerts
    /\ issued' = issued + 1
    /\ liveCerts' = SupersedePendingClientCerts(r.cert) \cup {issued + 1}
    /\ bound' = [bound EXCEPT ![r.token] = issued + 1]
    /\ GoOn(r, [r EXCEPT !.at = "answer", !.result = issued + 1])
    /\ UNCHANGED <<minted, liveTokens, usedTokens, stamp, usedCerts, rotation, renewal,
                   faults, crashes>>

\* handleRenew: a new certificate supersedes the pending ones, and the live
\* tokens are carried across to it.
HandleRenew(r) ==
    /\ r.at = "handler"
    /\ r.loop = "renew"
    /\ issued < MaxCerts
    /\ issued' = issued + 1
    /\ liveCerts' = SupersedePendingClientCerts(r.cert) \cup {issued + 1}
    /\ bound' = [t \in Tokens |-> IF t \in liveTokens THEN issued + 1 ELSE bound[t]]
    /\ GoOn(r, [r EXCEPT !.at = "answer", !.result = issued + 1])
    /\ UNCHANGED <<minted, liveTokens, usedTokens, stamp, usedCerts, rotation, renewal,
                   faults, crashes>>

\* Any other handler: an answer.
HandleOther(r) ==
    /\ r.at = "handler"
    /\ r.loop = "other"
    /\ GoOn(r, [r EXCEPT !.at = "answer"])
    /\ UNCHANGED <<tokenRows, certRows, rotation, renewal, faults, crashes>>

\* The answer reaches the loop that asked, if it still waits.
Answer(r) ==
    /\ r.at = "answer"
    /\ Finish(r)
    /\ IF r.loop = "rotate" /\ ~r.late
       THEN rotator' = "write" /\ newToken' = r.result
       ELSE UNCHANGED <<rotator, newToken>>
    /\ IF r.loop = "renew" /\ ~r.late
       THEN renewer' = "persist" /\ newCert' = r.result
       ELSE UNCHANGED <<renewer, newCert>>
    /\ UNCHANGED <<tokenRows, certRows, token, tokenFile, cert, certFile, aged, faults,
                   crashes>>

-----------------------------------------------------------------------------
(* What the agent does with an answer.                                      *)

\* rotate: writeFileAtomic; an error may come after the rename.
WriteToken ==
    /\ rotator = "write"
    /\ \/ tokenFile' = newToken /\ rotator' = "set" /\ UNCHANGED <<newToken, faults>>
       \/ tokenFile' \in {tokenFile, newToken} /\ rotator' = "idle" /\ newToken' = 0 /\ Fault
    /\ UNCHANGED <<tokenRows, certRows, reqs, token, renewal, conns, crashes>>

SetToken_ClearsFirst ==
    /\ rotator = "set"
    /\ token' = 0
    /\ rotator' = "idle"
    /\ newToken' = 0
    /\ UNCHANGED <<tokenRows, certRows, reqs, tokenFile, renewal, conns, faults, crashes>>

\* rotate: ts.set.
SetToken ==
    /\ rotator = "set"
    /\ token' = newToken
    /\ rotator' = "idle"
    /\ newToken' = 0
    /\ UNCHANGED <<tokenRows, certRows, reqs, tokenFile, renewal, conns, faults, crashes>>

\* Manager.Tick: StageAndSwap; an error may leave what the next boot would
\* complete.
PersistPair ==
    /\ renewer = "persist"
    /\ \/ certFile' = newCert /\ renewer' = "swap" /\ UNCHANGED <<newCert, faults>>
       \/ certFile' \in {certFile, newCert} /\ renewer' = "idle" /\ newCert' = 0 /\ Fault
    /\ UNCHANGED <<tokenRows, certRows, reqs, rotation, cert, aged, conns, crashes>>

\* Manager.Tick: SwapClientCert closes the idle connections.
SwapClientCert ==
    /\ renewer = "swap"
    /\ cert' = newCert
    /\ renewer' = "idle"
    /\ newCert' = 0
    /\ pooled' = {}
    /\ closing' = TRUE
    /\ UNCHANGED <<tokenRows, certRows, reqs, rotation, certFile, aged, faults, crashes>>

\* Days pass: the certificate in use is past its half-life, and whatever
\* was under way has long ended.
HalfLife ==
    /\ cert > aged
    /\ reqs = {}
    /\ aged' = cert
    /\ pooled' = {}
    /\ UNCHANGED <<tokenRows, certRows, reqs, rotation, cert, certFile, renewer, newCert,
                   closing, faults, crashes>>

\* The agent's process dies and boots from what is on disk.
Crash ==
    /\ crashes < MaxCrashes
    /\ crashes' = crashes + 1
    /\ token' = tokenFile
    /\ cert' = certFile
    /\ rotator' = "idle" /\ newToken' = 0
    /\ renewer' = "idle" /\ newCert' = 0
    /\ pooled' = {} /\ closing' = FALSE
    /\ reqs' = {r \in reqs : r.late}
    /\ UNCHANGED <<tokenRows, certRows, tokenFile, certFile, aged, faults>>

Serve(r) ==
    \/ LookupToken(r) \/ LookupCert(r) \/ CheckBinding(r) \/ CompleteFirstUse(r)
    \/ CompleteRenewal(r) \/ HandleRotate(r) \/ HandleRenew(r) \/ HandleOther(r) \/ Answer(r)

Agent == WriteToken \/ SetToken \/ PersistPair \/ SwapClientCert

Next ==
    \/ \E loop \in Loops, c \in pooled \cup {cert} : Post(loop, c)
    \/ \E r \in reqs : Serve(r) \/ Refuse(r) \/ GiveUp(r)
    \/ Agent
    \/ HalfLife
    \/ Crash

Spec == Init /\ [][Next]_vars

\* Goroutines are scheduled, a request ends within the client's timeout, and
\* birdcage is reachable: every so often a request of the loop that never
\* stops asking gets through each step.
Fairness ==
    LET Of(Step(_)) == \E r \in reqs : r.loop = "other" /\ Step(r)
    IN  /\ WF_vars(Agent)
        /\ WF_vars(Post("other", cert))
        /\ WF_vars(Of(GiveUp))
        /\ SF_vars(Of(LookupToken))
        /\ SF_vars(Of(LookupCert))
        /\ SF_vars(Of(CheckBinding))
        /\ SF_vars(Of(CompleteFirstUse))
        /\ SF_vars(Of(CompleteRenewal))

FairSpec == Spec /\ Fairness

-----------------------------------------------------------------------------
\* A request that presents this pair now would be authenticated.
Accepted(t, c) == t \in liveTokens /\ c \in liveCerts /\ TokenBoundToCert(t, c)

\* The agent is never locked out: the pair it presents works at every
\* instant of a rotation and a renewal (handleRenew: "a failure at any
\* point leaves the agent's working pair working").
MemoryPairWorks == Accepted(token, cert)

\* Nor would it be if its process died now: the pair on disk works too.
BootPairWorks == Accepted(tokenFile, certFile)

\* No token that the agent presents or would boot with is ever revoked
\* under it, whatever fails or arrives late (rotate: "Three crash windows,
\* none of which locks the agent out").
TokensNeverLost == {token, tokenFile} \subseteq liveTokens

\* "First use of the new token revokes every older token for that canary"
\* (RevokeCanaryTokensSupersededBy), orphans included.
UsedTokenSupersedes == \A t \in usedTokens, u \in liveTokens : t <= u

\* The same of certificates (RecordClientCertFirstUse).
UsedCertSupersedes == \A c \in usedCerts, d \in liveCerts : c <= d

\* However renewals are lost and retried, one pending certificate at most is
\* ahead of the agent's own (handleRenew: "leaving exactly one pending").
OnePending == Cardinality({c \in liveCerts : c > cert}) <= 1

\* A request whose token and certificate are both live is not refused over
\* the binding between them: renewal and rotation move the binding under
\* requests in flight (TokenBoundToCert).
LivePairsStayBound ==
    \A r \in reqs :
        r.token \in liveTokens /\ r.cert \in liveCerts => TokenBoundToCert(r.token, r.cert)

\* Once the agent presents a token or a certificate, the ones minted before
\* it die: revocation waits for a first use of the new one, which the loop
\* that never stops asking brings about (CompleteCanaryTokenFirstUse,
\* RecordClientCertFirstUse).
OldCredentialsDie ==
    /\ \A t \in Tokens : (token = t) ~> (\A u \in liveTokens : t <= u)
    /\ \A c \in Certs : (cert = c) ~> (\A d \in liveCerts : c <= d)
=============================================================================
