------------------------- MODULE CredentialsProofs -------------------------
(***************************************************************************)
(* Proofs about the token rotation and the certificate sweep, for any      *)
(* number of tokens, certificates, late requests, faults and crashes.      *)
(***************************************************************************)
EXTENDS Credentials, FiniteSetTheorems, TLAPS

\* s is the request r a step later: whose it is and what it presents stay.
Successor(r, s) ==
    /\ s \in Request
    /\ s.loop = r.loop
    /\ r.late => s.late
    /\ s.token = r.token
    /\ s.cert = r.cert

\* Every way a step updates a request gives a successor of it.
LEMMA Successors ==
    ASSUME NEW r \in Request
    PROVE  /\ Successor(r, [r EXCEPT !.late = TRUE])
           /\ Successor(r, [r EXCEPT !.at = "cert"])
           /\ \A f \in BOOLEAN : Successor(r, [r EXCEPT !.at = "binding", !.fresh = f])
           /\ Successor(r, [r EXCEPT !.at = "tokenUse"])
           /\ Successor(r, AfterTokenUse(r))
           /\ Successor(r, [r EXCEPT !.at = "handler"])
           /\ Successor(r, [r EXCEPT !.at = "answer"])
           /\ \A n \in 0..MaxTokens \cup 0..MaxCerts :
                 Successor(r, [r EXCEPT !.at = "answer", !.result = n])
  BY ZenonT(60) DEF Successor, Request, AfterTokenUse

\* What a request presents is numbered.
LEMMA Presented ==
    ASSUME NEW r \in Request
    PROVE  r.token \in 1..MaxTokens /\ r.cert \in 1..MaxCerts
  BY DEF Request, Tokens, Certs

\* A rotation and a renewal are single-flight, and an answer names a row.
LoopInv ==
    /\ \A r, s \in reqs : ~r.late /\ ~s.late /\ r.loop = s.loop => r = s
    /\ \A r \in reqs : r.loop = "rotate" /\ ~r.late => rotator = "idle"
    /\ \A r \in reqs : r.loop = "renew" /\ ~r.late => renewer = "idle"
    /\ \A r \in reqs : r.at = "answer" /\ r.loop = "rotate" => r.result \in 1..minted
    /\ \A r \in reqs : r.at = "answer" /\ r.loop = "renew" => r.result \in 1..issued
    /\ \A r \in reqs : r.token <= minted /\ r.cert <= issued
    /\ rotator # "idle" => newToken # 0
    /\ renewer # "idle" => newCert # 0

\* The two together are inductive.
TypeInv == TypeOK /\ LoopInv

\* The types hold of a freshly enrolled agent.
LEMMA TypeInit == Init => TypeInv
<1> SUFFICES ASSUME Init PROVE TypeInv
  OBVIOUS
<1>1. TypeOK
  <2> USE CredentialConstants DEF Init, Tokens, Certs
  <2>1. stamp \in [Tokens -> 0..MaxTokens] /\ bound \in [Tokens -> 0..MaxCerts]
    OBVIOUS
  <2>2. closing \in BOOLEAN
    BY ZenonT(60)
  <2>3. faults \in 0..MaxFaults /\ crashes \in 0..MaxCrashes
    OBVIOUS
  <2> QED BY <2>1, <2>2, <2>3 DEF TypeOK
<1>2. LoopInv
  BY DEF Init, LoopInv
<1> QED BY <1>1, <1>2 DEF TypeInv

\* A step that only moves a request on, whatever rows it adds.
LEMMA LoopMove ==
    ASSUME TypeInv, NEW r \in reqs, NEW s, Successor(r, s),
           reqs' = (reqs \ {r}) \cup {s},
           minted' \in Tokens, issued' \in Certs, minted <= minted', issued <= issued',
           s.at = "answer" /\ s.loop = "rotate" => s.result \in 1..minted',
           s.at = "answer" /\ s.loop = "renew" => s.result \in 1..issued',
           UNCHANGED <<rotator, newToken, renewer, newCert>>
    PROVE  LoopInv'
<1> USE CredentialConstants DEF TypeInv, TypeOK, Tokens, Certs
<1>1. \A q \in reqs : q \in Request
  OBVIOUS
<1>2. (\A q, t \in reqs : ~q.late /\ ~t.late /\ q.loop = t.loop => q = t)'
  <2>1. \A t \in reqs : ~t.late /\ ~s.late /\ t.loop = s.loop => t = r
    BY Zenon DEF LoopInv, Successor
  <2> QED BY <2>1, ZenonT(60) DEF LoopInv
<1>3. (\A q \in reqs : q.loop = "rotate" /\ ~q.late => rotator = "idle")'
  BY <1>1, ZenonT(60) DEF LoopInv, Successor, Request
<1>4. (\A q \in reqs : q.loop = "renew" /\ ~q.late => renewer = "idle")'
  BY <1>1, ZenonT(60) DEF LoopInv, Successor, Request
<1>5. (\A q \in reqs : q.at = "answer" /\ q.loop = "rotate" => q.result \in 1..minted)'
  BY <1>1, SMTT(60) DEF LoopInv
<1>6. (\A q \in reqs : q.at = "answer" /\ q.loop = "renew" => q.result \in 1..issued)'
  BY <1>1, SMTT(60) DEF LoopInv
<1>7. (\A q \in reqs : q.token <= minted /\ q.cert <= issued)'
  <2>1. \A q \in reqs : q.token \in Int /\ q.cert \in Int
    BY <1>1, Presented, SMTT(60)
  <2>2. \A q \in reqs : q.token <= minted' /\ q.cert <= issued'
    BY <2>1, SMTT(60) DEF LoopInv
  <2> QED BY <2>2 DEF Successor
<1>8. (rotator # "idle" => newToken # 0)' /\ (renewer # "idle" => newCert # 0)'
  BY DEF LoopInv
<1> QED BY <1>2, <1>3, <1>4, <1>5, <1>6, <1>7, <1>8 DEF LoopInv

\* A step that only ends requests.
LEMMA LoopEnd ==
    ASSUME TypeInv, reqs' \subseteq reqs, UNCHANGED <<minted, issued>>,
           rotator' # "idle" => newToken' # 0,
           renewer' # "idle" => newCert' # 0,
           rotator' # "idle" => rotator # "idle" \/ \A r \in reqs' : r.loop = "rotate" => r.late,
           renewer' # "idle" => renewer # "idle" \/ \A r \in reqs' : r.loop = "renew" => r.late
    PROVE  LoopInv'
<1>1. \A q \in reqs : q \in Request
  BY DEF TypeInv, TypeOK
<1>2. (\A q \in reqs : q.loop = "rotate" /\ ~q.late => rotator = "idle")'
  BY <1>1 DEF TypeInv, LoopInv
<1>3. (\A q \in reqs : q.loop = "renew" /\ ~q.late => renewer = "idle")'
  BY <1>1 DEF TypeInv, LoopInv
<1> QED BY <1>1, <1>2, <1>3 DEF TypeInv, LoopInv

\* The request r goes on as s, with no new answer, or is over.
MovesOn(r, s) ==
    /\ s = r \/ Successor(r, s)
    /\ reqs' = (reqs \ {r}) \cup {s} \/ reqs' = reqs \ {r}
    /\ s.at = "answer" => s.loop = "other" \/ (s.at = r.at /\ s.result = r.result)

\* A step of a request that changes no row: it goes on or is over.
LEMMA ReadStep ==
    ASSUME TypeInv, NEW r \in reqs,
           \/ LookupToken(r) \/ LookupCert(r) \/ CheckBinding(r) \/ HandleOther(r)
           \/ Refuse(r) \/ GiveUp(r)
    PROVE  \E s : MovesOn(r, s)
<1> USE DEF MovesOn
<1>0. r \in Request
  BY DEF TypeInv, TypeOK
<1>1. CASE LookupToken(r)
  BY <1>0, <1>1, Successors, ZenonT(60) DEF LookupToken, GoOn, Finish, Request
<1>2. CASE LookupCert(r)
  <2>1. CASE r.cert \in liveCerts
    <3> DEFINE s == [r EXCEPT !.at = "binding", !.fresh = r.cert \notin usedCerts]
    <3>1. Successor(r, s)
      BY <1>0, Successors, ZenonT(60)
    <3>2. s.at = "binding"
      BY <1>0 DEF Request
    <3>3. reqs' = (reqs \ {r}) \cup {s}
      BY <1>2, <2>1 DEF LookupCert, GoOn
    <3> QED BY <3>1, <3>2, <3>3, ZenonT(60)
  <2>2. CASE r.cert \notin liveCerts
    BY <1>2, <2>2, SMTT(60) DEF LookupCert, Finish
  <2> QED BY <2>1, <2>2
<1>3. CASE CheckBinding(r)
  BY <1>0, <1>3, Successors, ZenonT(60) DEF CheckBinding, GoOn, Finish, Request
<1>4. CASE HandleOther(r)
  <2> DEFINE s == [r EXCEPT !.at = "answer"]
  <2>1. Successor(r, s) /\ s.loop = "other"
    BY <1>0, <1>4, Successors, ZenonT(60) DEF HandleOther, Successor
  <2>2. reqs' = (reqs \ {r}) \cup {s}
    BY <1>4 DEF HandleOther, GoOn
  <2> QED BY <2>1, <2>2, ZenonT(60)
<1>5. CASE Refuse(r)
  BY <1>0, <1>5, SMTT(60) DEF Refuse, Finish
<1>6. CASE GiveUp(r)
  BY <1>0, <1>6, Successors, ZenonT(60) DEF GiveUp, Request
<1> QED BY <1>1, <1>2, <1>3, <1>4, <1>5, <1>6

\* Such a step keeps the types.
LEMMA TypeReads ==
    ASSUME TypeInv, NEW r \in reqs,
           \/ LookupToken(r) \/ LookupCert(r) \/ CheckBinding(r) \/ HandleOther(r)
           \/ Refuse(r) \/ GiveUp(r)
    PROVE  TypeInv'
<1> USE DEF TypeInv
<1>1. r \in Request
  BY DEF TypeOK
<1> HIDE DEF TypeInv
<1>a. PICK s : MovesOn(r, s)
  BY ReadStep, Zenon
<1>2. /\ s = r \/ Successor(r, s)
      /\ reqs' = (reqs \ {r}) \cup {s} \/ reqs' = reqs \ {r}
      /\ s.at = "answer" => s.loop = "other" \/ (s.at = r.at /\ s.result = r.result)
  BY <1>a DEF MovesOn
<1> USE DEF TypeInv
<1>3. Successor(r, r)
  BY <1>1 DEF Successor
<1>4. /\ UNCHANGED <<tokenRows, certRows, rotation, renewal, closing, faults, crashes>>
      /\ pooled' = pooled \/ pooled' = pooled \cup {r.cert}
  BY DEF LookupToken, LookupCert, CheckBinding, HandleOther, Refuse, GiveUp, GoOn, Finish, conns
<1>5. reqs' \subseteq Request
  BY <1>2, <1>3 DEF TypeOK, Successor
<1>6. r.cert \in 1..issued
  BY <1>1, Presented DEF TypeOK, LoopInv, Certs
<1>7. TypeOK'
  BY <1>4, <1>5, <1>6, ZenonT(60) DEF TypeOK, tokenRows, certRows, rotation, renewal
<1>8. LoopInv'
  <2>1. CASE reqs' = (reqs \ {r}) \cup {s}
    <3>1. /\ s.at = "answer" /\ s.loop = "rotate" => s.result \in 1..minted
          /\ s.at = "answer" /\ s.loop = "renew" => s.result \in 1..issued
      BY <1>2, <1>3, SMTT(60) DEF LoopInv, Successor
    <3> QED
      BY <2>1, <3>1, <1>2, <1>3, <1>4, LoopMove, CredentialConstants, SMTT(60)
      DEF tokenRows, certRows, rotation, renewal, TypeOK, Tokens, Certs
  <2>2. CASE reqs' = reqs \ {r}
    BY <2>2, <1>4, LoopEnd DEF tokenRows, certRows, rotation, renewal, LoopInv
  <2> QED BY <1>2, <2>1, <2>2
<1> QED BY <1>7, <1>8

\* The step of a request that writes rows.
LEMMA TypeWrites ==
    ASSUME TypeInv, NEW r \in reqs,
           CompleteFirstUse(r) \/ CompleteRenewal(r) \/ HandleRotate(r) \/ HandleRenew(r)
    PROVE  TypeInv'
<1> USE CredentialConstants DEF TypeInv
<1>1. r \in Request
  BY DEF TypeOK
<1>2. r.token \in 1..minted /\ r.cert \in 1..issued
  BY <1>1, Presented, SMTT(60) DEF TypeOK, LoopInv, Tokens, Certs
<1> HIDE DEF TypeInv
<1>0. minted \in 1..MaxTokens /\ issued \in 1..MaxCerts
  BY DEF TypeInv, TypeOK, Tokens, Certs
<1>a. \A n \in 0..MaxTokens \cup 0..MaxCerts :
         LET s == [r EXCEPT !.at = "answer", !.result = n]
         IN  Successor(r, s) /\ s.result = n /\ s.loop = r.loop
  BY <1>1, Successors, ZenonT(60) DEF Request
<1> USE DEF TypeInv
<1>3. CASE CompleteFirstUse(r)
  <2>1. Successor(r, AfterTokenUse(r)) /\ AfterTokenUse(r).at # "answer"
    BY <1>1, Successors, ZenonT(60) DEF AfterTokenUse, Request
  <2>2. LoopInv'
    <3>1. /\ reqs' = (reqs \ {r}) \cup {AfterTokenUse(r)}
          /\ UNCHANGED <<minted, issued, rotator, newToken, renewer, newCert>>
      BY <1>3 DEF CompleteFirstUse, GoOn, certRows, rotation, renewal
    <3> QED BY <1>0, <2>1, <3>1, LoopMove, SMTT(60) DEF Tokens, Certs
  <2>3. liveTokens' \subseteq 1..minted /\ usedTokens' \subseteq 1..minted
    BY <1>2, <1>3, ZenonT(60) DEF CompleteFirstUse, RevokeCanaryTokensSupersededBy, TypeOK
  <2>4. faults' \in 0..MaxFaults
    BY <1>3, SMTT(60) DEF CompleteFirstUse, Fault, TypeOK
  <2>5. reqs' \subseteq Request
    BY <1>3, <2>1, SMTT(60) DEF CompleteFirstUse, GoOn, Successor, TypeOK
  <2>6. TypeOK'
    BY <1>3, <2>3, <2>4, <2>5 DEF CompleteFirstUse, GoOn, conns, certRows, rotation, renewal,
                                  TypeOK
  <2> QED BY <2>2, <2>6, SMTT(60)
<1>4. CASE CompleteRenewal(r)
  <2> DEFINE s == [r EXCEPT !.at = "handler"]
  <2>1. Successor(r, s) /\ s.at # "answer"
    BY <1>1, Successors, ZenonT(60) DEF Request
  <2>2. LoopInv'
    <3>1. /\ reqs' = (reqs \ {r}) \cup {s}
          /\ UNCHANGED <<minted, issued, rotator, newToken, renewer, newCert>>
      BY <1>4 DEF CompleteRenewal, GoOn, tokenRows, rotation, renewal
    <3> HIDE DEF s
    <3> QED BY <1>0, <2>1, <3>1, LoopMove DEF Tokens, Certs
  <2>3. liveCerts' \subseteq 1..issued /\ usedCerts' \subseteq 1..issued
    BY <1>2, <1>4 DEF CompleteRenewal, TypeOK
  <2>4. faults' \in 0..MaxFaults
    BY <1>4 DEF CompleteRenewal, Fault, TypeOK
  <2>5. reqs' \subseteq Request
    BY <1>4, <2>1, SMTT(60) DEF CompleteRenewal, GoOn, Successor, TypeOK
  <2>6. TypeOK'
    BY <1>4, <2>3, <2>4, <2>5 DEF CompleteRenewal, GoOn, conns, tokenRows, rotation, renewal,
                                  TypeOK
  <2> QED BY <2>2, <2>6
<1>5. CASE HandleRotate(r)
  <2> DEFINE s == [r EXCEPT !.at = "answer", !.result = minted + 1]
  <2>0. minted < MaxTokens /\ minted' = minted + 1 /\ r.loop = "rotate"
    BY <1>5 DEF HandleRotate
  <2>1. minted' = minted + 1 /\ minted + 1 \in Tokens
    BY <1>0, <2>0 DEF Tokens
  <2>2. Successor(r, s) /\ s.loop = "rotate" /\ s.result = minted + 1
    <3>1. minted + 1 \in 0..MaxTokens \cup 0..MaxCerts
      BY <1>0, <2>0
    <3> HIDE DEF TypeInv
    <3> QED BY <1>a, <2>0, <3>1, Zenon
  <2>4. LoopInv'
    <3>1. /\ reqs' = (reqs \ {r}) \cup {s}
          /\ UNCHANGED <<issued, rotator, newToken, renewer, newCert>>
      BY <1>5 DEF HandleRotate, GoOn, certRows, rotation, renewal
    <3> HIDE DEF s
    <3> QED BY <1>0, <2>1, <2>2, <3>1, LoopMove, SMTT(60) DEF Tokens, Certs
  <2>5. reqs' \subseteq Request
    BY <1>5, <2>2 DEF HandleRotate, GoOn, Successor, TypeOK
  <2>6. stamp' \in [Tokens -> 0..MaxTokens]
    <3>1. \A t \in Stamps : t \in 0..MaxTokens
      BY <2>1 DEF Stamps, Tokens
    <3> QED BY <1>5, <3>1, ZenonT(60) DEF HandleRotate, TypeOK
  <2>7. bound' \in [Tokens -> 0..MaxCerts]
    <3>1. \A c \in CurrentClientCert : c \in 0..MaxCerts
      BY DEF CurrentClientCert, TypeOK, Certs
    <3> QED BY <1>5, <2>1, <3>1, SMTT(60) DEF HandleRotate, TypeOK
  <2>8. liveTokens' \subseteq 1..minted' /\ usedTokens' \subseteq 1..minted'
    <3>1. liveTokens \subseteq 1..minted /\ usedTokens \subseteq 1..minted
      BY DEF TypeOK
    <3>2. liveTokens' = liveTokens \cup {minted + 1} /\ usedTokens' = usedTokens
      BY <1>5 DEF HandleRotate
    <3> HIDE DEF TypeInv
    <3> QED BY <1>0, <2>1, <3>1, <3>2, SMTT(60)
  <2>9. token' \in 1..minted' /\ tokenFile' \in 1..minted' /\ newToken' \in 0..minted'
    <3>1. token \in 1..minted /\ tokenFile \in 1..minted /\ newToken \in 0..minted
      BY DEF TypeOK
    <3>2. UNCHANGED <<token, tokenFile, newToken>>
      BY <1>5, SMTT(60) DEF HandleRotate, rotation
    <3> HIDE DEF TypeInv
    <3> QED BY <1>0, <2>1, <3>1, <3>2, SMTT(60)
  <2>10. TypeOK'
    BY <1>5, <2>1, <2>5, <2>6, <2>7, <2>8, <2>9, SMTT(60)
    DEF HandleRotate, GoOn, conns, certRows, rotation, renewal, TypeOK
  <2> QED BY <2>4, <2>10
<1>6. CASE HandleRenew(r)
  <2> DEFINE s == [r EXCEPT !.at = "answer", !.result = issued + 1]
  <2>0. issued < MaxCerts /\ issued' = issued + 1 /\ r.loop = "renew"
    BY <1>6 DEF HandleRenew
  <2>1. issued' = issued + 1 /\ issued + 1 \in Certs
    BY <1>0, <2>0 DEF Certs
  <2>2. Successor(r, s) /\ s.loop = "renew" /\ s.result = issued + 1
    <3>1. issued + 1 \in 0..MaxTokens \cup 0..MaxCerts
      BY <1>0, <2>0
    <3> HIDE DEF TypeInv
    <3> QED BY <1>a, <2>0, <3>1, Zenon
  <2>4. LoopInv'
    <3>1. /\ reqs' = (reqs \ {r}) \cup {s}
          /\ UNCHANGED <<minted, rotator, newToken, renewer, newCert>>
      BY <1>6 DEF HandleRenew, GoOn, rotation, renewal
    <3> HIDE DEF s
    <3> QED BY <1>0, <2>1, <2>2, <3>1, LoopMove DEF Tokens, Certs
  <2>5. reqs' \subseteq Request
    BY <1>6, <2>2 DEF HandleRenew, GoOn, Successor, TypeOK
  <2>6. bound' \in [Tokens -> 0..MaxCerts]
    BY <1>6, <2>1 DEF HandleRenew, TypeOK, Certs
  <2>7. liveCerts' \subseteq 1..issued' /\ usedCerts' \subseteq 1..issued'
    BY <1>6, <2>1 DEF HandleRenew, SupersedePendingClientCerts, TypeOK, Certs
  <2>8. /\ cert' \in 1..issued' /\ certFile' \in 1..issued' /\ newCert' \in 0..issued'
        /\ aged' \in 0..issued' /\ pooled' \subseteq 1..issued'
    BY <1>6, <2>1, SMTT(60) DEF HandleRenew, GoOn, conns, renewal, TypeOK, Certs
  <2>9. TypeOK'
    BY <1>6, <2>1, <2>5, <2>6, <2>7, <2>8, SMTT(60)
    DEF HandleRenew, GoOn, conns, rotation, renewal, TypeOK
  <2> QED BY <2>4, <2>9
<1> QED BY <1>3, <1>4, <1>5, <1>6

\* The steps of the agent: a request, its answer, and what is done with it.
LEMMA TypeAgent ==
    ASSUME TypeInv,
           \/ \E loop \in Loops, c \in pooled \cup {cert} : Post(loop, c)
           \/ \E r \in reqs : Answer(r)
           \/ Agent \/ HalfLife \/ Crash
    PROVE  TypeInv'
<1> USE CredentialConstants DEF TypeInv
<1>0. minted \in 1..MaxTokens /\ issued \in 1..MaxCerts
  BY DEF TypeOK, Tokens, Certs
<1>1. ASSUME NEW loop \in Loops, NEW c \in pooled \cup {cert}, Post(loop, c)
      PROVE  TypeInv'
  <2> DEFINE q == [loop |-> loop, late |-> FALSE, token |-> token, cert |-> c,
                   at |-> "token", fresh |-> FALSE, result |-> 0]
  <2>1. token \in 1..minted /\ c \in 1..issued
    BY DEF TypeOK
  <2>2. token \in Tokens /\ c \in Certs /\ token <= minted /\ c <= issued
    <3> HIDE DEF TypeInv
    <3> QED BY <1>0, <2>1 DEF Tokens, Certs
  <2>3. q \in Request
    BY <2>2 DEF Request
  <2>4. reqs' = reqs \cup {q}
    BY <1>1 DEF Post
  <2>5. TypeOK'
    BY <1>1, <2>3, <2>4, ZenonT(60) DEF Post, TypeOK, tokenRows, certRows, rotation, renewal
  <2>6. LoopInv'
    <3> HIDE DEF q
    <3>1. q.loop = loop /\ q.token = token /\ q.cert = c /\ q.at = "token"
      BY SMTT(60) DEF q
    <3>2. \A r \in reqs : r.loop = loop => r.late
      BY <1>1, SMTT(60) DEF Post, Free, Waiting
    <3>3. /\ loop = "rotate" => rotator = "idle"
          /\ loop = "renew" => renewer = "idle"
      BY <1>1, SMTT(60) DEF Post, Free
    <3>4. UNCHANGED <<minted, issued, rotator, newToken, renewer, newCert>>
      BY <1>1 DEF Post, tokenRows, certRows, rotation, renewal
    <3>5. (\A r, t \in reqs : ~r.late /\ ~t.late /\ r.loop = t.loop => r = t)'
      BY <2>4, <3>1, <3>2, Zenon DEF LoopInv
    <3>6. (\A r \in reqs : r.loop = "rotate" /\ ~r.late => rotator = "idle")'
      BY <2>4, <3>1, <3>3, <3>4, Zenon DEF LoopInv
    <3>7. (\A r \in reqs : r.loop = "renew" /\ ~r.late => renewer = "idle")'
      BY <2>4, <3>1, <3>3, <3>4, ZenonT(60) DEF LoopInv
    <3>8. (\A r \in reqs : r.at = "answer" /\ r.loop = "rotate" => r.result \in 1..minted)'
      BY <2>4, <3>1, <3>4, SMTT(60) DEF LoopInv
    <3>9. (\A r \in reqs : r.at = "answer" /\ r.loop = "renew" => r.result \in 1..issued)'
      BY <2>4, <3>1, <3>4 DEF LoopInv
    <3>10. (\A r \in reqs : r.token <= minted /\ r.cert <= issued)'
      BY <2>2, <2>4, <3>1, <3>4, Zenon DEF LoopInv
    <3>11. (rotator # "idle" => newToken # 0)' /\ (renewer # "idle" => newCert # 0)'
      BY <3>4 DEF LoopInv
    <3> QED BY <3>5, <3>6, <3>7, <3>8, <3>9, <3>10, <3>11, SMTT(60) DEF LoopInv
  <2> QED BY <2>5, <2>6
<1>2. ASSUME NEW r \in reqs, Answer(r)
      PROVE  TypeInv'
  <2>1. r \in Request /\ r.at = "answer" /\ reqs' = reqs \ {r}
    BY <1>2, SMTT(60) DEF TypeOK, Answer, Finish
  <2>2. r.cert \in 1..issued
    BY <2>1, Presented DEF TypeOK, LoopInv, Certs
  <2>3. /\ r.loop = "rotate" => r.result \in 1..minted
        /\ r.loop = "renew" => r.result \in 1..issued
    BY <2>1, SMTT(60) DEF LoopInv
  <2>4. newToken' \in 0..minted /\ rotator' \in {"idle", "write", "set"}
    BY <1>2, <2>3, SMTT(60) DEF Answer, TypeOK
  <2>5. newCert' \in 0..issued /\ renewer' \in {"idle", "persist", "swap"}
    BY <1>2, <2>3 DEF Answer, TypeOK
  <2>6. pooled' \subseteq 1..issued
    BY <1>2, <2>2, ZenonT(60) DEF Answer, Finish, TypeOK
  <2>7. TypeOK'
    BY <1>2, <2>1, <2>4, <2>5, <2>6, SMTT(60) DEF Answer, Finish, TypeOK, tokenRows, certRows
  <2>8. (rotator # "idle" => newToken # 0)' /\ (renewer # "idle" => newCert # 0)'
    BY <1>2, <2>3, SMTT(60) DEF Answer, LoopInv, TypeOK, Tokens, Certs
  <2>9. rotator' # "idle" => rotator # "idle" \/ \A t \in reqs' : t.loop = "rotate" => t.late
    BY <1>2, <2>1, Zenon DEF Answer, LoopInv
  <2>10. renewer' # "idle" => renewer # "idle" \/ \A t \in reqs' : t.loop = "renew" => t.late
    BY <1>2, <2>1, ZenonT(60) DEF Answer, LoopInv
  <2>11. LoopInv'
    BY <1>2, <2>1, <2>8, <2>9, <2>10, LoopEnd, SMTT(60) DEF Answer, tokenRows, certRows
  <2> QED BY <2>7, <2>11, SMTT(60)
<1>3. CASE Agent \/ HalfLife \/ Crash
  <2>1. CASE WriteToken
    <3>1. TypeOK'
      <4>1. newToken' \in 0..minted /\ tokenFile' \in 1..minted /\ token' \in 1..minted
        BY <1>0, <2>1, SMTT(60) DEF WriteToken, TypeOK, LoopInv
      <4>2. faults' \in 0..MaxFaults
        BY <1>0, <2>1, SMTT(60) DEF WriteToken, Fault, TypeOK
      <4> QED BY <2>1, <4>1, <4>2, SMTT(60) DEF WriteToken, TypeOK, tokenRows, certRows, renewal, conns
    <3>2. LoopInv'
      BY <2>1, LoopEnd DEF WriteToken, LoopInv, tokenRows, certRows, renewal
    <3> QED BY <3>1, <3>2, SMTT(60)
  <2>2. CASE SetToken
    <3>1. TypeOK'
      <4>1. newToken' \in 0..minted /\ tokenFile' \in 1..minted /\ token' \in 1..minted
        BY <1>0, <2>2, SMTT(60) DEF SetToken, TypeOK, LoopInv
      <4> QED BY <2>2, <4>1, SMTT(60) DEF SetToken, TypeOK, tokenRows, certRows, renewal, conns
    <3>2. LoopInv'
      BY <2>2, LoopEnd DEF SetToken, LoopInv, tokenRows, certRows, renewal
    <3> QED BY <3>1, <3>2, SMTT(60)
  <2>3. CASE PersistPair
    <3>1. TypeOK'
      <4>1. newCert' \in 0..issued /\ certFile' \in 1..issued /\ cert' \in 1..issued
        BY <1>0, <2>3, SMTT(60) DEF PersistPair, TypeOK, LoopInv
      <4>2. faults' \in 0..MaxFaults
        BY <1>0, <2>3, SMTT(60) DEF PersistPair, Fault, TypeOK
      <4> QED BY <2>3, <4>1, <4>2, SMTT(60) DEF PersistPair, TypeOK, tokenRows, certRows, rotation, conns
    <3>2. LoopInv'
      BY <2>3, LoopEnd DEF PersistPair, LoopInv, tokenRows, certRows, rotation
    <3> QED BY <3>1, <3>2, SMTT(60)
  <2>4. CASE SwapClientCert
    <3>1. TypeOK'
      <4>1. newCert' \in 0..issued /\ certFile' \in 1..issued /\ cert' \in 1..issued
        BY <1>0, <2>4 DEF SwapClientCert, TypeOK, LoopInv
      <4>2. closing' \in BOOLEAN
        BY <1>0, <2>4, SMTT(60) DEF SwapClientCert
      <4> QED BY <2>4, <4>1, <4>2, SMTT(60) DEF SwapClientCert, TypeOK, tokenRows, certRows, rotation
    <3>2. LoopInv'
      BY <2>4, LoopEnd DEF SwapClientCert, LoopInv, tokenRows, certRows, rotation
    <3> QED BY <3>1, <3>2, SMTT(60)
  <2>5. CASE HalfLife
    <3>1. TypeOK'
      BY <2>5, SMTT(60) DEF HalfLife, TypeOK, tokenRows, certRows, rotation
    <3>2. LoopInv'
      BY <2>5, LoopEnd DEF HalfLife, LoopInv, tokenRows, certRows, rotation
    <3> QED BY <3>1, <3>2, SMTT(60)
  <2>6. CASE Crash
    <3>1. TypeOK'
      <4>1. newToken' \in 0..minted /\ tokenFile' \in 1..minted /\ token' \in 1..minted
        BY <1>0, <2>6, SMTT(60) DEF Crash, TypeOK
      <4>2. newCert' \in 0..issued /\ certFile' \in 1..issued /\ cert' \in 1..issued
        BY <1>0, <2>6, SMTT(60) DEF Crash, TypeOK
      <4>3. crashes' \in 0..MaxCrashes
        BY <1>0, <2>6 DEF Crash, TypeOK
      <4>4. closing' \in BOOLEAN
        BY <1>0, <2>6, ZenonT(60) DEF Crash
      <4>5. reqs' \subseteq Request
        BY <1>0, <2>6, SMTT(60) DEF Crash, TypeOK
      <4> QED BY <2>6, <4>1, <4>2, <4>3, <4>4, <4>5, SMTT(60) DEF Crash, TypeOK, tokenRows, certRows
    <3>2. LoopInv'
      BY <2>6, LoopEnd DEF Crash, LoopInv, tokenRows, certRows
    <3> QED BY <3>1, <3>2, SMTT(60)
  <2> QED BY <1>3, <2>1, <2>2, <2>3, <2>4, <2>5, <2>6, SMTT(60) DEF Agent
<1> QED BY <1>1, <1>2, <1>3

\* The types are inductive.
LEMMA TypeNext == TypeInv /\ [Next]_vars => TypeInv'
<1> SUFFICES ASSUME TypeInv, [Next]_vars PROVE TypeInv'
  BY SMTT(60)
<1>1. CASE UNCHANGED vars
  BY <1>1 DEF vars, tokenRows, certRows, rotation, renewal, conns, TypeInv, TypeOK, LoopInv
<1>2. CASE \E r \in reqs : Serve(r) \/ Refuse(r) \/ GiveUp(r)
  BY <1>2, TypeReads, TypeWrites, TypeAgent DEF Serve
<1>3. CASE (\E loop \in Loops, c \in pooled \cup {cert} : Post(loop, c)) \/ Agent \/ HalfLife \/ Crash
  BY <1>3, TypeAgent
<1> QED BY <1>1, <1>2, <1>3 DEF Next

\* Every variable keeps its type, whatever the interleaving of the agent's
\* loops with birdcage's transactions.
THEOREM TypeCorrect == Spec => []TypeOK
<1>1. TypeInv => TypeOK
  BY DEF TypeInv
<1> QED BY TypeInit, TypeNext, <1>1, PTL DEF Spec

-----------------------------------------------------------------------------
\* Rows are only ever written by these steps.
LEMMA RowsChange ==
    ASSUME [Next]_vars
    PROVE  /\ UNCHANGED tokenRows \/ \E r \in reqs : \/ CompleteFirstUse(r) \/ HandleRotate(r)
                                                     \/ HandleRenew(r)
           /\ UNCHANGED certRows \/ \E r \in reqs : CompleteRenewal(r) \/ HandleRenew(r)
<1>1. CASE UNCHANGED vars
  BY <1>1, SMTT(60) DEF vars
<1>2. ASSUME NEW r \in reqs, Serve(r) \/ Refuse(r) \/ GiveUp(r)
      PROVE  /\ UNCHANGED tokenRows \/ CompleteFirstUse(r) \/ HandleRotate(r) \/ HandleRenew(r)
             /\ UNCHANGED certRows \/ CompleteRenewal(r) \/ HandleRenew(r)
  <2>1. CASE LookupToken(r) \/ LookupCert(r) \/ CheckBinding(r) \/ HandleOther(r) \/ Answer(r)
    BY <2>1 DEF LookupToken, LookupCert, CheckBinding, HandleOther, Answer
  <2>2. CASE Refuse(r) \/ GiveUp(r)
    BY <2>2 DEF Refuse, GiveUp
  <2>3. CASE CompleteFirstUse(r) \/ HandleRotate(r)
    BY <2>3 DEF CompleteFirstUse, HandleRotate
  <2>4. CASE CompleteRenewal(r) \/ HandleRenew(r)
    BY <2>4, SMTT(60) DEF CompleteRenewal
  <2> QED BY <1>2, <2>1, <2>2, <2>3, <2>4 DEF Serve
<1>3. CASE (\E loop \in Loops, c \in pooled \cup {cert} : Post(loop, c)) \/ Agent \/ HalfLife \/ Crash
  BY <1>3, ZenonT(60) DEF Post, Agent, WriteToken, SetToken, PersistPair, SwapClientCert, HalfLife, Crash
<1> QED BY <1>1, <1>2, <1>3 DEF Next

\* A certificate that was used has no live predecessor, whatever fails,
\* arrives late or crashes: a failed RecordClientCertFirstUse claims nothing,
\* so the next request of that certificate sweeps again.
THEOREM UsedCertsSupersede == Spec => []UsedCertSupersedes
<1>1. Init => UsedCertSupersedes
  BY DEF Init, UsedCertSupersedes
<1>2. TypeInv /\ UsedCertSupersedes /\ [Next]_vars => UsedCertSupersedes'
  <2> SUFFICES ASSUME TypeInv, UsedCertSupersedes, [Next]_vars PROVE UsedCertSupersedes'
    OBVIOUS
  <2>0. issued \in Nat /\ liveCerts \subseteq 1..issued /\ usedCerts \subseteq 1..issued
    BY CredentialConstants DEF TypeInv, TypeOK, Certs
  <2>1. CASE UNCHANGED certRows
    BY <2>1 DEF certRows, UsedCertSupersedes
  <2>2. ASSUME NEW r \in reqs, CompleteRenewal(r) PROVE UsedCertSupersedes'
    BY <2>0, <2>2 DEF CompleteRenewal, UsedCertSupersedes
  <2>3. ASSUME NEW r \in reqs, HandleRenew(r) PROVE UsedCertSupersedes'
    <3>1. /\ usedCerts' = usedCerts
          /\ liveCerts' \subseteq liveCerts \cup {issued + 1}
      BY <2>3 DEF HandleRenew, SupersedePendingClientCerts
    <3> QED BY <2>0, <3>1 DEF UsedCertSupersedes
  <2> QED BY <2>1, <2>2, <2>3, RowsChange
<1> QED BY <1>1, <1>2, TypeInit, TypeNext, PTL DEF Spec

-----------------------------------------------------------------------------
\* With a clock that never steps back, created_at orders tokens as they were
\* minted.
StampInv == \A t \in 1..minted : stamp[t] = t

\* Enrolment's one token is stamped first.
LEMMA StampInit == Init => StampInv
  BY CredentialConstants DEF Init, StampInv, Tokens

\* Only handleRotate writes created_at, and only of the token it mints.
LEMMA StampNext ==
    ASSUME ClockSteps = FALSE, TypeInv, StampInv, [Next]_vars
    PROVE  StampInv'
<1>0. minted \in Nat /\ stamp \in [Tokens -> 0..MaxTokens]
  BY CredentialConstants, SMTT(60) DEF TypeInv, TypeOK, Tokens
<1>1. CASE UNCHANGED tokenRows
  BY <1>1 DEF tokenRows, StampInv
<1>2. ASSUME NEW r \in reqs, CompleteFirstUse(r) \/ HandleRenew(r) PROVE StampInv'
  BY <1>2 DEF CompleteFirstUse, HandleRenew, StampInv
<1>3. ASSUME NEW r \in reqs, HandleRotate(r) PROVE StampInv'
  <2>1. /\ minted < MaxTokens /\ minted' = minted + 1
        /\ stamp' = [stamp EXCEPT ![minted + 1] = minted + 1]
    BY <1>3 DEF HandleRotate, Stamps
  <2> QED BY <1>0, <2>1, CredentialConstants DEF StampInv, Tokens
<1> QED BY <1>1, <1>2, <1>3, RowsChange, SMTT(60)

\* What a sweep leaves, with a clock that never steps back.
LEMMA Sweep ==
    ASSUME TypeInv, StampInv, NEW t \in 1..minted
    PROVE  RevokeCanaryTokensSupersededBy(t) = {u \in liveTokens : t <= u}
<1>1. liveTokens \subseteq 1..minted /\ minted \in Nat
  BY CredentialConstants DEF TypeInv, TypeOK, Tokens
<1>2. \A u \in liveTokens : stamp[u] = u
  BY <1>1 DEF StampInv
<1>3. stamp[t] = t
  BY DEF StampInv
<1>4. \A u \in liveTokens : u = t \/ stamp[u] >= stamp[t] <=> t <= u
  BY <1>1, <1>2, <1>3, SMTT(60)
<1> QED BY <1>4, ZenonT(60) DEF RevokeCanaryTokensSupersededBy

\* A request's token has a row.
LEMMA ReqToken ==
    ASSUME TypeInv, NEW r \in reqs
    PROVE  r.token \in 1..minted
<1>1. r \in Request /\ minted \in Nat
  BY CredentialConstants DEF TypeInv, TypeOK, Tokens
<1> QED BY <1>1, Presented, SMTT(60) DEF TypeInv, LoopInv

\* While birdcage's transactions commit and its clock does not step back, a
\* token that was used has no live predecessor, orphans of lost answers
\* included (CompleteCanaryTokenFirstUse).
THEOREM UsedTokensSupersede ==
    ASSUME MaxFaults = 0, ClockSteps = FALSE
    PROVE  Spec => []UsedTokenSupersedes
<1>1. Init => UsedTokenSupersedes
  BY DEF Init, UsedTokenSupersedes
<1>2. TypeInv /\ StampInv /\ UsedTokenSupersedes /\ [Next]_vars => UsedTokenSupersedes'
  <2> SUFFICES ASSUME TypeInv, StampInv, UsedTokenSupersedes, [Next]_vars
               PROVE  UsedTokenSupersedes'
    OBVIOUS
  <2>0. minted \in Nat /\ liveTokens \subseteq 1..minted /\ usedTokens \subseteq 1..minted
    BY CredentialConstants, SMTT(60) DEF TypeInv, TypeOK, Tokens
  <2>1. CASE UNCHANGED tokenRows
    BY <2>1 DEF tokenRows, UsedTokenSupersedes
  <2>2. ASSUME NEW r \in reqs, CompleteFirstUse(r) PROVE UsedTokenSupersedes'
    <3>1. r.token \in 1..minted
      BY ReqToken
    <3>2. RevokeCanaryTokensSupersededBy(r.token) = {u \in liveTokens : r.token <= u}
      BY <3>1, Sweep, SMTT(60)
    <3>3. ~Fault
      BY DEF Fault, TypeInv, TypeOK
    <3>4. /\ usedTokens' = usedTokens \cup {r.token}
          /\ liveTokens' = IF r.token \in usedTokens THEN liveTokens
                           ELSE {u \in liveTokens : r.token <= u}
      BY <2>2, <3>2, <3>3 DEF CompleteFirstUse
    <3> QED BY <2>0, <3>1, <3>4 DEF UsedTokenSupersedes
  <2>3. ASSUME NEW r \in reqs, HandleRotate(r) PROVE UsedTokenSupersedes'
    <3>1. liveTokens' = liveTokens \cup {minted + 1} /\ usedTokens' = usedTokens
      BY <2>3 DEF HandleRotate
    <3> QED BY <2>0, <3>1 DEF UsedTokenSupersedes
  <2>4. ASSUME NEW r \in reqs, HandleRenew(r) PROVE UsedTokenSupersedes'
    BY <2>4 DEF HandleRenew, UsedTokenSupersedes
  <2> QED BY <2>1, <2>2, <2>3, <2>4, RowsChange
<1>3. TypeInv /\ StampInv /\ [Next]_vars => StampInv'
  BY StampNext, ZenonT(60)
<1> QED BY <1>1, <1>2, <1>3, TypeInit, TypeNext, StampInit, PTL DEF Spec

-----------------------------------------------------------------------------
\* The file is never behind the memory, nothing from the memory's token on is
\* revoked, and a rotation under way holds a token newer than the file's.
TokenInv ==
    /\ token <= tokenFile
    /\ token..minted \subseteq liveTokens
    /\ \A r \in reqs : r.token <= token
    /\ \A r \in reqs : r.loop = "rotate" /\ ~r.late /\ r.at = "answer" => tokenFile <= r.result
    /\ rotator # "idle" => tokenFile <= newToken
    /\ rotator = "set" => tokenFile = newToken

\* An agent fresh from enrolment has its one token in memory and on disk.
LEMMA TokenInit == Init => TokenInv
  BY SMTT(60) DEF Init, TokenInv

\* A step of a request that leaves the tokens alone, or mints one.
LEMMA TokenMove ==
    ASSUME TypeInv, TokenInv, NEW r \in reqs, NEW s, Successor(r, s) \/ s = r,
           reqs' \subseteq (reqs \ {r}) \cup {s},
           minted' \in Int, token'..minted' \subseteq liveTokens',
           s.at = "answer" /\ s.loop = "rotate" => tokenFile <= s.result \/ s = r \/ s.late,
           UNCHANGED rotation
    PROVE  TokenInv'
<1> USE DEF rotation
<1>1. (\A q \in reqs : q.token <= token)'
  <2>1. s.token = r.token
    BY DEF Successor
  <2> QED BY <2>1, Zenon DEF TokenInv
<1>2. (\A q \in reqs : q.loop = "rotate" /\ ~q.late /\ q.at = "answer" => tokenFile <= q.result)'
  BY Zenon DEF TokenInv
<1> QED BY <1>1, <1>2 DEF TokenInv

\* The token invariant is inductive.
LEMMA TokenNext ==
    ASSUME TypeInv, StampInv, TokenInv, [Next]_vars
    PROVE  TokenInv'
<1>0. /\ minted \in Nat /\ token \in 1..minted /\ tokenFile \in 1..minted
      /\ newToken \in 0..minted /\ liveTokens \subseteq 1..minted
  BY CredentialConstants, SMTT(60) DEF TypeInv, TypeOK, Tokens
<1>1. CASE UNCHANGED vars
  BY <1>1, SMTT(60) DEF vars, tokenRows, rotation, TokenInv
<1>2. ASSUME NEW r \in reqs, Serve(r) \/ Refuse(r) \/ GiveUp(r)
      PROVE  TokenInv'
  <2>0. r \in Request
    BY SMTT(60) DEF TypeInv, TypeOK
  <2>1. CASE \/ LookupToken(r) \/ LookupCert(r) \/ CheckBinding(r) \/ HandleOther(r)
             \/ Refuse(r) \/ GiveUp(r)
    <3>a. PICK s : MovesOn(r, s)
      BY <2>1, ReadStep, ZenonT(60)
    <3>1. /\ s = r \/ Successor(r, s)
          /\ reqs' = (reqs \ {r}) \cup {s} \/ reqs' = reqs \ {r}
          /\ s.at = "answer" => s.loop = "other" \/ (s.at = r.at /\ s.result = r.result)
      BY <3>a DEF MovesOn
    <3>2. UNCHANGED <<tokenRows, rotation>>
      BY <2>1 DEF LookupToken, LookupCert, CheckBinding, HandleOther, Refuse, GiveUp
    <3>3. s.at = "answer" /\ s.loop = "rotate" => tokenFile <= s.result \/ s = r \/ s.late
      BY <3>1, Zenon DEF TokenInv, Successor
    <3>4. minted' \in Int /\ token'..minted' \subseteq liveTokens'
      BY <1>0, <3>2, SMTT(60) DEF tokenRows, rotation, TokenInv
    <3> QED BY <3>1, <3>2, <3>3, <3>4, TokenMove, SMTT(60)
  <2>2. CASE CompleteFirstUse(r)
    <3>1. r.token \in 1..minted /\ r.token <= token
      BY ReqToken DEF TokenInv
    <3>2. RevokeCanaryTokensSupersededBy(r.token) = {u \in liveTokens : r.token <= u}
      BY <3>1, Sweep, SMTT(60)
    <3>3. /\ liveTokens' = liveTokens \/ liveTokens' = {u \in liveTokens : r.token <= u}
          /\ UNCHANGED <<minted, rotation>>
      BY <2>2, <3>2, SMTT(60) DEF CompleteFirstUse
    <3>4. minted' \in Int /\ token'..minted' \subseteq liveTokens'
      BY <1>0, <3>1, <3>3, SMTT(60) DEF rotation, TokenInv
    <3>5. Successor(r, AfterTokenUse(r)) /\ AfterTokenUse(r).at # "answer"
      BY <2>0, Successors, ZenonT(60) DEF AfterTokenUse, Request
    <3>6. reqs' = (reqs \ {r}) \cup {AfterTokenUse(r)}
      BY <2>2, SMTT(60) DEF CompleteFirstUse, GoOn
    <3> QED BY <3>3, <3>4, <3>5, <3>6, TokenMove, SMTT(60)
  <2>3. CASE CompleteRenewal(r)
    <3> DEFINE s == [r EXCEPT !.at = "handler"]
    <3>1. Successor(r, s) /\ s.at # "answer"
      BY <2>0, Successors, ZenonT(60) DEF Request
    <3>2. reqs' = (reqs \ {r}) \cup {s} /\ UNCHANGED <<tokenRows, rotation>>
      BY <2>3 DEF CompleteRenewal, GoOn
    <3>3. minted' \in Int /\ token'..minted' \subseteq liveTokens'
      BY <1>0, <3>2, SMTT(60) DEF tokenRows, rotation, TokenInv
    <3> HIDE DEF s
    <3> QED BY <3>1, <3>2, <3>3, TokenMove, SMTT(60)
  <2>4. CASE HandleRotate(r)
    <3> DEFINE s == [r EXCEPT !.at = "answer", !.result = minted + 1]
    <3>1. minted + 1 \in 0..MaxTokens \cup 0..MaxCerts
      BY <1>0, <2>4, CredentialConstants, SMTT(60) DEF HandleRotate
    <3>2. Successor(r, s) /\ s.result = minted + 1
      BY <2>0, <3>1, Successors, ZenonT(60) DEF Request
    <3>3. /\ reqs' = (reqs \ {r}) \cup {s} /\ minted' = minted + 1
          /\ liveTokens' = liveTokens \cup {minted + 1} /\ UNCHANGED rotation
      BY <2>4, SMTT(60) DEF HandleRotate, GoOn
    <3> HIDE DEF s
    <3>4. minted' \in Int /\ token'..minted' \subseteq liveTokens' /\ tokenFile <= s.result
      BY <1>0, <3>2, <3>3, SMTT(60) DEF rotation, TokenInv
    <3> QED BY <3>2, <3>3, <3>4, TokenMove
  <2>5. CASE HandleRenew(r)
    <3> DEFINE s == [r EXCEPT !.at = "answer", !.result = issued + 1]
    <3>1. issued + 1 \in 0..MaxTokens \cup 0..MaxCerts
      BY <2>5, CredentialConstants, SMTT(60) DEF HandleRenew, TypeInv, TypeOK, Certs
    <3>2. Successor(r, s) /\ s.loop = "renew"
      BY <2>0, <2>5, <3>1, Successors, ZenonT(60) DEF HandleRenew, Successor
    <3>3. reqs' = (reqs \ {r}) \cup {s} /\ UNCHANGED <<minted, liveTokens, rotation>>
      BY <2>5, SMTT(60) DEF HandleRenew, GoOn
    <3> HIDE DEF s
    <3>4. minted' \in Int /\ token'..minted' \subseteq liveTokens'
      BY <1>0, <3>3, SMTT(60) DEF rotation, TokenInv
    <3> QED BY <3>2, <3>3, <3>4, TokenMove, SMTT(60)
  <2>6. CASE Answer(r)
    <3>1. /\ reqs' = reqs \ {r} /\ UNCHANGED <<tokenRows, token, tokenFile>>
          /\ \/ UNCHANGED <<rotator, newToken>>
             \/ /\ r.loop = "rotate" /\ ~r.late /\ r.at = "answer"
                /\ rotator' = "write" /\ newToken' = r.result
      BY <2>6, SMTT(60) DEF Answer, Finish
    <3> QED BY <3>1, SMTT(60) DEF TokenInv, tokenRows
  <2> QED BY <1>2, <2>1, <2>2, <2>3, <2>4, <2>5, <2>6, SMTT(60) DEF Serve
<1>3. ASSUME NEW loop \in Loops, NEW c \in pooled \cup {cert}, Post(loop, c)
      PROVE  TokenInv'
  <2> DEFINE q == [loop |-> loop, late |-> FALSE, token |-> token, cert |-> c,
                   at |-> "token", fresh |-> FALSE, result |-> 0]
  <2>1. q.token = token /\ q.at = "token"
    BY SMTT(60)
  <2>2. reqs' = reqs \cup {q} /\ UNCHANGED <<tokenRows, rotation>>
    BY <1>3, SMTT(60) DEF Post
  <2> HIDE DEF q
  <2> QED BY <1>0, <2>1, <2>2, SMTT(60) DEF TokenInv, tokenRows, rotation
<1>4. CASE WriteToken
  <2>1. \A r \in reqs : r.loop = "rotate" => r.late
    BY <1>4, ZenonT(60) DEF WriteToken, TypeInv, LoopInv
  <2>2. /\ UNCHANGED <<reqs, token, minted, liveTokens>>
        /\ rotator = "write"
        /\ \/ tokenFile' = newToken /\ rotator' = "set" /\ newToken' = newToken
           \/ tokenFile' \in {tokenFile, newToken} /\ rotator' = "idle"
    BY <1>4 DEF WriteToken, tokenRows
  <2>3. (\A r \in reqs : r.loop = "rotate" /\ ~r.late /\ r.at = "answer" => tokenFile <= r.result)'
    BY <2>1, <2>2, ZenonT(60)
  <2> QED BY <1>0, <2>2, <2>3 DEF TokenInv
<1>5. CASE SetToken
  <2>1. /\ UNCHANGED <<reqs, tokenFile, minted, liveTokens>>
        /\ token' = tokenFile /\ rotator' = "idle"
    BY <1>5, SMTT(60) DEF SetToken, tokenRows, TokenInv
  <2>2. (\A r \in reqs : r.token <= token)'
    <3>1. \A r \in reqs : r.token \in Int
      BY Presented, SMTT(60) DEF TypeInv, TypeOK
    <3> QED BY <1>0, <2>1, <3>1, SMTT(60) DEF TokenInv
  <2> QED BY <1>0, <2>1, <2>2, SMTT(60) DEF TokenInv
<1>6. CASE PersistPair \/ SwapClientCert \/ HalfLife
  BY <1>6, SMTT(60) DEF PersistPair, SwapClientCert, HalfLife, tokenRows, rotation, TokenInv
<1>7. CASE Crash
  <2>1. /\ UNCHANGED <<tokenFile, minted, liveTokens>> /\ reqs' \subseteq reqs
        /\ token' = tokenFile /\ rotator' = "idle"
    BY <1>7, SMTT(60) DEF Crash, tokenRows
  <2>2. (\A r \in reqs : r.token <= token)'
    <3>1. \A r \in reqs : r.token \in Int
      BY Presented DEF TypeInv, TypeOK
    <3> QED BY <1>0, <2>1, <3>1, SMTT(60) DEF TokenInv
  <2> QED BY <1>0, <2>1, <2>2, SMTT(60) DEF TokenInv
<1> QED BY <1>1, <1>2, <1>3, <1>4, <1>5, <1>6, <1>7, SMTT(60) DEF Next, Agent

\* While birdcage's clock does not step back, no token that the agent
\* presents, or would boot with, is revoked under it: through any lost or
\* late answer, failed write and crash (rotate's "three crash windows").
THEOREM TokensNeverLostByRotation ==
    ASSUME ClockSteps = FALSE
    PROVE  Spec => []TokensNeverLost
<1>1. TypeInv /\ TokenInv => TokensNeverLost
  <2> SUFFICES ASSUME TypeInv, TokenInv PROVE TokensNeverLost
    BY SMTT(60)
  <2>1. token \in 1..minted /\ tokenFile \in 1..minted /\ minted \in Nat
    BY CredentialConstants DEF TypeInv, TypeOK, Tokens
  <2> QED BY <2>1 DEF TokenInv, TokensNeverLost
<1>2. TypeInv /\ StampInv /\ [Next]_vars => StampInv'
  BY StampNext, ZenonT(60)
<1>3. TypeInv /\ StampInv /\ TokenInv /\ [Next]_vars => TokenInv'
  BY TokenNext, SMTT(60)
<1> QED BY <1>1, <1>2, <1>3, TypeInit, TypeNext, StampInit, TokenInit, PTL DEF Spec

-----------------------------------------------------------------------------
\* Nothing the agent presented is newer than the certificate it has, the pair
\* on disk is never older, a renewal under way holds one at least as new, and
\* the live certificates ahead of the agent's are at most one.
PendingInv ==
    /\ \A r \in reqs : r.cert <= cert
    /\ \A c \in pooled \cup usedCerts : c <= cert
    /\ cert <= certFile
    /\ renewer # "idle" => cert <= newCert
    /\ renewer = "swap" => certFile = newCert
    /\ \A r \in reqs : r.loop = "renew" /\ ~r.late /\ r.at = "answer" => cert <= r.result
    /\ \A c, d \in liveCerts : c > cert /\ d > cert => c = d

\* An agent fresh from enrolment has its one certificate and no other is live.
LEMMA PendingInit == Init => PendingInv
  BY SMTT(60) DEF Init, PendingInv

\* A step of a request that issues no certificate.
LEMMA PendingMove ==
    ASSUME TypeInv, PendingInv, NEW r \in reqs, NEW s, Successor(r, s) \/ s = r,
           reqs' \subseteq (reqs \ {r}) \cup {s},
           s.at = "answer" /\ s.loop = "renew" => cert <= s.result \/ s = r \/ s.late,
           pooled' \subseteq pooled \cup {r.cert},
           usedCerts' \subseteq usedCerts \cup {r.cert},
           \A c, d \in liveCerts' : c > cert /\ d > cert => c = d,
           UNCHANGED <<cert, certFile, renewer, newCert>>
    PROVE  PendingInv'
<1>1. (\A q \in reqs : q.cert <= cert)'
  <2>1. s.cert = r.cert
    BY DEF Successor
  <2> QED BY <2>1, ZenonT(60) DEF PendingInv
<1>2. (\A c \in pooled \cup usedCerts : c <= cert)'
  BY Zenon DEF PendingInv
<1>3. (\A q \in reqs : q.loop = "renew" /\ ~q.late /\ q.at = "answer" => cert <= q.result)'
  BY Zenon DEF PendingInv
<1> QED BY <1>1, <1>2, <1>3 DEF PendingInv

\* The pending-certificate invariant is inductive.
LEMMA PendingNext ==
    ASSUME TypeInv, PendingInv, [Next]_vars
    PROVE  PendingInv'
<1>0. /\ issued \in Nat /\ cert \in 1..issued /\ certFile \in 1..issued
      /\ newCert \in 0..issued /\ liveCerts \subseteq 1..issued
      /\ pooled \subseteq 1..issued /\ usedCerts \subseteq 1..issued
  BY CredentialConstants, SMTT(60) DEF TypeInv, TypeOK, Certs
<1>i. \A r \in reqs : r \in Request /\ r.cert \in Int
  BY Presented, SMTT(60) DEF TypeInv, TypeOK
<1>o. \A c, d \in liveCerts : c > cert /\ d > cert => c = d
  BY SMTT(60) DEF PendingInv
<1>1. CASE UNCHANGED vars
  BY <1>1, SMTT(60) DEF vars, certRows, renewal, conns, PendingInv
<1>2. ASSUME NEW r \in reqs, Serve(r) \/ Refuse(r) \/ GiveUp(r)
      PROVE  PendingInv'
  <2>0. r \in Request
    BY SMTT(60) DEF TypeInv, TypeOK
  <2>1. CASE \/ LookupToken(r) \/ LookupCert(r) \/ CheckBinding(r) \/ HandleOther(r)
             \/ Refuse(r) \/ GiveUp(r)
    <3>a. PICK s : MovesOn(r, s)
      BY <2>1, ReadStep, ZenonT(60)
    <3>1. /\ s = r \/ Successor(r, s)
          /\ reqs' = (reqs \ {r}) \cup {s} \/ reqs' = reqs \ {r}
          /\ s.at = "answer" => s.loop = "other" \/ (s.at = r.at /\ s.result = r.result)
      BY <3>a DEF MovesOn
    <3>2. UNCHANGED <<certRows, renewal>>
      BY <2>1, SMTT(60) DEF LookupToken, LookupCert, CheckBinding, HandleOther, Refuse, GiveUp
    <3>3. pooled' \subseteq pooled \cup {r.cert}
      BY <2>1, SMTT(60) DEF LookupToken, LookupCert, CheckBinding, HandleOther, Refuse, GiveUp, GoOn, Finish, conns
    <3>4. s.at = "answer" /\ s.loop = "renew" => cert <= s.result \/ s = r \/ s.late
      BY <3>1, ZenonT(60) DEF PendingInv, Successor
    <3> QED BY <1>o, <3>1, <3>2, <3>3, <3>4, PendingMove, SMTT(60) DEF certRows, renewal
  <2>2. CASE CompleteFirstUse(r)
    <3>1. Successor(r, AfterTokenUse(r)) /\ AfterTokenUse(r).at # "answer"
      BY <2>0, Successors, ZenonT(60) DEF AfterTokenUse, Request
    <3>2. reqs' = (reqs \ {r}) \cup {AfterTokenUse(r)} /\ UNCHANGED <<certRows, renewal, conns>>
      BY <2>2, SMTT(60) DEF CompleteFirstUse, GoOn
    <3> QED BY <1>o, <3>1, <3>2, PendingMove, SMTT(60) DEF certRows, renewal, conns
  <2>3. CASE CompleteRenewal(r)
    <3> DEFINE s == [r EXCEPT !.at = "handler"]
    <3>1. Successor(r, s) /\ s.at # "answer"
      BY <2>0, Successors, ZenonT(60) DEF Request
    <3>2. /\ reqs' = (reqs \ {r}) \cup {s} /\ UNCHANGED <<renewal, conns>>
          /\ usedCerts' \subseteq usedCerts \cup {r.cert} /\ liveCerts' \subseteq liveCerts
      BY <2>3, SMTT(60) DEF CompleteRenewal, GoOn
    <3> HIDE DEF s
    <3> QED BY <1>o, <3>1, <3>2, PendingMove, SMTT(60) DEF renewal, conns
  <2>4. CASE HandleRotate(r)
    <3> DEFINE s == [r EXCEPT !.at = "answer", !.result = minted + 1]
    <3>1. minted + 1 \in 0..MaxTokens \cup 0..MaxCerts
      BY <2>4, CredentialConstants, SMTT(60) DEF HandleRotate, TypeInv, TypeOK, Tokens
    <3>2. Successor(r, s) /\ s.loop = "rotate"
      BY <2>0, <2>4, <3>1, Successors, ZenonT(60) DEF HandleRotate, Successor
    <3>3. reqs' = (reqs \ {r}) \cup {s} /\ UNCHANGED <<certRows, renewal, conns>>
      BY <2>4 DEF HandleRotate, GoOn
    <3> HIDE DEF s
    <3> QED BY <1>o, <3>2, <3>3, PendingMove, SMTT(60) DEF certRows, renewal, conns
  <2>5. CASE HandleRenew(r)
    <3> DEFINE s == [r EXCEPT !.at = "answer", !.result = issued + 1]
    <3>1. issued + 1 \in 0..MaxTokens \cup 0..MaxCerts
      BY <1>0, <2>5, CredentialConstants, SMTT(60) DEF HandleRenew
    <3>2. Successor(r, s) /\ s.result = issued + 1
      BY <2>0, <3>1, Successors, ZenonT(60) DEF Request
    <3>3. /\ reqs' = (reqs \ {r}) \cup {s} /\ UNCHANGED <<renewal, conns, usedCerts>>
          /\ liveCerts' = SupersedePendingClientCerts(r.cert) \cup {issued + 1}
      BY <2>5 DEF HandleRenew, GoOn
    <3> HIDE DEF s
    <3>4. \A c \in liveCerts' : c > cert => c = issued + 1
      <4>1. \A c \in SupersedePendingClientCerts(r.cert) : c <= cert
        BY <1>0, <1>i, SMTT(60) DEF SupersedePendingClientCerts, PendingInv
      <4>2. \A c \in SupersedePendingClientCerts(r.cert) : c \in Int
        BY <1>0, SMTT(60) DEF SupersedePendingClientCerts
      <4>3. \A c \in SupersedePendingClientCerts(r.cert) : ~(c > cert)
        BY <1>0, <4>1, <4>2, SMTT(60)
      <4> QED BY <3>3, <4>3, ZenonT(60)
    <3>5. cert <= s.result
      BY <1>0, <3>2
    <3>6. \A c, d \in liveCerts' : c > cert /\ d > cert => c = d
      BY <3>4, SMTT(60)
    <3>7. /\ UNCHANGED <<cert, certFile, renewer, newCert>>
          /\ pooled' \subseteq pooled \cup {r.cert} /\ usedCerts' \subseteq usedCerts \cup {r.cert}
      BY <3>3, SMTT(60) DEF renewal, conns
    <3> QED BY <3>2, <3>3, <3>5, <3>6, <3>7, PendingMove, SMTT(60)
  <2>6. CASE Answer(r)
    <3>1. /\ reqs' = reqs \ {r} /\ UNCHANGED <<certRows, cert, certFile>>
          /\ pooled' \subseteq pooled \cup {r.cert}
          /\ \/ UNCHANGED <<renewer, newCert>>
             \/ /\ r.loop = "renew" /\ ~r.late /\ r.at = "answer"
                /\ renewer' = "persist" /\ newCert' = r.result
      BY <2>6, SMTT(60) DEF Answer, Finish
    <3> QED BY <3>1, SMTT(60) DEF PendingInv, certRows
  <2> QED BY <1>2, <2>1, <2>2, <2>3, <2>4, <2>5, <2>6, SMTT(60) DEF Serve
<1>3. ASSUME NEW loop \in Loops, NEW c \in pooled \cup {cert}, Post(loop, c)
      PROVE  PendingInv'
  <2> DEFINE q == [loop |-> loop, late |-> FALSE, token |-> token, cert |-> c,
                   at |-> "token", fresh |-> FALSE, result |-> 0]
  <2>1. q.cert = c /\ q.at = "token"
    BY SMTT(60)
  <2>2. reqs' = reqs \cup {q} /\ UNCHANGED <<certRows, renewal, pooled>>
    BY <1>3, SMTT(60) DEF Post
  <2>3. c <= cert
    BY <1>0, SMTT(60) DEF PendingInv
  <2> HIDE DEF q
  <2> QED BY <1>0, <2>1, <2>2, <2>3, SMTT(60) DEF PendingInv, certRows, renewal
<1>4. CASE WriteToken \/ SetToken
  BY <1>4, SMTT(60) DEF WriteToken, SetToken, certRows, renewal, conns, PendingInv
<1>5. CASE PersistPair
  <2>1. /\ UNCHANGED <<reqs, certRows, cert, pooled>>
        /\ renewer = "persist"
        /\ \/ certFile' = newCert /\ renewer' = "swap" /\ newCert' = newCert
           \/ certFile' \in {certFile, newCert} /\ renewer' = "idle"
    BY <1>5, SMTT(60) DEF PersistPair, conns
  <2> QED BY <2>1, SMTT(60) DEF PendingInv, certRows
<1>6. ASSUME /\ cert' = certFile /\ renewer' = "idle" /\ pooled' = {}
             /\ UNCHANGED <<certFile, certRows>>
             /\ reqs' \subseteq reqs
             /\ \A r \in reqs' : r.loop = "renew" => r.late
      PROVE  PendingInv'
  <2>1. (\A r \in reqs : r.cert <= cert)'
    BY <1>0, <1>6, <1>i DEF PendingInv
  <2>2. (\A c \in pooled \cup usedCerts : c <= cert)'
    <3>1. \A c \in usedCerts : c \in Int /\ c <= cert /\ cert <= certFile
      BY <1>0 DEF PendingInv
    <3>2. \A c \in usedCerts : c <= certFile
      BY <1>0, <3>1, SMTT(60)
    <3>3. cert' = certFile /\ pooled' = {} /\ usedCerts' = usedCerts
      BY <1>6 DEF certRows
    <3> QED BY <3>2, <3>3, ZenonT(60)
  <2>3. (\A c, d \in liveCerts : c > cert /\ d > cert => c = d)'
    <3>1. cert <= certFile /\ cert' = certFile /\ liveCerts' = liveCerts
      BY <1>6 DEF PendingInv, certRows
    <3>2. \A c \in liveCerts : c > certFile => c > cert
      BY <1>0, <3>1
    <3> QED BY <1>o, <3>1, <3>2, ZenonT(60)
  <2>4. (\A r \in reqs : r.loop = "renew" /\ ~r.late /\ r.at = "answer" => cert <= r.result)'
    BY <1>6, Zenon
  <2> QED BY <1>0, <1>6, <2>1, <2>2, <2>3, <2>4, SMTT(60) DEF PendingInv
<1>7. CASE SwapClientCert
  <2>1. \A r \in reqs : r.loop = "renew" => r.late
    BY <1>7, Zenon DEF SwapClientCert, TypeInv, LoopInv
  <2>2. certFile = newCert
    BY <1>7, SMTT(60) DEF SwapClientCert, PendingInv
  <2> QED BY <1>6, <1>7, <2>1, <2>2 DEF SwapClientCert
<1>8. CASE HalfLife
  BY <1>8, SMTT(60) DEF HalfLife, certRows, PendingInv
<1>9. CASE Crash
  BY <1>6, <1>9 DEF Crash
<1> QED BY <1>1, <1>2, <1>3, <1>4, <1>5, <1>7, <1>8, <1>9, SMTT(60) DEF Next, Agent

\* However renewals are lost, late or retried, whatever fails and whenever
\* the agent dies, handleRenew leaves one pending certificate at most ahead
\* of the agent's own (SupersedePendingClientCerts).
THEOREM OnePendingCertificate == Spec => []OnePending
<1>1. TypeInv /\ PendingInv => OnePending
  <2> SUFFICES ASSUME TypeInv, PendingInv PROVE OnePending
    OBVIOUS
  <2> DEFINE ahead == {c \in liveCerts : c > cert}
  <2>1. CASE ahead = {}
    BY <2>1, FS_EmptySet DEF OnePending
  <2>2. ASSUME NEW c \in ahead PROVE OnePending
    <3>1. ahead = {c}
      BY DEF PendingInv
    <3>2. Cardinality(ahead) = 1
      BY <3>1, FS_Singleton
    <3> QED BY <3>2, SMTT(60) DEF OnePending
  <2> QED BY <2>1, <2>2
<1>2. TypeInv /\ PendingInv /\ [Next]_vars => PendingInv'
  BY PendingNext
<1> QED BY <1>1, <1>2, TypeInit, TypeNext, PendingInit, PTL DEF Spec
-----------------------------------------------------------------------------
\* The newest certificate is always live, and every live token is bound to
\* it: a renewal moves the bindings of all of them at once, and a rotation
\* binds the token it mints to the newest live certificate.
BoundInv ==
    /\ issued \in liveCerts
    /\ \A t \in liveTokens : bound[t] = issued

\* Enrolment binds its token to its certificate.
LEMMA BoundInit == Init => BoundInv
  BY CredentialConstants DEF Init, BoundInv, Tokens

\* Only these steps write a binding or a certificate's row.
LEMMA BoundNext ==
    ASSUME TypeInv, BoundInv, [Next]_vars
    PROVE  BoundInv'
<1>0. /\ minted \in 1..MaxTokens /\ liveTokens \subseteq 1..minted /\ issued \in 1..MaxCerts
      /\ liveCerts \subseteq 1..issued /\ bound \in [1..MaxTokens -> 0..MaxCerts]
  BY CredentialConstants, SMTT(60) DEF TypeInv, TypeOK, Tokens, Certs
<1>t. /\ \A t \in liveTokens : t \in 1..MaxTokens /\ t \in 1..minted
      /\ \A t \in 1..minted : t \in 1..MaxTokens /\ t # minted + 1
  BY <1>0, CredentialConstants
<1>1. CASE UNCHANGED <<tokenRows, certRows>>
  BY <1>1 DEF tokenRows, certRows, BoundInv
<1>2. ASSUME NEW r \in reqs, CompleteFirstUse(r) PROVE BoundInv'
  BY <1>2 DEF CompleteFirstUse, RevokeCanaryTokensSupersededBy, certRows, BoundInv
<1>3. ASSUME NEW r \in reqs, CompleteRenewal(r) PROVE BoundInv'
  <2>1. r.cert \in Int /\ r.cert <= issued
    BY Presented DEF TypeInv, TypeOK, LoopInv
  <2>2. /\ UNCHANGED <<issued, liveTokens, bound>>
        /\ liveCerts' = liveCerts \/ liveCerts' = {c \in liveCerts : c >= r.cert}
    BY <1>3 DEF CompleteRenewal, tokenRows
  <2> QED BY <1>0, <2>1, <2>2, SMTT(60) DEF BoundInv
<1>4. ASSUME NEW r \in reqs, HandleRotate(r) PROVE BoundInv'
  <2>1. /\ minted < MaxTokens /\ liveTokens' = liveTokens \cup {minted + 1}
        /\ UNCHANGED <<issued, liveCerts>>
    BY <1>4 DEF HandleRotate, certRows
  <2>2. PICK c \in CurrentClientCert : bound' = [bound EXCEPT ![minted + 1] = c]
    BY <1>4, ZenonT(60) DEF HandleRotate
  <2>3. c = issued
    BY <1>0 DEF CurrentClientCert, BoundInv
  <2>4. bound'[minted + 1] = issued
    <3>1. minted + 1 \in 1..MaxTokens
      BY <1>0, <2>1, CredentialConstants
    <3> QED BY <1>0, <2>2, <2>3, <3>1, Zenon
  <2>5. \A t \in 1..minted : bound'[t] = bound[t]
    BY <1>0, <1>t, <2>2, Zenon
  <2> QED BY <1>t, <2>1, <2>4, <2>5, ZenonT(60) DEF BoundInv
<1>5. ASSUME NEW r \in reqs, HandleRenew(r) PROVE BoundInv'
  <2>1. /\ issued' = issued + 1 /\ issued + 1 \in liveCerts' /\ liveTokens' = liveTokens
        /\ bound' = [t \in Tokens |-> IF t \in liveTokens THEN issued + 1 ELSE bound[t]]
    BY <1>5 DEF HandleRenew
  <2>2. \A t \in liveTokens : bound'[t] = issued + 1
    BY <1>t, <2>1, Zenon DEF Tokens
  <2> QED BY <2>1, <2>2, Zenon DEF BoundInv
<1> QED BY <1>1, <1>2, <1>3, <1>4, <1>5, RowsChange, SMTT(60)

\* So a live token is accepted with every live certificate: the newest one, or
\* an older one, which is live only while the newest is unused.
LEMMA LivePairs ==
    ASSUME TypeInv, BoundInv, UsedCertSupersedes, NEW t \in liveTokens, NEW c \in liveCerts
    PROVE  TokenBoundToCert(t, c)
<1>1. issued \in Nat /\ c \in 1..issued /\ usedCerts \subseteq 1..issued
  BY CredentialConstants DEF TypeInv, TypeOK, Certs
<1>2. bound[t] = issued /\ issued \in liveCerts
  BY DEF BoundInv
<1>3. issued \in usedCerts => c = issued
  BY <1>1 DEF UsedCertSupersedes
<1> QED BY <1>1, <1>2, <1>3 DEF TokenBoundToCert


\* A request whose token and certificate are both live is not refused over
\* the binding between them (checkClientCertificate), whatever the clock,
\* the faults, the late requests and the crashes: handleRenew and
\* handleRotate keep every live token bound to the newest certificate.
THEOREM LivePairsBound == Spec => []LivePairsStayBound
<1>1. TypeInv /\ BoundInv /\ UsedCertSupersedes => LivePairsStayBound
  BY LivePairs DEF LivePairsStayBound
<1>2. TypeInv /\ BoundInv /\ [Next]_vars => BoundInv'
  BY BoundNext
<1>3. Init => UsedCertSupersedes
  BY DEF Init, UsedCertSupersedes
<1> QED BY <1>1, <1>2, <1>3, TypeInit, TypeNext, BoundInit, UsedCertsSupersede, PTL DEF Spec

-----------------------------------------------------------------------------
\* No request outlives the agent's wait for it.
NoLate == \A r \in reqs : ~r.late

\* The renewal's own requests present the certificate the agent has, the one
\* a renewal under way was answered with is the newest, and the agent's own
\* is live.
RenewInv ==
    /\ aged <= cert
    /\ cert <= aged => \A r \in reqs : r.cert = cert
    /\ cert <= aged => pooled \subseteq {cert}
    /\ \A r \in reqs : r.loop = "renew" => r.cert = cert
    /\ \A r \in reqs : r.loop = "renew" /\ r.at = "answer" => r.result = issued /\ cert < r.result
    /\ renewer # "idle" => newCert = issued /\ cert < newCert
    /\ cert \in liveCerts

\* The pair on disk is live, and ahead of the one in memory only until the
\* swap.
FileInv ==
    /\ certFile \in liveCerts
    /\ renewer # "swap" => certFile = cert

\* The working pair of an agent fresh from enrolment.
LEMMA WorkInit == Init => NoLate /\ RenewInv /\ FileInv
  BY DEF Init, NoLate, RenewInv, FileInv

\* With nobody late, no step makes a request late.
LEMMA NoLateNext ==
    ASSUME MaxLate = 0, TypeInv, NoLate, [Next]_vars
    PROVE  NoLate'
<1>1. CASE UNCHANGED vars
  BY <1>1 DEF vars, NoLate
<1>2. ASSUME NEW r \in reqs, Serve(r) \/ Refuse(r) \/ GiveUp(r)
      PROVE  NoLate'
  <2>0. r \in Request /\ ~r.late
    BY DEF TypeInv, TypeOK, NoLate
  <2>1. CASE GiveUp(r)
    <3>1. {s \in reqs : s.late} = {}
      BY Zenon DEF NoLate
    <3>2. ~(Cardinality({s \in reqs : s.late}) < MaxLate)
      BY <3>1, FS_EmptySet
    <3>3. reqs' = reqs \ {r}
      BY <2>1, <3>2, Zenon DEF GiveUp
    <3> QED BY <3>3, Zenon DEF NoLate
  <2>2. ASSUME NEW s, ~s.late, reqs' = (reqs \ {r}) \cup {s} \/ reqs' = reqs \ {r}
        PROVE  NoLate'
    BY <2>2, Zenon DEF NoLate
  <2>3. CASE LookupToken(r) \/ LookupCert(r) \/ CheckBinding(r) \/ HandleOther(r)
    <3>1. ~[r EXCEPT !.at = "cert"].late /\ ~[r EXCEPT !.at = "tokenUse"].late
          /\ ~[r EXCEPT !.at = "answer"].late
          /\ ~[r EXCEPT !.at = "binding", !.fresh = r.cert \notin usedCerts].late
      BY <2>0, Zenon DEF Request
    <3> QED BY <2>0, <2>2, <2>3, <3>1, ZenonT(60)
        DEF LookupToken, LookupCert, CheckBinding, HandleOther, GoOn, Finish
  <2>4. CASE CompleteFirstUse(r) \/ CompleteRenewal(r)
    <3>1. ~AfterTokenUse(r).late /\ ~[r EXCEPT !.at = "handler"].late
      BY <2>0, Zenon DEF Request, AfterTokenUse
    <3> QED BY <2>2, <2>4, <3>1, ZenonT(60) DEF CompleteFirstUse, CompleteRenewal, GoOn
  <2>5. CASE HandleRotate(r) \/ HandleRenew(r)
    <3>1. ~[r EXCEPT !.at = "answer", !.result = minted + 1].late
          /\ ~[r EXCEPT !.at = "answer", !.result = issued + 1].late
      BY <2>0, Zenon DEF Request
    <3> QED BY <2>2, <2>5, <3>1, ZenonT(60) DEF HandleRotate, HandleRenew, GoOn
  <2>6. CASE Answer(r) \/ Refuse(r)
    BY <2>0, <2>2, <2>6, ZenonT(60) DEF Answer, Refuse, Finish
  <2> QED BY <1>2, <2>1, <2>3, <2>4, <2>5, <2>6, ZenonT(60) DEF Serve
<1>3. ASSUME NEW loop \in Loops, NEW c \in pooled \cup {cert}, Post(loop, c)
      PROVE  NoLate'
  <2> DEFINE q == [loop |-> loop, late |-> FALSE, token |-> token, cert |-> c,
                   at |-> "token", fresh |-> FALSE, result |-> 0]
  <2>1. ~q.late
    BY Zenon
  <2>2. reqs' = reqs \cup {q}
    BY <1>3, Zenon DEF Post
  <2> HIDE DEF q
  <2> QED BY <2>1, <2>2, Zenon DEF NoLate
<1>4. CASE Agent \/ HalfLife \/ Crash
  BY <1>4, Zenon DEF Agent, WriteToken, SetToken, PersistPair, SwapClientCert, HalfLife, Crash, NoLate
<1> QED BY <1>1, <1>2, <1>3, <1>4, ZenonT(60) DEF Next

\* A step of a request that issues no certificate.
LEMMA RenewMove ==
    ASSUME TypeInv, RenewInv, NEW r \in reqs, NEW s, Successor(r, s) \/ s = r,
           reqs' \subseteq (reqs \ {r}) \cup {s},
           s.at = "answer" => s.loop # "renew" \/ (r.at = "answer" /\ s.result = r.result),
           pooled' \subseteq pooled \cup {r.cert}, cert \in liveCerts',
           UNCHANGED <<cert, aged, renewer, newCert, issued>>
    PROVE  RenewInv'
<1>0. s.cert = r.cert /\ s.loop = r.loop
  BY DEF Successor
<1>1. (cert <= aged => \A q \in reqs : q.cert = cert)'
  BY <1>0, Zenon DEF RenewInv
<1>2. (cert <= aged => pooled \subseteq {cert})'
  BY <1>0, Zenon DEF RenewInv
<1>3. (\A q \in reqs : q.loop = "renew" => q.cert = cert)'
  BY <1>0, Zenon DEF RenewInv
<1>4. (\A q \in reqs : q.loop = "renew" /\ q.at = "answer" => q.result = issued /\ cert < q.result)'
  BY <1>0, ZenonT(60) DEF RenewInv
<1> QED BY <1>1, <1>2, <1>3, <1>4, ZenonT(60) DEF RenewInv

\* Each step keeps the working pair, and the pair on disk while nothing
\* fails: a renewal supersedes no certificate the agent has, because its own
\* request is the only renewal under way and presents that certificate.
LEMMA RenewNext ==
    ASSUME TypeInv, BoundInv, PendingInv, NoLate, RenewInv, [Next]_vars,
           FileInv \/ MaxCrashes = 0
    PROVE  RenewInv'
<1>0. /\ issued \in Nat /\ cert \in 1..issued /\ certFile \in 1..issued
      /\ newCert \in 0..issued /\ aged \in 0..issued /\ liveCerts \subseteq 1..issued
  BY CredentialConstants, SMTT(60) DEF TypeInv, TypeOK, Certs
<1>1. CASE UNCHANGED vars
  BY <1>1, SMTT(60) DEF vars, certRows, renewal, conns, RenewInv
<1>2. ASSUME NEW r \in reqs, Serve(r) \/ Refuse(r) \/ GiveUp(r)
      PROVE  RenewInv'
  <2>0. r \in Request /\ r.cert \in Int /\ r.cert <= cert /\ ~r.late /\ cert \in liveCerts
    BY Presented, SMTT(60) DEF TypeInv, TypeOK, PendingInv, NoLate, RenewInv
  <2>1. CASE \/ LookupToken(r) \/ LookupCert(r) \/ CheckBinding(r) \/ HandleOther(r)
             \/ Refuse(r) \/ GiveUp(r)
    <3>a. PICK s : MovesOn(r, s)
      BY <2>1, ReadStep, ZenonT(60)
    <3>1. /\ s = r \/ Successor(r, s)
          /\ reqs' \subseteq (reqs \ {r}) \cup {s}
          /\ s.at = "answer" => s.loop = "other" \/ (r.at = "answer" /\ s.result = r.result)
      BY <3>a, ZenonT(60) DEF MovesOn
    <3>2. UNCHANGED <<certRows, renewal>> /\ pooled' \subseteq pooled \cup {r.cert}
      BY <2>1, SMTT(60) DEF LookupToken, LookupCert, CheckBinding, HandleOther, Refuse, GiveUp, GoOn, Finish, conns
    <3> QED BY <2>0, <3>1, <3>2, RenewMove, SMTT(60) DEF certRows, renewal
  <2>2. CASE CompleteFirstUse(r)
    <3>1. Successor(r, AfterTokenUse(r)) /\ AfterTokenUse(r).at # "answer"
      BY <2>0, Successors, ZenonT(60) DEF AfterTokenUse, Request
    <3>2. reqs' = (reqs \ {r}) \cup {AfterTokenUse(r)} /\ UNCHANGED <<certRows, renewal, conns>>
      BY <2>2, SMTT(60) DEF CompleteFirstUse, GoOn
    <3> QED BY <2>0, <3>1, <3>2, RenewMove, SMTT(60) DEF certRows, renewal, conns
  <2>3. CASE CompleteRenewal(r)
    <3> DEFINE s == [r EXCEPT !.at = "handler"]
    <3>1. Successor(r, s) /\ s.at # "answer"
      BY <2>0, Successors, ZenonT(60) DEF Request
    <3>2. /\ reqs' = (reqs \ {r}) \cup {s} /\ UNCHANGED <<issued, renewal, conns>>
          /\ liveCerts' = liveCerts \/ liveCerts' = {c \in liveCerts : c >= r.cert}
      BY <2>3, SMTT(60) DEF CompleteRenewal, GoOn
    <3> HIDE DEF s
    <3>3. cert \in liveCerts'
      BY <1>0, <2>0, <3>2, SMTT(60)
    <3> QED BY <3>1, <3>2, <3>3, RenewMove, SMTT(60) DEF renewal, conns
  <2>4. CASE HandleRotate(r)
    <3> DEFINE s == [r EXCEPT !.at = "answer", !.result = minted + 1]
    <3>1. minted + 1 \in 0..MaxTokens \cup 0..MaxCerts
      BY <2>4, CredentialConstants, SMTT(60) DEF HandleRotate, TypeInv, TypeOK, Tokens
    <3>2. Successor(r, s) /\ s.loop = "rotate"
      BY <2>0, <2>4, <3>1, Successors, ZenonT(60) DEF HandleRotate, Successor
    <3>3. reqs' = (reqs \ {r}) \cup {s} /\ UNCHANGED <<certRows, renewal, conns>>
      BY <2>4 DEF HandleRotate, GoOn
    <3> HIDE DEF s
    <3> QED BY <2>0, <3>2, <3>3, RenewMove, SMTT(60) DEF certRows, renewal, conns
  <2>5. CASE HandleRenew(r)
    <3> DEFINE s == [r EXCEPT !.at = "answer", !.result = issued + 1]
    <3>1. issued + 1 \in 0..MaxTokens \cup 0..MaxCerts
      BY <1>0, <2>5, CredentialConstants, SMTT(60) DEF HandleRenew
    <3>2. Successor(r, s) /\ s.result = issued + 1
      BY <2>0, <3>1, Successors, ZenonT(60) DEF Request
    <3>3. /\ reqs' = (reqs \ {r}) \cup {s} /\ UNCHANGED <<renewal, conns>>
          /\ issued' = issued + 1 /\ r.loop = "renew"
          /\ liveCerts' = SupersedePendingClientCerts(r.cert) \cup {issued + 1}
      BY <2>5, SMTT(60) DEF HandleRenew, GoOn
    <3> HIDE DEF s
    <3>4. r.cert = cert /\ s.cert = cert /\ s.loop = "renew"
      BY <3>2, <3>3, SMTT(60) DEF RenewInv, Successor
    <3>5. cert \in liveCerts'
      BY <1>0, <2>0, <3>3, <3>4, SMTT(60) DEF SupersedePendingClientCerts
    <3>6. renewer = "idle"
      BY <2>0, <3>3, ZenonT(60) DEF TypeInv, LoopInv
    <3>7. \A q \in reqs : q.loop = "renew" => q = r
      BY <2>0, <3>3, ZenonT(60) DEF TypeInv, LoopInv, NoLate
    <3>8. UNCHANGED <<cert, aged, pooled, renewer, newCert>>
      BY <3>3 DEF renewal, conns
    <3>9. (\A q \in reqs : q.loop = "renew" /\ q.at = "answer" => q.result = issued /\ cert < q.result)'
      <4>1. cert < issued + 1
        BY <1>0
      <4> QED BY <3>2, <3>3, <3>7, <3>8, <4>1, ZenonT(60)
    <3>10. (cert <= aged => \A q \in reqs : q.cert = cert)'
      BY <3>3, <3>4, <3>8, ZenonT(60) DEF RenewInv
    <3>11. (\A q \in reqs : q.loop = "renew" => q.cert = cert)'
      BY <3>3, <3>4, <3>8, ZenonT(60) DEF RenewInv
    <3> QED BY <3>5, <3>6, <3>8, <3>9, <3>10, <3>11, Zenon DEF RenewInv
  <2>6. CASE Answer(r)
    <3>1. /\ reqs' = reqs \ {r} /\ UNCHANGED <<certRows, cert, aged>>
          /\ pooled' \subseteq pooled \cup {r.cert}
          /\ \/ UNCHANGED <<renewer, newCert>>
             \/ /\ r.loop = "renew" /\ r.at = "answer"
                /\ renewer' = "persist" /\ newCert' = r.result
      BY <2>6, SMTT(60) DEF Answer, Finish
    <3>2. (cert <= aged => pooled \subseteq {cert})'
      BY <3>1, Zenon DEF RenewInv
    <3>3. (renewer # "idle" => newCert = issued /\ cert < newCert)'
      BY <3>1, Zenon DEF RenewInv, certRows
    <3> QED BY <3>1, <3>2, <3>3, SMTT(60) DEF RenewInv, certRows
  <2> QED BY <1>2, <2>1, <2>2, <2>3, <2>4, <2>5, <2>6, SMTT(60) DEF Serve
<1>3. ASSUME NEW loop \in Loops, NEW c \in pooled \cup {cert}, Post(loop, c)
      PROVE  RenewInv'
  <2> DEFINE q == [loop |-> loop, late |-> FALSE, token |-> token, cert |-> c,
                   at |-> "token", fresh |-> FALSE, result |-> 0]
  <2>1. q.cert = c /\ q.at = "token" /\ q.loop = loop
    BY SMTT(60)
  <2>2. reqs' = reqs \cup {q} /\ UNCHANGED <<certRows, renewal, pooled>>
    BY <1>3, SMTT(60) DEF Post
  <2>3. /\ cert <= aged => c = cert
        /\ loop = "renew" => cert <= aged
    BY <1>3, Zenon DEF RenewInv, Post, Free
  <2> HIDE DEF q
  <2>4. UNCHANGED <<cert, aged, pooled, renewer, newCert, issued, liveCerts>>
    BY <2>2 DEF certRows, renewal
  <2>5. (cert <= aged => \A r \in reqs : r.cert = cert)'
    BY <2>1, <2>2, <2>3, <2>4, ZenonT(60) DEF RenewInv
  <2>6. (\A r \in reqs : r.loop = "renew" => r.cert = cert)'
    BY <2>1, <2>2, <2>3, <2>4, ZenonT(60) DEF RenewInv
  <2>7. (\A r \in reqs : r.loop = "renew" /\ r.at = "answer" => r.result = issued /\ cert < r.result)'
    BY <2>1, <2>2, <2>4, SMTT(60) DEF RenewInv
  <2> QED BY <2>4, <2>5, <2>6, <2>7, ZenonT(60) DEF RenewInv
<1>4. CASE WriteToken \/ SetToken
  BY <1>4, SMTT(60) DEF WriteToken, SetToken, certRows, renewal, conns, RenewInv
<1>5. CASE PersistPair
  <2>1. /\ UNCHANGED <<reqs, certRows, cert, aged, pooled>>
        /\ renewer = "persist"
        /\ renewer' = "idle" \/ newCert' = newCert
    BY <1>5, SMTT(60) DEF PersistPair, conns
  <2> QED BY <2>1, SMTT(60) DEF RenewInv, certRows
<1>6. CASE SwapClientCert
  <2>1. \A r \in reqs : r.loop # "renew"
    BY <1>6, ZenonT(60) DEF SwapClientCert, TypeInv, LoopInv, NoLate
  <2>2. /\ cert' = newCert /\ newCert = issued /\ cert < newCert /\ issued \in liveCerts
        /\ aged <= cert /\ renewer' = "idle" /\ UNCHANGED <<reqs, certRows, aged>>
    BY <1>6, SMTT(60) DEF SwapClientCert, RenewInv, BoundInv
  <2>3. aged' <= cert' /\ ~(cert' <= aged')
    BY <1>0, <2>2, SMTT(60)
  <2> QED BY <2>1, <2>2, <2>3, ZenonT(60) DEF RenewInv, certRows
<1>7. CASE HalfLife
  <2>1. reqs = {} /\ reqs' = {} /\ aged' = cert /\ pooled' = {} /\ UNCHANGED <<certRows, cert, renewer, newCert>>
    BY <1>7, SMTT(60) DEF HalfLife
  <2> QED BY <1>0, <2>1, SMTT(60) DEF RenewInv, certRows
<1>8. CASE Crash
  <2>1. FileInv
    BY <1>8, SMTT(60) DEF Crash, TypeInv, TypeOK
  <2>2. /\ cert' = certFile /\ pooled' = {} /\ renewer' = "idle" /\ reqs' = {}
        /\ UNCHANGED <<certRows, aged>>
    BY <1>8, SMTT(60) DEF Crash, NoLate
  <2>3. aged' <= cert'
    BY <1>0, <2>2, SMTT(60) DEF RenewInv, PendingInv
  <2> QED BY <2>1, <2>2, <2>3, SMTT(60) DEF RenewInv, FileInv, certRows
<1> QED BY <1>1, <1>2, <1>3, <1>4, <1>5, <1>6, <1>7, <1>8, SMTT(60) DEF Next, Agent

\* The pair on disk, while nothing fails.
LEMMA FileNext ==
    ASSUME MaxFaults = 0, TypeInv, BoundInv, PendingInv, NoLate, RenewInv, FileInv, [Next]_vars
    PROVE  FileInv'
<1>0. /\ issued \in Nat /\ cert \in 1..issued /\ certFile \in 1..issued
      /\ liveCerts \subseteq 1..issued /\ ~Fault
  BY CredentialConstants DEF TypeInv, TypeOK, Certs, Fault
<1>1. CASE UNCHANGED <<certRows, renewal>>
  BY <1>1, SMTT(60) DEF certRows, renewal, FileInv
<1>2. ASSUME NEW r \in reqs, CompleteRenewal(r) PROVE FileInv'
  <2>1. r.cert \in Int /\ r.cert <= cert /\ cert <= certFile
    BY Presented DEF TypeInv, TypeOK, PendingInv
  <2>2. /\ liveCerts' = liveCerts \/ liveCerts' = {c \in liveCerts : c >= r.cert}
        /\ UNCHANGED renewal
    BY <1>2, SMTT(60) DEF CompleteRenewal
  <2> QED BY <1>0, <2>1, <2>2, SMTT(60) DEF renewal, FileInv
<1>3. ASSUME NEW r \in reqs, HandleRenew(r) PROVE FileInv'
  <2>1. r.loop = "renew" /\ ~r.late /\ UNCHANGED renewal
        /\ liveCerts' = SupersedePendingClientCerts(r.cert) \cup {issued + 1}
    BY <1>3 DEF HandleRenew, NoLate
  <2>2. r.cert = cert /\ renewer = "idle"
    BY <2>1, ZenonT(60) DEF RenewInv, TypeInv, LoopInv
  <2>3. certFile = cert /\ cert \in liveCerts
    BY <2>2, SMTT(60) DEF FileInv
  <2> QED BY <1>0, <2>1, <2>2, <2>3, SMTT(60) DEF SupersedePendingClientCerts, renewal, FileInv
<1>4. ASSUME NEW r \in reqs, Answer(r) PROVE FileInv'
  <2>1. /\ UNCHANGED <<certRows, cert, certFile>>
        /\ renewer' = renewer \/ (r.loop = "renew" /\ ~r.late)
    BY <1>4, Zenon DEF Answer
  <2>2. renewer' = renewer \/ renewer = "idle"
    BY <2>1, ZenonT(60) DEF TypeInv, LoopInv
  <2> QED BY <2>1, <2>2, SMTT(60) DEF FileInv, certRows
<1>5. CASE PersistPair
  <2>1. certFile' = newCert /\ renewer' = "swap" /\ newCert = issued /\ UNCHANGED certRows
    BY <1>0, <1>5, SMTT(60) DEF PersistPair, RenewInv
  <2> QED BY <2>1, SMTT(60) DEF FileInv, BoundInv, certRows
<1>6. CASE SwapClientCert
  BY <1>6, SMTT(60) DEF SwapClientCert, PendingInv, FileInv, certRows
<1>7. CASE Crash
  BY <1>7, SMTT(60) DEF Crash, FileInv, certRows
<1>8. ASSUME NEW r \in reqs, Serve(r) \/ Refuse(r) \/ GiveUp(r)
      PROVE  UNCHANGED <<certRows, renewal>> \/ CompleteRenewal(r) \/ HandleRenew(r) \/ Answer(r)
  BY <1>8, SMTT(60) DEF Serve, LookupToken, LookupCert, CheckBinding, CompleteFirstUse, HandleRotate,
              HandleOther, Refuse, GiveUp
<1>9. CASE \/ \E loop \in Loops, c \in pooled \cup {cert} : Post(loop, c)
           \/ WriteToken \/ SetToken
  BY <1>1, <1>9, SMTT(60) DEF Post, WriteToken, SetToken
<1>10. CASE HalfLife
  BY <1>10, SMTT(60) DEF HalfLife, FileInv, certRows
<1>11. CASE UNCHANGED vars
  BY <1>1, <1>11, SMTT(60) DEF vars
<1> QED BY <1>1, <1>2, <1>3, <1>4, <1>5, <1>6, <1>7, <1>8, <1>9, <1>10, <1>11, SMTT(60)
    DEF Next, Agent

\* The agent is never locked out of its own birdcage.  While birdcage's clock
\* does not step back and no request outlives the agent's wait for it, the
\* token and certificate in memory authenticate at every instant of any
\* number of rotations and renewals, through lost answers and refusals, and
\* through failed writes or crashes (handleRenew: "a failure at any point
\* leaves the agent's working pair working").  Failures and crashes together
\* are excluded: a failed persist may leave on disk a certificate that the
\* retry supersedes.
THEOREM AgentNeverLockedOut ==
    ASSUME ClockSteps = FALSE, MaxLate = 0, MaxFaults = 0 \/ MaxCrashes = 0
    PROVE  Spec => []MemoryPairWorks
<1>1. Init => TypeInv /\ StampInv /\ TokenInv /\ BoundInv /\ PendingInv /\ NoLate /\ RenewInv
              /\ (FileInv \/ MaxCrashes = 0)
  BY TypeInit, StampInit, TokenInit, BoundInit, PendingInit, WorkInit, SMTT(60)
<1>2. /\ TypeInv /\ StampInv /\ TokenInv /\ BoundInv /\ PendingInv /\ NoLate /\ RenewInv
      /\ FileInv \/ MaxCrashes = 0
      /\ [Next]_vars
      => /\ TypeInv' /\ StampInv' /\ TokenInv' /\ BoundInv' /\ PendingInv' /\ NoLate' /\ RenewInv'
         /\ (FileInv \/ MaxCrashes = 0)'
  BY TypeNext, StampNext, TokenNext, BoundNext, PendingNext, NoLateNext, RenewNext, FileNext, ZenonT(60)
<1>3. TypeInv /\ TokenInv /\ BoundInv /\ RenewInv /\ UsedCertSupersedes => MemoryPairWorks
  <2> SUFFICES ASSUME TypeInv, TokenInv, BoundInv, RenewInv, UsedCertSupersedes
               PROVE  MemoryPairWorks
    OBVIOUS
  <2>1. token \in liveTokens
    BY DEF TypeInv, TypeOK, TokenInv
  <2> QED BY <2>1, LivePairs DEF MemoryPairWorks, Accepted, RenewInv
<1> QED BY <1>1, <1>2, <1>3, UsedCertsSupersede, PTL DEF Spec

\* Nor would it be by a crash: the pair on disk authenticates at every
\* instant too, with transactions and writes that do not fail.
THEOREM BootPairAlwaysWorks ==
    ASSUME ClockSteps = FALSE, MaxLate = 0, MaxFaults = 0
    PROVE  Spec => []BootPairWorks
<1>1. Init => TypeInv /\ StampInv /\ TokenInv /\ BoundInv /\ PendingInv /\ NoLate /\ RenewInv
              /\ FileInv
  BY TypeInit, StampInit, TokenInit, BoundInit, PendingInit, WorkInit, SMTT(60)
<1>2. /\ TypeInv /\ StampInv /\ TokenInv /\ BoundInv /\ PendingInv /\ NoLate /\ RenewInv
      /\ FileInv
      /\ [Next]_vars
      => /\ TypeInv' /\ StampInv' /\ TokenInv' /\ BoundInv' /\ PendingInv' /\ NoLate' /\ RenewInv'
         /\ FileInv'
  BY TypeNext, StampNext, TokenNext, BoundNext, PendingNext, NoLateNext, RenewNext, FileNext, ZenonT(60)
<1>3. TypeInv /\ TokenInv /\ BoundInv /\ FileInv /\ UsedCertSupersedes => BootPairWorks
  <2> SUFFICES ASSUME TypeInv, TokenInv, BoundInv, FileInv, UsedCertSupersedes
               PROVE  BootPairWorks
    OBVIOUS
  <2>1. token \in 1..minted /\ tokenFile \in 1..minted /\ minted \in Nat
    BY CredentialConstants DEF TypeInv, TypeOK, Tokens
  <2>2. tokenFile \in liveTokens
    BY <2>1 DEF TokenInv
  <2> QED BY <2>2, LivePairs DEF BootPairWorks, Accepted, FileInv
<1> QED BY <1>1, <1>2, <1>3, UsedCertsSupersede, PTL DEF Spec
=============================================================================
