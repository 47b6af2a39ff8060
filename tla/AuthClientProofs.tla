-------------------------- MODULE AuthClientProofs --------------------------
(***************************************************************************)
(* Proofs about SpotifyAuthClient, for any threads, lifetimes, buffer and  *)
(* number of rotations.                                                    *)
(***************************************************************************)
EXTENDS AuthClient, TLAPS

AnswerType == [status : {"none", "granted", "invalid_grant", "error"},
               token : Expiries, ttl : Lifetimes \cup {0}, refresh : RefreshTokens]

-----------------------------------------------------------------------------
(* Types.                                                                   *)

LEMMA Numbers ==
  /\ NoToken \in Expiries /\ 0 \in RefreshTokens /\ 0 \in 0 .. MaxTime
  /\ Expiries \subseteq Nat /\ RefreshTokens \subseteq Nat
  /\ NoAnswer \in AnswerType /\ Refused \in AnswerType /\ Failed \in AnswerType
<1>1. NoToken \in Expiries /\ 0 \in RefreshTokens /\ 0 \in 0 .. MaxTime
  BY AuthAssumption DEF Expiries, RefreshTokens, NoToken
<1>2. Expiries \subseteq Nat /\ RefreshTokens \subseteq Nat
  BY AuthAssumption DEF Expiries, RefreshTokens, NoToken
<1>3. NoAnswer \in AnswerType
  BY <1>1 DEF NoAnswer, AnswerType
<1>. QED
  BY <1>1, <1>2, <1>3 DEF Refused, Failed, NoAnswer, AnswerType

\* A thread that leaves.
LEMMA LeaveTypes ==
  ASSUME TypeOK, NEW t \in Threads, NEW token \in Expiries, Leave(t, token)
  PROVE  /\ owner' \subseteq Threads
         /\ pc' \in [Threads -> {"idle", "waiting", "sent", "answered"}]
         /\ startedAt' \in [Threads -> 0 .. MaxTime] /\ request' \in [Threads -> RefreshTokens]
         /\ answer' \in [Threads -> AnswerType] /\ result' \in [Threads -> Expiries]
  BY Numbers DEF Leave, TypeOK, AnswerType

\* A response.
LEMMA RespondTypes ==
  ASSUME TypeOK, NEW t \in Threads, NEW response \in AnswerType, Respond(t, response),
         accepted' \in RefreshTokens \ {0}
  PROVE  TypeOK'
<1>1. pc' \in [Threads -> {"idle", "waiting", "sent", "answered"}]
  BY DEF Respond, TypeOK
<1>2. answer' \in [Threads -> AnswerType]
  BY DEF Respond, TypeOK, AnswerType
<1>. QED
  BY <1>1, <1>2 DEF Respond, TypeOK, AnswerType, clientVars

\* A rotation stays within its bound.
LEMMA ReplacementTypes ==
  ASSUME TypeOK, NEW n \in Replacements PROVE n \in RefreshTokens \ {0}
  BY AuthAssumption DEF Replacements, TypeOK, RefreshTokens

LEMMA GrantedTypes ==
  ASSUME TypeOK, NEW ttl \in Lifetimes, NEW n \in RefreshTokens
  PROVE  /\ Granted(ttl, n) \in AnswerType
         /\ Granted(ttl, n).status = "granted" /\ Granted(ttl, n).refresh = n
         /\ Granted(ttl, n).ttl = ttl /\ Granted(ttl, n).token = clock + ttl
<1>1. clock + ttl \in Expiries
  BY DEF Expiries, TypeOK
<1>. QED
  BY <1>1 DEF Granted, AnswerType

\* The margin is positive and not longer than the lifetime.
LEMMA Margin ==
  ASSUME NEW ttl \in Lifetimes
  PROVE  HalfOrBuffer(ttl) \in Nat /\ HalfOrBuffer(ttl) <= ttl /\ ttl \in Nat
<1>1. ttl \in Nat /\ Buffer \in Nat
  BY AuthAssumption
<1>2. ttl \div 2 \in Nat /\ ttl \div 2 <= ttl
  BY <1>1
<1>. QED
  BY <1>1, <1>2 DEF HalfOrBuffer

LEMMA TypeStep == ASSUME TypeOK, Outlives, [Next]_vars PROVE TypeOK'
<1>1. CASE Tick
  BY <1>1, AuthAssumption DEF Tick, TypeOK, clientVars, threadVars, spotifyVars
<1>2. CASE Revoke
  BY <1>2 DEF Revoke, TypeOK, clientVars, threadVars
<1>3. CASE LateRotation
  BY <1>3, AuthAssumption DEF LateRotation, TypeOK, clientVars, threadVars, RefreshTokens
<1>4. ASSUME NEW t \in Threads, Call(t) PROVE TypeOK'
  BY <1>4, Numbers DEF Call, TypeOK, clientVars, spotifyVars
<1>5. ASSUME NEW t \in Threads, RaiseInvalid(t) PROVE TypeOK'
  BY <1>5, Numbers, LeaveTypes DEF RaiseInvalid, TypeOK, clientVars, spotifyVars, AnswerType
<1>6. ASSUME NEW t \in Threads, ReturnCached(t) PROVE TypeOK'
  <2>1. access \in Expiries
    BY DEF TypeOK
  <2>. QED
    BY <1>6, <2>1, LeaveTypes DEF ReturnCached, TypeOK, clientVars, spotifyVars, AnswerType
<1>7. ASSUME NEW t \in Threads, StartExchange(t) PROVE TypeOK'
  BY <1>7 DEF StartExchange, TypeOK, clientVars, spotifyVars
<1>8. ASSUME NEW t \in Threads, Grant(t) PROVE TypeOK'
  <2>1. PICK ttl \in Lifetimes, rotated \in Replacements :
            Respond(t, Granted(ttl, rotated)) /\ accepted' = rotated
    BY <1>8 DEF Grant
  <2>2. rotated \in RefreshTokens \ {0} /\ Granted(ttl, rotated) \in AnswerType
    BY GrantedTypes, ReplacementTypes
  <2>. QED
    BY <2>1, <2>2, RespondTypes
<1>9. ASSUME NEW t \in Threads, Refuse(t) \/ ServerError(t) PROVE TypeOK'
  <2>1. accepted' \in RefreshTokens \ {0}
    BY <1>9 DEF Refuse, ServerError, TypeOK
  <2>. QED
    BY <1>9, <2>1, Numbers, RespondTypes DEF Refuse, ServerError
<1>10. ASSUME NEW t \in Threads, Discard(t), late' \subseteq RefreshTokens PROVE TypeOK'
  <2>1. lost' \in BOOLEAN
    BY <1>10 DEF Discard, TypeOK, Rotates
  <2>. QED
    BY <1>10, <2>1, Numbers, LeaveTypes DEF Discard, TypeOK, clientVars, AnswerType
<1>11. ASSUME NEW t \in Threads, TransportFails(t) PROVE TypeOK'
  <2>1. late' \subseteq RefreshTokens
    BY <1>11 DEF TransportFails, TypeOK
  <2>. QED
    BY <1>10, <1>11, <2>1 DEF TransportFails
<1>12. ASSUME NEW t \in Threads, Unusable(t) PROVE TypeOK'
  BY <1>10, <1>12 DEF Unusable, TypeOK
<1>13. ASSUME NEW t \in Threads, InvalidGrant(t) PROVE TypeOK'
  BY <1>13, Numbers, LeaveTypes DEF InvalidGrant, TypeOK, spotifyVars, AnswerType
<1>14. ASSUME NEW t \in Threads, TokenExpired(t) PROVE TypeOK'
  <2>1. answer[t].refresh \in RefreshTokens
    BY DEF TypeOK
  <2>. QED
    BY <1>14, <2>1, Numbers, LeaveTypes DEF TokenExpired, TypeOK, spotifyVars, AnswerType
<1>15. ASSUME NEW t \in Threads, TokenStored(t) PROVE TypeOK'
  <2>1. answer[t].refresh \in RefreshTokens /\ answer[t].token \in Expiries
    BY DEF TypeOK
  <2>2. answer[t].ttl \in Lifetimes /\ startedAt[t] \in Nat
    BY <1>15, AuthAssumption DEF TokenStored, Outlives, TypeOK
  <2>3. RefreshAt(t) \in Nat
    BY <2>2, Margin DEF RefreshAt
  <2>. QED
    BY <1>15, <2>1, <2>3, LeaveTypes DEF TokenStored, TypeOK, spotifyVars, AnswerType
<1>16. CASE UNCHANGED vars
  BY <1>16 DEF vars, TypeOK, clientVars, threadVars, spotifyVars
<1>. QED
  BY <1>1, <1>2, <1>3, <1>4, <1>5, <1>6, <1>7, <1>8, <1>9, <1>11, <1>12, <1>13, <1>14, <1>15, <1>16
  DEF Next, Enter, Receive

-----------------------------------------------------------------------------
(* The lock.                                                                *)

\* Whoever leaves was alone inside, or outside while nobody was inside.
LEMMA LeaveUnlocks ==
  ASSUME TypeOK, Locked, NEW t \in Threads, NEW token, Leave(t, token), t \in owner \/ owner = {}
  PROVE  Locked'
<1>1. owner' = {}
  BY DEF Leave, Locked
<1>2. \A u \in Threads : pc'[u] = IF u = t THEN "idle" ELSE pc[u]
  BY DEF Leave, TypeOK
<1>3. \A u \in Threads : u # t => u \notin owner
  BY DEF Locked
<1>. QED
  BY <1>1, <1>2, <1>3 DEF Locked

\* A response changes neither the lock nor what its owner knows.
LEMMA RespondKeepsLock ==
  ASSUME TypeOK, Locked, NEW t \in Threads, NEW response, Respond(t, response)
  PROVE  Locked'
<1>1. \A u \in Threads : pc'[u] = IF u = t THEN "answered" ELSE pc[u]
  BY DEF Respond, TypeOK
<1>2. pc[t] = "sent" /\ UNCHANGED <<owner, clock, access, refreshAt, refresh, request, startedAt>>
  BY DEF Respond, clientVars
<1>3. \A u \in owner' : ~Fresh' /\ request'[u] = refresh' /\ startedAt'[u] <= clock'
  BY <1>2 DEF Locked, Fresh
<1>. QED
  BY <1>1, <1>2, <1>3 DEF Locked

LEMMA LockedStep == ASSUME TypeOK, Locked, [Next]_vars PROVE Locked'
<1>0. clock \in Nat /\ refreshAt \in Nat /\ owner \subseteq Threads
      /\ \A t \in Threads : startedAt[t] \in Nat
  BY DEF TypeOK
<1>1. CASE Tick
  <2>1. clock' = clock + 1 /\ UNCHANGED <<clientVars, threadVars>>
    BY <1>1 DEF Tick
  <2>2. ~Fresh => ~Fresh'
    BY <1>0, <2>1 DEF Fresh, clientVars
  <2>3. \A t \in owner : startedAt[t] <= clock'
    BY <1>0, <2>1 DEF Locked
  <2>. QED
    BY <2>1, <2>2, <2>3 DEF Locked, clientVars, threadVars
<1>2. CASE UNCHANGED <<clock, clientVars, threadVars>>
  BY <1>2 DEF Locked, Fresh, clientVars, threadVars
<1>3. ASSUME NEW t \in Threads, Call(t) PROVE Locked'
  <2>1. \A u \in Threads : pc'[u] = IF u = t THEN "waiting" ELSE pc[u]
    BY <1>3 DEF Call, TypeOK
  <2>2. pc[t] = "idle" /\ UNCHANGED <<clock, clientVars, owner, request, startedAt>>
    BY <1>3 DEF Call
  <2>. QED
    BY <2>1, <2>2 DEF Locked, Fresh, clientVars
<1>4. ASSUME NEW t \in Threads, RaiseInvalid(t) \/ ReturnCached(t) PROVE Locked'
  BY <1>4, LeaveUnlocks DEF RaiseInvalid, ReturnCached, LockFree
<1>5. ASSUME NEW t \in Threads, StartExchange(t) PROVE Locked'
  <2>1. owner' = {t} /\ ~Fresh /\ UNCHANGED <<clock, clientVars>>
    BY <1>5 DEF StartExchange, LockFree
  <2>2. /\ \A u \in Threads : pc'[u] = IF u = t THEN "sent" ELSE pc[u]
        /\ startedAt'[t] = clock /\ request'[t] = refresh
    BY <1>5 DEF StartExchange, TypeOK
  <2>3. \A u \in Threads : pc[u] \notin {"sent", "answered"}
    BY <1>5 DEF StartExchange, LockFree, Locked
  <2>4. ~Fresh'
    BY <2>1 DEF Fresh, clientVars
  <2>. QED
    BY <1>0, <2>1, <2>2, <2>3, <2>4 DEF Locked, clientVars
<1>6. ASSUME NEW t \in Threads, Grant(t) \/ Refuse(t) \/ ServerError(t) PROVE Locked'
  BY <1>6, RespondKeepsLock DEF Grant, Refuse, ServerError
<1>7. ASSUME NEW t \in Threads, Receive(t) PROVE Locked'
  <2>1. pc[t] \in {"sent", "answered"}
    BY <1>7 DEF Receive, TransportFails, Unusable, InvalidGrant, TokenExpired, TokenStored
  <2>2. t \in owner
    BY <2>1 DEF Locked
  <2>3. \E token : Leave(t, token)
    BY <1>7 DEF Receive, TransportFails, Unusable, InvalidGrant, TokenExpired, TokenStored, Discard
  <2>. QED
    BY <2>2, <2>3, LeaveUnlocks
<1>. QED
  BY <1>1, <1>2, <1>3, <1>4, <1>5, <1>6, <1>7
  DEF Next, Enter, Revoke, LateRotation, vars

-----------------------------------------------------------------------------
(* Lifetimes.                                                               *)

\* The thread that leaves takes its answer with it.
LEMMA LeaveForgets ==
  ASSUME TypeOK, Outlives, NEW t \in Threads, NEW token, Leave(t, token)
  PROVE  \A u \in Threads : answer'[u].status = "granted"
           => /\ pc'[u] = "answered" /\ answer'[u].ttl > 0
              /\ startedAt'[u] + answer'[u].ttl <= answer'[u].token
<1>1. \A u \in Threads : /\ u = t => answer'[u] = NoAnswer
                         /\ u # t => /\ pc'[u] = pc[u] /\ answer'[u] = answer[u]
                                     /\ startedAt'[u] = startedAt[u]
  BY DEF Leave, TypeOK
<1>2. NoAnswer.status # "granted"
  BY DEF NoAnswer
<1>. QED
  BY <1>1, <1>2 DEF Outlives

LEMMA OutlivesStep == ASSUME TypeOK, Locked, Outlives, [Next]_vars PROVE Outlives'
<1>0. /\ clock \in Nat /\ access \in Nat /\ refreshAt \in Nat
      /\ \A t \in Threads : startedAt[t] \in Nat /\ answer[t] \in AnswerType
  BY Numbers DEF TypeOK, AnswerType
<1>1. CASE UNCHANGED <<access, refreshAt, answer, startedAt, pc>>
  BY <1>1 DEF Outlives
<1>2. ASSUME NEW t \in Threads, NEW token, Leave(t, token),
             UNCHANGED <<access, refreshAt>> \/ access' = NoToken
      PROVE  Outlives'
  BY <1>2, LeaveForgets DEF Outlives
<1>3. ASSUME NEW t \in Threads, RaiseInvalid(t) \/ ReturnCached(t) PROVE Outlives'
  BY <1>2, <1>3 DEF RaiseInvalid, ReturnCached, clientVars
<1>4. ASSUME NEW t \in Threads, Call(t) \/ StartExchange(t) PROVE Outlives'
  <2>1. pc[t] # "answered" /\ UNCHANGED <<access, refreshAt, answer>>
    BY <1>4 DEF Call, StartExchange, clientVars
  <2>2. \A u \in Threads : u # t => pc'[u] = pc[u] /\ startedAt'[u] = startedAt[u]
    BY <1>4 DEF Call, StartExchange, TypeOK
  <2>3. answer[t].status # "granted"
    BY <2>1 DEF Outlives
  <2>. QED
    BY <2>1, <2>2, <2>3 DEF Outlives
<1>5. ASSUME NEW t \in Threads, NEW response \in AnswerType, Respond(t, response),
             response.status = "granted" => /\ response.ttl > 0
                                            /\ clock + response.ttl <= response.token
      PROVE  Outlives'
  <2>1. /\ pc[t] = "sent" /\ UNCHANGED <<access, refreshAt, startedAt>>
        /\ \A u \in Threads : /\ pc'[u] = IF u = t THEN "answered" ELSE pc[u]
                              /\ answer'[u] = IF u = t THEN response ELSE answer[u]
    BY <1>5 DEF Respond, clientVars, TypeOK
  <2>2. startedAt[t] <= clock
    BY <2>1 DEF Locked
  <2>3. response.ttl \in Nat /\ response.token \in Nat
    BY Numbers, AuthAssumption DEF AnswerType
  <2>4. response.status = "granted" => startedAt[t] + response.ttl <= response.token
    BY <1>0, <1>5, <2>2, <2>3
  <2>. QED
    BY <1>5, <2>1, <2>4 DEF Outlives
<1>6. ASSUME NEW t \in Threads, Grant(t) PROVE Outlives'
  <2>1. PICK ttl \in Lifetimes, rotated \in Replacements : Respond(t, Granted(ttl, rotated))
    BY <1>6 DEF Grant
  <2>2. rotated \in RefreshTokens
    BY ReplacementTypes
  <2>3. /\ Granted(ttl, rotated) \in AnswerType
        /\ Granted(ttl, rotated).ttl = ttl /\ Granted(ttl, rotated).token = clock + ttl
    BY <2>2, GrantedTypes
  <2>4. ttl \in Nat /\ ttl > 0
    BY AuthAssumption
  <2>. QED
    BY <1>0, <1>5, <2>1, <2>3, <2>4
<1>7. ASSUME NEW t \in Threads, Refuse(t) \/ ServerError(t) PROVE Outlives'
  <2>1. Refused.status # "granted" /\ Failed.status # "granted"
    BY DEF Refused, Failed, NoAnswer
  <2>. QED
    BY <1>5, <1>7, <2>1, Numbers DEF Refuse, ServerError
<1>8. ASSUME NEW t \in Threads, TransportFails(t) \/ Unusable(t) \/ InvalidGrant(t) \/ TokenExpired(t)
      PROVE  Outlives'
  BY <1>2, <1>8 DEF TransportFails, Unusable, InvalidGrant, TokenExpired, Discard, clientVars
<1>9. ASSUME NEW t \in Threads, TokenStored(t) PROVE Outlives'
  <2>1. /\ answer[t].status = "granted" /\ Leave(t, answer[t].token)
        /\ access' = answer[t].token /\ refreshAt' = RefreshAt(t)
    BY <1>9 DEF TokenStored
  <2>2. answer[t].ttl \in Lifetimes /\ answer[t].token \in Nat
        /\ startedAt[t] + answer[t].ttl <= answer[t].token
    BY <2>1, Numbers, AuthAssumption DEF Outlives, TypeOK
  <2>3. refreshAt' <= access'
    BY <1>0, <2>1, <2>2, Margin DEF RefreshAt
  <2>. QED
    BY <2>1, <2>3, LeaveForgets DEF Outlives
<1>. QED
  BY <1>1, <1>3, <1>4, <1>6, <1>7, <1>8, <1>9
  DEF Next, Enter, Receive, Tick, Revoke, LateRotation, vars, clientVars, threadVars

-----------------------------------------------------------------------------
(* Rotation.                                                                *)

\* A replacement that is lost, and a consent that is withdrawn, stay so.
LEMMA LossesStay ==
  ASSUME TypeOK, [Next]_vars, revoked \/ lost PROVE revoked' \/ lost'
<1>1. ASSUME NEW t \in Threads, Discard(t) PROVE revoked' \/ lost'
  BY <1>1 DEF Discard
<1>2. ASSUME NEW t \in Threads, Receive(t) PROVE revoked' \/ lost'
  BY <1>1, <1>2 DEF Receive, TransportFails, Unusable, InvalidGrant, TokenExpired, TokenStored, spotifyVars
<1>3. ASSUME NEW t \in Threads, Grant(t) \/ Refuse(t) \/ ServerError(t) PROVE revoked' \/ lost'
  BY <1>3 DEF Grant, Refuse, ServerError, Respond
<1>4. ASSUME NEW t \in Threads, Call(t) \/ Enter(t) PROVE revoked' \/ lost'
  BY <1>4 DEF Call, Enter, RaiseInvalid, ReturnCached, StartExchange, spotifyVars
<1>. QED
  BY <1>2, <1>3, <1>4 DEF Next, Tick, Revoke, LateRotation, vars, spotifyVars

LEMMA RotationStep ==
  ASSUME TypeOK, Locked, Outlives, AnswersAreNews, KeepsUpWithRotation, [Next]_vars
  PROVE  AnswersAreNews' /\ KeepsUpWithRotation'
<1> SUFFICES ASSUME ~revoked, ~lost, ~revoked', ~lost'
             PROVE  AnswersAreNews' /\ KeepsUpWithRotation'
  BY LossesStay DEF AnswersAreNews, KeepsUpWithRotation
<1>0. /\ \A t \in Threads : pc[t] = "answered" =>
           answer[t].status # "invalid_grant" /\ (answer[t].status = "granted" => answer[t].refresh = accepted)
      /\ refresh = accepted \/ \E t \in Threads : pc[t] = "answered" /\ answer[t].refresh = accepted
  BY DEF AnswersAreNews, KeepsUpWithRotation
<1>1. ASSUME UNCHANGED <<refresh, accepted>>,
             \A t \in Threads : pc'[t] = "answered" <=> pc[t] = "answered",
             \A t \in Threads : pc[t] = "answered" => answer'[t] = answer[t]
      PROVE  AnswersAreNews' /\ KeepsUpWithRotation'
  BY <1>0, <1>1 DEF AnswersAreNews, KeepsUpWithRotation
<1>2. CASE Tick \/ Revoke \/ LateRotation \/ UNCHANGED vars
  <2>1. UNCHANGED <<refresh, accepted, pc, answer>>
    BY <1>2 DEF Tick, Revoke, LateRotation, vars, clientVars, threadVars, spotifyVars
  <2>. QED
    BY <1>1, <2>1
<1>3. ASSUME NEW t \in Threads, Call(t) \/ Enter(t) PROVE AnswersAreNews' /\ KeepsUpWithRotation'
  <2>1. pc[t] # "answered" /\ pc'[t] # "answered" /\ UNCHANGED <<refresh, accepted>>
    BY <1>3 DEF Call, Enter, RaiseInvalid, ReturnCached, StartExchange, Leave, clientVars, spotifyVars, TypeOK
  <2>2. \A u \in Threads : u # t => pc'[u] = pc[u] /\ answer'[u] = answer[u]
    BY <1>3 DEF Call, Enter, RaiseInvalid, ReturnCached, StartExchange, Leave, TypeOK
  <2>. QED
    BY <1>1, <2>1, <2>2
\* The thread whose exchange is under way is the only one with an answer.
<1>4. ASSUME NEW t \in Threads, NEW response, Respond(t, response)
      PROVE  /\ refresh = accepted /\ refresh' = refresh /\ request[t] = refresh
             /\ \A u \in Threads : pc'[u] = "answered" => u = t
             /\ pc'[t] = "answered" /\ answer'[t] = response
  <2>1. pc[t] = "sent" /\ refresh' = refresh
    BY <1>4 DEF Respond, clientVars
  <2>2. t \in owner /\ \A u \in Threads : pc[u] = "answered" => u = t
    BY <2>1 DEF Locked
  <2>3. \A u \in Threads : pc[u] # "answered"
    BY <2>1, <2>2
  <2>4. \A u \in Threads : /\ pc'[u] = IF u = t THEN "answered" ELSE pc[u]
                           /\ answer'[u] = IF u = t THEN response ELSE answer[u]
    BY <1>4 DEF Respond, TypeOK
  <2>. QED
    BY <1>0, <2>1, <2>2, <2>3, <2>4 DEF Locked
<1>5. ASSUME NEW t \in Threads, Grant(t) PROVE AnswersAreNews' /\ KeepsUpWithRotation'
  <2>1. PICK ttl \in Lifetimes, rotated \in Replacements :
            Respond(t, Granted(ttl, rotated)) /\ accepted' = rotated
    BY <1>5 DEF Grant
  <2>2. Granted(ttl, rotated).status = "granted" /\ Granted(ttl, rotated).refresh = rotated
    BY ReplacementTypes, GrantedTypes
  <2>. QED
    BY <1>4, <2>1, <2>2 DEF AnswersAreNews, KeepsUpWithRotation
<1>6. ASSUME NEW t \in Threads, Refuse(t) PROVE AnswersAreNews' /\ KeepsUpWithRotation'
  BY <1>4, <1>6 DEF Refuse, Acceptable
<1>7. ASSUME NEW t \in Threads, ServerError(t) PROVE AnswersAreNews' /\ KeepsUpWithRotation'
  <2>1. Failed.status # "granted" /\ Failed.status # "invalid_grant"
    BY DEF Failed, NoAnswer
  <2>. QED
    BY <1>4, <1>7, <2>1 DEF ServerError, AnswersAreNews, KeepsUpWithRotation
\* When that thread leaves no answer is left.
<1>8. ASSUME NEW t \in Threads, Receive(t)
      PROVE  /\ t \in owner /\ request[t] = refresh /\ accepted' = accepted /\ accepted # 0
             /\ \A u \in Threads : pc[u] = "answered" => u = t
             /\ \A u \in Threads : pc'[u] # "answered"
  <2>1. pc[t] \in {"sent", "answered"} /\ accepted' = accepted /\ \E token : Leave(t, token)
    BY <1>8 DEF Receive, TransportFails, Unusable, InvalidGrant, TokenExpired, TokenStored, Discard, spotifyVars
  <2>2. \A u \in Threads : pc'[u] = IF u = t THEN "idle" ELSE pc[u]
    BY <2>1 DEF Leave, TypeOK
  <2>. QED
    BY <2>1, <2>2 DEF Locked, TypeOK
<1>9. ASSUME NEW t \in Threads, Receive(t), refresh' = accepted PROVE AnswersAreNews' /\ KeepsUpWithRotation'
  BY <1>8, <1>9 DEF AnswersAreNews, KeepsUpWithRotation
<1>10. ASSUME NEW t \in Threads, Receive(t), Discard(t) PROVE refresh' = accepted
  <2>1. ~Rotates(t) /\ refresh' = refresh
    BY <1>10 DEF Discard, clientVars
  <2>2. CASE refresh # accepted
    BY <1>0, <1>8, <1>10, <2>1, <2>2 DEF Rotates
  <2>. QED
    BY <2>1, <2>2
<1>11. ASSUME NEW t \in Threads, InvalidGrant(t) PROVE FALSE
  BY <1>0, <1>11 DEF InvalidGrant
<1>12. ASSUME NEW t \in Threads, TokenExpired(t) \/ TokenStored(t) PROVE refresh' = accepted
  BY <1>0, <1>12 DEF TokenExpired, TokenStored
<1>13. ASSUME NEW t \in Threads, Receive(t) PROVE AnswersAreNews' /\ KeepsUpWithRotation'
  BY <1>9, <1>10, <1>11, <1>12, <1>13 DEF Receive, TransportFails, Unusable
<1>. QED
  BY <1>2, <1>3, <1>5, <1>6, <1>7, <1>13 DEF Next

-----------------------------------------------------------------------------
(* The theorems.                                                            *)

\* The inductive invariant of a shared client.
THEOREM AuthInvariant == Spec => []AuthInv
<1>1. Init => AuthInv
  <2> SUFFICES ASSUME Init PROVE AuthInv
    OBVIOUS
  <2>1. 1 \in RefreshTokens \ {0} /\ 0 \in 0 .. MaxTime
    BY AuthAssumption DEF RefreshTokens
  <2>2. TypeOK
    BY <2>1, Numbers DEF Init, TypeOK, AnswerType
  <2>3. Locked
    BY DEF Init, Locked
  <2>4. Outlives
    BY DEF Init, Outlives, NoToken, NoAnswer
  <2>5. AnswersAreNews /\ KeepsUpWithRotation
    BY DEF Init, AnswersAreNews, KeepsUpWithRotation
  <2>. QED
    BY <2>2, <2>3, <2>4, <2>5 DEF AuthInv
<1>2. AuthInv /\ [Next]_vars => AuthInv'
  BY TypeStep, LockedStep, OutlivesStep, RotationStep DEF AuthInv
<1>. QED
  BY <1>1, <1>2, PTL DEF Spec

\* Every variable keeps its type.
THEOREM AuthTypes == Spec => []TypeOK
  BY AuthInvariant, PTL DEF AuthInv

\* The client presents the refresh token that Spotify accepts, unless the consent was
\* withdrawn or a replacement never reached it.
THEOREM FollowsRotation == Spec => []KeepsUpWithRotation
  BY AuthInvariant, PTL DEF AuthInv

\* A token is live when get_access_token returns it.
THEOREM ReturnsLiveTokens == Spec => LiveWhenReturned
<1>1. AuthInv /\ [Next]_vars
        => [\A t \in Threads : (pc'[t] = "idle" /\ pc[t] # "idle" /\ result'[t] # NoToken)
              => clock < result'[t]]_vars
  <2> SUFFICES ASSUME AuthInv, Next, NEW t \in Threads,
                      pc'[t] = "idle", pc[t] # "idle", result'[t] # NoToken
               PROVE  clock < result'[t]
    OBVIOUS
  <2>0. /\ clock \in Nat /\ refreshAt \in Nat /\ access \in Nat /\ startedAt[t] \in Nat
        /\ answer[t].token \in Nat /\ answer[t].ttl \in Nat
    <3>1. TypeOK
      BY DEF AuthInv
    <3>2. clock \in Nat /\ refreshAt \in Nat /\ access \in Nat /\ startedAt[t] \in Nat
      BY <3>1, Numbers DEF TypeOK
    <3>3. answer[t] \in AnswerType
      BY <3>1 DEF TypeOK, AnswerType
    <3>4. answer[t].token \in Nat /\ answer[t].ttl \in Nat
      BY <3>3, Numbers, AuthAssumption DEF AnswerType
    <3>. QED
      BY <3>2, <3>4
  <2>1. ASSUME NEW u \in Threads, NEW token, Leave(u, token) PROVE u = t /\ result'[t] = token
    BY <2>1 DEF Leave, AuthInv, TypeOK
  <2>2. ASSUME NEW u \in Threads, ReturnCached(u) PROVE clock < result'[t]
    BY <2>0, <2>1, <2>2 DEF ReturnCached, Fresh, AuthInv, Outlives
  <2>3. ASSUME NEW u \in Threads, TokenStored(u) PROVE clock < result'[t]
    BY <2>0, <2>1, <2>3 DEF TokenStored, ExpiredDuring, AuthInv, Outlives
  <2>4. ASSUME NEW u \in Threads, RaiseInvalid(u) \/ TransportFails(u) \/ Unusable(u) \/ InvalidGrant(u)
                                  \/ TokenExpired(u)
        PROVE  FALSE
    BY <2>1, <2>4 DEF RaiseInvalid, TransportFails, Unusable, InvalidGrant, TokenExpired, Discard
  <2>5. ASSUME NEW u \in Threads, Call(u) \/ StartExchange(u) \/ Grant(u) \/ Refuse(u) \/ ServerError(u)
        PROVE  FALSE
    BY <2>5 DEF Call, StartExchange, Grant, Refuse, ServerError, Respond, AuthInv, TypeOK
  <2>6. ~(Tick \/ Revoke \/ LateRotation)
    BY DEF Tick, Revoke, LateRotation, threadVars
  <2>. QED
    BY <2>2, <2>3, <2>4, <2>5, <2>6 DEF Next, Enter, Receive
<1>. QED
  BY AuthInvariant, <1>1, PTL DEF Spec, LiveWhenReturned

\* Spotify answers only while the client has no fresh token.
THEOREM ExchangesWhenStale == Spec => NoNeedlessExchange
<1>1. AuthInv => [\A t \in Threads : pc[t] = "sent" /\ pc'[t] = "answered" => ~Fresh]_vars
  BY DEF AuthInv, Locked
<1>. QED
  BY AuthInvariant, <1>1, PTL DEF Spec, NoNeedlessExchange
=============================================================================
