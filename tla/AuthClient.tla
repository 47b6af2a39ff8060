----------------------------- MODULE AuthClient -----------------------------
(***************************************************************************)
(* SpotifyAuthClient.get_access_token (auth/client.py) over the transport  *)
(* of _http.py: threads share one client, its lock, its access token and   *)
(* the refresh token that Spotify may replace with every exchange.         *)
(*                                                                         *)
(* An access token is named by the time at which Spotify lets it expire,   *)
(* which the client does not see.  A unit of the clock is half a second,   *)
(* so that half of a lifetime is a whole number of units.                  *)
(***************************************************************************)
EXTENDS Naturals, FiniteSets

CONSTANTS
    Threads,
    Lifetimes,     \* expires_in of the access tokens, in units of the clock
    Buffer,        \* expiry_buffer
    MaxTime,       \* bound of the clock
    MaxRotations   \* bound: refresh tokens issued after the first

ASSUME AuthAssumption ==
    /\ Lifetimes \subseteq Nat /\ \A ttl \in Lifetimes : ttl > 0 /\ ttl % 2 = 0
    /\ Buffer \in Nat /\ MaxTime \in Nat /\ MaxRotations \in Nat

VARIABLES
    clock,
    access,       \* _access_token, NoToken if None
    refreshAt,    \* _refresh_at
    refresh,      \* _refresh_token, 0 if cleared
    invalid,      \* _invalid_grant
    owner,        \* the threads inside _lock
    pc, startedAt, request, answer, result,  \* of each thread; result: the token it got
    accepted,     \* Spotify: the refresh token it accepts
    revoked,      \* Spotify: the user withdrew the consent
    late,         \* refresh tokens of requests that were given up and may still arrive
    lost          \* a replacement that Spotify issued never reached the client

clientVars == <<access, refreshAt, refresh, invalid>>
threadVars == <<owner, pc, startedAt, request, answer, result>>
spotifyVars == <<accepted, revoked, late, lost>>
vars == <<clock, clientVars, threadVars, spotifyVars>>

NoToken == 0
NoAnswer == [status |-> "none", token |-> NoToken, ttl |-> 0, refresh |-> 0]
Refused == [NoAnswer EXCEPT !.status = "invalid_grant"]
Failed == [NoAnswer EXCEPT !.status = "error"]
Granted(ttl, rotated) ==
    [status |-> "granted", token |-> clock + ttl, ttl |-> ttl, refresh |-> rotated]

RefreshTokens == 0 .. MaxRotations + 1
Expiries == {NoToken} \cup {time + ttl : time \in 0 .. MaxTime, ttl \in Lifetimes}

Init ==
    /\ clock = 0
    /\ access = NoToken /\ refreshAt = 0 /\ refresh = 1 /\ invalid = FALSE
    /\ owner = {}
    /\ pc = [t \in Threads |-> "idle"]
    /\ startedAt = [t \in Threads |-> 0] /\ request = [t \in Threads |-> 0]
    /\ answer = [t \in Threads |-> NoAnswer] /\ result = [t \in Threads |-> NoToken]
    /\ accepted = 1 /\ revoked = FALSE /\ late = {} /\ lost = FALSE

Tick ==
    /\ clock < MaxTime /\ clock' = clock + 1
    /\ UNCHANGED <<clientVars, threadVars, spotifyVars>>

-----------------------------------------------------------------------------
(* get_access_token: the lock is held from the test to the end of the       *)
(* exchange.                                                                *)

Call(t) ==
    /\ pc[t] = "idle"
    /\ pc' = [pc EXCEPT ![t] = "waiting"] /\ result' = [result EXCEPT ![t] = NoToken]
    /\ UNCHANGED <<clock, clientVars, owner, startedAt, request, answer, spotifyVars>>

\* The thread leaves get_access_token with a token, or with an exception.
Leave(t, token) ==
    /\ pc' = [pc EXCEPT ![t] = "idle"] /\ result' = [result EXCEPT ![t] = token]
    /\ owner' = owner \ {t}
    /\ startedAt' = [startedAt EXCEPT ![t] = 0] /\ request' = [request EXCEPT ![t] = 0]
    /\ answer' = [answer EXCEPT ![t] = NoAnswer]

\* Mutant of LockFree: the check and the exchange are not under the lock.
NoLock == TRUE

LockFree == owner = {}

Fresh == access # NoToken /\ clock < refreshAt

RaiseInvalid(t) ==
    /\ pc[t] = "waiting" /\ LockFree /\ invalid
    /\ Leave(t, NoToken)
    /\ UNCHANGED <<clock, clientVars, spotifyVars>>

ReturnCached(t) ==
    /\ pc[t] = "waiting" /\ LockFree /\ ~invalid /\ Fresh
    /\ Leave(t, access)
    /\ UNCHANGED <<clock, clientVars, spotifyVars>>

StartExchange(t) ==
    /\ pc[t] = "waiting" /\ LockFree /\ ~invalid /\ ~Fresh
    /\ owner' = owner \cup {t}
    /\ pc' = [pc EXCEPT ![t] = "sent"]
    /\ startedAt' = [startedAt EXCEPT ![t] = clock]
    /\ request' = [request EXCEPT ![t] = refresh]
    /\ UNCHANGED <<clock, clientVars, answer, result, spotifyVars>>

-----------------------------------------------------------------------------
(* Spotify's token endpoint: it refuses a token that it has replaced.       *)

Acceptable(token) == token = accepted /\ ~revoked
Replacements == {n \in {accepted, accepted + 1} : n <= MaxRotations + 1}

Respond(t, response) ==
    /\ pc[t] = "sent"
    /\ pc' = [pc EXCEPT ![t] = "answered"] /\ answer' = [answer EXCEPT ![t] = response]
    /\ UNCHANGED <<clock, clientVars, owner, startedAt, request, result, revoked, late, lost>>

Grant(t) ==
    /\ Acceptable(request[t])
    /\ \E ttl \in Lifetimes, rotated \in Replacements :
         /\ Respond(t, Granted(ttl, rotated))
         /\ accepted' = rotated

Refuse(t) == ~Acceptable(request[t]) /\ Respond(t, Refused) /\ UNCHANGED accepted

ServerError(t) == Respond(t, Failed) /\ UNCHANGED accepted

Revoke ==
    /\ ~revoked /\ revoked' = TRUE
    /\ UNCHANGED <<clock, clientVars, threadVars, accepted, late, lost>>

\* A request whose sender has given up still replaces the token.
LateRotation ==
    /\ \E token \in late : Acceptable(token) /\ late' = late \ {token}
    /\ accepted <= MaxRotations /\ accepted' = accepted + 1
    /\ lost' = TRUE
    /\ UNCHANGED <<clock, clientVars, threadVars, revoked>>

-----------------------------------------------------------------------------
(* _exchange.                                                               *)

Rotates(t) == answer[t].refresh \notin {0, request[t]}

\* The exchange raises and the answer, if there is one, is forgotten.
Discard(t) ==
    /\ Leave(t, NoToken)
    /\ lost' = (lost \/ Rotates(t))
    /\ UNCHANGED <<clock, clientVars, accepted, revoked>>

\* Mutant of TransportFails: the request is sent again, under the lock, until there
\* is an answer.
RetryInLock(t) ==
    /\ pc[t] \in {"sent", "answered"}
    /\ pc' = [pc EXCEPT ![t] = "sent"] /\ answer' = [answer EXCEPT ![t] = NoAnswer]
    /\ UNCHANGED <<clock, clientVars, owner, startedAt, request, result, spotifyVars>>

\* TransportError: no connection, a timeout, a broken response.
TransportFails(t) ==
    /\ pc[t] \in {"sent", "answered"}
    /\ Discard(t)
    /\ late' = IF pc[t] = "sent" THEN late \cup {request[t]} ELSE late

\* Invalid JSON, invalid token fields, or a status that is not 200.
Unusable(t) ==
    /\ pc[t] = "answered" /\ answer[t].status \in {"granted", "error"}
    /\ Discard(t)
    /\ UNCHANGED late

InvalidGrant(t) ==
    /\ pc[t] = "answered" /\ answer[t].status = "invalid_grant"
    /\ invalid' = TRUE /\ access' = NoToken /\ refresh' = 0
    /\ Leave(t, NoToken)
    /\ UNCHANGED <<clock, refreshAt, spotifyVars>>

HalfOrBuffer(ttl) == IF Buffer < ttl \div 2 THEN Buffer ELSE ttl \div 2

\* Mutant of RefreshAt: the lifetime counted from the response.
FromResponse(t) == clock + answer[t].ttl

RefreshAt(t) == startedAt[t] + answer[t].ttl - HalfOrBuffer(answer[t].ttl)

\* The replaced refresh token is kept even if the access token has expired.
ExpiredDuring(t) == clock >= startedAt[t] + answer[t].ttl

\* Mutant of TokenExpired: the expired exchange drops the new refresh token too.
DropExpired(t) ==
    /\ pc[t] = "answered" /\ answer[t].status = "granted" /\ ExpiredDuring(t)
    /\ Leave(t, NoToken)
    /\ UNCHANGED <<clock, clientVars, spotifyVars>>

TokenExpired(t) ==
    /\ pc[t] = "answered" /\ answer[t].status = "granted" /\ ExpiredDuring(t)
    /\ refresh' = answer[t].refresh
    /\ Leave(t, NoToken)
    /\ UNCHANGED <<clock, access, refreshAt, invalid, spotifyVars>>

TokenStored(t) ==
    /\ pc[t] = "answered" /\ answer[t].status = "granted" /\ ~ExpiredDuring(t)
    /\ refresh' = answer[t].refresh
    /\ access' = answer[t].token /\ refreshAt' = RefreshAt(t)
    /\ Leave(t, answer[t].token)
    /\ UNCHANGED <<clock, invalid, spotifyVars>>

Receive(t) == TransportFails(t) \/ Unusable(t) \/ InvalidGrant(t) \/ TokenExpired(t) \/ TokenStored(t)

Enter(t) == RaiseInvalid(t) \/ ReturnCached(t) \/ StartExchange(t)

Next ==
    \/ Tick \/ Revoke \/ LateRotation
    \/ \E t \in Threads :
         \/ Call(t) \/ Enter(t) \/ Receive(t)
         \/ Grant(t) \/ Refuse(t) \/ ServerError(t)

Spec == Init /\ [][Next]_vars

\* _http.send has a finite timeout: an exchange that has begun ends.
FairSpec == Spec /\ \A t \in Threads : WF_vars(Receive(t))

-----------------------------------------------------------------------------
\* The variables have their types.
TypeOK ==
    /\ clock \in 0 .. MaxTime
    /\ access \in Expiries /\ refreshAt \in Nat /\ refresh \in RefreshTokens
    /\ invalid \in BOOLEAN
    /\ owner \subseteq Threads
    /\ pc \in [Threads -> {"idle", "waiting", "sent", "answered"}]
    /\ startedAt \in [Threads -> 0 .. MaxTime] /\ request \in [Threads -> RefreshTokens]
    /\ answer \in [Threads -> [status : {"none", "granted", "invalid_grant", "error"},
                               token : Expiries, ttl : Lifetimes \cup {0}, refresh : RefreshTokens]]
    /\ result \in [Threads -> Expiries]
    /\ accepted \in RefreshTokens \ {0} /\ revoked \in BOOLEAN
    /\ late \subseteq RefreshTokens /\ lost \in BOOLEAN

\* No thread is handed a token that Spotify has already let expire, however
\* long the exchange took: get_access_token counts the lifetime from before
\* the request was sent.
LiveWhenReturned ==
    [][\A t \in Threads : (pc'[t] = "idle" /\ pc[t] # "idle" /\ result'[t] # NoToken)
         => clock < result'[t]]_vars

\* Spotify is asked for a token only while the client has no fresh one: of all
\* the threads that find the token stale, one exchanges and the others reuse.
NoNeedlessExchange ==
    [][\A t \in Threads : pc[t] = "sent" /\ pc'[t] = "answered" => ~Fresh]_vars

\* The client holds, or has in the answer that it is about to read, the refresh
\* token that Spotify accepts; only a withdrawn consent or an answer that never
\* arrived whole makes it present another and end in invalid_grant.
KeepsUpWithRotation ==
    \/ revoked \/ lost
    \/ refresh = accepted
    \/ \E t \in Threads : pc[t] = "answered" /\ answer[t].refresh = accepted

\* The lock is held exactly by the one thread whose exchange is under way, with
\* the client's refresh token, and only while there is no fresh access token.
Locked ==
    /\ \A t, u \in owner : t = u
    /\ \A t \in Threads : t \in owner <=> pc[t] \in {"sent", "answered"}
    /\ \A t \in owner : ~Fresh /\ request[t] = refresh /\ startedAt[t] <= clock

\* An access token outlives the moment from which the client no longer uses it.
Outlives ==
    /\ access # NoToken => refreshAt <= access
    /\ \A t \in Threads : answer[t].status = "granted"
         => /\ pc[t] = "answered" /\ answer[t].ttl > 0
            /\ startedAt[t] + answer[t].ttl <= answer[t].token

\* What an answer says of the refresh token, until a replacement is lost.
AnswersAreNews ==
    \/ revoked \/ lost
    \/ \A t \in Threads : pc[t] = "answered" =>
         /\ answer[t].status # "invalid_grant"
         /\ answer[t].status = "granted" => answer[t].refresh = accepted

AuthInv == TypeOK /\ Locked /\ Outlives /\ AnswersAreNews /\ KeepsUpWithRotation

\* An exchange that raises leaves the client usable for the other threads.
LockIsReleased == []<>(owner = {})
=============================================================================
