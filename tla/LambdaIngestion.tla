-------------------------- MODULE LambdaIngestion ---------------------------
(***************************************************************************)
(* The Lambda ingestion service (lambda_runtime/handler.py, credentials.py *)
(* and s3_writer.py): one event, a list of playlists under one             *)
(* pipeline_run_id, is invoked until an attempt succeeds.  An attempt runs *)
(* in a warm or a new container, extracts the playlists one after another  *)
(* and puts each into Bronze with IfNoneMatch.                             *)
(*                                                                         *)
(* One attempt runs at a time (reserved_concurrent_executions = 1).  The   *)
(* token exchange and the extraction are single steps here: AuthClient and *)
(* PlaylistExtraction are their details.  A credential is named by the     *)
(* number of its refresh token, an object by the attempt that captured it. *)
(***************************************************************************)
EXTENDS Naturals, FiniteSets

CONSTANTS
    Containers,
    PlaylistCount,  \* len(playlist_ids)
    MaxAttempts,    \* bound: invocations of the event
    MaxToken,       \* bound: refresh tokens issued
    MaxDate         \* bound: UTC days

ASSUME LambdaAssumption ==
    /\ PlaylistCount \in 1 .. 100
    /\ MaxAttempts \in Nat /\ MaxToken \in Nat \ {0} /\ MaxDate \in Nat \ {0}

VARIABLES
    secret,       \* Secrets Manager: the refresh token of the secret
    accepted,     \* Spotify: the refresh token it accepts, 0 after a revocation
    issued,       \* Spotify: the last refresh token issued
    credentials,  \* of each container, _DEFAULT_CREDENTIALS, 0 if None
    client,       \* of each container, _DEFAULT_AUTH_CLIENT's refresh token, 0 if None
    fresh,        \* of each container, whether that client holds a live access token
    attempt, running, pc, position, captured, conflicted,  \* the invocation under way
    outcome,      \* of each attempt
    logged,       \* telemetry: <<attempt, position, event>>, how each playlist ended
    store,        \* Bronze: by <<ingestion_date, position>>
    today,
    staleRefusals \* of each container, refusals since the secret was last good

tokenVars == <<secret, accepted, issued>>
cacheVars == <<credentials, client, fresh, staleRefusals>>
callVars == <<attempt, running, pc, position, captured, conflicted>>
vars == <<tokenVars, cacheVars, callVars, outcome, logged, store, today>>

Playlists == 1 .. PlaylistCount
Attempts == 1 .. MaxAttempts
Tokens == 1 .. MaxToken
Keys == (1 .. MaxDate) \X Playlists
Absent == 0
Key == <<captured, position>>

Init ==
    /\ secret = 1 /\ accepted = 1 /\ issued = 1
    /\ credentials = [c \in Containers |-> 0] /\ client = [c \in Containers |-> 0]
    /\ fresh = [c \in Containers |-> FALSE] /\ staleRefusals = [c \in Containers |-> 0]
    /\ attempt = 0 /\ running = {} /\ pc = "idle" /\ position = 1 /\ captured = 1
    /\ conflicted = FALSE
    /\ outcome = [a \in Attempts |-> "none"] /\ logged = {}
    /\ store = [k \in Keys |-> Absent] /\ today = 1

-----------------------------------------------------------------------------
(* Around the service.                                                      *)

NextDay ==
    /\ today < MaxDate /\ today' = today + 1
    /\ UNCHANGED <<tokenVars, cacheVars, callVars, outcome, logged, store>>

TokenExpires(c) ==
    /\ fresh[c] /\ fresh' = [fresh EXCEPT ![c] = FALSE]
    /\ UNCHANGED <<tokenVars, credentials, client, staleRefusals, callVars, outcome, logged, store, today>>

Revoke ==
    /\ accepted' = 0
    /\ UNCHANGED <<secret, issued, cacheVars, callVars, outcome, logged, store, today>>

\* The operator obtains a new consent and replaces the secret; earlier refresh
\* tokens are refused from then on, the worst that Spotify may do.
UpdateSecret ==
    /\ issued < MaxToken
    /\ issued' = issued + 1 /\ accepted' = issued' /\ secret' = issued'
    /\ staleRefusals' = [c \in Containers |-> 0]
    /\ UNCHANGED <<credentials, client, fresh, callVars, outcome, logged, store, today>>

Forget(c) ==
    /\ credentials' = [credentials EXCEPT ![c] = 0] /\ client' = [client EXCEPT ![c] = 0]
    /\ fresh' = [fresh EXCEPT ![c] = FALSE]

\* Lambda discards an idle container; a new one starts with empty caches.
Recycle(c) ==
    /\ c \notin running
    /\ Forget(c) /\ staleRefusals' = [staleRefusals EXCEPT ![c] = 0]
    /\ UNCHANGED <<tokenVars, callVars, outcome, logged, store, today>>

-----------------------------------------------------------------------------
(* lambda_handler and the caches of credentials.py.                         *)

Invoke(c) ==
    /\ pc = "idle" /\ attempt < MaxAttempts
    /\ \A a \in Attempts : outcome[a] # "success"
    /\ attempt' = attempt + 1 /\ running' = {c} /\ pc' = "start"
    /\ position' = 1
    /\ UNCHANGED <<tokenVars, cacheVars, captured, conflicted, outcome, logged, store, today>>

Finish(result) ==
    /\ outcome' = [outcome EXCEPT ![attempt] = result]
    /\ pc' = "idle" /\ running' = {} /\ conflicted' = FALSE
    /\ UNCHANGED <<attempt, position, captured>>

Log(event) == logged' = logged \cup {<<attempt, position, event>>}

\* get_default_credentials: the cached secret, or the present one.
DefaultCredentials(c) == IF credentials[c] # 0 THEN credentials[c] ELSE secret

GetAuthClient(c) ==
    /\ pc = "start" /\ c \in running
    /\ IF client[c] # 0 THEN UNCHANGED cacheVars
       ELSE /\ credentials' = [credentials EXCEPT ![c] = DefaultCredentials(c)]
            /\ client' = [client EXCEPT ![c] = DefaultCredentials(c)]
            /\ UNCHANGED <<fresh, staleRefusals>>
    /\ pc' = "extract"
    /\ UNCHANGED <<tokenVars, attempt, running, position, captured, conflicted>>
    /\ UNCHANGED <<outcome, logged, store, today>>

SecretUnavailable(c) ==
    /\ pc = "start" /\ c \in running /\ client[c] = 0 /\ credentials[c] = 0
    /\ Finish("failed")
    /\ UNCHANGED <<tokenVars, cacheVars, logged, store, today>>

\* The exchange that extract makes when no access token is live.
Exchange(c) ==
    IF fresh[c] THEN UNCHANGED <<accepted, issued, client, fresh>>
    ELSE /\ client[c] = accepted
         /\ fresh' = [fresh EXCEPT ![c] = TRUE]
         /\ \/ UNCHANGED <<accepted, issued, client>>
            \/ /\ issued < MaxToken /\ issued' = issued + 1 /\ accepted' = issued'
               /\ client' = [client EXCEPT ![c] = issued']

ExtractSucceeds(c) ==
    /\ pc = "extract" /\ c \in running
    /\ Exchange(c)
    /\ captured' = today /\ pc' = "put"
    /\ UNCHANGED <<secret, credentials, staleRefusals, attempt, running, position, conflicted>>
    /\ UNCHANGED <<outcome, logged, store, today>>

\* Any other exception of the extractor; an exchange may have been made, and its
\* answer, with a new refresh token, may have been lost.
ExtractFails(c) ==
    /\ pc = "extract" /\ c \in running
    /\ \/ UNCHANGED <<accepted, issued, client, fresh>>
       \/ Exchange(c)
       \/ /\ ~fresh[c] /\ client[c] = accepted /\ issued < MaxToken
          /\ issued' = issued + 1 /\ accepted' = issued' /\ UNCHANGED <<client, fresh>>
    /\ Finish("failed") /\ Log("EXTRACTION_FAILED")
    /\ UNCHANGED <<secret, credentials, staleRefusals, store, today>>

\* Mutant of Invalidate: the client is dropped without the secret it came from.
InvalidateClient(c) ==
    /\ client' = [client EXCEPT ![c] = 0] /\ fresh' = [fresh EXCEPT ![c] = FALSE]
    /\ UNCHANGED credentials

\* invalidate_runtime_caches
Invalidate(c) == Forget(c)

InvalidGrant(c) ==
    /\ pc = "extract" /\ c \in running /\ ~fresh[c] /\ client[c] # accepted
    /\ Invalidate(c)
    /\ staleRefusals' = IF secret = accepted THEN [staleRefusals EXCEPT ![c] = @ + 1]
                        ELSE staleRefusals
    /\ Finish("failed") /\ Log("EXTRACTION_FAILED")
    /\ UNCHANGED <<tokenVars, store, today>>

\* A timeout of Lambda or a crash takes the container's caches with it.
Crash(c) ==
    /\ c \in running
    /\ Forget(c) /\ staleRefusals' = [staleRefusals EXCEPT ![c] = 0]
    /\ Finish("crashed")
    /\ UNCHANGED <<tokenVars, logged, store, today>>

-----------------------------------------------------------------------------
(* S3BronzeWriter.write and the rest of the loop of run.                    *)

outsideVars == <<tokenVars, cacheVars, today>>

\* The playlist is published: the loop goes on, or the invocation returns 200.
Published ==
    /\ Log("S3_WRITE_SUCCESS")
    /\ IF position < PlaylistCount
       THEN /\ position' = position + 1 /\ pc' = "extract" /\ conflicted' = FALSE
            /\ UNCHANGED <<attempt, running, captured, outcome>>
       ELSE Finish("success")
    /\ UNCHANGED outsideVars

\* Mutant of WriteError: the error is swallowed, and the loop goes on with the next
\* playlist.
SkipPlaylist ==
    /\ Log("EXTRACTION_FAILED")
    /\ IF position < PlaylistCount
       THEN /\ position' = position + 1 /\ pc' = "extract" /\ conflicted' = FALSE
            /\ UNCHANGED <<attempt, running, captured, outcome>>
       ELSE Finish("success")
    /\ UNCHANGED outsideVars

WriteError ==
    /\ Finish("failed") /\ Log("EXTRACTION_FAILED")
    /\ UNCHANGED outsideVars

\* Mutant of Creatable: a put without IfNoneMatch.
Overwritable == TRUE

Creatable == store[Key] = Absent

PutCreates ==
    /\ pc = "put" /\ Creatable
    /\ store' = [store EXCEPT ![Key] = attempt]
    /\ Published

\* The object is created and the response lost: the SDK sends the put again, or
\* the put raises.
PutUnheard ==
    /\ pc = "put" /\ Creatable
    /\ store' = [store EXCEPT ![Key] = attempt]
    /\ \/ UNCHANGED <<outsideVars, callVars, outcome, logged>>
       \/ WriteError

\* 409: the put is sent once more.
PutConflicts ==
    /\ pc = "put" /\ ~conflicted /\ conflicted' = TRUE
    /\ UNCHANGED <<outsideVars, attempt, running, pc, position, captured, outcome, logged, store>>

\* Mutant of PutRefused: the object that is there is taken for one's own.
TakeForPublished == pc = "put" /\ ~Creatable /\ Published /\ UNCHANGED store

\* 412
PutRefused == pc = "put" /\ ~Creatable /\ WriteError /\ UNCHANGED store

\* A second 409, or any other error.
PutFails == pc = "put" /\ WriteError /\ UNCHANGED store

Next ==
    \/ NextDay \/ Revoke \/ UpdateSecret
    \/ PutCreates \/ PutUnheard \/ PutConflicts \/ PutRefused \/ PutFails
    \/ \E c \in Containers :
         \/ TokenExpires(c) \/ Recycle(c) \/ Crash(c)
         \/ Invoke(c) \/ GetAuthClient(c) \/ SecretUnavailable(c)
         \/ ExtractSucceeds(c) \/ ExtractFails(c) \/ InvalidGrant(c)

Spec == Init /\ [][Next]_vars

-----------------------------------------------------------------------------
\* The variables have their types.
TypeOK ==
    /\ secret \in Tokens /\ accepted \in Tokens \cup {0} /\ issued \in Tokens
    /\ credentials \in [Containers -> Tokens \cup {0}]
    /\ client \in [Containers -> Tokens \cup {0}] /\ fresh \in [Containers -> BOOLEAN]
    /\ staleRefusals \in [Containers -> Nat]
    /\ attempt \in 0 .. MaxAttempts /\ running \subseteq Containers
    /\ pc \in {"idle", "start", "extract", "put"} /\ position \in Playlists
    /\ captured \in 1 .. MaxDate /\ conflicted \in BOOLEAN
    /\ outcome \in [Attempts -> {"none", "success", "failed", "crashed"}]
    /\ logged \subseteq Attempts \X Playlists \X {"S3_WRITE_SUCCESS", "EXTRACTION_FAILED"}
    /\ store \in [Keys -> Attempts \cup {Absent}] /\ today \in 1 .. MaxDate

\* Bronze is immutable: whatever is retried, an object is created once and stays.
Bronze == INSTANCE WriteOnceStore WITH Values <- Attempts
BronzeIsWriteOnce == Bronze!Spec

ObjectOf(a, p) == \E d \in 1 .. MaxDate : store[<<d, p>>] = a

\* An invocation that returns 200 has published every playlist of its event
\* itself; it never reports the object of an earlier attempt as its own.
SuccessIsComplete ==
    \A a \in Attempts : outcome[a] = "success" => \A p \in Playlists : ObjectOf(a, p)

\* An attempt publishes its playlists in the order of the event, leaving none out.
InSequence ==
    \A a \in Attempts, p \in Playlists :
        ObjectOf(a, p) => \A q \in 1 .. p : ObjectOf(a, q)

\* Where EXTRACTION_FAILED was logged, every playlist before the failed one has been
\* published, and none after it.
FailureStops ==
    \A a \in Attempts, p \in Playlists :
        <<a, p, "EXTRACTION_FAILED">> \in logged =>
            \A q \in Playlists : (q < p => ObjectOf(a, q)) /\ (ObjectOf(a, q) => q <= p)

\* However an attempt ends, it leaves a prefix of the event.  If it has logged the
\* playlist it failed on, the prefix reaches up to that playlist, whose own object
\* exists only if it was stored and the put nevertheless failed.
PartialRunIsAPrefix == InSequence /\ FailureStops

\* A retry does not complete what another attempt began: while a run has objects
\* of one ingestion date only, they are of one attempt.
RetriesDoNotMix ==
    \/ \E k, l \in Keys : k[1] # l[1] /\ store[k] # Absent /\ store[l] # Absent
    \/ \A k, l \in Keys : store[k] # Absent /\ store[l] # Absent => store[k] = store[l]

\* S3_WRITE_SUCCESS is only logged of objects that exist.
LogIsTrue ==
    \A a \in Attempts, p \in Playlists :
        <<a, p, "S3_WRITE_SUCCESS">> \in logged => ObjectOf(a, p)

\* Once the operator has replaced the secret by one that Spotify accepts, a warm
\* container fails with the old one at most once.
RecoversFromUpdate == \A c \in Containers : staleRefusals[c] <= 1

\* Only a started attempt is under way, by one container at a time that has a
\* client once it extracts.
UnderWay ==
    /\ pc # "idle" => attempt \in Attempts /\ outcome[attempt] = "none"
    /\ running = {} <=> pc = "idle"
    /\ \A b, c \in running : b = c
    /\ \A a \in Attempts : a > attempt => outcome[a] = "none"
    /\ \A c \in running : pc \in {"extract", "put"} => client[c] # 0

\* The attempt under way has published the playlists before its position, and at
\* most the present one, whose response it waits for.
InOrder ==
    /\ \A k \in Keys : store[k] <= attempt
    /\ pc # "idle" =>
         /\ \A p \in 1 .. position - 1 : ObjectOf(attempt, p)
         /\ \A p \in Playlists :
              ObjectOf(attempt, p) => p < position \/ (p = position /\ pc = "put")

\* A container that was refused since the secret became good has dropped what it
\* had, and can only load the good one.
RefusedOnce ==
    /\ secret <= issued
    /\ \A c \in Containers :
         staleRefusals[c] # 0 /\ secret = accepted
           => credentials[c] \in {0, secret} /\ client[c] \in {0, secret}

\* The playlist that fails ends its attempt.
FailureEnds ==
    \A a \in Attempts, p \in Playlists :
        <<a, p, "EXTRACTION_FAILED">> \in logged => outcome[a] = "failed"

LambdaInv ==
    /\ TypeOK /\ UnderWay /\ InOrder /\ FailureEnds /\ RefusedOnce
    /\ PartialRunIsAPrefix /\ SuccessIsComplete /\ LogIsTrue /\ RetriesDoNotMix
    /\ RecoversFromUpdate
=============================================================================
