----------------------- MODULE LambdaIngestionProofs ------------------------
(***************************************************************************)
(* Proofs about the Lambda ingestion service, for any containers, length   *)
(* of the event, number of attempts, tokens and days.                      *)
(***************************************************************************)
EXTENDS LambdaIngestion, TLAPS

-----------------------------------------------------------------------------
(* Types, and which attempt is under way.                                   *)

LEMMA InitTypes == Init => TypeOK /\ UnderWay
<1> SUFFICES ASSUME Init PROVE TypeOK /\ UnderWay
  OBVIOUS
<1>1. 1 \in Tokens /\ 1 \in Playlists /\ 1 \in 1 .. MaxDate /\ 0 \in 0 .. MaxAttempts
  BY LambdaAssumption DEF Tokens, Playlists
<1>2. store \in [Keys -> Attempts \cup {Absent}]
  BY DEF Init
<1>3. TypeOK
  BY <1>1, <1>2 DEF Init, TypeOK
<1>4. UnderWay
  BY DEF Init, UnderWay
<1>. QED
  BY <1>3, <1>4

\* The exchange keeps the tokens in their ranges, and a client keeps its token.
LEMMA ExchangeTypes ==
  ASSUME TypeOK, NEW c \in Containers, Exchange(c)
  PROVE  /\ accepted' \in Tokens \cup {0} /\ issued' \in Tokens
         /\ client' \in [Containers -> Tokens \cup {0}] /\ fresh' \in [Containers -> BOOLEAN]
         /\ client[c] # 0 => client'[c] # 0
<1>1. CASE fresh[c]
  BY <1>1 DEF Exchange, TypeOK
<1>2. CASE ~fresh[c]
  <2>1. /\ fresh' = [fresh EXCEPT ![c] = TRUE]
        /\ \/ UNCHANGED <<accepted, issued, client>>
           \/ /\ issued < MaxToken /\ issued' = issued + 1 /\ accepted' = issued'
              /\ client' = [client EXCEPT ![c] = issued']
    BY <1>2 DEF Exchange
  <2>2. issued < MaxToken => issued + 1 \in Tokens /\ issued + 1 # 0
    BY LambdaAssumption DEF TypeOK, Tokens
  <2>3. fresh' \in [Containers -> BOOLEAN]
    BY <2>1 DEF TypeOK
  <2>. QED
    BY <2>1, <2>2, <2>3 DEF TypeOK
<1>. QED
  BY <1>1, <1>2

\* What is left of an invocation that ends.
LEMMA FinishTypes ==
  ASSUME TypeOK, NEW result \in {"success", "failed", "crashed"}, Finish(result)
  PROVE  /\ attempt' \in 0 .. MaxAttempts /\ running' \subseteq Containers
         /\ pc' \in {"idle", "start", "extract", "put"} /\ position' \in Playlists
         /\ captured' \in 1 .. MaxDate /\ conflicted' \in BOOLEAN
         /\ outcome' \in [Attempts -> {"none", "success", "failed", "crashed"}]
  BY DEF Finish, TypeOK

\* The loop advances, or the invocation ends.
LEMMA PublishedTypes ==
  ASSUME TypeOK, UnderWay, pc # "idle", Published
  PROVE  /\ attempt' \in 0 .. MaxAttempts /\ running' \subseteq Containers
         /\ pc' \in {"idle", "start", "extract", "put"} /\ position' \in Playlists
         /\ captured' \in 1 .. MaxDate /\ conflicted' \in BOOLEAN
         /\ outcome' \in [Attempts -> {"none", "success", "failed", "crashed"}]
         /\ logged' \subseteq Attempts \X Playlists \X {"S3_WRITE_SUCCESS", "EXTRACTION_FAILED"}
<1>1. CASE position < PlaylistCount
  <2>1. position + 1 \in Playlists
    BY <1>1, LambdaAssumption DEF TypeOK, Playlists
  <2>2. logged' \subseteq Attempts \X Playlists \X {"S3_WRITE_SUCCESS", "EXTRACTION_FAILED"}
    BY DEF Published, Log, TypeOK, UnderWay
  <2>. QED
    BY <1>1, <2>1, <2>2 DEF Published, TypeOK
<1>2. CASE ~(position < PlaylistCount)
  <2>1. Finish("success")
    BY <1>2 DEF Published
  <2>2. logged' \subseteq Attempts \X Playlists \X {"S3_WRITE_SUCCESS", "EXTRACTION_FAILED"}
    BY DEF Published, Log, TypeOK, UnderWay
  <2>. QED
    BY <2>1, <2>2, FinishTypes
<1>. QED
  BY <1>1, <1>2

\* A put that fails, or is refused.
LEMMA WriteErrorTypes ==
  ASSUME TypeOK, UnderWay, pc # "idle", WriteError
  PROVE  /\ attempt' \in 0 .. MaxAttempts /\ running' \subseteq Containers
         /\ pc' \in {"idle", "start", "extract", "put"} /\ position' \in Playlists
         /\ captured' \in 1 .. MaxDate /\ conflicted' \in BOOLEAN
         /\ outcome' \in [Attempts -> {"none", "success", "failed", "crashed"}]
         /\ logged' \subseteq Attempts \X Playlists \X {"S3_WRITE_SUCCESS", "EXTRACTION_FAILED"}
<1>1. Finish("failed")
  BY DEF WriteError
<1>2. logged' \subseteq Attempts \X Playlists \X {"S3_WRITE_SUCCESS", "EXTRACTION_FAILED"}
  BY DEF WriteError, Log, TypeOK, UnderWay
<1>. QED
  BY <1>1, <1>2, FinishTypes

\* The key of the put under way.
LEMMA KeyIsKey == ASSUME TypeOK PROVE Key \in Keys
  BY DEF Key, Keys, TypeOK

LEMMA TypeStep == ASSUME TypeOK, UnderWay, [Next]_vars PROVE TypeOK'
<1>1. CASE NextDay
  BY <1>1, LambdaAssumption DEF NextDay, TypeOK, tokenVars, cacheVars, callVars
<1>2. CASE Revoke
  BY <1>2 DEF Revoke, TypeOK, cacheVars, callVars
<1>3. CASE UpdateSecret
  BY <1>3, LambdaAssumption DEF UpdateSecret, TypeOK, Tokens, callVars
<1>4. CASE PutCreates
  <2>1. store' \in [Keys -> Attempts \cup {Absent}]
    BY <1>4, KeyIsKey DEF PutCreates, TypeOK, UnderWay
  <2>2. UNCHANGED outsideVars
    BY <1>4 DEF PutCreates, Published
  <2>. QED
    BY <1>4, <2>1, <2>2, PublishedTypes DEF PutCreates, TypeOK, outsideVars, tokenVars, cacheVars
<1>5. CASE PutUnheard
  <2>1. store' \in [Keys -> Attempts \cup {Absent}]
    BY <1>5, KeyIsKey DEF PutUnheard, TypeOK, UnderWay
  <2>2. CASE UNCHANGED <<outsideVars, callVars, outcome, logged>>
    BY <2>1, <2>2 DEF TypeOK, outsideVars, tokenVars, cacheVars, callVars
  <2>3. CASE WriteError
    <3>1. UNCHANGED outsideVars
      BY <2>3 DEF WriteError
    <3>. QED
      BY <1>5, <2>1, <2>3, <3>1, WriteErrorTypes
      DEF PutUnheard, TypeOK, outsideVars, tokenVars, cacheVars
  <2>. QED
    BY <1>5, <2>2, <2>3 DEF PutUnheard
<1>6. CASE PutConflicts
  BY <1>6 DEF PutConflicts, TypeOK, outsideVars, tokenVars, cacheVars
<1>7. CASE PutRefused \/ PutFails
  <2>1. WriteError /\ UNCHANGED <<store, outsideVars>> /\ pc # "idle"
    BY <1>7 DEF PutRefused, PutFails, WriteError
  <2>. QED
    BY <2>1, WriteErrorTypes DEF TypeOK, outsideVars, tokenVars, cacheVars
<1>8. ASSUME NEW c \in Containers, TokenExpires(c) PROVE TypeOK'
  BY <1>8 DEF TokenExpires, TypeOK, tokenVars, callVars
<1>9. ASSUME NEW c \in Containers, Recycle(c) PROVE TypeOK'
  BY <1>9 DEF Recycle, Forget, TypeOK, tokenVars, callVars
<1>10. ASSUME NEW c \in Containers, Crash(c) PROVE TypeOK'
  BY <1>10, FinishTypes DEF Crash, Forget, TypeOK, tokenVars
<1>11. ASSUME NEW c \in Containers, Invoke(c) PROVE TypeOK'
  BY <1>11, LambdaAssumption DEF Invoke, TypeOK, Playlists, tokenVars, cacheVars
<1>12. ASSUME NEW c \in Containers, GetAuthClient(c) PROVE TypeOK'
  BY <1>12 DEF GetAuthClient, DefaultCredentials, TypeOK, tokenVars, cacheVars
<1>13. ASSUME NEW c \in Containers, SecretUnavailable(c) PROVE TypeOK'
  BY <1>13, FinishTypes DEF SecretUnavailable, TypeOK, tokenVars, cacheVars
<1>14. ASSUME NEW c \in Containers, ExtractSucceeds(c) PROVE TypeOK'
  BY <1>14, ExchangeTypes DEF ExtractSucceeds, TypeOK
<1>15. ASSUME NEW c \in Containers, ExtractFails(c) PROVE TypeOK'
  <2>1. /\ accepted' \in Tokens \cup {0} /\ issued' \in Tokens
        /\ client' \in [Containers -> Tokens \cup {0}] /\ fresh' \in [Containers -> BOOLEAN]
    BY <1>15, ExchangeTypes, LambdaAssumption DEF ExtractFails, TypeOK, Tokens
  <2>2. logged' \subseteq Attempts \X Playlists \X {"S3_WRITE_SUCCESS", "EXTRACTION_FAILED"}
    BY <1>15 DEF ExtractFails, Log, TypeOK, UnderWay
  <2>. QED
    BY <1>15, <2>1, <2>2, FinishTypes DEF ExtractFails, TypeOK
<1>16. ASSUME NEW c \in Containers, InvalidGrant(c) PROVE TypeOK'
  <2>1. logged' \subseteq Attempts \X Playlists \X {"S3_WRITE_SUCCESS", "EXTRACTION_FAILED"}
    BY <1>16 DEF InvalidGrant, Log, TypeOK, UnderWay
  <2>2. /\ credentials' \in [Containers -> Tokens \cup {0}]
        /\ client' \in [Containers -> Tokens \cup {0}] /\ fresh' \in [Containers -> BOOLEAN]
        /\ staleRefusals' \in [Containers -> Nat]
    BY <1>16 DEF InvalidGrant, Invalidate, Forget, TypeOK
  <2>. QED
    BY <1>16, <2>1, <2>2, FinishTypes DEF InvalidGrant, TypeOK, tokenVars
<1>17. CASE UNCHANGED vars
  BY <1>17 DEF vars, tokenVars, cacheVars, callVars, TypeOK
<1>. QED
  BY <1>1, <1>2, <1>3, <1>4, <1>5, <1>6, <1>7, <1>8, <1>9, <1>10, <1>11, <1>12, <1>13, <1>14, <1>15, <1>16, <1>17
  DEF Next

\* An invocation that ends leaves nothing under way.
LEMMA FinishUnderWay ==
  ASSUME TypeOK, UnderWay, pc # "idle",
         NEW result \in {"success", "failed", "crashed"}, Finish(result)
  PROVE  UnderWay'
  BY DEF Finish, TypeOK, UnderWay, Attempts

LEMMA UnderWayStep == ASSUME TypeOK, UnderWay, [Next]_vars PROVE UnderWay'
<1>1. CASE UNCHANGED <<client, callVars, outcome>>
  BY <1>1 DEF UnderWay, callVars
<1>2. ASSUME pc # "idle", NEW result \in {"success", "failed", "crashed"}, Finish(result)
      PROVE  UnderWay'
  BY <1>2, FinishUnderWay
<1>3. CASE PutCreates
  <2>1. CASE position < PlaylistCount
    BY <1>3, <2>1 DEF PutCreates, Published, outsideVars, cacheVars, UnderWay
  <2>2. CASE ~(position < PlaylistCount)
    BY <1>3, <2>2, <1>2 DEF PutCreates, Published
  <2>. QED
    BY <2>1, <2>2
<1>4. CASE PutUnheard
  BY <1>1, <1>2, <1>4 DEF PutUnheard, WriteError, outsideVars, cacheVars
<1>5. CASE PutConflicts
  BY <1>5 DEF PutConflicts, outsideVars, cacheVars, UnderWay
<1>6. CASE PutRefused \/ PutFails
  BY <1>2, <1>6 DEF PutRefused, PutFails, WriteError
<1>7. ASSUME NEW c \in Containers, TokenExpires(c) \/ Recycle(c) PROVE UnderWay'
  BY <1>7 DEF TokenExpires, Recycle, Forget, UnderWay, callVars, TypeOK
<1>8. ASSUME NEW c \in Containers, Crash(c) \/ SecretUnavailable(c) \/ ExtractFails(c) \/ InvalidGrant(c)
      PROVE  UnderWay'
  <2>1. c \in running
    BY <1>8 DEF Crash, SecretUnavailable, ExtractFails, InvalidGrant
  <2>2. pc # "idle"
    BY <2>1 DEF UnderWay
  <2>. QED
    BY <1>2, <1>8, <2>2 DEF Crash, SecretUnavailable, ExtractFails, InvalidGrant
<1>9. ASSUME NEW c \in Containers, Invoke(c) PROVE UnderWay'
  <2>1. attempt + 1 \in Attempts /\ attempt + 1 > attempt
    BY <1>9, LambdaAssumption DEF Invoke, TypeOK, Attempts
  <2>2. attempt' \in Attempts /\ outcome'[attempt'] = "none"
    BY <1>9, <2>1 DEF Invoke, UnderWay
  <2>3. \A a \in Attempts : a > attempt' => outcome'[a] = "none"
    BY <1>9 DEF Invoke, UnderWay, TypeOK, Attempts
  <2>. QED
    BY <1>9, <2>2, <2>3 DEF Invoke, UnderWay
<1>10. ASSUME NEW c \in Containers, GetAuthClient(c) PROVE UnderWay'
  <2>1. pc' = "extract" /\ UNCHANGED <<attempt, running, outcome>>
    BY <1>10 DEF GetAuthClient
  <2>2. client'[c] # 0
    BY <1>10 DEF GetAuthClient, DefaultCredentials, TypeOK, cacheVars, Tokens
  <2>. QED
    BY <1>10, <2>1, <2>2 DEF GetAuthClient, UnderWay
<1>11. ASSUME NEW c \in Containers, ExtractSucceeds(c) PROVE UnderWay'
  BY <1>11, ExchangeTypes DEF ExtractSucceeds, Exchange, UnderWay, TypeOK
<1>. QED
  BY <1>1, <1>3, <1>4, <1>5, <1>6, <1>7, <1>8, <1>9, <1>10, <1>11
  DEF Next, NextDay, Revoke, UpdateSecret, vars, cacheVars

-----------------------------------------------------------------------------
(* Bronze: what a put changes.                                              *)

\* The only writes are creations by the attempt under way.
Creates ==
  /\ pc = "put" /\ store[Key] = Absent
  /\ store' = [store EXCEPT ![Key] = attempt]

LEMMA StoreStep == ASSUME TypeOK, UnderWay, [Next]_vars PROVE UNCHANGED store \/ Creates
<1>1. CASE UNCHANGED vars
  BY <1>1 DEF vars
<1>2. CASE PutCreates \/ PutUnheard
  BY <1>2 DEF PutCreates, PutUnheard, Creatable, Creates
<1>3. CASE Next /\ ~(PutCreates \/ PutUnheard)
  BY <1>3 DEF Next, NextDay, Revoke, UpdateSecret, PutConflicts, PutRefused, PutFails, TokenExpires,
     Recycle, Crash, Invoke, GetAuthClient, SecretUnavailable, ExtractSucceeds, ExtractFails, InvalidGrant
<1>. QED
  BY <1>1, <1>2, <1>3

\* A creation adds one object of the attempt under way, and takes none away.
LEMMA CreationAdds ==
  ASSUME TypeOK, UnderWay, Creates, NEW a \in Attempts, NEW p \in Playlists
  PROVE  ObjectOf(a, p)' <=> (ObjectOf(a, p) \/ (a = attempt /\ p = position))
<1>1. Key = <<captured, position>> /\ Key \in Keys /\ captured \in 1 .. MaxDate /\ a # Absent
  BY KeyIsKey DEF Key, TypeOK, Absent, Attempts
<1>2. \A d \in 1 .. MaxDate : <<d, p>> \in Keys
  BY DEF Keys
<1>3. \A k \in Keys : store'[k] = IF k = Key THEN attempt ELSE store[k]
  BY <1>1 DEF Creates, TypeOK
<1>4. ASSUME NEW d \in 1 .. MaxDate
      PROVE  store'[<<d, p>>] = a
               <=> (store[<<d, p>>] = a \/ (a = attempt /\ <<d, p>> = Key))
  BY <1>1, <1>2, <1>3, <1>4 DEF Creates
<1>5. \A d \in 1 .. MaxDate : <<d, p>> = Key <=> d = captured /\ p = position
  BY <1>1
<1>. QED
  BY <1>1, <1>4, <1>5 DEF ObjectOf

\* Without a creation the objects are what they were.
LEMMA ObjectsStill ==
  ASSUME UNCHANGED store, NEW a, NEW p PROVE ObjectOf(a, p)' <=> ObjectOf(a, p)
  BY DEF ObjectOf

\* Objects stay.
LEMMA ObjectsStay ==
  ASSUME TypeOK, UnderWay, [Next]_vars, NEW a \in Attempts, NEW p \in Playlists, ObjectOf(a, p)
  PROVE  ObjectOf(a, p)'
  BY StoreStep, CreationAdds, ObjectsStill

\* Only a stored object is an attempt's, and not of an attempt to come.
LEMMA ObjectsAreOld ==
  ASSUME TypeOK, InOrder, NEW a \in Attempts, NEW p \in Playlists, ObjectOf(a, p)
  PROVE  a <= attempt
<1>1. PICK d \in 1 .. MaxDate : store[<<d, p>>] = a
  BY DEF ObjectOf
<1>. QED
  BY <1>1 DEF InOrder, Keys

\* How the position of the attempt under way changes.
LEMMA PositionStep ==
  ASSUME TypeOK, UnderWay, [Next]_vars, pc' # "idle"
  PROVE  \/ pc = "idle" /\ attempt' = attempt + 1 /\ position' = 1 /\ pc' = "start"
            /\ UNCHANGED store
         \/ pc # "idle" /\ UNCHANGED <<attempt, position>> /\ pc' = pc
         \/ pc \in {"start", "extract"} /\ UNCHANGED <<attempt, position, store>>
         \/ pc = "put" /\ attempt' = attempt /\ position' = position + 1 /\ pc' = "extract" /\ Creates
<1>1. CASE UNCHANGED vars
  BY <1>1 DEF vars, callVars
<1>2. CASE PutCreates
  BY <1>2 DEF PutCreates, Published, Finish, Creatable, Creates
<1>3. CASE PutUnheard
  BY <1>3 DEF PutUnheard, WriteError, Finish, callVars
<1>4. CASE Next /\ ~(PutCreates \/ PutUnheard)
  BY <1>4 DEF Next, NextDay, Revoke, UpdateSecret, PutConflicts, PutRefused, PutFails, TokenExpires,
     Recycle, Crash, Invoke, GetAuthClient, SecretUnavailable, ExtractSucceeds, ExtractFails, InvalidGrant,
     Finish, WriteError, callVars
<1>. QED
  BY <1>1, <1>2, <1>3, <1>4

\* Attempts are counted upwards.
LEMMA AttemptStep == ASSUME TypeOK, [Next]_vars PROVE attempt <= attempt'
<1>1. attempt \in Nat
  BY LambdaAssumption DEF TypeOK
<1>2. CASE UNCHANGED vars
  BY <1>1, <1>2 DEF vars, callVars
<1>3. CASE PutCreates \/ PutUnheard \/ PutConflicts \/ PutRefused \/ PutFails
  BY <1>1, <1>3 DEF PutCreates, Published, PutUnheard, PutConflicts, PutRefused, PutFails, Finish,
     WriteError, callVars
<1>4. CASE Next /\ ~(PutCreates \/ PutUnheard \/ PutConflicts \/ PutRefused \/ PutFails)
  BY <1>1, <1>4 DEF Next, NextDay, Revoke, UpdateSecret, TokenExpires,
     Recycle, Crash, Invoke, GetAuthClient, SecretUnavailable, ExtractSucceeds, ExtractFails, InvalidGrant,
     Finish, callVars
<1>. QED
  BY <1>2, <1>3, <1>4

LEMMA InOrderStep ==
  ASSUME TypeOK, UnderWay, InOrder, [Next]_vars
  PROVE  InOrder'
<1>0. TypeOK' /\ UnderWay' /\ attempt \in Nat /\ attempt' \in Nat
  BY TypeStep, UnderWayStep, LambdaAssumption DEF TypeOK
<1>1. ASSUME NEW k \in Keys PROVE store'[k] <= attempt'
  <2>1. store'[k] = store[k] \/ store'[k] = attempt
    BY StoreStep, KeyIsKey DEF Creates, TypeOK
  <2>2. store[k] <= attempt /\ store[k] \in Nat
    BY LambdaAssumption DEF InOrder, TypeOK, Attempts, Absent
  <2>. QED
    BY <1>0, <2>1, <2>2, AttemptStep
<1>2. ASSUME pc' # "idle", NEW a \in Attempts, attempt' = a
      PROVE  /\ \A p \in 1 .. position' - 1 : ObjectOf(a, p)'
             /\ \A p \in Playlists : ObjectOf(a, p)' => p < position' \/ (p = position' /\ pc' = "put")
  <2>0. position \in Playlists /\ position' \in Playlists /\ Playlists \subseteq Nat
    BY <1>0 DEF TypeOK, Playlists
  <2>1. \A p \in 1 .. position' - 1 : p \in Playlists /\ p \in Nat /\ p < position'
    <3>1. ASSUME NEW n \in Playlists, NEW p \in 1 .. n - 1
          PROVE  p \in Playlists /\ p \in Nat /\ p < n
      BY <3>1, LambdaAssumption DEF Playlists
    <3>. QED
      BY <2>0, <3>1
  <2>2. CASE pc = "idle" /\ attempt' = attempt + 1 /\ position' = 1 /\ UNCHANGED store
    <3>1. \A p \in Playlists : ~ObjectOf(a, p)
      BY <1>0, <1>2, <2>2, ObjectsAreOld
    <3>2. \A p \in Playlists : ~ObjectOf(a, p)'
      BY <2>2, <3>1, ObjectsStill
    <3>. QED
      BY <2>2, <3>2
  <2>3. ASSUME pc # "idle", attempt = a
        PROVE  /\ \A p \in 1 .. position - 1 : ObjectOf(a, p)
               /\ \A p \in Playlists : ObjectOf(a, p) => p < position \/ (p = position /\ pc = "put")
    BY <2>3 DEF InOrder
  <2>4. CASE pc # "idle" /\ UNCHANGED <<attempt, position>> /\ pc' = pc
    <3>1. CASE UNCHANGED store
      BY <1>2, <2>3, <2>4, <3>1, ObjectsStill
    <3>2. CASE Creates
      <4>1. pc = "put" /\ attempt = a
        BY <1>2, <2>4, <3>2 DEF Creates
      <4>2. \A p \in Playlists : ObjectOf(a, p)' <=> (ObjectOf(a, p) \/ p = position)
        BY <3>2, <4>1, CreationAdds
      <4>. QED
        BY <2>0, <2>1, <2>3, <2>4, <4>1, <4>2
    <3>. QED
      BY <3>1, <3>2, StoreStep
  <2>5. CASE pc \in {"start", "extract"} /\ UNCHANGED <<attempt, position, store>>
    BY <1>2, <2>3, <2>5, ObjectsStill
  <2>6. CASE pc = "put" /\ attempt' = attempt /\ position' = position + 1 /\ pc' = "extract" /\ Creates
    <3>1. \A p \in Playlists : ObjectOf(a, p)' <=> (ObjectOf(a, p) \/ p = position)
      BY <1>2, <2>6, CreationAdds
    <3>2. \A p \in Playlists : p < position' <=> (p < position \/ p = position)
      BY <2>0, <2>6
    <3>3. \A p \in Playlists : ObjectOf(a, p)' => p < position'
      BY <1>2, <2>3, <2>6, <3>1, <3>2
    <3>4. \A p \in 1 .. position' - 1 : p \in 1 .. position - 1 \/ p = position
      BY <2>0, <2>6
    <3>5. \A p \in 1 .. position' - 1 : ObjectOf(a, p)'
      BY <1>2, <2>1, <2>3, <2>6, <3>1, <3>4
    <3>. QED
      BY <3>3, <3>5
  <2>. QED
    BY <1>2, <2>2, <2>4, <2>5, <2>6, PositionStep
<1>3. pc' # "idle" => attempt' \in Attempts
  BY <1>0 DEF UnderWay
<1>. QED
  BY <1>1, <1>2, <1>3 DEF InOrder

-----------------------------------------------------------------------------
(* What the invocations of an event leave in Bronze.                        *)

\* A step that ends an attempt with success created its last object.
LEMMA SuccessStep ==
  ASSUME TypeOK, UnderWay, [Next]_vars, NEW a \in Attempts, outcome'[a] = "success"
  PROVE  \/ outcome[a] = "success"
         \/ a = attempt /\ position = PlaylistCount /\ Creates
<1>1. ASSUME NEW result, result # "success", Finish(result) PROVE outcome[a] = "success"
  BY <1>1 DEF Finish, TypeOK
<1>2. CASE UNCHANGED vars
  BY <1>2 DEF vars
<1>3. CASE PutCreates
  <2>1. position \in 1 .. PlaylistCount /\ PlaylistCount \in Nat
    BY LambdaAssumption DEF TypeOK, Playlists
  <2>2. CASE position < PlaylistCount
    BY <1>3, <2>2 DEF PutCreates, Published
  <2>3. CASE ~(position < PlaylistCount)
    <3>1. Finish("success") /\ position = PlaylistCount
      BY <1>3, <2>1, <2>3 DEF PutCreates, Published
    <3>. QED
      BY <1>3, <3>1 DEF PutCreates, Creatable, Creates, Finish, TypeOK
  <2>. QED
    BY <2>2, <2>3
<1>4. CASE PutUnheard \/ PutConflicts \/ PutRefused \/ PutFails
  BY <1>1, <1>4 DEF PutUnheard, PutConflicts, PutRefused, PutFails, WriteError
<1>5. CASE Next /\ ~(PutCreates \/ PutUnheard \/ PutConflicts \/ PutRefused \/ PutFails)
  BY <1>1, <1>5 DEF Next, NextDay, Revoke, UpdateSecret, TokenExpires,
     Recycle, Crash, Invoke, GetAuthClient, SecretUnavailable, ExtractSucceeds, ExtractFails, InvalidGrant
<1>. QED
  BY <1>2, <1>3, <1>4, <1>5

\* S3_WRITE_SUCCESS is logged by the step that creates the object.
LEMMA LogStep ==
  ASSUME TypeOK, [Next]_vars, NEW a, NEW p, <<a, p, "S3_WRITE_SUCCESS">> \in logged'
  PROVE  \/ <<a, p, "S3_WRITE_SUCCESS">> \in logged
         \/ a = attempt /\ p = position /\ Creates
<1>1. ASSUME Log("EXTRACTION_FAILED") PROVE <<a, p, "S3_WRITE_SUCCESS">> \in logged
  BY <1>1 DEF Log
<1>2. CASE UNCHANGED vars
  BY <1>2 DEF vars
<1>3. CASE PutCreates
  BY <1>3 DEF PutCreates, Published, Log, Creatable, Creates
<1>4. CASE PutUnheard \/ PutConflicts \/ PutRefused \/ PutFails
  BY <1>1, <1>4 DEF PutUnheard, PutConflicts, PutRefused, PutFails, WriteError
<1>5. CASE Next /\ ~(PutCreates \/ PutUnheard \/ PutConflicts \/ PutRefused \/ PutFails)
  BY <1>1, <1>5 DEF Next, NextDay, Revoke, UpdateSecret, TokenExpires,
     Recycle, Crash, Invoke, GetAuthClient, SecretUnavailable, ExtractSucceeds, ExtractFails, InvalidGrant
<1>. QED
  BY <1>2, <1>3, <1>4, <1>5

\* The objects of an attempt stay a prefix: the playlist that is added follows those
\* that the attempt under way has published.
LEMMA SequenceStep ==
  ASSUME TypeOK, UnderWay, InOrder, InSequence, [Next]_vars
  PROVE  InSequence'
<1> SUFFICES ASSUME NEW a \in Attempts, NEW p \in Playlists, ObjectOf(a, p)', NEW q \in 1 .. p
             PROVE  ObjectOf(a, q)'
  BY DEF InSequence
<1>1. q \in Playlists /\ p \in Nat /\ q \in Nat
  BY LambdaAssumption DEF Playlists
<1>2. CASE ObjectOf(a, p)
  BY <1>1, <1>2, ObjectsStay DEF InSequence
<1>3. CASE ~ObjectOf(a, p)
  <2>1. Creates /\ a = attempt /\ p = position
    BY <1>3, StoreStep, CreationAdds, ObjectsStill
  <2>2. pc # "idle"
    BY <2>1 DEF Creates
  <2>3. CASE q = position
    BY <1>1, <2>1, <2>3, CreationAdds
  <2>4. CASE q # position
    <3>1. q \in 1 .. position - 1
      BY <1>1, <2>1, <2>4
    <3>2. ObjectOf(a, q)
      BY <2>1, <2>2, <3>1 DEF InOrder
    <3>. QED
      BY <1>1, <3>2, ObjectsStay
  <2>. QED
    BY <2>3, <2>4
<1>. QED
  BY <1>2, <1>3

\* A playlist is logged as failed by the step that ends its attempt.
LEMMA FailureLogStep ==
  ASSUME TypeOK, UnderWay, [Next]_vars, NEW a \in Attempts, NEW p \in Playlists,
         <<a, p, "EXTRACTION_FAILED">> \in logged'
  PROVE  \/ <<a, p, "EXTRACTION_FAILED">> \in logged
         \/ a = attempt /\ p = position /\ pc # "idle" /\ outcome'[a] = "failed"
<1> DEFINE Goal == \/ <<a, p, "EXTRACTION_FAILED">> \in logged
                   \/ a = attempt /\ p = position /\ pc # "idle" /\ outcome'[a] = "failed"
<1>1. ASSUME pc # "idle", Finish("failed"), Log("EXTRACTION_FAILED") PROVE Goal
  BY <1>1 DEF Finish, Log, TypeOK
<1>2. ASSUME Log("S3_WRITE_SUCCESS") PROVE Goal
  BY <1>2 DEF Log
<1>3. CASE UNCHANGED logged
  BY <1>3
<1>4. CASE PutCreates \/ PutUnheard \/ PutConflicts \/ PutRefused \/ PutFails
  BY <1>1, <1>2, <1>3, <1>4
  DEF PutCreates, Published, PutUnheard, PutConflicts, PutRefused, PutFails, WriteError
<1>5. ASSUME NEW c \in Containers, ExtractFails(c) \/ InvalidGrant(c) PROVE Goal
  BY <1>1, <1>5 DEF ExtractFails, InvalidGrant
<1>6. ASSUME NEW c \in Containers,
             \/ TokenExpires(c) \/ Recycle(c) \/ Crash(c)
             \/ Invoke(c) \/ GetAuthClient(c) \/ SecretUnavailable(c) \/ ExtractSucceeds(c)
      PROVE  Goal
  BY <1>3, <1>6 DEF TokenExpires, Recycle, Crash, Invoke, GetAuthClient, SecretUnavailable, ExtractSucceeds
<1>7. CASE NextDay \/ Revoke \/ UpdateSecret \/ UNCHANGED vars
  BY <1>3, <1>7 DEF NextDay, Revoke, UpdateSecret, vars
<1>. QED
  BY <1>4, <1>5, <1>6, <1>7 DEF Next

\* The outcome of an attempt is recorded once.
LEMMA OutcomeStays ==
  ASSUME TypeOK, UnderWay, [Next]_vars, NEW a \in Attempts, outcome[a] # "none"
  PROVE  outcome'[a] = outcome[a]
<1>1. ASSUME pc # "idle", NEW result, Finish(result) PROVE outcome'[a] = outcome[a]
  BY <1>1 DEF Finish, TypeOK, UnderWay
<1>2. CASE UNCHANGED outcome
  BY <1>2
<1>3. CASE PutCreates \/ PutUnheard \/ PutConflicts \/ PutRefused \/ PutFails
  BY <1>1, <1>2, <1>3
  DEF PutCreates, Published, PutUnheard, PutConflicts, PutRefused, PutFails, WriteError
<1>4. ASSUME NEW c \in Containers, ExtractFails(c) \/ InvalidGrant(c) \/ Crash(c) \/ SecretUnavailable(c)
      PROVE  outcome'[a] = outcome[a]
  <2>1. c \in running
    BY <1>4 DEF Crash, SecretUnavailable, ExtractFails, InvalidGrant
  <2>2. pc # "idle"
    BY <2>1 DEF UnderWay
  <2>. QED
    BY <1>1, <1>4, <2>2 DEF ExtractFails, InvalidGrant, Crash, SecretUnavailable
<1>5. ASSUME NEW c \in Containers,
             TokenExpires(c) \/ Recycle(c) \/ Invoke(c) \/ GetAuthClient(c) \/ ExtractSucceeds(c)
      PROVE  outcome'[a] = outcome[a]
  BY <1>2, <1>5 DEF TokenExpires, Recycle, Invoke, GetAuthClient, ExtractSucceeds
<1>6. CASE NextDay \/ Revoke \/ UpdateSecret \/ UNCHANGED vars
  BY <1>2, <1>6 DEF NextDay, Revoke, UpdateSecret, vars
<1>. QED
  BY <1>3, <1>4, <1>5, <1>6 DEF Next

LEMMA FailureEndsStep ==
  ASSUME TypeOK, UnderWay, FailureEnds, [Next]_vars PROVE FailureEnds'
<1> SUFFICES ASSUME NEW a \in Attempts, NEW p \in Playlists,
                    <<a, p, "EXTRACTION_FAILED">> \in logged'
             PROVE  outcome'[a] = "failed"
  BY DEF FailureEnds
<1>1. CASE <<a, p, "EXTRACTION_FAILED">> \in logged
  BY <1>1, OutcomeStays DEF FailureEnds
<1>. QED
  BY <1>1, FailureLogStep

\* Nothing is published for an attempt that has failed, and what it published before
\* the playlist it failed on stays.
LEMMA FailureStopsStep ==
  ASSUME TypeOK, UnderWay, InOrder, FailureEnds, FailureStops, [Next]_vars
  PROVE  FailureStops'
<1> SUFFICES ASSUME NEW a \in Attempts, NEW p \in Playlists,
                    <<a, p, "EXTRACTION_FAILED">> \in logged', NEW q \in Playlists
             PROVE  (q < p => ObjectOf(a, q)') /\ (ObjectOf(a, q)' => q <= p)
  BY DEF FailureStops
<1>0. p \in Nat /\ q \in Nat /\ 1 <= q
  BY LambdaAssumption DEF Playlists
<1>1. CASE <<a, p, "EXTRACTION_FAILED">> \in logged
  <2>1. (q < p => ObjectOf(a, q)) /\ (ObjectOf(a, q) => q <= p)
    BY <1>1 DEF FailureStops
  <2>2. outcome[a] = "failed"
    BY <1>1 DEF FailureEnds
  <2>3. Creates => a # attempt
    BY <2>2 DEF Creates, UnderWay
  <2>4. ObjectOf(a, q)' <=> ObjectOf(a, q)
    BY <2>3, StoreStep, CreationAdds, ObjectsStill
  <2>. QED
    BY <2>1, <2>4
<1>2. CASE a = attempt /\ p = position /\ pc # "idle"
  <2>1. q < p => q \in 1 .. position - 1
    BY <1>0, <1>2
  <2>2. q < p => ObjectOf(a, q)
    BY <1>2, <2>1 DEF InOrder
  <2>3. ObjectOf(a, q) => q <= p
    BY <1>0, <1>2 DEF InOrder
  <2>4. ObjectOf(a, q)' => ObjectOf(a, q) \/ q = p
    BY <1>2, StoreStep, CreationAdds, ObjectsStill
  <2>. QED
    BY <1>0, <2>2, <2>3, <2>4, ObjectsStay
<1>. QED
  BY <1>1, <1>2, FailureLogStep

LEMMA SuccessIsCompleteStep ==
  ASSUME TypeOK, UnderWay, InOrder, SuccessIsComplete, [Next]_vars
  PROVE  SuccessIsComplete'
<1> SUFFICES ASSUME NEW a \in Attempts, outcome'[a] = "success", NEW p \in Playlists
             PROVE  ObjectOf(a, p)'
  BY DEF SuccessIsComplete
<1>1. CASE outcome[a] = "success"
  BY <1>1, ObjectsStay DEF SuccessIsComplete
<1>2. CASE a = attempt /\ position = PlaylistCount /\ Creates
  <2>1. CASE p = position
    BY <1>2, <2>1, CreationAdds
  <2>2. CASE p # position
    <3>1. p \in 1 .. position - 1
      BY <1>2, <2>2, LambdaAssumption DEF Playlists
    <3>2. pc # "idle"
      BY <1>2 DEF Creates
    <3>3. ObjectOf(a, p)
      BY <1>2, <3>1, <3>2 DEF InOrder
    <3>. QED
      BY <3>3, ObjectsStay
  <2>. QED
    BY <2>1, <2>2
<1>. QED
  BY <1>1, <1>2, SuccessStep

LEMMA LogIsTrueStep ==
  ASSUME TypeOK, UnderWay, LogIsTrue, [Next]_vars
  PROVE  LogIsTrue'
<1> SUFFICES ASSUME NEW a \in Attempts, NEW p \in Playlists, <<a, p, "S3_WRITE_SUCCESS">> \in logged'
             PROVE  ObjectOf(a, p)'
  BY DEF LogIsTrue
<1>1. CASE <<a, p, "S3_WRITE_SUCCESS">> \in logged
  BY <1>1, ObjectsStay DEF LogIsTrue
<1>2. CASE a = attempt /\ p = position /\ Creates
  BY <1>2, CreationAdds
<1>. QED
  BY <1>1, <1>2, LogStep

\* Objects of one date only are of one attempt: whichever came first holds the key
\* of the first playlist.
LEMMA OneDateOneAttempt ==
  ASSUME TypeOK, InSequence PROVE RetriesDoNotMix
<1> SUFFICES ASSUME \A k, l \in Keys : k[1] # l[1] => store[k] = Absent \/ store[l] = Absent,
                    NEW k \in Keys, NEW l \in Keys, store[k] # Absent, store[l] # Absent
             PROVE  store[k] = store[l]
  BY DEF RetriesDoNotMix
<1> DEFINE first == <<k[1], 1>>
<1>1. 1 \in Playlists /\ \A p \in Playlists : 1 \in 1 .. p
  BY LambdaAssumption DEF Playlists
<1>2. first \in Keys
  BY <1>1 DEF Keys
<1>3. ASSUME NEW m \in Keys, store[m] # Absent, m[1] = k[1] PROVE store[first] = store[m]
  <2>1. store[m] \in Attempts /\ m[1] \in 1 .. MaxDate /\ m[2] \in Playlists /\ m = <<m[1], m[2]>>
    BY <1>3 DEF TypeOK, Keys
  <2>2. ObjectOf(store[m], m[2])
    BY <2>1 DEF ObjectOf
  <2>3. ObjectOf(store[m], 1)
    BY <1>1, <2>1, <2>2 DEF InSequence
  <2>4. PICK d \in 1 .. MaxDate : store[<<d, 1>>] = store[m]
    BY <2>3 DEF ObjectOf
  <2>5. <<d, 1>> \in Keys /\ <<d, 1>>[1] = d
    BY <1>1, <2>4 DEF Keys
  <2>6. d = m[1]
    BY <1>3, <2>4, <2>5
  <2>. QED
    BY <1>3, <2>4, <2>6
<1>4. l[1] = k[1]
  OBVIOUS
<1>. QED
  BY <1>3, <1>4

-----------------------------------------------------------------------------
(* The secret and the caches.                                               *)

LEMMA RefusedOnceStep ==
  ASSUME TypeOK, UnderWay, RefusedOnce, RecoversFromUpdate, [Next]_vars
  PROVE  RefusedOnce' /\ RecoversFromUpdate'
<1> USE DEF RefusedOnce, RecoversFromUpdate
<1>0. secret \in Nat \ {0} /\ issued \in Nat /\ \A c \in Containers : staleRefusals[c] \in Nat
  BY DEF TypeOK, Tokens
<1>1. CASE UNCHANGED <<tokenVars, credentials, client, staleRefusals>>
  BY <1>1 DEF tokenVars
<1>2. CASE Revoke
  BY <1>0, <1>2 DEF Revoke, cacheVars
<1>3. CASE UpdateSecret
  BY <1>0, <1>3 DEF UpdateSecret, TypeOK
<1>4. ASSUME NEW c \in Containers, Recycle(c) \/ Crash(c) PROVE RefusedOnce' /\ RecoversFromUpdate'
  BY <1>0, <1>4 DEF Recycle, Crash, Forget, TypeOK, tokenVars
<1>5. ASSUME NEW c \in Containers, GetAuthClient(c) PROVE RefusedOnce' /\ RecoversFromUpdate'
  BY <1>0, <1>5 DEF GetAuthClient, DefaultCredentials, TypeOK, tokenVars, cacheVars
<1>6. ASSUME UNCHANGED <<secret, credentials, staleRefusals>>,
             \/ UNCHANGED <<accepted, issued, client>>
             \/ issued' = issued + 1 /\ accepted' = issued'
      PROVE  RefusedOnce' /\ RecoversFromUpdate'
  BY <1>0, <1>6
<1>7. ASSUME NEW c \in Containers, ExtractSucceeds(c) \/ ExtractFails(c)
      PROVE  RefusedOnce' /\ RecoversFromUpdate'
  BY <1>6, <1>7 DEF ExtractSucceeds, ExtractFails, Exchange
<1>8. ASSUME NEW c \in Containers, InvalidGrant(c) PROVE RefusedOnce' /\ RecoversFromUpdate'
  <2>1. client[c] # 0 /\ client[c] # accepted /\ UNCHANGED tokenVars
    BY <1>8 DEF InvalidGrant, UnderWay
  <2>2. secret = accepted => staleRefusals[c] = 0
    BY <1>0, <2>1
  <2>3. /\ credentials' = [credentials EXCEPT ![c] = 0] /\ client' = [client EXCEPT ![c] = 0]
        /\ staleRefusals' = IF secret = accepted THEN [staleRefusals EXCEPT ![c] = @ + 1]
                            ELSE staleRefusals
    BY <1>8 DEF InvalidGrant, Invalidate, Forget
  <2>. QED
    BY <1>0, <2>1, <2>2, <2>3 DEF TypeOK, tokenVars
<1>. QED
  BY <1>1, <1>2, <1>3, <1>4, <1>5, <1>7, <1>8
  DEF Next, NextDay, PutCreates, Published, PutUnheard, PutConflicts, PutRefused, PutFails, WriteError,
      outsideVars, cacheVars, TokenExpires, Invoke, SecretUnavailable, vars

-----------------------------------------------------------------------------
(* The theorems.                                                            *)

\* The inductive invariant of an event and its retries.
THEOREM LambdaInvariant == Spec => []LambdaInv
<1>1. Init => LambdaInv
  <2> SUFFICES ASSUME Init PROVE LambdaInv
    OBVIOUS
  <2>1. TypeOK /\ UnderWay
    BY InitTypes
  <2>2. \A a \in Attempts, p \in Playlists : ~ObjectOf(a, p)
    <3>1. \A d \in 1 .. MaxDate, p \in Playlists : store[<<d, p>>] = Absent
      BY DEF Init, Keys
    <3>2. \A a \in Attempts : a # Absent
      BY DEF Absent, Attempts
    <3>. QED
      BY <3>1, <3>2 DEF ObjectOf
  <2>3. InOrder
    BY DEF Init, InOrder, Absent
  <2>4. RefusedOnce /\ RecoversFromUpdate
    BY DEF Init, RefusedOnce, RecoversFromUpdate
  <2>5. InSequence /\ FailureStops /\ FailureEnds /\ SuccessIsComplete /\ LogIsTrue
    BY <2>2 DEF Init, InSequence, FailureStops, FailureEnds, SuccessIsComplete, LogIsTrue
  <2>. QED
    BY <2>1, <2>3, <2>4, <2>5, OneDateOneAttempt DEF LambdaInv, PartialRunIsAPrefix
<1>2. LambdaInv /\ [Next]_vars => LambdaInv'
  <2> SUFFICES ASSUME LambdaInv, [Next]_vars PROVE LambdaInv'
    OBVIOUS
  <2>1. TypeOK' /\ UnderWay' /\ InOrder' /\ InSequence' /\ FailureStops' /\ FailureEnds'
    BY TypeStep, UnderWayStep, InOrderStep, SequenceStep, FailureStopsStep, FailureEndsStep
    DEF LambdaInv, PartialRunIsAPrefix
  <2>2. SuccessIsComplete' /\ LogIsTrue'
    BY SuccessIsCompleteStep, LogIsTrueStep DEF LambdaInv
  <2>3. RefusedOnce' /\ RecoversFromUpdate'
    BY RefusedOnceStep DEF LambdaInv
  <2>4. TypeOK /\ InSequence => RetriesDoNotMix
    BY OneDateOneAttempt
  <2>5. (TypeOK /\ InSequence => RetriesDoNotMix)'
    BY OneDateOneAttempt, PTL
  <2>. QED
    BY <2>1, <2>2, <2>3, <2>5 DEF LambdaInv, PartialRunIsAPrefix
<1>. QED
  BY <1>1, <1>2, PTL DEF Spec

\* Every variable keeps its type.
THEOREM LambdaTypes == Spec => []TypeOK
  BY LambdaInvariant, PTL DEF LambdaInv

\* A 200 means that this invocation published every playlist of the event.
THEOREM SuccessComplete == Spec => []SuccessIsComplete
  BY LambdaInvariant, PTL DEF LambdaInv

\* An attempt leaves a prefix of the event; one that has logged the playlist it failed
\* on has published every playlist before it and none after it.
THEOREM PartialRunPrefix == Spec => []PartialRunIsAPrefix
  BY LambdaInvariant, PTL DEF LambdaInv

\* The objects of one ingestion date are of one attempt.
THEOREM RetriesApart == Spec => []RetriesDoNotMix
  BY LambdaInvariant, PTL DEF LambdaInv

\* A logged success has its object.
THEOREM LogTrue == Spec => []LogIsTrue
  BY LambdaInvariant, PTL DEF LambdaInv

\* After an update of the secret a warm container is refused at most once.
THEOREM Recovers == Spec => []RecoversFromUpdate
  BY LambdaInvariant, PTL DEF LambdaInv

\* The service, with all its retries, implements the write-once store.
THEOREM BronzeWrittenOnce == Spec => BronzeIsWriteOnce
<1>1. Init => Bronze!Init
  BY DEF Init, Bronze!Init
<1>2. LambdaInv /\ [Next]_vars => [\E k \in Keys, v \in Attempts : Bronze!Put(k, v)]_store
  <2> SUFFICES ASSUME LambdaInv, [Next]_vars, Creates
               PROVE  \E k \in Keys, v \in Attempts : Bronze!Put(k, v)
    BY StoreStep DEF LambdaInv
  <2>1. Key \in Keys /\ attempt \in Attempts
    BY KeyIsKey DEF LambdaInv, UnderWay, Creates
  <2>2. Bronze!Put(Key, attempt)
    BY DEF Creates, Bronze!Put
  <2>. QED
    BY <2>1, <2>2
<1>. QED
  BY LambdaInvariant, <1>1, <1>2, PTL DEF Spec, BronzeIsWriteOnce, Bronze!Spec
=============================================================================
