------------------------- MODULE PlaylistExtraction -------------------------
(***************************************************************************)
(* PlaylistItemsExtractor.extract                                          *)
(* (src/spotify_data_platform/extraction/playlist.py): all pages of a      *)
(* playlist are read into memory, and after each page the version of the   *)
(* playlist is read again.                                                 *)
(*                                                                         *)
(* The Spotify API is external: the playlist may change between any two    *)
(* requests, every change gives it a new snapshot_id, and a response shows *)
(* one of the Lag + 1 latest versions (Lag = 0: reads are never stale).    *)
(* Contents are abstracted to their length: an item is the version it was  *)
(* read from, at its position.  Time is left out: a retry's delay is only  *)
(* within the wait limit or beyond it.                                     *)
(***************************************************************************)
EXTENDS Naturals, Sequences

CONSTANTS
    Sizes,       \* the numbers of items the playlist may have
    PageSize,    \* limit of a page (50 in the code)
    MaxPages,    \* max_pages (1000 in the code)
    MaxRetries,  \* max_retries (5 in the code)
    Lag,         \* how many versions a response may be behind
    MaxChanges   \* bound: changes of the playlist

ASSUME ExtractionAssumption ==
    /\ Sizes \subseteq Nat
    /\ PageSize \in Nat \ {0} /\ MaxPages \in Nat \ {0}
    /\ MaxRetries \in Nat /\ Lag \in Nat /\ MaxChanges \in Nat

VARIABLES
    sizes,       \* sizes[v]: the number of items of version v; the last is current
    pc,          \* the request to send next
    attempt,     \* failed attempts of that request
    snapshotId,  \* the version the first response showed, 0 before
    items,       \* the version each verified item was read from
    total,       \* total of the pages read so far, NoTotal before the first
    pages,       \* verified pages
    batch,       \* the page that awaits its version check
    outcome      \* "running", "returned", or the exception that was raised

requestVars == <<pc, attempt>>
resultVars == <<snapshotId, items, total, pages, batch>>
vars == <<sizes, requestVars, resultVars, outcome>>

NoTotal == [known |-> FALSE, value |-> 0]
Known(n) == [known |-> TRUE, value |-> n]
NoBatch == [version |-> 0, count |-> 0]
Errors == {"changed", "pagination", "throttled", "failed"}

Version == Len(sizes)
Readable == {v \in 1 .. Version : v + Lag >= Version}
Offset == Len(items)

TypeOK ==
    /\ sizes \in Seq(Sizes) /\ sizes # <<>>
    /\ pc \in {"playlist", "page", "version", "done"}
    /\ attempt \in 0 .. MaxRetries
    /\ snapshotId \in 0 .. Version
    /\ items \in Seq(1 .. Version)
    /\ total \in [known : BOOLEAN, value : Nat]
    /\ pages \in 0 .. MaxPages
    /\ batch \in [version : 0 .. Version, count : 0 .. PageSize]
    /\ outcome \in {"running", "returned"} \cup Errors

Init ==
    /\ sizes \in {<<n>> : n \in Sizes}
    /\ pc = "playlist" /\ attempt = 0
    /\ snapshotId = 0 /\ items = <<>> /\ total = NoTotal /\ pages = 0 /\ batch = NoBatch
    /\ outcome = "running"

\* Somebody edits the playlist: it gets a new snapshot_id.
Change ==
    /\ Version <= MaxChanges
    /\ \E n \in Sizes : sizes' = Append(sizes, n)
    /\ UNCHANGED <<requestVars, resultVars, outcome>>

Raise(error) ==
    /\ pc' = "done" /\ outcome' = error
    /\ UNCHANGED <<sizes, attempt, resultVars>>

Send(request) ==
    /\ pc' = request /\ attempt' = 0
    /\ UNCHANGED <<sizes, outcome>>

-----------------------------------------------------------------------------
(* _request_with_retries: 429 and 5xx are retried within the retry budget   *)
(* and the wait limit; everything else raises.                              *)

InRequest == pc \in {"playlist", "version"} \/ (pc = "page" /\ pages < MaxPages)

\* Mutants of Retry: one retry too many; a used-up budget starts again.
RetryOnceMore ==
    /\ InRequest
    /\ attempt <= MaxRetries
    /\ attempt' = attempt + 1
    /\ UNCHANGED <<sizes, pc, resultVars, outcome>>

RetryAnew ==
    /\ InRequest
    /\ attempt' = IF attempt < MaxRetries THEN attempt + 1 ELSE 0
    /\ UNCHANGED <<sizes, pc, resultVars, outcome>>

Retry ==
    /\ InRequest
    /\ attempt < MaxRetries
    /\ attempt' = attempt + 1
    /\ UNCHANGED <<sizes, pc, resultVars, outcome>>

\* Budget exhausted or delay beyond max_retry_wait, after a 429 or a 5xx.
GiveUp == InRequest /\ Raise("throttled")

\* Any other status, a 5xx that gives up, no token, no connection, invalid JSON
\* or a response without snapshot_id.
RequestFails == InRequest /\ Raise("failed")

-----------------------------------------------------------------------------
(* extract.                                                                 *)

ReadPlaylist ==
    /\ pc = "playlist"
    /\ \E v \in Readable : snapshotId' = v
    /\ Send("page")
    /\ UNCHANGED <<items, total, pages, batch>>

PageLimit ==
    /\ pc = "page" /\ pages >= MaxPages
    /\ Raise("pagination")

\* The items of version v from the offset on, at most a page of them.
Left(v) == IF sizes[v] > Offset THEN sizes[v] - Offset ELSE 0

\* _validate_page: the total agrees with the earlier pages, and the page ends
\* within it and is not empty before its end.
ValidPage(v, count) ==
    /\ total \in {NoTotal, Known(sizes[v])}
    /\ Offset + count <= sizes[v]
    /\ Offset + count < sizes[v] => count > 0

ReadPage ==
    /\ pc = "page" /\ pages < MaxPages
    /\ \E v \in Readable : \E count \in 0 .. PageSize :
         /\ count <= Left(v)
         /\ ValidPage(v, count)
         /\ total' = Known(sizes[v])
         /\ batch' = [version |-> v, count |-> count]
    /\ Send("version")
    /\ UNCHANGED <<snapshotId, items, pages>>

\* A page of another total, an empty page before the end, or metadata that the
\* API should not have sent.
InvalidPage ==
    /\ pc = "page" /\ pages < MaxPages
    /\ Raise("pagination")

Taken == [i \in 1 .. Offset + batch.count |-> IF i <= Offset THEN items[i] ELSE batch.version]

VersionUnchanged(v) == v = snapshotId

AppendPage ==
    /\ items' = Taken
    /\ pages' = pages + 1
    /\ UNCHANGED <<snapshotId, total, batch>>

NextPage ==
    /\ pc = "version"
    /\ \E v \in Readable : VersionUnchanged(v)
    /\ AppendPage
    /\ Len(Taken) # total.value
    /\ Send("page")

\* Mutant of Return: a page shorter than the limit is taken for the last one.
ReturnOnShortPage ==
    /\ pc = "version"
    /\ \E v \in Readable : VersionUnchanged(v)
    /\ AppendPage
    /\ batch.count < PageSize
    /\ pc' = "done" /\ attempt' = 0 /\ outcome' = "returned"
    /\ UNCHANGED sizes

Return ==
    /\ pc = "version"
    /\ \E v \in Readable : VersionUnchanged(v)
    /\ AppendPage
    /\ Len(Taken) = total.value
    /\ pc' = "done" /\ attempt' = 0 /\ outcome' = "returned"
    /\ UNCHANGED sizes

SnapshotChanged ==
    /\ pc = "version"
    /\ \E v \in Readable : ~VersionUnchanged(v)
    /\ Raise("changed")

-----------------------------------------------------------------------------
Extract ==
    \/ Retry \/ GiveUp \/ RequestFails
    \/ ReadPlaylist \/ PageLimit \/ ReadPage \/ InvalidPage
    \/ NextPage \/ Return \/ SnapshotChanged

Next == Change \/ Extract

Spec == Init /\ [][Next]_vars

\* Every request ends by its timeout, every sleep by max_retry_wait.
FairSpec == Spec /\ WF_vars(Extract)

-----------------------------------------------------------------------------
(* The inductive invariant.                                                 *)

\* The page that awaits its version check was read after snapshot_id.
BatchInv ==
    pc = "version" =>
        /\ batch.version \in 1 .. Version /\ pages < MaxPages
        /\ snapshotId <= batch.version + Lag
        /\ total = Known(sizes[batch.version])
        /\ Offset + batch.count <= total.value

\* Verified items are within Lag of snapshot_id, on both sides.
Skew(i) == items[i] <= snapshotId + Lag /\ snapshotId <= items[i] + Lag

ExtractionInv ==
    /\ TypeOK /\ BatchInv
    /\ pc \in {"page", "version"} => snapshotId > 0
    /\ pc = "playlist" => items = <<>>
    /\ \A i \in 1 .. Offset : Skew(i)
    /\ pc = "done" <=> outcome # "running"

-----------------------------------------------------------------------------
(* Properties.                                                              *)

\* "refusing to combine pages from different playlist versions": whatever is
\* returned mixes only versions at most Lag from the snapshot_id it carries; if
\* reads are never stale, every item is of that version.
BoundedSkew ==
    outcome = "returned" => \A i \in 1 .. Offset : Skew(i)

\* "Fetch all pages into memory and return only after version verification": with
\* reads that are never stale, extract is an atomic read at its last version check.
Result == IF outcome = "returned" THEN [version |-> snapshotId, items |-> items]
          ELSE [version |-> 0, items |-> <<>>]
Atomic == INSTANCE SnapshotRead WITH result <- Result
AtomicRead == Atomic!Spec

\* extract returns or raises, however often the playlist changes and the API fails.
EventuallyDone == <>(pc = "done")
=============================================================================
