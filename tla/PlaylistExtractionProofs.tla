---------------------- MODULE PlaylistExtractionProofs ----------------------
(***************************************************************************)
(* Proofs about PlaylistExtraction, for every page size, budget and lag.   *)
(***************************************************************************)
EXTENDS PlaylistExtraction, TLAPS

\* What is read of a version stays readable: the API forgets no version.
LEMMA VersionsGrow ==
  ASSUME TypeOK, [Next]_vars
  PROVE  /\ sizes' \in Seq(Sizes) /\ sizes' # <<>>
         /\ Version \in Nat \ {0} /\ Version' \in Nat \ {0}
         /\ Version <= Version'
         /\ \A v \in 1 .. Version : sizes'[v] = sizes[v]
         /\ (sizes' = sizes \/ Change)
<1> USE DEF TypeOK, Version
<1>1. CASE Change
  BY <1>1 DEF Change
<1>2. CASE sizes' = sizes
  BY <1>2
<1>3. Change \/ sizes' = sizes
  BY DEF Next, Extract, vars, Retry, GiveUp, RequestFails, ReadPlaylist, PageLimit, ReadPage,
         InvalidPage, NextPage, Return, SnapshotChanged, Raise, Send
<1>. QED
  BY <1>1, <1>2, <1>3

\* A version has a natural number of items.
LEMMA SizeOfVersion ==
  ASSUME sizes \in Seq(Sizes), NEW v \in 1 .. Len(sizes)
  PROVE  sizes[v] \in Nat
<1>1. sizes[v] \in Sizes
  OBVIOUS
<1>. QED
  BY <1>1, ExtractionAssumption

\* The verified items and the page that follows them make a longer sequence.
LEMMA TakenIs ==
  ASSUME NEW S, items \in Seq(S), batch.count \in Nat, batch.version \in S
  PROVE  /\ Taken \in Seq(S) /\ Len(Taken) = Offset + batch.count
         /\ \A i \in 1 .. Len(Taken) : Taken[i] = IF i <= Offset THEN items[i] ELSE batch.version
<1>1. Offset \in Nat /\ \A i \in 1 .. Offset : items[i] \in S
  BY DEF Offset
<1>2. Offset + batch.count \in Nat
  BY <1>1
<1>3. Taken \in [1 .. Offset + batch.count -> S]
  BY <1>1 DEF Taken
<1>4. Taken \in Seq(S)
  BY <1>2, <1>3
<1>5. Len(Taken) = Offset + batch.count
  BY <1>2, <1>3, <1>4
<1>. QED
  BY <1>4, <1>5 DEF Taken

\* Every action keeps the invariant.  The version check is what bounds the skew:
\* the latest version is at most Lag beyond the version it finds unchanged.
LEMMA InvStep == ExtractionInv /\ [Next]_vars => ExtractionInv'
<1> SUFFICES ASSUME ExtractionInv, [Next]_vars PROVE ExtractionInv'
  OBVIOUS
<1>v. /\ sizes' \in Seq(Sizes) /\ sizes' # <<>>
      /\ Version \in Nat \ {0} /\ Version' \in Nat \ {0} /\ Version <= Version'
      /\ \A v \in 1 .. Version : sizes'[v] = sizes[v]
  BY VersionsGrow DEF ExtractionInv
<1>t. TypeOK /\ BatchInv
  BY DEF ExtractionInv
<1> USE ExtractionAssumption
    DEF ExtractionInv, TypeOK, BatchInv, Offset, Skew, Errors, requestVars, resultVars
<1>1. CASE Change
  <2>1. items' \in Seq(1 .. Version')
    BY <1>1, <1>v DEF Change
  <2>2. TypeOK'
    BY <1>1, <1>v, <2>1 DEF Change
  <2>3. BatchInv'
    <3>1. /\ UNCHANGED <<pc, batch, pages, snapshotId, total, items>>
          /\ pc = "version" => sizes'[batch.version] = sizes[batch.version]
      BY <1>1, <1>v, <1>t DEF Change
    <3>2. pc = "version" => batch.version \in 1 .. Version'
      BY <1>v, <1>t
    <3>. QED
      BY <1>t, <3>1, <3>2 DEF Known
  <2>. QED
    BY <1>1, <1>v, <2>2, <2>3 DEF Change
<1>2. CASE Retry
  BY <1>2, <1>v DEF Retry, Version
<1>3. CASE GiveUp
  BY <1>3, <1>v DEF GiveUp, Raise, Version, InRequest
<1>4. CASE RequestFails
  BY <1>4, <1>v DEF RequestFails, Raise, Version, InRequest
<1>5. CASE ReadPlaylist
  BY <1>5, <1>v DEF ReadPlaylist, Send, Readable, Version
<1>6. CASE PageLimit
  BY <1>6, <1>v DEF PageLimit, Raise, Version
<1>7. CASE ReadPage
  <2>1. PICK v \in Readable, count \in 0 .. PageSize :
          /\ ValidPage(v, count)
          /\ total' = Known(sizes[v]) /\ batch' = [version |-> v, count |-> count]
    BY <1>7 DEF ReadPage
  <2>2. v \in 1 .. Version /\ v + Lag >= Version
    BY <2>1 DEF Readable
  <2>3. sizes[v] \in Nat
    BY <2>2, SizeOfVersion DEF Version
  <2>4. sizes' = sizes /\ Version' = Version
    BY <1>7 DEF ReadPage, Send, Version
  <2>5. total' \in [known : BOOLEAN, value : Nat] /\ total'.value = sizes[v]
    BY <2>1, <2>3 DEF Known
  <2>6. batch' \in [version : 0 .. Version', count : 0 .. PageSize]
    BY <2>1, <2>2, <2>4, <1>v
  <2>7. TypeOK'
    BY <1>7, <1>v, <2>4, <2>5, <2>6 DEF ReadPage, Send
  <2>8. BatchInv'
    BY <1>7, <1>v, <2>1, <2>2, <2>4, <2>5 DEF ReadPage, Send, ValidPage
  <2>. QED
    BY <1>7, <2>7, <2>8 DEF ReadPage, Send
<1>8. CASE InvalidPage
  BY <1>8, <1>v DEF InvalidPage, Raise, Version
<1>9. CASE NextPage \/ Return
  <2>1. /\ sizes' = sizes /\ Version' = Version /\ items' = Taken
        /\ pc = "version" /\ pages' = pages + 1
        /\ UNCHANGED <<snapshotId, total, batch>>
        /\ snapshotId \in Readable
    BY <1>9 DEF NextPage, Return, AppendPage, Send, Version, VersionUnchanged
  <2>2. /\ Taken \in Seq(1 .. Version) /\ Len(Taken) = Offset + batch.count
        /\ \A i \in 1 .. Len(Taken) : Taken[i] = IF i <= Offset THEN items[i] ELSE batch.version
    <3>1. items \in Seq(1 .. Version) /\ batch.count \in Nat /\ batch.version \in 1 .. Version
      BY <2>1
    <3>. QED
      BY ONLY <3>1, TakenIs
  <2>3. batch.version <= snapshotId + Lag
    BY <1>v, <2>1 DEF Readable
  <2>4. \A i \in 1 .. Offset' : items'[i] = IF i <= Offset THEN items[i] ELSE batch.version
    BY <2>1, <2>2
  <2>5. \A i \in 1 .. Offset' : Skew(i)'
    <3> SUFFICES ASSUME NEW i \in 1 .. Offset' PROVE Skew(i)'
      OBVIOUS
    <3>1. CASE i <= Offset
      BY <3>1, <2>1, <2>4
    <3>2. CASE ~(i <= Offset)
      BY <3>2, <2>1, <2>3, <2>4
    <3>. QED
      BY <3>1, <3>2
  <2>6. TypeOK'
    BY <1>9, <1>v, <2>1, <2>2 DEF NextPage, Return, Send
  <2>. QED
    BY <1>9, <2>1, <2>5, <2>6 DEF NextPage, Return, Send
<1>10. CASE SnapshotChanged
  BY <1>10, <1>v DEF SnapshotChanged, Raise, Version
<1>11. CASE UNCHANGED vars
  BY <1>11, <1>v DEF vars, Version
<1>. QED
  BY <1>1, <1>2, <1>3, <1>4, <1>5, <1>6, <1>7, <1>8, <1>9, <1>10, <1>11 DEF Next, Extract

\* The invariant holds in every reachable state.
THEOREM ExtractionInvariant == Spec => []ExtractionInv
<1>1. Init => ExtractionInv
  <2> SUFFICES ASSUME Init PROVE ExtractionInv
    OBVIOUS
  <2>1. PICK n \in Sizes : sizes = <<n>>
    BY DEF Init
  <2>2. sizes \in Seq(Sizes) /\ sizes # <<>> /\ Version = 1
    BY <2>1 DEF Version
  <2>3. items \in Seq(1 .. Version) /\ Offset = 0
    BY DEF Init, Offset
  <2>4. TypeOK
    BY <2>2, <2>3, ExtractionAssumption DEF Init, TypeOK, NoTotal, NoBatch
  <2>. QED
    BY <2>3, <2>4 DEF Init, ExtractionInv, BatchInv
<1>. QED
  BY <1>1, InvStep, PTL DEF Spec

\* Every variable of the extraction keeps its type.
THEOREM ExtractionTypes == Spec => []TypeOK
<1>1. ExtractionInv => TypeOK
  BY DEF ExtractionInv
<1>. QED
  BY ExtractionInvariant, <1>1, PTL

\* What extract returns mixes no versions further than Lag from its snapshot_id.
THEOREM SkewBounded == Spec => []BoundedSkew
<1>1. ExtractionInv => BoundedSkew
  BY DEF ExtractionInv, BoundedSkew
<1>. QED
  BY ExtractionInvariant, <1>1, PTL

-----------------------------------------------------------------------------
(* With reads that are never stale, extract is an atomic read.              *)

\* Without lag, only the current version is readable, and verified items are of
\* the version whose snapshot_id was read first.
LEMMA NoSkew ==
  ASSUME Lag = 0, ExtractionInv
  PROVE  /\ Readable = {Version}
         /\ \A i \in 1 .. Offset : items[i] = snapshotId
<1> USE DEF ExtractionInv, TypeOK, Readable, Version, Offset, Skew
<1>1. Version \in Nat \ {0}
  OBVIOUS
<1>2. Readable = {Version}
  BY <1>1
<1>3. ASSUME NEW i \in 1 .. Offset PROVE items[i] = snapshotId
  <2>1. items[i] \in Nat /\ snapshotId \in Nat
    OBVIOUS
  <2>2. items[i] <= snapshotId + 0 /\ snapshotId <= items[i] + 0
    OBVIOUS
  <2>. QED
    BY <2>1, <2>2
<1>. QED
  BY <1>2, <1>3

\* Every step of extract is the atomic read, a change of the playlist, or a stutter.
LEMMA ReadStep ==
  ASSUME Lag = 0, ExtractionInv, [Next]_vars
  PROVE  [Atomic!Change \/ Atomic!Read]_(Atomic!readVars)
<1>t. TypeOK
  BY DEF ExtractionInv
<1>1. CASE Change
  BY <1>1 DEF Change, Atomic!Change, Result, resultVars
<1>2. CASE Return
  <2>1. snapshotId = Version /\ batch.version = Version
    BY <1>2, NoSkew DEF Return, VersionUnchanged, ExtractionInv, BatchInv, TypeOK, Version
  <2>2. Len(Taken) = sizes[Version] /\ Offset + batch.count = sizes[Version]
    BY <1>2, <1>t, <2>1 DEF Return, ExtractionInv, BatchInv, TypeOK, Known, Taken, Offset
  <2>3. Taken = [i \in 1 .. sizes[Version] |-> Version]
    BY <2>1, <2>2, NoSkew DEF Taken
  <2>4. Result = Atomic!NoResult
    BY <1>2 DEF Return, ExtractionInv, Result, Atomic!NoResult
  <2>5. Result' = Atomic!Whole(Version)
    BY <1>2, <2>1, <2>3 DEF Return, AppendPage, Result, Atomic!Whole
  <2>. QED
    BY <1>2, <2>4, <2>5 DEF Return, Atomic!Read, Version
<1>3. CASE Retry
  BY <1>3 DEF Retry, Result, resultVars, Atomic!readVars
<1>4. CASE GiveUp \/ RequestFails \/ PageLimit \/ InvalidPage \/ SnapshotChanged
  <2>1. pc # "done" /\ outcome' \in Errors /\ sizes' = sizes
    BY <1>4 DEF GiveUp, RequestFails, PageLimit, InvalidPage, SnapshotChanged, Raise, InRequest, Errors
  <2>. QED
    BY <2>1 DEF ExtractionInv, Errors, Result, Atomic!readVars
<1>5. CASE ReadPlaylist \/ ReadPage \/ NextPage
  <2>1. pc # "done" /\ outcome' = outcome /\ sizes' = sizes
    BY <1>5 DEF ReadPlaylist, ReadPage, NextPage, Send
  <2>. QED
    BY <2>1 DEF ExtractionInv, Result, Atomic!readVars
<1>6. CASE UNCHANGED vars
  BY <1>6 DEF vars, resultVars, Result, Atomic!readVars
<1>. QED
  BY <1>1, <1>2, <1>3, <1>4, <1>5, <1>6 DEF Next, Extract

\* With reads that are never stale, extract is an atomic read of the playlist at the
\* moment of its last version check, however the playlist changes meanwhile.
THEOREM ReadsAtomically == ASSUME Lag = 0 PROVE Spec => AtomicRead
<1>1. Init => Atomic!Init
  BY DEF Init, Atomic!Init, Result, Atomic!NoResult
<1>. QED
  BY ExtractionInvariant, <1>1, ReadStep, PTL DEF Spec, AtomicRead, Atomic!Spec
=============================================================================
