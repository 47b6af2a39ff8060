------------------------ MODULE SilverCurationProofs -------------------------
(***************************************************************************)
(* Proofs about the Glue job and its transforms, for every Bronze object   *)
(* of the entries and any number of executions.                            *)
(***************************************************************************)
EXTENDS SilverCuration, SequenceTheorems, FiniteSetTheorems, WellFoundedInduction, TLAPS

-----------------------------------------------------------------------------
(* The rows of each dataset.                                                *)

LEMMA DatasetNames ==
  /\ Datasets = {"artists", "albums", "tracks", "track_artists",
                 "playlist_snapshots", "playlist_observations"}
  /\ \A n \in 1 .. 6 : DatasetOrder[n] \in Datasets
  /\ \A m, n \in 1 .. 6 : m # n => DatasetOrder[m] # DatasetOrder[n]
<1>1. 1 .. 6 = {1, 2, 3, 4, 5, 6}
  OBVIOUS
<1>2. /\ DatasetOrder[1] = "artists" /\ DatasetOrder[2] = "albums" /\ DatasetOrder[3] = "tracks"
      /\ DatasetOrder[4] = "track_artists" /\ DatasetOrder[5] = "playlist_snapshots"
      /\ DatasetOrder[6] = "playlist_observations"
  BY DEF DatasetOrder
<1>3. Datasets = {DatasetOrder[1], DatasetOrder[2], DatasetOrder[3], DatasetOrder[4], DatasetOrder[5],
                  DatasetOrder[6]}
  BY <1>1 DEF Datasets
<1>. QED
  BY <1>1, <1>2, <1>3

LEMMA EntryFields ==
  ASSUME bronze \in Seq(Entries)
  PROVE  /\ Positions = 1 .. Len(bronze) /\ Len(bronze) \in Nat
         /\ \A p \in Positions : bronze[p] \in EntryShapes
  BY LenProperties, CurationAssumption DEF Positions

LEMMA FinitePositions ==
  ASSUME bronze \in Seq(Entries), NEW S \in SUBSET Positions
  PROVE  /\ IsFiniteSet(S) /\ Cardinality(S) \in 0 .. Len(bronze)
         /\ Cardinality(Positions) = Len(bronze)
<1>1. Positions = 1 .. Len(bronze) /\ Len(bronze) \in Nat
  BY EntryFields
<1>2. IsFiniteSet(Positions) /\ Cardinality(Positions) = Len(bronze)
  BY <1>1, FS_Interval
<1>3. IsFiniteSet(S) /\ Cardinality(S) <= Cardinality(Positions)
  BY <1>2, FS_Subset
<1>4. Cardinality(S) \in Nat
  BY <1>3, FS_CardinalityType
<1>. QED
  BY <1>1, <1>2, <1>3, <1>4

\* The number of fields of a row.
Width == [artists |-> 2, albums |-> 2, tracks |-> 5, track_artists |-> 3,
          playlist_snapshots |-> 2, playlist_observations |-> 3]

LEMMA TuplesAreSequences ==
  /\ \A a, b \in Nat : <<a, b>> \in Seq(Nat) /\ Len(<<a, b>>) = 2
  /\ \A a, b, c \in Nat : <<a, b, c>> \in Seq(Nat) /\ Len(<<a, b, c>>) = 3
  /\ \A a, b, c, d, e \in Nat : <<a, b, c, d, e>> \in Seq(Nat) /\ Len(<<a, b, c, d, e>>) = 5
  OBVIOUS

LEMMA CandidateRows ==
  ASSUME bronze \in Seq(Entries), NEW d \in Datasets, NEW r \in Candidates[d]
  PROVE  r \in Seq(Nat) /\ Len(r) = Width[d]
<1>0. \A a \in Nat \X Nat : a \in Seq(Nat) /\ Len(a) = 2
  <2> SUFFICES ASSUME NEW a \in Nat \X Nat PROVE a \in Seq(Nat) /\ Len(a) = 2
    OBVIOUS
  <2>1. a = <<a[1], a[2]>> /\ a[1] \in Nat /\ a[2] \in Nat
    OBVIOUS
  <2>2. <<a[1], a[2]>> \in Seq(Nat) /\ Len(<<a[1], a[2]>>) = 2
    BY <2>1, TuplesAreSequences
  <2>. QED
    BY <2>1, <2>2
<1>v. \A p \in ValidPositions : /\ p \in Nat /\ bronze[p].id \in Nat /\ bronze[p].name \in Nat
                                /\ bronze[p].duration \in Nat /\ bronze[p].album \in Nat \X Nat
                                /\ bronze[p].artists \in Seq(Nat \X Nat)
  BY EntryFields DEF ValidPositions, EntryShapes
<1>1. CASE d = "artists"
  <2>1. PICK p \in ValidPositions : r \in Artists(p)
    BY <1>1 DEF Candidates
  <2>2. PICK n \in DOMAIN bronze[p].artists : r = bronze[p].artists[n]
    BY <2>1 DEF Artists
  <2>3. r \in Nat \X Nat
    BY <1>v, <2>2
  <2>. QED
    BY <1>0, <1>1, <2>3 DEF Width
<1>2. CASE d = "albums"
  <2>1. PICK p \in ValidPositions : r = bronze[p].album
    BY <1>2 DEF Candidates
  <2>. QED
    BY <1>0, <1>v, <1>2, <2>1 DEF Width
<1>3. CASE d = "tracks"
  <2>1. PICK p \in ValidPositions : r = TrackRow(p)
    BY <1>3 DEF Candidates, TrackRows
  <2>2. bronze[p].album[1] \in Nat /\ Column(bronze[p].itemLocal) \in Nat
    BY <1>v DEF Column
  <2>3. r = <<bronze[p].id, bronze[p].name, bronze[p].duration, bronze[p].album[1],
              Column(bronze[p].itemLocal)>>
    BY <2>1 DEF TrackRow
  <2>. QED
    BY <1>v, <1>3, <2>2, <2>3, TuplesAreSequences DEF Width
<1>4. CASE d = "track_artists"
  <2>1. PICK p \in ValidPositions :
          \E n \in DOMAIN bronze[p].artists : r = <<bronze[p].id, bronze[p].artists[n][1], n>>
    BY <1>4 DEF Candidates
  <2>2. PICK n \in DOMAIN bronze[p].artists : r = <<bronze[p].id, bronze[p].artists[n][1], n>>
    BY <2>1
  <2>3. bronze[p].artists[n] \in Nat \X Nat /\ n \in Nat
    BY <1>v, <2>2, LenProperties
  <2>4. bronze[p].artists[n][1] \in Nat
    BY <2>3
  <2>. QED
    BY <1>v, <1>4, <2>2, <2>3, <2>4, TuplesAreSequences DEF Width
<1>5. CASE d = "playlist_snapshots"
  <2>1. PICK p \in ValidPositions : r = <<p, bronze[p].id>>
    BY <1>5 DEF Candidates, SlotRows
  <2>. QED
    BY <1>v, <1>5, <2>1, TuplesAreSequences DEF Width
<1>6. CASE d = "playlist_observations"
  <2>1. r = ObservationRow
    BY <1>6 DEF Candidates
  <2>2. Cardinality(ValidPositions) \in 0 .. Len(bronze) /\ Len(bronze) \in Nat
    BY FinitePositions, EntryFields DEF ValidPositions
  <2>3. Cardinality(ValidPositions) \in Nat /\ Len(bronze) - Cardinality(ValidPositions) \in Nat
    BY <2>2
  <2>. QED
    BY <1>6, <2>1, <2>2, <2>3, TuplesAreSequences DEF Width, ObservationRow
<1>. QED
  BY <1>1, <1>2, <1>3, <1>4, <1>5, <1>6, DatasetNames

LEMMA KeyIsPart == \A d \in Datasets : KeyLength[d] \in Nat /\ Width[d] \in Nat /\ KeyLength[d] <= Width[d]
  BY DatasetNames DEF KeyLength, Width

-----------------------------------------------------------------------------
(* deterministic_dedupe.                                                    *)

LEMMA KeyFields ==
  ASSUME NEW r \in Seq(Nat), NEW s \in Seq(Nat), NEW n \in Nat, n <= Len(r), n <= Len(s)
  PROVE  SameKey(r, s, n) <=> \A i \in 1 .. n : r[i] = s[i]
<1>1. /\ SubSeq(r, 1, n) \in Seq(Nat) /\ Len(SubSeq(r, 1, n)) = n
      /\ \A i \in 1 .. n : SubSeq(r, 1, n)[i] = r[i]
  <2>1. \A i \in 1 .. n : r[i] \in Nat
    BY LenProperties
  <2>2. /\ SubSeq(r, 1, n) \in Seq(Nat) /\ Len(SubSeq(r, 1, n)) = IF 1 <= n THEN n - 1 + 1 ELSE 0
        /\ \A i \in 1 .. n - 1 + 1 : SubSeq(r, 1, n)[i] = r[1 + i - 1]
    BY <2>1, SubSeqProperties
  <2>. QED
    BY <2>2
<1>2. /\ SubSeq(s, 1, n) \in Seq(Nat) /\ Len(SubSeq(s, 1, n)) = n
      /\ \A i \in 1 .. n : SubSeq(s, 1, n)[i] = s[i]
  <2>1. \A i \in 1 .. n : s[i] \in Nat
    BY LenProperties
  <2>2. /\ SubSeq(s, 1, n) \in Seq(Nat) /\ Len(SubSeq(s, 1, n)) = IF 1 <= n THEN n - 1 + 1 ELSE 0
        /\ \A i \in 1 .. n - 1 + 1 : SubSeq(s, 1, n)[i] = s[1 + i - 1]
    BY <2>1, SubSeqProperties
  <2>. QED
    BY <2>2
<1>3. (\A i \in 1 .. n : r[i] = s[i]) => SubSeq(r, 1, n) = SubSeq(s, 1, n)
  BY <1>1, <1>2, SeqEqual
<1>. QED
  BY <1>1, <1>2, <1>3 DEF SameKey

LessThan == {ss \in Nat \X Nat : ss[1] < ss[2]}

LEMMA LessThanWellFounded == IsWellFoundedOn(LessThan, Nat)
  BY NatLessThanWellFounded, Zenon DEF OpToRel, LessThan

\* A set of numbers that is not empty has a least one.
LEMMA Least ==
  ASSUME NEW S \in SUBSET Nat, S # {}
  PROVE  \E k \in S : \A j \in S : ~(j < k)
<1>1. PICK k \in S : \A j \in S : <<j, k>> \notin LessThan
  BY LessThanWellFounded, WFMin
<1>. QED
  BY <1>1 DEF LessThan

\* The order is total on the rows of one key: if neither precedes, they are equal.
LEMMA OrderIsTotal ==
  ASSUME NEW r \in Seq(Nat), NEW s \in Seq(Nat), Len(r) = Len(s), NEW n \in Nat, n <= Len(r),
         SameKey(r, s, n), ~Before(r, s, n), ~Before(s, r, n)
  PROVE  r = s
<1> DEFINE D == {k \in n + 1 .. Len(r) : r[k] # s[k]}
<1>0. Len(r) \in Nat /\ \A k \in 1 .. Len(r) : r[k] \in Nat /\ s[k] \in Nat
  BY LenProperties
<1>1. ASSUME D # {} PROVE FALSE
  <2>1. D \subseteq Nat
    BY <1>0
  <2>2. PICK k \in D : \A j \in D : ~(j < k)
    BY <1>1, <2>1, Least
  <2>3. ASSUME NEW j \in n + 1 .. Len(r), j < k PROVE r[j] = s[j]
    BY <2>2, <2>3
  <2>4. k \in n + 1 .. Len(r) /\ k \in n + 1 .. Len(s) /\ k \in 1 .. Len(r) /\ r[k] # s[k]
    <3>1. k \in n + 1 .. Len(r) /\ r[k] # s[k]
      BY <2>2
    <3>. QED
      BY <1>0, <3>1
  <2>5. NullsLast(r[k], s[k]) \/ NullsLast(s[k], r[k])
    <3>1. r[k] \in Nat /\ s[k] \in Nat
      BY <1>0, <2>4
    <3>. QED
      BY <2>4, <3>1 DEF NullsLast
  <2>6. \A j \in OrderedFields(r, n) : j < k => r[j] = s[j]
    BY <2>3 DEF OrderedFields
  <2>7. OrderedFields(s, n) = OrderedFields(r, n) /\ k \in OrderedFields(r, n)
    BY <2>4 DEF OrderedFields
  <2>. QED
    BY <2>5, <2>6, <2>7 DEF Before
<1>2. \A k \in 1 .. n : r[k] = s[k]
  BY <1>0, KeyFields
<1>3. \A k \in n + 1 .. Len(r) : r[k] = s[k]
  BY <1>1
<1>4. \A k \in 1 .. Len(r) : k \in 1 .. n \/ k \in n + 1 .. Len(r)
  BY <1>0
<1>. QED
  BY <1>2, <1>3, <1>4, SeqEqual

\* Rows that deterministic_dedupe can be given, of one width.
RowSet(rows, w) == \A r \in rows : r \in Seq(Nat) /\ Len(r) = w

\* It has one outcome, whatever order Spark presents the rows in.
LEMMA OneOutcome ==
  ASSUME NEW w \in Nat, NEW n \in Nat, n <= w, NEW rows, RowSet(rows, w),
         NEW kept \in Deduped(rows, n), NEW other \in Deduped(rows, n)
  PROVE  kept = other
<1>1. ASSUME NEW a \in Deduped(rows, n), NEW b \in Deduped(rows, n), NEW r \in a PROVE r \in b
  <2>1. a \subseteq rows /\ b \subseteq rows
    BY DEF Deduped
  <2>2. PICK s \in b : SameKey(r, s, n)
    BY <2>1 DEF Deduped
  <2>3. SameKey(s, r, n)
    BY <2>2 DEF SameKey
  <2>4. ~Before(r, s, n) /\ ~Before(s, r, n)
    BY <2>1, <2>2, <2>3 DEF Deduped
  <2>. QED
    BY <2>1, <2>2, <2>4, OrderIsTotal DEF RowSet
<1>. QED
  BY <1>1

\* Where no two rows have one key it keeps them all.
LEMMA KeepsAll ==
  ASSUME NEW n, NEW rows, NEW kept \in Deduped(rows, n),
         \A r, s \in rows : SameKey(r, s, n) => r = s
  PROVE  kept = rows
<1>1. kept \subseteq rows /\ \A r \in rows : \E s \in kept : SameKey(r, s, n)
  BY DEF Deduped
<1>. QED
  BY <1>1

\* It keeps a row of every key.
LEMMA KeepsKeys ==
  ASSUME NEW w \in Nat, NEW n \in Nat \ {0}, n <= w, NEW rows, RowSet(rows, w),
         NEW kept \in Deduped(rows, n), NEW r \in rows
  PROVE  \E s \in kept : s[1] = r[1]
<1>1. kept \subseteq rows
  BY DEF Deduped
<1>2. PICK s \in kept : SameKey(r, s, n)
  BY DEF Deduped
<1>3. r \in Seq(Nat) /\ s \in Seq(Nat) /\ Len(r) = w /\ Len(s) = w
  BY <1>1, <1>2 DEF RowSet
<1>4. 1 \in 1 .. n
  OBVIOUS
<1>. QED
  BY <1>2, <1>3, <1>4, KeyFields

LEMMA FiniteImage ==
  ASSUME NEW S, IsFiniteSet(S), NEW f, f \in [S -> {f[x] : x \in S}]
  PROVE  IsFiniteSet({f[x] : x \in S})
<1>1. f \in Surjection(S, {f[x] : x \in S})
  BY DEF Surjection
<1>. QED
  BY <1>1, FS_Surjection

LEMMA FiniteCandidates ==
  ASSUME bronze \in Seq(Entries), NEW d \in Datasets
  PROVE  IsFiniteSet(Candidates[d])
<1>0. IsFiniteSet(ValidPositions) /\ ValidPositions \subseteq Positions
  BY FinitePositions DEF ValidPositions
<1>a. ASSUME NEW p \in ValidPositions PROVE IsFiniteSet(DOMAIN bronze[p].artists)
  <2>1. bronze[p].artists \in Seq(Nat \X Nat)
    BY <1>0, EntryFields DEF EntryShapes
  <2>2. DOMAIN bronze[p].artists = 1 .. Len(bronze[p].artists) /\ Len(bronze[p].artists) \in Nat
    BY <2>1, LenProperties
  <2>. QED
    BY <2>2, FS_Interval
<1>1. CASE d = "artists"
  <2>1. ASSUME NEW p \in ValidPositions PROVE IsFiniteSet(Artists(p))
    <3> DEFINE f == [n \in DOMAIN bronze[p].artists |-> bronze[p].artists[n]]
    <3>1. f \in [DOMAIN bronze[p].artists -> {f[n] : n \in DOMAIN bronze[p].artists}]
      OBVIOUS
    <3> HIDE DEF f
    <3>2. IsFiniteSet({f[n] : n \in DOMAIN bronze[p].artists})
      BY <1>a, <3>1, FiniteImage
    <3>3. Artists(p) = {f[n] : n \in DOMAIN bronze[p].artists}
      BY DEF Artists, f
    <3>. QED
      BY <3>2, <3>3
  <2> DEFINE f == [p \in ValidPositions |-> Artists(p)]
  <2>2. IsFiniteSet({f[p] : p \in ValidPositions})
    BY <1>0, FiniteImage
  <2>3. IsFiniteSet(UNION {f[p] : p \in ValidPositions})
    BY <2>1, <2>2, FS_UNION
  <2>4. Candidates[d] \subseteq UNION {f[p] : p \in ValidPositions}
    BY <1>1 DEF Candidates
  <2>. QED
    BY <2>3, <2>4, FS_Subset
<1>2. CASE d = "albums"
  <2> DEFINE f == [p \in ValidPositions |-> bronze[p].album]
  <2>1. IsFiniteSet({f[p] : p \in ValidPositions})
    BY <1>0, FiniteImage
  <2>2. Candidates[d] \subseteq {f[p] : p \in ValidPositions}
    BY <1>2 DEF Candidates
  <2>. QED
    BY <2>1, <2>2, FS_Subset
<1>3. CASE d = "tracks"
  <2> DEFINE f == [p \in ValidPositions |-> TrackRow(p)]
  <2>1. IsFiniteSet({f[p] : p \in ValidPositions})
    BY <1>0, FiniteImage
  <2>2. Candidates[d] = {f[p] : p \in ValidPositions}
    BY <1>3 DEF Candidates, TrackRows
  <2>. QED
    BY <2>1, <2>2
<1>4. CASE d = "track_artists"
  <2> DEFINE Bridge(p) == {<<bronze[p].id, bronze[p].artists[n][1], n>> : n \in DOMAIN bronze[p].artists}
  <2>1. ASSUME NEW p \in ValidPositions PROVE IsFiniteSet(Bridge(p))
    <3> DEFINE f == [n \in DOMAIN bronze[p].artists |-> <<bronze[p].id, bronze[p].artists[n][1], n>>]
    <3>1. IsFiniteSet({f[n] : n \in DOMAIN bronze[p].artists})
      BY <1>a, FiniteImage
    <3>2. Bridge(p) = {f[n] : n \in DOMAIN bronze[p].artists}
      OBVIOUS
    <3>. QED
      BY <3>1, <3>2
  <2> DEFINE f == [p \in ValidPositions |-> Bridge(p)]
  <2>2. IsFiniteSet({f[p] : p \in ValidPositions})
    BY <1>0, FiniteImage
  <2>3. IsFiniteSet(UNION {f[p] : p \in ValidPositions})
    BY <2>1, <2>2, FS_UNION
  <2>4. Candidates[d] \subseteq UNION {f[p] : p \in ValidPositions}
    BY <1>4 DEF Candidates
  <2>. QED
    BY <2>3, <2>4, FS_Subset
<1>5. CASE d = "playlist_snapshots"
  <2> DEFINE f == [p \in ValidPositions |-> <<p, bronze[p].id>>]
  <2>1. IsFiniteSet({f[p] : p \in ValidPositions})
    BY <1>0, FiniteImage
  <2>2. Candidates[d] = {f[p] : p \in ValidPositions}
    BY <1>5 DEF Candidates, SlotRows
  <2>. QED
    BY <2>1, <2>2
<1>6. CASE d = "playlist_observations"
  <2>1. Candidates[d] = {ObservationRow}
    BY <1>6 DEF Candidates
  <2>. QED
    BY <2>1, FS_Singleton
<1>. QED
  BY <1>1, <1>2, <1>3, <1>4, <1>5, <1>6, DatasetNames

-----------------------------------------------------------------------------
(* The invariant.                                                           *)

\* What the transforms make of the object changes only with the object.
LEMMA SameObject ==
  ASSUME UNCHANGED bronze
  PROVE  /\ Candidates' = Candidates /\ ValidPositions' = ValidPositions
         /\ RejectedPositions' = RejectedPositions /\ AllRows' = AllRows /\ Positions' = Positions
<1>1. ValidPositions' = ValidPositions /\ RejectedPositions' = RejectedPositions /\ Positions' = Positions
  BY DEF ValidPositions, RejectedPositions, Positions
<1>2. Candidates' = Candidates
  BY <1>1 DEF Candidates, Artists, TrackRows, TrackRow, SlotRows, ObservationRow
<1>. QED
  BY <1>1, <1>2 DEF AllRows

\* A step but Start and PublishCompletion writes at most the dataset it has come to,
\* with rows of one key each, or removes it.
Writes ==
    /\ UNCHANGED <<bronze, readable, execution, completion>>
    /\ \/ UNCHANGED silver /\ step' = 0
       \/ /\ step \in 1 .. 6 /\ step' = 0
          /\ silver' = [silver EXCEPT ![Dataset] = NoRows]
       \/ /\ step \in 1 .. 6 /\ step' = step + 1
          /\ \E rows \in Deduped(Candidates[Dataset], KeyLength[Dataset]) :
               silver' = [silver EXCEPT ![Dataset] = [by |-> execution, rows |-> rows]]

LEMMA WritesOfStep ==
  ASSUME WriteDataset \/ ContractFails \/ JobFails
  PROVE  Writes
  BY DEF WriteDataset, ContractFails, JobFails, Writes

\* Of each dataset: it is as it was, removed, or written by the step that came to it.
LEMMA SilverMoves ==
  ASSUME TypeOK, Writes, NEW d \in Datasets
  PROVE  \/ silver'[d] = silver[d] /\ (d = Dataset => step \notin 1 .. 6 \/ step' = 0)
         \/ silver'[d] = NoRows /\ step' = 0
         \/ /\ step \in 1 .. 6 /\ d = Dataset /\ step' = step + 1
            /\ \E rows \in Deduped(Candidates[d], KeyLength[d]) :
                 silver'[d] = [by |-> execution, rows |-> rows]
<1>1. DOMAIN silver = Datasets
  BY DEF TypeOK
<1>. QED
  BY <1>1 DEF Writes

LEMMA CurationTypeStep == TypeOK /\ [Next]_vars => TypeOK'
<1> SUFFICES ASSUME TypeOK, [Next]_vars PROVE TypeOK'
  OBVIOUS
<1>0. UNCHANGED <<bronze, readable>>
  BY DEF Next, vars, Start, WriteDataset, ContractFails, JobFails, PublishCompletion
<1>1. Candidates' = Candidates /\ AllRows' = AllRows
  BY <1>0, SameObject
<1>2. /\ bronze \in Seq(Entries) /\ readable \in BOOLEAN
      /\ execution \in 0 .. MaxExecutions /\ step \in 0 .. 7 /\ MaxExecutions \in Nat
      /\ silver \in [Datasets -> [by : 0 .. MaxExecutions, rows : SUBSET AllRows]]
      /\ \A d \in Datasets : silver[d].rows \subseteq Candidates[d]
      /\ completion \in [by : 0 .. MaxExecutions, rows : [Datasets -> Nat], rejected : Nat]
  BY CurationAssumption DEF TypeOK
<1>3. CASE Start
  <2>1. execution' \in 0 .. MaxExecutions /\ step' \in 0 .. 7 /\ UNCHANGED <<silver, completion>>
    BY <1>2, <1>3 DEF Start
  <2>. QED
    BY <1>0, <1>1, <1>2, <2>1 DEF TypeOK
<1>4. CASE WriteDataset \/ ContractFails \/ JobFails
  <2>1. Writes
    BY <1>4, WritesOfStep
  <2>2. step' \in 0 .. 7
    BY <1>2, <2>1 DEF Writes
  <2>3. ASSUME NEW rows, step \in 1 .. 6, rows \subseteq Candidates[Dataset], NEW by \in 0 .. MaxExecutions,
               silver' = [silver EXCEPT ![Dataset] = [by |-> by, rows |-> rows]]
        PROVE  /\ silver' \in [Datasets -> [by : 0 .. MaxExecutions, rows : SUBSET AllRows]]
               /\ \A d \in Datasets : silver'[d].rows \subseteq Candidates[d]
    <3>1. Dataset \in Datasets
      BY <2>3, DatasetNames DEF Dataset
    <3>2. rows \in SUBSET AllRows
      BY <2>3, <3>1 DEF AllRows
    <3>. QED
      BY <1>2, <2>3, <3>1, <3>2
  <2>4. /\ silver' \in [Datasets -> [by : 0 .. MaxExecutions, rows : SUBSET AllRows]]
        /\ \A d \in Datasets : silver'[d].rows \subseteq Candidates[d]
    <3>1. CASE UNCHANGED silver
      BY <1>2, <3>1
    <3>2. CASE step \in 1 .. 6 /\ silver' = [silver EXCEPT ![Dataset] = NoRows]
      <4>1. {} \subseteq Candidates[Dataset] /\ 0 \in 0 .. MaxExecutions
        BY <1>2
      <4>. QED
        BY <2>3, <3>2, <4>1 DEF NoRows
    <3>3. ASSUME NEW rows \in Deduped(Candidates[Dataset], KeyLength[Dataset]), step \in 1 .. 6,
                 silver' = [silver EXCEPT ![Dataset] = [by |-> execution, rows |-> rows]]
          PROVE  <2>4
      <4>1. rows \subseteq Candidates[Dataset]
        BY <3>3 DEF Deduped
      <4>. QED
        BY <1>2, <2>3, <3>3, <4>1
    <3>. QED
      BY <2>1, <3>1, <3>2, <3>3 DEF Writes
  <2>. QED
    BY <1>0, <1>1, <1>2, <2>1, <2>2, <2>4 DEF TypeOK, Writes
<1>5. CASE PublishCompletion
  <2>1. /\ step' = 0 /\ UNCHANGED <<execution, silver>>
        /\ completion' = [by |-> execution,
                          rows |-> [d \in Datasets |-> Cardinality(silver[d].rows)],
                          rejected |-> Cardinality(RejectedPositions)]
    BY <1>5 DEF PublishCompletion
  <2>2. Cardinality(RejectedPositions) \in Nat
    BY <1>2, FinitePositions, EntryFields DEF RejectedPositions
  <2>3. ASSUME NEW d \in Datasets PROVE Cardinality(silver[d].rows) \in Nat
    BY <1>2, FiniteCandidates, FS_Subset, FS_CardinalityType
  <2>4. completion' \in [by : 0 .. MaxExecutions, rows : [Datasets -> Nat], rejected : Nat]
    BY <1>2, <2>1, <2>2, <2>3
  <2>. QED
    BY <1>0, <1>1, <1>2, <2>1, <2>4 DEF TypeOK
<1>6. CASE UNCHANGED vars
  BY <1>1, <1>2, <1>6 DEF vars, TypeOK
<1>. QED
  BY <1>3, <1>4, <1>5, <1>6 DEF Next

LEMMA CurationInit == Init => CurationInv
<1> SUFFICES ASSUME Init PROVE CurationInv
  OBVIOUS
<1>1. bronze \in Seq(Entries)
  <2>1. PICK n \in 0 .. MaxEntries : bronze \in [1 .. n -> Entries]
    BY DEF Init
  <2>2. n \in Nat
    BY <2>1
  <2>. QED
    BY <2>1, <2>2, SeqDef
<1>2. readable \in BOOLEAN /\ execution = 0 /\ step = 0
  BY DEF Init
<1>3. /\ silver = [d \in Datasets |-> [by |-> 0, rows |-> {}]]
      /\ completion = [by |-> 0, rows |-> [d \in Datasets |-> 0], rejected |-> 0]
  BY DEF Init, NoRows, NoCompletion
<1>4. /\ silver \in [Datasets -> [by : 0 .. MaxExecutions, rows : SUBSET AllRows]]
      /\ \A d \in Datasets : silver[d].by = 0 /\ silver[d].rows = {}
  BY <1>3, CurationAssumption
<1>5. completion \in [by : 0 .. MaxExecutions, rows : [Datasets -> Nat], rejected : Nat] /\ completion.by = 0
  BY <1>3, CurationAssumption
<1>6. TypeOK
  BY <1>1, <1>2, <1>4, <1>5, CurationAssumption DEF TypeOK
<1>7. Curated /\ WrittenUpToStep /\ ManifestEnds /\ CompletionIsTrue
  BY <1>2, <1>4, <1>5 DEF Curated, WrittenUpToStep, ManifestEnds, CompletionIsTrue, Completed
<1>. QED
  BY <1>6, <1>7 DEF CurationInv

LEMMA CurationStep == CurationInv /\ [Next]_vars => CurationInv'
<1> SUFFICES ASSUME CurationInv, [Next]_vars PROVE CurationInv'
  OBVIOUS
<1>0. TypeOK /\ Curated /\ WrittenUpToStep /\ ManifestEnds /\ CompletionIsTrue /\ TypeOK'
  BY CurationTypeStep DEF CurationInv
<1>t. /\ execution \in Nat /\ step \in 0 .. 7 /\ completion.by \in Nat
      /\ step # 0 => execution # 0
  BY <1>0, CurationAssumption DEF TypeOK, WrittenUpToStep
<1>s. Candidates' = Candidates /\ RejectedPositions' = RejectedPositions
  <2>1. UNCHANGED bronze
    BY DEF Next, vars, Start, WriteDataset, ContractFails, JobFails, PublishCompletion
  <2>. QED
    BY <2>1, SameObject
<1>1. CASE Start
  <2>1. /\ execution' = execution + 1 /\ step' \in {0, 1} /\ UNCHANGED <<silver, completion>>
    BY <1>1 DEF Start
  <2>2. ~Completed' /\ completion'.by <= execution'
    BY <1>0, <1>t, <2>1 DEF Completed, ManifestEnds
  <2>3. Curated' /\ WrittenUpToStep'
    BY <1>0, <1>t, <1>s, <2>1 DEF Curated, WrittenUpToStep
  <2>. QED
    BY <1>0, <2>2, <2>3 DEF CurationInv, ManifestEnds, CompletionIsTrue
<1>2. CASE WriteDataset \/ ContractFails \/ JobFails
  <2>1. Writes
    BY <1>2, WritesOfStep
  <2>2. UNCHANGED <<execution, completion>> /\ Completed' = Completed
    BY <2>1 DEF Writes, Completed
  <2>3. ASSUME NEW d \in Datasets, silver'[d].by # 0
        PROVE  silver'[d].rows \in Deduped(Candidates[d], KeyLength[d])
    <3>1. CASE silver'[d] = silver[d]
      BY <1>0, <2>3, <3>1 DEF Curated
    <3>2. silver'[d] # NoRows
      BY <2>3 DEF NoRows
    <3>3. CASE \E rows \in Deduped(Candidates[d], KeyLength[d]) :
                 silver'[d] = [by |-> execution, rows |-> rows]
      BY <3>3
    <3>. QED
      BY <1>0, <2>1, <3>1, <3>2, <3>3, SilverMoves
  <2>4. Curated'
    BY <1>s, <2>3 DEF Curated
  <2>5. ASSUME NEW n \in 1 .. 6, n < step' PROVE silver'[DatasetOrder[n]].by = execution
    <3>1. step \in 1 .. 6 /\ step' = step + 1 /\ DatasetOrder[n] \in Datasets
      BY <2>1, <2>5, DatasetNames DEF Writes
    <3>2. CASE n = step
      <4>0. Dataset \in Datasets /\ step' # 0
        BY <1>t, <3>1, <3>2 DEF Dataset
      <4>1. PICK rows : silver'[Dataset] = [by |-> execution, rows |-> rows]
        BY <1>0, <2>1, <3>1, <4>0, SilverMoves
      <4>. QED
        BY <3>2, <4>1 DEF Dataset
    <3>3. CASE n # step
      <4>1. n < step /\ DatasetOrder[n] # Dataset
        BY <1>t, <2>5, <3>1, <3>3, DatasetNames DEF Dataset
      <4>2. silver'[DatasetOrder[n]] = silver[DatasetOrder[n]]
        BY <1>0, <1>t, <2>1, <3>1, <4>1, SilverMoves
      <4>. QED
        BY <1>0, <4>1, <4>2 DEF WrittenUpToStep
    <3>. QED
      BY <3>2, <3>3
  <2>6. WrittenUpToStep'
    BY <1>t, <2>1, <2>2, <2>5 DEF WrittenUpToStep, Writes
  <2>7. Completed => UNCHANGED silver /\ step' = 0
    BY <1>0, <2>1 DEF ManifestEnds, Writes
  <2>8. ManifestEnds' /\ CompletionIsTrue'
    BY <1>0, <1>s, <2>2, <2>7 DEF ManifestEnds, CompletionIsTrue
  <2>. QED
    BY <1>0, <2>4, <2>6, <2>8 DEF CurationInv
<1>3. CASE PublishCompletion
  <2>1. /\ step = 7 /\ step' = 0 /\ UNCHANGED <<bronze, execution, silver>>
        /\ completion' = [by |-> execution,
                          rows |-> [d \in Datasets |-> Cardinality(silver[d].rows)],
                          rejected |-> Cardinality(RejectedPositions)]
    BY <1>3 DEF PublishCompletion
  <2>2. /\ completion'.by = execution /\ completion'.rejected = Cardinality(RejectedPositions)
        /\ \A d \in Datasets : completion'.rows[d] = Cardinality(silver[d].rows)
    BY <2>1
  <2>3. \A d \in Datasets : silver[d].by = execution
    <3>1. \A n \in 1 .. 6 : silver[DatasetOrder[n]].by = execution
      BY <1>0, <2>1 DEF WrittenUpToStep
    <3>. QED
      BY <3>1 DEF Datasets
  <2>4. Curated' /\ WrittenUpToStep'
    BY <1>0, <1>s, <2>1 DEF Curated, WrittenUpToStep
  <2>5. ManifestEnds' /\ CompletionIsTrue'
    BY <1>t, <1>s, <2>1, <2>2, <2>3 DEF ManifestEnds, CompletionIsTrue, Completed
  <2>. QED
    BY <1>0, <2>4, <2>5 DEF CurationInv
<1>4. CASE UNCHANGED vars
  BY <1>0, <1>s, <1>4
  DEF vars, CurationInv, Curated, WrittenUpToStep, ManifestEnds, CompletionIsTrue, Completed
<1>. QED
  BY <1>1, <1>2, <1>3, <1>4 DEF Next

-----------------------------------------------------------------------------
(* The theorems.                                                            *)

\* Type correctness.
THEOREM CurationTypes == Spec => []TypeOK
<1>1. Init => TypeOK
  BY CurationInit DEF CurationInv
<1>. QED
  BY <1>1, CurationTypeStep, PTL DEF Spec

\* The inductive invariant.
THEOREM CurationInvariant == Spec => []CurationInv
  BY CurationInit, CurationStep, PTL DEF Spec

\* The two filters of the Glue job, written apart, are complements.
LEMMA ValidOrRejected ==
  ASSUME NEW e \in EntryShapes
  PROVE  IsValidTrack(e) <=> RejectionReason(e) = "accepted"
<1>1. CASE e.item # "object" \/ e.type # "track"
  BY <1>1 DEF IsValidTrack, RejectionReason
<1>2. CASE e.item = "object" /\ e.type = "track"
  BY <1>2 DEF IsValidTrack, RejectionReason
<1>. QED
  BY <1>1, <1>2

\* Whatever the source lists, each entry is either a slot or rejected with a reason.
THEOREM EntriesOnce == Spec => []EveryEntryOnce
<1>1. TypeOK => EveryEntryOnce
  BY EntryFields, ValidOrRejected DEF TypeOK, EveryEntryOnce, ValidPositions, RejectedPositions
<1>. QED
  BY <1>1, CurationTypes, PTL

\* Of whatever entry the parser of the extractor accepts, the Glue job says the same:
\* whether it is unavailable or unsupported, that it is local if its identifier is
\* missing for that, and which artists it credits.
THEOREM ClassifiersAgree == Spec => []KindsAgree
<1>1. ASSUME NEW e \in EntryShapes, ItemKind(e) # "error"
      PROVE  /\ (RejectionReason(e) = "UNAVAILABLE_ITEM") <=> (ItemKind(e) = "unavailable")
             /\ (RejectionReason(e) = "UNSUPPORTED_ITEM_TYPE") <=> (ItemKind(e) \in {"episode", "unsupported"})
             /\ (RejectionReason(e) = "LOCAL_TRACK_WITHOUT_ID") => ParsedLocal(e)
             /\ ItemKind(e) = "track" =>
                  \A n \in DOMAIN e.artists : HasId(e.artists[n][1]) <=> e.artists[n][1] # Null
  <2>0. ~BadWrapper(e) /\ e.item \in {"null", "object"}
    BY <1>1 DEF ItemKind, BadWrapper, EntryShapes
  <2>1. CASE e.item = "null"
    BY <2>0, <2>1 DEF ItemKind, RejectionReason
  <2>2. CASE e.item = "object" /\ e.type # "track"
    BY <1>1, <2>0, <2>2 DEF ItemKind, RejectionReason
  <2>3. CASE e.item = "object" /\ e.type = "track"
    <3>1. ~BadType(e) /\ ~BadArtists(e) /\ ItemKind(e) = "track"
      <4>1. ~BadType(e)
        BY <1>1, <2>0, <2>3 DEF ItemKind
      <4>. QED
        BY <1>1, <2>0, <2>3, <4>1 DEF ItemKind
    <3>2. RejectionReason(e) \in {"LOCAL_TRACK_WITHOUT_ID", "MISSING_TRACK_ID", "accepted"}
      BY <2>3 DEF RejectionReason
    <3>3. RejectionReason(e) = "LOCAL_TRACK_WITHOUT_ID" => IsLocal(e)
      BY <2>3 DEF RejectionReason
    <3>4. IsLocal(e) => ParsedLocal(e)
      BY <2>3 DEF IsLocal, ParsedLocal
    <3>5. \A n \in DOMAIN e.artists : HasId(e.artists[n][1]) <=> e.artists[n][1] # Null
      BY <3>1 DEF BadArtists, HasId
    <3>. QED
      BY <3>1, <3>2, <3>3, <3>4, <3>5
  <2>. QED
    BY <2>0, <2>1, <2>2, <2>3
<1>2. TypeOK => KindsAgree
  BY <1>1, EntryFields DEF TypeOK, KindsAgree
<1>. QED
  BY <1>2, CurationTypes, PTL

\* The manifest tells the rows of the files truly, and they are all of the execution
\* that published it, however often the job failed before.
THEOREM ManifestIsTrue == Spec => []CompletionIsTrue
<1>1. CurationInv => CompletionIsTrue
  BY DEF CurationInv
<1>. QED
  BY <1>1, CurationInvariant, PTL

\* The rows of a dataset whose manifest is published.
LEMMA CompletedRows ==
  ASSUME CurationInv, Completed, NEW d \in Datasets
  PROVE  silver[d].rows \in Deduped(Candidates[d], KeyLength[d]) /\ silver[d].rows \subseteq Candidates[d]
  BY DEF CurationInv, CompletionIsTrue, Completed, Curated, TypeOK

LEMMA CandidatesAreRows ==
  ASSUME TypeOK, NEW d \in Datasets
  PROVE  /\ RowSet(Candidates[d], Width[d])
         /\ KeyLength[d] \in Nat /\ Width[d] \in Nat /\ KeyLength[d] <= Width[d]
  BY CandidateRows, KeyIsPart DEF TypeOK, RowSet

\* Every valid entry is a slot of its own, and a rejected one is none.
LEMMA SlotsCount ==
  ASSUME TypeOK
  PROVE  /\ Cardinality(SlotRows) = Cardinality(ValidPositions)
         /\ Len(bronze) - Cardinality(ValidPositions) = Cardinality(RejectedPositions)
<1>1. bronze \in Seq(Entries)
  BY DEF TypeOK
<1>2. /\ IsFiniteSet(Positions) /\ Cardinality(Positions) = Len(bronze) /\ Len(bronze) \in Nat
      /\ IsFiniteSet(ValidPositions) /\ Cardinality(ValidPositions) \in Nat
      /\ IsFiniteSet(RejectedPositions) /\ Cardinality(RejectedPositions) \in Nat
  BY <1>1, FinitePositions, EntryFields DEF ValidPositions, RejectedPositions
<1>3. RejectedPositions = Positions \ ValidPositions /\ ValidPositions \subseteq Positions
  <2>1. \A p \in Positions : IsValidTrack(bronze[p]) <=> RejectionReason(bronze[p]) = "accepted"
    BY <1>1, EntryFields, ValidOrRejected
  <2>. QED
    BY <2>1 DEF ValidPositions, RejectedPositions
<1>4. Cardinality(RejectedPositions) = Cardinality(Positions) - Cardinality(ValidPositions)
  <2>1. Positions \cap ValidPositions = ValidPositions
    BY <1>3
  <2>2. Cardinality(Positions \ ValidPositions) = Cardinality(Positions) - Cardinality(Positions \cap ValidPositions)
    BY <1>2, FS_Difference
  <2>. QED
    BY <1>3, <2>1, <2>2
<1>5. Cardinality(SlotRows) = Cardinality(ValidPositions)
  <2> DEFINE f == [p \in ValidPositions |-> <<p, bronze[p].id>>]
  <2>a. /\ f \in [ValidPositions -> SlotRows]
        /\ \A r \in SlotRows : \E p \in ValidPositions : f[p] = r
    BY DEF SlotRows
  <2>b. \A p, q \in ValidPositions : f[p] = f[q] => p = q
    OBVIOUS
  <2>1. f \in Bijection(ValidPositions, SlotRows)
    BY <2>a, <2>b DEF Bijection, Injection, Surjection, IsInjective
  <2>2. ExistsBijection(ValidPositions, SlotRows)
    BY <2>1 DEF ExistsBijection
  <2>. QED
    BY <1>2, <2>2, FS_Bijection
<1>. QED
  BY <1>2, <1>4, <1>5

\* What the completed run's observation counts is what Silver holds.
THEOREM CountsAgree == Spec => []ObservationMatchesSlots
<1>1. CurationInv => ObservationMatchesSlots
  <2> SUFFICES ASSUME CurationInv, Completed, NEW o \in silver["playlist_observations"].rows
               PROVE  /\ o[2] = Cardinality(silver["playlist_snapshots"].rows)
                      /\ o[3] = completion.rejected
    BY DEF ObservationMatchesSlots
  <2>1. TypeOK /\ completion.rejected = Cardinality(RejectedPositions)
    BY DEF CurationInv, ManifestEnds
  <2>2. o = ObservationRow
    BY CompletedRows, DatasetNames DEF Candidates
  <2>3. silver["playlist_snapshots"].rows = SlotRows
    <3>1. silver["playlist_snapshots"].rows \in Deduped(SlotRows, 1)
      BY CompletedRows, DatasetNames DEF Candidates, KeyLength
    <3>2. RowSet(SlotRows, 2)
      BY <2>1, CandidatesAreRows, DatasetNames DEF Candidates, Width
    <3>3. ASSUME NEW r \in SlotRows, NEW s \in SlotRows, SameKey(r, s, 1) PROVE r = s
      <4>1. r[1] = s[1]
        BY <3>2, <3>3, KeyFields DEF RowSet
      <4>. QED
        BY <4>1 DEF SlotRows
    <3>. QED
      BY <3>1, <3>3, KeepsAll
  <2>. QED
    BY <2>1, <2>2, <2>3, SlotsCount DEF ObservationRow
<1>. QED
  BY <1>1, CurationInvariant, PTL

\* In a completed run no slot lacks its track and no track its artists, although
\* each dataset was deduplicated by itself.
THEOREM NoDanglingReferences == Spec => []ReferencesResolve
<1>1. CurationInv => ReferencesResolve
  <2> SUFFICES ASSUME CurationInv, Completed PROVE ReferencesResolve
    BY DEF ReferencesResolve
  <2>0. TypeOK /\ {"artists", "tracks", "track_artists", "playlist_snapshots"} \subseteq Datasets
    BY DatasetNames DEF CurationInv
  <2>1. ASSUME NEW d \in {"artists", "tracks"}, NEW r \in Candidates[d]
        PROVE  \E s \in silver[d].rows : s[1] = r[1]
    <3>1. d \in Datasets /\ KeyLength[d] \in Nat \ {0}
      BY <2>0 DEF KeyLength
    <3>2. silver[d].rows \in Deduped(Candidates[d], KeyLength[d])
      BY <3>1, CompletedRows
    <3>. QED
      BY <2>0, <3>1, <3>2, CandidatesAreRows, KeepsKeys
  <2>2. ASSUME NEW p \in ValidPositions
        PROVE  bronze[p].id \in {t[1] : t \in silver["tracks"].rows}
    <3>0. TrackRow(p) \in Candidates["tracks"] /\ TrackRow(p)[1] = bronze[p].id
      BY DEF Candidates, TrackRows, TrackRow
    <3>1. PICK r \in Candidates["tracks"] : r[1] = bronze[p].id
      BY <3>0
    <3>. QED
      BY <2>1, <3>1
  <2>3. ASSUME NEW s \in silver["playlist_snapshots"].rows
        PROVE  s[2] \in {t[1] : t \in silver["tracks"].rows}
    <3>1. PICK p \in ValidPositions : s = <<p, bronze[p].id>>
      BY <2>0, CompletedRows DEF Candidates, SlotRows
    <3>. QED
      BY <2>2, <3>1
  <2>4. ASSUME NEW b \in silver["track_artists"].rows
        PROVE  /\ b[1] \in {t[1] : t \in silver["tracks"].rows}
               /\ b[2] \in {a[1] : a \in silver["artists"].rows}
    <3>0. b \in Candidates["track_artists"]
      BY <2>0, CompletedRows
    <3>1. PICK p \in ValidPositions :
            \E n \in DOMAIN bronze[p].artists :
              HasId(bronze[p].artists[n][1]) /\ b = <<bronze[p].id, bronze[p].artists[n][1], n>>
      BY <3>0 DEF Candidates
    <3>2. PICK n \in DOMAIN bronze[p].artists :
            HasId(bronze[p].artists[n][1]) /\ b = <<bronze[p].id, bronze[p].artists[n][1], n>>
      BY <3>1
    <3>3. bronze[p].artists[n] \in Candidates["artists"]
      BY <3>2 DEF Candidates, Artists
    <3>4. PICK a \in silver["artists"].rows : a[1] = bronze[p].artists[n][1]
      BY <2>1, <3>3
    <3>. QED
      BY <2>2, <3>2, <3>4
  <2>. QED
    BY <2>3, <2>4 DEF ReferencesResolve
<1>. QED
  BY <1>1, CurationInvariant, PTL

\* Two executions write the same rows: deterministic_dedupe leaves Spark no choice.
THEOREM ExecutionsRepeat == Spec => SameRowsAgain
<1>1. CurationInv /\ CurationInv' /\ [Next]_vars =>
        \A d \in Datasets : silver[d].by # 0 /\ silver'[d].by # 0 => silver'[d].rows = silver[d].rows
  <2> SUFFICES ASSUME CurationInv, CurationInv', [Next]_vars, NEW d \in Datasets,
                      silver[d].by # 0, silver'[d].by # 0
               PROVE  silver'[d].rows = silver[d].rows
    OBVIOUS
  <2>1. UNCHANGED bronze
    BY DEF Next, vars, Start, WriteDataset, ContractFails, JobFails, PublishCompletion
  <2>2. Candidates' = Candidates
    BY <2>1, SameObject
  <2>3. silver[d].rows \in Deduped(Candidates[d], KeyLength[d])
    BY DEF CurationInv, Curated
  <2>4. silver'[d].rows \in Deduped(Candidates[d], KeyLength[d])
    BY <2>2 DEF CurationInv, Curated
  <2>5. TypeOK
    BY DEF CurationInv
  <2>. QED
    BY <2>3, <2>4, <2>5, CandidatesAreRows, OneOutcome
<1>. QED
  BY <1>1, CurationInvariant, PTL DEF Spec, SameRowsAgain
=============================================================================
