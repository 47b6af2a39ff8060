--------------------------- MODULE SilverCuration ---------------------------
(***************************************************************************)
(* The Glue job (glue/jobs/bronze_to_silver_curation.py) and what it       *)
(* computes (glue/transforms, glue/storage): one Bronze object becomes six *)
(* Silver datasets, written one after another, and at last the completion  *)
(* manifest, which is created once.  The job may fail anywhere and be      *)
(* started again for the same run.                                         *)
(*                                                                         *)
(* Identifiers, names and durations are numbers; 0 stands for null.  A row *)
(* is a tuple that begins with its key.                                    *)
(***************************************************************************)
EXTENDS Naturals, Sequences, FiniteSets

\* Identifiers that are no ordinary text: null; spaces only; none at all, as of a
\* null artist; and what Spark reads as a text although the parser refuses it, a
\* number or white space other than spaces.
Null == 0
Blank == 1
NoKey == 2
Odd == 3

\* The values that is_local may have, in an entry or in its item.
Flags == {"missing", "null", "true", "false"}

\* What Spark can read as an entry of items, by what the code tells apart: a null
\* entry is one whose item is null.  listed: the item's artists are an array.
EntryShapes ==
    [item : {"missing", "null", "object"}, type : STRING, entryLocal : Flags, itemLocal : Flags,
     id : Nat, name : Nat, duration : Nat, album : Nat \X Nat, listed : BOOLEAN,
     artists : Seq(Nat \X Nat)]

CONSTANTS
    Entries,       \* the playlist entries a Bronze object is made of
    MaxEntries,    \* bound
    MaxExecutions  \* bound: executions of the job for one run

ASSUME CurationAssumption ==
    /\ MaxEntries \in Nat /\ MaxExecutions \in Nat
    /\ Entries \subseteq EntryShapes

VARIABLES
    bronze,      \* the entries of the object, in playlist order
    readable,    \* it is one object, valid JSON and of the schema's types
    execution,   \* executions begun
    step,        \* of the present one: 0 none, 1 .. 6 the dataset to write, 7 completion
    silver,      \* of each dataset, its rows and the execution that wrote them
    completion   \* the manifest: its execution, rows of each dataset, rejected items

vars == <<bronze, readable, execution, step, silver, completion>>

DatasetOrder == <<"artists", "albums", "tracks", "track_artists",
                  "playlist_snapshots", "playlist_observations">>
Datasets == {DatasetOrder[n] : n \in 1 .. 6}
NoRows == [by |-> 0, rows |-> {}]
NoCompletion == [by |-> 0, rows |-> [d \in Datasets |-> 0], rejected |-> 0]

Init ==
    /\ bronze \in UNION {[1 .. n -> Entries] : n \in 0 .. MaxEntries}
    /\ readable \in BOOLEAN
    /\ execution = 0 /\ step = 0
    /\ silver = [d \in Datasets |-> NoRows]
    /\ completion = NoCompletion

-----------------------------------------------------------------------------
(* transforms/common.py, quarantine.py and the parser of                    *)
(* extraction/items.py.                                                     *)

\* An identifier that is not null and that trim leaves something of.
HasId(i) == i \notin {Null, Blank, NoKey}

\* Mutant of IsValidTrack: the identifier is not looked at.
AnyTrack(e) == e.item = "object" /\ e.type = "track"

IsValidTrack(e) == e.item = "object" /\ e.type = "track" /\ HasId(e.id)

\* Mutant of RejectionReason: only episodes are rejected for their type.
EpisodesOnly(e) ==
    CASE e.item # "object" -> "UNAVAILABLE_ITEM"
      [] e.item = "object" /\ e.type = "episode" -> "UNSUPPORTED_ITEM_TYPE"
      [] e.item = "object" /\ e.type # "episode" /\ ~HasId(e.id) -> "MISSING_TRACK_ID"
      [] OTHER -> "accepted"

\* coalesce(item.is_local, entry.is_local, false)
IsLocal(e) == IF e.itemLocal \in {"true", "false"} THEN e.itemLocal = "true" ELSE e.entryLocal = "true"

RejectionReason(e) ==
    CASE e.item # "object" -> "UNAVAILABLE_ITEM"
      [] e.item = "object" /\ e.type # "track" -> "UNSUPPORTED_ITEM_TYPE"
      [] e.item = "object" /\ e.type = "track" /\ ~HasId(e.id) /\ IsLocal(e) -> "LOCAL_TRACK_WITHOUT_ID"
      [] e.item = "object" /\ e.type = "track" /\ ~HasId(e.id) /\ ~IsLocal(e) -> "MISSING_TRACK_ID"
      [] OTHER -> "accepted"

\* The parser raises: no item key; is_local that is not a Boolean; a type that is
\* not a text or is blank.
BadWrapper(e) == e.item = "missing" \/ e.entryLocal = "null"
BadType(e) == e.type \in {"none", "blank", "number"} \/ e.itemLocal = "null"

\* Artists that are no array, an artist without an id key, or an id that is neither
\* null nor a text with something in it.
BadArtists(e) == ~e.listed \/ \E n \in DOMAIN e.artists : e.artists[n][1] \in {Blank, NoKey, Odd}

\* parse_playlist_item
ItemKind(e) ==
    CASE BadWrapper(e) -> "error"
      [] ~BadWrapper(e) /\ e.item = "null" -> "unavailable"
      [] ~BadWrapper(e) /\ e.item = "object" /\ BadType(e) -> "error"
      [] ~BadWrapper(e) /\ e.item = "object" /\ ~BadType(e) /\ e.type # "track" ->
           IF e.type = "episode" THEN "episode" ELSE "unsupported"
      [] OTHER -> IF BadArtists(e) THEN "error" ELSE "track"

ParsedLocal(e) == e.entryLocal = "true" \/ (e.item = "object" /\ e.itemLocal = "true")

Positions == DOMAIN bronze
ValidPositions == {p \in Positions : IsValidTrack(bronze[p])}
RejectedPositions == {p \in Positions : RejectionReason(bronze[p]) # "accepted"}

-----------------------------------------------------------------------------
(* transforms/entities.py, snapshots.py and dedup.py.                       *)

Artists(p) == {bronze[p].artists[n] : n \in DOMAIN bronze[p].artists}

\* A Boolean column, 0 if null.
Column(flag) == IF flag = "true" THEN 2 ELSE IF flag = "false" THEN 1 ELSE 0

TrackRow(p) ==
    LET t == bronze[p] IN <<t.id, t.name, t.duration, t.album[1], Column(t.itemLocal)>>

\* Mutant of TrackRows: a track without an album is left out.
TracksWithAlbum == {TrackRow(p) : p \in {q \in ValidPositions : bronze[q].album[1] # Null}}

TrackRows == {TrackRow(p) : p \in ValidPositions}

SlotRows == {<<p, bronze[p].id>> : p \in ValidPositions}

ObservationRow ==
    <<Len(bronze), Cardinality(ValidPositions), Len(bronze) - Cardinality(ValidPositions)>>

Candidates == [
    artists |-> {a \in UNION {Artists(p) : p \in ValidPositions} : HasId(a[1])},
    albums |-> {a \in {bronze[p].album : p \in ValidPositions} : HasId(a[1])},
    tracks |-> TrackRows,
    track_artists |-> UNION {{<<bronze[p].id, bronze[p].artists[n][1], n>> :
                                n \in {m \in DOMAIN bronze[p].artists : HasId(bronze[p].artists[m][1])}} :
                             p \in ValidPositions},
    playlist_snapshots |-> SlotRows,
    playlist_observations |-> {ObservationRow}]

\* Mutant of KeyLength: slots are told apart by nothing.
NoSlotKey == [artists |-> 1, albums |-> 1, tracks |-> 1, track_artists |-> 3,
              playlist_snapshots |-> 0, playlist_observations |-> 3]

KeyLength == [artists |-> 1, albums |-> 1, tracks |-> 1, track_artists |-> 3,
              playlist_snapshots |-> 1, playlist_observations |-> 3]

SameKey(r, s, n) == SubSeq(r, 1, n) = SubSeq(s, 1, n)
NullsLast(a, b) == a # b /\ (b = 0 \/ (a # 0 /\ a < b))

\* Mutant of OrderedFields: the name alone, without the fingerprint.
NameOnly(r, n) == n + 1 .. IF Len(r) > n THEN n + 1 ELSE n

\* The name, then the fingerprint of the whole row, for which the other fields stand.
OrderedFields(r, n) == n + 1 .. Len(r)

Before(r, s, n) ==
    \E k \in OrderedFields(r, n) :
        NullsLast(r[k], s[k]) /\ \A j \in OrderedFields(r, n) : j < k => r[j] = s[j]

\* deterministic_dedupe: row_number() = 1 picks any of the rows that no other precedes.
Deduped(rows, n) ==
    {kept \in SUBSET rows :
        /\ \A r \in rows : \E s \in kept : SameKey(r, s, n)
        /\ \A r, s \in kept : SameKey(r, s, n) => r = s
        /\ \A r \in rows, s \in kept : SameKey(r, s, n) => ~Before(r, s, n)}

\* require_non_null_values: names, and of a track its duration and is_local.
MeetsContract(d, rows) ==
    /\ d \in {"artists", "albums", "tracks"} => \A r \in rows : r[2] # 0
    /\ d = "tracks" => \A r \in rows : r[3] # 0 /\ r[5] # 0

-----------------------------------------------------------------------------
(* run_bronze_to_silver and main.                                           *)

\* read_bronze_snapshot
Start ==
    /\ step = 0 /\ execution < MaxExecutions
    /\ execution' = execution + 1
    /\ step' = IF readable THEN 1 ELSE 0
    /\ UNCHANGED <<bronze, readable, silver, completion>>

Dataset == DatasetOrder[step]

\* write_silver_dataset, mode overwrite.
WriteDataset ==
    /\ step \in 1 .. 6
    /\ \E rows \in Deduped(Candidates[Dataset], KeyLength[Dataset]) :
         /\ MeetsContract(Dataset, rows)
         /\ silver' = [silver EXCEPT ![Dataset] = [by |-> execution, rows |-> rows]]
    /\ step' = step + 1
    /\ UNCHANGED <<bronze, readable, execution, completion>>

\* Mutant of ContractFails: a dataset that does not meet the contract is left out.
SkipDataset ==
    /\ step \in 1 .. 6
    /\ \E rows \in Deduped(Candidates[Dataset], KeyLength[Dataset]) : ~MeetsContract(Dataset, rows)
    /\ step' = step + 1
    /\ UNCHANGED <<bronze, readable, execution, silver, completion>>

ContractFails ==
    /\ step \in 1 .. 6
    /\ \E rows \in Deduped(Candidates[Dataset], KeyLength[Dataset]) : ~MeetsContract(Dataset, rows)
    /\ step' = 0
    /\ UNCHANGED <<bronze, readable, execution, silver, completion>>

\* Anything else stops the job; overwrite removes the old files first.
JobFails ==
    /\ step # 0 /\ step' = 0
    /\ \/ UNCHANGED silver
       \/ step \in 1 .. 6 /\ silver' = [silver EXCEPT ![Dataset] = NoRows]
    /\ UNCHANGED <<bronze, readable, execution, completion>>

NotCompleted == completion.by = 0

\* build_completion, publish_completion
PublishCompletion ==
    /\ step = 7 /\ step' = 0
    /\ NotCompleted
    /\ completion' = [by |-> execution,
                      rows |-> [d \in Datasets |-> Cardinality(silver[d].rows)],
                      rejected |-> Cardinality(RejectedPositions)]
    /\ UNCHANGED <<bronze, readable, execution, silver>>

Next == Start \/ WriteDataset \/ ContractFails \/ JobFails \/ PublishCompletion

Spec == Init /\ [][Next]_vars

-----------------------------------------------------------------------------
AllRows == UNION {Candidates[d] : d \in Datasets}

\* The variables have their types, and a dataset has rows of its own.
TypeOK ==
    /\ bronze \in Seq(Entries) /\ readable \in BOOLEAN
    /\ execution \in 0 .. MaxExecutions /\ step \in 0 .. 7
    /\ silver \in [Datasets -> [by : 0 .. MaxExecutions, rows : SUBSET AllRows]]
    /\ \A d \in Datasets : silver[d].rows \subseteq Candidates[d]
    /\ completion \in [by : 0 .. MaxExecutions, rows : [Datasets -> Nat], rejected : Nat]

\* Every entry of the source is either a slot or rejected with a reason: the two
\* filters, written apart, are complements of each other.
EveryEntryOnce ==
    /\ ValidPositions \cap RejectedPositions = {}
    /\ ValidPositions \cup RejectedPositions = Positions

\* What the extractor's parser accepts, Glue understands as it does: the same items
\* are unavailable or unsupported, an item that Glue takes for local is so for the
\* parser, and Silver credits a track to exactly the artists whose ids the parser
\* returns.  Of the entries that the parser refuses it says nothing: Glue classifies
\* those by rules of its own.
KindsAgree ==
    \A e \in {bronze[p] : p \in Positions} : ItemKind(e) # "error" =>
      /\ (RejectionReason(e) = "UNAVAILABLE_ITEM") <=> (ItemKind(e) = "unavailable")
      /\ (RejectionReason(e) = "UNSUPPORTED_ITEM_TYPE") <=> (ItemKind(e) \in {"episode", "unsupported"})
      /\ (RejectionReason(e) = "LOCAL_TRACK_WITHOUT_ID") => ParsedLocal(e)
      /\ ItemKind(e) = "track" =>
           \A n \in DOMAIN e.artists : HasId(e.artists[n][1]) <=> e.artists[n][1] # Null

\* The last execution has published the manifest.
Completed == completion.by # 0 /\ completion.by = execution

\* A published run is one that dbt can accept: its observation counts exactly the
\* slots that Silver holds, and the rest of the source was rejected.
ObservationMatchesSlots ==
    Completed =>
        \A o \in silver["playlist_observations"].rows :
            /\ o[2] = Cardinality(silver["playlist_snapshots"].rows)
            /\ o[3] = completion.rejected

\* Slots and the bridge of a completed run refer to tracks and artists it has.
ReferencesResolve ==
    Completed =>
      LET trackIds == {t[1] : t \in silver["tracks"].rows}
      IN  /\ \A s \in silver["playlist_snapshots"].rows : s[2] \in trackIds
          /\ \A b \in silver["track_artists"].rows :
                b[1] \in trackIds /\ b[2] \in {a[1] : a \in silver["artists"].rows}

\* The manifest is about files of one execution and tells their rows truly.
CompletionIsTrue ==
    Completed =>
        \A d \in Datasets : /\ silver[d].by = completion.by
                            /\ Cardinality(silver[d].rows) = completion.rows[d]

\* An execution that repeats another writes the same rows, whatever rows of one
\* key Spark sees first.
SameRowsAgain ==
    [][\A d \in Datasets : silver[d].by # 0 /\ silver'[d].by # 0
                              => silver'[d].rows = silver[d].rows]_vars

-----------------------------------------------------------------------------
(* The inductive invariant behind them.                                     *)

\* Datasets hold what the transforms make of the object, whoever wrote them.
Curated == \A d \in Datasets : silver[d].by # 0 => silver[d].rows \in Deduped(Candidates[d], KeyLength[d])

\* An execution has written the datasets up to its step, and no other overwrote them.
WrittenUpToStep ==
    /\ step # 0 => execution # 0
    /\ \A n \in 1 .. 6 : n < step => silver[DatasetOrder[n]].by = execution

\* After its manifest, an execution does no more.
ManifestEnds ==
    /\ completion.by <= execution
    /\ Completed => step = 0 /\ completion.rejected = Cardinality(RejectedPositions)

CurationInv == TypeOK /\ Curated /\ WrittenUpToStep /\ ManifestEnds /\ CompletionIsTrue
=============================================================================
