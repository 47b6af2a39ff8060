----------------------------- MODULE DemoSource ------------------------------
(***************************************************************************)
(* The synthetic Bronze of the demonstration: generate_cc0_playlist_demo_  *)
(* bronze (sources/cc0_playlist.py) writes three daily snapshots and then  *)
(* a manifest, and may be killed and run again; plan_demo (orchestration/  *)
(* contracts.py) reads the manifest and the files it lists meanwhile.      *)
(*                                                                         *)
(* A file's content is <<value>>, or <<>> when it does not exist or is     *)
(* incomplete.  A snapshot id, a digest over date and tracks, is modelled  *)
(* by the snapshot itself; the run ids are fresh, so a file is named by    *)
(* the generation that made it and its date.                               *)
(***************************************************************************)
EXTENDS Naturals, Sequences, FiniteSetsExt, SequencesExt

CONSTANTS
    Corpora,         \* CSV files: sequences of [playlist, track, valid]
    TrackLimits,     \* --track-limit
    Days,            \* --start-date, and the bounds of a window
    MaxGenerations   \* bound

ASSUME DemoAssumption ==
    /\ TrackLimits \subseteq Nat /\ Days \subseteq Nat \ {0} /\ MaxGenerations \in Nat
    /\ Corpora \subseteq Seq([playlist : Nat, track : Nat, valid : BOOLEAN])

VARIABLES
    csv,
    generation, snapshots, step,  \* of the generator; step: 0 when it does not run
    files, manifest,
    window, pending, planned, planner    \* of plan_demo

generatorVars == <<csv, generation, snapshots, step>>
plannerVars == <<window, pending, planned, planner>>
vars == <<generatorVars, files, manifest, plannerVars>>

Missing == <<>>
Dates == {first + d - 1 : first \in Days, d \in 1 .. 3}
Names == (1 .. MaxGenerations) \X Dates

-----------------------------------------------------------------------------
(* Selection of a playlist and its three synthetic states.                  *)

\* Mutant of Repeats: a track may be selected twice.
NeverRepeats(i) == FALSE

Repeats(i) == \E j \in 1 .. i - 1 : csv[j] = csv[i]

\* The first row of each track of playlist p.
Rows(p) == {i \in DOMAIN csv : csv[i].valid /\ csv[i].playlist = p /\ ~Repeats(i)}

\* Its position among the rows S.
Rank(i, S) == Cardinality({j \in S : j <= i})

\* The tracks of these rows, in the order of the file.
Unique(p) ==
    LET rows == Rows(p)
    IN  [n \in 1 .. Cardinality(rows) |-> csv[CHOOSE i \in rows : Rank(i, rows) = n].track]

Eligible(limit) ==
    {p \in {csv[i].playlist : i \in DOMAIN csv} : limit >= 6 /\ Len(Unique(p)) >= limit + 2}

SecondState(base, donors) ==
    <<base[2], base[1]>> \o SubSeq(base, 3, Len(base) - 2) \o donors

TemporalTrackSets(tracks, limit) ==
    LET base == SubSeq(tracks, 1, limit)
        second == SecondState(base, SubSeq(tracks, limit + 1, limit + 2))
        third == Tail(Tail(second)) \o <<second[1], base[limit]>>
    IN  <<base, second, third>>

-----------------------------------------------------------------------------
Init ==
    /\ csv \in Corpora
    /\ generation = 0 /\ snapshots = <<>> /\ step = 0
    /\ files = [n \in Names |-> Missing] /\ manifest = Missing
    /\ window = {} /\ pending = {} /\ planned = {} /\ planner = "idle"

\* generate_cc0_playlist_demo_bronze raises before it writes when no playlist
\* has enough tracks; then nothing happens.
Generate(first, limit) ==
    /\ step = 0 /\ generation < MaxGenerations /\ Eligible(limit) # {}
    /\ LET p == Min(Eligible(limit))
           states == TemporalTrackSets(Unique(p), limit)
       IN  snapshots' = [d \in 1 .. 3 |-> [playlist |-> p, date |-> first + d - 1,
                                           tracks |-> states[d]]]
    /\ generation' = generation + 1 /\ step' = 1
    /\ UNCHANGED <<csv, files, manifest, plannerVars>>

\* Mutant of FileName: no run id in the path.
NameOfDay(g, date) == <<1, date>>

FileName(g, date) == <<g, date>>

\* Mutant of WriteOrder: the manifest is written before the snapshots.
ManifestFirst == <<0, 1, 2, 3>>

WriteOrder == <<1, 2, 3, 0>>  \* the day written at each step, 0 for the manifest

Record(d) == [file |-> FileName(generation, snapshots[d].date), snapshot |-> snapshots[d]]

\* write_bytes and write_text open the file, which truncates it, and fill it.
BeginWrite ==
    /\ step \in 1 .. 4
    /\ LET d == WriteOrder[step]
       IN  IF d = 0 THEN manifest' = Missing /\ UNCHANGED files
           ELSE files' = [files EXCEPT ![Record(d).file] = Missing] /\ UNCHANGED manifest
    /\ step' = step + 10
    /\ UNCHANGED <<csv, generation, snapshots, plannerVars>>

EndWrite ==
    /\ step \in 11 .. 14
    /\ LET d == WriteOrder[step - 10]
       IN  IF d = 0 THEN manifest' = <<{Record(n) : n \in 1 .. 3}>> /\ UNCHANGED files
           ELSE files' = [files EXCEPT ![Record(d).file] = <<snapshots[d]>>] /\ UNCHANGED manifest
    /\ step' = IF step = 14 THEN 0 ELSE step - 9
    /\ UNCHANGED <<csv, generation, snapshots, plannerVars>>

Kill == step # 0 /\ step' = 0
        /\ UNCHANGED <<csv, generation, snapshots, files, manifest, plannerVars>>

-----------------------------------------------------------------------------
(* plan_demo.                                                               *)

Date(record) == record.snapshot.date

ReadManifest(days) ==
    /\ planner # "reading"
    /\ window' = days /\ planned' = {}
    /\ IF manifest = Missing THEN planner' = "no manifest" /\ pending' = {}
       ELSE planner' = "reading" /\ pending' = {r \in manifest[1] : Date(r) \in days}
    /\ UNCHANGED <<generatorVars, files, manifest>>

Agrees(record, content) == content # Missing /\ content[1] = record.snapshot

ReadSnapshot ==
    /\ planner = "reading"
    /\ \E r \in pending :
         /\ \A other \in pending : Date(r) <= Date(other)
         /\ pending' = pending \ {r}
         /\ IF Agrees(r, files[r.file])
            THEN planned' = planned \cup {r} /\ UNCHANGED planner
            ELSE planner' = "bad file" /\ UNCHANGED planned
    /\ UNCHANGED <<generatorVars, files, manifest, window>>

Covers(records) == {Date(r) : r \in records} = window

Plan ==
    /\ planner = "reading" /\ pending = {}
    /\ planner' = IF Covers(planned) THEN "planned" ELSE "missing days"
    /\ UNCHANGED <<generatorVars, files, manifest, window, pending, planned>>

Next ==
    \/ \E first \in Days, limit \in TrackLimits : Generate(first, limit)
    \/ BeginWrite \/ EndWrite \/ Kill
    \/ \E first \in Days, last \in Days : first <= last /\ ReadManifest(first .. last)
    \/ ReadSnapshot \/ Plan

Spec == Init /\ [][Next]_vars

-----------------------------------------------------------------------------
\* Three days in a row, and a file that holds the snapshot of its date.
Consecutive(days) ==
    /\ DOMAIN days = 1 .. 3
    /\ \E first \in Days : \A d \in 1 .. 3 : days[d].date = first + d - 1

Dated(content, date) == content = Missing \/ content[1].date = date

\* The variables have their types, a snapshot is written only when it was drawn,
\* and a path names the date of what it holds.
TypeOK ==
    /\ csv \in Corpora /\ generation \in 0 .. MaxGenerations
    /\ step \in 0 .. 4 \cup 11 .. 14
    /\ step # 0 => generation # 0
    /\ generation # 0 => Consecutive(snapshots)
    /\ generation = 0 => snapshots = <<>>
    /\ DOMAIN files = Names /\ \A n \in Names : Dated(files[n], n[2])
    /\ IsFiniteSet(window)
    /\ planner \in {"idle", "reading", "planned", "no manifest", "bad file", "missing days"}

\* Each state of one generation has track_limit distinct tracks, every day that
\* follows another has new, retained and departed tracks, and one that departed
\* comes back: what the demonstration claims to show.
StatesShowChange ==
    snapshots # <<>> =>
      LET T(d) == ToSet(snapshots[d].tracks)
      IN  /\ \A d \in 1 .. 3 : /\ Len(snapshots[d].tracks) \in TrackLimits
                               /\ Cardinality(T(d)) = Len(snapshots[d].tracks)
                               /\ Len(snapshots[d].tracks) = Len(snapshots[1].tracks)
          /\ \A d \in 1 .. 2 : /\ T(d + 1) \ T(d) # {} /\ T(d) \ T(d + 1) # {}
                               /\ T(d) \cap T(d + 1) # {}
          /\ (T(3) \cap T(1)) \ T(2) # {}

\* A manifest that can be read lists snapshots that are complete and agree with
\* it, whenever the generator was killed.
ManifestIsLast ==
    manifest # Missing => \A r \in manifest[1] : files[r.file] = <<r.snapshot>>

\* A plan has one record for each day of its window, all of one generation, and
\* no later generation changes the bytes it was made of.
PlanIsStable ==
    planner = "planned" =>
      /\ {Date(r) : r \in planned} = window /\ Cardinality(planned) = Cardinality(window)
      /\ \A r \in planned : files[r.file] = <<r.snapshot>>
      /\ \A r, other \in planned : r.file[1] = other.file[1]

-----------------------------------------------------------------------------
(* The inductive invariant behind the last two.                             *)

Listed == IF manifest = Missing THEN {} ELSE manifest[1]

\* The record of a snapshot that was written and that no write will touch again.
Settled(r) ==
    /\ r.file \in Names /\ r.file[1] <= generation /\ (r.file[1] = generation => step = 0)
    /\ files[r.file] = <<r.snapshot>>

AllSettled == \A r \in Listed \cup pending \cup planned : Settled(r)

\* One record of a date, all of one generation.
OneGeneration(records) ==
    \A r, other \in records : r.file[1] = other.file[1] /\ (Date(r) = Date(other) => r = other)

\* A generation has written the days before its step.
DaysWritten ==
    step # 0 => \A d \in 1 .. 3 : d < (IF step > 10 THEN step - 10 ELSE step) =>
                  files[Record(d).file] = <<snapshots[d]>>

DemoInv ==
    /\ TypeOK /\ AllSettled /\ DaysWritten
    /\ OneGeneration(Listed) /\ OneGeneration(pending \cup planned)
    /\ planner = "planned" => Covers(planned)
=============================================================================
