---------------------------- MODULE SnapshotFact ----------------------------
(***************************************************************************)
(* The warehouse half of the pipeline for one playlist: Snowpipe loads the *)
(* observation row and the slot rows of physical runs into LANDING, and a  *)
(* dbt build over a window of dates turns them into                        *)
(*                                                                         *)
(*   stg_spotify_playlist_observations   the winning run of each date      *)
(*   stg_spotify_playlist_snapshots      that run's slots                  *)
(*   fact_playlist_snapshot              merged, then pruned               *)
(*   mart_playlist_changes, mart_playlist_trends                           *)
(*                                                                         *)
(* The two staging models are VIEWS: every statement that names them       *)
(* evaluates them again, over the LANDING of that moment.  So a build is   *)
(* one action per statement, and the loads interleave with them when       *)
(* LateLoads is TRUE.  Airflow runs one build at a time.                   *)
(***************************************************************************)
EXTENDS Integers, FiniteSets, Functions

CONSTANTS
  Runs,        \* physical pipeline runs of the playlist
  NoRun,       \* no row, no run
  Positions,   \* track positions
  Tracks,
  LastDate,    \* dates are 1 .. LastDate, one day apart
  DateOf,      \* [Runs -> Dates]                     snapshot_date
  Stamp,       \* [Runs -> Int]                       snapshot_timestamp
  SlotsOf,     \* run -> (positions of valid items -> tracks)
  LateLoads    \* may LANDING change while a build runs?

Dates == 1 .. LastDate

Windows == {f .. l : f, l \in Dates} \ {{}}

ASSUME SnapshotAssumption ==
  /\ NoRun \notin Runs
  /\ IsFiniteSet(Runs) /\ IsFiniteSet(Positions)
  /\ LastDate \in Nat \ {0}
  /\ DateOf \in [Runs -> Dates]
  /\ Stamp \in [Runs -> Int]
  /\ \A r \in Runs : /\ DOMAIN SlotsOf[r] \subseteq Positions
                     /\ SlotsOf[r] \in [DOMAIN SlotsOf[r] -> Tracks]
  /\ LateLoads \in BOOLEAN

VARIABLES
  loadedAt,   \* LANDING_PLAYLIST_OBSERVATIONS: load order of a run's row, 0 if absent
  landed,     \* LANDING_PLAYLIST_SNAPSHOTS: positions of a run that have landed
  exists,     \* has the fact table been created?
  fact,       \* date -> position -> run whose row is stored, or NoRun
  changes,    \* mart_playlist_changes, by observed date
  trends,     \* mart_playlist_trends, by observed date
  phase,      \* last statement of the build that has run, "idle" between builds
  window,     \* dates the build was given (start_date .. end_date)
  incremental,\* is_incremental() of this build
  pruned      \* auxiliary: dates whose last covering build reached its prune

landing == <<loadedAt, landed>>
marts   == <<changes, trends>>
build   == <<phase, window, incremental>>
vars    == <<landing, exists, fact, marts, build, pruned>>

Blank == [p \in Positions |-> NoRun]

Init ==
  /\ loadedAt = [r \in Runs |-> 0]
  /\ landed = [r \in Runs |-> {}]
  /\ exists = FALSE
  /\ fact = [d \in Dates |-> Blank]
  /\ changes = << >>
  /\ trends = << >>
  /\ phase = "idle"
  /\ window = {}
  /\ incremental = FALSE
  /\ pruned = {}

-----------------------------------------------------------------------------
(* LANDING: six independent pipes; the two that matter here.               *)

MayLoad == LateLoads \/ phase = "idle"

Loaded == {r \in Runs : loadedAt[r] # 0}

LoadObservation(r) ==
  /\ MayLoad
  /\ loadedAt[r] = 0
  /\ loadedAt' = [loadedAt EXCEPT ![r] = 1 + Cardinality(Loaded)]
  /\ UNCHANGED <<landed, exists, fact, marts, build, pruned>>

\* One Parquet file of the run, with some of its remaining slots.
LoadSlots(r) ==
  /\ MayLoad
  /\ \E file \in SUBSET (DOMAIN SlotsOf[r] \ landed[r]) :
       /\ file # {}
       /\ landed' = [landed EXCEPT ![r] = @ \cup file]
  /\ UNCHANGED <<loadedAt, exists, fact, marts, build, pruned>>

-----------------------------------------------------------------------------
(* The staging views, as they read LANDING now.                            *)

\* Mutant: an observation counts as soon as its row has landed.
CompleteOnArrival(r) == loadedAt[r] # 0

\* complete_runs: the landed slots match the observation's valid_track_count.
Complete(r) ==
  /\ loadedAt[r] # 0
  /\ Cardinality(landed[r]) = Cardinality(DOMAIN SlotsOf[r])

\* Mutant: the newest load wins, whatever snapshot it carries.
BeatsByLoad(r, q) == loadedAt[r] > loadedAt[q]

\* The order of the qualify: newest snapshot, then newest load.
Beats(r, q) ==
  \/ Stamp[r] > Stamp[q]
  \/ Stamp[r] = Stamp[q] /\ loadedAt[r] > loadedAt[q]

\* Mutant: the runs of a playlist are not told apart by date.
WinsAnyDate(d, r) == Complete(r) /\ \A q \in Runs \ {r} : Complete(q) => Beats(r, q)

Wins(d, r) ==
  /\ DateOf[r] = d
  /\ Complete(r)
  /\ \A q \in Runs \ {r} : DateOf[q] = d /\ Complete(q) => Beats(r, q)

Winner(d) == IF \E r \in Runs : Wins(d, r) THEN CHOOSE r \in Runs : Wins(d, r) ELSE NoRun

\* The observation spine: the dates with a row in the first view.
Observed == {d \in Dates : Winner(d) # NoRun}

\* Positions of the second view: the winner's landed slots, and no others.
Slots(d) == IF Winner(d) = NoRun THEN {} ELSE landed[Winner(d)]

-----------------------------------------------------------------------------
(* The build, statement by statement.                                      *)

\* The MERGE: rows of the window are inserted or overwritten by position.
Merge(w) ==
  /\ phase = "idle"
  /\ fact' = [d \in Dates |-> [p \in Positions |->
                IF d \in w /\ p \in Slots(d) THEN Winner(d) ELSE fact[d][p]]]
  /\ incremental' = exists
  /\ exists' = TRUE
  /\ window' = w
  /\ phase' = "merged"
  /\ pruned' = pruned \ w
  /\ UNCHANGED <<landing, marts>>

\* Mutant: the post-hook deletes nothing.
ObsoleteNever(d, p) == FALSE

\* A row the post-hook deletes: in the window, its date observed, its slot
\* gone from the view.
Obsolete(d, p) == incremental /\ d \in window /\ d \in Observed /\ p \notin Slots(d)

Prune ==
  /\ phase = "merged"
  /\ fact' = [d \in Dates |-> [p \in Positions |->
                IF Obsolete(d, p) THEN NoRun ELSE fact[d][p]]]
  /\ pruned' = pruned \cup window
  /\ phase' = "pruned"
  /\ UNCHANGED <<landing, exists, marts, window, incremental>>

\* Distinct tracks of a date in the fact; none outside the calendar.
TracksIn(d) ==
  IF d \in Dates THEN {SlotsOf[fact[d][p]][p] : p \in {q \in Positions : fact[d][q] # NoRun}}
                 ELSE {}

\* Mutant: the spine of the mart is cut to the window of the build.
YesterdayInWindow(d) == IF (d - 1) \in Observed \cap window THEN TracksIn(d - 1) ELSE {}

\* Yesterday's tracks count only when yesterday was observed.
Yesterday(d) == IF (d - 1) \in Observed THEN TracksIn(d - 1) ELSE {}

\* Mutant: a track on the playlist twice is two rows of its history.
StreakOfRows(d, t) ==
  Cardinality({r \in (1 .. d) \X Positions :
    /\ fact[r[1]][r[2]] # NoRun /\ SlotsOf[fact[r[1]][r[2]]][r[2]] = t
    /\ \A k \in r[1] .. d : t \in TracksIn(k)})

\* consecutive_days_retained: days in a row up to d with the track in the fact.
Streak(d, t) == Cardinality({b \in 1 .. d : \A k \in b .. d : t \in TracksIn(k)})

ChangesOf(d) ==
  [new      |-> TracksIn(d) \ Yesterday(d),
   retained |-> TracksIn(d) \cap Yesterday(d),
   exited   |-> Yesterday(d) \ TracksIn(d),
   streak   |-> [t \in TracksIn(d) |-> Streak(d, t)]]

BuildChanges ==
  /\ phase = "pruned"
  /\ changes' = [d \in Observed |-> ChangesOf(d)]
  /\ phase' = "changed"
  /\ UNCHANGED <<landing, exists, fact, trends, window, incremental, pruned>>

\* Rows of one kind in mart_playlist_changes, as trends counts them.
Counted(d, kind) == IF d \in DOMAIN changes THEN Cardinality(changes[d][kind]) ELSE 0

TrendOf(d) ==
  [total    |-> Cardinality({p \in Positions : fact[d][p] # NoRun}),
   distinct |-> Cardinality(TracksIn(d)),
   compared |-> (d - 1) \in Observed,      \* otherwise new and exited are NULL
   new      |-> Counted(d, "new"),
   exited   |-> Counted(d, "exited")]

BuildTrends ==
  /\ phase = "changed"
  /\ trends' = [d \in Observed |-> TrendOf(d)]
  /\ phase' = "built"
  /\ UNCHANGED <<landing, exists, fact, changes, window, incremental, pruned>>

\* The singular tests on the marts that compare them with the views and the fact.
TestsPass ==
  /\ Observed \subseteq DOMAIN trends
  /\ \A d \in DOMAIN changes :
       /\ changes[d].retained \subseteq TracksIn(d - 1) \cap TracksIn(d)
       /\ changes[d].new \cap TracksIn(d - 1) = {}
       /\ changes[d].exited \subseteq TracksIn(d - 1) \ TracksIn(d)

Finish ==
  /\ phase = "built"
  /\ TestsPass
  /\ phase' = "idle"
  /\ UNCHANGED <<landing, exists, fact, marts, window, incremental, pruned>>

\* A statement or a test fails: what ran before it stays.
Fail ==
  /\ phase # "idle"
  /\ phase' = "idle"
  /\ UNCHANGED <<landing, exists, fact, marts, window, incremental, pruned>>

-----------------------------------------------------------------------------

Next ==
  \/ \E r \in Runs : LoadObservation(r) \/ LoadSlots(r)
  \/ \E w \in Windows : Merge(w)
  \/ Prune
  \/ BuildChanges
  \/ BuildTrends
  \/ Finish
  \/ Fail

Spec == Init /\ [][Next]_vars

-----------------------------------------------------------------------------
(* The inductive invariant behind the safety properties, in named parts.   *)

TypeOK ==
  /\ loadedAt \in [Runs -> 0 .. Cardinality(Runs)]
  /\ \A r \in Runs : landed[r] \subseteq DOMAIN SlotsOf[r]
  /\ exists \in BOOLEAN
  /\ fact \in [Dates -> [Positions -> Runs \cup {NoRun}]]
  /\ \A d \in Dates, p \in Positions :
       fact[d][p] # NoRun => DateOf[fact[d][p]] = d /\ p \in DOMAIN SlotsOf[fact[d][p]]
  /\ DOMAIN changes \subseteq Dates /\ DOMAIN trends \subseteq Dates
  /\ phase \in {"idle", "merged", "pruned", "changed", "built"}
  /\ window \in {{}} \cup Windows
  /\ incremental \in BOOLEAN
  /\ pruned \subseteq Dates

\* Observations are loaded one after the other.
LoadOrder ==
  \A r \in Runs : /\ loadedAt[r] <= Cardinality(Loaded)
                  /\ \A q \in Runs \ {r} : loadedAt[r] # 0 => loadedAt[q] # loadedAt[r]

\* Only complete runs of their own date are ever stored.
StoredComplete ==
  \A d \in Dates, p \in Positions : fact[d][p] # NoRun => exists /\ Complete(fact[d][p])

\* All the slots of run r, and nothing else.
Image(r) == [p \in Positions |-> IF p \in DOMAIN SlotsOf[r] THEN r ELSE NoRun]

\* One run's slots, or none at all.
Coherent(d) == fact[d] = Blank \/ \E r \in Runs : DateOf[r] = d /\ fact[d] = Image(r)

Covered == window \cap Observed

\* How far the build has brought the dates it covers, while LANDING is still.
Merged ==
  phase = "merged" => \A d \in Covered, p \in Positions :
    /\ p \in Slots(d) => fact[d][p] = Winner(d)
    /\ p \notin Slots(d) /\ ~incremental => fact[d][p] = NoRun

Settled ==
  phase \in {"pruned", "changed", "built"} => \A d \in Covered : fact[d] = Image(Winner(d))

Compared ==
  phase \in {"changed", "built"} => \A d \in Covered : (d - 1) \in Covered =>
    /\ changes[d].new    = TracksIn(d) \ TracksIn(d - 1)
    /\ changes[d].exited = TracksIn(d - 1) \ TracksIn(d)

\* The marts of a build are the fact's, as long as it lasts.
Reported ==
  /\ phase \in {"changed", "built"} => changes = [d \in Observed |-> ChangesOf(d)]
  /\ phase = "built" => trends = [d \in Observed |-> TrendOf(d)]

-----------------------------------------------------------------------------
(* Properties.                                                             *)

\* A date whose last covering build got as far as its prune holds exactly one
\* run's slots: no retry's leftovers, no half-landed run, no mix of two.
CoherentDays == \A d \in pruned : Coherent(d)

\* The invariant that is proved inductive when LANDING is still.
StillInv == StoredComplete /\ CoherentDays /\ Merged /\ Settled /\ Compared

\* The same of the dates of a build that reports success.
PassedDaysCoherent == [][Finish => \A d \in window : Coherent(d)]_vars

\* A date's rows disappear altogether only when the run that wins the date saw
\* an empty playlist: neither a missing pipeline day nor an observation whose
\* slots are still on their way empties it.
EmptyIsObserved ==
  [][\A d \in Dates : fact[d] # Blank /\ fact'[d] = Blank =>
       \E r \in Runs : Wins(d, r) /\ DOMAIN SlotsOf[r] = {}]_vars

\* Replays and late files never take a slot back to an older snapshot.
NeverOlder ==
  [][\A d \in Dates, p \in Positions :
       fact[d][p] # NoRun /\ fact'[d][p] # NoRun => Stamp[fact'[d][p]] >= Stamp[fact[d][p]]]_vars

\* Tracks of the date's winning observation.
Seen(d) == {SlotsOf[Winner(d)][p] : p \in Slots(d)}

\* What a successful build says of two consecutive observed dates of its window
\* is the difference of their two winning observations.
WindowIsTrue ==
  [][Finish => \A d \in window \cap Observed : (d - 1) \in window \cap Observed =>
       /\ changes[d].new    = Seen(d) \ Seen(d - 1)
       /\ changes[d].exited = Seen(d - 1) \ Seen(d)]_vars

\* Day over day, the counts of mart_playlist_trends add up.
TrendsAddUp ==
  [][Finish => \A d \in DOMAIN trends : trends[d].compared =>
       trends[d].distinct = trends[d - 1].distinct + trends[d].new - trends[d].exited]_vars

\* A track is RETAINED exactly when its streak goes back to the day before.
RetainedIsStreak ==
  [][Finish => \A d \in DOMAIN changes : \A t \in DOMAIN changes[d].streak :
       t \in changes[d].retained <=> changes[d].streak[t] > 1]_vars

\* A track a successful build reports as EXITED is absent from that date's
\* winning observation.
ExitsAreObserved ==
  [][Finish => \A d \in DOMAIN changes : changes[d].exited \cap Seen(d) = {}]_vars

=============================================================================
