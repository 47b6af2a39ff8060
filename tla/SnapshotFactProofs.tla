------------------------- MODULE SnapshotFactProofs -------------------------
(***************************************************************************)
(* Proofs about SnapshotFact, for every set of runs, dates, positions,     *)
(* tracks and slots.                                                       *)
(*                                                                         *)
(* TypeOK, LoadOrder and StoredComplete hold however the loads interleave  *)
(* with a build, and give NeverOlder.  When LANDING is still while a build *)
(* runs (LateLoads = FALSE), Merged, Settled and Compared follow a date    *)
(* through the statements of a build, and give the other properties.       *)
(***************************************************************************)
EXTENDS SnapshotFact, FiniteSetTheorems, FunctionTheorems, WellFoundedInduction, TLAPS

-----------------------------------------------------------------------------
(* The staging views.                                                      *)

\* Slots(d) and Winner(d) name a run of the date that is complete, or nothing.
LEMMA WinnerIs ==
  ASSUME NEW d \in Dates
  PROVE  /\ Winner(d) \in Runs \cup {NoRun}
         /\ Winner(d) # NoRun => Winner(d) \in Runs /\ Wins(d, Winner(d))
         /\ (\E r \in Runs : Wins(d, r)) => Winner(d) # NoRun
BY SnapshotAssumption DEF Winner

\* The landed positions are all there when their number is right.
LEMMA CompleteIs ==
  ASSUME TypeOK, NEW r \in Runs
  PROVE  Complete(r) <=> loadedAt[r] # 0 /\ landed[r] = DOMAIN SlotsOf[r]
<1>1. IsFiniteSet(DOMAIN SlotsOf[r])
  BY SnapshotAssumption, FS_Subset
<1>2. landed[r] \in SUBSET (DOMAIN SlotsOf[r])
  BY DEF TypeOK
<1>3. Cardinality(DOMAIN SlotsOf[r]) = Cardinality(landed[r]) => DOMAIN SlotsOf[r] = landed[r]
  BY <1>1, <1>2, FS_Subset
<1>. QED
  BY <1>3 DEF Complete

\* A date with a complete run has a winner: among the complete runs, take one
\* that the fewest others beat.
LEMMA WinnerExists ==
  ASSUME TypeOK, LoadOrder, NEW d \in Dates, NEW r \in Runs, DateOf[r] = d, Complete(r)
  PROVE  Winner(d) # NoRun
<1> DEFINE C == {q \in Runs : DateOf[q] = d /\ Complete(q)}
           Above(q) == {x \in C : Beats(x, q)}
           T == {Above(q) : q \in C}
<1>1. \A q \in Runs : loadedAt[q] \in Int /\ Stamp[q] \in Int
  <2>1. Cardinality(Runs) \in Nat
    BY SnapshotAssumption, FS_CardinalityType
  <2>. QED
    BY <2>1, SnapshotAssumption DEF TypeOK
<1>2. T \subseteq FiniteSubsetsOf(Runs)
  <2> SUFFICES ASSUME NEW q \in C PROVE Above(q) \in SUBSET Runs /\ IsFiniteSet(Above(q))
    BY DEF FiniteSubsetsOf
  <2>1. Above(q) \in SUBSET Runs
    OBVIOUS
  <2>. QED
    BY <2>1, SnapshotAssumption, FS_Subset
<1>3. T # {}
  BY r \in C
<1>4. PICK q \in C : \A x \in C : <<Above(x), Above(q)>> \notin StrictSubsetOrdering(Runs)
  <2>1. IsWellFoundedOn(StrictSubsetOrdering(Runs), FiniteSubsetsOf(Runs))
    BY FS_StrictSubsetOrderingWellFounded
  <2> HIDE DEF T
  <2>2. PICK m \in T : \A y \in T : ~(<<y, m>> \in StrictSubsetOrdering(Runs))
    BY <1>2, <1>3, <2>1, WFMin
  <2>. QED
    BY <2>2 DEF T
<1>5. ASSUME NEW x \in C, x # q PROVE Beats(q, x)
  <2> SUFFICES ASSUME ~Beats(q, x) PROVE FALSE
    OBVIOUS
  <2>1. loadedAt[x] # loadedAt[q] /\ loadedAt[x] # 0 /\ loadedAt[q] # 0
    BY <1>5 DEF LoadOrder, Complete
  <2>2. Beats(x, q)
    BY <1>1, <2>1 DEF Beats
  <2>3. \A y \in C : Beats(y, x) => Beats(y, q)
    BY <1>1, <2>2 DEF Beats
  <2>4. x \in Above(q) /\ x \notin Above(x)
    BY <1>1, <2>2 DEF Beats
  <2>5. Above(x) \subseteq Above(q) /\ Above(x) # Above(q)
    BY <2>3, <2>4
  <2>6. Above(x) \in SUBSET Runs /\ Above(q) \in SUBSET Runs
    OBVIOUS
  <2>7. <<Above(x), Above(q)>> \in StrictSubsetOrdering(Runs)
    BY <2>5, <2>6 DEF StrictSubsetOrdering
  <2>. QED
    BY <1>4, <2>7
<1>6. Wins(d, q)
  BY <1>5 DEF Wins
<1>. QED
  BY <1>6, WinnerIs

\* What a statement reads of the views while LANDING does not change.
LEMMA ViewsStill ==
  ASSUME UNCHANGED landing
  PROVE  /\ \A r \in Runs : Complete(r)' <=> Complete(r)
         /\ \A d \in Dates : /\ Winner(d)' = Winner(d) /\ Slots(d)' = Slots(d)
         /\ Observed' = Observed
<1>1. loadedAt' = loadedAt /\ landed' = landed
  BY DEF landing
<1>2. \A r \in Runs : Complete(r)' <=> Complete(r)
  BY <1>1 DEF Complete
<1>3. \A d \in Dates, r \in Runs : Wins(d, r)' <=> Wins(d, r)
  BY <1>1, <1>2 DEF Wins, Beats
<1>4. \A d \in Dates : Winner(d)' = Winner(d)
  BY <1>1 DEF Winner, Wins, Beats, Complete
<1>. QED
  BY <1>1, <1>2, <1>4 DEF Slots, Observed

-----------------------------------------------------------------------------
(* Types and loads.                                                        *)

\* There are finitely many loads, at most one per run.
LEMMA LoadedFinite ==
  /\ Cardinality(Runs) \in Nat
  /\ IsFiniteSet(Loaded) /\ Cardinality(Loaded) \in Nat /\ Cardinality(Loaded) <= Cardinality(Runs)
  /\ Loaded # Runs => Cardinality(Loaded) < Cardinality(Runs)
<1>1. Loaded \in SUBSET Runs
  BY DEF Loaded
<1>2. IsFiniteSet(Runs)
  BY SnapshotAssumption
<1>3. /\ IsFiniteSet(Loaded) /\ Cardinality(Loaded) <= Cardinality(Runs)
      /\ Cardinality(Runs) = Cardinality(Loaded) => Runs = Loaded
  BY <1>1, <1>2, FS_Subset
<1>4. Cardinality(Runs) \in Nat /\ Cardinality(Loaded) \in Nat
  BY <1>2, <1>3, FS_CardinalityType
<1>. QED
  BY <1>3, <1>4

\* A load puts its run after all the others.
LEMMA LoadStep ==
  ASSUME TypeOK, LoadOrder, NEW r \in Runs, LoadObservation(r)
  PROVE  /\ loadedAt' \in [Runs -> 0 .. Cardinality(Runs)]
         /\ LoadOrder'
<1>1. loadedAt \in [Runs -> 0 .. Cardinality(Runs)]
  BY DEF TypeOK
<1>2. loadedAt' = [loadedAt EXCEPT ![r] = 1 + Cardinality(Loaded)] /\ loadedAt[r] = 0
  BY DEF LoadObservation
<1>3. r \notin Loaded
  BY <1>2 DEF Loaded
<1>4. 1 + Cardinality(Loaded) \in 1 .. Cardinality(Runs)
  BY <1>3, LoadedFinite
<1>5. loadedAt' \in [Runs -> 0 .. Cardinality(Runs)]
  BY <1>1, <1>2, <1>4, LoadedFinite
<1>6. Loaded' = Loaded \cup {r}
  BY <1>1, <1>2, <1>4, LoadedFinite DEF Loaded
<1>7. Cardinality(Loaded') = 1 + Cardinality(Loaded)
  <2>1. IsFiniteSet(Loaded)
    BY LoadedFinite
  <2>2. Cardinality(Loaded \cup {r}) = Cardinality(Loaded) + 1
    BY <1>3, <2>1, FS_AddElement
  <2>. QED
    BY <1>6, <2>2, LoadedFinite
<1>8. LoadOrder'
  <2> SUFFICES ASSUME NEW x \in Runs
               PROVE  /\ loadedAt'[x] <= Cardinality(Loaded')
                      /\ \A q \in Runs \ {x} : loadedAt'[x] # 0 => loadedAt'[q] # loadedAt'[x]
    BY DEF LoadOrder
  <2>1. \A q \in Runs : loadedAt[q] \in Nat /\ loadedAt[q] <= Cardinality(Loaded)
    BY <1>1, LoadedFinite DEF LoadOrder
  <2>2. \A q \in Runs : loadedAt'[q] = IF q = r THEN 1 + Cardinality(Loaded) ELSE loadedAt[q]
    BY <1>1, <1>2
  <2>3. loadedAt'[x] <= Cardinality(Loaded')
    BY <1>7, <2>1, <2>2, LoadedFinite
  <2>4. \A q \in Runs \ {x} : loadedAt'[x] # 0 => loadedAt'[q] # loadedAt'[x]
    BY <1>2, <2>1, <2>2, LoadedFinite DEF LoadOrder
  <2>. QED
    BY <2>3, <2>4
<1>. QED
  BY <1>5, <1>8

\* Once complete, a run stays complete.
LEMMA CompleteStable ==
  ASSUME TypeOK, TypeOK', LoadOrder, [Next]_vars, NEW r \in Runs, Complete(r)
  PROVE  Complete(r)'
<1>1. loadedAt[r] # 0 /\ landed[r] = DOMAIN SlotsOf[r]
  BY CompleteIs
<1>2. loadedAt'[r] = loadedAt[r] /\ landed[r] \subseteq landed'[r]
  <2>1. CASE \E q \in Runs : LoadObservation(q)
    BY <1>1, <2>1 DEF LoadObservation, TypeOK
  <2>2. CASE \E q \in Runs : LoadSlots(q)
    BY <2>2 DEF LoadSlots, TypeOK
  <2>3. CASE UNCHANGED landing
    BY <2>3 DEF landing
  <2>. QED
    BY <2>1, <2>2, <2>3 DEF Next, Merge, Prune, BuildChanges, BuildTrends, Finish, Fail, vars
<1>3. landed'[r] \subseteq DOMAIN SlotsOf[r]
  BY DEF TypeOK
<1>4. landed'[r] = landed[r]
  BY <1>1, <1>2, <1>3
<1>. QED
  BY <1>2, <1>4 DEF Complete

\* The positions of a date's slots belong to its winner.
LEMMA SlotsAre ==
  ASSUME TypeOK, NEW d \in Dates
  PROVE  /\ Winner(d) # NoRun => /\ Winner(d) \in Runs /\ DateOf[Winner(d)] = d /\ Complete(Winner(d))
                                 /\ Slots(d) = DOMAIN SlotsOf[Winner(d)]
         /\ Winner(d) = NoRun => Slots(d) = {}
BY WinnerIs, CompleteIs DEF Slots, Wins

\* Every step keeps the types and the order of the loads.
LEMMA TypeStep == TypeOK /\ LoadOrder /\ [Next]_vars => TypeOK' /\ LoadOrder'
<1> SUFFICES ASSUME TypeOK, LoadOrder, [Next]_vars PROVE TypeOK' /\ LoadOrder'
  OBVIOUS
<1> USE SnapshotAssumption
<1>1. ASSUME NEW r \in Runs, LoadObservation(r) PROVE TypeOK' /\ LoadOrder'
  <2>1. TypeOK'
    BY <1>1, LoadStep DEF TypeOK, LoadObservation, marts, build
  <2>. QED
    BY <1>1, <2>1, LoadStep
<1>2. ASSUME UNCHANGED loadedAt PROVE LoadOrder'
  BY <1>2 DEF LoadOrder, Loaded
<1>3. ASSUME NEW r \in Runs, LoadSlots(r) PROVE TypeOK' /\ UNCHANGED loadedAt
  BY <1>3 DEF TypeOK, LoadSlots, marts, build
<1>4. ASSUME NEW w \in Windows, Merge(w) PROVE TypeOK' /\ UNCHANGED loadedAt
  <2> USE <1>4 DEF Merge, landing, marts
  <2>1. \A d \in Dates : Winner(d) \in Runs \cup {NoRun}
    BY WinnerIs
  <2>2. fact' \in [Dates -> [Positions -> Runs \cup {NoRun}]]
    BY <2>1 DEF TypeOK
  <2>3. \A d \in Dates, p \in Positions :
          fact'[d][p] # NoRun => DateOf[fact'[d][p]] = d /\ p \in DOMAIN SlotsOf[fact'[d][p]]
    <3> TAKE d \in Dates, p \in Positions
    <3>1. fact'[d][p] = IF d \in w /\ p \in Slots(d) THEN Winner(d) ELSE fact[d][p]
      OBVIOUS
    <3>2. p \in Slots(d) => DateOf[Winner(d)] = d /\ p \in DOMAIN SlotsOf[Winner(d)]
      BY SlotsAre
    <3>. QED
      BY <3>1, <3>2 DEF TypeOK
  <2>. QED
    BY <2>2, <2>3 DEF TypeOK
<1>5. ASSUME Prune PROVE TypeOK' /\ UNCHANGED loadedAt
  <2> USE <1>5 DEF Prune, landing, marts
  <2>1. fact' \in [Dates -> [Positions -> Runs \cup {NoRun}]]
    BY DEF TypeOK
  <2>2. \A d \in Dates, p \in Positions : fact'[d][p] \in {NoRun, fact[d][p]}
    OBVIOUS
  <2>3. window \subseteq Dates
    BY DEF TypeOK, Windows, Dates
  <2>. QED
    BY <2>1, <2>2, <2>3 DEF TypeOK
<1>6. ASSUME BuildChanges \/ BuildTrends PROVE TypeOK' /\ UNCHANGED loadedAt
  BY <1>6 DEF TypeOK, BuildChanges, BuildTrends, landing, Observed
<1>7. ASSUME Finish \/ Fail \/ UNCHANGED vars PROVE TypeOK' /\ UNCHANGED loadedAt
  BY <1>7 DEF TypeOK, Finish, Fail, vars, landing, marts, build
<1>. QED
  BY <1>1, <1>2, <1>3, <1>4, <1>5, <1>6, <1>7 DEF Next

\* Every step keeps the stored runs complete: a merge stores winners, a load
\* never makes a complete run incomplete.
LEMMA StoredStep ==
  TypeOK /\ TypeOK' /\ LoadOrder /\ StoredComplete /\ [Next]_vars => StoredComplete'
<1> SUFFICES ASSUME TypeOK, TypeOK', LoadOrder, StoredComplete, [Next]_vars PROVE StoredComplete'
  OBVIOUS
<1>t. \A d \in Dates, p \in Positions : fact'[d][p] \in Runs \cup {NoRun}
  <2>1. fact' \in [Dates -> [Positions -> Runs \cup {NoRun}]]
    BY DEF TypeOK
  <2>. QED
    BY <2>1
<1> SUFFICES ASSUME NEW d \in Dates, NEW p \in Positions, NEW r \in Runs, fact'[d][p] = r
             PROVE  exists' /\ Complete(r)'
  BY <1>t DEF StoredComplete
<1>0. r # NoRun
  BY SnapshotAssumption
<1>1. fact[d][p] = r => exists /\ Complete(r)'
  BY <1>0, CompleteStable DEF StoredComplete
<1>2. CASE \E w \in Windows : Merge(w)
  <2>1. exists' /\ fact'[d][p] \in {Winner(d), fact[d][p]}
    BY <1>2 DEF Merge
  <2>2. Winner(d) = r => Complete(r)'
    BY <1>0, SlotsAre, CompleteStable
  <2>. QED
    BY <1>1, <2>1, <2>2
<1>3. CASE Prune
  BY <1>0, <1>1, <1>3 DEF Prune
<1>4. CASE UNCHANGED <<fact, exists>>
  BY <1>1, <1>4
<1>. QED
  BY <1>2, <1>3, <1>4 DEF Next, LoadObservation, LoadSlots, BuildChanges, BuildTrends, Finish, Fail,
                         vars

\* Empty tables satisfy all three.
LEMMA InitInv == Init => TypeOK /\ LoadOrder /\ StoredComplete
<1> SUFFICES ASSUME Init PROVE TypeOK /\ LoadOrder /\ StoredComplete
  OBVIOUS
<1> USE SnapshotAssumption DEF Init, Blank
<1>1. TypeOK
  <2>1. loadedAt \in [Runs -> 0 .. Cardinality(Runs)]
    BY LoadedFinite
  <2>2. fact \in [Dates -> [Positions -> Runs \cup {NoRun}]]
    OBVIOUS
  <2>3. \A d \in Dates, p \in Positions : fact[d][p] = NoRun
    OBVIOUS
  <2>4. DOMAIN changes = {} /\ DOMAIN trends = {}
    OBVIOUS
  <2>5. \A r \in Runs : landed[r] \subseteq DOMAIN SlotsOf[r]
    OBVIOUS
  <2>. QED
    BY <2>1, <2>2, <2>3, <2>4, <2>5 DEF TypeOK
<1>2. LoadOrder
  BY LoadedFinite DEF LoadOrder
<1>3. StoredComplete
  BY DEF StoredComplete
<1>. QED
  BY <1>1, <1>2, <1>3

\* Whatever the loads do, the types hold, loads are ordered, and only complete
\* runs are stored.
THEOREM StoredInvariant == Spec => [](TypeOK /\ LoadOrder /\ StoredComplete)
<1>1. TypeOK /\ LoadOrder /\ StoredComplete /\ [Next]_vars
        => TypeOK' /\ LoadOrder' /\ StoredComplete'
  BY TypeStep, StoredStep
<1>. QED
  BY InitInv, <1>1, PTL DEF Spec

\* Every variable of the warehouse keeps its type; a stored row is a slot of a
\* run of its own date.
THEOREM TypesHold == Spec => []TypeOK
BY StoredInvariant, PTL

\* The winner of a date is at least as recent as any complete run of it.
LEMMA WinnerIsNewest ==
  ASSUME NEW d \in Dates, Winner(d) # NoRun,
         NEW q \in Runs, DateOf[q] = d, Complete(q)
  PROVE  Stamp[Winner(d)] >= Stamp[q]
<1>1. Winner(d) \in Runs /\ Wins(d, Winner(d))
  BY WinnerIs
<1>2. Stamp[q] \in Int /\ Stamp[Winner(d)] \in Int
  BY <1>1, SnapshotAssumption
<1>3. Winner(d) = q \/ Beats(Winner(d), q)
  BY <1>1 DEF Wins
<1>. QED
  BY <1>2, <1>3 DEF Beats

\* Replays and late files never take a stored slot back to an older snapshot,
\* however the loads interleave with the build.
THEOREM SlotsNeverOlder == Spec => NeverOlder
<1> DEFINE Newer == \A d \in Dates, p \in Positions :
              fact[d][p] # NoRun /\ fact'[d][p] # NoRun => Stamp[fact'[d][p]] >= Stamp[fact[d][p]]
<1>1. TypeOK /\ StoredComplete /\ [Next]_vars => Newer
  <2> SUFFICES ASSUME TypeOK, StoredComplete, [Next]_vars, NEW d \in Dates, NEW p \in Positions,
                      fact[d][p] # NoRun, fact'[d][p] # NoRun
               PROVE  Stamp[fact'[d][p]] >= Stamp[fact[d][p]]
    OBVIOUS
  <2>1. fact[d][p] \in Runs /\ DateOf[fact[d][p]] = d /\ Complete(fact[d][p])
    BY DEF TypeOK, StoredComplete
  <2>2. Stamp[fact[d][p]] >= Stamp[fact[d][p]]
    BY <2>1, SnapshotAssumption
  <2>3. CASE \E w \in Windows : Merge(w)
    <3>1. fact'[d][p] \in {fact[d][p], Winner(d)}
      BY <2>3 DEF Merge
    <3>. QED
      BY <2>1, <2>2, <3>1, WinnerIsNewest
  <2>4. CASE Prune
    BY <2>2, <2>4 DEF Prune
  <2>5. CASE UNCHANGED fact
    BY <2>2, <2>5
  <2>. QED
    BY <2>3, <2>4, <2>5 DEF Next, LoadObservation, LoadSlots, BuildChanges, BuildTrends, Finish,
                           Fail, vars
<1>2. TypeOK /\ StoredComplete /\ [Next]_vars => [Newer]_vars
  BY <1>1
<1>. QED
  BY <1>2, StoredInvariant, PTL DEF Spec, NeverOlder

-----------------------------------------------------------------------------
(* Builds over a LANDING that is still.                                    *)

\* The fact row by row.
LEMMA FactIs ==
  ASSUME TypeOK, NEW d \in Dates
  PROVE  /\ fact[d] = [p \in Positions |-> fact[d][p]]
         /\ \A p \in Positions : fact[d][p] \in Runs \cup {NoRun}
BY DEF TypeOK

\* A date nobody wins has no rows in the fact.
LEMMA UnobservedIsBlank ==
  ASSUME TypeOK, LoadOrder, StoredComplete, NEW d \in Dates, Winner(d) = NoRun
  PROVE  fact[d] = Blank
<1>1. ASSUME NEW p \in Positions PROVE fact[d][p] = NoRun
  <2> SUFFICES ASSUME fact[d][p] # NoRun PROVE FALSE
    OBVIOUS
  <2>1. fact[d][p] \in Runs /\ DateOf[fact[d][p]] = d
    BY FactIs DEF TypeOK
  <2>2. Complete(fact[d][p])
    BY DEF StoredComplete
  <2>. QED
    BY <2>1, <2>2, WinnerExists
<1>. QED
  BY <1>1, FactIs DEF Blank

\* The statements that leave LANDING alone leave the covered dates alone too.
LEMMA CoveredStill ==
  ASSUME UNCHANGED <<landing, window>>
  PROVE  Covered' = Covered
BY ViewsStill DEF Covered

\* With LANDING still, the loads happen between builds.
LEMMA LoadsStill ==
  ASSUME LateLoads = FALSE, StillInv, NEW r \in Runs, LoadObservation(r) \/ LoadSlots(r)
  PROVE  CoherentDays' /\ Merged' /\ Settled' /\ Compared'
<1>1. phase' = "idle" /\ UNCHANGED <<fact, pruned>>
  BY DEF LoadObservation, LoadSlots, MayLoad, build
<1>2. CoherentDays'
  BY <1>1 DEF StillInv, CoherentDays, Coherent
<1>. QED
  BY <1>1, <1>2 DEF Merged, Settled, Compared

\* After the MERGE the observed dates of the window hold their winner's slots,
\* with leftovers only where the table already existed.
LEMMA MergeStill ==
  ASSUME TypeOK, TypeOK', LoadOrder, StillInv, NEW w \in Windows, Merge(w)
  PROVE  CoherentDays' /\ Merged' /\ Settled' /\ Compared'
<1>1. /\ phase' = "merged" /\ window' = w /\ incremental' = exists /\ pruned' = pruned \ w
      /\ UNCHANGED landing
  BY DEF Merge
<1>2. \A d \in Dates, p \in Positions :
        fact'[d][p] = IF d \in w /\ p \in Slots(d) THEN Winner(d) ELSE fact[d][p]
  BY DEF Merge
<1>3. CoherentDays'
  <2> SUFFICES ASSUME NEW d \in pruned \ w PROVE fact'[d] = fact[d]
    BY <1>1 DEF StillInv, CoherentDays, Coherent
  <2>1. d \in Dates
    BY DEF TypeOK
  <2>2. fact'[d] = [p \in Positions |-> fact[d][p]]
    BY <2>1 DEF Merge
  <2>. QED
    BY <2>1, <2>2, FactIs
<1>4. Merged'
  <2> SUFFICES ASSUME NEW d \in Covered', NEW p \in Positions
               PROVE  /\ p \in Slots(d)' => fact'[d][p] = Winner(d)'
                      /\ p \notin Slots(d)' /\ ~exists => fact'[d][p] = NoRun
    BY <1>1 DEF Merged
  <2>1. d \in w /\ d \in Dates
    BY <1>1 DEF Covered, Observed
  <2>2. Slots(d)' = Slots(d) /\ Winner(d)' = Winner(d)
    BY <1>1, <2>1, ViewsStill
  <2>3. ~exists => fact[d][p] = NoRun
    BY <2>1 DEF StillInv, StoredComplete
  <2>. QED
    BY <1>2, <2>1, <2>2, <2>3
<1>. QED
  BY <1>1, <1>3, <1>4 DEF Settled, Compared

\* The post-hook removes the leftovers, and only them.
LEMMA PruneStill ==
  ASSUME TypeOK, TypeOK', LoadOrder, StillInv, Prune
  PROVE  CoherentDays' /\ Merged' /\ Settled' /\ Compared'
<1>1. /\ phase = "merged" /\ phase' = "pruned" /\ pruned' = pruned \cup window
      /\ UNCHANGED <<landing, window>>
  BY DEF Prune
<1>2. \A d \in Dates, p \in Positions :
        fact'[d][p] = IF Obsolete(d, p) THEN NoRun ELSE fact[d][p]
  BY DEF Prune
<1>3. ASSUME NEW d \in Covered PROVE fact'[d] = Image(Winner(d))
  <2>1. d \in window /\ d \in Observed /\ d \in Dates /\ Winner(d) # NoRun
    BY <1>3 DEF Covered, Observed
  <2>2. Slots(d) = DOMAIN SlotsOf[Winner(d)]
    BY <2>1, SlotsAre
  <2>3. ASSUME NEW p \in Positions
        PROVE  fact'[d][p] = IF p \in DOMAIN SlotsOf[Winner(d)] THEN Winner(d) ELSE NoRun
    BY <1>1, <1>2, <1>3, <2>1, <2>2 DEF StillInv, Merged, Obsolete
  <2>4. fact'[d] = [p \in Positions |-> fact'[d][p]]
    BY <2>1 DEF Prune
  <2>. QED
    BY <2>3, <2>4 DEF Image
<1>4. CoherentDays'
  <2> SUFFICES ASSUME NEW d \in pruned \cup window
               PROVE  fact'[d] = Blank \/ \E r \in Runs : DateOf[r] = d /\ fact'[d] = Image(r)
    BY <1>1 DEF CoherentDays, Coherent
  <2>0. d \in Dates
    <3>1. window \subseteq Dates
      BY SnapshotAssumption DEF TypeOK, Windows, Dates
    <3>. QED
      BY <3>1 DEF TypeOK
  <2>1. CASE d \in Covered
    <3>1. Winner(d) \in Runs /\ DateOf[Winner(d)] = d
      BY <2>0, <2>1, SlotsAre DEF Covered, Observed
    <3>. QED
      BY <1>3, <2>1, <3>1
  <2>2. CASE d \notin Covered
    <3>1. \A p \in Positions : fact'[d][p] = fact[d][p]
      BY <1>2, <2>0, <2>2 DEF Obsolete, Covered
    <3>2. fact'[d] = [p \in Positions |-> fact'[d][p]]
      BY <2>0 DEF Prune
    <3>3. fact'[d] = fact[d]
      BY <2>0, <3>1, <3>2, FactIs
    <3>4. CASE d \in pruned
      BY <3>3, <3>4 DEF StillInv, CoherentDays, Coherent
    <3>5. CASE d \in window
      <4>1. Winner(d) = NoRun
        BY <2>0, <2>2, <3>5 DEF Covered, Observed
      <4>. QED
        BY <2>0, <3>3, <4>1, UnobservedIsBlank DEF StillInv
    <3>. QED
      BY <3>4, <3>5
  <2>. QED
    BY <2>1, <2>2
<1>5. Settled'
  <2> SUFFICES ASSUME NEW d \in Covered' PROVE fact'[d] = Image(Winner(d)')
    BY DEF Settled, Image
  <2>1. d \in Covered /\ d \in Dates
    BY <1>1, CoveredStill DEF Covered, Observed
  <2>2. Winner(d)' = Winner(d)
    BY <1>1, <2>1, ViewsStill
  <2>. QED
    BY <1>3, <2>1, <2>2
<1>. QED
  BY <1>1, <1>4, <1>5 DEF Merged, Compared

\* The marts leave the fact alone; mart_playlist_changes compares the covered
\* dates as the fact has them.
LEMMA MartsStill ==
  ASSUME TypeOK, StillInv, BuildChanges \/ BuildTrends
  PROVE  CoherentDays' /\ Merged' /\ Settled' /\ Compared'
<1>1. /\ phase \in {"pruned", "changed"} /\ phase' \in {"changed", "built"}
      /\ UNCHANGED <<landing, window, fact, pruned>>
  BY DEF BuildChanges, BuildTrends
<1>2. Covered' = Covered /\ Covered \subseteq Dates
  BY <1>1, CoveredStill DEF Covered, Observed
<1>3. CoherentDays'
  BY <1>1 DEF StillInv, CoherentDays, Coherent
<1>4. Settled'
  <2> SUFFICES ASSUME NEW d \in Covered PROVE fact[d] = Image(Winner(d)')
    BY <1>1, <1>2 DEF Settled, Image
  <2>1. Winner(d)' = Winner(d)
    BY <1>1, <1>2, ViewsStill
  <2>. QED
    BY <1>1, <2>1 DEF StillInv, Settled
<1>5. Compared'
  <2> SUFFICES ASSUME NEW d \in Covered, (d - 1) \in Covered
               PROVE  /\ changes'[d].new    = TracksIn(d) \ TracksIn(d - 1)
                      /\ changes'[d].exited = TracksIn(d - 1) \ TracksIn(d)
    BY <1>1, <1>2 DEF Compared, TracksIn
  <2>1. CASE BuildChanges
    <3>1. d \in Observed /\ (d - 1) \in Observed
      BY DEF Covered
    <3>2. Yesterday(d) = TracksIn(d - 1)
      BY <3>1 DEF Yesterday
    <3>3. changes'[d].new = TracksIn(d) \ Yesterday(d) /\ changes'[d].exited = Yesterday(d) \ TracksIn(d)
      BY <2>1, <3>1 DEF BuildChanges, ChangesOf
    <3>. QED
      BY <3>2, <3>3
  <2>2. CASE BuildTrends
    BY <2>2 DEF BuildTrends, StillInv, Compared
  <2>. QED
    BY <2>1, <2>2
<1>. QED
  BY <1>1, <1>3, <1>4, <1>5 DEF Merged

\* The end of a build, good or bad, changes nothing it has built.
LEMMA EndStill ==
  ASSUME StillInv, Finish \/ Fail
  PROVE  CoherentDays' /\ Merged' /\ Settled' /\ Compared'
<1>1. phase' = "idle" /\ UNCHANGED <<fact, pruned>>
  BY DEF Finish, Fail
<1>2. CoherentDays'
  BY <1>1 DEF StillInv, CoherentDays, Coherent
<1>. QED
  BY <1>1, <1>2 DEF Merged, Settled, Compared

\* A step that changes no variable.
LEMMA StutterStill ==
  ASSUME StillInv, UNCHANGED vars
  PROVE  CoherentDays' /\ Merged' /\ Settled' /\ Compared'
<1>1. UNCHANGED <<landing, window, fact, pruned, phase, incremental, changes>>
  BY DEF vars, marts, build
<1>2. Covered' = Covered /\ Covered \subseteq Dates
  BY <1>1, CoveredStill DEF Covered, Observed
<1>3. \A d \in Dates : Winner(d)' = Winner(d) /\ Slots(d)' = Slots(d)
  BY <1>1, ViewsStill
<1>4. CoherentDays'
  BY <1>1 DEF StillInv, CoherentDays, Coherent
<1>5. Merged'
  BY <1>1, <1>2, <1>3 DEF StillInv, Merged
<1>6. Settled'
  <2> SUFFICES ASSUME phase \in {"pruned", "changed", "built"}, NEW d \in Covered
               PROVE  fact[d] = Image(Winner(d)')
    BY <1>1, <1>2 DEF Settled, Image
  <2>. QED
    BY <1>2, <1>3 DEF StillInv, Settled
<1>7. Compared'
  BY <1>1, <1>2 DEF StillInv, Compared, TracksIn
<1>. QED
  BY <1>4, <1>5, <1>6, <1>7

\* The inductive invariant of a build over a still LANDING.
THEOREM StillInvariant ==
  ASSUME LateLoads = FALSE
  PROVE  Spec => []StillInv
<1>1. Init => StillInv
  BY InitInv DEF Init, StillInv, CoherentDays, Merged, Settled, Compared
<1>2. TypeOK /\ TypeOK' /\ LoadOrder /\ StoredComplete' /\ StillInv /\ [Next]_vars => StillInv'
  <2> SUFFICES ASSUME TypeOK, TypeOK', LoadOrder, StoredComplete', StillInv, [Next]_vars
               PROVE  CoherentDays' /\ Merged' /\ Settled' /\ Compared'
    BY DEF StillInv
  <2>. QED
    BY LoadsStill, MergeStill, PruneStill, MartsStill, EndStill, StutterStill DEF Next
<1>. QED
  BY <1>1, <1>2, StoredInvariant, PTL DEF Spec

\* With LANDING still, a date whose last covering build reached its prune holds
\* exactly one run's slots: the MERGE and the post-hook together leave no retry's
\* leftovers, though neither statement alone does.
THEOREM DaysCoherent ==
  ASSUME LateLoads = FALSE
  PROVE  Spec => []CoherentDays
<1>1. StillInv => CoherentDays
  BY DEF StillInv
<1>. QED
  BY <1>1, StillInvariant, PTL

\* With LANDING still, a date loses all its rows only to a winning run that saw
\* an empty playlist.
THEOREM EmptyOnlyWhenObserved ==
  ASSUME LateLoads = FALSE
  PROVE  Spec => EmptyIsObserved
<1> DEFINE Emptied == \A d \in Dates : fact[d] # Blank /\ fact'[d] = Blank =>
              \E r \in Runs : Wins(d, r) /\ DOMAIN SlotsOf[r] = {}
<1>1. TypeOK /\ StillInv /\ [Next]_vars => Emptied
  <2> SUFFICES ASSUME TypeOK, StillInv, [Next]_vars, NEW d \in Dates,
                      fact[d] # Blank, fact'[d] = Blank
               PROVE  \E r \in Runs : Wins(d, r) /\ DOMAIN SlotsOf[r] = {}
    OBVIOUS
  <2>1. PICK p \in Positions : fact[d][p] # NoRun
    BY FactIs DEF Blank
  <2>2. \A q \in Positions : fact'[d][q] = NoRun
    BY DEF Blank
  <2>3. CASE \E w \in Windows : Merge(w)
    <3>1. \A q \in Positions : fact'[d][q] = fact[d][q] \/ (q \in Slots(d) /\ fact'[d][q] = Winner(d))
      BY <2>3 DEF Merge
    <3>. QED
      BY <2>1, <2>2, <3>1 DEF Slots
  <2>4. CASE Prune
    <3>1. \A q \in Positions : fact'[d][q] = IF Obsolete(d, q) THEN NoRun ELSE fact[d][q]
      BY <2>4 DEF Prune
    <3>2. Obsolete(d, p)
      BY <2>1, <2>2, <3>1
    <3>3. d \in Covered /\ Winner(d) # NoRun /\ phase = "merged"
      BY <2>4, <3>2 DEF Obsolete, Covered, Observed, Prune
    <3>4. \A q \in Positions : q \notin Slots(d)
      BY <2>2, <3>1, <3>3 DEF StillInv, Merged, Obsolete
    <3>5. Winner(d) \in Runs /\ Wins(d, Winner(d)) /\ Slots(d) = DOMAIN SlotsOf[Winner(d)]
      BY <3>3, WinnerIs, SlotsAre
    <3>6. DOMAIN SlotsOf[Winner(d)] \subseteq Positions
      BY <3>5, SnapshotAssumption
    <3>. QED
      BY <3>4, <3>5, <3>6
  <2>5. CASE UNCHANGED fact
    BY <2>5
  <2>. QED
    BY <2>3, <2>4, <2>5 DEF Next, LoadObservation, LoadSlots, BuildChanges, BuildTrends, Finish,
                           Fail, vars
<1>2. TypeOK /\ StillInv /\ [Next]_vars => [Emptied]_vars
  BY <1>1
<1>. QED
  BY <1>2, StoredInvariant, StillInvariant, PTL DEF Spec, EmptyIsObserved

\* What the fact holds of a settled date is what its winner saw.
LEMMA SettledIsSeen ==
  ASSUME NEW d \in Dates, Winner(d) \in Runs, fact[d] = Image(Winner(d)),
         Slots(d) = DOMAIN SlotsOf[Winner(d)]
  PROVE  TracksIn(d) = Seen(d)
<1>1. DOMAIN SlotsOf[Winner(d)] \subseteq Positions /\ Winner(d) # NoRun
  BY SnapshotAssumption
<1>2. {q \in Positions : fact[d][q] # NoRun} = Slots(d)
  BY <1>1 DEF Image
<1>3. \A q \in Slots(d) : fact[d][q] = Winner(d)
  BY <1>1 DEF Image
<1>. QED
  BY <1>2, <1>3 DEF TracksIn, Seen

\* With LANDING still, what a successful build says of two consecutive observed
\* dates of its window is the difference of their winning observations.
THEOREM WindowComparesWinners ==
  ASSUME LateLoads = FALSE
  PROVE  Spec => WindowIsTrue
<1> DEFINE True == Finish => \A d \in window \cap Observed : (d - 1) \in window \cap Observed =>
              /\ changes[d].new    = Seen(d) \ Seen(d - 1)
              /\ changes[d].exited = Seen(d - 1) \ Seen(d)
<1>1. TypeOK /\ StillInv => True
  <2> SUFFICES ASSUME TypeOK, StillInv, Finish, NEW d \in Covered, (d - 1) \in Covered
               PROVE  /\ changes[d].new    = Seen(d) \ Seen(d - 1)
                      /\ changes[d].exited = Seen(d - 1) \ Seen(d)
    BY DEF Covered
  <2>1. ASSUME NEW c \in Covered PROVE TracksIn(c) = Seen(c)
    <3>1. c \in Dates /\ Winner(c) # NoRun
      BY DEF Covered, Observed
    <3>2. Winner(c) \in Runs /\ Slots(c) = DOMAIN SlotsOf[Winner(c)]
      BY <3>1, SlotsAre
    <3>3. fact[c] = Image(Winner(c))
      BY DEF Finish, StillInv, Settled
    <3>. QED
      BY <3>1, <3>2, <3>3, SettledIsSeen
  <2>2. /\ changes[d].new    = TracksIn(d) \ TracksIn(d - 1)
        /\ changes[d].exited = TracksIn(d - 1) \ TracksIn(d)
    BY DEF Finish, StillInv, Compared
  <2>. QED
    BY <2>1, <2>2
<1>2. TypeOK /\ StillInv /\ [Next]_vars => [True]_vars
  BY <1>1
<1>. QED
  BY <1>2, StoredInvariant, StillInvariant, PTL DEF Spec, WindowIsTrue

-----------------------------------------------------------------------------
(* The marts of a build over a LANDING that is still.                      *)

\* What the marts compute does not change while the fact and LANDING do not.
LEMMA ReportStill ==
  ASSUME UNCHANGED <<landing, fact>>
  PROVE  /\ Observed' = Observed
         /\ \A d \in Observed : ChangesOf(d)' = ChangesOf(d)
         /\ changes' = changes => \A d \in Observed : TrendOf(d)' = TrendOf(d)
<1>1. Observed' = Observed
  BY ViewsStill
<1>2. \A d : TracksIn(d)' = TracksIn(d)
  BY DEF TracksIn
<1>3. \A d : Yesterday(d)' = Yesterday(d)
  BY <1>1, <1>2 DEF Yesterday
<1>4. \A d, t : Streak(d, t)' = Streak(d, t)
  BY <1>2 DEF Streak
<1>5. \A d \in Observed : ChangesOf(d)' = ChangesOf(d)
  BY <1>2, <1>3, <1>4 DEF ChangesOf
<1>6. changes' = changes => \A d \in Observed : TrendOf(d)' = TrendOf(d)
  BY <1>1, <1>2 DEF TrendOf, Counted
<1>. QED
  BY <1>1, <1>5, <1>6

\* Between their own statement and the end of the build the marts are as the
\* fact has them.
THEOREM ReportedInvariant ==
  ASSUME LateLoads = FALSE
  PROVE  Spec => []Reported
<1>1. Init => Reported
  BY DEF Init, Reported
<1>2. Reported /\ [Next]_vars => Reported'
  <2> SUFFICES ASSUME Reported, [Next]_vars PROVE Reported'
    OBVIOUS
  <2>1. CASE phase' \notin {"changed", "built"}
    BY <2>1 DEF Reported
  <2>2. CASE BuildChanges
    <3>1. UNCHANGED <<landing, fact>> /\ phase' = "changed"
          /\ changes' = [d \in Observed |-> ChangesOf(d)]
      BY <2>2 DEF BuildChanges
    <3>. QED
      BY <3>1, ReportStill DEF Reported
  <2>3. CASE BuildTrends
    <3>1. UNCHANGED <<landing, fact, changes>> /\ phase = "changed" /\ phase' = "built"
          /\ trends' = [d \in Observed |-> TrendOf(d)]
      BY <2>3 DEF BuildTrends
    <3>2. changes' = [d \in Observed' |-> ChangesOf(d)']
      BY <3>1, ReportStill DEF Reported
    <3>3. trends' = [d \in Observed' |-> TrendOf(d)']
      BY <3>1, ReportStill
    <3>. QED
      BY <3>2, <3>3 DEF Reported
  <2>4. CASE UNCHANGED vars
    <3>1. UNCHANGED <<landing, fact, changes, trends, phase>>
      BY <2>4 DEF vars, marts, build
    <3>2. phase \in {"changed", "built"} => changes' = [d \in Observed' |-> ChangesOf(d)']
      BY <3>1, ReportStill DEF Reported
    <3>3. phase = "built" => trends' = [d \in Observed' |-> TrendOf(d)']
      BY <3>1, ReportStill DEF Reported
    <3>. QED
      BY <3>1, <3>2, <3>3 DEF Reported
  <2>. QED
    BY <2>1, <2>2, <2>3, <2>4 DEF Next, LoadObservation, LoadSlots, MayLoad, build, Merge, Prune,
                                 Finish, Fail
<1>. QED
  BY <1>1, <1>2, PTL DEF Spec

\* A date that was not observed has no tracks, so yesterday's are the fact's.
LEMMA YesterdayIs ==
  ASSUME TypeOK, LoadOrder, StoredComplete, NEW d \in Dates
  PROVE  Yesterday(d) = TracksIn(d - 1)
<1> SUFFICES ASSUME (d - 1) \in Dates, (d - 1) \notin Observed PROVE TracksIn(d - 1) = {}
  BY DEF Yesterday, TracksIn
<1>1. fact[d - 1] = Blank
  BY UnobservedIsBlank DEF Observed
<1>. QED
  BY <1>1 DEF TracksIn, Blank

\* A streak is longer than a day exactly when it goes back to the day before.
LEMMA StreakIs ==
  ASSUME NEW d \in Dates, NEW t \in TracksIn(d)
  PROVE  Streak(d, t) > 1 <=> t \in TracksIn(d - 1)
<1> DEFINE S == {b \in 1 .. d : \A k \in b .. d : t \in TracksIn(k)}
<1>0. d \in Nat /\ d >= 1
  BY SnapshotAssumption DEF Dates
<1>1. IsFiniteSet(S)
  <2>1. IsFiniteSet(1 .. d) /\ S \in SUBSET (1 .. d)
    BY <1>0, FS_Interval
  <2>. QED
    BY <2>1, FS_Subset
<1>2. Cardinality(S) \in Nat
  BY <1>1, FS_CardinalityType
<1>3. \A k \in d .. d : k = d
  BY <1>0
<1>4. d \in S
  BY <1>0, <1>3
<1>5. CASE t \in TracksIn(d - 1)
  <2>1. d - 1 \in 1 .. d
    BY <1>0, <1>5, SnapshotAssumption DEF TracksIn, Dates
  <2>2. \A k \in (d - 1) .. d : k = d - 1 \/ k = d
    BY <1>0
  <2>3. d - 1 \in S /\ d - 1 # d
    BY <1>0, <1>5, <2>1, <2>2
  <2>4. ~(\E x : S = {x})
    BY <1>4, <2>3
  <2>5. Cardinality(S) # 1
    BY <1>1, <2>4, FS_Singleton
  <2>6. Cardinality(S) # 0
    BY <1>1, <1>4, FS_EmptySet
  <2>. QED
    BY <1>2, <1>5, <2>5, <2>6 DEF Streak
<1>6. CASE t \notin TracksIn(d - 1)
  <2>1. ASSUME NEW b \in S PROVE b = d
    <3>1. b < d => d - 1 \in b .. d
      BY <1>0
    <3>. QED
      BY <1>0, <1>6, <3>1
  <2>2. S = {d}
    BY <1>4, <2>1
  <2>3. Cardinality(S) = 1
    BY <2>2, FS_Singleton
  <2>. QED
    BY <1>6, <2>3 DEF Streak
<1>. QED
  BY <1>5, <1>6

\* With LANDING still, a successful build reports a track as RETAINED exactly
\* when its streak goes back to the day before, for any number of days, gaps and
\* windows.
THEOREM RetentionIsStreak ==
  ASSUME LateLoads = FALSE
  PROVE  Spec => RetainedIsStreak
<1> DEFINE Agree == Finish => \A d \in DOMAIN changes : \A t \in DOMAIN changes[d].streak :
              t \in changes[d].retained <=> changes[d].streak[t] > 1
<1>1. TypeOK /\ LoadOrder /\ StoredComplete /\ Reported => Agree
  <2> SUFFICES ASSUME TypeOK, LoadOrder, StoredComplete, Reported, Finish,
                      NEW d \in DOMAIN changes, NEW t \in DOMAIN changes[d].streak
               PROVE  t \in changes[d].retained <=> changes[d].streak[t] > 1
    OBVIOUS
  <2>1. changes = [c \in Observed |-> ChangesOf(c)]
    BY DEF Finish, Reported
  <2>2. d \in Dates /\ changes[d] = ChangesOf(d)
    BY <2>1 DEF Observed
  <2>3. t \in TracksIn(d) /\ changes[d].streak[t] = Streak(d, t)
        /\ changes[d].retained = TracksIn(d) \cap Yesterday(d)
    BY <2>2 DEF ChangesOf
  <2>4. Streak(d, t) > 1 <=> t \in TracksIn(d - 1)
    BY <2>2, <2>3, StreakIs
  <2>5. Yesterday(d) = TracksIn(d - 1)
    BY <2>2, YesterdayIs
  <2>. QED
    BY <2>3, <2>4, <2>5
<1>2. TypeOK /\ LoadOrder /\ StoredComplete /\ Reported /\ [Next]_vars => [Agree]_vars
  BY <1>1
<1>. QED
  BY <1>2, StoredInvariant, ReportedInvariant, PTL DEF Spec, RetainedIsStreak

\* The tracks of a date are finitely many.
LEMMA TracksFinite ==
  ASSUME NEW d
  PROVE  IsFiniteSet(TracksIn(d))
<1>1. CASE d \notin Dates
  <2>1. TracksIn(d) = {}
    BY <1>1 DEF TracksIn
  <2>. QED
    BY <2>1, FS_EmptySet
<1>2. CASE d \in Dates
  <2> DEFINE Q == {q \in Positions : fact[d][q] # NoRun}
             f == [q \in Q |-> SlotsOf[fact[d][q]][q]]
  <2>1. IsFiniteSet(Q)
    BY SnapshotAssumption, FS_Subset
  <2>2. TracksIn(d) = {SlotsOf[fact[d][p]][p] : p \in Q}
    BY <1>2 DEF TracksIn
  <2>3. f \in [Q -> TracksIn(d)] /\ \A t \in TracksIn(d) : \E q \in Q : f[q] = t
    BY <2>2
  <2>4. f \in Surjection(Q, TracksIn(d))
    BY <2>3, Fun_IsSurj
  <2>. QED
    BY <2>1, <2>4, FS_Surjection
<1>. QED
  BY <1>1, <1>2

\* What enters less what leaves is what the size changes by.
LEMMA DifferencesAddUp ==
  ASSUME NEW A, NEW B, IsFiniteSet(A), IsFiniteSet(B)
  PROVE  Cardinality(A) = Cardinality(B) + Cardinality(A \ B) - Cardinality(B \ A)
<1>1. Cardinality(A \ B) = Cardinality(A) - Cardinality(A \cap B)
  BY FS_Difference
<1>2. Cardinality(B \ A) = Cardinality(B) - Cardinality(B \cap A)
  BY FS_Difference
<1>3. A \cap B = B \cap A /\ IsFiniteSet(A \cap B)
  BY FS_Intersection
<1>4. Cardinality(A) \in Nat /\ Cardinality(B) \in Nat /\ Cardinality(A \cap B) \in Nat
  BY <1>3, FS_CardinalityType
<1>5. Cardinality(B \cap A) = Cardinality(A \cap B)
  BY <1>3
<1>. QED
  BY <1>1, <1>2, <1>4, <1>5

\* With LANDING still, the counts of mart_playlist_trends add up from one
\* observed date to the next, whatever windows were built and in which order.
THEOREM CountsAddUp ==
  ASSUME LateLoads = FALSE
  PROVE  Spec => TrendsAddUp
<1> DEFINE AddUp == Finish => \A d \in DOMAIN trends : trends[d].compared =>
              trends[d].distinct = trends[d - 1].distinct + trends[d].new - trends[d].exited
<1>1. TypeOK /\ LoadOrder /\ StoredComplete /\ Reported => AddUp
  <2> SUFFICES ASSUME TypeOK, LoadOrder, StoredComplete, Reported, Finish,
                      NEW d \in DOMAIN trends, trends[d].compared
               PROVE  trends[d].distinct = trends[d - 1].distinct + trends[d].new - trends[d].exited
    OBVIOUS
  <2>1. /\ changes = [c \in Observed |-> ChangesOf(c)]
        /\ trends = [c \in Observed |-> TrendOf(c)]
    BY DEF Finish, Reported
  <2>2. d \in Observed /\ d \in Dates /\ trends[d] = TrendOf(d)
    BY <2>1 DEF Observed
  <2>3. (d - 1) \in Observed
    <3>1. TrendOf(d).compared = ((d - 1) \in Observed)
      BY DEF TrendOf
    <3>. QED
      BY <2>2, <3>1, Zenon
  <2>4. trends[d].distinct = Cardinality(TracksIn(d))
        /\ trends[d - 1].distinct = Cardinality(TracksIn(d - 1))
    BY <2>1, <2>2, <2>3 DEF TrendOf
  <2>5. Yesterday(d) = TracksIn(d - 1)
    BY <2>2, YesterdayIs
  <2>6. changes[d].new = TracksIn(d) \ TracksIn(d - 1)
        /\ changes[d].exited = TracksIn(d - 1) \ TracksIn(d)
    BY <2>1, <2>2, <2>5 DEF ChangesOf
  <2>7. d \in DOMAIN changes
    BY <2>1, <2>2
  <2>8. trends[d].new = Cardinality(TracksIn(d) \ TracksIn(d - 1))
        /\ trends[d].exited = Cardinality(TracksIn(d - 1) \ TracksIn(d))
    <3>1. Counted(d, "new") = Cardinality(TracksIn(d) \ TracksIn(d - 1))
      BY <2>6, <2>7 DEF Counted
    <3>2. Counted(d, "exited") = Cardinality(TracksIn(d - 1) \ TracksIn(d))
      BY <2>6, <2>7 DEF Counted
    <3>3. trends[d].new = Counted(d, "new") /\ trends[d].exited = Counted(d, "exited")
      BY <2>2 DEF TrendOf
    <3>. QED
      BY <3>1, <3>2, <3>3
  <2>9. IsFiniteSet(TracksIn(d)) /\ IsFiniteSet(TracksIn(d - 1))
    BY TracksFinite
  <2>. QED
    BY <2>4, <2>8, <2>9, DifferencesAddUp
<1>2. TypeOK /\ LoadOrder /\ StoredComplete /\ Reported /\ [Next]_vars => [AddUp]_vars
  BY <1>1
<1>. QED
  BY <1>2, StoredInvariant, ReportedInvariant, PTL DEF Spec, TrendsAddUp

=============================================================================
