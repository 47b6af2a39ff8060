-------------------------- MODULE LocalFilesProofs ---------------------------
(***************************************************************************)
(* Proofs about the two writers of Bronze files on the local disk: the     *)
(* demonstration's generator with the plans made of it (DemoSource), for   *)
(* any corpora, limits, days and generations, and LocalBronzeWriter        *)
(* (LocalBronze), for any processes and destinations.                      *)
(***************************************************************************)
EXTENDS DemoSource, SequenceTheorems, FiniteSetTheorems, WellFoundedInduction, TLAPS

-----------------------------------------------------------------------------
(* The writes of a generation.                                              *)

LEMMA TypeFacts ==
  ASSUME TypeOK
  PROVE  /\ generation \in Nat /\ generation <= MaxGenerations /\ MaxGenerations \in Nat
         /\ step \in Nat /\ step \in 0 .. 14 /\ (step # 0 => generation # 0)
         /\ Days \subseteq Nat \ {0} /\ TrackLimits \subseteq Nat
         /\ DOMAIN files = Names
<1>1. generation \in 0 .. MaxGenerations
  BY DEF TypeOK
<1>2. Days \subseteq Nat \ {0} /\ TrackLimits \subseteq Nat /\ MaxGenerations \in Nat
  BY DemoAssumption
<1>3. step \in 0 .. 4 \cup 11 .. 14
  BY DEF TypeOK
<1>4. (step # 0 => generation # 0) /\ DOMAIN files = Names
  BY DEF TypeOK
<1>5. step \in Nat /\ step \in 0 .. 14
  BY <1>3
<1>. QED
  BY <1>1, <1>2, <1>4, <1>5

LEMMA DayNames ==
  ASSUME TypeOK, generation # 0
  PROVE  /\ \A d \in 1 .. 3 : Record(d).file \in Names /\ Record(d).file = <<generation, snapshots[d].date>>
         /\ \A d, e \in 1 .. 3 : d # e => snapshots[d].date # snapshots[e].date
<1>1. Consecutive(snapshots)
  BY DEF TypeOK
<1>2. PICK first \in Days : \A d \in 1 .. 3 : snapshots[d].date = first + d - 1
  BY <1>1 DEF Consecutive
<1>3. first \in Nat /\ generation \in 1 .. MaxGenerations
  BY TypeFacts
<1>4. ASSUME NEW d \in 1 .. 3 PROVE snapshots[d].date \in Dates
  <2>1. first + d - 1 \in Dates
    BY TypeFacts DEF Dates
  <2>. QED
    BY <1>2, <2>1
<1>5. ASSUME NEW d \in 1 .. 3
      PROVE  Record(d).file \in Names /\ Record(d).file = <<generation, snapshots[d].date>>
  <2>1. Record(d).file = <<generation, snapshots[d].date>>
    BY DEF Record, FileName
  <2>. QED
    BY <1>3, <1>4, <2>1 DEF Names
<1>6. ASSUME NEW d \in 1 .. 3, NEW e \in 1 .. 3, d # e PROVE snapshots[d].date # snapshots[e].date
  <2>1. snapshots[d].date = first + d - 1 /\ snapshots[e].date = first + e - 1
    BY <1>2
  <2>. QED
    BY <1>3, <1>6, <2>1
<1>. QED
  BY <1>5, <1>6

\* A step of writing leaves the days before alone, and ends as the file of its day.
Touches(d, content) ==
    /\ d \in 1 .. 3 /\ generation # 0
    /\ files' = [files EXCEPT ![Record(d).file] = content] /\ UNCHANGED manifest

LEMMA WriteSteps ==
  ASSUME TypeOK, BeginWrite \/ EndWrite
  PROVE  \/ step \in 1 .. 3 /\ step' = step + 10 /\ Touches(step, Missing)
         \/ step = 4 /\ step' = 14 /\ manifest' = Missing /\ UNCHANGED files
         \/ step \in 11 .. 13 /\ step' = step - 9 /\ Touches(step - 10, <<snapshots[step - 10]>>)
         \/ step = 14 /\ step' = 0 /\ manifest' = <<{Record(n) : n \in 1 .. 3}>> /\ UNCHANGED files
<1>1. step \in 1 .. 4 \/ step \in 11 .. 14
  BY DEF BeginWrite, EndWrite
<1>2. generation # 0
  BY <1>1, TypeFacts
<1>3. CASE BeginWrite
  <2>1. step \in 1 .. 4 /\ step' = step + 10
    BY <1>3 DEF BeginWrite
  <2>2. CASE step \in 1 .. 3
    <3>1. WriteOrder[step] = step
      BY <2>2 DEF WriteOrder
    <3>. QED
      BY <1>2, <1>3, <2>1, <2>2, <3>1 DEF BeginWrite, Touches
  <2>3. CASE step = 4
    BY <1>3, <2>1, <2>3 DEF BeginWrite, WriteOrder
  <2>. QED
    BY <2>1, <2>2, <2>3
<1>4. CASE EndWrite
  <2>1. step \in 11 .. 14 /\ step' = IF step = 14 THEN 0 ELSE step - 9
    BY <1>4 DEF EndWrite
  <2>2. CASE step \in 11 .. 13
    <3>1. WriteOrder[step - 10] = step - 10 /\ step - 10 \in 1 .. 3
      BY <2>2 DEF WriteOrder
    <3>. QED
      BY <1>2, <1>4, <2>1, <2>2, <3>1 DEF EndWrite, Touches
  <2>3. CASE step = 14
    BY <1>4, <2>1, <2>3 DEF EndWrite, WriteOrder
  <2>. QED
    BY <2>1, <2>2, <2>3
<1>. QED
  BY <1>3, <1>4

\* A generation is drawn as three snapshots of consecutive days.
LEMMA Draws ==
  ASSUME TypeOK, NEW first \in Days, NEW limit \in TrackLimits, Generate(first, limit)
  PROVE  /\ Consecutive(snapshots')
         /\ generation' = generation + 1 /\ generation < MaxGenerations /\ step = 0 /\ step' = 1
         /\ UNCHANGED <<csv, files, manifest, plannerVars>>
<1>1. PICK p, states : snapshots' = [d \in 1 .. 3 |-> [playlist |-> p, date |-> first + d - 1,
                                                       tracks |-> states[d]]]
  BY DEF Generate
<1>2. DOMAIN snapshots' = 1 .. 3 /\ \A d \in 1 .. 3 : snapshots'[d].date = first + d - 1
  BY <1>1
<1>3. Consecutive(snapshots')
  BY <1>2 DEF Consecutive
<1>. QED
  BY <1>3 DEF Generate

\* Every step keeps the types.
LEMMA DemoTypeStep == TypeOK /\ [Next]_vars => TypeOK'
<1> SUFFICES ASSUME TypeOK, [Next]_vars PROVE TypeOK'
  OBVIOUS
<1>0. DOMAIN files = Names /\ \A n \in Names : Dated(files[n], n[2])
  BY DEF TypeOK
<1>1. ASSUME NEW first \in Days, NEW limit \in TrackLimits, Generate(first, limit) PROVE TypeOK'
  <2>1. /\ Consecutive(snapshots')
        /\ generation' = generation + 1 /\ generation < MaxGenerations /\ step' = 1
        /\ UNCHANGED <<csv, files, manifest, plannerVars>>
    BY <1>1, Draws
  <2>2. generation' \in 0 .. MaxGenerations /\ generation' # 0 /\ step' \in 0 .. 4 \cup 11 .. 14
    BY <2>1, TypeFacts
  <2>3. csv' = csv /\ files' = files /\ window' = window /\ planner' = planner
    BY <2>1 DEF plannerVars
  <2>. QED
    BY <2>1, <2>2, <2>3 DEF TypeOK
<1>2. CASE BeginWrite \/ EndWrite
  <2>1. UNCHANGED <<csv, generation, snapshots, window, planner>>
    BY <1>2 DEF BeginWrite, EndWrite, plannerVars
  <2>2. step' \in 0 .. 4 \cup 11 .. 14
    BY <1>2, WriteSteps
  <2>3. generation # 0
    BY <1>2, TypeFacts DEF BeginWrite, EndWrite
  <2>4. ASSUME NEW d \in 1 .. 3, NEW content, Touches(d, content),
               content = Missing \/ content = <<snapshots[d]>>
        PROVE  DOMAIN files' = Names /\ \A n \in Names : Dated(files'[n], n[2])
    <3>1. Record(d).file \in Names /\ Record(d).file = <<generation, snapshots[d].date>>
      BY <2>3, DayNames
    <3>2. files' = [files EXCEPT ![Record(d).file] = content]
      BY <2>4 DEF Touches
    <3>3. Dated(content, snapshots[d].date)
      BY <2>4 DEF Dated
    <3>4. ASSUME NEW n \in Names PROVE Dated(files'[n], n[2])
      <4>1. CASE n = Record(d).file
        <5>1. files'[n] = content /\ n[2] = snapshots[d].date
          BY <1>0, <3>1, <3>2, <4>1
        <5>. QED
          BY <3>3, <5>1
      <4>2. CASE n # Record(d).file
        BY <1>0, <3>2, <4>2
      <4>. QED
        BY <4>1, <4>2
    <3>. QED
      BY <1>0, <3>2, <3>4
  <2>5. DOMAIN files' = Names /\ \A n \in Names : Dated(files'[n], n[2])
    <3>1. CASE UNCHANGED files
      BY <1>0, <3>1
    <3>2. CASE step \in 1 .. 3 /\ Touches(step, Missing)
      BY <2>4, <3>2
    <3>3. CASE step \in 11 .. 13 /\ Touches(step - 10, <<snapshots[step - 10]>>)
      <4>1. step - 10 \in 1 .. 3
        BY <3>3
      <4>. QED
        BY <2>4, <3>3, <4>1
    <3>. QED
      BY <1>2, <3>1, <3>2, <3>3, WriteSteps
  <2>. QED
    BY <2>1, <2>2, <2>3, <2>5 DEF TypeOK
<1>3. CASE Kill
  <2>1. UNCHANGED <<csv, generation, snapshots, files, window, planner>> /\ step' = 0
    BY <1>3 DEF Kill, plannerVars
  <2>2. step' \in 0 .. 4 \cup 11 .. 14
    BY <2>1
  <2>. QED
    BY <2>1, <2>2 DEF TypeOK
<1>4. ASSUME NEW first \in Days, NEW last \in Days, ReadManifest(first .. last) PROVE TypeOK'
  <2>1. first \in Int /\ last \in Int
    BY TypeFacts
  <2>2. IsFiniteSet(window')
    BY <1>4, <2>1, FS_Interval DEF ReadManifest
  <2>3. UNCHANGED <<csv, generation, snapshots, step, files>> /\ planner' \in {"reading", "no manifest"}
    BY <1>4 DEF ReadManifest, generatorVars
  <2>. QED
    BY <2>2, <2>3 DEF TypeOK
<1>5. CASE ReadSnapshot \/ Plan
  <2>1. /\ UNCHANGED <<csv, generation, snapshots, step, files, window>>
        /\ planner' = planner \/ planner' \in {"bad file", "planned", "missing days"}
    BY <1>5 DEF ReadSnapshot, Plan, generatorVars
  <2>. QED
    BY <2>1 DEF TypeOK
<1>6. CASE UNCHANGED vars
  BY <1>6 DEF vars, generatorVars, plannerVars, TypeOK
<1>. QED
  BY <1>1, <1>2, <1>3, <1>4, <1>5, <1>6 DEF Next

\* No step touches the file of a record that is settled.
LEMMA SettledStays ==
  ASSUME TypeOK, [Next]_vars, NEW r, Settled(r)
  PROVE  Settled(r)'
<1>0. generation \in Nat /\ step \in Nat /\ DOMAIN files = Names
  BY TypeFacts
<1>a. r.file[1] \in Nat
  BY DEF Settled, Names
<1>1. ASSUME NEW first \in Days, NEW limit \in TrackLimits, Generate(first, limit) PROVE Settled(r)'
  <2>1. generation' = generation + 1 /\ files' = files
    BY <1>1, Draws
  <2>. QED
    BY <1>0, <1>a, <2>1 DEF Settled
<1>2. CASE BeginWrite \/ EndWrite
  <2>1. step # 0 /\ UNCHANGED generation
    BY <1>2 DEF BeginWrite, EndWrite
  <2>2. r.file[1] # generation
    BY <2>1 DEF Settled
  <2>3. ASSUME NEW d, NEW content, Touches(d, content) PROVE files'[r.file] = files[r.file]
    <3>1. Record(d).file = <<generation, snapshots[d].date>>
      BY <2>3, DayNames DEF Touches
    <3>2. r.file # Record(d).file
      BY <2>2, <3>1
    <3>. QED
      BY <1>0, <2>3, <3>2 DEF Touches, Settled
  <2>4. files'[r.file] = files[r.file]
    BY <1>2, <2>3, WriteSteps
  <2>. QED
    BY <2>1, <2>2, <2>4 DEF Settled
<1>3. CASE Kill
  BY <1>3 DEF Kill, Settled
<1>4. CASE UNCHANGED <<generatorVars, files>>
  BY <1>4 DEF generatorVars, Settled
<1>. QED
  BY <1>1, <1>2, <1>3, <1>4 DEF Next, vars, ReadManifest, ReadSnapshot, Plan

\* Nothing has been written, listed or planned.
LEMMA InitDemo == Init => DemoInv
<1> SUFFICES ASSUME Init PROVE DemoInv
  OBVIOUS
<1>1. TypeOK
  <2>1. generation \in 0 .. MaxGenerations /\ step \in 0 .. 4 \cup 11 .. 14
    BY DemoAssumption DEF Init
  <2>2. DOMAIN files = Names /\ \A n \in Names : Dated(files[n], n[2])
    BY DEF Init, Dated
  <2>3. IsFiniteSet(window)
    BY FS_EmptySet DEF Init
  <2>. QED
    BY <2>1, <2>2, <2>3 DEF Init, TypeOK
<1>2. Listed = {} /\ pending = {} /\ planned = {}
  BY DEF Init, Listed
<1>3. AllSettled /\ OneGeneration(Listed) /\ OneGeneration(pending \cup planned)
  BY <1>2 DEF AllSettled, OneGeneration
<1>4. DaysWritten /\ (planner = "planned" => Covers(planned))
  BY DEF Init, DaysWritten
<1>. QED
  BY <1>1, <1>3, <1>4 DEF DemoInv

\* The last write of a generation lists its three snapshots, which are settled.
LEMMA FinalWrite ==
  ASSUME TypeOK, TypeOK', DaysWritten, step = 14, step' = 0, UNCHANGED <<files, generation>>,
         manifest' = <<{Record(n) : n \in 1 .. 3}>>
  PROVE  (\A r \in Listed' : Settled(r)') /\ OneGeneration(Listed')
<1>1. generation # 0 /\ generation \in Nat
  BY TypeFacts
<1>2. Listed' = {Record(n) : n \in 1 .. 3}
  <2>1. manifest' # Missing
    BY DEF Missing
  <2>. QED
    BY <2>1 DEF Listed
<1>3. ASSUME NEW d \in 1 .. 3, NEW r, r = Record(d) PROVE Settled(r)'
  <2>1. Record(d).file \in Names /\ Record(d).file = <<generation, snapshots[d].date>>
    BY <1>1, DayNames
  <2>2. files[Record(d).file] = <<snapshots[d]>>
    BY DEF DaysWritten
  <2>3. Record(d).snapshot = snapshots[d]
    BY DEF Record
  <2>. QED
    BY <1>1, <1>3, <2>1, <2>2, <2>3 DEF Settled
<1>4. ASSUME NEW d \in 1 .. 3, NEW e \in 1 .. 3
      PROVE  /\ Record(d).file[1] = Record(e).file[1]
             /\ Date(Record(d)) = Date(Record(e)) => Record(d) = Record(e)
  <2>1. Record(d).file = <<generation, snapshots[d].date>> /\ Record(e).file = <<generation, snapshots[e].date>>
    BY <1>1, DayNames
  <2>2. d # e => snapshots[d].date # snapshots[e].date
    BY <1>1, DayNames
  <2>3. Date(Record(d)) = snapshots[d].date /\ Date(Record(e)) = snapshots[e].date
    BY DEF Date, Record
  <2>. QED
    BY <2>1, <2>2, <2>3
<1>5. ASSUME NEW r \in Listed' PROVE Settled(r)'
  BY <1>2, <1>3
<1>6. ASSUME NEW r \in Listed', NEW other \in Listed'
      PROVE  r.file[1] = other.file[1] /\ (Date(r) = Date(other) => r = other)
  <2>1. PICK d \in 1 .. 3, e \in 1 .. 3 : r = Record(d) /\ other = Record(e)
    BY <1>2
  <2>. QED
    BY <1>4, <2>1
<1>. QED
  BY <1>5, <1>6 DEF OneGeneration

\* A write leaves the days that were written before it, and adds its own.
LEMMA WritesInOrder ==
  ASSUME TypeOK, DaysWritten, BeginWrite \/ EndWrite
  PROVE  DaysWritten'
<1>1. generation # 0 /\ UNCHANGED <<generation, snapshots>> /\ DOMAIN files = Names
  BY TypeFacts DEF BeginWrite, EndWrite
<1>2. ASSUME NEW d \in 1 .. 3 PROVE UNCHANGED Record(d).file
  BY <1>1 DEF Record, FileName
<1>3. ASSUME NEW d \in 1 .. 3, NEW e \in 1 .. 3, NEW content, Touches(e, content)
      PROVE  files'[Record(d).file] = IF d = e THEN content ELSE files[Record(d).file]
  <2>1. /\ Record(d).file \in Names /\ Record(d).file = <<generation, snapshots[d].date>>
        /\ Record(e).file \in Names /\ Record(e).file = <<generation, snapshots[e].date>>
        /\ d # e => snapshots[d].date # snapshots[e].date
    BY <1>1, DayNames
  <2>2. d # e => Record(d).file # Record(e).file
    BY <2>1
  <2>. QED
    BY <1>1, <1>3, <2>1, <2>2 DEF Touches
<1>4. ASSUME NEW d \in 1 .. 3, step' # 0, d < (IF step' > 10 THEN step' - 10 ELSE step')
      PROVE  files'[Record(d).file] = <<snapshots[d]>>
  <2>1. CASE step \in 1 .. 3 /\ step' = step + 10 /\ Touches(step, Missing)
    <3>1. d < step
      BY <1>4, <2>1
    <3>2. files[Record(d).file] = <<snapshots[d]>>
      BY <2>1, <3>1 DEF DaysWritten
    <3>. QED
      BY <1>3, <2>1, <3>1, <3>2
  <2>2. CASE step = 4 /\ step' = 14 /\ UNCHANGED files
    BY <2>2 DEF DaysWritten
  <2>3. CASE step \in 11 .. 13 /\ step' = step - 9 /\ Touches(step - 10, <<snapshots[step - 10]>>)
    <3>1. step - 10 \in 1 .. 3 /\ d <= step - 10
      BY <1>4, <2>3
    <3>2. d # step - 10 => files[Record(d).file] = <<snapshots[d]>>
      BY <2>3, <3>1 DEF DaysWritten
    <3>3. files'[Record(d).file] = IF d = step - 10 THEN <<snapshots[step - 10]>> ELSE files[Record(d).file]
      BY <1>3, <2>3, <3>1
    <3>. QED
      BY <3>2, <3>3
  <2>. QED
    BY <1>4, <2>1, <2>2, <2>3, WriteSteps
<1>. QED
  BY <1>1, <1>2, <1>4 DEF DaysWritten

\* What a step may newly list, and what a planner may newly hold.
LEMMA DemoStep == DemoInv /\ [Next]_vars => DemoInv'
<1> SUFFICES ASSUME DemoInv, [Next]_vars PROVE DemoInv'
  OBVIOUS
<1>1. TypeOK /\ TypeOK' /\ AllSettled /\ DaysWritten
  BY DemoTypeStep DEF DemoInv
<1>2. \A r \in Listed \cup pending \cup planned : Settled(r)'
  BY <1>1, SettledStays DEF AllSettled
<1>3. (\A r \in Listed' : Settled(r)') /\ OneGeneration(Listed')
  <2>1. CASE Listed' \subseteq Listed
    BY <1>2, <2>1 DEF DemoInv, OneGeneration
  <2>2. CASE BeginWrite \/ EndWrite
    <3>1. CASE step = 14
      <4>1. step' = 0 /\ manifest' = <<{Record(n) : n \in 1 .. 3}>> /\ UNCHANGED <<files, generation>>
        BY <1>1, <2>2, <3>1, WriteSteps DEF BeginWrite, EndWrite
      <4>. QED
        BY <1>1, <3>1, <4>1, FinalWrite
    <3>2. CASE step # 14
      <4>1. manifest' = Missing \/ UNCHANGED manifest
        BY <1>1, <2>2, <3>2, WriteSteps DEF Touches
      <4>. QED
        BY <2>1, <4>1 DEF Listed
    <3>. QED
      BY <3>1, <3>2
  <2>3. CASE UNCHANGED manifest
    BY <2>1, <2>3 DEF Listed
  <2>. QED
    BY <2>2, <2>3 DEF Next, vars, Generate, Kill, ReadManifest, ReadSnapshot, Plan
<1>4. (\A r \in (pending \cup planned)' : Settled(r)') /\ OneGeneration((pending \cup planned)')
  <2>1. CASE (pending \cup planned)' \subseteq pending \cup planned
    BY <1>2, <2>1 DEF DemoInv, OneGeneration
  <2>2. ASSUME NEW first \in Days, NEW last \in Days, ReadManifest(first .. last)
        PROVE  (pending \cup planned)' \subseteq Listed
    BY <2>2 DEF ReadManifest, Listed
  <2>3. CASE ReadSnapshot
    BY <2>1, <2>3 DEF ReadSnapshot
  <2>4. CASE UNCHANGED <<pending, planned>>
    BY <2>1, <2>4
  <2>. QED
    BY <1>2, <2>2, <2>3, <2>4
       DEF Next, vars, plannerVars, Generate, BeginWrite, EndWrite, Kill, Plan, DemoInv, OneGeneration
<1>5. AllSettled'
  BY <1>3, <1>4 DEF AllSettled
<1>6. DaysWritten'
  <2>1. CASE BeginWrite \/ EndWrite
    BY <1>1, <2>1, WritesInOrder
  <2>2. ASSUME NEW first \in Days, NEW limit \in TrackLimits, Generate(first, limit) PROVE DaysWritten'
    BY <2>2 DEF Generate, DaysWritten
  <2>3. CASE Kill
    BY <2>3 DEF Kill, DaysWritten
  <2>4. CASE UNCHANGED <<generatorVars, files>>
    BY <1>1, <2>4 DEF generatorVars, DaysWritten, Record
  <2>. QED
    BY <2>1, <2>2, <2>3, <2>4 DEF Next, vars, ReadManifest, ReadSnapshot, Plan
<1>7. planner' = "planned" => Covers(planned)'
  <2>1. CASE UNCHANGED <<window, planned, planner>>
    BY <2>1 DEF DemoInv, Covers
  <2>2. CASE Plan
    BY <2>2 DEF Plan, Covers
  <2>3. CASE ReadSnapshot
    BY <2>3 DEF ReadSnapshot
  <2>4. ASSUME NEW first \in Days, NEW last \in Days, ReadManifest(first .. last)
        PROVE  planner' # "planned"
    BY <2>4 DEF ReadManifest
  <2>. QED
    BY <2>1, <2>2, <2>3, <2>4 DEF Next, vars, plannerVars, Generate, BeginWrite, EndWrite, Kill
<1>. QED
  BY <1>1, <1>3, <1>4, <1>5, <1>6, <1>7 DEF DemoInv

\* The invariant of the generator and the planner, for any corpora and bounds.
THEOREM DemoInvariant == Spec => []DemoInv
<1>. QED
  BY InitDemo, DemoStep, PTL DEF Spec

\* The variables have their types, and a path names the date of what it holds.
THEOREM DemoTypes == Spec => []TypeOK
<1>1. DemoInv => TypeOK
  BY DEF DemoInv
<1>. QED
  BY <1>1, DemoInvariant, PTL

\* A manifest that can be read lists complete snapshots that agree with it,
\* wherever the generator was killed.
THEOREM LastIsManifest == Spec => []ManifestIsLast
<1>1. DemoInv => ManifestIsLast
  BY DEF DemoInv, ManifestIsLast, AllSettled, Listed, Settled
<1>. QED
  BY <1>1, DemoInvariant, PTL

\* A plan has one record for each day of its window, all of one generation, and
\* no later generation changes the files that it names.
THEOREM PlansStay == Spec => []PlanIsStable
<1>1. ASSUME DemoInv, planner = "planned" PROVE Cardinality(planned) = Cardinality(window)
  <2>1. \A r, other \in planned : Date(r) = Date(other) => r = other
    BY <1>1 DEF DemoInv, OneGeneration
  <2>2. window = {Date(r) : r \in planned} /\ IsFiniteSet(window)
    BY <1>1 DEF DemoInv, Covers, TypeOK
  <2> DEFINE f == [r \in planned |-> Date(r)]
  <2>3. f \in Injection(planned, window)
    BY <2>1, <2>2 DEF Injection, IsInjective
  <2>4. f \in Surjection(planned, window)
    BY <2>2 DEF Surjection
  <2>. QED
    BY <2>2, <2>3, <2>4, FS_Injection
<1>2. ASSUME DemoInv PROVE PlanIsStable
  BY <1>1, <1>2 DEF DemoInv, PlanIsStable, Covers, AllSettled, Settled, OneGeneration
<1>. QED
  BY <1>2, DemoInvariant, PTL

-----------------------------------------------------------------------------
(* The states of a playlist.  A state is the playlist's distinct tracks in  *)
(* another order and with some left out: t[i] = u[g[i]].                    *)

Distinct(u) == \A i, j \in DOMAIN u : u[i] = u[j] => i = j

LessThan == {ss \in Nat \X Nat : ss[1] < ss[2]}

LEMMA LessThanWellFounded == IsWellFoundedOn(LessThan, Nat)
  BY NatLessThanWellFounded, Zenon DEF OpToRel, LessThan

\* A set of numbers that is not empty has a least one.
LEMMA Least ==
  ASSUME NEW S \in SUBSET Nat, S # {}
  PROVE  \E k \in S : \A j \in S : ~(j < k)
<1>1. PICK k \in S : \A j \in S : <<j, k>> \notin LessThan
  BY LessThanWellFounded, WFMin
<1>. QED
  BY <1>1 DEF LessThan

\* The rows of a playlist are numbered in the order of the file.
LEMMA RankIsOnto ==
  ASSUME NEW S \in SUBSET Nat, IsFiniteSet(S)
  PROVE  \A n \in 1 .. Cardinality(S) : \E i \in S : Rank(i, S) = n
<1> DEFINE Before(i) == {j \in S : j <= i}
           f == [i \in S |-> Rank(i, S)]
           N == Cardinality(S)
<1>1. N \in Nat /\ IsFiniteSet(1 .. N) /\ Cardinality(1 .. N) = N
  <2>1. N \in Nat
    BY FS_CardinalityType
  <2>. QED
    BY <2>1, FS_Interval
<1>2. ASSUME NEW i \in S PROVE IsFiniteSet(Before(i)) /\ Rank(i, S) \in 1 .. N
  <2>1. IsFiniteSet(Before(i)) /\ Cardinality(Before(i)) <= N
    BY FS_Subset
  <2>2. Cardinality(Before(i)) \in Nat
    BY <2>1, FS_CardinalityType
  <2>3. i \in Before(i)
    OBVIOUS
  <2>4. Cardinality(Before(i)) # 0
    BY <2>1, <2>3, FS_EmptySet
  <2>. QED
    BY <1>1, <2>1, <2>2, <2>4 DEF Rank
<1>3. ASSUME NEW i \in S, NEW j \in S, i < j PROVE Rank(i, S) # Rank(j, S)
  <2>1. i \in Nat /\ j \in Nat /\ \A k \in S : k \in Nat
    OBVIOUS
  <2>a. Before(i) \subseteq Before(j)
    <3>1. ASSUME NEW k \in S, k <= i PROVE k <= j
      BY <1>3, <2>1, <3>1
    <3>. QED
      BY <3>1
  <2>b. j \in Before(j) /\ j \notin Before(i)
    BY <1>3, <2>1
  <2>2. Cardinality(Before(i)) # Cardinality(Before(j))
    BY <1>2, <2>a, <2>b, FS_Subset
  <2>. QED
    BY <2>2 DEF Rank
<1>4. f \in Injection(S, 1 .. N)
  <2>1. f \in [S -> 1 .. N]
    BY <1>2
  <2>2. ASSUME NEW i \in S, NEW j \in S, f[i] = f[j] PROVE i = j
    <3>1. ~(i < j) /\ ~(j < i)
      BY <1>3, <2>2
    <3>. QED
      BY <3>1
  <2>. QED
    BY <2>1, <2>2 DEF Injection, IsInjective
<1>5. f \in Surjection(S, 1 .. N)
  BY <1>1, <1>4, FS_Injection
<1>. QED
  BY <1>5 DEF Surjection

\* The tracks of a playlist are distinct.
LEMMA UniqueIsDistinct ==
  ASSUME csv \in Corpora, NEW p
  PROVE  Unique(p) \in Seq(Nat) /\ Distinct(Unique(p))
<1> DEFINE rows == Rows(p)
           N == Cardinality(rows)
           i(n) == CHOOSE k \in rows : Rank(k, rows) = n
<1>1. csv \in Seq([playlist : Nat, track : Nat, valid : BOOLEAN])
  BY DemoAssumption
<1>2. /\ DOMAIN csv = 1 .. Len(csv) /\ Len(csv) \in Nat
      /\ \A k \in DOMAIN csv : csv[k] \in [playlist : Nat, track : Nat, valid : BOOLEAN]
  BY <1>1, LenProperties
<1>3. rows \in SUBSET Nat /\ rows \subseteq DOMAIN csv /\ IsFiniteSet(rows)
  <2>1. rows \in SUBSET Nat /\ rows \in SUBSET (1 .. Len(csv)) /\ rows \subseteq DOMAIN csv
    BY <1>2 DEF Rows
  <2>2. IsFiniteSet(1 .. Len(csv))
    BY <1>2, FS_Interval
  <2>. QED
    BY <2>1, <2>2, FS_Subset
<1>4. N \in Nat
  BY <1>3, FS_CardinalityType
<1>5. ASSUME NEW n \in 1 .. N PROVE i(n) \in rows /\ Rank(i(n), rows) = n
  <2>1. \E k \in rows : Rank(k, rows) = n
    BY <1>3, RankIsOnto
  <2>. QED
    BY <2>1
<1> DEFINE u == [n \in 1 .. N |-> csv[i(n)].track]
<1>6. Unique(p) = u
  BY DEF Unique
<1>7. \A n \in 1 .. N : csv[i(n)].track \in Nat
  BY <1>2, <1>3, <1>5
<1>8. ASSUME NEW k \in rows, NEW l \in rows, k < l PROVE csv[k].track # csv[l].track
  <2>1. csv[k].playlist = csv[l].playlist /\ csv[k].valid /\ csv[l].valid
    BY DEF Rows
  <2>2. csv[k] # csv[l]
    <3>1. k \in 1 .. l - 1
      BY <1>2, <1>3, <1>8
    <3>. QED
      BY <3>1 DEF Rows, Repeats
  <2>. QED
    BY <1>2, <1>3, <2>1, <2>2
<1>9. ASSUME NEW n \in 1 .. N, NEW m \in 1 .. N, u[n] = u[m] PROVE n = m
  <2>1. i(n) \in rows /\ i(m) \in rows /\ Rank(i(n), rows) = n /\ Rank(i(m), rows) = m
    BY <1>5
  <2>2. csv[i(n)].track = csv[i(m)].track
    BY <1>9
  <2>3. ~(i(n) < i(m)) /\ ~(i(m) < i(n))
    BY <1>8, <2>1, <2>2
  <2>4. i(n) \in Nat /\ i(m) \in Nat
    BY <1>3, <2>1
  <2>5. i(n) = i(m)
    BY <2>3, <2>4
  <2>. QED
    BY <2>1, <2>5
<1>10. u \in Seq(Nat)
  <2>1. u \in [1 .. N -> Nat]
    BY <1>7
  <2>. QED
    BY <1>4, <2>1, SeqDef
<1>11. Distinct(u)
  BY <1>9 DEF Distinct
<1>. QED
  BY <1>6, <1>10, <1>11

\* The state t of length L takes the tracks of u in the order g.
Takes(t, u, g, L) ==
    /\ DOMAIN t = 1 .. L /\ Len(t) = L
    /\ g \in [1 .. L -> DOMAIN u] /\ \A i, j \in 1 .. L : g[i] = g[j] => i = j
    /\ \A i \in 1 .. L : t[i] = u[g[i]]

\* Its tracks are as many, and are the ones that g takes.
Taken(t, u, g, L) ==
    /\ Cardinality(ToSet(t)) = L
    /\ \A k \in DOMAIN u : u[k] \in ToSet(t) <=> \E i \in 1 .. L : g[i] = k

LEMMA Reordered ==
  ASSUME NEW u, Distinct(u), NEW L \in Nat, NEW t, NEW g, Takes(t, u, g, L)
  PROVE  Taken(t, u, g, L)
<1> USE DEF Takes
<1>1. ToSet(t) = {t[i] : i \in 1 .. L}
  BY DEF ToSet
<1> DEFINE f == [i \in 1 .. L |-> t[i]]
<1>2. \A i, j \in 1 .. L : t[i] = t[j] => i = j
  BY DEF Distinct
<1>3. f \in Injection(1 .. L, ToSet(t)) /\ f \in Surjection(1 .. L, ToSet(t))
  <2>1. f \in [1 .. L -> ToSet(t)]
    BY <1>1
  <2>2. f \in Injection(1 .. L, ToSet(t))
    BY <1>2, <2>1 DEF Injection, IsInjective
  <2>3. f \in Surjection(1 .. L, ToSet(t))
    BY <1>1, <2>1 DEF Surjection
  <2>. QED
    BY <2>2, <2>3
<1>4. IsFiniteSet(1 .. L) /\ Cardinality(1 .. L) = L
  BY FS_Interval
<1>5. Cardinality(ToSet(t)) = L
  BY <1>3, <1>4, FS_Surjection
<1>6. ASSUME NEW k \in DOMAIN u
      PROVE  u[k] \in ToSet(t) <=> \E i \in 1 .. L : g[i] = k
  BY <1>1 DEF Distinct
<1>. QED
  BY <1>5, <1>6 DEF Taken

\* The positions in the playlist of the tracks of the second and third state.
SecondOrder(L) == [i \in 1 .. L |-> IF i = 1 THEN 2 ELSE IF i = 2 THEN 1
                                    ELSE IF i <= L - 2 THEN i ELSE i + 2]
ThirdOrder(L) == [i \in 1 .. L |-> IF i <= L - 4 THEN i + 2 ELSE IF i <= L - 2 THEN i + 4
                                   ELSE IF i = L - 1 THEN 2 ELSE L]

LEMMA OrdersAre ==
  ASSUME NEW L \in Nat, L >= 6
  PROVE  /\ \A i \in 1 .. L : SecondOrder(L)[i] = IF i = 1 THEN 2 ELSE IF i = 2 THEN 1
                                                  ELSE IF i <= L - 2 THEN i ELSE i + 2
         /\ \A i \in 1 .. L : ThirdOrder(L)[i] = IF i <= L - 4 THEN i + 2 ELSE IF i <= L - 2 THEN i + 4
                                                 ELSE IF i = L - 1 THEN 2 ELSE L
  BY DEF SecondOrder, ThirdOrder

\* Which tracks they take.
LEMMA SecondOrderTakes ==
  ASSUME NEW L \in Nat, L >= 6, NEW k \in Nat
  PROVE  (\E i \in 1 .. L : SecondOrder(L)[i] = k) <=> k \in 1 .. L - 2 \/ k \in L + 1 .. L + 2
<1>1. ASSUME NEW i \in 1 .. L PROVE SecondOrder(L)[i] = k => k \in 1 .. L - 2 \/ k \in L + 1 .. L + 2
  <2>1. SecondOrder(L)[i] = IF i = 1 THEN 2 ELSE IF i = 2 THEN 1 ELSE IF i <= L - 2 THEN i ELSE i + 2
    BY OrdersAre, Zenon
  <2>. QED
    BY <2>1
<1>2. CASE k = 1
  <2>1. 2 \in 1 .. L
    BY <1>2
  <2>2. SecondOrder(L)[2] = IF 2 = 1 THEN 2 ELSE IF 2 = 2 THEN 1 ELSE IF 2 <= L - 2 THEN 2 ELSE 2 + 2
    BY <2>1, OrdersAre, Zenon
  <2>3. SecondOrder(L)[2] = k
    BY <1>2, <2>2
  <2>. QED
    BY <1>2, <2>1, <2>3
<1>3. CASE k = 2
  <2>1. 1 \in 1 .. L
    BY <1>3
  <2>2. SecondOrder(L)[1] = IF 1 = 1 THEN 2 ELSE IF 1 = 2 THEN 1 ELSE IF 1 <= L - 2 THEN 1 ELSE 1 + 2
    BY <2>1, OrdersAre, Zenon
  <2>3. SecondOrder(L)[1] = k
    BY <1>3, <2>2
  <2>. QED
    BY <1>3, <2>1, <2>3
<1>4. CASE k \in 3 .. L - 2
  <2>1. k \in 1 .. L
    BY <1>4
  <2>2. SecondOrder(L)[k] = IF k = 1 THEN 2 ELSE IF k = 2 THEN 1 ELSE IF k <= L - 2 THEN k ELSE k + 2
    BY <2>1, OrdersAre, Zenon
  <2>3. SecondOrder(L)[k] = k
    BY <1>4, <2>2
  <2>. QED
    BY <1>4, <2>1, <2>3
<1>5. CASE k \in L + 1 .. L + 2
  <2>1. (k - 2) \in 1 .. L
    BY <1>5
  <2>2. SecondOrder(L)[(k - 2)] = IF (k - 2) = 1 THEN 2 ELSE IF (k - 2) = 2 THEN 1 ELSE IF (k - 2) <= L - 2 THEN (k - 2) ELSE (k - 2) + 2
    BY <2>1, OrdersAre, Zenon
  <2>3. SecondOrder(L)[(k - 2)] = k
    BY <1>5, <2>2
  <2>. QED
    BY <1>5, <2>1, <2>3
<1>. QED
  BY <1>1, <1>2, <1>3, <1>4, <1>5

LEMMA ThirdOrderTakes ==
  ASSUME NEW L \in Nat, L >= 6, NEW k \in Nat
  PROVE  (\E i \in 1 .. L : ThirdOrder(L)[i] = k) <=> k \in 2 .. L - 2 \/ k \in L .. L + 2
<1>1. ASSUME NEW i \in 1 .. L PROVE ThirdOrder(L)[i] = k => k \in 2 .. L - 2 \/ k \in L .. L + 2
  <2>1. ThirdOrder(L)[i] = IF i <= L - 4 THEN i + 2 ELSE IF i <= L - 2 THEN i + 4 ELSE IF i = L - 1 THEN 2 ELSE L
    BY OrdersAre, Zenon
  <2>. QED
    BY <2>1
<1>2. CASE k = 2
  <2>1. (L - 1) \in 1 .. L
    BY <1>2
  <2>2. ThirdOrder(L)[(L - 1)] = IF (L - 1) <= L - 4 THEN (L - 1) + 2 ELSE IF (L - 1) <= L - 2 THEN (L - 1) + 4 ELSE IF (L - 1) = L - 1 THEN 2 ELSE L
    BY <2>1, OrdersAre, Zenon
  <2>3. ThirdOrder(L)[(L - 1)] = k
    BY <1>2, <2>2
  <2>. QED
    BY <1>2, <2>1, <2>3
<1>3. CASE k \in 3 .. L - 2
  <2>1. (k - 2) \in 1 .. L
    BY <1>3
  <2>2. ThirdOrder(L)[(k - 2)] = IF (k - 2) <= L - 4 THEN (k - 2) + 2 ELSE IF (k - 2) <= L - 2 THEN (k - 2) + 4 ELSE IF (k - 2) = L - 1 THEN 2 ELSE L
    BY <2>1, OrdersAre, Zenon
  <2>3. ThirdOrder(L)[(k - 2)] = k
    BY <1>3, <2>2
  <2>. QED
    BY <1>3, <2>1, <2>3
<1>4. CASE k = L
  <2>1. L \in 1 .. L
    BY <1>4
  <2>2. ThirdOrder(L)[L] = IF L <= L - 4 THEN L + 2 ELSE IF L <= L - 2 THEN L + 4 ELSE IF L = L - 1 THEN 2 ELSE L
    BY <2>1, OrdersAre, Zenon
  <2>3. ThirdOrder(L)[L] = k
    BY <1>4, <2>2
  <2>. QED
    BY <1>4, <2>1, <2>3
<1>5. CASE k \in L + 1 .. L + 2
  <2>1. (k - 4) \in 1 .. L
    BY <1>5
  <2>2. ThirdOrder(L)[(k - 4)] = IF (k - 4) <= L - 4 THEN (k - 4) + 2 ELSE IF (k - 4) <= L - 2 THEN (k - 4) + 4 ELSE IF (k - 4) = L - 1 THEN 2 ELSE L
    BY <2>1, OrdersAre, Zenon
  <2>3. ThirdOrder(L)[(k - 4)] = k
    BY <1>5, <2>2
  <2>. QED
    BY <1>5, <2>1, <2>3
<1>. QED
  BY <1>1, <1>2, <1>3, <1>4, <1>5

\* Two sequences in a row, and a sequence without its first two elements.
LEMMA Joined ==
  ASSUME NEW s \in Seq(Nat), NEW t \in Seq(Nat)
  PROVE  /\ s \o t \in Seq(Nat) /\ Len(s \o t) = Len(s) + Len(t)
         /\ \A i \in 1 .. Len(s) : (s \o t)[i] = s[i]
         /\ \A i \in 1 .. Len(t) : (s \o t)[Len(s) + i] = t[i]
<1>1. /\ s \o t \in Seq(Nat) /\ Len(s \o t) = Len(s) + Len(t)
      /\ \A i \in 1 .. Len(s) + Len(t) : (s \o t)[i] = IF i <= Len(s) THEN s[i] ELSE t[i - Len(s)]
  BY ConcatProperties, Zenon
<1>2. Len(s) \in Nat /\ Len(t) \in Nat
  BY LenProperties
<1>3. ASSUME NEW i \in 1 .. Len(t) PROVE (s \o t)[Len(s) + i] = t[i]
  <2>1. Len(s) + i \in 1 .. Len(s) + Len(t) /\ ~(Len(s) + i <= Len(s)) /\ Len(s) + i - Len(s) = i
    BY <1>2
  <2>. QED
    BY <1>1, <2>1
<1>4. ASSUME NEW i \in 1 .. Len(s) PROVE (s \o t)[i] = s[i]
  BY <1>1, <1>2
<1>. QED
  BY <1>1, <1>3, <1>4

LEMMA Dropped ==
  ASSUME NEW s \in Seq(Nat), NEW n \in Nat, Len(s) = n + 2
  PROVE  /\ Tail(Tail(s)) \in Seq(Nat) /\ Len(Tail(Tail(s))) = n
         /\ \A i \in 1 .. n : Tail(Tail(s))[i] = s[i + 2]
<1>0. ASSUME NEW t \in Seq(Nat), NEW m \in Nat, Len(t) = m + 1
      PROVE  /\ Tail(t) \in Seq(Nat) /\ Len(Tail(t)) = m
             /\ \A i \in 1 .. m : Tail(t)[i] = t[i + 1]
  <2>1. Len(<<>>) = 0
    BY EmptySeq
  <2>2. t # <<>>
    BY <1>0, <2>1
  <2>3. Tail(t) \in Seq(Nat) /\ Len(Tail(t)) = Len(t) - 1
        /\ \A i \in 1 .. Len(Tail(t)) : Tail(t)[i] = t[i + 1]
    BY <2>2, HeadTailProperties, Zenon
  <2>4. Len(Tail(t)) = m
    BY <1>0, <2>3
  <2>. QED
    BY <2>3, <2>4
<1>1. /\ Tail(s) \in Seq(Nat) /\ Len(Tail(s)) = n + 1
      /\ \A i \in 1 .. n + 1 : Tail(s)[i] = s[i + 1]
  <2>1. n + 1 \in Nat /\ Len(s) = (n + 1) + 1
    OBVIOUS
  <2>. QED
    BY <1>0, <2>1
<1>2. /\ Tail(Tail(s)) \in Seq(Nat) /\ Len(Tail(Tail(s))) = n
      /\ \A i \in 1 .. n : Tail(Tail(s))[i] = Tail(s)[i + 1]
  BY <1>0, <1>1
<1>3. ASSUME NEW i \in 1 .. n PROVE Tail(Tail(s))[i] = s[i + 2]
  <2>1. i + 1 \in 1 .. n + 1 /\ i + 1 + 1 = i + 2
    OBVIOUS
  <2>. QED
    BY <1>1, <1>2, <2>1
<1>. QED
  BY <1>2, <1>3

\* The second state has its first two tracks swapped and its last two replaced.
LEMMA SecondStateIs ==
  ASSUME NEW L \in Nat, L >= 6, NEW base \in Seq(Nat), Len(base) = L,
         NEW donors \in Seq(Nat), Len(donors) = 2
  PROVE  LET second == SecondState(base, donors)
         IN  /\ second \in Seq(Nat) /\ Len(second) = L
             /\ second[1] = base[2] /\ second[2] = base[1]
             /\ \A i \in 3 .. L - 2 : second[i] = base[i]
             /\ second[L - 1] = donors[1] /\ second[L] = donors[2]
<1>0. \A i \in 1 .. L : base[i] \in Nat
  BY ElementOfSeq
<1>1. PICK swapped : swapped = <<base[2], base[1]>>
  OBVIOUS
<1>2. swapped \in Seq(Nat) /\ Len(swapped) = 2 /\ swapped[1] = base[2] /\ swapped[2] = base[1]
  BY <1>0, <1>1
<1>3. PICK middle : middle = SubSeq(base, 3, L - 2)
  OBVIOUS
<1>4. middle \in Seq(Nat) /\ Len(middle) = L - 4 /\ \A i \in 1 .. L - 4 : middle[i] = base[i + 2]
  <2>1. \A i \in 3 .. L - 2 : base[i] \in Nat
    BY <1>0
  <2>2. /\ middle \in Seq(Nat) /\ Len(middle) = IF 3 <= L - 2 THEN (L - 2) - 3 + 1 ELSE 0
        /\ \A i \in 1 .. (L - 2) - 3 + 1 : middle[i] = base[3 + i - 1]
    <3>1. 3 \in Int /\ L - 2 \in Int
      OBVIOUS
    <3>. QED
      BY <1>3, <2>1, <3>1, SubSeqProperties
  <2>3. (L - 2) - 3 + 1 = L - 4 /\ 3 <= L - 2 /\ \A i \in 1 .. L - 4 : 3 + i - 1 = i + 2
    OBVIOUS
  <2>. QED
    BY <2>2, <2>3
<1>5. PICK start : start = swapped \o middle
  OBVIOUS
<1>6. /\ start \in Seq(Nat) /\ Len(start) = L - 2
      /\ \A i \in 1 .. 2 : start[i] = swapped[i]
      /\ \A i \in 1 .. L - 4 : start[2 + i] = middle[i]
  <2>1. 2 \in Nat /\ L - 4 \in Nat /\ 2 + (L - 4) = L - 2
    OBVIOUS
  <2>2. /\ swapped \o middle \in Seq(Nat) /\ Len(swapped \o middle) = 2 + (L - 4)
        /\ \A i \in 1 .. 2 : (swapped \o middle)[i] = swapped[i]
        /\ \A i \in 1 .. L - 4 : (swapped \o middle)[2 + i] = middle[i]
    <3>1. /\ swapped \o middle \in Seq(Nat) /\ Len(swapped \o middle) = Len(swapped) + Len(middle)
          /\ \A i \in 1 .. Len(swapped) : (swapped \o middle)[i] = swapped[i]
          /\ \A i \in 1 .. Len(middle) : (swapped \o middle)[Len(swapped) + i] = middle[i]
      BY <1>2, <1>4, Joined, Zenon
    <3>. QED
      BY <1>2, <1>4, <3>1, Zenon
  <2>. QED
    BY <1>5, <2>1, <2>2, Zenon
<1>7. PICK second : second = start \o donors
  OBVIOUS
<1>8. /\ second \in Seq(Nat) /\ Len(second) = L
      /\ \A i \in 1 .. L - 2 : second[i] = start[i]
      /\ \A i \in 1 .. 2 : second[L - 2 + i] = donors[i]
  <2>1. 2 \in Nat /\ L - 2 \in Nat /\ (L - 2) + 2 = L
    OBVIOUS
  <2>2. /\ start \o donors \in Seq(Nat) /\ Len(start \o donors) = (L - 2) + 2
        /\ \A i \in 1 .. L - 2 : (start \o donors)[i] = start[i]
        /\ \A i \in 1 .. 2 : (start \o donors)[L - 2 + i] = donors[i]
    <3>1. /\ start \o donors \in Seq(Nat) /\ Len(start \o donors) = Len(start) + Len(donors)
          /\ \A i \in 1 .. Len(start) : (start \o donors)[i] = start[i]
          /\ \A i \in 1 .. Len(donors) : (start \o donors)[Len(start) + i] = donors[i]
      BY <1>6, Joined, Zenon
    <3>. QED
      BY <1>6, <3>1, Zenon
  <2>. QED
    BY <1>7, <2>1, <2>2, Zenon
<1>9. SecondState(base, donors) = second
  BY <1>1, <1>3, <1>5, <1>7 DEF SecondState
<1>10. second[1] = base[2] /\ second[2] = base[1]
  <2>1. 1 \in 1 .. L - 2 /\ 2 \in 1 .. L - 2 /\ 1 \in 1 .. 2 /\ 2 \in 1 .. 2
    OBVIOUS
  <2>. QED
    BY <1>2, <1>6, <1>8, <2>1, Zenon
<1>11. ASSUME NEW i \in 3 .. L - 2 PROVE second[i] = base[i]
  <2>1. i - 2 \in 1 .. L - 4 /\ 2 + (i - 2) = i /\ (i - 2) + 2 = i /\ i \in 1 .. L - 2
    OBVIOUS
  <2>2. second[i] = start[i] /\ start[2 + (i - 2)] = middle[i - 2] /\ middle[i - 2] = base[(i - 2) + 2]
    BY <1>4, <1>6, <1>8, <2>1
  <2>. QED
    BY <2>1, <2>2
<1>12. second[L - 1] = donors[1] /\ second[L] = donors[2]
  <2>1. L - 2 + 1 = L - 1 /\ L - 2 + 2 = L
    OBVIOUS
  <2>2. second[L - 2 + 1] = donors[1] /\ second[L - 2 + 2] = donors[2]
    BY <1>8
  <2>. QED
    BY <2>1, <2>2
<1>. QED
  BY <1>8, <1>9, <1>10, <1>11, <1>12

\* The three states as sequences.
LEMMA StatesAre ==
  ASSUME NEW u \in Seq(Nat), NEW L \in Nat, L >= 6, Len(u) >= L + 2
  PROVE  \E base, second, third :
           /\ TemporalTrackSets(u, L) = <<base, second, third>>
           /\ \A t \in {base, second, third} : DOMAIN t = 1 .. L /\ Len(t) = L
           /\ \A i \in 1 .. L : /\ base[i] = u[i] /\ second[i] = u[SecondOrder(L)[i]]
                                /\ third[i] = u[ThirdOrder(L)[i]]
<1>1. Len(u) \in Nat /\ DOMAIN u = 1 .. Len(u) /\ \A k \in 1 .. Len(u) : u[k] \in Nat
  BY LenProperties, ElementOfSeq
<1>2. PICK base : base = SubSeq(u, 1, L)
  OBVIOUS
<1>3. base \in Seq(Nat) /\ Len(base) = L /\ \A i \in 1 .. L : base[i] = u[i]
  <2>1. \A i \in 1 .. L : u[i] \in Nat
    BY <1>1
  <2>. QED
    BY <1>2, <2>1, SubSeqProperties
<1>4. PICK donors : donors = SubSeq(u, L + 1, L + 2)
  OBVIOUS
<1>5. donors \in Seq(Nat) /\ Len(donors) = 2 /\ donors[1] = u[L + 1] /\ donors[2] = u[L + 2]
  <2>1. \A i \in L + 1 .. L + 2 : u[i] \in Nat
    BY <1>1
  <2>2. donors \in Seq(Nat) /\ Len(donors) = 2 /\ \A i \in 1 .. 2 : donors[i] = u[L + 1 + i - 1]
    BY <1>4, <2>1, SubSeqProperties
  <2>3. L + 1 + 1 - 1 = L + 1 /\ L + 1 + 2 - 1 = L + 2
    OBVIOUS
  <2>. QED
    BY <2>2, <2>3
<1>6. PICK second : second = SecondState(base, donors)
  OBVIOUS
<1>7. /\ second \in Seq(Nat) /\ Len(second) = L
      /\ second[1] = u[2] /\ second[2] = u[1]
      /\ \A i \in 3 .. L - 2 : second[i] = u[i]
      /\ second[L - 1] = u[L + 1] /\ second[L] = u[L + 2]
  <2>1. base[1] = u[1] /\ base[2] = u[2]
    <3>1. 1 \in 1 .. L /\ 2 \in 1 .. L
      OBVIOUS
    <3>. QED
      BY <1>3, <3>1, Zenon
  <2>2. ASSUME NEW i \in 3 .. L - 2 PROVE base[i] = u[i]
    <3>1. i \in 1 .. L
      OBVIOUS
    <3>. QED
      BY <1>3, <3>1, Zenon
  <2>3. /\ second \in Seq(Nat) /\ Len(second) = L
        /\ second[1] = base[2] /\ second[2] = base[1]
        /\ \A i \in 3 .. L - 2 : second[i] = base[i]
        /\ second[L - 1] = donors[1] /\ second[L] = donors[2]
    <3>1. /\ SecondState(base, donors) \in Seq(Nat) /\ Len(SecondState(base, donors)) = L
          /\ SecondState(base, donors)[1] = base[2] /\ SecondState(base, donors)[2] = base[1]
          /\ \A i \in 3 .. L - 2 : SecondState(base, donors)[i] = base[i]
          /\ SecondState(base, donors)[L - 1] = donors[1] /\ SecondState(base, donors)[L] = donors[2]
      BY <1>3, <1>5, SecondStateIs, Zenon
    <3>. QED
      BY <1>6, <3>1, Zenon
  <2>. QED
    BY <1>5, <2>1, <2>2, <2>3, Zenon
<1>8. PICK rest : rest = Tail(Tail(second))
  OBVIOUS
<1>9. rest \in Seq(Nat) /\ Len(rest) = L - 2 /\ \A i \in 1 .. L - 2 : rest[i] = second[i + 2]
  <2>1. 2 \in Nat /\ L - 2 \in Nat /\ (L - 2) + 2 = L
    OBVIOUS
  <2>. QED
    BY <1>7, <1>8, <2>1, Dropped
<1>10. PICK last : last = <<second[1], base[L]>>
  OBVIOUS
<1>11. last \in Seq(Nat) /\ Len(last) = 2 /\ last[1] = u[2] /\ last[2] = u[L]
  <2>1. second[1] = u[2] /\ base[L] = u[L] /\ u[2] \in Nat /\ u[L] \in Nat
    BY <1>1, <1>3, <1>7
  <2>. QED
    BY <1>10, <2>1
<1>12. PICK third : third = rest \o last
  OBVIOUS
<1>13. /\ third \in Seq(Nat) /\ Len(third) = L
       /\ \A i \in 1 .. L - 2 : third[i] = rest[i]
       /\ \A i \in 1 .. 2 : third[L - 2 + i] = last[i]
  <2>1. 2 \in Nat /\ L - 2 \in Nat /\ (L - 2) + 2 = L
    OBVIOUS
  <2>2. /\ rest \o last \in Seq(Nat) /\ Len(rest \o last) = (L - 2) + 2
        /\ \A i \in 1 .. L - 2 : (rest \o last)[i] = rest[i]
        /\ \A i \in 1 .. 2 : (rest \o last)[L - 2 + i] = last[i]
    <3>1. /\ rest \o last \in Seq(Nat) /\ Len(rest \o last) = Len(rest) + Len(last)
          /\ \A i \in 1 .. Len(rest) : (rest \o last)[i] = rest[i]
          /\ \A i \in 1 .. Len(last) : (rest \o last)[Len(rest) + i] = last[i]
      BY <1>9, <1>11, Joined, Zenon
    <3>. QED
      BY <1>9, <1>11, <3>1, Zenon
  <2>. QED
    BY <1>12, <2>1, <2>2, Zenon
<1>14. TemporalTrackSets(u, L) = <<base, second, third>>
  BY <1>2, <1>4, <1>6, <1>8, <1>10, <1>12 DEF TemporalTrackSets
<1>15. \A t \in {base, second, third} : DOMAIN t = 1 .. L /\ Len(t) = L
  BY <1>3, <1>7, <1>13, LenProperties
<1>16. ASSUME NEW i \in 1 .. L PROVE second[i] = u[SecondOrder(L)[i]]
  <2>0. SecondOrder(L)[i] = IF i = 1 THEN 2 ELSE IF i = 2 THEN 1 ELSE IF i <= L - 2 THEN i ELSE i + 2
    BY OrdersAre
  <2>1. CASE i = 1
    BY <1>7, <2>0, <2>1
  <2>2. CASE i = 2
    BY <1>7, <2>0, <2>2
  <2>3. CASE i \in 3 .. L - 2
    <3>1. SecondOrder(L)[i] = i
      BY <2>0, <2>3
    <3>. QED
      BY <1>7, <2>3, <3>1
  <2>4. CASE i = L - 1
    <3>1. SecondOrder(L)[i] = L + 1
      BY <2>0, <2>4
    <3>. QED
      BY <1>7, <2>4, <3>1
  <2>5. CASE i = L
    <3>1. SecondOrder(L)[i] = L + 2
      BY <2>0, <2>5
    <3>. QED
      BY <1>7, <2>5, <3>1
  <2>6. i = 1 \/ i = 2 \/ i \in 3 .. L - 2 \/ i = L - 1 \/ i = L
    OBVIOUS
  <2>. QED
    BY <2>1, <2>2, <2>3, <2>4, <2>5, <2>6, Zenon
<1>17. ASSUME NEW i \in 1 .. L PROVE third[i] = u[ThirdOrder(L)[i]]
  <2>0. ThirdOrder(L)[i] = IF i <= L - 4 THEN i + 2 ELSE IF i <= L - 2 THEN i + 4
                           ELSE IF i = L - 1 THEN 2 ELSE L
    BY OrdersAre
  <2>1. CASE i \in 1 .. L - 4
    <3>1. ThirdOrder(L)[i] = i + 2 /\ i + 2 \in 3 .. L - 2 /\ i \in 1 .. L - 2
      BY <2>0, <2>1
    <3>2. third[i] = second[i + 2]
      BY <1>9, <1>13, <3>1
    <3>. QED
      BY <1>7, <3>1, <3>2
  <2>2. CASE i = L - 3
    <3>1. ThirdOrder(L)[i] = L + 1 /\ i + 2 = L - 1 /\ i \in 1 .. L - 2
      BY <2>0, <2>2
    <3>2. third[i] = second[i + 2]
      BY <1>9, <1>13, <3>1
    <3>. QED
      BY <1>7, <3>1, <3>2
  <2>3. CASE i = L - 2
    <3>1. ThirdOrder(L)[i] = L + 2 /\ i + 2 = L /\ i \in 1 .. L - 2
      BY <2>0, <2>3
    <3>2. third[i] = second[i + 2]
      BY <1>9, <1>13, <3>1
    <3>. QED
      BY <1>7, <3>1, <3>2
  <2>4. CASE i = L - 1
    <3>1. ThirdOrder(L)[i] = 2 /\ i = L - 2 + 1
      BY <2>0, <2>4
    <3>2. third[L - 2 + 1] = last[1]
      BY <1>13
    <3>. QED
      BY <1>11, <3>1, <3>2
  <2>5. CASE i = L
    <3>1. ThirdOrder(L)[i] = L /\ i = L - 2 + 2
      BY <2>0, <2>5
    <3>2. third[L - 2 + 2] = last[2]
      BY <1>13
    <3>. QED
      BY <1>11, <3>1, <3>2
  <2>6. i \in 1 .. L - 4 \/ i = L - 3 \/ i = L - 2 \/ i = L - 1 \/ i = L
    OBVIOUS
  <2>. QED
    BY <2>1, <2>2, <2>3, <2>4, <2>5, <2>6, Zenon
<1>18. \A i \in 1 .. L : /\ base[i] = u[i] /\ second[i] = u[SecondOrder(L)[i]]
                         /\ third[i] = u[ThirdOrder(L)[i]]
  BY <1>3, <1>16, <1>17
<1>. WITNESS base, second, third
<1>. QED
  BY <1>14, <1>15, <1>18, Zenon

\* What StatesShowChange says of three sequences.
ShowChange(s1, s2, s3, L) ==
    /\ \A t \in {s1, s2, s3} : Len(t) = L /\ Cardinality(ToSet(t)) = L
    /\ ToSet(s2) \ ToSet(s1) # {} /\ ToSet(s1) \ ToSet(s2) # {} /\ ToSet(s1) \cap ToSet(s2) # {}
    /\ ToSet(s3) \ ToSet(s2) # {} /\ ToSet(s2) \ ToSet(s3) # {} /\ ToSet(s2) \cap ToSet(s3) # {}
    /\ (ToSet(s3) \cap ToSet(s1)) \ ToSet(s2) # {}

\* Track 1 is in the first two states, 2 in all, limit in the first and the third,
\* limit + 1 in the second and the third.
LEMMA ThreeStates ==
  ASSUME NEW u \in Seq(Nat), Distinct(u), NEW L \in Nat, L >= 6, Len(u) >= L + 2
  PROVE  \E s1, s2, s3 : TemporalTrackSets(u, L) = <<s1, s2, s3>> /\ ShowChange(s1, s2, s3, L)
<1>1. PICK s1, s2, s3 :
           /\ TemporalTrackSets(u, L) = <<s1, s2, s3>>
           /\ \A t \in {s1, s2, s3} : DOMAIN t = 1 .. L /\ Len(t) = L
           /\ \A i \in 1 .. L : /\ s1[i] = u[i] /\ s2[i] = u[SecondOrder(L)[i]]
                                /\ s3[i] = u[ThirdOrder(L)[i]]
  BY StatesAre, Zenon
<1>2. DOMAIN u = 1 .. Len(u) /\ Len(u) \in Nat
  BY LenProperties
<1>3. 1 \in DOMAIN u /\ 2 \in DOMAIN u /\ L \in DOMAIN u /\ L + 1 \in DOMAIN u
  BY <1>2
<1>4. /\ Cardinality(ToSet(s1)) = L
      /\ \A k \in DOMAIN u : u[k] \in ToSet(s1) <=> k \in 1 .. L
  <2>1. PICK g : g = [i \in 1 .. L |-> i]
    OBVIOUS
  <2>2. Takes(s1, u, g, L)
    BY <1>1, <1>2, <2>1 DEF Takes
  <2>3. Taken(s1, u, g, L)
    BY <2>2, Reordered, Zenon
  <2>. QED
    BY <2>1, <2>3 DEF Taken
<1>5. /\ Cardinality(ToSet(s2)) = L
      /\ \A k \in DOMAIN u : u[k] \in ToSet(s2) <=> k \in 1 .. L - 2 \/ k \in L + 1 .. L + 2
  <2>1. PICK g : g = SecondOrder(L)
    OBVIOUS
  <2>2. \A i \in 1 .. L : g[i] = IF i = 1 THEN 2 ELSE IF i = 2 THEN 1 ELSE IF i <= L - 2 THEN i ELSE i + 2
    BY <2>1, OrdersAre, Zenon
  <2>3. Takes(s2, u, g, L)
    <3>1. g \in [1 .. L -> DOMAIN u]
      BY <1>2, <2>1 DEF SecondOrder
    <3>2. ASSUME NEW i \in 1 .. L, NEW j \in 1 .. L, g[i] = g[j] PROVE i = j
      BY <2>2, <3>2
    <3>3. \A i \in 1 .. L : s2[i] = u[g[i]]
      BY <1>1, <2>1
    <3>4. DOMAIN s2 = 1 .. L /\ Len(s2) = L
      BY <1>1
    <3>. QED
      BY <3>1, <3>2, <3>3, <3>4 DEF Takes
  <2>4. Taken(s2, u, g, L)
    BY <2>3, Reordered, Zenon
  <2>5. ASSUME NEW k \in DOMAIN u PROVE (\E i \in 1 .. L : g[i] = k) <=> k \in 1 .. L - 2 \/ k \in L + 1 .. L + 2
    <3>1. k \in Nat
      BY <1>2
    <3>. QED
      BY <2>1, <3>1, SecondOrderTakes, Zenon
  <2>. QED
    BY <2>4, <2>5, Zenon DEF Taken
<1>6. /\ Cardinality(ToSet(s3)) = L
      /\ \A k \in DOMAIN u : u[k] \in ToSet(s3) <=> k \in 2 .. L - 2 \/ k \in L .. L + 2
  <2>1. PICK g : g = ThirdOrder(L)
    OBVIOUS
  <2>2. \A i \in 1 .. L : g[i] = IF i <= L - 4 THEN i + 2 ELSE IF i <= L - 2 THEN i + 4 ELSE IF i = L - 1 THEN 2 ELSE L
    BY <2>1, OrdersAre, Zenon
  <2>3. Takes(s3, u, g, L)
    <3>1. g \in [1 .. L -> DOMAIN u]
      BY <1>2, <2>1 DEF ThirdOrder
    <3>2. ASSUME NEW i \in 1 .. L, NEW j \in 1 .. L, g[i] = g[j] PROVE i = j
      BY <2>2, <3>2
    <3>3. \A i \in 1 .. L : s3[i] = u[g[i]]
      BY <1>1, <2>1
    <3>4. DOMAIN s3 = 1 .. L /\ Len(s3) = L
      BY <1>1
    <3>. QED
      BY <3>1, <3>2, <3>3, <3>4 DEF Takes
  <2>4. Taken(s3, u, g, L)
    BY <2>3, Reordered, Zenon
  <2>5. ASSUME NEW k \in DOMAIN u PROVE (\E i \in 1 .. L : g[i] = k) <=> k \in 2 .. L - 2 \/ k \in L .. L + 2
    <3>1. k \in Nat
      BY <1>2
    <3>. QED
      BY <2>1, <3>1, ThirdOrderTakes, Zenon
  <2>. QED
    BY <2>4, <2>5, Zenon DEF Taken
<1>7. 1 \in 1 .. L /\ L \in 1 .. L /\ ~(L + 1 \in 1 .. L)
  OBVIOUS
<1>8. (1 \in 1 .. L - 2 \/ 1 \in L + 1 .. L + 2) /\ ~(L \in 1 .. L - 2 \/ L \in L + 1 .. L + 2) /\ ((L + 1) \in 1 .. L - 2 \/ (L + 1) \in L + 1 .. L + 2)
  OBVIOUS
<1>9. ~(1 \in 2 .. L - 2 \/ 1 \in L .. L + 2) /\ (L \in 2 .. L - 2 \/ L \in L .. L + 2) /\ ((L + 1) \in 2 .. L - 2 \/ (L + 1) \in L .. L + 2)
  OBVIOUS
<1>10. /\ u[1] \in ToSet(s1) /\ u[1] \in ToSet(s2) /\ u[1] \notin ToSet(s3)
       /\ u[L] \in ToSet(s1) /\ u[L] \notin ToSet(s2) /\ u[L] \in ToSet(s3)
       /\ u[L + 1] \notin ToSet(s1) /\ u[L + 1] \in ToSet(s2) /\ u[L + 1] \in ToSet(s3)
  <2>1. u[1] \in ToSet(s1) /\ u[L] \in ToSet(s1) /\ u[L + 1] \notin ToSet(s1)
    BY <1>3, <1>4, <1>7, Zenon
  <2>2. u[1] \in ToSet(s2) /\ u[L] \notin ToSet(s2) /\ u[L + 1] \in ToSet(s2)
    BY <1>3, <1>5, <1>8, Zenon
  <2>3. u[1] \notin ToSet(s3) /\ u[L] \in ToSet(s3) /\ u[L + 1] \in ToSet(s3)
    BY <1>3, <1>6, <1>9, Zenon
  <2>. QED
    BY <2>1, <2>2, <2>3, Zenon
<1>11. ShowChange(s1, s2, s3, L)
  <2>1. \A t \in {s1, s2, s3} : Len(t) = L /\ Cardinality(ToSet(t)) = L
    BY <1>1, <1>4, <1>5, <1>6, Zenon
  <2>. QED
    BY <1>10, <2>1, Zenon DEF ShowChange
<1>. QED
  BY <1>1, <1>11, Zenon

\* A generation is drawn from the first playlist with enough tracks.
LEMMA DrawShowsChange ==
  ASSUME TypeOK, NEW first \in Days, NEW limit \in TrackLimits, Generate(first, limit)
  PROVE  \E s1, s2, s3 : /\ ShowChange(s1, s2, s3, limit)
                         /\ \A d \in 1 .. 3 : snapshots'[d].tracks = <<s1, s2, s3>>[d]
<1>1. PICK p : p = Min(Eligible(limit))
  OBVIOUS
<1>2. p \in Eligible(limit)
  <2>1. csv \in Seq([playlist : Nat, track : Nat, valid : BOOLEAN])
    BY DemoAssumption DEF TypeOK
  <2>2. \A i \in DOMAIN csv : csv[i] \in [playlist : Nat, track : Nat, valid : BOOLEAN]
    BY <2>1, LenProperties
  <2>3. Eligible(limit) \in SUBSET Nat /\ Eligible(limit) # {}
    BY <2>2 DEF Eligible, Generate
  <2>4. PICK k \in Eligible(limit) : \A j \in Eligible(limit) : ~(j < k)
    BY <2>3, Least
  <2>5. \A j \in Eligible(limit) : k <= j
    BY <2>3, <2>4
  <2>. QED
    BY <1>1, <2>5 DEF Min
<1>3. Unique(p) \in Seq(Nat) /\ Distinct(Unique(p))
  BY UniqueIsDistinct DEF TypeOK
<1>4. limit \in Nat /\ limit >= 6 /\ Len(Unique(p)) >= limit + 2
  BY <1>2, TypeFacts DEF Eligible
<1>5. PICK s1, s2, s3 : TemporalTrackSets(Unique(p), limit) = <<s1, s2, s3>> /\ ShowChange(s1, s2, s3, limit)
  BY <1>3, <1>4, ThreeStates, Zenon
<1>6. snapshots' = [d \in 1 .. 3 |-> [playlist |-> p, date |-> first + d - 1,
                                     tracks |-> TemporalTrackSets(Unique(p), limit)[d]]]
  BY <1>1 DEF Generate
<1>7. \A d \in 1 .. 3 : snapshots'[d].tracks = <<s1, s2, s3>>[d]
  BY <1>5, <1>6
<1>. QED
  BY <1>5, <1>7

\* Every generation shows new, retained, departed and returning tracks.
THEOREM GenerationsShowChange == Spec => []StatesShowChange
<1>1. Init => StatesShowChange
  BY DEF Init, StatesShowChange
<1>2. ASSUME TypeOK, StatesShowChange, [Next]_vars PROVE StatesShowChange'
  <2>1. ASSUME NEW first \in Days, NEW limit \in TrackLimits, Generate(first, limit)
        PROVE  StatesShowChange'
    <3>1. PICK s1, s2, s3 : /\ ShowChange(s1, s2, s3, limit)
                            /\ \A d \in 1 .. 3 : snapshots'[d].tracks = <<s1, s2, s3>>[d]
      BY <1>2, <2>1, DrawShowsChange
    <3>2. snapshots'[1].tracks = s1 /\ snapshots'[2].tracks = s2 /\ snapshots'[3].tracks = s3
      BY <3>1
    <3>3. ASSUME NEW d \in 1 .. 3
          PROVE  /\ Len(snapshots'[d].tracks) = limit
                 /\ Cardinality(ToSet(snapshots'[d].tracks)) = limit
      BY <3>1 DEF ShowChange
    <3>. QED
      BY <3>1, <3>2, <3>3 DEF ShowChange, StatesShowChange
  <2>2. CASE UNCHANGED snapshots
    BY <1>2, <2>2 DEF StatesShowChange
  <2>. QED
    BY <1>2, <2>1, <2>2
       DEF Next, vars, generatorVars, BeginWrite, EndWrite, Kill, ReadManifest, ReadSnapshot, Plan
<1>. QED
  BY <1>1, <1>2, DemoTypes, PTL DEF Spec

-----------------------------------------------------------------------------
(* LocalBronzeWriter.                                                       *)

CONSTANTS Writers, Keys

VARIABLES key, pc, result, content, durable, temporaries, bronze, powerLost

Local == INSTANCE LocalBronze

\* Nothing has been written yet.
LEMMA InitLocal == Local!Init => Local!LocalInv
<1> SUFFICES ASSUME Local!Init PROVE Local!LocalInv
  OBVIOUS
<1> USE DEF Local!Init, Local!Destinations
<1>1. Local!TypeOK
  BY DEF Local!TypeOK
<1>2. Local!DurableIsWhole /\ Local!LinkedIsDurable /\ Local!NoLeftovers
  BY DEF Local!DurableIsWhole, Local!LinkedIsDurable, Local!NoLeftovers
<1>. QED
  BY <1>1, <1>2 DEF Local!LocalInv

\* Every step keeps the types.
LEMMA LocalTypeStep == Local!TypeOK /\ [Local!Next]_(Local!vars) => Local!TypeOK'
<1> SUFFICES ASSUME Local!TypeOK, [Local!Next]_(Local!vars) PROVE Local!TypeOK'
  OBVIOUS
<1> USE DEF Local!TypeOK
<1>1. ASSUME NEW w \in Writers, Local!Write(w) \/ Local!Kill(w) PROVE Local!TypeOK'
  <2> USE DEF Local!Goto, Local!Finally, Local!files
  <2>1. CASE Local!CreateTemporary(w)
    BY <2>1 DEF Local!CreateTemporary
  <2>2. CASE Local!WriteAndFlush(w)
    BY <2>2 DEF Local!WriteAndFlush
  <2>3. CASE Local!Sync(w)
    BY <2>3 DEF Local!Sync
  <2>4. CASE Local!OperationFails(w)
    BY <2>4 DEF Local!OperationFails
  <2>5. CASE Local!Link(w)
    BY <2>5 DEF Local!Link
  <2>6. CASE Local!AlreadyExists(w)
    BY <2>6 DEF Local!AlreadyExists
  <2>7. CASE Local!Unlink(w)
    BY <2>7 DEF Local!Unlink
  <2>8. CASE Local!Kill(w)
    BY <2>8 DEF Local!Kill
  <2>. QED
    BY <1>1, <2>1, <2>2, <2>3, <2>4, <2>5, <2>6, <2>7, <2>8 DEF Local!Write
<1>2. CASE Local!PowerLoss
  BY <1>2 DEF Local!PowerLoss
<1>3. CASE UNCHANGED Local!vars
  BY <1>3 DEF Local!vars
<1>. QED
  BY <1>1, <1>2, <1>3 DEF Local!Next

\* Every step keeps the invariant: a file is durable before it is linked, and
\* the data of a durable file never changes.
LEMMA LocalStep == Local!LocalInv /\ [Local!Next]_(Local!vars) => Local!LocalInv'
<1> SUFFICES ASSUME Local!LocalInv, [Local!Next]_(Local!vars)
             PROVE  Local!TypeOK' /\ Local!DurableIsWhole' /\ Local!LinkedIsDurable' /\ Local!NoLeftovers'
  BY DEF Local!LocalInv
<1>t. Local!TypeOK /\ Local!TypeOK'
  BY LocalTypeStep DEF Local!LocalInv
<1> USE DEF Local!LocalInv, Local!TypeOK, Local!DurableIsWhole, Local!LinkedIsDurable, Local!NoLeftovers, Local!Active
<1>1. ASSUME NEW w \in Writers, Local!Write(w) \/ Local!Kill(w)
      PROVE  Local!DurableIsWhole' /\ Local!LinkedIsDurable' /\ Local!NoLeftovers'
  <2> USE DEF Local!Goto, Local!Finally, Local!files
  <2>1. CASE Local!CreateTemporary(w)
    BY <1>t, <2>1 DEF Local!CreateTemporary
  <2>2. CASE Local!WriteAndFlush(w)
    BY <1>t, <2>2 DEF Local!WriteAndFlush
  <2>3. CASE Local!Sync(w)
    BY <1>t, <2>3 DEF Local!Sync
  <2>4. CASE Local!OperationFails(w)
    BY <1>t, <2>4 DEF Local!OperationFails
  <2>5. CASE Local!Link(w)
    BY <1>t, <2>5 DEF Local!Link
  <2>6. CASE Local!AlreadyExists(w)
    BY <1>t, <2>6 DEF Local!AlreadyExists
  <2>7. CASE Local!Unlink(w)
    BY <1>t, <2>7 DEF Local!Unlink
  <2>8. CASE Local!Kill(w)
    BY <1>t, <2>8 DEF Local!Kill
  <2>. QED
    BY <1>1, <2>1, <2>2, <2>3, <2>4, <2>5, <2>6, <2>7, <2>8 DEF Local!Write
<1>2. CASE Local!PowerLoss
  BY <1>t, <1>2 DEF Local!PowerLoss
<1>3. CASE UNCHANGED Local!vars
  BY <1>3 DEF Local!vars
<1>. QED
  BY <1>t, <1>1, <1>2, <1>3 DEF Local!Next

\* A file at a destination is whole and durable, and only a dead process leaves a
\* temporary file behind.
THEOREM LocalInvariant == Local!Spec => []Local!LocalInv
BY InitLocal, LocalStep, PTL DEF Local!Spec

\* A reader of a destination, after any kills and power losses, finds a whole
\* snapshot: the data is synced before it is linked.
THEOREM DestinationsWhole == Local!Spec => []Local!PublishedIsWhole
<1>1. Local!LocalInv => Local!PublishedIsWhole
  BY DEF Local!LocalInv, Local!DurableIsWhole, Local!LinkedIsDurable, Local!PublishedIsWhole
<1>. QED
  BY <1>1, LocalInvariant, PTL

\* However many processes write one destination, it keeps the file of the first
\* that linked it.
THEOREM DestinationsWrittenOnce == Local!Spec => Local!DestinationsStay
<1> DEFINE Stays == Local!PowerLoss \/ \A k \in Keys : bronze[k] # Local!Absent => bronze'[k] = bronze[k]
<1>1. Local!LocalInv /\ [Local!Next]_(Local!vars) => [Stays]_(Local!vars)
  <2> SUFFICES ASSUME Local!LocalInv, [Local!Next]_(Local!vars), ~Local!PowerLoss, NEW k \in Keys, bronze[k] # Local!Absent
               PROVE  bronze'[k] = bronze[k]
    OBVIOUS
  <2>1. CASE \E w \in Writers : Local!Link(w)
    BY <2>1 DEF Local!Link, Local!LocalInv, Local!TypeOK
  <2>2. CASE bronze' = bronze
    BY <2>2
  <2>. QED
    BY <2>1, <2>2 DEF Local!Next, Local!Write, Local!CreateTemporary, Local!WriteAndFlush, Local!Sync, Local!OperationFails,
                      Local!AlreadyExists, Local!Unlink, Local!Kill, Local!files, Local!vars
<1>. QED
  BY <1>1, LocalInvariant, PTL DEF Local!Spec, Local!DestinationsStay

\* At most one process per destination reports success, and the file there is
\* its own.
THEOREM WinnerPublished ==
  ASSUME Local!Absent \notin Writers
  PROVE  Local!Spec => []Local!WinnerIsPublished
<1>1. Local!Init => Local!WinnerIsPublished
  BY DEF Local!Init, Local!WinnerIsPublished
<1>2. Local!LocalInv /\ Local!LocalInv' /\ Local!WinnerIsPublished /\ [Local!Next]_(Local!vars) => Local!WinnerIsPublished'
  <2> SUFFICES ASSUME Local!LocalInv, Local!LocalInv', Local!WinnerIsPublished, [Local!Next]_(Local!vars),
                      NEW w \in Writers, result'[w] = "published", ~powerLost'
               PROVE  bronze'[key'[w]] = w
    BY DEF Local!WinnerIsPublished
  <2> USE DEF Local!LocalInv, Local!TypeOK, Local!WinnerIsPublished
  <2>1. CASE \E v \in Writers : Local!Link(v)
    <3>1. PICK v \in Writers : Local!Link(v)
      BY <2>1
    <3>2. CASE v = w
      BY <3>1, <3>2 DEF Local!Link, Local!Finally, Local!Goto
    <3>3. CASE v # w
      <4>1. result[w] = "published" /\ ~powerLost /\ key' = key
        BY <3>1, <3>3 DEF Local!Link, Local!Finally, Local!Goto
      <4>2. bronze[key[w]] = w /\ key[w] # key[v]
        BY <3>1, <4>1 DEF Local!Link
      <4>. QED
        BY <3>1, <4>1, <4>2 DEF Local!Link
    <3>. QED
      BY <3>2, <3>3
  <2>2. CASE bronze' = bronze /\ key' = key /\ powerLost' = powerLost
             /\ (result'[w] = "published" => result[w] = "published")
    BY <2>2
  <2>3. CASE \E v \in Writers : Local!OperationFails(v) \/ Local!AlreadyExists(v)
    BY <2>2, <2>3 DEF Local!OperationFails, Local!AlreadyExists, Local!Finally, Local!Goto, Local!files
  <2>4. CASE \E v \in Writers : Local!CreateTemporary(v) \/ Local!WriteAndFlush(v) \/ Local!Sync(v) \/ Local!Unlink(v) \/ Local!Kill(v)
    BY <2>2, <2>4 DEF Local!CreateTemporary, Local!WriteAndFlush, Local!Sync, Local!Unlink, Local!Kill, Local!Goto, Local!files
  <2>5. CASE UNCHANGED Local!vars
    BY <2>2, <2>5 DEF Local!vars
  <2>6. CASE Local!PowerLoss
    BY <2>6 DEF Local!PowerLoss
  <2>. QED
    BY <2>1, <2>3, <2>4, <2>5, <2>6 DEF Local!Next, Local!Write
<1>. QED
  BY <1>1, <1>2, LocalInvariant, PTL DEF Local!Spec

\* Nothing but a kill or a power loss leaves a temporary file behind.
THEOREM NothingLeftOver == Local!Spec => []Local!NoLeftovers
<1>1. Local!LocalInv => Local!NoLeftovers
  BY DEF Local!LocalInv
<1>. QED
  BY <1>1, LocalInvariant, PTL
=============================================================================
