------------------------- MODULE RunEvidenceProofs --------------------------
(***************************************************************************)
(* Proofs about the evidence files of a run and its report, for any        *)
(* reporters, executions and writes.                                       *)
(***************************************************************************)
EXTENDS RunEvidence, SequenceTheorems, TLAPS

-----------------------------------------------------------------------------
(* What each step does to the writes, field by field.                       *)

LEMMA JobFields ==
  ASSUME TypeOK
  PROVE  /\ jobs \in [JobIds -> Jobs] /\ Len(jobs) \in Nat
         /\ \A k \in JobIds : jobs[k] \in Jobs
  BY LenProperties DEF TypeOK, InodesOK, JobIds

LEMMA SameLength ==
  ASSUME TypeOK, NEW g \in [JobIds -> Jobs]
  PROVE  g \in Seq(Jobs) /\ Len(g) = Len(jobs)
<1>1. g \in Seq(Jobs)
  BY JobFields, SeqDef DEF JobIds
<1>2. DOMAIN g = 1 .. Len(g) /\ Len(g) \in Nat
  BY <1>1, LenProperties
<1>. QED
  BY <1>1, <1>2, JobFields DEF JobIds

\* The writes are as before but for the step of write j, the inode it writes to
\* and the content of inode i.
Moves(j, i, pc, inode, content) ==
    /\ jobs' \in Seq(Jobs) /\ Len(jobs') = Len(jobs)
    /\ \A k \in JobIds :
         /\ jobs'[k].file = jobs[k].file /\ jobs'[k].value = jobs[k].value
         /\ jobs'[k].pc = (IF k = j THEN pc ELSE jobs[k].pc)
         /\ jobs'[k].inode = (IF k = j THEN inode ELSE jobs[k].inode)
         /\ jobs'[k].content = (IF k = i THEN content ELSE jobs[k].content)

LEMMA OpenMoves ==
  ASSUME TypeOK, NEW j \in JobIds, Open(j)
  PROVE  \E i \in JobIds :
           /\ i = (IF temporary[jobs[j].file] = 0 THEN j ELSE temporary[jobs[j].file])
           /\ jobs[i].file = jobs[j].file
           /\ temporary' = [temporary EXCEPT ![jobs[j].file] = i]
           /\ Moves(j, i, "write", i, Torn)
<1>1. PICK f \in Files : f = jobs[j].file
  BY JobFields DEF Jobs
<1>2. PICK i \in JobIds : i = (IF temporary[f] = 0 THEN j ELSE temporary[f]) /\ jobs[i].file = f
  BY <1>1 DEF TypeOK, InodesOK
<1>3. i \in Nat /\ jobs[i] \in Jobs /\ jobs[j] \in Jobs
  BY JobFields DEF JobIds
<1> DEFINE g == [jobs EXCEPT ![j].pc = "write", ![j].inode = i, ![i].content = Torn]
<1>4. g \in [JobIds -> Jobs]
  BY <1>3, JobFields DEF Jobs
<1>5. jobs' = g /\ temporary' = [temporary EXCEPT ![f] = i]
  BY <1>1, <1>2 DEF Open
<1>6. ASSUME NEW k \in JobIds
      PROVE  /\ g[k].file = jobs[k].file /\ g[k].value = jobs[k].value
             /\ g[k].pc = (IF k = j THEN "write" ELSE jobs[k].pc)
             /\ g[k].inode = (IF k = j THEN i ELSE jobs[k].inode)
             /\ g[k].content = (IF k = i THEN Torn ELSE jobs[k].content)
  <2>1. /\ jobs \in [JobIds -> Jobs] /\ jobs[k] \in Jobs
    BY JobFields
  <2>. QED
    BY <2>1 DEF Jobs
<1>7. Moves(j, i, "write", i, Torn)
  BY <1>4, <1>5, <1>6, SameLength DEF Moves
<1>. QED
  BY <1>1, <1>2, <1>5, <1>7

LEMMA FillMoves ==
  ASSUME TypeOK, NEW j \in JobIds, Fill(j)
  PROVE  \E left \in {Torn, <<jobs[j].value>>} :
           /\ jobs[jobs[j].inode].content = Torn => left = <<jobs[j].value>>
           /\ Moves(j, jobs[j].inode, "replace", jobs[j].inode, left)
<1> DEFINE i == jobs[j].inode
<1>1. jobs[j] \in Jobs /\ i \in JobIds
  BY JobFields DEF TypeOK, InodesOK, Fill
<1>2. jobs[i] \in Jobs
  BY <1>1, JobFields
<1>3. PICK left \in {Torn, <<jobs[j].value>>} :
        /\ jobs[i].content = Torn => left = <<jobs[j].value>>
        /\ jobs' = [jobs EXCEPT ![j].pc = "replace", ![i].content = left]
  BY DEF Fill
<1> DEFINE g == [jobs EXCEPT ![j].pc = "replace", ![i].content = left]
<1>4. g \in [JobIds -> Jobs]
  BY <1>1, <1>2, <1>3, JobFields DEF Jobs
<1>5. \A k \in JobIds :
         /\ g[k].file = jobs[k].file /\ g[k].value = jobs[k].value
         /\ g[k].pc = (IF k = j THEN "replace" ELSE jobs[k].pc)
         /\ g[k].inode = (IF k = j THEN i ELSE jobs[k].inode)
         /\ g[k].content = (IF k = i THEN left ELSE jobs[k].content)
  BY <1>1, JobFields DEF Jobs
<1>6. Moves(j, i, "replace", i, left)
  BY <1>3, <1>4, <1>5, SameLength DEF Moves
<1>. QED
  BY <1>3, <1>6

\* A step that ends write j, with or without the file.
LEMMA EndMoves ==
  ASSUME TypeOK, NEW j \in JobIds, NEW pc \in {"done", "failed"},
         jobs' = [jobs EXCEPT ![j].pc = pc, ![j].inode = 0]
  PROVE  Moves(j, j, pc, 0, jobs[j].content)
<1>1. jobs' \in [JobIds -> Jobs]
  BY JobFields DEF Jobs
<1>2. \A k \in JobIds : jobs'[k] = [jobs[k] EXCEPT !.pc = IF k = j THEN pc ELSE jobs[k].pc,
                                             !.inode = IF k = j THEN 0 ELSE jobs[k].inode]
  BY JobFields DEF Jobs
<1>. QED
  BY <1>1, <1>2, SameLength, JobFields DEF Moves, Jobs

\* A new write is added at the end, and there is no other of its file.
LEMMA NewJobAppends ==
  ASSUME TypeOK, NEW f \in Files, NEW v \in Values, NewJob(f, v)
  PROVE  /\ jobs' \in Seq(Jobs) /\ Len(jobs') = Len(jobs) + 1
         /\ JobIds' = JobIds \cup {Len(jobs) + 1} /\ Len(jobs) + 1 \notin JobIds
         /\ \A k \in JobIds : jobs'[k] = jobs[k]
         /\ jobs'[Len(jobs) + 1] = [file |-> f, value |-> v, pc |-> "open", inode |-> 0, content |-> Torn]
         /\ UNCHANGED <<temporary, final>>
<1> DEFINE new == [file |-> f, value |-> v, pc |-> "open", inode |-> 0, content |-> Torn]
<1>1. new \in Jobs /\ jobs' = Append(jobs, new)
  BY DEF Jobs, NewJob
<1>2. jobs \in Seq(Jobs) /\ Len(jobs) \in Nat
  BY JobFields DEF TypeOK, InodesOK
<1>3. /\ jobs' \in Seq(Jobs) /\ Len(jobs') = Len(jobs) + 1
      /\ \A k \in JobIds : jobs'[k] = jobs[k]
      /\ jobs'[Len(jobs) + 1] = new
  BY <1>1, <1>2, AppendProperties DEF JobIds
<1>4. JobIds' = JobIds \cup {Len(jobs) + 1} /\ Len(jobs) + 1 \notin JobIds
  BY <1>2, <1>3 DEF JobIds
<1>. QED
  BY <1>3, <1>4 DEF NewJob

\* No step adds or takes away a write but NewJob.
LEMMA SameJobs ==
  ASSUME NEW j, NEW i, NEW pc, NEW inode, NEW content, Moves(j, i, pc, inode, content)
  PROVE  JobIds' = JobIds
  BY DEF Moves, JobIds

-----------------------------------------------------------------------------
(* Types.                                                                   *)

LEMMA NewJobTyped ==
  ASSUME TypeOK, NEW f \in Files, NEW v \in Values, NewJob(f, v)
  PROVE  InodesOK'
<1> DEFINE n == Len(jobs) + 1
<1>1. /\ jobs' \in Seq(Jobs) /\ JobIds' = JobIds \cup {n} /\ n \notin JobIds
      /\ \A k \in JobIds : jobs'[k] = jobs[k]
      /\ jobs'[n] = [file |-> f, value |-> v, pc |-> "open", inode |-> 0, content |-> Torn]
      /\ UNCHANGED <<temporary, final>>
  BY NewJobAppends
<1>2. n # 0
  BY JobFields
<1>3. \A g \in Files : temporary[g] # n /\ final[g] # n
  BY <1>1, <1>2 DEF TypeOK, InodesOK
<1>4. \A k \in JobIds' : jobs'[k].pc \in {"write", "replace"} =>
         jobs'[k].inode \in JobIds' /\ jobs'[jobs'[k].inode].file = jobs'[k].file
  <2> SUFFICES ASSUME NEW k \in JobIds', jobs'[k].pc \in {"write", "replace"}
               PROVE  jobs'[k].inode \in JobIds' /\ jobs'[jobs'[k].inode].file = jobs'[k].file
    OBVIOUS
  <2>1. k # n
    BY <1>1
  <2>. QED
    BY <1>1, <2>1 DEF TypeOK, InodesOK
<1>5. \A g \in Files, i \in JobIds' :
         i \in {temporary'[g], final'[g]} => jobs'[i].file = g /\ jobs'[i].pc # "open"
  <2> SUFFICES ASSUME NEW g \in Files, NEW i \in JobIds', i \in {temporary[g], final[g]}
               PROVE  jobs'[i].file = g /\ jobs'[i].pc # "open"
    BY <1>1
  <2>1. i \in JobIds /\ jobs'[i] = jobs[i]
    BY <1>1, <1>3
  <2>. QED
    BY <2>1 DEF TypeOK, InodesOK
<1>6. temporary' \in [Files -> {0} \cup JobIds'] /\ final' \in [Files -> {0} \cup JobIds']
  BY <1>1 DEF TypeOK, InodesOK
<1>. QED
  BY <1>1, <1>4, <1>5, <1>6 DEF InodesOK

LEMMA JobStepTyped ==
  ASSUME TypeOK, NEW j \in JobIds, Open(j) \/ Fill(j) \/ Replace(j) \/ KillJob(j)
  PROVE  InodesOK' /\ JobIds' = JobIds
<1>f. jobs[j].file \in Files
  BY JobFields DEF Jobs
<1>t. InodesOK
  BY DEF TypeOK
<1>1. CASE Open(j)
  <2>1. PICK i \in JobIds :
          /\ i = (IF temporary[jobs[j].file] = 0 THEN j ELSE temporary[jobs[j].file])
          /\ jobs[i].file = jobs[j].file
          /\ temporary' = [temporary EXCEPT ![jobs[j].file] = i]
          /\ Moves(j, i, "write", i, Torn)
    BY <1>1, OpenMoves
  <2>2. JobIds' = JobIds
    BY <2>1, SameJobs
  <2>3. UNCHANGED final /\ jobs[j].pc = "open"
    BY <1>1 DEF Open
  <2>4. \A k \in JobIds : jobs'[k].pc \in {"write", "replace"} =>
         jobs'[k].inode \in JobIds /\ jobs'[jobs'[k].inode].file = jobs'[k].file
    <3> SUFFICES ASSUME NEW k \in JobIds, jobs'[k].pc \in {"write", "replace"}
                 PROVE  jobs'[k].inode \in JobIds /\ jobs'[jobs'[k].inode].file = jobs'[k].file
      OBVIOUS
    <3>1. CASE k = j
      BY <2>1, <3>1 DEF Moves
    <3>2. CASE k # j
      <4>1. jobs[k].pc \in {"write", "replace"} /\ jobs'[k].inode = jobs[k].inode
        BY <2>1, <3>2 DEF Moves
      <4>2. jobs[k].inode \in JobIds /\ jobs[jobs[k].inode].file = jobs[k].file
        BY <1>t, <4>1 DEF InodesOK
      <4>. QED
        BY <2>1, <4>1, <4>2 DEF Moves
    <3>. QED
      BY <3>1, <3>2
  <2>5. \A g \in Files, k \in JobIds :
         k \in {temporary'[g], final'[g]} => jobs'[k].file = g /\ jobs'[k].pc # "open"
    BY <2>1, <2>3, <1>f, <1>t DEF Moves, InodesOK
  <2>. QED
    BY <2>1, <2>2, <2>3, <2>4, <2>5, <1>f, <1>t DEF Moves, InodesOK
<1>2. CASE Fill(j)
  <2>1. PICK left : Moves(j, jobs[j].inode, "replace", jobs[j].inode, left)
    BY <1>2, FillMoves
  <2>2. JobIds' = JobIds
    BY <2>1, SameJobs
  <2>3. UNCHANGED <<temporary, final>> /\ jobs[j].pc = "write"
    BY <1>2 DEF Fill
  <2>4. \A k \in JobIds : jobs'[k].pc \in {"write", "replace"} =>
         jobs[k].pc \in {"write", "replace"} /\ jobs'[k].inode = jobs[k].inode
    BY <2>1, <2>3 DEF Moves
  <2>5. \A k \in JobIds : jobs'[k].pc \in {"write", "replace"} =>
         jobs'[k].inode \in JobIds /\ jobs'[jobs'[k].inode].file = jobs'[k].file
    BY <1>t, <2>1, <2>4 DEF Moves, InodesOK
  <2>6. \A k \in JobIds : jobs[k].pc # "open" => jobs'[k].pc # "open"
    BY <2>1 DEF Moves
  <2>. QED
    BY <1>t, <2>1, <2>2, <2>3, <2>5, <2>6 DEF Moves, InodesOK
<1>3. ASSUME NEW pc \in {"done", "failed"}, jobs' = [jobs EXCEPT ![j].pc = pc, ![j].inode = 0],
             \/ UNCHANGED <<temporary, final>>
             \/ /\ final' = [final EXCEPT ![jobs[j].file] = temporary[jobs[j].file]]
                /\ temporary' = [temporary EXCEPT ![jobs[j].file] = 0]
      PROVE  InodesOK' /\ JobIds' = JobIds
  <2>1. Moves(j, j, pc, 0, jobs[j].content)
    BY <1>3, EndMoves
  <2>2. JobIds' = JobIds
    BY <2>1, SameJobs
  <2>3. \A k \in JobIds : jobs'[k].pc \in {"write", "replace"} =>
         jobs'[k].inode \in JobIds /\ jobs'[jobs'[k].inode].file = jobs'[k].file
    BY <1>t, <2>1 DEF Moves, InodesOK
  <2>4. \A g \in Files, k \in JobIds :
         k \in {temporary'[g], final'[g]} => jobs'[k].file = g /\ jobs'[k].pc # "open"
    BY <1>3, <1>t, <2>1, <1>f, JobFields DEF Moves, JobIds, InodesOK
  <2>5. temporary' \in [Files -> {0} \cup JobIds] /\ final' \in [Files -> {0} \cup JobIds]
    BY <1>3, <1>f, <1>t DEF InodesOK
  <2>. QED
    BY <2>1, <2>2, <2>3, <2>4, <2>5 DEF Moves, InodesOK
<1>4. CASE Replace(j)
  BY <1>4, <1>3 DEF Replace, JobActive
<1>5. CASE KillJob(j)
  BY <1>5, <1>3 DEF KillJob
<1>. QED
  BY <1>1, <1>2, <1>4, <1>5

\* A task of the run ends, or an operator clears one.
RunGoesOn == TaskSucceeds \/ TaskFails \/ \E n \in 1 .. 3 : Clear(n)

LEMMA ShownTyped ==
  ASSUME TypeOK, NEW f \in Files
  PROVE  Shown(f) \in Values
<1>1. final[f] \in {0} \cup JobIds
  BY DEF TypeOK, InodesOK
<1>2. CASE final[f] = 0 \/ jobs[final[f]].content = Torn
  BY <1>2 DEF Shown, Values
<1>3. CASE final[f] # 0 /\ jobs[final[f]].content # Torn
  <2>1. jobs[final[f]] \in Jobs
    BY <1>1, <1>3, JobFields
  <2>2. PICK v \in Values : jobs[final[f]].content = <<v>>
    BY <1>3, <2>1 DEF Jobs
  <2>. QED
    BY <1>3, <2>2 DEF Shown
<1>. QED
  BY <1>2, <1>3

\* What the task that begins writes.
LEMMA TaskWrites ==
  ASSUME TypeOK, StartTask
  PROVE  /\ WriteOrder[step] \in Files /\ About \in Values
         /\ NewJob(WriteOrder[step], About) /\ task' = Len(jobs) + 1
<1>1. step \in 1 .. 3 /\ execution \in Values /\ xcom \in Values
  BY DEF StartTask, TypeOK, Values
<1>2. WriteOrder[step] \in Files
  BY <1>1 DEF WriteOrder, Files, Evidence
<1>3. About \in Values
  BY <1>1 DEF About
<1>. QED
  BY <1>2, <1>3 DEF StartTask

LEMMA TypeStep == TypeOK /\ [Next]_vars => TypeOK'
<1> SUFFICES ASSUME TypeOK, [Next]_vars PROVE TypeOK'
  OBVIOUS
<1> USE EvidenceAssumption
<1>1. CASE StartTask
  <2>1. NewJob(WriteOrder[step], About) /\ WriteOrder[step] \in Files /\ About \in Values
    BY <1>1, TaskWrites
  <2>2. InodesOK' /\ JobIds' = JobIds \cup {Len(jobs) + 1}
    BY <2>1, NewJobTyped, NewJobAppends
  <2>3. task' \in JobIds'
    BY <1>1, <2>2 DEF StartTask
  <2>4. reporter \in [Reporters -> [pc : Reading, got : Readings, job : {0} \cup JobIds']]
    BY <2>2 DEF TypeOK
  <2>5. xcom' \in Values /\ builtOn' \in [Executions -> Values]
    <3>1. Shown("landing") \in Values
      BY ShownTyped DEF Files, Evidence
    <3>. QED
      BY <1>1, <3>1 DEF StartTask, TypeOK, Values
  <2>. QED
    BY <1>1, <2>2, <2>3, <2>4, <2>5 DEF StartTask, TypeOK
<1>2. CASE RunGoesOn
  <2>1. UNCHANGED <<jobs, temporary, final, reporter, uploaded, builtOn>>
    BY <1>2 DEF RunGoesOn, TaskSucceeds, TaskFails, Clear
  <2>2. InodesOK' /\ JobIds' = JobIds
    BY <2>1 DEF TypeOK, InodesOK, JobIds
  <2>3. execution' \in Executions /\ step' \in 1 .. 4 /\ task' = 0
    <3>1. CASE TaskSucceeds
      BY <3>1 DEF TaskSucceeds, TypeOK
    <3>2. CASE TaskFails
      BY <3>2 DEF TaskFails, TypeOK
    <3>3. ASSUME NEW n \in 1 .. 3, Clear(n) PROVE <2>3
      <4>1. execution' = execution + 1 /\ execution < MaxExecutions /\ execution \in 1 .. MaxExecutions
        BY <3>3 DEF Clear, TypeOK, Executions
      <4>2. execution' \in Executions
        BY <4>1 DEF Executions
      <4>. QED
        BY <3>3, <4>2 DEF Clear
    <3>. QED
      BY <1>2, <3>1, <3>2, <3>3 DEF RunGoesOn
  <2>4. xcom' \in Values
    BY <1>2 DEF RunGoesOn, TaskSucceeds, TaskFails, Clear, TypeOK, Values
  <2>. QED
    BY <2>1, <2>2, <2>3, <2>4 DEF TypeOK
<1>3. ASSUME NEW j \in JobIds, Open(j) \/ Fill(j) \/ Replace(j) \/ KillJob(j) PROVE TypeOK'
  <2>1. InodesOK' /\ JobIds' = JobIds
    BY <1>3, JobStepTyped
  <2>2. UNCHANGED <<runVars, reporter, uploaded>>
    BY <1>3 DEF Open, Fill, Replace, KillJob
  <2>. QED
    BY <2>1, <2>2 DEF TypeOK, runVars
<1>4. ASSUME NEW r \in Reporters, ReadFile(r) \/ ReadFails(r) \/ PersistEnds(r) \/ Upload(r) \/ CallAgain(r)
      PROVE  TypeOK'
  <2>1. UNCHANGED <<jobs, temporary, final, runVars>>
    BY <1>4 DEF ReadFile, ReadFails, PersistEnds, Upload, CallAgain
  <2>2. InodesOK' /\ JobIds' = JobIds
    BY <2>1 DEF TypeOK, InodesOK, JobIds
  <2>3. reporter[r] \in [pc : Reading, got : Readings, job : {0} \cup JobIds] /\ NotRead \in Readings
    BY DEF TypeOK, NotRead, Readings, Values
  <2>4. reporter' \in [Reporters -> [pc : Reading, got : Readings, job : {0} \cup JobIds]]
    <3>1. ASSUME NEW pc \in Reading, Goto(r, pc) PROVE <2>4
      BY <2>3, <3>1 DEF Goto, TypeOK
    <3>2. ASSUME Raise(r) PROVE <2>4
      BY <2>3, <3>2 DEF Raise, TypeOK, Reading
    <3>3. ASSUME NEW f \in Evidence, NEW pc \in Reading, NEW v \in Values,
                 reporter' = [reporter EXCEPT ![r].pc = pc, ![r].got[f] = v]
          PROVE <2>4
      <4>1. [reporter[r].got EXCEPT ![f] = v] \in Readings
        BY <2>3, <3>3 DEF Readings
      <4>2. reporter'[r] = [reporter[r] EXCEPT !.pc = pc, !.got = [reporter[r].got EXCEPT ![f] = v]]
        BY <3>3 DEF TypeOK
      <4>3. reporter'[r] \in [pc : Reading, got : Readings, job : {0} \cup JobIds]
        BY <2>3, <3>3, <4>1, <4>2
      <4>. QED
        BY <3>3, <4>3 DEF TypeOK
    <3>4. CASE ReadFile(r)
      <4>1. PICK n \in 1 .. 3 :
              LET f == ReadOrder[n]
                  i == final[f]
              IN  IF (i = 0 /\ Required(f)) \/ (i # 0 /\ jobs[i].content = Torn) THEN Raise(r)
                  ELSE reporter' = [reporter EXCEPT ![r].pc = ReaderPc[n + 1],
                                               ![r].got[f] = Shown(f)]
        BY <3>4 DEF ReadFile
      <4> DEFINE f == ReadOrder[n]
      <4>2. f \in Evidence /\ ReaderPc[n + 1] \in Reading
        BY DEF ReadOrder, ReaderPc, Evidence, Reading
      <4>3. Shown(f) \in Values
        BY <4>2, ShownTyped DEF Files
      <4>. QED
        BY <4>1, <4>2, <4>3, <3>2, <3>3
    <3>5. CASE ReadFails(r)
      BY <3>2, <3>5 DEF ReadFails
    <3>6. CASE PersistEnds(r)
      BY <3>1, <3>2, <3>6 DEF PersistEnds, Reading
    <3>7. CASE Upload(r)
      BY <3>1, <3>2, <3>7 DEF Upload, Reading
    <3>8. CASE CallAgain(r)
      BY <3>2, <3>8 DEF CallAgain
    <3>. QED
      BY <1>4, <3>4, <3>5, <3>6, <3>7, <3>8
  <2>5. uploaded' \in [{"report"} -> Readings]
    BY <1>4, <2>3 DEF ReadFile, ReadFails, PersistEnds, Upload, CallAgain, TypeOK
  <2>. QED
    BY <2>1, <2>2, <2>4, <2>5 DEF TypeOK, runVars
<1>5. ASSUME NEW r \in Reporters, Persist(r) PROVE TypeOK'
  <2>1. NewJob("report", reporter[r].got["summary"]) /\ reporter[r].got["summary"] \in Values
    BY <1>5 DEF Persist, TypeOK, Readings, Evidence
  <2>2. InodesOK' /\ JobIds' = JobIds \cup {Len(jobs) + 1}
    BY <2>1, NewJobTyped, NewJobAppends DEF Files
  <2>3. reporter' \in [Reporters -> [pc : Reading, got : Readings, job : {0} \cup JobIds']]
    BY <1>5, <2>2 DEF Persist, TypeOK, Reading
  <2>. QED
    BY <1>5, <2>2, <2>3 DEF Persist, TypeOK, runVars
<1>6. CASE UNCHANGED vars
  BY <1>6 DEF vars, runVars, TypeOK, InodesOK, JobIds
<1>. QED
  BY <1>1, <1>2, <1>3, <1>4, <1>5, <1>6 DEF Next, RunGoesOn

-----------------------------------------------------------------------------
(* Writes that exclude each other.                                          *)

LEMMA NewJobOwn ==
  ASSUME Exclusive, TypeOK, OwnTemporary, AlwaysWhole,
         NEW f \in Files, NEW v \in Values, NewJob(f, v)
  PROVE  OwnTemporary' /\ AlwaysWhole' /\ \A g \in Files : Shown(g)' = Shown(g)
<1> DEFINE n == Len(jobs) + 1
<1>1. /\ JobIds' = JobIds \cup {n} /\ n \notin JobIds
      /\ \A k \in JobIds : jobs'[k] = jobs[k]
      /\ jobs'[n] = [file |-> f, value |-> v, pc |-> "open", inode |-> 0, content |-> Torn]
      /\ UNCHANGED <<temporary, final>>
  BY NewJobAppends
<1>n. jobs'[n].file = f /\ jobs'[n].pc = "open"
  BY <1>1
<1>2. \A k \in JobIds : jobs[k].file = f => ~JobActive(k)
  BY DEF NewJob
<1>3. \A g \in Files : final[g] \in {0} \cup JobIds
  BY DEF TypeOK, InodesOK
<1>4. AlwaysWhole' /\ \A g \in Files : Shown(g)' = Shown(g)
  BY <1>1, <1>3 DEF AlwaysWhole, Shown
<1>5. \A j, k \in JobIds' :
         JobActive(j)' /\ JobActive(k)' /\ jobs'[j].file = jobs'[k].file => j = k
  BY <1>1, <1>n, <1>2 DEF OwnTemporary, JobActive
<1>6. ASSUME NEW j \in JobIds'
      PROVE  /\ jobs'[j].pc \in {"write", "replace"} => temporary'[jobs'[j].file] = jobs'[j].inode
             /\ jobs'[j].pc = "write" => jobs'[jobs'[j].inode].content = Torn
             /\ jobs'[j].pc = "replace" => jobs'[jobs'[j].inode].content = <<jobs'[j].value>>
  <2>1. CASE j = n
    BY <1>n, <2>1
  <2>2. CASE j # n
    <3>1. j \in JobIds /\ jobs'[j] = jobs[j]
      BY <1>1, <2>2
    <3>2. jobs[j].pc \in {"write", "replace"} => jobs'[jobs[j].inode] = jobs[jobs[j].inode]
      BY <1>1, <3>1 DEF TypeOK, InodesOK
    <3>. QED
      BY <1>1, <3>1, <3>2 DEF OwnTemporary
  <2>. QED
    BY <2>1, <2>2
<1>. QED
  BY <1>1, <1>4, <1>5, <1>6 DEF OwnTemporary

\* A write that ends leaves the others and all contents alone.
Ends(j, pc) ==
    \A k \in JobIds :
      /\ jobs'[k].file = jobs[k].file /\ jobs'[k].value = jobs[k].value
      /\ jobs'[k].content = jobs[k].content
      /\ JobActive(k)' => JobActive(k) /\ k # j
      /\ k # j => jobs'[k].pc = jobs[k].pc /\ jobs'[k].inode = jobs[k].inode
      /\ k = j => jobs'[k].pc = pc
      /\ jobs'[k].pc \in {"write", "replace"} =>
           /\ k # j /\ jobs[k].pc \in {"write", "replace"} /\ jobs[k].inode \in JobIds
           /\ jobs'[jobs[k].inode].content = jobs[jobs[k].inode].content

LEMMA EndKeeps ==
  ASSUME TypeOK, NEW j \in JobIds, NEW pc \in {"done", "failed"},
         jobs' = [jobs EXCEPT ![j].pc = pc, ![j].inode = 0]
  PROVE  Ends(j, pc)
<1>1. Moves(j, j, pc, 0, jobs[j].content)
  BY EndMoves
<1> SUFFICES ASSUME NEW k \in JobIds
             PROVE  /\ jobs'[k].file = jobs[k].file /\ jobs'[k].value = jobs[k].value
                    /\ jobs'[k].content = jobs[k].content
                    /\ JobActive(k)' => JobActive(k) /\ k # j
                    /\ k # j => jobs'[k].pc = jobs[k].pc /\ jobs'[k].inode = jobs[k].inode
                    /\ k = j => jobs'[k].pc = pc
                    /\ jobs'[k].pc \in {"write", "replace"} =>
                         /\ k # j /\ jobs[k].pc \in {"write", "replace"} /\ jobs[k].inode \in JobIds
                         /\ jobs'[jobs[k].inode].content = jobs[jobs[k].inode].content
  BY DEF Ends
<1>2. /\ jobs'[k].file = jobs[k].file /\ jobs'[k].value = jobs[k].value
      /\ k # j => jobs'[k].pc = jobs[k].pc /\ jobs'[k].inode = jobs[k].inode
      /\ k = j => jobs'[k].pc = pc
  BY <1>1 DEF Moves
<1>3. \A i \in JobIds : jobs'[i].content = jobs[i].content
  BY <1>1 DEF Moves
<1>4. JobActive(k)' => JobActive(k) /\ k # j
  BY <1>2 DEF JobActive
<1>5. ASSUME jobs'[k].pc \in {"write", "replace"}
      PROVE  k # j /\ jobs[k].pc \in {"write", "replace"} /\ jobs[k].inode \in JobIds
  BY <1>2, <1>5 DEF TypeOK, InodesOK
<1>. QED
  BY <1>2, <1>3, <1>4, <1>5

\* The file that a name shows is changed by its rename only, and then to what the
\* write was about.
LEMMA JobStepOwn ==
  ASSUME Exclusive, TypeOK, OwnTemporary, AlwaysWhole, NEW j \in JobIds,
         Open(j) \/ Fill(j) \/ Replace(j) \/ KillJob(j)
  PROVE  /\ OwnTemporary' /\ AlwaysWhole'
         /\ \A k \in JobIds :
              /\ jobs'[k].file = jobs[k].file /\ jobs'[k].value = jobs[k].value
              /\ JobActive(k)' => JobActive(k)
              /\ jobs'[k].pc = "done" => jobs[k].pc = "done" \/
                                         (JobActive(k) /\ Shown(jobs[k].file)' = jobs[k].value)
         /\ \A g \in Files :
              \/ Shown(g)' = Shown(g)
              \/ JobActive(j) /\ jobs[j].file = g /\ Shown(g)' = jobs[j].value
<1>0. PICK f \in Files : f = jobs[j].file
  BY JobFields DEF Jobs
<1>f. f = jobs[j].file
  BY <1>0
<1>a. /\ InodesOK /\ JobIds' = JobIds /\ JobActive(j)
  BY JobStepTyped DEF TypeOK, Open, Fill, Replace, KillJob, JobActive
<1>z. 0 \notin JobIds
  BY JobFields DEF JobIds
<1>b. ASSUME NEW k \in JobIds, k # j, JobActive(k) PROVE jobs[k].file # f
  BY <1>f, <1>a, <1>b DEF OwnTemporary
<1>1. CASE Open(j)
  <2>1. PICK i \in JobIds :
          /\ i = (IF temporary[f] = 0 THEN j ELSE temporary[f])
          /\ jobs[i].file = f
          /\ temporary' = [temporary EXCEPT ![f] = i]
          /\ Moves(j, i, "write", i, Torn)
    BY <1>f, <1>1, OpenMoves
  <2>2. UNCHANGED final /\ jobs[j].pc = "open"
    BY <1>1 DEF Open
  <2>3. i # final[f]
    BY <1>a, <1>f, <2>1, <2>2 DEF InodesOK, OwnTemporary
  <2>4. \A g \in Files : final[g] # 0 => final[g] \in JobIds /\ final[g] # i
    BY <1>f, <1>a, <2>1, <2>3 DEF InodesOK
  <2>5. \A g \in Files : final[g] # 0 => jobs'[final[g]].content = jobs[final[g]].content
    BY <2>1, <2>4 DEF Moves
  <2>6. AlwaysWhole' /\ \A g \in Files : Shown(g)' = Shown(g)
    BY <2>2, <2>5 DEF AlwaysWhole, Shown
  <2>7. \A k \in JobIds : /\ jobs'[k].file = jobs[k].file /\ jobs'[k].value = jobs[k].value
                          /\ JobActive(k)' <=> JobActive(k)
                          /\ jobs'[k].pc = "done" => jobs[k].pc = "done"
    BY <2>1, <2>2 DEF Moves, JobActive
  <2>8. ASSUME NEW k \in JobIds
        PROVE  /\ jobs'[k].pc \in {"write", "replace"} => temporary'[jobs'[k].file] = jobs'[k].inode
               /\ jobs'[k].pc = "write" => jobs'[jobs'[k].inode].content = Torn
               /\ jobs'[k].pc = "replace" => jobs'[jobs'[k].inode].content = <<jobs'[k].value>>
    <3>1. CASE k = j
      BY <1>a, <1>f, <2>1, <3>1 DEF Moves, InodesOK
    <3>2. CASE k # j /\ jobs[k].pc \in {"write", "replace"}
      <4>1. jobs[k].file # f
        BY <1>b, <3>2 DEF JobActive
      <4>2. jobs[k].inode \in JobIds /\ jobs[k].inode # i
        BY <1>f, <1>a, <2>1, <3>2, <4>1 DEF InodesOK
      <4>3. /\ jobs'[k].pc = jobs[k].pc /\ jobs'[k].inode = jobs[k].inode
            /\ jobs'[jobs[k].inode].content = jobs[jobs[k].inode].content
        BY <2>1, <3>2, <4>2 DEF Moves
      <4>4. temporary'[jobs[k].file] = temporary[jobs[k].file]
        BY <1>a, <1>f, <2>1, <4>1, JobFields DEF InodesOK, Jobs
      <4>. QED
        BY <2>7, <3>2, <4>3, <4>4 DEF OwnTemporary
    <3>3. CASE k # j /\ jobs[k].pc \notin {"write", "replace"}
      BY <2>1, <3>3 DEF Moves
    <3>. QED
      BY <3>1, <3>2, <3>3
  <2>9. \A g \in Files : temporary'[g] # 0 => temporary'[g] # final'[g]
    BY <1>a, <1>f, <2>1, <2>2, <2>3 DEF OwnTemporary, InodesOK
  <2>10. OwnTemporary'
    BY <1>a, <2>7, <2>8, <2>9 DEF OwnTemporary
  <2>. QED
    BY <2>6, <2>7, <2>10
<1>2. CASE Fill(j)
  <2> DEFINE i == jobs[j].inode
  <2>1. jobs[j].pc = "write" /\ UNCHANGED <<temporary, final>>
    BY <1>2 DEF Fill
  <2>2. i \in JobIds /\ jobs[i].file = f /\ temporary[f] = i /\ jobs[i].content = Torn
    BY <1>f, <1>a, <2>1 DEF InodesOK, OwnTemporary
  <2>3. Moves(j, i, "replace", i, <<jobs[j].value>>)
    BY <1>2, <2>2, FillMoves
  <2>4. \A g \in Files : final[g] # 0 => final[g] \in JobIds /\ final[g] # i
    BY <1>f, <1>a, <2>2 DEF InodesOK, OwnTemporary
  <2>5. \A g \in Files : final[g] # 0 => jobs'[final[g]].content = jobs[final[g]].content
    BY <2>3, <2>4 DEF Moves
  <2>6. AlwaysWhole' /\ \A g \in Files : Shown(g)' = Shown(g)
    BY <2>1, <2>5 DEF AlwaysWhole, Shown
  <2>7. \A k \in JobIds : /\ jobs'[k].file = jobs[k].file /\ jobs'[k].value = jobs[k].value
                          /\ JobActive(k)' <=> JobActive(k)
                          /\ jobs'[k].pc = "done" => jobs[k].pc = "done"
    BY <2>1, <2>3 DEF Moves, JobActive
  <2>8. ASSUME NEW k \in JobIds
        PROVE  /\ jobs'[k].pc \in {"write", "replace"} => temporary'[jobs'[k].file] = jobs'[k].inode
               /\ jobs'[k].pc = "write" => jobs'[jobs'[k].inode].content = Torn
               /\ jobs'[k].pc = "replace" => jobs'[jobs'[k].inode].content = <<jobs'[k].value>>
    <3>1. CASE k = j
      BY <1>f, <2>1, <2>2, <2>3, <3>1 DEF Moves
    <3>2. CASE k # j /\ jobs[k].pc \in {"write", "replace"}
      <4>1. jobs[k].file # f
        BY <1>b, <3>2 DEF JobActive
      <4>2. jobs[k].inode \in JobIds /\ jobs[k].inode # i
        BY <1>f, <1>a, <2>2, <3>2, <4>1 DEF InodesOK
      <4>3. /\ jobs'[k].pc = jobs[k].pc /\ jobs'[k].inode = jobs[k].inode
            /\ jobs'[jobs[k].inode].content = jobs[jobs[k].inode].content
        BY <2>3, <3>2, <4>2 DEF Moves
      <4>. QED
        BY <2>1, <2>7, <3>2, <4>3 DEF OwnTemporary
    <3>3. CASE k # j /\ jobs[k].pc \notin {"write", "replace"}
      BY <2>3, <3>3 DEF Moves
    <3>. QED
      BY <3>1, <3>2, <3>3
  <2>9. OwnTemporary'
    BY <1>a, <2>1, <2>7, <2>8 DEF OwnTemporary
  <2>. QED
    BY <2>6, <2>7, <2>9
<1>4. CASE KillJob(j)
  <2>1. jobs' = [jobs EXCEPT ![j].pc = "failed", ![j].inode = 0] /\ UNCHANGED <<temporary, final>>
    BY <1>4 DEF KillJob
  <2>2. Ends(j, "failed")
    BY <2>1, EndKeeps
  <2>7. UNCHANGED <<temporary, final>>
    BY <2>1
  <2>3. \A g \in Files : final[g] # 0 => final[g] \in JobIds
    BY <1>a DEF InodesOK
  <2>4. AlwaysWhole' /\ \A g \in Files : Shown(g)' = Shown(g)
    BY <2>2, <2>3, <2>7 DEF Ends, AlwaysWhole, Shown
  <2>5. ASSUME NEW k \in JobIds, jobs'[k].pc \in {"write", "replace"}
        PROVE  /\ temporary'[jobs'[k].file] = jobs'[k].inode
               /\ jobs'[k].pc = "write" => jobs'[jobs'[k].inode].content = Torn
               /\ jobs'[k].pc = "replace" => jobs'[jobs'[k].inode].content = <<jobs'[k].value>>
    <3>1. /\ jobs'[k].file = jobs[k].file /\ jobs'[k].value = jobs[k].value
          /\ jobs'[k].pc = jobs[k].pc /\ jobs'[k].inode = jobs[k].inode
          /\ jobs'[jobs[k].inode].content = jobs[jobs[k].inode].content
      BY <2>2, <2>5 DEF Ends
    <3>. QED
      BY <2>5, <2>7, <3>1 DEF OwnTemporary
  <2>6. OwnTemporary'
    BY <1>a, <2>2, <2>5, <2>7 DEF OwnTemporary, Ends
  <2>. QED
    BY <2>2, <2>4, <2>6 DEF Ends
<1>5. CASE Replace(j)
  <2>1. jobs[j].pc = "replace"
    BY <1>5 DEF Replace
  <2>2. PICK i \in JobIds : i = jobs[j].inode
    BY <1>a, <2>1 DEF InodesOK
  <2>3. temporary[f] = i /\ jobs[i].content = <<jobs[j].value>> /\ i # 0
    BY <1>f, <1>z, <2>1, <2>2 DEF OwnTemporary
  <2>4. /\ jobs' = [jobs EXCEPT ![j].pc = "done", ![j].inode = 0]
        /\ final' = [final EXCEPT ![f] = i] /\ temporary' = [temporary EXCEPT ![f] = 0]
    BY <1>f, <1>5, <2>3 DEF Replace
  <2>5. Ends(j, "done")
    BY <2>4, EndKeeps
  <2>6. \A g \in Files : /\ g # f => final'[g] = final[g] /\ temporary'[g] = temporary[g]
                         /\ final[g] # 0 => final[g] \in JobIds
    BY <1>a, <2>4 DEF InodesOK
  <2>7. final'[f] = i /\ temporary'[f] = 0
    BY <1>a, <2>4 DEF InodesOK
  <2>8. jobs'[i].content = <<jobs[j].value>>
    BY <2>3, <2>5 DEF Ends
  <2>9. Shown(f)' = jobs[j].value
    <3>1. <<jobs[j].value>> # Torn
      BY DEF Torn
    <3>. QED
      BY <2>3, <2>7, <2>8, <3>1 DEF Shown
  <2>10. \A g \in Files : g # f => Shown(g)' = Shown(g)
    BY <2>5, <2>6 DEF Shown, Ends
  <2>11. ASSUME NEW g \in Files, final'[g] # 0 PROVE jobs'[final'[g]].content # Torn
    <3>1. CASE g = f
      <4>1. <<jobs[j].value>> # <<>>
        OBVIOUS
      <4>. QED
        BY <2>7, <2>8, <3>1, <4>1 DEF Torn
    <3>2. CASE g # f
      BY <2>5, <2>6, <2>11, <3>2 DEF AlwaysWhole, Ends
    <3>. QED
      BY <3>1, <3>2
  <2>12. ASSUME NEW k \in JobIds, jobs'[k].pc \in {"write", "replace"}
         PROVE  /\ temporary'[jobs'[k].file] = jobs'[k].inode
                /\ jobs'[k].pc = "write" => jobs'[jobs'[k].inode].content = Torn
                /\ jobs'[k].pc = "replace" => jobs'[jobs'[k].inode].content = <<jobs'[k].value>>
    <3>1. /\ jobs'[k].file = jobs[k].file /\ jobs'[k].value = jobs[k].value /\ k # j
          /\ jobs'[k].pc = jobs[k].pc /\ jobs'[k].inode = jobs[k].inode
          /\ jobs'[jobs[k].inode].content = jobs[jobs[k].inode].content
      BY <2>5, <2>12 DEF Ends
    <3>2. temporary'[jobs[k].file] = temporary[jobs[k].file]
      BY <1>b, <2>6, <2>12, <3>1, JobFields DEF JobActive, Jobs
    <3>. QED
      BY <2>12, <3>1, <3>2 DEF OwnTemporary
  <2>13. \A g \in Files : temporary'[g] # 0 => temporary'[g] # final'[g]
    BY <2>6, <2>7 DEF OwnTemporary
  <2>14. OwnTemporary'
    BY <1>a, <2>5, <2>12, <2>13 DEF OwnTemporary, Ends
  <2>15. AlwaysWhole'
    BY <2>11 DEF AlwaysWhole
  <2>16. \A k \in JobIds : jobs'[k].pc = "done" => jobs[k].pc = "done" \/
                             (JobActive(k) /\ Shown(jobs[k].file)' = jobs[k].value)
    BY <1>a, <1>f, <2>5, <2>9 DEF Ends
  <2>17. \A g \in Files :
            \/ Shown(g)' = Shown(g)
            \/ JobActive(j) /\ jobs[j].file = g /\ Shown(g)' = jobs[j].value
    BY <1>a, <1>f, <2>9, <2>10
  <2>. QED
    BY <2>5, <2>14, <2>15, <2>16, <2>17 DEF Ends
<1>. QED
  BY <1>1, <1>2, <1>4, <1>5

-----------------------------------------------------------------------------
(* What a reporter's step reads.                                            *)

Built == {"build", "persist", "upload", "done"}

Reads(r, f, from, to) ==
    /\ reporter[r].pc = from
    /\ reporter' = [reporter EXCEPT ![r].pc = to, ![r].got[f] = Shown(f)]

LEMMA ReadFileCases ==
  ASSUME TypeOK, NEW r \in Reporters, ReadFile(r)
  PROVE  \/ Raise(r)
         \/ Reads(r, "summary", "start", "dbt")
         \/ Reads(r, "dbt", "dbt", "landing")
         \/ Reads(r, "landing", "landing", "build")
<1>1. PICK n \in 1 .. 3 :
        /\ reporter[r].pc = ReaderPc[n]
        /\ \/ Raise(r)
           \/ reporter' = [reporter EXCEPT ![r].pc = ReaderPc[n + 1],
                                           ![r].got[ReadOrder[n]] = Shown(ReadOrder[n])]
  BY DEF ReadFile
<1>2. CASE n = 1
  BY <1>1, <1>2 DEF Reads, ReaderPc, ReadOrder
<1>3. CASE n = 2
  BY <1>1, <1>3 DEF Reads, ReaderPc, ReadOrder
<1>4. CASE n = 3
  BY <1>1, <1>4 DEF Reads, ReaderPc, ReadOrder
<1>. QED
  BY <1>2, <1>3, <1>4

\* A reporter raises, goes on with what it read, or has read one file more.
ReaderMoves(r) ==
    /\ \A q \in Reporters : q # r => reporter'[q] = reporter[q]
    /\ \/ reporter'[r].pc = "start" /\ \A f \in Evidence : reporter'[r].got[f] = 0
       \/ reporter[r].pc \in Built /\ reporter'[r].pc \in Built /\ reporter'[r].got = reporter[r].got
       \/ \E f \in Evidence :
            /\ \A g \in Evidence : g # f => reporter'[r].got[g] = reporter[r].got[g]
            /\ reporter'[r].got[f] = Shown(f)
            /\ \/ f = "summary" /\ reporter'[r].pc = "dbt"
               \/ f = "dbt" /\ reporter'[r].pc = "landing"
               \/ f = "landing" /\ reporter[r].pc = "landing" /\ reporter'[r].pc = "build"

LEMMA ReaderSteps ==
  ASSUME TypeOK, NEW r \in Reporters,
         ReadFile(r) \/ ReadFails(r) \/ Persist(r) \/ PersistEnds(r) \/ Upload(r) \/ CallAgain(r)
  PROVE  ReaderMoves(r)
<1>1. /\ reporter \in [Reporters -> [pc : Reading, got : Readings, job : {0} \cup JobIds]]
      /\ reporter[r].got \in [Evidence -> Values]
  BY DEF TypeOK, Readings
<1>2. ASSUME Raise(r) PROVE ReaderMoves(r)
  BY <1>1, <1>2 DEF Raise, ReaderMoves, NotRead
<1>3. ASSUME NEW f \in Evidence, NEW from, NEW to, Reads(r, f, from, to),
             \/ f = "summary" /\ to = "dbt"
             \/ f = "dbt" /\ to = "landing"
             \/ f = "landing" /\ from = "landing" /\ to = "build"
      PROVE  ReaderMoves(r)
  <2>1. /\ \A q \in Reporters : q # r => reporter'[q] = reporter[q]
        /\ reporter'[r] = [reporter[r] EXCEPT !.pc = to, !.got = [reporter[r].got EXCEPT ![f] = Shown(f)]]
    BY <1>1, <1>3 DEF Reads
  <2>2. reporter'[r].pc = to /\ reporter'[r].got = [reporter[r].got EXCEPT ![f] = Shown(f)]
    BY <1>1, <2>1
  <2>3. reporter'[r].got[f] = Shown(f) /\ \A g \in Evidence : g # f => reporter'[r].got[g] = reporter[r].got[g]
    BY <1>1, <2>2
  <2>. QED
    BY <1>3, <2>1, <2>2, <2>3 DEF ReaderMoves, Reads
<1>4. ASSUME NEW pc \in Built, reporter[r].pc \in Built, Goto(r, pc) PROVE ReaderMoves(r)
  BY <1>1, <1>4 DEF Goto, ReaderMoves
<1>5. CASE ReadFile(r)
  BY <1>2, <1>3, <1>5, ReadFileCases DEF Evidence
<1>6. CASE ReadFails(r)
  BY <1>2, <1>6 DEF ReadFails
<1>7. CASE Persist(r)
  BY <1>1, <1>7 DEF Persist, ReaderMoves, Built
<1>8. CASE PersistEnds(r)
  BY <1>2, <1>4, <1>8 DEF PersistEnds, Built
<1>9. CASE Upload(r)
  BY <1>2, <1>4, <1>9 DEF Upload, Built
<1>10. CASE CallAgain(r)
  BY <1>2, <1>10 DEF CallAgain
<1>. QED
  BY <1>5, <1>6, <1>7, <1>8, <1>9, <1>10

-----------------------------------------------------------------------------
(* The order of the evidence.                                               *)

LEMMA Numbers ==
  ASSUME TypeOK
  PROVE  /\ execution \in Nat \ {0} /\ xcom \in Nat /\ step \in 1 .. 4
         /\ \A f \in Files : Shown(f) \in Nat
         /\ \A k \in JobIds : jobs[k].value \in Nat /\ jobs[k].file \in Files
         /\ \A r \in Reporters, f \in Evidence : reporter[r].got[f] \in Nat
         /\ \A e \in Executions : builtOn[e] \in Nat
<1>1. Values \subseteq Nat /\ Executions \subseteq Nat \ {0}
  BY EvidenceAssumption DEF Values, Executions
<1>2. \A k \in JobIds : jobs[k].value \in Values /\ jobs[k].file \in Files
  BY JobFields DEF Jobs
<1>3. \A r \in Reporters, f \in Evidence : reporter[r].got[f] \in Values
  BY DEF TypeOK, Readings
<1>4. xcom \in Values /\ \A e \in Executions : builtOn[e] \in Values
  BY DEF TypeOK
<1>. QED
  BY <1>1, <1>2, <1>3, <1>4, ShownTyped DEF TypeOK

\* What a step does to the writes and to what the names show: writes keep what
\* they are about and do not begin again, a name changes to what a write in
\* progress is about, and a new write is of the report or the run's.
Effects ==
    /\ JobIds \subseteq JobIds'
    /\ \A k \in JobIds :
         /\ jobs'[k].file = jobs[k].file /\ jobs'[k].value = jobs[k].value
         /\ JobActive(k)' => JobActive(k)
         /\ jobs'[k].pc = "done" => jobs[k].pc = "done" \/
                                    (JobActive(k) /\ Shown(jobs[k].file)' = jobs[k].value)
    /\ \A f \in Files :
         \/ Shown(f)' = Shown(f)
         \/ \E j \in JobIds : JobActive(j) /\ jobs[j].file = f /\ Shown(f)' = jobs[j].value
    /\ \A n \in JobIds' \ JobIds :
         /\ jobs'[n].pc = "open"
         /\ \/ jobs'[n].file = "report"
            \/ StartTask /\ task' = n /\ jobs'[n].file = WriteOrder[step] /\ jobs'[n].value = About

LEMMA EffectsOfStep ==
  ASSUME Exclusive, TypeOK, OwnTemporary, AlwaysWhole, [Next]_vars
  PROVE  OwnTemporary' /\ AlwaysWhole' /\ Effects
<1>1. ASSUME UNCHANGED <<jobs, temporary, final>> PROVE OwnTemporary' /\ AlwaysWhole' /\ Effects
  BY <1>1 DEF OwnTemporary, AlwaysWhole, Effects, JobIds, JobActive, Shown
<1>2. ASSUME NEW f \in Files, NEW v \in Values, NewJob(f, v),
             f = "report" \/ (StartTask /\ f = WriteOrder[step] /\ v = About /\ task' = Len(jobs) + 1)
      PROVE  OwnTemporary' /\ AlwaysWhole' /\ Effects
  <2> DEFINE n == Len(jobs) + 1
  <2>1. /\ JobIds' = JobIds \cup {n} /\ n \notin JobIds
        /\ \A k \in JobIds : jobs'[k] = jobs[k]
        /\ jobs'[n] = [file |-> f, value |-> v, pc |-> "open", inode |-> 0, content |-> Torn]
    BY <1>2, NewJobAppends
  <2>2. OwnTemporary' /\ AlwaysWhole' /\ \A g \in Files : Shown(g)' = Shown(g)
    BY <1>2, NewJobOwn
  <2>3. jobs'[n].file = f /\ jobs'[n].value = v /\ jobs'[n].pc = "open"
    BY <2>1
  <2>4. \A k \in JobIds : JobActive(k)' <=> JobActive(k)
    BY <2>1 DEF JobActive
  <2>5. \A m \in JobIds' \ JobIds : m = n
    BY <2>1
  <2>. QED
    BY <1>2, <2>1, <2>2, <2>3, <2>4, <2>5 DEF Effects
<1>3. CASE StartTask
  BY <1>2, <1>3, TaskWrites
<1>4. ASSUME NEW j \in JobIds, Open(j) \/ Fill(j) \/ Replace(j) \/ KillJob(j)
      PROVE  OwnTemporary' /\ AlwaysWhole' /\ Effects
  BY <1>4, JobStepOwn, JobStepTyped DEF Effects
<1>5. ASSUME NEW r \in Reporters, Persist(r) PROVE OwnTemporary' /\ AlwaysWhole' /\ Effects
  <2>1. NewJob("report", reporter[r].got["summary"]) /\ reporter[r].got["summary"] \in Values
    BY <1>5 DEF Persist, TypeOK, Readings, Evidence
  <2>. QED
    BY <1>2, <2>1 DEF Files
<1>. QED
  BY <1>1, <1>3, <1>4, <1>5
  DEF Next, vars, TaskSucceeds, TaskFails, Clear, ReadFile, ReadFails, PersistEnds, Upload, CallAgain

\* The run's own steps leave the reporters alone, and all others the run.
LEMMA RunOrReporters ==
  ASSUME TypeOK, [Next]_vars
  PROVE  \/ UNCHANGED reporter /\ (StartTask \/ RunGoesOn)
         \/ UNCHANGED <<runVars, reporter>>
         \/ UNCHANGED runVars /\ \E r \in Reporters : ReaderMoves(r)
<1>1. ASSUME NEW j \in JobIds, Open(j) \/ Fill(j) \/ Replace(j) \/ KillJob(j)
      PROVE  UNCHANGED <<runVars, reporter>>
  BY <1>1 DEF Open, Fill, Replace, KillJob
<1>2. ASSUME NEW r \in Reporters,
             ReadFile(r) \/ ReadFails(r) \/ Persist(r) \/ PersistEnds(r) \/ Upload(r) \/ CallAgain(r)
      PROVE  UNCHANGED runVars /\ ReaderMoves(r)
  BY <1>2, ReaderSteps DEF ReadFile, ReadFails, Persist, PersistEnds, Upload, CallAgain
<1>3. ASSUME StartTask \/ RunGoesOn PROVE UNCHANGED reporter
  BY <1>3 DEF StartTask, RunGoesOn, TaskSucceeds, TaskFails, Clear
<1>. QED
  BY <1>1, <1>2, <1>3 DEF Next, RunGoesOn, vars

\* A name never shows an older execution than before.
LEMMA ShownGrows ==
  ASSUME TypeOK, Chronological, Effects, NEW f \in {"landing", "dbt"}
  PROVE  /\ f \in Files /\ Shown(f) \in Nat /\ Shown(f)' \in Nat
         /\ Shown(f) <= Shown(f)'
<1>1. f \in Files
  BY DEF Files, Evidence
<1>2. Shown(f) \in Nat /\ \A j \in JobIds : jobs[j].value \in Nat
  BY <1>1, Numbers
<1>3. \/ Shown(f)' = Shown(f)
      \/ \E j \in JobIds : JobActive(j) /\ jobs[j].file = f /\ Shown(f)' = jobs[j].value
  BY <1>1 DEF Effects
<1>4. \A j \in JobIds : JobActive(j) /\ jobs[j].file = f => Shown(f) <= jobs[j].value
  BY DEF Chronological
<1>. QED
  BY <1>1, <1>2, <1>3, <1>4

\* The run goes forward until a task of it is cleared.
LEMMA ExecutionGrows ==
  ASSUME TypeOK, [Next]_vars
  PROVE  \/ execution' = execution /\ step' \in 1 .. 4 /\ step <= step'
         \/ execution' = execution + 1
<1>1. step \in 1 .. 4
  BY DEF TypeOK
<1>2. CASE StartTask \/ UNCHANGED runVars
  BY <1>1, <1>2 DEF StartTask, runVars
<1>3. CASE TaskSucceeds
  BY <1>1, <1>3 DEF TaskSucceeds, TypeOK
<1>4. CASE TaskFails
  BY <1>1, <1>4 DEF TaskFails
<1>5. ASSUME NEW n \in 1 .. 3, Clear(n) PROVE execution' = execution + 1
  BY <1>5 DEF Clear
<1>. QED
  BY <1>2, <1>3, <1>4, <1>5, RunOrReporters DEF RunGoesOn, runVars

LEMMA ChronologicalStep ==
  ASSUME TypeOK, OwnTemporary, Chronological, Effects, [Next]_vars
  PROVE  Chronological'
<1>1. execution \in Nat /\ execution' \in Nat /\ execution <= execution'
  BY Numbers, ExecutionGrows
<1>2. ASSUME NEW f \in {"landing", "dbt"} PROVE Shown(f)' <= execution'
  <2>1. \/ Shown(f)' = Shown(f)
        \/ \E j \in JobIds : JobActive(j) /\ jobs[j].file = f /\ Shown(f)' = jobs[j].value
    BY ShownGrows DEF Effects
  <2>2. Shown(f) <= execution /\ \A j \in JobIds : jobs[j].file = f => jobs[j].value <= execution
    BY DEF Chronological
  <2>3. Shown(f) \in Nat /\ \A j \in JobIds : jobs[j].value \in Nat
    BY ShownGrows, Numbers
  <2>. QED
    BY <1>1, <2>1, <2>2, <2>3
<1>3. ASSUME NEW k \in JobIds', NEW f \in {"landing", "dbt"}, jobs'[k].file = f
      PROVE  /\ jobs'[k].value <= execution'
             /\ JobActive(k)' => Shown(f)' <= jobs'[k].value
             /\ jobs'[k].pc = "done" => jobs'[k].value <= Shown(f)'
  <2>1. f \in Files
    BY DEF Files, Evidence
  <2>2. CASE k \in JobIds
    <3>1. jobs[k].file = f /\ jobs'[k].value = jobs[k].value
      BY <1>3, <2>2 DEF Effects
    <3>2. jobs'[k].value <= execution'
      BY <1>1, <2>2, <3>1, Numbers DEF Chronological
    <3>3. JobActive(k)' => Shown(f)' <= jobs'[k].value
      <4>1. JobActive(k)' => JobActive(k) /\ Shown(f) <= jobs[k].value
        BY <2>2, <3>1 DEF Effects, Chronological
      <4>2. Shown(f)' = Shown(f) \/ \E j \in JobIds : JobActive(j) /\ jobs[j].file = f /\ Shown(f)' = jobs[j].value
        BY <2>1 DEF Effects
      <4>3. \A j \in JobIds : JobActive(j) /\ JobActive(k) /\ jobs[j].file = f => j = k
        BY <2>2, <3>1 DEF OwnTemporary
      <4>. QED
        BY <2>2, <3>1, <4>1, <4>2, <4>3, Numbers
    <3>4. jobs'[k].pc = "done" => jobs'[k].value <= Shown(f)'
      <4>1. jobs'[k].pc = "done" => jobs[k].pc = "done" \/ Shown(f)' = jobs[k].value
        BY <2>2, <3>1 DEF Effects
      <4>2. jobs[k].pc = "done" => jobs[k].value <= Shown(f)
        BY <2>2, <3>1 DEF Chronological
      <4>3. Shown(f) <= Shown(f)' /\ Shown(f) \in Nat /\ Shown(f)' \in Nat
        BY ShownGrows
      <4>4. jobs[k].value \in Nat
        BY <2>2, Numbers
      <4>. QED
        BY <3>1, <4>1, <4>2, <4>3, <4>4
    <3>. QED
      BY <3>2, <3>3, <3>4
  <2>3. CASE k \notin JobIds
    <3>1. jobs'[k].pc = "open" /\ StartTask /\ WriteOrder[step] = f /\ jobs'[k].value = About
      BY <2>3, <1>3 DEF Effects
    <3>2. step # 3
      BY <3>1 DEF WriteOrder
    <3>3. jobs'[k].value = execution /\ UNCHANGED execution
      BY <3>1, <3>2 DEF About, StartTask
    <3>4. Shown(f)' <= execution'
      BY <1>2
    <3>. QED
      BY <1>1, <3>1, <3>3, <3>4
  <2>. QED
    BY <2>2, <2>3
<1>4. ASSUME task' # 0, step' <= 2
      PROVE  jobs'[task'].file = WriteOrder[step'] /\ jobs'[task'].value = execution'
  <2>1. CASE StartTask
    <3>1. /\ NewJob(WriteOrder[step], About) /\ WriteOrder[step] \in Files /\ About \in Values
          /\ task' = Len(jobs) + 1 /\ UNCHANGED <<step, execution>>
      BY <2>1, TaskWrites DEF StartTask
    <3>2. jobs'[Len(jobs) + 1] = [file |-> WriteOrder[step], value |-> About, pc |-> "open",
                                  inode |-> 0, content |-> Torn]
      BY <3>1, NewJobAppends
    <3>3. About = execution
      BY <1>4, <3>1, Numbers DEF About
    <3>. QED
      BY <3>1, <3>2, <3>3
  <2>2. CASE RunGoesOn
    BY <1>4, <2>2 DEF RunGoesOn, TaskSucceeds, TaskFails, Clear
  <2>3. CASE UNCHANGED runVars
    <3>1. task \in JobIds /\ UNCHANGED <<task, step, execution>>
      BY <1>4, <2>3 DEF runVars, TypeOK
    <3>2. jobs[task].file = WriteOrder[step] /\ jobs[task].value = execution
      BY <1>4, <3>1 DEF Chronological
    <3>. QED
      BY <3>1, <3>2 DEF Effects
  <2>. QED
    BY <2>1, <2>2, <2>3, RunOrReporters DEF runVars
<1>5. ASSUME NEW e \in Executions PROVE builtOn'[e] <= Shown("landing")'
  <2>1. builtOn'[e] \in {builtOn[e], Shown("landing")}
    <3>1. CASE StartTask
      BY <3>1 DEF StartTask, TypeOK
    <3>2. CASE UNCHANGED builtOn
      BY <3>2
    <3>. QED
      BY <3>1, <3>2, RunOrReporters DEF RunGoesOn, TaskSucceeds, TaskFails, Clear, runVars
  <2>2. builtOn[e] <= Shown("landing") /\ builtOn[e] \in Nat
    BY Numbers DEF Chronological
  <2>3. Shown("landing") <= Shown("landing")' /\ Shown("landing") \in Nat /\ Shown("landing")' \in Nat
    BY ShownGrows
  <2>. QED
    BY <2>1, <2>2, <2>3
<1>. QED
  BY <1>2, <1>3, <1>4, <1>5 DEF Chronological

-----------------------------------------------------------------------------
(* The claims of success.                                                   *)

\* Settled(e) after the step, for the same e.
StillSettled(e) == e # 0 => e <= execution' /\ (e = execution' => step' >= 3) /\ e <= Shown("dbt")'

LEMMA SettledStays ==
  ASSUME TypeOK, Chronological, Effects, [Next]_vars, NEW e \in Nat, Settled(e)
  PROVE  StillSettled(e)
<1>1. execution \in Nat /\ step \in 1 .. 4
  BY Numbers
<1>2. Shown("dbt") <= Shown("dbt")' /\ Shown("dbt") \in Nat /\ Shown("dbt")' \in Nat
  BY ShownGrows
<1>3. \/ execution' = execution /\ step' \in 1 .. 4 /\ step <= step'
      \/ execution' = execution + 1
  BY ExecutionGrows
<1>4. e # 0 => e <= execution /\ (e = execution => step >= 3) /\ e <= Shown("dbt")
  BY DEF Settled
<1>. QED
  BY <1>1, <1>2, <1>3, <1>4 DEF StillSettled

\* What a build that may be claimed was made on is not recorded again.
LEMMA SettledKeepsBuiltOn ==
  ASSUME TypeOK, [Next]_vars, NEW e \in Executions, Settled(e)
  PROVE  builtOn'[e] = builtOn[e]
<1>1. e # 0
  BY EvidenceAssumption DEF Executions
<1>2. CASE StartTask
  <2>1. step = 2 => e # execution
    BY <1>1 DEF Settled
  <2>. QED
    BY <1>2, <2>1 DEF StartTask, TypeOK
<1>3. CASE UNCHANGED builtOn
  BY <1>3
<1>. QED
  BY <1>2, <1>3, RunOrReporters DEF RunGoesOn, TaskSucceeds, TaskFails, Clear, runVars

\* The result of transform is the execution's own, whose summary is there.
LEMMA ResultSettled ==
  ASSUME TypeOK, Chronological, TaskSucceeds, step = 2
  PROVE  StillSettled(execution)
<1>1. task \in JobIds /\ jobs[task].pc = "done" /\ UNCHANGED <<jobs, final, execution>> /\ step' = 3
  BY DEF TaskSucceeds, TypeOK
<1>2. jobs[task].file = "dbt" /\ jobs[task].value = execution
  BY <1>1 DEF Chronological, TaskSucceeds, WriteOrder
<1>3. execution <= Shown("dbt")
  BY <1>1, <1>2 DEF Chronological
<1>4. Shown("dbt")' = Shown("dbt")
  BY <1>1 DEF Shown
<1>5. execution \in Nat
  BY Numbers
<1>. QED
  BY <1>1, <1>3, <1>4, <1>5 DEF StillSettled

LEMMA ClaimsSettledStep ==
  ASSUME TypeOK, Chronological, ClaimsSettled, Effects, [Next]_vars
  PROVE  ClaimsSettled'
<1>s. "summary" \in Evidence /\ "summary" \in Files
  BY DEF Evidence, Files
<1>0. StillSettled(0)
  BY DEF StillSettled
<1>1. StillSettled(xcom)
  BY SettledStays, Numbers DEF ClaimsSettled
<1>2. StillSettled(Shown("summary"))
  BY <1>s, SettledStays, Numbers DEF ClaimsSettled
<1>3. ASSUME NEW j \in JobIds, jobs[j].file = "summary" PROVE StillSettled(jobs[j].value)
  BY <1>3, SettledStays, Numbers DEF ClaimsSettled
<1>4. ASSUME NEW r \in Reporters PROVE StillSettled(reporter[r].got["summary"])
  BY <1>s, SettledStays, Numbers DEF ClaimsSettled
<1>5. StillSettled(xcom')
  <2>1. CASE xcom' \in {0, xcom}
    BY <1>0, <1>1, <2>1
  <2>2. CASE TaskSucceeds /\ step = 2
    BY <2>2, ResultSettled DEF TaskSucceeds
  <2>. QED
    BY <2>1, <2>2, RunOrReporters
    DEF StartTask, RunGoesOn, TaskSucceeds, TaskFails, Clear, runVars
<1>6. StillSettled(Shown("summary")')
  BY <1>2, <1>3, <1>s DEF Effects
<1>7. ASSUME NEW k \in JobIds', jobs'[k].file = "summary" PROVE StillSettled(jobs'[k].value)
  <2>1. CASE k \in JobIds
    BY <1>3, <1>7, <2>1 DEF Effects
  <2>2. CASE k \notin JobIds
    <3>1. StartTask /\ WriteOrder[step] = "summary" /\ jobs'[k].value = About
      BY <1>7, <2>2 DEF Effects
    <3>2. step = 3
      BY <3>1, Numbers DEF WriteOrder, StartTask
    <3>. QED
      BY <1>1, <3>1, <3>2 DEF About
  <2>. QED
    BY <2>1, <2>2
<1>8. ASSUME NEW q \in Reporters PROVE StillSettled(reporter'[q].got["summary"])
  <2>1. CASE UNCHANGED reporter
    BY <1>4, <2>1
  <2>2. ASSUME NEW r \in Reporters, ReaderMoves(r) PROVE StillSettled(reporter'[q].got["summary"])
    <3>1. reporter'[q].got["summary"] \in {0, reporter[q].got["summary"], Shown("summary")}
      BY <1>s, <2>2 DEF ReaderMoves
    <3>. QED
      BY <1>0, <1>2, <1>4, <3>1
  <2>. QED
    BY <2>1, <2>2, RunOrReporters
<1>. QED
  BY <1>5, <1>6, <1>7, <1>8 DEF ClaimsSettled, Settled, StillSettled

\* What a report that claims e shows after it has read the other evidence.
Supports(got, built) ==
    got["summary"] # 0 => got["dbt"] >= got["summary"] /\ got["landing"] >= built[got["summary"]]

LEMMA ReadingStep ==
  ASSUME TypeOK, Chronological, ClaimsSettled, ReadInOrder, SuccessIsSupported, [Next]_vars
  PROVE  ReadInOrder' /\ SuccessIsSupported'
<1> DEFINE Ahead == {"landing"} \cup Built
<1>s. Evidence = {"landing", "dbt", "summary"} /\ Evidence \subseteq Files
  BY DEF Evidence, Files
<1>0. SUFFICES ASSUME NEW q \in Reporters
               PROVE  /\ reporter'[q].pc \in Ahead /\ reporter'[q].got["summary"] # 0
                           => reporter'[q].got["dbt"] >= reporter'[q].got["summary"]
                      /\ reporter'[q].pc \in Built => Supports(reporter'[q].got, builtOn')
  BY DEF ReadInOrder, SuccessIsSupported, Built, Supports
<1>1. /\ reporter[q].pc \in Ahead /\ reporter[q].got["summary"] # 0
           => reporter[q].got["dbt"] >= reporter[q].got["summary"]
      /\ reporter[q].pc \in Built => Supports(reporter[q].got, builtOn)
  BY DEF ReadInOrder, SuccessIsSupported, Built, Supports
<1> DEFINE e == reporter[q].got["summary"]
<1>2. Settled(e) /\ e \in Nat /\ (e # 0 => e \in Executions /\ builtOn'[e] = builtOn[e])
  <2>1. Settled(e) /\ e \in Values
    BY <1>s DEF ClaimsSettled, TypeOK, Readings
  <2>. QED
    BY <1>s, <2>1, SettledKeepsBuiltOn, Numbers DEF Values
<1>3. Supports(reporter[q].got, builtOn) => Supports(reporter[q].got, builtOn')
  BY <1>2 DEF Supports
<1>4. CASE reporter'[q] = reporter[q]
  BY <1>1, <1>3, <1>4
<1>5. CASE ReaderMoves(q) /\ UNCHANGED runVars
  <2>1. CASE reporter'[q].pc = "start"
    BY <2>1 DEF Built
  <2>2. CASE reporter[q].pc \in Built /\ reporter'[q].pc \in Built /\ reporter'[q].got = reporter[q].got
    BY <1>1, <1>3, <2>2
  <2>3. CASE reporter'[q].pc = "dbt"
    BY <2>3 DEF Built
  <2>4. CASE /\ reporter'[q].got["summary"] = e
             /\ reporter'[q].got["dbt"] = Shown("dbt") /\ reporter'[q].pc = "landing"
    <3>1. e # 0 => Shown("dbt") >= e
      BY <1>2, <1>s, Numbers DEF Settled
    <3>. QED
      BY <2>4, <3>1 DEF Built
  <2>5. CASE /\ \A g \in {"summary", "dbt"} : reporter'[q].got[g] = reporter[q].got[g]
             /\ reporter'[q].got["landing"] = Shown("landing")
             /\ reporter[q].pc = "landing" /\ reporter'[q].pc = "build"
    <3>1. e # 0 => Shown("landing") >= builtOn[e]
      BY <1>2, <1>s, Numbers DEF Chronological
    <3>2. e # 0 => reporter[q].got["dbt"] >= e
      BY <1>1, <2>5
    <3>3. Supports(reporter'[q].got, builtOn')
      BY <1>2, <2>5, <3>1, <3>2 DEF Supports
    <3>. QED
      BY <2>5, <3>2, <3>3
  <2>. QED
    BY <1>5, <1>s, <2>1, <2>2, <2>3, <2>4, <2>5 DEF ReaderMoves
<1>6. ASSUME NEW r \in Reporters, ReaderMoves(r) PROVE q = r \/ reporter'[q] = reporter[q]
  BY <1>6 DEF ReaderMoves
<1>. QED
  BY <1>4, <1>5, <1>6, RunOrReporters

-----------------------------------------------------------------------------
(* The theorems.                                                            *)

LEMMA EvidenceInit == Init => EvidenceInv
<1> SUFFICES ASSUME Init PROVE EvidenceInv
  OBVIOUS
<1> USE EvidenceAssumption
<1>1. JobIds = {} /\ jobs \in Seq(Jobs)
  BY EmptySeq DEF Init, JobIds
<1>2. /\ \A f \in Files : temporary[f] = 0 /\ final[f] = 0
      /\ temporary \in [Files -> {0} \cup JobIds] /\ final \in [Files -> {0} \cup JobIds]
  BY DEF Init
<1>3. NotRead \in Readings /\ \A f \in Evidence : NotRead[f] = 0
  BY DEF NotRead, Readings, Values
<1>4. reporter \in [Reporters -> [pc : Reading, got : Readings, job : {0} \cup JobIds]]
  BY <1>3 DEF Init, Reading
<1>5. uploaded \in [{"report"} -> Readings] /\ execution \in Executions
  BY <1>3 DEF Init, Absent, Executions
<1>6. InodesOK
  BY <1>1, <1>2 DEF InodesOK
<1>9. execution = 1 /\ step = 1 /\ task = 0 /\ xcom = 0 /\ builtOn = [e \in Executions |-> 0]
  BY DEF Init
<1>13. step \in 1 .. 4 /\ task \in {0} \cup JobIds /\ (task # 0 => step <= 3)
  BY <1>9
<1>14. xcom \in Values /\ builtOn \in [Executions -> Values]
  BY <1>9 DEF Values
<1>15. TypeOK
  BY <1>4, <1>5, <1>6, <1>13, <1>14 DEF TypeOK
<1>7. \A f \in Files : Shown(f) = 0
  BY <1>2 DEF Shown
<1>8. \A r \in Reporters : reporter[r].pc = "start" /\ reporter[r].got["summary"] = 0
  BY <1>3 DEF Init, Evidence
<1>10. OwnTemporary /\ AlwaysWhole
  BY <1>1, <1>2 DEF OwnTemporary, AlwaysWhole
<1>11. Chronological
  BY <1>1, <1>7, <1>9 DEF Chronological, Evidence, Files
<1>12. ClaimsSettled
  BY <1>1, <1>7, <1>8, <1>9 DEF ClaimsSettled, Settled, Evidence, Files
<1>16. ReadInOrder /\ SuccessIsSupported
  BY <1>8 DEF ReadInOrder, SuccessIsSupported
<1>. QED
  BY <1>15, <1>10, <1>11, <1>12, <1>16 DEF EvidenceInv

LEMMA EvidenceStep == Exclusive /\ EvidenceInv /\ [Next]_vars => EvidenceInv'
<1> SUFFICES ASSUME Exclusive, EvidenceInv, [Next]_vars PROVE EvidenceInv'
  OBVIOUS
<1>0. /\ TypeOK /\ OwnTemporary /\ AlwaysWhole /\ Chronological /\ ClaimsSettled
      /\ ReadInOrder /\ SuccessIsSupported
  BY DEF EvidenceInv
<1>1. OwnTemporary' /\ AlwaysWhole' /\ Effects
  BY <1>0, EffectsOfStep
<1>2. TypeOK'
  BY <1>0, TypeStep
<1>3. Chronological' /\ ClaimsSettled'
  BY <1>0, <1>1, ChronologicalStep, ClaimsSettledStep
<1>4. ReadInOrder' /\ SuccessIsSupported'
  BY <1>0, ReadingStep
<1>. QED
  BY <1>1, <1>2, <1>3, <1>4 DEF EvidenceInv

\* Type correctness, whether or not the writes of a file exclude each other.
THEOREM EvidenceTypes == Spec => []TypeOK
<1>1. Init => TypeOK
  BY EvidenceInit DEF EvidenceInv
<1>2. TypeOK /\ [Next]_vars => TypeOK'
  BY TypeStep
<1>. QED
  BY <1>1, <1>2, PTL DEF Spec

\* The inductive invariant, where at most one write of a file is under way.
THEOREM EvidenceInvariant ==
  ASSUME Exclusive
  PROVE  Spec => []EvidenceInv
<1>1. EvidenceInv /\ [Next]_vars => EvidenceInv'
  BY EvidenceStep
<1>. QED
  BY <1>1, EvidenceInit, PTL DEF Spec

\* Whoever opens a file of the run's evidence or its report finds a whole one,
\* however many writers died and whatever temporary files they left.
THEOREM WholeFiles ==
  ASSUME Exclusive
  PROVE  Spec => []AlwaysWhole
<1>1. EvidenceInv => AlwaysWhole
  BY DEF EvidenceInv
<1>. QED
  BY <1>1, EvidenceInvariant, PTL

\* A report of success shows the result of the build that succeeded, or a later
\* one, and landing evidence no older than that build was made on, although
\* build_run_report reads three files one after the other, the run goes on, tasks
\* are cleared and the XCom of an earlier execution may be what success rests on.
THEOREM SupportedSuccess ==
  ASSUME Exclusive
  PROVE  Spec => []SuccessIsSupported
<1>1. EvidenceInv => SuccessIsSupported
  BY DEF EvidenceInv
<1>. QED
  BY <1>1, EvidenceInvariant, PTL

-----------------------------------------------------------------------------
(* The report that was uploaded.                                            *)

Uploaded == uploaded["report"]

\* Of the uploaded report too: the success that it claims is supported by the
\* evidence that it shows.
UploadSupported == Supports(Uploaded, builtOn)

UploadInv == Settled(Uploaded["summary"]) /\ UploadSupported

LEMMA UploadStep == Exclusive /\ EvidenceInv /\ UploadInv /\ [Next]_vars => UploadInv'
<1> SUFFICES ASSUME Exclusive, EvidenceInv, UploadInv, [Next]_vars PROVE UploadInv'
  OBVIOUS
<1>0. TypeOK /\ OwnTemporary /\ AlwaysWhole /\ Chronological /\ ClaimsSettled /\ SuccessIsSupported
  BY DEF EvidenceInv
<1>1. Effects
  BY <1>0, EffectsOfStep
<1>2. ASSUME NEW got \in Readings, Settled(got["summary"]), Supports(got, builtOn)
      PROVE  StillSettled(got["summary"]) /\ Supports(got, builtOn')
  <2>1. got["summary"] \in Values /\ got["summary"] \in Nat
    BY EvidenceAssumption DEF Readings, Evidence, Values, Executions
  <2>2. StillSettled(got["summary"])
    BY <1>0, <1>1, <1>2, <2>1, SettledStays
  <2>3. got["summary"] # 0 => builtOn'[got["summary"]] = builtOn[got["summary"]]
    BY <1>0, <1>2, <2>1, SettledKeepsBuiltOn DEF Values
  <2>. QED
    BY <1>2, <2>2, <2>3 DEF Supports
<1>3. \E got \in Readings : Uploaded' = got /\ Settled(got["summary"]) /\ Supports(got, builtOn)
  <2>1. CASE UNCHANGED uploaded
    BY <1>0, <2>1 DEF UploadInv, UploadSupported, Uploaded, TypeOK
  <2>2. ASSUME NEW r \in Reporters, Upload(r), ~UNCHANGED uploaded PROVE <1>3
    <3>1. reporter[r].pc = "upload" /\ reporter[r].got \in Readings /\ Uploaded' = reporter[r].got
      BY <1>0, <2>2 DEF Upload, TypeOK, Uploaded
    <3>2. Supports(reporter[r].got, builtOn)
      BY <1>0, <3>1 DEF SuccessIsSupported, Supports
    <3>. QED
      BY <1>0, <3>1, <3>2 DEF ClaimsSettled
  <2>3. (\E r \in Reporters : Upload(r)) \/ UNCHANGED uploaded
    BY DEF Next, vars, StartTask, TaskSucceeds, TaskFails, Clear, Open, Fill, Replace, KillJob,
           ReadFile, ReadFails, Persist, PersistEnds, CallAgain
  <2>. QED
    BY <2>1, <2>2, <2>3
<1>. QED
  BY <1>2, <1>3 DEF UploadInv, UploadSupported, Settled, StillSettled

\* The report in the metadata bucket, which is written once and for good, is such
\* a report, whatever the run did in the meantime.
THEOREM SupportedUpload ==
  ASSUME Exclusive
  PROVE  Spec => []UploadSupported
<1>1. Init => UploadInv
  BY DEF Init, UploadInv, UploadSupported, Supports, Uploaded, Absent, NotRead, Evidence, Settled
<1>2. EvidenceInv /\ UploadInv /\ [Next]_vars => UploadInv'
  BY UploadStep
<1>3. UploadInv => UploadSupported
  BY DEF UploadInv
<1>. QED
  BY <1>1, <1>2, <1>3, EvidenceInvariant, PTL DEF Spec
=============================================================================
