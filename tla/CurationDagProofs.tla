-------------------------- MODULE CurationDagProofs --------------------------
(***************************************************************************)
(* Proofs about CurationDag, for every value of its constants.             *)
(*                                                                         *)
(* The inductive invariant IInv has five parts, and each is shown to be    *)
(* kept by every action in a lemma of its own (TypeStep, ClaimStep,        *)
(* ChainStep, EvidenceStep).  The properties follow from it; the last      *)
(* theorem is the refinement of PublicationLadder.                         *)
(***************************************************************************)
EXTENDS CurationDag, TLAPS

-----------------------------------------------------------------------------
(* Clearing.                                                               *)

\* The stages of the DAG, spelled out: what Clear compares.
LEMMA StageValues ==
  /\ DOMAIN Stage = {"prepare", "upload", "submit", "await_glue", "await_landing", "transform", "report"}
  /\ Stage["prepare"] = 0 /\ Stage["upload"] = 1 /\ Stage["submit"] = 2
  /\ Stage["await_glue"] = 3 /\ Stage["await_landing"] = 4
  /\ Stage["transform"] = 5 /\ Stage["report"] = 6
BY DEF Stage

\* What is downstream of a cleared task is closed under the wiring of the DAG.
LEMMA DownstreamOrder ==
  ASSUME NEW task \in DOMAIN Stage
  PROVE  /\ "prepare" \in Downstream(task) => task = "prepare"
         /\ "prepare" \in Downstream(task) => "upload" \in Downstream(task)
         /\ "upload" \in Downstream(task) => "submit" \in Downstream(task)
         /\ "submit" \in Downstream(task) => "await_glue" \in Downstream(task)
         /\ "await_glue" \in Downstream(task) => "await_landing" \in Downstream(task)
         /\ "await_landing" \in Downstream(task) => "transform" \in Downstream(task)
BY StageValues DEF Downstream

\* Clearing a task resets it and what is downstream of it, and nothing else: whatever
\* keeps its state keeps its whole upstream.
LEMMA ClearEffect ==
  ASSUME TypeOK, NEW r \in Records, NEW task \in DOMAIN Stage, Clear(task, r)
  PROVE  /\ prepare' \in {"none", prepare}
         /\ \A q \in Records :
              /\ upload'[q] = "none" \/ (upload'[q] = upload[q] /\ prepare' = prepare)
              /\ submit'[q] = "none" \/ (submit'[q] = submit[q] /\ upload'[q] = upload[q])
              /\ awaitGlue'[q] = "none" \/ (awaitGlue'[q] = awaitGlue[q] /\ submit'[q] = submit[q])
              /\ awaitLanding'[q] = "none"
                   \/ (awaitLanding'[q] = awaitLanding[q] /\ awaitGlue'[q] = awaitGlue[q])
         /\ transform' = "none"
              \/ /\ transform' = transform /\ prepare' = prepare
                 /\ \A q \in Records : awaitLanding'[q] = awaitLanding[q]
<1> DEFINE D == Downstream(task)
<1>0. /\ "prepare" \in D => task = "prepare" /\ "upload" \in D
      /\ "upload" \in D => "submit" \in D
      /\ "submit" \in D => "await_glue" \in D
      /\ "await_glue" \in D => "await_landing" \in D
      /\ "await_landing" \in D => "transform" \in D
  BY DownstreamOrder
<1>d. /\ prepare' = IF "prepare" \in D THEN "none" ELSE prepare
      /\ transform' = IF "transform" \in D THEN "none" ELSE transform
      /\ \A q \in Records :
           LET hit == q = r \/ task = "prepare" IN
           /\ upload'[q] = IF hit /\ "upload" \in D THEN "none" ELSE upload[q]
           /\ submit'[q] = IF hit /\ "submit" \in D THEN "none" ELSE submit[q]
           /\ awaitGlue'[q] = IF hit /\ "await_glue" \in D THEN "none" ELSE awaitGlue[q]
           /\ awaitLanding'[q] = IF hit /\ "await_landing" \in D THEN "none" ELSE awaitLanding[q]
  BY DEF Clear, ClearTask, ClearMapped
<1> HIDE DEF D
<1>1. /\ prepare' \in {"none", prepare}
      /\ transform' = "none" \/ (transform' = transform /\ prepare' = prepare)
  BY <1>0, <1>d
<1>2. ASSUME NEW q \in Records
      PROVE  /\ upload'[q] = "none" \/ (upload'[q] = upload[q] /\ prepare' = prepare)
             /\ submit'[q] = "none" \/ (submit'[q] = submit[q] /\ upload'[q] = upload[q])
             /\ awaitGlue'[q] = "none" \/ (awaitGlue'[q] = awaitGlue[q] /\ submit'[q] = submit[q])
             /\ awaitLanding'[q] = "none"
                  \/ (awaitLanding'[q] = awaitLanding[q] /\ awaitGlue'[q] = awaitGlue[q])
             /\ transform' = "none" \/ awaitLanding'[q] = awaitLanding[q]
  BY <1>0, <1>d
<1>. QED
  BY <1>1, <1>2

-----------------------------------------------------------------------------
(* Types.                                                                  *)

\* Every action keeps the variables in their types, and leaves a process slot for
\* the next start of submit and of await_landing.
LEMMA TypeStep == TypeOK /\ AttemptBound /\ [Next]_vars => TypeOK' /\ AttemptBound'
<1> SUFFICES ASSUME TypeOK, AttemptBound, [Next]_vars PROVE TypeOK' /\ AttemptBound'
  OBVIOUS
<1> USE BoundsAssumption, RowsAssumption, ContentsAssumption
    DEF TypeOK, AttemptBound, TaskState, Finished, Bad, ProcState, Attempts, taskVars, xcomVars,
        workerVars, submitters, sensors, diskVars, bucketVars, glueVars, landingVars
<1>1. ASSUME PrepareSucceeds PROVE TypeOK' /\ AttemptBound'
  BY <1>1 DEF PrepareSucceeds
<1>2. ASSUME RetryPrepare PROVE TypeOK' /\ AttemptBound'
  BY <1>2 DEF RetryPrepare, PrepareError
<1>3. ASSUME PrepareFails PROVE TypeOK' /\ AttemptBound'
  BY <1>3 DEF PrepareFails, PrepareError
<1>4. ASSUME StartTransform PROVE TypeOK' /\ AttemptBound'
  BY <1>4 DEF StartTransform, SetTransform
<1>5. ASSUME TransformSucceeds PROVE TypeOK' /\ AttemptBound'
  BY <1>5 DEF TransformSucceeds, SetTransform
<1>6. ASSUME RetryTransform PROVE TypeOK' /\ AttemptBound'
  <2>1. transformLeft' \in 0 .. TransformRetries
    BY <1>6 DEF RetryTransform
  <2>2. transform' \in TaskState
    BY <1>6 DEF RetryTransform, TransformError, SetTransform
  <2>3. dbtSummary' \in BOOLEAN
    BY <1>6 DEF RetryTransform, TransformError, SetTransform
  <2>. QED
    BY <1>6, <2>1, <2>2, <2>3 DEF RetryTransform, TransformError, SetTransform
<1>7. ASSUME TransformFails PROVE TypeOK' /\ AttemptBound'
  BY <1>7 DEF TransformFails, TransformError, SetTransform
<1>8. ASSUME LateBuild PROVE TypeOK' /\ AttemptBound'
  BY <1>8 DEF LateBuild
<1>9. ASSUME WriteSummary PROVE TypeOK' /\ AttemptBound'
  BY <1>9 DEF WriteSummary, SetReport, Status
<1>10. ASSUME ReportFails PROVE TypeOK' /\ AttemptBound'
  BY <1>10 DEF ReportFails, SetReport, Status
<1>11. ASSUME BlockTransform PROVE TypeOK' /\ AttemptBound'
  BY <1>11 DEF BlockTransform, SetTransform, Blocked
<1>12. ASSUME DagRunTimeout PROVE TypeOK' /\ AttemptBound'
  BY <1>12 DEF DagRunTimeout, SkipUnfinished, SkipRecordTasks
<1>13. ASSUME NEW q \in Records, UploadSucceeds(q) PROVE TypeOK' /\ AttemptBound'
  BY <1>13 DEF UploadSucceeds, PutBronze
<1>14. ASSUME NEW q \in Records, RetryUpload(q) PROVE TypeOK' /\ AttemptBound'
  <2>1. bronze' \in [Records -> Contents \cup {NoContent}]
    BY <1>14 DEF RetryUpload, UploadError, BytesArePlanned, PutBronze
  <2>2. upload' \in [Records -> TaskState] /\ uploadLeft' \in [Records -> 0 .. UploadRetries]
    BY <1>14 DEF RetryUpload
  <2>3. lateBodies' \in [Records -> SUBSET Contents]
    BY <1>14 DEF RetryUpload, UploadError, BytesArePlanned
  <2>. QED
    BY <1>14, <2>1, <2>2, <2>3 DEF RetryUpload, UploadError
<1>15. ASSUME NEW q \in Records, UploadFails(q) PROVE TypeOK' /\ AttemptBound'
  <2>1. bronze' \in [Records -> Contents \cup {NoContent}]
    BY <1>15 DEF UploadFails, UploadError, BytesArePlanned, PutBronze
  <2>2. upload' \in [Records -> TaskState] /\ uploadLeft' \in [Records -> 0 .. UploadRetries]
    BY <1>15 DEF UploadFails
  <2>3. lateBodies' \in [Records -> SUBSET Contents]
    BY <1>15 DEF UploadFails, UploadError, BytesArePlanned
  <2>. QED
    BY <1>15, <2>1, <2>2, <2>3 DEF UploadFails, UploadError
<1>16. ASSUME NEW q \in Records, LatePut(q) PROVE TypeOK' /\ AttemptBound'
  <2>1. PICK body \in lateBodies[q] : bronze' = PutBronze(q, body)
    BY <1>16 DEF LatePut
  <2>2. body \in Contents
    OBVIOUS
  <2>3. bronze' \in [Records -> Contents \cup {NoContent}]
    BY <2>1, <2>2 DEF PutBronze
  <2>4. lateBodies' = [lateBodies EXCEPT ![q] = {}]
    BY <1>16 DEF LatePut
  <2>5. lateBodies' \in [Records -> SUBSET Contents]
    BY <2>4
  <2>6. /\ UNCHANGED <<taskVars, xcomVars, submitters, sensors, dbtStarted>>
        /\ UNCHANGED <<diskVars, glueVars, landingVars, claim, silver, completion>>
    BY <1>16 DEF LatePut
  <2>. QED
    BY <2>3, <2>5, <2>6
<1>17. ASSUME NEW q \in Records, StartSubmit(q) PROVE TypeOK' /\ AttemptBound'
  <2>1. /\ submit[q] = "none" /\ submit' = [submit EXCEPT ![q] = "running"]
        /\ attempt' = [attempt EXCEPT ![q] = @ + 1]
        /\ proc' = [proc EXCEPT ![q][attempt[q] + 1] = "preflight"]
    BY <1>17 DEF StartSubmit
  <2>2. attempt[q] + 1 \in 0 .. MaxClears + 1
    BY <2>1
  <2>3. attempt' \in [Records -> 0 .. MaxClears + 1]
    BY <2>1, <2>2
  <2>4. proc' \in [Records -> [Attempts -> ProcState]] /\ submit' \in [Records -> TaskState]
    BY <2>1
  <2>5. \A r \in Records : attempt'[r] <= clears + 1 /\ (submit'[r] = "none" => attempt'[r] <= clears)
    BY <2>1
  <2>. QED
    BY <1>17, <2>3, <2>4, <2>5 DEF StartSubmit
<1>18. ASSUME NEW q \in Records, BlockTask(q) PROVE TypeOK' /\ AttemptBound'
  <2>1. \A S : Blocked(S) # "none" => Blocked(S) \in Bad \cup {"skipped"}
    BY DEF Blocked
  <2>2. PICK state \in Bad \cup {"skipped"} :
          /\ upload' \in {upload, [upload EXCEPT ![q] = state]}
          /\ submit' \in {submit, [submit EXCEPT ![q] = state]}
          /\ awaitGlue' \in {awaitGlue, [awaitGlue EXCEPT ![q] = state]}
          /\ awaitLanding' \in {awaitLanding, [awaitLanding EXCEPT ![q] = state]}
    BY <1>18, <2>1 DEF BlockTask, BlockRecordTask
  <2>3. state \in TaskState /\ state # "none"
    OBVIOUS
  <2>4. upload' \in [Records -> TaskState]
    BY <2>2, <2>3
  <2>5. submit' \in [Records -> TaskState]
    BY <2>2, <2>3
  <2>6. awaitGlue' \in [Records -> TaskState]
    BY <2>2, <2>3
  <2>7. awaitLanding' \in [Records -> TaskState]
    BY <2>2, <2>3
  <2>8. \A r \in Records : /\ submit'[r] = "none" => submit[r] = "none"
                           /\ awaitLanding'[r] = "none" => awaitLanding[r] = "none"
    BY <2>2, <2>3
  <2>9. /\ UNCHANGED <<prepare, transform, report, prepareLeft, uploadLeft, transformLeft, clears>>
        /\ UNCHANGED <<xcomVars, workerVars, diskVars, bucketVars, glueVars, landingVars>>
    BY <1>18 DEF BlockTask
  <2>10. TypeOK'
    BY <2>4, <2>5, <2>6, <2>7, <2>9
  <2>11. AttemptBound'
    BY <2>8, <2>9
  <2>. QED
    BY <2>10, <2>11
<1>19. ASSUME NEW q \in Records, LoseWorker(q) PROVE TypeOK' /\ AttemptBound'
  BY <1>19 DEF LoseWorker
<1>20. ASSUME NEW q \in Records, EditLocal(q) PROVE TypeOK' /\ AttemptBound'
  BY <1>20 DEF EditLocal
<1>21. ASSUME NEW q \in Records, GlueStarts(q) PROVE TypeOK' /\ AttemptBound'
  <2>1. /\ glueRun' \in [Records -> {"none", "queued", "running", "succeeded", "failed"}]
        /\ executions' \in [Records -> Nat]
    BY <1>21 DEF GlueStarts
  <2>. QED
    BY <1>21, <2>1 DEF GlueStarts
<1>22. ASSUME NEW q \in Records, PublishCompletion(q) PROVE TypeOK' /\ AttemptBound'
  <2>1. completion' \in [Records -> BOOLEAN]
    BY <1>22 DEF PublishCompletion
  <2>. QED
    BY <1>22, <2>1 DEF PublishCompletion
<1>23. ASSUME NEW q \in Records, GlueSucceeds(q) PROVE TypeOK' /\ AttemptBound'
  <2>1. glueRun' \in [Records -> {"none", "queued", "running", "succeeded", "failed"}]
    BY <1>23 DEF GlueSucceeds
  <2>. QED
    BY <1>23, <2>1 DEF GlueSucceeds
<1>24. ASSUME NEW q \in Records, GlueFails(q) PROVE TypeOK' /\ AttemptBound'
  <2>1. glueRun' \in [Records -> {"none", "queued", "running", "succeeded", "failed"}]
    BY <1>24 DEF GlueFails
  <2>. QED
    BY <1>24, <2>1 DEF GlueFails
<1>25. ASSUME NEW q \in Records, StartAwaitGlue(q) PROVE TypeOK' /\ AttemptBound'
  BY <1>25 DEF StartAwaitGlue, SetAwaitGlue
<1>26. ASSUME NEW q \in Records, GlueFinished(q) PROVE TypeOK' /\ AttemptBound'
  BY <1>26 DEF GlueFinished, SetAwaitGlue
<1>27. ASSUME NEW q \in Records, AwaitGlueFails(q) PROVE TypeOK' /\ AttemptBound'
  BY <1>27 DEF AwaitGlueFails, SetAwaitGlue
<1>28. ASSUME NEW q \in Records, StartAwaitLanding(q) PROVE TypeOK' /\ AttemptBound'
  <2>1. /\ awaitLanding' = [awaitLanding EXCEPT ![q] = "running"] /\ awaitLanding[q] = "none"
        /\ landingTry' = [landingTry EXCEPT ![q] = @ + 1]
        /\ poke' = [poke EXCEPT ![q][landingTry[q] + 1] = [d \in Datasets |-> "todo"]]
    BY <1>28 DEF StartAwaitLanding, SetAwaitLanding
  <2>2. landingTry[q] + 1 \in 0 .. MaxClears + 1
    BY <2>1
  <2>3. landingTry' \in [Records -> 0 .. MaxClears + 1]
    BY <2>1, <2>2
  <2>4. [d \in Datasets |-> "todo"] \in [Datasets -> PokeState]
    BY DEF PokeState
  <2>5. poke' \in [Records -> [Attempts -> [Datasets -> PokeState]]]
    BY <2>1, <2>4
  <2>6. \A r \in Records : landingTry'[r] <= clears + 1 /\ (awaitLanding'[r] = "none" => landingTry'[r] <= clears)
    BY <2>1
  <2>. QED
    BY <1>28, <2>3, <2>5, <2>6 DEF StartAwaitLanding, SetAwaitLanding
<1>29. ASSUME NEW q \in Records, AwaitLandingFails(q) PROVE TypeOK' /\ AttemptBound'
  BY <1>29 DEF AwaitLandingFails, SetAwaitLanding
<1>30. ASSUME NEW q \in Records, NEW e \in Datasets, WriteSilver(q, e) PROVE TypeOK' /\ AttemptBound'
  BY <1>30 DEF WriteSilver
<1>31. ASSUME NEW q \in Records, NEW e \in Datasets, SnowpipeLoads(q, e) PROVE TypeOK' /\ AttemptBound'
  <2>1. loads' \in [Records -> [Datasets -> 0 .. 2]]
    BY <1>31 DEF SnowpipeLoads
  <2>. QED
    BY <1>31, <2>1 DEF SnowpipeLoads
<1>32. ASSUME NEW q \in Records, NEW e \in Datasets, PipeReloads(q, e) PROVE TypeOK' /\ AttemptBound'
  <2>1. loads' \in [Records -> [Datasets -> 0 .. 2]]
    BY <1>32 DEF PipeReloads
  <2>2. reloads' \in 0 .. MaxReloads
    BY <1>32 DEF PipeReloads
  <2>. QED
    BY <1>32, <2>1, <2>2 DEF PipeReloads
<1>33. ASSUME NEW q \in Records, NEW a \in Attempts, NEW e \in Datasets, QueryLanding(q, a, e) PROVE TypeOK' /\ AttemptBound'
  <2>1. poke' \in [Records -> [Attempts -> [Datasets -> PokeState]]]
    BY <1>33 DEF QueryLanding, PokeState
  <2>. QED
    BY <1>33, <2>1 DEF QueryLanding
<1>34. ASSUME NEW q \in Records, NEW a \in Attempts, FinishPoke(q, a) PROVE TypeOK' /\ AttemptBound'
  <2>1. poke' \in [Records -> [Attempts -> [Datasets -> PokeState]]]
    <3>1. PICK next \in {"todo", "idle"} : poke' = [poke EXCEPT ![q][a] = [d \in Datasets |-> next]]
      BY <1>34 DEF FinishPoke
    <3>2. [d \in Datasets |-> next] \in [Datasets -> PokeState]
      BY DEF PokeState
    <3>. QED
      BY <3>1, <3>2
  <2>2. landingReport' \in [Records -> {"absent", "waiting", "ready"}]
    BY <1>34 DEF FinishPoke
  <2>3. awaitLanding' \in [Records -> TaskState] /\ \A r \in Records : awaitLanding'[r] = "none" => awaitLanding[r] = "none"
    BY <1>34 DEF FinishPoke, SetAwaitLanding
  <2>4. /\ UNCHANGED <<prepare, transform, report, upload, submit, awaitGlue>>
        /\ UNCHANGED <<prepareLeft, uploadLeft, transformLeft, clears>>
    BY <1>34 DEF FinishPoke, SetAwaitLanding
  <2>. QED
    BY <1>34, <2>1, <2>2, <2>3, <2>4 DEF FinishPoke
<1>35. ASSUME NEW q \in Records, NEW a \in Attempts, Preflight(q, a) PROVE TypeOK' /\ AttemptBound'
  BY <1>35 DEF Preflight, Advance
<1>36. ASSUME NEW q \in Records, NEW a \in Attempts, ClaimSubmission(q, a) PROVE TypeOK' /\ AttemptBound'
  BY <1>36 DEF ClaimSubmission, Advance
<1>37. ASSUME NEW q \in Records, NEW a \in Attempts, ClaimResponseLost(q, a) PROVE TypeOK' /\ AttemptBound'
  <2>1. /\ proc' = [proc EXCEPT ![q][a] = "dead"]
        /\ submit' \in {submit, [submit EXCEPT ![q] = "failed"]}
    BY <1>37 DEF ClaimResponseLost, EndAttempt
  <2>2. proc' \in [Records -> [Attempts -> ProcState]] /\ submit' \in [Records -> TaskState]
    BY <2>1
  <2>3. \A r \in Records : submit'[r] = "none" => submit[r] = "none"
    BY <2>1
  <2>. QED
    BY <1>37, <2>2, <2>3 DEF ClaimResponseLost, EndAttempt
<1>38. ASSUME NEW q \in Records, NEW a \in Attempts, StartJobRun(q, a) PROVE TypeOK' /\ AttemptBound'
  <2>1. proc' \in [Records -> [Attempts -> ProcState]]
    BY <1>38 DEF StartJobRun, Advance
  <2>2. /\ jobRuns' \in [Records -> Nat]
        /\ glueRun' \in [Records -> {"none", "queued", "running", "succeeded", "failed"}]
        /\ UNCHANGED <<jobMaxRetries, executions>>
    BY <1>38 DEF StartJobRun, AcceptJobRun
  <2>. QED
    BY <1>38, <2>1, <2>2 DEF StartJobRun, Advance
<1>39. ASSUME NEW q \in Records, NEW a \in Attempts, StartResponseLost(q, a) PROVE TypeOK' /\ AttemptBound'
  <2>1. /\ proc' = [proc EXCEPT ![q][a] = "dead"]
        /\ submit' \in {submit, [submit EXCEPT ![q] = "failed"]}
    BY <1>39 DEF StartResponseLost, EndAttempt
  <2>2. proc' \in [Records -> [Attempts -> ProcState]] /\ submit' \in [Records -> TaskState]
    BY <2>1
  <2>3. /\ jobRuns' \in [Records -> Nat]
        /\ glueRun' \in [Records -> {"none", "queued", "running", "succeeded", "failed"}]
        /\ UNCHANGED <<jobMaxRetries, executions>>
    BY <1>39 DEF StartResponseLost, AcceptJobRun
  <2>4. \A r \in Records : submit'[r] = "none" => submit[r] = "none"
    BY <2>1
  <2>. QED
    BY <1>39, <2>2, <2>3, <2>4 DEF StartResponseLost, EndAttempt
<1>40. ASSUME NEW q \in Records, NEW a \in Attempts, ReportJobRun(q, a) PROVE TypeOK' /\ AttemptBound'
  <2>1. /\ proc' = [proc EXCEPT ![q][a] = "dead"]
        /\ submit' \in {submit, [submit EXCEPT ![q] = "success"]}
    BY <1>40 DEF ReportJobRun, EndAttempt
  <2>2. proc' \in [Records -> [Attempts -> ProcState]] /\ submit' \in [Records -> TaskState]
    BY <2>1
  <2>3. \A r \in Records : submit'[r] = "none" => submit[r] = "none"
    BY <2>1
  <2>. QED
    BY <1>40, <2>2, <2>3 DEF ReportJobRun, EndAttempt
<1>41. ASSUME NEW q \in Records, NEW a \in Attempts, AttemptFails(q, a) PROVE TypeOK' /\ AttemptBound'
  <2>1. /\ proc' = [proc EXCEPT ![q][a] = "dead"]
        /\ submit' \in {submit, [submit EXCEPT ![q] = "failed"]}
    BY <1>41 DEF AttemptFails, EndAttempt
  <2>2. proc' \in [Records -> [Attempts -> ProcState]] /\ submit' \in [Records -> TaskState]
    BY <2>1
  <2>3. \A r \in Records : submit'[r] = "none" => submit[r] = "none"
    BY <2>1
  <2>. QED
    BY <1>41, <2>2, <2>3 DEF AttemptFails, EndAttempt
<1>42. ASSUME NEW task \in DOMAIN Stage, NEW q \in Records, Clear(task, q) PROVE TypeOK' /\ AttemptBound'
  <2>1. /\ \A t, f : f \in [Records -> TaskState] => ClearMapped(task, q, t, f) \in [Records -> TaskState]
        /\ \A t, s : s \in TaskState => ClearTask(task, t, s) \in TaskState
    BY DEF ClearMapped, ClearTask
  <2>2. /\ upload' \in [Records -> TaskState] /\ submit' \in [Records -> TaskState]
        /\ awaitGlue' \in [Records -> TaskState] /\ awaitLanding' \in [Records -> TaskState]
        /\ {prepare', transform', report'} \subseteq TaskState
    BY <1>42, <2>1 DEF Clear
  <2>3. /\ prepareLeft' \in 0 .. PrepareRetries /\ transformLeft' \in 0 .. TransformRetries
        /\ uploadLeft' \in [Records -> 0 .. UploadRetries]
    BY <1>42 DEF Clear
  <2>4. clears' = clears + 1 /\ clears' \in 0 .. MaxClears /\ UNCHANGED <<attempt, landingTry>>
    BY <1>42 DEF Clear
  <2>5. AttemptBound'
    BY <2>4
  <2>. QED
    BY <1>42, <2>2, <2>3, <2>4, <2>5 DEF Clear
<1>43. CASE UNCHANGED vars
  BY <1>43 DEF vars
<1>. QED
  BY <1>1, <1>2, <1>3, <1>4, <1>5, <1>6, <1>7, <1>8, <1>9, <1>10, <1>11, <1>12, <1>13, <1>14,
     <1>15, <1>16, <1>17, <1>18, <1>19, <1>20, <1>21, <1>22, <1>23, <1>24, <1>25, <1>26, <1>27,
     <1>28, <1>29, <1>30, <1>31, <1>32, <1>33, <1>34, <1>35, <1>36, <1>37, <1>38, <1>39, <1>40,
     <1>41, <1>42, <1>43
  DEF Next, DagStep, RecordStep, GlueStep, SensorStep, SubmitStep, EnvironmentStep

-----------------------------------------------------------------------------
(* At most one submission.                                                 *)

\* Every action keeps the claim discipline of submit_glue: one attempt passes the
\* conditional put, and only it may call StartJobRun.
LEMMA ClaimStep ==
  TypeOK /\ ClaimInv /\ ChainInv /\ [Next]_vars => ClaimInv'
<1> SUFFICES ASSUME TypeOK, ClaimInv, ChainInv, [Next]_vars PROVE ClaimInv'
  OBVIOUS
<1> USE ContentsAssumption
    DEF TypeOK, ClaimInv, taskVars, xcomVars, workerVars, submitters, sensors, diskVars, bucketVars,
        glueVars, landingVars
<1>1. ASSUME PrepareSucceeds PROVE ClaimInv'
  BY <1>1 DEF PrepareSucceeds
<1>2. ASSUME RetryPrepare PROVE ClaimInv'
  BY <1>2 DEF RetryPrepare, PrepareError
<1>3. ASSUME PrepareFails PROVE ClaimInv'
  BY <1>3 DEF PrepareFails, PrepareError
<1>4. ASSUME StartTransform PROVE ClaimInv'
  BY <1>4 DEF StartTransform, SetTransform
<1>5. ASSUME TransformSucceeds PROVE ClaimInv'
  BY <1>5 DEF TransformSucceeds, SetTransform
<1>6. ASSUME RetryTransform PROVE ClaimInv'
  BY <1>6 DEF RetryTransform, TransformError, SetTransform
<1>7. ASSUME TransformFails PROVE ClaimInv'
  BY <1>7 DEF TransformFails, TransformError, SetTransform
<1>8. ASSUME LateBuild PROVE ClaimInv'
  BY <1>8 DEF LateBuild
<1>9. ASSUME WriteSummary PROVE ClaimInv'
  BY <1>9 DEF WriteSummary, SetReport, Status
<1>10. ASSUME ReportFails PROVE ClaimInv'
  BY <1>10 DEF ReportFails, SetReport, Status
<1>11. ASSUME BlockTransform PROVE ClaimInv'
  BY <1>11 DEF BlockTransform, SetTransform, Blocked
<1>12. ASSUME DagRunTimeout PROVE ClaimInv'
  BY <1>12 DEF DagRunTimeout, SkipUnfinished, SkipRecordTasks
<1>13. ASSUME NEW q \in Records, UploadSucceeds(q) PROVE ClaimInv'
  BY <1>13 DEF UploadSucceeds, PutBronze
<1>14. ASSUME NEW q \in Records, RetryUpload(q) PROVE ClaimInv'
  BY <1>14 DEF RetryUpload, UploadError, BytesArePlanned, PutBronze
<1>15. ASSUME NEW q \in Records, UploadFails(q) PROVE ClaimInv'
  BY <1>15 DEF UploadFails, UploadError, BytesArePlanned, PutBronze
<1>16. ASSUME NEW q \in Records, LatePut(q) PROVE ClaimInv'
  BY <1>16 DEF LatePut, PutBronze
<1>17. ASSUME NEW q \in Records, StartSubmit(q) PROVE ClaimInv'
  BY <1>17 DEF StartSubmit, ChainInv
<1>18. ASSUME NEW q \in Records, BlockTask(q) PROVE ClaimInv'
  BY <1>18 DEF BlockTask, BlockRecordTask, Blocked
<1>19. ASSUME NEW q \in Records, LoseWorker(q) PROVE ClaimInv'
  BY <1>19 DEF LoseWorker
<1>20. ASSUME NEW q \in Records, EditLocal(q) PROVE ClaimInv'
  BY <1>20 DEF EditLocal
<1>21. ASSUME NEW q \in Records, GlueStarts(q) PROVE ClaimInv'
  BY <1>21 DEF GlueStarts
<1>22. ASSUME NEW q \in Records, PublishCompletion(q) PROVE ClaimInv'
  BY <1>22 DEF PublishCompletion
<1>23. ASSUME NEW q \in Records, GlueSucceeds(q) PROVE ClaimInv'
  BY <1>23 DEF GlueSucceeds
<1>24. ASSUME NEW q \in Records, GlueFails(q) PROVE ClaimInv'
  BY <1>24 DEF GlueFails
<1>25. ASSUME NEW q \in Records, StartAwaitGlue(q) PROVE ClaimInv'
  BY <1>25 DEF StartAwaitGlue, SetAwaitGlue
<1>26. ASSUME NEW q \in Records, GlueFinished(q) PROVE ClaimInv'
  BY <1>26 DEF GlueFinished, SetAwaitGlue
<1>27. ASSUME NEW q \in Records, AwaitGlueFails(q) PROVE ClaimInv'
  BY <1>27 DEF AwaitGlueFails, SetAwaitGlue
<1>28. ASSUME NEW q \in Records, StartAwaitLanding(q) PROVE ClaimInv'
  BY <1>28 DEF StartAwaitLanding, SetAwaitLanding
<1>29. ASSUME NEW q \in Records, AwaitLandingFails(q) PROVE ClaimInv'
  BY <1>29 DEF AwaitLandingFails, SetAwaitLanding
<1>30. ASSUME NEW q \in Records, NEW e \in Datasets, WriteSilver(q, e) PROVE ClaimInv'
  BY <1>30 DEF WriteSilver
<1>31. ASSUME NEW q \in Records, NEW e \in Datasets, SnowpipeLoads(q, e) PROVE ClaimInv'
  BY <1>31 DEF SnowpipeLoads
<1>32. ASSUME NEW q \in Records, NEW e \in Datasets, PipeReloads(q, e) PROVE ClaimInv'
  BY <1>32 DEF PipeReloads
<1>33. ASSUME NEW q \in Records, NEW a \in Attempts, NEW e \in Datasets, QueryLanding(q, a, e) PROVE ClaimInv'
  BY <1>33 DEF QueryLanding
<1>34. ASSUME NEW q \in Records, NEW a \in Attempts, FinishPoke(q, a) PROVE ClaimInv'
  BY <1>34 DEF FinishPoke, SetAwaitLanding
<1>35. ASSUME NEW q \in Records, NEW a \in Attempts, Preflight(q, a) PROVE ClaimInv'
  BY <1>35 DEF Preflight, Advance
<1>36. ASSUME NEW q \in Records, NEW a \in Attempts, ClaimSubmission(q, a) PROVE ClaimInv'
  BY <1>36 DEF ClaimSubmission, Advance
<1>37. ASSUME NEW q \in Records, NEW a \in Attempts, ClaimResponseLost(q, a) PROVE ClaimInv'
  BY <1>37 DEF ClaimResponseLost, EndAttempt, Watched
<1>38. ASSUME NEW q \in Records, NEW a \in Attempts, StartJobRun(q, a) PROVE ClaimInv'
  BY <1>38 DEF StartJobRun, Advance, AcceptJobRun
<1>39. ASSUME NEW q \in Records, NEW a \in Attempts, StartResponseLost(q, a) PROVE ClaimInv'
  BY <1>39 DEF StartResponseLost, EndAttempt, Watched, AcceptJobRun
<1>40. ASSUME NEW q \in Records, NEW a \in Attempts, ReportJobRun(q, a) PROVE ClaimInv'
  BY <1>40 DEF ReportJobRun, EndAttempt, Watched
<1>41. ASSUME NEW q \in Records, NEW a \in Attempts, AttemptFails(q, a) PROVE ClaimInv'
  BY <1>41 DEF AttemptFails, EndAttempt, Watched
<1>42. ASSUME NEW task \in DOMAIN Stage, NEW q \in Records, Clear(task, q) PROVE ClaimInv'
  BY <1>42 DEF Clear
<1>43. CASE UNCHANGED vars
  BY <1>43 DEF vars
<1>. QED
  BY <1>1, <1>2, <1>3, <1>4, <1>5, <1>6, <1>7, <1>8, <1>9, <1>10, <1>11, <1>12, <1>13, <1>14,
     <1>15, <1>16, <1>17, <1>18, <1>19, <1>20, <1>21, <1>22, <1>23, <1>24, <1>25, <1>26, <1>27,
     <1>28, <1>29, <1>30, <1>31, <1>32, <1>33, <1>34, <1>35, <1>36, <1>37, <1>38, <1>39, <1>40,
     <1>41, <1>42, <1>43
  DEF Next, DagStep, RecordStep, GlueStep, SensorStep, SubmitStep, EnvironmentStep

-----------------------------------------------------------------------------
(* The chain of successful tasks.                                          *)

\* Every action keeps the chain of successful tasks, and what is uploaded is what is
\* planned; clearing, blocking and the DAG run timeout included.
LEMMA ChainStep ==
  TypeOK /\ ChainInv /\ [Next]_vars => ChainInv'
<1> SUFFICES ASSUME TypeOK, ChainInv, [Next]_vars PROVE ChainInv'
  OBVIOUS
<1> USE ContentsAssumption
    DEF TypeOK, ChainInv, Finished, Bad, taskVars, xcomVars, workerVars, submitters, sensors, diskVars,
        bucketVars, glueVars, landingVars
<1>1. ASSUME PrepareSucceeds PROVE ChainInv'
  BY <1>1 DEF PrepareSucceeds
<1>2. ASSUME RetryPrepare PROVE ChainInv'
  BY <1>2 DEF RetryPrepare, PrepareError
<1>3. ASSUME PrepareFails PROVE ChainInv'
  BY <1>3 DEF PrepareFails, PrepareError
<1>4. ASSUME StartTransform PROVE ChainInv'
  BY <1>4 DEF StartTransform, SetTransform
<1>5. ASSUME TransformSucceeds PROVE ChainInv'
  BY <1>5 DEF TransformSucceeds, SetTransform
<1>6. ASSUME RetryTransform PROVE ChainInv'
  BY <1>6 DEF RetryTransform, TransformError, SetTransform
<1>7. ASSUME TransformFails PROVE ChainInv'
  BY <1>7 DEF TransformFails, TransformError, SetTransform
<1>8. ASSUME LateBuild PROVE ChainInv'
  BY <1>8 DEF LateBuild
<1>9. ASSUME WriteSummary PROVE ChainInv'
  BY <1>9 DEF WriteSummary, SetReport, Status
<1>10. ASSUME ReportFails PROVE ChainInv'
  BY <1>10 DEF ReportFails, SetReport, Status
<1>11. ASSUME BlockTransform PROVE ChainInv'
  BY <1>11 DEF BlockTransform, SetTransform, Blocked
<1>12. ASSUME DagRunTimeout PROVE ChainInv'
  BY <1>12 DEF DagRunTimeout, SkipUnfinished, SkipRecordTasks
<1>13. ASSUME NEW q \in Records, UploadSucceeds(q) PROVE ChainInv'
  BY <1>13 DEF UploadSucceeds, PutBronze, BytesArePlanned
<1>14. ASSUME NEW q \in Records, RetryUpload(q) PROVE ChainInv'
  BY <1>14 DEF RetryUpload, UploadError, BytesArePlanned, PutBronze
<1>15. ASSUME NEW q \in Records, UploadFails(q) PROVE ChainInv'
  BY <1>15 DEF UploadFails, UploadError, BytesArePlanned, PutBronze
<1>16. ASSUME NEW q \in Records, LatePut(q) PROVE ChainInv'
  BY <1>16 DEF LatePut, PutBronze
<1>17. ASSUME NEW q \in Records, StartSubmit(q) PROVE ChainInv'
  BY <1>17 DEF StartSubmit
<1>18. ASSUME NEW q \in Records, BlockTask(q) PROVE ChainInv'
  BY <1>18 DEF BlockTask, BlockRecordTask, Blocked
<1>19. ASSUME NEW q \in Records, LoseWorker(q) PROVE ChainInv'
  BY <1>19 DEF LoseWorker
<1>20. ASSUME NEW q \in Records, EditLocal(q) PROVE ChainInv'
  BY <1>20 DEF EditLocal
<1>21. ASSUME NEW q \in Records, GlueStarts(q) PROVE ChainInv'
  BY <1>21 DEF GlueStarts
<1>22. ASSUME NEW q \in Records, PublishCompletion(q) PROVE ChainInv'
  BY <1>22 DEF PublishCompletion
<1>23. ASSUME NEW q \in Records, GlueSucceeds(q) PROVE ChainInv'
  BY <1>23 DEF GlueSucceeds
<1>24. ASSUME NEW q \in Records, GlueFails(q) PROVE ChainInv'
  BY <1>24 DEF GlueFails
<1>25. ASSUME NEW q \in Records, StartAwaitGlue(q) PROVE ChainInv'
  BY <1>25 DEF StartAwaitGlue, SetAwaitGlue
<1>26. ASSUME NEW q \in Records, GlueFinished(q) PROVE ChainInv'
  BY <1>26 DEF GlueFinished, SetAwaitGlue
<1>27. ASSUME NEW q \in Records, AwaitGlueFails(q) PROVE ChainInv'
  BY <1>27 DEF AwaitGlueFails, SetAwaitGlue
<1>28. ASSUME NEW q \in Records, StartAwaitLanding(q) PROVE ChainInv'
  BY <1>28 DEF StartAwaitLanding, SetAwaitLanding
<1>29. ASSUME NEW q \in Records, AwaitLandingFails(q) PROVE ChainInv'
  BY <1>29 DEF AwaitLandingFails, SetAwaitLanding
<1>30. ASSUME NEW q \in Records, NEW e \in Datasets, WriteSilver(q, e) PROVE ChainInv'
  BY <1>30 DEF WriteSilver
<1>31. ASSUME NEW q \in Records, NEW e \in Datasets, SnowpipeLoads(q, e) PROVE ChainInv'
  BY <1>31 DEF SnowpipeLoads
<1>32. ASSUME NEW q \in Records, NEW e \in Datasets, PipeReloads(q, e) PROVE ChainInv'
  BY <1>32 DEF PipeReloads
<1>33. ASSUME NEW q \in Records, NEW a \in Attempts, NEW e \in Datasets, QueryLanding(q, a, e) PROVE ChainInv'
  BY <1>33 DEF QueryLanding
<1>34. ASSUME NEW q \in Records, NEW a \in Attempts, FinishPoke(q, a) PROVE ChainInv'
  <2>1. /\ UNCHANGED <<prepare, transform, upload, submit, awaitGlue, plan, bronze>>
        /\ \/ awaitLanding[q] = "running" /\ awaitLanding' = [awaitLanding EXCEPT ![q] = "success"]
           \/ UNCHANGED awaitLanding
    BY <1>34 DEF FinishPoke, WatchedPoke, SetAwaitLanding
  <2>. QED
    BY <2>1
<1>35. ASSUME NEW q \in Records, NEW a \in Attempts, Preflight(q, a) PROVE ChainInv'
  BY <1>35 DEF Preflight, Advance
<1>36. ASSUME NEW q \in Records, NEW a \in Attempts, ClaimSubmission(q, a) PROVE ChainInv'
  BY <1>36 DEF ClaimSubmission, Advance
<1>37. ASSUME NEW q \in Records, NEW a \in Attempts, ClaimResponseLost(q, a) PROVE ChainInv'
  BY <1>37 DEF ClaimResponseLost, EndAttempt, Watched
<1>38. ASSUME NEW q \in Records, NEW a \in Attempts, StartJobRun(q, a) PROVE ChainInv'
  BY <1>38 DEF StartJobRun, Advance, AcceptJobRun
<1>39. ASSUME NEW q \in Records, NEW a \in Attempts, StartResponseLost(q, a) PROVE ChainInv'
  BY <1>39 DEF StartResponseLost, EndAttempt, Watched, AcceptJobRun
<1>40. ASSUME NEW q \in Records, NEW a \in Attempts, ReportJobRun(q, a) PROVE ChainInv'
  BY <1>40 DEF ReportJobRun, EndAttempt, Watched
<1>41. ASSUME NEW q \in Records, NEW a \in Attempts, AttemptFails(q, a) PROVE ChainInv'
  BY <1>41 DEF AttemptFails, EndAttempt, Watched
<1>42. ASSUME NEW task \in DOMAIN Stage, NEW q \in Records, Clear(task, q) PROVE ChainInv'
  <2>1. UNCHANGED <<plan, bronze>>
    BY <1>42 DEF Clear
  <2>. QED
    BY <1>42, <2>1, ClearEffect
<1>43. CASE UNCHANGED vars
  BY <1>43 DEF vars
<1>. QED
  BY <1>1, <1>2, <1>3, <1>4, <1>5, <1>6, <1>7, <1>8, <1>9, <1>10, <1>11, <1>12, <1>13, <1>14,
     <1>15, <1>16, <1>17, <1>18, <1>19, <1>20, <1>21, <1>22, <1>23, <1>24, <1>25, <1>26, <1>27,
     <1>28, <1>29, <1>30, <1>31, <1>32, <1>33, <1>34, <1>35, <1>36, <1>37, <1>38, <1>39, <1>40,
     <1>41, <1>42, <1>43
  DEF Next, DagStep, RecordStep, GlueStep, SensorStep, SubmitStep, EnvironmentStep

-----------------------------------------------------------------------------
(* What a step may change.                                                 *)

\* What exists stays: an object under a Bronze key and its bytes, a completion
\* inventory, rows of a loaded file, glue-<id>.json.
Lasting(r) ==
    /\ bronze[r] # NoContent => bronze'[r] = bronze[r]
    /\ completion[r] => completion'[r]
    /\ \A d \in Datasets : loads'[r][d] = loads[r][d] \/ loads'[r][d] = loads[r][d] + 1
    /\ glueReport[r] => glueReport'[r]

LEMMA LastingStep == ASSUME TypeOK, [Next]_vars, NEW r \in Records PROVE Lasting(r)
<1> USE DEF Lasting, TypeOK, taskVars, xcomVars, workerVars, submitters, sensors, diskVars, bucketVars,
            glueVars, landingVars
<1>1. ASSUME PrepareSucceeds PROVE Lasting(r)
  BY <1>1 DEF PrepareSucceeds
<1>2. ASSUME RetryPrepare PROVE Lasting(r)
  BY <1>2 DEF RetryPrepare, PrepareError
<1>3. ASSUME PrepareFails PROVE Lasting(r)
  BY <1>3 DEF PrepareFails, PrepareError
<1>4. ASSUME StartTransform PROVE Lasting(r)
  BY <1>4 DEF StartTransform, SetTransform
<1>5. ASSUME TransformSucceeds PROVE Lasting(r)
  BY <1>5 DEF TransformSucceeds, SetTransform
<1>6. ASSUME RetryTransform PROVE Lasting(r)
  BY <1>6 DEF RetryTransform, TransformError, SetTransform
<1>7. ASSUME TransformFails PROVE Lasting(r)
  BY <1>7 DEF TransformFails, TransformError, SetTransform
<1>8. ASSUME LateBuild PROVE Lasting(r)
  BY <1>8 DEF LateBuild
<1>9. ASSUME WriteSummary PROVE Lasting(r)
  BY <1>9 DEF WriteSummary, SetReport, Status
<1>10. ASSUME ReportFails PROVE Lasting(r)
  BY <1>10 DEF ReportFails, SetReport, Status
<1>11. ASSUME BlockTransform PROVE Lasting(r)
  BY <1>11 DEF BlockTransform, SetTransform, Blocked
<1>12. ASSUME DagRunTimeout PROVE Lasting(r)
  BY <1>12 DEF DagRunTimeout, SkipUnfinished, SkipRecordTasks
<1>13. ASSUME NEW q \in Records, UploadSucceeds(q) PROVE Lasting(r)
  BY <1>13 DEF UploadSucceeds, PutBronze
<1>14. ASSUME NEW q \in Records, RetryUpload(q) PROVE Lasting(r)
  BY <1>14 DEF RetryUpload, UploadError, BytesArePlanned, PutBronze
<1>15. ASSUME NEW q \in Records, UploadFails(q) PROVE Lasting(r)
  BY <1>15 DEF UploadFails, UploadError, BytesArePlanned, PutBronze
<1>16. ASSUME NEW q \in Records, LatePut(q) PROVE Lasting(r)
  BY <1>16 DEF LatePut, PutBronze
<1>17. ASSUME NEW q \in Records, StartSubmit(q) PROVE Lasting(r)
  BY <1>17 DEF StartSubmit
<1>18. ASSUME NEW q \in Records, BlockTask(q) PROVE Lasting(r)
  BY <1>18 DEF BlockTask, BlockRecordTask, Blocked
<1>19. ASSUME NEW q \in Records, LoseWorker(q) PROVE Lasting(r)
  BY <1>19 DEF LoseWorker
<1>20. ASSUME NEW q \in Records, EditLocal(q) PROVE Lasting(r)
  BY <1>20 DEF EditLocal
<1>21. ASSUME NEW q \in Records, GlueStarts(q) PROVE Lasting(r)
  BY <1>21 DEF GlueStarts
<1>22. ASSUME NEW q \in Records, PublishCompletion(q) PROVE Lasting(r)
  BY <1>22 DEF PublishCompletion
<1>23. ASSUME NEW q \in Records, GlueSucceeds(q) PROVE Lasting(r)
  BY <1>23 DEF GlueSucceeds
<1>24. ASSUME NEW q \in Records, GlueFails(q) PROVE Lasting(r)
  BY <1>24 DEF GlueFails
<1>25. ASSUME NEW q \in Records, StartAwaitGlue(q) PROVE Lasting(r)
  BY <1>25 DEF StartAwaitGlue, SetAwaitGlue
<1>26. ASSUME NEW q \in Records, GlueFinished(q) PROVE Lasting(r)
  BY <1>26 DEF GlueFinished, SetAwaitGlue
<1>27. ASSUME NEW q \in Records, AwaitGlueFails(q) PROVE Lasting(r)
  BY <1>27 DEF AwaitGlueFails, SetAwaitGlue
<1>28. ASSUME NEW q \in Records, StartAwaitLanding(q) PROVE Lasting(r)
  BY <1>28 DEF StartAwaitLanding, SetAwaitLanding
<1>29. ASSUME NEW q \in Records, AwaitLandingFails(q) PROVE Lasting(r)
  BY <1>29 DEF AwaitLandingFails, SetAwaitLanding
<1>30. ASSUME NEW q \in Records, NEW e \in Datasets, WriteSilver(q, e) PROVE Lasting(r)
  BY <1>30 DEF WriteSilver
<1>31. ASSUME NEW q \in Records, NEW e \in Datasets, SnowpipeLoads(q, e) PROVE Lasting(r)
  BY <1>31 DEF SnowpipeLoads
<1>32. ASSUME NEW q \in Records, NEW e \in Datasets, PipeReloads(q, e) PROVE Lasting(r)
  BY <1>32 DEF PipeReloads
<1>33. ASSUME NEW q \in Records, NEW a \in Attempts, NEW e \in Datasets, QueryLanding(q, a, e) PROVE Lasting(r)
  BY <1>33 DEF QueryLanding
<1>34. ASSUME NEW q \in Records, NEW a \in Attempts, FinishPoke(q, a) PROVE Lasting(r)
  BY <1>34 DEF FinishPoke, SetAwaitLanding
<1>35. ASSUME NEW q \in Records, NEW a \in Attempts, Preflight(q, a) PROVE Lasting(r)
  BY <1>35 DEF Preflight, Advance
<1>36. ASSUME NEW q \in Records, NEW a \in Attempts, ClaimSubmission(q, a) PROVE Lasting(r)
  BY <1>36 DEF ClaimSubmission, Advance
<1>37. ASSUME NEW q \in Records, NEW a \in Attempts, ClaimResponseLost(q, a) PROVE Lasting(r)
  BY <1>37 DEF ClaimResponseLost, EndAttempt, Watched
<1>38. ASSUME NEW q \in Records, NEW a \in Attempts, StartJobRun(q, a) PROVE Lasting(r)
  BY <1>38 DEF StartJobRun, Advance, AcceptJobRun
<1>39. ASSUME NEW q \in Records, NEW a \in Attempts, StartResponseLost(q, a) PROVE Lasting(r)
  BY <1>39 DEF StartResponseLost, EndAttempt, Watched, AcceptJobRun
<1>40. ASSUME NEW q \in Records, NEW a \in Attempts, ReportJobRun(q, a) PROVE Lasting(r)
  BY <1>40 DEF ReportJobRun, EndAttempt, Watched
<1>41. ASSUME NEW q \in Records, NEW a \in Attempts, AttemptFails(q, a) PROVE Lasting(r)
  BY <1>41 DEF AttemptFails, EndAttempt, Watched
<1>42. ASSUME NEW task \in DOMAIN Stage, NEW q \in Records, Clear(task, q) PROVE Lasting(r)
  BY <1>42 DEF Clear
<1>43. CASE UNCHANGED vars
  BY <1>43 DEF vars
<1>. QED
  BY <1>1, <1>2, <1>3, <1>4, <1>5, <1>6, <1>7, <1>8, <1>9, <1>10, <1>11, <1>12, <1>13, <1>14,
     <1>15, <1>16, <1>17, <1>18, <1>19, <1>20, <1>21, <1>22, <1>23, <1>24, <1>25, <1>26, <1>27,
     <1>28, <1>29, <1>30, <1>31, <1>32, <1>33, <1>34, <1>35, <1>36, <1>37, <1>38, <1>39, <1>40,
     <1>41, <1>42, <1>43
  DEF Next, DagStep, RecordStep, GlueStep, SensorStep, SubmitStep, EnvironmentStep

\* Where a successful task, a ready poke or a file that says ready comes from: a
\* submission is started by the scheduler, a run by the holder of the claim, and a
\* record is ready when each query of one poke found it so.
Origins(r) ==
    /\ attempt'[r] # attempt[r] => upload[r] = "success"
    /\ jobRuns'[r] # jobRuns[r] => \E a \in Attempts : proc[r][a] = "start"
    /\ submit'[r] = "success" => submit[r] = "success" \/ glueReport'[r]
    /\ \A a \in Attempts, d \in Datasets : poke'[r][a][d] = "ready" =>
         poke[r][a][d] = "ready"
           \/ (LandingReady(r, d) /\ completion[r] /\ bronze[r] \notin Malformed)
    /\ landingReport'[r] = "ready" =>
         landingReport[r] = "ready" \/ \E a \in Attempts : AllReady(r, a)
    /\ awaitLanding'[r] = "success" =>
         awaitLanding[r] = "success" \/ \E a \in Attempts : AllReady(r, a)

LEMMA OriginsStep == ASSUME TypeOK, [Next]_vars, NEW r \in Records PROVE Origins(r)
<1> USE DEF Origins, TypeOK, taskVars, xcomVars, workerVars, submitters, sensors, diskVars, bucketVars,
            glueVars, landingVars
<1>1. ASSUME PrepareSucceeds PROVE Origins(r)
  BY <1>1 DEF PrepareSucceeds
<1>2. ASSUME RetryPrepare PROVE Origins(r)
  BY <1>2 DEF RetryPrepare, PrepareError
<1>3. ASSUME PrepareFails PROVE Origins(r)
  BY <1>3 DEF PrepareFails, PrepareError
<1>4. ASSUME StartTransform PROVE Origins(r)
  BY <1>4 DEF StartTransform, SetTransform
<1>5. ASSUME TransformSucceeds PROVE Origins(r)
  BY <1>5 DEF TransformSucceeds, SetTransform
<1>6. ASSUME RetryTransform PROVE Origins(r)
  BY <1>6 DEF RetryTransform, TransformError, SetTransform
<1>7. ASSUME TransformFails PROVE Origins(r)
  BY <1>7 DEF TransformFails, TransformError, SetTransform
<1>8. ASSUME LateBuild PROVE Origins(r)
  BY <1>8 DEF LateBuild
<1>9. ASSUME WriteSummary PROVE Origins(r)
  BY <1>9 DEF WriteSummary, SetReport, Status
<1>10. ASSUME ReportFails PROVE Origins(r)
  BY <1>10 DEF ReportFails, SetReport, Status
<1>11. ASSUME BlockTransform PROVE Origins(r)
  BY <1>11 DEF BlockTransform, SetTransform, Blocked
<1>12. ASSUME DagRunTimeout PROVE Origins(r)
  BY <1>12 DEF DagRunTimeout, SkipUnfinished, SkipRecordTasks
<1>13. ASSUME NEW q \in Records, UploadSucceeds(q) PROVE Origins(r)
  BY <1>13 DEF UploadSucceeds, PutBronze
<1>14. ASSUME NEW q \in Records, RetryUpload(q) PROVE Origins(r)
  BY <1>14 DEF RetryUpload, UploadError, BytesArePlanned, PutBronze
<1>15. ASSUME NEW q \in Records, UploadFails(q) PROVE Origins(r)
  BY <1>15 DEF UploadFails, UploadError, BytesArePlanned, PutBronze
<1>16. ASSUME NEW q \in Records, LatePut(q) PROVE Origins(r)
  BY <1>16 DEF LatePut, PutBronze
<1>17. ASSUME NEW q \in Records, StartSubmit(q) PROVE Origins(r)
  BY <1>17 DEF StartSubmit
<1>18. ASSUME NEW q \in Records, BlockTask(q) PROVE Origins(r)
  BY <1>18 DEF BlockTask, BlockRecordTask, Blocked
<1>19. ASSUME NEW q \in Records, LoseWorker(q) PROVE Origins(r)
  BY <1>19 DEF LoseWorker
<1>20. ASSUME NEW q \in Records, EditLocal(q) PROVE Origins(r)
  BY <1>20 DEF EditLocal
<1>21. ASSUME NEW q \in Records, GlueStarts(q) PROVE Origins(r)
  BY <1>21 DEF GlueStarts
<1>22. ASSUME NEW q \in Records, PublishCompletion(q) PROVE Origins(r)
  BY <1>22 DEF PublishCompletion
<1>23. ASSUME NEW q \in Records, GlueSucceeds(q) PROVE Origins(r)
  BY <1>23 DEF GlueSucceeds
<1>24. ASSUME NEW q \in Records, GlueFails(q) PROVE Origins(r)
  BY <1>24 DEF GlueFails
<1>25. ASSUME NEW q \in Records, StartAwaitGlue(q) PROVE Origins(r)
  BY <1>25 DEF StartAwaitGlue, SetAwaitGlue
<1>26. ASSUME NEW q \in Records, GlueFinished(q) PROVE Origins(r)
  BY <1>26 DEF GlueFinished, SetAwaitGlue
<1>27. ASSUME NEW q \in Records, AwaitGlueFails(q) PROVE Origins(r)
  BY <1>27 DEF AwaitGlueFails, SetAwaitGlue
<1>28. ASSUME NEW q \in Records, StartAwaitLanding(q) PROVE Origins(r)
  BY <1>28 DEF StartAwaitLanding, SetAwaitLanding
<1>29. ASSUME NEW q \in Records, AwaitLandingFails(q) PROVE Origins(r)
  BY <1>29 DEF AwaitLandingFails, SetAwaitLanding
<1>30. ASSUME NEW q \in Records, NEW e \in Datasets, WriteSilver(q, e) PROVE Origins(r)
  BY <1>30 DEF WriteSilver
<1>31. ASSUME NEW q \in Records, NEW e \in Datasets, SnowpipeLoads(q, e) PROVE Origins(r)
  BY <1>31 DEF SnowpipeLoads
<1>32. ASSUME NEW q \in Records, NEW e \in Datasets, PipeReloads(q, e) PROVE Origins(r)
  BY <1>32 DEF PipeReloads
<1>33. ASSUME NEW q \in Records, NEW a \in Attempts, NEW e \in Datasets, QueryLanding(q, a, e) PROVE Origins(r)
  BY <1>33 DEF QueryLanding
<1>34. ASSUME NEW q \in Records, NEW a \in Attempts, FinishPoke(q, a) PROVE Origins(r)
  BY <1>34 DEF FinishPoke, SetAwaitLanding
<1>35. ASSUME NEW q \in Records, NEW a \in Attempts, Preflight(q, a) PROVE Origins(r)
  BY <1>35 DEF Preflight, Advance
<1>36. ASSUME NEW q \in Records, NEW a \in Attempts, ClaimSubmission(q, a) PROVE Origins(r)
  BY <1>36 DEF ClaimSubmission, Advance
<1>37. ASSUME NEW q \in Records, NEW a \in Attempts, ClaimResponseLost(q, a) PROVE Origins(r)
  BY <1>37 DEF ClaimResponseLost, EndAttempt, Watched
<1>38. ASSUME NEW q \in Records, NEW a \in Attempts, StartJobRun(q, a) PROVE Origins(r)
  BY <1>38 DEF StartJobRun, Advance, AcceptJobRun
<1>39. ASSUME NEW q \in Records, NEW a \in Attempts, StartResponseLost(q, a) PROVE Origins(r)
  BY <1>39 DEF StartResponseLost, EndAttempt, Watched, AcceptJobRun
<1>40. ASSUME NEW q \in Records, NEW a \in Attempts, ReportJobRun(q, a) PROVE Origins(r)
  BY <1>40 DEF ReportJobRun, EndAttempt, Watched
<1>41. ASSUME NEW q \in Records, NEW a \in Attempts, AttemptFails(q, a) PROVE Origins(r)
  BY <1>41 DEF AttemptFails, EndAttempt, Watched
<1>42. ASSUME NEW task \in DOMAIN Stage, NEW q \in Records, Clear(task, q) PROVE Origins(r)
  BY <1>42, ClearEffect DEF Clear
<1>43. CASE UNCHANGED vars
  BY <1>43 DEF vars
<1>. QED
  BY <1>1, <1>2, <1>3, <1>4, <1>5, <1>6, <1>7, <1>8, <1>9, <1>10, <1>11, <1>12, <1>13, <1>14,
     <1>15, <1>16, <1>17, <1>18, <1>19, <1>20, <1>21, <1>22, <1>23, <1>24, <1>25, <1>26, <1>27,
     <1>28, <1>29, <1>30, <1>31, <1>32, <1>33, <1>34, <1>35, <1>36, <1>37, <1>38, <1>39, <1>40,
     <1>41, <1>42, <1>43
  DEF Next, DagStep, RecordStep, GlueStep, SensorStep, SubmitStep, EnvironmentStep

\* Where the leaves of the DAG come from: a build is started by the scheduler, a file
\* or an XCom about it by the build, and a success of report by that XCom.  That a
\* build was started, and its file, stay.
LeafOrigins ==
    /\ transform' = "running" => transform = "running" \/ StartTransform
    /\ dbtStarted' <=> dbtStarted \/ StartTransform
    /\ dbtSummary => dbtSummary'
    /\ dbtSummary' => dbtSummary \/ dbtStarted \/ transform = "running"
    /\ dbtXCom' => dbtXCom \/ dbtSummary'
    /\ summary' = "success" => summary = "success" \/ dbtXCom

LEMMA LeafOriginsStep == ASSUME TypeOK, [Next]_vars PROVE LeafOrigins
<1>0. StartTransform => dbtStarted'
  BY DEF StartTransform
<1> USE <1>0 DEF LeafOrigins, TypeOK, taskVars, xcomVars, workerVars, submitters, sensors, diskVars,
                 bucketVars, glueVars, landingVars
<1>1. ASSUME PrepareSucceeds PROVE LeafOrigins
  BY <1>1 DEF PrepareSucceeds
<1>2. ASSUME RetryPrepare PROVE LeafOrigins
  BY <1>2 DEF RetryPrepare, PrepareError
<1>3. ASSUME PrepareFails PROVE LeafOrigins
  BY <1>3 DEF PrepareFails, PrepareError
<1>4. ASSUME StartTransform PROVE LeafOrigins
  BY <1>4 DEF StartTransform, SetTransform
<1>5. ASSUME TransformSucceeds PROVE LeafOrigins
  BY <1>5 DEF TransformSucceeds, SetTransform
<1>6. ASSUME RetryTransform PROVE LeafOrigins
  BY <1>6 DEF RetryTransform, TransformError, SetTransform
<1>7. ASSUME TransformFails PROVE LeafOrigins
  BY <1>7 DEF TransformFails, TransformError, SetTransform
<1>8. ASSUME LateBuild PROVE LeafOrigins
  BY <1>8 DEF LateBuild
<1>9. ASSUME WriteSummary PROVE LeafOrigins
  BY <1>9 DEF WriteSummary, SetReport, Status
<1>10. ASSUME ReportFails PROVE LeafOrigins
  BY <1>10 DEF ReportFails, SetReport, Status
<1>11. ASSUME BlockTransform PROVE LeafOrigins
  BY <1>11 DEF BlockTransform, SetTransform, Blocked
<1>12. ASSUME DagRunTimeout PROVE LeafOrigins
  BY <1>12 DEF DagRunTimeout, SkipUnfinished, SkipRecordTasks
<1>13. ASSUME NEW q \in Records, UploadSucceeds(q) PROVE LeafOrigins
  BY <1>13 DEF UploadSucceeds, PutBronze
<1>14. ASSUME NEW q \in Records, RetryUpload(q) PROVE LeafOrigins
  BY <1>14 DEF RetryUpload, UploadError, BytesArePlanned, PutBronze
<1>15. ASSUME NEW q \in Records, UploadFails(q) PROVE LeafOrigins
  BY <1>15 DEF UploadFails, UploadError, BytesArePlanned, PutBronze
<1>16. ASSUME NEW q \in Records, LatePut(q) PROVE LeafOrigins
  BY <1>16 DEF LatePut, PutBronze
<1>17. ASSUME NEW q \in Records, StartSubmit(q) PROVE LeafOrigins
  BY <1>17 DEF StartSubmit
<1>18. ASSUME NEW q \in Records, BlockTask(q) PROVE LeafOrigins
  BY <1>18 DEF BlockTask, BlockRecordTask, Blocked
<1>19. ASSUME NEW q \in Records, LoseWorker(q) PROVE LeafOrigins
  BY <1>19 DEF LoseWorker
<1>20. ASSUME NEW q \in Records, EditLocal(q) PROVE LeafOrigins
  BY <1>20 DEF EditLocal
<1>21. ASSUME NEW q \in Records, GlueStarts(q) PROVE LeafOrigins
  BY <1>21 DEF GlueStarts
<1>22. ASSUME NEW q \in Records, PublishCompletion(q) PROVE LeafOrigins
  BY <1>22 DEF PublishCompletion
<1>23. ASSUME NEW q \in Records, GlueSucceeds(q) PROVE LeafOrigins
  BY <1>23 DEF GlueSucceeds
<1>24. ASSUME NEW q \in Records, GlueFails(q) PROVE LeafOrigins
  BY <1>24 DEF GlueFails
<1>25. ASSUME NEW q \in Records, StartAwaitGlue(q) PROVE LeafOrigins
  BY <1>25 DEF StartAwaitGlue, SetAwaitGlue
<1>26. ASSUME NEW q \in Records, GlueFinished(q) PROVE LeafOrigins
  BY <1>26 DEF GlueFinished, SetAwaitGlue
<1>27. ASSUME NEW q \in Records, AwaitGlueFails(q) PROVE LeafOrigins
  BY <1>27 DEF AwaitGlueFails, SetAwaitGlue
<1>28. ASSUME NEW q \in Records, StartAwaitLanding(q) PROVE LeafOrigins
  BY <1>28 DEF StartAwaitLanding, SetAwaitLanding
<1>29. ASSUME NEW q \in Records, AwaitLandingFails(q) PROVE LeafOrigins
  BY <1>29 DEF AwaitLandingFails, SetAwaitLanding
<1>30. ASSUME NEW q \in Records, NEW e \in Datasets, WriteSilver(q, e) PROVE LeafOrigins
  BY <1>30 DEF WriteSilver
<1>31. ASSUME NEW q \in Records, NEW e \in Datasets, SnowpipeLoads(q, e) PROVE LeafOrigins
  BY <1>31 DEF SnowpipeLoads
<1>32. ASSUME NEW q \in Records, NEW e \in Datasets, PipeReloads(q, e) PROVE LeafOrigins
  BY <1>32 DEF PipeReloads
<1>33. ASSUME NEW q \in Records, NEW a \in Attempts, NEW e \in Datasets, QueryLanding(q, a, e) PROVE LeafOrigins
  BY <1>33 DEF QueryLanding
<1>34. ASSUME NEW q \in Records, NEW a \in Attempts, FinishPoke(q, a) PROVE LeafOrigins
  BY <1>34 DEF FinishPoke, SetAwaitLanding
<1>35. ASSUME NEW q \in Records, NEW a \in Attempts, Preflight(q, a) PROVE LeafOrigins
  BY <1>35 DEF Preflight, Advance
<1>36. ASSUME NEW q \in Records, NEW a \in Attempts, ClaimSubmission(q, a) PROVE LeafOrigins
  BY <1>36 DEF ClaimSubmission, Advance
<1>37. ASSUME NEW q \in Records, NEW a \in Attempts, ClaimResponseLost(q, a) PROVE LeafOrigins
  BY <1>37 DEF ClaimResponseLost, EndAttempt, Watched
<1>38. ASSUME NEW q \in Records, NEW a \in Attempts, StartJobRun(q, a) PROVE LeafOrigins
  BY <1>38 DEF StartJobRun, Advance, AcceptJobRun
<1>39. ASSUME NEW q \in Records, NEW a \in Attempts, StartResponseLost(q, a) PROVE LeafOrigins
  BY <1>39 DEF StartResponseLost, EndAttempt, Watched, AcceptJobRun
<1>40. ASSUME NEW q \in Records, NEW a \in Attempts, ReportJobRun(q, a) PROVE LeafOrigins
  BY <1>40 DEF ReportJobRun, EndAttempt, Watched
<1>41. ASSUME NEW q \in Records, NEW a \in Attempts, AttemptFails(q, a) PROVE LeafOrigins
  BY <1>41 DEF AttemptFails, EndAttempt, Watched
<1>42. ASSUME NEW task \in DOMAIN Stage, NEW q \in Records, Clear(task, q) PROVE LeafOrigins
  BY <1>42 DEF Clear, ClearTask
<1>43. CASE UNCHANGED vars
  BY <1>43 DEF vars
<1>. QED
  BY <1>1, <1>2, <1>3, <1>4, <1>5, <1>6, <1>7, <1>8, <1>9, <1>10, <1>11, <1>12, <1>13, <1>14,
     <1>15, <1>16, <1>17, <1>18, <1>19, <1>20, <1>21, <1>22, <1>23, <1>24, <1>25, <1>26, <1>27,
     <1>28, <1>29, <1>30, <1>31, <1>32, <1>33, <1>34, <1>35, <1>36, <1>37, <1>38, <1>39, <1>40,
     <1>41, <1>42, <1>43
  DEF Next, DagStep, RecordStep, GlueStep, SensorStep, SubmitStep, EnvironmentStep

-----------------------------------------------------------------------------
(* Evidence.                                                               *)

\* Loading a file again only adds rows (the multiplication the SMT solver cannot do).
LEMMA TimesRows ==
  ASSUME NEW n \in Nat, NEW i \in 0 .. 2, NEW j \in 0 .. 2
  PROVE  /\ i * n \in Nat
         /\ i <= j => i * n <= j * n
<1>1. 0 * n = 0 /\ 1 * n = n /\ 2 * n = n + n
  OBVIOUS
<1>2. i \in {0, 1, 2} /\ j \in {0, 1, 2}
  OBVIOUS
<1>. QED
  BY <1>1, <1>2

\* The rows in Landing of one dataset never decrease.
LEMMA LandedRowsGrow ==
  ASSUME TypeOK, TypeOK', NEW r \in Records, NEW d \in Datasets,
         loads'[r][d] = loads[r][d] \/ loads'[r][d] = loads[r][d] + 1
  PROVE  /\ LandedRows(r, d) \in Nat /\ LandedRows(r, d)' \in Nat
         /\ LandedRows(r, d) <= LandedRows(r, d)'
<1>1. Rows[d] \in Nat /\ loads[r][d] \in 0 .. 2 /\ loads'[r][d] \in 0 .. 2
  BY RowsAssumption DEF TypeOK
<1>2. loads[r][d] <= loads'[r][d]
  BY <1>1
<1>. QED
  BY <1>1, <1>2, TimesRows DEF LandedRows

\* Once a dataset is fully loaded from a well-formed record, it stays so.
LEMMA LoadedStable ==
  ASSUME TypeOK, TypeOK', ClaimInv, [Next]_vars, NEW r \in Records, NEW d \in Datasets, Loaded(r, d)
  PROVE  Loaded(r, d)'
<1>1. completion[r] /\ bronze[r] # NoContent
  BY DEF Loaded, TypeOK, ClaimInv
<1>2. completion'[r] /\ bronze'[r] = bronze[r]
  BY <1>1, LastingStep DEF Lasting
<1>3. loads'[r][d] = loads[r][d] \/ loads'[r][d] = loads[r][d] + 1
  BY LastingStep DEF Lasting
<1>4. LandedRows(r, d)' >= Rows[d]
  BY <1>3, LandedRowsGrow, RowsAssumption DEF Loaded
<1>. QED
  BY <1>2, <1>4 DEF Loaded

\* A record whose rows are all in Landing stays so.
LEMMA RecordLoadedStable ==
  ASSUME TypeOK, TypeOK', ClaimInv, [Next]_vars, NEW r \in Records, RecordLoaded(r)
  PROVE  RecordLoaded(r)'
BY LoadedStable DEF RecordLoaded

\* Every action keeps what the sensors, their files, a dbt build, its XCom and
\* run-summary.json stand for.
LEMMA EvidenceStep ==
  TypeOK /\ TypeOK' /\ ChainInv /\ ClaimInv /\ EvidenceInv /\ [Next]_vars => EvidenceInv'
<1> SUFFICES ASSUME TypeOK, TypeOK', ChainInv, ClaimInv, EvidenceInv, [Next]_vars
             PROVE  EvidenceInv'
  OBVIOUS
<1>a. ASSUME NEW r \in Records, NEW a \in Attempts, AllReady(r, a) PROVE RecordLoaded(r)'
  <2>1. RecordLoaded(r)
    BY <1>a DEF AllReady, EvidenceInv, RecordLoaded
  <2>. QED
    BY <2>1, RecordLoadedStable
<1>1. ASSUME NEW r \in Records, submit'[r] = "success" PROVE glueReport'[r]
  BY <1>1, LastingStep, OriginsStep DEF Lasting, Origins, EvidenceInv
<1>2. ASSUME NEW r \in Records, NEW a \in Attempts, NEW d \in Datasets, poke'[r][a][d] = "ready"
      PROVE  Loaded(r, d)'
  <2>1. CASE poke[r][a][d] = "ready"
    BY <2>1, LoadedStable DEF EvidenceInv
  <2>2. CASE LandingReady(r, d) /\ completion[r] /\ bronze[r] \notin Malformed
    <3>1. Rows[d] \in Nat
      BY RowsAssumption
    <3>2. Loaded(r, d)
      BY <2>2, <3>1 DEF LandingReady, Loaded
    <3>. QED
      BY <3>2, LoadedStable
  <2>. QED
    BY <1>2, <2>1, <2>2, OriginsStep DEF Origins
<1>3. ASSUME NEW r \in Records, landingReport'[r] = "ready" PROVE RecordLoaded(r)'
  <2>1. CASE landingReport[r] = "ready"
    BY <2>1, RecordLoadedStable DEF EvidenceInv
  <2>. QED
    BY <1>3, <1>a, <2>1, OriginsStep DEF Origins
<1>4. ASSUME NEW r \in Records, awaitLanding'[r] = "success" PROVE RecordLoaded(r)'
  <2>1. CASE awaitLanding[r] = "success"
    BY <2>1, RecordLoadedStable DEF EvidenceInv
  <2>. QED
    BY <1>4, <1>a, <2>1, OriginsStep DEF Origins
<1>5. dbtStarted' => \A r \in Records : glueReport'[r] /\ RecordLoaded(r)'
  <2> SUFFICES ASSUME dbtStarted', NEW r \in Records PROVE glueReport'[r] /\ RecordLoaded(r)'
    OBVIOUS
  <2>1. CASE dbtStarted
    <3>1. glueReport[r] /\ RecordLoaded(r)
      BY <2>1 DEF EvidenceInv
    <3>. QED
      BY <3>1, LastingStep, RecordLoadedStable DEF Lasting
  <2>2. CASE StartTransform
    <3>1. awaitLanding[r] = "success"
      BY <2>2 DEF StartTransform
    <3>2. submit[r] = "success"
      BY <3>1 DEF ChainInv
    <3>3. glueReport[r] /\ RecordLoaded(r)
      BY <3>1, <3>2 DEF EvidenceInv
    <3>. QED
      BY <3>3, LastingStep, RecordLoadedStable DEF Lasting
  <2>. QED
    BY <2>1, <2>2, LeafOriginsStep DEF LeafOrigins
<1>6. /\ transform' = "running" => dbtStarted'
      /\ dbtSummary' => dbtStarted'
      /\ dbtXCom' => dbtSummary'
      /\ summary' = "success" => dbtSummary'
  BY LeafOriginsStep DEF LeafOrigins, EvidenceInv
<1>. QED
  BY <1>1, <1>2, <1>3, <1>4, <1>5, <1>6 DEF EvidenceInv

-----------------------------------------------------------------------------
(* The invariant, and what follows from it.                                *)

\* The inductive invariant holds initially.
LEMMA InitInv == Init => IInv
<1> SUFFICES ASSUME Init PROVE IInv
  OBVIOUS
<1> USE BoundsAssumption, RowsAssumption, ContentsAssumption DEF Init
<1>1. TypeOK
  <2>1. /\ {prepare, transform, report} \subseteq TaskState
        /\ upload \in [Records -> TaskState] /\ submit \in [Records -> TaskState]
        /\ awaitGlue \in [Records -> TaskState] /\ awaitLanding \in [Records -> TaskState]
    BY DEF TaskState, Finished, Bad
  <2>2. /\ prepareLeft \in 0 .. PrepareRetries /\ transformLeft \in 0 .. TransformRetries
        /\ uploadLeft \in [Records -> 0 .. UploadRetries]
        /\ clears \in 0 .. MaxClears /\ edits \in 0 .. MaxEdits /\ reloads \in 0 .. MaxReloads
    OBVIOUS
  <2>3. /\ attempt \in [Records -> 0 .. MaxClears + 1]
        /\ proc \in [Records -> [Attempts -> ProcState]]
        /\ lateBodies \in [Records -> SUBSET Contents]
        /\ landingTry \in [Records -> 0 .. MaxClears + 1]
        /\ poke \in [Records -> [Attempts -> [Datasets -> PokeState]]]
        /\ loads \in [Records -> [Datasets -> 0 .. 2]]
    BY DEF ProcState, PokeState
  <2>4. /\ plan \in [Records -> Contents \cup {NoContent}]
        /\ bronze \in [Records -> Contents \cup {NoContent}]
        /\ claim \in [Records -> BOOLEAN] /\ completion \in [Records -> BOOLEAN]
        /\ glueReport \in [Records -> BOOLEAN] /\ silver \in [Records -> SUBSET Datasets]
        /\ landingReport \in [Records -> {"absent", "waiting", "ready"}]
        /\ jobRuns \in [Records -> Nat] /\ executions \in [Records -> Nat]
        /\ glueRun \in [Records -> {"none", "queued", "running", "succeeded", "failed"}]
    OBVIOUS
  <2>. QED
    BY <2>1, <2>2, <2>3, <2>4 DEF TypeOK
<1>2. AttemptBound
  BY DEF AttemptBound
<1>3. ChainInv
  BY DEF ChainInv
<1>4. ClaimInv
  BY DEF ClaimInv
<1>5. EvidenceInv
  BY DEF EvidenceInv
<1>. QED
  BY <1>1, <1>2, <1>3, <1>4, <1>5 DEF IInv

\* The inductive invariant holds in every reachable state, for any records, datasets,
\* retries, clears, edits and reloads.
THEOREM Invariant == Spec => []IInv
<1>1. IInv /\ [Next]_vars => IInv'
  BY TypeStep, ClaimStep, ChainStep, EvidenceStep DEF IInv
<1>. QED
  BY InitInv, <1>1, PTL DEF Spec

\* Every variable keeps its type (all of CurationDag).
THEOREM TypeCorrect == Spec => []TypeOK
<1>1. IInv => TypeOK
  BY DEF IInv
<1>. QED
  BY Invariant, <1>1, PTL

\* submit_glue: the curation job is accepted and executed at most once per physical
\* identity, however often submit is cleared, whichever abandoned attempts are alive.
THEOREM SubmitOnce == Spec => []AtMostOneExecution
<1>1. IInv => AtMostOneExecution
  <2> SUFFICES ASSUME IInv, NEW r \in Records PROVE jobRuns[r] <= 1 /\ executions[r] <= 1
    BY DEF AtMostOneExecution
  <2>1. jobRuns[r] \in Nat /\ (jobRuns[r] > 0 => jobRuns[r] = 1) /\ executions[r] <= 1
    BY DEF IInv, TypeOK, ClaimInv
  <2>. QED
    BY <2>1
<1>. QED
  BY Invariant, <1>1, PTL

\* report, check_landing, build_dbt: no evidence file says more than what happened,
\* whichever process wrote it, abandoned or not, and a summary that says success while
\* transform is successful is of the bytes of the present plan.
THEOREM EvidenceTruthful == Spec => []EvidenceIsTrue
<1>1. IInv => EvidenceIsTrue
  <2> SUFFICES ASSUME IInv PROVE EvidenceIsTrue
    OBVIOUS
  <2>1. /\ \A r \in Records : landingReport[r] = "ready" => RecordLoaded(r)
        /\ dbtSummary => \A r \in Records : glueReport[r] /\ RecordLoaded(r)
        /\ summary = "success" => dbtSummary
    BY DEF IInv, EvidenceInv
  <2>2. transform = "success" => \A r \in Records : bronze[r] = plan[r]
    BY DEF IInv, ChainInv
  <2>. QED
    BY <2>1, <2>2 DEF EvidenceIsTrue
<1>. QED
  BY Invariant, <1>1, PTL

\* upload_bronze: an object under an immutable Bronze key is never replaced, a
\* submission begins only over the planned bytes, and a run only over some.
THEOREM BronzeNeverReplaced == Spec => BronzeImmutable
<1> DEFINE Immutable ==
      \A r \in Records :
        /\ bronze[r] # NoContent => bronze'[r] = bronze[r]
        /\ attempt'[r] # attempt[r] => bronze[r] = plan[r] /\ plan[r] # NoContent
        /\ jobRuns'[r] # jobRuns[r] => bronze[r] # NoContent
<1>1. IInv /\ [Next]_vars => [Immutable]_vars
  <2> SUFFICES ASSUME IInv, [Next]_vars, NEW r \in Records
               PROVE  /\ bronze[r] # NoContent => bronze'[r] = bronze[r]
                      /\ attempt'[r] # attempt[r] => bronze[r] = plan[r] /\ plan[r] # NoContent
                      /\ jobRuns'[r] # jobRuns[r] => bronze[r] # NoContent
    OBVIOUS
  <2>0. Lasting(r) /\ Origins(r)
    BY LastingStep, OriginsStep DEF IInv
  <2>1. bronze[r] # NoContent => bronze'[r] = bronze[r]
    BY <2>0 DEF Lasting
  <2>2. upload[r] = "success" => bronze[r] = plan[r] /\ plan[r] # NoContent
    BY ContentsAssumption DEF IInv, ChainInv
  <2>3. \A a \in Attempts : proc[r][a] = "start" => bronze[r] # NoContent
    BY DEF IInv, ClaimInv
  <2>. QED
    BY <2>0, <2>1, <2>2, <2>3 DEF Origins
<1>. QED
  BY Invariant, <1>1, PTL DEF Spec, BronzeImmutable

\* The gate: dbt starts only when every planned row of every record is in Landing.
THEOREM GateHolds == Spec => GateBeforeDbt
<1> DEFINE Gate == \A r \in Records : /\ bronze[r] = plan[r] /\ completion[r]
                                      /\ bronze[r] \notin Malformed
                                      /\ \A d \in Datasets : LandedRows(r, d) >= Rows[d]
<1>1. IInv /\ [Next]_vars => [(transform # "running" /\ transform' = "running") => Gate]_vars
  <2> SUFFICES ASSUME IInv, [Next]_vars, transform # "running", transform' = "running"
               PROVE  Gate
    OBVIOUS
  <2>1. StartTransform
    BY LeafOriginsStep DEF IInv, LeafOrigins
  <2>2. \A r \in Records : awaitLanding[r] = "success"
    BY <2>1 DEF StartTransform
  <2>3. \A r \in Records : bronze[r] = plan[r]
    BY <2>2 DEF IInv, ChainInv
  <2>4. \A r \in Records : RecordLoaded(r)
    BY <2>2 DEF IInv, EvidenceInv
  <2>. QED
    BY <2>3, <2>4, RowsAssumption DEF RecordLoaded, Loaded
<1>. QED
  BY Invariant, <1>1, PTL DEF Spec, GateBeforeDbt

-----------------------------------------------------------------------------
(* The refinement of PublicationLadder.                                    *)

\* A step that moves one record to its next rung, and no other, is a step of the ladder.
LEMMA ClimbFrom ==
  ASSUME NEW r \in Records, Rung(r) \in DOMAIN Ladder!NextRung, Rung(r)' = Ladder!NextRung[Rung(r)],
         \A q \in Records \ {r} : Rung(q)' = Rung(q), dbtSummary' = dbtSummary
  PROVE  Ladder!Climb(r)
BY DEF Ladder!Climb

\* What each piece of evidence says of those below it on the ladder.
LEMMA LadderOrder ==
  ASSUME TypeOK, ClaimInv, NEW r \in Records
  PROVE  /\ bronze[r] = NoContent => ~claim[r] /\ executions[r] = 0 /\ ~completion[r]
         /\ ~claim[r] => executions[r] = 0 /\ ~completion[r]
         /\ glueRun[r] = "queued" => claim[r] /\ executions[r] = 0 /\ ~completion[r]
         /\ glueRun[r] = "running" => claim[r] /\ executions[r] = 1
<1>1. executions[r] \in {0, 1} /\ jobRuns[r] \in Nat
  <2>1. executions[r] \in Nat /\ jobRuns[r] \in Nat
    BY DEF TypeOK
  <2>2. executions[r] <= 1
    BY DEF ClaimInv
  <2>. QED
    BY <2>1, <2>2
<1>2. executions[r] = 1 => claim[r]
  BY <1>1 DEF ClaimInv
<1>3. completion[r] => executions[r] = 1
  BY DEF ClaimInv
<1>4. glueRun[r] \in {"queued", "running"} => claim[r]
  BY <1>1 DEF ClaimInv
<1>. QED
  BY <1>1, <1>2, <1>3, <1>4 DEF ClaimInv

\* Every step of the DAG run is a step of the publication ladder or a stutter.
LEMMA LadderStep ==
  IInv /\ [Next]_vars => [Ladder!Serve \/ \E r \in Records : Ladder!Climb(r)]_(Ladder!ladderVars)
<1> SUFFICES ASSUME IInv, [Next]_vars
             PROVE  [Ladder!Serve \/ \E r \in Records : Ladder!Climb(r)]_(Ladder!ladderVars)
  OBVIOUS
<1> DEFINE Climbs == Ladder!Serve \/ (\E r \in Records : Ladder!Climb(r)) \/ UNCHANGED Ladder!ladderVars
<1> DEFINE Still == <<bronze, claim, completion, executions, dbtSummary>>
<1>a. UNCHANGED Still => Climbs
  BY DEF Ladder!ladderVars, Rung
<1>b. ASSUME NEW r \in Records, NEW body \in Contents, bronze' = PutBronze(r, body),
             UNCHANGED <<claim, completion, executions, dbtSummary>>
      PROVE  Climbs
  <2>1. CASE bronze[r] # NoContent
    BY <1>b, <2>1, <1>a DEF PutBronze
  <2>2. CASE bronze[r] = NoContent
    <3>1. \A q \in Records \ {r} : Rung(q)' = Rung(q)
      BY <1>b, <2>2 DEF PutBronze, Rung, IInv, TypeOK
    <3>2. Rung(r) = "absent"
      BY <2>2, LadderOrder DEF Rung, IInv
    <3>3. Rung(r)' = "staged"
      BY <1>b, <2>2, LadderOrder, ContentsAssumption DEF PutBronze, Rung, IInv, TypeOK
    <3>. QED
      BY <1>b, <3>1, <3>2, <3>3, ClimbFrom DEF Ladder!NextRung
  <2>. QED
    BY <2>1, <2>2
<1>c. ASSUME NEW r \in Records, ~claim[r], claim' = [claim EXCEPT ![r] = TRUE], bronze[r] # NoContent,
             UNCHANGED <<bronze, completion, executions, dbtSummary>>
      PROVE  Climbs
  <2>1. \A q \in Records \ {r} : Rung(q)' = Rung(q)
    BY <1>c DEF Rung, IInv, TypeOK
  <2>2. Rung(r) = "staged" /\ Rung(r)' = "claimed"
    BY <1>c, LadderOrder DEF Rung, IInv, TypeOK
  <2>. QED
    BY <1>c, <2>1, <2>2, ClimbFrom DEF Ladder!NextRung
<1>d. ASSUME NEW r \in Records, GlueStarts(r) PROVE Climbs
  <2>1. \A q \in Records \ {r} : Rung(q)' = Rung(q)
    BY <1>d DEF GlueStarts, bucketVars, Rung, IInv, TypeOK
  <2>2. Rung(r) = "claimed" /\ Rung(r)' = "executed"
    BY <1>d, LadderOrder DEF GlueStarts, bucketVars, Rung, IInv, TypeOK
  <2>. QED
    BY <1>d, <2>1, <2>2, ClimbFrom DEF GlueStarts, diskVars, Ladder!NextRung
<1>e. ASSUME NEW r \in Records, PublishCompletion(r) PROVE Climbs
  <2>1. \A q \in Records \ {r} : Rung(q)' = Rung(q)
    BY <1>e DEF PublishCompletion, glueVars, Rung, IInv, TypeOK
  <2>2. Rung(r) = "executed" /\ Rung(r)' = "published"
    BY <1>e, LadderOrder DEF PublishCompletion, glueVars, Rung, IInv, TypeOK
  <2>. QED
    BY <1>e, <2>1, <2>2, ClimbFrom DEF PublishCompletion, diskVars, Ladder!NextRung
<1>f. ASSUME dbtStarted, UNCHANGED <<bronze, claim, completion, executions>>,
             dbtSummary' = TRUE
      PROVE  Climbs
  <2>1. \A r \in Records : Rung(r) = "published" /\ Rung(r)' = Rung(r)
    BY <1>f, RowsAssumption DEF IInv, EvidenceInv, RecordLoaded, Loaded, Rung
  <2>. QED
    BY <1>f, <2>1, RowsAssumption DEF Ladder!Serve
<1> HIDE DEF Climbs
<1>g. ASSUME NEW r \in Records, NEW a \in Attempts, proc[r][a] = "claim" PROVE bronze[r] # NoContent
  BY <1>g DEF IInv, ClaimInv
<1>i. ASSUME NEW r \in Records, UploadError(r) PROVE Climbs
  <2>1. UNCHANGED <<claim, completion, executions, dbtSummary>>
    BY <1>i DEF UploadError, diskVars, glueVars
  <2>2. local[r] \in Contents
    BY DEF IInv, TypeOK
  <2>. QED
    BY <1>i, <1>a, <1>b, <2>1, <2>2 DEF UploadError
<1>j. transform = "running" => dbtStarted
  BY DEF IInv, EvidenceInv
<1>h. Climbs
  <2> USE DEF taskVars, xcomVars, workerVars, submitters, sensors, diskVars, bucketVars, glueVars, landingVars
  <2>1. ASSUME PrepareSucceeds PROVE Climbs
    BY <2>1, <1>a DEF PrepareSucceeds
  <2>2. ASSUME RetryPrepare PROVE Climbs
    BY <2>2, <1>a DEF RetryPrepare, PrepareError
  <2>3. ASSUME PrepareFails PROVE Climbs
    BY <2>3, <1>a DEF PrepareFails, PrepareError
  <2>4. ASSUME StartTransform PROVE Climbs
    BY <2>4, <1>a DEF StartTransform, SetTransform
  <2>5. ASSUME TransformSucceeds PROVE Climbs
    BY <2>5, <1>f, <1>j DEF TransformSucceeds, SetTransform
  <2>6. ASSUME RetryTransform PROVE Climbs
    BY <2>6, <1>a, <1>f, <1>j DEF RetryTransform, TransformError, SetTransform
  <2>7. ASSUME TransformFails PROVE Climbs
    BY <2>7, <1>a, <1>f, <1>j DEF TransformFails, TransformError, SetTransform
  <2>8. ASSUME LateBuild PROVE Climbs
    BY <2>8, <1>a, <1>f, <1>j DEF LateBuild
  <2>9. ASSUME WriteSummary PROVE Climbs
    BY <2>9, <1>a DEF WriteSummary, SetReport, Status
  <2>10. ASSUME ReportFails PROVE Climbs
    BY <2>10, <1>a DEF ReportFails, SetReport, Status
  <2>11. ASSUME BlockTransform PROVE Climbs
    BY <2>11, <1>a DEF BlockTransform, SetTransform, Blocked
  <2>12. ASSUME DagRunTimeout PROVE Climbs
    BY <2>12, <1>a DEF DagRunTimeout, SkipUnfinished, SkipRecordTasks
  <2>13. ASSUME NEW q \in Records, UploadSucceeds(q) PROVE Climbs
    <3>1. local[q] \in Contents
      BY DEF IInv, TypeOK
    <3>. QED
      BY <2>13, <1>b, <3>1 DEF UploadSucceeds
  <2>14. ASSUME NEW q \in Records, RetryUpload(q) PROVE Climbs
    BY <2>14, <1>i DEF RetryUpload
  <2>15. ASSUME NEW q \in Records, UploadFails(q) PROVE Climbs
    BY <2>15, <1>i DEF UploadFails
  <2>16. ASSUME NEW q \in Records, LatePut(q) PROVE Climbs
    <3>1. PICK body \in lateBodies[q] : bronze' = PutBronze(q, body)
      BY <2>16 DEF LatePut
    <3>2. body \in Contents
      BY DEF IInv, TypeOK
    <3>. QED
      BY <2>16, <1>b, <3>1, <3>2 DEF LatePut
  <2>17. ASSUME NEW q \in Records, StartSubmit(q) PROVE Climbs
    BY <2>17, <1>a DEF StartSubmit
  <2>18. ASSUME NEW q \in Records, BlockTask(q) PROVE Climbs
    BY <2>18, <1>a DEF BlockTask, BlockRecordTask, Blocked
  <2>19. ASSUME NEW q \in Records, LoseWorker(q) PROVE Climbs
    BY <2>19, <1>a DEF LoseWorker
  <2>20. ASSUME NEW q \in Records, EditLocal(q) PROVE Climbs
    BY <2>20, <1>a DEF EditLocal
  <2>21. ASSUME NEW q \in Records, GlueStarts(q) PROVE Climbs
    BY <2>21, <1>d
  <2>22. ASSUME NEW q \in Records, PublishCompletion(q) PROVE Climbs
    BY <2>22, <1>e
  <2>23. ASSUME NEW q \in Records, GlueSucceeds(q) PROVE Climbs
    BY <2>23, <1>a DEF GlueSucceeds
  <2>24. ASSUME NEW q \in Records, GlueFails(q) PROVE Climbs
    BY <2>24, <1>a DEF GlueFails
  <2>25. ASSUME NEW q \in Records, StartAwaitGlue(q) PROVE Climbs
    BY <2>25, <1>a DEF StartAwaitGlue, SetAwaitGlue
  <2>26. ASSUME NEW q \in Records, GlueFinished(q) PROVE Climbs
    BY <2>26, <1>a DEF GlueFinished, SetAwaitGlue
  <2>27. ASSUME NEW q \in Records, AwaitGlueFails(q) PROVE Climbs
    BY <2>27, <1>a DEF AwaitGlueFails, SetAwaitGlue
  <2>28. ASSUME NEW q \in Records, StartAwaitLanding(q) PROVE Climbs
    BY <2>28, <1>a DEF StartAwaitLanding, SetAwaitLanding
  <2>29. ASSUME NEW q \in Records, AwaitLandingFails(q) PROVE Climbs
    BY <2>29, <1>a DEF AwaitLandingFails, SetAwaitLanding
  <2>30. ASSUME NEW q \in Records, NEW e \in Datasets, WriteSilver(q, e) PROVE Climbs
    BY <2>30, <1>a DEF WriteSilver
  <2>31. ASSUME NEW q \in Records, NEW e \in Datasets, SnowpipeLoads(q, e) PROVE Climbs
    BY <2>31, <1>a DEF SnowpipeLoads
  <2>32. ASSUME NEW q \in Records, NEW e \in Datasets, PipeReloads(q, e) PROVE Climbs
    BY <2>32, <1>a DEF PipeReloads
  <2>33. ASSUME NEW q \in Records, NEW a \in Attempts, NEW e \in Datasets, QueryLanding(q, a, e) PROVE Climbs
    BY <2>33, <1>a DEF QueryLanding
  <2>34. ASSUME NEW q \in Records, NEW a \in Attempts, FinishPoke(q, a) PROVE Climbs
    BY <2>34, <1>a DEF FinishPoke, SetAwaitLanding
  <2>35. ASSUME NEW q \in Records, NEW a \in Attempts, Preflight(q, a) PROVE Climbs
    BY <2>35, <1>a DEF Preflight, Advance
  <2>36. ASSUME NEW q \in Records, NEW a \in Attempts, ClaimSubmission(q, a) PROVE Climbs
    BY <2>36, <1>c, <1>g DEF ClaimSubmission, Advance
  <2>37. ASSUME NEW q \in Records, NEW a \in Attempts, ClaimResponseLost(q, a) PROVE Climbs
    BY <2>37, <1>c, <1>g DEF ClaimResponseLost, EndAttempt, Watched
  <2>38. ASSUME NEW q \in Records, NEW a \in Attempts, StartJobRun(q, a) PROVE Climbs
    BY <2>38, <1>a DEF StartJobRun, Advance, AcceptJobRun
  <2>39. ASSUME NEW q \in Records, NEW a \in Attempts, StartResponseLost(q, a) PROVE Climbs
    BY <2>39, <1>a DEF StartResponseLost, EndAttempt, Watched, AcceptJobRun
  <2>40. ASSUME NEW q \in Records, NEW a \in Attempts, ReportJobRun(q, a) PROVE Climbs
    BY <2>40, <1>a DEF ReportJobRun, EndAttempt, Watched
  <2>41. ASSUME NEW q \in Records, NEW a \in Attempts, AttemptFails(q, a) PROVE Climbs
    BY <2>41, <1>a DEF AttemptFails, EndAttempt, Watched
  <2>42. ASSUME NEW task \in DOMAIN Stage, NEW q \in Records, Clear(task, q) PROVE Climbs
    BY <2>42, <1>a DEF Clear
  <2>43. CASE UNCHANGED vars
    BY <2>43, <1>a DEF vars
  <2>. QED
    BY <2>1, <2>2, <2>3, <2>4, <2>5, <2>6, <2>7, <2>8, <2>9, <2>10, <2>11, <2>12, <2>13, <2>14,
       <2>15, <2>16, <2>17, <2>18, <2>19, <2>20, <2>21, <2>22, <2>23, <2>24, <2>25, <2>26,
       <2>27, <2>28, <2>29, <2>30, <2>31, <2>32, <2>33, <2>34, <2>35, <2>36, <2>37, <2>38,
       <2>39, <2>40, <2>41, <2>42, <2>43
    DEF Next, DagStep, RecordStep, GlueStep, SensorStep, SubmitStep, EnvironmentStep
<1>. QED
  BY <1>h DEF Climbs

\* The DAG run implements the publication ladder.
THEOREM ClimbsLadder == Spec => LadderSpec
<1>1. Init => Ladder!Init
  BY DEF Init, Ladder!Init, Rung
<1>. QED
  BY Invariant, <1>1, LadderStep, PTL DEF Spec, LadderSpec, Ladder!Spec

-----------------------------------------------------------------------------
(* A green run.                                                            *)

\* What a record's tasks, sensors, job and files do leaves transform and report alone.
LEMMA RecordsLeaveLeaves ==
  ASSUME NEW r \in Records,
         \/ RecordStep(r) \/ GlueStep(r) \/ SensorStep(r)
         \/ \E a \in Attempts : SubmitStep(r, a)
         \/ LoseWorker(r) \/ LatePut(r) \/ EditLocal(r)
         \/ \E d \in Datasets : SnowpipeLoads(r, d) \/ PipeReloads(r, d)
  PROVE  UNCHANGED <<transform, report, dbtXCom>>
<1> USE DEF taskVars, xcomVars
<1>1. CASE RecordStep(r)
  BY <1>1 DEF RecordStep, UploadSucceeds, RetryUpload, UploadFails, UploadError, StartSubmit, BlockTask
<1>2. CASE GlueStep(r)
  BY <1>2 DEF GlueStep, GlueStarts, WriteSilver, PublishCompletion, GlueSucceeds, GlueFails
<1>3. CASE SensorStep(r)
  BY <1>3 DEF SensorStep, StartAwaitGlue, GlueFinished, AwaitGlueFails, SetAwaitGlue,
              StartAwaitLanding, QueryLanding, FinishPoke, AwaitLandingFails, SetAwaitLanding
<1>4. ASSUME NEW a \in Attempts, SubmitStep(r, a) PROVE UNCHANGED <<transform, report, dbtXCom>>
  BY <1>4 DEF SubmitStep, Preflight, ClaimSubmission, ClaimResponseLost, StartJobRun,
              StartResponseLost, ReportJobRun, AttemptFails, Advance, EndAttempt
<1>5. CASE LoseWorker(r) \/ LatePut(r) \/ EditLocal(r) \/ \E d \in Datasets : SnowpipeLoads(r, d) \/ PipeReloads(r, d)
  BY <1>5 DEF LoseWorker, LatePut, EditLocal, SnowpipeLoads, PipeReloads
<1>. QED
  BY <1>1, <1>2, <1>3, <1>4, <1>5

\* The operator clears nothing but report.
OnlyReportCleared ==
    \A task \in DOMAIN Stage \ {"report"}, r \in Records : ~Clear(task, r)

\* The XCom and a green report are of a transform that succeeded and still counts
\* as such.
Genuine == dbtXCom \/ report = "success" => transform = "success"

LEMMA GenuineStep ==
  ASSUME TypeOK, Genuine, [Next /\ OnlyReportCleared]_vars PROVE Genuine'
<1> USE DEF Genuine
<1>1. CASE DagStep
  <2> USE DEF taskVars, xcomVars
  <2>1. CASE PrepareSucceeds \/ RetryPrepare \/ PrepareFails
    BY <2>1 DEF PrepareSucceeds, RetryPrepare, PrepareFails, PrepareError
  <2>2. CASE StartTransform \/ BlockTransform
    <3>1. transform = "none" /\ UNCHANGED report /\ (dbtXCom' => dbtXCom)
      BY <2>2 DEF StartTransform, BlockTransform, SetTransform
    <3>. QED
      BY <3>1
  <2>3. CASE TransformSucceeds
    BY <2>3 DEF TransformSucceeds, SetTransform
  <2>4. CASE RetryTransform \/ TransformFails
    <3>1. transform = "running" /\ UNCHANGED <<report, dbtXCom>>
      BY <2>4 DEF RetryTransform, TransformFails, TransformError, SetTransform
    <3>. QED
      BY <3>1
  <2>5. CASE WriteSummary \/ ReportFails
    BY <2>5 DEF WriteSummary, ReportFails, SetReport, Status
  <2>. QED
    BY <1>1, <2>1, <2>2, <2>3, <2>4, <2>5 DEF DagStep
<1>2. CASE DagRunTimeout \/ LateBuild
  BY <1>2 DEF DagRunTimeout, LateBuild, SkipUnfinished, Finished, Bad, taskVars, xcomVars
<1>3. ASSUME NEW task \in DOMAIN Stage, NEW r \in Records, Clear(task, r), OnlyReportCleared
      PROVE  Genuine'
  <2>1. task = "report"
    BY <1>3 DEF OnlyReportCleared
  <2>2. "transform" \notin Downstream("report")
    BY DEF Downstream, Stage
  <2>. QED
    BY <1>3, <2>1, <2>2 DEF Clear, ClearTask, xcomVars
<1>4. ASSUME NEW r \in Records,
             \/ RecordStep(r) \/ GlueStep(r) \/ SensorStep(r)
             \/ \E a \in Attempts : SubmitStep(r, a)
             \/ LoseWorker(r) \/ LatePut(r) \/ EditLocal(r)
             \/ \E d \in Datasets : SnowpipeLoads(r, d) \/ PipeReloads(r, d)
      PROVE  Genuine'
  BY <1>4, RecordsLeaveLeaves
<1>5. CASE UNCHANGED vars
  BY <1>5 DEF vars, taskVars, xcomVars
<1>. QED
  BY <1>1, <1>2, <1>3, <1>4, <1>5 DEF Next, EnvironmentStep

\* report: a green run has a successful transform, as long as the operator clears no
\* task but report itself.  A clear of transform or of a task before it leaves the
\* stale XCom behind that makes the run green without one.
THEOREM GreenUnlessCleared == Spec /\ [][OnlyReportCleared]_vars => []GreenMeansTransformed
<1>1. Init => Genuine
  BY DEF Init, Genuine
<1>2. TypeOK /\ Genuine /\ [Next /\ OnlyReportCleared]_vars => Genuine'
  BY GenuineStep
<1>3. [Next]_vars /\ [OnlyReportCleared]_vars => [Next /\ OnlyReportCleared]_vars
  OBVIOUS
<1>4. Genuine => GreenMeansTransformed
  BY DEF Genuine, GreenMeansTransformed
<1>. QED
  BY <1>1, <1>2, <1>3, <1>4, TypeCorrect, PTL DEF Spec

\* A run in which nothing is cleared.
THEOREM GreenWithoutClears ==
  ASSUME MaxClears = 0
  PROVE  Spec => []GreenMeansTransformed
<1>1. TypeOK => [OnlyReportCleared]_vars
  BY BoundsAssumption DEF TypeOK, OnlyReportCleared, Clear
<1>. QED
  BY <1>1, GreenUnlessCleared, TypeCorrect, PTL
=============================================================================
