---------------------------- MODULE CurationDag ----------------------------
(***************************************************************************)
(* One run of the Airflow DAG spotify_daily_snapshot                       *)
(* (airflow/dags/spotify_daily_snapshot_dag.py) over its planned records,  *)
(* with the services its tasks drive:                                      *)
(*                                                                         *)
(*   prepare -> { upload -> submit -> await_glue -> await_landing }        *)
(*           -> transform -> report                                        *)
(*                                                                         *)
(* A record is one planned (playlist, snapshot date).  Its pipeline_run_id *)
(* is a hash of the DAG run and the record, so the record itself names     *)
(* every physical key below: a retried or cleared task reuses the keys.    *)
(*                                                                         *)
(* Airflow (trigger rules, retries, clearing, the DAG run timeout, XCom),  *)
(* S3, Glue's job queue, Snowpipe and dbt's own work are external: they    *)
(* are modelled from how the DAG's tasks use them.  A worker may die and a *)
(* response may be lost at any step of a task.                             *)
(***************************************************************************)
EXTENDS Naturals, FiniteSets

CONSTANTS
    Records,          \* the planned records of the DAG run
    Datasets,         \* the Silver datasets of one record (six in the code)
    Rows,             \* Rows[d]: rows of dataset d in the completion inventory
    Contents,         \* the Bronze payloads a local file may hold
    Malformed,        \* the payloads for which Glue reports rejected_items > 0
    NoContent,        \* no payload
    PrepareRetries,   \* default_args retries (3 in the code)
    UploadRetries,    \* default_args retries (3 in the code)
    TransformRetries, \* retries of transform (1 in the code)
    MaxClears,        \* bound: operator clears of a task and its downstream
    MaxEdits,         \* bound: changes of a local Bronze file
    MaxReloads        \* bound: files a pipe loads again after its history is lost

ASSUME RowsAssumption == Datasets # {} /\ Rows \in [Datasets -> Nat]
ASSUME ContentsAssumption == Malformed \subseteq Contents /\ NoContent \notin Contents
ASSUME BoundsAssumption ==
    /\ PrepareRetries \in Nat /\ UploadRetries \in Nat /\ TransformRetries \in Nat
    /\ MaxClears \in Nat /\ MaxEdits \in Nat /\ MaxReloads \in Nat

VARIABLES
    prepare, transform, report,             \* task instance states
    upload, submit, awaitGlue, awaitLanding, \* the same, per mapped record
    prepareLeft, uploadLeft, transformLeft, \* remaining retries
    clears,                                 \* clears so far
    plan,          \* XCom of prepare: the payload (its sha256) planned per record
    dbtXCom,       \* XCom of transform is present
    attempt,       \* attempts of submit started so far
    proc,          \* the process of each attempt of submit
    lateBodies,    \* bodies that abandoned tries of upload have checked, not yet put
    landingTry,    \* starts of await_landing so far
    poke,          \* of each of them, how far the queries of its poke have come
    dbtStarted,    \* a try of transform has begun a dbt build
    local,         \* payload of the local Bronze file
    edits,         \* changes of local files so far
    glueReport,    \* glue-<id>.json exists
    landingReport, \* landing-<id>.json: absent, or the value of its field ready
    dbtSummary,    \* dbt-summary.json exists
    summary,       \* run-summary.json: absent, or the value of its field status
    bronze,        \* payload under bronze_key in S3
    claim,         \* submission.json exists
    silver,        \* datasets whose Parquet file is in S3
    completion,    \* complete.json exists
    jobMaxRetries, \* MaxRetries of the Glue job definition
    jobRuns,       \* job runs accepted by StartJobRun
    glueRun,       \* state of the record's job run
    executions,    \* times the curation script was started for the record
    loads,         \* times Snowpipe loaded the file of each dataset
    reloads        \* repeated loads so far

taskVars == <<prepare, transform, report, upload, submit, awaitGlue, awaitLanding,
              prepareLeft, uploadLeft, transformLeft, clears>>
xcomVars == <<plan, dbtXCom>>
submitters == <<attempt, proc>>
sensors == <<landingTry, poke>>
workerVars == <<submitters, lateBodies, sensors, dbtStarted>>
diskVars == <<local, edits, glueReport, landingReport, dbtSummary, summary>>
bucketVars == <<bronze, claim, silver, completion>>
glueVars == <<jobMaxRetries, jobRuns, glueRun, executions>>
landingVars == <<loads, reloads>>
vars == <<taskVars, xcomVars, workerVars, diskVars, bucketVars, glueVars, landingVars>>

Bad == {"failed", "upstream_failed"}
Finished == Bad \cup {"success", "skipped"}
TaskState == Finished \cup {"none", "running"}
Attempts == 1 .. (MaxClears + 1)
ProcState == {"idle", "preflight", "claim", "start", "report", "dead"}
PokeState == {"idle", "todo", "ready", "waiting"}

TypeOK ==
    /\ {prepare, transform, report} \subseteq TaskState
    /\ upload \in [Records -> TaskState] /\ submit \in [Records -> TaskState]
    /\ awaitGlue \in [Records -> TaskState] /\ awaitLanding \in [Records -> TaskState]
    /\ prepareLeft \in 0 .. PrepareRetries
    /\ uploadLeft \in [Records -> 0 .. UploadRetries]
    /\ transformLeft \in 0 .. TransformRetries
    /\ clears \in 0 .. MaxClears
    /\ plan \in [Records -> Contents \cup {NoContent}]
    /\ dbtXCom \in BOOLEAN
    /\ attempt \in [Records -> 0 .. MaxClears + 1]
    /\ proc \in [Records -> [Attempts -> ProcState]]
    /\ lateBodies \in [Records -> SUBSET Contents]
    /\ landingTry \in [Records -> 0 .. MaxClears + 1]
    /\ poke \in [Records -> [Attempts -> [Datasets -> PokeState]]]
    /\ dbtStarted \in BOOLEAN
    /\ local \in [Records -> Contents] /\ edits \in 0 .. MaxEdits
    /\ glueReport \in [Records -> BOOLEAN]
    /\ landingReport \in [Records -> {"absent", "waiting", "ready"}]
    /\ dbtSummary \in BOOLEAN
    /\ summary \in {"absent", "success", "failed"}
    /\ bronze \in [Records -> Contents \cup {NoContent}]
    /\ claim \in [Records -> BOOLEAN]
    /\ silver \in [Records -> SUBSET Datasets]
    /\ completion \in [Records -> BOOLEAN]
    /\ jobMaxRetries \in {0, 1}
    /\ jobRuns \in [Records -> Nat] /\ executions \in [Records -> Nat]
    /\ glueRun \in [Records -> {"none", "queued", "running", "succeeded", "failed"}]
    /\ loads \in [Records -> [Datasets -> 0 .. 2]]
    /\ reloads \in 0 .. MaxReloads

Init ==
    /\ prepare = "none" /\ transform = "none" /\ report = "none"
    /\ upload = [r \in Records |-> "none"] /\ submit = [r \in Records |-> "none"]
    /\ awaitGlue = [r \in Records |-> "none"] /\ awaitLanding = [r \in Records |-> "none"]
    /\ prepareLeft = PrepareRetries
    /\ uploadLeft = [r \in Records |-> UploadRetries]
    /\ transformLeft = TransformRetries
    /\ clears = 0
    /\ plan = [r \in Records |-> NoContent]
    /\ dbtXCom = FALSE
    /\ attempt = [r \in Records |-> 0]
    /\ proc = [r \in Records |-> [a \in Attempts |-> "idle"]]
    /\ lateBodies = [r \in Records |-> {}]
    /\ landingTry = [r \in Records |-> 0]
    /\ poke = [r \in Records |-> [a \in Attempts |-> [d \in Datasets |-> "idle"]]]
    /\ dbtStarted = FALSE
    /\ local \in [Records -> Contents] /\ edits = 0
    /\ glueReport = [r \in Records |-> FALSE]
    /\ landingReport = [r \in Records |-> "absent"]
    /\ dbtSummary = FALSE /\ summary = "absent"
    /\ bronze = [r \in Records |-> NoContent]
    /\ claim = [r \in Records |-> FALSE]
    /\ silver = [r \in Records |-> {}]
    /\ completion = [r \in Records |-> FALSE]
    /\ jobMaxRetries \in {0, 1}
    /\ jobRuns = [r \in Records |-> 0] /\ executions = [r \in Records |-> 0]
    /\ glueRun = [r \in Records |-> "none"]
    /\ loads = [r \in Records |-> [d \in Datasets |-> 0]]
    /\ reloads = 0

-----------------------------------------------------------------------------
(* prepare: plan_demo reads the local Bronze files and fixes their sha256;  *)
(* a try that fails leaves no plan, because Airflow deletes a task's XCom   *)
(* when a try of it starts.  records only projects the plan.                *)

PrepareSucceeds ==
    /\ prepare = "none"
    /\ prepare' = "success"
    /\ plan' = local
    /\ UNCHANGED <<transform, report, upload, submit, awaitGlue, awaitLanding,
                   prepareLeft, uploadLeft, transformLeft, clears, dbtXCom>>
    /\ UNCHANGED <<workerVars, diskVars, bucketVars, glueVars, landingVars>>

PrepareError ==
    /\ prepare = "none"
    /\ plan' = [r \in Records |-> NoContent]
    /\ UNCHANGED <<transform, report, upload, submit, awaitGlue, awaitLanding,
                   uploadLeft, transformLeft, clears, dbtXCom>>
    /\ UNCHANGED <<workerVars, diskVars, bucketVars, glueVars, landingVars>>

RetryPrepare ==
    /\ PrepareError
    /\ prepareLeft > 0
    /\ prepareLeft' = prepareLeft - 1
    /\ UNCHANGED prepare

PrepareFails ==
    /\ PrepareError
    /\ prepareLeft = 0
    /\ prepare' = "failed"
    /\ UNCHANGED prepareLeft

(* upload: the file must still have the planned sha256; the put is          *)
(* conditional (IfNoneMatch), and an existing object is accepted only when  *)
(* its bytes are the planned ones.                                          *)

PutBronze(r, body) ==
    IF bronze[r] = NoContent THEN [bronze EXCEPT ![r] = body] ELSE bronze

\* Mutant of BytesArePlanned: the sha256 is not compared.
AnyBytes(r) == local[r] \in Contents

BytesArePlanned(r) == local[r] = plan[r]

UploadSucceeds(r) ==
    /\ prepare = "success" /\ upload[r] = "none"
    /\ BytesArePlanned(r)
    /\ bronze[r] \in {NoContent, local[r]}
    /\ bronze' = PutBronze(r, local[r])
    /\ upload' = [upload EXCEPT ![r] = "success"]
    /\ UNCHANGED <<prepare, transform, report, submit, awaitGlue, awaitLanding,
                   prepareLeft, uploadLeft, transformLeft, clears>>
    /\ UNCHANGED <<xcomVars, workerVars, diskVars, glueVars, landingVars>>
    /\ UNCHANGED <<claim, silver, completion>>

(* A changed file, a different object under the key, or an error: the put   *)
(* may have been stored although its response was lost, and a try that is   *)
(* given up while its worker lives may yet put the bytes it has checked.    *)
UploadError(r) ==
    /\ prepare = "success" /\ upload[r] = "none"
    /\ \/ UNCHANGED <<bronze, lateBodies>>
       \/ BytesArePlanned(r) /\ bronze' = PutBronze(r, local[r]) /\ UNCHANGED lateBodies
       \/ /\ BytesArePlanned(r) /\ bronze[r] = NoContent
          /\ lateBodies' = [lateBodies EXCEPT ![r] = @ \cup {local[r]}]
          /\ UNCHANGED bronze
    /\ UNCHANGED <<prepare, transform, report, submit, awaitGlue, awaitLanding,
                   prepareLeft, transformLeft, clears>>
    /\ UNCHANGED <<xcomVars, submitters, sensors, dbtStarted, diskVars, glueVars, landingVars>>
    /\ UNCHANGED <<claim, silver, completion>>

\* The first of the abandoned puts to arrive is stored; the key refuses the others.
LatePut(r) ==
    /\ bronze[r] = NoContent
    /\ \E body \in lateBodies[r] : bronze' = PutBronze(r, body)
    /\ lateBodies' = [lateBodies EXCEPT ![r] = {}]
    /\ UNCHANGED <<taskVars, xcomVars, submitters, sensors, dbtStarted>>
    /\ UNCHANGED <<diskVars, glueVars, landingVars, claim, silver, completion>>

\* Mutant of RetryUpload: one retry too many.
RetryUploadOnceMore(r) ==
    /\ UploadError(r)
    /\ uploadLeft' = [uploadLeft EXCEPT ![r] = @ - 1]
    /\ UNCHANGED upload

RetryUpload(r) ==
    /\ UploadError(r)
    /\ uploadLeft[r] > 0
    /\ uploadLeft' = [uploadLeft EXCEPT ![r] = @ - 1]
    /\ UNCHANGED upload

UploadFails(r) ==
    /\ UploadError(r)
    /\ uploadLeft[r] = 0
    /\ upload' = [upload EXCEPT ![r] = "failed"]
    /\ UNCHANGED uploadLeft

-----------------------------------------------------------------------------
(* submit: get_job preflight, immutable submission claim, StartJobRun, then *)
(* the local glue-<id>.json.  retries=0.  Every attempt is a process of its *)
(* own: one that Airflow has given up on (heartbeat lost, task cleared, DAG *)
(* run timed out) may still take its next steps.                            *)

StartSubmit(r) ==
    /\ upload[r] = "success" /\ submit[r] = "none"
    /\ submit' = [submit EXCEPT ![r] = "running"]
    /\ attempt' = [attempt EXCEPT ![r] = @ + 1]
    /\ proc' = [proc EXCEPT ![r][attempt[r] + 1] = "preflight"]
    /\ UNCHANGED <<prepare, transform, report, upload, awaitGlue, awaitLanding,
                   prepareLeft, uploadLeft, transformLeft, clears>>
    /\ UNCHANGED <<lateBodies, sensors, dbtStarted>>
    /\ UNCHANGED <<xcomVars, diskVars, bucketVars, glueVars, landingVars>>

Watched(r, a) == a = attempt[r] /\ submit[r] = "running"

\* Attempt a ends at pc, and Airflow records outcome if it still watches it.
EndAttempt(r, a, outcome) ==
    /\ proc' = [proc EXCEPT ![r][a] = "dead"]
    /\ submit' = IF Watched(r, a) THEN [submit EXCEPT ![r] = outcome] ELSE submit
    /\ UNCHANGED <<prepare, transform, report, upload, awaitGlue, awaitLanding,
                   prepareLeft, uploadLeft, transformLeft, clears>>
    /\ UNCHANGED <<attempt, lateBodies, sensors, dbtStarted>>

Advance(r, a, pc) ==
    /\ proc' = [proc EXCEPT ![r][a] = pc]
    /\ UNCHANGED <<taskVars, attempt, lateBodies, sensors, dbtStarted>>

\* Mutant of Preflight: StartJobRun comes before the claim.
PreflightSkipsClaim(r, a) ==
    /\ proc[r][a] = "preflight"
    /\ jobMaxRetries = 0
    /\ Advance(r, a, "start")
    /\ UNCHANGED <<xcomVars, diskVars, bucketVars, glueVars, landingVars>>

Preflight(r, a) ==
    /\ proc[r][a] = "preflight"
    /\ jobMaxRetries = 0
    /\ Advance(r, a, "claim")
    /\ UNCHANGED <<xcomVars, diskVars, bucketVars, glueVars, landingVars>>

\* Mutant of ClaimSubmission: the put of the claim is not conditional.
ClaimAgain(r, a) ==
    /\ proc[r][a] = "claim"
    /\ claim' = [claim EXCEPT ![r] = TRUE]
    /\ Advance(r, a, "start")
    /\ UNCHANGED <<xcomVars, diskVars, glueVars, landingVars, bronze, silver, completion>>

\* IfNoneMatch="*": the put succeeds only when no attempt has claimed the id.
ClaimSubmission(r, a) ==
    /\ proc[r][a] = "claim"
    /\ ~claim[r]
    /\ claim' = [claim EXCEPT ![r] = TRUE]
    /\ Advance(r, a, "start")
    /\ UNCHANGED <<xcomVars, diskVars, glueVars, landingVars, bronze, silver, completion>>

\* The claim is stored but its response is lost: the SDK's own retry of the
\* put then fails its precondition, and the attempt ends without a submission.
ClaimResponseLost(r, a) ==
    /\ proc[r][a] = "claim"
    /\ ~claim[r]
    /\ claim' = [claim EXCEPT ![r] = TRUE]
    /\ EndAttempt(r, a, "failed")
    /\ UNCHANGED <<xcomVars, diskVars, glueVars, landingVars, bronze, silver, completion>>

AcceptJobRun(r) ==
    /\ jobRuns' = [jobRuns EXCEPT ![r] = @ + 1]
    /\ glueRun' = [glueRun EXCEPT ![r] = "queued"]
    /\ UNCHANGED <<jobMaxRetries, executions>>

StartJobRun(r, a) ==
    /\ proc[r][a] = "start"
    /\ AcceptJobRun(r)
    /\ Advance(r, a, "report")
    /\ UNCHANGED <<xcomVars, diskVars, bucketVars, landingVars>>

\* The ambiguous response: Glue accepted the run and the caller never hears.
StartResponseLost(r, a) ==
    /\ proc[r][a] = "start"
    /\ AcceptJobRun(r)
    /\ EndAttempt(r, a, "failed")
    /\ UNCHANGED <<xcomVars, diskVars, bucketVars, landingVars>>

ReportJobRun(r, a) ==
    /\ proc[r][a] = "report"
    /\ glueReport' = [glueReport EXCEPT ![r] = TRUE]
    /\ EndAttempt(r, a, "success")
    /\ UNCHANGED <<xcomVars, bucketVars, glueVars, landingVars>>
    /\ UNCHANGED <<local, edits, landingReport, dbtSummary, summary>>

\* MaxRetries is not zero, the claim already exists, a service call fails, the
\* disk is full or the worker dies: nothing more is done by this attempt.
AttemptFails(r, a) ==
    /\ proc[r][a] \notin {"idle", "dead"}
    /\ EndAttempt(r, a, "failed")
    /\ UNCHANGED <<xcomVars, diskVars, bucketVars, glueVars, landingVars>>

\* Airflow misses the heartbeats of a live worker and fails the task instance.
LoseWorker(r) ==
    /\ submit[r] = "running"
    /\ submit' = [submit EXCEPT ![r] = "failed"]
    /\ UNCHANGED <<prepare, transform, report, upload, awaitGlue, awaitLanding,
                   prepareLeft, uploadLeft, transformLeft, clears>>
    /\ UNCHANGED <<xcomVars, workerVars, diskVars, bucketVars, glueVars, landingVars>>

-----------------------------------------------------------------------------
(* The Glue job (glue/jobs/bronze_to_silver_curation.py): one run at a time *)
(* (max_concurrent_runs = 1, the others queue), six Parquet datasets, then  *)
(* the completion inventory, created only if absent.                        *)

GlueStarts(r) ==
    /\ glueRun[r] = "queued"
    /\ \A q \in Records : glueRun[q] # "running"
    /\ glueRun' = [glueRun EXCEPT ![r] = "running"]
    /\ executions' = [executions EXCEPT ![r] = @ + 1]
    /\ UNCHANGED <<taskVars, xcomVars, workerVars, diskVars, bucketVars, landingVars>>
    /\ UNCHANGED <<jobMaxRetries, jobRuns>>

WriteSilver(r, d) ==
    /\ glueRun[r] = "running" /\ ~completion[r]
    /\ d \notin silver[r]
    /\ silver' = [silver EXCEPT ![r] = @ \cup {d}]
    /\ UNCHANGED <<taskVars, xcomVars, workerVars, diskVars, glueVars, landingVars>>
    /\ UNCHANGED <<bronze, claim, completion>>

PublishCompletion(r) ==
    /\ glueRun[r] = "running" /\ ~completion[r]
    /\ silver[r] = Datasets
    /\ completion' = [completion EXCEPT ![r] = TRUE]
    /\ UNCHANGED <<taskVars, xcomVars, workerVars, diskVars, glueVars, landingVars>>
    /\ UNCHANGED <<bronze, claim, silver>>

GlueSucceeds(r) ==
    /\ glueRun[r] = "running" /\ completion[r]
    /\ glueRun' = [glueRun EXCEPT ![r] = "succeeded"]
    /\ UNCHANGED <<taskVars, xcomVars, workerVars, diskVars, bucketVars, landingVars>>
    /\ UNCHANGED <<jobMaxRetries, jobRuns, executions>>

\* FAILED, STOPPED, TIMEOUT, ERROR or EXPIRED; Glue starts the run again itself
\* while the job definition's MaxRetries allows it.
GlueFails(r) ==
    /\ glueRun[r] \in {"queued", "running"}
    /\ glueRun' = [glueRun EXCEPT ![r] =
                     IF executions[r] \in 1 .. jobMaxRetries THEN "queued" ELSE "failed"]
    /\ UNCHANGED <<taskVars, xcomVars, workerVars, diskVars, bucketVars, landingVars>>
    /\ UNCHANGED <<jobMaxRetries, jobRuns, executions>>

-----------------------------------------------------------------------------
(* await_glue and await_landing: sensors in reschedule mode, retries=0.  A  *)
(* poke of await_landing is a process of its own for each start of the      *)
(* sensor: one that Airflow has given up on may still end, and write.       *)

SetAwaitGlue(r, state) ==
    /\ awaitGlue' = [awaitGlue EXCEPT ![r] = state]
    /\ UNCHANGED <<prepare, transform, report, upload, submit, awaitLanding,
                   prepareLeft, uploadLeft, transformLeft, clears>>
    /\ UNCHANGED <<xcomVars, workerVars, diskVars, bucketVars, glueVars, landingVars>>

StartAwaitGlue(r) ==
    /\ submit[r] = "success" /\ awaitGlue[r] = "none"
    /\ SetAwaitGlue(r, "running")

GlueFinished(r) ==
    /\ awaitGlue[r] = "running"
    /\ glueRun[r] = "succeeded"
    /\ SetAwaitGlue(r, "success")

\* The run ended in a failure state, the status call failed, or 3600 s passed.
AwaitGlueFails(r) ==
    /\ awaitGlue[r] = "running"
    /\ SetAwaitGlue(r, "failed")

SetAwaitLanding(r, state) ==
    /\ awaitLanding' = [awaitLanding EXCEPT ![r] = state]
    /\ UNCHANGED <<prepare, transform, report, upload, submit, awaitGlue,
                   prepareLeft, uploadLeft, transformLeft, clears>>

StartAwaitLanding(r) ==
    /\ awaitGlue[r] = "success" /\ awaitLanding[r] = "none"
    /\ SetAwaitLanding(r, "running")
    /\ landingTry' = [landingTry EXCEPT ![r] = @ + 1]
    /\ poke' = [poke EXCEPT ![r][landingTry[r] + 1] = [d \in Datasets |-> "todo"]]
    /\ UNCHANGED <<submitters, lateBodies, dbtStarted>>
    /\ UNCHANGED <<xcomVars, diskVars, bucketVars, glueVars, landingVars>>

\* landing_ready for one file: an absent row group counts as zero rows, a file
\* loaded twice has more rows than distinct row numbers and raises.
LandedRows(r, d) == loads[r][d] * Rows[d]
LandingReady(r, d) == LandedRows(r, d) = Rows[d]
LandingExcess(r, d) == LandedRows(r, d) > Rows[d]

\* One of the poke's queries: Landing may change between two of them.
QueryLanding(r, a, d) ==
    /\ poke[r][a][d] = "todo"
    /\ completion[r] /\ bronze[r] \notin Malformed
    /\ ~LandingExcess(r, d)
    /\ poke' = [poke EXCEPT ![r][a][d] = IF LandingReady(r, d) THEN "ready" ELSE "waiting"]
    /\ UNCHANGED <<taskVars, submitters, lateBodies, landingTry, dbtStarted>>
    /\ UNCHANGED <<xcomVars, diskVars, bucketVars, glueVars, landingVars>>

Asked(r, a) == \A d \in Datasets : poke[r][a][d] \in {"ready", "waiting"}

\* Mutant of AllReady: one ready dataset is enough.
AnyReady(r, a) == \E d \in Datasets : poke[r][a][d] = "ready"

\* ready = all(checks.values())
AllReady(r, a) == \A d \in Datasets : poke[r][a][d] = "ready"

WatchedPoke(r, a) == a = landingTry[r] /\ awaitLanding[r] = "running"

\* landing-<id>.json is written whether it is ready or not, and whether Airflow
\* still watches the poke or not.  A watched poke then succeeds or is scheduled
\* again, unless its worker dies before Airflow has heard of it.
FinishPoke(r, a) ==
    /\ Asked(r, a)
    /\ landingReport' = [landingReport EXCEPT ![r] = IF AllReady(r, a) THEN "ready" ELSE "waiting"]
    /\ \/ WatchedPoke(r, a) /\ AllReady(r, a) /\ SetAwaitLanding(r, "success")
       \/ UNCHANGED taskVars
    /\ LET next == IF WatchedPoke(r, a) /\ ~AllReady(r, a) THEN "todo" ELSE "idle"
       IN  poke' = [poke EXCEPT ![r][a] = [d \in Datasets |-> next]]
    /\ UNCHANGED <<submitters, lateBodies, landingTry, dbtStarted>>
    /\ UNCHANGED <<local, edits, glueReport, dbtSummary, summary>>
    /\ UNCHANGED <<xcomVars, bucketVars, glueVars, landingVars>>

\* Mutant of AwaitLandingFails: a sensor with no timeout, that only a bad
\* completion or excess rows end.
AwaitLandingWithoutTimeout(r) ==
    /\ awaitLanding[r] = "running"
    /\ completion[r] /\ (bronze[r] \in Malformed \/ \E d \in Datasets : LandingExcess(r, d))
    /\ SetAwaitLanding(r, "failed")
    /\ UNCHANGED <<xcomVars, workerVars, diskVars, bucketVars, glueVars, landingVars>>

\* No completion, rejected items, excess rows, a failed call, or 900 s passed.
AwaitLandingFails(r) ==
    /\ awaitLanding[r] = "running"
    /\ SetAwaitLanding(r, "failed")
    /\ UNCHANGED <<xcomVars, workerVars, diskVars, bucketVars, glueVars, landingVars>>

\* Snowpipe: a file is loaded as a whole, at any time after it is written and
\* whatever became of the run that wrote it; once, unless its pipe was recreated.
SnowpipeLoads(r, d) ==
    /\ d \in silver[r]
    /\ loads[r][d] = 0
    /\ loads' = [loads EXCEPT ![r][d] = 1]
    /\ UNCHANGED <<taskVars, xcomVars, workerVars, diskVars, bucketVars, glueVars, reloads>>

PipeReloads(r, d) ==
    /\ loads[r][d] = 1 /\ reloads < MaxReloads
    /\ loads' = [loads EXCEPT ![r][d] = 2]
    /\ reloads' = reloads + 1
    /\ UNCHANGED <<taskVars, xcomVars, workerVars, diskVars, bucketVars, glueVars>>

-----------------------------------------------------------------------------
(* transform (build_dbt) and report.                                        *)

SetTransform(state) ==
    /\ transform' = state
    /\ UNCHANGED <<prepare, report, upload, submit, awaitGlue, awaitLanding,
                   prepareLeft, uploadLeft, clears>>

\* Mutant of StartTransform: the edge ready >> built is missing.
StartTransformEarly ==
    /\ prepare = "success" /\ transform = "none"
    /\ SetTransform("running")
    /\ dbtXCom' = FALSE /\ dbtStarted' = TRUE
    /\ UNCHANGED <<transformLeft, plan, submitters, lateBodies, sensors>>
    /\ UNCHANGED <<diskVars, bucketVars, glueVars, landingVars>>

\* Mutant of StartTransform: one record's gate opens for all of them.
StartTransformAnyRecord ==
    /\ prepare = "success" /\ transform = "none"
    /\ \E r \in Records : awaitLanding[r] = "success"
    /\ SetTransform("running")
    /\ dbtXCom' = FALSE /\ dbtStarted' = TRUE
    /\ UNCHANGED <<transformLeft, plan, submitters, lateBodies, sensors>>
    /\ UNCHANGED <<diskVars, bucketVars, glueVars, landingVars>>

StartTransform ==
    /\ prepare = "success" /\ transform = "none"
    /\ \A r \in Records : awaitLanding[r] = "success"
    /\ SetTransform("running")
    /\ dbtXCom' = FALSE /\ dbtStarted' = TRUE
    /\ UNCHANGED <<transformLeft, plan, submitters, lateBodies, sensors>>
    /\ UNCHANGED <<diskVars, bucketVars, glueVars, landingVars>>

TransformSucceeds ==
    /\ transform = "running"
    /\ SetTransform("success")
    /\ dbtSummary' = TRUE
    /\ dbtXCom' = TRUE
    /\ UNCHANGED <<transformLeft, plan, local, edits, glueReport, landingReport, summary>>
    /\ UNCHANGED <<workerVars, bucketVars, glueVars, landingVars>>

\* dbt fails or times out, or the worker dies, perhaps after dbt-summary.json.
TransformError(state) ==
    /\ transform = "running"
    /\ SetTransform(state)
    /\ dbtSummary' = TRUE \/ UNCHANGED dbtSummary
    /\ UNCHANGED <<xcomVars, local, edits, glueReport, landingReport, summary>>
    /\ UNCHANGED <<workerVars, bucketVars, glueVars, landingVars>>

RetryTransform ==
    /\ TransformError("none")
    /\ transformLeft > 0
    /\ transformLeft' = transformLeft - 1

TransformFails ==
    /\ TransformError("failed")
    /\ transformLeft = 0
    /\ UNCHANGED transformLeft

\* A build that Airflow has given up on still writes dbt-summary.json.
LateBuild ==
    /\ dbtStarted /\ transform # "running"
    /\ dbtSummary' = TRUE
    /\ UNCHANGED <<local, edits, glueReport, landingReport, summary>>
    /\ UNCHANGED <<taskVars, xcomVars, workerVars, bucketVars, glueVars, landingVars>>

SetReport(state) ==
    /\ report' = state
    /\ UNCHANGED <<prepare, transform, upload, submit, awaitGlue, awaitLanding,
                   prepareLeft, uploadLeft, transformLeft, clears>>

\* The status comes from the XCom of transform, pulled by task id.
Status == IF dbtXCom THEN "success" ELSE "failed"

\* Mutant of WriteSummary: the missing result does not raise.
WriteSummaryNoRaise ==
    /\ transform \in Finished /\ report = "none"
    /\ summary' = Status
    /\ SetReport("success")
    /\ UNCHANGED <<local, edits, glueReport, landingReport, dbtSummary>>
    /\ UNCHANGED <<xcomVars, workerVars, bucketVars, glueVars, landingVars>>

\* The file is written first, then a missing result raises.
WriteSummary ==
    /\ transform \in Finished /\ report = "none"
    /\ summary' = Status
    /\ SetReport(Status)
    /\ UNCHANGED <<local, edits, glueReport, landingReport, dbtSummary>>
    /\ UNCHANGED <<xcomVars, workerVars, bucketVars, glueVars, landingVars>>

\* A failure before or after run-summary.json is written.
ReportFails ==
    /\ transform \in Finished /\ report = "none"
    /\ summary' = Status \/ UNCHANGED summary
    /\ SetReport("failed")
    /\ UNCHANGED <<local, edits, glueReport, landingReport, dbtSummary>>
    /\ UNCHANGED <<xcomVars, workerVars, bucketVars, glueVars, landingVars>>

-----------------------------------------------------------------------------
(* Airflow: a task whose direct upstream failed (was skipped) is never run. *)
(* The trigger rule of every task but report is all_success.                *)

Blocked(upstream) ==
    IF upstream \cap Bad # {} THEN "upstream_failed"
    ELSE IF "skipped" \in upstream THEN "skipped" ELSE "none"

BlockRecordTask(r) ==
    \/ /\ upload[r] = "none" /\ Blocked({prepare}) # "none"
       /\ upload' = [upload EXCEPT ![r] = Blocked({prepare})]
       /\ UNCHANGED <<submit, awaitGlue, awaitLanding>>
    \/ /\ submit[r] = "none" /\ Blocked({upload[r]}) # "none"
       /\ submit' = [submit EXCEPT ![r] = Blocked({upload[r]})]
       /\ UNCHANGED <<upload, awaitGlue, awaitLanding>>
    \/ /\ awaitGlue[r] = "none" /\ Blocked({submit[r]}) # "none"
       /\ awaitGlue' = [awaitGlue EXCEPT ![r] = Blocked({submit[r]})]
       /\ UNCHANGED <<upload, submit, awaitLanding>>
    \/ /\ awaitLanding[r] = "none" /\ Blocked({awaitGlue[r]}) # "none"
       /\ awaitLanding' = [awaitLanding EXCEPT ![r] = Blocked({awaitGlue[r]})]
       /\ UNCHANGED <<upload, submit, awaitGlue>>

BlockTask(r) ==
    /\ BlockRecordTask(r)
    /\ UNCHANGED <<prepare, transform, report, prepareLeft, uploadLeft, transformLeft, clears>>
    /\ UNCHANGED <<xcomVars, workerVars, diskVars, bucketVars, glueVars, landingVars>>

TransformUpstream == {prepare} \cup {awaitLanding[r] : r \in Records}

BlockTransform ==
    /\ transform = "none" /\ Blocked(TransformUpstream) # "none"
    /\ SetTransform(Blocked(TransformUpstream))
    /\ UNCHANGED transformLeft
    /\ UNCHANGED <<xcomVars, workerVars, diskVars, bucketVars, glueVars, landingVars>>

\* dagrun_timeout: the run fails and its unfinished task instances are skipped.
SkipUnfinished(state) == IF state \in Finished THEN state ELSE "skipped"
SkipRecordTasks(states) == [r \in Records |-> SkipUnfinished(states[r])]

AllFinished ==
    /\ {prepare, transform, report} \subseteq Finished
    /\ \A r \in Records : {upload[r], submit[r], awaitGlue[r], awaitLanding[r]} \subseteq Finished

DagRunTimeout ==
    /\ ~AllFinished
    /\ prepare' = SkipUnfinished(prepare)
    /\ transform' = SkipUnfinished(transform)
    /\ report' = SkipUnfinished(report)
    /\ upload' = SkipRecordTasks(upload)
    /\ submit' = SkipRecordTasks(submit)
    /\ awaitGlue' = SkipRecordTasks(awaitGlue)
    /\ awaitLanding' = SkipRecordTasks(awaitLanding)
    /\ UNCHANGED <<prepareLeft, uploadLeft, transformLeft, clears>>
    /\ UNCHANGED <<xcomVars, workerVars, diskVars, bucketVars, glueVars, landingVars>>

(* The operator clears a task instance and everything downstream of it: the *)
(* states and retries are reset; XCom, files and S3 objects stay.           *)

Stage == [prepare |-> 0, upload |-> 1, submit |-> 2, await_glue |-> 3,
          await_landing |-> 4, transform |-> 5, report |-> 6]

StateOf(task, r) ==
    CASE task = "prepare" -> prepare
      [] task = "upload" -> upload[r]
      [] task = "submit" -> submit[r]
      [] task = "await_glue" -> awaitGlue[r]
      [] task = "await_landing" -> awaitLanding[r]
      [] task = "transform" -> transform
      [] task = "report" -> report

Downstream(task) == {t \in DOMAIN Stage : Stage[task] <= Stage[t]}
ClearTask(task, t, state) == IF t \in Downstream(task) THEN "none" ELSE state
ClearMapped(task, r, t, states) ==
    [q \in Records |-> IF q = r \/ task = "prepare" THEN ClearTask(task, t, states[q])
                       ELSE states[q]]

Clear(task, r) ==
    /\ clears < MaxClears
    /\ StateOf(task, r) # "none"
    /\ clears' = clears + 1
    /\ prepare' = ClearTask(task, "prepare", prepare)
    /\ upload' = ClearMapped(task, r, "upload", upload)
    /\ submit' = ClearMapped(task, r, "submit", submit)
    /\ awaitGlue' = ClearMapped(task, r, "await_glue", awaitGlue)
    /\ awaitLanding' = ClearMapped(task, r, "await_landing", awaitLanding)
    /\ transform' = ClearTask(task, "transform", transform)
    /\ report' = "none"
    /\ prepareLeft' = IF prepare' = "none" THEN PrepareRetries ELSE prepareLeft
    /\ uploadLeft' = [q \in Records |-> IF upload'[q] = "none" THEN UploadRetries
                                        ELSE uploadLeft[q]]
    /\ transformLeft' = IF transform' = "none" THEN TransformRetries ELSE transformLeft
    /\ UNCHANGED <<xcomVars, workerVars, diskVars, bucketVars, glueVars, landingVars>>

\* The demo is generated again: a local Bronze file changes.
EditLocal(r) ==
    /\ edits < MaxEdits
    /\ \E c \in Contents \ {local[r]} : local' = [local EXCEPT ![r] = c]
    /\ edits' = edits + 1
    /\ UNCHANGED <<glueReport, landingReport, dbtSummary, summary>>
    /\ UNCHANGED <<taskVars, xcomVars, workerVars, bucketVars, glueVars, landingVars>>

-----------------------------------------------------------------------------
SubmitStep(r, a) ==
    \/ Preflight(r, a) \/ ClaimSubmission(r, a) \/ ClaimResponseLost(r, a)
    \/ StartJobRun(r, a) \/ StartResponseLost(r, a) \/ ReportJobRun(r, a)
    \/ AttemptFails(r, a)

GlueStep(r) ==
    \/ GlueStarts(r) \/ (\E d \in Datasets : WriteSilver(r, d))
    \/ PublishCompletion(r) \/ GlueSucceeds(r) \/ GlueFails(r)

SensorStep(r) ==
    \/ StartAwaitGlue(r) \/ GlueFinished(r) \/ AwaitGlueFails(r)
    \/ StartAwaitLanding(r) \/ AwaitLandingFails(r)
    \/ \E a \in Attempts : (\E d \in Datasets : QueryLanding(r, a, d)) \/ FinishPoke(r, a)

DagStep ==
    \/ PrepareSucceeds \/ RetryPrepare \/ PrepareFails
    \/ StartTransform \/ TransformSucceeds \/ RetryTransform \/ TransformFails
    \/ WriteSummary \/ ReportFails \/ BlockTransform

RecordStep(r) ==
    \/ UploadSucceeds(r) \/ RetryUpload(r) \/ UploadFails(r)
    \/ StartSubmit(r) \/ BlockTask(r)

EnvironmentStep ==
    \/ DagRunTimeout \/ LateBuild
    \/ \E task \in DOMAIN Stage, r \in Records : Clear(task, r)
    \/ \E r \in Records :
          \/ LoseWorker(r) \/ LatePut(r) \/ EditLocal(r)
          \/ \E d \in Datasets : SnowpipeLoads(r, d) \/ PipeReloads(r, d)

Next ==
    \/ DagStep
    \/ \E r \in Records : \/ RecordStep(r) \/ GlueStep(r) \/ SensorStep(r)
                          \/ \E a \in Attempts : SubmitStep(r, a)
    \/ EnvironmentStep

Spec == Init /\ [][Next]_vars

(* Fairness.  Airflow's scheduler keeps starting and blocking tasks, every  *)
(* task try ends by its execution timeout, every sensor by its own timeout. *)
(* Nothing is assumed of Glue, Snowpipe, operators or abandoned processes.  *)
Fairness ==
    /\ WF_vars(DagStep)
    /\ \A r \in Records :
         /\ WF_vars(RecordStep(r))
         /\ WF_vars(\E a \in Attempts : a = attempt[r] /\ submit[r] = "running" /\ SubmitStep(r, a))
         /\ WF_vars(StartAwaitGlue(r)) /\ WF_vars(AwaitGlueFails(r))
         /\ WF_vars(StartAwaitLanding(r)) /\ WF_vars(AwaitLandingFails(r))

FairSpec == Spec /\ Fairness

-----------------------------------------------------------------------------
(* The inductive invariant behind the safety properties, in named parts.    *)

\* A new start of submit or await_landing always has a process slot.
AttemptBound ==
    /\ clears <= MaxClears
    /\ \A r \in Records : /\ attempt[r] <= clears + 1
                          /\ submit[r] = "none" => attempt[r] <= clears
                          /\ landingTry[r] <= clears + 1
                          /\ awaitLanding[r] = "none" => landingTry[r] <= clears

\* A task that runs or succeeded has a successful upstream, and what is
\* uploaded is what is planned.
ChainInv ==
    /\ prepare = "success" => \A r \in Records : plan[r] \in Contents
    /\ prepare # "running"
    /\ \A r \in Records :
         /\ upload[r] # "running"
         /\ upload[r] = "success" => prepare = "success" /\ bronze[r] = plan[r]
         /\ submit[r] \in {"running", "success"} => upload[r] = "success"
         /\ awaitGlue[r] \in {"running", "success"} => submit[r] = "success"
         /\ awaitLanding[r] \in {"running", "success"} => awaitGlue[r] = "success"
    /\ transform \in {"running", "success"} =>
         /\ prepare = "success"
         /\ \A r \in Records : awaitLanding[r] = "success"

\* Whoever is about to start the job holds the only claim, and nobody has
\* started it; a started job is in one of its states, executed at most once.
ClaimInv ==
    \A r \in Records :
      /\ \A a \in Attempts :
           /\ proc[r][a] # "idle" => bronze[r] # NoContent
           /\ proc[r][a] = "claim" => jobMaxRetries = 0
           /\ proc[r][a] = "start" => claim[r] /\ jobRuns[r] = 0 /\ jobMaxRetries = 0
           /\ \A b \in Attempts : proc[r][a] = "start" /\ proc[r][b] = "start" => a = b
      /\ claim[r] => bronze[r] # NoContent
      /\ jobRuns[r] > 0 => jobRuns[r] = 1 /\ claim[r] /\ jobMaxRetries = 0
      /\ glueRun[r] # "none" => jobRuns[r] > 0
      /\ glueRun[r] \in {"none", "queued"} => executions[r] = 0
      /\ glueRun[r] = "running" => executions[r] = 1
      /\ executions[r] <= 1
      /\ executions[r] = 1 => glueRun[r] # "none"
      /\ completion[r] => executions[r] = 1

\* What a dbt build relies on.  Once true of a dataset it stays true, so it does
\* not matter when a poke asked, nor whose poke it was.
Loaded(r, d) == completion[r] /\ bronze[r] \notin Malformed /\ LandedRows(r, d) >= Rows[d]
RecordLoaded(r) == \A d \in Datasets : Loaded(r, d)

EvidenceInv ==
    /\ \A r \in Records :
         /\ submit[r] = "success" => glueReport[r]
         /\ \A a \in Attempts, d \in Datasets : poke[r][a][d] = "ready" => Loaded(r, d)
         /\ landingReport[r] = "ready" => RecordLoaded(r)
         /\ awaitLanding[r] = "success" => RecordLoaded(r)
    /\ transform = "running" => dbtStarted
    /\ dbtStarted => \A r \in Records : glueReport[r] /\ RecordLoaded(r)
    /\ dbtSummary => dbtStarted
    /\ dbtXCom => dbtSummary
    /\ summary = "success" => dbtSummary

IInv == TypeOK /\ AttemptBound /\ ChainInv /\ ClaimInv /\ EvidenceInv

-----------------------------------------------------------------------------
(* Properties.                                                              *)

\* submit_glue, "Never submit twice when clearing a task": however often submit
\* is cleared, and whichever abandoned attempt is still alive, the curation job
\* is executed at most once against a record's physical Silver prefix.
AtMostOneExecution == \A r \in Records : jobRuns[r] <= 1 /\ executions[r] <= 1

\* upload_bronze, "Bronze changed after planning": the object under an immutable
\* Bronze key is never replaced, a submission begins only when it holds the bytes
\* that prepare planned, and no attempt, abandoned or not, starts a Glue run
\* before it is there, whatever happens to the local file and whoever puts late.
BronzeImmutable ==
    [][\A r \in Records :
          /\ bronze[r] # NoContent => bronze'[r] = bronze[r]
          /\ attempt'[r] # attempt[r] => bronze[r] = plan[r] /\ plan[r] # NoContent
          /\ jobRuns'[r] # jobRuns[r] => bronze[r] # NoContent]_vars

\* contracts.py, "prove exact physical file readiness before dbt": a dbt build
\* starts only when every row of every dataset of every record, curated from the
\* bytes prepare planned, is in Landing, at whatever moments the gate's queries ran.
GateBeforeDbt ==
    [][(transform # "running" /\ transform' = "running") =>
          \A r \in Records : /\ bronze[r] = plan[r] /\ completion[r]
                             /\ bronze[r] \notin Malformed
                             /\ \A d \in Datasets : LandedRows(r, d) >= Rows[d]]_vars

\* No evidence file says more than what happened, whichever process wrote it and
\* whenever: landing-<id>.json says ready only of a record whose rows are all in
\* Landing, dbt-summary.json exists only when those of every record are, and
\* run-summary.json says success only beside it.  While transform is successful,
\* so that the status is not that of an earlier build (see GreenMeansTransformed),
\* the rows come from the bytes of the present plan.
EvidenceIsTrue ==
    /\ \A r \in Records : landingReport[r] = "ready" => RecordLoaded(r)
    /\ dbtSummary => \A r \in Records : glueReport[r] /\ RecordLoaded(r)
    /\ summary = "success" => dbtSummary
    /\ summary = "success" /\ transform = "success" => \A r \in Records : bronze[r] = plan[r]

\* report, "An all_done leaf must not turn a failed upstream run green".
GreenMeansTransformed == report = "success" => transform = "success"

\* The evidence of a record is produced in the ladder's order, once and for all.
Rung(r) ==
    IF completion[r] THEN "published"
    ELSE IF executions[r] > 0 THEN "executed"
    ELSE IF claim[r] THEN "claimed"
    ELSE IF bronze[r] # NoContent THEN "staged" ELSE "absent"

Ladder == INSTANCE PublicationLadder
            WITH rung <- [r \in Records |-> Rung(r)], served <- dbtSummary

\* Every step of the DAG, its services and its failures climbs one rung of one
\* record, serves a fully published plan, or leaves the ladder alone.
LadderSpec == Ladder!Spec

\* With task timeouts and no further clears, the DAG run always ends, whatever
\* Glue and Snowpipe do, and ends with a report unless it was skipped.
EventuallyFinished == <>[]AllFinished
=============================================================================
