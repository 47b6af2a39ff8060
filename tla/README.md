# TLA+ models of the Spotify analytics data platform

This directory holds TLA+ specifications of the platform's own control logic, the TLC
configurations that check them on small instances, and TLAPS proofs of their main theorems.
Paths below are relative to the repository root, `src/` being the repository.

- Check a model: `tlc -config CurationDag_clears.cfg MCCurationDag`
- Check the proofs: `tlapm CurationDagProofs.tla`
- `PROJECT.json` lists components, runs, mutants (a plausible bug for each property, which TLC
  must catch), the map from definitions to source lines, hazards, findings and theorems.

## 1. Inventory

The platform takes daily snapshots of playlists. A source (Spotify, or the CC0 demo generator)
yields Bronze JSON; Glue turns it into six Silver Parquet datasets; Snowpipe loads them into
Snowflake LANDING; dbt builds staging views, a slot fact and marts; an Airflow DAG drives the
path and leaves evidence files. Each *physical* attempt has its own identity and immutable keys;
each *logical* grain (playlist, date, position) is merged.

| Component | State it keeps | Operations | Hard behaviours | What makes it correct |
|---|---|---|---|---|
| Curation DAG (`airflow/dags`, `airflow/runtime`, `orchestration/contracts.py`) | task states, XCom, files in the artifact directory, `submission.json` claims in S3 | prepare, upload, submit, await_glue, await_landing, transform, report | retries, operator clears, abandoned workers, lost responses, DAG timeout, stale XCom | one execution per physical identity; immutable Bronze; dbt only after the whole gate; a truthful status; it ends |
| Landing gate (`contracts.landing_ready`, `check_landing`) | none; six queries at different moments | compare file inventories | Landing grows between queries; duplicate loads | ready means complete, and still complete when dbt starts |
| Glue job (`glue/jobs`, `glue/storage`) | S3 prefix of the attempt, `complete.json` | run, write Parquet, publish completion | queueing, failure after the manifest, job-level retries | manifest after data; never twice |
| Glue transforms (`glue/transforms`, `glue/schemas`) | none | filter, quarantine, dedup, slots, contract | nulls, missing fields, conflicting duplicates, two filters that must agree | every item once; six datasets that agree; the same rows again |
| Playlist extractor (`extraction/playlist.py`) | pages in memory, `snapshot_id` | extract | the playlist changes between requests; throttling; stale reads | the result is one version |
| Spotify authentication (`auth/client.py`, `lambda_runtime/credentials.py`) | access token, refresh token, expiry, sticky `invalid_grant`; per-container caches | get_access_token, refresh, invalidate | threads, rotation, warm containers | a returned token is live; a rotation is not lost |
| Lambda ingestion (`lambda_runtime/handler.py`, `s3_writer.py`) | none across invocations | run, write | retried invocations, 409/412, midnight | one immutable object per run and playlist |
| Local Bronze and S3 layout (`ingestion/`, `storage/s3.py`) | files | write, build key | concurrent writers, kills, power loss | exclusive creation of whole files |
| CC0 source generator (`sources/cc0_playlist.py`) | Bronze files and a manifest, written in place | select, three states, write | killed half-way, run again while a plan reads | a readable manifest has its files; a plan stays true |
| LANDING and Snowpipe (`snowflake/ddl`) | rows with `_loaded_at`, `_file_name` | load a file | independent pipes, any order | gate and staging tolerate it |
| dbt staging (`dbt/models/staging`) | none (views) | winning run of a date | incomplete runs, ties, replays | no half-landed winner, never back |
| dbt fact (`fact_playlist_snapshot`, `prune_snapshot_fact`) | the fact table | merge, prune | two statements, windows, failure between them | a covered date is one run's slots |
| dbt marts (`dbt/models/marts`) | mart tables | rebuild | gaps, empty days, dates outside the window | a missing day is not an exit |
| Evidence report (`orchestration/reporting.py`) | `pipeline-run-report.json` | join evidence, replace file | partial and concurrent evidence, cleared tasks, an XCom of an earlier execution | a success shows the build and the landing it is about |
| Lambda telemetry (`lambda_runtime/telemetry.py`) | none | emit | partial runs | a success event means an object |
| Operator scripts, Terraform, CI, docs | | | configuration or command lines over the rest | not modelled |

Interaction: the DAG calls S3, Glue and Snowflake and runs dbt; S3 notifies Snowpipe; staging
reads LANDING each time a statement names it; marts read the fact and the staging views; the
report joins files the DAG's tasks wrote. The Lambda path shares the Bronze layout and uses the
extractor, which asks the auth client for a token on every request.

## 2. Modules

| Module | What it models | State ↔ code |
|---|---|---|
| `CurationDag` | one DAG run over its records with retries, clears, timeouts and dead workers; S3, Glue, Snowpipe and Airflow as the code uses them | task states; `plan`, `dbtXCom` = XCom; `proc` = position of each live attempt inside `submit_glue`; `poke` = queries made by each start of the Landing sensor; `lateBodies`, `dbtStarted` = puts and builds that may outlive their try; `bronze`, `claim`, `silver`, `completion` = S3; `loads` = LANDING; `glueReport` ... `summary` = evidence files |
| `PublicationLadder` | abstract: a record's evidence is absent, staged, claimed, executed, published, in this order, once; nothing is served before | refinement target of `CurationDag` |
| `MCCurationDag` | model values and symmetry for TLC | |
| `CurationDagProofs` | the theorems about `CurationDag` | |
| `PlaylistExtraction` | `PlaylistItemsExtractor.extract`, a request at a time, against a changing playlist | `pc` = next request, `attempt` = retries used, `items` = version each item was read from, `batch` = page awaiting its version check |
| `SnapshotRead` | abstract: an atomic read of one version | refinement target of `PlaylistExtraction` |
| `PlaylistExtractionProofs` | the theorems about `PlaylistExtraction` | |
| `SnapshotFact` | LANDING, the two snapshot staging views, the dbt build statement by statement | `loadedAt`, `landed` = LANDING; `fact` maps a date and position to the run whose row is stored; `changes`, `trends` = marts; `pruned` is auxiliary |
| `MCSnapshotFact` | run sets for TLC | |
| `SnapshotFactProofs` | the theorems about `SnapshotFact` | |
| `AuthClient` | `SpotifyAuthClient`, shared by threads, with Spotify's token endpoint and a clock | `pc` = where each thread is in `get_access_token`; `access`, `refreshAt`, `refresh`, `invalid` = attributes; `owner` = the threads inside the lock; `accepted`, `revoked`, `late` = Spotify's side; `lost` is auxiliary |
| `AuthClientProofs` | the theorems about `AuthClient` | |
| `LambdaIngestion` | invocations of one event: `lambda_handler`, the caches of `credentials.py`, the loop of `run`, `S3BronzeWriter.write`, the events logged | `secret`, `accepted`, `issued` = refresh tokens in Secrets Manager and at Spotify; `credentials`, `client` = module globals of each container; `store` = Bronze, by capture date and playlist |
| `LambdaIngestionProofs` | the theorems about `LambdaIngestion` | |
| `WriteOnceStore` | abstract: a key receives a value once and keeps it | refinement target of `LambdaIngestion` |
| `LocalBronze` | `LocalBronzeWriter.write` in racing processes | `content`, `durable` = a file's data in memory and on disk; `temporaries`, `bronze` = names |
| `SilverCuration`, `MCSilverCuration` | the Glue job on one Bronze object: two item filters, six selections, deduplication, contract, Parquet prefixes, completion manifest; the kinds of entries for TLC | `bronze` = the entries of `source_items`; `silver` = the prefixes; `completion` = `complete.json` |
| `SilverCurationProofs` | the theorems about `SilverCuration` | |
| `DemoSource`, `MCDemoSource` | the CC0 generator, killed and run again, and `plan_demo` reading what it wrote | `files`, `manifest` = what is on disk; `csv`, `step`, `snapshots` = the generator's input, position and states; `window`, `pending`, `planned` = the planner's |
| `LocalFilesProofs` | the theorems about `DemoSource` and `LocalBronze`, the two writers of local Bronze files | |
| `RunEvidence` | evidence files of a run whose tasks are retried and cleared in one directory, and `generate_run_report` | `jobs` = calls of `write_report` and `persist_run_report`; `temporary`, `final` = which inode a name has; `xcom` = transform's XCom; a write's value is the execution it is about: of a summary or a report, the one whose transform result it shows; `builtOn` is auxiliary |
| `RunEvidenceProofs` | the theorems about `RunEvidence` | |

An operator whose comment starts with *Mutant* is a wrong version of the definition after it; no
specification uses it.

### Abstractions

- A payload is a model value: what matters is whether two payloads are equal and whether Glue
  accepts them. Times are left out except where order matters (`loadedAt`, `Stamp`).
- A crash is the loss of a worker or a response between any two calls of `submit_glue`. A worker
  that Airflow has given up on may still finish: an attempt of `submit`, a poke of `await_landing`
  (which writes `landing-<id>.json` in any case), a put of `upload` and a build of `transform`
  have steps of their own for it. Airflow ignores what such a worker returns, its XCom and the
  state it reports. `prepare`, `await_glue` and `report` are one step that may fail before or
  after its effect; a late `report` is left out: its summary may be of an earlier build, which a
  clear and the XCom that survives it give as well.
- An item of an extracted playlist is the version it was read from. The conversion of pages to
  items is therefore modelled by what it must preserve.
- In `SnapshotFact` a slot row is its run; its track is `SlotsOf[run][position]`. Dimensions are
  assumed loaded (they are merged from the same Landing before the marts), one playlist is
  modelled (every statement partitions by playlist), ties of `_loaded_at` are broken by the load
  order, and position deltas, averages and turnover are derived and left out. A run's
  observation is loaded once; repeated loads of a file are in `CurationDag`.
- In `AuthClient` an access token is the time it expires, and a refresh token its number. Spotify
  may rotate the refresh token at each exchange and then refuses the old one, its strictest
  reading; an exchange may take any time, and its answer may be lost or invalid.
- In `LambdaIngestion` the token exchange and the extraction of a playlist are single steps:
  `AuthClient` and `PlaylistExtraction` are their details. One invocation runs at a time, as
  Terraform reserves a concurrency of one.
- In `SilverCuration` an entry of the playlist is a record of what the filters, the keys and the
  parser read: whether `item` is missing or null, its type, both `is_local` flags (missing, null,
  true, false), its ids, its album and artists. Of an id that is no ordinary text four kinds are
  told apart, since the parser and Spark treat them differently: null, spaces, a missing key, and
  a number or other white space. Dates that Spark parses, and the spelling of partitions, are left
  out. Rows that agree in their key arrive in any order.
- In `DemoSource` a file is written in place in two steps, opening (which truncates it) and
  content. The corpus is a sequence of rows that name a track and may be invalid.
- In `RunEvidence` a write follows the inode: opening a temporary name that exists truncates the
  file that another write may be filling. `plan.json` and `glue-*.json` count only by the errors
  that they may cause. One record stands for the landing files. A landing file says which
  execution asked, not whether it was ready: what its field `ready` says is `EvidenceIsTrue` of
  `CurationDag`.

## 3. Runs

| Run | Bounds | Question |
|---|---|---|
| `dag_clears` | 1 record, 2 datasets (one with a row, one empty), good and malformed payload, a retry of `transform`, 1 clear, 1 local edit, 1 repeated load, fairness | the safety properties under interference and with abandoned workers, and that the DAG run ends |
| `dag_records` | 2 symmetric records of 1 dataset, a retry of `prepare` and of `upload`, no clears | dbt waits for every record; `report` without clears: green only if the transform succeeded |
| `dag_green` (violation) | 1 record, 1 clear | `report` and the stale XCom |
| `extract_current` | playlists of 0, 1, 3, 4 items, pages of 2, 3 pages, 3 changes, 1 retry, no stale reads | atomic read, termination |
| `fact_retries` | 4 runs on 2 dates, 2 positions; same-time retry, empty retry, a track twice | fact and marts of covered dates, day-over-day arithmetic |
| `fact_skipped` (violation) | 3 dates | a date that lands outside its window |
| `fact_late` (violation) | as `fact_retries`, loads during a build | merge and prune see different Landings |
| `auth_shared` | 2 threads, 6 ticks, lifetimes of 2 and 6 with a buffer of 2, 2 rotations, fairness | tokens live when returned, one exchange for all, rotation followed, the lock released |
| `lambda_retries` | 3 playlists, 3 invocations, 2 containers, 2 tokens, 2 days | write-once Bronze, complete successes, prefixes of failures, recovery after an update of the secret |
| `evidence_exclusive` | 2 executions (1 clear, from any task), 6 writes, 1 reporter that may report again, one write of a file at a time | readers never see a torn file, a report of success has its evidence |
| `silver_items` | every object of up to 3 of fourteen entries, 2 executions | the six datasets agree with the source, with each other and with the manifest; the parser and the job agree; repetition |
| `demo_plans` | corpora with repeated, invalid and too few rows, limits 5 to 7, 2 generations, 3 days | manifest last, one generation per plan, states that show change |

Why the bounds suffice to make the cases happen: two live attempts of `submit` need one clear; a
stale Landing answer needs one repeated load between two queries; a short last page, a full last
page and a playlist longer than the page limit all occur with sizes 0 to 4 and pages of 2; a
leftover position needs two runs of one date with different positions. A lifetime of 2 is not
longer than the buffer, so that half of it is the margin; a second rotation needs a token that has
been rotated. A failed attempt, its retry and a retry after midnight need three invocations; a
stale cached secret is met twice only if the same container is invoked again after the update. Two
executions write six files: with all six a report reads the files of both, with five it is also
persisted and uploaded, and a report that reads across them needs no more. That dbt waits for all
records needs two of them, that queries see different moments two datasets, so the runs of the DAG
have one or the other. `dag_clears` has no retry of `upload` or `prepare`, which `dag_records` has;
the theorems have them all at once. A reordered duplicate needs two entries, the quarantine of a
third beside them needs the third. The theorems below lift every safety property of the passing
runs to every bound (`GreenMeansTransformed`, `CoherentDays` and their like under the hypotheses
that the violation runs show to be needed): reads that lag (`SkewBounded`), records in any number,
histories with gaps, several reporters, and a rotation followed by an update of the secret are
proved and not run.

Bounds that are not in the code: `MaxClears`, `MaxEdits`, `MaxReloads`, `MaxChanges` (how often the
environment interferes), `LastDate`, `MaxTime`, `MaxRotations`, `MaxAttempts`, `MaxToken`,
`MaxDate`, `MaxExecutions`, `MaxJobs`, `MaxEntries`, `MaxGenerations`. `CHECK_DEADLOCK FALSE`
appears where the system stops: a DAG run, an extraction, an event or a report that has finished.

### Fairness

`CurationDag!Fairness` asks for weak fairness of what Airflow itself does: starting and blocking
tasks, ending a task try at its `execution_timeout` and a sensor at its `timeout`
(`default_args`, the sensor decorators). Nothing is assumed of Glue, Snowpipe, operators, or a
process whose task was cleared. `PlaylistExtraction!FairSpec` asks that `extract` keeps taking
steps: each request has a socket timeout, each wait is bounded by `max_retry_wait`.
`AuthClient!FairSpec` asks only that a thread that waits for the token endpoint goes on in the
end: `_http.send` passes a finite timeout to every request. A thread between two other statements
is not asked for anything, as it holds no lock there.

## 4. Findings

1. **`dag_green`: a stale XCom turns a failed run green.** `report` decides from the XCom of
   `transform` (`src/airflow/dags/spotify_daily_snapshot_dag.py:131`). If a task upstream of a
   successful `transform` is cleared and then fails, `transform` ends `upstream_failed` without
   a new try, so its XCom stays, and `report` writes `success`. Without clears the property holds
   (`dag_records`).
2. **`fact_skipped`: a day outside its window is published as all exits.** The marts compare
   every observed date; the fact holds built windows only. A day whose own build gave up and
   whose files arrive before a build of another window has a spine row and no fact rows. Inside
   the window of a build the mart is right (`WindowIsTrue`).
3. **`fact_late`: merge and prune may see different winners.** The staging models are views; a
   better attempt that completes between the two statements truncates or mixes the date, and
   the build passes. The next build that covers the date repairs it (`CoherentDays` holds when
   LANDING is still).

Not findings:

- With stale reads the extractor may combine versions (`SkewBounded` says how many); the class
  says it gives no server-side atomicity guarantee.
- Two writes of one file at the same time, as of two reporters or of a task and the abandoned try
  before it, share the temporary name, and the first rename may publish an empty or partial file
  (`reporting.py:180`, `spotify_tasks.py:68`, although `docs/OBSERVABILITY.md:141` calls the
  replace atomic). `RunEvidence` has this behaviour with `Exclusive = FALSE`, where `AlwaysWhole`
  fails; the run assumes one write of a file at a time, and that a try has stopped writing when
  Airflow gives it up.
- A poke of `await_landing` that saw Landing incomplete and was abandoned may write
  `landing-<id>.json` with `ready: false` over the `true` of the poke that succeeded. The evidence
  then says less than what happened, never more (`EvidenceIsTrue`), and the gate reads no file.
- After a clear of `prepare` the plan may change under a successful `transform`; if the run then
  fails, the stale XCom of finding 1 gives a success about bytes that were never loaded. So
  `EvidenceIsTrue` relates the status to the present plan only while `transform` is successful.
- The parser and the Glue job differ on entries that the parser refuses. It raises on an entry
  without an `item` key (`items.py:39`), which the quarantine calls `UNAVAILABLE_ITEM`
  (`quarantine.py:16`), on a type that is no text or blank and on an `is_local` that is null, which
  the job rejects as unsupported or takes as unknown, and on artists that are no array or have a
  blank id, with which the job accepts the track. Of what the parser accepts both say the same
  (`KindsAgree`), but for `is_local`: the parser takes either flag, the quarantine prefers the
  item's, so that an item local to Glue is local to the parser and not the reverse. The ingestion
  does not call the parser.
- A valid track whose item has no `is_local` fails the Silver contract
  (`silver_schemas.py:41`), and with it the job.
- A repeated execution may overwrite the files under a manifest of an earlier one;
  `CompletionIsTrue` is about the manifest of the last execution, and `SameRowsAgain` says that the
  rows are the same.
- A rotated refresh token lives in one container only. When it is discarded and Spotify refuses
  the old one, invocations fail until the operator updates the secret, as `lambda/README.md:73`
  says; `RecoversFromUpdate` is what the code promises after that.

## 5. Proofs

`CurationDagProofs` proves, for every set of records, datasets, row counts, payloads, retries and
bounds: the inductive invariant `IInv`, `TypeOK`, `AtMostOneExecution`, `EvidenceIsTrue`,
`BronzeImmutable`, `GateBeforeDbt`, and the refinement of `PublicationLadder`. `IInv` has five
parts: types; a process slot for each attempt and each start of the Landing sensor
(`AttemptBound`); a task that runs or succeeded has a successful upstream, and what is uploaded is
what is planned (`ChainInv`); whoever is about to start the job holds the only claim and nobody
has started it, and a claim has its Bronze object (`ClaimInv`); what the evidence files, and the
answers of pokes that have yet to write them, say of Landing is so (`EvidenceInv`).
`AtMostOneExecution` alone is not inductive: two attempts past the claim would break it, and only
`ClaimInv` says there are none. `EvidenceIsTrue` and `GateBeforeDbt` need `EvidenceInv` because a
poke may end, and a build may write, long after it was abandoned. Its step is proved from what
lasts rather than action by action: `LastingStep` (no step takes back an object, a manifest, a
load or a report of a Glue run), whence `LoadedStable` (a loaded record stays loaded), and
`OriginsStep` and `LeafOriginsStep` (where each piece of evidence that is new comes from). An
abandoned put of `upload` may arrive late, but not over an object that is there, and a submission
needs one that is as planned: this is `BronzeImmutable`.
Assumptions: `RowsAssumption`, `ContentsAssumption`, `BoundsAssumption`.

`PlaylistExtractionProofs` proves `ExtractionInv` (every verified item is within `Lag` versions of
`snapshotId`, because the check read a version at least as new as the page), hence `TypeOK` and
`BoundedSkew` for every `Lag`, and for `Lag = 0` the refinement `AtomicRead`. No run checks
`BoundedSkew`: at `Lag = 0` it repeats `AtomicRead`.
Assumption: `ExtractionAssumption`.

`SnapshotFactProofs` has two invariants. `TypeOK`, `LoadOrder` and `StoredComplete` are inductive
however the loads interleave with a build, because a run that is complete stays complete; they
give `NeverOlder`: a row is only ever replaced by its date's winner, and the winner is at least as
recent as every complete run. That a date with a complete run has a winner at all (`WinnerExists`)
needs the runs to be finite and their loads to be ordered. With `LateLoads = FALSE`, `StillInv`
follows a covered date through the statements: after the MERGE it holds its winner's slots plus
leftovers (`Merged`), after the prune exactly its winner's slots (`Settled`), and then the changes
mart compares such dates (`Compared`). `CoherentDays` alone is not inductive: what the prune leaves
depends on what the MERGE wrote, and a date nobody won must be known to be empty
(`StoredComplete`). It gives `CoherentDays`, `EmptyIsObserved` and `WindowIsTrue`, under the
hypothesis `LateLoads = FALSE`, which `fact_late` shows to be needed. Under the same hypothesis
`Reported` says that the marts of a running build are functions of the fact and the views as they
are. `RetainedIsStreak` then is a fact about intervals (a streak of more than a day contains the
day before), and `TrendsAddUp` one about cardinalities of differences; both need that a date
nobody observed has no rows, so that the mart's and the fact's day before are the same.
Assumption: `SnapshotAssumption`.

`GreenMeansTransformed` is false with clears (`dag_green`), and `CurationDagProofs` says which
ones: `GreenUnlessCleared` proves it of every behaviour in which the operator clears no task but
`report`, whatever else fails, is edited or is loaded again, and `GreenWithoutClears` of
`MaxClears = 0`. The stale XCom is the only way: until such a clear, an XCom or a green report
implies that `transform` succeeded and still counts as successful (`Genuine`), which no other step
undoes.

`RunEvidenceProofs` proves `EvidenceInv`, for any executions, reporters and writes, under the
hypothesis `Exclusive` (one write of a file at a time), without which `AlwaysWhole` fails.
`OwnTemporary` is why a reader never meets a torn file: the temporary name of a write under way is
no inode that readers see, and nobody else truncates it. `SuccessIsSupported` relates a report to
files that have been replaced since, and to an execution that may be an earlier one, since the
XCom from which the summary is made survives a clear. So it needs order: the landing and dbt
evidence is replaced in the order of the executions (`Chronological`); whoever claims the success
of an execution, be it the XCom, a summary under way or read, does so when the dbt summary of that
execution is there and its transform cannot begin again, so that what it was built on is settled
(`ClaimsSettled`); and a reporter reads the summary before the dbt and landing evidence
(`ReadInOrder`). `SupportedUpload` carries it to the copy in S3, which no run checks. That a success
may be of an earlier execution is finding 1; what is proved is that a report shows at least the
evidence of the success it tells.
Assumption: `EvidenceAssumption`.

`SilverCurationProofs` proves `CurationInv`, for every Bronze object over the entries and any
number of executions. `Curated` says that whatever execution wrote a prefix, it holds one of the
results that deduplication allows; the theorem `ExecutionsRepeat` then needs that it allows only
one, which holds because the order of `deterministic_dedupe` is total on rows of one
key: rows that agree in every ordered field are equal (`OrderIsTotal`). `WrittenUpToStep` and
`ManifestEnds` say that a manifest is published when all six prefixes are the execution's own.
`EveryEntryOnce` is about the two item filters, `KindsAgree` about them and the parser, for every
entry that Spark can read (`EntryShapes`), and `ReferencesResolve` follows
from the fact that deduplication keeps every key of its input and drops no row of another key.
Assumption: `CurationAssumption`.

`LocalFilesProofs` proves `DemoInv`, for any corpora, track limits, days and generations.
`ManifestIsLast` and `PlanIsStable` alone are not inductive: a later write might touch a listed
file. A record is `Settled` when its file is written and no generation will write it again, since
a path carries the generation and the generator never goes back; `DaysWritten` gives it to the
three records when the manifest is written, and `OneGeneration` keeps a plan's records apart by
date. `StatesShowChange` is proved for every corpus: the rows of a playlist are numbered without
gaps (`RankIsOnto`), so its tracks are distinct (`UniqueIsDistinct`), and each state takes them in
an order that is written down (`SecondOrder`, `ThirdOrder`), which says which tracks it has.
Assumption: `DemoAssumption`.

`LocalFilesProofs` also proves `LocalInv` of `LocalBronze`: a durable file is whole and its writer
past the sync, and only durable files are linked. `PublishedIsWhole` alone is not inductive, since
it does not say that a power loss spares the file; `durable` does. It gives the four properties of
the module, for any processes and destinations; `WinnerIsPublished` assumes that `Absent` is no
process.

`AuthClientProofs` proves `AuthInv`, for any number of threads, lifetimes and buffer. `Locked` says
that the lock is held exactly by the thread whose exchange is under way, and only while no token
is fresh: that the check inside the lock is repeated makes it inductive, and it gives
`NoNeedlessExchange`. `Outlives` says that a token outlives the moment from which the client stops
using it, because the lifetime is counted from before the request; with the final check of
`get_access_token` it gives `LiveWhenReturned`. `KeepsUpWithRotation` alone is not inductive: it
must be known that an answer on its way carries the accepted refresh token (`AnswersAreNews`),
until one is lost. Assumption: `AuthAssumption`.

`LambdaIngestionProofs` proves `LambdaInv`, for any containers, playlists, tokens, days and
attempts. `InOrder` says that the attempt under way has published the playlists before its
position and no later one, and nobody has objects of an attempt to come; with `FailureEnds` (an
attempt does nothing after it has logged a failure) it gives `PartialRunIsAPrefix` and, when the
loop ends, `SuccessIsComplete`. The prefix reaches up to the playlist that failed, whose own object
is there if it was stored and the put nevertheless failed. `RetriesDoNotMix` follows
from the prefixes: every attempt with objects of one date would hold the one key of its first
playlist. `RefusedOnce` says that a container that was refused since the
secret became good has dropped what it cached, which `RecoversFromUpdate` needs. That each step
maps to a step of `WriteOnceStore` or to a stutter needs only the types and who is under way, as
the put is conditional. Assumption: `LambdaAssumption`.

Out of the prover's reach and only model-checked: liveness under fairness (`EventuallyFinished`,
`EventuallyDone`, `LockIsReleased`), which needs ENABLED. Every safety and action property of a
passing run is stated by a theorem.

## 6. Not modelled

- `dbt` dimensions and bridge, lifecycle, artist presence and serving views: planned below.
- Fields of telemetry records, sums and durations of the evidence report, spelling of keys and
  partitions, Spark's parsing: formatting, or data that no property tells apart.
- Operator scripts: `replay_partition.py` creates a new physical attempt, which `SnapshotFact` has
  as another run of a date; `audit_landing_lag.py` only reads.
- Terraform, CI, documentation, Power BI: no behaviour of their own. The retry, timeout and
  concurrency settings appear as constants and fairness.

## 7. Plan

1. `PlaylistMarts`: dimensions (merge-only, so that withdrawn credits stay in the bridge),
   lifecycle, artist presence and serving views over the fact.
2. Composition: Landing as `CurationDag` leaves it feeding `SnapshotFact`, several DAG runs
   against one warehouse.
3. Proofs: the composition of 2 (that the gate's answer makes the fact's winner complete), and a
   `RunEvidence` without `Exclusive`, where what remains true is that a report is of one summary.
