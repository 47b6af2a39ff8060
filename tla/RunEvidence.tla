---------------------------- MODULE RunEvidence -----------------------------
(***************************************************************************)
(* The evidence files of one Airflow run and the report made of them:      *)
(* write_report (airflow/runtime/spotify_tasks.py), build_run_report,      *)
(* persist_run_report and upload_run_report (orchestration/reporting.py)   *)
(* as called by scripts/generate_run_report.py.                            *)
(*                                                                         *)
(* A file is replaced by writing a temporary file of a fixed name and      *)
(* renaming it.  A write is a job; an inode is named by the job that       *)
(* created it; its content is <<>> until it is complete, then <<value>>,   *)
(* where the value is the execution of the run that it is about: of a      *)
(* summary and a report, the execution whose transform result they show, 0 *)
(* for one that says failed.  Tasks may be cleared and executed again in   *)
(* the run's directory.  plan.json and glue-*.json are left out but for    *)
(* the errors that they may cause.                                         *)
(***************************************************************************)
EXTENDS Naturals, Sequences

CONSTANTS
    Reporters,      \* callers of generate_run_report
    MaxExecutions,  \* bound: executions of the run
    MaxJobs,        \* bound: writes
    Exclusive       \* assumption: at most one write of a file is under way, and
                    \* no write of a task outlives the try that Airflow watches

ASSUME EvidenceAssumption ==
    MaxExecutions \in Nat \ {0} /\ MaxJobs \in Nat /\ Exclusive \in BOOLEAN

VARIABLES
    jobs,       \* the writes: file, value, pc, the inode it writes to or 0, and the
                \* content of the inode that it created
    temporary,  \* of each file, the inode of its temporary name, 0 if there is none
    final,      \* of each file, the inode of its name, 0 if there is none
    execution, step, task,  \* of the run: the file it writes next, its job or 0
    xcom,       \* the execution that transform's XCom is the result of, 0 if none
    builtOn,    \* history: what landing-*.json showed as transform began
    reporter,   \* of each reporter: pc, what it read, its job
    uploaded    \* metadata/pipeline_runs/<run_key>.json

runVars == <<execution, step, task, xcom, builtOn>>
vars == <<jobs, temporary, final, runVars, reporter, uploaded>>

WriteOrder == <<"landing", "dbt", "summary">>
Evidence == {"landing", "dbt", "summary"}
Executions == 1 .. MaxExecutions
Values == {0} \cup Executions
Files == Evidence \cup {"report"}
Torn == <<>>
NotRead == [f \in Evidence |-> 0]
Absent == NotRead

\* The execution that the file of a name is about, 0 if there is no whole file.
Shown(f) == IF final[f] = 0 THEN 0
            ELSE IF jobs[final[f]].content = Torn THEN 0 ELSE jobs[final[f]].content[1]

JobActive(j) == jobs[j].pc \in {"open", "write", "replace"}
JobIds == 1 .. Len(jobs)

Init ==
    /\ jobs = <<>> /\ temporary = [f \in Files |-> 0] /\ final = [f \in Files |-> 0]
    /\ execution = 1 /\ step = 1 /\ task = 0 /\ xcom = 0 /\ builtOn = [e \in Executions |-> 0]
    /\ reporter = [r \in Reporters |-> [pc |-> "start", got |-> NotRead, job |-> 0]]
    /\ uploaded = [k \in {"report"} |-> Absent]

-----------------------------------------------------------------------------
(* write_text to the temporary name, then replace.                          *)

NewJob(f, v) ==
    /\ Len(jobs) < MaxJobs
    /\ Exclusive => \A j \in JobIds : jobs[j].file = f => ~JobActive(j)
    /\ jobs' = Append(jobs, [file |-> f, value |-> v, pc |-> "open", inode |-> 0, content |-> Torn])
    /\ UNCHANGED <<temporary, final>>

\* Mutant of Open: the file itself is opened.
OpenFinal(j) ==
    /\ jobs[j].pc = "open"
    /\ LET f == jobs[j].file
           i == IF final[f] = 0 THEN j ELSE final[f]
       IN  /\ jobs' = [jobs EXCEPT ![j].pc = "write", ![j].inode = i, ![i].content = Torn]
           /\ temporary' = [temporary EXCEPT ![f] = i] /\ final' = [final EXCEPT ![f] = i]
    /\ UNCHANGED <<runVars, reporter, uploaded>>

\* open(..., "w") creates the temporary file, or truncates the one that exists.
Open(j) ==
    /\ jobs[j].pc = "open"
    /\ LET f == jobs[j].file
           i == IF temporary[f] = 0 THEN j ELSE temporary[f]
       IN  /\ jobs' = [jobs EXCEPT ![j].pc = "write", ![j].inode = i, ![i].content = Torn]
           /\ temporary' = [temporary EXCEPT ![f] = i]
    /\ UNCHANGED <<final, runVars, reporter, uploaded>>

\* A shorter text over a longer one leaves the end of the longer one.
Fill(j) ==
    /\ jobs[j].pc = "write"
    /\ LET i == jobs[j].inode
       IN  \E left \in IF jobs[i].content = Torn THEN {<<jobs[j].value>>}
                      ELSE {<<jobs[j].value>>, Torn} :
             jobs' = [jobs EXCEPT ![j].pc = "replace", ![i].content = left]
    /\ UNCHANGED <<temporary, final, runVars, reporter, uploaded>>

Replace(j) ==
    /\ jobs[j].pc = "replace"
    /\ LET f == jobs[j].file
       IN  IF temporary[f] = 0
           THEN jobs' = [jobs EXCEPT ![j].pc = "failed", ![j].inode = 0] /\ UNCHANGED <<temporary, final>>
           ELSE /\ jobs' = [jobs EXCEPT ![j].pc = "done", ![j].inode = 0]
                /\ final' = [final EXCEPT ![f] = temporary[f]]
                /\ temporary' = [temporary EXCEPT ![f] = 0]
    /\ UNCHANGED <<runVars, reporter, uploaded>>

\* The process dies, or the disk is full.
KillJob(j) ==
    /\ JobActive(j)
    /\ jobs' = [jobs EXCEPT ![j].pc = "failed", ![j].inode = 0]
    /\ UNCHANGED <<temporary, final, runVars, reporter, uploaded>>

-----------------------------------------------------------------------------
(* The run writes landing-*.json, dbt-summary.json and run-summary.json.    *)

\* The summary takes its status from transform's XCom, which a try of transform
\* clears as it begins, and nothing else does.
About == IF step = 3 THEN xcom ELSE execution

StartTask ==
    /\ step <= 3 /\ task = 0
    /\ NewJob(WriteOrder[step], About) /\ task' = Len(jobs) + 1
    /\ IF step = 2 THEN xcom' = 0 /\ builtOn' = [builtOn EXCEPT ![execution] = Shown("landing")]
                   ELSE UNCHANGED <<xcom, builtOn>>
    /\ UNCHANGED <<execution, step, reporter, uploaded>>

TaskSucceeds ==
    /\ task # 0 /\ jobs[task].pc = "done"
    /\ step' = step + 1 /\ task' = 0 /\ xcom' = IF step = 2 THEN execution ELSE xcom
    /\ UNCHANGED <<jobs, temporary, final, execution, builtOn, reporter, uploaded>>

GivenUp == task # 0 /\ Exclusive => ~JobActive(task)

\* A task fails before its write, in it or after it, or is given up as lost while
\* it may still be writing: it is tried again, as the sensor of Landing is until
\* all is loaded, or the run goes on to its summary.
TaskFails ==
    /\ step <= 3 /\ GivenUp
    /\ task' = 0 /\ xcom' \in IF step = 2 THEN {0, xcom} ELSE {xcom}
    /\ step' \in IF step = 3 THEN {4} ELSE {step, 3}
    /\ UNCHANGED <<jobs, temporary, final, execution, builtOn, reporter, uploaded>>

\* An operator clears a task that was reached and those after it; XComs survive.
Clear(n) ==
    /\ n <= step /\ GivenUp /\ execution < MaxExecutions
    /\ execution' = execution + 1 /\ step' = n /\ task' = 0
    /\ UNCHANGED <<jobs, temporary, final, xcom, builtOn, reporter, uploaded>>

-----------------------------------------------------------------------------
(* generate_run_report.                                                     *)

\* Mutant of ReadOrder: the summary is read last.
SummaryLast == <<"landing", "dbt", "summary">>

\* build_run_report reads run-summary.json first and landing-*.json last.
ReadOrder == <<"summary", "dbt", "landing">>

Required(f) == f = "summary"

ReaderPc == <<"start", "dbt", "landing", "build">>
Goto(r, pc) == reporter' = [reporter EXCEPT ![r].pc = pc]
\* The call raises; its caller may call again.
Raise(r) == reporter' = [reporter EXCEPT ![r] = [pc |-> "start", got |-> NotRead, job |-> 0]]

\* The script is called again after a report was made.
CallAgain(r) ==
    /\ reporter[r].pc = "done" /\ Raise(r)
    /\ UNCHANGED <<jobs, temporary, final, runVars, uploaded>>

ReadFile(r) ==
    \E n \in 1 .. 3 :
      LET f == ReadOrder[n]
          i == final[f]
      IN  /\ reporter[r].pc = ReaderPc[n]
          /\ IF (i = 0 /\ Required(f)) \/ (i # 0 /\ jobs[i].content = Torn) THEN Raise(r)
             ELSE reporter' = [reporter EXCEPT ![r].pc = ReaderPc[n + 1],
                                               ![r].got[f] = Shown(f)]
    /\ UNCHANGED <<jobs, temporary, final, runVars, uploaded>>

\* plan.json is missing, or another evidence file cannot be used.
ReadFails(r) ==
    /\ reporter[r].pc \in {"start", "dbt", "landing"} /\ Raise(r)
    /\ UNCHANGED <<jobs, temporary, final, runVars, uploaded>>

Persist(r) ==
    /\ reporter[r].pc = "build"
    /\ NewJob("report", reporter[r].got["summary"])
    /\ reporter' = [reporter EXCEPT ![r].pc = "persist", ![r].job = Len(jobs) + 1]
    /\ UNCHANGED <<runVars, uploaded>>

PersistEnds(r) ==
    /\ reporter[r].pc = "persist"
    /\ \/ jobs[reporter[r].job].pc = "done" /\ Goto(r, "upload")
       \/ jobs[reporter[r].job].pc = "failed" /\ Raise(r)
    /\ UNCHANGED <<jobs, temporary, final, runVars, uploaded>>

Unpublished == uploaded["report"] = Absent

Upload(r) ==
    /\ reporter[r].pc = "upload"
    /\ IF Unpublished THEN Goto(r, "done") /\ uploaded' = [uploaded EXCEPT !["report"] = reporter[r].got]
       ELSE Raise(r) /\ UNCHANGED uploaded
    /\ UNCHANGED <<jobs, temporary, final, runVars>>

Next ==
    \/ StartTask \/ TaskSucceeds \/ TaskFails \/ \E n \in 1 .. 3 : Clear(n)
    \/ \E j \in JobIds : Open(j) \/ Fill(j) \/ Replace(j) \/ KillJob(j)
    \/ \E r \in Reporters : \/ ReadFile(r) \/ ReadFails(r) \/ Persist(r)
                           \/ PersistEnds(r) \/ Upload(r) \/ CallAgain(r)

Spec == Init /\ [][Next]_vars

-----------------------------------------------------------------------------
Readings == [Evidence -> Values]
Jobs == [file : Files, value : Values, inode : Nat,
         pc : {"open", "write", "replace", "done", "failed"},
         content : {Torn} \cup {<<v>> : v \in Values}]
Reading == {"start", "dbt", "landing", "build", "persist", "upload", "done"}

\* An inode keeps to one file.
InodesOK ==
    /\ jobs \in Seq(Jobs)
    /\ temporary \in [Files -> {0} \cup JobIds] /\ final \in [Files -> {0} \cup JobIds]
    /\ \A j \in JobIds : jobs[j].pc \in {"write", "replace"} =>
         jobs[j].inode \in JobIds /\ jobs[jobs[j].inode].file = jobs[j].file
    /\ \A f \in Files, i \in JobIds :
         i \in {temporary[f], final[f]} => jobs[i].file = f /\ jobs[i].pc # "open"

\* The variables have their types.
TypeOK ==
    /\ InodesOK
    /\ execution \in Executions /\ step \in 1 .. 4 /\ task \in {0} \cup JobIds
    /\ task # 0 => step <= 3
    /\ xcom \in Values /\ builtOn \in [Executions -> Values]
    /\ reporter \in [Reporters -> [pc : Reading, got : Readings, job : {0} \cup JobIds]]
    /\ uploaded \in [{"report"} -> Readings]

\* Whoever opens an evidence file or the report finds a whole one, also when a
\* writer died and left its temporary file: the name is only ever given to a file
\* that is complete.  It takes Exclusive: two writes of a file at once share the
\* temporary file, and the first rename may publish what the second has truncated.
AlwaysWhole == \A f \in Files : final[f] # 0 => jobs[final[f]].content # Torn

\* A report that says success shows the dbt summary of the build that succeeded or
\* of a later one, and landing evidence no older than what that build was made on,
\* although tasks are cleared, the success may come from an XCom of an earlier
\* execution, and the run may be writing while the report is read.
SuccessIsSupported ==
    \A r \in Reporters :
      LET got == reporter[r].got
      IN  reporter[r].pc \in {"build", "persist", "upload", "done"} /\ got["summary"] # 0
            => got["dbt"] >= got["summary"] /\ got["landing"] >= builtOn[got["summary"]]

-----------------------------------------------------------------------------
(* The inductive invariant behind them, while writes of a file exclude      *)
(* each other, in named parts.                                              *)

\* One write of a file is under way; it has the temporary file to itself, which
\* is not the file that readers see, and renames it when it is whole.
OwnTemporary ==
    /\ \A f \in Files : temporary[f] # 0 => temporary[f] # final[f]
    /\ \A j, k \in JobIds : JobActive(j) /\ JobActive(k) /\ jobs[j].file = jobs[k].file => j = k
    /\ \A j \in JobIds :
         /\ jobs[j].pc \in {"write", "replace"} => temporary[jobs[j].file] = jobs[j].inode
         /\ jobs[j].pc = "write" => jobs[jobs[j].inode].content = Torn
         /\ jobs[j].pc = "replace" => jobs[jobs[j].inode].content = <<jobs[j].value>>

\* The evidence of the tasks is replaced in the order of the executions.
Chronological ==
    /\ \A f \in {"landing", "dbt"} : Shown(f) <= execution
    /\ \A j \in JobIds : jobs[j].file \in {"landing", "dbt"} =>
         /\ jobs[j].value <= execution
         /\ JobActive(j) => Shown(jobs[j].file) <= jobs[j].value
         /\ jobs[j].pc = "done" => jobs[j].value <= Shown(jobs[j].file)
    /\ task # 0 /\ step <= 2 => jobs[task].file = WriteOrder[step] /\ jobs[task].value = execution
    /\ \A e \in Executions : builtOn[e] <= Shown("landing")

\* A success of execution e may be claimed: its transform will not begin again, so
\* that builtOn[e] is settled, and the result of it or of a later one is there.
Settled(e) == e # 0 => e <= execution /\ (e = execution => step >= 3) /\ e <= Shown("dbt")

\* Every claim is settled: the XCom, the summaries, and what was read of them.
ClaimsSettled ==
    /\ Settled(xcom) /\ Settled(Shown("summary"))
    /\ \A j \in JobIds : jobs[j].file = "summary" => Settled(jobs[j].value)
    /\ \A r \in Reporters : Settled(reporter[r].got["summary"])

\* A reporter past dbt-summary.json has read one as recent as the summary.
ReadInOrder ==
    \A r \in Reporters :
      LET got == reporter[r].got
      IN  reporter[r].pc \in {"landing", "build", "persist", "upload", "done"} /\ got["summary"] # 0
            => got["dbt"] >= got["summary"]

EvidenceInv ==
    /\ TypeOK /\ OwnTemporary /\ AlwaysWhole /\ Chronological /\ ClaimsSettled
    /\ ReadInOrder /\ SuccessIsSupported
=============================================================================
