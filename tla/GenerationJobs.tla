---------------------------- MODULE GenerationJobs ----------------------------
(***************************************************************************)
(* The life of a generation_jobs row: filed by the app or by the MCP      *)
(* server, run by a task of the process that filed it, run again, given a  *)
(* verdict by hand, and outliving the student it was for.  Every request   *)
(* to Directus is a step of its own, so tasks, deletions and verdicts      *)
(* interleave between any two of them; a request may be refused, may land  *)
(* with its answer lost, and a process may die between two requests.       *)
(*                                                                         *)
(* source: sidereal_generate/jobs.py, sidereal_core/students.py            *)
(* (delete_student), sidereal_app/api/routes.py, sidereal_mcp/tools.py     *)
(***************************************************************************)
EXTENDS Naturals

CONSTANTS
    Jobs,          \* ids a generation_jobs row may be given
    Students,      \* the students on file at the start
    Processes,     \* what runs jobs: the app's worker, an MCP server
    None,          \* a null column
    Kinds,         \* which kinds are filed, a subset of JobKind
    MaxQuestions,  \* bound on the questions one generation returns
    MaxFaults,     \* bound on refused requests, lost answers and crashes
    Verdicts       \* statuses a tutor writes onto a row by hand

JobKind == {"homework", "feedback", "plan", "paper_extract"}
JobStatus == {"queued", "running", "succeeded", "failed"}
Settled == {"succeeded", "failed"}

ASSUME JobsAssumption ==
    /\ Kinds \subseteq JobKind
    /\ MaxQuestions \in Nat
    /\ MaxFaults \in Nat
    /\ Verdicts \subseteq JobStatus
    /\ None \notin Students
    /\ None \notin Processes

VARIABLES
    status,     \* the status column, "absent" before the row is created
    kind,       \* the kind column
    student,    \* the student column, a SET NULL relation
    input,      \* the student named by the input column
    named,      \* whether input carries student_name
    output,     \* whether output_collection and output_id are set
    task,       \* what run_job is doing about the row
    host,       \* the process run_job is in
    held,       \* input.student as run_job read it
    questions,  \* how many questions the model returned
    pdf,        \* 1 when a Typst homework compiled and its PDF is uploaded, else 0
    landed,     \* how many of the artefact's writes Directus has applied
    gone,       \* whether the student's deletion took the artefact with it
    students,   \* the students rows that exist
    deleting,   \* how far delete_student has got, by student
    unnamed,    \* the listed jobs delete_student has yet to name
    faults,     \* requests refused or unanswered, and crashes, so far
    askedFor,   \* history: the student the first of a chain of retries was for
    verdict     \* history: whether a tutor has written this row's status

rowVars == <<status, kind, student, input, named, output>>
taskVars == <<task, host, held, questions, pdf>>
artefactVars == <<landed, gone>>
deletionVars == <<students, deleting, unnamed>>
vars == <<rowVars, taskVars, artefactVars, deletionVars, faults, askedFor, verdict>>

TaskState == {"none", "scheduled", "read", "loading", "generating", "writing",
              "finishing", "failing", "over"}
\* A task that is still going to make a request about its row.
Active == TaskState \ {"none", "over"}

(***************************************************************************)
(* The writes of each kind, numbered from 1 in the order they are made:   *)
(* homework writes its questions, the PDF when there is one, the row, then *)
(* a junction row for each question; a paper is filed first and its PDFs   *)
(* and questions follow; feedback and plans are one row.                   *)
(***************************************************************************)
RowAt(j) == IF kind[j] = "homework" THEN questions[j] + pdf[j] + 1 ELSE 1

WriteCount(j) == IF kind[j] = "homework" THEN 2 * questions[j] + pdf[j] + 1
                 ELSE IF kind[j] = "paper_extract" THEN questions[j] + 2
                 ELSE 1

Whole(j) == landed[j] = WriteCount(j)
RowFiled(j) == landed[j] >= RowAt(j)

\* A homework, feedback or plan row is its student's, deleted with them.
Owned(j) == kind[j] # "paper_extract"

TypeOK ==
    /\ status \in [Jobs -> JobStatus \cup {"absent"}]
    /\ kind \in [Jobs -> JobKind]
    /\ student \in [Jobs -> Students \cup {None}]
    /\ input \in [Jobs -> Students \cup {None}]
    /\ named \in [Jobs -> BOOLEAN]
    /\ output \in [Jobs -> BOOLEAN]
    /\ task \in [Jobs -> TaskState]
    /\ host \in [Jobs -> Processes \cup {None}]
    /\ held \in [Jobs -> Students \cup {None}]
    /\ questions \in [Jobs -> 0..MaxQuestions]
    /\ pdf \in [Jobs -> 0..1]
    /\ landed \in [Jobs -> Nat]
    /\ \A j \in Jobs : landed[j] <= WriteCount(j)
    /\ gone \in [Jobs -> BOOLEAN]
    /\ students \subseteq Students
    /\ deleting \in [Students -> {"idle", "naming"}]
    /\ unnamed \in [Students -> SUBSET Jobs]
    /\ faults \in 0..MaxFaults
    /\ askedFor \in [Jobs -> Students \cup {None}]
    /\ verdict \in [Jobs -> BOOLEAN]

Init ==
    /\ status = [j \in Jobs |-> "absent"]
    /\ kind = [j \in Jobs |-> "plan"]
    /\ student = [j \in Jobs |-> None]
    /\ input = [j \in Jobs |-> None]
    /\ named = [j \in Jobs |-> FALSE]
    /\ output = [j \in Jobs |-> FALSE]
    /\ task = [j \in Jobs |-> "none"]
    /\ host = [j \in Jobs |-> None]
    /\ held = [j \in Jobs |-> None]
    /\ questions = [j \in Jobs |-> 0]
    /\ pdf = [j \in Jobs |-> 0]
    /\ landed = [j \in Jobs |-> 0]
    /\ gone = [j \in Jobs |-> FALSE]
    /\ students = Students
    /\ deleting = [s \in Students |-> "idle"]
    /\ unnamed = [s \in Students |-> {}]
    /\ faults = 0
    /\ askedFor = [j \in Jobs |-> None]
    /\ verdict = [j \in Jobs |-> FALSE]

Fault == faults < MaxFaults /\ faults' = faults + 1

-------------------------------------------------------------------------------
(***************************************************************************)
(* Filing a row.                                                          *)
(***************************************************************************)

\* start_job, and the task its caller then schedules.  Directus refuses a row
\* whose student is gone.  When the answer is lost, or the process dies before
\* the task is scheduled, the row is there and nothing will ever run it.
StartJob(j, k, s, p, root) ==
    /\ status[j] = "absent"
    /\ s \in students \cup {None}
    /\ status' = [status EXCEPT ![j] = "queued"]
    /\ kind' = [kind EXCEPT ![j] = k]
    /\ student' = [student EXCEPT ![j] = s]
    /\ input' = [input EXCEPT ![j] = s]
    /\ askedFor' = [askedFor EXCEPT ![j] = root]
    /\ \/ /\ task' = [task EXCEPT ![j] = "scheduled"]
          /\ host' = [host EXCEPT ![j] = p]
          /\ UNCHANGED faults
       \/ Fault /\ UNCHANGED <<task, host>>
    /\ UNCHANGED <<named, output, held, questions, pdf, artefactVars, deletionVars, verdict>>

\* create_job and the MCP server's _generate: every kind but a paper names a
\* student, and the caller must be able to see them.
CreateJob(j, k, s, p) ==
    /\ k \in Kinds
    /\ k = "paper_extract" \/ s # None
    /\ StartJob(j, k, s, p, s)

\* Whom a retry of the job would be for: a deleted student is nulled in the
\* column, and delete_student takes the name out of the input first.
ReplayableFromInput(j) == input[j]
Replayable(j) == IF kind[j] = "paper_extract" \/ input[j] # None
                 THEN input[j] ELSE student[j]

RetryInPlace(old, j, p) ==
    /\ status[old] \in Settled
    /\ status' = [status EXCEPT ![old] = "queued"]
    /\ task' = [task EXCEPT ![old] = "scheduled"]
    /\ landed' = [landed EXCEPT ![old] = 0]
    /\ UNCHANGED <<kind, student, input, named, output, host, held, questions, pdf, gone,
                   deletionVars, faults, askedFor, verdict>>

\* retry_job: a new row with the old one's input, whatever the old one's status.
RetryJob(old, j, p) ==
    /\ status[old] # "absent"
    /\ kind[old] = "paper_extract" \/ Replayable(old) # None
    /\ StartJob(j, kind[old], Replayable(old), p, askedFor[old])

-------------------------------------------------------------------------------
(***************************************************************************)
(* run_job, a request at a time.                                          *)
(***************************************************************************)
GoTo(j, pc) == task' = [task EXCEPT ![j] = pc]

\* An exception in the try, of whatever class, is on its way to the error column.
OnExceptionUncaught(j) == IF kind[j] = "homework" THEN "over" ELSE "failing"
OnException(j) == "failing"

\* The row is read; a read that fails is outside the try and ends the task.
ReadJob(j) ==
    /\ task[j] = "scheduled"
    /\ \/ /\ GoTo(j, "read")
          /\ held' = [held EXCEPT ![j] = input[j]]
          /\ UNCHANGED faults
       \/ Fault /\ GoTo(j, "over") /\ UNCHANGED held
    /\ UNCHANGED <<rowVars, host, questions, pdf, artefactVars, deletionVars, askedFor, verdict>>

\* The row is marked running, also outside the try, whatever status it had.
MarkRunning(j) ==
    /\ task[j] = "read"
    /\ \/ /\ GoTo(j, "loading")
          /\ status' = [status EXCEPT ![j] = "running"]
          /\ UNCHANGED faults
       \/ /\ Fault
          /\ GoTo(j, "over")
          /\ status' \in {status, [status EXCEPT ![j] = "running"]}
    /\ UNCHANGED <<kind, student, input, named, output, host, held, questions, pdf,
                   artefactVars, deletionVars, askedFor, verdict>>

\* _load: the student comes from the input as it was read, never from the column.
\* Anything it needs may be unreadable.
Load(j) ==
    /\ task[j] = "loading"
    /\ \/ /\ Owned(j) => held[j] \in students
          /\ GoTo(j, "generating")
       \/ GoTo(j, OnException(j))
    /\ UNCHANGED <<rowVars, host, held, questions, pdf, artefactVars, deletionVars, faults,
                   askedFor, verdict>>

\* The model call, and the compiler's for a Typst homework: some number of
\* questions, a PDF or none, or a failure.
Generate(j) ==
    /\ task[j] = "generating"
    /\ \/ /\ GoTo(j, "writing")
          /\ \E n \in 0..MaxQuestions, f \in 0..1 :
                /\ n > 0 => kind[j] \in {"homework", "paper_extract"}
                /\ f > 0 => kind[j] = "homework"
                /\ questions' = [questions EXCEPT ![j] = n]
                /\ pdf' = [pdf EXCEPT ![j] = f]
       \/ GoTo(j, OnException(j)) /\ UNCHANGED <<questions, pdf>>
    /\ UNCHANGED <<rowVars, host, held, artefactVars, deletionVars, faults, askedFor, verdict>>

\* Whether the next write's foreign keys hold: an owned row names its student,
\* and a junction row names the homework the student's deletion cascades to.
CanLand(j) ==
    Owned(j) => /\ landed[j] + 1 = RowAt(j) => held[j] \in students
                /\ landed[j] + 1 > RowAt(j) => ~gone[j]

\* What a write that landed is followed by.
AfterRow(j) == IF landed[j] + 1 = RowAt(j) THEN "finishing" ELSE "writing"
AfterEmptyRow(j) == CASE landed[j] + 1 = RowAt(j) /\ questions[j] = 0 /\ Owned(j) -> "failing"
                      [] landed[j] + 1 = WriteCount(j) -> "finishing"
                      [] OTHER -> "writing"
AfterWrite(j) == IF landed[j] + 1 = WriteCount(j) THEN "finishing" ELSE "writing"

\* One write of the artefact.  A refusal stops it where it is: what has been
\* written stays, as it does when the model call that repairs a filed paper's
\* maths raises an API error.
WriteArtefact(j) ==
    /\ task[j] = "writing"
    /\ \/ /\ CanLand(j)
          /\ landed' = [landed EXCEPT ![j] = @ + 1]
          /\ GoTo(j, AfterWrite(j))
          /\ UNCHANGED faults
       \/ /\ ~CanLand(j) \/ (kind[j] = "paper_extract" /\ landed[j] = 1)
          /\ GoTo(j, OnException(j))
          /\ UNCHANGED <<landed, faults>>
       \/ /\ Fault
          /\ GoTo(j, OnException(j))
          /\ \/ UNCHANGED landed
             \/ CanLand(j) /\ landed' = [landed EXCEPT ![j] = @ + 1]
    /\ UNCHANGED <<rowVars, host, held, questions, pdf, gone, deletionVars, askedFor, verdict>>

\* The row is settled as succeeded, outside the try and whatever its status.
Succeed(j) ==
    /\ task[j] = "finishing"
    /\ GoTo(j, "over")
    /\ \/ /\ status' = [status EXCEPT ![j] = "succeeded"]
          /\ output' = [output EXCEPT ![j] = TRUE]
          /\ Fault \/ UNCHANGED faults
       \/ Fault /\ UNCHANGED <<status, output>>
    /\ UNCHANGED <<kind, student, input, named, host, held, questions, pdf, artefactVars,
                   deletionVars, askedFor, verdict>>

\* The row is settled as failed; the request that says so may itself be lost.
RecordFailure(j) ==
    /\ task[j] = "failing"
    /\ GoTo(j, "over")
    /\ \/ /\ status' = [status EXCEPT ![j] = "failed"]
          /\ UNCHANGED faults
       \/ Fault /\ status' \in {status, [status EXCEPT ![j] = "failed"]}
    /\ UNCHANGED <<kind, student, input, named, output, host, held, questions, pdf,
                   artefactVars, deletionVars, askedFor, verdict>>

\* A process dies: its background tasks die with it, and nothing takes them up.
Crash(p) ==
    /\ Fault
    /\ \E j \in Jobs : host[j] = p /\ task[j] \in Active
    /\ task' = [j \in Jobs |-> IF host[j] = p /\ task[j] \in Active THEN "over" ELSE task[j]]
    /\ UNCHANGED <<rowVars, host, held, questions, pdf, artefactVars, deletionVars, askedFor,
                   verdict>>

-------------------------------------------------------------------------------
(***************************************************************************)
(* What else writes the rows.                                             *)
(***************************************************************************)

\* update_generation_job: a status written onto the row, whatever it was doing.
SetStatus(j, v) ==
    /\ status[j] # "absent"
    /\ status' = [status EXCEPT ![j] = v]
    /\ verdict' = [verdict EXCEPT ![j] = TRUE]
    /\ UNCHANGED <<kind, student, input, named, output, taskVars, artefactVars, deletionVars,
                   faults, askedFor>>

\* delete_student: the student's jobs are listed,
ListJobs(s) ==
    /\ s \in students
    /\ deleting[s] = "idle"
    /\ deleting' = [deleting EXCEPT ![s] = "naming"]
    /\ unnamed' = [unnamed EXCEPT ![s] = {j \in Jobs : student[j] = s}]
    /\ UNCHANGED <<rowVars, taskVars, artefactVars, students, faults, askedFor, verdict>>

\* each is given the student's name in its input, and loses the id there,
NameJob(s, j) ==
    /\ deleting[s] = "naming"
    /\ j \in unnamed[s]
    /\ input' = [input EXCEPT ![j] = None]
    /\ named' = [named EXCEPT ![j] = TRUE]
    /\ unnamed' = [unnamed EXCEPT ![s] = @ \ {j}]
    /\ UNCHANGED <<status, kind, student, output, taskVars, artefactVars, students, deleting,
                   faults, askedFor, verdict>>

\* and the row goes: jobs keep theirs with the column nulled, owned rows go too.
DeleteRow(s) ==
    /\ deleting[s] = "naming"
    /\ unnamed[s] = {}
    /\ students' = students \ {s}
    /\ deleting' = [deleting EXCEPT ![s] = "idle"]
    /\ student' = [j \in Jobs |-> IF student[j] = s THEN None ELSE student[j]]
    /\ gone' = [j \in Jobs |-> gone[j] \/ (Owned(j) /\ RowFiled(j) /\ held[j] = s)]
    /\ UNCHANGED <<status, kind, input, named, output, taskVars, landed, unnamed, faults,
                   askedFor, verdict>>

\* Any of its requests may fail, the login's deletion among them: the jobs named
\* so far stay named and the student stays.
AbortDelete(s) ==
    /\ deleting[s] = "naming"
    /\ Fault
    /\ deleting' = [deleting EXCEPT ![s] = "idle"]
    /\ unnamed' = [unnamed EXCEPT ![s] = {}]
    /\ UNCHANGED <<rowVars, taskVars, artefactVars, students, askedFor, verdict>>

-------------------------------------------------------------------------------
RunJob(j) ==
    \/ ReadJob(j)
    \/ MarkRunning(j)
    \/ Load(j)
    \/ Generate(j)
    \/ WriteArtefact(j)
    \/ Succeed(j)
    \/ RecordFailure(j)

DeleteStudent(s) ==
    \/ ListJobs(s)
    \/ \E j \in Jobs : NameJob(s, j)
    \/ DeleteRow(s)
    \/ AbortDelete(s)

Next ==
    \/ \E j \in Jobs, k \in Kinds, s \in students \cup {None}, p \in Processes :
          CreateJob(j, k, s, p)
    \/ \E old, j \in Jobs, p \in Processes : RetryJob(old, j, p)
    \/ \E j \in Jobs : RunJob(j)
    \/ \E p \in Processes : Crash(p)
    \/ \E j \in Jobs, v \in Verdicts : SetStatus(j, v)
    \/ \E s \in Students : DeleteStudent(s)

Spec == Init /\ [][Next]_vars

\* A task the event loop holds goes on; nobody need file, retry or delete.
FairSpec == Spec /\ \A j \in Jobs : WF_vars(RunJob(j))

-------------------------------------------------------------------------------
(***************************************************************************)
(* Properties.                                                            *)
(***************************************************************************)

\* A row that names its output names a complete one: every question, junction
\* row and file of the artefact was written before run_job filled in output_id.
OutputIsWhole == \A j \in Jobs : output[j] => Whole(j)

\* While no request has been lost and no process has died, a row that reads
\* queued or running has a task that will settle it: what the progress card of
\* a generation in the app waits for.
UnsettledHasATask ==
    \A j \in Jobs :
        faults = 0 /\ ~verdict[j] /\ status[j] \in {"queued", "running"} => task[j] \in Active

\* While nothing is lost, a failed job leaves no homework, feedback or plan for
\* the student to find: running it again files the first one, not a second.
FailureFilesNothing ==
    \A j \in Jobs :
        faults = 0 /\ ~verdict[j] /\ status[j] = "failed" /\ Owned(j) => ~RowFiled(j) \/ gone[j]

\* As long as the student exists, running a job again is running it for them,
\* however far a deletion that was given up had taken the name out of the input.
RetryKeepsTheStudent ==
    \A j \in Jobs :
        status[j] # "absent" /\ Owned(j) /\ askedFor[j] \in students
            => Replayable(j) = askedFor[j]

\* run_job settles a row once: only a verdict changes a settled row.
OutcomeIsFinal ==
    [][\A j \in Jobs :
          status[j] \in Settled /\ ~verdict'[j] => status'[j] = status[j]]_vars

\* Every queued row settles, unless a request is lost, a process dies or a
\* verdict is written first.
QueuedJobsSettle ==
    \A j \in Jobs :
        status[j] = "queued" ~> status[j] \in Settled \/ faults > 0 \/ verdict[j]

\* A row keeps the contract of a job: what a watcher sees of it is its status,
\* how much of the artefact is written, its output and whether it was judged.
Contract == INSTANCE JobContract WITH
    outcome  <- status,
    product  <- [j \in Jobs |-> IF landed[j] = 0 THEN "none"
                                 ELSE IF Whole(j) THEN "whole" ELSE "partial"],
    answered <- output,
    touched  <- verdict

KeepsTheContract == Contract!CSpec

===============================================================================
