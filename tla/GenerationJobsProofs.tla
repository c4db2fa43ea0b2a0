------------------------- MODULE GenerationJobsProofs -------------------------
(***************************************************************************)
(* What GenerationJobs guarantees for any number of jobs, students,        *)
(* processes, questions and faults.  One inductive invariant carries every *)
(* result: it ties the status column to where the task is (StatusInv), the *)
(* task to how much of the artefact has landed (ArtefactInv, FailureInv),  *)
(* and the student's column and input to whom the job was for (StudentInv).*)
(***************************************************************************)
EXTENDS GenerationJobs, TLAPS

Unstarted == {"none", "scheduled", "read", "loading", "generating"}
Begun == {"loading", "generating", "writing", "finishing", "failing"}

StatusInv ==
    \A j \in Jobs :
        /\ status[j] = "absent" => task[j] = "none" /\ ~verdict[j]
        /\ task[j] = "none" => status[j] = "absent" \/ faults > 0
        /\ task[j] \in {"scheduled", "read"} => status[j] = "queued" \/ verdict[j]
        /\ task[j] \in Begun => status[j] = "running" \/ verdict[j]
        /\ task[j] = "over" => status[j] \in Settled \/ verdict[j] \/ faults > 0
        /\ status[j] \in Settled /\ ~verdict[j] => task[j] = "over"

ArtefactInv ==
    \A j \in Jobs :
        /\ task[j] \in Unstarted => landed[j] = 0 /\ questions[j] = 0 /\ pdf[j] = 0
        /\ task[j] = "writing" => landed[j] < WriteCount(j)
        /\ task[j] = "finishing" => Whole(j)
        /\ output[j] => Whole(j) /\ task[j] = "over"

FailureInv ==
    \A j \in Jobs :
        /\ faults = 0 /\ task[j] = "failing" /\ Owned(j) => ~RowFiled(j) \/ gone[j]
        /\ faults = 0 /\ ~verdict[j] /\ status[j] = "failed" /\ Owned(j)
              => ~RowFiled(j) \/ gone[j]

StudentInv ==
    \A j \in Jobs :
        status[j] # "absent" /\ Owned(j) /\ askedFor[j] \in students
            => student[j] = askedFor[j] /\ input[j] \in {None, askedFor[j]}

IInv == TypeOK /\ StatusInv /\ ArtefactInv /\ FailureInv /\ StudentInv

LEMMA InitEstablishes == Init => IInv
BY JobsAssumption DEF Init, IInv, TypeOK, StatusInv, ArtefactInv, FailureInv, StudentInv,
   WriteCount, RowAt, RowFiled, Owned, Whole, JobKind, JobStatus, TaskState, Begun, Unstarted,
   Settled

(***************************************************************************)
(* The steps of run_job.                                                   *)
(***************************************************************************)
LEMMA RunJobPreserves == ASSUME NEW j \in Jobs, IInv, RunJob(j) PROVE IInv'
<1> USE JobsAssumption
    DEF IInv, GoTo, Fault, OnException, rowVars, taskVars, artefactVars, deletionVars
<1>1. CASE ReadJob(j)
  <2>1. TypeOK'
    <3>1. \A i \in Jobs : landed'[i] <= WriteCount(i)'
      BY <1>1 DEF ReadJob, TypeOK, ArtefactInv, Unstarted, WriteCount
    <3> QED BY <1>1, <3>1 DEF ReadJob, TypeOK, TaskState, JobStatus
  <2>2. StatusInv'
    BY <1>1 DEF ReadJob, StatusInv, TypeOK, Begun, Settled, TaskState
  <2>3. ArtefactInv'
    BY <1>1 DEF ReadJob, ArtefactInv, TypeOK, Unstarted, Whole, WriteCount
  <2>4. FailureInv'
    BY <1>1 DEF ReadJob, FailureInv, StatusInv, ArtefactInv, Unstarted, Begun, TypeOK, Owned,
       RowFiled, RowAt
  <2>5. StudentInv'
    BY <1>1 DEF ReadJob, StatusInv, StudentInv, TypeOK, Owned
  <2> QED BY <2>1, <2>2, <2>3, <2>4, <2>5
<1>2. CASE MarkRunning(j)
  <2>1. TypeOK'
    <3>1. \A i \in Jobs : landed'[i] <= WriteCount(i)'
      BY <1>2 DEF MarkRunning, TypeOK, ArtefactInv, Unstarted, WriteCount
    <3> QED BY <1>2, <3>1 DEF MarkRunning, TypeOK, TaskState, JobStatus
  <2>2. StatusInv'
    BY <1>2 DEF MarkRunning, StatusInv, TypeOK, Begun, Settled, TaskState
  <2>3. ArtefactInv'
    BY <1>2 DEF MarkRunning, ArtefactInv, TypeOK, Unstarted, Whole, WriteCount
  <2>4. FailureInv'
    BY <1>2 DEF MarkRunning, FailureInv, StatusInv, ArtefactInv, Unstarted, Begun, TypeOK, Owned,
       RowFiled, RowAt
  <2>5. StudentInv'
    BY <1>2 DEF MarkRunning, StatusInv, StudentInv, TypeOK, Owned
  <2> QED BY <2>1, <2>2, <2>3, <2>4, <2>5
<1>3. CASE Load(j)
  <2>1. TypeOK'
    <3>1. \A i \in Jobs : landed'[i] <= WriteCount(i)'
      BY <1>3 DEF Load, TypeOK, ArtefactInv, Unstarted, WriteCount
    <3> QED BY <1>3, <3>1 DEF Load, TypeOK, TaskState, JobStatus
  <2>2. StatusInv'
    BY <1>3 DEF Load, StatusInv, TypeOK, Begun, Settled, TaskState
  <2>3. ArtefactInv'
    BY <1>3 DEF Load, ArtefactInv, TypeOK, Unstarted, Whole, WriteCount
  <2>4. FailureInv'
    BY <1>3 DEF Load, FailureInv, StatusInv, ArtefactInv, Unstarted, Begun, TypeOK, Owned,
       RowFiled, RowAt
  <2>5. StudentInv'
    BY <1>3 DEF Load, StatusInv, StudentInv, TypeOK, Owned
  <2> QED BY <2>1, <2>2, <2>3, <2>4, <2>5
<1>4. CASE Generate(j)
  <2>1. TypeOK'
    <3>1. \A i \in Jobs : landed'[i] <= WriteCount(i)'
      BY <1>4 DEF Generate, TypeOK, ArtefactInv, Unstarted, WriteCount
    <3> QED BY <1>4, <3>1 DEF Generate, TypeOK, TaskState, JobStatus
  <2>2. StatusInv'
    BY <1>4 DEF Generate, StatusInv, TypeOK, Begun, Settled, TaskState
  <2>3. ArtefactInv'
    BY <1>4 DEF Generate, ArtefactInv, TypeOK, Unstarted, Whole, WriteCount
  <2>4. FailureInv'
    BY <1>4 DEF Generate, FailureInv, StatusInv, ArtefactInv, Unstarted, Begun, TypeOK, Owned,
       RowFiled, RowAt
  <2>5. StudentInv'
    BY <1>4 DEF Generate, StatusInv, StudentInv, TypeOK, Owned
  <2> QED BY <2>1, <2>2, <2>3, <2>4, <2>5
<1>5. CASE WriteArtefact(j)
  <2>0. landed[j] + 1 \in Nat /\ landed[j] + 1 <= WriteCount(j)
    BY <1>5 DEF WriteArtefact, ArtefactInv, TypeOK, WriteCount
  <2>1. TypeOK'
    <3>1. landed' \in [Jobs -> Nat] /\ task' \in [Jobs -> TaskState] /\ faults' \in 0..MaxFaults
      BY <1>5, <2>0 DEF WriteArtefact, AfterWrite, TypeOK, TaskState
    <3>2. \A i \in Jobs : landed'[i] <= WriteCount(i)'
      BY <1>5, <2>0 DEF WriteArtefact, TypeOK, WriteCount
    <3> QED BY <1>5, <3>1, <3>2 DEF WriteArtefact, TypeOK
  <2>2. StatusInv'
    BY <1>5 DEF WriteArtefact, CanLand, AfterWrite, StatusInv, TypeOK, Begun, Settled, TaskState
  <2>3. ArtefactInv'
    <3> SUFFICES ASSUME NEW i \in Jobs PROVE ArtefactInv!(i)'
      BY DEF ArtefactInv
    <3>1. CASE i = j
      BY <1>5, <2>0, <3>1 DEF WriteArtefact, AfterWrite, ArtefactInv, TypeOK, Unstarted, Whole, WriteCount
    <3>2. CASE i # j
      BY <1>5, <3>2 DEF WriteArtefact, ArtefactInv, TypeOK, Whole, WriteCount
    <3> QED BY <3>1, <3>2
  <2>4. FailureInv'
    BY <1>5 DEF WriteArtefact, CanLand, AfterWrite, FailureInv, StatusInv, ArtefactInv, Unstarted, Begun, TypeOK, Owned,
       RowFiled, RowAt
  <2>5. StudentInv'
    BY <1>5 DEF WriteArtefact, StatusInv, StudentInv, TypeOK, Owned
  <2> QED BY <2>1, <2>2, <2>3, <2>4, <2>5
<1>6. CASE Succeed(j)
  <2>1. TypeOK'
    <3>1. \A i \in Jobs : landed'[i] <= WriteCount(i)'
      BY <1>6 DEF Succeed, TypeOK, ArtefactInv, Unstarted, WriteCount
    <3>2. status' \in [Jobs -> JobStatus \cup {"absent"}] /\ task' \in [Jobs -> TaskState]
      BY <1>6 DEF Succeed, TypeOK, JobStatus, TaskState
    <3>3. output' \in [Jobs -> BOOLEAN]
      BY <1>6 DEF Succeed, TypeOK
    <3>4. faults' \in 0..MaxFaults
      BY <1>6 DEF Succeed, TypeOK
    <3> QED BY <1>6, <3>1, <3>2, <3>3, <3>4 DEF Succeed, TypeOK
  <2>2. StatusInv'
    BY <1>6 DEF Succeed, StatusInv, TypeOK, Begun, Settled, TaskState
  <2>3. ArtefactInv'
    BY <1>6 DEF Succeed, ArtefactInv, TypeOK, Unstarted, Whole, WriteCount
  <2>4. FailureInv'
    BY <1>6 DEF Succeed, FailureInv, StatusInv, ArtefactInv, Unstarted, Begun, TypeOK, Owned,
       RowFiled, RowAt
  <2>5. StudentInv'
    BY <1>6 DEF Succeed, StatusInv, StudentInv, TypeOK, Owned
  <2> QED BY <2>1, <2>2, <2>3, <2>4, <2>5
<1>7. CASE RecordFailure(j)
  <2>1. TypeOK'
    <3>1. \A i \in Jobs : landed'[i] <= WriteCount(i)'
      BY <1>7 DEF RecordFailure, TypeOK, ArtefactInv, Unstarted, WriteCount
    <3> QED BY <1>7, <3>1 DEF RecordFailure, TypeOK, TaskState, JobStatus
  <2>2. StatusInv'
    BY <1>7 DEF RecordFailure, StatusInv, TypeOK, Begun, Settled, TaskState
  <2>3. ArtefactInv'
    BY <1>7 DEF RecordFailure, ArtefactInv, TypeOK, Unstarted, Whole, WriteCount
  <2>4. FailureInv'
    BY <1>7 DEF RecordFailure, FailureInv, StatusInv, ArtefactInv, Unstarted, Begun, TypeOK, Owned,
       RowFiled, RowAt
  <2>5. StudentInv'
    BY <1>7 DEF RecordFailure, StatusInv, StudentInv, TypeOK, Owned
  <2> QED BY <2>1, <2>2, <2>3, <2>4, <2>5
<1> QED BY <1>1, <1>2, <1>3, <1>4, <1>5, <1>6, <1>7 DEF RunJob

(***************************************************************************)
(* Filing a row, by a request or by a retry.                               *)
(***************************************************************************)
LEMMA StartJobPreserves ==
    ASSUME NEW j \in Jobs, NEW k \in JobKind, NEW s \in students \cup {None},
           NEW p \in Processes, NEW root \in Students \cup {None},
           IInv, StartJob(j, k, s, p, root),
           k # "paper_extract" /\ root \in students => s = root
    PROVE  IInv'
<1> USE JobsAssumption DEF IInv, StartJob, Fault, artefactVars, deletionVars
<1>1. TypeOK'
  <2>1. \A i \in Jobs : landed'[i] <= WriteCount(i)'
    BY DEF TypeOK, StatusInv, ArtefactInv, Unstarted, WriteCount, JobKind
  <2> QED BY <2>1 DEF TypeOK, TaskState, JobStatus
<1>2. StatusInv'
  BY DEF StatusInv, TypeOK, Begun, Settled, TaskState
<1>3. ArtefactInv'
  BY DEF StatusInv, ArtefactInv, TypeOK, Unstarted, Whole, WriteCount
<1>4. FailureInv'
  BY DEF FailureInv, StatusInv, TypeOK, Owned, RowFiled, RowAt
<1>5. StudentInv'
  BY DEF StudentInv, TypeOK, Owned
<1> QED BY <1>1, <1>2, <1>3, <1>4, <1>5

LEMMA FilePreserves ==
    ASSUME IInv, NEW j \in Jobs, NEW p \in Processes,
           \/ \E k \in Kinds, s \in students \cup {None} : CreateJob(j, k, s, p)
           \/ \E old \in Jobs : RetryJob(old, j, p)
    PROVE  IInv'
<1>1. CASE \E k \in Kinds, s \in students \cup {None} : CreateJob(j, k, s, p)
  <2>1. PICK k \in Kinds, s \in students \cup {None} : CreateJob(j, k, s, p)
    BY <1>1
  <2> QED BY <2>1, StartJobPreserves, JobsAssumption DEF CreateJob, IInv, TypeOK
<1>2. CASE \E old \in Jobs : RetryJob(old, j, p)
  <2>1. PICK old \in Jobs : RetryJob(old, j, p)
    BY <1>2
  <2>2. Replayable(old) \in students \cup {None}
    BY <2>1 DEF RetryJob, StartJob
  <2>3. kind[old] # "paper_extract" /\ askedFor[old] \in students => Replayable(old) = askedFor[old]
    BY <2>1, JobsAssumption DEF RetryJob, Replayable, IInv, StudentInv, Owned, TypeOK
  <2> QED BY <2>1, <2>2, <2>3, StartJobPreserves DEF RetryJob, IInv, TypeOK
<1> QED BY <1>1, <1>2

(***************************************************************************)
(* Deleting a student.                                                     *)
(***************************************************************************)
LEMMA DeleteStudentPreserves ==
    ASSUME NEW s \in Students, IInv, DeleteStudent(s)
    PROVE  IInv'
<1> USE JobsAssumption DEF IInv, rowVars, taskVars, artefactVars, Fault
<1>1. CASE ListJobs(s)
  BY <1>1 DEF ListJobs, TypeOK, StatusInv, ArtefactInv, FailureInv, StudentInv, Owned,
     RowFiled, RowAt, Whole, WriteCount
<1>2. CASE \E j \in Jobs : NameJob(s, j)
  <2>1. PICK j \in Jobs : NameJob(s, j)
    BY <1>2
  <2>2. TypeOK' /\ StudentInv'
    BY <2>1 DEF NameJob, TypeOK, StudentInv, Owned, WriteCount
  <2>3. StatusInv' /\ ArtefactInv' /\ FailureInv'
    BY <2>1 DEF NameJob, StatusInv, ArtefactInv, FailureInv, Owned, RowFiled, RowAt, Whole,
       WriteCount
  <2> QED BY <2>2, <2>3
<1>3. CASE DeleteRow(s)
  <2>1. TypeOK'
    BY <1>3 DEF DeleteRow, TypeOK, WriteCount
  <2>2. StatusInv' /\ ArtefactInv'
    BY <1>3 DEF DeleteRow, StatusInv, ArtefactInv, Whole, WriteCount
  <2>3. FailureInv'
    BY <1>3 DEF DeleteRow, FailureInv, TypeOK, Owned, RowFiled, RowAt
  <2>4. StudentInv'
    BY <1>3 DEF DeleteRow, StudentInv, TypeOK, Owned
  <2> QED BY <2>1, <2>2, <2>3, <2>4
<1>4. CASE AbortDelete(s)
  <2>1. TypeOK'
    BY <1>4 DEF AbortDelete, TypeOK, WriteCount
  <2>2. StatusInv' /\ FailureInv' /\ faults' > 0
    BY <1>4 DEF AbortDelete, TypeOK, StatusInv, FailureInv
  <2>3. ArtefactInv' /\ StudentInv'
    BY <1>4 DEF AbortDelete, ArtefactInv, StudentInv, Owned, Whole, WriteCount
  <2> QED BY <2>1, <2>2, <2>3
<1> QED BY <1>1, <1>2, <1>3, <1>4 DEF DeleteStudent

LEMMA CrashPreserves == ASSUME NEW p \in Processes, IInv, Crash(p) PROVE IInv'
<1> USE JobsAssumption DEF IInv, Crash, rowVars, artefactVars, deletionVars, Fault
<1>1. TypeOK' /\ faults' > 0
  BY DEF TypeOK, WriteCount, TaskState
<1>2. StatusInv' /\ FailureInv'
  BY <1>1 DEF TypeOK, StatusInv, FailureInv, Active, TaskState, Begun, Settled
<1>3. ArtefactInv' /\ StudentInv'
  BY DEF TypeOK, ArtefactInv, StudentInv, Active, TaskState, Unstarted, Owned, Whole, WriteCount
<1> QED BY <1>1, <1>2, <1>3

LEMMA SetStatusPreserves ==
    ASSUME NEW j \in Jobs, NEW v \in Verdicts, IInv, SetStatus(j, v)
    PROVE  IInv'
<1> USE JobsAssumption DEF IInv, SetStatus, taskVars, artefactVars, deletionVars
<1>1. TypeOK'
  BY DEF TypeOK, WriteCount
<1>2. StatusInv'
  BY DEF TypeOK, StatusInv, JobStatus, Settled
<1>3. ArtefactInv' /\ StudentInv'
  BY DEF TypeOK, ArtefactInv, StudentInv, Owned, Whole, WriteCount
<1>4. FailureInv'
  BY DEF TypeOK, FailureInv, Owned, RowFiled, RowAt
<1> QED BY <1>1, <1>2, <1>3, <1>4

LEMMA NextPreserves == IInv /\ [Next]_vars => IInv'
<1> SUFFICES ASSUME IInv, [Next]_vars PROVE IInv'
  OBVIOUS
<1>1. CASE Next
  BY <1>1, FilePreserves, RunJobPreserves, CrashPreserves, SetStatusPreserves,
     DeleteStudentPreserves DEF Next
<1>2. CASE UNCHANGED vars
  BY <1>2 DEF vars, rowVars, taskVars, artefactVars, deletionVars, IInv, TypeOK, StatusInv,
     ArtefactInv, FailureInv, StudentInv, Owned, RowFiled, RowAt, Whole, WriteCount
<1> QED BY <1>1, <1>2

LEMMA Invariance == Spec => []IInv
BY InitEstablishes, NextPreserves, PTL DEF Spec

(***************************************************************************)
(* The results.                                                            *)
(***************************************************************************)

\* The columns of a row, its task and its artefact keep their types, and no
\* write is made past the last one of the row's kind.
THEOREM TypeCorrect == Spec => []TypeOK
<1>1. IInv => TypeOK
  BY DEF IInv
<1> QED BY <1>1, Invariance, PTL

\* A row that names its output names a complete one, whatever was refused,
\* lost, crashed, deleted or written by hand on the way.
THEOREM OutputsAreWhole == Spec => []OutputIsWhole
<1>1. IInv => OutputIsWhole
  BY DEF IInv, ArtefactInv, OutputIsWhole
<1> QED BY <1>1, Invariance, PTL

\* Until a request is lost or a process dies, a row that reads queued or running
\* is being worked on.
THEOREM UnsettledIsWorkedOn == Spec => []UnsettledHasATask
<1>1. IInv => UnsettledHasATask
  BY DEF IInv, TypeOK, StatusInv, UnsettledHasATask, Active, TaskState, Settled
<1> QED BY <1>1, Invariance, PTL

\* Until a request is lost or a process dies, a failure leaves nothing a second
\* run would duplicate.
THEOREM FailuresFileNothing == Spec => []FailureFilesNothing
<1>1. IInv => FailureFilesNothing
  BY DEF IInv, FailureInv, FailureFilesNothing
<1> QED BY <1>1, Invariance, PTL

\* A job of a student who is still on file can be run again for that student,
\* whatever deletions were started and given up.
THEOREM RetriesKeepTheStudent == Spec => []RetryKeepsTheStudent
<1>1. IInv => RetryKeepsTheStudent
  BY JobsAssumption DEF IInv, TypeOK, StudentInv, RetryKeepsTheStudent, Replayable, Owned
<1> QED BY <1>1, Invariance, PTL

\* run_job settles a row once, and nothing but a verdict unsettles it.
THEOREM OutcomesAreFinal == Spec => OutcomeIsFinal
<1> DEFINE Final == \A j \in Jobs : status[j] \in Settled /\ ~verdict'[j] => status'[j] = status[j]
<1>1. IInv /\ [Next]_vars => [Final]_vars
  <2> SUFFICES ASSUME IInv, Next, NEW i \in Jobs, status[i] \in Settled, ~verdict'[i]
               PROVE  status'[i] = status[i]
    BY DEF vars
  <2> USE DEF IInv, TypeOK, Settled, rowVars, taskVars, artefactVars, deletionVars
  <2>1. verdict[i] => verdict'[i]
    BY DEF Next, CreateJob, RetryJob, StartJob, RunJob, ReadJob, MarkRunning, Load, Generate,
       WriteArtefact, Succeed, RecordFailure, Crash, SetStatus, DeleteStudent, ListJobs,
       NameJob, DeleteRow, AbortDelete
  <2>2. task[i] = "over"
    BY <2>1 DEF StatusInv
  <2>3. CASE \E j \in Jobs : RunJob(j)
    BY <2>2, <2>3 DEF RunJob, ReadJob, MarkRunning, Load, Generate, WriteArtefact, Succeed,
       RecordFailure
  <2>4. CASE ~ \E j \in Jobs : RunJob(j)
    BY <2>4 DEF Next, CreateJob, RetryJob, StartJob, Crash, SetStatus, DeleteStudent, ListJobs,
       NameJob, DeleteRow, AbortDelete
  <2> QED BY <2>3, <2>4
<1> QED BY <1>1, Invariance, PTL DEF Spec, OutcomeIsFinal

(***************************************************************************)
(* Every step of a job is a step of its contract, or one the contract's    *)
(* watcher does not see.                                                   *)
(***************************************************************************)
Product(j) == IF landed[j] = 0 THEN "none" ELSE IF Whole(j) THEN "whole" ELSE "partial"
Products == [j \in Jobs |-> Product(j)]

LEMMA MeetsInit == Init => Contract!CInit
BY DEF Init, Contract!CInit, WriteCount, Whole

\* What a step that leaves the artefact alone shows of it.
LEMMA ProductsKept ==
    ASSUME IInv, IInv', landed' = landed,
           \A j \in Jobs : landed[j] # 0
              => kind'[j] = kind[j] /\ questions'[j] = questions[j] /\ pdf'[j] = pdf[j]
    PROVE  Products' = Products
BY DEF IInv, TypeOK, Products, Product, Whole, WriteCount

LEMMA RunJobMeets ==
    ASSUME NEW j \in Jobs, IInv, IInv', RunJob(j)
    PROVE  Contract!CNext \/ UNCHANGED Contract!cvars
<1> USE DEF IInv, TypeOK, GoTo, Fault, OnException, rowVars, taskVars, artefactVars,
        deletionVars, Contract!CNext, Contract!cvars
<1> DEFINE Q == Products
<1>1. CASE ReadJob(j) \/ Load(j)
  <2>1. Q' = Q
    BY <1>1, ProductsKept DEF ReadJob, Load
  <2> QED BY <1>1, <2>1 DEF ReadJob, Load, Products, Product
<1>2. CASE MarkRunning(j)
  <2>1. Q' = Q
    BY <1>2, ProductsKept DEF MarkRunning
  <2>2. status[j] = "queued" \/ verdict[j]
    BY <1>2 DEF MarkRunning, StatusInv
  <2>3. status' = status \/ Contract!Begin(j)
    BY <1>2, <2>1, <2>2 DEF MarkRunning, Contract!Begin, Products, Product
  <2> QED BY <1>2, <2>1, <2>3 DEF MarkRunning, Products, Product
<1>3. CASE Generate(j)
  <2>1. Q' = Q
    BY <1>3, ProductsKept DEF Generate, ArtefactInv, Unstarted
  <2> QED BY <1>3, <2>1 DEF Generate, Products, Product
<1>4. CASE WriteArtefact(j)
  <2>1. status[j] = "running" \/ verdict[j]
    BY <1>4 DEF WriteArtefact, StatusInv, Begun
  <2>2. CASE landed' = landed
    <3>1. Q' = Q
      BY <1>4, <2>2, ProductsKept DEF WriteArtefact
    <3> QED BY <1>4, <3>1 DEF WriteArtefact, Products, Product
  <2>3. CASE landed' # landed
    <3>1. landed' = [landed EXCEPT ![j] = @ + 1] /\ landed[j] < WriteCount(j)
      BY <1>4, <2>3 DEF WriteArtefact, ArtefactInv
    <3>2. Product(j) # "whole" /\ Product(j)' \in {"partial", "whole"}
      BY <1>4, <3>1 DEF WriteArtefact, Product, Whole, WriteCount
    <3>3. \A i \in Jobs : i # j => Product(i)' = Product(i)
      BY <1>4, <3>1 DEF WriteArtefact, Product, Whole, WriteCount
    <3>5. Products' = [Products EXCEPT ![j] = Product(j)']
      BY <3>3 DEF Products
    <3>4. Contract!Produce(j)
      BY <1>4, <2>1, <3>2, <3>5 DEF WriteArtefact, Contract!Produce, Products, Product
    <3> QED BY <3>4
  <2> QED BY <2>2, <2>3
<1>5. CASE Succeed(j)
  <2>1. Q' = Q
    BY <1>5, ProductsKept DEF Succeed
  <2>2. (status[j] = "running" \/ verdict[j]) /\ Product(j) = "whole"
    BY <1>5 DEF Succeed, StatusInv, ArtefactInv, Begun, Product, Whole, WriteCount
  <2>3. Contract!Deliver(j) \/ (UNCHANGED <<status, output>>)
    BY <1>5, <2>1, <2>2 DEF Succeed, Contract!Deliver, Products, Product
  <2> QED BY <1>5, <2>1, <2>3 DEF Succeed, Products, Product
<1>6. CASE RecordFailure(j)
  <2>1. Q' = Q
    BY <1>6, ProductsKept DEF RecordFailure
  <2>2. (status[j] = "running" \/ verdict[j]) /\ ~output[j]
    BY <1>6 DEF RecordFailure, StatusInv, ArtefactInv, Begun
  <2>3. status' = status \/ Contract!GiveUp(j)
    BY <1>6, <2>1, <2>2 DEF RecordFailure, Contract!GiveUp, Products, Product
  <2> QED BY <1>6, <2>1, <2>3 DEF RecordFailure, Products, Product
<1> QED BY <1>1, <1>2, <1>3, <1>4, <1>5, <1>6 DEF RunJob

LEMMA OthersMeet ==
    ASSUME IInv, IInv', Next, ~ \E j \in Jobs : RunJob(j)
    PROVE  Contract!CNext \/ UNCHANGED Contract!cvars
<1> USE DEF IInv, TypeOK, Fault, rowVars, taskVars, artefactVars, deletionVars,
        Contract!CNext, Contract!cvars
<1>1. CASE \E j \in Jobs, k \in JobKind, s \in students \cup {None}, p \in Processes,
              root \in Students \cup {None} : StartJob(j, k, s, p, root)
  <2>1. PICK j \in Jobs, k \in JobKind, s \in students \cup {None}, p \in Processes,
             root \in Students \cup {None} : StartJob(j, k, s, p, root)
    BY <1>1
  <2>2. Products' = Products
    BY <2>1, ProductsKept DEF StartJob, StatusInv, ArtefactInv, Unstarted
  <2>3. Contract!Queue(j)
    BY <2>1, <2>2 DEF StartJob, Contract!Queue, Products, Product
  <2> QED BY <2>3
<1>2. CASE \E j \in Jobs, v \in Verdicts : SetStatus(j, v)
  <2>1. PICK j \in Jobs, v \in Verdicts : SetStatus(j, v)
    BY <1>2
  <2>2. Products' = Products
    BY <2>1, ProductsKept DEF SetStatus
  <2>3. Contract!Judge(j)
    BY <2>1, <2>2 DEF SetStatus, Contract!Judge, Products, Product
  <2> QED BY <2>3
<1>3. CASE \/ \E p \in Processes : Crash(p)
           \/ \E s \in Students : DeleteStudent(s)
  <2>1. UNCHANGED <<status, output, verdict, landed, kind, questions, pdf>>
    BY <1>3 DEF Crash, DeleteStudent, ListJobs, NameJob, DeleteRow, AbortDelete
  <2>2. Products' = Products
    BY <2>1, ProductsKept
  <2> QED BY <2>1, <2>2 DEF Products, Product
<1>4. CASE \E j \in Jobs, k \in Kinds, s \in students \cup {None}, p \in Processes :
              CreateJob(j, k, s, p)
  BY <1>1, <1>4, JobsAssumption DEF CreateJob
<1>5. CASE \E old, j \in Jobs, p \in Processes : RetryJob(old, j, p)
  <2>1. PICK old \in Jobs, j \in Jobs, p \in Processes : RetryJob(old, j, p)
    BY <1>5
  <2>2. StartJob(j, kind[old], Replayable(old), p, askedFor[old])
        /\ Replayable(old) \in students \cup {None}
    BY <2>1 DEF RetryJob, StartJob
  <2>3. kind[old] \in JobKind /\ askedFor[old] \in Students \cup {None}
    OBVIOUS
  <2> QED BY <1>1, <2>2, <2>3
<1> QED BY <1>2, <1>3, <1>4, <1>5 DEF Next

\* A generation_jobs row keeps its contract: queued, running, settled for good,
\* succeeded only with the whole artefact behind it, moved otherwise by a verdict
\* alone.
THEOREM KeepsContract == Spec => KeepsTheContract
<1>1. IInv /\ IInv' /\ [Next]_vars => [Contract!CNext]_(Contract!cvars)
  <2>1. CASE Next
    BY <2>1, RunJobMeets, OthersMeet
  <2>2. CASE UNCHANGED vars
    BY <2>2 DEF vars, rowVars, taskVars, artefactVars, Contract!cvars, Whole, WriteCount
  <2> QED BY <2>1, <2>2
<1> QED BY <1>1, MeetsInit, Invariance, PTL DEF Spec, KeepsTheContract, Contract!CSpec

===============================================================================
