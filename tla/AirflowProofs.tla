----------------------------- MODULE AirflowProofs -----------------------------
(***************************************************************************)
(* Theorems about the DAG runs, for every plan of runs of the files' DAGs. *)
(***************************************************************************)
EXTENDS AirflowTasks, FiniteSetTheorems, TLAPS

-----------------------------------------------------------------------------
(* The pairs that name task instances.                                     *)
LEMMA InstancePairs ==
  ASSUME NEW i \in Instances
  PROVE  /\ i = <<i[1], i[2]>>
         /\ i[1] \in DOMAIN plan
         /\ i[2] \in plan[i[1]].tasks
  BY DEF Instances

LEMMA PairsAreInstances ==
  ASSUME NEW r \in DOMAIN plan, NEW t \in plan[r].tasks
  PROVE  <<r, t>> \in Instances
  BY DEF Instances

(* The runs and their tasks never change.                                  *)
LEMMA PlanConstant ==
  ASSUME [Next]_vars
  PROVE  plan' = plan /\ Instances' = Instances
<1>1. plan' = plan
  BY DEF Next, Step, Done, Lost, Refused, Error, TimeOut, WriteOff, PutFile,
         Succeed, Fail, FailForGood, Retry, UpstreamFails, vars, schedule
<1>2. QED
  BY <1>1 DEF Instances

-----------------------------------------------------------------------------
(* The schedule's part of the type invariant.                              *)
ScheduleOK ==
  /\ plan \in Plans
  /\ state \in [Instances -> States]
  /\ tries \in [Instances -> 0..MaxRetries]

LEMMA PlannedDags ==
  ASSUME plan \in Plans, NEW r \in DOMAIN plan
  PROVE  plan[r] \in Dags
  BY PlansAssumption

LEMMA RetriesOfDags ==
  ASSUME NEW d \in Dags
  PROVE  d.retries \in Nat
  BY DEF Dags, DummyDags, Umbrella, Dag1, Dag2, Dag3, Dag4, Examen, Processing,
         UvtExample, Dag

LEMMA RetriesBounded ==
  ASSUME plan \in Plans, NEW i \in Instances
  PROVE  Retries(i) \in Nat /\ Retries(i) <= MaxRetries
<1>1. plan[i[1]].retries \in Nat
  BY InstancePairs, PlannedDags, RetriesOfDags
<1>2. QED
  BY <1>1, PlansAssumption DEF Retries

LEMMA ScheduleStep ==
  ASSUME ScheduleOK, [Next]_vars
  PROVE  ScheduleOK'
<1>1. plan' = plan /\ Instances' = Instances
  BY PlanConstant
<1>2. CASE Step
  <2>1. PICK i \in Instances :
          Succeed(i) \/ FailForGood(i) \/ Retry(i) \/ UpstreamFails(i)
    BY <1>2 DEF Step, Done, Lost, Refused, Error, TimeOut, WriteOff, Fail
  <2>2. CASE Succeed(i) \/ FailForGood(i) \/ UpstreamFails(i)
    BY <1>1, <2>1, <2>2
       DEF ScheduleOK, Succeed, FailForGood, UpstreamFails, States
  <2>3. CASE Retry(i)
    <3>1. Retries(i) \in Nat /\ Retries(i) <= MaxRetries
      BY RetriesBounded DEF ScheduleOK
    <3>2. tries[i] + 1 \in 0..MaxRetries
      BY <2>3, <3>1, PlansAssumption DEF Retry, ScheduleOK
    <3>3. QED
      BY <1>1, <2>3, <3>2 DEF ScheduleOK, Retry
  <2>4. QED
    BY <2>1, <2>2, <2>3
<1>3. CASE PutFile \/ UNCHANGED vars
  BY <1>1, <1>3 DEF PutFile, vars, schedule, ScheduleOK
<1>4. QED
  BY <1>2, <1>3 DEF Next
-----------------------------------------------------------------------------
(* An arrow joins two tasks of its DAG.                                    *)
LEMMA EdgesJoinTasks ==
  ASSUME NEW d \in Dags, NEW e \in d.edges
  PROVE  e[1] \in d.tasks /\ e[2] \in d.tasks
<1>1. ASSUME NEW E, NEW n, d = Dag(E, n)
      PROVE  e[1] \in d.tasks /\ e[2] \in d.tasks
  BY <1>1 DEF Dag
<1>2. d \in {Umbrella, Dag1, Dag2, Dag3, Dag4, Examen, Processing, UvtExample}
  BY DEF Dags, DummyDags
<1>3. CASE d = Umbrella
  BY <1>1, <1>3 DEF Umbrella
<1>4. CASE d \in {Dag1, Dag2, Dag3}
  BY <1>1, <1>4 DEF Dag1, Dag2, Dag3
<1>5. CASE d = Dag4
  BY <1>1, <1>5 DEF Dag4
<1>6. CASE d = Examen
  BY <1>1, <1>6 DEF Examen
<1>7. CASE d = Processing
  BY <1>1, <1>7 DEF Processing
<1>8. CASE d = UvtExample
  BY <1>1, <1>8 DEF UvtExample
<1>9. QED
  BY <1>2, <1>3, <1>4, <1>5, <1>6, <1>7, <1>8

LEMMA UpstreamInstances ==
  ASSUME plan \in Plans, NEW i \in Instances, NEW u \in Upstream(i)
  PROVE  u \in Instances
<1>1. PICK e \in plan[i[1]].edges : u = <<i[1], e[1]>>
  BY DEF Upstream
<1>2. i[1] \in DOMAIN plan /\ e[1] \in plan[i[1]].tasks
  BY InstancePairs, PlannedDags, EdgesJoinTasks
<1>3. QED
  BY <1>1, <1>2, PairsAreInstances

-----------------------------------------------------------------------------
(* What a step does to the schedule.                                       *)
LEMMA StepKinds ==
  ASSUME [Next]_vars
  PROVE  \/ \E i \in Instances : Succeed(i) /\ Effect(i)
         \/ \E i \in Instances : FailForGood(i) \/ UpstreamFails(i)
         \/ UNCHANGED <<plan, state>>
  BY DEF Next, Step, Done, Lost, Refused, Error, TimeOut, WriteOff, Fail, Retry,
         PutFile, vars, schedule

LEMMA InitScheduleOK ==
  ASSUME Init
  PROVE  ScheduleOK
  BY PlansAssumption DEF Init, ScheduleInit, ScheduleOK, States

LEMMA ScheduleAlwaysOK == Spec => []ScheduleOK
<1>1. Init => ScheduleOK
  BY InitScheduleOK
<1>2. ScheduleOK /\ [Next]_vars => ScheduleOK'
  BY ScheduleStep
<1>3. QED
  BY <1>1, <1>2, PTL DEF Spec

-----------------------------------------------------------------------------
(* An attempt that fails half-way has done all that the other tasks can    *)
(* see, or nothing, or it is a clean-up that has removed the report only.  *)
LEMMA HalfDone ==
  ASSUME NEW i \in Instances, Error(i)
  PROVE  /\ Ready(i) /\ Fail(i)
         /\ \/ Effect(i)
            \/ /\ UNCHANGED <<env, mailed, my_file>>
               /\ report' = report \/ (i[2] = "cleanup" /\ report' = NoRun)
               /\ xcom' = xcom \/ (i[2] = "process_data_task" /\ xcom' = xcom \ {i[1]})
<1>1. Ready(i) /\ Fail(i)
  BY DEF Error, Fail, Retry, FailForGood
<1>2. xcom' = xcom \/ (i[2] = "process_data_task" /\ xcom' = xcom \ {i[1]})
  BY DEF Error
<1>3. CASE i[2] = "setup_environment" /\ env' = TRUE /\ report' = report
  BY <1>1, <1>3 DEF Error, Effect, SetupEnvironment
<1>4. CASE i[2] = "generate_report" /\ report' = i[1] /\ env' = env
  BY <1>1, <1>4 DEF Error, Effect, GenerateReport
<1>5. CASE \/ UNCHANGED <<env, report>>
           \/ i[2] = "cleanup" /\ report' = NoRun /\ env' = env
  BY <1>1, <1>2, <1>5 DEF Error
<1>6. QED
  BY <1>3, <1>4, <1>5 DEF Error

(* The type invariant of the schedule and of the files.                    *)
THEOREM TypeCorrect == Spec => []TypeOK
<1>1. Init => TypeOK
  <2> SUFFICES ASSUME Init PROVE TypeOK
    OBVIOUS
  <2>1. ScheduleOK
    BY InitScheduleOK
  <2>2. env \in BOOLEAN /\ my_file \in BOOLEAN
    BY DEF Init
  <2>3. QED
    BY <2>1, <2>2, BoundsAssumption DEF Init, TypeOK, ScheduleOK
<1>2. TypeOK /\ [Next]_vars => TypeOK'
  <2> SUFFICES ASSUME TypeOK, [Next]_vars PROVE TypeOK'
    OBVIOUS
  <2>1. plan' = plan /\ Instances' = Instances
    BY PlanConstant
  <2>2. ScheduleOK'
    BY ScheduleStep DEF TypeOK, ScheduleOK
  <2>3. ASSUME NEW i \in Instances, Effect(i)
        PROVE  /\ env' \in BOOLEAN /\ my_file' \in BOOLEAN
               /\ report' \in DOMAIN plan \cup {NoRun}
               /\ mailed' \in SUBSET {<<r, q>> : r \in DOMAIN plan, q \in DOMAIN plan}
               /\ xcom' \in SUBSET DOMAIN plan
    <3>1. i[1] \in DOMAIN plan
      BY InstancePairs
    <3>2. env' \in BOOLEAN /\ my_file' \in BOOLEAN
      <4>1. /\ env' = env \/ env' = TRUE \/ env' = FALSE
            /\ my_file' = my_file \/ my_file' = FALSE
        BY <2>3 DEF Effect, SetupEnvironment, ProcessData, ValidateResults,
           GenerateReport, SendReport, BackupData, Cleanup, WaitForFile,
           RunBashCommand, files
      <4>2. env \in BOOLEAN /\ my_file \in BOOLEAN
        BY DEF TypeOK
      <4>3. QED
        BY <4>1, <4>2, Zenon
    <3>3. /\ report' \in DOMAIN plan \cup {NoRun}
          /\ mailed' \in SUBSET {<<r, q>> : r \in DOMAIN plan, q \in DOMAIN plan}
          /\ xcom' \in SUBSET DOMAIN plan
      BY <2>3, <3>1 DEF TypeOK, Effect, SetupEnvironment, ProcessData,
         ValidateResults, GenerateReport, SendReport, BackupData, Cleanup,
         WaitForFile, RunBashCommand, files
    <3>4. QED
      BY <3>2, <3>3
  <2>4. CASE Step
    <3>1. PICK i \in Instances :
            \/ Effect(i)
            \/ UNCHANGED files
            \/ /\ UNCHANGED <<env, mailed, my_file>>
               /\ report' \in {report, NoRun} /\ xcom' \in SUBSET xcom
      BY <2>4, HalfDone DEF Step, Done, Lost, Refused, TimeOut, WriteOff
    <3>2. arrivals' = arrivals /\ faults' \in {faults} \cup 0..MaxFaults
      BY <2>4, BoundsAssumption DEF Step, Done, Lost, Refused, Error, TimeOut,
         WriteOff, Fault, outside, TypeOK
    <3>3. QED
      BY <2>1, <2>2, <2>3, <3>1, <3>2 DEF TypeOK, ScheduleOK, files
  <2>5. CASE PutFile
    BY <2>1, <2>2, <2>5, BoundsAssumption DEF PutFile, TypeOK, ScheduleOK
  <2>6. CASE UNCHANGED vars
    BY <2>1, <2>2, <2>6 DEF vars, files, outside, schedule, TypeOK, ScheduleOK
  <2>7. QED
    BY <2>4, <2>5, <2>6 DEF Next
<1>3. QED
  BY <1>1, <1>2, PTL DEF Spec

-----------------------------------------------------------------------------
(* Each success has used up a file of its own.                             *)
Removals == {i \in Instances : i[2] = "run_bash_command" /\ state[i] = "success"}

Present == IF my_file THEN 1 ELSE 0

FileInv ==
  /\ IsFiniteSet(Removals)
  /\ arrivals \in Nat
  /\ Cardinality(Removals) + Present <= arrivals

(* Two runs never take one file for two.                                   *)
THEOREM FilesAreOwn == Spec => []OwnFile
<1>1. Init => FileInv
  <2> SUFFICES ASSUME Init PROVE FileInv
    OBVIOUS
  <2>1. Removals = {}
    BY DEF Init, ScheduleInit, Removals
  <2>2. Present = 0
    BY DEF Init, Present
  <2>3. QED
    BY <2>1, <2>2, FS_EmptySet DEF Init, FileInv
<1>2. FileInv /\ ScheduleOK /\ [Next]_vars => FileInv'
  <2> SUFFICES ASSUME FileInv, ScheduleOK, [Next]_vars PROVE FileInv'
    OBVIOUS
  <2>1. plan' = plan /\ Instances' = Instances
    BY PlanConstant
  <2>2. Cardinality(Removals) \in Nat /\ Present \in {0, 1}
    BY FS_CardinalityType DEF FileInv, Present
  <2>3. ASSUME NEW i \in Instances, Done(i), i[2] = "run_bash_command"
        PROVE  FileInv'
    <3>1. Removals' = Removals \cup {i} /\ i \notin Removals
      BY <2>1, <2>3 DEF Removals, Done, Succeed, Ready, ScheduleOK
    <3>2. IsFiniteSet(Removals') /\ Cardinality(Removals') = Cardinality(Removals) + 1
      BY <3>1, FS_AddElement DEF FileInv
    <3>3. Present = 1 /\ Present' = 0 /\ arrivals' = arrivals
      BY <2>3 DEF Done, Effect, RunBashCommand, Effectful, outside, Present
    <3>4. QED
      BY <2>2, <3>2, <3>3 DEF FileInv
  <2>4. ASSUME NEW i \in Instances, Done(i), i[2] # "run_bash_command"
        PROVE  FileInv'
    <3>1. Removals' = Removals
      BY <2>1, <2>4 DEF Removals, Done, Succeed, ScheduleOK
    <3>2. Present' = Present /\ arrivals' = arrivals
      BY <2>4 DEF Done, Effect, SetupEnvironment, ProcessData, ValidateResults,
         GenerateReport, SendReport, BackupData, Cleanup, WaitForFile, files,
         outside, Present
    <3>3. QED
      BY <3>1, <3>2 DEF FileInv
  <2>5. ASSUME NEW i \in Instances,
               Lost(i) \/ Refused(i) \/ Error(i) \/ TimeOut(i) \/ WriteOff(i)
        PROVE  FileInv'
    <3>1. Removals' = Removals
      BY <2>1, <2>5 DEF Removals, Lost, Refused, Error, TimeOut, WriteOff, Fail,
         Retry, FailForGood, UpstreamFails, Ready, ScheduleOK
    <3>2. Present' \in {Present, 0} /\ arrivals' = arrivals
      BY <2>5 DEF Lost, Refused, Error, TimeOut, WriteOff, Effect, SetupEnvironment,
         ProcessData, ValidateResults, GenerateReport, SendReport, BackupData,
         Cleanup, WaitForFile, RunBashCommand, files, outside, Present
    <3>3. QED
      BY <2>2, <3>1, <3>2 DEF FileInv
  <2>6. CASE PutFile \/ UNCHANGED vars
    <3>1. Removals' = Removals
      BY <2>1, <2>6 DEF Removals, PutFile, vars, schedule
    <3>2. \/ Present' = 1 /\ arrivals' = arrivals + 1
          \/ Present' = Present /\ arrivals' = arrivals
      BY <2>6 DEF PutFile, vars, files, outside, Present
    <3>3. QED
      BY <2>2, <3>1, <3>2 DEF FileInv
  <2>7. QED
    BY <2>3, <2>4, <2>5, <2>6 DEF Next, Step
<1>3. FileInv => OwnFile
  <2> SUFFICES ASSUME FileInv PROVE OwnFile
    OBVIOUS
  <2>1. Cardinality(Removals) \in Nat /\ Present \in {0, 1}
    BY FS_CardinalityType DEF FileInv, Present
  <2>2. Cardinality(Removals) <= arrivals
    BY <2>1 DEF FileInv
  <2>3. QED
    BY <2>2 DEF OwnFile, Removals
<1>4. QED
  BY <1>1, <1>2, <1>3, ScheduleAlwaysOK, PTL DEF Spec
-----------------------------------------------------------------------------
(* The tasks that touch the report and the directory, and those that read  *)
(* them, are those of new.py.                                              *)
LEMMA OnlyProcessing ==
  ASSUME plan \in Plans, NEW i \in Instances,
         i[2] \in {"setup_environment", "process_data_task", "validate_results",
                   "generate_report", "send_report_email", "backup_data", "cleanup"}
  PROVE  plan[i[1]] = Processing
<1> DEFINE d == plan[i[1]]
<1>1. i[2] \in d.tasks
  BY InstancePairs
<1>2. d \in {Umbrella, Dag1, Dag2, Dag3, Dag4, Examen, Processing, UvtExample}
  BY InstancePairs, PlannedDags DEF Dags, DummyDags
<1>3. CASE d = Umbrella
  BY <1>1, <1>3 DEF Umbrella, Dag
<1>4. CASE d \in {Dag1, Dag2, Dag3}
  BY <1>1, <1>4 DEF Dag1, Dag2, Dag3, Dag
<1>5. CASE d = Dag4
  BY <1>1, <1>5 DEF Dag4, Dag, Then
<1>6. CASE d = Examen
  BY <1>1, <1>6 DEF Examen, Dag
<1>7. CASE d = UvtExample
  BY <1>1, <1>7 DEF UvtExample, Dag, Then
<1>8. QED
  BY <1>2, <1>3, <1>4, <1>5, <1>6, <1>7

LEMMA ProcessingTasks ==
  ASSUME NEW r \in DOMAIN plan, plan[r] = Processing
  PROVE  {<<r, "setup_environment">>, <<r, "process_data_task">>,
          <<r, "validate_results">>, <<r, "generate_report">>,
          <<r, "send_report_email">>, <<r, "backup_data">>, <<r, "cleanup">>}
           \subseteq Instances
<1>1. {"setup_environment", "process_data_task", "validate_results",
       "generate_report", "send_report_email", "backup_data", "cleanup"}
        \subseteq Processing.tasks
  BY DEF Processing, ProcessingEdges, Dag
<1>2. QED
  BY <1>1 DEF Instances

LEMMA ProcessingArrows ==
  ASSUME NEW r \in DOMAIN plan, plan[r] = Processing
  PROVE  /\ <<r, "setup_environment">> \in Upstream(<<r, "process_data_task">>)
         /\ <<r, "process_data_task">> \in Upstream(<<r, "validate_results">>)
         /\ <<r, "process_data_task">> \in Upstream(<<r, "backup_data">>)
         /\ <<r, "backup_data">> \in Upstream(<<r, "cleanup">>)
         /\ <<r, "validate_results">> \in Upstream(<<r, "generate_report">>)
         /\ <<r, "generate_report">> \in Upstream(<<r, "send_report_email">>)
         /\ <<r, "send_report_email">> \in Upstream(<<r, "cleanup">>)
<1>1. {<<"setup_environment", "process_data_task">>, <<"process_data_task", "backup_data">>,
       <<"process_data_task", "validate_results">>,
       <<"backup_data", "cleanup">>, <<"validate_results", "generate_report">>,
       <<"generate_report", "send_report_email">>, <<"send_report_email", "cleanup">>}
        \subseteq Processing.edges
  BY DEF Processing, ProcessingEdges, Dag
<1>2. ASSUME NEW e \in Processing.edges
      PROVE  <<r, e[1]>> \in Upstream(<<r, e[2]>>)
  BY DEF Upstream
<1>3. QED
  BY <1>1, <1>2

-----------------------------------------------------------------------------
(* What completed did so after what is before it.                          *)
Closed ==
  \A i \in Instances : state[i] = "success" =>
    \A u \in Upstream(i) : state[u] = "success"

Succeeded(r, t) == state[<<r, t>>] = "success"

(* As long as the report or the directory is there, a clean-up that will   *)
(* remove it is still to come.                                             *)
ReportInv ==
  report # NoRun =>
    /\ report \in DOMAIN plan /\ plan[report] = Processing
    /\ Succeeded(report, "validate_results")
    /\ ~Succeeded(report, "cleanup")

EnvInv ==
  env => \E r \in DOMAIN plan : plan[r] = Processing /\ ~Succeeded(r, "cleanup")

MailInv ==
  \A m \in mailed : /\ m[2] \in DOMAIN plan /\ plan[m[2]] = Processing
                    /\ Succeeded(m[2], "validate_results")

TmpInv == Closed /\ ReportInv /\ EnvInv /\ MailInv

LEMMA SuccessStays ==
  ASSUME ScheduleOK, [Next]_vars, NEW j \in Instances, state[j] = "success"
  PROVE  state'[j] = "success"
  BY StepKinds DEF Succeed, FailForGood, UpstreamFails, Ready, ScheduleOK

LEMMA ClosedStep ==
  ASSUME ScheduleOK, Closed, [Next]_vars
  PROVE  Closed'
<1>1. plan' = plan /\ Instances' = Instances
  BY PlanConstant
<1>2. SUFFICES ASSUME NEW i \in Instances, state'[i] = "success",
                      NEW u \in Upstream(i)
               PROVE  state'[u] = "success"
  BY <1>1 DEF Closed, Upstream
<1>3. u \in Instances
  BY UpstreamInstances DEF ScheduleOK
<1>4. state[u] = "success"
  <2>1. CASE state[i] = "success"
    BY <2>1 DEF Closed
  <2>2. CASE state[i] # "success"
    BY <1>2, <2>2, StepKinds
       DEF Succeed, FailForGood, UpstreamFails, Ready, ScheduleOK
  <2>3. QED
    BY <2>1, <2>2
<1>5. QED
  BY <1>3, <1>4, SuccessStays

(* Before it has generated the report, or set up, a run has not cleaned up.*)
LEMMA CleanupComesLast ==
  ASSUME Closed, NEW r \in DOMAIN plan, plan[r] = Processing,
         \/ ~Succeeded(r, "generate_report")
         \/ ~Succeeded(r, "setup_environment")
  PROVE  ~Succeeded(r, "cleanup")
  BY ProcessingTasks, ProcessingArrows DEF Closed, Succeeded

(* The steps as the files see them: either a task does its work, or the    *)
(* most that happens is that a clean-up fails half-way.                    *)
LEMMA FileSteps ==
  ASSUME ScheduleOK, [Next]_vars
  PROVE  \/ \E i \in Instances : Ready(i) /\ Effect(i) /\ (Succeed(i) \/ Fail(i))
         \/ /\ UNCHANGED <<env, mailed>> /\ report' \in {report, NoRun}
            /\ \A i \in Instances : state'[i] = "success" => state[i] = "success"
<1>1. ASSUME NEW i \in Instances, Done(i) \/ Lost(i)
      PROVE  Ready(i) /\ Effect(i) /\ (Succeed(i) \/ Fail(i))
  BY <1>1 DEF Done, Lost, Succeed, Fail, Retry, FailForGood
<1>2. ASSUME NEW i \in Instances, Refused(i) \/ Error(i) \/ TimeOut(i) \/ WriteOff(i)
      PROVE  \/ Ready(i) /\ Effect(i) /\ Fail(i)
             \/ /\ UNCHANGED <<env, mailed>> /\ report' \in {report, NoRun}
                /\ \A j \in Instances : state'[j] = "success" => state[j] = "success"
  <2>1. \/ Ready(i) /\ Effect(i) /\ Fail(i)
        \/ UNCHANGED <<env, mailed>> /\ report' \in {report, NoRun}
    BY <1>2, HalfDone DEF Refused, TimeOut, WriteOff, files
  <2>2. FailForGood(i) \/ Retry(i) \/ UpstreamFails(i)
    BY <1>2 DEF Refused, Error, TimeOut, WriteOff, Fail
  <2>3. QED
    BY <2>1, <2>2 DEF FailForGood, Retry, UpstreamFails, ScheduleOK
<1>3. CASE PutFile \/ UNCHANGED vars
  BY <1>3 DEF PutFile, vars, schedule, files
<1>4. QED
  BY <1>1, <1>2, <1>3 DEF Next, Step

LEMMA TmpStep ==
  ASSUME ScheduleOK, TmpInv, [Next]_vars
  PROVE  TmpInv'
<1>1. plan' = plan /\ Instances' = Instances
  BY PlanConstant
<1>2. Closed'
  BY ClosedStep DEF TmpInv
<1>3. ASSUME NEW r \in DOMAIN plan, plan[r] = Processing, Succeeded(r, "validate_results")
      PROVE  Succeeded(r, "validate_results")'
  BY <1>1, <1>3, ProcessingTasks, SuccessStays DEF Succeeded
<1>4. CASE /\ UNCHANGED <<env, mailed>> /\ report' \in {report, NoRun}
           /\ \A i \in Instances : state'[i] = "success" => state[i] = "success"
  <2>1. ASSUME NEW r \in DOMAIN plan, plan[r] = Processing, ~Succeeded(r, "cleanup")
        PROVE  ~Succeeded(r, "cleanup")'
    BY <1>4, <2>1, ProcessingTasks DEF Succeeded
  <2>2. ReportInv'
    BY <1>1, <1>3, <1>4, <2>1 DEF TmpInv, ReportInv
  <2>3. EnvInv' /\ MailInv'
    BY <1>1, <1>3, <1>4, <2>1 DEF TmpInv, EnvInv, MailInv
  <2>4. QED
    BY <1>2, <2>2, <2>3 DEF TmpInv
<1>5. ASSUME NEW i \in Instances, Ready(i), Effect(i), Succeed(i) \/ Fail(i)
      PROVE  TmpInv'
  <2>1. i = <<i[1], i[2]>> /\ i[1] \in DOMAIN plan
    BY InstancePairs
  <2>2. ASSUME NEW r \in DOMAIN plan, plan[r] = Processing,
               ~Succeeded(r, "cleanup"), i[2] # "cleanup"
        PROVE  ~Succeeded(r, "cleanup")'
    <3>1. i # <<r, "cleanup">>
      BY <2>2
    <3>2. QED
      BY <1>5, <2>2, <3>1, ProcessingTasks
         DEF Succeeded, Succeed, Fail, FailForGood, Retry, ScheduleOK
  <2>3. CASE i[2] = "cleanup"
    <3>1. report' = NoRun /\ env' = FALSE /\ mailed' = mailed
      BY <1>5, <2>3 DEF Effect, Cleanup, Effectful
    <3>2. QED
      BY <1>1, <1>2, <1>3, <3>1 DEF TmpInv, ReportInv, EnvInv, MailInv
  <2>4. CASE i[2] = "generate_report"
    <3>1. report' = i[1] /\ env' = env /\ mailed' = mailed
      BY <1>5, <2>4 DEF Effect, GenerateReport, Effectful
    <3>2. plan[i[1]] = Processing
      BY <2>4, OnlyProcessing DEF ScheduleOK
    <3>3. Succeeded(i[1], "validate_results") /\ ~Succeeded(i[1], "generate_report")
      BY <1>5, <2>1, <2>4, <3>2, ProcessingArrows DEF Ready, Succeeded
    <3>4. ~Succeeded(i[1], "cleanup")
      BY <2>1, <3>2, <3>3, CleanupComesLast DEF TmpInv
    <3>5. ReportInv'
      BY <1>1, <1>3, <2>1, <2>2, <2>4, <3>1, <3>2, <3>3, <3>4 DEF ReportInv
    <3>6. EnvInv' /\ MailInv'
      BY <1>1, <1>3, <2>2, <2>4, <3>1 DEF TmpInv, EnvInv, MailInv
    <3>7. QED
      BY <1>2, <3>5, <3>6 DEF TmpInv
  <2>5. CASE i[2] = "setup_environment"
    <3>1. report' = report /\ env' = TRUE /\ mailed' = mailed
      BY <1>5, <2>5 DEF Effect, SetupEnvironment, Effectful
    <3>2. plan[i[1]] = Processing
      BY <2>5, OnlyProcessing DEF ScheduleOK
    <3>3. ~Succeeded(i[1], "setup_environment")
      BY <1>5, <2>1, <2>5 DEF Ready, Succeeded
    <3>4. ~Succeeded(i[1], "cleanup")
      BY <2>1, <3>2, <3>3, CleanupComesLast DEF TmpInv
    <3>5. EnvInv'
      BY <1>1, <2>1, <2>2, <2>5, <3>2, <3>4 DEF EnvInv
    <3>6. ReportInv' /\ MailInv'
      BY <1>1, <1>3, <2>2, <2>5, <3>1 DEF TmpInv, ReportInv, MailInv
    <3>7. QED
      BY <1>2, <3>5, <3>6 DEF TmpInv
  <2>6. CASE i[2] \notin {"cleanup", "generate_report", "setup_environment"}
    <3>1. /\ report' = report /\ env' = env
          /\ \A m \in mailed' : m \in mailed \/ (report # NoRun /\ m[2] = report)
      BY <1>5, <2>6 DEF Effect, ProcessData, ValidateResults, SendReport,
         BackupData, WaitForFile, RunBashCommand, files
    <3>2. ReportInv' /\ EnvInv'
      BY <1>1, <1>3, <2>2, <2>6, <3>1 DEF TmpInv, ReportInv, EnvInv
    <3>3. MailInv'
      BY <1>1, <1>3, <3>1 DEF TmpInv, ReportInv, MailInv
    <3>4. QED
      BY <1>2, <3>2, <3>3 DEF TmpInv
  <2>7. QED
    BY <2>3, <2>4, <2>5, <2>6
<1>6. QED
  BY <1>4, <1>5, FileSteps

LEMMA TmpAlways == Spec => [](ScheduleOK /\ TmpInv)
<1>1. Init => ScheduleOK /\ TmpInv
  <2> SUFFICES ASSUME Init PROVE ScheduleOK /\ TmpInv
    OBVIOUS
  <2>1. ScheduleOK /\ Closed
    BY InitScheduleOK DEF Init, ScheduleInit, Closed
  <2>2. ReportInv /\ MailInv
    BY DEF Init, ReportInv, MailInv
  <2>3. EnvInv
    BY DEF Init, EnvInv
  <2>4. QED
    BY <2>1, <2>2, <2>3 DEF TmpInv
<1>2. ScheduleOK /\ TmpInv /\ [Next]_vars => (ScheduleOK /\ TmpInv)'
  BY ScheduleStep, TmpStep
<1>3. QED
  BY <1>1, <1>2, PTL DEF Spec

(* A mail carries a report whose results have passed the validation,       *)
(* whichever run wrote it and whichever mailed it.                         *)
THEOREM MailsAreValidated == Spec => []MailedIsValidated
<1>1. TmpInv => MailedIsValidated
  BY DEF TmpInv, MailInv, MailedIsValidated, Succeeded
<1>2. QED
  BY <1>1, TmpAlways, PTL

(* When all runs of the processing pipeline have ended well, /tmp is as    *)
(* they found it.                                                          *)
THEOREM NothingStays == Spec => []CleanAfterAll
<1>1. TmpInv => CleanAfterAll
  <2> SUFFICES ASSUME TmpInv,
                      \A i \in Instances : i[2] = "cleanup" => state[i] = "success"
               PROVE  report = NoRun /\ ~env
    BY DEF CleanAfterAll
  <2>1. ASSUME NEW r \in DOMAIN plan, plan[r] = Processing
        PROVE  Succeeded(r, "cleanup")
    BY <2>1, ProcessingTasks DEF Succeeded
  <2>2. QED
    BY <2>1 DEF TmpInv, ReportInv, EnvInv
<1>2. QED
  BY <1>1, TmpAlways, PTL

-----------------------------------------------------------------------------
(* What earlier tasks of a run have left is there for the later ones: the  *)
(* results as long as the run goes on; the report and the directory, in a  *)
(* run that has /tmp to itself, until the last task that reads them is     *)
(* done.                                                                   *)
InputsInv ==
  /\ \A r \in DOMAIN plan :
       plan[r] = Processing /\ Succeeded(r, "process_data_task") => r \in xcom
  /\ (Len(plan) = 1 /\ plan[1] = Processing) =>
       /\ Succeeded(1, "generate_report") /\ ~Succeeded(1, "send_report_email")
            => report # NoRun
       /\ Succeeded(1, "setup_environment") /\ ~Succeeded(1, "backup_data")
            => env

(* A step of one task changes nothing about the success of another.        *)
LEMMA OthersKeepState ==
  ASSUME ScheduleOK, NEW i \in Instances, NEW j \in Instances, j # i,
         Succeed(i) \/ FailForGood(i) \/ Retry(i) \/ UpstreamFails(i)
  PROVE  state'[j] = state[j]
  BY DEF Succeed, FailForGood, Retry, UpstreamFails, ScheduleOK

LEMMA InputsStep ==
  ASSUME ScheduleOK, Closed, InputsInv, [Next]_vars
  PROVE  InputsInv'
<1>1. plan' = plan /\ Instances' = Instances
  BY PlanConstant
<1>2. ASSUME NEW i \in Instances, Ready(i), Effect(i), Succeed(i) \/ Fail(i)
      PROVE  InputsInv'
  <2>1. i = <<i[1], i[2]>> /\ i[1] \in DOMAIN plan /\ state[i] = "none"
    BY <1>2, InstancePairs DEF Ready
  <2>2. ASSUME NEW r \in DOMAIN plan, plan[r] = Processing,
               NEW t \in {"setup_environment", "process_data_task", "generate_report",
                          "send_report_email", "backup_data"},
               <<r, t>> # i
        PROVE  Succeeded(r, t)' <=> Succeeded(r, t)
    BY <1>2, <2>2, ProcessingTasks, OthersKeepState DEF Succeeded, Fail
  <2>3. ASSUME NEW r \in DOMAIN plan, plan[r] = Processing, Succeeded(r, "process_data_task")'
        PROVE  r \in xcom'
    <3>1. CASE i = <<r, "process_data_task">>
      BY <1>2, <3>1 DEF Effect, ProcessData, Effectful
    <3>2. CASE i # <<r, "process_data_task">>
      <4>1. r \in xcom
        BY <2>2, <2>3, <3>2 DEF InputsInv
      <4>2. xcom \subseteq xcom'
        BY <1>2 DEF Effect, SetupEnvironment, ProcessData, ValidateResults, GenerateReport,
           SendReport, BackupData, Cleanup, WaitForFile, RunBashCommand, files
      <4>3. QED
        BY <4>1, <4>2
    <3>3. QED
      BY <3>1, <3>2
  <2>4. ASSUME Len(plan) = 1, plan[1] = Processing
        PROVE  /\ (Succeeded(1, "generate_report") /\ ~Succeeded(1, "send_report_email"))'
                    => report' # NoRun
               /\ (Succeeded(1, "setup_environment") /\ ~Succeeded(1, "backup_data"))'
                    => env'
    <3>1. 1 \in DOMAIN plan /\ DOMAIN plan = {1} /\ i[1] = 1
      BY <2>1, <2>4, PlansAssumption DEF ScheduleOK
    <3>2. CASE i[2] = "cleanup"
      <4>1. Succeeded(1, "send_report_email") /\ Succeeded(1, "backup_data")
        BY <1>2, <2>1, <2>4, <3>1, <3>2, ProcessingArrows DEF Ready, Succeeded
      <4>2. Succeeded(1, "send_report_email")' /\ Succeeded(1, "backup_data")'
        BY <2>1, <2>2, <2>4, <3>1, <3>2, <4>1
      <4>3. QED
        BY <4>2
    <3>3. CASE i[2] = "generate_report"
      <4>1. report' # NoRun /\ env' = env
        BY <1>2, <3>1, <3>3 DEF Effect, GenerateReport, Effectful, NoRun
      <4>2. /\ Succeeded(1, "setup_environment")' <=> Succeeded(1, "setup_environment")
            /\ Succeeded(1, "backup_data")' <=> Succeeded(1, "backup_data")
        BY <2>1, <2>2, <2>4, <3>1, <3>3
      <4>3. QED
        BY <2>4, <4>1, <4>2 DEF InputsInv
    <3>4. CASE i[2] = "setup_environment"
      <4>1. report' = report /\ env' = TRUE
        BY <1>2, <3>4 DEF Effect, SetupEnvironment, Effectful
      <4>2. /\ Succeeded(1, "generate_report")' <=> Succeeded(1, "generate_report")
            /\ Succeeded(1, "send_report_email")' <=> Succeeded(1, "send_report_email")
        BY <2>1, <2>2, <2>4, <3>1, <3>4
      <4>3. QED
        BY <2>4, <4>1, <4>2 DEF InputsInv
    <3>5. CASE i[2] \notin {"cleanup", "generate_report", "setup_environment"}
      <4>1. report' = report /\ env' = env
        BY <1>2, <3>5 DEF Effect, ProcessData, ValidateResults, SendReport, BackupData,
           WaitForFile, RunBashCommand, files
      <4>2. /\ Succeeded(1, "generate_report")' <=> Succeeded(1, "generate_report")
            /\ Succeeded(1, "setup_environment")' <=> Succeeded(1, "setup_environment")
        BY <2>1, <2>2, <2>4, <3>1, <3>5
      <4>3. /\ Succeeded(1, "send_report_email") => Succeeded(1, "send_report_email")'
            /\ Succeeded(1, "backup_data") => Succeeded(1, "backup_data")'
        BY <1>1, <2>4, <3>1, ProcessingTasks, SuccessStays DEF Succeeded
      <4>4. QED
        BY <2>4, <4>1, <4>2, <4>3 DEF InputsInv
    <3>6. QED
      BY <3>2, <3>3, <3>4, <3>5
  <2>5. QED
    BY <1>1, <2>3, <2>4 DEF InputsInv
<1>3. ASSUME \A r \in DOMAIN plan, t \in {"setup_environment", "process_data_task",
               "generate_report", "send_report_email", "backup_data"} :
                 plan[r] = Processing => (Succeeded(r, t)' <=> Succeeded(r, t)),
             \A r \in DOMAIN plan : plan[r] = Processing /\ r \in xcom
               => r \in xcom' \/ ~Succeeded(r, "process_data_task"),
             UNCHANGED env,
             \/ report' = report
             \/ Len(plan) = 1 /\ plan[1] = Processing => Succeeded(1, "send_report_email")
      PROVE  InputsInv'
  <2>1. ASSUME Len(plan) = 1, plan[1] = Processing PROVE 1 \in DOMAIN plan
    BY <2>1, PlansAssumption DEF ScheduleOK
  <2>2. QED
    BY <1>1, <1>3, <2>1 DEF InputsInv
<1>4. ASSUME NEW i \in Instances, Error(i), ~Effect(i)
      PROVE  InputsInv'
  <2>1. i = <<i[1], i[2]>> /\ i[1] \in DOMAIN plan
    BY InstancePairs
  <2>2. /\ Ready(i) /\ Fail(i) /\ env' = env
        /\ report' = report \/ (i[2] = "cleanup" /\ report' = NoRun)
        /\ xcom' = xcom \/ (i[2] = "process_data_task" /\ xcom' = xcom \ {i[1]})
    BY <1>4, HalfDone
  <2>3. ASSUME NEW j \in Instances PROVE state'[j] = "success" <=> state[j] = "success"
    BY <2>2 DEF Fail, Retry, FailForGood, Ready, ScheduleOK
  <2>4. ASSUME NEW r \in DOMAIN plan, plan[r] = Processing,
               NEW t \in {"setup_environment", "process_data_task", "generate_report",
                          "send_report_email", "backup_data"}
        PROVE  Succeeded(r, t)' <=> Succeeded(r, t)
    BY <2>3, <2>4, ProcessingTasks DEF Succeeded
  <2>5. ASSUME NEW r \in DOMAIN plan, plan[r] = Processing, r \in xcom
        PROVE  r \in xcom' \/ ~Succeeded(r, "process_data_task")
    BY <2>1, <2>2, <2>5 DEF Ready, Succeeded
  <2>6. ASSUME i[2] = "cleanup", Len(plan) = 1, plan[1] = Processing
        PROVE  Succeeded(1, "send_report_email")
    <3>1. 1 \in DOMAIN plan /\ DOMAIN plan = {1} /\ i[1] = 1
      BY <2>1, <2>6, PlansAssumption DEF ScheduleOK
    <3>2. QED
      BY <2>1, <2>2, <2>6, <3>1, ProcessingArrows DEF Ready, Succeeded
  <2>7. QED
    BY <1>3, <2>2, <2>4, <2>5, <2>6
<1>5. ASSUME NEW i \in Instances, Refused(i) \/ TimeOut(i) \/ WriteOff(i)
      PROVE  InputsInv'
  <2>1. UNCHANGED <<env, report, xcom>>
    BY <1>5 DEF Refused, TimeOut, WriteOff, files
  <2>2. FailForGood(i) \/ Retry(i) \/ UpstreamFails(i)
    BY <1>5 DEF Refused, TimeOut, WriteOff, Fail
  <2>3. ASSUME NEW j \in Instances PROVE state'[j] = "success" <=> state[j] = "success"
    BY <2>2 DEF FailForGood, Retry, UpstreamFails, Ready, ScheduleOK
  <2>4. ASSUME NEW r \in DOMAIN plan, plan[r] = Processing,
               NEW t \in {"setup_environment", "process_data_task", "generate_report",
                          "send_report_email", "backup_data"}
        PROVE  Succeeded(r, t)' <=> Succeeded(r, t)
    BY <2>3, <2>4, ProcessingTasks DEF Succeeded
  <2>5. QED
    BY <1>3, <2>1, <2>4
<1>6. CASE PutFile \/ UNCHANGED vars
  <2>1. UNCHANGED <<state, env, report, xcom>>
    BY <1>6 DEF PutFile, vars, schedule, files
  <2>2. QED
    BY <1>1, <2>1 DEF InputsInv, Succeeded
<1>7. ASSUME NEW i \in Instances, Done(i) \/ Lost(i)
      PROVE  InputsInv'
  <2>1. Ready(i) /\ Effect(i) /\ (Succeed(i) \/ Fail(i))
    BY <1>7 DEF Done, Lost, Succeed, Fail, Retry, FailForGood
  <2>2. QED
    BY <1>2, <2>1
<1>8. ASSUME NEW i \in Instances, Error(i), Effect(i)
      PROVE  InputsInv'
  BY <1>2, <1>8, HalfDone
<1>9. QED
  BY <1>4, <1>5, <1>6, <1>7, <1>8 DEF Next, Step

(* A task of new.py that is due finds what it reads: its run's results in  *)
(* any plan of runs, the report and the directory in a run that has /tmp   *)
(* to itself, whatever attempts failed, half-way or after their work.      *)
THEOREM InputsAreThere == Spec => []OwnInputsThere
<1>1. Init => InputsInv
  <2> SUFFICES ASSUME Init PROVE InputsInv
    OBVIOUS
  <2>1. ASSUME NEW r \in DOMAIN plan, plan[r] = Processing
        PROVE  /\ ~Succeeded(r, "process_data_task")
               /\ ~Succeeded(r, "generate_report")
               /\ ~Succeeded(r, "setup_environment")
    BY <2>1, ProcessingTasks DEF Init, ScheduleInit, Succeeded
  <2>2. Len(plan) = 1 => 1 \in DOMAIN plan
    BY InitScheduleOK, PlansAssumption DEF ScheduleOK
  <2>3. QED
    BY <2>1, <2>2 DEF InputsInv
<1>2. ScheduleOK /\ TmpInv /\ InputsInv /\ [Next]_vars => InputsInv'
  BY InputsStep DEF TmpInv
<1>3. ScheduleOK /\ TmpInv /\ InputsInv => OwnInputsThere
  <2> SUFFICES ASSUME ScheduleOK, TmpInv, InputsInv, NEW i \in Instances, Ready(i)
               PROVE  ResultsThere(i) /\ (Len(plan) = 1 => FilesThere(i))
    BY DEF OwnInputsThere
  <2>1. /\ i = <<i[1], i[2]>> /\ i[1] \in DOMAIN plan /\ state[i] = "none"
        /\ \A u \in Upstream(i) : state[u] = "success"
    BY InstancePairs DEF Ready
  <2>2. ASSUME i[2] \in {"validate_results", "generate_report", "send_report_email",
                         "backup_data"}
        PROVE  plan[i[1]] = Processing
    BY <2>2, OnlyProcessing DEF ScheduleOK
  <2>3. ASSUME i[2] \in {"validate_results", "generate_report"}
        PROVE  i[1] \in xcom
    <3>1. plan[i[1]] = Processing
      BY <2>2, <2>3
    <3>2. Succeeded(i[1], "process_data_task")
      <4>1. CASE i[2] = "validate_results"
        BY <2>1, <3>1, <4>1, ProcessingArrows DEF Succeeded
      <4>2. CASE i[2] = "generate_report"
        <5>1. Succeeded(i[1], "validate_results")
          BY <2>1, <3>1, <4>2, ProcessingArrows DEF Succeeded
        <5>2. QED
          BY <2>1, <3>1, <5>1, ProcessingTasks, ProcessingArrows DEF TmpInv, Closed, Succeeded
      <4>3. QED
        BY <2>3, <4>1, <4>2
    <3>3. QED
      BY <2>1, <3>1, <3>2 DEF InputsInv
  <2>4. ASSUME Len(plan) = 1, i[2] = "send_report_email"
        PROVE  report # NoRun
    <3>1. plan[i[1]] = Processing /\ i[1] = 1
      BY <2>1, <2>2, <2>4, PlansAssumption DEF ScheduleOK
    <3>2. Succeeded(1, "generate_report") /\ ~Succeeded(1, "send_report_email")
      BY <2>1, <2>4, <3>1, ProcessingArrows DEF Succeeded
    <3>3. QED
      BY <2>4, <3>1, <3>2 DEF InputsInv
  <2>5. ASSUME Len(plan) = 1, i[2] = "backup_data"
        PROVE  env
    <3>1. plan[i[1]] = Processing /\ i[1] = 1
      BY <2>1, <2>2, <2>5, PlansAssumption DEF ScheduleOK
    <3>2. Succeeded(1, "process_data_task") /\ ~Succeeded(1, "backup_data")
      BY <2>1, <2>5, <3>1, ProcessingArrows DEF Succeeded
    <3>3. Succeeded(1, "setup_environment")
      BY <2>1, <3>1, <3>2, ProcessingTasks, ProcessingArrows DEF TmpInv, Closed, Succeeded
    <3>4. QED
      BY <2>5, <3>1, <3>2, <3>3 DEF InputsInv
  <2>6. QED
    BY <2>3, <2>4, <2>5 DEF ResultsThere, FilesThere
<1>4. QED
  BY <1>1, <1>2, <1>3, TmpAlways, PTL DEF Spec

-----------------------------------------------------------------------------
(* S holds the last tasks of the DAG, and what is before any of its tasks. *)
Upward(d, S) ==
  /\ \A e \in d.edges : e[2] \in S => e[1] \in S
  /\ \A t \in d.tasks : (\A e \in d.edges : e[1] # t) => t \in S

(* In each DAG of the files every task leads to a last one: none of them   *)
(* goes round in a circle.                                                 *)
LEMMA EveryTaskLeadsToALeaf ==
  ASSUME NEW d \in Dags, NEW S, Upward(d, S)
  PROVE  d.tasks \subseteq S
<1>1. CASE d = Umbrella
  BY <1>1 DEF Umbrella, Dag, Upward
<1>2. CASE d = Dag1
  BY <1>2 DEF Dag1, Dag, Upward
<1>3. CASE d = Dag2
  BY <1>3 DEF Dag2, Dag, Upward
<1>4. CASE d = Dag3
  BY <1>4 DEF Dag3, Dag, Upward
<1>5. CASE d = Dag4
  BY <1>5 DEF Dag4, Dag, Upward, Then
<1>6. CASE d = Examen
  BY <1>6 DEF Examen, Dag, Upward
<1>7. CASE d = Processing
  BY <1>7 DEF Processing, ProcessingEdges, Dag, Upward
<1>8. CASE d = UvtExample
  BY <1>8 DEF UvtExample, Dag, Upward, Then
<1>9. QED
  BY <1>1, <1>2, <1>3, <1>4, <1>5, <1>6, <1>7, <1>8 DEF Dags, DummyDags

(* Airflow judges a run by its last tasks alone; with the arrows of these  *)
(* files that hides no task that failed, was skipped or is still to come.  *)
THEOREM LastTasksDecide == Spec => []LeavesDecide
<1>1. ASSUME ScheduleOK, Closed PROVE LeavesDecide
  <2> SUFFICES ASSUME NEW r \in DOMAIN plan, \A i \in Leaves(r) : state[i] = "success",
                      NEW i \in Instances, i[1] = r
               PROVE  state[i] = "success"
    BY DEF LeavesDecide
  <2> DEFINE S == {t \in plan[r].tasks : state[<<r, t>>] = "success"}
  <2>1. plan[r] \in Dags
    BY <1>1, PlannedDags DEF ScheduleOK
  <2>2. ASSUME NEW e \in plan[r].edges, e[2] \in S
        PROVE  e[1] \in S
    <3>1. e[1] \in plan[r].tasks /\ <<r, e[2]>> \in Instances
      BY <2>1, <2>2, EdgesJoinTasks, PairsAreInstances
    <3>2. <<r, e[1]>> \in Upstream(<<r, e[2]>>)
      BY DEF Upstream
    <3>3. QED
      BY <1>1, <2>2, <3>1, <3>2 DEF Closed
  <2>3. ASSUME NEW t \in plan[r].tasks, \A e \in plan[r].edges : e[1] # t
        PROVE  t \in S
    <3>1. <<r, t>> \in Leaves(r)
      BY <2>3, PairsAreInstances DEF Leaves
    <3>2. QED
      BY <3>1
  <2>4. plan[r].tasks \subseteq S
    BY <2>1, <2>2, <2>3, EveryTaskLeadsToALeaf DEF Upward
  <2>5. i = <<r, i[2]>> /\ i[2] \in plan[r].tasks
    BY InstancePairs
  <2>6. QED
    BY <2>4, <2>5
<1>2. QED
  BY <1>1, TmpAlways, PTL DEF TmpInv
=============================================================================
