------------------------------ MODULE AirflowTasks ------------------------------
(***************************************************************************)
(* What the tasks of the DAG files do to the worker's /tmp, which all runs *)
(* share, and to XCom, which belongs to a run.  new.py: the directory      *)
(* data_processing, the report, the mails that carry it.  hmida.py: the    *)
(* file that a sensor waits for and a command removes.  The tasks of the   *)
(* other DAGs, and print_message and echo_send, leave nothing a task       *)
(* reads: examen.py fills /tmp/features and never empties it.              *)
(*                                                                         *)
(* Faults: "error", an attempt fails before it has done anything, or       *)
(* half-way; "lost", it does all of its work, and is recorded as failed    *)
(* because its worker is gone.                                             *)
(***************************************************************************)
EXTENDS AirflowDag, FiniteSets

CONSTANTS Faults,    \* \subseteq {"error", "lost"}
          MaxFaults, \* bounds how many there are
          MaxFiles   \* bounds how often my_file.txt is put there

ASSUME BoundsAssumption == MaxFaults \in Nat /\ MaxFiles \in Nat

NoRun == 0

VARIABLES env,        \* /tmp/data_processing exists
          report,     \* the run that wrote /tmp/processing_report.txt, or NoRun
          mailed,     \* <<r, q>>: run r has mailed the report that run q wrote
          xcom,       \* the runs whose results are in XCom
          my_file,    \* /tmp/my_file.txt exists
          arrivals,   \* how often it has been put there
          faults      \* how many faults there have been

files == <<env, report, mailed, xcom, my_file>>
outside == <<arrivals, faults>>
vars == <<schedule, files, outside>>

Init ==
  /\ ScheduleInit
  /\ env = FALSE /\ report = NoRun /\ mailed = {} /\ xcom = {}
  /\ my_file = FALSE /\ arrivals = 0 /\ faults = 0

-----------------------------------------------------------------------------
(* The commands and callables, as run r executes them; one whose guard is  *)
(* false raises, or ends with an exit code.                                *)
SetupEnvironment(r) == env' = TRUE /\ UNCHANGED <<report, mailed, xcom, my_file>>

ProcessData(r) == xcom' = xcom \cup {r} /\ UNCHANGED <<env, report, mailed, my_file>>

(* Without results the comparison with None raises.                        *)
ValidateResults(r) == r \in xcom /\ UNCHANGED files

GenerateReport(r) == report' = r /\ UNCHANGED <<env, mailed, xcom, my_file>>

(* The attachment is opened when the mail is built.                        *)
SendReport(r) ==
  /\ report # NoRun
  /\ mailed' = mailed \cup {<<r, report>>}
  /\ UNCHANGED <<env, report, xcom, my_file>>

(* tar fails on a directory that is not there.                             *)
BackupData(r) == env /\ UNCHANGED files

Cleanup(r) ==
  report' = NoRun /\ env' = FALSE /\ UNCHANGED <<mailed, xcom, my_file>>

WaitForFile(r) == my_file /\ UNCHANGED files

(* Mutant: rm -f.                                                          *)
RunBashCommandForced(r) == my_file' = FALSE /\ UNCHANGED <<env, report, mailed, xcom>>

RunBashCommand(r) ==
  my_file /\ my_file' = FALSE /\ UNCHANGED <<env, report, mailed, xcom>>

Effectful == {"setup_environment", "process_data_task", "validate_results",
              "generate_report", "send_report_email", "backup_data", "cleanup",
              "wait_for_file", "run_bash_command"}

Effect(i) ==
  \/ i[2] = "setup_environment" /\ SetupEnvironment(i[1])
  \/ i[2] = "process_data_task" /\ ProcessData(i[1])
  \/ i[2] = "validate_results"  /\ ValidateResults(i[1])
  \/ i[2] = "generate_report"   /\ GenerateReport(i[1])
  \/ i[2] = "send_report_email" /\ SendReport(i[1])
  \/ i[2] = "backup_data"       /\ BackupData(i[1])
  \/ i[2] = "cleanup"           /\ Cleanup(i[1])
  \/ i[2] = "wait_for_file"     /\ WaitForFile(i[1])
  \/ i[2] = "run_bash_command"  /\ RunBashCommand(i[1])
  \/ i[2] \notin Effectful      /\ UNCHANGED files

-----------------------------------------------------------------------------
(* DummyOperator is never executed, so it cannot fail.                     *)
Fault(kind, i) ==
  /\ kind \in Faults /\ plan[i[1]] \notin DummyDags
  /\ faults < MaxFaults /\ faults' = faults + 1

Done(i) == Succeed(i) /\ Effect(i) /\ UNCHANGED outside

Lost(i) == Fault("lost", i) /\ Fail(i) /\ Effect(i) /\ UNCHANGED arrivals

(* The file the attempt needs is not there, or is gone again.              *)
Refused(i) ==
  /\ \/ i[2] = "send_report_email" /\ report = NoRun
     \/ i[2] = "backup_data" /\ ~env
     \/ i[2] = "run_bash_command" /\ ~my_file
  /\ Fail(i)
  /\ UNCHANGED <<files, outside>>

(* A new attempt starts by clearing what the last one put into XCom.  An   *)
(* attempt that fails half-way has made the directory without its status   *)
(* file, has written the report, or a part of it, without its path in      *)
(* XCom, or has removed the report and not the directory.                  *)
Error(i) ==
  /\ Fault("error", i) /\ Fail(i)
  /\ xcom' = IF i[2] = "process_data_task" THEN xcom \ {i[1]} ELSE xcom
  /\ \/ UNCHANGED <<env, report>>
     \/ i[2] = "setup_environment" /\ env' = TRUE /\ report' = report
     \/ i[2] = "generate_report" /\ report' = i[1] /\ env' = env
     \/ i[2] = "cleanup" /\ report' = NoRun /\ env' = env
  /\ UNCHANGED <<mailed, my_file, arrivals>>

(* The sensor's timeout is not retried.                                    *)
TimeOut(i) ==
  /\ i[2] = "wait_for_file" /\ ~my_file
  /\ FailForGood(i)
  /\ UNCHANGED <<files, outside>>

WriteOff(i) == UpstreamFails(i) /\ UNCHANGED <<files, outside>>

Step == \E i \in Instances :
  Done(i) \/ Lost(i) \/ Refused(i) \/ Error(i) \/ TimeOut(i) \/ WriteOff(i)

(* Somebody puts the file there, or replaces it.                           *)
PutFile ==
  /\ arrivals < MaxFiles
  /\ \E i \in Instances : i[2] = "wait_for_file"
  /\ my_file' = TRUE /\ arrivals' = arrivals + 1
  /\ UNCHANGED <<schedule, env, report, mailed, xcom, faults>>

Next == Step \/ PutFile

Spec == Init /\ [][Next]_vars

(* The scheduler loops for as long as a task can be started or written     *)
(* off; nobody is obliged to bring the file.                               *)
FairSpec == Spec /\ WF_vars(Step)

-----------------------------------------------------------------------------
(* The type invariant of the schedule and of the files.                    *)
TypeOK ==
  /\ plan \in Plans
  /\ state \in [Instances -> States]
  /\ tries \in [Instances -> 0..MaxRetries]
  /\ env \in BOOLEAN /\ my_file \in BOOLEAN
  /\ report \in DOMAIN plan \cup {NoRun}
  /\ mailed \in SUBSET {<<r, q>> : r \in DOMAIN plan, q \in DOMAIN plan}
  /\ xcom \in SUBSET DOMAIN plan
  /\ arrivals \in 0..MaxFiles /\ faults \in 0..MaxFaults

(* Whichever run's report a mail carries when runs overlap, that run's     *)
(* results have passed the validation (validate_results, new.py).          *)
MailedIsValidated ==
  \A m \in mailed : state[<<m[2], "validate_results">>] = "success"

(* What the command or callable of a task reads of what earlier tasks of   *)
(* its run have left: results in XCom, the report, the directory.          *)
ResultsThere(i) ==
  i[2] \in {"validate_results", "generate_report"} => i[1] \in xcom
FilesThere(i) == /\ i[2] = "send_report_email" => report # NoRun
                 /\ i[2] = "backup_data" => env

(* A task of new.py that is due, for the first time or again, finds what   *)
(* it reads: its run's results always, the files in /tmp when no other run *)
(* is there to remove them.  The arrows of new.py have to order each task  *)
(* after the one that writes what it reads, and before the clean-up.       *)
OwnInputsThere ==
  \A i \in Instances :
    Ready(i) => ResultsThere(i) /\ (Len(plan) = 1 => FilesThere(i))

(* When every run of complex_processing_pipeline has ended well, nothing   *)
(* is left in /tmp, in whatever order the runs wrote and removed it.       *)
CleanAfterAll ==
  (/\ \E i \in Instances : i[2] = "cleanup"
   /\ \A i \in Instances : i[2] = "cleanup" => state[i] = "success")
    => report = NoRun /\ ~env

(* Two runs whose sensors have seen the same file do not both report that  *)
(* they have removed it: each success has a file of its own.               *)
OwnFile ==
  Cardinality({i \in Instances : i[2] = "run_bash_command" /\ state[i] = "success"})
    <= arrivals
=============================================================================
