------------------------------- MODULE AirflowDag -------------------------------
(***************************************************************************)
(* Airflow's scheduler, as far as the DAG files rely on it: runs of the    *)
(* same or of different DAGs progress side by side (depends_on_past is     *)
(* False, and a slow run is still there when the next is due); a task is   *)
(* tried when every task before it has succeeded (trigger rule             *)
(* all_success), retried after a failure while it has retries left, and    *)
(* marked upstream_failed when one before it has given up.  An attempt is  *)
(* one step, at the moment of its effect.                                  *)
(***************************************************************************)
EXTENDS AirflowGraphs, Sequences

CONSTANTS Plans,       \* sequences of DAGs: the DAG of each run
          MaxRetries   \* bounds the retries the files ask for

ASSUME PlansAssumption == Plans \subseteq Seq(Dags) /\ MaxRetries \in Nat

VARIABLES plan, state, tries

schedule == <<plan, state, tries>>

Instances == UNION {{<<r, t>> : t \in plan[r].tasks} : r \in DOMAIN plan}

Upstream(i) ==
  {<<i[1], e[1]>> : e \in {e \in plan[i[1]].edges : e[2] = i[2]}}

States == {"none", "success", "failed", "upstream_failed"}
GaveUp(i) == state[i] \in {"failed", "upstream_failed"}

Retries(i) == IF plan[i[1]].retries < MaxRetries THEN plan[i[1]].retries ELSE MaxRetries

ScheduleInit ==
  /\ plan \in Plans
  /\ state = [i \in Instances |-> "none"]
  /\ tries = [i \in Instances |-> 0]

(* Mutant: the trigger rule all_done.                                      *)
ReadyWhenOver(i) ==
  state[i] = "none" /\ \A u \in Upstream(i) : state[u] # "none"

(* none, with tries > 0, is Airflow's up_for_retry.                        *)
Ready(i) == state[i] = "none" /\ \A u \in Upstream(i) : state[u] = "success"

Succeed(i) ==
  /\ Ready(i)
  /\ state' = [state EXCEPT ![i] = "success"]
  /\ UNCHANGED <<plan, tries>>

(* The attempt was the last, or its exception forbids another one.         *)
FailForGood(i) ==
  /\ Ready(i)
  /\ state' = [state EXCEPT ![i] = "failed"]
  /\ UNCHANGED <<plan, tries>>

(* Mutant: the number of retries is not looked at.                         *)
RetryForEver(i) ==
  /\ Ready(i)
  /\ tries' = [tries EXCEPT ![i] = @ + 1]
  /\ UNCHANGED <<plan, state>>

Retry(i) ==
  /\ Ready(i)
  /\ tries[i] < Retries(i)
  /\ tries' = [tries EXCEPT ![i] = @ + 1]
  /\ UNCHANGED <<plan, state>>

Fail(i) == Retry(i) \/ (tries[i] >= Retries(i) /\ FailForGood(i))

(* Mutant: a task is written off only when all before it have given up.    *)
UpstreamFailsIfAll(i) ==
  /\ state[i] = "none"
  /\ Upstream(i) # {} /\ \A u \in Upstream(i) : GaveUp(u)
  /\ state' = [state EXCEPT ![i] = "upstream_failed"]
  /\ UNCHANGED <<plan, tries>>

UpstreamFails(i) ==
  /\ state[i] = "none"
  /\ \E u \in Upstream(i) : GaveUp(u)
  /\ state' = [state EXCEPT ![i] = "upstream_failed"]
  /\ UNCHANGED <<plan, tries>>

-----------------------------------------------------------------------------
(* A run is a success when its last tasks are: they must not hide a task   *)
(* that has failed elsewhere in the run.                                   *)
Leaves(r) == {i \in Instances : i[1] = r /\ \A e \in plan[r].edges : e[1] # i[2]}

LeavesDecide ==
  \A r \in DOMAIN plan :
    (\A i \in Leaves(r) : state[i] = "success")
      => \A i \in Instances : i[1] = r => state[i] = "success"

(* Every task of every run comes to an end: none waits for ever for one    *)
(* that has failed.                                                        *)
RunsFinish == <>(\A i \in Instances : state[i] # "none")
=============================================================================
