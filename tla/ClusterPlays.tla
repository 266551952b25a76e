------------------------------ MODULE ClusterPlays ------------------------------
(***************************************************************************)
(* ansible/playbooks/start_cluster.yml and stop_cluster.yml on the hosts   *)
(* of inventories/hosts.ini: the cluster is started, then stopped.         *)
(*                                                                         *)
(* Ansible's linear strategy lets every host finish a task before any      *)
(* begins the next; within a task a host works through the items of the    *)
(* loop on its own.  A failed item is ignored (ignore_errors); a host that *)
(* cannot be reached is out for the rest of the play, ignore_errors or     *)
(* not.  The pauses between tasks are left out.                            *)
(***************************************************************************)
EXTENDS Naturals, Sequences

CONSTANT MaxFaults    \* bounds failed items and unreachable hosts

Hosts == {"master1", "master2", "worker1", "worker2", "edge"}

(* The hosts of the groups that the tasks of the start play name.          *)
Units ==
  {<<"master1", s>> : s \in {"zookeeper", "kafka", "hdfs-namenode",
                             "yarn-resourcemanager", "spark-master"}} \cup
  {<<"master2", s>> : s \in {"hbase-master", "hive-metastore", "hiveserver2",
                             "atlas", "ranger-admin"}} \cup
  {<<h, s>> : h \in {"worker1", "worker2"},
              s \in {"hdfs-datanode", "yarn-nodemanager", "hbase-regionserver",
                     "spark-worker"}} \cup
  {<<"edge", "nifi">>}

(* Mutant: the region servers are started before their master.             *)
StartTasksRegionsFirst ==
  <<<<"zookeeper">>, <<"kafka">>, <<"hdfs-namenode">>, <<"hdfs-datanode">>,
    <<"yarn-resourcemanager">>, <<"yarn-nodemanager">>, <<"hbase-regionserver">>,
    <<"hbase-master">>, <<"hive-metastore">>, <<"hiveserver2">>,
    <<"spark-master">>, <<"spark-worker">>, <<"nifi">>, <<"atlas">>, <<"ranger-admin">>>>

StartTasks ==
  <<<<"zookeeper">>, <<"kafka">>, <<"hdfs-namenode">>, <<"hdfs-datanode">>,
    <<"yarn-resourcemanager">>, <<"yarn-nodemanager">>, <<"hbase-master">>,
    <<"hbase-regionserver">>, <<"hive-metastore">>, <<"hiveserver2">>,
    <<"spark-master">>, <<"spark-worker">>, <<"nifi">>, <<"atlas">>, <<"ranger-admin">>>>

StopTasks ==
  <<<<"ranger-admin", "atlas", "nifi", "hiveserver2", "hive-metastore",
      "spark-worker", "spark-master">>,
    <<"yarn-nodemanager", "yarn-resourcemanager", "hbase-regionserver", "hbase-master">>,
    <<"hdfs-datanode", "hdfs-namenode", "kafka", "zookeeper">>>>

(* After= in the unit files that the roles install: the service on the     *)
(* left wants to be started after the one on the right.                    *)
After ==
  {<<"kafka", "zookeeper">>, <<"hbase-master", "zookeeper">>,
   <<"hbase-regionserver", "hbase-master">>, <<"hiveserver2", "hive-metastore">>,
   <<"spark-worker", "spark-master">>, <<"atlas", "hbase-master">>, <<"atlas", "kafka">>}

VARIABLES play,       \* "start", then "stop", then "over"
          task,       \* the task of the play
          at,         \* how many items of the task each host has done
          active,     \* the hosts that are still in the play
          failed,     \* the units whose item has failed in the play
          lost,       \* history: the hosts that could not be reached in the play
          running,    \* the units that run
          faults

vars == <<play, task, at, active, failed, lost, running, faults>>

Tasks == IF play = "start" THEN StartTasks ELSE StopTasks
Items == Tasks[task]

NoItems == [h \in Hosts |-> 0]

Init == /\ play = "start" /\ task = 1 /\ at = NoItems /\ active = Hosts
        /\ failed = {} /\ lost = {} /\ running = {} /\ faults = 0

-----------------------------------------------------------------------------
Begins(h) == /\ play # "over"
             /\ h \in active /\ at[h] < Len(Items)
             /\ at' = [at EXCEPT ![h] = @ + 1]
             /\ UNCHANGED <<play, task, lost>>

Unit(h) == <<h, Items[at[h] + 1]>>

(* A host without the unit skips the item, or fails on it and goes on.     *)
DoItem(h) ==
  /\ Begins(h)
  /\ running' = IF play = "start" THEN running \cup ({Unit(h)} \cap Units)
                                  ELSE running \ {Unit(h)}
  /\ UNCHANGED <<active, failed, faults>>

(* Mutant: without ignore_errors, a host is out after its first failure.   *)
ItemFailsHost(h) ==
  /\ Begins(h)
  /\ Unit(h) \in Units
  /\ faults < MaxFaults /\ faults' = faults + 1
  /\ failed' = failed \cup {Unit(h)}
  /\ active' = active \ {h}
  /\ UNCHANGED running

ItemFails(h) ==
  /\ Begins(h)
  /\ Unit(h) \in Units
  /\ faults < MaxFaults /\ faults' = faults + 1
  /\ failed' = failed \cup {Unit(h)}
  /\ UNCHANGED <<active, running>>

Unreachable(h) ==
  /\ play # "over" /\ h \in active
  /\ faults < MaxFaults /\ faults' = faults + 1
  /\ active' = active \ {h} /\ lost' = lost \cup {h}
  /\ UNCHANGED <<play, task, at, failed, running>>

TaskOver == \A h \in active : at[h] = Len(Items)

(* Mutant: the strategy "free": the first host to finish goes on.          *)
NextTaskFree ==
  /\ play # "over" /\ task < Len(Tasks)
  /\ active = {} \/ \E h \in active : at[h] = Len(Items)
  /\ task' = task + 1 /\ at' = NoItems
  /\ UNCHANGED <<play, active, failed, lost, running, faults>>

NextTask ==
  /\ play # "over" /\ task < Len(Tasks) /\ TaskOver
  /\ task' = task + 1 /\ at' = NoItems
  /\ UNCHANGED <<play, active, failed, lost, running, faults>>

(* The next playbook tries every host again.                               *)
NextPlay ==
  /\ play # "over" /\ task = Len(Tasks) /\ TaskOver
  /\ play' = IF play = "start" THEN "stop" ELSE "over"
  /\ task' = 1 /\ at' = NoItems /\ active' = Hosts
  /\ failed' = {} /\ lost' = {}
  /\ UNCHANGED <<running, faults>>

Next == \/ \E h \in Hosts : DoItem(h) \/ ItemFails(h) \/ Unreachable(h)
        \/ NextTask \/ NextPlay

Spec == Init /\ [][Next]_vars

-----------------------------------------------------------------------------
ItemsBefore(tasks, k) == UNION {{tasks[j][n] : n \in DOMAIN tasks[j]} : j \in 1..(k - 1)}

(* The services that the play wants settled before the current task.       *)
Settled(services) ==
  \A u \in Units : u[2] \in services /\ u[1] \notin lost /\ u \notin failed
                     => (u \in running <=> play = "start")

(* "Démarrage ordonné", "Arrêt ordonné", from task to task: when a unit    *)
(* changes, the units of every earlier task, on whichever host, have       *)
(* changed, unless their item has failed or their host is out.             *)
TasksInOrder ==
  [][running' # running => Settled(ItemsBefore(Tasks, task))]_vars

(* One failure does not hold the others up: when a play ends, every unit   *)
(* is as the play wants it, but those that failed themselves and those of  *)
(* hosts that were out.                                                    *)
FaultsStayLocal ==
  play # "over" /\ task = Len(Tasks) /\ TaskOver
    => Settled({u[2] : u \in Units})

(* The unit files order services of one host only; across the hosts it is  *)
(* the start play that has to keep to them: when a unit is started, every  *)
(* unit it comes after, on whichever host, runs, unless that one's item    *)
(* has failed or its host is out.                                          *)
NeedsStarted ==
  [][\A u \in running' \ running, need \in Units :
       <<u[2], need[2]>> \in After
         => need \in running \/ need \in failed \/ need[1] \in lost]_vars

(* "Arrêt ordonné": the daemons on the workers stop before the one they    *)
(* report to, as they are listed before it.  It does not hold: hosts do    *)
(* not wait for each other between two items of one task.                  *)
ReportsTo == {<<"hdfs-datanode", "hdfs-namenode">>,
              <<"hbase-regionserver", "hbase-master">>,
              <<"yarn-nodemanager", "yarn-resourcemanager">>,
              <<"spark-worker", "spark-master">>}

WorkersStopFirst ==
  [][\A master \in running \ running', worker \in running' :
       <<worker[2], master[2]>> \in ReportsTo
         => worker[1] \in lost \/ worker \in failed]_vars
=============================================================================
