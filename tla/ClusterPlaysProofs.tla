-------------------------- MODULE ClusterPlaysProofs --------------------------
(***************************************************************************)
(* Proofs about ClusterPlays, for any number of faults: the plays settle   *)
(* the units task by task, and a fault costs only the unit or the host it  *)
(* struck.                                                                 *)
(***************************************************************************)
EXTENDS ClusterPlays, TLAPS

PlayType ==
  /\ play \in {"start", "stop", "over"}
  /\ task \in Nat \ {0}
  /\ at \in [Hosts -> Nat]
  /\ running \subseteq Units
  /\ play # "over" => task <= Len(Tasks) /\ \A h \in Hosts : at[h] <= Len(Items)

(* A host is out of the play only when it was lost: its other items fail   *)
(* without it.                                                             *)
OnlyLostAreOut == \A h \in Hosts : h \in lost \/ h \in active

(* What the host of a unit has come to: an earlier task, or an item of the *)
(* current one that it has done.                                           *)
Reached(u) == \/ u[2] \in ItemsBefore(Tasks, task)
              \/ \E n \in 1..at[u[1]] : Items[n] = u[2]

(* Every unit its host has come to is as the play wants it.  Between two   *)
(* tasks TasksInOrder speaks of the earlier tasks only; the invariant also *)
(* keeps the items done of the current one, which the next task will count *)
(* among the earlier.                                                      *)
ReachedAreSettled ==
  play # "over" =>
    \A u \in Units : Reached(u) /\ u[1] \notin lost /\ u \notin failed
                       => (u \in running <=> play = "start")

PlayInv == PlayType /\ OnlyLostAreOut /\ ReachedAreSettled

-----------------------------------------------------------------------------
(***************************************************************************)
(* The plays and the inventory.                                            *)
(***************************************************************************)

(* Both plays are lists of tasks, a task the list of its services.         *)
IsList(l) == Len(l) \in Nat /\ DOMAIN l = 1..Len(l)

LEMMA PlaysAreLists ==
  /\ IsList(StartTasks) /\ Len(StartTasks) = 15
  /\ IsList(StopTasks) /\ Len(StopTasks) = 3
  /\ \A j \in 1..15 : IsList(StartTasks[j])
  /\ \A j \in 1..3 : IsList(StopTasks[j])
<1>1. IsList(StartTasks) /\ Len(StartTasks) = 15
  BY DEF StartTasks, IsList
<1>2. IsList(StopTasks) /\ Len(StopTasks) = 3
  BY DEF StopTasks, IsList
<1>3. \A j \in 1..15 : IsList(StartTasks[j])
  BY DEF StartTasks, IsList
<1>4. \A j \in 1..3 : IsList(StopTasks[j])
  BY DEF StopTasks, IsList
<1> QED  BY <1>1, <1>2, <1>3, <1>4

LEMMA TasksAreLists ==
  /\ IsList(Tasks) /\ 1 <= Len(Tasks)
  /\ \A j \in 1..Len(Tasks) : IsList(Tasks[j])
<1>1. CASE play = "start"
  <2>1. Tasks = StartTasks
    BY <1>1 DEF Tasks
  <2> QED  BY <2>1, PlaysAreLists
<1>2. CASE play # "start"
  <2>1. Tasks = StopTasks
    BY <1>2 DEF Tasks
  <2> QED  BY <2>1, PlaysAreLists
<1> QED  BY <1>1, <1>2

(* A unit is a service of a host of the inventory.                         *)
LEMMA UnitsAreOnHosts == \A u \in Units : u[1] \in Hosts /\ u = <<u[1], u[2]>>
BY DEF Units, Hosts

(* Each unit is the item of a task of either play.                         *)
LEMMA EveryUnitIsAnItem ==
  ASSUME NEW u \in Units
  PROVE  \E j \in DOMAIN Tasks : \E n \in DOMAIN Tasks[j] : Tasks[j][n] = u[2]
<1>1. \E j \in DOMAIN StartTasks : \E n \in DOMAIN StartTasks[j] : StartTasks[j][n] = u[2]
  BY DEF Units, StartTasks
<1>2. \E j \in DOMAIN StopTasks : \E n \in DOMAIN StopTasks[j] : StopTasks[j][n] = u[2]
  BY DEF Units, StopTasks
<1> QED  BY <1>1, <1>2 DEF Tasks

-----------------------------------------------------------------------------
(***************************************************************************)
(* The invariant.                                                          *)
(***************************************************************************)

LEMMA PlayInitially == Init => PlayInv
<1> SUFFICES ASSUME Init PROVE PlayInv
  OBVIOUS
<1> USE DEF Init
<1>1. IsList(Items) /\ task <= Len(Tasks)
  BY TasksAreLists DEF Items, IsList
<1>2. PlayType
  BY <1>1 DEF PlayType, NoItems, IsList
<1>3. OnlyLostAreOut
  BY DEF OnlyLostAreOut
<1>4. \A u \in Units : ~Reached(u)
  <2>1. ItemsBefore(Tasks, 1) = {}
    BY DEF ItemsBefore
  <2> QED  BY <2>1, UnitsAreOnHosts DEF Reached, NoItems
<1> QED  BY <1>2, <1>3, <1>4 DEF PlayInv, ReachedAreSettled

(* An item done brings its host to one unit more, and leaves the tasks and *)
(* what the other hosts have come to as they were.                         *)
LEMMA AnItemReachesOneUnit ==
  ASSUME PlayType, NEW h \in Hosts, Begins(h)
  PROVE  /\ PlayType' <=> (running \subseteq Units)'
         /\ \A u \in Units : Reached(u)' => Reached(u) \/ u = Unit(h)
<1> USE DEF PlayType, Begins
<1>1. Tasks' = Tasks /\ Items' = Items
  BY DEF Tasks, Items
<1>2. IsList(Items)
  BY TasksAreLists DEF Items
<1>3. PlayType' <=> (running \subseteq Units)'
  BY <1>1, <1>2 DEF IsList
<1>4. ASSUME NEW u \in Units, Reached(u)', ~Reached(u)
      PROVE  u = Unit(h)
  <2>1. u[1] \in Hosts /\ u = <<u[1], u[2]>>
    BY UnitsAreOnHosts
  <2>2. PICK n \in 1..at'[u[1]] : Items[n] = u[2]
    BY <1>1, <1>4 DEF Reached
  <2>3. n \notin 1..at[u[1]]
    BY <1>4, <2>2 DEF Reached
  <2>4. u[1] = h /\ n = at[h] + 1
    BY <2>1, <2>2, <2>3
  <2> QED  BY <2>1, <2>2, <2>4 DEF Unit
<1> QED  BY <1>3, <1>4

LEMMA PlayStep == PlayInv /\ [Next]_vars => PlayInv'
<1> SUFFICES ASSUME PlayInv, [Next]_vars PROVE PlayInv'
  OBVIOUS
<1> USE DEF PlayInv
(* the items *)
<1>1. ASSUME NEW h \in Hosts, DoItem(h) PROVE PlayInv'
  <2>1. Begins(h)
    BY <1>1 DEF DoItem
  <2>2. PlayType'
    BY <1>1, <2>1, AnItemReachesOneUnit DEF DoItem, PlayType
  <2>3. OnlyLostAreOut'
    BY <1>1 DEF DoItem, Begins, OnlyLostAreOut
  <2>4. ReachedAreSettled'
    <3> SUFFICES ASSUME NEW u \in Units, Reached(u)', u[1] \notin lost', u \notin failed'
                 PROVE  u \in running' <=> play' = "start"
      BY DEF ReachedAreSettled
    <3>1. play' = play /\ lost' = lost /\ failed' = failed /\ play # "over"
      BY <1>1 DEF DoItem, Begins
    <3>2. CASE Reached(u)
      <4>1. u \in running <=> play = "start"
        BY <3>1, <3>2 DEF ReachedAreSettled
      <4> QED  BY <1>1, <3>1, <4>1 DEF DoItem
    <3>3. CASE u = Unit(h)
      BY <1>1, <3>1, <3>3 DEF DoItem
    <3> QED  BY <2>1, <3>2, <3>3, AnItemReachesOneUnit
  <2> QED  BY <2>2, <2>3, <2>4
<1>2. ASSUME NEW h \in Hosts, ItemFails(h) PROVE PlayInv'
  <2>1. Begins(h)
    BY <1>2 DEF ItemFails
  <2>2. PlayType'
    BY <1>2, <2>1, AnItemReachesOneUnit DEF ItemFails, PlayType
  <2>3. OnlyLostAreOut'
    BY <1>2 DEF ItemFails, Begins, OnlyLostAreOut
  <2>4. ReachedAreSettled'
    <3> SUFFICES ASSUME NEW u \in Units, Reached(u)', u[1] \notin lost', u \notin failed'
                 PROVE  u \in running' <=> play' = "start"
      BY DEF ReachedAreSettled
    <3>1. /\ play' = play /\ lost' = lost /\ running' = running /\ play # "over"
          /\ failed' = failed \cup {Unit(h)}
      BY <1>2 DEF ItemFails, Begins
    <3>2. Reached(u)
      BY <2>1, <3>1, AnItemReachesOneUnit
    <3> QED  BY <3>1, <3>2 DEF ReachedAreSettled
  <2> QED  BY <2>2, <2>3, <2>4
<1>3. ASSUME NEW h \in Hosts, Unreachable(h) PROVE PlayInv'
  <2> USE <1>3 DEF Unreachable
  <2>1. Tasks' = Tasks /\ Items' = Items
    BY DEF Tasks, Items
  <2>2. PlayType'
    BY <2>1 DEF PlayType
  <2>3. OnlyLostAreOut'
    BY DEF OnlyLostAreOut
  <2>4. \A u \in Units : Reached(u)' <=> Reached(u)
    BY <2>1 DEF Reached
  <2>5. ReachedAreSettled'
    BY <2>4 DEF ReachedAreSettled
  <2> QED  BY <2>2, <2>3, <2>5
(* the next task counts the items of this one among the earlier *)
<1>4. CASE NextTask
  <2> USE <1>4 DEF NextTask
  <2>1. Tasks' = Tasks
    BY DEF Tasks
  <2>2. IsList(Tasks) /\ task + 1 \in 1..Len(Tasks) /\ task \in 1..Len(Tasks)
    BY TasksAreLists DEF PlayType, IsList
  <2>3. IsList(Items) /\ IsList(Items)'
    BY <2>1, <2>2, TasksAreLists DEF Items
  <2>4. PlayType'
    BY <2>1, <2>2, <2>3 DEF PlayType, NoItems, IsList
  <2>5. OnlyLostAreOut'
    BY DEF OnlyLostAreOut
  <2>6. ReachedAreSettled'
    <3> SUFFICES ASSUME NEW u \in Units, Reached(u)', u[1] \notin lost, u \notin failed
                 PROVE  Reached(u)
      BY <2>1 DEF ReachedAreSettled
    <3>1. u[1] \in Hosts /\ at[u[1]] = Len(Items)
      BY UnitsAreOnHosts DEF OnlyLostAreOut, TaskOver
    <3>2. u[2] \in ItemsBefore(Tasks, task + 1)
      BY <2>1, <3>1 DEF Reached, NoItems
    <3>3. PICK j \in 1..task : \E n \in DOMAIN Tasks[j] : u[2] = Tasks[j][n]
      BY <2>2, <3>2 DEF ItemsBefore
    <3>4. CASE j = task
      BY <2>3, <3>1, <3>3, <3>4 DEF Reached, Items, IsList
    <3>5. CASE j # task
      <4>1. j \in 1..(task - 1)
        BY <2>2, <3>5
      <4> QED  BY <3>3, <4>1 DEF Reached, ItemsBefore
    <3> QED  BY <3>4, <3>5
  <2> QED  BY <2>4, <2>5, <2>6
(* a play begins with nothing reached *)
<1>5. CASE NextPlay
  <2> USE <1>5 DEF NextPlay
  <2>1. IsList(Items)' /\ (1 <= Len(Tasks))'
    <3>1. (IsList(Tasks) /\ 1 <= Len(Tasks) /\ \A j \in 1..Len(Tasks) : IsList(Tasks[j]))'
      BY TasksAreLists, PTL
    <3> QED  BY <3>1 DEF Items, IsList
  <2>2. PlayType'
    BY <2>1 DEF PlayType, NoItems, IsList
  <2>3. OnlyLostAreOut'
    BY DEF OnlyLostAreOut
  <2>4. \A u \in Units : ~Reached(u)'
    <3>1. (ItemsBefore(Tasks, task) = {})'
      BY DEF ItemsBefore
    <3> QED  BY <3>1, UnitsAreOnHosts DEF Reached, NoItems
  <2>5. ReachedAreSettled'
    BY <2>4 DEF ReachedAreSettled
  <2> QED  BY <2>2, <2>3, <2>5
<1>6. CASE UNCHANGED vars
  <2> USE <1>6 DEF vars
  <2>1. Tasks' = Tasks /\ Items' = Items
    BY DEF Tasks, Items
  <2>2. PlayType' /\ OnlyLostAreOut'
    BY <2>1 DEF PlayType, OnlyLostAreOut
  <2>3. \A u \in Units : Reached(u)' <=> Reached(u)
    BY <2>1 DEF Reached
  <2>4. ReachedAreSettled'
    BY <2>3 DEF ReachedAreSettled
  <2> QED  BY <2>2, <2>4
<1> QED  BY <1>1, <1>2, <1>3, <1>4, <1>5, <1>6 DEF Next

LEMMA PlayInvAlways == Spec => []PlayInv
BY PlayInitially, PlayStep, PTL DEF Spec

-----------------------------------------------------------------------------
(***************************************************************************)
(* What the plays promise.                                                 *)
(***************************************************************************)

(* However the hosts interleave and whatever fails, a unit changes only    *)
(* when the units of every earlier task of the play, on whichever host,    *)
(* have changed, unless their item failed or their host was lost: the      *)
(* order that "Démarrage ordonné" and "Arrêt ordonné" announce.            *)
THEOREM PlaysKeepTheOrder == Spec => TasksInOrder
<1>1. ASSUME PlayInv, [Next]_vars, running' # running
      PROVE  Settled(ItemsBefore(Tasks, task))
  <2>1. play # "over"
    BY <1>1 DEF Next, DoItem, ItemFails, Unreachable, Begins, NextTask, NextPlay, vars
  <2> QED  BY <1>1, <2>1 DEF PlayInv, ReachedAreSettled, Reached, Settled
<1>2. PlayInv /\ [Next]_vars
        => [running' # running => Settled(ItemsBefore(Tasks, task))]_vars
  BY <1>1
<1> QED  BY <1>2, PlayInvAlways, PTL DEF Spec, TasksInOrder

(* What a service comes after is started by an earlier task than itself:   *)
(* of the two tasks that list them, the one of the need has the lower      *)
(* number.                                                                 *)
LEMMA NeedsAreListedBefore ==
  \A pair \in After : \A k \in 1..15 :
    (\E n \in DOMAIN StartTasks[k] : StartTasks[k][n] = pair[1])
      => pair[2] \in ItemsBefore(StartTasks, k)
<1>1. \A pair \in After : \A k \in 1..15 :
        (\E n \in DOMAIN StartTasks[k] : StartTasks[k][n] = pair[1])
          => \E j \in 1..(k - 1) : \E n \in DOMAIN StartTasks[j] : StartTasks[j][n] = pair[2]
  BY DEF After, StartTasks
<1> QED  BY <1>1 DEF ItemsBefore

(* In the start play a unit is started only when all that its unit file    *)
(* puts before it, wherever it is installed, runs, unless that has failed  *)
(* itself or its host was lost: the order of the tasks agrees with After=, *)
(* and the plays keep it whatever the hosts' speeds and faults.            *)
THEOREM NeedsComeFirst == Spec => NeedsStarted
<1>1. ASSUME PlayInv, [Next]_vars, NEW u \in running' \ running, NEW need \in Units,
             <<u[2], need[2]>> \in After
      PROVE  need \in running \/ need \in failed \/ need[1] \in lost
  <2>1. PICK h \in Hosts : DoItem(h)
    BY <1>1 DEF Next, ItemFails, Unreachable, NextTask, NextPlay, vars
  <2>2. play = "start" /\ u = Unit(h) /\ at[h] < Len(Items)
    BY <1>1, <2>1 DEF DoItem, Begins
  <2>3. Tasks = StartTasks /\ task \in 1..15
    <3>1. Tasks = StartTasks
      BY <2>2 DEF Tasks
    <3>2. task \in Nat \ {0} /\ task <= Len(Tasks)
      BY <1>1, <2>2 DEF PlayInv, PlayType
    <3> QED  BY <3>1, <3>2, PlaysAreLists
  <2>4. at[h] + 1 \in DOMAIN StartTasks[task] /\ StartTasks[task][at[h] + 1] = u[2]
    <3>1. at[h] \in Nat /\ IsList(Items)
      BY <1>1, <2>3, PlaysAreLists DEF PlayInv, PlayType, Items
    <3>2. at[h] + 1 \in DOMAIN Items
      BY <2>2, <3>1 DEF IsList
    <3> QED  BY <2>2, <2>3, <3>2 DEF Unit, Items
  <2>5. need[2] \in ItemsBefore(Tasks, task)
    BY <1>1, <2>3, <2>4, NeedsAreListedBefore
  <2> QED  BY <1>1, <2>2, <2>5 DEF PlayInv, ReachedAreSettled, Reached
<1>2. PlayInv /\ [Next]_vars
        => [\A u \in running' \ running, need \in Units :
              <<u[2], need[2]>> \in After
                => need \in running \/ need \in failed \/ need[1] \in lost]_vars
  BY <1>1
<1> QED  BY <1>2, PlayInvAlways, PTL DEF Spec, NeedsStarted

(* At the end of a play, with any number of failed items and lost hosts,   *)
(* every unit is as the play wants it, but those that failed themselves    *)
(* and those of the lost hosts.                                            *)
THEOREM FaultsCostOnlyTheirOwn == Spec => []FaultsStayLocal
<1>1. PlayInv => FaultsStayLocal
  <2> SUFFICES ASSUME PlayInv, play # "over", task = Len(Tasks), TaskOver,
                      NEW u \in Units, u[1] \notin lost, u \notin failed
               PROVE  u \in running <=> play = "start"
    BY DEF FaultsStayLocal, Settled
  <2>1. u[1] \in Hosts /\ at[u[1]] = Len(Items)
    BY UnitsAreOnHosts DEF PlayInv, OnlyLostAreOut, TaskOver
  <2>2. PICK j \in DOMAIN Tasks : \E n \in DOMAIN Tasks[j] : Tasks[j][n] = u[2]
    BY EveryUnitIsAnItem
  <2>3. j \in 1..task /\ task \in 1..Len(Tasks) /\ IsList(Items)
    BY <2>2, TasksAreLists DEF IsList, Items
  <2>4. CASE j = task
    BY <2>1, <2>2, <2>3, <2>4 DEF PlayInv, ReachedAreSettled, Reached, Items, IsList
  <2>5. CASE j # task
    <3>1. j \in 1..(task - 1)
      BY <2>3, <2>5
    <3>2. u[2] \in ItemsBefore(Tasks, task)
      BY <2>2, <3>1 DEF ItemsBefore
    <3> QED  BY <3>2 DEF PlayInv, ReachedAreSettled, Reached
  <2> QED  BY <2>4, <2>5
<1> QED  BY <1>1, PlayInvAlways, PTL

=============================================================================
