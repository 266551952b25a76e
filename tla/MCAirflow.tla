------------------------------- MODULE MCAirflow -------------------------------
(* Each DAG in a run of its own, and two overlapping runs of the two whose *)
(* tasks share files.                                                      *)
EXTENDS AirflowTasks

OneEach == {<<d>> : d \in Dags}
Overlapping == {<<Processing, Processing>>, <<UvtExample, UvtExample>>}
MCPlans == OneEach \cup Overlapping
=============================================================================
