----------------------------- MODULE AirflowGraphs -----------------------------
(***************************************************************************)
(* The DAG files of airflow/: the tasks of each DAG, the edges that its    *)
(* ">>" lines draw, and how often a task is retried (default_args).        *)
(***************************************************************************)
EXTENDS Naturals

(* a >> b, for all of two lists at once.                                   *)
Then(before, after) == {<<b, a>> : b \in before, a \in after}

Dag(edges, retries) ==
  [tasks   |-> {e[1] : e \in edges} \cup {e[2] : e \in edges},
   edges   |-> edges,
   retries |-> retries]

-----------------------------------------------------------------------------
(* DummyOperator only; the files give no retries, and neither does Airflow *)
(* by default.                                                             *)
Umbrella ==
  Dag({<<"fetch_weather_forecast", "clean_forecast_data">>,
       <<"fetch_sales_data", "clean_sales_data">>,
       <<"clean_forecast_data", "join_datasets">>,
       <<"clean_sales_data", "join_datasets">>,
       <<"join_datasets", "train_ml_model">>,
       <<"train_ml_model", "deploy_ml_model">>}, 0)

Dag1 == Dag({<<"t1", "t2">>}, 0)

Dag2 == Dag({<<"t1", "t2">>, <<"t2", "t3">>}, 0)

Dag3 == Dag({<<"t1", "t2">>, <<"t1", "t3">>}, 0)

Dag4 ==
  Dag(Then({"t1"}, {"t2", "t3"}) \cup Then({"t2", "t3"}, {"t4"})
      \cup {<<"t4", "t5">>} \cup Then({"t5"}, {"t6", "t7", "t8"})
      \cup {<<"t7", "t9">>} \cup Then({"t7", "t2", "t6"}, {"t10"}), 0)

DummyDags == {Umbrella, Dag1, Dag2, Dag3, Dag4}

-----------------------------------------------------------------------------
(* ml_fraud_detection_pipeline.  Some edges are drawn twice.               *)
Examen ==
  Dag({<<"extract_data", "preprocess_features">>,
       <<"preprocess_features", "train_model">>,
       <<"train_model", "evaluate_model">>,
       <<"evaluate_model", "register_model">>,
       <<"evaluate_model", "push_to_prometheus">>,
       <<"register_model", "notify_team">>,
       <<"evaluate_model", "generate_metrics_report">>,
       <<"generate_metrics_report", "notify_team">>,
       <<"train_model", "archive_artifacts">>,
       <<"archive_artifacts", "notify_team">>}, 2)

ProcessingEdges ==
  {<<"setup_environment", "process_data_task">>,
   <<"process_data_task", "validate_results">>,
   <<"validate_results", "generate_report">>,
   <<"generate_report", "send_report_email">>,
   <<"send_report_email", "cleanup">>,
   <<"process_data_task", "backup_data">>,
   <<"backup_data", "cleanup">>,
   <<"generate_report", "echo_send">>,
   <<"echo_send", "cleanup">>}

(* Mutant: the report is generated beside the validation, not after it.    *)
ProcessingUnvalidated ==
  Dag((ProcessingEdges \ {<<"validate_results", "generate_report">>})
        \cup {<<"process_data_task", "generate_report">>,
              <<"validate_results", "cleanup">>}, 3)

(* Mutant: the clean-up does not wait for the report's branch.             *)
ProcessingCleansEarly ==
  Dag(ProcessingEdges \ {<<"send_report_email", "cleanup">>,
                         <<"echo_send", "cleanup">>}, 3)

(* Mutant: the clean-up does not wait for the copy.                        *)
ProcessingCopiesLate ==
  Dag(ProcessingEdges \ {<<"backup_data", "cleanup">>}, 3)

(* complex_processing_pipeline.                                            *)
Processing == Dag(ProcessingEdges, 3)

UvtExample == Dag(Then({"wait_for_file"}, {"print_message", "run_bash_command"}), 1)

Dags == DummyDags \cup {Examen, Processing, UvtExample}
=============================================================================
