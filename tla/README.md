# Verification of the `test-servers` repository

TLA+ models of the programs of this repository, the TLC runs that check them on
small instances, and TLAPS proofs of their main properties for every instance.
`PROJECT.json` lists the components, runs, mutants, findings, hazards and theorems,
and maps each definition to the lines it translates.

## 1. Inventory

Most of the repository configures third-party software (Compose files, Ansible
roles, exporter rules). The parts with logic of their own:

| Component | State | Operations | What is hard |
|---|---|---|---|
| `emargement/pipelinev2.py` (electoral rolls, v2) | the photo folder, the corrected copies in it, the workbook; per run: the listing, the rows, two loop indices and an offset | list, correct and copy, extract, judge each signature, export, remove the copies | position-based pairing of two passes; failure at each step; leftovers read as input; a vision service that comes and goes |
| `emargement/pipeline.py` (v1) | as above | as above, without OpenCV | offset of the signature loop; errors inside a table |
| `airflow/` DAG files | task instances, XCom, files in `/tmp` that runs share | sensor, retries, fan-out and fan-in, report, mail, clean-up | overlapping runs, retries of tasks that have had their effect, a sensor that times out |
| `spark-lab/spark-apps`, `spark-kafka` (word counts) | the running counts, the offset in the topic, the temporary view, the result directory | receive, batch, print; start again; batch job | lines lost or counted twice around a restart, swallowed exceptions |
| `mrjob/code/wordcount.py` | none | mapper, reducer | which words survive the mapper |
| `bigdata-cluster-docker/ansible/playbooks` | the services of five hosts | start and stop playbooks | hosts that work side by side, unreachable hosts, ignored errors |
| `bigdata-cluster-docker` otherwise, `spark-lab/cluster.sh`, `nifi/start.sh`, Compose files | containers, keys | start-up | see section 5 |

Interaction: the v2 pipeline calls Docling (reads the copy, returns tables), Ollama
(HTTP, timeouts) and the file system. The other components do not call each other;
Airflow tasks and cluster playbooks run shell commands on shared files and hosts.

What makes each part correct: for the rolls, that each voter is counted once with a
verdict from the voter's own signature, that the originals survive and that the
copies disappear; for the crops, that they lie in the image and keep their order;
for the detector, that its verdict is final and monotone; for the DAGs, that a task
finds what it reads, that every run ends, that what overlapping runs do to one
file goes together; for the cluster, that services start and stop in order and a failure
stays where it is; for the word counts, that no line is counted twice, and none forgotten
but those of a batch that failed.

## 2. Modules

| Module | Models | Notes |
|---|---|---|
| `SignatureDetection` | `detect_signature`, `detect_signature_cv`, `detect_signature_vision` | operators only. A crop is its ink density in per-mille and its number of contours; confidences are integers, multiples of 1/`One`. A reply is whether the first 30 characters hold "yes" and "no", or that the request failed |
| `DetectorCall`, `MCSignatureDetection` | one call of `detect_signature`, and the results it gives | the properties of the results; the grid of crops for TLC |
| `CropGeometry` | `resolve_bbox`, `crop_from_bbox`, `crop_from_row_position`, and the two attempts of `process_folder` | a row is the boxes of its first and of its signature cell; fixed-point coordinates; `int()` truncates towards zero; rounding of floats is not modelled |
| `MCCropGeometry` | rows of boxes and image sizes | |
| `ElectoralRoll` | the data: photos, Docling's grid and tables, entries, workbooks | a table has its header rows, its data rows, and whether a signature column was found |
| `RollPipeline` | `process_folder`, run after run over one folder | one action per statement group that can fail or be interrupted; see below |
| `RollExport` | the abstract specification: what a workbook promises | `RollPipeline` implements it |
| `MCRollPipeline` | layouts for TLC | |
| `RollPipelineV1`, `MCRollPipelineV1` | `process_folder` of `pipeline.py` | extends `RollPipeline` and takes its actions on files; see below |
| `AirflowGraphs` | the eight DAG files: tasks, arrows, retries | a DAG is a record; the arrows are written as sets of pairs |
| `AirflowDag` | Airflow's scheduler, as the files rely on it | external; see below |
| `AirflowTasks` | what the commands and callables do to files and XCom | |
| `MCAirflow` | the plans of runs for TLC | |
| `WordJobs` | the counts and the two longest words, as functions of the lines | |
| `WordStream`, `MCWords` | four streaming programs and the batch job | |
| `ClusterPlays` | the start and stop playbooks on the inventory's hosts | its instance is the inventory itself |
| `SignatureDetectionProofs`, `CropGeometryProofs`, `AirflowProofs`, `WordStreamProofs`, `ClusterPlaysProofs` | theorems about the module of that name | |
| `RollPipelineProofs` | theorems about files and rows of v2 | |
| `RollVerdictProofs` | theorems about the verdicts of v2; its refinement of `RollExport` | extends the former |
| `RollPipelineV1Proofs` | theorems about v1 | extends `RollPipelineV1` and takes lemmas of the former |

How `RollPipeline` follows the code. `pc` is where the program is: `idle` (no
process), `next` (head of the image loop), `convert` (inside `extract`'s call of
Docling), `extract` (its row loop), `detect` (the signature loop), `save`
(`wb.save`), `remove` (the removal loop). The other variables have the names of the
code: `rows`, `all_rows`, `tmp_files`, `row_offset`, `ollama_ok`; `t` and `n` are the
loop indices, `todo` the part of `images` still to come. Names of files are pairs
`<<p, k>>`: photo `p` with `k` times `_corrected.jpg` appended, because a copy that is
listed is copied again. A file name is assumed not to be another photo's name
followed by `_corrected.jpg` from the outset. Only one process works on a folder at a
time.

What may go wrong is the constant `Faults`: the process is killed at any step;
`correct_orientation` raises (it is outside the `try` statements); `cv2.imwrite`
returns `False`, unread; Docling raises; the workbook cannot be opened; a copy cannot
be removed. Two variables are history: `failures` counts the runs that were cut short
and the removals that failed, `missed` says whether a clean-up loop ever left a copy.

External behaviour, as the code uses it: Docling makes a data frame of the rows below
the header rows and a grid of all rows, and names the columns by numbers when there is
no header row (line 415 converts the names for that reason; `emargement_col_idx`,
called on a fresh data frame at line 754, does not). openpyxl truncates the file when
it starts to write.

`RollExport` has two variables, the scans and the workbook, and two steps: the file is
truncated, and it becomes complete. When it is complete it holds, for some set of
images, all voters of each image once and in order, with a result the detector can give
for the voter's own signature. The refinement mapping is the identity on both variables.

How `RollPipelineV1` follows `pipeline.py`. Listing, copying, extraction table by
table, export and removal are the statements of v2 in the same order, so their actions
are those of `RollPipeline` (`SharedStep`). Its own are the start of a run
(`ollama_ok` is true when vision is skipped), the entries, which begin as `inconnu`, and
the signature loop. There each crop goes to the vision model, and its answer to the entry
with number `GlobalRow`: the row of the table plus, once per earlier table, the number of
entries on the whole image, for which Docling reads the copy again. Docling is taken to
find the same entries each time, and may raise each time (then the `try` gives up the
rest of the table). The field `judged` of an entry is history: the grid row that the
last answer was about. Whether a crop can be cut out is part of the layout.

How the Airflow modules follow the DAG files. A plan is a sequence of DAGs, one for each
run; two entries may be the same DAG, because a daily run that takes long is still there
when the next begins (`airflow/apache/logs/dag_id=uvt_example` holds two scheduled runs
whose sensors poked at the same time), and nothing in the files forbids it. An instance
is `<<run, task>>`. Its state is `none` until it succeeds, fails for good, or is written
off (`upstream_failed`); `tries` counts failed attempts. An attempt is one step, at its
effect: what happens while a command runs is a fault, `error` (nothing was done, or half
of it: the directory without its status file, a report or a part of one without its path
in XCom, the report removed and the directory not) or `lost` (all was done, and
the attempt counts as failed). An attempt that a task's worker goes on with after it was
given up is not modelled. Besides faults, an attempt fails when its command does:
`tar` and `rm` without their file, the mail without its attachment, the comparison with
a missing result. The sensor's timeout raises an exception that is not retried (the logs
say "Immediate failure requested").

How the word counts follow the programs. One of the four programs runs in a behaviour;
lines are named by their place in `sent`, so that counting one twice shows. A line that
is sent while nobody listens waits or is lost; for the topic it is there. The parts of a
line are what `split(" ")` gives, with `Empty` for doubled blanks. `split()` also cuts at
tabs and other white space: `Pieces` says which words it finds within a part, one in a
plain word, none in `Empty` or in a lone tab, several in a part with a tab inside, and
`Split` takes them part after part. The values that `reducer_count_words` gets are taken in the
order of the lines; the shuffle may bring them in another, which decides which of two
words of one length is kept and nothing else, and no property looks at that.

`process` in `sql_network_wordcount.py` passes over every exception. `SqlBatch` has the one
of an empty batch, from which no data frame can be made; `SqlBatchFails` any other, before
or after the view is replaced: the lines are gone, nothing is shown, and the program goes
on. The history variable `swallowed` keeps them apart from the lines that were shown. In
the other programs a batch that fails for good ends the program, which is `Crash`.
`stateful_network_wordcount.py` writes a checkpoint and never recovers from it, the
notebook names no checkpoint, so each start begins anew. `printed` adds up the tables of
the programs that print each batch by itself.

How `ClusterPlays` follows the playbooks. A task is the list of its items; the start
play's tasks have one each. A host that is not in the group of a task, or has no such
unit, goes past the item. Which host has which unit is what the groups of the start
play's `when` and `hosts.ini` say. A unit's change is the end of `systemctl`; the pauses,
and whether a started service is ready, are left out. So is a command or a connection that
hangs: `ansible_ssh_timeout` in `hosts.ini` bounds connecting only, and nothing here says
that a play ends. `After` is what the unit files of the roles have in `After=`, which
systemd honours within one host.

## 3. Runs

| Run | Instance | Shows |
|---|---|---|
| `signature` | 12 densities around 8 and 35 per-mille, 0 to 3 contours, all replies | final verdicts, vision only breaks ties, more ink stays signed |
| `crops` | 200 boxes in pairs, 2 image sizes | crops lie in the image; on a page in fractions or percentages places are kept |
| `faulty_runs` | 2 photos, 1 voter each, 2 runs, all faults | refinement of `RollExport`; originals kept; generations bounded; self-healing; no voter twice until a run is cut short |
| `layouts` | 2 photos, 5 layouts (two voters, blank row, two headers, no header, tables without rows or signature column), faults | types; every entry judged, images whole |
| `leftovers`, `blank_row` | 1 photo | findings: voters counted twice, verdicts shifted |
| `v1_runs` | v1; 1 photo with one of 2 layouts, 2 runs, all faults | no voter gets the answer about another; a run without vision judges nobody |
| `v1_later_tables` | v1; 1 photo, two tables, no fault | finding: no answer reaches the second table |
| `dags` | each DAG alone; two runs of `new.py`, two of `hmida.py`; 1 retry, 2 faults, 2 files brought | types; a task that is due finds what it reads; a run that looks successful is; mails validated, `/tmp` clean, no file used twice; every run ends |
| `words` | 3 lines of 4 kinds, 2 starts, each program | every line counted once, but those of a swallowed batch; streams and batch job agree where they can; the topic is counted in full; longest words kept |
| `cluster` | 5 hosts, 15 services, 1 fault | units change in the order of the tasks, and after what their unit files name; a failure stays local |
| `stop_order` | the same, no fault | finding: `spark-master` may stop before the workers' `spark-worker`, and the namenode before the datanodes |

Bounds. `MaxRuns` bounds the number of runs. Two runs are the shortest history in
which one run meets what another has left; two photos are needed for a failure between
images; two tables of different lengths, one of them empty, for the offset. For
the rolls nothing else is bounded: the generations of copies and the failures are bounded through
`MaxRuns`. `CHECK_DEADLOCK FALSE`: the program ends, and no more runs are started than
`MaxRuns`.

For v1, the tables have one header row and no blank row (`blank_row` shows for v2 what
happens otherwise); the page with a second full table is the one on which a wrong offset
would hand answers to the voters of the first.

`MCRollPipelineV1` assumes `PlainLayouts`, the hypothesis of some theorems of section 4: TLC
evaluates it in the runs of v1.

For the DAGs, `MaxRetries` caps the 2 and 3 retries of the files at 1: a task then fails
for good after two faults, or after one and a command that fails by itself, and
`MaxFaults = 2` lets that happen once, or lets one attempt be lost in each of two runs.
Two runs are enough for one to meet the other's file; the theorems cover any number, and
any number of retries and faults. Three lines let a batch be empty, hold one line, or two;
two starts let a program meet what it left. `MaxFaults = 1` of the cluster is one failed
unit or one lost host at any point of either play. `CHECK_DEADLOCK FALSE` there, too: all
tasks are over, all lines sent, both plays done.

Fairness is assumed in two places only. For the DAGs, weak fairness of
`Step`: the scheduler loops as long as an attempt can be made or a task written off, and
every attempt ends (the sensor by its timeout); bringing the file is not fair. For the
words, weak fairness of `Batch`, Spark's timer; lines, kills and restarts are not fair,
and `TopicCounted` speaks of a query that is up from some point on. The loops of
`process_folder` and the lists of the playbooks are finite by their shape; what could keep
them from ending is a call that hangs, and nothing in the code rules that out in general,
so that no property says they end.

Each property has a mutant: a bug of the code in the definition named there that TLC
finds with the run's own configuration.

## 4. Proofs

Proved for all values of the constants, from the named assumptions of the modules
(finitely many photos, layouts that are sequences of tables, null values outside the
sets they stand beside). Every safety property of a passing run is the conclusion of a
theorem; two of them (`PromiseKept`, `RightVoter`) need the hypothesis `PlainLayouts`,
see below.

**Detector** (`SignatureDetectionProofs`), for any set of inked crops and any thresholds
that meet the assumptions of the modules:

* `ResultsAreWritable`, `VisionIsATieBreaker`: there are three ways to a result (no
  crop, the vision model, OpenCV alone), and the vision model is on one of them only. The
  first says as well that a vision model that was asked and did not answer leaves
  `inconnu`, whatever OpenCV would have guessed, when OpenCV itself is not sure.
* `MoreInkIsStillSigned`: monotone in ink and strokes when there is no vision model. The
  interesting case is the ambiguous zone, where the guess compares the confidence with a
  half, which is the density with half of the higher threshold: more ink cannot turn a
  signed guess into an unsigned one, nor meet the condition of an unsigned crop.

**Crops** (`CropGeometryProofs`), whatever box Docling returns:

* `CutInsideImage`: a converted coordinate is an integer (the divisor is positive in each
  system), so that after padding and clamping the size test gives the bounds.
* `CellsKeepTheirPlaces`: two cells of a page that really is in fractions, or in
  percentages, keep their order. `InFractions` and `InPercent` are facts about the boxes;
  that `resolve_bbox`, which guesses box by box, then divides both by one scale is the
  first half of the proof (`FractionsScaled`, `PercentScaled`: a box that reaches 100 %
  is read as points and still divided by 100). The second half is that each
  step is monotone: multiplying by the image size, dividing by the scale and cutting off
  towards zero (`TruncMonotone`, on either side of zero), padding, clamping. For points and
  pixels it is false (section 5).

**Rolls, v2: files** (`RollPipelineProofs`):

* `TypeCorrect`: the type invariant, strengthened by "an image that is being processed
  is a listed file".
* `OriginalsNeverRemoved`, `GenerationsBounded`, `HealsItself`: from the inductive
  invariant `DiskInv`. `OriginalsKept` is not inductive by itself: it needs that
  `tmp_files` names copies only. The generation bound needs that no listed file is of a
  generation above the number of failures and that every newer copy is on the list for
  removal. Healing needs that, as long as no clean-up loop has missed a copy, the file a
  copy was made of is still in the folder: then a run that lists the copy makes it again
  and so removes it.

**Rolls, v2: rows** (`RollPipelineProofs`):

* `BooksAreWhole`: the entries of the image are in order, and their voters are the
  voters of the scan that the row loop has passed (`RowsInv`); an image whose extraction
  raised adds none. So the workbook holds, for the set of images it names, the voters of
  each one, each once and in order (`IsRollOf`). A voter is the triple of photo, table
  and row and the order is on triples, hence no sequence has to be flattened.
* `NobodyCountedTwice`: while no run was cut short and no removal has failed, the
  workbook's entries come from originals only (`BookInv`, from `DiskInv`), so that one
  voter comes from one file.

**Rolls, v2: verdicts** (`RollVerdictProofs`):

* `EveryEntryJudged`: for every layout. There are no more entries than rows in the
  tables, `row_offset` is never less than the rows of the tables before, and the entries
  below the loop's position are judged (`JudgeInv`). `Offsets` describes the sums of the
  tables' lengths without recursion; that they exist is proved by a least counterexample
  (`NatSetInduction`, from the well-foundedness of the natural numbers): induction over
  a set of numbers, not over an operator.
* `OwnSignatureJudged` and `PromiseIsKept` (the refinement of `RollExport`) assume
  `PlainLayouts`: each table has one header row and no blank rows. Then the number of an
  entry's grid row, which `process_folder` computes from its number in the list, is its
  own row. Without the hypothesis both are false, which the run `blank_row` shows; it is
  the condition under which the pairing by position is right, and a real roll may break
  it. The steps of the refinement: `wb.save` is the truncation, then the completion; all
  other steps stutter.

**Rolls, v1** (`RollPipelineV1Proofs`):

* `TypeCorrectV1`, for every layout. The number of the printed row that an answer is
  about is an integer, not a natural number: with several header rows the loop also cuts
  out header rows, which the history variable numbers 0 and below.
* `SkippedMeansUnasked`: a run that skips vision has `ollama_ok` true all the same; the
  invariant (`SkipInv`) is that none of its entries, in the image or before, has got an
  answer.
* `AnswersReachTheirVoter`, under `PlainLayouts`. While an image is in its loops, the
  entries of its first table stand first, row by row (`HomeInv`), so that their numbers
  are right. For a later table the offset is at least the number of all entries on the
  image, and the number is past the end: nobody gets the answer (the run
  `v1_later_tables` shows that side of it).

**Airflow** (`AirflowProofs`), for every sequence of runs of the files' DAGs:

* `InputsAreThere`: by the arrows of `new.py`. A task that is due has behind it the task
  that writes what it reads (`Ready`, file by file), and the attempt that wrote it is the
  last that touched it: half-done attempts clear or write only what their own task
  makes (`HalfDone`), and the clean-up is still to come.
* `FilesAreOwn`: by counting. The successes, plus one if the file is there, are at most
  the arrivals; that is inductive where `OwnFile` is not.
* `MailsAreValidated`, `NothingStays`: from `TmpInv`. What has succeeded did so after
  what is before it (`Closed`); therefore a run that writes the report, or makes the
  directory, has its clean-up still to come, and while either is there some run's
  clean-up is outstanding.
* `LastTasksDecide`: a set of tasks that holds the last ones and, with a task, all
  before it holds them all, in each of the eight graphs (`EveryTaskLeadsToALeaf`); by
  `Closed`, the tasks that have succeeded are such a set.

The assumptions of the Airflow theorems are that plans are sequences of the files' DAGs
and that the bounds are natural numbers.

**Word counts** (`WordStreamProofs`), for any lines, batches, crashes and restarts:

* `StreamsCountEachLineOnce`: a line that waits has been in no batch (`NoLineTwice`),
  and what a program keeps or has printed is the table of the lines that were in one
  (`TablesAreRight`), without those of the batches that the SQL program has passed over. A
  count is the cardinality of a set of places in the lines, and
  the cardinalities of disjoint sets add up.
* `StreamAgreesWithBatch`: a part that is a word is found by `split()` too, at a place of
  its own (`SplitFindsWords`, `AWordIsItsPiece`), so that the stream's places of a word go
  one to one into those of the batch job: it counts no less. If no other part of the lines
  has the word in it, beside a tab, they go onto them, and the counts are equal. What is no
  word is found nowhere (`OnlyWordsAreFound`).
* `LongestWordsKept`: sorting is described by ranks (`InOrder`: an element stands after
  those before it), without recursion. That the ranks are the numbers from 0 on, each
  once, is proved by counting (`RanksAreOneToOne`), and all else follows: `split()`, the
  stable sort of mapper and reducer, and the first finding of each word
  (`NewsAreFirst`). A word that the mapper drops has two beside it that are no shorter,
  which the reducer knows in two places, unless they are one word.

**Playbooks** (`ClusterPlaysProofs`): `PlaysKeepTheOrder`, `NeedsComeFirst` and
`FaultsCostOnlyTheirOwn`, for the inventory and any number of failed items and lost hosts, from `PlayInv`:

* Every unit that its host has come to, in an earlier task or in the current one, is as
  the play wants it, unless it failed or its host was lost (`ReachedAreSettled`).
  `TasksInOrder` speaks of the earlier tasks only; the items done of the current one
  have to be kept, too, because the next task counts them among the earlier.
* `NeedsComeFirst` needs besides that the start play lists what a unit file has in `After=`
  in an earlier task than the unit itself (`NeedsAreListedBefore`).
* `FaultsCostOnlyTheirOwn` needs besides that a host is out of the play only when it was
  lost (`OnlyLostAreOut`).

The strengthenings `DiskInv`, `PlayInv` and `StreamInv` were first checked with TLC.

Only model-checked:

* Liveness (`RunsFinish`, `TopicCounted`): it rests on fairness
  and `ENABLED`, which the provers do not cover.
* The findings (`ExactRoll`, `OwnVerdict`, `EveryTableJudged`, `WorkersStopFirst`), which
  are violations.

## 5. What is not modelled

* Rolls: image processing, OCR, the normalisation of fields, the styling of the sheets and
  the debug crops; the conversion of boxes in v1, which takes them for fractions of the
  page. The aspect ratio that `detect_signature_cv` computes takes no part in its decision,
  although its docstring lists it. Two processes on one folder.
* Places in points and pixels, about which nothing is claimed. `resolve_bbox` takes every
  box that reaches 100 and not 2000 for points and divides it by its own largest
  coordinate, so that it ends at an edge of the image. The comment above it
  (`pipelinev2.py:335` to 337) has 1000 for the limit, and pixels taken as they are from
  there on: in pixels, of two cells side by side, one ending at 1500 and one at 2100, the
  first is stretched over the second. Nor is anything claimed of a box within the
  first percent of a page in percentages, which is read as fractions.
* The column of the fallback. The docstring of `crop_from_row_position` (379 to 381) puts
  it at the end of the line, and `process_folder` (772 to 774) passes the box of the first
  cell for that of the line. The model does what the code does, `CutRow` with
  `row.first`, and no property calls the strip the signature's: `CropInImage` says that
  it lies in the image, and nothing more.
* The consensus that the comment at `pipelinev2.py:274` announces ("si les deux sont
  différents → inconnu"): the model is asked when OpenCV says "ambigu", so the two always
  differ, and the model's verdict is returned. `DetectSignature` follows the code.
* Airflow: schedules, retry delays, e-mail on failure, concurrent writing within one
  command. Nothing says that a mail carries its own run's report: with overlapping runs it
  may carry another's, or fail for want of one. Nothing says either that the mail of
  `examen.py`, which announces the end and success of the pipeline, comes after
  `push_to_prometheus`: no arrow does. What is shown is that all last tasks together
  tell how a run ended (`LeavesDecide`).
* Word counts: the first ten lines that `pprint` shows, topic retention, failures of Spark
  that it repairs itself. Which words `mrjob/code/wordcount.py` ought to give when the
  longest word of a line occurs twice in it is nowhere said: the mapper then sends nothing
  else of that line, and `LongestKept` claims nothing of the second word.
* `bigdata-cluster-docker` apart from the two playbooks: the roles of `site.yml` install
  and configure packages of third parties; the Makefile calls docker. The container
  scripts exchange keys, but the key pair is made when the image is built
  (`docker/base/Dockerfile`, section 5), so all containers have the same one and it is
  authorised already: neither `setup_ssh.sh` nor `make init-ssh` has anything to add.
* `spark-lab/cluster.sh` and `cluster.ps1`: docker commands one after the other, none of
  whose results is looked at. `nifi/start.sh`: property edits, then NiFi's own launcher.
* Compose files, notebooks with notes, exporter rules: no logic of their own.

## 6. Plan

1. `ExactRoll` under the conditions in which it holds: no failure, no copy left
   over, plain layouts. The run `leftovers` shows that the first two cannot be dropped.
2. For v1, the counterpart of `EveryEntryJudged` for the first table.
