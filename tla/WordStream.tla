------------------------------- MODULE WordStream -------------------------------
(***************************************************************************)
(* The streaming word counts over lines that are sent one after the other, *)
(* and the batch job over the same lines.  program is the one that is run: *)
(*   stateful  stateful_network_wordcount.py: running counts, from a       *)
(*             start of one "hello" and one "world"                        *)
(*   network   network_wordcount.py, and hdfs_wordcount.py with one line   *)
(*             to a file: the counts of each batch                         *)
(*   sql       sql_network_wordcount.py: the same from a view, with every  *)
(*             exception passed over in silence                            *)
(*   kafka     reading_from_kafka.ipynb: running counts of a topic         *)
(* Lines are named by their place in sent.  A program that is killed may   *)
(* be started again: no checkpoint is ever read back.                      *)
(***************************************************************************)
EXTENDS WordJobs

CONSTANTS Lines, Hello, World,
          NoResult,      \* the directory resultat does not exist
          MaxLines,      \* bounds the lines sent
          MaxStarts      \* bounds how often the program is started

(* A line is the sequence of its parts.                                    *)
ASSUME LinesAssumption == Lines \subseteq Seq(Parts)

Programs == {"stateful", "network", "sql", "kafka"}

VARIABLES program,
          sent,       \* the lines sent, which are also the topic's messages
          up,         \* the program runs
          starts,
          inbox,      \* lines the receiver has, or will have, for the next batch
          offset,     \* how much of the topic the query has read
          view,       \* the temporary view "words"
          table,      \* what was printed last
          ingested,   \* history: lines of the batches since the last start
          swallowed,  \* history: those whose batch has failed in silence
          printed,    \* history: the sum of the tables printed since then
          resultat,   \* the batch job's result
          seen        \* history: how many lines it has counted

stream == <<up, starts, inbox, offset, view, table, ingested, swallowed, printed>>
vars == <<program, sent, stream, resultat, seen>>

Plus(a, b) == [p \in Parts |-> a[p] + b[p]]

InitialState == [p \in Parts |-> IF p \in {Hello, World} THEN 1 ELSE 0]

Init ==
  /\ program \in Programs
  /\ sent = <<>> /\ up = FALSE /\ starts = 0
  /\ inbox = {} /\ offset = 0 /\ view = {} /\ table = Nothing
  /\ ingested = {} /\ swallowed = {} /\ printed = Nothing
  /\ resultat = NoResult /\ seen = 0

-----------------------------------------------------------------------------
StartUp(kinds) ==
  /\ program \in kinds
  /\ ~up /\ starts < MaxStarts
  /\ up' = TRUE /\ starts' = starts + 1
  /\ view' = {} /\ ingested' = {} /\ swallowed' = {} /\ printed' = Nothing
  /\ UNCHANGED <<program, sent, inbox, resultat, seen>>

(* A new context, and the initial state again.                             *)
StartStream ==
  /\ StartUp({"stateful", "network", "sql"})
  /\ table' = IF program = "stateful" THEN InitialState ELSE Nothing
  /\ UNCHANGED offset

(* Mutant: startingOffsets is "latest", which is the default.              *)
StartQueryLatest ==
  /\ StartUp({"kafka"})
  /\ offset' = Len(sent) /\ table' = Nothing

(* The topic is read from its earliest message.                            *)
StartQuery ==
  /\ StartUp({"kafka"})
  /\ offset' = 0 /\ table' = Nothing

(* A line sent while no program is connected may wait or be lost.          *)
Send ==
  /\ Len(sent) < MaxLines
  /\ \E line \in Lines : sent' = Append(sent, line)
  /\ \/ program # "kafka" /\ inbox' = inbox \cup {Len(sent) + 1}
     \/ (program = "kafka" \/ ~up) /\ inbox' = inbox
  /\ UNCHANGED <<program, up, starts, offset, view, table, ingested, swallowed, printed,
                 resultat, seen>>

(* The receiver's lines are cut off every second; an empty interval is a   *)
(* batch too.                                                              *)
TakeBatch(kinds) ==
  /\ up /\ program \in kinds
  /\ inbox' = {} /\ ingested' = ingested \cup inbox
  /\ UNCHANGED <<program, sent, up, starts, offset, resultat, seen>>

(* updateFunc, for every word of the state and of the batch.               *)
StatefulBatch ==
  /\ TakeBatch({"stateful"})
  /\ table' = Plus(Counts(sent, inbox), table)
  /\ UNCHANGED <<view, swallowed, printed>>

NetworkBatch ==
  /\ TakeBatch({"network"})
  /\ table' = Counts(sent, inbox)
  /\ printed' = Plus(printed, table')
  /\ UNCHANGED <<view, swallowed>>

(* Mutant: the query stands after the try statement, so that it counts the *)
(* view of an earlier batch when this one has none.                        *)
SqlBatchStale ==
  /\ TakeBatch({"sql"})
  /\ view' = IF inbox = {} THEN view ELSE inbox
  /\ table' = Counts(sent, view')
  /\ printed' = Plus(printed, table')
  /\ UNCHANGED swallowed

(* createDataFrame raises on a batch without a row.                        *)
SqlBatch ==
  /\ TakeBatch({"sql"})
  /\ IF inbox = {}
       THEN UNCHANGED <<view, table, printed>>
       ELSE /\ view' = inbox
            /\ table' = Counts(sent, view')
            /\ printed' = Plus(printed, table')
  /\ UNCHANGED swallowed

(* Anything else that raises, before or after the view is replaced, is     *)
(* passed over as well: the batch is never shown, and the program goes on. *)
SqlBatchFails ==
  /\ inbox # {}
  /\ TakeBatch({"sql"})
  /\ view' \in {view, inbox}
  /\ swallowed' = swallowed \cup inbox
  /\ UNCHANGED <<table, printed>>

(* A trigger reads what the topic has.                                     *)
KafkaBatch ==
  /\ up /\ program = "kafka"
  /\ offset < Len(sent)
  /\ offset' = Len(sent)
  /\ table' = Plus(table, Counts(sent, (offset + 1)..Len(sent)))
  /\ UNCHANGED <<program, sent, up, starts, inbox, view, ingested, swallowed, printed,
                 resultat, seen>>

Batch == StatefulBatch \/ NetworkBatch \/ SqlBatch \/ SqlBatchFails \/ KafkaBatch

(* What the receiver has is gone with it.                                  *)
Crash ==
  /\ up /\ up' = FALSE
  /\ inbox' = {}
  /\ UNCHANGED <<program, sent, starts, offset, view, table, ingested, swallowed, printed,
                 resultat, seen>>

(* wordcount.ipynb, wordcount.py, over a file of the lines so far; Spark   *)
(* refuses to write into a directory that exists.                          *)
RunBatchJob ==
  /\ resultat = NoResult
  /\ resultat' = BatchCounts(sent) /\ seen' = Len(sent)
  /\ UNCHANGED <<program, sent, stream>>

Next == StartStream \/ StartQuery \/ Send \/ Batch \/ Crash \/ RunBatchJob

Spec == Init /\ [][Next]_vars

(* Spark's timer ends every interval, and triggers the query again.        *)
FairSpec == Spec /\ WF_vars(Batch)

-----------------------------------------------------------------------------
Counted == IF program = "kafka" THEN 1..offset ELSE ingested \ swallowed

(* What the program has told its user about the lines it has counted.      *)
Told(p) ==
  CASE program = "stateful" -> table[p] - InitialState[p]
    [] program = "kafka"    -> table[p]
    [] OTHER                -> printed[p]

(* However the lines fall into batches, and however often the program has  *)
(* been restarted, each line it has taken in since is counted once: none   *)
(* is printed twice, nothing survives from before, and none is missing     *)
(* but those of a batch whose exception the sql program has swallowed: a   *)
(* view that such a batch has left behind is not counted for a later one.  *)
EachLineOnce == starts > 0 => \A p \in Parts : Told(p) = Counts(sent, Counted)[p]

(* The only part of the lines of the batch job in which w is found.        *)
StandsAlone(w) ==
  \A i \in 1..seen : \A j \in DOMAIN sent[i] : \A k \in DOMAIN Pieces[sent[i][j]] :
    Pieces[sent[i][j]][k] = w => sent[i][j] = w

(* Over the same lines the streams, which cut at blanks, and the batch     *)
(* job, which cuts at tabs too, agree on every word that never has a tab   *)
(* beside it; the streams never count a word more often, and what is no    *)
(* word, an empty part or one with a tab, is counted by them alone.        *)
StreamMeetsBatch ==
  resultat # NoResult /\ starts > 0 /\ Counted = 1..seen
    => /\ \A w \in Words : Told(w) <= resultat[w]
       /\ \A w \in Words : StandsAlone(w) => Told(w) = resultat[w]
       /\ \A p \in Parts \ Words : resultat[p] = 0

(* A query on the topic that is not killed for ever counts all of it, also *)
(* what was sent while it was down.                                        *)
TopicCounted ==
  (program = "kafka" /\ <>[]up) => <>[](table = Counts(sent, DOMAIN sent))

(* mrjob/code/wordcount.py: whichever words it drops are no longer than    *)
(* those it keeps, unless a line has taken both places with one word.      *)
LongestKept ==
  LET kept  == TopWords(sent)
      words == UNION {{Split(sent[i])[j] : j \in DOMAIN Split(sent[i])} : i \in DOMAIN sent}
      twice(i) == Len(MapperGetWords(sent[i])) = 2
                    /\ MapperGetWords(sent[i])[1] = MapperGetWords(sent[i])[2]
  IN  /\ \A k \in DOMAIN kept : kept[k] \in words
      /\ Len(kept) = 2 => kept[1] # kept[2]
      /\ \A w \in words : kept # <<>> /\ Length[w] <= Length[kept[1]]
      /\ (\A i \in DOMAIN sent : ~twice(i)) =>
           \A w \in words : \/ \E k \in DOMAIN kept : kept[k] = w
                            \/ Len(kept) = 2 /\ Length[w] <= Length[kept[2]]
=============================================================================
