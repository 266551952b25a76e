---------------------------- MODULE RollPipelineV1 ----------------------------
(***************************************************************************)
(* emargement/pipeline.py, the first version of the roll pipeline.  Around *)
(* the signature loop it treats files as RollPipeline does: the same       *)
(* listing, the same copies beside the originals, the same workbook at the *)
(* end, the same removal.  These actions are taken from there.             *)
(*                                                                         *)
(* What differs is the signature loop.  There is no OpenCV measure and no  *)
(* fallback: the crop of each signature cell goes to the vision model, and *)
(* an entry that no answer reaches stays "inconnu".  An answer is given to *)
(* the entry whose number is the grid row's, plus the entries of the whole *)
(* image once per earlier table, which Docling is asked for anew.          *)
(***************************************************************************)
EXTENDS RollPipeline

CONSTANT NoOne          \* no answer has been given to the entry

VARIABLE skip_vision    \* --skip-vision

varsV1 == <<vars, skip_vision>>

-----------------------------------------------------------------------------
(* Mutant: no verdict is returned when the request has failed.             *)
AskVisionModelNone(reply) ==
  IF reply = NoReply THEN NoReply
  ELSE IF reply.yes THEN "oui" ELSE IF reply.no THEN "non" ELSE "inconnu"

(* "yes" is looked for before "no".                                        *)
AskVisionModel(reply) ==
  IF reply = NoReply THEN "inconnu"
  ELSE IF reply.yes THEN "oui" ELSE IF reply.no THEN "non" ELSE "inconnu"

(* judged is history: the grid row whose crop the last answer was about;   *)
(* row 0, and those below it, are further header rows.                     *)
EntriesV1 == [voter    : Voters,
              a_emarge : Verdicts,
              judged   : (Photos \X Nat \X Int) \cup {NoOne},
              source   : Files]

NewEntryV1(voter) ==
  [voter |-> voter, a_emarge |-> "inconnu", judged |-> NoOne, source |-> img]

(* Which printed row the n-th grid row below the first one is.             *)
GridVoter == <<img[1], t, n + 1 - Len(Table.headers)>>

(* The entry an answer about the current grid row is given to.  Docling is *)
(* taken to find the same rows each time it reads the same copy.           *)
GlobalRow == (t - 1) * Len(rows) + n

(* Mutant: the last conjunct is left out; ollama_ok is TRUE when vision is *)
(* skipped.                                                                *)
AskingUnlessDown == ollama_ok

Asking == ollama_ok /\ ~skip_vision

-----------------------------------------------------------------------------
InitV1 == Init /\ skip_vision \in BOOLEAN

(* Each run has its own options.                                           *)
StartRunV1 ==
  /\ pc = "idle" /\ runs < MaxRuns
  /\ folder # {}
  /\ pc' = "next"
  /\ listed' = folder /\ todo' = folder
  /\ skip_vision' \in BOOLEAN
  /\ \E available \in BOOLEAN : ollama_ok' = (skip_vision' \/ available)
  /\ all_rows' = <<>> /\ tmp_files' = <<>>
  /\ runs' = runs + 1
  /\ UNCHANGED <<paper, disk, image, failures, missed>>

ExtractRowV1 ==
  /\ pc = "extract"
  /\ t <= Len(Page) /\ n <= Len(Table.rows)
  /\ rows' = IF Table.rows[n].known THEN Append(rows, NewEntryV1(<<img[1], t, n>>))
                                    ELSE rows
  /\ n' = n + 1
  /\ UNCHANGED <<paper, disk, pc, listing, img, t, row_offset, all_rows,
                 tmp_files, tallies, skip_vision>>

-----------------------------------------------------------------------------
(* The signature loop.                                                     *)

AtTable == pc = "detect" /\ Asking /\ t <= Len(Page)

InGridV1 == AtTable /\ ~IsEmpty(Table) /\ Table.emarg

Located == n <= Len(DataGrid(Table)) /\ DataGrid(Table)[n].cell # NoCrop

(* Nobody is asked: the entries keep "inconnu".                            *)
SkipVision ==
  /\ pc = "detect" /\ ~Asking
  /\ t <= Len(Page)
  /\ t' = Len(Page) + 1
  /\ UNCHANGED <<paper, disk, pc, listing, img, rows, n, row_offset, all_rows,
                 tmp_files, tallies, skip_vision>>

SkipTableV1 ==
  /\ AtTable
  /\ IsEmpty(Table) \/ ~Table.emarg
  /\ t' = t + 1
  /\ UNCHANGED <<paper, disk, pc, listing, img, rows, n, row_offset, all_rows,
                 tmp_files, tallies, skip_vision>>

(* Mutant: the rows are counted table by table, without an offset.         *)
AskRowNoOffset ==
  /\ InGridV1 /\ Located
  /\ \E reply \in Replies :
       rows' = IF n > Len(rows) THEN rows
               ELSE [rows EXCEPT ![n].a_emarge = AskVisionModel(reply),
                                 ![n].judged   = GridVoter]
  /\ n' = n + 1
  /\ UNCHANGED <<paper, disk, pc, listing, img, t, row_offset, all_rows,
                 tmp_files, tallies, skip_vision>>

(* The crop is sent before the entry's number is known: an answer that     *)
(* belongs to no entry is dropped.                                         *)
AskRow ==
  /\ InGridV1 /\ Located
  /\ \E reply \in Replies :
       rows' = IF GlobalRow > Len(rows) THEN rows
               ELSE [rows EXCEPT ![GlobalRow].a_emarge = AskVisionModel(reply),
                                 ![GlobalRow].judged   = GridVoter]
  /\ n' = n + 1
  /\ UNCHANGED <<paper, disk, pc, listing, img, t, row_offset, all_rows,
                 tmp_files, tallies, skip_vision>>

(* The grid row is too short, or its cell cannot be cut out.               *)
SkipRowV1 ==
  /\ InGridV1
  /\ n <= Len(DataGrid(Table)) /\ ~Located
  /\ n' = n + 1
  /\ UNCHANGED <<paper, disk, pc, listing, img, rows, t, row_offset, all_rows,
                 tmp_files, tallies, skip_vision>>

(* The rest of the table is given up: OpenCV cannot encode the crop, or    *)
(* Docling raises while it is asked for the offset, which it is in every   *)
(* table but the first.                                                    *)
AskRowRaises ==
  /\ "image" \in Faults \/ ("convert" \in Faults /\ t > 1)
  /\ InGridV1 /\ Located
  /\ t' = t + 1 /\ n' = 1
  /\ UNCHANGED <<paper, disk, pc, listing, img, rows, row_offset, all_rows,
                 tmp_files, tallies, skip_vision>>

NextTableV1 ==
  /\ InGridV1 /\ n > Len(DataGrid(Table))
  /\ t' = t + 1 /\ n' = 1
  /\ UNCHANGED <<paper, disk, pc, listing, img, rows, row_offset, all_rows,
                 tmp_files, tallies, skip_vision>>

-----------------------------------------------------------------------------
(* What both versions do alike.                                            *)

SharedStep ==
  /\ \/ CorrectAndSave \/ CorrectRaises
     \/ Convert \/ ConvertRaises
     \/ ExtractNextTable \/ ExtractDone
     \/ FinishImage
     \/ OpenBook \/ OpenRaises \/ SaveBook
     \/ RemoveTmp \/ RemoveRaises \/ EndRun
  /\ UNCHANGED skip_vision

KillV1 == Kill /\ UNCHANGED skip_vision

StepV1 == \/ SharedStep
          \/ ExtractRowV1
          \/ SkipVision \/ SkipTableV1
          \/ AskRow \/ SkipRowV1 \/ AskRowRaises \/ NextTableV1

NextV1 == StartRunV1 \/ StepV1 \/ KillV1

SpecV1 == InitV1 /\ [][NextV1]_varsV1

-----------------------------------------------------------------------------
TypeOKV1 ==
  /\ rows \in Seq(EntriesV1) /\ all_rows \in Seq(EntriesV1)
  /\ book \in [rows : Seq(EntriesV1), n_img : Nat, ollama_ok : BOOLEAN]
              \cup {NoBook, TornBook}
  /\ t \in Nat \ {0} /\ n \in Nat \ {0} /\ row_offset = 0
  /\ skip_vision \in BOOLEAN

(* Who is judged by what: an answer about one voter's crop is never given  *)
(* to another voter (pipeline.py:532), when every table has one header row *)
(* and no blank row.                                                       *)
RightVoter ==
  \A i \in DOMAIN all_rows :
    all_rows[i].judged \in {NoOne, all_rows[i].voter}

(* A run that was told to skip vision sends no crop to the model, although *)
(* its ollama_ok says that the model is there (pipeline.py:469, 500).      *)
NothingAskedWhenSkipped ==
  skip_vision =>
    \A i \in DOMAIN all_rows :
      all_rows[i].a_emarge = "inconnu" /\ all_rows[i].judged = NoOne

(* pipeline.py:535 speaks of the offset of the tables before: in a run     *)
(* with vision the answer about each voter whose signature cell can be cut *)
(* out reaches the voter, in whichever table of the photo.                 *)
EveryTableJudged ==
  pc = "remove" /\ Asking =>
    \A i \in DOMAIN all_rows :
      LET voter == all_rows[i].voter
          table == scans[voter[1]][voter[2]]
      IN  table.emarg /\ table.rows[voter[3]].cell # NoCrop
            => all_rows[i].judged # NoOne
=============================================================================
