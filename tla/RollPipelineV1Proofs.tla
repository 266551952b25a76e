------------------------- MODULE RollPipelineV1Proofs -------------------------
(***************************************************************************)
(* What holds of emargement/pipeline.py for every set of photos, any       *)
(* number of runs and any faults.                                          *)
(***************************************************************************)
EXTENDS RollPipelineV1, RollVerdictProofs

-----------------------------------------------------------------------------
(* Types.                                                                  *)

BooksV1 == [rows : Seq(EntriesV1), n_img : Nat, ollama_ok : BOOLEAN]

(* What the two versions share: the files, the lists of them, the loops.   *)
FilesType ==
  /\ scans \in [Photos -> Layouts]
  /\ IsFiniteSet(folder) /\ folder \subseteq Files
  /\ IsFiniteSet(listed) /\ listed \subseteq Files /\ todo \subseteq listed
  /\ img \in Files \cup {NoFile}
  /\ Busy => img \in Files
  /\ ollama_ok \in BOOLEAN

TypeInvV1 == TypeOKV1 /\ FilesType

LEMMA EmptyV1 == <<>> \in Seq(EntriesV1) /\ IsFiniteSet({})
BY EmptySeq, FS_EmptySet

LEMMA TypeInitV1 == InitV1 => TypeInvV1
<1> SUFFICES ASSUME InitV1 PROVE TypeInvV1
  OBVIOUS
<1>1. FilesType
  BY OriginalsFinite, FS_EmptySet DEF InitV1, Init, FilesType, Busy
<1>2. TypeOKV1
  BY EmptyV1 DEF InitV1, Init, TypeOKV1
<1> QED BY <1>1, <1>2 DEF TypeInvV1

LEMMA BusyPageV1 ==
  ASSUME TypeInvV1, Busy
  PROVE  /\ img \in Files /\ img[1] \in Photos
         /\ Page \in Seq(Tables) /\ Page \in Layouts /\ Page = scans[img[1]]
<1>1. img \in Files
  BY DEF TypeInvV1, FilesType
<1>2. img[1] \in Photos
  BY <1>1 DEF Files
<1>3. scans[img[1]] \in Layouts
  BY <1>2 DEF TypeInvV1, FilesType
<1> QED BY <1>1, <1>2, <1>3, LayoutsAssumption DEF Page

GridRowsAsked == Photos \X Nat \X Int

LEMMA AnswerIsVerdict ==
  ASSUME NEW reply \in Replies
  PROVE  AskVisionModel(reply) \in Verdicts
BY DEF AskVisionModel, Verdicts

(* The asking of one row: which entry the answer is given to, if any.      *)
LEMMA RowAsked ==
  ASSUME TypeInvV1, AskRow
  PROVE  \/ GlobalRow > Len(rows) /\ rows' = rows
         \/ /\ GlobalRow \in DOMAIN rows
            /\ rows' \in Seq(EntriesV1) /\ DOMAIN rows' = DOMAIN rows
            /\ \A i \in DOMAIN rows : rows'[i].voter = rows[i].voter
            /\ \A i \in DOMAIN rows : i # GlobalRow => rows'[i] = rows[i]
            /\ rows'[GlobalRow].judged = GridVoter
<1>1. /\ pc = "detect" /\ Busy /\ t <= Len(Page)
      /\ t \in Nat \ {0} /\ n \in Nat \ {0} /\ rows \in Seq(EntriesV1)
      /\ Len(rows) \in Nat /\ DOMAIN rows = 1..Len(rows)
  BY LenProperties DEF AskRow, InGridV1, AtTable, Busy, TypeInvV1, TypeOKV1
<1>2. img \in Files /\ img[1] \in Photos /\ Page \in Seq(Tables)
  BY <1>1, BusyPageV1
<1>3. Len(Table.headers) \in Nat
  BY <1>1, <1>2, TablesOf DEF Table
<1>4. GridVoter \in GridRowsAsked
  <2> DEFINE k == n + 1 - Len(Table.headers)
  <2>1. k \in Int
    BY <1>1, <1>3
  <2> HIDE DEF k
  <2>2. <<img[1], t, k>> \in Photos \X Nat \X Int
    BY <1>1, <1>2, <2>1
  <2> QED BY <2>2 DEF GridVoter, k, GridRowsAsked
<1>5. GlobalRow \in Nat \ {0}
  <2>1. t - 1 \in Nat
    BY <1>1
  <2>2. (t - 1) * Len(rows) \in Nat
    BY <1>1, <2>1
  <2> QED BY <1>1, <2>2 DEF GlobalRow
<1>6. PICK reply \in Replies :
        rows' = IF GlobalRow > Len(rows) THEN rows
                ELSE [rows EXCEPT ![GlobalRow].a_emarge = AskVisionModel(reply),
                                  ![GlobalRow].judged   = GridVoter]
  BY DEF AskRow
<1> HIDE DEF AskRow
<1>7. CASE GlobalRow > Len(rows)
  BY <1>6, <1>7
<1>8. CASE ~(GlobalRow > Len(rows))
  <2>1. GlobalRow \in 1..Len(rows)
    BY <1>1, <1>5, <1>8
  <2>2. rows' = [rows EXCEPT ![GlobalRow].a_emarge = AskVisionModel(reply),
                             ![GlobalRow].judged   = GridVoter]
    BY <1>6, <1>8
  <2> DEFINE v == AskVisionModel(reply)
             j == GridVoter
             g == GlobalRow
  <2>3. v \in Verdicts /\ j \in GridRowsAsked /\ g \in 1..Len(rows)
    BY <1>4, <2>1, AnswerIsVerdict
  <2>4. rows' = [rows EXCEPT ![g].a_emarge = v, ![g].judged = j]
    BY <2>2
  <2> HIDE DEF v, j, g
  <2>5. /\ rows' \in Seq(EntriesV1) /\ DOMAIN rows' = DOMAIN rows
        /\ \A i \in DOMAIN rows : rows'[i].voter = rows[i].voter
        /\ \A i \in DOMAIN rows : i # g => rows'[i] = rows[i]
        /\ rows'[g].judged = j
    <3> DEFINE e == [rows[g] EXCEPT !.a_emarge = v, !.judged = j]
    <3>1. rows[g] \in EntriesV1 /\ g \in DOMAIN rows
      BY <1>1, <2>3, ElementOfSeq
    <3>2. rows' = [rows EXCEPT ![g] = e]
      BY <2>4, <3>1
    <3>3. e \in EntriesV1 /\ e.voter = rows[g].voter /\ e.judged = j
      BY <2>3, <3>1 DEF EntriesV1, GridRowsAsked
    <3>4. rows' \in Seq(EntriesV1)
      BY <1>1, <2>3, <3>2, <3>3, ExceptSeq
    <3> HIDE DEF e
    <3>5. DOMAIN rows' = DOMAIN rows /\ rows'[g] = e /\ \A i \in DOMAIN rows : i # g => rows'[i] = rows[i]
      BY <3>1, <3>2
    <3> QED BY <3>3, <3>4, <3>5
  <2>6. g \in DOMAIN rows
    BY <1>1, <2>3
  <2> QED BY <2>5, <2>6 DEF g, j
<1> QED BY <1>7, <1>8

LEMMA RowExtracted ==
  ASSUME TypeInvV1, ExtractRowV1
  PROVE  /\ rows' \in Seq(EntriesV1)
         /\ \A i \in DOMAIN rows' :
              \/ i \in DOMAIN rows /\ rows'[i] = rows[i]
              \/ rows'[i].a_emarge = "inconnu" /\ rows'[i].judged = NoOne
         /\ \A i \in DOMAIN rows : i \in DOMAIN rows' /\ rows'[i] = rows[i]
         /\ Table.rows[n].known =>
              /\ Len(rows') = Len(rows) + 1
              /\ Len(rows) + 1 \in DOMAIN rows'
              /\ rows'[Len(rows) + 1].voter = <<img[1], t, n>>
<1> DEFINE e == NewEntryV1(<<img[1], t, n>>)
<1>1. /\ Busy /\ t \in Nat \ {0} /\ n \in Nat \ {0} /\ rows \in Seq(EntriesV1)
      /\ Len(rows) \in Nat /\ DOMAIN rows = 1..Len(rows)
  BY LenProperties DEF ExtractRowV1, Busy, TypeInvV1, TypeOKV1
<1>2. img \in Files /\ img[1] \in Photos
  BY <1>1, BusyPageV1
<1>3. /\ e \in EntriesV1 /\ e.voter = <<img[1], t, n>>
      /\ e.a_emarge = "inconnu" /\ e.judged = NoOne
  BY <1>1, <1>2 DEF NewEntryV1, EntriesV1, Voters, Verdicts
<1>4. rows' = IF Table.rows[n].known THEN Append(rows, e) ELSE rows
  BY DEF ExtractRowV1
<1> HIDE DEF e
<1>5. CASE Table.rows[n].known
  <2>1. /\ rows' \in Seq(EntriesV1)
        /\ DOMAIN rows' = 1..(Len(rows) + 1) /\ Len(rows') = Len(rows) + 1
        /\ \A i \in DOMAIN rows : rows'[i] = rows[i]
        /\ rows'[Len(rows) + 1] = e
    BY <1>1, <1>3, <1>4, <1>5, AppendProperties, LenProperties
  <2>2. \A i \in DOMAIN rows' : i \in DOMAIN rows \/ i = Len(rows) + 1
    BY <1>1, <2>1
  <2>3. Len(rows) + 1 \in DOMAIN rows' /\ \A i \in DOMAIN rows : i \in DOMAIN rows'
    BY <1>1, <2>1
  <2> QED BY <1>3, <2>1, <2>2, <2>3
<1>6. CASE ~Table.rows[n].known
  BY <1>1, <1>4, <1>6
<1> QED BY <1>5, <1>6

LEMMA CutShortTypeV1 ==
  ASSUME TypeInvV1, CutShort, UNCHANGED <<disk, skip_vision>>
  PROVE  TypeInvV1'
<1>1. FilesType'
  BY EmptyV1 DEF TypeInvV1, FilesType, CutShort, disk, Busy
<1>2. TypeOKV1'
  BY EmptyV1 DEF TypeInvV1, TypeOKV1, CutShort, disk
<1> QED BY <1>1, <1>2 DEF TypeInvV1

(* The steps of the loops over one image change nothing but rows, t and n. *)
LEMMA LoopTypeV1 ==
  ASSUME TypeInvV1, Busy, UNCHANGED <<paper, disk, listing, img, row_offset, all_rows, skip_vision>>,
         rows' \in Seq(EntriesV1), t' \in Nat \ {0}, n' \in Nat \ {0}
  PROVE  TypeInvV1'
<1>1. FilesType'
  BY DEF TypeInvV1, FilesType, paper, disk, listing, Busy
<1>2. TypeOKV1'
  BY DEF TypeInvV1, TypeOKV1, paper, disk, listing
<1> QED BY <1>1, <1>2 DEF TypeInvV1

LEMMA LoopStepV1 ==
  ASSUME TypeInvV1,
         \/ ExtractRowV1 \/ SkipVision \/ SkipTableV1
         \/ AskRow \/ SkipRowV1 \/ AskRowRaises \/ NextTableV1
  PROVE  TypeInvV1'
<1>1. /\ Busy /\ UNCHANGED <<paper, disk, listing, img, row_offset, all_rows, skip_vision>>
      /\ t \in Nat \ {0} /\ n \in Nat \ {0} /\ rows \in Seq(EntriesV1)
  BY DEF Busy, TypeInvV1, TypeOKV1, ExtractRowV1, SkipVision, SkipTableV1, AskRow, SkipRowV1,
         AskRowRaises, NextTableV1, InGridV1, AtTable
<1>2. CASE ExtractRowV1
  <2>1. rows' \in Seq(EntriesV1) /\ t' = t /\ n' = n + 1
    BY <1>2, RowExtracted DEF ExtractRowV1
  <2> QED BY <1>1, <2>1, LoopTypeV1
<1>3. CASE SkipVision
  <2>1. Len(Page) \in Nat
    BY <1>1, BusyPageV1, TablesOf
  <2>2. rows' = rows /\ t' = Len(Page) + 1 /\ n' = n
    BY <1>3 DEF SkipVision
  <2>3. t' \in Nat \ {0}
    BY <2>1, <2>2
  <2> QED BY <1>1, <2>2, <2>3, LoopTypeV1
<1>4. CASE AskRow
  <2>1. rows' \in Seq(EntriesV1) /\ t' = t /\ n' = n + 1
    BY <1>1, <1>4, RowAsked DEF AskRow
  <2> QED BY <1>1, <2>1, LoopTypeV1
<1>5. CASE SkipTableV1 \/ SkipRowV1 \/ AskRowRaises \/ NextTableV1
  <2>1. rows' = rows /\ t' \in Nat \ {0} /\ n' \in Nat \ {0}
    BY <1>1, <1>5 DEF SkipTableV1, SkipRowV1, AskRowRaises, NextTableV1
  <2> QED BY <1>1, <2>1, LoopTypeV1
<1> QED BY <1>2, <1>3, <1>4, <1>5

LEMMA SharedTypeV1 == TypeInvV1 /\ SharedStep => TypeInvV1'
<1> SUFFICES ASSUME TypeInvV1, SharedStep PROVE TypeInvV1'
  OBVIOUS
<1> USE DEF TypeInvV1, TypeOKV1, FilesType, Busy, paper, disk, listing, image
<1>1. skip_vision' = skip_vision
  BY DEF SharedStep
<1>2. CASE CorrectAndSave
  <2>1. PICK f \in todo : /\ img' = f
                          /\ todo' = todo \ {f}
                          /\ folder' \in {folder, folder \cup {Temp(f)}}
    BY <1>2 DEF CorrectAndSave
  <2>2. f \in Files /\ Temp(f) \in Files
    BY TempIsFile
  <2>3. folder' \subseteq Files /\ IsFiniteSet(folder')
    <3>1. folder \subseteq Files /\ IsFiniteSet(folder)
      OBVIOUS
    <3> QED BY ONLY <2>1, <2>2, <3>1, FS_AddElement
  <2> QED BY <1>1, <1>2, <2>1, <2>2, <2>3 DEF CorrectAndSave
<1>3. CASE CorrectRaises \/ OpenRaises
  BY <1>1, <1>3, CutShortTypeV1 DEF CorrectRaises, OpenRaises
<1>4. CASE Convert \/ ConvertRaises
  <2>1. CASE Convert
    BY <1>1, <2>1, EmptyV1 DEF Convert
  <2>2. CASE ConvertRaises
    BY <1>1, <2>2 DEF ConvertRaises
  <2> QED BY <1>4, <2>1, <2>2
<1>5. CASE ExtractNextTable \/ ExtractDone
  BY <1>1, <1>5 DEF ExtractNextTable, ExtractDone
<1>6. CASE FinishImage
  <2>1. all_rows' \in Seq(EntriesV1)
    BY <1>6, ConcatProperties DEF FinishImage
  <2> QED BY <1>1, <1>6, <2>1, EmptyV1 DEF FinishImage
<1>7. CASE OpenBook
  BY <1>1, <1>7 DEF OpenBook
<1>8. CASE SaveBook
  <2>1. book' \in BooksV1
    BY <1>8, FS_CardinalityType DEF SaveBook, BooksV1
  <2> QED BY <1>1, <1>8, <2>1 DEF SaveBook, BooksV1
<1>9. CASE RemoveTmp
  <2>1. folder' \subseteq Files /\ IsFiniteSet(folder')
    <3>1. folder \subseteq Files /\ IsFiniteSet(folder) /\ folder' = folder \ {Head(tmp_files)}
      BY <1>9 DEF RemoveTmp
    <3> QED BY ONLY <3>1, FS_RemoveElement
  <2> QED BY <1>1, <1>9, <2>1 DEF RemoveTmp
<1>10. CASE RemoveRaises
  <2>1. /\ UNCHANGED <<scans, folder, book, pc, listed, todo, ollama_ok>>
        /\ UNCHANGED <<img, rows, t, n, row_offset, all_rows>>
    BY <1>10 DEF RemoveRaises
  <2> QED BY <1>1, <2>1
<1>11. CASE EndRun
  BY <1>1, <1>11, EmptyV1 DEF EndRun
<1> QED BY <1>2, <1>3, <1>4, <1>5, <1>6, <1>7, <1>8, <1>9, <1>10, <1>11 DEF SharedStep

LEMMA TypeStepV1 == TypeInvV1 /\ [NextV1]_varsV1 => TypeInvV1'
<1> SUFFICES ASSUME TypeInvV1, [NextV1]_varsV1 PROVE TypeInvV1'
  OBVIOUS
<1>1. CASE StartRunV1
  BY <1>1, EmptyV1
  DEF StartRunV1, TypeInvV1, TypeOKV1, FilesType, Busy, paper, disk, image
<1>2. CASE SharedStep
  BY <1>2, SharedTypeV1
<1>3. CASE StepV1 /\ ~SharedStep
  BY <1>3, LoopStepV1 DEF StepV1
<1>4. CASE KillV1
  BY <1>4, CutShortTypeV1 DEF KillV1, Kill
<1>5. CASE UNCHANGED varsV1
  BY <1>5 DEF varsV1, vars, TypeInvV1, TypeOKV1, FilesType, Busy
<1> QED BY <1>1, <1>2, <1>3, <1>4, <1>5 DEF NextV1

(* The types of the entries and of the workbook of pipeline.py, whatever   *)
(* the layout: an answer may be about a second header row.                 *)
THEOREM TypeCorrectV1 == SpecV1 => []TypeOKV1
<1>1. TypeInvV1 => TypeOKV1
  BY DEF TypeInvV1
<1> QED BY TypeInitV1, TypeStepV1, <1>1, PTL DEF SpecV1

-----------------------------------------------------------------------------
(* The entries of the image and those of the images before it.             *)

InLoop == pc \in {"extract", "detect"}

(* The steps that make no entry and give no answer.                        *)
OtherSteps ==
  \/ StartRunV1 \/ KillV1
  \/ CorrectAndSave \/ CorrectRaises \/ ConvertRaises \/ OpenBook \/ OpenRaises
  \/ SaveBook \/ RemoveTmp \/ RemoveRaises \/ EndRun

LEMMA OtherStep ==
  ASSUME OtherSteps, SharedStep \/ StartRunV1 \/ KillV1
  PROVE  /\ ~InLoop'
         /\ all_rows' = <<>> \/ (all_rows' = all_rows /\ skip_vision' = skip_vision)
<1>1. CASE StartRunV1
  BY <1>1 DEF StartRunV1, InLoop
<1>2. CASE KillV1
  BY <1>2 DEF KillV1, Kill, CutShort, InLoop
<1>3. CASE SharedStep /\ ~StartRunV1 /\ ~KillV1
  <2>1. skip_vision' = skip_vision
    BY <1>3 DEF SharedStep
  <2>2. ~InLoop' /\ all_rows' \in {<<>>, all_rows}
    BY <1>3 DEF OtherSteps, InLoop, CorrectAndSave, CorrectRaises, ConvertRaises, OpenBook,
                OpenRaises, SaveBook, RemoveTmp, RemoveRaises, EndRun, CutShort
  <2> QED BY <2>1, <2>2
<1> QED BY <1>1, <1>2, <1>3

(* The steps over the tables that leave the entries alone.                 *)
QuietSteps == \/ ExtractNextTable \/ ExtractDone
              \/ SkipVision \/ SkipTableV1 \/ SkipRowV1 \/ AskRowRaises \/ NextTableV1

LEMMA QuietStep ==
  ASSUME QuietSteps, SharedStep \/ StepV1
  PROVE  InLoop /\ UNCHANGED <<scans, img, rows, all_rows, skip_vision>>
<1>1. CASE ExtractNextTable \/ ExtractDone
  <2>1. skip_vision' = skip_vision
    BY <1>1 DEF SharedStep, StepV1, ExtractRowV1, SkipVision, SkipTableV1, AskRow, SkipRowV1,
                AskRowRaises, NextTableV1
  <2> QED BY <1>1, <2>1 DEF InLoop, ExtractNextTable, ExtractDone, paper
<1>2. CASE SkipVision \/ SkipTableV1 \/ SkipRowV1 \/ AskRowRaises \/ NextTableV1
  BY <1>2 DEF SkipVision, SkipTableV1, SkipRowV1, AskRowRaises, NextTableV1, InGridV1, AtTable,
              InLoop, paper
<1> QED BY <1>1, <1>2 DEF QuietSteps

LEMMA KindsOfStep ==
  ASSUME [NextV1]_varsV1
  PROVE  \/ OtherSteps /\ (SharedStep \/ StartRunV1 \/ KillV1)
         \/ Convert /\ skip_vision' = skip_vision
         \/ ExtractRowV1
         \/ QuietSteps /\ (SharedStep \/ StepV1)
         \/ AskRow
         \/ FinishImage /\ skip_vision' = skip_vision
         \/ UNCHANGED varsV1
<1>1. CASE SharedStep
  BY <1>1 DEF SharedStep, OtherSteps, QuietSteps
<1>2. CASE ~SharedStep
  BY <1>2 DEF NextV1, StepV1, OtherSteps, QuietSteps
<1> QED BY <1>1, <1>2

-----------------------------------------------------------------------------
(* A run without vision.                                                   *)

Unasked(entries) ==
  \A i \in DOMAIN entries : entries[i].a_emarge = "inconnu" /\ entries[i].judged = NoOne

SkipInv == skip_vision => Unasked(all_rows) /\ (InLoop => Unasked(rows))

LEMMA SkipInit == InitV1 => SkipInv
BY DEF InitV1, Init, SkipInv, Unasked, InLoop

LEMMA SkipStep == TypeInvV1 /\ SkipInv /\ [NextV1]_varsV1 => SkipInv'
<1> SUFFICES ASSUME TypeInvV1, SkipInv, [NextV1]_varsV1 PROVE SkipInv'
  OBVIOUS
<1>1. CASE OtherSteps /\ (SharedStep \/ StartRunV1 \/ KillV1)
  <2>1. /\ ~InLoop'
        /\ all_rows' = <<>> \/ (all_rows' = all_rows /\ skip_vision' = skip_vision)
    BY <1>1, OtherStep
  <2>2. CASE all_rows' = <<>>
    BY <2>1, <2>2 DEF SkipInv, Unasked
  <2>3. CASE all_rows' = all_rows /\ skip_vision' = skip_vision
    BY <2>1, <2>3 DEF SkipInv, Unasked
  <2> QED BY <2>1, <2>2, <2>3
<1>2. CASE Convert /\ skip_vision' = skip_vision
  BY <1>2 DEF Convert, SkipInv, Unasked
<1>3. CASE ExtractRowV1
  <2>1. UNCHANGED <<all_rows, skip_vision, pc>> /\ InLoop
    BY <1>3 DEF ExtractRowV1, InLoop
  <2>2. Unasked(rows) => Unasked(rows')
    BY <1>3, RowExtracted DEF Unasked
  <2> QED BY <2>1, <2>2 DEF SkipInv, InLoop, Unasked
<1>4. CASE QuietSteps /\ (SharedStep \/ StepV1)
  <2>1. InLoop /\ rows' = rows /\ all_rows' = all_rows /\ skip_vision' = skip_vision
    BY <1>4, QuietStep
  <2> QED BY <2>1 DEF SkipInv, Unasked
<1>5. CASE AskRow
  <2>1. UNCHANGED <<all_rows, skip_vision>> /\ ~skip_vision
    BY <1>5 DEF AskRow, InGridV1, AtTable, Asking
  <2> QED BY <2>1 DEF SkipInv
<1>6. CASE FinishImage /\ skip_vision' = skip_vision
  <2>1. InLoop /\ ~InLoop'
    BY <1>6 DEF FinishImage, InLoop
  <2>2. rows \in Seq(EntriesV1) /\ all_rows \in Seq(EntriesV1)
    BY DEF TypeInvV1, TypeOKV1
  <2> DEFINE all == all_rows \o rows
  <2>3. \A i \in DOMAIN all : \/ \E j \in DOMAIN all_rows : all[i] = all_rows[j]
                             \/ \E j \in DOMAIN rows : all[i] = rows[j]
    BY <2>2, ConcatMembers
  <2>4. all_rows' = all
    BY <1>6 DEF FinishImage
  <2> HIDE DEF all
  <2>5. skip_vision => Unasked(all)
    BY <2>1, <2>3 DEF SkipInv, Unasked
  <2> QED BY <1>6, <2>1, <2>4, <2>5 DEF SkipInv, Unasked
<1>7. CASE UNCHANGED varsV1
  BY <1>7 DEF varsV1, vars, SkipInv, Unasked, InLoop
<1> QED BY <1>1, <1>2, <1>3, <1>4, <1>5, <1>6, <1>7, KindsOfStep

(* A run that was told to skip vision gives no entry an answer, whatever   *)
(* the run before it was told (ask_vision_model is called for no crop).    *)
THEOREM SkippedMeansUnasked == SpecV1 => []NothingAskedWhenSkipped
<1>1. SkipInv => NothingAskedWhenSkipped
  BY DEF SkipInv, Unasked, NothingAskedWhenSkipped
<1> QED BY TypeInitV1, TypeStepV1, SkipInit, SkipStep, <1>1, PTL DEF SpecV1

-----------------------------------------------------------------------------
(* Whose entry an answer is given to.  The entries of the first table come *)
(* first, row by row; of the later tables, global_idx is past the end.     *)

AtHome(k) == k \in DOMAIN rows /\ rows[k].voter = <<img[1], 1, k>>

HomeInv ==
  /\ pc = "extract" =>
       /\ t = 1 => Len(rows) = n - 1
       /\ Len(Page) >= 1 =>
            \A k \in DOMAIN Page[1].rows : (t > 1 \/ k < n) => AtHome(k)
  /\ (pc = "detect" /\ Len(Page) >= 1) =>
       \A k \in DOMAIN Page[1].rows : AtHome(k)

OwnAnswer(e) == e.judged \in {NoOne, e.voter}

RightInv == /\ RightVoter
            /\ InLoop => \A i \in DOMAIN rows : OwnAnswer(rows[i])

LEMMA RightInit == InitV1 => HomeInv /\ RightInv
BY DEF InitV1, Init, HomeInv, RightInv, RightVoter, InLoop

LEMMA PastTheEnd ==
  ASSUME NEW a \in Nat, NEW b \in Nat \ {0}, NEW c \in Nat \ {0}
  PROVE  b * a + c > a
<1>1. PICK d \in Nat : b = d + 1
  <2>1. b - 1 \in Nat /\ b = (b - 1) + 1
    OBVIOUS
  <2> QED BY <2>1
<1>2. b * a = d * a + a /\ d * a \in Nat
  BY <1>1
<1> QED BY <1>2

LEMMA RightAnswer ==
  ASSUME PlainLayouts, TypeInvV1, HomeInv, RightInv, AskRow
  PROVE  HomeInv' /\ RightInv'
<1>1. /\ pc = "detect" /\ pc' = "detect" /\ Busy /\ t <= Len(Page)
      /\ UNCHANGED <<scans, img, all_rows>>
      /\ n <= Len(DataGrid(Table)) /\ Table.rows # <<>>
      /\ t \in Nat \ {0} /\ n \in Nat \ {0} /\ rows \in Seq(EntriesV1)
      /\ Len(rows) \in Nat /\ DOMAIN rows = 1..Len(rows)
  BY LenProperties DEF AskRow, InGridV1, AtTable, Located, IsEmpty, Busy, TypeInvV1, TypeOKV1, paper
<1>2. /\ Page \in Seq(Tables) /\ Page \in Layouts /\ Page' = Page
      /\ Len(Page) \in Nat /\ DOMAIN Page = 1..Len(Page) /\ t \in 1..Len(Page)
  BY <1>1, BusyPageV1, TablesOf DEF Page
<1>3. /\ DOMAIN rows' = DOMAIN rows
      /\ \A i \in DOMAIN rows : rows'[i].voter = rows[i].voter
  BY <1>1, RowAsked
<1>4. HomeInv'
  BY <1>1, <1>2, <1>3 DEF HomeInv, AtHome
<1>5. ASSUME NEW i \in DOMAIN rows PROVE OwnAnswer(rows'[i])
  <2>1. CASE rows'[i] = rows[i]
    BY <1>1, <2>1 DEF RightInv, InLoop
  <2>2. CASE rows'[i] # rows[i]
    <3>1. i = GlobalRow /\ ~(GlobalRow > Len(rows)) /\ rows'[i].judged = GridVoter
      BY <1>1, <2>2, RowAsked
    <3>2. t = 1
      <4>1. t - 1 \in Nat /\ (t - 1 \in Nat \ {0} => GlobalRow > Len(rows))
        BY <1>1, PastTheEnd DEF GlobalRow
      <4> QED BY <1>1, <3>1, <4>1
    <3>3. i = n
      <4>1. (t - 1) * Len(rows) = 0
        BY <1>1, <3>2
      <4> QED BY <1>1, <3>1, <4>1 DEF GlobalRow
    <3>4. Table.headers \in Seq(GridRows) /\ Len(Table.headers) = 1
          /\ n \in DOMAIN Page[1].rows
      <4>1. Len(Table.headers) = 1 /\ Table = Page[1]
        BY <1>1, <1>2, <3>2 DEF PlainLayouts, IsEmpty, Table
      <4>2. Len(DataGrid(Table)) = Len(Table.rows)
        BY <1>1, <1>2, PlainTable DEF Table
      <4>3. DOMAIN Page[1].rows = 1..Len(Page[1].rows) /\ Len(Page[1].rows) \in Nat
            /\ Page[1].headers \in Seq(GridRows)
        BY <1>2, <3>2, TablesOf
      <4> QED BY <1>1, <4>1, <4>2, <4>3
    <3>5. GridVoter = <<img[1], 1, n>>
      <4>1. n + 1 - Len(Table.headers) = n
        BY <1>1, <3>4
      <4> QED BY <3>2, <4>1 DEF GridVoter
    <3>6. AtHome(n)
      BY <1>1, <1>2, <3>2, <3>4 DEF HomeInv
    <3> QED BY <1>3, <3>1, <3>3, <3>5, <3>6 DEF AtHome, OwnAnswer
  <2> QED BY <2>1, <2>2
<1> QED BY <1>1, <1>3, <1>4, <1>5 DEF RightInv, RightVoter, InLoop

LEMMA RightExtract ==
  ASSUME PlainLayouts, TypeInvV1, HomeInv, RightInv, ExtractRowV1
  PROVE  HomeInv' /\ RightInv'
<1>1. /\ pc = "extract" /\ pc' = "extract" /\ Busy /\ t' = t /\ n' = n + 1
      /\ UNCHANGED <<scans, img, all_rows>>
      /\ t <= Len(Page) /\ n <= Len(Table.rows)
      /\ t \in Nat \ {0} /\ n \in Nat \ {0} /\ rows \in Seq(EntriesV1) /\ Len(rows) \in Nat
  BY LenProperties DEF ExtractRowV1, Busy, TypeInvV1, TypeOKV1, paper
<1>2. /\ Page \in Seq(Tables) /\ Page \in Layouts /\ Page' = Page
      /\ Len(Page) \in Nat /\ t \in 1..Len(Page)
  BY <1>1, BusyPageV1, TablesOf DEF Page
<1>3. n \in DOMAIN Page[t].rows /\ Page[t].rows[n].known
  <2>1. n \in DOMAIN Page[t].rows
    BY <1>1, <1>2, TablesOf DEF Table
  <2> QED BY <1>2, <2>1, PlainTable
<1>4. /\ Len(rows') = Len(rows) + 1 /\ Len(rows) + 1 \in DOMAIN rows'
      /\ rows'[Len(rows) + 1].voter = <<img[1], t, n>>
      /\ \A i \in DOMAIN rows : i \in DOMAIN rows' /\ rows'[i] = rows[i]
      /\ \A i \in DOMAIN rows' : \/ i \in DOMAIN rows /\ rows'[i] = rows[i]
                                \/ rows'[i].judged = NoOne
  BY <1>3, RowExtracted DEF Table
<1>5. ASSUME NEW k \in DOMAIN Page[1].rows, t > 1 \/ k < n + 1 PROVE AtHome(k)'
  <2>1. k \in Nat
    BY <1>2, TablesOf
  <2>2. CASE t > 1 \/ k < n
    <3>1. AtHome(k)
      BY <1>1, <1>2, <2>2 DEF HomeInv
    <3> QED BY <1>1, <1>4, <3>1 DEF AtHome
  <2>3. CASE t = 1 /\ k = n
    <3>1. Len(rows) + 1 = n
      BY <1>1, <2>3 DEF HomeInv
    <3> QED BY <1>1, <1>4, <2>3, <3>1 DEF AtHome
  <2> QED BY <1>1, <1>5, <2>1, <2>2, <2>3
<1>6. HomeInv'
  <2>1. t' = 1 => Len(rows') = n' - 1
    BY <1>1, <1>4 DEF HomeInv
  <2> QED BY <1>1, <1>2, <1>5, <2>1 DEF HomeInv
<1>7. \A i \in DOMAIN rows' : OwnAnswer(rows'[i])
  BY <1>1, <1>4 DEF RightInv, InLoop, OwnAnswer
<1> QED BY <1>1, <1>6, <1>7 DEF RightInv, RightVoter, InLoop

LEMMA RightQuiet ==
  ASSUME TypeInvV1, HomeInv, RightInv, QuietSteps, SharedStep \/ StepV1
  PROVE  HomeInv' /\ RightInv'
<1>1. InLoop /\ UNCHANGED <<scans, img, rows, all_rows>>
  BY QuietStep
<1>2. /\ Page \in Seq(Tables) /\ Page' = Page /\ Len(Page) \in Nat
      /\ t \in Nat \ {0} /\ n \in Nat \ {0}
  BY <1>1, BusyPageV1, TablesOf DEF Page, InLoop, Busy, TypeInvV1, TypeOKV1
<1>3. Len(Page) >= 1 => Len(Page[1].rows) \in Nat /\ DOMAIN Page[1].rows = 1..Len(Page[1].rows)
  BY <1>2, TablesOf
<1>4. \A k : AtHome(k)' <=> AtHome(k)
  BY <1>1 DEF AtHome
<1>5. HomeInv'
  <2>1. CASE ExtractNextTable
    <3>1. /\ pc = "extract" /\ pc' = "extract" /\ t' = t + 1 /\ n' = 1
          /\ n > Len(Table.rows)
      BY <2>1 DEF ExtractNextTable
    <3>2. ASSUME Len(Page) >= 1, NEW k \in DOMAIN Page[1].rows PROVE AtHome(k)
      <4>1. t > 1 \/ k < n
        BY <1>2, <1>3, <3>1, <3>2 DEF Table
      <4> QED BY <3>1, <3>2, <4>1 DEF HomeInv
    <3> QED BY <1>2, <1>4, <3>1, <3>2 DEF HomeInv
  <2>2. CASE ExtractDone
    <3>1. pc = "extract" /\ pc' = "detect" /\ t > Len(Page)
      BY <2>2 DEF ExtractDone
    <3>2. Len(Page) >= 1 => t > 1
      BY <1>2, <3>1
    <3> QED BY <1>2, <1>4, <3>1, <3>2 DEF HomeInv
  <2>3. CASE SkipVision \/ SkipTableV1 \/ SkipRowV1 \/ AskRowRaises \/ NextTableV1
    <3>1. pc = "detect" /\ pc' = "detect"
      BY <2>3 DEF SkipVision, SkipTableV1, SkipRowV1, AskRowRaises, NextTableV1, InGridV1, AtTable
    <3> QED BY <1>2, <1>4, <3>1 DEF HomeInv
  <2> QED BY <2>1, <2>2, <2>3 DEF QuietSteps
<1> QED BY <1>1, <1>5 DEF RightInv, RightVoter

LEMMA RightStep ==
  ASSUME PlainLayouts
  PROVE  TypeInvV1 /\ HomeInv /\ RightInv /\ [NextV1]_varsV1 => HomeInv' /\ RightInv'
<1> SUFFICES ASSUME TypeInvV1, HomeInv, RightInv, [NextV1]_varsV1
             PROVE  HomeInv' /\ RightInv'
  OBVIOUS
<1>1. CASE OtherSteps /\ (SharedStep \/ StartRunV1 \/ KillV1)
  <2>1. ~InLoop' /\ (all_rows' = <<>> \/ all_rows' = all_rows)
    BY <1>1, OtherStep
  <2> QED BY <2>1 DEF HomeInv, RightInv, RightVoter, InLoop
<1>2. CASE Convert /\ skip_vision' = skip_vision
  <2>1. /\ pc' = "extract" /\ rows' = <<>> /\ t' = 1 /\ n' = 1 /\ Busy
        /\ UNCHANGED <<scans, img, all_rows>>
    BY <1>2 DEF Convert, paper, Busy
  <2>2. Page \in Seq(Tables) /\ Page' = Page /\ Len(Page) \in Nat
    BY <2>1, BusyPageV1, TablesOf DEF Page
  <2>3. Len(Page) >= 1 => \A k \in DOMAIN Page[1].rows : ~(k < 1)
    BY <2>2, TablesOf
  <2>4. HomeInv'
    BY <2>1, <2>2, <2>3, EmptySeq DEF HomeInv
  <2> QED BY <2>1, <2>4 DEF RightInv, RightVoter
<1>3. CASE ExtractRowV1
  BY <1>3, RightExtract
<1>4. CASE QuietSteps /\ (SharedStep \/ StepV1)
  BY <1>4, RightQuiet
<1>5. CASE AskRow
  BY <1>5, RightAnswer
<1>6. CASE FinishImage /\ skip_vision' = skip_vision
  <2>1. InLoop /\ ~InLoop'
    BY <1>6 DEF FinishImage, InLoop
  <2>2. rows \in Seq(EntriesV1) /\ all_rows \in Seq(EntriesV1)
    BY DEF TypeInvV1, TypeOKV1
  <2> DEFINE all == all_rows \o rows
  <2>3. \A i \in DOMAIN all : \/ \E j \in DOMAIN all_rows : all[i] = all_rows[j]
                             \/ \E j \in DOMAIN rows : all[i] = rows[j]
    BY <2>2, ConcatMembers
  <2>4. all_rows' = all
    BY <1>6 DEF FinishImage
  <2> HIDE DEF all
  <2>5. \A i \in DOMAIN all : OwnAnswer(all[i])
    BY <2>1, <2>3 DEF RightInv, RightVoter, OwnAnswer
  <2> QED BY <2>1, <2>4, <2>5 DEF HomeInv, RightInv, RightVoter, OwnAnswer, InLoop
<1>7. CASE UNCHANGED varsV1
  BY <1>7 DEF varsV1, vars, HomeInv, RightInv, RightVoter, OwnAnswer, InLoop, AtHome, Page
<1> QED BY <1>1, <1>2, <1>3, <1>4, <1>5, <1>6, <1>7, KindsOfStep

(* For layouts with one header row in each table and no blank row, an      *)
(* answer about one voter's crop is never given to another voter: an entry *)
(* of a later table gets none (global_idx, pipeline.py:532).               *)
THEOREM AnswersReachTheirVoter ==
  ASSUME PlainLayouts
  PROVE  SpecV1 => []RightVoter
<1>1. TypeInvV1 /\ HomeInv /\ RightInv /\ [NextV1]_varsV1 => HomeInv' /\ RightInv'
  BY RightStep
<1>2. RightInv => RightVoter
  BY DEF RightInv
<1> QED BY TypeInitV1, TypeStepV1, RightInit, <1>1, <1>2, PTL DEF SpecV1
=============================================================================
