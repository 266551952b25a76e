--------------------------- MODULE RollVerdictProofs ---------------------------
(***************************************************************************)
(* Whose signature the verdicts of the workbooks of process_folder come    *)
(* from: for every layout each entry is judged by the detector, and for    *)
(* the layouts that the pairing by numbers is made for, by the voter's own *)
(* signature.                                                              *)
(***************************************************************************)
EXTENDS RollPipelineProofs

-----------------------------------------------------------------------------
(* The pages.                                                              *)

LEMMA OffsetsRise ==
  ASSUME NEW page \in Seq(Tables), NEW off \in Offsets(page)
  PROVE  /\ \A j \in 1..(Len(page) + 1) : off[j] \in Nat
         /\ off[1] = 0
         /\ \A j \in 1..Len(page) : off[j + 1] = off[j] + Len(page[j].rows)
BY TablesOf DEF Offsets

(* The rows that the detection looks at: those below the first header row. *)
LEMMA GridLength ==
  ASSUME NEW table \in Tables, table.headers # <<>>
  PROVE  /\ Len(DataGrid(table)) \in Nat
         /\ Len(DataGrid(table)) = Len(table.headers) + Len(table.rows) - 1
         /\ Len(DataGrid(table)) >= Len(table.rows)
         /\ \A k \in 1..Len(DataGrid(table)) :
              DataGrid(table)[k] = (table.headers \o table.rows)[k + 1]
<1>1. table.headers \in Seq(GridRows) /\ table.rows \in Seq(GridRows)
  BY DEF Tables
<1> DEFINE grid == table.headers \o table.rows
           a == Len(table.headers)
           b == Len(table.rows)
           c == Len(grid)
<1>2. a \in Nat /\ b \in Nat /\ a # 0
  BY <1>1, LenProperties, EmptySeq
<1>3. grid \in Seq(GridRows) /\ c = a + b
  BY <1>1, ConcatProperties
<1> HIDE DEF a, b, c
<1>4. c \in Nat /\ c # 0
  BY <1>2, <1>3
<1> HIDE DEF grid
<1>5. grid # <<>>
  BY <1>4, EmptySeq DEF c
<1>6. Len(Tail(grid)) = c - 1 /\ \A k \in 1..Len(Tail(grid)) : Tail(grid)[k] = grid[k + 1]
  BY <1>3, <1>5, HeadTailProperties DEF c
<1>7. DataGrid(table) = Tail(grid)
  BY DEF DataGrid, grid
<1>8. Len(Tail(grid)) = Len(table.headers) + Len(table.rows) - 1
  <2>1. Len(Tail(grid)) = a + b - 1
    BY <1>2, <1>3, <1>4, <1>6
  <2> QED BY <2>1 DEF a, b
<1>9. /\ Len(Tail(grid)) \in Nat /\ Len(Tail(grid)) >= Len(table.rows)
  <2>1. c - 1 \in Nat /\ c - 1 >= b
    BY <1>2, <1>3
  <2> QED BY <2>1, <1>6 DEF b
<1>10. \A k \in 1..Len(Tail(grid)) : Tail(grid)[k] = (table.headers \o table.rows)[k + 1]
  BY <1>6 DEF grid
<1> QED BY <1>7, <1>8, <1>9, <1>10

LEMMA ConcatMembers ==
  ASSUME NEW S, NEW r \in Seq(S), NEW s \in Seq(S), NEW i \in DOMAIN (r \o s)
  PROVE  \/ \E j \in DOMAIN r : (r \o s)[i] = r[j]
         \/ \E j \in DOMAIN s : (r \o s)[i] = s[j]
<1> DEFINE c == r \o s
<1>1. /\ DOMAIN r = 1..Len(r) /\ Len(r) \in Nat
      /\ DOMAIN s = 1..Len(s) /\ Len(s) \in Nat
      /\ DOMAIN c = 1..(Len(r) + Len(s))
      /\ \A k \in 1..Len(r) : c[k] = r[k]
      /\ \A k \in 1..Len(s) : c[Len(r) + k] = s[k]
  BY ConcatProperties, LenProperties
<1>2. i \in DOMAIN c
  OBVIOUS
<1> HIDE DEF c
<1>3. CASE i <= Len(r)
  BY <1>1, <1>2, <1>3 DEF c
<1>4. CASE i > Len(r)
  <2>1. i - Len(r) \in DOMAIN s /\ i = Len(r) + (i - Len(r))
    BY <1>1, <1>2, <1>4
  <2>2. c[i] = s[i - Len(r)]
    BY <1>1, <2>1
  <2> QED BY <2>1, <2>2 DEF c
<1> QED BY <1>1, <1>2, <1>3, <1>4

-----------------------------------------------------------------------------
(* Every entry is judged: an image has no more entries than grid rows, and *)
(* the offset of a table is no less than the rows of the tables before it. *)

Judged(e) == e.a_emarge \in Verdicts /\ e.method \in Methods

ExtractReach ==
  pc = "extract" =>
    /\ t <= Len(Page) + 1
    /\ t <= Len(Page) => n <= Len(Table.rows) + 1
    /\ t > Len(Page) => n = 1
    /\ \A off \in Offsets(Page) : Len(rows) <= off[t] + n - 1

DetectReach ==
  pc = "detect" =>
    /\ t <= Len(Page) + 1
    /\ \A off \in Offsets(Page) : Len(rows) <= off[Len(Page) + 1] /\ off[t] <= row_offset
    /\ \A i \in DOMAIN rows : i < row_offset + n => Judged(rows[i])

JudgeInv ==
  /\ ExtractReach
  /\ DetectReach
  /\ \A i \in DOMAIN all_rows : Judged(all_rows[i])
  /\ JudgedByDetector

LEMMA JudgeInit == Init => JudgeInv
BY DEF Init, JudgeInv, ExtractReach, DetectReach, JudgedByDetector, Complete

(* Where no entry is made or judged.                                       *)
LEMMA JudgeElsewhere ==
  ASSUME JudgeInv, pc' \notin {"extract", "detect"},
         UNCHANGED all_rows \/ all_rows' = <<>>,
         UNCHANGED book \/ ~Complete(book)' \/ book'.rows = all_rows
  PROVE  JudgeInv'
<1>1. ExtractReach' /\ DetectReach'
  BY DEF ExtractReach, DetectReach
<1>2. \A i \in DOMAIN all_rows' : Judged(all_rows'[i])
  BY DEF JudgeInv
<1>3. JudgedByDetector'
  BY DEF JudgeInv, JudgedByDetector, Judged, Complete
<1> QED BY <1>1, <1>2, <1>3 DEF JudgeInv, Judged

LEMMA JudgeInImage ==
  ASSUME JudgeInv, UNCHANGED <<all_rows, book>>, ExtractReach', DetectReach'
  PROVE  JudgeInv'
BY DEF JudgeInv, JudgedByDetector, Judged, Complete

LEMMA JudgeConvert == TypeInv /\ JudgeInv /\ Convert => JudgeInv'
<1> SUFFICES ASSUME TypeInv, JudgeInv, Convert PROVE JudgeInv'
  OBVIOUS
<1>1. /\ pc' = "extract" /\ rows' = <<>> /\ t' = 1 /\ n' = 1
      /\ scans' = scans /\ img' = img /\ Busy
      /\ UNCHANGED <<all_rows, book>>
  BY DEF Convert, paper, disk, Busy
<1>2. Page \in Seq(Tables) /\ Page' = Page
  BY <1>1, BusyPage DEF Page
<1>3. ExtractReach'
  <2>1. Len(rows') = 0
    BY <1>1, EmptySeq
  <2>2. \A off \in Offsets(Page) : off[1] = 0
    BY DEF Offsets
  <2>3. 1 <= Len(Page) => Len(Page[1].rows) \in Nat
    BY <1>2, TablesOf
  <2>4. Len(Page) \in Nat
    BY <1>2, TablesOf
  <2> QED BY <1>1, <1>2, <2>1, <2>2, <2>3, <2>4 DEF ExtractReach, Table
<1>4. DetectReach'
  BY <1>1 DEF DetectReach
<1> QED BY <1>1, <1>3, <1>4, JudgeInImage

LEMMA JudgeExtract ==
  TypeInv /\ JudgeInv /\ (ExtractRow \/ ExtractNextTable \/ ExtractDone) => JudgeInv'
<1> SUFFICES ASSUME TypeInv, JudgeInv, ExtractRow \/ ExtractNextTable \/ ExtractDone
             PROVE  JudgeInv'
  OBVIOUS
<1>1. /\ pc = "extract" /\ scans' = scans /\ img' = img /\ Busy
      /\ UNCHANGED <<all_rows, book>>
  BY DEF ExtractRow, ExtractNextTable, ExtractDone, paper, disk, Busy
<1>2. Page \in Seq(Tables) /\ Page' = Page /\ Len(Page) \in Nat
  BY <1>1, BusyPage, TablesOf DEF Page
<1>3. /\ t \in Nat \ {0} /\ n \in Nat \ {0} /\ rows \in Seq(Entries) /\ Len(rows) \in Nat
  BY LenProperties DEF TypeInv, TypeOK
<1>4. /\ t \in 1..(Len(Page) + 1)
      /\ t <= Len(Page) => n <= Len(Page[t].rows) + 1
      /\ t > Len(Page) => n = 1
      /\ \A off \in Offsets(Page) : Len(rows) <= off[t] + n - 1
  BY <1>1, <1>2, <1>3 DEF JudgeInv, ExtractReach, Table
<1>5. CASE ExtractRow
  <2>1. pc' = "extract" /\ t' = t /\ n' = n + 1 /\ t <= Len(Page) /\ n <= Len(Page[t].rows)
    BY <1>5, <1>1 DEF ExtractRow, Table
  <2>2. Len(rows') <= Len(rows) + 1
    <3>1. rows' \in {rows, Append(rows, NewEntry(<<img[1], t, n>>))}
      BY <1>5 DEF ExtractRow
    <3>2. img \in Files
      BY <1>1, BusyPage
    <3>3. NewEntry(<<img[1], t, n>>) \in Entries
      BY <1>3, <3>2 DEF NewEntry, Entries, Files, Voters
    <3> QED BY <1>3, <3>1, <3>3, AppendProperties
  <2>3. Len(rows') \in Nat
    BY TypeStep, <1>5, LenProperties DEF Next, Step, TypeInv, TypeOK
  <2>4. ASSUME NEW off \in Offsets(Page) PROVE Len(rows') <= off[t'] + n' - 1
    <3>1. off[t] \in Nat
      BY <1>2, <1>4, OffsetsRise
    <3> QED BY <1>3, <1>4, <2>1, <2>2, <2>3, <3>1
  <2>5. Len(Page[t].rows) \in Nat
    BY <1>2, <1>3, <2>1, TablesOf
  <2>6. ExtractReach' /\ DetectReach'
    BY <1>2, <1>3, <1>4, <2>1, <2>4, <2>5 DEF ExtractReach, DetectReach, Table
  <2> QED BY <1>1, <2>6, JudgeInImage
<1>6. CASE ExtractNextTable
  <2>1. /\ pc' = "extract" /\ t' = t + 1 /\ n' = 1 /\ rows' = rows
        /\ t <= Len(Page) /\ n > Len(Page[t].rows)
    BY <1>6, <1>1 DEF ExtractNextTable, Table
  <2>2. Len(Page[t].rows) \in Nat
    BY <1>2, <1>3, <2>1, TablesOf
  <2>3. ASSUME NEW off \in Offsets(Page) PROVE Len(rows') <= off[t'] + n' - 1
    <3>1. off[t] \in Nat /\ off[t + 1] = off[t] + Len(Page[t].rows)
      BY <1>2, <1>3, <2>1, OffsetsRise
    <3> QED BY <1>3, <1>4, <2>1, <2>2, <3>1
  <2>4. t + 1 <= Len(Page) => Len(Page[t + 1].rows) \in Nat
    BY <1>2, <1>3, TablesOf
  <2>5. ExtractReach' /\ DetectReach'
    BY <1>2, <1>3, <2>1, <2>3, <2>4 DEF ExtractReach, DetectReach, Table
  <2> QED BY <1>1, <2>5, JudgeInImage
<1>7. CASE ExtractDone
  <2>1. /\ pc' = "detect" /\ t' = 1 /\ n' = 1 /\ row_offset' = 0 /\ rows' = rows
        /\ t = Len(Page) + 1 /\ n = 1
    BY <1>7, <1>2, <1>4 DEF ExtractDone
  <2>2. ASSUME NEW off \in Offsets(Page)
        PROVE  Len(rows') <= off[Len(Page) + 1] /\ off[t'] <= row_offset'
    <3>1. off[t] \in Nat /\ off[1] = 0
      BY <1>2, <1>4, OffsetsRise
    <3> QED BY <1>3, <1>4, <2>1, <3>1
  <2>3. \A i \in DOMAIN rows : ~(i < row_offset' + n')
    BY <1>3, <2>1, LenProperties
  <2>4. ExtractReach' /\ DetectReach'
    BY <1>2, <2>1, <2>2, <2>3 DEF ExtractReach, DetectReach
  <2> QED BY <1>1, <2>4, JudgeInImage
<1> QED BY <1>5, <1>6, <1>7

(* The detection of one row: which entry it writes, and what.              *)
LEMMA RowDetected ==
  ASSUME TypeInv, DetectRow
  PROVE  /\ row_offset + n \in DOMAIN rows /\ DOMAIN rows' = DOMAIN rows
         /\ \A i \in DOMAIN rows : rows'[i].voter = rows[i].voter
         /\ \A i \in DOMAIN rows : i # row_offset + n => rows'[i] = rows[i]
         /\ \E reply \in Replies :
              LET result == DetectSignature(LocatedCrop(Table, DataGrid(Table)[n]),
                                            ollama_ok, reply)
              IN  /\ rows'[row_offset + n].a_emarge = result.verdict
                  /\ rows'[row_offset + n].method = result.method
<1> DEFINE g == row_offset + n
           result(reply) == DetectSignature(LocatedCrop(Table, DataGrid(Table)[n]),
                                            ollama_ok, reply)
<1>1. rows \in Seq(Entries) /\ g \in 1..Len(rows) /\ DOMAIN rows = 1..Len(rows)
  BY LenProperties DEF DetectRow, TypeInv, TypeOK
<1>2. PICK reply \in Replies :
        rows' = [rows EXCEPT ![g].a_emarge = result(reply).verdict,
                             ![g].method   = result(reply).method]
  BY DEF DetectRow
<1> HIDE DEF result, g
<1>3. /\ DOMAIN rows' = DOMAIN rows
      /\ \A i \in DOMAIN rows : rows'[i].voter = rows[i].voter
      /\ \A i \in DOMAIN rows : i # g => rows'[i] = rows[i]
      /\ rows'[g].a_emarge = result(reply).verdict
      /\ rows'[g].method = result(reply).method
  BY <1>1, <1>2, JudgedSame
<1> QED BY <1>1, <1>3 DEF g, result

LEMMA JudgeDetect ==
  TypeInv /\ JudgeInv /\ (SkipTable \/ DetectRow \/ SkipRow \/ DetectNextTable)
    => JudgeInv'
<1> SUFFICES ASSUME TypeInv, JudgeInv,
                    SkipTable \/ DetectRow \/ SkipRow \/ DetectNextTable
             PROVE  JudgeInv'
  OBVIOUS
<1>1. /\ pc = "detect" /\ pc' = "detect" /\ scans' = scans /\ img' = img /\ Busy
      /\ UNCHANGED <<all_rows, book>> /\ t <= Len(Page)
  BY DEF SkipTable, DetectRow, SkipRow, DetectNextTable, InGrid, paper, disk, Busy
<1>2. Page \in Seq(Tables) /\ Page' = Page /\ Len(Page) \in Nat
  BY <1>1, BusyPage, TablesOf DEF Page
<1>3. /\ t \in Nat \ {0} /\ n \in Nat \ {0} /\ row_offset \in Nat
      /\ rows \in Seq(Entries) /\ Len(rows) \in Nat /\ DOMAIN rows = 1..Len(rows)
  BY LenProperties DEF TypeInv, TypeOK
<1>4. /\ t \in 1..Len(Page) /\ Page[t] = Table /\ Table \in Tables
      /\ Len(Table.rows) \in Nat
  BY <1>1, <1>2, <1>3, TablesOf DEF Table
<1>5. /\ \A off \in Offsets(Page) : Len(rows) <= off[Len(Page) + 1] /\ off[t] <= row_offset
      /\ \A i \in DOMAIN rows : i < row_offset + n => Judged(rows[i])
  BY <1>1 DEF JudgeInv, DetectReach
<1>6. \A off \in Offsets(Page) : off[t] \in Nat /\ off[t + 1] = off[t] + Len(Table.rows)
  BY <1>2, <1>4, OffsetsRise
<1>7. SUFFICES /\ t' <= Len(Page) + 1
               /\ Len(rows') = Len(rows)
               /\ \A off \in Offsets(Page) : off[t'] <= row_offset'
               /\ \A i \in DOMAIN rows' : i < row_offset' + n' => Judged(rows'[i])
  BY <1>1, <1>2, <1>5, JudgeInImage DEF ExtractReach, DetectReach
<1>8. CASE SkipTable
  <2>1. t' = t + 1 /\ UNCHANGED <<rows, n, row_offset>> /\ Table.rows = <<>>
    BY <1>8 DEF SkipTable, IsEmpty
  <2>2. Len(Table.rows) = 0
    BY <2>1, EmptySeq
  <2>3. \A off \in Offsets(Page) : off[t'] = off[t]
    BY <1>6, <2>1, <2>2
  <2> QED BY <1>2, <1>4, <1>5, <2>1, <2>3
<1>9. CASE DetectRow
  <2>1. t' = t /\ n' = n + 1 /\ row_offset' = row_offset
    BY <1>9 DEF DetectRow
  <2>2. /\ row_offset + n \in DOMAIN rows /\ DOMAIN rows' = DOMAIN rows
        /\ \A i \in DOMAIN rows : i # row_offset + n => rows'[i] = rows[i]
        /\ Judged(rows'[row_offset + n])
    BY <1>9, RowDetected, ResultWritable DEF Judged, TypeInv, TypeOK
  <2>3. Len(rows') = Len(rows)
    <3>1. rows' \in Seq(Entries)
      BY <1>9, TypeStep DEF Next, Step, TypeInv, TypeOK
    <3>2. DOMAIN rows' = 1..Len(rows') /\ Len(rows') \in Nat
      BY <3>1, LenProperties
    <3> QED BY <1>3, <2>2, <3>2
  <2>4. ASSUME NEW i \in DOMAIN rows', i < row_offset' + n' PROVE Judged(rows'[i])
    <3>1. CASE i = row_offset + n
      BY <2>2, <3>1
    <3>2. CASE i # row_offset + n
      <4>1. i < row_offset + n
        BY <1>3, <2>1, <2>2, <2>4, <3>2
      <4> QED BY <1>5, <2>2, <3>2, <4>1
    <3> QED BY <3>1, <3>2
  <2> QED BY <1>2, <1>4, <1>5, <2>1, <2>3, <2>4
<1>10. CASE SkipRow
  <2>1. /\ n' = n + 1 /\ UNCHANGED <<rows, t, row_offset>>
        /\ row_offset + n > Len(rows)
    BY <1>10 DEF SkipRow
  <2> QED BY <1>2, <1>3, <1>4, <1>5, <2>1
<1>11. CASE DetectNextTable
  <2>1. /\ t' = t + 1 /\ n' = 1 /\ rows' = rows
        /\ row_offset' = row_offset + Len(DataGrid(Table))
        /\ n > Len(DataGrid(Table)) /\ Table.headers # <<>>
    BY <1>11 DEF DetectNextTable, InGrid
  <2>2. Len(DataGrid(Table)) \in Nat /\ Len(DataGrid(Table)) >= Len(Table.rows)
    BY <1>4, <2>1, GridLength
  <2>3. \A off \in Offsets(Page) : off[t'] <= row_offset'
    <3> DEFINE grid == Len(DataGrid(Table))
               data == Len(Table.rows)
    <3>1. grid \in Nat /\ data \in Nat /\ grid >= data /\ row_offset' = row_offset + grid
      BY <1>4, <2>1, <2>2
    <3>2. \A off \in Offsets(Page) : off[t] \in Nat /\ off[t'] = off[t] + data
      BY <1>6, <2>1
    <3> HIDE DEF grid, data
    <3> QED BY <1>3, <1>5, <3>1, <3>2
  <2>4. \A i \in DOMAIN rows' : i < row_offset' + n' => i < row_offset + n
    BY <1>3, <2>1, <2>2
  <2> QED BY <1>2, <1>4, <1>5, <2>1, <2>3, <2>4
<1> QED BY <1>8, <1>9, <1>10, <1>11

LEMMA JudgeFinish == TypeInv /\ JudgeInv /\ FinishImage => JudgeInv'
<1> SUFFICES ASSUME TypeInv, JudgeInv, FinishImage PROVE JudgeInv'
  OBVIOUS
<1>1. /\ pc = "detect" /\ pc' = "next" /\ Busy /\ t > Len(Page)
      /\ all_rows' = all_rows \o rows /\ book' = book
  BY DEF FinishImage, disk, Busy
<1>2. Page \in Seq(Tables) /\ Len(Page) \in Nat
  BY <1>1, BusyPage, TablesOf
<1>3. /\ t \in Nat /\ n \in Nat \ {0} /\ row_offset \in Nat
      /\ rows \in Seq(Entries) /\ all_rows \in Seq(Entries)
      /\ Len(rows) \in Nat /\ DOMAIN rows = 1..Len(rows)
  BY LenProperties DEF TypeInv, TypeOK
<1>4. /\ t <= Len(Page) + 1
      /\ \A off \in Offsets(Page) : Len(rows) <= off[Len(Page) + 1] /\ off[t] <= row_offset
      /\ \A i \in DOMAIN rows : i < row_offset + n => Judged(rows[i])
  BY <1>1 DEF JudgeInv, DetectReach
<1>5. PICK off : off \in Offsets(Page)
  BY <1>2, OffsetsExist
<1>6. t = Len(Page) + 1 /\ off[t] \in Nat
  BY <1>1, <1>2, <1>3, <1>4, <1>5, OffsetsRise
<1>7. \A i \in DOMAIN rows : Judged(rows[i])
  BY <1>3, <1>4, <1>5, <1>6
<1>8. \A i \in DOMAIN all_rows' : Judged(all_rows'[i])
  <2> DEFINE all == all_rows \o rows
  <2>1. \A i \in DOMAIN all : \/ \E j \in DOMAIN all_rows : all[i] = all_rows[j]
                             \/ \E j \in DOMAIN rows : all[i] = rows[j]
    BY <1>3, ConcatMembers
  <2> HIDE DEF all
  <2>2. all_rows' = all
    BY <1>1 DEF all
  <2> QED BY <1>7, <2>1, <2>2 DEF JudgeInv
<1>9. ExtractReach' /\ DetectReach' /\ JudgedByDetector'
  BY <1>1 DEF JudgeInv, ExtractReach, DetectReach, JudgedByDetector, Complete
<1> QED BY <1>8, <1>9 DEF JudgeInv

LEMMA JudgeStep == TypeInv /\ JudgeInv /\ [Next]_vars => JudgeInv'
<1> SUFFICES ASSUME TypeInv, JudgeInv, [Next]_vars PROVE JudgeInv'
  OBVIOUS
<1>1. CASE Convert
  BY <1>1, JudgeConvert
<1>2. CASE ExtractRow \/ ExtractNextTable \/ ExtractDone
  BY <1>2, JudgeExtract
<1>3. CASE SkipTable \/ DetectRow \/ SkipRow \/ DetectNextTable
  BY <1>3, JudgeDetect
<1>4. CASE FinishImage
  BY <1>4, JudgeFinish
<1>5. CASE CorrectRaises \/ ColumnsRaise \/ OpenRaises \/ Kill
  BY <1>5, JudgeElsewhere DEF CorrectRaises, ColumnsRaise, OpenRaises, Kill, CutShort, disk
<1>6. CASE StartRun \/ CorrectAndSave \/ ConvertRaises
  BY <1>6, JudgeElsewhere DEF StartRun, CorrectAndSave, ConvertRaises, disk
<1>7. CASE OpenBook \/ SaveBook
  BY <1>7, JudgeElsewhere DEF OpenBook, SaveBook, Complete
<1>8. CASE RemoveTmp \/ RemoveRaises \/ EndRun
  BY <1>8, JudgeElsewhere DEF RemoveTmp, RemoveRaises, EndRun, disk
<1>9. CASE UNCHANGED vars
  BY <1>9 DEF vars, JudgeInv, ExtractReach, DetectReach, JudgedByDetector, Complete,
              Page, Table
<1> QED BY <1>1, <1>2, <1>3, <1>4, <1>5, <1>6, <1>7, <1>8, <1>9 DEF Next, Step

(* Whatever the layout (blank rows, several header rows, tables that share *)
(* nothing), no OCR text is exported as a verdict: row_offset is never     *)
(* less than the number of entries of the tables before.                   *)
THEOREM EveryEntryJudged == Spec => []JudgedByDetector
<1>1. JudgeInv => JudgedByDetector
  BY DEF JudgeInv
<1> QED BY TypeInit, TypeStep, JudgeInit, JudgeStep, <1>1, PTL DEF Spec

-----------------------------------------------------------------------------
(* With one header row in each table that has data and no blank row, the   *)
(* entries are numbered as the grid rows are.                              *)

Own(e, ok) ==
  \E result \in OwnResults(scans, e.voter, ok) :
    e.a_emarge = result.verdict /\ e.method = result.method

(* The entry of row k of table j is entry off[j] + k.                      *)
Numbered(off, j, k) ==
  off[j] + k \in DOMAIN rows /\ rows[off[j] + k].voter = <<img[1], j, k>>

ExtractPairs ==
  pc = "extract" =>
    \A off \in Offsets(Page) :
      /\ Len(rows) = off[t] + n - 1
      /\ \A j \in 1..Len(Page) : \A k \in DOMAIN Page[j].rows :
           j < t \/ (j = t /\ k < n) => Numbered(off, j, k)

DetectPairs ==
  pc = "detect" =>
    /\ \A off \in Offsets(Page) :
         /\ Len(rows) = off[Len(Page) + 1]
         /\ row_offset = off[t]
         /\ \A j \in 1..Len(Page) : \A k \in DOMAIN Page[j].rows : Numbered(off, j, k)
    /\ \A i \in DOMAIN rows : i < row_offset + n => Own(rows[i], ollama_ok)

OwnInv ==
  /\ ExtractPairs
  /\ DetectPairs
  /\ \A i \in DOMAIN all_rows : Own(all_rows[i], ollama_ok)
  /\ OwnVerdict

LEMMA PlainTable ==
  ASSUME PlainLayouts, NEW page \in Layouts, NEW j \in 1..Len(page)
  PROVE  /\ \A k \in DOMAIN page[j].rows : page[j].rows[k].known
         /\ page[j].rows # <<>> =>
              /\ Len(DataGrid(page[j])) = Len(page[j].rows)
              /\ \A k \in DOMAIN page[j].rows : DataGrid(page[j])[k] = page[j].rows[k]
<1>1. page \in Seq(Tables)
  BY LayoutsAssumption
<1>2. /\ j \in DOMAIN page /\ page[j] \in Tables
      /\ page[j].headers \in Seq(GridRows) /\ page[j].rows \in Seq(GridRows)
      /\ Len(page[j].rows) \in Nat /\ DOMAIN page[j].rows = 1..Len(page[j].rows)
  BY <1>1, TablesOf
<1>3. \A k \in DOMAIN page[j].rows : page[j].rows[k].known
  BY <1>2 DEF PlainLayouts
<1>4. ASSUME page[j].rows # <<>>
      PROVE  /\ Len(DataGrid(page[j])) = Len(page[j].rows)
             /\ \A k \in DOMAIN page[j].rows : DataGrid(page[j])[k] = page[j].rows[k]
  <2> DEFINE headers == page[j].headers
             data    == page[j].rows
             grid    == DataGrid(page[j])
  <2>1. Len(headers) = 1
    BY <1>2, <1>4 DEF PlainLayouts, IsEmpty
  <2>2. headers \in Seq(GridRows) /\ data \in Seq(GridRows)
    BY <1>2
  <2>3. headers # <<>> => /\ Len(grid) = Len(headers) + Len(data) - 1
                         /\ \A k \in 1..Len(grid) : grid[k] = (headers \o data)[k + 1]
    BY <1>2, GridLength
  <2> HIDE DEF headers, data, grid
  <2>4. /\ headers # <<>>
        /\ \A k \in 1..Len(data) : (headers \o data)[Len(headers) + k] = data[k]
    <3>1. headers # <<>>
      BY <2>1, EmptySeq
    <3>2. ASSUME NEW k \in 1..Len(data) PROVE (headers \o data)[Len(headers) + k] = data[k]
      BY <2>2, ConcatProperties
    <3> QED BY <3>1, <3>2
  <2>5. Len(data) \in Nat /\ DOMAIN data = 1..Len(data)
    BY <1>2 DEF data
  <2>6. Len(grid) = Len(data)
    BY <2>1, <2>3, <2>4, <2>5
  <2>7. ASSUME NEW k \in 1..Len(data) PROVE grid[k] = data[k]
    <3>1. grid[k] = (headers \o data)[k + 1]
      BY <2>3, <2>4, <2>6
    <3>2. (headers \o data)[1 + k] = data[k]
      BY <2>1, <2>4
    <3>3. k + 1 = 1 + k
      BY <2>5
    <3> QED BY <3>1, <3>2, <3>3
  <2> QED BY <2>5, <2>6, <2>7 DEF grid, data
<1> QED BY <1>3, <1>4

LEMMA OwnInit == Init => OwnInv
BY DEF Init, OwnInv, ExtractPairs, DetectPairs, OwnVerdict, Complete

(* Where no entry is made or judged.                                       *)
LEMMA OwnElsewhere ==
  ASSUME OwnInv, pc' \notin {"extract", "detect"}, UNCHANGED scans,
         UNCHANGED <<all_rows, ollama_ok>> \/ all_rows' = <<>>,
         \/ UNCHANGED book
         \/ ~Complete(book)'
         \/ book'.rows = all_rows /\ book'.ollama_ok = ollama_ok
  PROVE  OwnInv'
<1>1. ExtractPairs' /\ DetectPairs'
  BY DEF ExtractPairs, DetectPairs
<1>2. (\A i \in DOMAIN all_rows : Own(all_rows[i], ollama_ok))'
  <2>1. CASE UNCHANGED <<all_rows, ollama_ok>>
    BY <2>1 DEF OwnInv, Own
  <2>2. CASE all_rows' = <<>>
    BY <2>2
  <2> QED BY <2>1, <2>2
<1>3. OwnVerdict'
  BY DEF OwnInv, OwnVerdict, Own, Complete
<1> QED BY <1>1, <1>2, <1>3 DEF OwnInv

LEMMA OwnInImage ==
  ASSUME OwnInv, UNCHANGED <<scans, ollama_ok, all_rows, book>>,
         ExtractPairs', DetectPairs'
  PROVE  OwnInv'
BY DEF OwnInv, OwnVerdict, Own, Complete

LEMMA OwnConvert == TypeInv /\ OwnInv /\ Convert => OwnInv'
<1> SUFFICES ASSUME TypeInv, OwnInv, Convert PROVE OwnInv'
  OBVIOUS
<1>1. /\ pc' = "extract" /\ rows' = <<>> /\ t' = 1 /\ n' = 1 /\ Busy
      /\ UNCHANGED <<scans, img, ollama_ok, all_rows, book>>
  BY DEF Convert, paper, disk, listing, Busy
<1>2. Page \in Seq(Tables) /\ Page' = Page
  BY <1>1, BusyPage DEF Page
<1>3. ASSUME NEW off \in Offsets(Page) PROVE Len(rows') = off[t'] + n' - 1
  <2>1. Len(rows') = 0 /\ off[1] = 0
    BY <1>1, <1>2, EmptySeq, OffsetsRise
  <2> QED BY <1>1, <2>1
<1>4. \A j \in 1..Len(Page) : \A k \in DOMAIN Page[j].rows :
        ~(j < t' \/ (j = t' /\ k < n'))
  BY <1>1, <1>2, TablesOf
<1>5. ExtractPairs' /\ DetectPairs'
  BY <1>1, <1>2, <1>3, <1>4 DEF ExtractPairs, DetectPairs
<1> QED BY <1>1, <1>5, OwnInImage

LEMMA OwnExtract ==
  ASSUME PlainLayouts
  PROVE  TypeInv /\ JudgeInv /\ OwnInv /\ (ExtractRow \/ ExtractNextTable \/ ExtractDone)
           => OwnInv'
<1> SUFFICES ASSUME TypeInv, JudgeInv, OwnInv,
                    ExtractRow \/ ExtractNextTable \/ ExtractDone
             PROVE  OwnInv'
  OBVIOUS
<1>1. /\ pc = "extract" /\ Busy
      /\ UNCHANGED <<scans, img, ollama_ok, all_rows, book>>
  BY DEF ExtractRow, ExtractNextTable, ExtractDone, paper, disk, listing, Busy
<1>2. /\ Page \in Seq(Tables) /\ Page \in Layouts /\ Page' = Page
      /\ Len(Page) \in Nat /\ img \in Files
  BY <1>1, BusyPage, TablesOf DEF Page
<1>3. /\ t \in Nat \ {0} /\ n \in Nat \ {0}
      /\ rows \in Seq(Entries) /\ Len(rows) \in Nat /\ DOMAIN rows = 1..Len(rows)
  BY LenProperties DEF TypeInv, TypeOK
<1>4. /\ t \in 1..(Len(Page) + 1)
      /\ t <= Len(Page) => n <= Len(Page[t].rows) + 1
      /\ t > Len(Page) => n = 1
  BY <1>1, <1>2, <1>3 DEF JudgeInv, ExtractReach, Table
<1>5. ASSUME NEW off \in Offsets(Page)
      PROVE  /\ off[t] \in Nat
             /\ Len(rows) = off[t] + n - 1
             /\ \A j \in 1..Len(Page) : \A k \in DOMAIN Page[j].rows :
                  j < t \/ (j = t /\ k < n) => Numbered(off, j, k)
  BY <1>1, <1>2, <1>4, OffsetsRise DEF OwnInv, ExtractPairs
<1>6. \A j \in 1..Len(Page) : /\ Len(Page[j].rows) \in Nat
                              /\ DOMAIN Page[j].rows = 1..Len(Page[j].rows)
  BY <1>2, TablesOf
<1>7. CASE ExtractRow
  <2>1. /\ pc' = "extract" /\ t' = t /\ n' = n + 1
        /\ t \in 1..Len(Page) /\ n \in DOMAIN Page[t].rows
    BY <1>2, <1>3, <1>6, <1>7 DEF ExtractRow, Table
  <2> DEFINE e == NewEntry(<<img[1], t, n>>)
  <2>2. e \in Entries /\ e.voter = <<img[1], t, n>>
    BY <1>2, <1>3 DEF NewEntry, Entries, Files, Voters
  <2>3. rows' = Append(rows, e)
    BY <1>2, <1>7, <2>1, PlainTable DEF ExtractRow, Table
  <2> HIDE DEF e
  <2>4. /\ DOMAIN rows' = 1..(Len(rows) + 1) /\ Len(rows') = Len(rows) + 1
        /\ \A i \in DOMAIN rows : rows'[i] = rows[i]
        /\ rows'[Len(rows) + 1] = e
    BY <1>3, <2>2, <2>3, AppendProperties, LenProperties
  <2>5. ASSUME NEW off \in Offsets(Page), NEW j \in 1..Len(Page), NEW k \in DOMAIN Page[j].rows,
               j < t \/ (j = t /\ k < n + 1)
        PROVE  Numbered(off, j, k)'
    <3>1. CASE j = t /\ k = n
      <4>1. off[t] + n = Len(rows) + 1
        BY <1>3, <1>5
      <4> QED BY <1>1, <1>3, <2>2, <2>4, <3>1, <4>1 DEF Numbered
    <3>2. CASE ~(j = t /\ k = n)
      <4>1. j < t \/ (j = t /\ k < n)
        BY <1>3, <1>6, <2>5, <3>2
      <4>2. Numbered(off, j, k)
        BY <1>5, <4>1
      <4>3. \A i \in DOMAIN rows : i \in DOMAIN rows'
        BY <1>3, <2>4
      <4> QED BY <1>1, <2>4, <4>2, <4>3 DEF Numbered
    <3> QED BY <3>1, <3>2
  <2>6. ASSUME NEW off \in Offsets(Page) PROVE Len(rows') = off[t] + n' - 1
    <3>1. off[t] \in Nat /\ Len(rows) = off[t] + n - 1
      BY <1>5
    <3> QED BY <1>3, <2>1, <2>4, <3>1
  <2>7. ExtractPairs' /\ DetectPairs'
    BY <1>2, <2>1, <2>5, <2>6 DEF ExtractPairs, DetectPairs
  <2> QED BY <1>1, <2>7, OwnInImage
<1>8. CASE ExtractNextTable
  <2>1. /\ pc' = "extract" /\ t' = t + 1 /\ n' = 1 /\ rows' = rows
        /\ t \in 1..Len(Page) /\ n > Len(Page[t].rows)
    BY <1>2, <1>3, <1>8 DEF ExtractNextTable, Table
  <2>2. n = Len(Page[t].rows) + 1
    BY <1>3, <1>4, <1>6, <2>1
  <2>3. ASSUME NEW off \in Offsets(Page) PROVE Len(rows') = off[t'] + n' - 1
    <3>1. off[t + 1] = off[t] + Len(Page[t].rows)
      BY <1>2, <2>1, OffsetsRise
    <3> QED BY <1>3, <1>5, <1>6, <2>1, <2>2, <3>1
  <2>4. ASSUME NEW off \in Offsets(Page), NEW j \in 1..Len(Page), NEW k \in DOMAIN Page[j].rows,
               j < t' \/ (j = t' /\ k < n')
        PROVE  Numbered(off, j, k)'
    <3>1. j < t \/ (j = t /\ k < n)
      BY <1>3, <1>6, <2>1, <2>2, <2>4
    <3>2. Numbered(off, j, k)
      BY <1>5, <3>1
    <3> QED BY <1>1, <2>1, <3>2 DEF Numbered
  <2>5. ExtractPairs' /\ DetectPairs'
    BY <1>2, <2>1, <2>3, <2>4 DEF ExtractPairs, DetectPairs
  <2> QED BY <1>1, <2>5, OwnInImage
<1>9. CASE ExtractDone
  <2>1. /\ pc' = "detect" /\ t' = 1 /\ n' = 1 /\ row_offset' = 0 /\ rows' = rows
        /\ t = Len(Page) + 1 /\ n = 1
    BY <1>2, <1>4, <1>9 DEF ExtractDone
  <2>2. ASSUME NEW off \in Offsets(Page)
        PROVE  Len(rows') = off[Len(Page) + 1] /\ row_offset' = off[t']
    <3>1. off[1] = 0
      BY <1>2, OffsetsRise
    <3> QED BY <1>3, <1>5, <2>1, <3>1
  <2>3. ASSUME NEW off \in Offsets(Page), NEW j \in 1..Len(Page), NEW k \in DOMAIN Page[j].rows
        PROVE  Numbered(off, j, k)'
    <3>1. j < t
      BY <1>2, <2>1
    <3>2. Numbered(off, j, k)
      BY <1>5, <3>1
    <3> QED BY <1>1, <2>1, <3>2 DEF Numbered
  <2>4. \A i \in DOMAIN rows : ~(i < row_offset' + n')
    BY <1>3, <2>1
  <2>5. ExtractPairs' /\ DetectPairs'
    BY <1>2, <2>1, <2>2, <2>3, <2>4 DEF ExtractPairs, DetectPairs
  <2> QED BY <1>1, <2>5, OwnInImage
<1> QED BY <1>7, <1>8, <1>9

LEMMA OwnDetect ==
  ASSUME PlainLayouts
  PROVE  TypeInv /\ JudgeInv /\ OwnInv
           /\ (SkipTable \/ DetectRow \/ SkipRow \/ DetectNextTable) => OwnInv'
<1> SUFFICES ASSUME TypeInv, JudgeInv, OwnInv,
                    SkipTable \/ DetectRow \/ SkipRow \/ DetectNextTable
             PROVE  OwnInv'
  OBVIOUS
<1>1. /\ pc = "detect" /\ pc' = "detect" /\ Busy /\ t <= Len(Page)
      /\ UNCHANGED <<scans, img, ollama_ok, all_rows, book>>
  BY DEF SkipTable, DetectRow, SkipRow, DetectNextTable, InGrid, paper, disk, listing, Busy
<1>2. /\ Page \in Seq(Tables) /\ Page \in Layouts /\ Page' = Page /\ Len(Page) \in Nat
      /\ img[1] \in Photos /\ Page = scans[img[1]]
  BY <1>1, BusyPage, TablesOf DEF Page
<1>3. /\ t \in Nat \ {0} /\ n \in Nat \ {0} /\ row_offset \in Nat /\ ollama_ok \in BOOLEAN
      /\ rows \in Seq(Entries) /\ Len(rows) \in Nat /\ DOMAIN rows = 1..Len(rows)
  BY LenProperties DEF TypeInv, TypeOK
<1>4. /\ t \in 1..Len(Page) /\ Page[t] = Table
      /\ Len(Table.rows) \in Nat /\ DOMAIN Table.rows = 1..Len(Table.rows)
  BY <1>1, <1>2, <1>3, TablesOf DEF Table
<1>5. /\ Table.rows # <<>> =>
           /\ Len(DataGrid(Table)) = Len(Table.rows)
           /\ \A k \in DOMAIN Table.rows : DataGrid(Table)[k] = Table.rows[k]
  BY <1>2, <1>4, PlainTable
<1>6. ASSUME NEW off \in Offsets(Page)
      PROVE  /\ off[t] \in Nat /\ off[t + 1] = off[t] + Len(Table.rows)
             /\ Len(rows) = off[Len(Page) + 1] /\ row_offset = off[t]
             /\ \A j \in 1..Len(Page) : \A k \in DOMAIN Page[j].rows : Numbered(off, j, k)
  <2>1. off[t] \in Nat /\ off[t + 1] = off[t] + Len(Table.rows)
    BY <1>2, <1>4, OffsetsRise
  <2> QED BY <1>1, <2>1 DEF OwnInv, DetectPairs
<1>7. \A i \in DOMAIN rows : i < row_offset + n => Own(rows[i], ollama_ok)
  BY <1>1 DEF OwnInv, DetectPairs
<1>8. SUFFICES /\ \A off \in Offsets(Page) : row_offset' = off[t']
               /\ DOMAIN rows' = DOMAIN rows /\ Len(rows') = Len(rows)
               /\ \A i \in DOMAIN rows : rows'[i].voter = rows[i].voter
               /\ \A i \in DOMAIN rows : i < row_offset' + n' => Own(rows'[i], ollama_ok)
  <2>1. ASSUME DOMAIN rows' = DOMAIN rows, \A i \in DOMAIN rows : rows'[i].voter = rows[i].voter,
               NEW off \in Offsets(Page), NEW j \in 1..Len(Page), NEW k \in DOMAIN Page[j].rows
        PROVE  Numbered(off, j, k)'
    BY <1>1, <1>6, <2>1 DEF Numbered
  <2>2. \A e : Own(e, ollama_ok)' <=> Own(e, ollama_ok)
    BY <1>1 DEF Own
  <2>3. \A i : Own(rows[i], ollama_ok)' <=> Own(rows'[i], ollama_ok)
    BY <1>1 DEF Own
  <2> QED BY <1>1, <1>2, <1>6, <2>1, <2>3, OwnInImage DEF ExtractPairs, DetectPairs
<1>9. CASE SkipTable
  <2>1. t' = t + 1 /\ UNCHANGED <<rows, n, row_offset>> /\ Len(Table.rows) = 0
    BY <1>9, EmptySeq DEF SkipTable, IsEmpty
  <2>2. \A off \in Offsets(Page) : row_offset' = off[t']
    BY <1>3, <1>6, <2>1
  <2> QED BY <1>7, <2>1, <2>2
<1>10. CASE DetectRow
  <2> DEFINE g == row_offset + n
  <2>1. t' = t /\ n' = n + 1 /\ row_offset' = row_offset /\ n <= Len(DataGrid(Table))
        /\ Table.rows # <<>>
    BY <1>10 DEF DetectRow, InGrid, IsEmpty
  <2>2. n \in DOMAIN Table.rows /\ DataGrid(Table)[n] = Table.rows[n]
    BY <1>3, <1>4, <1>5, <2>1
  <2>3. /\ g \in DOMAIN rows /\ DOMAIN rows' = DOMAIN rows
        /\ \A i \in DOMAIN rows : rows'[i].voter = rows[i].voter
        /\ \A i \in DOMAIN rows : i # g => rows'[i] = rows[i]
        /\ \E reply \in Replies :
             LET result == DetectSignature(LocatedCrop(Table, Table.rows[n]), ollama_ok, reply)
             IN  rows'[g].a_emarge = result.verdict /\ rows'[g].method = result.method
    BY <1>10, <2>2, RowDetected
  <2>4. rows[g].voter = <<img[1], t, n>>
    <3>1. PICK off : off \in Offsets(Page)
      BY <1>2, OffsetsExist
    <3>2. Numbered(off, t, n) /\ row_offset = off[t]
      BY <1>4, <1>6, <2>2, <3>1
    <3> QED BY <3>2 DEF Numbered
  <2>5. Own(rows'[g], ollama_ok)
    <3>1. rows'[g].voter = <<img[1], t, n>>
      BY <2>3, <2>4
    <3>2. OwnResults(scans, rows'[g].voter, ollama_ok)
            = {DetectSignature(LocatedCrop(Table, Table.rows[n]), ollama_ok, reply) :
                 reply \in Replies}
      BY <1>2, <1>4, <3>1 DEF OwnResults
    <3> QED BY <2>3, <3>2 DEF Own
  <2>6. Len(rows') = Len(rows)
    <3>1. rows' \in Seq(Entries)
      BY <1>10, TypeStep DEF Next, Step, TypeInv, TypeOK
    <3>2. DOMAIN rows' = 1..Len(rows') /\ Len(rows') \in Nat
      BY <3>1, LenProperties
    <3> QED BY <1>3, <2>3, <3>2
  <2>7. ASSUME NEW i \in DOMAIN rows, i < row_offset' + n' PROVE Own(rows'[i], ollama_ok)
    <3>1. CASE i = g
      BY <2>5, <3>1
    <3>2. CASE i # g
      <4>1. i < row_offset + n
        BY <1>3, <2>1, <2>7, <3>2
      <4> QED BY <1>7, <2>3, <3>2, <4>1
    <3> QED BY <3>1, <3>2
  <2> QED BY <1>6, <2>1, <2>3, <2>6, <2>7
<1>11. CASE SkipRow
  <2>1. /\ n' = n + 1 /\ UNCHANGED <<rows, t, row_offset>>
        /\ row_offset + n > Len(rows)
    BY <1>11 DEF SkipRow
  <2> QED BY <1>3, <1>6, <1>7, <2>1
<1>12. CASE DetectNextTable
  <2>1. /\ t' = t + 1 /\ n' = 1 /\ rows' = rows
        /\ row_offset' = row_offset + Len(Table.rows) /\ n > Len(Table.rows)
    BY <1>5, <1>12 DEF DetectNextTable, InGrid, IsEmpty
  <2>2. \A off \in Offsets(Page) : row_offset' = off[t']
    BY <1>6, <2>1
  <2>3. \A i \in DOMAIN rows : i < row_offset' + n' => i < row_offset + n
    BY <1>3, <1>4, <2>1
  <2> QED BY <1>7, <2>1, <2>2, <2>3
<1> QED BY <1>9, <1>10, <1>11, <1>12

LEMMA OwnFinish == TypeInv /\ JudgeInv /\ OwnInv /\ FinishImage => OwnInv'
<1> SUFFICES ASSUME TypeInv, JudgeInv, OwnInv, FinishImage PROVE OwnInv'
  OBVIOUS
<1>1. /\ pc = "detect" /\ pc' = "next" /\ Busy /\ t > Len(Page)
      /\ all_rows' = all_rows \o rows
      /\ UNCHANGED <<scans, ollama_ok, book>>
  BY DEF FinishImage, paper, listing, disk, Busy
<1>2. Page \in Seq(Tables) /\ Len(Page) \in Nat
  BY <1>1, BusyPage, TablesOf
<1>3. /\ t \in Nat /\ n \in Nat \ {0}
      /\ rows \in Seq(Entries) /\ all_rows \in Seq(Entries)
      /\ Len(rows) \in Nat /\ DOMAIN rows = 1..Len(rows)
  BY LenProperties DEF TypeInv, TypeOK
<1>4. t = Len(Page) + 1
  BY <1>1, <1>2, <1>3 DEF JudgeInv, DetectReach
<1>5. PICK off : off \in Offsets(Page)
  BY <1>2, OffsetsExist
<1>6. /\ Len(rows) = row_offset
      /\ \A i \in DOMAIN rows : i < row_offset + n => Own(rows[i], ollama_ok)
  BY <1>1, <1>4, <1>5 DEF OwnInv, DetectPairs
<1>7. \A i \in DOMAIN rows : Own(rows[i], ollama_ok)
  BY <1>3, <1>6
<1>8. \A i \in DOMAIN all_rows' : Own(all_rows'[i], ollama_ok)
  <2> DEFINE all == all_rows \o rows
  <2>1. \A i \in DOMAIN all : \/ \E j \in DOMAIN all_rows : all[i] = all_rows[j]
                             \/ \E j \in DOMAIN rows : all[i] = rows[j]
    BY <1>3, ConcatMembers
  <2> HIDE DEF all
  <2>2. all_rows' = all
    BY <1>1 DEF all
  <2> QED BY <1>7, <2>1, <2>2 DEF OwnInv
<1>9. ExtractPairs' /\ DetectPairs' /\ OwnVerdict'
  BY <1>1 DEF OwnInv, ExtractPairs, DetectPairs, OwnVerdict, Complete
<1>10. (\A i \in DOMAIN all_rows : Own(all_rows[i], ollama_ok))'
  BY <1>1, <1>8 DEF Own
<1> QED BY <1>9, <1>10 DEF OwnInv

LEMMA OwnStep ==
  ASSUME PlainLayouts
  PROVE  TypeInv /\ JudgeInv /\ OwnInv /\ [Next]_vars => OwnInv'
<1> SUFFICES ASSUME TypeInv, JudgeInv, OwnInv, [Next]_vars PROVE OwnInv'
  OBVIOUS
<1>1. CASE Convert
  BY <1>1, OwnConvert
<1>2. CASE ExtractRow \/ ExtractNextTable \/ ExtractDone
  BY <1>2, OwnExtract
<1>3. CASE SkipTable \/ DetectRow \/ SkipRow \/ DetectNextTable
  BY <1>3, OwnDetect
<1>4. CASE FinishImage
  BY <1>4, OwnFinish
<1>5. CASE CorrectRaises \/ ColumnsRaise \/ OpenRaises \/ Kill
  BY <1>5, OwnElsewhere DEF CorrectRaises, ColumnsRaise, OpenRaises, Kill, CutShort, disk
<1>6. CASE StartRun \/ CorrectAndSave \/ ConvertRaises
  BY <1>6, OwnElsewhere DEF StartRun, CorrectAndSave, ConvertRaises, disk, paper, listing
<1>7. CASE OpenBook \/ SaveBook
  BY <1>7, OwnElsewhere DEF OpenBook, SaveBook, Complete, paper, listing
<1>8. CASE RemoveTmp \/ RemoveRaises \/ EndRun
  BY <1>8, OwnElsewhere DEF RemoveTmp, RemoveRaises, EndRun, disk, paper, listing
<1>9. CASE UNCHANGED vars
  BY <1>9 DEF vars, OwnInv, ExtractPairs, DetectPairs, OwnVerdict, Own, Complete,
              Page, Numbered
<1> QED BY <1>1, <1>2, <1>3, <1>4, <1>5, <1>6, <1>7, <1>8, <1>9 DEF Next, Step

LEMMA OwnCorrect ==
  ASSUME PlainLayouts
  PROVE  Spec => [](TypeInv /\ JudgeInv /\ OwnInv)
<1>1. TypeInv /\ JudgeInv /\ OwnInv /\ [Next]_vars => OwnInv'
  BY OwnStep
<1> QED BY TypeInit, TypeStep, JudgeInit, JudgeStep, OwnInit, <1>1, PTL DEF Spec

(* For the layouts that the code is made for, the verdict of each voter is *)
(* one that the detector can give for the voter's own signature, whatever  *)
(* the photos, the faults and the vision model (global_idx).               *)
THEOREM OwnSignatureJudged ==
  ASSUME PlainLayouts
  PROVE  Spec => []OwnVerdict
<1>1. OwnInv => OwnVerdict
  BY DEF OwnInv
<1> QED BY <1>1, OwnCorrect, PTL

-----------------------------------------------------------------------------
(* The workbook of process_folder is the one of RollExport.                *)

TornInv == pc = "save" => book = TornBook

LEMMA TornCorrect == Spec => []TornInv
<1>1. Init => TornInv
  BY DEF Init, TornInv
<1>2. TornInv /\ [Next]_vars => TornInv'
  <2> SUFFICES ASSUME TornInv, [Next]_vars PROVE TornInv'
    OBVIOUS
  <2>1. CASE OpenBook
    BY <2>1 DEF OpenBook, TornInv
  <2>2. CASE UNCHANGED vars
    BY <2>2 DEF vars, TornInv
  <2>3. CASE StartRun \/ Step \/ Kill
    <3>1. ~OpenBook => pc' # "save"
      BY <2>3 DEF StartRun, Step, Kill, CorrectAndSave, CorrectRaises, Convert, ConvertRaises,
                  ExtractRow, ExtractNextTable, ExtractDone, SkipTable, ColumnsRaise,
                  DetectRow, SkipRow, DetectNextTable, InGrid, FinishImage, OpenRaises,
                  SaveBook, RemoveTmp, RemoveRaises, EndRun, CutShort
    <3> QED BY <2>1, <3>1 DEF TornInv
  <2> QED BY <2>1, <2>2, <2>3 DEF Next
<1> QED BY <1>1, <1>2, PTL DEF Spec

LEMMA PromiseInit == Init => Promise!Init
BY DEF Init, Promise!Init

(* Only two steps touch the workbook.                                      *)
LEMMA BookWritten ==
  ASSUME [Next]_vars
  PROVE  OpenBook \/ SaveBook \/ UNCHANGED <<scans, book>>
BY DEF Next, StartRun, Step, Kill, CorrectAndSave, CorrectRaises, Convert, ConvertRaises,
       ExtractRow, ExtractNextTable, ExtractDone, SkipTable, ColumnsRaise,
       DetectRow, SkipRow, DetectNextTable, InGrid, FinishImage, OpenRaises,
       RemoveTmp, RemoveRaises, EndRun, CutShort, disk, paper, vars

(* The definitions of RollExport are those of RollPipeline.                *)
LEMMA SameBook ==
  ASSUME NEW b, NEW S, NEW e, NEW files, NEW ok
  PROVE  /\ Promise!Complete(b) <=> Complete(b)
         /\ Promise!IsRollOf(e, S, files) <=> IsRollOf(e, S, files)
         /\ Promise!OwnResults(S, e, ok) = OwnResults(S, e, ok)
<1>1. Promise!Complete(b) <=> Complete(b)
  BY DEF Complete, Promise!Complete
<1>2. Promise!IsRollOf(e, S, files) <=> IsRollOf(e, S, files)
  BY DEF IsRollOf, Promise!IsRollOf, VotersOn, Promise!VotersOn, Precedes, Promise!Precedes,
         Before, Promise!Before
<1>3. Promise!OwnResults(S, e, ok) = OwnResults(S, e, ok)
  <2>1. \A crop, reply : Promise!DetectSignature(crop, ok, reply) = DetectSignature(crop, ok, reply)
    BY DEF DetectSignature, AsksVision, Confirmed, Guessed, DetectCv, DetectVision, Capped,
           Result, One, Promise!DetectSignature, Promise!AsksVision, Promise!Confirmed,
           Promise!Guessed, Promise!DetectCv, Promise!DetectVision, Promise!Capped,
           Promise!Result, Promise!One
  <2>2. \A table, row : Promise!LocatedCrop(table, row) = LocatedCrop(table, row)
    BY DEF LocatedCrop, Promise!LocatedCrop
  <2>3. Promise!Replies = Replies
    BY DEF Replies, Answers, Promise!Replies, Promise!Answers
  <2> QED BY <2>1, <2>2, <2>3 DEF OwnResults, Promise!OwnResults
<1> QED BY <1>1, <1>2, <1>3

LEMMA PromiseStep ==
  ASSUME TypeInv, EntriesInv', OwnInv', TornInv, [Next]_vars
  PROVE  Promise!Next \/ UNCHANGED <<scans, book>>
<1>1. CASE OpenBook
  BY <1>1 DEF OpenBook, paper, Promise!Next, Promise!Truncate
<1>2. CASE SaveBook
  <2>1. book = TornBook /\ scans' = scans /\ pc' = "remove"
    BY <1>2 DEF SaveBook, TornInv, paper
  <2>2. book' \in Books /\ Complete(book')
    <3>1. book' \in Books
      BY <1>2, FS_CardinalityType DEF SaveBook, Books, TypeInv, TypeOK
    <3> QED BY <3>1, NoneAssumption DEF Complete
  <2>3. /\ IsRollOf(book'.rows, scans, Sources(book'))
        /\ \A f \in Sources(book') : f[2] <= MaxRuns
    BY <2>1, <2>2 DEF EntriesInv, BookInv, BookIsWhole, Complete, Sources
  <2>4. Sources(book') \subseteq {<<p, k>> : p \in Photos, k \in 0..MaxRuns}
    <3> SUFFICES ASSUME NEW i \in DOMAIN book'.rows
                 PROVE  book'.rows[i].source \in {<<p, k>> : p \in Photos, k \in 0..MaxRuns}
      BY DEF Sources
    <3>1. book'.rows \in Seq(Entries)
      BY <2>2 DEF Books
    <3>2. book'.rows[i].source \in Files
      <4>1. i \in 1..Len(book'.rows)
        BY <3>1, LenProperties
      <4>2. book'.rows[i] \in Entries
        BY <3>1, <4>1, ElementOfSeq
      <4> QED BY <4>2 DEF Entries
    <3>3. book'.rows[i].source[2] <= MaxRuns
      BY <2>3 DEF Sources
    <3> QED BY <3>2, <3>3, FaultsAssumption DEF Files
  <2>5. \A i \in DOMAIN book'.rows : Own(book'.rows[i], book'.ollama_ok)
    BY <2>1, <2>2 DEF OwnInv, OwnVerdict, Own, Complete
  <2>6. Promise!Faithful(book')
    <3>1. \E files \in SUBSET {<<p, k>> : p \in Photos, k \in 0..MaxRuns} :
            Promise!IsRollOf(book'.rows, scans, files)
      BY <2>3, <2>4, SameBook
    <3>2. \A i \in DOMAIN book'.rows :
            \E result \in Promise!OwnResults(scans, book'.rows[i].voter, book'.ollama_ok) :
              /\ book'.rows[i].a_emarge = result.verdict
              /\ book'.rows[i].method = result.method
      BY <2>5, SameBook DEF Own
    <3> QED BY <3>1, <3>2 DEF Promise!Faithful
  <2>7. Promise!Publish
    BY <2>1, <2>2, <2>6, SameBook DEF Promise!Publish
  <2> QED BY <2>7 DEF Promise!Next
<1> QED BY <1>1, <1>2, BookWritten

(* For those layouts process_folder implements RollExport: whenever it has *)
(* written a workbook, that holds some of the images, each whole and in    *)
(* order, each voter judged by the own signature (export_excel).           *)
THEOREM PromiseIsKept ==
  ASSUME PlainLayouts
  PROVE  Spec => PromiseKept
<1>1. TypeInv /\ EntriesInv' /\ OwnInv' /\ TornInv /\ [Next]_vars
        => [Promise!Next]_<<scans, book>>
  BY PromiseStep
<1> QED BY PromiseInit, EntriesCorrect, OwnCorrect, TornCorrect, <1>1, PTL
        DEF Spec, PromiseKept, Promise!Spec
=============================================================================
