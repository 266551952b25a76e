-------------------------- MODULE RollPipelineProofs --------------------------
(***************************************************************************)
(* What holds of process_folder for every set of photos, every layout, any *)
(* number of runs and any faults.                                          *)
(***************************************************************************)
EXTENDS RollPipeline, SequenceTheorems, FiniteSetTheorems, WellFoundedInduction, TLAPS

-----------------------------------------------------------------------------
(* The data.                                                               *)

(* What detect_signature returns can be written into an entry.             *)
LEMMA ResultWritable ==
  ASSUME NEW crop, NEW ok \in BOOLEAN, NEW reply \in Replies
  PROVE  /\ DetectSignature(crop, ok, reply).verdict \in Verdicts
         /\ DetectSignature(crop, ok, reply).method \in Methods
<1>1. DetectCv(crop).verdict \in {"oui", "non", "inconnu", "ambigu"}
  BY DEF DetectCv, Result
<1>2. DetectCv(crop).method = "cv"
  BY DEF DetectCv, Result
<1>3. DetectVision(reply).verdict \in Verdicts
  BY DEF DetectVision, Result, Verdicts
<1>4. CASE crop = NoCrop
  BY <1>4 DEF DetectSignature, Result, Verdicts, Methods
<1>5. CASE crop # NoCrop /\ AsksVision(crop, ok)
  BY <1>5, <1>3 DEF DetectSignature, Confirmed, Result, Verdicts, Methods
<1>6. CASE crop # NoCrop /\ ~AsksVision(crop, ok) /\ DetectCv(crop).verdict = "ambigu"
  BY <1>6 DEF DetectSignature, Guessed, Result, Verdicts, Methods
<1>7. CASE crop # NoCrop /\ ~AsksVision(crop, ok) /\ DetectCv(crop).verdict # "ambigu"
  BY <1>1, <1>2, <1>7 DEF DetectSignature, Verdicts, Methods
<1> QED BY <1>4, <1>5, <1>6, <1>7

LEMMA TempIsFile ==
  ASSUME NEW f \in Files
  PROVE  Temp(f) \in Files /\ Temp(f)[1] = f[1] /\ Temp(f)[2] = f[2] + 1
BY DEF Files, Temp

LEMMA OriginalsFinite == Originals \subseteq Files /\ IsFiniteSet(Originals)
<1>1. IsFiniteSet({0})
  BY FS_Singleton
<1> QED BY <1>1, FS_Product, PhotosAssumption DEF Originals, Files

(* Judging an entry leaves a sequence of entries of the same length.       *)
LEMMA JudgedEntries ==
  ASSUME NEW s \in Seq(Entries), NEW i \in 1..Len(s),
         NEW v \in Verdicts, NEW m \in Methods
  PROVE  [s EXCEPT ![i].a_emarge = v, ![i].method = m] \in Seq(Entries)
<1>1. s[i] \in Entries
  BY ElementOfSeq
<1> DEFINE e == [s[i] EXCEPT !.a_emarge = v, !.method = m]
<1>2. e \in Entries
  BY <1>1 DEF Entries
<1>3. [s EXCEPT ![i] = e] \in Seq(Entries)
  BY <1>2, ExceptSeq
<1>4. [s EXCEPT ![i].a_emarge = v, ![i].method = m] = [s EXCEPT ![i] = e]
  BY <1>1
<1> QED BY <1>3, <1>4

-----------------------------------------------------------------------------
(* Types.  While an image is being processed, img is one of the listed     *)
(* files; when none is, the loops are at their beginning.                  *)

Busy == pc \in {"convert", "extract", "detect"}

TypeInv == TypeOK /\ (Busy => img \in listed)

LEMMA Empties == IsFiniteSet({}) /\ <<>> \in Seq(Entries) /\ <<>> \in Seq(Files)
BY FS_EmptySet, EmptySeq

LEMMA TypeInit == Init => TypeInv
<1> SUFFICES ASSUME Init PROVE TypeInv
  OBVIOUS
<1> USE DEF Init
<1>1. folder \subseteq Files /\ IsFiniteSet(folder)
  BY OriginalsFinite
<1>2. /\ listed \subseteq Files /\ IsFiniteSet(listed) /\ todo \subseteq listed
      /\ rows \in Seq(Entries) /\ all_rows \in Seq(Entries)
      /\ tmp_files \in Seq(Files)
  BY Empties
<1>3. /\ t \in Nat \ {0} /\ n \in Nat \ {0} /\ row_offset \in Nat
      /\ runs \in Nat /\ failures \in Nat
  OBVIOUS
<1>4. ollama_ok \in BOOLEAN /\ missed \in BOOLEAN
  OBVIOUS
<1> QED BY <1>1, <1>2, <1>3, <1>4 DEF TypeInv, TypeOK, Busy

LEMMA CutShortType ==
  ASSUME TypeInv, CutShort, UNCHANGED disk, missed' \in BOOLEAN
  PROVE  TypeInv'
<1> USE DEF TypeInv, TypeOK, CutShort, disk
<1>1. /\ listed' \subseteq Files /\ IsFiniteSet(listed') /\ todo' \subseteq listed'
      /\ rows' \in Seq(Entries) /\ all_rows' \in Seq(Entries)
      /\ tmp_files' \in Seq(Files)
  BY Empties
<1>2. /\ t' \in Nat \ {0} /\ n' \in Nat \ {0} /\ row_offset' \in Nat
      /\ runs' \in Nat /\ failures' \in Nat
  OBVIOUS
<1>3. ollama_ok' \in BOOLEAN
  OBVIOUS
<1>4. /\ scans' \in [Photos -> Layouts]
      /\ folder' \subseteq Files /\ IsFiniteSet(folder')
      /\ book' \in Books \cup {NoBook, TornBook}
      /\ pc' = "idle" /\ img' \in Files \cup {NoFile}
  OBVIOUS
<1> QED BY <1>1, <1>2, <1>3, <1>4 DEF Busy

LEMMA TypeStep == TypeInv /\ [Next]_vars => TypeInv'
<1> SUFFICES ASSUME TypeInv, [Next]_vars PROVE TypeInv'
  OBVIOUS
<1> USE DEF TypeInv, TypeOK, Busy, paper, disk, listing, image, tallies
<1>1. CASE StartRun
  BY <1>1 DEF StartRun
<1>2. CASE CorrectAndSave
  <2>1. PICK f \in todo : /\ img' = f
                          /\ todo' = todo \ {f}
                          /\ folder' \in {folder, folder \cup {Temp(f)}}
                          /\ tmp_files' = Append(tmp_files, Temp(f))
    BY <1>2 DEF CorrectAndSave
  <2>2. Temp(f) \in Files
    BY TempIsFile
  <2>3. folder' \subseteq Files /\ IsFiniteSet(folder')
    BY <2>1, <2>2, FS_AddElement
  <2>4. tmp_files' \in Seq(Files)
    BY <2>1, <2>2, AppendProperties
  <2> QED BY <1>2, <2>1, <2>3, <2>4 DEF CorrectAndSave
<1>3. CASE CorrectRaises
  BY <1>3, CutShortType DEF CorrectRaises
<1>4. CASE Convert
  BY <1>4 DEF Convert
<1>5. CASE ConvertRaises
  BY <1>5 DEF ConvertRaises
<1>6. CASE ExtractRow
  <2>1. img \in Files
    BY <1>6 DEF ExtractRow
  <2>2. NewEntry(<<img[1], t, n>>) \in Entries
    BY <2>1 DEF NewEntry, Entries, Files, Voters
  <2>3. rows' \in Seq(Entries)
    BY <1>6, <2>2, AppendProperties DEF ExtractRow
  <2> QED BY <1>6, <2>3 DEF ExtractRow
<1>7. CASE ExtractNextTable
  BY <1>7 DEF ExtractNextTable
<1>8. CASE ExtractDone
  BY <1>8 DEF ExtractDone
<1>9. CASE SkipTable
  BY <1>9 DEF SkipTable
<1>10. CASE ColumnsRaise
  BY <1>10, CutShortType DEF ColumnsRaise
<1>11. CASE DetectRow
  <2>1. row_offset + n \in 1..Len(rows)
    BY <1>11, LenProperties DEF DetectRow
  <2>2. PICK reply \in Replies :
          LET result == DetectSignature(LocatedCrop(Table, DataGrid(Table)[n]),
                                        ollama_ok, reply)
          IN  rows' = [rows EXCEPT ![row_offset + n].a_emarge = result.verdict,
                                   ![row_offset + n].method   = result.method]
    BY <1>11 DEF DetectRow
  <2>3. rows' \in Seq(Entries)
    BY <2>1, <2>2, ResultWritable, JudgedEntries
  <2> QED BY <1>11, <2>3 DEF DetectRow, InGrid
<1>12. CASE SkipRow
  BY <1>12 DEF SkipRow, InGrid
<1>13. CASE DetectNextTable
  <2>1. Table.headers \in Seq(GridRows) /\ Table.rows \in Seq(GridRows)
    <3>1. img[1] \in Photos
      BY <1>13 DEF DetectNextTable, InGrid, Files
    <3>2. Page \in Seq(Tables)
      BY <3>1, LayoutsAssumption DEF Page
    <3>3. Table \in Tables
      BY <1>13, <3>2, ElementOfSeq DEF DetectNextTable, InGrid, Table
    <3> QED BY <3>3 DEF Tables
  <2>2. Table.headers \o Table.rows \in Seq(GridRows) /\ Table.headers \o Table.rows # <<>>
    BY <1>13, <2>1, ConcatProperties, EmptySeq DEF DetectNextTable, InGrid
  <2>3. Len(DataGrid(Table)) \in Nat
    BY <2>2, HeadTailProperties, LenProperties DEF DataGrid
  <2> QED BY <1>13, <2>3 DEF DetectNextTable, InGrid
<1>14. CASE FinishImage
  <2>1. all_rows' \in Seq(Entries)
    BY <1>14, ConcatProperties DEF FinishImage
  <2> QED BY <1>14, <2>1, EmptySeq DEF FinishImage
<1>15. CASE OpenBook
  BY <1>15 DEF OpenBook
<1>16. CASE OpenRaises
  BY <1>16, CutShortType DEF OpenRaises
<1>17. CASE SaveBook
  <2>1. book' \in Books
    BY <1>17, FS_CardinalityType DEF SaveBook, Books
  <2> QED BY <1>17, <2>1 DEF SaveBook
<1>18. CASE RemoveTmp
  <2>1. tmp_files' \in Seq(Files)
    BY <1>18, HeadTailProperties DEF RemoveTmp
  <2>2. folder' \subseteq Files /\ IsFiniteSet(folder')
    BY <1>18, FS_RemoveElement DEF RemoveTmp
  <2> QED BY <1>18, <2>1, <2>2 DEF RemoveTmp
<1>19. CASE RemoveRaises
  <2>1. tmp_files' \in Seq(Files)
    BY <1>19, HeadTailProperties DEF RemoveRaises
  <2> QED BY <1>19, <2>1 DEF RemoveRaises
<1>20. CASE EndRun
  BY <1>20, Empties DEF EndRun
<1>21. CASE Kill
  BY <1>21, CutShortType DEF Kill
<1>22. CASE UNCHANGED vars
  BY <1>22 DEF vars
<1> QED BY <1>1, <1>2, <1>3, <1>4, <1>5, <1>6, <1>7, <1>8, <1>9, <1>10, <1>11,
           <1>12, <1>13, <1>14, <1>15, <1>16, <1>17, <1>18, <1>19, <1>20, <1>21,
           <1>22 DEF Next, Step

(* The types of the variables of process_folder.                           *)
THEOREM TypeCorrect == Spec => []TypeOK
<1>1. TypeInv => TypeOK
  BY DEF TypeInv
<1> QED BY TypeInit, TypeStep, <1>1, PTL DEF Spec

-----------------------------------------------------------------------------
(* The files.  A copy is a file whose name ends in "_corrected.jpg"; Of(f) *)
(* is the file it was made of.                                             *)

IsCopy(f) == f[2] > 0
Of(f)     == <<f[1], f[2] - 1>>

(* The originals are there, and tmp_files names copies only.               *)
OriginalsInv == /\ OriginalsKept
                /\ \A i \in DOMAIN tmp_files : IsCopy(tmp_files[i])

(* A running program has listed no generation above the count of failures, *)
(* and has put every copy of the next generation on its list for removal.  *)
GenerationInv ==
  /\ GenerationBound
  /\ pc # "idle" =>
       /\ \A f \in listed : f[2] <= failures
       /\ \A f \in folder : f[2] > failures => f \in Range(tmp_files)

(* Unless a clean-up has missed a copy, what a copy was made of is in the  *)
(* folder whenever the program is not removing copies; so a run that lists *)
(* a copy makes that copy again, and puts it on its list for removal.      *)
Working == pc \in {"next", "convert", "extract", "detect", "save"}

HealInv ==
  /\ Working => /\ listed \subseteq folder
                /\ \A f \in listed : f \in todo \/ Temp(f) \in Range(tmp_files)
  /\ pc = "save" => todo = {}
  /\ ~missed =>
       /\ pc = "idle" => \A f \in folder : IsCopy(f) => Of(f) \in folder
       /\ Working => \A f \in folder : IsCopy(f) => Of(f) \in listed
       /\ pc = "remove" => \A f \in folder : IsCopy(f) => f \in Range(tmp_files)

DiskInv == OriginalsInv /\ GenerationInv /\ HealInv

LEMMA RangeAppend ==
  ASSUME NEW S, NEW s \in Seq(S), NEW e \in S
  PROVE  Range(Append(s, e)) = Range(s) \cup {e}
<1>1. /\ Append(s, e) \in Seq(S) /\ Len(Append(s, e)) = Len(s) + 1
      /\ \A i \in 1..Len(s) : Append(s, e)[i] = s[i]
      /\ Append(s, e)[Len(s) + 1] = e
  BY AppendProperties
<1>2. Range(Append(s, e)) = {Append(s, e)[i] : i \in 1..(Len(s) + 1)}
  BY <1>1, RangeEquality
<1>3. Range(s) = {s[i] : i \in 1..Len(s)}
  BY RangeEquality
<1>4. Len(s) \in Nat
  BY LenProperties
<1> QED BY <1>1, <1>2, <1>3, <1>4

LEMMA RangeTail ==
  ASSUME NEW S, NEW s \in Seq(S), s # <<>>
  PROVE  Range(s) = {Head(s)} \cup Range(Tail(s))
<1>1. /\ Tail(s) \in Seq(S) /\ Len(Tail(s)) = Len(s) - 1
      /\ \A i \in 1..Len(Tail(s)) : Tail(s)[i] = s[i + 1]
  BY HeadTailProperties
<1>2. Len(s) \in Nat /\ Len(s) > 0 /\ Head(s) = s[1]
  BY LenProperties, EmptySeq
<1>3. Range(s) = {s[i] : i \in 1..Len(s)}
  BY RangeEquality
<1>4. Range(Tail(s)) = {Tail(s)[i] : i \in 1..Len(Tail(s))}
  BY <1>1, RangeEquality
<1>5. ASSUME NEW x \in Range(s) PROVE x \in {Head(s)} \cup Range(Tail(s))
  <2>1. PICK i \in 1..Len(s) : x = s[i]
    BY <1>3
  <2>2. i = 1 \/ i - 1 \in 1..Len(Tail(s))
    BY <1>1, <1>2
  <2>3. i - 1 \in 1..Len(Tail(s)) => Tail(s)[i - 1] = s[i]
    BY <1>1
  <2> QED BY <1>2, <1>4, <2>1, <2>2, <2>3
<1>6. ASSUME NEW x \in {Head(s)} \cup Range(Tail(s)) PROVE x \in Range(s)
  BY <1>1, <1>2, <1>3, <1>4
<1> QED BY <1>5, <1>6

LEMMA RangeEmpty == Range(<<>>) = {}
BY DEF Range

LEMMA CopyOf ==
  /\ \A f \in Files : f[2] \in Nat /\ (~IsCopy(f) => f \in Originals)
  /\ \A f \in Originals : f[2] = 0 /\ ~IsCopy(f)
  /\ \A f \in Files : IsCopy(Temp(f)) /\ Of(Temp(f)) = f
  /\ \A f \in Files : IsCopy(f) => Of(f) \in Files /\ Temp(Of(f)) = f
BY DEF Files, Originals, IsCopy, Of, Temp

-----------------------------------------------------------------------------
LEMMA DiskInit == Init => DiskInv
<1> SUFFICES ASSUME Init PROVE DiskInv
  OBVIOUS
<1> USE DEF Init
<1>1. OriginalsInv
  BY DEF OriginalsInv, OriginalsKept
<1>2. GenerationInv
  BY CopyOf DEF GenerationInv, GenerationBound
<1>3. HealInv
  BY CopyOf DEF HealInv
<1> QED BY <1>1, <1>2, <1>3 DEF DiskInv

(* The steps that touch neither the disk nor the lists of files.           *)
LEMMA DiskUnchanged ==
  ASSUME DiskInv,
         UNCHANGED <<folder, listed, todo, tmp_files, failures, missed>>,
         pc' = pc \/ {pc, pc'} \subseteq {"next", "convert", "extract", "detect"}
  PROVE  DiskInv'
<1>1. OriginalsInv'
  BY DEF DiskInv, OriginalsInv, OriginalsKept
<1>2. GenerationInv'
  BY DEF DiskInv, GenerationInv, GenerationBound
<1>3. HealInv'
  BY DEF DiskInv, HealInv, Working
<1> QED BY <1>1, <1>2, <1>3 DEF DiskInv

(* A run that is cut short leaves the files as they are.  In the middle of *)
(* the clean-up it counts as having missed a copy if one was left.         *)
LEMMA DiskCutShort ==
  ASSUME TypeInv, DiskInv, CutShort, UNCHANGED disk, pc # "idle",
         \/ UNCHANGED missed /\ Working
         \/ missed' = (missed \/ (pc = "remove" /\ Range(tmp_files) \cap folder # {}))
  PROVE  DiskInv'
<1> USE DEF CutShort, disk
<1>1. OriginalsInv'
  BY DEF DiskInv, OriginalsInv, OriginalsKept
<1>2. GenerationInv'
  BY DEF DiskInv, GenerationInv, GenerationBound, TypeInv, TypeOK
<1>3. HealInv'
  <2>1. ASSUME ~missed', NEW f \in folder, IsCopy(f) PROVE Of(f) \in folder
    <3>1. ~missed
      BY <2>1
    <3>2. CASE Working
      BY <2>1, <3>1, <3>2 DEF DiskInv, HealInv
    <3>3. CASE pc = "remove"
      BY <2>1, <3>1, <3>3 DEF DiskInv, HealInv, Working
    <3> QED BY <3>2, <3>3 DEF TypeInv, TypeOK, Working
  <2> QED BY <2>1 DEF HealInv, Working
<1> QED BY <1>1, <1>2, <1>3 DEF DiskInv

LEMMA DiskStart == TypeInv /\ DiskInv /\ StartRun => DiskInv'
<1> SUFFICES ASSUME TypeInv, DiskInv, StartRun PROVE DiskInv'
  OBVIOUS
<1> USE DEF StartRun, disk
<1>1. OriginalsInv'
  BY DEF DiskInv, OriginalsInv, OriginalsKept
<1>2. GenerationInv'
  BY CopyOf DEF DiskInv, GenerationInv, GenerationBound, TypeInv, TypeOK
<1>3. HealInv'
  BY DEF DiskInv, HealInv, Working
<1> QED BY <1>1, <1>2, <1>3 DEF DiskInv

LEMMA DiskSave == TypeInv /\ DiskInv /\ CorrectAndSave => DiskInv'
<1> SUFFICES ASSUME TypeInv, DiskInv, CorrectAndSave PROVE DiskInv'
  OBVIOUS
<1> USE DEF TypeInv, TypeOK
<1>1. PICK f \in todo : /\ todo' = todo \ {f}
                        /\ folder' \in {folder, folder \cup {Temp(f)}}
                        /\ tmp_files' = Append(tmp_files, Temp(f))
  BY DEF CorrectAndSave
<1>2. /\ pc = "next" /\ pc' = "convert"
      /\ listed' = listed /\ failures' = failures /\ missed' = missed
  BY DEF CorrectAndSave, tallies
<1>3. f \in Files /\ f \in listed /\ Temp(f) \in Files
  BY TempIsFile
<1>4. Range(tmp_files') = Range(tmp_files) \cup {Temp(f)}
  BY <1>1, <1>3, RangeAppend
<1>5. OriginalsInv'
  <2>1. \A i \in DOMAIN tmp_files' : tmp_files'[i] \in Range(tmp_files) \cup {Temp(f)}
    BY <1>4 DEF Range
  <2> QED BY <1>1, <1>3, <2>1, CopyOf DEF DiskInv, OriginalsInv, OriginalsKept, Range
<1>6. GenerationInv'
  <2>1. Temp(f)[2] <= failures + 1
    BY <1>2, <1>3, TempIsFile, CopyOf DEF DiskInv, GenerationInv
  <2> QED BY <1>1, <1>2, <1>4, <2>1 DEF DiskInv, GenerationInv, GenerationBound
<1>7. HealInv'
  <2>1. Of(Temp(f)) \in listed
    BY <1>3, CopyOf
  <2> QED BY <1>1, <1>2, <1>4, <2>1 DEF DiskInv, HealInv, Working
<1> QED BY <1>5, <1>6, <1>7 DEF DiskInv

LEMMA DiskBook == TypeInv /\ DiskInv /\ (OpenBook \/ SaveBook) => DiskInv'
<1> SUFFICES ASSUME TypeInv, DiskInv, OpenBook \/ SaveBook PROVE DiskInv'
  OBVIOUS
<1> USE DEF OpenBook, SaveBook, listing, tallies
<1>1. OriginalsInv'
  BY DEF DiskInv, OriginalsInv, OriginalsKept
<1>2. GenerationInv'
  BY DEF DiskInv, GenerationInv, GenerationBound
<1>3. CASE OpenBook
  <2>1. HealInv'
    BY <1>3 DEF DiskInv, HealInv, Working
  <2> QED BY <1>1, <1>2, <2>1 DEF DiskInv
<1>4. CASE SaveBook
  <2>1. ASSUME ~missed, NEW f \in folder, IsCopy(f) PROVE f \in Range(tmp_files)
    <3>1. Of(f) \in listed /\ todo = {}
      BY <1>4, <2>1 DEF DiskInv, HealInv, Working
    <3>2. Temp(Of(f)) \in Range(tmp_files)
      BY <1>4, <3>1 DEF DiskInv, HealInv, Working
    <3> QED BY <2>1, <3>2, CopyOf DEF TypeInv, TypeOK
  <2>2. HealInv'
    BY <1>4, <2>1 DEF HealInv, Working
  <2> QED BY <1>1, <1>2, <2>2 DEF DiskInv
<1> QED BY <1>3, <1>4

LEMMA DiskRemove == TypeInv /\ DiskInv /\ (RemoveTmp \/ RemoveRaises) => DiskInv'
<1> SUFFICES ASSUME TypeInv, DiskInv, RemoveTmp \/ RemoveRaises PROVE DiskInv'
  OBVIOUS
<1>1. /\ pc = "remove" /\ pc' = "remove" /\ listed' = listed
      /\ tmp_files # <<>> /\ tmp_files' = Tail(tmp_files)
      /\ \/ /\ folder' = folder \ {Head(tmp_files)}
            /\ failures' = failures /\ missed' = missed
         \/ folder' = folder /\ failures' = failures + 1 /\ missed' = TRUE
  BY DEF RemoveTmp, RemoveRaises, disk, listing, tallies
<1>2. Range(tmp_files) = {Head(tmp_files)} \cup Range(tmp_files')
  BY <1>1, RangeTail DEF TypeInv, TypeOK
<1>3. \A f \in Range(tmp_files) : IsCopy(f)
  BY DEF DiskInv, OriginalsInv, Range
<1>4. OriginalsInv'
  <2>1. \A i \in DOMAIN tmp_files' : tmp_files'[i] \in Range(tmp_files)
    BY <1>2 DEF Range
  <2>2. Originals \subseteq folder'
    BY <1>1, <1>2, <1>3, CopyOf DEF DiskInv, OriginalsInv, OriginalsKept
  <2> QED BY <1>3, <2>1, <2>2 DEF OriginalsInv, OriginalsKept
<1>5. GenerationInv'
  BY <1>1, <1>2, CopyOf DEF DiskInv, GenerationInv, GenerationBound, TypeInv, TypeOK
<1>6. HealInv'
  BY <1>1, <1>2 DEF DiskInv, HealInv, Working
<1> QED BY <1>4, <1>5, <1>6 DEF DiskInv

LEMMA DiskEnd == TypeInv /\ DiskInv /\ EndRun => DiskInv'
<1> SUFFICES ASSUME TypeInv, DiskInv, EndRun PROVE DiskInv'
  OBVIOUS
<1> USE DEF EndRun, disk, tallies
<1>1. OriginalsInv'
  BY DEF DiskInv, OriginalsInv, OriginalsKept
<1>2. GenerationInv'
  BY RangeEmpty, CopyOf DEF DiskInv, GenerationInv, GenerationBound, TypeInv, TypeOK
<1>3. HealInv'
  BY RangeEmpty DEF DiskInv, HealInv, Working
<1> QED BY <1>1, <1>2, <1>3 DEF DiskInv

LEMMA DiskStep == TypeInv /\ DiskInv /\ [Next]_vars => DiskInv'
<1> SUFFICES ASSUME TypeInv, DiskInv, [Next]_vars PROVE DiskInv'
  OBVIOUS
<1>1. CASE StartRun
  BY <1>1, DiskStart
<1>2. CASE CorrectAndSave
  BY <1>2, DiskSave
<1>3. CASE CorrectRaises \/ ColumnsRaise \/ OpenRaises
  BY <1>3, DiskCutShort DEF CorrectRaises, ColumnsRaise, OpenRaises, Working
<1>4. CASE \/ Convert \/ ConvertRaises \/ ExtractRow \/ ExtractNextTable
           \/ ExtractDone \/ SkipTable \/ DetectRow \/ SkipRow
           \/ DetectNextTable \/ FinishImage
  BY <1>4, DiskUnchanged
  DEF Convert, ConvertRaises, ExtractRow, ExtractNextTable, ExtractDone, SkipTable,
      DetectRow, SkipRow, DetectNextTable, FinishImage, InGrid, disk, listing, tallies
<1>5. CASE OpenBook \/ SaveBook
  BY <1>5, DiskBook
<1>6. CASE RemoveTmp \/ RemoveRaises
  BY <1>6, DiskRemove
<1>7. CASE EndRun
  BY <1>7, DiskEnd
<1>8. CASE Kill
  BY <1>8, DiskCutShort DEF Kill
<1>9. CASE UNCHANGED vars
  BY <1>9, DiskUnchanged DEF vars
<1> QED BY <1>1, <1>2, <1>3, <1>4, <1>5, <1>6, <1>7, <1>8, <1>9 DEF Next, Step

LEMMA DiskCorrect == Spec => [](TypeInv /\ DiskInv)
BY TypeInit, TypeStep, DiskInit, DiskStep, PTL DEF Spec

(* No run, whatever cuts it short and whatever earlier runs have left, has *)
(* removed an original photo (os.remove over tmp_files).                   *)
THEOREM OriginalsNeverRemoved == Spec => []OriginalsKept
<1>1. DiskInv => OriginalsKept
  BY DEF DiskInv, OriginalsInv
<1> QED BY DiskCorrect, <1>1, PTL

(* The copies in the folder are at most as many generations deep as there  *)
(* have been failures (save_temp names a copy after what it was made of).  *)
THEOREM GenerationsBounded == Spec => []GenerationBound
<1>1. DiskInv => GenerationBound
  BY DEF DiskInv, GenerationInv
<1> QED BY DiskCorrect, <1>1, PTL

(* A run that comes to its end removes its own copies and all that earlier *)
(* runs have left, unless a clean-up loop has missed one.                  *)
THEOREM HealsItself == Spec => []SelfHealing
<1>1. TypeInv /\ DiskInv => SelfHealing
  <2> SUFFICES ASSUME TypeInv, DiskInv, pc = "remove", tmp_files = <<>>, ~missed
               PROVE  folder = Originals
    BY DEF SelfHealing
  <2>1. \A f \in folder : ~IsCopy(f)
    BY RangeEmpty DEF DiskInv, HealInv
  <2>2. folder \subseteq Originals
    BY <2>1, CopyOf DEF TypeInv, TypeOK
  <2> QED BY <2>2 DEF DiskInv, OriginalsInv, OriginalsKept
<1> QED BY DiskCorrect, <1>1, PTL

(***************************************************************************)
(* What the workbooks hold.                                                *)
(***************************************************************************)
-----------------------------------------------------------------------------
(* Induction over the natural numbers, for sets: what the loops over the   *)
(* tables of a page need.                                                  *)
LEMMA NatSetInduction ==
  ASSUME NEW S, 0 \in S, \A k \in Nat : k \in S => k + 1 \in S
  PROVE  Nat \subseteq S
<1> DEFINE Less    == OpToRel(<, Nat)
           Outside == Nat \ S
<1>1. IsWellFoundedOn(Less, Nat)
  BY NatLessThanWellFounded
<1>2. \A x, y \in Nat : y < x => <<y, x>> \in Less
  BY DEF OpToRel
<1> HIDE DEF Less
<1>3. SUFFICES ASSUME Outside # {} PROVE FALSE
  OBVIOUS
<1>4. PICK x \in Outside : \A y \in Outside : <<y, x>> \notin Less
  BY <1>1, <1>3, WFMin
<1>5. x # 0 /\ x - 1 \in Nat /\ x - 1 < x /\ x = (x - 1) + 1
  OBVIOUS
<1>6. x - 1 \notin Outside
  BY <1>2, <1>4, <1>5
<1> QED BY <1>4, <1>5, <1>6

(* How many data rows the tables before each table of a page have.         *)
Offsets(page) ==
  {off \in [1..(Len(page) + 1) -> Nat] :
     /\ off[1] = 0
     /\ \A j \in 1..Len(page) : off[j + 1] = off[j] + Len(page[j].rows)}

LEMMA TablesOf ==
  ASSUME NEW page \in Seq(Tables)
  PROVE  /\ Len(page) \in Nat /\ DOMAIN page = 1..Len(page)
         /\ \A j \in 1..Len(page) :
              /\ page[j] \in Tables
              /\ page[j].headers \in Seq(GridRows) /\ Len(page[j].headers) \in Nat
              /\ page[j].rows \in Seq(GridRows) /\ Len(page[j].rows) \in Nat
              /\ DOMAIN page[j].rows = 1..Len(page[j].rows)
              /\ page[j].emarg \in BOOLEAN
<1>1. Len(page) \in Nat /\ DOMAIN page = 1..Len(page)
  BY LenProperties
<1>2. \A j \in 1..Len(page) : page[j] \in Tables
  BY ElementOfSeq
<1> QED BY <1>1, <1>2, LenProperties DEF Tables

LEMMA OffsetsExist ==
  ASSUME NEW page \in Seq(Tables)
  PROVE  \E off : off \in Offsets(page)
<1> DEFINE UpTo(k) == {off \in [1..(k + 1) -> Nat] :
                         /\ off[1] = 0
                         /\ \A j \in 1..k : off[j + 1] = off[j] + Len(page[j].rows)}
           Ks == {k \in Nat : k <= Len(page) => UpTo(k) # {}}
<1>1. 0 \in Ks
  <2>1. [j \in 1..(0 + 1) |-> 0] \in UpTo(0)
    OBVIOUS
  <2> QED BY <2>1
<1>2. ASSUME NEW k \in Nat, k \in Ks PROVE k + 1 \in Ks
  <2>1. SUFFICES ASSUME k + 1 <= Len(page) PROVE UpTo(k + 1) # {}
    OBVIOUS
  <2>2. PICK off : off \in UpTo(k)
    BY <1>2, <2>1, TablesOf
  <2>3. Len(page[k + 1].rows) \in Nat
    BY <2>1, TablesOf
  <2> DEFINE more == [j \in 1..((k + 1) + 1) |->
                        IF j <= k + 1 THEN off[j]
                                      ELSE off[k + 1] + Len(page[k + 1].rows)]
  <2>4. more \in [1..((k + 1) + 1) -> Nat] /\ more[1] = 0
    BY <2>2, <2>3
  <2>5. ASSUME NEW j \in 1..(k + 1)
        PROVE  more[j + 1] = more[j] + Len(page[j].rows)
    <3>1. CASE j = k + 1
      BY <3>1
    <3>2. CASE j # k + 1
      BY <2>2, <3>2
    <3> QED BY <3>1, <3>2
  <2>6. more \in UpTo(k + 1)
    BY <2>4, <2>5
  <2> QED BY <2>6
<1>3. Nat \subseteq Ks
  <2> HIDE DEF Ks
  <2> QED BY <1>1, <1>2, NatSetInduction
<1>4. Len(page) \in Ks
  BY <1>3, TablesOf
<1>5. UpTo(Len(page)) = Offsets(page)
  BY DEF Offsets
<1> QED BY <1>4, <1>5, TablesOf

-----------------------------------------------------------------------------
(* The voters.                                                             *)

LEMMA PagesAreSequences ==
  ASSUME TypeInv, NEW p \in Photos
  PROVE  scans[p] \in Seq(Tables) /\ scans[p] \in Layouts
BY LayoutsAssumption DEF TypeInv, TypeOK

LEMMA BusyPage ==
  ASSUME TypeInv, Busy
  PROVE  /\ img \in Files /\ img[1] \in Photos
         /\ Page \in Seq(Tables) /\ Page \in Layouts /\ Page = scans[img[1]]
<1>1. img \in Files
  BY DEF TypeInv, TypeOK
<1>2. img[1] \in Photos
  BY <1>1 DEF Files
<1> QED BY <1>1, <1>2, PagesAreSequences DEF Page

LEMMA PrintedRows ==
  ASSUME NEW S, NEW p, NEW v
  PROVE  v \in VotersOn(S, p)
           <=> /\ v = <<p, v[2], v[3]>>
               /\ v[2] \in DOMAIN S[p]
               /\ v[3] \in DOMAIN S[p][v[2]].rows
               /\ S[p][v[2]].rows[v[3]].known
<1> DEFINE kept(j) == {k \in DOMAIN S[p][j].rows : S[p][j].rows[k].known}
           in(j)   == {<<p, j, k>> : k \in kept(j)}
<1>1. v \in VotersOn(S, p) <=> \E j \in DOMAIN S[p] : v \in in(j)
  BY DEF VotersOn
<1>2. ASSUME NEW j \in DOMAIN S[p]
      PROVE  v \in in(j) <=> v = <<p, j, v[3]>> /\ v[3] \in kept(j)
  OBVIOUS
<1> QED BY <1>1, <1>2

(* Before is a strict total order of the files.                            *)
LEMMA FilesOrdered ==
  /\ \A f, g \in Files : Before(f, g) \/ f = g \/ Before(g, f)
  /\ \A f \in Files : ~Before(f, f)
  /\ \A f, g, h \in Files : Before(f, g) /\ Before(g, h) => Before(f, h)
<1>1. \A f \in Files : f[1] \in Nat /\ f[2] \in Nat /\ f = <<f[1], f[2]>>
  <2> SUFFICES ASSUME NEW f \in Photos \X Nat
               PROVE  f[1] \in Nat /\ f[2] \in Nat /\ f = <<f[1], f[2]>>
    BY DEF Files
  <2>1. f[1] \in Photos /\ f[2] \in Nat /\ f = <<f[1], f[2]>>
    OBVIOUS
  <2> QED BY <2>1, PhotosAssumption
<1> QED BY <1>1 DEF Before

-----------------------------------------------------------------------------
(* The entries.                                                            *)

SourcesOf(entries) == {entries[i].source : i \in DOMAIN entries}

Ordered(entries) ==
  \A i, j \in DOMAIN entries : i < j => Precedes(entries[i], entries[j])

VotersIn(entries) == {entries[i].voter : i \in DOMAIN entries}

(* The entries of the image: the printed rows that the loop has passed.    *)
Passed(v) == v[2] < t \/ (v[2] = t /\ v[3] < n)

RowsInv ==
  /\ pc = "extract" =>
       VotersIn(rows) = {v \in VotersOn(scans, img[1]) : Passed(v)}
  /\ pc = "detect" => VotersIn(rows) = VotersOn(scans, img[1])
  /\ pc \in {"extract", "detect"} =>
       Ordered(rows) /\ \A i \in DOMAIN rows : rows[i].source = img

(* The entries of the images before it.                                    *)
AllRowsInv ==
  /\ SourcesOf(all_rows) \subseteq listed
  /\ IsRollOf(all_rows, scans, SourcesOf(all_rows))
  /\ \A f \in SourcesOf(all_rows) :
       /\ \A g \in todo : Before(f, g)
       /\ Busy => Before(f, img)
  /\ Busy => \A g \in todo : Before(img, g)

(* How deep the copies in the folder are, counted by runs: a run that is   *)
(* not cut short may fail to remove many copies.                           *)
RunsInv ==
  /\ runs \in 0..MaxRuns
  /\ \A f \in folder : f[2] <= runs
  /\ pc # "idle" => \A f \in listed : f[2] < runs

BookInv ==
  /\ BookIsWhole
  /\ Complete(book) =>
       \A f \in Sources(book) : f[2] <= MaxRuns /\ (failures = 0 => f[2] = 0)

EntriesInv == RowsInv /\ AllRowsInv /\ RunsInv /\ BookInv

LEMMA EntriesInit == Init => EntriesInv
<1> SUFFICES ASSUME Init PROVE EntriesInv
  OBVIOUS
<1> USE DEF Init
<1>1. RowsInv
  BY DEF RowsInv
<1>2. AllRowsInv
  BY DEF AllRowsInv, SourcesOf, IsRollOf, Busy
<1>3. RunsInv
  BY FaultsAssumption, CopyOf DEF RunsInv
<1>4. BookInv
  BY DEF BookInv, BookIsWhole, Complete
<1> QED BY <1>1, <1>2, <1>3, <1>4 DEF EntriesInv

(* What the steps leave alone.                                             *)
LEMMA RunsUnchanged ==
  ASSUME RunsInv, UNCHANGED <<folder, listed, runs>>, pc = "idle" => pc' = "idle"
  PROVE  RunsInv'
BY DEF RunsInv

LEMMA BookUnchanged ==
  ASSUME TypeInv, BookInv, UNCHANGED <<book, scans>>,
         failures' \in Nat, failures' >= failures
  PROVE  BookInv'
<1>1. failures' = 0 => failures = 0
  BY DEF TypeInv, TypeOK
<1> QED BY <1>1 DEF BookInv, BookIsWhole, Complete, Sources

LEMMA AllRowsUnchanged ==
  ASSUME AllRowsInv, UNCHANGED <<scans, listed, todo, all_rows>>,
         Busy' => UNCHANGED img /\ Busy
  PROVE  AllRowsInv'
BY DEF AllRowsInv

LEMMA NoEntries ==
  ASSUME all_rows' = <<>>, ~Busy'
  PROVE  AllRowsInv'
BY DEF AllRowsInv, SourcesOf, IsRollOf
-----------------------------------------------------------------------------
(* Entries that are added.                                                 *)

LEMMA AppendEntry ==
  ASSUME NEW s \in Seq(Entries), NEW e \in Entries, Ordered(s),
         \A i \in DOMAIN s : Precedes(s[i], e)
  PROVE  /\ Ordered(Append(s, e))
         /\ VotersIn(Append(s, e)) = VotersIn(s) \cup {e.voter}
         /\ \A i \in DOMAIN Append(s, e) :
              Append(s, e)[i] = e \/ \E j \in DOMAIN s : Append(s, e)[i] = s[j]
<1>1. /\ DOMAIN s = 1..Len(s) /\ Len(s) \in Nat
      /\ DOMAIN Append(s, e) = 1..(Len(s) + 1)
      /\ \A i \in 1..Len(s) : Append(s, e)[i] = s[i]
      /\ Append(s, e)[Len(s) + 1] = e
  BY AppendProperties, LenProperties
<1> DEFINE a == Append(s, e)
<1> HIDE DEF a
<1>2. Ordered(a)
  <2> SUFFICES ASSUME NEW i \in DOMAIN a, NEW j \in DOMAIN a, i < j
               PROVE  Precedes(a[i], a[j])
    BY DEF Ordered
  <2>1. CASE j = Len(s) + 1
    BY <1>1, <2>1 DEF a
  <2>2. CASE j # Len(s) + 1
    BY <1>1, <2>2 DEF a, Ordered
  <2> QED BY <2>1, <2>2
<1>3. VotersIn(a) = VotersIn(s) \cup {e.voter}
  <2>1. ASSUME NEW v \in VotersIn(a) PROVE v \in VotersIn(s) \cup {e.voter}
    BY <1>1 DEF a, VotersIn
  <2>2. ASSUME NEW v \in VotersIn(s) PROVE v \in VotersIn(a)
    <3>1. PICK i \in DOMAIN s : v = s[i].voter
      BY DEF VotersIn
    <3>2. i \in DOMAIN a /\ a[i] = s[i]
      BY <1>1 DEF a
    <3> QED BY <3>1, <3>2 DEF VotersIn
  <2>3. e.voter \in VotersIn(a)
    BY <1>1 DEF a, VotersIn
  <2> QED BY <2>1, <2>2, <2>3
<1>4. \A i \in DOMAIN a : a[i] = e \/ \E j \in DOMAIN s : a[i] = s[j]
  BY <1>1 DEF a
<1> QED BY <1>2, <1>3, <1>4 DEF a

LEMMA ConcatEntries ==
  ASSUME NEW r \in Seq(Entries), NEW s \in Seq(Entries), Ordered(r), Ordered(s),
         \A i \in DOMAIN r, j \in DOMAIN s : Precedes(r[i], s[j])
  PROVE  /\ Ordered(r \o s)
         /\ \A x : (\E i \in DOMAIN (r \o s) : (r \o s)[i] = x)
                   <=> (\E i \in DOMAIN r : r[i] = x) \/ (\E i \in DOMAIN s : s[i] = x)
<1> DEFINE c == r \o s
<1>1. /\ DOMAIN r = 1..Len(r) /\ Len(r) \in Nat
      /\ DOMAIN s = 1..Len(s) /\ Len(s) \in Nat
      /\ DOMAIN c = 1..(Len(r) + Len(s))
      /\ \A i \in 1..Len(r) : c[i] = r[i]
      /\ \A i \in 1..Len(s) : c[Len(r) + i] = s[i]
  BY ConcatProperties, LenProperties
<1> HIDE DEF c
<1>2. \A i \in DOMAIN c : \/ i \in DOMAIN r /\ c[i] = r[i]
                         \/ /\ i > Len(r) /\ i - Len(r) \in DOMAIN s
                            /\ c[i] = s[i - Len(r)]
  <2> SUFFICES ASSUME NEW i \in DOMAIN c, i \notin DOMAIN r
               PROVE  i > Len(r) /\ i - Len(r) \in DOMAIN s /\ c[i] = s[i - Len(r)]
    BY <1>1
  <2>1. i > Len(r) /\ i - Len(r) \in DOMAIN s /\ i = Len(r) + (i - Len(r))
    BY <1>1
  <2> QED BY <1>1, <2>1
<1>3. Ordered(c)
  <2> SUFFICES ASSUME NEW i \in DOMAIN c, NEW j \in DOMAIN c, i < j
               PROVE  Precedes(c[i], c[j])
    BY DEF Ordered
  <2>1. CASE j \in DOMAIN r
    BY <1>1, <2>1 DEF Ordered
  <2>2. CASE i \in DOMAIN r /\ j \notin DOMAIN r
    BY <1>1, <1>2, <2>2
  <2>3. CASE i \notin DOMAIN r /\ j \notin DOMAIN r
    <3>1. i - Len(r) < j - Len(r)
      BY <1>1
    <3> QED BY <1>1, <1>2, <2>3, <3>1 DEF Ordered
  <2> QED BY <1>1, <2>1, <2>2, <2>3
<1>4. ASSUME NEW x, \E i \in DOMAIN c : c[i] = x
      PROVE  (\E i \in DOMAIN r : r[i] = x) \/ (\E i \in DOMAIN s : s[i] = x)
  BY <1>2, <1>4
<1>5. ASSUME NEW x, NEW i \in DOMAIN r, r[i] = x PROVE \E k \in DOMAIN c : c[k] = x
  BY <1>1, <1>5
<1>6. ASSUME NEW x, NEW i \in DOMAIN s, s[i] = x PROVE \E k \in DOMAIN c : c[k] = x
  <2>1. Len(r) + i \in DOMAIN c /\ c[Len(r) + i] = x
    BY <1>1, <1>6
  <2> QED BY <2>1
<1> QED BY <1>3, <1>4, <1>5, <1>6 DEF c

(* A result changes neither whom an entry is about nor its place.          *)
LEMMA JudgedSame ==
  ASSUME NEW s \in Seq(Entries), NEW k \in 1..Len(s), NEW v, NEW m
  PROVE  LET r == [s EXCEPT ![k].a_emarge = v, ![k].method = m]
         IN  /\ DOMAIN r = DOMAIN s
             /\ \A i \in DOMAIN s : r[i].voter = s[i].voter /\ r[i].source = s[i].source
             /\ \A i \in DOMAIN s : i # k => r[i] = s[i]
             /\ r[k].a_emarge = v /\ r[k].method = m
<1> DEFINE e == [s[k] EXCEPT !.a_emarge = v, !.method = m]
           r == [s EXCEPT ![k] = e]
<1>1. DOMAIN s = 1..Len(s) /\ s[k] \in Entries
  BY ElementOfSeq, LenProperties
<1>2. [s EXCEPT ![k].a_emarge = v, ![k].method = m] = r
  BY <1>1
<1>3. /\ e.voter = s[k].voter /\ e.source = s[k].source
      /\ e.a_emarge = v /\ e.method = m
  BY <1>1 DEF Entries
<1>4. DOMAIN r = DOMAIN s /\ r[k] = e /\ \A i \in DOMAIN s : i # k => r[i] = s[i]
  BY <1>1
<1> QED BY <1>2, <1>3, <1>4
-----------------------------------------------------------------------------
(* The rows of one image.                                                  *)

LEMMA RowsNone ==
  ASSUME pc' \notin {"extract", "detect"}
  PROVE  RowsInv'
BY DEF RowsInv

LEMMA RowsConvert == TypeInv /\ Convert => RowsInv'
<1> SUFFICES ASSUME TypeInv, Convert PROVE RowsInv'
  OBVIOUS
<1>1. /\ pc' = "extract" /\ rows' = <<>> /\ t' = 1 /\ n' = 1
      /\ scans' = scans /\ img' = img /\ Busy
  BY DEF Convert, paper, Busy
<1>2. Page \in Seq(Tables) /\ Page = scans[img[1]]
  BY <1>1, BusyPage
<1>3. ASSUME NEW v \in VotersOn(scans, img[1])
      PROVE  v[2] >= 1 /\ v[3] >= 1 /\ v[2] \in Nat /\ v[3] \in Nat
  <2>1. v[2] \in DOMAIN Page /\ v[3] \in DOMAIN Page[v[2]].rows
    BY <1>2, PrintedRows
  <2>2. v[2] \in 1..Len(Page) /\ Len(Page) \in Nat
    BY <2>1, <1>2, TablesOf
  <2>3. /\ DOMAIN Page[v[2]].rows = 1..Len(Page[v[2]].rows)
        /\ Len(Page[v[2]].rows) \in Nat
    BY <2>2, <1>2, TablesOf
  <2>4. v[3] \in 1..Len(Page[v[2]].rows)
    BY <2>1, <2>3
  <2> HIDE DEF Page
  <2> QED BY <2>2, <2>3, <2>4
<1>4. \A v \in VotersOn(scans', img'[1]) : ~(v[2] < t' \/ (v[2] = t' /\ v[3] < n'))
  BY <1>1, <1>3
<1>5. VotersIn(rows') = {}
  BY <1>1 DEF VotersIn
<1> QED BY <1>1, <1>4, <1>5 DEF RowsInv, Ordered, Passed

LEMMA RowsExtract == TypeInv /\ RowsInv /\ ExtractRow => RowsInv'
<1> SUFFICES ASSUME TypeInv, RowsInv, ExtractRow PROVE RowsInv'
  OBVIOUS
<1> DEFINE new == <<img[1], t, n>>
           e   == NewEntry(new)
           all == VotersOn(scans, img[1])
<1>1. /\ pc = "extract" /\ pc' = "extract" /\ t' = t /\ n' = n + 1
      /\ scans' = scans /\ img' = img /\ Busy
      /\ t <= Len(Page) /\ n <= Len(Table.rows)
      /\ rows' = IF Table.rows[n].known THEN Append(rows, e) ELSE rows
  BY DEF ExtractRow, paper, Busy
<1>2. /\ img \in Files /\ img[1] \in Photos
      /\ Page \in Seq(Tables) /\ Page = scans[img[1]]
  BY <1>1, BusyPage
<1>3. t \in Nat \ {0} /\ n \in Nat \ {0} /\ rows \in Seq(Entries)
  BY DEF TypeInv, TypeOK
<1>4. t \in 1..Len(Page) /\ n \in DOMAIN Page[t].rows /\ Table = Page[t]
  BY <1>1, <1>2, <1>3, TablesOf DEF Table
<1>5. new \in all <=> Table.rows[n].known
  BY <1>2, <1>4, PrintedRows, TablesOf
<1>6. \A v \in all : v[2] \in Nat /\ v[3] \in Nat /\ v = <<img[1], v[2], v[3]>>
  <2> SUFFICES ASSUME NEW v \in all
               PROVE  v[2] \in Nat /\ v[3] \in Nat /\ v = <<img[1], v[2], v[3]>>
    OBVIOUS
  <2>1. v[2] \in DOMAIN Page /\ v[3] \in DOMAIN Page[v[2]].rows /\ v = <<img[1], v[2], v[3]>>
    BY <1>2, PrintedRows
  <2> QED BY <2>1, <1>2, TablesOf
<1>7. \A v \in all : (v[2] < t' \/ (v[2] = t' /\ v[3] < n')) <=> Passed(v) \/ v = new
  BY <1>1, <1>3, <1>6 DEF Passed
<1>8. VotersIn(rows) = {v \in all : Passed(v)} /\ Ordered(rows)
      /\ \A i \in DOMAIN rows : rows[i].source = img
  BY <1>1 DEF RowsInv
<1>9. VotersIn(rows') = {v \in all : v[2] < t' \/ (v[2] = t' /\ v[3] < n')}
      /\ Ordered(rows') /\ \A i \in DOMAIN rows' : rows'[i].source = img
  <2>1. CASE Table.rows[n].known
    <3>1. e \in Entries /\ e.voter = new /\ e.source = img
      BY <1>2, <1>3 DEF NewEntry, Entries, Files, Voters
    <3>2. ASSUME NEW i \in DOMAIN rows PROVE Precedes(rows[i], e)
      <4>1. rows[i].voter \in VotersIn(rows) /\ rows[i].source = img
        BY <1>8 DEF VotersIn
      <4>2. Passed(rows[i].voter)
        BY <4>1, <1>8
      <4> QED BY <4>1, <4>2, <3>1 DEF Passed, Precedes
    <3>3. /\ Ordered(Append(rows, e))
          /\ VotersIn(Append(rows, e)) = VotersIn(rows) \cup {new}
          /\ \A i \in DOMAIN Append(rows, e) :
               Append(rows, e)[i] = e \/ \E j \in DOMAIN rows : Append(rows, e)[i] = rows[j]
      BY <1>3, <1>8, <3>1, <3>2, AppendEntry
    <3>4. rows' = Append(rows, e) /\ new \in all
      BY <1>1, <1>5, <2>1
    <3>5. VotersIn(rows') = {v \in all : v[2] < t' \/ (v[2] = t' /\ v[3] < n')}
      <4> HIDE DEF e, new, all
      <4> QED BY <1>7, <1>8, <3>3, <3>4
    <3> QED BY <1>8, <3>1, <3>3, <3>4, <3>5
  <2>2. CASE ~Table.rows[n].known
    <3>1. rows' = rows /\ new \notin all
      BY <1>1, <1>5, <2>2
    <3> HIDE DEF e, new, all
    <3> QED BY <1>7, <1>8, <3>1
  <2> QED BY <2>1, <2>2
<1> QED BY <1>1, <1>9 DEF RowsInv, Passed

LEMMA RowsNextTable == TypeInv /\ RowsInv /\ ExtractNextTable => RowsInv'
<1> SUFFICES ASSUME TypeInv, RowsInv, ExtractNextTable PROVE RowsInv'
  OBVIOUS
<1>1. /\ pc = "extract" /\ pc' = "extract" /\ t' = t + 1 /\ n' = 1
      /\ scans' = scans /\ img' = img /\ rows' = rows /\ Busy
      /\ t <= Len(Page) /\ n > Len(Table.rows)
  BY DEF ExtractNextTable, paper, Busy
<1>2. Page \in Seq(Tables) /\ Page = scans[img[1]] /\ t \in Nat /\ n \in Nat
  BY <1>1, BusyPage DEF TypeInv, TypeOK
<1>3. ASSUME NEW v \in VotersOn(scans, img[1])
      PROVE  (v[2] < t' \/ (v[2] = t' /\ v[3] < n')) <=> Passed(v)
  <2>1. v[2] \in 1..Len(Page) /\ v[3] \in 1..Len(Page[v[2]].rows)
    BY <1>2, PrintedRows, TablesOf
  <2>2. v[2] \in Nat /\ v[3] \in Nat /\ Len(Page[v[2]].rows) \in Nat
    BY <1>2, <2>1, TablesOf
  <2>3. v[2] = t => v[3] < n
    BY <1>1, <1>2, <2>1, <2>2 DEF Table
  <2> QED BY <1>1, <1>2, <2>1, <2>2, <2>3 DEF Passed
<1> QED BY <1>1, <1>3 DEF RowsInv, Passed

LEMMA RowsDone == TypeInv /\ RowsInv /\ ExtractDone => RowsInv'
<1> SUFFICES ASSUME TypeInv, RowsInv, ExtractDone PROVE RowsInv'
  OBVIOUS
<1>1. /\ pc = "extract" /\ pc' = "detect" /\ scans' = scans /\ img' = img
      /\ rows' = rows /\ Busy /\ t > Len(Page)
  BY DEF ExtractDone, paper, Busy
<1>2. Page \in Seq(Tables) /\ Page = scans[img[1]] /\ t \in Nat
  BY <1>1, BusyPage DEF TypeInv, TypeOK
<1>3. ASSUME NEW v \in VotersOn(scans, img[1]) PROVE Passed(v)
  <2>1. v[2] \in 1..Len(Page)
    BY <1>2, PrintedRows, TablesOf
  <2> QED BY <1>1, <1>2, <2>1, TablesOf DEF Passed
<1> QED BY <1>1, <1>3 DEF RowsInv

LEMMA RowsDetect ==
  ASSUME TypeInv, RowsInv, pc = "detect", pc' = "detect",
         UNCHANGED <<scans, img>>,
         \/ UNCHANGED rows
         \/ \E k \in 1..Len(rows) : \E v, m :
              rows' = [rows EXCEPT ![k].a_emarge = v, ![k].method = m]
  PROVE  RowsInv'
<1>1. /\ DOMAIN rows' = DOMAIN rows
      /\ \A i \in DOMAIN rows : /\ rows'[i].voter = rows[i].voter
                               /\ rows'[i].source = rows[i].source
  <2>1. CASE UNCHANGED rows
    BY <2>1
  <2>2. CASE ~UNCHANGED rows
    <3>1. PICK k, v, m :
            k \in 1..Len(rows) /\ rows' = [rows EXCEPT ![k].a_emarge = v, ![k].method = m]
      BY <2>2
    <3>2. rows \in Seq(Entries)
      BY DEF TypeInv, TypeOK
    <3> QED BY <3>1, <3>2, JudgedSame
  <2> QED BY <2>1, <2>2
<1>2. VotersIn(rows') = VotersIn(rows)
  BY <1>1 DEF VotersIn
<1>3. Ordered(rows) => Ordered(rows')
  <2>1. \A i, j \in DOMAIN rows : Precedes(rows[i], rows[j]) => Precedes(rows'[i], rows'[j])
    BY <1>1 DEF Precedes
  <2> QED BY <1>1, <2>1 DEF Ordered
<1> QED BY <1>1, <1>2, <1>3 DEF RowsInv
-----------------------------------------------------------------------------
(* The rows of all images.                                                 *)

LEMMA RollMeans ==
  ASSUME NEW E, NEW S, NEW F
  PROVE  IsRollOf(E, S, F)
           <=> /\ Ordered(E)
               /\ \A i \in DOMAIN E : /\ E[i].source \in F
                                     /\ E[i].voter \in VotersOn(S, E[i].source[1])
               /\ \A f \in F : \A v \in VotersOn(S, f[1]) :
                    \E i \in DOMAIN E : E[i].voter = v /\ E[i].source = f
<1> DEFINE pairs  == {<<E[i].voter, E[i].source>> : i \in DOMAIN E}
           wanted == UNION {VotersOn(S, f[1]) \X {f} : f \in F}
<1>1. \A v, f : <<v, f>> \in wanted <=> f \in F /\ v \in VotersOn(S, f[1])
  OBVIOUS
<1>2. \A v, f : <<v, f>> \in pairs
                  <=> \E i \in DOMAIN E : E[i].voter = v /\ E[i].source = f
  OBVIOUS
<1>3. \A x \in wanted : \E v, f : x = <<v, f>>
  OBVIOUS
<1>4. \A x \in pairs : \E v, f : x = <<v, f>>
  OBVIOUS
<1>5. pairs = wanted <=> \A v, f : <<v, f>> \in pairs <=> <<v, f>> \in wanted
  <2> HIDE DEF pairs, wanted
  <2> QED BY <1>3, <1>4
<1>6. pairs = wanted
        <=> /\ \A i \in DOMAIN E : /\ E[i].source \in F
                                  /\ E[i].voter \in VotersOn(S, E[i].source[1])
            /\ \A f \in F : \A v \in VotersOn(S, f[1]) :
                 \E i \in DOMAIN E : E[i].voter = v /\ E[i].source = f
  <2> HIDE DEF pairs, wanted
  <2>1. (\A v, f : <<v, f>> \in pairs => <<v, f>> \in wanted)
          <=> \A i \in DOMAIN E : /\ E[i].source \in F
                                /\ E[i].voter \in VotersOn(S, E[i].source[1])
    <3>1. \A i \in DOMAIN E : <<E[i].voter, E[i].source>> \in pairs
      BY <1>2
    <3>2. \A i \in DOMAIN E :
            <<E[i].voter, E[i].source>> \in wanted
              <=> /\ E[i].source \in F
                  /\ E[i].voter \in VotersOn(S, E[i].source[1])
      BY <1>1
    <3>3. ASSUME \A i \in DOMAIN E : <<E[i].voter, E[i].source>> \in wanted,
                 NEW v, NEW f, <<v, f>> \in pairs
          PROVE  <<v, f>> \in wanted
      BY <1>2, <3>3
    <3> QED BY <3>1, <3>2, <3>3
  <2>2. (\A v, f : <<v, f>> \in wanted => <<v, f>> \in pairs)
          <=> \A f \in F : \A v \in VotersOn(S, f[1]) :
                \E i \in DOMAIN E : E[i].voter = v /\ E[i].source = f
    BY <1>1, <1>2
  <2> QED BY <1>5, <2>1, <2>2
<1> QED BY <1>6 DEF IsRollOf, Ordered

LEMMA AllRowsSave == TypeInv /\ AllRowsInv /\ CorrectAndSave => AllRowsInv'
<1> SUFFICES ASSUME TypeInv, AllRowsInv, CorrectAndSave PROVE AllRowsInv'
  OBVIOUS
<1>1. PICK f \in todo : /\ \A g \in todo : g = f \/ Before(f, g)
                        /\ img' = f /\ todo' = todo \ {f}
  BY DEF CorrectAndSave
<1>2. UNCHANGED <<scans, listed, all_rows>>
  BY DEF CorrectAndSave
<1> QED BY <1>1, <1>2 DEF AllRowsInv

LEMMA AllRowsFinish ==
  TypeInv /\ RowsInv /\ AllRowsInv /\ FinishImage => AllRowsInv'
<1> SUFFICES ASSUME TypeInv, RowsInv, AllRowsInv, FinishImage PROVE AllRowsInv'
  OBVIOUS
<1>1. /\ pc = "detect" /\ Busy /\ ~Busy'
      /\ all_rows' = all_rows \o rows
      /\ scans' = scans /\ listed' = listed /\ todo' = todo
  BY DEF FinishImage, Busy, paper, listing
<1>2. rows \in Seq(Entries) /\ all_rows \in Seq(Entries) /\ img \in listed
  BY <1>1 DEF TypeInv, TypeOK
<1>3. /\ Ordered(rows) /\ VotersIn(rows) = VotersOn(scans, img[1])
      /\ \A i \in DOMAIN rows : rows[i].source = img
  BY <1>1 DEF RowsInv
<1>4. /\ IsRollOf(all_rows, scans, SourcesOf(all_rows))
      /\ SourcesOf(all_rows) \subseteq listed
      /\ \A f \in SourcesOf(all_rows) : Before(f, img) /\ \A g \in todo : Before(f, g)
      /\ \A g \in todo : Before(img, g)
  BY <1>1 DEF AllRowsInv
<1>5. /\ Ordered(all_rows)
      /\ \A i \in DOMAIN all_rows :
           /\ all_rows[i].source \in SourcesOf(all_rows)
           /\ all_rows[i].voter \in VotersOn(scans, all_rows[i].source[1])
      /\ \A f \in SourcesOf(all_rows) : \A v \in VotersOn(scans, f[1]) :
           \E i \in DOMAIN all_rows : all_rows[i].voter = v /\ all_rows[i].source = f
  BY <1>4, RollMeans
<1>6. \A i \in DOMAIN all_rows, j \in DOMAIN rows : Precedes(all_rows[i], rows[j])
  BY <1>3, <1>4, <1>5 DEF Precedes
<1>7. /\ Ordered(all_rows')
      /\ \A x : (\E i \in DOMAIN all_rows' : all_rows'[i] = x)
               <=> (\E i \in DOMAIN all_rows : all_rows[i] = x)
                   \/ (\E i \in DOMAIN rows : rows[i] = x)
  <2> DEFINE all == all_rows \o rows
  <2>1. /\ Ordered(all)
        /\ \A x : (\E i \in DOMAIN all : all[i] = x)
                 <=> (\E i \in DOMAIN all_rows : all_rows[i] = x)
                     \/ (\E i \in DOMAIN rows : rows[i] = x)
    BY <1>2, <1>3, <1>5, <1>6, ConcatEntries
  <2> HIDE DEF all
  <2>2. all_rows' = all
    BY <1>1 DEF all
  <2> QED BY <2>1, <2>2
<1>8. \A f \in SourcesOf(all_rows') : f \in SourcesOf(all_rows) \/ f = img
  <2>1. SUFFICES ASSUME NEW i \in DOMAIN all_rows'
                 PROVE  \/ all_rows'[i].source \in SourcesOf(all_rows)
                        \/ all_rows'[i].source = img
    BY DEF SourcesOf
  <2> QED BY <1>3, <1>7, <2>1 DEF SourcesOf
<1>9. /\ \A i \in DOMAIN all_rows' :
           /\ all_rows'[i].source \in SourcesOf(all_rows')
           /\ all_rows'[i].voter \in VotersOn(scans, all_rows'[i].source[1])
      /\ \A f \in SourcesOf(all_rows') : \A v \in VotersOn(scans, f[1]) :
           \E i \in DOMAIN all_rows' : all_rows'[i].voter = v /\ all_rows'[i].source = f
  <2>1. ASSUME NEW i \in DOMAIN all_rows'
        PROVE  all_rows'[i].voter \in VotersOn(scans, all_rows'[i].source[1])
    <3>1. CASE \E k \in DOMAIN all_rows : all_rows[k] = all_rows'[i]
      BY <1>5, <3>1
    <3>2. CASE \E k \in DOMAIN rows : rows[k] = all_rows'[i]
      BY <1>3, <3>2 DEF VotersIn
    <3> QED BY <1>7, <3>1, <3>2
  <2>2. ASSUME NEW f \in SourcesOf(all_rows'), NEW v \in VotersOn(scans, f[1])
        PROVE  \E i \in DOMAIN all_rows' : all_rows'[i].voter = v /\ all_rows'[i].source = f
    <3>1. CASE f \in SourcesOf(all_rows)
      BY <1>5, <1>7, <3>1
    <3>2. CASE f = img
      <4>1. PICK k \in DOMAIN rows : rows[k].voter = v /\ rows[k].source = img
        BY <1>3, <3>2 DEF VotersIn
      <4>2. PICK i \in DOMAIN all_rows' : all_rows'[i] = rows[k]
        BY <1>7
      <4> QED BY <3>2, <4>1, <4>2
    <3> QED BY <1>8, <3>1, <3>2
  <2> QED BY <2>1, <2>2 DEF SourcesOf
<1>10. IsRollOf(all_rows', scans, SourcesOf(all_rows'))
  BY <1>7, <1>9, RollMeans
<1> QED BY <1>1, <1>2, <1>4, <1>8, <1>10 DEF AllRowsInv
-----------------------------------------------------------------------------
(* Every step.                                                             *)

LEMMA EntriesCutShort ==
  ASSUME TypeInv, EntriesInv, CutShort, UNCHANGED disk
  PROVE  EntriesInv'
<1>1. /\ pc' = "idle" /\ all_rows' = <<>> /\ scans' = scans /\ runs' = runs
      /\ folder' = folder /\ book' = book /\ failures' = failures + 1
  BY DEF CutShort, disk
<1>2. failures' \in Nat /\ failures' >= failures
  BY <1>1 DEF TypeInv, TypeOK
<1>3. RowsInv'
  BY <1>1, RowsNone
<1>4. AllRowsInv'
  BY <1>1, NoEntries DEF Busy
<1>5. RunsInv'
  BY <1>1 DEF EntriesInv, RunsInv
<1>6. BookInv'
  BY <1>1, <1>2, BookUnchanged DEF EntriesInv
<1> QED BY <1>3, <1>4, <1>5, <1>6 DEF EntriesInv

(* The steps between the listing and the workbook change nothing on disk.  *)
LEMMA EntriesInLoop ==
  ASSUME TypeInv, EntriesInv, RowsInv',
         UNCHANGED <<scans, disk, listing, all_rows, tallies>>,
         Busy, Busy' => UNCHANGED img
  PROVE  EntriesInv'
<1>1. failures' \in Nat /\ failures' >= failures
  BY DEF TypeInv, TypeOK, tallies
<1>2. RunsInv'
  BY RunsUnchanged DEF EntriesInv, disk, listing, tallies, Busy
<1>3. AllRowsInv'
  BY AllRowsUnchanged DEF EntriesInv, listing
<1>4. BookInv'
  BY <1>1, BookUnchanged DEF EntriesInv, disk
<1> QED BY <1>2, <1>3, <1>4 DEF EntriesInv

LEMMA EntriesStart == TypeInv /\ EntriesInv /\ StartRun => EntriesInv'
<1> SUFFICES ASSUME TypeInv, EntriesInv, StartRun PROVE EntriesInv'
  OBVIOUS
<1>1. /\ pc' = "next" /\ all_rows' = <<>> /\ scans' = scans /\ runs' = runs + 1
      /\ folder' = folder /\ book' = book /\ failures' = failures
      /\ listed' = folder /\ runs < MaxRuns
  BY DEF StartRun, disk, paper
<1>2. RowsInv'
  BY <1>1, RowsNone
<1>3. AllRowsInv'
  BY <1>1, NoEntries DEF Busy
<1>4. RunsInv'
  <2>1. \A f \in folder : f[2] \in Nat
    BY CopyOf DEF TypeInv, TypeOK
  <2> QED BY <1>1, <2>1, FaultsAssumption DEF EntriesInv, RunsInv
<1>5. BookInv'
  BY <1>1, BookUnchanged DEF EntriesInv, TypeInv, TypeOK
<1> QED BY <1>2, <1>3, <1>4, <1>5 DEF EntriesInv

LEMMA EntriesSave == TypeInv /\ EntriesInv /\ CorrectAndSave => EntriesInv'
<1> SUFFICES ASSUME TypeInv, EntriesInv, CorrectAndSave PROVE EntriesInv'
  OBVIOUS
<1>1. PICK f \in todo : folder' \in {folder, folder \cup {Temp(f)}}
  BY DEF CorrectAndSave
<1>2. /\ pc = "next" /\ pc' = "convert" /\ UNCHANGED <<scans, book, listed>>
      /\ runs' = runs /\ failures' = failures
  BY DEF CorrectAndSave, tallies
<1>3. RowsInv'
  BY <1>2, RowsNone
<1>4. AllRowsInv'
  BY AllRowsSave DEF EntriesInv
<1>5. RunsInv'
  <2>1. f \in listed /\ f \in Files
    BY DEF TypeInv, TypeOK
  <2>2. Temp(f)[2] <= runs
    BY <1>2, <2>1, TempIsFile, CopyOf DEF EntriesInv, RunsInv
  <2> QED BY <1>1, <1>2, <2>2 DEF EntriesInv, RunsInv
<1>6. BookInv'
  BY <1>2, BookUnchanged DEF EntriesInv, TypeInv, TypeOK
<1> QED BY <1>3, <1>4, <1>5, <1>6 DEF EntriesInv

LEMMA EntriesBook ==
  TypeInv /\ DiskInv /\ EntriesInv /\ (OpenBook \/ SaveBook) => EntriesInv'
<1> SUFFICES ASSUME TypeInv, DiskInv, EntriesInv, OpenBook \/ SaveBook
             PROVE  EntriesInv'
  OBVIOUS
<1>1. /\ pc \in {"next", "save"} /\ pc' \in {"save", "remove"}
      /\ UNCHANGED <<scans, folder, listed, todo, img, all_rows, runs, failures>>
  BY DEF OpenBook, SaveBook, paper, listing, image, tallies
<1>2. RowsInv'
  BY <1>1, RowsNone
<1>3. AllRowsInv'
  BY <1>1, AllRowsUnchanged DEF EntriesInv, Busy
<1>4. RunsInv'
  BY <1>1, RunsUnchanged DEF EntriesInv
<1>5. BookInv'
  <2>1. CASE OpenBook
    BY <2>1 DEF OpenBook, BookInv, BookIsWhole, Complete
  <2>2. CASE SaveBook
    <3>1. book'.rows = all_rows /\ Sources(book') = SourcesOf(all_rows)
      BY <2>2 DEF SaveBook, Sources, SourcesOf
    <3>2. IsRollOf(book'.rows, scans, Sources(book'))
      BY <3>1 DEF EntriesInv, AllRowsInv
    <3>3. ASSUME NEW f \in Sources(book')
          PROVE  f[2] <= MaxRuns /\ (failures = 0 => f[2] = 0)
      <4>1. f \in listed /\ f \in Files /\ pc # "idle"
        BY <1>1, <3>1 DEF EntriesInv, AllRowsInv, TypeInv, TypeOK
      <4>2. f[2] < runs /\ runs <= MaxRuns /\ f[2] \in Nat /\ runs \in Nat
        BY <4>1, CopyOf, FaultsAssumption DEF EntriesInv, RunsInv
      <4>3. f[2] <= failures
        BY <4>1 DEF DiskInv, GenerationInv
      <4> QED BY <4>2, <4>3, FaultsAssumption
    <3> QED BY <1>1, <3>2, <3>3 DEF BookInv, BookIsWhole
  <2> QED BY <2>1, <2>2
<1> QED BY <1>2, <1>3, <1>4, <1>5 DEF EntriesInv

LEMMA EntriesRemove ==
  TypeInv /\ EntriesInv /\ (RemoveTmp \/ RemoveRaises \/ EndRun) => EntriesInv'
<1> SUFFICES ASSUME TypeInv, EntriesInv, RemoveTmp \/ RemoveRaises \/ EndRun
             PROVE  EntriesInv'
  OBVIOUS
<1>1. /\ pc = "remove" /\ pc' \in {"remove", "idle"}
      /\ UNCHANGED <<scans, book, runs>>
      /\ folder' \subseteq folder /\ failures' \in Nat /\ failures' >= failures
      /\ \/ pc' = "remove" /\ UNCHANGED <<listed, todo, all_rows>>
         \/ pc' = "idle" /\ all_rows' = <<>>
  BY DEF RemoveTmp, RemoveRaises, EndRun, paper, disk, listing, tallies, TypeInv, TypeOK
<1>2. RowsInv'
  BY <1>1, RowsNone
<1>3. AllRowsInv'
  <2>1. CASE pc' = "remove"
    BY <1>1, <2>1, AllRowsUnchanged DEF EntriesInv, Busy
  <2>2. CASE pc' = "idle"
    BY <1>1, <2>2, NoEntries DEF Busy
  <2> QED BY <1>1, <2>1, <2>2
<1>4. RunsInv'
  BY <1>1 DEF EntriesInv, RunsInv
<1>5. BookInv'
  BY <1>1, BookUnchanged DEF EntriesInv
<1> QED BY <1>2, <1>3, <1>4, <1>5 DEF EntriesInv

LEMMA EntriesStep == TypeInv /\ DiskInv /\ EntriesInv /\ [Next]_vars => EntriesInv'
<1> SUFFICES ASSUME TypeInv, DiskInv, EntriesInv, [Next]_vars PROVE EntriesInv'
  OBVIOUS
<1>1. CASE StartRun
  BY <1>1, EntriesStart
<1>2. CASE CorrectAndSave
  BY <1>2, EntriesSave
<1>3. CASE CorrectRaises \/ ColumnsRaise \/ OpenRaises \/ Kill
  BY <1>3, EntriesCutShort DEF CorrectRaises, ColumnsRaise, OpenRaises, Kill
<1>4. CASE Convert \/ ConvertRaises
  <2>1. RowsInv'
    BY <1>4, RowsConvert, RowsNone DEF ConvertRaises
  <2> QED BY <1>4, <2>1, EntriesInLoop
          DEF Convert, ConvertRaises, Busy, paper
<1>5. CASE ExtractRow \/ ExtractNextTable \/ ExtractDone
  <2>1. RowsInv'
    BY <1>5, RowsExtract, RowsNextTable, RowsDone DEF EntriesInv
  <2> QED BY <1>5, <2>1, EntriesInLoop
          DEF ExtractRow, ExtractNextTable, ExtractDone, Busy, paper
<1>6. CASE SkipTable \/ SkipRow \/ DetectNextTable
  <2>1. RowsInv'
    BY <1>6, RowsDetect
       DEF EntriesInv, SkipTable, SkipRow, DetectNextTable, InGrid, paper
  <2> QED BY <1>6, <2>1, EntriesInLoop
          DEF SkipTable, SkipRow, DetectNextTable, InGrid, Busy, paper
<1>7. CASE DetectRow
  <2>1. row_offset + n \in 1..Len(rows)
    BY <1>7, LenProperties DEF DetectRow, TypeInv, TypeOK
  <2>2. RowsInv'
    BY <1>7, <2>1, RowsDetect DEF EntriesInv, DetectRow, InGrid, paper
  <2> QED BY <1>7, <2>2, EntriesInLoop DEF DetectRow, InGrid, Busy, paper
<1>8. CASE FinishImage
  <2>1. RowsInv'
    BY <1>8, RowsNone DEF FinishImage
  <2>2. AllRowsInv'
    BY <1>8, AllRowsFinish DEF EntriesInv
  <2>3. RunsInv'
    BY <1>8, RunsUnchanged DEF EntriesInv, FinishImage, disk, listing, tallies
  <2>4. BookInv'
    BY <1>8, BookUnchanged DEF EntriesInv, FinishImage, disk, paper, tallies, TypeInv, TypeOK
  <2> QED BY <2>1, <2>2, <2>3, <2>4 DEF EntriesInv
<1>9. CASE OpenBook \/ SaveBook
  BY <1>9, EntriesBook
<1>10. CASE RemoveTmp \/ RemoveRaises \/ EndRun
  BY <1>10, EntriesRemove
<1>11. CASE UNCHANGED vars
  BY <1>11 DEF vars, EntriesInv, RowsInv, AllRowsInv, RunsInv, BookInv, BookIsWhole,
               Complete, Sources, Passed, Busy
<1> QED BY <1>1, <1>2, <1>3, <1>4, <1>5, <1>6, <1>7, <1>8, <1>9, <1>10, <1>11
        DEF Next, Step

LEMMA EntriesCorrect == Spec => [](TypeInv /\ DiskInv /\ EntriesInv)
BY DiskCorrect, EntriesInit, EntriesStep, PTL DEF Spec

(* Image by image a workbook is whole, whatever has failed before it was   *)
(* written: no voter of an exported image is missing, doubled or out of    *)
(* place (all_rows.extend).                                                *)
THEOREM BooksAreWhole == Spec => []BookIsWhole
<1>1. EntriesInv => BookIsWhole
  BY DEF EntriesInv, BookInv
<1> QED BY <1>1, EntriesCorrect, PTL

(* Until a run is cut short or leaves a copy, no voter is counted twice,   *)
(* over any number of runs.                                                *)
THEOREM NobodyCountedTwice == Spec => []CountedOnce
<1>1. TypeInv /\ EntriesInv => CountedOnce
  <2> SUFFICES ASSUME TypeInv, EntriesInv, Complete(book), failures = 0,
                      NEW i \in DOMAIN book.rows, NEW j \in DOMAIN book.rows,
                      book.rows[i].voter = book.rows[j].voter, i # j
               PROVE  FALSE
    BY DEF CountedOnce
  <2>1. book.rows \in Seq(Entries)
    BY DEF TypeInv, TypeOK, Complete, Books
  <2>2. i \in Nat /\ j \in Nat /\ book.rows[i] \in Entries /\ book.rows[j] \in Entries
    BY <2>1, ElementOfSeq, LenProperties
  <2>3. /\ Ordered(book.rows)
        /\ book.rows[i].voter \in VotersOn(scans, book.rows[i].source[1])
        /\ book.rows[j].voter \in VotersOn(scans, book.rows[j].source[1])
    BY RollMeans DEF EntriesInv, BookInv, BookIsWhole
  <2>4. book.rows[i].source[2] = 0 /\ book.rows[j].source[2] = 0
    BY DEF EntriesInv, BookInv, Sources
  <2>5. book.rows[i].source[1] = book.rows[j].source[1]
    BY <2>3, PrintedRows
  <2>6. ASSUME NEW d \in Entries, NEW e \in Entries, d.voter = e.voter,
               d.source[1] = e.source[1], d.source[2] = e.source[2]
        PROVE  ~Precedes(d, e)
    <3>1. /\ d.source[1] \in Nat /\ d.source[2] \in Nat
          /\ d.voter[2] \in Nat /\ d.voter[3] \in Nat
      BY PhotosAssumption DEF Entries, Files, Voters
    <3> QED BY <2>6, <3>1 DEF Precedes, Before
  <2> QED BY <2>2, <2>3, <2>4, <2>5, <2>6 DEF Ordered
<1> QED BY <1>1, EntriesCorrect, PTL
=============================================================================
