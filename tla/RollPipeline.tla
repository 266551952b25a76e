----------------------------- MODULE RollPipeline -----------------------------
(***************************************************************************)
(* process_folder of emargement/pipelinev2.py: one folder of photographed  *)
(* electoral rolls, the runs of the program over it, one after the other,  *)
(* and the workbook they write.                                            *)
(*                                                                         *)
(* A run lists the images of the folder, writes a corrected copy of each   *)
(* beside the original, has Docling read the copy, judges the signature of *)
(* each grid row, writes the workbook when it has been through every       *)
(* image, and only then removes the copies.  A run ends before that when   *)
(* it is killed, or on an exception outside its two try statements.  The   *)
(* copies left behind have a supported extension: the next run lists them. *)
(*                                                                         *)
(* A file is <<p, k>>: photo p with k times "_corrected.jpg" appended.     *)
(***************************************************************************)
EXTENDS ElectoralRoll

CONSTANTS
  Faults,       \* what may go wrong around the program
  MaxRuns       \* bound: how many runs are started

(* "kill":    the process is killed                                        *)
(* "image":   OpenCV raises on an image (correct_orientation; in the first *)
(*            version, also when a crop is encoded)                        *)
(* "imwrite": the copy is not written, and cv2.imwrite returns False       *)
(* "convert": Docling raises on an image                                   *)
(* "open":    the workbook cannot be opened for writing                    *)
(* "remove":  a copy cannot be removed                                     *)
FaultKinds == {"kill", "image", "imwrite", "convert", "open", "remove"}

ASSUME FaultsAssumption == Faults \subseteq FaultKinds /\ MaxRuns \in Nat

VARIABLES
  scans,        \* what each photo shows; never changes
  folder,       \* the image files in the folder
  book,         \* the workbook
  pc,           \* what the program does next; "idle" when it is not running
  listed,       \* images: the files this run has listed
  todo,         \* those it has still to process
  img,          \* img_path
  ollama_ok,    \* what check_ollama said when the run started
  rows,         \* the entries extracted from img
  t, n,         \* the table and the row the loops over img have reached
  row_offset,
  all_rows,
  tmp_files,
  runs,         \* runs started
  failures,     \* runs that were cut short, or failed to remove a copy
  missed        \* history: has a copy listed for removal ever been left

paper   == <<scans>>
disk    == <<folder, book>>
listing == <<listed, todo, ollama_ok>>
image   == <<img, rows, t, n, row_offset>>
tallies == <<runs, failures, missed>>
vars    == <<scans, folder, book, pc, listed, todo, img, ollama_ok, rows, t, n,
             row_offset, all_rows, tmp_files, runs, failures, missed>>

-----------------------------------------------------------------------------
(* Helpers                                                                 *)

(* save_temp's name of the corrected copy.                                 *)
Temp(f) == <<f[1], f[2] + 1>>

Page  == scans[img[1]]
Table == Page[t]

(* _build_row: the signature column's text is the entry's first a_emarge.  *)
NewEntry(voter) ==
  [voter |-> voter, a_emarge |-> Raw, method |-> Raw, source |-> img]

-----------------------------------------------------------------------------
Init ==
  /\ scans \in [Photos -> Layouts]
  /\ folder = Originals
  /\ book = NoBook
  /\ pc = "idle"
  /\ listed = {} /\ todo = {} /\ ollama_ok = FALSE
  /\ img = NoFile /\ rows = <<>> /\ t = 1 /\ n = 1 /\ row_offset = 0
  /\ all_rows = <<>> /\ tmp_files = <<>>
  /\ runs = 0 /\ failures = 0 /\ missed = FALSE

(* The program is started: the folder is listed once, the vision model is  *)
(* looked for once.                                                        *)
StartRun ==
  /\ pc = "idle" /\ runs < MaxRuns
  /\ folder # {}
  /\ pc' = "next"
  /\ listed' = folder /\ todo' = folder
  /\ \E skip_vision, available \in BOOLEAN : ollama_ok' = (~skip_vision /\ available)
  /\ all_rows' = <<>> /\ tmp_files' = <<>>
  /\ runs' = runs + 1
  /\ UNCHANGED <<paper, disk, image, failures, missed>>

(* The end of a run that does not reach its last line: nothing in memory   *)
(* survives, nothing on disk is undone.                                    *)
CutShort ==
  /\ failures' = failures + 1
  /\ pc' = "idle"
  /\ listed' = {} /\ todo' = {} /\ ollama_ok' = FALSE
  /\ img' = NoFile /\ rows' = <<>> /\ t' = 1 /\ n' = 1 /\ row_offset' = 0
  /\ all_rows' = <<>> /\ tmp_files' = <<>>
  /\ UNCHANGED <<scans, runs>>

(* Mutants: the copy is not listed for removal; a copy that replaces an    *)
(* older one is not.                                                       *)
CorrectAndSaveForgets ==
  /\ pc = "next"
  /\ \E f \in todo :
       /\ \A g \in todo : g = f \/ Before(f, g)
       /\ img' = f /\ todo' = todo \ {f}
       /\ folder' = folder \cup {Temp(f)}
  /\ pc' = "convert"
  /\ UNCHANGED <<scans, book, listed, ollama_ok, rows, t, n, row_offset,
                 all_rows, tmp_files, tallies>>

CorrectAndSaveNewOnly ==
  /\ pc = "next"
  /\ \E f \in todo :
       /\ \A g \in todo : g = f \/ Before(f, g)
       /\ img' = f /\ todo' = todo \ {f}
       /\ folder' = folder \cup {Temp(f)}
       /\ tmp_files' = IF Temp(f) \in folder THEN tmp_files
                                             ELSE Append(tmp_files, Temp(f))
  /\ pc' = "convert"
  /\ UNCHANGED <<scans, book, listed, ollama_ok, rows, t, n, row_offset,
                 all_rows, tallies>>

(* correct_orientation and save_temp on the next image of the list.        *)
(* cv2.imwrite reports a failure by a value nobody reads.                  *)
CorrectAndSave ==
  /\ pc = "next"
  /\ \E f \in todo :
       /\ \A g \in todo : g = f \/ Before(f, g)
       /\ img' = f
       /\ todo' = todo \ {f}
       /\ folder' \in {folder \cup {Temp(f)}} \cup
                     (IF "imwrite" \in Faults THEN {folder} ELSE {})
       /\ tmp_files' = Append(tmp_files, Temp(f))
  /\ pc' = "convert"
  /\ UNCHANGED <<scans, book, listed, ollama_ok, rows, t, n, row_offset,
                 all_rows, tallies>>

(* correct_orientation is outside the try statement: an image it cannot    *)
(* open ends the run.                                                      *)
CorrectRaises ==
  /\ "image" \in Faults
  /\ pc = "next" /\ todo # {}
  /\ CutShort
  /\ UNCHANGED <<disk, missed>>

(* extract: Docling reads the copy.                                        *)
Convert ==
  /\ pc = "convert"
  /\ Temp(img) \in folder
  /\ pc' = "extract"
  /\ rows' = <<>> /\ t' = 1 /\ n' = 1
  /\ UNCHANGED <<paper, disk, listing, img, row_offset, all_rows, tmp_files, tallies>>

(* extract raises (there is no copy, or Docling fails): the image is       *)
(* skipped and the run goes on.                                            *)
ConvertRaises ==
  /\ pc = "convert"
  /\ Temp(img) \notin folder \/ "convert" \in Faults
  /\ pc' = "next"
  /\ img' = NoFile
  /\ UNCHANGED <<paper, disk, listing, rows, t, n, row_offset, all_rows,
                 tmp_files, tallies>>

(* Mutant: blank rows are kept.                                            *)
ExtractRowBlank ==
  /\ pc = "extract"
  /\ t <= Len(Page) /\ n <= Len(Table.rows)
  /\ rows' = Append(rows, NewEntry(<<img[1], t, n>>))
  /\ n' = n + 1
  /\ UNCHANGED <<paper, disk, pc, listing, img, t, row_offset, all_rows,
                 tmp_files, tallies>>

(* extract, one data row: an entry is made of it unless no field is filled *)
(* in.                                                                     *)
ExtractRow ==
  /\ pc = "extract"
  /\ t <= Len(Page) /\ n <= Len(Table.rows)
  /\ rows' = IF Table.rows[n].known THEN Append(rows, NewEntry(<<img[1], t, n>>))
                                    ELSE rows
  /\ n' = n + 1
  /\ UNCHANGED <<paper, disk, pc, listing, img, t, row_offset, all_rows,
                 tmp_files, tallies>>

ExtractNextTable ==
  /\ pc = "extract"
  /\ t <= Len(Page) /\ n > Len(Table.rows)
  /\ t' = t + 1 /\ n' = 1
  /\ UNCHANGED <<paper, disk, pc, listing, img, rows, row_offset, all_rows,
                 tmp_files, tallies>>

(* Mutant: the rows of the grid are counted from 0.                        *)
ExtractDoneFromZero ==
  /\ pc = "extract"
  /\ t > Len(Page)
  /\ pc' = "detect"
  /\ t' = 1 /\ n' = 0 /\ row_offset' = 0
  /\ UNCHANGED <<paper, disk, listing, img, rows, all_rows, tmp_files, tallies>>

ExtractDone ==
  /\ pc = "extract"
  /\ t > Len(Page)
  /\ pc' = "detect"
  /\ t' = 1 /\ n' = 1 /\ row_offset' = 0
  /\ UNCHANGED <<paper, disk, listing, img, rows, all_rows, tmp_files, tallies>>

(* The detection skips the tables without a data row.                      *)
SkipTable ==
  /\ pc = "detect"
  /\ t <= Len(Page) /\ IsEmpty(Table)
  /\ t' = t + 1
  /\ UNCHANGED <<paper, disk, pc, listing, img, rows, n, row_offset, all_rows,
                 tmp_files, tallies>>

(* A table without a header row has numbers for column names: lower() is   *)
(* not defined on them, and emargement_col_idx raises.                     *)
ColumnsRaise ==
  /\ pc = "detect"
  /\ t <= Len(Page) /\ ~IsEmpty(Table) /\ Table.headers = <<>>
  /\ CutShort
  /\ UNCHANGED <<disk, missed>>

InGrid ==
  /\ pc = "detect"
  /\ t <= Len(Page) /\ ~IsEmpty(Table) /\ Table.headers # <<>>

(* Mutant: the vision model is asked even when it was not there, or not    *)
(* wanted, at the start.                                                   *)
DetectRowAlwaysVision ==
  /\ InGrid /\ n <= Len(DataGrid(Table))
  /\ row_offset + n <= Len(rows)
  /\ \E reply \in Replies :
       LET result == DetectSignature(LocatedCrop(Table, DataGrid(Table)[n]), TRUE, reply)
       IN  rows' = [rows EXCEPT ![row_offset + n].a_emarge = result.verdict,
                                ![row_offset + n].method   = result.method]
  /\ n' = n + 1
  /\ UNCHANGED <<paper, disk, pc, listing, img, t, row_offset, all_rows,
                 tmp_files, tallies>>

(* One grid row: its verdict is given to the entry of the same number.     *)
DetectRow ==
  /\ InGrid /\ n <= Len(DataGrid(Table))
  /\ row_offset + n <= Len(rows)
  /\ \E reply \in Replies :
       LET result == DetectSignature(LocatedCrop(Table, DataGrid(Table)[n]),
                                     ollama_ok, reply)
       IN  rows' = [rows EXCEPT ![row_offset + n].a_emarge = result.verdict,
                                ![row_offset + n].method   = result.method]
  /\ n' = n + 1
  /\ UNCHANGED <<paper, disk, pc, listing, img, t, row_offset, all_rows,
                 tmp_files, tallies>>

(* A grid row without an entry of its number is not looked at.             *)
SkipRow ==
  /\ InGrid /\ n <= Len(DataGrid(Table))
  /\ row_offset + n > Len(rows)
  /\ n' = n + 1
  /\ UNCHANGED <<paper, disk, pc, listing, img, rows, t, row_offset, all_rows,
                 tmp_files, tallies>>

(* Mutant: the offset grows by the entries of the image, not by the rows   *)
(* of the table.                                                           *)
DetectNextTableByEntries ==
  /\ InGrid /\ n > Len(DataGrid(Table))
  /\ row_offset' = row_offset + Len(rows)
  /\ t' = t + 1 /\ n' = 1
  /\ UNCHANGED <<paper, disk, pc, listing, img, rows, all_rows, tmp_files, tallies>>

DetectNextTable ==
  /\ InGrid /\ n > Len(DataGrid(Table))
  /\ row_offset' = row_offset + Len(DataGrid(Table))
  /\ t' = t + 1 /\ n' = 1
  /\ UNCHANGED <<paper, disk, pc, listing, img, rows, all_rows, tmp_files, tallies>>

FinishImage ==
  /\ pc = "detect"
  /\ t > Len(Page)
  /\ all_rows' = all_rows \o rows
  /\ pc' = "next"
  /\ img' = NoFile /\ rows' = <<>> /\ t' = 1 /\ n' = 1 /\ row_offset' = 0
  /\ UNCHANGED <<paper, disk, listing, tmp_files, tallies>>

-----------------------------------------------------------------------------
(* export_excel: opening the file for writing truncates it.                *)

OpenBook ==
  /\ pc = "next" /\ todo = {}
  /\ book' = TornBook
  /\ pc' = "save"
  /\ UNCHANGED <<paper, folder, listing, image, all_rows, tmp_files, tallies>>

(* The workbook cannot be opened, say because it is open elsewhere.        *)
OpenRaises ==
  /\ "open" \in Faults
  /\ pc = "next" /\ todo = {}
  /\ CutShort
  /\ UNCHANGED <<disk, missed>>

SaveBook ==
  /\ pc = "save"
  /\ book' = [rows |-> all_rows, n_img |-> Cardinality(listed), ollama_ok |-> ollama_ok]
  /\ pc' = "remove"
  /\ UNCHANGED <<paper, folder, listing, image, all_rows, tmp_files, tallies>>

(* Mutant: the image is removed, not its copy.                             *)
RemoveTmpImage ==
  /\ pc = "remove" /\ tmp_files # <<>>
  /\ folder' = folder \ {<<Head(tmp_files)[1], Head(tmp_files)[2] - 1>>}
  /\ tmp_files' = Tail(tmp_files)
  /\ UNCHANGED <<paper, book, pc, listing, image, all_rows, tallies>>

(* Mutant: the loop ends after its first copy.                             *)
RemoveTmpFirstOnly ==
  /\ pc = "remove" /\ tmp_files # <<>>
  /\ folder' = folder \ {Head(tmp_files)}
  /\ tmp_files' = <<>>
  /\ UNCHANGED <<paper, book, pc, listing, image, all_rows, tallies>>

RemoveTmp ==
  /\ pc = "remove" /\ tmp_files # <<>>
  /\ folder' = folder \ {Head(tmp_files)}
  /\ tmp_files' = Tail(tmp_files)
  /\ UNCHANGED <<paper, book, pc, listing, image, all_rows, tallies>>

(* os.remove raises and the exception is dropped: the run still succeeds.  *)
RemoveRaises ==
  /\ "remove" \in Faults
  /\ pc = "remove" /\ tmp_files # <<>>
  /\ Head(tmp_files) \in folder
  /\ failures' = failures + 1
  /\ missed' = TRUE
  /\ tmp_files' = Tail(tmp_files)
  /\ UNCHANGED <<paper, disk, pc, listing, image, all_rows, runs>>

EndRun ==
  /\ pc = "remove" /\ tmp_files = <<>>
  /\ pc' = "idle"
  /\ listed' = {} /\ todo' = {} /\ ollama_ok' = FALSE /\ all_rows' = <<>>
  /\ UNCHANGED <<paper, disk, image, tmp_files, tallies>>

(* The process is killed (Ctrl-C, a reboot, an exception of a library      *)
(* anywhere), at any step of a run.                                        *)
Kill ==
  /\ "kill" \in Faults
  /\ pc # "idle"
  /\ CutShort
  /\ missed' = (missed \/ (pc = "remove" /\ Range(tmp_files) \cap folder # {}))
  /\ UNCHANGED disk

-----------------------------------------------------------------------------
Step == \/ CorrectAndSave \/ CorrectRaises
        \/ Convert \/ ConvertRaises
        \/ ExtractRow \/ ExtractNextTable \/ ExtractDone
        \/ SkipTable \/ ColumnsRaise \/ DetectRow \/ SkipRow \/ DetectNextTable
        \/ FinishImage
        \/ OpenBook \/ OpenRaises \/ SaveBook
        \/ RemoveTmp \/ RemoveRaises \/ EndRun

Next == StartRun \/ Step \/ Kill

Spec == Init /\ [][Next]_vars

-----------------------------------------------------------------------------
TypeOK ==
  /\ scans \in [Photos -> Layouts]
  /\ folder \subseteq Files /\ IsFiniteSet(folder)
  /\ book \in Books \cup {NoBook, TornBook}
  /\ pc \in {"idle", "next", "convert", "extract", "detect", "save", "remove"}
  /\ listed \subseteq Files /\ IsFiniteSet(listed) /\ todo \subseteq listed
  /\ img \in Files \cup {NoFile}
  /\ ollama_ok \in BOOLEAN
  /\ rows \in Seq(Entries) /\ all_rows \in Seq(Entries)
  /\ t \in Nat \ {0} /\ n \in Nat \ {0} /\ row_offset \in Nat
  /\ tmp_files \in Seq(Files)
  /\ runs \in Nat /\ failures \in Nat /\ missed \in BOOLEAN

(* No run removes or loses an original photo: what it removes are the      *)
(* copies it has named itself, whichever files it has listed (os.remove in *)
(* process_folder).                                                        *)
OriginalsKept == Originals \subseteq folder

(* Copies of copies: every failed run, or failed removal, adds at most one *)
(* generation of "_corrected.jpg" to the folder, the running one at most   *)
(* one more (save_temp, tmp_files).                                        *)
GenerationBound ==
  \A f \in folder : f[2] <= failures + (IF pc = "idle" THEN 0 ELSE 1)

(* Whatever earlier runs have left behind, a run that comes to its end     *)
(* leaves the originals and nothing else, unless some clean-up loop has    *)
(* left a copy: then that copy stays, and is a photo for every later run.  *)
SelfHealing ==
  pc = "remove" /\ tmp_files = <<>> /\ ~missed => folder = Originals

(* No OCR text is exported as a verdict: the detection reaches every entry *)
(* that the extraction has made, although the one counts grid rows and the *)
(* other the rows it kept (row_offset, global_idx).                        *)
JudgedByDetector ==
  Complete(book) =>
    \A i \in DOMAIN book.rows : /\ book.rows[i].a_emarge \in Verdicts
                                /\ book.rows[i].method \in Methods

(* Image by image, a workbook holds all the voters of the image, each once *)
(* and in order, or none (all_rows.extend).                                *)
BookIsWhole ==
  Complete(book) => IsRollOf(book.rows, scans, Sources(book))

(* As long as no run has been cut short or has left a copy behind, no      *)
(* voter is in a workbook twice, although every run puts images beside     *)
(* those that the next run lists, and the next image may fail to convert.  *)
CountedOnce ==
  Complete(book) /\ failures = 0 =>
    \A i, j \in DOMAIN book.rows :
      book.rows[i].voter = book.rows[j].voter => i = j

(* pipelinev2.py:661 calls the number of rows the total of the voters: a   *)
(* workbook holds each voter of the folder once.                           *)
ExactRoll ==
  Complete(book) => IsRollOf(book.rows, scans, Originals)

(* pipeline.py:532 speaks of the right voter: the verdict of a voter is    *)
(* one that the detector can give for the voter's own signature.           *)
OwnVerdict ==
  Complete(book) =>
    \A i \in DOMAIN book.rows :
      \E result \in OwnResults(scans, book.rows[i].voter, book.ollama_ok) :
        /\ book.rows[i].a_emarge = result.verdict
        /\ book.rows[i].method = result.method

(* The workbook keeps what RollExport promises.                            *)
Promise == INSTANCE RollExport WITH Generations <- MaxRuns
PromiseKept == Promise!Spec
=============================================================================
