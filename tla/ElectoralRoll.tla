----------------------------- MODULE ElectoralRoll -----------------------------
(***************************************************************************)
(* The data of emargement/pipelinev2.py: the photographed rolls, what      *)
(* Docling finds on them, and the entries and workbooks made of them.      *)
(***************************************************************************)
EXTENDS SignatureDetection, FiniteSets, SequencesExt

CONSTANTS
  Photos,       \* the original photos, numbered in the order of their names
  Layouts,      \* what a photo may show: sequences of tables
  NoBook,       \* no workbook has been written
  TornBook,     \* the workbook is truncated: its writing has begun
  NoFile,       \* no image is being processed
  Raw           \* the OCR text of the signature cell, before any verdict

ASSUME PhotosAssumption == Photos \subseteq Nat /\ IsFiniteSet(Photos)

(* A grid row: is any of its fields filled in, what is cut out for its     *)
(* signature cell, what for the fallback (see CropGeometry).  A table: its *)
(* header rows, its data rows, and whether a signature column was found.   *)
GridRows == [known : BOOLEAN, cell : Crops, line : Crops]
Tables   == [headers : Seq(GridRows), rows : Seq(GridRows), emarg : BOOLEAN]

ASSUME LayoutsAssumption ==
  Layouts \subseteq Seq(Tables)

(* A file is <<p, k>>: photo p with k times "_corrected.jpg" appended.     *)
Files     == Photos \X Nat
Originals == Photos \X {0}

(* sorted(fp.iterdir()): a name comes before the names it is a prefix of.  *)
Before(f, g) == f[1] < g[1] \/ (f[1] = g[1] /\ f[2] < g[2])

(* A voter is the printed row <<photo, table, row>>.                       *)
Voters == Photos \X (Nat \ {0}) \X (Nat \ {0})

Entries == [voter    : Voters,
            a_emarge : Verdicts \cup {Raw},
            method   : Methods \cup {Raw},
            source   : Files]

Books == [rows : Seq(Entries), n_img : Nat, ollama_ok : BOOLEAN]

ASSUME NoneAssumption == /\ NoFile \notin Files
                         /\ NoBook \notin Books /\ TornBook \notin Books
                         /\ NoBook # TornBook
                         /\ Raw \notin Verdicts \cup Methods

(* df.empty: there is no row below the header.                             *)
IsEmpty(table) == table.rows = <<>>

(* grid[1:]: the code takes the first grid row, and no other, for header.  *)
DataGrid(table) == Tail(table.headers \o table.rows)

(* The rolls that the pairing by numbers is made for: one header row in    *)
(* each table that has data, and no blank row.                             *)
PlainLayouts ==
  \A page \in Layouts : \A t \in DOMAIN page :
    /\ ~IsEmpty(page[t]) => Len(page[t].headers) = 1
    /\ \A n \in DOMAIN page[t].rows : page[t].rows[n].known

(* Tentative 1, the signature cell; tentative 2, the fallback.             *)
LocatedCrop(table, row) ==
  IF table.emarg /\ row.cell # NoCrop THEN row.cell ELSE row.line

-----------------------------------------------------------------------------
(* What the photos say, whatever the program makes of them.                *)

(* The voters printed on a photo: the rows that hold a field.              *)
VotersOn(scans, p) ==
  UNION {{<<p, t, n>> : n \in {n \in DOMAIN scans[p][t].rows : scans[p][t].rows[n].known}} :
           t \in DOMAIN scans[p]}

(* The results the detector can give for the voter's own signature.        *)
OwnResults(scans, voter, ollama_ok) ==
  LET table == scans[voter[1]][voter[2]]
      crop  == LocatedCrop(table, table.rows[voter[3]])
  IN  {DetectSignature(crop, ollama_ok, reply) : reply \in Replies}

(* The order of the printed rows, file by file.                            *)
Precedes(d, e) ==
  \/ Before(d.source, e.source)
  \/ /\ d.source = e.source
     /\ \/ d.voter[2] < e.voter[2]
        \/ d.voter[2] = e.voter[2] /\ d.voter[3] < e.voter[3]

(* The entries are those of all the voters of the files, in order: so each *)
(* voter has one for each file.                                            *)
IsRollOf(entries, scans, files) ==
  /\ {<<entries[i].voter, entries[i].source>> : i \in DOMAIN entries}
       = UNION {VotersOn(scans, f[1]) \X {f} : f \in files}
  /\ \A i, j \in DOMAIN entries : i < j => Precedes(entries[i], entries[j])

Complete(book) == book \notin {NoBook, TornBook}

Sources(book) == {book.rows[i].source : i \in DOMAIN book.rows}
=============================================================================
