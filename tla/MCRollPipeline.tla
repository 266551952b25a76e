---------------------------- MODULE MCRollPipeline ----------------------------
(* Small folders for RollPipeline.                                         *)
EXTENDS RollPipeline

Ink(ink, contours) == [ink |-> ink, contours |-> contours]
Signed == Ink(40, 3)
Blank  == Ink(2, 0)
Faint  == Ink(20, 1)

Row(cell, line) == [known |-> TRUE, cell |-> cell, line |-> line]
BlankRow        == [known |-> FALSE, cell |-> Blank, line |-> NoCrop]
HeaderRow       == Row(Blank, NoCrop)

ATable(headers, data) == [headers |-> headers, rows |-> data, emarg |-> TRUE]
NoSignatureColumn(table) == [table EXCEPT !.emarg = FALSE]

(* One header row in each table that has a row, and no blank row.          *)
TwoVoters == <<ATable(<<HeaderRow>>, <<Row(Signed, Blank), Row(Blank, Signed)>>)>>
TwoTables == <<ATable(<<HeaderRow>>, <<Row(NoCrop, Faint)>>),
               ATable(<<HeaderRow>>, <<>>),
               NoSignatureColumn(ATable(<<HeaderRow>>, <<Row(Signed, NoCrop)>>))>>

(* A row without any field; a header of two rows; no header at all.        *)
WithBlankRow == <<ATable(<<HeaderRow>>, <<BlankRow, Row(Signed, NoCrop)>>),
                  ATable(<<HeaderRow>>, <<Row(Faint, NoCrop)>>)>>
TwoHeaders   == <<ATable(<<HeaderRow, HeaderRow>>, <<Row(Signed, NoCrop)>>)>>
NoHeader     == <<ATable(<<>>, <<Row(Signed, NoCrop)>>)>>
OneVoter     == <<ATable(<<HeaderRow>>, <<Row(Faint, NoCrop)>>)>>

OneLayout      == {OneVoter}
OtherLayouts   == {TwoVoters, TwoTables, WithBlankRow, TwoHeaders, NoHeader}
BlankRows      == {WithBlankRow}
=============================================================================
