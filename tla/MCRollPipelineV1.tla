--------------------------- MODULE MCRollPipelineV1 ---------------------------
(* Small folders for RollPipelineV1: tables with one header row, no blank  *)
(* row.  One page has a signature column in both of its tables; the other  *)
(* has a table without a data row, and one without a signature column.     *)
EXTENDS RollPipelineV1

Crop   == [ink |-> 20, contours |-> 1]
Header == [known |-> TRUE, cell |-> Crop, line |-> NoCrop]
Voter  == [known |-> TRUE, cell |-> Crop, line |-> NoCrop]
Uncut  == [known |-> TRUE, cell |-> NoCrop, line |-> NoCrop]

Columns(emarg, data) == [headers |-> <<Header>>, rows |-> data, emarg |-> emarg]

BothTables == <<Columns(TRUE, <<Uncut, Voter>>), Columns(TRUE, <<Voter>>)>>
OneOfThree == <<Columns(TRUE, <<Voter>>), Columns(TRUE, <<>>), Columns(FALSE, <<Voter>>)>>

PageLayouts == {BothTables, OneOfThree}
TwoColumns  == {BothTables}

(* What the theorems about whose verdict is whose assume of the layouts.   *)
ASSUME LayoutsArePlain == PlainLayouts
=============================================================================
