------------------------------ MODULE RollExport ------------------------------
(***************************************************************************)
(* What the workbook promises, whatever happens to the runs that write it. *)
(* Its file is truncated when a run begins to write and is complete when   *)
(* that run has written: then it holds, for some of the images, every      *)
(* voter of each image once and in order, and every voter with a result    *)
(* that the detector can give for the voter's own signature.               *)
(***************************************************************************)
EXTENDS ElectoralRoll

CONSTANT Generations   \* how often an image may have been copied and listed

VARIABLES scans, book

Init == /\ scans \in [Photos -> Layouts]
        /\ book = NoBook

Truncate == /\ book' = TornBook
            /\ UNCHANGED scans

Faithful(b) ==
  /\ \E files \in SUBSET {<<p, k>> : p \in Photos, k \in 0..Generations} :
       IsRollOf(b.rows, scans, files)
  /\ \A i \in DOMAIN b.rows :
       \E result \in OwnResults(scans, b.rows[i].voter, b.ollama_ok) :
         /\ b.rows[i].a_emarge = result.verdict
         /\ b.rows[i].method = result.method

Publish == /\ book = TornBook
           /\ Complete(book')
           /\ Faithful(book')
           /\ UNCHANGED scans

Next == Truncate \/ Publish

Spec == Init /\ [][Next]_<<scans, book>>
=============================================================================
