-------------------------------- MODULE MCWords --------------------------------
(* Lines with a word of the initial state, a word twice, two blanks in a   *)
(* row, a tab within a part, and no word at all.                           *)
EXTENDS WordStream

MCLength == [p \in {"", "\t", "of", "world", "hello", "hello\tof", "kafkaesque"} |->
               CASE p = ""   -> 0 [] p = "\t"         -> 1 [] p = "kafkaesque" -> 10
                 [] p = "of" -> 2 [] p = "hello\tof"  -> 8 [] OTHER            -> 5]

MCPieces == [p \in DOMAIN MCLength |->
               CASE p \in {"", "\t"}    -> <<>>
                 [] p = "hello\tof"     -> <<"hello", "of">>
                 [] OTHER               -> <<p>>]

MCLines == {<<"hello\tof", "", "of">>, <<"kafkaesque", "of", "kafkaesque">>,
            <<"world", "hello", "kafkaesque">>, <<"\t">>}
=============================================================================
