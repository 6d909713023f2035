--------------------------- MODULE MCHistoryFile ---------------------------
(* Two sessions; submissions of one line, of two, and with a backslash.      *)
EXTENDS HistoryFile

Short == {<<"x">>, <<"y">>}
Escapes == {<<"x">>, <<"x", "LF">>, <<"\\">>}

MCSetups == {
  [submission |-> Escapes, capacity |-> 2, reedline |-> TRUE, mode_kept |-> FALSE,
   max_submissions |-> 4, max_stops |-> 0],
  [submission |-> Escapes, capacity |-> 4, reedline |-> FALSE, mode_kept |-> TRUE,
   max_submissions |-> 3, max_stops |-> 2]}

Full == {[submission |-> Escapes, capacity |-> 2, reedline |-> FALSE, mode_kept |-> TRUE,
          max_submissions |-> 4, max_stops |-> 1]}
Repeating == {[submission |-> Short, capacity |-> 3, reedline |-> TRUE, mode_kept |-> TRUE,
               max_submissions |-> 3, max_stops |-> 0]}
=============================================================================
