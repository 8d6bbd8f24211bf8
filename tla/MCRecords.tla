----------------------------- MODULE MCRecords ------------------------------
(***************************************************************************)
(* Values of the constants of Records for TLC.                             *)
(***************************************************************************)
EXTENDS Records, TLC

MCTransitions == {<<"draft", "review">>, <<"draft", "done">>}
MCEdits == {<<"a", "b">>}
Symmetry == Permutations(Clients) \cup Permutations(RecordIds)
=============================================================================
