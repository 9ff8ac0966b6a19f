----------------------------- MODULE MCDiffWorkers -----------------------------
(***************************************************************************)
(* Three files for two workers; two have the same size, and in the second  *)
(* list the last one is empty.                                             *)
(***************************************************************************)
EXTENDS DiffWorkers, TLC

CONSTANTS w1, w2

TwoWorkers == {w1, w2}
ThreeFiles == <<4, 7, 4>>
EmptyFile  == <<4, 7, 0>>
=============================================================================
