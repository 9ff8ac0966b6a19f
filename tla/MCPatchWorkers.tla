----------------------------- MODULE MCPatchWorkers -----------------------------
(***************************************************************************)
(* Four diffs for three workers; one of them has a patch of length zero,   *)
(* two have targets of the same size, two may fail.                        *)
(***************************************************************************)
EXTENDS PatchWorkers, TLC

CONSTANTS w1, w2, w3

ThreeWorkers == {w1, w2, w3}
FourPatches  == <<2, 0, 3, 1>>
FourTargets  == <<4, 7, 4, 1>>
FailTwo      == {1, 3}
=============================================================================
