------------------------------ MODULE SmallImages ------------------------------
(***************************************************************************)
(* A pair of small images, for the models of the block image diff.  The    *)
(* target image has three files and a zero domain; what FindTransfers has  *)
(* matched each of them with in the source image is chosen in Init, so the *)
(* digraph takes every shape from no edge to cycles of two and three, two  *)
(* of them through the same transfer.                                      *)
(***************************************************************************)
EXTENDS Integers, TLC

CONSTANTS a, b, c, z

ImageBlocks == 0..9

Targets == a :> {0, 1} @@ b :> {2, 3} @@ c :> {4, 7} @@ z :> {6, 9}
Files   == {a, b, c, z}
TheZero == {z}

(* The source files: one where a's target is (a file that did not move),   *)
(* one across b and c, one that block 5 belongs to, which the target image *)
(* does not use.  Several targets may be matched with the same file, as    *)
(* files of one name are; a target without a match is new.                 *)
SourceFiles == {{0, 1}, {3, 4}, {2, 5}}
Matches ==
    [t \in Files |-> {{}} \cup (IF t = z THEN {{6, 7}} ELSE SourceFiles)]

(* A cache of unknown size, one with room for a stash of one block, where  *)
(* the limit is that or a little more, and one that is large enough.       *)
Limit(known, allowed, whole) ==
    [known |-> known, allowed |-> allowed, whole |-> whole]
CacheLimits == {Limit(FALSE, 0, TRUE), Limit(TRUE, 1, TRUE),
                Limit(TRUE, 1, FALSE), Limit(TRUE, 4, FALSE)}

(* dm-verity data follow the file system.                                  *)
AfterImage == {8}

(* Blocks 3 and 4 hold the same data, 6 and 7 hold zeros.                  *)
ZeroBlock   == <<"zero", 0>>
ErasedBlock == <<"erased", 0>>
OldData == [n \in ImageBlocks |-> CASE n \in {3, 4} -> <<"old", 3>>
                                    [] n \in {6, 7} -> ZeroBlock
                                    [] OTHER -> <<"old", n>>]
FreshData == [n \in ImageBlocks |-> <<"new", n>>]
=============================================================================
