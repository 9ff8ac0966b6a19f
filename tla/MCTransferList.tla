--------------------------- MODULE MCTransferList ---------------------------
(***************************************************************************)
(* TransferList on the images of SmallImages, and on a pair made to fit the  *)
(* cache exactly.                                                          *)
(***************************************************************************)
EXTENDS TransferList, SmallImages

(* Two files of one block, both matched with the same source file of six,  *)
(* each overwriting a block of it that the other one reads.                *)
PairFiles   == {a, b}
PairTargets == a :> {0} @@ b :> {1}
PairMatches == [t \in PairFiles |-> {0..5}]
PairBlocks  == 0..5
PairData    == [n \in PairBlocks |-> <<"old", n>>]
PairLimits  == {Limit(TRUE, 6, FALSE)}
NoZero      == {}
NoBlocks    == {}
=============================================================================
