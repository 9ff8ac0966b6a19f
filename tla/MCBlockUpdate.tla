---------------------------- MODULE MCBlockUpdate ----------------------------
(***************************************************************************)
(* BlockUpdate on the images of SmallImages.                               *)
(***************************************************************************)
EXTENDS BlockUpdate, SmallImages
=============================================================================
