------------------------------ MODULE MCJobServer ------------------------------
(***************************************************************************)
(* Two wrapped recipes and a plain one share a pipe of two tokens.         *)
(***************************************************************************)
EXTENDS JobServer, TLC

CONSTANTS m1, m2, r1, r2

TwoWrapped == {m1, m2}
OneNinja   == {m1}
TwoPlain   == {r1, r2}
=============================================================================
