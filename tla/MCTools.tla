------------------------------ MODULE MCTools ------------------------------
(* Numbers that a cfg cannot write for Tools.                              *)
EXTENDS Tools

MCRowGarbage == {-1, 0, 2}
MCDifficulties == {-1, 0, 1}
=============================================================================
