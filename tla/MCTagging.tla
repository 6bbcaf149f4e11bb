----------------------------- MODULE MCTagging ------------------------------
(* Instances of Tagging for TLC.                                           *)
EXTENDS Tagging

MCTwoFiles == 1..2
MCThreeFiles == 1..3
=============================================================================
