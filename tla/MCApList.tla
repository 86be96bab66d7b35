------------------------------ MODULE MCApList ------------------------------
(***************************************************************************)
(* ApList for TLC: signal strengths are negative.                          *)
(***************************************************************************)
EXTENDS ApList

Strengths == {-70, -50}
=============================================================================
