------------------------------ MODULE MCPlayout ------------------------------
(* Two talkers for TLC. *)
EXTENDS Playout

CONSTANTS A, B
=============================================================================
