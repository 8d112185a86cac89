------------------------------- MODULE MCLogger -------------------------------
(* The threads that log, for TLC. *)
EXTENDS Logger

CONSTANTS T1, T2
===============================================================================
