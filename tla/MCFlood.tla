------------------------------- MODULE MCFlood -------------------------------
(* Small networks for TLC: who is in whose range, and the errors. *)
EXTENDS Flood

CONSTANTS T, R1, R2, L

\* Two repeaters in the talker's range and each other's, so relays loop.
LoopOfTwo == [s \in {R1, R2} |-> {T, R1, R2} \ {s}]

\* One repeater between the talker and a listener that hears both.
OneRepeater == [s \in {R1, L} |-> IF s = R1 THEN {T} ELSE {T, R1}]

\* Microseconds: landings on the desk were within 1.4 ms of the bin's middle;
\* a skewed end can be off by far more than the guard.
DeskErrors == {0, 1400}
BothSkews  == {-9000, 15000}
=============================================================================
