----------------------------- MODULE MCRadioDriver -----------------------------
(* The radio's task on two channels, one of which a rotation turns away from. *)
EXTENDS RadioDriver

ThereAndBack == {[from |-> 0, every |-> 3, channels |-> <<0, 1, 0, 1>>]}

=============================================================================
