------------------------------ MODULE MCStation ------------------------------
(* Two talkers for TLC, and what may be heard. *)
EXTENDS Station

CONSTANTS A, B

TransmissionOfA ==
    {[kind |-> kind, txid |-> A, timed |-> TRUE] : kind \in {"Wake", "Voice", "End"}}

\* A skewed packet, another talker's, one garbled and one of no use.
Everything ==
    TransmissionOfA
    \cup {[kind |-> "Voice", txid |-> A, timed |-> FALSE]}
    \cup {[kind |-> kind, txid |-> B, timed |-> TRUE] : kind \in {"Voice", "End"}}
    \cup {[kind |-> kind, txid |-> NIL, timed |-> TRUE] : kind \in {"Other", "Garbled"}}
=============================================================================
