--------------------------- MODULE OrderedPlayback ---------------------------
(***************************************************************************)
(* What the speaker is promised (core/src/playout.rs): one transmission's  *)
(* packets in the talker's order, none twice, with silence in the place of *)
(* those lost, at most MostSilences of them in a row.  `out` is what has   *)
(* been played since the playout was last reset.                           *)
(***************************************************************************)
EXTENDS Integers, Sequences, FiniteSets, SequencesExt

CONSTANT MostSilences

VARIABLE out

Audio(packet) == [kind |-> "Audio", packet |-> packet]
Silence       == [kind |-> "Silence", packet |-> 0]
Squelch       == [kind |-> "Squelch", packet |-> 0]

IsAudio(play) == play.kind = "Audio"

AudioAt(plays) == {i \in DOMAIN plays : IsAudio(plays[i])}

\* The two pieces of audio next to each other in what was played.
Neighbours(plays) ==
    {ij \in AudioAt(plays) \X AudioAt(plays) :
        /\ ij[1] < ij[2]
        /\ \A k \in AudioAt(plays) : k <= ij[1] \/ ij[2] <= k}

SilencesBetween(plays, i, j) == Cardinality({k \in i..j : plays[k] = Silence})

Lesser(a, b) == IF a < b THEN a ELSE b

Rendered(plays) ==
    /\ \A ij \in Neighbours(plays) :
        LET missing == plays[ij[2]].packet - plays[ij[1]].packet - 1
        IN  /\ 0 <= missing
            /\ SilencesBetween(plays, ij[1], ij[2]) = Lesser(missing, MostSilences)
    /\ \A k \in DOMAIN plays :
        plays[k] = Silence => \E i, j \in AudioAt(plays) : i < k /\ k < j

Init == out = <<>>

\* What has been played stays played, until another transmission, or only its
\* end, comes along.
PlayMore == IsPrefix(out, out') /\ Rendered(out')
Forget   == out' \in {<<>>, <<Squelch>>}

Next == PlayMore \/ Forget

Spec == Init /\ [][Next]_out
=============================================================================
