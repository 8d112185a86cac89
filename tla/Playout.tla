------------------------------- MODULE Playout -------------------------------
(***************************************************************************)
(* A radio playing what it hears: the app's side (core/src/app.rs, mode    *)
(* Normal), the codec thread (core/src/codec.rs) and the playout           *)
(* (core/src/playout.rs) that puts decoded packets in order.               *)
(*                                                                         *)
(* The app and the codec thread run concurrently, joined by two bounded    *)
(* queues.  A packet taken from the conveyor is numbered by it; a new      *)
(* conveyor counts from 0 again.  Any end packet may come at any time:     *)
(* repeaters send it again, and other talkers' are heard too.              *)
(*                                                                         *)
(* Bounds of a run: Txids, MaxPacket, MaxConveyors, and MaxPlays (no end    *)
(* packet comes once that much has been played).                           *)
(***************************************************************************)
EXTENDS Integers, FiniteSets, SequencesExt

CONSTANTS Txids,         \* the talkers' transmission ids
          MostSilences,  \* playout::MOST_SILENCES
          RequestCap,    \* the codec's request queue (sync_channel)
          DecodedCap,    \* codec::DECODED
          MaxPacket, MaxConveyors, MaxPlays,
          NIL            \* Rust's None

ASSUME PlayoutAssumption ==
    /\ MostSilences \in Nat /\ RequestCap \in Nat /\ DecodedCap \in Nat
    /\ MaxPacket \in Nat /\ MaxConveyors \in Nat /\ MaxPlays \in Nat
    /\ NIL \notin Txids \cup Int

VARIABLES conveyor,  \* the transmission going: [txid, next], or NIL
          conveyors, \* how many there have been (a bound)
          playing,   \* rx.playing_txid
          playout,   \* the Playout: [next, held, started, inFlight, squelch]
          codec,     \* decodes [asked, working, done]: the request queue, the
                     \* one the codec thread is on, and codec::DECODED
          heard      \* history since the last reset: [out: what was played,
                     \* mixed: a decode asked for before it got in, lost: a
                     \* decode was dropped with DECODED full]

vars == <<conveyor, conveyors, playing, playout, codec, heard>>

SpeakerFeed == INSTANCE OrderedPlayback WITH out <- heard.out

-----------------------------------------------------------------------------
(* The playout *)

NewPlayout == [next |-> NIL, held |-> NIL, started |-> FALSE,
               inFlight |-> 0, squelch |-> FALSE]

\* Start playing: whatever is held goes first.
Start(p) == [p EXCEPT !.started = TRUE, !.held = NIL]
HeldPlays(p) == IF p.held = NIL THEN <<>> ELSE <<SpeakerFeed!Audio(p.held)>>

Decoding(p) == [p EXCEPT !.inFlight = @ + 1]

\* One fewer decode in flight: a saturating subtraction.
Returned(p) == [p EXCEPT !.inFlight = IF @ = 0 THEN 0 ELSE @ - 1]

NextPacket(p, packet) == IF p.next = NIL THEN packet ELSE p.next

\* Mutant of Missing: as many silences as packets lost.
MissingAll(p, packet) == packet - NextPacket(p, packet)

Missing(p, packet) == SpeakerFeed!Lesser(packet - NextPacket(p, packet), MostSilences)

HoldsFirst(p, packet) == ~p.started /\ p.held = NIL /\ Missing(p, packet) = 0

\* Mutant of DecodedInto: the tail owed is forgotten.
DecodedWithoutTail(p, packet) ==
    LET back == Returned(p)
    IN  IF packet < NextPacket(p, packet) THEN
            [playout |-> back, plays |-> <<>>]
        ELSE IF HoldsFirst(p, packet) THEN
            [playout |-> [back EXCEPT !.held = packet, !.next = packet + 1],
             plays   |-> <<>>]
        ELSE
            [playout |-> [Start(back) EXCEPT !.next = packet + 1],
             plays   |-> HeldPlays(p)
                         \o [i \in 1..Missing(p, packet) |-> SpeakerFeed!Silence]
                         \o <<SpeakerFeed!Audio(packet)>>]

\* Playout::decoded: the new playout, and what it plays.
DecodedInto(p, packet) ==
    LET back == Returned(p)
        tail == back.squelch /\ back.inFlight = 0
    IN  IF packet < NextPacket(p, packet) THEN
            [playout |-> back, plays |-> <<>>]
        ELSE IF HoldsFirst(p, packet) THEN
            [playout |-> [back EXCEPT !.held = packet, !.next = packet + 1],
             plays   |-> <<>>]
        ELSE
            [playout |-> [Start(back) EXCEPT !.next = packet + 1,
                                             !.squelch = back.squelch /\ ~tail],
             plays   |-> HeldPlays(p)
                         \o [i \in 1..Missing(p, packet) |-> SpeakerFeed!Silence]
                         \o <<SpeakerFeed!Audio(packet)>>
                         \o (IF tail THEN <<SpeakerFeed!Squelch>> ELSE <<>>)]

\* Mutant of EndedInto: the tail does not wait.
EndedAtOnce(p) ==
    [playout |-> Start(p), plays |-> HeldPlays(p) \o <<SpeakerFeed!Squelch>>]

\* Playout::ended: what is held, and the tail once no decode is in flight.
EndedInto(p) ==
    IF p.inFlight = 0
    THEN [playout |-> Start(p), plays |-> HeldPlays(p) \o <<SpeakerFeed!Squelch>>]
    ELSE [playout |-> [Start(p) EXCEPT !.squelch = TRUE], plays |-> HeldPlays(p)]

-----------------------------------------------------------------------------
(* The app *)

\* Playout::reset. Nothing is called back from the codec: the decodes on their
\* way are the old transmission's.
NothingHeard == [out |-> <<>>, mixed |-> FALSE, lost |-> FALSE, again |-> FALSE]

Stale(decodes) == [i \in DOMAIN decodes |-> [decodes[i] EXCEPT !.stale = TRUE]]

AllStale(c) == [asked |-> Stale(c.asked), working |-> Stale(c.working), done |-> Stale(c.done)]

\* The playout plays one transmission: another's resets it first.
Switches(txid) == playing # txid
\* Mutant of PlayoutFor: another transmission takes over without a reset.
PlayoutKept(txid) == playout
PlayoutFor(txid) == IF Switches(txid) THEN NewPlayout ELSE playout
CodecFor(txid)   == IF Switches(txid) THEN AllStale(codec) ELSE codec
HeardFor(txid)   == IF Switches(txid) THEN NothingHeard ELSE heard

\* App::decode: with the request queue full, the packet is dropped.
Decode(txid, packet) ==
    LET c == CodecFor(txid)
        request == [txid |-> txid, packet |-> packet, stale |-> FALSE]
    IN  /\ playing' = txid
        /\ heard' = [HeardFor(txid) EXCEPT
                        !.again = @ \/ (conveyor = NIL /\ ~Switches(txid))]
        /\ \/ /\ Len(c.asked) < RequestCap
              /\ codec' = [c EXCEPT !.asked = Append(@, request)]
              /\ playout' = Decoding(PlayoutFor(txid))
           \/ /\ Len(c.asked) >= RequestCap
              /\ codec' = c
              /\ playout' = PlayoutFor(txid)

\* App::on_rx_packet takes a first copy: the conveyor's next number or, with
\* packets lost, a later one; a new conveyor counts from 0.
Voice(txid) ==
    /\ \/ /\ conveyor = NIL /\ conveyors < MaxConveyors
          /\ conveyors' = conveyors + 1
          /\ conveyor' = [txid |-> txid, next |-> 1]
          /\ Decode(txid, 0)
       \/ /\ conveyor # NIL /\ conveyor.txid = txid
          /\ \E packet \in conveyor.next..MaxPacket :
                /\ conveyor' = [conveyor EXCEPT !.next = packet + 1]
                /\ Decode(txid, packet)
          /\ UNCHANGED conveyors

\* App::on_end: it plays the tail whoever's end it is, and ends the conveyor if
\* it is that transmission's.
End(txid) ==
    LET ended == EndedInto(PlayoutFor(txid))
    IN  /\ Len(HeardFor(txid).out) < MaxPlays
        /\ playing' = txid
        /\ playout' = ended.playout
        /\ codec' = CodecFor(txid)
        /\ heard' = [HeardFor(txid) EXCEPT !.out = @ \o ended.plays]
        /\ conveyor' = IF conveyor # NIL /\ conveyor.txid = txid THEN NIL ELSE conveyor
        /\ UNCHANGED conveyors

\* The playout is forgotten, and with it who was playing.
Forget ==
    /\ playing' = NIL
    /\ playout' = NewPlayout
    /\ codec' = AllStale(codec)
    /\ heard' = NothingHeard

\* App::housekeeping: the conveyor is over without an end packet.
Over ==
    /\ conveyor # NIL
    /\ conveyor' = NIL
    /\ IF playing = NIL THEN UNCHANGED <<playing, playout, codec, heard>> ELSE Forget
    /\ UNCHANGED conveyors

\* App::on_ptt: refused while a transmission is going.
Ptt ==
    /\ conveyor = NIL
    /\ Forget
    /\ UNCHANGED <<conveyor, conveyors>>

\* App::run_menu.
RunMenu ==
    /\ conveyor' = NIL
    /\ Forget
    /\ UNCHANGED conveyors

\* App::on_decoded: dropped unless it is the transmission being played.
OnDecoded ==
    /\ codec.done # <<>>
    /\ codec' = [codec EXCEPT !.done = Tail(@)]
    /\ LET decode == Head(codec.done)
           into   == DecodedInto(playout, decode.packet)
       IN  \/ /\ playing = decode.txid
              /\ playout' = into.playout
              /\ heard' = [heard EXCEPT !.out = @ \o into.plays,
                                        !.mixed = @ \/ decode.stale]
           \/ /\ playing # decode.txid
              /\ UNCHANGED <<playout, heard>>
    /\ UNCHANGED <<conveyor, conveyors, playing>>

-----------------------------------------------------------------------------
(* The codec thread *)

CodecTakes ==
    /\ codec.asked # <<>> /\ codec.working = <<>>
    /\ codec' = [codec EXCEPT !.asked = Tail(@), !.working = <<Head(codec.asked)>>]
    /\ UNCHANGED <<conveyor, conveyors, playing, playout, heard>>

\* DECODED.try_send: with the app behind, the decode is dropped.
CodecReturns ==
    /\ codec.working # <<>>
    /\ \/ /\ Len(codec.done) < DecodedCap
          /\ codec' = [codec EXCEPT !.working = <<>>, !.done = @ \o codec.working]
          /\ UNCHANGED heard
       \/ /\ Len(codec.done) >= DecodedCap
          /\ codec' = [codec EXCEPT !.working = <<>>]
          /\ heard' = [heard EXCEPT !.lost = @ \/ ~Head(codec.working).stale]
    /\ UNCHANGED <<conveyor, conveyors, playing, playout>>

-----------------------------------------------------------------------------
Init ==
    /\ conveyor = NIL /\ conveyors = 0
    /\ playing = NIL /\ playout = NewPlayout
    /\ codec = [asked |-> <<>>, working |-> <<>>, done |-> <<>>]
    /\ heard = NothingHeard

Next ==
    \/ \E txid \in Txids : Voice(txid) \/ End(txid)
    \/ Over \/ Ptt \/ RunMenu \/ OnDecoded
    \/ CodecTakes \/ CodecReturns

Spec == Init /\ [][Next]_vars

\* The codec thread runs, and the app's loop takes what it hands back.
FairSpec == Spec /\ WF_vars(CodecTakes) /\ WF_vars(CodecReturns) /\ WF_vars(OnDecoded)

-----------------------------------------------------------------------------
(* Properties *)

Plays == [kind : {"Audio"}, packet : Nat] \cup {SpeakerFeed!Silence, SpeakerFeed!Squelch}

Decodes == [txid : Txids, packet : Nat, stale : BOOLEAN]

\* The variables have their types: the queues stay within their capacity, and
\* the playout's unsigned count of decodes never goes below none, whoever's
\* decodes come back to it.
TypeOK ==
    /\ conveyor \in [txid : Txids, next : Nat] \cup {NIL} /\ conveyors \in 0..MaxConveyors
    /\ playing \in Txids \cup {NIL}
    /\ playout \in [next : Nat \cup {NIL}, held : Nat \cup {NIL}, started : BOOLEAN,
                    inFlight : Nat, squelch : BOOLEAN]
    /\ codec \in [asked : Seq(Decodes), working : Seq(Decodes), done : Seq(Decodes)]
    /\ Len(codec.asked) <= RequestCap /\ Len(codec.working) <= 1
    /\ Len(codec.done) <= DecodedCap
    /\ heard \in [out : Seq(Plays), mixed : BOOLEAN, lost : BOOLEAN, again : BOOLEAN]

\* How many of them were asked for since the last reset.
FreshAmong(decodes) == Cardinality({i \in DOMAIN decodes : ~decodes[i].stale})

Fresh == FreshAmong(codec.done) + FreshAmong(codec.working) + FreshAmong(codec.asked)

\* The playout's count of decodes in flight is how many will come back to it,
\* unless one was dropped on the way or another transmission's was let in.
CountsDecodes ==
    ~heard.mixed => /\ playout.inFlight >= Fresh
                    /\ ~heard.lost => playout.inFlight = Fresh

TailPlayed == \E i \in DOMAIN heard.out : heard.out[i] = SpeakerFeed!Squelch

\* The tail comes after the last decode still in flight: when it is played,
\* none of the transmission's packets is still on its way to the speaker.
TailComesLast ==
    [][(/\ heard'.out # heard.out /\ heard'.out # <<>>
        /\ Last(heard'.out) = SpeakerFeed!Squelch
        /\ ~heard'.mixed) => Fresh' = 0]_vars

\* A tail that is owed is played: it waits for the last decode still in flight.
\* Not when a decode was dropped, or another transmission's was let in.
TailIsPlayed ==
    playout.squelch ~> (TailPlayed \/ ~playout.squelch \/ heard.lost \/ heard.mixed)

\* So it is until a late copy starts another conveyor of the transmission
\* being played, and its packets are numbered from 0 again.
TailIsPlayedOnOneConveyor ==
    playout.squelch ~> (\/ TailPlayed \/ ~playout.squelch \/ heard.lost \/ heard.mixed
                        \/ heard.again)

\* What is played is the transmission's packets in order, with silences.
PlaysInOrder == SpeakerFeed!Spec
=============================================================================
