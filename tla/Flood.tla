-------------------------------- MODULE Flood --------------------------------
(***************************************************************************)
(* One transmission flooding out from its talker through repeaters to      *)
(* listeners, a bin at a time: the app's packet handlers                   *)
(* (core/src/app.rs) on the belt of module Conveyor.                       *)
(*                                                                         *)
(* Packet 0 is the talker's wake-up, LastPacket its end packet (VoiceEnd), *)
(* those between are voice.  The talker's bin 0 starts at time 0.  In each *)
(* bin a radio that isn't sending may hear one of the packets sent by a    *)
(* radio in its range: good, with its timing skewed, or with its CRC       *)
(* failed.  Hearing nothing is always possible (loss, collision, another   *)
(* hop channel).                                                           *)
(*                                                                         *)
(* Bounds of a run: LastPacket, MaxBin, and the finite sets of errors.     *)
(***************************************************************************)
EXTENDS Conveyor, Sequences, FiniteSets

CONSTANTS Talker, Repeaters, Listeners,
          InRange,      \* InRange[s]: the senders that station s can hear
          LastPacket,   \* the number of the end packet
          MaxHops,      \* packet::MAX_HOPS
          TimeErrors,   \* errors of a trusted end time
          SkewErrors,   \* errors of an end time flagged as skewed
          GarbledHeard, \* whether a CRC may fail (a dimension of the run)
          PlayGarbled,  \* config::PLAY_GARBLED
          MaxBin        \* where a run's clock stops

Stations == Repeaters \cup Listeners

VARIABLES bin,      \* the bin now on the air, counted from the talker's bin 0
          sending,  \* sending[r]: the relay repeater r's radio sends in this bin
          queued,   \* queued[r]: the relay it has for the next (TX_CHAN)
          waiting,  \* stations that have heard nothing yet in this bin
          trans,    \* trans[s]: the transmission on s's conveyor, or NIL
          taken     \* history: what s has taken from its conveyor, in order

vars == <<bin, sending, queued, waiting, trans, taken>>

Copies == [packet : Nat, hops : Nat, start : Int]
Taken  == [number : Int, packet : Nat]

ASSUME FloodAssumption ==
    /\ Talker \notin Stations /\ Repeaters \cap Listeners = {}
    /\ InRange \in [Stations -> SUBSET (Repeaters \cup {Talker})]
    /\ LastPacket \in Nat /\ MaxHops \in Nat /\ MaxBin \in Nat
    /\ TimeErrors \subseteq Int /\ SkewErrors \subseteq Int
    /\ GarbledHeard \in BOOLEAN /\ PlayGarbled \in BOOLEAN
    /\ NIL \notin Copies /\ NIL \notin Transmissions

-----------------------------------------------------------------------------
(* What is on the air *)

\* Packet n goes out in the middle of bin 2n (App::stream).
TalkersCopy ==
    IF bin % 2 = 0 /\ bin \div 2 <= LastPacket
    THEN [packet |-> bin \div 2, hops |-> 0, start |-> BinStart(0, bin) + GuardUs]
    ELSE NIL

SentBy(x) == IF x = Talker THEN TalkersCopy ELSE sending[x]

Idle(s) == s \in Repeaters => sending[s] = NIL

IsWake(copy) == copy.packet = 0
IsEnd(copy)  == copy.packet = LastPacket

-----------------------------------------------------------------------------
(* The app's handlers *)

\* With no conveyor going, a packet starts one, unless it is an end packet.
RideConveyor(t, copy, arrival) ==
    IF t # NIL THEN TransmissionHeard(t, arrival)
    ELSE IF IsEnd(copy) THEN [trans |-> NIL, landing |-> NIL]
    ELSE TransmissionStart(arrival)

\* Mutant of Takes: a packet without a number is taken too.
TakesUnnumbered(s, ride, copy) ==
    /\ ride.landing # NIL
    /\ s \in Repeaters \/ ~(IsWake(copy) \/ IsEnd(copy))
    /\ IsFirstCopy(ride.trans, ride.landing.packet)

\* Does the app take this packet from its conveyor?  Wake-ups and end packets
\* are taken only by a repeater, to relay.
Takes(s, ride, copy) ==
    /\ ride.landing # NIL
    /\ ride.landing.packet # NIL
    /\ s \in Repeaters \/ ~(IsWake(copy) \/ IsEnd(copy))
    /\ IsFirstCopy(ride.trans, ride.landing.packet)

\* A relay: one more hop, one bin after the copy it was heard as started.
RelayOf(copy, end) ==
    IF copy.hops >= MaxHops THEN NIL
    ELSE [packet |-> copy.packet, hops |-> copy.hops + 1,
          start |-> end - AirUs + BinUs]

\* A new conveyor has a history of its own.
TakenSoFar(s) == IF trans[s] = NIL THEN <<>> ELSE taken[s]

\* App::on_rx_packet for a good packet: it rides the conveyor; its first copy
\* is taken, to be played or relayed; an end packet ends the transmission.
HearGood(s, copy, error, ok) ==
    LET end   == copy.start + AirUs + error
        ride  == RideConveyor(trans[s], copy, [end |-> end, hops |-> copy.hops, ok |-> ok])
        takes == Takes(s, ride, copy)
        now   == IF takes THEN Take(ride.trans, ride.landing.packet) ELSE ride.trans
    IN  /\ trans' = [trans EXCEPT ![s] = IF IsEnd(copy) THEN NIL ELSE now]
        /\ taken' = [taken EXCEPT ![s] =
                        IF takes
                        THEN Append(TakenSoFar(s), [number |-> ride.landing.packet,
                                                    packet |-> copy.packet])
                        ELSE TakenSoFar(s)]
        /\ queued' = IF takes /\ s \in Repeaters
                     THEN [queued EXCEPT ![s] = RelayOf(copy, end)]
                     ELSE queued

\* Which packet a listener plays in place of a silence (App::play_garbled): a
\* wake-up is too short to be audio, a garbled end packet is not.
GarbledTaken(s, t, copy, end, ok) ==
    LET packet == GarbledPacket(t, end, ok)
    IN  IF /\ PlayGarbled /\ s \in Listeners /\ ~IsWake(copy)
           /\ packet # NIL
           /\ IsFirstCopy(t, packet)
        THEN packet ELSE NIL

\* App::on_rx_packet for a packet whose CRC failed.
HearGarbled(s, copy, error, ok) ==
    LET end    == copy.start + AirUs + error
        t      == HeardGarbled(trans[s], end, ok)
        packet == GarbledTaken(s, t, copy, end, ok)
    IN  /\ trans[s] # NIL
        /\ trans' = [trans EXCEPT ![s] = IF packet = NIL THEN t ELSE Take(t, packet)]
        /\ taken' = IF packet = NIL THEN taken
                    ELSE [taken EXCEPT ![s] =
                            Append(@, [number |-> packet, packet |-> copy.packet])]
        /\ UNCHANGED queued

\* A station's radio hears one packet of this bin.
Hear(s) ==
    /\ s \in waiting
    /\ Idle(s)
    /\ \E x \in InRange[s] : \E ok \in BOOLEAN :
       \E error \in IF ok THEN TimeErrors ELSE SkewErrors :
          /\ SentBy(x) # NIL
          /\ \/ HearGood(s, SentBy(x), error, ok)
             \/ GarbledHeard /\ HearGarbled(s, SentBy(x), error, ok)
    /\ waiting' = waiting \ {s}
    /\ UNCHANGED <<bin, sending>>

\* App::housekeeping: a transmission whose end packet never came.
Housekeeping(s) ==
    /\ trans[s] # NIL
    /\ Over(trans[s], BinStart(0, bin + 1))
    /\ trans' = [trans EXCEPT ![s] = NIL]
    /\ UNCHANGED <<bin, sending, queued, waiting, taken>>

\* The belt moves on: the radios send what is due in the next bin.
NextBin ==
    /\ bin' = IF bin < MaxBin THEN bin + 1 ELSE bin
    /\ sending' = queued
    /\ queued' = [r \in Repeaters |-> NIL]
    /\ waiting' = Stations
    /\ UNCHANGED <<trans, taken>>

Init ==
    /\ bin = 0
    /\ sending = [r \in Repeaters |-> NIL]
    /\ queued = [r \in Repeaters |-> NIL]
    /\ waiting = Stations
    /\ trans = [s \in Stations |-> NIL]
    /\ taken = [s \in Stations |-> <<>>]

Next ==
    \/ NextBin
    \/ \E s \in Stations : Hear(s) \/ Housekeeping(s)

Spec == Init /\ [][Next]_vars

\* Time passes, and the app's ticker fires.
Fairness == WF_vars(NextBin) /\ \A s \in Stations : WF_vars(Housekeeping(s))

FairSpec == Spec /\ Fairness

-----------------------------------------------------------------------------
(* Properties *)

TypeOK ==
    /\ bin \in 0..MaxBin
    /\ sending \in [Repeaters -> Copies \cup {NIL}]
    /\ queued \in [Repeaters -> Copies \cup {NIL}]
    /\ waiting \subseteq Stations
    /\ trans \in [Stations -> Transmissions \cup {NIL}]
    /\ taken \in [Stations -> Seq(Taken)]

\* Every copy of a packet, however many hops it took and whichever copy the
\* belt started from, comes out as the same packet: a station's numbers are
\* the talker's, shifted by where its belt started (conveyor.rs, landing).
NumberingAgrees ==
    \A s \in Stations : \A i, j \in DOMAIN taken[s] :
        taken[s][j].number - taken[s][i].number = taken[s][j].packet - taken[s][i].packet

\* Nothing is played or relayed twice, or out of the talker's order, on one
\* conveyor (Transmission::first_copy).
TakenInOrder ==
    \A s \in Stations : \A i, j \in DOMAIN taken[s] :
        i < j => taken[s][i].packet < taken[s][j].packet

\* A belt whose time is trusted puts every copy now on the air in a bin that
\* fits its hops, so no good packet is dropped for being in the wrong bin.
EveryCopyNumbered ==
    \A s \in Stations : \A x \in InRange[s] : \A error \in TimeErrors :
        (trans[s] # NIL /\ trans[s].anchored /\ SentBy(x) # NIL) =>
            Landing(trans[s].bin0, SentBy(x).start + AirUs + error,
                    SentBy(x).hops).packet # NIL

\* A copy that comes back to a repeater round a loop of two is a duplicate, so no
\* copy has had more relays than there are repeaters: MAX_HOPS is only a
\* backstop (packet.rs). In a ring of three it is not: the end packet takes the
\* conveyor away, and a voice copy still on its way round starts another.
LoopsDieOut ==
    \A r \in Repeaters : sending[r] # NIL => sending[r].hops <= Cardinality(Repeaters)

\* A station whose end packet was lost is not left locked to the talker.
EveryConveyorEnds == \A s \in Stations : trans[s] # NIL ~> trans[s] = NIL
=============================================================================
