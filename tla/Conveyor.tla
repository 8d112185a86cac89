------------------------------- MODULE Conveyor -------------------------------
(***************************************************************************)
(* A transmission's timing as a belt of bins (core/src/conveyor.rs).       *)
(*                                                                         *)
(* Times are microseconds on one radio's clock. A packet that a receiver   *)
(* times at its end is an arrival [end, hops, ok]; ok is                   *)
(* RxPacket::timing_ok.  A station's Transmission is a record:             *)
(*   bin0      when the talker's bin 0 started, as this station places it  *)
(*   anchored  that time came from a packet whose timing is trusted        *)
(*   lastBin   the last bin that brought anything                          *)
(*   lastTaken the newest packet number taken by first_copy, or NIL        *)
(*   relayed   a relayed copy was heard (tally.relayed > 0)                *)
(* The rest of the tally is only logged, and the climb (climb.rs) only     *)
(* chooses channels: neither is kept here.                                 *)
(***************************************************************************)
EXTENDS Integers

CONSTANTS BinUs,           \* one bin (air::bin_us)
          AirUs,           \* a voice packet's time on the air (air::packet_us)
          EmptyBinsToEnd,  \* empty bins that end a transmission
          NIL              \* Rust's None

ASSUME BeltAssumption ==
    /\ BinUs \in Nat /\ AirUs \in Nat /\ EmptyBinsToEnd \in Nat
    /\ 0 < AirUs /\ AirUs < BinUs
    /\ NIL \notin Int

-----------------------------------------------------------------------------
(* The belt *)

\* The spare air on each side of a packet in its bin.
GuardUs == (BinUs - AirUs) \div 2

\* value / divisor to the nearest whole number, halves upwards.
DivRound(value, divisor) == (value + divisor \div 2) \div divisor

\* Mutant of ConveyorStart: the belt starts in the bin of the copy heard.
ConveyorStartHere(end, hops) == end - AirUs - GuardUs

\* When bin 0 started, given that a packet with this many hops ended now.
ConveyorStart(end, hops) == end - AirUs - GuardUs - hops * BinUs

BinStart(bin0, bin) == bin0 + bin * BinUs

\* Mutant of PacketIn: it takes any bin.
PacketInAnyBin(bin, hops) == (bin - hops) \div 2

\* Which of the talker's packets is in this bin after this many relays.
PacketIn(bin, hops) == IF (bin - hops) % 2 = 0 THEN (bin - hops) \div 2 ELSE NIL

\* Where a packet landed; hops is NIL for a garbled one.
Landing(bin0, end, hops) ==
    LET since == end - AirUs - GuardUs - bin0
        bin   == DivRound(since, BinUs)
    IN  [bin    |-> bin,
         offBy  |-> since - bin * BinUs,
         packet |-> IF hops = NIL THEN NIL ELSE PacketIn(bin, hops)]

OnBelt(landing) == -GuardUs <= landing.offBy /\ landing.offBy <= GuardUs

-----------------------------------------------------------------------------
(* A transmission on its conveyor *)

Later(a, b) == IF a < b THEN b ELSE a

\* A skewed packet gets no number.
Trusted(arrival, landing) ==
    IF arrival.ok THEN landing ELSE [landing EXCEPT !.packet = NIL]

\* The first good packet of a transmission starts its belt.
TransmissionStart(arrival) ==
    LET bin0    == ConveyorStart(arrival.end, arrival.hops)
        landing == Landing(bin0, arrival.end, arrival.hops)
    IN  [trans   |-> [bin0      |-> bin0,
                      anchored  |-> arrival.ok,
                      lastBin   |-> landing.bin,
                      lastTaken |-> NIL,
                      relayed   |-> arrival.ok /\ arrival.hops > 0],
         landing |-> Trusted(arrival, landing)]

\* A belt started from a skewed packet takes its time from the first trusted
\* one, which keeps the bin it was nearest.
Anchor(t, arrival) ==
    IF arrival.ok /\ ~t.anchored
    THEN t.bin0 + Landing(t.bin0, arrival.end, arrival.hops).offBy
    ELSE t.bin0

\* A later good packet of the same transmission.
TransmissionHeard(t, arrival) ==
    LET bin0    == Anchor(t, arrival)
        landing == Landing(bin0, arrival.end, arrival.hops)
    IN  [trans   |-> [t EXCEPT !.bin0     = bin0,
                               !.anchored = t.anchored \/ arrival.ok,
                               !.lastBin  = Later(t.lastBin, landing.bin),
                               !.relayed  = t.relayed \/ (arrival.ok /\ arrival.hops > 0)],
         landing |-> Trusted(arrival, landing)]

\* A packet whose CRC failed keeps the transmission going if it rode the belt.
HeardGarbled(t, end, ok) ==
    LET landing == Landing(t.bin0, end, NIL)
    IN  IF ok /\ t.anchored /\ OnBelt(landing)
        THEN [t EXCEPT !.lastBin = Later(t.lastBin, landing.bin)]
        ELSE t

\* Which packet a garbled one is, if it is the last copy that can come.
GarbledPacket(t, end, ok) ==
    LET landing  == Landing(t.bin0, end, NIL)
        lastHops == IF t.relayed THEN 1 ELSE 0
    IN  IF ok /\ t.anchored /\ OnBelt(landing)
        THEN PacketIn(landing.bin, lastHops)
        ELSE NIL

\* Mutants of IsFirstCopy: no history; off by one.
AnyCopy(t, packet) == TRUE
SameCopyAgain(t, packet) == t.lastTaken = NIL \/ packet >= t.lastTaken

\* Is this number newer than every one taken so far?
IsFirstCopy(t, packet) == t.lastTaken = NIL \/ packet > t.lastTaken

Take(t, packet) == [t EXCEPT !.lastTaken = packet]

\* Mutant of Over: only an end packet ends a transmission.
NeverOver(t, now) == FALSE

\* EmptyBinsToEnd bins have gone by since the last that brought anything.
Over(t, now) ==
    now > BinStart(t.bin0, t.lastBin + EmptyBinsToEnd) + GuardUs + AirUs + GuardUs

-----------------------------------------------------------------------------
(* Types *)

Arrivals == [end : Int, hops : Nat, ok : BOOLEAN]

Landings == [bin : Int, offBy : Int, packet : Int \cup {NIL}]

Transmissions == [bin0 : Int, anchored : BOOLEAN, lastBin : Int,
                  lastTaken : Int \cup {NIL}, relayed : BOOLEAN]
=============================================================================
