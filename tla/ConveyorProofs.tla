---------------------------- MODULE ConveyorProofs ----------------------------
(***************************************************************************)
(* What the belt computes, for every bin length, air time and hop count:   *)
(* the lemmas FloodProofs builds on.                                       *)
(***************************************************************************)
EXTENDS Conveyor, TLAPS

-----------------------------------------------------------------------------
(* Types *)

LEMMA BeltTypes ==
    /\ GuardUs \in Nat
    /\ \A end \in Int, hops \in Nat : ConveyorStart(end, hops) \in Int
    /\ \A bin0, bin \in Int : BinStart(bin0, bin) \in Int
  BY BeltAssumption DEF GuardUs, ConveyorStart, BinStart

LEMMA UnitTypes == GuardUs \in Int /\ AirUs \in Int /\ BinUs \in Int /\ BinUs > 0
  BY BeltAssumption DEF GuardUs

LEMMA PacketInType ==
    ASSUME NEW bin \in Int, NEW hops \in Nat
    PROVE  PacketIn(bin, hops) \in Int \cup {NIL}
  BY DEF PacketIn

LEMMA LandingType ==
    ASSUME NEW bin0 \in Int, NEW end \in Int, NEW hops \in Nat \cup {NIL}
    PROVE  Landing(bin0, end, hops) \in Landings
  <1> DEFINE since == end - AirUs - GuardUs - bin0
             bin   == DivRound(since, BinUs)
  <1>1. since \in Int
    BY BeltAssumption, BeltTypes
  <1>2. bin \in Int
    BY <1>1, BeltAssumption DEF DivRound
  <1>3. since - bin * BinUs \in Int
    BY <1>1, <1>2, BeltAssumption
  <1>4. (IF hops = NIL THEN NIL ELSE PacketIn(bin, hops)) \in Int \cup {NIL}
    BY <1>2, PacketInType, BeltAssumption
  <1> QED
    BY <1>2, <1>3, <1>4 DEF Landing, Landings

LEMMA TrustedType ==
    ASSUME NEW arrival \in Arrivals, NEW landing \in Landings
    PROVE  Trusted(arrival, landing) \in Landings
  BY DEF Trusted, Landings

LEMMA StartType ==
    ASSUME NEW arrival \in Arrivals
    PROVE  /\ TransmissionStart(arrival).trans \in Transmissions
           /\ TransmissionStart(arrival).landing \in Landings
  <1> DEFINE bin0    == ConveyorStart(arrival.end, arrival.hops)
             landing == Landing(bin0, arrival.end, arrival.hops)
  <1>1. bin0 \in Int
    BY BeltTypes DEF Arrivals
  <1>2. landing \in Landings
    BY <1>1, LandingType DEF Arrivals
  <1>3. landing.bin \in Int
    BY <1>2 DEF Landings
  <1>4. Trusted(arrival, landing) \in Landings
    BY <1>2, TrustedType
  <1> QED
    BY <1>1, <1>3, <1>4 DEF TransmissionStart, Transmissions, Arrivals

LEMMA AnchorType ==
    ASSUME NEW t \in Transmissions, NEW arrival \in Arrivals
    PROVE  Anchor(t, arrival) \in Int
  <1>1. t.bin0 \in Int
    BY DEF Transmissions
  <1>2. Landing(t.bin0, arrival.end, arrival.hops).offBy \in Int
    BY <1>1, LandingType DEF Arrivals, Landings
  <1> QED
    BY <1>1, <1>2 DEF Anchor

LEMMA HeardType ==
    ASSUME NEW t \in Transmissions, NEW arrival \in Arrivals
    PROVE  /\ TransmissionHeard(t, arrival).trans \in Transmissions
           /\ TransmissionHeard(t, arrival).landing \in Landings
  <1> DEFINE bin0    == Anchor(t, arrival)
             landing == Landing(bin0, arrival.end, arrival.hops)
  <1>1. bin0 \in Int
    BY AnchorType
  <1>2. landing \in Landings
    BY <1>1, LandingType DEF Arrivals
  <1>3. Later(t.lastBin, landing.bin) \in Int
    BY <1>2 DEF Landings, Transmissions, Later
  <1>4. Trusted(arrival, landing) \in Landings
    BY <1>2, TrustedType
  <1> QED
    BY <1>1, <1>3, <1>4 DEF TransmissionHeard, Transmissions, Arrivals

LEMMA HeardGarbledType ==
    ASSUME NEW t \in Transmissions, NEW end \in Int, NEW ok \in BOOLEAN
    PROVE  HeardGarbled(t, end, ok) \in Transmissions
  <1> DEFINE landing == Landing(t.bin0, end, NIL)
  <1>1. landing \in Landings
    BY LandingType DEF Transmissions
  <1>2. Later(t.lastBin, landing.bin) \in Int
    BY <1>1 DEF Landings, Transmissions, Later
  <1> QED
    BY <1>2 DEF HeardGarbled, Transmissions

LEMMA GarbledPacketType ==
    ASSUME NEW t \in Transmissions, NEW end \in Int, NEW ok \in BOOLEAN
    PROVE  GarbledPacket(t, end, ok) \in Int \cup {NIL}
  <1> DEFINE landing == Landing(t.bin0, end, NIL)
  <1>1. landing.bin \in Int
    BY LandingType DEF Transmissions, Landings
  <1>2. (IF t.relayed THEN 1 ELSE 0) \in Nat
    OBVIOUS
  <1> QED
    BY <1>1, <1>2, PacketInType DEF GarbledPacket

-----------------------------------------------------------------------------
(* The arithmetic of the belt *)

\* A time less than half a divisor from a multiple of it rounds to that one.
LEMMA DivRoundNearest ==
    ASSUME NEW k \in Int, NEW off \in Int, NEW divisor \in Nat,
           -divisor < 2 * off, 2 * off < divisor
    PROVE  DivRound(k * divisor + off, divisor) = k
  <1>1. 0 <= off + divisor \div 2 /\ off + divisor \div 2 < divisor
    OBVIOUS
  <1>2. \A r \in Int : 0 <= r /\ r < divisor => (k * divisor + r) \div divisor = k
    OBVIOUS
  <1>3. k * divisor + off + divisor \div 2 = k * divisor + (off + divisor \div 2)
    OBVIOUS
  <1>4. off + divisor \div 2 \in Int
    OBVIOUS
  <1> QED
    BY <1>1, <1>2, <1>3, <1>4 DEF DivRound

\* A packet lands in the bin whose middle it started nearest to.
LEMMA LandingNearest ==
    ASSUME NEW bin0 \in Int, NEW end \in Int, NEW hops, NEW k \in Int, NEW off \in Int,
           end - AirUs - GuardUs - bin0 = k * BinUs + off,
           -BinUs < 2 * off, 2 * off < BinUs
    PROVE  /\ Landing(bin0, end, hops).bin = k
           /\ Landing(bin0, end, hops).offBy = off
           /\ hops # NIL => Landing(bin0, end, hops).packet = PacketIn(k, hops)
  <1>1. DivRound(k * BinUs + off, BinUs) = k
    BY DivRoundNearest, BeltAssumption
  <1>2. DivRound(end - AirUs - GuardUs - bin0, BinUs) = k
    BY <1>1
  <1>3. (end - AirUs - GuardUs - bin0) - k * BinUs = off
    BY BeltAssumption
  <1> QED
    BY <1>2, <1>3, Zenon DEF Landing

\* The copy of packet p after some hops, on a belt that started b bins after
\* the talker's: whenever its bin fits, it is the same number.
LEMMA PacketInFits ==
    ASSUME NEW p \in Int, NEW hops \in Nat, NEW b \in Int,
           PacketIn(2 * p + hops - b, hops) # NIL
    PROVE  /\ PacketIn(2 * p + hops - b, hops) \in Int
           /\ 2 * (p - PacketIn(2 * p + hops - b, hops)) = b
  BY DEF PacketIn

\* A belt starts at the talker's bin of the packet it starts from, off by as
\* much as that packet was.
LEMMA StartBelt ==
    ASSUME NEW arrival \in Arrivals, NEW p \in Nat, NEW off \in Int,
           arrival.end - AirUs - GuardUs = (2 * p + arrival.hops) * BinUs + off
    PROVE  LET start == TransmissionStart(arrival)
           IN  /\ start.trans.bin0 = (2 * p) * BinUs + off
               /\ start.trans.anchored = arrival.ok
               /\ start.trans.lastTaken = NIL
               /\ start.landing.packet = IF arrival.ok THEN 0 ELSE NIL
  <1> DEFINE bin0 == ConveyorStart(arrival.end, arrival.hops)
             landing == Landing(bin0, arrival.end, arrival.hops)
  <1>1. arrival.hops \in Nat /\ arrival.end \in Int /\ bin0 \in Int /\ arrival.hops # NIL
    BY BeltTypes, BeltAssumption DEF Arrivals
  <1>2. (2 * p + arrival.hops) * BinUs = (2 * p) * BinUs + arrival.hops * BinUs
    BY <1>1, BeltAssumption
  <1>3. bin0 = (2 * p) * BinUs + off
    BY <1>1, <1>2, UnitTypes DEF ConveyorStart
  <1>4. arrival.end - AirUs - GuardUs - bin0 = arrival.hops * BinUs + 0
    BY <1>1, <1>2, <1>3, UnitTypes
  <1>5. landing.packet = PacketIn(arrival.hops, arrival.hops)
    BY <1>1, <1>4, LandingNearest, BeltAssumption
  <1>6. PacketIn(arrival.hops, arrival.hops) = 0
    BY <1>1 DEF PacketIn
  <1>7. landing \in Landings
    BY <1>1, LandingType
  <1>8. Trusted(arrival, landing).packet = IF arrival.ok THEN 0 ELSE NIL
    BY <1>5, <1>6, <1>7 DEF Trusted, Landings
  <1> QED
    BY <1>3, <1>8 DEF TransmissionStart

\* An arrival k bins after the talker's start, off by off; a belt b bins after
\* it, late by late.
Arrives(arrival, k, off) == arrival.end - AirUs - GuardUs = k * BinUs + off
Starts(t, b, late) == t.bin0 = b * BinUs + late

\* On an anchored belt b bins after the talker's, a copy is counted from b.
LEMMA AnchoredBelt ==
    ASSUME NEW t \in Transmissions, NEW arrival \in Arrivals,
           NEW k \in Int, NEW off \in Int, NEW b \in Int, NEW late \in Int,
           t.anchored, arrival.ok, Arrives(arrival, k, off), Starts(t, b, late),
           -BinUs < 2 * (off - late), 2 * (off - late) < BinUs
    PROVE  LET heard == TransmissionHeard(t, arrival)
           IN  /\ heard.trans.bin0 = t.bin0
               /\ heard.trans.anchored
               /\ heard.landing.packet = PacketIn(k - b, arrival.hops)
  <1> DEFINE heard == TransmissionHeard(t, arrival)
  <1>1. arrival.hops \in Nat /\ arrival.end \in Int /\ t.bin0 \in Int
    BY DEF Arrivals, Transmissions
  <1>2. Anchor(t, arrival) = t.bin0
    BY DEF Anchor
  <1> DEFINE n     == k - b
             error == off - late
  <1>3. k * BinUs - b * BinUs = n * BinUs
    BY BeltAssumption
  <1>a. /\ n \in Int /\ error \in Int
        /\ -BinUs < 2 * error /\ 2 * error < BinUs
    OBVIOUS
  <1>4. arrival.end - AirUs - GuardUs - t.bin0 = n * BinUs + error
    BY <1>1, <1>3, UnitTypes DEF Arrives, Starts
  <1> HIDE DEF n, error
  <1>b. arrival.hops # NIL
    BY <1>1, BeltAssumption
  <1>5. Landing(t.bin0, arrival.end, arrival.hops).packet = PacketIn(n, arrival.hops)
    BY <1>1, <1>4, <1>a, <1>b, LandingNearest
  <1>6. heard.landing.packet = PacketIn(n, arrival.hops)
    BY <1>2, <1>5 DEF TransmissionHeard, Trusted, Transmissions
  <1>7. heard.trans.bin0 = t.bin0 /\ heard.trans.anchored
    BY <1>2 DEF TransmissionHeard, Transmissions
  <1> QED
    BY <1>6, <1>7 DEF n

\* The first trusted copy anchors a belt: from then on it is some whole
\* number of bins after the talker's, off by as much as that copy was.
LEMMA AnchoringBelt ==
    ASSUME NEW t \in Transmissions, NEW arrival \in Arrivals,
           NEW k \in Int, NEW off \in Int,
           ~t.anchored, arrival.ok, Arrives(arrival, k, off)
    PROVE  LET heard == TransmissionHeard(t, arrival)
           IN  /\ heard.trans.anchored
               /\ \E b \in Int :
                    /\ heard.trans.bin0 = b * BinUs + off
                    /\ heard.landing.packet = PacketIn(k - b, arrival.hops)
  <1> DEFINE since == arrival.end - AirUs - GuardUs - t.bin0
             bin   == DivRound(since, BinUs)
             b     == k - bin
             bin0  == Anchor(t, arrival)
  <1>1. arrival.hops \in Nat /\ arrival.end \in Int /\ t.bin0 \in Int
    BY DEF Arrivals, Transmissions
  <1>2. since \in Int
    BY <1>1, UnitTypes
  <1>3. bin \in Int
    BY <1>2, BeltAssumption DEF DivRound
  <1>4. bin0 = t.bin0 + (since - bin * BinUs)
    BY DEF Anchor, Landing
  <1> HIDE DEF bin
  <1>5. k * BinUs - bin * BinUs = b * BinUs
    BY <1>3, BeltAssumption
  <1>6. bin0 = b * BinUs + off
    BY <1>1, <1>3, <1>4, <1>5, UnitTypes DEF Arrives
  <1>7. arrival.end - AirUs - GuardUs - bin0 = bin * BinUs + 0
    BY <1>1, <1>3, <1>4, UnitTypes
  <1>8. bin0 \in Int /\ b \in Int
    BY <1>1, <1>3, AnchorType
  <1>9. Landing(bin0, arrival.end, arrival.hops).packet = PacketIn(bin, arrival.hops)
    BY <1>1, <1>3, <1>7, <1>8, LandingNearest, BeltAssumption
  <1>a. bin = k - b
    BY <1>1, <1>3
  <1> HIDE DEF b, bin0
  <1>b. TransmissionHeard(t, arrival).trans.bin0 = bin0
    BY DEF TransmissionHeard, Transmissions, bin0
  <1>c. TransmissionHeard(t, arrival).trans.anchored
    BY DEF TransmissionHeard, Transmissions
  <1>d. TransmissionHeard(t, arrival).landing.packet = PacketIn(bin, arrival.hops)
    BY <1>9 DEF TransmissionHeard, Trusted, bin0
  <1> QED
    BY <1>6, <1>8, <1>a, <1>b, <1>c, <1>d

\* A packet k bins after a belt's bin 0, off by off.
Nearest(bin0, end, k, off) == end - AirUs - GuardUs - bin0 = k * BinUs + off

LEMMA LandingOff ==
    ASSUME NEW bin0 \in Int, NEW end \in Int, NEW hops, NEW k \in Int, NEW off \in Int,
           Nearest(bin0, end, k, off), -BinUs < 2 * off, 2 * off < BinUs
    PROVE  Landing(bin0, end, hops).offBy = off
  <1>1. DivRound(k * BinUs + off, BinUs) = k
    BY DivRoundNearest, BeltAssumption
  <1>2. DivRound(end - AirUs - GuardUs - bin0, BinUs) = k
    BY <1>1 DEF Nearest
  <1>3. (end - AirUs - GuardUs - bin0) - k * BinUs = off
    BY BeltAssumption DEF Nearest
  <1> QED
    BY <1>2, <1>3, Zenon DEF Landing

\* A belt that isn't anchored, and whose time is off by less than half a bin
\* from the copy that anchors it, keeps its bin.
LEMMA AnchoringKeepsBin ==
    ASSUME NEW t \in Transmissions, NEW arrival \in Arrivals,
           NEW k \in Int, NEW off \in Int, NEW b \in Int, NEW late \in Int,
           ~t.anchored, arrival.ok, Arrives(arrival, k, off), Starts(t, b, late),
           -BinUs < 2 * (off - late), 2 * (off - late) < BinUs
    PROVE  Anchor(t, arrival) = b * BinUs + off
  <1> DEFINE n     == k - b
             error == off - late
  <1>1. arrival.hops \in Nat /\ arrival.end \in Int /\ t.bin0 \in Int
    BY DEF Arrivals, Transmissions
  <1>2. k * BinUs - b * BinUs = n * BinUs
    BY BeltAssumption
  <1>3. /\ n \in Int /\ error \in Int
        /\ -BinUs < 2 * error /\ 2 * error < BinUs
    OBVIOUS
  <1>4. arrival.end - AirUs - GuardUs - t.bin0 = n * BinUs + error
    BY <1>1, <1>2, UnitTypes DEF Arrives, Starts
  <1> HIDE DEF n, error
  <1>b. Nearest(t.bin0, arrival.end, n, error)
    BY <1>4 DEF Nearest
  <1>5. Landing(t.bin0, arrival.end, arrival.hops).offBy = error
    BY <1>1, <1>3, <1>b, LandingOff
  <1>6. Anchor(t, arrival) = t.bin0 + error
    BY <1>5 DEF Anchor
  <1>7. b * BinUs \in Int
    BY BeltAssumption
  <1> QED
    BY <1>1, <1>6, <1>7 DEF Starts, error

\* What an arrival does to a belt's time: it is anchored, or left as it was.
LEMMA HeardBelt ==
    ASSUME NEW t \in Transmissions, NEW arrival \in Arrivals
    PROVE  /\ TransmissionHeard(t, arrival).trans.bin0 = Anchor(t, arrival)
           /\ TransmissionHeard(t, arrival).trans.anchored = (t.anchored \/ arrival.ok)
           /\ t.anchored \/ ~arrival.ok => Anchor(t, arrival) = t.bin0
  BY DEF TransmissionHeard, Transmissions, Anchor

\* A skewed copy starts a belt that isn't anchored, and has no number.
LEMMA SkewedStart ==
    ASSUME NEW arrival \in Arrivals, ~arrival.ok
    PROVE  LET start == TransmissionStart(arrival)
           IN  /\ start.trans.anchored = arrival.ok
               /\ start.landing.packet = NIL
  <1> DEFINE bin0    == ConveyorStart(arrival.end, arrival.hops)
             landing == Landing(bin0, arrival.end, arrival.hops)
  <1>1. landing \in Landings
    BY LandingType, BeltTypes DEF Arrivals
  <1>2. Trusted(arrival, landing).packet = NIL
    BY <1>1 DEF Trusted, Landings
  <1> QED
    BY <1>2 DEF TransmissionStart

\* A skewed copy leaves the belt where it is, and has no number.
LEMMA SkewedOnBelt ==
    ASSUME NEW t \in Transmissions, NEW arrival \in Arrivals, ~arrival.ok
    PROVE  LET heard == TransmissionHeard(t, arrival)
           IN  /\ heard.trans.bin0 = t.bin0
               /\ heard.trans.anchored = t.anchored
               /\ heard.landing.packet = NIL
  <1>1. Anchor(t, arrival) = t.bin0
    BY DEF Anchor
  <1>2. Landing(t.bin0, arrival.end, arrival.hops) \in Landings
    BY LandingType DEF Transmissions, Arrivals
  <1> QED
    BY <1>1, <1>2 DEF TransmissionHeard, Trusted, Transmissions, Landings

\* Nothing but first_copy changes what has been taken.
LEMMA HeardKeepsTaken ==
    ASSUME NEW t \in Transmissions, NEW arrival \in Arrivals
    PROVE  TransmissionHeard(t, arrival).trans.lastTaken = t.lastTaken
  BY DEF TransmissionHeard, Transmissions
=============================================================================
