----------------------------- MODULE FloodProofs -----------------------------
(***************************************************************************)
(* Theorems about module Flood, for every network, talk, bin length and    *)
(* set of skews.                                                           *)
(***************************************************************************)
EXTENDS Flood, ConveyorProofs

-----------------------------------------------------------------------------
(* Types *)

LEMMA SentByType ==
    ASSUME TypeOK, NEW s \in Stations, NEW x \in InRange[s]
    PROVE  SentBy(x) \in Copies \cup {NIL}
  <1>1. CASE x = Talker
    <2>1. bin \in Nat /\ bin \div 2 \in Nat
      BY FloodAssumption DEF TypeOK
    <2>2. BinStart(0, bin) + GuardUs \in Int
      BY <2>1, BeltTypes, BeltAssumption DEF BinStart
    <2>3. TalkersCopy \in Copies \cup {NIL}
      BY <2>1, <2>2 DEF TalkersCopy, Copies
    <2> QED
      BY <1>1, <2>3 DEF SentBy
  <1>2. CASE x # Talker
    <2>1. x \in Repeaters
      BY <1>2, FloodAssumption
    <2> QED
      BY <1>2, <2>1 DEF SentBy, TypeOK
  <1> QED
    BY <1>1, <1>2

LEMMA ArrivalType ==
    ASSUME NEW copy \in Copies, NEW error \in Int, NEW ok \in BOOLEAN
    PROVE  /\ copy.start + AirUs + error \in Int
           /\ [end |-> copy.start + AirUs + error, hops |-> copy.hops, ok |-> ok]
                 \in Arrivals
  BY BeltAssumption DEF Copies, Arrivals

LEMMA RideType ==
    ASSUME NEW t \in Transmissions \cup {NIL}, NEW copy \in Copies,
           NEW arrival \in Arrivals
    PROVE  /\ RideConveyor(t, copy, arrival).trans \in Transmissions \cup {NIL}
           /\ RideConveyor(t, copy, arrival).landing \in Landings \cup {NIL}
           /\ RideConveyor(t, copy, arrival).landing # NIL =>
                 RideConveyor(t, copy, arrival).trans \in Transmissions
  BY StartType, HeardType, FloodAssumption DEF RideConveyor

LEMMA TakeType ==
    ASSUME NEW t \in Transmissions, NEW packet \in Int
    PROVE  Take(t, packet) \in Transmissions
  BY DEF Take, Transmissions

LEMMA RelayType ==
    ASSUME NEW copy \in Copies, NEW end \in Int
    PROVE  RelayOf(copy, end) \in Copies \cup {NIL}
  BY BeltAssumption DEF RelayOf, Copies

LEMMA TakenSoFarType ==
    ASSUME TypeOK, NEW s \in Stations
    PROVE  TakenSoFar(s) \in Seq(Taken)
  BY DEF TakenSoFar, TypeOK

LEMMA HearGoodType ==
    ASSUME TypeOK, NEW s \in Stations, NEW copy \in Copies,
           NEW error \in Int, NEW ok \in BOOLEAN, HearGood(s, copy, error, ok)
    PROVE  /\ trans' \in [Stations -> Transmissions \cup {NIL}]
           /\ taken' \in [Stations -> Seq(Taken)]
           /\ queued' \in [Repeaters -> Copies \cup {NIL}]
  <1> DEFINE end     == copy.start + AirUs + error
             arrival == [end |-> end, hops |-> copy.hops, ok |-> ok]
             ride    == RideConveyor(trans[s], copy, arrival)
             takes   == Takes(s, ride, copy)
             now     == IF takes THEN Take(ride.trans, ride.landing.packet) ELSE ride.trans
  <1>1. end \in Int /\ arrival \in Arrivals
    BY ArrivalType
  <1>2. trans[s] \in Transmissions \cup {NIL}
    BY DEF TypeOK
  <1>3. /\ ride.trans \in Transmissions \cup {NIL}
        /\ ride.landing \in Landings \cup {NIL}
        /\ ride.landing # NIL => ride.trans \in Transmissions
    BY <1>1, <1>2, RideType
  <1>4. takes => ride.landing.packet \in Int /\ ride.trans \in Transmissions
    BY <1>3 DEF Takes, Landings
  <1>5. now \in Transmissions \cup {NIL}
    BY <1>3, <1>4, TakeType
  <1>6. takes => [number |-> ride.landing.packet, packet |-> copy.packet] \in Taken
    BY <1>4 DEF Taken, Copies
  <1>7. trans' = [trans EXCEPT ![s] = IF IsEnd(copy) THEN NIL ELSE now]
    BY DEF HearGood
  <1>8. taken' = [taken EXCEPT ![s] =
                    IF takes
                    THEN Append(TakenSoFar(s), [number |-> ride.landing.packet,
                                                packet |-> copy.packet])
                    ELSE TakenSoFar(s)]
    BY DEF HearGood
  <1>9. queued' = IF takes /\ s \in Repeaters
                  THEN [queued EXCEPT ![s] = RelayOf(copy, end)]
                  ELSE queued
    BY DEF HearGood
  <1> HIDE DEF end, arrival, ride, takes, now
  <1>a. trans' \in [Stations -> Transmissions \cup {NIL}]
    BY <1>5, <1>7 DEF TypeOK
  <1>b. taken' \in [Stations -> Seq(Taken)]
    BY <1>6, <1>8, TakenSoFarType DEF TypeOK
  <1>c. queued' \in [Repeaters -> Copies \cup {NIL}]
    BY <1>1, <1>9, RelayType DEF TypeOK
  <1> QED
    BY <1>a, <1>b, <1>c

LEMMA HearGarbledType ==
    ASSUME TypeOK, NEW s \in Stations, NEW copy \in Copies,
           NEW error \in Int, NEW ok \in BOOLEAN, HearGarbled(s, copy, error, ok)
    PROVE  /\ trans' \in [Stations -> Transmissions \cup {NIL}]
           /\ taken' \in [Stations -> Seq(Taken)]
           /\ queued' \in [Repeaters -> Copies \cup {NIL}]
  <1> DEFINE end    == copy.start + AirUs + error
             t      == HeardGarbled(trans[s], end, ok)
             packet == GarbledTaken(s, t, copy, end, ok)
  <1>1. end \in Int
    BY ArrivalType
  <1>2. t \in Transmissions
    BY <1>1, HeardGarbledType DEF HearGarbled, TypeOK
  <1>3. packet \in Int \cup {NIL}
    BY <1>1, <1>2, GarbledPacketType DEF GarbledTaken
  <1>4. /\ trans' = [trans EXCEPT ![s] = IF packet = NIL THEN t ELSE Take(t, packet)]
        /\ taken' = IF packet = NIL THEN taken
                    ELSE [taken EXCEPT ![s] =
                            Append(@, [number |-> packet, packet |-> copy.packet])]
        /\ queued' = queued
    BY DEF HearGarbled
  <1>5. packet # NIL => [number |-> packet, packet |-> copy.packet] \in Taken
    BY <1>3 DEF Taken, Copies
  <1>6. packet # NIL => Take(t, packet) \in Transmissions
    BY <1>2, <1>3, TakeType
  <1> HIDE DEF end, t, packet
  <1>7. trans' \in [Stations -> Transmissions \cup {NIL}]
    BY <1>2, <1>4, <1>6 DEF TypeOK
  <1>8. taken' \in [Stations -> Seq(Taken)]
    BY <1>4, <1>5 DEF TypeOK
  <1> QED
    BY <1>4, <1>7, <1>8 DEF TypeOK

LEMMA HearType ==
    ASSUME TypeOK, NEW s \in Stations, Hear(s)
    PROVE  TypeOK'
  <1>1. PICK x \in InRange[s], ok \in BOOLEAN, error \in Int :
           /\ SentBy(x) # NIL
           /\ HearGood(s, SentBy(x), error, ok) \/ HearGarbled(s, SentBy(x), error, ok)
    BY FloodAssumption DEF Hear
  <1>2. SentBy(x) \in Copies
    BY <1>1, SentByType
  <1>3. /\ trans' \in [Stations -> Transmissions \cup {NIL}]
        /\ taken' \in [Stations -> Seq(Taken)]
        /\ queued' \in [Repeaters -> Copies \cup {NIL}]
    BY <1>1, <1>2, HearGoodType, HearGarbledType
  <1> QED
    BY <1>3 DEF Hear, TypeOK

\* What the stations, their radios' queues and their belts hold always has
\* its type: a number is taken only from a packet that has one.
THEOREM TypeCorrect == Spec => []TypeOK
  <1>1. Init => TypeOK
    BY FloodAssumption DEF Init, TypeOK
  <1>2. TypeOK /\ [Next]_vars => TypeOK'
    <2> SUFFICES ASSUME TypeOK, [Next]_vars PROVE TypeOK'
      OBVIOUS
    <2>1. CASE NextBin
      BY <2>1, FloodAssumption DEF NextBin, TypeOK
    <2>2. ASSUME NEW s \in Stations, Hear(s) PROVE TypeOK'
      BY <2>2, HearType
    <2>3. ASSUME NEW s \in Stations, Housekeeping(s) PROVE TypeOK'
      BY <2>3 DEF Housekeeping, TypeOK
    <2>4. CASE UNCHANGED vars
      BY <2>4 DEF vars, TypeOK
    <2> QED
      BY <2>1, <2>2, <2>3, <2>4 DEF Next
  <1> QED
    BY <1>1, <1>2, PTL DEF Spec

-----------------------------------------------------------------------------
(* A station's numbers only go up on one conveyor *)

\* What first_copy keeps: every number taken on the conveyor going now is at
\* most lastTaken, and each was newer than those before.
FirstCopies(t, numbered) ==
    /\ \A i, j \in DOMAIN numbered : i < j => numbered[i].number < numbered[j].number
    /\ t # NIL => \A i \in DOMAIN numbered :
                     t.lastTaken # NIL /\ numbered[i].number <= t.lastTaken

NumbersIncrease == \A s \in Stations : FirstCopies(trans[s], taken[s])

LEMMA AppendTaken ==
    ASSUME NEW numbered \in Seq(Taken), NEW entry \in Taken
    PROVE  /\ Append(numbered, entry) \in Seq(Taken)
           /\ DOMAIN Append(numbered, entry) = DOMAIN numbered \cup {Len(numbered) + 1}
           /\ \A i \in DOMAIN numbered : /\ Append(numbered, entry)[i] = numbered[i]
                                         /\ i \in Nat /\ i < Len(numbered) + 1
           /\ Append(numbered, entry)[Len(numbered) + 1] = entry
           /\ Len(numbered) + 1 \in Nat
  OBVIOUS

\* Taking a first copy keeps them so.
LEMMA TakingKeepsOrder ==
    ASSUME NEW t \in Transmissions, NEW numbered \in Seq(Taken),
           FirstCopies(t, numbered), NEW entry \in Taken,
           IsFirstCopy(t, entry.number)
    PROVE  FirstCopies(Take(t, entry.number), Append(numbered, entry))
  <1> DEFINE longer == Append(numbered, entry)
  <1>1. entry.number \in Int /\ t.lastTaken \in Int \cup {NIL}
    BY DEF Taken, Transmissions
  <1>2. \A i \in DOMAIN numbered : numbered[i].number \in Int
    <2>1. \A i \in DOMAIN numbered : numbered[i] \in Taken
      OBVIOUS
    <2> QED
      BY <2>1 DEF Taken
  <1>3. Take(t, entry.number).lastTaken = entry.number
    BY DEF Take, Transmissions
  <1>4. \A i \in DOMAIN numbered : numbered[i].number < entry.number
    BY <1>1, <1>2, FloodAssumption DEF FirstCopies, IsFirstCopy
  <1>5. \A i, j \in DOMAIN longer : i < j => longer[i].number < longer[j].number
    BY <1>4, AppendTaken DEF FirstCopies
  <1>6. entry.number # NIL
    BY <1>1, BeltAssumption
  <1>7. \A i \in DOMAIN longer : longer[i].number <= entry.number
    BY <1>1, <1>2, <1>4, AppendTaken
  <1> QED
    BY <1>3, <1>5, <1>6, <1>7 DEF FirstCopies

LEMMA NothingTaken ==
    ASSUME NEW t
    PROVE  FirstCopies(t, <<>>)
  BY DEF FirstCopies

LEMMA GoodKeepsOrder ==
    ASSUME TypeOK, NumbersIncrease, NEW s \in Stations, NEW copy \in Copies,
           NEW error \in Int, NEW ok \in BOOLEAN, HearGood(s, copy, error, ok)
    PROVE  NumbersIncrease'
  <1> DEFINE end     == copy.start + AirUs + error
             arrival == [end |-> end, hops |-> copy.hops, ok |-> ok]
             ride    == RideConveyor(trans[s], copy, arrival)
             takes   == Takes(s, ride, copy)
             now     == IF takes THEN Take(ride.trans, ride.landing.packet) ELSE ride.trans
             entry   == [number |-> ride.landing.packet, packet |-> copy.packet]
             after   == IF takes THEN Append(TakenSoFar(s), entry) ELSE TakenSoFar(s)
  <1>1. arrival \in Arrivals
    BY ArrivalType
  <1>2. trans[s] \in Transmissions \cup {NIL} /\ TakenSoFar(s) \in Seq(Taken)
    BY TakenSoFarType DEF TypeOK
  <1>3. /\ ride.trans \in Transmissions \cup {NIL}
        /\ ride.landing \in Landings \cup {NIL}
        /\ ride.landing # NIL => ride.trans \in Transmissions
    BY <1>1, <1>2, RideType
  <1>4. FirstCopies(ride.trans, TakenSoFar(s))
    <2>1. CASE trans[s] = NIL
      BY <2>1, NothingTaken DEF TakenSoFar
    <2>2. CASE trans[s] # NIL
      <3>1. ride.trans.lastTaken = trans[s].lastTaken
        BY <1>1, <1>2, <2>2, HeardKeepsTaken DEF RideConveyor
      <3> QED
        BY <2>2, <3>1 DEF NumbersIncrease, FirstCopies, TakenSoFar
    <2> QED
      BY <2>1, <2>2
  <1>5. FirstCopies(now, after)
    <2>1. CASE takes
      <3>1. /\ ride.trans \in Transmissions
            /\ ride.landing.packet \in Int
            /\ IsFirstCopy(ride.trans, ride.landing.packet)
        BY <1>3, <2>1 DEF Takes, Landings
      <3>2. entry \in Taken /\ entry.number = ride.landing.packet
        BY <3>1 DEF Taken, Copies
      <3> QED
        BY <1>2, <1>4, <2>1, <3>1, <3>2, TakingKeepsOrder
    <2>2. CASE ~takes
      BY <1>4, <2>2
    <2> QED
      BY <2>1, <2>2
  <1>6. FirstCopies(NIL, after)
    BY <1>5 DEF FirstCopies
  <1>7. trans' = [trans EXCEPT ![s] = IF IsEnd(copy) THEN NIL ELSE now]
    BY DEF HearGood
  <1>8. taken' = [taken EXCEPT ![s] = after]
    BY DEF HearGood
  <1> HIDE DEF now, after
  <1>9. FirstCopies(trans'[s], taken'[s])
    BY <1>5, <1>6, <1>7, <1>8 DEF TypeOK
  <1>a. \A q \in Stations \ {s} : trans'[q] = trans[q] /\ taken'[q] = taken[q]
    BY <1>7, <1>8 DEF TypeOK
  <1> QED
    BY <1>9, <1>a DEF NumbersIncrease

LEMMA GarbledKeepsOrder ==
    ASSUME TypeOK, NumbersIncrease, NEW s \in Stations, NEW copy \in Copies,
           NEW error \in Int, NEW ok \in BOOLEAN, HearGarbled(s, copy, error, ok)
    PROVE  NumbersIncrease'
  <1> DEFINE end    == copy.start + AirUs + error
             t      == HeardGarbled(trans[s], end, ok)
             packet == GarbledTaken(s, t, copy, end, ok)
             entry  == [number |-> packet, packet |-> copy.packet]
  <1>1. end \in Int /\ trans[s] \in Transmissions /\ taken[s] \in Seq(Taken)
    BY ArrivalType DEF HearGarbled, TypeOK
  <1>2. t \in Transmissions /\ t.lastTaken = trans[s].lastTaken
    BY <1>1, HeardGarbledType DEF HeardGarbled, Transmissions
  <1>3. FirstCopies(t, taken[s])
    BY <1>1, <1>2, FloodAssumption DEF NumbersIncrease, FirstCopies
  <1>4. packet # NIL => packet \in Int /\ IsFirstCopy(t, packet)
    BY <1>1, <1>2, GarbledPacketType DEF GarbledTaken
  <1>5. packet # NIL => entry \in Taken /\ entry.number = packet
    BY <1>4 DEF Taken, Copies
  <1>6. packet # NIL => FirstCopies(Take(t, packet), Append(taken[s], entry))
    BY <1>1, <1>2, <1>3, <1>4, <1>5, TakingKeepsOrder
  <1>7. /\ trans' = [trans EXCEPT ![s] = IF packet = NIL THEN t ELSE Take(t, packet)]
        /\ taken' = IF packet = NIL THEN taken
                    ELSE [taken EXCEPT ![s] = Append(@, entry)]
    BY DEF HearGarbled
  <1> HIDE DEF t, packet, entry
  <1>8. FirstCopies(trans'[s], taken'[s])
    BY <1>3, <1>6, <1>7 DEF TypeOK
  <1>9. \A q \in Stations \ {s} : trans'[q] = trans[q] /\ taken'[q] = taken[q]
    BY <1>7 DEF TypeOK
  <1> QED
    BY <1>8, <1>9 DEF NumbersIncrease

\* On one conveyor a station never takes a number twice, nor one older than
\* one it has taken: whatever is lost, skewed or garbled, in every network.
THEOREM NumbersOnlyIncrease == Spec => []NumbersIncrease
  <1>1. Init => NumbersIncrease
    BY NothingTaken DEF Init, NumbersIncrease
  <1>2. TypeOK /\ NumbersIncrease /\ [Next]_vars => NumbersIncrease'
    <2> SUFFICES ASSUME TypeOK, NumbersIncrease, [Next]_vars PROVE NumbersIncrease'
      OBVIOUS
    <2>1. CASE NextBin
      BY <2>1 DEF NextBin, NumbersIncrease
    <2>2. ASSUME NEW s \in Stations, Hear(s) PROVE NumbersIncrease'
      <3>1. PICK x \in InRange[s], ok \in BOOLEAN, error \in Int :
               /\ SentBy(x) # NIL
               /\ HearGood(s, SentBy(x), error, ok) \/ HearGarbled(s, SentBy(x), error, ok)
        BY <2>2, FloodAssumption DEF Hear
      <3>2. SentBy(x) \in Copies
        BY <3>1, SentByType
      <3> QED
        BY <3>1, <3>2, GoodKeepsOrder, GarbledKeepsOrder
    <2>3. ASSUME NEW s \in Stations, Housekeeping(s) PROVE NumbersIncrease'
      BY <2>3 DEF Housekeeping, NumbersIncrease, FirstCopies, TypeOK
    <2>4. CASE UNCHANGED vars
      BY <2>4 DEF vars, NumbersIncrease
    <2> QED
      BY <2>1, <2>2, <2>3, <2>4 DEF Next
  <1> QED
    BY <1>1, <1>2, TypeCorrect, PTL DEF Spec

-----------------------------------------------------------------------------
(* A station's numbers are the talker's, shifted *)

\* How far a copy's trusted end time may be from its belt, at most: each hop
\* adds one error.
Worst(maxError) == (MaxHops + 1) * maxError

\* A copy on the air is in the middle of its bin but for an error per hop.
OnTime(copy, maxError) ==
    \E off \in Int :
        /\ copy.start - GuardUs = (2 * copy.packet + copy.hops) * BinUs + off
        /\ -(copy.hops * maxError) <= off /\ off <= copy.hops * maxError
        /\ copy.hops <= MaxHops

\* A belt b bins after the talker's, and every number taken counts from there.
BeltAt(t, numbered, b, maxError) ==
    /\ \E late \in Int : /\ t.bin0 = b * BinUs + late
                         /\ -Worst(maxError) <= late /\ late <= Worst(maxError)
    /\ \A i \in DOMAIN numbered : 2 * (numbered[i].packet - numbered[i].number) = b

\* Until a belt is anchored, nothing is taken from it.
BeltAfter(t, numbered, maxError) ==
    IF t.anchored THEN \E b \in Int : BeltAt(t, numbered, b, maxError)
    ELSE numbered = <<>>

\* Each number a station took is off the talker's by the same half number of
\* bins.
SameShift(numbered) ==
    \E b \in Int : \A i \in DOMAIN numbered :
        2 * (numbered[i].packet - numbered[i].number) = b

NumberingInv(maxError) ==
    /\ \A r \in Repeaters : /\ sending[r] # NIL => OnTime(sending[r], maxError)
                            /\ queued[r] # NIL => OnTime(queued[r], maxError)
    /\ \A s \in Stations : /\ SameShift(taken[s])
                           /\ trans[s] # NIL => BeltAfter(trans[s], taken[s], maxError)

\* Trusted times are off by less than an eighth of a bin over all the hops.
SmallErrors(maxError) ==
    /\ maxError \in Nat
    /\ \A error \in TimeErrors : -maxError <= error /\ error <= maxError
    /\ 4 * Worst(maxError) < BinUs

LEMMA OnTimeDirect ==
    ASSUME NEW p \in Nat, NEW start \in Int, NEW maxError \in Nat,
           start - GuardUs = (2 * p) * BinUs
    PROVE  OnTime([packet |-> p, hops |-> 0, start |-> start], maxError)
  <1>1. start - GuardUs = (2 * p + 0) * BinUs + 0
    BY UnitTypes
  <1>2. -(0 * maxError) <= 0 /\ 0 <= 0 * maxError /\ 0 <= MaxHops
    BY FloodAssumption
  <1> QED
    BY <1>1, <1>2 DEF OnTime

LEMMA OnTimeTalker ==
    ASSUME TypeOK, NEW maxError \in Nat, TalkersCopy # NIL
    PROVE  OnTime(TalkersCopy, maxError)
  <1> DEFINE p     == bin \div 2
             start == BinStart(0, bin) + GuardUs
  <1>1. bin \in Nat /\ p \in Nat /\ 2 * p = bin
    BY FloodAssumption DEF TalkersCopy, TypeOK
  <1>2. start \in Int /\ start - GuardUs = bin * BinUs
    BY <1>1, UnitTypes DEF BinStart
  <1>3. TalkersCopy = [packet |-> p, hops |-> 0, start |-> start]
    BY DEF TalkersCopy
  <1> HIDE DEF p, start
  <1>4. start - GuardUs = (2 * p) * BinUs
    BY <1>1, <1>2, Zenon
  <1>5. OnTime([packet |-> p, hops |-> 0, start |-> start], maxError)
    BY <1>1, <1>2, <1>4, OnTimeDirect
  <1> QED
    BY <1>3, <1>5, Zenon

\* A trusted arrival is off by at most Worst, and its relay is on time.
LEMMA OnTimeArrival ==
    ASSUME NEW maxError \in Nat, NEW copy \in Copies, OnTime(copy, maxError),
           NEW error \in Int, -maxError <= error, error <= maxError
    PROVE  /\ \E off \in Int :
               /\ (copy.start + AirUs + error) - AirUs - GuardUs
                     = (2 * copy.packet + copy.hops) * BinUs + off
               /\ -Worst(maxError) <= off /\ off <= Worst(maxError)
           /\ LET relay == RelayOf(copy, copy.start + AirUs + error)
              IN  relay # NIL => OnTime(relay, maxError)
  <1>1. copy.packet \in Nat /\ copy.hops \in Nat /\ copy.start \in Int
    BY DEF Copies
  <1>2. PICK off \in Int :
          /\ copy.start - GuardUs = (2 * copy.packet + copy.hops) * BinUs + off
          /\ -(copy.hops * maxError) <= off /\ off <= copy.hops * maxError
          /\ copy.hops <= MaxHops
    BY DEF OnTime
  <1>3. (copy.hops + 1) * maxError = copy.hops * maxError + maxError
    BY <1>1
  <1>4. (copy.hops + 1) * maxError <= Worst(maxError)
    BY <1>1, <1>2, FloodAssumption DEF Worst
  <1>5. /\ copy.hops * maxError \in Int /\ (copy.hops + 1) * maxError \in Int
        /\ Worst(maxError) \in Int
    BY <1>1, FloodAssumption DEF Worst
  <1>6. -((copy.hops + 1) * maxError) <= off + error /\ off + error <= (copy.hops + 1) * maxError
    BY <1>2, <1>3, <1>5
  <1>7. (2 * copy.packet + copy.hops) * BinUs \in Int
    BY <1>1, UnitTypes
  <1>8. (copy.start + AirUs + error) - AirUs - GuardUs
           = (2 * copy.packet + copy.hops) * BinUs + (off + error)
    BY <1>1, <1>2, <1>7, UnitTypes
  <1>9. -Worst(maxError) <= off + error /\ off + error <= Worst(maxError)
    BY <1>4, <1>5, <1>6
  <1>a. ASSUME copy.hops < MaxHops
        PROVE  OnTime([packet |-> copy.packet, hops |-> copy.hops + 1,
                       start |-> (copy.start + AirUs + error) - AirUs + BinUs], maxError)
    <2>1. (2 * copy.packet + (copy.hops + 1)) * BinUs
             = (2 * copy.packet + copy.hops) * BinUs + BinUs
      BY <1>1, UnitTypes
    <2> DEFINE slot == (2 * copy.packet + copy.hops) * BinUs
    <2>5. /\ slot \in Int
          /\ (copy.start + AirUs + error) - AirUs - GuardUs = slot + (off + error)
      BY <1>7, <1>8
    <2> HIDE DEF slot
    <2>6. ((copy.start + AirUs + error) - AirUs + BinUs) - GuardUs = slot + BinUs + (off + error)
      BY <1>1, <2>5, UnitTypes
    <2>2. ((copy.start + AirUs + error) - AirUs + BinUs) - GuardUs
             = (2 * copy.packet + (copy.hops + 1)) * BinUs + (off + error)
      BY <2>1, <2>6 DEF slot
    <2>3. copy.hops + 1 <= MaxHops
      BY <1>1, <1>a, FloodAssumption
    <2>4. off + error \in Int
      OBVIOUS
    <2> QED
      BY <1>6, <2>2, <2>3, <2>4 DEF OnTime
  <1>b. copy.hops < MaxHops \/ copy.hops >= MaxHops
    BY <1>1, FloodAssumption
  <1>c. off + error \in Int
    OBVIOUS
  <1> QED
    BY <1>8, <1>9, <1>a, <1>b, <1>c DEF RelayOf

\* Adding an entry numbered from the same belt keeps the shift.
LEMMA AppendShift ==
    ASSUME NEW numbered \in Seq(Taken), NEW entry \in Taken, NEW b \in Int,
           \A i \in DOMAIN numbered : 2 * (numbered[i].packet - numbered[i].number) = b,
           2 * (entry.packet - entry.number) = b
    PROVE  \A i \in DOMAIN Append(numbered, entry) :
              2 * (Append(numbered, entry)[i].packet - Append(numbered, entry)[i].number) = b
  BY AppendTaken

\* What a good packet's ride does to a station's belt: it stays a whole number
\* of bins after the talker's, and a number it gives counts from there.
LEMMA RideBelt ==
    ASSUME NEW maxError, SmallErrors(maxError),
           NEW t \in Transmissions \cup {NIL}, NEW copy \in Copies,
           NEW arrival \in Arrivals, NEW numbered \in Seq(Taken),
           t # NIL => BeltAfter(t, numbered, maxError),
           t = NIL => numbered = <<>>,
           arrival.hops = copy.hops,
           arrival.ok =>
              \E off \in Int :
                 /\ arrival.end - AirUs - GuardUs = (2 * copy.packet + copy.hops) * BinUs + off
                 /\ -Worst(maxError) <= off /\ off <= Worst(maxError),
           RideConveyor(t, copy, arrival).trans # NIL
    PROVE  LET ride == RideConveyor(t, copy, arrival)
           IN  \/ /\ ~ride.trans.anchored
                  /\ ride.landing.packet = NIL
                  /\ numbered = <<>>
               \/ /\ ride.trans.anchored
                  /\ \E b \in Int :
                       /\ BeltAt(ride.trans, numbered, b, maxError)
                       /\ ride.landing.packet # NIL =>
                            2 * (copy.packet - ride.landing.packet) = b
  <1> DEFINE ride == RideConveyor(t, copy, arrival)
             Off(off) == /\ arrival.end - AirUs - GuardUs
                               = (2 * copy.packet + arrival.hops) * BinUs + off
                         /\ -Worst(maxError) <= off /\ off <= Worst(maxError)
  <1>1. copy.packet \in Nat /\ arrival.hops \in Nat /\ arrival.ok \in BOOLEAN
    BY DEF Copies, Arrivals
  <1>2. maxError \in Nat /\ Worst(maxError) \in Nat /\ 4 * Worst(maxError) < BinUs
    BY FloodAssumption DEF SmallErrors, Worst
  <1>3. arrival.ok => \E off \in Int : Off(off)
    OBVIOUS
  <1>4. \A b \in Int :
           PacketIn(2 * copy.packet + arrival.hops - b, arrival.hops) # NIL =>
              2 * (copy.packet - PacketIn(2 * copy.packet + arrival.hops - b, arrival.hops)) = b
    BY <1>1, PacketInFits
  <1>5. CASE t = NIL
    <2>1. ride = TransmissionStart(arrival)
      BY <1>5 DEF RideConveyor
    <2>2. numbered = <<>>
      BY <1>5
    <2>3. CASE ~arrival.ok
      <3>1. ~ride.trans.anchored /\ ride.landing.packet = NIL
        BY <1>1, <2>1, <2>3, SkewedStart
      <3> QED
        BY <2>2, <3>1
    <2>4. CASE arrival.ok
      <3>1. PICK off \in Int : Off(off)
        BY <1>3, <2>4
      <3>2. /\ ride.trans.bin0 = (2 * copy.packet) * BinUs + off
            /\ ride.trans.anchored
            /\ ride.landing.packet = 0
        BY <1>1, <2>1, <2>4, <3>1, StartBelt
      <3>3. BeltAt(ride.trans, numbered, 2 * copy.packet, maxError)
        BY <2>2, <3>1, <3>2 DEF BeltAt
      <3> QED
        BY <1>1, <3>2, <3>3
    <2> QED
      BY <2>3, <2>4
  <1>6. CASE t # NIL
    <2>1. t \in Transmissions /\ ride = TransmissionHeard(t, arrival)
      BY <1>6 DEF RideConveyor
    <2>2. BeltAfter(t, numbered, maxError) /\ t.anchored \in BOOLEAN
      BY <1>6, <2>1 DEF Transmissions
    <2>3. CASE ~arrival.ok
      <3>1. /\ ride.trans.bin0 = t.bin0
            /\ ride.trans.anchored = t.anchored
            /\ ride.landing.packet = NIL
        BY <2>1, <2>3, SkewedOnBelt
      <3>2. CASE t.anchored
        <4>1. PICK b \in Int : BeltAt(t, numbered, b, maxError)
          BY <2>2, <3>2 DEF BeltAfter
        <4>2. BeltAt(ride.trans, numbered, b, maxError)
          BY <3>1, <4>1 DEF BeltAt
        <4> QED
          BY <3>1, <3>2, <4>2
      <3>3. CASE ~t.anchored
        BY <2>2, <3>1, <3>3 DEF BeltAfter
      <3> QED
        BY <2>2, <3>2, <3>3
    <2>4. CASE arrival.ok /\ t.anchored
      <3>1. PICK off \in Int : Off(off)
        BY <1>3, <2>4
      <3>2. PICK b \in Int : BeltAt(t, numbered, b, maxError)
        BY <2>2, <2>4 DEF BeltAfter
      <3>3. PICK late \in Int : /\ t.bin0 = b * BinUs + late
                                /\ -Worst(maxError) <= late /\ late <= Worst(maxError)
        BY <3>2 DEF BeltAt
      <3>4. -BinUs < 2 * (off - late) /\ 2 * (off - late) < BinUs
        BY <1>2, <3>1, <3>3, UnitTypes
      <3>5. /\ ride.trans.bin0 = t.bin0
            /\ ride.trans.anchored
            /\ ride.landing.packet
                 = PacketIn(2 * copy.packet + arrival.hops - b, arrival.hops)
        <4> DEFINE k == 2 * copy.packet + arrival.hops
        <4>1. k \in Int /\ Arrives(arrival, k, off) /\ Starts(t, b, late)
          BY <1>1, <3>1, <3>3 DEF Arrives, Starts
        <4>2. k = 2 * copy.packet + arrival.hops
          OBVIOUS
        <4> HIDE DEF k
        <4>3. LET heard == TransmissionHeard(t, arrival)
              IN  /\ heard.trans.bin0 = t.bin0
                  /\ heard.trans.anchored
                  /\ heard.landing.packet = PacketIn(k - b, arrival.hops)
          BY <2>1, <2>4, <3>4, <4>1, AnchoredBelt, SMTT(60)
        <4>4. k - b = 2 * copy.packet + arrival.hops - b
          BY <1>1, <4>1, <4>2
        <4> QED
          BY <2>1, <4>3, <4>4, SMTT(30)
      <3>6. BeltAt(ride.trans, numbered, b, maxError)
        BY <3>2, <3>5 DEF BeltAt
      <3> QED
        BY <1>4, <3>5, <3>6
    <2>5. CASE arrival.ok /\ ~t.anchored
      <3>1. PICK off \in Int : Off(off)
        BY <1>3, <2>5
      <3> DEFINE k == 2 * copy.packet + arrival.hops
      <3>a. k \in Int /\ k = 2 * copy.packet + arrival.hops /\ Arrives(arrival, k, off)
        BY <1>1, <3>1 DEF Arrives
      <3> HIDE DEF k
      <3>b. LET heard == TransmissionHeard(t, arrival)
            IN  /\ heard.trans.anchored
                /\ \E b \in Int :
                     /\ heard.trans.bin0 = b * BinUs + off
                     /\ heard.landing.packet = PacketIn(k - b, arrival.hops)
        BY <2>1, <2>5, <3>a, AnchoringBelt, SMTT(60)
      <3>2. ride.trans.anchored
        BY <2>1, <3>b, Zenon
      <3>c. PICK b \in Int :
              /\ ride.trans.bin0 = b * BinUs + off
              /\ ride.landing.packet = PacketIn(k - b, arrival.hops)
        BY <2>1, <3>b, Zenon
      <3>d. k - b = 2 * copy.packet + arrival.hops - b
        BY <1>1, <3>a
      <3>3. /\ ride.trans.bin0 = b * BinUs + off
            /\ ride.landing.packet
                 = PacketIn(2 * copy.packet + arrival.hops - b, arrival.hops)
        BY <3>c, <3>d, Zenon
      <3>4. numbered = <<>>
        BY <2>2, <2>5 DEF BeltAfter
      <3>5. BeltAt(ride.trans, numbered, b, maxError)
        BY <3>1, <3>3, <3>4 DEF BeltAt
      <3> QED
        BY <1>4, <3>2, <3>3, <3>5
    <2> QED
      BY <1>1, <2>2, <2>3, <2>4, <2>5
  <1> QED
    BY <1>5, <1>6

\* A good packet keeps every belt in step and every relay on time.
LEMMA GoodKeepsNumbering ==
    ASSUME TypeOK, NEW maxError, SmallErrors(maxError), NumberingInv(maxError),
           NEW s \in Stations, NEW copy \in Copies, OnTime(copy, maxError),
           NEW error \in Int, NEW ok \in BOOLEAN, ok => error \in TimeErrors,
           HearGood(s, copy, error, ok)
    PROVE  /\ \A q \in Stations : /\ SameShift(taken'[q])
                                  /\ trans'[q] # NIL => BeltAfter(trans'[q], taken'[q], maxError)
           /\ \A r \in Repeaters : queued'[r] # NIL => OnTime(queued'[r], maxError)
  <1> DEFINE end     == copy.start + AirUs + error
             arrival == [end |-> end, hops |-> copy.hops, ok |-> ok]
             ride    == RideConveyor(trans[s], copy, arrival)
             takes   == Takes(s, ride, copy)
             now     == IF takes THEN Take(ride.trans, ride.landing.packet) ELSE ride.trans
             entry   == [number |-> ride.landing.packet, packet |-> copy.packet]
             before  == TakenSoFar(s)
             after   == IF takes THEN Append(before, entry) ELSE before
  <1>1. arrival \in Arrivals /\ maxError \in Nat
    BY ArrivalType DEF SmallErrors
  <1>2. trans[s] \in Transmissions \cup {NIL} /\ before \in Seq(Taken)
    BY TakenSoFarType DEF TypeOK
  <1>3. /\ ride.trans \in Transmissions \cup {NIL}
        /\ ride.landing \in Landings \cup {NIL}
        /\ ride.landing # NIL => ride.trans \in Transmissions
    BY <1>1, <1>2, RideType
  <1>4. ok => -maxError <= error /\ error <= maxError
    BY DEF SmallErrors
  <1>5. ok => /\ \E off \in Int :
                   /\ end - AirUs - GuardUs = (2 * copy.packet + copy.hops) * BinUs + off
                   /\ -Worst(maxError) <= off /\ off <= Worst(maxError)
              /\ RelayOf(copy, end) # NIL => OnTime(RelayOf(copy, end), maxError)
    BY <1>1, <1>4, OnTimeArrival
  <1>6. /\ trans[s] # NIL => BeltAfter(trans[s], before, maxError)
        /\ trans[s] = NIL => before = <<>>
    BY DEF NumberingInv, TakenSoFar
  <1>7. takes => /\ entry \in Taken
                 /\ ride.trans \in Transmissions /\ ride.landing.packet \in Int
                 /\ ride.landing.packet # NIL
    BY <1>3 DEF Takes, Landings, Taken, Copies
  <1>8. SameShift(after) /\ (now # NIL => BeltAfter(now, after, maxError))
    <2>1. CASE ride.trans = NIL
      <3>1. ~takes
        BY <1>7, <2>1, FloodAssumption
      <3>2. before = <<>>
        BY <1>1, <1>2, <1>6, <2>1, HeardType, FloodAssumption DEF RideConveyor
      <3> QED
        BY <2>1, <3>1, <3>2 DEF SameShift
    <2>2. CASE ride.trans # NIL
      <3>1. \/ /\ ~ride.trans.anchored
               /\ ride.landing.packet = NIL
               /\ before = <<>>
            \/ /\ ride.trans.anchored
               /\ \E b \in Int :
                    /\ BeltAt(ride.trans, before, b, maxError)
                    /\ ride.landing.packet # NIL =>
                         2 * (copy.packet - ride.landing.packet) = b
        BY <1>1, <1>2, <1>5, <1>6, <2>2, RideBelt
      <3>2. CASE ~ride.trans.anchored /\ ride.landing.packet = NIL /\ before = <<>>
        BY <1>7, <3>2 DEF SameShift, BeltAfter
      <3>3. CASE ride.trans.anchored
        <4>1. PICK b \in Int :
                /\ BeltAt(ride.trans, before, b, maxError)
                /\ ride.landing.packet # NIL => 2 * (copy.packet - ride.landing.packet) = b
          BY <3>1, <3>3
        <4>2. CASE takes
          <5>1. now.bin0 = ride.trans.bin0 /\ now.anchored = ride.trans.anchored
            BY <1>7, <4>2 DEF Take, Transmissions
          <5>2. \A i \in DOMAIN after : 2 * (after[i].packet - after[i].number) = b
            BY <1>2, <1>7, <4>1, <4>2, AppendShift DEF BeltAt
          <5>3. BeltAt(now, after, b, maxError)
            BY <4>1, <5>1, <5>2 DEF BeltAt
          <5> HIDE DEF now, after
          <5> QED
            BY <3>3, <5>1, <5>2, <5>3 DEF SameShift, BeltAfter
        <4>3. CASE ~takes
          <5>1. now = ride.trans /\ after = before
            BY <4>3
          <5> HIDE DEF now, after, ride
          <5> QED
            BY <3>3, <4>1, <5>1 DEF SameShift, BeltAfter, BeltAt
        <4> QED
          BY <4>2, <4>3
      <3> QED
        BY <3>1, <3>2, <3>3
    <2> QED
      BY <2>1, <2>2
  <1>9. /\ trans' = [trans EXCEPT ![s] = IF IsEnd(copy) THEN NIL ELSE now]
        /\ taken' = [taken EXCEPT ![s] = after]
    BY DEF HearGood
  <1>a. queued' = IF takes /\ s \in Repeaters
                  THEN [queued EXCEPT ![s] = RelayOf(copy, end)]
                  ELSE queued
    BY DEF HearGood
  <1>b. takes => ok
    <2>1. ASSUME takes, ~ok PROVE FALSE
      <3>1. ride.landing.packet = NIL
        BY <1>1, <1>2, <2>1, SkewedStart, SkewedOnBelt DEF RideConveyor, Takes
      <3> QED
        BY <1>7, <2>1, <3>1
    <2> QED
      BY <2>1
  <1> HIDE DEF now, after, takes, end
  <1>c. \A q \in Stations : /\ SameShift(taken'[q])
                            /\ trans'[q] # NIL => BeltAfter(trans'[q], taken'[q], maxError)
    BY <1>8, <1>9 DEF TypeOK, NumberingInv
  <1>d. \A r \in Repeaters : queued'[r] # NIL => OnTime(queued'[r], maxError)
    BY <1>5, <1>a, <1>b DEF TypeOK, NumberingInv
  <1> QED
    BY <1>c, <1>d

\* A garbled packet that isn't played moves no belt and has no number.
LEMMA GarbledKeepsNumbering ==
    ASSUME TypeOK, NEW maxError, NumberingInv(maxError), ~PlayGarbled,
           NEW s \in Stations, NEW copy \in Copies,
           NEW error \in Int, NEW ok \in BOOLEAN, HearGarbled(s, copy, error, ok)
    PROVE  /\ \A q \in Stations : /\ SameShift(taken'[q])
                                  /\ trans'[q] # NIL => BeltAfter(trans'[q], taken'[q], maxError)
           /\ queued' = queued
  <1> DEFINE end == copy.start + AirUs + error
             t   == HeardGarbled(trans[s], end, ok)
  <1>1. trans[s] \in Transmissions
    BY DEF HearGarbled, TypeOK
  <1>2. GarbledTaken(s, t, copy, end, ok) = NIL
    BY DEF GarbledTaken
  <1>3. t.bin0 = trans[s].bin0 /\ t.anchored = trans[s].anchored
    BY <1>1 DEF HeardGarbled, Transmissions
  <1>4. trans' = [trans EXCEPT ![s] = t] /\ taken' = taken /\ queued' = queued
    BY <1>2 DEF HearGarbled
  <1>5. BeltAfter(t, taken[s], maxError)
    BY <1>1, <1>3, FloodAssumption DEF NumberingInv, BeltAfter, BeltAt
  <1> HIDE DEF t
  <1> QED
    BY <1>4, <1>5 DEF TypeOK, NumberingInv

LEMMA NumberingStep ==
    ASSUME NEW maxError, SmallErrors(maxError), ~PlayGarbled,
           TypeOK, NumberingInv(maxError), [Next]_vars
    PROVE  NumberingInv(maxError)'
  <1>1. CASE NextBin
    BY <1>1 DEF NextBin, NumberingInv
  <1>2. ASSUME NEW s \in Stations, Hear(s) PROVE NumberingInv(maxError)'
    <2>1. PICK x \in InRange[s], ok \in BOOLEAN, error \in Int :
             /\ SentBy(x) # NIL
             /\ ok => error \in TimeErrors
             /\ HearGood(s, SentBy(x), error, ok) \/ HearGarbled(s, SentBy(x), error, ok)
      BY <1>2, FloodAssumption DEF Hear
    <2>2. SentBy(x) \in Copies
      BY <2>1, SentByType
    <2>3. OnTime(SentBy(x), maxError)
      <3>1. CASE x = Talker
        BY <2>1, <3>1, OnTimeTalker DEF SentBy, SmallErrors
      <3>2. CASE x # Talker
        <4>1. x \in Repeaters
          BY <3>2, FloodAssumption
        <4> QED
          BY <2>1, <3>2, <4>1 DEF SentBy, NumberingInv
      <3> QED
        BY <3>1, <3>2
    <2>4. \A q \in Stations : SameShift(taken'[q])
      BY <2>1, <2>2, <2>3, GoodKeepsNumbering, GarbledKeepsNumbering
    <2>5. \A q \in Stations :
             trans'[q] # NIL => BeltAfter(trans'[q], taken'[q], maxError)
      BY <2>1, <2>2, <2>3, GoodKeepsNumbering, GarbledKeepsNumbering
    <2>6. \A r \in Repeaters : queued'[r] # NIL => OnTime(queued'[r], maxError)
      <3>1. CASE HearGood(s, SentBy(x), error, ok)
        BY <2>1, <2>2, <2>3, <3>1, GoodKeepsNumbering
      <3>2. CASE HearGarbled(s, SentBy(x), error, ok)
        <4>1. queued' = queued
          BY <2>2, <3>2, GarbledKeepsNumbering
        <4> QED
          BY <4>1 DEF NumberingInv
      <3> QED
        BY <2>1, <3>1, <3>2
    <2>7. sending' = sending
      BY <1>2 DEF Hear
    <2> QED
      BY <2>4, <2>5, <2>6, <2>7 DEF NumberingInv
  <1>3. ASSUME NEW s \in Stations, Housekeeping(s) PROVE NumberingInv(maxError)'
    <2>1. \A q \in Stations : trans'[q] = NIL \/ trans'[q] = trans[q]
      BY <1>3 DEF Housekeeping, TypeOK
    <2> QED
      BY <1>3, <2>1 DEF Housekeeping, NumberingInv
  <1>4. CASE UNCHANGED vars
    BY <1>4 DEF vars, NumberingInv
  <1> QED
    BY <1>1, <1>2, <1>3, <1>4 DEF Next

\* Whichever copies a station hears, through however many repeaters, and
\* whichever its belt started from, its numbers are the talker's, shifted: for
\* every network, talk and set of skews, provided that trusted times are off by
\* less than an eighth of a bin over all the hops, and that garbled packets
\* are not played (their hops are a guess).
THEOREM NumberingCorrect ==
    ASSUME NEW maxError, SmallErrors(maxError), ~PlayGarbled
    PROVE  Spec => []NumberingAgrees
  <1>1. Init => NumberingInv(maxError)
    BY DEF Init, NumberingInv, SameShift
  <1>2. TypeOK /\ NumberingInv(maxError) /\ [Next]_vars => NumberingInv(maxError)'
    BY NumberingStep
  <1>3. TypeOK /\ NumberingInv(maxError) => NumberingAgrees
    <2> SUFFICES ASSUME TypeOK, NumberingInv(maxError), NEW s \in Stations,
                        NEW i \in DOMAIN taken[s], NEW j \in DOMAIN taken[s]
                 PROVE  taken[s][j].number - taken[s][i].number
                           = taken[s][j].packet - taken[s][i].packet
      BY DEF NumberingAgrees
    <2>1. PICK b \in Int : \A k \in DOMAIN taken[s] :
             2 * (taken[s][k].packet - taken[s][k].number) = b
      BY DEF NumberingInv, SameShift
    <2>2. taken[s][i] \in Taken /\ taken[s][j] \in Taken
      BY DEF TypeOK
    <2> QED
      BY <2>1, <2>2 DEF Taken
  <1> QED
    BY <1>1, <1>2, <1>3, TypeCorrect, PTL DEF Spec

\* Nothing is played or relayed twice, or out of the talker's order, on one
\* conveyor, under the same assumptions: the numbers only go up, and they agree
\* with the talker's.
THEOREM OrderCorrect ==
    ASSUME NEW maxError, SmallErrors(maxError), ~PlayGarbled
    PROVE  Spec => []TakenInOrder
  <1>1. TypeOK /\ NumbersIncrease /\ NumberingAgrees => TakenInOrder
    <2> SUFFICES ASSUME TypeOK, NumbersIncrease, NumberingAgrees, NEW s \in Stations,
                        NEW i \in DOMAIN taken[s], NEW j \in DOMAIN taken[s], i < j
                 PROVE  taken[s][i].packet < taken[s][j].packet
      BY DEF TakenInOrder
    <2>1. taken[s][i] \in Taken /\ taken[s][j] \in Taken
      BY DEF TypeOK
    <2>2. taken[s][i].number < taken[s][j].number
      BY DEF NumbersIncrease, FirstCopies
    <2>3. taken[s][j].number - taken[s][i].number = taken[s][j].packet - taken[s][i].packet
      BY DEF NumberingAgrees
    <2> QED
      BY <2>1, <2>2, <2>3 DEF Taken
  <1> QED
    BY <1>1, TypeCorrect, NumbersOnlyIncrease, NumberingCorrect, PTL

-----------------------------------------------------------------------------
(* No good packet is dropped for being in the wrong bin *)

\* A skewed packet's end is off by so little that the belt it starts is still
\* less than half a bin from every trusted copy.
SmallSkews(maxError, maxSkew) ==
    /\ maxSkew \in Nat
    /\ \A error \in SkewErrors : -maxSkew <= error /\ error <= maxSkew
    /\ 2 * (2 * Worst(maxError) + maxSkew) < BinUs

\* A copy that arrived: off by at most far from its place on the talker's belt.
ArrivesWithin(arrival, copy, far) ==
    \E off \in Int : /\ Arrives(arrival, 2 * copy.packet + copy.hops, off)
                     /\ -far <= off /\ off <= far

\* A belt starts at one of the talker's packets, off by at most far.
StartsAtPacket(t, far) ==
    \E p \in Int, late \in Int : /\ Starts(t, 2 * p, late)
                                 /\ -far <= late /\ late <= far

\* Every belt, anchored or not, is near the start of one of the talker's
\* packets: an odd number of bins away, every copy would be in the wrong bin.
InStep(t, maxError, maxSkew) ==
    StartsAtPacket(t, IF t.anchored THEN Worst(maxError) ELSE Worst(maxError) + maxSkew)

StepInv(maxError, maxSkew) ==
    /\ \A r \in Repeaters : /\ sending[r] # NIL => OnTime(sending[r], maxError)
                            /\ queued[r] # NIL => OnTime(queued[r], maxError)
    /\ \A s \in Stations : trans[s] # NIL => InStep(trans[s], maxError, maxSkew)

LEMMA WorstType ==
    ASSUME NEW maxError \in Nat
    PROVE  Worst(maxError) \in Nat
  BY FloodAssumption DEF Worst

\* An arrival is as far off as its copy's hops and its own error make it.
LEMMA ArrivalWithin ==
    ASSUME NEW maxError \in Nat, NEW copy \in Copies, OnTime(copy, maxError),
           NEW maxOff \in Nat, NEW error \in Int, -maxOff <= error, error <= maxOff,
           NEW ok \in BOOLEAN
    PROVE  ArrivesWithin([end |-> copy.start + AirUs + error, hops |-> copy.hops, ok |-> ok],
                         copy, Worst(maxError) + maxOff)
  <1> DEFINE arrival == [end |-> copy.start + AirUs + error, hops |-> copy.hops, ok |-> ok]
  <1>1. copy.packet \in Nat /\ copy.hops \in Nat /\ copy.start \in Int
    BY DEF Copies
  <1>2. PICK off \in Int :
          /\ copy.start - GuardUs = (2 * copy.packet + copy.hops) * BinUs + off
          /\ -(copy.hops * maxError) <= off /\ off <= copy.hops * maxError
          /\ copy.hops <= MaxHops
    BY DEF OnTime
  <1>3. copy.hops * maxError <= Worst(maxError)
    BY <1>1, <1>2, FloodAssumption DEF Worst
  <1>4. copy.hops * maxError \in Int /\ Worst(maxError) \in Nat
    BY <1>1, WorstType
  <1> DEFINE slot == (2 * copy.packet + copy.hops) * BinUs
  <1>5. slot \in Int /\ copy.start - GuardUs = slot + off
    BY <1>1, <1>2, UnitTypes
  <1> HIDE DEF slot
  <1>a. (copy.start + AirUs + error) - AirUs - GuardUs = slot + (off + error)
    BY <1>1, <1>5, UnitTypes
  <1>6. arrival.end - AirUs - GuardUs
           = (2 * copy.packet + copy.hops) * BinUs + (off + error)
    BY <1>a DEF slot
  <1>7. Arrives(arrival, 2 * copy.packet + copy.hops, off + error)
    BY <1>6 DEF Arrives
  <1>8. /\ -(Worst(maxError) + maxOff) <= off + error
        /\ off + error <= Worst(maxError) + maxOff
        /\ off + error \in Int
    BY <1>2, <1>3, <1>4
  <1> QED
    BY <1>7, <1>8 DEF ArrivesWithin

\* A trusted arrival is within Worst, a skewed one within the skew besides.
Timely(arrival, copy, maxError, maxSkew) ==
    ArrivesWithin(arrival, copy,
                  IF arrival.ok THEN Worst(maxError) ELSE Worst(maxError) + maxSkew)

LEMMA HeardInTime ==
    ASSUME NEW maxError, NEW maxSkew,
           SmallErrors(maxError), SmallSkews(maxError, maxSkew),
           NEW copy \in Copies, OnTime(copy, maxError),
           NEW ok \in BOOLEAN, NEW error \in IF ok THEN TimeErrors ELSE SkewErrors
    PROVE  Timely([end |-> copy.start + AirUs + error, hops |-> copy.hops, ok |-> ok],
                  copy, maxError, maxSkew)
  <1> DEFINE arrival == [end |-> copy.start + AirUs + error, hops |-> copy.hops, ok |-> ok]
  <1>1. error \in Int /\ maxError \in Nat /\ maxSkew \in Nat
    BY FloodAssumption DEF SmallErrors, SmallSkews
  <1>2. CASE ok
    <2>1. -maxError <= error /\ error <= maxError
      BY <1>2 DEF SmallErrors
    <2>2. PICK off \in Int :
            /\ arrival.end - AirUs - GuardUs = (2 * copy.packet + copy.hops) * BinUs + off
            /\ -Worst(maxError) <= off /\ off <= Worst(maxError)
      BY <1>1, <2>1, OnTimeArrival
    <2>3. ArrivesWithin(arrival, copy, Worst(maxError))
      BY <2>2 DEF ArrivesWithin, Arrives
    <2> QED
      BY <1>2, <2>3 DEF Timely
  <1>3. CASE ~ok
    <2>1. -maxSkew <= error /\ error <= maxSkew
      BY <1>3 DEF SmallSkews
    <2>2. ArrivesWithin(arrival, copy, Worst(maxError) + maxSkew)
      BY <1>1, <2>1, ArrivalWithin
    <2> QED
      BY <1>3, <2>2 DEF Timely
  <1> QED
    BY <1>2, <1>3

\* A ride keeps the belt in step: it starts at the packet heard, and the first
\* trusted copy moves an unanchored one by less than half a bin.
LEMMA RideInStep ==
    ASSUME NEW maxError, NEW maxSkew,
           SmallErrors(maxError), SmallSkews(maxError, maxSkew),
           NEW t \in Transmissions \cup {NIL}, NEW copy \in Copies,
           NEW arrival \in Arrivals, arrival.hops = copy.hops,
           Timely(arrival, copy, maxError, maxSkew),
           t # NIL => InStep(t, maxError, maxSkew),
           RideConveyor(t, copy, arrival).trans # NIL
    PROVE  InStep(RideConveyor(t, copy, arrival).trans, maxError, maxSkew)
  <1> DEFINE ride == RideConveyor(t, copy, arrival)
  <1>1. copy.packet \in Nat /\ arrival.hops \in Nat /\ arrival.ok \in BOOLEAN
    BY DEF Copies, Arrivals
  <1>2. /\ maxError \in Nat /\ maxSkew \in Nat /\ Worst(maxError) \in Nat
        /\ 2 * (2 * Worst(maxError) + maxSkew) < BinUs
    BY WorstType DEF SmallErrors, SmallSkews
  <1>3. PICK off \in Int :
          /\ Arrives(arrival, 2 * copy.packet + copy.hops, off)
          /\ -(IF arrival.ok THEN Worst(maxError) ELSE Worst(maxError) + maxSkew) <= off
          /\ off <= IF arrival.ok THEN Worst(maxError) ELSE Worst(maxError) + maxSkew
    BY DEF Timely, ArrivesWithin
  <1>4. CASE t = NIL
    <2>1. ride = TransmissionStart(arrival)
      BY <1>4 DEF RideConveyor
    <2>2. arrival.end - AirUs - GuardUs = (2 * copy.packet + arrival.hops) * BinUs + off
      BY <1>3 DEF Arrives
    <2>3. /\ ride.trans.bin0 = (2 * copy.packet) * BinUs + off
          /\ ride.trans.anchored = arrival.ok
      BY <1>1, <2>1, <2>2, StartBelt
    <2>4. Starts(ride.trans, 2 * copy.packet, off)
      BY <2>3 DEF Starts
    <2> QED
      BY <1>1, <1>3, <2>3, <2>4 DEF InStep, StartsAtPacket
  <1>5. CASE t # NIL
    <2>1. t \in Transmissions /\ ride = TransmissionHeard(t, arrival)
      BY <1>5 DEF RideConveyor
    <2>2. t.anchored \in BOOLEAN
      BY <2>1 DEF Transmissions
    <2>3. /\ ride.trans.bin0 = Anchor(t, arrival)
          /\ ride.trans.anchored = (t.anchored \/ arrival.ok)
          /\ t.anchored \/ ~arrival.ok => Anchor(t, arrival) = t.bin0
      BY <2>1, HeardBelt
    <2>4. CASE t.anchored \/ ~arrival.ok
      <3>1. ride.trans.bin0 = t.bin0 /\ ride.trans.anchored = t.anchored
        BY <2>2, <2>3, <2>4
      <3> QED
        BY <1>5, <3>1 DEF InStep, StartsAtPacket, Starts
    <2>5. CASE ~t.anchored /\ arrival.ok
      <3>1. PICK p \in Int, late \in Int :
              /\ Starts(t, 2 * p, late)
              /\ -(Worst(maxError) + maxSkew) <= late /\ late <= Worst(maxError) + maxSkew
        BY <1>5, <2>5 DEF InStep, StartsAtPacket
      <3>2. /\ -BinUs < 2 * (off - late) /\ 2 * (off - late) < BinUs
            /\ -Worst(maxError) <= off /\ off <= Worst(maxError)
        BY <1>2, <1>3, <2>5, <3>1, UnitTypes
      <3> DEFINE k == 2 * copy.packet + copy.hops
                 b == 2 * p
      <3>3. /\ k \in Int /\ b \in Int
            /\ Arrives(arrival, k, off) /\ Starts(t, b, late)
        BY <1>1, <1>3, <3>1
      <3> HIDE DEF k, b
      <3>4. Anchor(t, arrival) = b * BinUs + off
        BY <2>1, <2>5, <3>2, <3>3, AnchoringKeepsBin
      <3>5. Starts(ride.trans, 2 * p, off) /\ ride.trans.anchored
        BY <2>3, <2>5, <3>4 DEF Starts, b
      <3> QED
        BY <3>2, <3>5 DEF InStep, StartsAtPacket
    <2> QED
      BY <2>2, <2>4, <2>5
  <1> QED
    BY <1>4, <1>5

LEMMA TakeInStep ==
    ASSUME NEW t \in Transmissions, NEW packet, NEW maxError, NEW maxSkew,
           InStep(t, maxError, maxSkew)
    PROVE  InStep(Take(t, packet), maxError, maxSkew)
  <1>1. Take(t, packet).bin0 = t.bin0 /\ Take(t, packet).anchored = t.anchored
    BY DEF Take, Transmissions
  <1> QED
    BY <1>1 DEF InStep, StartsAtPacket, Starts

\* A good packet keeps every belt in step and every relay on time.
LEMMA GoodKeepsStep ==
    ASSUME TypeOK, NEW maxError, NEW maxSkew,
           SmallErrors(maxError), SmallSkews(maxError, maxSkew),
           StepInv(maxError, maxSkew),
           NEW s \in Stations, NEW copy \in Copies, OnTime(copy, maxError),
           NEW ok \in BOOLEAN, NEW error \in IF ok THEN TimeErrors ELSE SkewErrors,
           HearGood(s, copy, error, ok)
    PROVE  /\ \A q \in Stations : trans'[q] # NIL => InStep(trans'[q], maxError, maxSkew)
           /\ \A r \in Repeaters : queued'[r] # NIL => OnTime(queued'[r], maxError)
  <1> DEFINE end     == copy.start + AirUs + error
             arrival == [end |-> end, hops |-> copy.hops, ok |-> ok]
             ride    == RideConveyor(trans[s], copy, arrival)
             takes   == Takes(s, ride, copy)
             now     == IF takes THEN Take(ride.trans, ride.landing.packet) ELSE ride.trans
  <1>1. error \in Int /\ maxError \in Nat
    BY FloodAssumption DEF SmallErrors
  <1>2. arrival \in Arrivals /\ trans[s] \in Transmissions \cup {NIL}
    BY <1>1, ArrivalType DEF TypeOK
  <1>3. /\ ride.trans \in Transmissions \cup {NIL}
        /\ ride.landing # NIL => ride.trans \in Transmissions
    BY <1>2, RideType
  <1>4. ride.trans # NIL => InStep(ride.trans, maxError, maxSkew)
    <2>1. Timely(arrival, copy, maxError, maxSkew)
      BY HeardInTime
    <2>2. trans[s] # NIL => InStep(trans[s], maxError, maxSkew)
      BY DEF StepInv
    <2>3. arrival.hops = copy.hops
      OBVIOUS
    <2> QED
      BY <1>2, <2>1, <2>2, <2>3, RideInStep
  <1>5. takes => ride.trans \in Transmissions /\ ride.landing.packet # NIL
    BY <1>3 DEF Takes
  <1>6. now # NIL => InStep(now, maxError, maxSkew)
    <2>1. CASE takes
      <3>1. ride.trans \in Transmissions /\ ride.trans # NIL
        BY <1>5, <2>1, FloodAssumption
      <3>2. InStep(Take(ride.trans, ride.landing.packet), maxError, maxSkew)
        BY <1>4, <3>1, TakeInStep
      <3> QED
        BY <2>1, <3>2
    <2>2. CASE ~takes
      BY <1>4, <2>2
    <2> QED
      BY <2>1, <2>2
  <1>7. takes => ok
    <2>1. ASSUME takes, ~ok PROVE FALSE
      <3>1. ride.landing.packet = NIL
        BY <1>2, <2>1, SkewedStart, SkewedOnBelt DEF RideConveyor, Takes
      <3> QED
        BY <1>5, <2>1, <3>1
    <2> QED
      BY <2>1
  <1>8. ok /\ RelayOf(copy, end) # NIL => OnTime(RelayOf(copy, end), maxError)
    <2>1. ok => -maxError <= error /\ error <= maxError
      BY DEF SmallErrors
    <2> QED
      BY <1>1, <2>1, OnTimeArrival
  <1>9. trans' = [trans EXCEPT ![s] = IF IsEnd(copy) THEN NIL ELSE now]
    BY DEF HearGood
  <1>a. queued' = IF takes /\ s \in Repeaters
                  THEN [queued EXCEPT ![s] = RelayOf(copy, end)]
                  ELSE queued
    BY DEF HearGood
  <1> HIDE DEF now, takes, end
  <1>b. \A q \in Stations : trans'[q] # NIL => InStep(trans'[q], maxError, maxSkew)
    BY <1>6, <1>9 DEF TypeOK, StepInv
  <1>c. \A r \in Repeaters : queued'[r] # NIL => OnTime(queued'[r], maxError)
    BY <1>7, <1>8, <1>a DEF TypeOK, StepInv
  <1> QED
    BY <1>b, <1>c

\* A garbled packet, played or not, moves no belt.
LEMMA GarbledKeepsStep ==
    ASSUME TypeOK, NEW maxError, NEW maxSkew, StepInv(maxError, maxSkew),
           NEW s \in Stations, NEW copy \in Copies,
           NEW error \in Int, NEW ok \in BOOLEAN, HearGarbled(s, copy, error, ok)
    PROVE  /\ \A q \in Stations : trans'[q] # NIL => InStep(trans'[q], maxError, maxSkew)
           /\ queued' = queued
  <1> DEFINE end    == copy.start + AirUs + error
             t      == HeardGarbled(trans[s], end, ok)
             packet == GarbledTaken(s, t, copy, end, ok)
  <1>1. trans[s] \in Transmissions /\ trans[s] # NIL
    BY DEF HearGarbled, TypeOK
  <1>2. t.bin0 = trans[s].bin0 /\ t.anchored = trans[s].anchored
    BY <1>1 DEF HeardGarbled, Transmissions
  <1>3. t \in Transmissions
    BY <1>1, ArrivalType, HeardGarbledType
  <1>4. InStep(trans[s], maxError, maxSkew)
    BY <1>1 DEF StepInv
  <1>5. InStep(t, maxError, maxSkew)
    BY <1>2, <1>4 DEF InStep, StartsAtPacket, Starts
  <1>6. InStep(Take(t, packet), maxError, maxSkew)
    BY <1>3, <1>5, TakeInStep
  <1>7. /\ trans' = [trans EXCEPT ![s] = IF packet = NIL THEN t ELSE Take(t, packet)]
        /\ queued' = queued
    BY DEF HearGarbled
  <1> HIDE DEF t, packet
  <1> QED
    BY <1>5, <1>6, <1>7 DEF TypeOK, StepInv

LEMMA SentOnTime ==
    ASSUME TypeOK, NEW maxError \in Nat, NEW maxSkew, StepInv(maxError, maxSkew),
           NEW s \in Stations, NEW x \in InRange[s], SentBy(x) # NIL
    PROVE  OnTime(SentBy(x), maxError)
  <1>1. CASE x = Talker
    BY <1>1, OnTimeTalker DEF SentBy
  <1>2. CASE x # Talker
    <2>1. x \in Repeaters
      BY <1>2, FloodAssumption
    <2> QED
      BY <1>2, <2>1 DEF SentBy, StepInv
  <1> QED
    BY <1>1, <1>2

LEMMA EveryStepInStep ==
    ASSUME NEW maxError, NEW maxSkew,
           SmallErrors(maxError), SmallSkews(maxError, maxSkew),
           TypeOK, StepInv(maxError, maxSkew), [Next]_vars
    PROVE  StepInv(maxError, maxSkew)'
  <1>1. CASE NextBin
    BY <1>1 DEF NextBin, StepInv
  <1>2. ASSUME NEW s \in Stations, Hear(s) PROVE StepInv(maxError, maxSkew)'
    <2>1. PICK x \in InRange[s], ok \in BOOLEAN :
          \E error \in IF ok THEN TimeErrors ELSE SkewErrors :
             /\ SentBy(x) # NIL
             /\ HearGood(s, SentBy(x), error, ok) \/ HearGarbled(s, SentBy(x), error, ok)
      BY <1>2 DEF Hear
    <2>2. PICK error \in IF ok THEN TimeErrors ELSE SkewErrors :
             /\ SentBy(x) # NIL
             /\ HearGood(s, SentBy(x), error, ok) \/ HearGarbled(s, SentBy(x), error, ok)
      BY <2>1
    <2>3. SentBy(x) \in Copies /\ error \in Int /\ maxError \in Nat
      BY <2>2, SentByType, FloodAssumption DEF SmallErrors
    <2>4. OnTime(SentBy(x), maxError)
      BY <2>2, <2>3, SentOnTime
    <2>5. \A q \in Stations : trans'[q] # NIL => InStep(trans'[q], maxError, maxSkew)
      BY <2>2, <2>3, <2>4, GoodKeepsStep, GarbledKeepsStep
    <2>6. \A r \in Repeaters : queued'[r] # NIL => OnTime(queued'[r], maxError)
      <3>1. CASE HearGood(s, SentBy(x), error, ok)
        BY <2>2, <2>3, <2>4, <3>1, GoodKeepsStep
      <3>2. CASE HearGarbled(s, SentBy(x), error, ok)
        <4>1. queued' = queued
          BY <2>3, <3>2, GarbledKeepsStep
        <4> QED
          BY <4>1 DEF StepInv
      <3> QED
        BY <2>2, <3>1, <3>2
    <2>7. sending' = sending
      BY <1>2 DEF Hear
    <2> QED
      BY <2>5, <2>6, <2>7 DEF StepInv
  <1>3. ASSUME NEW s \in Stations, Housekeeping(s) PROVE StepInv(maxError, maxSkew)'
    <2>1. \A q \in Stations : trans'[q] = NIL \/ trans'[q] = trans[q]
      BY <1>3 DEF Housekeeping, TypeOK
    <2> QED
      BY <1>3, <2>1 DEF Housekeeping, StepInv
  <1>4. CASE UNCHANGED vars
    BY <1>4 DEF vars, StepInv
  <1> QED
    BY <1>1, <1>2, <1>3, <1>4 DEF Next

\* On a belt an even number of bins after the talker's, a copy's bin fits its
\* hops.
LEMMA EvenBeltFits ==
    ASSUME NEW p \in Int, NEW q \in Int, NEW hops \in Nat
    PROVE  PacketIn((2 * p + hops) - 2 * q, hops) # NIL
  <1>1. ((2 * p + hops) - 2 * q) - hops = 2 * (p - q)
    OBVIOUS
  <1>2. (2 * (p - q)) % 2 = 0 /\ (2 * (p - q)) \div 2 = p - q
    OBVIOUS
  <1> QED
    BY <1>1, <1>2, BeltAssumption DEF PacketIn

\* A belt that a trusted packet anchored puts every copy on the air in a bin
\* that fits its hops, so that none is dropped: whatever was skewed, garbled or
\* lost before, if a skewed packet was off by so little that the belt it
\* started was less than half a bin out (conveyor.rs, anchor).
THEOREM EveryCopyIsNumbered ==
    ASSUME NEW maxError, NEW maxSkew,
           SmallErrors(maxError), SmallSkews(maxError, maxSkew)
    PROVE  Spec => []EveryCopyNumbered
  <1>1. Init => StepInv(maxError, maxSkew)
    BY DEF Init, StepInv
  <1>2. TypeOK /\ StepInv(maxError, maxSkew) /\ [Next]_vars => StepInv(maxError, maxSkew)'
    BY EveryStepInStep
  <1>3. TypeOK /\ StepInv(maxError, maxSkew) => EveryCopyNumbered
    <2> SUFFICES ASSUME TypeOK, StepInv(maxError, maxSkew), NEW s \in Stations,
                        NEW x \in InRange[s], NEW error \in TimeErrors,
                        trans[s] # NIL, trans[s].anchored, SentBy(x) # NIL
                 PROVE  Landing(trans[s].bin0, SentBy(x).start + AirUs + error,
                                SentBy(x).hops).packet # NIL
      BY DEF EveryCopyNumbered
    <2> DEFINE copy    == SentBy(x)
               arrival == [end |-> copy.start + AirUs + error, hops |-> copy.hops, ok |-> TRUE]
    <2>1. copy \in Copies /\ error \in Int /\ maxError \in Nat
      BY SentByType, FloodAssumption DEF SmallErrors
    <2>2. OnTime(copy, maxError)
      BY <2>1, SentOnTime
    <2>3. trans[s] \in Transmissions
      BY DEF TypeOK
    <2> HIDE DEF copy
    <2>4. arrival \in Arrivals /\ arrival.ok
      BY <2>1, ArrivalType
    <2>5. -maxError <= error /\ error <= maxError
      BY DEF SmallErrors
    <2>6. PICK off \in Int :
            /\ (copy.start + AirUs + error) - AirUs - GuardUs
                  = (2 * copy.packet + copy.hops) * BinUs + off
            /\ -Worst(maxError) <= off /\ off <= Worst(maxError)
      BY <2>1, <2>2, <2>5, OnTimeArrival
    <2>7. PICK q \in Int, late \in Int :
            /\ Starts(trans[s], 2 * q, late)
            /\ -Worst(maxError) <= late /\ late <= Worst(maxError)
      BY DEF StepInv, InStep, StartsAtPacket
    <2>8. -BinUs < 2 * (off - late) /\ 2 * (off - late) < BinUs
      BY <2>1, <2>6, <2>7, WorstType, UnitTypes DEF SmallErrors
    <2>9. copy.packet \in Nat /\ copy.hops \in Nat
      BY <2>1 DEF Copies
    <2> DEFINE k == 2 * copy.packet + copy.hops
               b == 2 * q
    <2>a. /\ k \in Int /\ b \in Int
          /\ Arrives(arrival, k, off) /\ Starts(trans[s], b, late)
      BY <2>6, <2>7, <2>9 DEF Arrives
    <2>b. PacketIn(k - b, copy.hops) # NIL
      <3>1. copy.packet \in Int
        BY <2>9
      <3> QED
        BY <2>9, <3>1, EvenBeltFits, Zenon
    <2> HIDE DEF k, b
    <2>c. TransmissionHeard(trans[s], arrival).landing
             = Landing(trans[s].bin0, arrival.end, arrival.hops)
      BY <2>4 DEF TransmissionHeard, Anchor, Trusted
    <2>d. /\ arrival.end = copy.start + AirUs + error
          /\ arrival.hops = copy.hops
      OBVIOUS
    <2> HIDE DEF arrival
    <2>e. LET heard == TransmissionHeard(trans[s], arrival)
          IN  /\ heard.trans.bin0 = trans[s].bin0
              /\ heard.trans.anchored
              /\ heard.landing.packet = PacketIn(k - b, arrival.hops)
      BY <2>3, <2>4, <2>8, <2>a, AnchoredBelt
    <2>f. Landing(trans[s].bin0, copy.start + AirUs + error, copy.hops).packet # NIL
      BY <2>b, <2>c, <2>d, <2>e, Zenon
    <2> QED
      BY <2>f DEF copy
  <1> QED
    BY <1>1, <1>2, <1>3, TypeCorrect, PTL DEF Spec
=============================================================================
