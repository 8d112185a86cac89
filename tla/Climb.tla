--------------------------------- MODULE Climb ---------------------------------
(***************************************************************************)
(* Which channels to listen on during a transmission (core/src/climb.rs):  *)
(* the hold, what its two sides have heard, and its moves, with the bins   *)
(* of one transmission going by.  Hop h of packet p is sent in bin 2p + h, *)
(* h channels on from the talker's (core/src/conveyor.rs).                 *)
(*                                                                         *)
(* Channels and MaxHops are such that in a side's bins its channel carries *)
(* the copies of one hop (5 and 7, say): two hops that share a channel are *)
(* of different parity.                                                    *)
(* Bounds of a run: MaxBin.                                                *)
(***************************************************************************)
EXTENDS Integers

CONSTANTS Channels, MaxHops,
          Levels,                              \* RSSI, dBm
          PacketsToMove, StrongerBy, AverageOver,
          MaxBin, NIL

VARIABLES bin,   \* the bin that comes next
          base,  \* the talker's channel
          hold,  \* Hold: [channel, hops, rssi, last]
          sides, \* [On, Back]: each [hops, rssi, last, same]
          taken  \* the latest packet heard, whatever its hop

climbVars == <<bin, base, hold, sides, taken>>

Hops == 0..MaxHops

\* The channel of a hop's copies, on the air.
SentOn(hops) == (base + hops) % Channels

-----------------------------------------------------------------------------
(* Average *)

NoAverage == [sum |-> 0, count |-> 0]

\* Division towards zero, of what is never positive.
Mean(average) == -((-average.sum) \div average.count)

\* Average::add
Added(average, rssi) ==
    IF average.count = AverageOver
    THEN [average EXCEPT !.sum = @ - Mean(average) + rssi]
    ELSE [sum |-> average.sum + rssi, count |-> average.count + 1]

-----------------------------------------------------------------------------
(* Climb *)

SideNames == {"On", "Back"}
NoSide    == [hops |-> NIL, rssi |-> NoAverage, last |-> NIL, same |-> FALSE]
NoSides   == [side \in SideNames |-> NoSide]

\* Climb::start
ClimbStart(channel, hops, rssi, packet) ==
    /\ hold = [channel |-> channel, hops |-> hops, rssi |-> Added(NoAverage, rssi), last |-> packet]
    /\ sides = NoSides

Offset(by) == (hold.channel + by) % Channels

SideChannel(side) == Offset(IF side = "On" THEN 1 ELSE -1)

\* Mutant of SideFor: the even bins are the hold's, whatever its hops.
SideOfEvenHold(b) ==
    IF b % 2 = 0 THEN NIL ELSE IF (b \div 2) % 2 = 0 THEN "On" ELSE "Back"

\* Climb::side_for; NIL in the hold's bins.
SideFor(b) ==
    IF b % 2 = hold.hops % 2 THEN NIL ELSE IF (b \div 2) % 2 = 0 THEN "On" ELSE "Back"

\* Climb::channel_for, of a station that is no repeater.
ChannelFor(b) == IF SideFor(b) = NIL THEN hold.channel ELSE SideChannel(SideFor(b))

\* A side as the hold.
NewHold(side, heard) ==
    [channel |-> SideChannel(side), hops |-> heard.hops, rssi |-> heard.rssi, last |-> heard.last]

\* Climb::climb, of the hold and the sides as they have become: a side that has
\* earned it is the hold.
ClimbTo(itsHold, itsSides) ==
    LET Earned(side) ==
            /\ itsSides[side].rssi.count >= PacketsToMove
            /\ Mean(itsSides[side].rssi) >= Mean(itsHold.rssi) + StrongerBy
            /\ side = "On" \/ itsSides[side].same
        To(side) == hold' = NewHold(side, itsSides[side]) /\ sides' = NoSides
    IN  IF Earned("On") THEN To("On")
        ELSE IF Earned("Back") THEN To("Back")
        ELSE hold' = itsHold /\ sides' = itsSides

\* Climb::heard, of a copy on the channel we were listening on.
Heard(hops, rssi, packet) ==
    LET side == SideFor(bin) IN
    IF side = NIL
    THEN ClimbTo([hold EXCEPT !.rssi = Added(@, rssi), !.last = packet],
                 [s \in SideNames |->
                    [sides[s] EXCEPT !.same = @ \/ sides[s].last = packet]])
    ELSE ClimbTo(hold,
                 [sides EXCEPT ![side].hops = hops, ![side].rssi = Added(@, rssi),
                               ![side].last = packet,
                               ![side].same = @ \/ packet = hold.last])

-----------------------------------------------------------------------------
(* The bins go by *)

\* The packet whose copy of these hops is in bin b.
PacketIn(b, hops) == (b - hops) \div 2

\* A copy heard in this bin.
Hears ==
    /\ bin < MaxBin
    /\ \E hops \in Hops, rssi \in Levels :
        /\ hops % 2 = bin % 2 /\ bin >= hops
        /\ SentOn(hops) = ChannelFor(bin)
        /\ Heard(hops, rssi, PacketIn(bin, hops))
        /\ taken' = IF PacketIn(bin, hops) > taken THEN PacketIn(bin, hops) ELSE taken
    /\ bin' = bin + 1
    /\ UNCHANGED base

\* Nothing in it, unless we listen for the hold's copies, which are all heard.
HearsNothing ==
    /\ bin < MaxBin
    /\ ~(bin % 2 = hold.hops % 2 /\ ChannelFor(bin) = SentOn(hold.hops))
    /\ bin' = bin + 1
    /\ UNCHANGED <<base, hold, sides, taken>>

\* The first trusted packet, at any hop, on its hop's channel.
ClimbInit ==
    \E talker \in 0..Channels - 1, hops \in Hops, rssi \in Levels :
        /\ base = talker
        /\ ClimbStart((talker + hops) % Channels, hops, rssi, 0)
        /\ bin = hops + 1
        /\ taken = 0

ClimbNext == Hears \/ HearsNothing

ClimbSpec == ClimbInit /\ [][ClimbNext]_climbVars

-----------------------------------------------------------------------------
(* Properties *)

ClimbTypeOK ==
    /\ hold.channel \in 0..Channels - 1 /\ hold.hops \in Hops
    /\ hold.rssi.count \in 1..AverageOver
    /\ \A side \in SideNames :
        /\ sides[side].hops \in Hops \cup {NIL}
        /\ sides[side].rssi.count \in 0..AverageOver
        /\ sides[side].hops = NIL <=> sides[side].rssi.count = 0
    /\ taken \in 0..MaxBin

\* Of a step: moving the hold loses no packet: as long as its copies are heard, each packet is
\* heard, none before the one before it (so that first_copy plays them all), and
\* the hold's copy of the next one is still to come.
NothingMissed ==
    taken' \in {taken, taken + 1} /\ bin' <= 2 * (taken' + 1) + hold'.hops
=============================================================================
