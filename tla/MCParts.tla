-------------------------------- MODULE MCParts --------------------------------
(***************************************************************************)
(* Eight parts that share nothing, one per behaviour: Update, Climb,       *)
(* Handset, Link, Archive, RadioBus, IrqPin and Talker.  All but Update    *)
(* keep their variables in x1 to x10.                                      *)
(*                                                                         *)
(* Update: two good bundles with one firmware, and one with a firmware     *)
(* that crashes.  Climb: five channels, and a copy that gets stronger or   *)
(* weaker.  Handset: a page that asks for a password, one that asks twice, *)
(* one setting and one action.  Link: two connections of the radio at a    *)
(* time, and a radio of another version.  Archive: a directory and two     *)
(* files, in units that do not end where blocks do.  RadioBus: operations  *)
(* of every shape and one refused.  Talker: encodes in time and late, and  *)
(* an air that is clear or not.                                            *)
(***************************************************************************)
EXTENDS Update, Integers, TLC

CONSTANTS b1, b2, b3, f0, f1, f2, script, page,
          Channels, MaxHops, Levels, PacketsToMove, StrongerBy, AverageOver, MaxBin,
          Items, Root, EventsCap, Quick, WheelStops, MaxTyped, MaxMoves, MaxAway,
          b4, b5, c1, c2, Conns, MaxCalls, MaxListings,
          Entries, Units, Cuts, Flags, WindowLen, InputLen, BlockLen, CopyLen,
          Operations, MaxTransfer, MaxOps, MaxBusCalls, MaxChanges, MaxWaits,
          Steady, CaptureLen, BinLen, Deadline, ChanCap, EncodeTimes, BusyTimes,
          MaxFlips, MaxEvents, MaxTime

VARIABLES part, x1, x2, x3, x4, x5, x6, x7, x8, x9, x10

xVars == <<x1, x2, x3, x4, x5, x6, x7, x8, x9, x10>>
partsVars == <<part, vars, xVars>>

\* A radio that has the first of the server's two bundles, and one that went back
\* to an app from before it.
ItsBundles == b4 :> f1 @@ b5 :> f2
TheHoldings == {[running |-> f, installed |-> b4] : f \in {f1, f2}}

TheVersions ==
    {[prologue |-> "oswst-management/1", what |-> "Bundle"],
     [prologue |-> "oswst-management/1", what |-> "Firmware"],
     [prologue |-> "oswst-management/0", what |-> "Firmware"]}

C == INSTANCE Climb WITH bin <- x1, base <- x2, hold <- x3, sides <- x4, taken <- x5
H == INSTANCE Handset WITH knob <- x1, events <- x2, ui <- x3, stack <- x4, entry <- x5,
                           past <- x6, bounds <- x7
L == INSTANCE Link WITH file <- x1, cached <- x2, list <- x3, knows <- x4, speaks <- x5,
                        radio <- x6, server <- x7, wire <- x8, hist <- x9, tally <- x10,
                        Bundles <- {b4, b5}, FirmwareOf <- ItsBundles,
                        Holdings <- TheHoldings, Versions <- TheVersions
A == INSTANCE Archive WITH gz <- x1, tar <- x2
B == INSTANCE RadioBus WITH call <- x1, device <- x2
I == INSTANCE IrqPin WITH pin <- x1, wait <- x2
T == INSTANCE Talker WITH clock <- x1, button <- x2, loop <- x3, talk <- x4, send <- x5

TheEntries == <<[size |-> 0, isFile |-> FALSE], [size |-> 3, isFile |-> TRUE],
                [size |-> 2, isFile |-> TRUE]>>
TheUnits == <<1, 6, 0, 9>>
TheFlags == "FNAME" :> 1

Op(write, read) == [kind |-> "Bytes", write |-> write, read |-> read]
TheOperations == {Op(1, 0), Op(0, 2), Op(1, 2), Op(2, 1), [Op(0, 0) EXCEPT !.kind = "Delay"]}

TheFirmwareOf == b1 :> f1 @@ b2 :> f1 @@ b3 :> f2

\* The first two bundles are alike, and so are the two files
\* and the two connections.
Alike == Permutations({b1, b2}) \cup Permutations({script, page})
             \cup Permutations({c1, c2})

TheLevels == {-90, -80}

Row(kind, to) == [kind |-> kind, to |-> to]

TheItems ==
    "Menu"      :> <<Row("List", "Add"), Row("List", "Forget"), Row("List", "Lock"),
                     Row("Action", NIL)>>
    @@ "Add"    :> <<Row("Network", NIL)>>
    @@ "Forget" :> <<Row("Onwards", "Really")>>
    @@ "Really" :> <<Row("Choice", "Gone")>>
    @@ "Gone"   :> <<>>
    @@ "Lock"   :> <<Row("Choice", NIL), Row("Choice", NIL)>>

-----------------------------------------------------------------------------
\* Those a part has no use for.
from3 == <<x3, x4, x5, x6, x7, x8, x9, x10>>
from6 == <<x6, x7, x8, x9, x10>>
from8 == <<x8, x9, x10>>

Rest3 == x3 = NIL /\ x4 = NIL /\ x5 = NIL
Rest6 == x6 = NIL /\ x7 = NIL
Rest8 == x8 = NIL /\ x9 = NIL /\ x10 = NIL

PartsInit ==
    /\ \/ part = "Update"   /\ x1 = NIL /\ x2 = NIL /\ Rest3 /\ Rest6 /\ Rest8
       \/ part = "Climb"    /\ C!ClimbInit /\ Rest6 /\ Rest8
       \/ part = "Handset"  /\ H!HandInit /\ Rest8
       \/ part = "Link"     /\ L!LinkInit
       \/ part = "Archive"  /\ A!ArchiveInit /\ Rest3 /\ Rest6 /\ Rest8
       \/ part = "RadioBus" /\ B!BusInit /\ Rest3 /\ Rest6 /\ Rest8
       \/ part = "IrqPin"   /\ I!PinInit /\ Rest3 /\ Rest6 /\ Rest8
       \/ part = "Talker"   /\ T!TalkInit /\ Rest6 /\ Rest8
    /\ Init /\ (part # "Update" => published = NIL)

PartsNext ==
    /\ part' = part
    /\ \/ part = "Update"   /\ Next          /\ UNCHANGED xVars
       \/ part = "Climb"    /\ C!ClimbNext   /\ UNCHANGED <<vars, from6>>
       \/ part = "Handset"  /\ H!HandNext    /\ UNCHANGED <<vars, from8>>
       \/ part = "Link"     /\ L!LinkNext    /\ UNCHANGED vars
       \/ part = "Archive"  /\ A!ArchiveNext /\ UNCHANGED <<vars, from3>>
       \/ part = "RadioBus" /\ B!BusNext     /\ UNCHANGED <<vars, from3>>
       \/ part = "IrqPin"   /\ I!PinNext     /\ UNCHANGED <<vars, from3>>
       \/ part = "Talker"   /\ T!TalkNext    /\ UNCHANGED <<vars, from6>>

PartsSpec == PartsInit /\ [][PartsNext]_partsVars

-----------------------------------------------------------------------------
(* Properties *)

\* The variables of the part that runs have their types.
PartsTypeOK ==
    /\ TypeOK
    /\ part = "Climb" => C!ClimbTypeOK
    /\ part = "Handset" => H!HandTypeOK
    /\ part = "Link" => L!LinkTypeOK
    /\ part = "Archive" => A!ArchiveTypeOK
    /\ part = "RadioBus" => B!BusTypeOK
    /\ part = "IrqPin" => I!PinTypeOK
    /\ part = "Talker" => T!TalkTypeOK

\* Climb!NothingMissed: moving to a stronger copy loses no packet (climb.rs).
NothingMissed == [][part = "Climb" => C!NothingMissed]_partsVars

\* Handset!StraysDoNothing and OpensOnADoubleClick: the menu opens on a quick double
\* click, or on one that waited for the app (double_click.rs), and a press with no
\* turn before it does nothing there (menu.rs).
StrayPressesDoNothing ==
    [][part = "Handset" => H!StraysDoNothing /\ H!OpensOnADoubleClick]_partsVars

\* Link!ServedAsItself: whoever the server serves is listed, and means it (keys.rs).
ServedAsItself == part = "Link" => L!ServedAsItself

\* Link!AnswersAreCurrent: of a bundle published since the request (bundle.rs).
AnswersAreCurrent == [][part = "Link" => L!AnswersAreCurrent]_partsVars

\* Archive!EntriesComeWhole: a bundle is read as it was packed (gzip.rs, tar.rs).
EntriesComeWhole == part = "Archive" => A!EntriesComeWhole

\* RadioBus!TransfersAreTheirs and IrqPin!WaitsAreTheirs: no byte of another transfer,
\* no interrupt of another wait, and none missed (radio_bus.rs, irq_pin.rs).
InterruptsAreTheirs ==
    /\ part = "RadioBus" => B!TransfersAreTheirs
    /\ part = "IrqPin" => I!WaitsAreTheirs

\* Talker!SentInItsBin and PressesAreSteady: packets go out a packet's audio apart, as
\* captured, in a talk that a held press began and nobody else's was in the way of
\* (ptt.rs; app.rs, stream).
SentInItsBin == part = "Talker" => T!SentInItsBin /\ T!PressesAreSteady
=============================================================================
