-------------------------------- MODULE Station --------------------------------
(***************************************************************************)
(* One radio: the app's event loop (core/src/app.rs) on one core and the   *)
(* radio's (src/devices/radio.rs) on the other, joined by RX_CHAN, TX_CHAN *)
(* and LISTEN.  Hearing, relaying, PTT, echo mode and the menu, on a radio *)
(* that sweeps.                                                            *)
(*                                                                         *)
(* What a packet's number is, and whether it is a first copy, is for       *)
(* modules Conveyor and Flood: here any may be.  Times (a quiet spell, a   *)
(* conveyor that is over) pass when they pass.  A conveyor has one         *)
(* rotation, named by its txid.                                            *)
(*                                                                         *)
(* Bounds of a run: MaxArrivals, MaxTalks, MaxMenus, and MaxVoice (packets *)
(* of a transmission of our own).                                          *)
(***************************************************************************)
EXTENDS Integers, SequencesExt

CONSTANTS Talkers,      \* the txids of others
          Modes,        \* those the menu may set, of mode::Mode
          RxCap, TxCap, \* RX_CHAN's and TX_CHAN's sizes
          PlayGarbled,  \* config::PLAY_GARBLED
          OnAir,        \* the packets that may be heard
          MaxArrivals, MaxTalks, MaxMenus, MaxVoice,
          NIL

\* A packet: "Other" is a good one the app has no use for (our own relayed
\* back, another radio's timing run, an unknown kind). timed is timing_ok.
Packets ==
    [kind : {"Wake", "Voice", "End"}, txid : Talkers, timed : BOOLEAN]
        \cup [kind : {"Other", "Garbled"}, txid : {NIL}, timed : BOOLEAN]

\* One heard, and, history, whether while the menu was open.
Heard == [packet : OnAir, menu : BOOLEAN]

\* rx.transmission.
Transmissions == [txid : Talkers, anchored : BOOLEAN]

ASSUME StationAssumption ==
    /\ Modes \subseteq {"Normal", "Repeater", "Echo"}
    /\ RxCap \in Nat \ {0} /\ TxCap \in Nat \ {0}
    /\ PlayGarbled \in BOOLEAN
    /\ OnAir \subseteq Packets
    /\ MaxArrivals \in Nat /\ MaxTalks \in Nat /\ MaxMenus \in Nat
    /\ MaxVoice \in Nat \ {0}
    /\ NIL \notin Talkers \cup {"Hold", "Sweep"} \cup Heard \cup Transmissions
    /\ {"Hold", "Sweep"} \cap Talkers = {}

VARIABLES rxChan,   \* RX_CHAN: packets heard
          txChan,   \* TX_CHAN: how many packets to send
          listen,   \* LISTEN: "Hold", "Sweep" or a rotation; NIL when taken
          radio,    \* [locked, heard, rotation: State::Locked's, or Sweeping,
                    \* at: what its task is doing, hand: the packet it has for
                    \* the app, irq: the one the chip has received]
          app,      \* [at: what its task is doing, left: packets of our own
                    \* transmission still to hand to the radio]
          trans,    \* rx.transmission, or NIL
          rotation, \* rx.rotation
          echo,     \* echo.txid
          mode,     \* mode::get()
          sweep,    \* [quiet: nothing heard or sent for long enough,
                    \* told: swept_after is this quiet spell]
          hist,     \* history: [left: the menu took the conveyor a recording
                    \* was on, drained: a packet was thrown away by the menu's
                    \* exit and none handled since, stale: packets of the menu's
                    \* time handled after it]
          count     \* bounds: [arrivals, talks, menus]

queues == <<rxChan, txChan, listen>>
appVars == <<app, trans, rotation, echo, mode, sweep>>
vars == <<queues, radio, appVars, hist, count>>

IsAnyones(packet) == packet.kind \in {"Wake", "Voice", "End"}

-----------------------------------------------------------------------------
(* The radio *)

NoLock == [locked |-> FALSE, heard |-> FALSE, rotation |-> NIL]

\* A lock, and what the radio's task was doing.
Locks(lock) == [radio EXCEPT !.locked = lock.locked, !.heard = lock.heard,
                             !.rotation = lock.rotation]

\* Driver::sweep_step: a CAD hit. LISTEN and TX_CHAN went first, but may have
\* got something since.
Hit ==
    /\ ~radio.locked /\ radio.at = "Listening"
    /\ count.arrivals < MaxArrivals
    /\ radio' = Locks([NoLock EXCEPT !.locked = TRUE])
    /\ UNCHANGED <<queues, appVars, hist, count>>

\* Driver::on_false_alarm: a hit with nothing good heard after it.
FalseAlarm ==
    /\ radio.locked /\ ~radio.heard
    /\ radio.at = "Listening" /\ radio.irq = NIL
    /\ txChan = 0 /\ listen = NIL
    /\ radio' = Locks(NoLock)
    /\ UNCHANGED <<queues, appVars, hist, count>>

\* Mutant of RoomToHear: one more than there is room for.
RoomForOneMore == Len(rxChan) <= RxCap

RoomToHear == Len(rxChan) < RxCap

\* Mutant of DiscardsRx: what is heard while we send stays in the queue.
DiscardsNothing == FALSE

\* on_ptt and replay_echo run discard_rx beside what they send.
DiscardsRx == app.at = "Streaming"

\* A packet ends on the air. Packets are 80 ms apart, and in that time the app
\* has taken the last one, if it is taking any, and the radio's task has done all
\* it had to, unless it is held up by the app or is sending.
Arrive ==
    /\ count.arrivals < MaxArrivals
    /\ radio.locked
    /\ app.at = "Idle" \/ DiscardsRx => rxChan = <<>>
    /\ radio.at = "Listening" => radio.irq = NIL /\ txChan = 0
    /\ radio.at = "Handing" => ~RoomToHear
    /\ \E packet \in OnAir :
        radio' = [radio EXCEPT !.irq = [packet |-> packet, menu |-> app.at = "Menu"]]
    /\ count' = [count EXCEPT !.arrivals = @ + 1]
    /\ UNCHANGED <<queues, appVars, hist>>

\* Driver::on_irq: the packet is read out, to be handed to the app.
OnIrq ==
    /\ radio.locked /\ radio.at = "Listening" /\ radio.irq # NIL
    /\ radio' = [radio EXCEPT !.at = "Handing", !.hand = radio.irq, !.irq = NIL]
    /\ UNCHANGED <<queues, appVars, hist, count>>

\* Driver::receive waits for room; a good packet keeps the lock. Then the IRQ is
\* cleared: one that ended meanwhile is lost.
HandOver ==
    /\ radio.at = "Handing" /\ RoomToHear
    /\ rxChan' = Append(rxChan, radio.hand)
    /\ radio' = [radio EXCEPT !.at = "Listening", !.hand = NIL, !.irq = NIL,
                              !.heard = @ \/ radio.hand.packet.kind # "Garbled"]
    /\ UNCHANGED <<txChan, listen, appVars, hist, count>>

\* A locked radio's IRQ goes first, a sweeping one's LISTEN.
OnTx ==
    /\ radio.at = "Listening" /\ txChan > 0
    /\ IF radio.locked THEN radio.irq = NIL ELSE listen = NIL
    /\ txChan' = txChan - 1
    /\ radio' = [radio EXCEPT !.at = "Sending"]
    /\ UNCHANGED <<rxChan, listen, appVars, hist, count>>

\* Driver::transmit: sent, and what was received meanwhile is lost; or too late,
\* and dropped, what was received still there.
Sent ==
    /\ radio.at = "Sending"
    /\ \E irq \in {NIL, radio.irq} :
        radio' = [radio EXCEPT !.at = "Listening", !.irq = irq]
    /\ UNCHANGED <<queues, appVars, hist, count>>

\* Mutant of LockFor: a rotation's lock is given up for a false alarm.
LockUntilAlarm(word) ==
    IF word = "Sweep" THEN NoLock
    ELSE [locked |-> TRUE, heard |-> word = "Hold",
          rotation |-> IF word = "Hold" THEN NIL ELSE word]

\* What the app's word does to the lock.
LockFor(word) ==
    IF word = "Sweep" THEN NoLock
    ELSE [locked |-> TRUE, heard |-> TRUE,
          rotation |-> IF word = "Hold" THEN NIL ELSE word]

\* Driver::on_listen.
OnListen ==
    /\ radio.at = "Listening" /\ listen # NIL
    /\ radio.locked => radio.irq = NIL /\ txChan = 0
    /\ listen' = NIL
    /\ radio' = Locks(LockFor(listen))
    /\ UNCHANGED <<rxChan, txChan, appVars, hist, count>>

-----------------------------------------------------------------------------
(* The app *)

\* App::listen: the radio is told, and only a rotation is remembered.
Tell(word) ==
    /\ listen' = word
    /\ rotation' = IF word \in Talkers THEN word ELSE NIL

\* App::listen_to_conveyor, once its time is trusted and if the rotation is
\* another.
ListenToConveyor(t) ==
    IF t # NIL /\ t.anchored /\ rotation # t.txid
    THEN Tell(t.txid)
    ELSE UNCHANGED <<listen, rotation>>

\* Mutant of Active: the radio was told to sweep, once and for all.
StaysTold == sweep' = [sweep EXCEPT !.quiet = FALSE]

\* logs.last_activity is now: another quiet spell begins.
Active == sweep' = [quiet |-> FALSE, told |-> FALSE]

\* App::ride_conveyor: [trans, landed].
RideConveyor(packet) ==
    LET timed == packet.timed
    IN  IF trans # NIL THEN
            IF trans.txid # packet.txid THEN [trans |-> trans, landed |-> FALSE]
            ELSE [trans |-> [trans EXCEPT !.anchored = @ \/ timed], landed |-> timed]
        ELSE IF packet.kind = "End" THEN [trans |-> NIL, landed |-> FALSE]
        ELSE [trans |-> [txid |-> packet.txid, anchored |-> timed], landed |-> timed]

Records(txid) == echo' = IF echo = NIL THEN txid ELSE echo

\* App::replay_echo: the recording goes out as a transmission of our own, of
\* which any number of packets is left to hand over.
ReplayEcho ==
    /\ echo' = NIL
    /\ Tell("Hold")
    /\ \E left \in 1..MaxVoice : app' = [at |-> "Streaming", left |-> left]

\* A packet is handled; menu: it came while the menu was open.
Handled(menu, left) ==
    hist' = [left |-> left, drained |-> FALSE, stale |-> hist.stale + IF menu THEN 1 ELSE 0]

\* relay() waits for room on TX_CHAN.
Relay == app' = [app EXCEPT !.at = "Relaying"]

\* A good packet of a transmission, by kind: a wake-up and voice may be relayed,
\* or recorded; one that is not the first copy, and all of a transmission not
\* on the conveyor, are dropped.
OnGood(packet, menu) ==
    LET ride == RideConveyor(packet)
    IN  /\ packet.kind \in {"Wake", "Voice"}
        /\ trans' = ride.trans
        /\ ListenToConveyor(ride.trans)
        /\ \/ packet.kind = "Voice" /\ mode = "Echo" /\ ride.landed /\ Records(packet.txid)
           \/ UNCHANGED echo
        /\ Handled(menu, hist.left)
        /\ \/ mode = "Repeater" /\ ride.landed /\ Relay
           \/ UNCHANGED app

\* App::on_end.
OnEnd(packet, menu) ==
    LET ride == RideConveyor(packet)
        its  == ride.trans # NIL /\ ride.trans.txid = packet.txid
    IN  /\ packet.kind = "End"
        /\ trans' = IF its THEN NIL ELSE ride.trans
        /\ IF mode = "Echo" /\ echo = packet.txid
           THEN /\ ReplayEcho
                /\ Handled(menu, FALSE)
           ELSE /\ ListenToConveyor(ride.trans)
                /\ UNCHANGED echo
                /\ Handled(menu, hist.left)
                /\ \/ mode = "Repeater" /\ ride.landed /\ Relay
                   \/ UNCHANGED app

\* One whose CRC failed, or that is of no use: it was on the air. An echo
\* station may record it garbled (App::play_garbled).
OnUseless(packet, menu) ==
    /\ ~IsAnyones(packet)
    /\ \/ /\ packet.kind = "Garbled" /\ PlayGarbled /\ mode = "Echo"
          /\ trans # NIL /\ trans.anchored /\ packet.timed
          /\ Records(trans.txid)
       \/ UNCHANGED echo
    /\ \/ packet.kind = "Other" /\ ListenToConveyor(trans)
       \/ UNCHANGED <<listen, rotation>>
    /\ Handled(menu, hist.left)
    /\ UNCHANGED <<app, trans>>

\* App::on_rx_packet.
OnRxPacket ==
    /\ app.at = "Idle" /\ rxChan # <<>>
    /\ rxChan' = Tail(rxChan)
    /\ Active
    /\ LET packet == Head(rxChan).packet
           menu   == Head(rxChan).menu
       IN  OnGood(packet, menu) \/ OnEnd(packet, menu) \/ OnUseless(packet, menu)
    /\ UNCHANGED <<txChan, radio, mode, count>>

\* The relay is on TX_CHAN.
Relayed ==
    /\ app.at = "Relaying" /\ txChan < TxCap
    /\ txChan' = txChan + 1
    /\ app' = [app EXCEPT !.at = "Idle"]
    /\ UNCHANGED <<rxChan, listen, radio, trans, rotation, echo, mode, sweep, hist, count>>

\* The loop takes packets before anything else.
Waits == app.at = "Idle" /\ rxChan = <<>>

\* App::on_ptt, refused while a transmission is on the conveyor.
OnPtt ==
    /\ Waits /\ trans = NIL
    /\ count.talks < MaxTalks
    /\ Tell("Hold")
    /\ \E left \in 1..MaxVoice : app' = [at |-> "Streaming", left |-> left]
    /\ count' = [count EXCEPT !.talks = @ + 1]
    /\ UNCHANGED <<rxChan, txChan, radio, trans, echo, mode, sweep, hist>>

\* App::stream and echo::replay, a packet at a time.
Stream ==
    /\ app.at = "Streaming" /\ app.left > 0 /\ txChan < TxCap
    /\ txChan' = txChan + 1
    /\ app' = [app EXCEPT !.left = @ - 1]
    /\ UNCHANGED <<rxChan, listen, radio, trans, rotation, echo, mode, sweep, hist, count>>

DiscardRx ==
    /\ DiscardsRx /\ rxChan # <<>>
    /\ rxChan' = Tail(rxChan)
    /\ UNCHANGED <<txChan, listen, radio, appVars, hist, count>>

\* The end packet's time has come.
Streamed ==
    /\ app.at = "Streaming" /\ app.left = 0
    /\ app' = [app EXCEPT !.at = "Idle"]
    /\ Active
    /\ hist' = [hist EXCEPT !.drained = FALSE]
    /\ UNCHANGED <<queues, radio, trans, rotation, echo, mode, count>>

\* REPLY_WAIT and RX_TIMEOUT go by.
Quieten ==
    /\ ~sweep.quiet
    /\ sweep' = [sweep EXCEPT !.quiet = TRUE]
    /\ UNCHANGED <<queues, radio, app, trans, rotation, echo, mode, hist, count>>

\* Mutant of ReplaysAtTheEnd: no replay without an end packet.
ReplaysNothing(over) == FALSE

\* Echo mode replays what it recorded, the end packet heard or not.
ReplaysAtTheEnd(over) == over /\ echo # NIL

\* App::housekeeping: a conveyor that is over goes; the radio sweeps once it is
\* quiet.
Housekeeping ==
    /\ Waits
    /\ \E over \in BOOLEAN :
        /\ over => trans # NIL
        /\ trans' = IF over THEN NIL ELSE trans
        /\ \/ /\ ReplaysAtTheEnd(over)
              /\ ReplayEcho
              /\ hist' = [hist EXCEPT !.left = FALSE]
              /\ UNCHANGED sweep
           \/ /\ ~ReplaysAtTheEnd(over)
              /\ IF trans' = NIL /\ sweep.quiet /\ ~sweep.told
                 THEN Tell("Sweep") /\ sweep' = [sweep EXCEPT !.told = TRUE]
                 ELSE UNCHANGED <<listen, rotation, sweep>>
              /\ UNCHANGED <<app, echo, hist>>
    /\ UNCHANGED <<rxChan, txChan, radio, mode, count>>

\* App::run_menu: the conveyor goes, the recording stays.
OpenMenu ==
    /\ Waits /\ count.menus < MaxMenus
    /\ app' = [app EXCEPT !.at = "Menu"]
    /\ trans' = NIL
    /\ hist' = [hist EXCEPT !.left = echo # NIL]
    /\ count' = [count EXCEPT !.menus = @ + 1]
    /\ UNCHANGED <<queues, radio, rotation, echo, mode, sweep>>

\* App::apply, Setting::Mode.
SetMode ==
    /\ app.at = "Menu"
    /\ mode' \in Modes
    /\ UNCHANGED <<queues, radio, app, trans, rotation, echo, sweep, hist, count>>

LeaveMenu ==
    /\ app.at = "Menu"
    /\ app' = [app EXCEPT !.at = "Leaving"]
    /\ UNCHANGED <<queues, radio, trans, rotation, echo, mode, sweep, hist, count>>

\* Mutant of Drained: what came meanwhile stays.
DrainedAtOnce == app.at = "Leaving"

\* All that had arrived has been dropped.
Drained == app.at = "Leaving" /\ rxChan = <<>>

\* The menu's exit drops what arrived, as the radio goes on handing over.
Drain ==
    \/ /\ Drained
       /\ app' = [app EXCEPT !.at = "Idle"]
       /\ UNCHANGED <<queues, radio, trans, rotation, echo, mode, sweep, hist, count>>
    \/ /\ app.at = "Leaving" /\ rxChan # <<>>
       /\ rxChan' = Tail(rxChan)
       /\ hist' = [hist EXCEPT !.drained = TRUE]
       /\ UNCHANGED <<txChan, listen, radio, appVars, count>>

-----------------------------------------------------------------------------
Init ==
    /\ rxChan = <<>> /\ txChan = 0 /\ listen = NIL
    /\ radio = [locked |-> FALSE, heard |-> FALSE, rotation |-> NIL,
                at |-> "Listening", hand |-> NIL, irq |-> NIL]
    /\ app = [at |-> "Idle", left |-> 0]
    /\ trans = NIL /\ rotation = NIL /\ echo = NIL
    /\ mode \in Modes
    /\ sweep = [quiet |-> FALSE, told |-> FALSE]
    /\ hist = [left |-> FALSE, drained |-> FALSE, stale |-> 0]
    /\ count = [arrivals |-> 0, talks |-> 0, menus |-> 0]

RadioNext == Hit \/ FalseAlarm \/ OnIrq \/ HandOver \/ OnTx \/ Sent \/ OnListen
AppNext == OnRxPacket \/ Relayed \/ Stream \/ DiscardRx \/ Streamed \/ Housekeeping
              \/ LeaveMenu \/ Drain

Next == RadioNext \/ AppNext \/ Arrive \/ OnPtt \/ Quieten \/ OpenMenu \/ SetMode

Spec == Init /\ [][Next]_vars

\* Both tasks go on as long as there is something to do, quiet spells pass, and
\* the user leaves the menu.
RadioWorks == OnIrq \/ HandOver \/ OnTx \/ Sent \/ OnListen

FairSpec == Spec /\ WF_vars(RadioWorks) /\ WF_vars(AppNext) /\ WF_vars(Quieten)

-----------------------------------------------------------------------------
(* Properties *)

TypeOK ==
    /\ rxChan \in Seq(Heard) /\ Len(rxChan) <= RxCap
    /\ txChan \in 0..TxCap
    /\ listen \in Talkers \cup {"Hold", "Sweep", NIL}
    /\ radio \in [locked : BOOLEAN, heard : BOOLEAN, rotation : Talkers \cup {NIL},
                  at : {"Listening", "Handing", "Sending"},
                  hand : Heard \cup {NIL}, irq : Heard \cup {NIL}]
    /\ radio.at = "Handing" <=> radio.hand # NIL
    /\ app \in [at : {"Idle", "Relaying", "Streaming", "Menu", "Leaving"}, left : 0..MaxVoice]
    /\ trans \in Transmissions \cup {NIL}
    /\ rotation \in Talkers \cup {NIL}
    /\ echo \in Talkers \cup {NIL}
    /\ mode \in Modes
    /\ sweep \in [quiet : BOOLEAN, told : BOOLEAN]
    /\ hist \in [left : BOOLEAN, drained : BOOLEAN, stale : Nat]
    /\ count \in [arrivals : Nat, talks : Nat, menus : Nat]

\* The two tasks never wait for each other for good, the radio to hand a packet
\* over to an app that waits to hand it one (what discard_rx is for): what is to
\* be sent is sent.
SendingEnds == app.at \in {"Relaying", "Streaming"} ~> app.at = "Idle"

\* What the app believes the radio listens on, it does, or has yet to be told:
\* so a conveyor's rotation is not left out because it is "already" set.
RotationAgrees ==
    rotation # NIL => \/ listen = rotation
                      \/ listen = NIL /\ radio.locked /\ radio.rotation = rotation

\* A recording's transmission is on the conveyor, whose end replays it, unless
\* the menu took it away.
RecordingRidesItsConveyor ==
    echo # NIL => hist.left \/ (trans # NIL /\ trans.txid = echo)

\* Of all that was heard while the menu was open, the app handles at most the one
\* the radio had in its hand or in its chip.
LeftoversAreFew == hist.stale <= count.menus

LockedOnAPacket == radio.locked /\ radio.heard

\* A radio that locked on a packet sweeps again once it is quiet: the app says
\* so. Not when the packet was thrown away by the menu's exit.
LockEnds == LockedOnAPacket ~> (~LockedOnAPacket \/ hist.drained)

\* The same without the exception: "only a good packet keeps us on the channel.
\* The app then says Sweep once it goes quiet" (radio.rs, on_irq).
SweepsOnceQuiet == LockedOnAPacket ~> ~LockedOnAPacket

\* A recording is replayed, its end packet heard or not (App::on_echo_packet).
RecordingIsReplayed == echo # NIL ~> echo = NIL
=============================================================================
