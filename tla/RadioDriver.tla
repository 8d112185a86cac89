------------------------------ MODULE RadioDriver ------------------------------
(***************************************************************************)
(* The radio's task (src/devices/radio.rs) beside its chip and the air,    *)
(* with its times: the IRQ line and its stamp (devices/irq_pin.rs), what   *)
(* is known of the air, the sweep, the lock and its false alarm, a         *)
(* rotation's turns, and a send from clear air to the end of its bin.      *)
(*                                                                         *)
(* Time is whole units, of no length of their own: only the order of the   *)
(* code's waits is kept (RadioAssumption).  The task may be held up        *)
(* anywhere (a flash write, the codec, the app).                           *)
(*                                                                         *)
(* Bounds of a run: MaxTime, MaxLate (units of time the task is held up,   *)
(* in all), MaxNoise (preambles and hits of nothing), MaxOrders (the app's *)
(* words on how to listen, and its packets to send).                       *)
(***************************************************************************)
EXTENDS Integers, Sequences, SequencesExt, FiniteSets

CONSTANTS Channels,         \* how many to sweep; 0: one channel, no sweeping
          Rotations,        \* those the app may give
          HeaderAfter,      \* air::header_after_preamble_us
          EndAfter,         \* air::after_header_us
          OffBy,            \* how late a packet decoded off its channel ends
          HeaderWait, PacketEndWait, FalseAlarmWait, SignHoldMax,
          Guard, Prepare, PrepareAtLeast, TxTime,
          MaxTime, MaxLate, MaxNoise, MaxOrders,
          NIL

\* Later than the app can ask for.
Times == 0..MaxTime

ASSUME RadioAssumption ==
    /\ Channels \in Nat
    /\ \A r \in Rotations : /\ r.from \in Int /\ r.every \in Nat \ {0}
                            /\ r.channels \in Seq(Nat) /\ r.channels # <<>>
    /\ {HeaderAfter, EndAfter, OffBy, FalseAlarmWait} \subseteq Nat \ {0}
    /\ {HeaderWait, PacketEndWait, SignHoldMax} \subseteq Nat
    /\ HeaderAfter < HeaderWait /\ EndAfter + OffBy < PacketEndWait
    /\ FalseAlarmWait < SignHoldMax
    /\ Guard \in Nat /\ Prepare \in Nat /\ PrepareAtLeast \in Nat /\ TxTime \in Nat \ {0}
    /\ MaxTime \in Nat /\ MaxLate \in Nat /\ MaxNoise \in Nat /\ MaxOrders \in Nat

VARIABLES now,
          sky,    \* the packet on the air, [ch, kind, at, step], or NIL
          chip,   \* [mode, ch, rcv: the packet in reception, [seen], or NIL,
                  \* done: one received and not read out, [end, ch, kind], or NIL]
          flags,  \* the chip's IRQ flags: DIO1 is high while there are any
          pin,    \* PinWake: [armed, fired, stamp]
          task,   \* [at, read: flags read and not yet cleared, packet: in hand,
                  \* req: to send, until: a wait's end]
          state,  \* State
          air,    \* Air: [what, at]
          header, \* header_us
          listen, \* LISTEN, or NIL
          txChan, \* TX_CHAN
          heard,  \* the packet just handed to the app, or NIL
          count   \* bounds: [late, noise, orders]

sending == <<listen, txChan>>
vars == <<now, sky, chip, flags, pin, task, state, air, header, listen, txChan, heard, count>>

Sweeps == Channels > 0

LowerOf(a, b)  == IF a < b THEN a ELSE b
HigherOf(a, b) == IF a < b THEN b ELSE a

-----------------------------------------------------------------------------
(* Rotations, and the app's words on how to listen *)

\* Listen
Words ==
    [word : {"Hold", "Sweep"}, rotation : {NIL}]
        \cup [word : {"Rotation"}, rotation : Rotations]

\* Rotation::channel_at
ChannelAt(r, at) == r.channels[(((at - r.from) \div r.every) % Len(r.channels)) + 1]

-----------------------------------------------------------------------------
(* What the task knows of the air *)

Clear == [what |-> "Clear", at |-> 0]

\* Which of the flags raised get_irq_state answers with: the last of a packet.
WhatItIs(raised) ==
    IF "Done" \in raised THEN "Done"
    ELSE IF "Header" \in raised THEN "Header"
    ELSE IF "Error" \in raised THEN "Error" ELSE "Preamble"

\* Air::after
After(what) == IF what \in {"Preamble", "Header"} THEN [what |-> what, at |-> now] ELSE Clear

Until(a) == a.at + (IF a.what = "Preamble" THEN HeaderWait ELSE PacketEndWait)

\* Air::busy_until
Busy(a) == a.what # "Clear" /\ Until(a) > now

Locked == state.mode = "Locked"

LockedOn(channel, isHeard, rotation) ==
    [mode |-> "Locked", channel |-> channel, hit |-> now, sign |-> now,
     heard |-> isHeard, rotation |-> rotation]

SweepingFrom(next) == [mode |-> "Sweeping", next |-> next, ready |-> FALSE]

\* Mutant of FalseAlarmAt: a packet that is arriving is not waited for.
AlarmInAnyCase == LowerOf(state.sign + FalseAlarmWait, state.hit + SignHoldMax)

\* Driver::false_alarm_at, of a lock with nothing heard.
FalseAlarmAt ==
    LET at == LowerOf(state.sign + FalseAlarmWait, state.hit + SignHoldMax)
    IN  IF Busy(air) THEN HigherOf(at, Until(air)) ELSE at

AlarmDue == Locked /\ ~state.heard /\ now >= FalseAlarmAt

OffItsChannel ==
    Locked /\ state.rotation # NIL /\ ChannelAt(state.rotation, now) # state.channel

\* Driver::turn_at: off the channel the rotation says for now, the bin's edge gone
\* by or not there yet; but a packet that is arriving finishes first.
TurnDue == OffItsChannel /\ ~Busy(air)

-----------------------------------------------------------------------------
(* The IRQ line *)

\* IrqPin::wait_for: a level that is there already has no stamp.
Armed(raised) == [armed |-> raised = {}, fired |-> FALSE, stamp |-> pin.stamp]

\* DIO1 rises, if it is not up: on_pin stamps it, and disarms.
Raise(flag) ==
    /\ flags' = flags \cup {flag}
    /\ pin' = IF pin.armed THEN [armed |-> FALSE, fired |-> TRUE, stamp |-> now] ELSE pin

\* How late the task is for the interrupt it woke for; NIL without one.
Late == IF pin.fired THEN now - pin.stamp ELSE NIL

\* fired_at_us, or the task's own time.
IrqTime == IF pin.fired THEN pin.stamp ELSE now

\* Mutant of StampIsIts: a gap may just have gone by.
StampOfAGapAgo(gap) == Late # NIL /\ Late <= gap

\* stamp_is_its
StampIsIts(gap) == Late # NIL /\ Late < gap

-----------------------------------------------------------------------------
(* The air *)

Listens(ch) == chip.mode = "Rx" /\ chip.ch = ch

\* A packet starts. "Off" is one decoded off its channel, "Broken" has a header
\* that fails, "Garbled" a CRC that does.
Starts ==
    /\ sky = NIL /\ now + HeaderAfter + EndAfter + OffBy <= MaxTime
    /\ \E ch \in 0..HigherOf(Channels - 1, 0), kind \in {"Good", "Garbled", "Off", "Broken"} :
        /\ sky' = [ch |-> ch, kind |-> kind, at |-> now, step |-> "Preamble"]
        /\ IF Listens(ch)
           THEN chip' = [chip EXCEPT !.rcv = [seen |-> FALSE]] /\ Raise("Preamble")
           ELSE UNCHANGED <<chip, flags, pin>>
    /\ UNCHANGED <<now, task, state, air, header, sending, heard, count>>

HeaderDue == sky # NIL /\ sky.step = "Preamble" /\ now = sky.at + HeaderAfter

HeaderComes ==
    /\ HeaderDue
    /\ sky' = IF sky.kind = "Broken" THEN NIL ELSE [sky EXCEPT !.step = "Header"]
    /\ IF chip.rcv = NIL THEN UNCHANGED <<chip, flags, pin>>
       ELSE IF sky.kind = "Broken"
       THEN chip' = [chip EXCEPT !.rcv = NIL] /\ Raise("Error")
       ELSE Raise("Header") /\ UNCHANGED chip
    /\ UNCHANGED <<now, task, state, air, header, sending, heard, count>>

EndDue ==
    /\ sky # NIL /\ sky.step = "Header"
    /\ now = sky.at + HeaderAfter + EndAfter + IF sky.kind = "Off" THEN OffBy ELSE 0

\* A packet received over one not read out takes its place.
Ends ==
    /\ EndDue
    /\ sky' = NIL
    /\ IF chip.rcv = NIL THEN UNCHANGED <<chip, flags, pin>>
       ELSE /\ chip' = [chip EXCEPT !.rcv = NIL,
                                    !.done = [end |-> now, ch |-> chip.ch, kind |-> sky.kind]]
            /\ Raise("Done")
    /\ UNCHANGED <<now, task, state, air, header, sending, heard, count>>

\* The detector takes something else for a preamble.
Noise ==
    /\ chip.mode = "Rx" /\ chip.rcv = NIL
    /\ count.noise < MaxNoise
    /\ Raise("Preamble")
    /\ count' = [count EXCEPT !.noise = @ + 1]
    /\ UNCHANGED <<now, sky, chip, task, state, air, header, sending, heard>>

-----------------------------------------------------------------------------
(* Listening *)

\* The chip is put on a channel, and may still catch a preamble there.
Tune(ch, raised, done) ==
    \E caught \in BOOLEAN :
        /\ caught => sky # NIL /\ sky.ch = ch /\ sky.step = "Preamble"
        /\ chip' = [mode |-> "Rx", ch |-> ch, done |-> done,
                    rcv |-> IF caught THEN [seen |-> FALSE] ELSE NIL]
        /\ flags' = IF caught THEN raised \cup {"Preamble"} ELSE raised
        /\ pin' = Armed(flags')

\* On a rotation, the channel it says for now.
Turned(s) ==
    IF s.rotation = NIL THEN s ELSE [s EXCEPT !.channel = ChannelAt(s.rotation, now)]

\* Driver::resume_listening, with the flags and the packet that are left in the
\* chip.
Resume(s, raised, done) ==
    CASE s.mode = "Locked"   -> state' = Turned(s) /\ Tune(Turned(s).channel, raised, done)
      [] s.mode = "Fixed"    -> state' = s /\ Tune(0, raised, done)
      [] s.mode = "Sweeping" -> /\ state' = [s EXCEPT !.ready = FALSE]
                                /\ chip' = [chip EXCEPT !.done = done]
                                /\ flags' = raised /\ pin' = Armed(raised)

Selecting == [at |-> "Select", read |-> {}, packet |-> NIL, req |-> NIL, until |-> 0]

\* The task waits for whatever comes first, IRQs before all else.
Waits == task.at = "Select" /\ flags = {} /\ state.mode # "Sweeping"

\* The task knows of the packet in reception, if the IRQ is its own.
Sees(what) ==
    IF chip.rcv # NIL /\ sky.step = what
    THEN [chip EXCEPT !.rcv = [seen |-> TRUE]] ELSE chip

\* Driver::on_irq, as far as what the IRQ is: a packet is read out (receive).
OnIrq ==
    /\ task.at = "Select" /\ state.mode # "Sweeping" /\ flags # {}
    /\ LET what == WhatItIs(flags)
           timed == /\ StampIsIts(EndAfter)
                    /\ header # NIL => /\ IrqTime - header - EndAfter < OffBy
                                       /\ header + EndAfter - IrqTime < OffBy
       IN  /\ air' = After(what)
           /\ state' = IF Locked /\ ~state.heard THEN [state EXCEPT !.sign = now] ELSE state
           /\ header' = IF what = "Header" /\ StampIsIts(HeaderAfter) THEN IrqTime
                        ELSE IF what = "Error" THEN header ELSE NIL
           /\ IF what = "Done"
              THEN /\ task' = [Selecting EXCEPT !.at = "Hand", !.read = flags,
                                 !.packet = [end |-> IrqTime, timed |-> timed,
                                             ok |-> chip.done.kind \in {"Good", "Off"},
                                             ended |-> chip.done.end,
                                             skewed |-> chip.done.kind = "Off",
                                             known |-> header # NIL]]
                   /\ chip' = [chip EXCEPT !.done = NIL]
              ELSE /\ task' = [Selecting EXCEPT !.at = "Clear", !.read = flags]
                   /\ chip' = Sees(what)
    /\ UNCHANGED <<now, sky, flags, pin, sending, heard, count>>

\* Driver::receive: once RX_CHAN has room. A good packet keeps the lock.
HandOver ==
    /\ task.at = "Hand"
    /\ heard' = task.packet
    /\ task' = [Selecting EXCEPT !.at = "Clear", !.read = task.read]
    /\ state' = IF Locked /\ task.packet.ok
                THEN [state EXCEPT !.heard = TRUE] ELSE state
    /\ UNCHANGED <<now, sky, chip, flags, pin, air, header, sending, count>>

\* Mutant of LeftToDo: all flags are cleared.
NothingLeft(read) == {}

\* clear_irq_flags_read: what was raised since stays.
LeftToDo(read) == flags \ read

\* A packet received since the flags were read, and theirs among them, goes.
ClearIrq ==
    /\ task.at = "Clear"
    /\ flags' = LeftToDo(task.read)
    /\ pin' = Armed(flags')
    /\ chip' = IF "Done" \in task.read THEN [chip EXCEPT !.done = NIL] ELSE chip
    /\ task' = Selecting /\ heard' = NIL
    /\ UNCHANGED <<now, sky, state, air, header, sending, count>>

\* Driver::on_listen
OnListen ==
    /\ task.at = "Select" /\ listen # NIL
    /\ state.mode # "Sweeping" => flags = {} /\ txChan = <<>>
    /\ listen' = NIL
    /\ IF state.mode = "Fixed" \/ (listen.word = "Sweep" /\ state.mode = "Sweeping")
       THEN UNCHANGED <<chip, flags, state, air>> /\ pin' = Armed(flags)
       ELSE IF listen.word = "Sweep"
       THEN /\ air' = Clear /\ state' = SweepingFrom(0)
            /\ UNCHANGED <<chip, flags, pin>>
       ELSE IF listen.word = "Hold"
       THEN Resume(LockedOn(0, TRUE, NIL), flags, chip.done) /\ UNCHANGED air
       ELSE IF \E channel \in Range(listen.rotation.channels) : channel >= Channels
       THEN UNCHANGED <<chip, flags, state, air>> /\ pin' = Armed(flags)
       ELSE IF Locked
       THEN /\ state' = LockedOn(state.channel, TRUE, listen.rotation)
            /\ UNCHANGED <<chip, flags, air>> /\ pin' = Armed(flags)
       ELSE /\ air' = Clear
            /\ Resume(LockedOn(ChannelAt(listen.rotation, now), TRUE, listen.rotation),
                      flags, chip.done)
    /\ UNCHANGED <<now, sky, task, header, txChan, heard, count>>

\* Back to sweeping, from the start slot, or from the next if that was it.
RestartAt(channel) == IF channel = 0 THEN 1 % Channels ELSE 0

\* Driver::on_false_alarm
OnFalseAlarm ==
    /\ Waits /\ txChan = <<>> /\ listen = NIL /\ AlarmDue
    /\ air' = Clear
    /\ state' = SweepingFrom(RestartAt(state.channel))
    /\ UNCHANGED <<now, sky, chip, flags, pin, task, header, sending, heard, count>>

\* Driver::on_turn
OnTurn ==
    /\ Waits /\ txChan = <<>> /\ listen = NIL /\ TurnDue
    /\ air' = Clear
    /\ Resume(state, flags, chip.done)
    /\ UNCHANGED <<now, sky, task, header, sending, heard, count>>

\* Driver::sweep_step, with no word of the app's and nothing to send. What the
\* chip had raised is gone once it is set up for CAD.
SweepStep ==
    /\ task.at = "Select" /\ state.mode = "Sweeping"
    /\ listen = NIL /\ txChan = <<>>
    /\ \/ /\ chip' = [mode |-> "Cad", ch |-> state.next, rcv |-> NIL, done |-> NIL]
          /\ flags' = {} /\ UNCHANGED <<pin, count>>
          /\ state' = [mode |-> "Sweeping", next |-> (state.next + 1) % Channels,
                       ready |-> TRUE]
       \/ /\ \/ sky # NIL /\ sky.ch = state.next /\ UNCHANGED count
             \/ count.noise < MaxNoise /\ count' = [count EXCEPT !.noise = @ + 1]
          /\ Resume(LockedOn(state.next, FALSE, NIL), {}, NIL)
    /\ UNCHANGED <<now, sky, task, air, header, sending, heard>>

-----------------------------------------------------------------------------
(* Sending *)

\* Driver::on_tx: a packet waiting to be sent. One that wants clear air waits
\* out what may be on it.
OnTx ==
    /\ task.at = "Select" /\ txChan # <<>>
    /\ IF state.mode = "Sweeping" THEN listen = NIL ELSE flags = {}
    /\ txChan' = Tail(txChan)
    /\ task' = IF Head(txChan).clear /\ Busy(air)
               THEN [Selecting EXCEPT !.at = "Wait", !.req = Head(txChan), !.until = Until(air)]
               ELSE [Selecting EXCEPT !.at = "Prepare", !.req = Head(txChan)]
    /\ pin' = Armed(flags)
    /\ UNCHANGED <<now, sky, chip, flags, state, air, header, listen, heard, count>>

\* Driver::wait_out_packet: a packet that ends is not read out.
WaitIrq ==
    /\ task.at = "Wait" /\ flags # {}
    /\ LET what == WhatItIs(flags)
       IN  /\ air' = After(what)
           /\ task' = IF what \in {"Preamble", "Header"}
                      THEN [task EXCEPT !.until = Until(After(what))]
                      ELSE [task EXCEPT !.at = "Prepare"]
           /\ chip' = [Sees(what) EXCEPT !.done = NIL]
    /\ flags' = {} /\ pin' = Armed({})
    /\ UNCHANGED <<now, sky, state, header, sending, heard, count>>

\* Driver::on_air_deadline
WaitOver ==
    /\ task.at = "Wait" /\ flags = {} /\ now >= task.until
    /\ air' = Clear
    /\ task' = [task EXCEPT !.at = "Prepare"]
    /\ UNCHANGED <<now, sky, chip, flags, pin, state, header, sending, heard, count>>

\* Driver::transmit: too late to get ready in, it is dropped, the chip as it was.
Prepares ==
    /\ task.at = "Prepare"
    /\ task.req.at # NIL => now >= task.req.at - Prepare
    /\ IF task.req.at # NIL /\ task.req.at + Guard - now < PrepareAtLeast
       THEN task' = Selecting /\ pin' = Armed(flags) /\ UNCHANGED chip
       ELSE /\ task' = [task EXCEPT !.at = "Ready"]
            /\ chip' = [chip EXCEPT !.mode = "Off", !.rcv = NIL]
            /\ UNCHANGED pin
    /\ UNCHANGED <<now, sky, flags, state, air, header, sending, heard, count>>

TooLate(req) == req.at # NIL /\ now - req.at > Guard

\* Mutant of DropsLate: dropped, and not listening again.
DropsDeaf == UNCHANGED <<chip, flags, state>> /\ pin' = Armed(flags)

\* Back to listening, as after a send.
DropsLate == Resume(state, flags, chip.done)

\* Its time has come: sent, or too late for its bin and dropped.
Sends ==
    /\ task.at = "Ready"
    /\ task.req.at # NIL => now >= task.req.at
    /\ IF TooLate(task.req)
       THEN task' = Selecting /\ DropsLate
       ELSE /\ task' = [task EXCEPT !.at = "Send", !.until = now + TxTime]
            /\ UNCHANGED <<chip, flags, pin, state>>
    /\ UNCHANGED <<now, sky, air, header, sending, heard, count>>

\* Sent: what the chip had raised before is gone.
Sent ==
    /\ task.at = "Send" /\ now >= task.until
    /\ task' = Selecting
    /\ Resume(state, {}, NIL)
    /\ UNCHANGED <<now, sky, air, header, sending, heard, count>>

-----------------------------------------------------------------------------
(* The app, and time *)

\* The app says how to listen; the last word counts.
Says ==
    /\ count.orders < MaxOrders
    /\ listen' \in Words
    /\ count' = [count EXCEPT !.orders = @ + 1]
    /\ UNCHANGED <<now, sky, chip, flags, pin, task, state, air, header, txChan, heard>>

\* It has a packet to send: the first of a transmission waits for clear air.
Asks ==
    /\ count.orders < MaxOrders
    /\ \E clear \in BOOLEAN, at \in {NIL, now + 1, now + Prepare + 1} :
        txChan' = Append(txChan, [clear |-> clear, at |-> at])
    /\ count' = [count EXCEPT !.orders = @ + 1]
    /\ UNCHANGED <<now, sky, chip, flags, pin, task, state, air, header, listen, heard>>

\* Nothing for the task to do but wait; a sweep goes on in its own time.
NothingDue ==
    \/ task.at = "Select" /\ state.mode = "Sweeping"
    \/ Waits /\ txChan = <<>> /\ listen = NIL /\ ~AlarmDue /\ ~TurnDue
    \/ task.at = "Wait" /\ flags = {} /\ now < task.until
    \/ task.at = "Prepare" /\ task.req.at # NIL /\ now < task.req.at - Prepare
    \/ task.at = "Ready" /\ task.req.at # NIL /\ now < task.req.at
    \/ task.at = "Send" /\ now < task.until

Tick ==
    /\ now < MaxTime
    /\ ~HeaderDue /\ ~EndDue
    /\ \/ NothingDue /\ UNCHANGED count
       \/ ~NothingDue /\ count.late < MaxLate /\ count' = [count EXCEPT !.late = @ + 1]
    /\ now' = now + 1
    /\ UNCHANGED <<sky, chip, flags, pin, task, state, air, header, sending, heard>>

-----------------------------------------------------------------------------
Init ==
    /\ now = 0 /\ sky = NIL
    /\ IF Sweeps
       THEN /\ chip = [mode |-> "Off", ch |-> 0, rcv |-> NIL, done |-> NIL]
            /\ state = SweepingFrom(0)
       ELSE /\ chip = [mode |-> "Rx", ch |-> 0, rcv |-> NIL, done |-> NIL]
            /\ state = [mode |-> "Fixed"]
    /\ flags = {}
    /\ pin = [armed |-> TRUE, fired |-> FALSE, stamp |-> 0]
    /\ task = Selecting
    /\ air = Clear /\ header = NIL
    /\ listen = NIL /\ txChan = <<>>
    /\ heard = NIL
    /\ count = [late |-> 0, noise |-> 0, orders |-> 0]

SkyNext == Starts \/ HeaderComes \/ Ends \/ Noise
TaskNext == OnIrq \/ HandOver \/ ClearIrq \/ OnListen \/ OnFalseAlarm \/ OnTurn \/ SweepStep
SendNext == OnTx \/ WaitIrq \/ WaitOver \/ Prepares \/ Sends \/ Sent

Next == SkyNext \/ TaskNext \/ SendNext \/ Says \/ Asks \/ Tick

Spec == Init /\ [][Next]_vars

-----------------------------------------------------------------------------
(* Properties *)

Flags == {"Preamble", "Header", "Error", "Done"}

Kinds == {"Good", "Garbled", "Off", "Broken"}

\* An index into the hop channels; 0 is the only one without them.
Indices == {ch \in Nat : ch = 0 \/ ch < Channels}

Packets == [ch : Indices, kind : Kinds, at : Nat, step : {"Preamble", "Header"}]

\* NIL is none of the packets on the air: an Option's None.
ASSUME NilAssumption == NIL \notin Packets

Receptions == [seen : BOOLEAN]

Arrivals == [end : Nat, ch : Indices, kind : Kinds]

Chips == [mode : {"Off", "Rx", "Cad"}, ch : Indices, rcv : Receptions \cup {NIL},
          done : Arrivals \cup {NIL}]

Handed == [end : Nat, timed : BOOLEAN, ok : BOOLEAN, ended : Nat, skewed : BOOLEAN,
           known : BOOLEAN]

Requests == [clear : BOOLEAN, at : Nat \cup {NIL}]

Tasks == [at : {"Select", "Hand", "Clear", "Wait", "Prepare", "Ready", "Send"},
          read : SUBSET Flags, packet : Handed \cup {NIL}, req : Requests \cup {NIL},
          until : Nat]

States == [mode : {"Fixed"}]
            \cup [mode : {"Sweeping"}, next : Indices, ready : BOOLEAN]
            \cup [mode : {"Locked"}, channel : Indices, hit : Nat, sign : Nat,
                  heard : BOOLEAN, rotation : Rotations \cup {NIL}]

Pins == [armed : BOOLEAN, fired : BOOLEAN, stamp : Nat]

Airs == [what : {"Clear", "Preamble", "Header"}, at : Nat]

Counts == [late : Nat, noise : Nat, orders : Nat]

\* The variables have their types; the radio is on a channel there is, whatever
\* rotation the app gives.
TypeOK ==
    /\ now \in Nat /\ sky \in Packets \cup {NIL} /\ chip \in Chips
    /\ flags \subseteq Flags /\ pin \in Pins
    /\ task \in Tasks /\ state \in States
    /\ air \in Airs
    /\ header \in Nat \cup {NIL} /\ heard \in Handed \cup {NIL}
    /\ listen \in Words \cup {NIL} /\ txChan \in Seq(Requests)
    /\ count \in Counts

\* A packet the app is told to trust the time of ended then: the stamp is not an
\* earlier IRQ's, however late the task was, nor off its channel's, if its
\* header's time was known.
TimedPacketsEndedThen ==
    heard # NIL /\ heard.timed =>
        heard.end = heard.ended /\ (heard.known => ~heard.skewed)

\* A packet in the chip has an IRQ up for it: no other's handling clears it unread.
PacketsAreFetched == chip.done # NIL => "Done" \in flags

\* The radio is never deaf, nor on another channel than it thinks: but while it
\* sends, the chip is as the state says.
ListensAsItSays ==
    task.at \notin {"Ready", "Send"} =>
        /\ Locked => Listens(state.channel)
        /\ state.mode = "Fixed" => Listens(0)
        /\ state.mode = "Sweeping" /\ state.ready => chip.mode = "Cad"

\* A packet whose preamble or header the task has seen is received to its end,
\* false alarm or turn: only the app's word, or a send, takes the radio away.
NoPacketCutShort ==
    [][chip.rcv # NIL /\ chip.rcv.seen /\ Locked =>
          \/ state'.mode = "Locked" /\ state'.channel = state.channel
          \/ listen # NIL /\ listen' = NIL]_vars
=============================================================================
