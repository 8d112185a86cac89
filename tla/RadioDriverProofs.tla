--------------------------- MODULE RadioDriverProofs ---------------------------
(***************************************************************************)
(* The radio's task and its chip, for any channels, rotations and times:   *)
(* its types, that a packet the app may trust the time of ended then, that *)
(* none is left in the chip unread, that the radio listens where it says,  *)
(* and that no packet it has seen is cut short.                            *)
(*                                                                         *)
(* The proofs follow a packet from the air to the app: what the sky and    *)
(* the IRQ line's stamp say of one that arrives (StampOK, HeaderOK), what  *)
(* the flags not yet handled say of one that has (DoneOK), and what the    *)
(* task knows of one it has seen (SeenOK).                                 *)
(***************************************************************************)
EXTENDS RadioDriver, SequenceTheorems, TLAPS

-----------------------------------------------------------------------------
(* Records *)

Rcvs  == Receptions \cup {NIL}
Dones == Arrivals \cup {NIL}

LEMMA ChipSet == Chips = [mode : {"Off", "Rx", "Cad"}, ch : Indices, rcv : Rcvs, done : Dones]
BY DEF Chips, Rcvs, Dones

LEMMA ChipFacts == \A c \in Chips : c.ch \in Indices /\ c.rcv \in Rcvs /\ c.done \in Dones
BY ChipSet

\* A chip with another reception, with another packet received, or off.
LEMMA WithRcv ==
    ASSUME NEW c \in Chips, NEW rcv \in Rcvs
    PROVE  LET new == [c EXCEPT !.rcv = rcv]
           IN  new \in Chips /\ new.rcv = rcv /\ new.done = c.done
               /\ new.mode = c.mode /\ new.ch = c.ch
BY ChipSet

LEMMA WithDone ==
    ASSUME NEW c \in Chips, NEW done \in Dones
    PROVE  LET new == [c EXCEPT !.done = done]
           IN  new \in Chips /\ new.rcv = c.rcv /\ new.done = done
               /\ new.mode = c.mode /\ new.ch = c.ch
BY ChipSet

LEMMA TurnedOff ==
    ASSUME NEW c \in Chips, NEW rcv \in Rcvs
    PROVE  LET new == [c EXCEPT !.mode = "Off", !.rcv = rcv]
           IN  new \in Chips /\ new.rcv = rcv /\ new.done = c.done /\ new.mode = "Off"
BY ChipSet

StateOK(s) ==
    /\ s.mode \in {"Fixed", "Sweeping", "Locked"}
    /\ s.mode = "Sweeping" =>
        LET new == [s EXCEPT !.ready = FALSE]
        IN  /\ s.next \in Indices
            /\ new \in States /\ new.mode = "Sweeping" /\ new.ready = FALSE
    /\ s.mode = "Locked" =>
        /\ s.channel \in Indices /\ s.hit \in Nat /\ s.sign \in Nat
        /\ s.rotation \in Rotations \cup {NIL}
        /\ \A at \in Nat :
            LET new == [s EXCEPT !.sign = at]
            IN  new \in States /\ new.mode = "Locked" /\ new.channel = s.channel
                /\ new.rotation = s.rotation
        /\ LET new == [s EXCEPT !.heard = TRUE]
           IN  new \in States /\ new.mode = "Locked" /\ new.channel = s.channel
                /\ new.rotation = s.rotation
        /\ \A ch \in Indices :
            LET new == [s EXCEPT !.channel = ch]
            IN  new \in States /\ new.mode = "Locked" /\ new.channel = ch
                /\ new.rotation = s.rotation

LEMMA StateFacts == \A s \in States : StateOK(s)
<1> SUFFICES ASSUME NEW s \in States PROVE StateOK(s)
  OBVIOUS
<1>1. CASE s \in [mode : {"Fixed"}] BY <1>1 DEF StateOK
<1>2. CASE s \in [mode : {"Sweeping"}, next : Indices, ready : BOOLEAN]
  BY <1>2 DEF States, StateOK
<1>3. CASE s \in [mode : {"Locked"}, channel : Indices, hit : Nat, sign : Nat,
                  heard : BOOLEAN, rotation : Rotations \cup {NIL}]
  BY <1>3 DEF States, StateOK
<1> QED BY <1>1, <1>2, <1>3 DEF States

Steps == {"Select", "Hand", "Clear", "Wait", "Prepare", "Ready", "Send"}
Reads == SUBSET Flags
InHand == Handed \cup {NIL}
Wanted == Requests \cup {NIL}

LEMMA TaskSet ==
    Tasks = [at : Steps, read : Reads, packet : InHand, req : Wanted, until : Nat]
BY DEF Tasks, Steps, Reads, InHand, Wanted

LEMMA TaskFacts ==
    \A t \in Tasks : /\ t.at \in Steps /\ t.read \in Reads /\ t.packet \in InHand
                     /\ t.req \in Wanted /\ t.until \in Nat
BY TaskSet

\* A task at another step, until another time, or both.
LEMMA TaskAt ==
    ASSUME NEW t \in Tasks, NEW at \in Steps
    PROVE  LET new == [t EXCEPT !.at = at]
           IN  new \in Tasks /\ new.at = at /\ new.read = t.read /\ new.packet = t.packet
BY TaskSet

LEMMA TaskUntil ==
    ASSUME NEW t \in Tasks, NEW until \in Nat
    PROVE  LET new == [t EXCEPT !.until = until]
           IN  new \in Tasks /\ new.at = t.at /\ new.read = t.read
               /\ new.packet = t.packet /\ new.until = until
BY TaskSet

LEMMA TaskAtUntil ==
    ASSUME NEW t \in Tasks, NEW at \in Steps, NEW until \in Nat
    PROVE  LET new == [t EXCEPT !.at = at, !.until = until]
           IN  new \in Tasks /\ new.at = at /\ new.read = t.read /\ new.packet = t.packet
BY TaskSet

LEMMA SelectingIs ==
    /\ Selecting \in Tasks
    /\ Selecting.at = "Select" /\ Selecting.read = {} /\ Selecting.packet = NIL
<1>1. {} \in Reads /\ "Select" \in Steps /\ NIL \in InHand /\ NIL \in Wanted
  BY DEF Reads, Steps, InHand, Wanted
<1> QED
  BY <1>1, TaskSet DEF Selecting

\* A task that begins something.
LEMMA Clears ==
    ASSUME NEW read \in Reads
    PROVE  LET new == [Selecting EXCEPT !.at = "Clear", !.read = read]
           IN  new \in Tasks /\ new.at = "Clear" /\ new.read = read /\ new.packet = NIL
BY SelectingIs, TaskSet DEF Steps

LEMMA Hands ==
    ASSUME NEW read \in Reads, NEW packet \in InHand
    PROVE  LET new == [Selecting EXCEPT !.at = "Hand", !.read = read, !.packet = packet]
           IN  new \in Tasks /\ new.at = "Hand" /\ new.read = read /\ new.packet = packet
BY SelectingIs, TaskSet DEF Steps

LEMMA Prepared ==
    ASSUME NEW req \in Wanted
    PROVE  LET new == [Selecting EXCEPT !.at = "Prepare", !.req = req]
           IN  new \in Tasks /\ new.at = "Prepare" /\ new.read = {} /\ new.packet = NIL
BY SelectingIs, TaskSet DEF Steps

LEMMA Awaits ==
    ASSUME NEW req \in Wanted, NEW until \in Nat
    PROVE  LET new == [Selecting EXCEPT !.at = "Wait", !.req = req, !.until = until]
           IN  new \in Tasks /\ new.at = "Wait" /\ new.read = {} /\ new.packet = NIL
               /\ new.until = until
BY SelectingIs, TaskSet DEF Steps

-----------------------------------------------------------------------------
(* The channel a rotation says, and putting the chip on one *)

\* A rotation the driver has accepted: on channels there are.
Fits(r) == \A i \in 1..Len(r.channels) : r.channels[i] < Channels

LEMMA RotationsChannel ==
    ASSUME NEW r \in Rotations, Fits(r), NEW at \in Nat
    PROVE  ChannelAt(r, at) \in Indices
<1>1. /\ r.from \in Int /\ r.every \in Nat \ {0}
      /\ r.channels \in Seq(Nat) /\ r.channels # <<>>
  BY RadioAssumption
<1> DEFINE bin == (at - r.from) \div r.every
           n == Len(r.channels)
<1>2. n \in Nat \ {0}
  BY <1>1, EmptySeq
<1>3. bin \in Int
  BY <1>1
<1>4. \A d \in Int, m \in Nat \ {0} : (d % m) + 1 \in 1..m
  OBVIOUS
<1>5. (bin % n) + 1 \in 1..n
  <2> HIDE DEF bin, n
  <2> QED BY <1>2, <1>3, <1>4
<1>6. PICK i \in 1..n : i = (bin % n) + 1
  BY <1>5
<1>7. r.channels[i] \in Nat /\ r.channels[i] < Channels
  BY <1>1, ElementOfSeq DEF Fits
<1>8. ChannelAt(r, at) = r.channels[i]
  BY <1>6 DEF ChannelAt
<1> QED
  BY <1>7, <1>8 DEF Indices

\* A state the driver can be in: no sweep without channels, no rotation that does
\* not fit.
StateFits(s) ==
    /\ s \in States
    /\ s.mode # "Fixed" => Sweeps
    /\ s.mode = "Locked" /\ s.rotation # NIL => Fits(s.rotation)

\* The packet in reception, if any, was only just caught.
Fresh ==
    chip'.rcv = NIL \/ (chip'.rcv = [seen |-> FALSE] /\ sky # NIL /\ sky.step = "Preamble")

LEMMA TuneFacts ==
    ASSUME NEW ch \in Indices, NEW raised \in SUBSET Flags, NEW done \in Dones,
           Tune(ch, raised, done)
    PROVE  /\ chip' \in Chips
           /\ chip'.mode = "Rx" /\ chip'.ch = ch /\ chip'.done = done /\ Fresh
           /\ flags' \subseteq Flags /\ raised \subseteq flags'
           /\ "Done" \in flags' => "Done" \in raised
           /\ pin' = Armed(flags')
<1> DEFINE Rx(rcv) == [mode |-> "Rx", ch |-> ch, done |-> done, rcv |-> rcv]
<1>1. \A rcv \in Rcvs :
        /\ Rx(rcv) \in Chips
        /\ Rx(rcv).mode = "Rx" /\ Rx(rcv).ch = ch /\ Rx(rcv).done = done
        /\ Rx(rcv).rcv = rcv
  BY DEF Chips, Rcvs, Dones
<1>2. NIL \in Rcvs /\ [seen |-> FALSE] \in Rcvs
  BY DEF Rcvs, Receptions
<1>3. \/ chip' = Rx(NIL) /\ flags' = raised
      \/ /\ chip' = Rx([seen |-> FALSE]) /\ flags' = raised \cup {"Preamble"}
         /\ sky # NIL /\ sky.step = "Preamble"
  BY DEF Tune
<1>4. pin' = Armed(flags')
  BY DEF Tune
<1> HIDE DEF Rx
<1>5. /\ chip' \in Chips /\ chip'.mode = "Rx" /\ chip'.ch = ch /\ chip'.done = done
      /\ Fresh
  BY <1>1, <1>2, <1>3 DEF Fresh
<1>6. /\ flags' \subseteq Flags /\ raised \subseteq flags'
      /\ "Done" \in flags' => "Done" \in raised
  BY <1>3 DEF Flags
<1> QED
  BY <1>4, <1>5, <1>6

\* The chip is as the state says.
AsItSays(s, c) ==
    /\ s.mode = "Locked" => c.mode = "Rx" /\ c.ch = s.channel
    /\ s.mode = "Fixed" => c.mode = "Rx" /\ c.ch = 0
    /\ s.mode = "Sweeping" /\ s.ready => c.mode = "Cad"

LEMMA ResumeFacts ==
    ASSUME NEW s, StateFits(s), NEW raised \in SUBSET Flags, NEW done \in Dones,
           now \in Nat, chip \in Chips,
           Resume(s, raised, done)
    PROVE  /\ StateFits(state') /\ state'.mode = s.mode
           /\ s.mode = "Locked" /\ s.rotation = NIL => state' = s
           /\ chip' \in Chips /\ chip'.done = done
           /\ flags' \subseteq Flags /\ raised \subseteq flags'
           /\ "Done" \in flags' => "Done" \in raised
           /\ pin' = Armed(flags')
           /\ AsItSays(state', chip')
           /\ IF s.mode = "Sweeping" THEN chip'.rcv = chip.rcv ELSE Fresh
<1>1. s \in States /\ StateOK(s) /\ s.mode \in {"Fixed", "Sweeping", "Locked"}
  BY StateFacts DEF StateFits, StateOK
<1>2. CASE s.mode = "Fixed"
  <2>1. state' = s /\ Tune(0, raised, done)
    BY <1>2 DEF Resume
  <2>2. 0 \in Indices
    BY DEF Indices
  <2> QED
    BY <1>2, <2>1, <2>2, TuneFacts DEF AsItSays
<1>3. CASE s.mode = "Sweeping"
  <2>1. /\ state' = [s EXCEPT !.ready = FALSE] /\ chip' = [chip EXCEPT !.done = done]
        /\ flags' = raised /\ pin' = Armed(raised)
    BY <1>3 DEF Resume
  <2>2. state' \in States /\ state'.mode = "Sweeping" /\ state'.ready = FALSE
    BY <1>1, <1>3, <2>1 DEF StateOK
  <2>3. chip' \in Chips /\ chip'.done = done /\ chip'.rcv = chip.rcv
    BY <2>1, WithDone
  <2>4. StateFits(state')
    BY <1>3, <2>2 DEF StateFits
  <2>5. AsItSays(state', chip')
    BY <2>2 DEF AsItSays
  <2> QED
    BY <1>3, <2>1, <2>2, <2>3, <2>4, <2>5
<1>4. CASE s.mode = "Locked"
  <2>1. state' = Turned(s) /\ Tune(Turned(s).channel, raised, done)
    BY <1>4 DEF Resume
  <2>2. s.channel \in Indices /\ s.rotation \in Rotations \cup {NIL}
    BY <1>1, <1>4 DEF StateOK
  <2>3. CASE s.rotation = NIL
    <3>1. Turned(s) = s
      BY <2>3 DEF Turned
    <3> QED
      BY <1>4, <2>1, <2>2, <3>1, TuneFacts DEF AsItSays
  <2>4. CASE s.rotation # NIL
    <3>1. PICK ch \in Indices : ch = ChannelAt(s.rotation, now)
      BY <1>4, <2>2, <2>4, RotationsChannel DEF StateFits
    <3>2. state' = [s EXCEPT !.channel = ch]
      BY <2>1, <2>4, <3>1 DEF Turned
    <3>3. /\ state' \in States /\ state'.mode = "Locked" /\ state'.channel = ch
          /\ state'.rotation = s.rotation
      BY <1>1, <1>4, <3>2 DEF StateOK
    <3>4. Tune(ch, raised, done)
      BY <2>1, <3>3
    <3>5. StateFits(state')
      BY <1>4, <3>3 DEF StateFits
    <3> QED
      BY <1>4, <2>4, <3>3, <3>4, <3>5, TuneFacts DEF AsItSays
  <2> QED
    BY <2>3, <2>4
<1> QED
  BY <1>1, <1>2, <1>3, <1>4

-----------------------------------------------------------------------------
(* The line, and what is known of the air *)

LEMMA ArmedFacts ==
    ASSUME pin \in Pins, NEW raised
    PROVE  /\ Armed(raised) \in Pins
           /\ Armed(raised).stamp = pin.stamp
           /\ Armed(raised).fired = FALSE
           /\ Armed(raised).armed = TRUE => raised = {}
BY DEF Pins, Armed

LEMMA RaiseFacts ==
    ASSUME pin \in Pins, now \in Nat, flags \subseteq Flags, NEW flag \in Flags, Raise(flag)
    PROVE  /\ flags' = flags \cup {flag} /\ flags' \subseteq Flags
           /\ pin' \in Pins
           /\ IF pin.armed = TRUE
              THEN pin'.armed = FALSE /\ pin'.fired = TRUE /\ pin'.stamp = now
              ELSE pin' = pin
BY DEF Pins, Raise

LEMMA AirFacts ==
    /\ \A a \in Airs : a.what \in {"Clear", "Preamble", "Header"} /\ a.at \in Nat
                       /\ Until(a) \in Nat
    /\ Clear \in Airs /\ Clear.what = "Clear"
    /\ now \in Nat => \A what : After(what) \in Airs
    /\ \A what \in {"Preamble", "Header"} : After(what).what = what /\ After(what).at = now
BY RadioAssumption DEF Airs, Until, Clear, After

LEMMA WhatItIsFacts ==
    ASSUME NEW raised \in SUBSET Flags, raised # {}
    PROVE  /\ WhatItIs(raised) \in raised
           /\ "Done" \in raised => WhatItIs(raised) = "Done"
           /\ WhatItIs(raised) = "Preamble" => "Header" \notin raised
           /\ raised \subseteq {"Preamble", "Header"} /\ "Header" \in raised =>
                WhatItIs(raised) = "Header"
BY DEF WhatItIs, Flags

LEMMA PinFacts == \A p \in Pins : p.armed \in BOOLEAN /\ p.fired \in BOOLEAN /\ p.stamp \in Nat
BY DEF Pins

LEMMA CountFacts ==
    \A c \in Counts :
        /\ [c EXCEPT !.late = @ + 1] \in Counts
        /\ [c EXCEPT !.noise = @ + 1] \in Counts
        /\ [c EXCEPT !.orders = @ + 1] \in Counts
BY DEF Counts

LEMMA SkyFacts ==
    \A p \in Packets :
        /\ p.ch \in Indices /\ p.at \in Nat /\ p.kind \in Kinds
        /\ p.step \in {"Preamble", "Header"}
        /\ LET new == [p EXCEPT !.step = "Header"]
           IN  new \in Packets /\ new.step = "Header" /\ new.at = p.at /\ new.kind = p.kind
BY DEF Packets

LEMMA SeesFacts ==
    ASSUME chip \in Chips, NEW what
    PROVE  /\ Sees(what) \in Chips
           /\ Sees(what).done = chip.done /\ Sees(what).mode = chip.mode
           /\ Sees(what).ch = chip.ch
           /\ Sees(what).rcv = NIL \/ chip.rcv # NIL
           /\ Sees(what).rcv = chip.rcv \/ sky.step = what
<1>1. PICK rcv \in Rcvs : rcv = [seen |-> TRUE]
  BY DEF Rcvs, Receptions
<1>2. CASE chip.rcv # NIL /\ sky.step = what
  <2>1. Sees(what) = [chip EXCEPT !.rcv = rcv]
    BY <1>1, <1>2 DEF Sees
  <2> QED
    BY <1>2, <2>1, WithRcv
<1>3. CASE ~(chip.rcv # NIL /\ sky.step = what)
  BY <1>3 DEF Sees
<1> QED
  BY <1>2, <1>3

-----------------------------------------------------------------------------
(* What every step keeps *)

\* What is raised and not yet read.
Pending == flags \ task.read

\* The types; the flags are read only to be cleared; a packet received, if its
\* interrupt is not handled, is there to be read out.
Stored ==
    /\ TypeOK
    /\ StateFits(state)
    /\ task.at \notin {"Hand", "Clear"} => task.read = {}
    /\ "Done" \in Pending => chip.done \in Arrivals

\* But while it sends, the chip is as the state says; then, it hears nothing.
ListenOK ==
    IF task.at \in {"Ready", "Send"} THEN chip.mode = "Off" /\ chip.rcv = NIL
    ELSE AsItSays(state, chip)

\* The air, and what is not handled of it, are as before: no packet is caught but
\* in its preamble, and the line is armed again or as it was.
Settled ==
    /\ now' = now /\ sky' = sky /\ header' = header
    /\ chip'.rcv # NIL =>
        chip.rcv # NIL \/ (sky # NIL /\ sky.step = "Preamble")
    /\ "Done" \in Pending' => "Done" \in Pending /\ chip'.done = chip.done
    /\ pin' = Armed(flags') \/ (pin' = pin /\ flags' \subseteq flags)

\* What is known of a packet that has been seen is as before.
SeenKept ==
    \/ state'.mode = "Sweeping"
    \/ chip'.rcv = NIL
    \/ chip'.rcv.seen = FALSE
    \/ /\ chip'.rcv = chip.rcv /\ air' = air /\ sky' = sky /\ state.mode # "Sweeping"
       /\ Pending' = Pending /\ task'.read \subseteq task.read

\* What every step keeps.
Kept ==
    /\ Stored'
    /\ PacketsAreFetched => PacketsAreFetched'
    /\ ListenOK => ListenOK'

LEMMA HandOverKeeps == ASSUME Stored, HandOver PROVE Kept /\ Settled /\ SeenKept
<1>1. task \in Tasks /\ task.read \in Reads /\ task.packet \in InHand
  BY TaskFacts DEF Stored, TypeOK
<1>2. /\ task' \in Tasks /\ task'.at = "Clear" /\ task'.read = task.read
  BY <1>1, Clears DEF HandOver
<1>3. UNCHANGED <<now, sky, chip, flags, pin, air, header, listen, txChan, count>>
  BY DEF HandOver, sending
<1>4. heard' \in InHand
  BY <1>1 DEF HandOver
<1>5. StateFits(state') /\ state'.mode = state.mode /\ (AsItSays(state, chip) => AsItSays(state', chip'))
  <2>1. CASE state.mode = "Locked" /\ state' = [state EXCEPT !.heard = TRUE]
    BY <1>3, <2>1, StateFacts DEF Stored, StateFits, StateOK, AsItSays
  <2>2. CASE state' = state
    BY <1>3, <2>2 DEF Stored, AsItSays
  <2> QED
    BY <2>1, <2>2 DEF HandOver, Locked
<1>6. Pending' = Pending
  BY <1>2, <1>3 DEF Pending
<1>7. Stored'
  BY <1>2, <1>3, <1>4, <1>5, <1>6 DEF Stored, TypeOK, StateFits, InHand
<1>8. Settled
  BY <1>3, <1>6 DEF Settled
<1>9. SeenKept
  BY <1>2, <1>3, <1>5, <1>6 DEF SeenKept
<1>10. (PacketsAreFetched => PacketsAreFetched') /\ (ListenOK => ListenOK')
  BY <1>2, <1>3, <1>5 DEF PacketsAreFetched, ListenOK, HandOver
<1> QED
  BY <1>7, <1>8, <1>9, <1>10 DEF Kept

LEMMA ClearIrqKeeps == ASSUME Stored, ClearIrq PROVE Kept /\ Settled /\ SeenKept
<1>1. task' \in Tasks /\ task'.at = "Select" /\ task'.read = {}
  BY SelectingIs DEF ClearIrq
<1>2. UNCHANGED <<now, sky, state, air, header, listen, txChan, count>> /\ heard' = NIL
  BY DEF ClearIrq, sending
<1>3. flags' = Pending /\ Pending' = Pending /\ flags' \subseteq Flags
  BY <1>1 DEF ClearIrq, LeftToDo, Pending, Stored, TypeOK
<1>4. pin' = Armed(flags') /\ pin' \in Pins
  BY ArmedFacts DEF ClearIrq, Stored, TypeOK
<1>5. /\ chip' \in Chips /\ chip'.rcv = chip.rcv
      /\ chip'.mode = chip.mode /\ chip'.ch = chip.ch
      /\ IF "Done" \in task.read THEN chip'.done = NIL ELSE chip'.done = chip.done
  <2>1. CASE "Done" \in task.read
    <3>1. chip' = [chip EXCEPT !.done = NIL]
      BY <2>1 DEF ClearIrq
    <3> QED
      BY <2>1, <3>1, WithDone DEF Stored, TypeOK, Dones
  <2>2. CASE "Done" \notin task.read
    BY <2>2 DEF ClearIrq, Stored, TypeOK
  <2> QED
    BY <2>1, <2>2
<1>6. Stored'
  BY <1>1, <1>2, <1>3, <1>4, <1>5 DEF Stored, TypeOK, StateFits, Pending
<1>7. Settled
  BY <1>2, <1>3, <1>4, <1>5 DEF Settled, Pending
<1>8. SeenKept
  BY <1>1, <1>2, <1>3, <1>5 DEF SeenKept
<1>9. PacketsAreFetched => PacketsAreFetched'
  BY <1>3, <1>5 DEF PacketsAreFetched, Pending
<1>10. ListenOK => ListenOK'
  BY <1>1, <1>2, <1>5 DEF ListenOK, AsItSays, ClearIrq
<1> QED
  BY <1>6, <1>7, <1>8, <1>9, <1>10 DEF Kept

\* A state with no rotation, or one that fits, is one the driver can be in.
LEMMA LockedFits ==
    ASSUME NEW ch \in Indices, NEW isHeard \in BOOLEAN, NEW r \in Rotations \cup {NIL},
           r # NIL => Fits(r), Sweeps, now \in Nat
    PROVE  StateFits(LockedOn(ch, isHeard, r))
BY DEF StateFits, LockedOn, States

LEMMA SweepingFits ==
    ASSUME NEW next \in Indices, Sweeps
    PROVE  StateFits(SweepingFrom(next)) /\ SweepingFrom(next).mode = "Sweeping"
           /\ SweepingFrom(next).ready = FALSE
BY DEF StateFits, SweepingFrom, States

\* The driver resumes listening, with what was left in the chip, or with nothing.
LEMMA ResumedKeeps ==
    ASSUME Stored, NEW s, StateFits(s), NEW raised, NEW done, Resume(s, raised, done),
           \/ raised = flags /\ done = chip.done
           \/ raised = {} /\ done = NIL,
           task.read = {}, task' \in Tasks, task'.at = "Select", task'.read = {},
           UNCHANGED <<now, sky, header, heard, txChan>>,
           air' \in Airs, listen' \in Words \cup {NIL}, count' \in Counts
    PROVE  Kept /\ Settled /\ SeenKept
<1>1. raised \in SUBSET Flags /\ done \in Dones /\ now \in Nat /\ chip \in Chips
  BY ChipFacts DEF Stored, TypeOK, Dones
<1>2. /\ StateFits(state') /\ state'.mode = s.mode
      /\ chip' \in Chips /\ chip'.done = done
      /\ flags' \subseteq Flags /\ raised \subseteq flags'
      /\ "Done" \in flags' => "Done" \in raised
      /\ pin' = Armed(flags')
      /\ AsItSays(state', chip')
      /\ IF s.mode = "Sweeping" THEN chip'.rcv = chip.rcv ELSE Fresh
  BY <1>1, ResumeFacts
<1>3. pin' \in Pins
  BY <1>2, ArmedFacts DEF Stored, TypeOK
<1>4. "Done" \in Pending' => "Done" \in Pending /\ chip'.done = chip.done
  BY <1>2 DEF Pending
<1>5. Stored'
  <2>1. TypeOK'
    BY <1>2, <1>3 DEF Stored, TypeOK, StateFits
  <2>2. "Done" \in Pending' => chip'.done \in Arrivals
    BY <1>4 DEF Stored
  <2> QED
    BY <1>2, <2>1, <2>2 DEF Stored
<1>6. chip'.rcv # NIL => chip.rcv # NIL \/ (sky # NIL /\ sky.step = "Preamble")
  BY <1>2 DEF Fresh
<1>7. Settled
  BY <1>2, <1>4, <1>6 DEF Settled
<1>8. SeenKept
  BY <1>2 DEF SeenKept, Fresh
<1>9. PacketsAreFetched => PacketsAreFetched'
  BY <1>2 DEF PacketsAreFetched
<1>10. ListenOK'
  BY <1>2 DEF ListenOK
<1> QED
  BY <1>5, <1>7, <1>8, <1>9, <1>10 DEF Kept

\* Nothing changes but the line, which is armed again, and what the task is at or
\* the app has said.
LEMMA RearmedKeeps ==
    ASSUME Stored, task.at \in {"Select", "Prepare"}, task.read = {}, task' \in Tasks,
           task'.at \in {"Select", "Prepare", "Wait"}, task'.read = {},
           UNCHANGED <<now, sky, chip, flags, header, heard, air>>,
           pin' = pin \/ pin' = Armed(flags),
           StateFits(state'), state'.mode = state.mode,
           AsItSays(state, chip) => AsItSays(state', chip'),
           listen' \in Words \cup {NIL}, txChan' \in Seq(Requests), count' \in Counts
    PROVE  Kept /\ Settled /\ SeenKept
<1>1. pin' \in Pins
  BY ArmedFacts DEF Stored, TypeOK
<1>2. Pending' = Pending
  BY DEF Pending
<1>3. Stored'
  BY <1>1, <1>2 DEF Stored, TypeOK, StateFits
<1>4. Settled
  BY <1>2 DEF Settled
<1>5. SeenKept
  BY <1>2 DEF SeenKept
<1>6. (PacketsAreFetched => PacketsAreFetched') /\ (ListenOK => ListenOK')
  BY DEF PacketsAreFetched, ListenOK
<1> QED
  BY <1>3, <1>4, <1>5, <1>6 DEF Kept

LEMMA OnListenKeeps == ASSUME Stored, OnListen PROVE Kept /\ Settled /\ SeenKept
<1>1. /\ task.at = "Select" /\ listen \in Words \cup {NIL} /\ listen # NIL /\ listen' = NIL
      /\ UNCHANGED <<now, sky, task, header, txChan, heard, count>>
  BY DEF OnListen, Stored, TypeOK
<1>2. /\ task.read = {} /\ task \in Tasks /\ state \in States /\ StateFits(state)
      /\ now \in Nat /\ air \in Airs /\ count \in Counts
      /\ txChan \in Seq(Requests) /\ Clear \in Airs
  BY <1>1, AirFacts DEF Stored, TypeOK
<1>3. /\ listen.word \in {"Hold", "Sweep", "Rotation"}
      /\ listen.word = "Rotation" => listen.rotation \in Rotations
  BY <1>1 DEF Words
<1>4. CASE UNCHANGED <<chip, flags, state, air>> /\ pin' = Armed(flags)
  BY <1>1, <1>2, <1>4, RearmedKeeps
<1>5. CASE air' = Clear /\ state' = SweepingFrom(0) /\ UNCHANGED <<chip, flags, pin>>
           /\ state.mode # "Fixed"
  <2>1. 0 \in Indices
    BY DEF Indices
  <2>2. StateFits(state') /\ state'.mode = "Sweeping" /\ state'.ready = FALSE
    BY <1>2, <1>5, <2>1, SweepingFits DEF StateFits
  <2>3. Pending' = Pending
    BY <1>1, <1>5 DEF Pending
  <2>4. Stored'
    BY <1>1, <1>2, <1>5, <2>2, <2>3 DEF Stored, TypeOK, StateFits
  <2>5. Settled
    BY <1>1, <1>5, <2>3 DEF Settled
  <2>6. SeenKept
    BY <2>2 DEF SeenKept
  <2>7. (PacketsAreFetched => PacketsAreFetched') /\ ListenOK'
    BY <1>1, <1>5, <2>2 DEF PacketsAreFetched, ListenOK, AsItSays
  <2> QED
    BY <2>4, <2>5, <2>6, <2>7 DEF Kept
<1>6. CASE /\ Resume(LockedOn(0, TRUE, NIL), flags, chip.done) /\ UNCHANGED air
           /\ state.mode # "Fixed"
  <2>1. 0 \in Indices /\ Sweeps
    BY <1>2, <1>6 DEF Indices, StateFits
  <2>2. StateFits(LockedOn(0, TRUE, NIL))
    BY <1>2, <2>1, LockedFits
  <2> QED
    BY <1>1, <1>2, <1>6, <2>2, ResumedKeeps
<1>7. CASE /\ state.mode # "Fixed" /\ listen.word = "Rotation"
           /\ ~ \E channel \in Range(listen.rotation.channels) : channel >= Channels
  <2>1. PICK r \in Rotations : r = listen.rotation
    BY <1>3, <1>7
  <2>2. Fits(r) /\ Sweeps
    <3>1. r.channels \in Seq(Nat) /\ Channels \in Nat
      BY RadioAssumption
    <3>2. \A i \in 1..Len(r.channels) : ~(r.channels[i] >= Channels)
      BY <1>7, <2>1, <3>1 DEF Range
    <3> QED
      BY <1>2, <1>7, <3>1, <3>2, ElementOfSeq DEF Fits, StateFits
  <2>3. CASE Locked /\ state' = LockedOn(state.channel, TRUE, r)
             /\ UNCHANGED <<chip, flags, air>> /\ pin' = Armed(flags)
    <3>1. state.mode = "Locked" /\ \E ch \in Indices : ch = state.channel
      BY <1>2, <2>3, StateFacts DEF Locked, StateOK
    <3>2. PICK ch \in Indices : ch = state.channel
      BY <3>1
    <3>3. state' = LockedOn(ch, TRUE, r)
      BY <2>3, <3>2
    <3>4. StateFits(LockedOn(ch, TRUE, r))
      BY <1>2, <2>2, LockedFits
    <3>5. LockedOn(ch, TRUE, r).mode = "Locked" /\ LockedOn(ch, TRUE, r).channel = ch
      BY DEF LockedOn
    <3>6. /\ StateFits(state') /\ state'.mode = "Locked" /\ state'.channel = state.channel
      BY <3>2, <3>3, <3>4, <3>5
    <3>7. AsItSays(state, chip) => AsItSays(state', chip')
      BY <2>3, <3>1, <3>6 DEF AsItSays
    <3> QED
      BY <1>1, <1>2, <2>3, <3>1, <3>6, <3>7, RearmedKeeps
  <2>4. CASE /\ air' = Clear
             /\ Resume(LockedOn(ChannelAt(r, now), TRUE, r), flags, chip.done)
    <3>1. PICK ch \in Indices : ch = ChannelAt(r, now)
      BY <1>2, <2>2, RotationsChannel
    <3>2. StateFits(LockedOn(ch, TRUE, r))
      BY <1>2, <2>2, LockedFits
    <3>3. Resume(LockedOn(ch, TRUE, r), flags, chip.done)
      BY <2>4, <3>1
    <3> QED
      BY <1>1, <1>2, <2>4, <3>2, <3>3, ResumedKeeps
  <2> QED
    BY <1>4, <1>7, <2>1, <2>3, <2>4 DEF OnListen
<1> QED
  BY <1>3, <1>4, <1>5, <1>6, <1>7 DEF OnListen

LEMMA OnFalseAlarmKeeps == ASSUME Stored, OnFalseAlarm PROVE Kept /\ Settled /\ SeenKept
<1>1. /\ task.at = "Select" /\ air' = Clear /\ state.mode = "Locked"
      /\ state' = SweepingFrom(RestartAt(state.channel))
      /\ UNCHANGED <<now, sky, chip, flags, pin, task, header, listen, txChan, heard, count>>
  BY DEF OnFalseAlarm, Waits, AlarmDue, Locked, sending
<1>2. Sweeps /\ Clear \in Airs
  BY <1>1, AirFacts DEF Stored, StateFits
<1>3. RestartAt(state.channel) \in Indices
  BY <1>2, RadioAssumption DEF RestartAt, Indices, Sweeps
<1>4. StateFits(state') /\ state'.mode = "Sweeping" /\ state'.ready = FALSE
  BY <1>1, <1>2, <1>3, SweepingFits
<1>5. Pending' = Pending
  BY <1>1 DEF Pending
<1>6. Stored'
  BY <1>1, <1>2, <1>4, <1>5 DEF Stored, TypeOK, StateFits
<1>7. Settled /\ SeenKept
  BY <1>1, <1>4, <1>5 DEF Settled, SeenKept
<1>8. (PacketsAreFetched => PacketsAreFetched') /\ ListenOK'
  BY <1>1, <1>4 DEF PacketsAreFetched, ListenOK, AsItSays
<1> QED
  BY <1>6, <1>7, <1>8 DEF Kept

LEMMA OnTurnKeeps == ASSUME Stored, OnTurn PROVE Kept /\ Settled /\ SeenKept
<1>1. /\ task.at = "Select" /\ air' \in Airs /\ Resume(state, flags, chip.done)
      /\ UNCHANGED <<now, sky, task, header, listen, txChan, heard, count>>
  BY AirFacts DEF OnTurn, Waits, sending
<1> QED
  BY <1>1, ResumedKeeps DEF Stored, TypeOK

LEMMA SweepStepKeeps == ASSUME Stored, SweepStep PROVE Kept /\ Settled /\ SeenKept
<1>1. /\ task.at = "Select" /\ state.mode = "Sweeping" /\ task.read = {}
      /\ UNCHANGED <<now, sky, task, air, header, listen, txChan, heard>>
  BY DEF SweepStep, sending, Stored
<1>2. Sweeps /\ state \in States
  BY <1>1 DEF Stored, StateFits
<1>3. state.next \in Indices
  BY <1>1, <1>2, StateFacts DEF StateOK
<1>4. Sweeps /\ state.next \in Indices /\ Channels \in Nat \ {0}
  BY <1>2, <1>3, RadioAssumption DEF Sweeps
<1>5. PICK ch \in Indices : ch = state.next
  BY <1>4
<1>6. CASE /\ chip' = [mode |-> "Cad", ch |-> state.next, rcv |-> NIL, done |-> NIL]
           /\ flags' = {} /\ UNCHANGED <<pin, count>>
           /\ state' = [mode |-> "Sweeping", next |-> (state.next + 1) % Channels,
                        ready |-> TRUE]
  <2>1. PICK next \in Indices : next = (state.next + 1) % Channels
    <3>1. \A d \in Nat, m \in Nat \ {0} : d % m \in Nat /\ d % m < m
      OBVIOUS
    <3> QED
      BY <1>4, <3>1 DEF Indices
  <2>2. /\ state' \in States /\ state'.mode = "Sweeping"
    BY <1>6, <2>1 DEF States
  <2>3. /\ chip' \in Chips /\ chip'.mode = "Cad" /\ chip'.rcv = NIL /\ chip'.done = NIL
    BY <1>5, <1>6 DEF Chips
  <2>4. Pending' = {}
    BY <1>6 DEF Pending
  <2>5. Stored'
    BY <1>1, <1>4, <1>6, <2>2, <2>3, <2>4 DEF Stored, TypeOK, StateFits
  <2>6. Settled /\ SeenKept
    BY <1>1, <1>6, <2>2, <2>3, <2>4 DEF Settled, SeenKept
  <2>7. PacketsAreFetched' /\ ListenOK'
    BY <1>1, <2>2, <2>3 DEF PacketsAreFetched, ListenOK, AsItSays
  <2> QED
    BY <2>5, <2>6, <2>7 DEF Kept
<1>7. CASE /\ count' \in Counts
           /\ Resume(LockedOn(state.next, FALSE, NIL), {}, NIL)
  <2>1. StateFits(LockedOn(ch, FALSE, NIL))
    BY <1>4, LockedFits DEF Stored, TypeOK
  <2>2. Resume(LockedOn(ch, FALSE, NIL), {}, NIL)
    BY <1>5, <1>7
  <2> QED
    BY <1>1, <1>7, <2>1, <2>2, ResumedKeeps DEF Stored, TypeOK
<1>8. count \in Counts
  BY DEF Stored, TypeOK
<1> QED
  BY <1>6, <1>7, <1>8, CountFacts DEF SweepStep

LEMMA OnTxKeeps == ASSUME Stored, OnTx PROVE Kept /\ Settled /\ SeenKept
<1>1. /\ task.at = "Select" /\ task.read = {} /\ txChan \in Seq(Requests) /\ txChan # <<>>
      /\ pin' = Armed(flags) /\ txChan' = Tail(txChan)
      /\ UNCHANGED <<now, sky, chip, flags, state, air, header, listen, heard, count>>
  BY DEF OnTx, Stored, TypeOK
<1>2. Head(txChan) \in Requests /\ Tail(txChan) \in Seq(Requests)
  BY <1>1, HeadTailProperties
<1>3. PICK req \in Wanted, until \in Nat : req = Head(txChan) /\ until = Until(air)
  BY <1>2, AirFacts DEF Stored, TypeOK, Wanted
<1>4. /\ task' \in Tasks /\ task'.read = {}
      /\ task'.at \in {"Prepare", "Wait"}
  <2>1. CASE task' = [Selecting EXCEPT !.at = "Wait", !.req = req, !.until = until]
    BY <2>1, Awaits
  <2>2. CASE task' = [Selecting EXCEPT !.at = "Prepare", !.req = req]
    BY <2>2, Prepared
  <2> QED
    BY <1>3, <2>1, <2>2 DEF OnTx
<1> QED
  BY <1>1, <1>2, <1>4, RearmedKeeps DEF Stored, TypeOK

LEMMA PreparesKeeps == ASSUME Stored, Prepares PROVE Kept /\ Settled /\ SeenKept
<1>1. /\ task.at = "Prepare" /\ task.read = {} /\ task \in Tasks /\ chip \in Chips
      /\ UNCHANGED <<now, sky, flags, state, air, header, listen, txChan, heard, count>>
  BY DEF Prepares, Stored, TypeOK, sending
<1>2. CASE task' = Selecting /\ pin' = Armed(flags) /\ UNCHANGED chip
  BY <1>1, <1>2, SelectingIs, RearmedKeeps DEF Stored, TypeOK
<1>3. CASE /\ task' = [task EXCEPT !.at = "Ready"] /\ UNCHANGED pin
           /\ chip' = [chip EXCEPT !.mode = "Off", !.rcv = NIL]
  <2>1. task' \in Tasks /\ task'.at = "Ready" /\ task'.read = {}
    BY <1>1, <1>3, TaskAt DEF Steps
  <2>2. PICK none \in Rcvs : none = NIL
    BY DEF Rcvs
  <2>3. chip' \in Chips /\ chip'.mode = "Off" /\ chip'.rcv = NIL /\ chip'.done = chip.done
    BY <1>1, <1>3, <2>2, TurnedOff
  <2>4. Pending' = Pending
    BY <1>1, <2>1 DEF Pending
  <2>5. Stored'
    BY <1>1, <1>3, <2>1, <2>3, <2>4 DEF Stored, TypeOK, StateFits
  <2>6. Settled /\ SeenKept
    BY <1>1, <1>3, <2>3, <2>4 DEF Settled, SeenKept
  <2>7. (PacketsAreFetched => PacketsAreFetched') /\ ListenOK'
    BY <1>1, <2>1, <2>3 DEF PacketsAreFetched, ListenOK
  <2> QED
    BY <2>5, <2>6, <2>7 DEF Kept
<1> QED
  BY <1>2, <1>3 DEF Prepares

LEMMA SendsKeeps == ASSUME Stored, Sends PROVE Kept /\ Settled /\ SeenKept
<1>1. /\ task.at = "Ready" /\ task.read = {} /\ task \in Tasks
      /\ UNCHANGED <<now, sky, air, header, listen, txChan, heard, count>>
  BY DEF Sends, Stored, TypeOK, sending
<1>2. CASE task' = Selecting /\ Resume(state, flags, chip.done)
  BY <1>1, <1>2, SelectingIs, ResumedKeeps DEF Stored, TypeOK
<1>3. CASE task' = [task EXCEPT !.at = "Send", !.until = now + TxTime]
           /\ UNCHANGED <<chip, flags, pin, state>>
  <2>1. PICK until \in Nat : until = now + TxTime
    BY RadioAssumption DEF Stored, TypeOK
  <2>2. task' \in Tasks /\ task'.at = "Send" /\ task'.read = {}
    <3>1. PICK at \in Steps : at = "Send"
      BY DEF Steps
    <3>2. task' = [task EXCEPT !.at = at, !.until = until]
      BY <1>3, <2>1, <3>1
    <3> DEFINE new == [task EXCEPT !.at = at, !.until = until]
    <3>3. task \in Tasks
      BY <1>1
    <3>4. new \in Tasks /\ new.at = at /\ new.read = task.read
      BY <3>3, TaskAtUntil
    <3> QED
      BY <1>1, <3>1, <3>2, <3>4
  <2>3. Pending' = Pending
    BY <1>1, <1>3, <2>2 DEF Pending
  <2>4. Stored'
    BY <1>1, <1>3, <2>2, <2>3 DEF Stored, TypeOK, StateFits
  <2>5. Settled /\ SeenKept
    BY <1>1, <1>3, <2>2, <2>3 DEF Settled, SeenKept
  <2>6. (PacketsAreFetched => PacketsAreFetched') /\ (ListenOK => ListenOK')
    BY <1>1, <1>3, <2>2 DEF PacketsAreFetched, ListenOK
  <2> QED
    BY <2>4, <2>5, <2>6 DEF Kept
<1> QED
  BY <1>2, <1>3 DEF Sends, DropsLate

LEMMA SentKeeps == ASSUME Stored, Sent PROVE Kept /\ Settled /\ SeenKept
<1>1. /\ task.at = "Send" /\ task' = Selecting /\ Resume(state, {}, NIL)
      /\ UNCHANGED <<now, sky, air, header, listen, txChan, heard, count>>
  BY DEF Sent, sending
<1> QED
  BY <1>1, SelectingIs, ResumedKeeps DEF Stored, TypeOK

\* The app's orders wait in their channels.
LEMMA OrdersKeep == ASSUME Stored, Says \/ Asks PROVE Kept /\ Settled /\ SeenKept
<1>1. UNCHANGED <<now, sky, chip, flags, pin, task, state, air, header, heard>>
  BY DEF Says, Asks
<1>2. count' \in Counts
  BY CountFacts DEF Says, Asks, Stored, TypeOK
<1>3. listen' \in Words \cup {NIL}
  BY DEF Says, Asks, Stored, TypeOK
<1>4. txChan' \in Seq(Requests)
  <2>1. CASE Says
    BY <2>1 DEF Says, Stored, TypeOK
  <2>2. CASE Asks
    <3>1. PICK clear \in BOOLEAN, at \in {NIL, now + 1, now + Prepare + 1} :
            txChan' = Append(txChan, [clear |-> clear, at |-> at])
      BY <2>2 DEF Asks
    <3>2. at \in Nat \cup {NIL}
      BY RadioAssumption DEF Stored, TypeOK
    <3>3. PICK req \in Requests : req = [clear |-> clear, at |-> at]
      BY <3>2 DEF Requests
    <3> QED
      BY <3>1, <3>3, AppendProperties DEF Stored, TypeOK
  <2> QED
    BY <2>1, <2>2
<1>5. Pending' = Pending
  BY <1>1 DEF Pending
<1>6. Stored'
  BY <1>1, <1>2, <1>3, <1>4, <1>5 DEF Stored, TypeOK, StateFits
<1>7. Settled /\ SeenKept
  BY <1>1, <1>5 DEF Settled, SeenKept
<1>8. (PacketsAreFetched => PacketsAreFetched') /\ (ListenOK => ListenOK')
  BY <1>1 DEF PacketsAreFetched, ListenOK
<1> QED
  BY <1>6, <1>7, <1>8 DEF Kept

LEMMA WaitOverKeeps == ASSUME Stored, WaitOver PROVE Kept /\ Settled
<1>1. /\ task.at = "Wait" /\ task.read = {} /\ task \in Tasks /\ air' \in Airs
      /\ task' = [task EXCEPT !.at = "Prepare"]
      /\ UNCHANGED <<now, sky, chip, flags, pin, state, header, listen, txChan, heard, count>>
  BY AirFacts DEF WaitOver, Stored, TypeOK, sending
<1>2. task' \in Tasks /\ task'.at = "Prepare" /\ task'.read = {}
  BY <1>1, TaskAt DEF Steps
<1>3. Pending' = Pending
  BY <1>1, <1>2 DEF Pending
<1>4. Stored'
  BY <1>1, <1>2, <1>3 DEF Stored, TypeOK, StateFits
<1>5. Settled
  BY <1>1, <1>3 DEF Settled
<1>6. (PacketsAreFetched => PacketsAreFetched') /\ (ListenOK => ListenOK')
  BY <1>1, <1>2 DEF PacketsAreFetched, ListenOK
<1> QED
  BY <1>4, <1>5, <1>6 DEF Kept

LEMMA WaitIrqKeeps == ASSUME Stored, WaitIrq PROVE Kept /\ Settled
<1>1. /\ task.at = "Wait" /\ task.read = {} /\ task \in Tasks /\ chip \in Chips
      /\ flags' = {} /\ pin' = Armed(flags')
      /\ UNCHANGED <<now, sky, state, header, listen, txChan, heard, count>>
  BY DEF WaitIrq, Stored, TypeOK, sending
<1>2. PICK what : /\ air' = After(what)
                  /\ task' = IF what \in {"Preamble", "Header"}
                             THEN [task EXCEPT !.until = Until(After(what))]
                             ELSE [task EXCEPT !.at = "Prepare"]
                  /\ chip' = [Sees(what) EXCEPT !.done = NIL]
  BY DEF WaitIrq
<1>3. air' \in Airs /\ Until(After(what)) \in Nat
  BY <1>2, AirFacts DEF Stored, TypeOK
<1>4. task' \in Tasks /\ task'.at \in {"Wait", "Prepare"} /\ task'.read = {}
  BY <1>1, <1>2, <1>3, TaskAt, TaskUntil DEF Steps
<1>5. PICK none \in Dones : none = NIL
  BY DEF Dones
<1>6. /\ Sees(what) \in Chips
      /\ Sees(what).rcv = NIL \/ chip.rcv # NIL
      /\ Sees(what).mode = chip.mode /\ Sees(what).ch = chip.ch
  BY <1>1, SeesFacts
<1>7. /\ chip' \in Chips /\ chip'.done = NIL
      /\ chip'.rcv = NIL \/ chip.rcv # NIL
      /\ chip'.mode = chip.mode /\ chip'.ch = chip.ch
  BY <1>2, <1>5, <1>6, WithDone
<1>8. pin' \in Pins /\ Pending' = {}
  BY <1>1, ArmedFacts DEF Stored, TypeOK, Pending
<1>9. Stored'
  BY <1>1, <1>3, <1>4, <1>7, <1>8 DEF Stored, TypeOK, StateFits
<1>10. Settled
  BY <1>1, <1>7, <1>8 DEF Settled
<1>11. PacketsAreFetched' /\ (ListenOK => ListenOK')
  BY <1>1, <1>4, <1>7 DEF PacketsAreFetched, ListenOK, AsItSays
<1> QED
  BY <1>9, <1>10, <1>11 DEF Kept

\* An interrupt's step, as far as what it is: nothing raised is unread after it.
IrqRead ==
    LET what == WhatItIs(flags)
    IN  /\ task.at = "Select" /\ task.read = {} /\ flags # {} /\ state.mode # "Sweeping"
        /\ UNCHANGED <<now, sky, flags, pin, heard, listen, txChan, count>>
        /\ air' = After(what) /\ state'.mode = state.mode
        /\ \/ header' = NIL
           \/ what = "Error" /\ header' = header
           \/ what = "Header" /\ StampIsIts(HeaderAfter) /\ header' = IrqTime
        /\ task'.read = flags /\ task'.at \in {"Hand", "Clear"}
        /\ chip'.rcv = NIL \/ chip.rcv # NIL
        /\ chip'.rcv = chip.rcv \/ sky.step = what

LEMMA OnIrqKeeps == ASSUME Stored, OnIrq PROVE Kept /\ IrqRead
<1> DEFINE what == WhatItIs(flags)
<1>1. /\ task.at = "Select" /\ flags # {} /\ state.mode # "Sweeping"
      /\ UNCHANGED <<now, sky, flags, pin, heard, listen, txChan, count>>
      /\ air' = After(what)
  BY DEF OnIrq, sending
<1>2. /\ task.read = {} /\ chip \in Chips /\ now \in Nat /\ pin \in Pins
      /\ header \in Nat \cup {NIL} /\ state \in States /\ flags \in Reads
      /\ "Done" \in flags => chip.done \in Arrivals
  BY <1>1 DEF Stored, TypeOK, Reads, Pending
<1>3. what \in flags
  BY <1>1, <1>2, WhatItIsFacts DEF Reads
<1>4. air' \in Airs
  BY <1>1, <1>2, AirFacts
<1>5. /\ StateFits(state') /\ state'.mode = state.mode
      /\ AsItSays(state, chip) => AsItSays(state', chip)
  <2>1. CASE state' = state
    BY <2>1 DEF Stored
  <2>2. CASE state.mode = "Locked" /\ state' = [state EXCEPT !.sign = now]
    <3>1. StateOK(state)
      BY <1>2, StateFacts
    <3>2. /\ state' \in States /\ state'.mode = "Locked" /\ state'.channel = state.channel
          /\ state'.rotation = state.rotation
      BY <1>2, <2>2, <3>1 DEF StateOK
    <3> QED
      BY <2>2, <3>2 DEF Stored, StateFits, AsItSays
  <2> QED
    BY <2>1, <2>2 DEF OnIrq, Locked
<1>6. IrqTime \in Nat
  BY <1>2, PinFacts DEF IrqTime
<1>7. /\ header' \in Nat \cup {NIL}
      /\ \/ header' = NIL
         \/ what = "Error" /\ header' = header
         \/ what = "Header" /\ StampIsIts(HeaderAfter) /\ header' = IrqTime
  BY <1>2, <1>6 DEF OnIrq
<1>8. /\ task' \in Tasks /\ task'.read = flags /\ task'.at \in {"Hand", "Clear"}
      /\ chip' \in Chips /\ chip'.mode = chip.mode /\ chip'.ch = chip.ch
      /\ chip'.done = NIL \/ chip'.done = chip.done
      /\ chip'.rcv = NIL \/ chip.rcv # NIL
      /\ chip'.rcv = chip.rcv \/ sky.step = what
  <2>1. CASE what = "Done"
    <3>1. PICK timed \in BOOLEAN :
            task' = [Selecting EXCEPT !.at = "Hand", !.read = flags,
                       !.packet = [end |-> IrqTime, timed |-> timed,
                                   ok |-> chip.done.kind \in {"Good", "Off"},
                                   ended |-> chip.done.end,
                                   skewed |-> chip.done.kind = "Off",
                                   known |-> header # NIL]]
      BY <2>1 DEF OnIrq
    <3>2. chip.done.end \in Nat
      BY <1>2, <1>3, <2>1 DEF Arrivals
    <3>3. PICK packet \in InHand :
            packet = [end |-> IrqTime, timed |-> timed,
                      ok |-> chip.done.kind \in {"Good", "Off"}, ended |-> chip.done.end,
                      skewed |-> chip.done.kind = "Off", known |-> header # NIL]
      <4>1. [end |-> IrqTime, timed |-> timed,
             ok |-> chip.done.kind \in {"Good", "Off"}, ended |-> chip.done.end,
             skewed |-> chip.done.kind = "Off", known |-> header # NIL] \in Handed
        <5>1. \A ok, skewed, known \in BOOLEAN :
                [end |-> IrqTime, timed |-> timed, ok |-> ok, ended |-> chip.done.end,
                 skewed |-> skewed, known |-> known] \in Handed
          BY <1>6, <3>2 DEF Handed
        <5>2. /\ (chip.done.kind \in {"Good", "Off"}) \in BOOLEAN
              /\ (chip.done.kind = "Off") \in BOOLEAN /\ (header # NIL) \in BOOLEAN
          OBVIOUS
        <5> QED
          BY <5>1, <5>2, Zenon
      <4> QED
        BY <4>1, Zenon DEF InHand
    <3>4. task' = [Selecting EXCEPT !.at = "Hand", !.read = flags, !.packet = packet]
      BY <3>1, <3>3
    <3>5. PICK none \in Dones : none = NIL
      BY DEF Dones
    <3>6. chip' = [chip EXCEPT !.done = none]
      BY <2>1, <3>5 DEF OnIrq
    <3>7. task' \in Tasks /\ task'.read = flags /\ task'.at = "Hand"
      BY <1>2, <3>4, Hands
    <3> QED
      BY <1>2, <3>5, <3>6, <3>7, WithDone
  <2>2. CASE what # "Done"
    <3>1. task' = [Selecting EXCEPT !.at = "Clear", !.read = flags] /\ chip' = Sees(what)
      BY <2>2 DEF OnIrq
    <3>2. task' \in Tasks /\ task'.read = flags /\ task'.at = "Clear"
      BY <1>2, <3>1, Clears
    <3> HIDE DEF what
    <3>3. /\ chip' \in Chips /\ chip'.done = chip.done /\ chip'.mode = chip.mode
          /\ chip'.ch = chip.ch
          /\ chip'.rcv = NIL \/ chip.rcv # NIL
          /\ chip'.rcv = chip.rcv \/ sky.step = what
      BY <1>2, <3>1, SeesFacts
    <3> QED
      BY <3>2, <3>3
  <2> QED
    BY <2>1, <2>2
<1>9. Pending' = {}
  BY <1>1, <1>8 DEF Pending
<1> HIDE DEF what
<1>10. Stored'
  BY <1>1, <1>4, <1>5, <1>7, <1>8, <1>9 DEF Stored, TypeOK, StateFits
<1>11. PacketsAreFetched => PacketsAreFetched'
  BY <1>1, <1>8 DEF PacketsAreFetched
<1>12. ListenOK => ListenOK'
  BY <1>1, <1>5, <1>8 DEF ListenOK, AsItSays
<1>13. IrqRead
  BY <1>1, <1>2, <1>5, <1>7, <1>8 DEF IrqRead, what
<1> QED
  BY <1>10, <1>11, <1>12, <1>13 DEF Kept

-----------------------------------------------------------------------------
(* The air's steps *)

\* A flag is raised: what the chip has received is as before, unless it is that.
LEMMA RaisedKeeps ==
    ASSUME Stored, NEW flag \in Flags, Raise(flag),
           UNCHANGED <<now, task, state, air, header, sending, heard>>,
           sky' \in Packets \cup {NIL}, count' \in Counts,
           chip' \in Chips, chip'.mode = chip.mode, chip'.ch = chip.ch,
           IF flag = "Done" THEN chip'.done \in Arrivals ELSE chip'.done = chip.done,
           chip.mode = "Off" /\ chip.rcv = NIL => chip'.rcv = NIL
    PROVE  Kept /\ pin' \in Pins /\ Pending' \subseteq Pending \cup {flag}
<1>1. flags' = flags \cup {flag} /\ flags' \subseteq Flags /\ pin' \in Pins
  BY RaiseFacts DEF Stored, TypeOK
<1>2. Pending' \subseteq Pending \cup {flag}
  BY <1>1 DEF Pending
<1>3. "Done" \in Pending' => chip'.done \in Arrivals
  BY <1>2 DEF Stored
<1>4. UNCHANGED <<listen, txChan>>
  BY DEF sending
<1>5. Stored'
  BY <1>1, <1>3, <1>4 DEF Stored, TypeOK, StateFits
<1>6. PacketsAreFetched => PacketsAreFetched'
  BY <1>1 DEF PacketsAreFetched
<1>7. ListenOK => ListenOK'
  BY DEF ListenOK, AsItSays
<1> QED
  BY <1>1, <1>2, <1>5, <1>6, <1>7 DEF Kept

\* What is on the air changes, unheard, or time goes by.
LEMMA UnheardKeeps ==
    ASSUME Stored,
           UNCHANGED <<chip, flags, pin, task, state, air, header, sending, heard>>,
           sky' \in Packets \cup {NIL}, now' \in Nat, count' \in Counts
    PROVE  Kept /\ Pending' = Pending
<1>1. UNCHANGED <<listen, txChan>>
  BY DEF sending
<1>2. Pending' = Pending
  BY DEF Pending
<1>3. Stored'
  BY <1>1, <1>2 DEF Stored, TypeOK, StateFits
<1>4. (PacketsAreFetched => PacketsAreFetched') /\ (ListenOK => ListenOK')
  BY DEF PacketsAreFetched, ListenOK
<1> QED
  BY <1>2, <1>3, <1>4 DEF Kept

\* What the line does when a flag is raised.
Risen ==
    IF pin.armed = TRUE THEN pin'.armed = FALSE /\ pin'.fired = TRUE /\ pin'.stamp = now
    ELSE pin' = pin

\* A packet starts: unheard, or in reception and not yet seen.
Started ==
    /\ UNCHANGED <<now, header, air, state, task>>
    /\ sky = NIL /\ sky' \in Packets /\ sky'.at = now /\ sky'.step = "Preamble"
    /\ \/ UNCHANGED <<chip, flags, pin>>
       \/ chip'.rcv = [seen |-> FALSE] /\ chip'.done = chip.done /\ Risen
          /\ flags' = flags \cup {"Preamble"}

LEMMA StartsKeeps == ASSUME Stored, Starts PROVE Kept /\ Started
<1>1. PICK ch \in 0..HigherOf(Channels - 1, 0), kind \in {"Good", "Garbled", "Off", "Broken"} :
        /\ sky' = [ch |-> ch, kind |-> kind, at |-> now, step |-> "Preamble"]
        /\ IF Listens(ch)
           THEN chip' = [chip EXCEPT !.rcv = [seen |-> FALSE]] /\ Raise("Preamble")
           ELSE UNCHANGED <<chip, flags, pin>>
  BY DEF Starts
<1>2. UNCHANGED <<now, task, state, air, header, sending, heard, count>> /\ sky = NIL
  BY DEF Starts
<1>3. now \in Nat /\ chip \in Chips /\ count \in Counts /\ pin \in Pins /\ flags \subseteq Flags
  BY DEF Stored, TypeOK
<1>4. ch \in Indices
  BY RadioAssumption DEF HigherOf, Indices
<1>5. sky' \in Packets /\ sky'.at = now /\ sky'.step = "Preamble"
  BY <1>1, <1>3, <1>4 DEF Packets, Kinds
<1>6. CASE Listens(ch)
  <2>1. PICK rcv \in Rcvs : rcv = [seen |-> FALSE]
    BY DEF Rcvs, Receptions
  <2>2. chip' = [chip EXCEPT !.rcv = rcv]
    BY <1>1, <1>6, <2>1
  <2>3. /\ chip' \in Chips /\ chip'.mode = chip.mode /\ chip'.ch = chip.ch
        /\ chip'.rcv = rcv /\ chip'.done = chip.done
    BY <1>3, <2>2, WithRcv
  <2>4. Raise("Preamble") /\ chip.mode # "Off"
    BY <1>1, <1>6 DEF Listens
  <2>5. "Preamble" \in Flags /\ "Preamble" # "Done"
    BY DEF Flags
  <2>6. Kept
    BY <1>2, <1>3, <1>5, <2>3, <2>4, <2>5, RaisedKeeps
  <2>7. Risen /\ flags' = flags \cup {"Preamble"}
    BY <1>3, <2>4, <2>5, RaiseFacts DEF Risen
  <2> QED
    BY <1>2, <1>5, <2>1, <2>3, <2>6, <2>7 DEF Started
<1>7. CASE UNCHANGED <<chip, flags, pin>>
  <2>1. Kept
    BY <1>2, <1>3, <1>5, <1>7, UnheardKeeps
  <2> QED
    BY <1>2, <1>5, <1>7, <2>1 DEF Started
<1> QED
  BY <1>1, <1>6, <1>7

\* A header's time: the packet goes on, or, broken, is lost.
HeaderCame ==
    /\ UNCHANGED <<now, header, air, state, task>>
    /\ sky \in Packets /\ sky.step = "Preamble" /\ now = sky.at + HeaderAfter
    /\ \/ UNCHANGED <<chip, flags, pin>> /\ chip.rcv = NIL
       \/ chip'.rcv = NIL /\ chip'.done = chip.done /\ Risen /\ flags' = flags \cup {"Error"}
       \/ UNCHANGED chip /\ Risen /\ flags' = flags \cup {"Header"}
    /\ \/ sky' = NIL /\ chip'.rcv = NIL
       \/ /\ sky' \in Packets /\ sky'.step = "Header" /\ sky'.at = sky.at
          /\ sky'.kind = sky.kind

LEMMA HeaderComesKeeps == ASSUME Stored, HeaderComes PROVE Kept /\ HeaderCame
<1>1. /\ sky # NIL /\ sky.step = "Preamble" /\ now = sky.at + HeaderAfter
      /\ UNCHANGED <<now, task, state, air, header, sending, heard, count>>
      /\ sky' = IF sky.kind = "Broken" THEN NIL ELSE [sky EXCEPT !.step = "Header"]
  BY DEF HeaderComes, HeaderDue
<1>2. sky \in Packets /\ chip \in Chips /\ count \in Counts /\ pin \in Pins /\ flags \subseteq Flags
      /\ now \in Nat
  BY <1>1 DEF Stored, TypeOK
<1>3. /\ sky' \in Packets \cup {NIL}
      /\ \/ sky' = NIL
         \/ /\ sky' \in Packets /\ sky'.step = "Header" /\ sky'.at = sky.at
            /\ sky'.kind = sky.kind
      /\ sky.kind # "Broken" => sky' \in Packets
  BY <1>1, <1>2, SkyFacts
<1>4. CASE chip.rcv = NIL
  <2>1. UNCHANGED <<chip, flags, pin>>
    BY <1>4 DEF HeaderComes
  <2>2. Kept
    BY <1>1, <1>2, <1>3, <2>1, UnheardKeeps
  <2> QED
    BY <1>1, <1>2, <1>3, <1>4, <2>1, <2>2 DEF HeaderCame
<1>5. CASE chip.rcv # NIL /\ sky.kind = "Broken"
  <2>1. PICK none \in Rcvs : none = NIL
    BY DEF Rcvs
  <2>2. chip' = [chip EXCEPT !.rcv = none] /\ Raise("Error")
    BY <1>5, <2>1 DEF HeaderComes
  <2>3. /\ chip' \in Chips /\ chip'.mode = chip.mode /\ chip'.ch = chip.ch
        /\ chip'.rcv = NIL /\ chip'.done = chip.done
    BY <1>2, <2>1, <2>2, WithRcv
  <2>4. "Error" \in Flags /\ "Error" # "Done"
    BY DEF Flags
  <2>5. Kept
    BY <1>1, <1>2, <1>3, <2>2, <2>3, <2>4, RaisedKeeps
  <2>6. Risen /\ flags' = flags \cup {"Error"}
    BY <1>2, <2>2, <2>4, RaiseFacts DEF Risen
  <2> QED
    BY <1>1, <1>2, <1>3, <2>3, <2>5, <2>6 DEF HeaderCame
<1>6. CASE chip.rcv # NIL /\ sky.kind # "Broken"
  <2>1. UNCHANGED chip /\ Raise("Header")
    BY <1>6 DEF HeaderComes
  <2>2. "Header" \in Flags /\ "Header" # "Done"
    BY DEF Flags
  <2>3. /\ chip' \in Chips /\ chip'.mode = chip.mode /\ chip'.ch = chip.ch
        /\ chip'.rcv = chip.rcv /\ chip'.done = chip.done
    BY <1>2, <2>1
  <2>4. Kept
    BY <1>1, <1>2, <1>3, <2>1, <2>2, <2>3, RaisedKeeps
  <2>5. Risen /\ flags' = flags \cup {"Header"}
    BY <1>2, <2>1, <2>2, RaiseFacts DEF Risen
  <2> QED
    BY <1>1, <1>2, <1>3, <1>6, <2>1, <2>4, <2>5 DEF HeaderCame
<1> QED
  BY <1>4, <1>5, <1>6

\* A packet's end, if it was in reception: it is there to be read out.
Ended ==
    /\ UNCHANGED <<now, header, air, state, task>>
    /\ sky # NIL /\ sky.step = "Header" /\ sky' = NIL
    /\ now = sky.at + HeaderAfter + EndAfter + (IF sky.kind = "Off" THEN OffBy ELSE 0)
    /\ \/ UNCHANGED <<chip, flags, pin>> /\ chip.rcv = NIL
       \/ /\ chip.rcv # NIL /\ chip'.rcv = NIL /\ Risen /\ flags' = flags \cup {"Done"}
          /\ chip'.done \in Arrivals /\ chip'.done.end = now /\ chip'.done.kind = sky.kind

LEMMA EndsKeeps == ASSUME Stored, Ends PROVE Kept /\ Ended
<1>1. /\ sky # NIL /\ sky.step = "Header" /\ sky' = NIL
      /\ now = sky.at + HeaderAfter + EndAfter + (IF sky.kind = "Off" THEN OffBy ELSE 0)
      /\ UNCHANGED <<now, task, state, air, header, sending, heard, count>>
  BY DEF Ends, EndDue
<1>2. /\ sky \in Packets /\ chip \in Chips /\ count \in Counts /\ pin \in Pins
      /\ flags \subseteq Flags /\ now \in Nat
  BY <1>1 DEF Stored, TypeOK
<1>3. CASE chip.rcv = NIL
  <2>1. UNCHANGED <<chip, flags, pin>>
    BY <1>3 DEF Ends
  <2>2. Kept
    BY <1>1, <1>2, <2>1, UnheardKeeps
  <2> QED
    BY <1>1, <1>3, <2>1, <2>2 DEF Ended
<1>4. CASE chip.rcv # NIL
  <2>1. PICK none \in Rcvs : none = NIL
    BY DEF Rcvs
  <2>2. chip.ch \in Indices /\ sky.kind \in Kinds
    BY <1>2, ChipFacts, SkyFacts
  <2>3. PICK done \in Arrivals : done = [end |-> now, ch |-> chip.ch, kind |-> sky.kind]
    BY <1>2, <2>2 DEF Arrivals
  <2>4. chip' = [chip EXCEPT !.rcv = none, !.done = done] /\ Raise("Done")
    BY <1>4, <2>1, <2>3 DEF Ends
  <2>5. done \in Dones
    BY DEF Dones
  <2>6. /\ chip' \in Chips /\ chip'.mode = chip.mode /\ chip'.ch = chip.ch
        /\ chip'.rcv = NIL /\ chip'.done = done
    <3>1. PICK mid : mid = [chip EXCEPT !.rcv = none]
      OBVIOUS
    <3>2. chip' = [mid EXCEPT !.done = done]
      BY <2>4, <3>1
    <3>3. /\ mid \in Chips /\ mid.rcv = none /\ mid.mode = chip.mode /\ mid.ch = chip.ch
      BY <1>2, <3>1, WithRcv
    <3> QED
      BY <2>1, <2>5, <3>2, <3>3, WithDone
  <2>7. "Done" \in Flags
    BY DEF Flags
  <2>8. Kept
    BY <1>1, <1>2, <2>4, <2>6, <2>7, RaisedKeeps
  <2>9. Risen /\ flags' = flags \cup {"Done"}
    BY <1>2, <2>4, <2>7, RaiseFacts DEF Risen
  <2>10. done.end = now /\ done.kind = sky.kind
    BY <2>3
  <2> QED
    BY <1>1, <1>4, <2>6, <2>8, <2>9, <2>10 DEF Ended
<1> QED
  BY <1>3, <1>4

\* What is no packet raises the flag of a preamble.
Mistaken ==
    /\ UNCHANGED <<now, header, air, state, task, sky, chip>> /\ chip.rcv = NIL
    /\ Risen /\ flags' = flags \cup {"Preamble"}

LEMMA NoiseKeeps == ASSUME Stored, Noise PROVE Kept /\ Mistaken
<1>1. /\ chip.rcv = NIL /\ Raise("Preamble")
      /\ UNCHANGED <<now, sky, chip, task, state, air, header, sending, heard>>
  BY DEF Noise
<1>2. "Preamble" \in Flags /\ "Preamble" # "Done"
  BY DEF Flags
<1>3. /\ chip' \in Chips /\ chip'.mode = chip.mode /\ chip'.ch = chip.ch
      /\ chip'.rcv = chip.rcv /\ chip'.done = chip.done
      /\ sky' \in Packets \cup {NIL} /\ count' \in Counts
      /\ now \in Nat /\ pin \in Pins /\ flags \subseteq Flags
  BY <1>1, CountFacts DEF Noise, Stored, TypeOK
<1>4. Kept
  BY <1>1, <1>2, <1>3, RaisedKeeps
<1>5. Risen /\ flags' = flags \cup {"Preamble"}
  BY <1>1, <1>2, <1>3, RaiseFacts DEF Risen
<1> QED
  BY <1>1, <1>4, <1>5 DEF Mistaken

\* A unit of time: the packet on the air does not go by what is due of it.
Ticked ==
    /\ now' = now + 1 /\ ~HeaderDue /\ ~EndDue
    /\ UNCHANGED <<sky, chip, flags, pin, task, state, air, header>>

LEMMA TickKeeps == ASSUME Stored, Tick PROVE Kept /\ Ticked
<1>1. Ticked /\ UNCHANGED <<sending, heard>> /\ sky \in Packets \cup {NIL}
  BY DEF Tick, Ticked, Stored, TypeOK
<1>2. now' \in Nat /\ count' \in Counts
  <2>1. now \in Nat /\ count \in Counts
    BY DEF Stored, TypeOK
  <2>2. count' = count \/ count' = [count EXCEPT !.late = @ + 1]
    BY DEF Tick
  <2>3. [count EXCEPT !.late = @ + 1] \in Counts
    BY <2>1, CountFacts
  <2> QED
    BY <1>1, <2>1, <2>2, <2>3 DEF Ticked
<1>3. Kept
  BY <1>1, <1>2, UnheardKeeps DEF Ticked
<1> QED
  BY <1>1, <1>3

-----------------------------------------------------------------------------
(* Types, the chip's packets, and listening as the state says *)

LEMMA StoredAtFirst == ASSUME Init PROVE Stored /\ PacketsAreFetched /\ ListenOK
<1>1. /\ now = 0 /\ sky = NIL /\ flags = {} /\ task = Selecting /\ air = Clear
      /\ pin = [armed |-> TRUE, fired |-> FALSE, stamp |-> 0]
      /\ header = NIL /\ listen = NIL /\ txChan = <<>> /\ heard = NIL
      /\ count = [late |-> 0, noise |-> 0, orders |-> 0]
  BY DEF Init
<1>2. 0 \in Indices
  BY DEF Indices
<1>3. /\ chip \in Chips /\ chip.done = NIL /\ StateFits(state) /\ AsItSays(state, chip)
  <2>1. CASE Sweeps
    <3>1. /\ chip = [mode |-> "Off", ch |-> 0, rcv |-> NIL, done |-> NIL]
          /\ state = SweepingFrom(0)
      BY <2>1 DEF Init
    <3>2. StateFits(state) /\ state.mode = "Sweeping" /\ state.ready = FALSE
      BY <1>2, <2>1, <3>1, SweepingFits
    <3> QED
      BY <1>2, <3>1, <3>2 DEF Chips, AsItSays
  <2>2. CASE ~Sweeps
    <3>1. /\ chip = [mode |-> "Rx", ch |-> 0, rcv |-> NIL, done |-> NIL]
          /\ state = [mode |-> "Fixed"]
      BY <2>2 DEF Init
    <3> QED
      BY <1>2, <3>1 DEF Chips, States, StateFits, AsItSays
  <2> QED
    BY <2>1, <2>2
<1>4. task \in Tasks /\ task.at = "Select" /\ task.read = {} /\ air \in Airs
  BY <1>1, SelectingIs, AirFacts
<1>5. pin \in Pins /\ count \in Counts
  BY <1>1 DEF Pins, Counts
<1>6. Stored
  BY <1>1, <1>3, <1>4, <1>5 DEF Stored, TypeOK, StateFits, Pending
<1> QED
  BY <1>3, <1>4, <1>6 DEF PacketsAreFetched, ListenOK

LEMMA EveryStepKeeps == ASSUME Stored, [Next]_vars PROVE Kept
<1>1. CASE SkyNext
  BY <1>1, StartsKeeps, HeaderComesKeeps, EndsKeeps, NoiseKeeps DEF SkyNext
<1>2. CASE TaskNext
  BY <1>2, OnIrqKeeps, HandOverKeeps, ClearIrqKeeps, OnListenKeeps, OnFalseAlarmKeeps,
     OnTurnKeeps, SweepStepKeeps DEF TaskNext
<1>3. CASE SendNext
  BY <1>3, OnTxKeeps, WaitIrqKeeps, WaitOverKeeps, PreparesKeeps, SendsKeeps, SentKeeps
     DEF SendNext
<1>4. CASE Says \/ Asks
  BY <1>4, OrdersKeep
<1>5. CASE Tick
  BY <1>5, TickKeeps
<1>6. CASE UNCHANGED vars
  BY <1>6 DEF vars, sending, Kept, Stored, TypeOK, StateFits, Pending, PacketsAreFetched,
     ListenOK
<1> QED
  BY <1>1, <1>2, <1>3, <1>4, <1>5, <1>6 DEF Next

LEMMA AlwaysStored == Spec => []Stored
<1>1. Init => Stored
  BY StoredAtFirst
<1>2. Stored /\ [Next]_vars => Stored'
  BY EveryStepKeeps DEF Kept
<1> QED
  BY <1>1, <1>2, PTL DEF Spec

\* The variables have their types: the radio is only ever put on a channel there
\* is, whatever rotation the app gives (Driver::on_listen, Rotation::channel_at).
THEOREM TypeCorrect == Spec => []TypeOK
<1>1. Stored => TypeOK
  BY DEF Stored
<1> QED
  BY <1>1, AlwaysStored, PTL

\* A packet in the chip has an interrupt up for it: clear_irq_flags_read and the
\* sends leave none behind with its flag down.
THEOREM AllFetched == Spec => []PacketsAreFetched
<1>1. Init => PacketsAreFetched
  BY StoredAtFirst
<1>2. Stored /\ PacketsAreFetched /\ [Next]_vars => PacketsAreFetched'
  BY EveryStepKeeps DEF Kept
<1> QED
  BY <1>1, <1>2, AlwaysStored, PTL DEF Spec

LEMMA AlwaysListens == Spec => []ListenOK
<1>1. Init => ListenOK
  BY StoredAtFirst
<1>2. Stored /\ ListenOK /\ [Next]_vars => ListenOK'
  BY EveryStepKeeps DEF Kept
<1> QED
  BY <1>1, <1>2, AlwaysStored, PTL DEF Spec

\* But while it sends, the chip is on the channel the driver's state says
\* (resume_listening after every send, drop, turn and word of the app's).
THEOREM NeverDeaf == Spec => []ListensAsItSays
<1>1. ListenOK => ListensAsItSays
  BY DEF ListenOK, ListensAsItSays, AsItSays, Locked, Listens
<1> QED
  BY <1>1, AlwaysListens, PTL

-----------------------------------------------------------------------------
(* The times of packets *)

\* A packet on the air is where its time says, and one in reception is on the air.
AirOK ==
    /\ sky # NIL =>
        /\ sky.at <= now
        /\ sky.step = "Preamble" => now <= sky.at + HeaderAfter
        /\ sky.step = "Header" =>
            /\ sky.at + HeaderAfter <= now
            /\ now <= sky.at + HeaderAfter + EndAfter + (IF sky.kind = "Off" THEN OffBy ELSE 0)
    /\ chip.rcv # NIL => sky # NIL

\* The line is armed while it is low; its stamp is of the past.
PinOK ==
    /\ pin.armed = TRUE => flags = {} /\ pin.fired = FALSE
    /\ pin.stamp <= now

\* An interrupt of a packet past its header is of its header, or earlier.
StampOK ==
    chip.rcv # NIL /\ sky.step = "Header" /\ pin.fired = TRUE =>
        pin.stamp <= sky.at + HeaderAfter

\* A packet received and not handled ended at the stamp, or the stamp is at least as
\* early as its header; one decoded off its channel ended late for its header.
DoneOK ==
    "Done" \in Pending =>
        /\ chip.done.end <= now
        /\ pin.fired = TRUE =>
            pin.stamp = chip.done.end \/ pin.stamp + EndAfter <= chip.done.end
        /\ header # NIL /\ chip.done.kind = "Off" =>
            header + EndAfter + OffBy <= chip.done.end

\* The header's time kept is not later than that of the packet in reception.
HeaderOK ==
    header # NIL =>
        /\ header <= now
        /\ chip.rcv # NIL => header <= sky.at + HeaderAfter

TimesOK == AirOK /\ PinOK /\ StampOK /\ DoneOK /\ HeaderOK

\* The types that the times need.
TimesTypes ==
    /\ now \in Nat /\ pin \in Pins /\ header \in Nat \cup {NIL} /\ flags \subseteq Flags
    /\ sky # NIL => /\ sky \in Packets /\ sky.at \in Nat /\ sky.kind \in Kinds
                    /\ sky.step \in {"Preamble", "Header"}
    /\ pin.armed \in BOOLEAN /\ pin.fired \in BOOLEAN /\ pin.stamp \in Nat
    /\ "Done" \in Pending => chip.done.end \in Nat
    /\ HeaderAfter \in Nat /\ EndAfter \in Nat /\ OffBy \in Nat

LEMMA TimesTyped == ASSUME Stored PROVE TimesTypes
<1>1. /\ now \in Nat /\ pin \in Pins /\ header \in Nat \cup {NIL} /\ flags \subseteq Flags
      /\ sky \in Packets \cup {NIL}
      /\ "Done" \in Pending => chip.done \in Arrivals
  BY DEF Stored, TypeOK
<1>2. \A a \in Arrivals : a.end \in Nat
  BY DEF Arrivals
<1> QED
  BY <1>1, <1>2, SkyFacts, PinFacts, RadioAssumption DEF TimesTypes

LEMMA SettledTimes ==
    ASSUME Stored, Kept, TimesOK, Settled
    PROVE  TimesOK'
<1>1. TimesTypes
  BY TimesTyped
<1>2. /\ now' = now /\ sky' = sky /\ header' = header
      /\ chip'.rcv # NIL => chip.rcv # NIL \/ (sky # NIL /\ sky.step = "Preamble")
      /\ "Done" \in Pending' => "Done" \in Pending /\ chip'.done = chip.done
      /\ pin' = Armed(flags') \/ (pin' = pin /\ flags' \subseteq flags)
  BY DEF Settled
<1>3. /\ pin'.stamp = pin.stamp
      /\ pin'.fired = TRUE => pin.fired = TRUE
      /\ pin'.armed = TRUE => flags' = {} /\ pin'.fired = FALSE
  <2>1. CASE pin' = Armed(flags')
    <3>1. /\ Armed(flags').stamp = pin.stamp /\ Armed(flags').fired = FALSE
          /\ Armed(flags').armed = TRUE => flags' = {}
      BY <1>1, ArmedFacts DEF TimesTypes
    <3> QED
      BY <2>1, <3>1
  <2>2. CASE pin' = pin /\ flags' \subseteq flags
    BY <2>2 DEF TimesOK, PinOK
  <2> QED
    BY <1>2, <2>1, <2>2
<1>4. AirOK'
  BY <1>2 DEF TimesOK, AirOK
<1>5. PinOK'
  BY <1>2, <1>3 DEF TimesOK, PinOK
<1>6. StampOK'
  BY <1>2, <1>3 DEF TimesOK, StampOK
<1>7. DoneOK'
  BY <1>2, <1>3 DEF TimesOK, DoneOK
<1>8. HeaderOK'
  <2>1. CASE chip'.rcv # NIL /\ chip.rcv = NIL /\ header # NIL
    BY <1>1, <1>2, <2>1 DEF TimesOK, HeaderOK, AirOK, TimesTypes
  <2> QED
    BY <1>2, <2>1 DEF TimesOK, HeaderOK
<1> QED
  BY <1>4, <1>5, <1>6, <1>7, <1>8 DEF TimesOK

LEMMA IrqTimes == ASSUME Stored, TimesOK, IrqRead, Pending' = {} PROVE TimesOK'
<1>1. TimesTypes
  BY TimesTyped
<1>2. /\ now' = now /\ sky' = sky /\ pin' = pin /\ flags' = flags
      /\ chip'.rcv # NIL => chip.rcv # NIL
      /\ \/ header' = NIL \/ header' = header
         \/ StampIsIts(HeaderAfter) /\ header' = IrqTime
  BY DEF IrqRead
<1>3. AirOK' /\ PinOK' /\ StampOK' /\ DoneOK'
  BY <1>2 DEF TimesOK, AirOK, PinOK, StampOK, DoneOK
<1>4. HeaderOK'
  <2>1. CASE header' = NIL \/ header' = header
    BY <1>2, <2>1 DEF TimesOK, HeaderOK
  <2>2. CASE StampIsIts(HeaderAfter) /\ header' = IrqTime
    <3>1. pin.fired = TRUE /\ header' = pin.stamp
      BY <1>1, <2>2 DEF StampIsIts, Late, IrqTime, TimesTypes
    <3>2. pin.stamp <= now /\ pin.stamp \in Nat
      BY <1>1 DEF TimesTypes, TimesOK, PinOK
    <3>3. ASSUME chip.rcv # NIL PROVE pin.stamp <= sky.at + HeaderAfter
      <4>1. sky # NIL
        BY <3>3 DEF TimesOK, AirOK
      <4>2. CASE sky.step = "Header"
        BY <3>1, <3>3, <4>2 DEF TimesOK, StampOK
      <4>3. CASE sky.step = "Preamble"
        BY <1>1, <3>2, <4>1, <4>3 DEF TimesOK, AirOK, TimesTypes
      <4> QED
        BY <1>1, <4>1, <4>2, <4>3 DEF TimesTypes
    <3> QED
      BY <1>2, <3>1, <3>2, <3>3 DEF HeaderOK
  <2> QED
    BY <1>2, <2>1, <2>2
<1> QED
  BY <1>3, <1>4 DEF TimesOK

\* A flag that rises leaves the line's stamp in the past, and does not touch the
\* stamp of what was raised before.
LEMMA RisenFacts ==
    ASSUME TimesTypes, PinOK, Risen
    PROVE  /\ pin'.stamp <= now /\ pin'.armed # TRUE
           /\ IF flags = {} /\ pin.armed = TRUE THEN pin'.stamp = now ELSE pin' = pin
<1>1. pin.armed = TRUE => flags = {}
  BY DEF PinOK
<1>2. now <= now /\ FALSE # TRUE
  BY DEF TimesTypes
<1>3. CASE pin.armed = TRUE
  <2>1. pin'.armed = FALSE /\ pin'.stamp = now
    BY <1>3 DEF Risen
  <2> QED
    BY <1>1, <1>2, <1>3, <2>1
<1>4. CASE pin.armed # TRUE
  <2>1. pin' = pin
    BY <1>4 DEF Risen
  <2>2. pin.stamp <= now
    BY DEF PinOK
  <2> QED
    BY <1>4, <2>1, <2>2
<1> QED
  BY <1>3, <1>4

LEMMA StartTimes ==
    ASSUME Stored, TimesOK, Started, Pending' \subseteq Pending \cup {"Preamble"}
    PROVE  TimesOK'
<1>1. TimesTypes
  BY TimesTyped
<1>2. /\ now' = now /\ header' = header /\ sky'.at = now /\ sky'.step = "Preamble"
      /\ sky' # NIL
      /\ "Done" \in Pending' => "Done" \in Pending
  BY NilAssumption DEF Started
<1>3. AirOK' /\ HeaderOK'
  BY <1>1, <1>2 DEF AirOK, HeaderOK, TimesOK, TimesTypes
<1>4. StampOK'
  BY <1>2 DEF StampOK
<1>5. CASE UNCHANGED <<chip, flags, pin>>
  <2>1. PinOK' /\ DoneOK'
    BY <1>2, <1>5 DEF TimesOK, PinOK, DoneOK
  <2> QED
    BY <1>3, <1>4, <2>1 DEF TimesOK
<1>6. CASE /\ chip'.done = chip.done /\ Risen /\ flags' = flags \cup {"Preamble"}
  <2>1. /\ pin'.stamp <= now /\ pin'.armed # TRUE
        /\ IF flags = {} /\ pin.armed = TRUE THEN pin'.stamp = now ELSE pin' = pin
    BY <1>1, <1>6, RisenFacts DEF TimesOK
  <2>2. PinOK'
    BY <1>2, <2>1 DEF PinOK
  <2>3. DoneOK'
    <3>1. "Done" \in Pending => flags # {}
      BY DEF Pending
    <3> QED
      BY <1>2, <1>6, <2>1, <3>1 DEF DoneOK, TimesOK
  <2> QED
    BY <1>3, <1>4, <2>2, <2>3 DEF TimesOK
<1> QED
  BY <1>5, <1>6 DEF Started

LEMMA HeaderTimes ==
    ASSUME Stored, TimesOK, HeaderCame, Pending' \subseteq Pending \cup {"Header", "Error"}
    PROVE  TimesOK'
<1>1. TimesTypes
  BY TimesTyped
<1>2. /\ now' = now /\ header' = header /\ now = sky.at + HeaderAfter
      /\ sky \in Packets
      /\ \/ sky' = NIL /\ chip'.rcv = NIL
         \/ /\ sky' # NIL /\ sky'.step = "Header" /\ sky'.at = sky.at
            /\ sky'.kind = sky.kind
      /\ "Done" \in Pending' => "Done" \in Pending
      /\ chip'.done = chip.done /\ (chip'.rcv = NIL \/ chip'.rcv = chip.rcv)
      /\ \/ UNCHANGED <<chip, flags, pin>> /\ chip.rcv = NIL
         \/ Risen /\ flags' # {}
  BY NilAssumption DEF HeaderCame
<1>3. sky # NIL
  BY <1>2, NilAssumption
<1>4. AirOK'
  BY <1>1, <1>2, <1>3 DEF AirOK, TimesOK, TimesTypes
<1>5. HeaderOK'
  BY <1>1, <1>2, <1>3 DEF HeaderOK, TimesOK, TimesTypes
<1>6. /\ pin'.stamp <= now
      /\ pin' = pin \/ (flags = {} /\ pin'.stamp = now /\ pin'.armed # TRUE)
      /\ pin' = pin => flags' = flags \/ pin.armed # TRUE
  <2>1. CASE UNCHANGED <<chip, flags, pin>>
    BY <1>1, <2>1 DEF TimesOK, PinOK
  <2>2. CASE Risen /\ flags' # {}
    <3>1. PinOK
      BY DEF TimesOK
    <3> QED
      BY <1>1, <2>2, <3>1, RisenFacts
  <2> QED
    BY <1>2, <2>1, <2>2
<1>7. PinOK'
  BY <1>2, <1>6 DEF PinOK, TimesOK
<1>8. StampOK'
  <2>1. pin'.stamp <= sky.at + HeaderAfter
    BY <1>2, <1>6
  <2> QED
    BY <1>2, <2>1 DEF StampOK
<1>9. DoneOK'
  <2>1. "Done" \in Pending => flags # {}
    BY DEF Pending
  <2> QED
    BY <1>2, <1>6, <2>1 DEF DoneOK, TimesOK
<1> QED
  BY <1>4, <1>5, <1>7, <1>8, <1>9 DEF TimesOK

\* The packet's end: the stamp is its own, or, up already, its header's or earlier.
LEMMA EndTimes == ASSUME Stored, TimesOK, Ended, Pending' \subseteq Pending \cup {"Done"}
                  PROVE  TimesOK'
<1>1. TimesTypes
  BY TimesTyped
<1>2. /\ now' = now /\ header' = header /\ sky' = NIL /\ chip'.rcv = NIL
      /\ sky # NIL /\ sky.step = "Header"
      /\ now = sky.at + HeaderAfter + EndAfter + (IF sky.kind = "Off" THEN OffBy ELSE 0)
  BY DEF Ended
<1>3. AirOK' /\ StampOK'
  BY <1>2 DEF AirOK, StampOK
<1>4. HeaderOK'
  BY <1>2 DEF HeaderOK, TimesOK
<1>5. CASE UNCHANGED <<chip, flags, pin>>
  <2>1. Pending' = Pending
    BY <1>5 DEF Pending, Ended
  <2>2. PinOK' /\ DoneOK'
    BY <1>2, <1>5, <2>1 DEF TimesOK, PinOK, DoneOK
  <2> QED
    BY <1>3, <1>4, <2>2 DEF TimesOK
<1>6. CASE /\ chip.rcv # NIL /\ Risen /\ chip'.done.end = now /\ chip'.done.kind = sky.kind
  <2>1. /\ pin'.stamp <= now /\ pin'.armed # TRUE
        /\ IF flags = {} /\ pin.armed = TRUE THEN pin'.stamp = now ELSE pin' = pin
    BY <1>1, <1>6, RisenFacts DEF TimesOK
  <2>2. PinOK'
    BY <1>2, <2>1 DEF PinOK
  <2>3. pin'.fired = TRUE => pin'.stamp = now \/ pin'.stamp + EndAfter <= now
    <3>1. CASE pin' = pin
      <4>1. pin.fired = TRUE => pin.stamp <= sky.at + HeaderAfter
        BY <1>2, <1>6 DEF TimesOK, StampOK
      <4>2. /\ sky.at \in Nat /\ pin.stamp \in Nat /\ now \in Nat
            /\ HeaderAfter \in Nat /\ EndAfter \in Nat /\ OffBy \in Nat
        BY <1>1, <1>2 DEF TimesTypes
      <4>3. sky.at + HeaderAfter + EndAfter <= now
        BY <1>2, <4>2
      <4> QED
        BY <3>1, <4>1, <4>2, <4>3
    <3> QED
      BY <2>1, <3>1
  <2>4. header # NIL /\ sky.kind = "Off" => header + EndAfter + OffBy <= now
    <3>1. header # NIL => header <= sky.at + HeaderAfter /\ header \in Nat
      BY <1>1, <1>6 DEF TimesOK, HeaderOK, TimesTypes
    <3>2. /\ sky.at \in Nat /\ now \in Nat
          /\ HeaderAfter \in Nat /\ EndAfter \in Nat /\ OffBy \in Nat
      BY <1>1, <1>2 DEF TimesTypes
    <3> QED
      BY <1>2, <3>1, <3>2
  <2>5. DoneOK'
    BY <1>1, <1>2, <1>6, <2>3, <2>4 DEF DoneOK, TimesTypes
  <2> QED
    BY <1>3, <1>4, <2>2, <2>5 DEF TimesOK
<1> QED
  BY <1>5, <1>6 DEF Ended

LEMMA NoiseTimes ==
    ASSUME Stored, TimesOK, Mistaken, Pending' \subseteq Pending \cup {"Preamble"}
    PROVE  TimesOK'
<1>1. TimesTypes
  BY TimesTyped
<1>2. /\ UNCHANGED <<now, header, sky, chip>> /\ chip.rcv = NIL /\ Risen
      /\ "Done" \in Pending' => "Done" \in Pending
  BY DEF Mistaken
<1>3. /\ pin'.stamp <= now /\ pin'.armed # TRUE
      /\ IF flags = {} /\ pin.armed = TRUE THEN pin'.stamp = now ELSE pin' = pin
  BY <1>1, <1>2, RisenFacts DEF TimesOK
<1>4. AirOK' /\ StampOK' /\ HeaderOK'
  BY <1>2 DEF TimesOK, AirOK, StampOK, HeaderOK
<1>5. PinOK'
  BY <1>2, <1>3 DEF PinOK
<1>6. DoneOK'
  <2>1. "Done" \in Pending => flags # {}
    BY DEF Pending
  <2> QED
    BY <1>2, <1>3, <2>1 DEF DoneOK, TimesOK
<1> QED
  BY <1>4, <1>5, <1>6 DEF TimesOK

LEMMA TickTimes == ASSUME Stored, TimesOK, Ticked, Pending' = Pending PROVE TimesOK'
<1>1. TimesTypes
  BY TimesTyped
<1>2. now' = now + 1 /\ UNCHANGED <<sky, chip, flags, pin, header>>
  BY DEF Ticked
<1>3. AirOK'
  <2>1. CASE sky = NIL
    BY <1>2, <2>1 DEF TimesOK, AirOK
  <2>2. CASE sky # NIL /\ sky.step = "Preamble"
    <3>1. now # sky.at + HeaderAfter
      BY <2>2 DEF Ticked, HeaderDue
    <3> QED
      BY <1>1, <1>2, <2>2, <3>1 DEF TimesOK, AirOK, TimesTypes
  <2>3. CASE sky # NIL /\ sky.step = "Header"
    <3>1. now # sky.at + HeaderAfter + EndAfter + (IF sky.kind = "Off" THEN OffBy ELSE 0)
      BY <2>3 DEF Ticked, EndDue
    <3> QED
      BY <1>1, <1>2, <2>3, <3>1 DEF TimesOK, AirOK, TimesTypes
  <2> QED
    BY <1>1, <2>1, <2>2, <2>3 DEF TimesTypes
<1>4. PinOK' /\ StampOK'
  BY <1>1, <1>2 DEF TimesOK, PinOK, StampOK, TimesTypes
<1>5. DoneOK'
  BY <1>1, <1>2 DEF TimesOK, DoneOK, TimesTypes, Ticked
<1>6. HeaderOK'
  BY <1>1, <1>2 DEF TimesOK, HeaderOK, TimesTypes
<1> QED
  BY <1>3, <1>4, <1>5, <1>6 DEF TimesOK

LEMMA TimesStep == ASSUME Stored, TimesOK, [Next]_vars PROVE TimesOK'
<1>1. CASE Starts
  <2>1. Started
    BY <1>1, StartsKeeps
  <2>2. Pending' \subseteq Pending \cup {"Preamble"}
    BY <2>1 DEF Started, Pending
  <2> QED
    BY <2>1, <2>2, StartTimes
<1>2. CASE HeaderComes
  <2>1. HeaderCame
    BY <1>2, HeaderComesKeeps
  <2>2. Pending' \subseteq Pending \cup {"Header", "Error"}
    BY <2>1 DEF HeaderCame, Pending
  <2> QED
    BY <2>1, <2>2, HeaderTimes
<1>3. CASE Ends
  <2>1. Ended
    BY <1>3, EndsKeeps
  <2>2. Pending' \subseteq Pending \cup {"Done"}
    BY <2>1 DEF Ended, Pending
  <2> QED
    BY <2>1, <2>2, EndTimes
<1>4. CASE Noise
  <2>1. Mistaken
    BY <1>4, NoiseKeeps
  <2>2. Pending' \subseteq Pending \cup {"Preamble"}
    BY <2>1 DEF Mistaken, Pending
  <2> QED
    BY <2>1, <2>2, NoiseTimes
<1>5. CASE Tick
  <2>1. Ticked
    BY <1>5, TickKeeps
  <2>2. Pending' = Pending
    BY <2>1 DEF Ticked, Pending
  <2> QED
    BY <2>1, <2>2, TickTimes
<1>6. CASE OnIrq
  <2>1. IrqRead
    BY <1>6, OnIrqKeeps
  <2>2. Pending' = {}
    BY <2>1 DEF IrqRead, Pending
  <2> QED
    BY <2>1, <2>2, IrqTimes
<1>7. CASE Settled
  BY <1>7, EveryStepKeeps, SettledTimes
<1>8. CASE HandOver \/ ClearIrq \/ OnListen \/ OnFalseAlarm \/ OnTurn \/ SweepStep
  BY <1>7, <1>8, HandOverKeeps, ClearIrqKeeps, OnListenKeeps, OnFalseAlarmKeeps,
     OnTurnKeeps, SweepStepKeeps
<1>9. CASE SendNext \/ Says \/ Asks
  BY <1>7, <1>9, OnTxKeeps, WaitIrqKeeps, WaitOverKeeps, PreparesKeeps, SendsKeeps,
     SentKeeps, OrdersKeep DEF SendNext
<1>10. CASE UNCHANGED vars
  <2>1. Settled
    BY <1>10 DEF vars, Settled, Pending
  <2> QED
    BY <1>7, <2>1
<1> QED
  BY <1>1, <1>2, <1>3, <1>4, <1>5, <1>6, <1>8, <1>9, <1>10 DEF Next, SkyNext, TaskNext

LEMMA AlwaysTimed == Spec => []TimesOK
<1>1. Init => TimesOK
  <2> SUFFICES ASSUME Init PROVE TimesOK
    OBVIOUS
  <2>1. /\ now = 0 /\ sky = NIL /\ flags = {} /\ header = NIL /\ chip.rcv = NIL
        /\ pin = [armed |-> TRUE, fired |-> FALSE, stamp |-> 0]
    BY DEF Init
  <2>2. pin.armed = TRUE /\ pin.fired = FALSE /\ pin.stamp <= now
    BY <2>1
  <2> QED
    BY <2>1, <2>2 DEF TimesOK, AirOK, PinOK, StampOK, DoneOK, HeaderOK, Pending
<1>2. Stored /\ TimesOK /\ [Next]_vars => TimesOK'
  BY TimesStep
<1> QED
  BY <1>1, <1>2, AlwaysStored, PTL DEF Spec

\* A packet handed to the app, or about to be, with a time it may trust.
TimeOK(p) == p # NIL /\ p.timed => p.end = p.ended /\ (p.known => ~p.skewed)

HandOK == TimeOK(task.packet) /\ TimeOK(heard)

\* Only an interrupt puts a packet in hand.
LEMMA OnlyIrqHands ==
    ASSUME Stored, [Next]_vars, ~OnIrq
    PROVE  /\ task'.packet = task.packet \/ task'.packet = NIL
           /\ heard' \in {heard, NIL, task.packet}
<1>1. task \in Tasks /\ flags \in Reads
  BY DEF Stored, TypeOK, Reads
<1>2. /\ \A at : [task EXCEPT !.at = at].packet = task.packet
      /\ \A until : [task EXCEPT !.until = until].packet = task.packet
  BY <1>1, TaskSet
<1>3. /\ Selecting.packet = NIL
      /\ \A read : [Selecting EXCEPT !.at = "Clear", !.read = read].packet = NIL
      /\ \A req : [Selecting EXCEPT !.at = "Prepare", !.req = req].packet = NIL
      /\ \A req, until :
            [Selecting EXCEPT !.at = "Wait", !.req = req, !.until = until].packet = NIL
  BY DEF Selecting
<1>4. CASE UNCHANGED <<task, heard>>
  BY <1>4
<1>5. CASE HandOver
  BY <1>3, <1>5 DEF HandOver
<1>6. CASE ClearIrq
  BY <1>3, <1>6 DEF ClearIrq
<1>7. CASE OnTx
  BY <1>3, <1>7 DEF OnTx
<1>8. CASE WaitIrq
  BY <1>2, <1>8 DEF WaitIrq
<1>9. CASE WaitOver
  BY <1>2, <1>9 DEF WaitOver
<1>10. CASE Prepares
  BY <1>2, <1>3, <1>10 DEF Prepares
<1>11. CASE Sends
  <2>1. CASE task' = Selecting
    BY <1>3, <1>11, <2>1 DEF Sends
  <2>2. CASE task' # Selecting
    <3>1. PICK until : until = now + TxTime
      OBVIOUS
    <3>2. task' = [task EXCEPT !.at = "Send", !.until = until] /\ heard' = heard
      BY <1>11, <2>2, <3>1 DEF Sends
    <3>3. [task EXCEPT !.at = "Send", !.until = until].packet = task.packet
      BY <1>1, TaskSet
    <3> QED
      BY <3>2, <3>3
  <2> QED
    BY <2>1, <2>2
<1>12. CASE Sent
  BY <1>3, <1>12 DEF Sent
<1>13. CASE SkyNext
  BY <1>4, <1>13 DEF SkyNext, Starts, HeaderComes, Ends, Noise
<1>14. CASE OnListen \/ OnFalseAlarm \/ OnTurn \/ SweepStep \/ Says \/ Asks \/ Tick
  BY <1>4, <1>14 DEF OnListen, OnFalseAlarm, OnTurn, SweepStep, Says, Asks, Tick
<1>15. CASE UNCHANGED vars
  BY <1>4, <1>15 DEF vars
<1> QED
  BY <1>5, <1>6, <1>7, <1>8, <1>9, <1>10, <1>11, <1>12, <1>13, <1>14, <1>15
     DEF Next, TaskNext, SendNext

\* The stamp of a packet told to be timed is its end's, and a header known rules out
\* one decoded off its channel.
LEMMA IrqHands == ASSUME Stored, TimesOK, OnIrq PROVE TimeOK(task'.packet) /\ heard' = heard
<1> DEFINE what == WhatItIs(flags)
<1>1. /\ task.at = "Select" /\ task.read = {} /\ heard' = heard /\ flags # {}
      /\ flags \subseteq Flags
  BY DEF OnIrq, Stored, TypeOK
<1>2. TimesTypes
  BY TimesTyped
<1>3. CASE what # "Done"
  <2>1. task' = [Selecting EXCEPT !.at = "Clear", !.read = flags]
    BY <1>3 DEF OnIrq
  <2>2. task'.packet = NIL
    BY <2>1 DEF Selecting
  <2> QED
    BY <1>1, <2>2 DEF TimeOK
<1>4. CASE what = "Done"
  <2>1. "Done" \in Pending
    BY <1>1, <1>4, WhatItIsFacts DEF Pending
  <2>2. PICK timed \in BOOLEAN, ok \in BOOLEAN, skewed \in BOOLEAN, known \in BOOLEAN :
          /\ task' = [Selecting EXCEPT !.at = "Hand", !.read = flags,
                        !.packet = [end |-> IrqTime, timed |-> timed, ok |-> ok,
                                    ended |-> chip.done.end, skewed |-> skewed,
                                    known |-> known]]
          /\ timed = TRUE => StampIsIts(EndAfter)
          /\ timed = TRUE /\ header # NIL => header + EndAfter - IrqTime < OffBy
                                             /\ IrqTime - header - EndAfter < OffBy
          /\ skewed = TRUE => chip.done.kind = "Off"
          /\ known = TRUE => header # NIL
    <3> DEFINE T == /\ StampIsIts(EndAfter)
                    /\ header # NIL => /\ IrqTime - header - EndAfter < OffBy
                                       /\ header + EndAfter - IrqTime < OffBy
               Ok == chip.done.kind \in {"Good", "Off"}
               Skewed == chip.done.kind = "Off"
               Known == header # NIL
    <3>1. task' = [Selecting EXCEPT !.at = "Hand", !.read = flags,
                     !.packet = [end |-> IrqTime, timed |-> T, ok |-> Ok,
                                 ended |-> chip.done.end, skewed |-> Skewed,
                                 known |-> Known]]
      BY <1>4 DEF OnIrq
    <3>2. T \in BOOLEAN /\ Ok \in BOOLEAN /\ Skewed \in BOOLEAN /\ Known \in BOOLEAN
      OBVIOUS
    <3>3. /\ T = TRUE => StampIsIts(EndAfter)
          /\ T = TRUE /\ header # NIL => header + EndAfter - IrqTime < OffBy
                                         /\ IrqTime - header - EndAfter < OffBy
          /\ Skewed = TRUE => chip.done.kind = "Off"
          /\ Known = TRUE => header # NIL
      OBVIOUS
    <3> HIDE DEF T, Ok, Skewed, Known
    <3> QED
      BY <3>1, <3>2, <3>3, Zenon
  <2>3. /\ task'.packet.timed = timed /\ task'.packet.end = IrqTime
        /\ task'.packet.ended = chip.done.end /\ task'.packet.known = known
        /\ task'.packet.skewed = skewed
    BY <2>2 DEF Selecting
  <2>4. ASSUME timed = TRUE
        PROVE  /\ IrqTime = chip.done.end
               /\ header # NIL => chip.done.kind # "Off"
    <3>1. pin.fired = TRUE /\ now - pin.stamp < EndAfter /\ IrqTime = pin.stamp
      BY <1>2, <2>2, <2>4 DEF StampIsIts, Late, IrqTime, TimesTypes
    <3>2. /\ chip.done.end <= now
          /\ pin.stamp = chip.done.end \/ pin.stamp + EndAfter <= chip.done.end
          /\ header # NIL /\ chip.done.kind = "Off" =>
                header + EndAfter + OffBy <= chip.done.end
      BY <2>1, <3>1 DEF TimesOK, DoneOK
    <3>3. /\ now \in Nat /\ pin.stamp \in Nat /\ chip.done.end \in Nat
          /\ EndAfter \in Nat /\ OffBy \in Nat
          /\ header # NIL => header \in Nat
      BY <1>2, <2>1 DEF TimesTypes
    <3>4. IrqTime = chip.done.end
      BY <3>1, <3>2, <3>3
    <3>5. header # NIL => IrqTime - header - EndAfter < OffBy
      BY <2>2, <2>4
    <3> QED
      BY <3>2, <3>3, <3>4, <3>5
  <2> QED
    BY <1>1, <2>2, <2>3, <2>4 DEF TimeOK
<1> QED
  BY <1>3, <1>4

\* What the app is told to trust the time of ended then: stamp_is_its refuses an
\* earlier interrupt's stamp, however late the task is.
THEOREM TimesAreTrue == Spec => []TimedPacketsEndedThen
<1>1. Init => HandOK
  <2>1. ASSUME Init PROVE task.packet = NIL /\ heard = NIL
    BY <2>1 DEF Init, Selecting
  <2> QED
    BY <2>1 DEF HandOK, TimeOK
<1>2. Stored /\ TimesOK /\ HandOK /\ [Next]_vars => HandOK'
  <2> SUFFICES ASSUME Stored, TimesOK, HandOK, [Next]_vars PROVE HandOK'
    OBVIOUS
  <2>1. CASE OnIrq
    BY <2>1, IrqHands DEF HandOK
  <2>2. CASE ~OnIrq
    BY <2>2, OnlyIrqHands DEF HandOK, TimeOK
  <2> QED
    BY <2>1, <2>2
<1>3. HandOK => TimedPacketsEndedThen
  BY DEF HandOK, TimeOK, TimedPacketsEndedThen
<1> QED
  BY <1>1, <1>2, <1>3, AlwaysStored, AlwaysTimed, PTL DEF Spec

-----------------------------------------------------------------------------
(* A packet that is seen is waited for *)

\* A wait for clear air lasts as long as what is known of the air.
WaitOK == task.at = "Wait" => task.until = Until(air)

LEMMA WaitStep == ASSUME Stored, WaitOK, [Next]_vars PROVE WaitOK'
<1>1. task \in Tasks
  BY DEF Stored, TypeOK
<1>2. CASE task'.at # "Wait"
  BY <1>2 DEF WaitOK
<1>3. CASE UNCHANGED <<task, air>>
  BY <1>3 DEF WaitOK, Until
<1>4. CASE OnTx
  <2>1. air' = air
    BY <1>4 DEF OnTx
  <2>2. PICK req, until : req = Head(txChan) /\ until = Until(air)
    OBVIOUS
  <2>3. CASE task' = [Selecting EXCEPT !.at = "Wait", !.req = req, !.until = until]
    <3>1. task'.until = until
      BY <2>3 DEF Selecting
    <3> QED
      BY <2>1, <2>2, <3>1 DEF WaitOK, Until
  <2>4. CASE task' = [Selecting EXCEPT !.at = "Prepare", !.req = req]
    <3>1. task'.at = "Prepare"
      BY <2>4 DEF Selecting
    <3> QED
      BY <1>2, <3>1
  <2> QED
    BY <1>4, <2>2, <2>3, <2>4 DEF OnTx
<1>5. CASE WaitIrq
  <2>1. PICK what : /\ air' = After(what)
                    /\ task' = IF what \in {"Preamble", "Header"}
                               THEN [task EXCEPT !.until = Until(After(what))]
                               ELSE [task EXCEPT !.at = "Prepare"]
    BY <1>5 DEF WaitIrq
  <2>2. PICK until : until = Until(After(what))
    OBVIOUS
  <2>3. CASE task' = [task EXCEPT !.until = until]
    <3>1. task'.until = until
      BY <1>1, <2>3, TaskSet
    <3> QED
      BY <2>1, <2>2, <3>1 DEF WaitOK, Until
  <2>4. CASE task' = [task EXCEPT !.at = "Prepare"]
    <3>1. task'.at = "Prepare"
      BY <1>1, <2>4, TaskSet
    <3> QED
      BY <1>2, <3>1
  <2> QED
    BY <2>1, <2>2, <2>3, <2>4
<1>6. Selecting.at # "Wait"
  BY DEF Selecting
<1>7. CASE OnIrq
  <2>1. task'.at \in {"Hand", "Clear"}
    BY <1>7, OnIrqKeeps DEF IrqRead
  <2> QED
    BY <1>2, <2>1
<1>8. CASE HandOver
  <2>1. task'.at = "Clear"
    BY <1>8 DEF HandOver, Selecting
  <2> QED
    BY <1>2, <2>1
<1>9. CASE ClearIrq \/ Sent
  BY <1>2, <1>6, <1>9 DEF ClearIrq, Sent
<1>10. CASE WaitOver
  <2>1. task'.at = "Prepare"
    BY <1>1, <1>10, TaskSet DEF WaitOver
  <2> QED
    BY <1>2, <2>1
<1>11. CASE Prepares
  <2>1. [task EXCEPT !.at = "Ready"].at = "Ready"
    BY <1>1, TaskSet
  <2> QED
    BY <1>2, <1>6, <1>11, <2>1 DEF Prepares
<1>12. CASE Sends
  <2>1. CASE task' = Selecting
    BY <1>2, <1>6, <2>1
  <2>2. CASE task' # Selecting
    <3>1. PICK until : until = now + TxTime
      OBVIOUS
    <3>2. task' = [task EXCEPT !.at = "Send", !.until = until]
      BY <1>12, <2>2, <3>1 DEF Sends
    <3>3. [task EXCEPT !.at = "Send", !.until = until].at = "Send"
      BY <1>1, TaskSet
    <3> QED
      BY <1>2, <3>2, <3>3
  <2> QED
    BY <2>1, <2>2
<1>13. CASE OnListen \/ OnFalseAlarm \/ OnTurn \/ SweepStep
  <2>1. task.at = "Select" /\ task' = task
    BY <1>13 DEF OnListen, OnFalseAlarm, OnTurn, SweepStep, Waits
  <2> QED
    BY <1>2, <2>1
<1>14. CASE SkyNext \/ Says \/ Asks \/ Tick
  BY <1>3, <1>14 DEF SkyNext, Starts, HeaderComes, Ends, Noise, Says, Asks, Tick
<1>15. CASE UNCHANGED vars
  BY <1>3, <1>15 DEF vars
<1> QED
  BY <1>4, <1>5, <1>7, <1>8, <1>9, <1>10, <1>11, <1>12, <1>13, <1>14, <1>15
     DEF Next, TaskNext, SendNext

\* The packet in reception is one the task knows of.
Seen == chip.rcv # NIL /\ chip.rcv.seen = TRUE

\* What is known of it: its preamble, its header, or its header's interrupt is up
\* and has yet to be read.
SeenOK ==
    state.mode # "Sweeping" /\ Seen =>
        \/ /\ sky.step = "Preamble" /\ air.what = "Preamble" /\ sky.at <= air.at
           /\ Pending \subseteq {"Preamble"} /\ "Header" \notin task.read
        \/ /\ sky.step = "Header" /\ "Header" \in Pending
           /\ Pending \subseteq {"Preamble", "Header"}
        \/ /\ sky.step = "Header" /\ Pending = {}
           /\ air.what = "Header" /\ sky.at + HeaderAfter <= air.at

LEMMA SeenIs ==
    ASSUME Stored
    PROVE  chip.rcv # NIL => chip.rcv.seen \in BOOLEAN
<1>1. chip.rcv \in Receptions \cup {NIL}
  BY ChipFacts DEF Stored, TypeOK, Rcvs
<1> QED
  BY <1>1 DEF Receptions

\* With nothing raised, it is not yet over by what is known of it.
LEMMA SeenIsBusy ==
    ASSUME Stored, TimesOK, SeenOK, state.mode # "Sweeping", Seen, Pending = {}
    PROVE  air.what # "Clear" /\ now < Until(air)
<1>1. TimesTypes /\ air.at \in Nat
  BY TimesTyped, AirFacts DEF Stored, TypeOK
<1>2. sky # NIL
  BY DEF TimesOK, AirOK, Seen
<1>3. /\ sky.at \in Nat /\ sky.kind \in Kinds /\ now \in Nat
      /\ HeaderAfter \in Nat /\ EndAfter \in Nat /\ OffBy \in Nat
      /\ HeaderWait \in Nat /\ PacketEndWait \in Nat
      /\ HeaderAfter < HeaderWait /\ EndAfter + OffBy < PacketEndWait
  BY <1>1, <1>2, RadioAssumption DEF TimesTypes
<1>4. CASE /\ sky.step = "Preamble" /\ air.what = "Preamble" /\ sky.at <= air.at
  <2>1. now <= sky.at + HeaderAfter
    BY <1>2, <1>4 DEF TimesOK, AirOK
  <2>2. Until(air) = air.at + HeaderWait
    BY <1>4 DEF Until
  <2> QED
    BY <1>1, <1>3, <1>4, <2>1, <2>2
<1>5. CASE /\ sky.step = "Header" /\ air.what = "Header"
           /\ sky.at + HeaderAfter <= air.at
  <2>1. now <= sky.at + HeaderAfter + EndAfter + (IF sky.kind = "Off" THEN OffBy ELSE 0)
    BY <1>2, <1>5 DEF TimesOK, AirOK
  <2>2. now <= sky.at + HeaderAfter + EndAfter + OffBy
    BY <1>3, <2>1
  <2>3. Until(air) = air.at + PacketEndWait
    BY <1>5 DEF Until
  <2> QED
    BY <1>1, <1>3, <1>5, <2>2, <2>3
<1> QED
  BY <1>4, <1>5 DEF SeenOK

LEMMA KeptSeen == ASSUME SeenOK, SeenKept PROVE SeenOK'
<1>1. CASE state'.mode = "Sweeping" \/ chip'.rcv = NIL \/ chip'.rcv.seen = FALSE
  BY <1>1 DEF SeenOK, Seen
<1>2. CASE /\ chip'.rcv = chip.rcv /\ air' = air /\ sky' = sky /\ state.mode # "Sweeping"
           /\ Pending' = Pending /\ task'.read \subseteq task.read
  BY <1>2 DEF SeenOK, Seen
<1> QED
  BY <1>1, <1>2 DEF SeenKept

\* Nothing raised is left unread, and the air is as the last of it says.
LEMMA ReadSeen ==
    ASSUME Stored, TimesOK, SeenOK, flags # {}, task.read = {},
           NEW what, what = WhatItIs(flags),
           UNCHANGED <<now, sky>>, air' = After(what), state'.mode = state.mode,
           Pending' = {}, task'.read \subseteq flags,
           chip'.rcv = NIL \/ chip.rcv # NIL,
           chip'.rcv = chip.rcv \/ sky.step = what
    PROVE  SeenOK'
<1> SUFFICES ASSUME state.mode # "Sweeping", Seen'
             PROVE  \/ /\ sky.step = "Preamble" /\ air'.what = "Preamble" /\ sky.at <= air'.at
                       /\ "Header" \notin task'.read
                    \/ /\ sky.step = "Header" /\ air'.what = "Header"
                       /\ sky.at + HeaderAfter <= air'.at
  BY DEF SeenOK
<1>1. flags \in SUBSET Flags /\ Pending = flags /\ now \in Nat
  BY DEF Stored, TypeOK, Pending
<1>2. /\ what \in flags
      /\ what = "Preamble" => "Header" \notin flags
      /\ flags \subseteq {"Preamble", "Header"} /\ "Header" \in flags => what = "Header"
  BY <1>1, WhatItIsFacts
<1>3. chip.rcv # NIL /\ sky # NIL
  BY DEF Seen, TimesOK, AirOK
<1>4. TimesTypes
  BY TimesTyped
<1>5. sky.step = what
  <2>1. CASE chip'.rcv = chip.rcv
    <3>1. Seen
      BY <2>1 DEF Seen
    <3>2. \/ sky.step = "Preamble" /\ flags \subseteq {"Preamble"}
          \/ sky.step = "Header" /\ "Header" \in flags /\ flags \subseteq {"Preamble", "Header"}
      BY <1>1, <3>1 DEF SeenOK
    <3> QED
      BY <1>2, <3>2
  <2> QED
    BY <2>1
<1>6. air'.what = what /\ air'.at = now /\ what \in {"Preamble", "Header"}
  BY <1>3, <1>4, <1>5, AirFacts DEF TimesTypes
<1>7. CASE what = "Preamble"
  BY <1>2, <1>3, <1>5, <1>6, <1>7 DEF TimesOK, AirOK
<1>8. CASE what = "Header"
  BY <1>3, <1>5, <1>6, <1>8 DEF TimesOK, AirOK
<1> QED
  BY <1>6, <1>7, <1>8

LEMMA WaitIrqSeen == ASSUME Stored, TimesOK, SeenOK, WaitIrq PROVE SeenOK'
<1>1. /\ task.at = "Wait" /\ task.read = {} /\ task \in Tasks /\ chip \in Chips
      /\ flags # {} /\ flags' = {}
      /\ UNCHANGED <<now, sky, state>>
  BY DEF WaitIrq, Stored, TypeOK
<1>2. PICK what : /\ what = WhatItIs(flags) /\ air' = After(what)
                  /\ task' = IF what \in {"Preamble", "Header"}
                             THEN [task EXCEPT !.until = Until(After(what))]
                             ELSE [task EXCEPT !.at = "Prepare"]
                  /\ chip' = [Sees(what) EXCEPT !.done = NIL]
  BY DEF WaitIrq
<1>3. Until(After(what)) \in Nat
  BY AirFacts DEF Stored, TypeOK
<1>4. task'.read = {}
  BY <1>1, <1>2, <1>3, TaskAt, TaskUntil DEF Steps
<1>5. PICK none \in Dones : none = NIL
  BY DEF Dones
<1>6. /\ Sees(what) \in Chips
      /\ Sees(what).rcv = NIL \/ chip.rcv # NIL
      /\ Sees(what).rcv = chip.rcv \/ sky.step = what
  BY <1>1, SeesFacts
<1>7. /\ chip'.rcv = NIL \/ chip.rcv # NIL
      /\ chip'.rcv = chip.rcv \/ sky.step = what
  BY <1>2, <1>5, <1>6, WithDone
<1>8. Pending' = {}
  BY <1>1 DEF Pending
<1> QED
  BY <1>1, <1>2, <1>4, <1>7, <1>8, ReadSeen

LEMMA SkySeen ==
    ASSUME Stored, TimesOK, SeenOK,
           \/ Started \/ HeaderCame \/ Ended \/ Mistaken \/ Ticked
    PROVE  SeenOK'
<1>1. CASE Started
  <2>1. chip.rcv = NIL
    BY <1>1 DEF TimesOK, AirOK, Started
  <2> QED
    BY <1>1, <2>1 DEF Started, SeenOK, Seen
<1>2. CASE HeaderCame
  <2>1. /\ UNCHANGED <<state, task>> /\ sky.step = "Preamble"
        /\ chip'.rcv # NIL => /\ chip' = chip /\ flags' = flags \cup {"Header"}
                              /\ sky'.step = "Header"
    BY <1>2 DEF HeaderCame
  <2>2. CASE state'.mode # "Sweeping" /\ Seen'
    <3>1. Seen /\ state.mode # "Sweeping" /\ chip'.rcv # NIL
      BY <2>1, <2>2 DEF Seen
    <3>2. Pending \subseteq {"Preamble"} /\ "Header" \notin task.read
      BY <2>1, <3>1 DEF SeenOK
    <3>3. Pending' = Pending \cup {"Header"}
      BY <2>1, <3>1, <3>2 DEF Pending
    <3> QED
      BY <2>1, <3>1, <3>2, <3>3 DEF SeenOK
  <2> QED
    BY <2>2 DEF SeenOK
<1>3. CASE Ended \/ Mistaken
  BY <1>3 DEF Ended, Mistaken, SeenOK, Seen
<1>4. CASE Ticked
  BY <1>4 DEF Ticked, SeenOK, Seen, Pending
<1> QED
  BY <1>1, <1>2, <1>3, <1>4

LEMMA WaitOverSeen == ASSUME Stored, TimesOK, SeenOK, WaitOK, WaitOver PROVE SeenOK'
<1>1. /\ task.at = "Wait" /\ flags = {} /\ now >= task.until
      /\ UNCHANGED <<chip, state>>
  BY DEF WaitOver
<1>2. Pending = {} /\ task.until = Until(air)
  BY <1>1 DEF Pending, WaitOK
<1>3. now \in Nat /\ Until(air) \in Nat
  BY AirFacts DEF Stored, TypeOK
<1>4. ~(state.mode # "Sweeping" /\ Seen)
  BY <1>1, <1>2, <1>3, SeenIsBusy
<1> QED
  BY <1>1, <1>4 DEF SeenOK, Seen

LEMMA SeenStep == ASSUME Stored, TimesOK, WaitOK, SeenOK, [Next]_vars PROVE SeenOK'
<1>1. CASE SkyNext
  BY <1>1, StartsKeeps, HeaderComesKeeps, EndsKeeps, NoiseKeeps, SkySeen DEF SkyNext
<1>2. CASE Tick
  BY <1>2, TickKeeps, SkySeen
<1>3. CASE OnIrq
  <2>1. IrqRead
    BY <1>3, OnIrqKeeps
  <2>2. PICK what : what = WhatItIs(flags)
    OBVIOUS
  <2>3. /\ flags # {} /\ task.read = {} /\ UNCHANGED <<now, sky>> /\ air' = After(what)
        /\ state'.mode = state.mode /\ task'.read \subseteq flags /\ Pending' = {}
        /\ chip'.rcv = NIL \/ chip.rcv # NIL
        /\ chip'.rcv = chip.rcv \/ sky.step = what
    BY <2>1, <2>2 DEF IrqRead, Pending
  <2> QED
    BY <2>2, <2>3, ReadSeen
<1>4. CASE WaitIrq
  BY <1>4, WaitIrqSeen
<1>5. CASE WaitOver
  BY <1>5, WaitOverSeen
<1>6. CASE SeenKept
  BY <1>6, KeptSeen
<1>7. CASE HandOver \/ ClearIrq \/ OnListen \/ OnFalseAlarm \/ OnTurn \/ SweepStep
  BY <1>6, <1>7, HandOverKeeps, ClearIrqKeeps, OnListenKeeps, OnFalseAlarmKeeps,
     OnTurnKeeps, SweepStepKeeps
<1>8. CASE OnTx \/ Prepares \/ Sends \/ Sent \/ Says \/ Asks
  BY <1>6, <1>8, OnTxKeeps, PreparesKeeps, SendsKeeps, SentKeeps, OrdersKeep
<1>9. CASE UNCHANGED vars
  BY <1>9 DEF vars, SeenOK, Seen, Pending
<1> QED
  BY <1>1, <1>2, <1>3, <1>4, <1>5, <1>7, <1>8, <1>9 DEF Next, TaskNext, SendNext

LEMMA AlwaysSeen == Spec => [](WaitOK /\ SeenOK)
<1>1. Init => WaitOK /\ SeenOK
  <2> SUFFICES ASSUME Init PROVE task.at = "Select" /\ chip.rcv = NIL
    BY DEF WaitOK, SeenOK, Seen
  <2> QED
    BY DEF Init, Selecting
<1>2. Stored /\ TimesOK /\ WaitOK /\ SeenOK /\ [Next]_vars => (WaitOK /\ SeenOK)'
  BY WaitStep, SeenStep
<1> QED
  BY <1>1, <1>2, AlwaysStored, AlwaysTimed, PTL DEF Spec

\* A lock whose time is up, or a turn, is never taken while a packet it has seen is
\* arriving (false_alarm_at, turn_at): only the app's word takes the radio away.
LEMMA NotCutShort ==
    ASSUME Stored, TimesOK, SeenOK, ListenOK, Next, chip.rcv # NIL, chip.rcv.seen, Locked
    PROVE  \/ state'.mode = "Locked" /\ state'.channel = state.channel
           \/ listen # NIL /\ listen' = NIL
<1>1. state.mode = "Locked" /\ state \in States /\ now \in Nat
  BY DEF Locked, Stored, TypeOK
<1>2. Seen
  BY SeenIs DEF Seen
<1>3. /\ state.hit \in Nat /\ state.sign \in Nat
      /\ \A at \in Nat : LET new == [state EXCEPT !.sign = at]
                         IN  new.mode = "Locked" /\ new.channel = state.channel
      /\ LET new == [state EXCEPT !.heard = TRUE]
         IN  new.mode = "Locked" /\ new.channel = state.channel
  <2>1. StateOK(state)
    BY <1>1, StateFacts
  <2>2. state.hit \in Nat /\ state.sign \in Nat
    BY <1>1, <2>1 DEF StateOK
  <2>3. \A at \in Nat : LET new == [state EXCEPT !.sign = at]
                       IN  new.mode = "Locked" /\ new.channel = state.channel
    BY <1>1, <2>1 DEF StateOK
  <2>4. LET new == [state EXCEPT !.heard = TRUE]
        IN  new.mode = "Locked" /\ new.channel = state.channel
    BY <1>1, <2>1 DEF StateOK
  <2> QED
    BY <2>2, <2>3, <2>4
<1>4. ASSUME task.at = "Select", flags = {}
      PROVE  Busy(air) /\ now < Until(air)
  <2>1. Pending = {}
    BY <1>4 DEF Pending
  <2>2. air.what # "Clear" /\ now < Until(air) /\ Until(air) \in Nat
    BY <1>1, <1>2, <2>1, SeenIsBusy, AirFacts DEF Stored, TypeOK
  <2> QED
    BY <1>1, <2>2 DEF Busy
<1>5. CASE UNCHANGED state
  BY <1>1, <1>5
<1>6. CASE OnIrq
  <2>1. state' = state \/ state' = [state EXCEPT !.sign = now]
    BY <1>6 DEF OnIrq
  <2> QED
    BY <1>1, <1>3, <2>1
<1>7. CASE HandOver
  <2>1. state' = state \/ state' = [state EXCEPT !.heard = TRUE]
    BY <1>7 DEF HandOver
  <2> QED
    BY <1>1, <1>3, <2>1
<1>8. CASE OnListen
  BY <1>8 DEF OnListen
<1>9. CASE OnFalseAlarm
  <2>1. task.at = "Select" /\ flags = {} /\ now >= FalseAlarmAt
    BY <1>9 DEF OnFalseAlarm, Waits, AlarmDue
  <2>2. Busy(air) /\ now < Until(air) /\ Until(air) \in Nat
    BY <1>4, <2>1, AirFacts DEF Stored, TypeOK
  <2>3. state.sign + FalseAlarmWait \in Nat /\ state.hit + SignHoldMax \in Nat
    <3>1. state.hit \in Nat /\ state.sign \in Nat
      BY <1>3
    <3> QED
      BY <3>1, RadioAssumption
  <2>4. FalseAlarmAt >= Until(air)
    BY <2>2, <2>3 DEF FalseAlarmAt, LowerOf, HigherOf
  <2>5. FalseAlarmAt \in Nat
    BY <2>2, <2>3 DEF FalseAlarmAt, LowerOf, HigherOf
  <2> QED
    BY <1>1, <2>1, <2>2, <2>4, <2>5
<1>10. CASE OnTurn
  BY <1>4, <1>10 DEF OnTurn, Waits, TurnDue
<1>11. CASE SweepStep
  BY <1>1, <1>11 DEF SweepStep
<1>12. CASE Sends \/ Sent
  <2>1. chip.rcv = NIL
    BY <1>12 DEF Sends, Sent, ListenOK
  <2> QED
    BY <2>1
<1>13. CASE SkyNext \/ ClearIrq \/ OnTx \/ WaitIrq \/ WaitOver \/ Prepares \/ Says \/ Asks \/ Tick
  BY <1>5, <1>13 DEF SkyNext, Starts, HeaderComes, Ends, Noise, ClearIrq, OnTx, WaitIrq,
     WaitOver, Prepares, Says, Asks, Tick
<1> QED
  BY <1>6, <1>7, <1>8, <1>9, <1>10, <1>11, <1>12, <1>13 DEF Next, TaskNext, SendNext

\* A packet whose preamble or header the task has seen is received to its end: the
\* driver gives up no channel with one on it, but for the app's word.
THEOREM SeenToTheEnd == Spec => NoPacketCutShort
<1>1. Stored /\ TimesOK /\ SeenOK /\ ListenOK /\ [Next]_vars =>
        [chip.rcv # NIL /\ chip.rcv.seen /\ Locked =>
            \/ state'.mode = "Locked" /\ state'.channel = state.channel
            \/ listen # NIL /\ listen' = NIL]_vars
  BY NotCutShort
<1> QED
  BY <1>1, AlwaysStored, AlwaysTimed, AlwaysSeen, AlwaysListens, PTL DEF Spec, NoPacketCutShort

=============================================================================
