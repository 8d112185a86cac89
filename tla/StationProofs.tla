----------------------------- MODULE StationProofs -----------------------------
(***************************************************************************)
(* Theorems about module Station, for every set of talkers, of modes and   *)
(* of packets, and queues of any size.                                     *)
(***************************************************************************)
EXTENDS Station, TLAPS

-----------------------------------------------------------------------------
(* The parts of a step *)

\* What is not a talker's: no word of the app's is taken for a rotation.
LEMMA WordsApart ==
    /\ "Hold" \notin Talkers /\ "Sweep" \notin Talkers /\ NIL \notin Talkers
    /\ NIL # "Hold" /\ NIL # "Sweep"
  BY StationAssumption

\* Taking a packet from the head of the queue, and adding one at its end.
LEMMA QueueType ==
    ASSUME rxChan \in Seq(Heard), Len(rxChan) <= RxCap
    PROVE  /\ rxChan # <<>> => /\ Tail(rxChan) \in Seq(Heard)
                               /\ Len(Tail(rxChan)) <= RxCap
                               /\ Head(rxChan) \in Heard
           /\ \A h \in Heard : RoomToHear => /\ Append(rxChan, h) \in Seq(Heard)
                                             /\ Len(Append(rxChan, h)) <= RxCap
  BY StationAssumption DEF RoomToHear

LEMMA TellType ==
    ASSUME NEW word \in Talkers \cup {"Hold", "Sweep"}, Tell(word)
    PROVE  /\ listen' \in Talkers \cup {"Hold", "Sweep", NIL}
           /\ rotation' \in Talkers \cup {NIL}
           /\ rotation' # NIL => listen' = rotation'
  BY DEF Tell

LEMMA ListenToConveyorType ==
    ASSUME TypeOK,
           NEW t \in Transmissions \cup {NIL},
           ListenToConveyor(t)
    PROVE  /\ listen' \in Talkers \cup {"Hold", "Sweep", NIL}
           /\ rotation' \in Talkers \cup {NIL}
           /\ \/ rotation' # NIL => listen' = rotation'
              \/ UNCHANGED <<listen, rotation>>
  <1>1. CASE t # NIL /\ t.anchored /\ rotation # t.txid
    <2>1. t.txid \in Talkers
      BY <1>1 DEF Transmissions
    <2>2. Tell(t.txid)
      BY <1>1 DEF ListenToConveyor
    <2> QED
      BY <2>1, <2>2, TellType
  <1>2. CASE ~(t # NIL /\ t.anchored /\ rotation # t.txid)
    BY <1>2 DEF ListenToConveyor, TypeOK
  <1> QED
    BY <1>1, <1>2

LEMMA RideType ==
    ASSUME NEW packet \in OnAir, IsAnyones(packet),
           trans \in Transmissions \cup {NIL}
    PROVE  /\ RideConveyor(packet).trans \in Transmissions \cup {NIL}
           /\ packet.txid \in Talkers
           /\ RideConveyor(packet).landed =>
                 /\ RideConveyor(packet).trans # NIL
                 /\ RideConveyor(packet).trans.txid = packet.txid
           /\ trans # NIL => /\ RideConveyor(packet).trans # NIL
                             /\ RideConveyor(packet).trans.txid = trans.txid
  <1>1. packet.txid \in Talkers /\ packet.timed \in BOOLEAN
    BY StationAssumption DEF IsAnyones, Packets
  <1> QED
    BY <1>1, StationAssumption DEF RideConveyor, Transmissions

-----------------------------------------------------------------------------
(* Types *)

Radios ==
    [locked : BOOLEAN, heard : BOOLEAN, rotation : Talkers \cup {NIL},
     at : {"Listening", "Handing", "Sending"},
     hand : Heard \cup {NIL}, irq : Heard \cup {NIL}]
Sweeps == [quiet : BOOLEAN, told : BOOLEAN]
Hists  == [left : BOOLEAN, drained : BOOLEAN, stale : Nat]
Apps   == [at : {"Idle", "Relaying", "Streaming", "Menu", "Leaving"}, left : 0..MaxVoice]

LockStates == [locked : BOOLEAN, heard : BOOLEAN, rotation : Talkers \cup {NIL}]

\* A flag set in a record leaves the rest of it.
LEMMA SetRadio ==
    ASSUME NEW r \in Radios, NEW v \in BOOLEAN, NEW h \in Heard \cup {NIL}
    PROVE  /\ LET q == [r EXCEPT !.at = "Listening", !.hand = NIL, !.irq = NIL, !.heard = v]
              IN  q \in Radios /\ q.at = "Listening" /\ q.hand = NIL
           /\ LET q == [r EXCEPT !.irq = h]
              IN  q \in Radios /\ q.at = r.at /\ q.hand = r.hand
  BY DEF Radios

LEMMA SetFlag ==
    ASSUME NEW v \in BOOLEAN
    PROVE  /\ \A h \in Hists : /\ [h EXCEPT !.left = v] \in Hists
                               /\ [h EXCEPT !.drained = v] \in Hists
           /\ \A s \in Sweeps : /\ [s EXCEPT !.quiet = v] \in Sweeps
                                /\ [s EXCEPT !.told = v] \in Sweeps
  BY DEF Hists, Sweeps

LEMMA LockType ==
    ASSUME radio \in Radios, NEW lock \in LockStates, radio' = Locks(lock)
    PROVE  radio' \in Radios /\ radio'.at = radio.at /\ radio'.hand = radio.hand
  <1>1. /\ lock.locked \in BOOLEAN /\ lock.heard \in BOOLEAN
        /\ lock.rotation \in Talkers \cup {NIL}
    BY DEF LockStates
  <1>2. radio' = [radio EXCEPT !.locked = lock.locked, !.heard = lock.heard,
                               !.rotation = lock.rotation]
    BY DEF Locks
  <1>3. PICK v \in BOOLEAN, w \in BOOLEAN, t \in Talkers \cup {NIL} :
            radio' = [radio EXCEPT !.locked = v, !.heard = w, !.rotation = t]
    BY <1>1, <1>2, Zenon
  <1> QED
    BY <1>3 DEF Radios

\* The steps of the radio's task and of the air keep the types.
LEMMA RadioType ==
    ASSUME TypeOK, RadioNext \/ Arrive
    PROVE  TypeOK'
  <1>0. radio \in Radios
    BY DEF Radios, TypeOK
  <1>a. ASSUME radio' \in Radios, radio'.at = radio.at, radio'.hand = radio.hand
        PROVE  /\ radio' \in Radios
               /\ radio'.at = "Handing" <=> radio'.hand # NIL
    BY <1>a DEF TypeOK
  <1> DEFINE Radio == /\ radio' \in Radios
                      /\ radio'.at = "Handing" <=> radio'.hand # NIL
  <1>1. CASE Hit
    <2>1. [NoLock EXCEPT !.locked = TRUE] \in LockStates
      BY DEF NoLock, LockStates
    <2>2. Radio
      BY <1>0, <1>1, <1>a, <2>1, LockType DEF Hit
    <2> QED
      BY <1>1, <2>2 DEF Hit, TypeOK, Radios, queues, appVars
  <1>2. CASE FalseAlarm
    <2>1. NoLock \in LockStates
      BY DEF NoLock, LockStates
    <2>2. Radio
      BY <1>0, <1>2, <1>a, <2>1, LockType DEF FalseAlarm
    <2> QED
      BY <1>2, <2>2 DEF FalseAlarm, TypeOK, Radios, queues, appVars
  <1>3. CASE OnIrq
    <2>1. radio.irq \in Heard /\ NIL \notin Heard
      BY <1>0, <1>3, StationAssumption DEF OnIrq, Radios
    <2>2. Radio
      BY <1>0, <1>3, <2>1 DEF OnIrq, Radios
    <2> QED
      BY <1>3, <2>2 DEF OnIrq, TypeOK, Radios, queues, appVars
  <1>4. CASE HandOver
    <2>1. radio.hand \in Heard
      BY <1>4 DEF HandOver, TypeOK
    <2>2. rxChan' \in Seq(Heard) /\ Len(rxChan') <= RxCap
      BY <1>4, <2>1, QueueType DEF HandOver, TypeOK
    <2>3. (radio.heard \/ radio.hand.packet.kind # "Garbled") \in BOOLEAN
      OBVIOUS
    <2>4. PICK v \in BOOLEAN :
            radio' = [radio EXCEPT !.at = "Listening", !.hand = NIL, !.irq = NIL, !.heard = v]
      BY <1>4, <2>3, Zenon DEF HandOver
    <2>5. Radio
      BY <1>0, <2>4, SetRadio
    <2> QED
      BY <1>4, <2>2, <2>5 DEF HandOver, TypeOK, Radios, appVars
  <1>5. CASE OnTx
    <2>1. /\ radio' = [radio EXCEPT !.at = "Sending"] /\ radio.at = "Listening"
          /\ txChan > 0 /\ txChan' = txChan - 1
          /\ UNCHANGED <<rxChan, listen, appVars, hist, count>>
      BY <1>5 DEF OnTx
    <2>2. Radio
      BY <1>0, <2>1 DEF TypeOK, Radios
    <2>3. txChan \in 0..TxCap
      BY DEF TypeOK
    <2>4. txChan' \in 0..TxCap
      BY <2>1, <2>3, StationAssumption
    <2>5. UNCHANGED <<app, trans, rotation, echo, mode, sweep>>
      BY <2>1 DEF appVars
    <2> QED
      BY <2>1, <2>2, <2>4, <2>5 DEF TypeOK, Radios
  <1>6. CASE Sent
    <2>1. PICK irq \in {NIL, radio.irq} :
            radio' = [radio EXCEPT !.at = "Listening", !.irq = irq]
      BY <1>6 DEF Sent
    <2>2. Radio
      BY <1>6, <2>1 DEF Sent, TypeOK, Radios
    <2> QED
      BY <1>6, <2>2 DEF Sent, TypeOK, Radios, queues, appVars
  <1>7. CASE OnListen
    <2>1. listen \in Talkers \cup {"Hold", "Sweep"}
      BY <1>7 DEF OnListen, TypeOK
    <2>2. LockFor(listen) \in LockStates
      BY <2>1 DEF LockFor, NoLock, LockStates
    <2>3. Radio
      BY <1>0, <1>7, <1>a, <2>2, LockType DEF OnListen
    <2> QED
      BY <1>7, <2>3 DEF OnListen, TypeOK, Radios, appVars
  <1>8. CASE Arrive
    <2>1. PICK packet \in OnAir :
            radio' = [radio EXCEPT !.irq = [packet |-> packet, menu |-> app.at = "Menu"]]
      BY <1>8 DEF Arrive
    <2>2. [packet |-> packet, menu |-> app.at = "Menu"] \in Heard
      BY DEF Heard
    <2>3. PICK h \in Heard \cup {NIL} : radio' = [radio EXCEPT !.irq = h]
      BY <2>1, <2>2, Zenon
    <2>4. Radio
      BY <1>0, <1>a, <2>3, SetRadio
    <2>5. count' \in [arrivals : Nat, talks : Nat, menus : Nat]
      BY <1>8 DEF Arrive, TypeOK
    <2>6. UNCHANGED <<rxChan, txChan, listen, app, trans, rotation, echo, mode, sweep, hist>>
      BY <1>8 DEF Arrive, queues, appVars
    <2> QED
      BY <2>4, <2>5, <2>6 DEF TypeOK, Radios
  <1> QED
    BY <1>1, <1>2, <1>3, <1>4, <1>5, <1>6, <1>7, <1>8 DEF RadioNext

LEMMA HandledType ==
    ASSUME TypeOK, NEW menu \in BOOLEAN, NEW left \in BOOLEAN, Handled(menu, left)
    PROVE  hist' \in [left : BOOLEAN, drained : BOOLEAN, stale : Nat]
  BY DEF TypeOK, Handled

LEMMA ActiveType ==
    ASSUME Active
    PROVE  sweep' \in [quiet : BOOLEAN, told : BOOLEAN]
  BY DEF Active

LEMMA ReplayEchoType ==
    ASSUME ReplayEcho
    PROVE  /\ app' \in [at : {"Idle", "Relaying", "Streaming", "Menu", "Leaving"},
                        left : 0..MaxVoice]
           /\ listen' \in Talkers \cup {"Hold", "Sweep", NIL}
           /\ rotation' \in Talkers \cup {NIL}
           /\ echo' = NIL
  <1>1. Tell("Hold") /\ echo' = NIL
    BY DEF ReplayEcho
  <1>2. PICK left \in 1..MaxVoice : app' = [at |-> "Streaming", left |-> left]
    BY DEF ReplayEcho
  <1>3. left \in 0..MaxVoice
    BY StationAssumption
  <1> QED
    BY <1>1, <1>2, <1>3, TellType

\* A packet from the queue is handled, whatever its kind.
LEMMA OnRxPacketType ==
    ASSUME TypeOK, OnRxPacket
    PROVE  TypeOK'
  <1> DEFINE packet == Head(rxChan).packet
             menu   == Head(rxChan).menu
             ride   == RideConveyor(packet)
  <1>1. /\ rxChan # <<>> /\ Head(rxChan) \in Heard
        /\ rxChan' \in Seq(Heard) /\ Len(rxChan') <= RxCap
    BY QueueType DEF OnRxPacket, TypeOK
  <1>2. packet \in OnAir /\ menu \in BOOLEAN
    BY <1>1 DEF Heard
  <1>3. /\ hist.left \in BOOLEAN
        /\ sweep' \in [quiet : BOOLEAN, told : BOOLEAN]
        /\ UNCHANGED <<txChan, radio, mode, count>>
    BY ActiveType DEF OnRxPacket, TypeOK
  <1>4. Relay => app' \in [at : {"Idle", "Relaying", "Streaming", "Menu", "Leaving"},
                           left : 0..MaxVoice]
    BY DEF Relay, TypeOK
  <1>5. CASE OnGood(packet, menu)
    <2>1. /\ ride.trans \in Transmissions \cup {NIL} /\ packet.txid \in Talkers
          /\ trans' = ride.trans
      BY <1>2, <1>5, RideType DEF OnGood, IsAnyones, TypeOK
    <2>2. /\ listen' \in Talkers \cup {"Hold", "Sweep", NIL}
          /\ rotation' \in Talkers \cup {NIL}
      BY <1>5, <2>1, ListenToConveyorType DEF OnGood
    <2>3. hist' \in [left : BOOLEAN, drained : BOOLEAN, stale : Nat]
      BY <1>2, <1>3, <1>5, HandledType DEF OnGood
    <2>4. echo' \in Talkers \cup {NIL}
      BY <1>5, <2>1 DEF OnGood, Records, TypeOK
    <2>5. app' \in [at : {"Idle", "Relaying", "Streaming", "Menu", "Leaving"},
                    left : 0..MaxVoice]
      BY <1>4, <1>5 DEF OnGood, TypeOK
    <2> QED
      BY <1>1, <1>3, <2>1, <2>2, <2>3, <2>4, <2>5 DEF TypeOK
  <1>6. CASE OnEnd(packet, menu)
    <2>1. /\ ride.trans \in Transmissions \cup {NIL} /\ packet.txid \in Talkers
          /\ trans' \in Transmissions \cup {NIL}
      BY <1>2, <1>6, RideType DEF OnEnd, IsAnyones, TypeOK
    <2>2. CASE mode = "Echo" /\ echo = packet.txid
      <3>1. ReplayEcho /\ Handled(menu, FALSE)
        BY <1>6, <2>2 DEF OnEnd
      <3>2. hist' \in [left : BOOLEAN, drained : BOOLEAN, stale : Nat]
        BY <1>2, <3>1, HandledType
      <3> QED
        BY <1>1, <1>3, <2>1, <3>1, <3>2, ReplayEchoType DEF TypeOK
    <2>3. CASE ~(mode = "Echo" /\ echo = packet.txid)
      <3>1. /\ ListenToConveyor(ride.trans) /\ UNCHANGED echo
            /\ Handled(menu, hist.left)
            /\ Relay \/ UNCHANGED app
        BY <1>6, <2>3 DEF OnEnd
      <3>2. hist' \in [left : BOOLEAN, drained : BOOLEAN, stale : Nat]
        BY <1>2, <1>3, <3>1, HandledType
      <3>3. /\ listen' \in Talkers \cup {"Hold", "Sweep", NIL}
            /\ rotation' \in Talkers \cup {NIL}
        BY <2>1, <3>1, ListenToConveyorType
      <3> QED
        BY <1>1, <1>3, <1>4, <2>1, <3>1, <3>2, <3>3 DEF TypeOK
    <2> QED
      BY <2>2, <2>3
  <1>7. CASE OnUseless(packet, menu)
    <2>1. /\ listen' \in Talkers \cup {"Hold", "Sweep", NIL}
          /\ rotation' \in Talkers \cup {NIL}
      <3>1. ListenToConveyor(trans) \/ UNCHANGED <<listen, rotation>>
        BY <1>7 DEF OnUseless
      <3> QED
        BY <3>1, ListenToConveyorType DEF TypeOK
    <2>2. hist' \in [left : BOOLEAN, drained : BOOLEAN, stale : Nat]
      BY <1>2, <1>3, <1>7, HandledType DEF OnUseless
    <2>3. echo' \in Talkers \cup {NIL} /\ UNCHANGED <<app, trans>>
      BY <1>7 DEF OnUseless, Records, TypeOK, Transmissions
    <2> QED
      BY <1>1, <1>3, <2>1, <2>2, <2>3 DEF TypeOK
  <1> QED
    BY <1>5, <1>6, <1>7 DEF OnRxPacket

\* One more packet for the radio, where there is room.
LEMMA OneMoreToSend ==
    ASSUME txChan \in 0..TxCap, txChan < TxCap
    PROVE  txChan + 1 \in 0..TxCap
  BY StationAssumption

\* The other steps of the app and of its user keep the types.
LEMMA AppType ==
    ASSUME TypeOK,
           \/ Relayed \/ Stream \/ DiscardRx \/ Streamed \/ Housekeeping \/ LeaveMenu
           \/ Drain \/ OnPtt \/ Quieten \/ OpenMenu \/ SetMode
    PROVE  TypeOK'
  <1>1. CASE Relayed
    <2>1. /\ txChan' = txChan + 1 /\ txChan < TxCap
          /\ app' = [app EXCEPT !.at = "Idle"]
          /\ UNCHANGED <<rxChan, listen, radio, trans, rotation, echo, mode, sweep, hist,
                        count>>
      BY <1>1 DEF Relayed
    <2>2. txChan' \in 0..TxCap
      BY <2>1, OneMoreToSend DEF TypeOK
    <2>3. app' \in Apps
      BY <2>1 DEF TypeOK, Apps
    <2> QED
      BY <2>1, <2>2, <2>3 DEF TypeOK, Apps
  <1>2. CASE Stream
    <2>1. /\ txChan' = txChan + 1 /\ txChan < TxCap
          /\ app' = [app EXCEPT !.left = @ - 1] /\ app.left > 0
          /\ UNCHANGED <<rxChan, listen, radio, trans, rotation, echo, mode, sweep, hist,
                        count>>
      BY <1>2 DEF Stream
    <2>2. txChan' \in 0..TxCap
      BY <2>1, OneMoreToSend DEF TypeOK
    <2>a. app \in Apps /\ app.left \in 0..MaxVoice /\ app.left > 0
      BY <2>1 DEF TypeOK, Apps
    <2>3. app.left - 1 \in 0..MaxVoice
      BY <2>a, StationAssumption
    <2>4. app' \in Apps
      BY <2>1, <2>3, <2>a DEF Apps
    <2> QED
      BY <2>1, <2>2, <2>4 DEF TypeOK, Apps
  <1>3. CASE DiscardRx
    BY <1>3, QueueType DEF DiscardRx, TypeOK, appVars
  <1>4. CASE Streamed
    <2>1. hist \in Hists /\ hist' = [hist EXCEPT !.drained = FALSE]
      BY <1>4 DEF Streamed, TypeOK, Hists
    <2>2. hist' \in Hists
      BY <2>1, SetFlag, FALSE \in BOOLEAN, Zenon
    <2>3. app' \in [at : {"Idle", "Relaying", "Streaming", "Menu", "Leaving"},
                    left : 0..MaxVoice]
      BY <1>4 DEF Streamed, TypeOK
    <2> QED
      BY <1>4, <2>2, <2>3, ActiveType DEF Streamed, TypeOK, Hists, queues
  <1>5. CASE Housekeeping
    <2>1. /\ trans' \in Transmissions \cup {NIL}
          /\ UNCHANGED <<rxChan, txChan, radio, mode, count>>
      <3>1. \E over \in BOOLEAN : trans' = IF over THEN NIL ELSE trans
        BY <1>5 DEF Housekeeping
      <3>2. trans \in Transmissions \cup {NIL}
        BY DEF TypeOK
      <3> QED
        BY <1>5, <3>1, <3>2 DEF Housekeeping
    <2>2. CASE /\ ReplayEcho
               /\ hist' = [hist EXCEPT !.left = FALSE]
               /\ UNCHANGED sweep
      <3>1. hist \in Hists
        BY DEF TypeOK, Hists
      <3>2. hist' \in Hists
        BY <2>2, <3>1, SetFlag, FALSE \in BOOLEAN, Zenon
      <3> QED
        BY <2>1, <2>2, <3>2, ReplayEchoType DEF TypeOK, Hists
    <2>3. CASE /\ IF trans' = NIL /\ sweep.quiet /\ ~sweep.told
                  THEN Tell("Sweep") /\ sweep' = [sweep EXCEPT !.told = TRUE]
                  ELSE UNCHANGED <<listen, rotation, sweep>>
               /\ UNCHANGED <<app, echo, hist>>
      <3>1. CASE /\ Tell("Sweep")
                 /\ sweep' = [sweep EXCEPT !.told = TRUE]
        <4>1. sweep \in Sweeps
          BY DEF TypeOK, Sweeps
        <4>2. sweep' \in Sweeps
          BY <3>1, <4>1, SetFlag, TRUE \in BOOLEAN, Zenon
        <4> QED
          BY <2>1, <2>3, <3>1, <4>2, TellType DEF TypeOK, Sweeps
      <3>2. CASE UNCHANGED <<listen, rotation, sweep>>
        BY <2>1, <2>3, <3>2 DEF TypeOK
      <3> QED
        BY <2>3, <3>1, <3>2
    <2> QED
      BY <1>5, <2>2, <2>3 DEF Housekeeping
  <1>6. CASE LeaveMenu
    BY <1>6 DEF LeaveMenu, TypeOK, queues
  <1>7. CASE Drain
    <2>1. CASE /\ Drained
               /\ app' = [app EXCEPT !.at = "Idle"]
               /\ UNCHANGED <<queues, radio, trans, rotation, echo, mode, sweep, hist, count>>
      BY <2>1 DEF TypeOK, queues
    <2>2. CASE /\ app.at = "Leaving" /\ rxChan # <<>>
               /\ rxChan' = Tail(rxChan)
               /\ hist' = [hist EXCEPT !.drained = TRUE]
               /\ UNCHANGED <<txChan, listen, radio, appVars, count>>
      <3>1. hist \in Hists
        BY DEF TypeOK, Hists
      <3>2. hist' \in Hists
        BY <2>2, <3>1, SetFlag, TRUE \in BOOLEAN, Zenon
      <3> QED
        BY <2>2, <3>2, QueueType DEF TypeOK, Hists, appVars
    <2> QED
      BY <1>7, <2>1, <2>2 DEF Drain
  <1>8. CASE OnPtt
    <2>1. PICK left \in 1..MaxVoice : app' = [at |-> "Streaming", left |-> left]
      BY <1>8 DEF OnPtt
    <2>2. left \in 0..MaxVoice
      BY StationAssumption
    <2>3. Tell("Hold") /\ count' = [count EXCEPT !.talks = @ + 1]
      BY <1>8 DEF OnPtt
    <2> QED
      BY <1>8, <2>1, <2>2, <2>3, TellType DEF OnPtt, TypeOK
  <1>9. CASE Quieten
    <2>1. sweep \in Sweeps /\ sweep' = [sweep EXCEPT !.quiet = TRUE]
      BY <1>9 DEF Quieten, TypeOK, Sweeps
    <2>2. sweep' \in Sweeps
      BY <2>1, SetFlag, TRUE \in BOOLEAN, Zenon
    <2> QED
      BY <1>9, <2>2 DEF Quieten, TypeOK, Sweeps, queues
  <1>10. CASE OpenMenu
    <2>1. hist \in Hists /\ (echo # NIL) \in BOOLEAN
      BY DEF TypeOK, Hists
    <2>2. hist' \in Hists
      BY <1>10, <2>1, SetFlag, Zenon DEF OpenMenu
    <2>3. /\ app' \in [at : {"Idle", "Relaying", "Streaming", "Menu", "Leaving"},
                       left : 0..MaxVoice]
          /\ count' \in [arrivals : Nat, talks : Nat, menus : Nat]
      BY <1>10 DEF OpenMenu, TypeOK
    <2> QED
      BY <1>10, <2>2, <2>3 DEF OpenMenu, TypeOK, Hists, queues
  <1>11. CASE SetMode
    BY <1>11 DEF SetMode, TypeOK, queues
  <1> QED
    BY <1>1, <1>2, <1>3, <1>4, <1>5, <1>6, <1>7, <1>8, <1>9, <1>10, <1>11

\* Every variable keeps its type, whatever is heard and in whatever order the
\* two tasks go on: no queue is ever over its size, and the radio has a packet
\* in hand when and only when it is handing one over.
THEOREM TypeCorrect == Spec => []TypeOK
  <1>1. Init => TypeOK
    BY StationAssumption DEF Init, TypeOK
  <1>2. TypeOK /\ [Next]_vars => TypeOK'
    <2> SUFFICES ASSUME TypeOK, [Next]_vars
                 PROVE  TypeOK'
      OBVIOUS
    <2>1. CASE UNCHANGED vars
      BY <2>1 DEF vars, queues, appVars, TypeOK
    <2>2. CASE Next
      BY <2>2, RadioType, OnRxPacketType, AppType DEF Next, AppNext
    <2> QED
      BY <2>1, <2>2
  <1> QED
    BY <1>1, <1>2, PTL DEF Spec

-----------------------------------------------------------------------------
(* The rotation *)

\* A rotation is kept only while the radio is locked on it, and never given up
\* for a false alarm.
RotationInv ==
    /\ RotationAgrees
    /\ radio.rotation # NIL => radio.locked /\ radio.heard

LEMMA ListenStep ==
    ASSUME TypeOK, RotationInv, UNCHANGED radio,
           \/ \E word \in Talkers \cup {"Hold", "Sweep"} : Tell(word)
           \/ \E t \in Transmissions \cup {NIL} : ListenToConveyor(t)
           \/ UNCHANGED <<listen, rotation>>
    PROVE  RotationInv'
  <1>1. ASSUME rotation' # NIL => listen' = rotation'
        PROVE  RotationInv'
    BY <1>1 DEF RotationInv, RotationAgrees
  <1>2. CASE \E word \in Talkers \cup {"Hold", "Sweep"} : Tell(word)
    BY <1>1, <1>2, TellType
  <1>3. CASE UNCHANGED <<listen, rotation>>
    BY <1>3 DEF RotationInv, RotationAgrees
  <1>4. CASE \E t \in Transmissions \cup {NIL} : ListenToConveyor(t)
    BY <1>1, <1>3, <1>4, ListenToConveyorType
  <1> QED
    BY <1>2, <1>3, <1>4

LEMMA OnRxPacketRotation ==
    ASSUME TypeOK, RotationInv, OnRxPacket
    PROVE  RotationInv'
  <1> DEFINE packet == Head(rxChan).packet
             menu   == Head(rxChan).menu
             ride   == RideConveyor(packet)
  <1>1. UNCHANGED radio /\ packet \in OnAir
    BY QueueType DEF OnRxPacket, TypeOK, Heard
  <1>2. CASE OnGood(packet, menu)
    <2>1. ride.trans \in Transmissions \cup {NIL} /\ ListenToConveyor(ride.trans)
      BY <1>1, <1>2, RideType DEF OnGood, IsAnyones, TypeOK
    <2> QED
      BY <1>1, <2>1, ListenStep
  <1>3. CASE OnEnd(packet, menu)
    <2>1. ride.trans \in Transmissions \cup {NIL}
      BY <1>1, <1>3, RideType DEF OnEnd, IsAnyones, TypeOK
    <2>2. Tell("Hold") \/ ListenToConveyor(ride.trans)
      BY <1>3 DEF OnEnd, ReplayEcho
    <2> QED
      BY <1>1, <2>1, <2>2, ListenStep
  <1>4. CASE OnUseless(packet, menu)
    <2>1. ListenToConveyor(trans) \/ UNCHANGED <<listen, rotation>>
      BY <1>4 DEF OnUseless
    <2>2. trans \in Transmissions \cup {NIL}
      BY DEF TypeOK
    <2> QED
      BY <1>1, <2>1, <2>2, ListenStep
  <1> QED
    BY <1>2, <1>3, <1>4 DEF OnRxPacket

\* What the app believes the radio listens on, it does, or has yet to be told:
\* a word of the app's is lost only to a later one, and no false alarm takes a
\* rotation away.
THEOREM RotationCorrect == Spec => []RotationAgrees
  <1>1. Init => RotationInv
    BY DEF Init, RotationInv, RotationAgrees
  <1>2. TypeOK /\ RotationInv /\ [Next]_vars => RotationInv'
    <2> SUFFICES ASSUME TypeOK, RotationInv, [Next]_vars
                 PROVE  RotationInv'
      OBVIOUS
    <2>1. CASE UNCHANGED vars
      BY <2>1, ListenStep DEF vars, queues, appVars
    <2>2. CASE Hit
      <3>1. /\ UNCHANGED <<listen, rotation>> /\ ~radio.locked
            /\ radio'.rotation = NIL
        BY <2>2 DEF Hit, Locks, NoLock, queues, appVars, TypeOK
      <3> QED
        BY <3>1 DEF RotationInv, RotationAgrees
    <2>3. CASE FalseAlarm
      <3>1. /\ UNCHANGED <<listen, rotation>> /\ ~radio.heard /\ listen = NIL
            /\ radio'.rotation = NIL
        BY <2>3 DEF FalseAlarm, Locks, NoLock, queues, appVars, TypeOK
      <3> QED
        BY <3>1 DEF RotationInv, RotationAgrees
    <2>4. CASE OnIrq \/ HandOver \/ OnTx \/ Sent \/ Arrive
      <3>1. /\ UNCHANGED <<listen, rotation>>
            /\ radio'.rotation = radio.rotation /\ radio'.locked = radio.locked
        <4>1. CASE OnIrq
          BY <4>1 DEF OnIrq, queues, appVars, TypeOK
        <4>2. CASE HandOver
          BY <4>2 DEF HandOver, appVars, TypeOK
        <4>3. CASE OnTx
          BY <4>3 DEF OnTx, appVars, TypeOK
        <4>4. CASE Sent
          BY <4>4 DEF Sent, queues, appVars, TypeOK
        <4>5. CASE Arrive
          BY <4>5 DEF Arrive, queues, appVars, TypeOK
        <4> QED
          BY <2>4, <4>1, <4>2, <4>3, <4>4, <4>5
      <3>2. radio.heard => radio'.heard
        <4>1. CASE HandOver
          <5>1. radio \in Radios
            BY DEF TypeOK, Radios
          <5>2. (radio.heard \/ radio.hand.packet.kind # "Garbled") \in BOOLEAN
            OBVIOUS
          <5>3. PICK v \in BOOLEAN :
                  /\ radio' = [radio EXCEPT !.at = "Listening", !.hand = NIL, !.irq = NIL,
                                            !.heard = v]
                  /\ v = (radio.heard \/ radio.hand.packet.kind # "Garbled")
            BY <4>1, <5>2, Zenon DEF HandOver
          <5>4. radio.heard => v
            BY <5>3, Zenon
          <5>5. radio'.heard = v
            BY <5>1, <5>3 DEF Radios
          <5> QED
            BY <5>4, <5>5, Zenon
        <4>2. CASE OnIrq \/ OnTx \/ Sent \/ Arrive
          <5>1. CASE OnIrq
            BY <5>1 DEF OnIrq, TypeOK
          <5>2. CASE OnTx
            BY <5>2 DEF OnTx, TypeOK
          <5>3. CASE Sent
            BY <5>3 DEF Sent, TypeOK
          <5>4. CASE Arrive
            BY <5>4 DEF Arrive, TypeOK
          <5> QED
            BY <4>2, <5>1, <5>2, <5>3, <5>4
        <4> QED
          BY <2>4, <4>1, <4>2
      <3> QED
        BY <3>1, <3>2 DEF RotationInv, RotationAgrees
    <2>5. CASE OnListen
      <3>1. listen \in Talkers \cup {"Hold", "Sweep"} /\ UNCHANGED rotation
        BY <2>5 DEF OnListen, TypeOK, appVars
      <3>2. /\ listen' = NIL
            /\ radio'.rotation = LockFor(listen).rotation
            /\ radio'.locked = LockFor(listen).locked
            /\ radio'.heard = LockFor(listen).heard
        BY <2>5 DEF OnListen, Locks, TypeOK
      <3>3. rotation # NIL => listen = rotation /\ rotation \in Talkers
        BY <3>1, WordsApart DEF RotationInv, RotationAgrees, TypeOK
      <3>4. CASE listen = "Sweep"
        BY <3>1, <3>2, <3>3, <3>4, WordsApart
           DEF LockFor, NoLock, RotationInv, RotationAgrees
      <3>5. CASE listen = "Hold"
        BY <3>1, <3>2, <3>3, <3>5, WordsApart DEF LockFor, RotationInv, RotationAgrees
      <3>6. CASE listen \in Talkers
        BY <3>1, <3>2, <3>3, <3>6, WordsApart DEF LockFor, RotationInv, RotationAgrees
      <3> QED
        BY <3>1, <3>4, <3>5, <3>6
    <2>6. CASE OnRxPacket
      BY <2>6, OnRxPacketRotation
    <2>7. CASE OnPtt
      <3>1. Tell("Hold") /\ UNCHANGED radio
        BY <2>7 DEF OnPtt
      <3> QED
        BY <3>1, ListenStep
    <2>8. CASE Housekeeping
      <3>1. /\ UNCHANGED radio
            /\ Tell("Hold") \/ Tell("Sweep") \/ UNCHANGED <<listen, rotation>>
        BY <2>8 DEF Housekeeping, ReplayEcho
      <3> QED
        BY <3>1, ListenStep
    <2>9. CASE \/ Relayed \/ Stream \/ DiscardRx \/ Streamed \/ LeaveMenu \/ Drain
               \/ Quieten \/ OpenMenu \/ SetMode
      <3>1. UNCHANGED <<radio, listen, rotation>>
        BY <2>9 DEF Relayed, Stream, DiscardRx, Streamed, LeaveMenu, Drain, Quieten,
                    OpenMenu, SetMode, queues, appVars
      <3> QED
        BY <3>1, ListenStep
    <2> QED
      BY <2>1, <2>2, <2>3, <2>4, <2>5, <2>6, <2>7, <2>8, <2>9
         DEF Next, RadioNext, AppNext
  <1>3. RotationInv => RotationAgrees
    BY DEF RotationInv
  <1> QED
    BY <1>1, <1>2, <1>3, TypeCorrect, PTL DEF Spec

-----------------------------------------------------------------------------
(* The recording *)

\* The menu takes the conveyor away before it can set another mode, so one that
\* carries a recording is in echo mode, and its end replays it.
RecordingInv ==
    /\ app.at = "Menu" => trans = NIL
    /\ echo # NIL /\ ~hist.left => trans # NIL /\ trans.txid = echo /\ mode = "Echo"

\* A replay leaves nothing recorded.
LEMMA ReplayStep ==
    ASSUME ReplayEcho
    PROVE  RecordingInv'
  <1>1. echo' = NIL /\ \E left \in 1..MaxVoice : app' = [at |-> "Streaming", left |-> left]
    BY DEF ReplayEcho
  <1>2. app'.at = "Streaming"
    BY <1>1
  <1> QED
    BY <1>1, <1>2 DEF RecordingInv

\* A packet with no replay: the recording is as it was, or begins.
LEMMA RecordStep ==
    ASSUME TypeOK, RecordingInv, UNCHANGED mode, app.at = "Idle",
           app'.at # "Menu",
           hist'.left = hist.left,
           NEW now \in Transmissions \cup {NIL}, trans' = now,
           \/ UNCHANGED echo /\ (echo # NIL /\ ~hist.left =>
                                    now # NIL /\ now.txid = trans.txid)
           \/ /\ mode = "Echo" /\ now # NIL /\ Records(now.txid)
              /\ trans # NIL => now.txid = trans.txid
    PROVE  RecordingInv'
  BY DEF RecordingInv, Records, Transmissions, TypeOK

LEMMA HandledLeft ==
    ASSUME NEW menu, Handled(menu, hist.left)
    PROVE  hist'.left = hist.left
  BY DEF Handled

LEMMA OnRxPacketRecording ==
    ASSUME TypeOK, RecordingInv, OnRxPacket
    PROVE  RecordingInv'
  <1> DEFINE packet == Head(rxChan).packet
             menu   == Head(rxChan).menu
             ride   == RideConveyor(packet)
  <1>1. UNCHANGED mode /\ app.at = "Idle" /\ packet \in OnAir
    BY QueueType DEF OnRxPacket, TypeOK, Heard
  <1>2. Relay \/ UNCHANGED app => app'.at # "Menu"
    BY <1>1 DEF Relay, TypeOK
  <1>3. trans \in Transmissions \cup {NIL}
    BY DEF TypeOK
  <1>4. CASE OnGood(packet, menu)
    <2>1. /\ ride.trans \in Transmissions \cup {NIL}
          /\ ride.landed => ride.trans # NIL /\ ride.trans.txid = packet.txid
          /\ trans # NIL => ride.trans # NIL /\ ride.trans.txid = trans.txid
      BY <1>1, <1>3, <1>4, RideType DEF OnGood, IsAnyones
    <2>2. trans' = ride.trans /\ hist'.left = hist.left /\ app'.at # "Menu"
      BY <1>2, <1>4, HandledLeft DEF OnGood
    <2>3. CASE UNCHANGED echo
      <3>1. echo # NIL /\ ~hist.left =>
               ride.trans # NIL /\ ride.trans.txid = trans.txid
        BY <2>1 DEF RecordingInv
      <3> QED
        BY <1>1, <2>1, <2>2, <2>3, <3>1, RecordStep
    <2>4. CASE mode = "Echo" /\ ride.landed /\ Records(packet.txid)
      BY <1>1, <2>1, <2>2, <2>4, RecordStep
    <2> QED
      BY <1>4, <2>3, <2>4 DEF OnGood
  <1>5. CASE OnEnd(packet, menu)
    <2>1. /\ ride.trans \in Transmissions \cup {NIL}
          /\ trans # NIL => ride.trans # NIL /\ ride.trans.txid = trans.txid
      BY <1>1, <1>3, <1>5, RideType DEF OnEnd, IsAnyones
    <2>2. CASE mode = "Echo" /\ echo = packet.txid
      BY <1>5, <2>2, ReplayStep DEF OnEnd
    <2>3. CASE ~(mode = "Echo" /\ echo = packet.txid)
      <3>1. /\ UNCHANGED echo /\ hist'.left = hist.left /\ app'.at # "Menu"
        BY <1>2, <1>5, <2>3, HandledLeft DEF OnEnd
      <3>2. echo # NIL /\ ~hist.left =>
               /\ trans' = ride.trans
               /\ ride.trans # NIL /\ ride.trans.txid = trans.txid
        BY <1>5, <2>1, <2>3 DEF OnEnd, RecordingInv
      <3>3. trans' \in Transmissions \cup {NIL}
        BY <1>5, <2>1 DEF OnEnd
      <3> QED
        BY <1>1, <3>1, <3>2, <3>3, RecordStep
    <2> QED
      BY <2>2, <2>3
  <1>6. CASE OnUseless(packet, menu)
    <2>1. UNCHANGED trans /\ hist'.left = hist.left /\ app'.at # "Menu"
      BY <1>2, <1>6, HandledLeft DEF OnUseless
    <2>2. \/ UNCHANGED echo
          \/ mode = "Echo" /\ trans # NIL /\ Records(trans.txid)
      BY <1>6 DEF OnUseless
    <2>3. echo # NIL /\ ~hist.left => trans # NIL
      BY DEF RecordingInv
    <2> QED
      BY <1>1, <1>3, <2>1, <2>2, <2>3, RecordStep
  <1> QED
    BY <1>4, <1>5, <1>6 DEF OnRxPacket

\* A recording's transmission is on the conveyor, whose end replays it, unless
\* the menu took the conveyor away: in no other way is one left behind.
THEOREM RecordingCorrect == Spec => []RecordingRidesItsConveyor
  <1>1. Init => RecordingInv
    BY DEF Init, RecordingInv
  <1>2. TypeOK /\ RecordingInv /\ [Next]_vars => RecordingInv'
    <2> SUFFICES ASSUME TypeOK, RecordingInv, [Next]_vars
                 PROVE  RecordingInv'
      OBVIOUS
    <2>1. CASE UNCHANGED <<app, trans, echo, mode, hist>>
      BY <2>1 DEF RecordingInv
    <2>2. CASE \/ UNCHANGED vars \/ RadioNext \/ Arrive \/ Quieten \/ DiscardRx
      <3>1. UNCHANGED <<app, trans, echo, mode, hist>>
        BY <2>2 DEF vars, queues, appVars, RadioNext, Hit, FalseAlarm, OnIrq, HandOver,
                    OnTx, Sent, OnListen, Arrive, Quieten, DiscardRx
      <3> QED
        BY <2>1, <3>1
    <2>3. CASE OnRxPacket
      BY <2>3, OnRxPacketRecording
    <2>4. CASE Relayed \/ Stream \/ LeaveMenu
      <3>1. UNCHANGED <<trans, echo, mode, hist>> /\ app'.at # "Menu"
        BY <2>4 DEF Relayed, Stream, LeaveMenu, TypeOK
      <3> QED
        BY <3>1 DEF RecordingInv
    <2>5. CASE Streamed \/ Drain
      <3>1. UNCHANGED <<trans, echo, mode>> /\ app'.at # "Menu"
        BY <2>5 DEF Streamed, Drain, Drained, queues, appVars, TypeOK
      <3>2. hist'.left = hist.left
        BY <2>5 DEF Streamed, Drain, TypeOK
      <3> QED
        BY <3>1, <3>2 DEF RecordingInv
    <2>6. CASE Housekeeping
      <3>1. CASE ReplayEcho
        BY <3>1, ReplayStep
      <3>2. PICK over \in BOOLEAN :
              /\ trans' = IF over THEN NIL ELSE trans
              /\ \/ ReplayEcho
                 \/ ~ReplaysAtTheEnd(over) /\ UNCHANGED <<app, echo, hist>>
        BY <2>6 DEF Housekeeping
      <3>3. CASE ~ReplaysAtTheEnd(over) /\ UNCHANGED <<app, echo, hist>>
        <4>1. UNCHANGED mode /\ (over => echo = NIL)
          BY <2>6, <3>3 DEF Housekeeping, ReplaysAtTheEnd
        <4> QED
          BY <3>2, <3>3, <4>1 DEF RecordingInv
      <3> QED
        BY <3>1, <3>2, <3>3
    <2>7. CASE OnPtt
      <3>1. /\ UNCHANGED <<trans, echo, mode, hist>>
            /\ \E left \in 1..MaxVoice : app' = [at |-> "Streaming", left |-> left]
        BY <2>7 DEF OnPtt
      <3>2. app'.at = "Streaming"
        BY <3>1
      <3> QED
        BY <3>1, <3>2 DEF RecordingInv
    <2>8. CASE OpenMenu
      <3>1. trans' = NIL /\ UNCHANGED <<echo, mode>>
        BY <2>8 DEF OpenMenu
      <3>2. echo # NIL => hist'.left
        BY <2>8 DEF OpenMenu, TypeOK
      <3> QED
        BY <3>1, <3>2 DEF RecordingInv
    <2>9. CASE SetMode
      BY <2>9 DEF SetMode, RecordingInv
    <2> QED
      BY <2>2, <2>3, <2>4, <2>5, <2>6, <2>7, <2>8, <2>9 DEF Next, AppNext
  <1>3. RecordingInv => RecordingRidesItsConveyor
    BY DEF RecordingInv, RecordingRidesItsConveyor
  <1> QED
    BY <1>1, <1>2, <1>3, TypeCorrect, PTL DEF Spec

-----------------------------------------------------------------------------
(* What the menu leaves over *)

InMenu == app.at \in {"Menu", "Leaving"}

\* What the radio will hand over next, of one in its hand and one in its chip:
\* handing over clears the chip.
Coming(r) == IF r.hand # NIL THEN r.hand ELSE r.irq

IsLeftover(h) == h # NIL /\ h.menu

NoneQueued(q)  == \A i \in DOMAIN q : ~q[i].menu
AtMostOneQueued(q) == \A i, j \in DOMAIN q : q[i].menu /\ q[j].menu => i = j

\* Once the menu is left, one packet of its time at most is still to come, in
\* RX_CHAN or from the radio, and it is counted for a menu that none of those
\* handled was counted for.
LeftoversInv ==
    /\ hist.stale <= count.menus
    /\ InMenu => hist.stale < count.menus
    /\ ~InMenu => /\ AtMostOneQueued(rxChan)
                  /\ IsLeftover(Coming(radio)) => NoneQueued(rxChan)
                  /\ IsLeftover(Coming(radio)) => hist.stale < count.menus
                  /\ ~NoneQueued(rxChan) => hist.stale < count.menus

LEMMA TailOfLeftovers ==
    ASSUME NEW q \in Seq(Heard), q # <<>>
    PROVE  /\ AtMostOneQueued(q) => AtMostOneQueued(Tail(q))
           /\ NoneQueued(q) => NoneQueued(Tail(q))
           /\ AtMostOneQueued(q) /\ Head(q).menu => NoneQueued(Tail(q))
  <1>1. \A i \in DOMAIN Tail(q) : /\ i \in Int /\ i + 1 \in DOMAIN q /\ i + 1 # 1
                                  /\ Tail(q)[i] = q[i + 1]
    OBVIOUS
  <1>2. \A i, j \in DOMAIN Tail(q) : i + 1 = j + 1 => i = j
    BY <1>1
  <1>3. Head(q) = q[1] /\ 1 \in DOMAIN q
    OBVIOUS
  <1>4. AtMostOneQueued(q) => AtMostOneQueued(Tail(q))
    BY <1>1, <1>2 DEF AtMostOneQueued
  <1>5. NoneQueued(q) => NoneQueued(Tail(q))
    BY <1>1 DEF NoneQueued
  <1>6. AtMostOneQueued(q) /\ Head(q).menu => NoneQueued(Tail(q))
    BY <1>1, <1>3 DEF NoneQueued, AtMostOneQueued
  <1> QED
    BY <1>4, <1>5, <1>6

LEMMA AppendToLeftovers ==
    ASSUME NEW q \in Seq(Heard), NEW h \in Heard
    PROVE  /\ NoneQueued(q) => AtMostOneQueued(Append(q, h))
           /\ AtMostOneQueued(q) /\ ~h.menu => AtMostOneQueued(Append(q, h))
           /\ NoneQueued(q) /\ ~h.menu => NoneQueued(Append(q, h))
  <1>1. /\ DOMAIN Append(q, h) = DOMAIN q \cup {Len(q) + 1}
        /\ \A i \in DOMAIN q : Append(q, h)[i] = q[i]
        /\ Append(q, h)[Len(q) + 1] = h
    OBVIOUS
  <1> QED
    BY <1>1 DEF NoneQueued, AtMostOneQueued

LEMMA NothingLeftOver ==
    AtMostOneQueued(<<>>) /\ NoneQueued(<<>>)
  BY DEF AtMostOneQueued, NoneQueued

\* A step that only the radio's next packet may be lost or replaced in.
LEMMA LeftAsTheyWere ==
    ASSUME LeftoversInv, rxChan' = rxChan, InMenu' <=> InMenu,
           hist'.stale = hist.stale, count'.menus = count.menus,
           ~InMenu => (IsLeftover(Coming(radio')) => IsLeftover(Coming(radio)))
    PROVE  LeftoversInv'
  <1>1. CASE InMenu
    BY <1>1 DEF LeftoversInv
  <1>2. CASE ~InMenu
    BY <1>2 DEF LeftoversInv
  <1> QED
    BY <1>1, <1>2

\* What the radio and the air do: a packet that ends while the menu is closed
\* is none of its leftovers, and what the chip has is handed over or lost.
LEMMA RadioLeftovers ==
    ASSUME TypeOK, LeftoversInv, RadioNext \/ Arrive
    PROVE  LeftoversInv'
  <1>1. ASSUME UNCHANGED <<rxChan, app, hist>>, count'.menus = count.menus,
               ~InMenu => (IsLeftover(Coming(radio')) => IsLeftover(Coming(radio)))
        PROVE  LeftoversInv'
    <2>1. InMenu' <=> InMenu
      BY <1>1 DEF InMenu
    <2>2. rxChan' = rxChan /\ hist'.stale = hist.stale
      BY <1>1
    <2> QED
      BY <1>1, <2>1, <2>2, LeftAsTheyWere
  <1>2. CASE Hit \/ FalseAlarm \/ OnTx \/ OnListen
    <2>1. /\ UNCHANGED <<rxChan, app, hist, count>>
          /\ radio'.hand = radio.hand /\ radio'.irq = radio.irq
      BY <1>2 DEF Hit, FalseAlarm, OnTx, OnListen, Locks, queues, appVars, TypeOK
    <2> QED
      BY <1>1, <2>1 DEF Coming
  <1>3. CASE OnIrq
    <2>1. /\ UNCHANGED <<rxChan, app, hist, count>>
          /\ radio'.hand = radio.irq /\ radio.irq # NIL /\ radio.hand = NIL
      BY <1>3 DEF OnIrq, queues, appVars, TypeOK
    <2> QED
      BY <1>1, <2>1 DEF Coming
  <1>4. CASE Sent
    <2>1. /\ UNCHANGED <<rxChan, app, hist, count>>
          /\ radio.hand = NIL /\ radio'.hand = NIL
          /\ radio'.irq \in {NIL, radio.irq}
      BY <1>4 DEF Sent, queues, appVars, TypeOK
    <2> QED
      BY <1>1, <2>1 DEF Coming, IsLeftover
  <1>5. CASE Arrive
    <2>1. UNCHANGED <<rxChan, app, hist>> /\ count'.menus = count.menus
      BY <1>5 DEF Arrive, queues, appVars, TypeOK
    <2>2. PICK packet \in OnAir :
             radio' = [radio EXCEPT !.irq = [packet |-> packet, menu |-> app.at = "Menu"]]
      BY <1>5 DEF Arrive
    <2>3. PICK h : h = [packet |-> packet, menu |-> app.at = "Menu"]
      OBVIOUS
    <2>4. radio' = [radio EXCEPT !.irq = h]
      BY <2>2, <2>3
    <2>5. radio'.hand = radio.hand /\ radio'.irq = h
      BY <2>4 DEF TypeOK
    <2>6. ~InMenu => ~h.menu
      BY <2>3 DEF InMenu
    <2> QED
      BY <1>1, <2>1, <2>5, <2>6 DEF Coming, IsLeftover
  <1>6. CASE HandOver
    <2>1. /\ UNCHANGED <<app, hist, count>>
          /\ rxChan' = Append(rxChan, radio.hand)
          /\ radio.hand # NIL /\ radio.hand \in Heard
      BY <1>6 DEF HandOver, appVars, TypeOK
    <2>2. radio'.hand = NIL /\ radio'.irq = NIL
      <3>1. radio \in Radios
        BY DEF TypeOK, Radios
      <3>2. (radio.heard \/ radio.hand.packet.kind # "Garbled") \in BOOLEAN
        OBVIOUS
      <3>3. PICK v \in BOOLEAN :
              radio' = [radio EXCEPT !.at = "Listening", !.hand = NIL, !.irq = NIL,
                                     !.heard = v]
        BY <1>6, <3>2, Zenon DEF HandOver
      <3> QED
        BY <3>1, <3>3 DEF Radios
    <2>3. ~IsLeftover(Coming(radio'))
      BY <2>2 DEF IsLeftover, Coming
    <2>4. InMenu' <=> InMenu
      BY <2>1 DEF InMenu
    <2>5. /\ hist'.stale = hist.stale /\ count'.menus = count.menus
          /\ rxChan \in Seq(Heard)
      BY <2>1 DEF TypeOK
    <2>6. CASE InMenu
      BY <2>4, <2>5, <2>6 DEF LeftoversInv
    <2>7. CASE ~InMenu /\ radio.hand.menu
      <3>1. IsLeftover(Coming(radio))
        BY <2>1, <2>7 DEF IsLeftover, Coming
      <3>2. NoneQueued(rxChan) /\ hist.stale < count.menus
        BY <2>7, <3>1 DEF LeftoversInv
      <3>3. AtMostOneQueued(rxChan')
        BY <2>1, <2>5, <3>2, AppendToLeftovers
      <3> QED
        BY <2>3, <2>4, <2>5, <2>7, <3>2, <3>3 DEF LeftoversInv
    <2>8. CASE ~InMenu /\ ~radio.hand.menu
      <3>1. AtMostOneQueued(rxChan)
        BY <2>8 DEF LeftoversInv
      <3>2. /\ AtMostOneQueued(rxChan')
            /\ NoneQueued(rxChan) => NoneQueued(rxChan')
        BY <2>1, <2>5, <2>8, <3>1, AppendToLeftovers
      <3> QED
        BY <2>3, <2>4, <2>5, <2>8, <3>2 DEF LeftoversInv
    <2> QED
      BY <2>6, <2>7, <2>8
  <1> QED
    BY <1>2, <1>3, <1>4, <1>5, <1>6 DEF RadioNext

\* The app takes a packet: one of the menu's time was the only one.
LEMMA OnRxPacketLeftovers ==
    ASSUME TypeOK, LeftoversInv, OnRxPacket
    PROVE  LeftoversInv'
  <1> DEFINE packet == Head(rxChan).packet
             menu   == Head(rxChan).menu
  <1>1. /\ app.at = "Idle" /\ rxChan # <<>> /\ rxChan' = Tail(rxChan)
        /\ UNCHANGED <<radio, count>>
    BY DEF OnRxPacket
  <1>2. ~InMenu
    BY <1>1 DEF InMenu
  <1>3. hist'.stale = hist.stale + IF menu THEN 1 ELSE 0
    BY DEF OnRxPacket, OnGood, OnEnd, OnUseless, Handled
  <1>4. ~InMenu'
    <2>1. app' = app \/ Relay \/ ReplayEcho
      BY DEF OnRxPacket, OnGood, OnEnd, OnUseless
    <2>2. CASE app' = app
      BY <1>2, <2>2 DEF InMenu
    <2>3. CASE Relay
      BY <2>3 DEF Relay, InMenu, TypeOK
    <2>4. CASE ReplayEcho
      <3>1. app'.at = "Streaming"
        BY <2>4 DEF ReplayEcho
      <3> QED
        BY <3>1 DEF InMenu
    <2> QED
      BY <2>1, <2>2, <2>3, <2>4
  <1>5. /\ rxChan \in Seq(Heard) /\ hist.stale \in Nat /\ count.menus \in Nat
        /\ Coming(radio') = Coming(radio) /\ count'.menus = count.menus
    BY <1>1 DEF TypeOK
  <1>6. AtMostOneQueued(rxChan) /\ AtMostOneQueued(rxChan')
    BY <1>1, <1>2, <1>5, TailOfLeftovers DEF LeftoversInv
  <1>7. CASE menu
    <2>1. NoneQueued(rxChan')
      BY <1>1, <1>5, <1>6, <1>7, TailOfLeftovers
    <2>2. ~NoneQueued(rxChan)
      <3>1. 1 \in DOMAIN rxChan /\ rxChan[1] = Head(rxChan)
        BY <1>1, <1>5
      <3> QED
        BY <1>7, <3>1 DEF NoneQueued
    <2>3. ~IsLeftover(Coming(radio)) /\ hist.stale < count.menus
      BY <1>2, <2>2 DEF LeftoversInv
    <2>4. hist'.stale = hist.stale + 1
      BY <1>3, <1>7
    <2> QED
      BY <1>4, <1>5, <1>6, <2>1, <2>3, <2>4 DEF LeftoversInv
  <1>8. CASE ~menu
    <2>1. hist'.stale = hist.stale
      BY <1>3, <1>5, <1>8
    <2>2. NoneQueued(rxChan) => NoneQueued(rxChan')
      BY <1>1, <1>5, TailOfLeftovers
    <2> QED
      BY <1>2, <1>4, <1>5, <1>6, <2>1, <2>2 DEF LeftoversInv
  <1> QED
    BY <1>7, <1>8

\* Of all that was heard while the menu was open, the app handles at most the
\* one the radio had in its hand or in its chip when the menu was left: what was
\* in RX_CHAN has been thrown away, and handing one over clears the chip.
THEOREM LeftoversCorrect == Spec => []LeftoversAreFew
  <1>1. Init => LeftoversInv
    BY NothingLeftOver DEF Init, LeftoversInv, InMenu, IsLeftover, Coming
  <1>2. TypeOK /\ LeftoversInv /\ [Next]_vars => LeftoversInv'
    <2> SUFFICES ASSUME TypeOK, LeftoversInv, [Next]_vars
                 PROVE  LeftoversInv'
      OBVIOUS
    <2>0. ASSUME UNCHANGED <<rxChan, radio>>, InMenu' <=> InMenu,
                 hist'.stale = hist.stale, count'.menus = count.menus
          PROVE  LeftoversInv'
      BY <2>0, LeftAsTheyWere
    <2>1. CASE RadioNext \/ Arrive
      BY <2>1, RadioLeftovers
    <2>2. CASE OnRxPacket
      BY <2>2, OnRxPacketLeftovers
    <2>3. CASE UNCHANGED vars \/ Quieten \/ SetMode
      <3>1. UNCHANGED <<rxChan, radio, app, hist, count>>
        BY <2>3 DEF vars, queues, appVars, Quieten, SetMode
      <3> QED
        BY <2>0, <3>1 DEF InMenu
    <2>4. CASE Relayed \/ Stream \/ Streamed \/ LeaveMenu
      <3>1. UNCHANGED <<rxChan, radio, count>>
        BY <2>4 DEF Relayed, Stream, Streamed, LeaveMenu, queues
      <3>2. InMenu' <=> InMenu
        BY <2>4 DEF Relayed, Stream, Streamed, LeaveMenu, InMenu, TypeOK
      <3>3. hist'.stale = hist.stale
        BY <2>4 DEF Relayed, Stream, Streamed, LeaveMenu, TypeOK
      <3> QED
        BY <2>0, <3>1, <3>2, <3>3
    <2>5. CASE OnPtt
      <3>1. UNCHANGED <<rxChan, radio, hist>> /\ app.at = "Idle" /\ app'.at = "Streaming"
        BY <2>5 DEF OnPtt, Waits
      <3>2. count'.menus = count.menus
        BY <2>5 DEF OnPtt, TypeOK
      <3> QED
        BY <2>0, <3>1, <3>2 DEF InMenu
    <2>6. CASE Housekeeping
      <3>1. UNCHANGED <<rxChan, radio, count>> /\ app.at = "Idle"
        BY <2>6 DEF Housekeeping, Waits
      <3>2. app'.at \in {"Idle", "Streaming"}
        BY <2>6, <3>1 DEF Housekeeping, ReplayEcho
      <3>3. hist'.stale = hist.stale
        BY <2>6 DEF Housekeeping, TypeOK
      <3> QED
        BY <2>0, <3>1, <3>2, <3>3 DEF InMenu
    <2>7. CASE DiscardRx
      <3>1. /\ UNCHANGED <<radio, app, hist, count>> /\ ~InMenu
            /\ rxChan # <<>> /\ rxChan' = Tail(rxChan) /\ rxChan \in Seq(Heard)
        BY <2>7 DEF DiscardRx, DiscardsRx, InMenu, appVars, TypeOK
      <3>2. ~InMenu' /\ AtMostOneQueued(rxChan)
        BY <3>1 DEF InMenu, LeftoversInv
      <3>3. /\ AtMostOneQueued(rxChan')
            /\ NoneQueued(rxChan) => NoneQueued(rxChan')
        BY <3>1, <3>2, TailOfLeftovers
      <3> QED
        BY <3>1, <3>2, <3>3 DEF LeftoversInv
    <2>8. CASE OpenMenu
      <3>1. hist'.stale = hist.stale /\ count'.menus = count.menus + 1
        BY <2>8 DEF OpenMenu, TypeOK
      <3>2. InMenu' /\ hist.stale \in Nat /\ count.menus \in Nat
        BY <2>8 DEF OpenMenu, InMenu, TypeOK
      <3> QED
        BY <3>1, <3>2 DEF LeftoversInv
    <2>9. CASE Drain
      <3>1. InMenu /\ count' = count /\ radio' = radio /\ hist'.stale = hist.stale
        BY <2>9 DEF Drain, Drained, InMenu, appVars, queues, TypeOK
      <3>2. CASE Drained /\ UNCHANGED rxChan
        <4>1. rxChan' = <<>>
          BY <3>2 DEF Drained
        <4> QED
          BY <3>1, <4>1, NothingLeftOver DEF LeftoversInv
      <3>3. CASE UNCHANGED app
        <4>1. InMenu'
          BY <3>1, <3>3 DEF InMenu
        <4> QED
          BY <3>1, <4>1 DEF LeftoversInv
      <3> QED
        BY <2>9, <3>2, <3>3 DEF Drain, queues, appVars
    <2> QED
      BY <2>1, <2>2, <2>3, <2>4, <2>5, <2>6, <2>7, <2>8, <2>9 DEF Next, AppNext
  <1>3. LeftoversInv => LeftoversAreFew
    BY DEF LeftoversInv, LeftoversAreFew
  <1> QED
    BY <1>1, <1>2, <1>3, TypeCorrect, PTL DEF Spec
=============================================================================
