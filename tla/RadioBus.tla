-------------------------------- MODULE RadioBus --------------------------------
(***************************************************************************)
(* The radio's SPI bus (src/devices/radio_bus.rs): a transaction of        *)
(* lora-phy's is laid out in a buffer used again each time, sent in one    *)
(* transfer, and waited for asleep: the interrupt that ends the transfer   *)
(* sets SPI_DONE and wakes the task.  The interrupt and the task are on    *)
(* one core (radio.rs, run), so the task never sees half of an interrupt;  *)
(* between two steps of the task, it may come.                             *)
(*                                                                         *)
(* A byte is who wrote it: [by, call, op, at]; SILENCE is a zero.          *)
(***************************************************************************)
EXTENDS Integers, Sequences, SequencesExt

CONSTANTS Operations,  \* those lora-phy may ask for: each [kind: "Bytes" or "Delay",
                       \* write: how many bytes it gives, read: how many it wants]
          MaxTransfer, \* the buffers' length, MAX_TRANSFER
          MaxOps,      \* bound: operations of a transaction
          MaxBusCalls, \* bound: transactions
          NIL

VARIABLES call,   \* the task's: [count, at, ops, read: each operation's bytes, or NIL]
          device  \* [tx, rx, wire: the bytes going out or NIL, done: SPI_DONE,
                  \* waker: registered, notified: the task is]

busVars == <<call, device>>

SILENCE == [by |-> "Nobody", call |-> 0, op |-> 0, at |-> 0]
FromApp(count, o, at) == [by |-> "App", call |-> count, op |-> o, at |-> at]
FromChip(at) == [by |-> "Chip", call |-> call.count, op |-> 0, at |-> at]

\* operation_len: what it takes on the wire; a delay, nothing that is allowed.
OperationLen(op) == Max({op.write, op.read})

\* Where an operation's bytes start on the wire, less one.
Offset(ops, o) == FoldSeq(LAMBDA op, len : len + OperationLen(op), 0, SubSeq(ops, 1, o - 1))
Length(ops) == Offset(ops, Len(ops) + 1)

\* The first operation that is refused: a delay, or one that ends past the buffer.
Refused(ops) ==
    {o \in DOMAIN ops :
        ops[o].kind = "Delay" \/ Offset(ops, o + 1) > MaxTransfer}

-----------------------------------------------------------------------------
\* transaction: the operations laid out in tx, until one is refused.
LaysOut(ops) ==
    LET laid    == {o \in DOMAIN ops : \A r \in Refused(ops) : o < r}
        At(o, place) == place - Offset(ops, o)
        Its(place) == {o \in laid : At(o, place) \in 1..OperationLen(ops[o])}
        Byte(o, at) == IF at <= ops[o].write THEN FromApp(call.count + 1, o, at) ELSE SILENCE
    IN  /\ call.at = "Idle" /\ call.count < MaxBusCalls
        /\ device' = [device EXCEPT !.tx = [place \in DOMAIN @ |->
                         IF Its(place) = {} THEN @[place]
                         ELSE LET o == CHOOSE o \in Its(place) : TRUE
                              IN  Byte(o, At(o, place))]]
        /\ call' = [count |-> call.count + 1, ops |-> ops, read |-> NIL,
                    at |-> IF Refused(ops) # {} THEN "Idle"
                           ELSE IF Length(ops) = 0 THEN "Collect" ELSE "Queue"]

\* transfer: SPI_DONE cleared, and the transfer queued; ESP-IDF may refuse it.
Queues ==
    /\ call.at = "Queue"
    /\ \/ /\ device' = [device EXCEPT !.done = FALSE,
                                      !.wire = SubSeq(device.tx, 1, Length(call.ops))]
          /\ call' = [call EXCEPT !.at = "Register"]
       \/ /\ device' = [device EXCEPT !.done = FALSE]
          /\ call' = [call EXCEPT !.at = "Idle"]

\* The interrupt: what the chip sent is in rx; on_spi_done.
OnSpiDone ==
    /\ device.wire # NIL
    /\ device' = [device EXCEPT
                     !.rx = [place \in DOMAIN @ |->
                                IF place <= Len(device.wire) THEN FromChip(place) ELSE @[place]],
                     !.wire = NIL, !.done = TRUE,
                     !.notified = @ \/ device.waker, !.waker = FALSE]
    /\ UNCHANGED call

\* A poll: the waker is registered first, then SPI_DONE is looked at.
Registers ==
    /\ call.at = "Register"
    /\ device' = [device EXCEPT !.waker = TRUE]
    /\ call' = [call EXCEPT !.at = "Check"]

Checks ==
    /\ call.at = "Check"
    /\ call' = [call EXCEPT !.at = IF device.done THEN "Collect" ELSE "Asleep"]
    /\ UNCHANGED device

\* The task's executor: polls again once the task is notified.
Wakes ==
    /\ call.at = "Asleep" /\ device.notified
    /\ call' = [call EXCEPT !.at = "Register"]
    /\ device' = [device EXCEPT !.notified = FALSE]

\* Something else the task waits for notifies it.
Notified ==
    /\ call.at # "Idle" /\ ~device.notified
    /\ device' = [device EXCEPT !.notified = TRUE]
    /\ UNCHANGED call

\* The bytes an operation wanted, from its own part of what came back.
Part(o) == [at \in 1..call.ops[o].read |-> device.rx[Offset(call.ops, o) + at]]

\* Collected: each read gets its part.
Collects ==
    /\ call.at = "Collect"
    /\ call' = [call EXCEPT !.at = "Idle", !.read = [o \in DOMAIN call.ops |-> Part(o)]]
    /\ UNCHANGED device

-----------------------------------------------------------------------------
BusInit ==
    /\ call = [count |-> 0, at |-> "Idle", ops |-> <<>>, read |-> NIL]
    /\ device = [tx |-> [place \in 1..MaxTransfer |-> SILENCE],
                 rx |-> [place \in 1..MaxTransfer |-> SILENCE],
                 wire |-> NIL, done |-> FALSE, waker |-> FALSE, notified |-> FALSE]

BusNext ==
    \/ \E ops \in SeqOf(Operations, MaxOps) : LaysOut(ops)
    \/ Queues \/ OnSpiDone \/ Registers \/ Checks \/ Wakes \/ Notified \/ Collects

BusSpec == BusInit /\ [][BusNext]_busVars

-----------------------------------------------------------------------------
(* Properties *)

BusTypeOK ==
    /\ call.at \in {"Idle", "Queue", "Register", "Check", "Asleep", "Collect"}
    /\ call.count \in 0..MaxBusCalls
    /\ device.done \in BOOLEAN /\ device.waker \in BOOLEAN /\ device.notified \in BOOLEAN

\* What goes out is this transaction's, silence where it only listens, and what each
\* operation reads came back beside its own bytes; the task never sleeps on once the
\* transfer is done, nor leaves the bus while one is on.
TransfersAreTheirs ==
    /\ device.wire # NIL =>
        /\ call.at # "Idle"
        /\ \A o \in DOMAIN call.ops : \A at \in 1..OperationLen(call.ops[o]) :
            device.wire[Offset(call.ops, o) + at] =
                IF at <= call.ops[o].write THEN FromApp(call.count, o, at) ELSE SILENCE
    /\ call.read # NIL =>
        \A o \in DOMAIN call.ops : \A at \in 1..call.ops[o].read :
            call.read[o][at] = FromChip(Offset(call.ops, o) + at)
    /\ call.at = "Asleep" /\ device.done => device.notified
=============================================================================
