--------------------------------- MODULE IrqPin ---------------------------------
(***************************************************************************)
(* An input pin whose interrupt wakes the task that waits on it            *)
(* (src/devices/irq_pin.rs): DIO1, BUSY, PTT.  A wait may be dropped       *)
(* asleep (a select's), and its interrupt stays armed.  The interrupt runs *)
(* on the task's core, even while the flash is written and the task is     *)
(* held up.                                                                *)
(***************************************************************************)
EXTENDS Integers

CONSTANTS MaxChanges, \* bound: how often the pin changes
          MaxWaits,   \* bound: waits begun
          NIL

VARIABLES pin,  \* [high, changes, armed: the trigger armed or NIL, edge: one came
                \* while armed, fired, firedAt, notified: the task is]
          wait  \* [at, trigger, count, began: the pin's changes when it did,
                \* met: its trigger was, since]

pinVars == <<pin, wait>>

Triggers == {"High", "Low", "Edge"}

\* The level a trigger asks for is there.
LevelIs(trigger, high) == trigger = IF high THEN "High" ELSE "Low"

-----------------------------------------------------------------------------
(* The pin *)

Changes ==
    /\ pin.changes < MaxChanges
    /\ pin' = [pin EXCEPT !.high = ~@, !.changes = @ + 1,
                          !.edge = @ \/ pin.armed = "Edge"]
    /\ wait' = [wait EXCEPT !.met = @ \/ (wait.at # "Idle"
                                             /\ (LevelIs(wait.trigger, ~pin.high)
                                                    \/ wait.trigger = "Edge"))]

\* on_pin: disarmed, the time noted, the task notified.
OnPin ==
    /\ LevelIs(pin.armed, pin.high) \/ (pin.armed = "Edge" /\ pin.edge)
    /\ pin' = [pin EXCEPT !.armed = NIL, !.edge = FALSE,
                          !.fired = TRUE, !.firedAt = pin.changes, !.notified = TRUE]
    /\ UNCHANGED wait

\* fired_at_us: no time for a wait that found its level there.
FiredAt == IF pin.fired THEN pin.firedAt ELSE NIL

-----------------------------------------------------------------------------
(* The task *)

\* Mutant of Begun: the last interrupt stays noted.
BegunAsItWas == [pin EXCEPT !.armed = NIL, !.edge = FALSE]

\* wait_for: disarmed before anything else, and nothing has fired yet.
Begun == [pin EXCEPT !.armed = NIL, !.edge = FALSE, !.fired = FALSE]

WaitFor(trigger) ==
    /\ wait.at = "Idle" /\ wait.count < MaxWaits
    /\ pin' = Begun
    /\ wait' = [at |-> "Look", trigger |-> trigger, count |-> wait.count + 1,
                began |-> pin.changes, met |-> LevelIs(trigger, pin.high)]

\* A level already there ends it at once; an edge counts only from now on.
Looks ==
    /\ wait.at = "Look"
    /\ wait' = [wait EXCEPT !.at = IF LevelIs(wait.trigger, pin.high) THEN "Idle" ELSE "Arm"]
    /\ UNCHANGED pin

\* Armed: a level come since fires at once.
Arms ==
    /\ wait.at = "Arm"
    /\ pin' = [pin EXCEPT !.armed = wait.trigger, !.edge = FALSE]
    /\ wait' = [wait EXCEPT !.at = "Poll"]

Polls ==
    /\ wait.at = "Poll"
    /\ wait' = [wait EXCEPT !.at = IF pin.fired THEN "Idle" ELSE "Asleep"]
    /\ UNCHANGED pin

\* block_on, once its task is notified.
WakesUp ==
    /\ wait.at = "Asleep" /\ pin.notified
    /\ pin' = [pin EXCEPT !.notified = FALSE]
    /\ wait' = [wait EXCEPT !.at = "Poll"]

\* A select drops the wait: something else came first.
Drops ==
    /\ wait.at = "Asleep"
    /\ wait' = [wait EXCEPT !.at = "Idle", !.trigger = NIL, !.met = FALSE]
    /\ UNCHANGED pin

-----------------------------------------------------------------------------
PinInit ==
    /\ pin \in [high : BOOLEAN, changes : {0}, armed : {NIL}, edge : {FALSE},
                fired : {FALSE}, firedAt : {0}, notified : {FALSE}]
    /\ wait = [at |-> "Idle", trigger |-> NIL, count |-> 0, began |-> 0, met |-> FALSE]

PinNext ==
    \/ Changes \/ OnPin \/ Looks \/ Arms \/ Polls \/ WakesUp \/ Drops
    \/ \E trigger \in Triggers : WaitFor(trigger)

PinSpec == PinInit /\ [][PinNext]_pinVars

-----------------------------------------------------------------------------
(* Properties *)

PinTypeOK ==
    /\ pin.armed \in Triggers \cup {NIL} /\ pin.changes \in 0..MaxChanges
    /\ wait.at \in {"Idle", "Look", "Arm", "Poll", "Asleep"}
    /\ wait.trigger \in Triggers \cup {NIL}

\* A wait ends once its level or edge has come since it began, not by an interrupt
\* of a wait dropped before; the time noted is of this wait; and a task asleep is
\* notified, or its interrupt is armed.
WaitsAreTheirs ==
    /\ wait.at = "Idle" /\ wait.trigger # NIL => wait.met
    /\ wait.at = "Idle" /\ wait.trigger # NIL /\ FiredAt # NIL => FiredAt >= wait.began
    /\ wait.at = "Asleep" => \/ pin.fired /\ pin.notified
                             \/ ~pin.fired /\ pin.armed = wait.trigger
=============================================================================
