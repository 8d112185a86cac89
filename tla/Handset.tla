-------------------------------- MODULE Handset --------------------------------
(***************************************************************************)
(* The knob: its polling thread (src/devices/seesaw.rs, and twist.rs alike)*)
(* queues what the hand did, and the app takes it when it comes to it:     *)
(* double clicks that open the menu (core/src/double_click.rs), the menu   *)
(* (menu.rs), its pages' lists (app.rs, pick) and the password's wheel     *)
(* (password_entry.rs).                                                    *)
(*                                                                         *)
(* Times are ages in units, up to Quick + 1: longer makes no difference.   *)
(* Bounds of a run: MaxMoves (of the hand), MaxAway (how often the app is  *)
(* away, sending or waiting for an answer).                                *)
(***************************************************************************)
EXTENDS Integers, Sequences, SequencesExt

CONSTANTS Items,     \* list -> its rows: [kind, to]
          Root,      \* the menu's own list
          EventsCap, \* EVENTS' room
          Quick,     \* QUICK
          WheelStops, MaxTyped,
          MaxMoves, MaxAway, NIL

VARIABLES knob,   \* [down, gap: how long ago the switch last moved]
          events, \* EVENTS: each [what, soon, late]
          ui,     \* [away, stage, age]: DoubleClick, and how long ago its stage was
          stack,  \* the lists open, the menu's first: each [list, cursor]
          entry,  \* PasswordEntry: [at, typed], or NIL
          past,   \* history: [turned: since the last press taken, edges: the last
                  \* four taken outside the menu, done: how many things the menu did]
          bounds  \* [moves, away]

handVars == <<knob, events, ui, stack, entry, past, bounds>>

Longer(age) == IF age > Quick THEN age ELSE age + 1

-----------------------------------------------------------------------------
(* The hand, and the knob's thread *)

\* queue(): full, the newest is dropped.
Queue(what, soon) ==
    events' = IF Len(events) < EventsCap
              THEN Append(events, [what |-> what, soon |-> soon, late |-> FALSE])
              ELSE events

\* Room for another move of the hand within the bounds.
MayMove == bounds.moves < MaxMoves /\ bounds' = [bounds EXCEPT !.moves = @ + 1]

Turns ==
    /\ MayMove
    /\ \E way \in {"Cw", "Ccw"} : Queue(way, FALSE)
    /\ UNCHANGED <<knob, ui, stack, entry, past>>

\* The switch goes down or up, long enough for a poll to see it.
Switches ==
    /\ MayMove
    /\ knob' = [down |-> ~knob.down, gap |-> 0]
    /\ Queue(IF knob.down THEN "Release" ELSE "Press", knob.gap <= Quick)
    /\ UNCHANGED <<ui, stack, entry, past>>

\* Time goes by for what is queued.
Waited == [i \in DOMAIN events |-> [events[i] EXCEPT !.late = TRUE]]

\* A read fails: RETRY later the knob is taken as it is then, without an event.
Unplugs ==
    /\ MayMove
    /\ \E down \in BOOLEAN : knob' = [down |-> down, gap |-> Quick + 1]
    /\ events' = Waited
    /\ ui' = [ui EXCEPT !.age = Quick + 1]
    /\ UNCHANGED <<stack, entry, past>>

\* The app takes what is queued before time goes by, unless it is away.
Tick ==
    /\ events # <<>> => ui.away
    /\ knob' = [knob EXCEPT !.gap = Longer(@)]
    /\ ui' = [ui EXCEPT !.age = Longer(@)]
    /\ events' = Waited
    /\ UNCHANGED <<stack, entry, past, bounds>>

-----------------------------------------------------------------------------
(* The app *)

\* It sends, or plays an echo; or the menu's Update page asks the server.
GoesAway ==
    /\ ~ui.away /\ bounds.away < MaxAway
    /\ ui' = [ui EXCEPT !.away = TRUE]
    /\ bounds' = [bounds EXCEPT !.away = @ + 1]
    /\ UNCHANGED <<knob, events, stack, entry, past>>

ComesBack ==
    /\ ui.away
    /\ ui' = [ui EXCEPT !.away = FALSE]
    /\ UNCHANGED <<knob, events, stack, entry, past, bounds>>

\* The next event is taken, and it is this.
Takes(what) ==
    /\ ~ui.away /\ events # <<>> /\ Head(events).what \in what
    /\ events' = Tail(events)
    /\ UNCHANGED <<knob, bounds>>

\* What is remembered of an edge taken, `did` things with it.
Edge(did) ==
    past' = [turned |-> past.turned /\ Head(events).what # "Press",
             edges  |-> IF stack # <<>> THEN <<>>
                        ELSE LET edges == Append(past.edges, Head(events))
                             IN IF Len(edges) > 4 THEN Tail(edges) ELSE edges,
             done   |-> past.done + did]

Level(list) == [list |-> list, cursor |-> 0]

\* Outside the menu a turn is the volume's.
TurnsVolume ==
    /\ Takes({"Cw", "Ccw"}) /\ stack = <<>>
    /\ past' = [past EXCEPT !.turned = TRUE]
    /\ UNCHANGED <<ui, stack, entry>>

\* A stage, since now; Idle's age is of no use.
At(stage) ==
    ui' = [ui EXCEPT !.stage = stage, !.age = IF stage = "Idle" THEN Quick + 1 ELSE 0]

\* Mutant of SoonEnough: any time is quick.
EverSoon == TRUE

SoonEnough == ui.age <= Quick

\* DoubleClick::press
PressOutside ==
    /\ Takes({"Press"}) /\ stack = <<>>
    /\ At(IF ui.stage = "OneClick" /\ SoonEnough THEN "SecondDown" ELSE "FirstDown")
    /\ Edge(0)
    /\ UNCHANGED <<stack, entry>>

\* DoubleClick::release, and App::run_menu.
ReleaseOutside ==
    /\ Takes({"Release"}) /\ stack = <<>>
    /\ At(IF ui.stage = "FirstDown" /\ SoonEnough THEN "OneClick" ELSE "Idle")
    /\ stack' = IF ui.stage = "SecondDown" /\ SoonEnough THEN <<Level(Root)>> ELSE <<>>
    /\ Edge(0)
    /\ UNCHANGED entry

-----------------------------------------------------------------------------
(* The menu and its pages *)

Top  == Last(stack)
Rows == Items[Top.list]

\* Menu::rotate, and a page's cursor: it stops at either end. The wheel goes round.
TurnsIn ==
    /\ Takes({"Cw", "Ccw"}) /\ stack # <<>>
    /\ LET by == IF Head(events).what = "Cw" THEN 1 ELSE -1 IN
       IF entry # NIL
       THEN entry' = [entry EXCEPT !.at = (@ + by) % WheelStops] /\ UNCHANGED stack
       ELSE /\ stack' = [stack EXCEPT ![Len(stack)].cursor =
                            CHOOSE c \in 0..Len(Rows) :
                                c = @ + by \/ (c = @ /\ @ + by \notin 0..Len(Rows))]
            /\ UNCHANGED entry
    /\ past' = [past EXCEPT !.turned = TRUE]
    /\ UNCHANGED ui

\* A press is a click in here.
ReleaseIn ==
    /\ Takes({"Release"}) /\ stack # <<>>
    /\ Edge(0)
    /\ UNCHANGED <<ui, stack, entry>>

\* A click on a row of the list on the screen; none is Back.
ClicksOn(kinds) ==
    /\ Takes({"Press"}) /\ stack # <<>> /\ entry = NIL
    /\ IF Top.cursor = 0 THEN "Back" \in kinds ELSE Rows[Top.cursor].kind \in kinds
    /\ UNCHANGED ui

ClicksBack ==
    /\ ClicksOn({"Back"})
    /\ stack' = Front(stack)
    /\ Edge(0)
    /\ UNCHANGED entry

\* A submenu, or a page's own list: the cursor on Back.
Opened(list) == Level(list)

\* A submenu or a page is opened.
ClicksList ==
    /\ ClicksOn({"List"})
    /\ stack' = Append(stack, Opened(Rows[Top.cursor].to))
    /\ Edge(0)
    /\ UNCHANGED entry

\* A page asks on ("Forget this one?"), the answer in its place.
ClicksOnwards ==
    /\ ClicksOn({"Onwards"})
    /\ stack' = Append(Front(stack), Opened(Rows[Top.cursor].to))
    /\ Edge(0)
    /\ UNCHANGED entry

\* A setting's value, or a page's Yes: done, and back to the list before; a page
\* may say how it went.
ClicksChoice ==
    /\ ClicksOn({"Choice"})
    /\ LET to == Rows[Top.cursor].to IN
       stack' = Front(stack) \o IF to = NIL THEN <<>> ELSE <<Opened(to)>>
    /\ Edge(1)
    /\ UNCHANGED entry

\* Action::Screenshot closes the menu.
ClicksAction ==
    /\ ClicksOn({"Action"})
    /\ stack' = <<>>
    /\ Edge(1)
    /\ UNCHANGED entry

\* A network's row: PasswordEntry::new, the wheel on `a`, past OK and DEL.
ClicksNetwork ==
    /\ ClicksOn({"Network"})
    /\ entry' = [at |-> 2, typed |-> 0]
    /\ Edge(0)
    /\ UNCHANGED stack

ClicksWheel(at) ==
    /\ Takes({"Press"}) /\ entry # NIL
    /\ at
    /\ UNCHANGED ui

\* OK: the network is saved, and its page done with.
ClicksOk ==
    /\ ClicksWheel(entry.at = 0)
    /\ entry' = NIL /\ stack' = Front(stack)
    /\ Edge(1)

\* DEL: backspace; with nothing typed, back to the list of networks.
ClicksDel ==
    /\ ClicksWheel(entry.at = 1)
    /\ entry' = IF entry.typed = 0 THEN NIL ELSE [entry EXCEPT !.typed = @ - 1]
    /\ Edge(0)
    /\ UNCHANGED stack

ClicksCharacter ==
    /\ ClicksWheel(entry.at > 1)
    /\ entry' = [entry EXCEPT !.typed = IF @ < MaxTyped THEN @ + 1 ELSE @]
    /\ Edge(0)
    /\ UNCHANGED stack

-----------------------------------------------------------------------------
\* At boot, or in the menu a while.
HandInit ==
    /\ knob = [down |-> FALSE, gap |-> Quick + 1]
    /\ events = <<>>
    /\ ui = [away |-> FALSE, stage |-> "Idle", age |-> Quick + 1]
    /\ stack \in {<<>>, <<Level(Root)>>}
    /\ entry = NIL
    /\ past = [turned |-> FALSE, edges |-> <<>>, done |-> 0]
    /\ bounds = [moves |-> 0, away |-> 0]

HandNext ==
    \/ Turns \/ Switches \/ Unplugs \/ Tick \/ GoesAway \/ ComesBack
    \/ TurnsVolume \/ PressOutside \/ ReleaseOutside \/ TurnsIn \/ ReleaseIn
    \/ ClicksBack \/ ClicksList \/ ClicksOnwards \/ ClicksChoice \/ ClicksAction
    \/ ClicksNetwork \/ ClicksOk \/ ClicksDel \/ ClicksCharacter

HandSpec == HandInit /\ [][HandNext]_handVars

-----------------------------------------------------------------------------
(* Properties *)

HandTypeOK ==
    /\ knob.gap \in 0..Quick + 1 /\ ui.age \in 0..Quick + 1
    /\ Len(events) <= EventsCap
    /\ ui.stage \in {"Idle", "FirstDown", "OneClick", "SecondDown"}
    /\ \A i \in DOMAIN stack : stack[i].cursor \in 0..Len(Items[stack[i].list])
    /\ entry # NIL => /\ stack # <<>> /\ Rows[Top.cursor].kind = "Network"
                      /\ entry.at \in 0..WheelStops - 1 /\ entry.typed \in 0..MaxTyped

\* Of a step: "Every list gets an implicit Back at the top, and the cursor starts there, so
\* stray clicks only ever back out" (menu.rs): nothing is set, erased, saved or
\* installed by a press with no turn since the press before.
StraysDoNothing == past'.done # past.done => past.turned

\* Of a step: the menu opens on a double click that was quick by the hand's own time, "so a
\* single stray click (a knob bumped in a pocket) doesn't" (double_click.rs);
\* unless a click of it waited for an app that was away, which times it when it
\* takes it.
OpensOnADoubleClick ==
    stack = <<>> /\ stack' # <<>> =>
        /\ [i \in 1..4 |-> past'.edges[i].what] = <<"Press", "Release", "Press", "Release">>
        /\ \/ \A i \in 2..4 : past'.edges[i].soon
           \/ \E i \in 1..4 : past'.edges[i].late
=============================================================================
