--------------------------------- MODULE Talker ---------------------------------
(***************************************************************************)
(* Talking: the push-to-talk button with its bounces (src/devices/ptt.rs), *)
(* a press refused while someone else talks (core/src/app.rs, on_ptt), and *)
(* App::stream: a packet captured while the one before is encoded (on the  *)
(* codec's thread) and handed to the radio with its time, and the radio,   *)
(* which drops what comes too late for its bin.                            *)
(*                                                                         *)
(* Time is in units of a Codec2 frame.  Between its waits the app takes no *)
(* time.                                                                   *)
(***************************************************************************)
EXTENDS Integers, Sequences, SequencesExt

CONSTANTS Steady,      \* STEADY_MS
          CaptureLen,  \* a packet's audio
          BinLen,      \* air::bin_us, half of it
          Deadline,    \* ENCODE_DEADLINE
          ChanCap,     \* TX_CHAN's capacity
          EncodeTimes, \* bound: what an encode may take
          BusyTimes,   \* bound: how long the radio may wait for clear air
          MaxFlips,    \* bound: how often the button changes
          MaxEvents,   \* bound: the app's other events
          MaxTime      \* bound: on the clock

VARIABLES clock,
          button, \* [down, since, flips, barred: down since a refusal but for bounces]
          loop,   \* App::run: [since: next_event's, heard: a transmission is on,
                  \* refused: ptt_refused, locked, events]
          talk,   \* stream's: [at, bin0, wake: WAKE_PREAMBLE, packets, pending: a packet
                  \* waits for its encode, encoding, encoded: when it will be, ends: the
                  \* capture, captured: when each was, held: the button was, barred,
                  \* late: an encode or clear air took too long]
          send    \* the radio: [chan, free: its last packet is out, air: what was sent]

talkVars == <<clock, button, loop, talk, send>>

-----------------------------------------------------------------------------
(* The button *)

\* The person holding it, and its contacts. While a packet is captured nobody looks:
\* what changes then has changed by the next look.
Flips ==
    /\ talk.at \in {"Idle", "Look"} /\ button.flips < MaxFlips
    /\ button' = [button EXCEPT !.down = ~@, !.since = clock, !.flips = @ + 1]
    /\ UNCHANGED <<clock, loop, talk, send>>

\* pressed() and released(): their level, for STEADY_MS since it came or since the app
\* waits for it again.
Held(down) ==
    /\ talk.at = "Idle" /\ ~loop.locked
    /\ button.down = down
    /\ clock >= Max({button.since, loop.since}) + Steady

-----------------------------------------------------------------------------
(* The app's loop *)

\* Another event: next_event waits for the button afresh. It may start or end a
\* transmission, or the menu locks the button.
OtherEvent ==
    /\ talk.at = "Idle" /\ loop.events < MaxEvents
    /\ \E heard, locked \in BOOLEAN :
        loop' = [loop EXCEPT !.since = clock, !.heard = heard, !.locked = locked,
                               !.events = @ + 1]
    /\ UNCHANGED <<clock, button, talk, send>>

\* on_ptt, refused.
Refuses ==
    /\ Held(TRUE) /\ ~loop.refused /\ loop.heard
    /\ loop' = [loop EXCEPT !.refused = TRUE, !.since = clock]
    /\ button' = [button EXCEPT !.barred = TRUE]
    /\ UNCHANGED <<clock, talk, send>>

\* AppEvent::PttReleased.
LetGo ==
    /\ Held(FALSE) /\ loop.refused
    /\ loop' = [loop EXCEPT !.refused = FALSE, !.since = clock]
    /\ UNCHANGED <<clock, button, talk, send>>

\* on_ptt, up to stream's first look at the button.
OnPtt ==
    /\ Held(TRUE) /\ ~loop.refused /\ ~loop.heard
    /\ talk' = [talk EXCEPT !.at = "Look", !.bin0 = clock + Deadline, !.packets = 0,
                            !.captured = <<>>, !.held = clock - button.since,
                            !.barred = button.barred, !.late = FALSE]
    /\ send' = [send EXCEPT !.air = <<>>]
    /\ UNCHANGED <<clock, button, loop>>

-----------------------------------------------------------------------------
(* stream *)

SendAt(bin) == talk.bin0 + bin * BinLen

\* Mutant of BinOf: the bins from the first capture's on.
BinFromFirst(packets) == 2 * packets - 1

\* Of the voice packet encoded once this many were captured.
BinOf(packets) == 2 * packets

Sent(what, bin, first) ==
    [send EXCEPT !.chan = Append(@, [what |-> what, packet |-> talk.packets,
                                     at |-> SendAt(bin), first |-> first])]
Room == Len(send.chan) < ChanCap

\* A packet handed to the codec's thread: done some time later.
Encodes(rest) ==
    \E took \in EncodeTimes :
        talk' = [rest EXCEPT !.encoding = TRUE, !.pending = FALSE, !.encoded = clock + took,
                             !.late = (@ \/ took > Deadline)]

\* While it is down: another capture, and the last one's encode, or first the wake-up
\* packet.
Captures ==
    LET pass == [talk EXCEPT !.at = "Pass", !.ends = clock + CaptureLen]
    IN  /\ talk.at = "Look" /\ button.down
        /\ \/ talk.pending /\ Encodes(pass) /\ UNCHANGED send
           \/ ~talk.pending /\ talk' = pass
              /\ send' = IF talk.wake THEN Sent("Wake", 0, TRUE) ELSE send
        /\ UNCHANGED <<clock, button, loop>>

\* It reads up: the last packet, then the end.
LetsUp ==
    /\ talk.at = "Look" /\ ~button.down
    /\ IF talk.pending THEN Encodes([talk EXCEPT !.at = "Last"])
       ELSE talk' = [talk EXCEPT !.at = "End"]
    /\ UNCHANGED <<clock, button, loop, send>>

\* encode_and_send, once encoded.
EncodeAndSend ==
    /\ talk.encoding /\ clock >= talk.encoded /\ Room
    /\ send' = Sent("Voice", BinOf(talk.packets), talk.packets = 1 /\ ~talk.wake)
    /\ talk' = [talk EXCEPT !.encoding = FALSE, !.at = IF @ = "Last" THEN "End" ELSE @]
    /\ UNCHANGED <<clock, button, loop>>

\* capture_packet, joined with the encode.
CapturePacket ==
    /\ talk.at = "Pass" /\ clock >= talk.ends /\ ~talk.encoding
    /\ talk' = [talk EXCEPT !.at = "Look", !.pending = TRUE, !.packets = @ + 1,
                            !.captured = Append(@, talk.ends)]
    /\ UNCHANGED <<clock, button, loop, send>>

SendsEnd ==
    /\ talk.at = "End" /\ Room
    /\ send' = Sent("End", BinOf(talk.packets + 1), FALSE)
    /\ talk' = [talk EXCEPT !.at = "Wait"]
    /\ UNCHANGED <<clock, button, loop>>

\* Back to the loop once the end packet is out.
Ends ==
    /\ talk.at = "Wait" /\ clock >= SendAt(BinOf(talk.packets + 1) + 1)
    /\ talk' = [talk EXCEPT !.at = "Idle"]
    /\ loop' = [loop EXCEPT !.since = clock]
    /\ UNCHANGED <<clock, button, send>>

-----------------------------------------------------------------------------
(* The radio *)

\* on_tx: the first packet waits for clear air; one past its time is dropped.
OnTx ==
    /\ send.chan # <<>> /\ send.free <= clock
    /\ LET req == Head(send.chan)
       IN  \E busy \in IF req.first THEN BusyTimes ELSE {0} :
            LET inTime == clock + busy <= req.at
            IN  /\ send' = [chan |-> Tail(send.chan),
                            free |-> IF inTime THEN req.at + 1 ELSE clock + busy,
                            air |-> IF inTime
                                    THEN Append(send.air, [what |-> req.what, packet |-> req.packet,
                                                            at |-> req.at])
                                    ELSE send.air]
                /\ talk' = [talk EXCEPT !.late = (@ \/ (busy > 0 /\ ~inTime))]
    /\ UNCHANGED <<clock, button, loop>>

\* Somebody does something now, and time waits for it.
Due ==
    \/ Held(TRUE) /\ ~loop.refused
    \/ Held(FALSE) /\ loop.refused
    \/ talk.at \in {"Look", "End"}
    \/ talk.encoding /\ clock >= talk.encoded
    \/ talk.at = "Pass" /\ clock >= talk.ends /\ ~talk.encoding
    \/ talk.at = "Wait" /\ clock >= SendAt(BinOf(talk.packets + 1) + 1)
    \/ send.chan # <<>> /\ send.free <= clock

Tick ==
    /\ ~Due /\ clock < MaxTime
    /\ clock' = clock + 1
    /\ button' = [button EXCEPT !.barred =
                      @ /\ (button.down \/ clock' < button.since + Steady)]
    /\ UNCHANGED <<loop, talk, send>>

-----------------------------------------------------------------------------
TalkInit ==
    /\ clock = 0
    /\ button = [down |-> FALSE, since |-> 0, flips |-> 0, barred |-> FALSE]
    /\ loop \in [since : {0}, heard : BOOLEAN, refused : {FALSE}, locked : {FALSE},
                 events : {0}]
    /\ \E wake \in BOOLEAN :
        talk = [at |-> "Idle", bin0 |-> 0, wake |-> wake, packets |-> 0, pending |-> FALSE,
                encoding |-> FALSE, encoded |-> 0, ends |-> 0, captured |-> <<>>,
                held |-> 0, barred |-> FALSE, late |-> FALSE]
    /\ send = [chan |-> <<>>, free |-> 0, air |-> <<>>]

TalkNext ==
    \/ Flips \/ OtherEvent \/ Refuses \/ LetGo \/ OnPtt
    \/ Captures \/ LetsUp \/ EncodeAndSend \/ CapturePacket \/ SendsEnd \/ Ends
    \/ OnTx \/ Tick

TalkSpec == TalkInit /\ [][TalkNext]_talkVars

-----------------------------------------------------------------------------
(* Properties *)

TalkTypeOK ==
    /\ clock \in 0..MaxTime
    /\ talk.at \in {"Idle", "Look", "Pass", "Last", "End", "Wait"}
    /\ talk.packets = Len(talk.captured)
    /\ Len(send.chan) <= ChanCap

\* What goes on the air is what was captured, in order and once each, a packet's audio
\* apart and as long after its capture as the first; the wake-up packet before it and
\* the end packet after it, in bins of the same parity. None is missing unless an
\* encode was slow or the air was not clear.
SentInItsBin ==
    /\ \A i, j \in DOMAIN send.air :
        i < j => /\ send.air[i].at < send.air[j].at
                 /\ send.air[i].packet <= send.air[j].packet
                 /\ (send.air[j].at - send.air[i].at) % (2 * BinLen) = 0
                 /\ send.air[i].what # "End" /\ send.air[j].what # "Wake"
    /\ \A i \in DOMAIN send.air :
        send.air[i].what = "Voice" =>
            LET packet == send.air[i].packet
            IN  /\ send.air[i].at = talk.bin0 + packet * CaptureLen
                /\ ~talk.late => send.air[i].at = talk.captured[packet] + Deadline
    /\ talk.at = "Wait" /\ ~talk.late /\ send.chan = <<>> =>
        Len(send.air) = talk.packets + 1 + (IF talk.wake /\ talk.packets > 0 THEN 1 ELSE 0)

\* A talk starts on a press that held, not on a bounce, and never on one refused
\* before: that must be let go first.
PressesAreSteady == talk.at # "Idle" => talk.held >= Steady /\ ~talk.barred
=============================================================================
