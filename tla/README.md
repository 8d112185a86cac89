# A verification project for open-oswst

open-oswst is a LoRa walkie-talkie: a handset (ESP32, SX1262) that sends Codec2
voice in a belt of timed *bins*, and that can be set to *repeater*, relaying each
packet it hears one bin later, so that a transmission floods out across the
repeaters to listeners who cannot hear the talker. The program's logic is the Rust
crate `src/core`; `src/src` is the firmware around it.

The radio gets its updates from a *management server* (`server`) over WiFi.

This directory holds TLA+ modules that model the state machines of all three, TLC
configurations that check them on small instances, and proofs for TLAPS.

    tlc -workers 2 -config MCFlood_loop.cfg MCFlood     # any .cfg with its module
    tlapm FloodProofs.tla

`PROJECT.json` lists the components, the runs, what source lines each definition
models (`map`), the hazards the properties are for, what was found, and the
theorems.

## 1. The system

| component | source | state it keeps | operations | module |
|---|---|---|---|---|
| Conveyor | `core/src/conveyor.rs`, `air.rs` | a transmission's bin 0, last bin, last packet taken, tally | `start`, `heard`, `heard_garbled`, `garbled_packet`, `first_copy`, `over` | `Conveyor` |
| App, packet handlers | `core/src/app.rs` | the conveyor going (`transmission`) | `on_rx_packet`, `on_end`, `relay`, `play_garbled`, `housekeeping`, `stream` | `Flood` (several stations), `Playout` (one station) |
| App, event loop | `core/src/app.rs`, `echo.rs`, `mode.rs` | what it does, the conveyor, the recording, the mode, what the radio was told | `next_event`, `on_rx_packet`, `on_ptt`, `stream`, `discard_rx`, `replay_echo`, `housekeeping`, `run_menu` | `Station` |
| Playout | `core/src/playout.rs` | decodes in flight, last played, tail owed | `start`, `decoding`, `decoded`, `ended`, `reset` | `Playout`, `OrderedPlayback` |
| Codec thread | `core/src/codec.rs` | its request, `DECODED`, decoder and its txid | `run` | `Playout` |
| Logger | `core/src/logger.rs`, `devices/sd.rs`, `firmware.rs` | `KEEPING`, the buffer, the file | `log`, `flush_chunk`, `start_file`, `stop_file`, `erase_all`, `flush_all`, `reboot_soon` | `Logger` |
| Radio driver | `src/devices/radio.rs` | Fixed / Sweeping / Locked, Clear / Preamble / Header, the next turn, the last header | sweep, false alarms, turns, `on_irq`, `receive`, `on_listen`, `on_tx`, clear air, timed sends | `RadioDriver` (one task and its chip, timed), `Station` (with the app) |
| Radio bus, pins | `devices/radio_bus.rs`, `irq_pin.rs` | two buffers, `SPI_DONE`, a waker; per pin `fired` and its time | `transaction`, `transfer`, `on_spi_done`; `wait_for`, `on_pin`, `fired_at_us` | `RadioBus`, `IrqPin` |
| Talking | `devices/ptt.rs`, `core/src/app.rs`, `codec.rs` | `ptt_refused`, the packet pending, bins | `pressed`, `released`, `on_ptt`, `stream`, `encode_and_send` | `Talker` |
| Climb | `core/src/climb.rs` | the hold, what its two sides have heard | `start`, `channel_for`, `heard`, `climb` | `Climb` |
| Knob, menu, lists | `devices/seesaw.rs`, `double_click.rs`, `menu.rs`, `password_entry.rs` | the knob's queue, the double click's stage, the lists open, the password typed | poll, `press`, `release`, `rotate`, `click` | `Handset` |
| Update and install | `management.rs`, `net.rs`, `http.rs`, `firmware.rs` | a queue of one job, its answer, `CANCEL`, the card's files, two app slots | check, install, cancel, download, verify, extract, confirm, roll back | `Update` |
| Archives | `core/src/gzip.rs`, `tar.rs`, `src/inflate.rs` | the window and what of it is ready; the entry being read | `skip_header`, `read`, `step`, `next_entry`, `skip` | `Archive` |
| Settings and secrets | `config.rs`, `devices/settings.rs`, `devices/secrets.rs` | `config.toml`, `secrets.toml`, and the settings in RAM | load, save, networks, `make_key`, `set_server`, `check` | `Storage` |
| Network, HTTP, WebDAV | `net.rs`, `http.rs`, `webdav.rs`, `scan_list.rs` | off, joined or searching; the HTTP API up or not; `/wifi/off` on its way | `run`, `stay_joined`, `wait`, `join`, `follow_setting`; `put`, `delete`, `move_to` | `Network` |
| Management link and server | `noise.rs`, `core/src/management.rs`, `server/src` | a handshake per connection, the list of radios, the cached bundle | `connect`, `accept`, `receive`, `send`; `handle`, `bundle`, `find_radio` | `Link` |
| FEC | `fec/` | none | not on the packet path | not modelled |
| Other devices, hardware tests, tools, web page | `src/src/devices`, `src/src/bin`, `www`, `scripts` | | I/O | not modelled |

How they interact. The radio task, the codec thread and the log thread run beside
the app's event loop; they share nothing but bounded queues (`RX_CHAN` 2,
`TX_CHAN` 4, `DECODED` 2, the codec's requests 2), the latest-value signal
`LISTEN`, and the logger's two locks. Beside them run the knob's thread (`EVENTS`),
the net thread (`JOBS`, `ANSWERS`, `INSTALL`, `CANCEL`, `SCANS`, the live settings)
and the HTTP server's, which also share the flash and the card. Everything the app keeps is changed by one
handler at a time, but each handler runs between two awaits, and what it read
before may be stale after. Across stations there is only the air: packets are
lost, arrive by several paths, or with a CRC error, or timed wrongly.

What is hard to get right, and what makes each part correct:

- *Flooding.* Copies of one packet arrive after different numbers of relays, and
  which comes first depends on loss. A station has only the time a packet ended
  and its hops to say which packet it is. Correct means: every station counts as
  the talker does; nothing is played or relayed twice, or out of order; relays
  round a loop die out; a lost end packet does not lock the station for good.
- *Playing.* Decoding is another thread behind queues that drop when full; the
  end of a transmission is heard before its last decodes are back. Correct means:
  packets come out in order, silence stands in for what is missing, and the
  squelch tail comes after the last packet, once.
- *Logging.* Lines are buffered in RAM and written by a thread of the lowest
  priority while the menu switches, erases and reboots. Correct means: in order,
  no line is in a file of another boot, those lost are counted, the others reach
  the card, and none logged after switching off does.
- *The event loop.* PTT, echo mode's recording and replay, the menu and the
  radio's blocking queues; nobody may wait on everybody, and at most one packet
  handed over while the menu is open is handled after it.
- *The radio's task.* IRQs come while it reads the last one's flags, and it may be
  held up anywhere (a flash write freezes both cores). Correct means: every packet
  in the chip is fetched, stamped with its own end or not trusted; the radio is
  never deaf, nor on another channel than it thinks; none it has seen is cut short.
- *Interrupts and waits.* A wait may be dropped by a `select`, with its interrupt
  armed; a transfer may end between the look and the sleep. Correct means: no
  wait is ended by another's interrupt, and none sleeps through its own.
- *Talking.* Capture, encoding and the radio overlap, and a packet is sent by its
  number. Correct means: packets keep their distance on the air as at the microphone.
- *Moving along the hops.* The hold moves to a channel whose copies come bins
  earlier or later. Correct means: no packet falls in between, none is played twice.
- *Updating.* The menu, the HTTP API and the net thread are three threads that share
  one job, one answer and one flag, and the power may go at any write. Correct
  means: the radio always has an app to go back to, what it installs is one bundle,
  and "up to date" is true.
- *Settings.* Menu, HTTP server and net thread write files over each other. Correct
  means: a usable config is never replaced by a broken one, the key is never lost,
  and the network ends up as the menu says.
- *The link.* Only a radio on the list, at the time it calls, that means this server
  is served; the bundle and the list change while others are being served.

## 2. Modules

| module | what it is |
|---|---|
| `Conveyor` | operators: `conveyor.rs` in microseconds. A station's `Transmission` is a record |
| `Flood` | the talker, repeaters and listeners, a bin at a time; extends `Conveyor` |
| `ConveyorProofs`, `FloodProofs` | lemmas and theorems about them |
| `Playout` | the playout, the app's calls of it, the codec thread and its two queues |
| `OrderedPlayback` | abstract: what a listener may hear; `Playout` refines it |
| `Logger` | logging threads, log thread, menu, reboot, files on the card |
| `Station` | one radio: the app's loop and the radio task, joined by `RX_CHAN`, `TX_CHAN` and `LISTEN` |
| `StationProofs`, `PlayoutProofs`, `LoggerProofs`, `RadioDriverProofs`, `NetworkProofs`, `UpdateProofs` | theorems about the module each is named for |
| `RadioDriver` | the radio's task beside its chip, in units of time |
| `Storage` | operators on the radio's files; `Network` extends it |
| `Network` | the net thread, the menu's network pages, the HTTP server's requests, power losses |
| `Update` | the menu, the HTTP API and the net thread; the server's bundle; the app slots |
| `Climb`, `Handset`, `Link`, `Archive`, `RadioBus`, `IrqPin`, `Talker` | a part each: no variables but their own |
| `MCFlood`, `MCPlayout`, `MCLogger`, `MCStation`, `MCRadioDriver`, `MCNetwork` | instances for TLC |
| `MCParts` | `Update` and the seven parts above: eight machines that share nothing, each with its own behaviours (`part` says whose), so that one run checks them |

### Conveyor and Flood

Times are integers in microseconds on a clock all stations share; that a radio
measures with an error is the `error` added to each end time heard. A packet that
is sent carries its number (which stations do not see; the `VoiceHeader` has no
number), its hops (they do) and when it started.

| in the model | in the code |
|---|---|
| `TransmissionStart`, `TransmissionHeard`, `HeardGarbled`, `GarbledPacket`, `IsFirstCopy`/`Take`, `Over` | the methods of `Transmission` |
| `Landing`, `ConveyorStart`, `BinStart` | `Conveyor::landing`, `start`, `bin_start` |
| `TalkersCopy` | `App::stream`: packet n in the middle of bin 2n, wake-up first, `VoiceEnd` last |
| `Hear(s)`, good | `on_rx_packet`, by kind of packet: `ride_conveyor`, `take_first_copy`, `relay`; `on_end` for the end packet |
| `Hear(s)`, CRC failed | `on_rx_packet`'s first branch: `heard_garbled`, `play_garbled` |
| `Housekeeping(s)` | `over` in `App::housekeeping`, called on each tick |
| `NextBin` | the belt: a relay handed to the radio in this bin goes out in the next |

A radio hears at most one packet a bin, none while it sends, and may always hear
nothing: loss, collision and the wrong hop channel are the same here. Left out:
the channels (the climb), other transmissions, the station's own PTT, and echo
mode. Repeaters do not play what they relay in the model since playing has no
effect on relaying; listeners take only voice, as in the code.

### Playout

`playout` is the struct's fields, `playing` is `playing_txid`, `trans` the
conveyor. `Voice`, `End`, `Over`, `Ptt` and `RunMenu` are the app's handlers as
far as they touch the playout; each is one step because none of them awaits
between the lines it models. `CodecTakes` and `CodecReturns` are the two halves of
the codec's loop: it decodes with no lock, so the app runs between them, and
`CodecReturns` drops a decode when `DECODED` is full, which it does without telling
the app. `heard` is history: what the speaker has been given by the playout, with
the conveyor each sound came from. It stops at the playout: `Play` appends to the
speaker's queue, which may itself drop.

### OrderedPlayback

What a listener is promised: a transmission's packets in the talker's order, none
twice, with silence in the place of those lost and at most `MostSilences` of them in
a row; what has been played stays played until another transmission comes along.
`Playout` instantiates it as `SpeakerFeed`, its history mapped to `out`, and
`PlaysInOrder` is the refinement. When the tail comes is not part of it, since the
code cannot promise that (section 5, 1): `TailComesLast` and
`TailIsPlayedOnOneConveyor` say what holds.

### Logger

Lines are records (number, thread, boot), and the files are a function from file
number to the lines written, so that a crash (`Restart`) leaves the files and
clears the rest. Each lock region is a step: `CheckKeeping` reads the flag, `Push`
holds the buffer's lock, `TakeChunk` holds it too, `WriteChunk` holds the file's.
`stop_file` is three steps (clear the flag; close the file; discard what waits)
because that is where it takes and leaves the locks. `flush_chunk` is called by the
log thread and by the rebooting one, which is why it has a process for each.
A card that fails may do so at any write, at any opening, and at the removal of an old
file, which the code ignores. `asked` is what waited when the reboot's flush began,
and `FlushedOrInHand`, about the step at which it ends, says where those lines are.
Abstracted: lines have equal length; a chunk is `ChunkLines` lines, a file
`MaxFileLines`, the card `MaxFiles` files; the card takes a chunk whole or not at
all (`CardFails`); the card is mounted; log files deleted over WebDAV are left out.

### Station

Two tasks on two cores. A step is what a task does between two awaits at which the
other can see or change something; an await on a full queue is a guard.

| in the model | in the code |
|---|---|
| `Hit`, `FalseAlarm` | `Driver::sweep_step` with a CAD hit; `on_false_alarm` |
| `OnIrq`, `HandOver` | `on_irq` and `receive`, which waits for room in `RX_CHAN` |
| `OnTx`, `Sent` | `on_tx` and `transmit`, sent or too late |
| `OnListen` | `on_listen`: what the app's word does to the lock (`LockFor`) |
| `OnRxPacket` | `App::on_rx_packet`: `OnGood` (a wake-up or voice), `OnEnd`, `OnUseless` |
| `Relayed` | `relay`'s wait for room in `TX_CHAN` |
| `OnPtt`, `Stream`, `DiscardRx`, `Streamed` | `on_ptt`, then `stream` beside `discard_rx` |
| `ReplayEcho`, then the same three | `replay_echo`, `echo::replay` |
| `Housekeeping` | `housekeeping`: a conveyor that is over, and the word to sweep |
| `OpenMenu`, `SetMode`, `LeaveMenu`, `Drain` | `run_menu`, `apply`, its exit |
| `Arrive`, `Quieten` | the air; `REPLY_WAIT` and `RX_TIMEOUT` going by |

The order of the radio's events is the code's: a locked radio's interrupt goes
first, then `TX_CHAN`, then `LISTEN`, then the timer; a sweeping one's `LISTEN` goes
before `TX_CHAN`. The app's loop takes packets before anything else (`Waits`).

What is abstracted: what number a packet gets and whether it is a first copy
(`Conveyor` and `Flood` say; here either may be); a conveyor's channels are one
rotation, named by its txid; the recording is who it is of; playing and decoding
(`Playout`). Left out: a radio on a fixed channel, preambles and turns
(`RadioDriver`), a refused PTT press and the lock (`Talker`), the volume, the screen,
the battery and the GPS log.

One assumption on timing, in `Arrive`'s guard: packets are a bin (80 ms) apart, so
by the next one an app that is idle or discarding has taken the last, and a radio
task that is not held up by the app or by sending has done all it had to. A radio
held up by a full `RX_CHAN`, an app that waits for room in `TX_CHAN` and an app
in its menu get no such promise, which is where a deadlock could be. Without this
assumption a repeater's app that stalled for many bins could fill both queues and
wait for a radio that waits for it: `SendingEnds` says this takes such a stall.

`hist` is history, read by no guard.

### RadioDriver

One step per await of the task; the air, the chip and time move between them. The
chip is external and modelled from how the driver uses it: a flag per IRQ, a line
that is high while there is any, one packet that stays until it is read out or
overwritten, and a reception under way. `IrqPin` here is its effect: `Armed` fires
at once when the line is high, and `stamp` is when it did. Time is whole units of no
length; what is kept of the code's times is their order (`RadioAssumption`). `Tick`
waits for the task to have nothing due, except `MaxLate` times: a flash write, or the
app holding `RX_CHAN`.

| in the model | in the code |
|---|---|
| `OnIrq`, `HandOver`, `ClearIrq` | `on_irq`: what the IRQ is; `receive`, which waits for the app; the flags read, cleared |
| `StampIsIts`, `IrqTime` | `stamp_is_its` and the two times a stamp is checked against |
| `SweepStep`, `OnFalseAlarm`, `OnTurn`, `OnListen` | the same |
| `OnTx`, `WaitIrq`, `WaitOver` | `on_tx`, `wait_out_packet`, `on_air_deadline` |
| `Prepares`, `Sends`, `Sent`, `Resume` | `transmit`, `resume_listening` |

A packet waited out for clear air is dropped, as the code's TODO says (radio.rs
770-772). Left out: the random jitter before a first packet, powers, RSSI, and errors
of the bus.

### RadioBus and IrqPin

Beneath the driver. A byte on the bus is who wrote it (`FromApp`, `FromChip`), so a
transfer with another's bytes shows. The interrupt is a step that may come between
any two of the task's, which are: the transfer queued, the waker registered,
`SPI_DONE` looked at, the task asleep. The radio's task is pinned to the core its
interrupt is on, so the interrupt's handler runs to its end before the task goes on,
and `spi_device_get_trans_result` with no wait has its result ("Already done, so
this doesn't wait"); the model takes that from the pinning. `IrqPin` has `wait_for`
in its steps (disarm, look, arm, poll, sleep) with a pin that changes between any
two, waits that are dropped asleep, and stray notifications.

### Talker

Time is in units; a packet's audio is `CaptureLen`, a bin half of it. `Flips` is the
finger and the contacts; `Held` is `pressed()` and `released()` with their debounce,
which starts afresh whenever `next_event` is polled anew, as every other event drops
the future it is in. `Captures` and `EncodeAndSend` are the two halves of the `join`
in `stream`, so an encode may be late, and `CapturePacket` waits for both. `OnTx` is
the radio as far as a talker sees it: it drops a packet past its time. The button is
not looked at while a packet is captured, so `Flips` is not possible there. `stream`
looks at the pin's raw level: a bounce at that look ends the talk, though `ptt.rs`
(4-5) says a release only counts once steady; it is modelled as it is. A microphone
whose buffers overrun while an encode takes longer than a packet is left out.

### Climb

The bins of one transmission; in each the station listens on the channel
`channel_for` gives and may hear one trusted copy, at a level. Copies of the hold's
are always heard, or nothing could be said of what is missed. The instance has five
channels, as the code's tests do, and `MAX_HOPS`: two hops that share a channel are
then of different parity, so the channel of a side carries one hop's copies in the
side's bins. So it is with 7 or 9 channels. `rx_hops` may be any number: with three, or
with an even number up to eight, a side also hears other hops on its channel, a packet
or more ahead or behind, and `NothingMissed` is not claimed.

### Handset

The knob's thread polls it and queues edges; the app takes them when it gets to it
(`GoesAway`, `ComesBack`: it sends, or waits for an answer). A click is timed when the
app takes it (app.rs 254-256), so each event carries whether the hand was quick and
whether it waited. The menu is a stack of lists with rows of five kinds (a list, a
choice, an action, a list that asks again, a network), and the password's wheel.

### Update

`Menu`, HTTP server and net thread are three machines over `JOBS` (one), `ANSWERS`,
`INSTALL` and `CANCEL`. `run_update` throws away the job waiting, also one the HTTP API
has answered 202 for: the code does, and no property says otherwise. A bundle is
downloaded a chunk at a time, verified against the offer's hash, and extracted entry
by entry, the firmware into the spare slot. `Lasts` is the minute before a new app is
confirmed; `BootSlot` the bootloader, which rolls a pending app back. A check is one
step, which `Link` takes apart.

### Archive

A byte is its place in the archive. The file's deflate data is in units that inflate
to some bytes each, none included, and do not end where blocks or the window do;
the inflater may take any steps its contract allows (`Steps`). The file may be cut
anywhere, and a header may be broken.

### Storage and Network

`Storage` is the files, with what each reader and writer does to them; `Network` the
threads. A power loss may come between any two steps; a `put` writes its file
under another name and renames it. Modelled as the code has it, and no property
says otherwise: the menu's save writes the whole file from RAM and so takes back a
config uploaded since boot (settings.rs 135); MOVE may go onto a mount point's name
(webdav.rs 246, but see 22); an HTTP server that did not start is not started again
until the setting changes; `/wifi/off` races the menu's switching on. Left out:
requests that name `config.toml.new`, GET, PROPFIND, COPY and MKCOL.

### Link

The handshake is Noise XK over symbolic terms: two private keys agree on a secret,
and what is sealed opens only for who mixed the same things in the same order. A
connection is two queues of frames; an end that closes with something unread resets
it, so the other may lose an answer on its way (service.rs 34-35). The server reads
the list at each call and the bundle through its cache, each in its own steps, while
both change. Left out: frame and chunk sizes, `noise.rs`'s self test, and bundles
that cannot be read.

## 3. Runs

| run | instance | what it shows |
|---|---|---|
| `flood_loop` | a talker and two repeaters that hear it and each other; packets 0 to 3 and ten bins; trusted times exact or 1.4 ms off, skews of -9 and +15 ms | numbering, order, that a good packet always gets a number, and that a copy coming back round the loop is not relayed again |
| `flood_garbled` | a repeater and a listener that hears it and the talker; CRC failures, `PLAY_GARBLED` on; 24 bins | the same with garbled packets played in a silence's place; every conveyor ends |
| `playout` | two transmissions, two conveyors, packets 0 to 3; a request queue of 1, `DECODED` of 2, `MOST_SILENCES` 1; up to four sounds before the last end packet | the refinement, the count of decodes, the tail |
| `playout_tail` | the same with request queue 2 and packets 0 to 2 | `TailIsPlayed` **violated**: see 5 |
| `logger` | one thread that logs, three lines, a buffer of two, files of two, two files, a card that may fail, two boots, logging switched off once | order, one boot a file, losses counted, flushing, progress |
| `logger_stop` | two threads that log, one boot, files of three, a card that works | `StoppedLinesNeverWritten` **violated**: see 5 |
| `station` | two talkers, all three modes, eight kinds of packet; three packets heard, one talk, one visit to the menu, two packets of a transmission of our own; queues of one | neither task waits for the other for good, they agree on how to listen, a lock ends, a recording stays with its conveyor, the menu leaves at most one packet behind |
| `station_sweep`, `station_echo` | one talker and one mode, queues of the code's size (2 and 4), two packets heard, one visit to the menu | **violated**: see 5 |
| `radio` | two channels, a rotation between them; packets of four kinds (good, garbled, broken header, decoded off its channel), one preamble or hit of nothing, one word or packet of the app's, the task held up for two units of time in eight | packets are fetched and timed right, the radio is never deaf, nothing is cut short |
| `parts`, Update | two bundles with one firmware, one with a firmware that crashes, of two files in two chunks; three asks by the menu or the HTTP API, one publication, one loss of power or WiFi | an app to go back to, one bundle at a time, what "up to date" means, a stop stops |
| `parts`, Climb | five channels, all seven hops, two levels, 17 bins | moving loses nothing |
| `parts`, Handset | six lists, eight moves of the hand, an event queue of two, the app away once | what opens the menu, and what a stray press does in it |
| `parts`, Link | two connections, two calls, a publication and a listing; three versions of radio, one with another server's key | who is served, and with answers of which bundle |
| `parts`, Archive | three entries in a window of 4, input of 2, blocks of 2, cut anywhere | every entry's own bytes, or a refusal |
| `parts`, RadioBus, IrqPin | two transactions of up to two of five operations; two waits and three changes of the pin | no byte or interrupt of another's, no sleep missed |
| `parts`, Talker | packets of 4 units, encodes in time (1) or late (5), clear air or not, four flips of the button, one other event, 18 units of time | packets in their bins, talks on steady presses |
| `network` | two networks, three uploads, two scans; one change at the menu, two requests, one loss of power or network | the config stays usable, the key is kept, the network follows the menu |

Why the bounds are enough. *Flood*: bins are the code's, in microseconds. The
errors are those measured on the desk, and the skews put a packet early or late in its
bin; both are within what the theorems of 4 ask (`SmallErrors`, `SmallSkews`), which
remove the bounds for what they cover. Two
repeaters are the smallest loop; what a larger one does is in 5. In `flood_garbled`, `MaxBin` is past the last
relay of the last packet plus `EmptyBinsToEnd`, so a conveyor whose end packet was
lost ends within the run. *Playout*: the shortest queues that fill, and a
transmission longer than they are together with the one decode in work, give every
interleaving of full, dropped and stale decodes; a second conveyor of the same txid
is the late copy of 5. *Logger*: lines are only told apart by their order, and
threads that log share only the lock they take for one step; three lines overflow
the buffer, fill chunks and rotate a file; two files rotate out the oldest; two
boots give a restart at every step of the first. *Station*: queues of one fill
soonest, and with two packets of our own to hand over and one packet heard
meanwhile each side can wait for the other; three packets are a transmission's
start, one to be recorded or relayed, and its end, or another talker's.
*RadioDriver*: a packet takes 3 units, so in 8 two follow each other with the task
held up across the end of the first; a rotation turns within them. *Update*: three
asks are a check, an install and one by the other thread. *Archive*: the window
wraps several times and units straddle blocks and the wrap. *Climb*: 17 bins are
eight packets, and a side earns the hold with two: out and back again. *Talker*: two
packets, with the pipeline full, and the end. *Network*: two requests race each
other, the menu's change and a loss.

Fairness. `Flood`: time passes (`NextBin`), and the app's ticker fires every 250 ms
(`Housekeeping`); nothing is assumed heard. `Playout`: the codec thread runs, and
the app's loop takes from `DECODED` (it selects on it whenever it is idle); nothing
is assumed of the radio. `Station`: each task goes on while it has something to do, quiet
spells pass and the user leaves the menu; nothing need be heard, and no false alarm
happen. `Logger`: the log thread runs (it is the only task of its
priority and everything above it sleeps), the main thread goes on from a step it
is in the middle of; the menu need never act and the card may fail each time. `Network`:
the net thread runs, a request the HTTP server has taken ends, and what is renamed
is (each is one thread's own next step); no request need come and the menu need
never act. The eight parts and `RadioDriver` state no fairness: their properties are
of safety.

Histories. `taken`, `heard`, and in `Logger` the record of what was logged and
lost exist for the properties only; no guard reads them, except to bound a run.

## 4. Proofs

Checked by TLAPS, for every value of the constants that the module's named
assumption allows, and for any bounds. The eight theorem modules use no fairness,
and no fact but those of the library.

| module | theorem | what is proved |
|---|---|---|
| `FloodProofs` | `TypeCorrect`, `NumbersOnlyIncrease`, `NumberingCorrect`, `OrderCorrect`, `EveryCopyIsNumbered` | types; `NumbersIncrease`; `NumberingAgrees`; `TakenInOrder`; `EveryCopyNumbered` |
| `ConveyorProofs` | `LandingNearest`, `PacketInFits` | where a packet lands, and the number it gets |
| `StationProofs` | `TypeCorrect`, `RotationCorrect`, `RecordingCorrect`, `LeftoversCorrect` | types; `RotationAgrees`; `RecordingRidesItsConveyor`; `LeftoversAreFew` |
| `PlayoutProofs` | `TypeCorrect`, `PlaysAsPromised`, `CountIsRight`, `TailIsLast` | types; the refinement of `OrderedPlayback`; `CountsDecodes`; `TailComesLast` |
| `LoggerProofs` | `TypeCorrect`, `BootsHaveTheirOwnFiles`, `LinesAreWrittenInOrder`, `FlushReachesTheCard` | types; `OneBootPerFile`; `WrittenInOrder`; `FlushedOrInHand` |
| `RadioDriverProofs` | `TypeCorrect`, `TimesAreTrue`, `AllFetched`, `NeverDeaf`, `SeenToTheEnd` | types; `TimedPacketsEndedThen`; `PacketsAreFetched`; `ListensAsItSays`; `NoPacketCutShort` |
| `UpdateProofs` | `TypeCorrect`, `GoodAppIsKept`, `OneBundleIsExtracted`, `UpToDateRadioHasItAll`, `StoppedAtTheNext` | types; `GoodAppKept`; `OneBundleAtATime`; `UpToDateIsTrue`; `StopsAtTheNext` |
| `NetworkProofs` | `ConfigFits`, `KeyCorrect` | `ConfigStaysFit`; `KeyIsKept` |

What follows says, for each, from what it is assumed and what the inductive invariant
adds to the property, which is where the argument is.

**Flood.** Any repeaters and listeners, whoever hears whom, any number of packets and
bins. `NumbersOnlyIncrease` holds whatever the errors, garbled packets and all: the
history's last number is the conveyor's `lastTaken`. `NumberingCorrect` and
`OrderCorrect` assume `SmallErrors` (four times `MaxHops` + 1 trusted errors fit in a
bin: each relay adds one, two stations' belts each have their own, and rounding
takes half a bin) and that garbled packets are not played. `NumberingAgrees` is not
inductive: it speaks of what was taken, and what makes the next number agree is
where the belt lies. `NumberingInv` adds that every copy queued or on the air
started within (hops * error) of the bin its packet and hops give, that an anchored
belt lies a whole number of bin pairs from the talker's, within the same bound,
and that each packet taken is shifted by that number; and that a station takes
numbers only from trusted packets. A belt that is not anchored has taken nothing, so
what its first trusted packet corrects it to is free: for these two a skew may be of
any size. `OrderCorrect` is then arithmetic from `NumbersOnlyIncrease` and
`NumberingCorrect`. `EveryCopyIsNumbered` does limit the skew (`SmallSkews`: twice a
skew and four times the belt's worst error make less than a bin), for a belt begun on
a skewed packet half a bin off is corrected to the wrong bin, and then gives direct
copies no number. `StepInv` says that a belt that is not anchored lies within that of
an even number of bins from the talker's. Garbled packets may be played here: they
move no belt. `ConveyorProofs` holds the arithmetic.

**Station.** Any talkers, modes and packets, queues of any size; none uses the timing
assumption of `Arrive`. `RotationAgrees` is not inductive: a false alarm would take a
rotation away from a radio that the app believes has it. `RotationInv` adds that a
radio with a rotation is locked and counts as having heard, which is what `LockFor`
sets and `FalseAlarm` looks at. `RecordingInv` adds that a recording that is with its
conveyor is in echo mode, so its end packet replays it rather than taking the conveyor
from under it; and that the menu, where alone the mode changes, is never open with a
conveyor going. `LeftoversInv`: outside the menu at most one packet of its time is
left in the queue and the radio together, and it is counted for a visit none of those
handled was counted for; for the app's way out empties the queue, and handing a packet
over clears the chip.

**Playout.** Queues of any size and any number of packets, conveyors and plays. The
invariant under the refinement (`Playing`) ties the playout's fields to what has been
played: nothing before it has started but one packet held back, and after that the last
packet played is the one before `next`, with only the tail after it. The count's
invariant (`Counting`) adds that every decode still in the codec and not stale is of
the transmission being played; so what passes `decoded`'s look at the txid is what was
counted. `TailIsLast` takes both: a step that plays the tail leaves no decode in
flight, and what is in flight is all there is.

**Logger.** Any threads, sizes of buffer, chunk and file; a card that may refuse any write,
removal or opening, and any number of switches, erasures and boots.
`BootsHaveTheirOwnFiles` needs that what waits in the buffer, in a chunk and in a
thread's hands is of this boot, and that the file being written is this boot's and
newer than all others. `Order`: until the reboot's flush, card, chunk and buffer hold
lines in the order they were logged, each thread's below the count of what it has
logged. `Asked`: a line that waited when the flush began is on the card, in the hands
of one of the two who write, or in the buffer while the flush has more to take.

**RadioDriver.** Any packets, channels, rotations with at least one channel and waits in
the code's order (`RadioAssumption`); the task may be late by any time.
`NeverDeaf` needs what the chip does at each await (`ListenOK`), `AllFetched` that a
packet received is there while its interrupt is not handled (`Stored`).
`TimesAreTrue` is about the stamp: one that passes `stamp_is_its` is that of the last
edge, no earlier than the header's time, so no earlier interrupt's (`TimesOK`).
`SeenToTheEnd` adds what the task knows of a packet in reception: its preamble, its
header, or that the header's interrupt is up (`SeenOK`); the waits being longer than
what they wait for does the rest.

**Update.** Any bundles, firmwares and files. `UpdateInv`: offers are of bundles; what
is extracted is of the offer, file by file as `left` shrinks, and the firmware in the
spare slot; what `INSTALLED` names is on the card; one slot is always valid with a
good app, and only a confirmed app marks another to boot; a stopped install finds
`CANCEL` up.

**Network.** Any networks, servers and scans, and uploads that are configs or texts
that are none (`Unfit`). `ConfigInv`: the table in RAM has a config's fields, `config.toml.new`
is that table at the moment it is renamed (nothing but a save under way writes it, and
a power cut ends the save with the half file left under the other name), and an
upload that is to land on `config.toml` has passed the check. `KeyInv`: from when WiFi
starts until the server is up no request is under way, so `make_key`'s write follows
its read with nobody between; and a server's table that waits to be written holds the
key that is in the file, since nobody else writes the file while the server is up.

Three type invariants (`Playout`, `Logger`, `RadioDriver`) are proved but not in the
runs; what the runs check implies most of them.

Only model-checked, and why:

- Every liveness property: `EveryConveyorEnds`, `TailIsPlayedOnOneConveyor`,
  `WaitingLinesAreWritten`, `LockEnds`, `SendingEnds`, `FollowsTheMenu`. Fairness and
  ENABLED are out of the prover's reach.
- `EveryLineAccounted`: a sum over files and chunks, which needs induction over data.
- `NumberingAgrees` and `TakenInOrder` with garbled packets played. A garbled packet
  has no hops to read: the code takes it for one hop's when a relay has been heard,
  for the talker's else (conveyor.rs, `garbled_packet`). With two or three repeaters in
  a row that is a guess, so the two hold for who hears whom in the run only.
- `LoopsDieOut`, which holds for the loop of two it is checked on and fails in a ring of
  three (section 5).
- The properties of `Climb`, `Handset`, `Link`, `Archive`, `RadioBus`, `IrqPin` and
  `Talker`.

## 5. What was found

Each is a run whose property is what the code's own comments say; `PROJECT.json`
quotes them.

1. `playout_tail`: `Playout::decoded` returns before it looks at the tail for a
   packet older than the last played. When that is the last decode in flight, the
   tail is never played.
2. `logger_stop`: a line checked, or a chunk taken, before logging is switched off
   is written into the file opened when it is switched on again.
3. `station_sweep`: a sweeping radio that hears a good packet while the menu is open
   locks; the menu's exit throws the packet away, so the app sees no activity since it
   said Sweep and does not say it again. The radio stays on that channel until
   something is heard there, or PTT.
4. `station_echo`: the menu takes the conveyor and leaves the recording. Its end packet
   may be lost, no conveyor is left to be found over, and until then nobody else is
   recorded.

Met on the way, where the code does what it does and no run is kept for it:

- The end packet takes away the conveyor with its history of first copies, so a
  voice copy still going round a ring of three repeaters starts a new conveyor and is
  relayed again, until `MAX_HOPS` ends it. "A backstop", says `packet.rs`.
- A reset followed by packets of the same transmission makes stale decodes current
  again: their txid is the new one's. `CountsDecodes` says what still holds.
- A glitch at the one look `stream` takes at the button between two packets ends the
  talk (see Talker).

## 6. Not modelled, and why

- *Forward error correction* is not on the packet path at this commit; it is bit
  arithmetic over long inputs.
- *The other devices* (microphone, speaker, GPS, battery, screen, encoder) are thin
  I/O that shares one signal or queue with the app. The speaker's queue may drop
  what comes when it is full; no model has the rate of sound.
- *Cryptography's arithmetic*: `Link` takes X25519, SHA-256 and AES-GCM as symbols.
- *Mechanical parts of modelled components*: what the driver does after a bus error
  (it panics), static pages and directory listings, mDNS, drawing and scrolling, the
  volume, the GPS log, the settings the network does not follow.
- *Hardware tests, tools, the web page, the desktop skeleton and the hardware's
  design* are not the program.

`PROJECT.json` gives the reason for each component.

## 7. Plan

What is left, in the order of its worth:

1. Proofs: `IrqPin`'s `WaitsAreTheirs`, whose invariant is nearly inductive; `Climb`'s
   `NothingMissed`, for any levels; `Talker`'s `SentInItsBin`, for any times; and
   `Link`'s `ServedAsItself`, by what each frame on its way proves of who sent it.
2. `Climb` composed with `RadioDriver`'s turns: the rotation the app gives is the one
   the hold needs.
3. The speaker's queue and the rate of sound, for the squelch tail that may be dropped.
4. What `Climb` does with numbers of channels on which hops of one parity meet.
