-------------------------------- MODULE Logger --------------------------------
(***************************************************************************)
(* The log file (core/src/logger.rs) and who uses it: the threads that log *)
(* lines, the "log" thread that writes them (src/devices/sd.rs), the one   *)
(* that flushes and reboots (src/firmware.rs), and the app's menu, which   *)
(* switches logging on and off and erases the logs.                        *)
(*                                                                         *)
(* They share a flag (KEEPING), a ring buffer and the file, each with its   *)
(* own lock and none held across two of them, save erase_all's file lock.   *)
(* A step here is what is done under one lock.  The code's bytes are        *)
(* entries: a line, or a marker, is one.                                    *)
(*                                                                         *)
(* Bounds of a run: MaxLines (logged, in all), MaxBoots and MaxSwitches (of *)
(* logging, off).                                                           *)
(***************************************************************************)
EXTENDS Integers, SequencesExt, FiniteSetsExt

CONSTANTS Threads,        \* those that log lines
          RingLines,      \* what the buffer holds
          ChunkLines,     \* CHUNK_BYTES
          MaxFileLines,   \* MAX_FILE_BYTES
          MaxFiles,       \* MAX_FILES
          CardFails,      \* whether the card may refuse a write, a file, a removal
          CardFills,      \* whether it may get MAX_USED_PERCENT full
          MaxLines, MaxBoots, MaxSwitches,
          Writer, Rebooter, \* the two threads that flush
          NIL

ASSUME LoggerAssumption ==
    /\ RingLines \in Nat \ {0} /\ ChunkLines \in Nat \ {0}
    /\ MaxFileLines \in Nat \ {0} /\ MaxFiles \in Nat \ {0}
    /\ CardFails \in BOOLEAN /\ CardFills \in BOOLEAN
    /\ MaxLines \in Nat /\ MaxBoots \in Nat /\ MaxSwitches \in Nat
    /\ Writer # Rebooter

Flushers == {Writer, Rebooter}

VARIABLES keeping,   \* KEEPING
          ring,      \* the buffer's lines, oldest first
          dropped,   \* lines refused since the last flush: the buffer was full
          card,      \* [files: by number, each [entries, boot, session], the
                     \* last two history, open: the one being written or NIL,
                     \* whole: history, no line meant for a file has been
                     \* thrown away this boot]
          logging,   \* the line a thread has checked KEEPING for, or NIL
          logged,    \* lines each thread has logged so, this boot
          flusher,   \* each flusher's [at, chunk, dropped, more]
          switch,    \* config::LOG_TO_FLASH, and how far stop_file() has got:
                     \* [on, stopping]
          times,     \* history: [boot, session, lines]: this boot, how often
                     \* logging has been switched off, the lines logged
          running,   \* main() has come to the log file
          asked      \* history: the lines waiting when the reboot began to flush,
                     \* until it has

vars == <<keeping, ring, dropped, card, logging, logged, flusher, switch, times,
          running, asked>>

-----------------------------------------------------------------------------
(* What a file holds *)

Line(thread, n) == [kind |-> "Line", by |-> thread, n |-> n,
                    boot |-> times.boot, session |-> times.session]
Dropped(count)  == [kind |-> "Dropped", count |-> count]
Continued       == [kind |-> "Continued"]

IsLine(entry) == entry.kind = "Line"

EmptyFile(boot, session) == [entries |-> <<>>, boot |-> boot, session |-> session]

Kept(files, numbers) == [number \in numbers |-> files[number]]

\* What is left when all but those numbers are removed: a removal that fails is
\* ignored, and its file stays.
Left(files, numbers) ==
    {Kept(files, left) : left \in
        {numbers} \cup IF CardFails THEN {more \in SUBSET DOMAIN files : numbers \subseteq more}
                       ELSE {}}

\* Mutant of Newest: a start continues the newest file.
BeforeNewest(files) == Max(DOMAIN files \cup {0}) - 1
Newest(files) == Max(DOMAIN files \cup {0})

\* make_room: the oldest files go until there is room for one more.
Rooms(files) ==
    LET Youngest(numbers) == \A old \in DOMAIN files \ numbers, number \in numbers : old < number
        Roomy == {numbers \in SUBSET DOMAIN files :
                    Youngest(numbers) /\ Cardinality(numbers) < MaxFiles}
    IN  UNION {Left(files, numbers) : numbers \in
            {some \in Roomy : CardFills \/ \A more \in Roomy : more \subseteq some}}

NonEmpty(files) == {number \in DOMAIN files : files[number].entries # <<>>}

\* Opened to append: what a file that could not be removed holds stays in it.
Opened(files, number, file) ==
    [each \in DOMAIN files \cup {number} |->
        IF each # number THEN files[each]
        ELSE IF number \in DOMAIN files
        THEN [file EXCEPT !.entries = files[number].entries \o @] ELSE file]

\* LogFile::start: what the files may be, with that one of that number.
Started(files, number, file) == {Opened(room, number, file) : room \in Rooms(files)}

\* LogFile::write: a full file continues in the next number.
Full(c) == Len(c.files[c.open].entries) >= MaxFileLines

Rotated(c, head) ==
    {[files |-> files,
      open  |-> c.open + 1,
      whole |-> c.whole /\ DOMAIN c.files \subseteq DOMAIN files]
        : files \in Started(c.files, c.open + 1, [c.files[c.open] EXCEPT !.entries = head])}

\* It fails: before the next file is there (LittleFS keeps the one open), before
\* the line that says where it came from, or before the entries.
Failed(c) ==
    {c} \cup IF Full(c)
             THEN {[c EXCEPT !.files = room] :
                        room \in {left \in Rooms(c.files) : c.open \in DOMAIN left}}
                    \cup Rotated(c, <<>>) \cup Rotated(c, <<Continued>>)
             ELSE {}

Thrown(c) == [c EXCEPT !.whole = FALSE]

\* A failed write is ignored, and what it was to write is gone.
Writes(c, entries) ==
    {[now EXCEPT !.files[now.open].entries = @ \o entries] :
        now \in IF Full(c) THEN Rotated(c, <<Continued>>) ELSE {c}}
    \cup {Thrown(now) : now \in IF CardFails THEN Failed(c) ELSE {}}

-----------------------------------------------------------------------------
(* Logging a line: the flag is checked first, then the line is pushed. *)

CheckKeeping(thread) ==
    /\ logging[thread] = NIL /\ times.lines < MaxLines
    /\ keeping
    /\ times' = [times EXCEPT !.lines = @ + 1]
    /\ logged' = [logged EXCEPT ![thread] = @ + 1]
    /\ logging' = [logging EXCEPT ![thread] = Line(thread, logged[thread] + 1)]
    /\ UNCHANGED <<keeping, ring, dropped, card, flusher, switch, running, asked>>

Room == Len(ring) < RingLines

\* Ring::push: whole, or not at all.
Push(thread) ==
    /\ logging[thread] # NIL
    /\ logging' = [logging EXCEPT ![thread] = NIL]
    /\ \/ /\ Room
          /\ ring' = Append(ring, logging[thread])
          /\ UNCHANGED dropped
       \/ /\ ~Room
          /\ dropped' = dropped + 1
          /\ UNCHANGED ring
    /\ UNCHANGED <<keeping, card, logged, flusher, switch, times, running, asked>>

-----------------------------------------------------------------------------
(* Writing the file *)

Resting == [at |-> "Resting", chunk |-> <<>>, dropped |-> 0, more |-> FALSE]

Flushes(who, step) == flusher' = [flusher EXCEPT ![who] = step]

\* Mutant of Pending: lines wait until some are lost.
PendingOnceFull == ring # <<>> /\ dropped > 0

Pending == ring # <<>> \/ dropped > 0

\* sd::write_logs.
FindPending ==
    /\ running /\ flusher[Writer].at = "Resting"
    /\ Pending
    /\ Flushes(Writer, [Resting EXCEPT !.at = "Flushing"])
    /\ UNCHANGED <<keeping, ring, dropped, card, logging, logged, switch, times, running, asked>>

ChunkOf(lines) == SubSeq(lines, 1, Min({Len(lines), ChunkLines}))
\* Mutant of AfterChunk: the chunk stays in the buffer.
AfterNothing(lines) == lines
AfterChunk(lines) == SubSeq(lines, Len(ChunkOf(lines)) + 1, Len(lines))

\* Mutant of TakeChunk: the count of lines lost is not reset.
TakeChunkCountsAgain(who) ==
    /\ flusher[who].at = "Flushing"
    /\ Flushes(who, [at |-> "Writing", chunk |-> ChunkOf(ring), dropped |-> dropped,
                     more |-> AfterChunk(ring) # <<>>])
    /\ ring' = AfterChunk(ring)
    /\ UNCHANGED <<keeping, dropped, card, logging, logged, switch, times, running, asked>>

\* flush_chunk, under the buffer's lock.
TakeChunk(who) ==
    /\ flusher[who].at = "Flushing"
    /\ Flushes(who, [at |-> "Writing", chunk |-> ChunkOf(ring), dropped |-> dropped,
                     more |-> AfterChunk(ring) # <<>>])
    /\ ring' = AfterChunk(ring)
    /\ dropped' = 0
    /\ UNCHANGED <<keeping, card, logging, logged, switch, times, running, asked>>

\* Mutant of Onwards: flush_all stops after a chunk.
OnwardsOnce(who, more) == IF who = Writer THEN "Resting" ELSE "Flushed"

\* Both flush until nothing more waits.
Onwards(who, more) ==
    IF more THEN "Flushing" ELSE IF who = Writer THEN "Resting" ELSE "Flushed"

\* flush_chunk, under the file's lock: the marker, then the chunk. With no file
\* open they go nowhere.
WriteChunk(who) ==
    LET step == flusher[who]
        Marked == IF step.dropped = 0 THEN {card} ELSE Writes(card, <<Dropped(step.dropped)>>)
    IN  /\ step.at = "Writing"
        /\ \/ /\ card.open # NIL
              /\ \E marked \in Marked : card' \in Writes(marked, step.chunk)
           \/ /\ card.open = NIL
              /\ card' = Thrown(card)
        /\ Flushes(who, [Resting EXCEPT !.at = Onwards(who, step.more)])
        /\ asked' = IF Onwards(who, step.more) = "Flushed" THEN {} ELSE asked
        /\ UNCHANGED <<keeping, ring, dropped, logging, logged, switch, times, running>>

-----------------------------------------------------------------------------
(* Starting, stopping and erasing *)

\* start_file: a new file, unless one is open.
StartFile ==
    \/ /\ card.open # NIL
       /\ UNCHANGED <<keeping, card>>
    \/ /\ card.open = NIL
       /\ LET kept   == Kept(card.files, NonEmpty(card.files))
              number == Newest(kept) + 1
          IN  \E files \in Left(card.files, NonEmpty(card.files)) :
              \E started \in Started(files, number, EmptyFile(times.boot, times.session)) :
                card' = [files |-> started, open |-> number,
                         whole |-> card.whole /\ DOMAIN kept \subseteq DOMAIN started]
       /\ keeping' = TRUE
    \/ /\ card.open = NIL /\ CardFails
       /\ \E files \in {card.files}
                       \cup UNION {Rooms(left) : left \in Left(card.files, NonEmpty(card.files))} :
            card' = [card EXCEPT !.files = files,
                                 !.whole = @ /\ NonEmpty(card.files) \subseteq DOMAIN files]
       /\ UNCHANGED keeping

\* stop_file's first store.
StopKeeping ==
    /\ keeping' = FALSE
    /\ times' = [times EXCEPT !.session = @ + 1]

\* main(): the settings say whether there is a file. The log thread is started
\* after that.
Boot ==
    /\ ~running /\ switch.stopping = "No"
    /\ \/ /\ switch.on
          /\ StartFile
          /\ running' = TRUE
          /\ UNCHANGED <<switch, times>>
       \/ /\ ~switch.on
          /\ StopKeeping
          /\ switch' = [switch EXCEPT !.stopping = "Closing"]
          /\ UNCHANGED <<card, running>>
    /\ UNCHANGED <<ring, dropped, logging, logged, flusher, asked>>

Idle == running /\ switch.stopping = "No"

\* App::apply, Setting::LogToFlash on.
SwitchOn ==
    /\ Idle
    /\ switch' = [switch EXCEPT !.on = TRUE]
    /\ StartFile
    /\ UNCHANGED <<ring, dropped, logging, logged, flusher, times, running, asked>>

\* ... and off, and stop_file in its three steps.
SwitchOff ==
    /\ Idle /\ times.session < MaxSwitches
    /\ switch' = [on |-> FALSE, stopping |-> "Closing"]
    /\ StopKeeping
    /\ UNCHANGED <<ring, dropped, card, logging, logged, flusher, running, asked>>

CloseFile ==
    /\ switch.stopping = "Closing"
    /\ switch' = [switch EXCEPT !.stopping = "Discarding"]
    /\ card' = [card EXCEPT !.open = NIL]
    /\ UNCHANGED <<keeping, ring, dropped, logging, logged, flusher, times, running, asked>>

DiscardPending == ring' = <<>> /\ dropped' = 0

StopDiscards ==
    /\ switch.stopping = "Discarding"
    /\ switch' = [switch EXCEPT !.stopping = "No"]
    /\ DiscardPending
    /\ card' = Thrown(card)
    /\ running' = TRUE
    /\ UNCHANGED <<keeping, logging, logged, flusher, times, asked>>

\* erase_all: a fresh file if one was open. The first removal that fails ends
\* it, the file closed and nothing discarded.
EraseAll ==
    /\ Idle
    /\ \/ /\ DiscardPending
          /\ \/ /\ card.open # NIL
                /\ card' = [files |-> [number \in {1} |-> EmptyFile(times.boot, times.session)],
                            open |-> 1, whole |-> FALSE]
             \/ /\ card.open = NIL \/ CardFails
                /\ card' = [files |-> Kept(card.files, {}), open |-> NIL, whole |-> FALSE]
       \/ /\ CardFails
          /\ \E left \in SUBSET DOMAIN card.files \ {{}} :
                card' = [files |-> Kept(card.files, left), open |-> NIL, whole |-> FALSE]
          /\ UNCHANGED <<ring, dropped>>
    /\ UNCHANGED <<keeping, logging, logged, flusher, switch, times, running, asked>>

-----------------------------------------------------------------------------
(* Rebooting *)

InHand(who) == ToSet(flusher[who].chunk)

\* firmware::reboot_soon, after its sleep: flush_all, if logging is on.
RebootSoon ==
    /\ running /\ flusher[Rebooter].at = "Resting"
    /\ Flushes(Rebooter, [Resting EXCEPT !.at = IF switch.on THEN "Flushing" ELSE "Flushed"])
    /\ asked' = IF switch.on THEN ToSet(ring) \cup InHand(Writer) ELSE {}
    /\ UNCHANGED <<keeping, ring, dropped, card, logging, logged, switch, times, running>>

\* What RAM held is gone: after esp_restart(), or with the power lost anywhere.
Restart ==
    /\ times.boot < MaxBoots
    /\ times' = [times EXCEPT !.boot = @ + 1]
    /\ keeping' = TRUE
    /\ DiscardPending
    /\ card' = [card EXCEPT !.open = NIL, !.whole = TRUE]
    /\ logging' = [thread \in Threads |-> NIL]
    /\ logged' = [thread \in Threads |-> 0]
    /\ flusher' = [who \in Flushers |-> Resting]
    /\ switch' = [switch EXCEPT !.stopping = "No"]
    /\ running' = FALSE
    /\ asked' = {}

-----------------------------------------------------------------------------
Init ==
    /\ keeping = TRUE /\ ring = <<>> /\ dropped = 0
    /\ card = [files |-> [number \in {} |-> <<>>], open |-> NIL, whole |-> TRUE]
    /\ logging = [thread \in Threads |-> NIL]
    /\ logged = [thread \in Threads |-> 0]
    /\ flusher = [who \in Flushers |-> Resting]
    /\ switch \in [on : BOOLEAN, stopping : {"No"}]
    /\ times = [boot |-> 1, session |-> 0, lines |-> 0]
    /\ running = FALSE
    /\ asked = {}

Next ==
    \/ \E thread \in Threads : CheckKeeping(thread) \/ Push(thread)
    \/ FindPending \/ \E who \in Flushers : TakeChunk(who) \/ WriteChunk(who)
    \/ Boot \/ SwitchOn \/ SwitchOff \/ CloseFile \/ StopDiscards \/ EraseAll
    \/ RebootSoon \/ Restart

Spec == Init /\ [][Next]_vars

\* main() goes on to the log file, and the threads that flush run.
FairSpec ==
    /\ Spec
    /\ WF_vars(Boot) /\ WF_vars(FindPending)
    /\ \A who \in Flushers : WF_vars(TakeChunk(who)) /\ WF_vars(WriteChunk(who))

-----------------------------------------------------------------------------
(* Properties *)

Lines == [kind : {"Line"}, by : Threads, n : Nat, boot : Nat, session : Nat]

Entries == Lines \cup [kind : {"Dropped"}, count : Nat] \cup {Continued}

Files == [entries : Seq(Entries), boot : Nat, session : Nat]

Steps == [at : {"Resting", "Flushing", "Writing", "Flushed"}, chunk : Seq(Lines),
          dropped : Nat, more : BOOLEAN]

\* The variables have their types: no more waits than the buffer holds, a chunk is
\* no longer than it may be, and the file being written is there.
TypeOK ==
    /\ keeping \in BOOLEAN /\ running \in BOOLEAN
    /\ ring \in Seq(Lines) /\ Len(ring) <= RingLines /\ dropped \in Nat
    /\ DOMAIN card.files \subseteq Nat /\ card.files \in [DOMAIN card.files -> Files]
    /\ card.open \in DOMAIN card.files \cup {NIL} /\ card.whole \in BOOLEAN
    /\ logging \in [Threads -> Lines \cup {NIL}] /\ logged \in [Threads -> Nat]
    /\ flusher \in [Flushers -> Steps]
    /\ \A who \in Flushers : Len(flusher[who].chunk) <= ChunkLines
    /\ switch \in [on : BOOLEAN, stopping : {"No", "Closing", "Discarding"}]
    /\ times \in [boot : Nat, session : Nat, lines : Nat]
    /\ asked \subseteq Lines

\* What a boot's files hold, in the order of their numbers.
BootsFiles(boot) == {number \in DOMAIN card.files : card.files[number].boot = boot}

Written(boot) ==
    LET numbers == SetToSortSeq(BootsFiles(boot), <)
    IN  FlattenSeq([i \in DOMAIN numbers |-> card.files[numbers[i]].entries])

\* The lines of this boot in those files.
OnCard ==
    {entry \in UNION {ToSet(card.files[number].entries) : number \in BootsFiles(times.boot)} :
        IsLine(entry)}

\* The entry at i of file m comes before the one at j of file n.
Earlier(m, i, n, j) == m < n \/ (m = n /\ i < j)

\* A thread's lines are written in the order it logged them, none of them twice,
\* whatever is switched, erased or rotated meanwhile. (Until a reboot's flush_all:
\* two threads may then each have a chunk in hand.)
WrittenInOrder ==
    flusher[Rebooter].at = "Resting" =>
        \A m, n \in BootsFiles(times.boot) :
            \A i \in DOMAIN card.files[m].entries, j \in DOMAIN card.files[n].entries :
                LET one == card.files[m].entries[i]
                    two == card.files[n].entries[j]
                IN  IsLine(one) /\ IsLine(two) /\ one.by = two.by /\ Earlier(m, i, n, j)
                        => one.n < two.n

\* Each boot has files of its own: none ever mixes two boots' lines.
OneBootPerFile ==
    \A number \in DOMAIN card.files : \A entry \in ToSet(card.files[number].entries) :
        IsLine(entry) => entry.boot = card.files[number].boot

LinesIn(entries) ==
    FoldSeq(LAMBDA entry, sum : sum + (IF IsLine(entry) THEN 1
                                       ELSE IF entry = Continued THEN 0 ELSE entry.count),
            0, entries)

\* A line logged is in RAM, in a file, or in a marker's count: unless lines were
\* thrown away, none is missing without a marker that says so, and none counts
\* twice.
EveryLineAccounted ==
    card.whole =>
        MapThenSumSet(LAMBDA thread : logged[thread], Threads) =
            Cardinality({thread \in Threads : logging[thread] # NIL})
            + Len(ring) + dropped
            + MapThenSumSet(LAMBDA who : Len(flusher[who].chunk) + flusher[who].dropped,
                            Flushers)
            + LinesIn(Written(times.boot))

\* When flush_all returns, what was waiting as it began is in the file, or in the
\* hands of the log thread, unless lines were thrown away: a reboot loses none.
FlushedOrInHand ==
    [][flusher[Rebooter].at = "Writing" /\ flusher'[Rebooter].at = "Flushed" /\ card'.whole
            => asked \subseteq (OnCard \cup InHand(Writer))']_vars

\* A line waiting in the buffer is written, unless lines are thrown away or the
\* radio restarts.
WaitingLinesAreWritten ==
    \A thread \in Threads, n \in 1..MaxLines :
        (\E line \in ToSet(ring) : line.by = thread /\ line.n = n)
            ~> (\/ \E line \in OnCard : line.by = thread /\ line.n = n
                \/ ~card.whole \/ ~running)

\* stop_file: the lines waiting for the file are dropped, and never get there:
\* a file started since holds none of them.
StoppedLinesNeverWritten ==
    \A number \in DOMAIN card.files : \A entry \in ToSet(card.files[number].entries) :
        IsLine(entry) => entry.session = card.files[number].session
=============================================================================
