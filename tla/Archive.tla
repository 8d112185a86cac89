-------------------------------- MODULE Archive --------------------------------
(***************************************************************************)
(* An update bundle read front to back (management.rs, extract): a file,   *)
(* inflated into a window as it is read (core/src/gzip.rs, with the ROM's  *)
(* inflater, src/inflate.rs), is a tar archive (tar.rs), read entry by     *)
(* entry.  Every read asked for bytes of the one below.                    *)
(*                                                                         *)
(* A byte of the archive is its place in it, from 1; what is inflated is   *)
(* in units, each of some of those bytes.  The file may be cut short, or   *)
(* the archive in it, and one header may have a byte flipped.              *)
(***************************************************************************)
EXTENDS Integers, Sequences, SequencesExt

CONSTANTS Entries,     \* the archive's: each [size, isFile]
          Units,       \* how many bytes each unit of the deflate data inflates to
          Cuts,        \* how many units it has: all, or the archive was cut short
          Flags,       \* gzip's optional header fields, and how long each is
          WindowLen, InputLen, BlockLen, CopyLen, \* WINDOW, GzipReader's input,
                       \* BLOCK and COPY
          NIL

VARIABLES gz,  \* GzipReader: [at, flags: in its header, taken: units read from the
               \* file, cut: those it has, units: of the deflate data, input: not
               \* inflated yet, made: bytes inflated, position, ready, readyLen,
               \* window, done, ended]
          tar  \* TarReader and its caller: [at, want: bytes asked for, header: its
               \* bytes so far, left, padding, seen: each [entry, bytes], broken:
               \* the entry whose header has a byte flipped, or NIL]

archiveVars == <<gz, tar>>

-----------------------------------------------------------------------------
(* The archive *)

\* Mutant of Padding: a block too much after a file of whole blocks.
BlockOfPadding(size) == BlockLen - (size % BlockLen)

\* Zeros after a file's bytes, up to the next header.
Padding(size) == (BlockLen - (size % BlockLen)) % BlockLen

TruePadding(size) == CHOOSE n \in 0..BlockLen - 1 : (size + n) % BlockLen = 0

\* How many bytes come before an entry.
Before[e \in 1..Len(Entries) + 1] ==
    IF e = 1 THEN 0
    ELSE LET size == Entries[e - 1].size
         IN Before[e - 1] + BlockLen + size + TruePadding(size)

Numbered(first, count) == [i \in 1..count |-> first + i]
HeaderOf(e) == Numbered(Before[e], BlockLen)
BytesOf(e) == Numbered(Before[e] + BlockLen, Entries[e].size)

\* The end is zeros, and so is what fills a file's last block.
IsZero(byte) ==
    \A e \in DOMAIN Entries :
        byte \notin Range(HeaderOf(e)) \cup Range(BytesOf(e))

\* How many bytes the first units inflate to.
Yield[units \in 0..Len(Units)] == IF units = 0 THEN 0 ELSE Yield[units - 1] + Units[units]

HeaderLen(flags) == FoldSet(LAMBDA flag, len : len + Flags[flag], 1, flags)

-----------------------------------------------------------------------------
(* The .gz file *)

\* GzipReader::new, and the header skipped, with the fields its flags announce.
SkipsHeader ==
    /\ gz.at = "Header"
    /\ gz' = IF HeaderLen(gz.flags) <= gz.cut
             THEN [gz EXCEPT !.at = "Reading", !.taken = HeaderLen(gz.flags)]
             ELSE [gz EXCEPT !.at = "Failed"]
    /\ UNCHANGED tar

\* The reader above waits for bytes, and none are ready.
Inflating == gz.at = "Reading" /\ tar.want > 0 /\ gz.readyLen = 0

\* More of the file, whatever a read of it gives; nothing: it has ended.
Refills ==
    /\ Inflating /\ ~gz.done /\ gz.input = 0 /\ ~gz.ended
    /\ \E read \in 0..InputLen :
        /\ read <= gz.cut - gz.taken
        /\ read = 0 <=> gz.taken = gz.cut
        /\ gz' = [gz EXCEPT !.taken = @ + read, !.input = read, !.ended = read = 0]
    /\ UNCHANGED tar

\* What the inflater may do: to the window's end at most.
Steps ==
    LET used    == gz.taken - gz.input - HeaderLen(gz.flags)
        room    == WindowLen - gz.position
        Out(s)  == Yield[used + s.read] - gz.made
        All(s)  == used + s.read = gz.units
    IN  {s \in [status : {"Done", "NeedsInput", "HasMoreOutput", "Failed"},
                read : 0..gz.input, written : 0..room] :
            /\ s.written <= Out(s)
            /\ CASE s.status = "Done" -> All(s) /\ s.written = Out(s)
                 [] s.status = "HasMoreOutput" -> s.written = room
                 [] s.status = "NeedsInput" ->
                        ~gz.ended /\ s.read = gz.input /\ s.written = Out(s) /\ ~All(s)
                 [] s.status = "Failed" ->
                        gz.ended /\ gz.input = 0 /\ s.written = Out(s) /\ ~All(s)}

\* One step of the inflater: what it wrote is ready, and the window wraps.
Inflates ==
    /\ Inflating /\ ~gz.done /\ (gz.input > 0 \/ gz.ended)
    /\ \E step \in Steps :
        gz' = [gz EXCEPT
                  !.at = IF step.status = "Failed" THEN "Failed" ELSE @,
                  !.input = @ - step.read,
                  !.made = @ + step.written,
                  !.window = [place \in DOMAIN @ |->
                                 IF place \in gz.position..gz.position + step.written - 1
                                 THEN gz.made + 1 + place - gz.position ELSE @[place]],
                  !.ready = gz.position,
                  !.readyLen = step.written,
                  !.position = (@ + step.written) % WindowLen,
                  !.done = step.status = "Done"]
    /\ UNCHANGED tar

-----------------------------------------------------------------------------
(* The archive's entries *)

\* The inflated data has ended with bytes still wanted: UnexpectedEof.
EndsEarly ==
    /\ Inflating /\ gz.done
    /\ gz' = [gz EXCEPT !.at = "Failed"]
    /\ UNCHANGED tar

\* As many of the bytes ready as are wanted, for what the reader is at.
HandsOut(at, count) ==
    /\ tar.at = at /\ gz.at = "Reading" /\ tar.want > 0 /\ gz.readyLen > 0
    /\ count = Min({gz.readyLen, tar.want})

GzAfter(count) == [gz EXCEPT !.ready = @ + count, !.readyLen = @ - count]

Bytes(count) == [i \in 1..count |-> gz.window[gz.ready + i - 1]]

\* A header is next, once what is left of the entry is skipped.
ToHeader == [tar EXCEPT !.at = "Header", !.want = BlockLen, !.header = <<>>,
                        !.left = 0, !.padding = 0]

\* TarReader::next_entry; extract asks for it once it has all of a file, or wants
\* none of it.
NextEntry ==
    /\ tar.at = "Entry" /\ tar.want = 0
    /\ tar.seen # <<>> =>
            \/ ~Entries[Last(tar.seen).entry].isFile
            \/ tar.left = 0
            \/ Last(tar.seen).bytes = <<>>
    /\ tar' = IF tar.left + tar.padding = 0 THEN ToHeader
              ELSE [tar EXCEPT !.at = "Skip", !.want = tar.left + tar.padding]
    /\ UNCHANGED gz

Skips(count) ==
    /\ HandsOut("Skip", count)
    /\ tar' = IF count = tar.want THEN ToHeader ELSE [tar EXCEPT !.want = @ - count]
    /\ gz' = GzAfter(count)

\* parse_header: the entry whose header this is; its magic and its checksum tell a
\* reader out of step.
Parsed(header) ==
    LET its == {e \in DOMAIN Entries \ {tar.broken} : HeaderOf(e) = header}
    IN  IF its = {} THEN NIL ELSE CHOOSE e \in its : TRUE

ReadsHeader(count) ==
    LET header == tar.header \o Bytes(count)
        entry  == Parsed(header)
    IN  /\ HandsOut("Header", count)
        /\ \/ /\ count < tar.want
              /\ tar' = [tar EXCEPT !.want = @ - count, !.header = header]
              /\ gz' = GzAfter(count)
           \/ /\ count = tar.want /\ \A i \in DOMAIN header : IsZero(header[i])
              /\ tar' = [tar EXCEPT !.at = "End", !.want = 0, !.header = <<>>]
              /\ gz' = GzAfter(count)
           \/ /\ count = tar.want /\ entry # NIL
              /\ tar' = [tar EXCEPT !.at = "Entry", !.want = 0, !.header = <<>>,
                                    !.left = Entries[entry].size,
                                    !.padding = Padding(Entries[entry].size),
                                    !.seen = Append(@, [entry |-> entry, bytes |-> <<>>])]
              /\ gz' = GzAfter(count)
           \/ /\ count = tar.want /\ entry = NIL /\ \E i \in DOMAIN header : ~IsZero(header[i])
              /\ gz' = [gz EXCEPT !.at = "Failed"]
              /\ UNCHANGED tar

\* extract reads a file of the bundle, COPY bytes at a time; some it leaves alone.
ReadsFile ==
    /\ tar.at = "Entry" /\ tar.want = 0 /\ tar.left > 0
    /\ Entries[Last(tar.seen).entry].isFile
    /\ tar' = [tar EXCEPT !.want = Min({CopyLen, tar.left})]
    /\ UNCHANGED gz

\* TarReader::read, as many as came.
GetsBytes(count) ==
    /\ HandsOut("Entry", count)
    /\ tar' = [tar EXCEPT !.want = 0, !.left = @ - count,
                          !.seen[Len(tar.seen)].bytes = @ \o Bytes(count)]
    /\ gz' = GzAfter(count)

-----------------------------------------------------------------------------
ArchiveInit ==
    /\ \E flags \in SUBSET DOMAIN Flags, units \in Cuts,
           cut \in 0..HeaderLen(DOMAIN Flags) + Len(Units) :
        /\ cut <= HeaderLen(flags) + units
        /\ gz = [at |-> "Header", flags |-> flags, taken |-> 0, cut |-> cut, units |-> units,
                 input |-> 0,
                 made |-> 0, position |-> 0, ready |-> 0, readyLen |-> 0,
                 window |-> [place \in 0..WindowLen - 1 |-> 0],
                 done |-> FALSE, ended |-> FALSE]
    /\ \E broken \in DOMAIN Entries \cup {NIL} :
        tar = [at |-> "Entry", want |-> 0, header |-> <<>>, left |-> 0, padding |-> 0,
               seen |-> <<>>, broken |-> broken]

ArchiveNext ==
    \/ SkipsHeader \/ Refills \/ Inflates \/ EndsEarly \/ NextEntry \/ ReadsFile
    \/ \E count \in 1..WindowLen : Skips(count) \/ ReadsHeader(count) \/ GetsBytes(count)

ArchiveSpec == ArchiveInit /\ [][ArchiveNext]_archiveVars

-----------------------------------------------------------------------------
(* Properties *)

ArchiveTypeOK ==
    /\ gz.at \in {"Header", "Reading", "Failed"}
    /\ gz.position \in 0..WindowLen - 1 /\ gz.readyLen \in 0..WindowLen
    /\ gz.input \in 0..InputLen /\ gz.taken \in 0..gz.cut
    /\ tar.at \in {"Skip", "Header", "Entry", "End"} /\ tar.want \in Nat

\* The entries come in order, each with its own bytes, all of them before the next
\* unless it is left alone. The end comes after the last, and a good file is never
\* refused: only one cut short, or a header with a flipped byte, is.
EntriesComeWhole ==
    /\ \A i \in DOMAIN tar.seen :
        /\ tar.seen[i].entry = i /\ i # tar.broken
        /\ IsPrefix(tar.seen[i].bytes, BytesOf(i))
        /\ i < Len(tar.seen) => tar.seen[i].bytes \in {<<>>, BytesOf(i)}
    /\ tar.at = "End" => Len(tar.seen) = Len(Entries)
    /\ gz.at = "Failed" => \/ gz.cut < HeaderLen(gz.flags) + Len(Units)
                           \/ tar.broken = Len(tar.seen) + 1
=============================================================================
