----------------------------- MODULE LoggerProofs -----------------------------
(***************************************************************************)
(* The log file, for any number of threads and any sizes of the buffer, a  *)
(* chunk, a file and the card: its types, that no file mixes two boots,    *)
(* that lines are written in the order they were logged, and that what     *)
(* waited at a reboot is in the file.                                      *)
(*                                                                         *)
(* The proofs follow a line on its way: the thread that has checked        *)
(* KEEPING, the buffer, a chunk, the file.  What is at a later place was   *)
(* logged before what is at an earlier one (Order), all of it in this boot *)
(* (OfThisBoot), and the file being written comes after all that hold      *)
(* anything (Newer).                                                       *)
(***************************************************************************)
EXTENDS Logger, SequenceTheorems, WellFoundedInduction, TLAPS

-----------------------------------------------------------------------------
(* The invariant's parts *)

IsCard(c) == c = [files |-> c.files, open |-> c.open, whole |-> c.whole]

FilesOK(files) == DOMAIN files \subseteq Nat /\ files \in [DOMAIN files -> Files]

\* There is a newest file, as LogFile's next number needs.
Bounded(files) == \E top \in Nat : \A number \in DOMAIN files : number <= top

LineAt(files, n, i) ==
    n \in DOMAIN files /\ i \in DOMAIN files[n].entries /\ IsLine(files[n].entries[i])

EntryAt(files, n, i) == files[n].entries[i]

\* No file is of a later boot, or holds a line of another than its own.
OfTheirBoot(files, boot) ==
    /\ \A n \in DOMAIN files : files[n].boot <= boot
    /\ \A n, i \in Nat : LineAt(files, n, i) => EntryAt(files, n, i).boot = files[n].boot

\* The file being written is this boot's, and no later one holds anything.
Newer(c, boot) ==
    /\ c.open \in DOMAIN c.files
    /\ c.files[c.open].boot = boot
    /\ \A n \in NonEmpty(c.files) : n <= c.open

LinesOf(entries, boot) ==
    \A i \in DOMAIN entries : IsLine(entries[i]) => entries[i].boot = boot

OfThisBoot ==
    /\ LinesOf(ring, times.boot)
    /\ \A who \in Flushers : LinesOf(flusher[who].chunk, times.boot)
    /\ \A thread \in Threads : logging[thread] # NIL => logging[thread].boot = times.boot

CardOK ==
    /\ IsCard(card) /\ FilesOK(card.files) /\ Bounded(card.files)
    /\ OfTheirBoot(card.files, times.boot)
    /\ card.open # NIL => Newer(card, times.boot)

-----------------------------------------------------------------------------
(* What a file holds *)

LEMMA LineFacts ==
    /\ \A line \in Lines : /\ line \in Entries /\ IsLine(line)
                           /\ line.by \in Threads /\ line.n \in Nat /\ line.boot \in Nat
    /\ \A entry \in Entries : IsLine(entry) => entry \in Lines
<1>1. \A line \in Lines : /\ line \in Entries /\ IsLine(line)
                          /\ line.by \in Threads /\ line.n \in Nat /\ line.boot \in Nat
  BY DEF Lines, Entries, IsLine
<1>2. ASSUME NEW entry \in Entries, IsLine(entry) PROVE entry \in Lines
  <2>1. entry.kind = "Line" BY <1>2 DEF IsLine
  <2>2. CASE entry \in Lines BY <2>2
  <2>3. CASE entry \in [kind : {"Dropped"}, count : Nat] BY <2>1, <2>3
  <2>4. CASE entry = Continued BY <2>1, <2>4 DEF Continued
  <2> QED BY <2>2, <2>3, <2>4 DEF Entries
<1> QED BY <1>1, <1>2

LEMMA MarkerFacts ==
    /\ Continued \in Entries /\ ~IsLine(Continued)
    /\ \A count \in Nat : Dropped(count) \in Entries /\ ~IsLine(Dropped(count))
BY DEF Entries, Continued, Dropped, IsLine

LEMMA FileFacts ==
    /\ \A file \in Files : file.entries \in Seq(Entries) /\ file.boot \in Nat
    /\ \A file \in Files, entries \in Seq(Entries) :
        LET new == [file EXCEPT !.entries = entries]
        IN  new \in Files /\ new.entries = entries /\ new.boot = file.boot
    /\ \A boot, session \in Nat :
        LET new == EmptyFile(boot, session)
        IN  new \in Files /\ new.entries = <<>> /\ new.boot = boot
BY DEF Files, EmptyFile

\* Two short sequences of entries.
LEMMA Heads ==
    /\ <<>> \in Seq(Entries) /\ DOMAIN <<>> = {}
    /\ <<Continued>> \in Seq(Entries) /\ DOMAIN <<Continued>> = {1}
    /\ <<Continued>>[1] = Continued
    /\ \A entries \in Seq(Entries) : <<>> \o entries = entries /\ entries \o <<>> = entries
BY MarkerFacts, ConcatEmptySeq

-----------------------------------------------------------------------------
(* Newest *)

\* A set of numbers with a bound has a largest.
LEMMA MaxOfBounded ==
    ASSUME NEW S \in SUBSET Nat, S # {}, NEW top \in Nat, \A n \in S : n <= top
    PROVE  Max(S) \in S /\ \A n \in S : n <= Max(S)
<1> DEFINE Above == {b \in Nat : \A n \in S : n <= b}
<1>1. \E x \in Above : \A y \in Above : ~(<<y, x>> \in OpToRel(<, Nat))
  <2>1. Above \subseteq Nat /\ Above # {} OBVIOUS
  <2> QED BY <2>1, WFMin, NatLessThanWellFounded
<1>2. PICK x \in Above : \A y \in Above : ~(y < x)
  <2>1. \A y, x \in Nat : <<y, x>> \in OpToRel(<, Nat) <=> y < x BY DEF OpToRel
  <2> QED BY <1>1, <2>1
<1>3. x \in S
  <2> SUFFICES ASSUME x \notin S PROVE FALSE OBVIOUS
  <2>1. \A n \in S : n < x BY <1>2
  <2>2. PICK some \in S : TRUE OBVIOUS
  <2>3. x \in Nat /\ some \in Nat /\ some < x BY <2>1
  <2>4. \A n \in S : n \in Nat /\ n <= x - 1 BY <2>1, <2>3
  <2>5. x - 1 \in Above BY <2>3, <2>4
  <2> QED BY <1>2, <2>3, <2>5
<1>4. \E m \in S : \A n \in S : m >= n BY <1>2, <1>3
<1>5. Max(S) \in S /\ \A n \in S : Max(S) >= n BY <1>4 DEF Max
<1> QED BY <1>5

LEMMA NewestFacts ==
    ASSUME NEW files, FilesOK(files), Bounded(files)
    PROVE  Newest(files) \in Nat /\ \A n \in DOMAIN files : n <= Newest(files)
<1> DEFINE S == DOMAIN files \cup {0}
<1>1. PICK top \in Nat : \A n \in DOMAIN files : n <= top BY DEF Bounded
<1>2. S \in SUBSET Nat /\ S # {} /\ \A n \in S : n <= top BY <1>1 DEF FilesOK
<1>3. Max(S) \in S /\ \A n \in S : n <= Max(S)
  <2> HIDE DEF S
  <2> QED BY <1>2, MaxOfBounded
<1> QED BY <1>2, <1>3 DEF Newest

-----------------------------------------------------------------------------
(* Removing files *)

PartOf(room, files) == \E left \in SUBSET DOMAIN files : room = Kept(files, left)

LEMMA LeftIsPart ==
    ASSUME NEW files, NEW numbers \in SUBSET DOMAIN files, NEW left \in Left(files, numbers)
    PROVE  /\ PartOf(left, files)
           /\ numbers \subseteq DOMAIN left
BY DEF Left, PartOf, Kept

LEMMA RoomIsPart ==
    ASSUME NEW files, NEW room \in Rooms(files)
    PROVE  PartOf(room, files)
<1>1. PICK numbers \in SUBSET DOMAIN files : room \in Left(files, numbers) BY DEF Rooms
<1> QED BY <1>1, LeftIsPart

\* What is left is as it was.
LEMMA PartFacts ==
    ASSUME NEW files, NEW room, PartOf(room, files), FilesOK(files), Bounded(files),
           NEW boot, OfTheirBoot(files, boot)
    PROVE  /\ DOMAIN room \subseteq DOMAIN files
           /\ \A n \in DOMAIN room : room[n] = files[n]
           /\ FilesOK(room) /\ Bounded(room) /\ OfTheirBoot(room, boot)
<1>1. PICK left \in SUBSET DOMAIN files : room = Kept(files, left) BY DEF PartOf
<1>2. DOMAIN room = left /\ \A n \in left : room[n] = files[n] BY <1>1 DEF Kept
<1>3. FilesOK(room)
  <2>1. \A n \in left : files[n] \in Files BY DEF FilesOK
  <2>2. room \in [left -> Files] BY <1>1, <2>1 DEF Kept
  <2> QED BY <1>2, <2>2 DEF FilesOK
<1>4. Bounded(room) BY <1>2 DEF Bounded
<1>5. OfTheirBoot(room, boot)
  <2>1. \A n, i \in Nat : LineAt(room, n, i) =>
            LineAt(files, n, i) /\ EntryAt(room, n, i) = EntryAt(files, n, i)
    BY <1>2 DEF LineAt, EntryAt
  <2>2. \A n, i \in Nat : LineAt(room, n, i) => EntryAt(room, n, i).boot = room[n].boot
    <3> TAKE n, i \in Nat
    <3> HAVE LineAt(room, n, i)
    <3>1. n \in left BY <1>2 DEF LineAt
    <3>2. EntryAt(files, n, i).boot = files[n].boot BY <2>1 DEF OfTheirBoot
    <3> QED BY <1>2, <2>1, <3>1, <3>2
  <2>3. \A n \in DOMAIN room : room[n].boot <= boot BY <1>2 DEF OfTheirBoot
  <2> QED BY <2>2, <2>3 DEF OfTheirBoot
<1> QED BY <1>2, <1>3, <1>4, <1>5

-----------------------------------------------------------------------------
(* Opening one *)

NoLines(entries) == \A i \in DOMAIN entries : ~IsLine(entries[i])

\* The files, with one more, or in an empty one's place; it holds no line.
Adds(new, files, number, boot) ==
    /\ DOMAIN new = DOMAIN files \cup {number}
    /\ \A n \in DOMAIN files \ {number} : new[n] = files[n]
    /\ new[number].boot = boot
    /\ \A i \in Nat : ~LineAt(new, number, i)
    /\ FilesOK(new) /\ Bounded(new) /\ OfTheirBoot(new, boot)

\* A file without lines is added, or takes an empty one's place.
LEMMA OpenedFacts ==
    ASSUME NEW files, FilesOK(files), Bounded(files), NEW boot \in Nat, OfTheirBoot(files, boot),
           NEW number \in Nat, number \notin NonEmpty(files),
           NEW file \in Files, file.boot = boot, NoLines(file.entries)
    PROVE  Adds(Opened(files, number, file), files, number, boot)
<1> PICK new : new = Opened(files, number, file) OBVIOUS
<1>1. DOMAIN new = DOMAIN files \cup {number} BY DEF Opened
<1>2. \A n \in DOMAIN files \ {number} : new[n] = files[n] BY DEF Opened
<1>3. new[number] \in Files /\ new[number].entries = file.entries /\ new[number].boot = boot
  <2>1. CASE number \notin DOMAIN files
    <3>1. new[number] = file BY <2>1 DEF Opened
    <3> QED BY <3>1
  <2>2. CASE number \in DOMAIN files
    <3>1. files[number].entries = <<>> BY <2>2 DEF NonEmpty
    <3>2. new[number] = [file EXCEPT !.entries = files[number].entries \o file.entries]
      BY <2>2 DEF Opened
    <3>3. files[number].entries \o file.entries = file.entries BY <3>1, Heads, FileFacts
    <3> QED BY <3>2, <3>3, FileFacts
  <2> QED BY <2>1, <2>2
<1>4. \A i \in Nat : ~LineAt(new, number, i) BY <1>3 DEF LineAt, NoLines
<1>5. FilesOK(new)
  <2>1. \A n \in DOMAIN new : new[n] \in Files BY <1>1, <1>2, <1>3 DEF FilesOK
  <2>2. new = [n \in DOMAIN new |-> new[n]] BY DEF Opened
  <2>3. DOMAIN new \subseteq Nat BY <1>1 DEF FilesOK
  <2> QED BY <2>1, <2>2, <2>3 DEF FilesOK
<1>6. Bounded(new)
  <2>1. PICK top \in Nat : \A n \in DOMAIN files : n <= top BY DEF Bounded
  <2>2. \A n \in DOMAIN new : n <= top + number BY <1>1, <2>1 DEF FilesOK
  <2> QED BY <2>2 DEF Bounded
<1>7. OfTheirBoot(new, boot)
  <2>1. \A n \in DOMAIN new : new[n].boot <= boot BY <1>1, <1>2, <1>3 DEF OfTheirBoot
  <2>2. \A n, i \in Nat : LineAt(new, n, i) => EntryAt(new, n, i).boot = new[n].boot
    <3> TAKE n, i \in Nat
    <3> HAVE LineAt(new, n, i)
    <3>1. n \in DOMAIN files \ {number} BY <1>1, <1>4 DEF LineAt
    <3>2. LineAt(files, n, i) /\ EntryAt(new, n, i) = EntryAt(files, n, i)
      BY <1>2, <3>1 DEF LineAt, EntryAt
    <3> QED BY <1>2, <3>1, <3>2 DEF OfTheirBoot
  <2> QED BY <2>1, <2>2 DEF OfTheirBoot
<1> QED BY <1>1, <1>2, <1>3, <1>4, <1>5, <1>6, <1>7 DEF Adds

-----------------------------------------------------------------------------
(* Writing *)

\* A card with a file open, in that boot.
Open(c, boot) ==
    /\ IsCard(c) /\ FilesOK(c.files) /\ Bounded(c.files) /\ OfTheirBoot(c.files, boot)
    /\ Newer(c, boot)

\* Its lines were there before.
Keeps(c, d) ==
    \A n, i \in Nat :
        LineAt(d.files, n, i) =>
            LineAt(c.files, n, i) /\ EntryAt(d.files, n, i) = EntryAt(c.files, n, i)

\* Its line there was there before; or it comes after those, and is the k-th of
\* those entries.
WasThere(c, d, n, i, o) ==
    /\ LineAt(c.files, n, i) /\ EntryAt(d.files, n, i) = EntryAt(c.files, n, i)
    /\ n < d.open \/ (n = d.open /\ i <= o)

IsAdded(d, n, i, o, entries, k) ==
    n = d.open /\ i = o + k /\ EntryAt(d.files, n, i) = entries[k]

\* Its lines were there before, or come after them and are those entries, in order.
Grown(c, d, entries) ==
    \E o \in Nat : \A n, i \in Nat :
        LineAt(d.files, n, i) =>
            WasThere(c, d, n, i, o) \/ \E k \in DOMAIN entries : IsAdded(d, n, i, o, entries, k)

\* All those lines are there.
Gets(d, entries) ==
    \A k \in DOMAIN entries : IsLine(entries[k]) =>
        \E n, i \in Nat : LineAt(d.files, n, i) /\ EntryAt(d.files, n, i) = entries[k]

LEMMA RotatedFacts ==
    ASSUME NEW c, NEW boot \in Nat, Open(c, boot),
           NEW head \in {<<>>, <<Continued>>}, NEW d \in Rotated(c, head)
    PROVE  /\ Open(d, boot) /\ Keeps(c, d)
           /\ \A i \in Nat : ~LineAt(d.files, d.open, i)
           /\ d.whole => c.whole /\ Keeps(d, c)
           /\ d.whole \in BOOLEAN
<1> DEFINE full == c.files[c.open]
<1> DEFINE file == [full EXCEPT !.entries = head]
<1>1. /\ FilesOK(c.files) /\ Bounded(c.files) /\ OfTheirBoot(c.files, boot)
      /\ c.open \in DOMAIN c.files /\ c.open \in Nat /\ full \in Files /\ full.boot = boot
  BY DEF Open, Newer, FilesOK
<1>2. PICK files \in Started(c.files, c.open + 1, file) :
        d = [files |-> files, open |-> c.open + 1,
             whole |-> c.whole /\ DOMAIN c.files \subseteq DOMAIN files]
  BY DEF Rotated
<1>3. PICK room \in Rooms(c.files) : files = Opened(room, c.open + 1, file) BY DEF Started
<1>4. /\ DOMAIN room \subseteq DOMAIN c.files
      /\ \A n \in DOMAIN room : room[n] = c.files[n]
      /\ FilesOK(room) /\ Bounded(room) /\ OfTheirBoot(room, boot)
  BY <1>1, RoomIsPart, PartFacts
<1>5. head \in Seq(Entries) /\ NoLines(head)
  BY Heads, MarkerFacts DEF NoLines
<1>6. file \in Files /\ file.entries = head /\ file.boot = boot BY <1>1, <1>5, FileFacts
<1>7. \A n \in NonEmpty(c.files) : n <= c.open BY DEF Open, Newer
<1>8. c.open + 1 \in Nat /\ c.open + 1 \notin NonEmpty(room)
  BY <1>1, <1>4, <1>7 DEF NonEmpty
<1>9. /\ DOMAIN files = DOMAIN room \cup {c.open + 1}
      /\ \A n \in DOMAIN room \ {c.open + 1} : files[n] = room[n]
      /\ files[c.open + 1].boot = boot
      /\ \A i \in Nat : ~LineAt(files, c.open + 1, i)
      /\ FilesOK(files) /\ Bounded(files) /\ OfTheirBoot(files, boot)
  <2>0. PICK number \in Nat : number = c.open + 1 BY <1>8
  <2>1. NoLines(file.entries) BY <1>5, <1>6
  <2>2. file \in Files /\ file.boot = boot /\ number \notin NonEmpty(room) BY <1>6, <1>8, <2>0
  <2>3. files = Opened(room, number, file) BY <1>3, <2>0
  <2> HIDE DEF file
  <2>4. Adds(files, room, number, boot) BY <1>4, <2>1, <2>2, <2>3, OpenedFacts
  <2> QED BY <2>0, <2>4 DEF Adds
<1>10. d.files = files /\ d.open = c.open + 1 BY <1>2
<1>11. Newer(d, boot)
  <2>1. \A n \in NonEmpty(files) : n <= c.open + 1
    BY <1>1, <1>4, <1>7, <1>9 DEF NonEmpty, FilesOK
  <2> QED BY <1>9, <1>10, <2>1 DEF Newer
<1>12. Open(d, boot)
  <2>1. IsCard(d) BY <1>2 DEF IsCard
  <2> QED BY <1>9, <1>10, <1>11, <2>1 DEF Open
<1>13. Keeps(c, d)
  <2> SUFFICES ASSUME NEW n \in Nat, NEW i \in Nat, LineAt(files, n, i)
               PROVE  LineAt(c.files, n, i) /\ EntryAt(files, n, i) = EntryAt(c.files, n, i)
    BY <1>10 DEF Keeps
  <2>1. n \in DOMAIN room \ {c.open + 1} BY <1>9 DEF LineAt
  <2>2. n \in DOMAIN c.files /\ files[n] = c.files[n] BY <1>4, <1>9, <2>1
  <2> QED BY <2>2 DEF LineAt, EntryAt
<1>14. d.whole => c.whole /\ Keeps(d, c)
  <2> SUFFICES ASSUME d.whole PROVE c.whole /\ Keeps(d, c) OBVIOUS
  <2>1. c.whole /\ DOMAIN c.files \subseteq DOMAIN files BY <1>2
  <2>2. \A n \in DOMAIN c.files : n # c.open + 1 => files[n] = c.files[n]
    BY <1>4, <1>9, <2>1
  <2>3. \A n, i \in Nat : LineAt(c.files, n, i) =>
            LineAt(files, n, i) /\ EntryAt(c.files, n, i) = EntryAt(files, n, i)
    <3> TAKE n, i \in Nat
    <3> HAVE LineAt(c.files, n, i)
    <3>1. n \in NonEmpty(c.files)
      <4>1. n \in DOMAIN c.files /\ i \in DOMAIN c.files[n].entries BY DEF LineAt
      <4> QED BY <4>1, Heads DEF NonEmpty
    <3>2. n \in DOMAIN c.files /\ n # c.open + 1 BY <1>1, <1>7, <3>1 DEF NonEmpty
    <3>3. n \in DOMAIN files /\ files[n] = c.files[n] BY <2>1, <2>2, <3>2
    <3> QED BY <3>3 DEF LineAt, EntryAt
  <2>4. Keeps(d, c) BY <1>10, <2>3 DEF Keeps
  <2> QED BY <2>1, <2>4
<1>15. d.whole \in BOOLEAN BY <1>2
<1> QED BY <1>9, <1>10, <1>12, <1>13, <1>14, <1>15

Appended(c, entries) == [c EXCEPT !.files[c.open].entries = @ \o entries]

LEMMA AppendedFacts ==
    ASSUME NEW c, NEW boot \in Nat, Open(c, boot),
           NEW entries \in Seq(Entries), LinesOf(entries, boot)
    PROVE  LET d == Appended(c, entries)
           IN  /\ Open(d, boot) /\ Grown(c, d, entries)
               /\ Keeps(d, c) /\ Gets(d, entries) /\ d.whole = c.whole
<1> PICK d : d = Appended(c, entries) OBVIOUS
<1> DEFINE old == c.files[c.open].entries
<1>1. /\ FilesOK(c.files) /\ Bounded(c.files) /\ OfTheirBoot(c.files, boot)
      /\ c.open \in DOMAIN c.files /\ c.open \in Nat /\ c.files[c.open] \in Files
      /\ c.files[c.open].boot = boot
  BY DEF Open, Newer, FilesOK
<1>2. old \in Seq(Entries) /\ old \o entries \in Seq(Entries) BY <1>1, FileFacts
<1>3. d = [files |-> [c.files EXCEPT ![c.open] = [@ EXCEPT !.entries = old \o entries]],
           open |-> c.open, whole |-> c.whole]
  BY DEF Appended, Open, IsCard
<1>4. /\ d.open = c.open /\ d.whole = c.whole /\ DOMAIN d.files = DOMAIN c.files
      /\ \A n \in DOMAIN c.files : n # c.open => d.files[n] = c.files[n]
      /\ d.files[c.open] = [c.files[c.open] EXCEPT !.entries = old \o entries]
  BY <1>1, <1>3
<1>5. /\ d.files[c.open] \in Files /\ d.files[c.open].boot = boot
      /\ d.files[c.open].entries = old \o entries
  <2>1. PICK file \in Files : file = c.files[c.open] BY <1>1
  <2>2. PICK all \in Seq(Entries) : all = old \o entries BY <1>2
  <2>3. d.files[c.open] = [file EXCEPT !.entries = all] BY <1>4, <2>1, <2>2
  <2>4. /\ [file EXCEPT !.entries = all] \in Files
        /\ [file EXCEPT !.entries = all].entries = all
        /\ [file EXCEPT !.entries = all].boot = file.boot
    BY FileFacts
  <2> QED BY <1>1, <2>1, <2>2, <2>3, <2>4
<1>6. FilesOK(d.files)
  <2>1. \A n \in DOMAIN d.files : d.files[n] \in Files BY <1>1, <1>4, <1>5 DEF FilesOK
  <2>2. c.files = [n \in DOMAIN c.files |-> c.files[n]] BY <1>1 DEF FilesOK
  <2>3. PICK file : file = [c.files[c.open] EXCEPT !.entries = old \o entries] OBVIOUS
  <2>4. d.files = [c.files EXCEPT ![c.open] = file] BY <1>3, <2>3
  <2>5. d.files = [n \in DOMAIN d.files |-> d.files[n]] BY <2>2, <2>4
  <2> QED BY <1>1, <1>4, <2>1, <2>5 DEF FilesOK
<1>7. \A n \in DOMAIN c.files : d.files[n].boot = c.files[n].boot BY <1>1, <1>4, <1>5
<1>8. PICK o \in Nat : o = Len(old) BY <1>2
<1>9. \A i \in DOMAIN (old \o entries) :
        \/ i \in DOMAIN old /\ i <= o /\ (old \o entries)[i] = old[i]
        \/ \E k \in DOMAIN entries : i = o + k /\ (old \o entries)[i] = entries[k]
  <2> HIDE DEF old
  <2> TAKE i \in DOMAIN (old \o entries)
  <2>1. i \in 1..(o + Len(entries)) /\ Len(entries) \in Nat
    BY <1>2, <1>8, ConcatProperties, LenProperties
  <2>2. CASE i <= o BY <1>2, <1>8, <2>1, <2>2, ConcatProperties, LenProperties
  <2>3. CASE i > o
    <3>1. i - o \in DOMAIN entries BY <2>1, <2>3, LenProperties
    <3>2. (old \o entries)[i] = entries[i - o]
      BY <1>2, <1>8, <2>1, <2>3, ConcatProperties
    <3> QED BY <2>1, <3>1, <3>2
  <2> QED BY <2>1, <2>2, <2>3
<1>10. /\ \A i \in DOMAIN old : i \in DOMAIN (old \o entries) /\ (old \o entries)[i] = old[i]
       /\ \A k \in DOMAIN entries :
            o + k \in DOMAIN (old \o entries) /\ (old \o entries)[o + k] = entries[k]
  <2> HIDE DEF old
  <2>1. DOMAIN old = 1..o /\ DOMAIN entries = 1..Len(entries) /\ Len(entries) \in Nat
    BY <1>2, <1>8, LenProperties
  <2>2. DOMAIN (old \o entries) = 1..(o + Len(entries))
    BY <1>2, <1>8, ConcatProperties, LenProperties
  <2>3. \A i \in DOMAIN old : (old \o entries)[i] = old[i]
    BY <1>2, <1>8, <2>1, ConcatProperties
  <2>4. \A k \in DOMAIN entries : (old \o entries)[o + k] = entries[k]
    BY <1>2, <1>8, <2>1, ConcatProperties
  <2> QED BY <1>8, <2>1, <2>2, <2>3, <2>4
<1> HIDE DEF old
<1>11. Keeps(d, c)
  <2> SUFFICES ASSUME NEW n \in Nat, NEW i \in Nat, LineAt(c.files, n, i)
               PROVE  LineAt(d.files, n, i) /\ EntryAt(c.files, n, i) = EntryAt(d.files, n, i)
    BY DEF Keeps
  <2>1. CASE n # c.open
    <3>1. n \in DOMAIN d.files /\ d.files[n] = c.files[n] BY <1>4, <2>1 DEF LineAt
    <3> QED BY <3>1 DEF LineAt, EntryAt
  <2>2. CASE n = c.open
    <3>1. i \in DOMAIN old /\ IsLine(old[i]) BY <2>2 DEF LineAt, old
    <3>2. i \in DOMAIN (old \o entries) /\ (old \o entries)[i] = old[i] BY <1>10, <3>1
    <3> QED BY <1>1, <1>4, <1>5, <2>2, <3>1, <3>2 DEF LineAt, EntryAt, old
  <2> QED BY <2>1, <2>2
<1>12. \A n, i \in Nat :
        LineAt(d.files, n, i) =>
            \/ /\ LineAt(c.files, n, i) /\ EntryAt(d.files, n, i) = EntryAt(c.files, n, i)
               /\ n = c.open => i <= o
            \/ \E k \in DOMAIN entries :
                    n = c.open /\ i = o + k /\ EntryAt(d.files, n, i) = entries[k]
  <2> TAKE n, i \in Nat
  <2> HAVE LineAt(d.files, n, i)
  <2>1. CASE n # c.open
    <3>1. n \in DOMAIN c.files /\ d.files[n] = c.files[n] BY <1>4, <2>1 DEF LineAt
    <3> QED BY <2>1, <3>1 DEF LineAt, EntryAt
  <2>2. CASE n = c.open
    <3>1. i \in DOMAIN (old \o entries) /\ IsLine((old \o entries)[i])
          /\ EntryAt(d.files, n, i) = (old \o entries)[i]
      BY <1>5, <2>2 DEF LineAt, EntryAt
    <3>2. CASE i \in DOMAIN old /\ i <= o /\ (old \o entries)[i] = old[i]
      <4>1. LineAt(c.files, n, i) /\ EntryAt(c.files, n, i) = old[i]
        BY <1>1, <2>2, <3>1, <3>2 DEF LineAt, EntryAt, old
      <4> QED BY <3>1, <3>2, <4>1
    <3>3. CASE \E k \in DOMAIN entries : i = o + k /\ (old \o entries)[i] = entries[k]
      BY <2>2, <3>1, <3>3
    <3> QED BY <1>9, <3>1, <3>2, <3>3
  <2> QED BY <2>1, <2>2
<1>13. Grown(c, d, entries)
  <2>1. ASSUME NEW n \in Nat, NEW i \in Nat, LineAt(c.files, n, i)
        PROVE  n <= c.open
    <3>1. n \in DOMAIN c.files /\ c.files[n].entries # <<>> BY <2>1, Heads DEF LineAt
    <3> QED BY <3>1 DEF Open, Newer, NonEmpty
  <2>2. \A n, i \in Nat :
        LineAt(d.files, n, i) =>
            WasThere(c, d, n, i, o) \/ \E k \in DOMAIN entries : IsAdded(d, n, i, o, entries, k)
    BY <1>1, <1>4, <1>12, <2>1 DEF WasThere, IsAdded
  <2> QED BY <2>2 DEF Grown
<1>14. Gets(d, entries)
  <2> SUFFICES ASSUME NEW k \in DOMAIN entries, IsLine(entries[k])
               PROVE  \E n, i \in Nat : LineAt(d.files, n, i) /\ EntryAt(d.files, n, i) = entries[k]
    BY DEF Gets
  <2>1. k \in Nat /\ o + k \in Nat BY LenProperties
  <2>2. LineAt(d.files, c.open, o + k) /\ EntryAt(d.files, c.open, o + k) = entries[k]
    BY <1>1, <1>4, <1>5, <1>10 DEF LineAt, EntryAt
  <2> QED BY <1>1, <2>1, <2>2
<1>15. OfTheirBoot(d.files, boot)
  <2>1. \A n \in DOMAIN d.files : d.files[n].boot <= boot BY <1>1, <1>4, <1>7 DEF OfTheirBoot
  <2>2. \A n, i \in Nat : LineAt(d.files, n, i) => EntryAt(d.files, n, i).boot = d.files[n].boot
    <3> TAKE n, i \in Nat
    <3> HAVE LineAt(d.files, n, i)
    <3>1. n \in DOMAIN c.files BY <1>4 DEF LineAt
    <3>2. CASE LineAt(c.files, n, i) /\ EntryAt(d.files, n, i) = EntryAt(c.files, n, i)
      BY <1>1, <1>7, <3>1, <3>2 DEF OfTheirBoot
    <3>3. CASE \E k \in DOMAIN entries : n = c.open /\ EntryAt(d.files, n, i) = entries[k]
      <4>1. PICK k \in DOMAIN entries : n = c.open /\ EntryAt(d.files, n, i) = entries[k] BY <3>3
      <4>2. IsLine(entries[k]) BY <4>1 DEF LineAt, EntryAt
      <4> QED BY <1>5, <4>1, <4>2 DEF LinesOf
    <3> QED BY <1>12, <3>2, <3>3
  <2> QED BY <2>1, <2>2 DEF OfTheirBoot
<1>16. Open(d, boot)
  <2>1. IsCard(d) BY <1>3 DEF IsCard
  <2>2. Bounded(d.files) BY <1>1, <1>4 DEF Bounded
  <2>3. \A n \in NonEmpty(d.files) : n <= d.open
    BY <1>1, <1>4 DEF NonEmpty, Open, Newer
  <2>4. Newer(d, boot) BY <1>1, <1>4, <1>5, <2>3 DEF Newer
  <2> QED BY <1>6, <1>15, <2>1, <2>2, <2>4 DEF Open
<1> QED BY <1>4, <1>11, <1>13, <1>14, <1>16

LEMMA ThrownFacts ==
    ASSUME NEW c, NEW boot, Open(c, boot)
    PROVE  Open(Thrown(c), boot) /\ Thrown(c).files = c.files /\ Thrown(c).whole = FALSE
<1>1. \A whole : [c EXCEPT !.whole = whole]
                    = [files |-> c.files, open |-> c.open, whole |-> whole]
  BY DEF Open, IsCard
<1>2. Thrown(c) = [files |-> c.files, open |-> c.open, whole |-> FALSE]
  BY <1>1, Zenon DEF Thrown
<1>4. Thrown(c).files = c.files /\ Thrown(c).open = c.open /\ Thrown(c).whole = FALSE
  BY <1>2
<1>5. IsCard(Thrown(c)) BY <1>2 DEF IsCard
<1>6. Newer(Thrown(c), boot) BY <1>4 DEF Open, Newer
<1> QED BY <1>4, <1>5, <1>6 DEF Open

LEMMA FailedFacts ==
    ASSUME NEW c, NEW boot \in Nat, Open(c, boot), NEW d \in Failed(c)
    PROVE  Open(d, boot) /\ Keeps(c, d)
<1>1. CASE d = c BY <1>1 DEF Keeps
<1>2. CASE \E room \in Rooms(c.files) : c.open \in DOMAIN room /\ d = [c EXCEPT !.files = room]
  <2>1. PICK room \in Rooms(c.files) : c.open \in DOMAIN room /\ d = [c EXCEPT !.files = room]
    BY <1>2
  <2>2. /\ DOMAIN room \subseteq DOMAIN c.files
        /\ \A n \in DOMAIN room : room[n] = c.files[n]
        /\ FilesOK(room) /\ Bounded(room) /\ OfTheirBoot(room, boot)
    <3>1. FilesOK(c.files) /\ Bounded(c.files) /\ OfTheirBoot(c.files, boot) BY DEF Open
    <3> QED BY <3>1, RoomIsPart, PartFacts
  <2>3. d = [files |-> room, open |-> c.open, whole |-> c.whole] BY <2>1 DEF Open, IsCard
  <2>4. Newer(d, boot) BY <2>1, <2>2, <2>3 DEF Open, Newer, NonEmpty
  <2>5. Open(d, boot) BY <2>2, <2>3, <2>4 DEF Open, IsCard
  <2>6. Keeps(c, d) BY <2>2, <2>3 DEF Keeps, LineAt, EntryAt
  <2> QED BY <2>5, <2>6
<1>3. CASE d \in Rotated(c, <<>>) \cup Rotated(c, <<Continued>>) BY <1>3, RotatedFacts
<1>4. \/ d = c
      \/ \E room \in Rooms(c.files) : c.open \in DOMAIN room /\ d = [c EXCEPT !.files = room]
      \/ d \in Rotated(c, <<>>) \cup Rotated(c, <<Continued>>)
  BY DEF Failed
<1> QED BY <1>1, <1>2, <1>3, <1>4

LEMMA KeptIsGrown ==
    ASSUME NEW c, NEW d, NEW boot, Open(d, boot), Keeps(c, d),
           \A n \in NonEmpty(d.files) : n <= d.open, NEW entries
    PROVE  Grown(c, d, entries)
<1>1. d.open \in DOMAIN d.files /\ d.open \in Nat /\ d.files[d.open].entries \in Seq(Entries)
  BY FileFacts DEF Open, Newer, FilesOK
<1>2. PICK o \in Nat : o = Len(d.files[d.open].entries) BY <1>1
<1>3. ASSUME NEW n \in Nat, NEW i \in Nat, LineAt(d.files, n, i)
      PROVE  n < d.open \/ (n = d.open /\ i <= o)
  <2>1. n \in NonEmpty(d.files) BY <1>3, Heads DEF LineAt, NonEmpty
  <2>2. n = d.open => i \in 1..o BY <1>1, <1>2, <1>3, LenProperties DEF LineAt
  <2> QED BY <1>1, <2>1, <2>2
<1>4. \A n, i \in Nat : LineAt(d.files, n, i) => WasThere(c, d, n, i, o)
  BY <1>3 DEF Keeps, WasThere
<1> QED BY <1>4 DEF Grown

LEMMA KeptThenGrown ==
    ASSUME NEW c, NEW now, NEW d, NEW entries, Keeps(c, now), Grown(now, d, entries)
    PROVE  Grown(c, d, entries)
<1>1. PICK o \in Nat : \A n, i \in Nat :
        LineAt(d.files, n, i) =>
            WasThere(now, d, n, i, o) \/ \E k \in DOMAIN entries : IsAdded(d, n, i, o, entries, k)
  BY DEF Grown
<1>2. \A n, i \in Nat : WasThere(now, d, n, i, o) => WasThere(c, d, n, i, o)
  BY DEF Keeps, WasThere
<1> QED BY <1>1, <1>2 DEF Grown

LEMMA MarkerIsNoLine ==
    ASSUME NEW c, NEW d, NEW entries, NoLines(entries), Grown(c, d, entries)
    PROVE  Keeps(c, d)
BY DEF NoLines, Grown, WasThere, IsAdded, Keeps, LineAt, EntryAt

\* LogFile::write: what it leaves of the card.
LEMMA WritesFacts ==
    ASSUME NEW c, NEW boot \in Nat, Open(c, boot), c.whole \in BOOLEAN,
           NEW entries \in Seq(Entries), LinesOf(entries, boot), NEW d \in Writes(c, entries)
    PROVE  /\ Open(d, boot) /\ Grown(c, d, entries)
           /\ d.whole => c.whole /\ Keeps(d, c) /\ Gets(d, entries)
           /\ d.whole \in BOOLEAN
<1>1. CASE \E now \in Failed(c) : d = Thrown(now)
  <2>1. PICK now \in Failed(c) : d = Thrown(now) BY <1>1
  <2>2. Open(now, boot) /\ Keeps(c, now) BY FailedFacts
  <2>3. Open(d, boot) /\ d.files = now.files /\ d.whole = FALSE BY <2>1, <2>2, ThrownFacts
  <2>4. Keeps(c, d) BY <2>2, <2>3 DEF Keeps
  <2>5. Grown(c, d, entries) BY <2>3, <2>4, KeptIsGrown DEF Open, Newer
  <2> QED BY <2>3, <2>5
<1>2. CASE \E now \in Rotated(c, <<Continued>>) \cup {c} : d = Appended(now, entries)
  <2>1. PICK now \in Rotated(c, <<Continued>>) \cup {c} : d = Appended(now, entries) BY <1>2
  <2>2. /\ Open(now, boot) /\ Keeps(c, now)
        /\ now.whole => c.whole /\ Keeps(now, c)
        /\ now.whole \in BOOLEAN
    <3>1. CASE now = c BY <3>1 DEF Keeps
    <3>2. CASE now \in Rotated(c, <<Continued>>) BY <3>2, RotatedFacts
    <3> QED BY <3>1, <3>2
  <2>3. /\ Open(d, boot) /\ Grown(now, d, entries)
        /\ Keeps(d, now) /\ Gets(d, entries) /\ d.whole = now.whole
    BY <2>1, <2>2, AppendedFacts
  <2>4. Grown(c, d, entries) BY <2>2, <2>3, KeptThenGrown
  <2>5. d.whole => c.whole /\ Keeps(d, c) BY <2>2, <2>3 DEF Keeps
  <2> QED BY <2>2, <2>3, <2>4, <2>5
<1>3. \/ \E now \in Failed(c) : d = Thrown(now)
      \/ \E now \in Rotated(c, <<Continued>>) \cup {c} : d = Appended(now, entries)
  BY DEF Writes, Appended
<1> QED BY <1>1, <1>2, <1>3

-----------------------------------------------------------------------------
(* The card, whatever is done with it *)

Good(c, boot) ==
    /\ IsCard(c) /\ c.whole \in BOOLEAN
    /\ FilesOK(c.files) /\ Bounded(c.files) /\ OfTheirBoot(c.files, boot)
    /\ c.open \in DOMAIN c.files \cup {NIL}
    /\ c.open # NIL => Newer(c, boot)

\* It holds nothing new, and all it held unless history says so.
Lasts(c, d) == Keeps(c, d) /\ (d.whole => c.whole /\ Keeps(d, c))

LEMMA OpenIsGood ==
    ASSUME NEW c, NEW boot, Open(c, boot), c.whole \in BOOLEAN
    PROVE  Good(c, boot)
BY DEF Open, Good, Newer

LEMMA GoodIsOpen ==
    ASSUME NEW c, NEW boot, Good(c, boot), c.open # NIL
    PROVE  Open(c, boot)
BY DEF Open, Good

LEMMA ThrownIsGood ==
    ASSUME NEW c, NEW boot, Good(c, boot)
    PROVE  Good(Thrown(c), boot) /\ Lasts(c, Thrown(c)) /\ Thrown(c).whole = FALSE
<1>1. \A whole : [c EXCEPT !.whole = whole]
                    = [files |-> c.files, open |-> c.open, whole |-> whole]
  BY DEF Good, IsCard
<1>2. Thrown(c) = [files |-> c.files, open |-> c.open, whole |-> FALSE]
  BY <1>1, Zenon DEF Thrown
<1>3. Thrown(c).files = c.files /\ Thrown(c).open = c.open /\ Thrown(c).whole = FALSE
  BY <1>2
<1>4. IsCard(Thrown(c)) BY <1>2 DEF IsCard
<1>5. c.open # NIL => Newer(Thrown(c), boot) BY <1>3 DEF Good, Newer
<1>6. Good(Thrown(c), boot) BY <1>3, <1>4, <1>5 DEF Good
<1>7. Lasts(c, Thrown(c)) BY <1>3 DEF Lasts, Keeps
<1> QED BY <1>3, <1>6, <1>7

LEMMA ClosedIsGood ==
    ASSUME NEW c, NEW boot, Good(c, boot)
    PROVE  Good([c EXCEPT !.open = NIL], boot) /\ Lasts(c, [c EXCEPT !.open = NIL])
<1> PICK d : d = [c EXCEPT !.open = NIL] OBVIOUS
<1>1. d = [files |-> c.files, open |-> NIL, whole |-> c.whole] BY DEF Good, IsCard
<1>2. d.files = c.files /\ d.open = NIL /\ d.whole = c.whole BY <1>1
<1>3. IsCard(d) BY <1>1 DEF IsCard
<1>4. Good(d, boot) BY <1>2, <1>3 DEF Good
<1>5. Lasts(c, d) BY <1>2 DEF Lasts, Keeps
<1> QED BY <1>4, <1>5

\* An emptied card, or one some of whose files are gone.
LEMMA PartIsGood ==
    ASSUME NEW c, NEW boot, Good(c, boot), NEW files, PartOf(files, c.files)
    PROVE  Good([files |-> files, open |-> NIL, whole |-> FALSE], boot)
           /\ Keeps(c, [files |-> files, open |-> NIL, whole |-> FALSE])
<1> PICK d : d = [files |-> files, open |-> NIL, whole |-> FALSE] OBVIOUS
<1>1. d.files = files /\ d.open = NIL /\ d.whole = FALSE OBVIOUS
<1>2. FilesOK(c.files) /\ Bounded(c.files) /\ OfTheirBoot(c.files, boot) BY DEF Good
<1>3. /\ DOMAIN files \subseteq DOMAIN c.files
      /\ \A n \in DOMAIN files : files[n] = c.files[n]
      /\ FilesOK(files) /\ Bounded(files) /\ OfTheirBoot(files, boot)
  BY <1>2, PartFacts
<1>4. IsCard(d) BY DEF IsCard
<1>5. Good(d, boot) BY <1>1, <1>3, <1>4 DEF Good
<1>6. Keeps(c, d) BY <1>1, <1>3 DEF Keeps, LineAt, EntryAt
<1> QED BY <1>5, <1>6

\* With a fresh file, the only one.
LEMMA FreshIsGood ==
    ASSUME NEW boot \in Nat, NEW session \in Nat
    PROVE  LET d == [files |-> [number \in {1} |-> EmptyFile(boot, session)],
                     open  |-> 1, whole |-> FALSE]
           IN  Good(d, boot) /\ \A n, i \in Nat : ~LineAt(d.files, n, i)
<1> PICK files : files = [number \in {1} |-> EmptyFile(boot, session)] OBVIOUS
<1> PICK d : d = [files |-> files, open |-> 1, whole |-> FALSE] OBVIOUS
<1>1. d.files = files /\ d.open = 1 /\ d.whole = FALSE OBVIOUS
<1>2. /\ DOMAIN files = {1} /\ files[1] \in Files
      /\ files[1].entries = <<>> /\ files[1].boot = boot
  BY FileFacts
<1>3. FilesOK(files)
  <2>1. files = [number \in {1} |-> files[number]] OBVIOUS
  <2> QED BY <1>2, <2>1 DEF FilesOK
<1>4. \A n, i \in Nat : ~LineAt(files, n, i) BY <1>2, Heads DEF LineAt
<1>5. Bounded(files) BY <1>2 DEF Bounded
<1>6. OfTheirBoot(files, boot) BY <1>2, <1>4 DEF OfTheirBoot
<1>7. Newer(d, boot) BY <1>1, <1>2 DEF Newer, NonEmpty
<1>8. IsCard(d) BY DEF IsCard
<1>9. Good(d, boot) BY <1>1, <1>2, <1>3, <1>5, <1>6, <1>7, <1>8 DEF Good
<1> QED BY <1>1, <1>4, <1>9

LEMMA StartFileFacts ==
    ASSUME NEW boot \in Nat, NEW session \in Nat, boot = times.boot, session = times.session,
           Good(card, boot), StartFile
    PROVE  Good(card', boot) /\ Lasts(card, card')
<1> DEFINE kept == Kept(card.files, NonEmpty(card.files))
<1>1. FilesOK(card.files) /\ Bounded(card.files) /\ OfTheirBoot(card.files, boot)
      /\ card.whole \in BOOLEAN /\ IsCard(card)
  BY DEF Good
<1>2. NonEmpty(card.files) \in SUBSET DOMAIN card.files BY DEF NonEmpty
<1>3. ASSUME NEW left \in Left(card.files, NonEmpty(card.files)), NEW room \in Rooms(left)
      PROVE  /\ DOMAIN room \subseteq DOMAIN card.files
             /\ \A n \in DOMAIN room : room[n] = card.files[n]
             /\ FilesOK(room) /\ Bounded(room) /\ OfTheirBoot(room, boot)
  <2>1. PartOf(left, card.files) BY <1>2, LeftIsPart
  <2>2. /\ DOMAIN left \subseteq DOMAIN card.files
        /\ \A n \in DOMAIN left : left[n] = card.files[n]
        /\ FilesOK(left) /\ Bounded(left) /\ OfTheirBoot(left, boot)
    BY <1>1, <2>1, PartFacts
  <2>3. PartOf(room, left) BY RoomIsPart
  <2>4. /\ DOMAIN room \subseteq DOMAIN left
        /\ \A n \in DOMAIN room : room[n] = left[n]
        /\ FilesOK(room) /\ Bounded(room) /\ OfTheirBoot(room, boot)
    BY <2>2, <2>3, PartFacts
  <2> QED BY <2>2, <2>4
<1>4. CASE card.open # NIL /\ UNCHANGED card
  BY <1>4 DEF Lasts, Keeps
<1>5. CASE \E left \in Left(card.files, NonEmpty(card.files)) :
           \E started \in Started(left, Newest(kept) + 1, EmptyFile(times.boot, times.session)) :
                card' = [files |-> started, open |-> Newest(kept) + 1,
                         whole |-> card.whole /\ DOMAIN kept \subseteq DOMAIN started]
  <2> PICK left \in Left(card.files, NonEmpty(card.files)) :
           \E started \in Started(left, Newest(kept) + 1, EmptyFile(boot, session)) :
                card' = [files |-> started, open |-> Newest(kept) + 1,
                         whole |-> card.whole /\ DOMAIN kept \subseteq DOMAIN started]
    BY <1>5
  <2>1. PICK started \in Started(left, Newest(kept) + 1, EmptyFile(boot, session)) :
                card' = [files |-> started, open |-> Newest(kept) + 1,
                         whole |-> card.whole /\ DOMAIN kept \subseteq DOMAIN started]
    OBVIOUS
  <2>2. DOMAIN kept = NonEmpty(card.files) BY DEF Kept
  <2>3. FilesOK(kept) /\ Bounded(kept)
    <3>1. PartOf(kept, card.files) BY <1>2 DEF PartOf
    <3> HIDE DEF kept
    <3> QED BY <1>1, <3>1, PartFacts
  <2>4. PICK number \in Nat : number = Newest(kept) + 1 BY <2>3, NewestFacts
  <2>5. \A n \in NonEmpty(card.files) : n \in Nat /\ n < number
    <3> HIDE DEF kept
    <3>1. Newest(kept) \in Nat /\ \A n \in NonEmpty(card.files) : n <= Newest(kept)
      BY <2>2, <2>3, NewestFacts
    <3> QED BY <1>1, <1>2, <2>4, <3>1 DEF FilesOK
  <2>6. PICK room \in Rooms(left) : started = Opened(room, number, EmptyFile(boot, session))
    BY <2>4 DEF Started
  <2>7. /\ DOMAIN room \subseteq DOMAIN card.files
        /\ \A n \in DOMAIN room : room[n] = card.files[n]
        /\ FilesOK(room) /\ Bounded(room) /\ OfTheirBoot(room, boot)
    BY <1>3
  <2>8. number \notin NonEmpty(room) BY <2>5, <2>7 DEF NonEmpty
  <2>9. Adds(started, room, number, boot)
    <3>1. PICK file \in Files : file = EmptyFile(boot, session) /\ file.entries = <<>> /\ file.boot = boot
      BY FileFacts
    <3>2. NoLines(file.entries) BY <3>1 DEF NoLines
    <3>3. started = Opened(room, number, file) BY <2>6, <3>1
    <3>4. file.boot = boot BY <3>1
    <3> QED BY <2>7, <2>8, <3>2, <3>3, <3>4, OpenedFacts
  <2>10. /\ card'.files = started /\ card'.open = number
         /\ card'.whole \in BOOLEAN
         /\ card'.whole => card.whole /\ NonEmpty(card.files) \subseteq DOMAIN started
         /\ IsCard(card')
    BY <2>1, <2>2, <2>4 DEF IsCard
  <2>11. \A n \in DOMAIN started : n # number => n \in DOMAIN room /\ started[n] = card.files[n]
    BY <2>7, <2>9 DEF Adds
  <2>12. Newer(card', boot)
    <3>1. number \in DOMAIN started /\ started[number].boot = boot BY <2>9 DEF Adds
    <3>2. ASSUME NEW n \in NonEmpty(started) PROVE n <= number
      <4>1. CASE n = number BY <4>1
      <4>2. CASE n # number
        <5>1. n \in NonEmpty(card.files) BY <2>7, <2>11, <4>2 DEF NonEmpty
        <5> QED BY <2>5, <5>1
      <4> QED BY <4>1, <4>2
    <3> QED BY <2>10, <3>1, <3>2 DEF Newer
  <2>13. Good(card', boot)
    <3>1. FilesOK(started) /\ Bounded(started) /\ OfTheirBoot(started, boot)
          /\ number \in DOMAIN started
      BY <2>9 DEF Adds
    <3> QED BY <2>10, <2>12, <3>1 DEF Good
  <2>14. Keeps(card, card')
    <3> SUFFICES ASSUME NEW n \in Nat, NEW i \in Nat, LineAt(started, n, i)
                 PROVE  LineAt(card.files, n, i) /\ EntryAt(started, n, i) = EntryAt(card.files, n, i)
      BY <2>10 DEF Keeps
    <3>1. n # number /\ n \in DOMAIN started BY <2>9 DEF Adds, LineAt
    <3>2. n \in DOMAIN card.files /\ started[n] = card.files[n] BY <2>7, <2>11, <3>1
    <3> QED BY <3>2 DEF LineAt, EntryAt
  <2>15. card'.whole => card.whole /\ Keeps(card', card)
    <3> SUFFICES ASSUME card.whole, NonEmpty(card.files) \subseteq DOMAIN started,
                        NEW n \in Nat, NEW i \in Nat, LineAt(card.files, n, i)
                 PROVE  LineAt(started, n, i) /\ EntryAt(card.files, n, i) = EntryAt(started, n, i)
      BY <2>10 DEF Keeps
    <3>1. n \in NonEmpty(card.files) BY Heads DEF LineAt, NonEmpty
    <3>2. n \in DOMAIN started /\ n # number BY <2>5, <3>1
    <3>3. started[n] = card.files[n] BY <2>11, <3>2
    <3> QED BY <3>2, <3>3 DEF LineAt, EntryAt
  <2> QED BY <2>13, <2>14, <2>15 DEF Lasts
<1>6. CASE /\ card.open = NIL
           /\ \E files \in {card.files}
                        \cup UNION {Rooms(left) : left \in Left(card.files, NonEmpty(card.files))} :
                card' = [card EXCEPT !.files = files,
                                     !.whole = @ /\ NonEmpty(card.files) \subseteq DOMAIN files]
  <2>1. PICK files \in {card.files}
                        \cup UNION {Rooms(left) : left \in Left(card.files, NonEmpty(card.files))} :
                card' = [card EXCEPT !.files = files,
                                     !.whole = @ /\ NonEmpty(card.files) \subseteq DOMAIN files]
    BY <1>6
  <2>2. /\ DOMAIN files \subseteq DOMAIN card.files
        /\ \A n \in DOMAIN files : files[n] = card.files[n]
        /\ FilesOK(files) /\ Bounded(files) /\ OfTheirBoot(files, boot)
    <3>1. CASE files = card.files BY <1>1, <3>1
    <3>2. CASE \E left \in Left(card.files, NonEmpty(card.files)) : files \in Rooms(left)
      BY <1>3, <3>2
    <3> QED BY <3>1, <3>2
  <2>3. \A whole : [card EXCEPT !.files = files, !.whole = whole]
                    = [files |-> files, open |-> card.open, whole |-> whole]
    <3>1. PICK part : part = [card EXCEPT !.files = files] OBVIOUS
    <3>2. part = [files |-> files, open |-> card.open, whole |-> card.whole]
      BY <1>1, <3>1 DEF IsCard
    <3>3. \A whole : [part EXCEPT !.whole = whole]
                    = [files |-> files, open |-> card.open, whole |-> whole]
      BY <3>2
    <3>4. \A whole : [card EXCEPT !.files = files, !.whole = whole] = [part EXCEPT !.whole = whole]
      BY <3>1
    <3> QED BY <3>3, <3>4, Zenon
  <2>4. card' = [files |-> files, open |-> card.open,
                 whole |-> card.whole /\ NonEmpty(card.files) \subseteq DOMAIN files]
    BY <2>1, <2>3, Zenon
  <2>5. /\ card'.files = files /\ card'.open = NIL /\ card'.whole \in BOOLEAN
        /\ card'.whole => card.whole /\ NonEmpty(card.files) \subseteq DOMAIN files
        /\ IsCard(card')
    BY <1>6, <2>4 DEF IsCard
  <2>6. Good(card', boot) BY <2>2, <2>5 DEF Good
  <2>7. Keeps(card, card') BY <2>2, <2>5 DEF Keeps, LineAt, EntryAt
  <2>8. card'.whole => card.whole /\ Keeps(card', card)
    <3> SUFFICES ASSUME card.whole, NonEmpty(card.files) \subseteq DOMAIN files,
                        NEW n \in Nat, NEW i \in Nat, LineAt(card.files, n, i)
                 PROVE  LineAt(files, n, i) /\ EntryAt(card.files, n, i) = EntryAt(files, n, i)
      BY <2>5 DEF Keeps
    <3>1. n \in NonEmpty(card.files) BY Heads DEF LineAt, NonEmpty
    <3> QED BY <2>2, <3>1 DEF LineAt, EntryAt
  <2> QED BY <2>6, <2>7, <2>8 DEF Lasts
<1> QED BY <1>4, <1>5, <1>6 DEF StartFile

-----------------------------------------------------------------------------
(* flush_chunk, under the file's lock *)

StepsOK ==
    /\ flusher \in [Flushers -> Steps]
    /\ \A who \in Flushers : LinesOf(flusher[who].chunk, times.boot)

LEMMA StepFacts ==
    \A step \in Steps : /\ step.chunk \in Seq(Lines) /\ step.chunk \in Seq(Entries)
                        /\ step.dropped \in Nat
<1>1. \A lines \in Seq(Lines) : lines \in Seq(Entries) BY LineFacts, SeqMonotonic
<1> QED BY <1>1 DEF Steps

LEMMA WriteChunkFacts ==
    ASSUME NEW boot \in Nat, boot = times.boot, Good(card, boot), StepsOK,
           NEW who \in Flushers, WriteChunk(who)
    PROVE  LET chunk == flusher[who].chunk
           IN  /\ Good(card', boot)
               /\ Keeps(card, card') \/ Grown(card, card', chunk)
               /\ card'.whole => card.whole /\ Keeps(card', card) /\ Gets(card', chunk)
<1> DEFINE step == flusher[who]
<1> DEFINE marker == <<Dropped(step.dropped)>>
<1> DEFINE Marked == IF step.dropped = 0 THEN {card} ELSE Writes(card, marker)
<1>1. step.chunk \in Seq(Entries) /\ step.dropped \in Nat /\ LinesOf(step.chunk, boot)
  BY StepFacts DEF StepsOK
<1>2. marker \in Seq(Entries) /\ NoLines(marker) /\ LinesOf(marker, boot)
  BY <1>1, MarkerFacts DEF NoLines, LinesOf
<1>3. CASE card.open # NIL
  <2>1. PICK marked \in Marked : card' \in Writes(marked, step.chunk)
    BY <1>3 DEF WriteChunk
  <2>2. Open(card, boot) /\ card.whole \in BOOLEAN BY <1>3, GoodIsOpen DEF Good
  <2>3. /\ Open(marked, boot) /\ Keeps(card, marked) /\ marked.whole \in BOOLEAN
        /\ marked.whole => card.whole /\ Keeps(marked, card)
    <3>1. CASE marked = card BY <2>2, <3>1 DEF Keeps
    <3>2. CASE marked \in Writes(card, marker)
      <4> HIDE DEF marker
      <4>1. /\ Open(marked, boot) /\ Grown(card, marked, marker) /\ marked.whole \in BOOLEAN
            /\ marked.whole => card.whole /\ Keeps(marked, card)
        BY <1>2, <2>2, <3>2, WritesFacts
      <4> QED BY <1>2, <4>1, MarkerIsNoLine
    <3> QED BY <3>1, <3>2
  <2> HIDE DEF Marked, marker
  <2>4. /\ Open(card', boot) /\ Grown(marked, card', step.chunk) /\ card'.whole \in BOOLEAN
        /\ card'.whole => marked.whole /\ Keeps(card', marked) /\ Gets(card', step.chunk)
    <3> HIDE DEF step
    <3> QED BY <1>1, <2>1, <2>3, WritesFacts
  <2>5. Grown(card, card', step.chunk) BY <2>3, <2>4, KeptThenGrown
  <2>6. card'.whole => card.whole /\ Keeps(card', card) BY <2>3, <2>4 DEF Keeps
  <2> QED BY <2>4, <2>5, <2>6, OpenIsGood
<1>4. CASE card.open = NIL
  <2>1. card' = Thrown(card) BY <1>4 DEF WriteChunk
  <2> QED BY <2>1, ThrownIsGood DEF Lasts
<1> QED BY <1>3, <1>4
-----------------------------------------------------------------------------
(* Taking a chunk *)

LEMMA MinOfTwo ==
    ASSUME NEW m \in Nat, NEW n \in Nat
    PROVE  Min({m, n}) \in {m, n} /\ Min({m, n}) <= m /\ Min({m, n}) <= n
<1>1. \E x \in {m, n} : \A y \in {m, n} : x =< y BY m <= n \/ n <= m
<1> QED BY <1>1 DEF Min

Spans(m, n, size) == 1 <= m /\ size = n - m + 1

LEMMA PartOfLines ==
    ASSUME NEW lines \in Seq(Lines), NEW m \in Nat, NEW n \in Nat, NEW size \in Nat,
           Spans(m, n, size), n <= Len(lines)
    PROVE  LET part == SubSeq(lines, m, n)
           IN  /\ part \in Seq(Lines) /\ Len(part) = size /\ DOMAIN part = 1..size
               /\ \A i \in 1..size : part[i] = lines[m + i - 1]
<1> PICK part : part = SubSeq(lines, m, n) OBVIOUS
<1>1. \A i \in m..n : lines[i] \in Lines BY ElementOfSeq DEF Spans
<1>2. part = [i \in 1..size |-> lines[m + i - 1]] BY DEF Spans
<1>3. \A i \in 1..size : m + i - 1 \in m..n BY DEF Spans
<1>4. part \in [1..size -> Lines] BY <1>1, <1>2, <1>3
<1>5. part \in Seq(Lines) BY <1>1, SubSeqProperties
<1>6. Len(part) = size /\ DOMAIN part = 1..size BY <1>4, <1>5, LenProperties
<1> QED BY <1>2, <1>5, <1>6

\* The chunk is the first of the lines, the rest comes after it, and none is lost.
LEMMA ChunkFacts ==
    ASSUME NEW lines \in Seq(Lines)
    PROVE  LET chunk == ChunkOf(lines)
               rest  == AfterChunk(lines)
           IN  /\ chunk \in Seq(Lines) /\ Len(chunk) <= ChunkLines
               /\ rest \in Seq(Lines) /\ Len(rest) <= Len(lines)
               /\ \E k \in Nat :
                    /\ \A i \in DOMAIN chunk : i \in DOMAIN lines /\ i <= k /\ chunk[i] = lines[i]
                    /\ \A i \in DOMAIN rest : k + i \in DOMAIN lines /\ rest[i] = lines[k + i]
                    /\ \A i \in DOMAIN lines : i \in DOMAIN chunk \/ i - k \in DOMAIN rest
<1> PICK chunk : chunk = ChunkOf(lines) OBVIOUS
<1> PICK rest : rest = AfterChunk(lines) OBVIOUS
<1>1. PICK len \in Nat : len = Len(lines) /\ DOMAIN lines = 1..len BY LenProperties
<1>2. PICK k \in Nat : k = Min({len, ChunkLines}) /\ k <= len /\ k <= ChunkLines
  BY MinOfTwo, LoggerAssumption
<1>3. chunk = SubSeq(lines, 1, k) BY <1>1, <1>2 DEF ChunkOf
<1>4. /\ chunk \in Seq(Lines) /\ Len(chunk) = k /\ DOMAIN chunk = 1..k
      /\ \A i \in 1..k : chunk[i] = lines[i]
  <2>1. /\ chunk \in Seq(Lines) /\ Len(chunk) = k /\ DOMAIN chunk = 1..k
        /\ \A i \in 1..k : chunk[i] = lines[1 + i - 1]
    <3>1. PICK one \in Nat : one = 1 OBVIOUS
    <3>2. chunk = SubSeq(lines, one, k) /\ Spans(one, k, k) /\ k <= Len(lines)
      BY <1>1, <1>2, <1>3, <3>1 DEF Spans
    <3>3. /\ chunk \in Seq(Lines) /\ Len(chunk) = k /\ DOMAIN chunk = 1..k
          /\ \A i \in 1..k : chunk[i] = lines[one + i - 1]
      BY <3>2, PartOfLines
    <3> QED BY <3>1, <3>3
  <2> QED BY <2>1
<1>5. PICK m \in Nat : m = k + 1 OBVIOUS
<1>6. /\ rest \in Seq(Lines) /\ Len(rest) = len - k /\ DOMAIN rest = 1..(len - k)
      /\ \A i \in 1..(len - k) : rest[i] = lines[k + i]
  <2>1. rest = SubSeq(lines, m, len) BY <1>1, <1>3, <1>4, <1>5 DEF AfterChunk
  <2>2. PICK size \in Nat : Spans(m, len, size) BY <1>2, <1>5 DEF Spans
  <2>3. /\ rest \in Seq(Lines) /\ Len(rest) = size /\ DOMAIN rest = 1..size
        /\ \A i \in 1..size : rest[i] = lines[m + i - 1]
    BY <1>1, <1>5, <2>1, <2>2, PartOfLines
  <2>4. size = len - k /\ \A i \in 1..size : m + i - 1 = k + i BY <1>5, <2>2 DEF Spans
  <2> QED BY <2>3, <2>4
<1>7. Len(chunk) <= ChunkLines /\ Len(rest) <= Len(lines)
  BY <1>1, <1>2, <1>4, <1>6, LoggerAssumption
<1>8. /\ \A i \in DOMAIN chunk : i \in DOMAIN lines /\ i <= k /\ chunk[i] = lines[i]
      /\ \A i \in DOMAIN rest : k + i \in DOMAIN lines /\ rest[i] = lines[k + i]
      /\ \A i \in DOMAIN lines : i \in DOMAIN chunk \/ i - k \in DOMAIN rest
  <2>1. \A i \in 1..k : i \in 1..len /\ i <= k BY <1>2
  <2>2. \A i \in 1..(len - k) : k + i \in 1..len BY <1>2
  <2>3. \A i \in 1..len : i \in 1..k \/ i - k \in 1..(len - k) BY <1>2
  <2> QED BY <1>1, <1>4, <1>6, <2>1, <2>2, <2>3
<1> QED BY <1>4, <1>6, <1>7, <1>8

-----------------------------------------------------------------------------
(* The types, and the boot of all lines *)

RingOK ==
    /\ ring \in Seq(Lines) /\ Len(ring) <= RingLines /\ dropped \in Nat
    /\ LinesOf(ring, times.boot)

\* A thread's line is the last it has counted.
LoggingOK ==
    /\ logging \in [Threads -> Lines \cup {NIL}] /\ logged \in [Threads -> Nat]
    /\ \A thread \in Threads : logging[thread] # NIL =>
            /\ logging[thread].by = thread /\ logging[thread].n = logged[thread]
            /\ logging[thread].boot = times.boot

\* A flusher only has lines in hand while it writes them.
HandsOK ==
    /\ \A who \in Flushers : Len(flusher[who].chunk) <= ChunkLines
    /\ \A who \in Flushers : flusher[who].at # "Writing" => flusher[who].chunk = <<>>

RestOK ==
    /\ keeping \in BOOLEAN /\ running \in BOOLEAN
    /\ switch \in [on : BOOLEAN, stopping : {"No", "Closing", "Discarding"}]
    /\ times \in [boot : Nat, session : Nat, lines : Nat]
    /\ asked \subseteq Lines

LogOK == RingOK /\ LoggingOK /\ StepsOK /\ HandsOK /\ RestOK /\ Good(card, times.boot)

LEMMA LogOKInit == Init => LogOK
<1> SUFFICES ASSUME Init PROVE LogOK OBVIOUS
<1>1. times \in [boot : Nat, session : Nat, lines : Nat] /\ times.boot = 1 BY DEF Init
<1>2. RingOK BY EmptySeq, LoggerAssumption DEF Init, RingOK, LinesOf
<1>3. LoggingOK BY DEF Init, LoggingOK
<1>4. Resting \in Steps /\ Resting.chunk = <<>> BY EmptySeq DEF Resting, Steps
<1>5. flusher \in [Flushers -> Steps] /\ \A who \in Flushers : flusher[who].chunk = <<>>
  BY <1>4 DEF Init
<1>6. StepsOK BY <1>5, Heads DEF StepsOK, LinesOf
<1>7. HandsOK BY <1>5, LoggerAssumption DEF HandsOK
<1>8. RestOK BY <1>1 DEF Init, RestOK
<1>9. Good(card, times.boot)
  <2> PICK files : files = [number \in {} |-> <<>>] OBVIOUS
  <2>1. card = [files |-> files, open |-> NIL, whole |-> TRUE] BY DEF Init
  <2>2. card.files = files /\ card.open = NIL /\ card.whole = TRUE BY <2>1
  <2>3. DOMAIN files = {} OBVIOUS
  <2>4. IsCard(card) BY <2>1 DEF IsCard
  <2>5. FilesOK(files) BY <2>3 DEF FilesOK
  <2>6. Bounded(files) /\ OfTheirBoot(files, times.boot)
    BY <2>3 DEF Bounded, OfTheirBoot, LineAt
  <2> QED BY <2>2, <2>4, <2>5, <2>6 DEF Good
<1> QED BY <1>2, <1>3, <1>6, <1>7, <1>8, <1>9 DEF LogOK

LEMMA NoLinesAtAll ==
    /\ <<>> \in Seq(Lines) /\ Len(<<>>) = 0 /\ ToSet(<<>>) = {}
    /\ \A boot : LinesOf(<<>>, boot)
BY EmptySeq, Heads DEF LinesOf, ToSet

LEMMA RestingFacts ==
    \A at \in {"Resting", "Flushing", "Flushed"} :
        LET step == [Resting EXCEPT !.at = at]
        IN  step \in Steps /\ step.at = at /\ step.chunk = <<>>
BY NoLinesAtAll DEF Resting, Steps

\* A flusher's step: the other's is as it was.
LEMMA FlushesFacts ==
    ASSUME StepsOK, HandsOK, times'.boot = times.boot, NEW who \in Flushers,
           NEW step \in Steps, Flushes(who, step), LinesOf(step.chunk, times.boot),
           Len(step.chunk) <= ChunkLines, step.at # "Writing" => step.chunk = <<>>
    PROVE  StepsOK' /\ HandsOK'
<1>1. flusher' \in [Flushers -> Steps] BY DEF Flushes, StepsOK
<1>2. \A other \in Flushers : flusher'[other] = IF other = who THEN step ELSE flusher[other]
  BY DEF Flushes, StepsOK
<1>3. StepsOK' BY <1>1, <1>2 DEF StepsOK
<1>4. HandsOK' BY <1>2 DEF HandsOK
<1> QED BY <1>3, <1>4

LEMMA EmptyHanded ==
    ASSUME StepsOK, HandsOK, times'.boot = times.boot, NEW who \in Flushers,
           NEW at \in {"Resting", "Flushing", "Flushed"},
           Flushes(who, [Resting EXCEPT !.at = at])
    PROVE  StepsOK' /\ HandsOK'
<1> PICK step \in Steps : step = [Resting EXCEPT !.at = at] /\ step.chunk = <<>>
  BY RestingFacts
<1>1. Flushes(who, step) OBVIOUS
<1>2. LinesOf(step.chunk, times.boot) BY NoLinesAtAll
<1>3. Len(step.chunk) <= ChunkLines BY NoLinesAtAll, LoggerAssumption
<1> QED BY <1>1, <1>2, <1>3, FlushesFacts

LEMMA DiscardFacts ==
    ASSUME DiscardPending PROVE RingOK'
BY NoLinesAtAll, LoggerAssumption DEF DiscardPending, RingOK

LEMMA TimesFacts ==
    ASSUME times \in [boot : Nat, session : Nat, lines : Nat]
    PROVE  /\ times.boot \in Nat /\ times.session \in Nat
           /\ \A x \in Nat : LET new == [times EXCEPT !.session = x]
                             IN  new \in [boot : Nat, session : Nat, lines : Nat]
                                 /\ new.boot = times.boot
           /\ \A x \in Nat : LET new == [times EXCEPT !.lines = x]
                             IN  new \in [boot : Nat, session : Nat, lines : Nat]
                                 /\ new.boot = times.boot
           /\ \A x \in Nat : LET new == [times EXCEPT !.boot = x]
                             IN  new \in [boot : Nat, session : Nat, lines : Nat]
                                 /\ new.boot = x
OBVIOUS

\* A line checked is the thread's next, in this boot.
LEMMA CheckKeepingOK ==
    ASSUME LogOK, NEW thread \in Threads, CheckKeeping(thread)
    PROVE  LogOK' /\ times'.boot = times.boot
<1>1. times \in [boot : Nat, session : Nat, lines : Nat] BY DEF LogOK, RestOK
<1>2. times' \in [boot : Nat, session : Nat, lines : Nat] /\ times'.boot = times.boot
  <2>1. times.lines + 1 \in Nat BY <1>1
  <2>2. times' = [times EXCEPT !.lines = times.lines + 1] BY DEF CheckKeeping
  <2> QED BY <1>1, <2>1, <2>2, TimesFacts
<1>3. LoggingOK'
  <2> PICK line : line = Line(thread, logged[thread] + 1) OBVIOUS
  <2>1. /\ logging \in [Threads -> Lines \cup {NIL}] /\ logged \in [Threads -> Nat]
        /\ logged[thread] \in Nat
    BY DEF LogOK, LoggingOK
  <2>2. line \in Lines /\ line.by = thread /\ line.n = logged[thread] + 1 /\ line.boot = times.boot
    BY <1>1, <2>1 DEF Line, Lines
  <2>3. logging' = [logging EXCEPT ![thread] = line] BY DEF CheckKeeping
  <2>4. logged' = [logged EXCEPT ![thread] = logged[thread] + 1] BY DEF CheckKeeping
  <2>5. logging' \in [Threads -> Lines \cup {NIL}] BY <2>1, <2>2, <2>3
  <2>6. logged' \in [Threads -> Nat] BY <2>1, <2>4
  <2>7. ASSUME NEW t \in Threads, logging'[t] # NIL
        PROVE  logging'[t].by = t /\ logging'[t].n = logged'[t] /\ logging'[t].boot = times'.boot
    <3>1. CASE t = thread BY <1>2, <2>1, <2>2, <2>3, <2>4, <3>1
    <3>2. CASE t # thread
      <4>1. logging'[t] = logging[t] /\ logged'[t] = logged[t] BY <2>1, <2>3, <2>4, <3>2
      <4> QED BY <1>2, <2>7, <4>1 DEF LogOK, LoggingOK
    <3> QED BY <3>1, <3>2
  <2> QED BY <2>5, <2>6, <2>7 DEF LoggingOK
<1>4. RingOK' /\ StepsOK' /\ HandsOK' /\ Good(card', times'.boot)
  BY <1>2 DEF LogOK, CheckKeeping, RingOK, StepsOK, HandsOK
<1>5. RestOK' BY <1>2 DEF LogOK, RestOK, CheckKeeping
<1> QED BY <1>2, <1>3, <1>4, <1>5 DEF LogOK

LEMMA PushOK ==
    ASSUME LogOK, NEW thread \in Threads, Push(thread)
    PROVE  LogOK' /\ times'.boot = times.boot
<1>1. times' = times /\ logged' = logged BY DEF Push
<1>2. /\ logging \in [Threads -> Lines \cup {NIL}] /\ logging[thread] \in Lines
      /\ logging[thread].boot = times.boot
  BY DEF Push, LogOK, LoggingOK
<1>3. RingOK'
  <2> PICK line \in Lines : line = logging[thread] /\ line.boot = times.boot BY <1>2
  <2>1. CASE Len(ring) < RingLines /\ ring' = Append(ring, line) /\ UNCHANGED dropped
    <3>1. ring \in Seq(Lines) /\ dropped \in Nat /\ LinesOf(ring, times.boot)
      BY DEF LogOK, RingOK
    <3>2. PICK len \in Nat : len = Len(ring) /\ DOMAIN ring = 1..len BY <3>1, LenProperties
    <3>3. /\ ring' \in Seq(Lines) /\ Len(ring') = len + 1
          /\ \A i \in 1..len : ring'[i] = ring[i]
          /\ ring'[len + 1] = line
      BY <2>1, <3>1, <3>2, AppendProperties
    <3>4. DOMAIN ring' = 1..(len + 1) BY <3>3, LenProperties
    <3>5. LinesOf(ring', times.boot)
      <4>1. \A i \in 1..(len + 1) : i \in 1..len \/ i = len + 1 OBVIOUS
      <4>2. \A i \in 1..len : IsLine(ring'[i]) => ring'[i].boot = times.boot
        BY <3>1, <3>2, <3>3 DEF LinesOf
      <4>3. ring'[len + 1].boot = times.boot BY <3>3
      <4> QED BY <3>4, <4>1, <4>2, <4>3 DEF LinesOf
    <3>6. len + 1 <= RingLines BY <2>1, <3>2, LoggerAssumption
    <3>7. Len(ring') <= RingLines BY <3>3, <3>6
    <3>8. dropped' \in Nat BY <2>1, <3>1
    <3> QED BY <1>1, <3>3, <3>5, <3>7, <3>8 DEF RingOK
  <2>2. CASE dropped' = dropped + 1 /\ UNCHANGED ring
    BY <1>1, <2>2 DEF LogOK, RingOK
  <2> QED BY <2>1, <2>2 DEF Push, Room
<1>4. LoggingOK'
  <2>1. logging' = [logging EXCEPT ![thread] = NIL] BY DEF Push
  <2>2. logging' \in [Threads -> Lines \cup {NIL}] BY <1>2, <2>1
  <2>3. \A t \in Threads : logging'[t] # NIL => logging'[t] = logging[t] BY <1>2, <2>1
  <2> QED BY <1>1, <2>2, <2>3 DEF LogOK, LoggingOK
<1>5. StepsOK' /\ HandsOK' /\ RestOK' /\ Good(card', times'.boot)
  BY <1>1 DEF LogOK, StepsOK, HandsOK, RestOK, Push
<1> QED BY <1>1, <1>3, <1>4, <1>5 DEF LogOK

LEMMA FindPendingOK ==
    ASSUME LogOK, FindPending
    PROVE  LogOK' /\ times'.boot = times.boot
<1>1. times' = times BY DEF FindPending
<1>2. StepsOK' /\ HandsOK'
  <2> Writer \in Flushers BY DEF Flushers
  <2> QED BY <1>1, EmptyHanded DEF FindPending, LogOK
<1>3. RingOK' /\ LoggingOK' /\ RestOK' /\ Good(card', times'.boot)
  BY <1>1 DEF FindPending, LogOK, RingOK, LoggingOK, RestOK
<1> QED BY <1>1, <1>2, <1>3 DEF LogOK

LEMMA TakeChunkOK ==
    ASSUME LogOK, NEW who \in Flushers, TakeChunk(who)
    PROVE  LogOK' /\ times'.boot = times.boot
<1>1. times' = times BY DEF TakeChunk
<1>2. ring \in Seq(Lines) /\ LinesOf(ring, times.boot) /\ dropped \in Nat /\ Len(ring) <= RingLines
  BY DEF LogOK, RingOK
<1> PICK chunk : chunk = ChunkOf(ring) OBVIOUS
<1> PICK rest : rest = AfterChunk(ring) OBVIOUS
<1>3. /\ chunk \in Seq(Lines) /\ Len(chunk) <= ChunkLines
      /\ rest \in Seq(Lines) /\ Len(rest) <= Len(ring)
      /\ \E k \in Nat :
            /\ \A i \in DOMAIN chunk : i \in DOMAIN ring /\ chunk[i] = ring[i]
            /\ \A i \in DOMAIN rest : k + i \in DOMAIN ring /\ rest[i] = ring[k + i]
  BY <1>2, ChunkFacts
<1>4. LinesOf(chunk, times.boot) /\ LinesOf(rest, times.boot) BY <1>2, <1>3 DEF LinesOf
<1>5. StepsOK' /\ HandsOK'
  <2> DEFINE step == [at |-> "Writing", chunk |-> chunk, dropped |-> dropped, more |-> rest # <<>>]
  <2>1. step \in Steps /\ step.chunk = chunk /\ step.at = "Writing" BY <1>2, <1>3 DEF Steps
  <2>2. Flushes(who, step) BY DEF TakeChunk
  <2> HIDE DEF step
  <2> QED BY <1>1, <1>3, <1>4, <2>1, <2>2, FlushesFacts DEF LogOK
<1>6. RingOK'
  <2>1. ring' = rest /\ dropped' = 0 BY DEF TakeChunk
  <2>2. Len(rest) <= RingLines BY <1>2, <1>3, LenProperties, LoggerAssumption
  <2> QED BY <1>1, <1>3, <1>4, <2>1, <2>2 DEF RingOK
<1>7. LoggingOK' /\ RestOK' /\ Good(card', times'.boot)
  BY <1>1 DEF TakeChunk, LogOK, LoggingOK, RestOK
<1> QED BY <1>1, <1>5, <1>6, <1>7 DEF LogOK

LEMMA WriteChunkOK ==
    ASSUME LogOK, NEW who \in Flushers, WriteChunk(who)
    PROVE  LogOK' /\ times'.boot = times.boot
<1>1. times' = times BY DEF WriteChunk
<1>2. times.boot \in Nat BY TimesFacts DEF LogOK, RestOK
<1>3. Good(card', times'.boot)
  <2> PICK boot \in Nat : boot = times.boot BY <1>2
  <2> QED BY <1>1, WriteChunkFacts DEF LogOK
<1>4. StepsOK' /\ HandsOK'
  <2>1. Onwards(who, flusher[who].more) \in {"Resting", "Flushing", "Flushed"} BY DEF Onwards
  <2>2. Flushes(who, [Resting EXCEPT !.at = Onwards(who, flusher[who].more)]) BY DEF WriteChunk
  <2> QED BY <1>1, <2>1, <2>2, EmptyHanded DEF LogOK
<1>5. RingOK' /\ LoggingOK' /\ RestOK'
  BY <1>1 DEF WriteChunk, LogOK, RingOK, LoggingOK, RestOK
<1> QED BY <1>1, <1>3, <1>4, <1>5 DEF LogOK

\* What a start or a stop leaves alone.
LEMMA RestStays ==
    ASSUME LogOK, UNCHANGED <<ring, dropped, logging, logged, flusher>>, times'.boot = times.boot
    PROVE  RingOK' /\ LoggingOK' /\ StepsOK' /\ HandsOK'
BY DEF LogOK, RingOK, LoggingOK, StepsOK, HandsOK

LEMMA StartFileOK ==
    ASSUME LogOK, StartFile
    PROVE  Good(card', times.boot) /\ Lasts(card, card') /\ keeping' \in BOOLEAN
<1>1. PICK boot \in Nat, session \in Nat : boot = times.boot /\ session = times.session
  BY TimesFacts DEF LogOK, RestOK
<1>2. Good(card', boot) /\ Lasts(card, card')
  BY <1>1, StartFileFacts DEF LogOK
<1>3. keeping' \in BOOLEAN BY DEF StartFile, LogOK, RestOK
<1> QED BY <1>1, <1>2, <1>3

LEMMA StopKeepingOK ==
    ASSUME LogOK, StopKeeping
    PROVE  /\ times' \in [boot : Nat, session : Nat, lines : Nat] /\ times'.boot = times.boot
           /\ keeping' \in BOOLEAN
<1>1. times \in [boot : Nat, session : Nat, lines : Nat] BY DEF LogOK, RestOK
<1>2. times.session + 1 \in Nat BY <1>1
<1>3. times' = [times EXCEPT !.session = times.session + 1] BY DEF StopKeeping
<1>4. keeping' \in BOOLEAN BY DEF StopKeeping
<1> QED BY <1>1, <1>2, <1>3, <1>4, TimesFacts

LEMMA SwitchFacts ==
    ASSUME RestOK
    PROVE  /\ \A b \in BOOLEAN : [switch EXCEPT !.on = b]
                    \in [on : BOOLEAN, stopping : {"No", "Closing", "Discarding"}]
           /\ \A s \in {"No", "Closing", "Discarding"} : [switch EXCEPT !.stopping = s]
                    \in [on : BOOLEAN, stopping : {"No", "Closing", "Discarding"}]
BY DEF RestOK

LEMMA BootOK ==
    ASSUME LogOK, Boot
    PROVE  LogOK' /\ times'.boot = times.boot /\ Lasts(card, card')
<1>1. CASE switch.on /\ StartFile /\ running' = TRUE /\ UNCHANGED <<switch, times>>
  <2>1. RingOK' /\ LoggingOK' /\ StepsOK' /\ HandsOK' BY <1>1, RestStays DEF Boot
  <2>2. Good(card', times.boot) /\ Lasts(card, card') /\ keeping' \in BOOLEAN
    BY <1>1, StartFileOK
  <2>3. RestOK' BY <1>1, <2>2 DEF Boot, LogOK, RestOK
  <2> QED BY <1>1, <2>1, <2>2, <2>3 DEF LogOK
<1>2. CASE /\ StopKeeping /\ UNCHANGED <<card, running>>
           /\ switch' = [switch EXCEPT !.stopping = "Closing"]
  <2>1. /\ times' \in [boot : Nat, session : Nat, lines : Nat] /\ times'.boot = times.boot
        /\ keeping' \in BOOLEAN
    BY <1>2, StopKeepingOK
  <2>2. RingOK' /\ LoggingOK' /\ StepsOK' /\ HandsOK' BY <2>1, RestStays DEF Boot
  <2>3. RestOK' BY <1>2, <2>1, SwitchFacts DEF Boot, LogOK, RestOK
  <2>4. Good(card', times'.boot) /\ Lasts(card, card')
    BY <1>2, <2>1 DEF LogOK, Lasts, Keeps
  <2> QED BY <2>1, <2>2, <2>3, <2>4 DEF LogOK
<1> QED BY <1>1, <1>2 DEF Boot

LEMMA SwitchOnOK ==
    ASSUME LogOK, SwitchOn
    PROVE  LogOK' /\ times'.boot = times.boot /\ Lasts(card, card')
<1>1. times' = times /\ running' = running /\ asked' = asked BY DEF SwitchOn
<1>2. RingOK' /\ LoggingOK' /\ StepsOK' /\ HandsOK' BY <1>1, RestStays DEF SwitchOn
<1>3. Good(card', times.boot) /\ Lasts(card, card') /\ keeping' \in BOOLEAN
  BY StartFileOK DEF SwitchOn
<1>4. switch' \in [on : BOOLEAN, stopping : {"No", "Closing", "Discarding"}]
  BY SwitchFacts DEF SwitchOn, LogOK
<1>5. RestOK' BY <1>1, <1>3, <1>4 DEF LogOK, RestOK
<1> QED BY <1>1, <1>2, <1>3, <1>5 DEF LogOK

LEMMA SwitchOffOK ==
    ASSUME LogOK, SwitchOff
    PROVE  LogOK' /\ times'.boot = times.boot /\ card' = card
<1>1. /\ times' \in [boot : Nat, session : Nat, lines : Nat] /\ times'.boot = times.boot
      /\ keeping' \in BOOLEAN
  BY StopKeepingOK DEF SwitchOff
<1>2. RingOK' /\ LoggingOK' /\ StepsOK' /\ HandsOK' BY <1>1, RestStays DEF SwitchOff
<1>3. switch' \in [on : BOOLEAN, stopping : {"No", "Closing", "Discarding"}] BY DEF SwitchOff
<1>4. RestOK' BY <1>1, <1>3 DEF SwitchOff, LogOK, RestOK
<1>5. card' = card BY DEF SwitchOff
<1> QED BY <1>1, <1>2, <1>4, <1>5 DEF LogOK

LEMMA CloseFileOK ==
    ASSUME LogOK, CloseFile
    PROVE  LogOK' /\ times'.boot = times.boot /\ Lasts(card, card')
<1>1. times' = times BY DEF CloseFile
<1>2. RingOK' /\ LoggingOK' /\ StepsOK' /\ HandsOK' BY <1>1, RestStays DEF CloseFile
<1>3. Good(card', times.boot) /\ Lasts(card, card') BY ClosedIsGood DEF CloseFile, LogOK
<1>4. switch' \in [on : BOOLEAN, stopping : {"No", "Closing", "Discarding"}]
  BY SwitchFacts DEF CloseFile, LogOK
<1>5. RestOK' BY <1>1, <1>4 DEF CloseFile, LogOK, RestOK
<1> QED BY <1>1, <1>2, <1>3, <1>5 DEF LogOK

LEMMA StopDiscardsOK ==
    ASSUME LogOK, StopDiscards
    PROVE  /\ LogOK' /\ times'.boot = times.boot /\ Lasts(card, card')
           /\ card'.whole = FALSE /\ ring' = <<>>
<1>1. times' = times BY DEF StopDiscards
<1>2. RingOK' /\ ring' = <<>> BY DiscardFacts DEF StopDiscards, DiscardPending
<1>3. Good(card', times.boot) /\ Lasts(card, card') /\ card'.whole = FALSE
  BY ThrownIsGood DEF StopDiscards, LogOK
<1>4. switch' \in [on : BOOLEAN, stopping : {"No", "Closing", "Discarding"}]
  BY SwitchFacts DEF StopDiscards, LogOK
<1>5. LoggingOK' /\ StepsOK' /\ HandsOK'
  BY <1>1 DEF StopDiscards, LogOK, LoggingOK, StepsOK, HandsOK
<1>6. RestOK' BY <1>1, <1>4 DEF StopDiscards, LogOK, RestOK
<1> QED BY <1>1, <1>2, <1>3, <1>5, <1>6 DEF LogOK

LEMMA EraseAllOK ==
    ASSUME LogOK, EraseAll
    PROVE  /\ LogOK' /\ times'.boot = times.boot /\ Keeps(card, card')
           /\ card'.whole = FALSE /\ ring' \in {<<>>, ring}
<1>1. times' = times BY DEF EraseAll
<1>2. RingOK' /\ ring' \in {<<>>, ring}
  <2>1. CASE DiscardPending BY <2>1, DiscardFacts DEF DiscardPending
  <2>2. CASE UNCHANGED <<ring, dropped>> BY <1>1, <2>2 DEF LogOK, RingOK
  <2> QED BY <2>1, <2>2 DEF EraseAll
<1>3. Good(card', times.boot) /\ Keeps(card, card') /\ card'.whole = FALSE
  <2>1. PICK boot \in Nat, session \in Nat : boot = times.boot /\ session = times.session
    BY TimesFacts DEF LogOK, RestOK
  <2>2. CASE card' = [files |-> [number \in {1} |-> EmptyFile(times.boot, times.session)],
                      open |-> 1, whole |-> FALSE]
    <3>1. card' = [files |-> [number \in {1} |-> EmptyFile(boot, session)],
                   open |-> 1, whole |-> FALSE]
      BY <2>1, <2>2
    <3>2. Good(card', boot) /\ \A n, i \in Nat : ~LineAt(card'.files, n, i)
      BY <3>1, FreshIsGood
    <3>3. card'.whole = FALSE BY <2>2
    <3> QED BY <2>1, <3>2, <3>3 DEF Keeps
  <2>3. CASE \E left \in SUBSET DOMAIN card.files :
                card' = [files |-> Kept(card.files, left), open |-> NIL, whole |-> FALSE]
    <3>1. PICK left \in SUBSET DOMAIN card.files :
                card' = [files |-> Kept(card.files, left), open |-> NIL, whole |-> FALSE]
      BY <2>3
    <3>2. PICK files : files = Kept(card.files, left) OBVIOUS
    <3>3. PartOf(files, card.files) BY <3>2 DEF PartOf
    <3>4. card' = [files |-> files, open |-> NIL, whole |-> FALSE] BY <3>1, <3>2
    <3>5. Good(card', times.boot) /\ Keeps(card, card') BY <3>3, <3>4, PartIsGood DEF LogOK
    <3>6. card'.whole = FALSE BY <3>4
    <3> QED BY <3>5, <3>6
  <2>4. card' = [files |-> Kept(card.files, {}), open |-> NIL, whole |-> FALSE]
            => \E left \in SUBSET DOMAIN card.files :
                card' = [files |-> Kept(card.files, left), open |-> NIL, whole |-> FALSE]
    OBVIOUS
  <2> QED BY <2>2, <2>3, <2>4 DEF EraseAll
<1>4. LoggingOK' /\ StepsOK' /\ HandsOK'
  BY <1>1 DEF EraseAll, LogOK, LoggingOK, StepsOK, HandsOK
<1>5. RestOK' BY <1>1 DEF EraseAll, LogOK, RestOK
<1> QED BY <1>1, <1>2, <1>3, <1>4, <1>5 DEF LogOK

LEMMA RebootSoonOK ==
    ASSUME LogOK, RebootSoon
    PROVE  LogOK' /\ times'.boot = times.boot /\ card' = card
<1>1. times' = times /\ card' = card BY DEF RebootSoon
<1>2. StepsOK' /\ HandsOK'
  <2>1. Rebooter \in Flushers BY DEF Flushers
  <2>2. PICK at \in {"Flushing", "Flushed"} : Flushes(Rebooter, [Resting EXCEPT !.at = at])
    BY DEF RebootSoon
  <2> QED BY <1>1, <2>1, <2>2, EmptyHanded DEF LogOK
<1>3. asked' \subseteq Lines
  <2>1. \A line \in ToSet(ring) : line \in Lines BY DEF LogOK, RingOK, ToSet
  <2>2. Writer \in Flushers /\ flusher[Writer] \in Steps BY DEF LogOK, StepsOK, Flushers
  <2>3. flusher[Writer].chunk \in Seq(Lines) BY <2>2, StepFacts
  <2>4. \A line \in InHand(Writer) : line \in Lines BY <2>3 DEF InHand, ToSet
  <2> QED BY <2>1, <2>4 DEF RebootSoon
<1>4. RingOK' /\ LoggingOK' BY <1>1 DEF RebootSoon, LogOK, RingOK, LoggingOK
<1>5. RestOK' BY <1>1, <1>3 DEF RebootSoon, LogOK, RestOK
<1> QED BY <1>1, <1>2, <1>4, <1>5 DEF LogOK

\* No file is of the boot to come.
LEMMA RestartOK ==
    ASSUME LogOK, Restart
    PROVE  LogOK' /\ \A n, i \in Nat :
                        LineAt(card'.files, n, i) => EntryAt(card'.files, n, i).boot # times'.boot
<1>1. PICK boot \in Nat : boot = times.boot BY TimesFacts DEF LogOK, RestOK
<1>2. times' \in [boot : Nat, session : Nat, lines : Nat] /\ times'.boot = boot + 1
  <2>1. times' = [times EXCEPT !.boot = boot + 1] BY <1>1 DEF Restart
  <2> QED BY <2>1, TimesFacts DEF LogOK, RestOK
<1>3. RingOK' BY DiscardFacts DEF Restart
<1>4. LoggingOK' BY DEF Restart, LoggingOK
<1>5. StepsOK' /\ HandsOK'
  <2>1. Resting \in Steps /\ Resting.chunk = <<>> BY NoLinesAtAll DEF Resting, Steps
  <2>2. flusher' \in [Flushers -> Steps] /\ \A who \in Flushers : flusher'[who].chunk = <<>>
    BY <2>1 DEF Restart
  <2> QED BY <2>2, NoLinesAtAll, LoggerAssumption DEF StepsOK, HandsOK
<1>6. RestOK'
  <2>1. switch' \in [on : BOOLEAN, stopping : {"No", "Closing", "Discarding"}]
    BY SwitchFacts DEF Restart, LogOK
  <2> QED BY <1>2, <2>1 DEF Restart, RestOK
<1>7. card'.files = card.files /\ card'.open = NIL /\ card'.whole = TRUE /\ IsCard(card')
  <2>1. PICK closed : closed = [card EXCEPT !.open = NIL] OBVIOUS
  <2>2. closed = [files |-> card.files, open |-> NIL, whole |-> card.whole]
    BY <2>1 DEF LogOK, Good, IsCard
  <2>3. \A whole : [closed EXCEPT !.whole = whole]
                    = [files |-> card.files, open |-> NIL, whole |-> whole]
    BY <2>2
  <2>4. \A whole : [card EXCEPT !.open = NIL, !.whole = whole] = [closed EXCEPT !.whole = whole]
    BY <2>1
  <2>5. card' = [card EXCEPT !.open = NIL, !.whole = TRUE] BY DEF Restart
  <2>6. card' = [files |-> card.files, open |-> NIL, whole |-> TRUE]
    BY <2>3, <2>4, <2>5, Zenon
  <2> QED BY <2>6 DEF IsCard
<1>8. /\ FilesOK(card.files) /\ Bounded(card.files) /\ OfTheirBoot(card.files, boot)
      /\ \A n \in DOMAIN card.files : card.files[n].boot \in Nat /\ card.files[n].boot <= boot
  <2>1. FilesOK(card.files) /\ Bounded(card.files) /\ OfTheirBoot(card.files, boot)
    BY <1>1 DEF LogOK, Good
  <2> QED BY <2>1, FileFacts DEF FilesOK, OfTheirBoot
<1>9. OfTheirBoot(card.files, boot + 1) BY <1>8 DEF OfTheirBoot
<1>10. Good(card', times'.boot) BY <1>2, <1>7, <1>8, <1>9 DEF Good
<1>11. \A n, i \in Nat : LineAt(card'.files, n, i) => EntryAt(card'.files, n, i).boot # times'.boot
  <2> TAKE n, i \in Nat
  <2> HAVE LineAt(card'.files, n, i)
  <2>1. LineAt(card.files, n, i) /\ n \in DOMAIN card.files BY <1>7 DEF LineAt
  <2>2. EntryAt(card.files, n, i).boot = card.files[n].boot BY <1>8, <2>1 DEF OfTheirBoot
  <2> QED BY <1>2, <1>7, <1>8, <2>1, <2>2
<1> QED BY <1>3, <1>4, <1>5, <1>6, <1>10, <1>11 DEF LogOK

LEMMA LogOKStep == LogOK /\ [Next]_vars => LogOK'
<1> SUFFICES ASSUME LogOK, [Next]_vars PROVE LogOK' OBVIOUS
<1>1. ASSUME NEW thread \in Threads, CheckKeeping(thread) PROVE LogOK'
  BY <1>1, CheckKeepingOK
<1>2. ASSUME NEW thread \in Threads, Push(thread) PROVE LogOK' BY <1>2, PushOK
<1>3. CASE FindPending BY <1>3, FindPendingOK
<1>4. ASSUME NEW who \in Flushers, TakeChunk(who) PROVE LogOK' BY <1>4, TakeChunkOK
<1>5. ASSUME NEW who \in Flushers, WriteChunk(who) PROVE LogOK' BY <1>5, WriteChunkOK
<1>6. CASE Boot BY <1>6, BootOK
<1>7. CASE SwitchOn BY <1>7, SwitchOnOK
<1>8. CASE SwitchOff BY <1>8, SwitchOffOK
<1>9. CASE CloseFile BY <1>9, CloseFileOK
<1>10. CASE StopDiscards BY <1>10, StopDiscardsOK
<1>11. CASE EraseAll BY <1>11, EraseAllOK
<1>12. CASE RebootSoon BY <1>12, RebootSoonOK
<1>13. CASE Restart BY <1>13, RestartOK
<1>14. CASE UNCHANGED vars
  BY <1>14 DEF vars, LogOK, RingOK, LoggingOK, StepsOK, HandsOK, RestOK
<1> QED BY <1>1, <1>2, <1>3, <1>4, <1>5, <1>6, <1>7, <1>8, <1>9, <1>10, <1>11, <1>12,
           <1>13, <1>14 DEF Next

\* The variables have their types: no more waits than the buffer holds, a chunk is
\* no longer than it may be, and the file being written is there (Logger.TypeOK).
THEOREM TypeCorrect == Spec => []TypeOK
<1>1. LogOK => TypeOK
  BY DEF LogOK, RingOK, LoggingOK, StepsOK, HandsOK, RestOK, Good, FilesOK, TypeOK
<1> QED BY <1>1, LogOKInit, LogOKStep, PTL DEF Spec

\* No file ever mixes two boots' lines, whatever is switched, erased, rotated or
\* refused by the card meanwhile (Logger.OneBootPerFile): the file being written
\* is this boot's, and a start never lands on one that holds anything.
THEOREM BootsHaveTheirOwnFiles == Spec => []OneBootPerFile
<1>1. LogOK => OneBootPerFile
  <2> SUFFICES ASSUME LogOK, NEW number \in DOMAIN card.files,
                      NEW entry \in ToSet(card.files[number].entries), IsLine(entry)
               PROVE  entry.boot = card.files[number].boot
    BY DEF OneBootPerFile
  <2>1. PICK i \in DOMAIN card.files[number].entries : entry = card.files[number].entries[i]
    BY DEF ToSet
  <2>2. number \in Nat /\ i \in Nat
    BY <2>1, LenProperties, FileFacts DEF LogOK, Good, FilesOK
  <2>3. LineAt(card.files, number, i) /\ EntryAt(card.files, number, i) = entry
    BY <2>1 DEF LineAt, EntryAt
  <2> QED BY <2>2, <2>3 DEF LogOK, Good, OfTheirBoot
<1> QED BY <1>1, LogOKInit, LogOKStep, PTL DEF Spec

-----------------------------------------------------------------------------
(* The order of the lines *)

\* This boot's lines in the files.
CardLines(files, boot) ==
    {line \in Lines :
        line.boot = boot /\ \E n, i \in Nat : LineAt(files, n, i) /\ EntryAt(files, n, i) = line}

\* The file's lines are in order; so are those waiting in a sequence.
CardOrdered(files, boot) ==
    \A m, i, n, j \in Nat :
        /\ LineAt(files, m, i) /\ EntryAt(files, m, i).boot = boot
        /\ LineAt(files, n, j) /\ EntryAt(files, n, j).boot = boot
        /\ EntryAt(files, m, i).by = EntryAt(files, n, j).by
        /\ Earlier(m, i, n, j)
        => EntryAt(files, m, i).n < EntryAt(files, n, j).n

Ordered(lines) ==
    \A i, j \in DOMAIN lines : i < j /\ lines[i].by = lines[j].by => lines[i].n < lines[j].n

\* A thread logged all of the first before any of the second.
Below(some, others) ==
    \A one \in some, two \in others : one.by = two.by => one.n < two.n

\* The last line of a thread's that has been pushed, or dropped.
Done(thread, checked, count) ==
    IF checked[thread] = NIL THEN count[thread] ELSE count[thread] - 1

ThusFar(lines, checked, count) == \A line \in lines : line.n <= Done(line.by, checked, count)

InTurn(files, boot, chunk, waiting) ==
    /\ CardOrdered(files, boot) /\ Ordered(chunk) /\ Ordered(waiting)
    /\ Below(CardLines(files, boot), ToSet(chunk))
    /\ Below(CardLines(files, boot), ToSet(waiting))
    /\ Below(ToSet(chunk), ToSet(waiting))

AllThusFar(files, boot, chunk, waiting, checked, count) ==
    /\ ThusFar(CardLines(files, boot), checked, count)
    /\ ThusFar(ToSet(chunk), checked, count)
    /\ ThusFar(ToSet(waiting), checked, count)

\* Until the reboot's flush_all, only the log thread takes chunks, and what is in
\* the files was logged before its chunk, and that before what waits.
Order ==
    flusher[Rebooter].at = "Resting" =>
        /\ InTurn(card.files, times.boot, flusher[Writer].chunk, ring)
        /\ AllThusFar(card.files, times.boot, flusher[Writer].chunk, ring, logging, logged)

LEMMA EntryType ==
    ASSUME NEW files, FilesOK(files), NEW n \in Nat, NEW i \in Nat, LineAt(files, n, i)
    PROVE  EntryAt(files, n, i) \in Lines
<1>1. files[n].entries \in Seq(Entries) /\ i \in DOMAIN files[n].entries
  BY FileFacts DEF FilesOK, LineAt
<1>2. files[n].entries[i] \in Entries BY <1>1, ElementOfSeq, LenProperties
<1> QED BY <1>2, LineFacts DEF LineAt, EntryAt

LEMMA KeptLines ==
    ASSUME NEW c, NEW d, NEW boot, Keeps(c, d)
    PROVE  /\ CardLines(d.files, boot) \subseteq CardLines(c.files, boot)
           /\ CardOrdered(c.files, boot) => CardOrdered(d.files, boot)
<1>1. \A n, i \in Nat : LineAt(d.files, n, i) =>
        LineAt(c.files, n, i) /\ EntryAt(d.files, n, i) = EntryAt(c.files, n, i)
  BY DEF Keeps
<1>2. CardLines(d.files, boot) \subseteq CardLines(c.files, boot) BY <1>1 DEF CardLines
<1>3. CardOrdered(c.files, boot) => CardOrdered(d.files, boot) BY <1>1 DEF CardOrdered
<1> QED BY <1>2, <1>3

LEMMA GrownLines ==
    ASSUME NEW c, NEW d, NEW boot, NEW chunk \in Seq(Lines), Grown(c, d, chunk)
    PROVE  CardLines(d.files, boot) \subseteq CardLines(c.files, boot) \cup ToSet(chunk)
<1> SUFFICES ASSUME NEW line \in CardLines(d.files, boot)
             PROVE  line \in CardLines(c.files, boot) \cup ToSet(chunk)
  OBVIOUS
<1>1. PICK n \in Nat, i \in Nat : LineAt(d.files, n, i) /\ EntryAt(d.files, n, i) = line
  BY DEF CardLines
<1>2. PICK o \in Nat : WasThere(c, d, n, i, o) \/ \E k \in DOMAIN chunk : IsAdded(d, n, i, o, chunk, k)
  BY <1>1 DEF Grown
<1>3. CASE WasThere(c, d, n, i, o) BY <1>1, <1>3 DEF WasThere, CardLines
<1>4. CASE \E k \in DOMAIN chunk : IsAdded(d, n, i, o, chunk, k) BY <1>1, <1>4 DEF IsAdded, ToSet
<1> QED BY <1>2, <1>3, <1>4

\* Lines that come after those in the files leave them in order.
LEMMA GrownOrder ==
    ASSUME NEW c, NEW d, NEW boot, FilesOK(c.files), NEW chunk \in Seq(Lines), Grown(c, d, chunk),
           CardOrdered(c.files, boot), Ordered(chunk),
           Below(CardLines(c.files, boot), ToSet(chunk))
    PROVE  CardOrdered(d.files, boot)
<1>1. PICK o \in Nat : \A n, i \in Nat :
        LineAt(d.files, n, i) =>
            WasThere(c, d, n, i, o) \/ \E k \in DOMAIN chunk : IsAdded(d, n, i, o, chunk, k)
  BY DEF Grown
<1> SUFFICES ASSUME NEW m \in Nat, NEW i \in Nat, NEW n \in Nat, NEW j \in Nat,
                    LineAt(d.files, m, i), EntryAt(d.files, m, i).boot = boot,
                    LineAt(d.files, n, j), EntryAt(d.files, n, j).boot = boot,
                    EntryAt(d.files, m, i).by = EntryAt(d.files, n, j).by,
                    Earlier(m, i, n, j)
             PROVE  EntryAt(d.files, m, i).n < EntryAt(d.files, n, j).n
  BY DEF CardOrdered
<1>2. CASE WasThere(c, d, m, i, o) /\ WasThere(c, d, n, j, o)
  BY <1>2 DEF WasThere, CardOrdered
<1>3. ASSUME WasThere(c, d, m, i, o), NEW k \in DOMAIN chunk, IsAdded(d, n, j, o, chunk, k)
      PROVE  EntryAt(d.files, m, i).n < EntryAt(d.files, n, j).n
  <2>1. EntryAt(d.files, m, i) \in CardLines(c.files, boot)
    <3>1. LineAt(c.files, m, i) /\ EntryAt(d.files, m, i) = EntryAt(c.files, m, i)
      BY <1>3 DEF WasThere
    <3>2. EntryAt(c.files, m, i) \in Lines BY <3>1, EntryType
    <3> QED BY <3>1, <3>2 DEF CardLines
  <2>2. EntryAt(d.files, n, j) \in ToSet(chunk) BY <1>3 DEF IsAdded, ToSet
  <2> QED BY <2>1, <2>2 DEF Below
<1>4. ASSUME NEW k \in DOMAIN chunk, IsAdded(d, m, i, o, chunk, k),
             NEW l \in DOMAIN chunk, IsAdded(d, n, j, o, chunk, l)
      PROVE  EntryAt(d.files, m, i).n < EntryAt(d.files, n, j).n
  <2>1. k \in Nat /\ l \in Nat BY LenProperties
  <2>2. m = n /\ i = o + k /\ j = o + l BY <1>4 DEF IsAdded
  <2>3. k < l BY <2>1, <2>2 DEF Earlier
  <2> QED BY <1>4, <2>3 DEF Ordered, IsAdded
<1>5. ASSUME NEW k \in DOMAIN chunk, IsAdded(d, m, i, o, chunk, k), WasThere(c, d, n, j, o)
      PROVE  FALSE
  <2>1. k \in Nat /\ 1 <= k BY LenProperties
  <2>2. m = d.open /\ i = o + k BY <1>5 DEF IsAdded
  <2>3. n < m \/ (n = m /\ j <= o) BY <1>5, <2>2 DEF WasThere
  <2> QED BY <2>1, <2>2, <2>3 DEF Earlier
<1> QED BY <1>1, <1>2, <1>3, <1>4, <1>5

\* Lines go, and none comes.
LEMMA OrderShrinks ==
    ASSUME LogOK, Order, flusher'[Rebooter].at = "Resting" => flusher[Rebooter].at = "Resting",
           times'.boot = times.boot, Keeps(card, card'),
           flusher'[Writer].chunk \in {<<>>, flusher[Writer].chunk}, ring' \in {<<>>, ring},
           UNCHANGED <<logging, logged>>
    PROVE  Order'
<1> SUFFICES ASSUME flusher'[Rebooter].at = "Resting"
             PROVE  Order'
  BY DEF Order
<1> PICK boot : boot = times.boot OBVIOUS
<1> PICK chunk : chunk = flusher[Writer].chunk OBVIOUS
<1> PICK after : after = flusher'[Writer].chunk OBVIOUS
<1>1. InTurn(card.files, boot, chunk, ring) /\ AllThusFar(card.files, boot, chunk, ring, logging, logged)
  BY DEF Order
<1>2. CardLines(card'.files, boot) \subseteq CardLines(card.files, boot) BY KeptLines
<1>3. CardOrdered(card'.files, boot) BY <1>1, KeptLines DEF InTurn
<1>4. ToSet(after) \subseteq ToSet(chunk) /\ ToSet(ring') \subseteq ToSet(ring)
  BY NoLinesAtAll
<1>5. Ordered(<<>>) BY Heads DEF Ordered
<1>6. Ordered(after) /\ Ordered(ring') BY <1>1, <1>5 DEF InTurn
<1>7. InTurn(card'.files, boot, after, ring')
  BY <1>1, <1>2, <1>3, <1>4, <1>6 DEF InTurn, Below
<1>8. AllThusFar(card'.files, boot, after, ring', logging', logged')
  BY <1>1, <1>2, <1>4 DEF AllThusFar, ThusFar
<1> QED BY <1>7, <1>8 DEF Order

LEMMA OrderCheckKeeping ==
    ASSUME LogOK, Order, NEW thread \in Threads, CheckKeeping(thread)
    PROVE  Order'
<1> PICK boot : boot = times.boot OBVIOUS
<1> PICK chunk : chunk = flusher[Writer].chunk OBVIOUS
<1>1. /\ UNCHANGED <<ring, card, flusher>> /\ times'.boot = boot /\ logging[thread] = NIL
      /\ logging' = [logging EXCEPT ![thread] = Line(thread, logged[thread] + 1)]
      /\ logged' = [logged EXCEPT ![thread] = logged[thread] + 1]
  BY CheckKeepingOK DEF CheckKeeping
<1> SUFFICES ASSUME flusher[Rebooter].at = "Resting"
             PROVE  Order'
  BY <1>1 DEF Order
<1>2. InTurn(card.files, boot, chunk, ring) /\ AllThusFar(card.files, boot, chunk, ring, logging, logged)
  BY DEF Order
<1>3. logging \in [Threads -> Lines \cup {NIL}] /\ logged \in [Threads -> Nat]
  BY DEF LogOK, LoggingOK
<1>4. \A t \in Threads : Done(t, logging, logged) <= Done(t, logging', logged')
  <2> TAKE t \in Threads
  <2>1. CASE t = thread BY <1>1, <1>3, <2>1 DEF Done
  <2>2. CASE t # thread BY <1>1, <1>3, <2>2 DEF Done
  <2> QED BY <2>1, <2>2
<1>5. ASSUME NEW lines \in SUBSET Lines, ThusFar(lines, logging, logged)
      PROVE  ThusFar(lines, logging', logged')
  <2> SUFFICES ASSUME NEW line \in lines PROVE line.n <= Done(line.by, logging', logged')
    BY DEF ThusFar
  <2>1. line.by \in Threads /\ line.n \in Nat BY LineFacts
  <2>2. line.n <= Done(line.by, logging, logged) BY <1>5 DEF ThusFar
  <2>3. Done(line.by, logging, logged) \in Int /\ Done(line.by, logging', logged') \in Int
    BY <1>1, <1>3, <2>1 DEF Done
  <2> QED BY <1>4, <2>1, <2>2, <2>3
<1>6. /\ CardLines(card.files, boot) \subseteq Lines
      /\ ToSet(chunk) \subseteq Lines /\ ToSet(ring) \subseteq Lines
  <2>1. chunk \in Seq(Lines) BY StepFacts DEF LogOK, StepsOK, Flushers
  <2>2. ring \in Seq(Lines) BY DEF LogOK, RingOK
  <2> QED BY <2>1, <2>2 DEF CardLines, ToSet
<1>7. AllThusFar(card.files, boot, chunk, ring, logging', logged')
  BY <1>2, <1>5, <1>6 DEF AllThusFar
<1> QED BY <1>1, <1>2, <1>7 DEF Order

LEMMA OrderPush ==
    ASSUME LogOK, Order, NEW thread \in Threads, Push(thread)
    PROVE  Order'
<1> PICK boot : boot = times.boot OBVIOUS
<1> PICK chunk : chunk = flusher[Writer].chunk OBVIOUS
<1>1. /\ UNCHANGED <<card, flusher, times, logged>> /\ logging[thread] # NIL
      /\ logging' = [logging EXCEPT ![thread] = NIL]
  BY DEF Push
<1> SUFFICES ASSUME flusher[Rebooter].at = "Resting"
             PROVE  Order'
  BY <1>1 DEF Order
<1>2. InTurn(card.files, boot, chunk, ring) /\ AllThusFar(card.files, boot, chunk, ring, logging, logged)
  BY DEF Order
<1>3. logging \in [Threads -> Lines \cup {NIL}] /\ logged \in [Threads -> Nat]
  BY DEF LogOK, LoggingOK
<1>4. PICK line \in Lines : line = logging[thread] /\ line.by = thread /\ line.n = logged[thread]
  BY <1>1, <1>3 DEF LogOK, LoggingOK
<1>5. /\ Done(thread, logging, logged) = line.n - 1 /\ Done(thread, logging', logged') = line.n
      /\ \A t \in Threads : t # thread => Done(t, logging', logged') = Done(t, logging, logged)
  BY <1>1, <1>3, <1>4 DEF Done
<1>6. /\ CardLines(card.files, boot) \subseteq Lines
      /\ ToSet(chunk) \subseteq Lines /\ ToSet(ring) \subseteq Lines
      /\ ring \in Seq(Lines)
  <2>1. chunk \in Seq(Lines) BY StepFacts DEF LogOK, StepsOK, Flushers
  <2>2. ring \in Seq(Lines) BY DEF LogOK, RingOK
  <2> QED BY <2>1, <2>2 DEF CardLines, ToSet
<1>7. ASSUME NEW lines \in SUBSET Lines, ThusFar(lines, logging, logged)
      PROVE  ThusFar(lines, logging', logged') /\ Below(lines, {line})
  <2>1. ASSUME NEW one \in lines
        PROVE  one.n <= Done(one.by, logging', logged') /\ (one.by = thread => one.n < line.n)
    <3>1. one.by \in Threads /\ one.n \in Nat /\ line.n \in Nat BY LineFacts
    <3>2. one.n <= Done(one.by, logging, logged) BY <1>7 DEF ThusFar
    <3>3. CASE one.by = thread BY <1>5, <3>1, <3>2, <3>3
    <3>4. CASE one.by # thread BY <1>5, <3>1, <3>2, <3>4
    <3> QED BY <3>3, <3>4
  <2> QED BY <1>4, <2>1 DEF ThusFar, Below
<1>8. /\ ThusFar(CardLines(card.files, boot), logging', logged')
      /\ ThusFar(ToSet(chunk), logging', logged') /\ ThusFar(ToSet(ring), logging', logged')
      /\ Below(CardLines(card.files, boot), {line}) /\ Below(ToSet(chunk), {line})
      /\ Below(ToSet(ring), {line})
  BY <1>2, <1>6, <1>7 DEF AllThusFar
<1>9. CASE ring' = Append(ring, line)
  <2>1. PICK len \in Nat : len = Len(ring) /\ DOMAIN ring = 1..len BY <1>6, LenProperties
  <2>2. /\ ring' \in Seq(Lines) /\ Len(ring') = len + 1
        /\ \A i \in 1..len : ring'[i] = ring[i]
        /\ ring'[len + 1] = line
    BY <1>6, <1>9, <2>1, AppendProperties
  <2>3. DOMAIN ring' = 1..(len + 1) BY <2>2, LenProperties
  <2>4. \A i \in DOMAIN ring' : \/ i \in DOMAIN ring /\ ring'[i] = ring[i]
                                \/ i = len + 1 /\ ring'[i] = line
    BY <2>1, <2>2, <2>3
  <2>5. ToSet(ring') \subseteq ToSet(ring) \cup {line} BY <2>4 DEF ToSet
  <2>6. Ordered(ring')
    <3> SUFFICES ASSUME NEW i \in DOMAIN ring', NEW j \in DOMAIN ring', i < j,
                        ring'[i].by = ring'[j].by
                 PROVE  ring'[i].n < ring'[j].n
      BY DEF Ordered
    <3>1. i \in DOMAIN ring /\ ring'[i] = ring[i] BY <2>1, <2>3, <2>4
    <3>2. CASE j \in DOMAIN ring /\ ring'[j] = ring[j] BY <1>2, <3>1, <3>2 DEF InTurn, Ordered
    <3>3. CASE ring'[j] = line
      <4>1. ring[i] \in ToSet(ring) BY <3>1 DEF ToSet
      <4> QED BY <1>8, <3>1, <3>3, <4>1 DEF Below
    <3> QED BY <2>4, <3>2, <3>3
  <2>7. InTurn(card.files, boot, chunk, ring')
    BY <1>2, <1>8, <2>5, <2>6 DEF InTurn, Below
  <2>8. ThusFar({line}, logging', logged') BY <1>4, <1>5, LineFacts DEF ThusFar
  <2>9. AllThusFar(card.files, boot, chunk, ring', logging', logged')
    BY <1>8, <2>5, <2>8 DEF AllThusFar, ThusFar
  <2> QED BY <1>1, <2>7, <2>9 DEF Order
<1>10. CASE UNCHANGED ring BY <1>1, <1>2, <1>8, <1>10 DEF Order, AllThusFar
<1> QED BY <1>4, <1>9, <1>10 DEF Push

\* The Rebooter takes a step: it is not at rest.
LEMMA RebooterAway ==
    ASSUME LogOK, NEW step, Flushes(Rebooter, step), step.at # "Resting"
    PROVE  Order'
<1>1. flusher'[Rebooter] = step BY DEF LogOK, StepsOK, Flushes, Flushers
<1> QED BY <1>1 DEF Order

LEMMA OrderTakeChunk ==
    ASSUME LogOK, Order, NEW who \in Flushers, TakeChunk(who)
    PROVE  Order'
<1> PICK boot : boot = times.boot OBVIOUS
<1> PICK chunk : chunk = ChunkOf(ring) OBVIOUS
<1> PICK rest : rest = AfterChunk(ring) OBVIOUS
<1> PICK step : step = [at |-> "Writing", chunk |-> chunk, dropped |-> dropped, more |-> rest # <<>>]
  OBVIOUS
<1>1. /\ Flushes(who, step) /\ ring' = rest
      /\ UNCHANGED <<card, times, logging, logged>>
  BY DEF TakeChunk
<1>2. step.at = "Writing" /\ step.chunk = chunk OBVIOUS
<1>3. CASE who = Rebooter BY <1>1, <1>2, <1>3, RebooterAway
<1>4. CASE who = Writer
  <2>1. flusher'[Writer] = step /\ flusher'[Rebooter] = flusher[Rebooter]
    BY <1>1, <1>4, LoggerAssumption DEF LogOK, StepsOK, Flushes, Flushers
  <2> SUFFICES ASSUME flusher[Rebooter].at = "Resting"
               PROVE  InTurn(card.files, boot, chunk, rest)
                      /\ AllThusFar(card.files, boot, chunk, rest, logging, logged)
    BY <1>1, <1>2, <2>1 DEF Order
  <2>2. /\ CardOrdered(card.files, boot) /\ Ordered(ring)
        /\ Below(CardLines(card.files, boot), ToSet(ring))
        /\ ThusFar(CardLines(card.files, boot), logging, logged)
        /\ ThusFar(ToSet(ring), logging, logged)
    BY DEF Order, InTurn, AllThusFar
  <2>3. chunk \in Seq(Lines) /\ rest \in Seq(Lines) /\ ring \in Seq(Lines)
    BY ChunkFacts DEF LogOK, RingOK
  <2>4. PICK k \in Nat :
            /\ \A i \in DOMAIN chunk : i \in DOMAIN ring /\ i <= k /\ chunk[i] = ring[i]
            /\ \A i \in DOMAIN rest : k + i \in DOMAIN ring /\ rest[i] = ring[k + i]
    BY <2>3, ChunkFacts
  <2>5. /\ \A i \in DOMAIN chunk : i \in Nat
        /\ \A i \in DOMAIN rest : i \in Nat /\ i >= 1
    BY <2>3, LenProperties
  <2>6. ToSet(chunk) \subseteq ToSet(ring) /\ ToSet(rest) \subseteq ToSet(ring)
    BY <2>4 DEF ToSet
  <2>7. Ordered(chunk) BY <2>2, <2>4 DEF Ordered
  <2>8. Ordered(rest)
    <3>1. \A i, j \in DOMAIN rest : i < j => k + i < k + j BY <2>5
    <3> QED BY <2>2, <2>4, <3>1 DEF Ordered
  <2>9. Below(ToSet(chunk), ToSet(rest))
    <3>1. \A i \in DOMAIN chunk, j \in DOMAIN rest : i < k + j BY <2>4, <2>5
    <3>2. ASSUME NEW i \in DOMAIN chunk, NEW j \in DOMAIN rest, chunk[i].by = rest[j].by
          PROVE  chunk[i].n < rest[j].n
      <4>1. PICK m : m = k + j OBVIOUS
      <4>2. i < m /\ m \in DOMAIN ring /\ rest[j] = ring[m] BY <2>4, <3>1, <4>1
      <4>3. i \in DOMAIN ring /\ chunk[i] = ring[i] BY <2>4
      <4> QED BY <2>2, <3>2, <4>2, <4>3 DEF Ordered
    <3> QED BY <3>2 DEF Below, ToSet
  <2>10. InTurn(card.files, boot, chunk, rest)
    BY <2>2, <2>6, <2>7, <2>8, <2>9 DEF InTurn, Below
  <2>11. AllThusFar(card.files, boot, chunk, rest, logging, logged)
    BY <2>2, <2>6 DEF AllThusFar, ThusFar
  <2> QED BY <2>10, <2>11
<1> QED BY <1>3, <1>4 DEF Flushers

LEMMA OrderWriteChunk ==
    ASSUME LogOK, Order, NEW who \in Flushers, WriteChunk(who)
    PROVE  Order'
<1> PICK step : step = [Resting EXCEPT !.at = Onwards(who, flusher[who].more)] OBVIOUS
<1>1. Flushes(who, step) /\ UNCHANGED <<ring, times, logging, logged>> BY DEF WriteChunk
<1>2. step.at = Onwards(who, flusher[who].more) /\ step.chunk = <<>> BY DEF Resting
<1>3. CASE who = Rebooter
  <2>1. step.at # "Resting" BY <1>2, <1>3, LoggerAssumption DEF Onwards
  <2> QED BY <1>1, <1>3, <2>1, RebooterAway
<1>4. CASE who = Writer
  <2>1. flusher'[Writer] = step /\ flusher'[Rebooter] = flusher[Rebooter]
    BY <1>1, <1>4, LoggerAssumption DEF LogOK, StepsOK, Flushes, Flushers
  <2> SUFFICES ASSUME flusher[Rebooter].at = "Resting" PROVE Order' BY <2>1 DEF Order
  <2>2. PICK boot \in Nat : boot = times.boot BY TimesFacts DEF LogOK, RestOK
  <2>3. PICK chunk \in Seq(Lines) : chunk = flusher[Writer].chunk
    BY StepFacts DEF LogOK, StepsOK, Flushers
  <2>4. Keeps(card, card') \/ Grown(card, card', chunk)
    BY <1>4, <2>2, <2>3, WriteChunkFacts DEF LogOK
  <2>5. InTurn(card.files, boot, chunk, ring)
        /\ AllThusFar(card.files, boot, chunk, ring, logging, logged)
    BY <2>2, <2>3 DEF Order
  <2>6. CardLines(card'.files, boot) \subseteq CardLines(card.files, boot) \cup ToSet(chunk)
    BY <2>4, KeptLines, GrownLines
  <2>7. CardOrdered(card'.files, boot)
    <3>1. CASE Keeps(card, card') BY <2>5, <3>1, KeptLines DEF InTurn
    <3>2. CASE Grown(card, card', chunk)
      <4>1. FilesOK(card.files) BY DEF LogOK, Good
      <4> QED BY <2>5, <3>2, <4>1, GrownOrder DEF InTurn
    <3> QED BY <2>4, <3>1, <3>2
  <2>8. Ordered(<<>>) /\ ToSet(<<>>) = {} BY Heads, NoLinesAtAll DEF Ordered
  <2>9. InTurn(card'.files, boot, <<>>, ring)
    BY <2>5, <2>6, <2>7, <2>8 DEF InTurn, Below
  <2>10. AllThusFar(card'.files, boot, <<>>, ring, logging, logged)
    BY <2>5, <2>6, <2>8 DEF AllThusFar, ThusFar
  <2> QED BY <1>1, <1>2, <2>1, <2>2, <2>9, <2>10 DEF Order
<1> QED BY <1>3, <1>4 DEF Flushers

LEMMA NothingInOrder ==
    ASSUME NEW files, NEW boot, NEW checked, NEW count, CardLines(files, boot) = {},
           \A n, i \in Nat : LineAt(files, n, i) => EntryAt(files, n, i).boot # boot
    PROVE  InTurn(files, boot, <<>>, <<>>) /\ AllThusFar(files, boot, <<>>, <<>>, checked, count)
<1>1. Ordered(<<>>) /\ ToSet(<<>>) = {} BY Heads, NoLinesAtAll DEF Ordered
<1>2. CardOrdered(files, boot) BY DEF CardOrdered
<1> QED BY <1>1, <1>2 DEF InTurn, AllThusFar, Below, ThusFar

LEMMA OrderInit == Init => Order
<1> SUFFICES ASSUME Init PROVE Order OBVIOUS
<1> Writer \in Flushers BY DEF Flushers
<1>1. ring = <<>> /\ flusher[Writer].chunk = <<>> BY DEF Init, Resting
<1>2. DOMAIN card.files = {} BY DEF Init
<1>3. \A n, i \in Nat : ~LineAt(card.files, n, i) BY <1>2 DEF LineAt
<1>4. CardLines(card.files, times.boot) = {} BY <1>3 DEF CardLines
<1> QED BY <1>1, <1>3, <1>4, NothingInOrder DEF Order

LEMMA OrderRestart ==
    ASSUME LogOK, Restart
    PROVE  Order'
<1> Writer \in Flushers BY DEF Flushers
<1>1. ring' = <<>> /\ flusher'[Writer].chunk = <<>> BY DEF Restart, DiscardPending, Resting
<1>2. PICK boot : boot = times'.boot OBVIOUS
<1>3. \A n, i \in Nat : LineAt(card'.files, n, i) => EntryAt(card'.files, n, i).boot # boot
  BY <1>2, RestartOK
<1>4. CardLines(card'.files, boot) = {} BY <1>3 DEF CardLines
<1> QED BY <1>1, <1>2, <1>3, <1>4, NothingInOrder DEF Order

LEMMA OrderStep == LogOK /\ Order /\ [Next]_vars => Order'
<1> SUFFICES ASSUME LogOK, Order, [Next]_vars PROVE Order' OBVIOUS
<1> Writer \in Flushers /\ Rebooter \in Flushers BY DEF Flushers
<1>1. ASSUME NEW thread \in Threads, CheckKeeping(thread) PROVE Order'
  BY <1>1, OrderCheckKeeping
<1>2. ASSUME NEW thread \in Threads, Push(thread) PROVE Order' BY <1>2, OrderPush
<1>3. CASE FindPending
  <2> PICK step : step = [Resting EXCEPT !.at = "Flushing"] /\ step.chunk = <<>>
    BY RestingFacts
  <2>1. Flushes(Writer, step) BY <1>3 DEF FindPending
  <2>2. flusher'[Writer].chunk = <<>> /\ flusher'[Rebooter] = flusher[Rebooter]
    BY <2>1, LoggerAssumption DEF Flushes, LogOK, StepsOK
  <2>3. Keeps(card, card') BY <1>3 DEF FindPending, Keeps
  <2> QED BY <1>3, <2>2, <2>3, OrderShrinks DEF FindPending
<1>4. ASSUME NEW who \in Flushers, TakeChunk(who) PROVE Order' BY <1>4, OrderTakeChunk
<1>5. ASSUME NEW who \in Flushers, WriteChunk(who) PROVE Order' BY <1>5, OrderWriteChunk
<1>6. CASE Boot BY <1>6, BootOK, OrderShrinks DEF Boot, Lasts
<1>7. CASE SwitchOn BY <1>7, SwitchOnOK, OrderShrinks DEF SwitchOn, Lasts
<1>8. CASE SwitchOff
  <2>1. Keeps(card, card') BY <1>8, SwitchOffOK DEF Keeps
  <2> QED BY <1>8, <2>1, SwitchOffOK, OrderShrinks DEF SwitchOff
<1>9. CASE CloseFile BY <1>9, CloseFileOK, OrderShrinks DEF CloseFile, Lasts
<1>10. CASE StopDiscards BY <1>10, StopDiscardsOK, OrderShrinks DEF StopDiscards, Lasts
<1>11. CASE EraseAll BY <1>11, EraseAllOK, OrderShrinks DEF EraseAll
<1>12. CASE RebootSoon
  <2>1. PICK at \in {"Flushing", "Flushed"} : Flushes(Rebooter, [Resting EXCEPT !.at = at])
    BY <1>12 DEF RebootSoon
  <2>2. PICK step : step = [Resting EXCEPT !.at = at] /\ step.at = at BY RestingFacts
  <2> QED BY <2>1, <2>2, RebooterAway
<1>13. CASE Restart BY <1>13, OrderRestart
<1>14. CASE UNCHANGED vars BY <1>14 DEF vars, Order
<1> QED BY <1>1, <1>2, <1>3, <1>4, <1>5, <1>6, <1>7, <1>8, <1>9, <1>10, <1>11, <1>12,
           <1>13, <1>14 DEF Next

\* A thread's lines are written in the order it logged them, none of them twice,
\* whatever is switched, erased, rotated or refused meanwhile
\* (Logger.WrittenInOrder).
THEOREM LinesAreWrittenInOrder == Spec => []WrittenInOrder
<1>1. LogOK /\ Order => WrittenInOrder
  <2> SUFFICES ASSUME LogOK, Order, flusher[Rebooter].at = "Resting",
                      NEW m \in BootsFiles(times.boot), NEW n \in BootsFiles(times.boot),
                      NEW i \in DOMAIN card.files[m].entries,
                      NEW j \in DOMAIN card.files[n].entries,
                      IsLine(EntryAt(card.files, m, i)), IsLine(EntryAt(card.files, n, j)),
                      EntryAt(card.files, m, i).by = EntryAt(card.files, n, j).by,
                      Earlier(m, i, n, j)
               PROVE  EntryAt(card.files, m, i).n < EntryAt(card.files, n, j).n
    BY DEF WrittenInOrder, EntryAt
  <2>1. FilesOK(card.files) /\ OfTheirBoot(card.files, times.boot) BY DEF LogOK, Good
  <2>2. /\ m \in DOMAIN card.files /\ card.files[m].boot = times.boot
        /\ n \in DOMAIN card.files /\ card.files[n].boot = times.boot
    BY DEF BootsFiles
  <2>3. /\ m \in Nat /\ card.files[m].entries \in Seq(Entries)
        /\ n \in Nat /\ card.files[n].entries \in Seq(Entries)
    BY <2>1, <2>2, FileFacts DEF FilesOK
  <2>4. i \in Nat /\ j \in Nat BY <2>3, LenProperties
  <2>5. LineAt(card.files, m, i) /\ LineAt(card.files, n, j) BY <2>2 DEF LineAt, EntryAt
  <2>6. EntryAt(card.files, m, i).boot = times.boot /\ EntryAt(card.files, n, j).boot = times.boot
    BY <2>1, <2>2, <2>3, <2>4, <2>5 DEF OfTheirBoot
  <2>7. CardOrdered(card.files, times.boot) BY DEF Order, InTurn
  <2> QED BY <2>3, <2>4, <2>5, <2>6, <2>7 DEF CardOrdered
<1> QED BY <1>1, LogOKInit, LogOKStep, OrderInit, OrderStep, PTL DEF Spec

-----------------------------------------------------------------------------
(* The reboot's flush *)

\* What the Rebooter has yet to take.
StillToWrite ==
    IF \/ flusher[Rebooter].at = "Flushing"
       \/ flusher[Rebooter].at = "Writing" /\ flusher[Rebooter].more
    THEN ToSet(ring) ELSE {}

Whereabouts ==
    CardLines(card.files, times.boot) \cup InHand(Writer) \cup InHand(Rebooter) \cup StillToWrite

\* A line that waited when the Rebooter began is on its way still, or there.
Asked == card.whole /\ flusher[Rebooter].at # "Resting" => asked \subseteq Whereabouts

LEMMA AskedLasts ==
    ASSUME Asked, asked' \subseteq asked,
           flusher'[Rebooter].at # "Resting" => flusher[Rebooter].at # "Resting",
           card'.whole => card.whole /\ Whereabouts \subseteq Whereabouts'
    PROVE  Asked'
BY DEF Asked

LEMMA LastingLines ==
    ASSUME NEW c, NEW d, NEW boot, Keeps(d, c)
    PROVE  CardLines(c.files, boot) \subseteq CardLines(d.files, boot)
BY KeptLines

\* Only the card changes.
LEMMA AskedOfCard ==
    ASSUME Asked, UNCHANGED <<asked, flusher, ring>>, times'.boot = times.boot,
           card'.whole => card.whole /\ Keeps(card', card)
    PROVE  Asked'
<1>1. StillToWrite' = StillToWrite /\ InHand(Writer)' = InHand(Writer)
      /\ InHand(Rebooter)' = InHand(Rebooter)
  BY DEF StillToWrite, InHand
<1>2. card'.whole => CardLines(card.files, times.boot) \subseteq CardLines(card'.files, times'.boot)
  BY LastingLines
<1> QED BY <1>1, <1>2, AskedLasts DEF Whereabouts

\* What goes out of a flusher's hands or the buffer is in a flusher's hands, or
\* has come to the card.
LEMMA HandsLoseNone ==
    ASSUME LogOK, UNCHANGED times, NEW who \in Flushers, NEW step, Flushes(who, step),
           card'.whole => /\ card.whole
                          /\ CardLines(card.files, times.boot) \cup ToSet(flusher[who].chunk)
                                \subseteq CardLines(card'.files, times.boot) \cup ToSet(step.chunk),
           StillToWrite \subseteq StillToWrite' \cup ToSet(step.chunk)
    PROVE  card'.whole => card.whole /\ Whereabouts \subseteq Whereabouts'
<1> Writer \in Flushers /\ Rebooter \in Flushers BY DEF Flushers
<1>1. \A other \in Flushers : flusher'[other] = IF other = who THEN step ELSE flusher[other]
  BY DEF Flushes, LogOK, StepsOK
<1>2. InHand(who)' = ToSet(step.chunk) /\ InHand(who) = ToSet(flusher[who].chunk)
  BY <1>1 DEF InHand
<1>3. \A other \in Flushers : other # who => InHand(other)' = InHand(other)
  BY <1>1 DEF InHand
<1>4. who = Writer \/ who = Rebooter BY DEF Flushers
<1>5. CASE who = Writer BY <1>2, <1>3, <1>5, LoggerAssumption DEF Whereabouts
<1>6. CASE who = Rebooter BY <1>2, <1>3, <1>6, LoggerAssumption DEF Whereabouts
<1> QED BY <1>4, <1>5, <1>6

LEMMA AskedPush ==
    ASSUME Asked, LogOK, NEW thread \in Threads, Push(thread)
    PROVE  Asked'
<1>1. ToSet(ring) \subseteq ToSet(ring')
  <2>1. ring \in Seq(Lines) BY DEF LogOK, RingOK
  <2>2. PICK len \in Nat : len = Len(ring) /\ DOMAIN ring = 1..len BY <2>1, LenProperties
  <2>3. CASE ring' = Append(ring, logging[thread])
    <3>1. logging[thread] \in Lines BY DEF Push, LogOK, LoggingOK
    <3>2. /\ ring' \in Seq(Lines) /\ Len(ring') = len + 1
          /\ \A i \in 1..len : ring'[i] = ring[i]
      BY <2>1, <2>2, <2>3, <3>1, AppendProperties
    <3>3. \A i \in DOMAIN ring : i \in DOMAIN ring' /\ ring'[i] = ring[i]
      BY <2>2, <3>2, LenProperties
    <3> QED BY <3>3 DEF ToSet
  <2> QED BY <2>3 DEF Push
<1>2. UNCHANGED <<asked, flusher, card, times>> BY DEF Push
<1>3. StillToWrite \subseteq StillToWrite' BY <1>1, <1>2 DEF StillToWrite
<1>4. Whereabouts \subseteq Whereabouts' BY <1>2, <1>3 DEF Whereabouts, InHand
<1> QED BY <1>2, <1>4, AskedLasts

LEMMA AskedTakeChunk ==
    ASSUME Asked, LogOK, NEW who \in Flushers, TakeChunk(who)
    PROVE  Asked'
<1> Rebooter \in Flushers BY DEF Flushers
<1> PICK chunk : chunk = ChunkOf(ring) OBVIOUS
<1> PICK rest : rest = AfterChunk(ring) OBVIOUS
<1> PICK step : step = [at |-> "Writing", chunk |-> chunk, dropped |-> dropped, more |-> rest # <<>>]
  OBVIOUS
<1>1. /\ Flushes(who, step) /\ ring' = rest /\ flusher[who].at = "Flushing"
      /\ UNCHANGED <<card, times, asked>>
  BY DEF TakeChunk
<1>2. step.at = "Writing" /\ step.chunk = chunk /\ (step.more <=> rest # <<>>) OBVIOUS
<1>3. \A other \in Flushers : flusher'[other] = IF other = who THEN step ELSE flusher[other]
  BY <1>1 DEF Flushes, LogOK, StepsOK
<1>4. flusher[who].chunk = <<>> /\ ToSet(<<>>) = {}
  BY <1>1, NoLinesAtAll DEF LogOK, HandsOK
<1>5. ToSet(ring) \subseteq ToSet(chunk) \cup ToSet(rest)
  <2>1. ring \in Seq(Lines) BY DEF LogOK, RingOK
  <2>2. PICK k \in Nat :
            /\ \A i \in DOMAIN chunk : i \in DOMAIN ring /\ i <= k /\ chunk[i] = ring[i]
            /\ \A i \in DOMAIN rest : k + i \in DOMAIN ring /\ rest[i] = ring[k + i]
            /\ \A i \in DOMAIN ring : i \in DOMAIN chunk \/ i - k \in DOMAIN rest
    BY <2>1, ChunkFacts
  <2>3. \A i \in DOMAIN ring : i \in Nat BY <2>1, LenProperties
  <2>4. ASSUME NEW i \in DOMAIN ring PROVE ring[i] \in ToSet(chunk) \cup ToSet(rest)
    <3>1. CASE i \in DOMAIN chunk BY <2>2, <3>1 DEF ToSet
    <3>2. CASE i - k \in DOMAIN rest
      <4>1. PICK j \in DOMAIN rest : j = i - k BY <3>2
      <4>2. k + j = i BY <2>3, <4>1
      <4>3. rest[j] = ring[i] BY <2>2, <4>2
      <4> QED BY <4>3 DEF ToSet
    <3> QED BY <2>2, <3>1, <3>2
  <2> QED BY <2>4 DEF ToSet
<1>6. StillToWrite \subseteq StillToWrite' \cup ToSet(step.chunk)
  <2>1. CASE who = Rebooter
    <3>1. flusher'[Rebooter].at = "Writing" /\ (flusher'[Rebooter].more <=> rest # <<>>)
      BY <1>2, <1>3, <2>1
    <3>2. rest = <<>> => ToSet(rest) = {} BY <1>4
    <3>3. rest # <<>> => StillToWrite' = ToSet(rest) BY <1>1, <3>1 DEF StillToWrite
    <3> QED BY <1>2, <1>5, <3>2, <3>3 DEF StillToWrite
  <2>2. CASE who # Rebooter
    <3>1. flusher'[Rebooter] = flusher[Rebooter] BY <1>3, <2>2
    <3> QED BY <1>1, <1>2, <1>5, <3>1 DEF StillToWrite
  <2> QED BY <2>1, <2>2
<1>7. flusher'[Rebooter].at # "Resting" => flusher[Rebooter].at # "Resting"
  BY <1>1, <1>3
<1>8. card'.whole => card.whole /\ Whereabouts \subseteq Whereabouts'
  BY <1>1, <1>4, <1>6, HandsLoseNone
<1> QED BY <1>1, <1>7, <1>8, AskedLasts

LEMMA WriteChunkLosesNone ==
    ASSUME LogOK, NEW who \in Flushers, WriteChunk(who)
    PROVE  card'.whole => card.whole /\ Whereabouts \subseteq Whereabouts'
<1> Rebooter \in Flushers BY DEF Flushers
<1> PICK step : step = [Resting EXCEPT !.at = Onwards(who, flusher[who].more)] OBVIOUS
<1>1. /\ Flushes(who, step) /\ UNCHANGED <<ring, times>> /\ flusher[who].at = "Writing"
  BY DEF WriteChunk
<1>2. step.at = Onwards(who, flusher[who].more) /\ step.chunk = <<>> /\ ToSet(<<>>) = {}
  BY NoLinesAtAll DEF Resting
<1>3. \A other \in Flushers : flusher'[other] = IF other = who THEN step ELSE flusher[other]
  BY <1>1 DEF Flushes, LogOK, StepsOK
<1>4. PICK boot \in Nat : boot = times.boot BY TimesFacts DEF LogOK, RestOK
<1>5. PICK chunk \in Seq(Lines) : chunk = flusher[who].chunk /\ LinesOf(chunk, boot)
  BY <1>4, StepFacts DEF LogOK, StepsOK
<1>6. card'.whole => card.whole /\ Keeps(card', card) /\ Gets(card', chunk)
  BY <1>4, <1>5, WriteChunkFacts DEF LogOK
<1>7. card'.whole => /\ card.whole
                     /\ CardLines(card.files, boot) \cup ToSet(chunk)
                            \subseteq CardLines(card'.files, boot)
  <2> SUFFICES ASSUME card'.whole
               PROVE  CardLines(card.files, boot) \cup ToSet(chunk) \subseteq CardLines(card'.files, boot)
    BY <1>6
  <2>1. CardLines(card.files, boot) \subseteq CardLines(card'.files, boot) BY <1>6, LastingLines
  <2>2. ASSUME NEW k \in DOMAIN chunk PROVE chunk[k] \in CardLines(card'.files, boot)
    <3>1. chunk[k] \in Lines BY ElementOfSeq, LenProperties
    <3>2. IsLine(chunk[k]) /\ chunk[k].boot = boot BY <1>5, <3>1, LineFacts DEF LinesOf
    <3>3. PICK n \in Nat, i \in Nat : LineAt(card'.files, n, i) /\ EntryAt(card'.files, n, i) = chunk[k]
      BY <1>6, <3>2 DEF Gets
    <3> QED BY <3>1, <3>2, <3>3 DEF CardLines
  <2> QED BY <2>1, <2>2 DEF ToSet
<1>8. StillToWrite \subseteq StillToWrite'
  <2>1. CASE who = Rebooter
    <3>1. flusher'[Rebooter].at = IF flusher[Rebooter].more THEN "Flushing" ELSE "Flushed"
      BY <1>2, <1>3, <2>1, LoggerAssumption DEF Onwards
    <3> QED BY <1>1, <2>1, <3>1 DEF StillToWrite
  <2>2. CASE who # Rebooter
    <3>1. flusher'[Rebooter] = flusher[Rebooter] BY <1>3, <2>2
    <3> QED BY <1>1, <3>1 DEF StillToWrite
  <2> QED BY <2>1, <2>2
<1>9. card'.whole => /\ card.whole
                     /\ CardLines(card.files, times.boot) \cup ToSet(flusher[who].chunk)
                            \subseteq CardLines(card'.files, times.boot) \cup ToSet(step.chunk)
  BY <1>4, <1>5, <1>7
<1> QED BY <1>1, <1>8, <1>9, HandsLoseNone

LEMMA AskedWriteChunk ==
    ASSUME Asked, LogOK, NEW who \in Flushers, WriteChunk(who)
    PROVE  Asked'
<1>1. asked' \subseteq asked BY DEF WriteChunk
<1>2. flusher'[Rebooter].at # "Resting" => flusher[Rebooter].at # "Resting"
  BY DEF WriteChunk, Flushes, LogOK, StepsOK
<1> QED BY <1>1, <1>2, WriteChunkLosesNone, AskedLasts

LEMMA AskedRebootSoon ==
    ASSUME LogOK, RebootSoon
    PROVE  Asked'
<1> Writer \in Flushers /\ Rebooter \in Flushers BY DEF Flushers
<1>1. asked' = {} \/ /\ asked' = ToSet(ring) \cup InHand(Writer)
                     /\ Flushes(Rebooter, [Resting EXCEPT !.at = "Flushing"])
  BY DEF RebootSoon
<1>2. CASE asked' = {} BY <1>2 DEF Asked
<1>3. CASE /\ asked' = ToSet(ring) \cup InHand(Writer)
           /\ Flushes(Rebooter, [Resting EXCEPT !.at = "Flushing"])
  <2> PICK step : step = [Resting EXCEPT !.at = "Flushing"] /\ step.at = "Flushing"
    BY RestingFacts
  <2>1. flusher'[Rebooter] = step /\ flusher'[Writer] = flusher[Writer]
    BY <1>3, LoggerAssumption DEF Flushes, LogOK, StepsOK
  <2>2. ring' = ring BY DEF RebootSoon
  <2>3. InHand(Writer)' = InHand(Writer) /\ StillToWrite' = ToSet(ring)
    BY <2>1, <2>2 DEF InHand, StillToWrite
  <2> QED BY <1>3, <2>3 DEF Asked, Whereabouts
<1> QED BY <1>1, <1>2, <1>3

LEMMA AskedInit == Init => Asked
BY DEF Init, Asked, Flushers, Resting

LEMMA AskedStep == LogOK /\ Asked /\ [Next]_vars => Asked'
<1> SUFFICES ASSUME LogOK, Asked, [Next]_vars PROVE Asked' OBVIOUS
<1> Writer \in Flushers /\ Rebooter \in Flushers BY DEF Flushers
<1>1. ASSUME NEW thread \in Threads, CheckKeeping(thread) PROVE Asked'
  <2>1. UNCHANGED <<asked, flusher, ring, card>> /\ times'.boot = times.boot
    BY <1>1, CheckKeepingOK DEF CheckKeeping
  <2>2. Keeps(card', card) BY <2>1 DEF Keeps
  <2> QED BY <2>1, <2>2, AskedOfCard
<1>2. ASSUME NEW thread \in Threads, Push(thread) PROVE Asked' BY <1>2, AskedPush
<1>3. CASE FindPending
  <2> PICK step : step = [Resting EXCEPT !.at = "Flushing"] /\ step.chunk = <<>>
    BY RestingFacts
  <2>1. Flushes(Writer, step) /\ UNCHANGED <<asked, times, ring, card>> BY <1>3 DEF FindPending
  <2>2. flusher[Writer].chunk = <<>> BY <1>3 DEF FindPending, LogOK, HandsOK
  <2>3. flusher'[Rebooter] = flusher[Rebooter]
    BY <2>1, LoggerAssumption DEF Flushes, LogOK, StepsOK
  <2>4. StillToWrite' = StillToWrite BY <2>1, <2>3 DEF StillToWrite
  <2>5. card'.whole => card.whole /\ Whereabouts \subseteq Whereabouts'
    BY <2>1, <2>2, <2>4, HandsLoseNone
  <2> QED BY <2>1, <2>3, <2>5, AskedLasts
<1>4. ASSUME NEW who \in Flushers, TakeChunk(who) PROVE Asked' BY <1>4, AskedTakeChunk
<1>5. ASSUME NEW who \in Flushers, WriteChunk(who) PROVE Asked' BY <1>5, AskedWriteChunk
<1>6. CASE Boot BY <1>6, BootOK, AskedOfCard DEF Boot, Lasts
<1>7. CASE SwitchOn BY <1>7, SwitchOnOK, AskedOfCard DEF SwitchOn, Lasts
<1>8. CASE SwitchOff
  <2>1. Keeps(card', card) BY <1>8, SwitchOffOK DEF Keeps
  <2> QED BY <1>8, <2>1, SwitchOffOK, AskedOfCard DEF SwitchOff
<1>9. CASE CloseFile BY <1>9, CloseFileOK, AskedOfCard DEF CloseFile, Lasts
<1>10. CASE StopDiscards BY <1>10, StopDiscardsOK DEF Asked
<1>11. CASE EraseAll BY <1>11, EraseAllOK DEF Asked
<1>12. CASE RebootSoon BY <1>12, AskedRebootSoon
<1>13. CASE Restart BY <1>13 DEF Restart, Asked, Resting
<1>14. CASE UNCHANGED vars
  BY <1>14 DEF vars, Asked, Whereabouts, StillToWrite, InHand
<1> QED BY <1>1, <1>2, <1>3, <1>4, <1>5, <1>6, <1>7, <1>8, <1>9, <1>10, <1>11, <1>12,
           <1>13, <1>14 DEF Next

\* When flush_all returns, what was waiting as it began is in the file, or in the
\* hands of the log thread, unless lines were thrown away (Logger.FlushedOrInHand):
\* the two threads may take each other's chunks, and lose none between them.
THEOREM FlushReachesTheCard == Spec => FlushedOrInHand
<1>1. ASSUME LogOK, Asked, [Next]_vars, LogOK',
             flusher[Rebooter].at = "Writing", flusher'[Rebooter].at = "Flushed", card'.whole
      PROVE  asked \subseteq (OnCard \cup InHand(Writer))'
  <2> Rebooter \in Flushers BY DEF Flushers
  <2>1. WriteChunk(Rebooter)
    <3>1. flusher' # flusher BY <1>1
    <3>2. ASSUME NEW who \in Flushers, NEW step, Flushes(who, step), who # Rebooter
          PROVE  FALSE
      BY <1>1, <3>2 DEF Flushes, LogOK, StepsOK
    <3>3. ASSUME TakeChunk(Rebooter) PROVE FALSE BY <1>1, <3>3 DEF TakeChunk
    <3>4. ASSUME FindPending PROVE FALSE
      BY <3>2, <3>4, LoggerAssumption DEF FindPending, Flushers
    <3>5. ASSUME RebootSoon PROVE FALSE BY <1>1, <3>5 DEF RebootSoon
    <3>6. ASSUME Restart PROVE FALSE BY <1>1, <3>6 DEF Restart, Resting
    <3>7. ASSUME NEW who \in Flushers, who # Rebooter, TakeChunk(who) \/ WriteChunk(who)
          PROVE  FALSE
      BY <3>2, <3>7 DEF TakeChunk, WriteChunk
    <3> QED BY <1>1, <3>1, <3>3, <3>4, <3>5, <3>6, <3>7
            DEF Next, vars, CheckKeeping, Push, Boot, SwitchOn, SwitchOff, CloseFile,
                StopDiscards, EraseAll
  <2>2. asked \subseteq Whereabouts' BY <1>1, <2>1, WriteChunkLosesNone DEF Asked
  <2>3. InHand(Rebooter)' = {} /\ StillToWrite' = {}
    BY <1>1, NoLinesAtAll DEF LogOK, HandsOK, InHand, StillToWrite
  <2>4. ASSUME NEW line \in CardLines(card'.files, times'.boot)
        PROVE  line \in OnCard'
    <3>1. PICK n \in Nat, i \in Nat : LineAt(card'.files, n, i) /\ EntryAt(card'.files, n, i) = line
      BY DEF CardLines
    <3>2. line.boot = times'.boot BY DEF CardLines
    <3>3. OfTheirBoot(card'.files, times'.boot) BY <1>1 DEF LogOK, Good
    <3>4. card'.files[n].boot = times'.boot BY <3>1, <3>2, <3>3 DEF OfTheirBoot
    <3>5. n \in BootsFiles(times.boot)' /\ line \in ToSet(card'.files[n].entries) /\ IsLine(line)
      BY <3>1, <3>4 DEF LineAt, EntryAt, BootsFiles, ToSet
    <3> QED BY <3>5 DEF OnCard
  <2> QED BY <2>2, <2>3, <2>4 DEF Whereabouts
<1>2. LogOK /\ Asked /\ LogOK' /\ [Next]_vars =>
        [flusher[Rebooter].at = "Writing" /\ flusher'[Rebooter].at = "Flushed" /\ card'.whole
            => asked \subseteq (OnCard \cup InHand(Writer))']_vars
  BY <1>1
<1> QED BY <1>2, LogOKInit, LogOKStep, AskedInit, AskedStep, PTL DEF Spec, FlushedOrInHand

===============================================================================
