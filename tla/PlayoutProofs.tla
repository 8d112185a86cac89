----------------------------- MODULE PlayoutProofs -----------------------------
(***************************************************************************)
(* Theorems about module Playout: for all talkers, any number of packets   *)
(* and conveyors, and queues of any size, what is played implements        *)
(* OrderedPlayback, decodes in flight are counted right, and the tail      *)
(* comes last.                                                             *)
(***************************************************************************)
EXTENDS Playout, FiniteSetTheorems, SequenceTheorems, TLAPS

-----------------------------------------------------------------------------
(* What has been played, and what may be next *)

\* The last audio played is the packet before `next`, and but tails since.
Ready(plays, next) ==
    /\ SpeakerFeed!Rendered(plays)
    /\ next = NIL => SpeakerFeed!AudioAt(plays) = {}
    /\ next # NIL =>
          \E i \in SpeakerFeed!AudioAt(plays) :
              /\ plays[i].packet = next - 1
              /\ \A k \in i+1..Len(plays) : plays[k] = SpeakerFeed!Squelch

\* Not started, nothing is played but one packet may be held; started, none is.
Playing(p, out) ==
    /\ ~p.started => out = <<>> /\ (p.held = NIL <=> p.next = NIL)
    /\ p.held # NIL => ~p.started /\ p.next = p.held + 1
    /\ p.started => p.held = NIL /\ Ready(out, p.next)

Playouts == [next : Nat \cup {NIL}, held : Nat \cup {NIL}, started : BOOLEAN,
             inFlight : Nat, squelch : BOOLEAN]

LEMMA PlayKinds ==
    /\ SpeakerFeed!Silence \in Plays /\ SpeakerFeed!Squelch \in Plays
    /\ \A n \in Nat : /\ SpeakerFeed!Audio(n) \in Plays
                      /\ SpeakerFeed!Audio(n).packet = n
                      /\ SpeakerFeed!IsAudio(SpeakerFeed!Audio(n))
                      /\ SpeakerFeed!Audio(n) # SpeakerFeed!Silence
                      /\ SpeakerFeed!Audio(n) # SpeakerFeed!Squelch
    /\ SpeakerFeed!Silence # SpeakerFeed!Squelch
    /\ ~SpeakerFeed!IsAudio(SpeakerFeed!Silence)
    /\ ~SpeakerFeed!IsAudio(SpeakerFeed!Squelch)
    /\ \A play \in Plays : SpeakerFeed!IsAudio(play) => play.packet \in Nat
  BY DEF Plays, SpeakerFeed!Silence, SpeakerFeed!Squelch, SpeakerFeed!Audio, SpeakerFeed!IsAudio

\* OrderedPlayback's Rendered, a pair of neighbours at a time.
LEMMA RenderedIs ==
    ASSUME NEW plays
    PROVE  LET AudioAt == SpeakerFeed!AudioAt(plays)
           IN  SpeakerFeed!Rendered(plays) <=>
               /\ \A i, j \in AudioAt :
                     i < j /\ (\A k \in AudioAt : k <= i \/ j <= k) =>
                         LET missing == plays[j].packet - plays[i].packet - 1
                         IN  /\ 0 <= missing
                             /\ SpeakerFeed!SilencesBetween(plays, i, j) =
                                    SpeakerFeed!Lesser(missing, MostSilences)
               /\ \A k \in DOMAIN plays :
                     plays[k] = SpeakerFeed!Silence =>
                         \E i, j \in AudioAt : i < k /\ k < j
  <1> DEFINE AudioAt == SpeakerFeed!AudioAt(plays)
             Good(i, j) ==
                 LET missing == plays[j].packet - plays[i].packet - 1
                 IN  /\ 0 <= missing
                     /\ SpeakerFeed!SilencesBetween(plays, i, j) =
                            SpeakerFeed!Lesser(missing, MostSilences)
             Near(i, j) == i < j /\ (\A k \in AudioAt : k <= i \/ j <= k)
  <1>1. (\A ij \in SpeakerFeed!Neighbours(plays) : Good(ij[1], ij[2]))
           <=> \A i, j \in AudioAt : Near(i, j) => Good(i, j)
    <2>1. SpeakerFeed!Neighbours(plays) = {ij \in AudioAt \X AudioAt : Near(ij[1], ij[2])}
      BY DEF SpeakerFeed!Neighbours
    <2> HIDE DEF AudioAt, Good, Near
    <2>2. ASSUME \A ij \in SpeakerFeed!Neighbours(plays) : Good(ij[1], ij[2]),
                 NEW i \in AudioAt, NEW j \in AudioAt, Near(i, j)
          PROVE  Good(i, j)
      <3>1. <<i, j>> \in SpeakerFeed!Neighbours(plays)
        BY <2>1, <2>2
      <3> QED
        BY <2>2, <3>1
    <2> QED
      BY <2>1, <2>2
  <1> QED
    BY <1>1 DEF SpeakerFeed!Rendered

LEMMA SameCardinality ==
    ASSUME NEW S
    PROVE  SpeakerFeed!Cardinality(S) = Cardinality(S)
  BY DEF SpeakerFeed!Cardinality, Cardinality

LEMMA SilencesCounted ==
    ASSUME NEW plays, NEW i, NEW j
    PROVE  SpeakerFeed!SilencesBetween(plays, i, j)
               = Cardinality({k \in i..j : plays[k] = SpeakerFeed!Silence})
  <1> DEFINE quiet == {k \in i..j : plays[k] = SpeakerFeed!Silence}
  <1>1. SpeakerFeed!SilencesBetween(plays, i, j) = SpeakerFeed!Cardinality(quiet)
    BY Zenon DEF SpeakerFeed!SilencesBetween
  <1> HIDE DEF quiet
  <1>2. SpeakerFeed!SilencesBetween(plays, i, j) = Cardinality(quiet)
    BY <1>1, SameCardinality
  <1> QED
    BY <1>2 DEF quiet

LEMMA RunLength ==
    ASSUME NEW a \in Nat, NEW n \in Nat
    PROVE  Cardinality((a + 1)..(a + n)) = n
  <1>1. ASSUME NEW b \in Int, NEW c \in Int
        PROVE  Cardinality(b..c) = IF b > c THEN 0 ELSE c - b + 1
    BY FS_Interval
  <1> QED
    BY <1>1

\* Silences for the packets lost, and the packet after them.
LEMMA AudioAdded ==
    ASSUME NEW s \in Seq(Plays), NEW next \in Nat \cup {NIL}, Ready(s, next),
           NEW q \in Nat, next # NIL => next <= q,
           NEW n \in Nat,
           n = IF next = NIL THEN 0 ELSE SpeakerFeed!Lesser(q - next, MostSilences),
           NEW t \in Seq(Plays), Len(t) = Len(s) + n + 1,
           \A i \in 1..Len(s) : t[i] = s[i],
           \A i \in Len(s)+1..Len(s)+n : t[i] = SpeakerFeed!Silence,
           t[Len(t)] = SpeakerFeed!Audio(q)
    PROVE  Ready(t, q + 1)
  <1> DEFINE audio == SpeakerFeed!AudioAt(s)
  <1>1. /\ Len(s) \in Nat /\ Len(t) \in Nat /\ DOMAIN s = 1..Len(s) /\ DOMAIN t = 1..Len(t)
        /\ \A i \in 1..Len(s) : s[i] \in Plays
    OBVIOUS
  <1>2. audio \subseteq 1..Len(s)
        /\ \A i \in audio : s[i].packet \in Nat /\ s[i] # SpeakerFeed!Silence
                            /\ s[i] # SpeakerFeed!Squelch
    BY <1>1, PlayKinds DEF SpeakerFeed!AudioAt
  <1>3. SpeakerFeed!AudioAt(t) = audio \cup {Len(t)}
    <2>1. ASSUME NEW i \in 1..Len(t)
          PROVE  \/ i \in 1..Len(s) /\ t[i] = s[i]
                 \/ ~SpeakerFeed!IsAudio(t[i]) /\ i \notin 1..Len(s) \cup {Len(t)}
                 \/ SpeakerFeed!IsAudio(t[i]) /\ i = Len(t)
      <3>1. CASE i = Len(t)
        BY <3>1, PlayKinds
      <3>2. CASE i # Len(t) /\ i > Len(s)
        <4>1. t[i] = SpeakerFeed!Silence
          BY <1>1, <3>2
        <4> QED
          BY <1>1, <3>2, <4>1, PlayKinds
      <3> QED
        BY <1>1, <3>1, <3>2
    <2> QED
      BY <1>1, <2>1, PlayKinds DEF SpeakerFeed!AudioAt
  <1>4. \A i \in audio : next # NIL
    BY DEF Ready
  <1>5. next # NIL =>
            \E l \in audio : /\ s[l].packet = next - 1
                             /\ \A k \in l+1..Len(s) : s[k] = SpeakerFeed!Squelch
    BY DEF Ready
  <1>6. /\ \A i, j \in audio :
              i < j /\ (\A k \in audio : k <= i \/ j <= k) =>
                  LET missing == s[j].packet - s[i].packet - 1
                  IN  /\ 0 <= missing
                      /\ SpeakerFeed!SilencesBetween(s, i, j) =
                             SpeakerFeed!Lesser(missing, MostSilences)
        /\ \A k \in 1..Len(s) :
              s[k] = SpeakerFeed!Silence => \E i, j \in audio : i < k /\ k < j
    BY <1>1, RenderedIs DEF Ready
  <1> HIDE DEF audio
  <1>7. ASSUME NEW i \in audio \cup {Len(t)}, NEW j \in audio \cup {Len(t)}, i < j,
               \A k \in audio \cup {Len(t)} : k <= i \/ j <= k
        PROVE  LET missing == t[j].packet - t[i].packet - 1
               IN  /\ 0 <= missing
                   /\ SpeakerFeed!SilencesBetween(t, i, j) =
                          SpeakerFeed!Lesser(missing, MostSilences)
    <2>1. i \in audio /\ i <= Len(s) /\ Len(s) < Len(t) /\ t[i] = s[i]
      BY <1>1, <1>2, <1>7
    <2>2. CASE j \in audio
      <3>1. t[j] = s[j] /\ j <= Len(s) /\ i \in Nat /\ j \in Nat
        BY <1>1, <1>2, <2>1, <2>2
      <3>2. {k \in i..j : t[k] = SpeakerFeed!Silence} = {k \in i..j : s[k] = SpeakerFeed!Silence}
        BY <1>1, <1>2, <2>1, <2>2, <3>1
      <3>3. SpeakerFeed!SilencesBetween(t, i, j) = SpeakerFeed!SilencesBetween(s, i, j)
        BY <3>2 DEF SpeakerFeed!SilencesBetween
      <3> QED
        BY <1>6, <1>7, <2>1, <2>2, <3>1, <3>3
    <2>3. CASE j = Len(t)
      <3>1. next \in Nat /\ next <= q
        BY <1>4, <2>1
      <3>2. PICK l \in audio : /\ s[l].packet = next - 1
                               /\ \A k \in l+1..Len(s) : s[k] = SpeakerFeed!Squelch
        BY <1>5, <3>1, PlayoutAssumption
      <3>3. l <= i
        BY <1>1, <1>2, <1>7, <2>1, <2>3
      <3>4. i = l
        BY <1>1, <1>2, <2>1, <3>2, <3>3
      <3>5. t[j].packet - t[i].packet - 1 = q - next
        BY <2>1, <2>3, <3>1, <3>2, <3>4, PlayKinds
      <3>6. {k \in i..j : t[k] = SpeakerFeed!Silence} = (Len(s) + 1)..(Len(s) + n)
        <4>1. \A k \in i..Len(s) : t[k] # SpeakerFeed!Silence
          <5>1. s[i] # SpeakerFeed!Silence
            BY <1>2, <2>1
          <5>2. \A k \in i+1..Len(s) : s[k] # SpeakerFeed!Silence
            BY <3>2, <3>4, PlayKinds
          <5> QED
            BY <1>1, <1>2, <2>1, <5>1, <5>2
        <4>2. t[Len(t)] # SpeakerFeed!Silence
          BY PlayKinds
        <4>3. i \in Nat /\ Len(s) \in Nat /\ j = Len(s) + n + 1 /\ i <= Len(s)
          BY <1>1, <1>2, <2>1, <2>3
        <4>4. \A k : k \in i..j /\ t[k] = SpeakerFeed!Silence
                        <=> k \in (Len(s) + 1)..(Len(s) + n)
          <5> SUFFICES ASSUME NEW k
                       PROVE  k \in i..j /\ t[k] = SpeakerFeed!Silence
                                <=> k \in (Len(s) + 1)..(Len(s) + n)
            OBVIOUS
          <5>1. CASE k \in i..Len(s)
            BY <4>1, <4>3, <5>1
          <5>2. CASE k \in (Len(s) + 1)..(Len(s) + n)
            BY <1>1, <4>3, <5>2
          <5>3. CASE k = j
            BY <2>3, <4>2, <4>3, <5>3
          <5>4. k \in i..j => k \in i..Len(s) \/ k \in (Len(s) + 1)..(Len(s) + n) \/ k = j
            BY <4>3
          <5> QED
            BY <5>1, <5>2, <5>3, <5>4
        <4> QED
          BY <4>4, Zenon
      <3>7. Cardinality((Len(s) + 1)..(Len(s) + n)) = n
        BY <1>1, RunLength
      <3>8. SpeakerFeed!SilencesBetween(t, i, j) = SpeakerFeed!Lesser(q - next, MostSilences)
        <4>1. SpeakerFeed!SilencesBetween(t, i, j)
                  = Cardinality({k \in i..j : t[k] = SpeakerFeed!Silence})
          BY SilencesCounted, Zenon
        <4>2. SpeakerFeed!SilencesBetween(t, i, j) = Cardinality((Len(s) + 1)..(Len(s) + n))
          BY <3>6, <4>1, Zenon
        <4> QED
          BY <3>1, <3>7, <4>2, PlayoutAssumption
      <3> QED
        BY <3>1, <3>5, <3>8
    <2> QED
      BY <2>2, <2>3
  <1>8. ASSUME NEW k \in 1..Len(t), t[k] = SpeakerFeed!Silence
        PROVE  \E i, j \in audio \cup {Len(t)} : i < k /\ k < j
    <2>1. k # Len(t)
      BY <1>8, PlayKinds
    <2>2. CASE k <= Len(s)
      BY <1>1, <1>6, <1>8, <2>2
    <2>3. CASE k > Len(s)
      <3>1. next # NIL
        BY <1>1, <1>8, <2>1, <2>3
      <3>2. PICK l \in audio : l <= Len(s)
        BY <1>2, <1>5, <3>1
      <3> QED
        BY <1>1, <1>2, <1>8, <2>1, <2>3, <3>2
    <2> QED
      BY <1>1, <2>2, <2>3
  <1>9. SpeakerFeed!Rendered(t)
    BY <1>1, <1>3, <1>7, <1>8, RenderedIs
  <1>10. Len(t) \in SpeakerFeed!AudioAt(t) /\ t[Len(t)].packet = (q + 1) - 1
    BY <1>3, PlayKinds
  <1> QED
    BY <1>1, <1>9, <1>10, PlayoutAssumption DEF Ready

\* A tail leaves it as ready as it was.
LEMMA SquelchAdded ==
    ASSUME NEW s \in Seq(Plays), NEW next \in Nat \cup {NIL}, Ready(s, next),
           NEW t \in Seq(Plays), t = s \o <<SpeakerFeed!Squelch>>
    PROVE  Ready(t, next)
  <1>1. /\ Len(s) \in Nat /\ Len(t) = Len(s) + 1 /\ DOMAIN s = 1..Len(s) /\ DOMAIN t = 1..Len(t)
        /\ \A i \in 1..Len(s) : t[i] = s[i]
        /\ t[Len(t)] = SpeakerFeed!Squelch
    BY PlayKinds
  <1>2. SpeakerFeed!AudioAt(t) = SpeakerFeed!AudioAt(s)
    BY <1>1, PlayKinds DEF SpeakerFeed!AudioAt
  <1>3. SpeakerFeed!AudioAt(s) \subseteq 1..Len(s)
    BY <1>1 DEF SpeakerFeed!AudioAt
  <1>4. \A i, j \in SpeakerFeed!AudioAt(s) :
           SpeakerFeed!SilencesBetween(t, i, j) = SpeakerFeed!SilencesBetween(s, i, j)
    <2> SUFFICES ASSUME NEW i \in 1..Len(s), NEW j \in 1..Len(s)
                 PROVE  {k \in i..j : t[k] = SpeakerFeed!Silence}
                            = {k \in i..j : s[k] = SpeakerFeed!Silence}
      BY <1>3 DEF SpeakerFeed!SilencesBetween
    <2> QED
      BY <1>1
  <1>5. SpeakerFeed!Rendered(t)
    <2> DEFINE audio == SpeakerFeed!AudioAt(s)
    <2>1. /\ \A i, j \in audio :
                i < j /\ (\A k \in audio : k <= i \/ j <= k) =>
                    LET missing == s[j].packet - s[i].packet - 1
                    IN  /\ 0 <= missing
                        /\ SpeakerFeed!SilencesBetween(s, i, j) =
                               SpeakerFeed!Lesser(missing, MostSilences)
          /\ \A k \in 1..Len(s) :
                s[k] = SpeakerFeed!Silence => \E i, j \in audio : i < k /\ k < j
      BY <1>1, RenderedIs DEF Ready
    <2>2. \A i \in audio : t[i] = s[i]
      BY <1>1, <1>3
    <2>3. \A k \in 1..Len(t) : t[k] = SpeakerFeed!Silence => k \in 1..Len(s) /\ t[k] = s[k]
      BY <1>1, PlayKinds
    <2> HIDE DEF audio
    <2>4. /\ \A i, j \in audio :
                i < j /\ (\A k \in audio : k <= i \/ j <= k) =>
                    LET missing == t[j].packet - t[i].packet - 1
                    IN  /\ 0 <= missing
                        /\ SpeakerFeed!SilencesBetween(t, i, j) =
                               SpeakerFeed!Lesser(missing, MostSilences)
          /\ \A k \in 1..Len(t) :
                t[k] = SpeakerFeed!Silence => \E i, j \in audio : i < k /\ k < j
      BY <1>4, <2>1, <2>2, <2>3 DEF audio
    <2> QED
      BY <1>1, <1>2, <2>4, RenderedIs DEF audio
  <1>6. ASSUME next # NIL
        PROVE  \E i \in SpeakerFeed!AudioAt(t) :
                  /\ t[i].packet = next - 1
                  /\ \A k \in i+1..Len(t) : t[k] = SpeakerFeed!Squelch
    <2>1. PICK i \in SpeakerFeed!AudioAt(s) :
                  /\ s[i].packet = next - 1
                  /\ \A k \in i+1..Len(s) : s[k] = SpeakerFeed!Squelch
      BY <1>6 DEF Ready
    <2> QED
      BY <1>1, <1>2, <1>3, <2>1
  <1> QED
    BY <1>2, <1>5, <1>6 DEF Ready

LEMMA NothingReady == Ready(<<>>, NIL)
  BY RenderedIs DEF Ready, SpeakerFeed!AudioAt

-----------------------------------------------------------------------------
(* The playout's operations *)

LEMMA BackType ==
    ASSUME NEW p \in Playouts
    PROVE  /\ Returned(p) \in Playouts /\ Returned(p).inFlight <= p.inFlight
           /\ p.inFlight > 0 => Returned(p).inFlight = p.inFlight - 1
           /\ Returned(p).next = p.next /\ Returned(p).held = p.held
           /\ Returned(p).started = p.started /\ Returned(p).squelch = p.squelch
  BY DEF Returned, Playouts

\* What the playout becomes, held or started.
Holding(p, packet, next) == [p EXCEPT !.held = packet, !.next = next]
Started(p, next) == LET tail == p.squelch /\ p.inFlight = 0
                    IN  [Start(p) EXCEPT !.next = next, !.squelch = p.squelch /\ ~tail]

LEMMA HoldsType ==
    ASSUME NEW p \in Playouts, NEW packet \in Nat, NEW next \in Nat
    PROVE  LET new == Holding(p, packet, next)
           IN  /\ new \in Playouts /\ new.inFlight = p.inFlight
               /\ new.held = packet /\ new.next = next /\ new.started = p.started
  <1>0. PICK new : new = Holding(p, packet, next)
    OBVIOUS
  <1>1. new \in Playouts
    BY <1>0 DEF Playouts, Holding
  <1>2. new.started = p.started
    BY <1>0, Zenon DEF Playouts, Holding
  <1> QED
    BY <1>0, <1>1, <1>2 DEF Playouts, Holding

LEMMA StartsType ==
    ASSUME NEW p \in Playouts, NEW next \in Nat
    PROVE  LET new == Started(p, next)
           IN  /\ new \in Playouts /\ new.inFlight = p.inFlight
               /\ new.held = NIL /\ new.next = next /\ new.started = TRUE
  <1>0. PICK new : new = Started(p, next)
    OBVIOUS
  <1>1. PICK start : start = Start(p)
    OBVIOUS
  <1>2. /\ start \in Playouts /\ start.inFlight = p.inFlight
        /\ start.held = NIL /\ start.started = TRUE
    BY <1>1 DEF Playouts, Start
  <1> DEFINE squelch == p.squelch /\ ~(p.squelch /\ p.inFlight = 0)
  <1>3. squelch \in BOOLEAN
    OBVIOUS
  <1>4. new = [start EXCEPT !.next = next, !.squelch = squelch]
    BY <1>0, <1>1 DEF Started
  <1> HIDE DEF squelch
  <1>5. new \in Playouts
    BY <1>2, <1>3, <1>4 DEF Playouts
  <1>6. new.started = start.started
    BY <1>2, <1>4, Zenon DEF Playouts
  <1>7. new.inFlight = start.inFlight /\ new.held = start.held /\ new.next = next
    BY <1>2, <1>4 DEF Playouts
  <1> QED
    BY <1>0, <1>2, <1>5, <1>6, <1>7

LEMMA Associative == \A x, y, z \in Seq(Plays) : (x \o y) \o z = x \o (y \o z)
  BY ConcatAssociative

\* Sequences of plays as the provers need them: kept folded.
IsPlays(s) == s \in Seq(Plays)
Cat(s, t)  == s \o t

LEMMA CatIs ==
    /\ \A x, y : IsPlays(x) /\ IsPlays(y) => IsPlays(Cat(x, y))
    /\ \A x, y, z : IsPlays(x) /\ IsPlays(y) /\ IsPlays(z) =>
           Cat(Cat(x, y), z) = Cat(x, Cat(y, z))
  BY Associative DEF IsPlays, Cat

LEMMA CatAt ==
    ASSUME NEW x, NEW y, IsPlays(x), IsPlays(y), NEW z, z = Cat(x, y)
    PROVE  /\ IsPlays(z) /\ Len(x) \in Nat /\ Len(y) \in Nat
           /\ Len(z) = Len(x) + Len(y)
           /\ \A i \in 1..Len(x) : z[i] = x[i]
           /\ \A i \in 1..Len(y) : z[Len(x) + i] = y[i]
  BY DEF IsPlays, Cat

LEMMA CatLast ==
    ASSUME NEW x, NEW y, IsPlays(x), IsPlays(y), 1 = Len(y), NEW z, z = Cat(x, y)
    PROVE  /\ IsPlays(z) /\ Len(x) \in Nat /\ Len(z) = Len(x) + 1
           /\ \A i \in 1..Len(x) : z[i] = x[i]
           /\ z[Len(z)] = y[1]
  <1>1. /\ IsPlays(z) /\ Len(x) \in Nat /\ Len(z) = Len(x) + Len(y)
        /\ \A i \in 1..Len(x) : z[i] = x[i]
        /\ \A i \in 1..Len(y) : z[Len(x) + i] = y[i]
    BY CatAt
  <1>2. \A i \in {1} : z[Len(x) + i] = y[i]
    BY <1>1
  <1> QED
    BY <1>1, <1>2

LEMMA CatEmpty == IsPlays(<<>>) /\ Len(<<>>) = 0 /\ \A x : IsPlays(x) => Cat(x, <<>>) = x
  BY ConcatEmptySeq DEF IsPlays, Cat

LEMMA CatOne ==
    \A x \in Plays : IsPlays(<<x>>) /\ Len(<<x>>) = 1 /\ <<x>>[1] = x
  BY DEF IsPlays

LEMMA CatFive ==
    ASSUME NEW v, NEW w, NEW x, NEW y, NEW z,
           IsPlays(v), IsPlays(w), IsPlays(x), IsPlays(y), IsPlays(z)
    PROVE  Cat(v, Cat(Cat(Cat(w, x), y), z)) = Cat(Cat(Cat(Cat(v, w), x), y), z)
  <1>1. /\ IsPlays(Cat(w, x)) /\ IsPlays(Cat(Cat(w, x), y)) /\ IsPlays(Cat(v, w))
        /\ IsPlays(Cat(Cat(v, w), x))
    BY CatIs
  <1>2. Cat(Cat(v, Cat(Cat(w, x), y)), z) = Cat(v, Cat(Cat(Cat(w, x), y), z))
    BY <1>1, CatIs
  <1>3. Cat(Cat(v, Cat(w, x)), y) = Cat(v, Cat(Cat(w, x), y))
    BY <1>1, CatIs
  <1>4. Cat(Cat(v, w), x) = Cat(v, Cat(w, x))
    BY CatIs
  <1> QED
    BY <1>1, <1>2, <1>3, <1>4

\* Silences and the packet, after what was played.
LEMMA AudioAfter ==
    ASSUME NEW before, NEW silences, NEW audio,
           IsPlays(before), IsPlays(silences), IsPlays(audio),
           NEW next \in Nat \cup {NIL}, Ready(before, next),
           NEW packet \in Nat, next # NIL => next <= packet,
           Len(silences) = IF next = NIL THEN 0
                           ELSE SpeakerFeed!Lesser(packet - next, MostSilences),
           \A i \in 1..Len(silences) : silences[i] = SpeakerFeed!Silence,
           1 = Len(audio), audio[1] = SpeakerFeed!Audio(packet)
    PROVE  Ready(Cat(Cat(before, silences), audio), packet + 1)
  <1>1. PICK most : most = Cat(before, silences)
    OBVIOUS
  <1>2. /\ IsPlays(most) /\ Len(before) \in Nat /\ Len(silences) \in Nat
        /\ Len(most) = Len(before) + Len(silences)
        /\ \A i \in 1..Len(before) : most[i] = before[i]
        /\ \A i \in 1..Len(silences) : most[Len(before) + i] = silences[i]
    BY <1>1, CatAt
  <1>3. PICK all : all = Cat(most, audio)
    OBVIOUS
  <1>4. /\ IsPlays(all) /\ Len(all) = Len(most) + 1
        /\ \A i \in 1..Len(most) : all[i] = most[i]
        /\ all[Len(most) + 1] = SpeakerFeed!Audio(packet)
    <2>1. IsPlays(most)
      BY <1>2
    <2> QED
      BY <1>2, <1>3, <2>1, CatLast
  <1>5. ASSUME NEW i \in Len(before)+1..Len(before)+Len(silences)
        PROVE  all[i] = SpeakerFeed!Silence
    <2>1. i - Len(before) \in 1..Len(silences) /\ i \in 1..Len(most)
          /\ i = Len(before) + (i - Len(before))
      BY <1>2
    <2> QED
      BY <1>2, <1>4, <2>1
  <1>6. \A i \in 1..Len(before) : all[i] = before[i]
    BY <1>2, <1>4
  <1>7. Len(all) = Len(before) + Len(silences) + 1
        /\ all[Len(all)] = SpeakerFeed!Audio(packet)
    BY <1>2, <1>4
  <1>8. Ready(all, packet + 1)
    BY <1>2, <1>4, <1>5, <1>6, <1>7, AudioAdded DEF IsPlays
  <1> QED
    BY <1>1, <1>3, <1>8

\* With what is held played, it is ready for the next packet.
LEMMA HeldReady ==
    ASSUME NEW p \in Playouts, NEW out, IsPlays(out), Playing(p, out)
    PROVE  IsPlays(HeldPlays(p)) /\ Ready(Cat(out, HeldPlays(p)), p.next)
  <1>1. CASE p.held = NIL
    <2>1. HeldPlays(p) = <<>> /\ Cat(out, <<>>) = out /\ IsPlays(<<>>)
      BY <1>1, CatEmpty DEF HeldPlays
    <2>2. Ready(out, p.next)
      BY <1>1, NothingReady DEF Playing, Playouts
    <2> QED
      BY <2>1, <2>2
  <1>2. CASE p.held # NIL
    <2>1. PICK audio : audio = <<SpeakerFeed!Audio(p.held)>>
      OBVIOUS
    <2>2. /\ p.held \in Nat /\ p.next = p.held + 1 /\ out = <<>>
          /\ HeldPlays(p) = audio
      BY <1>2, <2>1 DEF Playing, Playouts, HeldPlays
    <2>3. IsPlays(audio) /\ 1 = Len(audio) /\ audio[1] = SpeakerFeed!Audio(p.held)
      BY <2>1, <2>2, CatOne, PlayKinds
    <2>4. PICK none : none = <<>>
      OBVIOUS
    <2>5. IsPlays(none) /\ Len(none) = 0 /\ Ready(none, NIL) /\ Cat(none, none) = none
      BY <2>4, CatEmpty, NothingReady
    <2>6. \A i \in 1..Len(none) : none[i] = SpeakerFeed!Silence
      BY <2>5
    <2>7. NIL \in Nat \cup {NIL}
      OBVIOUS
    <2>8. Ready(Cat(Cat(none, none), audio), p.held + 1)
      BY <2>2, <2>3, <2>5, <2>6, <2>7, AudioAfter
    <2> QED
      BY <2>2, <2>3, <2>4, <2>5, <2>8
  <1> QED
    BY <1>1, <1>2

\* What is held, the silences, the packet, and maybe the tail.
LEMMA AudioPlayed ==
    ASSUME NEW out, NEW held, NEW silences, NEW audio, NEW tail,
           IsPlays(out), IsPlays(held), IsPlays(silences), IsPlays(audio),
           NEW next \in Nat \cup {NIL}, Ready(Cat(out, held), next),
           NEW packet \in Nat, next # NIL => next <= packet,
           Len(silences) = IF next = NIL THEN 0
                           ELSE SpeakerFeed!Lesser(packet - next, MostSilences),
           \A i \in 1..Len(silences) : silences[i] = SpeakerFeed!Silence,
           1 = Len(audio), audio[1] = SpeakerFeed!Audio(packet),
           tail = <<>> \/ tail = <<SpeakerFeed!Squelch>>,
           NEW plays, plays = Cat(Cat(Cat(held, silences), audio), tail)
    PROVE  /\ IsPlays(plays) /\ Len(plays) > 0
           /\ Ready(Cat(out, plays), packet + 1)
           /\ plays[Len(plays)] = SpeakerFeed!Squelch => tail # <<>>
  <1>1. IsPlays(tail)
    BY CatEmpty, CatOne, PlayKinds
  <1>2. PICK now : now = Cat(Cat(Cat(out, held), silences), audio)
    OBVIOUS
  <1>3. IsPlays(Cat(out, held)) /\ IsPlays(now)
    BY <1>2, CatIs
  <1>4. Ready(now, packet + 1)
    BY <1>2, <1>3, AudioAfter
  <1>5. Cat(out, plays) = Cat(now, tail)
    BY <1>1, <1>2, CatFive
  <1>6. Ready(Cat(out, plays), packet + 1)
    <2>1. CASE tail = <<>>
      BY <1>3, <1>4, <1>5, <2>1, CatEmpty
    <2>2. CASE tail = <<SpeakerFeed!Squelch>>
      <3>1. PICK after : after = Cat(now, tail)
        OBVIOUS
      <3>2. IsPlays(after) /\ packet + 1 \in Nat
        BY <1>1, <1>3, <3>1, CatIs
      <3>3. Ready(after, packet + 1)
        BY <1>3, <1>4, <2>2, <3>1, <3>2, SquelchAdded DEF IsPlays, Cat
      <3> QED
        BY <1>5, <3>1, <3>3
    <2> QED
      BY <2>1, <2>2
  <1>7. PICK all : all = Cat(Cat(held, silences), audio)
    OBVIOUS
  <1>8. IsPlays(Cat(held, silences))
    BY CatIs
  <1>9. /\ IsPlays(all) /\ Len(all) = Len(Cat(held, silences)) + 1
        /\ all[Len(all)] = SpeakerFeed!Audio(packet)
        /\ Len(Cat(held, silences)) \in Nat
    <2>1. PICK most : most = Cat(held, silences)
      OBVIOUS
    <2>2. all = Cat(most, audio) /\ IsPlays(most)
      BY <1>7, <1>8, <2>1
    <2>3. IsPlays(all) /\ Len(all) = Len(most) + 1 /\ Len(most) \in Nat /\ all[Len(all)] = audio[1]
      BY <2>2, CatLast
    <2> QED
      BY <2>1, <2>3
  <1>10. IsPlays(plays) /\ Len(plays) = Len(all) + Len(tail) /\ Len(tail) \in Nat
    BY <1>1, <1>7, <1>9, CatAt
  <1>11. tail = <<>> => plays = all
    BY <1>7, <1>9, CatEmpty
  <1> QED
    BY <1>6, <1>9, <1>10, <1>11, PlayKinds

\* The packet and the silences before it come after what was played; the tail, if
\* it comes, after the last decode in flight.
LEMMA DecodedPlays ==
    ASSUME NEW p \in Playouts, NEW packet \in Nat, NEW out, IsPlays(out), Playing(p, out)
    PROVE  LET into == DecodedInto(p, packet)
           IN  /\ into.playout \in Playouts
               /\ into.playout.inFlight = Returned(p).inFlight
               /\ IsPlays(into.plays)
               /\ Playing(into.playout, Cat(out, into.plays))
               /\ into.plays # <<>> /\ Last(into.plays) = SpeakerFeed!Squelch =>
                      into.playout.inFlight = 0
  <1> DEFINE into == DecodedInto(p, packet)
  <1>0. /\ p.next \in Nat \cup {NIL} /\ p.held \in Nat \cup {NIL} /\ NIL \notin Int
        /\ packet + 1 # NIL
    BY PlayoutAssumption DEF Playouts
  <1>c. PICK back : back = Returned(p)
    OBVIOUS
  <1>a. /\ back = Returned(p) /\ back \in Playouts /\ back.next = p.next /\ back.held = p.held
        /\ back.started = p.started
    BY <1>c, BackType
  <1>d. back \in Playouts
    BY <1>a
  <1>b. IsPlays(<<>>) /\ Cat(out, <<>>) = out
    BY CatEmpty
  <1>1. CASE packet < NextPacket(p, packet)
    <2>1. into = [playout |-> back, plays |-> <<>>]
      BY <1>1, <1>a DEF DecodedInto
    <2>2. Playing(back, out)
      BY <1>a DEF Playing
    <2> QED
      BY <1>a, <1>b, <2>1, <2>2
  <1>2. CASE ~(packet < NextPacket(p, packet)) /\ HoldsFirst(p, packet)
    <2>a. PICK next \in Nat : next = packet + 1
      OBVIOUS
    <2>1. PICK new : new = Holding(back, packet, next)
      OBVIOUS
    <2>2. into = [playout |-> new, plays |-> <<>>]
      BY <1>2, <1>a, <2>a, <2>1 DEF DecodedInto, Holding
    <2>3. /\ new \in Playouts /\ new.inFlight = back.inFlight
          /\ new.held = packet /\ new.next = next /\ new.started = back.started
      BY <1>d, <2>1, HoldsType
    <2>4. out = <<>> /\ ~back.started
      BY <1>2, <1>a DEF HoldsFirst, Playing
    <2>5. Playing(new, out)
      BY <1>0, <2>a, <2>3, <2>4 DEF Playing
    <2> QED
      BY <1>a, <1>b, <2>2, <2>3, <2>5
  <1>3. CASE ~(packet < NextPacket(p, packet)) /\ ~HoldsFirst(p, packet)
    <2>2. PICK tail : tail = IF back.squelch /\ back.inFlight = 0
                             THEN <<SpeakerFeed!Squelch>> ELSE <<>>
      OBVIOUS
    <2>d. PICK audio : audio = <<SpeakerFeed!Audio(packet)>>
      OBVIOUS
    <2>e. IsPlays(audio) /\ 1 = Len(audio) /\ audio[1] = SpeakerFeed!Audio(packet)
      BY <2>d, CatOne, PlayKinds
    <2>g. PICK next \in Nat : next = packet + 1
      OBVIOUS
    <2>4. PICK new : new = Started(back, next)
      OBVIOUS
    <2>a. PICK n : n = Missing(p, packet)
      OBVIOUS
    <2>5. n \in Nat /\ n = IF p.next = NIL THEN 0
                          ELSE SpeakerFeed!Lesser(packet - p.next, MostSilences)
      BY <1>0, <1>3, <2>a, PlayoutAssumption DEF Missing, NextPacket, SpeakerFeed!Lesser
    <2>b. PICK silences : silences = [i \in 1..n |-> SpeakerFeed!Silence]
      OBVIOUS
    <2>6. /\ IsPlays(silences) /\ Len(silences) = n
          /\ \A i \in 1..n : silences[i] = SpeakerFeed!Silence
      BY <2>5, <2>b, PlayKinds DEF IsPlays
    <2>c. PICK held : held = HeldPlays(p)
      OBVIOUS
    <2>7. IsPlays(held) /\ Ready(Cat(out, held), p.next)
      BY <2>c, HeldReady
    <2>8. PICK plays : plays = Cat(Cat(Cat(held, silences), audio), tail)
      OBVIOUS
    <2>9. p.next # NIL => p.next <= packet
      BY <1>0, <1>3 DEF NextPacket
    <2>f. /\ IsPlays(plays) /\ Len(plays) > 0
          /\ Ready(Cat(out, plays), packet + 1)
          /\ plays[Len(plays)] = SpeakerFeed!Squelch => tail # <<>>
      BY <1>0, <2>2, <2>5, <2>6, <2>7, <2>8, <2>9, <2>e, AudioPlayed
    <2>10. Last(plays) = SpeakerFeed!Squelch => tail # <<>>
      BY <2>f DEF Last
    <2>11. /\ new \in Playouts /\ new.inFlight = back.inFlight
           /\ new.held = NIL /\ new.next = next /\ new.started = TRUE
      BY <1>d, <2>4, StartsType
    <2>12. into = [playout |-> new, plays |-> plays]
      BY <1>3, <1>a, <2>2, <2>4, <2>8, <2>a, <2>b, <2>c, <2>d, <2>g DEF DecodedInto, Cat, Started
    <2>13. Playing(new, Cat(out, plays))
      BY <2>f, <2>g, <2>11 DEF Playing
    <2>14. Last(plays) = SpeakerFeed!Squelch => new.inFlight = 0
      BY <2>2, <2>10, <2>11
    <2> QED
      BY <1>a, <2>f, <2>11, <2>12, <2>13, <2>14
  <1> QED
    BY <1>1, <1>2, <1>3

LEMMA EndedPlays ==
    ASSUME NEW p \in Playouts, NEW out, IsPlays(out), Playing(p, out)
    PROVE  LET ended == EndedInto(p)
           IN  /\ ended.playout \in Playouts
               /\ ended.playout.inFlight = p.inFlight
               /\ IsPlays(ended.plays)
               /\ Playing(ended.playout, Cat(out, ended.plays))
               /\ ended.plays # <<>> /\ Last(ended.plays) = SpeakerFeed!Squelch =>
                      p.inFlight = 0
  <1> DEFINE ended == EndedInto(p)
  <1>a. PICK held : held = HeldPlays(p)
    OBVIOUS
  <1>b. PICK tail : tail = <<SpeakerFeed!Squelch>>
    OBVIOUS
  <1>1. IsPlays(held) /\ Ready(Cat(out, held), p.next)
    BY <1>a, HeldReady
  <1>2. CASE p.inFlight = 0
    <2>a. PICK new : new = Start(p)
      OBVIOUS
    <2>b. PICK plays : plays = Cat(held, tail)
      OBVIOUS
    <2>1. ended = [playout |-> new, plays |-> plays]
      BY <1>2, <1>a, <1>b, <2>a, <2>b DEF EndedInto, Cat
    <2>2. /\ new \in Playouts /\ new.inFlight = p.inFlight /\ new.started = TRUE
          /\ new.held = NIL /\ new.next = p.next
      BY <2>a DEF Start, Playouts
    <2>3. IsPlays(tail) /\ IsPlays(plays) /\ IsPlays(Cat(out, held))
      BY <1>1, <1>b, <2>b, CatIs, CatOne, PlayKinds
    <2>4. Cat(out, plays) = Cat(Cat(out, held), tail)
      BY <1>1, <2>b, <2>3, CatIs
    <2>5. Ready(Cat(out, plays), p.next)
      <3>1. p.next \in Nat \cup {NIL}
        BY DEF Playouts
      <3>2. PICK before, after : before = Cat(out, held) /\ after = Cat(before, tail)
        OBVIOUS
      <3>3. IsPlays(before) /\ IsPlays(after) /\ Ready(before, p.next)
        BY <1>1, <2>3, <3>2, CatIs
      <3>4. Ready(after, p.next)
        BY <1>b, <3>1, <3>2, <3>3, SquelchAdded DEF IsPlays, Cat
      <3> QED
        BY <2>4, <3>2, <3>4
    <2>6. Playing(new, Cat(out, plays))
      BY <2>2, <2>3, <2>5 DEF Playing
    <2> QED
      BY <1>2, <2>1, <2>2, <2>3, <2>6
  <1>3. CASE p.inFlight # 0
    <2>a. PICK new : new = [Start(p) EXCEPT !.squelch = TRUE]
      OBVIOUS
    <2>1. ended = [playout |-> new, plays |-> held]
      BY <1>3, <1>a, <2>a DEF EndedInto
    <2>2. /\ new \in Playouts /\ new.inFlight = p.inFlight /\ new.started = TRUE
          /\ new.held = NIL /\ new.next = p.next
      BY <2>a DEF Start, Playouts
    <2>3. held # <<>> => Last(held) # SpeakerFeed!Squelch
      <3>1. held = <<>> \/ (p.held \in Nat /\ held = <<SpeakerFeed!Audio(p.held)>>)
        BY <1>a DEF HeldPlays, Playouts
      <3> QED
        BY <3>1, PlayKinds DEF Last
    <2>4. Playing(new, Cat(out, held))
      BY <1>1, <2>2 DEF Playing
    <2> QED
      BY <1>1, <2>1, <2>2, <2>3, <2>4
  <1> QED
    BY <1>2, <1>3

-----------------------------------------------------------------------------
(* Type correctness *)

Codecs == [asked : Seq(Decodes), working : Seq(Decodes), done : Seq(Decodes)]

Heards == [out : Seq(Plays), mixed : BOOLEAN, lost : BOOLEAN, again : BOOLEAN]

LEMMA TypeIs ==
    TypeOK <=>
    /\ conveyor \in [txid : Txids, next : Nat] \cup {NIL} /\ conveyors \in 0..MaxConveyors
    /\ playing \in Txids \cup {NIL}
    /\ playout \in Playouts /\ codec \in Codecs /\ heard \in Heards
    /\ Len(codec.asked) <= RequestCap /\ Len(codec.working) <= 1
    /\ Len(codec.done) <= DecodedCap
  BY DEF TypeOK, Playouts, Codecs, Heards

LEMMA StaleType ==
    ASSUME NEW decodes \in Seq(Decodes)
    PROVE  /\ Stale(decodes) \in Seq(Decodes)
           /\ Len(Stale(decodes)) = Len(decodes)
           /\ \A i \in 1..Len(decodes) : Stale(decodes)[i].stale = TRUE
  <1>1. ASSUME NEW i \in 1..Len(decodes)
        PROVE  /\ [decodes[i] EXCEPT !.stale = TRUE] \in Decodes
               /\ [decodes[i] EXCEPT !.stale = TRUE].stale = TRUE
    <2>1. PICK decode \in Decodes : decode = decodes[i]
      OBVIOUS
    <2>2. [decode EXCEPT !.stale = TRUE] \in Decodes
      BY DEF Decodes
    <2>3. [decode EXCEPT !.stale = TRUE].stale = TRUE
      BY Zenon DEF Decodes
    <2> QED
      BY <2>1, <2>2, <2>3
  <1>2. Stale(decodes) = [i \in 1..Len(decodes) |-> [decodes[i] EXCEPT !.stale = TRUE]]
    BY DEF Stale
  <1>3. Len(decodes) \in Nat
    OBVIOUS
  <1> HIDE DEF Stale
  <1>4. Stale(decodes) \in [1..Len(decodes) -> Decodes]
    BY <1>1, <1>2
  <1>5. Stale(decodes) \in Seq(Decodes) /\ Len(Stale(decodes)) = Len(decodes)
    BY <1>3, <1>4
  <1>6. \A i \in 1..Len(decodes) : Stale(decodes)[i].stale = TRUE
    BY <1>1, <1>2
  <1> QED
    BY <1>5, <1>6

LEMMA AllStaleType ==
    ASSUME NEW c \in Codecs
    PROVE  /\ AllStale(c) \in Codecs
           /\ Len(AllStale(c).asked) = Len(c.asked)
           /\ Len(AllStale(c).working) = Len(c.working)
           /\ Len(AllStale(c).done) = Len(c.done)
  BY StaleType DEF AllStale, Codecs

LEMMA NothingTypes ==
    /\ NewPlayout \in Playouts /\ NothingHeard \in Heards
    /\ NewPlayout.inFlight = 0 /\ NothingHeard.out = <<>>
    /\ Playing(NewPlayout, <<>>)
  BY DEF NewPlayout, NothingHeard, Playouts, Heards, Playing

LEMMA ForTypes ==
    ASSUME TypeOK, Playing(playout, heard.out), NEW txid
    PROVE  /\ PlayoutFor(txid) \in Playouts
           /\ HeardFor(txid) \in Heards
           /\ CodecFor(txid) \in Codecs
           /\ Len(CodecFor(txid).asked) = Len(codec.asked)
           /\ Len(CodecFor(txid).working) = Len(codec.working)
           /\ Len(CodecFor(txid).done) = Len(codec.done)
           /\ IsPlays(HeardFor(txid).out)
           /\ Playing(PlayoutFor(txid), HeardFor(txid).out)
  <1>1. /\ playout \in Playouts /\ heard \in Heards /\ codec \in Codecs
        /\ IsPlays(heard.out)
    BY TypeIs DEF Heards, IsPlays
  <1> QED
    BY <1>1, NothingTypes, AllStaleType, CatEmpty DEF PlayoutFor, HeardFor, CodecFor

\* A step's effect on what has been played: nothing more, a reset, another
\* transmission's tail alone, or more plays, a tail only with no decode in flight.
PlaysOn ==
    \/ heard'.out \in {heard.out, <<>>}
    \/ heard'.out = <<SpeakerFeed!Squelch>> /\ playout'.inFlight = 0
    \/ \E plays : /\ IsPlays(plays) /\ plays # <<>> /\ heard'.out = Cat(heard.out, plays)
                  /\ Last(plays) = SpeakerFeed!Squelch => playout'.inFlight = 0

\* The variables the codec and the speaker see, after a step.
Sound ==
    /\ playing' \in Txids \cup {NIL}
    /\ playout' \in Playouts /\ codec' \in Codecs /\ heard' \in Heards
    /\ Len(codec'.asked) <= RequestCap /\ Len(codec'.working) <= 1
    /\ Len(codec'.done) <= DecodedCap
    /\ Playing(playout', heard'.out)
    /\ PlaysOn

LEMMA HeardOut ==
    ASSUME NEW h \in Heards, NEW out, IsPlays(out)
    PROVE  LET new == [h EXCEPT !.out = out]
           IN  new \in Heards /\ new.out = out
  BY DEF Heards, IsPlays

LEMMA AppendType ==
    ASSUME NEW s \in Seq(Decodes), NEW decode \in Decodes
    PROVE  /\ Append(s, decode) \in Seq(Decodes)
           /\ Len(Append(s, decode)) = Len(s) + 1
  OBVIOUS

LEMMA CodecLens ==
    ASSUME NEW c \in Codecs
    PROVE  Len(c.asked) \in Nat /\ Len(c.working) \in Nat /\ Len(c.done) \in Nat
  BY DEF Codecs

LEMMA DecodeStep ==
    ASSUME TypeOK, Playing(playout, heard.out), NEW txid \in Txids, NEW packet \in Nat,
           Decode(txid, packet)
    PROVE  Sound
  <1>1. PICK p, c, h : p = PlayoutFor(txid) /\ c = CodecFor(txid) /\ h = HeardFor(txid)
    OBVIOUS
  <1>2. /\ p \in Playouts /\ h \in Heards /\ c \in Codecs
        /\ Len(c.asked) = Len(codec.asked) /\ Len(c.working) = Len(codec.working)
        /\ Len(c.done) = Len(codec.done)
        /\ Playing(p, h.out)
    BY <1>1, ForTypes
  <1>3. h.out = heard.out \/ h.out = <<>>
    BY <1>1 DEF HeardFor, NothingHeard
  <1>4. PICK request : request = [txid |-> txid, packet |-> packet, stale |-> FALSE]
    OBVIOUS
  <1>5. request \in Decodes
    BY <1>4 DEF Decodes
  <1>6. /\ playing' = txid
        /\ heard' = [h EXCEPT !.again = @ \/ (conveyor = NIL /\ ~Switches(txid))]
        /\ \/ Len(c.asked) < RequestCap /\ codec' = [c EXCEPT !.asked = Append(@, request)]
              /\ playout' = Decoding(p)
           \/ codec' = c /\ playout' = p
    BY <1>1, <1>4 DEF Decode
  <1>7. heard' \in Heards /\ heard'.out = h.out
    BY <1>2, <1>6 DEF Heards
  <1>8. /\ playout' \in Playouts /\ Playing(playout', h.out)
    <2>1. CASE playout' = Decoding(p)
      <3>1. /\ playout' \in Playouts
            /\ playout'.next = p.next /\ playout'.held = p.held
        BY <1>2, <2>1 DEF Playouts, Decoding
      <3>2. playout'.started = p.started
        BY <1>2, <2>1, Zenon DEF Playouts, Decoding
      <3> QED
        BY <1>2, <3>1, <3>2 DEF Playing
    <2> QED
      BY <1>2, <1>6, <2>1
  <1>9. /\ codec' \in Codecs
        /\ Len(codec'.asked) <= RequestCap /\ Len(codec'.working) <= 1
        /\ Len(codec'.done) <= DecodedCap
    <2>1. CASE codec' = c
      BY <1>2, <2>1, TypeIs
    <2>2. CASE Len(c.asked) < RequestCap /\ codec' = [c EXCEPT !.asked = Append(@, request)]
      <3>1. PICK asked : asked = Append(c.asked, request)
        OBVIOUS
      <3>2. c.asked \in Seq(Decodes)
        BY <1>2 DEF Codecs
      <3>3. asked \in Seq(Decodes) /\ Len(asked) = Len(c.asked) + 1
        BY <1>5, <3>1, <3>2, AppendType
      <3>4. /\ codec' \in Codecs /\ codec'.asked = asked
            /\ codec'.working = c.working /\ codec'.done = c.done
        BY <1>2, <2>2, <3>1, <3>3 DEF Codecs
      <3>5. Len(codec'.asked) <= RequestCap
        <4>1. Len(c.asked) \in Nat
          BY <1>2, CodecLens
        <4>2. Len(codec'.asked) = Len(c.asked) + 1 /\ Len(c.asked) < RequestCap
          BY <2>2, <3>3, <3>4
        <4> QED
          BY <4>1, <4>2, PlayoutAssumption
      <3>6. Len(codec'.working) <= 1 /\ Len(codec'.done) <= DecodedCap
        BY <1>2, <3>4, TypeIs
      <3> QED
        BY <3>4, <3>5, <3>6
    <2> QED
      BY <1>6, <2>1, <2>2
  <1> QED
    BY <1>3, <1>6, <1>7, <1>8, <1>9 DEF Sound, PlaysOn

LEMMA EndStep ==
    ASSUME TypeOK, Playing(playout, heard.out), NEW txid \in Txids, End(txid)
    PROVE  Sound
  <1>1. PICK p, h : p = PlayoutFor(txid) /\ h = HeardFor(txid)
    OBVIOUS
  <1>2. /\ p \in Playouts /\ h \in Heards /\ IsPlays(h.out) /\ Playing(p, h.out)
        /\ CodecFor(txid) \in Codecs
        /\ Len(CodecFor(txid).asked) = Len(codec.asked)
        /\ Len(CodecFor(txid).working) = Len(codec.working)
        /\ Len(CodecFor(txid).done) = Len(codec.done)
    BY <1>1, ForTypes
  <1>3. PICK ended : ended = EndedInto(p)
    OBVIOUS
  <1>4. /\ ended.playout \in Playouts /\ ended.playout.inFlight = p.inFlight
        /\ IsPlays(ended.plays)
        /\ Playing(ended.playout, Cat(h.out, ended.plays))
        /\ ended.plays # <<>> /\ Last(ended.plays) = SpeakerFeed!Squelch => p.inFlight = 0
    BY <1>2, <1>3, EndedPlays
  <1>5. /\ playing' = txid /\ playout' = ended.playout /\ codec' = CodecFor(txid)
        /\ heard' = [h EXCEPT !.out = h.out \o ended.plays]
    BY <1>1, <1>3 DEF End
  <1>6. PICK out : out = Cat(h.out, ended.plays)
    OBVIOUS
  <1>7. IsPlays(out) /\ heard' = [h EXCEPT !.out = out]
    <2>1. heard' = [h EXCEPT !.out = out]
      BY <1>5, <1>6 DEF Cat
    <2> QED
      BY <1>2, <1>4, <1>6, <2>1, CatIs
  <1>8. heard' \in Heards /\ heard'.out = out
    BY <1>2, <1>7, HeardOut
  <1>9. PlaysOn
    <2>1. CASE Switches(txid)
      <3>1. p = NewPlayout /\ h.out = <<>>
        BY <1>1, <2>1 DEF PlayoutFor, HeardFor, NothingHeard
      <3>2. ended.plays = Cat(<<>>, <<SpeakerFeed!Squelch>>) /\ p.inFlight = 0
        BY <1>3, <3>1 DEF EndedInto, NewPlayout, HeldPlays, Cat
      <3>3. Cat(<<>>, <<SpeakerFeed!Squelch>>) = <<SpeakerFeed!Squelch>>
        BY PlayKinds DEF Cat
      <3>4. out = <<SpeakerFeed!Squelch>>
        BY <1>6, <3>1, <3>2, <3>3
      <3> QED
        BY <1>4, <1>5, <1>8, <3>2, <3>4 DEF PlaysOn
    <2>2. CASE ~Switches(txid)
      <3>1. h.out = heard.out
        BY <1>1, <2>2 DEF HeardFor
      <3>2. CASE ended.plays = <<>>
        <4>1. out = heard.out
          BY <1>2, <1>6, <3>1, <3>2, CatEmpty
        <4> QED
          BY <1>8, <4>1 DEF PlaysOn
      <3> QED
        BY <1>4, <1>5, <1>6, <1>8, <3>1, <3>2 DEF PlaysOn
    <2> QED
      BY <2>1, <2>2
  <1> QED
    BY <1>2, <1>4, <1>5, <1>6, <1>8, <1>9, TypeIs DEF Sound

LEMMA ForgetStep ==
    ASSUME TypeOK, Forget
    PROVE  Sound
  <1>1. /\ playing' = NIL /\ playout' = NewPlayout /\ codec' = AllStale(codec)
        /\ heard' = NothingHeard
    BY DEF Forget
  <1> QED
    BY <1>1, NothingTypes, AllStaleType, TypeIs DEF Sound, PlaysOn

LEMMA TailType ==
    ASSUME NEW s \in Seq(Decodes), s # <<>>
    PROVE  /\ Tail(s) \in Seq(Decodes) /\ Head(s) \in Decodes
           /\ Len(s) \in Nat /\ Len(Tail(s)) = Len(s) - 1
  OBVIOUS

LEMMA DecodedStep ==
    ASSUME TypeOK, Playing(playout, heard.out), OnDecoded
    PROVE  Sound
  <1>1. /\ playing \in Txids \cup {NIL} /\ playout \in Playouts /\ codec \in Codecs
        /\ heard \in Heards /\ IsPlays(heard.out)
        /\ Len(codec.asked) <= RequestCap /\ Len(codec.working) <= 1
        /\ Len(codec.done) <= DecodedCap
    BY TypeIs DEF Heards, IsPlays
  <1>2. codec.done \in Seq(Decodes) /\ codec.done # <<>>
    BY <1>1 DEF Codecs, OnDecoded
  <1>3. PICK decode \in Decodes : decode = Head(codec.done)
    BY <1>2, TailType
  <1>4. PICK into : into = DecodedInto(playout, decode.packet)
    OBVIOUS
  <1>5. decode.packet \in Nat
    BY DEF Decodes
  <1>6. /\ into.playout \in Playouts /\ IsPlays(into.plays)
        /\ Playing(into.playout, Cat(heard.out, into.plays))
        /\ into.plays # <<>> /\ Last(into.plays) = SpeakerFeed!Squelch =>
               into.playout.inFlight = 0
    BY <1>1, <1>4, <1>5, DecodedPlays
  <1>7. /\ codec' \in Codecs
        /\ Len(codec'.asked) <= RequestCap /\ Len(codec'.working) <= 1
        /\ Len(codec'.done) <= DecodedCap
    <2>1. PICK done : done = Tail(codec.done)
      OBVIOUS
    <2>2. done \in Seq(Decodes) /\ Len(done) <= DecodedCap
      BY <1>1, <1>2, <2>1, TailType, PlayoutAssumption
    <2>3. codec' = [codec EXCEPT !.done = done]
      BY <2>1 DEF OnDecoded
    <2>4. /\ codec' \in Codecs /\ codec'.done = done
          /\ codec'.asked = codec.asked /\ codec'.working = codec.working
      BY <1>1, <2>2, <2>3 DEF Codecs
    <2> QED
      BY <1>1, <2>2, <2>4
  <1>8. /\ \/ /\ playout' = into.playout
              /\ heard' = [heard EXCEPT !.out = heard.out \o into.plays,
                                        !.mixed = heard.mixed \/ decode.stale]
           \/ UNCHANGED <<playout, heard>>
        /\ playing' = playing
    BY <1>3, <1>4 DEF OnDecoded
  <1>9. CASE UNCHANGED <<playout, heard>>
    BY <1>1, <1>7, <1>8, <1>9 DEF Sound, PlaysOn
  <1>10. CASE /\ playout' = into.playout
              /\ heard' = [heard EXCEPT !.out = heard.out \o into.plays,
                                        !.mixed = heard.mixed \/ decode.stale]
    <2>1. PICK out : out = Cat(heard.out, into.plays)
      OBVIOUS
    <2>2. IsPlays(out)
      BY <1>1, <1>6, <2>1, CatIs
    <2>3. heard' = [heard EXCEPT !.out = out, !.mixed = heard.mixed \/ decode.stale]
      BY <1>10, <2>1 DEF Cat
    <2>4. heard' \in Heards /\ heard'.out = out
      BY <1>1, <2>2, <2>3 DEF Heards, IsPlays
    <2>5. PlaysOn
      <3>1. CASE into.plays = <<>>
        <4>1. out = heard.out
          BY <1>1, <2>1, <3>1, CatEmpty
        <4> QED
          BY <2>4, <4>1 DEF PlaysOn
      <3> QED
        BY <1>6, <1>10, <2>1, <2>4, <3>1 DEF PlaysOn
    <2> QED
      BY <1>1, <1>6, <1>7, <1>8, <1>10, <2>1, <2>4, <2>5 DEF Sound
  <1> QED
    BY <1>8, <1>9, <1>10

LEMMA CodecStep ==
    ASSUME TypeOK, Playing(playout, heard.out), CodecTakes \/ CodecReturns
    PROVE  Sound
  <1>1. /\ playing \in Txids \cup {NIL} /\ playout \in Playouts /\ codec \in Codecs
        /\ heard \in Heards
        /\ Len(codec.asked) <= RequestCap /\ Len(codec.working) <= 1
        /\ Len(codec.done) <= DecodedCap
    BY TypeIs
  <1>2. /\ codec.asked \in Seq(Decodes) /\ codec.working \in Seq(Decodes)
        /\ codec.done \in Seq(Decodes)
        /\ Len(codec.asked) \in Nat /\ Len(codec.working) \in Nat /\ Len(codec.done) \in Nat
    BY <1>1, CodecLens DEF Codecs
  <1>3. CASE CodecTakes
    <2>1. PICK asked, working : asked = Tail(codec.asked) /\ working = <<Head(codec.asked)>>
      OBVIOUS
    <2>2. /\ asked \in Seq(Decodes) /\ Len(asked) = Len(codec.asked) - 1
          /\ Head(codec.asked) \in Decodes
      BY <1>2, <1>3, <2>1, TailType DEF CodecTakes
    <2>3. working \in Seq(Decodes)
      BY <2>1, <2>2
    <2>a. Len(working) <= 1
      BY <2>1
    <2>4. codec' = [codec EXCEPT !.asked = asked, !.working = working]
      BY <1>3, <2>1 DEF CodecTakes
    <2>5. /\ codec' \in Codecs /\ codec'.asked = asked /\ codec'.working = working
          /\ codec'.done = codec.done
      BY <1>1, <2>2, <2>3, <2>4 DEF Codecs
    <2>6. Len(codec'.asked) <= RequestCap
      BY <1>1, <1>2, <2>2, <2>5, PlayoutAssumption
    <2>7. playing' = playing /\ playout' = playout /\ heard' = heard
      BY <1>3 DEF CodecTakes
    <2>8. Len(codec'.working) <= 1 /\ Len(codec'.done) <= DecodedCap
      BY <1>1, <2>a, <2>5
    <2>9. Playing(playout', heard'.out)
      BY <2>7
    <2> QED
      BY <1>1, <2>5, <2>6, <2>7, <2>8, <2>9 DEF Sound, PlaysOn
  <1>4. CASE CodecReturns
    <2>1. PICK done : done = codec.done \o codec.working
      OBVIOUS
    <2>2. done \in Seq(Decodes) /\ Len(done) = Len(codec.done) + Len(codec.working)
      BY <1>2, <2>1
    <2>3. PICK idle : idle = <<>>
      OBVIOUS
    <2>4. idle \in Seq(Decodes)
      BY <2>3
    <2>a. Len(idle) <= 1
      BY <2>3
    <2>5. \/ /\ Len(codec.done) < DecodedCap
             /\ codec' = [codec EXCEPT !.working = idle, !.done = done] /\ heard' = heard
          \/ /\ codec' = [codec EXCEPT !.working = idle]
             /\ heard' = [heard EXCEPT !.lost = @ \/ ~Head(codec.working).stale]
      BY <1>4, <2>1, <2>3 DEF CodecReturns
    <2>6. playing' = playing /\ playout' = playout
      BY <1>4 DEF CodecReturns
    <2>7. heard' \in Heards /\ heard'.out = heard.out
      BY <1>1, <2>5 DEF Heards
    <2>8. /\ codec' \in Codecs /\ codec'.asked = codec.asked /\ codec'.working = idle
          /\ \/ codec'.done = codec.done
             \/ Len(codec.done) < DecodedCap /\ codec'.done = done
      <3>1. CASE codec' = [codec EXCEPT !.working = idle]
        <4>1. codec \in Codecs
          BY <1>1
        <4> QED
          BY <4>1, <2>4, <3>1 DEF Codecs
      <3>2. CASE /\ Len(codec.done) < DecodedCap
                 /\ codec' = [codec EXCEPT !.working = idle, !.done = done]
        <4>1. codec \in Codecs /\ done \in Seq(Decodes)
          BY <1>1, <2>2
        <4> QED
          BY <4>1, <2>4, <3>2 DEF Codecs
      <3> QED
        BY <2>5, <3>1, <3>2
    <2>9. Len(codec'.done) <= DecodedCap
      <3>1. CASE codec'.done = codec.done
        BY <1>1, <3>1
      <3>2. CASE Len(codec.done) < DecodedCap /\ codec'.done = done
        <4>1. Len(codec.done) \in Nat /\ Len(codec.working) \in Nat
          BY <1>2
        <4>2. Len(done) = Len(codec.done) + Len(codec.working) /\ Len(codec.working) <= 1
          BY <1>1, <2>2
        <4>3. Len(done) <= DecodedCap
          <5>1. PICK n \in Nat, m \in Nat : n = Len(codec.done) /\ m = Len(codec.working)
            BY <4>1
          <5>2. n < DecodedCap /\ m <= 1 /\ Len(done) = n + m
            BY <3>2, <4>2, <5>1
          <5> QED
            BY <5>2, PlayoutAssumption
        <4> QED
          BY <3>2, <4>3
      <3> QED
        BY <2>8, <3>1, <3>2
    <2>10. Playing(playout', heard'.out)
      BY <2>6, <2>7
    <2> QED
      BY <1>1, <2>a, <2>6, <2>7, <2>8, <2>9, <2>10 DEF Sound, PlaysOn
  <1> QED
    BY <1>3, <1>4

LEMMA StepIsSound ==
    ASSUME TypeOK, Playing(playout, heard.out), [Next]_vars
    PROVE  TypeOK' /\ Sound
  <1>1. /\ conveyor \in [txid : Txids, next : Nat] \cup {NIL} /\ conveyors \in 0..MaxConveyors
        /\ playing \in Txids \cup {NIL}
    BY TypeIs
  <1>2. ASSUME NEW txid \in Txids, Voice(txid)
        PROVE  TypeOK' /\ Sound
    <2>1. CASE /\ conveyor = NIL /\ conveyors < MaxConveyors
               /\ conveyors' = conveyors + 1
               /\ conveyor' = [txid |-> txid, next |-> 1]
               /\ Decode(txid, 0)
      <3>1. Sound
        BY <2>1, DecodeStep
      <3>2. conveyor' \in [txid : Txids, next : Nat] /\ conveyors' \in 0..MaxConveyors
        BY <1>1, <2>1, PlayoutAssumption
      <3> QED
        BY <3>1, <3>2 DEF TypeOK, Sound, Playouts, Codecs, Heards
    <2>2. CASE /\ conveyor # NIL /\ conveyor.txid = txid
               /\ \E packet \in conveyor.next..MaxPacket :
                     /\ conveyor' = [conveyor EXCEPT !.next = packet + 1]
                     /\ Decode(txid, packet)
               /\ UNCHANGED conveyors
      <3>1. PICK packet \in conveyor.next..MaxPacket :
                     /\ conveyor' = [conveyor EXCEPT !.next = packet + 1]
                     /\ Decode(txid, packet)
        BY <2>2
      <3>2. packet \in Nat
        BY <1>1, <2>2, PlayoutAssumption
      <3>3. Sound
        BY <3>1, <3>2, DecodeStep
      <3>4. conveyor' \in [txid : Txids, next : Nat] /\ conveyors' \in 0..MaxConveyors
        BY <1>1, <2>2, <3>1, <3>2
      <3> QED
        BY <3>3, <3>4 DEF TypeOK, Sound, Playouts, Codecs, Heards
    <2> QED
      BY <1>2, <2>1, <2>2 DEF Voice
  <1>3. ASSUME /\ conveyor' \in {conveyor, NIL} /\ conveyors' = conveyors
               /\ Sound
        PROVE  TypeOK' /\ Sound
    BY <1>1, <1>3 DEF TypeOK, Sound, Playouts, Codecs, Heards
  <1>4. UNCHANGED vars => TypeOK' /\ Sound
    BY DEF Sound, PlaysOn, TypeOK, vars, Playouts, Codecs, Heards
  <1>5. ASSUME NEW txid \in Txids, End(txid)
        PROVE  TypeOK' /\ Sound
    BY <1>3, <1>5, EndStep DEF End
  <1>6. CASE Over
    <2>1. CASE Forget
      BY <1>3, <1>6, <2>1, ForgetStep DEF Over
    <2>2. CASE UNCHANGED <<playing, playout, codec, heard>>
      <3>1. Sound
        BY <2>2, TypeIs DEF Sound, PlaysOn
      <3> QED
        BY <1>3, <1>6, <3>1 DEF Over
    <2> QED
      BY <1>6, <2>1, <2>2 DEF Over
  <1>7. CASE Ptt \/ RunMenu
    BY <1>3, <1>7, ForgetStep DEF Ptt, RunMenu
  <1>8. CASE OnDecoded
    BY <1>3, <1>8, DecodedStep DEF OnDecoded
  <1>9. CASE CodecTakes \/ CodecReturns
    BY <1>3, <1>9, CodecStep DEF CodecTakes, CodecReturns
  <1> QED
    BY <1>2, <1>4, <1>5, <1>6, <1>7, <1>8, <1>9 DEF Next

\* Whatever the schedule and whoever's decodes come back, the variables keep
\* their types: no queue grows past its capacity and the unsigned count of
\* decodes in flight (Playout::decoded) never passes below none.  And the playout
\* is ready for the packet it says is next.
THEOREM TypeCorrect == Spec => [](TypeOK /\ Playing(playout, heard.out))
<1>1. Init => TypeOK /\ Playing(playout, heard.out)
  <2> SUFFICES ASSUME Init PROVE TypeOK /\ Playing(playout, heard.out)
    OBVIOUS
  <2>1. /\ conveyor = NIL /\ conveyors = 0 /\ playing = NIL
        /\ playout \in Playouts /\ heard \in Heards /\ Playing(playout, heard.out)
    BY NothingTypes DEF Init
  <2>2. /\ codec \in Codecs /\ Len(codec.asked) = 0 /\ Len(codec.working) = 0
        /\ Len(codec.done) = 0
    BY DEF Init, Codecs
  <2> QED
    BY <2>1, <2>2, TypeIs, PlayoutAssumption
<1>2. TypeOK /\ Playing(playout, heard.out) /\ [Next]_vars
          => (TypeOK /\ Playing(playout, heard.out))'
  BY StepIsSound DEF Sound
<1> QED
  BY <1>1, <1>2, PTL DEF Spec

-----------------------------------------------------------------------------
(* What is played is what OrderedPlayback promises *)

LEMMA PlayingIsRendered ==
    ASSUME NEW p, NEW out, Playing(p, out), out # <<>>, p.started \in BOOLEAN
    PROVE  SpeakerFeed!Rendered(out)
  BY DEF Playing, Ready

LEMMA CatPrefix ==
    ASSUME NEW s, NEW t, IsPlays(s), IsPlays(t)
    PROVE  SpeakerFeed!IsPrefix(s, Cat(s, t))
  <1>1. PICK all : all = Cat(s, t)
    OBVIOUS
  <1>2. /\ IsPlays(all) /\ Len(s) \in Nat /\ Len(t) \in Nat /\ Len(all) = Len(s) + Len(t)
        /\ \A i \in 1..Len(s) : all[i] = s[i]
    BY <1>1, CatAt
  <1>3. SubSeq(s, 1, Len(s)) = [i \in 1..Len(s) |-> s[i]]
    BY DEF IsPlays
  <1>4. SubSeq(all, 1, Len(s)) = [i \in 1..Len(s) |-> all[i]]
    BY <1>2 DEF IsPlays
  <1>5. [i \in 1..Len(s) |-> s[i]] = [i \in 1..Len(s) |-> all[i]]
    BY <1>2
  <1> QED
    BY <1>1, <1>2, <1>3, <1>4, <1>5 DEF SpeakerFeed!IsPrefix

\* Whatever is lost, late, dropped by a full queue or left over from another
\* transmission, what the speaker plays is one transmission's packets in order,
\* with a bounded silence for those lost: the playout, the app and the codec
\* thread together implement OrderedPlayback.
THEOREM PlaysAsPromised == Spec => PlaysInOrder
<1>1. Init => SpeakerFeed!Init
  BY DEF Init, SpeakerFeed!Init, NothingHeard
<1>2. TypeOK /\ Playing(playout, heard.out) /\ [Next]_vars
          => [SpeakerFeed!Next]_(heard.out)
  <2> SUFFICES ASSUME TypeOK, Playing(playout, heard.out), [Next]_vars
               PROVE  SpeakerFeed!Next \/ heard'.out = heard.out
    OBVIOUS
  <2>1. Playing(playout', heard'.out) /\ playout' \in Playouts /\ PlaysOn
    BY StepIsSound DEF Sound
  <2>2. CASE heard'.out \in {heard.out, <<>>}
    BY <2>2 DEF SpeakerFeed!Next, SpeakerFeed!Forget
  <2>3. CASE heard'.out = <<SpeakerFeed!Squelch>>
    BY <2>3 DEF SpeakerFeed!Next, SpeakerFeed!Forget
  <2>4. CASE \E plays : IsPlays(plays) /\ plays # <<>> /\ heard'.out = Cat(heard.out, plays)
    <3>1. PICK plays : IsPlays(plays) /\ plays # <<>> /\ heard'.out = Cat(heard.out, plays)
      BY <2>4
    <3>2. IsPlays(heard.out)
      BY TypeIs DEF Heards, IsPlays
    <3>3. SpeakerFeed!IsPrefix(heard.out, heard'.out)
      BY <3>1, <3>2, CatPrefix
    <3>4. CASE heard'.out = <<>>
      BY <3>4 DEF SpeakerFeed!Next, SpeakerFeed!Forget
    <3>5. CASE heard'.out # <<>>
      <4>1. playout'.started \in BOOLEAN
        BY <2>1 DEF Playouts
      <4>2. SpeakerFeed!Rendered(heard'.out)
        BY <2>1, <3>5, <4>1, PlayingIsRendered
      <4> QED
        BY <3>3, <4>2 DEF SpeakerFeed!Next, SpeakerFeed!PlayMore
    <3> QED
      BY <3>4, <3>5
  <2> QED
    BY <2>1, <2>2, <2>3, <2>4 DEF PlaysOn
<1> QED
  BY <1>1, <1>2, TypeCorrect, PTL DEF Spec, PlaysInOrder, SpeakerFeed!Spec

-----------------------------------------------------------------------------
(* Counting the decodes asked for since the last reset *)

FreshAt(s) == {i \in DOMAIN s : ~s[i].stale}

LEMMA FreshFinite ==
    ASSUME NEW s \in Seq(Decodes)
    PROVE  IsFiniteSet(FreshAt(s)) /\ FreshAmong(s) = Cardinality(FreshAt(s))
           /\ FreshAmong(s) \in Nat
  <1>1. IsFiniteSet(1..Len(s))
    BY FS_Interval
  <1>2. FreshAt(s) \in SUBSET (1..Len(s))
    BY DEF FreshAt
  <1>3. IsFiniteSet(FreshAt(s))
    BY <1>1, <1>2, FS_Subset
  <1>4. FreshAmong(s) = Cardinality(FreshAt(s))
    BY Zenon DEF FreshAmong, FreshAt
  <1> QED
    BY <1>3, <1>4, FS_CardinalityType

LEMMA FreshNone ==
    ASSUME NEW s, FreshAt(s) = {}
    PROVE  FreshAmong(s) = 0
  <1>1. FreshAmong(s) = Cardinality(FreshAt(s))
    BY Zenon DEF FreshAmong, FreshAt
  <1> QED
    BY <1>1, FS_EmptySet

LEMMA AllStaleNone ==
    ASSUME NEW s \in Seq(Decodes)
    PROVE  FreshAmong(Stale(s)) = 0
  <1>1. PICK t : t = Stale(s)
    OBVIOUS
  <1>2. /\ t \in Seq(Decodes) /\ Len(t) = Len(s)
        /\ \A i \in 1..Len(s) : t[i].stale = TRUE
    BY <1>1, StaleType
  <1>3. DOMAIN t = 1..Len(s)
    BY <1>2
  <1>4. FreshAt(t) = {}
    BY <1>2, <1>3, Zenon DEF FreshAt
  <1> QED
    BY <1>1, <1>4, FreshNone

LEMMA EmptyNone == FreshAmong(<<>>) = 0
  <1>1. FreshAt(<<>>) = {}
    BY DEF FreshAt
  <1> QED
    BY <1>1, FreshNone

\* One more at the back.
LEMMA FreshAdded ==
    ASSUME NEW s \in Seq(Decodes), NEW t \in Seq(Decodes), NEW decode \in Decodes,
           Len(t) = Len(s) + 1, \A i \in 1..Len(s) : t[i] = s[i],
           t[Len(s) + 1] = decode
    PROVE  FreshAmong(t) = FreshAmong(s) + IF decode.stale THEN 0 ELSE 1
  <1>1. DOMAIN s = 1..Len(s) /\ DOMAIN t = 1..Len(t) /\ Len(s) \in Nat
    OBVIOUS
  <1>2. /\ IsFiniteSet(FreshAt(s)) /\ FreshAmong(s) = Cardinality(FreshAt(s))
        /\ FreshAmong(s) \in Nat /\ FreshAmong(t) = Cardinality(FreshAt(t))
    BY FreshFinite
  <1>3. Len(s) + 1 \notin FreshAt(s)
    BY <1>1 DEF FreshAt
  <1>4. CASE decode.stale
    <2>1. FreshAt(t) = FreshAt(s)
      BY <1>1, <1>4 DEF FreshAt
    <2> QED
      BY <1>2, <1>4, <2>1
  <1>5. CASE ~decode.stale
    <2>1. FreshAt(t) = FreshAt(s) \cup {Len(s) + 1}
      BY <1>1, <1>5 DEF FreshAt
    <2>2. Cardinality(FreshAt(s) \cup {Len(s) + 1}) = Cardinality(FreshAt(s)) + 1
      BY <1>2, <1>3, FS_AddElement
    <2> QED
      BY <1>2, <1>5, <2>1, <2>2
  <1> QED
    BY <1>4, <1>5

\* One fewer at the front.
LEMMA FreshTaken ==
    ASSUME NEW s \in Seq(Decodes), s # <<>>
    PROVE  FreshAmong(s) = FreshAmong(Tail(s)) + IF Head(s).stale THEN 0 ELSE 1
  <1>1. PICK t, head : t = Tail(s) /\ head = Head(s)
    OBVIOUS
  <1>2. /\ t \in Seq(Decodes) /\ head \in Decodes
        /\ Len(s) \in Nat /\ Len(t) \in Nat /\ Len(s) = Len(t) + 1
        /\ DOMAIN s = 1..Len(s) /\ DOMAIN t = 1..Len(t)
        /\ s[1] = head /\ \A i \in 1..Len(t) : t[i] = s[i + 1]
    BY <1>1
  <1>3. /\ IsFiniteSet(FreshAt(t)) /\ FreshAmong(t) = Cardinality(FreshAt(t))
        /\ FreshAmong(t) \in Nat /\ FreshAmong(s) = Cardinality(FreshAt(s))
    BY <1>2, FreshFinite
  <1> DEFINE rest == FreshAt(s) \ {1}
             shift == [i \in FreshAt(t) |-> i + 1]
  <1>4. shift \in Bijection(FreshAt(t), rest)
    <2>1. \A i \in FreshAt(t) : i \in Nat /\ i + 1 \in rest
      BY <1>2 DEF FreshAt
    <2>2. \A j \in rest : j - 1 \in FreshAt(t) /\ j = (j - 1) + 1
      BY <1>2 DEF FreshAt
    <2> HIDE DEF rest
    <2>3. shift \in [FreshAt(t) -> rest]
      BY <2>1
    <2>4. \A i, j \in FreshAt(t) : shift[i] = shift[j] => i = j
      BY <2>1
    <2>5. \A j \in rest : \E i \in FreshAt(t) : shift[i] = j
      BY <2>2
    <2> QED
      BY <2>3, <2>4, <2>5 DEF Bijection, Injection, Surjection, IsInjective
  <1> HIDE DEF rest, shift
  <1>5. ExistsBijection(FreshAt(t), rest)
    BY <1>4 DEF ExistsBijection
  <1>6. IsFiniteSet(rest) /\ Cardinality(rest) = Cardinality(FreshAt(t))
    BY <1>3, <1>5, FS_Bijection
  <1>7. 1 \notin rest
    BY DEF rest
  <1>8. CASE head.stale
    <2>1. FreshAt(s) = rest
      BY <1>2, <1>8 DEF FreshAt, rest
    <2> QED
      BY <1>1, <1>3, <1>6, <1>8, <2>1
  <1>9. CASE ~head.stale
    <2>1. FreshAt(s) = rest \cup {1}
      BY <1>2, <1>9 DEF FreshAt, rest
    <2>2. Cardinality(rest \cup {1}) = Cardinality(rest) + 1
      BY <1>6, <1>7, FS_AddElement
    <2> QED
      BY <1>1, <1>3, <1>6, <1>9, <2>1, <2>2
  <1> QED
    BY <1>8, <1>9

-----------------------------------------------------------------------------
(* The count of decodes in flight, and the tail *)

FreshIn(c) == FreshAmong(c.done) + FreshAmong(c.working) + FreshAmong(c.asked)

\* What was asked for since the last reset was asked for whom it plays now.
FreshOf(s, who) == \A i \in DOMAIN s : ~s[i].stale => s[i].txid = who

FreshAreOf(c, who) ==
    FreshOf(c.asked, who) /\ FreshOf(c.working, who) /\ FreshOf(c.done, who)

Counted(p, c, h) ==
    ~h.mixed => /\ p.inFlight >= FreshIn(c)
                /\ ~h.lost => p.inFlight = FreshIn(c)

Counting == FreshAreOf(codec, playing) /\ Counted(playout, codec, heard)

LEMMA FreshInNat ==
    ASSUME NEW c \in Codecs
    PROVE  /\ FreshAmong(c.done) \in Nat /\ FreshAmong(c.working) \in Nat
           /\ FreshAmong(c.asked) \in Nat /\ FreshIn(c) \in Nat
  BY FreshFinite DEF FreshIn, Codecs

\* After a reset none in the codec counts.
LEMMA AllStaleCounts ==
    ASSUME NEW c \in Codecs, NEW who
    PROVE  FreshIn(AllStale(c)) = 0 /\ FreshAreOf(AllStale(c), who)
  <1>1. /\ c.asked \in Seq(Decodes) /\ c.working \in Seq(Decodes) /\ c.done \in Seq(Decodes)
    BY DEF Codecs
  <1>2. ASSUME NEW s \in Seq(Decodes) PROVE FreshOf(Stale(s), who)
    <2>1. PICK t : t = Stale(s)
      OBVIOUS
    <2>2. /\ t \in Seq(Decodes) /\ Len(t) = Len(s)
          /\ \A i \in 1..Len(s) : t[i].stale = TRUE
      BY <2>1, StaleType
    <2>3. DOMAIN t = 1..Len(s)
      BY <2>2
    <2>4. FreshOf(t, who)
      BY <2>2, <2>3, Zenon DEF FreshOf
    <2> QED
      BY <2>1, <2>4
  <1>3. /\ AllStale(c).asked = Stale(c.asked) /\ AllStale(c).working = Stale(c.working)
        /\ AllStale(c).done = Stale(c.done)
    BY DEF AllStale
  <1>4. /\ FreshAmong(Stale(c.asked)) = 0 /\ FreshAmong(Stale(c.working)) = 0
        /\ FreshAmong(Stale(c.done)) = 0
    BY <1>1, AllStaleNone
  <1>5. /\ FreshOf(Stale(c.asked), who) /\ FreshOf(Stale(c.working), who)
        /\ FreshOf(Stale(c.done), who)
    BY <1>1, <1>2
  <1> QED
    BY <1>3, <1>4, <1>5 DEF FreshIn, FreshAreOf

LEMMA NewCounts ==
    ASSUME NEW c \in Codecs
    PROVE  Counted(NewPlayout, AllStale(c), NothingHeard)
  <1>1. FreshIn(AllStale(c)) = 0
    BY AllStaleCounts
  <1> QED
    BY <1>1 DEF Counted, NewPlayout

LEMMA ForCounts ==
    ASSUME TypeOK, Counting, NEW txid
    PROVE  /\ FreshAreOf(CodecFor(txid), txid)
           /\ Counted(PlayoutFor(txid), CodecFor(txid), HeardFor(txid))
  <1>1. codec \in Codecs
    BY TypeIs
  <1>2. CASE Switches(txid)
    BY <1>1, <1>2, AllStaleCounts, NewCounts DEF CodecFor, PlayoutFor, HeardFor
  <1>3. CASE ~Switches(txid)
    BY <1>3 DEF Switches, CodecFor, PlayoutFor, HeardFor, Counting
  <1> QED
    BY <1>2, <1>3

LEMMA DecodeCounts ==
    ASSUME TypeOK, Playing(playout, heard.out), Counting,
           NEW txid \in Txids, NEW packet \in Nat, Decode(txid, packet)
    PROVE  Counting'
  <1>1. PICK p, c, h : p = PlayoutFor(txid) /\ c = CodecFor(txid) /\ h = HeardFor(txid)
    OBVIOUS
  <1>2. p \in Playouts /\ h \in Heards /\ c \in Codecs
    BY <1>1, ForTypes
  <1>3. FreshAreOf(c, txid) /\ Counted(p, c, h)
    BY <1>1, ForCounts
  <1>4. PICK request : request = [txid |-> txid, packet |-> packet, stale |-> FALSE]
    OBVIOUS
  <1>5. request \in Decodes /\ request.stale = FALSE /\ request.txid = txid
    BY <1>4 DEF Decodes
  <1>6. /\ playing' = txid
        /\ heard' = [h EXCEPT !.again = @ \/ (conveyor = NIL /\ ~Switches(txid))]
        /\ \/ codec' = [c EXCEPT !.asked = Append(c.asked, request)] /\ playout' = Decoding(p)
           \/ codec' = c /\ playout' = p
    BY <1>1, <1>4 DEF Decode
  <1>7. heard'.mixed = h.mixed /\ heard'.lost = h.lost
    BY <1>2, <1>6, Zenon DEF Heards
  <1>8. CASE codec' = c /\ playout' = p
    BY <1>3, <1>6, <1>7, <1>8 DEF Counting, Counted
  <1>9. CASE codec' = [c EXCEPT !.asked = Append(c.asked, request)] /\ playout' = Decoding(p)
    <2>1. PICK asked : asked = Append(c.asked, request)
      OBVIOUS
    <2>2. c.asked \in Seq(Decodes)
      BY <1>2 DEF Codecs
    <2>3. /\ asked \in Seq(Decodes) /\ Len(asked) = Len(c.asked) + 1
          /\ \A i \in 1..Len(c.asked) : asked[i] = c.asked[i]
          /\ asked[Len(c.asked) + 1] = request
      BY <1>5, <2>1, <2>2
    <2>4. FreshAmong(asked) = FreshAmong(c.asked) + 1
      <3>1. FreshAmong(asked) = FreshAmong(c.asked) + IF request.stale THEN 0 ELSE 1
        BY <1>5, <2>2, <2>3, FreshAdded
      <3> QED
        BY <1>5, <3>1
    <2>5. FreshOf(asked, txid)
      <3>1. FreshOf(c.asked, txid)
        BY <1>3 DEF FreshAreOf
      <3> QED
        BY <1>5, <2>2, <2>3, <3>1 DEF FreshOf
    <2>6. /\ codec'.asked = asked /\ codec'.working = c.working /\ codec'.done = c.done
      BY <1>2, <1>9, <2>1 DEF Codecs
    <2>7. playout'.inFlight = p.inFlight + 1 /\ p.inFlight \in Nat
      BY <1>2, <1>9 DEF Decoding, Playouts
    <2>8. FreshIn(codec') = FreshIn(c) + 1 /\ FreshIn(c) \in Nat
      <3>1. /\ FreshAmong(c.done) \in Nat /\ FreshAmong(c.working) \in Nat
            /\ FreshAmong(c.asked) \in Nat /\ FreshIn(c) \in Nat
        BY <1>2, FreshInNat
      <3> QED
        BY <2>4, <2>6, <3>1 DEF FreshIn
    <2>9. Counted(playout', codec', heard')
      BY <1>3, <1>7, <2>7, <2>8 DEF Counted
    <2>10. FreshAreOf(codec', playing')
      BY <1>3, <1>6, <2>5, <2>6 DEF FreshAreOf
    <2> QED
      BY <2>9, <2>10 DEF Counting
  <1> QED
    BY <1>6, <1>8, <1>9

LEMMA EndCounts ==
    ASSUME TypeOK, Playing(playout, heard.out), Counting, NEW txid \in Txids, End(txid)
    PROVE  Counting'
  <1>1. PICK p, h : p = PlayoutFor(txid) /\ h = HeardFor(txid)
    OBVIOUS
  <1>2. /\ p \in Playouts /\ h \in Heards /\ IsPlays(h.out) /\ Playing(p, h.out)
    BY <1>1, ForTypes
  <1>3. PICK ended : ended = EndedInto(p)
    OBVIOUS
  <1>4. ended.playout.inFlight = p.inFlight
    BY <1>2, <1>3, EndedPlays
  <1>5. /\ playing' = txid /\ playout' = ended.playout /\ codec' = CodecFor(txid)
        /\ heard' = [h EXCEPT !.out = h.out \o ended.plays]
    BY <1>1, <1>3 DEF End
  <1>6. heard'.mixed = h.mixed /\ heard'.lost = h.lost
    BY <1>2, <1>5, Zenon DEF Heards
  <1>7. FreshAreOf(codec', playing') /\ Counted(p, codec', h)
    BY <1>1, <1>5, ForCounts
  <1> QED
    BY <1>4, <1>5, <1>6, <1>7 DEF Counting, Counted

LEMMA ForgetCounts ==
    ASSUME TypeOK, Forget
    PROVE  Counting'
  <1>1. codec \in Codecs
    BY TypeIs
  <1> QED
    BY <1>1, AllStaleCounts, NewCounts DEF Forget, Counting

LEMMA DecodedCounts ==
    ASSUME TypeOK, Playing(playout, heard.out), Counting, OnDecoded
    PROVE  Counting'
  <1>1. playout \in Playouts /\ codec \in Codecs /\ heard \in Heards /\ IsPlays(heard.out)
    BY TypeIs DEF Heards, IsPlays
  <1>2. codec.done \in Seq(Decodes) /\ codec.done # <<>>
    BY <1>1 DEF Codecs, OnDecoded
  <1>3. PICK decode \in Decodes : decode = Head(codec.done)
    BY <1>2, TailType
  <1>4. PICK into : into = DecodedInto(playout, decode.packet)
    OBVIOUS
  <1>5. into.playout.inFlight = Returned(playout).inFlight
    <2>1. decode.packet \in Nat
      BY DEF Decodes
    <2> QED
      BY <1>1, <1>4, <2>1, DecodedPlays
  <1>6. PICK done : done = Tail(codec.done)
    OBVIOUS
  <1>7. /\ codec'.done = done /\ codec'.asked = codec.asked /\ codec'.working = codec.working
    BY <1>1, <1>6 DEF OnDecoded, Codecs
  <1>8. FreshAmong(codec.done) = FreshAmong(done) + IF decode.stale THEN 0 ELSE 1
    BY <1>2, <1>3, <1>6, FreshTaken
  <1>9. FreshAreOf(codec', playing)
    <2>1. FreshOf(codec.done, playing)
      BY DEF Counting, FreshAreOf
    <2>2. /\ Len(codec.done) \in Nat /\ DOMAIN codec.done = 1..Len(codec.done)
          /\ DOMAIN done = 1..(Len(codec.done) - 1)
          /\ \A i \in DOMAIN done : done[i] = codec.done[i + 1]
      BY <1>2, <1>6
    <2>3. FreshOf(done, playing)
      BY <2>1, <2>2 DEF FreshOf
    <2> QED
      BY <1>7, <2>3 DEF Counting, FreshAreOf
  <1>10. ~decode.stale => decode.txid = playing
    <2>1. FreshOf(codec.done, playing)
      BY DEF Counting, FreshAreOf
    <2>2. 1 \in DOMAIN codec.done /\ codec.done[1] = decode
      BY <1>2, <1>3
    <2> QED
      BY <2>1, <2>2 DEF FreshOf
  <1>11. /\ FreshAmong(codec.done) \in Nat /\ FreshAmong(codec.working) \in Nat
         /\ FreshAmong(codec.asked) \in Nat /\ FreshAmong(done) \in Nat
    <2>1. done \in Seq(Decodes)
      BY <1>2, <1>6, TailType
    <2> QED
      BY <1>1, <2>1, FreshInNat, FreshFinite
  <1>12. FreshIn(codec) = FreshIn(codec') + IF decode.stale THEN 0 ELSE 1
    BY <1>7, <1>8, <1>11 DEF FreshIn
  <1>13. FreshIn(codec') \in Nat
    BY <1>7, <1>11 DEF FreshIn
  <1>14. Counted(playout, codec, heard) /\ playing' = playing
    BY DEF Counting, OnDecoded
  <1>15. CASE playing # decode.txid
    <2>1. playout' = playout /\ heard' = heard
      BY <1>3, <1>15 DEF OnDecoded
    <2>2. decode.stale
      BY <1>10, <1>15
    <2> QED
      BY <1>9, <1>12, <1>13, <1>14, <2>1, <2>2 DEF Counting, Counted
  <1>16. CASE playing = decode.txid
    <2>1. /\ playout' = into.playout
          /\ heard' = [heard EXCEPT !.out = heard.out \o into.plays,
                                    !.mixed = heard.mixed \/ decode.stale]
      BY <1>3, <1>4, <1>16 DEF OnDecoded
    <2>2. heard'.lost = heard.lost /\ (heard'.mixed <=> heard.mixed \/ decode.stale)
      BY <1>1, <2>1 DEF Heards
    <2>3. /\ playout.inFlight \in Nat
          /\ playout.inFlight > 0 => playout'.inFlight = playout.inFlight - 1
      BY <1>1, <1>5, <2>1, BackType DEF Playouts
    <2>4. Counted(playout', codec', heard')
      BY <1>12, <1>13, <1>14, <2>2, <2>3 DEF Counted
    <2> QED
      BY <1>9, <1>14, <2>4 DEF Counting
  <1> QED
    BY <1>15, <1>16

LEMMA OneInHand ==
    ASSUME NEW s \in Seq(Decodes), s # <<>>, Len(s) <= 1
    PROVE  Head(s) \in Decodes /\ s = <<Head(s)>> /\ 1 = Len(s) /\ s[1] = Head(s)
  OBVIOUS

LEMMA CodecCounts ==
    ASSUME TypeOK, Counting, CodecTakes \/ CodecReturns
    PROVE  Counting'
  <1>1. codec \in Codecs /\ heard \in Heards /\ Len(codec.working) <= 1
    BY TypeIs
  <1>2. /\ codec.asked \in Seq(Decodes) /\ codec.working \in Seq(Decodes)
        /\ codec.done \in Seq(Decodes)
    BY <1>1 DEF Codecs
  <1>3. /\ FreshAmong(codec.done) \in Nat /\ FreshAmong(codec.working) \in Nat
        /\ FreshAmong(codec.asked) \in Nat
    BY <1>1, FreshInNat
  <1>4. /\ FreshOf(codec.asked, playing) /\ FreshOf(codec.working, playing)
        /\ FreshOf(codec.done, playing) /\ Counted(playout, codec, heard)
    BY DEF Counting, FreshAreOf
  <1>5. PICK none : none = <<>>
    OBVIOUS
  <1>6. none \in Seq(Decodes) /\ FreshAmong(none) = 0 /\ FreshOf(none, playing)
    BY <1>5, EmptyNone DEF FreshOf
  <1>7. CASE CodecTakes
    <2>1. PICK asked, working, head :
              asked = Tail(codec.asked) /\ head = Head(codec.asked) /\ working = <<head>>
      OBVIOUS
    <2>2. codec.asked # <<>> /\ codec.working = none
      BY <1>5, <1>7 DEF CodecTakes
    <2>3. asked \in Seq(Decodes) /\ head \in Decodes
      BY <1>2, <2>1, <2>2, TailType
    <2>4. codec'.asked = asked /\ codec'.working = working /\ codec'.done = codec.done
      BY <1>1, <1>7, <2>1 DEF CodecTakes, Codecs
    <2>5. FreshAmong(codec.asked) = FreshAmong(asked) + IF head.stale THEN 0 ELSE 1
      BY <1>2, <2>1, <2>2, FreshTaken
    <2>6. FreshAmong(working) = 0 + IF head.stale THEN 0 ELSE 1
      <3>1. /\ working \in Seq(Decodes) /\ Len(working) = Len(none) + 1
            /\ \A i \in 1..Len(none) : working[i] = none[i]
            /\ working[Len(none) + 1] = head
        BY <1>5, <2>1, <2>3
      <3> QED
        BY <1>6, <2>3, <3>1, FreshAdded
    <2>7. FreshOf(asked, playing) /\ FreshOf(working, playing)
      <3>1. /\ Len(codec.asked) \in Nat /\ DOMAIN codec.asked = 1..Len(codec.asked)
            /\ DOMAIN asked = 1..(Len(codec.asked) - 1)
            /\ \A i \in DOMAIN asked : asked[i] = codec.asked[i + 1]
        BY <1>2, <2>1, <2>2
      <3>2. FreshOf(asked, playing)
        BY <1>4, <3>1 DEF FreshOf
      <3>3. 1 \in DOMAIN codec.asked /\ codec.asked[1] = head
        BY <1>2, <2>1, <2>2
      <3>4. DOMAIN working = {1} /\ working[1] = head
        BY <2>1
      <3> QED
        BY <1>4, <3>2, <3>3, <3>4 DEF FreshOf
    <2>8. playing' = playing /\ playout' = playout /\ heard' = heard
      BY <1>7 DEF CodecTakes
    <2>9. FreshIn(codec') = FreshIn(codec)
      <3>1. FreshAmong(asked) \in Nat
        BY <2>3, FreshFinite
      <3> QED
        BY <1>3, <1>6, <2>2, <2>4, <2>5, <2>6, <3>1 DEF FreshIn
    <2> QED
      BY <1>4, <2>4, <2>7, <2>8, <2>9 DEF Counting, FreshAreOf, Counted
  <1>8. CASE CodecReturns
    <2>1. PICK done, decode : done = codec.done \o codec.working /\ decode = Head(codec.working)
      OBVIOUS
    <2>2. codec.working # <<>>
      BY <1>8 DEF CodecReturns
    <2>3. /\ decode \in Decodes /\ codec.working = <<decode>> /\ 1 = Len(codec.working)
          /\ codec.working[1] = decode
      BY <1>1, <1>2, <2>1, <2>2, OneInHand
    <2>4. FreshAmong(codec.working) = IF decode.stale THEN 0 ELSE 1
      <3>1. FreshAmong(codec.working) = FreshAmong(Tail(codec.working))
                                            + IF decode.stale THEN 0 ELSE 1
        BY <1>2, <2>1, <2>2, FreshTaken
      <3>2. none = Tail(codec.working)
        BY <1>5, <2>3
      <3>3. FreshAmong(codec.working) = 0 + IF decode.stale THEN 0 ELSE 1
        BY <1>6, <3>1, <3>2, Zenon
      <3> QED
        BY <3>3
    <2>5. /\ done \in Seq(Decodes) /\ Len(done) = Len(codec.done) + 1
          /\ \A i \in 1..Len(codec.done) : done[i] = codec.done[i]
          /\ done[Len(codec.done) + 1] = decode
      BY <1>2, <2>1, <2>3
    <2>6. FreshAmong(done) = FreshAmong(codec.done) + IF decode.stale THEN 0 ELSE 1
      BY <1>2, <2>3, <2>5, FreshAdded
    <2>7. FreshOf(done, playing)
      <3>1. ~decode.stale => decode.txid = playing
        BY <1>2, <1>4, <2>3 DEF FreshOf
      <3> QED
        BY <1>2, <1>4, <2>5, <3>1 DEF FreshOf
    <2>8. \/ codec' = [codec EXCEPT !.working = none, !.done = done] /\ heard' = heard
          \/ /\ codec' = [codec EXCEPT !.working = none]
             /\ heard' = [heard EXCEPT !.lost = @ \/ ~decode.stale]
      BY <1>5, <1>8, <2>1 DEF CodecReturns
    <2>9. playing' = playing /\ playout' = playout
      BY <1>8 DEF CodecReturns
    <2>10. CASE codec' = [codec EXCEPT !.working = none, !.done = done] /\ heard' = heard
      <3>1. codec'.asked = codec.asked /\ codec'.working = none /\ codec'.done = done
        BY <1>1, <2>10 DEF Codecs
      <3>2. FreshIn(codec') = FreshIn(codec)
        BY <1>3, <1>6, <2>4, <2>6, <3>1 DEF FreshIn
      <3> QED
        BY <1>4, <1>6, <2>7, <2>9, <2>10, <3>1, <3>2 DEF Counting, FreshAreOf, Counted
    <2>11. CASE /\ codec' = [codec EXCEPT !.working = none]
                /\ heard' = [heard EXCEPT !.lost = @ \/ ~decode.stale]
      <3>1. codec'.asked = codec.asked /\ codec'.working = none /\ codec'.done = codec.done
        BY <1>1, <2>11 DEF Codecs
      <3>2. FreshIn(codec) = FreshIn(codec') + IF decode.stale THEN 0 ELSE 1
        BY <1>3, <1>6, <2>4, <3>1 DEF FreshIn
      <3>3. FreshIn(codec') \in Nat
        BY <1>3, <1>6, <3>1 DEF FreshIn
      <3>4. heard'.mixed = heard.mixed
        BY <1>1, <2>11, Zenon DEF Heards
      <3>5. heard'.lost <=> heard.lost \/ ~decode.stale
        BY <1>1, <2>11 DEF Heards
      <3>6. playout.inFlight \in Nat
        BY TypeIs DEF Playouts
      <3>7. Counted(playout', codec', heard')
        <4>1. CASE decode.stale
          BY <1>4, <2>9, <3>2, <3>3, <3>4, <3>5, <4>1 DEF Counted
        <4>2. CASE ~decode.stale
          BY <1>4, <2>9, <3>2, <3>3, <3>4, <3>5, <3>6, <4>2 DEF Counted
        <4> QED
          BY <4>1, <4>2
      <3>8. FreshAreOf(codec', playing')
        BY <1>4, <1>6, <2>9, <3>1 DEF FreshAreOf
      <3> QED
        BY <3>7, <3>8 DEF Counting
    <2> QED
      BY <2>8, <2>10, <2>11
  <1> QED
    BY <1>7, <1>8

LEMMA StepCounts ==
    ASSUME TypeOK, Playing(playout, heard.out), Counting, [Next]_vars
    PROVE  Counting'
  <1>1. ASSUME NEW txid \in Txids, Voice(txid) PROVE Counting'
    <2>1. CASE Decode(txid, 0)
      BY <2>1, DecodeCounts
    <2>2. CASE /\ conveyor # NIL
               /\ \E packet \in conveyor.next..MaxPacket : Decode(txid, packet)
      <3>1. PICK packet \in conveyor.next..MaxPacket : Decode(txid, packet)
        BY <2>2
      <3>2. packet \in Nat
        BY <2>2, TypeIs, PlayoutAssumption
      <3> QED
        BY <3>1, <3>2, DecodeCounts
    <2> QED
      BY <1>1, <2>1, <2>2 DEF Voice
  <1>2. ASSUME NEW txid \in Txids, End(txid) PROVE Counting'
    BY <1>2, EndCounts
  <1>3. UNCHANGED <<playing, playout, codec, heard>> => Counting'
    BY DEF Counting, Counted
  <1>4. CASE Over \/ Ptt \/ RunMenu
    BY <1>3, <1>4, ForgetCounts DEF Over, Ptt, RunMenu
  <1>5. CASE OnDecoded
    BY <1>5, DecodedCounts
  <1>6. CASE CodecTakes \/ CodecReturns
    BY <1>6, CodecCounts
  <1> QED
    BY <1>1, <1>2, <1>3, <1>4, <1>5, <1>6 DEF Next, vars

LEMMA CountsFrom ==
    Spec => [](TypeOK /\ Playing(playout, heard.out) /\ Counting)
<1>1. Init => Counting
  <2> SUFFICES ASSUME Init PROVE Counting
    OBVIOUS
  <2>1. /\ playout.inFlight = 0 /\ codec.asked = <<>> /\ codec.working = <<>>
        /\ codec.done = <<>>
    BY DEF Init, NewPlayout
  <2>2. FreshIn(codec) = 0
    BY <2>1, EmptyNone DEF FreshIn
  <2>3. FreshAreOf(codec, playing)
    BY <2>1 DEF FreshAreOf, FreshOf
  <2> QED
    BY <2>1, <2>2, <2>3 DEF Counting, Counted
<1>2. (TypeOK /\ Playing(playout, heard.out)) /\ Counting /\ [Next]_vars => Counting'
  BY StepCounts
<1> QED
  BY <1>1, <1>2, TypeCorrect, PTL DEF Spec

\* The playout's count of decodes in flight is right whatever the interleaving of
\* the app and the codec thread, the sizes of their queues and the resets in
\* between: at least what will come back to it, and just that when none was
\* dropped with DECODED full, until a decode from before the reset is let in.
THEOREM CountIsRight == Spec => []CountsDecodes
  BY CountsFrom, PTL DEF Counting, Counted, CountsDecodes, Fresh, FreshIn

\* The squelch tail is never played before the transmission's last packet: in
\* whatever order the end packet and the decodes come, once it plays nothing asked
\* for since the reset is still in the codec (Playout::ended and Playout::decoded).
THEOREM TailIsLast == Spec => TailComesLast
<1>1. (TypeOK /\ Playing(playout, heard.out) /\ Counting) /\ [Next]_vars
          => [(/\ heard'.out # heard.out /\ heard'.out # <<>>
               /\ Last(heard'.out) = SpeakerFeed!Squelch
               /\ ~heard'.mixed) => Fresh' = 0]_vars
  <2> SUFFICES ASSUME TypeOK, Playing(playout, heard.out), Counting, [Next]_vars,
                      heard'.out # heard.out, heard'.out # <<>>,
                      Last(heard'.out) = SpeakerFeed!Squelch, ~heard'.mixed
               PROVE  Fresh' = 0
    OBVIOUS
  <2>1. /\ codec' \in Codecs /\ playout' \in Playouts /\ PlaysOn
    BY StepIsSound DEF Sound
  <2>2. Counting'
    BY StepCounts
  <2>3. playout'.inFlight = 0
    <3>1. CASE heard'.out = <<SpeakerFeed!Squelch>> /\ playout'.inFlight = 0
      BY <3>1
    <3>2. CASE \E plays :
                  /\ IsPlays(plays) /\ plays # <<>> /\ heard'.out = Cat(heard.out, plays)
                  /\ Last(plays) = SpeakerFeed!Squelch => playout'.inFlight = 0
      <4>1. PICK plays :
                  /\ IsPlays(plays) /\ plays # <<>> /\ heard'.out = Cat(heard.out, plays)
                  /\ Last(plays) = SpeakerFeed!Squelch => playout'.inFlight = 0
        BY <3>2
      <4>2. IsPlays(heard.out)
        BY TypeIs DEF Heards, IsPlays
      <4>3. PICK out : out = Cat(heard.out, plays)
        OBVIOUS
      <4>4. /\ Len(heard.out) \in Nat /\ Len(plays) \in Nat
            /\ Len(out) = Len(heard.out) + Len(plays)
            /\ \A i \in 1..Len(plays) : out[Len(heard.out) + i] = plays[i]
        BY <4>1, <4>2, <4>3, CatAt
      <4>5. Len(plays) > 0
        BY <4>1, EmptySeq DEF IsPlays
      <4>6. out[Len(out)] = plays[Len(plays)]
        BY <4>4, <4>5
      <4> QED
        BY <4>1, <4>3, <4>6 DEF Last
    <3> QED
      BY <2>1, <3>1, <3>2 DEF PlaysOn
  <2>4. Fresh' \in Nat /\ Fresh' = FreshIn(codec')
    BY <2>1, FreshInNat DEF Fresh, FreshIn
  <2> QED
    BY <2>2, <2>3, <2>4 DEF Counting, Counted
<1> QED
  BY <1>1, CountsFrom, PTL DEF Spec, TailComesLast
=============================================================================
