--------------------------------- MODULE Link ---------------------------------
(***************************************************************************)
(* The management server (server/src) and a radio's calls of it            *)
(* (src/management.rs) over the encrypted link (core/src/management.rs on  *)
(* src/noise.rs): the handshake, requests and answers, one thread per      *)
(* connection, the list of radios and the bundle, which both change under  *)
(* way.  The radio's net thread and its HTTP server may both be calling.   *)
(*                                                                         *)
(* The crypto is symbolic: two private keys agree on DH(a, b), a key is    *)
(* its own public half, and what is sealed opens for whoever has mixed the *)
(* same things in the same order, and for nobody else.                     *)
(*                                                                         *)
(* Bounds of a run: MaxCalls, MaxPublished, MaxListings.                   *)
(***************************************************************************)
EXTENDS Integers, Sequences, FiniteSets

CONSTANTS Conns,                \* sockets of the radio
          Bundles, FirmwareOf,
          Holdings,             \* what a radio may have: [running, installed]
          Versions,             \* of radios there are: [prologue, what], where `what`
                                \* they ask for is the "Bundle" or the "Firmware" alone
          Chunks,               \* in an image
          MaxCalls, MaxPublished, MaxListings,
          NIL

VARIABLES file,   \* DIR/bundle.tar.gz: [time, bundle]
          cached, \* Published.cached: the same, or NIL
          list,   \* radios.toml, of this radio: "Listed", or "Revoked" (or not there)
          knows,  \* secrets.toml: the server's public key
          speaks, \* the radio's version
          radio,  \* per connection, its end of it
          server, \* per connection, the thread that answers it
          wire,   \* per connection, [up, down]: frames not read yet
          hist,   \* per connection, for the properties: [barred, was]
          tally   \* bounds: [calls, published, listings]

ends == <<radio, server, wire>>
linkVars == <<file, cached, list, knows, speaks, ends, hist, tally>>

ServerKey == <<"server.key", "Server">>
RadioKey  == <<"private_key", "Radio">>
Another   == <<"another", "Server">>
PROLOGUE  == "oswst-management/1"

-----------------------------------------------------------------------------
(* Noise_XK_25519_AESGCM_SHA256 *)

\* X25519::dh: one's private key and the other's public key, either way round.
DH(ours, theirs) == {ours, theirs}

\* X25519::generate: a key of this connection's alone.
Ephemeral(c, end) == <<c, end>>

\* Mutant of First: the prologue is not hashed in.
FirstOfAnyVersion(prologue, to, e) == [hash |-> <<to, e>>, mixed |-> <<DH(e, to)>>]

\* -> e, es
First(prologue, to, e) == [hash |-> <<prologue, to, e>>, mixed |-> <<DH(e, to)>>]

Mixed(noise, key, dh) ==
    [hash |-> Append(noise.hash, key), mixed |-> Append(noise.mixed, dh)]

\* A handshake message: the public key it brings, and a tag only those who mixed
\* the same can check.
Greeting(key, noise) == [key |-> key, tag |-> noise]

\* NoiseLink::send, and AES-GCM: sealed for one direction, with its count.
Sealed(noise, from, n, message) ==
    [noise |-> noise, from |-> from, n |-> n, message |-> message]

\* NoiseLink::receive
Opens(frame, noise, from, n) == frame.noise = noise /\ frame.from = from /\ frame.n = n

-----------------------------------------------------------------------------
(* What is asked and answered *)

Request(ask, what, held, image, n) ==
    [ask |-> ask, what |-> what, held |-> held, image |-> image, n |-> n]

Nothing == [running |-> NIL, installed |-> NIL]

Echo == Request("Echo", NIL, Nothing, NIL, 0)

\* One this server doesn't know.
Newer == Request("Newer", NIL, Nothing, NIL, 0)

\* CheckBundle; Hello, from before bundles.
Check(what, held) == Request("Check", what, held, NIL, 0)

\* BundleChunk; Chunk.
Piece(what, image, n) == Request("Piece", what, Nothing, image, n)

\* The SHA-256 of what is offered: the whole file's, or its firmware's.
ImageIn(what, b) == IF what = "Bundle" THEN b ELSE FirmwareOf[b]

Answer(says, image, n) == [says |-> says, image |-> image, n |-> n]

Error == Answer("Error", NIL, 0)

UpToDate(request, b) ==
    /\ request.held.running = FirmwareOf[b]
    /\ request.what = "Bundle" => request.held.installed = b

\* Mutant of ChunkOf: whatever image is there now.
ChunkOfWhatIsThere(request, image) == Answer("Piece", image, request.n)

\* Oswst::firmware_chunk, bundle_chunk
ChunkOf(request, image) ==
    IF request.image # image THEN Answer("Changed", NIL, 0)
    ELSE IF request.n \in 1..Chunks THEN Answer("Piece", image, request.n)
    ELSE Error

\* Oswst::handle, for the bundle there is (NIL: there is none).
Handled(request, b) ==
    CASE request.ask = "Echo"  -> Answer("Echo", NIL, 0)
      [] request.ask = "Newer" -> Error
      [] b = NIL               -> Error
      [] request.ask = "Check" /\ UpToDate(request, b) -> Answer("UpToDate", NIL, 0)
      [] request.ask = "Check" -> Answer("Offer", ImageIn(request.what, b), 0)
      [] request.ask = "Piece" -> ChunkOf(request, ImageIn(request.what, b))

-----------------------------------------------------------------------------
(* The radio's end *)

Closed == [at |-> "Closed", noise |-> NIL, request |-> NIL, sent |-> 0, heard |-> 0]
Gone   == [at |-> "Gone", noise |-> NIL, key |-> NIL, request |-> NIL, time |-> 0,
           sent |-> 0, heard |-> 0]
Silent == [up |-> <<>>, down |-> <<>>]
NoPast == [barred |-> FALSE, was |-> {}]

Up(c, frame)   == wire' = [wire EXCEPT ![c].up = Append(@, frame)]
Down(c, frame) == wire' = [wire EXCEPT ![c].down = Append(@, frame)]

\* The net thread has one, and the HTTP server's.
Calling == {c \in Conns : radio[c].at # "Closed"}

FirstAsked ==
    {Echo, Newer} \cup {Check(speaks.what, held) : held \in Holdings}
        \cup {Piece(speaks.what, ImageIn(speaks.what, b), 1) : b \in Bundles}

\* connect(): the server's address and key are read, and the first message sent.
\* The server takes the connection, on a thread of its own.
Dials(c) ==
    /\ tally.calls < MaxCalls
    /\ Cardinality(Calling) < 2
    /\ radio[c] = Closed /\ server[c] = Gone
    /\ knows # NIL
    /\ LET e     == Ephemeral(c, "Radio")
           noise == First(speaks.prologue, knows, e)
       IN /\ radio' = [radio EXCEPT ![c] = [Closed EXCEPT !.at = "Greeting", !.noise = noise]]
          /\ wire' = [wire EXCEPT ![c] = [Silent EXCEPT !.up = <<Greeting(e, noise)>>]]
    /\ server' = [server EXCEPT ![c].at = "Accepting"]
    /\ hist' = [hist EXCEPT ![c] = [NoPast EXCEPT !.barred = list # "Listed"]]
    /\ tally' = [tally EXCEPT !.calls = @ + 1]
    /\ UNCHANGED <<file, cached, list, knows, speaks>>

\* An end is dropped, with what it has not read: `rest`. If there is any, the
\* connection is reset, and the other end may lose what it has not read.
Left(rest, other) == {other} \cup (IF rest = <<>> THEN {} ELSE {<<>>})

HangsUp(c) ==
    /\ radio' = [radio EXCEPT ![c] = Closed]
    /\ \E up \in Left(wire[c].down, wire[c].up) :
          wire' = [wire EXCEPT ![c] = [up |-> up, down |-> <<>>]]

\* An answer took more than TIMEOUT, or the connection failed.
TimesOut(c) ==
    /\ radio[c].at \in {"Greeting", "Asked"}
    /\ HangsUp(c)
    /\ UNCHANGED <<file, cached, list, knows, speaks, server, hist, tally>>

\* NoiseLink::connect goes on, or "Wrong key or version".
Greeted(c) ==
    /\ radio[c].at = "Greeting" /\ wire[c].down # <<>>
    /\ LET m      == Head(wire[c].down)
           second == Mixed(radio[c].noise, m.key, DH(Ephemeral(c, "Radio"), m.key))
           third  == Mixed(second, RadioKey, DH(RadioKey, m.key))
       IN IF m.tag = second
          THEN /\ radio' = [radio EXCEPT ![c].at = "Linked", ![c].noise = third]
               /\ wire' = [wire EXCEPT ![c] =
                              [up |-> Append(@.up, Greeting(RadioKey, third)),
                               down |-> Tail(@.down)]]
          ELSE HangsUp(c)
    /\ UNCHANGED <<file, cached, list, knows, speaks, server, hist, tally>>

\* ask(): what the link was for, or the next chunk.
Asks(c) ==
    /\ radio[c].at = "Linked"
    /\ \E request \in IF radio[c].request = NIL THEN FirstAsked ELSE {radio[c].request} :
        /\ Up(c, Sealed(radio[c].noise, "Radio", radio[c].sent, request))
        /\ radio' = [radio EXCEPT ![c].at = "Asked", ![c].sent = @ + 1, ![c].request = request]
    /\ UNCHANGED <<file, cached, list, knows, speaks, server, hist, tally>>

\* The next chunk of a download is asked for on the same link; anything else
\* ends the call.
Hears(c) ==
    /\ radio[c].at = "Asked" /\ wire[c].down # <<>>
    /\ LET frame   == Head(wire[c].down)
           answer  == frame.message
           request == radio[c].request
       IN IF /\ Opens(frame, radio[c].noise, "Server", radio[c].heard)
             /\ request.ask = "Piece" /\ answer.says = "Piece" /\ request.n < Chunks
          THEN /\ radio' = [radio EXCEPT ![c].at = "Linked", ![c].request.n = @ + 1,
                                         ![c].heard = @ + 1]
               /\ wire' = [wire EXCEPT ![c].down = Tail(@)]
          ELSE HangsUp(c)
    /\ UNCHANGED <<file, cached, list, knows, speaks, server, hist, tally>>

-----------------------------------------------------------------------------
(* The server's threads *)

\* A thread ends, with `down` sent and `rest` of what came unread.
Ends(c, rest, down) ==
    /\ server' = [server EXCEPT ![c] = Gone]
    /\ \E left \in Left(rest, down) :
          wire' = [wire EXCEPT ![c] = [up |-> <<>>, down |-> left]]

\* NoiseLink::accept: the first message, read by who it is for.
Accepts(c) ==
    /\ server[c].at = "Accepting" /\ wire[c].up # <<>>
    /\ LET m      == Head(wire[c].up)
           first  == First(PROLOGUE, ServerKey, m.key)
           f      == Ephemeral(c, "Server")
           second == Mixed(first, f, DH(f, m.key))
       IN IF m.tag = first
          THEN /\ server' = [server EXCEPT ![c].at = "Greeting", ![c].noise = second]
               /\ wire' = [wire EXCEPT ![c] = [up |-> Tail(@.up),
                                               down |-> <<Greeting(f, second)>>]]
          ELSE Ends(c, Tail(wire[c].up), wire[c].down)
    /\ UNCHANGED <<file, cached, list, knows, speaks, radio, hist, tally>>

\* ... and the third, with the radio's own key.
Meets(c) ==
    /\ server[c].at = "Greeting" /\ wire[c].up # <<>>
    /\ LET m     == Head(wire[c].up)
           third == Mixed(server[c].noise, m.key, DH(Ephemeral(c, "Server"), m.key))
       IN IF m.tag = third
          THEN /\ server' = [server EXCEPT ![c].at = "Admitting", ![c].noise = third,
                                           ![c].key = m.key]
               /\ wire' = [wire EXCEPT ![c].up = Tail(@)]
          ELSE Ends(c, Tail(wire[c].up), wire[c].down)
    /\ UNCHANGED <<file, cached, list, knows, speaks, radio, hist, tally>>

\* find_radio
Allowed(key) == key = RadioKey /\ list = "Listed"

\* Admitted, or told NOT_ALLOWED and hung up on.
Admits(c) ==
    /\ server[c].at = "Admitting"
    /\ IF Allowed(server[c].key)
       THEN server' = [server EXCEPT ![c].at = "Serving"] /\ UNCHANGED wire
       ELSE Ends(c, wire[c].up, <<Sealed(server[c].noise, "Server", 0, Error)>>)
    /\ UNCHANGED <<file, cached, list, knows, speaks, radio, hist, tally>>

\* A request comes. One about the bundle looks at the file's time first.
Takes(c) ==
    /\ server[c].at = "Serving" /\ wire[c].up # <<>>
    /\ LET frame == Head(wire[c].up)
           known == Opens(frame, server[c].noise, "Radio", server[c].heard)
       IN server' = [server EXCEPT ![c].at = "Handling",
                                   ![c].request = IF known THEN frame.message ELSE Newer,
                                   ![c].heard = @ + 1, ![c].time = file.time]
    /\ wire' = [wire EXCEPT ![c].up = Tail(@)]
    /\ hist' = [hist EXCEPT ![c].was = {file.bundle}]
    /\ UNCHANGED <<file, cached, list, knows, speaks, radio, tally>>

\* Published::bundle, its lock held: as cached, unless the file is of another time.
Bundle(time) ==
    IF cached # NIL /\ cached.time = time THEN cached.bundle ELSE file.bundle

\* The answer, sent whether the radio is still there or not.
Answers(c) ==
    /\ server[c].at = "Handling"
    /\ LET request == server[c].request
           asksFor == request.ask \in {"Check", "Piece"} /\ server[c].time # 0
           b       == IF asksFor THEN Bundle(server[c].time) ELSE NIL
           answer  == Handled(request, b)
       IN /\ cached' = IF asksFor THEN [time |-> server[c].time, bundle |-> b] ELSE cached
          /\ server' = [server EXCEPT ![c].at = "Serving", ![c].request = NIL,
                                      ![c].time = 0, ![c].sent = @ + 1]
          /\ IF radio[c].at = "Closed" THEN UNCHANGED wire
             ELSE Down(c, Sealed(server[c].noise, "Server", server[c].sent, answer))
    /\ hist' = [hist EXCEPT ![c].was = {}]
    /\ UNCHANGED <<file, list, knows, speaks, radio, tally>>

\* The radio is gone, or sent nothing for IDLE.
Drops(c) ==
    /\ server[c].at \notin {"Gone", "Handling", "Admitting"} /\ wire[c].up = <<>>
    /\ server' = [server EXCEPT ![c] = Gone]
    /\ hist' = [hist EXCEPT ![c] = NoPast]
    /\ UNCHANGED <<file, cached, list, knows, speaks, radio, wire, tally>>

-----------------------------------------------------------------------------
(* What changes meanwhile *)

\* scripts/publish-firmware.sh: a new file, renamed into place.
Publishes ==
    /\ tally.published < MaxPublished
    /\ \E b \in Bundles \ {file.bundle} :
        /\ file' = [time |-> file.time + 1, bundle |-> b]
        /\ hist' = [c \in Conns |-> IF server[c].at = "Handling"
                                    THEN [hist[c] EXCEPT !.was = @ \cup {b}] ELSE hist[c]]
    /\ tally' = [tally EXCEPT !.published = @ + 1]
    /\ UNCHANGED <<cached, list, knows, speaks, ends>>

\* radios.toml is edited by hand.
Lists ==
    /\ tally.listings < MaxListings
    /\ list' \in {"Listed", "Revoked"} \ {list}
    /\ hist' = IF list' = "Listed" THEN [c \in Conns |-> [hist[c] EXCEPT !.barred = FALSE]]
               ELSE hist
    /\ tally' = [tally EXCEPT !.listings = @ + 1]
    /\ UNCHANGED <<file, cached, knows, speaks, ends>>

-----------------------------------------------------------------------------
LinkInit ==
    /\ file \in {[time |-> 0, bundle |-> NIL]} \cup {[time |-> 1, bundle |-> b] : b \in Bundles}
    /\ cached = NIL
    /\ list \in {"Listed", "Revoked"}
    /\ knows \in {ServerKey, Another, NIL} /\ speaks \in Versions
    /\ radio = [c \in Conns |-> Closed] /\ server = [c \in Conns |-> Gone]
    /\ wire = [c \in Conns |-> Silent]
    /\ hist = [c \in Conns |-> NoPast]
    /\ tally = [calls |-> 0, published |-> 0, listings |-> 0]

Calls(c)  == Dials(c) \/ Greeted(c) \/ Asks(c) \/ Hears(c) \/ TimesOut(c)
Serves(c) == Accepts(c) \/ Meets(c) \/ Admits(c) \/ Takes(c) \/ Answers(c) \/ Drops(c)

LinkNext == (\E c \in Conns : Calls(c) \/ Serves(c)) \/ Publishes \/ Lists

LinkSpec == LinkInit /\ [][LinkNext]_linkVars

-----------------------------------------------------------------------------
(* Properties *)

LinkTypeOK ==
    /\ file.bundle \in Bundles \cup {NIL} /\ file.time \in 0..1 + MaxPublished
    /\ cached # NIL => cached.time \in 1..file.time /\ cached.bundle \in Bundles
    /\ \A c \in Conns :
        /\ radio[c].at \in {"Closed", "Greeting", "Linked", "Asked"}
        /\ server[c].at \in {"Gone", "Accepting", "Greeting", "Admitting", "Serving",
                             "Handling"}
        /\ Len(wire[c].up) <= 2 /\ Len(wire[c].down) <= 1

\* Whoever is served is the radio it says it is, meant this server, speaks its
\* version ("old and new fail the handshake rather than misread", management.rs),
\* and has been in the list since it called ("a radio added or revoked counts from
\* its next connection", keys.rs).
ServedAsItself ==
    \A c \in Conns :
        server[c].at \in {"Serving", "Handling"} =>
            /\ ~hist[c].barred
            /\ speaks.prologue = PROLOGUE
            /\ server[c].key = RadioKey
            /\ radio[c].at # "Closed" =>
                  /\ radio[c].noise = server[c].noise
                  /\ ServerKey \in radio[c].noise.mixed[1]

\* Of a step: an answer is the one for a bundle that was published after the request came,
\* whatever other threads cached meanwhile; and a piece is of the image asked for,
\* "never half of each" (server's bundle.rs).
AnswersAreCurrent ==
    \A c \in Conns :
        server[c].at = "Handling" /\ wire'[c].down # wire[c].down /\ wire'[c].down # <<>> =>
            LET request == server[c].request
                answer  == wire'[c].down[Len(wire'[c].down)].message
            IN /\ \E b \in hist[c].was : answer = Handled(request, b)
               /\ answer.says = "Piece" => answer.image = request.image
=============================================================================
