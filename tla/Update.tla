-------------------------------- MODULE Update --------------------------------
(***************************************************************************)
(* How a radio gets its updates: the menu's Update page (core/src/app.rs)  *)
(* and the HTTP API (src/http.rs) ask, the net thread (src/net.rs) checks, *)
(* downloads, verifies and extracts (src/management.rs), the management    *)
(* server (server/) offers, and the bootloader goes back to the app before *)
(* if a new one doesn't last (src/firmware.rs).  The power may go anywhere.*)
(*                                                                         *)
(* Menu, HTTP server and net thread are three threads.  They share JOBS    *)
(* (room for one), ANSWERS, INSTALL and CANCEL.                            *)
(*                                                                         *)
(* Bounds of a run: MaxAsks (of the menu and the HTTP API), MaxPublished,  *)
(* MaxLosses (of the power, and of WiFi switched off).                     *)
(***************************************************************************)
EXTENDS Naturals, Sequences, FiniteSets

CONSTANTS Bundles, FirmwareOf,  \* a bundle's firmware, [Bundles -> Firmwares]
          Firmwares, Bad,       \* those that crash before a minute is up
          Flashed,              \* the firmware flashed over USB
          Files,                \* of a bundle, beside its firmware
          Chunks,               \* in a bundle
          MaxAsks, MaxPublished, MaxLosses,
          NIL

ASSUME UpdateAssumption ==
    /\ FirmwareOf \in [Bundles -> Firmwares]
    /\ Bad \subseteq Firmwares /\ Flashed \in Firmwares \ Bad
    /\ NIL \notin Bundles \cup Firmwares \cup {"New", "Pending", "Valid"}
    /\ "Firmware" \notin Files
    /\ Chunks \in Nat \ {0}
    /\ MaxAsks \in Nat /\ MaxPublished \in Nat /\ MaxLosses \in Nat

VARIABLES published, \* DIR/bundle.tar.gz, or NIL
          menu,      \* run_update, run_install: [at, offer]
          http,      \* management_update: [at, offer]
          jobs,      \* JOBS
          answer,    \* ANSWERS: an offer, "UpToDate", "Error", or NIL
          news,      \* INSTALL: "Progress", "Failed", "Done", or NIL
          cancel,    \* CANCEL
          net,       \* the net thread: [at, offer, by, got, left]
          wifi,      \* "Joined", "Searching" for a network, or "Off"
          card,      \* [download, files, installed]: the SD card
          flash,     \* [running, app, state, boot]: the two app slots
          rebooting, \* reboot_soon's thread is under way
          hist,      \* for the properties: [stopped, partly]
          count      \* bounds: [asks, published, losses]

shared == <<jobs, answer, news, cancel>>
vars == <<published, menu, http, shared, net, wifi, card, flash, rebooting, hist, count>>

Slots == {1, 2}

Other(slot) == 3 - slot
Running     == flash.app[flash.running]
Spare       == Other(flash.running)

\* The firmware in what was downloaded.
FirmwareIn(b) == IF b \in Bundles THEN FirmwareOf[b] ELSE NIL

-----------------------------------------------------------------------------
(* The server *)

Offered(b) == [says |-> "Offer", bundle |-> b]
Says(word) == [says |-> word, bundle |-> NIL]

\* Mutant of OfferBundle: up to date by its firmware alone.
OfferByFirmware(running, installed) ==
    IF published = NIL THEN Says("Error")
    ELSE IF FirmwareOf[published] = running THEN Says("UpToDate")
    ELSE Offered(published)

\* Oswst::offer_bundle
OfferBundle(running, installed) ==
    IF published = NIL THEN Says("Error")
    ELSE IF installed = published /\ FirmwareOf[published] = running THEN Says("UpToDate")
    ELSE Offered(published)

\* check(): the server's answer, or whatever went wrong on the way to it (no
\* network, no server set, no key, the handshake, not allowed, timed out).
Answers ==
    {Says("Error")}
        \cup (IF wifi = "Joined" THEN {OfferBundle(Running, card.installed)} ELSE {})

\* Another bundle is renamed over the published one.
Publishes ==
    /\ count.published < MaxPublished
    /\ published' \in Bundles \ {published}
    /\ count' = [count EXCEPT !.published = @ + 1]
    /\ UNCHANGED <<menu, http, shared, net, wifi, card, flash, rebooting, hist>>

-----------------------------------------------------------------------------
(* The menu *)

Out == [at |-> "Out", offer |-> NIL]

Check == [job |-> "Check", offer |-> NIL, by |-> NIL]
Install(offer, who) == [job |-> "Install", offer |-> offer, by |-> who]

\* Mutant of Queued: room for one more.
OneMore(job) == Append(jobs, job)

\* try_send, on a queue of one.
Queued(job) == IF jobs = <<>> THEN <<job>> ELSE jobs

\* App::run_update: what is left over goes.
Asks ==
    /\ menu.at = "Out" /\ wifi = "Joined"
    /\ count.asks < MaxAsks
    /\ jobs' = <<>> /\ answer' = NIL
    /\ menu' = [Out EXCEPT !.at = "Drained"]
    /\ count' = [count EXCEPT !.asks = @ + 1]
    /\ UNCHANGED <<published, http, news, cancel, net, wifi, card, flash, rebooting, hist>>

\* It may find the HTTP API's job in the queue, and then waits for an answer
\* nobody was asked for.
AsksServer ==
    /\ menu.at = "Drained"
    /\ jobs' = Queued(Check)
    /\ menu' = [Out EXCEPT !.at = "Asking"]
    /\ UNCHANGED <<published, http, answer, news, cancel, net, wifi, card, flash, rebooting,
                   hist, count>>

\* An offer is put to the user; anything else is shown, and that is it.
IsAnswered ==
    /\ menu.at = "Asking" /\ answer # NIL
    /\ answer' = NIL
    /\ menu' = IF answer.says = "Offer"
               THEN [at |-> "Offer", offer |-> answer.bundle] ELSE Out
    /\ UNCHANGED <<published, http, jobs, news, cancel, net, wifi, card, flash, rebooting,
                   hist, count>>

\* "Server: no answer"; or the user goes Back.
GivesUp ==
    /\ menu.at \in {"Asking", "Offer"}
    /\ menu' = Out
    /\ UNCHANGED <<published, http, shared, net, wifi, card, flash, rebooting, hist, count>>

\* App::run_install. Any job in the queue is left there, and this one forgotten.
Installs ==
    /\ menu.at = "Offer"
    /\ cancel' = FALSE /\ news' = NIL
    /\ jobs' = Queued(Install(menu.offer, "Menu"))
    /\ menu' = [menu EXCEPT !.at = "Installing"]
    /\ hist' = [hist EXCEPT !.stopped = FALSE]
    /\ UNCHANGED <<published, http, answer, net, wifi, card, flash, rebooting, count>>

\* Done, it waits for the reboot.
HearsNews ==
    /\ menu.at = "Installing" /\ news # NIL
    /\ news' = NIL
    /\ menu' = IF news = "Failed" THEN Out ELSE menu
    /\ UNCHANGED <<published, http, jobs, answer, cancel, net, wifi, card, flash, rebooting,
                   hist, count>>

\* A click, or 30 s without news: then the menu leaves.
Stops ==
    /\ menu.at = "Installing"
    /\ cancel' = TRUE
    /\ menu' \in {menu, Out}
    /\ hist' = [hist EXCEPT !.stopped = TRUE]
    /\ UNCHANGED <<published, http, jobs, answer, news, net, wifi, card, flash, rebooting,
                   count>>

-----------------------------------------------------------------------------
(* The HTTP API *)

Free == [at |-> "Free", offer |-> NIL]

\* management_update: the check, on the HTTP server's own thread.
HttpAsks ==
    /\ http.at = "Free" /\ wifi = "Joined"
    /\ count.asks < MaxAsks
    /\ \E a \in Answers :
        http' = IF a.says = "Offer" THEN [at |-> "Checked", offer |-> a.bundle] ELSE Free
    /\ count' = [count EXCEPT !.asks = @ + 1]
    /\ UNCHANGED <<published, menu, shared, net, wifi, card, flash, rebooting, hist>>

\* It takes back whatever cancel there is, the menu's too ...
HttpClears ==
    /\ http.at = "Checked"
    /\ cancel' = FALSE
    /\ http' = [http EXCEPT !.at = "Queueing"]
    /\ hist' = [hist EXCEPT !.stopped = FALSE]
    /\ UNCHANGED <<published, menu, jobs, answer, news, net, wifi, card, flash, rebooting, count>>

\* ... and then may find the queue full (409).
HttpQueues ==
    /\ http.at = "Queueing"
    /\ jobs' = Queued(Install(http.offer, "Http"))
    /\ http' = Free
    /\ UNCHANGED <<published, menu, answer, news, cancel, net, wifi, card, flash, rebooting,
                   hist, count>>

\* ESP-IDF refuses an update while the running app is not confirmed.
CanUpdate == flash.state[flash.running] = "Valid"

\* An image written whole into the spare slot, checked, and marked to boot.
Complete(firmware) ==
    flash' = [flash EXCEPT !.app[Spare] = firmware, !.state[Spare] = "New", !.boot = Spare]

\* POST /api/ota (firmware::install): the image on the card. Not while the net
\* thread has the slot (EspOta::new).
Ota ==
    /\ http.at = "Free" /\ wifi = "Joined"
    /\ count.asks < MaxAsks
    /\ CanUpdate /\ net.at # "Extracting"
    /\ \E firmware \in Firmwares : Complete(firmware)
    /\ rebooting' = TRUE
    /\ count' = [count EXCEPT !.asks = @ + 1]
    /\ UNCHANGED <<published, menu, http, shared, net, wifi, card, hist>>

\* /api/reboot
AsksReboot ==
    /\ http.at = "Free" /\ wifi = "Joined"
    /\ count.asks < MaxAsks
    /\ rebooting' = TRUE
    /\ count' = [count EXCEPT !.asks = @ + 1]
    /\ UNCHANGED <<published, menu, http, shared, net, wifi, card, flash, hist>>

-----------------------------------------------------------------------------
(* The net thread *)

Waiting == [at |-> "Waiting", offer |-> NIL, by |-> NIL, got |-> 0, left |-> {}]

\* Between two jobs a network is found or lost, or WiFi switched on or off; the
\* HTTP server ends its request before WiFi goes off.
WifiChanges ==
    /\ net.at = "Waiting"
    /\ wifi' \in {"Joined", "Searching", "Off"} \ {wifi}
    /\ wifi' = "Off" => http.at = "Free"
    /\ IF wifi # "Joined" THEN UNCHANGED count
       ELSE count.losses < MaxLosses /\ count' = [count EXCEPT !.losses = @ + 1]
    /\ UNCHANGED <<published, menu, http, shared, net, card, flash, rebooting, hist>>

\* wait() takes a job, on a network or still searching for one (do_job).
TakesJob ==
    /\ net.at = "Waiting" /\ wifi # "Off" /\ jobs # <<>>
    /\ jobs' = <<>>
    /\ net' = IF Head(jobs).job = "Check" THEN [Waiting EXCEPT !.at = "Checking"]
              ELSE [Waiting EXCEPT !.at = "Downloading", !.offer = Head(jobs).offer,
                                   !.by = Head(jobs).by]
    /\ UNCHANGED <<published, menu, http, answer, news, cancel, wifi, card, flash, rebooting,
                   hist, count>>

Checks ==
    /\ net.at = "Checking"
    /\ answer' \in Answers
    /\ net' = Waiting
    /\ UNCHANGED <<published, menu, http, jobs, news, cancel, wifi, card, flash, rebooting,
                   hist, count>>

\* install() fails: the download goes, what was extracted stays, and the spare
\* slot is not marked.
Fails ==
    /\ net' = Waiting /\ news' = "Failed"
    /\ card' = [card EXCEPT !.download = NIL]

\* Mutant of Cancelled: not looked at.
NotCancelled == FALSE

\* `cancel` is read before each chunk, and each entry of the bundle.
Cancelled == cancel

\* download(): the next chunk. Anything may fail; another bundle published
\* meanwhile is noticed.
Downloads ==
    /\ net.at = "Downloading" /\ net.got < Chunks
    /\ \/ Fails
       \/ /\ ~Cancelled /\ published = net.offer /\ wifi = "Joined"
          /\ \E intact \in BOOLEAN :
                card' = [card EXCEPT !.download =
                            IF intact /\ (net.got = 0 \/ @ = net.offer)
                            THEN net.offer ELSE "Broken"]
          /\ news' = "Progress"
          /\ net' = [net EXCEPT !.got = @ + 1]
    /\ UNCHANGED <<published, menu, http, jobs, answer, cancel, wifi, flash, rebooting,
                   hist, count>>

\* Mutant of Verified: whatever came is extracted.
AsItCame == TRUE

\* verify(): every byte came, and is the bundle offered.
Verified == card.download = net.offer

Verifies ==
    /\ net.at = "Downloading" /\ net.got = Chunks
    /\ \/ Fails
       \/ /\ Verified
          /\ news' = "Progress"
          /\ net' = [net EXCEPT !.at = "Extracting", !.left = Files \cup {"Firmware"}]
          /\ UNCHANGED card
    /\ UNCHANGED <<published, menu, http, jobs, answer, cancel, wifi, flash, rebooting,
                   hist, count>>

\* The firmware goes into the spare slot, over what was there.
Write(b) ==
    /\ CanUpdate
    /\ flash' = [flash EXCEPT !.app[Spare] = FirmwareIn(b), !.state[Spare] = "Written"]

\* extract(): the next entry of the bundle.
Extracts ==
    /\ net.at = "Extracting" /\ net.left # {}
    /\ \/ Fails /\ UNCHANGED <<flash, hist>>
       \/ \E entry \in net.left :
            /\ ~Cancelled
            /\ net' = [net EXCEPT !.left = @ \ {entry}]
            /\ news' = "Progress"
            /\ IF entry = "Firmware"
               THEN Write(card.download) /\ UNCHANGED <<card, hist>>
               ELSE /\ card' = [card EXCEPT !.files[entry] = card.download]
                    /\ hist' = [hist EXCEPT !.partly = TRUE]
                    /\ UNCHANGED flash
    /\ UNCHANGED <<published, menu, http, jobs, answer, cancel, wifi, rebooting, count>>

\* All out: the slot is marked to boot.
Marks ==
    /\ net.at = "Extracting" /\ net.left = {}
    /\ Complete(flash.app[Spare])
    /\ net' = [net EXCEPT !.at = "Extracted"]
    /\ UNCHANGED <<published, menu, http, shared, wifi, card, rebooting, hist, count>>

\* INSTALLED is written (if it can be), the menu told, and the radio reboots soon.
Finishes ==
    /\ net.at = "Extracted"
    /\ \E saved \in BOOLEAN :
        /\ card' = [card EXCEPT !.download = NIL,
                                !.installed = IF saved THEN net.offer ELSE @]
        /\ hist' = [hist EXCEPT !.partly = IF saved THEN FALSE ELSE @]
    /\ news' = "Done"
    /\ net' = Waiting
    /\ rebooting' = TRUE
    /\ UNCHANGED <<published, menu, http, jobs, answer, cancel, wifi, flash, count>>

-----------------------------------------------------------------------------
(* The app slots *)

\* Mutant of Lasts: confirmed at once, not after a minute.
LastsAnyway == TRUE

\* The app runs for CONFIRM_AFTER.
Lasts == Running \notin Bad

\* firmware::confirm_later
Confirms ==
    /\ flash.state[flash.running] = "Pending" /\ Lasts
    /\ flash' = [flash EXCEPT !.state[flash.running] = "Valid"]
    /\ UNCHANGED <<published, menu, http, shared, net, wifi, card, rebooting, hist, count>>

\* The bootloader: an app that was not confirmed is not run again, nor one that
\* is not whole.
BootSlot ==
    IF flash.state[flash.boot] \in {"New", "Valid"} THEN flash.boot ELSE Other(flash.boot)

\* What a slot's state becomes at boot.
AtBoot(slot) ==
    CASE flash.state[slot] = "Pending"               -> "Aborted"
      [] flash.state[slot] = "New" /\ slot = BootSlot -> "Pending"
      [] OTHER                                       -> flash.state[slot]

\* esp_restart, a crash of a bad app, or the power's loss.
Boots ==
    /\ \/ rebooting /\ UNCHANGED count
       \/ Running \in Bad /\ UNCHANGED count
       \/ count.losses < MaxLosses /\ count' = [count EXCEPT !.losses = @ + 1]
    /\ flash' = [running |-> BootSlot, boot |-> BootSlot, app |-> flash.app,
                 state |-> [slot \in Slots |-> AtBoot(slot)]]
    /\ menu' = Out /\ http' = Free /\ net' = Waiting
    /\ jobs' = <<>> /\ answer' = NIL /\ news' = NIL /\ cancel' = FALSE
    /\ wifi' = "Searching" /\ rebooting' = FALSE
    /\ hist' = [hist EXCEPT !.stopped = FALSE]
    /\ UNCHANGED <<published, card>>

-----------------------------------------------------------------------------
Init ==
    /\ published \in Bundles \cup {NIL}
    /\ menu = Out /\ http = Free /\ net = Waiting
    /\ jobs = <<>> /\ answer = NIL /\ news = NIL /\ cancel = FALSE
    /\ wifi = "Searching" /\ rebooting = FALSE
    /\ card = [download |-> NIL, files |-> [f \in Files |-> NIL], installed |-> NIL]
    /\ flash = [running |-> 1, boot |-> 1, app |-> <<Flashed, NIL>>, state |-> <<"Valid", NIL>>]
    /\ hist = [stopped |-> FALSE, partly |-> FALSE]
    /\ count = [asks |-> 0, published |-> 0, losses |-> 0]

MenuNext == Asks \/ AsksServer \/ IsAnswered \/ GivesUp \/ Installs \/ HearsNews \/ Stops
HttpNext == HttpAsks \/ HttpClears \/ HttpQueues \/ Ota \/ AsksReboot
NetNext  == \/ WifiChanges \/ TakesJob \/ Checks \/ Downloads \/ Verifies \/ Extracts
            \/ Marks \/ Finishes

Next == Publishes \/ MenuNext \/ HttpNext \/ NetNext \/ Confirms \/ Boots

Spec == Init /\ [][Next]_vars

-----------------------------------------------------------------------------
(* Properties *)

AnswersEver == [says : {"Offer"}, bundle : Bundles]
                   \cup [says : {"UpToDate", "Error"}, bundle : {NIL}]

\* What may have come of a bundle.
Contents == Bundles \cup {NIL, "Broken"}

JobsEver == [job : {"Check"}, offer : {NIL}, by : {NIL}]
                \cup [job : {"Install"}, offer : Bundles, by : {"Menu", "Http"}]

SlotStates == {"Written", "New", "Pending", "Valid", "Aborted", NIL}

Menus  == [at : {"Out", "Drained", "Asking", "Offer", "Installing"}, offer : Bundles \cup {NIL}]
Https  == [at : {"Free", "Checked", "Queueing"}, offer : Bundles \cup {NIL}]
Nets   == [at : {"Waiting", "Checking", "Downloading", "Extracting", "Extracted"},
           offer : Bundles \cup {NIL}, by : {"Menu", "Http", NIL}, got : 0..Chunks,
           left : SUBSET (Files \cup {"Firmware"})]
Cards  == [download : Contents, files : [Files -> Contents], installed : Bundles \cup {NIL}]
Flashes == [running : Slots, boot : Slots, app : [Slots -> Firmwares \cup {NIL}],
            state : [Slots -> SlotStates]]
Hists  == [stopped : BOOLEAN, partly : BOOLEAN]
Counts == [asks : 0..MaxAsks, published : 0..MaxPublished, losses : 0..MaxLosses]

\* The variables have their types; no more than one job waits.
TypeOK ==
    /\ published \in Bundles \cup {NIL}
    /\ menu \in Menus /\ http \in Https
    /\ jobs \in Seq(JobsEver) /\ Len(jobs) <= 1
    /\ answer \in AnswersEver \cup {NIL}
    /\ news \in {"Progress", "Failed", "Done", NIL} /\ cancel \in BOOLEAN
    /\ net \in Nets
    /\ wifi \in {"Joined", "Searching", "Off"} /\ rebooting \in BOOLEAN
    /\ card \in Cards /\ flash \in Flashes
    /\ hist \in Hists /\ count \in Counts

\* "A radio updated over WiFi can't be lost to a bad build" (firmware.rs): whatever
\* is installed over what, and wherever the power goes, a good app that lasted its
\* minute is in a slot, to go back to.
GoodAppKept ==
    \E slot \in Slots : flash.state[slot] = "Valid" /\ flash.app[slot] \notin Bad \cup {NIL}

\* All that was extracted is of the bundle offered, whole: not of one published
\* since, of a broken download, or of another install.
OneBundleAtATime ==
    net.at = "Extracting" =>
        /\ \A f \in Files \ net.left : card.files[f] = net.offer
        /\ "Firmware" \notin net.left => flash.app[Spare] = FirmwareOf[net.offer]

\* A radio told it is up to date has all of the published bundle, unless an install
\* was given up part way since: crashes, rollbacks and bundles that differ in
\* their files alone are offered again.
UpToDateIsTrue ==
    OfferBundle(Running, card.installed).says = "UpToDate" /\ ~hist.partly =>
        Running = FirmwareOf[published] /\ \A f \in Files : card.files[f] = published

\* A stopped install gets no chunk or entry beyond the one under way: the menu's
\* "stalled" one neither, found in the queue later. Only the HTTP API's asking for
\* an install takes the stop back.
StopsAtTheNext ==
    [][hist.stopped /\ hist'.stopped =>
          net'.got <= net.got /\ (net.at = net'.at => net'.left = net.left)]_vars
=============================================================================
