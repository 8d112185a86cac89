------------------------------ MODULE UpdateProofs ------------------------------
(***************************************************************************)
(* Theorems about module Update: for every set of bundles and firmwares,   *)
(* bad ones among them, of files and of chunks, and however often the      *)
(* power goes, the server publishes and the menu and the HTTP API ask.     *)
(***************************************************************************)
EXTENDS Update, TLAPS

-----------------------------------------------------------------------------
(* The inductive invariant *)

\* An offer is of a bundle, from the server's answer to the last chunk.
OffersAreBundles ==
    /\ menu.at = "Offer" => menu.offer \in Bundles
    /\ http.at \in {"Checked", "Queueing"} => http.offer \in Bundles
    /\ net.at \in {"Downloading", "Extracting", "Extracted"} => net.offer \in Bundles

\* What is being extracted, and what has been.
ExtractsTheOffer ==
    /\ net.at = "Extracting" => card.download = net.offer
    /\ net.at = "Extracting" => \A f \in Files \ net.left : card.files[f] = net.offer
    /\ net.at = "Extracted" => \A f \in Files : card.files[f] = net.offer
    /\ net.at = "Extracting" /\ "Firmware" \notin net.left =>
          CanUpdate /\ flash.app[Spare] = FirmwareOf[net.offer]

\* What INSTALLED says is what is on the card.
InstalledIsThere ==
    ~hist.partly /\ card.installed # NIL => \A f \in Files : card.files[f] = card.installed

\* The app that runs is one to go back to, or has one to go back to; one is only
\* marked to boot by the app that is confirmed.
SlotsAreSafe ==
    /\ flash.state[flash.running] \in {"Valid", "Pending"}
    /\ flash.boot # flash.running => CanUpdate
    /\ \E slot \in Slots : flash.state[slot] = "Valid"
    /\ \A slot \in Slots : flash.state[slot] = "Valid" => flash.app[slot] \notin Bad
    /\ \A slot \in Slots :
          flash.state[slot] \in {"New", "Pending", "Valid"} => flash.app[slot] # NIL

\* A stopped install finds the flag up.
StopIsKept == hist.stopped => cancel

UpdateInv ==
    /\ OffersAreBundles
    /\ ExtractsTheOffer
    /\ InstalledIsThere
    /\ SlotsAreSafe
    /\ StopIsKept

-----------------------------------------------------------------------------
(* Types *)

\* Another of what is counted, where the bound leaves room.
LEMMA CountType ==
    ASSUME count \in Counts
    PROVE  /\ count.asks < MaxAsks => [count EXCEPT !.asks = @ + 1] \in Counts
           /\ count.published < MaxPublished => [count EXCEPT !.published = @ + 1] \in Counts
           /\ count.losses < MaxLosses => [count EXCEPT !.losses = @ + 1] \in Counts
  BY UpdateAssumption DEF Counts

LEMMA QueuedType ==
    ASSUME jobs \in Seq(JobsEver), Len(jobs) <= 1, NEW job \in JobsEver
    PROVE  Queued(job) \in Seq(JobsEver) /\ Len(Queued(job)) <= 1
  BY DEF Queued

LEMMA NoJobs == <<>> \in Seq(JobsEver) /\ Len(<<>>) = 0
  OBVIOUS

\* A flag set in the history leaves the rest of it.
LEMMA HistType ==
    ASSUME NEW h \in Hists, NEW flag \in BOOLEAN
    PROVE  [h EXCEPT !.stopped = flag] \in Hists /\ [h EXCEPT !.partly = flag] \in Hists
  BY DEF Hists

LEMMA IdleTypes == Out \in Menus /\ Free \in Https /\ Waiting \in Nets
  BY UpdateAssumption DEF Out, Free, Waiting, Menus, Https, Nets

LEMMA MenuType ==
    ASSUME NEW at \in {"Out", "Drained", "Asking", "Offer", "Installing"}
    PROVE  [Out EXCEPT !.at = at] \in Menus /\ \A m \in Menus : [m EXCEPT !.at = at] \in Menus
  BY DEF Out, Menus

LEMMA AnswersType ==
    ASSUME TypeOK, NEW a \in Answers
    PROVE  a \in AnswersEver /\ (a.says = "Offer" => a.bundle \in Bundles)
  BY DEF Answers, OfferBundle, Offered, Says, AnswersEver, TypeOK

LEMMA FailsType ==
    ASSUME card \in Cards, Fails
    PROVE  net' \in Nets /\ card' \in Cards /\ news' = "Failed"
  BY IdleTypes DEF Fails, Cards, Contents

\* The slot that does not run.
LEMMA SpareType ==
    ASSUME flash \in Flashes
    PROVE  flash.running \in Slots /\ Spare \in Slots /\ Spare # flash.running
           /\ \A slot \in Slots : slot = flash.running \/ slot = Spare
  BY DEF Flashes, Spare, Other, Slots

LEMMA CompleteType ==
    ASSUME flash \in Flashes, NEW firmware \in Firmwares \cup {NIL}, Complete(firmware)
    PROVE  flash' \in Flashes
  BY SpareType DEF Complete, Flashes, SlotStates

LEMMA WriteType ==
    ASSUME flash \in Flashes, NEW b, Write(b)
    PROVE  flash' \in Flashes
  <1>1. FirmwareIn(b) \in Firmwares \cup {NIL}
    BY UpdateAssumption DEF FirmwareIn
  <1> QED
    BY <1>1, SpareType DEF Write, Flashes, SlotStates

LEMMA TypeStep ==
    ASSUME TypeOK, OffersAreBundles, [Next]_vars
    PROVE  TypeOK'
  <1>1. CASE Publishes
    BY <1>1, CountType DEF Publishes, TypeOK, shared
  <1>2. CASE Asks
    BY <1>2, CountType, MenuType, NoJobs DEF Asks, TypeOK, shared
  <1>3. CASE AsksServer
    <2>1. Check \in JobsEver
      BY DEF Check, JobsEver
    <2>2. jobs' \in Seq(JobsEver) /\ Len(jobs') <= 1
      BY <1>3, <2>1, QueuedType DEF AsksServer, TypeOK
    <2> QED
      BY <1>3, <2>2, MenuType DEF AsksServer, TypeOK, shared
  <1>4. CASE IsAnswered
    BY <1>4, IdleTypes DEF IsAnswered, TypeOK, shared, Menus, AnswersEver
  <1>5. CASE GivesUp
    BY <1>5, UpdateAssumption DEF GivesUp, TypeOK, shared, Menus, Out
  <1>6. CASE Installs
    <2>1. Install(menu.offer, "Menu") \in JobsEver
      BY <1>6 DEF Installs, OffersAreBundles, Install, JobsEver
    <2>2. jobs' \in Seq(JobsEver) /\ Len(jobs') <= 1
      BY <1>6, <2>1, QueuedType DEF Installs, TypeOK
    <2>3. hist' \in Hists
      BY <1>6, HistType, FALSE \in BOOLEAN DEF Installs, TypeOK
    <2> QED
      BY <1>6, <2>2, <2>3, MenuType DEF Installs, TypeOK, shared
  <1>7. CASE HearsNews
    BY <1>7, UpdateAssumption DEF HearsNews, TypeOK, shared, Menus, Out
  <1>8. CASE Stops
    BY <1>8, HistType, IdleTypes DEF Stops, TypeOK, shared
  <1>9. CASE HttpAsks
    <2>1. http' \in Https
      BY <1>9, AnswersType, IdleTypes DEF HttpAsks, Https
    <2> QED
      BY <1>9, <2>1, CountType DEF HttpAsks, TypeOK, shared
  <1>10. CASE HttpClears
    BY <1>10, UpdateAssumption DEF HttpClears, TypeOK, shared, Https, Hists
  <1>11. CASE HttpQueues
    <2>1. Install(http.offer, "Http") \in JobsEver
      BY <1>11 DEF HttpQueues, OffersAreBundles, Install, JobsEver
    <2>2. jobs' \in Seq(JobsEver) /\ Len(jobs') <= 1
      BY <1>11, <2>1, QueuedType DEF HttpQueues, TypeOK
    <2> QED
      BY <1>11, <2>2, IdleTypes DEF HttpQueues, TypeOK, shared
  <1>12. CASE Ota
    <2>1. flash' \in Flashes
      BY <1>12, CompleteType DEF Ota, TypeOK
    <2> QED
      BY <1>12, <2>1, CountType DEF Ota, TypeOK, shared
  <1>13. CASE AsksReboot
    BY <1>13, UpdateAssumption DEF AsksReboot, TypeOK, shared, Counts
  <1>14. CASE WifiChanges
    BY <1>14, CountType DEF WifiChanges, TypeOK, shared
  <1>15. CASE TakesJob
    <2>1. Head(jobs) \in JobsEver /\ jobs' = <<>>
      BY <1>15 DEF TakesJob, TypeOK
    <2>2. net' \in Nets
      BY <1>15, <2>1, IdleTypes DEF TakesJob, JobsEver, Nets
    <2> QED
      BY <1>15, <2>1, <2>2, NoJobs DEF TakesJob, TypeOK, shared
  <1>16. CASE Checks
    BY <1>16, AnswersType, IdleTypes DEF Checks, TypeOK, shared
  <1>17. CASE Downloads
    <2>1. CASE Fails
      BY <1>17, <2>1, FailsType DEF Downloads, TypeOK, shared
    <2>2. CASE ~Fails
      <3>1. card' \in Cards
        BY <1>17, <2>2 DEF Downloads, TypeOK, Cards, Contents, Nets
      <3>2. net' \in Nets
        BY <1>17, <2>2, UpdateAssumption DEF Downloads, TypeOK, Nets
      <3> QED
        BY <1>17, <2>2, <3>1, <3>2 DEF Downloads, TypeOK, shared
    <2> QED
      BY <2>1, <2>2
  <1>18. CASE Verifies
    <2>1. CASE Fails
      BY <1>18, <2>1, FailsType DEF Verifies, TypeOK, shared
    <2>2. CASE ~Fails
      <3>1. net' \in Nets
        BY <1>18, <2>2 DEF Verifies, TypeOK, Nets
      <3> QED
        BY <1>18, <2>2, <3>1 DEF Verifies, TypeOK, shared
    <2> QED
      BY <2>1, <2>2
  <1>19. CASE Extracts
    <2>1. CASE Fails /\ UNCHANGED <<flash, hist>>
      BY <1>19, <2>1, FailsType DEF Extracts, TypeOK, shared
    <2>2. CASE ~(Fails /\ UNCHANGED <<flash, hist>>)
      <3>1. PICK entry \in net.left :
              /\ net' = [net EXCEPT !.left = @ \ {entry}]
              /\ news' = "Progress"
              /\ IF entry = "Firmware"
                 THEN Write(card.download) /\ UNCHANGED <<card, hist>>
                 ELSE /\ card' = [card EXCEPT !.files[entry] = card.download]
                      /\ hist' = [hist EXCEPT !.partly = TRUE]
                      /\ UNCHANGED flash
        BY <1>19, <2>2 DEF Extracts
      <3>2. net' \in Nets
        BY <3>1 DEF TypeOK, Nets
      <3>3. flash' \in Flashes
        BY <3>1, WriteType DEF TypeOK
      <3>4. card' \in Cards /\ hist' \in Hists
        <4>1. CASE entry = "Firmware"
          BY <3>1, <4>1 DEF TypeOK
        <4>2. CASE entry # "Firmware"
          <5>1. card' \in Cards
            BY <3>1, <4>2 DEF TypeOK, Cards
          <5> QED
            BY <3>1, <4>2, <5>1, HistType, TRUE \in BOOLEAN DEF TypeOK
        <4> QED
          BY <4>1, <4>2
      <3> QED
        BY <1>19, <3>1, <3>2, <3>3, <3>4 DEF Extracts, TypeOK, shared
    <2> QED
      BY <2>1, <2>2
  <1>20. CASE Marks
    <2>1. flash.app[Spare] \in Firmwares \cup {NIL}
      BY SpareType DEF TypeOK, Flashes
    <2>2. flash' \in Flashes
      BY <1>20, <2>1, CompleteType DEF Marks, TypeOK
    <2>3. net' \in Nets
      BY <1>20 DEF Marks, TypeOK, Nets
    <2> QED
      BY <1>20, <2>2, <2>3 DEF Marks, TypeOK, shared
  <1>21. CASE Finishes
    <2>1. PICK saved \in BOOLEAN :
            /\ card' = [card EXCEPT !.download = NIL,
                                    !.installed = IF saved THEN net.offer ELSE @]
            /\ hist' = [hist EXCEPT !.partly = IF saved THEN FALSE ELSE @]
      BY <1>21 DEF Finishes
    <2>2. card' \in Cards
      BY <2>1 DEF TypeOK, Cards, Contents, Nets
    <2>3. hist' \in Hists
      BY <2>1 DEF TypeOK, Hists
    <2> QED
      BY <1>21, <2>2, <2>3, IdleTypes DEF Finishes, TypeOK, shared
  <1>22. CASE Confirms
    <2>1. flash' \in Flashes
      BY <1>22 DEF Confirms, TypeOK, Flashes, SlotStates
    <2> QED
      BY <1>22, <2>1 DEF Confirms, TypeOK, shared
  <1>23. CASE Boots
    <2>1. BootSlot \in Slots /\ \A slot \in Slots : AtBoot(slot) \in SlotStates
      BY DEF BootSlot, AtBoot, Other, Slots, TypeOK, Flashes, SlotStates
    <2>2. flash' \in Flashes
      BY <1>23, <2>1 DEF Boots, TypeOK, Flashes
    <2>3. hist' \in Hists /\ count' \in Counts
      BY <1>23, HistType, CountType, FALSE \in BOOLEAN DEF Boots, TypeOK
    <2>4. /\ menu' \in Menus /\ http' \in Https /\ net' \in Nets
          /\ jobs' \in Seq(JobsEver) /\ Len(jobs') <= 1
      BY <1>23, IdleTypes, NoJobs DEF Boots
    <2>5. /\ answer' = NIL /\ news' = NIL /\ cancel' = FALSE
          /\ wifi' = "Searching" /\ rebooting' = FALSE
          /\ UNCHANGED <<published, card>>
      BY <1>23 DEF Boots
    <2> QED
      BY <2>2, <2>3, <2>4, <2>5 DEF TypeOK
  <1>24. CASE UNCHANGED vars
    BY <1>24 DEF vars, TypeOK, shared
  <1> QED
    BY <1>1, <1>2, <1>3, <1>4, <1>5, <1>6, <1>7, <1>8, <1>9, <1>10, <1>11, <1>12, <1>13, <1>14, <1>15, <1>16, <1>17, <1>18, <1>19, <1>20, <1>21, <1>22, <1>23, <1>24 DEF Next, MenuNext, HttpNext, NetNext

-----------------------------------------------------------------------------
(* Offers *)

LEMMA OffersStep ==
    ASSUME TypeOK, OffersAreBundles, [Next]_vars
    PROVE  OffersAreBundles'
  <1> USE DEF OffersAreBundles
  <1>1. CASE UNCHANGED <<menu, http, net>>
    BY <1>1
  <1>2. CASE Asks \/ AsksServer \/ IsAnswered \/ GivesUp \/ Installs \/ HearsNews \/ Stops
    <2>1. menu'.at = "Offer" => menu'.offer \in Bundles
      BY <1>2 DEF Asks, AsksServer, IsAnswered, GivesUp, Installs, HearsNews, Stops, Out,
                  TypeOK, Menus, AnswersEver
    <2> QED
      BY <1>2, <2>1 DEF Asks, AsksServer, IsAnswered, GivesUp, Installs, HearsNews, Stops
  <1>3. CASE HttpAsks \/ HttpClears \/ HttpQueues
    <2>1. http'.at \in {"Checked", "Queueing"} => http'.offer \in Bundles
      BY <1>3, AnswersType DEF HttpAsks, HttpClears, HttpQueues, Free, TypeOK, Https
    <2> QED
      BY <1>3, <2>1 DEF HttpAsks, HttpClears, HttpQueues
  <1>4. CASE TakesJob
    <2>1. Head(jobs) \in JobsEver
      BY <1>4 DEF TakesJob, TypeOK
    <2> QED
      BY <1>4, <2>1 DEF TakesJob, JobsEver, Waiting
  <1>5. CASE Checks \/ Downloads \/ Verifies \/ Extracts \/ Marks \/ Finishes
    <2>1. net'.at \in {"Downloading", "Extracting", "Extracted"} => net'.offer \in Bundles
      <3>1. \/ net' = Waiting
            \/ net.at \in {"Downloading", "Extracting"} /\ net' = [net EXCEPT !.got = @ + 1]
            \/ net.at = "Downloading"
               /\ net' = [net EXCEPT !.at = "Extracting", !.left = Files \cup {"Firmware"}]
            \/ \E entry \in net.left :
                  net.at = "Extracting" /\ net' = [net EXCEPT !.left = @ \ {entry}]
            \/ net.at = "Extracting" /\ net' = [net EXCEPT !.at = "Extracted"]
        BY <1>5 DEF Checks, Downloads, Verifies, Extracts, Marks, Finishes, Fails
      <3>2. CASE net' = Waiting
        BY <3>2 DEF Waiting
      <3>3. ASSUME net' # Waiting
            PROVE  /\ net.at \in {"Downloading", "Extracting"}
                   /\ net'.offer = net.offer
        BY <3>1, <3>3 DEF TypeOK, Nets
      <3> QED
        BY <3>2, <3>3
    <2> QED
      BY <1>5, <2>1 DEF Checks, Downloads, Verifies, Extracts, Marks, Finishes
  <1>6. CASE Boots
    BY <1>6 DEF Boots, Out, Free, Waiting
  <1>7. CASE Publishes \/ Ota \/ AsksReboot \/ WifiChanges \/ Confirms
    BY <1>1, <1>7 DEF Publishes, Ota, AsksReboot, WifiChanges, Confirms
  <1> QED
    BY <1>1, <1>2, <1>3, <1>4, <1>5, <1>6, <1>7 DEF Next, MenuNext, HttpNext, NetNext, vars

-----------------------------------------------------------------------------
(* Stopping *)

LEMMA StopStep ==
    ASSUME TypeOK, StopIsKept, [Next]_vars
    PROVE  StopIsKept'
  <1> USE DEF StopIsKept, TypeOK, Hists
  <1>1. CASE UNCHANGED <<hist, cancel>>
    BY <1>1
  <1>2. CASE Installs \/ Stops \/ HttpClears \/ Boots
    BY <1>2 DEF Installs, Stops, HttpClears, Boots
  <1>3. CASE Extracts \/ Finishes
    <2>1. hist'.stopped = hist.stopped /\ cancel' = cancel
      BY <1>3 DEF Extracts, Finishes
    <2> QED
      BY <2>1
  <1>4. CASE \/ Publishes \/ Asks \/ AsksServer \/ IsAnswered \/ GivesUp \/ HearsNews
             \/ HttpAsks \/ HttpQueues \/ Ota \/ AsksReboot
             \/ WifiChanges \/ TakesJob \/ Checks \/ Downloads \/ Verifies \/ Marks \/ Confirms
    BY <1>1, <1>4 DEF Publishes, Asks, AsksServer, IsAnswered, GivesUp, HearsNews, HttpAsks,
                      HttpQueues, Ota, AsksReboot, WifiChanges, TakesJob, Checks, Downloads,
                      Verifies, Marks, Confirms, shared
  <1> QED
    BY <1>1, <1>2, <1>3, <1>4 DEF Next, MenuNext, HttpNext, NetNext, vars, shared

-----------------------------------------------------------------------------
(* What is extracted *)

\* Nothing but the net thread, a reboot and POST /api/ota, which waits for it,
\* touches what is extracted from and into.
LEMMA ExtractsStep ==
    ASSUME TypeOK, OffersAreBundles, ExtractsTheOffer, [Next]_vars
    PROVE  ExtractsTheOffer'
  <1> USE DEF ExtractsTheOffer
  <1>1. CASE UNCHANGED <<net, card, flash>>
    BY <1>1 DEF CanUpdate, Spare
  <1>2. CASE Ota
    BY <1>2 DEF Ota
  <1>3. CASE \/ TakesJob \/ Checks \/ Finishes \/ Boots
    <2>1. net'.at \notin {"Extracting", "Extracted"}
      <3>1. CASE TakesJob
        <4>1. \/ net' = [Waiting EXCEPT !.at = "Checking"]
              \/ net' = [Waiting EXCEPT !.at = "Downloading", !.offer = Head(jobs).offer,
                                        !.by = Head(jobs).by]
          BY <3>1 DEF TakesJob
        <4> QED
          BY <4>1 DEF Waiting
      <3>2. CASE Checks \/ Finishes \/ Boots
        <4>1. net' = Waiting
          BY <3>2 DEF Checks, Finishes, Boots
        <4> QED
          BY <4>1 DEF Waiting
      <3> QED
        BY <1>3, <3>1, <3>2
    <2> QED
      BY <2>1
  <1>4. CASE Downloads
    BY <1>4 DEF Downloads, Fails, Waiting, TypeOK, Nets
  <1>5. CASE Verifies
    <2>1. CASE Fails
      BY <2>1 DEF Fails, Waiting
    <2>2. CASE ~Fails
      <3>1. /\ card.download = net.offer /\ card' = card
            /\ net' = [net EXCEPT !.at = "Extracting", !.left = Files \cup {"Firmware"}]
        BY <1>5, <2>2 DEF Verifies, Verified
      <3> QED
        BY <3>1 DEF TypeOK, Nets
    <2> QED
      BY <2>1, <2>2
  <1>6. CASE Extracts
    <2>1. CASE Fails
      BY <2>1 DEF Fails, Waiting
    <2>2. CASE ~Fails
      <3>1. PICK entry \in net.left :
              /\ net' = [net EXCEPT !.left = @ \ {entry}]
              /\ IF entry = "Firmware"
                 THEN Write(card.download) /\ UNCHANGED <<card, hist>>
                 ELSE /\ card' = [card EXCEPT !.files[entry] = card.download]
                      /\ UNCHANGED flash
        BY <1>6, <2>2 DEF Extracts
      <3>2. /\ net.at = "Extracting" /\ net'.at = "Extracting" /\ net'.offer = net.offer
            /\ net'.left = net.left \ {entry} /\ net.offer \in Bundles
            /\ net.left \subseteq Files \cup {"Firmware"}
        BY <1>6, <3>1 DEF Extracts, TypeOK, Nets, OffersAreBundles
      <3>3. CASE entry = "Firmware"
        <4>1. /\ card' = card /\ CanUpdate
              /\ flash' = [flash EXCEPT !.app[Spare] = FirmwareOf[net.offer],
                                        !.state[Spare] = "Written"]
          BY <3>1, <3>2, <3>3 DEF Write, FirmwareIn
        <4>2. /\ flash'.running = flash.running /\ Spare' = Spare
              /\ flash'.app[Spare] = FirmwareOf[net.offer]
              /\ flash'.state[flash.running] = flash.state[flash.running]
          BY <4>1, SpareType DEF TypeOK, Flashes, Spare
        <4>3. CanUpdate' /\ flash'.app[Spare'] = FirmwareOf[net.offer]
          BY <4>1, <4>2 DEF CanUpdate
        <4> QED
          BY <3>2, <3>3, <4>1, <4>3, UpdateAssumption
      <3>4. CASE entry # "Firmware"
        <4>1. /\ card' = [card EXCEPT !.files[entry] = net.offer] /\ entry \in Files
              /\ UNCHANGED flash
          BY <3>1, <3>2, <3>4
        <4>2. /\ card'.download = card.download
              /\ \A f \in Files : card'.files[f] = IF f = entry THEN net.offer ELSE card.files[f]
          BY <4>1 DEF TypeOK, Cards
        <4> QED
          BY <3>2, <3>4, <4>1, <4>2 DEF CanUpdate, Spare
      <3> QED
        BY <3>3, <3>4
    <2> QED
      BY <2>1, <2>2
  <1>7. CASE Marks
    BY <1>7 DEF Marks, TypeOK, Nets
  <1>8. CASE Confirms
    <2>1. net.at = "Extracting" /\ "Firmware" \notin net.left => FALSE
      BY <1>8 DEF Confirms, CanUpdate
    <2> QED
      BY <1>8, <2>1 DEF Confirms
  <1>9. CASE \/ Publishes \/ Asks \/ AsksServer \/ IsAnswered \/ GivesUp \/ Installs
             \/ HearsNews \/ Stops \/ HttpAsks \/ HttpClears \/ HttpQueues \/ AsksReboot
             \/ WifiChanges
    BY <1>1, <1>9 DEF Publishes, Asks, AsksServer, IsAnswered, GivesUp, Installs, HearsNews,
                      Stops, HttpAsks, HttpClears, HttpQueues, AsksReboot, WifiChanges
  <1> QED
    BY <1>1, <1>2, <1>3, <1>4, <1>5, <1>6, <1>7, <1>8, <1>9
       DEF Next, MenuNext, HttpNext, NetNext, vars

LEMMA InstalledStep ==
    ASSUME TypeOK, ExtractsTheOffer, InstalledIsThere, [Next]_vars
    PROVE  InstalledIsThere'
  <1> USE DEF InstalledIsThere
  <1>a. ASSUME hist'.partly = hist.partly, card'.installed = card.installed,
               card'.files = card.files
        PROVE  InstalledIsThere'
    BY <1>a
  <1>b. ASSUME Fails, UNCHANGED hist PROVE InstalledIsThere'
    BY <1>a, <1>b DEF Fails, TypeOK, Cards
  <1>1. CASE UNCHANGED <<card, hist>>
    BY <1>1
  <1>2. CASE Installs \/ Stops \/ HttpClears \/ Boots
    BY <1>2, <1>a DEF Installs, Stops, HttpClears, Boots, TypeOK, Hists
  <1>3. CASE Downloads
    BY <1>3, <1>a, <1>b DEF Downloads, TypeOK, Cards
  <1>4. CASE Verifies
    BY <1>1, <1>4, <1>b DEF Verifies
  <1>5. CASE Extracts
    <2>1. CASE Fails /\ UNCHANGED <<flash, hist>>
      BY <1>b, <2>1
    <2>2. CASE ~(Fails /\ UNCHANGED <<flash, hist>>)
      <3>1. hist' = [hist EXCEPT !.partly = TRUE] \/ UNCHANGED <<card, hist>>
        BY <1>5, <2>2 DEF Extracts
      <3> QED
        BY <3>1 DEF TypeOK, Hists
    <2> QED
      BY <2>1, <2>2
  <1>6. CASE Finishes
    <2>1. PICK saved \in BOOLEAN :
            /\ card' = [card EXCEPT !.download = NIL,
                                    !.installed = IF saved THEN net.offer ELSE @]
            /\ hist' = [hist EXCEPT !.partly = IF saved THEN FALSE ELSE @]
      BY <1>6 DEF Finishes
    <2>2. \A f \in Files : card.files[f] = net.offer
      BY <1>6 DEF Finishes, ExtractsTheOffer
    <2>3. /\ card'.files = card.files
          /\ card'.installed = IF saved THEN net.offer ELSE card.installed
      BY <2>1 DEF TypeOK, Cards
    <2>4. CASE saved
      BY <2>2, <2>3, <2>4
    <2>5. CASE ~saved
      BY <2>1, <2>3, <2>5, <1>a DEF TypeOK, Hists
    <2> QED
      BY <2>4, <2>5
  <1>7. CASE \/ Publishes \/ Asks \/ AsksServer \/ IsAnswered \/ GivesUp \/ HearsNews
             \/ HttpAsks \/ HttpQueues \/ Ota \/ AsksReboot
             \/ WifiChanges \/ TakesJob \/ Checks \/ Marks \/ Confirms
    BY <1>1, <1>7 DEF Publishes, Asks, AsksServer, IsAnswered, GivesUp, HearsNews, HttpAsks,
                      HttpQueues, Ota, AsksReboot, WifiChanges, TakesJob, Checks, Marks,
                      Confirms
  <1> QED
    BY <1>1, <1>2, <1>3, <1>4, <1>5, <1>6, <1>7 DEF Next, MenuNext, HttpNext, NetNext, vars

-----------------------------------------------------------------------------
(* The slots *)

\* Writing the spare slot leaves the one that runs as it is.
LEMMA SpareWritten ==
    ASSUME flash \in Flashes, CanUpdate, SlotsAreSafe,
           NEW firmware, NEW state \in {"New", "Written"},
           state = "New" => firmware # NIL,
           NEW boot,
           flash' = [flash EXCEPT !.app[Spare] = firmware, !.state[Spare] = state,
                                  !.boot = boot]
    PROVE  SlotsAreSafe'
  <1>1. /\ flash'.running = flash.running /\ flash'.boot = boot
        /\ flash'.state[flash.running] = "Valid"
        /\ flash'.app[flash.running] = flash.app[flash.running]
        /\ flash'.state[Spare] = state /\ flash'.app[Spare] = firmware
    BY SpareType DEF Flashes, CanUpdate
  <1>2. flash.app[flash.running] \notin Bad /\ flash.app[flash.running] # NIL
    BY SpareType DEF SlotsAreSafe, CanUpdate
  <1> QED
    BY <1>1, <1>2, SpareType DEF SlotsAreSafe, CanUpdate

LEMMA SlotsStep ==
    ASSUME TypeOK, OffersAreBundles, ExtractsTheOffer, SlotsAreSafe, [Next]_vars
    PROVE  SlotsAreSafe'
  <1>0. flash \in Flashes
    BY DEF TypeOK
  <1>1. CASE UNCHANGED flash
    BY <1>1 DEF SlotsAreSafe, CanUpdate
  <1>2. CASE Ota
    <2>1. PICK firmware \in Firmwares : Complete(firmware)
      BY <1>2 DEF Ota
    <2> QED
      BY <1>0, <1>2, <2>1, SpareWritten, UpdateAssumption DEF Ota, Complete
  <1>3. CASE Extracts
    <2>1. CASE UNCHANGED flash
      BY <1>1, <2>1
    <2>2. CASE ~UNCHANGED flash
      <3>1. Write(card.download)
        BY <1>3, <2>2 DEF Extracts
      <3>2. flash' = [flash EXCEPT !.app[Spare] = FirmwareIn(card.download),
                                   !.state[Spare] = "Written", !.boot = flash.boot]
        BY <1>0, <3>1 DEF Write, Flashes
      <3>3. CanUpdate
        BY <3>1 DEF Write
      <3> QED
        BY <1>0, <3>2, <3>3, SpareWritten
    <2> QED
      BY <2>1, <2>2
  <1>4. CASE Marks
    <2>1. CanUpdate /\ flash.app[Spare] = FirmwareOf[net.offer] /\ net.offer \in Bundles
      BY <1>4 DEF Marks, ExtractsTheOffer, OffersAreBundles
    <2>2. flash.app[Spare] # NIL
      BY <2>1, UpdateAssumption
    <2> QED
      BY <1>0, <1>4, <2>1, <2>2, SpareWritten DEF Marks, Complete
  <1>5. CASE Confirms
    <2>1. /\ flash'.running = flash.running /\ flash'.boot = flash.boot
          /\ flash'.app = flash.app
          /\ \A slot \in Slots :
                flash'.state[slot] = IF slot = flash.running THEN "Valid" ELSE flash.state[slot]
      BY <1>0, <1>5 DEF Confirms, Flashes
    <2> QED
      BY <1>0, <1>5, <2>1, SpareType DEF SlotsAreSafe, Confirms, Lasts, Running, CanUpdate
  <1>6. CASE Boots
    <2>1. /\ flash'.running = BootSlot /\ flash'.boot = BootSlot /\ flash'.app = flash.app
          /\ \A slot \in Slots : flash'.state[slot] = AtBoot(slot)
          /\ BootSlot \in Slots
      BY <1>0, <1>6 DEF Boots, Flashes, BootSlot, Other, Slots
    <2>2. AtBoot(BootSlot) \in {"Valid", "Pending"}
      <3>1. CASE flash.boot = flash.running
        BY <1>0, <3>1, SpareType DEF SlotsAreSafe, AtBoot, BootSlot, Other, Spare, Slots
      <3>2. CASE flash.boot # flash.running
        <4>1. flash.state[flash.running] = "Valid" /\ Other(flash.boot) = flash.running
          BY <1>0, <3>2 DEF SlotsAreSafe, CanUpdate, Flashes, Other, Slots
        <4> QED
          BY <4>1 DEF AtBoot, BootSlot
      <3> QED
        BY <3>1, <3>2
    <2>3. \A slot \in Slots : AtBoot(slot) = "Valid" <=> flash.state[slot] = "Valid"
      BY DEF AtBoot
    <2>4. \A slot \in Slots : AtBoot(slot) \in {"New", "Pending", "Valid"} =>
                                 flash.state[slot] \in {"New", "Pending", "Valid"}
      BY DEF AtBoot
    <2> QED
      BY <2>1, <2>2, <2>3, <2>4 DEF SlotsAreSafe
  <1>7. CASE \/ Publishes \/ Asks \/ AsksServer \/ IsAnswered \/ GivesUp \/ Installs
             \/ HearsNews \/ Stops \/ HttpAsks \/ HttpClears \/ HttpQueues \/ AsksReboot
             \/ WifiChanges \/ TakesJob \/ Checks \/ Downloads \/ Verifies \/ Finishes
    BY <1>1, <1>7 DEF Publishes, Asks, AsksServer, IsAnswered, GivesUp, Installs, HearsNews,
                      Stops, HttpAsks, HttpClears, HttpQueues, AsksReboot, WifiChanges,
                      TakesJob, Checks, Downloads, Verifies, Finishes
  <1> QED
    BY <1>1, <1>2, <1>3, <1>4, <1>5, <1>6, <1>7
       DEF Next, MenuNext, HttpNext, NetNext, vars

-----------------------------------------------------------------------------
(* The theorems *)

LEMMA InitType == Init => TypeOK
  <1> SUFFICES ASSUME Init PROVE TypeOK
    OBVIOUS
  <1>1. card \in Cards
    BY DEF Init, Cards, Contents
  <1>2. flash \in Flashes
    BY UpdateAssumption DEF Init, Flashes, Slots, SlotStates
  <1>3. hist \in Hists /\ count \in Counts
    BY UpdateAssumption DEF Init, Hists, Counts
  <1>4. /\ menu \in Menus /\ http \in Https /\ net \in Nets
        /\ jobs \in Seq(JobsEver) /\ Len(jobs) <= 1
    BY IdleTypes, NoJobs DEF Init
  <1>5. /\ published \in Bundles \cup {NIL} /\ answer = NIL /\ news = NIL /\ cancel = FALSE
        /\ wifi = "Searching" /\ rebooting = FALSE
    BY DEF Init
  <1> QED
    BY <1>1, <1>2, <1>3, <1>4, <1>5 DEF TypeOK

LEMMA InitInv == Init => UpdateInv
  <1> SUFFICES ASSUME Init PROVE UpdateInv
    OBVIOUS
  <1>1. OffersAreBundles /\ ExtractsTheOffer /\ StopIsKept
    BY DEF Init, OffersAreBundles, ExtractsTheOffer, StopIsKept, Out, Free, Waiting
  <1>2. InstalledIsThere
    BY DEF Init, InstalledIsThere
  <1>3. SlotsAreSafe
    BY UpdateAssumption DEF Init, SlotsAreSafe, Slots
  <1> QED
    BY <1>1, <1>2, <1>3 DEF UpdateInv

\* The types, and no more than one job in the queue of one.
THEOREM TypeCorrect == Spec => [](TypeOK /\ UpdateInv)
  <1>1. TypeOK /\ UpdateInv /\ [Next]_vars => (TypeOK /\ UpdateInv)'
    BY TypeStep, OffersStep, ExtractsStep, InstalledStep, SlotsStep, StopStep DEF UpdateInv
  <1> QED
    BY <1>1, InitType, InitInv, PTL DEF Spec

\* "A radio updated over WiFi can't be lost to a bad build" (firmware.rs): a good
\* app that lasted its minute is always in a slot, whatever is installed over
\* what and wherever the power goes.
THEOREM GoodAppIsKept == Spec => []GoodAppKept
  <1>1. TypeOK /\ UpdateInv => GoodAppKept
    BY DEF UpdateInv, SlotsAreSafe, GoodAppKept
  <1> QED
    BY <1>1, TypeCorrect, PTL

\* What management::extract has written, firmware and files, is of the bundle
\* offered, whatever was published, downloaded or installed meanwhile.
THEOREM OneBundleIsExtracted == Spec => []OneBundleAtATime
  <1>1. TypeOK /\ UpdateInv => OneBundleAtATime
    BY DEF UpdateInv, ExtractsTheOffer, OneBundleAtATime
  <1> QED
    BY <1>1, TypeCorrect, PTL

\* The server (Oswst::offer_bundle) tells a radio it is up to date only if it runs
\* the published bundle's firmware and has its files, unless an install was given
\* up part way since.
THEOREM UpToDateRadioHasItAll == Spec => []UpToDateIsTrue
  <1>1. TypeOK /\ UpdateInv => UpToDateIsTrue
    <2> SUFFICES ASSUME TypeOK, UpdateInv, ~hist.partly,
                        OfferBundle(Running, card.installed).says = "UpToDate"
                 PROVE  Running = FirmwareOf[published]
                        /\ \A f \in Files : card.files[f] = published
      BY DEF UpToDateIsTrue
    <2>1. published # NIL /\ card.installed = published /\ FirmwareOf[published] = Running
      BY DEF OfferBundle, Says, Offered
    <2> QED
      BY <2>1 DEF UpdateInv, InstalledIsThere
  <1> QED
    BY <1>1, TypeCorrect, PTL

\* Once stopped, an install gets no further chunk and extracts no further entry
\* (download's and extract's looks at CANCEL), until the HTTP API takes it back.
THEOREM StoppedAtTheNext == Spec => StopsAtTheNext
  <1>1. TypeOK /\ UpdateInv /\ [Next]_vars =>
           (hist.stopped /\ hist'.stopped =>
               net'.got <= net.got /\ (net.at = net'.at => net'.left = net.left))
    <2> SUFFICES ASSUME TypeOK, UpdateInv, [Next]_vars, hist.stopped, hist'.stopped
                 PROVE  /\ net'.got <= net.got
                        /\ net.at = net'.at => net'.left = net.left
      OBVIOUS
    <2>0. net.got \in Nat /\ cancel
      BY DEF TypeOK, Nets, UpdateInv, StopIsKept
    <2>1. CASE UNCHANGED net
      BY <2>0, <2>1
    <2>2. ASSUME net' = Waiting, net.at # "Waiting"
          PROVE  net'.got <= net.got /\ net.at # net'.at
      BY <2>0, <2>2 DEF Waiting
    <2>3. CASE TakesJob
      <3>1. \/ net' = [Waiting EXCEPT !.at = "Checking"]
            \/ net' = [Waiting EXCEPT !.at = "Downloading", !.offer = Head(jobs).offer,
                                      !.by = Head(jobs).by]
        BY <2>3 DEF TakesJob
      <3>2. net.at = "Waiting" /\ net'.got = 0 /\ net'.at # "Waiting"
        BY <2>3, <3>1 DEF TakesJob, Waiting
      <3> QED
        BY <2>0, <3>2
    <2>4. CASE Checks \/ Finishes
      BY <2>2, <2>4 DEF Checks, Finishes
    <2>5. CASE Downloads \/ Extracts
      <3>1. net' = Waiting /\ net.at # "Waiting"
        BY <2>0, <2>5 DEF Downloads, Extracts, Fails, Cancelled
      <3> QED
        BY <2>2, <3>1
    <2>6. CASE Verifies \/ Marks
      <3>1. /\ net.at \in {"Downloading", "Extracting"}
            /\ \/ net' = Waiting
               \/ net' = [net EXCEPT !.at = "Extracting", !.left = Files \cup {"Firmware"}]
                  /\ net.at = "Downloading"
               \/ net' = [net EXCEPT !.at = "Extracted"]
        BY <2>6 DEF Verifies, Marks, Fails
      <3>2. CASE net' # Waiting
        <4>1. net'.got = net.got
          BY <3>1, <3>2 DEF TypeOK, Nets
        <4>2. net'.at # net.at
          <5>1. CASE Verifies
            <6>1. net.at = "Downloading" /\ net' = [net EXCEPT !.at = "Extracting",
                                                       !.left = Files \cup {"Firmware"}]
              BY <3>2, <5>1 DEF Verifies, Fails
            <6> QED
              BY <6>1 DEF TypeOK, Nets
          <5>2. CASE Marks
            BY <5>2 DEF Marks, TypeOK, Nets
          <5> QED
            BY <2>6, <5>1, <5>2
        <4> QED
          BY <2>0, <4>1, <4>2
      <3> QED
        BY <2>2, <3>1, <3>2
    <2>7. ~Boots
      BY DEF Boots, TypeOK, Hists
    <2>8. CASE \/ Publishes \/ Asks \/ AsksServer \/ IsAnswered \/ GivesUp \/ Installs
               \/ HearsNews \/ Stops \/ HttpAsks \/ HttpClears \/ HttpQueues \/ Ota
               \/ AsksReboot \/ WifiChanges \/ Confirms
      BY <2>1, <2>8 DEF Publishes, Asks, AsksServer, IsAnswered, GivesUp, Installs,
                        HearsNews, Stops, HttpAsks, HttpClears, HttpQueues, Ota,
                        AsksReboot, WifiChanges, Confirms
    <2> QED
      BY <2>1, <2>3, <2>4, <2>5, <2>6, <2>7, <2>8
         DEF Next, MenuNext, HttpNext, NetNext, vars
  <1> QED
    BY <1>1, TypeCorrect, PTL DEF Spec, StopsAtTheNext
=============================================================================
