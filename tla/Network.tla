-------------------------------- MODULE Network --------------------------------
(***************************************************************************)
(* WiFi and the HTTP API, as the menu, the config file and requests over   *)
(* the network switch them: the net thread (src/net.rs), the HTTP server's *)
(* task (src/http.rs), and the app's menu (core/src/app.rs), over the      *)
(* files of Storage.  The power may go anywhere.                           *)
(*                                                                         *)
(* Bounds of a run: MaxChanges (at the menu), MaxRequests, MaxLosses (of   *)
(* the power and of the network joined, and what fails).                   *)
(***************************************************************************)
EXTENDS Storage

CONSTANTS Servers, Uploads, Scans, MaxChanges, MaxRequests, MaxLosses

ASSUME NetworkAssumption ==
    /\ NIL \notin Servers \cup Nat \cup SecretTables(Servers)
    /\ \A content \in Uploads : content = Unfit \/ IsTable(content)
    /\ MaxChanges \in Nat /\ MaxRequests \in Nat /\ MaxLosses \in Nat

VARIABLES files,
          table,    \* Settings: config.toml as the app has it
          live,     \* WIFI_ON, HTTP_API_ON, NETWORKS: [wifi, http, nets]
          wanted,   \* SCAN_WANTED
          scan,     \* SCANS: the latest scan, or NIL
          menu,     \* [at, list, pick]: the app's thread
          net,      \* [at, nets, scans, joined, stop, key]: the net thread
          api,      \* HttpApi: [on, up]
          http,     \* [at, path, content]: the HTTP server's task
          offs,     \* /wifi/off messages on their way
          count     \* bounds: [changes, requests, losses, keys]

vars == <<files, table, live, wanted, scan, menu, net, api, http, offs, count>>

-----------------------------------------------------------------------------
(* The menu *)

Shut == [at |-> "Shut", list |-> <<>>, pick |-> NIL]

\* Room for another change within the bounds.
MayChange == count.changes < MaxChanges /\ count' = [count EXCEPT !.changes = @ + 1]

\* Something fails, or the power or the network goes.
MayFail == count.losses < MaxLosses /\ count' = [count EXCEPT !.losses = @ + 1]

\* Settings::save: the whole file, from RAM, under another name first.
Saves(config) ==
    /\ table' = config
    /\ files' = Replace(files, "config.toml.new", config)

\* Setting::set, of WIFI_ON or HTTP_API_ON: live at once, then saved.
Sets ==
    /\ menu.at = "Shut" /\ MayChange
    /\ \/ \E on \in BOOLEAN : live' = [live EXCEPT !.wifi = on]
                              /\ Saves([table EXCEPT !.wifi = on])
       \/ \E on \in BOOLEAN : live' = [live EXCEPT !.http = on]
                              /\ Saves([table EXCEPT !.http = on])
    /\ menu' = [menu EXCEPT !.at = "Saving"]
    /\ UNCHANGED <<wanted, scan, net, api, http, offs>>

\* run_add_wifi: refused while WiFi is off.
Opens ==
    /\ menu.at = "Shut" /\ live.wifi
    /\ wanted' = TRUE /\ scan' = NIL
    /\ menu' = [Shut EXCEPT !.at = "Listing"]
    /\ UNCHANGED <<files, table, live, net, api, http, offs, count>>

\* ScanList::add_scan
AddScan(list, found) ==
    LET New(seen) == ~\E i \in DOMAIN list : list[i] = seen
    IN list \o SelectSeq(found, New)

Lists ==
    /\ menu.at = "Listing" /\ scan # NIL
    /\ menu' = [menu EXCEPT !.list = AddScan(@, scan)]
    /\ scan' = NIL
    /\ UNCHANGED <<files, table, live, wanted, net, api, http, offs, count>>

\* A row is picked: no scans while its password is typed.
Picks ==
    /\ menu.at = "Listing"
    /\ \E i \in DOMAIN menu.list : menu' = [menu EXCEPT !.at = "Typing", !.pick = menu.list[i]]
    /\ wanted' = FALSE
    /\ UNCHANGED <<files, table, live, scan, net, api, http, offs, count>>

\* run_password: given up.
GivesUp ==
    /\ menu.at = "Typing"
    /\ menu' = [menu EXCEPT !.at = "Listing", !.pick = NIL]
    /\ wanted' = TRUE
    /\ UNCHANGED <<files, table, live, scan, net, api, http, offs, count>>

\* Typed, or an open network.
Adds ==
    /\ menu.at = "Typing" /\ MayChange
    /\ Saves([table EXCEPT !.nets = AddWifi(@, menu.pick)])
    /\ menu' = [Shut EXCEPT !.at = "Saving"]
    /\ UNCHANGED <<live, wanted, scan, net, api, http, offs>>

LeavesList ==
    /\ menu.at = "Listing"
    /\ menu' = Shut /\ wanted' = FALSE
    /\ UNCHANGED <<files, table, live, scan, net, api, http, offs, count>>

\* run_forget_wifi
Forgets ==
    /\ menu.at = "Shut" /\ MayChange
    /\ \E i \in DOMAIN table.nets :
        Saves([table EXCEPT !.nets = ForgetWifi(@, table.nets[i])])
    /\ menu' = [Shut EXCEPT !.at = "Saving"]
    /\ UNCHANGED <<live, wanted, scan, net, api, http, offs>>

\* replace's second half, then publish_wifi.
Renames ==
    /\ menu.at = "Saving"
    /\ files' = [files EXCEPT !["config.toml"] = files["config.toml.new"],
                              !["config.toml.new"] = NIL]
    /\ live' = [live EXCEPT !.nets = table.nets]
    /\ menu' = Shut
    /\ UNCHANGED <<table, wanted, scan, net, api, http, offs, count>>

-----------------------------------------------------------------------------
(* The HTTP server's task: one request at a time *)

Idle == [at |-> "Idle", path |-> NIL, content |-> NIL]

\* A request comes: the server is up, and the radio on a network.
Asked ==
    /\ http.at = "Idle" /\ api.up /\ net.joined # NIL
    /\ count.requests < MaxRequests
    /\ count' = [count EXCEPT !.requests = @ + 1]

\* put: a body that may not land is refused; else it is in the .part file.
PutComes ==
    /\ Asked
    /\ \E path \in {"config.toml", "other"}, content \in Uploads :
        /\ MayLandOn(content, path)
        /\ http' = [at |-> "Putting", path |-> path, content |-> content]
    /\ UNCHANGED <<files, table, live, wanted, scan, menu, net, api, offs>>

\* ... and renamed; or it never all came.
PutEnds ==
    /\ http.at = "Putting"
    /\ \/ files' = Replace(files, http.path, http.content) /\ UNCHANGED count
       \/ MayFail /\ UNCHANGED files
    /\ http' = Idle
    /\ UNCHANGED <<table, live, wanted, scan, menu, net, api, offs>>

DeleteComes ==
    /\ Asked
    /\ \E path \in Reachable : files' = Delete(files, path)
    /\ UNCHANGED <<table, live, wanted, scan, menu, net, api, http, offs>>

MoveComes ==
    /\ Asked
    /\ \E from, to \in Reachable : files' = Move(files, from, to)
    /\ UNCHANGED <<table, live, wanted, scan, menu, net, api, http, offs>>

\* secrets::set_server: the table read ...
SetServerComes ==
    /\ Asked
    /\ \E server \in Servers :
        http' = [at |-> "Setting", path |-> "secrets.toml",
                 content |-> Secrets(SecretsIn(files["secrets.toml"]).key, server)]
    /\ UNCHANGED <<files, table, live, wanted, scan, menu, net, api, offs>>

\* ... and written back.
SetServerEnds ==
    /\ http.at = "Setting"
    /\ files' = Replace(files, http.path, http.content)
    /\ http' = Idle
    /\ UNCHANGED <<table, live, wanted, scan, menu, net, api, offs, count>>

\* switch_wifi_off
OffComes ==
    /\ Asked
    /\ offs' = offs + 1
    /\ UNCHANGED <<files, table, live, wanted, scan, menu, net, api, http>>

-----------------------------------------------------------------------------
(* The net thread *)

Off == [at |-> "Off", nets |-> <<>>, scans |-> FALSE, joined |-> NIL, stop |-> NIL, key |-> NIL]

\* wanted()
Wanted == live.wifi /\ (live.nets # <<>> \/ wanted)

\* run(): WiFi on, the key made before anything else runs.
Starts ==
    /\ net.at = "Off" /\ Wanted
    /\ net' = [Off EXCEPT !.at = "Starting"]
    /\ UNCHANGED <<files, table, live, wanted, scan, menu, api, http, offs, count>>

\* secrets::make_key: the table read ...
ReadsKey ==
    /\ net.at = "Starting"
    /\ LET secrets == SecretsIn(files["secrets.toml"]) IN
       IF secrets.key # NIL
       THEN net' = [net EXCEPT !.at = "Keyed"] /\ UNCHANGED count
       ELSE /\ net' = [net EXCEPT !.at = "Keying", !.key = Secrets(count.keys + 1, secrets.server)]
            /\ count' = [count EXCEPT !.keys = @ + 1]
    /\ UNCHANGED <<files, table, live, wanted, scan, menu, api, http, offs>>

\* ... and written back, with a key. (It may fail: logged.)
WritesKey ==
    /\ net.at = "Keying"
    /\ \/ files' = Replace(files, "secrets.toml", net.key) /\ UNCHANGED count
       \/ MayFail /\ UNCHANGED files
    /\ net' = [net EXCEPT !.at = "Keyed", !.key = NIL]
    /\ UNCHANGED <<table, live, wanted, scan, menu, api, http, offs>>

\* HttpApi::follow_setting. The server may fail to start.
FollowSetting ==
    IF live.http = api.on THEN UNCHANGED <<api, count>>
    ELSE /\ live.http \/ http.at = "Idle"
         /\ \/ api' = [on |-> live.http, up |-> live.http] /\ UNCHANGED count
            \/ live.http /\ MayFail /\ api' = [on |-> TRUE, up |-> FALSE]

\* HttpApi::new, and into stay_joined.
Serves ==
    /\ net.at = "Keyed"
    /\ FollowSetting
    /\ net' = [net EXCEPT !.at = "Looking"]
    /\ UNCHANGED <<files, table, live, wanted, scan, menu, http, offs>>

Saved(ssid, nets) == \E i \in DOMAIN nets : nets[i] = ssid

\* Mutant of NetworksNow: read once.
NetworksThen == IF net.nets = <<>> THEN live.nets ELSE net.nets

\* Read each time round: the menu adds and forgets them.
NetworksNow == live.nets

\* stay_joined, each time round: the setting followed, and what is saved and
\* wanted now; a network forgotten is left.
Looks ==
    /\ net.at = "Looking"
    /\ FollowSetting
    /\ LET nets   == NetworksNow
           joined == IF Saved(net.joined, nets) THEN net.joined ELSE NIL
       IN net' = IF nets = <<>> /\ ~wanted
                 THEN [net EXCEPT !.at = "Stopping", !.stop = "Unneeded"]
                 ELSE [net EXCEPT !.at = IF wanted \/ joined = NIL THEN "Scanning" ELSE "Waiting",
                                  !.nets = nets, !.scans = wanted, !.joined = joined]
    /\ UNCHANGED <<files, table, live, wanted, scan, menu, http, offs>>

\* join(): the first saved in range that will have us.
Joinable(found) == {ssid \in Ssids : Saved(ssid, net.nets) /\ Saved(ssid, found)} \cup {NIL}

\* The scan, for the menu if it wants it, and to join from. It may fail.
ScansAir ==
    /\ net.at = "Scanning"
    /\ \/ net' = [net EXCEPT !.at = "Waiting"] /\ UNCHANGED scan
       \/ \E found \in Scans :
            /\ scan' = IF net.scans THEN found ELSE scan
            /\ \E ssid \in Joinable(found) :
                net' = [net EXCEPT !.at = "Waiting",
                                   !.joined = IF @ # NIL THEN @ ELSE ssid]
    /\ UNCHANGED <<files, table, live, wanted, menu, api, http, offs, count>>

\* wait(): why WiFi is to stop.
ToldToStop == offs > 0 \/ ~live.wifi

\* wait() ends: WiFi is to stop, or it's time to look again.
WaitEnds ==
    /\ net.at = "Waiting"
    /\ IF ToldToStop
       THEN /\ net' = [net EXCEPT !.at = "Stopping",
                                  !.stop = IF offs > 0 THEN "OffMessage" ELSE "SwitchedOff"]
            /\ offs' = IF offs > 0 THEN offs - 1 ELSE offs
       ELSE net' = [net EXCEPT !.at = "Looking"] /\ UNCHANGED offs
    /\ UNCHANGED <<files, table, live, wanted, scan, menu, api, http, count>>

\* Mutant of StopsServing: a request under way is not waited for.
StopsAtOnce ==
    /\ net.at = "Stopping"
    /\ api' = [on |-> FALSE, up |-> FALSE]
    /\ net' = [net EXCEPT !.at = "Stopped", !.joined = NIL]
    /\ UNCHANGED <<files, table, live, wanted, scan, menu, http, offs, count>>

\* The HTTP server ends between requests, and WiFi after it.
StopsServing ==
    /\ net.at = "Stopping" /\ http.at = "Idle"
    /\ api' = [on |-> FALSE, up |-> FALSE]
    /\ net' = [net EXCEPT !.at = "Stopped", !.joined = NIL]
    /\ UNCHANGED <<files, table, live, wanted, scan, menu, http, offs, count>>

\* "a /wifi/off that came twice"
Drained == 0

\* /wifi/off: off until the next reboot, or the menu.
GoesOff ==
    /\ net.at = "Stopped"
    /\ live' = IF net.stop = "OffMessage" THEN [live EXCEPT !.wifi = FALSE] ELSE live
    /\ offs' = Drained
    /\ net' = Off
    /\ UNCHANGED <<files, table, wanted, scan, menu, api, http, count>>

\* The network joined goes out of range.
LosesNetwork ==
    /\ net.joined # NIL /\ MayFail
    /\ net' = [net EXCEPT !.joined = NIL]
    /\ UNCHANGED <<files, table, live, wanted, scan, menu, api, http, offs>>

-----------------------------------------------------------------------------
(* settings::init and config::load *)
Loaded(content) ==
    /\ table' = TableIn(content)
    /\ live' = TableIn(content)

\* The power goes, and comes back: a file being written under another name is
\* left, whole or half.
Boots ==
    /\ MayFail
    /\ files' \in {files, IF menu.at = "Saving" THEN Replace(files, "config.toml.new", Half)
                          ELSE files}
    /\ Loaded(files["config.toml"])
    /\ wanted' = FALSE /\ scan' = NIL /\ offs' = 0
    /\ menu' = Shut /\ net' = Off /\ http' = Idle
    /\ api' = [on |-> FALSE, up |-> FALSE]

-----------------------------------------------------------------------------
Init ==
    /\ files \in {[path \in Paths |-> IF path = "config.toml" THEN config ELSE NIL] :
                     config \in Uploads \cup {NIL}}
    /\ table = TableIn(files["config.toml"]) /\ live = table
    /\ wanted = FALSE /\ scan = NIL /\ offs = 0
    /\ menu = Shut /\ net = Off /\ http = Idle
    /\ api = [on |-> FALSE, up |-> FALSE]
    /\ count = [changes |-> 0, requests |-> 0, losses |-> 0, keys |-> 0]

MenuNext == \/ Sets \/ Opens \/ Lists \/ Picks \/ GivesUp \/ Adds \/ LeavesList \/ Forgets
            \/ Renames
HttpNext == \/ PutComes \/ PutEnds \/ DeleteComes \/ MoveComes \/ SetServerComes
            \/ SetServerEnds \/ OffComes
NetNext  == \/ Starts \/ ReadsKey \/ WritesKey \/ Serves \/ Looks \/ ScansAir \/ WaitEnds
            \/ StopsServing \/ GoesOff

Next == MenuNext \/ HttpNext \/ NetNext \/ LosesNetwork \/ Boots

\* The threads run on, and a request begun ends.
Fairness == WF_vars(NetNext) /\ WF_vars(PutEnds \/ SetServerEnds) /\ WF_vars(Renames)

Spec == Init /\ [][Next]_vars /\ Fairness

-----------------------------------------------------------------------------
(* Properties *)

\* A config.toml this firmware can use is never replaced by one it cannot, nor by
\* half of one: whatever is uploaded or moved onto it, and wherever the power
\* goes. (webdav.rs: "a broken upload never replaces anything".)
ConfigStaysFit ==
    [][IsConfig(files["config.toml"]) => files'["config.toml"] \notin {Unfit, Half}]_vars

\* "This radio's: made here, never leaves it" (secrets.rs): its key, once saved,
\* is never replaced or lost, whatever the HTTP API saves beside it.
KeyIsKept ==
    [][LET before == SecretsIn(files["secrets.toml"]).key
       IN before # NIL => SecretsIn(files'["secrets.toml"]).key = before]_vars

\* Switched off for good, WiFi stops; and a network forgotten for good is left.
FollowsTheMenu ==
    /\ <>[](~live.wifi) => <>[](net.at = "Off")
    /\ \A ssid \in Ssids : <>[](~Saved(ssid, table.nets)) => <>[](net.joined # ssid)
=============================================================================
