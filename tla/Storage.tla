-------------------------------- MODULE Storage --------------------------------
(***************************************************************************)
(* The radio's files, as its settings (src/devices/settings.rs), secrets   *)
(* (src/devices/secrets.rs) and WebDAV (src/webdav.rs) read and change     *)
(* them: config.toml and secrets.toml on the flash, and the card at sd/.   *)
(*                                                                         *)
(* A file's content is a config, a table of secrets, or Unfit: text that   *)
(* is no config this firmware can use.  A file half written is Half.  NIL: *)
(* no such file.  LittleFS renames in one step.                            *)
(***************************************************************************)
EXTENDS Naturals, Sequences

CONSTANTS Ssids, NIL

\* Texts that are no table.
Unfit == [broken |-> "unfit"]
Half  == [broken |-> "half"]

ASSUME StorageAssumption == NIL \notin Ssids /\ NIL \notin {Unfit, Half}

\* The paths that matter: the settings, on their way too, the secrets, and one for
\* anything else, on the flash or the card.
Paths == {"config.toml", "config.toml.new", "secrets.toml", "other"}

\* What requests name: WebDAV finds all but the secrets (local_path). That one
\* names config.toml.new, between a save's two halves, is left out.
Reachable == {"config.toml", "other"}

\* Both files are written under another name first, and renamed over the old one
\* (settings::replace, secrets::replace, put).
Replace(files, path, content) == [files EXCEPT ![path] = content]

\* The settings the network follows; those left out of a file are on.
ConfigOf(wifi, http, nets) == [wifi |-> wifi, http |-> http, nets |-> nets]

Defaults == ConfigOf(TRUE, TRUE, <<>>)

IsConfig(content) == content \notin {NIL, Half, Unfit}

\* The fields of a config.
IsTable(content) == DOMAIN content = {"wifi", "http", "nets"}

\* settings::init: no file, or a broken one, means defaults.
TableIn(content) == IF IsConfig(content) THEN content ELSE Defaults

-----------------------------------------------------------------------------
(* settings.rs *)

\* Settings::add_wifi: last in the order; one saved already keeps its place.
AddWifi(nets, ssid) ==
    IF \E i \in DOMAIN nets : nets[i] = ssid THEN nets ELSE Append(nets, ssid)

\* Settings::forget_wifi
ForgetWifi(nets, ssid) ==
    LET Others(other) == other # ssid IN SelectSeq(nets, Others)

-----------------------------------------------------------------------------
(* secrets.rs *)

Secrets(key, server) == [key |-> key, server |-> server]

SecretTables(servers) == [key : Nat \cup {NIL}, server : servers \cup {NIL}]

\* secrets::read: a missing file, or a broken one, is an empty table.
SecretsIn(content) == IF content \in {NIL, Half} THEN Secrets(NIL, NIL) ELSE content

-----------------------------------------------------------------------------
(* webdav.rs *)

\* check_config
Fits(content) == IsConfig(content)

\* Mutant of MayLandOn: the path a write ends on is not looked at.
AnythingLands(content, path) == TRUE

\* A write that lands on config.toml must pass the settings check.
MayLandOn(content, path) == path = "config.toml" => Fits(content)

\* delete
Delete(files, path) == [files EXCEPT ![path] = NIL]

\* move_to
Move(files, from, to) ==
    IF files[from] # NIL /\ MayLandOn(files[from], to)
    THEN [files EXCEPT ![to] = files[from], ![from] = IF from = to THEN @ ELSE NIL]
    ELSE files
=============================================================================
