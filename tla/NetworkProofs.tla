---------------------------- MODULE NetworkProofs ----------------------------
(***************************************************************************)
(* Theorems about module Network, for every set of networks, of uploads,   *)
(* of servers and of scans, and any number of changes, requests and losses *)
(* of power.                                                               *)
(***************************************************************************)
EXTENDS Network, TLAPS

-----------------------------------------------------------------------------
(* Files and their fields *)

\* What the records have for fields, whatever is in them.
FieldsOK ==
    /\ DOMAIN files = Paths
    /\ DOMAIN menu = {"at", "list", "pick"}
    /\ DOMAIN net = {"at", "nets", "scans", "joined", "stop", "key"}
    /\ count \in [changes : Nat, requests : Nat, losses : Nat, keys : Nat]

\* A file is written, and no other.
LEMMA Written ==
    ASSUME DOMAIN files = Paths, NEW path \in Paths, NEW content, NEW after,
           after = [files EXCEPT ![path] = content]
    PROVE  /\ DOMAIN after = Paths
           /\ after[path] = content
           /\ \A other \in Paths : other # path => after[other] = files[other]
  OBVIOUS

\* What no table is.
LEMMA TablesAreWhole ==
    ASSUME NEW content, IsTable(content)
    PROVE  content # Unfit /\ content # Half
  <1>1. DOMAIN Unfit = {"broken"} /\ DOMAIN Half = {"broken"}
    BY DEF Unfit, Half
  <1>2. "wifi" \in DOMAIN content /\ "wifi" \notin {"broken"}
    BY DEF IsTable
  <1> QED
    BY <1>1, <1>2

\* What is saved has a config's fields, whatever was changed in it.
LEMMA ChangedTable ==
    ASSUME NEW config, IsTable(config), NEW value
    PROVE  /\ IsTable([config EXCEPT !.wifi = value])
           /\ IsTable([config EXCEPT !.http = value])
           /\ IsTable([config EXCEPT !.nets = value])
  BY DEF IsTable

LEMMA DefaultTable == IsTable(Defaults)
  BY DEF IsTable, Defaults, ConfigOf

\* A content that passes for a config is one.
Known(content) == IsConfig(content) => IsTable(content)

LEMMA TableInFile ==
    ASSUME NEW content, Known(content)
    PROVE  IsTable(TableIn(content))
  BY DefaultTable DEF Known, TableIn

LEMMA UploadsAreKnown ==
    ASSUME NEW content \in Uploads \cup {NIL}
    PROVE  Known(content)
  BY NetworkAssumption DEF Known, IsConfig

\* What a move leaves, and on which paths.
LEMMA Moved ==
    ASSUME DOMAIN files = Paths, NEW from \in Reachable, NEW to \in Reachable, NEW after,
           after = Move(files, from, to)
    PROVE  /\ DOMAIN after = Paths
           /\ \A path \in Paths \ Reachable : after[path] = files[path]
           /\ \A path \in Reachable :
                 after[path] \in {NIL, files["config.toml"], files["other"]}
           /\ IsConfig(files["config.toml"]) =>
                 after["config.toml"] \notin {Unfit, Half}
  <1>0. /\ Reachable = {"config.toml", "other"} /\ Reachable \subseteq Paths
        /\ from \in Paths /\ to \in Paths
    BY DEF Reachable, Paths
  <1>1. CASE files[from] # NIL /\ MayLandOn(files[from], to)
    <2>1. after = [files EXCEPT ![to] = files[from],
                                ![from] = IF from = to THEN @ ELSE NIL]
      BY <1>1 DEF Move
    <2>2. DOMAIN after = Paths
      BY <2>1
    <2>3. \A path \in Paths : path \notin {from, to} => after[path] = files[path]
      BY <2>1
    <2>4. after[to] = files[from] /\ (from # to => after[from] = NIL)
      BY <1>0, <2>1
    <2>5. to = "config.toml" => files[from] \notin {Unfit, Half}
      BY <1>1 DEF MayLandOn, Fits, IsConfig
    <2>6. IsConfig(files["config.toml"]) => files["config.toml"] \notin {Unfit, Half}
      BY DEF IsConfig
    <2>7. NIL \notin {Unfit, Half}
      BY StorageAssumption
    <2> QED
      BY <1>0, <2>2, <2>3, <2>4, <2>5, <2>6, <2>7
  <1>2. CASE ~(files[from] # NIL /\ MayLandOn(files[from], to))
    <2>1. after = files
      BY <1>2 DEF Move
    <2> QED
      BY <1>0, <2>1 DEF IsConfig
  <1> QED
    BY <1>1, <1>2

-----------------------------------------------------------------------------
(* The fields stay *)

LEMMA FieldsStep ==
    ASSUME FieldsOK, [Next]_vars
    PROVE  FieldsOK'
  <1>1. count' \in [changes : Nat, requests : Nat, losses : Nat, keys : Nat]
    <2>1. \/ count' = count
          \/ count' = [count EXCEPT !.changes = @ + 1]
          \/ count' = [count EXCEPT !.requests = @ + 1]
          \/ count' = [count EXCEPT !.losses = @ + 1]
          \/ count' = [count EXCEPT !.keys = @ + 1]
      <3>1. CASE MenuNext
        BY <3>1 DEF MenuNext, Sets, Opens, Lists, Picks, GivesUp, Adds, LeavesList, Forgets,
                    Renames, MayChange
      <3>2. CASE HttpNext
        BY <3>2 DEF HttpNext, PutComes, PutEnds, DeleteComes, MoveComes, SetServerComes,
                    SetServerEnds, OffComes, Asked, MayFail
      <3>3. CASE NetNext
        BY <3>3 DEF NetNext, Starts, ReadsKey, WritesKey, Serves, Looks, ScansAir, WaitEnds,
                    StopsServing, GoesOff, FollowSetting, MayFail
      <3>4. CASE LosesNetwork \/ Boots \/ UNCHANGED vars
        BY <3>4 DEF LosesNetwork, Boots, MayFail, vars
      <3> QED
        BY <3>1, <3>2, <3>3, <3>4 DEF Next
    <2> QED
      BY <2>1 DEF FieldsOK
  <1>2. DOMAIN menu' = {"at", "list", "pick"}
    <2>1. CASE MenuNext
      BY <2>1 DEF MenuNext, Sets, Opens, Lists, Picks, GivesUp, Adds, LeavesList, Forgets,
                  Renames, Shut, FieldsOK
    <2>2. CASE menu' = menu \/ menu' = Shut
      BY <2>2 DEF FieldsOK, Shut
    <2>3. HttpNext \/ NetNext \/ LosesNetwork \/ Boots \/ UNCHANGED vars
             => menu' = menu \/ menu' = Shut
      BY DEF HttpNext, PutComes, PutEnds, DeleteComes, MoveComes, SetServerComes,
             SetServerEnds, OffComes, NetNext, Starts, ReadsKey, WritesKey, Serves, Looks,
             ScansAir, WaitEnds, StopsServing, GoesOff, LosesNetwork, Boots, vars
    <2> QED
      BY <2>1, <2>2, <2>3 DEF Next
  <1>3. DOMAIN net' = {"at", "nets", "scans", "joined", "stop", "key"}
    <2>1. CASE NetNext
      BY <2>1 DEF NetNext, Starts, ReadsKey, WritesKey, Serves, Looks, ScansAir, WaitEnds,
                  StopsServing, GoesOff, Off, FieldsOK
    <2>2. CASE LosesNetwork \/ Boots
      BY <2>2 DEF LosesNetwork, Boots, Off, FieldsOK
    <2>3. MenuNext \/ HttpNext \/ UNCHANGED vars => net' = net
      BY DEF MenuNext, Sets, Opens, Lists, Picks, GivesUp, Adds, LeavesList, Forgets,
             Renames, HttpNext, PutComes, PutEnds, DeleteComes, MoveComes, SetServerComes,
             SetServerEnds, OffComes, Asked, vars
    <2> QED
      BY <2>1, <2>2, <2>3 DEF Next, FieldsOK
  <1>4. DOMAIN files' = Paths
    <2>1. CASE MenuNext
      BY <2>1 DEF MenuNext, Sets, Opens, Lists, Picks, GivesUp, Adds, LeavesList, Forgets,
                  Renames, Saves, Replace, FieldsOK
    <2>2. CASE MoveComes
      BY <2>2, Moved DEF MoveComes, FieldsOK
    <2>3. CASE PutEnds \/ DeleteComes \/ SetServerEnds \/ WritesKey
      BY <2>3 DEF PutEnds, DeleteComes, SetServerEnds, WritesKey, Replace, Delete, FieldsOK
    <2>4. CASE Boots
      BY <2>4 DEF Boots, Replace, FieldsOK
    <2>5. UNCHANGED vars \/ PutComes \/ SetServerComes \/ OffComes \/ LosesNetwork
             => files' = files
      BY DEF vars, PutComes, SetServerComes, OffComes, LosesNetwork
    <2>6. NetNext => files' = files \/ WritesKey
      BY DEF NetNext, Starts, ReadsKey, Serves, Looks, ScansAir, WaitEnds, StopsServing,
             GoesOff
    <2> QED
      BY <2>1, <2>2, <2>3, <2>4, <2>5, <2>6 DEF Next, HttpNext, FieldsOK
  <1> QED
    BY <1>1, <1>2, <1>3, <1>4 DEF FieldsOK

-----------------------------------------------------------------------------
(* The settings *)

\* What the app has is a config, and so is what passes for one in a file that
\* may be moved; a save under way has it under the other name; and what is put on
\* config.toml has passed the check.
ConfigInv ==
    /\ IsTable(table)
    /\ Known(files["config.toml"])
    /\ Known(files["other"])
    /\ menu.at = "Saving" => files["config.toml.new"] = table
    /\ http.at = "Putting" => /\ http.path \in Reachable
                              /\ Known(http.content)
                              /\ MayLandOn(http.content, http.path)

LEMMA PathsAre ==
    /\ Paths = {"config.toml", "config.toml.new", "secrets.toml", "other"}
    /\ Reachable = {"config.toml", "other"}
  BY DEF Paths, Reachable

\* A save: the table is changed, and lies under the other name.
LEMMA SavesATable ==
    ASSUME FieldsOK, ConfigInv, NEW config, IsTable(config), Saves(config)
    PROVE  /\ IsTable(table') /\ files'["config.toml.new"] = table'
           /\ \A path \in Paths : path # "config.toml.new" => files'[path] = files[path]
  <1>1. table' = config /\ files' = [files EXCEPT !["config.toml.new"] = config]
    BY DEF Saves, Replace
  <1> QED
    BY <1>1, Written, PathsAre DEF FieldsOK

\* The three actions that save.
LEMMA SavingSteps ==
    ASSUME FieldsOK, ConfigInv, Sets \/ Adds \/ Forgets
    PROVE  \E config : IsTable(config) /\ Saves(config)
  <1>1. CASE Sets
    <2>1. PICK on : \/ Saves([table EXCEPT !.wifi = on])
                    \/ Saves([table EXCEPT !.http = on])
      BY <1>1 DEF Sets
    <2>2. IsTable([table EXCEPT !.wifi = on]) /\ IsTable([table EXCEPT !.http = on])
      BY ChangedTable DEF ConfigInv
    <2> QED
      BY <2>1, <2>2
  <1>2. CASE Adds
    <2>1. PICK nets : nets = AddWifi(table.nets, menu.pick)
      OBVIOUS
    <2>2. Saves([table EXCEPT !.nets = nets])
      BY <1>2, <2>1 DEF Adds, ConfigInv, IsTable
    <2> QED
      BY <2>2, ChangedTable DEF ConfigInv
  <1>3. CASE Forgets
    <2>1. PICK i : Saves([table EXCEPT !.nets = ForgetWifi(@, table.nets[i])])
      BY <1>3 DEF Forgets
    <2>2. PICK nets : nets = ForgetWifi(table.nets, table.nets[i])
      OBVIOUS
    <2>3. Saves([table EXCEPT !.nets = nets])
      BY <2>1, <2>2 DEF ConfigInv, IsTable
    <2> QED
      BY <2>3, ChangedTable DEF ConfigInv
  <1> QED
    BY <1>1, <1>2, <1>3

\* A save ends: what the app has is in config.toml.
LEMMA RenamesATable ==
    ASSUME FieldsOK, ConfigInv, Renames
    PROVE  /\ files'["config.toml"] = table
           /\ \A path \in Paths \ {"config.toml", "config.toml.new"} :
                 files'[path] = files[path]
           /\ IsTable(files'["config.toml"])
  <1>1. files' = [files EXCEPT !["config.toml"] = files["config.toml.new"],
                               !["config.toml.new"] = NIL]
    BY DEF Renames
  <1>2. files["config.toml.new"] = table /\ IsTable(table)
    BY DEF Renames, ConfigInv
  <1>3. /\ files'["config.toml"] = files["config.toml.new"]
        /\ \A path \in Paths \ {"config.toml", "config.toml.new"} : files'[path] = files[path]
    BY <1>1, PathsAre DEF FieldsOK
  <1> QED
    BY <1>2, <1>3

\* What the paths in reach hold after a step that deletes, moves or puts.
LEMMA RequestSteps ==
    ASSUME FieldsOK, ConfigInv, PutEnds \/ DeleteComes \/ MoveComes
    PROVE  /\ Known(files'["config.toml"]) /\ Known(files'["other"])
           /\ files'["config.toml.new"] = files["config.toml.new"]
           /\ IsConfig(files["config.toml"]) => files'["config.toml"] \notin {Unfit, Half}
  <1>0. /\ Known(NIL) /\ NIL \notin {Unfit, Half}
        /\ Known(files["config.toml"]) /\ Known(files["other"])
        /\ IsConfig(files["config.toml"]) => files["config.toml"] \notin {Unfit, Half}
    BY StorageAssumption DEF Known, IsConfig, ConfigInv
  <1>1. CASE PutEnds
    <2>1. CASE files' = files
      BY <1>0, <2>1
    <2>2. CASE files' = Replace(files, http.path, http.content)
      <3>1. /\ http.path \in Reachable /\ Known(http.content)
            /\ MayLandOn(http.content, http.path)
        BY <1>1 DEF PutEnds, ConfigInv
      <3>2. /\ files'[http.path] = http.content
            /\ \A other \in Paths : other # http.path => files'[other] = files[other]
        <4>1. files' = [files EXCEPT ![http.path] = http.content] /\ http.path \in Paths
          BY <2>2, <3>1, PathsAre DEF Replace
        <4> QED
          BY <4>1, Written DEF FieldsOK
      <3>3. http.path = "config.toml" => http.content \notin {Unfit, Half}
        BY <3>1 DEF MayLandOn, Fits, IsConfig
      <3> QED
        BY <1>0, <3>1, <3>2, <3>3, PathsAre
    <2> QED
      BY <1>1, <2>1, <2>2 DEF PutEnds
  <1>2. CASE DeleteComes
    <2>1. PICK path \in Reachable : files' = [files EXCEPT ![path] = NIL]
      BY <1>2 DEF DeleteComes, Delete
    <2>2. /\ files'[path] = NIL
          /\ \A other \in Paths : other # path => files'[other] = files[other]
      BY <2>1, Written, PathsAre DEF FieldsOK
    <2> QED
      BY <1>0, <2>2, PathsAre
  <1>3. CASE MoveComes
    <2>1. PICK from \in Reachable, to \in Reachable : files' = Move(files, from, to)
      BY <1>3 DEF MoveComes
    <2>2. /\ \A path \in Paths \ Reachable : files'[path] = files[path]
          /\ \A path \in Reachable :
                files'[path] \in {NIL, files["config.toml"], files["other"]}
          /\ IsConfig(files["config.toml"]) =>
                files'["config.toml"] \notin {Unfit, Half}
      BY <2>1, Moved DEF FieldsOK
    <2> QED
      BY <1>0, <2>2, PathsAre
  <1> QED
    BY <1>1, <1>2, <1>3

\* The files that no action of the menu or a request changes.
LEMMA OtherSteps ==
    ASSUME FieldsOK, ConfigInv, SetServerEnds \/ WritesKey \/ Boots,
           http.at = "Setting" => http.path = "secrets.toml"
    PROVE  /\ files'["config.toml"] = files["config.toml"]
           /\ files'["other"] = files["other"]
           /\ ~Boots => files'["config.toml.new"] = files["config.toml.new"]
  <1>1. \/ files' = files
        \/ \E content : files' = [files EXCEPT !["secrets.toml"] = content]
        \/ Boots /\ files' = [files EXCEPT !["config.toml.new"] = Half]
    BY DEF SetServerEnds, WritesKey, Boots, Replace
  <1> QED
    BY <1>1, Written, PathsAre DEF FieldsOK

-----------------------------------------------------------------------------
(* The key *)

\* The key saved: NIL, or this radio's.
Key == SecretsIn(files["secrets.toml"]).key

\* The task holds the table of the key it read, and so does the thread; and only
\* one of them is at it: requests come when the key is made.
KeyInv ==
    /\ files["secrets.toml"] \in SecretTables(Servers) \cup {NIL}
    /\ http.at \in {"Idle", "Putting", "Setting"}
    /\ http.at = "Setting" => /\ http.path = "secrets.toml"
                              /\ http.content \in SecretTables(Servers)
                              /\ http.content.key = Key
    /\ net.at \in {"Off", "Starting", "Keying", "Keyed", "Stopped"} =>
          http.at = "Idle" /\ api.up = FALSE
    /\ net.at = "Keying" => net.key \in SecretTables(Servers) /\ Key = NIL

\* A table is read as what it is.
LEMMA SecretsRead ==
    ASSUME NEW content \in SecretTables(Servers) \cup {NIL}
    PROVE  /\ SecretsIn(content) \in SecretTables(Servers)
           /\ content # NIL => SecretsIn(content) = content
  <1>1. CASE content = NIL
    BY <1>1 DEF SecretsIn, Secrets, SecretTables
  <1>2. CASE content \in SecretTables(Servers) /\ content # NIL
    <2>1. DOMAIN content = {"key", "server"} /\ DOMAIN Half = {"broken"}
      BY <1>2 DEF SecretTables, Half
    <2>2. "key" \in {"key", "server"} /\ "key" \notin {"broken"}
      OBVIOUS
    <2>3. content # Half
      BY <2>1, <2>2
    <2> QED
      BY <1>2, <2>3 DEF SecretsIn
  <1> QED
    BY <1>1, <1>2

LEMMA SecretsAre ==
    ASSUME NEW key \in Nat \cup {NIL}, NEW server \in Servers \cup {NIL}
    PROVE  /\ Secrets(key, server) \in SecretTables(Servers)
           /\ Secrets(key, server).key = key
  BY DEF Secrets, SecretTables

LEMMA SecretFields ==
    ASSUME NEW secrets \in SecretTables(Servers)
    PROVE  secrets.key \in Nat \cup {NIL} /\ secrets.server \in Servers \cup {NIL}
  BY DEF SecretTables

\* Nobody else writes the secrets.
LEMMA SecretsStay ==
    ASSUME FieldsOK, ConfigInv, [Next]_vars, ~SetServerEnds, ~WritesKey
    PROVE  files'["secrets.toml"] = files["secrets.toml"]
  <1>1. CASE Sets \/ Adds \/ Forgets
    BY <1>1, SavingSteps, SavesATable, PathsAre
  <1>2. CASE Renames
    BY <1>2, RenamesATable, PathsAre
  <1>3. CASE PutEnds
    <2>1. \/ files' = files
          \/ files' = [files EXCEPT ![http.path] = http.content] /\ http.path \in Reachable
      BY <1>3 DEF PutEnds, ConfigInv, Replace
    <2> QED
      BY <2>1, Written, PathsAre DEF FieldsOK
  <1>4. CASE DeleteComes
    <2>1. PICK path \in Reachable : files' = [files EXCEPT ![path] = NIL]
      BY <1>4 DEF DeleteComes, Delete
    <2> QED
      BY <2>1, Written, PathsAre DEF FieldsOK
  <1>5. CASE MoveComes
    BY <1>5, Moved, PathsAre DEF MoveComes, FieldsOK
  <1>6. CASE Boots
    BY <1>6, PathsAre DEF Boots, Replace, FieldsOK
  <1>7. CASE \/ UNCHANGED vars \/ PutComes \/ SetServerComes \/ OffComes \/ LosesNetwork
             \/ Opens \/ Lists \/ Picks \/ GivesUp \/ LeavesList
    BY <1>7 DEF vars, PutComes, SetServerComes, OffComes, LosesNetwork, Opens, Lists, Picks,
                GivesUp, LeavesList
  <1>8. CASE NetNext
    BY <1>8 DEF NetNext, Starts, ReadsKey, Serves, Looks, ScansAir, WaitEnds, StopsServing,
                GoesOff
  <1> QED
    BY <1>1, <1>2, <1>3, <1>4, <1>5, <1>6, <1>7, <1>8 DEF Next, MenuNext, HttpNext

\* The two who write the secrets, each its table.
LEMMA SecretsWritten ==
    ASSUME FieldsOK, KeyInv, SetServerEnds \/ WritesKey
    PROVE  /\ files'["secrets.toml"] \in SecretTables(Servers) \cup {NIL}
           /\ Key # NIL => Key' = Key
           /\ SetServerEnds => Key' = Key
  <1>1. CASE SetServerEnds
    <2>1. /\ http.path = "secrets.toml" /\ http.content \in SecretTables(Servers)
          /\ http.content.key = Key
      BY <1>1 DEF SetServerEnds, KeyInv
    <2>2. files'["secrets.toml"] = http.content
      <3>1. files' = [files EXCEPT !["secrets.toml"] = http.content]
        BY <1>1, <2>1 DEF SetServerEnds, Replace
      <3> QED
        BY <3>1, PathsAre DEF FieldsOK
    <2>3. NIL \notin SecretTables(Servers)
      BY NetworkAssumption
    <2>4. SecretsIn(files'["secrets.toml"]) = http.content
      BY <2>1, <2>2, <2>3, SecretsRead
    <2>5. Key' = Key
      BY <2>1, <2>4 DEF Key
    <2> QED
      BY <2>1, <2>2, <2>5
  <1>2. CASE WritesKey
    <2>1. net.key \in SecretTables(Servers) /\ Key = NIL
      BY <1>2 DEF WritesKey, KeyInv
    <2>2. \/ files' = files
          \/ files' = [files EXCEPT !["secrets.toml"] = net.key]
      BY <1>2 DEF WritesKey, Replace
    <2>3. files'["secrets.toml"] \in SecretTables(Servers) \cup {NIL}
      BY <2>1, <2>2, PathsAre DEF FieldsOK, KeyInv
    <2>4. ~SetServerEnds
      BY <1>2 DEF WritesKey, SetServerEnds, KeyInv
    <2> QED
      BY <2>1, <2>3, <2>4
  <1> QED
    BY <1>1, <1>2

\* Before the server is up: no request, on it or to come.
Early == {"Off", "Starting", "Keying", "Keyed", "Stopped"}

\* Where the task goes, and with what.
LEMMA HttpSteps ==
    ASSUME KeyInv, [Next]_vars
    PROVE  \/ http' = http /\ ~SetServerEnds
           \/ http' = Idle
           \/ /\ PutComes \/ SetServerComes
              /\ api.up /\ net' = net /\ api' = api
  <1>1. CASE MenuNext \/ LosesNetwork \/ UNCHANGED vars
    BY <1>1 DEF MenuNext, Sets, Opens, Lists, Picks, GivesUp, Adds, LeavesList, Forgets,
                Renames, LosesNetwork, vars, SetServerEnds, MayFail, MayChange, Idle, KeyInv
  <1>2. CASE HttpNext
    BY <1>2 DEF HttpNext, PutComes, PutEnds, DeleteComes, MoveComes, SetServerComes,
                SetServerEnds, OffComes, Asked, Idle
  <1>3. CASE NetNext \/ Boots
    BY <1>3 DEF NetNext, Starts, ReadsKey, WritesKey, Serves, Looks, ScansAir, WaitEnds,
                StopsServing, GoesOff, Boots, SetServerEnds
  <1> QED
    BY <1>1, <1>2, <1>3 DEF Next

\* When the thread is before the server, so it was, or the server is stopped now.
LEMMA EarlySteps ==
    ASSUME FieldsOK, KeyInv, [Next]_vars, net'.at \in Early
    PROVE  /\ api'.up = FALSE
           /\ net.at \in Early \/ StopsServing \/ Boots
  <1>1. CASE MenuNext \/ HttpNext \/ UNCHANGED vars
    <2>1. net' = net /\ api' = api
      BY <1>1 DEF MenuNext, Sets, Opens, Lists, Picks, GivesUp, Adds, LeavesList, Forgets,
                  Renames, HttpNext, PutComes, PutEnds, DeleteComes, MoveComes,
                  SetServerComes, SetServerEnds, OffComes, Asked, vars
    <2> QED
      BY <2>1 DEF KeyInv, Early
  <1>2. CASE LosesNetwork
    <2>1. net'.at = net.at /\ api' = api
      BY <1>2 DEF LosesNetwork, FieldsOK
    <2> QED
      BY <2>1 DEF KeyInv, Early
  <1>3. CASE Boots \/ StopsServing
    BY <1>3 DEF Boots, StopsServing
  <1>4. CASE Starts \/ ReadsKey \/ WritesKey \/ GoesOff
    <2>1. net.at \in Early /\ api' = api
      BY <1>4 DEF Starts, ReadsKey, WritesKey, GoesOff, Early
    <2> QED
      BY <2>1 DEF KeyInv, Early
  <1>5. ~Serves
    <2>1. Serves => net'.at = "Looking"
      BY DEF Serves, FieldsOK
    <2> QED
      BY <2>1 DEF Early
  <1>6. ~Looks
    <2>1. Looks => net'.at \in {"Stopping", "Scanning", "Waiting"}
      BY DEF Looks, FieldsOK
    <2> QED
      BY <2>1 DEF Early
  <1>7. ~ScansAir
    <2>1. ScansAir => net'.at = "Waiting"
      BY DEF ScansAir, FieldsOK
    <2> QED
      BY <2>1 DEF Early
  <1>8. ~WaitEnds
    <2>1. WaitEnds => net'.at \in {"Stopping", "Looking"}
      BY DEF WaitEnds, FieldsOK
    <2> QED
      BY <2>1 DEF Early
  <1> QED
    BY <1>1, <1>2, <1>3, <1>4, <1>5, <1>6, <1>7, <1>8 DEF Next, NetNext

\* When a key is being made, no file had one.
LEMMA KeyingSteps ==
    ASSUME FieldsOK, KeyInv, [Next]_vars, net'.at = "Keying"
    PROVE  \/ net.at = "Keying" /\ net'.key = net.key /\ ~WritesKey /\ http.at = "Idle"
           \/ ReadsKey /\ Key = NIL /\ net'.key \in SecretTables(Servers)
  <1>1. CASE MenuNext \/ HttpNext \/ UNCHANGED vars
    <2>1. net' = net
      BY <1>1 DEF MenuNext, Sets, Opens, Lists, Picks, GivesUp, Adds, LeavesList, Forgets,
                  Renames, HttpNext, PutComes, PutEnds, DeleteComes, MoveComes,
                  SetServerComes, SetServerEnds, OffComes, Asked, vars
    <2>2. ~WritesKey
      BY <2>1 DEF WritesKey, FieldsOK
    <2> QED
      BY <2>1, <2>2 DEF KeyInv
  <1>2. CASE LosesNetwork
    <2>1. net'.at = net.at /\ net'.key = net.key
      BY <1>2 DEF LosesNetwork, FieldsOK
    <2>2. ~WritesKey
      <3>1. WritesKey => net'.at = "Keyed"
        BY DEF WritesKey, FieldsOK
      <3> QED
        BY <3>1
    <2> QED
      BY <2>1, <2>2 DEF KeyInv
  <1>3. CASE Boots \/ GoesOff
    BY <1>3 DEF Boots, GoesOff, Off
  <1>4. CASE ReadsKey
    <2>1. PICK secrets : secrets = SecretsIn(files["secrets.toml"])
      OBVIOUS
    <2>2. secrets \in SecretTables(Servers)
      BY <2>1, SecretsRead DEF KeyInv
    <2>3. secrets.key = NIL /\ net'.key = Secrets(count.keys + 1, secrets.server)
      BY <1>4, <2>1 DEF ReadsKey, FieldsOK
    <2>4. count.keys + 1 \in Nat
      BY DEF FieldsOK
    <2>5. net'.key \in SecretTables(Servers)
      BY <2>2, <2>3, <2>4, SecretFields, SecretsAre
    <2> QED
      BY <1>4, <2>1, <2>3, <2>5 DEF Key
  <1>5. CASE NetNext /\ ~ReadsKey /\ ~GoesOff
    <2>1. net'.at # "Keying"
      BY <1>5 DEF NetNext, Starts, WritesKey, Serves, Looks, ScansAir, WaitEnds,
                  StopsServing, FieldsOK, Off
    <2> QED
      BY <2>1
  <1> QED
    BY <1>1, <1>2, <1>3, <1>4, <1>5 DEF Next

LEMMA KeyStep ==
    ASSUME FieldsOK, ConfigInv, KeyInv, [Next]_vars
    PROVE  KeyInv' /\ (Key # NIL => Key' = Key)
  <1>1. /\ files'["secrets.toml"] \in SecretTables(Servers) \cup {NIL}
        /\ Key # NIL => Key' = Key
        /\ ~WritesKey => Key' = Key
    <2>1. CASE SetServerEnds \/ WritesKey
      BY <2>1, SecretsWritten
    <2>2. CASE ~SetServerEnds /\ ~WritesKey
      BY <2>2, SecretsStay DEF KeyInv, Key
    <2> QED
      BY <2>1, <2>2
  <1>2. /\ http'.at \in {"Idle", "Putting", "Setting"}
        /\ http'.at = "Setting" => /\ http'.path = "secrets.toml"
                                   /\ http'.content \in SecretTables(Servers)
                                   /\ http'.content.key = Key'
    <2>1. CASE http' = http /\ ~SetServerEnds
      <3>1. WritesKey => http.at = "Idle"
        BY DEF WritesKey, KeyInv
      <3>2. http.at = "Setting" => Key' = Key
        BY <1>1, <3>1
      <3> QED
        BY <2>1, <3>2 DEF KeyInv
    <2>2. CASE http' = Idle
      BY <2>2 DEF Idle
    <2>3. CASE PutComes
      BY <2>3 DEF PutComes
    <2>4. CASE SetServerComes
      <3>1. PICK server \in Servers :
               http' = [at |-> "Setting", path |-> "secrets.toml",
                        content |-> Secrets(SecretsIn(files["secrets.toml"]).key, server)]
        BY <2>4 DEF SetServerComes
      <3>2. http' = [at |-> "Setting", path |-> "secrets.toml",
                     content |-> Secrets(Key, server)]
        BY <3>1 DEF Key
      <3>3. Key \in Nat \cup {NIL}
        BY SecretsRead, SecretFields DEF Key, KeyInv
      <3>4. Secrets(Key, server) \in SecretTables(Servers) /\ Secrets(Key, server).key = Key
        BY <3>3, SecretsAre
      <3>5. Key' = Key
        <4>1. ~WritesKey
          BY <2>4 DEF SetServerComes, WritesKey, Asked, KeyInv
        <4> QED
          BY <1>1, <4>1
      <3> QED
        BY <3>2, <3>4, <3>5
    <2> QED
      BY <2>1, <2>2, <2>3, <2>4, HttpSteps
  <1>3. net'.at \in Early => http'.at = "Idle" /\ api'.up = FALSE
    <2> SUFFICES ASSUME net'.at \in Early
                 PROVE  http'.at = "Idle" /\ api'.up = FALSE
      OBVIOUS
    <2>1. api'.up = FALSE
      BY EarlySteps
    <2>2. CASE net.at \in Early
      <3>1. http.at = "Idle" /\ api.up = FALSE
        BY <2>2 DEF KeyInv, Early
      <3> QED
        BY <2>1, <3>1, HttpSteps DEF Idle
    <2>3. CASE StopsServing \/ Boots
      BY <2>1, <2>3 DEF StopsServing, Boots, Idle
    <2> QED
      BY <2>2, <2>3, EarlySteps
  <1>4. net'.at = "Keying" => net'.key \in SecretTables(Servers) /\ Key' = NIL
    <2> SUFFICES ASSUME net'.at = "Keying"
                 PROVE  net'.key \in SecretTables(Servers) /\ Key' = NIL
      OBVIOUS
    <2>1. CASE net.at = "Keying" /\ net'.key = net.key /\ ~WritesKey
      BY <1>1, <2>1 DEF KeyInv
    <2>2. CASE ReadsKey /\ Key = NIL /\ net'.key \in SecretTables(Servers)
      <3>1. ~WritesKey
        BY <2>2 DEF ReadsKey, WritesKey
      <3> QED
        BY <1>1, <2>2, <3>1
    <2> QED
      BY <2>1, <2>2, KeyingSteps
  <1> QED
    BY <1>1, <1>2, <1>3, <1>4 DEF KeyInv, Key, Early

-----------------------------------------------------------------------------
(* The settings, each step *)

\* The steps that leave the settings, in RAM and in the files, where they are.
LEMMA SettingsStay ==
    ASSUME [Next]_vars, ~Sets, ~Adds, ~Forgets, ~Renames, ~PutEnds, ~DeleteComes,
           ~MoveComes, ~SetServerEnds, ~WritesKey, ~Boots
    PROVE  files' = files /\ table' = table
  BY DEF Next, MenuNext, HttpNext, NetNext, Opens, Lists, Picks, GivesUp, LeavesList, PutComes,
         SetServerComes, OffComes, Starts, ReadsKey, Serves, Looks, ScansAir, WaitEnds,
         StopsServing, GoesOff, LosesNetwork, vars

\* The three that save begin one.
LEMMA SavingBegins ==
    ASSUME FieldsOK, Sets \/ Adds \/ Forgets
    PROVE  menu.at # "Saving" /\ menu'.at = "Saving"
  <1>1. CASE Sets
    <2>1. menu' = [menu EXCEPT !.at = "Saving"] /\ menu.at = "Shut"
      BY <1>1 DEF Sets
    <2> QED
      BY <2>1 DEF FieldsOK
  <1>2. CASE Adds
    BY <1>2 DEF Adds, Shut
  <1>3. CASE Forgets
    BY <1>3 DEF Forgets, Shut
  <1> QED
    BY <1>1, <1>2, <1>3

\* When a save is under way, it was, or it is one of those that save.
LEMMA SavingIs ==
    ASSUME FieldsOK, [Next]_vars, menu'.at = "Saving"
    PROVE  \/ Sets \/ Adds \/ Forgets
           \/ menu' = menu /\ ~Boots /\ ~Renames
  <1>1. CASE MenuNext
    <2>1. ~Opens /\ ~LeavesList /\ ~Renames
      BY DEF Opens, LeavesList, Renames, Shut
    <2>2. ~Lists
      <3>1. Lists => menu'.at = "Listing"
        BY DEF Lists, FieldsOK
      <3> QED
        BY <3>1
    <2>3. ~Picks
      <3>1. Picks => menu'.at = "Typing"
        BY DEF Picks, FieldsOK
      <3> QED
        BY <3>1
    <2>4. ~GivesUp
      <3>1. GivesUp => menu'.at = "Listing"
        BY DEF GivesUp, FieldsOK
      <3> QED
        BY <3>1
    <2> QED
      BY <1>1, <2>1, <2>2, <2>3, <2>4 DEF MenuNext
  <1>2. CASE HttpNext \/ NetNext \/ LosesNetwork \/ UNCHANGED vars
    <2>1. menu' = menu
      BY <1>2 DEF HttpNext, PutComes, PutEnds, DeleteComes, MoveComes, SetServerComes,
                  SetServerEnds, OffComes, NetNext, Starts, ReadsKey, WritesKey, Serves,
                  Looks, ScansAir, WaitEnds, StopsServing, GoesOff, LosesNetwork, vars
    <2>2. ~Boots /\ ~Renames
      BY <2>1 DEF Boots, Renames, Shut
    <2> QED
      BY <2>1, <2>2
  <1>3. ~Boots
    BY DEF Boots, Shut
  <1> QED
    BY <1>1, <1>2, <1>3 DEF Next

\* What a step does to the settings, and to the files that may be moved.
LEMMA SettingsStep ==
    ASSUME FieldsOK, ConfigInv, KeyInv, [Next]_vars
    PROVE  /\ IsTable(table')
           /\ Known(files'["config.toml"]) /\ Known(files'["other"])
           /\ IsConfig(files["config.toml"]) => files'["config.toml"] \notin {Unfit, Half}
           /\ Sets \/ Adds \/ Forgets => files'["config.toml.new"] = table'
           /\ ~(Sets \/ Adds \/ Forgets \/ Renames \/ Boots) =>
                 table' = table /\ files'["config.toml.new"] = files["config.toml.new"]
  <1>0. /\ IsTable(table) /\ Known(files["config.toml"]) /\ Known(files["other"])
        /\ IsConfig(files["config.toml"]) => files["config.toml"] \notin {Unfit, Half}
    BY DEF ConfigInv, IsConfig
  <1>1. CASE Sets \/ Adds \/ Forgets
    BY <1>0, <1>1, SavingSteps, SavesATable, PathsAre
  <1>2. CASE Renames
    <2>1. /\ IsTable(files'["config.toml"]) /\ table' = table
          /\ files'["other"] = files["other"]
      BY <1>2, RenamesATable, PathsAre DEF Renames
    <2>2. files'["config.toml"] \notin {Unfit, Half} /\ Known(files'["config.toml"])
      BY <2>1, TablesAreWhole DEF Known
    <2>3. ~Sets /\ ~Adds /\ ~Forgets
      BY <1>2, SavingBegins DEF Renames
    <2> QED
      BY <1>0, <1>2, <2>1, <2>2, <2>3
  <1>3. CASE PutEnds \/ DeleteComes \/ MoveComes
    <2>1. table' = table /\ ~Sets /\ ~Adds /\ ~Forgets
      <3>1. table' = table /\ menu' = menu
        BY <1>3 DEF PutEnds, DeleteComes, MoveComes
      <3> QED
        BY <3>1, SavingBegins
    <2> QED
      BY <1>0, <1>3, <2>1, RequestSteps
  <1>4. CASE SetServerEnds \/ WritesKey \/ Boots
    <2>1. /\ files'["config.toml"] = files["config.toml"]
          /\ files'["other"] = files["other"]
          /\ ~Boots => files'["config.toml.new"] = files["config.toml.new"]
      BY <1>4, OtherSteps DEF KeyInv
    <2>2. IsTable(table')
      <3>1. Boots => table' = TableIn(files["config.toml"])
        BY DEF Boots, Loaded
      <3>2. ~Boots => table' = table
        BY <1>4 DEF SetServerEnds, WritesKey
      <3> QED
        BY <1>0, <3>1, <3>2, TableInFile
    <2>3. ~Boots => table' = table
      BY <1>4 DEF SetServerEnds, WritesKey
    <2>4. ~Sets /\ ~Adds /\ ~Forgets
      <3>1. Sets \/ Adds \/ Forgets => menu.at # "Saving" /\ menu'.at = "Saving"
        BY SavingBegins
      <3>2. menu' = menu \/ menu' = Shut
        BY <1>4 DEF SetServerEnds, WritesKey, Boots
      <3> QED
        BY <3>1, <3>2 DEF Shut
    <2> QED
      BY <1>0, <2>1, <2>2, <2>3, <2>4
  <1>5. CASE ~(\/ Sets \/ Adds \/ Forgets \/ Renames \/ PutEnds \/ DeleteComes \/ MoveComes
               \/ SetServerEnds \/ WritesKey \/ Boots)
    BY <1>0, <1>5, SettingsStay
  <1> QED
    BY <1>1, <1>2, <1>3, <1>4, <1>5

LEMMA ConfigStep ==
    ASSUME FieldsOK, ConfigInv, KeyInv, [Next]_vars
    PROVE  ConfigInv'
  <1>1. menu'.at = "Saving" => files'["config.toml.new"] = table'
    <2>1. CASE Sets \/ Adds \/ Forgets
      BY <2>1, SettingsStep
    <2>2. CASE menu' = menu /\ ~Boots /\ ~Renames
      BY <2>1, <2>2, SettingsStep DEF ConfigInv
    <2> QED
      BY <2>1, <2>2, SavingIs
  <1>2. http'.at = "Putting" => /\ http'.path \in Reachable
                                /\ Known(http'.content)
                                /\ MayLandOn(http'.content, http'.path)
    <2>1. CASE http' = http
      BY <2>1 DEF ConfigInv
    <2>2. CASE http' = Idle
      BY <2>2 DEF Idle
    <2>3. CASE SetServerComes
      BY <2>3 DEF SetServerComes
    <2>4. CASE PutComes
      <3>1. PICK path \in {"config.toml", "other"}, content \in Uploads :
               /\ MayLandOn(content, path)
               /\ http' = [at |-> "Putting", path |-> path, content |-> content]
        BY <2>4 DEF PutComes
      <3>2. Known(content)
        BY UploadsAreKnown
      <3>3. http'.path = path /\ http'.content = content
        BY <3>1
      <3> QED
        BY <3>1, <3>2, <3>3, PathsAre
    <2> QED
      BY <2>1, <2>2, <2>3, <2>4, HttpSteps
  <1> QED
    BY <1>1, <1>2, SettingsStep DEF ConfigInv

-----------------------------------------------------------------------------
(* The theorems *)

NetworkInv == FieldsOK /\ ConfigInv /\ KeyInv

LEMMA NetworkStart == Init => NetworkInv
  <1> SUFFICES ASSUME Init PROVE NetworkInv
    OBVIOUS
  <1>1. PICK config \in Uploads \cup {NIL} :
           files = [path \in Paths |-> IF path = "config.toml" THEN config ELSE NIL]
    BY DEF Init
  <1>2. /\ DOMAIN files = Paths /\ files["config.toml"] = config
        /\ files["other"] = NIL /\ files["secrets.toml"] = NIL
    BY <1>1, PathsAre
  <1>3. FieldsOK
    BY <1>2 DEF Init, FieldsOK, Shut, Off
  <1>4. Known(config) /\ Known(NIL)
    BY UploadsAreKnown
  <1>5. IsTable(table)
    BY <1>2, <1>4, TableInFile DEF Init
  <1>6. ConfigInv
    BY <1>2, <1>4, <1>5 DEF Init, ConfigInv, Shut, Idle
  <1>7. KeyInv
    BY <1>2 DEF Init, KeyInv, Idle, Off
  <1> QED
    BY <1>3, <1>6, <1>7 DEF NetworkInv

LEMMA NetworkStep == NetworkInv /\ [Next]_vars => NetworkInv'
  BY FieldsStep, ConfigStep, KeyStep DEF NetworkInv

LEMMA NetworkCorrect == Spec => []NetworkInv
  BY NetworkStart, NetworkStep, PTL DEF Spec

\* A config.toml that can be used is never replaced by one that cannot, nor by half
\* of one: not by a save, at whose end config.toml.new holds all of the table; not
\* by an upload or a move, which have passed check_config; nor by a power cut.
THEOREM ConfigFits == Spec => ConfigStaysFit
  <1>1. NetworkInv /\ [Next]_vars
          => [IsConfig(files["config.toml"]) =>
                files'["config.toml"] \notin {Unfit, Half}]_vars
    BY SettingsStep DEF NetworkInv
  <1> QED
    BY <1>1, NetworkCorrect, PTL DEF Spec, ConfigStaysFit

\* The radio's key, once in secrets.toml, stays: make_key writes one only where it
\* read none, and set_server, which reads the file first and writes it later, cannot
\* overlap it, for requests come only when the key is made.
THEOREM KeyCorrect == Spec => KeyIsKept
  <1>1. NetworkInv /\ [Next]_vars
          => [LET before == SecretsIn(files["secrets.toml"]).key
              IN before # NIL => SecretsIn(files'["secrets.toml"]).key = before]_vars
    BY KeyStep DEF NetworkInv, Key
  <1> QED
    BY <1>1, NetworkCorrect, PTL DEF Spec, KeyIsKept
=============================================================================
