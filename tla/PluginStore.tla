----------------------------- MODULE PluginStore -----------------------------
(***************************************************************************)
(* PluginManager (plugins/src/lib.rs): what an operation on plugins does   *)
(* to the three things kept on disk, which nothing updates together: the   *)
(* installed directories, registry.json and enabledPlugins of              *)
(* settings.json.                                                          *)
(*                                                                         *)
(* One operation runs at a time.  It may stop before any of its writes or  *)
(* in the middle of one, by an I/O error or because the program ends; both *)
(* leave the same on disk, and the next operation starts from it.  A       *)
(* version stands for the files and the manifest of a plugin.              *)
(***************************************************************************)
EXTENDS Naturals

CONSTANTS External,    \* plugins the user installs
          Bundled,     \* plugins that come with the program
          MaxVersion   \* versions are 1..MaxVersion

Plugins == External \cup Bundled
Versions == 1..MaxVersion
Absent == 0
Bare == MaxVersion + 1     \* a directory without a manifest
Broken == MaxVersion + 2   \* one whose manifest names files that are missing

VARIABLES shipped,    \* the bundle of the running program; Absent if not in it
          dir,        \* the installed directories
          registry,   \* registry.json: whether it parses, and the versions in it
          settings,   \* settings.json: whether it parses, and the entries
          op,         \* the operation, its plugin and version, its next step, and
              \* whether the bundle changed its copy of the registry
          loaded,     \* the copy of the registry of an operation that still needs it
          debris      \* history: what operations that stopped may have left

vars == <<shipped, dir, registry, settings, op, loaded, debris>>
disk == <<dir, registry, settings>>

NoRecords == [p \in Plugins |-> Absent]
NoEntries == [p \in Plugins |-> "unset"]
NoOp == [do |-> "none", plugin |-> CHOOSE p \in Plugins : TRUE, version |-> Absent, step |-> "idle",
         changed |-> FALSE]

\* What may be wrong with a plugin after an operation on it stopped.
Kinds == (Plugins \X {"files"}) \cup (External \X {"setting"})

\* A new user's home.
Init ==
  /\ shipped \in [Bundled -> Versions]
  /\ dir = NoRecords
  /\ registry = [parses |-> TRUE, records |-> NoRecords]
  /\ settings = [parses |-> TRUE, entries |-> NoEntries]
  /\ op = NoOp
  /\ loaded = NoRecords
  /\ debris = {}

-----------------------------------------------------------------------------

Ready == op.step \in {"idle", "done"}
At(step) == op.step = step
Goto(step) == op' = [op EXCEPT !.step = step]
Succeed == op' = [NoOp EXCEPT !.do = op.do, !.step = "done"]
GiveUp == op' = NoOp

Begin(do, p, v, step) ==
  /\ Ready
  /\ op' = [NoOp EXCEPT !.do = do, !.plugin = p, !.version = v, !.step = step]
  /\ UNCHANGED <<shipped, disk, debris>>

\* install: the source is fetched and validated first, which changes nothing.
Install ==
  \E p \in External, v \in Versions : Begin("install", p, v, "files") /\ UNCHANGED loaded

\* load_registry: an operation on a registry that does not parse fails at once.
Load ==
  /\ registry.parses
  /\ loaded' = registry.records

\* update, of a plugin with a record, from the source the record names.
Update ==
  /\ Load
  /\ \E p \in Plugins :
       /\ registry.records[p] # Absent
       /\ \E v \in IF p \in External THEN Versions ELSE {shipped[p]} \ {Absent} :
            Begin("update", p, v, "files")

\* uninstall refuses a bundled plugin.
Uninstall ==
  /\ Load
  /\ \E p \in External :
       /\ registry.records[p] # Absent
       /\ Begin("uninstall", p, Absent, "files")

\* plugin_registry and installed_plugin_registry, which enable and disable
\* begin with (ensure_known_plugin).
List ==
  /\ Load
  /\ \/ Begin("list", NoOp.plugin, Absent, "sync")
     \/ \E do \in {"enable", "disable"}, p \in Plugins : Begin(do, p, Absent, "sync")

\* The old directory is removed, and the new one copied file by file.
Files ==
  /\ At("files")
  /\ dir' = [dir EXCEPT ![op.plugin] = op.version]
  /\ Goto("register")
  /\ UNCHANGED <<shipped, registry, settings, loaded, debris>>

\* store_registry.  install loads the registry only now.
Register ==
  /\ At("register")
  /\ op.do = "install" => registry.parses
  /\ LET records == IF op.do = "install" THEN registry.records ELSE loaded
     IN registry' = [parses |-> TRUE, records |-> [records EXCEPT ![op.plugin] = op.version]]
  /\ IF op.do = "update"
       THEN Succeed /\ debris' = debris \ {<<op.plugin, "files">>}
       ELSE Goto("settings") /\ UNCHANGED debris
  /\ loaded' = NoRecords
  /\ UNCHANGED <<shipped, dir, settings>>

\* Fault: disabling removes the entry.
Fault_OffIsUnset == IF op.do \in {"uninstall", "disable"} THEN "unset" ELSE "on"

Entry == CASE op.do = "uninstall" -> "unset" [] op.do = "disable" -> "off" [] OTHER -> "on"

\* write_enabled_state: settings that do not parse are an error.
WriteSettings ==
  /\ At("settings")
  /\ settings.parses
  /\ settings' = [settings EXCEPT !.entries[op.plugin] = Entry]
  /\ debris' = debris \ {<<op.plugin, what>> :
                           what \in IF op.do \in {"install", "uninstall"} THEN {"files", "setting"}
                                    ELSE {"setting"}}
  /\ Succeed
  /\ UNCHANGED <<shipped, dir, registry, loaded>>

\* Fault: the record alone is compared with the bundle.
Fault_RecordOnly(b) == loaded[b] # shipped[b]

\* sync_bundled_plugins copies a bundled plugin that is not installed as it is
\* in the bundle, and removes one that no longer is in it.
NeedsSync(b) ==
  \/ shipped[b] # Absent /\ (loaded[b] # shipped[b] \/ dir[b] \notin Versions)
  \/ shipped[b] = Absent /\ loaded[b] # Absent

Sync ==
  /\ At("sync")
  /\ \E b \in Bundled :
       /\ NeedsSync(b)
       /\ dir' = [dir EXCEPT ![b] = shipped[b]]
       /\ loaded' = [loaded EXCEPT ![b] = shipped[b]]
  /\ op' = [op EXCEPT !.changed = TRUE]
  /\ UNCHANGED <<shipped, registry, settings, debris>>

\* A registry that did not change is not written.
StoreSynced ==
  /\ At("sync")
  /\ \A b \in Bundled : ~NeedsSync(b)
  /\ registry' = [registry EXCEPT !.records = loaded]
  /\ debris' = debris \ {<<b, "files">> : b \in {b \in Bundled : shipped[b] # Absent}}
  /\ op' = [op EXCEPT !.step = "discover", !.changed = FALSE]
  /\ loaded' = NoRecords
  /\ UNCHANGED <<shipped, dir, settings>>

\* discover_installed_plugins: a broken directory is an error, a record whose
\* directory has no manifest is dropped.  Without a record a directory counts
\* as a plugin all the same.
Stale(p) == dir[p] \in {Absent, Bare} /\ registry.records[p] # Absent

Discover ==
  /\ At("discover")
  /\ \A p \in Plugins : dir[p] # Broken
  /\ registry' = [registry EXCEPT !.records =
                    [p \in Plugins |-> IF Stale(p) THEN Absent ELSE @[p]]]
  /\ \/ op.do = "list" /\ Succeed
     \/ op.do # "list" /\ dir[op.plugin] \in Versions /\ Goto("settings")
     \/ op.do # "list" /\ dir[op.plugin] \notin Versions /\ GiveUp
  /\ UNCHANGED <<shipped, dir, settings, loaded, debris>>

\* An operation stops.  Before a write it leaves things as they are; in the
\* middle of one, a directory that is half removed or half copied, or a file
\* that fs::write had truncated: an empty one counts as one with no entries,
\* one cut off does not parse.
StopBetween ==
  /\ ~Ready
  /\ debris' = debris \cup {k \in Kinds : k[1] = op.plugin}
                      \cup (IF At("sync") THEN Bundled \X {"files"} ELSE {})
  /\ UNCHANGED disk

StopInFiles ==
  /\ \/ At("files") /\ \E rest \in {Absent, Bare, Broken} : dir' = [dir EXCEPT ![op.plugin] = rest]
     \/ At("sync") /\ \E b \in Bundled, rest \in {Absent, Bare, Broken} :
                         NeedsSync(b) /\ dir' = [dir EXCEPT ![b] = rest]
  /\ debris' = debris \cup {k \in Kinds : k[1] = op.plugin}
                      \cup (IF At("sync") THEN Bundled \X {"files"} ELSE {})
  /\ UNCHANGED <<registry, settings>>

StopInRegistry ==
  /\ \/ At("register")
     \/ At("discover") /\ \E p \in Plugins : Stale(p)
     \/ At("sync") /\ op.changed /\ \A b \in Bundled : ~NeedsSync(b)
  /\ \E parses \in BOOLEAN : registry' = [parses |-> parses, records |-> NoRecords]
  /\ debris' = Kinds
  /\ UNCHANGED <<dir, settings>>

StopInSettings ==
  /\ At("settings")
  /\ \E parses \in BOOLEAN : settings' = [parses |-> parses, entries |-> NoEntries]
  /\ debris' = Kinds
  /\ UNCHANGED <<dir, registry>>

Stop ==
  /\ StopBetween \/ StopInFiles \/ StopInRegistry \/ StopInSettings
  /\ GiveUp
  /\ loaded' = NoRecords
  /\ UNCHANGED shipped

\* A later release of the program: newer plugins, or fewer, in its bundle.
Upgrade ==
  /\ Ready
  /\ shipped' \in [Bundled -> Versions \cup {Absent}]
  /\ \A b \in Bundled : shipped'[b] # Absent => shipped'[b] >= shipped[b] /\ shipped[b] # Absent
  /\ GiveUp
  /\ UNCHANGED <<disk, loaded, debris>>

Next ==
  \/ Install \/ Update \/ Uninstall \/ List
  \/ Files \/ Register \/ WriteSettings
  \/ Sync \/ StoreSynced \/ Discover
  \/ Stop \/ Upgrade

Spec == Init /\ [][Next]_vars

-----------------------------------------------------------------------------
(* Properties.                                                             *)

TypeOK ==
  /\ shipped \in [Bundled -> Versions \cup {Absent}]
  /\ dir \in [Plugins -> 0..Broken]
  /\ registry \in [parses : BOOLEAN, records : [Plugins -> Versions \cup {Absent}]]
  /\ settings \in [parses : BOOLEAN, entries : [Plugins -> {"unset", "on", "off"}]]
  /\ loaded \in [Plugins -> Versions \cup {Absent}]
  /\ debris \subseteq Kinds

\* Between operations the directory of a plugin and its record agree, and an
\* external plugin is in the settings exactly when it is installed, unless an
\* operation on it stopped and none has succeeded since: whatever an install,
\* an update or an uninstall finds, success leaves all three right.
PluginsAgree ==
  Ready =>
    /\ \A p \in Plugins :
         <<p, "files">> \notin debris => registry.parses /\ dir[p] = registry.records[p]
    /\ \A p \in External :
         debris \cap {<<p, "files">>, <<p, "setting">>} = {} =>
           (settings.entries[p] = "unset" <=> registry.records[p] = Absent)

\* A listing that succeeds has mended what it can: the bundled plugins are
\* those of the program, and no record is left without its plugin.
ListingMends ==
  op.do = "list" /\ At("done") =>
    /\ \A b \in Bundled : shipped[b] \in {dir[b], Absent}
    /\ \A p \in Plugins : registry.records[p] # Absent => dir[p] \in Versions
=============================================================================
