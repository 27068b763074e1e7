-------------------------- MODULE PluginStore_proofs --------------------------
(***************************************************************************)
(* Proofs about PluginStore, for any plugins and versions.  The only       *)
(* hypothesis is that no plugin of the bundle can be installed by the user *)
(* as well: their identifiers end in different names of marketplaces.      *)
(***************************************************************************)
EXTENDS PluginStore, TLAPS

\* What is assumed of the constants.
Disjoint == MaxVersion \in Nat /\ External \cap Bundled = {}

Dos == {"none", "install", "update", "uninstall", "list", "enable", "disable"}
Steps == {"idle", "done", "files", "register", "settings", "sync", "discover"}

\* The types of what TypeOK does not speak of.
OpType ==
  op \in [do : Dos, plugin : Plugins \cup {NoOp.plugin}, version : Versions \cup {Absent},
          step : Steps, changed : BOOLEAN]

\* What an operation under way is, at each of its steps.
Writing ==
  op.step \in {"files", "register"} =>
    /\ op.plugin \in Plugins
    /\ op.do \in {"install", "update", "uninstall"}
    /\ op.do = "uninstall" <=> op.version = Absent
    /\ op.do # "update" => op.plugin \in External
    /\ op.do = "update" /\ op.plugin \in Bundled => op.version = shipped[op.plugin]
    /\ op.do # "install" => registry.parses /\ loaded = registry.records
    /\ op.step = "register" => dir[op.plugin] = op.version

Setting ==
  op.step = "settings" =>
    /\ op.plugin \in Plugins
    /\ op.do \in {"install", "uninstall", "enable", "disable"}
    /\ op.do \in {"install", "uninstall"} =>
         /\ op.plugin \in External
         /\ registry.parses
         /\ dir[op.plugin] = registry.records[op.plugin]
         /\ op.do = "uninstall" <=> registry.records[op.plugin] = Absent
    /\ op.do \in {"enable", "disable"} => dir[op.plugin] \in Versions

Listing ==
  /\ op.step \in {"sync", "discover"} =>
       /\ op.do \in {"list", "enable", "disable"}
       /\ op.do # "list" => op.plugin \in Plugins
       /\ registry.parses
  /\ op.step = "sync" =>
       /\ \A p \in External : loaded[p] = registry.records[p]
       /\ \A b \in Bundled : <<b, "files">> \notin debris => dir[b] = loaded[b]
  /\ op.step = "discover" => \A b \in Bundled : shipped[b] \in {dir[b], Absent}

OpOK == OpType /\ Writing /\ Setting /\ Listing

\* The files of p are being written.
BeingWritten(p) ==
  \/ op.step \in {"files", "register"} /\ p = op.plugin
  \/ op.step = "sync" /\ p \in Bundled

\* The directory and the record of a plugin that nothing went wrong with.
FilesAgree ==
  \A p \in Plugins :
    <<p, "files">> \notin debris /\ ~BeingWritten(p) => registry.parses /\ dir[p] = registry.records[p]

\* The setting and the record of a plugin.  When only the files are in doubt,
\* the setting was mended by enable or disable, which leave an entry.
SettingAgrees(p) ==
  /\ /\ <<p, "files">> \notin debris /\ <<p, "setting">> \notin debris
     /\ ~(op.step \in {"files", "register", "settings"} /\ p = op.plugin)
     => (settings.entries[p] = "unset" <=> registry.records[p] = Absent)
  /\ <<p, "files">> \in debris /\ <<p, "setting">> \notin debris => settings.entries[p] # "unset"
  /\ /\ op.step \in {"files", "register"} /\ p = op.plugin /\ op.do = "update"
     /\ <<p, "setting">> \notin debris
     => settings.entries[p] # "unset"

SettingsAgree == \A p \in External : SettingAgrees(p)

\* Bundled plugins only become newer: a record is never ahead of its directory,
\* nor the directory of the bundle.
BundleOrder ==
  \A b \in Bundled :
    shipped[b] # Absent =>
      /\ registry.records[b] <= shipped[b]
      /\ loaded[b] <= shipped[b]
      /\ dir[b] \in Versions =>
           /\ dir[b] <= shipped[b]
           /\ registry.records[b] <= dir[b]
           /\ loaded[b] <= dir[b]

IInv == TypeOK /\ OpOK /\ FilesAgree /\ SettingsAgree /\ BundleOrder /\ ListingMends

LEMMA NoOpShape ==
  /\ NoOp \in [do : Dos, plugin : Plugins \cup {NoOp.plugin}, version : Versions \cup {Absent},
                step : Steps, changed : BOOLEAN]
  /\ NoOp.do = "none"
  /\ NoOp.version = Absent
  /\ NoOp.step = "idle"
  /\ NoOp.changed = FALSE
  BY DEF NoOp, Dos, Steps

LEMMA BeginGives ==
  ASSUME NEW do \in Dos, NEW p \in Plugins \cup {NoOp.plugin}, NEW v \in Versions \cup {Absent},
         NEW step \in Steps, Begin(do, p, v, step)
  PROVE  /\ OpType'
         /\ op'.do = do /\ op'.plugin = p /\ op'.version = v /\ op'.step = step /\ op'.changed = FALSE
         /\ Ready
         /\ UNCHANGED <<shipped, dir, registry, settings, debris>>
  BY NoOpShape DEF Begin, OpType, disk

LEMMA SucceedGives ==
  ASSUME OpType, Succeed
  PROVE  OpType' /\ op'.do = op.do /\ op'.step = "done" /\ op'.changed = FALSE
  BY NoOpShape DEF Succeed, OpType, Steps

LEMMA GotoGives ==
  ASSUME OpType, NEW step \in Steps, Goto(step)
  PROVE  /\ OpType' /\ op'.do = op.do /\ op'.plugin = op.plugin /\ op'.version = op.version
         /\ op'.step = step /\ op'.changed = op.changed
  BY DEF Goto, OpType

LEMMA Begun ==
  ASSUME IInv, Install \/ Update \/ Uninstall \/ List
  PROVE  /\ OpType' /\ Ready
         /\ UNCHANGED <<shipped, dir, registry, settings, debris>>
         /\ op'.step \in {"files", "sync"}
         /\ op'.step = "files" /\ op'.do = "update" =>
              op'.plugin \in Plugins /\ registry.records[op'.plugin] # Absent
         /\ op'.step = "sync" => registry.parses /\ loaded' = registry.records
                                 /\ op'.do \in {"list", "enable", "disable"}
                                 /\ (op'.do # "list" => op'.plugin \in Plugins)
<1>1. CASE Install
  <2>1. PICK p \in External, v \in Versions : Begin("install", p, v, "files")
    BY <1>1 DEF Install
  <2> QED
    BY <2>1, BeginGives DEF Dos, Steps, Plugins
<1>2. CASE Update
  <2>1. PICK p \in Plugins : /\ registry.records[p] # Absent
                            /\ \E v \in IF p \in External THEN Versions ELSE {shipped[p]} \ {Absent} :
                                 Begin("update", p, v, "files")
    BY <1>2 DEF Update
  <2>2. PICK v \in Versions : Begin("update", p, v, "files")
    BY <2>1 DEF IInv, TypeOK, Plugins
  <2> QED
    BY <2>1, <2>2, BeginGives DEF Dos, Steps
<1>3. CASE Uninstall
  <2>1. PICK p \in External : Begin("uninstall", p, Absent, "files")
    BY <1>3 DEF Uninstall
  <2> QED
    BY <2>1, BeginGives DEF Dos, Steps, Plugins
<1>4. CASE List
  <2>1. Load
    BY <1>4 DEF List
  <2>2. PICK do \in {"list", "enable", "disable"}, p \in Plugins \cup {NoOp.plugin} :
          Begin(do, p, Absent, "sync") /\ (do # "list" => p \in Plugins)
    BY <1>4 DEF List
  <2> QED
    BY <2>1, <2>2, BeginGives DEF Load, Dos, Steps
<1> QED
  BY <1>1, <1>2, <1>3, <1>4

LEMMA Registered ==
  ASSUME IInv, Register
  PROVE  /\ registry'.parses /\ registry'.records[op.plugin] = op.version
         /\ \A q \in Plugins \ {op.plugin} : registry'.records[q] = registry.records[q]
         /\ \A q \in Plugins : loaded'[q] = Absent
         /\ op'.do = op.do
         /\ op.do = "update" => op'.step = "done" /\ debris' = debris \ {<<op.plugin, "files">>}
         /\ op.do # "update" => op'.step = "settings" /\ op'.plugin = op.plugin /\ debris' = debris
         /\ UNCHANGED <<shipped, dir, settings>>
<1> USE DEF Register
<1>1. op.step = "register"
  BY DEF At
<1>2. registry.records \in [Plugins -> Versions \cup {Absent}] /\ op.plugin \in Plugins
  BY <1>1 DEF IInv, TypeOK, OpOK, Writing
<1>3. registry' = [parses |-> TRUE, records |-> [registry.records EXCEPT ![op.plugin] = op.version]]
  BY <1>1 DEF IInv, OpOK, Writing
<1>4. op.do = "update" => op'.do = op.do /\ op'.step = "done" /\ debris' = debris \ {<<op.plugin, "files">>}
  BY SucceedGives DEF IInv, OpOK
<1>5. op.do # "update" => op'.step = "settings" /\ op'.do = op.do /\ op'.plugin = op.plugin /\ debris' = debris
  BY GotoGives DEF IInv, OpOK, Steps
<1>6. \A q \in Plugins : loaded'[q] = Absent
  BY DEF NoRecords
<1> QED
  BY <1>2, <1>3, <1>4, <1>5, <1>6

LEMMA TypeStep ==
  ASSUME Disjoint, IInv, [Next]_vars
  PROVE  TypeOK'
<1> USE NoOpShape DEF Disjoint, IInv, TypeOK, OpOK, OpType, Writing, Kinds, disk,
                      Plugins, Versions, Absent, Bare, Broken
<1>1. CASE Install
  BY <1>1 DEF Install, Begin, Ready
<1>2. CASE Update
  BY <1>2 DEF Update, Load, Begin, Ready
<1>3. CASE Uninstall
  BY <1>3 DEF Uninstall, Load, Begin, Ready
<1>4. CASE List
  BY <1>4 DEF List, Load, Begin, Ready
<1>5. CASE Files
  BY <1>5 DEF Files, At, Goto
<1>6. CASE Register
  BY <1>6 DEF Register, At, Goto, Succeed, NoRecords
<1>7. CASE WriteSettings
  BY <1>7 DEF WriteSettings, At, Succeed, Entry
<1>8. CASE Sync
  BY <1>8 DEF Sync, At, NeedsSync
<1>9. CASE StoreSynced
  BY <1>9 DEF StoreSynced, At, NeedsSync, NoRecords
<1>10. CASE Discover
  BY <1>10 DEF Discover, At, Goto, Succeed, GiveUp, Stale
<1>11. CASE Stop
  BY <1>11 DEF Stop, StopBetween, StopInFiles, StopInRegistry, StopInSettings, GiveUp, NoRecords, NoEntries, At, Ready, Kinds
<1>12. CASE Upgrade
  BY <1>12 DEF Upgrade, Ready, GiveUp
<1>13. CASE UNCHANGED vars
  BY <1>13 DEF vars
<1> QED
  BY <1>1, <1>2, <1>3, <1>4, <1>5, <1>6, <1>7, <1>8, <1>9, <1>10, <1>11, <1>12, <1>13 DEF Next

LEMMA OpTypeStep ==
  ASSUME Disjoint, IInv, [Next]_vars
  PROVE  OpType'
<1> USE NoOpShape DEF Disjoint, IInv, TypeOK, OpOK, OpType, Writing, Setting, Listing, Dos, Steps, disk,
                      Plugins, Versions, Absent, Bare, Broken
<1>1. CASE Install
  BY <1>1, Begun
<1>2. CASE Update
  BY <1>2, Begun
<1>3. CASE Uninstall
  BY <1>3, Begun
<1>4. CASE List
  BY <1>4, Begun
<1>5. CASE Files
  BY <1>5 DEF Files, At, Goto
<1>6. CASE Register
  BY <1>6, SucceedGives, GotoGives DEF Register
<1>7. CASE WriteSettings
  BY <1>7 DEF WriteSettings, At, Succeed, Entry
<1>8. CASE Sync
  BY <1>8 DEF Sync, At, NeedsSync
<1>9. CASE StoreSynced
  BY <1>9 DEF StoreSynced, At, NeedsSync, NoRecords
<1>10. CASE Discover
  BY <1>10, SucceedGives, GotoGives, NoOpShape DEF Discover, GiveUp
<1>11. CASE Stop
  BY <1>11 DEF Stop, StopBetween, StopInFiles, StopInRegistry, StopInSettings, GiveUp, NoRecords, NoEntries, At, Ready, Kinds
<1>12. CASE Upgrade
  BY <1>12 DEF Upgrade, Ready, GiveUp
<1>13. CASE UNCHANGED vars
  BY <1>13 DEF vars
<1> QED
  BY <1>1, <1>2, <1>3, <1>4, <1>5, <1>6, <1>7, <1>8, <1>9, <1>10, <1>11, <1>12, <1>13 DEF Next

LEMMA WritingStep ==
  ASSUME Disjoint, IInv, [Next]_vars
  PROVE  Writing'
<1> USE NoOpShape DEF Disjoint, IInv, TypeOK, OpOK, OpType, Writing, Dos, Steps, disk,
                      Plugins, Versions, Absent, Bare, Broken
<1>1. CASE Install
  BY <1>1 DEF Install, Begin, Ready
<1>2. CASE Update
  BY <1>2 DEF Update, Load, Begin, Ready
<1>3. CASE Uninstall
  BY <1>3 DEF Uninstall, Load, Begin, Ready
<1>4. CASE List
  BY <1>4 DEF List, Load, Begin, Ready
<1>5. CASE Files
  BY <1>5 DEF Files, At, Goto
<1>6. CASE Register
  BY <1>6, Registered
<1>7. CASE WriteSettings
  BY <1>7 DEF WriteSettings, At, Succeed, Entry
<1>8. CASE Sync
  BY <1>8 DEF Sync, At, NeedsSync
<1>9. CASE StoreSynced
  BY <1>9 DEF StoreSynced, At, NeedsSync, NoRecords
<1>10. CASE Discover
  BY <1>10 DEF Discover, At, Goto, Succeed, GiveUp, Stale
<1>11. CASE Stop
  BY <1>11 DEF Stop, StopBetween, StopInFiles, StopInRegistry, StopInSettings, GiveUp, NoRecords, NoEntries, At, Ready, Kinds
<1>12. CASE Upgrade
  BY <1>12 DEF Upgrade, Ready, GiveUp
<1>13. CASE UNCHANGED vars
  BY <1>13 DEF vars
<1> QED
  BY <1>1, <1>2, <1>3, <1>4, <1>5, <1>6, <1>7, <1>8, <1>9, <1>10, <1>11, <1>12, <1>13 DEF Next

LEMMA SettingStep ==
  ASSUME Disjoint, IInv, [Next]_vars
  PROVE  Setting'
<1> USE NoOpShape DEF Disjoint, IInv, TypeOK, OpOK, OpType, Writing, Setting, Listing, Dos, Steps, disk,
                      Plugins, Versions, Absent, Bare, Broken
<1>1. CASE Install
  BY <1>1 DEF Install, Begin, Ready
<1>2. CASE Update
  BY <1>2 DEF Update, Load, Begin, Ready
<1>3. CASE Uninstall
  BY <1>3 DEF Uninstall, Load, Begin, Ready
<1>4. CASE List
  BY <1>4, Begun DEF Ready
<1>5. CASE Files
  BY <1>5 DEF Files, At, Goto
<1>6. CASE Register
  BY <1>6, Registered DEF Register, At
<1>7. CASE WriteSettings
  BY <1>7 DEF WriteSettings, At, Succeed, Entry
<1>8. CASE Sync
  BY <1>8 DEF Sync, At, NeedsSync
<1>9. CASE StoreSynced
  BY <1>9 DEF StoreSynced, At, NeedsSync, NoRecords
<1>10. CASE Discover
  BY <1>10 DEF Discover, At, Goto, Succeed, GiveUp, Stale
<1>11. CASE Stop
  BY <1>11 DEF Stop, StopBetween, StopInFiles, StopInRegistry, StopInSettings, GiveUp, NoRecords, NoEntries, At, Ready, Kinds
<1>12. CASE Upgrade
  BY <1>12 DEF Upgrade, Ready, GiveUp
<1>13. CASE UNCHANGED vars
  BY <1>13 DEF vars
<1> QED
  BY <1>1, <1>2, <1>3, <1>4, <1>5, <1>6, <1>7, <1>8, <1>9, <1>10, <1>11, <1>12, <1>13 DEF Next

LEMMA ListingStep ==
  ASSUME Disjoint, IInv, [Next]_vars
  PROVE  Listing'
<1> USE NoOpShape DEF Disjoint, IInv, TypeOK, OpOK, OpType, Writing, Setting, Listing, FilesAgree, BeingWritten, BundleOrder, Dos, Steps, disk,
                      Plugins, Versions, Absent, Bare, Broken
<1>1. CASE Install
  BY <1>1 DEF Install, Begin, Ready
<1>2. CASE Update
  BY <1>2 DEF Update, Load, Begin, Ready
<1>3. CASE Uninstall
  BY <1>3 DEF Uninstall, Load, Begin, Ready
<1>4. CASE List
  BY <1>4, Begun DEF Ready
<1>5. CASE Files
  BY <1>5 DEF Files, At, Goto
<1>6. CASE Register
  BY <1>6, Registered DEF Register, At
<1>7. CASE WriteSettings
  BY <1>7 DEF WriteSettings, At, Succeed, Entry
<1>8. CASE Sync
  BY <1>8 DEF Sync, At, NeedsSync
<1>9. CASE StoreSynced
  BY <1>9 DEF StoreSynced, At, NeedsSync, NoRecords
<1>10. CASE Discover
  BY <1>10 DEF Discover, At, Goto, Succeed, GiveUp, Stale
<1>11. CASE Stop
  BY <1>11 DEF Stop, StopBetween, StopInFiles, StopInRegistry, StopInSettings, GiveUp, NoRecords, NoEntries, At, Ready, Kinds
<1>12. CASE Upgrade
  BY <1>12 DEF Upgrade, Ready, GiveUp
<1>13. CASE UNCHANGED vars
  BY <1>13 DEF vars
<1> QED
  BY <1>1, <1>2, <1>3, <1>4, <1>5, <1>6, <1>7, <1>8, <1>9, <1>10, <1>11, <1>12, <1>13 DEF Next

LEMMA FilesStep ==
  ASSUME Disjoint, IInv, [Next]_vars
  PROVE  FilesAgree'
<1> USE NoOpShape DEF Disjoint, IInv, TypeOK, OpOK, OpType, Writing, Setting, Listing, FilesAgree, BeingWritten, BundleOrder, Dos, Steps, disk,
                      Plugins, Versions, Absent, Bare, Broken
<1>1. CASE Install
  BY <1>1 DEF Install, Begin, Ready
<1>2. CASE Update
  BY <1>2 DEF Update, Load, Begin, Ready
<1>3. CASE Uninstall
  BY <1>3 DEF Uninstall, Load, Begin, Ready
<1>4. CASE List
  BY <1>4, Begun DEF Ready
<1>5. CASE Files
  BY <1>5 DEF Files, At, Goto
<1>6. CASE Register
  BY <1>6, Registered DEF Register, At
<1>7. CASE WriteSettings
  BY <1>7 DEF WriteSettings, At, Succeed, Entry
<1>8. CASE Sync
  BY <1>8 DEF Sync, At, NeedsSync
<1>9. CASE StoreSynced
  BY <1>9 DEF StoreSynced, At, NeedsSync, NoRecords
<1>10. CASE Discover
  BY <1>10 DEF Discover, At, Goto, Succeed, GiveUp, Stale
<1>11. CASE Stop
  BY <1>11 DEF Stop, StopBetween, StopInFiles, StopInRegistry, StopInSettings, GiveUp, NoRecords, NoEntries, At, Ready, Kinds
<1>12. CASE Upgrade
  BY <1>12 DEF Upgrade, Ready, GiveUp
<1>13. CASE UNCHANGED vars
  BY <1>13 DEF vars
<1> QED
  BY <1>1, <1>2, <1>3, <1>4, <1>5, <1>6, <1>7, <1>8, <1>9, <1>10, <1>11, <1>12, <1>13 DEF Next

LEMMA SettingsStep ==
  ASSUME Disjoint, IInv, [Next]_vars
  PROVE  SettingsAgree'
<1> USE NoOpShape DEF Disjoint, IInv, TypeOK, OpOK, OpType, Writing, Setting, Listing, FilesAgree, SettingsAgree, SettingAgrees, BeingWritten, Dos, Steps, disk,
                      Plugins, Versions, Absent, Bare, Broken
<1>1. CASE Install
  BY <1>1, Begun DEF Ready
<1>2. CASE Update
  BY <1>2, Begun DEF Ready
<1>3. CASE Uninstall
  BY <1>3, Begun DEF Ready
<1>4. CASE List
  BY <1>4, Begun DEF Ready
<1>5. CASE Files
  BY <1>5 DEF Files, At, Goto
<1>6. CASE Register
  <2> SUFFICES ASSUME NEW p \in External
               PROVE  SettingAgrees(p)'
    BY DEF SettingsAgree
  <2>0. SettingAgrees(p) /\ p \in Plugins /\ p \notin Bundled
    BY DEF SettingsAgree
  <2>1. op.step = "register" /\ op'.step \in {"done", "settings"}
    BY <1>6, Registered DEF Register, At
  <2>2. /\ <<p, "setting">> \in debris' <=> <<p, "setting">> \in debris
        /\ <<p, "files">> \in debris' => <<p, "files">> \in debris
        /\ settings' = settings
    BY <1>6, Registered
  <2>3. CASE p = op.plugin
    BY <1>6, <2>0, <2>1, <2>2, <2>3, Registered
  <2>4. CASE p # op.plugin
    <3>1. <<p, "files">> \in debris' <=> <<p, "files">> \in debris
      BY <1>6, <2>4, Registered
    <3>2. registry'.records[p] = registry.records[p]
      BY <1>6, <2>0, <2>4, Registered
    <3> QED
      BY <1>6, <2>0, <2>1, <2>2, <2>4, <3>1, <3>2, Registered
  <2> QED
    BY <2>3, <2>4
<1>7. CASE WriteSettings
  <2> SUFFICES ASSUME NEW p \in External
               PROVE  SettingAgrees(p)'
    BY DEF SettingsAgree
  <2>0. SettingAgrees(p) /\ p \in Plugins /\ p \notin Bundled
    BY DEF SettingsAgree
  <2>1. op.step = "settings" /\ op'.step = "done" /\ registry' = registry /\ dir' = dir
    BY <1>7, SucceedGives DEF WriteSettings, At
  <2>2. settings'.entries[p] = IF p = op.plugin THEN Entry ELSE settings.entries[p]
    BY <1>7, <2>0 DEF WriteSettings
  <2>3. CASE p = op.plugin /\ op.do \in {"install", "uninstall"}
    <3>1. <<p, "files">> \notin debris' /\ <<p, "setting">> \notin debris'
      BY <1>7, <2>3 DEF WriteSettings
    <3> QED
      BY <2>1, <2>2, <2>3, <3>1 DEF Entry
  <2>4. CASE p = op.plugin /\ op.do \in {"enable", "disable"}
    <3>1. <<p, "files">> \in debris' <=> <<p, "files">> \in debris
      BY <1>7, <2>4 DEF WriteSettings
    <3>2. <<p, "files">> \notin debris => registry.records[p] # Absent
      BY <2>0, <2>1, <2>4
    <3>3. settings'.entries[p] # "unset"
      BY <2>2, <2>4 DEF Entry
    <3> QED
      BY <2>1, <3>1, <3>2, <3>3
  <2>5. CASE p # op.plugin
    <3>1. \A what : <<p, what>> \in debris' <=> <<p, what>> \in debris
      BY <1>7, <2>5 DEF WriteSettings
    <3> QED
      BY <2>0, <2>1, <2>2, <2>5, <3>1
  <2> QED
    BY <2>1, <2>3, <2>4, <2>5
<1>8. CASE Sync
  BY <1>8 DEF Sync, At, NeedsSync
<1>9. CASE StoreSynced
  <2> SUFFICES ASSUME NEW p \in External
               PROVE  SettingAgrees(p)'
    BY DEF SettingsAgree
  <2>0. SettingAgrees(p) /\ p \in Plugins /\ p \notin Bundled
    BY DEF SettingsAgree
  <2>1. op.step = "sync" /\ op'.step = "discover" /\ settings' = settings
    BY <1>9 DEF StoreSynced, At
  <2>2. registry'.records[p] = registry.records[p]
    BY <1>9, <2>0, <2>1 DEF StoreSynced
  <2>3. \A what : <<p, what>> \in debris' <=> <<p, what>> \in debris
    BY <1>9, <2>0 DEF StoreSynced
  <2> QED
    BY <2>0, <2>1, <2>2, <2>3
<1>10. CASE Discover
  <2> SUFFICES ASSUME NEW p \in External
               PROVE  SettingAgrees(p)'
    BY DEF SettingsAgree
  <2>0. SettingAgrees(p) /\ p \in Plugins /\ p \notin Bundled
    BY DEF SettingsAgree
  <2>1. /\ op.step = "discover" /\ op'.step \in {"done", "settings", "idle"}
        /\ settings' = settings /\ debris' = debris
    BY <1>10, SucceedGives, GotoGives DEF Discover, At, GiveUp
  <2>2. <<p, "files">> \notin debris => registry.records[p] = dir[p]
    BY <2>0, <2>1
  <2>3. registry'.records[p] = IF Stale(p) THEN Absent ELSE registry.records[p]
    BY <1>10, <2>0 DEF Discover
  <2>4. <<p, "files">> \notin debris => registry'.records[p] = registry.records[p]
    BY <2>0, <2>2, <2>3 DEF Stale
  <2> QED
    BY <2>0, <2>1, <2>4
<1>11. CASE Stop
  <2> SUFFICES ASSUME NEW p \in External
               PROVE  SettingAgrees(p)'
    BY DEF SettingsAgree
  <2>0. SettingAgrees(p) /\ p \in Plugins /\ p \notin Bundled
    BY DEF SettingsAgree
  <2>1. op'.step = "idle"
    BY <1>11 DEF Stop, GiveUp
  <2>2. CASE debris' = Kinds
    BY <2>1, <2>2 DEF Kinds
  <2>3. CASE debris' # Kinds
    <3>1. /\ settings' = settings /\ registry' = registry
          /\ debris' = debris \cup {k \in Kinds : k[1] = op.plugin}
                             \cup (IF At("sync") THEN Bundled \X {"files"} ELSE {})
      BY <1>11, <2>3 DEF Stop, StopBetween, StopInFiles, StopInRegistry, StopInSettings
    <3>2. CASE p = op.plugin
      <4>1. <<p, "files">> \in debris' /\ <<p, "setting">> \in debris'
        BY <2>0, <3>1, <3>2 DEF Kinds
      <4> QED
        BY <2>1, <4>1
    <3>3. CASE p # op.plugin
      <4>1. \A what : <<p, what>> \in debris' <=> <<p, what>> \in debris
        BY <2>0, <3>1, <3>3
      <4> QED
        BY <2>0, <2>1, <3>1, <3>3, <4>1
    <3> QED
      BY <3>2, <3>3
  <2> QED
    BY <2>2, <2>3
<1>12. CASE Upgrade
  BY <1>12 DEF Upgrade, Ready, GiveUp
<1>13. CASE UNCHANGED vars
  BY <1>13 DEF vars
<1> QED
  BY <1>1, <1>2, <1>3, <1>4, <1>5, <1>6, <1>7, <1>8, <1>9, <1>10, <1>11, <1>12, <1>13 DEF Next

LEMMA OrderStep ==
  ASSUME Disjoint, IInv, [Next]_vars
  PROVE  BundleOrder'
<1> USE NoOpShape DEF Disjoint, IInv, TypeOK, OpOK, OpType, Writing, Setting, Listing, BundleOrder, Dos, Steps, disk,
                      Plugins, Versions, Absent, Bare, Broken
<1>1. CASE Install
  BY <1>1 DEF Install, Begin, Ready
<1>2. CASE Update
  BY <1>2 DEF Update, Load, Begin, Ready
<1>3. CASE Uninstall
  BY <1>3 DEF Uninstall, Load, Begin, Ready
<1>4. CASE List
  BY <1>4, Begun DEF List, Load
<1>5. CASE Files
  BY <1>5 DEF Files, At, Goto
<1>6. CASE Register
  BY <1>6, Registered DEF Register, At
<1>7. CASE WriteSettings
  BY <1>7 DEF WriteSettings, At, Succeed, Entry
<1>8. CASE Sync
  BY <1>8 DEF Sync, At, NeedsSync
<1>9. CASE StoreSynced
  BY <1>9 DEF StoreSynced, At, NeedsSync, NoRecords
<1>10. CASE Discover
  BY <1>10 DEF Discover, At, Goto, Succeed, GiveUp, Stale
<1>11. CASE Stop
  BY <1>11 DEF Stop, StopBetween, StopInFiles, StopInRegistry, StopInSettings, GiveUp, NoRecords, NoEntries, At, Ready, Kinds
<1>12. CASE Upgrade
  BY <1>12 DEF Upgrade, Ready, GiveUp
<1>13. CASE UNCHANGED vars
  BY <1>13 DEF vars
<1> QED
  BY <1>1, <1>2, <1>3, <1>4, <1>5, <1>6, <1>7, <1>8, <1>9, <1>10, <1>11, <1>12, <1>13 DEF Next

LEMMA MendsStep ==
  ASSUME Disjoint, IInv, [Next]_vars
  PROVE  ListingMends'
<1> USE NoOpShape DEF Disjoint, IInv, TypeOK, OpOK, OpType, Writing, Setting, Listing, BundleOrder, ListingMends, At, Dos, Steps, disk,
                      Plugins, Versions, Absent, Bare, Broken
<1>1. CASE Install
  BY <1>1 DEF Install, Begin, Ready
<1>2. CASE Update
  BY <1>2 DEF Update, Load, Begin, Ready
<1>3. CASE Uninstall
  BY <1>3 DEF Uninstall, Load, Begin, Ready
<1>4. CASE List
  BY <1>4, Begun DEF Ready
<1>5. CASE Files
  BY <1>5 DEF Files, At, Goto
<1>6. CASE Register
  BY <1>6, Registered DEF Register, At
<1>7. CASE WriteSettings
  BY <1>7 DEF WriteSettings, At, Succeed, Entry
<1>8. CASE Sync
  BY <1>8 DEF Sync, At, NeedsSync
<1>9. CASE StoreSynced
  BY <1>9 DEF StoreSynced, At, NeedsSync, NoRecords
<1>10. CASE Discover
  BY <1>10 DEF Discover, At, Goto, Succeed, GiveUp, Stale
<1>11. CASE Stop
  BY <1>11 DEF Stop, StopBetween, StopInFiles, StopInRegistry, StopInSettings, GiveUp, NoRecords, NoEntries, At, Ready, Kinds
<1>12. CASE Upgrade
  BY <1>12 DEF Upgrade, Ready, GiveUp
<1>13. CASE UNCHANGED vars
  BY <1>13 DEF vars
<1> QED
  BY <1>1, <1>2, <1>3, <1>4, <1>5, <1>6, <1>7, <1>8, <1>9, <1>10, <1>11, <1>12, <1>13 DEF Next

-----------------------------------------------------------------------------

LEMMA InitHolds ==
  ASSUME Disjoint, Init
  PROVE  IInv
<1> USE NoOpShape DEF Disjoint, Init, NoRecords, NoEntries, Plugins, Versions, Absent, Bare, Broken, Steps
<1>1. TypeOK
  BY DEF TypeOK
<1>2. OpOK
  BY DEF OpOK, OpType, Writing, Setting, Listing
<1>3. FilesAgree /\ SettingsAgree /\ BundleOrder /\ ListingMends
  BY DEF FilesAgree, SettingsAgree, SettingAgrees, BundleOrder, ListingMends, At
<1> QED
  BY <1>1, <1>2, <1>3 DEF IInv

LEMMA StepHolds ==
  ASSUME Disjoint, IInv, [Next]_vars
  PROVE  IInv'
<1>1. OpOK'
  BY OpTypeStep, WritingStep, SettingStep, ListingStep DEF OpOK
<1> QED
  BY <1>1, TypeStep, FilesStep, SettingsStep, OrderStep, MendsStep DEF IInv

LEMMA Inductive ==
  ASSUME Disjoint
  PROVE  Spec => []IInv
<1>1. Init => IInv
  BY InitHolds
<1>2. IInv /\ [Next]_vars => IInv'
  BY StepHolds
<1> QED
  BY <1>1, <1>2, PTL DEF Spec

\* The disk, the copy of the registry and the history have their types in
\* every state, those that stopped operations leave included.
THEOREM TypeCorrect ==
  ASSUME Disjoint
  PROVE  Spec => []TypeOK
<1>1. IInv => TypeOK
  BY DEF IInv
<1> QED
  BY <1>1, Inductive, PTL

\* For any plugins and versions: between operations of the PluginManager the
\* directory, the record and the setting of a plugin agree, unless an operation
\* on it stopped and none has succeeded since.
THEOREM PluginsAgreeAlways ==
  ASSUME Disjoint
  PROVE  Spec => []PluginsAgree
<1>1. IInv => PluginsAgree
  <2> SUFFICES ASSUME IInv, Ready
               PROVE  PluginsAgree
    BY DEF PluginsAgree
  <2>1. \A p \in Plugins :
          <<p, "files">> \notin debris => registry.parses /\ dir[p] = registry.records[p]
    BY DEF IInv, FilesAgree, BeingWritten, Ready
  <2>2. \A p \in External :
          debris \cap {<<p, "files">>, <<p, "setting">>} = {} =>
            (settings.entries[p] = "unset" <=> registry.records[p] = Absent)
    BY DEF IInv, SettingsAgree, SettingAgrees, Ready
  <2> QED
    BY <2>1, <2>2 DEF PluginsAgree
<1> QED
  BY <1>1, Inductive, PTL

\* For any plugins and versions: a listing that succeeds has made the bundled
\* plugins those of the program and left no record without its plugin.
THEOREM ListingMendsAlways ==
  ASSUME Disjoint
  PROVE  Spec => []ListingMends
<1>1. IInv => ListingMends
  BY DEF IInv
<1> QED
  BY <1>1, Inductive, PTL
=============================================================================
