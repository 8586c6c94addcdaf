------------------------------- MODULE HotReload -------------------------------
(***************************************************************************)
(* PluginWatcherService (plugin-watcher.service.ts): it watches the        *)
(* directories of the plugins that are active when it starts, waits until  *)
(* a file has been quiet for DEBOUNCE, and then tells of a new SKILL.md,   *)
(* or reads a new manifest.toml and writes the plugin's row.               *)
(***************************************************************************)
EXTENDS Integers, Sequences

CONSTANTS
    Extensions,    \* plugins with a directory
    DEBOUNCE,      \* 300 ms
    MaxVersion, MaxReloadFaults, MaxSwitches  \* bounds

Files == {"SKILL.md", "manifest.toml"}
ASSUME HotReloadAssumption ==
    DEBOUNCE \in Nat \ {0} /\ {MaxVersion, MaxReloadFaults, MaxSwitches} \subseteq Nat

VARIABLES
    enabledRows,   \* plugin rows that are active
    watched,       \* directories with a watcher
    debounceTimers, \* of each directory and file: ms left, Off when none runs
    disk,          \* version of each file
    shownRow,           \* manifest version the plugin's row shows
    updates,       \* updateMany issued and not yet run
    watcherUp, reloadFaults, switches,
    quiet,         \* history: time since a watcher last saw the file change
    untold,        \* history: changes seen by a watcher and not told
    missed,        \* history: rows that a failure, or an edit nobody watched, left behind
    told           \* history: how long the file told last had been quiet

seenVars == <<debounceTimers, quiet, untold>>
diskVars == <<disk, shownRow, updates>>
reloadVars == <<enabledRows, watched, watcherUp, reloadFaults, switches, seenVars, diskVars,
                missed, told>>

Paths == Extensions \X Files
Off == DEBOUNCE + 1

HotReloadInit ==
    /\ enabledRows \in SUBSET Extensions /\ watched = {}
    /\ debounceTimers = [f \in Paths |-> Off] /\ disk = [f \in Paths |-> 0]
    /\ shownRow = [p \in Extensions |-> 0] /\ updates = <<>>
    /\ watcherUp = FALSE /\ reloadFaults = 0 /\ switches = 0
    /\ quiet = [f \in Paths |-> DEBOUNCE] /\ untold = {} /\ missed = {} /\ told = DEBOUNCE

\* onModuleInit calls watchAll, and nothing calls it again; a directory that
\* cannot be watched is left out.
WatchAll ==
    /\ ~watcherUp /\ watcherUp' = TRUE
    /\ \E p \in SUBSET enabledRows :
           /\ watched' = enabledRows \ p
           /\ reloadFaults' = (IF p = {} THEN reloadFaults ELSE reloadFaults + 1)
           /\ reloadFaults' <= MaxReloadFaults
    /\ UNCHANGED <<enabledRows, switches, seenVars, diskVars, missed, told>>

\* PluginsService.activate and deactivate
SwitchPlugin(p) ==
    /\ switches < MaxSwitches /\ switches' = switches + 1
    /\ enabledRows' \in {enabledRows \cup {p}, enabledRows \ {p}}
    /\ UNCHANGED <<watched, watcherUp, reloadFaults, seenVars, diskVars, missed, told>>

\* An editor saves a file: the watcher clears the timer and sets it again.
Edit(f) ==
    /\ disk[f] < MaxVersion /\ disk' = [disk EXCEPT ![f] = @ + 1]
    /\ IF f[1] \in watched
       THEN /\ debounceTimers' = [debounceTimers EXCEPT ![f] = DEBOUNCE]
            /\ quiet' = [quiet EXCEPT ![f] = 0] /\ untold' = untold \cup {f} /\ UNCHANGED missed
       ELSE /\ missed' = IF f[2] = "manifest.toml" THEN missed \cup {f[1]} ELSE missed
            /\ UNCHANGED seenVars
    /\ UNCHANGED <<enabledRows, watched, watcherUp, reloadFaults, switches, shownRow, updates,
                   told>>

\* Mutant: the manifest is told of and not read.
HandleChangeUnread(f) ==
    /\ debounceTimers[f] = 0
    /\ debounceTimers' = [debounceTimers EXCEPT ![f] = Off]
    /\ untold' = untold \ {f} /\ told' = quiet[f]
    /\ UNCHANGED <<enabledRows, watched, watcherUp, reloadFaults, switches, quiet, diskVars,
                   missed>>

\* handleChange, once the timer has run out.
HandleChange(f) ==
    /\ debounceTimers[f] = 0
    /\ debounceTimers' = [debounceTimers EXCEPT ![f] = Off]
    /\ untold' = untold \ {f} /\ told' = quiet[f]
    /\ updates' = IF f[2] # "manifest.toml" THEN updates
                  ELSE Append(updates, [plugin |-> f[1], version |-> disk[f]])
    /\ missed' = IF f[2] = "manifest.toml" THEN missed \ {f[1]} ELSE missed
    /\ UNCHANGED <<enabledRows, watched, watcherUp, reloadFaults, switches, quiet, disk, shownRow>>

\* reloadManifest: the write; or its failure, or a manifest that cannot be read.
UpdateRow ==
    /\ updates # <<>>
    /\ LET u == Head(updates)
       IN  \/ /\ shownRow' = [shownRow EXCEPT ![u.plugin] = u.version]
              /\ UNCHANGED <<reloadFaults, missed>>
           \/ /\ reloadFaults < MaxReloadFaults /\ reloadFaults' = reloadFaults + 1
              /\ missed' = missed \cup {u.plugin} /\ UNCHANGED shownRow
    /\ updates' = Tail(updates)
    /\ UNCHANGED <<enabledRows, watched, watcherUp, switches, disk, seenVars, told>>

\* The watcher of a directory fails; its timers run on.
WatcherError(p) ==
    /\ p \in watched /\ reloadFaults < MaxReloadFaults /\ reloadFaults' = reloadFaults + 1
    /\ watched' = watched \ {p}
    /\ UNCHANGED <<enabledRows, watcherUp, switches, seenVars, diskVars, missed, told>>

\* A timer that has run out waits for the event loop.
Elapse ==
    /\ debounceTimers' = [f \in Paths |-> IF debounceTimers[f] \in 1..DEBOUNCE
                                         THEN debounceTimers[f] - 1 ELSE debounceTimers[f]]
    /\ quiet' = [f \in Paths |-> IF quiet[f] < DEBOUNCE THEN quiet[f] + 1 ELSE quiet[f]]
    /\ <<debounceTimers', quiet'>> # <<debounceTimers, quiet>>
    /\ UNCHANGED <<enabledRows, watched, watcherUp, reloadFaults, switches, untold, diskVars,
                   missed, told>>

HotReloadNext ==
    \/ WatchAll \/ UpdateRow \/ Elapse
    \/ \E p \in Extensions : SwitchPlugin(p) \/ WatcherError(p)
    \/ \E f \in Paths : Edit(f) \/ HandleChange(f)

HotReloadSpec == HotReloadInit /\ [][HotReloadNext]_reloadVars

-----------------------------------------------------------------------------
(* Properties *)

HotReloadTypeOK ==
    /\ enabledRows \subseteq Extensions /\ watched \subseteq Extensions
    /\ debounceTimers \in [Paths -> 0..Off] /\ quiet \in [Paths -> 0..DEBOUNCE]
    /\ shownRow \in [Extensions -> 0..MaxVersion] /\ reloadFaults \in 0..MaxReloadFaults

\* A burst of saves is told once it is over: no file is read while it is still
\* being written, and every change that was seen is told later.
ToldWhenQuiet ==
    /\ told = DEBOUNCE
    /\ \A f \in untold : debounceTimers[f] # Off

\* When no timer runs and no update is under way, a plugin's row shows the
\* manifest on disk, unless a write failed or nobody watched.
RowFollowsManifest ==
    updates = <<>> =>
        \A p \in Extensions \ missed :
            debounceTimers[<<p, "manifest.toml">>] = Off =>
                shownRow[p] = disk[<<p, "manifest.toml">>]
=============================================================================
