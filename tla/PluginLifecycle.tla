---------------------------- MODULE PluginLifecycle ----------------------------
(***************************************************************************)
(* PluginsService (plugins.service.ts): install(), update(), activate(),   *)
(* deactivate(), remove() and the sync of onApplicationBootstrap().  Each  *)
(* works on two stores, the directory of the plugin and its row, with git, *)
(* the sandbox or the database awaited in between.                         *)
(***************************************************************************)
EXTENDS Integers

CONSTANTS
    Plugins,
    Bundled,      \* the plugins that come with the image
    Requires,     \* the plugins each manifest names in its requires
    StackRequires,\* those a stack names in its stack.requires
    Requests,     \* calls of the panel that can be under way together
    MaxRelease,   \* bound: releases of a plugin
    MaxLifecycleFaults  \* bound: calls that fail, and restarts

\* checkPluginVersion: the major of a release.
Major(v) == (v + 1) \div 2

ASSUME LifecycleAssumption ==
    /\ Bundled \subseteq Plugins
    /\ {Requires, StackRequires} \subseteq [Plugins -> SUBSET Plugins]
    /\ MaxRelease \in Nat \ {0} /\ MaxLifecycleFaults \in Nat

VARIABLES
    release,    \* the last release in the repository of each plugin
    directory,  \* the release in the plugin's directory; 0 when there is none
    plugin,     \* plugins: active, version, content_checksum, git_url
    request,    \* each request: where it is and what it has read
    compared,   \* history: the checksums an audit or a first record vouches for
    bereft,     \* history: plugins activated while a requirement was being
                \* deactivated, or whose requirement was removed
    lifecycleFaults

lifecycleVars == <<release, directory, plugin, request, compared, bereft, lifecycleFaults>>

\* A checksum is the release whose content it is of; 0 stands for null.
NoPlugin == [row |-> FALSE, active |-> FALSE, version |-> 0, checksum |-> 0, git |-> FALSE]
NoRequest == [pc |-> "none", plugin |-> "none", was |-> NoPlugin, next |-> 0]

Registered(v) == [NoPlugin EXCEPT !.row = TRUE, !.version = v]

\* The plugins of the image, as the first sync has registered them.
LifecycleInit ==
    /\ release = [p \in Plugins |-> 1]
    /\ directory = [p \in Plugins |-> IF p \in Bundled THEN 1 ELSE 0]
    /\ plugin = [p \in Plugins |-> IF p \in Bundled THEN Registered(1) ELSE NoPlugin]
    /\ request = [r \in Requests |-> NoRequest]
    /\ compared = [p \in Plugins |-> {}]
    /\ bereft = {}
    /\ lifecycleFaults = 0

RequestAt(r, pc) == request[r].pc = pc
TakeUp(r, p, pc) ==
    request' = [request EXCEPT ![r] = [pc |-> pc, plugin |-> p, was |-> plugin[p], next |-> 0]]
GoOn(r, pc) == request' = [request EXCEPT ![r].pc = pc]
GiveUp(r) == request' = [request EXCEPT ![r] = NoRequest]
LifecycleFault == lifecycleFaults < MaxLifecycleFaults /\ lifecycleFaults' = lifecycleFaults + 1

-----------------------------------------------------------------------------
(* install() *)

\* git clone into a directory that exists fails, and so does install().
InstallClones(r) ==
    /\ RequestAt(r, "none")
    /\ \E p \in Plugins :
         /\ directory[p] = 0
         /\ directory' = [directory EXCEPT ![p] = release[p]]
         /\ TakeUp(r, p, "create")
    /\ UNCHANGED <<release, plugin, compared, bereft, lifecycleFaults>>

\* A manifest, version or platform that does not pass, or a row of that id,
\* ends it here; the directory stays.
InstallCreates(r) ==
    LET p == request[r].plugin IN
    /\ RequestAt(r, "create")
    /\ \/ plugin[p].row /\ GiveUp(r) /\ UNCHANGED <<plugin, lifecycleFaults>>
       \/ LifecycleFault /\ GiveUp(r) /\ UNCHANGED plugin
       \/ /\ ~plugin[p].row
          /\ plugin' = [plugin EXCEPT ![p] = [Registered(directory[p]) EXCEPT !.git = TRUE]]
          /\ GoOn(r, "scan")
          /\ UNCHANGED lifecycleFaults
    /\ UNCHANGED <<release, directory, compared, bereft>>

\* The scan and the checksum only warn when they fail.
InstallRecords(r) ==
    LET p == request[r].plugin IN
    /\ RequestAt(r, "scan")
    /\ \/ plugin[p].row
          /\ plugin' = [plugin EXCEPT ![p].checksum = directory[p]]
          /\ compared' = [compared EXCEPT ![p] = @ \cup {directory[p]}]
          /\ UNCHANGED lifecycleFaults
       \/ ~plugin[p].row /\ UNCHANGED <<plugin, compared, lifecycleFaults>>
       \/ LifecycleFault /\ UNCHANGED <<plugin, compared>>
    /\ GiveUp(r)
    /\ UNCHANGED <<release, directory, bereft>>

-----------------------------------------------------------------------------
(* update() *)

UpdateReads(r) ==
    /\ RequestAt(r, "none")
    /\ \E p \in Plugins : plugin[p].row /\ plugin[p].git /\ TakeUp(r, p, "pull")
    /\ UNCHANGED <<release, directory, plugin, compared, bereft, lifecycleFaults>>

\* git pull, whose failure is only reported; then the manifest.  Another major
\* ends the update, with its files in place.
UpdatePulls(r) ==
    LET p == request[r].plugin IN
    /\ RequestAt(r, "pull")
    /\ \/ directory' = [directory EXCEPT ![p] = release[p]] /\ UNCHANGED lifecycleFaults
       \/ LifecycleFault /\ UNCHANGED directory
    /\ IF Major(directory'[p]) # Major(request[r].was.version) THEN GiveUp(r)
       ELSE request' = [request EXCEPT ![r].pc = "version", ![r].next = directory'[p]]
    /\ UNCHANGED <<release, plugin, compared, bereft>>

\* A row that is gone makes the write throw.
UpdateRenames(r) ==
    LET p == request[r].plugin IN
    /\ RequestAt(r, "version")
    /\ IF plugin[p].row
       THEN /\ plugin' = [plugin EXCEPT ![p].version = request[r].next]
            /\ request' = [request EXCEPT ![r].pc = "audit", ![r].next = directory[p]]
       ELSE GiveUp(r) /\ UNCHANGED plugin
    /\ UNCHANGED <<release, directory, compared, bereft, lifecycleFaults>>

\* The audit entry, if there is an older checksum to differ from; when it
\* cannot be written, the checksum is not written either.
UpdateAudits(r) ==
    LET p == request[r].plugin  old == request[r].was.checksum  new == request[r].next IN
    /\ RequestAt(r, "audit")
    /\ \/ /\ compared' = [compared EXCEPT ![p] = @ \cup {new}]
          /\ GoOn(r, "checksum")
          /\ UNCHANGED lifecycleFaults
       \/ old # 0 /\ old # new /\ LifecycleFault /\ GiveUp(r) /\ UNCHANGED compared
    /\ UNCHANGED <<release, directory, plugin, bereft>>

UpdateRecords(r) ==
    LET p == request[r].plugin IN
    /\ RequestAt(r, "checksum")
    /\ plugin' = IF plugin[p].row THEN [plugin EXCEPT ![p].checksum = request[r].next]
                 ELSE plugin
    /\ GiveUp(r)
    /\ UNCHANGED <<release, directory, compared, bereft, lifecycleFaults>>

-----------------------------------------------------------------------------
(* activate(), deactivate(), remove() *)

\* activate() asks for both lists, _findActiveDependents() looks at one.
MissingFor(p) == {q \in Requires[p] \cup StackRequires[p] : ~plugin[q].active}
DependentsOf(p) == {q \in Plugins : plugin[q].active /\ p \in Requires[q]}

ActivateChecks(r) ==
    /\ RequestAt(r, "none")
    /\ \E p \in Plugins : plugin[p].row /\ MissingFor(p) = {} /\ TakeUp(r, p, "smoke")
    /\ UNCHANGED <<release, directory, plugin, compared, bereft, lifecycleFaults>>

BeingDeactivated == {request[r].plugin : r \in {q \in Requests : RequestAt(q, "off")}}

\* After the smoke test, whose result blocks nothing.
ActivateWrites(r) ==
    LET p == request[r].plugin IN
    /\ RequestAt(r, "smoke")
    /\ plugin' = IF plugin[p].row THEN [plugin EXCEPT ![p].active = TRUE] ELSE plugin
    /\ bereft' = IF MissingFor(p) = {} /\ Requires[p] \cap BeingDeactivated = {}
                 THEN bereft \ {p} ELSE bereft \cup {p}
    /\ GiveUp(r)
    /\ UNCHANGED <<release, directory, compared, lifecycleFaults>>

\* Mutant: deactivate() does not ask who depends on the plugin.
DeactivateUnasked(r) ==
    /\ RequestAt(r, "none")
    /\ \E p \in Plugins : plugin[p].row /\ TakeUp(r, p, "off")
    /\ UNCHANGED <<release, directory, plugin, compared, bereft, lifecycleFaults>>

DeactivateChecks(r) ==
    /\ RequestAt(r, "none")
    /\ \E p \in Plugins : plugin[p].row /\ DependentsOf(p) \ {p} = {} /\ TakeUp(r, p, "off")
    /\ UNCHANGED <<release, directory, plugin, compared, bereft, lifecycleFaults>>

DeactivateWrites(r) ==
    /\ RequestAt(r, "off")
    /\ plugin' = [plugin EXCEPT ![request[r].plugin].active = FALSE]
    /\ GiveUp(r)
    /\ UNCHANGED <<release, directory, compared, bereft, lifecycleFaults>>

\* Nobody is asked, and the directory stays.
RemovePlugin ==
    /\ \E p \in Plugins :
         /\ plugin[p].row
         /\ plugin' = [plugin EXCEPT ![p] = NoPlugin]
         /\ bereft' = (bereft \cup DependentsOf(p)) \ {p}
    /\ UNCHANGED <<release, directory, request, compared, lifecycleFaults>>

-----------------------------------------------------------------------------
(* Environment: a new release, a restart *)

\* Of a plugin outside the image: the others are never cloned nor pulled.
ReleaseComes ==
    /\ \E p \in Plugins \ Bundled : release[p] < MaxRelease /\ release' = [release EXCEPT ![p] = @ + 1]
    /\ UNCHANGED <<directory, plugin, request, compared, bereft, lifecycleFaults>>

\* onApplicationBootstrap(): every directory gets a row, existing rows get its
\* version; the sync may break off in between and the boot goes on.
RestartSyncs ==
    /\ LifecycleFault
    /\ \E synced \in SUBSET {p \in Plugins : directory[p] # 0} :
         plugin' = [p \in Plugins |->
             IF p \notin synced THEN plugin[p]
             ELSE IF plugin[p].row THEN [plugin[p] EXCEPT !.version = directory[p]]
             ELSE Registered(directory[p])]
    /\ request' = [r \in Requests |-> NoRequest]
    /\ UNCHANGED <<release, directory, compared, bereft>>

Serve(r) ==
    \/ InstallClones(r) \/ InstallCreates(r) \/ InstallRecords(r)
    \/ UpdateReads(r) \/ UpdatePulls(r) \/ UpdateRenames(r)
    \/ UpdateAudits(r) \/ UpdateRecords(r)
    \/ ActivateChecks(r) \/ ActivateWrites(r)
    \/ DeactivateChecks(r) \/ DeactivateWrites(r)

LifecycleNext ==
    \/ \E r \in Requests : Serve(r)
    \/ RemovePlugin
    \/ ReleaseComes
    \/ RestartSyncs

LifecycleSpec == LifecycleInit /\ [][LifecycleNext]_lifecycleVars

-----------------------------------------------------------------------------
(* Properties *)

PluginRows ==
    [row : BOOLEAN, active : BOOLEAN, version : 0 .. MaxRelease,
     checksum : 0 .. MaxRelease, git : BOOLEAN]

\* Types of the plugin stores and of the requests under way.
LifecycleTypeOK ==
    /\ {release, directory} \subseteq [Plugins -> 0 .. MaxRelease]
    /\ plugin \in [Plugins -> PluginRows]
    /\ request \in [Requests ->
         [pc : {"none", "create", "scan", "pull", "version", "audit", "checksum", "smoke", "off"},
          plugin : Plugins \cup {"none"}, was : PluginRows, next : 0 .. MaxRelease]]
    /\ compared \in [Plugins -> SUBSET (0 .. MaxRelease)]
    /\ bereft \subseteq Plugins
    /\ lifecycleFaults \in 0 .. MaxLifecycleFaults

\* install() and update(), under any overlap of two of them, a failing audit
\* log or a restart: the checksum of a plugin's row is one that was compared
\* with the checksum before it, and audited when they differ.
ContentChangeIsAudited ==
    \A p \in Plugins : plugin[p].checksum \in compared[p] \cup {0}

\* activate() and deactivate(): a plugin is active without a plugin its manifest
\* requires only if that one was removed, or was being deactivated just then.
RequirementsStay ==
    \A p \in Plugins : plugin[p].active /\ p \notin bereft
                        => \A q \in Requires[p] : plugin[q].active
=============================================================================
