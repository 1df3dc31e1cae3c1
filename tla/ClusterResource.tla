--------------------------- MODULE ClusterResource ---------------------------
(***************************************************************************)
(* The cluster resource controller (pkg/clusterresource/controller.go):    *)
(* every refresh interval Sync goes through the projects, their domains    *)
(* and the template files, and applies each template that is not in its    *)
(* cache to every enabled cluster.                                         *)
(*                                                                         *)
(* Templates, overrides, projects and the configuration change while a     *)
(* Sync is going on, any call may fail, and the process may be restarted.  *)
(* The cache remembers the modification time of a file for a namespace,    *)
(* not for a cluster, and not the values substituted in it.                *)
(***************************************************************************)
EXTENDS Naturals

CONSTANTS Projects,    \* sequence of the projects, the newest first
          Domains,     \* sequence of the configured domains
          Dirs,        \* template directories that may be configured
          Files,       \* names of the .yaml files in each
          Targets,     \* the enabled clusters (GetAllValidTargets)
          MaxChanges,  \* bound: changes made from outside
          MaxFaults,   \* bound: failed calls
          Nothing      \* no value

VARIABLES dir,         \* the configured template directory
          modTime,     \* the modification time of each file
          dataIsGood,  \* the configured template data can be resolved
          defaultsAreGood, \* and the defaults of every domain
          archived,    \* the archived projects
          override,    \* the version of the namespace's saved override values
          applied,     \* appliedTemplates, a time for each namespace and file
          lastAppliedTemplateDir,
          object,      \* what each cluster holds for a namespace and file
          sync,        \* where the running Sync is
          missed,      \* history: clusters a cached template did not reach
          outdated,    \* history: namespaces whose cached templates were
                       \* filled in with other values
          changes,     \* bound: changes so far
          faults       \* bound: faults so far

world == <<dir, modTime, dataIsGood, defaultsAreGood, archived, override>>
cache == <<applied, lastAppliedTemplateDir>>
clusterVars == <<world, cache, object, sync, missed, outdated, changes, faults>>

Range2(s) == {s[i] : i \in DOMAIN s}
\* The template of the namespaces' names tells projects and domains apart, so a
\* name, which is what the cache is keyed by, stands for one of each.
Namespaces == Range2(Projects) \X Range2(Domains)

\* Sync's loop over the projects that are not archived, and their domains: the
\* places of both, and what comes first.
NamespacesToSync == {p \in (DOMAIN Projects) \X (DOMAIN Domains) : Projects[p[1]] \notin archived}
Precedes(p, q) == p[1] < q[1] \/ (p[1] = q[1] /\ p[2] <= q[2])
Namespace(p) == <<Projects[p[1]], Domains[p[2]]>>

NotApplied == [n \in Namespaces |-> [f \in Files |-> 0]]

NotSyncing ==
    [pc |-> "idle", todo |-> {}, templateValues |-> FALSE, domainTemplateValues |-> FALSE,
     namespace |-> Nothing, dir |-> Nothing, values |-> Nothing, listed |-> Nothing, files |-> {},
     file |-> Nothing, manifest |-> Nothing, targets |-> {},
     target |-> Nothing, current |-> Nothing, patch |-> Nothing]

\* A manifest, and an object of a cluster, is a set of fields: one with the
\* contents of the template, one with a variable of it filled in, and one only
\* the template's first version has.  An object that does not exist has none.
Manifest(d, time, values) ==
    [x \in {"spec", "values"} \cup (IF time = 1 THEN {"extra"} ELSE {}) |->
        IF x = "spec" THEN <<d, time>> ELSE IF x = "values" THEN values ELSE Nothing]

NoObject == << >>

Wanted(n, f) == Manifest(dir, modTime[dir][f], override[n])
Agree(o, manifest, fields) ==
    \A x \in fields \cap DOMAIN manifest : x \in DOMAIN o /\ o[x] = manifest[x]

-----------------------------------------------------------------------------
(* Sync.                                                                   *)

\* The values for the configured variables: one that cannot be resolved leaves
\* none at all, and so with the defaults of the domains.
populateTemplateValues == dataIsGood
populateDefaultTemplateValues == defaultsAreGood

\* A failure to list the projects ends it at once.
Sync ==
    /\ sync = NotSyncing
    /\ sync' = [sync EXCEPT !.pc = "namespace", !.todo = NamespacesToSync,
                            !.templateValues = populateTemplateValues,
                            !.domainTemplateValues = populateDefaultTemplateValues]
    /\ UNCHANGED <<world, cache, object, missed, outdated, changes, faults>>

SyncFails ==
    /\ sync = NotSyncing /\ faults < MaxFaults
    /\ faults' = faults + 1
    /\ UNCHANGED <<world, cache, object, sync, missed, outdated, changes>>

SyncEnds ==
    /\ sync.pc = "namespace" /\ sync.todo = {}
    /\ sync' = NotSyncing
    /\ UNCHANGED <<world, cache, object, missed, outdated, changes, faults>>

\* The saved override values over the defaults of the domain.  When they
\* cannot be read the namespace is synced with neither; the defaults of all
\* domains are missing when those of one cannot be resolved.
getCustomTemplateValues(n, fails) ==
    IF fails \/ (override[n] = 0 /\ ~sync.domainTemplateValues) THEN Nothing ELSE override[n]

\* A change of the directory invalidates the cache.
AppliedTemplates == IF lastAppliedTemplateDir # dir THEN NotApplied ELSE applied

\* The override is looked up and the directory listed with the times of its
\* files.
EnterNamespace ==
    /\ sync.pc = "namespace"
    /\ \E p \in sync.todo, fails \in IF faults < MaxFaults THEN BOOLEAN ELSE {FALSE} :
         /\ \A q \in sync.todo : Precedes(p, q)
         /\ sync' = [sync EXCEPT !.pc = "file", !.todo = @ \ {p}, !.namespace = Namespace(p),
                                 !.dir = dir,
                                 !.values = getCustomTemplateValues(Namespace(p), fails),
                                 !.listed = modTime[dir], !.files = Files]
         /\ faults' = IF fails THEN faults + 1 ELSE faults
    /\ applied' = AppliedTemplates
    /\ missed' = IF lastAppliedTemplateDir # dir THEN {} ELSE missed
    /\ outdated' = IF lastAppliedTemplateDir # dir THEN {} ELSE outdated
    /\ lastAppliedTemplateDir' = dir
    /\ UNCHANGED <<world, object, changes>>

Leave == [sync EXCEPT !.pc = "namespace", !.namespace = Nothing, !.dir = Nothing,
                      !.values = Nothing, !.listed = Nothing, !.files = {}]

\* The directory cannot be read: on with the next namespace.
ReadDirFails ==
    /\ sync.pc = "file" /\ sync.files = Files /\ faults < MaxFaults
    /\ faults' = faults + 1
    /\ sync' = Leave
    /\ UNCHANGED <<world, cache, object, missed, outdated, changes>>

VariantAppliedOnce(n, f, time) == applied[n][f] # 0
templateAlreadyApplied(n, f, time) == applied[n][f] = time

SkipFile(f) ==
    /\ sync.pc = "file" /\ f \in sync.files
    /\ templateAlreadyApplied(sync.namespace, f, sync.listed[f])
    /\ sync' = [sync EXCEPT !.files = @ \ {f}]
    /\ UNCHANGED <<world, cache, object, missed, outdated, changes, faults>>

\* The file is read again, and may be newer than the time listed.
createResourceFromTemplate(f) ==
    /\ sync.pc = "file" /\ f \in sync.files /\ sync.templateValues
    /\ ~templateAlreadyApplied(sync.namespace, f, sync.listed[f])
    /\ \/ /\ sync' = [sync EXCEPT !.pc = "target", !.files = @ \ {f}, !.file = f,
                !.manifest = Manifest(sync.dir, modTime[sync.dir][f], sync.values),
                !.targets = Targets]
          /\ UNCHANGED faults
       \/ /\ faults < MaxFaults /\ faults' = faults + 1
          /\ sync' = [sync EXCEPT !.files = @ \ {f}]
    /\ UNCHANGED <<world, cache, object, missed, outdated, changes>>

\* The template data could not be resolved, which leaves a nil map: writing
\* the namespace to it panics, and Sync recovers and returns.
Panics(f) ==
    /\ sync.pc = "file" /\ f \in sync.files /\ ~sync.templateValues
    /\ ~templateAlreadyApplied(sync.namespace, f, sync.listed[f])
    /\ sync' = NotSyncing
    /\ UNCHANGED <<world, cache, object, missed, outdated, changes, faults>>

\* Nothing ever writes the annotation with the last applied configuration.
getLastApplied(o) == << >>

\* The fields of modified that current has not, or has with another value; the
\* fields of the original that modified has not are the ones to delete.
createPatch(current, modified) ==
    [set |-> {x \in DOMAIN modified : x \notin DOMAIN current \/ current[x] # modified[x]},
     delete |-> (DOMAIN getLastApplied(current) \cap DOMAIN current) \ DOMAIN modified]

noChange == [set |-> {}, delete |-> {}]

Patched(o, patch, modified) ==
    [x \in (DOMAIN o \cup patch.set) \ patch.delete |-> IF x \in patch.set THEN modified[x] ELSE o[x]]

\* The modification time to remember.
CachedTime(f) == sync.listed[f]

Applied(t) ==
    LET n == sync.namespace
        f == sync.file
    IN  /\ applied' = [applied EXCEPT ![n][f] = CachedTime(f)]
        /\ missed' = missed \ {<<t, n, f>>}
        /\ outdated' = IF sync.values # override[n] THEN outdated \cup {n} ELSE outdated
        /\ UNCHANGED <<world, lastAppliedTemplateDir, changes, faults>>

\* The object the manifest describes.
prepareDynamicCreate == sync.manifest

CreateObject(t) ==
    /\ sync.pc = "target" /\ t \in sync.targets
    /\ object[t][sync.namespace][sync.file] = NoObject
    /\ object' = [object EXCEPT ![t][sync.namespace][sync.file] = prepareDynamicCreate]
    /\ sync' = [sync EXCEPT !.targets = @ \ {t}]
    /\ Applied(t)

\* The object exists already: it is read, and compared with the manifest.
GetObject(t) ==
    /\ sync.pc = "target" /\ t \in sync.targets
    /\ LET current == object[t][sync.namespace][sync.file]
       IN  /\ current # NoObject
           /\ sync' = [sync EXCEPT !.pc = "patch", !.targets = @ \ {t}, !.target = t,
                          !.current = current,
                          !.patch = createPatch(current, prepareDynamicCreate)]
    /\ UNCHANGED <<world, cache, object, missed, outdated, changes, faults>>

BackToTarget == [sync EXCEPT !.pc = "target", !.target = Nothing, !.current = Nothing,
                             !.patch = Nothing]

Current == object[sync.target][sync.namespace][sync.file]
Reached == IF sync.current = Current
           THEN missed \ {<<sync.target, sync.namespace, sync.file>>}
           ELSE missed \cup {<<sync.target, sync.namespace, sync.file>>}

\* What is not modified is not cached either.
NotModified ==
    /\ sync.pc = "patch" /\ sync.patch = noChange
    /\ sync' = BackToTarget
    /\ missed' = Reached
    /\ UNCHANGED <<world, cache, object, outdated, changes, faults>>

\* The patch names the resource version that was read: the cluster refuses it
\* when the object changed since.
VariantNoResourceVersion == TRUE
addResourceVersion == sync.current = Current

PatchObject ==
    /\ sync.pc = "patch" /\ sync.patch # noChange /\ addResourceVersion
    /\ object' = [object EXCEPT ![sync.target][sync.namespace][sync.file] =
                      Patched(Current, sync.patch, sync.manifest)]
    /\ sync' = BackToTarget
    /\ Applied(sync.target)

PatchRefused ==
    /\ sync.pc = "patch" /\ sync.patch # noChange /\ ~addResourceVersion
    /\ sync' = BackToTarget
    /\ missed' = missed \cup {<<sync.target, sync.namespace, sync.file>>}
    /\ UNCHANGED <<world, cache, object, outdated, changes, faults>>

\* Any of the calls to the cluster fails.
ApplyFails(t) ==
    /\ \/ sync.pc = "target" /\ t \in sync.targets /\ sync' = [sync EXCEPT !.targets = @ \ {t}]
       \/ sync.pc = "patch" /\ t = sync.target /\ sync' = BackToTarget
    /\ faults < MaxFaults /\ faults' = faults + 1
    /\ missed' = missed \cup {<<t, sync.namespace, sync.file>>}
    /\ UNCHANGED <<world, cache, object, outdated, changes>>

FileDone ==
    /\ sync.pc = "target" /\ sync.targets = {}
    /\ sync' = [sync EXCEPT !.pc = "file", !.file = Nothing, !.manifest = Nothing]
    /\ UNCHANGED <<world, cache, object, missed, outdated, changes, faults>>

NamespaceDone ==
    /\ sync.pc = "file" /\ sync.files = {}
    /\ sync' = Leave
    /\ UNCHANGED <<world, cache, object, missed, outdated, changes, faults>>

-----------------------------------------------------------------------------
(* What goes on around it.                                                 *)

Changes == changes < MaxChanges /\ changes' = changes + 1

EditTemplate(f) ==
    /\ Changes
    /\ modTime' = [modTime EXCEPT ![dir][f] = modTime[dir][f] + 1]
    /\ UNCHANGED <<dir, dataIsGood, defaultsAreGood, archived, override, cache, object, sync, missed, outdated, faults>>

\* Only what is not cached yet will be filled in with the new values.
UpdateOverride(n) ==
    /\ Changes
    /\ override' = [override EXCEPT ![n] = @ + 1]
    /\ outdated' = IF \E f \in Files : applied[n][f] # 0 THEN outdated \cup {n} ELSE outdated
    /\ UNCHANGED <<dir, modTime, dataIsGood, defaultsAreGood, archived, cache, object, sync, missed, faults>>

Configure(d, good, defaults) ==
    /\ Changes /\ <<d, good, defaults>> # <<dir, dataIsGood, defaultsAreGood>>
    /\ dir' = d /\ dataIsGood' = good /\ defaultsAreGood' = defaults
    /\ UNCHANGED <<modTime, archived, override, cache, object, sync, missed, outdated, faults>>

\* Somebody else changes an object the controller will not look at again.
EditObject(t, n, f) ==
    /\ Changes
    /\ object[t][n][f] # NoObject
    /\ object' = [object EXCEPT ![t][n][f].spec = Nothing]
    /\ missed' = IF \/ applied[n][f] # 0
                    \/ sync.pc = "target" /\ <<n, f>> = <<sync.namespace, sync.file>> /\ t \notin sync.targets
                    \/ sync.pc = "patch" /\ <<n, f>> = <<sync.namespace, sync.file>>
                       /\ t \notin sync.targets \cup {sync.target}
                 THEN missed \cup {<<t, n, f>>} ELSE missed
    /\ UNCHANGED <<world, cache, sync, outdated, faults>>

UpdateProject(p) ==
    /\ Changes
    /\ archived' = IF p \in archived THEN archived \ {p} ELSE archived \cup {p}
    /\ UNCHANGED <<dir, modTime, dataIsGood, defaultsAreGood, override, cache, object, sync, missed, outdated, faults>>

\* A new process has an empty cache, and applies everything again.
Restart ==
    /\ Changes
    /\ applied' = NotApplied /\ lastAppliedTemplateDir' = Nothing
    /\ sync' = NotSyncing
    /\ missed' = {} /\ outdated' = {}
    /\ UNCHANGED <<world, object, faults>>

-----------------------------------------------------------------------------
ClusterInit ==
    /\ dir \in Dirs
    /\ modTime = [d \in Dirs |-> [f \in Files |-> 1]]
    /\ dataIsGood = TRUE /\ defaultsAreGood = TRUE
    /\ archived = {}
    /\ override = [n \in Namespaces |-> 0]
    /\ applied = NotApplied
    /\ lastAppliedTemplateDir = Nothing
    /\ object = [t \in Targets |-> [n \in Namespaces |-> [f \in Files |-> NoObject]]]
    /\ sync = NotSyncing
    /\ missed = {} /\ outdated = {}
    /\ changes = 0 /\ faults = 0

Step ==
    \/ Sync \/ SyncEnds \/ EnterNamespace \/ FileDone \/ NamespaceDone
    \/ \E f \in Files : SkipFile(f) \/ createResourceFromTemplate(f) \/ Panics(f)
    \/ \E t \in Targets : CreateObject(t) \/ GetObject(t)
    \/ NotModified \/ PatchObject \/ PatchRefused

ClusterNext ==
    \/ Step
    \/ SyncFails \/ ReadDirFails
    \/ \E t \in Targets : ApplyFails(t)
    \/ \E f \in Files : EditTemplate(f)
    \/ \E n \in Namespaces : UpdateOverride(n)
    \/ \E d \in Dirs, good, defaults \in BOOLEAN : Configure(d, good, defaults)
    \/ \E t \in Targets, n \in Namespaces, f \in Files : EditObject(t, n, f)
    \/ \E p \in Range2(Projects) : UpdateProject(p)
    \/ Restart

\* wait.Forever calls Sync again and again, and a Sync does not block: every
\* call it makes returns, with an error perhaps.
ClusterSpec == ClusterInit /\ [][ClusterNext]_clusterVars /\ WF_clusterVars(Step)

-----------------------------------------------------------------------------
\* A template the controller will not apply again, because its cache says it
\* is applied as it is now, is on every cluster as it is now: an edit between
\* the listing and the reading of a file, a change of the directory, a write of
\* somebody else to the object or a failure does not leave the cache ahead of
\* the clusters.  Not so for a cluster the template failed to reach while
\* another took it, nor for values that changed: the cache knows of neither.
CacheIsRight ==
    \A n \in Namespaces, f \in Files, t \in Targets :
        /\ lastAppliedTemplateDir = dir
        /\ applied[n][f] = modTime[dir][f]
        /\ <<t, n, f>> \notin missed
        /\ sync.pc \in {"target", "patch"} => <<n, f>> # <<sync.namespace, sync.file>>
        => Agree(object[t][n][f], Wanted(n, f),
                 IF n \in outdated THEN {"spec", "extra"} ELSE {"spec", "extra", "values"})

\* Every namespace of a project that is not archived comes to hold every
\* template, as it is now and with its values, on every cluster, whatever
\* failed on the way, if the template data can be resolved from some point
\* on.  The exceptions are those of CacheIsRight.
Converges ==
    <>[](dataIsGood /\ defaultsAreGood) =>
        <>[](\A n \in Namespaces, f \in Files, t \in Targets :
                \/ n[1] \in archived
                \/ <<t, n, f>> \in missed
                \/ Agree(object[t][n][f], Wanted(n, f),
                         IF n \in outdated THEN {"spec", "extra"} ELSE {"spec", "extra", "values"}))

=============================================================================
