------------------------------ MODULE Volumes ------------------------------
(***************************************************************************)
(* Host-backed volumes: the named volume of one app, the site volumes, and *)
(* the held volumes that wait for an operator (system/volume_store.rs).    *)
(*                                                                         *)
(* A volume is a directory or a btrfs subvolume, and what is recorded of   *)
(* it is elsewhere: a resource_instances row, a site_volumes row or a      *)
(* meta.json file.  No transaction spans the two.  The reconciler's volume *)
(* phase, its pod phase and the operator's requests change both, a         *)
(* statement at a time, and the daemon may die or a call may fail between  *)
(* any two of them.                                                        *)
(*                                                                         *)
(* Data is a set of tokens, each written once by a container into the      *)
(* directory it has mounted; a mount follows its directory when that is    *)
(* renamed, and outlives it when it is removed.                            *)
(***************************************************************************)
EXTENDS Naturals, FiniteSets

CONSTANTS
  Handlers,      \* concurrent operator requests
  Tick,          \* the reconciler's volume phase
  Sites,         \* site volume names
  Reserved,      \* those of them that start with the backup snapshot prefix
  Tokens,        \* pieces of data; written in increasing order
  MaxHeld,       \* bound on held volume ids
  MaxUpsets,     \* bound on failing calls and restarts of the daemon
  Scenes,        \* what there is at the start and what the operator may ask
  App, Legacy,   \* the app volume's path, and the one earlier builds used
  Confirmed, Strayed, Lost,  \* what became of data that is on disk no more
  None

ASSUME VolumesAssumption ==
  /\ Reserved \subseteq Sites
  /\ Handlers \subseteq Nat /\ Tokens \subseteq Nat
  /\ MaxHeld \in Nat /\ MaxUpsets \in Nat
  \* made: the app is installed and its volume is there; old: it is at its legacy
  \* path; taken: what is under the reserved names
  /\ Scenes \subseteq [phase : {"Installed", "NotInstalled"}, made : BOOLEAN, old : BOOLEAN,
                       taken : {"none", "managed", "snapshot", "left"}, requests : Nat,
                       kinds : SUBSET {"delete_held", "restore", "create", "bind", "delete",
                                       "snapshot", "promote", "update", "uninstall",
                                       "install"}]

\* The places, the fates of data and the processes are told apart.
ASSUME PlacesAssumption ==
  /\ Tick \notin Nat /\ Sites \cap Nat = {}
  /\ {App, Legacy, Confirmed, Strayed, Lost, None} \cap (Sites \cup Nat) = {}
  /\ App \notin {Legacy, Confirmed, Strayed, Lost, None}
  /\ Legacy \notin {Confirmed, Strayed, Lost, None}
  /\ Confirmed \notin {Strayed, Lost, None} /\ Strayed \notin {Lost, None} /\ Lost # None
  /\ None \notin {"delete_held", "restore", "create", "bind", "delete", "snapshot", "promote",
                  "update", "managed", "recreate", "stop", "displace", "Ready", "Unscheduled"}
  /\ None \notin [sub : BOOLEAN, ro : BOOLEAN, nested : {"none", "ro", "rw"}]

VARIABLES
  disk,      \* what is at each place under volumes/ and held-volumes/
  at,        \* where each token is
  mount,     \* where the directory is that each container has mounted
  meta,      \* held ids with a meta.json
  used,      \* held ids generated so far
  row,       \* site_volumes: the kind recorded for each name
  inst,      \* the app volume has its resource_instances row
  declared,  \* the app's definition has the volume
  phase,     \* the app's phase
  btrfs,     \* VolumeStore.use_btrfs
  job,       \* where each process is: the handlers and the tick's volume phase
  tick,      \* the tick: the phase it saw, its pod phase
  scene,
  asked, upsets,  \* requests made, failures and restarts so far
  raced,     \* two requests about one name or id have overlapped
  torn       \* a request or a hold was cut short after its first effect

store == <<disk, at, mount, meta, used>>
app == <<inst, declared, phase>>
ghosts == <<raced, torn>>
bounds == <<scene, asked, upsets>>
vars == <<disk, at, mount, meta, used, row, inst, declared, phase, btrfs,
          job, tick, scene, asked, upsets, raced, torn>>

Held == 1..MaxHeld
Places == {App, Legacy} \cup Sites \cup Held
Gone == {Confirmed, Strayed, Lost}
Procs == Handlers \cup {Tick}
\* A container of the app, and one of another app that a managed site volume is
\* mapped to.
Pods == {"own", "other"}
Dirs == [sub : BOOLEAN, ro : BOOLEAN, nested : {"none", "ro", "rw"}]

Plain == [sub |-> FALSE, ro |-> FALSE, nested |-> "none"]
Snapshot == [sub |-> TRUE, ro |-> TRUE, nested |-> "none"]
Idle == [pc |-> "idle", kind |-> None, site |-> None, src |-> None, id |-> None]

Exists(p) == disk[p] # None
Empty(p) == disk[p].nested = "none" /\ \A t \in Tokens : at[t] # p

-----------------------------------------------------------------------------
(* What the file system and the btrfs command do. *)

\* create and create_site: create_dir_all accepts a directory that is there,
\* btrfs subvolume create refuses it.
Create(p) ==
  IF Exists(p) THEN disk' = disk
  ELSE disk' = [disk EXCEPT ![p] = [Plain EXCEPT !.sub = btrfs]]
CanCreate(p) == btrfs => ~Exists(p)

\* rename of a directory: a read-only subvolume cannot move, and only an empty
\* plain directory may be in the way.  The mount moves along.
CanRename(from, to) ==
  /\ Exists(from) /\ ~disk[from].ro
  /\ Exists(to) => Empty(to) /\ ~disk[to].sub
Rename(from, to) ==
  /\ disk' = [disk EXCEPT ![to] = disk[from], ![from] = None]
  /\ at' = [t \in Tokens |-> IF at[t] = from THEN to ELSE at[t]]
  /\ mount' = [c \in Pods |-> IF mount[c] = from THEN to
                              ELSE IF mount[c] = to THEN Strayed ELSE mount[c]]

\* The two ways of removing a directory: a subvolume with another one inside
\* cannot be deleted, and remove_dir_all stops at a read-only one after having
\* removed any of the rest.
CanRemove(p) == disk[p].nested = "none" \/ (~disk[p].sub /\ disk[p].nested = "rw")
Remove(p, fate) ==
  /\ disk' = [disk EXCEPT ![p] = None]
  /\ at' = [t \in Tokens |-> IF at[t] = p THEN fate ELSE at[t]]
  /\ mount' = [c \in Pods |-> IF mount[c] = p THEN fate ELSE mount[c]]
RemovePart(p, fate) ==
  /\ \E gone \in SUBSET {t \in Tokens : at[t] = p} :
       /\ disk[p].sub => gone = {}
       /\ at' = [t \in Tokens |-> IF t \in gone THEN fate ELSE at[t]]
  /\ UNCHANGED <<disk, mount>>

\* btrfs subvolume snapshot: into a directory that is there it nests.
CanSnapshot(from, to) ==
  /\ btrfs /\ Exists(from) /\ disk[from].sub
  /\ Exists(to) => ~disk[to].ro
TakeSnapshot(from, to, readonly) ==
  disk' = [disk EXCEPT ![to] =
             IF ~Exists(to) THEN [Snapshot EXCEPT !.ro = readonly]
             ELSE [disk[to] EXCEPT !.nested =
                     IF readonly \/ disk[to].nested = "ro" THEN "ro" ELSE "rw"]]

-----------------------------------------------------------------------------
(* Control. *)

Goto(p, pc) == job' = [job EXCEPT ![p].pc = pc]
\* A handler answers; the tick's volume phase is over.
End(p) == IF p = Tick THEN Goto(p, "done") ELSE job' = [job EXCEPT ![p] = Idle]
At(p, pc) == job[p].pc = pc
AtOf(p, pc, kind) == At(p, pc) /\ job[p].kind = kind

\* The places a process is working on, and the ones nobody is.
Touched(p) == {job[p].site, job[p].src, job[p].id} \ {None}
Quiet(x) == \A p \in Procs : x \notin Touched(p)

\* Steps that follow a first effect: ending there leaves the work half done.
Halfway == {"meta", "rm_meta", "restored", "insert", "unrow"}

Init ==
  /\ scene \in Scenes
  /\ btrfs \in BOOLEAN
  /\ LET made == [Plain EXCEPT !.sub = btrfs] IN
     disk = [p \in Places |->
       CASE p = App /\ scene.made -> made
         [] p = Legacy /\ scene.old -> Plain
         [] p \in Reserved /\ scene.taken = "managed" -> made
         [] p \in Reserved /\ scene.taken \in {"snapshot", "left"} -> Snapshot
         [] OTHER -> None]
  /\ row = [s \in Sites |-> IF s \in Reserved /\ scene.taken \in {"managed", "snapshot"}
                            THEN scene.taken ELSE None]
  /\ \E p \in {None} \cup {q \in Places : disk[q] # None /\ ~disk[q].ro} :
       at = [t \in Tokens |-> IF \A u \in Tokens : t <= u THEN p ELSE None]
  /\ phase = scene.phase /\ inst = scene.made
  /\ mount = [c \in Pods |-> None] /\ meta = {} /\ used = 0
  /\ declared = TRUE
  /\ job = [p \in Procs |-> Idle]
  /\ tick = [phase |-> None, pod |-> "done"]
  /\ asked = 0 /\ upsets = 0
  /\ raced = FALSE /\ torn = FALSE

-----------------------------------------------------------------------------
(* Holding a volume: hold_inner, called for the site volume an operator deletes, *)
(* for the app volume a definition drops, and by the tick's volume phase.        *)

HoldSource(p) == IF job[p].kind = "delete" THEN job[p].site ELSE App

AfterHold(p) ==
  CASE job[p].kind = "delete" -> "unrow"
    [] job[p].kind = "update" -> "forget"
    [] job[p].kind = "recreate" -> "migrate"
    [] job[p].kind = "displace" -> "mv"
    [] OTHER -> "done"

\* Faulty form: delete_site_volume goes on when the hold failed.
OnErrorUnrow(p) ==
  CASE job[p].kind = "update" -> Goto(p, "forget")
    [] job[p].kind = "delete" -> Goto(p, "unrow")
    [] OTHER -> End(p)
\* hold_removed_volumes logs a failure and goes on; the others give up.
OnError(p) == IF job[p].kind = "update" THEN Goto(p, "forget") ELSE End(p)

HoldAbsent(p) ==
  /\ At(p, "hold") /\ ~Exists(HoldSource(p))
  \* the actuator looks whether there is anything to hold before it asks
  /\ IF job[p].kind \in {"recreate", "stop"} THEN Goto(p, AfterHold(p)) ELSE OnError(p)
  /\ UNCHANGED <<disk, at, mount, meta, used, row, app, btrfs, tick, bounds, ghosts>>

HoldRename(p) ==
  /\ At(p, "hold") /\ Exists(HoldSource(p)) /\ used < MaxHeld
  /\ IF CanRename(HoldSource(p), used + 1)
     THEN /\ Rename(HoldSource(p), used + 1)
          /\ used' = used + 1
          /\ job' = [job EXCEPT ![p].pc = "meta", ![p].id = used + 1]
     ELSE OnError(p) /\ UNCHANGED <<disk, at, mount, used>>
  /\ UNCHANGED <<meta, row, app, btrfs, tick, bounds, ghosts>>

HoldMeta(p) ==
  /\ At(p, "meta")
  /\ meta' = meta \cup {job[p].id}
  /\ job' = [job EXCEPT ![p].pc = AfterHold(p), ![p].id = None]
  /\ UNCHANGED <<disk, at, mount, used, row, app, btrfs, tick, bounds, ghosts>>

-----------------------------------------------------------------------------
(* The operator's requests. *)

\* A request arrives.  An id may be any that was generated, a name any.
Ask(h) ==
  /\ At(h, "idle") /\ \A g \in Handlers : g < h => ~At(g, "idle")
  /\ asked < scene.requests
  /\ \E k \in scene.kinds, s \in Sites \cup {None}, o \in Sites \cup {App, None}, i \in 0..used :
       /\ (k \in {"restore", "create", "bind", "delete", "snapshot", "promote"}) = (s # None)
       /\ (k \in {"snapshot", "promote"}) = (o # None) /\ (k = "promote" => o # App)
       /\ (k \in {"delete_held", "restore"}) = (i # 0)
       \* check_site_volume_name
       /\ k \in {"restore", "create", "bind", "snapshot", "promote"} => s \notin Reserved
       /\ k \notin {"uninstall", "install"}
       /\ LET mine == {s, o, i} \ {None, 0, App} IN
          raced' = (raced \/ ~(\A x \in mine : Quiet(x)))
       /\ job' = [job EXCEPT ![h] =
            [pc |-> CASE k = "delete_held" -> "rm_held"
                      [] k = "restore" -> "vacant"
                      [] k = "create" -> "storage"
                      [] k = "bind" -> "insert"
                      [] k \in {"delete", "promote"} -> "look"
                      [] k = "snapshot" -> "resolve"
                      [] k = "update" -> "define",
             kind |-> k, site |-> s, src |-> o, id |-> IF i = 0 THEN None ELSE i]]
  /\ asked' = asked + 1
  /\ UNCHANGED <<store, row, app, btrfs, tick, scene, upsets, torn>>

\* confirm_delete_held: the data, then the record.
DeleteHeld(h) ==
  /\ At(h, "rm_held")
  /\ LET i == job[h].id IN
     CASE i \notin meta -> End(h) /\ UNCHANGED <<disk, at, mount>>
       [] i \in meta /\ ~Exists(i) -> Goto(h, "rm_meta") /\ UNCHANGED <<disk, at, mount>>
       [] i \in meta /\ Exists(i) /\ CanRemove(i) -> Remove(i, Confirmed) /\ Goto(h, "rm_meta")
       [] OTHER -> RemovePart(i, Confirmed) /\ End(h)
  /\ UNCHANGED <<meta, used, row, app, btrfs, tick, bounds, ghosts>>

DeleteMeta(h) ==
  /\ At(h, "rm_meta")
  /\ meta' = meta \ {job[h].id}
  /\ End(h)
  /\ UNCHANGED <<disk, at, mount, used, row, app, btrfs, tick, bounds, ghosts>>

\* restore_held: the name must be free in site_volumes, then on disk.
RestoreVacant(h) ==
  /\ At(h, "vacant")
  /\ IF job[h].id \in meta /\ row[job[h].site] = None THEN Goto(h, "restore") ELSE End(h)
  /\ UNCHANGED <<store, row, app, btrfs, tick, bounds, ghosts>>

RestoreCheck(h) ==
  /\ At(h, "restore")
  /\ IF job[h].id \in meta /\ Exists(job[h].id) /\ ~Exists(job[h].site)
     THEN Goto(h, "move") ELSE End(h)
  /\ UNCHANGED <<store, row, app, btrfs, tick, bounds, ghosts>>

RestoreMove(h) ==
  /\ At(h, "move")
  /\ IF CanRename(job[h].id, job[h].site)
     THEN Rename(job[h].id, job[h].site) /\ Goto(h, "restored")
     ELSE End(h) /\ UNCHANGED <<disk, at, mount>>
  /\ UNCHANGED <<meta, used, row, app, btrfs, tick, bounds, ghosts>>

\* remove_file: an error when the file is gone, and then there is no row.
RestoreMeta(h) ==
  /\ At(h, "restored")
  /\ IF job[h].id \in meta THEN Goto(h, "insert") ELSE End(h)
  /\ meta' = meta \ {job[h].id}
  /\ UNCHANGED <<disk, at, mount, used, row, app, btrfs, tick, bounds, ghosts>>

\* create_site_volume: the storage of a managed volume is made before its row,
\* and without a look at the rows.
CreateStorage(h) ==
  /\ At(h, "storage")
  /\ IF CanCreate(job[h].site) THEN Create(job[h].site) /\ Goto(h, "insert")
                               ELSE End(h) /\ UNCHANGED disk
  /\ UNCHANGED <<at, mount, meta, used, row, app, btrfs, tick, bounds, ghosts>>

\* site_volumes::create, the last statement of every request that makes a site
\* volume: the name is the primary key.
Insert(h) ==
  /\ At(h, "insert")
  /\ row' = IF row[job[h].site] # None THEN row
            ELSE [row EXCEPT ![job[h].site] =
                    CASE job[h].kind = "bind" -> "bind"
                      [] job[h].kind = "snapshot" -> "snapshot"
                      [] OTHER -> "managed"]
  /\ End(h)
  /\ UNCHANGED <<store, app, btrfs, tick, bounds, ghosts>>

\* delete_site_volume: the kind it reads decides what happens to the directory.
DeleteLook(h) ==
  /\ AtOf(h, "look", "delete")
  /\ CASE row[job[h].site] = "managed" -> Goto(h, "hold")
       [] row[job[h].site] = "snapshot" -> Goto(h, "rm_site")
       [] row[job[h].site] = "bind" -> Goto(h, "unrow")
       [] OTHER -> End(h)
  /\ UNCHANGED <<store, row, app, btrfs, tick, bounds, ghosts>>

DeleteSnapshot(h) ==
  /\ At(h, "rm_site")
  /\ LET s == job[h].site IN
     CASE ~Exists(s) -> Goto(h, "unrow") /\ UNCHANGED <<disk, at, mount>>
       [] Exists(s) /\ CanRemove(s) -> Remove(s, Strayed) /\ Goto(h, "unrow")
       [] OTHER -> RemovePart(s, Strayed) /\ End(h)
  /\ UNCHANGED <<meta, used, row, app, btrfs, tick, bounds, ghosts>>

DeleteRow(h) ==
  /\ At(h, "unrow")
  /\ row' = [row EXCEPT ![job[h].site] = None]
  /\ End(h)
  /\ UNCHANGED <<store, app, btrfs, tick, bounds, ghosts>>

\* snapshot_site_volume: an app's volume is looked up among the instances, a site
\* volume is taken by its name.
SnapshotResolve(h) ==
  /\ At(h, "resolve")
  /\ IF job[h].src = App => inst THEN Goto(h, "snap") ELSE End(h)
  /\ UNCHANGED <<store, row, app, btrfs, tick, bounds, ghosts>>

PromoteLook(h) ==
  /\ AtOf(h, "look", "promote")
  /\ IF row[job[h].src] = "snapshot" THEN Goto(h, "snap") ELSE End(h)
  /\ UNCHANGED <<store, row, app, btrfs, tick, bounds, ghosts>>

\* snapshot_site and promote_site_snapshot.
Snap(h) ==
  /\ At(h, "snap")
  /\ \/ /\ CanSnapshot(job[h].src, job[h].site)
        /\ TakeSnapshot(job[h].src, job[h].site, job[h].kind = "snapshot")
        /\ Goto(h, "insert")
     \* a second one of the same source does not nest
     \/ /\ CanSnapshot(job[h].src, job[h].site) =>
              Exists(job[h].site) /\ disk[job[h].site].nested # "none"
        /\ End(h) /\ UNCHANGED disk
  /\ UNCHANGED <<at, mount, meta, used, row, app, btrfs, tick, bounds, ghosts>>

\* update_app, as far as volumes go: the definition, then hold_removed_volumes.
UpdateDefine(h) ==
  /\ At(h, "define")
  /\ declared' = ~declared
  /\ IF declared /\ inst THEN Goto(h, "hold") ELSE End(h)
  /\ UNCHANGED <<store, row, inst, phase, btrfs, tick, bounds, ghosts>>

UpdateForget(h) ==
  /\ At(h, "forget")
  /\ inst' = FALSE
  /\ End(h)
  /\ UNCHANGED <<store, row, declared, phase, btrfs, tick, bounds, ghosts>>

\* The requests that only set the phase the next tick reads.
Switch ==
  /\ asked < scene.requests /\ asked' = asked + 1
  /\ \/ "install" \in scene.kinds /\ phase = "NotInstalled" /\ phase' = "Installed"
     \/ "uninstall" \in scene.kinds /\ phase = "Installed" /\ phase' = "Uninstalling"
  /\ UNCHANGED <<store, row, inst, declared, btrfs, job, tick, scene, upsets, ghosts>>

-----------------------------------------------------------------------------
(* The reconciler: the volume phase, a process of its own, beside the pod phase. *)

\* What the tick wants is computed once, from the phase and the definition it
\* finds at its start; get_or_create_singleton records the instance.
TickStart ==
  /\ At(Tick, "idle") /\ phase # "NotInstalled"
  /\ LET want == IF ~declared \/ (phase = "Uninstalling" /\ ~inst) THEN None
                 ELSE IF phase = "Uninstalling" THEN "Unscheduled" ELSE "Ready" IN
     job' = [job EXCEPT ![Tick].pc = IF want = None THEN "done" ELSE "observe",
                        ![Tick].kind = want]
  /\ tick' = [phase |-> phase,
              pod |-> IF phase = "Uninstalling" THEN "drain"
                      ELSE IF mount["own"] = None THEN "ensure" ELSE "done"]
  /\ inst' = (inst \/ (declared /\ phase = "Installed"))
  /\ UNCHANGED <<store, row, declared, phase, btrfs, bounds, ghosts>>

\* Faulty form: a directory of the other backend is taken for the volume.
ObserveAny ==
  /\ At(Tick, "observe")
  /\ CASE job[Tick].kind = "Ready" /\ ~Exists(App) -> Goto(Tick, "migrate")
       [] job[Tick].kind = "Unscheduled" /\ Exists(App) ->
            job' = [job EXCEPT ![Tick].pc = "hold", ![Tick].kind = "stop"]
       [] OTHER -> End(Tick)
  /\ UNCHANGED <<store, row, app, btrfs, tick, bounds, ghosts>>
\* process_one_volume: observe, then choose.
Observe ==
  /\ At(Tick, "observe")
  /\ LET mismatch == Exists(App) /\ disk[App].sub # btrfs
         step(pc, kind) == job' = [job EXCEPT ![Tick].pc = pc, ![Tick].kind = kind] IN
     CASE job[Tick].kind = "Ready" /\ mismatch -> step("hold", "recreate")
       [] job[Tick].kind = "Ready" /\ ~Exists(App) -> step("migrate", "Ready")
       [] job[Tick].kind = "Unscheduled" /\ Exists(App) -> step("hold", "stop")
       [] OTHER -> End(Tick)
  /\ UNCHANGED <<store, row, app, btrfs, tick, bounds, ghosts>>

\* migrate_legacy: look, clear the canonical path, rename.
Migrate ==
  /\ At(Tick, "migrate")
  /\ CASE ~Exists(Legacy) -> Goto(Tick, "create")
       [] Exists(Legacy) /\ ~Exists(App) -> Goto(Tick, "mv")
       [] Exists(Legacy) /\ Exists(App) /\ Empty(App) -> Goto(Tick, "rm")
       [] OTHER -> job' = [job EXCEPT ![Tick].pc = "hold", ![Tick].kind = "displace"]
  /\ UNCHANGED <<store, row, app, btrfs, tick, bounds, ghosts>>

MigrateClear ==
  /\ At(Tick, "rm")
  /\ IF Exists(App) THEN Remove(App, Strayed) ELSE UNCHANGED <<disk, at, mount>>
  /\ Goto(Tick, "mv")
  /\ UNCHANGED <<meta, used, row, app, btrfs, tick, bounds, ghosts>>

MigrateMove ==
  /\ At(Tick, "mv")
  /\ IF CanRename(Legacy, App) THEN Rename(Legacy, App) /\ Goto(Tick, "create")
                                   ELSE End(Tick) /\ UNCHANGED <<disk, at, mount>>
  /\ UNCHANGED <<meta, used, row, app, btrfs, tick, bounds, ghosts>>

\* start_volume, after the migration.
CreateApp ==
  /\ At(Tick, "create")
  /\ IF Exists(App) THEN UNCHANGED disk ELSE Create(App)
  /\ End(Tick)
  /\ UNCHANGED <<at, mount, meta, used, row, app, btrfs, tick, bounds, ghosts>>

\* ensure_volumes, for the pod a tick starts; a tick may have none to start.
PodEnsure ==
  /\ tick.pod = "ensure"
  /\ \/ tick' = [tick EXCEPT !.pod = "done"] /\ UNCHANGED disk
     \/ /\ job[Tick].kind # None
        /\ IF Exists(App) THEN UNCHANGED disk ELSE Create(App)
        /\ tick' = [tick EXCEPT !.pod = "start"]
  /\ UNCHANGED <<at, mount, meta, used, row, app, btrfs, job, bounds, ghosts>>

\* The container starts with the directory that is at the path by then.
PodStart ==
  /\ tick.pod = "start"
  /\ mount' = [mount EXCEPT !["own"] = IF Exists(App) THEN App ELSE None]
  /\ tick' = [tick EXCEPT !.pod = "done"]
  /\ UNCHANGED <<disk, at, meta, used, row, app, btrfs, job, bounds, ghosts>>

PodDrain ==
  /\ tick.pod = "drain"
  /\ mount' = [mount EXCEPT !["own"] = None]
  /\ tick' = [tick EXCEPT !.pod = "done"]
  /\ UNCHANGED <<disk, at, meta, used, row, app, btrfs, job, bounds, ghosts>>

\* The end of a tick: run_uninstall_phase forgets an app without running pods,
\* whatever became of its volume.
TickEnd ==
  /\ At(Tick, "done") /\ tick.pod = "done"
  /\ IF tick.phase = "Uninstalling" /\ mount["own"] = None
     THEN phase' = "NotInstalled" /\ inst' = FALSE
     ELSE UNCHANGED <<phase, inst>>
  /\ job' = [job EXCEPT ![Tick] = Idle]
  /\ UNCHANGED <<store, row, declared, btrfs, tick, bounds, ghosts>>

-----------------------------------------------------------------------------
(* Containers, failures, restarts. *)

SiteMount ==
  /\ mount["other"] = None
  /\ \E s \in Sites : row[s] = "managed" /\ Exists(s) /\ mount' = [mount EXCEPT !["other"] = s]
  /\ UNCHANGED <<disk, at, meta, used, row, app, btrfs, job, tick, bounds, ghosts>>

Write(c) ==
  /\ mount[c] # None /\ (mount[c] \in Places => ~disk[mount[c]].ro)
  /\ \E t \in Tokens :
       /\ at[t] = None /\ \A u \in Tokens : u < t => at[u] # None
       /\ at' = [at EXCEPT ![t] = mount[c]]
  /\ UNCHANGED <<disk, mount, meta, used, row, app, btrfs, job, tick, bounds, ghosts>>

PodExit(c) ==
  /\ mount[c] # None /\ mount' = [mount EXCEPT ![c] = None]
  /\ UNCHANGED <<disk, at, meta, used, row, app, btrfs, job, tick, bounds, ghosts>>

\* A call fails without an effect, and the process takes its error path.
Fail(p) ==
  /\ upsets < MaxUpsets /\ upsets' = upsets + 1
  /\ job[p].pc \notin {"idle", "done", "define"}
  /\ IF job[p].pc \in {"hold", "meta"} THEN OnError(p) ELSE End(p)
  /\ torn' = (torn \/ job[p].pc \in Halfway)
  /\ UNCHANGED <<store, row, app, btrfs, tick, scene, asked, raced>>

\* Faulty form: the prefix alone says that storage is left over.
SweptByName == {s \in Reserved : Exists(s) /\ CanRemove(s)}
\* leftover_snapshots::sweep: storage under the reserved prefix without a row.
Swept == {s \in Reserved : Exists(s) /\ row[s] = None /\ CanRemove(s)}

\* The daemon dies and starts again, with or without --without-btrfs; its
\* containers stay.
Restart ==
  /\ upsets < MaxUpsets /\ upsets' = upsets + 1
  /\ btrfs' \in BOOLEAN
  /\ disk' = [p \in Places |-> IF p \in Swept THEN None ELSE disk[p]]
  /\ at' = [t \in Tokens |-> IF at[t] \in Swept THEN Lost ELSE at[t]]
  /\ mount' = [c \in Pods |-> IF mount[c] \in Swept THEN Lost ELSE mount[c]]
  /\ torn' = (torn \/ \E p \in Procs : job[p].pc \in Halfway)
  /\ job' = [p \in Procs |-> Idle]
  /\ tick' = [phase |-> None, pod |-> "done"]
  /\ UNCHANGED <<meta, used, row, app, scene, asked, raced>>

-----------------------------------------------------------------------------

HandlerStep(h) ==
  \/ DeleteHeld(h) \/ DeleteMeta(h)
  \/ RestoreVacant(h) \/ RestoreCheck(h) \/ RestoreMove(h) \/ RestoreMeta(h)
  \/ CreateStorage(h) \/ Insert(h)
  \/ DeleteLook(h) \/ DeleteSnapshot(h) \/ DeleteRow(h)
  \/ SnapshotResolve(h) \/ PromoteLook(h) \/ Snap(h)
  \/ UpdateDefine(h) \/ UpdateForget(h)

HoldStep(p) == HoldAbsent(p) \/ HoldRename(p) \/ HoldMeta(p)

VolumePhase ==
  TickStart \/ Observe \/ Migrate \/ MigrateClear \/ MigrateMove \/ CreateApp \/ TickEnd
PodPhase == PodEnsure \/ PodStart \/ PodDrain

Next ==
  \/ \E h \in Handlers : Ask(h) \/ HandlerStep(h)
  \/ \E p \in Procs : HoldStep(p) \/ Fail(p)
  \/ Switch \/ VolumePhase \/ PodPhase
  \/ SiteMount \/ (\E c \in Pods : Write(c) \/ PodExit(c))
  \/ Restart

Spec == Init /\ [][Next]_vars

FairSpec ==
  /\ Spec
  /\ WF_vars(VolumePhase \/ HoldStep(Tick)) /\ WF_vars(PodPhase)
  /\ \A h \in Handlers : WF_vars(HandlerStep(h) \/ HoldStep(h))

-----------------------------------------------------------------------------
(* Properties *)

\* Every variable has its type.
TypeOK ==
  /\ disk \in [Places -> Dirs \cup {None}]
  /\ at \in [Tokens -> Places \cup Gone \cup {None}]
  /\ mount \in [Pods -> Places \cup Gone \cup {None}]
  /\ meta \subseteq 1..used /\ used \in 0..MaxHeld
  /\ row \in [Sites -> {None, "managed", "bind", "snapshot"}]
  /\ inst \in BOOLEAN /\ declared \in BOOLEAN /\ btrfs \in BOOLEAN
  /\ phase \in {"Installed", "Uninstalling", "NotInstalled"}
  /\ \A p \in Procs : job[p].id \in Held \cup {None} /\ job[p].site \in Sites \cup {None}
  /\ tick.pod \in {"ensure", "start", "drain", "done"}
  /\ raced \in BOOLEAN /\ torn \in BOOLEAN

\* Whatever two operators, the reconciler, a failing call or a restart do to a
\* volume, what containers wrote is removed when the operator confirms it and in
\* two more cases, which the model names apart: the canonical directory that a
\* pod mounted while migrate_legacy took it for empty, and a directory under a
\* name whose row said "snapshot" (actuate.volume.hold, hold.confirm).
NoDataLost == \A t \in Tokens : at[t] # Lost

\* When requests about one name did not overlap and none was cut short after its
\* first effect, what is on disk and what is recorded agree, however requests,
\* ticks, failed calls and restarts interleave: a held directory is listed and a
\* listed one is there, a recorded volume has its storage, and data under a site
\* name belongs to a managed volume, so that nothing strays.
Listed ==
  ~raced /\ ~torn =>
    /\ \A i \in Held : Quiet(i) => (Exists(i) <=> i \in meta)
    /\ scene.old \/ \A t \in Tokens : at[t] # Strayed
    /\ \A s \in Sites : Quiet(s) =>
         /\ row[s] \in {"managed", "snapshot"} => Exists(s)
         /\ (\E t \in Tokens : at[t] = s) => row[s] = "managed"

\* An installed app whose definition has the volume gets it, on the storage the
\* daemon uses, whatever was at its path before (actuate.volume.start, hold).
Wanted == phase = "Installed" /\ declared
ComesUp == Wanted ~> (~Wanted \/ (Exists(App) /\ disk[App].sub = btrfs))
=============================================================================
