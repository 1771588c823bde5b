----------------------------- MODULE Operations -----------------------------
(***************************************************************************)
(* The life of a lifecycle operation on one Seedling node: operator        *)
(* requests (handlers), the scheduler slot, the driver task that runs the  *)
(* accepted operation, the app phases in memory and in the database, the   *)
(* durable current_operation row, and a daemon that may die at any step    *)
(* and recovers from the database.                                         *)
(*                                                                         *)
(* Concurrency.  A handler runs on its own thread and shares only locks    *)
(* and the database thread with the others, so each of its critical        *)
(* sections is one step here and other actors run in between.  The driver  *)
(* is one tokio task; the reconciler another.  The registry's RwLock is    *)
(* kept (RegistryFree); an uninstall or a teardown writes the phase        *)
(* through the entry's own mutex and does not wait for it.                 *)
(*                                                                         *)
(* Abstracted: what a closure does (a pass suspends, ends or panics),      *)
(* params and generations (an operation carries neither), event            *)
(* broadcasts.  SQLite statements are taken to succeed.  An entry and its  *)
(* successor under the same name are not told apart.                       *)
(***************************************************************************)
EXTENDS Scheduler, FiniteSets

CONSTANTS
  Handlers,    \* request handler threads
  Requests,    \* which requests operators send
  Direct,      \* apps whose definition has no install action
  Lookalikes,  \* apps under whose name (seedling-{app}- is not prefix-free) a
               \* unit may be loaded that no record of theirs accounts for
  InitPhases,  \* phases an app may be in when the daemon is first seen
  Aborts,      \* may a driver end without touching its row? (panic, unopenable
               \* database, script that no longer compiles)
  BadParams,   \* may the persisted params fail to decrypt at replay?
  MaxOps,      \* bound: operation ids handed out
  MaxCrashes   \* bound: daemon deaths

Phases == {"NotInstalled", "Installing", "Installed", "Uninstalling"}
MaybePhase == Phases \cup {"Absent"}   \* "Absent": not registered

RequestKinds == {"action", "install", "param", "cancel", "uninstall",
                 "deregister", "register"}

ASSUME ConstAssumption ==
  /\ Direct \subseteq Apps /\ Lookalikes \subseteq Apps
  /\ Requests \subseteq RequestKinds
  /\ InitPhases \subseteq {"Absent", "NotInstalled", "Installed"}
  /\ Aborts \in BOOLEAN /\ BadParams \in BOOLEAN
  /\ MaxOps \in Nat /\ MaxCrashes \in Nat

VARIABLES
  phase,      \* AppRegistry: phase of every entry (memory)
  stored,     \* registered_apps: the phase columns of every loadable row
  row,        \* current_operation: the singleton row, with cancel_requested
  inst,       \* apps that own actuated resource_instances rows
  faults,     \* active operation and teardown faults of each app
  pc, op, ok, val,  \* the driver task: place, operation, result, phase read
  hs,         \* the handler threads
  snap,       \* apps the running reconcile tick saw as Uninstalling
  boot,       \* where the daemon is in its start-up
  bootApp,    \* persisted_op_app: app of the row found at start-up
  nextId,     \* OperationId::new()
  ended,      \* history: operations whose driver has their result
  acked,      \* history: operations whose cancel was answered with success
  flagged,    \* history: of those, the ones whose row was there to flag
  tornDown,   \* history: apps somebody uninstalled, or unstuck by a cancel
  crashes     \* bound only

driverVars == <<pc, op, ok, val>>
dbVars     == <<stored, row, inst, faults>>
bootVars   == <<boot, bootApp, crashes>>
histVars   == <<ended, acked, flagged, tornDown>>
vars == <<schedVars, phase, dbVars, driverVars, hs, snap, bootVars, nextId, histVars>>

Row == [id : Nat, app : Apps, kind : Kinds, cancel : BOOLEAN]

\* The empty table is not one of its rows.
ASSUME RowAssumption == None \notin Row

FaultKinds == {"operation_failed", "operation_cancelled", "install_interrupted",
               "uninstall_unidentifiable_units"}

DriverPc == {"idle", "lookup", "begin", "extract1", "write1", "start", "run",
             "cleanup", "extract2", "write2", "release"}

HandlerPc == {"idle", "request", "spawn", "direct", "onChange", "flag", "stuck", "unstick",
              "extract", "write", "uninstall", "deregCheck", "deregDb",
              "deregMem", "register", "insert"}

Handler == [pc : HandlerPc, app : Apps \cup {None},
            op : Operation \cup {None}, val : MaybePhase]

IdleHandler == [pc |-> "idle", app |-> None, op |-> None, val |-> "Absent"]

Init ==
  /\ SchedInit
  /\ stored \in [Apps -> InitPhases]
  /\ phase = stored
  /\ row = None
  /\ inst = {}
  /\ faults = [a \in Apps |-> {}]
  /\ pc = "idle" /\ op = None /\ ok = FALSE /\ val = "Absent"
  /\ hs = [h \in Handlers |-> IdleHandler]
  /\ snap = {}
  /\ boot = "up" /\ bootApp = None
  /\ nextId = 1
  /\ ended = {} /\ acked = {} /\ flagged = {} /\ tornDown = {}
  /\ crashes = 0

-----------------------------------------------------------------------------
(* Phase writes.                                                           *)

\* registry.write() waits for the readers; the one that stays a reader over
\* several steps is the phase persist, which holds registry.read() while it
\* waits for the database thread.
RegistryFree == pc \notin {"write1", "write2"} /\ \A h \in Handlers : hs[h].pc # "write"

\* entry.phase of a registered app; an app gone from the registry is left.
SetPhase(a, p) ==
  phase' = [phase EXCEPT ![a] = IF @ = "Absent" THEN @ ELSE p]

\* Faulty form: a revert to NotInstalled is not written.
StoreWithoutRevert(a, p) ==
  stored' = [stored EXCEPT ![a] = IF @ = "Absent" \/ p = "NotInstalled" THEN @ ELSE p]

\* persist_app_fields / transition_phase.  The upsert of a row that
\* deregistration deleted makes a row without a definition, which
\* load_from_db skips: it counts as absent.
StorePhase(a, p) ==
  stored' = [stored EXCEPT ![a] = IF @ = "Absent" THEN @ ELSE p]

-----------------------------------------------------------------------------
(* Request handlers.                                                       *)

Begin(h, p, a, o) == hs' = [hs EXCEPT ![h] =
                        [pc |-> p, app |-> a, op |-> o, val |-> "Absent"]]
Goto(h, p) == hs' = [hs EXCEPT ![h].pc = p]
Finish(h)  == hs' = [hs EXCEPT ![h] = IdleHandler]

Idle(h, r) == boot = "up" /\ hs[h].pc = "idle" /\ r \in Requests

\* A handler that will ask for an operation draws its id here.
NewOp(a, k) == [id |-> nextId, app |-> a, kind |-> k]
DrawId == nextId <= MaxOps /\ nextId' = nextId + 1

\* The registry gate of invoke_action, and the installed-only gate of the
\* schedule ticker (main.rs), which asks for the operation in the same way.
InvokeAction(h, a) ==
  /\ Idle(h, "action")
  /\ phase[a] = "Installed"
  /\ DrawId
  /\ Begin(h, "request", a, NewOp(a, "action"))
  /\ UNCHANGED <<schedVars, phase, dbVars, driverVars, snap, bootVars, histVars>>

InvokeInstall(h, a) ==
  /\ Idle(h, "install")
  /\ phase[a] = "NotInstalled"
  /\ DrawId
  /\ Begin(h, IF a \in Direct THEN "direct" ELSE "request", a, NewOp(a, "install"))
  /\ UNCHANGED <<schedVars, phase, dbVars, driverVars, snap, bootVars, histVars>>

\* No install action: the phase flips to Installed without an operation.
InstallDirect(h) ==
  /\ hs[h].pc = "direct"
  /\ RegistryFree
  /\ SetPhase(hs[h].app, "Installed")
  /\ Goto(h, "extract")
  /\ UNCHANGED <<schedVars, dbVars, driverVars, snap, bootVars, nextId, histVars>>

\* set_param and unset_param up to reject_if_op_in_progress; they store the
\* value and then, in reload_and_persist_apperror, the app's row.
SetParam(h, a) ==
  /\ Idle(h, "param")
  /\ phase[a] \notin {"Absent", "Installing"}
  /\ ~HasOperationFor(a)
  /\ DrawId
  /\ Begin(h, "extract", a, NewOp(a, "param"))
  /\ UNCHANGED <<schedVars, phase, dbVars, driverVars, snap, bootVars, histVars>>

\* schedule_on_change reads the phase again.
ScheduleOnChange(h) ==
  /\ hs[h].pc = "onChange"
  /\ IF phase[hs[h].app] \in {"Installed", "Uninstalling"}
       THEN Goto(h, "request")
       ELSE Finish(h)
  /\ UNCHANGED <<schedVars, phase, dbVars, driverVars, snap, bootVars, nextId, histVars>>

\* The scheduler's answer.  invoke_action and invoke_install go on to spawn
\* an accepted operation; schedule_on_change returns "accepted" and spawns
\* nothing.
RequestSlot(h) ==
  /\ hs[h].pc = "request"
  /\ \/ /\ Accept(hs[h].op)
        /\ IF hs[h].op.kind = "param" THEN Finish(h) ELSE Goto(h, "spawn")
     \/ Enqueue(hs[h].op) /\ Finish(h)
     \/ Reject(hs[h].app) /\ Finish(h)
  /\ UNCHANGED <<phase, dbVars, driverVars, snap, bootVars, nextId, histVars>>

\* Faulty form: the dequeued operation is returned and dropped.
LookupDropped(o) == pc' = "idle" /\ op' = None

\* spawn_accepted_operation's registry lookup: an unknown app is logged and
\* the function returns, with the slot still taken.
Lookup(o) == /\ pc' = IF phase[o.app] = "Absent" THEN "idle" ELSE "begin"
             /\ op' = IF phase[o.app] = "Absent" THEN None ELSE o

Spawn(h) ==
  /\ hs[h].pc = "spawn"
  /\ Lookup(hs[h].op)
  /\ ok' = FALSE /\ val' = "Absent"
  /\ Finish(h)
  /\ UNCHANGED <<schedVars, phase, dbVars, snap, bootVars, nextId, histVars>>

\* cancel_action: the scheduler's answer decides between flagging the row
\* and the stuck-phase recovery.
CancelAction(h, a) ==
  /\ Idle(h, "cancel")
  /\ \/ RequestCancel(a) /\ Begin(h, "flag", a, active)
     \/ ~IsActive(a) /\ Begin(h, "stuck", a, None) /\ UNCHANGED schedVars
  /\ UNCHANGED <<phase, dbVars, driverVars, snap, bootVars, nextId, histVars>>

\* Faulty form: no WHERE clause.
AnyRow(i) == row # None

\* set_cancel_requested's WHERE operation_id = the cancelled one.
RowIs(i) == row # None /\ row.id = i

FlagCancel(h) ==
  /\ hs[h].pc = "flag"
  /\ row' = IF RowIs(hs[h].op.id) THEN [row EXCEPT !.cancel = TRUE] ELSE row
  /\ acked' = acked \cup {hs[h].op.id}
  /\ flagged' = IF RowIs(hs[h].op.id) THEN flagged \cup {hs[h].op.id} ELSE flagged
  /\ Finish(h)
  /\ UNCHANGED <<schedVars, phase, stored, inst, faults, driverVars, snap,
                 bootVars, nextId, ended, tornDown>>

\* NoActiveOp: an app in Installing is unstuck, any other answers not_found.
CancelStuck(h) ==
  /\ hs[h].pc = "stuck"
  /\ IF phase[hs[h].app] = "Installing" THEN Goto(h, "unstick") ELSE Finish(h)
  /\ UNCHANGED <<schedVars, phase, dbVars, driverVars, snap, bootVars, nextId, histVars>>

Unstick(h) ==
  /\ hs[h].pc = "unstick"
  /\ RegistryFree
  /\ SetPhase(hs[h].app, "Uninstalling")
  /\ tornDown' = tornDown \cup {hs[h].app}
  /\ Goto(h, "extract")
  /\ UNCHANGED <<schedVars, dbVars, driverVars, snap, bootVars, nextId, ended, acked,
                 flagged>>

\* extract_persist_fields, then persist_app_fields: read the entry's phase,
\* then write it to the row.  The phase's mutex is not held from one to the
\* other.  A set_param goes on to schedule_on_change.
HandlerExtract(h) ==
  /\ hs[h].pc = "extract"
  /\ IF phase[hs[h].app] = "Absent"
       THEN Finish(h)
       ELSE hs' = [hs EXCEPT ![h].pc = "write", ![h].val = phase[hs[h].app]]
  /\ UNCHANGED <<schedVars, phase, dbVars, driverVars, snap, bootVars, nextId, histVars>>

HandlerWrite(h) ==
  /\ hs[h].pc = "write"
  /\ StorePhase(hs[h].app, hs[h].val)
  /\ IF hs[h].op # None /\ hs[h].op.kind = "param" THEN Goto(h, "onChange") ELSE Finish(h)
  /\ UNCHANGED <<schedVars, phase, row, inst, faults, driverVars, snap, bootVars,
                 nextId, histVars>>

\* uninstall_app looks at the phase only, never at the scheduler.
UninstallApp(h, a) ==
  /\ Idle(h, "uninstall")
  /\ phase[a] = "Installed"
  /\ Begin(h, "uninstall", a, None)
  /\ UNCHANGED <<schedVars, phase, dbVars, driverVars, snap, bootVars, nextId, histVars>>

UninstallCommit(h) ==
  /\ hs[h].pc = "uninstall"
  /\ SetPhase(hs[h].app, "Uninstalling")
  /\ StorePhase(hs[h].app, "Uninstalling")
  /\ tornDown' = tornDown \cup {hs[h].app}
  /\ Finish(h)
  /\ UNCHANGED <<schedVars, row, inst, faults, driverVars, snap, bootVars, nextId,
                 ended, acked, flagged>>

DeregisterApp(h, a) ==
  /\ Idle(h, "deregister")
  /\ phase[a] # "Absent"
  /\ ~HasOperationFor(a)
  /\ Begin(h, "deregCheck", a, None)
  /\ UNCHANGED <<schedVars, phase, dbVars, driverVars, snap, bootVars, nextId, histVars>>

DeregisterCheck(h) ==
  /\ hs[h].pc = "deregCheck"
  /\ IF phase[hs[h].app] \in {"NotInstalled", "Absent"}
       THEN Goto(h, "deregDb") ELSE Finish(h)
  /\ UNCHANGED <<schedVars, phase, dbVars, driverVars, snap, bootVars, nextId, histVars>>

DeregisterDb(h) ==
  /\ hs[h].pc = "deregDb"
  /\ stored' = [stored EXCEPT ![hs[h].app] = "Absent"]
  /\ inst' = inst \ {hs[h].app}
  /\ faults' = [faults EXCEPT ![hs[h].app] = {}]
  /\ Goto(h, "deregMem")
  /\ UNCHANGED <<schedVars, phase, row, driverVars, snap, bootVars, nextId, histVars>>

DeregisterMem(h) ==
  /\ hs[h].pc = "deregMem"
  /\ RegistryFree
  /\ phase' = [phase EXCEPT ![hs[h].app] = "Absent"]
  /\ Finish(h)
  /\ UNCHANGED <<schedVars, dbVars, driverVars, snap, bootVars, nextId, histVars>>

\* check_registrable; the definition is then fetched, which may take long.
RegisterApp(h, a) ==
  /\ Idle(h, "register")
  /\ phase[a] = "Absent"
  /\ Begin(h, "register", a, None)
  /\ UNCHANGED <<schedVars, phase, dbVars, driverVars, snap, bootVars, nextId, histVars>>

RegisterCommit(h) ==
  /\ hs[h].pc = "register"
  /\ stored' = [stored EXCEPT ![hs[h].app] = "NotInstalled"]
  /\ Goto(h, "insert")
  /\ UNCHANGED <<schedVars, phase, row, inst, faults, driverVars, snap, bootVars,
                 nextId, histVars>>

RegisterInsert(h) ==
  /\ hs[h].pc = "insert"
  /\ RegistryFree
  /\ phase' = [phase EXCEPT ![hs[h].app] = "NotInstalled"]
  /\ Finish(h)
  /\ UNCHANGED <<schedVars, dbVars, driverVars, snap, bootVars, nextId, histVars>>

-----------------------------------------------------------------------------
(* The driver task (spawn_accepted_operation, run_operation_loop).         *)

\* enter_installing_phase for an install; nothing for the others.
DriverBegin ==
  /\ pc = "begin"
  /\ IF op.kind = "install"
       THEN /\ RegistryFree
            /\ SetPhase(op.app, "Installing")
            /\ pc' = "extract1"
       ELSE pc' = "start" /\ UNCHANGED phase
  /\ UNCHANGED <<schedVars, dbVars, op, ok, val, hs, snap, bootVars, nextId, histVars>>

\* set_phase_and_persist reads the entry it has just flipped (or skips an
\* entry that is gone) ...
DriverExtract ==
  /\ pc \in {"extract1", "extract2"}
  /\ LET write == IF pc = "extract1" THEN "write1" ELSE "write2"
         next  == IF pc = "extract1" THEN "start" ELSE "release"
     IN pc' = IF phase[op.app] = "Absent" THEN next ELSE write
  /\ val' = phase[op.app]
  /\ UNCHANGED <<schedVars, phase, dbVars, op, ok, hs, snap, bootVars, nextId, histVars>>

\* ... and writes what it read.
DriverWrite ==
  /\ pc \in {"write1", "write2"}
  /\ StorePhase(op.app, val)
  /\ pc' = IF pc = "write1" THEN "start" ELSE "release"
  /\ val' = "Absent"
  /\ UNCHANGED <<schedVars, phase, row, inst, faults, op, ok, hs, snap, bootVars,
                 nextId, histVars>>

\* Faulty form: clear_current_operation forgotten.
KeepRow == UNCHANGED row

\* clear_current_operation.
ClearRow == row' = None

\* The result is known: the driver leaves run_operation_loop.
Result(success) ==
  /\ ok' = success
  /\ ended' = ended \cup {op.id}
  /\ pc' = "cleanup"

\* Faulty form: INSERT OR REPLACE.
CancelReset == FALSE

\* save_current_operation's ON CONFLICT does not name cancel_requested.
CancelColumn == row # None /\ row.cancel

DriverSave ==
  /\ pc = "start"
  /\ row' = [id |-> op.id, app |-> op.app, kind |-> op.kind,
             cancel |-> CancelColumn]
  /\ pc' = "run"
  /\ UNCHANGED <<schedVars, phase, stored, inst, faults, op, ok, val, hs, snap,
                 bootVars, nextId, histVars>>

\* The databases cannot be opened, or the script does not compile (which
\* also files a fault): the loop is never entered, the row never written.
DriverUnstartable ==
  /\ Aborts
  /\ pc = "start"
  /\ \/ UNCHANGED faults
     \/ faults' = [faults EXCEPT ![op.app] = @ \cup {"operation_failed"}]
  /\ Result(FALSE)
  /\ UNCHANGED <<schedVars, phase, stored, row, inst, op, val, hs, snap, bootVars,
                 nextId, acked, flagged, tornDown>>

\* A pass suspends at an unmet barrier; rt.start has recorded instances.  A
\* set token turns the barrier into CancelHit instead.
DriverSuspend ==
  /\ pc = "run"
  /\ ~token
  /\ inst' = inst \cup {op.app}
  /\ UNCHANGED <<schedVars, phase, stored, row, faults, driverVars, hs, snap,
                 bootVars, nextId, histVars>>

\* The last pass of an operation: it may have recorded instances too.
LastPass == /\ pc = "run"
            /\ inst' \in {inst, inst \cup {op.app}}
            /\ UNCHANGED <<schedVars, phase, stored, op, val, hs, snap, bootVars,
                           nextId, acked, flagged, tornDown>>

DriverComplete ==
  /\ LastPass
  /\ faults' = [faults EXCEPT ![op.app] = @ \ {"operation_failed", "operation_cancelled"}]
  /\ ClearRow
  /\ Result(TRUE)

DriverFail ==
  /\ LastPass
  /\ faults' = [faults EXCEPT ![op.app] = @ \cup {"operation_failed"}]
  /\ ClearRow
  /\ Result(FALSE)

\* Faulty form: the persisted flag is consulted instead of the token.
FlagHit == row # None /\ row.cancel

\* OperationResult::Cancelled: a barrier found the token set.
CancelHit == token

DriverCancelled ==
  /\ CancelHit
  /\ LastPass
  /\ faults' = [faults EXCEPT ![op.app] = @ \cup {"operation_cancelled"}]
  /\ ClearRow
  /\ Result(FALSE)

\* The blocking thread panics; unwrap_or(false) takes it for a failure and
\* nobody clears the row.
DriverPanic ==
  /\ Aborts
  /\ LastPass
  /\ Result(FALSE)
  /\ UNCHANGED <<row, faults>>

\* finalize_install or revert_install_phase.
FinalPhase == IF ok THEN "Installed" ELSE "NotInstalled"

\* cleanup_dynamic_resources has returned.
DriverFinalize ==
  /\ pc = "cleanup"
  /\ IF op.kind = "install"
       THEN /\ RegistryFree
            /\ SetPhase(op.app, FinalPhase)
            /\ pc' = "extract2"
       ELSE pc' = "release" /\ UNCHANGED phase
  /\ UNCHANGED <<schedVars, dbVars, op, ok, val, hs, snap, bootVars, nextId, histVars>>

\* Faulty form: the operation that was dequeued is not spawned.
ReleaseOnly ==
  /\ pc = "release"
  /\ CompleteCurrent
  /\ pc' = "idle" /\ op' = None /\ ok' = FALSE /\ val' = "Absent"
  /\ UNCHANGED <<phase, dbVars, hs, snap, bootVars, nextId, histVars>>

\* complete_current, and the next operation if one was queued.
DriverRelease ==
  /\ pc = "release"
  /\ CompleteCurrent
  /\ IF queue = <<>>
       THEN pc' = "idle" /\ op' = None
       ELSE pc' = "lookup" /\ op' = Head(queue)
  /\ ok' = FALSE /\ val' = "Absent"
  /\ UNCHANGED <<phase, dbVars, hs, snap, bootVars, nextId, histVars>>

DriverLookup ==
  /\ pc = "lookup"
  /\ Lookup(op)
  /\ UNCHANGED <<schedVars, phase, dbVars, ok, val, hs, snap, bootVars, nextId, histVars>>

DriverStep == \/ DriverBegin \/ DriverExtract \/ DriverWrite
              \/ DriverSave \/ DriverUnstartable
              \/ DriverComplete \/ DriverFail \/ DriverCancelled \/ DriverPanic
              \/ DriverFinalize \/ DriverRelease \/ DriverLookup

-----------------------------------------------------------------------------
(* The reconciler's part in the phases.                                    *)

\* Faulty form: an app that owns nothing is not looked at.
LeavingWithInstances == {a \in inst : phase[a] = "Uninstalling"}

\* The apps run_uninstall_phase will look at.
Leaving == {a \in Apps : phase[a] = "Uninstalling"}

\* snapshot_all_apps: the phase is read once, at the start of the tick.
ReconcileTick ==
  /\ boot = "up"
  /\ snap' = Leaving
  /\ UNCHANGED <<schedVars, phase, dbVars, driverVars, hs, bootVars, nextId, histVars>>

\* A steady-state tick records instances for an installed app.  The current
\* phase stands for the snapshot's: a tick that acts on an older one adds
\* instances only to an app whose teardown is under way and deletes them.
ReconcileActuate(a) ==
  /\ boot = "up"
  /\ phase[a] = "Installed"
  /\ inst' = inst \cup {a}
  /\ UNCHANGED <<schedVars, phase, stored, row, faults, driverVars, hs, snap,
                 bootVars, nextId, histVars>>

\* gc_unscheduled_instances: the last of the app's rows is past its retention.
InstancesReaped(a) ==
  /\ boot = "up"
  /\ a \in inst
  /\ inst' = inst \ {a}
  /\ UNCHANGED <<schedVars, phase, stored, row, faults, driverVars, hs, snap,
                 bootVars, nextId, histVars>>

\* run_uninstall_phase: none of the units the app's rows name is loaded any
\* more; without rows, no unit under the app's prefix.
UninstallDone(a) ==
  /\ boot = "up"
  /\ a \in snap
  /\ SetPhase(a, "NotInstalled")
  /\ StorePhase(a, "NotInstalled")
  /\ inst' = inst \ {a}
  /\ faults' = [faults EXCEPT ![a] = @ \ {"uninstall_unidentifiable_units"}]
  /\ snap' = snap \ {a}
  /\ UNCHANGED <<schedVars, row, driverVars, hs, bootVars, nextId, histVars>>

\* No rows, and a unit under the prefix is loaded: a sibling's, or one of the
\* app's own that the rows no longer tell.  The teardown does not advance.
UninstallRefused(a) ==
  /\ boot = "up"
  /\ a \in snap
  /\ a \in Lookalikes \ inst
  /\ faults' = [faults EXCEPT ![a] = @ \cup {"uninstall_unidentifiable_units"}]
  /\ snap' = snap \ {a}
  /\ UNCHANGED <<schedVars, phase, stored, row, inst, driverVars, hs, bootVars,
                 nextId, histVars>>

UninstallStep(a) == UninstallDone(a) \/ UninstallRefused(a)

-----------------------------------------------------------------------------
(* The daemon dies and starts again.                                       *)

Crash ==
  /\ crashes < MaxCrashes
  /\ crashes' = crashes + 1
  /\ phase' = [a \in Apps |-> "Absent"]
  /\ active' = None /\ token' = FALSE /\ queue' = <<>>
  /\ pc' = "idle" /\ op' = None /\ ok' = FALSE /\ val' = "Absent"
  /\ hs' = [h \in Handlers |-> IdleHandler]
  /\ snap' = {}
  /\ boot' = "load" /\ bootApp' = None
  /\ UNCHANGED <<dbVars, nextId, histVars>>

\* load_from_db, load_current_operation.
BootLoad ==
  /\ boot = "load"
  /\ phase' = stored
  /\ boot' = "replay"
  /\ bootApp' = IF row = None THEN None ELSE row.app
  /\ UNCHANGED <<schedVars, dbVars, driverVars, hs, snap, crashes, nextId, histVars>>

\* Is the row one that replay_interrupted_operation resumes?
Replayable == /\ phase[row.app] # "Absent"
              /\ IF row.kind = "install"
                   THEN phase[row.app] \in {"Installing", "NotInstalled"}
                   ELSE phase[row.app] = "Installed"

\* The same operation id takes the slot; a persisted cancel flips the new token.
Replay ==
  /\ Replayable
  /\ active' = [id |-> row.id, app |-> row.app, kind |-> row.kind]
  /\ token' = row.cancel
  /\ op' = active'
  /\ pc' = "begin" /\ ok' = FALSE /\ val' = "Absent"
  /\ UNCHANGED <<queue, phase, stored, row, faults>>

\* Unregistered app, or a phase the operation does not fit.
Discard ==
  /\ ~Replayable
  /\ ClearRow
  /\ UNCHANGED <<schedVars, driverVars, phase, stored, faults>>

\* The params do not decrypt: revert_install_and_fault, or clear the row.
Unreadable ==
  /\ BadParams
  /\ phase[row.app] # "Absent"
  /\ ClearRow
  /\ IF row.kind = "install" /\ phase[row.app] = "Installing"
       THEN /\ SetPhase(row.app, "NotInstalled")
            /\ StorePhase(row.app, "NotInstalled")
            /\ faults' = [faults EXCEPT ![row.app] = @ \cup {"install_interrupted"}]
       ELSE UNCHANGED <<phase, stored, faults>>
  /\ UNCHANGED <<schedVars, driverVars>>

BootReplay ==
  /\ boot = "replay"
  /\ boot' = "sweep"
  /\ \/ row # None /\ (Replay \/ Discard \/ Unreadable)
     \/ row = None /\ UNCHANGED <<schedVars, driverVars, phase, stored, row, faults>>
  /\ UNCHANGED <<inst, hs, snap, bootApp, crashes, nextId, histVars>>

\* Faulty form: only the second case of the sweep.
StuckWithInstances(a) == a # bootApp /\ phase[a] = "NotInstalled" /\ a \in inst

\* The start-up sweep: an app that looks half-installed, except the one the
\* persisted row named.
Stuck(a) == /\ a # bootApp
            /\ \/ phase[a] = "Installing"
               \/ phase[a] = "NotInstalled" /\ a \in inst

\* One step: a daemon that dies in the middle of it sweeps the rest next time.
BootSweep ==
  /\ boot = "sweep"
  /\ boot' = "up" /\ bootApp' = None
  /\ phase' = [a \in Apps |-> IF Stuck(a) THEN "Uninstalling" ELSE phase[a]]
  /\ stored' = [a \in Apps |-> IF Stuck(a) THEN "Uninstalling" ELSE stored[a]]
  /\ UNCHANGED <<schedVars, row, inst, faults, driverVars, hs, snap, crashes,
                 nextId, histVars>>

-----------------------------------------------------------------------------
HandlerStep(h) ==
  \/ InstallDirect(h) \/ ScheduleOnChange(h) \/ RequestSlot(h) \/ Spawn(h)
  \/ FlagCancel(h) \/ CancelStuck(h) \/ Unstick(h) \/ HandlerExtract(h) \/ HandlerWrite(h)
  \/ UninstallCommit(h)
  \/ DeregisterCheck(h) \/ DeregisterDb(h) \/ DeregisterMem(h)
  \/ RegisterCommit(h) \/ RegisterInsert(h)

NewRequest(h, a) ==
  \/ InvokeAction(h, a) \/ InvokeInstall(h, a) \/ SetParam(h, a)
  \/ CancelAction(h, a) \/ UninstallApp(h, a)
  \/ DeregisterApp(h, a) \/ RegisterApp(h, a)

BootStep == BootLoad \/ BootReplay \/ BootSweep

Next ==
  \/ \E h \in Handlers : HandlerStep(h) \/ \E a \in Apps : NewRequest(h, a)
  \/ DriverStep
  \/ DriverSuspend
  \/ ReconcileTick
  \/ \E a \in Apps : ReconcileActuate(a) \/ InstancesReaped(a) \/ UninstallStep(a)
  \/ Crash
  \/ BootStep

Spec == Init /\ [][Next]_vars

\* Threads and tasks that can run do run; a reconcile tick comes every five
\* seconds, can list the units, and finds those an app's rows name gone at
\* last.  Whether it then ends the teardown or refuses to is its choice.  No
\* request need ever come, the daemon need not die, and a pass without a
\* cancel may suspend for ever.
Fairness ==
  /\ WF_vars(BootStep)
  /\ \A h \in Handlers : WF_vars(HandlerStep(h))
  /\ WF_vars(DriverBegin \/ DriverExtract \/ DriverWrite \/ DriverSave \/ DriverFinalize
             \/ DriverRelease \/ DriverLookup)
  /\ WF_vars(DriverCancelled)
  /\ WF_vars(ReconcileTick)
  /\ \A a \in Apps : WF_vars(UninstallStep(a))

FairSpec == Spec /\ Fairness

-----------------------------------------------------------------------------
(* Properties.                                                             *)

\* Every variable has its type.
TypeOK ==
  /\ active \in Operation \cup {None} /\ token \in BOOLEAN
  /\ queue \in Seq(Operation)
  /\ phase \in [Apps -> MaybePhase] /\ stored \in [Apps -> MaybePhase]
  /\ row \in Row \cup {None}
  /\ inst \subseteq Apps
  /\ faults \in [Apps -> SUBSET FaultKinds]
  /\ pc \in DriverPc /\ op \in Operation \cup {None} /\ ok \in BOOLEAN
  /\ val \in MaybePhase
  /\ hs \in [Handlers -> Handler]
  /\ snap \subseteq Apps
  /\ boot \in {"up", "load", "replay", "sweep"} /\ bootApp \in Apps \cup {None}
  /\ nextId \in Nat
  /\ ended \subseteq Nat /\ acked \subseteq Nat /\ flagged \subseteq acked
  /\ tornDown \subseteq Apps
  /\ crashes \in Nat

\* The driver task always holds the slot for the very operation it runs, so
\* the complete_current at its end, which names no operation, frees its own
\* slot and no other; and an operation accepted by a handler waits for that
\* handler to spawn it, with no driver alive.
SlotOwner ==
  /\ pc # "idle" => op # None /\ active = op
  /\ \A h \in Handlers : hs[h].pc = "spawn" =>
       /\ pc = "idle"
       /\ hs[h].op # None /\ active = hs[h].op
       /\ \A g \in Handlers : hs[g].pc = "spawn" => g = h

\* r[operation.lifecycle.single.inter-app]: nothing waits behind an empty
\* slot, no app waits twice, and no app waits behind itself.
QueueDiscipline ==
  /\ active = None => queue = <<>>
  /\ \A i \in DOMAIN queue : active # None => queue[i].app # active.app
  /\ \A i, j \in DOMAIN queue : queue[i].app = queue[j].app => i = j

\* An operation whose result is in is never run again, by a dequeue or by a
\* replay after a restart: the result and the row's deletion are one write.
NoRerun == pc \in {"lookup", "begin", "extract1", "write1", "start", "run"} =>
             op.id \notin ended

\* r[operation.cancel.persistence], second half: a cancel reaches only the
\* operation it was asked for, whatever restarts and later operations come.
CancelScoped ==
  LET asked(i) == \/ i \in acked
                  \/ \E h \in Handlers : hs[h].pc = "flag" /\ hs[h].op.id = i
  IN /\ token => active # None /\ asked(active.id)
     /\ row # None /\ row.cancel => asked(row.id)

\* r[operation.cancel.persistence]: once a cancel has reached the row, every
\* replay of the operation runs with its token set, and re-saving the row
\* before a second crash does not lose it.
Unfinished == pc \in {"begin", "extract1", "write1", "start", "run"}
CancelKept == Unfinished /\ op.id \in flagged => token

\* Once start-up is over, an app in Installing has its install operation in
\* the slot and a driver that will take it out of the phase
\* (r[operation.cancel.stuck-recovery]: no app is left stuck).
NoStuckInstalling ==
  boot = "up" => \A a \in Apps : phase[a] = "Installing" =>
    /\ IsActive(a) /\ active.kind = "install"
    /\ pc \in {"begin", "extract1", "write1", "start", "run", "cleanup"}

\* What is stored suffices to resume, unless the app was torn down meanwhile.
\* A running install survives a crash at any moment: its row is there and the
\* stored phase is one from which start-up replays it.  And with no driver and no
\* handler at work, memory and database agree on the phase of every app: a
\* restart then changes nothing.
StoredSuffices ==
  /\ pc = "run" /\ op.kind = "install" /\ op.app \notin tornDown /\ phase[op.app] # "Absent" =>
       /\ row # None /\ row.id = op.id
       /\ stored[op.app] \in {"Installing", "NotInstalled"}
  /\ boot = "up" /\ pc = "idle" /\ (\A h \in Handlers : hs[h].pc = "idle") =>
       \A a \in Apps \ tornDown : phase[a] = stored[a]

\* A slot that is taken has someone to free it: the driver, or the handler
\* about to spawn one.
SlotServed == active # None => pc # "idle" \/ \E h \in Handlers : hs[h].pc = "spawn"

\* r[operation.cancel]: a cancelled operation leaves the slot.
CancelEnds == \A i \in 1..MaxOps :
  (active # None /\ active.id = i /\ token) ~> (active = None \/ active.id # i)

\* r[operation.lifecycle.completion]: when an operation has its result, the
\* operation at the head of the queue gets its turn.
HandOver == \A i \in 1..MaxOps :
  (pc = "cleanup" /\ queue # <<>> /\ Head(queue).id = i)
    ~> (i \in ended \/ (pc = "run" /\ op.id = i) \/ crashes > 0)

\* r[app.uninstall.scope]: a teardown, whoever started it, whatever crashes and
\* whatever rows were reaped meanwhile, ends; or it stands still because units
\* under the app's name cannot be told from a sibling's, and then never silently:
\* the fault is on record.
TeardownEnds == \A a \in Apps :
  (boot = "up" /\ phase[a] = "Uninstalling")
    ~> /\ boot = "up"
       /\ \/ phase[a] # "Uninstalling"
          \/ a \in Lookalikes /\ "uninstall_unidentifiable_units" \in faults[a]
==============================================================================
