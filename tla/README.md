# Seedling: TLA+ models of the runtime

Seedling is a daemon that runs applications on one machine. An app is defined by
a Rhai script (BSL), registered by an operator, installed by running its install
closure, kept running by a reconciler that actuates pods, volumes, ingresses and
certificates, and torn down again. Everything the daemon must remember is in one
SQLite database; everything else is lost when it dies.

The models here are about what is hard to test in that: several threads that
share locks and a database but no transaction across both, one operation slot for
the whole node, and a process that may die between any two writes and has to
resume from rows alone.

## The system

| part | state | operations | talks to |
|---|---|---|---|
| **operation scheduler** `runtime/scheduler.rs` | `active`, FIFO `queue`, a cancel token per active operation; memory only | `request`, `complete_current`, `request_cancel`, `has_operation_for` | locked by every handler, the schedule ticker and the driver |
| **lifecycle operations** `oi/handler/actions*.rs`, `runtime/history.rs` | app phase (in the registry and in `registered_apps`), the singleton row `current_operation`, instance rows, faults | `invoke_action`, `invoke_install`, `cancel_action`; the driver task `spawn_accepted_operation` / `run_operation_loop` | takes the slot, flips phases, wakes the reconciler |
| **start-up recovery** `daemon/src/main.rs` | `persisted_operation` | load, `replay_interrupted_operation`, `revert_install_and_fault`, sweep of stuck apps | reads what the operations wrote before the crash |
| **parameters** `oi/handler/params.rs` | stored values, secrets, generations | `set_param`, `unset_param`, `schedule_on_change` | asks the scheduler for the `on_change` handler |
| **registration** `oi/handler/apps.rs`, `runtime/apps.rs` | registry entries, `registered_apps`, definitions | register, update, deregister, uninstall, sync of schedules | gated by scheduler and phase |
| **scheduled actions** `runtime/schedules.rs` | `action_schedules` rows with `last_fired_at` | `maybe_tick`, `check_due_schedules`, prune and ensure | competes for the slot |
| **action replay and barriers** `runtime/barrier/*` | action log, progress, barrier records, dynamic resources | a pass runs the closure from its start, answers old calls from the log, suspends at an unmet barrier | reads observations, records instances, sleeps on the cancel token |
| **generations** `runtime/generations.rs`, `runtime/params.rs` | `generations` rows, current generation of an app | bump by parameter or definition, reconstruct | `set_param`, `update_app`, operations |
| **reconciler** `system/reconcile*` | snapshot of a tick, observations, in-memory trackers | tick: snapshot, observe, actuate, ingest, uninstall phase, idle | phases, desired state, drivers |
| **desired state, scaling** `runtime/desired.rs`, `scaling.rs`, `registry.rs` | instances, scaling decisions | compute (steady, during an operation, uninstalling) | called by the tick |
| **restarts, faults, retries, GC** `runtime/{restarts,faults,retry,gc}.rs` | counters, fault rows, gates, retention | one small protocol each | filed by tick and operations |
| **TLS and Canopy** `runtime/tls/*`, `runtime/canopy/*` | certificates, chain position, attempt log, blocks | decide, ask, apply, order, renew, revoke | report tick, ACME, relays, operators |
| **volumes** `system/volume_store.rs`, `system/reconcile/volumes.rs`, `oi/handler/volumes.rs` | directories and subvolumes; `meta.json`; `site_volumes` and instance rows | create, hold, restore, delete, snapshot, promote, migrate, sweep | tick and handlers, pods that mount them |
| **forwards and shells** `oi/forwards`, `oi/shells` | registries keyed by id, connection and 16-bit key; containers and networks | open, close, teardown, sweep of strays | OI connections, updates, reconciler |
| **site services, ingresses, images** | attachments, pins | resolution, pulls | tick and handlers; not modelled |
| **operator interface, events, CLI, web, drivers, BSL** | – | I/O and evaluation | not modelled, see below |

Which behaviours are hard, by kind (the list with source lines is `hazards` in
`PROJECT.json`):

* *interleaving and stale reads*: every handler is check, unlock, lock, act. The
  phase that a gate read is old when the slot is taken, when a queued operation
  is started, and when a stuck phase is "recovered";
* *two homes of the phase*: memory under a mutex, the database behind a thread;
* *crashes*: between taking the slot, storing the phase, saving the row, the
  result, the phase revert; between a schedule's stamp and its operation;
* *ownership of the slot*: `complete_current` names no operation;
* *replay*: a pass repeats every call, and only the position in the log tells an old
  call from a new one; an answer recorded by one pass is read by all later ones;
* *answers out of order*: a certificate asked for under one policy arrives under
  another, for a row that was deleted or renewed meanwhile;
* *two homes of a volume*: the directory, and the row or file that says what it is;
* *ends of sessions*: a task, an operator, an update and a lost connection all end
  the same session, each from its own index;
* *progress*: a suspended operation sleeps up to a minute, a queue moves only when
  a driver ends, a teardown, a rollout and a renewal are driven by ticks.

What makes the parts correct: the slot has one owner that will free it; the queue
is FIFO with one entry per app; a phase moves only along its graph and memory and
database agree at rest; a finished operation is never run again; a cancel reaches
its own operation, survives a crash and ends it; no app is left in `Installing`;
nothing actuated is left behind; a schedule fires once per boundary, catches up,
and only for installed apps. A replayed call has the effect and the answer it had
the first time and no barrier opens early; a generation never changes once
written; a rollout keeps the app serving and ends; a hostname has one key, one
order and falls through to its next issuer before the certificate runs out; a
datagram reaches the forward it was sent to; no data goes without a confirmation.

## Modules

* `Scheduler.tla` – the slot, queue and token, with one operator per method. It is
  extended by both users of the scheduler.
* `Operations.tla` – the composition: request handlers, driver task, reconciler's
  part in the phases, database, crash and start-up.
* `Schedules.tla` – the ticker and its rows, composed with the scheduler and with
  the driver cut down to "saves its row, ends".
* `Replay.tla` – one operation call by call: passes, action log, barriers, the
  token's wake-up protocol, clean-up, crash and resume.
* `CallLedger.tla` – what replay promises, without passes and positions. `Replay`
  implements it (`CL == INSTANCE CallLedger WITH …`, property `Ledger`).
* `Generations.tla` – parameter and definition changes of one app, statement by
  statement.
* `Reconcile.tla` – the tick over one Deployment or Job, with its instances.
* `Certificates.tla` – the certificate of one hostname from decision to renewal.
* `Sessions.tla` – port forwards and shells.
* `Volumes.tla` – an app's volume, site volumes, held volumes.
* `MC….tla` – for each of these what TLC needs: scripts, scenes, symmetry.
* `OperationsProofs`, `SchedulesProofs`, `ReplayProofs`, `GenerationsProofs`,
  `ReconcileProofs`, `CertificatesProofs`, `SessionsProofs` and `VolumesProofs` – theorems
  about the module each is named after.

`Operations` and `Replay` meet in the driver: what `Operations` takes as the outcome
of a pass, `Replay` derives from the calls; both keep the row, the token and the
crash. `Generations` and `Schedules` see the driver only as somebody who holds the
slot. The other modules share no variables: the tick's parts run under one snapshot
and touch different tables, and the phase of an app, which they all read, changes
under them by a step of its own (`Switch`, `Edit`, `Undeclare`).

An operator right after a "Faulty form" comment is a plausible mistake in
the definition that follows it. No specification uses it; `mutants` in
`PROJECT.json` puts it into that definition's place, and the property named there
must then fail.

### Operations against the code

A handler runs on its own blocking thread and shares locks and the database
thread with the others. Each of its critical sections (a registry lock, the
scheduler lock, a `db.call`) is one action; `hs[h]` holds its place, its app, the
operation it asks for and the phase it last read.

| code | model |
|---|---|
| `AppEntry.phase` / phase columns of `registered_apps` | `phase` / `stored`; `"Absent"` is "not registered" |
| `current_operation` (singleton, with `cancel_requested`) | `row` |
| `resource_instances` of an app | `a \in inst` |
| `operation_failed`, `operation_cancelled`, `install_interrupted`, `uninstall_unidentifiable_units` | `faults[a]` |
| `Scheduler` | `active`, `token`, `queue` |
| `spawn_accepted_operation` and `run_operation_loop` | `pc`, `op`, `ok`, `val` and the `Driver…` actions |
| gate of `invoke_action`, `invoke_install`, `set_param`, `cancel_action`, `uninstall_app`, `deregister_app`, `register_app` | the action of that name |
| `sched.request` | `RequestSlot` |
| `set_phase_and_persist` | flip (`DriverBegin`, `DriverFinalize`, `Unstick`), read (`…Extract`), write (`…Write`) |
| a pass of the closure | `DriverSuspend`, or one of `DriverComplete`, `DriverFail`, `DriverCancelled`, `DriverPanic` |
| `snapshot_all_apps`, `run_uninstall_phase` | `ReconcileTick`, `UninstallDone` or `UninstallRefused` |
| `gc_unscheduled_instances` | `InstancesReaped` |
| `load_from_db`, `replay_interrupted_operation`, stuck sweep | `BootLoad`, `BootReplay`, `BootSweep` |

`registry.write()` waits for `registry.read()`; the phase persist holds the read
lock while it waits for the database, which `RegistryFree` keeps. Uninstall and
teardown write the phase through the entry's own mutex and do not wait.

`ended`, `acked`, `flagged` and `tornDown` are history: nothing reads them but
properties. The mutable bounds are `MaxOps` (operation ids) and `MaxCrashes`.

Abstractions, and why they are safe for the properties stated:

* params, generations, trigger strings and events are not carried: no guard of
  the modelled code reads them;
* what a closure does is a choice of its outcome in each pass, with instances
  recorded or not;
* SQLite statements succeed. The code logs most failures and goes on, so a
  failing statement is a write that did not happen; those states are not explored;
* the result of an operation, its faults and the deletion of its row are one
  step; a death between two of these statements leaves the row and is the same
  as a death before them, except for the faults;
* `BootSweep` is one step: a daemon that dies in the middle sweeps the rest of
  the apps at the next start;
* a handler that runs into `expect("confirmed registered")` panics and ends: the
  model's `Finish`;
* an entry and its successor under the same name after a re-registration share
  one phase, where the code would have two mutexes;
* the prefix `seedling-{app}-` is not prefix-free: `Lookalikes` are the apps under
  whose name a unit may be loaded that is not in their rows, a sibling's or one
  whose row was reaped. For such an app without rows a tick may find one
  (`UninstallRefused`) or not (`UninstallDone`);
* operator-cleared faults, definition updates and the reconciler's convergence are
  not in this module.

### Schedules against the code

Time is in minutes, a cron expression is a period, and the five minutes a row
without a stamp looks back are `Window`. `TickSnapshot` reads the phases,
`TickRows` takes the database thread and the scheduler lock, and every row is a
step (`SkipRow`, `FireRow`) so that the daemon may die between two of them; no
other holder of the locks moves meanwhile (`Unlocked`). `fires` is history.

### Replay against the code

A closure is a sequence of calls, and a pass is one step per call, as the daemon can
die, and everything else can happen, in between.

| code | model |
|---|---|
| `action_log` rows by position | `log`; entries of the pass not yet flushed are `pending` |
| `claim_log_position` and the match of kind and literal | `ClaimLogPosition`, `Matches`, `Diverge` |
| `rt.start`, `warm`, `query`, `signal`, `exec`, `write`, sub-actions | `Start` … `CallAction`, one per surface; `Deliver` makes the effect, `Recover` answers from the log |
| barrier: anchor record, deadline, hit | `Await`, `CheckBarrier`, `RecordAtAnchor`; time as the age of a record |
| `stop` with its own wait, `restart` | `Stop`, `Restart` |
| flush, progress, conclusion, clean-up of dynamic resources | `FlushOne`, `Publish`, `Conclude`, `BeginCleanup`, `EndCleanup` |
| `CancelToken::wait_for` and `request` | `WaitCheck`, `WaitLock`, `WaitBlock`, `WaitTimeout` against `RequestStore`, `RequestNotify` and, for the rest of `cancel_action`, `RequestPersist` |
| process death, replay of the row, reaping | `Crash`, `Resume`, `ReapOrphans` |

A resume may find another script: the definition was edited. `Ledger` maps `made` and
`kept` to the calls made and the length of the log; a pass that replays is a stutter.

### Generations against the code

Each statement of the database call in `set_param` and `unset_param`, and each lock
of `update_app`, is a step: `StoreParamValue`, `InsertRow`, `WriteParamChange`,
`PointRow`, `LoadParams`, `Reload`, `StampGeneration`; `PersistAppFields`,
`CommitUpdate`, `ReplaceDefinition`. `db` is the one database thread. An invocation
takes three locks one after the other: `InvokeAction` reads the generation,
`RequestSlot` asks the scheduler with it, `Spawn` (or `Dequeue`, for an operation that
waited behind another app's) clones the App the operation runs with; `SaveOperation`
writes its row and `Restart` replays it with the App that was loaded. `slot` is that
operation with its generations and its App. `ScheduleOnChange` goes through the same
`RequestSlot`. Which definition evaluates with which values is a constant (`Broken`).
`overlap`, `raced`, `torn` and `cut` record that changes met, that one met an
invocation, and what a crash cut in two; no guard reads them.

### Reconcile against the code

A tick is `Observe` (desired state from rows and recorded lifecycle, then a look at
every instance), `Actuate` and `Ingest` (record, retire, faults, idle); podman,
systemd and the operator move between them. `Minted`, `First` and `EffectiveScale` are
the desired state of a scaled group; `order` is the creation order of its rows. `Derive`
is the lifecycle a history comes to. `Victim` is the stale instance a rollout stops, the
first in the order of the desired state (`Before`). The history variable `ran` says what
of a Job's start the daemon, or the record, can know.
Observation and actuation may each fail for an instance. `Crash` loses the
reconciler's memory, and with the node also its containers.

### Certificates against the code

`Resolve`, `Act`, `Due`, `ProxyFrom`, `AskFor` are the pure decisions of
`tls/chain.rs` and `tls/state.rs` over a reading; the report tick is `TickRead`,
`RevokeCondemned`/`ReplaceCondemned`, `AskCanopy`, `KeyFor`, the relay's answer and
`Apply`, which writes in one transaction what was decided from an old reading. Between them come
ACME-DNS orders, uploads, deletions, policy changes, retries, blocks, condemnations
by Canopy, orders of the proxy, the clock and a crash. Of the attempt log `log` keeps
what the code asks of it: who opened the attempts still open, in order, and the newest
attempt. `InPlay` is `canopy_is_in_play`: the parameter of `TickRead` stands for the
other apps, policies and faults of the installation, which are not modelled, and may
say yes or no at every tick.

### Sessions against the code

A session is a task that awaits between its steps. `byId`, `keyToId` and `connToIds`
are the registry's three indexes behind one lock; `AllocKey`, `Register` and `Reply`
are separate lock sections. `Teardown`, `StopForward`, `RemoveStale` and the session's own
end each remove from the indexes. A serving session writes inside an arm of its
`select!` (`Tell`, `Write`) and then hears nothing until the other end reads (`Told`,
`Written`) or is gone (`TellFails`, `WriteFails`): the client for a status line and for
output, the container for input. A shell has a container and a network; `Snapshot`,
`List`, `Remove` are the reconciler's sweep of strays, with podman failing.

### Volumes against the code

`disk` is the directories and subvolumes, `at` where each piece of data is, `mount`
what each pod has mounted: both follow a rename and outlive a removal. `meta`, `row`,
`inst` are the records. `job[p]` is the place of a handler, or of the tick's volume
phase, and `tick` that of the pod phase, which runs beside it. The hold (rename, then
`meta.json`) is shared by four callers: `HoldRename`, `HoldMeta`. Any call may fail
(`Fail`) and the daemon may restart, with the sweep of leftover snapshots and a
change of backend. Data ends `Confirmed` when an operator confirmed it, `Strayed`
when it went along a path the limits below describe, and otherwise `Lost`.

## Runs

Passing runs, each within five minutes with two workers:

| run | instance | shows |
|---|---|---|
| `ops_interleave` | 2 apps, 2 handlers, 2 operations, no crash; action, install, cancel, uninstall (4.1 M states) | `SlotOwner`, `SlotServed` |
| `ops_crash` | 2 apps, 1 handler, 2 operations, 2 crashes, the same requests | `NoRerun`, `CancelScoped`, `CancelKept`, `NoStuckInstalling`, `StoredSuffices` |
| `ops_all` | every request, direct installs, panics, unreadable params, 1 crash (7.6 M) | `TypeOK`, `QueueDiscipline` |
| `ops_live` | 2 apps, 1 handler, installs and cancels, 1 crash, `FairSpec` (0.3 M) | `CancelEnds`, `TeardownEnds`, `HandOver` |
| `schedules` | 2 apps with a row each, 3 operations, 1 crash, 3 minutes after the first (2.6 M) | `StampedFiresOnce`, `CaughtUp` |
| `replay` | four closures over a dynamic job and a deployment, one an edit of another, 1 crash, `FairSpec` | `EffectsKept`, `ReplayFaithful`, `BarrierHolds`, `NoOrphans`, `NoLostWakeup`, the refinement `Ledger`, `Ends`, `CancelHeard` |
| `reconcile` | a rolling Deployment of 1 and of 2, a replaced one, a Job; 5 identities, 1 edit, 1 or 2 upsets, `FairSpec` (0.87 M) | `JobOnce`, `NoOrphans`, `RolloutServes`, `GuardsHold`, `Converges` |
| `certificates` | one hostname, a life of 6, clock 5 to 7, 3 certificates, 1 edit, 1 crash, `FairSpec` | `OneOrder`, `FallsThroughInTime`, `LateAnswersHarmless`, `PassesOn`, `RevocationHeard` |
| `generations` | 2 handlers that change or invoke, 2 definitions, 2 parameters, 3 generations, 1 crash (4.6 M) | `HistoryTells`, `Agreement` |
| `sessions` | up to 3 forwards (status lines with 2) or 1 shell, 2 connections, 2 keys, 1 crash, `FairSpec` (0.13 M) | `RegistryTrue`, `SessionsEnd`, `StraysGone` |
| `volumes` | 2 handlers with up to 4 requests, an app volume, a plain and a reserved site volume, 2 pieces of data, 1 upset, `FairSpec` (0.9 M) | `NoDataLost`, `Listed`, `ComesUp` |

What each property says is in the comment above it. In the modules after
`Operations` no run lists the type invariant: what they check relates several parts of
the state, and the proofs establish the types they need.

Why the bounds suffice. Two apps are the least for a queue, and a queue of one
entry per app makes a third app only a longer FIFO. Two handlers are the least
for a race between requests; the races found need no third. Two operations are
the least for "the next one": a late completion, an inherited cancel, a second
install. Two crashes are the least for a crash after a recovery (a re-saved row).
A schedule needs two boundaries and one competing operation. In `ops_live`
teardowns come from the start-up sweep and from the recovery of a stuck phase;
they run through the same `UninstallStep` as an operator's uninstall. One of the two
apps is a lookalike: its teardown may be refused, the other's may not.
The closures of `replay` have two barriers on one anchor, two equal literals, a
caught barrier without deadline, a stop and a sub-action: the cases in which one
position could be taken for another; `MaxAge` exceeds no deadline by more than what
"expired" needs. In `reconcile` five identities allow a rollout of two with a
surplus and a replacement of the surplus. A life of six puts renewal at four, the
fall-through at five and the end at six, and the clock crosses the last two; the hostname
starts with a certificate of Canopy's, and is without any once it is deleted. Two keys with three
forwards wrap the key counter. In `volumes` two site names are the least for a
snapshot, and two pieces of data the least for one to overwrite another.

Some properties hold only where a limit of the code (below) cannot interfere. Either
their runs leave its trigger out: `SlotServed` without parameter changes and
deregistrations; `CancelScoped` without panicking drivers. Or they name it in the
formula: `StoredSuffices` excepts an app that was torn down meanwhile, `CaughtUp` a
row that never fired and whose boundary is out of the window,
`StampedFiresOnce` says what follows a stamp, `Converges` excepts a wedged rollout,
`Listed` excepts what colliding or interrupted requests left.

`ops_…` and `schedules` check for deadlock: the reconcile tick is always enabled,
as in the daemon (and in `Schedules` an operator may always change a definition).
The other runs turn it off because their behaviours end: the one operation is over,
the bounded requests are answered, the clock is at its bound.

### Fairness

`FairSpec` assumes weak fairness of

* each handler thread and each start-up step: threads that can run do run;
* the driver's own steps, and a pass with a set token: `rt` checks the token at
  every barrier and the sleep between passes is woken by it. This assumes a
  closure that reaches a barrier; one that never does is outside the claim.
  Nothing says that a pass without a cancel ever completes;
* the reconcile tick and the last step of a teardown per app, which ends or refuses
  it: the loop ticks every five seconds while an app is not idle and retries to stop
  the units; it assumes that systemd lists units and stops them in the end.

Requests and crashes have none.

The later modules assume, in their `FairSpec`,

* `Replay`: weak fairness of the driver's steps, of the notify that follows a stored
  cancel, of the clock, of start-up and of the reaping. Nothing is assumed of
  containers: `Ends` is for closures whose every wait has a deadline;
* `Reconcile`: weak fairness of the steps of a tick without a failing call and of the first
  verdict of a health check; upsets are bounded, so they cease;
* `Certificates`: `ComesRound`, no relay call hangs for ever (each has a timeout) and
  the report loop reads again and again while the hostname keeps Canopy in play. A
  tick returns before it reads anything otherwise (`certificates.rs:108`), unless
  another app's type, another policy or a filed fault keeps Canopy in play, on which
  the hostname cannot count;
* `Sessions`: strong fairness of the tasks besides their writes: the `select!` of a
  session picks among its ready arms at random, so between two writes a stop is not
  passed over for ever; weak fairness of teardowns and the sweep; strong fairness of
  podman's listing and removing, which may fail but not for ever. The closure of a shell
  may wait for ever, and so may every write to a client or a container that does not
  read: `SessionsEnd` is about sessions whose writes end (`[]<>~Writing(s)`);
* `Volumes`: weak fairness of the volume phase, the pod phase and each handler.

### Findings

One run is a violation: TLC finds a behaviour of the code that contradicts the
document it quotes.

| run | property | what happens |
|---|---|---|
| `rolling_outage` | `NoOutage` | the last stale instance of a rolling update, once stopped, is still on record as `Ready`; it is the oldest of those, so the next tick keeps it and unschedules its healthy replacement (`pods.rs:747`, against `r[update.rolling]` in `runtime.md`) |

`RolloutServes`, which passes, is what does hold in every tick: acting on what it
observed, a tick does not take the last healthy instance while the rollout runs.

### Limits of the code

Met while modelling and not kept as runs of their own. They say which triggers the
passing runs leave out, or their formulas except, and why.

*Operations and schedules*

* `set_phase_and_persist` reads and writes the phase in two steps; an uninstall in
  between is overwritten: the database says `Installed`, memory `Uninstalling`
  (`lifecycle.rs:713`).
* Two installs pass the gate; the second runs over the installed app
  (`install.rs:82`, against `interface.md:619`).
* A cancel answered before the row is saved is lost by a crash (`history.rs:757`,
  against `runtime.md:597`).
* A cancel that found no operation takes the phase it reads later for a stuck one
  and tears the app down after its install completed (`actions.rs:84`, against
  `interface.md:637`).
* A parameter change takes the slot and nobody runs it (`params.rs:239`, against
  `runtime.md:567`).
* A queued fire that ran is not stamped and fires again (`schedules.rs:119`,
  against `runtime.md:686`).
* Two registrations of one name both pass `check_registrable` while the definition
  is fetched; the later `insert_registered` replaces the entry of an app that may be
  installed by then.
* The recovery of a stuck phase in `cancel_action` can also hit a live install,
  which then runs on with `Uninstalling` stored and is discarded by a restart.
* An install accepted while its app is deregistered finds no entry when it is
  spawned; the slot stays taken (`SlotServed` fails with
  `Requests = {"install", "deregister"}` and two handlers).
* A driver that panics leaves its row; the next save keeps the cancel flag
  (`CancelScoped` fails with `Aborts = TRUE`).
* A failed or cancelled install reverts to `NotInstalled` whatever it actuated; the
  reconciler skips such an app until the sweep of the next start.
* A queued operation is started without a second look at the phase of its app.
* An app with no recorded instances whose name begins a sibling's (`app` beside
  `app-db`) is not torn down while the sibling's units are loaded: the tick files
  `uninstall_unidentifiable_units` and tries again (`reconcile.rs:1937`), perhaps for
  ever. `TeardownEnds` asks for the fault in that case.
* `install_interrupted` is not among the faults a completed operation clears.
* A fire is stamped in the tick and its operation saved by the driver later: a death
  in between loses the fire. The tick's set of installed apps is older than the
  locks it then takes.
* A row that never fired looks back five minutes only: the boundary before that is
  not caught up with (the exception in `CaughtUp`).

*Replay*

* `stop` borrows its deadline from an earlier wait for `Terminated` on the same
  resource (`runtime.rs:1649`); a stop deadline that the closure handles shifts the
  positions of later calls, and the next pass diverges.
* `rt.restart` bumps on every pass (`runtime.rs:1737`, against `runtime.md:730`), and a
  stop is undone when the operation ends.
* An effect made before the flush is made again after a crash: at most once per
  crash, not at most once.
* A caught cancel is not sticky; a barrier caught at the end of a closure completes
  it; a failed `exec` or `write` that is caught shifts positions; `exec` and `write`
  are matched by kind alone; a closure edited to be shorter completes silently.
* The outcome of a terminated resource is computed anew in each pass.
* Clean-up gives up after 60 s and deletes rows while containers run
  (`lifecycle.rs:603`); a failed insert of a dynamic instance is only logged.

*Generations*

* A value and its bump are separate statements: after a crash between them a retry
  of the same value is a no-op, and the history never gets it (against
  `runtime.md:125`).
* A `set_param` that raced an update writes its older generation into the app's row,
  and the next start loads the old definition (`params.rs:119`).
* `previous` is stale when two requests overlap, and two overlapping reloads can
  leave memory on the older values; `Agreement` says what holds otherwise.
* An operation may be accepted between the gate and the commit; a refused
  `schedule_on_change` leaves the change committed (`params.rs:370`).
* `invoke_action` reads the generation, asks for the slot and clones the App under
  three locks (`actions.rs:208`, `actions.rs:214`, `lifecycle.rs:778`). A change that
  completes in between leaves an operation whose recorded target is older than the App
  it runs with; `Agreement` says that the App is never the older of the two, and that
  they are the same when no change met an invocation. A change under way when the
  operation starts, or a replay after it, gives the operation the newer App likewise.

*Reconciler*

* A second edit during a rollout can wedge it (`Wedged`); a failed observation or a
  restart in a rollout drops the surplus.
* An observation equal to the last one written is dropped, and with it a second
  `health_check_pass` (`state.rs:386`); a demoted instance whose stop failed is
  retired with its container running (`state.rs:283`).
* A stale Job is stopped and not started again (`pods.rs:408`: it "previously ran"),
  where `r[update.jobs]` (`docs/spec/runtime.md:1247`) has it restarted immediately.
  `JobOnce` takes no side: it says nothing of a Job that was stopped as stale. A Job
  that ran and was stopped by the operator does not start again either.
* `persist_obs` marks an observation as written before it inserts it and drops the
  error of the insert (`state.rs:386-403`); a `container_running` lost that way lets a
  finished Job run again after a restart. The model's inserts succeed.
* The victim of a rollout is chosen without regard to health; the replacement guard
  survives a change of generation across a crash.
* When every app of a tick is dropped for database errors the tick answers "idle" and
  the loop sleeps until notified (`reconcile.rs:1030`).

*Certificates*

* An order outlives the policy that asked for it (`store.rs:300`); an answer after a
  deletion recreates the row (`store.rs:813`).
* A forced retry clears the marker of the open attempt, so a later policy change
  strands it (`store.rs:1384`); an ACME attempt left pending by a crash gets the
  outcome of a later Canopy one.
* A retry can stay queued on a revoked row; the replacement of a revoked certificate
  is not collected while the proxy serves its own; a revocation decided from a stale
  reading of a one-step chain leaves the hostname with Canopy.
* An untyped app, no policy that names Canopy and no filed fault take Canopy out of
  play (`certificates.rs:108`, `:197`), and the tick then looks at no revocation: a
  condemned certificate issued before is served on, where `r[tls.canopy.revoked]`
  (`docs/spec/runtime.md:1896`) says it is no longer served once Canopy reports it.
  `RevocationHeard` is about a hostname that keeps Canopy in play.
* An answer writes the position its question was asked from, and a policy change in
  between only cleared the row: set to another policy and back, a hostname whose cycle
  had passed to the proxy returns to Canopy, under the position of a one-step chain or
  of a retry that the change had ended. A hostname has one position, so an answer
  about one certificate also replaces that of another which an operator has uploaded and
  retried meanwhile. `PassesOn` is about questions of the cycle that runs (`OfThisCycle`)
  and excepts both; it took two edits to see, and the run allows one.

*Sessions*

* The writes of a session are awaited inside the arms of its `select!`
  (`shells/session.rs:535`, `:546`, `volume_session.rs:422`, `:433`,
  `forwards/session.rs:251`), and so is the input that came with the request
  (`shells/session.rs:517`). While the client is connected and does not read, a stop,
  an update or the end of the container is not heard; while the container does not
  read, the loss of the connection is not heard either. `i[shell.close]`
  (`docs/spec/interface.md:670`) lists each of them as an end of the session without
  that condition.
* TCP tunnels are not closed by a stop or an update (`forwards/session.rs:288`, against
  `interface.md:792`).
* After the key counter wraps, a TCP forward that shares a key with a UDP one removes
  its index entry, and two sessions between `alloc_key` and `insert` can share a key
  (`registry.rs:90`).
* An update removes by service name and not by port, and a request that looked up the
  service before it registers after it; uninstall removes nothing.
* A relay that cannot bind ends without status while its forward stays listed.
* The sweep takes its snapshot of sessions before it lists containers and removes a
  shell started in between (`reconcile.rs:1563`); volume shells carry another label and
  wait for the next start; networks leak until then after some failures; the sweep
  stops while the loop is idle. A closure that waits on a barrier cannot be stopped.

*Volumes*

* The pod phase and the volume phase run beside each other although `pod.rs:139` says
  "no concurrent race is possible": a pod creates the canonical directory, the
  migration finds it empty and removes it under the started container, or it is
  observed first and the legacy data is never migrated (`Strayed`).
* An update and an uninstall delete the rows of a volume whose hold failed
  (`apps.rs:1991`).
* A crash between rename and `meta.json` leaves held data unlisted; one between hold
  and row a site volume that cannot be deleted.
* Deleting a held volume while it is restored leaves data without a row; creating one
  while it is deleted a row without data; deleting a snapshot while its name is
  deleted and created again removes the managed data directly.
* A snapshot or promotion onto an existing path nests in it and can then not be
  removed; with btrfs a create fails for ever on an orphan directory.
* The legacy path `<app>-<volume>` can be another app's canonical path, and an app
  named `site` collides with site volumes.

## Proofs

Eight modules hold theorems, checked by TLAPS to the last leaf. They hold for every
value of the constants, so for any number of apps, handlers, operations, crashes,
volumes, keys or minutes, under the assumptions that the modules state by name and
TLC evaluates: the types of the constants (`ConstAssumption`, `TimeAssumption`,
`BoundsAssumption`, `SessionsAssumption`, `VolumesAssumption`, …), that `None` and the
other markers are none of the values they stand beside (`NoneAssumption`,
`RowAssumption`, `PlacesAssumption`), and what a closure is (`ScriptsAssumption`: a
barrier is on an earlier call that returned a `Started`). Where a theorem needs more,
its statement says so.

| module | theorem | states | hypotheses |
|---|---|---|---|
| `OperationsProofs` | `TypeCorrect`, `SlotExclusive`, `QueueOrderly` | `TypeOK`, `SlotOwner`, `QueueDiscipline` | – |
| | `CancelOwn`, `RunsOnce`, `CancelSurvives` | `CancelScoped`, `NoRerun`, `CancelKept` | `~Aborts` |
| | `SlotAlwaysServed` | `SlotServed` | no `param`, `deregister` |
| | `NeverStuck` | `NoStuckInstalling` | `~Aborts`, no `deregister` |
| | `StoreEnough` | `StoredSuffices` | `~Aborts`, no `param`, `register`, `deregister` |
| `SchedulesProofs` | `FiresOnce`, `CatchesUp` | `StampedFiresOnce`, `CaughtUp` | – |
| `ReplayProofs` | `TypeCorrect`, `NeverSleptThrough`, `EveryContainerKnown` | `TypeOK`, `NoLostWakeup`, `NoOrphans` | – |
| | `LedgerImplemented`, `ReplaysFaithfully` | the refinement `Ledger`, `ReplayFaithful` | `CatchesBarriers` |
| | `EffectsOnce` | `EffectsKept` | `CatchesBarriers`, `MaxBumps <= 1` |
| | `BarriersHold` | `BarrierHolds` | `CatchesBarriers`, `OwnStops` |
| `GenerationsProofs` | `HistoryHolds`, `EntryAgrees` | `HistoryTells`, `Agreement` | – |
| `ReconcileProofs` | `JobRunsOnce`, `NothingOrphaned`, `FaultsBind`, `RolloutKeepsScale` | `JobOnce`, `NoOrphans`, `GuardsHold`, `RolloutServes` | – |
| `CertificatesProofs` | `TypeCorrect`, `OneOrderOnly`, `InTime`, `LateHarmless`, `PassedOn` | `TypeOK`, `OneOrder`, `FallsThroughInTime`, `LateAnswersHarmless`, `PassesOn` | – |
| `SessionsProofs` | `RegistriesAgree` | `RegistryTrue` | – |
| `VolumesProofs` | `DataKept`, `RecordsAgree` | `NoDataLost`, `Listed` | – |

**Operations.** The inductive invariant of `OperationsProofs` is

    IInv == TypeOK /\ HandlerOK /\ BootQuiet /\ SlotOwner /\ QueueDiscipline

* `SlotOwner` alone is not inductive: that a handler about to spawn finds no
  driver needs to know that whoever else holds the slot would show as `active`;
  its two halves carry each other.
* `HandlerOK` ties a handler's place to what it holds: an app once it has begun, an
  operation at `request`, `spawn` and `flag`, so a taken slot never holds `None`.
* `BootQuiet` says that until start-up is over nobody requests and the slot is
  free before the replay: otherwise `Replay`, which writes the slot without a
  guard, could overwrite an owner.
* `QueueDiscipline`'s first line makes `Accept` sound, which looks at the slot and
  not at the queue.

There is one lemma per action that disturbs a part of `IInv`, and one for each
group of actions that only move a handler or the driver along (`MoveKeeps`,
`ResultKeeps`).

**Cancels and reruns.** Their theorems assume `~Aborts`, a driver that ends clears
its row, and needs it: a panic leaves the row, the next save keeps its flag and the
next start runs it again (the limits above). On top of `IInv`, `CInv` says that the row
belongs to the driver at work or waits for start-up to look at it (`RowOwned`), and
that a flagged row and a set token each have someone who asked (`RowAsked`,
`TokenAsked`). `NoRerun` and `CancelKept` speak of ids, so `WInv` follows them: an id is
drawn once (`Drawn`), waits with one handler or at one place of the queue (`Distinct`)
or has begun, never both (`Waits`); what is in the slot or in the row has no result yet
(`Pending`); and between `cancel_action`'s two writes the token bridges the gap until
the row has the flag (`Flags`).

**Phases.** Their theorems name the requests they leave out, each a limit of the code
that the runs leave out too: an accepted `on_change` operation is never spawned
(`param`), `deregister_app` removes an app under an operation accepted for it, and a
`register` or a `param` handler can persist a phase it read too early. `SlotServed`
needs that an operation in circulation is on a registered app (`Present`).
`NoStuckInstalling` needs `PInv`: `Installing` – in memory, in the database and in the
hands of a handler between reading the phase and storing it – goes with the install at
work on the app, and what start-up finds of it is explained by the row (`Recovery`).
`StoredSuffices` needs `KInv`: memory and database differ only while someone is about
to write, and what is about to be written is what memory holds (`Persists`), and the
sweep of start-up and a tick never tear down an app that someone is installing
(`Swept`).

**Schedules.** `SInv`: a recorded fire is no later than the stamp of its row (`Told`),
and a stamp later than the row's declaration is the time of a fire (`Answered`). The
rest is arithmetic on boundaries (`BoundaryAround`, `NextMonotone`, `NoneBetween`), true
for every period.

**Replay.** Each `rt.*` call is first reduced to one of three things it does to the
position and the entries (`CallStep`: it stays, replays the entry at its position, or
records a new one), and the invariants are argued from that. `IInv` says that the
entries of a pass come in an order in which the log can take them and leave no gap
(`Ordered`), that a barrier finds its anchor (`Anchored`) and that the row goes when
the operation ends (`RowKept`). `NoLostWakeup` adds `Notified`, `NoOrphans` adds `Rowed`
(the rows cover what log and pass have started). The refinement maps the position to
the ledger's calls; `Counted` – the position has passed every logged call before the
instruction pointer – is what makes `Completed` mean that no call is missing. It
assumes `CatchesBarriers`: a logged call whose exception the closure catches is neither
made nor recorded, and the ledger has no such calls. With that hypothesis the position
in a pass is exactly the number of logged calls before the instruction pointer
(`Exact`), which ties every entry, in the log or of the pass, to a call of the closure
nobody edited, with that call's kind and the answer it gave (`Tied`): `ReplayFaithful` is
then a case distinction over the calls. `EffectsKept` counts. `Served` says that a signal on record
was delivered, that the log and the pass agree at each position, and that every signal
the pass has gone by is on record; since positions are an injection of call sites, the
signals delivered are at least as many as the sites. `Bounded` says that what was
carried out is at most the effect sites of a pass times the crashes, plus the sites done
since, plus the bump of a restart; the bumps are the reason for `MaxBumps <= 1`, which is the bound of the
run as well: `rt.restart` counts up again in each pass, and its count is no effect of the signals.
`BarrierHolds` goes by two more invariants, which TLC checked on the instance of the
run first. `Barred` ties each barrier record of an entry to one call – its anchor's
position and its number among the barriers on it determine the call (`WaitSite`,
`WaitOnce`) – and what is recorded is known of that call: a barrier recorded as met is
in `resolved`, one that is not waits at least as long as its record is old. `Placed`
says where a pass is: anchors are at their positions, the barriers on each are
counted (`Numbered`), an entry of the pass says nothing of the barriers ahead that the
log does not say (`Fresh`), and those behind were met or ran out (`Behind`). `OwnStops`
– a stop with a deadline is the only wait for its resources to terminate – is needed
because `do_stop` takes the start of its wait from the first entry over the same
resources, the limit named above; the closures of the run satisfy it.

**Generations.** What the history says of a parameter is a choice of a greatest
element; `HInv` names that element (`Says`), so that a new row is a step of arithmetic,
and keeps that only the database call at work lets the history lag, for the parameter
it is about (`Told`, `Locked`). `AInv` says, step of the change by step, which of entry,
row and history are level, while changes do not overlap. `OInv` is about operations: a
generation whose row is complete says the same ever after (`PastKept`), so an App that
is of generation `n` stays so (`Good`, `GoodKept`); whoever names a generation names one
that the entry has come to (`Fresh`), and the entry never goes back (`EntryStep`). Where
no change met an invocation, all of them name the newest (`Apart`). `Spawning` gives the
invocation that spawns an operation the slot to itself.

**Reconcile.** `IInv`: what a tick saw gone stays gone until it acts and what it
stopped until it has recorded it (`Stopped`), for an instance without a pod gets one
from the tick only; so `NoOrphans` carries itself. The start of a Job is remembered by
the tick that made it and then by the reconciler while the daemon lives, and that it was
seen running by what is written, which is in the history (`Remembered`); a fault on record keeps surplus and replacement away
even after a restart has forgotten the guard (`Guarded`). `RolloutServes` needs that a tick which aims at a
surplus keeps one instance more than the lower bound (`Surplus`). That
`ensure_scaled_group` keeps as many as it was asked for is a counting argument:
the rows are in a strict total order (`InOrder`), so ranking them by the number of those
before them is an injection into an interval of their number, hence onto it
(`RankedPrefix`, `FirstSize`). The upsets of a tick, its failing calls and a crash in it are all in.

**Certificates.** The decisions are functions of a reading, so a first group of lemmas
says what they compute from one (`Reading`, `ResolveOK`): positions that began in the
past and a renewal point inside the certificate's life. `IInv` keeps readings good:
every position, in the row (`Recorded`) or carried by the tick over its network calls
(`Carried`), began no later than now, and a certificate in service ends after it began
(`Lived`). With that `FallsThroughInTime` is arithmetic on `Halfway`, for every lifetime; it
holds with a retry queued as well. `OneOrder` is carried by `OneKey` and `OneOpen`, about
the certificates and the log apart, through every transaction that rewrites them
(`RowsMove`, `Becomes`). `LateAnswersHarmless` follows step by step. `PassesOn` compares
what the chain resolves to before and after a step. That depends on the recorded
position, if it is the running cycle's, and on the renewal point else (`PlaceOf`), and a
cycle that began no later has passed to the proxy no later (`PassedMono`). So a step
can only bring the hostname back by writing the position of a question in flight, and
the invariant (`Abreast`) is that such a question was asked from no later than the
position it is about to replace; what a tick read with a retry queued counts from the
cycle that the retry restarts. A chain that arrives clears the position, and what is
served beside it is as new as the chain (`Born`), so not due yet or already the proxy's.

**Sessions.** `FInv`: until a connection's counter has gone round, the keys in use are
below it and distinct (`FreshKeys`); the index by key leads to forwards that were
given the key and are listed (`KeysTrue`); the listed ones are at work and are found
by connection and key (`IdsTrue`). Neither index is right without the other two.

**Volumes.** `VInv`: data and containers are where a directory is (`Real`), an id not
yet generated has none (`Fresh`), and under the reserved names what is used has a row
that a delete takes away only when the directory is gone (`Reserves`); so the sweep of a
start removes nothing that is used. `LInv`, without collisions and interruptions: a
request is alone with its names (`Alone`), so what it found there stays true until its
next step (`Midway`), and all names that no request is half-way through agree with
their records (`SitesAgree`, `HeldAgree`). Each action is reduced to the places it
changes (`Handled`, `Serves`, `Softly`, `Still`); a place that it leaves alone keeps its
agreement (`Kept`).

Only model-checked:

* the liveness properties (`CancelEnds`, `TeardownEnds`, `HandOver`, `Ends`,
  `CancelHeard`, `Converges`, `RevocationHeard`, `SessionsEnd`, `StraysGone`,
  `ComesUp`): fairness is out of the prover's reach. Every other property that
  a passing run checks is stated by a theorem, under the hypotheses of the table.

## Not modelled

The models cover the parts that keep state under concurrency and failure. Most of
the repository's lines are elsewhere: definitions and their evaluation, protocol
types, drivers, formatting, the client and the front end. About an eighth of the
implementation's lines is mapped, and that share cannot become large without
translating code that has no states to check.

* *Operator interface server, authentication, event stream, CLI, web*: I/O around
  single requests; that handlers run concurrently is what `Operations` and
  `Generations` take from them, and the end of a connection is in `Sessions`.
* *BSL evaluation*: builds definitions from scripts; a definition is a constant.
* *System drivers* (podman, systemd, Caddy, nftables): external effects, modelled by
  what the callers see of them, failures included.
* *Retry gates, restart counters, garbage collection, images*: see the plan.
* *Site ingresses, services, proxy*: rules over names and addresses, rebuilt whole on
  every tick.
* Inside the modelled parts: barriers on several resources or without an anchor,
  clock steps, batch installs, secrets and validators, several hostnames on one
  certificate, staged certificates, Canopy's leases and reports, tmpfs and external
  volumes, and colliding paths of several apps. `components` in `PROJECT.json` says so
  for each part.

## Plan

Done in this order: `Scheduler`, `Operations`, `Schedules` and their first theorems;
`Replay` and `CallLedger`; `Reconcile`; `Certificates`; `Generations`; `Sessions`;
`Volumes`; theorems about each of them. Every module is written without `RECURSIVE` so
that theorems can follow.

Modules next: `RetryGate` (back-off: capped and monotone, as a theorem), `Gc` (a sweep
that spares the operation at work), images, and `OperationLedger`, an abstract
specification of what the slot and the row promise together.
