----------------------------- MODULE Schedules -----------------------------
(***************************************************************************)
(* Scheduled actions (runtime/schedules.rs): rows (app, action, cronexpr)  *)
(* with the time they last fired, a ticker that looks at them at most once *)
(* a minute, and the operation scheduler they compete for with operators.  *)
(*                                                                         *)
(* Time is counted in minutes.  A cron expression is its period: it falls  *)
(* due at every multiple of Period.  The driver of an accepted operation   *)
(* is kept to what matters here: it saves the current_operation row some   *)
(* time after the slot was taken, and ends.  Operations has the rest of    *)
(* it.                                                                     *)
(***************************************************************************)
EXTENDS Scheduler, Integers, FiniteSets

CONSTANTS
  Rows,       \* action_schedules rows a definition may declare
  RowApp,     \* the app of each row
  Never,      \* last_fired_at IS NULL
  Period,     \* minutes between two cron boundaries
  InitStamps, \* last_fired_at of the rows at first sight
  MaxTime,    \* bound: minutes
  MaxOps,     \* bound: operations
  MaxCrashes  \* bound: daemon deaths

\* A row that never fired is looked at as if it had fired 300 seconds ago.
Window == 5
Start == Window

ASSUME RowAssumption == RowApp \in [Rows -> Apps] /\ Never \notin Int
ASSUME TimeAssumption == /\ Period \in Nat \ {0} /\ InitStamps \subseteq {Never, Start}
                         /\ MaxTime \in Nat /\ MaxOps \in Nat /\ MaxCrashes \in Nat

VARIABLES
  now,        \* the clock
  present,    \* rows of action_schedules
  stamp,      \* last_fired_at of each row
  since,      \* history: when each row was declared
  installed,  \* apps in phase Installed
  check,      \* ScheduleTicker.last_check
  tick,       \* "idle", "snap" (phases read), "rows" (holding scheduler and db)
  seen,       \* apps the tick saw installed
  todo,       \* rows the tick has still to look at
  persisted,  \* current_operation
  up,         \* is the daemon running?
  nextId,
  fires,      \* history: schedule fires
  crashes     \* bound only

tickVars == <<check, tick, seen, todo>>
rowVars == <<present, stamp, since>>
vars == <<schedVars, now, rowVars, installed, tickVars, persisted, up, nextId, fires, crashes>>

\* A fire, and the scheduler's answer to it.
Fire == [id : Nat, row : Rows, at : Nat, answer : {"accepted", "queued"}]

Init ==
  /\ SchedInit
  /\ now = Start
  /\ present = Rows
  /\ stamp \in [Rows -> InitStamps]
  /\ since = [r \in Rows |-> Start]
  /\ installed = Apps
  /\ check = Never /\ tick = "idle" /\ seen = {} /\ todo = {}
  /\ persisted = None
  /\ up = TRUE
  /\ nextId = 1
  /\ fires = {}
  /\ crashes = 0

\* The tick holds the scheduler's lock and the database thread.
Unlocked == up /\ tick # "rows"

-----------------------------------------------------------------------------
(* The ticker.                                                             *)

\* ScheduleTicker::maybe_tick, and the phases read before the lock is taken.
TickSnapshot ==
  /\ up /\ tick = "idle"
  /\ check # Never => now > check
  /\ check' = now
  /\ seen' = installed
  /\ tick' = "snap"
  /\ UNCHANGED <<schedVars, now, rowVars, installed, todo, persisted, up, nextId,
                 fires, crashes>>

\* check_due_schedules begins: list_all_schedules, in no particular order.
TickRows ==
  /\ up /\ tick = "snap"
  /\ nextId + Cardinality(present) <= MaxOps + 1
  /\ todo' = present
  /\ tick' = IF present = {} THEN "idle" ELSE "rows"
  /\ UNCHANGED <<schedVars, now, rowVars, installed, check, seen, persisted, up,
                 nextId, fires, crashes>>

\* base_time.
Base(r) == IF stamp[r] = Never THEN now - Window ELSE stamp[r]

\* crontab.find_next: the first boundary after t.
FindNext(t) == (t \div Period + 1) * Period

\* Faulty form: only a boundary of the last minute counts.
DueThisMinute(r) == FindNext(Base(r)) = now

Due(r) == FindNext(Base(r)) <= now

RowDone(r) == /\ todo' = todo \ {r}
              /\ tick' = IF todo = {r} THEN "idle" ELSE "rows"
              /\ UNCHANGED <<now, present, since, installed, check, seen, persisted, up, crashes>>

FireOp(r) == [id |-> nextId, app |-> RowApp[r], kind |-> "action"]
Record(r, answer) ==
  fires' = fires \cup {[id |-> nextId, row |-> r, at |-> now, answer |-> answer]}

\* Faulty form: the fire is not stamped.
Unstamped(r) == UNCHANGED stamp

\* upsert_schedule_fired.
StampFired(r) == stamp' = [stamp EXCEPT ![r] = now]

\* Not due, or its app was not installed when the tick looked.
SkipRow(r) ==
  /\ tick = "rows" /\ r \in todo
  /\ ~Due(r) \/ RowApp[r] \notin seen
  /\ RowDone(r)
  /\ UNCHANGED <<schedVars, stamp, nextId, fires>>

\* Due: accepted (stamped), queued (not stamped) or rejected.
FireRow(r) ==
  /\ tick = "rows" /\ r \in todo
  /\ Due(r) /\ RowApp[r] \in seen
  /\ RowDone(r)
  /\ \/ Accept(FireOp(r)) /\ StampFired(r) /\ Record(r, "accepted") /\ nextId' = nextId + 1
     \/ Enqueue(FireOp(r)) /\ UNCHANGED stamp /\ Record(r, "queued") /\ nextId' = nextId + 1
     \/ Reject(RowApp[r]) /\ UNCHANGED <<stamp, fires, nextId>>

-----------------------------------------------------------------------------
(* Everybody else.                                                         *)

\* An operator's action of an installed app (invoke_action).
OperatorRequest(a) ==
  /\ Unlocked /\ a \in installed
  /\ nextId <= MaxOps /\ nextId' = nextId + 1
  /\ LET o == [id |-> nextId, app |-> a, kind |-> "action"]
     IN Accept(o) \/ Enqueue(o)
  /\ UNCHANGED <<now, rowVars, installed, tickVars, persisted, up, fires, crashes>>

\* save_current_operation, and then the operation runs.
OperationSave ==
  /\ Unlocked /\ active # None /\ persisted = None
  /\ persisted' = active
  /\ UNCHANGED <<schedVars, now, rowVars, installed, tickVars, up, nextId, fires,
                 crashes>>

\* The operation ends; the head of the queue takes the slot.
OperationEnd ==
  /\ Unlocked /\ active # None /\ persisted = active
  /\ CompleteCurrent
  /\ persisted' = None
  /\ UNCHANGED <<now, rowVars, installed, tickVars, up, nextId, fires, crashes>>

\* A teardown, and an install, of an app with no operation.
Uninstall(a) ==
  /\ Unlocked /\ a \in installed
  /\ installed' = installed \ {a}
  /\ UNCHANGED <<schedVars, now, rowVars, tickVars, persisted, up, nextId, fires,
                 crashes>>
Install(a) ==
  /\ Unlocked /\ a \notin installed /\ ~HasOperationFor(a)
  /\ installed' = installed \cup {a}
  /\ UNCHANGED <<schedVars, now, rowVars, tickVars, persisted, up, nextId, fires,
                 crashes>>

\* sync_action_schedules: rows the definition no longer declares are pruned,
\* rows it newly declares start without a stamp, the others keep theirs.  A
\* row that comes back is another row: its history starts again.
SyncSchedules(a, S) ==
  /\ Unlocked /\ ~HasOperationFor(a)
  /\ LET dropped == {r \in present : RowApp[r] = a} \ S
         added   == S \ present
     IN /\ present' = (present \ dropped) \cup added
        /\ stamp' = [r \in Rows |-> IF r \in dropped \cup added THEN Never ELSE stamp[r]]
        /\ since' = [r \in Rows |-> IF r \in added THEN now ELSE since[r]]
        /\ fires' = {f \in fires : f.row \notin dropped}
  /\ UNCHANGED <<schedVars, now, installed, tickVars, persisted, up, nextId, crashes>>

Advance ==
  /\ now < MaxTime /\ tick = "idle"
  /\ now' = now + 1
  /\ UNCHANGED <<schedVars, rowVars, installed, tickVars, persisted, up, nextId,
                 fires, crashes>>

Crash ==
  /\ up /\ crashes < MaxCrashes
  /\ crashes' = crashes + 1 /\ up' = FALSE
  /\ active' = None /\ token' = FALSE /\ queue' = <<>>
  /\ check' = Never /\ tick' = "idle" /\ seen' = {} /\ todo' = {}
  /\ UNCHANGED <<now, rowVars, installed, persisted, nextId, fires>>

\* replay_interrupted_operation: the persisted operation goes on, or is
\* dropped when its app is not installed any more.
Restart ==
  /\ ~up
  /\ up' = TRUE
  /\ IF persisted # None /\ persisted.app \in installed
       THEN active' = persisted /\ UNCHANGED persisted
       ELSE persisted' = None /\ UNCHANGED active
  /\ UNCHANGED <<token, queue, now, rowVars, installed, tickVars, nextId, fires,
                 crashes>>

RowsOf(a) == {r \in Rows : RowApp[r] = a}

Next ==
  \/ TickSnapshot \/ TickRows
  \/ \E r \in Rows : SkipRow(r) \/ FireRow(r)
  \/ \E a \in Apps : \/ OperatorRequest(a) \/ Uninstall(a) \/ Install(a)
                     \/ \E S \in SUBSET RowsOf(a) : SyncSchedules(a, S)
  \/ OperationSave \/ OperationEnd
  \/ Advance
  \/ Crash \/ Restart

Spec == Init /\ [][Next]_vars

-----------------------------------------------------------------------------
(* Properties.                                                             *)

TypeOK ==
  /\ active \in Operation \cup {None} /\ token \in BOOLEAN /\ queue \in Seq(Operation)
  /\ now \in Nat /\ present \subseteq Rows /\ stamp \in [Rows -> Nat \cup {Never}]
  /\ since \in [Rows -> Nat]
  /\ installed \subseteq Apps
  /\ check \in Nat \cup {Never} /\ tick \in {"idle", "snap", "rows"}
  /\ seen \subseteq Apps /\ todo \subseteq Rows
  /\ persisted \in Operation \cup {None} /\ up \in BOOLEAN /\ nextId \in Nat
  /\ fires \subseteq Fire /\ crashes \in Nat

\* A boundary falls between two times.
Between(s, t) == FindNext(s) <= t

\* r[schedule.catch-up] "fires exactly once": after a fire that was accepted, and
\* so stamped, no other fire answers the same boundary, whatever operations,
\* restarts, reinstalls and missed boundaries lie between.
StampedFiresOnce ==
  \A f, g \in fires : f.row = g.row /\ f.id < g.id /\ f.answer = "accepted"
                        => Between(f.at, g.at)

\* r[schedule.catch-up]: when a tick has looked at a row of an installed app
\* that had no other operation, the last boundary since the row was first
\* seen has been answered by a fire, however long the daemon was away.  (A row
\* that never fired is looked at five minutes back and no further.)
LastBoundary == (now \div Period) * Period
CaughtUp ==
  [][\A r \in Rows :
       /\ r \in todo /\ r \notin todo' /\ up'
       /\ RowApp[r] \in seen /\ ~HasOperationFor(RowApp[r])
       /\ LastBoundary > since[r]
       /\ stamp[r] = Never => LastBoundary > now - Window
       => \E f \in fires' : f.row = r /\ f.at >= LastBoundary]_vars

=============================================================================
