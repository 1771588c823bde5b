-------------------------- MODULE OperationsProofs --------------------------
(***************************************************************************)
(* Theorems about Operations, for every set of apps and handlers, every    *)
(* choice of requests and every bound.                                     *)
(*                                                                         *)
(* SlotOwner and QueueDiscipline are proved with IInv, which adds to them  *)
(* the types, what a handler carries from step to step, and that nothing   *)
(* but the start-up sequence runs before the sweep.                        *)
(***************************************************************************)
EXTENDS Operations, TLAPS

\* What a handler carries: the app once it is at work, and an operation
\* while it is about to request, spawn or flag one.
HandlerOK == \A h \in Handlers :
  /\ hs[h].pc # "idle" => hs[h].app \in Apps
  /\ hs[h].pc \in {"request", "spawn", "onChange", "flag"} => hs[h].op \in Operation

\* Requests come only when the daemon is up, and until it has looked at the
\* persisted operation the slot is free and no driver runs.
BootQuiet ==
  /\ boot # "up" => \A h \in Handlers : hs[h].pc = "idle"
  /\ boot \in {"load", "replay"} => pc = "idle" /\ active = None

IInv == TypeOK /\ HandlerOK /\ BootQuiet /\ SlotOwner /\ QueueDiscipline

-----------------------------------------------------------------------------
(* A handler's step changes its own record only.                           *)

\* Handler h is now at p with app a and operation o; the others stayed.
Moved(h, p, a, o) ==
  /\ hs' \in [Handlers -> Handler]
  /\ hs'[h].pc = p /\ hs'[h].app = a /\ hs'[h].op = o
  /\ \A g \in Handlers : g # h => hs'[g] = hs[g]

\* A request begins: the handler holds the app and operation it was given.
LEMMA BeginMoves ==
  ASSUME hs \in [Handlers -> Handler], NEW h \in Handlers, NEW p \in HandlerPc,
         NEW a \in Apps \cup {None}, NEW o \in Operation \cup {None}, Begin(h, p, a, o)
  PROVE  Moved(h, p, a, o)
<1>1. [pc |-> p, app |-> a, op |-> o, val |-> "Absent"] \in Handler
  BY DEF Handler, MaybePhase
<1> QED BY <1>1 DEF Begin, Moved

\* Goto keeps what the handler carries.
LEMMA GotoMoves ==
  ASSUME hs \in [Handlers -> Handler], NEW h \in Handlers, NEW p \in HandlerPc, Goto(h, p)
  PROVE  Moved(h, p, hs[h].app, hs[h].op)
<1>1. hs[h] \in Handler /\ [hs[h] EXCEPT !.pc = p] \in Handler
  BY DEF Handler
<1>2. hs' = [hs EXCEPT ![h] = [hs[h] EXCEPT !.pc = p]]
  BY DEF Goto
<1>3. hs'[h] = [hs[h] EXCEPT !.pc = p]
  BY <1>2
<1>4. hs'[h].pc = p /\ hs'[h].app = hs[h].app /\ hs'[h].op = hs[h].op
  BY <1>1, <1>3 DEF Handler
<1> QED BY <1>1, <1>2, <1>4 DEF Moved

\* A finished handler carries nothing.
LEMMA FinishMoves ==
  ASSUME hs \in [Handlers -> Handler], NEW h \in Handlers, Finish(h)
  PROVE  Moved(h, "idle", None, None)
<1>1. IdleHandler \in Handler
  BY DEF IdleHandler, Handler, HandlerPc, MaybePhase
<1> QED BY <1>1 DEF Finish, Moved, IdleHandler

\* A handler at work is on an app, with the daemon up.
LEMMA AtWork ==
  ASSUME IInv, NEW h \in Handlers, hs[h].pc # "idle"
  PROVE  boot = "up" /\ hs[h] \in Handler /\ hs[h].app \in Apps
BY DEF IInv, TypeOK, HandlerOK, BootQuiet

\* A step of a handler that leaves slot, queue and driver alone keeps the invariant,
\* if it does not become a spawner and carries what its new place needs.
LEMMA MoveKeeps ==
  ASSUME IInv, NEW h \in Handlers, NEW p, NEW a, NEW o, Moved(h, p, a, o),
         boot = "up", p # "spawn",
         p # "idle" => a \in Apps,
         p \in {"request", "onChange", "flag"} => o \in Operation,
         UNCHANGED <<active, queue, pc, op, boot>>
  PROVE  hs' \in [Handlers -> Handler] /\ HandlerOK' /\ BootQuiet' /\ SlotOwner' /\ QueueDiscipline'
<1>1. \A g \in Handlers : g # h => hs'[g] = hs[g]
  BY DEF Moved
<1>2. HandlerOK'
  BY <1>1 DEF IInv, HandlerOK, Moved
<1>3. BootQuiet'
  BY DEF BootQuiet
<1>4. SlotOwner'
  BY <1>1 DEF IInv, SlotOwner, Moved
<1>5. QueueDiscipline'
  BY DEF IInv, QueueDiscipline
<1> QED BY <1>2, <1>3, <1>4, <1>5 DEF Moved

\* SetPhase and StorePhase keep phases phases.
LEMMA PhaseTypes ==
  ASSUME TypeOK, NEW a \in Apps, NEW p \in MaybePhase
  PROVE  /\ [phase EXCEPT ![a] = IF @ = "Absent" THEN @ ELSE p] \in [Apps -> MaybePhase]
         /\ [stored EXCEPT ![a] = IF @ = "Absent" THEN @ ELSE p] \in [Apps -> MaybePhase]
BY DEF TypeOK

-----------------------------------------------------------------------------
(* The steps that need an argument, one lemma each.                        *)

\* An install without an install action flips the phase and no more.
LEMMA InstallDirectStep ==
  ASSUME IInv, NEW h \in Handlers, InstallDirect(h)
  PROVE  IInv'
<1>1. boot = "up" /\ hs[h].app \in Apps
  BY AtWork DEF InstallDirect
<1>2. Moved(h, "extract", hs[h].app, hs[h].op)
  BY GotoMoves DEF InstallDirect, IInv, TypeOK, HandlerPc
<1>3. UNCHANGED <<active, queue, pc, op, boot>>
  BY DEF InstallDirect, schedVars, driverVars, bootVars
<1>4. hs' \in [Handlers -> Handler] /\ HandlerOK' /\ BootQuiet' /\ SlotOwner' /\ QueueDiscipline'
  BY <1>1, <1>2, <1>3, MoveKeeps
<1>5. phase' \in [Apps -> MaybePhase]
  BY <1>1, PhaseTypes DEF InstallDirect, SetPhase, IInv, MaybePhase, Phases
<1>6. TypeOK'
  BY <1>4, <1>5 DEF InstallDirect, IInv, TypeOK, schedVars, dbVars, driverVars, bootVars, histVars
<1> QED BY <1>4, <1>6 DEF IInv

\* schedule_on_change goes to the scheduler or gives up.
LEMMA ScheduleOnChangeStep ==
  ASSUME IInv, NEW h \in Handlers, ScheduleOnChange(h)
  PROVE  IInv'
<1>1. boot = "up" /\ hs[h].app \in Apps /\ hs[h].op \in Operation
  BY AtWork DEF ScheduleOnChange, IInv, HandlerOK
<1>2. Moved(h, "request", hs[h].app, hs[h].op) \/ Moved(h, "idle", None, None)
  BY GotoMoves, FinishMoves DEF ScheduleOnChange, IInv, TypeOK, HandlerPc
<1>3. UNCHANGED <<active, queue, pc, op, boot>>
  BY DEF ScheduleOnChange, schedVars, driverVars, bootVars
<1>4. hs' \in [Handlers -> Handler] /\ HandlerOK' /\ BootQuiet' /\ SlotOwner' /\ QueueDiscipline'
  BY <1>1, <1>2, <1>3, MoveKeeps
<1>5. TypeOK'
  BY <1>4 DEF ScheduleOnChange, IInv, TypeOK, schedVars, dbVars, driverVars, bootVars, histVars
<1> QED BY <1>4, <1>5 DEF IInv

\* The answers of the scheduler: a free slot is taken by one handler, with
\* no driver alive; a queued operation is the only one of its app; a
\* rejected one changes nothing.
LEMMA RequestSlotStep ==
  ASSUME IInv, NEW h \in Handlers, RequestSlot(h)
  PROVE  IInv'
<1>1. boot = "up" /\ hs[h].app \in Apps /\ hs[h].op \in Operation /\ hs[h].op # None
  BY AtWork, NoneAssumption DEF RequestSlot, IInv, HandlerOK
<1>2. CASE Accept(hs[h].op)
  <2>1. /\ active = None /\ pc = "idle" /\ queue = <<>>
        /\ \A g \in Handlers : hs[g].pc # "spawn"
    BY <1>2, <1>1 DEF Accept, IInv, SlotOwner, QueueDiscipline
  <2>2. \/ Moved(h, "spawn", hs[h].app, hs[h].op)
        \/ Moved(h, "idle", None, None)
    <3>1. Goto(h, "spawn") \/ Finish(h)
      BY <1>2, <2>1 DEF RequestSlot, Accept, Enqueue, Reject
    <3> QED BY <3>1, GotoMoves, FinishMoves DEF IInv, TypeOK, HandlerPc
  <2>3. /\ active' = hs[h].op /\ token' = FALSE
        /\ UNCHANGED <<queue, pc, op, boot>>
    BY <1>2 DEF Accept, RequestSlot, driverVars, bootVars
  <2>4. \A g \in Handlers : g # h => hs'[g] = hs[g]
    BY <2>2 DEF Moved
  <2>5. HandlerOK'
    BY <1>1, <2>2, <2>4 DEF IInv, HandlerOK, Moved
  <2>6. SlotOwner'
    BY <1>1, <2>1, <2>2, <2>3, <2>4 DEF SlotOwner, Moved
  <2>7. BootQuiet' /\ QueueDiscipline'
    BY <1>1, <2>1, <2>3 DEF BootQuiet, QueueDiscipline
  <2>8. TypeOK'
    BY <1>1, <2>2, <2>3 DEF Moved, RequestSlot, IInv, TypeOK, dbVars, driverVars, bootVars, histVars
  <2> QED BY <2>5, <2>6, <2>7, <2>8 DEF IInv
<1>3. CASE Enqueue(hs[h].op)
  <2>1. Finish(h) /\ active # None
    BY <1>3 DEF RequestSlot, Accept, Enqueue, Reject
  <2>2. Moved(h, "idle", None, None)
    BY <2>1, FinishMoves DEF IInv, TypeOK
  <2>3. queue' = Append(queue, hs[h].op) /\ UNCHANGED <<active, token, pc, op, boot>>
    BY <1>3 DEF Enqueue, RequestSlot, driverVars, bootVars
  <2>4. \A g \in Handlers : g # h => hs'[g] = hs[g]
    BY <2>2 DEF Moved
  <2>5. HandlerOK' /\ SlotOwner' /\ BootQuiet'
    BY <1>1, <2>2, <2>3, <2>4 DEF IInv, HandlerOK, SlotOwner, BootQuiet, Moved
  <2>6. /\ Len(queue') = Len(queue) + 1 /\ queue'[Len(queue) + 1] = hs[h].op
        /\ \A i \in 1..Len(queue) : queue'[i] = queue[i]
        /\ DOMAIN queue = 1..Len(queue) /\ DOMAIN queue' = 1..Len(queue')
        /\ Len(queue) \in Nat
    BY <1>1, <2>3 DEF IInv, TypeOK
  <2>7. /\ active.app # hs[h].op.app
        /\ \A i \in 1..Len(queue) : queue[i].app # hs[h].op.app
    BY <1>3, <2>1, <2>6 DEF Enqueue, HasOperationFor, IsActive, IsQueued
  <2>8. QueueDiscipline'
    <3>1. \A i \in DOMAIN queue' : i \in 1..Len(queue) \/ i = Len(queue) + 1
      BY <2>6
    <3> QED BY <2>1, <2>3, <2>6, <2>7, <3>1 DEF IInv, QueueDiscipline
  <2>9. TypeOK'
    BY <1>1, <2>2, <2>3 DEF Moved, RequestSlot, IInv, TypeOK, dbVars, driverVars, bootVars, histVars
  <2> QED BY <2>5, <2>8, <2>9 DEF IInv
<1>4. CASE Reject(hs[h].app)
  <2>1. Finish(h)
    BY <1>4 DEF RequestSlot, Accept, Enqueue, Reject
  <2>2. Moved(h, "idle", None, None)
    BY <2>1, FinishMoves DEF IInv, TypeOK
  <2>3. UNCHANGED <<active, token, queue, pc, op, boot>>
    BY <1>4 DEF Reject, RequestSlot, schedVars, driverVars, bootVars
  <2>4. hs' \in [Handlers -> Handler] /\ HandlerOK' /\ BootQuiet' /\ SlotOwner' /\ QueueDiscipline'
    BY <1>1, <2>2, <2>3, MoveKeeps
  <2>5. TypeOK'
    BY <2>3, <2>4 DEF RequestSlot, IInv, TypeOK, dbVars, driverVars, bootVars, histVars
  <2> QED BY <2>4, <2>5 DEF IInv
<1> QED BY <1>2, <1>3, <1>4 DEF RequestSlot

\* The only spawner hands the slot it holds to the driver.
LEMMA SpawnStep ==
  ASSUME IInv, NEW h \in Handlers, Spawn(h)
  PROVE  IInv'
<1>1. /\ boot = "up" /\ hs[h].op \in Operation
      /\ pc = "idle" /\ active = hs[h].op
      /\ \A g \in Handlers : hs[g].pc = "spawn" => g = h
  BY AtWork DEF Spawn, IInv, HandlerOK, SlotOwner
<1>2. Moved(h, "idle", None, None)
  BY FinishMoves DEF Spawn, IInv, TypeOK
<1>3. UNCHANGED <<active, token, queue, boot>>
  BY DEF Spawn, schedVars, bootVars
<1>4. (pc' = "idle" /\ op' = None) \/ (pc' = "begin" /\ op' = hs[h].op)
  BY DEF Spawn, Lookup
<1>5. \A g \in Handlers : g # h => hs'[g] = hs[g]
  BY <1>2 DEF Moved
<1>6. HandlerOK'
  BY <1>2, <1>5 DEF IInv, HandlerOK, Moved
<1>7. BootQuiet' /\ QueueDiscipline'
  BY <1>1, <1>3 DEF IInv, BootQuiet, QueueDiscipline
<1>8. SlotOwner'
  BY <1>1, <1>2, <1>3, <1>4, <1>5, NoneAssumption DEF SlotOwner, Moved
<1>9. TypeOK'
  BY <1>1, <1>2, <1>3, <1>4 DEF Spawn, Moved, IInv, TypeOK, DriverPc, MaybePhase, dbVars, bootVars, histVars
<1> QED BY <1>6, <1>7, <1>8, <1>9 DEF IInv

\* The cancel flag goes to a row, not to the slot.
LEMMA FlagCancelStep ==
  ASSUME IInv, NEW h \in Handlers, FlagCancel(h)
  PROVE  IInv'
<1>1. boot = "up" /\ hs[h].app \in Apps /\ hs[h].op \in Operation
  BY AtWork DEF FlagCancel, IInv, HandlerOK
<1>2. Moved(h, "idle", None, None)
  BY FinishMoves DEF FlagCancel, IInv, TypeOK
<1>3. UNCHANGED <<active, queue, pc, op, boot>>
  BY DEF FlagCancel, schedVars, driverVars, bootVars
<1>4. hs' \in [Handlers -> Handler] /\ HandlerOK' /\ BootQuiet' /\ SlotOwner' /\ QueueDiscipline'
  BY <1>1, <1>2, <1>3, MoveKeeps
<1>5. row' \in Row \cup {None}
  BY DEF FlagCancel, RowIs, IInv, TypeOK, Row
<1>6. acked' \subseteq Nat /\ flagged' \subseteq acked'
  BY <1>1 DEF FlagCancel, IInv, TypeOK, Operation
<1>7. TypeOK'
  BY <1>4, <1>5, <1>6 DEF FlagCancel, IInv, TypeOK, schedVars, driverVars, bootVars
<1> QED BY <1>4, <1>7 DEF IInv

\* A cancel sets the token and leaves the slot to its owner.
LEMMA CancelActionStep ==
  ASSUME IInv, NEW h \in Handlers, NEW a \in Apps, CancelAction(h, a)
  PROVE  IInv'
<1>1. boot = "up"
  BY DEF CancelAction, Idle
<1>2. (Moved(h, "flag", a, active) /\ active \in Operation) \/ Moved(h, "stuck", a, None)
  <2>1. ASSUME RequestCancel(a), Begin(h, "flag", a, active) PROVE Moved(h, "flag", a, active) /\ active \in Operation
    BY <2>1, BeginMoves DEF RequestCancel, IsActive, IInv, TypeOK, HandlerPc
  <2>2. ASSUME Begin(h, "stuck", a, None) PROVE Moved(h, "stuck", a, None)
    BY <2>2, BeginMoves DEF IInv, TypeOK, HandlerPc
  <2> QED BY <2>1, <2>2 DEF CancelAction
<1>3. UNCHANGED <<active, queue, pc, op, boot>>
  BY DEF CancelAction, RequestCancel, schedVars, driverVars, bootVars
<1>4. hs' \in [Handlers -> Handler] /\ HandlerOK' /\ BootQuiet' /\ SlotOwner' /\ QueueDiscipline'
  BY <1>1, <1>2, <1>3, MoveKeeps
<1>5. token' \in BOOLEAN
  BY DEF CancelAction, RequestCancel, schedVars, IInv, TypeOK
<1>6. TypeOK'
  BY <1>3, <1>4, <1>5 DEF CancelAction, IInv, TypeOK, dbVars, driverVars, bootVars, histVars
<1> QED BY <1>4, <1>6 DEF IInv

\* NoActiveOp leads to the stuck-phase recovery or to an error.
LEMMA CancelStuckStep ==
  ASSUME IInv, NEW h \in Handlers, CancelStuck(h)
  PROVE  IInv'
<1>1. boot = "up" /\ hs[h].app \in Apps
  BY AtWork DEF CancelStuck
<1>2. Moved(h, "unstick", hs[h].app, hs[h].op) \/ Moved(h, "idle", None, None)
  BY GotoMoves, FinishMoves DEF CancelStuck, IInv, TypeOK, HandlerPc
<1>3. UNCHANGED <<active, queue, pc, op, boot>>
  BY DEF CancelStuck, schedVars, driverVars, bootVars
<1>4. hs' \in [Handlers -> Handler] /\ HandlerOK' /\ BootQuiet' /\ SlotOwner' /\ QueueDiscipline'
  BY <1>1, <1>2, <1>3, MoveKeeps
<1>5. TypeOK'
  BY <1>4 DEF CancelStuck, IInv, TypeOK, schedVars, dbVars, driverVars, bootVars, histVars
<1> QED BY <1>4, <1>5 DEF IInv

\* The stuck-phase recovery changes a phase, not the slot.
LEMMA UnstickStep ==
  ASSUME IInv, NEW h \in Handlers, Unstick(h)
  PROVE  IInv'
<1>1. boot = "up" /\ hs[h].app \in Apps
  BY AtWork DEF Unstick
<1>2. Moved(h, "extract", hs[h].app, hs[h].op)
  BY GotoMoves DEF Unstick, IInv, TypeOK, HandlerPc
<1>3. UNCHANGED <<active, queue, pc, op, boot>>
  BY DEF Unstick, schedVars, driverVars, bootVars
<1>4. hs' \in [Handlers -> Handler] /\ HandlerOK' /\ BootQuiet' /\ SlotOwner' /\ QueueDiscipline'
  BY <1>1, <1>2, <1>3, MoveKeeps
<1>5. phase' \in [Apps -> MaybePhase]
  BY <1>1, PhaseTypes DEF Unstick, SetPhase, IInv, MaybePhase, Phases
<1>6. TypeOK'
  BY <1>1, <1>4, <1>5 DEF Unstick, IInv, TypeOK, schedVars, dbVars, driverVars, bootVars
<1> QED BY <1>4, <1>6 DEF IInv

\* The persist step reads the phase into its own record.
LEMMA HandlerExtractStep ==
  ASSUME IInv, NEW h \in Handlers, HandlerExtract(h)
  PROVE  IInv'
<1>1. boot = "up" /\ hs[h].app \in Apps /\ hs[h] \in Handler
  BY AtWork DEF HandlerExtract
<1>2. Moved(h, "idle", None, None) \/ Moved(h, "write", hs[h].app, hs[h].op)
  <2>1. CASE Finish(h)
    BY <2>1, FinishMoves DEF IInv, TypeOK
  <2>2. CASE hs' = [hs EXCEPT ![h].pc = "write", ![h].val = phase[hs[h].app]]
    <3>1. hs' = [hs EXCEPT ![h] = [hs[h] EXCEPT !.pc = "write", !.val = phase[hs[h].app]]]
      BY <2>2, <1>1 DEF IInv, TypeOK
    <3>2. [hs[h] EXCEPT !.pc = "write", !.val = phase[hs[h].app]] \in Handler
      BY <1>1 DEF IInv, TypeOK, Handler, HandlerPc
    <3>3. hs'[h].pc = "write" /\ hs'[h].app = hs[h].app /\ hs'[h].op = hs[h].op
      BY <1>1, <3>1 DEF IInv, TypeOK, Handler
    <3> QED BY <3>1, <3>2, <3>3 DEF Moved, IInv, TypeOK
  <2> QED BY <2>1, <2>2 DEF HandlerExtract
<1>3. UNCHANGED <<active, queue, pc, op, boot>>
  BY DEF HandlerExtract, schedVars, driverVars, bootVars
<1>4. hs' \in [Handlers -> Handler] /\ HandlerOK' /\ BootQuiet' /\ SlotOwner' /\ QueueDiscipline'
  BY <1>1, <1>2, <1>3, MoveKeeps
<1>5. TypeOK'
  BY <1>4 DEF HandlerExtract, IInv, TypeOK, schedVars, dbVars, driverVars, bootVars, histVars
<1> QED BY <1>4, <1>5 DEF IInv

\* The persist step writes what it read.
LEMMA HandlerWriteStep ==
  ASSUME IInv, NEW h \in Handlers, HandlerWrite(h)
  PROVE  IInv'
<1>1. boot = "up" /\ hs[h].app \in Apps /\ hs[h] \in Handler
  BY AtWork DEF HandlerWrite
<1>2. \/ Moved(h, "onChange", hs[h].app, hs[h].op) /\ hs[h].op \in Operation
      \/ Moved(h, "idle", None, None)
  BY <1>1, GotoMoves, FinishMoves DEF HandlerWrite, IInv, TypeOK, Handler, HandlerPc
<1>3. UNCHANGED <<active, queue, pc, op, boot>>
  BY DEF HandlerWrite, schedVars, driverVars, bootVars
<1>4. hs' \in [Handlers -> Handler] /\ HandlerOK' /\ BootQuiet' /\ SlotOwner' /\ QueueDiscipline'
  BY <1>1, <1>2, <1>3, MoveKeeps
<1>5. stored' \in [Apps -> MaybePhase]
  BY <1>1, PhaseTypes DEF HandlerWrite, StorePhase, IInv, Handler
<1>6. TypeOK'
  BY <1>4, <1>5 DEF HandlerWrite, IInv, TypeOK, schedVars, dbVars, driverVars, bootVars, histVars
<1> QED BY <1>4, <1>6 DEF IInv

\* deregister_app goes on or gives up.
LEMMA DeregisterCheckStep ==
  ASSUME IInv, NEW h \in Handlers, DeregisterCheck(h)
  PROVE  IInv'
<1>1. boot = "up" /\ hs[h].app \in Apps
  BY AtWork DEF DeregisterCheck
<1>2. Moved(h, "deregDb", hs[h].app, hs[h].op) \/ Moved(h, "idle", None, None)
  BY GotoMoves, FinishMoves DEF DeregisterCheck, IInv, TypeOK, HandlerPc
<1>3. UNCHANGED <<active, queue, pc, op, boot>>
  BY DEF DeregisterCheck, schedVars, driverVars, bootVars
<1>4. hs' \in [Handlers -> Handler] /\ HandlerOK' /\ BootQuiet' /\ SlotOwner' /\ QueueDiscipline'
  BY <1>1, <1>2, <1>3, MoveKeeps
<1>5. TypeOK'
  BY <1>4 DEF DeregisterCheck, IInv, TypeOK, schedVars, dbVars, driverVars, bootVars, histVars
<1> QED BY <1>4, <1>5 DEF IInv

\* The result of an operation leaves the slot with its driver.
LEMMA ResultKeeps ==
  ASSUME IInv, pc # "idle", NEW s \in BOOLEAN, Result(s),
         UNCHANGED <<active, queue, op, hs, boot>>
  PROVE  /\ ok' \in BOOLEAN /\ pc' \in DriverPc /\ ended' \subseteq Nat
         /\ HandlerOK' /\ BootQuiet' /\ SlotOwner' /\ QueueDiscipline'
<1>1. op \in Operation
  BY DEF IInv, TypeOK, SlotOwner
<1>2. ok' \in BOOLEAN
  BY DEF Result
<1>3. pc' \in DriverPc /\ ended' \subseteq Nat
  BY <1>1 DEF Result, DriverPc, IInv, TypeOK, Operation
<1>4. HandlerOK' /\ BootQuiet' /\ SlotOwner' /\ QueueDiscipline'
  BY DEF Result, IInv, HandlerOK, BootQuiet, SlotOwner, QueueDiscipline
<1> QED BY <1>2, <1>3, <1>4

\* A driver that cannot start still owns its slot.
LEMMA DriverUnstartableStep ==
  ASSUME IInv, DriverUnstartable
  PROVE  IInv'
<1>1. pc = "start" /\ Result(FALSE) /\ UNCHANGED <<active, queue, op, hs, boot>>
  BY DEF DriverUnstartable, schedVars, bootVars
<1>2. /\ ok' \in BOOLEAN /\ pc' \in DriverPc /\ ended' \subseteq Nat
      /\ HandlerOK' /\ BootQuiet' /\ SlotOwner' /\ QueueDiscipline'
  BY <1>1, ResultKeeps
<1>3. faults' \in [Apps -> SUBSET FaultKinds]
  BY DEF DriverUnstartable, IInv, TypeOK, FaultKinds
<1>4. TypeOK'
  BY <1>2, <1>3 DEF DriverUnstartable, IInv, TypeOK, schedVars, bootVars
<1> QED BY <1>2, <1>4 DEF IInv

\* A failed operation still owns its slot.
LEMMA DriverFailStep ==
  ASSUME IInv, DriverFail
  PROVE  IInv'
<1>1. pc = "run" /\ Result(FALSE) /\ UNCHANGED <<active, queue, op, hs, boot>>
  BY DEF DriverFail, LastPass, schedVars, bootVars
<1>2. /\ ok' \in BOOLEAN /\ pc' \in DriverPc /\ ended' \subseteq Nat
      /\ HandlerOK' /\ BootQuiet' /\ SlotOwner' /\ QueueDiscipline'
  BY <1>1, ResultKeeps
<1>3. faults' \in [Apps -> SUBSET FaultKinds] /\ row' = None /\ inst' \subseteq Apps
  BY <1>1 DEF DriverFail, LastPass, ClearRow, IInv, TypeOK, FaultKinds, SlotOwner, Operation
<1>4. TypeOK'
  BY <1>2, <1>3 DEF DriverFail, LastPass, IInv, TypeOK, schedVars, bootVars
<1> QED BY <1>2, <1>4 DEF IInv

\* A panic still owns its slot.
LEMMA DriverPanicStep ==
  ASSUME IInv, DriverPanic
  PROVE  IInv'
<1>1. pc = "run" /\ Result(FALSE) /\ UNCHANGED <<active, queue, op, hs, boot>>
  BY DEF DriverPanic, LastPass, schedVars, bootVars
<1>2. /\ ok' \in BOOLEAN /\ pc' \in DriverPc /\ ended' \subseteq Nat
      /\ HandlerOK' /\ BootQuiet' /\ SlotOwner' /\ QueueDiscipline'
  BY <1>1, ResultKeeps
<1>3. inst' \subseteq Apps
  BY <1>1 DEF DriverPanic, LastPass, IInv, TypeOK, SlotOwner, Operation
<1>4. TypeOK'
  BY <1>2, <1>3 DEF DriverPanic, LastPass, IInv, TypeOK, schedVars, bootVars
<1> QED BY <1>2, <1>4 DEF IInv

\* complete_current frees the driver's own slot, and the head of the queue
\* takes it together with the driver.
LEMMA DriverReleaseStep ==
  ASSUME IInv, DriverRelease
  PROVE  IInv'
<1>1. /\ pc = "release" /\ active = op /\ op # None /\ op \in Operation
      /\ \A g \in Handlers : hs[g].pc # "spawn"
  BY DEF DriverRelease, IInv, TypeOK, SlotOwner
<1>2. UNCHANGED <<hs, boot, phase, dbVars, snap, bootVars, nextId, histVars>> /\ token' = FALSE
      /\ ok' = FALSE /\ val' = "Absent"
  BY DEF DriverRelease, CompleteCurrent, bootVars
<1>3. CASE queue = <<>>
  <2>1. active' = None /\ queue' = <<>> /\ pc' = "idle" /\ op' = None
    BY <1>3 DEF DriverRelease, CompleteCurrent
  <2>2. TypeOK'
    <3>1. queue' \in Seq(Operation)
      BY <2>1
    <3> QED BY <1>2, <2>1, <3>1 DEF IInv, TypeOK, DriverPc, MaybePhase, dbVars, bootVars, histVars
  <2>3. HandlerOK' /\ BootQuiet' /\ SlotOwner' /\ QueueDiscipline'
    BY <1>1, <1>2, <2>1 DEF IInv, HandlerOK, BootQuiet, SlotOwner, QueueDiscipline
  <2> QED BY <2>2, <2>3 DEF IInv
<1>4. CASE queue # <<>>
  <2>1. active' = Head(queue) /\ queue' = Tail(queue) /\ pc' = "lookup" /\ op' = Head(queue)
    BY <1>4 DEF DriverRelease, CompleteCurrent
  <2>2. /\ Head(queue) \in Operation /\ Head(queue) = queue[1] /\ Tail(queue) \in Seq(Operation)
        /\ Len(queue) \in Nat \ {0} /\ DOMAIN queue = 1..Len(queue)
        /\ DOMAIN Tail(queue) = 1..(Len(queue) - 1)
        /\ \A i \in 1..(Len(queue) - 1) : Tail(queue)[i] = queue[i + 1]
    BY <1>4 DEF IInv, TypeOK
  <2>3. TypeOK'
    BY <1>2, <2>1, <2>2 DEF IInv, TypeOK, DriverPc, MaybePhase, dbVars, bootVars, histVars
  <2>4. HandlerOK' /\ BootQuiet' /\ SlotOwner'
    BY <1>1, <1>2, <2>1, <2>2, NoneAssumption DEF IInv, HandlerOK, BootQuiet, SlotOwner
  <2>5. QueueDiscipline'
    <3>1. \A i \in DOMAIN queue' : i + 1 \in DOMAIN queue /\ queue'[i] = queue[i + 1] /\ i + 1 # 1 /\ i \in Nat
      BY <2>1, <2>2
    <3>2. 1 \in DOMAIN queue /\ active' # None
      BY <2>1, <2>2, NoneAssumption
    <3>3. \A i \in DOMAIN queue' : queue'[i].app # active'.app
      BY <2>1, <2>2, <3>1, <3>2 DEF IInv, QueueDiscipline
    <3>4. \A i, j \in DOMAIN queue' : queue'[i].app = queue'[j].app => i = j
      BY <3>1 DEF IInv, QueueDiscipline
    <3> QED BY <3>2, <3>3, <3>4 DEF QueueDiscipline
  <2> QED BY <2>3, <2>4, <2>5 DEF IInv
<1> QED BY <1>3, <1>4

\* A crash empties memory at once.
LEMMA CrashStep ==
  ASSUME IInv, Crash
  PROVE  IInv'
<1>1. IdleHandler \in Handler /\ IdleHandler.pc = "idle"
  BY DEF IdleHandler, Handler, HandlerPc, MaybePhase
<1>2. \A h \in Handlers : hs'[h] = IdleHandler
  BY DEF Crash
<1>3. hs' \in [Handlers -> Handler]
  BY <1>1 DEF Crash
<1>4. TypeOK'
  <2>1. queue' \in Seq(Operation) /\ active' = None /\ op' = None /\ bootApp' = None
    BY DEF Crash
  <2>2. phase' \in [Apps -> MaybePhase] /\ crashes' \in Nat
    BY DEF Crash, IInv, TypeOK, MaybePhase
  <2> QED BY <1>3, <2>1, <2>2 DEF Crash, IInv, TypeOK, DriverPc, MaybePhase, dbVars, histVars
<1>5. HandlerOK' /\ BootQuiet' /\ SlotOwner' /\ QueueDiscipline'
  BY <1>1, <1>2 DEF Crash, HandlerOK, BootQuiet, SlotOwner, QueueDiscipline
<1> QED BY <1>4, <1>5 DEF IInv

\* The replayed operation takes a free slot together with a driver.
LEMMA BootReplayStep ==
  ASSUME IInv, BootReplay
  PROVE  IInv'
<1>1. /\ boot = "replay" /\ boot' = "sweep" /\ pc = "idle" /\ active = None /\ queue = <<>>
      /\ \A h \in Handlers : hs[h].pc = "idle"
  BY DEF BootReplay, IInv, BootQuiet, QueueDiscipline
<1>2. UNCHANGED <<inst, hs, snap, bootApp, crashes, nextId, histVars>>
  BY DEF BootReplay
<1>3. HandlerOK' /\ BootQuiet'
  BY <1>1, <1>2 DEF IInv, HandlerOK, BootQuiet
<1>4. CASE row # None /\ Replay
  <2>1. /\ active' = [id |-> row.id, app |-> row.app, kind |-> row.kind]
        /\ op' = active' /\ pc' = "begin" /\ queue' = <<>>
        /\ token' = row.cancel /\ ok' = FALSE /\ val' = "Absent"
        /\ UNCHANGED <<phase, stored, row, faults>>
    BY <1>1, <1>4 DEF Replay
  <2>2. active' \in Operation /\ active' # None /\ row.cancel \in BOOLEAN
    BY <1>4, <2>1, NoneAssumption DEF IInv, TypeOK, Row, Operation
  <2>3. SlotOwner' /\ QueueDiscipline'
    BY <1>1, <1>2, <2>1, <2>2 DEF SlotOwner, QueueDiscipline
  <2>4. TypeOK'
    <3>1. queue' \in Seq(Operation) /\ token' \in BOOLEAN
      BY <2>1, <2>2
    <3> QED BY <1>1, <1>2, <2>1, <2>2, <3>1 DEF IInv, TypeOK, DriverPc, MaybePhase, histVars
  <2> QED BY <1>3, <2>3, <2>4 DEF IInv
<1>5. CASE row # None /\ (Discard \/ Unreadable)
  <2>1. UNCHANGED <<schedVars, driverVars>> /\ row' = None
    BY <1>5 DEF Discard, Unreadable, ClearRow
  <2>2. /\ phase' \in [Apps -> MaybePhase] /\ stored' \in [Apps -> MaybePhase]
        /\ faults' \in [Apps -> SUBSET FaultKinds]
    <3>1. row.app \in Apps
      BY <1>5 DEF IInv, TypeOK, Row
    <3>2. "NotInstalled" \in MaybePhase
      BY DEF MaybePhase, Phases
    <3>3. CASE UNCHANGED <<phase, stored, faults>>
      BY <3>3 DEF IInv, TypeOK
    <3>4. CASE /\ SetPhase(row.app, "NotInstalled") /\ StorePhase(row.app, "NotInstalled")
               /\ faults' = [faults EXCEPT ![row.app] = @ \cup {"install_interrupted"}]
      <4>1. phase' \in [Apps -> MaybePhase] /\ stored' \in [Apps -> MaybePhase]
        BY <3>1, <3>2, <3>4, PhaseTypes DEF SetPhase, StorePhase, IInv
      <4>2. faults' \in [Apps -> SUBSET FaultKinds]
        BY <3>1, <3>4 DEF IInv, TypeOK, FaultKinds
      <4> QED BY <4>1, <4>2
    <3> QED BY <1>5, <3>3, <3>4 DEF Discard, Unreadable
  <2>3. SlotOwner' /\ QueueDiscipline'
    BY <1>2, <2>1 DEF IInv, SlotOwner, QueueDiscipline, schedVars, driverVars
  <2>4. TypeOK'
    BY <1>1, <1>2, <2>1, <2>2 DEF IInv, TypeOK, schedVars, driverVars, histVars
  <2> QED BY <1>3, <2>3, <2>4 DEF IInv
<1>6. CASE UNCHANGED <<schedVars, driverVars, phase, stored, row, faults>>
  <2>1. SlotOwner' /\ QueueDiscipline'
    BY <1>2, <1>6 DEF IInv, SlotOwner, QueueDiscipline, schedVars, driverVars
  <2>2. TypeOK'
    BY <1>1, <1>2, <1>6 DEF IInv, TypeOK, schedVars, driverVars, histVars
  <2> QED BY <1>3, <2>1, <2>2 DEF IInv
<1> QED BY <1>4, <1>5, <1>6 DEF BootReplay

\* The first state satisfies the invariant.
LEMMA InitIInv == Init => IInv
<1> SUFFICES ASSUME Init PROVE IInv
  OBVIOUS
<1>1. IdleHandler \in Handler /\ IdleHandler.pc = "idle"
  BY DEF IdleHandler, Handler, HandlerPc, MaybePhase
<1>2. stored \in [Apps -> MaybePhase] /\ phase = stored
  BY ConstAssumption DEF Init, MaybePhase, Phases
<1>3. queue = <<>> /\ queue \in Seq(Operation) /\ active = None /\ token = FALSE
  BY DEF Init, SchedInit
<1>4. hs \in [Handlers -> Handler] /\ \A h \in Handlers : hs[h].pc = "idle"
  BY <1>1 DEF Init
<1>5. TypeOK
  BY <1>2, <1>3, <1>4 DEF Init, TypeOK, DriverPc, MaybePhase
<1>6. HandlerOK /\ BootQuiet /\ SlotOwner /\ QueueDiscipline
  BY <1>3, <1>4 DEF Init, HandlerOK, BootQuiet, SlotOwner, QueueDiscipline
<1> QED BY <1>5, <1>6 DEF IInv

-----------------------------------------------------------------------------
(* The other steps follow from the definitions.                            *)

USE DEF IInv, TypeOK, HandlerOK, BootQuiet, SlotOwner, QueueDiscipline,
        Operation, Handler, HandlerPc, DriverPc, MaybePhase,
        schedVars, dbVars, driverVars, bootVars, histVars

\* Registration, removal and uninstall: they touch neither slot nor driver.
LEMMA RegistrySteps ==
  ASSUME IInv, NEW h \in Handlers,
         UninstallCommit(h) \/ DeregisterDb(h) \/ DeregisterMem(h) \/ RegisterCommit(h)
         \/ RegisterInsert(h)
  PROVE  IInv'
<1>1. CASE UninstallCommit(h)
  BY <1>1, NoneAssumption DEF UninstallCommit, Finish, IdleHandler, SetPhase, StorePhase, Phases
<1>2. CASE DeregisterDb(h)
  <2>1. boot = "up" /\ hs[h].app \in Apps
    BY <1>2, AtWork DEF DeregisterDb
  <2>2. Moved(h, "deregMem", hs[h].app, hs[h].op)
    BY <1>2, GotoMoves DEF DeregisterDb
  <2>3. hs' \in [Handlers -> Handler] /\ HandlerOK' /\ BootQuiet' /\ SlotOwner' /\ QueueDiscipline'
    BY <1>2, <2>1, <2>2, MoveKeeps DEF DeregisterDb
  <2>4. TypeOK'
    BY <1>2, <2>1, <2>3 DEF DeregisterDb
  <2> QED BY <2>3, <2>4
<1>3. CASE DeregisterMem(h)
  BY <1>3, NoneAssumption DEF DeregisterMem, Finish, IdleHandler
<1>4. CASE RegisterCommit(h)
  <2>1. boot = "up" /\ hs[h].app \in Apps
    BY <1>4, AtWork DEF RegisterCommit
  <2>2. Moved(h, "insert", hs[h].app, hs[h].op)
    BY <1>4, GotoMoves DEF RegisterCommit
  <2>3. hs' \in [Handlers -> Handler] /\ HandlerOK' /\ BootQuiet' /\ SlotOwner' /\ QueueDiscipline'
    BY <1>4, <2>1, <2>2, MoveKeeps DEF RegisterCommit
  <2>4. TypeOK'
    BY <1>4, <2>1, <2>3 DEF RegisterCommit, Phases
  <2> QED BY <2>3, <2>4
<1>5. CASE RegisterInsert(h)
  BY <1>5, NoneAssumption DEF RegisterInsert, Finish, IdleHandler, Phases
<1> QED BY <1>1, <1>2, <1>3, <1>4, <1>5

\* A new request only fills in the handler's record.
LEMMA RequestSteps ==
  ASSUME IInv, NEW h \in Handlers, NEW a \in Apps,
         InvokeAction(h, a) \/ InvokeInstall(h, a) \/ SetParam(h, a) \/ UninstallApp(h, a)
         \/ DeregisterApp(h, a) \/ RegisterApp(h, a)
  PROVE  IInv'
<1>1. CASE InvokeAction(h, a)
  BY <1>1, NoneAssumption DEF InvokeAction, Idle, Begin, NewOp, DrawId, Kinds
<1>2. CASE InvokeInstall(h, a)
  BY <1>2, NoneAssumption DEF InvokeInstall, Idle, Begin, NewOp, DrawId, Kinds
<1>3. CASE SetParam(h, a)
  BY <1>3, NoneAssumption DEF SetParam, Idle, Begin, NewOp, DrawId, Kinds
<1>4. CASE UninstallApp(h, a)
  BY <1>4, NoneAssumption DEF UninstallApp, Idle, Begin
<1>5. CASE DeregisterApp(h, a)
  BY <1>5, NoneAssumption DEF DeregisterApp, Idle, Begin
<1>6. CASE RegisterApp(h, a)
  BY <1>6, NoneAssumption DEF RegisterApp, Idle, Begin
<1> QED BY <1>1, <1>2, <1>3, <1>4, <1>5, <1>6

\* The driver's own steps keep its operation and the slot.
LEMMA DriverSteps ==
  ASSUME IInv,
         DriverBegin \/ DriverExtract \/ DriverWrite \/ DriverSave
         \/ DriverComplete \/ DriverCancelled \/ DriverFinalize \/ DriverLookup
         \/ DriverSuspend
  PROVE  IInv'
<1>1. CASE DriverBegin
  BY <1>1, NoneAssumption DEF DriverBegin, SetPhase, Phases
<1>2. CASE DriverExtract
  BY <1>2, NoneAssumption DEF DriverExtract
<1>3. CASE DriverWrite
  BY <1>3, NoneAssumption DEF DriverWrite, StorePhase
<1>4. CASE DriverSave
  BY <1>4, NoneAssumption DEF DriverSave, CancelColumn, Kinds, Row
<1>5. CASE DriverComplete
  BY <1>5, NoneAssumption DEF DriverComplete, LastPass, Result, ClearRow, FaultKinds
<1>6. CASE DriverCancelled
  BY <1>6, NoneAssumption DEF DriverCancelled, LastPass, Result, ClearRow, FaultKinds
<1>7. CASE DriverFinalize
  BY <1>7, NoneAssumption DEF DriverFinalize, SetPhase, FinalPhase, Phases
<1>8. CASE DriverLookup
  BY <1>8, NoneAssumption DEF DriverLookup, Lookup
<1>9. CASE DriverSuspend
  BY <1>9, NoneAssumption DEF DriverSuspend
<1> QED BY <1>1, <1>2, <1>3, <1>4, <1>5, <1>6, <1>7, <1>8, <1>9

\* The reconciler and the start-up around the replay.
LEMMA DaemonSteps ==
  ASSUME IInv,
         ReconcileTick \/ BootLoad \/ BootSweep
  PROVE  IInv'
<1>1. CASE ReconcileTick
  BY <1>1, NoneAssumption DEF ReconcileTick, Leaving
<1>2. CASE BootLoad
  BY <1>2, NoneAssumption DEF BootLoad, Row
<1>3. CASE BootSweep
  BY <1>3, NoneAssumption DEF BootSweep, Phases
<1> QED BY <1>1, <1>2, <1>3

\* The reconciler's steps on one app that leave its phase alone.
Bookkeeping(a) == ReconcileActuate(a) \/ InstancesReaped(a) \/ UninstallRefused(a)

\* The reconciler's work on one app.
LEMMA ReconcileSteps ==
  ASSUME IInv, NEW a \in Apps,
         Bookkeeping(a) \/ UninstallDone(a)
  PROVE  IInv'
<1>1. CASE Bookkeeping(a)
  <2>1. CASE ReconcileActuate(a)
    BY <2>1, NoneAssumption DEF ReconcileActuate
  <2>2. CASE InstancesReaped(a)
    BY <2>2, NoneAssumption DEF InstancesReaped
  <2>3. CASE UninstallRefused(a)
    BY <2>3, NoneAssumption DEF UninstallRefused, FaultKinds
  <2> QED BY <1>1, <2>1, <2>2, <2>3 DEF Bookkeeping
<1>2. CASE UninstallDone(a)
  BY <1>2, NoneAssumption DEF UninstallDone, SetPhase, StorePhase, Phases, FaultKinds
<1> QED BY <1>1, <1>2

\* IInv is inductive.
LEMMA StepIInv == IInv /\ [Next]_vars => IInv'
<1> SUFFICES ASSUME IInv, [Next]_vars PROVE IInv'
  OBVIOUS
<1>1. ASSUME NEW h \in Handlers, HandlerStep(h) PROVE IInv'
  BY <1>1, InstallDirectStep, ScheduleOnChangeStep, RequestSlotStep, SpawnStep, FlagCancelStep,
     CancelStuckStep, UnstickStep, HandlerExtractStep, HandlerWriteStep, DeregisterCheckStep,
     RegistrySteps DEF HandlerStep
<1>2. ASSUME NEW h \in Handlers, NEW a \in Apps, NewRequest(h, a) PROVE IInv'
  BY <1>2, CancelActionStep, RequestSteps DEF NewRequest
<1>3. CASE DriverStep \/ DriverSuspend
  BY <1>3, DriverUnstartableStep, DriverFailStep, DriverPanicStep, DriverReleaseStep, DriverSteps
     DEF DriverStep
<1>4. CASE ReconcileTick \/ Crash \/ BootStep
  BY <1>4, CrashStep, BootReplayStep, DaemonSteps DEF BootStep
<1>5. ASSUME NEW a \in Apps, Bookkeeping(a) \/ UninstallDone(a) PROVE IInv'
  BY <1>5, ReconcileSteps
<1>6. CASE UNCHANGED vars
  BY <1>6 DEF vars
<1> QED BY <1>1, <1>2, <1>3, <1>4, <1>5, <1>6 DEF Next, UninstallStep, Bookkeeping

-----------------------------------------------------------------------------
(* The theorems.                                                           *)

\* Every variable keeps its type: above all, a record taken from the slot, the
\* queue, a handler or the row is an operation wherever the code relies on it.
THEOREM TypeCorrect == Spec => []TypeOK
<1>1. IInv => TypeOK
  OBVIOUS
<1> QED BY <1>1, InitIInv, StepIInv, PTL DEF Spec

\* The driver's complete_current frees its own slot and no other, whatever
\* requests, cancels, panics and restarts come between.
THEOREM SlotExclusive == Spec => []SlotOwner
<1>1. IInv => SlotOwner
  OBVIOUS
<1> QED BY <1>1, InitIInv, StepIInv, PTL DEF Spec

\* r[operation.lifecycle.single.inter-app]: nothing waits behind a free slot,
\* and no app waits twice or behind itself.
THEOREM QueueOrderly == Spec => []QueueDiscipline
<1>1. IInv => QueueDiscipline
  OBVIOUS
<1> QED BY <1>1, InitIInv, StepIInv, PTL DEF Spec

HIDE DEF IInv, TypeOK, HandlerOK, BootQuiet, SlotOwner, QueueDiscipline,
         Operation, Handler, HandlerPc, DriverPc, MaybePhase,
         schedVars, dbVars, driverVars, bootVars, histVars

-----------------------------------------------------------------------------
(***************************************************************************)
(* A cancel reaches only the operation it was asked for (CancelScoped) and *)
(* stays with it (CancelKept), and no operation runs twice (NoRerun), in   *)
(* every run in which drivers end by clearing their row (~Aborts).         *)
(*                                                                         *)
(* The argument follows the cancel from the handler to the token, to the   *)
(* row, and through a restart back to a token.  What makes it work is that *)
(* the row outlives neither its operation nor its driver: RowOwned.        *)
(***************************************************************************)

\* Somebody asked for the cancel of operation i: it was answered, or its
\* handler is between the token and the row.
Asked(i) == \/ i \in acked
            \/ \E h \in Handlers : hs[h].pc = "flag" /\ hs[h].op.id = i

\* The driver has not its result yet.
Driving == pc \in {"begin", "extract1", "write1", "start", "run"}

\* The row belongs to the driver at work, or waits for the start-up to
\* look at it.
RowOwned == row # None => boot \in {"load", "replay"} \/ (Driving /\ row.id = op.id)

\* A flagged row, and a set token, go back to a request.
RowAsked == row # None /\ row.cancel => row.id \in acked
TokenAsked == token => active # None /\ Asked(active.id)

CInv == RowOwned /\ RowAsked /\ TokenAsked

-----------------------------------------------------------------------------
\* A handler's step leaves the records of the other handlers alone.
LEMMA OthersStay ==
  ASSUME TypeOK, NEW h \in Handlers, HandlerStep(h) \/ \E a \in Apps : NewRequest(h, a)
  PROVE  \A g \in Handlers : g # h => hs'[g] = hs[g]
BY DEF TypeOK, HandlerStep, NewRequest, InstallDirect, ScheduleOnChange, RequestSlot, Spawn, FlagCancel,
       CancelStuck, Unstick, HandlerExtract, HandlerWrite, UninstallCommit, DeregisterCheck,
       DeregisterDb, DeregisterMem, RegisterCommit, RegisterInsert, InvokeAction, InvokeInstall,
       SetParam, CancelAction, UninstallApp, DeregisterApp, RegisterApp, Begin, Goto, Finish

\* What was asked for stays asked for: a handler leaves "flag" by answering.
LEMMA AskedStays ==
  ASSUME NEW i, Asked(i), acked \subseteq acked',
         \A h \in Handlers : hs[h].pc = "flag" => hs'[h] = hs[h] \/ hs[h].op.id \in acked'
  PROVE  Asked(i)'
BY DEF Asked

\* A handler's step that touches neither row, token nor driver.
LEMMA QuietHandler ==
  ASSUME IInv, CInv, NEW h \in Handlers, hs[h].pc # "flag",
         HandlerStep(h) \/ \E a \in Apps : NewRequest(h, a),
         UNCHANGED <<row, token, active, acked, pc, op, boot>>
  PROVE  CInv'
<1>1. \A g \in Handlers : hs[g].pc = "flag" => hs'[g] = hs[g]
  BY OthersStay DEF IInv
<1>2. TokenAsked'
  BY <1>1, AskedStays DEF CInv, TokenAsked
<1> QED BY <1>2 DEF CInv, RowOwned, RowAsked, Driving

\* The steps of a handler at work: a new owner of the slot has a fresh token,
\* a spawn finds no row, and the flag goes to the row with the cancelled id.
LEMMA HandlerC ==
  ASSUME ~Aborts, IInv, CInv, NEW h \in Handlers, HandlerStep(h)
  PROVE  CInv'
<1>0. \A g \in Handlers : g # h => hs'[g] = hs[g]
  BY OthersStay DEF IInv
<1>1. CASE RequestSlot(h)
  <2>1. UNCHANGED <<row, acked, pc, op, boot>> /\ hs[h].pc = "request"
    BY <1>1 DEF RequestSlot, dbVars, histVars, driverVars, bootVars
  <2>2. token' = FALSE \/ UNCHANGED <<token, active>>
    BY <1>1 DEF RequestSlot, Accept, Enqueue, Reject, schedVars
  <2>3. TokenAsked'
    <3>1. CASE token' = FALSE BY <3>1 DEF TokenAsked
    <3>2. CASE UNCHANGED <<token, active>>
      BY <1>0, <2>1, <3>2, AskedStays DEF CInv, TokenAsked
    <3> QED BY <2>2, <3>1, <3>2
  <2> QED BY <2>1, <2>3 DEF CInv, RowOwned, RowAsked, Driving
<1>2. CASE Spawn(h)
  <2>1. UNCHANGED <<row, acked, token, active, boot>> /\ hs[h].pc = "spawn" /\ pc = "idle" /\ boot = "up"
    BY <1>2, AtWork DEF Spawn, dbVars, histVars, schedVars, bootVars, IInv, SlotOwner
  <2>2. row = None
    BY <2>1 DEF CInv, RowOwned, Driving
  <2>3. TokenAsked'
    BY <1>0, <2>1, AskedStays DEF CInv, TokenAsked
  <2> QED BY <2>1, <2>2, <2>3 DEF CInv, RowOwned, RowAsked
<1>3. CASE FlagCancel(h)
  <2>1. /\ hs[h].pc = "flag" /\ acked' = acked \cup {hs[h].op.id}
        /\ UNCHANGED <<token, active, pc, op, boot>>
        /\ row' = IF row # None /\ row.id = hs[h].op.id THEN [row EXCEPT !.cancel = TRUE] ELSE row
    BY <1>3 DEF FlagCancel, RowIs, schedVars, driverVars, bootVars
  <2>2. TokenAsked'
    BY <1>0, <2>1, AskedStays DEF CInv, TokenAsked
  <2>3. row' # None => row # None /\ row'.id = row.id /\ (row'.cancel => row.cancel \/ row.id = hs[h].op.id)
    BY <2>1 DEF IInv, TypeOK, Row
  <2>4. RowOwned' /\ RowAsked'
    BY <2>1, <2>3 DEF CInv, RowOwned, RowAsked, Driving
  <2> QED BY <2>2, <2>4 DEF CInv
<1>4. CASE ~(RequestSlot(h) \/ Spawn(h) \/ FlagCancel(h))
  <2>1. hs[h].pc # "flag" /\ UNCHANGED <<row, token, active, acked, pc, op, boot>>
    BY <1>4 DEF HandlerStep, InstallDirect, ScheduleOnChange, CancelStuck, Unstick, HandlerExtract,
       HandlerWrite, UninstallCommit, DeregisterCheck, DeregisterDb, DeregisterMem, RegisterCommit,
       RegisterInsert, schedVars, dbVars, driverVars, bootVars, histVars
  <2> QED BY <2>1, QuietHandler
<1> QED BY <1>1, <1>2, <1>3, <1>4

\* A new request: only cancel_action sets the token, and it remembers for
\* which operation.
LEMMA RequestC ==
  ASSUME IInv, CInv, NEW h \in Handlers, NEW a \in Apps, NewRequest(h, a)
  PROVE  CInv'
<1>0. \A g \in Handlers : g # h => hs'[g] = hs[g]
  BY OthersStay DEF IInv
<1>1. hs[h].pc = "idle" /\ UNCHANGED <<row, active, acked, pc, op, boot>>
  BY DEF NewRequest, Idle, InvokeAction, InvokeInstall, SetParam, CancelAction, UninstallApp,
         DeregisterApp, RegisterApp, RequestCancel, schedVars, dbVars, driverVars, bootVars, histVars
<1>2. UNCHANGED token \/ (active # None /\ hs'[h].pc = "flag" /\ hs'[h].op = active)
  <2>1. CASE CancelAction(h, a)
    BY <2>1 DEF CancelAction, RequestCancel, IsActive, Begin, schedVars, IInv, TypeOK
  <2>2. CASE ~CancelAction(h, a)
    BY <2>2 DEF NewRequest, InvokeAction, InvokeInstall, SetParam, UninstallApp,
         DeregisterApp, RegisterApp, schedVars
  <2> QED BY <2>1, <2>2
<1>3. TokenAsked'
  <2>1. CASE UNCHANGED token
    BY <1>0, <1>1, <2>1, AskedStays DEF CInv, TokenAsked
  <2>2. CASE active # None /\ hs'[h].pc = "flag" /\ hs'[h].op = active
    BY <1>1, <2>2 DEF TokenAsked, Asked
  <2> QED BY <1>2, <2>1, <2>2
<1> QED BY <1>1, <1>3 DEF CInv, RowOwned, RowAsked, Driving

\* The driver: the saved row keeps the flag of the row it replaces, which is
\* its own (RowOwned); every result clears it.
LEMMA DriverC ==
  ASSUME ~Aborts, IInv, CInv, DriverStep \/ DriverSuspend
  PROVE  CInv'
<1>1. UNCHANGED <<hs, acked, boot>>
  BY DEF DriverStep, DriverBegin, DriverExtract, DriverWrite, DriverSave, DriverUnstartable,
         DriverComplete, DriverFail, DriverCancelled, DriverPanic, DriverFinalize, DriverRelease,
         DriverLookup, DriverSuspend, LastPass, bootVars, histVars
<1>2. (active' = active /\ token' = token) \/ token' = FALSE
  BY DEF DriverStep, DriverBegin, DriverExtract, DriverWrite, DriverSave, DriverUnstartable,
         DriverComplete, DriverFail, DriverCancelled, DriverPanic, DriverFinalize, DriverRelease,
         DriverLookup, DriverSuspend, LastPass, CompleteCurrent, schedVars
<1>3. TokenAsked'
  BY <1>1, <1>2 DEF CInv, TokenAsked, Asked
<1>4. CASE DriverSave
  <2>1. /\ pc = "start" /\ pc' = "run" /\ op' = op
        /\ row' = [id |-> op.id, app |-> op.app, kind |-> op.kind, cancel |-> row # None /\ row.cancel]
    BY <1>4 DEF DriverSave, CancelColumn
  <2>2. row # None => boot \notin {"load", "replay"} /\ row.id = op.id
    BY <2>1 DEF IInv, BootQuiet, CInv, RowOwned
  <2>3. RowOwned' /\ RowAsked'
    BY <1>1, <2>1, <2>2 DEF CInv, RowOwned, RowAsked, Driving
  <2> QED BY <1>3, <2>3 DEF CInv
<1>5. CASE DriverComplete \/ DriverFail \/ DriverCancelled
  <2>1. row' = None
    BY <1>5 DEF DriverComplete, DriverFail, DriverCancelled, ClearRow
  <2> QED BY <1>3, <2>1 DEF CInv, RowOwned, RowAsked
<1>6. CASE DriverSuspend \/ DriverBegin \/ DriverExtract \/ DriverWrite
  <2>1. UNCHANGED <<row, op>> /\ pc # "idle"
    BY <1>6 DEF DriverSuspend, DriverBegin, DriverExtract, DriverWrite, dbVars, driverVars
  <2>2. Driving => Driving'
    BY <1>6 DEF Driving, DriverSuspend, DriverBegin, DriverExtract, DriverWrite, driverVars
  <2>3. boot \notin {"load", "replay"}
    BY <2>1 DEF IInv, BootQuiet
  <2>4. RowOwned' /\ RowAsked'
    BY <1>1, <2>1, <2>2, <2>3 DEF CInv, RowOwned, RowAsked
  <2> QED BY <1>3, <2>4 DEF CInv
<1>7. CASE DriverFinalize \/ DriverRelease \/ DriverLookup
  <2>1. UNCHANGED row /\ pc \in {"cleanup", "release", "lookup"}
    BY <1>7 DEF DriverFinalize, DriverRelease, DriverLookup, dbVars
  <2>2. row = None
    BY <2>1 DEF IInv, BootQuiet, CInv, RowOwned, Driving
  <2> QED BY <1>3, <2>1, <2>2 DEF CInv, RowOwned, RowAsked
<1>8. CASE DriverUnstartable \/ DriverPanic
  BY <1>8 DEF DriverUnstartable, DriverPanic
<1> QED BY <1>4, <1>5, <1>6, <1>7, <1>8 DEF DriverStep

\* Restart: the row's flag comes back as the token of the same operation.
LEMMA DaemonC ==
  ASSUME IInv, CInv,
         \/ ReconcileTick \/ Crash \/ BootStep
         \/ \E a \in Apps : Bookkeeping(a) \/ UninstallDone(a)
  PROVE  CInv'
<1>1. CASE ReconcileTick \/ (\E a \in Apps : Bookkeeping(a) \/ UninstallDone(a)) \/ BootSweep \/ BootLoad
  <2>1. /\ UNCHANGED <<row, acked, token, active, hs, pc, op>>
        /\ boot' = boot \/ (boot = "load" /\ boot' = "replay") \/ (boot = "sweep" /\ boot' = "up")
    BY <1>1 DEF ReconcileTick, Bookkeeping, ReconcileActuate,
                InstancesReaped, UninstallRefused, UninstallDone, BootSweep, BootLoad, schedVars, dbVars,
                driverVars, bootVars, histVars
  <2>2. RowOwned' /\ RowAsked'
    BY <2>1 DEF CInv, RowOwned, RowAsked, Driving
  <2>3. TokenAsked'
    BY <2>1 DEF CInv, TokenAsked, Asked
  <2> QED BY <2>2, <2>3 DEF CInv
<1>2. CASE Crash
  BY <1>2 DEF Crash, CInv, RowOwned, RowAsked, TokenAsked, dbVars, histVars
<1>3. CASE BootReplay
  <2>1. UNCHANGED <<hs, acked>> /\ boot' = "sweep" /\ active = None
    BY <1>3 DEF BootReplay, histVars, IInv, BootQuiet
  <2>2. CASE row # None /\ Replay
    <3>1. /\ row' = row /\ token' = row.cancel /\ pc' = "begin"
          /\ active' = [id |-> row.id, app |-> row.app, kind |-> row.kind] /\ op' = active'
      BY <2>2 DEF Replay
    <3>2. active' # None /\ active'.id = row.id
      BY <2>2, <3>1, NoneAssumption DEF IInv, TypeOK, Row, Operation
    <3>3. RowOwned' /\ RowAsked'
      BY <2>1, <3>1, <3>2 DEF CInv, RowOwned, RowAsked, Driving
    <3>4. TokenAsked'
      BY <2>1, <2>2, <3>1, <3>2 DEF CInv, RowAsked, TokenAsked, Asked
    <3> QED BY <3>3, <3>4 DEF CInv
  <2>3. CASE ~(row # None /\ Replay)
    <3>1. row' = None /\ UNCHANGED <<token, active>>
      BY <1>3, <2>3 DEF BootReplay, Discard, Unreadable, ClearRow, schedVars
    <3>2. TokenAsked'
      BY <2>1, <3>1 DEF CInv, TokenAsked, Asked
    <3> QED BY <3>1, <3>2 DEF CInv, RowOwned, RowAsked
  <2> QED BY <2>2, <2>3
<1> QED BY <1>1, <1>2, <1>3 DEF BootStep

\* Every step keeps CInv.
LEMMA StepCInv ==
  ASSUME ~Aborts, IInv, CInv, [Next]_vars
  PROVE  CInv'
<1>1. CASE Next
  BY <1>1, HandlerC, RequestC, DriverC, DaemonC DEF Next, UninstallStep, Bookkeeping
<1>2. CASE UNCHANGED vars
  BY <1>2 DEF vars, schedVars, dbVars, driverVars, bootVars, histVars, CInv, RowOwned, RowAsked,
              TokenAsked, Asked, Driving
<1> QED BY <1>1, <1>2

\* r[operation.cancel.persistence]: whatever requests, restarts and later
\* operations come, a token or a row's flag goes back to a cancel request for
\* the operation that carries it.
THEOREM CancelOwn == ASSUME ~Aborts PROVE Spec => []CancelScoped
<1>1. Init => CInv
  BY DEF Init, SchedInit, CInv, RowOwned, RowAsked, TokenAsked
<1>2. CInv => CancelScoped
  BY DEF CInv, RowAsked, TokenAsked, Asked, CancelScoped
<1>3. IInv /\ CInv /\ [Next]_vars => IInv' /\ CInv'
  BY StepIInv, StepCInv
<1> QED BY <1>1, <1>2, <1>3, InitIInv, PTL DEF Spec

-----------------------------------------------------------------------------
(* An operation runs once, and its cancel is kept.                         *)
(*                                                                         *)
(* Both need to know that the ids in circulation are distinct: an id waits *)
(* with one handler or at one place of the queue, or it has begun, never   *)
(* both.                                                                   *)

\* Handler h carries an operation that is yet to be asked for.
Holds(h) == hs[h].op # None /\ hs[h].pc \notin {"idle", "spawn", "flag"}

\* Operation i has had the slot.
Begun(i) == \/ i \in ended \cup flagged
            \/ active # None /\ active.id = i
            \/ row # None /\ row.id = i
            \/ \E h \in Handlers : hs[h].pc = "flag" /\ hs[h].op.id = i

\* The ids that have begun, and those that wait, were drawn before.
Drawn ==
  /\ \A i \in Nat : Begun(i) => i < nextId
  /\ \A k \in DOMAIN queue : queue[k].id < nextId
  /\ \A h \in Handlers : Holds(h) => hs[h].op.id < nextId

\* What waits has not begun.
Waits ==
  /\ \A k \in DOMAIN queue : ~Begun(queue[k].id)
  /\ \A h \in Handlers : Holds(h) => ~Begun(hs[h].op.id)

\* No id waits in two places.
Distinct ==
  /\ \A j, k \in DOMAIN queue : queue[j].id = queue[k].id => j = k
  /\ \A g, h \in Handlers : Holds(g) /\ Holds(h) /\ hs[g].op.id = hs[h].op.id => g = h
  /\ \A h \in Handlers, k \in DOMAIN queue : Holds(h) => queue[k].id # hs[h].op.id

\* The driver has its result and is on its way to free the slot.
Over == pc \in {"cleanup", "extract2", "write2", "release"}

\* An operation in the slot, and one in the row, has no result yet.
Pending ==
  /\ active # None /\ ~Over => active.id \notin ended
  /\ row # None => row.id \notin ended

\* The token stays set between cancel_action's two writes; after the second,
\* the row keeps the flag for as long as the operation is unfinished.
Flags ==
  /\ \A h \in Handlers : hs[h].pc = "flag" /\ active # None /\ active.id = hs[h].op.id => token
  /\ row # None /\ row.id \in flagged => row.cancel
  /\ active # None /\ active.id \in flagged \ ended => token /\ row # None /\ row.id = active.id

WInv == Drawn /\ Waits /\ Distinct /\ Pending /\ Flags

\* What the queue holds are operations.
LEMMA QueueIds ==
  ASSUME IInv
  PROVE  \A k \in DOMAIN queue : queue[k] \in Operation /\ queue[k] # None /\ queue[k].id \in Nat
<1>1. queue \in Seq(Operation)
  BY DEF IInv, TypeOK
<1>2. \A k \in DOMAIN queue : queue[k] \in Operation
  BY <1>1
<1> QED BY <1>2, NoneAssumption DEF Operation

\* No handler comes by an operation, or to flag one.
NoGain == \A h \in Handlers :
  /\ Holds(h)' => Holds(h) /\ hs'[h].op = hs[h].op
  /\ hs'[h].pc = "flag" => hs[h].pc = "flag" /\ hs'[h].op = hs[h].op

\* A handler that moves on with what it held, or with nothing.
LEMMA MovedNoGain ==
  ASSUME NEW h \in Handlers, NEW p, NEW a, NEW o, Moved(h, p, a, o), p # "flag",
         o = None \/ p \in {"idle", "spawn"} \/ (Holds(h) /\ o = hs[h].op)
  PROVE  NoGain
<1>1. \A g \in Handlers : g # h => hs'[g] = hs[g]
  BY DEF Moved
<1>2. hs'[h].pc = p /\ hs'[h].op = o
  BY DEF Moved
<1> QED BY <1>1, <1>2 DEF NoGain, Holds

\* Where slot, row and results stay, nothing begins.
LEMMA NothingBegins ==
  ASSUME NoGain, UNCHANGED <<active, row, ended, flagged>>, NEW i, Begun(i)'
  PROVE  Begun(i)
BY DEF NoGain, Begun

\* A step that draws, queues, starts and finishes nothing.
LEMMA QuietW ==
  ASSUME WInv, NoGain, UNCHANGED <<queue, active, token, row, ended, flagged, nextId>>, Over => Over'
  PROVE  WInv'
<1>1. \A i : Begun(i)' => Begun(i)
  BY NothingBegins
<1>2. \A h \in Handlers : Holds(h)' => Holds(h) /\ hs'[h].op = hs[h].op
  BY DEF NoGain
<1>3. Drawn'
  BY <1>1, <1>2 DEF WInv, Drawn
<1>4. Waits'
  BY <1>1, <1>2 DEF WInv, Waits
<1>5. Distinct'
  BY <1>2 DEF WInv, Distinct
<1>6. Pending'
  BY DEF WInv, Pending
<1>7. Flags'
  BY DEF WInv, Flags, NoGain
<1> QED BY <1>3, <1>4, <1>5, <1>6, <1>7 DEF WInv

\* OperationId::new(): the id is nobody else's.
LEMMA DrawW ==
  ASSUME IInv, WInv, NEW h \in Handlers, NEW p \in HandlerPc \ {"idle", "spawn", "flag"}, NEW a, NEW o,
         Moved(h, p, a, o), hs[h].pc = "idle", o.id = nextId, nextId' = nextId + 1,
         UNCHANGED <<queue, active, token, row, ended, flagged, pc>>
  PROVE  WInv'
<1>1. \A g \in Handlers : g # h => hs'[g] = hs[g]
  BY DEF Moved
<1>2. hs'[h].pc = p /\ hs'[h].op = o /\ p # "flag"
  BY DEF Moved
<1>3. \A i : Begun(i)' => Begun(i)
  BY <1>1, <1>2 DEF Begun
<1>4. \A g \in Handlers : g # h => (Holds(g)' <=> Holds(g)) /\ hs'[g].op = hs[g].op
  BY <1>1 DEF Holds
<1>5. nextId \in Nat /\ \A k \in DOMAIN queue : queue[k].id \in Nat
  BY QueueIds DEF IInv, TypeOK
<1>6. \A g \in Handlers : Holds(g) => hs[g].op.id \in Nat
  BY DEF IInv, TypeOK, Handler, Holds, Operation
<1>7. \A i \in Nat : i < nextId => i < nextId + 1 /\ i # nextId
  BY <1>5
<1>8. Drawn'
  BY <1>2, <1>3, <1>4, <1>5, <1>6, <1>7 DEF WInv, Drawn
<1>9. Waits'
  <2>1. ~Begun(nextId)
    BY <1>5, <1>7 DEF WInv, Drawn
  <2> QED BY <1>2, <1>3, <1>4, <2>1 DEF WInv, Waits
<1>10. Distinct'
  BY <1>2, <1>4, <1>5, <1>6, <1>7 DEF WInv, Distinct, Drawn
<1>11. Pending' /\ Flags'
  BY <1>1, <1>2 DEF WInv, Pending, Flags, Over
<1> QED BY <1>8, <1>9, <1>10, <1>11 DEF WInv

\* A new request draws an id, or sets the token of the active operation, or
\* carries nothing.
LEMMA RequestW ==
  ASSUME IInv, WInv, NEW h \in Handlers, NEW a \in Apps, NewRequest(h, a)
  PROVE  WInv'
<1>1. hs[h].pc = "idle" /\ hs \in [Handlers -> Handler]
  BY DEF NewRequest, Idle, InvokeAction, InvokeInstall, SetParam, CancelAction, UninstallApp,
         DeregisterApp, RegisterApp, IInv, TypeOK
<1>2. CASE InvokeAction(h, a) \/ InvokeInstall(h, a) \/ SetParam(h, a)
  <2>1. PICK p \in {"request", "direct", "extract"}, k \in Kinds : Begin(h, p, a, NewOp(a, k))
    <3>1. CASE InvokeAction(h, a)
      BY <3>1 DEF InvokeAction, Kinds
    <3>2. CASE InvokeInstall(h, a)
      BY <3>2 DEF InvokeInstall, Kinds
    <3>3. CASE SetParam(h, a)
      BY <3>3 DEF SetParam, Kinds
    <3> QED BY <1>2, <3>1, <3>2, <3>3
  <2>2. NewOp(a, k) \in Operation /\ NewOp(a, k).id = nextId
    BY DEF NewOp, Operation, IInv, TypeOK
  <2>3. p \in HandlerPc \ {"idle", "spawn", "flag"}
    BY DEF HandlerPc
  <2>4. Moved(h, p, a, NewOp(a, k))
    BY <1>1, <2>1, <2>2, <2>3, BeginMoves
  <2>5. nextId' = nextId + 1 /\ UNCHANGED <<queue, active, token, row, ended, flagged, pc>>
    BY <1>2 DEF InvokeAction, InvokeInstall, SetParam, DrawId, schedVars, dbVars, driverVars, histVars
  <2> QED BY <1>1, <2>2, <2>3, <2>4, <2>5, DrawW
<1>3. CASE CancelAction(h, a) /\ IsActive(a)
  <2>1. /\ active # None /\ token' = TRUE /\ Begin(h, "flag", a, active)
        /\ UNCHANGED <<queue, active, row, ended, flagged, nextId, pc>>
    BY <1>3 DEF CancelAction, RequestCancel, IsActive, dbVars, driverVars, histVars
  <2>2. Moved(h, "flag", a, active)
    BY <1>1, <2>1, BeginMoves DEF IInv, TypeOK, HandlerPc
  <2>3. \A g \in Handlers : g # h => hs'[g] = hs[g]
    BY <2>2 DEF Moved
  <2>4. hs'[h].pc = "flag" /\ hs'[h].op = active
    BY <2>2 DEF Moved
  <2>5. \A i : Begun(i)' => Begun(i)
    BY <2>1, <2>3, <2>4 DEF Begun
  <2>6. \A g \in Handlers : Holds(g)' => Holds(g) /\ hs'[g].op = hs[g].op
    BY <2>3, <2>4 DEF Holds
  <2>7. Drawn' /\ Waits' /\ Distinct'
    BY <2>1, <2>5, <2>6 DEF WInv, Drawn, Waits, Distinct
  <2>8. Pending' /\ Flags'
    BY <2>1 DEF WInv, Pending, Flags, Over
  <2> QED BY <2>7, <2>8 DEF WInv
<1>4. CASE \/ CancelAction(h, a) /\ ~IsActive(a)
           \/ UninstallApp(h, a) \/ DeregisterApp(h, a) \/ RegisterApp(h, a)
  <2>1. PICK p \in {"stuck", "uninstall", "deregCheck", "register"} : Begin(h, p, a, None)
    BY <1>4 DEF CancelAction, RequestCancel, UninstallApp, DeregisterApp, RegisterApp
  <2>2. UNCHANGED <<queue, active, token, row, ended, flagged, nextId, pc>>
    BY <1>4 DEF CancelAction, RequestCancel, UninstallApp, DeregisterApp, RegisterApp, schedVars,
                dbVars, driverVars, histVars
  <2>3. Moved(h, p, a, None)
    BY <1>1, <2>1, BeginMoves DEF HandlerPc
  <2>4. NoGain
    BY <2>3, MovedNoGain
  <2> QED BY <2>2, <2>4, QuietW DEF Over
<1> QED BY <1>2, <1>3, <1>4 DEF NewRequest

\* The slot passes, with a fresh token, to an operation that waited; the row
\* is not its own.
LEMMA TakesSlotW ==
  ASSUME IInv, WInv, NEW o \in Operation, ~Begun(o.id), o.id < nextId,
         active' = o, token' = FALSE, NoGain, UNCHANGED <<row, ended, flagged, nextId>>,
         \A h \in Handlers : Holds(h)' => hs'[h].op.id # o.id,
         DOMAIN queue' \subseteq Nat,
         \A k \in DOMAIN queue' : queue'[k].id # o.id /\ \E j \in DOMAIN queue : queue'[k] = queue[j],
         \A j, k \in DOMAIN queue' : queue'[j].id = queue'[k].id => j = k
  PROVE  WInv'
<1>1. \A i : Begun(i)' => Begun(i) \/ i = o.id
  BY DEF NoGain, Begun
<1>2. \A h \in Handlers : Holds(h)' => Holds(h) /\ hs'[h].op = hs[h].op
  BY DEF NoGain
<1>3. Drawn'
  BY <1>1, <1>2 DEF WInv, Drawn
<1>4. Waits'
  BY <1>1, <1>2 DEF WInv, Waits
<1>5. Distinct'
  <2>1. ASSUME NEW h \in Handlers, NEW k \in DOMAIN queue', Holds(h)'
        PROVE  queue'[k].id # hs'[h].op.id
    <3>1. PICK j \in DOMAIN queue : queue'[k] = queue[j]
      OBVIOUS
    <3> QED BY <1>2, <2>1, <3>1 DEF WInv, Distinct
  <2>2. \A g, h \in Handlers : Holds(g)' /\ Holds(h)' /\ hs'[g].op.id = hs'[h].op.id => g = h
    BY <1>2 DEF WInv, Distinct
  <2> QED BY <2>1, <2>2 DEF Distinct
<1>6. o.id \notin ended /\ o.id \notin flagged
  BY DEF Begun
<1>7. Pending'
  BY <1>6 DEF WInv, Pending
<1>8. Flags'
  <2>1. \A h \in Handlers : hs'[h].pc = "flag" => hs'[h].op.id # o.id
    BY DEF NoGain, Begun
  <2>2. row' # None /\ row'.id \in flagged' => row'.cancel
    BY DEF WInv, Flags
  <2> QED BY <1>6, <2>1, <2>2 DEF Flags
<1> QED BY <1>3, <1>4, <1>5, <1>7, <1>8 DEF WInv

\* An operation goes from its handler to the queue's end.
LEMMA EnqueueW ==
  ASSUME IInv, WInv, NEW h \in Handlers, Holds(h), hs[h].op \in Operation, Moved(h, "idle", None, None),
         queue' = Append(queue, hs[h].op),
         UNCHANGED <<active, token, row, ended, flagged, nextId, pc>>
  PROVE  WInv'
<1>1. NoGain
  BY MovedNoGain
<1>2. \A i : Begun(i)' => Begun(i)
  BY <1>1, NothingBegins
<1>3. \A g \in Handlers : Holds(g)' => Holds(g) /\ hs'[g].op = hs[g].op /\ g # h
  BY <1>1 DEF NoGain, Moved, Holds
<1>4. PICK n \in Nat : /\ n = Len(queue) + 1 /\ DOMAIN queue = 1..(n - 1) /\ DOMAIN queue' = 1..n
                       /\ queue'[n] = hs[h].op /\ \A k \in 1..(n - 1) : queue'[k] = queue[k]
  BY DEF IInv, TypeOK
<1>5. \A k \in DOMAIN queue' : k = n \/ (k # n /\ k \in DOMAIN queue /\ queue'[k] = queue[k])
  BY <1>4
<1>6. Drawn'
  BY <1>2, <1>3, <1>4, <1>5 DEF WInv, Drawn
<1>7. Waits'
  BY <1>2, <1>3, <1>4, <1>5 DEF WInv, Waits
<1>8. Distinct'
  <2>1. \A j, k \in DOMAIN queue' : queue'[j].id = queue'[k].id => j = k
    BY <1>4, <1>5 DEF WInv, Distinct
  <2>2. \A f, g \in Handlers : Holds(f)' /\ Holds(g)' /\ hs'[f].op.id = hs'[g].op.id => f = g
    BY <1>3 DEF WInv, Distinct
  <2>3. \A g \in Handlers, k \in DOMAIN queue' : Holds(g)' => queue'[k].id # hs'[g].op.id
    BY <1>3, <1>4, <1>5 DEF WInv, Distinct
  <2> QED BY <2>1, <2>2, <2>3 DEF Distinct
<1>9. Pending' /\ Flags'
  BY <1>1 DEF WInv, Pending, Flags, Over, NoGain
<1> QED BY <1>6, <1>7, <1>8, <1>9 DEF WInv

\* The scheduler's three answers.
LEMMA RequestSlotW ==
  ASSUME IInv, WInv, NEW h \in Handlers, RequestSlot(h)
  PROVE  WInv'
<1>1. /\ hs[h].pc = "request" /\ hs[h].op \in Operation /\ hs[h].op # None
      /\ hs \in [Handlers -> Handler]
  BY NoneAssumption DEF RequestSlot, IInv, HandlerOK, TypeOK
<1>2. Holds(h)
  BY <1>1 DEF Holds
<1>3. UNCHANGED <<row, ended, flagged, nextId, pc>>
  BY DEF RequestSlot, dbVars, driverVars, histVars
<1>4. CASE Accept(hs[h].op)
  <2>1. active = None /\ active' = hs[h].op /\ token' = FALSE /\ queue' = queue /\ queue = <<>>
    BY <1>4 DEF Accept, IInv, QueueDiscipline
  <2>2. Goto(h, "spawn") \/ Finish(h)
    BY <1>4, <2>1 DEF RequestSlot, Accept, Enqueue, Reject
  <2>3. Moved(h, "spawn", hs[h].app, hs[h].op) \/ Moved(h, "idle", None, None)
    BY <1>1, <2>2, GotoMoves, FinishMoves DEF HandlerPc
  <2>4. NoGain
    BY <2>3, MovedNoGain
  <2>5. \A g \in Handlers : Holds(g)' => Holds(g) /\ hs'[g].op = hs[g].op /\ g # h
    BY <2>3, <2>4 DEF NoGain, Moved, Holds
  <2>6. ~Begun(hs[h].op.id) /\ hs[h].op.id < nextId
    BY <1>2 DEF WInv, Waits, Drawn
  <2>7. \A g \in Handlers : Holds(g)' => hs'[g].op.id # hs[h].op.id
    BY <1>2, <2>5 DEF WInv, Distinct
  <2>8. DOMAIN queue' = {}
    BY <2>1
  <2>9. DOMAIN queue' \subseteq Nat
    BY <2>8
  <2> QED BY <1>1, <1>3, <2>1, <2>4, <2>6, <2>7, <2>8, <2>9, TakesSlotW
<1>5. CASE Enqueue(hs[h].op)
  <2>1. Finish(h) /\ queue' = Append(queue, hs[h].op) /\ UNCHANGED <<active, token>>
    BY <1>5 DEF RequestSlot, Accept, Enqueue, Reject
  <2>2. Moved(h, "idle", None, None)
    BY <1>1, <2>1, FinishMoves
  <2> QED BY <1>1, <1>2, <1>3, <2>1, <2>2, EnqueueW
<1>6. CASE Reject(hs[h].app)
  <2>1. Finish(h) /\ UNCHANGED <<active, token, queue>>
    BY <1>6 DEF RequestSlot, Accept, Enqueue, Reject, schedVars
  <2>2. Moved(h, "idle", None, None)
    BY <1>1, <2>1, FinishMoves
  <2>3. NoGain
    BY <2>2, MovedNoGain
  <2> QED BY <1>3, <2>1, <2>3, QuietW DEF Over
<1> QED BY <1>4, <1>5, <1>6 DEF RequestSlot

\* The flag reaches the row of the operation the token was set for.
LEMMA FlagCancelW ==
  ASSUME IInv, CInv, WInv, NEW h \in Handlers, FlagCancel(h)
  PROVE  WInv'
<1>1. hs[h].pc = "flag" /\ hs \in [Handlers -> Handler] /\ boot = "up"
  BY AtWork DEF FlagCancel, IInv, TypeOK
<1>2. UNCHANGED <<active, token, queue, ended, nextId, pc, op>>
  BY DEF FlagCancel, schedVars, driverVars
<1>3. Moved(h, "idle", None, None)
  BY <1>1, FinishMoves DEF FlagCancel
<1>4. NoGain
  BY <1>3, MovedNoGain
<1>5. CASE RowIs(hs[h].op.id)
  <2>1. /\ row # None /\ row.id = hs[h].op.id
        /\ row' = [row EXCEPT !.cancel = TRUE] /\ flagged' = flagged \cup {hs[h].op.id}
    BY <1>5 DEF RowIs, FlagCancel
  <2>2. row' # None /\ row'.id = row.id /\ row'.cancel
    <3>1. row \in Row /\ row' \in Row
      BY <2>1 DEF IInv, TypeOK, Row
    <3>2. row'.id = row.id /\ row'.cancel
      BY <2>1, <3>1 DEF Row
    <3>3. row' # None
      BY <3>1, RowAssumption
    <3> QED BY <3>2, <3>3
  <2>3. active # None => active.id = row.id
    BY <1>1, <2>1 DEF CInv, RowOwned, IInv, SlotOwner, Driving
  <2>4. \A i : Begun(i)' => Begun(i)
    BY <1>2, <1>4, <2>1, <2>2 DEF NoGain, Begun
  <2>5. Drawn' /\ Waits' /\ Distinct'
    BY <1>2, <1>4, <2>4 DEF WInv, Drawn, Waits, Distinct, NoGain
  <2>6. Pending'
    BY <1>2, <2>1, <2>2 DEF WInv, Pending, Over
  <2>7. Flags'
    <3>1. active # None => token
      BY <1>1, <2>1, <2>3 DEF WInv, Flags
    <3> QED BY <1>2, <2>1, <2>2, <2>3, <3>1 DEF Flags
  <2> QED BY <2>5, <2>6, <2>7 DEF WInv
<1>6. CASE ~RowIs(hs[h].op.id)
  <2>1. UNCHANGED <<row, flagged>>
    BY <1>6 DEF FlagCancel
  <2> QED BY <1>2, <1>4, <2>1, QuietW DEF Over
<1> QED BY <1>5, <1>6

\* The other steps of a handler at work carry on with what it held, or drop it.
LEMMA HandlerW ==
  ASSUME IInv, CInv, WInv, NEW h \in Handlers, HandlerStep(h)
  PROVE  WInv'
<1>1. hs \in [Handlers -> Handler]
  BY DEF IInv, TypeOK
<1>2. CASE RequestSlot(h)
  BY <1>2, RequestSlotW
<1>3. CASE FlagCancel(h)
  BY <1>3, FlagCancelW
<1>4. CASE ~(RequestSlot(h) \/ FlagCancel(h))
  <2>1. UNCHANGED <<queue, active, token, row, ended, flagged, nextId>> /\ (Over => Over')
    <3>1. CASE Spawn(h)
      BY <3>1 DEF Spawn, IInv, SlotOwner, Over, schedVars, dbVars, histVars
    <3>2. CASE ~Spawn(h)
      BY <1>4, <3>2 DEF HandlerStep, InstallDirect, ScheduleOnChange, CancelStuck, Unstick, HandlerExtract,
         HandlerWrite, UninstallCommit, DeregisterCheck, DeregisterDb, DeregisterMem, RegisterCommit,
         RegisterInsert, schedVars, dbVars, driverVars, histVars, Over
    <3> QED BY <3>1, <3>2
  <2>2. NoGain
    <3>1. CASE Finish(h)
      <4>1. Moved(h, "idle", None, None)
        BY <1>1, <3>1, FinishMoves
      <4> QED BY <4>1, MovedNoGain
    <3>2. CASE HandlerExtract(h) /\ ~Finish(h)
      <4>1. hs[h].pc = "extract" /\ hs' = [hs EXCEPT ![h].pc = "write", ![h].val = phase[hs[h].app]]
        BY <3>2 DEF HandlerExtract
      <4>2. hs'[h].pc = "write" /\ hs'[h].op = hs[h].op /\ \A g \in Handlers : g # h => hs'[g] = hs[g]
        BY <1>1, <4>1 DEF Handler
      <4> QED BY <4>1, <4>2 DEF NoGain, Holds
    <3>3. CASE ~Finish(h) /\ ~HandlerExtract(h)
      <4>1. PICK p \in HandlerPc \ {"idle", "spawn", "flag"} :
               Goto(h, p) /\ hs[h].pc \notin {"idle", "spawn", "flag"}
        BY <1>4, <3>3 DEF HandlerStep, InstallDirect, ScheduleOnChange, Spawn, CancelStuck, Unstick,
           HandlerWrite, UninstallCommit, DeregisterCheck, DeregisterDb, DeregisterMem, RegisterCommit,
           RegisterInsert, HandlerPc
      <4>2. Moved(h, p, hs[h].app, hs[h].op)
        BY <1>1, <4>1, GotoMoves
      <4>3. hs[h].op = None \/ Holds(h)
        BY <4>1 DEF Holds
      <4> QED BY <4>2, <4>3, MovedNoGain
    <3> QED BY <3>1, <3>2, <3>3
  <2> QED BY <2>1, <2>2, QuietW
<1> QED BY <1>2, <1>3, <1>4

\* The driver: the saved row keeps the flag of its own operation, a result
\* and the row's deletion are one step, and the slot passes to one that waited.
LEMMA DriverW ==
  ASSUME ~Aborts, IInv, CInv, WInv, DriverStep \/ DriverSuspend
  PROVE  WInv'
<1>1. hs' = hs /\ nextId' = nextId /\ flagged' = flagged
  BY DEF DriverStep, DriverBegin, DriverExtract, DriverWrite, DriverSave, DriverUnstartable,
         DriverComplete, DriverFail, DriverCancelled, DriverPanic, DriverFinalize, DriverRelease,
         DriverLookup, DriverSuspend, LastPass, bootVars, histVars
<1>2. NoGain /\ \A h \in Handlers : Holds(h)' <=> Holds(h)
  BY <1>1 DEF NoGain, Holds
<1>3. pc # "idle" /\ op # None /\ op \in Operation /\ active = op
  <2>1. pc # "idle"
    BY DEF DriverStep, DriverBegin, DriverExtract, DriverWrite, DriverSave, DriverUnstartable,
         DriverComplete, DriverFail, DriverCancelled, DriverPanic, DriverFinalize, DriverRelease,
         DriverLookup, DriverSuspend, LastPass
  <2> QED BY <2>1 DEF IInv, SlotOwner, TypeOK
<1>4. row # None => row.id = op.id
  BY <1>3 DEF CInv, RowOwned, IInv, BootQuiet
<1>5. CASE DriverSave
  <2>1. /\ pc = "start" /\ pc' = "run" /\ UNCHANGED <<queue, active, token, ended>>
        /\ row' = [id |-> op.id, app |-> op.app, kind |-> op.kind, cancel |-> row # None /\ row.cancel]
    BY <1>5 DEF DriverSave, CancelColumn, schedVars, histVars
  <2>2. row' \in Row /\ row'.id = op.id /\ (row'.cancel <=> row # None /\ row.cancel)
    BY <1>3, <2>1 DEF Row, Operation, IInv, TypeOK
  <2>3. row' # None
    BY <2>2, RowAssumption
  <2>4. \A i : Begun(i)' => Begun(i)
    BY <1>1, <1>3, <2>1, <2>2 DEF Begun
  <2>5. Drawn' /\ Waits' /\ Distinct'
    BY <1>1, <1>2, <2>1, <2>4 DEF WInv, Drawn, Waits, Distinct
  <2>6. op.id \notin ended
    BY <1>3, <2>1 DEF WInv, Pending, Over
  <2>7. Pending'
    BY <1>3, <2>1, <2>2, <2>6 DEF Pending
  <2>8. op.id \in flagged => token /\ row'.cancel
    BY <1>3, <2>2, <2>6 DEF WInv, Flags
  <2>9. Flags'
    BY <1>1, <1>3, <2>1, <2>2, <2>3, <2>8 DEF WInv, Flags
  <2> QED BY <2>5, <2>7, <2>9 DEF WInv
<1>6. CASE DriverComplete \/ DriverFail \/ DriverCancelled
  <2>1. /\ row' = None /\ ended' = ended \cup {op.id} /\ pc' = "cleanup"
        /\ UNCHANGED <<queue, active, token>>
    BY <1>6 DEF DriverComplete, DriverFail, DriverCancelled, ClearRow, Result, LastPass, schedVars
  <2>2. \A i : Begun(i)' => Begun(i)
    BY <1>1, <1>3, <2>1 DEF Begun
  <2>3. Drawn' /\ Waits' /\ Distinct'
    BY <1>1, <1>2, <2>1, <2>2 DEF WInv, Drawn, Waits, Distinct
  <2>4. Pending' /\ Flags'
    BY <1>1, <1>3, <2>1 DEF WInv, Pending, Flags, Over
  <2> QED BY <2>3, <2>4 DEF WInv
<1>7. CASE DriverRelease /\ queue # <<>>
  <2>1. /\ active' = Head(queue) /\ token' = FALSE /\ queue' = Tail(queue)
        /\ UNCHANGED <<row, ended>>
    BY <1>7 DEF DriverRelease, CompleteCurrent, dbVars, histVars
  <2>2. /\ Head(queue) \in Operation /\ 1 \in DOMAIN queue /\ Head(queue) = queue[1]
        /\ DOMAIN queue' \subseteq Nat
        /\ \A k \in DOMAIN queue' : k \in Nat /\ k + 1 \in DOMAIN queue /\ queue'[k] = queue[k + 1] /\ k + 1 # 1
    BY <1>7, <2>1 DEF IInv, TypeOK
  <2>3. ~Begun(Head(queue).id) /\ Head(queue).id < nextId
    BY <2>2 DEF WInv, Waits, Drawn
  <2>4. \A k \in DOMAIN queue' : queue'[k].id # Head(queue).id /\ \E j \in DOMAIN queue : queue'[k] = queue[j]
    BY <2>2 DEF WInv, Distinct
  <2>5. \A j, k \in DOMAIN queue' : queue'[j].id = queue'[k].id => j = k
    BY <2>2 DEF WInv, Distinct
  <2>6. \A h \in Handlers : Holds(h)' => hs'[h].op.id # Head(queue).id
    BY <1>1, <1>2, <2>2 DEF WInv, Distinct
  <2> QED BY <1>1, <1>2, <2>1, <2>2, <2>3, <2>4, <2>5, <2>6, TakesSlotW
<1>8. CASE DriverRelease /\ queue = <<>>
  <2>1. active' = None /\ queue' = queue /\ UNCHANGED <<row, ended>>
    BY <1>8 DEF DriverRelease, CompleteCurrent, dbVars, histVars
  <2>2. \A i : Begun(i)' => Begun(i)
    BY <1>1, <2>1 DEF Begun
  <2>3. Drawn' /\ Waits' /\ Distinct'
    BY <1>1, <1>2, <2>1, <2>2 DEF WInv, Drawn, Waits, Distinct
  <2>4. Pending' /\ Flags'
    BY <1>1, <2>1 DEF WInv, Pending, Flags
  <2> QED BY <2>3, <2>4 DEF WInv
<1>9. CASE DriverSuspend \/ DriverBegin \/ DriverExtract \/ DriverWrite \/ DriverFinalize \/ DriverLookup
  <2>1. UNCHANGED <<queue, active, token, row, ended>> /\ (Over => Over')
    BY <1>9 DEF DriverSuspend, DriverBegin, DriverExtract, DriverWrite, DriverFinalize, DriverLookup,
                schedVars, dbVars, driverVars, histVars, Over
  <2> QED BY <1>1, <1>2, <2>1, QuietW
<1>10. CASE DriverUnstartable \/ DriverPanic
  BY <1>10 DEF DriverUnstartable, DriverPanic
<1> QED BY <1>5, <1>6, <1>7, <1>8, <1>9, <1>10 DEF DriverStep

\* Restart: what waited is forgotten; the row's operation comes back with its
\* id and flag, or its row goes.
LEMMA DaemonW ==
  ASSUME IInv, CInv, WInv,
         \/ ReconcileTick \/ Crash \/ BootStep
         \/ \E a \in Apps : Bookkeeping(a) \/ UninstallDone(a)
  PROVE  WInv'
<1>1. CASE ReconcileTick \/ (\E a \in Apps : Bookkeeping(a) \/ UninstallDone(a)) \/ BootSweep \/ BootLoad
  <2>1. UNCHANGED <<queue, active, token, row, ended, flagged, nextId, hs, pc>>
    BY <1>1 DEF ReconcileTick, Bookkeeping, ReconcileActuate,
                InstancesReaped, UninstallRefused, UninstallDone, BootSweep, BootLoad, schedVars, dbVars,
                driverVars, histVars
  <2>2. NoGain
    BY <2>1 DEF NoGain, Holds
  <2> QED BY <2>1, <2>2, QuietW DEF Over
<1>2. CASE Crash
  <2>1. /\ active' = None /\ queue' = <<>> /\ UNCHANGED <<row, ended, flagged, nextId>>
        /\ \A h \in Handlers : hs'[h].pc = "idle"
    BY <1>2 DEF Crash, IdleHandler, dbVars, histVars
  <2>2. DOMAIN queue' = {} /\ \A h \in Handlers : ~Holds(h)'
    BY <2>1 DEF Holds
  <2>3. \A i : Begun(i)' => Begun(i)
    BY <2>1 DEF Begun
  <2>4. Drawn' /\ Waits' /\ Distinct'
    BY <2>1, <2>2, <2>3 DEF WInv, Drawn, Waits, Distinct
  <2>5. Pending' /\ Flags'
    BY <2>1 DEF WInv, Pending, Flags
  <2> QED BY <2>4, <2>5 DEF WInv
<1>3. CASE BootReplay
  <2>1. UNCHANGED <<hs, nextId, ended, flagged>> /\ active = None /\ queue = <<>>
        /\ \A h \in Handlers : hs[h].pc = "idle"
    BY <1>3 DEF BootReplay, histVars, IInv, BootQuiet, QueueDiscipline
  <2>2. NoGain /\ \A h \in Handlers : ~Holds(h)'
    BY <2>1 DEF NoGain, Holds
  <2>3. CASE row # None /\ Replay
    <3>1. /\ row' = row /\ token' = row.cancel /\ queue' = queue
          /\ active' = [id |-> row.id, app |-> row.app, kind |-> row.kind]
      BY <2>3 DEF Replay
    <3>2. active'.id = row.id
      BY <3>1
    <3>3. \A i : Begun(i)' => Begun(i)
      BY <2>1, <2>3, <3>1, <3>2 DEF Begun
    <3>4. Drawn' /\ Waits' /\ Distinct'
      BY <2>1, <2>2, <3>1, <3>3 DEF WInv, Drawn, Waits, Distinct
    <3>5. Pending' /\ Flags'
      BY <2>1, <2>3, <3>1, <3>2 DEF WInv, Pending, Flags
    <3> QED BY <3>4, <3>5 DEF WInv
  <2>4. CASE ~(row # None /\ Replay)
    <3>1. row' = None /\ UNCHANGED <<token, active, queue, pc>>
      BY <1>3, <2>4 DEF BootReplay, Discard, Unreadable, ClearRow, schedVars, driverVars
    <3>2. \A i : Begun(i)' => Begun(i)
      BY <2>1, <3>1 DEF Begun
    <3>3. Drawn' /\ Waits' /\ Distinct'
      BY <2>1, <2>2, <3>1, <3>2 DEF WInv, Drawn, Waits, Distinct
    <3>4. Pending' /\ Flags'
      BY <2>1, <3>1 DEF WInv, Pending, Flags
    <3> QED BY <3>3, <3>4 DEF WInv
  <2> QED BY <2>3, <2>4
<1> QED BY <1>1, <1>2, <1>3 DEF BootStep

\* Every step keeps WInv.
LEMMA StepWInv ==
  ASSUME ~Aborts, IInv, CInv, WInv, [Next]_vars
  PROVE  WInv'
<1>1. CASE Next
  BY <1>1, HandlerW, RequestW, DriverW, DaemonW DEF Next, UninstallStep, Bookkeeping
<1>2. CASE UNCHANGED vars
  <2>1. UNCHANGED <<queue, active, token, row, ended, flagged, nextId, hs, pc>>
    BY <1>2 DEF vars, schedVars, dbVars, driverVars, histVars
  <2>2. NoGain
    BY <2>1 DEF NoGain, Holds
  <2> QED BY <2>1, <2>2, QuietW DEF Over
<1> QED BY <1>1, <1>2

\* In the first state nothing has been drawn.
LEMMA InitWInv == Init => CInv /\ WInv
<1> SUFFICES ASSUME Init PROVE CInv /\ WInv
  OBVIOUS
<1>1. /\ active = None /\ row = None /\ ended = {} /\ flagged = {} /\ DOMAIN queue = {}
      /\ \A h \in Handlers : hs[h].pc = "idle" /\ ~Holds(h)
  BY DEF Init, SchedInit, IdleHandler, Holds
<1>2. \A i : ~Begun(i)
  BY <1>1 DEF Begun
<1>3. CInv
  BY DEF Init, SchedInit, CInv, RowOwned, RowAsked, TokenAsked
<1> QED BY <1>1, <1>2, <1>3 DEF WInv, Drawn, Waits, Distinct, Pending, Flags

\* The three invariants together.
LEMMA StepAll == ASSUME ~Aborts PROVE IInv /\ CInv /\ WInv /\ [Next]_vars => IInv' /\ CInv' /\ WInv'
BY StepIInv, StepCInv, StepWInv

\* r[operation.lifecycle.completion]: an operation whose result is in is run again
\* neither from the queue nor by the replay after a restart.
THEOREM RunsOnce == ASSUME ~Aborts PROVE Spec => []NoRerun
<1>1. IInv /\ WInv => NoRerun
  BY DEF IInv, SlotOwner, WInv, Pending, Over, NoRerun
<1> QED BY <1>1, InitIInv, InitWInv, StepAll, PTL DEF Spec

\* r[operation.cancel.persistence]: once the flag is in the row, every run of
\* the operation, before and after restarts, has its token set.
THEOREM CancelSurvives == ASSUME ~Aborts PROVE Spec => []CancelKept
<1>1. IInv /\ WInv => CancelKept
  BY DEF IInv, SlotOwner, WInv, Pending, Flags, Over, Unfinished, CancelKept
<1> QED BY <1>1, InitIInv, InitWInv, StepAll, PTL DEF Spec

-----------------------------------------------------------------------------
(***************************************************************************)
(* The slot and the phases of the apps: nobody holds the slot without a    *)
(* driver (SlotServed), no app is left in Installing (NoStuckInstalling),  *)
(* and what is stored suffices to resume (StoredSuffices).                 *)
(*                                                                         *)
(* Each holds in the histories without some of the requests, named in the  *)
(* theorem: deregister_app removes an app under an operation that was      *)
(* accepted for it, and an accepted on_change operation is never spawned.  *)
(***************************************************************************)

-----------------------------------------------------------------------------
(* The slot is served.                                                     *)

\* Nobody removes an app, and a handler at rest carries nothing.
NoRemoval == \A h \in Handlers :
  /\ hs[h].pc \notin {"deregCheck", "deregDb", "deregMem"}
  /\ hs[h].pc = "idle" => hs[h].op = None

\* An operation in circulation is on a registered app.
Present ==
  /\ active # None => phase[active.app] # "Absent"
  /\ \A k \in DOMAIN queue : phase[queue[k].app] # "Absent"
  /\ \A h \in Handlers : hs[h].op # None => phase[hs[h].op.app] # "Absent"

RInv == NoRemoval /\ Present

\* No app vanishes from the registry.
NoneVanishes == \A a \in Apps : phase'[a] = "Absent" => phase[a] = "Absent"

\* A step after which the handlers, the slot and the queue hold no operation
\* they did not hold before.
LEMMA PresentStays ==
  ASSUME IInv, Present, NoneVanishes, hs' \in [Handlers -> Handler], queue' \in Seq(Operation),
         active' \in Operation \cup {None},
         active' # None => \/ active' = active
                           \/ \E k \in DOMAIN queue : active' = queue[k]
                           \/ \E h \in Handlers : active' = hs[h].op,
         \A k \in DOMAIN queue' : \/ \E j \in DOMAIN queue : queue'[k] = queue[j]
                                  \/ \E h \in Handlers : queue'[k] = hs[h].op,
         \A h \in Handlers : hs'[h].op # None => \/ hs'[h].op = hs[h].op
                                                 \/ hs'[h].op = active
                                                 \/ phase[hs'[h].op.app] # "Absent"
  PROVE  Present'
<1>1. \A o \in Operation : o # None /\ o.app \in Apps
  BY NoneAssumption DEF Operation
<1>2. \A h \in Handlers : hs'[h].op # None => hs'[h].op \in Operation
  BY DEF Handler
<1>3. \A k \in DOMAIN queue' : queue'[k] \in Operation
  BY SMT
<1>4. active' # None => phase'[active'.app] # "Absent"
  BY <1>1 DEF Present, NoneVanishes
<1>5. \A k \in DOMAIN queue' : phase'[queue'[k].app] # "Absent"
  BY <1>1, <1>3 DEF Present, NoneVanishes
<1>6. \A h \in Handlers : hs'[h].op # None => phase'[hs'[h].op.app] # "Absent"
  BY <1>1, <1>2 DEF Present, NoneVanishes
<1> QED BY <1>4, <1>5, <1>6 DEF Present

\* The steps of a handler at work.
LEMMA HandlerR ==
  ASSUME IInv, RInv, NEW h \in Handlers, HandlerStep(h)
  PROVE  RInv'
<1>0. IInv' /\ \A g \in Handlers : g # h => hs'[g] = hs[g]
  <2>1. Next
    BY DEF Next, UninstallStep, Bookkeeping
  <2> QED BY <2>1, StepIInv, OthersStay DEF IInv
<1>1. hs[h].pc \notin {"deregCheck", "deregDb", "deregMem"}
  BY DEF RInv, NoRemoval
<1>2. /\ hs'[h].pc \notin {"deregCheck", "deregDb", "deregMem"}
      /\ hs'[h].op = None \/ (hs'[h].op = hs[h].op /\ hs'[h].pc # "idle")
  <2>1. hs \in [Handlers -> Handler]
    BY DEF IInv, TypeOK
  <2>2. CASE Finish(h)
    BY <2>1, <2>2, FinishMoves DEF Moved
  <2>3. CASE HandlerExtract(h) /\ ~Finish(h)
    BY <2>1, <2>3 DEF HandlerExtract, Handler
  <2>4. CASE ~Finish(h) /\ ~HandlerExtract(h)
    <3>1. PICK p \in HandlerPc : Goto(h, p) /\ p \notin {"idle", "deregCheck", "deregDb", "deregMem"}
      BY <1>1, <2>4 DEF HandlerStep, InstallDirect, ScheduleOnChange, RequestSlot, Spawn, FlagCancel, CancelStuck,
         Unstick, HandlerWrite, UninstallCommit, DeregisterCheck, DeregisterDb, DeregisterMem, RegisterCommit,
         RegisterInsert, HandlerPc
    <3> QED BY <2>1, <3>1, GotoMoves DEF Moved
  <2> QED BY <2>2, <2>3, <2>4
<1>3. NoneVanishes
  <2>1. CASE InstallDirect(h) \/ Unstick(h) \/ UninstallCommit(h)
    <3>1. hs[h].app \in Apps
      BY <2>1, AtWork DEF InstallDirect, Unstick, UninstallCommit
    <3> QED BY <2>1, <3>1 DEF InstallDirect, Unstick, UninstallCommit, SetPhase, NoneVanishes, IInv, TypeOK
  <2>2. CASE RegisterInsert(h)
    BY <2>2 DEF RegisterInsert, NoneVanishes, IInv, TypeOK
  <2>3. CASE ~(InstallDirect(h) \/ Unstick(h) \/ UninstallCommit(h) \/ RegisterInsert(h))
    BY <1>1, <2>3 DEF HandlerStep, ScheduleOnChange, RequestSlot, Spawn, FlagCancel, CancelStuck,
         HandlerExtract, HandlerWrite, DeregisterCheck, DeregisterDb, DeregisterMem, RegisterCommit,
         NoneVanishes
  <2> QED BY <2>1, <2>2, <2>3
<1>4. active' = active \/ active' = hs[h].op
  BY DEF HandlerStep, InstallDirect, ScheduleOnChange, RequestSlot, Spawn, FlagCancel, CancelStuck,
         Unstick, HandlerExtract, HandlerWrite, UninstallCommit, DeregisterCheck, DeregisterDb, DeregisterMem,
         RegisterCommit, RegisterInsert, Accept, Enqueue, Reject, schedVars
<1>5. queue' = queue \/ queue' = Append(queue, hs[h].op)
  BY DEF HandlerStep, InstallDirect, ScheduleOnChange, RequestSlot, Spawn, FlagCancel, CancelStuck,
         Unstick, HandlerExtract, HandlerWrite, UninstallCommit, DeregisterCheck, DeregisterDb, DeregisterMem,
         RegisterCommit, RegisterInsert, Accept, Enqueue, Reject, schedVars
<1>6. \A k \in DOMAIN queue' : (\E j \in DOMAIN queue : queue'[k] = queue[j]) \/ queue'[k] = hs[h].op
  BY <1>5 DEF IInv, TypeOK
<1>7. hs' \in [Handlers -> Handler] /\ queue' \in Seq(Operation) /\ active' \in Operation \cup {None}
  BY <1>0 DEF IInv, TypeOK
<1>8. Present'
  BY <1>0, <1>2, <1>3, <1>4, <1>6, <1>7, PresentStays DEF RInv
<1>9. NoRemoval'
  BY <1>0, <1>2 DEF RInv, NoRemoval
<1> QED BY <1>8, <1>9 DEF RInv

\* A new request is on a registered app, and none removes it.
LEMMA RequestR ==
  ASSUME "deregister" \notin Requests, IInv, RInv, NEW h \in Handlers, NEW a \in Apps, NewRequest(h, a)
  PROVE  RInv'
<1>0. IInv' /\ \A g \in Handlers : g # h => hs'[g] = hs[g]
  <2>1. Next
    BY DEF Next, UninstallStep, Bookkeeping
  <2> QED BY <2>1, StepIInv, OthersStay DEF IInv
<1>1. UNCHANGED <<active, queue, phase>> /\ hs \in [Handlers -> Handler]
  BY DEF NewRequest, InvokeAction, InvokeInstall, SetParam, CancelAction, UninstallApp,
         DeregisterApp, RegisterApp, RequestCancel, schedVars, IInv, TypeOK
<1>2. /\ hs'[h].pc \notin {"idle", "deregCheck", "deregDb", "deregMem"}
      /\ hs'[h].op = None \/ hs'[h].op = active \/ phase[hs'[h].op.app] # "Absent"
  <2>1. CASE InvokeAction(h, a) \/ InvokeInstall(h, a) \/ SetParam(h, a)
    <3>1. PICK p \in {"request", "direct", "extract"}, k \in Kinds : Begin(h, p, a, NewOp(a, k))
      <4>1. CASE InvokeAction(h, a)
        BY <4>1 DEF InvokeAction, Kinds
      <4>2. CASE InvokeInstall(h, a)
        BY <4>2 DEF InvokeInstall, Kinds
      <4>3. CASE SetParam(h, a)
        BY <4>3 DEF SetParam, Kinds
      <4> QED BY <2>1, <4>1, <4>2, <4>3
    <3>2. hs'[h] = [pc |-> p, app |-> a, op |-> NewOp(a, k), val |-> "Absent"]
      BY <1>1, <3>1 DEF Begin
    <3>3. phase[a] # "Absent"
      BY <2>1 DEF InvokeAction, InvokeInstall, SetParam
    <3> QED BY <3>2, <3>3 DEF NewOp
  <2>2. CASE CancelAction(h, a) \/ UninstallApp(h, a) \/ DeregisterApp(h, a) \/ RegisterApp(h, a)
    <3>1. PICK p \in {"flag", "stuck", "uninstall", "register"}, o \in {active, None} : Begin(h, p, a, o)
      BY <2>2 DEF CancelAction, UninstallApp, DeregisterApp, RegisterApp, Idle
    <3>2. hs'[h] = [pc |-> p, app |-> a, op |-> o, val |-> "Absent"]
      BY <1>1, <3>1 DEF Begin
    <3> QED BY <3>2
  <2> QED BY <2>1, <2>2 DEF NewRequest
<1>3. hs' \in [Handlers -> Handler] /\ queue' \in Seq(Operation) /\ active' \in Operation \cup {None}
  BY <1>0 DEF IInv, TypeOK
<1>4. NoneVanishes
  BY <1>1 DEF NoneVanishes
<1>5. Present'
  BY <1>0, <1>1, <1>2, <1>3, <1>4, PresentStays DEF RInv
<1>6. NoRemoval'
  BY <1>0, <1>2 DEF RInv, NoRemoval
<1> QED BY <1>5, <1>6 DEF RInv

\* The driver hands the slot to the head of the queue and removes no app.
LEMMA DriverR ==
  ASSUME IInv, RInv, DriverStep \/ DriverSuspend
  PROVE  RInv'
<1>1. hs' = hs /\ IInv'
  <2>1. Next
    BY DEF Next, UninstallStep, Bookkeeping
  <2>2. hs' = hs
    BY DEF DriverStep, DriverBegin, DriverExtract, DriverWrite, DriverSave, DriverUnstartable,
         DriverComplete, DriverFail, DriverCancelled, DriverPanic, DriverFinalize, DriverRelease,
         DriverLookup, DriverSuspend, LastPass
  <2> QED BY <2>1, <2>2, StepIInv
<1>2. \/ UNCHANGED <<active, queue>>
      \/ active' = None /\ queue' = queue
      \/ queue # <<>> /\ active' = Head(queue) /\ queue' = Tail(queue)
  BY DEF DriverStep, DriverBegin, DriverExtract, DriverWrite, DriverSave, DriverUnstartable,
         DriverComplete, DriverFail, DriverCancelled, DriverPanic, DriverFinalize, DriverRelease,
         DriverLookup, DriverSuspend, LastPass, CompleteCurrent, schedVars
<1>3. /\ active' # None => active' = active \/ \E k \in DOMAIN queue : active' = queue[k]
      /\ \A k \in DOMAIN queue' : \E j \in DOMAIN queue : queue'[k] = queue[j]
  <2>1. CASE queue # <<>> /\ active' = Head(queue) /\ queue' = Tail(queue)
    <3>1. 1 \in DOMAIN queue /\ active' = queue[1]
      BY <2>1 DEF IInv, TypeOK
    <3>2. \A k \in DOMAIN queue' : k + 1 \in DOMAIN queue /\ queue'[k] = queue[k + 1]
      BY <2>1 DEF IInv, TypeOK
    <3> QED BY <3>1, <3>2
  <2> QED BY <1>2, <2>1
<1>4. NoneVanishes
  <2>1. CASE (DriverBegin \/ DriverFinalize) /\ op.kind = "install"
    <3>1. op \in Operation /\ op.app \in Apps
      BY <2>1 DEF DriverBegin, DriverFinalize, IInv, TypeOK, SlotOwner, Operation
    <3> QED BY <2>1, <3>1 DEF DriverBegin, DriverFinalize, SetPhase, FinalPhase, NoneVanishes, IInv, TypeOK
  <2>2. CASE ~((DriverBegin \/ DriverFinalize) /\ op.kind = "install")
    BY <2>2 DEF DriverStep, DriverBegin, DriverExtract, DriverWrite, DriverSave, DriverUnstartable,
         DriverComplete, DriverFail, DriverCancelled, DriverPanic, DriverFinalize, DriverRelease,
         DriverLookup, DriverSuspend, LastPass, NoneVanishes
  <2> QED BY <2>1, <2>2
<1>5. hs' \in [Handlers -> Handler] /\ queue' \in Seq(Operation) /\ active' \in Operation \cup {None}
  BY <1>1 DEF IInv, TypeOK
<1>6. Present'
  BY <1>1, <1>3, <1>4, <1>5, PresentStays DEF RInv
<1> QED BY <1>1, <1>6 DEF RInv, NoRemoval

\* After a crash nothing is in circulation but what is replayed, on an app
\* that was loaded.
LEMMA DaemonR ==
  ASSUME IInv, RInv,
         \/ ReconcileTick \/ Crash \/ BootStep
         \/ \E a \in Apps : Bookkeeping(a) \/ UninstallDone(a)
  PROVE  RInv'
<1>0. IInv'
  <2>1. Next
    BY DEF Next, UninstallStep, Bookkeeping
  <2> QED BY <2>1, StepIInv
<1>1. CASE Crash
  <2>1. active' = None /\ DOMAIN queue' = {} /\ \A h \in Handlers : hs'[h] = IdleHandler
    BY <1>1 DEF Crash
  <2> QED BY <2>1 DEF RInv, NoRemoval, Present, IdleHandler
<1>2. CASE BootLoad
  <2>1. UNCHANGED <<active, queue, hs>> /\ active = None /\ queue = <<>> /\ \A h \in Handlers : hs[h].pc = "idle"
    BY <1>2 DEF BootLoad, schedVars, IInv, BootQuiet, QueueDiscipline
  <2>2. DOMAIN queue = {} /\ \A h \in Handlers : hs[h].op = None
    BY <2>1 DEF RInv, NoRemoval
  <2> QED BY <2>1, <2>2 DEF RInv, NoRemoval, Present
<1>3. CASE BootReplay
  <2>1. UNCHANGED hs /\ active = None /\ queue = <<>> /\ \A h \in Handlers : hs[h].pc = "idle"
    BY <1>3 DEF BootReplay, schedVars, IInv, BootQuiet, QueueDiscipline
  <2>2. queue' = queue /\ DOMAIN queue = {} /\ \A h \in Handlers : hs[h].op = None
    BY <1>3, <2>1 DEF BootReplay, Replay, Discard, Unreadable, schedVars, RInv, NoRemoval
  <2>3. active' # None => phase'[active'.app] # "Absent"
    BY <1>3, <2>1 DEF BootReplay, Replay, Replayable, Discard, Unreadable, schedVars
  <2> QED BY <2>1, <2>2, <2>3 DEF RInv, NoRemoval, Present
<1>4. CASE ReconcileTick \/ BootSweep \/ \E a \in Apps : Bookkeeping(a) \/ UninstallDone(a)
  <2>1. UNCHANGED <<active, queue, hs>>
    BY <1>4 DEF ReconcileTick, BootSweep, Bookkeeping, ReconcileActuate,
                InstancesReaped, UninstallRefused, UninstallDone, schedVars
  <2>2. NoneVanishes
    <3>1. CASE ReconcileTick \/ \E a \in Apps : Bookkeeping(a)
      BY <3>1 DEF ReconcileTick, Bookkeeping, ReconcileActuate, InstancesReaped, UninstallRefused, NoneVanishes
    <3>2. CASE BootSweep
      BY <3>2 DEF BootSweep, NoneVanishes
    <3>3. ASSUME NEW a \in Apps, UninstallDone(a) PROVE NoneVanishes
      BY <3>3 DEF UninstallDone, SetPhase, NoneVanishes, IInv, TypeOK
    <3> QED BY <1>4, <3>1, <3>2, <3>3
  <2>3. hs' \in [Handlers -> Handler] /\ queue' \in Seq(Operation) /\ active' \in Operation \cup {None}
    BY <1>0 DEF IInv, TypeOK
  <2>4. Present'
    BY <2>1, <2>2, <2>3, PresentStays DEF RInv
  <2> QED BY <2>1, <2>4 DEF RInv, NoRemoval
<1> QED BY <1>1, <1>2, <1>3, <1>4 DEF BootStep

\* Every step keeps RInv.
LEMMA StepRInv ==
  ASSUME "deregister" \notin Requests, IInv, RInv, [Next]_vars
  PROVE  RInv'
<1>1. CASE Next
  BY <1>1, HandlerR, RequestR, DriverR, DaemonR DEF Next, UninstallStep, Bookkeeping
<1>2. CASE UNCHANGED vars
  BY <1>2 DEF vars, schedVars, RInv, NoRemoval, Present
<1> QED BY <1>1, <1>2

\* In the first state nothing is in circulation.
LEMMA InitRInv == Init => RInv
<1> SUFFICES ASSUME Init PROVE RInv
  OBVIOUS
<1>1. active = None /\ DOMAIN queue = {} /\ \A h \in Handlers : hs[h] = IdleHandler
  BY DEF Init, SchedInit
<1> QED BY <1>1 DEF RInv, NoRemoval, Present, IdleHandler

\* No handler is on its way to ask for an on_change operation.
NoChange == \A h \in Handlers : hs[h].op # None /\ hs[h].pc # "flag" => hs[h].op.kind # "param"

\* A handler's step keeps the slot served: what is accepted is spawned, and
\* what is spawned is found.
LEMMA HandlerS ==
  ASSUME IInv, RInv, NoChange, SlotServed, NEW h \in Handlers, HandlerStep(h)
  PROVE  NoChange' /\ SlotServed'
<1>0. hs \in [Handlers -> Handler] /\ \A g \in Handlers : g # h => hs'[g] = hs[g]
  BY OthersStay DEF IInv, TypeOK
<1>1. hs'[h].op = None \/ (hs'[h].op = hs[h].op /\ hs[h].pc # "flag")
  <2>1. CASE Finish(h)
    BY <1>0, <2>1, FinishMoves DEF Moved
  <2>2. CASE HandlerExtract(h) /\ ~Finish(h)
    BY <1>0, <2>2 DEF HandlerExtract, Handler
  <2>3. CASE ~Finish(h) /\ ~HandlerExtract(h)
    <3>1. PICK p \in HandlerPc : Goto(h, p) /\ hs[h].pc # "flag"
      BY <2>3 DEF HandlerStep, InstallDirect, ScheduleOnChange, RequestSlot, Spawn, FlagCancel, CancelStuck,
         Unstick, HandlerWrite, UninstallCommit, DeregisterCheck, DeregisterDb, DeregisterMem, RegisterCommit,
         RegisterInsert, HandlerPc
    <3> QED BY <1>0, <3>1, GotoMoves DEF Moved
  <2> QED BY <2>1, <2>2, <2>3
<1>2. NoChange'
  BY <1>0, <1>1 DEF NoChange
<1>3. CASE RequestSlot(h)
  <2>1. hs[h].pc = "request" /\ hs[h].op # None /\ hs[h].op.kind # "param" /\ pc' = pc
    BY <1>3, NoneAssumption DEF RequestSlot, NoChange, IInv, HandlerOK, driverVars
  <2>2. CASE Accept(hs[h].op)
    <3>1. Goto(h, "spawn")
      BY <1>3, <2>1, <2>2 DEF RequestSlot, Accept, Enqueue, Reject
    <3>2. hs'[h].pc = "spawn"
      BY <1>0, <3>1, GotoMoves DEF Moved, HandlerPc
    <3> QED BY <1>2, <3>2 DEF SlotServed
  <2>3. CASE ~Accept(hs[h].op)
    <3>1. active' = active
      BY <1>3, <2>3 DEF RequestSlot, Enqueue, Reject, schedVars
    <3> QED BY <1>0, <1>2, <2>1, <3>1 DEF SlotServed
  <2> QED BY <2>2, <2>3
<1>4. CASE Spawn(h)
  <2>1. active' = active /\ active # None /\ active = hs[h].op
    BY <1>4 DEF Spawn, schedVars, IInv, SlotOwner
  <2>2. phase[hs[h].op.app] # "Absent"
    BY <2>1 DEF RInv, Present
  <2>3. pc' = "begin"
    BY <1>4, <2>2 DEF Spawn, Lookup
  <2> QED BY <1>2, <2>3 DEF SlotServed
<1>5. CASE ~RequestSlot(h) /\ ~Spawn(h)
  <2>1. active' = active /\ pc' = pc /\ hs[h].pc # "spawn"
    BY <1>5 DEF HandlerStep, InstallDirect, ScheduleOnChange, FlagCancel, CancelStuck, Unstick,
       HandlerExtract, HandlerWrite, UninstallCommit, DeregisterCheck, DeregisterDb, DeregisterMem,
       RegisterCommit, RegisterInsert, schedVars, driverVars
  <2> QED BY <1>0, <1>2, <2>1 DEF SlotServed
<1> QED BY <1>3, <1>4, <1>5

\* A new request leaves the slot alone, and none of them is for on_change.
LEMMA RequestS ==
  ASSUME "param" \notin Requests, IInv, NoChange, SlotServed, NEW h \in Handlers, NEW a \in Apps, NewRequest(h, a)
  PROVE  NoChange' /\ SlotServed'
<1>0. hs \in [Handlers -> Handler] /\ \A g \in Handlers : g # h => hs'[g] = hs[g]
  BY OthersStay DEF IInv, TypeOK
<1>1. active' = active /\ pc' = pc /\ hs[h].pc = "idle"
  BY DEF NewRequest, InvokeAction, InvokeInstall, SetParam, CancelAction, UninstallApp, Idle,
         DeregisterApp, RegisterApp, RequestCancel, schedVars, driverVars
<1>2. hs'[h].op = None \/ hs'[h].pc = "flag" \/ hs'[h].op.kind # "param"
  <2>1. CASE InvokeAction(h, a) \/ InvokeInstall(h, a) \/ SetParam(h, a)
    <3>1. PICK p \in {"request", "direct"}, k \in {"action", "install"} : Begin(h, p, a, NewOp(a, k))
      <4>1. CASE InvokeAction(h, a)
        BY <4>1 DEF InvokeAction
      <4>2. CASE InvokeInstall(h, a)
        BY <4>2 DEF InvokeInstall
      <4>3. CASE SetParam(h, a)
        BY <4>3 DEF SetParam, Idle
      <4> QED BY <2>1, <4>1, <4>2, <4>3
    <3>2. hs'[h] = [pc |-> p, app |-> a, op |-> NewOp(a, k), val |-> "Absent"]
      BY <1>0, <3>1 DEF Begin
    <3> QED BY <3>2 DEF NewOp
  <2>2. CASE CancelAction(h, a) \/ UninstallApp(h, a) \/ DeregisterApp(h, a) \/ RegisterApp(h, a)
    <3>1. PICK p \in HandlerPc, o \in {active, None} : Begin(h, p, a, o) /\ (p = "flag" \/ o = None)
      BY <2>2 DEF CancelAction, UninstallApp, DeregisterApp, RegisterApp, HandlerPc
    <3>2. hs'[h] = [pc |-> p, app |-> a, op |-> o, val |-> "Absent"]
      BY <1>0, <3>1 DEF Begin
    <3> QED BY <3>1, <3>2
  <2> QED BY <2>1, <2>2 DEF NewRequest
<1>3. NoChange'
  BY <1>0, <1>2 DEF NoChange
<1>4. SlotServed'
  BY <1>0, <1>1 DEF SlotServed
<1> QED BY <1>3, <1>4

\* The driver keeps its slot until it hands it over or frees it; the rest of
\* the daemon leaves it alone, or fills it together with a driver.
LEMMA OthersS ==
  ASSUME IInv, RInv, NoChange, SlotServed,
         \/ DriverStep \/ DriverSuspend \/ ReconcileTick \/ Crash \/ BootStep
         \/ \E a \in Apps : Bookkeeping(a) \/ UninstallDone(a)
  PROVE  NoChange' /\ SlotServed'
<1>1. CASE DriverStep \/ DriverSuspend
  <2>1. hs' = hs
    BY <1>1 DEF DriverStep, DriverBegin, DriverExtract, DriverWrite, DriverSave, DriverUnstartable,
         DriverComplete, DriverFail, DriverCancelled, DriverPanic, DriverFinalize, DriverRelease,
         DriverLookup, DriverSuspend, LastPass
  <2>2. pc' # "idle" \/ active' = None
    <3>1. CASE DriverLookup
      <4>1. phase[op.app] # "Absent"
        BY <3>1 DEF DriverLookup, IInv, SlotOwner, RInv, Present
      <4> QED BY <3>1, <4>1 DEF DriverLookup, Lookup
    <3>2. CASE ~DriverLookup
      BY <1>1, <3>2 DEF DriverStep, DriverBegin, DriverExtract, DriverWrite, DriverSave, DriverUnstartable,
         DriverComplete, DriverFail, DriverCancelled, DriverPanic, DriverFinalize, DriverRelease,
         DriverSuspend, LastPass, Result, CompleteCurrent, driverVars
    <3> QED BY <3>1, <3>2
  <2> QED BY <2>1, <2>2 DEF NoChange, SlotServed
<1>2. CASE Crash
  <2>1. active' = None /\ \A h \in Handlers : hs'[h] = IdleHandler
    BY <1>2 DEF Crash
  <2> QED BY <2>1 DEF NoChange, SlotServed, IdleHandler
<1>3. CASE BootStep
  <2>1. hs' = hs /\ (UNCHANGED <<active, pc>> \/ pc' = "begin")
    BY <1>3 DEF BootStep, BootLoad, BootReplay, BootSweep, Replay, Discard, Unreadable, schedVars, driverVars
  <2> QED BY <2>1 DEF NoChange, SlotServed
<1>4. CASE ReconcileTick \/ \E a \in Apps : Bookkeeping(a) \/ UninstallDone(a)
  <2>1. hs' = hs /\ UNCHANGED <<active, pc>>
    BY <1>4 DEF ReconcileTick, Bookkeeping, ReconcileActuate,
                InstancesReaped, UninstallRefused, UninstallDone, schedVars, driverVars
  <2> QED BY <2>1 DEF NoChange, SlotServed
<1> QED BY <1>1, <1>2, <1>3, <1>4

\* Every step keeps the slot served.
LEMMA StepServed ==
  ASSUME Requests \cap {"param", "deregister"} = {}, IInv, RInv, NoChange, SlotServed, [Next]_vars
  PROVE  NoChange' /\ SlotServed'
<1>1. CASE Next
  BY <1>1, HandlerS, RequestS, OthersS DEF Next, UninstallStep, Bookkeeping
<1>2. CASE UNCHANGED vars
  BY <1>2 DEF vars, schedVars, driverVars, NoChange, SlotServed
<1> QED BY <1>1, <1>2

\* A slot that is taken has a driver, or a handler about to spawn one, in
\* every history in which no app is deregistered and no parameter set: those
\* are the two ways the code leaves it taken for good.
THEOREM SlotAlwaysServed ==
  ASSUME Requests \cap {"param", "deregister"} = {}
  PROVE  Spec => []SlotServed
<1> DEFINE Inv == IInv /\ RInv /\ NoChange /\ SlotServed
<1>1. Init => Inv
  <2>1. Init => NoChange /\ SlotServed
    BY DEF Init, SchedInit, IdleHandler, NoChange, SlotServed
  <2> QED BY <2>1, InitIInv, InitRInv
<1>2. Inv /\ [Next]_vars => Inv'
  BY StepIInv, StepRInv, StepServed
<1> QED BY <1>1, <1>2, PTL DEF Spec

-----------------------------------------------------------------------------
(* No app is left in Installing.                                           *)

\* The install of app a is in the slot, its driver at one of the places P.
Installs(a, P) == active # None /\ active.app = a /\ active.kind = "install" /\ pc \in P

ToResult == {"begin", "extract1", "write1", "start", "run", "cleanup"}

\* Start-up has passed the point where the sweep is to look at app a.
Looked(a) == boot = "up" \/ (boot = "sweep" /\ a = bootApp)

\* The row is the driver's, in full.
RowMatches == row # None /\ Driving => row.app = op.app /\ row.kind = op.kind

\* Installing, in memory, in the database and in a handler's hands, goes with
\* the install at work on the app.
InMemory == \A a \in Apps : phase[a] = "Installing" /\ Looked(a) => Installs(a, ToResult)
InStore  == \A a \in Apps : stored[a] = "Installing" /\ Looked(a) =>
              Installs(a, ToResult \cup {"extract2", "write2"})
InHand   == \A h \in Handlers : hs[h].pc = "write" /\ hs[h].val = "Installing" =>
              Installs(hs[h].app, ToResult)

\* The driver's persist steps belong to an install, and the second does not
\* write Installing.
DriverHand ==
  /\ pc \in {"extract1", "write1", "extract2", "write2"} => op.kind = "install"
  /\ pc = "write2" => val # "Installing"

\* What start-up finds: a stored Installing of the row's app is an install's;
\* until the sweep, memory is what was loaded, except for the row's app.
Recovery ==
  /\ boot \in {"load", "replay"} /\ row # None =>
       (stored[row.app] = "Installing" => row.kind = "install")
  /\ boot = "replay" => phase = stored /\ bootApp = IF row = None THEN None ELSE row.app
  /\ boot = "sweep" =>
       /\ queue = <<>>
       /\ active # None => active.app = bootApp
       /\ \A a \in Apps : a # bootApp => phase[a] = stored[a]

PInv == RowMatches /\ InMemory /\ InStore /\ InHand /\ DriverHand /\ Recovery

\* A step with the daemon up that leaves slot and driver alone, and writes
\* Installing nowhere or on behalf of the install at work.
LEMMA KeepP ==
  ASSUME PInv, boot = "up", boot' = "up", RowMatches',
         UNCHANGED <<active, pc, op, val>>,
         \A a \in Apps : phase'[a] = "Installing" => phase[a] = "Installing",
         \A a \in Apps : stored'[a] = "Installing" => stored[a] = "Installing" \/ Installs(a, ToResult),
         \A g \in Handlers : hs'[g].pc = "write" /\ hs'[g].val = "Installing" =>
            \/ hs[g].pc = "write" /\ hs[g].val = "Installing" /\ hs'[g].app = hs[g].app
            \/ Installs(hs'[g].app, ToResult)
  PROVE  PInv'
<1>1. \A a, P : Installs(a, P)' <=> Installs(a, P)
  BY DEF Installs
<1>2. \A a : Installs(a, ToResult) => Installs(a, ToResult \cup {"extract2", "write2"})
  BY DEF Installs
<1>3. \A a : Looked(a) /\ Looked(a)'
  BY DEF Looked
<1>4. InMemory'
  <2> SUFFICES ASSUME NEW a \in Apps, phase'[a] = "Installing" PROVE Installs(a, ToResult)'
    BY DEF InMemory
  <2> QED BY <1>1, <1>3 DEF PInv, InMemory
<1>5. InStore'
  <2> SUFFICES ASSUME NEW a \in Apps, stored'[a] = "Installing"
               PROVE  Installs(a, ToResult \cup {"extract2", "write2"})'
    BY DEF InStore
  <2> QED BY <1>1, <1>2, <1>3 DEF PInv, InStore
<1>6. InHand'
  <2> SUFFICES ASSUME NEW g \in Handlers, hs'[g].pc = "write" /\ hs'[g].val = "Installing"
               PROVE  Installs(hs[g].app, ToResult)'
    BY DEF InHand
  <2>1. Installs(hs'[g].app, ToResult)
    BY DEF PInv, InHand
  <2> QED BY <2>1 DEF Installs
<1>7. DriverHand' /\ Recovery'
  BY DEF PInv, DriverHand, Recovery
<1> QED BY <1>4, <1>5, <1>6, <1>7 DEF PInv

\* The steps of a handler at work: RegistryFree keeps a phase that a handler
\* has read from changing under an install.
LEMMA HandlerP ==
  ASSUME ~Aborts, IInv, CInv, PInv, NEW h \in Handlers, HandlerStep(h)
  PROVE  PInv'
<1>1. hs[h].pc # "idle"
  BY DEF HandlerStep, InstallDirect, ScheduleOnChange, RequestSlot, Spawn, FlagCancel, CancelStuck,
         Unstick, HandlerExtract, HandlerWrite, UninstallCommit, DeregisterCheck, DeregisterDb, DeregisterMem,
         RegisterCommit, RegisterInsert
<1>2. boot = "up" /\ hs[h].app \in Apps /\ hs \in [Handlers -> Handler]
  BY <1>1, AtWork DEF IInv, TypeOK
<1>3. boot' = "up"
  BY <1>2 DEF HandlerStep, InstallDirect, ScheduleOnChange, RequestSlot, Spawn, FlagCancel, CancelStuck,
         Unstick, HandlerExtract, HandlerWrite, UninstallCommit, DeregisterCheck, DeregisterDb, DeregisterMem,
         RegisterCommit, RegisterInsert, bootVars
<1>4. \A g \in Handlers : g # h => hs'[g] = hs[g]
  BY OthersStay DEF IInv
<1>5. CASE (RequestSlot(h) /\ active = None) \/ Spawn(h)
  <2>1. pc = "idle" /\ UNCHANGED <<phase, stored, row>>
    BY <1>5 DEF RequestSlot, Spawn, IInv, SlotOwner, dbVars
  <2>2. \A a \in Apps : phase[a] # "Installing" /\ stored[a] # "Installing"
    BY <1>2, <2>1 DEF PInv, InMemory, InStore, Looked, Installs, ToResult
  <2>3. row = None
    BY <1>2, <2>1 DEF CInv, RowOwned, Driving
  <2>4. pc' \in {"idle", "begin"}
    BY <1>5, <2>1 DEF RequestSlot, Spawn, Lookup, driverVars
  <2>5. \A g \in Handlers : ~(hs'[g].pc = "write" /\ hs'[g].val = "Installing")
    <3>1. hs'[h].pc # "write"
      <4>1. Finish(h) \/ Goto(h, "spawn")
        BY <1>5 DEF RequestSlot, Spawn
      <4> QED BY <1>2, <4>1, FinishMoves, GotoMoves DEF Moved, HandlerPc
    <3>2. \A g \in Handlers : ~(hs[g].pc = "write" /\ hs[g].val = "Installing")
      BY <2>1 DEF PInv, InHand, Installs, ToResult
    <3> QED BY <1>4, <3>1, <3>2
  <2> QED BY <1>3, <2>1, <2>2, <2>3, <2>4, <2>5
      DEF PInv, RowMatches, InMemory, InStore, InHand, DriverHand, Recovery
<1>6. CASE ~(RequestSlot(h) /\ active = None) /\ ~Spawn(h)
  <2>1. UNCHANGED <<active, pc, op, val>>
    BY <1>6 DEF HandlerStep, InstallDirect, ScheduleOnChange, RequestSlot, FlagCancel, CancelStuck,
         Unstick, HandlerExtract, HandlerWrite, UninstallCommit, DeregisterCheck, DeregisterDb, DeregisterMem,
         RegisterCommit, RegisterInsert, Accept, Enqueue, Reject, schedVars, driverVars
  <2>2. row' = row \/ (row \in Row /\ row' = [row EXCEPT !.cancel = TRUE])
    BY <1>6 DEF HandlerStep, InstallDirect, ScheduleOnChange, RequestSlot, FlagCancel, RowIs, CancelStuck,
         Unstick, HandlerExtract, HandlerWrite, UninstallCommit, DeregisterCheck, DeregisterDb, DeregisterMem,
         RegisterCommit, RegisterInsert, dbVars, IInv, TypeOK
  <2>3. RowMatches'
    <3>1. CASE row' = row
      BY <2>1, <3>1 DEF PInv, RowMatches, Driving
    <3>2. CASE row \in Row /\ row' = [row EXCEPT !.cancel = TRUE]
      <4>1. row'.app = row.app /\ row'.kind = row.kind /\ row # None
        BY <3>2, RowAssumption DEF Row
      <4> QED BY <2>1, <4>1 DEF PInv, RowMatches, Driving
    <3> QED BY <2>2, <3>1, <3>2
  <2>4. \A a \in Apps : phase'[a] = "Installing" => phase[a] = "Installing"
    <3>1. CASE InstallDirect(h) \/ Unstick(h) \/ UninstallCommit(h)
      BY <1>2, <3>1 DEF InstallDirect, Unstick, UninstallCommit, SetPhase, IInv, TypeOK
    <3>2. CASE DeregisterMem(h) \/ RegisterInsert(h)
      BY <1>2, <3>2 DEF DeregisterMem, RegisterInsert, IInv, TypeOK
    <3>3. CASE ~(InstallDirect(h) \/ Unstick(h) \/ UninstallCommit(h) \/ DeregisterMem(h) \/ RegisterInsert(h))
      BY <1>6, <3>3 DEF HandlerStep, ScheduleOnChange, RequestSlot, FlagCancel, CancelStuck,
         HandlerExtract, HandlerWrite, DeregisterCheck, DeregisterDb, RegisterCommit
    <3> QED BY <3>1, <3>2, <3>3
  <2>5. \A a \in Apps : stored'[a] = "Installing" => stored[a] = "Installing" \/ Installs(a, ToResult)
    <3>1. CASE HandlerWrite(h)
      <4>1. stored' = [stored EXCEPT ![hs[h].app] = IF @ = "Absent" THEN @ ELSE hs[h].val] /\ hs[h].pc = "write"
        BY <3>1 DEF HandlerWrite, StorePhase
      <4>2. hs[h].val = "Installing" => Installs(hs[h].app, ToResult)
        BY <4>1 DEF PInv, InHand
      <4> QED BY <1>2, <4>1, <4>2 DEF IInv, TypeOK
    <3>2. CASE UninstallCommit(h) \/ DeregisterDb(h) \/ RegisterCommit(h)
      BY <1>2, <3>2 DEF UninstallCommit, DeregisterDb, RegisterCommit, StorePhase, IInv, TypeOK
    <3>3. CASE ~(HandlerWrite(h) \/ UninstallCommit(h) \/ DeregisterDb(h) \/ RegisterCommit(h))
      BY <1>6, <3>3 DEF HandlerStep, InstallDirect, ScheduleOnChange, RequestSlot, FlagCancel, CancelStuck,
         Unstick, HandlerExtract, DeregisterCheck, DeregisterMem, RegisterInsert, dbVars
    <3> QED BY <3>1, <3>2, <3>3
  <2>6. hs'[h].pc = "write" /\ hs'[h].val = "Installing" => Installs(hs'[h].app, ToResult)
    <3>1. CASE Finish(h)
      BY <1>2, <3>1, FinishMoves DEF Moved
    <3>2. CASE HandlerExtract(h) /\ ~Finish(h)
      <4>1. hs' = [hs EXCEPT ![h].pc = "write", ![h].val = phase[hs[h].app]]
        BY <3>2 DEF HandlerExtract
      <4>2. hs'[h].val = phase[hs[h].app] /\ hs'[h].app = hs[h].app
        BY <1>2, <4>1 DEF Handler
      <4> QED BY <1>2, <4>2 DEF PInv, InMemory, Looked
    <3>3. CASE ~Finish(h) /\ ~HandlerExtract(h)
      <4>1. PICK p \in HandlerPc : Goto(h, p) /\ p # "write"
        BY <1>6, <3>3 DEF HandlerStep, InstallDirect, ScheduleOnChange, RequestSlot, FlagCancel, CancelStuck,
           Unstick, HandlerWrite, UninstallCommit, DeregisterCheck, DeregisterDb, DeregisterMem, RegisterCommit,
           RegisterInsert, HandlerPc
      <4> QED BY <1>2, <4>1, GotoMoves DEF Moved
    <3> QED BY <3>1, <3>2, <3>3
  <2>7. \A g \in Handlers : hs'[g].pc = "write" /\ hs'[g].val = "Installing" =>
            \/ hs[g].pc = "write" /\ hs[g].val = "Installing" /\ hs'[g].app = hs[g].app
            \/ Installs(hs'[g].app, ToResult)
    BY <1>4, <2>6
  <2> QED BY <1>2, <1>3, <2>1, <2>3, <2>4, <2>5, <2>7, KeepP
<1> QED BY <1>5, <1>6

\* A new request changes no phase.
LEMMA RequestP ==
  ASSUME IInv, PInv, NEW h \in Handlers, NEW a \in Apps, NewRequest(h, a)
  PROVE  PInv'
<1>1. \A g \in Handlers : g # h => hs'[g] = hs[g]
  BY OthersStay DEF IInv
<1>2. boot = "up" /\ boot' = "up" /\ UNCHANGED <<active, pc, op, val, phase, stored, row>>
  BY DEF NewRequest, Idle, InvokeAction, InvokeInstall, SetParam, CancelAction, UninstallApp,
         DeregisterApp, RegisterApp, RequestCancel, schedVars, dbVars, driverVars, bootVars
<1>3. hs'[h].pc # "write"
  <2>1. PICK p \in HandlerPc, o \in Operation \cup {None} : Begin(h, p, a, o) /\ p # "write"
    <3>1. NewOp(a, "action") \in Operation /\ NewOp(a, "install") \in Operation /\ NewOp(a, "param") \in Operation
      BY DEF NewOp, Operation, Kinds, IInv, TypeOK
    <3>2. active \in Operation \cup {None}
      BY DEF IInv, TypeOK
    <3>3. CASE InvokeAction(h, a) \/ InvokeInstall(h, a) \/ SetParam(h, a)
      BY <3>1, <3>3 DEF InvokeAction, InvokeInstall, SetParam, HandlerPc
    <3>4. CASE CancelAction(h, a) \/ UninstallApp(h, a) \/ DeregisterApp(h, a) \/ RegisterApp(h, a)
      BY <3>2, <3>4 DEF CancelAction, UninstallApp, DeregisterApp, RegisterApp, HandlerPc
    <3> QED BY <3>3, <3>4 DEF NewRequest
  <2> QED BY <2>1, BeginMoves DEF Moved, IInv, TypeOK
<1>4. RowMatches'
  BY <1>2 DEF PInv, RowMatches, Driving
<1>5. \A g \in Handlers : hs'[g].pc = "write" /\ hs'[g].val = "Installing" =>
            hs[g].pc = "write" /\ hs[g].val = "Installing" /\ hs'[g].app = hs[g].app
  BY <1>1, <1>3
<1> QED BY <1>2, <1>4, <1>5, KeepP

\* The driver.  Installing is written where its own install starts; the phase
\* is read again and stored after it has been taken out of Installing.
LEMMA DriverP ==
  ASSUME ~Aborts, IInv, CInv, RInv, PInv, DriverStep \/ DriverSuspend
  PROVE  PInv'
<1>1. UNCHANGED <<hs, boot, bootApp>> /\ pc # "idle"
  BY DEF DriverStep, DriverBegin, DriverExtract, DriverWrite, DriverSave, DriverUnstartable,
         DriverComplete, DriverFail, DriverCancelled, DriverPanic, DriverFinalize, DriverRelease,
         DriverLookup, DriverSuspend, LastPass, bootVars
<1>2. boot \in {"sweep", "up"} /\ op # None /\ op \in Operation /\ active = op /\ op.app \in Apps
  BY <1>1 DEF IInv, BootQuiet, SlotOwner, TypeOK, Operation
<1>3. \A a : Looked(a)' <=> Looked(a)
  BY <1>1 DEF Looked
<1>4. \A h \in Handlers, x \in Apps : hs[h].pc = "write" => hs[h].app \in Apps
  BY DEF IInv, HandlerOK
<1>5. boot = "sweep" => op.app = bootApp /\ queue = <<>>
  BY <1>2 DEF PInv, Recovery
<1>6. Looked(op.app)
  BY <1>2, <1>5 DEF Looked
<1>7. \A a, P : Installs(a, P) <=> op.app = a /\ op.kind = "install" /\ pc \in P
  BY <1>2 DEF Installs
<1>8. CASE DriverBegin /\ op.kind = "install"
  <2>1. /\ pc = "begin" /\ pc' = "extract1" /\ RegistryFree
        /\ phase' = [phase EXCEPT ![op.app] = IF @ = "Absent" THEN @ ELSE "Installing"]
        /\ UNCHANGED <<active, queue, stored, row, op, val>>
    BY <1>8 DEF DriverBegin, SetPhase, schedVars, dbVars
  <2>2. \A a, P : Installs(a, P)' <=> op.app = a /\ "extract1" \in P
    BY <1>2, <1>8, <2>1 DEF Installs
  <2>3. InMemory'
    BY <1>2, <1>3, <1>7, <2>1, <2>2 DEF PInv, InMemory, IInv, TypeOK, ToResult
  <2>4. InStore'
    BY <1>2, <1>3, <1>7, <2>1, <2>2 DEF PInv, InStore, ToResult
  <2>5. InHand' /\ DriverHand'
    BY <1>1, <1>8, <2>1 DEF InHand, DriverHand, RegistryFree
  <2>6. RowMatches' /\ Recovery'
    BY <1>1, <1>2, <1>5, <2>1 DEF PInv, RowMatches, Driving, Recovery, IInv, TypeOK
  <2> QED BY <2>3, <2>4, <2>5, <2>6 DEF PInv
<1>9. CASE DriverWrite
  <2>1. /\ pc \in {"write1", "write2"} /\ pc' = (IF pc = "write1" THEN "start" ELSE "release")
        /\ stored' = [stored EXCEPT ![op.app] = IF @ = "Absent" THEN @ ELSE val]
        /\ UNCHANGED <<active, queue, phase, row, op>>
    BY <1>9 DEF DriverWrite, StorePhase, schedVars
  <2>2. op.kind = "install" /\ (pc = "write2" => val # "Installing")
    BY <2>1 DEF PInv, DriverHand
  <2>3. \A a, P : Installs(a, P)' <=> op.app = a /\ pc' \in P
    BY <1>2, <2>1, <2>2 DEF Installs
  <2>4. InMemory'
    BY <1>3, <1>7, <2>1, <2>3 DEF PInv, InMemory, ToResult
  <2>5. InStore'
    BY <1>2, <1>3, <1>7, <2>1, <2>2, <2>3 DEF PInv, InStore, ToResult, IInv, TypeOK
  <2>6. InHand'
    <3>1. pc = "write2" => \A h \in Handlers : ~(hs[h].pc = "write" /\ hs[h].val = "Installing")
      BY <1>7 DEF PInv, InHand, ToResult
    <3>2. pc = "write1" => \A h \in Handlers : Installs(hs[h].app, ToResult) => Installs(hs[h].app, ToResult)'
      BY <1>7, <2>1, <1>1, <2>2, <1>2 DEF Installs, ToResult
    <3> QED BY <1>1, <2>1, <3>1, <3>2 DEF PInv, InHand
  <2>7. RowMatches' /\ DriverHand' /\ Recovery'
    BY <1>1, <1>2, <1>5, <2>1 DEF PInv, RowMatches, Driving, DriverHand, Recovery, IInv, TypeOK
  <2> QED BY <2>4, <2>5, <2>6, <2>7 DEF PInv
<1>10. CASE DriverFinalize
  <2>1. /\ pc = "cleanup" /\ UNCHANGED <<active, queue, stored, row, op, val>>
    BY <1>10 DEF DriverFinalize, schedVars, dbVars
  <2>2. CASE op.kind = "install"
    <3>1. /\ pc' = "extract2" /\ RegistryFree
          /\ phase' = [phase EXCEPT ![op.app] = IF @ = "Absent" THEN @ ELSE FinalPhase]
      BY <1>10, <2>2 DEF DriverFinalize, SetPhase
    <3>2. \A a, P : Installs(a, P)' <=> op.app = a /\ "extract2" \in P
      BY <1>2, <2>1, <2>2, <3>1 DEF Installs
    <3>3. InMemory'
      BY <1>2, <1>3, <1>7, <3>1, <3>2 DEF PInv, InMemory, IInv, TypeOK, FinalPhase
    <3>4. InStore'
      BY <1>3, <1>7, <2>1, <3>2 DEF PInv, InStore
    <3>5. InHand'
      BY <1>1, <3>1 DEF InHand, RegistryFree
    <3>6. RowMatches' /\ DriverHand' /\ Recovery'
      BY <1>1, <1>2, <1>5, <2>1, <2>2, <3>1 DEF PInv, RowMatches, Driving, DriverHand, Recovery, IInv, TypeOK
    <3> QED BY <3>3, <3>4, <3>5, <3>6 DEF PInv
  <2>3. CASE op.kind # "install"
    <3>1. pc' = "release" /\ phase' = phase
      BY <1>10, <2>3 DEF DriverFinalize
    <3>2. \A a, P : ~Installs(a, P)
      BY <1>7, <2>3
    <3>3. InMemory' /\ InStore' /\ InHand'
      BY <1>1, <1>3, <2>1, <3>1, <3>2 DEF PInv, InMemory, InStore, InHand
    <3>4. RowMatches' /\ DriverHand' /\ Recovery'
      BY <1>1, <2>1, <3>1 DEF PInv, RowMatches, Driving, DriverHand, Recovery
    <3> QED BY <3>3, <3>4 DEF PInv
  <2> QED BY <2>2, <2>3
<1>11. CASE DriverRelease
  <2>1. /\ pc = "release" /\ pc' \in {"idle", "lookup"} /\ UNCHANGED <<phase, stored, row>>
        /\ queue = <<>> => active' = None /\ queue' = <<>>
    BY <1>11 DEF DriverRelease, CompleteCurrent, dbVars
  <2>2. \A a : ~Installs(a, ToResult) /\ ~Installs(a, ToResult \cup {"extract2", "write2"})
    BY <1>7, <2>1 DEF ToResult
  <2>3. InMemory' /\ InStore' /\ InHand'
    BY <1>1, <1>3, <2>1, <2>2 DEF PInv, InMemory, InStore, InHand
  <2>4. RowMatches' /\ DriverHand' /\ Recovery'
    BY <1>1, <1>2, <1>5, <2>1 DEF PInv, RowMatches, Driving, DriverHand, Recovery
  <2> QED BY <2>3, <2>4 DEF PInv
<1>12. CASE DriverExtract
  <2>1. /\ pc \in {"extract1", "extract2"} /\ val' = phase[op.app]
        /\ pc' = (IF pc = "extract1" THEN "write1" ELSE "write2")
        /\ UNCHANGED <<active, queue, phase, stored, row, op>>
    BY <1>2, <1>12 DEF DriverExtract, schedVars, dbVars, RInv, Present
  <2>2. op.kind = "install"
    BY <2>1 DEF PInv, DriverHand
  <2>3. \A a, P : Installs(a, P)' <=> op.app = a /\ pc' \in P
    BY <1>2, <2>1, <2>2 DEF Installs
  <2>4. \A a : /\ Installs(a, ToResult)' <=> Installs(a, ToResult)
               /\ Installs(a, ToResult \cup {"extract2", "write2"})' <=> Installs(a, ToResult \cup {"extract2", "write2"})
    BY <1>7, <2>1, <2>2, <2>3 DEF ToResult
  <2>5. pc = "extract2" => phase[op.app] # "Installing"
    BY <1>2, <1>6, <1>7 DEF PInv, InMemory, ToResult
  <2>6. InMemory' /\ InStore'
    BY <1>3, <2>1, <2>4 DEF PInv, InMemory, InStore
  <2>7. InHand'
    BY <1>1, <2>4 DEF PInv, InHand
  <2>8. RowMatches' /\ DriverHand' /\ Recovery'
    BY <1>1, <2>1, <2>2, <2>5 DEF PInv, RowMatches, Driving, DriverHand, Recovery
  <2> QED BY <2>6, <2>7, <2>8 DEF PInv
<1>13. CASE DriverLookup
  <2>1. /\ pc = "lookup" /\ pc' \in {"idle", "begin"} /\ UNCHANGED <<active, queue, phase, stored, row>>
    BY <1>13 DEF DriverLookup, Lookup, schedVars, dbVars
  <2>2. \A a : ~Installs(a, ToResult) /\ ~Installs(a, ToResult \cup {"extract2", "write2"})
    BY <1>7, <2>1 DEF ToResult
  <2>3. InMemory' /\ InStore' /\ InHand'
    BY <1>1, <1>3, <2>1, <2>2 DEF PInv, InMemory, InStore, InHand
  <2>4. row = None
    BY <1>2, <2>1 DEF CInv, RowOwned, Driving
  <2>5. RowMatches' /\ DriverHand' /\ Recovery'
    BY <1>1, <2>1, <2>4 DEF PInv, RowMatches, DriverHand, Recovery
  <2> QED BY <2>3, <2>5 DEF PInv
<1>14. CASE DriverSave \/ DriverSuspend \/ DriverComplete \/ DriverFail \/ DriverCancelled
            \/ (DriverBegin /\ op.kind # "install")
  <2>1. /\ pc \in {"begin", "start", "run"} /\ pc' \in {"start", "run", "cleanup"}
        /\ UNCHANGED <<active, queue, phase, stored, op>>
    BY <1>14 DEF DriverSave, DriverSuspend, DriverComplete, DriverFail, DriverCancelled, DriverBegin, LastPass,
                 Result, schedVars, dbVars, driverVars
  <2>2. \A a : /\ Installs(a, ToResult)' <=> Installs(a, ToResult)
               /\ Installs(a, ToResult \cup {"extract2", "write2"})' <=> Installs(a, ToResult \cup {"extract2", "write2"})
    BY <2>1 DEF Installs, ToResult
  <2>3. InMemory' /\ InStore'
    BY <1>3, <2>1, <2>2 DEF PInv, InMemory, InStore
  <2>4. InHand'
    BY <1>1, <2>2 DEF PInv, InHand
  <2>5. RowMatches'
    <3>1. CASE DriverSave
      BY <2>1, <3>1 DEF DriverSave, RowMatches
    <3>2. CASE DriverComplete \/ DriverFail \/ DriverCancelled
      BY <3>2 DEF DriverComplete, DriverFail, DriverCancelled, ClearRow, RowMatches
    <3>3. CASE DriverSuspend \/ DriverBegin
      <4>1. row' = row /\ Driving
        BY <3>3 DEF DriverSuspend, DriverBegin, dbVars, Driving
      <4> QED BY <2>1, <4>1 DEF PInv, RowMatches
    <3> QED BY <1>14, <3>1, <3>2, <3>3
  <2>6. DriverHand' /\ Recovery'
    BY <1>1, <1>2, <2>1 DEF PInv, DriverHand, Recovery
  <2> QED BY <2>3, <2>4, <2>5, <2>6 DEF PInv
<1>15. CASE DriverUnstartable \/ DriverPanic
  BY <1>15 DEF DriverUnstartable, DriverPanic
<1> QED BY <1>8, <1>9, <1>10, <1>11, <1>12, <1>13, <1>14, <1>15 DEF DriverStep

\* Crash and restart: an Installing in the store is the row's install, and is
\* resumed or reverted, or it is another app's, and is swept.
LEMMA DaemonP ==
  ASSUME IInv, CInv, PInv,
         \/ ReconcileTick \/ Crash \/ BootStep
         \/ \E a \in Apps : Bookkeeping(a) \/ UninstallDone(a)
  PROVE  PInv'
<1>1. CASE ReconcileTick \/ \E a \in Apps : Bookkeeping(a) \/ UninstallDone(a)
  <2>1. boot = "up" /\ boot' = "up" /\ UNCHANGED <<active, pc, op, val, hs, row>>
    BY <1>1 DEF ReconcileTick, Bookkeeping, ReconcileActuate,
                InstancesReaped, UninstallRefused, UninstallDone, schedVars, dbVars, driverVars, bootVars
  <2>2. \A a \in Apps : /\ phase'[a] = "Installing" => phase[a] = "Installing"
                        /\ stored'[a] = "Installing" => stored[a] = "Installing"
    <3>1. CASE ReconcileTick \/ \E a \in Apps : Bookkeeping(a)
      BY <3>1 DEF ReconcileTick, Bookkeeping, ReconcileActuate, InstancesReaped, UninstallRefused, dbVars
    <3>2. ASSUME NEW b \in Apps, UninstallDone(b)
          PROVE  \A a \in Apps : /\ phase'[a] = "Installing" => phase[a] = "Installing"
                                 /\ stored'[a] = "Installing" => stored[a] = "Installing"
      BY <3>2 DEF UninstallDone, SetPhase, StorePhase, IInv, TypeOK
    <3> QED BY <1>1, <3>1, <3>2
  <2>3. RowMatches'
    BY <2>1 DEF PInv, RowMatches, Driving
  <2> QED BY <2>1, <2>2, <2>3, KeepP
<1>2. CASE Crash
  <2>1. /\ boot' = "load" /\ pc' = "idle" /\ UNCHANGED <<row, stored>>
        /\ \A h \in Handlers : hs'[h].pc = "idle"
    BY <1>2 DEF Crash, IdleHandler, dbVars
  <2>2. row # None /\ stored[row.app] = "Installing" => row.kind = "install"
    <3> SUFFICES ASSUME row # None, stored[row.app] = "Installing", boot \notin {"load", "replay"}
                 PROVE  row.kind = "install"
      BY DEF PInv, Recovery
    <3>1. Driving /\ row.app = op.app /\ row.kind = op.kind /\ row.app \in Apps
      BY DEF CInv, RowOwned, PInv, RowMatches, IInv, TypeOK, Row
    <3>2. pc # "idle" /\ active = op /\ active # None
      BY <3>1 DEF Driving, IInv, SlotOwner
    <3>3. boot \in {"sweep", "up"}
      BY DEF IInv, TypeOK
    <3>4. Looked(row.app)
      BY <3>1, <3>2, <3>3 DEF Looked, PInv, Recovery
    <3> QED BY <3>1, <3>2, <3>4 DEF PInv, InStore, Installs
  <2> QED BY <2>1, <2>2 DEF PInv, RowMatches, Driving, InMemory, InStore, InHand, Looked, DriverHand, Recovery
<1>3. CASE BootLoad
  <2>1. /\ boot = "load" /\ boot' = "replay" /\ phase' = stored /\ pc = "idle"
        /\ bootApp' = IF row = None THEN None ELSE row.app
        /\ UNCHANGED <<row, stored, pc, hs>>
    BY <1>3 DEF BootLoad, dbVars, driverVars, IInv, BootQuiet
  <2>2. \A h \in Handlers : hs[h].pc = "idle"
    BY <2>1 DEF IInv, BootQuiet
  <2> QED BY <2>1, <2>2 DEF PInv, RowMatches, Driving, InMemory, InStore, InHand, Looked, DriverHand, Recovery
<1>4. CASE BootReplay
  <2>1. /\ boot = "replay" /\ boot' = "sweep" /\ pc = "idle" /\ active = None /\ queue = <<>>
        /\ \A h \in Handlers : hs[h].pc = "idle"
        /\ UNCHANGED <<hs, bootApp>>
    BY <1>4 DEF BootReplay, IInv, BootQuiet, QueueDiscipline
  <2>2. /\ phase = stored /\ bootApp = (IF row = None THEN None ELSE row.app)
        /\ row # None => (stored[row.app] = "Installing" => row.kind = "install")
    BY <2>1 DEF PInv, Recovery
  <2>3. InHand'
    BY <2>1 DEF InHand
  <2>4. CASE row # None /\ Replay
    <3>1. /\ active' = [id |-> row.id, app |-> row.app, kind |-> row.kind]
          /\ op' = active' /\ pc' = "begin" /\ queue' = queue
          /\ UNCHANGED <<phase, stored, row>>
      BY <2>4 DEF Replay
    <3>2. active' # None /\ active'.app = row.app /\ active'.kind = row.kind
      BY <2>4, <3>1, NoneAssumption DEF IInv, TypeOK, Row, Operation
    <3>3. \A a \in Apps : phase'[a] = "Installing" /\ Looked(a)' => Installs(a, {"begin"})'
      BY <2>1, <2>2, <2>4, <3>1, <3>2 DEF Looked, Installs
    <3>4. InMemory'
      BY <3>3 DEF InMemory, Installs, ToResult
    <3>5. InStore'
      BY <2>2, <3>1, <3>3 DEF InStore, Installs, ToResult
    <3>6. RowMatches' /\ DriverHand' /\ Recovery'
      BY <2>1, <2>2, <2>4, <3>1, <3>2 DEF RowMatches, DriverHand, Recovery
    <3> QED BY <2>3, <3>4, <3>5, <3>6 DEF PInv
  <2>5. CASE ~(row # None /\ Replay)
    <3>1. row' = None /\ UNCHANGED <<active, queue, pc, op>>
      BY <1>4, <2>5 DEF BootReplay, Discard, Unreadable, ClearRow, schedVars, driverVars
    <3>2. /\ \A a \in Apps : a # bootApp => phase'[a] = stored'[a]
          /\ bootApp \in Apps => phase'[bootApp] # "Installing" /\ stored'[bootApp] # "Installing"
      <4>1. CASE row = None
        BY <1>4, <2>2, <4>1, NoneAssumption DEF BootReplay
      <4>2. CASE row # None /\ Discard
        BY <2>2, <4>2 DEF Discard, Replayable
      <4>3. CASE row # None /\ Unreadable
        <5>1. row.app \in Apps /\ phase \in [Apps -> MaybePhase] /\ stored \in [Apps -> MaybePhase]
          BY <4>3 DEF IInv, TypeOK, Row
        <5> QED BY <2>2, <4>3, <5>1 DEF Unreadable, SetPhase, StorePhase
      <4> QED BY <1>4, <2>5, <4>1, <4>2, <4>3 DEF BootReplay
    <3>3. InMemory' /\ InStore'
      BY <2>1, <3>2 DEF InMemory, InStore, Looked
    <3>4. RowMatches' /\ DriverHand' /\ Recovery'
      BY <2>1, <3>1, <3>2 DEF RowMatches, DriverHand, Recovery
    <3> QED BY <2>3, <3>3, <3>4 DEF PInv
  <2> QED BY <2>4, <2>5
<1>5. CASE BootSweep
  <2>1. /\ boot = "sweep" /\ boot' = "up" /\ UNCHANGED <<active, pc, op, val, hs, row>>
        /\ \A a \in Apps : phase'[a] = IF Stuck(a) THEN "Uninstalling" ELSE phase[a]
        /\ \A a \in Apps : stored'[a] = IF Stuck(a) THEN "Uninstalling" ELSE stored[a]
    BY <1>5 DEF BootSweep, schedVars, driverVars
  <2>2. \A a \in Apps : (phase'[a] = "Installing" \/ stored'[a] = "Installing") => a = bootApp /\ ~Stuck(a)
    BY <2>1 DEF Stuck, PInv, Recovery
  <2>3. \A a, P : Installs(a, P)' <=> Installs(a, P)
    BY <2>1 DEF Installs
  <2>4. \A a \in Apps : phase'[a] = "Installing" => Installs(a, ToResult)'
    BY <2>1, <2>2, <2>3 DEF PInv, InMemory, Looked
  <2>5. \A a \in Apps : stored'[a] = "Installing" => Installs(a, ToResult \cup {"extract2", "write2"})'
    BY <2>1, <2>2, <2>3 DEF PInv, InStore, Looked
  <2>6. InHand'
    BY <2>1 DEF InHand, IInv, BootQuiet
  <2> QED BY <2>1, <2>4, <2>5, <2>6 DEF PInv, RowMatches, Driving, InMemory, InStore, DriverHand, Recovery
<1> QED BY <1>1, <1>2, <1>3, <1>4, <1>5 DEF BootStep

\* Every step keeps PInv.
LEMMA StepPInv ==
  ASSUME ~Aborts, IInv, CInv, RInv, PInv, [Next]_vars
  PROVE  PInv'
<1>1. CASE Next
  BY <1>1, HandlerP, RequestP, DriverP, DaemonP DEF Next, UninstallStep, Bookkeeping
<1>2. CASE UNCHANGED vars
  <2>1. UNCHANGED <<active, queue, pc, op, val, phase, stored, row, hs, boot, bootApp>>
    BY <1>2 DEF vars, schedVars, dbVars, driverVars, bootVars
  <2> QED BY <2>1 DEF PInv, RowMatches, Driving, InMemory, InStore, InHand, Installs, Looked, DriverHand, Recovery
<1> QED BY <1>1, <1>2

\* In the first state no app is in Installing.
LEMMA InitPInv == Init => PInv
<1> SUFFICES ASSUME Init PROVE PInv
  OBVIOUS
<1>1. /\ boot = "up" /\ pc = "idle" /\ row = None /\ \A h \in Handlers : hs[h].pc = "idle"
      /\ \A a \in Apps : phase[a] # "Installing" /\ stored[a] # "Installing"
  BY ConstAssumption DEF Init, IdleHandler
<1> QED BY <1>1 DEF PInv, RowMatches, InMemory, InStore, InHand, DriverHand, Recovery

\* The invariants together.
LEMMA StepAllP ==
  ASSUME ~Aborts, "deregister" \notin Requests
  PROVE  IInv /\ CInv /\ RInv /\ PInv /\ [Next]_vars => IInv' /\ CInv' /\ RInv' /\ PInv'
BY StepIInv, StepCInv, StepRInv, StepPInv

\* r[operation.cancel.stuck-recovery]: after start-up, an app in Installing has
\* its install in the slot and a driver on it, in every history in which no app
\* is deregistered and drivers end by clearing their row.
THEOREM NeverStuck ==
  ASSUME ~Aborts, "deregister" \notin Requests
  PROVE  Spec => []NoStuckInstalling
<1>1. PInv => NoStuckInstalling
  BY DEF PInv, InMemory, Looked, Installs, ToResult, NoStuckInstalling, IsActive
<1> QED BY <1>1, InitIInv, InitWInv, InitRInv, InitPInv, StepAllP, PTL DEF Spec

-----------------------------------------------------------------------------
(* What is stored suffices.                                                *)

\* Neither registration nor on_change.
NoOthers == \A h \in Handlers :
  hs[h].pc \notin {"onChange", "register", "insert", "deregCheck", "deregDb", "deregMem"}

\* Memory and database know the same apps, and "Absent" is never persisted.
SameApps ==
  /\ boot # "load" => \A a \in Apps : phase[a] = "Absent" <=> stored[a] = "Absent"
  /\ pc \in {"write1", "write2"} => val # "Absent"
  /\ \A h \in Handlers : hs[h].pc = "write" => hs[h].val # "Absent"

\* An install operation is on an app with an install action; a handler that
\* persists a phase is on one without, or on one that was torn down.
Kinded ==
  /\ active # None /\ active.kind = "install" => active.app \notin Direct
  /\ row # None /\ row.kind = "install" => row.app \notin Direct
  /\ \A k \in DOMAIN queue : queue[k].kind = "install" => queue[k].app \notin Direct
  /\ \A h \in Handlers :
       /\ hs[h].pc \in {"request", "spawn"} /\ hs[h].op.kind = "install" => hs[h].op.app \notin Direct
       /\ hs[h].pc = "direct" => hs[h].app \in Direct
       /\ hs[h].pc \in {"extract", "write"} => hs[h].app \in Direct \cup tornDown

\* App a is not one that the sweep, and nobody else, is tearing down.
Free(a) == a \in tornDown \/ phase[a] # "Uninstalling"

\* Who is about to install an app or to persist its phase is not on an app
\* that the sweep is tearing down; and those are the only ones, but for the
\* ones torn down on request, that a reconcile tick has seen as leaving.
Swept ==
  /\ boot # "up" => snap = {}
  /\ \A a \in snap \ tornDown : phase[a] = "Uninstalling"
  /\ active # None /\ active.kind = "install" => Free(active.app)
  /\ \A k \in DOMAIN queue : queue[k].kind = "install" => Free(queue[k].app)
  /\ \A h \in Handlers :
       /\ hs[h].pc \in {"request", "spawn"} /\ hs[h].op.kind = "install" => Free(hs[h].op.app)
       /\ hs[h].pc \in {"direct", "extract", "write"} => Free(hs[h].app)

\* Memory and database differ only while someone is about to write, and what
\* is about to be written is what memory holds.
Persisting == {"extract1", "write1", "extract2", "write2"}
Persists ==
  /\ boot \in {"sweep", "up"} => \A a \in Apps \ tornDown :
       \/ phase[a] = stored[a]
       \/ Installs(a, Persisting)
       \/ \E h \in Handlers : hs[h].app = a /\ hs[h].pc \in {"extract", "write"}
  /\ pc \in {"write1", "write2"} /\ op.app \notin tornDown => val = phase[op.app]
  /\ \A h \in Handlers : hs[h].pc = "write" /\ hs[h].app \notin tornDown => hs[h].val = phase[hs[h].app]

\* An install at work keeps its app in Installing, and has its row once it runs.
AtInstall ==
  /\ \A a \in Apps \ tornDown :
       Installs(a, {"extract1", "write1", "start", "run", "cleanup"}) => phase[a] = "Installing"
  /\ pc = "run" => row # None

KInv == NoOthers /\ SameApps /\ Kinded /\ Swept /\ Persists /\ AtInstall

\* What a handler may hold after its step: an install, or a phase to persist,
\* of an app that nobody but a request is tearing down.
HandOK(h) ==
  /\ hs[h].pc \notin {"onChange", "register", "insert", "deregCheck", "deregDb", "deregMem"}
  /\ hs[h].pc \in {"request", "spawn"} /\ hs[h].op.kind = "install" =>
       hs[h].op.app \notin Direct /\ Free(hs[h].op.app)
  /\ hs[h].pc = "direct" => hs[h].app \in Direct
  /\ hs[h].pc \in {"extract", "write"} => hs[h].app \in Direct \cup tornDown
  /\ hs[h].pc \in {"direct", "extract", "write"} => Free(hs[h].app)
  /\ hs[h].pc = "write" => /\ hs[h].val # "Absent"
                           /\ hs[h].app \notin tornDown => hs[h].val = phase[hs[h].app]

\* HandOK is what KInv says of a handler.
LEMMA HandsOK ==
  ASSUME KInv, NEW h \in Handlers
  PROVE  HandOK(h)
BY DEF KInv, NoOthers, SameApps, Kinded, Swept, Persists, HandOK

\* A handler's step that changes no phase: what the slot and the queue gain is
\* what a handler held, and a handler that drops a persist step had no need of it.
LEMMA HandK ==
  ASSUME IInv, KInv, NEW h \in Handlers, \A g \in Handlers : g # h => hs'[g] = hs[g], HandOK(h)',
         boot = "up", boot' = "up", UNCHANGED <<phase, stored, snap, tornDown>>,
         UNCHANGED <<active, pc, op, val>> \/ (pc = "idle" /\ pc' \in {"idle", "begin"}),
         row' # None => row # None /\ row'.app = row.app /\ row'.kind = row.kind,
         pc' = "run" => row' # None,
         active' = active \/ (active' = hs[h].op /\ hs[h].pc = "request"),
         \A k \in DOMAIN queue' : \/ \E j \in DOMAIN queue : queue'[k] = queue[j]
                                  \/ queue'[k] = hs[h].op /\ hs[h].pc = "request",
         hs[h].pc \in {"extract", "write"} =>
            \/ hs'[h].pc \in {"extract", "write"} /\ hs'[h].app = hs[h].app
            \/ phase[hs[h].app] = stored[hs[h].app]
  PROVE  KInv'
<1>1. \A g \in Handlers : HandOK(g)'
  <2> SUFFICES ASSUME NEW g \in Handlers, g # h PROVE HandOK(g)'
    OBVIOUS
  <2>1. HandOK(g) /\ hs'[g] = hs[g]
    BY HandsOK
  <2> QED BY <2>1 DEF HandOK, Free
<1>2. \A a : Free(a)' <=> Free(a)
  BY DEF Free
<1>3. NoOthers'
  BY <1>1 DEF HandOK, NoOthers
<1>4. SameApps'
  BY <1>1 DEF KInv, HandOK, SameApps
<1>5. Kinded'
  <2>1. active' # None /\ active'.kind = "install" => active'.app \notin Direct
    BY DEF KInv, Kinded
  <2>2. row' # None /\ row'.kind = "install" => row'.app \notin Direct
    BY DEF KInv, Kinded
  <2>3. \A k \in DOMAIN queue' : queue'[k].kind = "install" => queue'[k].app \notin Direct
    BY DEF KInv, Kinded
  <2> QED BY <1>1, <2>1, <2>2, <2>3 DEF HandOK, Kinded
<1>6. Swept'
  <2>1. active' # None /\ active'.kind = "install" => Free(active'.app)
    BY DEF KInv, Swept
  <2>2. \A k \in DOMAIN queue' : queue'[k].kind = "install" => Free(queue'[k].app)
    BY DEF KInv, Swept
  <2>3. \A a \in snap' \ tornDown' : phase'[a] = "Uninstalling"
    BY DEF KInv, Swept
  <2>4. active' # None /\ active'.kind = "install" => Free(active.app)'
    BY <2>1 DEF Free
  <2>5. \A k \in DOMAIN queue' : queue'[k].kind = "install" => Free(queue[k].app)'
    BY <2>2 DEF Free
  <2> QED BY <1>1, <2>3, <2>4, <2>5 DEF HandOK, Swept
<1>7. Persists'
  <2>1. \A a : Installs(a, Persisting) => Installs(a, Persisting)'
    BY DEF Installs, Persisting
  <2>2. \A a \in Apps \ tornDown' : \/ phase'[a] = stored'[a]
                                    \/ Installs(a, Persisting)'
                                    \/ \E g \in Handlers : hs'[g].app = a /\ hs'[g].pc \in {"extract", "write"}
    <3> SUFFICES ASSUME NEW a \in Apps, a \notin tornDown, phase[a] # stored[a], ~Installs(a, Persisting)
                 PROVE  \E g \in Handlers : hs'[g].app = a /\ hs'[g].pc \in {"extract", "write"}
      BY <2>1
    <3>1. PICK g \in Handlers : hs[g].app = a /\ hs[g].pc \in {"extract", "write"}
      BY DEF KInv, Persists
    <3>2. CASE g = h
      BY <3>1, <3>2
    <3>3. CASE g # h
      BY <3>1, <3>3
    <3> QED BY <3>2, <3>3
  <2>3. pc' \in {"write1", "write2"} /\ op'.app \notin tornDown' => val' = phase'[op'.app]
    BY DEF KInv, Persists
  <2> QED BY <1>1, <2>2, <2>3 DEF HandOK, Persists
<1>8. AtInstall'
  <2>1. \A a : Installs(a, {"extract1", "write1", "start", "run", "cleanup"})' =>
               Installs(a, {"extract1", "write1", "start", "run", "cleanup"})
    BY DEF Installs
  <2> QED BY <2>1 DEF KInv, AtInstall
<1> QED BY <1>3, <1>4, <1>5, <1>6, <1>7, <1>8 DEF KInv

\* A new request, on an app whose phase allows it.
LEMMA RequestK ==
  ASSUME Requests \cap {"param", "deregister", "register"} = {},
         IInv, KInv, NEW h \in Handlers, NEW a \in Apps, NewRequest(h, a)
  PROVE  KInv'
<1>1. \A g \in Handlers : g # h => hs'[g] = hs[g]
  BY OthersStay DEF IInv
<1>2. /\ boot = "up" /\ boot' = "up" /\ hs[h].pc = "idle" /\ hs \in [Handlers -> Handler]
      /\ UNCHANGED <<active, queue, pc, op, val, phase, stored, row, snap, tornDown>>
  BY DEF NewRequest, Idle, InvokeAction, InvokeInstall, SetParam, CancelAction, UninstallApp, IInv, TypeOK,
         DeregisterApp, RegisterApp, RequestCancel, schedVars, dbVars, driverVars, bootVars, histVars
<1>3. HandOK(h)'
  <2>1. CASE InvokeAction(h, a)
    <3>1. hs'[h] = [pc |-> "request", app |-> a, op |-> NewOp(a, "action"), val |-> "Absent"]
      BY <1>2, <2>1 DEF InvokeAction, Begin
    <3> QED BY <3>1 DEF HandOK, NewOp
  <2>2. CASE InvokeInstall(h, a)
    <3>1. /\ hs'[h] = [pc |-> IF a \in Direct THEN "direct" ELSE "request", app |-> a,
                       op |-> NewOp(a, "install"), val |-> "Absent"]
          /\ phase[a] = "NotInstalled"
      BY <1>2, <2>2 DEF InvokeInstall, Begin
    <3>2. hs'[h].app = a /\ hs'[h].op.app = a /\ phase'[a] # "Uninstalling"
      BY <1>2, <3>1 DEF NewOp
    <3>3. Free(hs[h].app)' /\ Free(hs[h].op.app)'
      BY <3>2 DEF Free
    <3>4. hs'[h].pc = IF a \in Direct THEN "direct" ELSE "request"
      BY <3>1
    <3> QED BY <3>2, <3>3, <3>4 DEF HandOK
  <2>3. CASE CancelAction(h, a) \/ UninstallApp(h, a)
    <3>1. PICK p \in {"flag", "stuck", "uninstall"}, o \in {active, None} : Begin(h, p, a, o)
      BY <2>3 DEF CancelAction, UninstallApp
    <3>2. hs'[h].pc = p
      BY <1>2, <3>1 DEF Begin
    <3> QED BY <3>2 DEF HandOK
  <2>4. ~(SetParam(h, a) \/ DeregisterApp(h, a) \/ RegisterApp(h, a))
    BY DEF SetParam, DeregisterApp, RegisterApp, Idle
  <2> QED BY <2>1, <2>2, <2>3, <2>4 DEF NewRequest
<1>4. pc' = "run" => row' # None
  BY <1>2 DEF KInv, AtInstall
<1> QED BY <1>1, <1>2, <1>3, <1>4, HandK

\* The steps of a handler that change no phase.
LEMMA QuietHandlerK ==
  ASSUME IInv, KInv, NEW h \in Handlers,
         RequestSlot(h) \/ Spawn(h) \/ FlagCancel(h) \/ CancelStuck(h) \/ HandlerExtract(h)
  PROVE  KInv'
<1>0. HandlerStep(h)
  BY DEF HandlerStep
<1>1. \A g \in Handlers : g # h => hs'[g] = hs[g]
  BY <1>0, OthersStay DEF IInv
<1>2. hs[h].pc # "idle" /\ UNCHANGED <<phase, stored, snap, tornDown, boot>>
  BY DEF RequestSlot, Spawn, FlagCancel, CancelStuck, HandlerExtract, dbVars, bootVars, histVars
<1>3. boot = "up" /\ hs[h].app \in Apps /\ hs \in [Handlers -> Handler]
  BY <1>2, AtWork DEF IInv, TypeOK
<1>4. UNCHANGED <<active, pc, op, val>> \/ (pc = "idle" /\ pc' \in {"idle", "begin"})
  BY DEF RequestSlot, Spawn, FlagCancel, CancelStuck, HandlerExtract, Accept, Enqueue, Reject, Lookup,
         schedVars, driverVars, IInv, SlotOwner
<1>5. /\ row' # None => row # None /\ row'.app = row.app /\ row'.kind = row.kind
      /\ row # None => row' # None
  <2>1. CASE row' = row
    BY <2>1
  <2>2. CASE row' # row
    <3>1. row # None /\ row' = [row EXCEPT !.cancel = TRUE]
      BY <2>2 DEF RequestSlot, Spawn, FlagCancel, CancelStuck, HandlerExtract, RowIs, dbVars
    <3>2. row' \in Row /\ row'.app = row.app /\ row'.kind = row.kind
      BY <3>1 DEF IInv, TypeOK, Row
    <3> QED BY <3>1, <3>2, RowAssumption
  <2> QED BY <2>1, <2>2
<1>6. pc' = "run" => row' # None
  BY <1>4, <1>5 DEF KInv, AtInstall
<1>7. active' = active \/ (active' = hs[h].op /\ hs[h].pc = "request")
  BY DEF RequestSlot, Spawn, FlagCancel, CancelStuck, HandlerExtract, Accept, Enqueue, Reject, schedVars
<1>8. queue' = queue \/ (queue' = Append(queue, hs[h].op) /\ hs[h].pc = "request")
  BY DEF RequestSlot, Spawn, FlagCancel, CancelStuck, HandlerExtract, Accept, Enqueue, Reject, schedVars
<1>9. \A k \in DOMAIN queue' : \/ \E j \in DOMAIN queue : queue'[k] = queue[j]
                               \/ queue'[k] = hs[h].op /\ hs[h].pc = "request"
  BY <1>8 DEF IInv, TypeOK
<1>10. HandOK(h)' /\ (hs[h].pc \in {"extract", "write"} =>
            \/ hs'[h].pc \in {"extract", "write"} /\ hs'[h].app = hs[h].app
            \/ phase[hs[h].app] = stored[hs[h].app])
  <2>1. HandOK(h)
    BY HandsOK
  <2>2. CASE HandlerExtract(h) /\ phase[hs[h].app] # "Absent"
    <3>1. hs[h].pc = "extract" /\ hs' = [hs EXCEPT ![h].pc = "write", ![h].val = phase[hs[h].app]]
      BY <2>2 DEF HandlerExtract
    <3>2. hs'[h].pc = "write" /\ hs'[h].val = phase[hs[h].app] /\ hs'[h].app = hs[h].app
      BY <1>3, <3>1 DEF Handler
    <3>3. HandOK(h)'
      BY <1>2, <2>1, <2>2, <3>1, <3>2 DEF HandOK, Free
    <3> QED BY <3>2, <3>3
  <2>3. CASE HandlerExtract(h) /\ phase[hs[h].app] = "Absent"
    <3>1. Finish(h)
      BY <2>3 DEF HandlerExtract
    <3>2. hs'[h].pc = "idle"
      BY <1>3, <3>1, FinishMoves DEF Moved
    <3>3. stored[hs[h].app] = "Absent"
      BY <1>3, <2>3 DEF KInv, SameApps
    <3> QED BY <2>3, <3>2, <3>3 DEF HandOK
  <2>4. CASE ~HandlerExtract(h)
    <3>1. hs[h].pc \notin {"extract", "write"}
      BY <2>4 DEF RequestSlot, Spawn, FlagCancel, CancelStuck
    <3>2. Finish(h) \/ Goto(h, "unstick") \/ (Goto(h, "spawn") /\ hs[h].pc = "request")
      BY <2>4 DEF RequestSlot, Spawn, FlagCancel, CancelStuck
    <3>3. CASE Finish(h) \/ Goto(h, "unstick")
      <4>1. hs'[h].pc \in {"idle", "unstick"}
        BY <1>3, <3>3, FinishMoves, GotoMoves DEF Moved, HandlerPc
      <4> QED BY <3>1, <4>1 DEF HandOK
    <3>4. CASE Goto(h, "spawn") /\ hs[h].pc = "request"
      <4>1. hs'[h].pc = "spawn" /\ hs'[h].op = hs[h].op
        BY <1>3, <3>4, GotoMoves DEF Moved, HandlerPc
      <4> QED BY <1>2, <2>1, <3>1, <3>4, <4>1 DEF HandOK, Free
    <3> QED BY <3>2, <3>3, <3>4
  <2> QED BY <2>2, <2>3, <2>4
<1> QED BY <1>1, <1>2, <1>3, <1>4, <1>5, <1>6, <1>7, <1>9, <1>10, HandK

\* A handler's step that changes the phase of its own app, in memory or in the
\* database.
LEMMA TouchK ==
  ASSUME IInv, KInv, NEW h \in Handlers, NEW a \in Apps, hs[h].app = a,
         \A g \in Handlers : g # h => hs'[g] = hs[g], HandOK(h)',
         boot = "up", boot' = "up", UNCHANGED <<active, queue, row, pc, op, val, snap>>,
         tornDown \subseteq tornDown', tornDown' \subseteq tornDown \cup {a},
         \A b \in Apps : b # a => phase'[b] = phase[b] /\ stored'[b] = stored[b],
         phase'[a] = "Absent" <=> stored'[a] = "Absent",
         \/ a \in tornDown'
         \/ phase'[a] = phase[a] /\ phase'[a] = stored'[a]
         \/ RegistryFree /\ Free(a) /\ a \in Direct /\ phase'[a] # "Uninstalling"
            /\ hs'[h].app = a /\ hs'[h].pc = "extract"
  PROVE  KInv'
<1>0. \A b \in Apps : Free(b) => Free(b)'
  BY DEF Free
<1>1. \A g \in Handlers : HandOK(g)'
  <2> SUFFICES ASSUME NEW g \in Handlers, g # h PROVE HandOK(g)'
    OBVIOUS
  <2>1. HandOK(g) /\ hs'[g] = hs[g]
    BY HandsOK
  <2>2. hs[g].pc # "idle" => hs[g].app \in Apps
    BY DEF IInv, HandlerOK
  <2>3. hs[g].pc \in {"request", "spawn"} => hs[g].op \in Operation /\ hs[g].op.app \in Apps
    BY DEF IInv, HandlerOK, Operation
  <2>4. hs[g].pc \in {"request", "spawn"} /\ hs[g].op.kind = "install" => Free(hs[g].op.app)'
    BY <1>0, <2>1, <2>3 DEF HandOK, Free
  <2>5. hs[g].pc \in {"direct", "extract", "write"} => Free(hs[g].app)'
    BY <1>0, <2>1, <2>2 DEF HandOK, Free
  <2>6. hs[g].pc = "write" /\ hs[g].app \notin tornDown' => hs[g].val = phase'[hs[g].app]
    BY <2>1, <2>2 DEF HandOK, RegistryFree
  <2> QED BY <2>1, <2>4, <2>5, <2>6 DEF HandOK
<1>2. NoOthers'
  BY <1>1 DEF HandOK, NoOthers
<1>3. SameApps'
  BY <1>1 DEF KInv, HandOK, SameApps
<1>4. Kinded'
  BY <1>1 DEF KInv, Kinded, HandOK
<1>5. Swept'
  <2>1. active' # None /\ active'.kind = "install" => Free(active.app)'
    <3>1. active # None => active.app \in Apps
      BY DEF IInv, TypeOK, Operation
    <3> QED BY <1>0, <3>1 DEF KInv, Swept, Free
  <2>2. \A k \in DOMAIN queue' : queue'[k].kind = "install" => Free(queue[k].app)'
    <3>1. \A k \in DOMAIN queue : queue[k].app \in Apps
      BY QueueIds DEF Operation
    <3> QED BY <1>0, <3>1 DEF KInv, Swept, Free
  <2>3. \A b \in snap' \ tornDown' : phase'[b] = "Uninstalling"
    <3>1. snap \subseteq Apps
      BY DEF IInv, TypeOK
    <3> QED BY <3>1 DEF KInv, Swept, Free
  <2> QED BY <1>1, <2>1, <2>2, <2>3 DEF HandOK, Swept
<1>6. Persists'
  <2>1. \A b : Installs(b, Persisting) => Installs(b, Persisting)'
    BY DEF Installs
  <2>2. \A b \in Apps \ tornDown' : \/ phase'[b] = stored'[b]
                                    \/ Installs(b, Persisting)'
                                    \/ \E g \in Handlers : hs'[g].app = b /\ hs'[g].pc \in {"extract", "write"}
    <3> SUFFICES ASSUME NEW b \in Apps, b \notin tornDown', phase'[b] # stored'[b], ~Installs(b, Persisting)
                 PROVE  \E g \in Handlers : hs'[g].app = b /\ hs'[g].pc \in {"extract", "write"}
      BY <2>1
    <3>1. CASE b = a
      BY <3>1
    <3>2. CASE b # a
      <4>1. PICK g \in Handlers : hs[g].app = b /\ hs[g].pc \in {"extract", "write"}
        BY <3>2 DEF KInv, Persists
      <4> QED BY <3>2, <4>1
    <3> QED BY <3>1, <3>2
  <2>3. pc' \in {"write1", "write2"} /\ op'.app \notin tornDown' => val' = phase'[op'.app]
    <3>1. pc \in {"write1", "write2"} => op.app \in Apps
      BY DEF IInv, SlotOwner, TypeOK, Operation
    <3> QED BY <3>1 DEF KInv, Persists, RegistryFree
  <2> QED BY <1>1, <2>2, <2>3 DEF HandOK, Persists
<1>7. AtInstall'
  <2>1. \A b, P : Installs(b, P)' <=> Installs(b, P)
    BY DEF Installs
  <2>2. a \in Direct => ~Installs(a, {"extract1", "write1", "start", "run", "cleanup"})
    BY DEF KInv, Kinded, Installs
  <2> QED BY <2>1, <2>2 DEF KInv, AtInstall
<1> QED BY <1>2, <1>3, <1>4, <1>5, <1>6, <1>7 DEF KInv

\* The steps of a handler that change a phase.
LEMMA PhaseHandlerK ==
  ASSUME IInv, NoChange, KInv, NEW h \in Handlers,
         InstallDirect(h) \/ Unstick(h) \/ UninstallCommit(h) \/ HandlerWrite(h)
  PROVE  KInv'
<1>0. HandlerStep(h)
  BY DEF HandlerStep
<1>1. \A g \in Handlers : g # h => hs'[g] = hs[g]
  BY <1>0, OthersStay DEF IInv
<1>2. hs[h].pc # "idle" /\ UNCHANGED <<active, queue, row, pc, op, val, snap, boot>>
  BY DEF InstallDirect, Unstick, UninstallCommit, HandlerWrite, schedVars, dbVars, driverVars, bootVars
<1>3. boot = "up" /\ hs[h].app \in Apps /\ hs \in [Handlers -> Handler]
  BY <1>2, AtWork DEF IInv, TypeOK
<1>4. HandOK(h) /\ (phase[hs[h].app] = "Absent" <=> stored[hs[h].app] = "Absent")
  BY <1>3, HandsOK DEF KInv, SameApps
<1>5. phase \in [Apps -> MaybePhase] /\ stored \in [Apps -> MaybePhase]
  BY DEF IInv, TypeOK
<1>6. CASE InstallDirect(h)
  <2>1. /\ hs[h].pc = "direct" /\ RegistryFree /\ Goto(h, "extract") /\ UNCHANGED <<stored, tornDown>>
        /\ phase' = [phase EXCEPT ![hs[h].app] = IF @ = "Absent" THEN @ ELSE "Installed"]
    BY <1>6 DEF InstallDirect, SetPhase, dbVars, histVars
  <2>2. hs'[h].pc = "extract" /\ hs'[h].app = hs[h].app
    BY <1>3, <2>1, GotoMoves DEF Moved, HandlerPc
  <2>3. \A b \in Apps : phase'[b] = IF b = hs[h].app /\ phase[b] # "Absent" THEN "Installed" ELSE phase[b]
    BY <1>3, <1>5, <2>1
  <2>4. Free(hs[h].app) /\ hs[h].app \in Direct /\ phase'[hs[h].app] # "Uninstalling"
    BY <1>3, <1>4, <2>1, <2>3 DEF HandOK
  <2>5. HandOK(h)'
    BY <2>2, <2>4 DEF HandOK, Free
  <2>6. phase'[hs[h].app] = "Absent" <=> stored'[hs[h].app] = "Absent"
    BY <1>3, <1>4, <2>1, <2>3
  <2>7. \A b \in Apps : b # hs[h].app => phase'[b] = phase[b] /\ stored'[b] = stored[b]
    BY <2>1, <2>3
  <2> QED BY <1>1, <1>2, <1>3, <2>1, <2>2, <2>4, <2>5, <2>6, <2>7, TouchK
<1>7. CASE Unstick(h) \/ UninstallCommit(h)
  <2>1. /\ tornDown' = tornDown \cup {hs[h].app}
        /\ Goto(h, "extract") \/ Finish(h)
        /\ phase' = [phase EXCEPT ![hs[h].app] = IF @ = "Absent" THEN @ ELSE "Uninstalling"]
        /\ stored' = stored \/ stored' = [stored EXCEPT ![hs[h].app] = IF @ = "Absent" THEN @ ELSE "Uninstalling"]
    BY <1>7 DEF Unstick, UninstallCommit, SetPhase, StorePhase, dbVars
  <2>2. hs'[h].pc = "idle" \/ (hs'[h].pc = "extract" /\ hs'[h].app = hs[h].app)
    BY <1>3, <2>1, GotoMoves, FinishMoves DEF Moved, HandlerPc
  <2>3. HandOK(h)'
    BY <2>1, <2>2 DEF HandOK, Free
  <2>4. phase'[hs[h].app] = "Absent" <=> stored'[hs[h].app] = "Absent"
    BY <1>3, <1>4, <1>5, <2>1
  <2>5. \A b \in Apps : b # hs[h].app => phase'[b] = phase[b] /\ stored'[b] = stored[b]
    BY <1>3, <1>5, <2>1
  <2> QED BY <1>1, <1>2, <1>3, <2>1, <2>3, <2>4, <2>5, TouchK
<1>8. CASE HandlerWrite(h)
  <2>1. /\ hs[h].pc = "write" /\ UNCHANGED <<phase, tornDown>>
        /\ stored' = [stored EXCEPT ![hs[h].app] = IF @ = "Absent" THEN @ ELSE hs[h].val]
    BY <1>8 DEF HandlerWrite, StorePhase, histVars
  <2>2. Finish(h)
    BY <1>8, <2>1 DEF HandlerWrite, NoChange
  <2>3. hs'[h].pc = "idle"
    BY <1>3, <2>2, FinishMoves DEF Moved
  <2>4. HandOK(h)'
    BY <2>3 DEF HandOK
  <2>5. phase'[hs[h].app] = "Absent" <=> stored'[hs[h].app] = "Absent"
    BY <1>3, <1>4, <1>5, <2>1 DEF HandOK
  <2>6. \A b \in Apps : b # hs[h].app => phase'[b] = phase[b] /\ stored'[b] = stored[b]
    BY <1>3, <1>5, <2>1
  <2>7. hs[h].app \in tornDown' \/ phase'[hs[h].app] = stored'[hs[h].app]
    BY <1>3, <1>4, <1>5, <2>1 DEF HandOK
  <2> QED BY <1>1, <1>2, <1>3, <2>1, <2>4, <2>5, <2>6, <2>7, TouchK
<1> QED BY <1>6, <1>7, <1>8

\* The steps of a handler at work.
LEMMA HandlerK ==
  ASSUME IInv, NoChange, KInv, NEW h \in Handlers, HandlerStep(h)
  PROVE  KInv'
<1>1. hs[h].pc \notin {"onChange", "register", "insert", "deregCheck", "deregDb", "deregMem"}
  BY DEF KInv, NoOthers
<1>2. ~(ScheduleOnChange(h) \/ DeregisterCheck(h) \/ DeregisterDb(h) \/ DeregisterMem(h)
        \/ RegisterCommit(h) \/ RegisterInsert(h))
  BY <1>1 DEF ScheduleOnChange, DeregisterCheck, DeregisterDb, DeregisterMem, RegisterCommit, RegisterInsert
<1> QED BY <1>2, QuietHandlerK, PhaseHandlerK DEF HandlerStep

\* A driver's step that hands no slot over and changes no phase but that of its
\* own app.
LEMMA DriverTouchK ==
  ASSUME IInv, KInv, pc # "idle", UNCHANGED <<hs, boot, snap, tornDown, active, queue, op>>,
         \A b \in Apps : b # op.app => phase'[b] = phase[b] /\ stored'[b] = stored[b],
         phase'[op.app] = "Absent" <=> stored'[op.app] = "Absent",
         \/ phase'[op.app] = phase[op.app]
         \/ RegistryFree /\ op.kind = "install" /\ phase'[op.app] # "Uninstalling",
         row' # None => row'.app \in {op.app} /\ row'.kind = op.kind,
         pc' = "run" => row' # None,
         \/ Installs(op.app, Persisting)'
         \/ op.app \in tornDown
         \/ phase'[op.app] = stored'[op.app]
         \/ UNCHANGED <<phase, stored>> /\ pc \notin Persisting,
         pc' \in {"write1", "write2"} => val' # "Absent" /\ val' = phase'[op.app],
         op.kind = "install" /\ pc' \in {"extract1", "write1", "start", "run", "cleanup"} =>
            \/ phase'[op.app] = "Installing"
            \/ phase' = phase /\ pc \in {"extract1", "write1", "start", "run", "cleanup"}
  PROVE  KInv'
<1>0. op # None /\ op \in Operation /\ active = op /\ op.app \in Apps /\ boot \in {"sweep", "up"}
  BY DEF IInv, SlotOwner, TypeOK, Operation, BootQuiet
<1>1. \A b \in Apps : Free(b) => Free(b)'
  BY DEF Free
<1>2. \A g \in Handlers : HandOK(g)'
  <2> SUFFICES ASSUME NEW g \in Handlers PROVE HandOK(g)'
    OBVIOUS
  <2>1. HandOK(g) /\ hs'[g] = hs[g]
    BY HandsOK
  <2>2. hs[g].pc # "idle" => hs[g].app \in Apps
    BY DEF IInv, HandlerOK
  <2>3. hs[g].pc \in {"request", "spawn"} => hs[g].op \in Operation /\ hs[g].op.app \in Apps
    BY DEF IInv, HandlerOK, Operation
  <2>4. hs[g].pc \in {"request", "spawn"} /\ hs[g].op.kind = "install" => Free(hs[g].op.app)'
    BY <1>1, <2>1, <2>3 DEF HandOK, Free
  <2>5. hs[g].pc \in {"direct", "extract", "write"} => Free(hs[g].app)'
    BY <1>1, <2>1, <2>2 DEF HandOK, Free
  <2>6. hs[g].pc = "write" /\ hs[g].app \notin tornDown' => hs[g].val = phase'[hs[g].app]
    BY <2>1, <2>2 DEF HandOK, RegistryFree
  <2> QED BY <2>1, <2>4, <2>5, <2>6 DEF HandOK
<1>3. NoOthers'
  BY <1>2 DEF HandOK, NoOthers
<1>4. SameApps'
  BY <1>0, <1>2 DEF KInv, HandOK, SameApps
<1>5. Kinded'
  BY <1>0, <1>2 DEF KInv, Kinded, HandOK
<1>6. Swept'
  <2>1. active' # None /\ active'.kind = "install" => Free(active.app)'
    BY <1>0, <1>1 DEF KInv, Swept, Free
  <2>2. \A k \in DOMAIN queue' : queue'[k].kind = "install" => Free(queue[k].app)'
    <3>1. \A k \in DOMAIN queue : queue[k].app \in Apps
      BY QueueIds DEF Operation
    <3> QED BY <1>1, <3>1 DEF KInv, Swept, Free
  <2>3. \A b \in snap' \ tornDown' : phase'[b] = "Uninstalling"
    <3>1. snap \subseteq Apps
      BY DEF IInv, TypeOK
    <3> QED BY <1>0, <3>1 DEF KInv, Swept, Free
  <2>4. boot' # "up" => snap' = {}
    BY DEF KInv, Swept
  <2> QED BY <1>2, <2>1, <2>2, <2>3, <2>4 DEF HandOK, Swept
<1>7. Persists'
  <2>1. \A b \in Apps \ tornDown' : \/ phase'[b] = stored'[b]
                                    \/ Installs(b, Persisting)'
                                    \/ \E g \in Handlers : hs'[g].app = b /\ hs'[g].pc \in {"extract", "write"}
    <3> SUFFICES ASSUME NEW b \in Apps, b \notin tornDown, phase'[b] # stored'[b], ~Installs(b, Persisting)'
                 PROVE  \E g \in Handlers : hs[g].app = b /\ hs[g].pc \in {"extract", "write"}
      OBVIOUS
    <3>1. phase[b] # stored[b] /\ ~Installs(b, Persisting)
      BY <1>0 DEF Installs
    <3> QED BY <1>0, <3>1 DEF KInv, Persists
  <2> QED BY <1>2, <2>1 DEF HandOK, Persists
<1>8. AtInstall'
  <2> SUFFICES ASSUME NEW b \in Apps, b \notin tornDown,
                      Installs(b, {"extract1", "write1", "start", "run", "cleanup"})'
               PROVE  phase'[b] = "Installing"
    BY DEF AtInstall
  <2>1. b = op.app /\ op.kind = "install" /\ pc' \in {"extract1", "write1", "start", "run", "cleanup"}
    BY <1>0 DEF Installs
  <2>2. CASE phase'[op.app] = "Installing"
    BY <2>1, <2>2
  <2>3. CASE phase' = phase /\ pc \in {"extract1", "write1", "start", "run", "cleanup"}
    <3>1. Installs(b, {"extract1", "write1", "start", "run", "cleanup"})
      BY <1>0, <2>1, <2>3 DEF Installs
    <3> QED BY <2>3, <3>1 DEF KInv, AtInstall
  <2> QED BY <2>1, <2>2, <2>3
<1> QED BY <1>3, <1>4, <1>5, <1>6, <1>7, <1>8 DEF KInv

\* The slot is freed, or passes to the head of the queue; or an operation that
\* was dequeued is looked up.
LEMMA HandOverK ==
  ASSUME IInv, CInv, KInv, DriverRelease \/ DriverLookup
  PROVE  KInv'
<1>1. /\ UNCHANGED <<hs, boot, snap, tornDown, phase, stored, row>>
      /\ pc \in {"release", "lookup"} /\ pc' \in {"idle", "lookup", "begin"}
  BY DEF DriverRelease, DriverLookup, Lookup, dbVars, bootVars, histVars
<1>2. /\ active' # None => active' = active \/ \E k \in DOMAIN queue : active' = queue[k]
      /\ \A k \in DOMAIN queue' : \E j \in DOMAIN queue : queue'[k] = queue[j]
  <2>1. CASE queue # <<>> /\ active' = Head(queue) /\ queue' = Tail(queue)
    <3>1. 1 \in DOMAIN queue /\ active' = queue[1]
      BY <2>1 DEF IInv, TypeOK
    <3>2. \A k \in DOMAIN queue' : k + 1 \in DOMAIN queue /\ queue'[k] = queue[k + 1]
      BY <2>1 DEF IInv, TypeOK
    <3> QED BY <3>1, <3>2
  <2>2. CASE queue' = queue /\ (active' = None \/ active' = active)
    BY <2>2
  <2> QED BY <2>1, <2>2 DEF DriverRelease, DriverLookup, CompleteCurrent, schedVars
<1>3. \A a : Free(a)' <=> Free(a)
  BY <1>1 DEF Free
<1>4. NoOthers' /\ SameApps'
  BY <1>1 DEF KInv, NoOthers, SameApps
<1>5. Kinded'
  BY <1>1, <1>2 DEF KInv, Kinded
<1>6. Swept'
  <2>1. active' # None /\ active'.kind = "install" => Free(active.app)'
    BY <1>1, <1>2 DEF KInv, Swept, Free
  <2>2. \A k \in DOMAIN queue' : queue'[k].kind = "install" => Free(queue[k].app)'
    BY <1>1, <1>2 DEF KInv, Swept, Free
  <2>3. \A h \in Handlers :
          /\ hs'[h].pc \in {"request", "spawn"} /\ hs'[h].op.kind = "install" => Free(hs[h].op.app)'
          /\ hs'[h].pc \in {"direct", "extract", "write"} => Free(hs[h].app)'
    BY <1>1 DEF KInv, Swept, Free
  <2> QED BY <1>1, <2>1, <2>2, <2>3 DEF KInv, Swept
<1>7. Persists'
  <2>1. \A a : ~Installs(a, Persisting)
    BY <1>1 DEF Installs, Persisting
  <2> QED BY <1>1, <2>1 DEF KInv, Persists
<1>8. AtInstall'
  BY <1>1 DEF AtInstall, Installs
<1> QED BY <1>4, <1>5, <1>6, <1>7, <1>8 DEF KInv

\* The driver's steps on its own operation.
LEMMA DriverK ==
  ASSUME ~Aborts, IInv, CInv, RInv, PInv, KInv, DriverStep \/ DriverSuspend
  PROVE  KInv'
<1>1. UNCHANGED <<hs, boot, snap, tornDown>> /\ pc # "idle"
  BY DEF DriverStep, DriverBegin, DriverExtract, DriverWrite, DriverSave, DriverUnstartable,
         DriverComplete, DriverFail, DriverCancelled, DriverPanic, DriverFinalize, DriverRelease,
         DriverLookup, DriverSuspend, LastPass, bootVars, histVars
<1>2. op # None /\ op \in Operation /\ active = op /\ op.app \in Apps /\ boot \in {"sweep", "up"}
  BY <1>1 DEF IInv, SlotOwner, TypeOK, Operation, BootQuiet
<1>3. phase[op.app] # "Absent" /\ stored[op.app] # "Absent"
  BY <1>2 DEF RInv, Present, KInv, SameApps
<1>4. phase \in [Apps -> MaybePhase] /\ stored \in [Apps -> MaybePhase]
  BY DEF IInv, TypeOK
<1>5. row # None => row.app = op.app /\ row.kind = op.kind
  <2>1. row # None => Driving
    BY <1>2 DEF CInv, RowOwned
  <2> QED BY <2>1 DEF PInv, RowMatches
<1>6. CASE DriverRelease \/ DriverLookup
  BY <1>6, HandOverK
<1>7. CASE (DriverBegin \/ DriverFinalize) /\ op.kind = "install"
  <2>1. PICK p \in {"Installing", "Installed", "NotInstalled"} :
           /\ phase' = [phase EXCEPT ![op.app] = IF @ = "Absent" THEN @ ELSE p]
           /\ RegistryFree /\ UNCHANGED <<active, queue, op, stored, row, val>>
           /\ (pc' = "extract1" /\ p = "Installing") \/ pc' = "extract2"
    BY <1>7 DEF DriverBegin, DriverFinalize, SetPhase, FinalPhase, schedVars, dbVars
  <2>2. phase'[op.app] = p /\ \A b \in Apps : b # op.app => phase'[b] = phase[b] /\ stored'[b] = stored[b]
    BY <1>2, <1>3, <1>4, <2>1
  <2>3. Installs(op.app, Persisting)'
    BY <1>2, <1>7, <2>1 DEF Installs, Persisting
  <2> QED BY <1>1, <1>3, <1>5, <1>7, <2>1, <2>2, <2>3, DriverTouchK
<1>8. CASE DriverWrite
  <2>1. /\ pc \in {"write1", "write2"} /\ pc' = (IF pc = "write1" THEN "start" ELSE "release")
        /\ stored' = [stored EXCEPT ![op.app] = IF @ = "Absent" THEN @ ELSE val]
        /\ UNCHANGED <<active, queue, phase, row, op>>
    BY <1>8 DEF DriverWrite, StorePhase, schedVars
  <2>2. val # "Absent" /\ (op.app \in tornDown \/ val = phase[op.app])
    BY <2>1 DEF KInv, SameApps, Persists
  <2>3. stored'[op.app] = val /\ \A b \in Apps : b # op.app => phase'[b] = phase[b] /\ stored'[b] = stored[b]
    BY <1>2, <1>3, <1>4, <2>1
  <2>4. op.app \in tornDown \/ phase'[op.app] = stored'[op.app]
    BY <2>1, <2>2, <2>3
  <2> QED BY <1>1, <1>3, <1>5, <2>1, <2>2, <2>3, <2>4, DriverTouchK
<1>9. CASE DriverExtract
  <2>1. /\ pc \in {"extract1", "extract2"} /\ val' = phase[op.app]
        /\ pc' = (IF pc = "extract1" THEN "write1" ELSE "write2")
        /\ UNCHANGED <<active, queue, phase, stored, row, op>>
    BY <1>3, <1>9 DEF DriverExtract, schedVars, dbVars
  <2>2. Installs(op.app, Persisting)'
    BY <1>2, <2>1 DEF PInv, DriverHand, Installs, Persisting
  <2> QED BY <1>1, <1>3, <1>5, <2>1, <2>2, DriverTouchK
<1>10. CASE DriverSave
  <2>1. /\ pc = "start" /\ pc' = "run" /\ UNCHANGED <<active, queue, phase, stored, op>>
        /\ row' = [id |-> op.id, app |-> op.app, kind |-> op.kind, cancel |-> row # None /\ row.cancel]
    BY <1>10 DEF DriverSave, CancelColumn, schedVars
  <2>2. row' \in Row /\ row'.app = op.app /\ row'.kind = op.kind
    BY <1>2, <2>1 DEF Row, Operation, IInv, TypeOK
  <2>3. row' # None
    BY <2>2, RowAssumption
  <2>4. pc \notin Persisting
    BY <2>1 DEF Persisting
  <2> QED BY <1>1, <1>3, <2>1, <2>2, <2>3, <2>4, DriverTouchK
<1>11. CASE DriverSuspend \/ DriverComplete \/ DriverFail \/ DriverCancelled
  <2>1. /\ pc = "run" /\ UNCHANGED <<active, queue, phase, stored, op>>
        /\ (pc' = "run" /\ row' = row) \/ (pc' = "cleanup" /\ row' = None)
    BY <1>11 DEF DriverSuspend, DriverComplete, DriverFail, DriverCancelled, LastPass, Result, ClearRow,
                 schedVars, driverVars
  <2>2. row # None /\ pc \notin Persisting
    BY <2>1 DEF KInv, AtInstall, Persisting
  <2> QED BY <1>1, <1>3, <1>5, <2>1, <2>2, DriverTouchK
<1>12. CASE (DriverBegin \/ DriverFinalize) /\ op.kind # "install"
  <2>1. /\ pc \in {"begin", "cleanup"} /\ pc' \in {"start", "release"}
        /\ UNCHANGED <<active, queue, phase, stored, row, op>>
    BY <1>12 DEF DriverBegin, DriverFinalize, schedVars, dbVars
  <2>2. pc \notin Persisting
    BY <2>1 DEF Persisting
  <2> QED BY <1>1, <1>3, <1>5, <1>12, <2>1, <2>2, DriverTouchK
<1>13. CASE DriverUnstartable \/ DriverPanic
  BY <1>13 DEF DriverUnstartable, DriverPanic
<1> QED BY <1>6, <1>7, <1>8, <1>9, <1>10, <1>11, <1>12, <1>13 DEF DriverStep

\* The reconciler ends the teardown of an app it has seen leaving.
LEMMA ReconcileK ==
  ASSUME IInv, PInv, KInv,
         ReconcileTick \/ \E a \in Apps : Bookkeeping(a) \/ UninstallDone(a)
  PROVE  KInv'
<1>1. /\ boot = "up" /\ boot' = "up"
      /\ UNCHANGED <<hs, active, queue, row, pc, op, val, tornDown>>
  BY DEF ReconcileTick, Bookkeeping, ReconcileActuate,
              InstancesReaped, UninstallRefused, UninstallDone, schedVars, dbVars, driverVars, bootVars, histVars
<1>2. \A a, P : Installs(a, P)' <=> Installs(a, P)
  BY <1>1 DEF Installs
<1>3. CASE ReconcileTick \/ \E a \in Apps : Bookkeeping(a)
  <2>1. UNCHANGED <<phase, stored>> /\ \A b \in snap' : b \in snap \/ phase[b] = "Uninstalling"
    BY <1>3 DEF ReconcileTick, Bookkeeping, ReconcileActuate, InstancesReaped, UninstallRefused, Leaving, dbVars
  <2>2. \A b : Free(b)' <=> Free(b)
    BY <1>1, <2>1 DEF Free
  <2>3. NoOthers' /\ SameApps' /\ Kinded'
    BY <1>1, <2>1 DEF KInv, NoOthers, SameApps, Kinded
  <2>4. Swept'
    BY <1>1, <2>1 DEF KInv, Swept, Free
  <2>5. Persists' /\ AtInstall'
    BY <1>1, <1>2, <2>1 DEF KInv, Persists, AtInstall
  <2> QED BY <2>3, <2>4, <2>5 DEF KInv
<1>4. ASSUME NEW a \in Apps, UninstallDone(a) PROVE KInv'
  <2>1. /\ a \in snap /\ snap' = snap \ {a}
        /\ phase' = [phase EXCEPT ![a] = IF @ = "Absent" THEN @ ELSE "NotInstalled"]
        /\ stored' = [stored EXCEPT ![a] = IF @ = "Absent" THEN @ ELSE "NotInstalled"]
    BY <1>4 DEF UninstallDone, SetPhase, StorePhase
  <2>2. phase \in [Apps -> MaybePhase] /\ stored \in [Apps -> MaybePhase] /\ snap \subseteq Apps
    BY DEF IInv, TypeOK
  <2>3. /\ \A b \in Apps : b # a => phase'[b] = phase[b] /\ stored'[b] = stored[b]
        /\ phase'[a] = stored'[a] /\ phase'[a] # "Uninstalling"
        /\ phase'[a] = "Absent" <=> stored'[a] = "Absent"
    <3>1. phase[a] = "Absent" <=> stored[a] = "Absent"
      BY <1>1 DEF KInv, SameApps
    <3> QED BY <2>1, <2>2, <3>1
  <2>4. a \in tornDown \/ ~Free(a)
    BY <2>1 DEF KInv, Swept, Free
  <2>5. \A b \in Apps : Free(b) => Free(b)'
    BY <1>1, <2>3, <2>4 DEF Free
  <2>6. NoOthers' /\ SameApps' /\ Kinded'
    BY <1>1, <2>3 DEF KInv, NoOthers, SameApps, Kinded
  <2>7. Swept'
    <3>1. active # None => active.app \in Apps
      BY DEF IInv, TypeOK, Operation
    <3>2. \A k \in DOMAIN queue : queue[k].app \in Apps
      BY QueueIds DEF Operation
    <3>3. \A h \in Handlers : /\ hs[h].pc # "idle" => hs[h].app \in Apps
                              /\ hs[h].pc \in {"request", "spawn"} => hs[h].op.app \in Apps
      BY DEF IInv, HandlerOK, Operation
    <3>4. active' # None /\ active'.kind = "install" => Free(active.app)'
      BY <1>1, <2>5, <3>1 DEF KInv, Swept, Free
    <3>5. \A k \in DOMAIN queue' : queue'[k].kind = "install" => Free(queue[k].app)'
      BY <1>1, <2>5, <3>2 DEF KInv, Swept, Free
    <3>6. \A h \in Handlers :
            /\ hs'[h].pc \in {"request", "spawn"} /\ hs'[h].op.kind = "install" => Free(hs[h].op.app)'
            /\ hs'[h].pc \in {"direct", "extract", "write"} => Free(hs[h].app)'
      <4> SUFFICES ASSUME NEW h \in Handlers
                   PROVE  /\ hs'[h].pc \in {"request", "spawn"} /\ hs'[h].op.kind = "install" => Free(hs[h].op.app)'
                          /\ hs'[h].pc \in {"direct", "extract", "write"} => Free(hs[h].app)'
        OBVIOUS
      <4>1. hs[h].pc \in {"request", "spawn"} /\ hs[h].op.kind = "install" => Free(hs[h].op.app)
        BY DEF KInv, Swept
      <4>2. hs[h].pc \in {"direct", "extract", "write"} => Free(hs[h].app)
        BY DEF KInv, Swept
      <4> QED BY <1>1, <2>5, <3>3, <4>1, <4>2 DEF Free
    <3>7. \A b \in snap' \ tornDown' : phase'[b] = "Uninstalling"
      BY <1>1, <2>1, <2>2, <2>3 DEF KInv, Swept
    <3> QED BY <1>1, <3>4, <3>5, <3>6, <3>7 DEF Swept
  <2>8. Persists'
    <3>1. \A h \in Handlers : hs[h].pc = "write" /\ hs[h].app \notin tornDown => hs[h].app # a /\ hs[h].app \in Apps
      BY <2>4 DEF KInv, Swept, IInv, HandlerOK
    <3>2. pc \in {"write1", "write2"} /\ op.app \notin tornDown => op.app # a /\ op.app \in Apps
      <4>1. pc \in {"write1", "write2"} => active = op /\ op # None /\ op.app \in Apps /\ op.kind = "install"
        BY DEF IInv, SlotOwner, TypeOK, Operation, PInv, DriverHand
      <4> QED BY <2>4, <4>1 DEF KInv, Swept
    <3>3. \A b \in Apps \ tornDown' : \/ phase'[b] = stored'[b]
                                      \/ Installs(b, Persisting)'
                                      \/ \E h \in Handlers : hs'[h].app = b /\ hs'[h].pc \in {"extract", "write"}
      BY <1>1, <1>2, <2>3 DEF KInv, Persists
    <3>4. \A h \in Handlers : hs'[h].pc = "write" /\ hs'[h].app \notin tornDown' => hs'[h].val = phase'[hs'[h].app]
      BY <1>1, <2>3, <3>1 DEF KInv, Persists
    <3>5. pc' \in {"write1", "write2"} /\ op'.app \notin tornDown' => val' = phase'[op'.app]
      BY <1>1, <2>3, <3>2 DEF KInv, Persists
    <3> QED BY <3>3, <3>4, <3>5 DEF Persists
  <2>9. AtInstall'
    <3>1. a \notin tornDown => ~Installs(a, {"extract1", "write1", "start", "run", "cleanup"})
      BY <2>4 DEF KInv, Swept, Installs
    <3> QED BY <1>1, <1>2, <2>3, <3>1 DEF KInv, AtInstall
  <2> QED BY <2>6, <2>7, <2>8, <2>9 DEF KInv
<1> QED BY <1>3, <1>4

\* Crash and restart: memory is loaded from the store; the sweep writes both.
LEMMA RestartK ==
  ASSUME IInv, PInv, KInv, Crash \/ BootStep
  PROVE  KInv'
<1>1. CASE Crash
  <2>1. /\ boot' = "load" /\ pc' = "idle" /\ active' = None /\ DOMAIN queue' = {} /\ snap' = {}
        /\ UNCHANGED <<row, stored, tornDown>>
        /\ \A h \in Handlers : hs'[h].pc = "idle"
    BY <1>1 DEF Crash, IdleHandler, dbVars, histVars
  <2>2. NoOthers' /\ SameApps' /\ Kinded'
    BY <2>1 DEF KInv, NoOthers, SameApps, Kinded
  <2>3. Swept' /\ Persists' /\ AtInstall'
    BY <2>1 DEF Swept, Persists, AtInstall, Installs
  <2> QED BY <2>2, <2>3 DEF KInv
<1>2. CASE BootLoad
  <2>1. /\ boot = "load" /\ boot' = "replay" /\ phase' = stored /\ pc = "idle" /\ active = None
        /\ queue = <<>> /\ \A h \in Handlers : hs[h].pc = "idle"
        /\ UNCHANGED <<row, stored, tornDown, snap, hs, pc, op, val, active, queue>>
    BY <1>2 DEF BootLoad, schedVars, dbVars, driverVars, histVars, IInv, BootQuiet, QueueDiscipline
  <2>2. DOMAIN queue = {}
    BY <2>1
  <2>3. NoOthers' /\ SameApps' /\ Kinded'
    BY <2>1 DEF KInv, NoOthers, SameApps, Kinded
  <2>4. snap = {}
    BY <2>1 DEF KInv, Swept
  <2>5. Swept' /\ Persists' /\ AtInstall'
    BY <2>1, <2>2, <2>4 DEF Swept, Persists, AtInstall, Installs
  <2> QED BY <2>3, <2>5 DEF KInv
<1>3. CASE BootReplay
  <2>1. /\ boot = "replay" /\ boot' = "sweep" /\ pc = "idle" /\ active = None /\ queue = <<>>
        /\ \A h \in Handlers : hs[h].pc = "idle"
        /\ UNCHANGED <<hs, snap, tornDown>>
    BY <1>3 DEF BootReplay, histVars, IInv, BootQuiet, QueueDiscipline
  <2>2. phase = stored /\ snap = {} /\ DOMAIN queue = {}
    BY <2>1 DEF PInv, Recovery, KInv, Swept
  <2>3. CASE row # None /\ Replay
    <3>1. /\ active' = [id |-> row.id, app |-> row.app, kind |-> row.kind] /\ pc' = "begin" /\ queue' = queue
          /\ Replayable /\ UNCHANGED <<phase, stored, row>>
      BY <2>3 DEF Replay
    <3>2. active'.app = row.app /\ active'.kind = row.kind
      BY <3>1
    <3>3. row.kind = "install" => phase[row.app] # "Uninstalling"
      BY <3>1 DEF Replayable
    <3>4. NoOthers' /\ SameApps'
      BY <2>1, <2>2, <3>1 DEF NoOthers, SameApps
    <3>5. Kinded'
      BY <2>1, <2>2, <2>3, <3>1, <3>2 DEF KInv, Kinded
    <3>6. Swept'
      BY <2>1, <2>2, <3>1, <3>2, <3>3 DEF Swept, Free
    <3>7. Persists' /\ AtInstall'
      BY <2>1, <2>2, <3>1 DEF Persists, AtInstall, Installs
    <3> QED BY <3>4, <3>5, <3>6, <3>7 DEF KInv
  <2>4. CASE ~(row # None /\ Replay)
    <3>1. row' = None /\ UNCHANGED <<active, queue, pc>>
      BY <1>3, <2>4 DEF BootReplay, Discard, Unreadable, ClearRow, schedVars, driverVars
    <3>2. phase' = stored'
      BY <1>3, <2>2, <2>4 DEF BootReplay, Discard, Unreadable, SetPhase, StorePhase
    <3>3. NoOthers' /\ SameApps' /\ Kinded'
      BY <2>1, <2>2, <3>1, <3>2 DEF NoOthers, SameApps, Kinded
    <3>4. Swept' /\ Persists' /\ AtInstall'
      BY <2>1, <2>2, <3>1, <3>2 DEF Swept, Persists, AtInstall, Installs
    <3> QED BY <3>3, <3>4 DEF KInv
  <2> QED BY <2>3, <2>4
<1>4. CASE BootSweep
  <2>1. /\ boot = "sweep" /\ boot' = "up"
        /\ UNCHANGED <<hs, active, queue, row, pc, op, val, snap, tornDown>>
        /\ \A a \in Apps : phase'[a] = IF Stuck(a) THEN "Uninstalling" ELSE phase[a]
        /\ \A a \in Apps : stored'[a] = IF Stuck(a) THEN "Uninstalling" ELSE stored[a]
    BY <1>4 DEF BootSweep, schedVars, dbVars, driverVars, histVars
  <2>2. /\ queue = <<>> /\ DOMAIN queue = {} /\ snap = {} /\ \A h \in Handlers : hs[h].pc = "idle"
        /\ active # None => active.app = bootApp
    BY <2>1 DEF PInv, Recovery, KInv, Swept, IInv, BootQuiet
  <2>3. active # None => active.app \in Apps /\ ~Stuck(active.app)
    BY <2>2 DEF Stuck, IInv, TypeOK, Operation
  <2>4. \A a \in Apps : Stuck(a) => phase[a] # "Absent"
    BY DEF Stuck
  <2>5. NoOthers' /\ Kinded'
    BY <2>1 DEF KInv, NoOthers, Kinded
  <2>6. SameApps'
    BY <2>1, <2>2, <2>4 DEF KInv, SameApps
  <2>7. Swept'
    <3>1. active' # None /\ active'.kind = "install" => Free(active.app)'
      BY <2>1, <2>3 DEF KInv, Swept, Free
    <3> QED BY <2>1, <2>2, <3>1 DEF Swept
  <2>8. \A a, P : Installs(a, P)' <=> Installs(a, P)
    BY <2>1 DEF Installs
  <2>9. Persists'
    <3>1. pc \in {"write1", "write2"} => active = op /\ active # None
      BY DEF IInv, SlotOwner
    <3>2. pc' \in {"write1", "write2"} /\ op'.app \notin tornDown' => val' = phase'[op'.app]
      BY <2>1, <2>3, <3>1 DEF KInv, Persists
    <3>3. \A a \in Apps \ tornDown' : phase'[a] = stored'[a] \/ Installs(a, Persisting)'
      BY <2>1, <2>2, <2>8 DEF KInv, Persists
    <3> QED BY <2>1, <2>2, <3>2, <3>3 DEF Persists
  <2>10. AtInstall'
    <3>1. \A a, P : Installs(a, P) => a \in Apps /\ ~Stuck(a)
      BY <2>3 DEF Installs
    <3> QED BY <2>1, <2>8, <3>1 DEF KInv, AtInstall
  <2> QED BY <2>5, <2>6, <2>7, <2>9, <2>10 DEF KInv
<1> QED BY <1>1, <1>2, <1>3, <1>4 DEF BootStep

\* Every step keeps KInv.
LEMMA StepKInv ==
  ASSUME ~Aborts, Requests \cap {"param", "deregister", "register"} = {},
         IInv, CInv, RInv, NoChange, PInv, KInv, [Next]_vars
  PROVE  KInv'
<1>1. CASE Next
  BY <1>1, HandlerK, RequestK, DriverK, ReconcileK, RestartK DEF Next, UninstallStep, Bookkeeping
<1>2. CASE UNCHANGED vars
  <2>1. UNCHANGED <<active, queue, pc, op, val, phase, stored, row, hs, boot, snap, tornDown>>
    BY <1>2 DEF vars, schedVars, dbVars, driverVars, bootVars, histVars
  <2>2. NoOthers' /\ SameApps' /\ Kinded'
    BY <2>1 DEF KInv, NoOthers, SameApps, Kinded
  <2>3. Swept'
    BY <2>1 DEF KInv, Swept, Free
  <2>4. Persists' /\ AtInstall'
    BY <2>1 DEF KInv, Persists, AtInstall, Installs
  <2> QED BY <2>2, <2>3, <2>4 DEF KInv
<1> QED BY <1>1, <1>2

\* In the first state memory is what is stored.
LEMMA InitKInv == Init => KInv
<1> SUFFICES ASSUME Init PROVE KInv
  OBVIOUS
<1>1. /\ boot = "up" /\ pc = "idle" /\ row = None /\ active = None /\ DOMAIN queue = {} /\ snap = {}
      /\ phase = stored /\ \A h \in Handlers : hs[h].pc = "idle"
  BY DEF Init, SchedInit, IdleHandler
<1> QED BY <1>1 DEF KInv, NoOthers, SameApps, Kinded, Swept, Persists, AtInstall, Installs

\* KInv is more than what StoredSuffices asks for.
LEMMA KInvSuffices == ASSUME IInv, CInv, KInv PROVE StoredSuffices
<1>1. ASSUME pc = "run", op.kind = "install", op.app \notin tornDown
      PROVE  /\ row # None /\ row.id = op.id
             /\ stored[op.app] \in {"Installing", "NotInstalled"}
  <2>1. op # None /\ active = op /\ op.app \in Apps /\ boot \in {"sweep", "up"}
    BY <1>1 DEF IInv, SlotOwner, TypeOK, Operation, BootQuiet
  <2>2. row # None /\ row.id = op.id
    BY <1>1, <2>1 DEF KInv, AtInstall, CInv, RowOwned
  <2>3. phase[op.app] = "Installing"
    BY <1>1, <2>1 DEF KInv, AtInstall, Installs
  <2>4. op.app \notin Direct
    BY <1>1, <2>1 DEF KInv, Kinded
  <2>5. ~\E h \in Handlers : hs[h].app = op.app /\ hs[h].pc \in {"extract", "write"}
    BY <1>1, <2>4 DEF KInv, Kinded
  <2>6. phase[op.app] = stored[op.app]
    BY <1>1, <2>1, <2>5 DEF KInv, Persists, Installs, Persisting
  <2> QED BY <2>2, <2>3, <2>6
<1>2. ASSUME boot = "up", pc = "idle", \A h \in Handlers : hs[h].pc = "idle"
      PROVE  \A a \in Apps \ tornDown : phase[a] = stored[a]
  BY <1>2 DEF KInv, Persists, Installs, Persisting
<1> QED BY <1>1, <1>2 DEF StoredSuffices

\* A running install survives a crash at any moment, and at rest memory and
\* database agree on the phase of every app that was not torn down: in every
\* history without parameter changes, registration and deregistration in which
\* drivers end by clearing their row.
THEOREM StoreEnough ==
  ASSUME ~Aborts, Requests \cap {"param", "deregister", "register"} = {}
  PROVE  Spec => []StoredSuffices
<1> DEFINE Inv == IInv /\ CInv /\ RInv /\ NoChange /\ SlotServed /\ PInv /\ KInv
<1>1. Init => Inv
  <2>1. Init => NoChange /\ SlotServed
    BY DEF Init, SchedInit, IdleHandler, NoChange, SlotServed
  <2> QED BY <2>1, InitIInv, InitWInv, InitRInv, InitPInv, InitKInv
<1>2. Inv /\ [Next]_vars => Inv'
  <2> SUFFICES ASSUME Inv, [Next]_vars PROVE Inv'
    OBVIOUS
  <2>1. IInv' /\ CInv' /\ RInv' /\ PInv' /\ KInv'
    BY StepIInv, StepCInv, StepRInv, StepPInv, StepKInv
  <2>2. NoChange' /\ SlotServed'
    BY StepServed
  <2> QED BY <2>1, <2>2
<1>3. Inv => StoredSuffices
  BY KInvSuffices
<1> QED BY <1>1, <1>2, <1>3, PTL DEF Spec
=============================================================================
