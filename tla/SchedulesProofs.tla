-------------------------- MODULE SchedulesProofs --------------------------
(***************************************************************************)
(* Scheduled actions: a fire that was stamped is not repeated for the same *)
(* boundary (StampedFiresOnce), and a tick leaves no row behind whose last *)
(* boundary nobody answered (CaughtUp), for every period and any number of *)
(* rows, operations, crashes and minutes.                                  *)
(*                                                                         *)
(* Both rest on what a stamp says: an accepted fire is no later than the   *)
(* stamp of its row (Told), and a stamp that is later than the row's       *)
(* declaration is the time of a fire (Answered).                           *)
(***************************************************************************)
EXTENDS Schedules, TLAPS

-----------------------------------------------------------------------------
(* Boundaries.                                                             *)

\* The last boundary up to t, which LastBoundary is for the clock.
Boundary(t) == (t \div Period) * Period

\* A time lies between its last boundary and the next.
LEMMA BoundaryAround ==
  ASSUME NEW t \in Nat
  PROVE  /\ Boundary(t) \in Nat /\ FindNext(t) \in Nat
         /\ Boundary(t) <= t /\ t < FindNext(t)
<1>1. Period \in Nat /\ Period > 0
  BY TimeAssumption
<1>2. PICK q \in Nat : q = t \div Period
  BY <1>1
<1>3. q * Period <= t /\ t < (q + 1) * Period
  BY <1>1, <1>2
<1> QED BY <1>1, <1>2, <1>3 DEF Boundary, FindNext

\* No later time has an earlier next boundary.
LEMMA NextMonotone ==
  ASSUME NEW s \in Nat, NEW t \in Nat, s <= t
  PROVE  FindNext(s) <= FindNext(t)
<1>1. Period \in Nat /\ Period > 0
  BY TimeAssumption
<1>2. PICK q \in Nat : q = s \div Period
  BY <1>1
<1>3. PICK p \in Nat : p = t \div Period
  BY <1>1
<1>4. q * Period <= s /\ t < (p + 1) * Period
  BY <1>1, <1>2, <1>3
<1>5. q * Period < (p + 1) * Period
  BY <1>1, <1>4
<1>6. q <= p
  BY <1>1, <1>5
<1>7. (q + 1) * Period <= (p + 1) * Period
  BY <1>1, <1>6
<1> QED BY <1>2, <1>3, <1>7 DEF FindNext

\* When no boundary falls between two times, the last one is before both.
LEMMA NoneBetween ==
  ASSUME NEW s \in Nat, NEW t \in Nat, ~Between(s, t)
  PROVE  Boundary(t) <= s
<1>1. Period \in Nat /\ Period > 0
  BY TimeAssumption
<1>2. PICK q \in Nat : q = s \div Period
  BY <1>1
<1>3. PICK p \in Nat : p = t \div Period
  BY <1>1
<1>4. p * Period <= t /\ q * Period <= s
  BY <1>1, <1>2, <1>3
<1>5. t < (q + 1) * Period
  BY <1>1, <1>2 DEF Between, FindNext
<1>6. p * Period < (q + 1) * Period
  BY <1>1, <1>4, <1>5
<1>7. p <= q
  BY <1>1, <1>6
<1>8. p * Period <= q * Period
  BY <1>1, <1>7
<1> QED BY <1>1, <1>3, <1>4, <1>8 DEF Boundary

-----------------------------------------------------------------------------
(* The invariant.                                                          *)

\* The clock has started, and no stamp is ahead of it.
Clocked == now >= Start /\ \A r \in Rows : stamp[r] # Never => stamp[r] <= now

\* A tick looks at rows that are there, and only while it holds the locks.
Looking == IF tick = "rows" THEN todo \subseteq present ELSE todo = {}

\* A recorded fire is one of the past, of a row that is there; an accepted one
\* is no later than the row's stamp.
Told == \A f \in fires :
  /\ f.id < nextId /\ f.at <= now /\ f.row \in present
  /\ f.answer = "accepted" => stamp[f.row] # Never /\ f.at <= stamp[f.row]

\* A stamp that is later than the declaration of its row is the time of a fire.
Answered == \A r \in present :
  stamp[r] # Never => stamp[r] <= since[r] \/ \E f \in fires : f.row = r /\ f.at = stamp[r]

SInv == Clocked /\ Looking /\ Told /\ Answered /\ StampedFiresOnce

LEMMA InitTyped == Init => TypeOK /\ SInv
<1> SUFFICES ASSUME Init PROVE TypeOK /\ SInv
  OBVIOUS
<1>1. Start \in Nat /\ Start = 5 /\ RowApp \in [Rows -> Apps] /\ Never \notin Int
  BY RowAssumption DEF Start, Window
<1>2. stamp \in [Rows -> InitStamps] /\ InitStamps \subseteq {Never, Start}
  BY TimeAssumption DEF Init
<1>3. \A r \in Rows : stamp[r] \in {Never, Start}
  BY <1>2
<1>4. stamp \in [Rows -> Nat \cup {Never}]
  BY <1>1, <1>2
<1>5. TypeOK
  <2>1. active = None /\ token = FALSE /\ queue = <<>> /\ queue \in Seq(Operation)
    BY DEF Init, SchedInit
  <2> QED BY <1>1, <1>4, <2>1 DEF Init, TypeOK, Fire
<1>6. SInv
  BY <1>1, <1>3 DEF Init, SInv, Clocked, Looking, Told, Answered, StampedFiresOnce
<1> QED BY <1>5, <1>6

-----------------------------------------------------------------------------
(* Types.                                                                  *)

\* What the scheduler's answers leave in the slot and in the queue.
SchedOK == active \in Operation \cup {None} /\ token \in BOOLEAN /\ queue \in Seq(Operation)

LEMMA RequestOK ==
  ASSUME SchedOK, NEW o \in Operation, Accept(o) \/ Enqueue(o)
  PROVE  SchedOK'
<1>1. queue \in Seq(Operation) /\ Append(queue, o) \in Seq(Operation)
  BY DEF SchedOK
<1> QED BY <1>1 DEF SchedOK, Accept, Enqueue

LEMMA CompleteOK ==
  ASSUME SchedOK, CompleteCurrent
  PROVE  SchedOK'
<1>1. CASE queue = <<>>
  <2>1. queue' \in Seq(Operation) /\ active' = None /\ token' = FALSE
    BY <1>1 DEF SchedOK, CompleteCurrent
  <2> QED BY <2>1 DEF SchedOK
<1>2. CASE queue # <<>>
  <2>1. Head(queue) \in Operation /\ Tail(queue) \in Seq(Operation)
    BY <1>2 DEF SchedOK
  <2> QED BY <1>2, <2>1 DEF SchedOK, CompleteCurrent
<1> QED BY <1>1, <1>2

\* A fire is of the right type, and so is the operation it asks for.
LEMMA FireOK ==
  ASSUME TypeOK, NEW r \in Rows, NEW answer \in {"accepted", "queued"}
  PROVE  /\ FireOp(r) \in Operation
         /\ [id |-> nextId, row |-> r, at |-> now, answer |-> answer] \in Fire
BY RowAssumption DEF TypeOK, FireOp, Operation, Kinds, Fire

LEMMA FireRowTyped ==
  ASSUME TypeOK, NEW r \in Rows, FireRow(r)
  PROVE  TypeOK'
<1>1. SchedOK'
  BY RequestOK, FireOK DEF TypeOK, SchedOK, FireRow, Reject, schedVars
<1>2. /\ now' = now /\ present' = present /\ since' = since /\ installed' = installed
      /\ check' = check /\ seen' = seen /\ persisted' = persisted /\ up' = up
      /\ crashes' = crashes /\ todo' \subseteq Rows /\ tick' \in {"idle", "rows"}
  BY DEF TypeOK, FireRow, RowDone
<1>3. stamp' \in [Rows -> Nat \cup {Never}] /\ nextId' \in Nat
  BY DEF TypeOK, FireRow, StampFired
<1>4. fires' \subseteq Fire
  <2>1. ASSUME NEW answer \in {"accepted", "queued"}, Record(r, answer) PROVE fires' \subseteq Fire
    <3>1. fires' = fires \cup {[id |-> nextId, row |-> r, at |-> now, answer |-> answer]}
      BY <2>1 DEF Record
    <3>2. [id |-> nextId, row |-> r, at |-> now, answer |-> answer] \in Fire /\ fires \subseteq Fire
      BY FireOK DEF TypeOK
    <3> QED BY <3>1, <3>2
  <2> QED BY <2>1 DEF TypeOK, FireRow
<1> QED BY <1>1, <1>2, <1>3, <1>4 DEF TypeOK, SchedOK

LEMMA SyncTyped ==
  ASSUME TypeOK, NEW a \in Apps, NEW S \in SUBSET RowsOf(a), SyncSchedules(a, S)
  PROVE  TypeOK'
<1>1. S \subseteq Rows
  BY DEF RowsOf
<1>2. /\ present' \subseteq Rows /\ stamp' \in [Rows -> Nat \cup {Never}]
      /\ since' \in [Rows -> Nat] /\ fires' \subseteq Fire
  BY <1>1 DEF TypeOK, SyncSchedules
<1> QED BY <1>2 DEF TypeOK, SyncSchedules, schedVars, tickVars

LEMMA StepTyped ==
  ASSUME TypeOK, [Next]_vars
  PROVE  TypeOK'
<1>1. CASE UNCHANGED vars
  BY <1>1 DEF TypeOK, vars, schedVars, rowVars, tickVars
<1>2. CASE TickSnapshot \/ TickRows
  BY <1>2 DEF TypeOK, TickSnapshot, TickRows, schedVars, rowVars
<1>3. ASSUME NEW r \in Rows, SkipRow(r) PROVE TypeOK'
  BY <1>3 DEF TypeOK, SkipRow, RowDone, schedVars
<1>4. ASSUME NEW r \in Rows, FireRow(r) PROVE TypeOK'
  BY <1>4, FireRowTyped
<1>5. ASSUME NEW a \in Apps, OperatorRequest(a) PROVE TypeOK'
  <2>1. PICK o \in Operation : Accept(o) \/ Enqueue(o)
    BY <1>5 DEF TypeOK, OperatorRequest, Operation, Kinds
  <2>2. SchedOK'
    BY <2>1, RequestOK DEF TypeOK, SchedOK
  <2> QED BY <1>5, <2>2 DEF TypeOK, SchedOK, OperatorRequest, rowVars, tickVars
<1>6. ASSUME NEW a \in Apps, Uninstall(a) \/ Install(a) PROVE TypeOK'
  BY <1>6 DEF TypeOK, Uninstall, Install, schedVars, rowVars, tickVars
<1>7. ASSUME NEW a \in Apps, NEW S \in SUBSET RowsOf(a), SyncSchedules(a, S) PROVE TypeOK'
  BY <1>7, SyncTyped
<1>8. CASE OperationSave
  BY <1>8 DEF TypeOK, OperationSave, schedVars, rowVars, tickVars
<1>9. CASE OperationEnd
  <2>1. SchedOK'
    BY <1>9, CompleteOK DEF TypeOK, SchedOK, OperationEnd
  <2> QED BY <1>9, <2>1 DEF TypeOK, SchedOK, OperationEnd, rowVars, tickVars
<1>10. CASE Advance
  BY <1>10 DEF TypeOK, Advance, schedVars, rowVars, tickVars
<1>11. CASE Crash
  <2>1. queue' = <<>> /\ active' = None /\ token' = FALSE /\ up' = FALSE
    BY <1>11 DEF Crash
  <2>2. queue' \in Seq(Operation)
    BY <2>1
  <2>3. /\ check' = Never /\ tick' = "idle" /\ seen' = {} /\ todo' = {} /\ crashes' = crashes + 1
        /\ UNCHANGED <<now, present, stamp, since, installed, persisted, nextId, fires>>
    BY <1>11 DEF Crash, rowVars
  <2>4. token' \in BOOLEAN /\ up' \in BOOLEAN /\ active' \in Operation \cup {None}
    BY <2>1
  <2>5. check' \in Nat \cup {Never} /\ tick' \in {"idle", "snap", "rows"} /\ crashes' \in Nat
    BY <2>3 DEF TypeOK
  <2> QED BY <2>2, <2>3, <2>4, <2>5 DEF TypeOK
<1>12. CASE Restart
  <2>1. up' = TRUE /\ active' \in Operation \cup {None} /\ persisted' \in Operation \cup {None}
    BY <1>12 DEF TypeOK, Restart
  <2> QED BY <1>12, <2>1 DEF TypeOK, Restart, rowVars, tickVars
<1> QED BY <1>1, <1>2, <1>3, <1>4, <1>5, <1>6, <1>7, <1>8, <1>9, <1>10, <1>11, <1>12 DEF Next

-----------------------------------------------------------------------------
(* The steps.                                                              *)

\* The part of the state the invariant is about.
Noted == <<now, present, stamp, since, fires>>

\* A fire.
LEMMA FireRowInv ==
  ASSUME TypeOK, SInv, NEW r \in Rows, FireRow(r)
  PROVE  SInv'
<1>1. /\ now \in Nat /\ stamp \in [Rows -> Nat \cup {Never}] /\ nextId \in Nat
      /\ fires \subseteq Fire /\ Never \notin Int
  BY RowAssumption DEF TypeOK
<1>2. /\ tick = "rows" /\ r \in todo /\ r \in present /\ Due(r)
      /\ todo' = todo \ {r} /\ tick' = IF todo = {r} THEN "idle" ELSE "rows"
      /\ now' = now /\ present' = present /\ since' = since
  BY DEF SInv, Looking, FireRow, RowDone
<1>3. Clocked' /\ Looking'
  BY <1>1, <1>2 DEF SInv, Clocked, Looking, FireRow, StampFired
<1>4. CASE UNCHANGED <<stamp, fires, nextId>>
  BY <1>2, <1>3, <1>4 DEF SInv, Told, Answered, StampedFiresOnce
<1>5. ASSUME NEW answer \in {"accepted", "queued"}, Record(r, answer), nextId' = nextId + 1,
             IF answer = "accepted" THEN StampFired(r) ELSE UNCHANGED stamp
      PROVE  SInv'
  <2> DEFINE new == [id |-> nextId, row |-> r, at |-> now, answer |-> answer]
  <2>1. fires' = fires \cup {new} /\ new.id = nextId /\ new.row = r /\ new.at = now
        /\ new.answer = answer
    BY <1>5 DEF Record
  <2> HIDE DEF new
  <2>2. /\ answer = "accepted" => stamp'[r] = now
        /\ answer # "accepted" => stamp'[r] = stamp[r]
        /\ \A q \in Rows : q # r => stamp'[q] = stamp[q]
    BY <1>1, <1>5 DEF StampFired
  <2>3. \A f \in fires : /\ f.id \in Nat /\ f.at \in Nat /\ f.row \in Rows /\ f.id < nextId
                         /\ f.at <= now /\ f.row \in present
    BY <1>1 DEF SInv, Told, Fire
  <2>4. Told'
    <3>1. ASSUME NEW f \in fires, f.answer = "accepted"
          PROVE  stamp'[f.row] # Never /\ f.at <= stamp'[f.row]
      BY <1>1, <2>2, <2>3, <3>1 DEF SInv, Told
    <3>2. new.answer = "accepted" => stamp'[new.row] # Never /\ new.at <= stamp'[new.row]
      BY <1>1, <2>1, <2>2
    <3> QED BY <1>1, <1>2, <1>5, <2>1, <2>3, <3>1, <3>2 DEF Told
  <2>5. Answered'
    <3>1. answer = "accepted" => \E f \in fires' : f.row = r /\ f.at = stamp'[r]
      BY <2>1, <2>2
    <3>2. \A q \in present : stamp'[q] = stamp[q] \/ (q = r /\ answer = "accepted")
      BY <2>2 DEF TypeOK
    <3> QED BY <1>2, <2>1, <3>1, <3>2 DEF SInv, Answered
  <2>6. StampedFiresOnce'
    <3>1. ASSUME NEW f \in fires, f.row = r, f.answer = "accepted" PROVE Between(f.at, now)
      <4>1. stamp[r] \in Nat /\ f.at <= stamp[r] /\ f.at \in Nat
        BY <1>1, <2>3, <3>1 DEF SInv, Told
      <4>2. FindNext(stamp[r]) <= now
        BY <1>1, <1>2, <4>1 DEF Due, Base
      <4>3. FindNext(f.at) <= FindNext(stamp[r])
        BY <4>1, NextMonotone
      <4> QED BY <1>1, <4>1, <4>2, <4>3, BoundaryAround DEF Between
    <3>2. \A f, g \in fires : f.row = g.row /\ f.id < g.id /\ f.answer = "accepted"
                                => Between(f.at, g.at)
      BY DEF SInv, StampedFiresOnce
    <3>3. ~(new.id < new.id) /\ \A g \in fires : ~(new.id < g.id)
      BY <1>1, <2>1, <2>3
    <3> SUFFICES ASSUME NEW f \in fires', NEW g \in fires',
                        f.row = g.row, f.id < g.id, f.answer = "accepted"
                 PROVE  Between(f.at, g.at)
      BY <1>2 DEF StampedFiresOnce, Between, FindNext
    <3>4. f \in fires
      <4>1. f \in fires \/ f = new
        BY <2>1
      <4>2. g \in fires \/ g = new
        BY <2>1
      <4>3. f # new
        BY <3>3, <4>2
      <4> QED BY <4>1, <4>3
    <3>5. CASE g = new
      BY <2>1, <3>1, <3>4, <3>5
    <3>6. CASE g \in fires
      BY <3>2, <3>4, <3>6
    <3> QED BY <2>1, <3>5, <3>6
  <2> QED BY <1>3, <2>4, <2>5, <2>6 DEF SInv
<1> QED BY <1>4, <1>5 DEF FireRow

\* A change of the definition: the fires of a dropped row go with it.
LEMMA SyncInv ==
  ASSUME TypeOK, SInv, NEW a \in Apps, NEW S \in SUBSET RowsOf(a), SyncSchedules(a, S)
  PROVE  SInv'
<1> DEFINE dropped == {r \in present : RowApp[r] = a} \ S
           added == S \ present
<1>1. /\ present' = (present \ dropped) \cup added
      /\ stamp' = [r \in Rows |-> IF r \in dropped \cup added THEN Never ELSE stamp[r]]
      /\ since' = [r \in Rows |-> IF r \in added THEN now ELSE since[r]]
      /\ fires' = {f \in fires : f.row \notin dropped}
      /\ now' = now /\ nextId' = nextId /\ tick' = tick /\ todo' = todo /\ tick # "rows"
  BY DEF SyncSchedules, tickVars, Unlocked
<1>2. dropped \subseteq present /\ added \cap present = {} /\ present \subseteq Rows
  BY DEF TypeOK
<1> HIDE DEF dropped, added
<1>3. \A r \in Rows : stamp'[r] # Never =>
        r \notin dropped /\ r \notin added /\ stamp'[r] = stamp[r] /\ since'[r] = since[r]
  BY <1>1
<1>4. \A f \in fires' : f \in fires /\ f.row \in present /\ f.row \notin dropped /\ f.row \notin added
  BY <1>1, <1>2 DEF SInv, Told
<1>5. Clocked' /\ Looking'
  BY <1>1, <1>3 DEF SInv, Clocked, Looking
<1>6. Told'
  BY <1>1, <1>2, <1>4 DEF SInv, Told
<1>7. Answered'
  <2> SUFFICES ASSUME NEW r \in present', stamp'[r] # Never
               PROVE  stamp'[r] <= since'[r] \/ \E f \in fires' : f.row = r /\ f.at = stamp'[r]
    BY DEF Answered
  <2>1. r \in Rows /\ r \in present /\ r \notin dropped /\ r \notin added
    BY <1>1, <1>2, <1>3 DEF RowsOf, added
  <2>2. stamp[r] <= since[r] \/ \E f \in fires : f.row = r /\ f.at = stamp[r]
    BY <1>3, <2>1 DEF SInv, Answered
  <2> QED BY <1>1, <1>3, <2>1, <2>2
<1>8. StampedFiresOnce'
  BY <1>1, <1>4 DEF SInv, StampedFiresOnce, Between, FindNext
<1> QED BY <1>5, <1>6, <1>7, <1>8 DEF SInv

LEMMA StepInv ==
  ASSUME TypeOK, SInv, [Next]_vars
  PROVE  SInv'
<1>1. ASSUME UNCHANGED Noted, nextId' \in Nat, nextId <= nextId',
             tick' = "rows" => todo' \subseteq present, tick' # "rows" => todo' = {}
      PROVE  SInv'
  <2>1. \A f \in fires : f.id \in Nat /\ f.id < nextId
    BY DEF TypeOK, SInv, Told, Fire
  <2> QED BY <1>1, <2>1 DEF TypeOK, SInv, Clocked, Looking, Told, Answered, StampedFiresOnce,
                            Between, FindNext, Noted
<1>2. CASE UNCHANGED vars
  BY <1>1, <1>2 DEF vars, rowVars, tickVars, Noted, TypeOK, SInv, Looking
<1>3. CASE TickSnapshot \/ TickRows
  BY <1>1, <1>3 DEF TickSnapshot, TickRows, rowVars, Noted, TypeOK, SInv, Looking
<1>4. ASSUME NEW r \in Rows, SkipRow(r) PROVE SInv'
  BY <1>1, <1>4 DEF SkipRow, RowDone, Noted, TypeOK, SInv, Looking
<1>5. ASSUME NEW r \in Rows, FireRow(r) PROVE SInv'
  BY <1>5, FireRowInv
<1>6. ASSUME NEW a \in Apps, OperatorRequest(a) \/ Uninstall(a) \/ Install(a) PROVE SInv'
  BY <1>1, <1>6 DEF OperatorRequest, Uninstall, Install, rowVars, tickVars, Noted, TypeOK, SInv,
                    Looking
<1>7. ASSUME NEW a \in Apps, NEW S \in SUBSET RowsOf(a), SyncSchedules(a, S) PROVE SInv'
  BY <1>7, SyncInv
<1>8. CASE OperationSave \/ OperationEnd
  BY <1>1, <1>8 DEF OperationSave, OperationEnd, rowVars, tickVars, Noted, TypeOK, SInv, Looking
<1>9. CASE Advance
  <2>1. /\ now \in Nat /\ now' = now + 1 /\ \A f \in fires : f.at \in Nat
        /\ \A r \in Rows : stamp[r] # Never => stamp[r] \in Nat
    BY <1>9 DEF Advance, TypeOK, Fire
  <2>2. Start \in Nat
    BY DEF Start, Window
  <2> QED BY <1>9, <2>1, <2>2 DEF Advance, rowVars, tickVars, SInv, Clocked, Looking, Told, Answered,
                             StampedFiresOnce, Between, FindNext, TypeOK
<1>10. CASE Crash \/ Restart
  BY <1>1, <1>10 DEF Crash, Restart, rowVars, tickVars, Noted, TypeOK, SInv, Looking
<1> QED BY <1>2, <1>3, <1>4, <1>5, <1>6, <1>7, <1>8, <1>9, <1>10 DEF Next

-----------------------------------------------------------------------------
(* The theorems.                                                           *)

\* r[schedule.catch-up] "fires exactly once": for any number of rows, operations,
\* crashes and minutes and for every period, a boundary that an accepted fire has
\* answered is answered by no later fire of that row (check_due_schedules,
\* upsert_schedule_fired).
THEOREM FiresOnce == Spec => []StampedFiresOnce
<1>1. Init => TypeOK /\ SInv
  BY InitTyped
<1>2. TypeOK /\ SInv /\ [Next]_vars => (TypeOK /\ SInv)'
  BY StepTyped, StepInv
<1>3. TypeOK /\ SInv => StampedFiresOnce
  BY DEF SInv
<1> QED BY <1>1, <1>2, <1>3, PTL DEF Spec

\* What a tick does with the row it is done with.
AllAnswered ==
  \A r \in Rows :
     /\ r \in todo /\ r \notin todo' /\ up'
     /\ RowApp[r] \in seen /\ ~HasOperationFor(RowApp[r])
     /\ LastBoundary > since[r]
     /\ stamp[r] = Never => LastBoundary > now - Window
     => \E f \in fires' : f.row = r /\ f.at >= LastBoundary

LEMMA StepAnswers ==
  ASSUME TypeOK, SInv, [Next]_vars
  PROVE  [AllAnswered]_vars
<1> SUFFICES ASSUME Next, NEW r \in Rows, r \in todo, r \notin todo', up',
                    RowApp[r] \in seen, ~HasOperationFor(RowApp[r]), LastBoundary > since[r],
                    stamp[r] = Never => LastBoundary > now - Window
             PROVE  \E f \in fires' : f.row = r /\ f.at >= LastBoundary
  BY DEF AllAnswered
<1>1. /\ now \in Nat /\ now >= 5 /\ stamp[r] \in Nat \cup {Never} /\ since[r] \in Nat
      /\ Window = 5 /\ Never \notin Int /\ tick = "rows" /\ r \in present
  BY RowAssumption DEF TypeOK, SInv, Clocked, Looking, Window, Start
<1>2. LastBoundary = Boundary(now) /\ LastBoundary \in Nat /\ LastBoundary <= now
  BY <1>1, BoundaryAround DEF LastBoundary, Boundary
<1>3. ASSUME NEW answer, Record(r, answer) PROVE \E f \in fires' : f.row = r /\ f.at >= LastBoundary
  <2> DEFINE new == [id |-> nextId, row |-> r, at |-> now, answer |-> answer]
  <2>1. new \in fires' /\ new.row = r /\ new.at = now
    BY <1>3 DEF Record
  <2> HIDE DEF new
  <2> QED BY <1>1, <1>2, <2>1
<1>4. SkipRow(r) \/ FireRow(r)
  BY <1>1 DEF Next, TickSnapshot, TickRows, SkipRow, FireRow, RowDone, OperatorRequest, Uninstall,
              Install, SyncSchedules, OperationSave, OperationEnd, Advance, Crash, Restart, tickVars
<1>5. CASE FireRow(r)
  BY <1>3, <1>5 DEF FireRow, Reject
<1>6. CASE SkipRow(r)
  <2>1. ~Between(Base(r), now) /\ fires' = fires
    BY <1>6 DEF SkipRow, Due, Between
  <2>2. Base(r) \in Nat
    BY <1>1 DEF Base
  <2>3. LastBoundary <= Base(r)
    BY <1>1, <1>2, <2>1, <2>2, NoneBetween
  <2>4. stamp[r] # Never /\ LastBoundary <= stamp[r] /\ stamp[r] \in Nat
    BY <1>1, <1>2, <2>3 DEF Base
  <2>5. PICK f \in fires : f.row = r /\ f.at = stamp[r]
    BY <1>1, <1>2, <2>4 DEF SInv, Answered
  <2> QED BY <1>2, <2>1, <2>4, <2>5
<1> QED BY <1>4, <1>5, <1>6

\* r[schedule.catch-up]: for any number of rows, operations, crashes and minutes
\* and for every period, a tick that is done with a row of an idle installed app
\* leaves its last boundary answered (check_due_schedules).
THEOREM CatchesUp == Spec => CaughtUp
<1>1. Init => TypeOK /\ SInv
  BY InitTyped
<1>2. TypeOK /\ SInv /\ [Next]_vars => (TypeOK /\ SInv)'
  BY StepTyped, StepInv
<1>3. TypeOK /\ SInv /\ [Next]_vars => [AllAnswered]_vars
  BY StepAnswers
<1>4. Spec => [][AllAnswered]_vars
  BY <1>1, <1>2, <1>3, PTL DEF Spec
<1> QED BY <1>4 DEF CaughtUp, AllAnswered
=============================================================================
