------------------------------- MODULE Replay -------------------------------
(***************************************************************************)
(* One operation driven by run_operation_loop: the action's closure is run *)
(* from its start on every pass, the calls of earlier passes are answered  *)
(* from the action log by position, a barrier that does not hold ends the  *)
(* pass, and the loop sleeps on the cancel token until the next one.       *)
(*                                                                         *)
(* A closure is a sequence of calls.  The fields of a call are             *)
(*   op     which rt.* surface: start, query, warm, signal, exec, write,   *)
(*          call (a sub-action), stop, restart, or await (a barrier)       *)
(*   res    the resource it names                                          *)
(*   lit    the literal the log must repeat (signal or sub-action name)    *)
(*   on     for await, the position of the call whose Started it is on     *)
(*   state  for await, the state waited for                                *)
(*   dl     for await and stop, the deadline, or None                      *)
(*   catch  whether the call stands in a try block with an empty handler   *)
(* Time is kept as ages: what the code computes as now - started_at.       *)
(***************************************************************************)
EXTENDS Integers, Sequences, FiniteSets

CONSTANTS
  None,
  Resources,    \* the resources a closure may name
  Dynamic,      \* those defined inside the closure
  Install,      \* the operation is an install: its app is in Installing
  Scripts,      \* the closures the action may have had, one per edit
  Answers,      \* what an exec or a sub-action's parameters may come to
  MaxAge,       \* bound: ages beyond it are not told apart
  MaxBumps,     \* bound: restarts counted per call
  MaxCrashes    \* bound: crashes of the daemon

Ops == {"start", "query", "warm", "signal", "exec", "write", "call", "stop",
        "restart", "await"}
States == {"Pending", "Ready", "Terminated"}

ASSUME BoundsAssumption ==
  /\ MaxAge \in Nat /\ MaxBumps \in Nat /\ MaxCrashes \in Nat
  /\ Dynamic \subseteq Resources /\ Install \in BOOLEAN

\* A barrier is on an earlier call that returned a Started: a call of these
\* kinds, and one whose exception would have ended the closure.
Anchors == {"start", "query", "warm"}

ASSUME ScriptsAssumption ==
  \A s \in Scripts :
    /\ s \in Seq([op : Ops, res : Resources, lit : STRING, on : Nat, state : States,
                  dl : (1..MaxAge) \cup {None}, catch : BOOLEAN])
    /\ \A k \in 1..Len(s) : s[k].op = "await" =>
         /\ s[k].on \in 1..(k - 1)
         /\ s[s[k].on].op \in Anchors /\ ~s[s[k].on].catch

VARIABLES
  script,     \* the closure, from the definition in the database
  log,        \* action_log rows of the operation, by call_index
  row,        \* the current_operation row is there
  flagged,    \* its cancel_requested column
  dyn,        \* resources with a dynamic_resources row of the operation
  mode,       \* where the driver is
  ip,         \* the call the closure makes next
  callIndex,  \* ReplayContext.call_index
  pending,    \* ReplayContext.pending
  seqs,       \* ReplayContext.barrier_seq
  origin,     \* origin_index of the Started each call returned in this pass
  hit,        \* a barrier was hit in this pass
  result,     \* what run_operation returns
  desired,    \* resources the reconciler is to bring up
  token,      \* CancelToken.requested
  rpc,        \* where cancel_action is
  world,      \* lifecycle state the oracle reports for each resource
  crashes,    \* crashes so far
  edited,     \* history: the closure changed since the operation began
  delivered,  \* history: how often each effect was carried out, by literal
  told,       \* history: the answer each call last gave the closure
  resolved,   \* history: barriers whose condition held, or whose deadline ran out
  waits,      \* history: how long ago each barrier began to wait
  orphaned    \* history: containers the end-of-operation cleanup gave up on

durable == <<log, row, flagged, dyn>>
context == <<ip, callIndex, pending, seqs, origin, hit>>
cancel == <<token, rpc>>
history == <<edited, delivered, told, resolved, waits, orphaned>>
vars == <<script, durable, mode, context, result, desired, cancel, world,
          crashes, history>>

Positions(s) == 1..Len(s)
Literals == UNION {{s[k].lit : k \in Positions(s)} : s \in Scripts}
Awaiting(c) == c.op \in {"await", "stop"}
Effect(c) == c.op \in {"signal", "exec", "write"}
Answering(c) == c.op \in {"exec", "call"}
Logged(c) == c.op \notin {"await", "restart"}
With(f, x, v) == [y \in DOMAIN f \cup {x} |-> IF y = x THEN v ELSE f[y]]

-----------------------------------------------------------------------------
(* The log.                                                                *)

\* has_reached compares the order of the lifecycle states.
Ordinal == [Pending |-> 0, Ready |-> 3, Terminated |-> 5]
HasReached(r, s) == Ordinal[world[r]] >= Ordinal[s]

\* load_action_log: the committed entries, ordered by call_index.
LogLength == Cardinality(DOMAIN log)
Committed(p) ==
  log[CHOOSE i \in DOMAIN log : Cardinality({j \in DOMAIN log : j < i}) = p]

IsReplaying == callIndex < LogLength

Barrier(e, q) == IF q \in DOMAIN e.bars THEN e.bars[q] ELSE None

\* ActionLogEntry::set_barrier.
SetBarrier(e, q, b) ==
  [e EXCEPT !.bars = With(@, q, b)]

\* The entry of this pass for call_index i.
PendingAt(i) == {k \in 1..Len(pending) : pending[k].at = i}

\* Faulty form: every pass restarts the wait.
KeptAgeNot(b, state, age) == age

\* record_at_anchor's started_at: an earlier start for this barrier and state
\* is kept.
KeptAge(b, state, age) == IF b # None /\ b.state = state THEN b.age ELSE age

\* record_at_anchor: this pass's entry is corrected in place, a committed one
\* is copied with the barrier changed.
RecordAtAnchor(i, q, state, sat) ==
  LET Rec(e) == SetBarrier(e, q, [state |-> state, sat |-> sat,
                                  age |-> KeptAge(Barrier(e, q), state, 0)])
  IN pending' = IF PendingAt(i) # {}
                THEN [k \in 1..Len(pending) |->
                       IF k \in PendingAt(i) THEN Rec(pending[k]) ELSE pending[k]]
                ELSE Append(pending, Rec(log[i]))

\* snapshot_all_apps with no active_progress: an installed app's whole
\* definition is desired, an installing app's nothing.
Steady == IF Install THEN {} ELSE Resources \ Dynamic

-----------------------------------------------------------------------------
(* A pass.                                                                 *)

Init ==
  /\ script \in Scripts
  /\ log = <<>> /\ row = TRUE /\ flagged = FALSE /\ dyn = {}
  /\ mode = "begin" /\ ip = 1 /\ callIndex = 0 /\ pending = <<>> /\ seqs = <<>>
  /\ origin = <<>> /\ hit = FALSE /\ result = None /\ desired = Steady
  /\ token = FALSE /\ rpc = "idle"
  /\ world = [r \in Resources |-> "Pending"]
  /\ crashes = 0 /\ edited = FALSE
  /\ delivered = [l \in Literals |-> 0]
  /\ told = <<>> /\ resolved = {} /\ waits = <<>>
  /\ orphaned = {}

\* The start of run_operation: the log is loaded, a fresh ReplayContext made
\* and the thread-local barrier flag cleared; then the closure is called.
BeginPass ==
  /\ mode = "begin"
  /\ mode' = "pass" /\ ip' = 1 /\ callIndex' = 0 /\ pending' = <<>>
  /\ seqs' = <<>> /\ origin' = <<>> /\ hit' = FALSE /\ result' = None
  /\ UNCHANGED <<script, durable, desired, cancel, world, crashes, history>>

Call == script[ip]
Calls(ops) == mode = "pass" /\ ip \in Positions(script) /\ Call.op \in ops

Proceed == ip' = ip + 1 /\ UNCHANGED <<mode, result>>

\* An exception ends the pass unless the closure catches it.
Throw(e) ==
  IF Call.catch THEN Proceed
  ELSE mode' = "flush" /\ result' = e /\ UNCHANGED ip

\* Faulty form: only the call that hit the barrier throws it.
HitPendingNot == FALSE

\* is_barrier_hit_pending: once a barrier was hit in this pass, the calls that
\* follow it throw it again, even when the closure caught it.
HitPending == hit

Entry(c, ans) == [at |-> callIndex, kind |-> c.op, res |-> c.res, lit |-> c.lit,
                  ans |-> ans, bars |-> <<>>]

\* Faulty form: a changed literal at this position counts as replayed.
MatchesKind(c) == Committed(callIndex).kind = c.op

\* replay_step: the entry at this position must be of the call's kind and,
\* for a literal that cannot change between passes, carry it.
Matches(c) ==
  LET e == Committed(callIndex)
  IN e.kind = c.op /\ (c.op \in {"signal", "call"} => e.lit = c.lit)

\* claim_log_position, after do_start_or_query, do_warm_certs or
\* do_warm_images: replayed by position, or recorded.
ClaimLogPosition(c) ==
  \/ /\ IsReplaying /\ ~Matches(c)
     /\ Throw("Diverged") /\ UNCHANGED <<callIndex, pending, origin>>
  \/ /\ IsReplaying => Matches(c)
     /\ callIndex' = callIndex + 1
     /\ origin' = With(origin, ip, callIndex)
     /\ pending' = IF IsReplaying THEN pending ELSE Append(pending, Entry(c, None))
     /\ Proceed

\* What start, query and warm have in common: no cancel check.
Claim ==
  /\ \/ HitPending /\ Throw("Suspended") /\ UNCHANGED <<callIndex, pending, origin>>
     \/ ~HitPending /\ ClaimLogPosition(Call)
  /\ UNCHANGED <<script, log, row, flagged, seqs, hit, desired, cancel, world,
                 crashes, history>>

\* The rows of dynamic resources are inserted before the barrier flag is
\* looked at.
Start ==
  /\ Calls({"start", "query"})
  /\ dyn' = dyn \cup (Dynamic \cap {Call.res})
  /\ Claim

\* do_warm_certs and do_warm_images.
Warm == Calls({"warm"}) /\ Claim /\ UNCHANGED dyn

\* do_signal, do_exec, do_write and resolve_call_params, once they got past
\* their flag checks and are making the call for the first time.
Deliver(c, ans) ==
  /\ delivered' = IF Effect(c) THEN [delivered EXCEPT ![c.lit] = @ + 1] ELSE delivered
  /\ pending' = Append(pending, Entry(c, ans))
  /\ callIndex' = callIndex + 1
  /\ told' = IF Answering(c) THEN With(told, ip, ans) ELSE told
  /\ Proceed

\* Faulty form: the answer is asked for again.
RecoverLive(c) ==
  /\ Matches(c)
  /\ callIndex' = callIndex + 1
  /\ \E ans \in Answers : told' = IF Answering(c) THEN With(told, ip, ans) ELSE told
  /\ Proceed
  /\ UNCHANGED <<delivered, pending>>

\* A committed entry stands for the call: nothing is done again, and an exec
\* or a sub-action answers what it answered then.
Recover(c) ==
  /\ Matches(c)
  /\ callIndex' = callIndex + 1
  /\ told' = IF Answering(c) THEN With(told, ip, Committed(callIndex).ans) ELSE told
  /\ Proceed
  /\ UNCHANGED <<delivered, pending>>

\* do_exec and recover_recorded_params give up after they took the position.
Diverge(c) ==
  /\ ~Matches(c)
  /\ callIndex' = callIndex + (IF \/ c.op = "exec"
                                  \/ c.op = "call" /\ Committed(callIndex).kind = "call"
                               THEN 1 ELSE 0)
  /\ Throw("Diverged")
  /\ UNCHANGED <<delivered, pending, told>>

\* A call that is made once: thrown again behind a barrier, refused after a
\* cancel, answered from the log, or made now, which may fail.
OneShot(stopped, refused, fails) ==
  /\ LET c == Call
         stays == UNCHANGED <<callIndex, pending, delivered, told>>
     IN \/ stopped /\ Throw("Suspended") /\ stays
        \/ ~stopped /\ refused /\ Throw("Cancelled") /\ stays
        \/ ~stopped /\ ~refused /\ IsReplaying /\ (Recover(c) \/ Diverge(c))
        \/ /\ ~stopped /\ ~refused /\ ~IsReplaying
           /\ \/ \E ans \in Answers : Deliver(c, IF Answering(c) THEN ans ELSE None)
              \/ fails /\ Throw("Failed") /\ stays
  /\ UNCHANGED <<script, durable, seqs, origin, hit, desired, cancel, world,
                 crashes, edited, resolved, waits, orphaned>>

\* A signal checks only the barrier flag and ignores the error of its delivery,
\* a sub-action call checks no flag.
Signal == Calls({"signal"}) /\ OneShot(HitPending, FALSE, FALSE)
Exec == Calls({"exec"}) /\ OneShot(HitPending, token, TRUE)
Write == Calls({"write"}) /\ OneShot(HitPending, token, TRUE)
CallAction == Calls({"call"}) /\ OneShot(FALSE, FALSE, TRUE)

-----------------------------------------------------------------------------
(* Barriers.                                                               *)

\* The barrier's own record: this pass's entry first, else the committed one.
AnchorRecord(i, q) ==
  IF PendingAt(i) # {} THEN Barrier(pending[CHOOSE k \in PendingAt(i) : TRUE], q)
  ELSE IF i \in DOMAIN log THEN Barrier(log[i], q) ELSE None

Expired(dl, age) == dl # None /\ age # None /\ age >= dl

\* check_barrier, past its flag checks: an entry that says the barrier was
\* satisfied is believed, then the world is asked, then the deadline.
CheckBarrier(c) ==
  LET i == origin[c.on]
      q == IF i \in DOMAIN seqs THEN seqs[i] ELSE 0
      said == IF i \in DOMAIN log THEN Barrier(log[i], q) ELSE None
      own == AnchorRecord(i, q)
      waited == own # None /\ own.state = c.state /\ ~own.sat
  IN /\ seqs' = With(seqs, i, q + 1)
     /\ \/ /\ said # None /\ said.state = c.state /\ said.sat
           /\ Proceed /\ UNCHANGED <<pending, hit, resolved, waits>>
        \/ /\ ~(said # None /\ said.state = c.state /\ said.sat)
           /\ \/ /\ HasReached(c.res, c.state)
                 /\ RecordAtAnchor(i, q, c.state, TRUE)
                 /\ resolved' = resolved \cup {ip}
                 /\ Proceed /\ UNCHANGED <<hit, waits>>
              \/ /\ ~HasReached(c.res, c.state) /\ waited /\ Expired(c.dl, own.age)
                 /\ resolved' = resolved \cup {ip}
                 /\ Throw("Expired") /\ UNCHANGED <<pending, hit, waits>>
              \/ /\ ~HasReached(c.res, c.state)
                 /\ ~(waited /\ Expired(c.dl, own.age))
                 /\ RecordAtAnchor(i, q, c.state, FALSE)
                 /\ hit' = TRUE
                 /\ waits' = IF ip \in DOMAIN waits THEN waits ELSE With(waits, ip, 0)
                 /\ Throw("Suspended") /\ UNCHANGED resolved

Await ==
  /\ Calls({"await"})
  /\ LET stays == UNCHANGED <<pending, seqs, hit, resolved, waits>>
     IN \/ HitPending /\ Throw("Suspended") /\ stays
        \/ ~HitPending /\ token /\ Throw("Cancelled") /\ stays
        \/ ~HitPending /\ ~token /\ CheckBarrier(Call)
  /\ UNCHANGED <<script, durable, callIndex, origin, desired, cancel, world, crashes,
                 edited, delivered, told, orphaned>>

\* do_stop's started_at: the first entry over the same resources, committed
\* before pending, with an unsatisfied Terminated record as its first barrier.
StopWaits(e, r) ==
  LET b == Barrier(e, 0) IN e.res = r /\ b # None /\ b.state = "Terminated" /\ ~b.sat
StopAge(r) ==
  LET old == {i \in DOMAIN log : StopWaits(log[i], r)}
      new == {k \in 1..Len(pending) : StopWaits(pending[k], r)}
      First(S) == CHOOSE x \in S : \A y \in S : x <= y
  IN IF old # {} THEN Barrier(log[First(old)], 0).age
     ELSE IF new # {} THEN Barrier(pending[First(new)], 0).age
     ELSE None

\* do_stop, past its flag checks.  The position is taken, and the entry
\* pushed, whether or not the resources have terminated.
DoStop(c) ==
  LET e == Committed(callIndex)
      said == IF IsReplaying THEN Barrier(e, 0) ELSE None
      done == said # None /\ said.state = "Terminated" /\ said.sat
      gone == HasReached(c.res, "Terminated")
      age == StopAge(c.res)
      entry == SetBarrier(Entry(c, None), 0,
                 [state |-> "Terminated", sat |-> gone,
                  age |-> IF said # None THEN said.age ELSE 0])
      stays == UNCHANGED <<callIndex, pending, hit, resolved, waits>>
  IN \/ /\ IsReplaying /\ e.kind # "stop"
        /\ Throw("Diverged") /\ stays
     \/ /\ IsReplaying /\ e.kind = "stop" /\ done
        /\ callIndex' = callIndex + 1
        /\ Proceed /\ UNCHANGED <<pending, hit, resolved, waits>>
     \/ /\ IsReplaying => e.kind = "stop" /\ ~done
        /\ \/ /\ ~gone /\ Expired(c.dl, age)
              /\ resolved' = resolved \cup {ip}
              /\ Throw("Expired") /\ UNCHANGED <<callIndex, pending, hit, waits>>
           \/ /\ gone \/ ~Expired(c.dl, age)
              /\ callIndex' = callIndex + 1
              /\ pending' = Append(pending, entry)
              /\ \/ /\ gone /\ resolved' = resolved \cup {ip}
                    /\ Proceed /\ UNCHANGED <<hit, waits>>
                 \/ /\ ~gone /\ hit' = TRUE
                    /\ waits' = IF ip \in DOMAIN waits THEN waits ELSE With(waits, ip, 0)
                    /\ Throw("Suspended") /\ UNCHANGED resolved

Stop ==
  /\ Calls({"stop"})
  /\ LET stays == UNCHANGED <<callIndex, pending, hit, resolved, waits>>
     IN \/ HitPending /\ Throw("Suspended") /\ stays
        \/ ~HitPending /\ token /\ Throw("Cancelled") /\ stays
        \/ ~HitPending /\ ~token /\ DoStop(Call)
  /\ UNCHANGED <<script, durable, seqs, origin, desired, cancel, world, crashes,
                 edited, delivered, told, orphaned>>

\* rt.restart bumps the restart generation and looks at neither the log nor
\* the flags.
Restart ==
  /\ Calls({"restart"})
  /\ delivered' = [delivered EXCEPT ![Call.lit] = IF @ < MaxBumps THEN @ + 1 ELSE @]
  /\ Proceed
  /\ UNCHANGED <<script, durable, callIndex, pending, seqs, origin, hit, desired,
                 cancel, world, crashes, edited, told, resolved, waits, orphaned>>

Return ==
  /\ mode = "pass" /\ ip > Len(script)
  /\ mode' = "flush" /\ result' = "Completed"
  /\ UNCHANGED <<script, durable, context, desired, cancel, world, crashes, history>>

-----------------------------------------------------------------------------
(* The end of a pass.                                                      *)

\* DbActionLog::commit: one INSERT OR REPLACE per pending entry.
FlushOne ==
  /\ mode = "flush" /\ pending # <<>>
  /\ log' = With(log, Head(pending).at, Head(pending))
  /\ pending' = Tail(pending)
  /\ UNCHANGED <<script, row, flagged, dyn, mode, ip, callIndex, seqs, origin, hit,
                 result, desired, cancel, world, crashes, history>>

\* OperationProgress::from_log: the last start or stop of a resource decides.
FromLog ==
  LET Moves(r) == {i \in DOMAIN log : log[i].res = r /\ log[i].kind \in {"start", "stop"}}
  IN {r \in Resources : \E i \in Moves(r) :
        log[i].kind = "start" /\ \A j \in Moves(r) : j <= i}

\* Faulty form: the pass ends without waiting for the commit.
PublishEarly ==
  /\ mode = "flush"
  /\ desired' = FromLog /\ pending' = <<>>
  /\ mode' = IF result = "Suspended" THEN "suspended" ELSE "ended"
  /\ UNCHANGED <<script, durable, ip, callIndex, seqs, origin, hit, result, cancel,
                 world, crashes, history>>

\* The progress is published and the reconciler woken.
Publish ==
  /\ mode = "flush" /\ pending = <<>>
  /\ desired' = FromLog
  /\ mode' = IF result = "Suspended" THEN "suspended" ELSE "ended"
  /\ UNCHANGED <<script, durable, context, result, cancel, world, crashes, history>>

\* Faulty form: the rows of the dynamic resources go with the operation's.
ConcludeAll ==
  /\ mode = "ended"
  /\ row' = FALSE /\ flagged' = FALSE /\ dyn' = {}
  /\ mode' = "concluded"
  /\ UNCHANGED <<script, log, context, result, desired, cancel, world, crashes, history>>

\* Completed, Failed or Cancelled: the row goes, and its cancel flag with it.
Conclude ==
  /\ mode = "ended"
  /\ row' = FALSE /\ flagged' = FALSE
  /\ mode' = "concluded"
  /\ UNCHANGED <<script, log, dyn, context, result, desired, cancel, world, crashes,
                 history>>

\* cleanup_dynamic_resources puts a progress in place that only stops the
\* operation's dynamic resources, so nothing else is desired meanwhile ...
BeginCleanup ==
  /\ mode = "concluded"
  /\ mode' = "cleanup" /\ desired' = IF dyn = {} THEN desired ELSE {}
  /\ UNCHANGED <<script, durable, context, result, cancel, world, crashes, history>>

\* ... and deletes their rows when all have terminated, or after 60 s.
EndCleanup ==
  /\ mode = "cleanup"
  /\ dyn' = {} /\ mode' = "over"
  /\ desired' = IF result = "Completed" THEN Resources \ Dynamic ELSE Steady
  /\ orphaned' = {r \in dyn : ~HasReached(r, "Terminated")}
  /\ UNCHANGED <<script, log, row, flagged, context, result, cancel, world, crashes,
                 edited, delivered, told, resolved, waits>>

-----------------------------------------------------------------------------
(* CancelToken.  wait_for holds the mutex from its second check until the  *)
(* condition variable releases it; request stores the flag before it locks *)

Sleeping == {"suspended", "locking", "held", "waiting"}

SleepStep(m) ==
  /\ mode' = m
  /\ UNCHANGED <<script, durable, context, result, desired, cancel, world, crashes,
                 history>>

WaitCheck == mode = "suspended" /\ SleepStep(IF token THEN "begin" ELSE "locking")
WaitLock == mode = "locking" /\ SleepStep(IF token THEN "begin" ELSE "held")
WaitBlock == mode = "held" /\ SleepStep("waiting")
WaitTimeout == mode = "waiting" /\ SleepStep("begin")

\* cancel_action: request() stores the flag in memory ...
RequestStore ==
  /\ rpc = "idle" /\ mode \notin {"down", "over"}
  /\ token' = TRUE /\ rpc' = "stored"
  /\ UNCHANGED <<script, durable, mode, context, result, desired, world, crashes, history>>

\* Faulty form: request() notifies without the mutex.
MutexIgnored == TRUE

\* ... locks the mutex and notifies;
MutexFree == mode # "held"
RequestNotify ==
  /\ rpc = "stored" /\ MutexFree
  /\ rpc' = "notified"
  /\ mode' = IF mode = "waiting" THEN "begin" ELSE mode
  /\ UNCHANGED <<script, durable, context, result, desired, token, world, crashes,
                 history>>

\* then the flag is set on the operation's row, if that is still there.
RequestPersist ==
  /\ rpc = "notified"
  /\ rpc' = "done" /\ flagged' = row
  /\ UNCHANGED <<script, log, row, dyn, mode, context, result, desired, token, world,
                 crashes, history>>

-----------------------------------------------------------------------------
(* The daemon dies; start-up resumes the operation or reaps its leftovers. *)

Crash ==
  /\ mode \notin {"down", "over"} /\ crashes < MaxCrashes
  /\ crashes' = crashes + 1
  /\ mode' = "down" /\ desired' = Steady /\ token' = FALSE /\ rpc' = "idle"
  /\ ip' = 1 /\ callIndex' = 0 /\ pending' = <<>> /\ seqs' = <<>>
  /\ origin' = <<>> /\ hit' = FALSE
  /\ UNCHANGED <<script, durable, result, world, history>>

\* Faulty form: the replayed operation gets a fresh token.
ResumeUncancelled(s) ==
  /\ mode = "down" /\ row
  /\ script' = s /\ token' = FALSE /\ mode' = "begin"
  /\ rpc' = IF flagged THEN "done" ELSE "idle"
  /\ edited' = (edited \/ s # script)
  /\ told' = <<>> /\ resolved' = {} /\ waits' = <<>>
  /\ UNCHANGED <<durable, context, result, desired, world, crashes, delivered, orphaned>>

\* The row is there: the operation is replayed with the closure the database
\* now holds, and a persisted cancel is requested again.
Resume(s) ==
  /\ mode = "down" /\ row
  /\ script' = s /\ token' = flagged /\ mode' = "begin"
  /\ rpc' = IF flagged THEN "done" ELSE "idle"
  /\ edited' = (edited \/ s # script)
  /\ \/ s = script /\ UNCHANGED <<told, resolved, waits>>
     \/ s # script /\ told' = <<>> /\ resolved' = {} /\ waits' = <<>>
  /\ UNCHANGED <<durable, context, result, desired, world, crashes, delivered, orphaned>>

\* It is not: the units and containers of the rows found are stopped and
\* removed, then the rows deleted.
ReapOrphans ==
  /\ mode = "down" /\ ~row
  /\ world' = [r \in Resources |->
                 IF r \in dyn /\ world[r] = "Ready" THEN "Terminated" ELSE world[r]]
  /\ dyn' = {} /\ mode' = "over"
  /\ UNCHANGED <<script, log, row, flagged, context, result, desired, cancel, crashes,
                 history>>

-----------------------------------------------------------------------------
(* The reconciler and the containers, as far as the oracle shows them.     *)

Actuate(r) ==
  /\ mode # "down" /\ r \in desired /\ world[r] \in {"Pending", "Terminated"}
  /\ world' = [world EXCEPT ![r] = IF @ = "Pending" THEN "Ready" ELSE "Pending"]
  /\ UNCHANGED <<script, durable, mode, context, result, desired, cancel, crashes,
                 history>>

\* A container exits, or is stopped because nothing wants it.
Exit(r) ==
  /\ world[r] = "Ready"
  /\ world' = [world EXCEPT ![r] = "Terminated"]
  /\ UNCHANGED <<script, durable, mode, context, result, desired, cancel, crashes,
                 history>>

Older(n) == IF n < MaxAge THEN n + 1 ELSE n
OlderBar(b) == [b EXCEPT !.age = Older(@)]
OlderBars(e) == [e EXCEPT !.bars = [q \in DOMAIN @ |-> OlderBar(@[q])]]

\* A second passes.
Tick ==
  /\ log' = [i \in DOMAIN log |-> OlderBars(log[i])]
  /\ pending' = [k \in 1..Len(pending) |-> OlderBars(pending[k])]
  /\ waits' = [k \in DOMAIN waits |-> Older(waits[k])]
  /\ UNCHANGED <<script, row, flagged, dyn, mode, ip, callIndex, seqs, origin, hit,
                 result, desired, cancel, world, crashes, edited, delivered, told,
                 resolved, orphaned>>

RtCall ==
  \/ Start \/ Warm \/ Signal \/ Exec \/ Write \/ CallAction \/ Await \/ Stop
  \/ Restart \/ Return
Driver ==
  \/ BeginPass \/ RtCall \/ FlushOne \/ Publish \/ Conclude \/ BeginCleanup
  \/ EndCleanup \/ WaitCheck \/ WaitLock \/ WaitBlock \/ WaitTimeout

Next ==
  \/ Driver
  \/ RequestStore \/ RequestNotify \/ RequestPersist
  \/ Crash \/ ReapOrphans \/ \E s \in Scripts : Resume(s)
  \/ \E r \in Resources : Actuate(r) \/ Exit(r)
  \/ Tick

Spec == Init /\ [][Next]_vars

\* The blocking thread of the driver runs, timers fire, request() returns, the
\* daemon is started again and the clock moves.  Nothing is assumed of the
\* containers or of the operator.
Fairness ==
  /\ WF_vars(Driver) /\ WF_vars(RequestNotify) /\ WF_vars(Tick)
  /\ WF_vars(ReapOrphans) /\ WF_vars(\E s \in Scripts : Resume(s))

FairSpec == Spec /\ Fairness

-----------------------------------------------------------------------------
(* Properties.                                                             *)

Results == {"Completed", "Suspended", "Cancelled", "Failed", "Expired", "Diverged"}

\* None is neither a result nor a record of a barrier.
ASSUME NoneAssumption ==
  None \notin Results /\ None \notin [state : States, sat : BOOLEAN, age : Nat]

Modes == {"begin", "pass", "flush", "ended", "concluded", "cleanup", "over", "down"}
           \cup Sleeping

\* Values of the right kind, no entry of this pass beyond the position the
\* closure has reached, and a log that is numbered without a gap.
TypeOK ==
  /\ script \in Scripts /\ mode \in Modes /\ result \in Results \cup {None}
  /\ row \in BOOLEAN /\ flagged \in BOOLEAN /\ hit \in BOOLEAN
  /\ token \in BOOLEAN /\ rpc \in {"idle", "stored", "notified", "done"}
  /\ dyn \subseteq Dynamic /\ desired \subseteq Resources
  /\ world \in [Resources -> States]
  /\ ip \in Nat /\ callIndex \in Nat /\ crashes \in 0..MaxCrashes
  /\ \A k \in 1..Len(pending) : pending[k].at < callIndex
  /\ DOMAIN log = 0..(LogLength - 1)

Sites(s, l) == Cardinality({k \in Positions(s) : s[k].lit = l})

\* l[rt.signal], l[rt.exec], l[rt.write] and replay_step's reason to match by
\* position and literal: an effect is carried out at most once, and again only
\* when a crash lost the record of it; and an operation that completes has
\* delivered every signal its closure makes, also when two of them are equal and
\* when the closure was edited under it.
EffectsKept ==
  /\ ~edited => \A l \in Literals : delivered[l] <= Sites(script, l) * (1 + crashes)
  /\ mode \in {"ended", "concluded"} /\ result = "Completed" =>
       \A l \in Literals :
         delivered[l] >= Cardinality({k \in Positions(script) :
                                        script[k].op = "signal" /\ script[k].lit = l})

\* The position of a call in the log when nothing before it was caught.
IndexOf(k) == Cardinality({j \in 1..(k - 1) : Logged(script[j])})

\* r[barrier.replay.determinism], r[operation.composition.params.replay]: a
\* closure nobody edited replays without a divergence, and once a call is in the
\* log every later pass gets the answer the first one got.
ReplayFaithful ==
  /\ [](result = "Diverged" => edited)
  /\ [][~edited /\ ~edited' =>
          \A k \in DOMAIN told \cap DOMAIN told' :
            IndexOf(k) \in DOMAIN log => told'[k] = told[k]]_vars

\* is_barrier_hit_pending, r[barrier.satisfaction.recorded]: no signal, exec or
\* write is carried out before the barriers ahead of it were met or ran out, even
\* when the closure catches the suspension; and a barrier runs out only when its
\* own wait has lasted its deadline.
BarrierHolds ==
  /\ [][~edited /\ ~token /\ delivered' # delivered /\ Effect(Call) =>
          \A k \in 1..(ip - 1) : Awaiting(script[k]) => k \in resolved]_vars
  /\ [][~edited /\ mode = "pass" /\ ip \in Positions(script) /\ Awaiting(Call)
          /\ ip \in resolved' \ resolved /\ ~HasReached(Call.res, Call.state) =>
          ip \in DOMAIN waits /\ waits[ip] >= Call.dl]_vars

\* A container the operation defined is either known to a row, which the next
\* start-up reaps, or was given up on by the cleanup's time limit.
NoOrphans == {r \in Dynamic : world[r] = "Ready"} \subseteq dyn \cup orphaned

\* A cancel that was requested is never slept through.
NoLostWakeup == rpc \in {"notified", "done"} => mode # "waiting"

Timed == \A k \in Positions(script) : Awaiting(script[k]) => script[k].dl # None

\* r[barrier.deadline]: when every barrier has a deadline the operation ends,
\* whatever the containers do and however often the pass is run again.
Ends == []Timed => <>(mode = "over")

\* r[operation.cancel], r[operation.cancel.persistence]: a persisted cancel ends
\* the operation, also one that waits without a deadline.
CancelHeard == (token /\ flagged) ~> (mode = "over")

-----------------------------------------------------------------------------
(* The operation as its record sees it.                                    *)

CallsIn(s) == Cardinality({k \in Positions(s) : Logged(s[k])})

CL == INSTANCE CallLedger WITH
        Outcomes <- Results \ {"Suspended"},
        made <- IF callIndex < LogLength THEN LogLength ELSE callIndex,
        kept <- LogLength,
        need <- CallsIn(script),
        outcome <- IF row THEN "open" ELSE result

\* Replay implements the ledger.
Ledger == CL!Ledger
=============================================================================
