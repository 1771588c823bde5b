------------------------------ MODULE Scheduler ------------------------------
(***************************************************************************)
(* The in-memory operation scheduler (runtime/scheduler.rs): one active    *)
(* operation for the whole node, a FIFO of waiting operations with at most *)
(* one per app, and the cancel token of the active operation.  The         *)
(* scheduler only keeps the policy; the driver that runs operations, the   *)
(* handlers that request them and the restarts are in Operations.          *)
(*                                                                         *)
(* Abstracted: params, generations and trigger strings carried by an       *)
(* operation; the call stack (push_call/pop_call), which no code calls.    *)
(***************************************************************************)
EXTENDS Naturals, Sequences

CONSTANTS Apps,  \* app names
          None   \* "no operation", "no row", "no app"

\* What an operation runs: the install closure, a named action (operator or
\* schedule), or a parameter's on_change handler.
Kinds == {"install", "action", "param"}

Operation == [id : Nat, app : Apps, kind : Kinds]

ASSUME NoneAssumption == None \notin Operation /\ None \notin Apps

VARIABLES active,  \* Option<ActiveOperation>
          token,   \* is the active operation's CancelToken set?
          queue    \* VecDeque<QueuedOperation>

schedVars == <<active, token, queue>>

SchedInit == /\ active = None
             /\ token = FALSE
             /\ queue = <<>>

IsActive(a) == active # None /\ active.app = a

IsQueued(a) == \E i \in DOMAIN queue : queue[i].app = a

\* Faulty form: the active operation is not looked at.
HasQueuedFor(a) == IsQueued(a)

\* has_operation_for.
HasOperationFor(a) == IsActive(a) \/ IsQueued(a)

\* Faulty form: the slot records the app and forgets the operation.
AcceptApp(o) == /\ active = None
                /\ active' = o.app
                /\ token' = FALSE
                /\ UNCHANGED queue

\* request_with_id on a free slot: the operation starts at once, with a
\* fresh token.  The queue is not looked at.
Accept(o) == /\ active = None
             /\ active' = o
             /\ token' = FALSE
             /\ UNCHANGED queue

\* request_with_id while another app's operation runs.
Enqueue(o) == /\ active # None
              /\ ~HasOperationFor(o.app)
              /\ queue' = Append(queue, o)
              /\ UNCHANGED <<active, token>>

\* request_with_id answers Rejected: SameAppOperationInProgress or
\* SameAppAlreadyQueued.
Reject(a) == /\ active # None
             /\ HasOperationFor(a)
             /\ UNCHANGED schedVars

\* Faulty form: the slot is freed and the next operation left in the queue.
FreeSlot == active' = None /\ token' = FALSE /\ UNCHANGED queue

\* complete_current: whoever calls it frees the slot, and the head of the
\* queue takes it in the same critical section.
CompleteCurrent == /\ active' = IF queue = <<>> THEN None ELSE Head(queue)
                   /\ queue' = IF queue = <<>> THEN queue ELSE Tail(queue)
                   /\ token' = FALSE

\* request_cancel of the active operation (Cancelled or AlreadyCancelled).
RequestCancel(a) == /\ IsActive(a)
                    /\ token' = TRUE
                    /\ UNCHANGED <<active, queue>>
==============================================================================
