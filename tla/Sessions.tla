------------------------------ MODULE Sessions ------------------------------
(***************************************************************************)
(* Port forwards and shells: long-lived sessions of operator connections.  *)
(*                                                                         *)
(* A session is an asynchronous task.  It awaits between its steps, so the *)
(* connection can go, an operator can stop it, an update can take its      *)
(* service away and the daemon can die between any two of them.  Forwards  *)
(* live in a registry with three indexes behind one lock; shells in a map, *)
(* and in podman as a container and a network, which the reconciler sweeps *)
(* for strays.                                                             *)
(***************************************************************************)
EXTENDS Naturals, FiniteSets

CONSTANTS MaxForwards, \* /forwards/start requests, a task and a fresh id each
          MaxShells,   \* /shells/start and /volumes/shell requests
          MaxConns,    \* operator connections, by stable_id
          KeySpace,    \* 2^16 in the code
          Scenes,      \* the numbers of them that are used together
          None

ASSUME SessionsAssumption ==
  /\ {MaxForwards, MaxShells, MaxConns} \subseteq Nat
  /\ KeySpace \in Nat \ {0}
  /\ Scenes \subseteq [forwards : 0 .. MaxForwards, shells : 0 .. MaxShells,
                       conns : 0 .. MaxConns, crashes : Nat, updates : BOOLEAN,
                       lines : BOOLEAN]
  /\ None \notin Nat

Forwards == 1 .. MaxForwards
Shells == 1 .. MaxShells
Conns == 1 .. MaxConns
Keys == 0 .. KeySpace - 1

VARIABLES
  scene,       \* the bounds of this behaviour
  conn,        \* "open"; "lost", reads and writes fail; "closed", torn down
  declared,    \* the service of the forwards is in the app's definition
  update,      \* an update_app has replaced the definition, not yet its forwards
  task,        \* forward sessions: [pc, conn, key, udp]
  byId,        \* ForwardRegistry.by_id; an entry is its session's record
  keyToId,     \* conn_key_to_id
  connToIds,   \* conn_to_ids
  counter,     \* key_counters
  relays,      \* the forwards whose UDP relay task runs
  shell,       \* shell sessions: [pc, conn, kind]
  sessions,    \* ShellRegistry.sessions
  container,   \* podman containers of the shells
  network,     \* podman networks of the shells
  sweep,       \* reconcile_stray_shells: "rest", "active", "listed"
  active,      \* the registered shells as the sweep saw them
  strays,      \* the containers it is removing
  crashes,
  allocs,      \* history: keys handed out per connection, up to KeySpace + 1
  started      \* history: ForwardStarted events not followed by ForwardStopped

registry == <<byId, keyToId, connToIds, counter>>
forwardVars == <<task, registry, relays, allocs, started>>
sweepVars == <<sweep, active, strays>>
shellVars == <<shell, sessions, container, network>>
vars == <<scene, conn, declared, update, forwardVars, shellVars, sweepVars, crashes>>

NoTask == [pc |-> "none", conn |-> None, key |-> None, udp |-> FALSE]
Ended == [NoTask EXCEPT !.pc = "done"]
NoShell == [pc |-> "none", conn |-> None, kind |-> None]
ShellEnded(s) == [NoShell EXCEPT !.pc = "done", !.kind = shell[s].kind]

Init ==
  /\ scene \in Scenes
  /\ conn = [c \in Conns |-> "open"]
  /\ declared = TRUE /\ update = FALSE
  /\ task = [f \in Forwards |-> NoTask]
  /\ byId = {} /\ keyToId = [x \in Conns \X Keys |-> None]
  /\ connToIds = [c \in Conns |-> {}] /\ counter = [c \in Conns |-> 0]
  /\ relays = {}
  /\ shell = [s \in Shells |-> NoShell]
  /\ sessions = {} /\ container = {} /\ network = {}
  /\ sweep = "rest" /\ active = {} /\ strays = {}
  /\ crashes = 0
  /\ allocs = [c \in Conns |-> 0] /\ started = {}

-----------------------------------------------------------------------------
(* The forward registry, each operation under its lock.                    *)

Slot(f) == <<task[f].conn, task[f].key>>

\* The keys alloc_key finds free, and the number of steps to each of them.
Free(c) == {k \in Keys : keyToId[<<c, k>>] = None}
Ahead(c, k) == (k + KeySpace - counter[c]) % KeySpace

\* alloc_key: the first free key from the counter on.
NextKey(c) == CHOOSE k \in Free(c) : \A l \in Free(c) : Ahead(c, k) <= Ahead(c, l)

\* Faulty form: only the forward's own map is cleaned.
ForgetIds(F) ==
  /\ byId' = byId \ F
  /\ connToIds' = [c \in Conns |-> connToIds[c] \ F]
  /\ UNCHANGED keyToId

\* remove and remove_stale_for_app.  The key goes whatever it leads to.
Forget(F) ==
  /\ byId' = byId \ F
  /\ connToIds' = [c \in Conns |-> connToIds[c] \ F]
  /\ keyToId' = [x \in Conns \X Keys |->
                   IF \E f \in F \cap byId : Slot(f) = x THEN None ELSE keyToId[x]]

\* insert: the index by key is for datagrams and holds UDP forwards only.
Insert(f) ==
  /\ byId' = byId \cup {f}
  /\ connToIds' = [connToIds EXCEPT ![task[f].conn] = @ \cup {f}]
  /\ keyToId' = IF task[f].udp THEN [keyToId EXCEPT ![Slot(f)] = f] ELSE keyToId
  /\ UNCHANGED counter

-----------------------------------------------------------------------------
(* A forward session.                                                      *)

ForwardOnly == UNCHANGED <<scene, conn, declared, update, shellVars, sweepVars, crashes>>

At(f, p) == task[f].pc = p
Goto(f, p) == task' = [task EXCEPT ![f].pc = p]
Over(f) == task' = [task EXCEPT ![f] = Ended]

\* /forwards/start: the service is looked up in the definition of the moment.
Request(f, c, udp) ==
  /\ At(f, "none") /\ f <= scene.forwards /\ (f > 1 => ~At(f - 1, "none"))
  /\ c <= scene.conns /\ conn[c] = "open"
  /\ IF declared
     THEN task' = [task EXCEPT ![f] = [pc |-> "found", conn |-> c, key |-> None, udp |-> udp]]
     ELSE Over(f)
  /\ UNCHANGED <<registry, relays, allocs, started>> /\ ForwardOnly

\* wrapping_add
After(k) == (k + 1) % KeySpace

AllocKey(f) ==
  /\ At(f, "found")
  /\ LET c == task[f].conn IN
     IF Free(c) = {}
     THEN Over(f) /\ UNCHANGED <<counter, allocs>>
     ELSE /\ task' = [task EXCEPT ![f].pc = "keyed", ![f].key = NextKey(c)]
          /\ counter' = [counter EXCEPT ![c] = After(NextKey(c))]
          /\ allocs' = [allocs EXCEPT ![c] = IF @ > KeySpace THEN @ ELSE @ + 1]
  /\ UNCHANGED <<byId, keyToId, connToIds, relays, started>> /\ ForwardOnly

\* The relay is spawned, and holds the receiving end of the entry's channel.
Register(f) ==
  /\ At(f, "keyed")
  /\ Insert(f) /\ Goto(f, "registered")
  /\ relays' = IF task[f].udp THEN relays \cup {f} ELSE relays
  /\ UNCHANGED <<allocs, started>> /\ ForwardOnly

ReplyFails(f) ==
  /\ Forget({f}) /\ Over(f)
  /\ UNCHANGED <<counter, relays, allocs, started>>

\* The answer is written, and with it ForwardStarted; or the client is gone.
Reply(f) ==
  /\ At(f, "registered")
  /\ \/ /\ conn[task[f].conn] = "open"
        /\ Goto(f, "serving") /\ started' = started \cup {f}
        /\ UNCHANGED <<registry, relays, allocs>>
     \/ ReplyFails(f)
  /\ ForwardOnly

\* Faulty form: the stop signal is not listened to.
HungUpClient(f) == conn[task[f].conn] # "open"

\* What breaks the select loop by itself: the control stream ends with the
\* connection, or the entry has gone, which fires stop_tx.
HungUp(f) == conn[task[f].conn] # "open" \/ f \notin byId

\* Between the end of the loop and the removal there is no await.
EndSession(f) ==
  /\ Forget({f}) /\ Over(f) /\ started' = started \ {f}
  /\ UNCHANGED <<counter, relays, allocs>> /\ ForwardOnly

Finish(f) == At(f, "serving") /\ HungUp(f) /\ EndSession(f)

\* The relay has a status line for the client.  It is written inside an arm of
\* the select, where neither the stop nor the control stream is looked at ...
Tell(f) ==
  /\ scene.lines /\ At(f, "serving") /\ task[f].udp /\ Goto(f, "telling")
  /\ UNCHANGED <<registry, relays, allocs, started>> /\ ForwardOnly

\* ... until the client reads ...
Told(f) ==
  /\ At(f, "telling") /\ conn[task[f].conn] = "open" /\ Goto(f, "serving")
  /\ UNCHANGED <<registry, relays, allocs, started>> /\ ForwardOnly

\* ... or is gone.
TellFails(f) == At(f, "telling") /\ conn[task[f].conn] # "open" /\ EndSession(f)

\* The client closes the control stream.
Leave(f) == At(f, "serving") /\ EndSession(f)

\* /forwards/stop, from any connection.
StopForward(f) ==
  /\ f \in byId /\ Forget({f})
  /\ UNCHANGED <<task, counter, relays, allocs, started>> /\ ForwardOnly

\* Without its entry the relay's channel is closed.
RelayEnds(f) ==
  /\ f \in relays \ byId /\ relays' = relays \ {f}
  /\ UNCHANGED <<task, registry, allocs, started>> /\ ForwardOnly

\* The relay's socket cannot be bound, or a send finds the connection gone; the
\* forward stays registered.
RelayFails(f) ==
  /\ f \in relays \cap byId /\ relays' = relays \ {f}
  /\ UNCHANGED <<task, registry, allocs, started>> /\ ForwardOnly

-----------------------------------------------------------------------------
(* Connections, updates and crashes.                                       *)

Lose(c) ==
  /\ c <= scene.conns /\ conn[c] = "open" /\ conn' = [conn EXCEPT ![c] = "lost"]
  /\ UNCHANGED <<scene, declared, update, forwardVars, shellVars, sweepVars, crashes>>

\* The connection's loop ends and remove_by_conn takes its forwards along.
Teardown(c) ==
  /\ conn[c] = "lost" /\ conn' = [conn EXCEPT ![c] = "closed"]
  /\ LET F == connToIds[c] IN
     /\ byId' = byId \ F
     /\ connToIds' = [connToIds EXCEPT ![c] = {}]
     /\ keyToId' = [x \in Conns \X Keys |->
                      IF \E f \in F \cap byId : Slot(f) = x THEN None ELSE keyToId[x]]
     /\ counter' = [counter EXCEPT ![c] = 0]
  /\ UNCHANGED <<scene, declared, update, task, relays, allocs, started, shellVars, sweepVars, crashes>>

\* update_app replaces the definition by one without the service ...
Undeclare ==
  /\ scene.updates /\ declared /\ declared' = FALSE /\ update' = TRUE
  /\ UNCHANGED <<scene, conn, forwardVars, shellVars, sweepVars, crashes>>

\* ... and then takes down the forwards to it.
RemoveStale ==
  /\ update /\ update' = FALSE
  /\ Forget(byId)
  /\ UNCHANGED <<scene, conn, declared, task, counter, relays, allocs, started, shellVars,
                 sweepVars, crashes>>

-----------------------------------------------------------------------------
(* A shell session.                                                        *)

ShellOnly == UNCHANGED <<scene, conn, declared, update, forwardVars, sweepVars, crashes>>

In(s, p) == shell[s].pc = p
Step(s, p) == shell' = [shell EXCEPT ![s].pc = p]
Done(s) == shell' = [shell EXCEPT ![s] = ShellEnded(s)]

\* remove_network without force: podman keeps a network in use.
RemoveNetwork(s, C) == network' = IF s \in C THEN network ELSE network \ {s}

\* The app or the volumes are looked up; a request that fails changes nothing.
OpenShell(s, c, k) ==
  /\ In(s, "none") /\ s <= scene.shells /\ (s > 1 => ~In(s - 1, "none"))
  /\ c <= scene.conns /\ conn[c] = "open"
  /\ shell' = [shell EXCEPT ![s] = [pc |-> IF k = "shell" THEN "greeting" ELSE "prepared",
                                    conn |-> c, kind |-> k]]
  /\ UNCHANGED <<sessions, container, network>> /\ ShellOnly

\* Output streams are opened and the handshake is written: for an app's shell
\* first, for a volume shell when its network is there.
Greet(s) ==
  /\ In(s, "greeting")
  /\ \/ /\ conn[shell[s].conn] = "open" /\ UNCHANGED network
        /\ Step(s, IF shell[s].kind = "shell" THEN "closure" ELSE "ready")
     \/ Done(s) /\ RemoveNetwork(s, container)
  /\ UNCHANGED <<sessions, container>> /\ ShellOnly

\* The shell's closure runs on a blocking thread, attaches or fails.
RunClosure(s) ==
  /\ In(s, "closure")
  /\ Step(s, "prepared") \/ Done(s)
  /\ UNCHANGED <<sessions, container, network>> /\ ShellOnly

\* The image is pulled or built and the network created.
MakeNetwork(s) ==
  /\ In(s, "prepared")
  /\ \/ /\ network' = network \cup {s}
        /\ Step(s, IF shell[s].kind = "shell" THEN "ready" ELSE "greeting")
     \/ Done(s) /\ UNCHANGED network
  /\ UNCHANGED <<sessions, container>> /\ ShellOnly

\* The container is run.  An app's shell looks its service mounts up first, and
\* leaves its network behind when that fails.
Exec(s) ==
  /\ In(s, "ready")
  /\ \/ container' = container \cup {s} /\ Step(s, "running") /\ UNCHANGED network
     \/ Done(s) /\ RemoveNetwork(s, container) /\ UNCHANGED container
     \/ shell[s].kind = "shell" /\ Done(s) /\ UNCHANGED <<container, network>>
  /\ UNCHANGED sessions /\ ShellOnly

Enter(s) ==
  /\ In(s, "running")
  /\ sessions' = sessions \cup {s} /\ Step(s, "registered")
  /\ UNCHANGED <<container, network>> /\ ShellOnly

\* The input that came with the request cannot be written: the session returns
\* without waiting for its container.
FirstWriteFails(s) ==
  /\ In(s, "registered")
  /\ sessions' = sessions \ {s} /\ Done(s)
  /\ IF shell[s].kind = "volume" THEN RemoveNetwork(s, container) ELSE UNCHANGED network
  /\ UNCHANGED container /\ ShellOnly

Attach(s) ==
  /\ In(s, "registered") /\ Step(s, "serving")
  /\ UNCHANGED <<sessions, container, network>> /\ ShellOnly

\* What breaks the select loop: the client or the connection goes, the output
\* ends with the container, or the registry's stop fires.
CutOff(s) == conn[shell[s].conn] # "open" \/ s \notin container \/ s \notin sessions

Break(s) ==
  /\ In(s, "serving") /\ CutOff(s)
  /\ Step(s, "closing")
  /\ UNCHANGED <<sessions, container, network>> /\ ShellOnly

\* Input and output are written inside the arms of the select, where the stop,
\* the client and the container's end are not looked at.
Write(s, p) ==
  /\ In(s, "serving") /\ Step(s, p)
  /\ UNCHANGED <<sessions, container, network>> /\ ShellOnly

\* What a write waits for: the container reads its input, the client the output.
Listens(s) ==
  \/ In(s, "typing") /\ s \in container
  \/ In(s, "printing") /\ conn[shell[s].conn] = "open"

Written(s) ==
  /\ Listens(s) /\ Step(s, "serving")
  /\ UNCHANGED <<sessions, container, network>> /\ ShellOnly

WriteFails(s) ==
  /\ In(s, "typing") \/ In(s, "printing")
  /\ ~Listens(s) /\ Step(s, "closing")
  /\ UNCHANGED <<sessions, container, network>> /\ ShellOnly

\* The client ends its input.
HangUp(s) ==
  /\ In(s, "serving") /\ Step(s, "closing")
  /\ UNCHANGED <<sessions, container, network>> /\ ShellOnly

\* The container exits and wait() answers before the output ends.
Reap(s) ==
  /\ In(s, "serving") /\ s \notin container
  /\ sessions' = sessions \ {s} /\ Done(s) /\ RemoveNetwork(s, container)
  /\ UNCHANGED container /\ ShellOnly

\* SIGTERM, five seconds, then the container is removed by force, which can fail.
Close(s) ==
  /\ In(s, "closing")
  /\ container' \in {container \ {s}, container}
  /\ sessions' = sessions \ {s} /\ Done(s) /\ RemoveNetwork(s, container')
  /\ ShellOnly

\* /shells/stop, from any connection.
StopShell(s) ==
  /\ s \in sessions /\ sessions' = sessions \ {s}
  /\ UNCHANGED <<shell, container, network>> /\ ShellOnly

\* podman run --rm: the container goes when its command exits.
Exits(s) ==
  /\ s \in container /\ container' = container \ {s}
  /\ UNCHANGED <<shell, sessions, network>> /\ ShellOnly

-----------------------------------------------------------------------------
(* reconcile_stray_shells, at the start of every tick.                     *)

\* A sweep before the first request would find nothing.
Snapshot ==
  /\ ~In(1, "none") /\ sweep = "rest" /\ sweep' = "active" /\ active' = sessions
  /\ UNCHANGED <<scene, conn, declared, update, forwardVars, shellVars, strays, crashes>>

\* Faulty form: only what the registry still knows is looked at.
StraysKnown == sessions \ active

\* The containers with the label of an app's shell; volume shells have another.
Strays == {s \in container : shell[s].kind = "shell"} \ active

List ==
  /\ sweep = "active" /\ sweep' = "listed" /\ strays' = Strays
  /\ UNCHANGED <<scene, conn, declared, update, forwardVars, shellVars, active, crashes>>

\* podman cannot list the containers; the next tick tries again.
ListFails ==
  /\ sweep = "active" /\ sweep' = "rest" /\ active' = {}
  /\ UNCHANGED <<scene, conn, declared, update, forwardVars, shellVars, strays, crashes>>

\* The strays are removed one by one, each container with its network.
Remove(s) ==
  /\ s \in strays /\ strays' = strays \ {s}
  /\ container' = container \ {s} /\ network' = network \ {s}
  /\ UNCHANGED <<scene, conn, declared, update, forwardVars, shell, sessions, sweep, active,
                 crashes>>

RemoveFails(s) ==
  /\ s \in strays \cap container /\ strays' = strays \ {s}
  /\ UNCHANGED <<scene, conn, declared, update, forwardVars, shellVars, sweep, active, crashes>>

SweepEnds ==
  /\ sweep = "listed" /\ strays = {} /\ sweep' = "rest" /\ active' = {}
  /\ UNCHANGED <<scene, conn, declared, update, forwardVars, shellVars, strays, crashes>>

\* What start-up leaves in podman: it removes the shell containers of both kinds,
\* then the networks without a container, and ignores what it cannot remove.
Cleared == {w \in (SUBSET container) \X (SUBSET network) : w[1] \cap network \subseteq w[2]}

\* The daemon dies and comes back.  Memory goes, podman keeps containers and
\* networks until start-up looks for them, and the operators connect again.
Crash ==
  /\ crashes < scene.crashes /\ crashes' = crashes + 1
  /\ \E w \in Cleared : container' = w[1] /\ network' = w[2]
  /\ conn' = [c \in Conns |-> "open"]
  /\ task' = [f \in Forwards |-> IF At(f, "none") THEN NoTask ELSE Ended]
  /\ byId' = {} /\ keyToId' = [x \in Conns \X Keys |-> None]
  /\ connToIds' = [c \in Conns |-> {}] /\ counter' = [c \in Conns |-> 0]
  /\ relays' = {} /\ started' = {}
  /\ shell' = [s \in Shells |-> IF In(s, "none") THEN NoShell ELSE ShellEnded(s)]
  /\ sessions' = {}
  /\ sweep' = "rest" /\ active' = {} /\ strays' = {}
  /\ allocs' = [c \in Conns |-> 0] /\ update' = FALSE
  /\ UNCHANGED <<scene, declared>>

-----------------------------------------------------------------------------

ForwardTask(f) == AllocKey(f) \/ Register(f) \/ Reply(f) \/ Finish(f) \/ TellFails(f)
ShellTask(s) ==
  \/ Greet(s) \/ MakeNetwork(s) \/ Exec(s) \/ Enter(s) \/ Break(s) \/ WriteFails(s)
  \/ Close(s)

\* Steps that wait for the other end, which may never read.
ForwardWrites(f) == Tell(f) \/ Told(f)
ShellWrites(s) ==
  \/ Attach(s) \/ FirstWriteFails(s) \/ Written(s)
  \/ \E p \in {"typing", "printing"} : Write(s, p)
Sweep ==
  \/ Snapshot \/ List \/ ListFails \/ SweepEnds
  \/ \E s \in Shells : Remove(s) \/ RemoveFails(s)

Next ==
  \/ \E f \in Forwards :
       \/ ForwardTask(f) \/ ForwardWrites(f) \/ Leave(f) \/ StopForward(f)
       \/ RelayEnds(f) \/ RelayFails(f)
       \/ \E c \in Conns, udp \in BOOLEAN : Request(f, c, udp)
  \/ \E s \in Shells :
       \/ ShellTask(s) \/ ShellWrites(s) \/ RunClosure(s) \/ HangUp(s) \/ Reap(s)
       \/ StopShell(s) \/ Exits(s)
       \/ \E c \in Conns, k \in {"shell", "volume"} : OpenShell(s, c, k)
  \/ \E c \in Conns : Lose(c) \/ Teardown(c)
  \/ Undeclare \/ RemoveStale \/ Sweep \/ Crash

Spec == Init /\ [][Next]_vars

\* Tasks are polled, lost connections are noticed, and the reconciler ticks, as
\* it does while an app is installed; podman does not refuse it for ever.  A
\* closure may wait for ever, and so may a write.  Between two writes the select
\* picks among its ready arms at random, so that a stop is not passed over for
\* ever: this is strong fairness.  A task has finitely many steps besides its
\* writes, so it is enough that some task of each sort is polled.
Fairness ==
  /\ SF_vars(\E f \in Forwards : ForwardTask(f) \/ RelayEnds(f))
  /\ SF_vars(\E s \in Shells : ShellTask(s))
  /\ WF_vars(RemoveStale \/ \E c \in Conns : Teardown(c))
  /\ WF_vars(Sweep) /\ SF_vars(List) /\ SF_vars(\E s \in Shells : Remove(s))

FairSpec == Spec /\ Fairness

-----------------------------------------------------------------------------
(* Properties.                                                             *)

\* Every variable has its type; in particular a key fits its width.
TypeOK ==
  /\ scene \in Scenes
  /\ conn \in [Conns -> {"open", "lost", "closed"}]
  /\ declared \in BOOLEAN /\ update \in BOOLEAN
  /\ task \in [Forwards ->
       [pc : {"none", "found", "keyed", "registered", "serving", "telling", "done"},
        conn : Conns \cup {None}, key : Keys \cup {None}, udp : BOOLEAN]]
  /\ byId \subseteq Forwards /\ relays \subseteq Forwards /\ started \subseteq Forwards
  /\ keyToId \in [Conns \X Keys -> Forwards \cup {None}]
  /\ connToIds \in [Conns -> SUBSET Forwards] /\ counter \in [Conns -> Keys]
  /\ shell \in [Shells ->
       [pc : {"none", "greeting", "closure", "prepared", "ready", "running",
              "registered", "serving", "typing", "printing", "closing", "done"},
        conn : Conns \cup {None}, kind : {"shell", "volume", None}]]
  /\ sessions \subseteq Shells /\ container \subseteq Shells /\ network \subseteq Shells
  /\ sweep \in {"rest", "active", "listed"}
  /\ active \subseteq Shells /\ strays \subseteq Shells
  /\ crashes \in 0 .. scene.crashes /\ allocs \in [Conns -> 0 .. KeySpace + 1]

\* The registries tell the truth.
\* A datagram is never handed to the wrong forward: a key of a connection leads
\* to a registered UDP forward of that connection that was given that key, also
\* when keys wrap and forwards come and go together; as long as the connection is
\* open and has not used up its keys, every registered UDP forward receives its
\* datagrams; and the end of a connection finds every forward it has to take along.
\* Only living sessions are listed: what is listed can still be stopped, and the
\* descriptor that /shells/resize uses is "valid while the session is registered".
RegistryTrue ==
  /\ \A c \in Conns, k \in Keys :
       LET f == keyToId[<<c, k>>] IN
       f # None => f \in byId /\ task[f].udp /\ Slot(f) = <<c, k>>
  /\ \A f \in byId :
       LET c == task[f].conn IN
       /\ f \in connToIds[c]
       /\ task[f].udp /\ conn[c] = "open" /\ allocs[c] <= KeySpace => keyToId[Slot(f)] = f
       /\ task[f].pc \in {"registered", "serving", "telling"}
  /\ \A s \in sessions :
       shell[s].pc \in {"registered", "serving", "typing", "printing", "closing"}

Doomed(f) ==
  \/ task[f].conn # None /\ conn[task[f].conn] # "open"
  \/ task[f].pc \in {"serving", "telling"} /\ f \notin byId
Gone(f) == At(f, "done") /\ f \notin byId \cup started \cup relays
ShellDoomed(s) ==
  /\ shell[s].pc \in {"registered", "serving", "typing", "printing", "closing"}
  /\ conn[shell[s].conn] # "open" \/ s \notin sessions
Writing(s) == shell[s].pc \in {"registered", "typing", "printing"}

\* A session ends when its connection is lost or its entry is taken by a stop or
\* an update, at whatever step that finds it, unless a write of it waits for ever
\* for an open client or a container that does not read (forwards/session.rs and
\* shells/session.rs select!).  A forward then leaves the registry, ForwardStopped
\* follows ForwardStarted and its relay ends; a shell leaves its registry.
SessionsEnd ==
  /\ \A f \in Forwards : []<>~At(f, "telling") => (Doomed(f) ~> Gone(f))
  /\ \A s \in Shells :
       []<>~Writing(s) => (ShellDoomed(s) ~> In(s, "done") /\ s \notin sessions)

\* No container of an app's shell outlives its session for good: one left by a
\* crash, a failed first write or a failed removal is swept.
StraysGone ==
  \A s \in Shells :
    s \in container /\ In(s, "done") /\ shell[s].kind = "shell" ~> s \notin container
=============================================================================
