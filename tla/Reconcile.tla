----------------------------- MODULE Reconcile ------------------------------
(***************************************************************************)
(* The reconciler and one resource of an installed app that runs in pods:  *)
(* a Deployment with its scaled group of instances, or a Job.  A tick      *)
(* computes the desired state from the instance rows and their recorded    *)
(* lifecycle, observes every instance, acts on what it saw, and records    *)
(* the observations; podman, systemd and the operator move in between.     *)
(*                                                                         *)
(* What podman and systemd show of an instance is one of                   *)
(*   none      no unit, no container, no network                           *)
(*   starting  running, its health check without a verdict yet             *)
(*   healthy, unhealthy                                                    *)
(*   exited    the container is there and has exited                       *)
(*   leftover  the container is gone, its network is not                   *)
(*   broken    the unit failed, or is active without a container           *)
(*   limit     systemd gave up: start-limit-hit                            *)
(***************************************************************************)
EXTENDS Integers, Sequences, FiniteSets, SequencesExt

CONSTANTS
  MaxIds,   \* bound: identities for instances
  Scenes,   \* resources to look at: their kind, update strategy and lower bound
            \* of the scale, and a bound on what goes wrong, crashes included
  MaxEdits  \* bound: changes of the definition and stops by the operator

ASSUME ReconcileAssumption ==
  /\ MaxIds \in Nat /\ MaxEdits \in Nat
  /\ Scenes \subseteq [kind : {"Deployment", "Job"}, strategy : {"Rolling", "Replace"},
                       target : Nat \ {0}, upsets : Nat]

Ids == 1..MaxIds
Pods == {"none", "starting", "healthy", "unhealthy", "exited", "leftover", "broken",
         "limit"}
Running == {"starting", "healthy", "unhealthy"}
Lives == {"Pending", "Running", "Ready", "Terminating", "Terminated", "Unscheduled"}
ObsKinds == {"running", "pass", "fail", "stop_sent", "exited", "removed"}

VARIABLES
  scene,           \* the resource, fixed
  version,         \* generation of the definition
  stopped,         \* resource.stop is in force
  pod,             \* what podman and systemd show of each instance
  ver,             \* generation whose spec each container carries
  rows,            \* resource_instances of the group
  order,           \* their order: <<i, j>> when i was created before j
  life,            \* lifecycle state the observation history comes to
  hist,            \* observation kinds in the history
  old,             \* instances first observed more than twice the grace ago
  repFault,        \* health_check_replace_failed is active
  loops,           \* instances under an active crash_loop fault
  written,         \* Reconciler.written_obs
  rolling, bump,   \* rolling_updates, unhealthy_replace_deployments
  guard,           \* replace_failed
  lastSeen,        \* last_seen_generation, 0 for none
  startedJobs, completedJobs,
  phase,           \* where the tick is
  keep, excess,    \* desired Ready, desired Unscheduled and demoted
  at,              \* generation the tick's snapshot was taken at
  seen,            \* what the tick observed; failed observations are absent
  begun, halted,   \* instances the tick started, and stopped
  idle,            \* the loop sleeps until it is notified
  edits, upsets,
  ran,             \* history: a Job's instance was "started" by this daemon, or "seen"
                   \* running, and not stale, by a tick that came to record it; or "no"
  missed           \* history: instances an observation or a stop of which failed

world == <<pod, ver>>
records == <<rows, order, life, hist, old, repFault, loops>>
memory == <<written, rolling, bump, guard, lastSeen, startedJobs, completedJobs>>
tick == <<phase, keep, excess, at, seen, begun, halted, idle>>
bounds == <<edits, upsets>>
vars == <<scene, version, stopped, world, records, memory, tick, bounds,
          ran, missed>>

kind == scene.kind
strategy == scene.strategy
Target == scene.target
MaxUpsets == scene.upsets

-----------------------------------------------------------------------------
(* The lifecycle, from the observations.                                   *)

Rank == [Pending |-> 0, Running |-> 2, Ready |-> 3, Terminating |-> 4, Terminated |-> 5,
         Unscheduled |-> 6]

\* can_transition_to, between the states a pod's observations lead to.
CanTransition(s, t) ==
  \/ s \in {"Pending", "Running"} /\ t \in {"Running", "Ready", "Terminated"}
  \/ s \in {"Running", "Ready"} /\ t \in {"Terminating", "Terminated"}
  \/ s = "Terminating" /\ t = "Terminated"
  \/ t = "Unscheduled"

Advances == [running |-> "Running", pass |-> "Ready", stop_sent |-> "Terminating",
             exited |-> "Terminated", removed |-> "Unscheduled"]

\* One turn of derive_container_lifecycle's loop.
Derive(s, k) ==
  LET cycle == IF s \in {"Terminated", "Unscheduled"} THEN "Pending" ELSE s
  IN IF k = "fail" THEN IF cycle = "Ready" THEN "Running" ELSE cycle
     ELSE IF Rank[cycle] < Rank[Advances[k]] /\ CanTransition(cycle, Advances[k])
          THEN Advances[k] ELSE cycle

\* to_obs_kinds of what observe_pod_instance finds, in order.
Facts(p) ==
  CASE p = "starting" -> <<"running">>
    [] p = "healthy" -> <<"running", "pass">>
    [] p = "unhealthy" -> <<"running", "fail">>
    [] p = "exited" -> <<"exited">>
    [] OTHER -> <<"removed">>

-----------------------------------------------------------------------------
(* The desired state.                                                      *)

\* Faulty form: the replace-loop guard is forgotten.
EffectiveUnguarded ==
  IF stopped THEN 0 ELSE Target + (IF rolling THEN 1 ELSE 0) + (IF bump THEN 1 ELSE 0)

\* Faulty form: a rolling update gets no surplus.
EffectiveFlat ==
  IF stopped THEN 0 ELSE IF guard THEN Target ELSE Target + (IF bump THEN 1 ELSE 0)

\* compute_effective_scales; a stopped deployment is scaled to nothing.
EffectiveScale ==
  IF stopped THEN 0
  ELSE IF guard THEN Target
  ELSE Target + (IF rolling THEN 1 ELSE 0) + (IF bump THEN 1 ELSE 0)

\* What ensure_scaled_group, or get_or_create_singleton, mints of what is
\* missing.  A deleted identity without a pod is as good as a new one.
Minted(count) ==
  LET missing == count - Cardinality(rows)
      free == {i \in Ids \ rows : pod[i] = "none"}
      fits == {M \in SUBSET free : Cardinality(M) = missing}
  IN IF missing <= 0 \/ fits = {} THEN {} ELSE CHOOSE M \in fits : TRUE

\* New instances are younger than the others, and created one by one.
Ordered(new) == order \cup (rows \X new) \cup {p \in new \X new : p[1] < p[2]}

\* ensure_scaled_group keeps the instances recorded Ready first, then the
\* older ones.
First(count, group, ord) ==
  LET ready == {i \in group : life[i] = "Ready"}
      before(i) == IF i \in ready THEN {j \in ready : <<j, i>> \in ord}
                   ELSE ready \cup {j \in group : <<j, i>> \in ord}
  IN {i \in group : Cardinality(before(i)) < count}

Quiet == <<scene, version, stopped>>

\* The start of a tick: snapshot_all_apps and compute_steady, then
\* observe_one_pod of every instance.  Observations may fail.
Observe(failed) ==
  LET count == IF kind = "Job" THEN 1 ELSE EffectiveScale
      new == Minted(count)
      group == rows \cup new
      first == IF kind = "Job" THEN (IF stopped THEN {} ELSE group)
               ELSE First(count, group, Ordered(new))
  IN /\ phase = "rest" /\ ~idle /\ Cardinality(group) >= count
     /\ failed = {} \/ (upsets < MaxUpsets /\ failed \subseteq group)
     /\ rows' = group /\ order' = Ordered(new)
     /\ keep' = first
     /\ excess' = IF kind = "Job" THEN {} ELSE group \ first
     /\ at' = version
     /\ seen' = [i \in group \ failed |->
                   [pod |-> pod[i],
                    stale |-> pod[i] \in Running /\ ver[i] # version]]
     /\ phase' = "observed" /\ begun' = {} /\ halted' = {}
     /\ upsets' = IF failed = {} THEN upsets ELSE upsets + 1
     /\ missed' = missed \cup failed
     /\ UNCHANGED <<Quiet, world, life, hist, old, repFault, loops, memory, idle, edits, ran>>

\* The desired state of the only app cannot be computed: the tick holds
\* everything, and says it had nothing to do.
ObserveDropped ==
  /\ phase = "rest" /\ ~idle /\ upsets < MaxUpsets
  /\ upsets' = upsets + 1 /\ idle' = TRUE
  /\ UNCHANGED <<Quiet, world, records, memory, phase, keep, excess, at, seen, begun,
                 halted, edits, ran, missed>>

-----------------------------------------------------------------------------
(* Actuation.                                                              *)

Observed == DOMAIN seen
Seen(i) == seen[i].pod
Stale == {i \in Observed : seen[i].stale}
Current == {i \in keep \cap Observed : ~seen[i].stale}

\* The order of the desired state, that of ensure_scaled_group: recorded Ready
\* first, then the older ones.
Before(i, j) ==
  IF life[i] = "Ready" /\ life[j] # "Ready" THEN TRUE
  ELSE IF life[j] = "Ready" /\ life[i] # "Ready" THEN FALSE
  ELSE <<i, j>> \in order

\* stale_running.first()
Victim(S) == {i \in S : \A j \in S \ {i} : Before(i, j)}

\* Faulty form: a replacement that is still starting does not hold the rollout.
InhibitedHasty ==
  IF kind # "Deployment" \/ strategy # "Rolling" \/ Stale = {} THEN {}
  ELSE IF {i \in Current : Seen(i) = "healthy"} = {} THEN Stale
  ELSE Stale \ Victim(Stale)

\* compute_stop_inhibitions: a rolling update retires one stale instance at a
\* time, and only while every current one is healthy.
Inhibited ==
  IF kind # "Deployment" \/ strategy # "Rolling" \/ Stale = {} THEN {}
  ELSE IF \E i \in Current : Seen(i) # "healthy" THEN Stale
  ELSE IF Current = {} THEN Stale
  ELSE Stale \ Victim(Stale)

PreviouslyRan(i) == "running" \in written[i] \/ i \in startedJobs

\* Faulty form: only what this process saw running counts.
JobDoneSeen(i) == Seen(i) = "exited" \/ i \in completedJobs

\* A Job that ran is over, however it was noticed.
JobDone(i) ==
  \/ Seen(i) = "exited"
  \/ Seen(i) \notin Running \cup {"exited"} /\ PreviouslyRan(i)
  \/ i \in completedJobs

\* A start-limit hit, or a crash_loop fault on record, suppresses restarts.
Suppressed(i) == Seen(i) = "limit" \/ i \in loops

JobsDone == IF kind = "Job" THEN {i \in keep \cap Observed : JobDone(i)} ELSE {}

\* actuate_one_pod: what is wanted and not running, or stale, is torn down
\* first when something of it is left, and started by a later tick.
Tears ==
  {i \in (keep \cap Observed) \ JobsDone :
     /\ ~Suppressed(i)
     /\ Seen(i) = "broken" \/ (seen[i].stale /\ i \notin Inhibited)}
Begins ==
  {i \in (keep \cap Observed) \ JobsDone :
     ~Suppressed(i) /\ Seen(i) \in {"none", "exited", "leftover"}}

\* Faulty form: a network that outlived its container is not looked for.
UnwantedContainers == {i \in Observed \ keep : Seen(i) \in Running \cup {"exited"}}

\* What is not wanted is stopped while a unit, a container or a network is left.
Unwanted == {i \in Observed \ keep : Seen(i) # "none"}

\* Each start and each stop may fail.
Actuate(failed) ==
  /\ phase = "observed"
  /\ begun' = Begins \ failed
  /\ halted' = JobsDone \cup Tears \cup Unwanted
  /\ failed = {} \/ (upsets < MaxUpsets /\ failed \subseteq halted' \cup Begins)
  /\ \E first \in {"starting", "healthy"} :
       pod' = [i \in Ids |-> IF i \in halted' \ failed THEN "none"
                             ELSE IF i \in begun' THEN first ELSE pod[i]]
  /\ ver' = [i \in Ids |-> IF i \in begun' THEN at
                           ELSE IF i \in halted' \ failed THEN 0 ELSE ver[i]]
  /\ phase' = "acted"
  /\ ran' = IF kind # "Job" THEN ran
            ELSE [i \in Ids |-> IF i \in begun' THEN "started"
                               ELSE IF i \in Tears \cap Stale THEN "no" ELSE ran[i]]
  /\ upsets' = IF failed = {} THEN upsets ELSE upsets + 1
  /\ missed' = missed \cup failed
  /\ UNCHANGED <<Quiet, records, memory, keep, excess, at, seen, idle, edits>>

-----------------------------------------------------------------------------
(* What the tick records.                                                  *)

\* The observations the tick made of an instance, in order.
Found(i) ==
  IF i \in Observed
  THEN Facts(Seen(i)) \o (IF i \in Unwanted THEN <<"stop_sent">> ELSE <<>>)
  ELSE <<>>

\* persist_obs: an observation kind is written once per start of an instance.
ToWrite(i) == SelectSeq(Found(i), LAMBDA k : k \notin written[i])

\* unit_healthy: running, and current or kept by the rollout.
UnitHealthy == {i \in keep \cap Observed :
                  Seen(i) \in Running /\ (~seen[i].stale \/ i \in Inhibited)}

\* apply_crash_loop_faults.
Loops == (loops \cup {i \in keep \cap Observed : Seen(i) = "limit"}) \ UnitHealthy

\* The pods routed to: observed running and not stopped by this tick, unless as
\* a finished Job.
Routed == {i \in Observed \ (Tears \cup Unwanted) : Seen(i) \in Running}

\* update_replace_state's guard: re-derived from the fault on record, and reset
\* by a new generation.
Fresh == lastSeen > 0 /\ at > lastSeen
GuardNow == (guard \/ repFault) /\ ~Fresh

Bumped ==
  /\ kind = "Deployment" /\ ~GuardNow
  /\ \E i \in Routed : Seen(i) # "healthy"
  /\ Cardinality({i \in Routed : Seen(i) = "healthy"}) < Target

\* The lifecycle and the history as this tick leaves them.
LifeNow(i) == FoldLeft(Derive, life[i], ToWrite(i))
HistNow(i) == hist[i] \cup (ToSet(Found(i)) \ written[i])

RetireEligible(i) ==
  LifeNow(i) = "Unscheduled" \/ HistNow(i) = {} \/ "removed" \in HistNow(i)

\* retire_unscheduled_excess: only demoted instances go.
Retirees == {i \in excess : RetireEligible(i)}

\* The youngest instance has had twice the grace and never passed its check.
YoungestFailed ==
  \E i \in rows : /\ \A j \in rows \ {i} : <<j, i>> \in order
                  /\ i \in old /\ HistNow(i) # {} /\ "pass" \notin HistNow(i)

\* ingest_pod_results, update_replace_state and retire_unscheduled_excess.
Ingest ==
  /\ phase = "acted"
  /\ LET roll == kind = "Deployment" /\ Inhibited # {}
         failing == YoungestFailed /\ kind = "Deployment" /\ (roll \/ Bumped)
         gone == rows \ rows'
     IN /\ rows' = rows \ Retirees
        /\ order' = order \cap (rows' \X rows')
        /\ life' = [i \in Ids |-> IF i \in gone THEN "Pending" ELSE LifeNow(i)]
        /\ hist' = [i \in Ids |-> IF i \in gone THEN {} ELSE HistNow(i)]
        /\ old' = old \ gone
        /\ loops' = Loops \ gone
        /\ written' =
             [i \in Ids |-> IF \/ i \in begun \cup gone
                               \/ i \in excess /\ LifeNow(i) \in {"Terminating", "Terminated"}
                            THEN {} ELSE written[i] \cup ToSet(Found(i))]
        /\ rolling' = roll
        /\ bump' = (~failing /\ Bumped)
        /\ guard' = (GuardNow \/ failing)
        /\ repFault' = ((repFault /\ ~Fresh) \/ failing)
  /\ startedJobs' = (startedJobs \cup (IF kind = "Job" THEN begun ELSE {})) \ JobsDone
  /\ completedJobs' = (completedJobs \ begun) \cup JobsDone
  /\ lastSeen' = at
  /\ ran' = IF kind # "Job" THEN ran
            ELSE [i \in Ids |-> IF i \in Observed /\ Seen(i) \in Running /\ i \notin Stale
                               THEN "seen" ELSE ran[i]]
  /\ phase' = "rest" /\ keep' = {} /\ excess' = {} /\ at' = 0 /\ seen' = <<>>
  /\ begun' = {} /\ halted' = {}
  /\ UNCHANGED <<Quiet, world, idle, bounds, missed>>

-----------------------------------------------------------------------------
(* Containers, operator, daemon.                                           *)

\* An instance's pod moves by itself.
Moves(i, to) ==
  /\ pod' = [pod EXCEPT ![i] = to]
  /\ UNCHANGED <<Quiet, ver, records, memory, tick, edits, ran, missed>>

Healthy(i) == pod[i] = "starting" /\ Moves(i, "healthy") /\ UNCHANGED upsets
Heal(i) == pod[i] = "unhealthy" /\ Moves(i, "healthy") /\ UNCHANGED upsets
Upset(i) ==
  /\ upsets < MaxUpsets /\ upsets' = upsets + 1
  /\ \/ pod[i] \in {"starting", "healthy"} /\ kind = "Deployment" /\ Moves(i, "unhealthy")
     \/ pod[i] \in Running /\ Moves(i, "broken")
     \/ pod[i] \in Running /\ Moves(i, "limit")
     \/ pod[i] = "broken" /\ Moves(i, "starting")

\* A Job comes to its end; podman removes the container, perhaps before anyone
\* looks.
JobEnds(i) ==
  /\ kind = "Job" /\ pod[i] \in Running
  /\ \E to \in {"exited", "leftover"} : Moves(i, to)
  /\ UNCHANGED upsets

\* Twice the grace has passed since an instance was first observed.
Elapse(i) ==
  /\ i \in rows \ old /\ hist[i] # {} /\ "pass" \notin hist[i]
  /\ upsets < MaxUpsets /\ upsets' = upsets + 1
  /\ old' = old \cup {i}
  /\ UNCHANGED <<Quiet, world, rows, order, life, hist, repFault, loops, memory, tick, edits,
                 ran, missed>>

\* The definition changes, or the resource is stopped or released; the handler
\* notifies the loop.
Edit ==
  /\ edits < MaxEdits /\ edits' = edits + 1 /\ idle' = FALSE
  /\ \/ version' = version + 1 /\ UNCHANGED stopped
     \/ stopped' = ~stopped /\ UNCHANGED version
  /\ UNCHANGED <<scene, world, records, memory, phase, keep, excess, at, seen,
                 begun, halted, upsets, ran, missed>>

\* The operator clears the faults.
ClearFaults ==
  /\ loops # {} \/ repFault
  /\ loops' = {} /\ repFault' = FALSE
  /\ UNCHANGED <<Quiet, world, rows, order, life, hist, old, memory, tick, bounds, ran,
                 missed>>

\* Start-up removes the networks whose container is gone, if podman lets it.
NetworksSwept ==
  /\ pod' = [i \in Ids |-> IF pod[i] = "leftover" THEN "none" ELSE pod[i]]
  /\ ver' = [i \in Ids |-> IF pod[i] = "leftover" THEN 0 ELSE ver[i]]

\* The daemon restarts, or the node with it: seed_written_obs reads the history.
Crash ==
  /\ upsets < MaxUpsets /\ upsets' = upsets + 1
  /\ written' = hist /\ rolling' = FALSE /\ bump' = FALSE /\ guard' = FALSE
  /\ lastSeen' = 0 /\ startedJobs' = {} /\ completedJobs' = {}
  /\ phase' = "rest" /\ idle' = FALSE /\ seen' = <<>> /\ keep' = {} /\ excess' = {}
  /\ begun' = {} /\ halted' = {} /\ at' = 0
  /\ \/ UNCHANGED world
     \/ NetworksSwept
     \/ pod' = [i \in Ids |-> "none"] /\ ver' = [i \in Ids |-> 0]
  /\ ran' = [i \in Ids |-> IF ran[i] = "started" THEN "no" ELSE ran[i]]
  /\ UNCHANGED <<Quiet, records, edits, missed>>

Init ==
  /\ scene \in Scenes /\ version = 1 /\ stopped = FALSE
  /\ pod = [i \in Ids |-> "none"] /\ ver = [i \in Ids |-> 0]
  /\ rows = {} /\ order = {} /\ life = [i \in Ids |-> "Pending"] /\ hist = [i \in Ids |-> {}]
  /\ old = {} /\ repFault = FALSE /\ loops = {}
  /\ written = [i \in Ids |-> {}] /\ rolling = FALSE /\ bump = FALSE /\ guard = FALSE
  /\ lastSeen = 0 /\ startedJobs = {} /\ completedJobs = {}
  /\ phase = "rest" /\ keep = {} /\ excess = {} /\ at = 0 /\ seen = <<>>
  /\ begun = {} /\ halted = {} /\ idle = FALSE
  /\ edits = 0 /\ upsets = 0 /\ ran = [i \in Ids |-> "no"] /\ missed = {}

\* At most one call of a tick fails.
AtMostOne == {{}} \cup {{i} : i \in Ids}
Tick == (\E f \in AtMostOne : Observe(f)) \/ (\E f \in AtMostOne : Actuate(f)) \/ Ingest

Next ==
  \/ Tick \/ ObserveDropped
  \/ \E i \in Ids : Healthy(i) \/ Heal(i) \/ Upset(i) \/ JobEnds(i) \/ Elapse(i)
  \/ Edit \/ ClearFaults \/ Crash

Spec == Init /\ [][Next]_vars

\* The loop ticks every five seconds unless it sleeps, and a container that
\* starts gets its verdict.
Fairness ==
  /\ WF_vars(Observe({}) \/ Actuate({}) \/ Ingest)
  /\ \A i \in Ids : WF_vars(Healthy(i))

FairSpec == Spec /\ Fairness

-----------------------------------------------------------------------------
(* Properties.                                                             *)

TypeOK ==
  /\ scene \in Scenes /\ version \in Nat /\ stopped \in BOOLEAN
  /\ pod \in [Ids -> Pods] /\ ver \in [Ids -> Nat]
  /\ rows \subseteq Ids /\ order \subseteq rows \X rows
  /\ life \in [Ids -> Lives] /\ hist \in [Ids -> SUBSET ObsKinds]
  /\ written \in [Ids -> SUBSET ObsKinds]
  /\ old \subseteq rows /\ loops \subseteq Ids /\ repFault \in BOOLEAN
  /\ phase \in {"rest", "observed", "acted"} /\ idle \in BOOLEAN
  /\ keep \subseteq Ids /\ excess \subseteq Ids /\ keep \cap excess = {}
  /\ Observed \subseteq Ids /\ lastSeen \in Nat
  /\ ran \in [Ids -> {"no", "started", "seen"}]

\* The instances a tick saw healthy, and those of them its stops leave.
SeenHealthy == {i \in Observed : Seen(i) = "healthy"}
Acts == phase = "observed" /\ phase' = "acted"

\* r[update.rolling]: while the surplus of a rollout is in force, replacing a
\* stale instance leaves as many healthy ones as the deployment's lower bound.
\* (A daemon restart, or an instance whose observation fails, ends the surplus.)
RolloutServes ==
  [][/\ Acts /\ kind = "Deployment" /\ strategy = "Rolling" /\ rolling /\ ~guard
     /\ keep \subseteq Observed /\ \A i \in Stale : Seen(i) = "healthy"
     /\ Tears \cap Stale # {}
     => Cardinality((SeenHealthy \cap keep) \ Tears) >= Target]_vars

\* r[update.rolling]: "At no point during a rolling update may the number of
\* healthy instances drop below the Deployment's scale lower bound".
NoOutage ==
  [][/\ Acts /\ kind = "Deployment" /\ strategy = "Rolling" /\ ~stopped
     /\ SeenHealthy \cap halted' # {}
     => Cardinality(SeenHealthy \ halted') >= Target]_vars

\* r[autonomous.job-terminal]: a Job is started once.  One that a recorded tick saw
\* running is never started again, by whatever daemon and after however many
\* crashes; one that ended unseen only by a daemon that came up after its start,
\* of which nobody has a record.  (A Job that was stopped because it was stale is
\* left out: r[update.jobs] has it restarted.)
JobOnce == [][Acts /\ kind = "Job" => \A i \in begun' : ran[i] = "no"]_vars

\* r[fault.crash-loop], r[autonomous.healthcheck-replace.guard]: what a fault on
\* record forbids stays forbidden across restarts and reboots: an instance under
\* a crash_loop fault is not started before the fault is cleared, and while the
\* failed replacement is on record no further one is brought up.
GuardsHold ==
  /\ [][Acts => begun' \cap loops = {}]_vars
  /\ [][repFault /\ Cardinality(rows') > Cardinality(rows) => Cardinality(rows') <= Target]_vars

\* r[gc.instances.never-actuated]: whatever podman and systemd still hold of an
\* instance is known to its row; only an instance for which an observation or a
\* stop failed may be retired before it is gone.
NoOrphans == \A i \in Ids : pod[i] # "none" => i \in rows \cup missed

Settled ==
  /\ Cardinality({i \in rows : pod[i] = "healthy"}) >= Target
  /\ \A i \in rows : pod[i] \in Running => ver[i] = version

\* What may keep a deployment from its scale: a fault on record, a container that
\* stays unhealthy, a unit systemd gave up, a loop that sleeps.
HeldUp == repFault \/ guard \/ loops # {} \/ idle \/ \E i \in rows : pod[i] \in {"unhealthy", "limit"}

\* Every instance of a surplus is stale: the rollout has none to wait for.
Wedged ==
  /\ strategy = "Rolling" /\ Cardinality(rows) > Target
  /\ \A i \in rows : pod[i] \in Running /\ ver[i] # version

\* r[reconciliation.convergence]: when the containers and the operator leave it
\* alone, a deployment comes to its scale, healthy and of the last definition,
\* unless it is held up; a second change in a rollout may wedge it.
Converges == <>[](kind = "Deployment" /\ ~stopped => Settled \/ HeldUp \/ Wedged)
=============================================================================
