-------------------------- MODULE ReconcileProofs ---------------------------
(***************************************************************************)
(* Theorems about Reconcile, for any number of instances, any scale and    *)
(* any number of upsets, edits and crashes.                                *)
(*                                                                         *)
(* A tick acts on what it saw.  What makes that safe is that an instance   *)
(* without a pod gets one from the tick only: what a tick saw gone is gone *)
(* until it acts, and what it stopped stays away until it has recorded it  *)
(* (Stopped).  A Job's start is remembered, by the tick that made it and   *)
(* then by the reconciler, as long as the daemon lives; that it was seen   *)
(* running is on record for every daemon (Remembered).                     *)
(***************************************************************************)
EXTENDS Reconcile, FiniteSetTheorems, TLAPS

Shape ==
  /\ scene \in Scenes /\ pod \in [Ids -> Pods] /\ rows \subseteq Ids
  /\ keep \subseteq rows /\ excess \subseteq rows /\ keep \cap excess = {}
  /\ begun \subseteq rows /\ Observed \subseteq rows
  /\ phase \in {"rest", "observed", "acted"}
  /\ phase \in {"rest", "observed"} => begun = {}
  /\ phase = "rest" => excess = {}
  /\ ran \in [Ids -> {"no", "started", "seen"}]

\* Of a demoted instance that was observed and stopped without an error
\* nothing is left when the tick retires it.
Stopped ==
  \A i \in excess \ missed :
    /\ phase = "observed" => i \in Observed /\ (Seen(i) = "none" => pod[i] = "none")
    /\ phase = "acted" => pod[i] = "none"

\* What is recorded as written is in the history.  A Job is never demoted; its
\* start is remembered until the daemon dies, and that it ran for good.
Remembered ==
  /\ \A i \in Ids : written[i] \subseteq hist[i]
  /\ kind = "Job" =>
       /\ excess = {}
       /\ \A i \in begun : Seen(i) \notin Running /\ ran[i] = "started"
       /\ \A i \in Ids : ran[i] = "started" => i \in startedJobs \cup completedJobs \cup begun
       /\ \A i \in Ids : ran[i] = "seen" => "running" \in written[i]

\* While the failed replacement is on record there is no surplus.
Guarded == repFault => guard \/ (~rolling /\ ~bump)

IInv == Shape /\ Stopped /\ NoOrphans /\ Remembered /\ Guarded

USE DEF kind, strategy, Target, MaxUpsets

-----------------------------------------------------------------------------
(* Minting.                                                                *)

LEMMA FiniteIds == IsFiniteSet(Ids)
BY ReconcileAssumption, FS_Interval DEF Ids

LEMMA SceneType ==
  ASSUME scene \in Scenes
  PROVE  scene.kind \in {"Deployment", "Job"} /\ scene.target \in Nat \ {0}
BY ReconcileAssumption

\* What is minted is new and of the number that was missing.
LEMMA MintedNew ==
  ASSUME rows \subseteq Ids, NEW count \in Nat
  PROVE  /\ Minted(count) \subseteq Ids \ rows
         /\ Minted(count) # {} => /\ Cardinality(rows) < count
                                  /\ Cardinality(Minted(count)) = count - Cardinality(rows)
<1> DEFINE missing == count - Cardinality(rows)
           free == {i \in Ids \ rows : pod[i] = "none"}
           fits == {M \in SUBSET free : Cardinality(M) = missing}
<1>1. IsFiniteSet(rows)
  BY FiniteIds, FS_Subset
<1>2. Cardinality(rows) \in Nat
  BY <1>1, FS_CardinalityType
<1>3. CASE missing <= 0 \/ fits = {}
  BY <1>3 DEF Minted
<1>4. CASE ~(missing <= 0 \/ fits = {})
  <2>1. Minted(count) = CHOOSE M \in fits : TRUE
    BY <1>4 DEF Minted
  <2>2. Minted(count) \in fits
    BY <1>4, <2>1
  <2>3. Minted(count) \subseteq free /\ Cardinality(Minted(count)) = missing
    BY <2>2
  <2>4. Cardinality(rows) < count
    BY <1>2, <1>4
  <2> QED BY <2>3, <2>4
<1> QED BY <1>3, <1>4

\* The scale a tick aims at.
Count == IF kind = "Job" THEN 1 ELSE EffectiveScale

LEMMA CountType ==
  ASSUME scene \in Scenes
  PROVE  Count \in Nat
<1>1. scene.target \in Nat
  BY SceneType
<1> QED BY <1>1 DEF Count, EffectiveScale

LEMMA FirstSub ==
  ASSUME NEW count, NEW group, NEW ord
  PROVE  First(count, group, ord) \subseteq group
BY DEF First

-----------------------------------------------------------------------------
(* The tick.                                                               *)

\* What Observe does to the rows and to the tick.
LEMMA ObserveDoes ==
  ASSUME Shape, NEW failed, Observe(failed)
  PROVE  /\ rows' = rows \cup Minted(Count) /\ Minted(Count) \subseteq Ids \ rows
         /\ keep' \subseteq rows' /\ excess' \subseteq rows' /\ keep' \cap excess' = {}
         /\ kind = "Job" => excess' = {}
         /\ Observed' = rows' \ failed
         /\ \A i \in rows' \ failed : seen'[i].pod = pod[i]
<1>1. PICK first : first = IF kind = "Job" THEN (IF stopped THEN {} ELSE rows \cup Minted(Count))
                           ELSE First(Count, rows \cup Minted(Count), Ordered(Minted(Count)))
  OBVIOUS
<1>2. first \subseteq rows \cup Minted(Count)
  BY <1>1, FirstSub
<1>3. /\ rows' = rows \cup Minted(Count) /\ keep' = first
      /\ excess' = IF kind = "Job" THEN {} ELSE (rows \cup Minted(Count)) \ first
  BY <1>1 DEF Observe, Count
<1>4. seen' = [i \in rows' \ failed |->
                 [pod |-> pod[i], stale |-> pod[i] \in Running /\ ver[i] # version]]
  BY <1>3 DEF Observe, Count
<1>5. Observed' = rows' \ failed /\ \A i \in rows' \ failed : seen'[i].pod = pod[i]
  BY <1>4 DEF Observed
<1>6. Minted(Count) \subseteq Ids \ rows
  BY CountType, MintedNew DEF Shape
<1>7. keep' \subseteq rows' /\ excess' \subseteq rows' /\ keep' \cap excess' = {}
  BY <1>2, <1>3
<1> QED BY <1>3, <1>5, <1>6, <1>7

\* What Actuate starts, and what it leaves of the others.
LEMMA ActuateDoes ==
  ASSUME Shape, NEW failed, Actuate(failed)
  PROVE  /\ begun' \subseteq Begins /\ begun' \subseteq keep /\ begun' \cap loops = {}
         /\ missed' = missed \cup failed
         /\ pod' \in [Ids -> Pods]
         /\ \A i \in Ids : pod'[i] # "none" => i \in begun' \/ pod[i] # "none"
         /\ \A i \in (Ids \cap Unwanted) \ failed : pod'[i] = "none"
<1>1. begun' \subseteq Begins /\ begun' \subseteq keep /\ begun' \cap loops = {}
  BY DEF Actuate, Begins, Suppressed
<1>2. PICK first \in {"starting", "healthy"} :
        pod' = [i \in Ids |-> IF i \in halted' \ failed THEN "none"
                              ELSE IF i \in begun' THEN first ELSE pod[i]]
  BY DEF Actuate
<1>3. pod' \in [Ids -> Pods]
  BY <1>2 DEF Shape, Pods
<1>4. \A i \in Ids : pod'[i] # "none" => i \in begun' \/ pod[i] # "none"
  BY <1>2
<1>5. Unwanted \subseteq halted'
  BY DEF Actuate
<1>6. \A i \in (Ids \cap Unwanted) \ failed : pod'[i] = "none"
  BY <1>2, <1>5
<1>7. missed' = missed \cup failed
  BY DEF Actuate
<1> QED BY <1>1, <1>3, <1>4, <1>6, <1>7

LEMMA ObserveKeeps ==
  ASSUME IInv, NEW failed, Observe(failed)
  PROVE  IInv'
<1>1. /\ rows' = rows \cup Minted(Count) /\ Minted(Count) \subseteq Ids \ rows
      /\ keep' \subseteq rows' /\ excess' \subseteq rows' /\ keep' \cap excess' = {}
      /\ kind = "Job" => excess' = {}
      /\ Observed' = rows' \ failed
      /\ \A i \in rows' \ failed : seen'[i].pod = pod[i]
  BY ObserveDoes DEF IInv
<1>2. /\ phase' = "observed" /\ begun' = {} /\ missed' = missed \cup failed
      /\ UNCHANGED <<scene, pod, ver, repFault, rolling, bump, guard, startedJobs,
                     completedJobs, written, hist, ran>>
  BY DEF Observe, Quiet, world, memory
<1>3. Shape'
  BY <1>1, <1>2 DEF IInv, Shape
<1>4. Stopped'
  BY <1>1, <1>2 DEF Stopped, Seen
<1>5. NoOrphans'
  BY <1>1, <1>2 DEF IInv, NoOrphans
<1>6. Remembered'
  <2>1. begun = {}
    BY DEF Observe, IInv, Shape
  <2> QED BY <1>1, <1>2, <2>1 DEF IInv, Remembered
<1>7. Guarded'
  BY <1>2 DEF IInv, Guarded
<1> QED BY <1>3, <1>4, <1>5, <1>6, <1>7 DEF IInv

LEMMA ActuateKeeps ==
  ASSUME IInv, NEW failed, Actuate(failed)
  PROVE  IInv'
<1>1. /\ begun' \subseteq Begins /\ begun' \subseteq keep
      /\ missed' = missed \cup failed
      /\ pod' \in [Ids -> Pods]
      /\ \A i \in Ids : pod'[i] # "none" => i \in begun' \/ pod[i] # "none"
      /\ \A i \in (Ids \cap Unwanted) \ failed : pod'[i] = "none"
  BY ActuateDoes DEF IInv
<1>2. /\ phase = "observed" /\ phase' = "acted"
      /\ UNCHANGED <<scene, rows, repFault, rolling, bump, guard, startedJobs,
                     completedJobs, keep, excess, seen, written, hist>>
  BY DEF Actuate, Quiet, records, memory
<1>3. ran' = IF kind # "Job" THEN ran
             ELSE [i \in Ids |-> IF i \in begun' THEN "started"
                                ELSE IF i \in Tears \cap Stale THEN "no" ELSE ran[i]]
  BY DEF Actuate
<1>4. ran' \in [Ids -> {"no", "started", "seen"}]
  BY <1>3 DEF IInv, Shape
<1>5. Shape'
  BY <1>1, <1>2, <1>4 DEF IInv, Shape, Observed
<1>6. Stopped'
  <2>1. SUFFICES ASSUME NEW i \in excess \ (missed \cup failed)
                 PROVE  pod'[i] = "none"
    BY <1>1, <1>2 DEF Stopped
  <2>2. i \in Observed /\ i \in Ids /\ i \notin keep /\ (Seen(i) = "none" => pod[i] = "none")
    BY <1>2 DEF IInv, Stopped, Shape
  <2>3. CASE Seen(i) = "none"
    BY <1>1, <2>2, <2>3
  <2>4. CASE Seen(i) # "none"
    BY <1>1, <2>2, <2>4 DEF Unwanted
  <2> QED BY <2>3, <2>4
<1>7. NoOrphans'
  BY <1>1, <1>2 DEF IInv, NoOrphans, Shape
<1>8. Remembered'
  <2>1. \A i \in Ids : written'[i] \subseteq hist'[i]
    BY <1>2 DEF IInv, Remembered
  <2>2. ASSUME kind = "Job"
        PROVE  /\ excess' = {}
               /\ \A i \in begun' : Seen(i) \notin Running /\ ran'[i] = "started"
               /\ \A i \in Ids : ran'[i] = "started" =>
                    i \in startedJobs' \cup completedJobs' \cup begun'
               /\ \A i \in Ids : ran'[i] = "seen" => "running" \in written'[i]
    <3>1. begun = {} /\ begun' \subseteq Ids
      BY <1>1, <1>2 DEF IInv, Shape
    <3>2. \A i \in Ids : /\ i \in begun' => ran'[i] = "started"
                         /\ i \notin begun' => ran'[i] = ran[i] \/ ran'[i] = "no"
      BY <1>3, <2>2
    <3>3. \A i \in begun' : Seen(i) \notin Running
      BY <1>1 DEF Begins, Running
    <3>4. /\ excess = {}
          /\ \A i \in Ids : ran[i] = "started" => i \in startedJobs \cup completedJobs
          /\ \A i \in Ids : ran[i] = "seen" => "running" \in written[i]
      BY <2>2, <3>1 DEF IInv, Remembered
    <3>5. \A i \in begun' : Seen(i) \notin Running /\ ran'[i] = "started"
      BY <3>1, <3>2, <3>3
    <3>6. \A i \in Ids : ran'[i] = "started" => i \in startedJobs' \cup completedJobs' \cup begun'
      <4>1. startedJobs' = startedJobs /\ completedJobs' = completedJobs
        BY <1>2
      <4> QED BY <3>2, <3>4, <4>1
    <3>7. \A i \in Ids : ran'[i] = "seen" => "running" \in written'[i]
      <4>1. written' = written
        BY <1>2
      <4> QED BY <3>2, <3>4, <4>1
    <3>8. excess' = {}
      BY <1>2, <3>4
    <3> QED BY <3>5, <3>6, <3>7, <3>8
  <2>3. \A i : Seen(i)' = Seen(i)
    BY <1>2 DEF Seen
  <2> QED BY <1>2, <2>1, <2>2, <2>3 DEF Remembered
<1>9. Guarded'
  BY <1>2 DEF IInv, Guarded
<1> QED BY <1>5, <1>6, <1>7, <1>8, <1>9 DEF IInv

\* What was seen running is among what the tick found.
LEMMA RunningFound ==
  ASSUME NEW i, i \in Observed, Seen(i) \in Running
  PROVE  "running" \in ToSet(Found(i))
<1>1. PICK t : t = IF i \in Unwanted THEN <<"stop_sent">> ELSE <<>>
  OBVIOUS
<1>2. PICK f : f = Facts(Seen(i))
  OBVIOUS
<1>3. t \in Seq(ObsKinds) /\ f \in Seq(ObsKinds) /\ Len(f) >= 1 /\ f[1] = "running"
  <2>1. t = <<"stop_sent">> \/ t = <<>>
    BY <1>1
  <2>2. t \in Seq(ObsKinds)
    <3>1. <<>> \in Seq(ObsKinds)
      OBVIOUS
    <3>2. <<"stop_sent">> \in Seq(ObsKinds)
      BY DEF ObsKinds
    <3> QED BY <2>1, <3>1, <3>2
  <2>3. f = <<"running">> \/ f = <<"running", "pass">> \/ f = <<"running", "fail">>
    BY <1>2 DEF Facts, Running
  <2>4. f \in Seq(ObsKinds) /\ Len(f) >= 1 /\ f[1] = "running"
    BY <2>3 DEF ObsKinds
  <2> QED BY <2>2, <2>4
<1>4. Found(i) = f \o t
  BY <1>1, <1>2 DEF Found
<1>5. 1 \in DOMAIN (f \o t) /\ (f \o t)[1] = "running"
  BY <1>3
<1> QED BY <1>4, <1>5 DEF ToSet

LEMMA IngestKeeps ==
  ASSUME IInv, Ingest
  PROVE  IInv'
<1>1. /\ phase = "acted" /\ phase' = "rest" /\ keep' = {} /\ excess' = {} /\ seen' = <<>>
      /\ begun' = {} /\ rows' = rows \ Retirees
      /\ startedJobs' = (startedJobs \cup (IF kind = "Job" THEN begun ELSE {})) \ JobsDone
      /\ completedJobs' = (completedJobs \ begun) \cup JobsDone
      /\ UNCHANGED <<scene, pod, missed>>
  BY DEF Ingest, Quiet, world
<1>2. /\ repFault' => guard'
      /\ ran' \in [Ids -> {"no", "started", "seen"}]
      /\ kind = "Job" =>
           ran' = [i \in Ids |-> IF i \in Observed /\ Seen(i) \in Running /\ i \notin Stale
                                THEN "seen" ELSE ran[i]]
  BY DEF Ingest, GuardNow, IInv, Shape
<1>3. Retirees \subseteq excess
  BY DEF Retirees
<1>4. Observed' = {}
  BY <1>1 DEF Observed
<1>5. Shape'
  BY <1>1, <1>2, <1>4 DEF IInv, Shape
<1>6. Stopped'
  BY <1>1 DEF Stopped
<1>7. NoOrphans'
  BY <1>1, <1>3 DEF IInv, NoOrphans, Stopped
<1>8. Remembered'
  <2>1. \A i \in Ids : written'[i] \subseteq hist'[i]
    <3>1. \A i \in Ids : written[i] \subseteq hist[i]
      BY DEF IInv, Remembered
    <3> QED BY <3>1 DEF Ingest, HistNow
  <2>2. ASSUME kind = "Job"
        PROVE  /\ \A i \in Ids : ran'[i] = "started" => i \in startedJobs' \cup completedJobs'
               /\ \A i \in Ids : ran'[i] = "seen" => "running" \in written'[i]
    <3>1. /\ excess = {}
          /\ \A i \in begun : Seen(i) \notin Running /\ ran[i] = "started"
          /\ \A i \in Ids : ran[i] = "started" => i \in startedJobs \cup completedJobs \cup begun
          /\ \A i \in Ids : ran[i] = "seen" => "running" \in written[i]
      BY <2>2 DEF IInv, Remembered
    <3>2. rows' = rows
      BY <1>1, <1>3, <3>1
    <3>3. \A i \in Ids : ran'[i] = ran[i] \/ (ran'[i] = "seen" /\ i \in Observed /\ Seen(i) \in Running)
      BY <1>2, <2>2
    <3>4. \A i \in Ids \ begun : written'[i] = written[i] \cup ToSet(Found(i))
      BY <3>1, <3>2 DEF Ingest
    <3>5. ASSUME NEW i \in Ids, i \in Observed, Seen(i) \in Running
          PROVE  "running" \in ToSet(Found(i))
      BY <3>5, RunningFound
    <3>6. \A i \in Ids : ran'[i] = "started" => i \in startedJobs' \cup completedJobs'
      BY <1>1, <2>2, <3>1, <3>3
    <3>7. ASSUME NEW i \in Ids, ran'[i] = "seen"
          PROVE  "running" \in written'[i]
      <4>1. i \notin begun
        BY <3>1, <3>3, <3>7
      <4> QED BY <3>1, <3>3, <3>4, <3>5, <3>7, <4>1
    <3> QED BY <3>6, <3>7
  <2> QED BY <1>1, <2>1, <2>2 DEF Remembered
<1>9. Guarded'
  BY <1>2 DEF Guarded
<1> QED BY <1>5, <1>6, <1>7, <1>8, <1>9 DEF IInv

-----------------------------------------------------------------------------
(* Containers, operator, daemon.                                           *)

\* Where there is no pod, none comes by itself.
LEMMA MovesKeeps ==
  ASSUME IInv, NEW i \in Ids, NEW to \in Pods, pod[i] # "none", Moves(i, to)
  PROVE  IInv'
<1>1. /\ pod' = [pod EXCEPT ![i] = to]
      /\ UNCHANGED <<scene, rows, repFault, rolling, bump, guard, startedJobs, completedJobs,
                     phase, keep, excess, seen, begun, written, hist, ran, missed>>
  BY DEF Moves, Quiet, records, memory, tick
<1>2. pod' \in [Ids -> Pods] /\ \A j \in Ids : pod[j] = "none" => pod'[j] = "none"
  BY <1>1 DEF IInv, Shape
<1>3. Shape'
  BY <1>1, <1>2 DEF IInv, Shape, Observed
<1>4. Stopped'
  BY <1>1, <1>2 DEF IInv, Shape, Stopped, Observed, Seen
<1>5. NoOrphans'
  BY <1>1, <1>2 DEF IInv, NoOrphans
<1>6. Remembered'
  BY <1>1 DEF IInv, Remembered, Seen
<1>7. Guarded'
  BY <1>1 DEF IInv, Guarded
<1> QED BY <1>3, <1>4, <1>5, <1>6, <1>7 DEF IInv

LEMMA CrashKeeps ==
  ASSUME IInv, Crash
  PROVE  IInv'
<1>1. /\ phase' = "rest" /\ seen' = <<>> /\ keep' = {} /\ excess' = {} /\ begun' = {}
      /\ rolling' = FALSE /\ bump' = FALSE /\ written' = hist
      /\ ran' = [i \in Ids |-> IF ran[i] = "started" THEN "no" ELSE ran[i]]
      /\ UNCHANGED <<scene, rows, hist, missed>>
  BY DEF Crash, Quiet, records
<1>2. pod' \in [Ids -> Pods] /\ \A i \in Ids : pod[i] = "none" => pod'[i] = "none"
  BY DEF Crash, NetworksSwept, world, IInv, Shape, Pods
<1>3. Observed' = {}
  BY <1>1 DEF Observed
<1>4. Shape'
  BY <1>1, <1>2, <1>3 DEF IInv, Shape
<1>5. Stopped'
  BY <1>1 DEF Stopped
<1>6. NoOrphans'
  BY <1>1, <1>2 DEF IInv, NoOrphans
<1>7. Remembered'
  BY <1>1 DEF IInv, Remembered, Shape
<1>8. Guarded'
  BY <1>1 DEF Guarded
<1> QED BY <1>4, <1>5, <1>6, <1>7, <1>8 DEF IInv

\* The steps that move neither a pod nor the tick, nor the rows.
Aside ==
  /\ UNCHANGED <<scene, pod, rows, rolling, bump, guard, startedJobs, completedJobs, phase,
                 keep, excess, seen, begun, written, hist, ran, missed>>
  /\ repFault' => repFault

LEMMA AsideKeeps ==
  ASSUME IInv, Aside
  PROVE  IInv'
<1>1. Shape'
  BY DEF IInv, Aside, Shape, Observed
<1>2. Stopped'
  BY DEF IInv, Aside, Stopped, Observed, Seen
<1>3. NoOrphans'
  BY DEF IInv, Aside, NoOrphans
<1>4. Remembered'
  BY DEF IInv, Aside, Remembered, Seen
<1>5. Guarded'
  BY DEF IInv, Aside, Guarded
<1> QED BY <1>1, <1>2, <1>3, <1>4, <1>5 DEF IInv

LEMMA IInvStep ==
  ASSUME IInv, [Next]_vars
  PROVE  IInv'
<1>1. CASE Tick
  BY <1>1, ObserveKeeps, ActuateKeeps, IngestKeeps DEF Tick
<1>2. CASE ObserveDropped
  BY <1>2, AsideKeeps DEF ObserveDropped, Aside, Quiet, world, records, memory
<1>3. ASSUME NEW i \in Ids, Healthy(i) \/ Heal(i)
      PROVE  IInv'
  BY <1>3, MovesKeeps DEF Healthy, Heal, Pods
<1>4. ASSUME NEW i \in Ids, Upset(i)
      PROVE  IInv'
  BY <1>4, MovesKeeps DEF Upset, Pods, Running
<1>5. ASSUME NEW i \in Ids, JobEnds(i)
      PROVE  IInv'
  BY <1>5, MovesKeeps DEF JobEnds, Pods, Running
<1>6. ASSUME NEW i \in Ids, Elapse(i)
      PROVE  IInv'
  BY <1>6, AsideKeeps DEF Elapse, Aside, Quiet, world, memory, tick
<1>7. CASE Edit
  BY <1>7, AsideKeeps DEF Edit, Aside, world, records, memory
<1>8. CASE ClearFaults
  BY <1>8, AsideKeeps DEF ClearFaults, Aside, Quiet, world, memory, tick, bounds
<1>9. CASE Crash
  BY <1>9, CrashKeeps
<1>10. CASE UNCHANGED vars
  BY <1>10, AsideKeeps DEF vars, Aside, world, records, memory, tick, bounds
<1> QED BY <1>1, <1>2, <1>3, <1>4, <1>5, <1>6, <1>7, <1>8, <1>9, <1>10 DEF Next

LEMMA IInvInit ==
  ASSUME Init
  PROVE  IInv
<1>1. Observed = {}
  BY DEF Init, Observed
<1>2. Shape
  BY <1>1 DEF Init, Shape, Pods
<1>3. Stopped /\ NoOrphans /\ Guarded
  BY DEF Init, Stopped, NoOrphans, Guarded
<1>4. Remembered
  BY DEF Init, Remembered
<1> QED BY <1>2, <1>3, <1>4 DEF IInv

LEMMA IInvHolds == Spec => []IInv
<1>1. Init => IInv
  BY IInvInit
<1>2. IInv /\ [Next]_vars => IInv'
  BY IInvStep
<1> QED BY <1>1, <1>2, PTL DEF Spec

-----------------------------------------------------------------------------
(* The theorems.                                                           *)

Once == Acts /\ kind = "Job" => \A i \in begun' : ran[i] = "no"

LEMMA OnceStep ==
  ASSUME IInv, [Next]_vars
  PROVE  Once
<1> SUFFICES ASSUME Acts, kind = "Job", NEW i \in begun' PROVE ran[i] = "no"
  BY DEF Once
<1>1. phase = "observed" /\ phase' = "acted"
  BY DEF Acts
<1>2. PICK f : Actuate(f)
  BY <1>1, Zenon DEF Next, Tick, Observe, Ingest, ObserveDropped, Healthy, Heal, Upset, JobEnds,
     Moves, Elapse, Edit, ClearFaults, Crash, vars, tick
<1>3. i \in Begins /\ i \in keep
  BY <1>2, ActuateDoes DEF IInv
<1>4. i \in Ids /\ begun = {} /\ ran[i] \in {"no", "started", "seen"}
  BY <1>1, <1>3 DEF IInv, Shape
<1>5. i \notin startedJobs \cup completedJobs /\ "running" \notin written[i]
  BY <1>3 DEF Begins, JobsDone, JobDone, PreviouslyRan, Running
<1> QED BY <1>4, <1>5 DEF IInv, Remembered

\* r[autonomous.job-terminal]: however ticks, failures of the drivers, the end
\* of the Job, edits and restarts of the daemon interleave, a Job is not started
\* twice by one daemon, nor ever again once a recorded tick has seen it run.
THEOREM JobRunsOnce == Spec => JobOnce
<1>1. IInv /\ [Next]_vars => [Once]_vars
  BY OnceStep
<1>2. Spec => [][Once]_vars
  BY <1>1, IInvHolds, PTL DEF Spec
<1> QED BY <1>2 DEF JobOnce, Once

\* r[gc.instances.never-actuated]: as long as observations and stops succeed, no
\* row is retired while podman or systemd still holds something of its instance.
THEOREM NothingOrphaned == Spec => []NoOrphans
<1>1. IInv => NoOrphans
  BY DEF IInv
<1> QED BY <1>1, IInvHolds, PTL

LoopsHold == Acts => begun' \cap loops = {}
FaultHolds == repFault /\ Cardinality(rows') > Cardinality(rows) => Cardinality(rows') <= Target

LEMMA LoopsHoldStep ==
  ASSUME IInv, [Next]_vars
  PROVE  LoopsHold
<1> SUFFICES ASSUME Acts PROVE begun' \cap loops = {}
  BY DEF LoopsHold
<1>1. phase = "observed" /\ phase' = "acted"
  BY DEF Acts
<1>2. PICK f : Actuate(f)
  BY <1>1, Zenon DEF Next, Tick, Observe, Ingest, ObserveDropped, Healthy, Heal, Upset, JobEnds,
     Moves, Elapse, Edit, ClearFaults, Crash, vars, tick
<1> QED BY <1>2, ActuateDoes DEF IInv

\* Only the start of a tick adds rows, and no more than the scale asks for.
LEMMA FaultHoldsStep ==
  ASSUME IInv, [Next]_vars
  PROVE  FaultHolds
<1> SUFFICES ASSUME repFault, Cardinality(rows') > Cardinality(rows)
             PROVE  Cardinality(rows') <= Target
  BY DEF FaultHolds
<1>1. IsFiniteSet(rows) /\ Cardinality(rows) \in Nat
  BY FiniteIds, FS_Subset, FS_CardinalityType DEF IInv, Shape
<1>2. ASSUME rows' \subseteq rows
      PROVE  FALSE
  <2>1. IsFiniteSet(rows') /\ Cardinality(rows') <= Cardinality(rows)
    BY <1>1, <1>2, FS_Subset
  <2>2. Cardinality(rows') \in Nat
    BY <2>1, FS_CardinalityType
  <2> QED BY <1>1, <2>1, <2>2
<1>3. rows' \subseteq rows \/ \E f : Observe(f)
  BY DEF Next, Tick, Actuate, Ingest, ObserveDropped, Healthy, Heal, Upset, JobEnds,
     Moves, Elapse, Edit, ClearFaults, Crash, vars, records
<1>4. PICK f : Observe(f)
  BY <1>2, <1>3
<1>5. rows' = rows \cup Minted(Count) /\ Minted(Count) \subseteq Ids \ rows
  BY <1>4, ObserveDoes DEF IInv
<1>6. Minted(Count) # {}
  BY <1>2, <1>5
<1>7. Count \in Nat
  BY CountType DEF IInv, Shape
<1>8. Cardinality(Minted(Count)) = Count - Cardinality(rows)
  BY <1>6, <1>7, MintedNew DEF IInv, Shape
<1>9. IsFiniteSet(Minted(Count)) /\ rows \cap Minted(Count) = {}
  BY <1>5, FiniteIds, FS_Subset
<1>10. Cardinality(rows') = Cardinality(rows) + Cardinality(Minted(Count)) - 0
  BY <1>1, <1>5, <1>9, FS_Union, FS_EmptySet
<1>11. Cardinality(rows') = Count
  BY <1>1, <1>7, <1>8, <1>10
<1>12. scene.target \in Nat \ {0}
  BY SceneType DEF IInv, Shape
<1>13. guard \/ (~rolling /\ ~bump)
  BY DEF IInv, Guarded
<1>14. Count <= Target
  BY <1>12, <1>13 DEF Count, EffectiveScale
<1> QED BY <1>11, <1>14

\* r[fault.crash-loop], r[autonomous.healthcheck-replace.guard]: what a fault on
\* record forbids stays forbidden, across restarts and reboots: no start of an
\* instance under crash_loop, no surplus under health_check_replace_failed.
THEOREM FaultsBind == Spec => GuardsHold
<1>1. IInv /\ [Next]_vars => [LoopsHold]_vars
  BY LoopsHoldStep
<1>2. IInv /\ [Next]_vars => [FaultHolds]_vars
  BY FaultHoldsStep
<1>3. Spec => [][LoopsHold]_vars
  BY <1>1, IInvHolds, PTL DEF Spec
<1>4. Spec => [][FaultHolds]_vars
  BY <1>2, IInvHolds, PTL DEF Spec
<1> QED BY <1>3, <1>4 DEF GuardsHold, LoopsHold, FaultHolds

-----------------------------------------------------------------------------
(* Rollouts.  The rows are in a strict total order, so that ranking them   *)
(* by what comes before them numbers them without a gap: a tick that aims  *)
(* at a surplus keeps one instance more than the lower bound.              *)

\* ord is a strict total order on S.
Total(ord, S) ==
  /\ \A i \in S : <<i, i>> \notin ord
  /\ \A i, j \in S : i # j => <<i, j>> \in ord \/ <<j, i>> \in ord
  /\ \A i, j, k \in S : <<i, j>> \in ord /\ <<j, k>> \in ord => <<i, k>> \in ord

InOrder == order \subseteq rows \X rows /\ Total(order, rows)

Surplus ==
  kind = "Deployment" /\ rolling /\ ~guard /\ keep # {} => Cardinality(keep) >= Target + 1

\* Elements ranked by the number of those before them: the first n are n.
LEMMA RankedPrefix ==
  ASSUME NEW S, IsFiniteSet(S), NEW n \in Nat, Cardinality(S) >= n,
         NEW B \in [S -> SUBSET S],
         \A i \in S : i \notin B[i],
         \A i, j \in S : i # j => \/ i \in B[j] /\ B[i] \subseteq B[j]
                                  \/ j \in B[i] /\ B[j] \subseteq B[i]
  PROVE  Cardinality({i \in S : Cardinality(B[i]) < n}) >= n
<1> DEFINE N == Cardinality(S)
           f == [i \in S |-> Cardinality(B[i])]
           P == {i \in S : Cardinality(B[i]) < n}
           g == [i \in P |-> Cardinality(B[i])]
<1>1. N \in Nat
  BY FS_CardinalityType
<1>2. ASSUME NEW i \in S
      PROVE  IsFiniteSet(B[i]) /\ Cardinality(B[i]) \in 0..(N - 1)
  <2>1. IsFiniteSet(S \ {i}) /\ Cardinality(S \ {i}) = N - 1
    BY FS_RemoveElement
  <2>2. B[i] \in SUBSET (S \ {i})
    OBVIOUS
  <2>3. IsFiniteSet(B[i]) /\ Cardinality(B[i]) <= N - 1
    BY <2>1, <2>2, FS_Subset
  <2>4. Cardinality(B[i]) \in Nat
    BY <2>3, FS_CardinalityType
  <2> QED BY <1>1, <2>3, <2>4
<1>3. f \in [S -> 0..(N - 1)]
  BY <1>2
<1>4. \A i, j \in S : i \in B[j] /\ B[i] \subseteq B[j] => Cardinality(B[i]) # Cardinality(B[j])
  BY <1>2, FS_Subset
<1>5. \A i, j \in S : f[i] = f[j] => i = j
  BY <1>4
<1>6. f \in Injection(S, 0..(N - 1))
  BY <1>3, <1>5 DEF Injection, IsInjective
<1>7. IsFiniteSet(0..(N - 1)) /\ Cardinality(0..(N - 1)) = N
  <2>1. PICK m \in Int : m = N - 1 /\ m + 1 = N /\ m >= -1
    BY <1>1
  <2>2. IsFiniteSet(0..m) /\ Cardinality(0..m) = IF 0 > m THEN 0 ELSE m - 0 + 1
    BY FS_Interval
  <2>3. Cardinality(0..m) = m + 1
    BY <2>1, <2>2
  <2> QED BY <2>1, <2>2, <2>3
<1>8. f \in Surjection(S, 0..(N - 1))
  BY <1>6, <1>7, FS_Injection
<1>9. g \in Surjection(P, 0..(n - 1))
  <2>1. g \in [P -> 0..(n - 1)]
    BY <1>2
  <2>2. ASSUME NEW t \in 0..(n - 1)
        PROVE  \E s \in P : g[s] = t
    <3>1. t \in 0..(N - 1) /\ t < n
      BY <1>1
    <3>2. PICK s \in S : f[s] = t
      BY <1>8, <3>1 DEF Surjection
    <3>3. s \in P /\ g[s] = t
      BY <3>1, <3>2
    <3> QED BY <3>3
  <2> QED BY <2>1, <2>2 DEF Surjection
<1>10. IsFiniteSet(P)
  BY FS_Subset
<1>11. Cardinality(0..(n - 1)) <= Cardinality(P)
  BY <1>9, <1>10, FS_Surjection
<1>12. Cardinality(0..(n - 1)) = n
  BY FS_Interval
<1> QED BY <1>11, <1>12

\* ensure_scaled_group keeps as many as it was asked for, if there are.
LEMMA FirstSize ==
  ASSUME NEW group \in SUBSET Ids, NEW ord, Total(ord, group), NEW count \in Nat,
         Cardinality(group) >= count
  PROVE  /\ Cardinality(First(count, group, ord)) >= count
         /\ count = 0 => First(count, group, ord) = {}
<1> DEFINE ready == {i \in group : life[i] = "Ready"}
           before(i) == IF i \in ready THEN {j \in ready : <<j, i>> \in ord}
                        ELSE ready \cup {j \in group : <<j, i>> \in ord}
           B == [i \in group |-> before(i)]
<1>1. IsFiniteSet(group)
  BY FiniteIds, FS_Subset
<1>2. B \in [group -> SUBSET group]
  OBVIOUS
<1>3. \A i \in group : i \notin B[i]
  BY DEF Total
<1>4. ASSUME NEW i \in group, NEW j \in group, i # j
      PROVE  \/ i \in B[j] /\ B[i] \subseteq B[j]
             \/ j \in B[i] /\ B[j] \subseteq B[i]
  <2>1. \A k \in group : /\ <<k, i>> \in ord /\ <<i, j>> \in ord => <<k, j>> \in ord
                         /\ <<k, j>> \in ord /\ <<j, i>> \in ord => <<k, i>> \in ord
    BY DEF Total
  <2>2. <<i, j>> \in ord \/ <<j, i>> \in ord
    BY <1>4 DEF Total
  <2>3. CASE i \in ready /\ j \in ready
    BY <2>1, <2>2, <2>3
  <2>4. CASE i \notin ready /\ j \notin ready
    BY <2>1, <2>2, <2>4
  <2>5. CASE i \in ready /\ j \notin ready
    BY <2>5
  <2>6. CASE i \notin ready /\ j \in ready
    BY <2>6
  <2> QED BY <2>3, <2>4, <2>5, <2>6
<1>5. First(count, group, ord) = {i \in group : Cardinality(B[i]) < count}
  BY DEF First
<1>6. Cardinality({i \in group : Cardinality(B[i]) < count}) >= count
  <2> HIDE DEF B
  <2> QED BY <1>1, <1>2, <1>3, <1>4, RankedPrefix
<1>7. ASSUME count = 0, NEW i \in group
      PROVE  ~(Cardinality(B[i]) < count)
  <2>1. B[i] \in SUBSET group
    BY <1>2
  <2>2. IsFiniteSet(B[i])
    BY <1>1, <2>1, FS_Subset
  <2>3. Cardinality(B[i]) \in Nat
    BY <2>2, FS_CardinalityType
  <2> QED BY <1>7, <2>3
<1> QED BY <1>5, <1>6, <1>7

\* New rows go to the end.
LEMMA OrderedTotal ==
  ASSUME InOrder, rows \subseteq Ids, NEW new \in SUBSET (Ids \ rows)
  PROVE  /\ Ordered(new) \subseteq (rows \cup new) \X (rows \cup new)
         /\ Total(Ordered(new), rows \cup new)
<1>1. new \subseteq Nat
  BY ReconcileAssumption DEF Ids
<1>2. Ordered(new) \subseteq (rows \cup new) \X (rows \cup new)
  BY DEF Ordered, InOrder
<1>3. \A i, j \in rows \cup new :
        <<i, j>> \in Ordered(new) <=> \/ i \in rows /\ j \in rows /\ <<i, j>> \in order
                                      \/ i \in rows /\ j \in new
                                      \/ i \in new /\ j \in new /\ i < j
  BY DEF Ordered, InOrder
<1>4. ASSUME NEW i \in rows \cup new
      PROVE  <<i, i>> \notin Ordered(new)
  <2>1. i \in rows => <<i, i>> \notin order
    BY DEF InOrder, Total
  <2>2. i \in new => i \in Nat /\ i \notin rows
    BY <1>1
  <2>3. i \in new => ~(i < i)
    BY <2>2
  <2> QED BY <1>3, <2>1, <2>2, <2>3
<1>5. ASSUME NEW i \in rows \cup new, NEW j \in rows \cup new, i # j
      PROVE  <<i, j>> \in Ordered(new) \/ <<j, i>> \in Ordered(new)
  <2>1. CASE i \in rows /\ j \in rows
    BY <1>3, <1>5, <2>1 DEF InOrder, Total
  <2>2. CASE i \in new /\ j \in new
    <3>1. i \in Nat /\ j \in Nat
      BY <1>1, <2>2
    <3>2. i < j \/ j < i
      BY <1>5, <3>1
    <3> QED BY <1>3, <2>2, <3>2
  <2>3. CASE (i \in rows /\ j \in new) \/ (i \in new /\ j \in rows)
    BY <1>3, <2>3
  <2> QED BY <2>1, <2>2, <2>3
<1>6. \A i, j, k \in rows \cup new :
        <<i, j>> \in Ordered(new) /\ <<j, k>> \in Ordered(new) => <<i, k>> \in Ordered(new)
  <2> SUFFICES ASSUME NEW i \in rows \cup new, NEW j \in rows \cup new, NEW k \in rows \cup new,
                      <<i, j>> \in Ordered(new), <<j, k>> \in Ordered(new)
               PROVE  <<i, k>> \in Ordered(new)
    OBVIOUS
  <2>1. CASE k \in rows
    <3>1. i \in rows /\ j \in rows /\ <<i, j>> \in order /\ <<j, k>> \in order
      BY <1>3, <2>1
    <3>2. <<i, k>> \in order
      BY <2>1, <3>1 DEF InOrder, Total
    <3> QED BY <1>3, <2>1, <3>1, <3>2
  <2>2. CASE k \in new
    BY <1>1, <1>3, <2>2
  <2> QED BY <2>1, <2>2
<1> QED BY <1>2, <1>4, <1>5, <1>6 DEF Total

LEMMA RolloutKept ==
  ASSUME IInv, InOrder, Surplus, [Next]_vars
  PROVE  InOrder' /\ Surplus'
<1>1. ASSUME NEW f, Observe(f)
      PROVE  InOrder' /\ Surplus'
  <2>1. PICK new : new = Minted(Count)
    OBVIOUS
  <2>2. rows' = rows \cup new /\ new \in SUBSET (Ids \ rows) /\ rows \subseteq Ids
    BY <1>1, <2>1, ObserveDoes DEF IInv, Shape
  <2>3. /\ order' = Ordered(new) /\ Cardinality(rows') >= Count
        /\ kind = "Deployment" => keep' = First(Count, rows', order')
        /\ UNCHANGED <<scene, rolling, guard>>
    BY <1>1, <2>1 DEF Observe, Count, Quiet, memory
  <2>4. order' \subseteq rows' \X rows' /\ Total(order', rows')
    BY <2>2, <2>3, OrderedTotal
  <2>5. InOrder'
    BY <2>4 DEF InOrder, Total
  <2>6. Surplus'
    <3> SUFFICES ASSUME kind = "Deployment", rolling, ~guard, keep' # {}
                 PROVE  Cardinality(keep') >= Target + 1
      BY <2>3 DEF Surplus
    <3>1. Count \in Nat /\ scene.target \in Nat
      BY CountType, SceneType DEF IInv, Shape
    <3>2. rows' \in SUBSET Ids
      BY <2>2
    <3>3. Cardinality(keep') >= Count /\ (Count = 0 => keep' = {})
      BY <2>3, <2>4, <3>1, <3>2, FirstSize
    <3>4. Count >= Target + 1
      BY <3>1, <3>3 DEF Count, EffectiveScale
    <3>5. IsFiniteSet(keep')
      BY <2>3, <3>2, FirstSub, FiniteIds, FS_Subset
    <3>6. Cardinality(keep') \in Nat
      BY <3>5, FS_CardinalityType
    <3> QED BY <3>1, <3>3, <3>4, <3>6
  <2> QED BY <2>5, <2>6
<1>2. CASE Ingest
  <2>1. rows' \subseteq rows /\ order' = order \cap (rows' \X rows') /\ keep' = {}
    BY <1>2 DEF Ingest
  <2> QED BY <2>1 DEF InOrder, Total, Surplus
<1>3. CASE Crash
  <2>1. UNCHANGED <<rows, order>> /\ keep' = {}
    BY <1>3 DEF Crash, records
  <2> QED BY <2>1 DEF InOrder, Total, Surplus
<1>4. CASE UNCHANGED <<scene, rows, order, rolling, guard, keep>>
  BY <1>4 DEF InOrder, Total, Surplus
<1>5. \/ \E f : Observe(f)
      \/ Ingest
      \/ Crash
      \/ UNCHANGED <<scene, rows, order, rolling, guard, keep>>
  BY DEF Next, Tick, Actuate, ObserveDropped, Healthy, Heal, Upset, JobEnds, Moves, Elapse,
     Edit, ClearFaults, vars, Quiet, records, memory, tick
<1> QED BY <1>1, <1>2, <1>3, <1>4, <1>5

\* What RolloutServes says of a step, which its first state decides.
Serves ==
  /\ Acts /\ kind = "Deployment" /\ strategy = "Rolling" /\ rolling /\ ~guard
  /\ keep \subseteq Observed /\ \A i \in Stale : Seen(i) = "healthy"
  /\ Tears \cap Stale # {}
  => Cardinality((SeenHealthy \cap keep) \ Tears) >= Target

LEMMA ServesStep ==
  ASSUME IInv, InOrder, Surplus
  PROVE  Serves
<1> SUFFICES ASSUME kind = "Deployment", strategy = "Rolling", rolling, ~guard,
                    keep \subseteq Observed, \A i \in Stale : Seen(i) = "healthy",
                    Tears \cap Stale # {}
             PROVE  Cardinality((SeenHealthy \cap keep) \ Tears) >= Target
  BY DEF Serves
<1>1. PICK t : t \in Tears /\ t \in Stale
  OBVIOUS
<1>2. t \in keep /\ t \notin Inhibited
  BY <1>1 DEF Tears
<1>3. Inhibited = Stale \ Victim(Stale) /\ \A i \in Current : Seen(i) = "healthy"
  BY <1>1, <1>2 DEF Inhibited
<1>4. \A i \in keep : Seen(i) = "healthy"
  BY <1>3 DEF Current, Stale
<1>5. keep \subseteq SeenHealthy
  BY <1>4 DEF SeenHealthy
<1>6. Tears \subseteq Victim(Stale)
  BY <1>3, <1>4 DEF Tears, Stale
<1>7. Stale \subseteq rows
  BY DEF Stale, IInv, Shape
<1>8. \A i \in Victim(Stale) : i = t
  <2> SUFFICES ASSUME NEW i \in Victim(Stale), i # t
               PROVE  FALSE
    OBVIOUS
  <2>1. i \in rows /\ t \in rows /\ i \in Stale /\ t \in Victim(Stale)
    BY <1>1, <1>6, <1>7 DEF Victim
  <2>2. Before(i, t) /\ Before(t, i)
    BY <1>1, <2>1 DEF Victim
  <2>3. <<i, t>> \in order /\ <<t, i>> \in order
    BY <2>2 DEF Before
  <2> QED BY <2>1, <2>3 DEF InOrder, Total
<1>9. Tears = {t}
  BY <1>1, <1>6, <1>8
<1>10. (SeenHealthy \cap keep) \ Tears = keep \ {t}
  BY <1>5, <1>9
<1>11. IsFiniteSet(keep) /\ Cardinality(keep) \in Nat
  BY FiniteIds, FS_Subset, FS_CardinalityType DEF IInv, Shape
<1>12. Cardinality(keep \ {t}) = Cardinality(keep) - 1
  BY <1>2, <1>11, FS_RemoveElement
<1>13. Cardinality(keep) >= Target + 1
  BY <1>2 DEF Surplus
<1>14. scene.target \in Nat
  BY SceneType DEF IInv, Shape
<1>15. Cardinality(keep \ {t}) >= Target
  BY <1>11, <1>12, <1>13, <1>14
<1> QED BY <1>10, <1>15

\* r[update.rolling]: while the surplus of a rollout is in force, a tick that
\* retires a stale instance leaves as many healthy ones as the lower bound of
\* the scale, whatever the scale and however many instances there are.
THEOREM RolloutKeepsScale == Spec => RolloutServes
<1>1. Init => InOrder /\ Surplus
  BY DEF Init, InOrder, Total, Surplus
<1>2. IInv /\ InOrder /\ Surplus /\ [Next]_vars => InOrder' /\ Surplus'
  BY RolloutKept
<1>3. IInv /\ InOrder /\ Surplus => [Serves]_vars
  BY ServesStep
<1>4. Spec => [][Serves]_vars
  BY <1>1, <1>2, <1>3, IInvHolds, PTL DEF Spec
<1> QED BY <1>4 DEF RolloutServes, Serves
=============================================================================
