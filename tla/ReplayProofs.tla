---------------------------- MODULE ReplayProofs ----------------------------
(***************************************************************************)
(* Theorems about Replay, for every set of closures, resources and bounds. *)
(*                                                                         *)
(* Every rt.* call is first reduced to what it does to the position, the   *)
(* entries of the pass and the anchors (CallStep); the invariants and the  *)
(* refinement of the ledger are then argued from that alone.               *)
(***************************************************************************)
EXTENDS Replay, FiniteSetTheorems, WellFoundedInduction, TLAPS

\* Partial functions on numbers, and the entries of the log.
Maps(V) == UNION {[S -> V] : S \in SUBSET Nat}
BarRecord == [state : States, sat : BOOLEAN, age : Nat]
Entries == [at : Nat, kind : Ops, res : Resources, lit : STRING,
            ans : Answers \cup {None}, bars : Maps(BarRecord)]

Types ==
  /\ script \in Scripts /\ mode \in Modes /\ result \in Results \cup {None}
  /\ row \in BOOLEAN /\ flagged \in BOOLEAN /\ hit \in BOOLEAN
  /\ token \in BOOLEAN /\ rpc \in {"idle", "stored", "notified", "done"}
  /\ dyn \subseteq Dynamic /\ desired \subseteq Resources
  /\ world \in [Resources -> States]
  /\ ip \in Nat \ {0} /\ callIndex \in Nat /\ crashes \in 0..MaxCrashes
  /\ LogLength \in Nat /\ log \in [0..(LogLength - 1) -> Entries]
  /\ \A i \in DOMAIN log : log[i].at = i
  /\ pending \in Seq(Entries) /\ seqs \in Maps(Nat) /\ origin \in Maps(Nat)

\* The calls a Started of which may be waited for have one, at a position
\* taken in this pass.
Anchored ==
  /\ \A k \in DOMAIN origin : origin[k] < callIndex
  /\ mode = "pass" =>
       /\ ip <= Len(script) + 1
       /\ \A k \in 1..(ip - 1) : script[k].op \in Anchors /\ ~script[k].catch => k \in DOMAIN origin

\* The entries s of a pass that has reached position c of a log of length n: none
\* is beyond c, they come in an order in which the log can take them, and every
\* position that the log lacks has one.
Sorted(s, n, c) ==
  \A k \in 1..Len(s) :
    /\ s[k].at < c
    /\ \A i \in n..(s[k].at - 1) : \E j \in 1..(k - 1) : s[j].at = i
Covers(s, n, c) == \A i \in n..(c - 1) : \E j \in 1..Len(s) : s[j].at = i

Ordered ==
  /\ Sorted(pending, LogLength, callIndex) /\ Covers(pending, LogLength, callIndex)
  /\ mode \notin {"pass", "flush"} => pending = <<>>

\* The row goes when the operation has ended, and how it ended stays.
RowKept ==
  /\ mode \in {"concluded", "cleanup", "over"} => ~row
  /\ mode \notin {"concluded", "cleanup", "over", "down"} => row
  /\ mode = "flush" => result \in Results
  /\ mode = "ended" => result \in Results \ {"Suspended"}

IInv == Types /\ Anchored /\ Ordered /\ RowKept

-----------------------------------------------------------------------------
(* What one call of the closure does.                                      *)

Same(e, f) ==
  e.at = f.at /\ e.kind = f.kind /\ e.res = f.res /\ e.lit = f.lit /\ e.ans = f.ans

\* A started resource that the closure defined is in D.
Owned(e, D) == e.kind = "start" /\ e.res \in Dynamic => e.res \in D

Stays == callIndex' = callIndex /\ pending' = pending
Replays == callIndex < LogLength /\ callIndex' = callIndex + 1 /\ pending' = pending
Records ==
  /\ callIndex' = callIndex + 1
  /\ \E e \in Entries : e.at = callIndex /\ Owned(e, dyn') /\ pending' = Append(pending, e)
Marks ==
  /\ callIndex' = callIndex
  /\ \/ /\ pending' \in Seq(Entries) /\ Len(pending') = Len(pending)
        /\ \A k \in 1..Len(pending) : Same(pending'[k], pending[k])
     \/ \E e \in Entries, i \in DOMAIN log :
          i < callIndex /\ Same(e, log[i]) /\ pending' = Append(pending, e)

Moving ==
  \/ mode' = mode /\ result' = result /\ ip' = ip + 1
  \/ mode' = "flush" /\ result' \in Results \ {"Completed"} /\ ip' = ip

CallStep ==
  /\ mode = "pass" /\ ip \in Positions(script)
  /\ UNCHANGED <<script, log, row, flagged, desired, token, rpc, world, crashes, orphaned>>
  /\ dyn \subseteq dyn' /\ dyn' \subseteq Dynamic
  /\ Moving
  /\ Stays \/ Replays \/ Records \/ Marks
  /\ hit' \in BOOLEAN /\ seqs' \in Maps(Nat)
  /\ \/ origin' = origin
     \/ callIndex' = callIndex + 1 /\ origin' = With(origin, ip, callIndex)
  /\ mode' = mode /\ ~Call.catch =>
       /\ Logged(Call) => callIndex' = callIndex + 1
       /\ Call.op \in Anchors => ip \in DOMAIN origin'

\* A call is a call record.
LEMMA CallType ==
  ASSUME Types, NEW k \in Positions(script)
  PROVE  /\ script[k].op \in Ops /\ script[k].res \in Resources /\ script[k].lit \in STRING
         /\ script[k].state \in States /\ script[k].catch \in BOOLEAN /\ script[k].on \in Nat
<1> DEFINE R == [op : Ops, res : Resources, lit : STRING, on : Nat, state : States,
                  dl : (1..MaxAge) \cup {None}, catch : BOOLEAN]
<1>1. script \in Seq(R)
  BY ScriptsAssumption DEF Types
<1> HIDE DEF R
<1>2. script[k] \in R
  BY <1>1 DEF Positions
<1> QED BY <1>2 DEF R

LEMMA EntryAt ==
  ASSUME NEW e \in Entries
  PROVE  e.at \in Nat
BY DEF Entries

\* Partial functions stay partial functions.
LEMMA WithMap ==
  ASSUME NEW V, NEW f \in Maps(V), NEW x \in Nat, NEW v \in V
  PROVE  /\ With(f, x, v) \in Maps(V) /\ DOMAIN With(f, x, v) = DOMAIN f \cup {x}
         /\ \A y \in DOMAIN f \cup {x} : With(f, x, v)[y] = IF y = x THEN v ELSE f[y]
<1>1. PICK S \in SUBSET Nat : f \in [S -> V]
  BY DEF Maps
<1>2. S \cup {x} \in SUBSET Nat
  OBVIOUS
<1>3. With(f, x, v) \in [S \cup {x} -> V]
  BY <1>1 DEF With
<1>4. With(f, x, v) \in Maps(V)
  BY <1>2, <1>3 DEF Maps
<1> QED BY <1>1, <1>4 DEF With

LEMMA EmptyMap ==
  ASSUME NEW V
  PROVE  <<>> \in Maps(V)
<1>1. <<>> \in [{} -> V] /\ {} \in SUBSET Nat
  OBVIOUS
<1> QED BY <1>1 DEF Maps

\* The barrier of an entry is None or a record.
LEMMA BarrierType ==
  ASSUME NEW e \in Entries, NEW q \in Nat
  PROVE  Barrier(e, q) # None => q \in DOMAIN e.bars /\ Barrier(e, q) = e.bars[q]
                                 /\ e.bars[q] \in BarRecord
<1>1. e.bars \in Maps(BarRecord)
  BY DEF Entries
<1>2. PICK S \in SUBSET Nat : e.bars \in [S -> BarRecord]
  BY <1>1 DEF Maps
<1> QED BY <1>2 DEF Barrier

\* set_barrier changes the barriers of an entry only.
LEMMA SetBarrierType ==
  ASSUME NEW e \in Entries, NEW q \in Nat, NEW b \in BarRecord
  PROVE  SetBarrier(e, q, b) \in Entries /\ Same(SetBarrier(e, q, b), e)
<1>1. e.bars \in Maps(BarRecord)
  BY DEF Entries
<1>2. With(e.bars, q, b) \in Maps(BarRecord)
  BY <1>1, WithMap
<1>3. SetBarrier(e, q, b) = [e EXCEPT !.bars = With(e.bars, q, b)]
  BY DEF SetBarrier
<1> QED BY <1>2, <1>3 DEF Entries, Same

\* A fresh entry.
LEMMA EntryType ==
  ASSUME Types, NEW c, c.op \in Ops, c.res \in Resources, c.lit \in STRING,
         NEW ans \in Answers \cup {None}
  PROVE  /\ Entry(c, ans) \in Entries /\ Entry(c, ans).at = callIndex
         /\ Entry(c, ans).kind = c.op /\ Entry(c, ans).res = c.res
<1>1. <<>> \in Maps(BarRecord)
  BY EmptyMap
<1> QED BY <1>1 DEF Entry, Entries, Types

-----------------------------------------------------------------------------
(* The calls, one kind after the other.                                    *)

\* An exception goes on only where the closure catches it.
LEMMA ThrowMoves ==
  ASSUME mode = "pass", NEW e \in Results \ {"Completed"}, Throw(e)
  PROVE  Moving /\ (mode' = mode => Call.catch)
BY DEF Throw, Proceed, Moving

LEMMA ProceedMoves ==
  ASSUME Proceed
  PROVE  Moving
BY DEF Proceed, Moving

\* start, query and warm.
LEMMA ClaimCall ==
  ASSUME IInv, Calls(Anchors), Claim, dyn \subseteq dyn', dyn' \subseteq Dynamic,
         Call.op = "start" /\ Call.res \in Dynamic => Call.res \in dyn'
  PROVE  CallStep
<1>1. mode = "pass" /\ ip \in Positions(script) /\ Call.op \in Anchors
  BY DEF Calls
<1>2. /\ Call.op \in Ops /\ Call.res \in Resources /\ Call.lit \in STRING
      /\ Call.catch \in BOOLEAN
  BY <1>1, CallType DEF IInv, Call
<1>3. UNCHANGED <<script, log, row, flagged, desired, token, rpc, world, crashes, orphaned,
                  seqs, hit>>
  BY DEF Claim, cancel, history
<1>4. hit' \in BOOLEAN /\ seqs' \in Maps(Nat)
  BY <1>3 DEF IInv, Types
<1>5. CASE HitPending
  <2>1. Throw("Suspended") /\ UNCHANGED <<callIndex, pending, origin>>
    BY <1>5 DEF Claim
  <2>2. Moving /\ (mode' = mode => Call.catch)
    BY <1>1, <2>1, ThrowMoves DEF Results
  <2> QED BY <1>1, <1>3, <1>4, <2>1, <2>2 DEF CallStep, Stays
<1>6. CASE ~HitPending /\ IsReplaying /\ ~Matches(Call)
  <2>1. Throw("Diverged") /\ UNCHANGED <<callIndex, pending, origin>>
    BY <1>6 DEF Claim, ClaimLogPosition
  <2>2. Moving /\ (mode' = mode => Call.catch)
    BY <1>1, <2>1, ThrowMoves DEF Results
  <2> QED BY <1>1, <1>3, <1>4, <2>1, <2>2 DEF CallStep, Stays
<1>7. CASE ~HitPending /\ (IsReplaying => Matches(Call))
  <2>1. /\ callIndex' = callIndex + 1
        /\ origin' = With(origin, ip, callIndex)
        /\ pending' = IF IsReplaying THEN pending ELSE Append(pending, Entry(Call, None))
        /\ Proceed
    BY <1>7 DEF Claim, ClaimLogPosition
  <2>2. Moving
    BY <2>1, ProceedMoves
  <2>3. Replays \/ Records
    <3>1. CASE IsReplaying
      BY <2>1, <3>1 DEF IsReplaying, Replays
    <3>2. CASE ~IsReplaying
      <4>1. /\ Entry(Call, None) \in Entries /\ Entry(Call, None).at = callIndex
            /\ Entry(Call, None).kind = Call.op /\ Entry(Call, None).res = Call.res
        BY <1>2, EntryType DEF IInv
      <4>2. Owned(Entry(Call, None), dyn')
        BY <4>1 DEF Owned
      <4> QED BY <2>1, <3>2, <4>1, <4>2 DEF Records
    <3> QED BY <3>1, <3>2
  <2>4. ip \in DOMAIN origin'
    BY <2>1 DEF With
  <2> QED BY <1>1, <1>3, <1>4, <2>1, <2>2, <2>3, <2>4 DEF CallStep
<1> QED BY <1>5, <1>6, <1>7

LEMMA StartCall ==
  ASSUME IInv, Start
  PROVE  CallStep
<1>1. Calls(Anchors) /\ Claim /\ dyn' = dyn \cup (Dynamic \cap {Call.res})
  BY DEF Start, Calls, Anchors
<1>2. dyn \subseteq dyn' /\ dyn' \subseteq Dynamic
  BY <1>1 DEF IInv, Types
<1> QED BY <1>1, <1>2, ClaimCall

LEMMA WarmCall ==
  ASSUME IInv, Warm
  PROVE  CallStep
<1>1. Calls(Anchors) /\ Claim /\ dyn' = dyn /\ Call.op = "warm"
  BY DEF Warm, Calls, Anchors
<1>2. dyn \subseteq dyn' /\ dyn' \subseteq Dynamic
  BY <1>1 DEF IInv, Types
<1> QED BY <1>1, <1>2, ClaimCall

\* signal, exec, write and a sub-action.
LEMMA OneShotCall ==
  ASSUME IInv, NEW stopped, NEW refused, NEW fails, stopped \in BOOLEAN, refused \in BOOLEAN,
         Calls({"signal", "exec", "write", "call"}), OneShot(stopped, refused, fails)
  PROVE  CallStep
<1>1. mode = "pass" /\ ip \in Positions(script) /\ Call.op \notin Anchors
  BY DEF Calls, Anchors
<1>2. /\ Call.op \in Ops /\ Call.res \in Resources /\ Call.lit \in STRING
      /\ Call.catch \in BOOLEAN /\ Call.op # "start"
  BY <1>1, CallType DEF IInv, Call, Anchors
<1>3. UNCHANGED <<script, log, row, flagged, dyn, desired, token, rpc, world, crashes, orphaned,
                  seqs, hit, origin>>
  BY DEF OneShot, cancel, durable
<1>4. /\ hit' \in BOOLEAN /\ seqs' \in Maps(Nat)
      /\ dyn \subseteq dyn' /\ dyn' \subseteq Dynamic
  BY <1>3 DEF IInv, Types
<1>5. ASSUME NEW e \in Results \ {"Completed"}, Throw(e), UNCHANGED <<callIndex, pending>>
      PROVE  CallStep
  <2>1. Moving /\ (mode' = mode => Call.catch)
    BY <1>1, <1>5, ThrowMoves
  <2> QED BY <1>1, <1>3, <1>4, <1>5, <2>1 DEF CallStep, Stays
<1>6. CASE stopped
  <2>1. Throw("Suspended") /\ UNCHANGED <<callIndex, pending>>
    BY <1>6 DEF OneShot
  <2> QED BY <1>5, <2>1 DEF Results
<1>7. CASE ~stopped /\ refused
  <2>1. Throw("Cancelled") /\ UNCHANGED <<callIndex, pending>>
    BY <1>7 DEF OneShot
  <2> QED BY <1>5, <2>1 DEF Results
<1>8. CASE ~stopped /\ ~refused /\ IsReplaying
  <2>1. Recover(Call) \/ Diverge(Call)
    BY <1>8 DEF OneShot
  <2>2. CASE Recover(Call)
    <3>1. callIndex' = callIndex + 1 /\ pending' = pending /\ Proceed
      BY <2>2 DEF Recover
    <3>2. Moving
      BY <3>1, ProceedMoves
    <3> QED BY <1>1, <1>3, <1>4, <1>8, <3>1, <3>2 DEF CallStep, Replays, IsReplaying
  <2>3. CASE Diverge(Call)
    <3>1. /\ callIndex' = callIndex + 1 \/ callIndex' = callIndex
          /\ pending' = pending /\ Throw("Diverged")
      BY <2>3 DEF Diverge, IInv, Types
    <3>2. Moving /\ (mode' = mode => Call.catch)
      BY <1>1, <3>1, ThrowMoves DEF Results
    <3> QED BY <1>1, <1>3, <1>4, <1>8, <3>1, <3>2 DEF CallStep, Replays, Stays, IsReplaying
  <2> QED BY <2>1, <2>2, <2>3
<1>9. CASE ~stopped /\ ~refused /\ ~IsReplaying
  <2>1. \/ \E ans \in Answers : Deliver(Call, IF Answering(Call) THEN ans ELSE None)
        \/ Throw("Failed") /\ UNCHANGED <<callIndex, pending>>
    BY <1>9 DEF OneShot
  <2>2. ASSUME NEW ans \in Answers \cup {None}, Deliver(Call, ans)
        PROVE  CallStep
    <3>1. /\ callIndex' = callIndex + 1 /\ pending' = Append(pending, Entry(Call, ans))
          /\ Proceed
      BY <2>2 DEF Deliver
    <3>2. /\ Entry(Call, ans) \in Entries /\ Entry(Call, ans).at = callIndex
          /\ Entry(Call, ans).kind = Call.op
      BY <1>2, EntryType DEF IInv
    <3>3. Owned(Entry(Call, ans), dyn')
      BY <1>2, <3>2 DEF Owned
    <3>4. Records
      BY <3>1, <3>2, <3>3 DEF Records
    <3>5. Moving
      BY <3>1, ProceedMoves
    <3> QED BY <1>1, <1>3, <1>4, <3>1, <3>4, <3>5 DEF CallStep
  <2>3. CASE Throw("Failed") /\ UNCHANGED <<callIndex, pending>>
    BY <1>5, <2>3 DEF Results
  <2>4. CASE \E ans \in Answers : Deliver(Call, IF Answering(Call) THEN ans ELSE None)
    <3>1. PICK ans \in Answers : Deliver(Call, IF Answering(Call) THEN ans ELSE None)
      BY <2>4
    <3> QED BY <2>2, <3>1
  <2> QED BY <2>1, <2>3, <2>4
<1> QED BY <1>6, <1>7, <1>8, <1>9

\* load_action_log answers a position with the entry written at it.
LEMMA CommittedAt ==
  ASSUME Types, NEW p \in Nat, p < LogLength
  PROVE  Committed(p) = log[p] /\ p \in DOMAIN log /\ log[p] \in Entries
<1>1. DOMAIN log = 0..(LogLength - 1) /\ LogLength \in Nat
  BY DEF Types
<1>2. ASSUME NEW i \in DOMAIN log
      PROVE  Cardinality({j \in DOMAIN log : j < i}) = i
  <2>1. {j \in DOMAIN log : j < i} = 0..(i - 1)
    BY <1>1
  <2>2. i \in Nat /\ Cardinality(0..(i - 1)) = i
    BY <1>1, FS_Interval
  <2> QED BY <2>1, <2>2
<1>3. p \in DOMAIN log
  BY <1>1
<1>4. \A i \in DOMAIN log : Cardinality({j \in DOMAIN log : j < i}) = p <=> i = p
  BY <1>2
<1>5. p = CHOOSE i \in DOMAIN log : Cardinality({j \in DOMAIN log : j < i}) = p
  BY <1>3, <1>4
<1> QED BY <1>3, <1>5 DEF Committed, Types

\* record_at_anchor leaves the positions, kinds and resources of the entries.
LEMMA RecordMarks ==
  ASSUME IInv, NEW i \in Nat, i < callIndex, NEW q \in Nat, NEW state \in States,
         NEW sat \in BOOLEAN, RecordAtAnchor(i, q, state, sat), callIndex' = callIndex
  PROVE  Marks
<1> DEFINE Rec(e) == SetBarrier(e, q, [state |-> state, sat |-> sat,
                                       age |-> KeptAge(Barrier(e, q), state, 0)])
<1>1. ASSUME NEW e \in Entries
      PROVE  Rec(e) \in Entries /\ Same(Rec(e), e)
  <2>1. KeptAge(Barrier(e, q), state, 0) \in Nat
    BY BarrierType DEF KeptAge, BarRecord
  <2>2. [state |-> state, sat |-> sat, age |-> KeptAge(Barrier(e, q), state, 0)] \in BarRecord
    BY <2>1 DEF BarRecord
  <2> QED BY <2>2, SetBarrierType
<1>2. pending' = IF PendingAt(i) # {}
                 THEN [k \in 1..Len(pending) |->
                        IF k \in PendingAt(i) THEN Rec(pending[k]) ELSE pending[k]]
                 ELSE Append(pending, Rec(log[i]))
  BY DEF RecordAtAnchor
<1> HIDE DEF Rec
<1>3. pending \in Seq(Entries)
  BY DEF IInv, Types
<1>4. CASE PendingAt(i) # {}
  <2>1. pending' = [k \in 1..Len(pending) |->
                     IF k \in PendingAt(i) THEN Rec(pending[k]) ELSE pending[k]]
    BY <1>2, <1>4
  <2>2. \A k \in 1..Len(pending) : pending[k] \in Entries
    BY <1>3
  <2>3. \A k \in 1..Len(pending) : pending'[k] \in Entries /\ Same(pending'[k], pending[k])
    BY <1>1, <2>1, <2>2 DEF Same
  <2>4. pending' \in [1..Len(pending) -> Entries]
    BY <2>1, <2>3
  <2>5. Len(pending) \in Nat
    BY <1>3
  <2>6. pending' \in Seq(Entries) /\ Len(pending') = Len(pending)
    BY <2>4, <2>5
  <2> QED BY <2>3, <2>6 DEF Marks
<1>5. CASE PendingAt(i) = {}
  <2>1. \A j \in 1..Len(pending) : pending[j].at # i
    BY <1>5 DEF PendingAt
  <2>2. i < LogLength
    BY <2>1 DEF IInv, Types, Ordered, Covers
  <2>3. i \in DOMAIN log /\ log[i] \in Entries
    BY <2>2, CommittedAt DEF IInv
  <2>4. Rec(log[i]) \in Entries /\ Same(Rec(log[i]), log[i])
    BY <1>1, <2>3
  <2>5. pending' = Append(pending, Rec(log[i]))
    BY <1>2, <1>5
  <2> QED BY <2>3, <2>4, <2>5 DEF Marks
<1> QED BY <1>4, <1>5

LEMMA AwaitCall ==
  ASSUME IInv, Await
  PROVE  CallStep
<1>1. mode = "pass" /\ ip \in Positions(script) /\ Call.op = "await"
  BY DEF Await, Calls
<1>2. Call.catch \in BOOLEAN /\ Call.state \in States
  BY <1>1, CallType DEF IInv, Call
<1>3. UNCHANGED <<script, log, row, flagged, dyn, desired, token, rpc, world, crashes, orphaned,
                  callIndex, origin>>
  BY DEF Await, cancel, durable
<1>4. /\ dyn \subseteq dyn' /\ dyn' \subseteq Dynamic
      /\ ~Logged(Call) /\ Call.op \notin Anchors
  BY <1>1, <1>3 DEF IInv, Types, Logged, Anchors
<1>5. ASSUME NEW e \in Results \ {"Completed"}, Throw(e)
      PROVE  Moving
  BY <1>1, <1>5, ThrowMoves
<1>6. ASSUME Moving, Stays \/ Marks, hit' \in BOOLEAN, seqs' \in Maps(Nat)
      PROVE  CallStep
  BY <1>1, <1>3, <1>4, <1>6 DEF CallStep
<1>7. CASE HitPending
  <2>1. Throw("Suspended") /\ UNCHANGED <<pending, seqs, hit>>
    BY <1>7 DEF Await
  <2>2. Moving
    BY <1>5, <2>1 DEF Results
  <2> QED BY <1>3, <1>6, <2>1, <2>2 DEF Stays, IInv, Types
<1>8. CASE ~HitPending /\ token
  <2>1. Throw("Cancelled") /\ UNCHANGED <<pending, seqs, hit>>
    BY <1>8 DEF Await
  <2>2. Moving
    BY <1>5, <2>1 DEF Results
  <2> QED BY <1>3, <1>6, <2>1, <2>2 DEF Stays, IInv, Types
<1>9. CASE ~HitPending /\ ~token
  <2>1. CheckBarrier(Call)
    BY <1>9 DEF Await
  <2> DEFINE i == origin[Call.on]
             q == IF i \in DOMAIN seqs THEN seqs[i] ELSE 0
  <2>2. Call.on \in 1..(ip - 1) /\ script[Call.on].op \in Anchors /\ ~script[Call.on].catch
    <3>1. script \in Scripts /\ ip \in 1..Len(script) /\ script[ip].op = "await"
      BY <1>1 DEF IInv, Types, Call, Positions
    <3> QED BY <3>1, ScriptsAssumption DEF Call
  <2>3. Call.on \in DOMAIN origin
    BY <1>1, <2>2 DEF IInv, Anchored
  <2>4. i \in Nat /\ i < callIndex
    <3>1. PICK S \in SUBSET Nat : origin \in [S -> Nat]
      BY DEF IInv, Types, Maps
    <3> QED BY <2>3, <3>1 DEF IInv, Anchored
  <2>5. q \in Nat
    <3>1. PICK S \in SUBSET Nat : seqs \in [S -> Nat]
      BY DEF IInv, Types, Maps
    <3> QED BY <3>1
  <2>6. seqs' = With(seqs, i, q + 1)
    BY <2>1 DEF CheckBarrier
  <2>7. seqs' \in Maps(Nat)
    <3> HIDE DEF i, q
    <3>1. q + 1 \in Nat /\ seqs \in Maps(Nat)
      BY <2>5 DEF IInv, Types
    <3>2. With(seqs, i, q + 1) \in Maps(Nat)
      BY <2>4, <3>1, WithMap
    <3> QED BY <2>6, <3>2
  <2>8. \/ Proceed /\ UNCHANGED <<pending, hit>>
        \/ RecordAtAnchor(i, q, Call.state, TRUE) /\ Proceed /\ UNCHANGED hit
        \/ Throw("Expired") /\ UNCHANGED <<pending, hit>>
        \/ RecordAtAnchor(i, q, Call.state, FALSE) /\ hit' = TRUE /\ Throw("Suspended")
    BY <2>1 DEF CheckBarrier
  <2> HIDE DEF i, q
  <2>9. CASE Proceed /\ UNCHANGED <<pending, hit>>
    BY <1>3, <1>6, <2>7, <2>9, ProceedMoves DEF Stays, IInv, Types
  <2>10. CASE RecordAtAnchor(i, q, Call.state, TRUE) /\ Proceed /\ UNCHANGED hit
    BY <1>2, <1>3, <1>6, <2>4, <2>5, <2>7, <2>10, ProceedMoves, RecordMarks DEF IInv, Types
  <2>11. CASE Throw("Expired") /\ UNCHANGED <<pending, hit>>
    BY <1>3, <1>5, <1>6, <2>7, <2>11 DEF Stays, Results, IInv, Types
  <2>12. CASE RecordAtAnchor(i, q, Call.state, FALSE) /\ hit' = TRUE /\ Throw("Suspended")
    <3>1. Marks
      BY <1>2, <1>3, <2>4, <2>5, <2>12, RecordMarks
    <3> QED BY <1>5, <1>6, <2>7, <2>12, <3>1 DEF Results
  <2> QED BY <2>8, <2>9, <2>10, <2>11, <2>12
<1> QED BY <1>7, <1>8, <1>9

LEMMA RestartCall ==
  ASSUME IInv, Restart
  PROVE  CallStep
<1>1. mode = "pass" /\ ip \in Positions(script) /\ Call.op = "restart"
  BY DEF Restart, Calls
<1>2. UNCHANGED <<script, log, row, flagged, dyn, desired, token, rpc, world, crashes, orphaned,
                  callIndex, pending, origin, seqs, hit>> /\ Proceed
  BY DEF Restart, cancel, durable
<1>3. /\ dyn \subseteq dyn' /\ dyn' \subseteq Dynamic /\ hit' \in BOOLEAN
      /\ seqs' \in Maps(Nat) /\ ~Logged(Call) /\ Call.op \notin Anchors
  BY <1>1, <1>2 DEF IInv, Types, Logged, Anchors
<1> QED BY <1>1, <1>2, <1>3, ProceedMoves DEF CallStep, Stays

\* The entry of a stop says whether the resources had gone, and for how long
\* they are waited for.
LEMMA StopCall ==
  ASSUME IInv, Stop
  PROVE  CallStep
<1>1. mode = "pass" /\ ip \in Positions(script) /\ Call.op = "stop"
  BY DEF Stop, Calls
<1>2. /\ Call.op \in Ops /\ Call.res \in Resources /\ Call.lit \in STRING
      /\ Call.catch \in BOOLEAN
  BY <1>1, CallType DEF IInv, Call
<1>3. UNCHANGED <<script, log, row, flagged, dyn, desired, token, rpc, world, crashes, orphaned,
                  origin, seqs>>
  BY DEF Stop, cancel, durable
<1>4. /\ dyn \subseteq dyn' /\ dyn' \subseteq Dynamic /\ Call.op \notin Anchors
      /\ seqs' \in Maps(Nat) /\ hit \in BOOLEAN
  BY <1>1, <1>3 DEF IInv, Types, Anchors
<1>5. ASSUME NEW e \in Results \ {"Completed"}, Throw(e), Stays, UNCHANGED hit
      PROVE  CallStep
  <2>1. Moving /\ (mode' = mode => Call.catch)
    BY <1>1, <1>5, ThrowMoves
  <2> QED BY <1>1, <1>3, <1>4, <1>5, <2>1 DEF CallStep
<1>6. ASSUME Moving, callIndex' = callIndex + 1, Replays \/ Records, hit' \in BOOLEAN
      PROVE  CallStep
  BY <1>1, <1>3, <1>4, <1>6 DEF CallStep
<1>7. CASE HitPending
  <2>1. Throw("Suspended") /\ Stays /\ UNCHANGED hit
    BY <1>7 DEF Stop, Stays
  <2> QED BY <1>5, <2>1 DEF Results
<1>8. CASE ~HitPending /\ token
  <2>1. Throw("Cancelled") /\ Stays /\ UNCHANGED hit
    BY <1>8 DEF Stop, Stays
  <2> QED BY <1>5, <2>1 DEF Results
<1>9. CASE ~HitPending /\ ~token
  <2>1. DoStop(Call)
    BY <1>9 DEF Stop
  <2> DEFINE said == IF IsReplaying THEN Barrier(Committed(callIndex), 0) ELSE None
             gone == HasReached(Call.res, "Terminated")
             age == IF said # None THEN said.age ELSE 0
             entry == SetBarrier(Entry(Call, None), 0,
                        [state |-> "Terminated", sat |-> gone, age |-> age])
  <2>2. \/ Throw("Diverged") /\ UNCHANGED <<callIndex, pending, hit>>
        \/ /\ IsReplaying /\ callIndex' = callIndex + 1
           /\ Proceed /\ UNCHANGED <<pending, hit>>
        \/ Throw("Expired") /\ UNCHANGED <<callIndex, pending, hit>>
        \/ /\ callIndex' = callIndex + 1 /\ pending' = Append(pending, entry)
           /\ \/ Proceed /\ UNCHANGED hit
              \/ hit' = TRUE /\ Throw("Suspended")
    BY <2>1 DEF DoStop
  <2>3. age \in Nat
    <3>1. CASE IsReplaying
      <4>1. Committed(callIndex) \in Entries
        BY <3>1, CommittedAt DEF IsReplaying, IInv, Types
      <4> QED BY <3>1, <4>1, BarrierType DEF BarRecord
    <3>2. CASE ~IsReplaying
      BY <3>2
    <3> QED BY <3>1, <3>2
  <2>4. gone \in BOOLEAN
    BY DEF HasReached
  <2> HIDE DEF age, gone
  <2>5. /\ entry \in Entries /\ entry.at = callIndex /\ entry.kind # "start"
    <3>1. /\ Entry(Call, None) \in Entries /\ Entry(Call, None).at = callIndex
          /\ Entry(Call, None).kind = "stop"
      BY <1>1, <1>2, EntryType DEF IInv
    <3>2. [state |-> "Terminated", sat |-> gone, age |-> age] \in BarRecord
      BY <2>3, <2>4 DEF BarRecord, States
    <3> HIDE DEF entry
    <3> QED BY <3>1, <3>2, SetBarrierType DEF Same, entry
  <2> HIDE DEF entry
  <2>6. CASE Throw("Diverged") /\ UNCHANGED <<callIndex, pending, hit>>
    BY <1>5, <2>6 DEF Results, Stays
  <2>7. CASE /\ IsReplaying /\ callIndex' = callIndex + 1
             /\ Proceed /\ UNCHANGED <<pending, hit>>
    BY <1>4, <1>6, <2>7, ProceedMoves DEF IsReplaying, Replays
  <2>8. CASE Throw("Expired") /\ UNCHANGED <<callIndex, pending, hit>>
    BY <1>5, <2>8 DEF Results, Stays
  <2>9. CASE /\ callIndex' = callIndex + 1 /\ pending' = Append(pending, entry)
             /\ \/ Proceed /\ UNCHANGED hit
                \/ hit' = TRUE /\ Throw("Suspended")
    <3>1. Records
      BY <2>5, <2>9 DEF Records, Owned
    <3>2. Moving
      BY <1>1, <2>9, ProceedMoves, ThrowMoves DEF Results
    <3> QED BY <1>4, <1>6, <2>9, <3>1, <3>2
  <2> QED BY <2>2, <2>6, <2>7, <2>8, <2>9
<1> QED BY <1>7, <1>8, <1>9

\* Every call of the closure, Return apart.
LEMMA CallsStep ==
  ASSUME IInv,
         \/ Start \/ Warm \/ Signal \/ Exec \/ Write \/ CallAction \/ Await \/ Stop \/ Restart
  PROVE  CallStep
<1>1. HitPending \in BOOLEAN /\ token \in BOOLEAN
  BY DEF IInv, Types, HitPending
<1>2. CASE Signal
  BY <1>1, <1>2, OneShotCall DEF Signal, Calls
<1>3. CASE Exec
  BY <1>1, <1>3, OneShotCall DEF Exec, Calls
<1>4. CASE Write
  BY <1>1, <1>4, OneShotCall DEF Write, Calls
<1>5. CASE CallAction
  BY <1>5, OneShotCall DEF CallAction, Calls
<1> QED BY <1>2, <1>3, <1>4, <1>5, StartCall, WarmCall, AwaitCall, StopCall, RestartCall

-----------------------------------------------------------------------------
(* The invariant.                                                          *)

\* The log's length is told by its domain.
LEMMA LengthOf ==
  ASSUME NEW n \in Nat, DOMAIN log = 0..(n - 1)
  PROVE  LogLength = n
<1>1. Cardinality(0..(n - 1)) = n
  BY FS_Interval
<1> QED BY <1>1 DEF LogLength

LEMMA LengthOfNext ==
  ASSUME NEW n \in Nat, DOMAIN log' = 0..(n - 1)
  PROVE  LogLength' = n
<1>1. Cardinality(0..(n - 1)) = n
  BY FS_Interval
<1> QED BY <1>1 DEF LogLength

\* Another entry at the end, its predecessors being there.
LEMMA AppendSorted ==
  ASSUME NEW s \in Seq(Entries), NEW e \in Entries, NEW n \in Nat, NEW c \in Nat,
         NEW d \in Nat, c <= d, e.at < d, Sorted(s, n, c), Covers(s, n, e.at)
  PROVE  Sorted(Append(s, e), n, d)
<1> DEFINE t == Append(s, e)
<1>1. /\ Len(t) = Len(s) + 1 /\ Len(s) \in Nat /\ t[Len(s) + 1] = e
      /\ \A k \in 1..Len(s) : t[k] = s[k] /\ s[k] \in Entries
  OBVIOUS
<1> HIDE DEF t
<1>2. \A k \in 1..Len(s) : s[k].at \in Nat
  BY <1>1, EntryAt
<1> SUFFICES ASSUME NEW k \in 1..Len(t)
             PROVE  t[k].at < d /\ \A i \in n..(t[k].at - 1) : \E j \in 1..(k - 1) : t[j].at = i
  BY DEF Sorted, t
<1>3. CASE k \in 1..Len(s)
  <2>1. t[k] = s[k] /\ s[k].at < c /\ \A i \in n..(s[k].at - 1) : \E j \in 1..(k - 1) : s[j].at = i
    BY <1>1, <1>3 DEF Sorted
  <2>2. ASSUME NEW i \in n..(t[k].at - 1)
        PROVE  \E j \in 1..(k - 1) : t[j].at = i
    <3>1. PICK j \in 1..(k - 1) : s[j].at = i
      BY <2>1
    <3>2. j \in 1..Len(s)
      BY <1>1, <1>3
    <3> QED BY <1>1, <3>1, <3>2
  <2> QED BY <1>2, <1>3, <2>1, <2>2
<1>4. CASE k = Len(s) + 1
  <2>1. t[k] = e
    BY <1>1, <1>4
  <2>2. ASSUME NEW i \in n..(t[k].at - 1)
        PROVE  \E j \in 1..(k - 1) : t[j].at = i
    <3>1. PICK j \in 1..Len(s) : s[j].at = i
      BY <2>1 DEF Covers
    <3> QED BY <1>1, <1>4, <3>1
  <2> QED BY <2>1, <2>2
<1> QED BY <1>1, <1>3, <1>4

LEMMA AppendCovers ==
  ASSUME NEW s \in Seq(Entries), NEW e \in Entries, NEW n \in Nat, NEW c \in Nat, Covers(s, n, c)
  PROVE  Covers(Append(s, e), n, c) /\ (e.at = c => Covers(Append(s, e), n, c + 1))
<1> DEFINE t == Append(s, e)
<1>1. /\ Len(t) = Len(s) + 1 /\ Len(s) \in Nat /\ t[Len(s) + 1] = e
      /\ \A k \in 1..Len(s) : t[k] = s[k]
  OBVIOUS
<1> HIDE DEF t
<1>2. ASSUME NEW i \in n..(c - 1)
      PROVE  \E j \in 1..Len(t) : t[j].at = i
  <2>1. PICK j \in 1..Len(s) : s[j].at = i
    BY DEF Covers
  <2> QED BY <1>1, <2>1
<1>3. e.at = c => \E j \in 1..Len(t) : t[j].at = c
  BY <1>1
<1>4. \A i \in n..(c + 1 - 1) : i \in n..(c - 1) \/ i = c
  OBVIOUS
<1> QED BY <1>2, <1>3, <1>4 DEF Covers, t

\* Both depend on the positions of the entries only.
LEMMA SameOrder ==
  ASSUME NEW s \in Seq(Entries), NEW t \in Seq(Entries), NEW n \in Nat, NEW c \in Nat,
         Len(t) = Len(s), \A k \in 1..Len(s) : t[k].at = s[k].at
  PROVE  (Sorted(s, n, c) => Sorted(t, n, c)) /\ (Covers(s, n, c) => Covers(t, n, c))
<1>1. Len(s) \in Nat
  OBVIOUS
<1>2. ASSUME Sorted(s, n, c), NEW k \in 1..Len(s)
      PROVE  t[k].at < c /\ \A i \in n..(t[k].at - 1) : \E j \in 1..(k - 1) : t[j].at = i
  <2>1. s[k].at < c /\ \A i \in n..(s[k].at - 1) : \E j \in 1..(k - 1) : s[j].at = i
    BY <1>2 DEF Sorted
  <2>2. ASSUME NEW i \in n..(t[k].at - 1)
        PROVE  \E j \in 1..(k - 1) : t[j].at = i
    <3>1. PICK j \in 1..(k - 1) : s[j].at = i
      BY <2>1
    <3>2. j \in 1..Len(s)
      BY <1>1
    <3> QED BY <3>1, <3>2
  <2> QED BY <2>1, <2>2
<1>3. ASSUME Covers(s, n, c), NEW i \in n..(c - 1)
      PROVE  \E j \in 1..Len(t) : t[j].at = i
  BY <1>3 DEF Covers
<1> QED BY <1>2, <1>3 DEF Sorted, Covers

LEMMA CallKeeps ==
  ASSUME IInv, CallStep
  PROVE  IInv'
<1>1. UNCHANGED <<script, log, row, flagged, desired, token, rpc, world, crashes, LogLength>>
  BY DEF CallStep, LogLength
<1>2. callIndex \in Nat /\ LogLength \in Nat /\ pending \in Seq(Entries) /\ ip \in Nat \ {0}
      /\ origin \in Maps(Nat)
  BY DEF IInv, Types
<1>3. callIndex' \in Nat /\ callIndex <= callIndex'
  BY <1>2 DEF CallStep, Stays, Replays, Records, Marks
<1>4. pending' \in Seq(Entries)
  BY <1>2 DEF CallStep, Stays, Replays, Records, Marks
<1>5. origin' \in Maps(Nat) /\ \A k \in DOMAIN origin' : origin'[k] < callIndex'
  <2>1. CASE origin' = origin
    <3>1. \A k \in DOMAIN origin : origin[k] \in Nat
      BY <1>2 DEF Maps
    <3> QED BY <1>2, <1>3, <2>1, <3>1 DEF IInv, Anchored
  <2>2. CASE callIndex' = callIndex + 1 /\ origin' = With(origin, ip, callIndex)
    <3> DEFINE w == With(origin, ip, callIndex)
    <3>1. /\ w \in Maps(Nat) /\ DOMAIN w = DOMAIN origin \cup {ip}
          /\ \A y \in DOMAIN origin \cup {ip} : w[y] = IF y = ip THEN callIndex ELSE origin[y]
      <4>1. origin \in Maps(Nat) /\ ip \in Nat /\ callIndex \in Nat
        BY <1>2
      <4>2. w \in Maps(Nat)
        BY <4>1, WithMap
      <4> QED BY <4>2 DEF With
    <3> HIDE DEF w
    <3>2. \A k \in DOMAIN origin : origin[k] \in Nat
      BY <1>2 DEF Maps
    <3>3. origin' = w
      BY <2>2 DEF w
    <3> QED BY <1>2, <2>2, <3>1, <3>2, <3>3 DEF IInv, Anchored
  <2> QED BY <2>1, <2>2 DEF CallStep
<1>6. DOMAIN origin \subseteq DOMAIN origin'
  BY DEF CallStep, With
<1>7. Types'
  BY <1>1, <1>2, <1>3, <1>4, <1>5 DEF IInv, Types, CallStep, Moving, Modes
<1>8. Anchored'
  <2>1. mode' = "pass" => ip' = ip + 1 /\ ip \in 1..Len(script) /\ mode' = mode
    BY DEF CallStep, Moving, Positions
  <2>2. Len(script) \in Nat
    BY ScriptsAssumption DEF IInv, Types
  <2>3. ASSUME mode' = "pass"
        PROVE  /\ ip' <= Len(script) + 1
               /\ \A k \in 1..(ip' - 1) :
                    script[k].op \in Anchors /\ ~script[k].catch => k \in DOMAIN origin'
    <3>1. \A k \in 1..(ip - 1) : script[k].op \in Anchors /\ ~script[k].catch => k \in DOMAIN origin'
      BY <1>6, <2>1, <2>3 DEF IInv, Anchored
    <3>2. script[ip].op \in Anchors /\ ~script[ip].catch => ip \in DOMAIN origin'
      BY <2>1, <2>3 DEF CallStep, Call
    <3> QED BY <1>2, <2>1, <2>2, <2>3, <3>1, <3>2
  <2> QED BY <1>1, <1>5, <2>3 DEF Anchored
<1>9. Ordered'
  <2>1. mode' \in {"pass", "flush"}
    BY DEF CallStep, Moving
  <2>2. CASE Stays
    BY <1>1, <2>1, <2>2 DEF Stays, IInv, Ordered
  <2>3. CASE Replays
    <3>1. \A k \in 1..Len(pending) : pending[k].at \in Nat
      BY <1>2, EntryAt
    <3>2. Sorted(pending, LogLength, callIndex + 1) /\ Covers(pending, LogLength, callIndex + 1)
      BY <1>2, <2>3, <3>1 DEF Replays, IInv, Ordered, Sorted, Covers
    <3> QED BY <1>1, <2>1, <2>3, <3>2 DEF Replays, Ordered
  <2>4. CASE Records
    <3>1. PICK e \in Entries : e.at = callIndex /\ pending' = Append(pending, e)
      BY <2>4 DEF Records
    <3>2. callIndex' = callIndex + 1
      BY <2>4 DEF Records
    <3>3. Sorted(pending', LogLength, callIndex')
      BY <1>2, <3>1, <3>2, AppendSorted DEF IInv, Ordered
    <3>4. Covers(pending', LogLength, callIndex')
      BY <1>2, <3>1, <3>2, AppendCovers DEF IInv, Ordered
    <3> QED BY <1>1, <2>1, <3>3, <3>4 DEF Ordered
  <2>5. CASE Marks
    <3>1. callIndex' = callIndex
      BY <2>5 DEF Marks
    <3>2. CASE /\ pending' \in Seq(Entries) /\ Len(pending') = Len(pending)
               /\ \A k \in 1..Len(pending) : Same(pending'[k], pending[k])
      <4>1. \A k \in 1..Len(pending) : pending'[k].at = pending[k].at
        BY <3>2 DEF Same
      <4>2. Sorted(pending', LogLength, callIndex) /\ Covers(pending', LogLength, callIndex)
        BY <1>2, <3>2, <4>1, SameOrder DEF IInv, Ordered
      <4> QED BY <1>1, <2>1, <3>1, <4>2 DEF Ordered
    <3>3. CASE \E e \in Entries, i \in DOMAIN log :
                 i < callIndex /\ Same(e, log[i]) /\ pending' = Append(pending, e)
      <4>1. PICK e \in Entries, i \in DOMAIN log :
                 i < callIndex /\ Same(e, log[i]) /\ pending' = Append(pending, e)
        BY <3>3
      <4>2. e.at = i /\ i \in 0..(LogLength - 1)
        BY <4>1 DEF Same, IInv, Types
      <4>3. Covers(pending, LogLength, e.at)
        BY <1>2, <4>2 DEF Covers
      <4>4. e.at < callIndex
        BY <4>1, <4>2
      <4>5. Sorted(pending', LogLength, callIndex)
        BY <1>2, <4>1, <4>3, <4>4, AppendSorted DEF IInv, Ordered
      <4>6. Covers(pending', LogLength, callIndex)
        BY <1>2, <4>1, AppendCovers DEF IInv, Ordered
      <4> QED BY <1>1, <2>1, <3>1, <4>5, <4>6 DEF Ordered
    <3> QED BY <2>5, <3>2, <3>3 DEF Marks
  <2> QED BY <2>2, <2>3, <2>4, <2>5 DEF CallStep
<1>10. RowKept'
  BY <1>1 DEF IInv, RowKept, CallStep, Moving
<1> QED BY <1>7, <1>8, <1>9, <1>10 DEF IInv

\* The position and the entries stay and no pass begins.
LEMMA QuietKeeps ==
  ASSUME IInv, UNCHANGED <<script, log, ip, callIndex, pending, seqs, origin, hit>>,
         mode' = mode \/ mode' # "pass", mode' \notin {"pass", "flush"} => pending = <<>>
  PROVE  Anchored' /\ Ordered'
BY DEF IInv, Anchored, Ordered, LogLength

LEMMA InitInv == Init => IInv
<1> SUFFICES ASSUME Init PROVE IInv
  OBVIOUS
<1>1. DOMAIN log = 0..(0 - 1)
  BY DEF Init
<1>2. LogLength = 0
  BY <1>1, LengthOf
<1>3. log \in [0..(LogLength - 1) -> Entries] /\ seqs \in Maps(Nat) /\ origin \in Maps(Nat)
  <2>1. <<>> \in [{} -> Entries] /\ 0..(0 - 1) = {}
    OBVIOUS
  <2> QED BY <1>2, <2>1, EmptyMap DEF Init
<1>4. Types
  <2>1. \A i \in DOMAIN log : log[i].at = i
    BY <1>1
  <2>2. pending \in Seq(Entries) /\ crashes \in 0..MaxCrashes
    BY BoundsAssumption DEF Init
  <2>3. desired \subseteq Resources /\ dyn \subseteq Dynamic
    BY DEF Init, Steady
  <2>4. world \in [Resources -> States]
    BY DEF Init, States
  <2>5. script \in Scripts /\ mode \in Modes /\ result \in Results \cup {None}
    BY DEF Init, Modes
  <2>6. /\ row \in BOOLEAN /\ flagged \in BOOLEAN /\ hit \in BOOLEAN
        /\ token \in BOOLEAN /\ rpc \in {"idle", "stored", "notified", "done"}
    BY DEF Init
  <2>7. ip \in Nat \ {0} /\ callIndex \in Nat
    BY DEF Init
  <2> QED BY <1>2, <1>3, <2>1, <2>2, <2>3, <2>4, <2>5, <2>6, <2>7 DEF Types
<1>5. Anchored
  BY ScriptsAssumption DEF Init, Anchored
<1>6. Ordered
  BY <1>2 DEF Init, Ordered, Sorted, Covers
<1>7. RowKept
  BY DEF Init, RowKept
<1> QED BY <1>4, <1>5, <1>6, <1>7 DEF IInv

LEMMA BeginPassKeeps ==
  ASSUME IInv, BeginPass
  PROVE  IInv'
<1>1. UNCHANGED <<script, log, row, flagged, dyn, desired, token, rpc, world, crashes, LogLength>>
  BY DEF BeginPass, durable, cancel, LogLength
<1>2. /\ seqs' \in Maps(Nat) /\ origin' \in Maps(Nat) /\ pending' \in Seq(Entries)
  BY EmptyMap DEF BeginPass
<1>3. Types'
  <2>1. mode' \in Modes /\ result' \in Results \cup {None} /\ hit' \in BOOLEAN
    BY DEF BeginPass, Modes
  <2>2. ip' \in Nat \ {0} /\ callIndex' \in Nat
    BY DEF BeginPass
  <2> QED BY <1>1, <1>2, <2>1, <2>2 DEF IInv, Types
<1>4. Anchored'
  <2>1. Len(script) \in Nat
    BY ScriptsAssumption DEF IInv, Types
  <2> QED BY <1>1, <2>1 DEF BeginPass, Anchored
<1>5. Ordered'
  BY <1>1 DEF BeginPass, Ordered, Sorted, Covers, IInv, Types
<1>6. RowKept'
  BY <1>1 DEF IInv, RowKept, BeginPass
<1> QED BY <1>3, <1>4, <1>5, <1>6 DEF IInv

LEMMA ReturnKeeps ==
  ASSUME IInv, Return
  PROVE  IInv'
<1>1. UNCHANGED <<script, log, row, flagged, dyn, ip, callIndex, pending, seqs, origin, hit,
                  desired, token, rpc, world, crashes, LogLength>>
  BY DEF Return, durable, context, cancel, LogLength
<1>2. Types'
  BY <1>1 DEF IInv, Types, Return, Modes, Results
<1>3. Anchored' /\ Ordered'
  BY <1>1, QuietKeeps DEF Return
<1>4. RowKept'
  BY <1>1 DEF IInv, RowKept, Return, Results
<1> QED BY <1>2, <1>3, <1>4 DEF IInv

\* The first entry of the pass replaces an entry of the log or is the next.
LEMMA FlushTakes ==
  ASSUME IInv, FlushOne
  PROVE  /\ pending # <<>> /\ Head(pending) \in Entries /\ Head(pending).at <= LogLength
         /\ Head(pending).at < callIndex
         /\ LogLength' = IF Head(pending).at = LogLength THEN LogLength + 1 ELSE LogLength
         /\ log' \in [0..(LogLength' - 1) -> Entries]
         /\ \A i \in DOMAIN log' :
              log'[i] = IF i = Head(pending).at THEN Head(pending) ELSE log[i]
<1> DEFINE e == Head(pending)
           n == IF e.at = LogLength THEN LogLength + 1 ELSE LogLength
<1>1. pending # <<>> /\ log' = With(log, e.at, e)
  BY DEF FlushOne
<1>2. pending \in Seq(Entries) /\ LogLength \in Nat /\ callIndex \in Nat
  BY DEF IInv, Types
<1>3. e \in Entries /\ e = pending[1] /\ 1 \in 1..Len(pending)
  BY <1>1, <1>2
<1> HIDE DEF e
<1>4. e.at \in Nat
  BY <1>3, EntryAt
<1>5. e.at < callIndex /\ \A i \in LogLength..(e.at - 1) : \E j \in 1..(1 - 1) : pending[j].at = i
  BY <1>3 DEF IInv, Ordered, Sorted
<1>6. e.at <= LogLength
  BY <1>2, <1>4, <1>5
<1>7. n \in Nat
  BY <1>2
<1>8. DOMAIN log = 0..(LogLength - 1) /\ \A i \in DOMAIN log : log[i] \in Entries
  BY DEF IInv, Types
<1>9. DOMAIN log' = DOMAIN log \cup {e.at}
  BY <1>1 DEF With
<1>10. DOMAIN log' = 0..(n - 1)
  BY <1>2, <1>4, <1>6, <1>8, <1>9
<1>11. LogLength' = n
  BY <1>7, <1>10, LengthOfNext
<1>12. \A i \in DOMAIN log' : log'[i] = IF i = e.at THEN e ELSE log[i]
  BY <1>1, <1>9 DEF With
<1>13. log' \in [0..(n - 1) -> Entries]
  <2>1. log' = [i \in DOMAIN log' |-> log'[i]]
    BY <1>1 DEF With
  <2>2. \A i \in DOMAIN log' : log'[i] \in Entries
    BY <1>3, <1>8, <1>9, <1>12
  <2> QED BY <1>10, <2>1, <2>2
<1> QED BY <1>1, <1>3, <1>5, <1>6, <1>11, <1>12, <1>13 DEF e

LEMMA FlushKeeps ==
  ASSUME IInv, FlushOne
  PROVE  IInv'
<1> DEFINE e == Head(pending)
<1>1. UNCHANGED <<script, row, flagged, dyn, mode, ip, callIndex, seqs, origin, hit, result,
                  desired, token, rpc, world, crashes>> /\ mode = "flush"
  BY DEF FlushOne, cancel
<1>2. /\ pending # <<>> /\ e \in Entries /\ e.at <= LogLength /\ e.at < callIndex
      /\ LogLength' = IF e.at = LogLength THEN LogLength + 1 ELSE LogLength
      /\ log' \in [0..(LogLength' - 1) -> Entries]
      /\ \A i \in DOMAIN log' : log'[i] = IF i = e.at THEN e ELSE log[i]
  BY FlushTakes
<1>3. LogLength \in Nat /\ pending \in Seq(Entries) /\ callIndex \in Nat
  BY DEF IInv, Types
<1>4. e = pending[1] /\ pending' = Tail(pending)
  BY <1>2, <1>3 DEF FlushOne
<1> HIDE DEF e
<1>5. e.at \in Nat
  BY <1>2, EntryAt
<1>6. pending' \in Seq(Entries) /\ LogLength' \in Nat
  BY <1>2, <1>3, <1>4
<1>7. \A i \in DOMAIN log' : log'[i].at = i
  <2>1. \A i \in DOMAIN log' : i # e.at => i \in DOMAIN log
    BY <1>2, <1>3, <1>5 DEF IInv, Types
  <2> QED BY <1>2, <2>1 DEF IInv, Types
<1>8. Types'
  BY <1>1, <1>2, <1>6, <1>7 DEF IInv, Types
<1>9. Anchored'
  BY <1>1 DEF IInv, Anchored
<1>10. /\ Len(pending) \in Nat \ {0} /\ Len(pending') = Len(pending) - 1
       /\ \A k \in 1..Len(pending') : pending'[k] = pending[k + 1]
  BY <1>2, <1>3, <1>4
<1>11. \A k \in 1..Len(pending) : pending[k].at \in Nat
  BY <1>3, EntryAt
<1>12. Sorted(pending', LogLength', callIndex')
  <2> SUFFICES ASSUME NEW k \in 1..Len(pending')
               PROVE  /\ pending'[k].at < callIndex
                      /\ \A i \in LogLength'..(pending'[k].at - 1) :
                           \E j \in 1..(k - 1) : pending'[j].at = i
    BY <1>1 DEF Sorted
  <2>1. k + 1 \in 1..Len(pending) /\ pending'[k] = pending[k + 1]
    BY <1>10
  <2>2. /\ pending[k + 1].at < callIndex
        /\ \A i \in LogLength..(pending[k + 1].at - 1) : \E j \in 1..(k + 1 - 1) : pending[j].at = i
    BY <2>1 DEF IInv, Ordered, Sorted
  <2>3. ASSUME NEW i \in LogLength'..(pending'[k].at - 1)
        PROVE  \E j \in 1..(k - 1) : pending'[j].at = i
    <3>1. i \in LogLength..(pending[k + 1].at - 1) /\ i # e.at
      BY <1>2, <1>3, <1>5, <1>6, <1>11, <2>1
    <3>2. PICK j \in 1..(k + 1 - 1) : pending[j].at = i
      BY <2>2, <3>1
    <3>3. j # 1
      BY <1>4, <3>1, <3>2
    <3>4. j - 1 \in 1..(k - 1) /\ j - 1 \in 1..Len(pending') /\ (j - 1) + 1 = j
      BY <1>10, <3>2, <3>3
    <3>5. pending'[j - 1] = pending[j]
      BY <1>10, <3>4
    <3> QED BY <3>2, <3>4, <3>5
  <2> QED BY <2>1, <2>2, <2>3
<1>13. Covers(pending', LogLength', callIndex')
  <2> SUFFICES ASSUME NEW i \in LogLength'..(callIndex - 1)
               PROVE  \E j \in 1..Len(pending') : pending'[j].at = i
    BY <1>1 DEF Covers
  <2>1. i \in LogLength..(callIndex - 1) /\ i # e.at
    BY <1>2, <1>3, <1>5, <1>6
  <2>2. PICK j \in 1..Len(pending) : pending[j].at = i
    BY <2>1 DEF IInv, Ordered, Covers
  <2>3. j # 1
    BY <1>4, <2>1, <2>2
  <2>4. j - 1 \in 1..Len(pending') /\ (j - 1) + 1 = j
    BY <1>10, <2>2, <2>3
  <2>5. pending'[j - 1] = pending[j]
    BY <1>10, <2>4
  <2> QED BY <2>2, <2>4, <2>5
<1>14. Ordered'
  BY <1>1, <1>12, <1>13 DEF Ordered
<1>15. RowKept'
  BY <1>1 DEF IInv, RowKept
<1> QED BY <1>8, <1>9, <1>14, <1>15 DEF IInv

\* What remains of the driver, the cancel token, the reconciler and the
\* containers leaves the pass alone: the log and the context stay.
PassAlone ==
  UNCHANGED <<script, log, ip, callIndex, pending, seqs, origin, hit, result, crashes>>

LEMMA DriverRestKeeps ==
  ASSUME IInv,
         \/ Publish \/ Conclude \/ BeginCleanup \/ EndCleanup
         \/ WaitCheck \/ WaitLock \/ WaitBlock \/ WaitTimeout
  PROVE  IInv' /\ PassAlone
<1> USE DEF durable, context, cancel, history, SleepStep, Sleeping
<1>1. PassAlone /\ UNCHANGED <<token, rpc, world>>
  BY DEF PassAlone, Publish, Conclude, BeginCleanup, EndCleanup, WaitCheck, WaitLock, WaitBlock,
         WaitTimeout
<1>2. LogLength' = LogLength
  BY <1>1 DEF PassAlone, LogLength
<1>3. /\ mode' \in Modes \ {"pass", "flush"} /\ row' \in BOOLEAN /\ flagged' \in BOOLEAN
      /\ dyn' \subseteq Dynamic /\ pending = <<>> /\ RowKept'
  <2>1. CASE Publish
    BY <2>1 DEF Publish, IInv, Types, RowKept, Modes
  <2>2. CASE Conclude
    BY <2>2 DEF Conclude, IInv, Types, Ordered, RowKept, Modes
  <2>3. CASE BeginCleanup
    BY <2>3 DEF BeginCleanup, IInv, Types, Ordered, RowKept, Modes
  <2>4. CASE EndCleanup
    BY <2>4 DEF EndCleanup, IInv, Types, Ordered, RowKept, Modes
  <2>5. CASE WaitCheck
    BY <2>5 DEF WaitCheck, IInv, Types, Ordered, RowKept, Modes
  <2>6. CASE WaitLock
    BY <2>6 DEF WaitLock, IInv, Types, Ordered, RowKept, Modes
  <2>7. CASE WaitBlock
    BY <2>7 DEF WaitBlock, IInv, Types, Ordered, RowKept, Modes
  <2>8. CASE WaitTimeout
    BY <2>8 DEF WaitTimeout, IInv, Types, Ordered, RowKept, Modes
  <2> QED BY <2>1, <2>2, <2>3, <2>4, <2>5, <2>6, <2>7, <2>8
<1>4. desired' \subseteq Resources
  <2>1. desired \subseteq Resources
    BY DEF IInv, Types
  <2> QED BY <2>1 DEF Publish, FromLog, Conclude, BeginCleanup, EndCleanup, Steady, WaitCheck,
             WaitLock, WaitBlock, WaitTimeout
<1>5. Types'
  BY <1>1, <1>2, <1>3, <1>4 DEF PassAlone, IInv, Types
<1>6. Anchored' /\ Ordered'
  BY <1>1, <1>3, QuietKeeps DEF PassAlone
<1> QED BY <1>1, <1>3, <1>5, <1>6 DEF IInv

LEMMA OutsideKeeps ==
  ASSUME IInv,
         \/ RequestStore \/ RequestNotify \/ RequestPersist \/ ReapOrphans
         \/ \E r \in Resources : Actuate(r) \/ Exit(r)
  PROVE  IInv' /\ PassAlone
<1> USE DEF durable, context, cancel, history
<1>1. PassAlone /\ UNCHANGED <<row, desired>>
  BY DEF PassAlone, RequestStore, RequestNotify, RequestPersist, ReapOrphans, Actuate, Exit
<1>2. LogLength' = LogLength
  BY <1>1 DEF PassAlone, LogLength
<1>3. /\ mode' \in Modes /\ (mode' = mode \/ (mode' \notin {"pass", "flush"} /\ pending = <<>>))
      /\ token' \in BOOLEAN /\ flagged' \in BOOLEAN /\ rpc' \in {"idle", "stored", "notified", "done"}
      /\ dyn' \subseteq Dynamic /\ RowKept'
  <2>1. CASE RequestStore
    <3>1. UNCHANGED <<mode, dyn, flagged>> /\ token' = TRUE /\ rpc' = "stored"
      BY <2>1 DEF RequestStore
    <3>2. RowKept'
      BY <1>1, <3>1 DEF PassAlone, IInv, RowKept
    <3> QED BY <3>1, <3>2 DEF IInv, Types
  <2>2. CASE RequestNotify
    <3>1. /\ UNCHANGED <<dyn, flagged, token>> /\ rpc' = "notified"
          /\ mode' = IF mode = "waiting" THEN "begin" ELSE mode
      BY <2>2 DEF RequestNotify
    <3>2. RowKept'
      BY <1>1, <3>1 DEF PassAlone, IInv, RowKept
    <3>3. mode' \in Modes
      BY <3>1 DEF IInv, Types, Modes
    <3> QED BY <3>1, <3>2, <3>3 DEF IInv, Types, Ordered
  <2>3. CASE ReapOrphans
    BY <2>3 DEF ReapOrphans, IInv, Types, Ordered, RowKept, Modes
  <2>4. CASE \E r \in Resources : Actuate(r) \/ Exit(r)
    <3>1. UNCHANGED <<mode, dyn, flagged, token, rpc>>
      BY <2>4 DEF Actuate, Exit
    <3>2. RowKept'
      BY <1>1, <3>1 DEF PassAlone, IInv, RowKept
    <3> QED BY <3>1, <3>2 DEF IInv, Types
  <2>5. CASE RequestPersist
    <3>1. UNCHANGED <<mode, dyn, token>> /\ flagged' = row /\ rpc' = "done"
      BY <2>5 DEF RequestPersist
    <3>2. RowKept'
      BY <1>1, <3>1 DEF PassAlone, IInv, RowKept
    <3>3. flagged' \in BOOLEAN
      BY <3>1 DEF IInv, Types
    <3> QED BY <3>1, <3>2, <3>3 DEF IInv, Types
  <2> QED BY <2>1, <2>2, <2>3, <2>4, <2>5
<1>4. world' \in [Resources -> States]
  BY DEF RequestStore, RequestNotify, RequestPersist, ReapOrphans, Actuate, Exit, IInv, Types, States
<1>5. Types'
  BY <1>1, <1>2, <1>3, <1>4 DEF PassAlone, IInv, Types
<1>6. mode' \notin {"pass", "flush"} => pending = <<>>
  BY <1>3 DEF IInv, Ordered
<1>7. Anchored' /\ Ordered'
  BY <1>1, <1>3, <1>6, QuietKeeps DEF PassAlone
<1> QED BY <1>1, <1>3, <1>5, <1>7 DEF IInv

LEMMA CrashKeeps ==
  ASSUME IInv, Crash
  PROVE  IInv'
<1>1. UNCHANGED <<script, log, row, flagged, dyn, result, world, LogLength>>
  BY DEF Crash, durable, LogLength
<1>2. seqs' \in Maps(Nat) /\ origin' \in Maps(Nat) /\ pending' \in Seq(Entries)
  BY EmptyMap DEF Crash
<1>3. Types'
  <2>1. mode' \in Modes /\ hit' \in BOOLEAN /\ token' \in BOOLEAN /\ rpc' \in {"idle", "stored", "notified", "done"}
    BY DEF Crash, Modes
  <2>2. ip' \in Nat \ {0} /\ callIndex' \in Nat
    BY DEF Crash
  <2>3. crashes' \in 0..MaxCrashes
    BY BoundsAssumption DEF Crash, IInv, Types
  <2>4. desired' \subseteq Resources
    BY DEF Crash, Steady
  <2> QED BY <1>1, <1>2, <2>1, <2>2, <2>3, <2>4 DEF IInv, Types
<1>4. Anchored'
  BY DEF Crash, Anchored
<1>5. Ordered'
  BY <1>1 DEF Crash, Ordered, Sorted, Covers, IInv, Types
<1>6. RowKept'
  BY <1>1 DEF IInv, RowKept, Crash
<1> QED BY <1>3, <1>4, <1>5, <1>6 DEF IInv

LEMMA ResumeKeeps ==
  ASSUME IInv, NEW s \in Scripts, Resume(s)
  PROVE  IInv'
<1>1. UNCHANGED <<log, row, flagged, dyn, ip, callIndex, pending, seqs, origin, hit, result,
                  desired, world, crashes, LogLength>> /\ script' = s
  BY DEF Resume, durable, context, LogLength
<1>2. Types'
  BY <1>1 DEF Resume, IInv, Types, Modes
<1>3. Anchored' /\ Ordered'
  BY <1>1 DEF Resume, IInv, Anchored, Ordered
<1>4. RowKept'
  BY <1>1 DEF IInv, RowKept, Resume
<1> QED BY <1>2, <1>3, <1>4 DEF IInv

\* A second changes ages only.
LEMMA OlderType ==
  ASSUME NEW e \in Entries
  PROVE  OlderBars(e) \in Entries /\ Same(OlderBars(e), e)
<1> DEFINE b == [q \in DOMAIN e.bars |-> OlderBar(e.bars[q])]
<1>1. e.bars \in Maps(BarRecord)
  BY DEF Entries
<1>2. PICK S \in SUBSET Nat : e.bars \in [S -> BarRecord]
  BY <1>1 DEF Maps
<1>3. \A r \in BarRecord : OlderBar(r) \in BarRecord
  BY BoundsAssumption DEF BarRecord, Older, OlderBar
<1>4. b \in [S -> BarRecord]
  BY <1>2, <1>3
<1>5. b \in Maps(BarRecord)
  BY <1>4 DEF Maps
<1>6. OlderBars(e) = [e EXCEPT !.bars = b]
  BY DEF OlderBars
<1> HIDE DEF b
<1> QED BY <1>5, <1>6 DEF Entries, Same

LEMMA TickKeeps ==
  ASSUME IInv, Tick
  PROVE  /\ IInv' /\ UNCHANGED <<script, LogLength, callIndex>>
         /\ Len(pending') = Len(pending) /\ DOMAIN log' = DOMAIN log
         /\ \A k \in 1..Len(pending) : Same(pending'[k], pending[k])
         /\ \A i \in DOMAIN log : Same(log'[i], log[i])
<1>1. UNCHANGED <<script, row, flagged, dyn, mode, ip, callIndex, seqs, origin, hit, result,
                  desired, token, rpc, world, crashes>>
  BY DEF Tick, cancel
<1>2. /\ log' = [i \in DOMAIN log |-> OlderBars(log[i])]
      /\ pending' = [k \in 1..Len(pending) |-> OlderBars(pending[k])]
  BY DEF Tick
<1>3. LogLength' = LogLength /\ DOMAIN log' = DOMAIN log
  BY <1>2 DEF LogLength
<1>4. pending \in Seq(Entries) /\ log \in [0..(LogLength - 1) -> Entries] /\ LogLength \in Nat
      /\ callIndex \in Nat /\ \A i \in DOMAIN log : log[i].at = i
  BY DEF IInv, Types
<1>5. \A i \in DOMAIN log : log'[i] \in Entries /\ Same(log'[i], log[i])
  BY <1>2, <1>4, OlderType
<1>6. Len(pending) \in Nat /\ \A k \in 1..Len(pending) : pending[k] \in Entries
  BY <1>4
<1>7. \A k \in 1..Len(pending) : pending'[k] \in Entries /\ Same(pending'[k], pending[k])
  BY <1>2, <1>6, OlderType
<1>8. pending' \in [1..Len(pending) -> Entries]
  BY <1>2, <1>7
<1>9. pending' \in Seq(Entries) /\ Len(pending') = Len(pending)
  BY <1>6, <1>8
<1>10. log' \in [0..(LogLength - 1) -> Entries]
  BY <1>2, <1>4, <1>5
<1>11. \A i \in DOMAIN log' : log'[i].at = i
  BY <1>3, <1>4, <1>5 DEF Same
<1>12. Types'
  BY <1>1, <1>3, <1>9, <1>10, <1>11 DEF IInv, Types
<1>13. Anchored'
  BY <1>1 DEF IInv, Anchored
<1>14. \A k \in 1..Len(pending) : pending'[k].at = pending[k].at
  BY <1>7 DEF Same
<1>15. Sorted(pending', LogLength, callIndex) /\ Covers(pending', LogLength, callIndex)
  BY <1>4, <1>9, <1>14, SameOrder DEF IInv, Ordered
<1>16. pending = <<>> => pending' = <<>>
  BY <1>9, <1>4
<1>17. Ordered'
  BY <1>1, <1>3, <1>15, <1>16 DEF IInv, Ordered
<1>18. RowKept'
  BY <1>1 DEF IInv, RowKept
<1> QED BY <1>1, <1>3, <1>5, <1>7, <1>9, <1>12, <1>13, <1>17, <1>18 DEF IInv

LEMMA StepInv ==
  ASSUME IInv, [Next]_vars
  PROVE  IInv'
<1>1. CASE RtCall
  BY <1>1, CallsStep, CallKeeps, ReturnKeeps DEF RtCall
<1>2. CASE Driver
  BY <1>1, <1>2, BeginPassKeeps, FlushKeeps, DriverRestKeeps DEF Driver
<1>3. CASE UNCHANGED vars
  <2>1. UNCHANGED <<script, log, row, flagged, dyn, mode, ip, callIndex, pending, seqs, origin, hit,
                    result, desired, token, rpc, world, crashes, LogLength>>
    BY <1>3 DEF vars, durable, context, cancel, LogLength
  <2> QED BY <2>1 DEF IInv, Types, Anchored, Ordered, RowKept
<1> QED BY <1>2, <1>3, OutsideKeeps, CrashKeeps, ResumeKeeps, TickKeeps DEF Next

\* Type correctness: in every reachable state of the driver, the log is numbered
\* without a gap and the pass has no entry beyond the position it has reached.
THEOREM TypeCorrect == Spec => []TypeOK
<1>1. Init => IInv
  BY InitInv
<1>2. IInv /\ [Next]_vars => IInv'
  BY StepInv
<1>3. IInv => TypeOK
  BY DEF IInv, Types, Ordered, Sorted, TypeOK
<1> QED BY <1>1, <1>2, <1>3, PTL DEF Spec

-----------------------------------------------------------------------------
(* The cancel token.                                                       *)

\* Once request() has notified, the flag is set and nobody is between the
\* check of the flag and the end of the wait.
Notified ==
  /\ rpc # "idle" => token
  /\ rpc \in {"notified", "done"} => mode \notin {"held", "waiting"}

LEMMA StepNotified ==
  ASSUME IInv, Notified, [Next]_vars
  PROVE  Notified'
<1> USE DEF durable, context, cancel, history
<1>1. CASE RtCall
  <2>1. CASE Return
    BY <2>1 DEF Return, Notified
  <2>2. CASE CallStep
    BY <2>2 DEF CallStep, Moving, Notified
  <2> QED BY <1>1, <2>1, <2>2, CallsStep DEF RtCall
<1>2. CASE BeginPass \/ FlushOne \/ Publish \/ Conclude \/ BeginCleanup \/ EndCleanup
  BY <1>2 DEF BeginPass, FlushOne, Publish, Conclude, BeginCleanup, EndCleanup, Notified
<1>3. CASE WaitCheck \/ WaitLock \/ WaitBlock \/ WaitTimeout
  BY <1>3 DEF WaitCheck, WaitLock, WaitBlock, WaitTimeout, SleepStep, Notified
<1>4. CASE RequestStore \/ RequestNotify \/ RequestPersist
  <2>1. CASE RequestStore
    BY <2>1 DEF RequestStore, Notified
  <2>2. CASE RequestNotify
    BY <2>2 DEF RequestNotify, MutexFree, Notified
  <2>3. CASE RequestPersist
    BY <2>3 DEF RequestPersist, Notified
  <2> QED BY <1>4, <2>1, <2>2, <2>3
<1>5. CASE Crash \/ ReapOrphans \/ \E s \in Scripts : Resume(s)
  BY <1>5 DEF Crash, ReapOrphans, Resume, Notified, IInv, Types
<1>6. CASE Tick \/ \E r \in Resources : Actuate(r) \/ Exit(r)
  BY <1>6 DEF Tick, Actuate, Exit, Notified
<1>7. CASE UNCHANGED vars
  BY <1>7 DEF vars, Notified
<1> QED BY <1>1, <1>2, <1>3, <1>4, <1>5, <1>6, <1>7 DEF Next, Driver

\* NoLostWakeup, r[operation.cancel]: whatever the interleaving of
\* CancelToken::request with wait_for, the driver never sleeps on a request that
\* has been notified.
THEOREM NeverSleptThrough == Spec => []NoLostWakeup
<1>1. Init => IInv /\ Notified
  BY InitInv DEF Init, Notified
<1>2. IInv /\ Notified /\ [Next]_vars => IInv' /\ Notified'
  BY StepInv, StepNotified
<1>3. IInv /\ Notified => NoLostWakeup
  BY DEF Notified, NoLostWakeup
<1> QED BY <1>1, <1>2, <1>3, PTL DEF Spec

-----------------------------------------------------------------------------
(* The containers an operation defines.                                    *)

\* The rows cover what the log and the pass have started, and so what the
\* reconciler is asked to bring up; outside an operation it is asked nothing.
Rowed ==
  /\ row => /\ \A i \in DOMAIN log : Owned(log[i], dyn)
            /\ \A k \in 1..Len(pending) : Owned(pending[k], dyn)
  /\ desired \cap Dynamic \subseteq dyn
  /\ mode = "down" => desired \cap Dynamic = {}
  /\ mode # "over" => orphaned = {}
  /\ NoOrphans

LEMMA CallRowed ==
  ASSUME IInv, Rowed, CallStep
  PROVE  Rowed'
<1>1. /\ UNCHANGED <<log, row, desired, world, orphaned>> /\ dyn \subseteq dyn'
      /\ mode = "pass" /\ mode' \in {"pass", "flush"}
  BY DEF CallStep, Moving
<1>2. pending \in Seq(Entries) /\ row
  BY <1>1 DEF IInv, Types, RowKept
<1>3. \A k \in 1..Len(pending') : Owned(pending'[k], dyn')
  <2>1. \A k \in 1..Len(pending) : Owned(pending[k], dyn')
    BY <1>1, <1>2 DEF Rowed, Owned
  <2>2. CASE Stays \/ Replays
    BY <2>1, <2>2 DEF Stays, Replays
  <2>3. CASE Records
    <3>1. PICK e \in Entries : Owned(e, dyn') /\ pending' = Append(pending, e)
      BY <2>3 DEF Records
    <3>2. /\ Len(pending') = Len(pending) + 1 /\ pending'[Len(pending) + 1] = e
          /\ Len(pending) \in Nat /\ \A k \in 1..Len(pending) : pending'[k] = pending[k]
      BY <1>2, <3>1
    <3>3. \A k \in 1..Len(pending') : k \in 1..Len(pending) \/ k = Len(pending) + 1
      BY <3>2
    <3> QED BY <2>1, <3>1, <3>2, <3>3
  <2>4. CASE Marks
    <3>1. CASE /\ pending' \in Seq(Entries) /\ Len(pending') = Len(pending)
               /\ \A k \in 1..Len(pending) : Same(pending'[k], pending[k])
      BY <2>1, <3>1 DEF Same, Owned
    <3>2. CASE \E e \in Entries, i \in DOMAIN log :
                 i < callIndex /\ Same(e, log[i]) /\ pending' = Append(pending, e)
      <4>1. PICK e \in Entries, i \in DOMAIN log : Same(e, log[i]) /\ pending' = Append(pending, e)
        BY <3>2
      <4>2. Owned(e, dyn')
        BY <1>1, <1>2, <4>1 DEF Rowed, Owned, Same
      <4>3. /\ Len(pending') = Len(pending) + 1 /\ pending'[Len(pending) + 1] = e
            /\ Len(pending) \in Nat /\ \A k \in 1..Len(pending) : pending'[k] = pending[k]
        BY <1>2, <4>1
      <4>4. \A k \in 1..Len(pending') : k \in 1..Len(pending) \/ k = Len(pending) + 1
        BY <4>3
      <4> QED BY <2>1, <4>2, <4>3, <4>4
    <3> QED BY <2>4, <3>1, <3>2 DEF Marks
  <2> QED BY <2>2, <2>3, <2>4 DEF CallStep
<1>4. \A i \in DOMAIN log' : Owned(log'[i], dyn')
  BY <1>1, <1>2 DEF Rowed, Owned
<1>5. NoOrphans'
  BY <1>1 DEF Rowed, NoOrphans
<1> QED BY <1>1, <1>3, <1>4, <1>5 DEF Rowed

LEMMA FlushRowed ==
  ASSUME IInv, Rowed, FlushOne
  PROVE  Rowed'
<1>1. UNCHANGED <<row, dyn, mode, desired, world, orphaned>> /\ mode = "flush"
  BY DEF FlushOne, history
<1>2. pending \in Seq(Entries) /\ row /\ pending # <<>> /\ pending' = Tail(pending)
  BY <1>1 DEF IInv, Types, RowKept, FlushOne
<1>3. /\ Head(pending) = pending[1] /\ 1 \in 1..Len(pending) /\ Len(pending') = Len(pending) - 1
      /\ \A k \in 1..Len(pending') : pending'[k] = pending[k + 1] /\ k + 1 \in 1..Len(pending)
  BY <1>2
<1>4. \A k \in 1..Len(pending') : Owned(pending'[k], dyn)
  BY <1>2, <1>3 DEF Rowed
<1>5. \A i \in DOMAIN log' : Owned(log'[i], dyn)
  <2>1. /\ DOMAIN log' = DOMAIN log \cup {Head(pending).at}
        /\ \A i \in DOMAIN log' : log'[i] = IF i = Head(pending).at THEN Head(pending) ELSE log[i]
    BY DEF FlushOne, With
  <2>2. Owned(Head(pending), dyn)
    BY <1>2, <1>3 DEF Rowed
  <2> QED BY <1>2, <2>1, <2>2 DEF Rowed
<1>6. NoOrphans'
  BY <1>1 DEF Rowed, NoOrphans
<1> QED BY <1>1, <1>4, <1>5, <1>6 DEF Rowed

\* A container becomes Ready only where it is desired.
LEMMA StepRowed ==
  ASSUME IInv, Rowed, [Next]_vars
  PROVE  Rowed'
<1> USE DEF durable, context, cancel, history
<1>1. CASE RtCall
  <2>1. CASE Return
    <3>1. UNCHANGED <<log, row, dyn, pending, desired, world, orphaned>> /\ mode = "pass" /\ mode' = "flush"
      BY <2>1 DEF Return
    <3> QED BY <3>1 DEF Rowed, NoOrphans
  <2>2. CASE CallStep
    BY <2>2, CallRowed
  <2> QED BY <1>1, <2>1, <2>2, CallsStep DEF RtCall
<1>2. CASE BeginPass
  <2>1. /\ UNCHANGED <<log, row, dyn, desired, world, orphaned>> /\ pending' = <<>>
        /\ mode = "begin" /\ mode' = "pass"
    BY <1>2 DEF BeginPass
  <2>2. Len(pending') = 0
    BY <2>1
  <2> QED BY <2>1, <2>2 DEF Rowed, NoOrphans
<1>3. CASE FlushOne
  BY <1>3, FlushRowed
<1>4. CASE Publish
  <2>1. /\ UNCHANGED <<log, row, dyn, pending, world, orphaned>> /\ desired' = FromLog
        /\ mode = "flush" /\ mode' \in {"suspended", "ended"}
    BY <1>4 DEF Publish
  <2>2. row
    BY <2>1 DEF IInv, RowKept
  <2>3. FromLog \cap Dynamic \subseteq dyn
    BY <2>2 DEF FromLog, Rowed, Owned
  <2> QED BY <2>1, <2>3 DEF Rowed, NoOrphans
<1>5. CASE Conclude
  <2>1. /\ UNCHANGED <<log, dyn, pending, desired, world, orphaned>> /\ row' = FALSE
        /\ mode = "ended" /\ mode' = "concluded"
    BY <1>5 DEF Conclude
  <2> QED BY <2>1 DEF Rowed, NoOrphans
<1>6. CASE BeginCleanup
  <2>1. /\ UNCHANGED <<log, row, dyn, pending, world, orphaned>> /\ desired' \subseteq desired
        /\ mode = "concluded" /\ mode' = "cleanup"
    BY <1>6 DEF BeginCleanup
  <2> QED BY <2>1 DEF Rowed, NoOrphans
<1>7. CASE EndCleanup
  <2>1. /\ UNCHANGED <<log, row, pending, world>> /\ dyn' = {} /\ desired' \cap Dynamic = {}
        /\ mode = "cleanup" /\ mode' = "over" /\ orphaned' = {r \in dyn : ~HasReached(r, "Terminated")}
    BY <1>7 DEF EndCleanup, Steady
  <2>2. ~row /\ orphaned = {}
    BY <2>1 DEF IInv, RowKept, Rowed
  <2>3. \A r \in Dynamic : world[r] = "Ready" => ~HasReached(r, "Terminated")
    BY DEF HasReached, Ordinal
  <2>4. NoOrphans'
    BY <2>1, <2>2, <2>3 DEF Rowed, NoOrphans
  <2> QED BY <2>1, <2>2, <2>4 DEF Rowed
<1>8. CASE WaitCheck \/ WaitLock \/ WaitBlock \/ WaitTimeout
  <2>1. /\ UNCHANGED <<log, row, dyn, pending, desired, world, orphaned>>
        /\ mode \notin {"over", "down"} /\ mode' \notin {"over", "down"}
    BY <1>8 DEF WaitCheck, WaitLock, WaitBlock, WaitTimeout, SleepStep
  <2> QED BY <2>1 DEF Rowed, NoOrphans
<1>9. CASE RequestStore \/ RequestNotify \/ RequestPersist
  <2>1. /\ UNCHANGED <<log, row, dyn, pending, desired, world, orphaned>>
        /\ mode' = mode \/ (mode = "waiting" /\ mode' = "begin")
    BY <1>9 DEF RequestStore, RequestNotify, RequestPersist
  <2> QED BY <2>1 DEF Rowed, NoOrphans
<1>10. CASE Crash
  <2>1. /\ UNCHANGED <<log, row, dyn, world, orphaned>> /\ pending' = <<>>
        /\ desired' \cap Dynamic = {} /\ mode # "over" /\ mode' = "down"
    BY <1>10 DEF Crash, Steady
  <2>2. Len(pending') = 0
    BY <2>1
  <2> QED BY <2>1, <2>2 DEF Rowed, NoOrphans
<1>11. CASE \E s \in Scripts : Resume(s)
  <2>1. /\ UNCHANGED <<log, row, dyn, pending, desired, world, orphaned>>
        /\ mode = "down" /\ mode' = "begin"
    BY <1>11 DEF Resume
  <2> QED BY <2>1 DEF Rowed, NoOrphans
<1>12. CASE ReapOrphans
  <2>1. /\ UNCHANGED <<log, row, pending, desired, orphaned>> /\ dyn' = {} /\ ~row
        /\ mode = "down" /\ mode' = "over"
        /\ world' = [r \in Resources |->
                 IF r \in dyn /\ world[r] = "Ready" THEN "Terminated" ELSE world[r]]
    BY <1>12 DEF ReapOrphans
  <2>2. NoOrphans'
    BY <2>1, BoundsAssumption DEF Rowed, NoOrphans
  <2> QED BY <2>1, <2>2 DEF Rowed
<1>13. ASSUME NEW r \in Resources, Actuate(r) \/ Exit(r)
       PROVE  Rowed'
  <2>1. /\ UNCHANGED <<log, row, dyn, pending, desired, orphaned, mode>>
        /\ \E v \in States : world' = [world EXCEPT ![r] = v] /\ (v = "Ready" => r \in desired)
    BY <1>13 DEF Actuate, Exit, States
  <2>2. NoOrphans'
    BY <2>1, BoundsAssumption DEF Rowed, NoOrphans, IInv, Types
  <2> QED BY <2>1, <2>2 DEF Rowed
<1>14. CASE Tick
  <2>1. UNCHANGED <<row, dyn, desired, world, orphaned, mode>>
    BY <1>14 DEF Tick
  <2>2. /\ Len(pending') = Len(pending) /\ DOMAIN log' = DOMAIN log
        /\ \A k \in 1..Len(pending) : Same(pending'[k], pending[k])
        /\ \A i \in DOMAIN log : Same(log'[i], log[i])
    BY <1>14, TickKeeps
  <2>3. \A k \in 1..Len(pending) : Owned(pending[k], dyn) => Owned(pending'[k], dyn')
    BY <2>1, <2>2 DEF Same, Owned
  <2>4. \A i \in DOMAIN log : Owned(log[i], dyn) => Owned(log'[i], dyn')
    BY <2>1, <2>2 DEF Same, Owned
  <2> QED BY <2>1, <2>2, <2>3, <2>4 DEF Rowed, NoOrphans
<1>15. CASE UNCHANGED vars
  <2>1. UNCHANGED <<log, row, dyn, pending, desired, world, orphaned, mode>>
    BY <1>15 DEF vars
  <2> QED BY <2>1 DEF Rowed, NoOrphans
<1> QED BY <1>1, <1>2, <1>3, <1>4, <1>5, <1>6, <1>7, <1>8, <1>9, <1>10, <1>11, <1>12, <1>13, <1>14,
           <1>15 DEF Next, Driver

\* NoOrphans, cleanup_dynamic_resources: in every order of crashes, passes and
\* reconciler steps, a running container that the closure defined has a row for
\* the next start-up to find, or was given up on when the cleanup ran out.
THEOREM EveryContainerKnown == Spec => []NoOrphans
<1>1. Init => IInv /\ Rowed
  <2>1. Init => Rowed
    <3> SUFFICES ASSUME Init PROVE Rowed
      OBVIOUS
    <3>1. DOMAIN log = {} /\ Len(pending) = 0
      BY DEF Init
    <3> QED BY <3>1, BoundsAssumption DEF Init, Rowed, NoOrphans, Steady
  <2> QED BY <2>1, InitInv
<1>2. IInv /\ Rowed /\ [Next]_vars => IInv' /\ Rowed'
  BY StepInv, StepRowed
<1>3. Rowed => NoOrphans
  BY DEF Rowed
<1> QED BY <1>1, <1>2, <1>3, PTL DEF Spec

-----------------------------------------------------------------------------
(* The refinement of the ledger.                                           *)

\* The closure leaves no call out that it would log: it has try blocks around
\* barriers only.  A logged call whose exception is caught is neither made nor
\* on record, and an operation that completes without it has done as it was told.
CatchesBarriers ==
  \A s \in Scripts : \A k \in 1..Len(s) : s[k].catch => ~Logged(s[k])

LoggedBefore(n) == {k \in 1..n : Logged(script[k])}

\* The position has passed every logged call before the instruction pointer,
\* and all of them when the closure returned.
Counted ==
  /\ mode = "pass" => Cardinality(LoggedBefore(ip - 1)) <= callIndex
  /\ mode \in {"flush", "ended"} /\ result = "Completed" => CallsIn(script) <= callIndex

LEMMA LoggedFinite ==
  ASSUME NEW n \in Nat
  PROVE  IsFiniteSet(LoggedBefore(n)) /\ Cardinality(LoggedBefore(n)) \in Nat
<1>1. IsFiniteSet(1..n) /\ LoggedBefore(n) \in SUBSET (1..n)
  BY FS_Interval DEF LoggedBefore
<1> QED BY <1>1, FS_Subset, FS_CardinalityType

LEMMA CallsCounted ==
  ASSUME Types
  PROVE  CallsIn(script) = Cardinality(LoggedBefore(Len(script))) /\ CallsIn(script) \in Nat
<1>1. Len(script) \in Nat
  BY ScriptsAssumption DEF Types
<1> QED BY <1>1, LoggedFinite DEF CallsIn, LoggedBefore, Positions

LEMMA CallsCountedNext ==
  ASSUME Types'
  PROVE  CallsIn(script)' \in Nat
<1>1. script' \in Scripts
  BY DEF Types
<1>2. Len(script') \in Nat
  BY <1>1, ScriptsAssumption
<1>3. /\ IsFiniteSet(1..Len(script'))
      /\ {k \in 1..Len(script') : Logged(script'[k])} \in SUBSET (1..Len(script'))
  BY <1>2, FS_Interval
<1> QED BY <1>3, FS_Subset, FS_CardinalityType DEF CallsIn, Positions

LEMMA CallCounted ==
  ASSUME CatchesBarriers, IInv, Counted, CallStep
  PROVE  Counted'
<1>1. mode = "pass" /\ ip \in 1..Len(script) /\ script' = script /\ Moving
  BY DEF CallStep, Positions
<1>2. ip \in Nat \ {0} /\ callIndex \in Nat
  BY DEF IInv, Types
<1>3. CASE mode' = "pass"
  <2>1. ip' = ip + 1 /\ mode' = mode
    BY <1>1, <1>3 DEF Moving
  <2>2. callIndex' \in Nat /\ callIndex <= callIndex'
    BY <1>2 DEF CallStep, Stays, Replays, Records, Marks
  <2>3. Logged(script[ip]) => callIndex' = callIndex + 1
    BY <1>1, <2>1 DEF CallStep, Call, CatchesBarriers, IInv, Types
  <2>4. ip - 1 \in Nat /\ ip' - 1 = ip
    BY <1>2, <2>1
  <2>5. LoggedBefore(ip) = IF Logged(script[ip]) THEN LoggedBefore(ip - 1) \cup {ip}
                           ELSE LoggedBefore(ip - 1)
    <3>1. 1..ip = 1..(ip - 1) \cup {ip}
      BY <1>2
    <3> QED BY <3>1 DEF LoggedBefore
  <2>6. /\ IsFiniteSet(LoggedBefore(ip - 1)) /\ Cardinality(LoggedBefore(ip - 1)) \in Nat
        /\ ip \notin LoggedBefore(ip - 1)
    <3>1. ip \notin 1..(ip - 1)
      BY <1>2
    <3>2. ip \notin LoggedBefore(ip - 1)
      BY <3>1 DEF LoggedBefore
    <3> QED BY <2>4, <3>2, LoggedFinite
  <2>7. Cardinality(LoggedBefore(ip)) =
          IF Logged(script[ip]) THEN Cardinality(LoggedBefore(ip - 1)) + 1
          ELSE Cardinality(LoggedBefore(ip - 1))
    BY <2>5, <2>6, FS_AddElement
  <2>8. Cardinality(LoggedBefore(ip - 1)) <= callIndex
    BY <1>1 DEF Counted
  <2>9. Cardinality(LoggedBefore(ip)) <= callIndex'
    BY <1>2, <2>2, <2>3, <2>6, <2>7, <2>8
  <2>10. LoggedBefore(ip - 1)' = LoggedBefore(ip)
    BY <1>1, <2>4 DEF LoggedBefore
  <2> QED BY <1>3, <2>9, <2>10 DEF Counted
<1>4. CASE mode' # "pass"
  BY <1>1, <1>4 DEF Moving, Counted
<1> QED BY <1>3, <1>4

LEMMA StepCounted ==
  ASSUME CatchesBarriers, IInv, Counted, [Next]_vars
  PROVE  Counted'
<1> USE DEF durable, context, cancel, history
<1>1. CASE RtCall
  <2>1. CASE Return
    <3>1. ip - 1 = Len(script) /\ UNCHANGED <<script, callIndex>> /\ mode' = "flush"
      <4>1. Len(script) \in Nat /\ ip \in Nat
        BY ScriptsAssumption DEF IInv, Types
      <4> QED BY <2>1, <4>1 DEF Return, IInv, Anchored
    <3>2. CallsIn(script) <= callIndex
      BY <2>1, <3>1, CallsCounted DEF Return, Counted, IInv
    <3> QED BY <3>1, <3>2 DEF Counted
  <2>2. CASE CallStep
    BY <2>2, CallCounted
  <2> QED BY <1>1, <2>1, <2>2, CallsStep DEF RtCall
<1>2. CASE BeginPass
  <2>1. ip' - 1 = 0 /\ callIndex' = 0 /\ mode' = "pass"
    BY <1>2 DEF BeginPass
  <2>2. LoggedBefore(ip - 1)' = {}
    BY <2>1 DEF LoggedBefore
  <2>3. Cardinality({}) = 0
    BY FS_EmptySet
  <2> QED BY <2>1, <2>2, <2>3 DEF Counted
<1>3. CASE FlushOne \/ Publish \/ Conclude \/ BeginCleanup \/ EndCleanup
  <2>1. /\ UNCHANGED <<script, callIndex, result>> /\ mode' # "pass"
        /\ mode' \in {"flush", "ended"} => mode \in {"flush", "ended"}
    BY <1>3 DEF FlushOne, Publish, Conclude, BeginCleanup, EndCleanup
  <2> QED BY <2>1 DEF Counted
<1>4. CASE \/ WaitCheck \/ WaitLock \/ WaitBlock \/ WaitTimeout \/ Crash \/ ReapOrphans
           \/ \E s \in Scripts : Resume(s)
  <2>1. mode' \notin {"pass", "flush", "ended"}
    BY <1>4 DEF WaitCheck, WaitLock, WaitBlock, WaitTimeout, SleepStep, Crash, ReapOrphans, Resume
  <2> QED BY <2>1 DEF Counted
<1>5. CASE \/ RequestStore \/ RequestNotify \/ RequestPersist \/ Tick
           \/ \E r \in Resources : Actuate(r) \/ Exit(r)
  <2>1. /\ UNCHANGED <<script, ip, callIndex, result>>
        /\ mode' = mode \/ mode' = "begin"
    BY <1>5 DEF RequestStore, RequestNotify, RequestPersist, Tick, Actuate, Exit
  <2> QED BY <2>1 DEF Counted, LoggedBefore
<1>6. CASE UNCHANGED vars
  <2>1. UNCHANGED <<script, ip, callIndex, result, mode>>
    BY <1>6 DEF vars
  <2> QED BY <2>1 DEF Counted, LoggedBefore
<1> QED BY <1>1, <1>2, <1>3, <1>4, <1>5, <1>6 DEF Next, Driver

\* The refinement mapping, and the ledger's steps in its terms.
Made == IF callIndex < LogLength THEN LogLength ELSE callIndex
Outcome == IF row THEN "open" ELSE result

LEMMA Stutters ==
  ASSUME UNCHANGED <<Made, LogLength, Outcome>>, CallsIn(script)' = CallsIn(script)
  PROVE  UNCHANGED CL!ledger
BY DEF CL!ledger, Made, Outcome

LEMMA Makes ==
  ASSUME row, row', Made' = Made + 1, LogLength' = LogLength, CallsIn(script)' = CallsIn(script)
  PROVE  CL!LedgerNext
BY DEF CL!LedgerNext, CL!Make, Made

LEMMA Keeps ==
  ASSUME row, row', Made' = Made, LogLength < Made, LogLength' = LogLength + 1,
         CallsIn(script)' = CallsIn(script)
  PROVE  CL!LedgerNext
BY DEF CL!LedgerNext, CL!Keep, Made

LEMMA Forgets ==
  ASSUME Made' = LogLength, LogLength' = LogLength, CallsIn(script)' = CallsIn(script),
         Outcome' = Outcome
  PROVE  CL!LedgerNext
BY DEF CL!LedgerNext, CL!Forget, Made, Outcome

LEMMA Edits ==
  ASSUME row, row', Made' = Made, Made = LogLength, LogLength' = LogLength,
         CallsIn(script)' \in Nat
  PROVE  CL!LedgerNext
BY DEF CL!LedgerNext, CL!Edit, Made

LEMMA Concludes ==
  ASSUME row, ~row', Made' = Made, Made = LogLength, LogLength' = LogLength,
         CallsIn(script)' = CallsIn(script), result' \in Results \ {"Suspended"},
         result' = "Completed" => LogLength >= CallsIn(script)
  PROVE  CL!LedgerNext
<1>1. CL!End(result')
  BY DEF CL!End, Made
<1> QED BY <1>1 DEF CL!LedgerNext

\* Every step of replay is a step of the ledger or leaves it as it is.
LEMMA StepLedger ==
  ASSUME CatchesBarriers, IInv, Counted, [Next]_vars
  PROVE  [CL!LedgerNext]_(CL!ledger)
<1> USE DEF durable, context, cancel, history
<1>1. LogLength \in Nat /\ callIndex \in Nat /\ Made \in Nat /\ pending \in Seq(Entries)
  BY DEF IInv, Types, Made
<1>2. ASSUME UNCHANGED <<script, log, callIndex, row>>, ~row => result' = result
      PROVE  UNCHANGED CL!ledger
  <2>1. UNCHANGED <<Made, LogLength, Outcome>> /\ CallsIn(script)' = CallsIn(script)
    BY <1>2 DEF Made, LogLength, Outcome, CallsIn, Positions
  <2> QED BY <2>1, Stutters
<1>3. ASSUME pending = <<>>
      PROVE  Made = LogLength
  <2>1. Len(pending) = 0
    BY <1>3
  <2>2. LogLength..(callIndex - 1) = {}
    BY <2>1 DEF IInv, Ordered, Covers
  <2> QED BY <1>1, <2>2 DEF Made
<1>4. CASE CallStep
  <2>1. row /\ row' = row /\ script' = script /\ LogLength' = LogLength
    BY <1>4 DEF CallStep, IInv, RowKept, LogLength
  <2>2. CallsIn(script)' = CallsIn(script)
    BY <2>1 DEF CallsIn, Positions
  <2>3. Made' = Made \/ Made' = Made + 1
    BY <1>1, <1>4, <2>1 DEF CallStep, Stays, Replays, Records, Marks, Made
  <2>4. CASE Made' = Made
    <3>1. Outcome' = Outcome
      BY <2>1 DEF Outcome
    <3> QED BY <2>1, <2>2, <2>4, <3>1, Stutters
  <2>5. CASE Made' = Made + 1
    BY <2>1, <2>2, <2>5, Makes
  <2> QED BY <2>3, <2>4, <2>5
<1>5. CASE Return
  BY <1>2, <1>5 DEF Return, IInv, RowKept
<1>6. CASE BeginPass
  <2>1. /\ UNCHANGED <<script, row>> /\ row /\ LogLength' = LogLength /\ callIndex' = 0 /\ pending = <<>>
    BY <1>6 DEF BeginPass, IInv, RowKept, Ordered, LogLength
  <2>2. Made' = Made
    BY <1>1, <1>3, <2>1 DEF Made
  <2>3. Outcome' = Outcome /\ CallsIn(script)' = CallsIn(script)
    BY <2>1 DEF Outcome, CallsIn, Positions
  <2> QED BY <2>1, <2>2, <2>3, Stutters
<1>7. CASE FlushOne
  <2>1. UNCHANGED <<script, row, callIndex, result>> /\ mode = "flush"
    BY <1>7 DEF FlushOne
  <2>2. row
    BY <2>1 DEF IInv, RowKept
  <2>3. CallsIn(script)' = CallsIn(script) /\ Outcome' = Outcome
    BY <2>1 DEF CallsIn, Positions, Outcome
  <2>4. /\ Head(pending) \in Entries /\ Head(pending).at < callIndex
        /\ LogLength' = IF Head(pending).at = LogLength THEN LogLength + 1 ELSE LogLength
    BY <1>7, FlushTakes
  <2>5. CASE Head(pending).at = LogLength
    <3>1. LogLength' = LogLength + 1 /\ LogLength < callIndex
      BY <2>4, <2>5
    <3>2. Made' = Made /\ LogLength < Made
      BY <1>1, <2>1, <3>1 DEF Made
    <3> QED BY <2>1, <2>2, <2>3, <3>1, <3>2, Keeps
  <2>6. CASE Head(pending).at # LogLength
    <3>1. LogLength' = LogLength
      BY <2>4, <2>6
    <3>2. Made' = Made
      BY <2>1, <3>1 DEF Made
    <3> QED BY <2>3, <3>1, <3>2, Stutters
  <2> QED BY <2>5, <2>6
<1>8. CASE Conclude
  <2>1. /\ UNCHANGED <<script, callIndex, result>> /\ LogLength' = LogLength /\ ~row'
        /\ mode = "ended"
    BY <1>8 DEF Conclude, LogLength
  <2>2. row /\ pending = <<>> /\ result \in Results \ {"Suspended"}
    BY <2>1 DEF IInv, RowKept, Ordered
  <2>3. CallsIn(script)' = CallsIn(script) /\ Made' = Made /\ Made = LogLength
    BY <1>3, <2>1, <2>2 DEF CallsIn, Positions, Made
  <2>4. result = "Completed" => CallsIn(script) <= LogLength
    <3>1. result = "Completed" => CallsIn(script) <= callIndex
      BY <2>1 DEF Counted
    <3>2. callIndex <= LogLength
      BY <1>1, <2>3 DEF Made
    <3>3. CallsIn(script) \in Nat
      BY CallsCounted DEF IInv
    <3> QED BY <1>1, <3>1, <3>2, <3>3
  <2>5. result' \in Results \ {"Suspended"} /\ (result' = "Completed" => LogLength >= CallsIn(script))
    <3>1. CallsIn(script) \in Nat
      BY CallsCounted DEF IInv
    <3> QED BY <1>1, <2>1, <2>2, <2>4, <3>1
  <2> QED BY <2>1, <2>2, <2>3, <2>5, Concludes
<1>9. CASE Publish \/ BeginCleanup \/ EndCleanup \/ WaitCheck \/ WaitLock \/ WaitBlock \/ WaitTimeout
  <2>1. UNCHANGED <<script, log, callIndex, row, result>>
    BY <1>9 DEF Publish, BeginCleanup, EndCleanup, WaitCheck, WaitLock, WaitBlock, WaitTimeout, SleepStep
  <2> QED BY <1>2, <2>1
<1>10. CASE \/ RequestStore \/ RequestNotify \/ RequestPersist \/ ReapOrphans
            \/ \E r \in Resources : Actuate(r) \/ Exit(r)
  <2>1. UNCHANGED <<script, log, callIndex, row, result>>
    BY <1>10 DEF RequestStore, RequestNotify, RequestPersist, ReapOrphans, Actuate, Exit
  <2> QED BY <1>2, <2>1
<1>11. CASE Crash
  <2>1. UNCHANGED <<script, row, result>> /\ LogLength' = LogLength /\ callIndex' = 0
    BY <1>11 DEF Crash, LogLength
  <2>2. Made' = LogLength
    BY <1>1, <2>1 DEF Made
  <2>3. CallsIn(script)' = CallsIn(script) /\ Outcome' = Outcome
    BY <2>1 DEF CallsIn, Positions, Outcome
  <2> QED BY <2>1, <2>2, <2>3, Forgets
<1>12. ASSUME NEW s \in Scripts, Resume(s)
       PROVE  CL!LedgerNext
  <2>1. UNCHANGED <<row, callIndex>> /\ row /\ LogLength' = LogLength /\ pending = <<>>
    BY <1>12 DEF Resume, LogLength, IInv, Ordered
  <2>2. Made' = Made /\ Made = LogLength
    BY <1>3, <2>1 DEF Made
  <2>3. CallsIn(script)' \in Nat
    <3>1. Types'
      BY <1>12, ResumeKeeps DEF IInv
    <3> QED BY <3>1, CallsCountedNext
  <2> QED BY <2>1, <2>2, <2>3, Edits
<1>13. CASE Tick
  <2>1. UNCHANGED <<script, row, result, LogLength, callIndex>>
    BY <1>13, TickKeeps DEF Tick
  <2>2. Made' = Made /\ Outcome' = Outcome /\ CallsIn(script)' = CallsIn(script)
    BY <2>1 DEF Made, Outcome, CallsIn, Positions
  <2> QED BY <2>1, <2>2, Stutters
<1>14. CASE UNCHANGED vars
  BY <1>2, <1>14 DEF vars
<1> QED BY <1>4, <1>5, <1>6, <1>7, <1>8, <1>9, <1>10, <1>11, <1>12, <1>13, <1>14, CallsStep
           DEF Next, Driver, RtCall

\* Replay implements the ledger, r[barrier.replay.determinism]: the passes of
\* the closure, the entries they buffer, the row-by-row commit, crashes between
\* any two of these and edits of the closure amount to calls that are made one
\* after the other, a record of them that only grows and never runs ahead, crashes
\* that take back exactly what is beyond it, and an end that comes once, with
\* everything recorded, and as Completed only when no call of the closure is missing.
THEOREM LedgerImplemented ==
  ASSUME CatchesBarriers
  PROVE  Spec => Ledger
<1>1. Init => IInv /\ Counted
  BY InitInv DEF Init, Counted
<1>2. IInv /\ Counted /\ [Next]_vars => IInv' /\ Counted'
  BY StepInv, StepCounted
<1>3. Init => CL!LedgerInit
  <2> SUFFICES ASSUME Init PROVE CL!LedgerInit
    OBVIOUS
  <2>1. DOMAIN log = 0..(0 - 1)
    BY DEF Init
  <2>2. LogLength = 0
    BY <2>1, LengthOf
  <2>3. CallsIn(script) \in Nat
    BY InitInv, CallsCounted DEF IInv
  <2> QED BY <2>2, <2>3 DEF Init, CL!LedgerInit
<1>4. IInv /\ Counted /\ [Next]_vars => [CL!LedgerNext]_(CL!ledger)
  BY StepLedger
<1> QED BY <1>1, <1>2, <1>3, <1>4, PTL DEF Spec, Ledger, CL!Ledger

-----------------------------------------------------------------------------
(* What a call tells.                                                      *)

\* What a call does to the record and to what is known of the past: it is not
\* made, or only marks a barrier; it is answered from the log; a stop takes its
\* position again; or it is made now, and recorded.
Of(e, c) == e.at = callIndex /\ e.kind = c.op /\ e.lit = c.lit /\ e.res = c.res
Unmade ==
  /\ Stays \/ Replays
  /\ UNCHANGED <<told, delivered>>
  /\ mode' = "pass" => ~Logged(Call) /\ callIndex' = callIndex
Marked == Marks /\ ~Logged(Call) /\ UNCHANGED <<told, delivered>>
Bumped ==
  /\ Stays /\ Call.op = "restart" /\ told' = told
  /\ delivered' = [delivered EXCEPT ![Call.lit] = IF @ < MaxBumps THEN @ + 1 ELSE @]
Answered ==
  /\ Replays /\ Logged(Call) /\ Matches(Call) /\ delivered' = delivered
  /\ told' = IF Answering(Call) THEN With(told, ip, log[callIndex].ans) ELSE told
Stopped ==
  /\ IsReplaying /\ Call.op = "stop" /\ Matches(Call) /\ callIndex' = callIndex + 1
  /\ UNCHANGED <<told, delivered>>
  /\ \E e \in Entries : /\ Of(e, Call) /\ pending' = Append(pending, e)
Performed ==
  /\ ~IsReplaying /\ Logged(Call) /\ callIndex' = callIndex + 1
  /\ \E e \in Entries :
       /\ Of(e, Call) /\ pending' = Append(pending, e)
       /\ told' = IF Answering(Call) THEN With(told, ip, e.ans) ELSE told
  /\ delivered' = IF Effect(Call) THEN [delivered EXCEPT ![Call.lit] = @ + 1] ELSE delivered

CallTells ==
  /\ edited' = edited
  /\ result' = "Diverged" =>
       result = "Diverged" \/ (IsReplaying /\ Logged(Call) /\ ~Matches(Call))
  /\ Unmade \/ Marked \/ Bumped \/ Answered \/ Stopped \/ Performed

\* An exception that lets the closure go on is one of a barrier.
LEMMA ThrowEnds ==
  ASSUME CatchesBarriers, IInv, mode = "pass", ip \in Positions(script), NEW e, Throw(e)
  PROVE  /\ mode' = "pass" => ~Logged(Call)
         /\ result' = e \/ result' = result
<1>1. script \in Scripts /\ ip \in 1..Len(script)
  BY DEF IInv, Types, Positions
<1>2. Call.catch => ~Logged(Call)
  BY <1>1 DEF CatchesBarriers, Call
<1> QED BY <1>2 DEF Throw, Proceed

LEMMA ClaimTells ==
  ASSUME CatchesBarriers, IInv, Calls(Anchors), Claim
  PROVE  CallTells
<1>1. mode = "pass" /\ ip \in Positions(script) /\ Call.op \in Anchors
  BY DEF Calls
<1>2. /\ Call.op \in Ops /\ Call.res \in Resources /\ Call.lit \in STRING
      /\ Logged(Call) /\ ~Answering(Call) /\ ~Effect(Call)
  BY <1>1, CallType DEF IInv, Call, Anchors, Logged, Answering, Effect
<1>3. UNCHANGED <<edited, told, delivered>>
  BY DEF Claim, history
<1>4. CASE HitPending
  <2>1. Throw("Suspended") /\ UNCHANGED <<callIndex, pending>>
    BY <1>4 DEF Claim
  <2>2. (mode' = "pass" => ~Logged(Call)) /\ (result' = "Suspended" \/ result' = result)
    BY <1>1, <2>1, ThrowEnds
  <2> QED BY <1>3, <2>1, <2>2 DEF CallTells, Unmade, Stays
<1>5. CASE ~HitPending /\ IsReplaying /\ ~Matches(Call)
  <2>1. Throw("Diverged") /\ UNCHANGED <<callIndex, pending>>
    BY <1>5 DEF Claim, ClaimLogPosition
  <2>2. (mode' = "pass" => ~Logged(Call)) /\ (result' = "Diverged" \/ result' = result)
    BY <1>1, <2>1, ThrowEnds
  <2> QED BY <1>2, <1>3, <1>5, <2>1, <2>2 DEF CallTells, Unmade, Stays
<1>6. CASE ~HitPending /\ (IsReplaying => Matches(Call))
  <2>1. /\ callIndex' = callIndex + 1
        /\ pending' = IF IsReplaying THEN pending ELSE Append(pending, Entry(Call, None))
        /\ result' = result
    BY <1>6 DEF Claim, ClaimLogPosition, Proceed
  <2>2. CASE IsReplaying
    <3>1. Answered
      BY <1>2, <1>3, <1>6, <2>1, <2>2 DEF Answered, Replays, IsReplaying
    <3> QED BY <1>3, <2>1, <3>1 DEF CallTells
  <2>3. CASE ~IsReplaying
    <3>1. Entry(Call, None) \in Entries /\ Of(Entry(Call, None), Call)
      BY <1>2, EntryType DEF IInv, Entry, Of
    <3>2. Performed
      BY <1>2, <1>3, <2>1, <2>3, <3>1 DEF Performed
    <3> QED BY <1>3, <2>1, <3>2 DEF CallTells
  <2> QED BY <2>2, <2>3
<1> QED BY <1>4, <1>5, <1>6

LEMMA OneShotTells ==
  ASSUME CatchesBarriers, IInv, NEW stopped, NEW refused, NEW fails, stopped \in BOOLEAN,
         refused \in BOOLEAN, Calls({"signal", "exec", "write", "call"}),
         OneShot(stopped, refused, fails)
  PROVE  CallTells
<1>1. /\ mode = "pass" /\ ip \in Positions(script)
      /\ Call.op \in {"signal", "exec", "write", "call"} /\ Logged(Call)
  BY DEF Calls, Logged
<1>2. Call.op \in Ops /\ Call.res \in Resources /\ Call.lit \in STRING
  BY <1>1, CallType DEF IInv, Call
<1>3. edited' = edited
  BY DEF OneShot
<1>4. ASSUME NEW e, e # "Diverged", Throw(e), UNCHANGED <<callIndex, pending, told, delivered>>
      PROVE  CallTells
  <2>1. (mode' = "pass" => ~Logged(Call)) /\ (result' = e \/ result' = result)
    BY <1>1, <1>4, ThrowEnds
  <2> QED BY <1>3, <1>4, <2>1 DEF CallTells, Unmade, Stays
<1>5. CASE stopped
  <2>1. Throw("Suspended") /\ UNCHANGED <<callIndex, pending, told, delivered>>
    BY <1>5 DEF OneShot
  <2> QED BY <1>4, <2>1
<1>6. CASE ~stopped /\ refused
  <2>1. Throw("Cancelled") /\ UNCHANGED <<callIndex, pending, told, delivered>>
    BY <1>6 DEF OneShot
  <2> QED BY <1>4, <2>1
<1>7. CASE ~stopped /\ ~refused /\ IsReplaying
  <2>1. Recover(Call) \/ Diverge(Call)
    BY <1>7 DEF OneShot
  <2>2. CASE Recover(Call)
    <3>1. /\ callIndex' = callIndex + 1 /\ UNCHANGED <<delivered, pending, result>> /\ Matches(Call)
          /\ told' = IF Answering(Call) THEN With(told, ip, Committed(callIndex).ans) ELSE told
      BY <2>2 DEF Recover, Proceed
    <3>2. Committed(callIndex) = log[callIndex]
      BY <1>7, CommittedAt DEF IInv, Types, IsReplaying
    <3>3. Answered
      BY <1>1, <1>7, <3>1, <3>2 DEF Answered, Replays, IsReplaying
    <3> QED BY <1>3, <3>1, <3>3 DEF CallTells
  <2>3. CASE Diverge(Call)
    <3>1. /\ callIndex' = callIndex + 1 \/ callIndex' = callIndex
          /\ UNCHANGED <<pending, told, delivered>> /\ Throw("Diverged") /\ ~Matches(Call)
      BY <2>3 DEF Diverge, IInv, Types
    <3>2. (mode' = "pass" => ~Logged(Call)) /\ (result' = "Diverged" \/ result' = result)
      BY <1>1, <3>1, ThrowEnds
    <3>3. Unmade
      BY <1>1, <1>7, <3>1, <3>2 DEF Unmade, Stays, Replays, IsReplaying
    <3> QED BY <1>1, <1>3, <1>7, <3>1, <3>2, <3>3 DEF CallTells
  <2> QED BY <2>1, <2>2, <2>3
<1>8. CASE ~stopped /\ ~refused /\ ~IsReplaying
  <2>1. \/ \E ans \in Answers : Deliver(Call, IF Answering(Call) THEN ans ELSE None)
        \/ Throw("Failed") /\ UNCHANGED <<callIndex, pending, told, delivered>>
    BY <1>8 DEF OneShot
  <2>2. ASSUME NEW ans \in Answers \cup {None}, Deliver(Call, ans)
        PROVE  CallTells
    <3>1. /\ callIndex' = callIndex + 1 /\ pending' = Append(pending, Entry(Call, ans))
          /\ told' = IF Answering(Call) THEN With(told, ip, ans) ELSE told
          /\ delivered' = IF Effect(Call) THEN [delivered EXCEPT ![Call.lit] = @ + 1] ELSE delivered
          /\ result' = result
      BY <2>2 DEF Deliver, Proceed
    <3>2. Entry(Call, ans) \in Entries
      BY <1>2, EntryType DEF IInv
    <3>3. Of(Entry(Call, ans), Call) /\ Entry(Call, ans).ans = ans
      BY DEF Entry, Of
    <3>4. Performed
      BY <1>1, <1>8, <3>1, <3>2, <3>3 DEF Performed
    <3> QED BY <1>3, <3>1, <3>4 DEF CallTells
  <2>3. CASE Throw("Failed") /\ UNCHANGED <<callIndex, pending, told, delivered>>
    BY <1>4, <2>3
  <2>4. CASE \E ans \in Answers : Deliver(Call, IF Answering(Call) THEN ans ELSE None)
    <3>1. PICK ans \in Answers : Deliver(Call, IF Answering(Call) THEN ans ELSE None)
      BY <2>4
    <3> QED BY <2>2, <3>1
  <2> QED BY <2>1, <2>3, <2>4
<1> QED BY <1>5, <1>6, <1>7, <1>8

LEMMA AwaitTells ==
  ASSUME CatchesBarriers, IInv, Await
  PROVE  CallTells
<1>1. /\ Call.op = "await" /\ ~Logged(Call)
      /\ UNCHANGED <<callIndex, edited, told, delivered>>
  BY DEF Await, Calls, Logged
<1>2. result' = result \/ result' \in {"Suspended", "Cancelled", "Expired"}
  BY DEF Await, CheckBarrier, Throw, Proceed
<1>3. Stays \/ Marks
  BY <1>1, AwaitCall DEF CallStep, Stays, Marks, Replays, Records, IInv, Types
<1>4. Unmade \/ Marked
  BY <1>1, <1>3 DEF Unmade, Marked, Stays
<1> QED BY <1>1, <1>2, <1>4 DEF CallTells

LEMMA RestartTells ==
  ASSUME IInv, Restart
  PROVE  CallTells
BY DEF Restart, Calls, Proceed, CallTells, Bumped, Stays

LEMMA StopTells ==
  ASSUME CatchesBarriers, IInv, Stop
  PROVE  CallTells
<1>1. /\ mode = "pass" /\ ip \in Positions(script) /\ Call.op = "stop" /\ Logged(Call)
      /\ ~Answering(Call) /\ ~Effect(Call)
  BY DEF Stop, Calls, Logged, Answering, Effect
<1>2. Call.op \in Ops /\ Call.res \in Resources /\ Call.lit \in STRING
  BY <1>1, CallType DEF IInv, Call
<1>3. UNCHANGED <<edited, told, delivered>>
  BY DEF Stop
<1>4. ASSUME NEW e, Throw(e), e = "Diverged" => IsReplaying /\ ~Matches(Call),
             UNCHANGED <<callIndex, pending>>
      PROVE  CallTells
  <2>1. (mode' = "pass" => ~Logged(Call)) /\ (result' = e \/ result' = result)
    BY <1>1, <1>4, ThrowEnds
  <2> QED BY <1>1, <1>3, <1>4, <2>1 DEF CallTells, Unmade, Stays
<1>5. CASE HitPending
  <2>1. Throw("Suspended") /\ UNCHANGED <<callIndex, pending>>
    BY <1>5 DEF Stop
  <2> QED BY <1>4, <2>1
<1>6. CASE ~HitPending /\ token
  <2>1. Throw("Cancelled") /\ UNCHANGED <<callIndex, pending>>
    BY <1>6 DEF Stop
  <2> QED BY <1>4, <2>1
<1>7. CASE ~HitPending /\ ~token
  <2>1. DoStop(Call)
    BY <1>7 DEF Stop
  <2>2. Matches(Call) <=> Committed(callIndex).kind = "stop"
    BY <1>1 DEF Matches
  <2> DEFINE said == IF IsReplaying THEN Barrier(Committed(callIndex), 0) ELSE None
             gone == HasReached(Call.res, "Terminated")
             age == IF said # None THEN said.age ELSE 0
             entry == SetBarrier(Entry(Call, None), 0,
                        [state |-> "Terminated", sat |-> gone, age |-> age])
  <2>3. \/ Throw("Diverged") /\ UNCHANGED <<callIndex, pending>> /\ IsReplaying /\ ~Matches(Call)
        \/ /\ IsReplaying /\ Matches(Call) /\ callIndex' = callIndex + 1
           /\ result' = result /\ UNCHANGED pending
        \/ Throw("Expired") /\ UNCHANGED <<callIndex, pending>>
        \/ /\ IsReplaying => Matches(Call)
           /\ callIndex' = callIndex + 1 /\ pending' = Append(pending, entry)
           /\ result' = result \/ result' = "Suspended"
    BY <2>1, <2>2 DEF DoStop, Throw, Proceed
  <2>4. age \in Nat
    <3>1. CASE IsReplaying
      <4>1. Committed(callIndex) \in Entries
        BY <3>1, CommittedAt DEF IsReplaying, IInv, Types
      <4> QED BY <3>1, <4>1, BarrierType DEF BarRecord
    <3>2. CASE ~IsReplaying
      BY <3>2
    <3> QED BY <3>1, <3>2
  <2>5. gone \in BOOLEAN
    BY DEF HasReached
  <2> HIDE DEF age, gone
  <2>6. entry \in Entries /\ Of(entry, Call)
    <3>1. Entry(Call, None) \in Entries /\ Of(Entry(Call, None), Call)
      BY <1>1, <1>2, EntryType DEF IInv, Entry, Of
    <3>2. [state |-> "Terminated", sat |-> gone, age |-> age] \in BarRecord
      BY <2>4, <2>5 DEF BarRecord, States
    <3> HIDE DEF entry
    <3> QED BY <3>1, <3>2, SetBarrierType DEF Same, entry, Of
  <2> HIDE DEF entry
  <2>7. CASE Throw("Diverged") /\ UNCHANGED <<callIndex, pending>> /\ IsReplaying /\ ~Matches(Call)
    BY <1>4, <2>7
  <2>8. CASE /\ IsReplaying /\ Matches(Call) /\ callIndex' = callIndex + 1
             /\ result' = result /\ UNCHANGED pending
    <3>1. Answered
      BY <1>1, <1>3, <2>8 DEF Answered, Replays, IsReplaying
    <3> QED BY <1>3, <2>8, <3>1 DEF CallTells
  <2>9. CASE Throw("Expired") /\ UNCHANGED <<callIndex, pending>>
    BY <1>4, <2>9
  <2>10. CASE /\ IsReplaying => Matches(Call)
              /\ callIndex' = callIndex + 1 /\ pending' = Append(pending, entry)
              /\ result' = result \/ result' = "Suspended"
    <3>1. Stopped \/ Performed
      BY <1>1, <1>3, <2>6, <2>10 DEF Stopped, Performed
    <3> QED BY <1>3, <2>10, <3>1 DEF CallTells
  <2> QED BY <2>3, <2>7, <2>8, <2>9, <2>10
<1> QED BY <1>5, <1>6, <1>7

\* Every call of the closure, Return apart.
LEMMA CallsTell ==
  ASSUME CatchesBarriers, IInv,
         \/ Start \/ Warm \/ Signal \/ Exec \/ Write \/ CallAction \/ Await \/ Stop \/ Restart
  PROVE  CallTells
<1>1. HitPending \in BOOLEAN /\ token \in BOOLEAN
  BY DEF IInv, Types, HitPending
<1>2. CASE Signal
  BY <1>1, <1>2, OneShotTells DEF Signal, Calls
<1>3. CASE Exec
  BY <1>1, <1>3, OneShotTells DEF Exec, Calls
<1>4. CASE Write
  BY <1>1, <1>4, OneShotTells DEF Write, Calls
<1>5. CASE CallAction
  BY <1>5, OneShotTells DEF CallAction, Calls
<1>6. CASE Start \/ Warm
  <2>1. Calls(Anchors) /\ Claim
    BY <1>6 DEF Start, Warm, Calls, Anchors
  <2> QED BY <2>1, ClaimTells
<1> QED BY <1>2, <1>3, <1>4, <1>5, <1>6, AwaitTells, StopTells, RestartTells

\* The steps that leave the closure, its record and what is known of it alone.
Rest ==
  /\ UNCHANGED <<script, log, ip, callIndex, pending, seqs, origin, hit, result, crashes,
                 edited, delivered, told, resolved, waits>>
  /\ token => token'
  /\ mode' = mode \/ mode' \notin {"pass", "flush"}
  /\ mode' = "ended" => mode \in {"flush", "ended"}
  /\ mode' = "concluded" => mode \in {"ended", "concluded"}

\* What a step may be.
LEMMA OtherSteps ==
  ASSUME [Next]_vars
  PROVE  \/ RtCall \/ BeginPass \/ FlushOne \/ Crash \/ Tick \/ Rest
         \/ \E s \in Scripts : Resume(s)
<1> USE DEF durable, context, cancel, history
<1>1. CASE Publish \/ Conclude \/ BeginCleanup \/ EndCleanup
  BY <1>1 DEF Rest, Publish, Conclude, BeginCleanup, EndCleanup
<1>2. CASE WaitCheck \/ WaitLock \/ WaitBlock \/ WaitTimeout
  BY <1>2 DEF Rest, WaitCheck, WaitLock, WaitBlock, WaitTimeout, SleepStep
<1>3. CASE RequestStore \/ RequestNotify \/ RequestPersist \/ ReapOrphans
  BY <1>3 DEF Rest, RequestStore, RequestNotify, RequestPersist, ReapOrphans
<1>4. CASE \E r \in Resources : Actuate(r) \/ Exit(r)
  BY <1>4 DEF Rest, Actuate, Exit
<1>5. CASE UNCHANGED vars
  BY <1>5 DEF Rest, vars
<1> QED BY <1>1, <1>2, <1>3, <1>4, <1>5 DEF Next, Driver

LEMMA StepKinds ==
  ASSUME CatchesBarriers, IInv, [Next]_vars
  PROVE  \/ CallStep /\ CallTells
         \/ Return \/ BeginPass \/ FlushOne \/ Crash \/ Tick \/ Rest
         \/ \E s \in Scripts : Resume(s)
BY OtherSteps, CallsStep, CallsTell DEF RtCall

-----------------------------------------------------------------------------
(* The replay is faithful.                                                 *)

\* In a pass every logged call before the instruction pointer has taken exactly
\* one position.
Exact == mode = "pass" => callIndex = IndexOf(ip)

LEMMA IndexType ==
  ASSUME NEW k \in Nat \ {0}
  PROVE  IndexOf(k) \in Nat /\ IndexOf(k) = Cardinality(LoggedBefore(k - 1))
<1>1. k - 1 \in Nat
  OBVIOUS
<1> QED BY <1>1, LoggedFinite DEF IndexOf, LoggedBefore

\* The call after k has the position after k's, if k is logged.
LEMMA IndexNext ==
  ASSUME NEW k \in Nat \ {0}
  PROVE  IndexOf(k + 1) = IndexOf(k) + (IF Logged(script[k]) THEN 1 ELSE 0)
<1>1. 1..(k + 1 - 1) = 1..(k - 1) \cup {k} /\ k \notin 1..(k - 1) /\ k - 1 \in Nat /\ k + 1 \in Nat \ {0}
      /\ k + 1 - 1 = k
  OBVIOUS
<1>2. LoggedBefore(k) = IF Logged(script[k]) THEN LoggedBefore(k - 1) \cup {k}
                        ELSE LoggedBefore(k - 1)
  BY <1>1 DEF LoggedBefore
<1>3. k \notin LoggedBefore(k - 1)
  BY <1>1 DEF LoggedBefore
<1>4. IsFiniteSet(LoggedBefore(k - 1)) /\ Cardinality(LoggedBefore(k - 1)) \in Nat
  BY <1>1, LoggedFinite
<1>5. Cardinality(LoggedBefore(k)) =
        Cardinality(LoggedBefore(k - 1)) + (IF Logged(script[k]) THEN 1 ELSE 0)
  BY <1>2, <1>3, <1>4, FS_AddElement
<1> QED BY <1>1, <1>5, IndexType

\* Different logged calls have different positions.
LEMMA IndexOnce ==
  ASSUME NEW a \in Nat \ {0}, NEW b \in Nat \ {0}, Logged(script[a]), Logged(script[b]),
         IndexOf(a) = IndexOf(b)
  PROVE  a = b
<1>1. ASSUME NEW x \in Nat \ {0}, NEW y \in Nat \ {0}, x < y, Logged(script[x])
      PROVE  IndexOf(x) < IndexOf(y)
  <2>1. x + 1 \in Nat \ {0} /\ x + 1 - 1 = x /\ y - 1 \in Nat /\ x \in Nat
    OBVIOUS
  <2>2. LoggedBefore(x) \subseteq LoggedBefore(y - 1)
    <3>1. 1..x \subseteq 1..(y - 1)
      BY <1>1
    <3> QED BY <3>1 DEF LoggedBefore
  <2>3. IsFiniteSet(LoggedBefore(y - 1))
    BY <2>1, LoggedFinite
  <2>4. Cardinality(LoggedBefore(x)) <= Cardinality(LoggedBefore(y - 1))
    BY <2>2, <2>3, FS_Subset
  <2>5. IndexOf(x + 1) <= IndexOf(y)
    BY <2>1, <2>4, IndexType
  <2>6. IndexOf(x + 1) = IndexOf(x) + 1
    BY <1>1, IndexNext
  <2> QED BY <2>1, <2>5, <2>6, IndexType
<1>2. ~(a < b) /\ ~(b < a)
  <2>1. IndexOf(a) \in Nat
    BY IndexType
  <2> QED BY <1>1, <2>1
<1> QED BY <1>2

LEMMA StepExact ==
  ASSUME CatchesBarriers, IInv, Exact, [Next]_vars
  PROVE  Exact'
<1> USE DEF durable, context, cancel, history
<1>1. CASE CallStep /\ CallTells
  <2> SUFFICES ASSUME mode' = "pass" PROVE callIndex' = IndexOf(ip)'
    BY DEF Exact
  <2>1. mode = "pass" /\ script' = script /\ ip' = ip + 1 /\ ip \in Nat \ {0}
    BY <1>1 DEF CallStep, Moving, IInv, Types
  <2>2. IndexOf(ip)' = IndexOf(ip + 1)
    BY <2>1 DEF IndexOf
  <2>3. callIndex' = callIndex + (IF Logged(Call) THEN 1 ELSE 0)
    <3>1. callIndex \in Nat
      BY DEF IInv, Types
    <3>2. CASE Unmade
      BY <3>1, <3>2 DEF Unmade
    <3>3. CASE Marked
      BY <3>1, <3>3 DEF Marked, Marks
    <3>4. CASE Bumped
      BY <3>1, <3>4 DEF Bumped, Stays, Logged
    <3>5. CASE Answered \/ Performed
      BY <3>5 DEF Answered, Replays, Performed
    <3>6. CASE Stopped
      BY <3>6 DEF Stopped, Logged
    <3> QED BY <1>1, <3>2, <3>3, <3>4, <3>5, <3>6 DEF CallTells
  <2> QED BY <2>1, <2>2, <2>3, IndexNext DEF Exact, Call
<1>2. CASE BeginPass
  <2>1. ip' = 1 /\ callIndex' = 0
    BY <1>2 DEF BeginPass
  <2>2. {j \in 1..(ip' - 1) : Logged(script'[j])} = {}
    BY <2>1
  <2> QED BY <2>1, <2>2, FS_EmptySet DEF Exact, IndexOf
<1>3. CASE Return \/ FlushOne \/ Crash \/ \E s \in Scripts : Resume(s)
  BY <1>3 DEF Return, FlushOne, Crash, Resume, Exact
<1>4. CASE Tick \/ Rest
  BY <1>4 DEF Tick, Rest, Exact, IndexOf
<1> QED BY <1>1, <1>2, <1>3, <1>4, StepKinds

\* An entry is that of a call of the closure, and keeps the answer T says the
\* call gave.
Site(e, k) ==
  /\ k \in Positions(script) /\ Logged(script[k]) /\ IndexOf(k) = e.at
  /\ e.kind = script[k].op /\ e.lit = script[k].lit /\ e.res = script[k].res
TiedTo(e, T) ==
  \E k \in Positions(script) :
    Site(e, k) /\ (Answering(script[k]) => k \in DOMAIN T /\ T[k] = e.ans)

\* Nobody having edited the closure, every entry is that of one of its calls.
Tied ==
  /\ ~edited =>
       /\ \A i \in DOMAIN log : TiedTo(log[i], told)
       /\ \A j \in 1..Len(pending) : TiedTo(pending[j], told)
  /\ result = "Diverged" => edited

LEMMA TiedNext ==
  ASSUME script' = script, result' = "Diverged" => edited',
         ~edited' => /\ \A i \in DOMAIN log' : TiedTo(log'[i], told')
                     /\ \A j \in 1..Len(pending') : TiedTo(pending'[j], told')
  PROVE  Tied'
BY DEF Tied, TiedTo, Site, Positions, IndexOf

LEMMA TiedSame ==
  ASSUME NEW e, NEW f, NEW T, Same(e, f), TiedTo(f, T)
  PROVE  TiedTo(e, T)
BY DEF Same, TiedTo, Site

\* The entry at the position of the closure is that of the call it makes.
LEMMA TiedHere ==
  ASSUME IInv, Exact, Tied, ~edited, mode = "pass", ip \in Positions(script),
         Logged(Call), IsReplaying
  PROVE  /\ log[callIndex].kind = Call.op /\ log[callIndex].lit = Call.lit /\ Matches(Call)
         /\ Answering(Call) => ip \in DOMAIN told /\ told[ip] = log[callIndex].ans
<1>1. /\ Committed(callIndex) = log[callIndex] /\ callIndex \in DOMAIN log
  BY CommittedAt DEF IInv, Types, IsReplaying
<1>2. log[callIndex].at = callIndex
  BY <1>1 DEF IInv, Types
<1>3. TiedTo(log[callIndex], told)
  BY <1>1 DEF Tied
<1>4. PICK k \in Positions(script) :
        /\ Site(log[callIndex], k)
        /\ Answering(script[k]) => k \in DOMAIN told /\ told[k] = log[callIndex].ans
  BY <1>3 DEF TiedTo
<1>5. k = ip
  <2>1. k \in Nat \ {0} /\ ip \in Nat \ {0} /\ Logged(script[k]) /\ Logged(script[ip])
    BY <1>4 DEF Positions, Site, IInv, Types, Call
  <2>2. IndexOf(k) = IndexOf(ip)
    BY <1>2, <1>4 DEF Site, Exact
  <2> QED BY <2>1, <2>2, IndexOnce
<1> QED BY <1>1, <1>4, <1>5 DEF Site, Call, Matches

\* A new answer of the call at the position that is being made changes none of
\* the entries.
LEMMA TiedElse ==
  ASSUME IInv, Exact, mode = "pass", ip \in Positions(script), NEW e, NEW v,
         e.at # callIndex, TiedTo(e, told)
  PROVE  TiedTo(e, With(told, ip, v))
<1>1. PICK k \in Positions(script) :
        Site(e, k) /\ (Answering(script[k]) => k \in DOMAIN told /\ told[k] = e.ans)
  BY DEF TiedTo
<1>2. k # ip
  BY <1>1 DEF Site, Exact
<1>3. k \in DOMAIN told => k \in DOMAIN With(told, ip, v) /\ With(told, ip, v)[k] = told[k]
  BY <1>2 DEF With
<1> QED BY <1>1, <1>3 DEF TiedTo

LEMMA CallTied ==
  ASSUME IInv, Exact, Tied, CallStep, CallTells
  PROVE  Tied'
<1>1. /\ mode = "pass" /\ ip \in Positions(script) /\ script' = script /\ log' = log
      /\ edited' = edited
  BY DEF CallStep, CallTells
<1>2. result' = "Diverged" => edited'
  BY <1>1, TiedHere DEF CallTells, Tied
<1>3. CASE edited
  BY <1>1, <1>2, <1>3, TiedNext
<1>4. CASE ~edited
  <2>1. /\ \A i \in DOMAIN log : TiedTo(log[i], told)
        /\ \A j \in 1..Len(pending) : TiedTo(pending[j], told)
    BY <1>4 DEF Tied
  <2>2. callIndex \in Nat /\ LogLength \in Nat /\ pending \in Seq(Entries) /\ Len(pending) \in Nat
        /\ \A j \in 1..Len(pending) : pending[j].at \in Nat
    BY EntryAt DEF IInv, Types
  <2>3. /\ \A j \in 1..Len(pending) : pending[j].at < callIndex
        /\ \A i \in DOMAIN log : log[i].at = i /\ i \in 0..(LogLength - 1)
    BY DEF IInv, Types, Ordered, Sorted
  <2>4. ASSUME NEW e, pending' = Append(pending, e), TiedTo(e, told'),
               \A i \in DOMAIN log : TiedTo(log[i], told'),
               \A j \in 1..Len(pending) : TiedTo(pending[j], told')
        PROVE  Tied'
    <3>1. /\ Len(pending') = Len(pending) + 1
          /\ \A j \in 1..Len(pending') : pending'[j] = IF j = Len(pending) + 1 THEN e ELSE pending[j]
      BY <2>2, <2>4
    <3>2. \A j \in 1..Len(pending') : TiedTo(pending'[j], told')
      BY <2>2, <2>4, <3>1
    <3> QED BY <1>1, <1>2, <2>4, <3>2, TiedNext
  <2>5. CASE Unmade \/ Bumped
    <3>1. pending' = pending /\ told' = told
      BY <2>5 DEF Unmade, Bumped, Stays, Replays
    <3> QED BY <1>1, <1>2, <2>1, <3>1, TiedNext
  <2>6. CASE Marked
    <3>1. told' = told
      BY <2>6 DEF Marked
    <3>2. CASE /\ pending' \in Seq(Entries) /\ Len(pending') = Len(pending)
               /\ \A k \in 1..Len(pending) : Same(pending'[k], pending[k])
      <4>1. \A j \in 1..Len(pending') : TiedTo(pending'[j], told)
        BY <2>1, <3>2, TiedSame
      <4> QED BY <1>1, <1>2, <2>1, <3>1, <4>1, TiedNext
    <3>3. CASE \E e \in Entries, i \in DOMAIN log :
                 i < callIndex /\ Same(e, log[i]) /\ pending' = Append(pending, e)
      <4>1. PICK e \in Entries, i \in DOMAIN log :
                 i < callIndex /\ Same(e, log[i]) /\ pending' = Append(pending, e)
        BY <3>3
      <4>2. TiedTo(e, told)
        BY <2>1, <4>1, TiedSame
      <4> QED BY <2>1, <2>4, <3>1, <4>1, <4>2
    <3> QED BY <2>6, <3>2, <3>3 DEF Marked, Marks
  <2>7. CASE Answered
    <3>1. /\ pending' = pending /\ IsReplaying /\ Logged(Call)
          /\ told' = IF Answering(Call) THEN With(told, ip, log[callIndex].ans) ELSE told
      BY <2>7 DEF Answered, Replays, IsReplaying
    <3>2. CASE Answering(Call)
      <4>1. ip \in DOMAIN told /\ told[ip] = log[callIndex].ans
        BY <1>1, <1>4, <3>1, <3>2, TiedHere
      <4>2. /\ DOMAIN told' = DOMAIN told
            /\ \A k \in DOMAIN told : told'[k] = told[k]
        BY <3>1, <3>2, <4>1 DEF With
      <4>3. ASSUME NEW e, TiedTo(e, told)
            PROVE  TiedTo(e, told')
        BY <4>2, <4>3 DEF TiedTo
      <4> QED BY <1>1, <1>2, <2>1, <3>1, <4>3, TiedNext
    <3>3. CASE ~Answering(Call)
      BY <1>1, <1>2, <2>1, <3>1, <3>3, TiedNext
    <3> QED BY <3>2, <3>3
  <2>8. CASE Stopped
    <3>1. PICK e \in Entries : Of(e, Call) /\ pending' = Append(pending, e)
      BY <2>8 DEF Stopped
    <3>2. told' = told /\ Call.op = "stop"
      BY <2>8 DEF Stopped
    <3>3. Logged(script[ip]) /\ ~Answering(script[ip]) /\ IndexOf(ip) = callIndex
      BY <1>1, <3>2 DEF Logged, Answering, Exact, Call
    <3>4. TiedTo(e, told)
      BY <1>1, <3>1, <3>2, <3>3 DEF TiedTo, Site, Call, Of
    <3> QED BY <2>1, <2>4, <3>1, <3>2, <3>4
  <2>9. CASE Performed
    <3>1. PICK e \in Entries :
            /\ Of(e, Call) /\ pending' = Append(pending, e)
            /\ told' = IF Answering(Call) THEN With(told, ip, e.ans) ELSE told
      BY <2>9 DEF Performed
    <3>2. ~IsReplaying /\ Logged(script[ip]) /\ IndexOf(ip) = callIndex
      BY <1>1, <2>9 DEF Performed, Call, Exact
    <3>3. Answering(Call) => ip \in DOMAIN told' /\ told'[ip] = e.ans
      BY <3>1 DEF With
    <3>4. TiedTo(e, told')
      BY <1>1, <3>1, <3>2, <3>3 DEF TiedTo, Site, Call, Of
    <3>5. \A i \in DOMAIN log : log[i].at # callIndex
      BY <2>2, <2>3, <3>2 DEF IsReplaying
    <3>6. \A j \in 1..Len(pending) : pending[j].at # callIndex
      BY <2>2, <2>3
    <3>7. \A i \in DOMAIN log : TiedTo(log[i], told')
      <4>1. CASE Answering(Call)
        BY <1>1, <2>1, <3>1, <3>5, <4>1, TiedElse
      <4>2. CASE ~Answering(Call)
        BY <2>1, <3>1, <4>2
      <4> QED BY <4>1, <4>2
    <3>8. \A j \in 1..Len(pending) : TiedTo(pending[j], told')
      <4>1. CASE Answering(Call)
        BY <1>1, <2>1, <3>1, <3>6, <4>1, TiedElse
      <4>2. CASE ~Answering(Call)
        BY <2>1, <3>1, <4>2
      <4> QED BY <4>1, <4>2
    <3> QED BY <2>4, <3>1, <3>4, <3>7, <3>8
  <2> QED BY <2>5, <2>6, <2>7, <2>8, <2>9 DEF CallTells
<1> QED BY <1>3, <1>4

LEMMA StepTied ==
  ASSUME CatchesBarriers, IInv, Exact, Tied, [Next]_vars
  PROVE  Tied'
<1> USE DEF durable, context, cancel, history
<1>1. CASE Return \/ Rest
  BY <1>1, TiedNext DEF Return, Rest, Tied
<1>2. CASE BeginPass \/ Crash
  <2>1. UNCHANGED <<script, log, edited, told>> /\ Len(pending') = 0
        /\ (result' = result \/ result' = None)
    BY <1>2 DEF BeginPass, Crash
  <2>2. result' = "Diverged" => edited'
    BY <1>2, NoneAssumption DEF BeginPass, Crash, Tied, Results
  <2> QED BY <2>1, <2>2, TiedNext DEF Tied
<1>3. CASE FlushOne
  <2>1. UNCHANGED <<script, edited, told, result>> /\ pending' = Tail(pending)
    BY <1>3 DEF FlushOne
  <2>2. /\ pending # <<>> /\ pending \in Seq(Entries)
        /\ \A i \in DOMAIN log' : log'[i] = IF i = Head(pending).at THEN Head(pending) ELSE log[i]
        /\ DOMAIN log' = DOMAIN log \cup {Head(pending).at}
    BY <1>3, FlushTakes DEF FlushOne, With, IInv, Types
  <2>3. /\ Head(pending) = pending[1] /\ 1 \in 1..Len(pending)
        /\ \A j \in 1..Len(pending') : j + 1 \in 1..Len(pending) /\ pending'[j] = pending[j + 1]
    BY <2>1, <2>2
  <2>4. ASSUME ~edited
        PROVE  /\ \A i \in DOMAIN log' : TiedTo(log'[i], told)
               /\ \A j \in 1..Len(pending') : TiedTo(pending'[j], told)
    BY <2>2, <2>3, <2>4 DEF Tied
  <2> QED BY <2>1, <2>4, TiedNext DEF Tied
<1>4. CASE Tick
  <2>1. UNCHANGED <<script, edited, told, result>>
    BY <1>4 DEF Tick
  <2>2. /\ Len(pending') = Len(pending) /\ DOMAIN log' = DOMAIN log
        /\ \A k \in 1..Len(pending) : Same(pending'[k], pending[k])
        /\ \A i \in DOMAIN log : Same(log'[i], log[i])
    BY <1>4, TickKeeps
  <2>3. ASSUME ~edited
        PROVE  /\ \A i \in DOMAIN log' : TiedTo(log'[i], told)
               /\ \A j \in 1..Len(pending') : TiedTo(pending'[j], told)
    BY <2>2, <2>3, TiedSame DEF Tied
  <2> QED BY <2>1, <2>3, TiedNext DEF Tied
<1>5. ASSUME NEW s \in Scripts, Resume(s)
      PROVE  Tied'
  <2>1. UNCHANGED <<log, pending, result>> /\ edited' = (edited \/ s # script) /\ script' = s
        /\ (s = script => told' = told)
    BY <1>5 DEF Resume
  <2>2. CASE s = script
    BY <2>1, <2>2, TiedNext DEF Tied
  <2>3. CASE s # script
    BY <2>1, <2>3 DEF Tied
  <2> QED BY <2>2, <2>3
<1> QED BY <1>1, <1>2, <1>3, <1>4, <1>5, StepKinds, CallTied

\* What a step may do to the answers.
LEMMA StepTold ==
  ASSUME CatchesBarriers, IInv, Exact, Tied, [Next]_vars, ~edited, ~edited',
         NEW k \in DOMAIN told \cap DOMAIN told', IndexOf(k) \in DOMAIN log
  PROVE  told'[k] = told[k]
<1> USE DEF durable, context, cancel, history
<1>1. CASE CallStep /\ CallTells
  <2>1. mode = "pass" /\ ip \in Positions(script)
    BY <1>1 DEF CallStep
  <2>2. CASE Unmade \/ Marked \/ Bumped \/ Stopped
    BY <2>2 DEF Unmade, Marked, Bumped, Stopped
  <2>3. CASE Answered
    <3>1. /\ IsReplaying /\ Logged(Call)
          /\ told' = IF Answering(Call) THEN With(told, ip, log[callIndex].ans) ELSE told
      BY <2>3 DEF Answered, Replays, IsReplaying
    <3>2. Answering(Call) => ip \in DOMAIN told /\ told[ip] = log[callIndex].ans
      BY <2>1, <3>1, TiedHere
    <3> QED BY <3>1, <3>2 DEF With
  <2>4. CASE Performed
    <3>1. PICK e : told' = IF Answering(Call) THEN With(told, ip, e.ans) ELSE told
      BY <2>4 DEF Performed
    <3>2. ~IsReplaying /\ callIndex = IndexOf(ip)
      BY <2>1, <2>4 DEF Performed, Exact
    <3>3. callIndex \notin DOMAIN log
      BY <3>2 DEF IsReplaying, IInv, Types
    <3>4. k # ip
      BY <3>2, <3>3
    <3> QED BY <3>1, <3>4 DEF With
  <2> QED BY <1>1, <2>2, <2>3, <2>4 DEF CallTells
<1>2. CASE Return \/ BeginPass \/ FlushOne \/ Crash \/ Tick \/ Rest
  <2>1. told' = told
    BY <1>2 DEF Return, BeginPass, FlushOne, Crash, Tick, Rest
  <2> QED BY <2>1
<1>3. ASSUME NEW s \in Scripts, Resume(s)
      PROVE  told' = told
  <2>1. s = script
    BY <1>3 DEF Resume
  <2> QED BY <1>3, <2>1 DEF Resume
<1> QED BY <1>1, <1>2, <1>3, StepKinds

\* r[barrier.replay.determinism], r[operation.composition.params.replay]: however
\* often the pass is run again, and wherever the daemon died, a closure nobody
\* edited never diverges from its log, and once a call is in the log it answers
\* what it answered the first time.
THEOREM ReplaysFaithfully ==
  ASSUME CatchesBarriers
  PROVE  Spec => ReplayFaithful
<1> DEFINE Kept == ~edited /\ ~edited' =>
                     \A k \in DOMAIN told \cap DOMAIN told' :
                       IndexOf(k) \in DOMAIN log => told'[k] = told[k]
<1>1. Init => IInv /\ Exact /\ Tied
  <2> SUFFICES ASSUME Init PROVE IInv /\ Exact /\ Tied
    OBVIOUS
  <2>1. DOMAIN log = {} /\ Len(pending) = 0 /\ mode # "pass" /\ result # "Diverged"
    BY NoneAssumption DEF Init, Results
  <2> QED BY <2>1, InitInv DEF Exact, Tied
<1>2. IInv /\ Exact /\ Tied /\ [Next]_vars => IInv' /\ Exact' /\ Tied'
  BY StepInv, StepExact, StepTied
<1>3. IInv /\ Exact /\ Tied /\ [Next]_vars => [Kept]_vars
  BY StepTold
<1>4. Tied => (result = "Diverged" => edited)
  BY DEF Tied
<1> QED BY <1>1, <1>2, <1>3, <1>4, PTL DEF Spec, ReplayFaithful

-----------------------------------------------------------------------------
(* Signals are delivered.                                                  *)

IsSignal(e, l) == e.kind = "signal" /\ e.lit = l

\* The positions at which the log L or the entries P of the pass have a signal l.
Signals(L, P, l) ==
  {p \in Nat : \/ p \in DOMAIN L /\ IsSignal(L[p], l)
               \/ \E j \in 1..Len(P) : P[j].at = p /\ IsSignal(P[j], l)}

\* Entries of one position are of one signal, or of none.
Agree(e, f) ==
  e.at = f.at /\ "signal" \in {e.kind, f.kind} => e.kind = f.kind /\ e.lit = f.lit
Consistent(L, P) ==
  /\ \A i \in DOMAIN L : \A j \in 1..Len(P) : Agree(L[i], P[j])
  /\ \A i, j \in 1..Len(P) : Agree(P[i], P[j])

\* Every signal the closure has got past is on record.
ServedTo(n) ==
  \A k \in Positions(script) :
    k < n /\ script[k].op = "signal" => IndexOf(k) \in Signals(log, pending, script[k].lit)

\* What is on record was delivered.
Served ==
  /\ delivered \in [Literals -> Nat]
  /\ \A l \in Literals : Cardinality(Signals(log, pending, l)) <= delivered[l]
  /\ Consistent(log, pending)
  /\ mode = "pass" => ServedTo(ip)
  /\ mode \in {"flush", "ended", "concluded"} /\ result = "Completed" => ServedTo(Len(script) + 1)

LEMMA LiteralOf ==
  ASSUME Types, NEW k \in Positions(script)
  PROVE  script[k].lit \in Literals
BY DEF Types, Literals

LEMMA SignalsFinite ==
  ASSUME IInv, NEW l
  PROVE  IsFiniteSet(Signals(log, pending, l)) /\ Cardinality(Signals(log, pending, l)) \in Nat
<1>1. /\ LogLength \in Nat /\ callIndex \in Nat /\ DOMAIN log = 0..(LogLength - 1)
      /\ \A j \in 1..Len(pending) : pending[j].at < callIndex
  BY DEF IInv, Types, Ordered, Sorted
<1>2. Signals(log, pending, l) \in SUBSET (0..(LogLength + callIndex))
  BY <1>1 DEF Signals
<1>3. IsFiniteSet(0..(LogLength + callIndex))
  <2>1. PICK b \in Int : b = LogLength + callIndex
    BY <1>1
  <2>2. IsFiniteSet(0..b)
    BY <2>1, FS_Interval
  <2> QED BY <2>1, <2>2
<1> QED BY <1>2, <1>3, FS_Subset, FS_CardinalityType

LEMMA AppendSignals ==
  ASSUME NEW L, NEW P \in Seq(Entries), NEW e \in Entries, NEW l
  PROVE  Signals(L, Append(P, e), l) =
           Signals(L, P, l) \cup (IF IsSignal(e, l) THEN {e.at} ELSE {})
<1> DEFINE Q == Append(P, e)
<1>1. /\ Len(Q) = Len(P) + 1 /\ Len(P) \in Nat /\ Q[Len(P) + 1] = e
      /\ \A k \in 1..Len(P) : Q[k] = P[k]
  OBVIOUS
<1>2. e.at \in Nat
  BY EntryAt
<1> HIDE DEF Q
<1>3. \A p : (\E j \in 1..Len(Q) : Q[j].at = p /\ IsSignal(Q[j], l))
             <=> \/ \E j \in 1..Len(P) : P[j].at = p /\ IsSignal(P[j], l)
                 \/ e.at = p /\ IsSignal(e, l)
  <2> SUFFICES ASSUME NEW p
               PROVE  (\E j \in 1..Len(Q) : Q[j].at = p /\ IsSignal(Q[j], l))
                      <=> \/ \E j \in 1..Len(P) : P[j].at = p /\ IsSignal(P[j], l)
                          \/ e.at = p /\ IsSignal(e, l)
    OBVIOUS
  <2>1. \A j \in 1..Len(Q) : j \in 1..Len(P) \/ j = Len(P) + 1
    BY <1>1
  <2>2. Len(P) + 1 \in 1..Len(Q) /\ \A j \in 1..Len(P) : j \in 1..Len(Q)
    BY <1>1
  <2> QED BY <1>1, <2>1, <2>2
<1>4. Signals(L, Q, l) = Signals(L, P, l) \cup (IF IsSignal(e, l) THEN {e.at} ELSE {})
  BY <1>2, <1>3 DEF Signals
<1> QED BY <1>4 DEF Q

LEMMA SameSignals ==
  ASSUME NEW L, NEW P, NEW M, NEW Q, DOMAIN M = DOMAIN L, Len(Q) = Len(P),
         \A i \in DOMAIN L : Same(M[i], L[i]), \A j \in 1..Len(P) : Same(Q[j], P[j]), NEW l
  PROVE  /\ Signals(M, Q, l) = Signals(L, P, l)
         /\ Consistent(L, P) => Consistent(M, Q)
<1>1. \A i \in DOMAIN L : IsSignal(M[i], l) <=> IsSignal(L[i], l)
  BY DEF Same, IsSignal
<1>2. \A j \in 1..Len(P) : Q[j].at = P[j].at /\ (IsSignal(Q[j], l) <=> IsSignal(P[j], l))
  BY DEF Same, IsSignal
<1>3. Signals(M, Q, l) = Signals(L, P, l)
  BY <1>1, <1>2 DEF Signals
<1>4. Consistent(L, P) => Consistent(M, Q)
  BY DEF Consistent, Agree, Same
<1> QED BY <1>3, <1>4

LEMMA AppendConsistent ==
  ASSUME NEW L, NEW P \in Seq(Entries), NEW e \in Entries, Consistent(L, P),
         \A i \in DOMAIN L : Agree(L[i], e), \A j \in 1..Len(P) : Agree(P[j], e)
  PROVE  Consistent(L, Append(P, e))
<1> DEFINE Q == Append(P, e)
<1>1. /\ Len(Q) = Len(P) + 1 /\ Len(P) \in Nat /\ Q[Len(P) + 1] = e
      /\ \A k \in 1..Len(P) : Q[k] = P[k]
  OBVIOUS
<1> HIDE DEF Q
<1>2. \A j \in 1..Len(Q) : Q[j] = e \/ \E i \in 1..Len(P) : Q[j] = P[i]
  BY <1>1
<1>3. Agree(e, e) /\ \A j \in 1..Len(P) : Agree(e, P[j])
  BY DEF Agree
<1>4. Consistent(L, Q)
  BY <1>2, <1>3 DEF Consistent
<1> QED BY <1>4 DEF Q

\* What a call leaves of it: Served without the clause on where the closure is.
LEMMA CallServed ==
  ASSUME CatchesBarriers, IInv, Exact, Served, CallStep, CallTells
  PROVE  Served'
<1>1. /\ mode = "pass" /\ ip \in Positions(script) /\ script' = script /\ log' = log /\ Moving
  BY DEF CallStep
<1>2. /\ callIndex \in Nat /\ LogLength \in Nat /\ pending \in Seq(Entries) /\ ip \in Nat \ {0}
      /\ DOMAIN log = 0..(LogLength - 1) /\ Len(script) \in Nat
  BY ScriptsAssumption DEF IInv, Types
<1>3. /\ \A j \in 1..Len(pending) : pending[j].at < callIndex
      /\ \A i \in DOMAIN log : log[i].at = i
      /\ \A j \in 1..Len(pending) : pending[j].at \in Nat
  BY <1>2, EntryAt DEF IInv, Types, Ordered, Sorted
<1>4. Call.lit \in Literals /\ Call = script[ip]
  BY <1>1, LiteralOf DEF IInv, Call
<1>5. /\ delivered \in [Literals -> Nat] /\ Consistent(log, pending) /\ ServedTo(ip)
      /\ \A l \in Literals : Cardinality(Signals(log, pending, l)) <= delivered[l]
      /\ \A l : Cardinality(Signals(log, pending, l)) \in Nat /\ IsFiniteSet(Signals(log, pending, l))
  BY <1>1, SignalsFinite DEF Served
<1>6. SUFFICES /\ delivered' \in [Literals -> Nat] /\ Consistent(log, pending')
               /\ \A l \in Literals : Cardinality(Signals(log, pending', l)) <= delivered'[l]
               /\ \A l : Signals(log, pending, l) \subseteq Signals(log, pending', l)
               /\ mode' = "pass" /\ Call.op = "signal" => callIndex \in Signals(log, pending', Call.lit)
  <2>1. CASE mode' = "pass"
    <3>1. ip' = ip + 1
      BY <1>1, <2>1 DEF Moving
    <3>2. callIndex = IndexOf(ip)
      BY <1>1 DEF Exact
    <3>3. \A k \in Positions(script) : k < ip + 1 /\ script[k].op = "signal"
                                       => IndexOf(k) \in Signals(log, pending', script[k].lit)
      <4> SUFFICES ASSUME NEW k \in Positions(script), k < ip + 1, script[k].op = "signal"
                   PROVE  IndexOf(k) \in Signals(log, pending', script[k].lit)
        OBVIOUS
      <4>1. k < ip \/ k = ip
        BY <1>2 DEF Positions
      <4>2. CASE k < ip
        <5>1. IndexOf(k) \in Signals(log, pending, script[k].lit)
          BY <1>5, <4>2 DEF ServedTo
        <5> QED BY <1>6, <5>1
      <4>3. CASE k = ip
        BY <1>4, <1>6, <2>1, <3>2, <4>3
      <4> QED BY <4>1, <4>2, <4>3
    <3>4. ServedTo(ip)'
      BY <1>1, <3>1, <3>3 DEF ServedTo, Positions, IndexOf
    <3> QED BY <1>1, <1>6, <2>1, <3>4 DEF Served
  <2>2. CASE mode' # "pass"
    BY <1>1, <1>6, <2>2 DEF Served, Moving
  <2> QED BY <2>1, <2>2
<1>7. CASE Unmade \/ Bumped
  <2>1. pending' = pending /\ (mode' = "pass" => Call.op # "signal")
    BY <1>7 DEF Unmade, Bumped, Stays, Replays, Logged
  <2>2. delivered' \in [Literals -> Nat] /\ \A l \in Literals : delivered[l] <= delivered'[l]
    BY <1>4, <1>5, <1>7 DEF Unmade, Bumped
  <2>3. \A l \in Literals : Cardinality(Signals(log, pending, l)) <= delivered'[l]
    BY <1>5, <2>2
  <2> QED BY <1>5, <2>1, <2>2, <2>3
<1>8. CASE Marked
  <2>1. delivered' = delivered /\ Call.op # "signal"
    BY <1>8 DEF Marked, Logged
  <2>2. CASE /\ pending' \in Seq(Entries) /\ Len(pending') = Len(pending)
             /\ \A k \in 1..Len(pending) : Same(pending'[k], pending[k])
    <3>1. \A i \in DOMAIN log : Same(log[i], log[i])
      BY DEF Same
    <3>2. \A l : /\ Signals(log, pending', l) = Signals(log, pending, l)
                 /\ Consistent(log, pending) => Consistent(log, pending')
      BY <2>2, <3>1, SameSignals
    <3> QED BY <1>5, <2>1, <3>2
  <2>3. CASE \E e \in Entries, i \in DOMAIN log :
               i < callIndex /\ Same(e, log[i]) /\ pending' = Append(pending, e)
    <3>1. PICK e \in Entries, i \in DOMAIN log :
               i < callIndex /\ Same(e, log[i]) /\ pending' = Append(pending, e)
      BY <2>3
    <3>2. e.at = i /\ i \in Nat
      BY <1>2, <1>3, <3>1 DEF Same
    <3>3. \A l : IsSignal(e, l) => e.at \in Signals(log, pending, l)
      BY <3>1, <3>2 DEF Same, IsSignal, Signals
    <3>4. \A l : Signals(log, pending', l) = Signals(log, pending, l)
      <4>1. \A l : Signals(log, pending', l) =
                     Signals(log, pending, l) \cup (IF IsSignal(e, l) THEN {e.at} ELSE {})
        BY <1>2, <3>1, AppendSignals
      <4>2. \A l : Signals(log, pending, l) \cup (IF IsSignal(e, l) THEN {e.at} ELSE {})
                     = Signals(log, pending, l)
        BY <3>3
      <4> QED BY <4>1, <4>2
    <3>5. Agree(log[i], e) /\ \A n \in DOMAIN log : n # i => log[n].at # e.at
      BY <1>3, <3>1, <3>2 DEF Agree, Same
    <3>6. \A n \in DOMAIN log : Agree(log[n], e)
      BY <3>5 DEF Agree
    <3>7. \A j \in 1..Len(pending) : Agree(pending[j], e)
      BY <1>5, <3>1 DEF Consistent, Agree, Same
    <3>8. Consistent(log, pending')
      BY <1>2, <1>5, <3>1, <3>6, <3>7, AppendConsistent
    <3> QED BY <1>5, <2>1, <3>4, <3>8
  <2> QED BY <1>8, <2>2, <2>3 DEF Marked, Marks
<1>9. CASE Answered
  <2>1. pending' = pending /\ delivered' = delivered /\ Matches(Call) /\ callIndex < LogLength
    BY <1>9 DEF Answered, Replays
  <2>2. Committed(callIndex) = log[callIndex] /\ callIndex \in DOMAIN log
    BY <1>2, <2>1, CommittedAt DEF IInv
  <2>3. Call.op = "signal" => IsSignal(log[callIndex], Call.lit)
    BY <2>1, <2>2 DEF Matches, IsSignal
  <2>4. Call.op = "signal" => callIndex \in Signals(log, pending, Call.lit)
    BY <1>2, <2>2, <2>3 DEF Signals
  <2> QED BY <1>5, <2>1, <2>4
<1>10. CASE Stopped
  <2>1. PICK e \in Entries : /\ e.at = callIndex /\ e.kind = "stop"
                             /\ pending' = Append(pending, e)
    BY <1>10 DEF Stopped, Of
  <2>2. delivered' = delivered /\ Call.op = "stop" /\ Matches(Call) /\ callIndex < LogLength
    BY <1>10 DEF Stopped, IsReplaying
  <2>3. Committed(callIndex) = log[callIndex] /\ callIndex \in DOMAIN log
    BY <1>2, <2>2, CommittedAt DEF IInv
  <2>4. log[callIndex].kind = "stop"
    BY <2>2, <2>3 DEF Matches
  <2>5. \A l : Signals(log, pending', l) = Signals(log, pending, l)
    <3>1. \A l : Signals(log, pending', l) =
                   Signals(log, pending, l) \cup (IF IsSignal(e, l) THEN {e.at} ELSE {})
      BY <1>2, <2>1, AppendSignals
    <3>2. \A l : ~IsSignal(e, l)
      BY <2>1 DEF IsSignal
    <3> QED BY <3>1, <3>2
  <2>6. \A n \in DOMAIN log : Agree(log[n], e)
    BY <1>3, <2>1, <2>4 DEF Agree
  <2>7. \A j \in 1..Len(pending) : Agree(pending[j], e)
    BY <1>2, <1>3, <2>1 DEF Agree
  <2>8. Consistent(log, pending')
    BY <1>2, <1>5, <2>1, <2>6, <2>7, AppendConsistent
  <2> QED BY <1>5, <2>2, <2>5, <2>8
<1>11. CASE Performed
  <2>1. PICK e \in Entries :
          /\ e.at = callIndex /\ e.kind = Call.op /\ e.lit = Call.lit
          /\ pending' = Append(pending, e)
    BY <1>11 DEF Performed, Of
  <2>2. ~IsReplaying
        /\ delivered' = IF Effect(Call) THEN [delivered EXCEPT ![Call.lit] = @ + 1] ELSE delivered
    BY <1>11 DEF Performed
  <2>3. \A l : Signals(log, pending', l) =
                 Signals(log, pending, l) \cup (IF IsSignal(e, l) THEN {callIndex} ELSE {})
    BY <1>2, <2>1, AppendSignals
  <2>4. /\ delivered' \in [Literals -> Nat]
        /\ \A l \in Literals : /\ delivered[l] <= delivered'[l]
                               /\ Call.op = "signal" /\ l = Call.lit => delivered'[l] = delivered[l] + 1
    BY <1>4, <1>5, <2>2 DEF Effect
  <2>5. \A l \in Literals : Cardinality(Signals(log, pending', l)) <= delivered'[l]
    <3> SUFFICES ASSUME NEW l \in Literals
                 PROVE  Cardinality(Signals(log, pending', l)) <= delivered'[l]
      OBVIOUS
    <3>1. delivered[l] \in Nat /\ delivered'[l] \in Nat
      BY <1>5, <2>4
    <3>2. CASE IsSignal(e, l)
      <4>1. delivered'[l] = delivered[l] + 1
        BY <2>1, <2>4, <3>2 DEF IsSignal
      <4>2. Signals(log, pending', l) = Signals(log, pending, l) \cup {callIndex}
        BY <2>3, <3>2
      <4>3. PICK S : S = Signals(log, pending, l) /\ IsFiniteSet(S) /\ Cardinality(S) \in Nat
        BY <1>5
      <4>4. \/ Cardinality(S \cup {callIndex}) = Cardinality(S)
            \/ Cardinality(S \cup {callIndex}) = Cardinality(S) + 1
        BY <4>3, FS_AddElement
      <4>5. Cardinality(S) <= delivered[l]
        BY <1>5, <4>3
      <4>6. Cardinality(S \cup {callIndex}) <= delivered'[l]
        BY <3>1, <4>1, <4>3, <4>4, <4>5
      <4> QED BY <4>2, <4>3, <4>6
    <3>3. CASE ~IsSignal(e, l)
      <4>1. Signals(log, pending', l) = Signals(log, pending, l)
        BY <2>3, <3>3
      <4> QED BY <1>5, <2>4, <3>1, <4>1
    <3> QED BY <3>2, <3>3
  <2>6. \A n \in DOMAIN log : Agree(log[n], e)
    BY <1>2, <1>3, <2>1, <2>2 DEF Agree, IsReplaying
  <2>7. \A j \in 1..Len(pending) : Agree(pending[j], e)
    BY <1>2, <1>3, <2>1 DEF Agree
  <2>8. Consistent(log, pending')
    BY <1>2, <1>5, <2>1, <2>6, <2>7, AppendConsistent
  <2>9. Call.op = "signal" => callIndex \in Signals(log, pending', Call.lit)
    BY <2>1, <2>3 DEF IsSignal
  <2> QED BY <2>3, <2>4, <2>5, <2>8, <2>9
<1> QED BY <1>7, <1>8, <1>9, <1>10, <1>11 DEF CallTells

\* The commit of one entry moves it from the pass to the log.
LEMMA FlushServed ==
  ASSUME IInv, Served, FlushOne
  PROVE  /\ \A l : Signals(log', pending', l) = Signals(log, pending, l)
         /\ Consistent(log', pending')
<1> DEFINE e == Head(pending)
<1>1. /\ pending # <<>> /\ e \in Entries
      /\ \A i \in DOMAIN log' : log'[i] = IF i = e.at THEN e ELSE log[i]
      /\ DOMAIN log' = DOMAIN log \cup {e.at}
  BY FlushTakes DEF FlushOne, With
<1>2. pending \in Seq(Entries) /\ pending' = Tail(pending) /\ Consistent(log, pending)
      /\ \A i \in DOMAIN log : log[i].at = i
  BY DEF IInv, Types, FlushOne, Served
<1>3. e = pending[1] /\ 1 \in 1..Len(pending)
  BY <1>1, <1>2
<1>4. /\ Len(pending) \in Nat \ {0} /\ Len(pending') = Len(pending) - 1
      /\ \A j \in 1..Len(pending') : j + 1 \in 1..Len(pending) /\ pending'[j] = pending[j + 1]
  BY <1>1, <1>2
<1>5. \A j \in 1..Len(pending) : j = 1 \/ (j - 1 \in 1..Len(pending') /\ pending[j] = pending'[j - 1])
  BY <1>4
<1> HIDE DEF e
<1>6. e.at \in Nat
  BY <1>1, EntryAt
<1>7. ASSUME NEW l
      PROVE  Signals(log', pending', l) = Signals(log, pending, l)
  <2>1. ASSUME NEW p \in Signals(log', pending', l)
        PROVE  p \in Signals(log, pending, l)
    <3>1. CASE p \in DOMAIN log' /\ IsSignal(log'[p], l)
      BY <1>1, <1>3, <2>1, <3>1 DEF Signals
    <3>2. CASE \E j \in 1..Len(pending') : pending'[j].at = p /\ IsSignal(pending'[j], l)
      BY <1>4, <2>1, <3>2 DEF Signals
    <3> QED BY <2>1, <3>1, <3>2 DEF Signals
  <2>2. ASSUME NEW p \in Signals(log, pending, l)
        PROVE  p \in Signals(log', pending', l)
    <3>1. p \in Nat
      BY <2>2 DEF Signals
    <3>2. CASE p \in DOMAIN log /\ IsSignal(log[p], l)
      <4>1. p = e.at => IsSignal(e, l)
        BY <1>2, <1>3, <3>2 DEF Consistent, Agree, IsSignal
      <4>2. p \in DOMAIN log' /\ IsSignal(log'[p], l)
        BY <1>1, <3>2, <4>1
      <4> QED BY <3>1, <4>2 DEF Signals
    <3>3. CASE \E j \in 1..Len(pending) : pending[j].at = p /\ IsSignal(pending[j], l)
      <4>1. PICK j \in 1..Len(pending) : pending[j].at = p /\ IsSignal(pending[j], l)
        BY <3>3
      <4>2. CASE j = 1
        BY <1>1, <1>3, <3>1, <4>1, <4>2 DEF Signals
      <4>3. CASE j # 1
        BY <1>5, <3>1, <4>1, <4>3 DEF Signals
      <4> QED BY <4>2, <4>3
    <3> QED BY <2>2, <3>2, <3>3 DEF Signals
  <2> QED BY <2>1, <2>2
<1>8. Consistent(log', pending')
  <2>1. \A i \in DOMAIN log' : log'[i] = pending[1] \/ (i \in DOMAIN log /\ log'[i] = log[i])
    BY <1>1, <1>3
  <2>2. \A i \in DOMAIN log' : \A j \in 1..Len(pending') : Agree(log'[i], pending'[j])
    BY <1>2, <1>3, <1>4, <2>1 DEF Consistent
  <2>3. \A i, j \in 1..Len(pending') : Agree(pending'[i], pending'[j])
    BY <1>2, <1>4 DEF Consistent
  <2> QED BY <2>2, <2>3 DEF Consistent
<1> QED BY <1>7, <1>8

\* The record stays, and so does where the closure is.
LEMMA QuietServed ==
  ASSUME Served, UNCHANGED <<script, delivered, ip, result>>, Consistent(log', pending'),
         \A l : Signals(log', pending', l) = Signals(log, pending, l),
         mode' = "pass" => mode = "pass",
         mode' \in {"flush", "ended", "concluded"} => mode \in {"flush", "ended", "concluded"}
  PROVE  Served'
<1>1. ASSUME NEW n, NEW m, m = n, ServedTo(n)
      PROVE  \A k \in Positions(script') : k < m /\ script'[k].op = "signal" =>
               Cardinality({j \in 1..(k - 1) : Logged(script'[j])})
                 \in Signals(log', pending', script'[k].lit)
  BY <1>1 DEF ServedTo, Positions, IndexOf
<1>2. mode' = "pass" => ServedTo(ip)'
  BY <1>1 DEF Served, ServedTo, Positions, IndexOf
<1>3. mode' \in {"flush", "ended", "concluded"} /\ result' = "Completed"
      => ServedTo(Len(script) + 1)'
  BY <1>1 DEF Served, ServedTo, Positions, IndexOf
<1> QED BY <1>2, <1>3 DEF Served

LEMMA StepServed ==
  ASSUME CatchesBarriers, IInv, Exact, Served, [Next]_vars
  PROVE  Served'
<1> USE DEF durable, context, cancel, history
<1>1. CASE Return
  <2>1. /\ UNCHANGED <<script, log, pending, delivered>> /\ mode = "pass" /\ mode' = "flush"
        /\ ip > Len(script) /\ ip <= Len(script) + 1
    BY <1>1 DEF Return, IInv, Anchored
  <2>2. ServedTo(ip) /\ ip \in Nat /\ Len(script) \in Nat
    BY <2>1, ScriptsAssumption DEF Served, IInv, Types
  <2>3. ip = Len(script) + 1
    BY <2>1, <2>2
  <2>4. ServedTo(Len(script) + 1)'
    BY <2>1, <2>2, <2>3 DEF ServedTo, Positions, IndexOf
  <2> QED BY <2>1, <2>4 DEF Served
<1>2. CASE BeginPass
  <2>1. /\ UNCHANGED <<script, log, delivered>> /\ mode' = "pass" /\ ip' = 1 /\ pending' = pending
    BY <1>2 DEF BeginPass, IInv, Ordered
  <2>2. ServedTo(ip)'
    BY <2>1 DEF ServedTo, Positions
  <2> QED BY <2>1, <2>2 DEF Served
<1>3. CASE FlushOne
  <2>1. UNCHANGED <<script, delivered, ip, result, mode>>
    BY <1>3 DEF FlushOne
  <2> QED BY <1>3, <2>1, FlushServed, QuietServed
<1>4. CASE Tick
  <2>1. UNCHANGED <<script, delivered, ip, result, mode>>
    BY <1>4 DEF Tick
  <2>2. /\ Len(pending') = Len(pending) /\ DOMAIN log' = DOMAIN log
        /\ \A k \in 1..Len(pending) : Same(pending'[k], pending[k])
        /\ \A i \in DOMAIN log : Same(log'[i], log[i])
    BY <1>4, TickKeeps
  <2>3. \A l : /\ Signals(log', pending', l) = Signals(log, pending, l)
               /\ Consistent(log, pending) => Consistent(log', pending')
    BY <2>2, SameSignals
  <2>4. Consistent(log', pending') /\ \A l : Signals(log', pending', l) = Signals(log, pending, l)
    BY <2>3 DEF Served
  <2> QED BY <2>1, <2>4, QuietServed
<1>5. CASE Rest
  <2>1. UNCHANGED <<script, delivered, ip, result, log, pending>>
        /\ (mode' = "pass" => mode = "pass")
        /\ (mode' \in {"flush", "ended", "concluded"} => mode \in {"flush", "ended", "concluded"})
    BY <1>5 DEF Rest
  <2>2. Consistent(log', pending') /\ \A l : Signals(log', pending', l) = Signals(log, pending, l)
    BY <2>1 DEF Served
  <2> QED BY <2>1, <2>2, QuietServed
<1>6. CASE Crash
  <2>1. UNCHANGED <<log, delivered>> /\ mode' = "down" /\ pending' = <<>> /\ Len(pending') = 0
    BY <1>6 DEF Crash
  <2>2. Consistent(log', pending')
    BY <2>1 DEF Consistent
  <2>3. ASSUME NEW l \in Literals
        PROVE  Cardinality(Signals(log', pending', l)) <= delivered[l]
    <3>1. Signals(log', pending', l) \subseteq Signals(log, pending, l)
      BY <2>1 DEF Signals
    <3>2. /\ IsFiniteSet(Signals(log, pending, l)) /\ Cardinality(Signals(log, pending, l)) \in Nat
          /\ Cardinality(Signals(log, pending, l)) <= delivered[l] /\ delivered[l] \in Nat
      BY SignalsFinite DEF Served
    <3>3. /\ Cardinality(Signals(log', pending', l)) <= Cardinality(Signals(log, pending, l))
          /\ Cardinality(Signals(log', pending', l)) \in Nat
      BY <3>1, <3>2, FS_Subset, FS_CardinalityType
    <3> QED BY <3>2, <3>3
  <2> QED BY <2>1, <2>2, <2>3 DEF Served
<1>7. CASE \E s \in Scripts : Resume(s)
  <2>1. UNCHANGED <<log, pending, delivered>> /\ mode' = "begin"
    BY <1>7 DEF Resume
  <2> QED BY <2>1 DEF Served
<1> QED BY <1>1, <1>2, <1>3, <1>4, <1>5, <1>6, <1>7, StepKinds, CallServed

-----------------------------------------------------------------------------
(* Effects are carried out once.                                           *)

EffectsAt(l) == {k \in Positions(script) : Effect(script[k]) /\ script[k].lit = l}
DoneAt(l, n) == {k \in EffectsAt(l) : IndexOf(k) < n}
Bumps(l) ==
  IF \E k \in Positions(script) : script[k].op = "restart" /\ script[k].lit = l THEN 1 ELSE 0

\* An effect was carried out once for each of its calls whose position is taken,
\* and once more for each that a crash may have taken back.
Bounded ==
  ~edited => \A l \in Literals :
    delivered[l] <= Cardinality(EffectsAt(l)) * crashes + Cardinality(DoneAt(l, Made)) + Bumps(l)

LEMMA EffectsFinite ==
  ASSUME Types, NEW l
  PROVE  /\ IsFiniteSet(EffectsAt(l)) /\ Cardinality(EffectsAt(l)) \in Nat /\ Bumps(l) \in {0, 1}
         /\ Cardinality(EffectsAt(l)) + Bumps(l) <= Sites(script, l) /\ Sites(script, l) \in Nat
<1> DEFINE All == {k \in Positions(script) : script[k].lit = l}
           E == EffectsAt(l)
<1>1. Len(script) \in Nat
  BY ScriptsAssumption DEF Types
<1>2. IsFiniteSet(Positions(script))
  BY <1>1, FS_Interval DEF Positions
<1>3. IsFiniteSet(All) /\ All \in SUBSET Positions(script) /\ E \in SUBSET All
  BY <1>2, FS_Subset DEF EffectsAt
<1>4. IsFiniteSet(E) /\ Cardinality(E) <= Cardinality(All) /\ Cardinality(E) \in Nat
      /\ Cardinality(All) \in Nat
  BY <1>3, FS_Subset, FS_CardinalityType
<1>5. Sites(script, l) = Cardinality(All)
  BY DEF Sites
<1>6. Bumps(l) \in {0, 1}
  BY DEF Bumps
<1>7. CASE Bumps(l) = 1
  <2>1. PICK k \in Positions(script) : script[k].op = "restart" /\ script[k].lit = l
    BY <1>7 DEF Bumps
  <2>2. k \in All /\ k \notin E
    BY <2>1 DEF EffectsAt, Effect
  <2>3. E \cup {k} \in SUBSET All
    BY <1>3, <2>2
  <2>4. Cardinality(E \cup {k}) = Cardinality(E) + 1
    BY <1>4, <2>2, FS_AddElement
  <2>5. Cardinality(E \cup {k}) <= Cardinality(All)
    BY <1>3, <2>3, FS_Subset
  <2> QED BY <1>4, <1>5, <1>7, <2>4, <2>5
<1>8. CASE Bumps(l) = 0
  BY <1>4, <1>5, <1>8
<1> QED BY <1>4, <1>5, <1>6, <1>7, <1>8

LEMMA DoneFinite ==
  ASSUME Types, NEW l, NEW n \in Nat
  PROVE  /\ IsFiniteSet(DoneAt(l, n)) /\ Cardinality(DoneAt(l, n)) \in Nat
         /\ Cardinality(DoneAt(l, n)) <= Cardinality(EffectsAt(l))
<1>1. DoneAt(l, n) \in SUBSET EffectsAt(l)
  BY DEF DoneAt
<1> QED BY <1>1, EffectsFinite, FS_Subset, FS_CardinalityType

\* The more positions are taken the more is done.
LEMMA DoneGrows ==
  ASSUME Types, NEW l, NEW n \in Nat, NEW m \in Nat, n <= m
  PROVE  Cardinality(DoneAt(l, n)) <= Cardinality(DoneAt(l, m))
<1>1. \A k \in EffectsAt(l) : IndexOf(k) \in Nat
  BY IndexType DEF EffectsAt, Positions
<1>2. DoneAt(l, n) \in SUBSET DoneAt(l, m)
  BY <1>1 DEF DoneAt
<1> QED BY <1>2, DoneFinite, FS_Subset

LEMMA BoundedNext ==
  ASSUME script' = script,
         ~edited' => \A l \in Literals :
           delivered'[l] <= Cardinality(EffectsAt(l)) * crashes' + Cardinality(DoneAt(l, Made')) + Bumps(l)
  PROVE  Bounded'
<1>1. \A l : EffectsAt(l)' = EffectsAt(l) /\ Bumps(l)' = Bumps(l)
  BY DEF EffectsAt, Bumps, Positions
<1>2. \A l : DoneAt(l, Made)' = DoneAt(l, Made')
  BY <1>1 DEF DoneAt, IndexOf
<1> QED BY <1>1, <1>2 DEF Bounded

LEMMA CallBounded ==
  ASSUME MaxBumps <= 1, IInv, Exact, Bounded, delivered \in [Literals -> Nat], CallStep, CallTells
  PROVE  Bounded'
<1>1. /\ mode = "pass" /\ ip \in Positions(script) /\ script' = script /\ LogLength' = LogLength
      /\ edited' = edited /\ crashes' = crashes
  BY DEF CallStep, CallTells, LogLength
<1>2. Types /\ callIndex \in Nat /\ LogLength \in Nat /\ Made \in Nat /\ crashes \in Nat /\ ip \in Nat \ {0}
  BY BoundsAssumption DEF IInv, Types, Made
<1>3. Call.lit \in Literals /\ Call = script[ip]
  BY <1>1, <1>2, LiteralOf DEF Call
<1>4. SUFFICES ASSUME ~edited, NEW l \in Literals
               PROVE  delivered'[l] <= Cardinality(EffectsAt(l)) * crashes
                                        + Cardinality(DoneAt(l, Made')) + Bumps(l)
  BY <1>1, BoundedNext
<1>5. PICK x \in Nat : x = Cardinality(EffectsAt(l)) * crashes
  <2>1. PICK c \in Nat : c = Cardinality(EffectsAt(l))
    BY <1>2, EffectsFinite
  <2>2. c * crashes \in Nat
    BY <1>2
  <2> QED BY <2>1, <2>2
<1>6. PICK y \in Nat : y = Cardinality(DoneAt(l, Made))
  BY <1>2, DoneFinite
<1>7. PICK z \in {0, 1} : z = Bumps(l)
  BY <1>2, EffectsFinite
<1>8. delivered[l] \in Nat /\ delivered[l] <= x + y + z
  BY <1>4, <1>5, <1>6, <1>7 DEF Bounded
<1>9. CASE Unmade \/ Marked \/ Answered \/ Stopped
  <2>1. delivered' = delivered
    BY <1>9 DEF Unmade, Marked, Answered, Stopped
  <2>2. Made' \in Nat /\ Made <= Made'
    <3>1. callIndex' \in Nat /\ callIndex <= callIndex'
      <4>1. callIndex' = callIndex \/ callIndex' = callIndex + 1
        BY <1>9 DEF Unmade, Marked, Answered, Stopped, Stays, Replays, Marks
      <4> QED BY <1>2, <4>1
    <3> QED BY <1>1, <1>2, <3>1 DEF Made
  <2>3. y <= Cardinality(DoneAt(l, Made')) /\ Cardinality(DoneAt(l, Made')) \in Nat
    <3>1. PICK m \in Nat : m = Made'
      BY <2>2
    <3> QED BY <1>2, <1>6, <2>2, <3>1, DoneGrows, DoneFinite
  <2> QED BY <1>5, <1>7, <1>8, <2>1, <2>3
<1>10. CASE Bumped
  <2>1. Made' = Made
    BY <1>1, <1>10 DEF Bumped, Stays, Made
  <2>2. delivered' = [delivered EXCEPT ![Call.lit] = IF @ < MaxBumps THEN @ + 1 ELSE @]
    BY <1>10 DEF Bumped
  <2>3. l # Call.lit => delivered'[l] = delivered[l]
    BY <2>2
  <2>4. l = Call.lit => z = 1
    BY <1>1, <1>3, <1>7, <1>10 DEF Bumped, Bumps
  <2>5. l = Call.lit => delivered'[l] <= 1 \/ delivered'[l] = delivered[l]
    BY <1>8, <2>2, BoundsAssumption
  <2>6. l = Call.lit => delivered'[l] \in Nat
    BY <1>8, <2>2
  <2>7. delivered'[l] <= x + y + z
    BY <1>8, <2>3, <2>4, <2>5, <2>6
  <2> QED BY <1>5, <1>6, <1>7, <2>1, <2>7
<1>11. CASE Performed
  <2>1. /\ ~IsReplaying /\ Logged(Call) /\ callIndex' = callIndex + 1
        /\ delivered' = IF Effect(Call) THEN [delivered EXCEPT ![Call.lit] = @ + 1] ELSE delivered
    BY <1>11 DEF Performed
  <2>2. Made = callIndex /\ Made' = Made + 1
    BY <1>1, <1>2, <2>1 DEF Made, IsReplaying
  <2>3. PICK m \in Nat : m = Made' /\ m = Made + 1
    BY <1>2, <2>2
  <2>4. y <= Cardinality(DoneAt(l, m)) /\ Cardinality(DoneAt(l, m)) \in Nat
    BY <1>2, <1>6, <2>3, DoneGrows, DoneFinite
  <2>5. CASE Effect(Call) /\ l = Call.lit
    <3>1. IndexOf(ip) = Made /\ ip \in EffectsAt(l)
      BY <1>1, <1>3, <2>2, <2>5 DEF Exact, EffectsAt
    <3>2. ip \notin DoneAt(l, Made)
      BY <1>2, <3>1 DEF DoneAt
    <3>3. \A k \in EffectsAt(l) : IndexOf(k) \in Nat
      BY IndexType DEF EffectsAt, Positions
    <3>4. DoneAt(l, Made) \cup {ip} \in SUBSET DoneAt(l, m)
      <4>1. ip \in DoneAt(l, m)
        BY <1>2, <2>3, <3>1 DEF DoneAt
      <4>2. \A k \in DoneAt(l, Made) : k \in DoneAt(l, m)
        BY <1>2, <2>3, <3>3 DEF DoneAt
      <4> QED BY <4>1, <4>2
    <3>5. Cardinality(DoneAt(l, Made) \cup {ip}) = y + 1
      BY <1>2, <1>6, <3>2, DoneFinite, FS_AddElement
    <3>6. y + 1 <= Cardinality(DoneAt(l, m))
      BY <1>2, <3>4, <3>5, DoneFinite, FS_Subset
    <3>7. delivered'[l] = delivered[l] + 1
      BY <1>3, <2>1, <2>5
    <3> QED BY <1>5, <1>7, <1>8, <2>3, <2>4, <3>6, <3>7
  <2>6. CASE ~(Effect(Call) /\ l = Call.lit)
    <3>1. delivered'[l] = delivered[l]
      BY <2>1, <2>6
    <3> QED BY <1>5, <1>7, <1>8, <2>3, <2>4, <3>1
  <2> QED BY <2>5, <2>6
<1> QED BY <1>9, <1>10, <1>11 DEF CallTells

LEMMA StepBounded ==
  ASSUME CatchesBarriers, MaxBumps <= 1, IInv, Exact, Bounded,
         delivered \in [Literals -> Nat], [Next]_vars
  PROVE  Bounded'
<1> USE DEF durable, context, cancel, history
<1>1. Types /\ callIndex \in Nat /\ LogLength \in Nat /\ Made \in Nat /\ crashes \in Nat
  BY BoundsAssumption DEF IInv, Types, Made
<1>2. ASSUME UNCHANGED <<script, crashes, delivered, edited>>, Made' = Made
      PROVE  Bounded'
  BY <1>2, BoundedNext DEF Bounded
<1>3. CASE Return \/ Rest
  <2>1. UNCHANGED <<script, crashes, delivered, edited>> /\ Made' = Made
    BY <1>3 DEF Return, Rest, Made, LogLength
  <2> QED BY <1>2, <2>1
<1>4. CASE BeginPass
  <2>1. /\ UNCHANGED <<script, crashes, delivered, edited>> /\ LogLength' = LogLength
        /\ callIndex' = 0 /\ Len(pending) = 0
    BY <1>4 DEF BeginPass, LogLength, IInv, Ordered
  <2>2. LogLength..(callIndex - 1) = {}
    BY <2>1 DEF IInv, Ordered, Covers
  <2>3. Made' = Made
    BY <1>1, <2>1, <2>2 DEF Made
  <2> QED BY <1>2, <2>1, <2>3
<1>5. CASE FlushOne
  <2>1. UNCHANGED <<script, crashes, delivered, edited, callIndex>>
    BY <1>5 DEF FlushOne
  <2>2. /\ Head(pending).at < callIndex
        /\ LogLength' = IF Head(pending).at = LogLength THEN LogLength + 1 ELSE LogLength
    BY <1>5, FlushTakes
  <2>3. Made' = Made
    BY <1>1, <2>1, <2>2 DEF Made
  <2> QED BY <1>2, <2>1, <2>3
<1>6. CASE Tick
  <2>1. UNCHANGED <<script, crashes, delivered, edited, callIndex>> /\ LogLength' = LogLength
    BY <1>6, TickKeeps DEF Tick
  <2> QED BY <1>2, <2>1 DEF Made
<1>7. CASE Crash
  <2>1. /\ UNCHANGED <<script, delivered, edited>> /\ LogLength' = LogLength /\ callIndex' = 0
        /\ crashes' = crashes + 1
    BY <1>7 DEF Crash, LogLength
  <2>2. Made' \in Nat
    BY <1>1, <2>1 DEF Made
  <2>3. ASSUME ~edited, NEW l \in Literals
        PROVE  delivered[l] <= Cardinality(EffectsAt(l)) * (crashes + 1)
                                + Cardinality(DoneAt(l, Made')) + Bumps(l)
    <3>1. PICK c \in Nat : c = Cardinality(EffectsAt(l))
      BY <1>1, EffectsFinite
    <3>2. PICK y \in Nat : y = Cardinality(DoneAt(l, Made)) /\ y <= c
      BY <1>1, <3>1, DoneFinite
    <3>3. PICK w \in Nat : w = Cardinality(DoneAt(l, Made'))
      <4>1. PICK m \in Nat : m = Made'
        BY <2>2
      <4> QED BY <1>1, <4>1, DoneFinite
    <3>4. PICK z \in {0, 1} : z = Bumps(l)
      BY <1>1, EffectsFinite
    <3>5. delivered[l] \in Nat /\ delivered[l] <= c * crashes + y + z
      BY <2>3, <3>1, <3>2, <3>4 DEF Bounded
    <3>6. c * (crashes + 1) = c * crashes + c /\ c * crashes \in Nat
      BY <1>1
    <3>7. delivered[l] <= c * (crashes + 1) + w + z
      BY <3>2, <3>3, <3>4, <3>5, <3>6
    <3> QED BY <3>1, <3>3, <3>4, <3>7
  <2> QED BY <2>1, <2>3, BoundedNext
<1>8. ASSUME NEW s \in Scripts, Resume(s)
      PROVE  Bounded'
  <2>1. UNCHANGED <<delivered, crashes, callIndex, LogLength>> /\ edited' = (edited \/ s # script)
        /\ script' = s
    BY <1>8 DEF Resume, LogLength
  <2>2. CASE s = script
    <3>1. (~edited' => ~edited) /\ script' = script /\ Made' = Made
      BY <2>1, <2>2 DEF Made
    <3> QED BY <2>1, <3>1, BoundedNext DEF Bounded
  <2>3. CASE s # script
    BY <2>1, <2>3 DEF Bounded
  <2> QED BY <2>2, <2>3
<1> QED BY <1>3, <1>4, <1>5, <1>6, <1>7, <1>8, StepKinds, CallBounded

\* Effects are kept.
LEMMA KeptFrom ==
  ASSUME IInv, Bounded, Served
  PROVE  EffectsKept
<1>1. Types /\ Made \in Nat /\ crashes \in Nat
  BY BoundsAssumption DEF IInv, Types, Made
<1>2. ASSUME ~edited, NEW l \in Literals
      PROVE  delivered[l] <= Sites(script, l) * (1 + crashes)
  <2>1. PICK c \in Nat : c = Cardinality(EffectsAt(l))
    BY <1>1, EffectsFinite
  <2>2. PICK y \in Nat : y = Cardinality(DoneAt(l, Made)) /\ y <= c
    BY <1>1, <2>1, DoneFinite
  <2>3. PICK z \in {0, 1} : z = Bumps(l)
    BY <1>1, EffectsFinite
  <2>4. PICK s \in Nat : s = Sites(script, l) /\ c + z <= s
    BY <1>1, <2>1, <2>3, EffectsFinite
  <2>5. delivered[l] \in Nat /\ delivered[l] <= c * crashes + y + z
    BY <1>2, <2>1, <2>2, <2>3 DEF Bounded, Served
  <2>6. PICK d \in Nat : s = c + z + d
    <3>1. s - (c + z) \in Nat /\ s = c + z + (s - (c + z))
      BY <2>3, <2>4
    <3> QED BY <3>1
  <2>7. s * (1 + crashes) = s + c * crashes + z * crashes + d * crashes
    BY <1>1, <2>3, <2>6
  <2>8. c * crashes \in Nat /\ z * crashes \in Nat /\ d * crashes \in Nat
    BY <1>1, <2>3
  <2>9. delivered[l] <= s * (1 + crashes)
    BY <2>2, <2>3, <2>4, <2>5, <2>7, <2>8
  <2> QED BY <2>4, <2>9
<1>3. ASSUME mode \in {"ended", "concluded"}, result = "Completed", NEW l \in Literals
      PROVE  delivered[l] >= Cardinality({k \in Positions(script) :
                                script[k].op = "signal" /\ script[k].lit = l})
  <2> DEFINE K == {k \in Positions(script) : script[k].op = "signal" /\ script[k].lit = l}
             S == Signals(log, pending, l)
             f == [k \in K |-> IndexOf(k)]
  <2>1. IsFiniteSet(S) /\ Cardinality(S) \in Nat /\ Cardinality(S) <= delivered[l]
        /\ delivered[l] \in Nat
    BY SignalsFinite DEF Served
  <2>2. \A k \in K : IndexOf(k) \in S
    <3>1. Len(script) \in Nat
      BY <1>1, ScriptsAssumption DEF Types
    <3>2. \A k \in Positions(script) : k < Len(script) + 1
      BY <3>1 DEF Positions
    <3> QED BY <1>3, <3>2 DEF Served, ServedTo
  <2>3. \A a, b \in K : IndexOf(a) = IndexOf(b) => a = b
    <3>1. \A a \in K : a \in Nat \ {0} /\ Logged(script[a])
      BY DEF Positions, Logged
    <3> QED BY <3>1, IndexOnce
  <2> HIDE DEF K, S
  <2>4. f \in Injection(K, S)
    BY <2>2, <2>3 DEF Injection, IsInjective
  <2>5. IsFiniteSet(K) /\ Cardinality(K) <= Cardinality(S)
    BY <2>1, <2>4, FS_Injection
  <2>6. Cardinality(K) \in Nat
    BY <2>5, FS_CardinalityType
  <2>7. delivered[l] >= Cardinality(K)
    BY <2>1, <2>5, <2>6
  <2> QED BY <2>7 DEF K
<1> QED BY <1>2, <1>3 DEF EffectsKept

\* l[rt.signal], l[rt.exec], l[rt.write]: for every closure that has its try
\* blocks around barriers only, a signal, exec or write is carried out once for
\* each of its calls and once more at most for each crash; and an operation that
\* completes has delivered each signal of its closure as often as the closure makes
\* it, also when the closure was edited under it.  The bumps of rt.restart, which
\* every pass makes again, are counted at most once.
THEOREM EffectsOnce ==
  ASSUME CatchesBarriers, MaxBumps <= 1
  PROVE  Spec => []EffectsKept
<1>1. Init => IInv /\ Exact /\ Served /\ Bounded
  <2> SUFFICES ASSUME Init PROVE IInv /\ Exact /\ Served /\ Bounded
    OBVIOUS
  <2>1. /\ DOMAIN log = {} /\ pending = <<>> /\ Len(pending) = 0 /\ mode = "begin"
        /\ delivered = [l \in Literals |-> 0] /\ crashes = 0
    BY DEF Init
  <2>2. IInv /\ Exact
    BY <2>1, InitInv DEF Exact
  <2>3. \A l : Signals(log, pending, l) = {}
    BY <2>1 DEF Signals
  <2>4. Served
    BY <2>1, <2>3, FS_EmptySet DEF Served, Consistent
  <2>5. Types /\ Made \in Nat
    BY <2>2 DEF IInv, Types, Made
  <2>6. Bounded
    <3> SUFFICES ASSUME NEW l \in Literals
                 PROVE  delivered[l] <= Cardinality(EffectsAt(l)) * crashes
                                        + Cardinality(DoneAt(l, Made)) + Bumps(l)
      BY DEF Bounded
    <3>1. PICK c \in Nat : c = Cardinality(EffectsAt(l))
      BY <2>5, EffectsFinite
    <3>2. PICK y \in Nat : y = Cardinality(DoneAt(l, Made))
      BY <2>5, DoneFinite
    <3>3. PICK z \in {0, 1} : z = Bumps(l)
      BY <2>5, EffectsFinite
    <3>4. c * crashes = 0 /\ delivered[l] = 0
      BY <2>1
    <3>5. delivered[l] <= c * crashes + y + z
      BY <3>2, <3>3, <3>4
    <3> QED BY <3>1, <3>2, <3>3, <3>5
  <2> QED BY <2>2, <2>4, <2>6
<1>2. IInv /\ Exact /\ Served /\ Bounded /\ [Next]_vars => IInv' /\ Exact' /\ Served' /\ Bounded'
  <2> SUFFICES ASSUME IInv, Exact, Served, Bounded, [Next]_vars
               PROVE  IInv' /\ Exact' /\ Served' /\ Bounded'
    OBVIOUS
  <2>1. delivered \in [Literals -> Nat]
    BY DEF Served
  <2> QED BY <2>1, StepInv, StepExact, StepServed, StepBounded
<1>3. IInv /\ Bounded /\ Served => EffectsKept
  BY KeptFrom
<1> QED BY <1>1, <1>2, <1>3, PTL DEF Spec

-----------------------------------------------------------------------------
(* Barriers hold.                                                          *)

\* A stop with a deadline is the only one of its resources, and nobody waits for
\* a call over them to terminate: do_stop looks for the start of its wait among
\* all entries over the same resources.
OwnStops ==
  \A s \in Scripts : \A k, j \in 1..Len(s) :
    s[k].op = "stop" /\ s[k].dl # None =>
      /\ s[j].op = "stop" /\ s[j].res = s[k].res => j = k
      /\ s[j].op = "await" /\ s[j].state = "Terminated" => s[s[j].on].res # s[k].res

\* In closure c: the position of call k, the barriers on call o among the first n
\* calls, and how many of them come before barrier k.
IndexIn(c, k) == Cardinality({j \in 1..(k - 1) : Logged(c[j])})
Barriers(c, o, n) == {j \in 1..n : c[j].op = "await" /\ c[j].on = o}
Nth(c, k) == Cardinality(Barriers(c, c[k].on, k - 1))

\* Barrier q of the entry at position p, for the given state, is that of call k.
WaitSite(c, p, q, state, k) ==
  \/ /\ c[k].op = "await" /\ c[k].state = state
     /\ IndexIn(c, c[k].on) = p /\ Nth(c, k) = q
  \/ c[k].op = "stop" /\ state = "Terminated" /\ IndexIn(c, k) = p /\ q = 0

\* What is recorded of a barrier is known of its call: R are the calls whose
\* barriers were met or ran out, W how long ago they began to wait.
Held(b, k, R, W) == IF b.sat THEN k \in R ELSE k \in DOMAIN W /\ b.age <= W[k]
BarsOf(c, e, R, W) ==
  \A q \in DOMAIN e.bars : \E k \in Positions(c) :
    WaitSite(c, e.at, q, e.bars[q].state, k) /\ Held(e.bars[q], k, R, W)
Barred ==
  /\ waits \in Maps(Nat)
  /\ ~edited => /\ \A i \in DOMAIN log : BarsOf(script, log[i], resolved, waits)
                /\ \A j \in 1..Len(pending) : BarsOf(script, pending[j], resolved, waits)

\* An entry says that barrier k was met.
Met(c, e, k) ==
  /\ Nth(c, k) \in DOMAIN e.bars
  /\ e.bars[Nth(c, k)].state = c[k].state /\ e.bars[Nth(c, k)].sat

\* An entry of the pass says so of a barrier from call n on only if the log L does.
Fresh(c, L, e, n) ==
  \A k \in Positions(c) :
    /\ n <= k /\ c[k].op = "await" /\ IndexIn(c, c[k].on) = e.at /\ Met(c, e, k)
    => e.at \in DOMAIN L /\ Met(c, L[e.at], k)

SeqAt(S, i) == IF i \in DOMAIN S THEN S[i] ELSE 0
Numbered(c, S, n) ==
  \A o \in Positions(c) :
    Logged(c[o]) => SeqAt(S, IndexIn(c, o)) = Cardinality(Barriers(c, o, n))
Behind(c, n, R) == \A k \in 1..n : Awaiting(c[k]) => k \in R

\* Where a pass is: the anchors are at their positions, the barriers on each are
\* counted, and those behind were met or ran out.
Placed ==
  mode = "pass" =>
    /\ \A o \in DOMAIN origin : origin[o] = IndexIn(script, o)
    /\ \A j \in 1..Len(pending) : Fresh(script, log, pending[j], ip)
    /\ ~hit /\ ~token => /\ Numbered(script, seqs, ip - 1)
                         /\ ~edited => Behind(script, ip - 1, resolved)

LEMMA IndexIs == \A k : IndexOf(k) = IndexIn(script, k)
BY DEF IndexOf, IndexIn

LEMMA BarriersFinite ==
  ASSUME NEW o, NEW n \in Nat
  PROVE  IsFiniteSet(Barriers(script, o, n)) /\ Cardinality(Barriers(script, o, n)) \in Nat
<1>1. IsFiniteSet(1..n) /\ Barriers(script, o, n) \in SUBSET (1..n)
  BY FS_Interval DEF Barriers
<1> QED BY <1>1, FS_Subset, FS_CardinalityType

LEMMA BarriersNext ==
  ASSUME NEW o, NEW k \in Nat \ {0}
  PROVE  Cardinality(Barriers(script, o, k)) =
           Cardinality(Barriers(script, o, k - 1))
             + (IF script[k].op = "await" /\ script[k].on = o THEN 1 ELSE 0)
<1>1. 1..k = 1..(k - 1) \cup {k} /\ k \notin 1..(k - 1) /\ k - 1 \in Nat
  OBVIOUS
<1>2. Barriers(script, o, k) = IF script[k].op = "await" /\ script[k].on = o
                       THEN Barriers(script, o, k - 1) \cup {k} ELSE Barriers(script, o, k - 1)
  BY <1>1 DEF Barriers
<1>3. k \notin Barriers(script, o, k - 1)
  BY <1>1 DEF Barriers
<1>4. PICK S : S = Barriers(script, o, k - 1) /\ IsFiniteSet(S) /\ Cardinality(S) \in Nat
  BY <1>1, BarriersFinite
<1>5. Cardinality(S \cup {k}) = Cardinality(S) + 1
  BY <1>3, <1>4, FS_AddElement
<1> QED BY <1>2, <1>4, <1>5

\* Different barriers on one call have different numbers.
LEMMA NthOnce ==
  ASSUME NEW a \in Nat \ {0}, NEW b \in Nat \ {0}, script[a].op = "await", script[b].op = "await",
         script[a].on = script[b].on, Nth(script, a) = Nth(script, b)
  PROVE  a = b
<1>1. ASSUME NEW x \in Nat \ {0}, NEW y \in Nat \ {0}, x < y, script[x].op = "await",
             script[x].on = script[y].on
      PROVE  Nth(script, x) < Nth(script, y)
  <2>1. PICK o : o = script[x].on
    OBVIOUS
  <2>2. x - 1 \in Nat /\ y - 1 \in Nat /\ x \in Nat /\ 1..x \subseteq 1..(y - 1)
    BY <1>1
  <2>3. Barriers(script, o, x) \in SUBSET Barriers(script, o, y - 1)
    BY <2>2 DEF Barriers
  <2>4. Cardinality(Barriers(script, o, x)) <= Cardinality(Barriers(script, o, y - 1))
    BY <2>2, <2>3, BarriersFinite, FS_Subset
  <2>5. Cardinality(Barriers(script, o, x)) = Cardinality(Barriers(script, o, x - 1)) + 1
    BY <1>1, <2>1, BarriersNext
  <2>6. /\ Cardinality(Barriers(script, o, x - 1)) \in Nat /\ Cardinality(Barriers(script, o, y - 1)) \in Nat
    BY <2>2, BarriersFinite
  <2>7. Nth(script, x) = Cardinality(Barriers(script, o, x - 1)) /\ Nth(script, y) = Cardinality(Barriers(script, o, y - 1))
    BY <1>1, <2>1 DEF Nth
  <2> QED BY <2>4, <2>5, <2>6, <2>7
<1>2. Nth(script, a) \in Nat
  <2>1. a - 1 \in Nat
    OBVIOUS
  <2> QED BY <2>1, BarriersFinite DEF Nth
<1>3. ~(a < b) /\ ~(b < a)
  BY <1>1, <1>2
<1> QED BY <1>3

\* A barrier is on an earlier call that takes a position.
LEMMA AwaitAnchor ==
  ASSUME Types, NEW k \in Positions(script), script[k].op = "await"
  PROVE  /\ script[k].on \in Positions(script) /\ script[k].on \in Nat \ {0} /\ script[k].on < k
         /\ script[script[k].on].op \in Anchors /\ Logged(script[script[k].on])
         /\ ~script[script[k].on].catch
<1>1. script \in Scripts /\ k \in 1..Len(script) /\ Len(script) \in Nat
  BY ScriptsAssumption DEF Types, Positions
<1>2. script[k].on \in 1..(k - 1) /\ script[script[k].on].op \in Anchors
      /\ ~script[script[k].on].catch
  BY <1>1, ScriptsAssumption
<1> QED BY <1>1, <1>2 DEF Positions, Anchors, Logged

\* A barrier of an entry is that of one call only.
LEMMA WaitOnce ==
  ASSUME Types, NEW p, NEW q, NEW s, NEW t, NEW k \in Positions(script),
         NEW m \in Positions(script), WaitSite(script, p, q, s, k), WaitSite(script, p, q, t, m)
  PROVE  k = m
<1>1. k \in Nat \ {0} /\ m \in Nat \ {0}
  BY DEF Positions
<1>2. ASSUME NEW x \in Positions(script), NEW y \in Positions(script), script[x].op = "await",
             script[y].op = "stop", IndexIn(script, script[x].on) = IndexIn(script, y)
      PROVE  FALSE
  <2>1. /\ script[x].on \in Nat \ {0} /\ script[script[x].on].op \in Anchors
        /\ Logged(script[script[x].on])
    BY <1>2, AwaitAnchor
  <2>2. y \in Nat \ {0} /\ Logged(script[y])
    BY <1>2 DEF Positions, Logged
  <2>3. script[x].on = y
    BY <1>2, <2>1, <2>2, IndexIs, IndexOnce
  <2> QED BY <1>2, <2>1, <2>3 DEF Anchors
<1>3. CASE script[k].op = "await" /\ script[m].op = "await"
  <2>1. /\ IndexIn(script, script[k].on) = IndexIn(script, script[m].on) /\ Nth(script, k) = Nth(script, m)
    BY <1>3 DEF WaitSite
  <2>2. /\ script[k].on \in Nat \ {0} /\ Logged(script[script[k].on])
        /\ script[m].on \in Nat \ {0} /\ Logged(script[script[m].on])
    BY <1>3, AwaitAnchor
  <2>3. script[k].on = script[m].on
    BY <2>1, <2>2, IndexIs, IndexOnce
  <2> QED BY <1>1, <1>3, <2>1, <2>3, NthOnce
<1>4. CASE script[k].op = "stop" /\ script[m].op = "stop"
  BY <1>1, <1>4, IndexIs, IndexOnce DEF WaitSite, Logged
<1>5. CASE script[k].op = "await" /\ script[m].op = "stop"
  BY <1>2, <1>5 DEF WaitSite
<1>6. CASE script[k].op = "stop" /\ script[m].op = "await"
  BY <1>2, <1>6 DEF WaitSite
<1> QED BY <1>3, <1>4, <1>5, <1>6 DEF WaitSite

\* What is known of the barriers only grows.
Grows(R, W, R2, W2) ==
  /\ R \subseteq R2 /\ W \in Maps(Nat) /\ W2 \in Maps(Nat)
  /\ \A k \in DOMAIN W : k \in DOMAIN W2 /\ W[k] <= W2[k]

LEMMA MapAt ==
  ASSUME NEW V, NEW W \in Maps(V), NEW k \in DOMAIN W
  PROVE  W[k] \in V /\ k \in Nat
<1>1. PICK S \in SUBSET Nat : W \in [S -> V]
  BY DEF Maps
<1> QED BY <1>1

LEMMA BarAt ==
  ASSUME NEW e \in Entries, NEW q \in DOMAIN e.bars
  PROVE  /\ e.bars[q] \in BarRecord /\ e.bars[q].age \in Nat /\ e.bars[q].sat \in BOOLEAN
         /\ e.bars[q].state \in States /\ q \in Nat
<1>1. e.bars \in Maps(BarRecord)
  BY DEF Entries
<1>2. e.bars[q] \in BarRecord /\ q \in Nat
  BY <1>1, MapAt
<1> QED BY <1>2 DEF BarRecord

LEMMA HeldGrows ==
  ASSUME NEW b, b.age \in Nat, NEW k, NEW R, NEW W, NEW R2, NEW W2, Grows(R, W, R2, W2),
         Held(b, k, R, W)
  PROVE  Held(b, k, R2, W2)
<1>1. CASE b.sat
  BY <1>1 DEF Held, Grows
<1>2. CASE ~b.sat
  <2>1. k \in DOMAIN W /\ b.age <= W[k] /\ k \in DOMAIN W2 /\ W[k] <= W2[k]
    BY <1>2 DEF Held, Grows
  <2>2. W[k] \in Nat /\ W2[k] \in Nat
    BY <2>1, MapAt DEF Grows
  <2>3. b.age <= W2[k]
    BY <2>1, <2>2
  <2> QED BY <1>2, <2>1, <2>3 DEF Held
<1> QED BY <1>1, <1>2

LEMMA BarsGrow ==
  ASSUME NEW e \in Entries, NEW R, NEW W, NEW R2, NEW W2, Grows(R, W, R2, W2), BarsOf(script, e, R, W)
  PROVE  BarsOf(script, e, R2, W2)
<1> SUFFICES ASSUME NEW q \in DOMAIN e.bars
             PROVE  \E k \in Positions(script) :
                      WaitSite(script, e.at, q, e.bars[q].state, k) /\ Held(e.bars[q], k, R2, W2)
  BY DEF BarsOf
<1>1. PICK k \in Positions(script) :
        WaitSite(script, e.at, q, e.bars[q].state, k) /\ Held(e.bars[q], k, R, W)
  BY DEF BarsOf
<1>2. e.bars[q].age \in Nat
  BY BarAt
<1>3. PICK b : b = e.bars[q]
  OBVIOUS
<1>4. Held(b, k, R2, W2)
  BY <1>1, <1>2, <1>3, HeldGrows
<1> QED BY <1>1, <1>3, <1>4

LEMMA SetBars ==
  ASSUME NEW e \in Entries, NEW q \in Nat, NEW b \in BarRecord
  PROVE  /\ SetBarrier(e, q, b).at = e.at
         /\ DOMAIN SetBarrier(e, q, b).bars = DOMAIN e.bars \cup {q}
         /\ SetBarrier(e, q, b).bars[q] = b
         /\ \A x \in DOMAIN e.bars : x # q => SetBarrier(e, q, b).bars[x] = e.bars[x]
<1>1. SetBarrier(e, q, b) = [e EXCEPT !.bars = With(e.bars, q, b)]
  BY DEF SetBarrier
<1>2. SetBarrier(e, q, b).bars = With(e.bars, q, b) /\ SetBarrier(e, q, b).at = e.at
  BY <1>1 DEF Entries
<1> QED BY <1>2 DEF With

\* Recording a barrier of which what is recorded is known.
LEMMA SetBarsOf ==
  ASSUME NEW e \in Entries, NEW R, NEW W, NEW R2, NEW W2, Grows(R, W, R2, W2), BarsOf(script, e, R, W),
         NEW q \in Nat, NEW b \in BarRecord, NEW k \in Positions(script),
         WaitSite(script, e.at, q, b.state, k), Held(b, k, R2, W2)
  PROVE  BarsOf(script, SetBarrier(e, q, b), R2, W2)
<1>1. PICK f : f = SetBarrier(e, q, b)
  OBVIOUS
<1>2. /\ f.at = e.at /\ DOMAIN f.bars = DOMAIN e.bars \cup {q} /\ f.bars[q] = b
      /\ \A x \in DOMAIN e.bars : x # q => f.bars[x] = e.bars[x]
  BY <1>1, SetBars
<1>3. BarsOf(script, e, R2, W2)
  BY BarsGrow
<1>4. ASSUME NEW x \in DOMAIN f.bars
      PROVE  \E m \in Positions(script) :
               WaitSite(script, f.at, x, f.bars[x].state, m) /\ Held(f.bars[x], m, R2, W2)
  <2>1. CASE x = q
    BY <1>2, <2>1
  <2>2. CASE x # q
    <3>1. x \in DOMAIN e.bars /\ f.bars[x] = e.bars[x]
      BY <1>2, <2>2
    <3> QED BY <1>2, <1>3, <3>1 DEF BarsOf
  <2> QED BY <2>1, <2>2
<1> QED BY <1>1, <1>4 DEF BarsOf

LEMMA BarredNext ==
  ASSUME script' = script, waits' \in Maps(Nat),
         ~edited' => /\ \A i \in DOMAIN log' : BarsOf(script, log'[i], resolved', waits')
                     /\ \A j \in 1..Len(pending') : BarsOf(script, pending'[j], resolved', waits')
  PROVE  Barred'
BY DEF Barred

LEMMA PlacedNext ==
  ASSUME script' = script,
         mode' = "pass" =>
           /\ \A o \in DOMAIN origin' : origin'[o] = IndexIn(script, o)
           /\ \A j \in 1..Len(pending') : Fresh(script, log', pending'[j], ip')
           /\ ~hit' /\ ~token' => /\ Numbered(script, seqs', ip' - 1)
                                  /\ ~edited' => Behind(script, ip' - 1, resolved')
  PROVE  Placed'
BY DEF Placed

\* The pass goes on: what lay ahead lies ahead still.
LEMMA FreshOn ==
  ASSUME NEW e, NEW n \in Nat, Types, Fresh(script, log, e, n)
  PROVE  Fresh(script, log, e, n + 1)
<1>1. \A k \in Positions(script) : n + 1 <= k => n <= k
  BY DEF Positions
<1> QED BY <1>1 DEF Fresh

\* What record_at_anchor writes into an entry, and where.
RecOf(e, q, state, sat) ==
  SetBarrier(e, q, [state |-> state, sat |-> sat, age |-> KeptAge(Barrier(e, q), state, 0)])

LEMMA RecordShape ==
  ASSUME IInv, NEW i \in Nat, i < callIndex, NEW q, NEW state, NEW sat,
         RecordAtAnchor(i, q, state, sat)
  PROVE  \/ /\ Len(pending') = Len(pending)
            /\ \A k \in 1..Len(pending) :
                 pending'[k] = IF pending[k].at = i THEN RecOf(pending[k], q, state, sat)
                               ELSE pending[k]
         \/ i \in DOMAIN log /\ pending' = Append(pending, RecOf(log[i], q, state, sat))
<1>1. pending' = IF PendingAt(i) # {}
                 THEN [k \in 1..Len(pending) |->
                        IF k \in PendingAt(i) THEN RecOf(pending[k], q, state, sat) ELSE pending[k]]
                 ELSE Append(pending, RecOf(log[i], q, state, sat))
  BY DEF RecordAtAnchor, RecOf
<1>2. pending \in Seq(Entries) /\ Len(pending) \in Nat
  BY DEF IInv, Types
<1>3. CASE PendingAt(i) # {}
  <2>1. pending' = [k \in 1..Len(pending) |->
                     IF k \in PendingAt(i) THEN RecOf(pending[k], q, state, sat) ELSE pending[k]]
    BY <1>1, <1>3
  <2>2. Len(pending') = Len(pending)
    BY <1>2, <2>1
  <2> QED BY <2>1, <2>2 DEF PendingAt
<1>4. CASE PendingAt(i) = {}
  <2>1. \A j \in 1..Len(pending) : pending[j].at # i
    BY <1>4 DEF PendingAt
  <2>2. i < LogLength
    BY <2>1 DEF IInv, Types, Ordered, Covers
  <2>3. i \in DOMAIN log
    BY <2>2, CommittedAt DEF IInv
  <2> QED BY <1>1, <1>4, <2>3
<1> QED BY <1>3, <1>4

\* The barrier the closure is at: where its record is.
AtBarrier(i, q) ==
  /\ mode = "pass" /\ ip \in Positions(script) /\ Call.op = "await"
  /\ i \in Nat /\ i < callIndex /\ i = IndexIn(script, Call.on)
  /\ q \in Nat /\ q = Nth(script, ip)

LEMMA BarrierPlace ==
  ASSUME IInv, Placed, Calls({"await"}), ~hit, ~token
  PROVE  AtBarrier(origin[Call.on], SeqAt(seqs, origin[Call.on]))
<1>1. mode = "pass" /\ ip \in Positions(script) /\ script[ip].op = "await" /\ Call = script[ip]
  BY DEF Calls, Call
<1>2. /\ script[ip].on \in Positions(script) /\ script[ip].on \in Nat \ {0} /\ script[ip].on < ip
      /\ script[script[ip].on].op \in Anchors /\ Logged(script[script[ip].on])
      /\ ~script[script[ip].on].catch
  BY <1>1, AwaitAnchor DEF IInv
<1>3. ip \in Nat \ {0} /\ script[ip].on \in 1..(ip - 1)
  BY <1>2 DEF IInv, Types
<1>4. script[ip].on \in DOMAIN origin
  BY <1>1, <1>2, <1>3 DEF IInv, Anchored
<1>5. origin[script[ip].on] \in Nat /\ origin[script[ip].on] < callIndex
  <2>1. origin \in Maps(Nat)
    BY DEF IInv, Types
  <2> QED BY <1>4, <2>1, MapAt DEF IInv, Anchored
<1>6. origin[script[ip].on] = IndexIn(script, script[ip].on)
  BY <1>1, <1>4 DEF Placed
<1>7. Numbered(script, seqs, ip - 1)
  BY <1>1 DEF Placed
<1>8. SeqAt(seqs, IndexIn(script, script[ip].on)) = Cardinality(Barriers(script, script[ip].on, ip - 1))
  BY <1>2, <1>7 DEF Numbered
<1>9. ip - 1 \in Nat
  BY <1>3
<1>10. Cardinality(Barriers(script, script[ip].on, ip - 1)) \in Nat
  BY <1>9, BarriersFinite
<1> QED BY <1>1, <1>5, <1>6, <1>8, <1>10 DEF AtBarrier, Nth

\* Writing down a barrier that the closure is at.
LEMMA RecHeld ==
  ASSUME Types, NEW i, NEW q, AtBarrier(i, q), NEW e \in Entries, e.at = i,
         NEW sat \in BOOLEAN, NEW R2, NEW W2, waits \in Maps(Nat),
         Grows(resolved, waits, R2, W2), BarsOf(script, e, resolved, waits),
         sat => ip \in R2,
         ~sat => ip \in DOMAIN W2 /\ ~Met(script, e, ip)
  PROVE  BarsOf(script, RecOf(e, q, Call.state, sat), R2, W2)
<1>1. PICK s : s = Call.state /\ s = script[ip].state /\ s \in States
  BY CallType DEF AtBarrier, Call
<1>2. WaitSite(script, i, q, s, ip) /\ ip \in Positions(script) /\ q \in Nat
  BY <1>1 DEF WaitSite, AtBarrier, Call
<1>3. PICK a : a = KeptAge(Barrier(e, q), s, 0)
  OBVIOUS
<1>4. a \in Nat
  BY <1>2, <1>3, BarrierType DEF KeptAge, BarRecord
<1>5. PICK b : b = [state |-> s, sat |-> sat, age |-> a]
  OBVIOUS
<1>6. b \in BarRecord /\ b.state = s /\ b.sat = sat /\ b.age = a
  BY <1>1, <1>4, <1>5 DEF BarRecord
<1>7. Held(b, ip, R2, W2)
  <2>1. CASE sat
    BY <1>6, <2>1 DEF Held
  <2>2. CASE ~sat
    <3>1. ip \in DOMAIN W2 /\ W2[ip] \in Nat
      BY <2>2, MapAt DEF Grows
    <3>2. a <= W2[ip]
      <4>1. CASE a = 0
        BY <3>1, <4>1
      <4>2. CASE a # 0
        <5>1. Barrier(e, q) # None /\ Barrier(e, q).state = s /\ a = Barrier(e, q).age
          BY <1>3, <4>2 DEF KeptAge
        <5>2. q \in DOMAIN e.bars /\ Barrier(e, q) = e.bars[q]
          BY <1>2, <5>1, BarrierType
        <5>3. ~e.bars[q].sat
          BY <1>1, <2>2, <5>1, <5>2 DEF Met, AtBarrier
        <5>4. PICK k \in Positions(script) :
                WaitSite(script, e.at, q, e.bars[q].state, k) /\ Held(e.bars[q], k, resolved, waits)
          BY <5>2 DEF BarsOf
        <5>5. k = ip
          BY <1>2, <5>1, <5>2, <5>4, WaitOnce
        <5>6. ip \in DOMAIN waits /\ a <= waits[ip]
          BY <5>1, <5>2, <5>3, <5>4, <5>5 DEF Held
        <5>7. waits[ip] \in Nat /\ waits[ip] <= W2[ip]
          BY <5>6, MapAt DEF Grows
        <5> QED BY <1>4, <3>1, <5>6, <5>7
      <4> QED BY <4>1, <4>2
    <3> QED BY <1>6, <2>2, <3>1, <3>2 DEF Held
  <2> QED BY <2>1, <2>2
<1>8. RecOf(e, q, Call.state, sat) = SetBarrier(e, q, b)
  BY <1>1, <1>3, <1>5 DEF RecOf
<1>9. BarsOf(script, SetBarrier(e, q, b), R2, W2)
  BY <1>2, <1>6, <1>7, SetBarsOf
<1> QED BY <1>8, <1>9

\* It says nothing new of the barriers ahead.
LEMMA RecAhead ==
  ASSUME Types, NEW i, NEW q, AtBarrier(i, q), NEW e \in Entries, e.at = i,
         NEW sat \in BOOLEAN, NEW k \in Positions(script), ip < k, script[k].op = "await",
         IndexIn(script, script[k].on) = i,
         Met(script, RecOf(e, q, Call.state, sat), k)
  PROVE  Met(script, e, k)
<1>1. PICK b : b = [state |-> Call.state, sat |-> sat, age |-> KeptAge(Barrier(e, q), Call.state, 0)]
  OBVIOUS
<1>2. b \in BarRecord /\ q \in Nat
  <2>1. Call.state \in States /\ q \in Nat
    BY CallType DEF AtBarrier, Call
  <2>2. KeptAge(Barrier(e, q), Call.state, 0) \in Nat
    BY <2>1, BarrierType DEF KeptAge, BarRecord
  <2> QED BY <1>1, <2>1, <2>2 DEF BarRecord
<1>3. PICK f : f = SetBarrier(e, q, b)
  OBVIOUS
<1>4. /\ f.at = e.at /\ DOMAIN f.bars = DOMAIN e.bars \cup {q}
      /\ \A x \in DOMAIN e.bars : x # q => f.bars[x] = e.bars[x]
  BY <1>2, <1>3, SetBars
<1>5. script[ip].on = script[k].on
  <2>1. /\ script[ip].on \in Nat \ {0} /\ Logged(script[script[ip].on])
        /\ script[k].on \in Nat \ {0} /\ Logged(script[script[k].on])
    BY AwaitAnchor DEF AtBarrier, Call
  <2>2. IndexIn(script, script[ip].on) = IndexIn(script, script[k].on)
    BY DEF AtBarrier, Call
  <2> QED BY <2>1, <2>2, IndexIs, IndexOnce
<1>6. Nth(script, k) # q
  <2>1. ip \in Nat \ {0} /\ k \in Nat \ {0} /\ ip # k
    BY DEF Types, Positions
  <2> QED BY <1>5, <2>1, NthOnce DEF AtBarrier, Call
<1>7. Met(script, f, k)
  <2>1. f = RecOf(e, q, Call.state, sat)
    BY <1>1, <1>3 DEF RecOf
  <2> QED BY <2>1
<1> QED BY <1>4, <1>6, <1>7 DEF Met

LEMMA NumberedAwait ==
  ASSUME Types, NEW i, NEW q, AtBarrier(i, q), q = SeqAt(seqs, i),
         Numbered(script, seqs, ip - 1)
  PROVE  Numbered(script, With(seqs, i, q + 1), ip)
<1> SUFFICES ASSUME NEW o \in Positions(script), Logged(script[o])
             PROVE  SeqAt(With(seqs, i, q + 1), IndexIn(script, o)) = Cardinality(Barriers(script, o, ip))
  BY DEF Numbered
<1>1. ip \in Nat \ {0} /\ ip - 1 \in Nat /\ o \in Nat \ {0} /\ script[ip].op = "await"
  BY DEF Types, Positions, AtBarrier, Call
<1>2. SeqAt(seqs, IndexIn(script, o)) = Cardinality(Barriers(script, o, ip - 1))
  BY DEF Numbered
<1>3. Cardinality(Barriers(script, o, ip - 1)) \in Nat
  BY <1>1, BarriersFinite
<1>4. Cardinality(Barriers(script, o, ip)) =
           Cardinality(Barriers(script, o, ip - 1))
             + (IF script[ip].op = "await" /\ script[ip].on = o THEN 1 ELSE 0)
  BY <1>1, BarriersNext
<1>5. CASE script[ip].on = o
  <2>1. IndexIn(script, o) = i
    BY <1>5 DEF AtBarrier, Call
  <2>2. SeqAt(With(seqs, i, q + 1), i) = q + 1
    BY DEF SeqAt, With
  <2> QED BY <1>1, <1>2, <1>4, <1>5, <2>1, <2>2
<1>6. CASE script[ip].on # o
  <2>1. script[ip].on \in Nat \ {0} /\ Logged(script[script[ip].on])
    BY <1>1, AwaitAnchor DEF AtBarrier
  <2>2. IndexIn(script, o) # i
    BY <1>1, <1>6, <2>1, IndexIs, IndexOnce DEF AtBarrier, Call
  <2>3. SeqAt(With(seqs, i, q + 1), IndexIn(script, o)) = SeqAt(seqs, IndexIn(script, o))
    BY <2>2 DEF SeqAt, With
  <2> QED BY <1>2, <1>3, <1>4, <1>6, <2>3
<1> QED BY <1>5, <1>6

LEMMA BehindNext ==
  ASSUME Types, NEW R, Behind(script, ip - 1, resolved), resolved \subseteq R,
         Awaiting(script[ip]) => ip \in R
  PROVE  Behind(script, ip, R)
<1>1. ip \in Nat \ {0} /\ \A k \in 1..ip : k = ip \/ k \in 1..(ip - 1)
  BY DEF Types
<1> QED BY <1>1 DEF Behind

\* What check_barrier may do.
Believes(i) ==
  /\ i \in DOMAIN log /\ Met(script, log[i], ip)
  /\ Proceed /\ UNCHANGED <<pending, hit, resolved, waits>>
Meets(i, q) ==
  /\ HasReached(Call.res, Call.state)
  /\ RecordAtAnchor(i, q, Call.state, TRUE)
  /\ resolved' = resolved \cup {ip} /\ Proceed /\ UNCHANGED <<hit, waits>>
RunsOut(i, q) ==
  /\ ~HasReached(Call.res, Call.state)
  /\ AnchorRecord(i, q) # None /\ AnchorRecord(i, q).state = Call.state /\ ~AnchorRecord(i, q).sat
  /\ Expired(Call.dl, AnchorRecord(i, q).age)
  /\ resolved' = resolved \cup {ip} /\ UNCHANGED <<pending, hit, waits>>
Holds(i, q) ==
  /\ ~(i \in DOMAIN log /\ Met(script, log[i], ip))
  /\ RecordAtAnchor(i, q, Call.state, FALSE)
  /\ hit' = TRUE /\ resolved' = resolved
  /\ waits' = IF ip \in DOMAIN waits THEN waits ELSE With(waits, ip, 0)

LEMMA AwaitKinds ==
  ASSUME IInv, Placed, Await, ~hit, ~token
  PROVE  \E i, q : /\ AtBarrier(i, q) /\ q = SeqAt(seqs, i) /\ seqs' = With(seqs, i, q + 1)
                   /\ \/ Believes(i) \/ Meets(i, q) \/ RunsOut(i, q) \/ Holds(i, q)
<1> DEFINE i == origin[Call.on]
           q == SeqAt(seqs, i)
           said == IF i \in DOMAIN log THEN Barrier(log[i], q) ELSE None
           own == AnchorRecord(i, q)
           believed == said # None /\ said.state = Call.state /\ said.sat
           waited == own # None /\ own.state = Call.state /\ ~own.sat
<1>1. CheckBarrier(Call)
  BY DEF Await, HitPending
<1>2. AtBarrier(i, q)
  BY BarrierPlace DEF Await
<1>3. /\ seqs' = With(seqs, i, q + 1)
      /\ \/ believed /\ Proceed /\ UNCHANGED <<pending, hit, resolved, waits>>
         \/ /\ ~believed
            /\ \/ /\ HasReached(Call.res, Call.state)
                  /\ RecordAtAnchor(i, q, Call.state, TRUE)
                  /\ resolved' = resolved \cup {ip}
                  /\ Proceed /\ UNCHANGED <<hit, waits>>
               \/ /\ ~HasReached(Call.res, Call.state) /\ waited /\ Expired(Call.dl, own.age)
                  /\ resolved' = resolved \cup {ip}
                  /\ UNCHANGED <<pending, hit, waits>>
               \/ /\ RecordAtAnchor(i, q, Call.state, FALSE)
                  /\ hit' = TRUE
                  /\ waits' = IF ip \in DOMAIN waits THEN waits ELSE With(waits, ip, 0)
                  /\ resolved' = resolved
  BY <1>1 DEF CheckBarrier, SeqAt
<1>4. believed <=> i \in DOMAIN log /\ Met(script, log[i], ip)
  <2>1. q = Nth(script, ip) /\ Call = script[ip]
    BY <1>2 DEF AtBarrier, Call
  <2> HIDE DEF i, q
  <2>2. i \in DOMAIN log /\ q \in DOMAIN log[i].bars => log[i].bars[q] # None
    <3>1. \A x \in DOMAIN log : log[x] \in Entries
      BY DEF IInv, Types
    <3>2. i \in DOMAIN log /\ q \in DOMAIN log[i].bars => log[i].bars[q] \in BarRecord
      BY <3>1, BarAt
    <3> QED BY <3>2, NoneAssumption DEF BarRecord
  <2> QED BY <2>1, <2>2 DEF Met, Barrier
<1> HIDE DEF i, q
<1> QED BY <1>2, <1>3, <1>4, Zenon DEF Believes, Meets, RunsOut, Holds, q

LEMMA NewWait ==
  ASSUME NEW W \in Maps(Nat), NEW k \in Nat
  PROVE  /\ With(W, k, 0) \in Maps(Nat) /\ DOMAIN With(W, k, 0) = DOMAIN W \cup {k}
         /\ \A y \in DOMAIN W \cup {k} : With(W, k, 0)[y] = IF y = k THEN 0 ELSE W[y]
<1>1. PICK S \in SUBSET Nat : W \in [S -> Nat]
  BY DEF Maps
<1>2. S \cup {k} \in SUBSET Nat
  OBVIOUS
<1>3. With(W, k, 0) \in [S \cup {k} -> Nat]
  BY <1>1 DEF With
<1>4. With(W, k, 0) \in Maps(Nat)
  BY <1>2, <1>3 DEF Maps
<1> QED BY <1>1, <1>4 DEF With

\* A wait that begins, or goes on.
LEMMA WaitBegins ==
  ASSUME Barred, ip \in Nat, resolved' = resolved,
         waits' = IF ip \in DOMAIN waits THEN waits ELSE With(waits, ip, 0)
  PROVE  Grows(resolved, waits, resolved', waits') /\ ip \in DOMAIN waits'
<1>0. waits \in Maps(Nat) /\ ip \in Nat
  BY DEF Barred
<1>1. waits \in Maps(Nat) /\ \A k \in DOMAIN waits : waits[k] \in Nat
  BY MapAt DEF Barred
<1>2. CASE ip \in DOMAIN waits
  BY <1>1, <1>2 DEF Grows
<1>3. CASE ip \notin DOMAIN waits
  <2>1. /\ With(waits, ip, 0) \in Maps(Nat) /\ DOMAIN With(waits, ip, 0) = DOMAIN waits \cup {ip}
        /\ \A y \in DOMAIN waits \cup {ip} :
             With(waits, ip, 0)[y] = IF y = ip THEN 0 ELSE waits[y]
    BY <1>0, NewWait
  <2>2. PICK W : W = With(waits, ip, 0) /\ waits' = W
    BY <1>3
  <2>3. \A k \in DOMAIN waits : k \in DOMAIN W /\ W[k] = waits[k]
    BY <1>3, <2>1, <2>2
  <2>4. \A k \in DOMAIN waits : k \in DOMAIN W /\ waits[k] <= W[k]
    BY <1>1, <2>3
  <2> QED BY <1>1, <2>1, <2>2, <2>4 DEF Grows
<1> QED BY <1>2, <1>3

\* Entries of the pass that were known and are left alone, or get one more.
LEMMA BarredAppend ==
  ASSUME IInv, Barred, UNCHANGED <<script, log, edited>>, NEW e, pending' = Append(pending, e),
         Grows(resolved, waits, resolved', waits'),
         ~edited => BarsOf(script, e, resolved', waits')
  PROVE  Barred'
<1>1. pending \in Seq(Entries) /\ Len(pending) \in Nat
      /\ \A j \in 1..Len(pending) : pending[j] \in Entries
  BY DEF IInv, Types
<1>2. /\ Len(pending') = Len(pending) + 1
      /\ \A j \in 1..Len(pending') : pending'[j] = IF j = Len(pending) + 1 THEN e ELSE pending[j]
  BY <1>1
<1>3. \A i \in DOMAIN log : log[i] \in Entries
  BY DEF IInv, Types
<1>4. ASSUME ~edited
      PROVE  /\ \A i \in DOMAIN log : BarsOf(script, log[i], resolved', waits')
             /\ \A j \in 1..Len(pending) : BarsOf(script, pending[j], resolved', waits')
    <2>1. \A i \in DOMAIN log : BarsOf(script, log[i], resolved', waits')
      BY <1>3, <1>4, BarsGrow DEF Barred
    <2>2. \A j \in 1..Len(pending) : BarsOf(script, pending[j], resolved', waits')
      BY <1>1, <1>4, BarsGrow DEF Barred
    <2> QED BY <2>1, <2>2
<1>5. ASSUME ~edited, NEW j \in 1..Len(pending')
      PROVE  BarsOf(script, pending'[j], resolved', waits')
  BY <1>1, <1>2, <1>4, <1>5
<1>6. waits' \in Maps(Nat)
  BY DEF Grows
<1> QED BY <1>4, <1>5, <1>6, BarredNext

LEMMA BarredStays ==
  ASSUME IInv, Barred, UNCHANGED <<script, log, edited, pending>>,
         Grows(resolved, waits, resolved', waits')
  PROVE  Barred'
<1>1. \A j \in 1..Len(pending) : pending[j] \in Entries
  BY DEF IInv, Types
<1>2. \A i \in DOMAIN log : log[i] \in Entries
  BY DEF IInv, Types
<1>3. ASSUME ~edited
      PROVE  \A i \in DOMAIN log : BarsOf(script, log[i], resolved', waits')
  BY <1>2, <1>3, BarsGrow DEF Barred
<1>4. ASSUME ~edited
      PROVE  \A j \in 1..Len(pending) : BarsOf(script, pending[j], resolved', waits')
  BY <1>1, <1>4, BarsGrow DEF Barred
<1>5. waits' \in Maps(Nat)
  BY DEF Grows
<1> QED BY <1>3, <1>4, <1>5, BarredNext

\* record_at_anchor keeps the records known and the barriers ahead fresh.
LEMMA RecordBarred ==
  ASSUME IInv, Barred, Placed, UNCHANGED <<script, log, edited>>, NEW i, NEW q, AtBarrier(i, q),
         NEW sat \in BOOLEAN, RecordAtAnchor(i, q, Call.state, sat),
         Grows(resolved, waits, resolved', waits'),
         sat => ip \in resolved',
         ~sat => ip \in DOMAIN waits' /\ ~(i \in DOMAIN log /\ Met(script, log[i], ip))
  PROVE  /\ Barred'
         /\ \A j \in 1..Len(pending') : Fresh(script, log, pending'[j], ip + 1)
<1>1. pending \in Seq(Entries) /\ Len(pending) \in Nat /\ Types
      /\ \A j \in 1..Len(pending) : pending[j] \in Entries
  BY DEF IInv, Types
<1>2. \A x \in DOMAIN log : log[x] \in Entries /\ log[x].at = x
  BY DEF IInv, Types
<1>3. waits \in Maps(Nat) /\ ip \in Nat
  BY DEF Barred, IInv, Types
<1>4. \A j \in 1..Len(pending) : Fresh(script, log, pending[j], ip)
  BY DEF Placed, AtBarrier
<1>5. PICK st : st = Call.state
  OBVIOUS
<1>6. i \in Nat /\ i < callIndex /\ ip \in Positions(script) /\ script[ip].op = "await"
      /\ i = IndexIn(script, script[ip].on)
  BY DEF AtBarrier, Call
<1>7. ASSUME ~edited, NEW e \in Entries, e.at = i, BarsOf(script, e, resolved, waits),
             Fresh(script, log, e, ip) \/ (i \in DOMAIN log /\ e = log[i])
      PROVE  BarsOf(script, RecOf(e, q, st, sat), resolved', waits')
  <2>1. Met(script, e, ip) => i \in DOMAIN log /\ Met(script, log[i], ip)
    BY <1>3, <1>6, <1>7 DEF Fresh
  <2>2. ~sat => ip \in DOMAIN waits' /\ ~Met(script, e, ip)
    BY <2>1
  <2>3. PICK R2, W2 : R2 = resolved' /\ W2 = waits'
    OBVIOUS
  <2>4. Grows(resolved, waits, R2, W2) /\ (sat => ip \in R2)
        /\ (~sat => ip \in DOMAIN W2 /\ ~Met(script, e, ip))
    BY <2>2, <2>3
  <2>5. BarsOf(script, RecOf(e, q, Call.state, sat), R2, W2)
    BY <1>1, <1>3, <1>7, <2>4, RecHeld
  <2> QED BY <1>5, <2>3, <2>5
<1>8. ASSUME NEW e \in Entries, e.at = i,
             Fresh(script, log, e, ip) \/ (i \in DOMAIN log /\ e = log[i])
      PROVE  Fresh(script, log, RecOf(e, q, st, sat), ip + 1)
  <2>1. RecOf(e, q, st, sat).at = i
    BY <1>8 DEF RecOf, SetBarrier, Entries
  <2> SUFFICES ASSUME NEW k \in Positions(script), ip + 1 <= k, script[k].op = "await",
                      IndexIn(script, script[k].on) = i, Met(script, RecOf(e, q, st, sat), k)
               PROVE  i \in DOMAIN log /\ Met(script, log[i], k)
    BY <2>1 DEF Fresh
  <2>2. ip < k /\ ip <= k
    BY <1>3 DEF Positions
  <2>3. Met(script, e, k)
    BY <1>1, <1>5, <1>8, <2>2, RecAhead
  <2> QED BY <1>8, <2>2, <2>3 DEF Fresh
<1>9. CASE /\ Len(pending') = Len(pending)
           /\ \A k \in 1..Len(pending) :
                pending'[k] = IF pending[k].at = i THEN RecOf(pending[k], q, st, sat)
                              ELSE pending[k]
  <2>1. ASSUME ~edited, NEW k \in 1..Len(pending')
        PROVE  BarsOf(script, pending'[k], resolved', waits')
    <3>1. k \in 1..Len(pending) /\ pending[k] \in Entries /\ BarsOf(script, pending[k], resolved, waits)
      BY <1>1, <1>9, <2>1 DEF Barred
    <3>2. CASE pending[k].at = i
      BY <1>4, <1>7, <1>9, <2>1, <3>1, <3>2
    <3>3. CASE pending[k].at # i
      BY <1>9, <3>1, <3>3, BarsGrow
    <3> QED BY <3>2, <3>3
  <2>2. ASSUME NEW k \in 1..Len(pending')
        PROVE  Fresh(script, log, pending'[k], ip + 1)
    <3>1. k \in 1..Len(pending) /\ pending[k] \in Entries
      BY <1>1, <1>9
    <3>2. CASE pending[k].at = i
      BY <1>4, <1>8, <1>9, <3>1, <3>2
    <3>3. CASE pending[k].at # i
      BY <1>1, <1>3, <1>4, <1>9, <3>1, <3>3, FreshOn
    <3> QED BY <3>2, <3>3
  <2>3. ASSUME ~edited
        PROVE  \A x \in DOMAIN log : BarsOf(script, log[x], resolved', waits')
    BY <1>2, <2>3, BarsGrow DEF Barred
  <2>4. waits' \in Maps(Nat)
    BY DEF Grows
  <2>5. Barred'
    BY <2>1, <2>3, <2>4, BarredNext
  <2> QED BY <2>2, <2>5
<1>10. CASE i \in DOMAIN log /\ pending' = Append(pending, RecOf(log[i], q, st, sat))
  <2>1. PICK f : f = RecOf(log[i], q, st, sat)
    OBVIOUS
  <2>2. log[i] \in Entries /\ log[i].at = i /\ pending' = Append(pending, f)
    BY <1>2, <1>10, <2>1
  <2>3. Fresh(script, log, f, ip + 1)
    BY <1>8, <1>10, <2>1, <2>2
  <2>4. ~edited => BarsOf(script, f, resolved', waits')
    BY <1>7, <1>10, <2>1, <2>2 DEF Barred
  <2>5. Barred'
    BY <2>2, <2>4, BarredAppend
  <2>6. /\ Len(pending') = Len(pending) + 1
        /\ \A j \in 1..Len(pending') : pending'[j] = IF j = Len(pending) + 1 THEN f ELSE pending[j]
    BY <1>1, <2>2
  <2>7. \A j \in 1..Len(pending) : Fresh(script, log, pending[j], ip + 1)
    BY <1>1, <1>3, <1>4, FreshOn
  <2>8. \A j \in 1..Len(pending') : Fresh(script, log, pending'[j], ip + 1)
    BY <1>1, <2>3, <2>6, <2>7
  <2> QED BY <2>5, <2>8
<1> QED BY <1>5, <1>6, <1>9, <1>10, RecordShape

LEMMA AwaitBarred ==
  ASSUME IInv, Barred, Placed, Await
  PROVE  Barred' /\ Placed'
<1>1. /\ mode = "pass" /\ ip \in Positions(script) /\ script[ip].op = "await" /\ Types
      /\ UNCHANGED <<script, log, edited, origin, token>>
      /\ ip \in Nat \ {0}
  BY DEF Await, Calls, Call, durable, cancel, IInv, Types
<1>2. mode' = "pass" => ip' = ip + 1
  BY <1>1, AwaitCall DEF CallStep, Moving
<1>3. \A o \in DOMAIN origin' : origin'[o] = IndexIn(script, o)
  BY <1>1 DEF Placed
<1>4. \A j \in 1..Len(pending) : Fresh(script, log, pending[j], ip + 1)
  BY <1>1, FreshOn DEF Placed
<1>5. waits \in Maps(Nat)
  BY DEF Barred
<1>6. Grows(resolved, waits, resolved, waits) /\ Grows(resolved, waits, resolved \cup {ip}, waits)
  <2>1. \A k \in DOMAIN waits : waits[k] <= waits[k]
    BY <1>5, MapAt
  <2> QED BY <1>5, <2>1 DEF Grows
<1>7. CASE hit \/ token
  <2>1. UNCHANGED <<pending, seqs, hit, resolved, waits>>
    BY <1>7 DEF Await, HitPending
  <2>2. Barred'
    BY <1>1, <1>6, <2>1, BarredStays
  <2>3. \A j \in 1..Len(pending') : Fresh(script, log, pending'[j], ip + 1)
    BY <1>4, <2>1
  <2>4. Placed'
    BY <1>1, <1>2, <1>3, <1>7, <2>1, <2>3, PlacedNext
  <2> QED BY <2>2, <2>4
<1>8. CASE ~hit /\ ~token
  <2>1. PICK i, q : /\ AtBarrier(i, q) /\ q = SeqAt(seqs, i) /\ seqs' = With(seqs, i, q + 1)
                    /\ \/ Believes(i) \/ Meets(i, q) \/ RunsOut(i, q) \/ Holds(i, q)
    BY <1>8, AwaitKinds
  <2>2. Numbered(script, seqs, ip - 1) /\ (~edited => Behind(script, ip - 1, resolved))
    BY <1>1, <1>8 DEF Placed
  <2>3. Numbered(script, seqs', ip)
    BY <1>1, <2>1, <2>2, NumberedAwait
  <2>4. ASSUME \A j \in 1..Len(pending') : Fresh(script, log, pending'[j], ip + 1),
               hit' \/ (resolved \subseteq resolved' /\ (~edited => ip \in resolved'))
        PROVE  Placed'
    <3>1. ip + 1 - 1 = ip
      BY <1>1
    <3>2. ~hit' /\ ~edited => Behind(script, ip, resolved')
      BY <1>1, <2>2, <2>4, BehindNext
    <3> QED BY <1>1, <1>2, <1>3, <2>3, <2>4, <3>1, <3>2, PlacedNext
  <2>5. CASE Believes(i)
    <3>1. UNCHANGED <<pending, hit, resolved, waits>> /\ i \in DOMAIN log /\ Met(script, log[i], ip)
      BY <2>5 DEF Believes
    <3>2. Barred'
      BY <1>1, <1>6, <3>1, BarredStays
    <3>3. ASSUME ~edited PROVE ip \in resolved
      <4>1. /\ q \in DOMAIN log[i].bars /\ log[i].bars[q].state = script[ip].state /\ log[i].bars[q].sat
            /\ log[i].at = i
        BY <2>1, <3>1 DEF Met, AtBarrier, IInv, Types
      <4>2. PICK k \in Positions(script) :
              WaitSite(script, i, q, log[i].bars[q].state, k) /\ Held(log[i].bars[q], k, resolved, waits)
        BY <3>1, <3>3, <4>1 DEF Barred, BarsOf
      <4>3. WaitSite(script, i, q, script[ip].state, ip)
        BY <1>1, <2>1 DEF WaitSite, AtBarrier, Call
      <4>4. k = ip
        BY <1>1, <4>2, <4>3, WaitOnce
      <4> QED BY <4>1, <4>2, <4>4 DEF Held
    <3>4. Placed'
      BY <1>4, <2>4, <3>1, <3>3
    <3> QED BY <3>2, <3>4
  <2>6. CASE Meets(i, q)
    <3>1. /\ RecordAtAnchor(i, q, Call.state, TRUE) /\ resolved' = resolved \cup {ip}
          /\ UNCHANGED <<hit, waits>>
      BY <2>6 DEF Meets
    <3>2. Grows(resolved, waits, resolved', waits') /\ ip \in resolved'
      BY <1>6, <3>1
    <3>3. Barred' /\ \A j \in 1..Len(pending') : Fresh(script, log, pending'[j], ip + 1)
      BY <1>1, <2>1, <3>1, <3>2, RecordBarred
    <3>4. Placed'
      BY <2>4, <3>1, <3>3
    <3> QED BY <3>3, <3>4
  <2>7. CASE RunsOut(i, q)
    <3>1. resolved' = resolved \cup {ip} /\ UNCHANGED <<pending, hit, waits>>
      BY <2>7 DEF RunsOut
    <3>2. Barred'
      BY <1>1, <1>6, <3>1, BarredStays
    <3>3. Placed'
      BY <1>4, <2>4, <3>1
    <3> QED BY <3>2, <3>3
  <2>8. CASE Holds(i, q)
    <3>1. /\ ~(i \in DOMAIN log /\ Met(script, log[i], ip))
          /\ RecordAtAnchor(i, q, Call.state, FALSE)
          /\ hit' = TRUE /\ resolved' = resolved
          /\ waits' = IF ip \in DOMAIN waits THEN waits ELSE With(waits, ip, 0)
      BY <2>8 DEF Holds
    <3>2. Grows(resolved, waits, resolved', waits') /\ ip \in DOMAIN waits'
      BY <1>1, <3>1, WaitBegins
    <3>3. Barred' /\ \A j \in 1..Len(pending') : Fresh(script, log, pending'[j], ip + 1)
      BY <1>1, <2>1, <3>1, <3>2, RecordBarred
    <3>4. Placed'
      BY <2>4, <3>1, <3>3
    <3> QED BY <3>3, <3>4
  <2> QED BY <2>1, <2>5, <2>6, <2>7, <2>8
<1> QED BY <1>7, <1>8, <1>1 DEF Types

\* A pass goes on after a call that is no barrier on an earlier one.
LEMMA PlacedCall ==
  ASSUME IInv, Exact, Placed, CallStep, Call.op # "await", seqs' = seqs, edited' = edited,
         hit => hit',
         \/ pending' = pending
         \/ \E e : pending' = Append(pending, e) /\ Fresh(script, log, e, ip + 1),
         resolved \subseteq resolved',
         mode' = "pass" /\ ~hit' /\ ~token /\ ~edited /\ Awaiting(Call) => ip \in resolved'
  PROVE  Placed'
<1>1. /\ mode = "pass" /\ ip \in Positions(script) /\ script' = script /\ log' = log
      /\ token' = token /\ ip \in Nat \ {0} /\ Types /\ Call = script[ip]
      /\ mode' = "pass" => ip' = ip + 1
  BY DEF CallStep, Moving, IInv, Types, Call
<1>2. ASSUME NEW o \in DOMAIN origin'
      PROVE  origin'[o] = IndexIn(script, o)
  <2>1. CASE origin' = origin
    BY <1>1, <1>2, <2>1 DEF Placed
  <2>2. CASE origin' = With(origin, ip, callIndex)
    <3>1. callIndex = IndexIn(script, ip)
      BY <1>1, IndexIs DEF Exact
    <3>2. o \in DOMAIN origin \cup {ip} /\ origin'[o] = IF o = ip THEN callIndex ELSE origin[o]
      BY <1>2, <2>2 DEF With
    <3> QED BY <1>1, <3>1, <3>2 DEF Placed
  <2> QED BY <2>1, <2>2 DEF CallStep
<1>3. \A j \in 1..Len(pending) : Fresh(script, log, pending[j], ip + 1)
  BY <1>1, FreshOn DEF Placed
<1>4. \A j \in 1..Len(pending') : Fresh(script, log, pending'[j], ip + 1)
  <2>1. CASE pending' = pending
    BY <1>3, <2>1
  <2>2. CASE \E e : pending' = Append(pending, e) /\ Fresh(script, log, e, ip + 1)
    <3>1. PICK e : pending' = Append(pending, e) /\ Fresh(script, log, e, ip + 1)
      BY <2>2
    <3>2. pending \in Seq(Entries) /\ Len(pending) \in Nat
      BY <1>1 DEF Types
    <3>3. /\ Len(pending') = Len(pending) + 1
          /\ \A j \in 1..Len(pending') : pending'[j] = IF j = Len(pending) + 1 THEN e ELSE pending[j]
      BY <3>1, <3>2
    <3> QED BY <1>3, <3>1, <3>2, <3>3
  <2> QED BY <2>1, <2>2
<1>5. ASSUME mode' = "pass", ~hit', ~token
      PROVE  Numbered(script, seqs', ip) /\ (~edited => Behind(script, ip, resolved'))
  <2>1. ~hit /\ Numbered(script, seqs, ip - 1) /\ (~edited => Behind(script, ip - 1, resolved))
    BY <1>1, <1>5 DEF Placed
  <2>2. ~edited => Behind(script, ip, resolved')
    BY <1>1, <1>5, <2>1, BehindNext
  <2>3. ASSUME NEW o \in Positions(script), Logged(script[o])
        PROVE  SeqAt(seqs', IndexIn(script, o)) = Cardinality(Barriers(script, o, ip))
    <3>1. SeqAt(seqs, IndexIn(script, o)) = Cardinality(Barriers(script, o, ip - 1))
      BY <2>1, <2>3 DEF Numbered
    <3>2. Cardinality(Barriers(script, o, ip - 1)) \in Nat
      BY <1>1, BarriersFinite
    <3>3. Cardinality(Barriers(script, o, ip)) =
           Cardinality(Barriers(script, o, ip - 1))
             + (IF script[ip].op = "await" /\ script[ip].on = o THEN 1 ELSE 0)
      BY <1>1, BarriersNext
    <3> QED BY <1>1, <3>1, <3>2, <3>3
  <2> QED BY <2>2, <2>3 DEF Numbered
<1>6. ip + 1 - 1 = ip
  BY <1>1
<1> QED BY <1>1, <1>2, <1>4, <1>5, <1>6, PlacedNext

\* The calls that are no barriers.
Plain ==
  /\ UNCHANGED <<edited, hit, seqs, resolved, waits>> /\ ~Awaiting(Call)
  /\ pending' = pending \/ \E e : e.bars = <<>> /\ pending' = Append(pending, e)
  /\ delivered' # delivered /\ Effect(Call) => ~hit

LEMMA PlainCalls ==
  ASSUME IInv, \/ Start \/ Warm \/ Signal \/ Exec \/ Write \/ CallAction \/ Restart
  PROVE  Plain
<1> USE DEF durable, cancel, history
<1>1. \A c, a : Entry(c, a).bars = <<>>
  BY DEF Entry
<1>2. CASE Start \/ Warm
  <2>1. Claim /\ Call.op \in Anchors
    BY <1>2 DEF Start, Warm, Calls, Anchors
  <2>2. pending' = pending \/ pending' = Append(pending, Entry(Call, None))
    BY <2>1 DEF Claim, ClaimLogPosition
  <2>3. UNCHANGED <<edited, hit, seqs, resolved, waits, delivered>>
    BY <2>1 DEF Claim
  <2> QED BY <1>1, <2>1, <2>2, <2>3 DEF Plain, Awaiting, Anchors
<1>3. ASSUME NEW st, NEW refused, NEW fails, OneShot(st, refused, fails),
             Call.op \in {"signal", "exec", "write", "call"}, Effect(Call) => (st => hit) /\ (hit => st)
      PROVE  Plain
  <2>1. UNCHANGED <<edited, hit, seqs, resolved, waits>>
    BY <1>3 DEF OneShot
  <2>2. \/ pending' = pending /\ delivered' = delivered
        \/ /\ ~st
           /\ \E a : pending' = Append(pending, Entry(Call, a))
    BY <1>3 DEF OneShot, Recover, Diverge, Deliver
  <2> QED BY <1>1, <1>3, <2>1, <2>2 DEF Plain, Awaiting
<1>4. CASE Signal \/ Exec \/ Write
  BY <1>3, <1>4 DEF Signal, Exec, Write, Calls, HitPending
<1>5. CASE CallAction
  BY <1>3, <1>5 DEF CallAction, Calls, Effect
<1>6. CASE Restart
  BY <1>6 DEF Restart, Calls, Plain, Awaiting, Effect
<1> QED BY <1>2, <1>4, <1>5, <1>6

LEMMA PlainBarred ==
  ASSUME IInv, Exact, Barred, Placed, CallStep, Plain
  PROVE  Barred' /\ Placed'
<1>1. UNCHANGED <<script, log, edited, resolved, waits, hit, seqs>> /\ ~Awaiting(Call)
  BY DEF CallStep, Plain
<1>2. Grows(resolved, waits, resolved', waits')
  <2>1. waits \in Maps(Nat)
    BY DEF Barred
  <2>2. \A k \in DOMAIN waits : waits[k] <= waits[k]
    BY <2>1, MapAt
  <2> QED BY <1>1, <2>1, <2>2 DEF Grows
<1>3. ASSUME NEW e, e.bars = <<>>
      PROVE  Fresh(script, log, e, ip + 1) /\ BarsOf(script, e, resolved', waits')
  BY <1>3 DEF Fresh, BarsOf, Met
<1>4. Barred'
  BY <1>1, <1>2, <1>3, BarredStays, BarredAppend DEF Plain
<1>5. Placed'
  BY <1>1, <1>3, PlacedCall DEF Plain, Awaiting
<1> QED BY <1>4, <1>5

-----------------------------------------------------------------------------
\* The stop the closure is at is the barrier of the entry at its position.
LEMMA StopPlace ==
  ASSUME IInv, Exact, mode = "pass", ip \in Positions(script), Call.op = "stop"
  PROVE  WaitSite(script, callIndex, 0, "Terminated", ip)
BY IndexIs DEF Exact, WaitSite, Call

LEMMA StopSaid ==
  ASSUME IInv, Exact, Barred, ~edited, mode = "pass", ip \in Positions(script), Call.op = "stop",
         callIndex \in DOMAIN log, 0 \in DOMAIN log[callIndex].bars
  PROVE  /\ Held(log[callIndex].bars[0], ip, resolved, waits)
         /\ log[callIndex].bars[0].state = "Terminated"
<1>1. PICK k \in Positions(script) :
        /\ WaitSite(script, log[callIndex].at, 0, log[callIndex].bars[0].state, k)
        /\ Held(log[callIndex].bars[0], k, resolved, waits)
  BY DEF Barred, BarsOf
<1>2. log[callIndex].at = callIndex
  BY DEF IInv, Types
<1>3. k = ip
  BY <1>1, <1>2, StopPlace, WaitOnce DEF IInv
<1> QED BY <1>1, <1>3 DEF WaitSite, Call

\* What do_stop may do.
StopDone ==
  /\ IsReplaying /\ 0 \in DOMAIN log[callIndex].bars /\ log[callIndex].bars[0].sat
  /\ UNCHANGED <<pending, hit, resolved, waits>>
StopOut ==
  /\ ~HasReached(Call.res, "Terminated") /\ Expired(Call.dl, StopAge(Call.res))
  /\ resolved' = resolved \cup {ip} /\ mode' # "pass" /\ UNCHANGED <<pending, hit, waits>>
StopWrites(a) ==
  /\ a = 0 \/ (/\ IsReplaying /\ 0 \in DOMAIN log[callIndex].bars
               /\ ~(log[callIndex].bars[0].state = "Terminated" /\ log[callIndex].bars[0].sat)
               /\ a = log[callIndex].bars[0].age)
  /\ pending' = Append(pending, SetBarrier(Entry(Call, None), 0,
       [state |-> "Terminated", sat |-> HasReached(Call.res, "Terminated"), age |-> a]))
  /\ \/ /\ HasReached(Call.res, "Terminated") /\ resolved' = resolved \cup {ip}
        /\ UNCHANGED <<hit, waits>>
     \/ /\ ~HasReached(Call.res, "Terminated") /\ resolved' = resolved /\ hit' = TRUE
        /\ waits' = IF ip \in DOMAIN waits THEN waits ELSE With(waits, ip, 0)

LEMMA StopKinds ==
  ASSUME CatchesBarriers, IInv, Stop
  PROVE  \/ UNCHANGED <<pending, hit, resolved, waits>> /\ mode' # "pass"
         \/ StopDone \/ StopOut \/ \E a : StopWrites(a)
<1>1. /\ mode = "pass" /\ ip \in Positions(script) /\ Call.op = "stop" /\ Logged(Call)
  BY DEF Stop, Calls, Logged
<1>2. ASSUME NEW e, Throw(e)
      PROVE  mode' # "pass"
  BY <1>1, <1>2, ThrowEnds
<1>3. CASE hit \/ token
  BY <1>2, <1>3 DEF Stop, HitPending
<1>4. CASE ~hit /\ ~token
  <2>1. DoStop(Call)
    BY <1>4 DEF Stop, HitPending
  <2>2. PICK e, said, gone, age, a :
          /\ e = Committed(callIndex) /\ said = (IF IsReplaying THEN Barrier(e, 0) ELSE None)
          /\ gone = HasReached(Call.res, "Terminated") /\ age = StopAge(Call.res)
          /\ a = IF said # None THEN said.age ELSE 0
    OBVIOUS
  <2>3. IsReplaying => e = log[callIndex] /\ callIndex \in DOMAIN log
    BY <2>2, CommittedAt DEF IInv, Types, IsReplaying
  <2>4. said # None => IsReplaying /\ 0 \in DOMAIN log[callIndex].bars
                       /\ said = log[callIndex].bars[0]
    BY <2>2, <2>3 DEF Barrier
  <2>5. \/ Throw("Diverged") /\ UNCHANGED <<pending, hit, resolved, waits>>
        \/ /\ said # None /\ said.state = "Terminated" /\ said.sat
           /\ UNCHANGED <<pending, hit, resolved, waits>>
        \/ /\ ~gone /\ Expired(Call.dl, age) /\ resolved' = resolved \cup {ip}
           /\ Throw("Expired") /\ UNCHANGED <<pending, hit, waits>>
        \/ /\ IsReplaying => ~(said # None /\ said.state = "Terminated" /\ said.sat)
           /\ pending' = Append(pending, SetBarrier(Entry(Call, None), 0,
                            [state |-> "Terminated", sat |-> gone, age |-> a]))
           /\ \/ gone /\ resolved' = resolved \cup {ip} /\ UNCHANGED <<hit, waits>>
              \/ /\ ~gone /\ hit' = TRUE /\ resolved' = resolved
                 /\ waits' = IF ip \in DOMAIN waits THEN waits ELSE With(waits, ip, 0)
    BY <2>1, <2>2 DEF DoStop
  <2>6. CASE Throw("Diverged") /\ UNCHANGED <<pending, hit, resolved, waits>>
    BY <1>2, <2>6
  <2>7. CASE /\ said # None /\ said.state = "Terminated" /\ said.sat
             /\ UNCHANGED <<pending, hit, resolved, waits>>
    BY <2>4, <2>7 DEF StopDone
  <2>8. CASE /\ ~gone /\ Expired(Call.dl, age) /\ resolved' = resolved \cup {ip}
             /\ Throw("Expired") /\ UNCHANGED <<pending, hit, waits>>
    BY <1>2, <2>2, <2>8 DEF StopOut
  <2>9. CASE /\ IsReplaying => ~(said # None /\ said.state = "Terminated" /\ said.sat)
             /\ pending' = Append(pending, SetBarrier(Entry(Call, None), 0,
                              [state |-> "Terminated", sat |-> gone, age |-> a]))
             /\ \/ gone /\ resolved' = resolved \cup {ip} /\ UNCHANGED <<hit, waits>>
                \/ /\ ~gone /\ hit' = TRUE /\ resolved' = resolved
                   /\ waits' = IF ip \in DOMAIN waits THEN waits ELSE With(waits, ip, 0)
    <3>1. a = 0 \/ (/\ IsReplaying /\ 0 \in DOMAIN log[callIndex].bars
               /\ ~(log[callIndex].bars[0].state = "Terminated" /\ log[callIndex].bars[0].sat)
               /\ a = log[callIndex].bars[0].age)
      BY <2>2, <2>4, <2>9
    <3>2. StopWrites(a)
      BY <2>2, <2>9, <3>1 DEF StopWrites
    <3> QED BY <3>2
  <2> QED BY <2>5, <2>6, <2>7, <2>8, <2>9
<1> QED BY <1>3, <1>4 DEF IInv, Types

LEMMA StopBarred ==
  ASSUME CatchesBarriers, IInv, Exact, Barred, Placed, Stop
  PROVE  Barred' /\ Placed'
<1>1. /\ mode = "pass" /\ ip \in Positions(script) /\ Call.op = "stop" /\ Types /\ ip \in Nat \ {0}
      /\ UNCHANGED <<edited, seqs>> /\ Call = script[ip]
  BY DEF Stop, Calls, IInv, Types, Call
<1>2. CallStep /\ script' = script /\ log' = log
  BY StopCall DEF CallStep
<1>3. \A W \in Maps(Nat) : \A k \in DOMAIN W : W[k] <= W[k]
  BY MapAt
<1>4. Grows(resolved, waits, resolved, waits) /\ Grows(resolved, waits, resolved \cup {ip}, waits)
  BY <1>3 DEF Grows, Barred
<1>5. CASE UNCHANGED <<pending, hit, resolved, waits>> /\ mode' # "pass"
  <2>1. Barred'
    BY <1>1, <1>2, <1>4, <1>5, BarredStays
  <2> QED BY <1>5, <2>1 DEF Placed
<1>6. CASE StopDone
  <2>1. /\ IsReplaying /\ 0 \in DOMAIN log[callIndex].bars /\ log[callIndex].bars[0].sat
        /\ UNCHANGED <<pending, hit, resolved, waits>>
    BY <1>6 DEF StopDone
  <2>2. callIndex \in DOMAIN log
    BY <2>1, CommittedAt DEF IInv, Types, IsReplaying
  <2>3. ~edited => ip \in resolved
    BY <1>1, <2>1, <2>2, StopSaid DEF Held
  <2>4. Barred'
    BY <1>1, <1>2, <1>4, <2>1, BarredStays
  <2>5. Placed'
    BY <1>1, <1>2, <2>1, <2>3, PlacedCall
  <2> QED BY <2>4, <2>5
<1>7. CASE StopOut
  <2>1. resolved' = resolved \cup {ip} /\ mode' # "pass" /\ UNCHANGED <<pending, hit, waits>>
    BY <1>7 DEF StopOut
  <2>2. Barred'
    BY <1>1, <1>2, <1>4, <2>1, BarredStays
  <2> QED BY <2>1, <2>2 DEF Placed
<1>8. ASSUME NEW a, StopWrites(a)
      PROVE  Barred' /\ Placed'
  <2>1. PICK gone \in BOOLEAN : gone = HasReached(Call.res, "Terminated")
    <3>1. HasReached(Call.res, "Terminated") \in BOOLEAN
      BY DEF HasReached
    <3> QED BY <3>1
  <2>2. PICK b : b = [state |-> "Terminated", sat |-> gone, age |-> a]
    OBVIOUS
  <2>3. PICK e : e = SetBarrier(Entry(Call, None), 0, b)
    OBVIOUS
  <2>4. pending' = Append(pending, e)
    BY <1>8, <2>1, <2>2, <2>3 DEF StopWrites
  <2>5. \/ gone /\ resolved' = resolved \cup {ip} /\ UNCHANGED <<hit, waits>>
        \/ /\ ~gone /\ resolved' = resolved /\ hit' = TRUE
           /\ waits' = IF ip \in DOMAIN waits THEN waits ELSE With(waits, ip, 0)
    BY <1>8, <2>1 DEF StopWrites
  <2>6. /\ Grows(resolved, waits, resolved', waits')
        /\ gone => ip \in resolved'
        /\ ~gone => ip \in DOMAIN waits'
    <3>1. CASE gone
      BY <1>4, <2>5, <3>1
    <3>2. CASE ~gone
      BY <1>1, <2>5, <3>2, WaitBegins
    <3> QED BY <2>1, <3>1, <3>2
  <2>7. IsReplaying => callIndex \in DOMAIN log /\ log[callIndex] \in Entries
    BY CommittedAt DEF IInv, Types, IsReplaying
  <2>8. a \in Nat
    <3>1. CASE a = 0
      BY <3>1
    <3>2. CASE a # 0
      BY <1>8, <2>7, <3>2, BarAt DEF StopWrites
    <3> QED BY <3>1, <3>2
  <2>9. b \in BarRecord /\ b.state = "Terminated" /\ b.sat = gone /\ b.age = a
    BY <2>1, <2>2, <2>8 DEF BarRecord, States
  <2>10. Entry(Call, None) \in Entries /\ Entry(Call, None).at = callIndex
         /\ Entry(Call, None).bars = <<>>
    <3>1. Call.op \in Ops /\ Call.res \in Resources /\ Call.lit \in STRING
      BY <1>1, CallType
    <3> QED BY <1>1, <3>1, EntryType DEF Entry
  <2>11. WaitSite(script, callIndex, 0, "Terminated", ip)
    BY <1>1, StopPlace
  <2>12. ASSUME ~edited
         PROVE  Held(b, ip, resolved', waits')
    <3>1. CASE gone
      BY <2>6, <2>9, <3>1 DEF Held
    <3>2. CASE ~gone
      <4>1. ip \in DOMAIN waits' /\ waits'[ip] \in Nat
        BY <2>6, <3>2, MapAt DEF Grows
      <4>2. CASE a = 0
        BY <2>9, <3>2, <4>1, <4>2 DEF Held
      <4>3. CASE a # 0
        <5>1. /\ IsReplaying /\ 0 \in DOMAIN log[callIndex].bars
              /\ ~(log[callIndex].bars[0].state = "Terminated" /\ log[callIndex].bars[0].sat)
              /\ a = log[callIndex].bars[0].age
          BY <1>8, <4>3 DEF StopWrites
        <5>2. /\ Held(log[callIndex].bars[0], ip, resolved, waits)
              /\ log[callIndex].bars[0].state = "Terminated"
          BY <1>1, <2>7, <2>12, <5>1, StopSaid
        <5>3. ip \in DOMAIN waits /\ a <= waits[ip]
          BY <5>1, <5>2 DEF Held
        <5>4. waits[ip] \in Nat /\ waits[ip] <= waits'[ip]
          BY <2>6, <5>3, MapAt DEF Grows
        <5>5. a <= waits'[ip]
          BY <2>8, <4>1, <5>3, <5>4
        <5> QED BY <2>9, <3>2, <4>1, <5>5 DEF Held
      <4> QED BY <4>2, <4>3
    <3> QED BY <2>1, <3>1, <3>2
  <2>13. ASSUME ~edited
         PROVE  BarsOf(script, e, resolved', waits')
    <3>1. PICK f : f = Entry(Call, None)
      OBVIOUS
    <3>2. BarsOf(script, f, resolved, waits) /\ f \in Entries /\ f.at = callIndex
      BY <2>10, <3>1 DEF BarsOf
    <3>3. PICK R2, W2 : R2 = resolved' /\ W2 = waits'
      OBVIOUS
    <3>4. Grows(resolved, waits, R2, W2) /\ Held(b, ip, R2, W2)
      BY <2>6, <2>12, <2>13, <3>3
    <3>5. WaitSite(script, f.at, 0, b.state, ip)
      BY <2>9, <2>11, <3>2
    <3>6. BarsOf(script, SetBarrier(f, 0, b), R2, W2)
      BY <1>1, <2>9, <3>2, <3>4, <3>5, SetBarsOf
    <3> QED BY <2>3, <3>1, <3>3, <3>6
  <2>14. Fresh(script, log, e, ip + 1)
    <3>1. e.at = callIndex
      BY <2>9, <2>10, <2>3, SetBars
    <3>2. callIndex = IndexIn(script, ip)
      BY <1>1, IndexIs DEF Exact
    <3>3. ASSUME NEW k \in Positions(script), script[k].op = "await",
                 IndexIn(script, script[k].on) = e.at
          PROVE  FALSE
      <4>1. /\ script[k].on \in Nat \ {0} /\ script[script[k].on].op \in Anchors
            /\ Logged(script[script[k].on])
        BY <1>1, <3>3, AwaitAnchor
      <4>2. Logged(script[ip])
        BY <1>1 DEF Logged
      <4>3. script[k].on = ip
        BY <1>1, <3>1, <3>2, <3>3, <4>1, <4>2, IndexIs, IndexOnce
      <4> QED BY <1>1, <4>1, <4>3 DEF Anchors
    <3> QED BY <3>3 DEF Fresh
  <2>15. Barred'
    BY <1>1, <1>2, <2>4, <2>6, <2>13, BarredAppend
  <2>16. (hit => hit') /\ resolved \subseteq resolved'
         /\ (~hit' => ip \in resolved')
    BY <2>5
  <2>17. Placed'
    BY <1>1, <1>2, <2>4, <2>14, <2>16, PlacedCall
  <2> QED BY <2>15, <2>17
<1> QED BY <1>5, <1>6, <1>7, <1>8, StopKinds

\* A second later.
LEMMA OlderIs ==
  ASSUME NEW e \in Entries
  PROVE  /\ OlderBars(e).at = e.at /\ DOMAIN OlderBars(e).bars = DOMAIN e.bars
         /\ \A q \in DOMAIN e.bars : /\ OlderBars(e).bars[q].state = e.bars[q].state
                                     /\ OlderBars(e).bars[q].sat = e.bars[q].sat
                                     /\ OlderBars(e).bars[q].age = Older(e.bars[q].age)
<1>1. PICK b : b = [q \in DOMAIN e.bars |-> OlderBar(e.bars[q])]
  OBVIOUS
<1>2. OlderBars(e) = [e EXCEPT !.bars = b]
  BY <1>1 DEF OlderBars
<1>3. OlderBars(e).bars = b /\ OlderBars(e).at = e.at
  BY <1>2 DEF Entries
<1>4. ASSUME NEW q \in DOMAIN e.bars
      PROVE  /\ b[q].state = e.bars[q].state /\ b[q].sat = e.bars[q].sat
             /\ b[q].age = Older(e.bars[q].age)
  <2>1. e.bars[q] \in BarRecord
    BY BarAt
  <2> QED BY <1>1, <2>1 DEF OlderBar, BarRecord
<1> QED BY <1>1, <1>3, <1>4

LEMMA OlderMet ==
  ASSUME NEW e \in Entries, NEW k
  PROVE  Met(script, OlderBars(e), k) <=> Met(script, e, k)
BY OlderIs DEF Met

LEMMA OlderHeld ==
  ASSUME NEW e \in Entries, NEW R, NEW W \in Maps(Nat), NEW W2,
         W2 = [k \in DOMAIN W |-> Older(W[k])], BarsOf(script, e, R, W)
  PROVE  BarsOf(script, OlderBars(e), R, W2)
<1>1. PICK f : f = OlderBars(e)
  OBVIOUS
<1>2. /\ f.at = e.at /\ DOMAIN f.bars = DOMAIN e.bars
      /\ \A q \in DOMAIN e.bars : /\ f.bars[q].state = e.bars[q].state
                                  /\ f.bars[q].sat = e.bars[q].sat
                                  /\ f.bars[q].age = Older(e.bars[q].age)
  BY <1>1, OlderIs
<1>3. \A m, n \in Nat : m <= n => Older(m) <= Older(n)
  BY BoundsAssumption DEF Older
<1>4. ASSUME NEW q \in DOMAIN e.bars
      PROVE  \E k \in Positions(script) :
               WaitSite(script, f.at, q, f.bars[q].state, k) /\ Held(f.bars[q], k, R, W2)
  <2>1. PICK k \in Positions(script) :
          WaitSite(script, e.at, q, e.bars[q].state, k) /\ Held(e.bars[q], k, R, W)
    BY <1>4 DEF BarsOf
  <2>2. e.bars[q].age \in Nat /\ e.bars[q].sat \in BOOLEAN
    BY BarAt
  <2>3. Held(f.bars[q], k, R, W2)
    <3>1. CASE e.bars[q].sat
      BY <1>2, <2>1, <3>1 DEF Held
    <3>2. CASE ~e.bars[q].sat
      <4>1. k \in DOMAIN W /\ e.bars[q].age <= W[k] /\ W[k] \in Nat
        BY <2>1, <3>2, MapAt DEF Held
      <4>2. k \in DOMAIN W2 /\ W2[k] = Older(W[k])
        BY <4>1
      <4>3. f.bars[q].age <= W2[k]
        BY <1>2, <1>3, <1>4, <2>2, <4>1, <4>2
      <4> QED BY <1>2, <1>4, <3>2, <4>2, <4>3 DEF Held
    <3> QED BY <2>2, <3>1, <3>2
  <2> QED BY <1>2, <1>4, <2>1, <2>3
<1> QED BY <1>1, <1>2, <1>4 DEF BarsOf

LEMMA TickBarred ==
  ASSUME IInv, Barred, Placed, Tick
  PROVE  Barred' /\ Placed'
<1>1. /\ UNCHANGED <<script, mode, ip, seqs, origin, hit, token, edited, resolved>>
      /\ log' = [i \in DOMAIN log |-> OlderBars(log[i])]
      /\ pending' = [k \in 1..Len(pending) |-> OlderBars(pending[k])]
      /\ waits' = [k \in DOMAIN waits |-> Older(waits[k])]
  BY DEF Tick, cancel
<1>2. Len(pending') = Len(pending) /\ Len(pending) \in Nat
      /\ \A k \in 1..Len(pending) : pending[k] \in Entries /\ pending'[k] = OlderBars(pending[k])
  BY <1>1, TickKeeps DEF IInv, Types
<1>3. DOMAIN log' = DOMAIN log
      /\ \A i \in DOMAIN log : log[i] \in Entries /\ log'[i] = OlderBars(log[i])
  BY <1>1 DEF IInv, Types
<1>4. waits \in Maps(Nat)
  BY DEF Barred
<1>5. waits' \in Maps(Nat)
  <2>1. PICK S \in SUBSET Nat : waits \in [S -> Nat]
    BY <1>4 DEF Maps
  <2>2. \A n \in Nat : Older(n) \in Nat
    BY DEF Older
  <2>3. waits' \in [S -> Nat]
    BY <1>1, <2>1, <2>2
  <2> QED BY <2>1, <2>3 DEF Maps
<1>6. PICK W2 : W2 = waits' /\ W2 = [k \in DOMAIN waits |-> Older(waits[k])]
  BY <1>1
<1>7. ASSUME ~edited
      PROVE  /\ \A i \in DOMAIN log' : BarsOf(script, log'[i], resolved, W2)
             /\ \A j \in 1..Len(pending') : BarsOf(script, pending'[j], resolved, W2)
  <2>1. \A i \in DOMAIN log : BarsOf(script, OlderBars(log[i]), resolved, W2)
    BY <1>3, <1>4, <1>6, <1>7, OlderHeld DEF Barred
  <2>2. \A j \in 1..Len(pending) : BarsOf(script, OlderBars(pending[j]), resolved, W2)
    BY <1>2, <1>4, <1>6, <1>7, OlderHeld DEF Barred
  <2> QED BY <1>2, <1>3, <2>1, <2>2
<1>8. Barred'
  BY <1>1, <1>5, <1>6, <1>7, BarredNext
<1>9. ASSUME NEW j \in 1..Len(pending'), mode = "pass"
      PROVE  Fresh(script, log', pending'[j], ip)
  <2>1. PICK L : L = log'
    OBVIOUS
  <2>2. j \in 1..Len(pending) /\ Fresh(script, log, pending[j], ip) /\ pending[j] \in Entries
    BY <1>2, <1>9 DEF Placed
  <2>3. PICK e \in Entries : e = pending[j]
    BY <2>2
  <2>4. OlderBars(e).at = e.at
    BY OlderIs
  <2>5. DOMAIN L = DOMAIN log /\ \A i \in DOMAIN log : log[i] \in Entries /\ L[i] = OlderBars(log[i])
    BY <1>3, <2>1
  <2>6. ASSUME NEW k \in Positions(script), ip <= k, script[k].op = "await",
               IndexIn(script, script[k].on) = e.at, Met(script, OlderBars(e), k)
        PROVE  e.at \in DOMAIN L /\ Met(script, L[e.at], k)
    <3>1. Met(script, e, k)
      BY <2>6, OlderMet
    <3>2. e.at \in DOMAIN log /\ Met(script, log[e.at], k)
      BY <2>2, <2>3, <2>6, <3>1 DEF Fresh
    <3>3. Met(script, OlderBars(log[e.at]), k)
      BY <2>5, <3>2, OlderMet
    <3> QED BY <2>5, <3>2, <3>3
  <2>7. Fresh(script, L, OlderBars(e), ip)
    BY <2>4, <2>6 DEF Fresh
  <2> QED BY <1>2, <2>1, <2>2, <2>3, <2>7
<1>10. Placed'
  BY <1>1, <1>9, PlacedNext DEF Placed
<1> QED BY <1>8, <1>10

LEMMA StepBarred ==
  ASSUME CatchesBarriers, IInv, Exact, Barred, Placed, [Next]_vars
  PROVE  Barred' /\ Placed'
<1> USE DEF durable, context, cancel, history
<1>1. CASE RtCall
  <2>1. CASE Await
    BY <2>1, AwaitBarred
  <2>2. CASE Stop
    BY <2>2, StopBarred
  <2>3. CASE Return
    BY <2>3, BarredNext DEF Return, Placed, Barred
  <2>4. CASE \/ Start \/ Warm \/ Signal \/ Exec \/ Write \/ CallAction \/ Restart
    <3>1. CallStep
      BY <2>4, CallsStep
    <3>2. Plain
      BY <2>4, PlainCalls
    <3> QED BY <3>1, <3>2, PlainBarred
  <2> QED BY <1>1, <2>1, <2>2, <2>3, <2>4 DEF RtCall
<1>2. CASE Crash \/ BeginPass
  <2>1. /\ UNCHANGED <<script, log, edited, resolved, waits>> /\ Len(pending') = 0
        /\ mode' # "pass" \/ (DOMAIN origin' = {} /\ seqs' = <<>> /\ ip' = 1)
    BY <1>2 DEF Crash, BeginPass
  <2>2. Barred'
    BY <2>1, BarredNext DEF Barred
  <2>3. ASSUME mode' = "pass"
        PROVE  Numbered(script, seqs', ip' - 1) /\ Behind(script, ip' - 1, resolved')
    <3>1. \A o : Barriers(script, o, 0) = {}
      BY DEF Barriers
    <3>2. PICK S : S = seqs' /\ S = <<>> /\ ip' - 1 = 0
      BY <2>1, <2>3
    <3>3. Numbered(script, S, 0)
      <4>1. DOMAIN S = {} /\ Cardinality({}) = 0
        BY <3>2, FS_EmptySet
      <4>2. \A x : SeqAt(S, x) = 0
        BY <4>1 DEF SeqAt
      <4>3. \A o : Cardinality(Barriers(script, o, 0)) = 0
        BY <3>1, <4>1
      <4> QED BY <4>2, <4>3 DEF Numbered
    <3>4. Behind(script, 0, resolved)
      BY DEF Behind
    <3> QED BY <2>1, <3>2, <3>3, <3>4
  <2>4. Placed'
    BY <2>1, <2>3, PlacedNext
  <2> QED BY <2>2, <2>4
<1>3. CASE FlushOne
  <2>1. UNCHANGED <<script, edited, resolved, waits, mode>> /\ pending' = Tail(pending)
        /\ mode # "pass"
    BY <1>3 DEF FlushOne
  <2>2. /\ pending # <<>> /\ pending \in Seq(Entries)
        /\ \A i \in DOMAIN log' : log'[i] = IF i = Head(pending).at THEN Head(pending) ELSE log[i]
        /\ DOMAIN log' = DOMAIN log \cup {Head(pending).at}
    BY <1>3, FlushTakes DEF FlushOne, With, IInv, Types
  <2>3. /\ Head(pending) = pending[1] /\ 1 \in 1..Len(pending)
        /\ \A j \in 1..Len(pending') : j + 1 \in 1..Len(pending) /\ pending'[j] = pending[j + 1]
    BY <2>1, <2>2
  <2>4. ASSUME ~edited
        PROVE  /\ \A i \in DOMAIN log' : BarsOf(script, log'[i], resolved, waits)
               /\ \A j \in 1..Len(pending') : BarsOf(script, pending'[j], resolved, waits)
    BY <2>2, <2>3, <2>4 DEF Barred
  <2>5. Barred'
    BY <2>1, <2>4, BarredNext DEF Barred
  <2> QED BY <2>1, <2>5 DEF Placed
<1>4. CASE Rest
  <2>1. /\ UNCHANGED <<script, log, ip, pending, seqs, origin, hit, edited, resolved, waits>>
        /\ mode' = "pass" => mode = "pass"
        /\ ~token' => ~token
    BY <1>4 DEF Rest
  <2>2. Barred'
    BY <2>1, BarredNext DEF Barred
  <2>3. Placed'
    BY <2>1, PlacedNext DEF Placed
  <2> QED BY <2>2, <2>3
<1>5. ASSUME NEW s \in Scripts, Resume(s)
      PROVE  Barred' /\ Placed'
  <2>1. UNCHANGED <<log, pending>> /\ edited' = (edited \/ s # script) /\ script' = s
        /\ (s = script => resolved' = resolved /\ waits' = waits)
        /\ (s # script => waits' = <<>>) /\ mode' = "begin"
    BY <1>5 DEF Resume
  <2>2. CASE s = script
    BY <2>1, <2>2, BarredNext DEF Barred, Placed
  <2>3. CASE s # script
    BY <2>1, <2>3, EmptyMap DEF Barred, Placed
  <2> QED BY <2>2, <2>3
<1> QED BY <1>1, <1>2, <1>3, <1>4, <1>5, TickBarred, OtherSteps

LEMMA Deadline ==
  ASSUME Types, NEW k \in Positions(script), script[k].dl # None
  PROVE  script[k].dl \in Nat
<1> DEFINE R == [op : Ops, res : Resources, lit : STRING, on : Nat, state : States,
                  dl : (1..MaxAge) \cup {None}, catch : BOOLEAN]
<1>1. script \in Seq(R)
  BY ScriptsAssumption DEF Types
<1> HIDE DEF R
<1>2. script[k] \in R
  BY <1>1 DEF Positions
<1> QED BY <1>2, BoundsAssumption DEF R

\* A wait that lasted its deadline, by the record of it.
LEMMA Lasted ==
  ASSUME Types, waits \in Maps(Nat), ip \in Positions(script), NEW b \in BarRecord, ~b.sat,
         Held(b, ip, resolved, waits), Expired(script[ip].dl, b.age)
  PROVE  ip \in DOMAIN waits /\ waits[ip] >= script[ip].dl
<1>1. ip \in DOMAIN waits /\ b.age <= waits[ip]
  BY DEF Held
<1>2. waits[ip] \in Nat /\ b.age \in Nat
  BY <1>1, MapAt DEF BarRecord
<1>3. script[ip].dl # None /\ b.age >= script[ip].dl
  BY DEF Expired
<1>4. script[ip].dl \in Nat
  BY <1>3, Deadline
<1> QED BY <1>1, <1>2, <1>3, <1>4

LEMMA AwaitLasted ==
  ASSUME IInv, Barred, ~edited, NEW i, NEW q, AtBarrier(i, q), RunsOut(i, q)
  PROVE  ip \in DOMAIN waits /\ waits[ip] >= Call.dl
<1>1. /\ AnchorRecord(i, q) # None /\ AnchorRecord(i, q).state = Call.state
      /\ ~AnchorRecord(i, q).sat /\ Expired(Call.dl, AnchorRecord(i, q).age)
  BY DEF RunsOut
<1>2. PICK e \in Entries : /\ AnchorRecord(i, q) = Barrier(e, q) /\ e.at = i
                           /\ BarsOf(script, e, resolved, waits)
  <2>1. CASE PendingAt(i) # {}
    <3>1. PICK j : j = CHOOSE k \in PendingAt(i) : TRUE
      OBVIOUS
    <3>2. j \in PendingAt(i)
      BY <2>1, <3>1
    <3>3. j \in 1..Len(pending) /\ pending[j].at = i
      BY <3>2 DEF PendingAt
    <3>4. pending[j] \in Entries
      BY <3>3 DEF IInv, Types
    <3> QED BY <2>1, <3>1, <3>3, <3>4 DEF AnchorRecord, Barred
  <2>2. CASE PendingAt(i) = {}
    <3>1. i \in DOMAIN log /\ AnchorRecord(i, q) = Barrier(log[i], q)
      BY <1>1, <2>2 DEF AnchorRecord
    <3>2. log[i] \in Entries /\ log[i].at = i
      BY <3>1 DEF IInv, Types
    <3> QED BY <3>1, <3>2 DEF Barred
  <2> QED BY <2>1, <2>2
<1>3. q \in Nat /\ ip \in Positions(script) /\ Call = script[ip] /\ Types /\ waits \in Maps(Nat)
  BY DEF AtBarrier, Call, IInv, Barred
<1>4. q \in DOMAIN e.bars /\ Barrier(e, q) = e.bars[q] /\ e.bars[q] \in BarRecord
  BY <1>1, <1>2, <1>3, BarrierType
<1>5. PICK k \in Positions(script) :
        WaitSite(script, e.at, q, e.bars[q].state, k) /\ Held(e.bars[q], k, resolved, waits)
  BY <1>2, <1>4 DEF BarsOf
<1>6. WaitSite(script, i, q, script[ip].state, ip)
  BY DEF WaitSite, AtBarrier, Call
<1>7. k = ip
  BY <1>2, <1>3, <1>5, <1>6, WaitOnce
<1>8. PICK b \in BarRecord : b = e.bars[q]
  BY <1>4
<1>9. ~b.sat /\ Held(b, ip, resolved, waits) /\ Expired(script[ip].dl, b.age)
  BY <1>1, <1>2, <1>3, <1>4, <1>5, <1>7, <1>8
<1>10. ip \in DOMAIN waits /\ waits[ip] >= script[ip].dl
  BY <1>3, <1>9, Lasted
<1> QED BY <1>3, <1>10

\* The wait do_stop finds is its own.
LEMMA StopOwn ==
  ASSUME OwnStops, IInv, Barred, Tied, ~edited, mode = "pass", ip \in Positions(script),
         Call.op = "stop", Expired(Call.dl, StopAge(Call.res)), NEW e \in Entries,
         BarsOf(script, e, resolved, waits), TiedTo(e, told), StopWaits(e, Call.res),
         StopAge(Call.res) = Barrier(e, 0).age
  PROVE  ip \in DOMAIN waits /\ waits[ip] >= Call.dl
<1>1. Call = script[ip] /\ Types /\ waits \in Maps(Nat) /\ script \in Scripts
      /\ ip \in Nat \ {0} /\ ip \in 1..Len(script) /\ script[ip].dl # None
  BY DEF Call, IInv, Types, Barred, Expired, Positions
<1>2. /\ e.res = script[ip].res /\ Barrier(e, 0) # None /\ Barrier(e, 0).state = "Terminated"
      /\ ~Barrier(e, 0).sat
  BY <1>1 DEF StopWaits
<1>3. 0 \in DOMAIN e.bars /\ Barrier(e, 0) = e.bars[0] /\ e.bars[0] \in BarRecord
  BY <1>2, BarrierType
<1>4. PICK k \in Positions(script) :
        WaitSite(script, e.at, 0, "Terminated", k) /\ Held(e.bars[0], k, resolved, waits)
  BY <1>2, <1>3 DEF BarsOf
<1>5. PICK m \in Positions(script) :
        /\ Logged(script[m]) /\ IndexIn(script, m) = e.at /\ script[m].res = e.res
  BY IndexIs DEF TiedTo, Site
<1>6. m \in Nat \ {0} /\ k \in Nat \ {0} /\ m \in 1..Len(script) /\ k \in 1..Len(script)
  BY DEF Positions
<1>7. script[k].op # "await"
  <2> SUFFICES ASSUME script[k].op = "await" PROVE FALSE
    OBVIOUS
  <2>1. script[k].state = "Terminated" /\ IndexIn(script, script[k].on) = e.at
    BY <1>4 DEF WaitSite
  <2>2. script[k].on \in Nat \ {0} /\ Logged(script[script[k].on])
    BY <1>1, AwaitAnchor
  <2>3. script[k].on = m
    BY <1>5, <1>6, <2>1, <2>2, IndexIs, IndexOnce
  <2>4. script[script[k].on].res # script[ip].res
    BY <1>1, <1>6, <2>1 DEF OwnStops
  <2> QED BY <1>2, <1>5, <2>3, <2>4
<1>8. script[k].op = "stop" /\ IndexIn(script, k) = e.at
  BY <1>4, <1>7 DEF WaitSite
<1>9. k = m
  BY <1>5, <1>6, <1>8, IndexIs, IndexOnce DEF Logged
<1>10. k = ip
  BY <1>1, <1>2, <1>5, <1>6, <1>8, <1>9 DEF OwnStops
<1>11. PICK b \in BarRecord : b = e.bars[0]
  BY <1>3
<1>12. ~b.sat /\ Held(b, ip, resolved, waits) /\ Expired(script[ip].dl, b.age)
  BY <1>1, <1>2, <1>3, <1>4, <1>10, <1>11
<1>13. ip \in DOMAIN waits /\ waits[ip] >= script[ip].dl
  BY <1>1, <1>12, Lasted
<1> QED BY <1>1, <1>13

LEMMA Least ==
  ASSUME NEW T, T \subseteq Nat, T # {}
  PROVE  (CHOOSE x \in T : \A y \in T : x <= y) \in T
<1> DEFINE R == OpToRel(<, Nat)
<1>1. IsWellFoundedOn(R, Nat) /\ \A x, y \in Nat : y < x => <<y, x>> \in R
  BY NatLessThanWellFounded DEF OpToRel
<1> HIDE DEF R
<1>2. PICK x \in T : \A y \in T : ~(<<y, x>> \in R)
  BY <1>1, WFMin
<1>3. \A y \in T : x \in Nat /\ y \in Nat /\ ~(y < x)
  BY <1>1, <1>2
<1>4. \A y \in T : x <= y
  BY <1>3
<1> QED BY <1>2, <1>4

LEMMA StopLasted ==
  ASSUME OwnStops, IInv, Barred, Tied, ~edited, mode = "pass", ip \in Positions(script),
         Call.op = "stop", StopOut
  PROVE  ip \in DOMAIN waits /\ waits[ip] >= Call.dl
<1> DEFINE r == Call.res
           old == {i \in DOMAIN log : StopWaits(log[i], r)}
           new == {k \in 1..Len(pending) : StopWaits(pending[k], r)}
           i == CHOOSE x \in old : \A y \in old : x <= y
           j == CHOOSE x \in new : \A y \in new : x <= y
<1>1. Expired(Call.dl, StopAge(r)) /\ StopAge(r) # None
  BY DEF StopOut, Expired
<1>2. StopAge(r) = IF old # {} THEN Barrier(log[i], 0).age
                   ELSE IF new # {} THEN Barrier(pending[j], 0).age ELSE None
  BY DEF StopAge
<1>3. old \subseteq Nat /\ new \subseteq Nat
  BY DEF IInv, Types
<1>4. CASE old # {}
  <2>1. i \in old
    <3> HIDE DEF old
    <3> QED BY <1>3, <1>4, Least
  <2>2. log[i] \in Entries /\ i \in DOMAIN log /\ StopWaits(log[i], r)
    BY <2>1 DEF IInv, Types
  <2>3. BarsOf(script, log[i], resolved, waits) /\ TiedTo(log[i], told)
    BY <2>2 DEF Barred, Tied
  <2>4. StopAge(r) = Barrier(log[i], 0).age
    BY <1>2, <1>4
  <2> HIDE DEF i
  <2> QED BY <1>1, <2>2, <2>3, <2>4, StopOwn
<1>5. CASE old = {} /\ new # {}
  <2>1. j \in new
    <3> HIDE DEF new
    <3> QED BY <1>3, <1>5, Least
  <2>2. pending[j] \in Entries /\ j \in 1..Len(pending) /\ StopWaits(pending[j], r)
    BY <2>1 DEF IInv, Types
  <2>3. BarsOf(script, pending[j], resolved, waits) /\ TiedTo(pending[j], told)
    BY <2>2 DEF Barred, Tied
  <2>4. StopAge(r) = Barrier(pending[j], 0).age
    BY <1>2, <1>5
  <2> HIDE DEF j
  <2> QED BY <1>1, <2>2, <2>3, <2>4, StopOwn
<1> QED BY <1>1, <1>2, <1>4, <1>5

\* Who has terminated has reached every state.
LEMMA TerminatedLast ==
  ASSUME Types, NEW r \in Resources, NEW s \in States, HasReached(r, "Terminated")
  PROVE  HasReached(r, s)
<1>1. world[r] \in States /\ s \in States
  BY DEF Types
<1> QED BY <1>1 DEF HasReached, Ordinal, States

\* No effect goes ahead of a barrier, and no barrier runs out early.
LEMMA StepHolds ==
  ASSUME CatchesBarriers, OwnStops, IInv, Exact, Tied, Barred, Placed, [Next]_vars, ~edited
  PROVE  /\ ~token /\ delivered' # delivered /\ Effect(Call) =>
              \A k \in 1..(ip - 1) : Awaiting(script[k]) => k \in resolved
         /\ mode = "pass" /\ ip \in Positions(script) /\ Awaiting(Call)
              /\ ip \in resolved' \ resolved /\ ~HasReached(Call.res, Call.state) =>
              ip \in DOMAIN waits /\ waits[ip] >= Call.dl
<1> USE DEF durable, context, cancel, history
<1>1. CASE Await
  <2>1. delivered' = delivered
    BY <1>1 DEF Await
  <2>2. CASE hit \/ token
    BY <1>1, <2>1, <2>2 DEF Await, HitPending
  <2>3. CASE ~hit /\ ~token
    <3>1. PICK i, q : /\ AtBarrier(i, q) /\ q = SeqAt(seqs, i) /\ seqs' = With(seqs, i, q + 1)
                      /\ \/ Believes(i) \/ Meets(i, q) \/ RunsOut(i, q) \/ Holds(i, q)
      BY <1>1, <2>3, AwaitKinds
    <3>2. CASE Believes(i) \/ Holds(i, q)
      BY <2>1, <3>2 DEF Believes, Holds
    <3>3. CASE Meets(i, q)
      BY <2>1, <3>3 DEF Meets
    <3>4. CASE RunsOut(i, q)
      BY <2>1, <3>1, <3>4, AwaitLasted
    <3> QED BY <3>1, <3>2, <3>3, <3>4
  <2> QED BY <2>2, <2>3 DEF IInv, Types
<1>2. CASE Stop
  <2>1. /\ delivered' = delivered /\ mode = "pass" /\ ip \in Positions(script) /\ Call.op = "stop"
        /\ Call = script[ip]
    BY <1>2 DEF Stop, Calls, Call
  <2>2. CASE StopOut
    BY <2>1, <2>2, StopLasted
  <2>3. ASSUME NEW a, StopWrites(a), ~HasReached(Call.res, Call.state)
        PROVE  resolved' = resolved
    <3>1. Call.res \in Resources /\ Call.state \in States
      BY <2>1, CallType DEF IInv
    <3>2. ~HasReached(Call.res, "Terminated")
      BY <2>3, <3>1, TerminatedLast DEF IInv
    <3> QED BY <2>3, <3>2 DEF StopWrites
  <2>4. CASE (UNCHANGED <<pending, hit, resolved, waits>> /\ mode' # "pass") \/ StopDone
    BY <2>1, <2>4 DEF StopDone
  <2> QED BY <1>2, <2>1, <2>2, <2>3, <2>4, StopKinds
<1>3. CASE \/ Start \/ Warm \/ Signal \/ Exec \/ Write \/ CallAction \/ Restart
  <2>1. CallStep /\ Plain
    BY <1>3, CallsStep, PlainCalls
  <2>2. mode = "pass" /\ resolved' = resolved /\ (delivered' # delivered /\ Effect(Call) => ~hit)
    BY <2>1 DEF CallStep, Plain
  <2> QED BY <2>2 DEF Placed, Behind
<1>4. CASE Return \/ BeginPass \/ FlushOne \/ Crash \/ Tick \/ Rest
  <2>1. delivered' = delivered /\ resolved' = resolved
    BY <1>4 DEF Return, BeginPass, FlushOne, Crash, Tick, Rest
  <2> QED BY <2>1
<1>5. ASSUME NEW s \in Scripts, Resume(s)
      PROVE  delivered' = delivered /\ mode # "pass"
  BY <1>5 DEF Resume
<1> QED BY <1>1, <1>2, <1>3, <1>4, <1>5, OtherSteps DEF RtCall

\* is_barrier_hit_pending, r[barrier.satisfaction.recorded], r[barrier.deadline]: for
\* every closure that has its try blocks around barriers only, no signal, exec or
\* write is carried out before the barriers ahead of it were met or ran out, in
\* whichever pass and after whichever crash; and if a stop with a deadline is the
\* only wait for its resources to terminate, a barrier runs out only when its own
\* wait has lasted its deadline.
THEOREM BarriersHold ==
  ASSUME CatchesBarriers, OwnStops
  PROVE  Spec => BarrierHolds
<1> DEFINE Inv == IInv /\ Exact /\ Tied /\ Barred /\ Placed
           Ahead == ~edited /\ ~token /\ delivered' # delivered /\ Effect(Call) =>
                      \A k \in 1..(ip - 1) : Awaiting(script[k]) => k \in resolved
           Lasts == ~edited /\ mode = "pass" /\ ip \in Positions(script) /\ Awaiting(Call)
                      /\ ip \in resolved' \ resolved /\ ~HasReached(Call.res, Call.state) =>
                      ip \in DOMAIN waits /\ waits[ip] >= Call.dl
<1>1. Init => Inv
  <2> SUFFICES ASSUME Init PROVE Inv
    OBVIOUS
  <2>1. /\ DOMAIN log = {} /\ Len(pending) = 0 /\ mode # "pass" /\ result # "Diverged"
        /\ waits = <<>>
    BY NoneAssumption DEF Init, Results
  <2> QED BY <2>1, InitInv, EmptyMap DEF Exact, Tied, Barred, Placed
<1>2. Inv /\ [Next]_vars => Inv'
  BY StepInv, StepExact, StepTied, StepBarred
<1>3. Inv /\ [Next]_vars => [Ahead]_vars /\ [Lasts]_vars
  BY StepHolds
<1> HIDE DEF Inv, Ahead, Lasts
<1>4. Spec => [][Ahead]_vars /\ [][Lasts]_vars
  BY <1>1, <1>2, <1>3, PTL DEF Spec
<1> QED BY <1>4 DEF BarrierHolds, Ahead, Lasts
=============================================================================
