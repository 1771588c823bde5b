---------------------------- MODULE Certificates ----------------------------
(***************************************************************************)
(* The certificate of one hostname: the strategy chain it is on            *)
(* (crates/core/src/runtime/tls/chain.rs), the decision made from a        *)
(* reading of the database (tls/state.rs), the Canopy engine that asks a   *)
(* relay and applies its answer in one transaction (tls/canopy.rs,         *)
(* tls/store.rs), the report tick that drives it                           *)
(* (runtime/canopy/certificates.rs), the ACME-DNS coordinator              *)
(* (tls/issuance.rs) and the operator's handlers (oi/handler/tls.rs).      *)
(*                                                                         *)
(* A tick takes one reading, decides, and then waits for relays: of other  *)
(* hostnames first, and of this one between KeyFor and Apply.  Everything  *)
(* else (the clock, operators, the proxy, Canopy's own revocations, a      *)
(* crash) may happen in between, so the decision and the answer are stale  *)
(* when they are written.                                                  *)
(*                                                                         *)
(* Time is a small integer; 0 stands for an absent time, as None does in   *)
(* the code's Option<i64>.  All names on the chain, keys and chains of     *)
(* certificates are reduced to the row id and the validity window.         *)
(***************************************************************************)
EXTENDS Integers, Sequences, FiniteSets, SequencesExt

CONSTANTS None,        \* no row, no certificate, no question
          Life,        \* the lifetime of a certificate
          Debounce,    \* AUTO_RETRY_DEBOUNCE_SECS
          Start,       \* the clock of the first state
          MaxTime,     \* bound: the clock stops here
          MaxCerts,    \* bound: rows of tls_certificates
          MaxEdits,    \* bound: what operators do
          MaxCrashes,  \* bound: restarts of the daemon
          Policies,    \* what an operator may bind the hostname to
          Worlds       \* the certificates the hostname may start with

Ids == 1..MaxCerts

ASSUME Bounds ==
  /\ Life \in Nat \ {0} /\ Debounce \in Nat \ {0}
  /\ Start \in Nat \ {0} /\ MaxTime \in Nat /\ Start <= MaxTime
  /\ MaxCerts \in Nat \ {0} /\ MaxEdits \in Nat /\ MaxCrashes \in Nat
  /\ Policies \subseteq {"default", "canopy", "acme"}
  /\ Worlds \subseteq {"nothing", "canopy", "proxy"}

VARIABLES
  clock,      \* now
  certs,      \* tls_certificates: id -> row, "free" before it is inserted
  row,        \* tls_chain_state of the hostname
  log,        \* tls_cert_attempts: the unfinished ones and the newest
  force,      \* tls_cert_force_retry holds the hostname
  block,      \* tls_cert_retry_blocks holds the hostname
  policy,     \* the bound policy
  typed,      \* an app declaring the hostname has a Canopy type
  offer,      \* a Canopy offer is live
  proxy,      \* expiry of the certificate in the proxy's cache
  condemned,  \* keys Canopy holds revoked or to be replaced
  tick,       \* the report tick, its decision and its question
  acme,       \* the issuance coordinator
  edits, crashes

vars == <<clock, certs, row, log, force, block, policy, typed, offer, proxy,
          condemned, tick, acme, edits, crashes>>

Free == [state |-> "free", origin |-> None, nb |-> 0, na |-> 0, born |-> 0]

Identity == [cert : Ids \cup {0}, na : Nat]
NoCert == [cert |-> 0, na |-> 0]

\* A recorded position; open and retry are Options, of which open is only
\* ever tested for presence.
Positions == [id : Identity, step : 0..1, since : Nat, open : BOOLEAN, retry : Nat]

Row(id, step, since, open, retry) ==
  [id |-> id, step |-> step, since |-> since, open |-> open, retry |-> retry]

\* What the tick asks Canopy: from a position of a chain of so many strategies.
Asks == [id : Identity, step : 0..1, since : Nat, len : 1..2, canopy : BOOLEAN]

\* No time is None: Some(0) is a time, and the proxy's turn has come.  Nor is a
\* position, or the start of a cycle.
ASSUME NoneAssumption ==
  None \notin Nat \cup Positions \cup [row : Positions, ask : {None} \cup Asks]

Idle == [pc |-> "idle"]

-----------------------------------------------------------------------------
(***************************************************************************)
(* The chain: a function of a reading s of the world.                      *)
(***************************************************************************)
View == [now |-> clock, certs |-> certs, row |-> row, force |-> force,
         block |-> block, policy |-> policy, typed |-> typed,
         offer |-> offer, proxy |-> proxy]

Chain(s) ==
  CASE s.policy = "acme"   -> <<>>
    [] s.policy = "canopy" -> <<"canopy">>
    [] OTHER -> IF s.typed THEN <<"canopy", "http01">> ELSE <<"http01">>

\* A third of the lifetime remains.
RenewalPoint(nb, na) == nb + ((na - nb) * 2) \div 3

\* The ranking shared by serving and deciding: unexpired first, then the
\* newest row.
Outranks(s, i, j) ==
  LET fresh(k) == s.certs[k].na > s.now
  IN  \/ fresh(i) /\ ~fresh(j)
      \/ /\ fresh(i) = fresh(j)
         /\ \/ s.certs[i].born > s.certs[j].born
            \/ s.certs[i].born = s.certs[j].born /\ i > j

Active(s) ==
  LET A == {i \in Ids : s.certs[i].state = "active"}
  IN  {i \in A : \A j \in A \ {i} : Outranks(s, i, j)}

\* What the hostname is served with: a stored certificate before the proxy's.
Serving(s) ==
  LET S == {i \in Active(s) : s.certs[i].na > s.now}
  IN  IF S # {}
      THEN LET i == CHOOSE i \in S : TRUE
           IN  [id |-> [cert |-> i, na |-> s.certs[i].na],
                due |-> RenewalPoint(s.certs[i].nb, s.certs[i].na),
                canopy |-> s.certs[i].origin = "canopy"]
      ELSE IF s.proxy > s.now
      THEN [id |-> [cert |-> 0, na |-> s.proxy],
            due |-> RenewalPoint(s.proxy - Life, s.proxy), canopy |-> FALSE]
      ELSE None

\* Faulty form: the window of a strategy ends with the certificate.
HalfwayExpiry(since, expiry) == expiry

Halfway(since, expiry) ==
  since + (IF expiry > since THEN expiry - since ELSE 0) \div 2

\* A chain has at most two strategies, so one fall-through is all there is.
Advance(len, step, since, id, now) ==
  LET at == Halfway(since, id.na)
  IN  IF id.na # 0 /\ step + 1 < len /\ at <= now
      THEN [step |-> step + 1, since |-> at]
      ELSE [step |-> step, since |-> since]

Running(s, id, step, since, open) ==
  LET a == Advance(Len(Chain(s)), step, since, id, s.now)
  IN  [running |-> TRUE, id |-> id, step |-> a.step, since |-> a.since, open |-> open]

AtRest(at) == [running |-> FALSE, id |-> NoCert, step |-> 0, since |-> at, open |-> FALSE]

\* With nothing to replace: Canopy when it can be asked, else the next one.
FirstAvailable(s) ==
  IF Chain(s)[1] = "canopy" /\ Len(Chain(s)) > 1 /\ ~s.offer THEN 1 ELSE 0

Clip(s, step) == IF step < Len(Chain(s)) THEN step ELSE Len(Chain(s)) - 1

Resolve(s) ==
  LET serving == Serving(s)
      mine == s.row # None /\ serving # None /\ s.row.id = serving.id
      lost == s.row # None /\ s.row.id # NoCert /\ s.row.id.na > s.now
      pinned == s.row # None /\ s.row.id = NoCert /\ s.row.open
  IN  IF serving # None
      THEN IF s.force
           THEN Running(s, serving.id, 0, s.now, mine /\ s.row.open)
           ELSE IF mine
           THEN Running(s, serving.id, Clip(s, s.row.step), s.row.since, s.row.open)
           ELSE IF s.now >= serving.due
           THEN Running(s, serving.id, 0, serving.due, FALSE)
           ELSE AtRest(serving.due)
      ELSE IF lost
      THEN Running(s, s.row.id, Clip(s, s.row.step), s.row.since, s.row.open)
      ELSE [running |-> TRUE, id |-> NoCert, open |-> pinned,
            step |-> IF pinned THEN Clip(s, s.row.step) ELSE FirstAvailable(s),
            since |-> IF pinned THEN s.row.since ELSE s.now]

\* When the proxy may order: 0 for whenever it likes, None for never or for
\* no clock that says.
ProxyFrom(s) ==
  LET r == Resolve(s)
      id == IF r.running THEN r.id ELSE Serving(s).id
  IN  IF Chain(s) = <<>> \/ Chain(s) = <<"http01">> THEN 0
      ELSE IF Chain(s) = <<"canopy">> THEN None
      ELSE IF r.running /\ r.step = 1 THEN 0
      ELSE IF id.na = 0 THEN None
      ELSE Halfway(r.since, id.na)

ProxyMayOrder(s) == ProxyFrom(s) # None /\ ProxyFrom(s) <= s.now

-----------------------------------------------------------------------------
(***************************************************************************)
(* The decision for a hostname on a chain.                                 *)
(***************************************************************************)
Waits(s) == s.row # None /\ s.row.retry > s.now /\ ~s.force

Act(s) ==
  LET r == Resolve(s)
  IN  IF ~r.running \/ Chain(s)[r.step + 1] # "canopy" THEN "wait"
      ELSE IF s.block THEN "blocked"
      ELSE IF ~s.typed THEN "cannot"
      ELSE IF Waits(s) /\ s.row.id = r.id /\ ~r.open THEN "debounced"
      ELSE "ask"

CollectCanopy(s) ==
  LET r == Resolve(s)
      serving == Serving(s)
      refused == /\ s.row # None /\ serving # None
                 /\ s.row.id = serving.id /\ s.row.retry # 0
  IN  /\ s.typed /\ ~Waits(s) /\ r.running
      /\ r.open \/ (~refused /\ serving # None /\ serving.canopy)

Due(s) ==
  /\ Chain(s) # <<>>
  /\ \/ Act(s) = "ask"
     \/ Act(s) \in {"debounced", "wait"} /\ CollectCanopy(s)

Replacing(s) ==
  LET r == Resolve(s)
  IN  IF r.running THEN r.id
      ELSE IF Serving(s) = None THEN NoCert ELSE Serving(s).id

AskFor(s) ==
  LET r == Resolve(s)
  IN  IF Chain(s) = <<>> \/ ~r.running \/ ~s.typed THEN None
      ELSE [id |-> r.id, step |-> r.step, since |-> r.since, len |-> Len(Chain(s)),
            canopy |-> Chain(s)[r.step + 1] = "canopy"]

\* A revocation starts a cycle where it finds none running.
RevocationAsk(s) ==
  IF Chain(s) # <<>> /\ s.typed /\ ~Resolve(s).running
  THEN [id |-> NoCert, step |-> 0, since |-> s.now, len |-> Len(Chain(s)), canopy |-> TRUE]
  ELSE AskFor(s)

\* The position an operator's retry starts its cycle from.
Restart(id, now) == Row(id, 0, now, FALSE, 0)

-----------------------------------------------------------------------------
(***************************************************************************)
(* The attempt log, of which the unfinished attempts and the newest one    *)
(* are ever read: who opened each unfinished one, in the order of their    *)
(* ids, and the newest one itself.                                         *)
(***************************************************************************)
Attempt(by, out) == [by |-> by, out |-> out, at |-> IF out = "failure" THEN clock ELSE 0]

NoAttempts == [open |-> <<>>, newest |-> [by |-> "past", out |-> "none", at |-> 0]]

InsertAttempt(l, by) == [open |-> Append(l.open, by), newest |-> Attempt(by, "pending")]

LatestPending(l) == Len(l.open)

\* The latest unfinished attempt is the newest one, when that is unfinished.
CloseAttempt(l, out, logIfNone) ==
  IF LatestPending(l) # 0
  THEN [open |-> Front(l.open),
        newest |-> IF l.newest.out = "pending" THEN Attempt(l.newest.by, out) ELSE l.newest]
  ELSE IF logIfNone THEN [l EXCEPT !.newest = Attempt("canopy", out)] ELSE l

\* finalize_attempt of the one attempt an actor opened, finished by now or not.
FinalizeAttempt(l, by, out) ==
  LET K == {k \in DOMAIN l.open : l.open[k] = by}
  IN  [open |-> IF K = {} THEN l.open ELSE RemoveAt(l.open, CHOOSE k \in K : TRUE),
       newest |-> IF l.newest.by = by THEN Attempt("past", out) ELSE l.newest]

\* clear_chain_row closes the order the row carries.
ClearedLog(l) ==
  IF row # None /\ row.open THEN CloseAttempt(l, "failure", FALSE) ELSE l

-----------------------------------------------------------------------------
(***************************************************************************)
(* Storing certificates.                                                   *)
(***************************************************************************)
FreeIds == {i \in Ids : certs[i].state = "free"}

\* Ids are handed out in order and never again (AUTOINCREMENT).
NextId == CHOOSE i \in FreeIds : \A j \in FreeIds : i <= j

\* The arriving certificate retires the active ones that end no later.
Superseded(c, keep) ==
  [i \in Ids |-> IF i # keep /\ c[i].state = "active" /\ c[keep].na >= c[i].na
                 THEN [c[i] EXCEPT !.state = "superseded"] ELSE c[i]]

InsertAndSupersede(i, origin, na) ==
  Superseded([certs EXCEPT ![i] = [state |-> "active", origin |-> origin, nb |-> clock,
                                   na |-> na, born |-> clock]], i)

CanopyKeys ==
  {i \in Ids : certs[i].origin = "canopy" /\ certs[i].state \in {"csr_pending", "active"}}

\* Faulty form: the row is taken to be as it was when the key was read.
HeldStale(k) == certs[k].state # "deleted"

\* The row is still waiting for its certificate or holding one.
Held(k) == k \in CanopyKeys

\* A chain in service is replaced by a longer-lived one only.
Newer(k, na) == certs[k].state = "active" => na > certs[k].na

RevokeCert(k) ==
  IF Held(k) THEN [certs EXCEPT ![k].state = "revoked"] ELSE certs

-----------------------------------------------------------------------------
(***************************************************************************)
(* Applying an answer: one transaction.                                    *)
(***************************************************************************)
\* The recorded position, set to where the decision found the hostname.
Position(ask) ==
  IF row # None /\ row.id = ask.id
  THEN Row(ask.id, ask.step, ask.since, row.open, row.retry)
  ELSE Row(ask.id, ask.step, ask.since, FALSE, 0)

\* Faulty form: the position says whether an attempt is open.
PendingLogRow(ask) == IF Position(ask).open THEN log ELSE InsertAttempt(log, "canopy")

PendingLog(ask) == IF LatestPending(log) = 0 THEN InsertAttempt(log, "canopy") ELSE log

Pending(ask) ==
  /\ log' = PendingLog(ask)
  /\ row' = [Position(ask) EXCEPT !.open = TRUE, !.retry = 0]
  /\ UNCHANGED certs

Unavailable(ask) ==
  /\ row' = [Position(ask) EXCEPT !.retry = 0]
  /\ UNCHANGED <<certs, log>>

Issued(ask, k, na) ==
  IF na <= clock THEN Unavailable(ask)
  ELSE IF ~Newer(k, na) THEN Pending(ask)
  ELSE IF ~Held(k) THEN Unavailable(ask)
  ELSE /\ certs' = Superseded([certs EXCEPT ![k] = [certs[k] EXCEPT
                                 !.state = "active", !.nb = clock, !.na = na, !.born = clock]], k)
       /\ log' = ClearedLog(CloseAttempt(log, "success", TRUE))
       /\ row' = None

Refused(ask) ==
  LET passes == ask.canopy /\ ask.id # NoCert /\ ask.step + 1 < ask.len
  IN  /\ log' = CloseAttempt(log, "failure", TRUE)
      /\ row' = Row(ask.id, IF passes THEN ask.step + 1 ELSE ask.step,
                    IF passes THEN clock ELSE ask.since, FALSE, clock + Debounce)
      /\ UNCHANGED certs

\* A failed order and a rejected signing request leave the same state.
OrderFailed(ask) ==
  /\ log' = CloseAttempt(log, "failure", FALSE)
  /\ row' = [Position(ask) EXCEPT !.open = FALSE, !.retry = clock + Debounce]
  /\ UNCHANGED certs

\* Where a revocation leaves the hostname: with the strategy after Canopy,
\* the revoked certificate being the one to replace.
AfterRevocation(ask, k) ==
  IF certs[k].state = "active"
  THEN [ask EXCEPT !.id = [cert |-> k, na |-> certs[k].na],
                   !.step = IF ask.len > 1 THEN 1 ELSE 0, !.since = clock]
  ELSE ask

ApplyRevocation(ask, k) ==
  LET next == AfterRevocation(ask, k)
  IN  /\ certs' = RevokeCert(k)
      /\ log' = CloseAttempt(log, "failure", FALSE)
      /\ row' = Row(next.id, next.step, next.since, TRUE, 0)

-----------------------------------------------------------------------------
(***************************************************************************)
(* The report tick.                                                        *)
(***************************************************************************)
\* canopy_is_in_play: the hostname's app has a type, its policy names Canopy, or
\* something elsewhere does: another app, another policy, a fault still filed.
InPlay(elsewhere) == typed \/ policy = "canopy" \/ elsewhere

\* One reading for the whole tick, and the decisions made from it: what to
\* say about a revoked certificate, what to ask, and what to ask instead
\* when a queued retry starts its cycle first.  With Canopy out of play the
\* tick ends before it reads anything and nothing is told, asked or revoked.
TickRead(elsewhere) ==
  /\ tick.pc = "idle" /\ InPlay(elsewhere)
  /\ LET s == View
         told == {i \in condemned : certs[i].state = "active"}
         due == Due(s)
         again == [s EXCEPT !.row = Restart(Replacing(s), s.now), !.force = FALSE]
     IN  tick' = [pc |-> "read", told |-> told, due |-> due,
                  rev |-> IF told = {} THEN None ELSE RevocationAsk(s),
                  ask |-> IF due THEN AskFor(s) ELSE None,
                  restart |-> IF due /\ s.force
                              THEN [row |-> again.row, ask |-> AskFor(again)] ELSE None]
  /\ UNCHANGED <<clock, certs, row, log, force, block, policy, typed, offer, proxy,
                 condemned, acme, edits, crashes>>

\* condemned_by looks at what is stored now.
ToReplace ==
  {i \in tick.told : certs[i].state = "active" /\ certs[i].origin = "canopy"}

Question(ask, again) ==
  IF ask = None THEN Idle ELSE [pc |-> "key", ask |-> ask, again |-> again]

\* Faulty form: with the budget spent the revocation waits for a later tick.
RevokeCondemnedBudget(i, spent) ==
  IF spent THEN tick' = Idle /\ UNCHANGED <<certs, log, row>>
  ELSE IF tick.rev = None
  THEN /\ certs' = RevokeCert(i)
       /\ tick' = Idle
       /\ UNCHANGED <<log, row>>
  ELSE /\ ApplyRevocation(tick.rev, i)
       /\ tick' = Question(AfterRevocation(tick.rev, i), TRUE)

\* Off its chain the hostname only stops being served; on it the revocation
\* is recorded, and the replacement asked for while the budget lasts.
RevokeCondemned(i, spent) ==
  IF tick.rev = None
  THEN /\ certs' = RevokeCert(i)
       /\ tick' = Idle
       /\ UNCHANGED <<log, row>>
  ELSE /\ ApplyRevocation(tick.rev, i)
       /\ tick' = IF spent THEN Idle ELSE Question(AfterRevocation(tick.rev, i), TRUE)

ReplaceCondemned(spent) ==
  /\ tick.pc = "read"
  /\ \E i \in ToReplace : RevokeCondemned(i, spent)
  /\ UNCHANGED <<clock, force, block, policy, typed, offer, proxy, condemned, acme,
                 edits, crashes>>

\* start_cycle_for_force_retry: taken and recorded in one transaction.
StartCycle ==
  /\ force' = FALSE
  /\ row' = tick.restart.row

AskCanopy ==
  /\ tick.pc = "read" /\ ToReplace = {}
  /\ IF ~tick.due THEN tick' = Idle /\ UNCHANGED <<force, row>>
     ELSE IF tick.restart # None /\ force
     THEN StartCycle /\ tick' = Question(tick.restart.ask, FALSE)
     ELSE tick' = Question(tick.ask, FALSE) /\ UNCHANGED <<force, row>>
  /\ UNCHANGED <<clock, certs, log, block, policy, typed, offer, proxy, condemned,
                 acme, edits, crashes>>

\* The key is stored before the request goes out.
KeyFor ==
  /\ tick.pc = "key"
  /\ IF CanopyKeys # {}
     THEN /\ tick' = [pc |-> "sent", ask |-> tick.ask, again |-> tick.again,
                      key |-> CHOOSE i \in CanopyKeys : \A j \in CanopyKeys : j <= i]
          /\ UNCHANGED certs
     ELSE /\ FreeIds # {}
          /\ certs' = [certs EXCEPT ![NextId] =
               [state |-> "csr_pending", origin |-> "canopy", nb |-> 0, na |-> 0,
                born |-> clock]]
          /\ tick' = [pc |-> "sent", ask |-> tick.ask, again |-> tick.again, key |-> NextId]
  /\ UNCHANGED <<clock, row, log, force, block, policy, typed, offer, proxy, condemned,
                 acme, edits, crashes>>

\* The row a failure to ask leaves, for the position a.
FailedRow(a) ==
  Row(a.id, a.step, a.since, row # None /\ row.id = a.id /\ row.open, clock + Debounce)

\* Faulty form: recorded against the position the tick asked from.
FailedAtCaller == FailedRow([tick.ask EXCEPT !.step = 0])

\* Recorded against the position the engine left the hostname in.
FailedAt == FailedRow(tick.ask)

\* The stored key does not decrypt: record_engine_failure.
KeyFails ==
  /\ tick.pc = "key"
  /\ row' = FailedAt
  /\ tick' = Idle
  /\ UNCHANGED <<clock, certs, log, force, block, policy, typed, offer, proxy,
                 condemned, acme, edits, crashes>>

\* Canopy answers for a key it has condemned with its revocation, and for
\* another with a chain it made just now or before, or with none.
Answered ==
  LET a == tick.ask
      k == tick.key
  IN  \/ /\ k \notin condemned
         /\ \E na \in {clock + Life} \cup ({certs[k].na} \ {0}) : Issued(a, k, na)
         /\ tick' = Idle
      \/ /\ Pending(a) \/ Refused(a) \/ OrderFailed(a) \/ Unavailable(a)
         /\ tick' = Idle
      \/ /\ k \in condemned
         /\ ApplyRevocation(a, k)
         /\ tick' = IF tick.again THEN Idle ELSE Question(AfterRevocation(a, k), TRUE)

Apply ==
  /\ tick.pc = "sent"
  /\ Answered
  /\ UNCHANGED <<clock, force, block, policy, typed, offer, proxy, condemned, acme,
                 edits, crashes>>

-----------------------------------------------------------------------------
(***************************************************************************)
(* The ACME-DNS coordinator, for a hostname bound to it.                   *)
(***************************************************************************)
Debounced ==
  /\ log.newest.out = "failure"
  /\ log.newest.at + Debounce > clock

IssueNow ==
  /\ policy = "acme" /\ ~block
  /\ \/ force
     \/ /\ ~Debounced
        /\ \A i \in Active(View) : clock >= RenewalPoint(certs[i].nb, certs[i].na)

AcmeStart ==
  /\ acme = "idle" /\ IssueNow
  /\ FreeIds # {}
  /\ force' = FALSE
  /\ log' = InsertAttempt(log, "acme")
  /\ acme' = "open"
  /\ UNCHANGED <<clock, certs, row, block, policy, typed, offer, proxy, condemned,
                 tick, edits, crashes>>

AcmeStore ==
  /\ acme = "open" /\ FreeIds # {}
  /\ certs' = InsertAndSupersede(NextId, "acme", clock + Life)
  /\ acme' = "stored"
  /\ UNCHANGED <<clock, row, log, force, block, policy, typed, offer, proxy, condemned,
                 tick, edits, crashes>>

AcmeEnds(out) ==
  /\ acme = IF out = "success" THEN "stored" ELSE "open"
  /\ log' = FinalizeAttempt(log, "acme", out)
  /\ acme' = "idle"
  /\ UNCHANGED <<clock, certs, row, force, block, policy, typed, offer, proxy,
                 condemned, tick, edits, crashes>>

-----------------------------------------------------------------------------
(***************************************************************************)
(* Operators.                                                              *)
(***************************************************************************)
Edit == edits < MaxEdits /\ edits' = edits + 1

\* A policy set or cleared ends the cycle that ran under the one before it.
SetPolicy(p) ==
  /\ p # policy /\ Edit
  /\ policy' = p
  /\ log' = ClearedLog(log)
  /\ row' = None
  /\ UNCHANGED <<clock, certs, force, block, typed, offer, proxy, condemned, tick,
                 acme, crashes>>

\* The retry is queued, and settled at once where the tick will not take it.
Retry ==
  /\ Edit
  /\ block' = FALSE
  /\ LET s == [View EXCEPT !.force = TRUE, !.block = FALSE]
         taken == Act(s) \in {"ask", "debounced", "blocked"} \/ CollectCanopy(s)
     IN  IF Chain(s) = <<>> \/ taken
         THEN force' = TRUE /\ UNCHANGED row
         ELSE force' = FALSE /\ row' = Restart(Replacing(s), clock)
  /\ UNCHANGED <<clock, certs, log, policy, typed, offer, proxy, condemned, tick, acme,
                 crashes>>

SetBlock ==
  /\ ~block /\ Edit
  /\ block' = TRUE
  /\ UNCHANGED <<clock, certs, row, log, force, policy, typed, offer, proxy, condemned,
                 tick, acme, crashes>>

Upload(life) ==
  /\ FreeIds # {} /\ Edit
  /\ certs' = InsertAndSupersede(NextId, "manual", clock + life)
  /\ UNCHANGED <<clock, row, log, force, block, policy, typed, offer, proxy, condemned,
                 tick, acme, crashes>>

\* tls.cert.delete, and csr_cancel of a pending row.
Delete(i) ==
  /\ certs[i].state \notin {"free", "deleted"} /\ Edit
  /\ certs' = [certs EXCEPT ![i].state = "deleted"]
  /\ IF row # None /\ row.id.cert = i
     THEN row' = None /\ log' = ClearedLog(log)
     ELSE UNCHANGED <<row, log>>
  /\ UNCHANGED <<clock, force, block, policy, typed, offer, proxy, condemned, tick,
                 acme, crashes>>

\* An app gains or loses its Canopy type.
Retype ==
  /\ Edit
  /\ typed' = ~typed
  /\ UNCHANGED <<clock, certs, row, log, force, block, policy, offer, proxy, condemned,
                 tick, acme, crashes>>

-----------------------------------------------------------------------------
(***************************************************************************)
(* The world outside: the clock, the relay's offer, Canopy, the proxy.     *)
(***************************************************************************)
Elapse ==
  /\ clock < MaxTime
  /\ clock' = clock + 1
  /\ UNCHANGED <<certs, row, log, force, block, policy, typed, offer, proxy, condemned,
                 tick, acme, edits, crashes>>

Offer ==
  /\ Edit
  /\ offer' = ~offer
  /\ UNCHANGED <<clock, certs, row, log, force, block, policy, typed, proxy, condemned,
                 tick, acme, crashes>>

Condemn(i) ==
  /\ i \in CanopyKeys \ condemned /\ FreeIds # {}
  /\ condemned' = condemned \cup {i}
  /\ UNCHANGED <<clock, certs, row, log, force, block, policy, typed, offer, proxy, tick,
                 acme, edits, crashes>>

\* The certificate endpoint holds nothing for the hostname and lets the proxy
\* through, which orders or renews by its own issuer.
ProxyOrders ==
  /\ ~\E i \in Active(View) : certs[i].na > clock
  /\ ProxyMayOrder(View) /\ clock >= RenewalPoint(proxy - Life, proxy)
  /\ proxy' = clock + Life
  /\ UNCHANGED <<clock, certs, row, log, force, block, policy, typed, offer, condemned,
                 tick, acme, edits, crashes>>

Orphaned(by) == IF by = "acme" THEN "past" ELSE by

\* The database survives; the tick and the coordinator start over, and the
\* attempt the coordinator had open is nobody's.
Crash ==
  /\ crashes < MaxCrashes
  /\ crashes' = crashes + 1
  /\ tick' = Idle /\ acme' = "idle"
  /\ log' = [open |-> [k \in DOMAIN log.open |-> Orphaned(log.open[k])],
             newest |-> [log.newest EXCEPT !.by = Orphaned(log.newest.by)]]
  /\ UNCHANGED <<clock, certs, row, force, block, policy, typed, offer, proxy,
                 condemned, edits>>

-----------------------------------------------------------------------------
Init ==
  /\ clock = Start /\ row = None /\ log = NoAttempts
  /\ force = FALSE /\ block = FALSE /\ policy = "default"
  /\ typed = TRUE /\ offer = TRUE /\ condemned = {}
  /\ tick = Idle /\ acme = "idle" /\ edits = 0 /\ crashes = 0
  /\ \E w \in Worlds :
       /\ certs = [i \in Ids |->
                     IF w = "canopy" /\ i = 1
                     THEN [state |-> "active", origin |-> "canopy", nb |-> 1,
                           na |-> 1 + Life, born |-> 1]
                     ELSE Free]
       /\ proxy = IF w = "proxy" THEN 1 + Life ELSE 0

TickStep == \/ \E b \in BOOLEAN : TickRead(b) \/ ReplaceCondemned(b)
            \/ AskCanopy \/ KeyFor \/ KeyFails \/ Apply

Operator == \/ \E p \in Policies : SetPolicy(p)
            \/ Retry \/ SetBlock \/ Retype
            \/ \E life \in {2, Life} : Upload(life)
            \/ \E i \in Ids : Delete(i)

Issuance == AcmeStart \/ AcmeStore \/ (\E out \in {"success", "failure"} : AcmeEnds(out))

World == Elapse \/ Offer \/ ProxyOrders \/ (\E i \in Ids : Condemn(i))

Next == TickStep \/ Operator \/ Issuance \/ World \/ Crash

Spec == Init /\ [][Next]_vars

\* The report loop comes round: reports get through and every request is
\* answered or times out.  The hostname can only count on the tick to read
\* while it keeps Canopy in play itself; then some step of the tick is enabled
\* in every state, so this is weak fairness of TickStep, stated over the tick's
\* own progress.
ComesRound == []<>(tick.pc = "idle") /\ []<>(tick.pc = "read" \/ ~InPlay(FALSE))

FairSpec == Spec /\ ComesRound

-----------------------------------------------------------------------------
(***************************************************************************)
(* Properties.                                                             *)
(***************************************************************************)
Openers == {"canopy", "acme", "past"}

States == {"free", "csr_pending", "active", "superseded", "revoked", "deleted"}

\* Every row, position, attempt and question has the shape its table or type
\* has at each pause of the tick, and a question names a step its chain has.
TypeOK ==
  /\ clock \in Start..MaxTime
  /\ certs \in [Ids -> [state : States, origin : {None, "canopy", "acme", "manual"},
                        nb : Nat, na : Nat, born : Nat]]
  /\ row \in {None} \cup Positions
  /\ log \in [open : Seq(Openers),
               newest : [by : Openers, out : {"none", "pending", "success", "failure"},
                         at : Nat]]
  /\ force \in BOOLEAN /\ block \in BOOLEAN /\ typed \in BOOLEAN /\ offer \in BOOLEAN
  /\ policy \in {"default", "canopy", "acme"} /\ proxy \in Nat
  /\ condemned \subseteq Ids /\ acme \in {"idle", "open", "stored"}
  /\ tick.pc \in {"idle", "read", "key", "sent"}
  /\ tick.pc \in {"key", "sent"} => tick.ask \in Asks /\ tick.ask.step < tick.ask.len
  /\ tick.pc = "sent" => certs[tick.key].state # "free"

\* A hostname has one order with Canopy.  Only one key is in use, however often
\* the daemon dies between storing a key and hearing about it: find_canopy_key
\* sees the one that still waits (tls/canopy.rs key_for, tls/store.rs).  And only
\* one attempt is open in the log: a retry, a policy change or a revocation that
\* rewrites the position while an order is in flight never makes the next answer
\* open a second one (tls/canopy.rs pending asks the log and not the position).
OneOrder ==
  /\ Cardinality({i \in Ids : certs[i].origin = "canopy"
                              /\ certs[i].state \in {"csr_pending", "active"}}) <= 1
  /\ Cardinality({k \in DOMAIN log.open : log.open[k] = "canopy"}) <= 1

\* However often a cycle was restarted by retries, refusals, revocations and
\* answers that were on their way, a hostname on the default chain is with
\* the proxy by the last instant of the certificate it is served with
\* (chain.rs halfway, advance, proxy_from).
FallsThroughInTime ==
  /\ Len(Chain(View)) = 2 /\ Serving(View) # None
  /\ clock + 1 >= Serving(View).id.na
  => ProxyMayOrder(View)

\* An answer may come late or twice and does no harm.  A certificate that was
\* superseded, revoked or deleted never serves again (tls/store.rs
\* activate_canopy_chain), and a chain that serves is only replaced in its row by
\* one that lasts longer, so a repeated answer does not end the cycle that waits
\* for a renewal (tls/canopy.rs apply).
LateAnswersHarmless ==
  /\ [][\A i \in Ids : certs[i].state \in {"superseded", "revoked", "deleted"}
                       => certs'[i].state \in {certs[i].state, "deleted"}]_vars
  /\ [][\A i \in Ids : certs[i].state = "active" /\ certs'[i] # certs[i]
                       /\ certs'[i].state = "active" => certs'[i].na > certs[i].na]_vars

\* A question of the cycle that runs: asked under the default chain and, where
\* that cycle has no position on record, no later than from the renewal point.
OfThisCycle(a) ==
  /\ a.len = 2
  /\ /\ row = None \/ row.id # a.id
     /\ Serving(View) # None /\ Serving(View).id = a.id
     => a.step = 1 \/ a.since <= Serving(View).due

\* A cycle that passed to the proxy stays there: no answer, no failure to ask
\* and no crash brings the hostname back to Canopy, only an operator's retry
\* (chain.rs resolve, canopy/certificates.rs record_engine_failure).  The answer
\* is to a question of that cycle, which a policy change may have ended, and a
\* hostname has one position: that of another certificate replaces it.  And a
\* revocation hands the hostname on at once: after the step in which the
\* certificate it was served with is revoked, it is served with another or the
\* proxy may order (tls/canopy.rs apply_revocation).
PassesOn ==
  /\ [][LET before == Resolve(View)
            after == Resolve(View)'
        IN  /\ Len(Chain(View)) = 2 /\ Len(Chain(View))' = 2
            /\ before.running /\ before.step = 1 /\ before.id # NoCert
            /\ after.running /\ after.id = before.id
            /\ ~force /\ ~force' /\ ~Retry
            /\ tick.pc = "read" => tick.rev = None \/ tick.rev.len = 2
            /\ tick.pc \in {"key", "sent"} => OfThisCycle(tick.ask)
            /\ row # None /\ row' # None /\ row.id = before.id => row'.id = before.id
            => after.step = 1]_vars
  /\ [][/\ Serving(View) # None /\ Serving(View).id.cert # 0
        /\ certs'[Serving(View).id.cert].state = "revoked"
        /\ row' # None /\ Len(Chain(View)) = 2
        /\ tick.pc = "read" => tick.rev # None /\ tick.rev.len = 2
        /\ tick.pc = "sent" => tick.ask.len = 2
        => Serving(View)' # None \/ ProxyMayOrder(View)']_vars

\* Every revocation Canopy reports reaches the certificate, however busy the
\* ticks are (canopy/certificates.rs replace_condemned): again and again no
\* condemned certificate is in service, as long as the hostname keeps Canopy in
\* play.  Out of play the ticks read nothing and it is served on.
RevocationHeard ==
  []<>(~InPlay(FALSE) \/ \A i \in condemned : certs[i].state # "active")

=============================================================================
