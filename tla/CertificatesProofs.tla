------------------------- MODULE CertificatesProofs -------------------------
(***************************************************************************)
(* Theorems about Certificates, for every lifetime, debounce and bound.    *)
(*                                                                         *)
(* A decision outlives the state it was read in, so the invariant speaks   *)
(* of what the tick carries as well as of what the tables hold: every      *)
(* position, stored or carried, began in the past (Carried, Recorded), and *)
(* every certificate in service ends after it began (Lived).  From a       *)
(* reading with these properties the chain only computes positions with    *)
(* them (ResolveOK), and that is what makes the proxy's turn come in time. *)
(* That a cycle stays with the proxy needs more of the question in flight: *)
(* it was asked from no later than the position it will replace (Abreast). *)
(***************************************************************************)
EXTENDS Certificates, FiniteSetTheorems, WellFoundedInduction, TLAPS

Certificate == [state : States, origin : {None, "canopy", "acme", "manual"},
                nb : Nat, na : Nat, born : Nat]

\* Active certificates end after they began.
Lived(c) == \A i \in Ids : c[i].state = "active" => c[i].nb < c[i].na

\* A reading the chain can be resolved from.
Reading(s) ==
  /\ s.now \in Nat \ {0}
  /\ s.certs \in [Ids -> Certificate] /\ Lived(s.certs)
  /\ s.row # None => s.row \in Positions /\ s.row.since <= s.now
  /\ s.proxy \in Nat /\ (s.proxy # 0 => s.proxy > Life)

-----------------------------------------------------------------------------
(* What the chain computes from a reading.                                 *)

\* The four chains there are.
LEMMA ChainShape ==
  ASSUME NEW s
  PROVE  /\ Chain(s) \in {<<>>, <<"canopy">>, <<"http01">>, <<"canopy", "http01">>}
         /\ Len(Chain(s)) \in 0..2
         /\ Chain(s) # <<>> => Len(Chain(s)) >= 1
         /\ Len(Chain(s)) = 2 => Chain(s) = <<"canopy", "http01">>
<1>1. Chain(s) \in {<<>>, <<"canopy">>, <<"http01">>, <<"canopy", "http01">>}
  BY DEF Chain
<1> QED BY <1>1

\* A renewal point lies between the two ends of a certificate.
LEMMA RenewalBetween ==
  ASSUME NEW nb \in Nat, NEW na \in Nat, nb < na
  PROVE  RenewalPoint(nb, na) \in Nat /\ RenewalPoint(nb, na) < na
<1>1. PICK d \in Nat : d = na - nb /\ d > 0
  OBVIOUS
<1>2. (d * 2) \div 3 \in Nat /\ (d * 2) \div 3 < d
  BY <1>1
<1>3. RenewalPoint(nb, na) = nb + (d * 2) \div 3
  BY <1>1 DEF RenewalPoint
<1> QED BY <1>1, <1>2, <1>3

\* The certificate in service ends later and was due before that.
LEMMA ServingOK ==
  ASSUME NEW s, Reading(s), Serving(s) # None
  PROVE  /\ Serving(s).id \in Identity /\ Serving(s).id.na > s.now
         /\ Serving(s).due \in Nat /\ Serving(s).due < Serving(s).id.na
<1> DEFINE S == {i \in Active(s) : s.certs[i].na > s.now}
<1>1. CASE S # {}
  <2>1. PICK i : i = CHOOSE j \in S : TRUE
    OBVIOUS
  <2>2. i \in Ids /\ s.certs[i].state = "active" /\ s.certs[i].na > s.now
    BY <1>1, <2>1 DEF Active
  <2>3. s.certs[i] \in Certificate
    BY <2>2 DEF Reading
  <2>4. s.certs[i].nb \in Nat /\ s.certs[i].na \in Nat /\ s.certs[i].nb < s.certs[i].na
    BY <2>2, <2>3 DEF Reading, Certificate, Lived
  <2>5. Serving(s) = [id |-> [cert |-> i, na |-> s.certs[i].na],
                      due |-> RenewalPoint(s.certs[i].nb, s.certs[i].na),
                      canopy |-> s.certs[i].origin = "canopy"]
    BY <1>1, <2>1 DEF Serving
  <2>6. [cert |-> i, na |-> s.certs[i].na] \in Identity
    BY <2>2, <2>4 DEF Identity
  <2> QED BY <2>2, <2>4, <2>5, <2>6, RenewalBetween
<1>2. CASE S = {}
  <2>1. s.proxy > s.now
    BY <1>2 DEF Serving
  <2>2. s.proxy \in Nat /\ s.now \in Nat /\ Life \in Nat \ {0} /\ s.proxy > Life
    BY <2>1, Bounds DEF Reading
  <2>3. Serving(s) = [id |-> [cert |-> 0, na |-> s.proxy],
                      due |-> RenewalPoint(s.proxy - Life, s.proxy), canopy |-> FALSE]
    BY <1>2, <2>1 DEF Serving
  <2>4. [cert |-> 0, na |-> s.proxy] \in Identity
    BY <2>2 DEF Identity
  <2>5. s.proxy - Life \in Nat /\ s.proxy - Life < s.proxy
    BY <2>2
  <2> QED BY <2>1, <2>2, <2>3, <2>4, <2>5, RenewalBetween
<1> QED BY <1>1, <1>2

\* Half of what is left lies between now and the end.
LEMMA HalfwayBetween ==
  ASSUME NEW since \in Nat, NEW expiry \in Nat
  PROVE  /\ Halfway(since, expiry) \in Nat /\ since <= Halfway(since, expiry)
         /\ since < expiry => Halfway(since, expiry) < expiry
<1>1. PICK d : d = IF expiry > since THEN expiry - since ELSE 0
  OBVIOUS
<1>0. d \in Nat /\ (expiry > since => d = expiry - since /\ d > 0)
  BY <1>1
<1>2. d \div 2 \in Nat /\ (d > 0 => d \div 2 < d)
  BY <1>0
<1>3. Halfway(since, expiry) = since + d \div 2
  BY <1>1 DEF Halfway
<1> QED BY <1>0, <1>2, <1>3

\* A fall-through leads to a strategy the chain has, from a time that has come.
LEMMA RunningOK ==
  ASSUME NEW s, s.now \in Nat, NEW id \in Identity, NEW step \in 0..1, step < Len(Chain(s)),
         NEW since \in Nat, since <= s.now, NEW open
  PROVE  LET r == Running(s, id, step, since, open)
         IN  /\ r.running /\ r.id = id /\ r.step \in 0..1 /\ r.step < Len(Chain(s))
             /\ r.since \in Nat /\ r.since <= s.now
             /\ Len(Chain(s)) = 2 /\ id.na > s.now /\ s.now + 1 >= id.na => r.step = 1
<1>1. PICK n \in 0..2 : n = Len(Chain(s))
  BY ChainShape
<1>2. id.na \in Nat
  BY DEF Identity
<1>3. PICK h : h = Halfway(since, id.na)
  OBVIOUS
<1>4. h \in Nat /\ since <= h /\ (since < id.na => h < id.na)
  BY <1>2, <1>3, HalfwayBetween
<1>5. PICK a : a = Advance(n, step, since, id, s.now)
  OBVIOUS
<1>6. /\ a.step \in 0..1 /\ a.step < n /\ a.since \in Nat /\ a.since <= s.now
      /\ n = 2 /\ id.na > s.now /\ s.now + 1 >= id.na => a.step = 1
  <2>1. CASE id.na # 0 /\ step + 1 < n /\ h <= s.now
    <3>1. a = [step |-> step + 1, since |-> h]
      BY <2>1, <1>3, <1>5 DEF Advance
    <3>2. n \in {0, 1, 2} /\ step \in {0, 1}
      OBVIOUS
    <3>4. step = 0 /\ n = 2
      BY <2>1, <3>2
    <3>3. a.step = step + 1 /\ a.since = h
      BY <3>1
    <3> QED BY <3>4, <3>3, <2>1, <1>4
  <2>2. CASE ~(id.na # 0 /\ step + 1 < n /\ h <= s.now)
    <3>1. a = [step |-> step, since |-> since]
      BY <2>2, <1>3, <1>5 DEF Advance
    <3>2. n = 2 /\ id.na > s.now /\ s.now + 1 >= id.na => h <= s.now
      BY <1>2, <1>4
    <3>3. n = 2 /\ id.na > s.now /\ s.now + 1 >= id.na => step = 1
      BY <2>2, <3>2, <1>2
    <3> QED BY <3>1, <3>3, <1>1
  <2> QED BY <2>1, <2>2
<1>7. Running(s, id, step, since, open)
        = [running |-> TRUE, id |-> id, step |-> a.step, since |-> a.since, open |-> open]
  BY <1>1, <1>5 DEF Running
<1> QED BY <1>1, <1>6, <1>7

\* What resolve finds running runs a strategy of the chain since a time that
\* has come; and in the last instant of the certificate in service it is the
\* proxy's turn on the default chain.
LEMMA ResolveOK ==
  ASSUME NEW s, Reading(s), Chain(s) # <<>>
  PROVE  LET r == Resolve(s)
         IN  /\ r.running => /\ r.id \in Identity /\ r.step \in 0..1 /\ r.step < Len(Chain(s))
                             /\ r.since \in Nat /\ r.since <= s.now
             /\ /\ Len(Chain(s)) = 2 /\ Serving(s) # None /\ s.now + 1 >= Serving(s).id.na
                => r.running /\ r.step = 1
<1> DEFINE serving == Serving(s)
           mine == s.row # None /\ serving # None /\ s.row.id = serving.id
           lost == s.row # None /\ s.row.id # NoCert /\ s.row.id.na > s.now
           pinned == s.row # None /\ s.row.id = NoCert /\ s.row.open
           Good(r) == r.running => /\ r.id \in Identity /\ r.step \in 0..1
                                   /\ r.step < Len(Chain(s))
                                   /\ r.since \in Nat /\ r.since <= s.now
           Passes(r) == /\ Len(Chain(s)) = 2 /\ Serving(s) # None
                        /\ s.now + 1 >= Serving(s).id.na
                        => r.running /\ r.step = 1
<1>1. Len(Chain(s)) \in 1..2
  BY ChainShape
<1>2. s.now \in Nat /\ NoCert \in Identity
  BY DEF Reading, NoCert, Identity
<1>3. s.row # None => /\ s.row.id \in Identity /\ Clip(s, s.row.step) \in 0..1
                      /\ Clip(s, s.row.step) < Len(Chain(s))
                      /\ s.row.since \in Nat /\ s.row.since <= s.now
  <2> SUFFICES ASSUME s.row # None
               PROVE  /\ s.row.id \in Identity /\ Clip(s, s.row.step) \in 0..1
                      /\ Clip(s, s.row.step) < Len(Chain(s))
                      /\ s.row.since \in Nat /\ s.row.since <= s.now
    OBVIOUS
  <2>1. s.row \in Positions /\ s.row.since <= s.now
    BY DEF Reading
  <2>2. s.row.id \in Identity /\ s.row.step \in 0..1 /\ s.row.since \in Nat
    BY <2>1 DEF Positions
  <2> QED BY <1>1, <2>1, <2>2 DEF Clip
<1>4. 0 \in 0..1 /\ 0 < Len(Chain(s))
  BY <1>1
<1>5. CASE serving # None
  <2>1. /\ serving.id \in Identity /\ serving.id.na > s.now
        /\ serving.due \in Nat /\ serving.due < serving.id.na
    BY <1>5, ServingOK
  <2>2. \A open : \A step \in 0..1, since \in Nat :
          step < Len(Chain(s)) /\ since <= s.now
          => Good(Running(s, serving.id, step, since, open))
             /\ Passes(Running(s, serving.id, step, since, open))
    BY <1>2, <2>1, RunningOK
  <2>3. CASE s.force
    <3>1. PICK o : o = (mine /\ s.row.open)
      OBVIOUS
    <3>2. Resolve(s) = Running(s, serving.id, 0, s.now, o)
      BY <1>5, <2>3, <3>1 DEF Resolve
    <3>3. PICK t \in Nat : t = s.now /\ t <= s.now
      BY <1>2
    <3>4. Good(Running(s, serving.id, 0, t, o)) /\ Passes(Running(s, serving.id, 0, t, o))
      BY <1>4, <2>2, <3>3
    <3> QED BY <3>2, <3>3, <3>4
  <2>4. CASE ~s.force /\ mine
    <3>1. Resolve(s) = Running(s, serving.id, Clip(s, s.row.step), s.row.since, s.row.open)
      BY <1>5, <2>4 DEF Resolve
    <3>2. PICK c : c = Clip(s, s.row.step)
      OBVIOUS
    <3>3. c \in 0..1 /\ c < Len(Chain(s)) /\ s.row.since \in Nat /\ s.row.since <= s.now
      BY <1>3, <2>4, <3>2
    <3>4. PICK t \in Nat : t = s.row.since /\ t <= s.now
      BY <3>3
    <3>5. PICK o : o = s.row.open
      OBVIOUS
    <3>6. Good(Running(s, serving.id, c, t, o)) /\ Passes(Running(s, serving.id, c, t, o))
      BY <2>2, <3>3, <3>4
    <3>7. Resolve(s) = Running(s, serving.id, c, t, o)
      BY <3>1, <3>2, <3>4, <3>5
    <3> QED BY <3>6, <3>7
  <2>5. CASE ~s.force /\ ~mine /\ s.now >= serving.due
    <3>1. Resolve(s) = Running(s, serving.id, 0, serving.due, FALSE)
      BY <1>5, <2>5 DEF Resolve
    <3>2. serving.due \in Nat /\ serving.due <= s.now
      BY <1>2, <2>1, <2>5
    <3>3. PICK f : f = FALSE
      OBVIOUS
    <3>4. Good(Running(s, serving.id, 0, serving.due, f))
          /\ Passes(Running(s, serving.id, 0, serving.due, f))
      BY <1>4, <2>2, <3>2
    <3> QED BY <3>1, <3>3, <3>4
  <2>6. CASE ~s.force /\ ~mine /\ ~(s.now >= serving.due)
    <3>1. Resolve(s) = AtRest(serving.due)
      BY <1>5, <2>6 DEF Resolve
    <3>2. Resolve(s).running = FALSE
      BY <3>1 DEF AtRest
    <3>3. serving.id.na \in Nat
      BY <2>1 DEF Identity
    <3>4. ~(s.now + 1 >= serving.id.na)
      BY <1>2, <2>1, <2>6, <3>3
    <3> QED BY <3>2, <3>4
  <2> QED BY <2>3, <2>4, <2>5, <2>6
<1>6. CASE serving = None /\ lost
  <2>1. Resolve(s) = Running(s, s.row.id, Clip(s, s.row.step), s.row.since, s.row.open)
    BY <1>6 DEF Resolve
  <2>2. PICK c : c = Clip(s, s.row.step)
    OBVIOUS
  <2>3. /\ s.row.id \in Identity /\ c \in 0..1 /\ c < Len(Chain(s))
        /\ s.row.since \in Nat /\ s.row.since <= s.now
    BY <1>3, <1>6, <2>2
  <2>4. Good(Running(s, s.row.id, c, s.row.since, s.row.open))
    BY <1>2, <2>3, RunningOK
  <2> QED BY <1>6, <2>1, <2>2, <2>4
<1>7. CASE serving = None /\ ~lost
  <2>1. PICK c : c = IF pinned THEN Clip(s, s.row.step) ELSE FirstAvailable(s)
    OBVIOUS
  <2>2. PICK t : t = IF pinned THEN s.row.since ELSE s.now
    OBVIOUS
  <2>3. Resolve(s) = [running |-> TRUE, id |-> NoCert, open |-> pinned, step |-> c, since |-> t]
    BY <1>7, <2>1, <2>2 DEF Resolve
  <2>4. FirstAvailable(s) \in 0..1 /\ FirstAvailable(s) < Len(Chain(s))
    BY <1>1 DEF FirstAvailable
  <2>5. c \in 0..1 /\ c < Len(Chain(s))
    BY <1>3, <2>1, <2>4
  <2>6. t \in Nat /\ t <= s.now
    BY <1>2, <1>3, <2>2
  <2>7. Good(Resolve(s))
    BY <1>2, <2>3, <2>5, <2>6
  <2> QED BY <1>7, <2>7
<1> QED BY <1>5, <1>6, <1>7

\* A question the tick may carry: from a position of the chain, of the past.
AskOK(a, now) == a \in Asks /\ a.step < a.len /\ a.since <= now

LEMMA AskForOK ==
  ASSUME NEW s, Reading(s), AskFor(s) # None
  PROVE  AskOK(AskFor(s), s.now)
<1>1. PICK r : r = Resolve(s)
  OBVIOUS
<1>2. Chain(s) # <<>> /\ r.running
  BY <1>1 DEF AskFor
<1>3. /\ r.id \in Identity /\ r.step \in 0..1 /\ r.step < Len(Chain(s))
      /\ r.since \in Nat /\ r.since <= s.now
  BY <1>1, <1>2, ResolveOK
<1>4. Len(Chain(s)) \in 1..2
  BY <1>2, ChainShape
<1>5. AskFor(s) = [id |-> r.id, step |-> r.step, since |-> r.since, len |-> Len(Chain(s)),
                   canopy |-> Chain(s)[r.step + 1] = "canopy"]
  BY <1>1 DEF AskFor
<1>6. (Chain(s)[r.step + 1] = "canopy") \in BOOLEAN
  OBVIOUS
<1> QED BY <1>3, <1>4, <1>5, <1>6 DEF AskOK, Asks

LEMMA RevocationAskOK ==
  ASSUME NEW s, Reading(s), RevocationAsk(s) # None
  PROVE  AskOK(RevocationAsk(s), s.now)
<1>1. CASE Chain(s) # <<>> /\ s.typed /\ ~Resolve(s).running
  <2>1. RevocationAsk(s)
          = [id |-> NoCert, step |-> 0, since |-> s.now, len |-> Len(Chain(s)), canopy |-> TRUE]
    BY <1>1 DEF RevocationAsk
  <2>2. Len(Chain(s)) \in 1..2
    BY <1>1, ChainShape
  <2>3. s.now \in Nat /\ NoCert \in Identity
    BY DEF Reading, NoCert, Identity
  <2> QED BY <2>1, <2>2, <2>3 DEF AskOK, Asks
<1>2. CASE ~(Chain(s) # <<>> /\ s.typed /\ ~Resolve(s).running)
  <2>1. RevocationAsk(s) = AskFor(s)
    BY <1>2 DEF RevocationAsk
  <2> QED BY <2>1, AskForOK
<1> QED BY <1>1, <1>2

\* A restarted cycle is a position of the past, and so is what it asks from.
LEMMA RestartOK ==
  ASSUME NEW s, Reading(s), Chain(s) # <<>>
  PROVE  Restart(Replacing(s), s.now) \in Positions /\ Restart(Replacing(s), s.now).since <= s.now
<1>1. Replacing(s) \in Identity
  <2>1. Resolve(s).running => Resolve(s).id \in Identity
    BY ResolveOK
  <2>2. Serving(s) # None => Serving(s).id \in Identity
    BY ServingOK
  <2>3. NoCert \in Identity
    BY DEF NoCert, Identity
  <2> QED BY <2>1, <2>2, <2>3 DEF Replacing
<1>2. s.now \in Nat
  BY DEF Reading
<1> QED BY <1>1, <1>2 DEF Restart, Row, Positions

-----------------------------------------------------------------------------
(* The certificates.                                                       *)

\* At most one key is in use with Canopy.
OneKey(c) ==
  \A i, j \in Ids : /\ c[i].origin = "canopy" /\ c[i].state \in {"csr_pending", "active"}
                    /\ c[j].origin = "canopy" /\ c[j].state \in {"csr_pending", "active"}
                    => i = j

CertsOK(c) == c \in [Ids -> Certificate] /\ Lived(c) /\ OneKey(c)

\* What a step may do to the rows: one that is not free stays so, one that is
\* over stays over, and one in service gets a longer-lived chain or none.
RowsMove(c, d) ==
  \A i \in Ids :
    /\ c[i].state # "free" => d[i].state # "free"
    /\ c[i].state \in {"superseded", "revoked", "deleted"}
       => d[i].state \in {c[i].state, "deleted"}
    /\ c[i].state = "active" /\ d[i] # c[i] /\ d[i].state = "active" => d[i].na > c[i].na

\* Retiring the others is harmless.
LEMMA SupersededOK ==
  ASSUME NEW c, CertsOK(c), NEW k \in Ids
  PROVE  /\ CertsOK(Superseded(c, k))
         /\ \A i \in Ids : \/ Superseded(c, k)[i] = c[i]
                           \/ c[i].state = "active" /\ Superseded(c, k)[i].state = "superseded"
<1>1. PICK d : d = Superseded(c, k)
  OBVIOUS
<1>2. c \in [Ids -> Certificate]
  BY DEF CertsOK
<1>3. \A i \in Ids : /\ c[i] \in Certificate
                     /\ [c[i] EXCEPT !.state = "superseded"] \in Certificate
                     /\ [c[i] EXCEPT !.state = "superseded"].state = "superseded"
  BY <1>2 DEF Certificate, States
<1>4. /\ d = [i \in Ids |-> d[i]]
      /\ \A i \in Ids : \/ d[i] = c[i]
                        \/ c[i].state = "active" /\ d[i] = [c[i] EXCEPT !.state = "superseded"]
  BY <1>1 DEF Superseded
<1>5. d \in [Ids -> Certificate]
  BY <1>2, <1>3, <1>4
<1>6. \A i \in Ids : \/ d[i] = c[i]
                     \/ c[i].state = "active" /\ d[i].state = "superseded"
  BY <1>3, <1>4
<1>7. Lived(d) /\ OneKey(d)
  BY <1>6 DEF CertsOK, Lived, OneKey
<1> QED BY <1>1, <1>5, <1>6, <1>7 DEF CertsOK

\* Row k becomes r.
Becomes(c, d, k, r) ==
  d \in [Ids -> Certificate] /\ d[k] = r /\ \A i \in Ids \ {k} : d[i] = c[i]

LEMMA ExceptBecomes ==
  ASSUME NEW c \in [Ids -> Certificate], NEW k \in Ids, NEW r \in Certificate
  PROVE  Becomes(c, [c EXCEPT ![k] = r], k, r)
BY DEF Becomes

\* A row of another origin than Canopy's arrives in a free one.
LEMMA InsertOK ==
  ASSUME CertsOK(certs), clock \in Nat, NEW k \in Ids, certs[k].state = "free",
         NEW origin \in {"acme", "manual"}, NEW na \in Nat, na > clock
  PROVE  /\ CertsOK(InsertAndSupersede(k, origin, na))
         /\ RowsMove(certs, InsertAndSupersede(k, origin, na))
<1>1. PICK r : r = [state |-> "active", origin |-> origin, nb |-> clock, na |-> na, born |-> clock]
  OBVIOUS
<1>2. r \in Certificate /\ r.state = "active" /\ r.origin # "canopy" /\ r.nb < r.na
  BY <1>1 DEF Certificate, States
<1>3. PICK c : c = [certs EXCEPT ![k] = r]
  OBVIOUS
<1>4. Becomes(certs, c, k, r)
  BY <1>2, <1>3, ExceptBecomes DEF CertsOK
<1>5. c \in [Ids -> Certificate] /\ Lived(c) /\ OneKey(c)
  BY <1>2, <1>4 DEF Becomes, CertsOK, Lived, OneKey
<1>6. CertsOK(c)
  BY <1>5 DEF CertsOK
<1>7. RowsMove(certs, Superseded(c, k))
  <2> SUFFICES ASSUME NEW i \in Ids, NEW d, d = Superseded(c, k)
               PROVE  /\ certs[i].state # "free" => d[i].state # "free"
                      /\ certs[i].state \in {"superseded", "revoked", "deleted"}
                         => d[i].state \in {certs[i].state, "deleted"}
                      /\ certs[i].state = "active" /\ d[i] # certs[i] /\ d[i].state = "active"
                         => d[i].na > certs[i].na
    BY DEF RowsMove
  <2>1. d[i] = c[i] \/ (c[i].state = "active" /\ d[i].state = "superseded")
    BY <1>6, SupersededOK
  <2>2. i # k => c[i] = certs[i]
    BY <1>4 DEF Becomes
  <2>3. CASE i = k
    BY <2>3
  <2>4. CASE i # k
    BY <2>1, <2>2, <2>4
  <2> QED BY <2>3, <2>4
<1>8. InsertAndSupersede(k, origin, na) = Superseded(c, k)
  BY <1>1, <1>3 DEF InsertAndSupersede
<1> QED BY <1>6, <1>7, <1>8, SupersededOK

\* A key of our own for Canopy, when none is in use.
LEMMA NewKeyOK ==
  ASSUME CertsOK(certs), clock \in Nat, NEW k \in Ids, certs[k].state = "free", CanopyKeys = {},
         certs' = [certs EXCEPT ![k] = [state |-> "csr_pending", origin |-> "canopy",
                                        nb |-> 0, na |-> 0, born |-> clock]]
  PROVE  CertsOK(certs') /\ RowsMove(certs, certs') /\ certs'[k].state # "free"
<1>1. PICK r : r = [state |-> "csr_pending", origin |-> "canopy", nb |-> 0, na |-> 0, born |-> clock]
  OBVIOUS
<1>2. r \in Certificate /\ r.state = "csr_pending"
  BY <1>1 DEF Certificate, States
<1>3. Becomes(certs, certs', k, r)
  BY <1>1, <1>2, ExceptBecomes DEF CertsOK
<1>4. \A i \in Ids : ~(certs[i].origin = "canopy" /\ certs[i].state \in {"csr_pending", "active"})
  BY DEF CanopyKeys
<1>5. CertsOK(certs')
  BY <1>2, <1>3, <1>4 DEF Becomes, CertsOK, Lived, OneKey
<1>6. RowsMove(certs, certs')
  BY <1>2, <1>3 DEF Becomes, RowsMove
<1> QED BY <1>2, <1>3, <1>5, <1>6 DEF Becomes

\* A row is given up: revoked while it is held, or deleted.
LEMMA GivenUpOK ==
  ASSUME CertsOK(certs), NEW k \in Ids, NEW st \in {"revoked", "deleted"},
         certs' = [certs EXCEPT ![k].state = st],
         st = "revoked" => certs[k].state \in {"csr_pending", "active"}
  PROVE  CertsOK(certs') /\ RowsMove(certs, certs')
<1>1. PICK r : r = [certs[k] EXCEPT !.state = st]
  OBVIOUS
<1>2. certs[k] \in Certificate
  BY DEF CertsOK
<1>3. r \in Certificate /\ r.state = st
  BY <1>1, <1>2 DEF Certificate, States
<1>4. Becomes(certs, certs', k, r)
  BY <1>1, <1>3, ExceptBecomes DEF CertsOK
<1>5. CertsOK(certs')
  BY <1>3, <1>4 DEF Becomes, CertsOK, Lived, OneKey
<1>6. RowsMove(certs, certs')
  BY <1>3, <1>4 DEF Becomes, RowsMove
<1> QED BY <1>5, <1>6

LEMMA RevokeCertOK ==
  ASSUME CertsOK(certs), NEW k \in Ids, certs' = RevokeCert(k)
  PROVE  CertsOK(certs') /\ RowsMove(certs, certs')
<1>1. CASE Held(k)
  <2>1. certs' = [certs EXCEPT ![k].state = "revoked"]
    BY <1>1 DEF RevokeCert
  <2>2. certs[k].state \in {"csr_pending", "active"}
    BY <1>1 DEF Held, CanopyKeys
  <2> QED BY <2>1, <2>2, GivenUpOK
<1>2. CASE ~Held(k)
  BY <1>2 DEF RevokeCert, RowsMove
<1> QED BY <1>1, <1>2

\* The chain arrives for a key that is held.
LEMMA ChainArrives ==
  ASSUME CertsOK(certs), clock \in Nat, NEW k \in Ids, Held(k), NEW na \in Nat, na > clock,
         Newer(k, na),
         certs' = Superseded([certs EXCEPT ![k] = [certs[k] EXCEPT
                                !.state = "active", !.nb = clock, !.na = na, !.born = clock]], k)
  PROVE  CertsOK(certs') /\ RowsMove(certs, certs')
<1>2. PICK r : r = [certs[k] EXCEPT !.state = "active", !.nb = clock, !.na = na, !.born = clock]
  OBVIOUS
<1>1. PICK c : c = [certs EXCEPT ![k] = r]
  OBVIOUS
<1>3. certs \in [Ids -> Certificate] /\ certs[k] \in Certificate
  BY DEF CertsOK
<1>4. r \in Certificate /\ r.state = "active" /\ r.nb < r.na /\ r.na = na
      /\ r.origin = certs[k].origin
  BY <1>2, <1>3 DEF Certificate, States
<1>6. Becomes(certs, c, k, r)
  BY <1>1, <1>3, <1>4, ExceptBecomes
<1>7. certs[k].origin = "canopy" /\ certs[k].state \in {"csr_pending", "active"}
  BY DEF Held, CanopyKeys
<1>8. c \in [Ids -> Certificate] /\ Lived(c) /\ OneKey(c)
  BY <1>4, <1>6, <1>7 DEF Becomes, CertsOK, Lived, OneKey
<1>9. CertsOK(c)
  BY <1>8 DEF CertsOK
<1>10. certs' = Superseded(c, k)
  BY <1>1, <1>2
<1>11. RowsMove(certs, certs')
  <2> SUFFICES ASSUME NEW i \in Ids
               PROVE  /\ certs[i].state # "free" => certs'[i].state # "free"
                      /\ certs[i].state \in {"superseded", "revoked", "deleted"}
                         => certs'[i].state \in {certs[i].state, "deleted"}
                      /\ certs[i].state = "active" /\ certs'[i] # certs[i]
                         /\ certs'[i].state = "active" => certs'[i].na > certs[i].na
    BY DEF RowsMove
  <2>1. certs'[i] = c[i] \/ (c[i].state = "active" /\ certs'[i].state = "superseded")
    BY <1>9, <1>10, SupersededOK
  <2>2. i # k => c[i] = certs[i]
    BY <1>6 DEF Becomes
  <2>3. CASE i = k
    <3>1. c[k].state = "active" /\ c[k].na = na
      BY <1>4, <1>6 DEF Becomes
    <3>2. certs[k].state = "active" => na > certs[k].na
      BY DEF Newer
    <3> QED BY <2>1, <2>3, <3>1, <3>2, <1>7
  <2>4. CASE i # k
    BY <2>1, <2>2, <2>4
  <2> QED BY <2>3, <2>4
<1> QED BY <1>9, <1>10, <1>11, SupersededOK

\* A non-empty set of numbers has a least element.
LEMMA LeastOf ==
  ASSUME NEW T, T \subseteq Nat, T # {}
  PROVE  \E x \in T : \A y \in T : x <= y
<1> DEFINE R == OpToRel(<, Nat)
<1>1. IsWellFoundedOn(R, Nat) /\ \A x, y \in Nat : y < x => <<y, x>> \in R
  BY NatLessThanWellFounded DEF OpToRel
<1> HIDE DEF R
<1>2. PICK x \in T : \A y \in T : ~(<<y, x>> \in R)
  BY <1>1, WFMin
<1>3. \A y \in T : x \in Nat /\ y \in Nat /\ ~(y < x)
  BY <1>1, <1>2
<1>4. \A y \in T : x <= y
  BY <1>3
<1> QED BY <1>2, <1>4

\* AUTOINCREMENT hands out a row that is free.
LEMMA NextIdFree ==
  ASSUME FreeIds # {}
  PROVE  NextId \in Ids /\ certs[NextId].state = "free"
<1>1. FreeIds \subseteq Nat
  BY DEF FreeIds, Ids
<1>2. \E i \in FreeIds : \A j \in FreeIds : i <= j
  BY <1>1, LeastOf
<1>3. NextId \in FreeIds
  BY <1>2 DEF NextId
<1> QED BY <1>3 DEF FreeIds

\* find_canopy_key returns the key in use, there being one only.
LEMMA KeyInUse ==
  ASSUME OneKey(certs), CanopyKeys # {}
  PROVE  (CHOOSE i \in CanopyKeys : \A j \in CanopyKeys : j <= i) \in CanopyKeys
<1>1. PICK k \in CanopyKeys : \A j \in CanopyKeys : j = k
  BY DEF OneKey, CanopyKeys
<1>2. k \in Nat
  BY DEF CanopyKeys, Ids
<1>3. \A j \in CanopyKeys : j <= k
  BY <1>1, <1>2
<1> QED BY <1>3

-----------------------------------------------------------------------------
(* The attempt log.                                                        *)

Attempts == [by : Openers, out : {"none", "pending", "success", "failure"}, at : Nat]
Logs == [open : Seq(Openers), newest : Attempts]

\* At most one unfinished attempt is Canopy's.
OneOpen(o) == \A j, k \in DOMAIN o : o[j] = "canopy" /\ o[k] = "canopy" => j = k

LogOK(l) == l \in Logs /\ OneOpen(l.open)

LEMMA AttemptType ==
  ASSUME clock \in Nat, NEW by \in Openers, NEW out \in {"pending", "success", "failure"}
  PROVE  Attempt(by, out) \in Attempts
BY DEF Attempt, Attempts

\* Closing the latest attempt, or logging one that is over.
LEMMA CloseOK ==
  ASSUME clock \in Nat, NEW l, LogOK(l), NEW out \in {"success", "failure"}
  PROVE  LogOK(CloseAttempt(l, out, TRUE)) /\ LogOK(CloseAttempt(l, out, FALSE))
<1>1. l.open \in Seq(Openers) /\ l.newest \in Attempts /\ OneOpen(l.open) /\ l.newest.by \in Openers
  BY DEF LogOK, Logs, Attempts
<1>2. Attempt(l.newest.by, out) \in Attempts /\ Attempt("canopy", out) \in Attempts
  BY <1>1, AttemptType DEF Openers
<1>3. CASE LatestPending(l) # 0
  <2>1. PICK o : o = Front(l.open)
    OBVIOUS
  <2>2. Len(l.open) \in Nat \ {0}
    BY <1>1, <1>3 DEF LatestPending
  <2>3. o \in Seq(Openers) /\ \A k \in DOMAIN o : k \in DOMAIN l.open /\ o[k] = l.open[k]
    BY <1>1, <2>1, <2>2 DEF Front
  <2>4. OneOpen(o)
    BY <1>1, <2>3 DEF OneOpen
  <2>5. PICK n \in Attempts :
          n = IF l.newest.out = "pending" THEN Attempt(l.newest.by, out) ELSE l.newest
    BY <1>1, <1>2
  <2>6. LogOK([open |-> o, newest |-> n])
    BY <2>3, <2>4, <2>5 DEF LogOK, Logs
  <2> QED BY <1>3, <2>1, <2>5, <2>6 DEF CloseAttempt
<1>4. CASE ~(LatestPending(l) # 0)
  <2>1. LogOK([l EXCEPT !.newest = Attempt("canopy", out)])
    BY <1>1, <1>2 DEF LogOK, Logs
  <2> QED BY <1>4, <2>1 DEF CloseAttempt
<1> QED BY <1>3, <1>4

\* An attempt of Canopy's is opened only when none is open.
LEMMA PendingOK ==
  ASSUME clock \in Nat, LogOK(log), NEW ask
  PROVE  LogOK(PendingLog(ask))
<1>1. CASE LatestPending(log) = 0
  <2>1. log.open \in Seq(Openers) /\ Len(log.open) = 0
    BY <1>1 DEF LogOK, Logs, LatestPending
  <2>2. PICK o : o = Append(log.open, "canopy")
    OBVIOUS
  <2>3. o \in Seq(Openers) /\ Len(o) = 1
    BY <2>1, <2>2 DEF Openers
  <2>4. OneOpen(o)
    BY <2>3 DEF OneOpen
  <2>5. Attempt("canopy", "pending") \in Attempts
    BY AttemptType DEF Openers
  <2>6. LogOK([open |-> o, newest |-> Attempt("canopy", "pending")])
    BY <2>3, <2>4, <2>5 DEF LogOK, Logs
  <2> QED BY <1>1, <2>2, <2>6 DEF PendingLog, InsertAttempt
<1>2. CASE LatestPending(log) # 0
  BY <1>2 DEF PendingLog
<1> QED BY <1>1, <1>2

LEMMA AcmeOpensOK ==
  ASSUME clock \in Nat, LogOK(log)
  PROVE  LogOK(InsertAttempt(log, "acme"))
<1>1. log.open \in Seq(Openers) /\ OneOpen(log.open)
  BY DEF LogOK, Logs
<1>2. PICK o : o = Append(log.open, "acme")
  OBVIOUS
<1>3. /\ o \in Seq(Openers) /\ Len(o) = Len(log.open) + 1 /\ o[Len(o)] = "acme"
      /\ \A k \in DOMAIN o : k # Len(o) => k \in DOMAIN log.open /\ o[k] = log.open[k]
  BY <1>1, <1>2 DEF Openers
<1>4. OneOpen(o)
  BY <1>1, <1>3 DEF OneOpen
<1>5. Attempt("acme", "pending") \in Attempts
  BY AttemptType DEF Openers
<1>6. LogOK([open |-> o, newest |-> Attempt("acme", "pending")])
  BY <1>3, <1>4, <1>5 DEF LogOK, Logs
<1> QED BY <1>2, <1>6 DEF InsertAttempt

\* Taking an element out keeps the others apart.
LEMMA RemoveOK ==
  ASSUME NEW o \in Seq(Openers), OneOpen(o), NEW k \in DOMAIN o
  PROVE  RemoveAt(o, k) \in Seq(Openers) /\ OneOpen(RemoveAt(o, k))
<1>1. k \in 1..Len(o) /\ Len(o) \in Nat
  OBVIOUS
<1>2. PICK a, b : a = SubSeq(o, 1, k - 1) /\ b = SubSeq(o, k + 1, Len(o))
  OBVIOUS
<1>3. a \in Seq(Openers) /\ Len(a) = k - 1 /\ \A i \in 1..Len(a) : a[i] = o[i]
  BY <1>1, <1>2
<1>4. b \in Seq(Openers) /\ Len(b) = Len(o) - k /\ \A i \in 1..Len(b) : b[i] = o[k + i]
  BY <1>1, <1>2
<1>5. PICK c : c = RemoveAt(o, k)
  OBVIOUS
<1>6. c = a \o b
  BY <1>2, <1>5 DEF RemoveAt
<1>7. /\ c \in Seq(Openers) /\ DOMAIN c = 1..(Len(o) - 1)
      /\ \A i \in 1..(Len(o) - 1) : c[i] = o[IF i < k THEN i ELSE i + 1]
  BY <1>1, <1>3, <1>4, <1>6
<1>8. OneOpen(c)
  <2> SUFFICES ASSUME NEW i \in 1..(Len(o) - 1), NEW j \in 1..(Len(o) - 1),
                      c[i] = "canopy", c[j] = "canopy"
               PROVE  i = j
    BY <1>7 DEF OneOpen
  <2>1. PICK m, n \in DOMAIN o : /\ m = IF i < k THEN i ELSE i + 1
                                 /\ n = IF j < k THEN j ELSE j + 1
    BY <1>1
  <2>2. o[m] = "canopy" /\ o[n] = "canopy"
    BY <1>7, <2>1
  <2>3. m = n
    BY <2>2 DEF OneOpen
  <2> QED BY <1>1, <2>1, <2>3
<1> QED BY <1>5, <1>7, <1>8

LEMMA FinalizeOK ==
  ASSUME clock \in Nat, LogOK(log), NEW out \in {"success", "failure"}
  PROVE  LogOK(FinalizeAttempt(log, "acme", out))
<1>1. log.open \in Seq(Openers) /\ log.newest \in Attempts /\ OneOpen(log.open)
  BY DEF LogOK, Logs
<1> DEFINE K == {k \in DOMAIN log.open : log.open[k] = "acme"}
<1>2. PICK o : o = IF K = {} THEN log.open ELSE RemoveAt(log.open, CHOOSE k \in K : TRUE)
  OBVIOUS
<1>3. o \in Seq(Openers) /\ OneOpen(o)
  <2>1. CASE K = {}
    BY <1>1, <1>2, <2>1
  <2>2. CASE K # {}
    <3>1. PICK k : k = CHOOSE j \in K : TRUE
      OBVIOUS
    <3>2. k \in DOMAIN log.open
      BY <2>2, <3>1
    <3> QED BY <1>1, <1>2, <2>2, <3>1, <3>2, RemoveOK
  <2> QED BY <2>1, <2>2
<1>4. Attempt("past", out) \in Attempts
  BY AttemptType DEF Openers
<1>5. PICK n \in Attempts :
        n = IF log.newest.by = "acme" THEN Attempt("past", out) ELSE log.newest
  BY <1>1, <1>4
<1>6. LogOK([open |-> o, newest |-> n])
  BY <1>3, <1>5 DEF LogOK, Logs
<1> QED BY <1>2, <1>5, <1>6 DEF FinalizeAttempt

LEMMA OrphanedOK ==
  ASSUME LogOK(log)
  PROVE  LogOK([open |-> [k \in DOMAIN log.open |-> Orphaned(log.open[k])],
                newest |-> [log.newest EXCEPT !.by = Orphaned(log.newest.by)]])
<1>1. log.open \in Seq(Openers) /\ log.newest \in Attempts /\ OneOpen(log.open)
  BY DEF LogOK, Logs
<1>2. \A b \in Openers : Orphaned(b) \in Openers /\ (Orphaned(b) = "canopy" => b = "canopy")
  BY DEF Orphaned, Openers
<1>3. PICK o : o = [k \in DOMAIN log.open |-> Orphaned(log.open[k])]
  OBVIOUS
<1>4. \A k \in DOMAIN log.open : log.open[k] \in Openers
  BY <1>1
<1>5. PICK m \in Nat : DOMAIN log.open = 1..m
  BY <1>1
<1>6. o \in [1..m -> Openers]
  BY <1>2, <1>3, <1>4, <1>5
<1>7. o \in Seq(Openers)
  BY <1>6
<1>8. OneOpen(o)
  BY <1>1, <1>2, <1>3, <1>4 DEF OneOpen
<1>9. [log.newest EXCEPT !.by = Orphaned(log.newest.by)] \in Attempts
  BY <1>1, <1>2 DEF Attempts
<1> QED BY <1>3, <1>7, <1>8, <1>9 DEF LogOK, Logs

\* A set whose elements are all the same has at most one.
LEMMA AtMostOne ==
  ASSUME NEW S, \A x, y \in S : x = y
  PROVE  Cardinality(S) <= 1
<1>1. CASE S = {}
  BY <1>1, FS_EmptySet
<1>2. CASE S # {}
  <2>1. PICK x \in S : S = {x}
    BY <1>2
  <2> QED BY <2>1, FS_Singleton
<1> QED BY <1>1, <1>2

\* clear_chain_row closes at most one attempt.
LEMMA ClearedOK ==
  ASSUME clock \in Nat, NEW l, LogOK(l)
  PROVE  LogOK(ClearedLog(l))
BY CloseOK DEF ClearedLog

-----------------------------------------------------------------------------
(* The inductive invariant.                                                *)

ClockOK == clock \in Start..MaxTime

\* The recorded position is of the past.
PosOK(r, now) == r # None => r \in Positions /\ r.since <= now
Recorded == PosOK(row, clock)

\* The proxy's certificate has had its whole life.
ProxyOK == proxy \in Nat /\ (proxy # 0 => proxy > Life)

\* So is what the tick has decided, and its key is a row that was stored.
TickOK(t, now) ==
  /\ t.pc \in {"idle", "read", "key", "sent"}
  /\ t.pc = "read" =>
       /\ t.told \subseteq Ids
       /\ t.rev # None => AskOK(t.rev, now)
       /\ t.ask # None => AskOK(t.ask, now)
       /\ t.restart # None => /\ PosOK(t.restart.row, now)
                              /\ t.restart.ask # None => AskOK(t.restart.ask, now)
  /\ t.pc \in {"key", "sent"} => AskOK(t.ask, now)
  /\ t.pc = "sent" => t.key \in Ids
Carried == TickOK(tick, clock)
KeyStored == tick.pc = "sent" => certs[tick.key].state # "free"

Flags == /\ force \in BOOLEAN /\ block \in BOOLEAN /\ typed \in BOOLEAN /\ offer \in BOOLEAN
         /\ policy \in {"default", "canopy", "acme"}
         /\ condemned \subseteq Ids /\ acme \in {"idle", "open", "stored"}

IInv == /\ ClockOK /\ CertsOK(certs) /\ LogOK(log) /\ Recorded /\ ProxyOK /\ Carried
        /\ KeyStored /\ Flags

LEMMA ClockNat ==
  ASSUME ClockOK
  PROVE  clock \in Nat \ {0}
BY Bounds DEF ClockOK

\* What the invariant says of a reading, whatever retry is queued.
LEMMA ViewOK ==
  ASSUME IInv
  PROVE  /\ Reading(View) /\ View.now = clock /\ View.row = row
         /\ Reading([View EXCEPT !.force = TRUE, !.block = FALSE])
         /\ [View EXCEPT !.force = TRUE, !.block = FALSE].now = clock
<1>1. clock \in Nat \ {0}
  BY ClockNat DEF IInv
<1> QED BY <1>1 DEF IInv, CertsOK, Recorded, PosOK, ProxyOK, Reading, View

-----------------------------------------------------------------------------
(* The clock, the flags and the proxy.                                     *)

LEMMA QuietStep ==
  ASSUME IInv, [Next]_vars
  PROVE  ClockOK' /\ Flags' /\ ProxyOK' /\ clock' \in Nat /\ clock <= clock'
<1>1. clock \in Nat \ {0} /\ Life \in Nat \ {0}
  BY ClockNat, Bounds DEF IInv
<1>2. Policies \subseteq {"default", "canopy", "acme"}
  BY Bounds
<1>3. ClockOK' /\ clock' \in Nat /\ clock <= clock'
  <2>1. CASE Elapse
    <3>1. clock' = clock + 1 /\ clock < MaxTime
      BY <2>1 DEF Elapse
    <3> QED BY <1>1, <3>1, Bounds DEF ClockOK, IInv
  <2>2. CASE UNCHANGED clock
    BY <1>1, <2>2 DEF ClockOK, IInv
  <2>3. Elapse \/ UNCHANGED clock
    BY DEF Next, TickStep, Operator, Issuance, World, vars, TickRead, ReplaceCondemned, AskCanopy,
           KeyFor, KeyFails, Apply, SetPolicy, Retry, SetBlock, Retype, Upload, Delete, AcmeStart,
           AcmeStore, AcmeEnds, Offer, ProxyOrders, Condemn, Crash
  <2> QED BY <2>1, <2>2, <2>3
<1>4. ProxyOK'
  <2>1. CASE ProxyOrders
    <3>1. proxy' = clock + Life
      BY <2>1 DEF ProxyOrders
    <3> QED BY <1>1, <3>1 DEF ProxyOK
  <2>2. CASE UNCHANGED proxy
    BY <2>2 DEF ProxyOK, IInv
  <2>3. ProxyOrders \/ UNCHANGED proxy
    BY DEF Next, TickStep, Operator, Issuance, World, vars, TickRead, ReplaceCondemned, AskCanopy,
           KeyFor, KeyFails, Apply, SetPolicy, Retry, SetBlock, Retype, Upload, Delete, AcmeStart,
           AcmeStore, AcmeEnds, Offer, Elapse, Condemn, Crash
  <2> QED BY <2>1, <2>2, <2>3
<1>5. force' \in BOOLEAN
  <2>1. \/ force' = TRUE \/ force' = FALSE \/ UNCHANGED force
    BY Zenon DEF Next, TickStep, Operator, Issuance, World, vars, TickRead, ReplaceCondemned, AskCanopy,
           StartCycle, KeyFor, KeyFails, Apply, SetPolicy, Retry, SetBlock, Retype, Upload, Delete,
           AcmeStart, AcmeStore, AcmeEnds, Offer, ProxyOrders, Elapse, Condemn, Crash
  <2> QED BY <2>1, Zenon DEF IInv, Flags
<1>6. block' \in BOOLEAN
  <2>1. \/ block' = TRUE \/ block' = FALSE \/ UNCHANGED block
    BY Zenon DEF Next, TickStep, Operator, Issuance, World, vars, TickRead, ReplaceCondemned, AskCanopy,
           KeyFor, KeyFails, Apply, SetPolicy, Retry, SetBlock, Retype, Upload, Delete,
           AcmeStart, AcmeStore, AcmeEnds, Offer, ProxyOrders, Elapse, Condemn, Crash
  <2> QED BY <2>1, Zenon DEF IInv, Flags
<1>7. typed' \in BOOLEAN
  <2>1. \/ typed' = ~typed \/ UNCHANGED typed
    BY Zenon DEF Next, TickStep, Operator, Issuance, World, vars, TickRead, ReplaceCondemned, AskCanopy,
           KeyFor, KeyFails, Apply, SetPolicy, Retry, SetBlock, Retype, Upload, Delete,
           AcmeStart, AcmeStore, AcmeEnds, Offer, ProxyOrders, Elapse, Condemn, Crash
  <2> QED BY <2>1, Zenon DEF IInv, Flags
<1>8. offer' \in BOOLEAN
  <2>1. \/ offer' = ~offer \/ UNCHANGED offer
    BY Zenon DEF Next, TickStep, Operator, Issuance, World, vars, TickRead, ReplaceCondemned, AskCanopy,
           KeyFor, KeyFails, Apply, SetPolicy, Retry, SetBlock, Retype, Upload, Delete,
           AcmeStart, AcmeStore, AcmeEnds, Offer, ProxyOrders, Elapse, Condemn, Crash
  <2> QED BY <2>1, Zenon DEF IInv, Flags
<1>9. policy' \in {"default", "canopy", "acme"}
  <2>1. (\E p \in Policies : policy' = p) \/ UNCHANGED policy
    BY Zenon DEF Next, TickStep, Operator, Issuance, World, vars, TickRead, ReplaceCondemned, AskCanopy,
           KeyFor, KeyFails, Apply, SetPolicy, Retry, SetBlock, Retype, Upload, Delete,
           AcmeStart, AcmeStore, AcmeEnds, Offer, ProxyOrders, Elapse, Condemn, Crash
  <2> QED BY <1>2, <2>1 DEF IInv, Flags
<1>10. condemned' \subseteq Ids
  <2>1. (\E i \in Ids : condemned' = condemned \cup {i}) \/ UNCHANGED condemned
    BY Zenon DEF Next, TickStep, Operator, Issuance, World, vars, TickRead, ReplaceCondemned, AskCanopy,
           KeyFor, KeyFails, Apply, SetPolicy, Retry, SetBlock, Retype, Upload, Delete,
           AcmeStart, AcmeStore, AcmeEnds, Offer, ProxyOrders, Elapse, Condemn, Crash
  <2> QED BY <2>1 DEF IInv, Flags
<1>11. acme' \in {"idle", "open", "stored"}
  <2>1. acme' \in {"idle", "open", "stored"} \/ UNCHANGED acme
    BY Zenon DEF Next, TickStep, Operator, Issuance, World, vars, TickRead, ReplaceCondemned, AskCanopy,
           KeyFor, KeyFails, Apply, SetPolicy, Retry, SetBlock, Retype, Upload, Delete,
           AcmeStart, AcmeStore, AcmeEnds, Offer, ProxyOrders, Elapse, Condemn, Crash
  <2> QED BY <2>1 DEF IInv, Flags
<1> QED BY <1>3, <1>4, <1>5, <1>6, <1>7, <1>8, <1>9, <1>10, <1>11, Zenon DEF Flags

-----------------------------------------------------------------------------
(* The certificates, step by step.                                         *)

\* An answer, applied: the certificates stay in order.
LEMMA ApplyCerts ==
  ASSUME IInv, Apply
  PROVE  CertsOK(certs') /\ RowsMove(certs, certs')
<1>1. PICK k : k = tick.key
  OBVIOUS
<1>2. k \in Ids /\ CertsOK(certs) /\ clock \in Nat /\ Life \in Nat \ {0}
  BY <1>1, ClockNat, Bounds DEF IInv, Apply, Carried, TickOK
<1>3. certs[k].na \in Nat
  BY <1>2 DEF CertsOK, Certificate
<1>4. RowsMove(certs, certs)
  BY DEF RowsMove
<1>5. CASE \E na \in {clock + Life} \cup ({certs[k].na} \ {0}) : Issued(tick.ask, k, na)
  <2>1. PICK na \in {clock + Life} \cup ({certs[k].na} \ {0}) : Issued(tick.ask, k, na)
    BY <1>5
  <2>2. na \in Nat
    BY <1>2, <1>3
  <2>3. \/ UNCHANGED certs
        \/ /\ ~(na <= clock) /\ Newer(k, na) /\ Held(k)
           /\ certs' = Superseded([certs EXCEPT ![k] = [certs[k] EXCEPT
                         !.state = "active", !.nb = clock, !.na = na, !.born = clock]], k)
    BY <2>1 DEF Issued, Unavailable, Pending
  <2>4. ~(na <= clock) => na > clock
    BY <1>2, <2>2
  <2> QED BY <1>2, <1>4, <2>2, <2>3, <2>4, ChainArrives
<1>6. CASE Pending(tick.ask) \/ Refused(tick.ask) \/ OrderFailed(tick.ask) \/ Unavailable(tick.ask)
  BY <1>2, <1>4, <1>6 DEF Pending, Refused, OrderFailed, Unavailable
<1>7. CASE ApplyRevocation(tick.ask, k)
  <2>1. certs' = RevokeCert(k)
    BY <1>7 DEF ApplyRevocation
  <2> QED BY <1>2, <2>1, RevokeCertOK
<1> QED BY <1>1, <1>5, <1>6, <1>7 DEF Apply, Answered

\* The key a request is sent for is stored and in use.
LEMMA KeyForCerts ==
  ASSUME IInv, KeyFor
  PROVE  /\ CertsOK(certs') /\ RowsMove(certs, certs')
         /\ tick'.pc = "sent" /\ tick'.ask = tick.ask /\ tick'.key \in Ids
         /\ certs'[tick'.key].state # "free"
<1>1. CertsOK(certs) /\ OneKey(certs) /\ clock \in Nat
  BY ClockNat DEF IInv, CertsOK
<1>2. CASE CanopyKeys # {}
  <2>1. PICK k : k = CHOOSE i \in CanopyKeys : \A j \in CanopyKeys : j <= i
    OBVIOUS
  <2>2. k \in CanopyKeys
    BY <1>1, <1>2, <2>1, KeyInUse
  <2>3. /\ tick' = [pc |-> "sent", ask |-> tick.ask, again |-> tick.again, key |-> k]
        /\ UNCHANGED certs
    BY <1>2, <2>1 DEF KeyFor
  <2>4. k \in Ids /\ certs[k].state # "free"
    BY <2>2 DEF CanopyKeys
  <2>5. RowsMove(certs, certs)
    BY DEF RowsMove
  <2> QED BY <1>1, <2>3, <2>4, <2>5
<1>3. CASE CanopyKeys = {}
  <2>1. PICK k : k = NextId
    OBVIOUS
  <2>2. /\ FreeIds # {}
        /\ certs' = [certs EXCEPT ![k] = [state |-> "csr_pending", origin |-> "canopy",
                                          nb |-> 0, na |-> 0, born |-> clock]]
        /\ tick' = [pc |-> "sent", ask |-> tick.ask, again |-> tick.again, key |-> k]
    BY <1>3, <2>1 DEF KeyFor
  <2>3. k \in Ids /\ certs[k].state = "free"
    BY <2>1, <2>2, NextIdFree
  <2>4. CertsOK(certs') /\ RowsMove(certs, certs') /\ certs'[k].state # "free"
    BY <1>1, <1>3, <2>2, <2>3, NewKeyOK
  <2> QED BY <2>2, <2>3, <2>4
<1> QED BY <1>2, <1>3

LEMMA CertsStep ==
  ASSUME IInv, [Next]_vars
  PROVE  CertsOK(certs') /\ RowsMove(certs, certs')
<1>1. CertsOK(certs) /\ clock \in Nat /\ Life \in Nat \ {0} /\ clock + Life > clock
  BY ClockNat, Bounds DEF IInv
<1>2. CASE \E b \in BOOLEAN : ReplaceCondemned(b)
  <2>1. PICK i \in ToReplace : certs' = RevokeCert(i)
    BY <1>2 DEF ReplaceCondemned, RevokeCondemned, ApplyRevocation
  <2>2. tick.pc = "read"
    BY <1>2 DEF ReplaceCondemned
  <2>3. i \in Ids
    BY <2>1, <2>2 DEF ToReplace, IInv, Carried, TickOK
  <2> QED BY <1>1, <2>1, <2>3, RevokeCertOK
<1>3. CASE KeyFor
  BY <1>3, KeyForCerts
<1>4. CASE Apply
  BY <1>4, ApplyCerts
<1>5. CASE AcmeStore
  <2>1. FreeIds # {} /\ certs' = InsertAndSupersede(NextId, "acme", clock + Life)
    BY <1>5 DEF AcmeStore
  <2>2. PICK k : k = NextId
    OBVIOUS
  <2>3. k \in Ids /\ certs[k].state = "free"
    BY <2>1, <2>2, NextIdFree
  <2>4. PICK na \in Nat : na = clock + Life /\ na > clock
    BY <1>1
  <2> QED BY <1>1, <2>1, <2>2, <2>3, <2>4, InsertOK
<1>6. CASE \E life \in {2, Life} : Upload(life)
  <2>1. PICK life \in {2, Life} : Upload(life)
    BY <1>6
  <2>2. FreeIds # {} /\ certs' = InsertAndSupersede(NextId, "manual", clock + life)
    BY <2>1 DEF Upload
  <2>3. PICK k : k = NextId
    OBVIOUS
  <2>4. k \in Ids /\ certs[k].state = "free"
    BY <2>2, <2>3, NextIdFree
  <2>5. PICK na \in Nat : na = clock + life /\ na > clock
    BY <1>1
  <2> QED BY <1>1, <2>2, <2>3, <2>4, <2>5, InsertOK
<1>7. CASE \E i \in Ids : Delete(i)
  <2>1. PICK i \in Ids : Delete(i)
    BY <1>7
  <2>2. certs' = [certs EXCEPT ![i].state = "deleted"]
    BY <2>1 DEF Delete
  <2> QED BY <1>1, <2>2, GivenUpOK
<1>8. CASE UNCHANGED certs
  BY <1>1, <1>8 DEF RowsMove
<1>9. \/ (\E b \in BOOLEAN : ReplaceCondemned(b)) \/ KeyFor \/ Apply \/ AcmeStore
      \/ (\E life \in {2, Life} : Upload(life)) \/ (\E i \in Ids : Delete(i)) \/ UNCHANGED certs
  BY Zenon DEF Next, TickStep, Operator, Issuance, World, vars, TickRead, AskCanopy, KeyFails, SetPolicy,
     Retry, SetBlock, Retype, AcmeStart, AcmeEnds, Offer, ProxyOrders, Elapse, Condemn, Crash
<1> QED BY <1>2, <1>3, <1>4, <1>5, <1>6, <1>7, <1>8, <1>9

-----------------------------------------------------------------------------
(* The log, step by step.                                                  *)

LEMMA LogStep ==
  ASSUME IInv, [Next]_vars
  PROVE  LogOK(log')
<1>1. LogOK(log) /\ clock \in Nat
  BY ClockNat DEF IInv
<1>2. LogOK(CloseAttempt(log, "failure", FALSE)) /\ LogOK(CloseAttempt(log, "failure", TRUE))
      /\ LogOK(CloseAttempt(log, "success", TRUE))
  BY <1>1, CloseOK
<1>3. LogOK(ClearedLog(log)) /\ LogOK(ClearedLog(CloseAttempt(log, "success", TRUE)))
  BY <1>1, <1>2, ClearedOK
<1>4. CASE \E b \in BOOLEAN : ReplaceCondemned(b)
  BY <1>1, <1>2, <1>4 DEF ReplaceCondemned, RevokeCondemned, ApplyRevocation
<1>5. CASE Apply
  <2>1. \/ UNCHANGED log \/ log' = PendingLog(tick.ask)
        \/ log' = ClearedLog(CloseAttempt(log, "success", TRUE))
        \/ log' = CloseAttempt(log, "failure", TRUE) \/ log' = CloseAttempt(log, "failure", FALSE)
    BY <1>5, Zenon DEF Apply, Answered, Issued, Pending, Unavailable, Refused, OrderFailed, ApplyRevocation
  <2>2. LogOK(PendingLog(tick.ask))
    BY <1>1, PendingOK
  <2> QED BY <1>1, <1>2, <1>3, <2>1, <2>2
<1>6. CASE AcmeStart
  BY <1>1, <1>6, AcmeOpensOK DEF AcmeStart
<1>7. CASE \E out \in {"success", "failure"} : AcmeEnds(out)
  BY <1>1, <1>7, FinalizeOK DEF AcmeEnds
<1>8. CASE Crash
  BY <1>1, <1>8, OrphanedOK DEF Crash
<1>9. CASE log' = ClearedLog(log) \/ UNCHANGED log
  BY <1>1, <1>3, <1>9
<1>10. \/ (\E b \in BOOLEAN : ReplaceCondemned(b)) \/ Apply \/ AcmeStart \/ Crash
       \/ (\E out \in {"success", "failure"} : AcmeEnds(out)) \/ log' = ClearedLog(log)
       \/ UNCHANGED log
  BY Zenon DEF Next, TickStep, Operator, Issuance, World, vars, TickRead, AskCanopy, KeyFor, KeyFails,
     SetPolicy, Retry, SetBlock, Retype, Upload, Delete, AcmeStore, Offer, ProxyOrders, Elapse, Condemn
<1> QED BY <1>4, <1>5, <1>6, <1>7, <1>8, <1>9, <1>10

-----------------------------------------------------------------------------
(* The position, step by step.                                             *)

LEMMA Later ==
  ASSUME NEW m \in Nat, NEW n \in Nat, m <= n
  PROVE  /\ \A a : AskOK(a, m) => AskOK(a, n)
         /\ \A r : PosOK(r, m) => PosOK(r, n)
         /\ \A t : TickOK(t, m) => TickOK(t, n)
<1>1. \A a : AskOK(a, m) => AskOK(a, n)
  BY DEF AskOK, Asks
<1>2. \A r : PosOK(r, m) => PosOK(r, n)
  BY DEF PosOK, Positions
<1>3. \A t : TickOK(t, m) => TickOK(t, n)
  BY <1>1, <1>2, Zenon DEF TickOK
<1> QED BY <1>1, <1>2, <1>3

\* A position written for a question is of the past, however it is marked.
LEMMA PositionOK ==
  ASSUME IInv, NEW ask, AskOK(ask, clock)
  PROVE  /\ PosOK([Position(ask) EXCEPT !.open = TRUE, !.retry = 0], clock)
         /\ PosOK([Position(ask) EXCEPT !.retry = 0], clock)
         /\ PosOK([Position(ask) EXCEPT !.open = FALSE, !.retry = clock + Debounce], clock)
<1>1. clock \in Nat /\ clock + Debounce \in Nat
  BY ClockNat, Bounds DEF IInv
<1>2. ask.id \in Identity /\ ask.step \in 0..1 /\ ask.since \in Nat /\ ask.since <= clock
  BY DEF AskOK, Asks
<1>3. row # None => row.open \in BOOLEAN /\ row.retry \in Nat
  BY DEF IInv, Recorded, PosOK, Positions
<1>4. Position(ask) \in Positions /\ Position(ask).since = ask.since
  <2>1. CASE row # None /\ row.id = ask.id
    BY <1>2, <1>3, <2>1 DEF Position, Row, Positions
  <2>2. CASE ~(row # None /\ row.id = ask.id)
    BY <1>2, <2>2 DEF Position, Row, Positions
  <2> QED BY <2>1, <2>2
<1>5. PICK p : p = Position(ask)
  OBVIOUS
<1>6. p \in Positions /\ p.since <= clock
  BY <1>2, <1>4, <1>5
<1> QED BY <1>1, <1>5, <1>6 DEF PosOK, Positions

LEMMA RefusedOK ==
  ASSUME IInv, NEW ask, AskOK(ask, clock), Refused(ask)
  PROVE  PosOK(row', clock)
<1>1. clock \in Nat /\ clock + Debounce \in Nat
  BY ClockNat, Bounds DEF IInv
<1>2. /\ ask.id \in Identity /\ ask.step \in 0..1 /\ ask.since \in Nat /\ ask.since <= clock
      /\ ask.len \in 1..2
  BY DEF AskOK, Asks
<1> DEFINE passes == ask.canopy /\ ask.id # NoCert /\ ask.step + 1 < ask.len
<1>3. PICK st : st = IF passes THEN ask.step + 1 ELSE ask.step
  OBVIOUS
<1>4. PICK t : t = IF passes THEN clock ELSE ask.since
  OBVIOUS
<1>5. st \in 0..1
  <2>1. passes => ask.step + 1 < ask.len
    OBVIOUS
  <2> HIDE DEF passes
  <2> QED BY <1>2, <1>3, <2>1
<1>6. t \in Nat /\ t <= clock
  BY <1>1, <1>2, <1>4
<1>7. row' = Row(ask.id, st, t, FALSE, clock + Debounce)
  BY <1>3, <1>4 DEF Refused
<1> QED BY <1>1, <1>2, <1>5, <1>6, <1>7 DEF PosOK, Positions, Row

\* The question a revocation leads to, and the position it leaves.
LEMMA AfterRevocationOK ==
  ASSUME IInv, NEW ask, AskOK(ask, clock), NEW k \in Ids
  PROVE  /\ AskOK(AfterRevocation(ask, k), clock)
         /\ PosOK(Row(AfterRevocation(ask, k).id, AfterRevocation(ask, k).step,
                      AfterRevocation(ask, k).since, TRUE, 0), clock)
<1>1. clock \in Nat
  BY ClockNat DEF IInv
<1>2. certs[k].na \in Nat
  BY DEF IInv, CertsOK, Certificate
<1>3. PICK a : a = AfterRevocation(ask, k)
  OBVIOUS
<1>4. AskOK(a, clock)
  <2>1. CASE certs[k].state = "active"
    <3>1. PICK id \in Identity : id = [cert |-> k, na |-> certs[k].na]
      BY <1>2 DEF Identity
    <3>2. PICK st \in 0..1 : st = IF ask.len > 1 THEN 1 ELSE 0
      OBVIOUS
    <3>3. a = [ask EXCEPT !.id = id, !.step = st, !.since = clock]
      BY <1>3, <2>1, <3>1, <3>2 DEF AfterRevocation
    <3>4. ask \in Asks /\ ask.len \in 1..2
      BY DEF AskOK, Asks
    <3>5. st < ask.len
      BY <3>2, <3>4
    <3>6. a \in Asks /\ a.step = st /\ a.len = ask.len /\ a.since = clock
      BY <1>1, <3>3, <3>4 DEF Asks
    <3> QED BY <1>1, <3>5, <3>6 DEF AskOK
  <2>2. CASE certs[k].state # "active"
    BY <1>3, <2>2 DEF AfterRevocation
  <2> QED BY <2>1, <2>2
<1>5. a.id \in Identity /\ a.step \in 0..1 /\ a.since \in Nat /\ a.since <= clock
  BY <1>4 DEF AskOK, Asks
<1>6. PosOK(Row(a.id, a.step, a.since, TRUE, 0), clock)
  BY <1>5 DEF PosOK, Positions, Row
<1> QED BY <1>3, <1>4, <1>6

LEMMA FailedOK ==
  ASSUME IInv, AskOK(tick.ask, clock)
  PROVE  PosOK(FailedAt, clock)
<1>1. clock \in Nat /\ clock + Debounce \in Nat
  BY ClockNat, Bounds DEF IInv
<1>2. /\ tick.ask.id \in Identity /\ tick.ask.step \in 0..1 /\ tick.ask.since \in Nat
      /\ tick.ask.since <= clock
  BY DEF AskOK, Asks
<1>3. PICK b \in BOOLEAN : b = (row # None /\ row.id = tick.ask.id /\ row.open)
  OBVIOUS
<1>4. FailedAt = Row(tick.ask.id, tick.ask.step, tick.ask.since, b, clock + Debounce)
  BY <1>3 DEF FailedAt, FailedRow
<1> QED BY <1>1, <1>2, <1>4 DEF PosOK, Positions, Row

LEMMA RowStep ==
  ASSUME IInv, [Next]_vars
  PROVE  PosOK(row', clock)
<1>1. CASE \E b \in BOOLEAN : ReplaceCondemned(b)
  <2>1. PICK i \in ToReplace, b \in BOOLEAN : RevokeCondemned(i, b)
    BY <1>1 DEF ReplaceCondemned
  <2>2. tick.pc = "read"
    BY <1>1 DEF ReplaceCondemned
  <2>3. i \in Ids
    BY <2>2 DEF ToReplace, IInv, Carried, TickOK
  <2>4. CASE tick.rev = None
    BY <2>1, <2>4 DEF RevokeCondemned, IInv, Recorded
  <2>5. CASE tick.rev # None
    <3>1. AskOK(tick.rev, clock)
      BY <2>2, <2>5 DEF IInv, Carried, TickOK
    <3>2. PICK a : a = tick.rev
      OBVIOUS
    <3>3. row' = Row(AfterRevocation(a, i).id, AfterRevocation(a, i).step,
                     AfterRevocation(a, i).since, TRUE, 0)
      BY <2>1, <2>5, <3>2 DEF RevokeCondemned, ApplyRevocation
    <3> QED BY <2>3, <3>1, <3>2, <3>3, AfterRevocationOK
  <2> QED BY <2>4, <2>5
<1>2. CASE AskCanopy
  <2>1. UNCHANGED row \/ (tick.restart # None /\ row' = tick.restart.row)
    BY <1>2 DEF AskCanopy, StartCycle
  <2>2. tick.restart # None => PosOK(tick.restart.row, clock)
    BY <1>2 DEF AskCanopy, IInv, Carried, TickOK
  <2> QED BY <2>1, <2>2 DEF IInv, Recorded
<1>3. CASE KeyFails
  <2>1. AskOK(tick.ask, clock) /\ row' = FailedAt
    BY <1>3 DEF KeyFails, IInv, Carried, TickOK
  <2> QED BY <2>1, FailedOK
<1>4. CASE Apply
  <2>1. PICK a, k : a = tick.ask /\ k = tick.key
    OBVIOUS
  <2>2. AskOK(a, clock) /\ k \in Ids
    BY <1>4, <2>1 DEF Apply, IInv, Carried, TickOK
  <2>3. \/ row' = None
        \/ row' = [Position(a) EXCEPT !.open = TRUE, !.retry = 0]
        \/ row' = [Position(a) EXCEPT !.retry = 0]
        \/ row' = [Position(a) EXCEPT !.open = FALSE, !.retry = clock + Debounce]
        \/ Refused(a)
        \/ ApplyRevocation(a, k)
    BY <1>4, <2>1, Zenon DEF Apply, Answered, Issued, Pending, Unavailable, OrderFailed
  <2>4. CASE ApplyRevocation(a, k)
    <3>1. row' = Row(AfterRevocation(a, k).id, AfterRevocation(a, k).step,
                     AfterRevocation(a, k).since, TRUE, 0)
      BY <2>4 DEF ApplyRevocation
    <3> QED BY <2>2, <3>1, AfterRevocationOK
  <2>5. CASE Refused(a)
    BY <2>2, <2>5, RefusedOK
  <2>6. CASE row' = None
    BY <2>6 DEF PosOK
  <2>7. CASE \/ row' = [Position(a) EXCEPT !.open = TRUE, !.retry = 0]
             \/ row' = [Position(a) EXCEPT !.retry = 0]
             \/ row' = [Position(a) EXCEPT !.open = FALSE, !.retry = clock + Debounce]
    BY <2>2, <2>7, PositionOK
  <2> QED BY <2>3, <2>4, <2>5, <2>6, <2>7
<1>5. CASE Retry
  <2>1. PICK s : s = [View EXCEPT !.force = TRUE, !.block = FALSE]
    OBVIOUS
  <2>2. Reading(s) /\ s.now = clock
    BY <2>1, ViewOK
  <2>3. UNCHANGED row \/ (Chain(s) # <<>> /\ row' = Restart(Replacing(s), clock))
    BY <1>5, <2>1 DEF Retry
  <2>4. Chain(s) # <<>> => PosOK(Restart(Replacing(s), clock), clock)
    BY <2>2, RestartOK DEF PosOK
  <2> QED BY <2>3, <2>4 DEF IInv, Recorded
<1>6. CASE row' = None \/ UNCHANGED row
  BY <1>6 DEF PosOK, IInv, Recorded
<1>7. \/ (\E b \in BOOLEAN : ReplaceCondemned(b)) \/ AskCanopy \/ KeyFails \/ Apply \/ Retry
      \/ row' = None \/ UNCHANGED row
  BY Zenon DEF Next, TickStep, Operator, Issuance, World, vars, TickRead, KeyFor,
     SetPolicy, SetBlock, Retype, Upload, Delete, AcmeStart, AcmeStore, AcmeEnds, Offer, ProxyOrders,
     Elapse, Condemn, Crash
<1> QED BY <1>1, <1>2, <1>3, <1>4, <1>5, <1>6, <1>7

-----------------------------------------------------------------------------
(* The tick, step by step.                                                 *)

LEMMA IdleOK ==
  ASSUME NEW n
  PROVE  TickOK(Idle, n)
<1>1. Idle.pc = "idle"
  BY DEF Idle
<1> QED BY <1>1 DEF TickOK

LEMMA QuestionOK ==
  ASSUME NEW n, NEW a, NEW again, a # None => AskOK(a, n)
  PROVE  TickOK(Question(a, again), n) /\ Question(a, again).pc # "sent"
<1>1. CASE a = None
  BY <1>1, IdleOK DEF Question, Idle
<1>2. CASE a # None
  <2>1. PICK t : t = [pc |-> "key", ask |-> a, again |-> again]
    OBVIOUS
  <2>2. t.pc = "key" /\ t.ask = a
    BY <2>1
  <2>3. TickOK(t, n)
    BY <1>2, <2>2 DEF TickOK
  <2> QED BY <1>2, <2>1, <2>2, <2>3 DEF Question
<1> QED BY <1>1, <1>2

\* What one reading decides.
LEMMA ReadOK ==
  ASSUME IInv, NEW b \in BOOLEAN, TickRead(b)
  PROVE  TickOK(tick', clock) /\ tick'.pc = "read"
<1> DEFINE told == {i \in condemned : certs[i].state = "active"}
<1>1. PICK s : s = View
  OBVIOUS
<1>2. Reading(s) /\ s.now = clock
  BY <1>1, ViewOK
<1>3. PICK again : again = [s EXCEPT !.row = Restart(Replacing(s), s.now), !.force = FALSE]
  OBVIOUS
<1>4. /\ again.now = clock /\ again.row = Restart(Replacing(s), clock)
      /\ Chain(s) # <<>> => Reading(again)
  <2>1. /\ again.now = s.now /\ again.row = Restart(Replacing(s), s.now)
        /\ again.certs = s.certs /\ again.proxy = s.proxy
    BY <1>1, <1>3 DEF View
  <2>2. Chain(s) # <<>> => again.row \in Positions /\ again.row.since <= again.now
    BY <1>2, <2>1, RestartOK
  <2> QED BY <1>2, <2>1, <2>2 DEF Reading
<1>5. PICK rev : rev = IF told = {} THEN None ELSE RevocationAsk(s)
  OBVIOUS
<1>6. rev # None => AskOK(rev, clock)
  BY <1>2, <1>5, RevocationAskOK
<1>7. PICK ask : ask = IF Due(s) THEN AskFor(s) ELSE None
  OBVIOUS
<1>8. ask # None => AskOK(ask, clock)
  BY <1>2, <1>7, AskForOK
<1>9. PICK restart : restart = IF Due(s) /\ s.force
                               THEN [row |-> again.row, ask |-> AskFor(again)] ELSE None
  OBVIOUS
<1>10. restart # None => /\ PosOK(restart.row, clock)
                         /\ restart.ask # None => AskOK(restart.ask, clock)
  <2> SUFFICES ASSUME restart # None
               PROVE  /\ PosOK(restart.row, clock)
                      /\ restart.ask # None => AskOK(restart.ask, clock)
    OBVIOUS
  <2>1. Due(s) /\ restart.row = again.row /\ restart.ask = AskFor(again)
    BY <1>9
  <2>2. Chain(s) # <<>>
    BY <2>1 DEF Due
  <2>3. PosOK(restart.row, clock)
    BY <1>2, <1>4, <2>1, <2>2, RestartOK DEF PosOK
  <2>4. restart.ask # None => AskOK(restart.ask, clock)
    BY <1>4, <2>1, <2>2, AskForOK
  <2> QED BY <2>3, <2>4
<1>11. PICK t : t = [pc |-> "read", told |-> told, due |-> Due(s), rev |-> rev, ask |-> ask,
                     restart |-> restart]
  OBVIOUS
<1>12. tick' = t
  BY <1>1, <1>3, <1>5, <1>7, <1>9, <1>11 DEF TickRead
<1>13. t.pc = "read" /\ t.told = told /\ t.rev = rev /\ t.ask = ask /\ t.restart = restart
  BY <1>11
<1>14. told \subseteq Ids
  BY DEF IInv, Flags
<1>15. TickOK(t, clock)
  BY <1>6, <1>8, <1>10, <1>13, <1>14, Zenon DEF TickOK
<1> QED BY <1>12, <1>13, <1>15

LEMMA TickMoves ==
  ASSUME IInv, [Next]_vars
  PROVE  TickOK(tick', clock) /\ (tick'.pc = "sent" => UNCHANGED tick \/ KeyFor)
<1>0. Idle.pc # "sent" /\ TickOK(Idle, clock)
  BY IdleOK DEF Idle
<1>1. CASE \E b \in BOOLEAN : TickRead(b)
  BY <1>1, ReadOK
<1>2. CASE \E b \in BOOLEAN : ReplaceCondemned(b)
  <2>1. PICK i \in ToReplace, b \in BOOLEAN : RevokeCondemned(i, b)
    BY <1>2 DEF ReplaceCondemned
  <2>2. tick.pc = "read"
    BY <1>2 DEF ReplaceCondemned
  <2>3. i \in Ids
    BY <2>2 DEF ToReplace, IInv, Carried, TickOK
  <2>4. CASE tick' = Idle
    BY <1>0, <2>4
  <2>5. CASE tick.rev # None /\ tick' = Question(AfterRevocation(tick.rev, i), TRUE)
    <3>1. PICK a, yes : a = tick.rev /\ yes = TRUE
      OBVIOUS
    <3>2. AskOK(a, clock)
      BY <2>2, <2>5, <3>1 DEF IInv, Carried, TickOK
    <3>3. AskOK(AfterRevocation(a, i), clock)
      BY <2>3, <3>2, AfterRevocationOK
    <3>4. TickOK(Question(AfterRevocation(a, i), yes), clock)
          /\ Question(AfterRevocation(a, i), yes).pc # "sent"
      BY <3>3, QuestionOK
    <3> QED BY <2>5, <3>1, <3>4
  <2> QED BY <2>1, <2>4, <2>5 DEF RevokeCondemned
<1>3. CASE AskCanopy
  <2>1. PICK no : no = FALSE
    OBVIOUS
  <2>2. \/ tick' = Idle \/ tick' = Question(tick.ask, no)
        \/ tick.restart # None /\ tick' = Question(tick.restart.ask, no)
    BY <1>3, <2>1 DEF AskCanopy
  <2>3. /\ tick.ask # None => AskOK(tick.ask, clock)
        /\ tick.restart # None /\ tick.restart.ask # None => AskOK(tick.restart.ask, clock)
    BY <1>3 DEF AskCanopy, IInv, Carried, TickOK
  <2>4. TickOK(Question(tick.ask, no), clock) /\ Question(tick.ask, no).pc # "sent"
    BY <2>3, QuestionOK
  <2>5. tick.restart # None => /\ TickOK(Question(tick.restart.ask, no), clock)
                               /\ Question(tick.restart.ask, no).pc # "sent"
    BY <2>3, QuestionOK
  <2> QED BY <1>0, <2>2, <2>4, <2>5
<1>4. CASE KeyFor
  <2>1. tick'.pc = "sent" /\ tick'.ask = tick.ask /\ tick'.key \in Ids
    BY <1>4, KeyForCerts
  <2>2. AskOK(tick.ask, clock)
    BY <1>4 DEF KeyFor, IInv, Carried, TickOK
  <2> QED BY <1>4, <2>1, <2>2 DEF TickOK
<1>5. CASE KeyFails
  BY <1>0, <1>5 DEF KeyFails
<1>6. CASE Apply
  <2>1. PICK a, k, yes : a = tick.ask /\ k = tick.key /\ yes = TRUE
    OBVIOUS
  <2>2. AskOK(a, clock) /\ k \in Ids
    BY <1>6, <2>1 DEF Apply, IInv, Carried, TickOK
  <2>3. AskOK(AfterRevocation(a, k), clock)
    BY <2>2, AfterRevocationOK
  <2>4. TickOK(Question(AfterRevocation(a, k), yes), clock)
        /\ Question(AfterRevocation(a, k), yes).pc # "sent"
    BY <2>3, QuestionOK
  <2>5. tick' = Idle \/ tick' = Question(AfterRevocation(a, k), yes)
    BY <1>6, <2>1 DEF Apply, Answered
  <2> QED BY <1>0, <2>4, <2>5
<1>7. CASE Crash
  BY <1>0, <1>7 DEF Crash
<1>8. CASE UNCHANGED tick
  BY <1>8 DEF IInv, Carried
<1>9. \/ (\E b \in BOOLEAN : TickRead(b)) \/ (\E b \in BOOLEAN : ReplaceCondemned(b)) \/ AskCanopy
      \/ KeyFor \/ KeyFails \/ Apply \/ Crash \/ UNCHANGED tick
  BY Zenon DEF Next, TickStep, Operator, Issuance, World, vars, SetPolicy, Retry, SetBlock, Retype,
     Upload, Delete, AcmeStart, AcmeStore, AcmeEnds, Offer, ProxyOrders, Elapse, Condemn
<1> QED BY <1>1, <1>2, <1>3, <1>4, <1>5, <1>6, <1>7, <1>8, <1>9

-----------------------------------------------------------------------------
(* The invariant holds.                                                    *)

LEMMA StepIInv == IInv /\ [Next]_vars => IInv'
<1> SUFFICES ASSUME IInv, [Next]_vars
             PROVE  IInv'
  OBVIOUS
<1>1. ClockOK' /\ Flags' /\ ProxyOK' /\ clock \in Nat /\ clock' \in Nat /\ clock <= clock'
  BY QuietStep, ClockNat DEF IInv
<1>2. CertsOK(certs') /\ RowsMove(certs, certs')
  BY CertsStep
<1>3. LogOK(log')
  BY LogStep
<1>4. PosOK(row', clock')
  BY <1>1, RowStep, Later
<1>5. TickOK(tick', clock')
  BY <1>1, TickMoves, Later
<1>6. KeyStored'
  <2> SUFFICES ASSUME tick'.pc = "sent"
               PROVE  certs'[tick'.key].state # "free"
    BY DEF KeyStored
  <2>1. CASE KeyFor
    BY <2>1, KeyForCerts
  <2>2. CASE UNCHANGED tick
    <3>1. tick.key \in Ids /\ certs[tick.key].state # "free"
      BY <2>2 DEF IInv, KeyStored, Carried, TickOK
    <3> QED BY <1>2, <2>2, <3>1 DEF RowsMove
  <2> QED BY <2>1, <2>2, TickMoves
<1> QED BY <1>1, <1>2, <1>3, <1>4, <1>5, <1>6 DEF IInv, Recorded, Carried

LEMMA InitIInv == Init => IInv
<1> SUFFICES ASSUME Init
             PROVE  IInv
  OBVIOUS
<1>1. Life \in Nat \ {0} /\ Start \in Nat \ {0} /\ Start <= MaxTime /\ MaxTime \in Nat
  BY Bounds
<1>2. ClockOK
  BY <1>1 DEF Init, ClockOK
<1>3. CertsOK(certs)
  <2>1. PICK w \in Worlds :
          certs = [i \in Ids |-> IF w = "canopy" /\ i = 1
                                 THEN [state |-> "active", origin |-> "canopy", nb |-> 1,
                                       na |-> 1 + Life, born |-> 1]
                                 ELSE Free]
    BY DEF Init
  <2>2. Free \in Certificate /\ Free.state = "free"
    BY DEF Free, Certificate, States
  <2>3. PICK r : r = [state |-> "active", origin |-> "canopy", nb |-> 1, na |-> 1 + Life, born |-> 1]
    OBVIOUS
  <2>4. r \in Certificate /\ r.nb < r.na
    BY <1>1, <2>3 DEF Certificate, States
  <2>5. /\ certs = [i \in Ids |-> certs[i]]
        /\ \A i \in Ids : (i = 1 /\ certs[i] = r) \/ certs[i] = Free
    BY <2>1, <2>3
  <2>6. certs \in [Ids -> Certificate]
    BY <2>2, <2>4, <2>5
  <2> QED BY <2>2, <2>4, <2>5, <2>6 DEF CertsOK, Lived, OneKey
<1>4. LogOK(log)
  <2>1. log = NoAttempts
    BY DEF Init
  <2>2. <<>> \in Seq(Openers) /\ OneOpen(<<>>)
    BY DEF OneOpen
  <2>3. [by |-> "past", out |-> "none", at |-> 0] \in Attempts
    BY DEF Attempts, Openers
  <2> QED BY <2>1, <2>2, <2>3 DEF LogOK, Logs, NoAttempts
<1>5. Recorded
  BY DEF Init, Recorded, PosOK
<1>6. ProxyOK
  BY <1>1 DEF Init, ProxyOK
<1>7. Carried /\ KeyStored
  BY IdleOK DEF Init, Carried, KeyStored, Idle
<1>8. Flags
  BY DEF Init, Flags
<1> QED BY <1>2, <1>3, <1>4, <1>5, <1>6, <1>7, <1>8 DEF IInv

LEMMA Invariance == Spec => []IInv
BY InitIInv, StepIInv, PTL DEF Spec

\* For every lifetime and bound, what the tables and the tick hold has the
\* shape of its type, at each pause of the tick (tls/store.rs, tls/canopy.rs).
THEOREM TypeCorrect == Spec => []TypeOK
<1>1. IInv => TypeOK
  <2> SUFFICES ASSUME IInv
               PROVE  TypeOK
    OBVIOUS
  <2>1. /\ clock \in Start..MaxTime
        /\ certs \in [Ids -> [state : States, origin : {None, "canopy", "acme", "manual"},
                              nb : Nat, na : Nat, born : Nat]]
    BY DEF IInv, ClockOK, CertsOK, Certificate
  <2>2. row \in {None} \cup Positions
    BY DEF IInv, Recorded, PosOK
  <2>3. log \in [open : Seq(Openers),
                 newest : [by : Openers, out : {"none", "pending", "success", "failure"}, at : Nat]]
    BY DEF IInv, LogOK, Logs, Attempts
  <2>4. force \in BOOLEAN /\ block \in BOOLEAN /\ typed \in BOOLEAN /\ offer \in BOOLEAN
    BY Zenon DEF IInv, Flags
  <2>5. /\ policy \in {"default", "canopy", "acme"} /\ proxy \in Nat
        /\ condemned \subseteq Ids /\ acme \in {"idle", "open", "stored"}
    BY Zenon DEF IInv, Flags, ProxyOK
  <2>6. /\ tick.pc \in {"idle", "read", "key", "sent"}
        /\ tick.pc \in {"key", "sent"} => tick.ask \in Asks /\ tick.ask.step < tick.ask.len
        /\ tick.pc = "sent" => certs[tick.key].state # "free"
    BY DEF IInv, Carried, TickOK, AskOK, KeyStored
  <2> QED BY <2>1, <2>2, <2>3, <2>4, <2>5, <2>6, Zenon DEF TypeOK
<1> QED BY <1>1, Invariance, PTL

\* For every lifetime and bound, a hostname has one key in use with Canopy and one
\* attempt of Canopy's open in the log (tls/canopy.rs key_for, pending).
THEOREM OneOrderOnly == Spec => []OneOrder
<1>1. IInv => OneOrder
  <2> SUFFICES ASSUME IInv
               PROVE  OneOrder
    OBVIOUS
  <2> DEFINE K == {i \in Ids : certs[i].origin = "canopy"
                               /\ certs[i].state \in {"csr_pending", "active"}}
             O == {k \in DOMAIN log.open : log.open[k] = "canopy"}
  <2>1. \A i, j \in K : i = j
    BY DEF IInv, CertsOK, OneKey
  <2>2. \A i, j \in O : i = j
    BY DEF IInv, LogOK, OneOpen
  <2>3. Cardinality(K) <= 1
    BY <2>1, AtMostOne
  <2>4. Cardinality(O) <= 1
    BY <2>2, AtMostOne
  <2> QED BY <2>3, <2>4 DEF OneOrder
<1> QED BY <1>1, Invariance, PTL

\* For every lifetime, and however a cycle was restarted, a hostname on the default
\* chain is with the proxy by the last instant of the certificate it is served
\* with (chain.rs halfway, advance, proxy_from).
THEOREM InTime == Spec => []FallsThroughInTime
<1>1. IInv => FallsThroughInTime
  <2> SUFFICES ASSUME IInv, Len(Chain(View)) = 2, Serving(View) # None,
                      clock + 1 >= Serving(View).id.na
               PROVE  ProxyMayOrder(View)
    BY DEF FallsThroughInTime
  <2>1. PICK s : s = View
    OBVIOUS
  <2>2. Reading(s) /\ s.now = clock /\ s.now \in Nat
    BY <2>1, ViewOK DEF Reading
  <2>3. Chain(s) = <<"canopy", "http01">>
    BY <2>1, ChainShape
  <2>4. Chain(s) # <<>> /\ Chain(s) # <<"http01">> /\ Chain(s) # <<"canopy">>
    BY <2>3
  <2>5. Resolve(s).running /\ Resolve(s).step = 1
    BY <2>1, <2>2, <2>4, ResolveOK
  <2>6. ProxyFrom(s) = 0
    BY <2>4, <2>5 DEF ProxyFrom
  <2> QED BY <2>1, <2>2, <2>6, NoneAssumption DEF ProxyMayOrder
<1> QED BY <1>1, Invariance, PTL

\* What LateAnswersHarmless asks of a step.
StaysOver == \A i \in Ids : certs[i].state \in {"superseded", "revoked", "deleted"}
                            => certs'[i].state \in {certs[i].state, "deleted"}
LastsLonger == \A i \in Ids : certs[i].state = "active" /\ certs'[i] # certs[i]
                              /\ certs'[i].state = "active" => certs'[i].na > certs[i].na

\* For every lifetime and bound, a certificate that is over never serves again, and
\* a chain in service is only replaced by one that lasts longer (tls/store.rs
\* activate_canopy_chain, tls/canopy.rs apply).
THEOREM LateHarmless == Spec => LateAnswersHarmless
<1>1. IInv /\ [Next]_vars => [StaysOver]_vars /\ [LastsLonger]_vars
  BY CertsStep DEF RowsMove, StaysOver, LastsLonger
<1>2. Spec => [][StaysOver]_vars
  BY <1>1, InitIInv, StepIInv, PTL DEF Spec
<1>3. Spec => [][LastsLonger]_vars
  BY <1>1, InitIInv, StepIInv, PTL DEF Spec
<1> QED BY <1>2, <1>3 DEF LateAnswersHarmless, StaysOver, LastsLonger

-----------------------------------------------------------------------------
(* Where a cycle stands.                                                   *)

\* A cycle at step since since has passed to the proxy.
Passed(step, since, id, now) == step = 1 \/ Halfway(since, id.na) <= now

\* A cycle that started later falls through no sooner.
LEMMA HalfwayMono ==
  ASSUME NEW a \in Nat, NEW b \in Nat, a <= b, NEW e \in Nat
  PROVE  Halfway(a, e) <= Halfway(b, e)
<1>1. CASE e > b
  <2>1. PICK c \in Nat, d \in Nat : c = e - a /\ d = e - b
    BY <1>1
  <2>2. a + c \div 2 <= b + d \div 2
    BY <2>1
  <2> QED BY <1>1, <2>1, <2>2 DEF Halfway
<1>2. CASE ~(e > b) /\ e > a
  <2>1. PICK c \in Nat : c = e - a
    BY <1>2
  <2>2. a + c \div 2 <= b
    BY <1>2, <2>1
  <2> QED BY <1>2, <2>1, <2>2 DEF Halfway
<1>3. CASE ~(e > b) /\ ~(e > a)
  BY <1>3 DEF Halfway
<1> QED BY <1>1, <1>2, <1>3

\* So a question from no later start has passed when the cycle has.
LEMMA PassedMono ==
  ASSUME NEW st \in 0..1, NEW a \in Nat, NEW b \in Nat, a <= b, NEW id \in Identity,
         NEW m \in Nat, NEW n \in Nat, m <= n, Passed(0, b, id, m)
  PROVE  Passed(st, a, id, n)
<1>1. PICK e \in Nat : e = id.na
  BY DEF Identity
<1>2. Halfway(a, e) \in Nat /\ Halfway(b, e) \in Nat /\ Halfway(a, e) <= Halfway(b, e)
  BY HalfwayMono, HalfwayBetween
<1>3. Halfway(b, e) <= m
  BY <1>1 DEF Passed
<1> QED BY <1>1, <1>2, <1>3 DEF Passed

LEMMA PassedLater ==
  ASSUME NEW st \in 0..1, NEW a \in Nat, NEW id \in Identity,
         NEW m \in Nat, NEW n \in Nat, m <= n, Passed(st, a, id, m)
  PROVE  Passed(st, a, id, n)
<1>1. PICK e \in Nat : e = id.na
  BY DEF Identity
<1>2. Halfway(a, e) \in Nat
  BY HalfwayBetween
<1> QED BY <1>1, <1>2 DEF Passed

\* What a position resolves to on the default chain.
LEMMA RunningStep ==
  ASSUME NEW s, Len(Chain(s)) = 2, s.now \in Nat, NEW id \in Identity, id.na # 0,
         NEW step \in 0..1, NEW since \in Nat, NEW open
  PROVE  LET r == Running(s, id, Clip(s, step), since, open)
         IN  /\ r.id = id /\ (r.step = 1 <=> Passed(step, since, id, s.now))
             /\ r.step = 1 \/ (step = 0 /\ r.step = 0 /\ r.since = since)
<1>1. Clip(s, step) = step
  BY DEF Clip
<1>2. PICK h \in Nat : h = Halfway(since, id.na)
  BY HalfwayBetween DEF Identity
<1>3. PICK a : a = Advance(2, step, since, id, s.now)
  OBVIOUS
<1>4. Running(s, id, Clip(s, step), since, open)
        = [running |-> TRUE, id |-> id, step |-> a.step, since |-> a.since, open |-> open]
  BY <1>1, <1>3 DEF Running
<1>5. CASE step = 0 /\ h <= s.now
  <2>1. a.step = 1
    BY <1>2, <1>3, <1>5 DEF Advance
  <2> QED BY <1>2, <1>4, <1>5, <2>1 DEF Passed
<1>6. CASE step = 0 /\ ~(h <= s.now)
  <2>1. a.step = 0 /\ a.since = since
    BY <1>2, <1>3, <1>6 DEF Advance
  <2> QED BY <1>2, <1>4, <1>6, <2>1 DEF Passed
<1>7. CASE step = 1
  <2>1. a.step = 1
    BY <1>3, <1>7 DEF Advance
  <2> QED BY <1>4, <1>7, <2>1 DEF Passed
<1> QED BY <1>5, <1>6, <1>7

\* The certificate in service, and when it is due.
LEMMA ServingDue ==
  ASSUME NEW s, Serving(s) # None
  PROVE  LET x == Serving(s).id
         IN  \/ /\ x.cert = 0 /\ Serving(s).due = RenewalPoint(x.na - Life, x.na)
                /\ ~\E i \in Active(s) : s.certs[i].na > s.now
             \/ /\ x.cert \in Ids /\ x.cert \in Active(s) /\ s.certs[x.cert].state = "active"
                /\ s.certs[x.cert].na = x.na /\ x.na > s.now
                /\ Serving(s).due = RenewalPoint(s.certs[x.cert].nb, x.na)
<1> DEFINE S == {i \in Active(s) : s.certs[i].na > s.now}
<1>1. CASE S # {}
  <2>1. PICK i : i = CHOOSE j \in S : TRUE
    OBVIOUS
  <2>2. i \in Active(s) /\ i \in Ids /\ s.certs[i].state = "active" /\ s.certs[i].na > s.now
    BY <1>1, <2>1 DEF Active
  <2>3. Serving(s) = [id |-> [cert |-> i, na |-> s.certs[i].na],
                      due |-> RenewalPoint(s.certs[i].nb, s.certs[i].na),
                      canopy |-> s.certs[i].origin = "canopy"]
    BY <1>1, <2>1 DEF Serving
  <2>4. Serving(s).id = [cert |-> i, na |-> s.certs[i].na]
        /\ Serving(s).due = RenewalPoint(s.certs[i].nb, s.certs[i].na)
    BY <2>3
  <2>5. Serving(s).id.cert = i /\ Serving(s).id.na = s.certs[i].na
    BY <2>4
  <2> QED BY <2>2, <2>4, <2>5
<1>2. CASE S = {}
  <2>1. Serving(s) = [id |-> [cert |-> 0, na |-> s.proxy],
                      due |-> RenewalPoint(s.proxy - Life, s.proxy), canopy |-> FALSE]
    BY <1>2 DEF Serving
  <2> QED BY <1>2, <2>1
<1> QED BY <1>1, <1>2

\* Where a cycle stands on the default chain, no retry being queued: at the
\* recorded position, if that is its own, and else where the renewal point
\* of the certificate in service puts it.
LEMMA PlaceOf ==
  ASSUME NEW s, Reading(s), ~s.force, Len(Chain(s)) = 2,
         Resolve(s).running, Resolve(s).id # NoCert
  PROVE  LET r == Resolve(s)
         IN  /\ r.id \in Identity
             /\ s.row # None /\ s.row.id = r.id =>
                  /\ r.step = 1 <=> Passed(s.row.step, s.row.since, r.id, s.now)
                  /\ r.step = 1 \/ (s.row.step = 0 /\ r.since = s.row.since)
             /\ s.row = None \/ s.row.id # r.id =>
                  /\ Serving(s) # None /\ Serving(s).id = r.id /\ Serving(s).due <= s.now
                  /\ r.step = 1 <=> Passed(0, Serving(s).due, r.id, s.now)
<1> DEFINE serving == Serving(s)
           mine == s.row # None /\ serving # None /\ s.row.id = serving.id
           lost == s.row # None /\ s.row.id # NoCert /\ s.row.id.na > s.now
           pinned == s.row # None /\ s.row.id = NoCert /\ s.row.open
<1>1. s.now \in Nat
  BY DEF Reading
<1>2. s.row # None => /\ s.row.id \in Identity /\ s.row.step \in 0..1 /\ s.row.since \in Nat
  BY DEF Reading, Positions
<1>3. serving # None => /\ serving.id \in Identity /\ serving.id.na > s.now
                        /\ serving.due \in Nat
  BY ServingOK
<1>4. \A id \in Identity : id.na > s.now => id.na # 0
  BY <1>1 DEF Identity
<1>5. CASE serving # None /\ mine
  <2>1. Resolve(s) = Running(s, serving.id, Clip(s, s.row.step), s.row.since, s.row.open)
    BY <1>5 DEF Resolve
  <2>2. PICK st \in 0..1, si \in Nat : st = s.row.step /\ si = s.row.since
    BY <1>2, <1>5
  <2>3. PICK o : o = s.row.open
    OBVIOUS
  <2>4. Resolve(s) = Running(s, serving.id, Clip(s, st), si, o)
    BY <2>1, <2>2, <2>3
  <2>5. /\ Resolve(s).id = serving.id /\ (Resolve(s).step = 1 <=> Passed(st, si, serving.id, s.now))
        /\ Resolve(s).step = 1 \/ (st = 0 /\ Resolve(s).since = si)
    BY <1>1, <1>3, <1>4, <1>5, <2>4, RunningStep
  <2> QED BY <1>3, <1>5, <2>2, <2>5
<1>6. CASE serving # None /\ ~mine /\ s.now >= serving.due
  <2>1. Resolve(s) = Running(s, serving.id, 0, serving.due, FALSE)
    BY <1>6 DEF Resolve
  <2>2. Clip(s, 0) = 0
    BY DEF Clip
  <2>3. PICK si \in Nat : si = serving.due
    BY <1>3, <1>6
  <2>4. PICK o : o = FALSE
    OBVIOUS
  <2>5. Resolve(s) = Running(s, serving.id, Clip(s, 0), si, o)
    BY <2>1, <2>2, <2>3, <2>4
  <2>6. Resolve(s).id = serving.id /\ (Resolve(s).step = 1 <=> Passed(0, si, serving.id, s.now))
    BY <1>1, <1>3, <1>4, <1>6, <2>5, RunningStep
  <2>7. serving.due <= s.now
    BY <1>1, <1>3, <1>6
  <2> QED BY <1>3, <1>6, <2>3, <2>6, <2>7
<1>7. CASE serving # None /\ ~mine /\ ~(s.now >= serving.due)
  <2>1. Resolve(s) = AtRest(serving.due)
    BY <1>7 DEF Resolve
  <2> QED BY <2>1 DEF AtRest
<1>8. CASE serving = None /\ lost
  <2>1. Resolve(s) = Running(s, s.row.id, Clip(s, s.row.step), s.row.since, s.row.open)
    BY <1>8 DEF Resolve
  <2>2. s.row # None
    BY <1>8
  <2>3. PICK st \in 0..1, si \in Nat, id \in Identity :
          st = s.row.step /\ si = s.row.since /\ id = s.row.id
    BY <1>2, <2>2
  <2>4. PICK o : o = s.row.open
    OBVIOUS
  <2>5. Resolve(s) = Running(s, id, Clip(s, st), si, o) /\ id.na # 0
    BY <1>4, <1>8, <2>1, <2>3, <2>4
  <2>6. /\ Resolve(s).id = id /\ (Resolve(s).step = 1 <=> Passed(st, si, id, s.now))
        /\ Resolve(s).step = 1 \/ (st = 0 /\ Resolve(s).since = si)
    BY <1>1, <2>5, RunningStep
  <2> QED BY <1>8, <2>3, <2>6
<1>9. CASE serving = None /\ ~lost
  <2>1. PICK st, si : Resolve(s) = [running |-> TRUE, id |-> NoCert, open |-> pinned,
                                    step |-> st, since |-> si]
    BY <1>9 DEF Resolve
  <2> QED BY <2>1
<1> QED BY <1>5, <1>6, <1>7, <1>8, <1>9

-----------------------------------------------------------------------------
(* Questions and positions.                                                *)

\* A question about the certificate a position is about was asked from no
\* later than that position.
Level(a, r) ==
  a.len = 2 /\ a.id # NoCert /\ r # None /\ r.id = a.id
  => a.step = 1 \/ (r.step = 0 /\ a.since <= r.since)

\* So it is with whatever the tick may ask next; what it read with a retry
\* queued counts only from the restarted cycle.
TickLevel(t, r, f) ==
  /\ t.pc \in {"key", "sent"} => Level(t.ask, r)
  /\ t.pc = "read" =>
       /\ t.ask # None /\ (t.restart = None \/ ~f) => Level(t.ask, r)
       /\ t.restart # None /\ t.restart.ask # None => Level(t.restart.ask, t.restart.row)
Abreast == TickLevel(tick, row, force)

\* A policy without a chain has cleared the position a question was read from.
Unchained == policy = "acme" /\ tick.pc = "read" /\ tick.ask # None => row = None

\* A certificate in service began when it was stored.
Born == \A i \in Ids : certs[i].state = "active"
                       => certs[i].nb = certs[i].born /\ certs[i].born <= clock

PInv == IInv /\ Abreast /\ Unchained /\ Born

\* A row in service is as it was or began in this step.
LEMMA NewOrSame ==
  ASSUME IInv, [Next]_vars, NEW i \in Ids, certs'[i].state = "active"
  PROVE  certs'[i] = certs[i] \/ (certs'[i].nb = clock /\ certs'[i].born = clock)
<1>1. CertsOK(certs) /\ certs \in [Ids -> Certificate] /\ clock \in Nat /\ Life \in Nat \ {0}
  BY ClockNat, Bounds DEF IInv, CertsOK
<1>2. \A k \in Ids : certs' = RevokeCert(k) => certs'[i] = certs[i]
  <2> SUFFICES ASSUME NEW k \in Ids, certs' = RevokeCert(k)
               PROVE  certs'[i] = certs[i]
    OBVIOUS
  <2>1. certs' = certs \/ certs' = [certs EXCEPT ![k].state = "revoked"]
    BY DEF RevokeCert
  <2>2. [certs[k] EXCEPT !.state = "revoked"].state = "revoked"
    BY <1>1 DEF Certificate
  <2> QED BY <1>1, <2>1, <2>2
<1>3. \A c \in [Ids -> Certificate] : \A k : certs' = Superseded(c, k) => certs'[i] = c[i]
  <2> SUFFICES ASSUME NEW c \in [Ids -> Certificate], NEW k, certs' = Superseded(c, k)
               PROVE  certs'[i] = c[i]
    OBVIOUS
  <2>1. certs'[i] = c[i] \/ (c[i].state = "active" /\ certs'[i] = [c[i] EXCEPT !.state = "superseded"])
    BY DEF Superseded
  <2>2. [c[i] EXCEPT !.state = "superseded"].state = "superseded"
    BY DEF Certificate
  <2> QED BY <2>1, <2>2
<1>4. \A k \in Ids, o \in {"acme", "manual"}, na \in Nat : certs' = InsertAndSupersede(k, o, na)
        => certs'[i] = certs[i] \/ (certs'[i].nb = clock /\ certs'[i].born = clock)
  <2> SUFFICES ASSUME NEW k \in Ids, NEW o \in {"acme", "manual"}, NEW na \in Nat,
                      certs' = InsertAndSupersede(k, o, na)
               PROVE  certs'[i] = certs[i] \/ (certs'[i].nb = clock /\ certs'[i].born = clock)
    OBVIOUS
  <2>1. PICK r \in Certificate : r = [state |-> "active", origin |-> o, nb |-> clock,
                                      na |-> na, born |-> clock]
    BY <1>1 DEF Certificate, States
  <2>2. PICK c \in [Ids -> Certificate] : c = [certs EXCEPT ![k] = r]
    BY <1>1
  <2>3. certs'[i] = c[i]
    BY <1>3, <2>1, <2>2 DEF InsertAndSupersede
  <2> QED BY <1>1, <2>1, <2>2, <2>3
<1>5. CASE \E b \in BOOLEAN : ReplaceCondemned(b)
  <2>1. PICK k \in ToReplace : certs' = RevokeCert(k)
    BY <1>5 DEF ReplaceCondemned, RevokeCondemned, ApplyRevocation
  <2>2. k \in Ids
    BY <1>5, <2>1 DEF ReplaceCondemned, ToReplace, IInv, Carried, TickOK
  <2> QED BY <1>2, <2>1, <2>2
<1>6. CASE KeyFor
  <2>1. PICK k, r : k = NextId /\ r = [state |-> "csr_pending", origin |-> "canopy", nb |-> 0,
                                      na |-> 0, born |-> clock]
    OBVIOUS
  <2>2. UNCHANGED certs \/ certs' = [certs EXCEPT ![k] = r]
    BY <1>6, <2>1 DEF KeyFor
  <2>3. r.state # "active"
    BY <2>1
  <2> QED BY <1>1, <2>2, <2>3
<1>7. CASE Apply
  <2>1. PICK k : k = tick.key
    OBVIOUS
  <2>2. k \in Ids /\ certs[k] \in Certificate
    BY <1>1, <1>7, <2>1 DEF Apply, IInv, Carried, TickOK
  <2>3. \/ UNCHANGED certs \/ certs' = RevokeCert(k)
        \/ \E na \in {clock + Life, certs[k].na} :
             certs' = Superseded([certs EXCEPT ![k] = [certs[k] EXCEPT
                              !.state = "active", !.nb = clock, !.na = na, !.born = clock]], k)
    BY <1>7, <2>1 DEF Apply, Answered, Issued, Pending, Unavailable, Refused, OrderFailed,
                      ApplyRevocation
  <2>4. CASE \E na \in {clock + Life, certs[k].na} :
                certs' = Superseded([certs EXCEPT ![k] = [certs[k] EXCEPT
                              !.state = "active", !.nb = clock, !.na = na, !.born = clock]], k)
    <3>1. PICK na \in {clock + Life, certs[k].na} :
                certs' = Superseded([certs EXCEPT ![k] = [certs[k] EXCEPT
                              !.state = "active", !.nb = clock, !.na = na, !.born = clock]], k)
      BY <2>4
    <3>0. na \in Nat
      BY <1>1, <2>2 DEF Certificate
    <3>2. PICK r \in Certificate :
            r = [certs[k] EXCEPT !.state = "active", !.nb = clock, !.na = na, !.born = clock]
      BY <1>1, <2>2, <3>0 DEF Certificate, States
    <3>3. r.nb = clock /\ r.born = clock
      BY <2>2, <3>2 DEF Certificate
    <3>4. PICK c \in [Ids -> Certificate] : c = [certs EXCEPT ![k] = r]
      BY <1>1
    <3>5. certs'[i] = c[i]
      BY <1>3, <3>1, <3>2, <3>4
    <3> QED BY <1>1, <2>2, <3>3, <3>4, <3>5
  <2> QED BY <1>2, <2>2, <2>3, <2>4
<1>8. CASE AcmeStore \/ (\E life \in {2, Life} : Upload(life))
  <2>0. 2 \in Nat /\ clock + 2 \in Nat /\ clock + Life \in Nat
    BY <1>1
  <2>1. PICK o \in {"acme", "manual"}, na \in Nat :
          FreeIds # {} /\ certs' = InsertAndSupersede(NextId, o, na)
    BY <1>8, <2>0 DEF AcmeStore, Upload
  <2>2. PICK k : k = NextId
    OBVIOUS
  <2>3. k \in Ids
    BY <2>1, <2>2, NextIdFree
  <2> QED BY <1>4, <2>1, <2>2, <2>3
<1>9. CASE \E k \in Ids : Delete(k)
  <2>1. PICK k \in Ids : certs' = [certs EXCEPT ![k].state = "deleted"]
    BY <1>9 DEF Delete
  <2>2. [certs[k] EXCEPT !.state = "deleted"].state = "deleted"
    BY <1>1 DEF Certificate
  <2> QED BY <1>1, <2>1, <2>2
<1>10. CASE UNCHANGED certs
  BY <1>10
<1>11. \/ (\E b \in BOOLEAN : ReplaceCondemned(b)) \/ KeyFor \/ Apply \/ AcmeStore
       \/ (\E life \in {2, Life} : Upload(life)) \/ (\E k \in Ids : Delete(k)) \/ UNCHANGED certs
  BY Zenon DEF Next, TickStep, Operator, Issuance, World, vars, TickRead, AskCanopy, KeyFails, SetPolicy,
     Retry, SetBlock, Retype, AcmeStart, AcmeEnds, Offer, ProxyOrders, Elapse, Condemn, Crash
<1> QED BY <1>5, <1>6, <1>7, <1>8, <1>9, <1>10, <1>11

LEMMA BornStep ==
  ASSUME IInv, Born, [Next]_vars
  PROVE  Born'
<1> SUFFICES ASSUME NEW i \in Ids, certs'[i].state = "active"
             PROVE  certs'[i].nb = certs'[i].born /\ certs'[i].born <= clock'
  BY DEF Born
<1>1. clock \in Nat /\ clock' \in Nat /\ clock <= clock'
  BY QuietStep, ClockNat DEF IInv
<1>2. certs'[i] = certs[i] \/ (certs'[i].nb = clock /\ certs'[i].born = clock)
  BY NewOrSame
<1>3. certs[i].born \in Nat
  BY DEF IInv, CertsOK, Certificate
<1>4. certs'[i] = certs[i] => certs[i].nb = certs[i].born /\ certs[i].born <= clock
  BY DEF Born
<1> QED BY <1>1, <1>2, <1>3, <1>4

\* A question of a reading is level with the position that was read.
LEMMA ReadLevel ==
  ASSUME NEW s, Reading(s), ~s.force, AskFor(s) # None
  PROVE  Level(AskFor(s), s.row)
<1>1. PICK a : a = AskFor(s)
  OBVIOUS
<1>2. PICK r : r = Resolve(s)
  OBVIOUS
<1>3. /\ r.running /\ Chain(s) # <<>> /\ a.id = r.id /\ a.step = r.step /\ a.since = r.since
      /\ a.len = Len(Chain(s))
  BY <1>1, <1>2 DEF AskFor
<1> SUFFICES ASSUME a.len = 2, a.id # NoCert, s.row # None, s.row.id = a.id
             PROVE  a.step = 1 \/ (s.row.step = 0 /\ a.since <= s.row.since)
  BY <1>1 DEF Level
<1>4. r.step = 1 \/ (s.row.step = 0 /\ r.since = s.row.since)
  BY <1>2, <1>3, PlaceOf
<1>5. s.row.since \in Nat
  BY DEF Reading, Positions
<1> QED BY <1>3, <1>4, <1>5

\* The position written with a question is level with it.
LEMMA SameLevel ==
  ASSUME NEW a, a.step \in 0..1, a.since \in Nat, NEW r, r.step = a.step, r.since = a.since
  PROVE  Level(a, r)
BY DEF Level

LEMMA IdleLevel ==
  ASSUME NEW r, NEW f
  PROVE  TickLevel(Idle, r, f)
<1>1. Idle.pc = "idle"
  BY DEF Idle
<1> QED BY <1>1 DEF TickLevel

LEMMA QuestionLevel ==
  ASSUME NEW a, NEW again, NEW r, NEW f, a # None => Level(a, r)
  PROVE  TickLevel(Question(a, again), r, f) /\ Question(a, again).pc # "read"
<1>1. CASE a = None
  <2>1. Question(a, again) = Idle
    BY <1>1 DEF Question
  <2> QED BY <2>1, IdleLevel DEF Idle
<1>2. CASE a # None
  <2>1. PICK t : t = [pc |-> "key", ask |-> a, again |-> again]
    OBVIOUS
  <2>2. t.pc = "key" /\ t.ask = a
    BY <2>1
  <2>3. TickLevel(t, r, f)
    BY <1>2, <2>2 DEF TickLevel
  <2> QED BY <1>2, <2>1, <2>2, <2>3 DEF Question
<1> QED BY <1>1, <1>2

\* With no position there is nothing to be level with, and with one of a
\* cycle that starts now every question is.
LEMMA NowLevel ==
  ASSUME IInv, NEW r, NEW f, r = None \/ (r.step = 0 /\ r.since = clock), Abreast
  PROVE  TickLevel(tick, r, f)
<1>1. \A a : AskOK(a, clock) => Level(a, r)
  BY DEF AskOK, Asks, Level
<1>2. /\ tick.pc \in {"key", "sent"} => AskOK(tick.ask, clock)
      /\ tick.pc = "read" /\ tick.ask # None => AskOK(tick.ask, clock)
  BY DEF IInv, Carried, TickOK
<1>3. tick.pc = "read" /\ tick.restart # None /\ tick.restart.ask # None
      => Level(tick.restart.ask, tick.restart.row)
  BY DEF Abreast, TickLevel
<1> QED BY <1>1, <1>2, <1>3, Zenon DEF TickLevel

LEMMA ReadAbreast ==
  ASSUME IInv, NEW b \in BOOLEAN, TickRead(b)
  PROVE  /\ TickLevel(tick', row, force) /\ (tick'.ask # None => policy # "acme")
         /\ UNCHANGED <<row, force, policy>>
<1>1. PICK s : s = View
  OBVIOUS
<1>2. Reading(s) /\ s.now = clock /\ s.row = row /\ s.force = force /\ s.policy = policy
  BY <1>1, ViewOK DEF View
<1>3. PICK again : again = [s EXCEPT !.row = Restart(Replacing(s), s.now), !.force = FALSE]
  OBVIOUS
<1>4. /\ again.row = Restart(Replacing(s), s.now) /\ again.force = FALSE
      /\ Chain(s) # <<>> => Reading(again)
  <2>1. /\ again.now = s.now /\ again.row = Restart(Replacing(s), s.now)
        /\ again.certs = s.certs /\ again.proxy = s.proxy /\ again.force = FALSE
    BY <1>1, <1>3 DEF View
  <2>2. Chain(s) # <<>> => again.row \in Positions /\ again.row.since <= again.now
    BY <1>2, <2>1, RestartOK
  <2> QED BY <1>2, <2>1, <2>2 DEF Reading
<1>5. PICK ask : ask = IF Due(s) THEN AskFor(s) ELSE None
  OBVIOUS
<1>6. ask # None => (~force => Level(ask, row)) /\ Due(s)
  BY <1>2, <1>5, ReadLevel
<1>7. PICK restart : restart = IF Due(s) /\ s.force
                               THEN [row |-> again.row, ask |-> AskFor(again)] ELSE None
  OBVIOUS
<1>8. restart # None /\ restart.ask # None => Level(restart.ask, restart.row)
  <2> SUFFICES ASSUME restart # None, restart.ask # None
               PROVE  Level(restart.ask, restart.row)
    OBVIOUS
  <2>1. Due(s) /\ restart.row = again.row /\ restart.ask = AskFor(again)
    BY <1>7
  <2>2. Chain(s) # <<>>
    BY <2>1 DEF Due
  <2> QED BY <1>4, <2>1, <2>2, ReadLevel
<1>9. PICK t : t = [pc |-> "read", told |-> {i \in condemned : certs[i].state = "active"},
                    due |-> Due(s),
                    rev |-> IF {i \in condemned : certs[i].state = "active"} = {}
                            THEN None ELSE RevocationAsk(s),
                    ask |-> ask, restart |-> restart]
  OBVIOUS
<1>10. tick' = t
  BY <1>1, <1>3, <1>5, <1>7, <1>9 DEF TickRead
<1>11. t.pc = "read" /\ t.ask = ask /\ t.restart = restart
  BY <1>9
<1>12. UNCHANGED <<row, force, policy>>
  BY DEF TickRead
<1>13. ask # None => policy # "acme"
  <2>1. ask # None => Chain(s) # <<>>
    BY <1>6 DEF Due
  <2> QED BY <1>2, <2>1 DEF Chain
<1>14. ask # None /\ (restart = None \/ ~force) => Level(ask, row)
  <2>1. ASSUME Due(s)
        PROVE  [row |-> again.row, ask |-> AskFor(again)] # None
    <3>1. Chain(s) # <<>>
      BY <2>1 DEF Due
    <3>2. again.row \in Positions
      BY <1>2, <1>4, <3>1, RestartOK
    <3>3. AskFor(again) \in {None} \cup Asks
      BY <1>4, <3>1, AskForOK DEF AskOK
    <3> QED BY <3>2, <3>3, NoneAssumption
  <2> QED BY <1>2, <1>6, <1>7, <2>1
<1>15. TickLevel(t, row, force)
  BY <1>8, <1>11, <1>14, Zenon DEF TickLevel
<1> QED BY <1>10, <1>11, <1>12, <1>13, <1>15

\* The question a revocation leads to is level with the position it leaves.
LEMMA RevokedLevel ==
  ASSUME IInv, NEW a, AskOK(a, clock), NEW k \in Ids, ApplyRevocation(a, k), NEW f
  PROVE  \A again : /\ TickLevel(Question(AfterRevocation(a, k), again), row', f)
                    /\ Question(AfterRevocation(a, k), again).pc # "read"
<1>1. PICK n : n = AfterRevocation(a, k)
  OBVIOUS
<1>2. AskOK(n, clock)
  BY <1>1, AfterRevocationOK
<1>3. n.step \in 0..1 /\ n.since \in Nat
  BY <1>2 DEF AskOK, Asks
<1>4. row'.step = n.step /\ row'.since = n.since
  BY <1>1 DEF ApplyRevocation, Row
<1>5. Level(n, row')
  BY <1>3, <1>4, SameLevel
<1> QED BY <1>1, <1>5, QuestionLevel

LEMMA AbreastStep ==
  ASSUME PInv, [Next]_vars
  PROVE  Abreast' /\ Unchained'
<1>0. IInv /\ Abreast /\ Unchained
  BY DEF PInv
<1>1. CASE \E b \in BOOLEAN : TickRead(b)
  BY <1>0, <1>1, ReadAbreast DEF Abreast, Unchained
<1>2. CASE tick' = Idle
  BY <1>2, IdleLevel DEF Abreast, Unchained, Idle
<1>3. CASE (\E b \in BOOLEAN : ReplaceCondemned(b)) /\ tick' # Idle
  <2>1. PICK i \in ToReplace : /\ tick.rev # None /\ ApplyRevocation(tick.rev, i)
                               /\ tick' = Question(AfterRevocation(tick.rev, i), TRUE)
    BY <1>3 DEF ReplaceCondemned, RevokeCondemned
  <2>2. tick.pc = "read"
    BY <1>3 DEF ReplaceCondemned
  <2>3. i \in Ids /\ AskOK(tick.rev, clock)
    BY <1>0, <2>1, <2>2 DEF ToReplace, IInv, Carried, TickOK
  <2>4. PICK a, yes : a = tick.rev /\ yes = TRUE
    OBVIOUS
  <2>5. \A f : TickLevel(Question(AfterRevocation(a, i), yes), row', f)
               /\ Question(AfterRevocation(a, i), yes).pc # "read"
    BY <1>0, <2>1, <2>3, <2>4, RevokedLevel
  <2>6. tick' = Question(AfterRevocation(a, i), yes)
    BY <2>1, <2>4
  <2> QED BY <2>5, <2>6 DEF Abreast, Unchained
<1>4. CASE AskCanopy /\ tick' # Idle
  <2>1. PICK no : no = FALSE
    OBVIOUS
  <2>2. tick.pc = "read"
    BY <1>4 DEF AskCanopy
  <2>3. \/ /\ tick.restart # None /\ row' = tick.restart.row
           /\ tick' = Question(tick.restart.ask, no)
        \/ /\ tick.restart = None \/ ~force
           /\ row' = row /\ tick' = Question(tick.ask, no)
    BY <1>4, <2>1 DEF AskCanopy, StartCycle
  <2>4. /\ tick.restart # None /\ tick.restart.ask # None => Level(tick.restart.ask, tick.restart.row)
        /\ (tick.restart = None \/ ~force) /\ tick.ask # None => Level(tick.ask, row)
    BY <1>0, <2>2 DEF Abreast, TickLevel
  <2>5. \A a, r, f : (a # None => Level(a, r))
          => TickLevel(Question(a, no), r, f) /\ Question(a, no).pc # "read"
    BY QuestionLevel
  <2>6. TickLevel(tick', row', force') /\ tick'.pc # "read"
    <3>1. CASE tick.restart # None /\ row' = tick.restart.row /\ tick' = Question(tick.restart.ask, no)
      BY <2>4, <2>5, <3>1
    <3>2. CASE (tick.restart = None \/ ~force) /\ row' = row /\ tick' = Question(tick.ask, no)
      BY <2>4, <2>5, <3>2
    <3> QED BY <2>3, <3>1, <3>2
  <2> QED BY <2>6 DEF Abreast, Unchained
<1>5. CASE KeyFor
  <2>1. tick'.pc = "sent" /\ tick'.ask = tick.ask /\ tick.pc = "key" /\ row' = row
    BY <1>0, <1>5, KeyForCerts DEF KeyFor
  <2>2. Level(tick.ask, row)
    BY <1>0, <2>1 DEF Abreast, TickLevel
  <2> QED BY <2>1, <2>2 DEF Abreast, TickLevel, Unchained
<1>6. CASE Apply /\ tick' # Idle
  <2>1. PICK a, k, yes : a = tick.ask /\ k = tick.key /\ yes = TRUE
    OBVIOUS
  <2>2. AskOK(a, clock) /\ k \in Ids
    BY <1>0, <1>6, <2>1 DEF Apply, IInv, Carried, TickOK
  <2>3. ApplyRevocation(a, k) /\ tick' = Question(AfterRevocation(a, k), yes)
    BY <1>6, <2>1 DEF Apply, Answered
  <2>4. \A f : TickLevel(Question(AfterRevocation(a, k), yes), row', f)
               /\ Question(AfterRevocation(a, k), yes).pc # "read"
    BY <1>0, <2>2, <2>3, RevokedLevel
  <2> QED BY <2>3, <2>4 DEF Abreast, Unchained
<1>7. CASE Retry
  <2>1. UNCHANGED <<tick, policy>>
    BY <1>7 DEF Retry
  <2>2. \/ row' = row /\ force' = TRUE
        \/ /\ Chain([View EXCEPT !.force = TRUE, !.block = FALSE]) # <<>>
           /\ row'.step = 0 /\ row'.since = clock
    BY <1>7 DEF Retry, Restart, Row
  <2>3. CASE row' = row /\ force' = TRUE
    <3>1. TickLevel(tick, row, TRUE)
      BY <1>0 DEF Abreast, TickLevel
    <3> QED BY <1>0, <2>1, <2>3, <3>1 DEF Abreast, Unchained
  <2>4. CASE /\ Chain([View EXCEPT !.force = TRUE, !.block = FALSE]) # <<>>
             /\ row'.step = 0 /\ row'.since = clock
    <3>1. policy # "acme"
      BY <2>4 DEF Chain, View
    <3>2. \A f : TickLevel(tick, row', f)
      BY <1>0, <2>4, NowLevel
    <3> QED BY <2>1, <3>1, <3>2 DEF Abreast, Unchained
  <2> QED BY <2>2, <2>3, <2>4
<1>8. CASE UNCHANGED tick /\ row' = None
  <2>1. \A f : TickLevel(tick, row', f)
    BY <1>0, <1>8, NowLevel
  <2> QED BY <1>8, <2>1 DEF Abreast, Unchained
<1>9. CASE AcmeStart
  <2>1. UNCHANGED <<tick, row, policy>> /\ policy = "acme"
    BY <1>9 DEF AcmeStart, IssueNow
  <2>2. tick.pc = "read" /\ tick.ask # None => row = None
    BY <1>0, <2>1 DEF Unchained
  <2>3. \A a : Level(a, None)
    BY DEF Level
  <2>4. \A f : TickLevel(tick, row, f)
    BY <1>0, <2>2, <2>3, Zenon DEF Abreast, TickLevel
  <2> QED BY <1>0, <2>1, <2>4 DEF Abreast, Unchained
<1>10. CASE UNCHANGED <<tick, row, force, policy>>
  BY <1>0, <1>10 DEF Abreast, Unchained
<1>11. \/ (\E b \in BOOLEAN : TickRead(b)) \/ tick' = Idle
       \/ ((\E b \in BOOLEAN : ReplaceCondemned(b)) /\ tick' # Idle)
       \/ (AskCanopy /\ tick' # Idle) \/ KeyFor \/ (Apply /\ tick' # Idle) \/ Retry
       \/ (UNCHANGED tick /\ row' = None) \/ AcmeStart \/ UNCHANGED <<tick, row, force, policy>>
  BY Zenon DEF Next, TickStep, Operator, Issuance, World, vars, KeyFails, SetPolicy, SetBlock, Retype,
     Upload, Delete, AcmeStore, AcmeEnds, Offer, ProxyOrders, Elapse, Condemn, Crash
<1> QED BY <1>1, <1>2, <1>3, <1>4, <1>5, <1>6, <1>7, <1>8, <1>9, <1>10, <1>11

LEMMA StepPInv == PInv /\ [Next]_vars => PInv'
BY StepIInv, BornStep, AbreastStep DEF PInv

LEMMA InitPInv == Init => PInv
<1> SUFFICES ASSUME Init
             PROVE  PInv
  OBVIOUS
<1>1. IInv
  BY InitIInv
<1>2. Abreast /\ Unchained
  BY IdleLevel DEF Init, Abreast, Unchained
<1>3. Born
  <2>1. PICK w \in Worlds :
          certs = [i \in Ids |-> IF w = "canopy" /\ i = 1
                                 THEN [state |-> "active", origin |-> "canopy", nb |-> 1,
                                       na |-> 1 + Life, born |-> 1]
                                 ELSE Free]
    BY DEF Init
  <2>2. 1 <= clock
    BY Bounds DEF Init
  <2>3. \A i \in Ids : certs[i].state = "active" => certs[i].nb = 1 /\ certs[i].born = 1
    BY <2>1 DEF Free
  <2> QED BY <2>2, <2>3 DEF Born
<1> QED BY <1>1, <1>2, <1>3 DEF PInv

-----------------------------------------------------------------------------
(* What a step does to the position.                                       *)

\* What a step without retries may do to the position, on one policy: leave
\* it, clear it with the certificate it is about or for a chain that arrived,
\* hand it on, or record the question in flight.
LEMMA RowWrites ==
  ASSUME PInv, [Next]_vars, ~force, ~Retry, UNCHANGED policy,
         tick.pc = "read" => tick.rev = None \/ tick.rev.len = 2,
         tick.pc \in {"key", "sent"} => tick.ask.len = 2
  PROVE  \/ UNCHANGED row
         \/ /\ row # None /\ row' = None
            /\ row.id.cert \in Ids /\ certs'[row.id.cert].state = "deleted"
         \/ row' = None /\ \E k \in Ids : /\ certs'[k].state = "active" /\ certs'[k].na > clock
                                          /\ certs'[k].born = clock /\ UNCHANGED clock
         \/ /\ row' \in Positions
            /\ \/ row'.step = 1
               \/ /\ tick.pc \in {"key", "sent"} /\ row'.id = tick.ask.id
                  /\ row'.step = tick.ask.step /\ row'.since = tick.ask.since
<1>0. IInv
  BY DEF PInv
<1>1. clock \in Nat /\ certs \in [Ids -> Certificate] /\ Life \in Nat \ {0}
  BY <1>0, ClockNat, Bounds DEF IInv, CertsOK
<1>2. PosOK(row', clock)
  BY <1>0, RowStep
<1>3. row' # None => row' \in Positions
  BY <1>2 DEF PosOK
<1>4. \A a, k : AskOK(a, clock) /\ a.len = 2 /\ ApplyRevocation(a, k)
        => /\ row'.step = 1 \/ (row'.id = a.id /\ row'.step = a.step /\ row'.since = a.since)
           /\ certs[k].state = "active" => row'.step = 1
  <2> SUFFICES ASSUME NEW a, NEW k, AskOK(a, clock), a.len = 2, ApplyRevocation(a, k)
               PROVE  /\ row'.step = 1 \/ (row'.id = a.id /\ row'.step = a.step /\ row'.since = a.since)
                      /\ certs[k].state = "active" => row'.step = 1
    OBVIOUS
  <2>1. PICK n : n = AfterRevocation(a, k)
    OBVIOUS
  <2>2. row'.id = n.id /\ row'.step = n.step /\ row'.since = n.since
    BY <2>1 DEF ApplyRevocation, Row
  <2>3. CASE certs[k].state = "active"
    <3>1. PICK x : x = [cert |-> k, na |-> certs[k].na]
      OBVIOUS
    <3>2. n = [a EXCEPT !.id = x, !.step = 1, !.since = clock]
      BY <2>1, <2>3, <3>1 DEF AfterRevocation
    <3>3. n.step = 1
      BY <3>2 DEF AskOK, Asks
    <3> QED BY <2>2, <3>3
  <2>4. CASE certs[k].state # "active"
    BY <2>1, <2>2, <2>4 DEF AfterRevocation
  <2> QED BY <2>3, <2>4
<1>5. \A a, k : ApplyRevocation(a, k) /\ AskOK(a, clock) /\ k \in Ids => row' \in Positions
  <2> SUFFICES ASSUME NEW a, NEW k \in Ids, ApplyRevocation(a, k), AskOK(a, clock)
               PROVE  row' \in Positions
    OBVIOUS
  <2>1. PICK n : n = AfterRevocation(a, k)
    OBVIOUS
  <2>2. AskOK(n, clock)
    BY <1>0, <2>1, AfterRevocationOK
  <2>3. row' = Row(n.id, n.step, n.since, TRUE, 0)
    BY <2>1 DEF ApplyRevocation
  <2> QED BY <2>2, <2>3 DEF AskOK, Asks, Row, Positions
<1>6. CASE \E b \in BOOLEAN : ReplaceCondemned(b)
  <2>1. PICK i \in ToReplace : UNCHANGED row \/ (tick.rev # None /\ ApplyRevocation(tick.rev, i))
    BY <1>6 DEF ReplaceCondemned, RevokeCondemned
  <2>2. tick.pc = "read"
    BY <1>6 DEF ReplaceCondemned
  <2>3. i \in Ids /\ certs[i].state = "active" /\ (tick.rev # None => AskOK(tick.rev, clock))
    BY <1>0, <2>2 DEF ToReplace, IInv, Carried, TickOK
  <2> QED BY <1>4, <1>5, <2>1, <2>2, <2>3
<1>7. CASE AskCanopy
  BY <1>7 DEF AskCanopy
<1>8. CASE KeyFails
  <2>1. tick.pc = "key" /\ row' = FailedAt
    BY <1>8 DEF KeyFails
  <2>2. AskOK(tick.ask, clock)
    BY <1>0, <2>1 DEF IInv, Carried, TickOK
  <2>3. PICK b \in BOOLEAN : b = (row # None /\ row.id = tick.ask.id /\ row.open)
    OBVIOUS
  <2>4. row' = Row(tick.ask.id, tick.ask.step, tick.ask.since, b, clock + Debounce)
    BY <2>1, <2>3 DEF FailedAt, FailedRow
  <2>5. clock + Debounce \in Nat
    BY <1>1, Bounds
  <2> QED BY <2>1, <2>2, <2>4, <2>5 DEF AskOK, Asks, Row, Positions
<1>9. CASE Apply
  <2>1. PICK a, k : a = tick.ask /\ k = tick.key
    OBVIOUS
  <2>2. tick.pc = "sent" /\ AskOK(a, clock) /\ k \in Ids /\ a.len = 2 /\ UNCHANGED clock
    BY <1>0, <1>9, <2>1 DEF Apply, IInv, Carried, TickOK
  <2>3. \/ ApplyRevocation(a, k) \/ Refused(a)
        \/ row' = [Position(a) EXCEPT !.open = TRUE, !.retry = 0]
        \/ row' = [Position(a) EXCEPT !.retry = 0]
        \/ row' = [Position(a) EXCEPT !.open = FALSE, !.retry = clock + Debounce]
        \/ \E na \in {clock + Life} \cup ({certs[k].na} \ {0}) :
             /\ ~(na <= clock) /\ row' = None
             /\ certs' = Superseded([certs EXCEPT ![k] = [certs[k] EXCEPT
                           !.state = "active", !.nb = clock, !.na = na, !.born = clock]], k)
    BY <1>9, <2>1 DEF Apply, Answered, Issued, Pending, Unavailable, OrderFailed
  <2>4. a.id \in Identity /\ a.step \in 0..1 /\ a.since \in Nat
    BY <2>2 DEF AskOK, Asks
  <2>5. CASE ApplyRevocation(a, k)
    BY <1>4, <1>5, <2>1, <2>2, <2>5
  <2>6. clock + Debounce \in Nat
    BY <1>1, Bounds
  <2>7. CASE Refused(a)
    <3> DEFINE passes == a.canopy /\ a.id # NoCert /\ a.step + 1 < a.len
    <3>1. CASE passes
      <4>1. row' = Row(a.id, a.step + 1, clock, FALSE, clock + Debounce)
        BY <2>7, <3>1 DEF Refused
      <4>2. a.step + 1 = 1
        BY <2>2, <2>4, <3>1
      <4> QED BY <1>1, <2>4, <2>6, <4>1, <4>2 DEF Row, Positions
    <3>2. CASE ~passes
      <4>1. row' = Row(a.id, a.step, a.since, FALSE, clock + Debounce)
        BY <2>7, <3>2 DEF Refused
      <4> QED BY <1>1, <2>1, <2>2, <2>4, <2>6, <4>1 DEF Row, Positions
    <3> QED BY <3>1, <3>2
  <2>8. CASE \/ row' = [Position(a) EXCEPT !.open = TRUE, !.retry = 0]
             \/ row' = [Position(a) EXCEPT !.retry = 0]
             \/ row' = [Position(a) EXCEPT !.open = FALSE, !.retry = clock + Debounce]
    <3>1. PICK p : p = Position(a)
      OBVIOUS
    <3>2. row # None => row.open \in BOOLEAN /\ row.retry \in Nat
      BY <1>0 DEF IInv, Recorded, PosOK, Positions
    <3>3. p \in Positions /\ p.id = a.id /\ p.step = a.step /\ p.since = a.since
      <4>1. CASE row # None /\ row.id = a.id
        BY <2>4, <3>1, <3>2, <4>1 DEF Position, Row, Positions
      <4>2. CASE ~(row # None /\ row.id = a.id)
        BY <2>4, <3>1, <4>2 DEF Position, Row, Positions
      <4> QED BY <4>1, <4>2
    <3>4. row' \in Positions /\ row'.id = p.id /\ row'.step = p.step /\ row'.since = p.since
      <4>1. CASE row' = [p EXCEPT !.open = TRUE, !.retry = 0]
        BY <3>3, <4>1 DEF Positions
      <4>2. CASE row' = [p EXCEPT !.retry = 0]
        BY <3>3, <4>2 DEF Positions
      <4>3. CASE row' = [p EXCEPT !.open = FALSE, !.retry = clock + Debounce]
        BY <2>6, <3>3, <4>3 DEF Positions
      <4> QED BY <2>8, <3>1, <4>1, <4>2, <4>3
    <3> QED BY <2>1, <2>2, <3>3, <3>4
  <2>9. CASE \E na \in {clock + Life} \cup ({certs[k].na} \ {0}) :
             /\ ~(na <= clock) /\ row' = None
             /\ certs' = Superseded([certs EXCEPT ![k] = [certs[k] EXCEPT
                           !.state = "active", !.nb = clock, !.na = na, !.born = clock]], k)
    <3>1. PICK na \in {clock + Life} \cup ({certs[k].na} \ {0}) :
             /\ ~(na <= clock) /\ row' = None
             /\ certs' = Superseded([certs EXCEPT ![k] = [certs[k] EXCEPT
                           !.state = "active", !.nb = clock, !.na = na, !.born = clock]], k)
      BY <2>9
    <3>2. na \in Nat /\ certs[k] \in Certificate
      BY <1>1, <2>2 DEF Certificate
    <3>3. PICK r : r = [certs[k] EXCEPT !.state = "active", !.nb = clock, !.na = na, !.born = clock]
      OBVIOUS
    <3>4. r.state = "active" /\ r.born = clock /\ r.na = na
      BY <3>2, <3>3 DEF Certificate
    <3>5. PICK c : c = [certs EXCEPT ![k] = r]
      OBVIOUS
    <3>6. certs'[k] = c[k] /\ c[k] = r
      BY <1>1, <2>2, <3>1, <3>3, <3>5 DEF Superseded
    <3>7. na > clock
      BY <1>1, <3>1, <3>2
    <3> QED BY <2>2, <3>1, <3>4, <3>6, <3>7
  <2> QED BY <2>3, <2>5, <2>7, <2>8, <2>9
<1>10. CASE \E i \in Ids : Delete(i)
  <2>1. PICK i \in Ids : /\ certs' = [certs EXCEPT ![i].state = "deleted"]
                         /\ UNCHANGED row \/ (row # None /\ row.id.cert = i /\ row' = None)
    BY <1>10 DEF Delete
  <2>2. certs'[i].state = "deleted"
    BY <1>1, <2>1 DEF Certificate
  <2> QED BY <2>1, <2>2
<1>11. CASE \E p \in Policies : SetPolicy(p)
  BY <1>11 DEF SetPolicy
<1>12. \/ (\E b \in BOOLEAN : ReplaceCondemned(b)) \/ AskCanopy \/ KeyFails \/ Apply
       \/ (\E i \in Ids : Delete(i)) \/ (\E p \in Policies : SetPolicy(p)) \/ UNCHANGED row
  BY Zenon DEF Next, TickStep, Operator, Issuance, World, vars, TickRead, KeyFor,
     SetBlock, Retype, Upload, AcmeStart, AcmeStore, AcmeEnds, Offer, ProxyOrders,
     Elapse, Condemn, Crash
<1> QED BY <1>6, <1>7, <1>8, <1>9, <1>10, <1>11, <1>12

\* A certificate that is in service before and after a step is due when it was.
LEMMA SameDue ==
  ASSUME PInv, [Next]_vars, NEW s, s = View, NEW t, t = View',
         Serving(s) # None, Serving(t) # None, Serving(s).id = Serving(t).id
  PROVE  Serving(s).due = Serving(t).due
<1>1. PICK x : x = Serving(s).id
  OBVIOUS
<1>2. 0 \notin Ids
  BY Bounds DEF Ids
<1>3. \/ x.cert = 0 /\ Serving(s).due = RenewalPoint(x.na - Life, x.na)
      \/ /\ x.cert \in Ids /\ s.certs[x.cert].state = "active" /\ s.certs[x.cert].na = x.na
         /\ Serving(s).due = RenewalPoint(s.certs[x.cert].nb, x.na)
  BY <1>1, ServingDue
<1>4. \/ x.cert = 0 /\ Serving(t).due = RenewalPoint(x.na - Life, x.na)
      \/ /\ x.cert \in Ids /\ t.certs[x.cert].state = "active" /\ t.certs[x.cert].na = x.na
         /\ Serving(t).due = RenewalPoint(t.certs[x.cert].nb, x.na)
  BY <1>1, ServingDue
<1>5. CASE x.cert = 0
  BY <1>2, <1>3, <1>4, <1>5
<1>6. CASE x.cert \in Ids
  <2>1. s.certs = certs /\ t.certs = certs'
    BY DEF View
  <2>2. PICK i \in Ids : i = x.cert
    BY <1>6
  <2>3. certs[i].state = "active" /\ certs'[i].state = "active" /\ certs[i].na = certs'[i].na
    BY <1>2, <1>3, <1>4, <2>1, <2>2
  <2>4. certs[i].na \in Nat /\ RowsMove(certs, certs')
    BY CertsStep DEF PInv, IInv, CertsOK, Certificate
  <2>5. certs'[i] = certs[i]
    BY <2>3, <2>4 DEF RowsMove
  <2> QED BY <1>2, <1>3, <1>4, <2>1, <2>2, <2>5
<1> QED BY <1>3, <1>5, <1>6

\* A certificate that began now is not due yet, or has one instant to live and
\* is the proxy's.
LEMMA FreshPassed ==
  ASSUME NEW n \in Nat, NEW na \in Nat, na > n, RenewalPoint(n, na) <= n,
         NEW id \in Identity, id.na = na
  PROVE  Passed(0, RenewalPoint(n, na), id, n)
<1>1. PICK d \in Nat : d = na - n /\ d > 0
  OBVIOUS
<1>2. PICK h \in Nat : h = (d * 2) \div 3
  OBVIOUS
<1>3. RenewalPoint(n, na) = n + h
  BY <1>1, <1>2 DEF RenewalPoint
<1>4. h = 0
  BY <1>2, <1>3
<1>5. d = 1
  BY <1>1, <1>2, <1>4
<1>6. Halfway(n, na) = n + (1 \div 2)
  BY <1>1, <1>5 DEF Halfway
<1>7. Halfway(n, na) <= n
  BY <1>6
<1> QED BY <1>3, <1>4, <1>7 DEF Passed

\* What is in service beside a chain that arrived in this step began in it.
LEMMA ArrivedPassed ==
  ASSUME PInv, PInv', UNCHANGED clock, NEW t, t = View',
         NEW k \in Ids, certs'[k].state = "active", certs'[k].na > clock, certs'[k].born = clock,
         Serving(t) # None, Serving(t).due <= t.now
  PROVE  Passed(0, Serving(t).due, Serving(t).id, t.now)
<1>1. PICK x : x = Serving(t).id
  OBVIOUS
<1>2. t.certs = certs' /\ t.now = clock' /\ clock' = clock /\ clock \in Nat
  BY ClockNat DEF View, PInv, IInv
<1>3. Reading(t)
  <2>1. IInv'
    BY DEF PInv
  <2>2. clock' \in Nat \ {0}
    BY <2>1, Bounds DEF IInv, ClockOK
  <2> QED BY <2>1, <2>2 DEF IInv, CertsOK, Recorded, PosOK, ProxyOK, Reading, View
<1>4. x \in Identity /\ x.na \in Nat /\ x.na > t.now
  BY <1>1, <1>3, ServingOK DEF Identity
<1>5. certs' \in [Ids -> Certificate]
  BY DEF PInv, IInv, CertsOK
<1>6. \A i \in Ids : certs'[i].na \in Nat /\ certs'[i].born \in Nat
  BY <1>5 DEF Certificate
<1>7. x.cert \in Ids /\ x.cert \in Active(t) /\ certs'[x.cert].state = "active"
      /\ certs'[x.cert].na = x.na /\ Serving(t).due = RenewalPoint(certs'[x.cert].nb, x.na)
  <2> DEFINE G == {i \in Ids : /\ certs'[i].state = "active" /\ certs'[i].na > clock
                               /\ certs'[i].born = clock}
             T == {MaxCerts - i : i \in G}
  <2>1. MaxCerts \in Nat /\ \A i \in G : i \in 1..MaxCerts
    BY Bounds DEF Ids
  <2>2. T \subseteq Nat /\ T # {}
    BY <2>1
  <2>3. PICK m \in T : \A y \in T : m <= y
    BY <2>2, LeastOf
  <2>4. PICK g \in G : m = MaxCerts - g
    BY <2>3
  <2>5. \A i \in G : MaxCerts - g <= MaxCerts - i
    BY <2>3, <2>4
  <2>6. \A i \in G : i <= g
    BY <2>1, <2>5
  <2>7. \A j \in Ids : certs'[j].state = "active" => certs'[j].born <= clock
    BY <1>2 DEF PInv, Born
  <2>8. ASSUME NEW j \in Ids, j # g, certs'[j].state = "active"
        PROVE  Outranks(t, g, j)
    <3>1. CASE ~(certs'[j].na > clock)
      BY <1>2, <3>1 DEF Outranks
    <3>2. CASE certs'[j].na > clock /\ certs'[j].born # clock
      BY <1>2, <1>6, <2>7, <2>8, <3>2 DEF Outranks
    <3>3. CASE j \in G
      <4>1. j < g
        BY <2>1, <2>6, <2>8, <3>3
      <4> QED BY <1>2, <2>1, <3>3, <4>1 DEF Outranks
    <3> QED BY <2>8, <3>1, <3>2, <3>3
  <2>9. g \in Active(t) /\ t.certs[g].na > t.now
    BY <1>2, <2>8 DEF Active
  <2> QED BY <1>1, <1>2, <2>9, ServingDue
<1>8. PICK i \in Ids : i = x.cert
  BY <1>7
<1>9. certs'[i].born = clock /\ certs'[i].nb = clock
  <2>1. certs'[i].nb = certs'[i].born /\ certs'[i].born <= clock
    BY <1>2, <1>7, <1>8 DEF PInv, Born
  <2>2. i = k \/ Outranks(t, i, k)
    BY <1>2, <1>7, <1>8 DEF Active
  <2>3. i = k \/ certs'[i].born >= clock
    BY <1>2, <1>4, <1>6, <1>7, <1>8, <2>2 DEF Outranks
  <2> QED BY <1>2, <1>6, <2>1, <2>3
<1> QED BY <1>1, <1>2, <1>4, <1>7, <1>8, <1>9, FreshPassed

-----------------------------------------------------------------------------
(* Cycles that passed on.                                                  *)

\* What PassesOn asks of a step.
StaysPassed ==
  LET before == Resolve(View)
      after == Resolve(View)'
  IN  /\ Len(Chain(View)) = 2 /\ Len(Chain(View))' = 2
      /\ before.running /\ before.step = 1 /\ before.id # NoCert
      /\ after.running /\ after.id = before.id
      /\ ~force /\ ~force' /\ ~Retry
      /\ tick.pc = "read" => tick.rev = None \/ tick.rev.len = 2
      /\ tick.pc \in {"key", "sent"} => OfThisCycle(tick.ask)
      /\ row # None /\ row' # None /\ row.id = before.id => row'.id = before.id
      => after.step = 1
HandsOn ==
  /\ Serving(View) # None /\ Serving(View).id.cert # 0
  /\ certs'[Serving(View).id.cert].state = "revoked"
  /\ row' # None /\ Len(Chain(View)) = 2
  /\ tick.pc = "read" => tick.rev # None /\ tick.rev.len = 2
  /\ tick.pc = "sent" => tick.ask.len = 2
  => Serving(View)' # None \/ ProxyMayOrder(View)'

\* What a step keeps of a reading.
LEMMA Readings ==
  ASSUME PInv, PInv', [Next]_vars, NEW s, s = View, NEW t, t = View'
  PROVE  /\ Reading(s) /\ s.now = clock /\ s.row = row /\ s.force = force /\ s.certs = certs
         /\ s.policy = policy
         /\ Reading(t) /\ t.now = clock' /\ t.row = row' /\ t.force = force' /\ t.certs = certs'
         /\ t.policy = policy'
         /\ clock \in Nat /\ clock' \in Nat /\ clock <= clock'
<1>1. Reading(s)
  BY ViewOK DEF PInv
<1>2. Reading(t)
  <2>1. IInv'
    BY DEF PInv
  <2>2. clock' \in Nat \ {0}
    BY <2>1, Bounds DEF IInv, ClockOK
  <2> QED BY <2>1, <2>2 DEF IInv, CertsOK, Recorded, PosOK, ProxyOK, Reading, View
<1>3. clock \in Nat /\ clock' \in Nat /\ clock <= clock'
  BY QuietStep, ClockNat DEF PInv, IInv
<1> QED BY <1>1, <1>2, <1>3, Zenon DEF View

LEMMA StaysPassedStep ==
  ASSUME PInv, PInv', [Next]_vars
  PROVE  StaysPassed
<1>1. PICK s : s = View
  OBVIOUS
<1>2. PICK t : t = View'
  OBVIOUS
<1>3. Resolve(View)' = Resolve(t) /\ Len(Chain(View))' = Len(Chain(t))
  BY <1>2
<1> SUFFICES ASSUME Len(Chain(s)) = 2, Len(Chain(t)) = 2,
                    Resolve(s).running, Resolve(s).step = 1, Resolve(s).id # NoCert,
                    Resolve(t).running, Resolve(t).id = Resolve(s).id,
                    ~force, ~force', ~Retry,
                    tick.pc = "read" => tick.rev = None \/ tick.rev.len = 2,
                    tick.pc \in {"key", "sent"} => OfThisCycle(tick.ask),
                    row # None /\ row' # None /\ row.id = Resolve(s).id => row'.id = Resolve(s).id
             PROVE  Resolve(t).step = 1
  BY <1>1, <1>3 DEF StaysPassed
<1>4. PICK x : x = Resolve(s).id
  OBVIOUS
<1>5. /\ Reading(s) /\ s.now = clock /\ s.row = row /\ s.force = force /\ s.policy = policy
      /\ Reading(t) /\ t.now = clock' /\ t.row = row' /\ t.force = force' /\ t.policy = policy'
      /\ t.certs = certs'
      /\ clock \in Nat /\ clock' \in Nat /\ clock <= clock'
  BY <1>1, <1>2, Readings
<1>6. /\ x \in Identity
      /\ row # None /\ row.id = x => Passed(row.step, row.since, x, clock)
      /\ row = None \/ row.id # x =>
           /\ Serving(s) # None /\ Serving(s).id = x
           /\ Passed(0, Serving(s).due, x, clock)
  BY <1>4, <1>5, PlaceOf
<1>7. /\ row' # None /\ row'.id = x =>
           (Resolve(t).step = 1 <=> Passed(row'.step, row'.since, x, clock'))
      /\ row' = None \/ row'.id # x =>
           /\ Serving(t) # None /\ Serving(t).id = x /\ Serving(t).due <= clock'
           /\ Resolve(t).step = 1 <=> Passed(0, Serving(t).due, x, clock')
  BY <1>4, <1>5, PlaceOf
<1>8. UNCHANGED policy
  <2>1. policy \in {"default", "canopy", "acme"} /\ policy' \in {"default", "canopy", "acme"}
    BY QuietStep DEF PInv, IInv, Flags
  <2>2. policy # "acme" /\ policy # "canopy" /\ policy' # "acme" /\ policy' # "canopy"
    BY <1>5 DEF Chain
  <2> QED BY <2>1, <2>2
<1>9. row # None => row.step \in 0..1 /\ row.since \in Nat
  BY DEF PInv, IInv, Recorded, PosOK, Positions
<1>10. CASE (row = None \/ row.id # x) /\ (row' = None \/ row'.id # x)
  <2>1. Serving(s).due = Serving(t).due
    BY <1>1, <1>2, <1>6, <1>7, <1>10, SameDue
  <2>2. Serving(s).due \in Nat
    BY <1>5, <1>6, <1>10, ServingOK
  <2>3. Passed(0, Serving(s).due, x, clock')
    BY <1>5, <1>6, <1>10, <2>2, PassedLater
  <2> QED BY <1>7, <1>10, <2>1, <2>3
<1>11. CASE UNCHANGED row
  <2>1. CASE row # None /\ row.id = x
    <3>1. Passed(row.step, row.since, x, clock')
      BY <1>5, <1>6, <1>9, <2>1, PassedLater
    <3> QED BY <1>7, <1>11, <2>1, <3>1
  <2>2. CASE row = None \/ row.id # x
    BY <1>10, <1>11, <2>2
  <2> QED BY <2>1, <2>2
<1>12. CASE /\ row # None /\ row' = None /\ row.id = x
            /\ row.id.cert \in Ids /\ certs'[row.id.cert].state = "deleted"
  <2>1. Serving(t) # None /\ Serving(t).id = x
    BY <1>7, <1>12
  <2>2. 0 \notin Ids
    BY Bounds DEF Ids
  <2>3. certs'[x.cert].state = "active"
    BY <1>5, <1>12, <2>1, <2>2, ServingDue
  <2> QED BY <1>12, <2>3
<1>13. CASE row' = None /\ \E k \in Ids : /\ certs'[k].state = "active" /\ certs'[k].na > clock
                                          /\ certs'[k].born = clock /\ UNCHANGED clock
  <2>1. PICK k \in Ids : /\ certs'[k].state = "active" /\ certs'[k].na > clock
                         /\ certs'[k].born = clock /\ UNCHANGED clock
    BY <1>13
  <2>2. Passed(0, Serving(t).due, Serving(t).id, t.now)
    BY <1>2, <1>5, <1>7, <1>13, <2>1, ArrivedPassed
  <2> QED BY <1>5, <1>7, <1>13, <2>2
<1>14. CASE row' \in Positions /\ row'.step = 1
  <2>1. row' # None
    BY <1>14, NoneAssumption
  <2>2. CASE row'.id = x
    BY <1>7, <1>14, <2>1, <2>2 DEF Passed
  <2>3. CASE row'.id # x
    BY <1>4, <1>10, <2>1, <2>3
  <2> QED BY <2>2, <2>3
<1>15. CASE /\ row' \in Positions
            /\ tick.pc \in {"key", "sent"} /\ row'.id = tick.ask.id
            /\ row'.step = tick.ask.step /\ row'.since = tick.ask.since
  <2>1. row' # None
    BY <1>15, NoneAssumption
  <2>2. CASE row'.id # x
    BY <1>4, <1>10, <2>1, <2>2
  <2>3. CASE row'.id = x
    <3>1. PICK a : a = tick.ask
      OBVIOUS
    <3>2. a.len = 2 /\ OfThisCycle(a) /\ Level(a, row) /\ AskOK(a, clock)
      BY <1>15, <3>1 DEF OfThisCycle, PInv, Abreast, TickLevel, IInv, Carried, TickOK
    <3>3. a.step \in 0..1 /\ a.since \in Nat /\ a.id = x /\ row'.step = a.step /\ row'.since = a.since
      BY <1>15, <2>3, <3>1, <3>2 DEF AskOK, Asks
    <3>4. Passed(a.step, a.since, x, clock')
      <4>1. CASE a.step = 1
        BY <4>1 DEF Passed
      <4>2. CASE a.step # 1 /\ row # None /\ row.id = x
        <5>1. row.step = 0 /\ a.since <= row.since
          BY <1>4, <3>2, <3>3, <4>2 DEF Level
        <5>2. Passed(0, row.since, x, clock)
          BY <1>6, <4>2, <5>1
        <5> QED BY <1>5, <1>6, <1>9, <3>3, <4>2, <5>1, <5>2, PassedMono
      <4>3. CASE a.step # 1 /\ (row = None \/ row.id # x)
        <5>1. Serving(s) # None /\ Serving(s).id = x /\ Passed(0, Serving(s).due, x, clock)
          BY <1>6, <4>3
        <5>2. a.since <= Serving(s).due
          BY <1>1, <3>2, <3>3, <4>3, <5>1 DEF OfThisCycle
        <5>3. Serving(s).due \in Nat
          BY <1>5, <5>1, ServingOK
        <5> QED BY <1>5, <1>6, <3>3, <5>1, <5>2, <5>3, PassedMono
      <4> QED BY <4>1, <4>2, <4>3
    <3> QED BY <1>7, <2>1, <2>3, <3>3, <3>4
  <2> QED BY <2>2, <2>3
<1>16. tick.pc \in {"key", "sent"} => tick.ask.len = 2
  BY DEF OfThisCycle
<1>17. \/ UNCHANGED row
       \/ /\ row # None /\ row' = None
          /\ row.id.cert \in Ids /\ certs'[row.id.cert].state = "deleted"
       \/ row' = None /\ \E k \in Ids : /\ certs'[k].state = "active" /\ certs'[k].na > clock
                                        /\ certs'[k].born = clock /\ UNCHANGED clock
       \/ /\ row' \in Positions
          /\ \/ row'.step = 1
             \/ /\ tick.pc \in {"key", "sent"} /\ row'.id = tick.ask.id
                /\ row'.step = tick.ask.step /\ row'.since = tick.ask.since
  BY <1>8, <1>16, RowWrites
<1> QED BY <1>10, <1>11, <1>12, <1>13, <1>14, <1>15, <1>17

LEMMA HandsOnStep ==
  ASSUME PInv, PInv', [Next]_vars
  PROVE  HandsOn
<1>1. PICK s : s = View
  OBVIOUS
<1>2. PICK t : t = View'
  OBVIOUS
<1>3. Serving(View)' = Serving(t) /\ ProxyMayOrder(View)' = ProxyMayOrder(t)
  BY <1>2
<1> SUFFICES ASSUME Serving(s) # None, Serving(s).id.cert # 0,
                    certs'[Serving(s).id.cert].state = "revoked",
                    row' # None, Len(Chain(s)) = 2,
                    tick.pc = "read" => tick.rev # None /\ tick.rev.len = 2,
                    tick.pc = "sent" => tick.ask.len = 2,
                    Serving(t) = None
             PROVE  ProxyMayOrder(t)
  BY <1>1, <1>3 DEF HandsOn
<1>4. /\ Reading(s) /\ s.now = clock /\ s.certs = certs /\ s.policy = policy
      /\ Reading(t) /\ t.now = clock' /\ t.row = row' /\ t.policy = policy' /\ clock \in Nat
  BY <1>1, <1>2, Readings
<1>5. PICK x : x = Serving(s).id
  OBVIOUS
<1>6. /\ x.cert \in Ids /\ certs[x.cert].state = "active" /\ certs[x.cert].na = x.na
      /\ x.na > clock /\ x \in Identity
  BY <1>4, <1>5, ServingDue, ServingOK
<1>7. PICK i \in Ids : i = x.cert
  BY <1>6
<1>8. /\ certs[i].state = "active" /\ certs'[i].state = "revoked"
      /\ certs \in [Ids -> Certificate] /\ certs[i] \in Certificate
  BY <1>5, <1>6, <1>7 DEF PInv, IInv, CertsOK
<1> DEFINE Revokes(a, k) == /\ k \in Ids /\ ApplyRevocation(a, k) /\ AskOK(a, clock) /\ a.len = 2
                            /\ UNCHANGED <<clock, policy, typed>>
<1>9. PICK a, k : Revokes(a, k)
  <2>1. CASE \E b \in BOOLEAN : ReplaceCondemned(b)
    <3>1. tick.pc = "read" /\ UNCHANGED <<clock, policy, typed>>
      BY <2>1 DEF ReplaceCondemned
    <3>2. PICK k \in ToReplace : ApplyRevocation(tick.rev, k)
      BY <2>1, <3>1 DEF ReplaceCondemned, RevokeCondemned
    <3>3. k \in Ids /\ AskOK(tick.rev, clock)
      BY <3>1 DEF ToReplace, PInv, IInv, Carried, TickOK
    <3>4. Revokes(tick.rev, k)
      BY <3>1, <3>2, <3>3
    <3> QED BY <3>4
  <2>2. CASE Apply
    <3>1. tick.pc = "sent" /\ UNCHANGED <<clock, policy, typed>>
      BY <2>2 DEF Apply
    <3>2. AskOK(tick.ask, clock) /\ tick.key \in Ids
      BY <3>1 DEF PInv, IInv, Carried, TickOK
    <3>3. CASE ApplyRevocation(tick.ask, tick.key)
      <4>1. Revokes(tick.ask, tick.key)
        BY <3>1, <3>2, <3>3
      <4> QED BY <4>1
    <3>4. CASE row' = None
      BY <3>4
    <3>5. CASE UNCHANGED certs
      BY <1>8, <3>5
    <3> QED BY <2>2, <3>3, <3>4, <3>5 DEF Apply, Answered, Issued, Pending, Unavailable, Refused,
                                          OrderFailed
  <2>3. CASE AcmeStore \/ (\E life \in {2, Life} : Upload(life))
    <3>1. PICK o, na : FreeIds # {} /\ certs' = InsertAndSupersede(NextId, o, na)
      BY <2>3 DEF AcmeStore, Upload
    <3>2. PICK n : n = NextId
      OBVIOUS
    <3>3. n \in Ids /\ n # i
      BY <1>8, <3>1, <3>2, NextIdFree
    <3>4. PICK c : c = [certs EXCEPT ![n] = [state |-> "active", origin |-> o, nb |-> clock,
                                             na |-> na, born |-> clock]]
      OBVIOUS
    <3>5. certs' = Superseded(c, n) /\ c[i] = certs[i] /\ c[i] \in Certificate
      BY <1>8, <3>1, <3>2, <3>3, <3>4 DEF InsertAndSupersede
    <3>6. certs'[i] = c[i] \/ certs'[i] = [c[i] EXCEPT !.state = "superseded"]
      BY <3>5 DEF Superseded
    <3> QED BY <1>8, <3>5, <3>6 DEF Certificate
  <2>4. CASE \E j \in Ids : Delete(j)
    <3>1. PICK j \in Ids : certs' = [certs EXCEPT ![j].state = "deleted"]
      BY <2>4 DEF Delete
    <3> QED BY <1>8, <3>1 DEF Certificate
  <2>5. CASE KeyFor
    <3>1. PICK n, r : n = NextId /\ r = [state |-> "csr_pending", origin |-> "canopy", nb |-> 0,
                                         na |-> 0, born |-> clock]
      OBVIOUS
    <3>2. UNCHANGED certs \/ certs' = [certs EXCEPT ![n] = r]
      BY <2>5, <3>1 DEF KeyFor
    <3>3. r.state # "revoked"
      BY <3>1
    <3> QED BY <1>8, <3>2, <3>3
  <2>6. CASE UNCHANGED certs
    BY <1>8, <2>6
  <2>7. \/ (\E b \in BOOLEAN : ReplaceCondemned(b)) \/ KeyFor \/ Apply \/ AcmeStore
        \/ (\E life \in {2, Life} : Upload(life)) \/ (\E j \in Ids : Delete(j)) \/ UNCHANGED certs
    BY Zenon DEF Next, TickStep, Operator, Issuance, World, vars, TickRead, AskCanopy, KeyFails,
       SetPolicy, Retry, SetBlock, Retype, AcmeStart, AcmeEnds, Offer, ProxyOrders, Elapse, Condemn, Crash
  <2> QED BY <2>1, <2>2, <2>3, <2>4, <2>5, <2>6, <2>7
<1>10. k = i
  <2>1. certs' = certs \/ certs' = [certs EXCEPT ![k].state = "revoked"]
    BY <1>9 DEF ApplyRevocation, RevokeCert
  <2> QED BY <1>8, <2>1
<1>11. row'.id = x /\ row'.step = 1
  <2>1. PICK id : id = [cert |-> i, na |-> certs[i].na]
    OBVIOUS
  <2>2. AfterRevocation(a, i) = [a EXCEPT !.id = id, !.step = 1, !.since = clock]
    BY <1>8, <1>9, <2>1 DEF AfterRevocation
  <2>3. AfterRevocation(a, i).id = id /\ AfterRevocation(a, i).step = 1
    BY <1>9, <2>2 DEF AskOK, Asks
  <2>4. row'.id = id /\ row'.step = 1
    BY <1>9, <1>10, <2>3 DEF ApplyRevocation, Row
  <2>5. id = x
    BY <1>6, <1>7, <2>1 DEF Identity
  <2> QED BY <2>4, <2>5
<1>12. Chain(t) = Chain(s)
  BY <1>1, <1>2, <1>9 DEF Chain, View
<1>13. Chain(t) = <<"canopy", "http01">> /\ Len(Chain(t)) = 2
  BY <1>12, ChainShape
<1>14. x # NoCert /\ x.na # 0 /\ x.na > t.now
  BY <1>4, <1>6, <1>9, Bounds DEF NoCert, Ids, Identity
<1>15. Resolve(t) = Running(t, row'.id, Clip(t, row'.step), row'.since, row'.open)
  BY <1>4, <1>11, <1>14 DEF Resolve
<1>16. row'.since \in Nat
  BY <1>4 DEF Reading, Positions
<1>17. PICK si \in Nat, st \in 0..1 : si = row'.since /\ st = 1
  BY <1>16
<1>18. PICK o : o = row'.open
  OBVIOUS
<1>19. Resolve(t) = Running(t, x, Clip(t, st), si, o)
  BY <1>11, <1>15, <1>17, <1>18
<1>20. Resolve(t).step = 1
  BY <1>4, <1>6, <1>13, <1>14, <1>17, <1>19, RunningStep DEF Passed, Reading
<1>21. Resolve(t).running
  BY <1>15 DEF Running
<1>22. ProxyFrom(t) = 0
  BY <1>13, <1>20, <1>21 DEF ProxyFrom
<1> QED BY <1>4, <1>9, <1>22, NoneAssumption DEF ProxyMayOrder

\* For every lifetime and bound, whatever answers late and whoever dies: a cycle that
\* passed to the proxy stays there, and a revocation hands the hostname on in the
\* step that records it (chain.rs resolve, tls/canopy.rs apply_revocation).
THEOREM PassedOn == Spec => PassesOn
<1>1. PInv /\ PInv' /\ [Next]_vars => [StaysPassed]_vars /\ [HandsOn]_vars
  BY StaysPassedStep, HandsOnStep
<1>2. Spec => [][StaysPassed]_vars
  BY <1>1, InitPInv, StepPInv, PTL DEF Spec
<1>3. Spec => [][HandsOn]_vars
  BY <1>1, InitPInv, StepPInv, PTL DEF Spec
<1> QED BY <1>2, <1>3 DEF PassesOn, StaysPassed, HandsOn
=============================================================================
