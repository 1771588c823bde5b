------------------------- MODULE GenerationsProofs -------------------------
(***************************************************************************)
(* Theorems about Generations, for every set of handlers, definitions,     *)
(* parameters and values and every number of crashes.                      *)
(*                                                                         *)
(* What the history says of a parameter is a choice of a greatest element. *)
(* The invariants name that element instead, so that adding a row is a     *)
(* step of arithmetic.                                                     *)
(***************************************************************************)
EXTENDS Generations, TLAPS

Working == [pc : Pcs, req : Requests \cup {Invocation, None},
            previous : Values \cup {None}, seen : Stored \cup {None}, gen : Nat]

\* The history is numbered from 1 without a gap.
Numbered == Newest \in Nat \ {0} /\ rows \in [1 .. Newest -> History]

\* An entry holds an App of its own bundle.
Shaped(e) ==
  /\ e = [bundle |-> e.bundle, evaluated |-> <<e.bundle, e.evaluated[2]>>, generation |-> e.generation]
  /\ e.generation \in Nat

Types ==
  /\ Numbered
  /\ stored \in Stored
  /\ hs \in [Handlers -> Working]
  /\ torn \subseteq Params /\ overlap \in BOOLEAN /\ cut \in BOOLEAN /\ raced \in BOOLEAN
  /\ ~cut => torn = {}
  /\ Shaped(entry) /\ current \in Nat

\* What a handler at a given step was asked for.
Asked == \A h \in Handlers :
  /\ hs[h].pc # "idle" => hs[h].req \in Requests \cup {Invocation}
  /\ hs[h].pc \notin {"idle", "request", "spawn"} => hs[h].req \in Requests
  /\ hs[h].pc = "spawn" => hs[h].req = Invocation
  /\ hs[h].pc \in {"store", "insert", "annotate", "point", "load", "reload", "stamp", "persist"}
       => hs[h].req.kind = "param"
  /\ hs[h].pc \in {"commit", "replace"} => hs[h].req.kind = "update"

\* One database call at a time.
Locked == \A h \in Handlers : hs[h].pc \in {"insert", "annotate", "point"} <=> db = h

\* The most recent change of p, if there is one, is to v.
Says(p, v) ==
  \/ v = None /\ \A g \in 1 .. Newest : rows[g].param # p
  \/ \E g \in 1 .. Newest : /\ rows[g].param = p /\ rows[g].new = v
                            /\ \A k \in 1 .. Newest : rows[k].param = p => k <= g

InCall(p) == \E h \in Handlers : hs[h].pc \in {"insert", "annotate"} /\ hs[h].req.param = p

\* The history lags behind the values only inside a database call, and there
\* only for the parameter that the call is about.
Told ==
  /\ \A p \in Params \ torn : InCall(p) \/ Says(p, stored[p])
  /\ \A h \in Handlers :
       /\ hs[h].pc \in {"insert", "annotate"} => stored[hs[h].req.param] = hs[h].req.value
       /\ hs[h].pc = "annotate" => hs[h].gen = Newest /\ rows[Newest].param = None

HInv == Types /\ Asked /\ Locked /\ Told

-----------------------------------------------------------------------------

\* One change at a time.
Solo == \A g, h \in Handlers : Changing(g) /\ Changing(h) => g = h

IsDef(g) == rows[g].kind \in {"register", "script_update"}

\* d is the newest definition, and the app's row is not behind it.
Origin(d) ==
  \E g \in 1 .. Newest : /\ g <= current /\ IsDef(g) /\ rows[g].def = d
                         /\ \A k \in 1 .. Newest : IsDef(k) => k <= g

Fit == entry.evaluated = <<entry.bundle, stored>> \/ ~Evaluates(entry.bundle, stored)

\* How the entry, the row and the history stand while the only change has come
\* as far as x, or while there is none and x is Idle.
AgreesFor(x) ==
  /\ x.pc # "replace" => Origin(entry.bundle)
  /\ x.pc \in {"idle", "read", "store", "commit", "stamp", "persist", "schedule", "request"} => Fit
  /\ x.pc \in {"idle", "read", "store", "commit"} /\ torn = {} =>
       current = Newest /\ entry.generation = Newest
  /\ x.pc \in {"annotate", "point", "load", "reload", "stamp", "persist", "schedule", "request", "replace"}
       => x.gen = Newest
  /\ x.pc \in {"load", "reload", "stamp", "persist", "schedule", "request", "replace"} => current = Newest
  /\ x.pc \in {"persist", "schedule", "request"} => entry.generation = Newest
  /\ x.pc \in {"reload", "replace"} => x.seen = stored
  /\ x.pc = "replace" => Origin(x.req.def)
  /\ x.pc = "commit" =>
       /\ x.seen = Proposed(x.req)
       /\ x.req.param # None => x.previous = stored[x.req.param]

Agrees ==
  /\ current \in 1 .. Newest
  /\ NoChange => AgreesFor(Idle)
  /\ \A h \in Handlers : Changing(h) => AgreesFor(hs[h])

AInv == ~overlap => Solo /\ Agrees

-----------------------------------------------------------------------------

\* The invocation that spawns an operation has the slot to itself.
Spawning ==
  /\ slot # None => slot = [source |-> slot.source, target |-> slot.target, queued |-> slot.queued,
                            row |-> slot.row, app |-> slot.app]
  /\ \A h \in Handlers : hs[h].pc = "spawn" =>
       /\ slot # None /\ slot.app = None /\ ~slot.queued /\ ~slot.row
       /\ \A g \in Handlers : hs[g].pc = "spawn" => g = h

\* What generation n says is complete.
Settled(n) == \A h \in Handlers : hs[h].pc = "annotate" => hs[h].gen # n

\* The newest definition, and the most recent change of a parameter, up to n.
DefIs(d, n) == \E g \in 1 .. n : /\ IsDef(g) /\ rows[g].def = d
                                 /\ \A k \in 1 .. n : IsDef(k) => k <= g
SaysAt(p, v, n) ==
  \/ v = None /\ \A g \in 1 .. n : rows[g].param # p
  \/ \E g \in 1 .. n : /\ rows[g].param = p /\ rows[g].new = v
                       /\ \A k \in 1 .. n : rows[k].param = p => k <= g

\* OfGeneration, in these words.
IsOf(a, n) ==
  \E s \in Stored : /\ DefIs(a[1], n) /\ \A p \in Params : SaysAt(p, s[p], n)
                    /\ a[2] = s \/ ~Evaluates(a[1], s)

\* The App a is of generation t or of a later one.
Good(a, t) == \E n \in t .. Newest : Settled(n) /\ IsOf(a, n)

\* Nothing that holds an App holds one older than the generation it names, and
\* nothing names a generation that the entry has not come to.
Fresh ==
  /\ entry.generation \in 1 .. Newest
  /\ Good(entry.evaluated, entry.generation)
  /\ slot # None => /\ slot.target \in 1 .. entry.generation
                    /\ slot.app # None => Good(slot.app, slot.target)
  /\ \A h \in Handlers : Invoking(h) => hs[h].gen \in 1 .. entry.generation

\* No change is at work beside an operation or an invocation.
Apart ==
  /\ slot # None \/ (\E h \in Handlers : Invoking(h)) => NoChange
  /\ slot # None => slot.target = Newest
  /\ \A h \in Handlers : Invoking(h) => hs[h].gen = Newest

OInv == ~overlap /\ ~cut => Fresh /\ (~raced => Apart)

-----------------------------------------------------------------------------
(* The history.                                                            *)

LEMMA LastIs ==
  ASSUME NEW S, S \subseteq Nat, NEW g \in S, \A k \in S : k <= g
  PROVE  Last(S) = g
<1>1. ASSUME NEW m \in S, \A k \in S : k <= m PROVE m = g
  <2>1. m \in Nat /\ g \in Nat
    OBVIOUS
  <2>2. m <= g
    OBVIOUS
  <2>3. g <= m
    BY <1>1
  <2> QED BY <2>1, <2>2, <2>3
<1> QED BY <1>1 DEF Last

LEMMA LastNumber ==
  ASSUME NEW n \in Nat \ {0}
  PROVE  Last(1 .. n) = n
<1> DEFINE S == 1 .. n
<1>1. S \subseteq Nat /\ n \in S /\ \A k \in S : k <= n
  OBVIOUS
<1> HIDE DEF S
<1>2. Last(S) = n
  BY <1>1, LastIs
<1> QED BY <1>2 DEF S

\* What a request asks for.
LEMMA RequestFields ==
  ASSUME NEW r \in Requests
  PROVE  /\ r.kind \in {"param", "update"} /\ r.param \in Params \cup {None}
         /\ r.value \in Values \cup {None}
         /\ r.kind = "param" => r.param \in Params
         /\ r.kind = "update" => r.def \in Defs
         /\ r # Invocation
<1>1. /\ r.kind \in {"param", "update"} /\ r.param \in Params \cup {None}
      /\ r.value \in Values \cup {None}
      /\ r.kind = "param" => r.param \in Params
      /\ r.kind = "update" => r.def \in Defs
  BY DEF Requests
<1>2. Invocation.kind = "invoke"
  BY DEF Invocation
<1> QED BY <1>1, <1>2

LEMMA NoneApart == None \notin Params /\ None \notin Handlers /\ None \notin Values
BY ConstantsAssumption DEF ConstantsAssumption

\* A new row changes nothing else.
LEMMA RowAdded ==
  ASSUME Numbered, NEW r \in History, AddRow(r)
  PROVE  /\ Numbered' /\ Newest' = Newest + 1 /\ NextGeneration = Newest + 1
         /\ rows'[Newest + 1] = r /\ \A g \in 1 .. Newest : rows'[g] = rows[g]
         /\ 1 .. Newest' = (1 .. Newest) \cup {Newest + 1}
<1> DEFINE n == Newest
<1>1. n \in Nat \ {0} /\ DOMAIN rows = 1 .. n /\ NextGeneration = n + 1
  BY DEF Numbered, NextGeneration
<1>2. (1 .. n) \cup {n + 1} = 1 .. n + 1
  BY <1>1
<1>3. rows' = [g \in 1 .. n + 1 |-> IF g = n + 1 THEN r ELSE rows[g]]
  BY <1>1, <1>2 DEF AddRow
<1>4. DOMAIN rows' = 1 .. n + 1
  BY <1>3
<1>5. Newest' = n + 1
  BY <1>1, <1>4, LastNumber DEF Newest
<1> HIDE DEF n
<1>6. rows' \in [1 .. n + 1 -> History]
  <2>1. \A g \in 1 .. n : rows[g] \in History
    BY <1>1 DEF Numbered, n
  <2>2. \A g \in 1 .. n + 1 : g # n + 1 => g \in 1 .. n
    BY <1>1
  <2> QED BY <1>3, <2>1, <2>2
<1>7. rows'[n + 1] = r /\ \A g \in 1 .. n : rows'[g] = rows[g]
  BY <1>1, <1>3
<1> QED BY <1>1, <1>2, <1>5, <1>6, <1>7 DEF n, Numbered

\* The greatest row about p is the one param_map_at finds.
LEMMA SaysMap ==
  ASSUME Numbered, NEW n \in 1 .. Newest, NEW p \in Params, NEW v, SaysAt(p, v, n)
  PROVE  ParamMapAt(n)[p] = v
<1> DEFINE at == {g \in DOMAIN rows : g <= n /\ rows[g].param = p}
<1>1. DOMAIN rows = 1 .. Newest /\ Newest \in Nat
  BY DEF Numbered
<1>2. ParamMapAt(n)[p] = IF at = {} THEN None ELSE rows[Last(at)].new
  BY DEF ParamMapAt
<1>3. at \subseteq Nat /\ \A g : g \in at <=> g \in 1 .. n /\ rows[g].param = p
  BY <1>1
<1> HIDE DEF at
<1>4. CASE v = None /\ \A g \in 1 .. n : rows[g].param # p
  BY <1>2, <1>3, <1>4
<1>5. ASSUME NEW g \in 1 .. n, rows[g].param = p, rows[g].new = v,
             \A k \in 1 .. n : rows[k].param = p => k <= g
      PROVE  ParamMapAt(n)[p] = v
  <2>1. g \in at /\ \A k \in at : k <= g
    BY <1>3, <1>5
  <2>2. Last(at) = g
    BY <1>3, <2>1, LastIs
  <2> QED BY <1>2, <1>5, <2>1, <2>2
<1> QED BY <1>4, <1>5 DEF SaysAt

\* A row about another parameter, or about none, leaves what is said of p.
LEMMA SaysKept ==
  ASSUME Numbered, NEW r \in History, AddRow(r), NEW p \in Params, NEW v, Says(p, v), r.param # p
  PROVE  Says(p, v)'
<1> DEFINE n == Newest
<1>1. /\ Newest' = n + 1 /\ rows'[n + 1] = r /\ \A g \in 1 .. n : rows'[g] = rows[g]
      /\ 1 .. Newest' = (1 .. n) \cup {n + 1} /\ n \in Nat
  BY RowAdded DEF Numbered
<1>2. CASE v = None /\ \A g \in 1 .. n : rows[g].param # p
  BY <1>1, <1>2 DEF Says
<1>3. ASSUME NEW g \in 1 .. n, rows[g].param = p, rows[g].new = v,
             \A k \in 1 .. n : rows[k].param = p => k <= g
      PROVE  Says(p, v)'
  <2> HIDE DEF n
  <2>1. g \in 1 .. Newest' /\ rows'[g].param = p /\ rows'[g].new = v
    BY <1>1, <1>3
  <2>2. \A k \in 1 .. Newest' : rows'[k].param = p => k <= g
    BY <1>1, <1>3
  <2> QED BY <2>1, <2>2 DEF Says
<1> QED BY <1>2, <1>3 DEF Says

\* A row about p says what it says.
LEMMA SaysNew ==
  ASSUME NEW n \in Nat, n \in 1 .. n, Newest' = n, rows'[n].param \in Params
  PROVE  Says(rows[n].param, rows[n].new)'
<1>1. \A k \in 1 .. n : k <= n
  OBVIOUS
<1> QED BY <1>1 DEF Says

-----------------------------------------------------------------------------
(* The history and the stored values.                                      *)

\* A step of h that changes its own fields and touches neither the history nor
\* the lock.
Moves(h, w) == hs' = [hs EXCEPT ![h] = w] /\ UNCHANGED <<stored, rows, db, torn>>

LEMMA Fields ==
  ASSUME Types, NEW h \in Handlers
  PROVE  /\ hs[h] \in Working /\ hs[h].pc \in Pcs /\ hs[h].req \in Requests \cup {Invocation, None}
         /\ hs[h].previous \in Values \cup {None} /\ hs[h].seen \in Stored \cup {None}
         /\ hs[h].gen \in Nat
BY DEF Types, Working

LEMMA IdleType == Idle \in Working /\ Idle.pc = "idle"
<1>1. "idle" \in Pcs
  BY DEF Pcs
<1> QED BY <1>1 DEF Idle, Working

\* The history says what it said when neither it nor the values change and the
\* database calls are those that were there.
LEMMA ToldKept ==
  ASSUME Told, UNCHANGED <<stored, rows>>, torn' = torn,
         \A h \in Handlers :
           hs[h].pc \in {"insert", "annotate"} \/ hs'[h].pc \in {"insert", "annotate"} =>
             /\ hs'[h].pc = hs[h].pc /\ hs'[h].req = hs[h].req /\ hs'[h].gen = hs[h].gen
  PROVE  Told'
<1>1. Newest' = Newest
  BY DEF Newest
<1>2. \A p \in Params : InCall(p) => InCall(p)'
  BY DEF InCall
<1>4. \A p \in Params \ torn' : InCall(p)' \/ Says(p, stored[p])'
  <2> SUFFICES ASSUME NEW p \in Params \ torn PROVE InCall(p)' \/ Says(p, stored[p])'
    OBVIOUS
  <2>1. InCall(p) \/ Says(p, stored[p])
    BY DEF Told
  <2>2. Says(p, stored[p]) => Says(p, stored[p])'
    BY <1>1 DEF Says
  <2> QED BY <2>1, <2>2, <1>2
<1>5. \A h \in Handlers :
        /\ hs'[h].pc \in {"insert", "annotate"} => stored'[hs'[h].req.param] = hs'[h].req.value
        /\ hs'[h].pc = "annotate" => hs'[h].gen = Newest' /\ rows'[Newest'].param = None
  BY <1>1 DEF Told
<1> QED BY <1>4, <1>5 DEF Told

\* A handler's step outside its database call.
LEMMA MovesKeeps ==
  ASSUME HInv, NEW h \in Handlers, NEW w \in Working, Moves(h, w),
         hs[h].pc \notin {"insert", "annotate", "point"}, w.pc \notin {"insert", "annotate", "point"},
         w.pc # "idle" => w.req \in Requests \cup {Invocation},
         w.pc \notin {"idle", "request", "spawn"} => w.req \in Requests,
         w.pc = "spawn" => w.req = Invocation,
         w.pc \in {"store", "load", "reload", "stamp", "persist"} => w.req.kind = "param",
         w.pc \in {"commit", "replace"} => w.req.kind = "update",
         overlap' \in BOOLEAN, raced' \in BOOLEAN, cut' = cut, Shaped(entry)', current' \in Nat
  PROVE  HInv'
<1>1. /\ hs' \in [Handlers -> Working] /\ hs'[h] = w
      /\ \A g \in Handlers : g # h => hs'[g] = hs[g]
  BY DEF HInv, Types, Moves
<1>2. UNCHANGED <<stored, rows, db, torn>> /\ Newest' = Newest
  BY DEF Moves, Newest
<1>3. Types'
  BY <1>1, <1>2 DEF HInv, Types, Numbered
<1>4. Asked'
  BY <1>1 DEF HInv, Asked
<1>5. Locked'
  BY <1>1, <1>2 DEF HInv, Locked
<1>6. Told'
  BY <1>1, <1>2, ToldKept DEF HInv
<1> QED BY <1>3, <1>4, <1>5, <1>6 DEF HInv

\* A handler moves on with a new generation.
Put(h, q, n) == hs' = [hs EXCEPT ![h].pc = q, ![h].gen = n]

LEMMA GenPut ==
  ASSUME Types, NEW h \in Handlers, NEW n \in Nat, NEW q \in Pcs, Put(h, q, n)
  PROVE  /\ hs' \in [Handlers -> Working] /\ hs'[h].pc = q /\ hs'[h].gen = n
         /\ hs'[h].req = hs[h].req /\ hs'[h].seen = hs[h].seen /\ hs'[h].previous = hs[h].previous
         /\ \A g \in Handlers : g # h => hs'[g] = hs[g]
<1>1. hs \in [Handlers -> Working]
  BY DEF Types
<1> DEFINE w == [hs[h] EXCEPT !.pc = q, !.gen = n]
<1>2. w \in Working /\ w.pc = q /\ w.gen = n /\ w.req = hs[h].req /\ w.seen = hs[h].seen
      /\ w.previous = hs[h].previous
  BY <1>1 DEF Working
<1>3. hs' = [hs EXCEPT ![h] = w]
  BY <1>1 DEF Put
<1> HIDE DEF w
<1> QED BY <1>1, <1>2, <1>3

LEMMA StoreKeeps ==
  ASSUME HInv, NEW h \in Handlers, StoreParamValue(h)
  PROVE  HInv'
<1> DEFINE r == hs[h].req
<1>1. /\ hs[h].pc = "store" /\ db = None /\ db' = h
      /\ stored' = [stored EXCEPT ![r.param] = r.value]
      /\ hs' = [hs EXCEPT ![h].pc = "insert"] /\ UNCHANGED <<rows, torn, overlap, entry, current, cut, raced>>
  BY DEF StoreParamValue, Step
<1>2. r \in Requests /\ r.kind = "param" /\ r.param \in Params /\ r.value \in Values \cup {None}
  BY <1>1, RequestFields DEF HInv, Asked
<1> HIDE DEF r
<1>3. /\ hs' \in [Handlers -> Working] /\ hs'[h].pc = "insert" /\ hs'[h].req = r
      /\ \A g \in Handlers : g # h => hs'[g] = hs[g]
  BY <1>1 DEF HInv, Types, Working, Pcs, r
<1>4. /\ stored' \in Stored /\ stored'[r.param] = r.value
      /\ \A p \in Params : p # r.param => stored'[p] = stored[p]
  BY <1>1, <1>2 DEF HInv, Types, Stored
<1>5. Newest' = Newest
  BY <1>1 DEF Newest
<1>6. \A g \in Handlers : hs[g].pc \notin {"insert", "annotate", "point"}
  BY <1>1, NoneApart DEF HInv, Locked
<1>7. Types'
  BY <1>1, <1>3, <1>4, <1>5 DEF HInv, Types, Numbered
<1>8. Asked'
  BY <1>2, <1>3 DEF HInv, Asked
<1>9. Locked'
  BY <1>1, <1>3, <1>6 DEF Locked
<1>10. Told'
  <2>1. ASSUME NEW p \in Params \ torn PROVE InCall(p)' \/ Says(p, stored[p])'
    <3>1. CASE p = r.param
      BY <3>1, <1>3 DEF InCall
    <3>2. CASE p # r.param
      <4>1. Says(p, stored[p])
        BY <1>6 DEF HInv, Told, InCall
      <4> QED BY <4>1, <3>2, <1>1, <1>4, <1>5 DEF Says
    <3> QED BY <3>1, <3>2
  <2> QED BY <2>1, <1>1, <1>3, <1>4, <1>6 DEF Told
<1> QED BY <1>7, <1>8, <1>9, <1>10 DEF HInv

LEMMA InsertKeeps ==
  ASSUME HInv, NEW h \in Handlers, InsertRow(h)
  PROVE  HInv'
<1> DEFINE r == hs[h].req
           row == [kind |-> IF r.value = None THEN "param_unset" ELSE "param_set",
                   def |-> rows[Newest].def, param |-> None, previous |-> None, new |-> None]
<1>1. /\ hs[h].pc = "insert" /\ AddRow(row)
      /\ hs' = [hs EXCEPT ![h].pc = "annotate", ![h].gen = NextGeneration]
      /\ UNCHANGED <<stored, db, torn, overlap, entry, current, cut, raced>>
  BY DEF InsertRow
<1>2. row \in History
  <2>1. rows[Newest] \in History
    BY DEF HInv, Types, Numbered
  <2>2. rows[Newest].def \in Defs
    BY <2>1 DEF History
  <2> QED BY <2>2 DEF History, Kinds
<1>3. row.param = None
  OBVIOUS
<1> HIDE DEF row, r
<1>4. /\ Numbered' /\ Newest' = Newest + 1 /\ NextGeneration = Newest + 1
      /\ rows'[Newest + 1] = row /\ Newest \in Nat
  BY <1>1, <1>2, RowAdded DEF HInv, Types, Numbered
<1>5. /\ hs' \in [Handlers -> Working] /\ hs'[h].pc = "annotate" /\ hs'[h].req = r
      /\ hs'[h].gen = Newest + 1
      /\ \A g \in Handlers : g # h => hs'[g] = hs[g]
  <2>1. PICK n \in Nat : n = Newest + 1
    BY <1>4
  <2>2. "annotate" \in Pcs /\ Types
    BY DEF Pcs, HInv
  <2>3. Put(h, "annotate", n)
    BY <1>1, <1>4, <2>1 DEF Put
  <2>4. /\ hs' \in [Handlers -> Working] /\ hs'[h].pc = "annotate" /\ hs'[h].gen = n
        /\ hs'[h].req = hs[h].req
        /\ \A g \in Handlers : g # h => hs'[g] = hs[g]
    BY <2>2, <2>3, GenPut
  <2> QED BY <2>1, <2>4 DEF r
<1>6. \A g \in Handlers : g # h => hs[g].pc \notin {"insert", "annotate", "point"}
  BY <1>1 DEF HInv, Locked
<1>7. Types'
  BY <1>1, <1>4, <1>5 DEF HInv, Types
<1>8. Asked'
  BY <1>1, <1>5 DEF HInv, Asked, r
<1>9. Locked'
  BY <1>1, <1>5 DEF HInv, Locked
<1>10. Told'
  <2>1. ASSUME NEW p \in Params \ torn PROVE InCall(p)' \/ Says(p, stored[p])'
    <3>1. CASE InCall(p)
      <4>1. hs[h].req.param = p
        BY <3>1, <1>6 DEF InCall
      <4> QED BY <4>1, <1>5 DEF InCall, r
    <3>2. CASE Says(p, stored[p])
      <4>1. Says(p, stored[p])'
        <5>1. row.param # p /\ Numbered
          BY <1>3, NoneApart DEF HInv, Types
        <5>2. PICK v : v = stored[p]
          OBVIOUS
        <5>3. Says(p, v)'
          BY <3>2, <5>1, <5>2, <1>1, <1>2, SaysKept
        <5> QED BY <5>2, <5>3, <1>1 DEF Says
      <4> QED BY <4>1
    <3> QED BY <3>1, <3>2 DEF HInv, Told
  <2>2. stored[r.param] = r.value
    BY <1>1 DEF HInv, Told, r
  <2>3. ASSUME NEW g \in Handlers
        PROVE  /\ hs'[g].pc \in {"insert", "annotate"} => stored'[hs'[g].req.param] = hs'[g].req.value
               /\ hs'[g].pc = "annotate" => hs'[g].gen = Newest' /\ rows'[Newest'].param = None
    <3>1. CASE g = h
      BY <3>1, <2>2, <1>1, <1>3, <1>4, <1>5
    <3>2. CASE g # h
      BY <3>2, <1>5, <1>6
    <3> QED BY <3>1, <3>2
  <2> QED BY <2>1, <2>3, <1>1 DEF Told
<1> QED BY <1>7, <1>8, <1>9, <1>10 DEF HInv

\* The new row is completed in place.
LEMMA Annotated ==
  ASSUME Types, NEW h \in Handlers, WriteParamChange(h), hs[h].gen = Newest, hs[h].req \in Requests
  PROVE  /\ Numbered' /\ Newest' = Newest
         /\ rows'[Newest].param = hs[h].req.param /\ rows'[Newest].new = hs[h].req.value
         /\ rows'[Newest].kind = rows[Newest].kind /\ rows'[Newest].def = rows[Newest].def
         /\ \A g \in 1 .. Newest : g # Newest => rows'[g] = rows[g]
<1> DEFINE n == Newest
           r == hs[h].req
           x == [rows[n] EXCEPT !.param = r.param, !.previous = hs[h].previous, !.new = r.value]
<1>1. n \in Nat \ {0} /\ rows \in [1 .. n -> History] /\ n \in 1 .. n
  BY DEF Types, Numbered
<1>2. rows' = [rows EXCEPT ![n] = x]
  BY <1>1 DEF WriteParamChange
<1>3. r.param \in Params \cup {None} /\ r.value \in Values \cup {None}
      /\ hs[h].previous \in Values \cup {None} /\ rows[n] \in History
  BY <1>1, RequestFields, Fields
<1> HIDE DEF n, r
<1>4. /\ x \in History /\ x.param = r.param /\ x.new = r.value
      /\ x.kind = rows[n].kind /\ x.def = rows[n].def
  BY <1>3 DEF History
<1> HIDE DEF x
<1>5. rows' \in [1 .. n -> History] /\ rows'[n] = x /\ \A g \in 1 .. n : g # n => rows'[g] = rows[g]
  BY <1>1, <1>2, <1>4
<1>6. DOMAIN rows' = 1 .. n
  BY <1>5
<1>7. Newest' = n
  BY <1>1, <1>6, LastNumber DEF Newest
<1> QED BY <1>1, <1>4, <1>5, <1>7 DEF Numbered, n, r

LEMMA WriteKeeps ==
  ASSUME HInv, NEW h \in Handlers, WriteParamChange(h)
  PROVE  HInv'
<1> DEFINE r == hs[h].req
           n == Newest
<1>1. /\ hs[h].pc = "annotate" /\ torn' = torn \ {r.param}
      /\ hs' = [hs EXCEPT ![h].pc = "point"] /\ UNCHANGED <<stored, db, overlap, entry, current, cut, raced>>
  BY DEF WriteParamChange, Step
<1>2. r \in Requests /\ r.kind = "param" /\ r.param \in Params
  BY <1>1, RequestFields DEF HInv, Asked
<1>3. stored[r.param] = r.value /\ hs[h].gen = n /\ rows[n].param = None
  BY <1>1 DEF HInv, Told
<1>4. /\ Numbered' /\ Newest' = n /\ rows'[n].param = r.param /\ rows'[n].new = r.value
      /\ \A g \in 1 .. n : g # n => rows'[g] = rows[g]
      /\ n \in Nat \ {0}
  BY <1>2, <1>3, Annotated DEF HInv, Types, Numbered
<1>5. /\ hs' \in [Handlers -> Working] /\ hs'[h].pc = "point" /\ hs'[h].req = r
      /\ \A g \in Handlers : g # h => hs'[g] = hs[g]
  BY <1>1 DEF HInv, Types, Working, Pcs
<1>6. \A g \in Handlers : g # h => hs[g].pc \notin {"insert", "annotate", "point"}
  BY <1>1 DEF HInv, Locked
<1> HIDE DEF r, n
<1>7. Types'
  BY <1>1, <1>4, <1>5 DEF HInv, Types
<1>8. Asked'
  BY <1>2, <1>5 DEF HInv, Asked
<1>9. Locked'
  BY <1>1, <1>5 DEF HInv, Locked
<1>10. Told'
  <2>1. ASSUME NEW p \in Params, p \notin torn' PROVE Says(p, stored[p])'
    <3>1. CASE p = r.param
      <4>1. PICK m \in Nat : m = n /\ m \in 1 .. m
        BY <1>4
      <4>2. Newest' = m /\ rows'[m].param = p /\ rows'[m].new = stored'[p]
        BY <4>1, <3>1, <1>1, <1>3, <1>4
      <4>3. Says(rows[m].param, rows[m].new)'
        BY <4>1, <4>2, SaysNew
      <4> QED BY <4>2, <4>3 DEF Says
    <3>2. CASE p # r.param
      <4>1. ~InCall(p) /\ p \notin torn
        BY <2>1, <3>2, <1>1, <1>6 DEF InCall, r
      <4>2. Says(p, stored[p])
        BY <4>1 DEF HInv, Told
      <4>3. \A g \in 1 .. n : /\ rows'[g].param = p <=> rows[g].param = p
                              /\ rows[g].param = p => rows'[g] = rows[g]
        BY <3>2, <1>3, <1>4, NoneApart
      <4>4. CASE stored[p] = None /\ \A g \in 1 .. n : rows[g].param # p
        BY <4>3, <4>4, <1>1, <1>4 DEF Says
      <4>5. ASSUME NEW g \in 1 .. n, rows[g].param = p, rows[g].new = stored[p],
                   \A k \in 1 .. n : rows[k].param = p => k <= g
            PROVE  Says(p, stored[p])'
        <5>1. g \in 1 .. Newest' /\ rows'[g].param = p /\ rows'[g].new = stored'[p]
          BY <4>3, <4>5, <1>1, <1>4
        <5>2. \A k \in 1 .. Newest' : rows'[k].param = p => k <= g
          BY <4>3, <4>5, <1>4
        <5> QED BY <5>1, <5>2 DEF Says
      <4> QED BY <4>2, <4>4, <4>5 DEF Says, n
    <3> QED BY <3>1, <3>2
  <2> QED BY <2>1, <1>5, <1>6 DEF Told
<1> QED BY <1>7, <1>8, <1>9, <1>10 DEF HInv

LEMMA PointKeeps ==
  ASSUME HInv, NEW h \in Handlers, PointRow(h)
  PROVE  HInv'
<1>1. /\ hs[h].pc = "point" /\ hs' = [hs EXCEPT ![h].pc = "load"] /\ db' = None
      /\ current' = hs[h].gen
      /\ UNCHANGED <<stored, rows, torn, overlap, entry, cut, raced>>
  BY DEF PointRow, Step
<1>2. /\ hs' \in [Handlers -> Working] /\ hs'[h].pc = "load" /\ hs'[h].req = hs[h].req
      /\ \A g \in Handlers : g # h => hs'[g] = hs[g]
  BY <1>1 DEF HInv, Types, Working, Pcs
<1>3. \A g \in Handlers : g # h => hs[g].pc \notin {"insert", "annotate", "point"}
  BY <1>1 DEF HInv, Locked
<1>4. Newest' = Newest
  BY <1>1 DEF Newest
<1>5. Types'
  BY <1>1, <1>2, <1>4, Fields DEF HInv, Types, Numbered
<1>6. Asked'
  BY <1>1, <1>2 DEF HInv, Asked
<1>7. Locked'
  BY <1>1, <1>2, <1>3, NoneApart DEF Locked
<1>8. Told'
  BY <1>1, <1>2, ToldKept DEF HInv
<1> QED BY <1>5, <1>6, <1>7, <1>8 DEF HInv

LEMMA CommitKeeps ==
  ASSUME HInv, NEW h \in Handlers, CommitUpdate(h)
  PROVE  HInv'
<1> DEFINE r == hs[h].req
           changed == r.param # None /\ hs[h].previous # r.value
           row == [kind |-> "script_update", def |-> r.def,
                   param |-> IF changed THEN r.param ELSE None,
                   previous |-> IF changed THEN hs[h].previous ELSE None,
                   new |-> IF changed THEN r.value ELSE None]
<1>1. /\ hs[h].pc = "commit" /\ db = None /\ AddRow(row)
      /\ stored' = IF changed THEN [stored EXCEPT ![r.param] = r.value] ELSE stored
      /\ torn' = IF changed THEN torn \ {r.param} ELSE torn
      /\ hs' = [hs EXCEPT ![h].pc = "replace", ![h].gen = NextGeneration]
      /\ current' = NextGeneration /\ UNCHANGED <<db, overlap, entry, cut, raced>>
  BY DEF CommitUpdate
<1>2. /\ r \in Requests /\ r.kind = "update" /\ r.def \in Defs /\ r.param \in Params \cup {None}
      /\ r.value \in Values \cup {None} /\ hs[h].previous \in Values \cup {None}
      /\ changed => r.param \in Params
  BY <1>1, RequestFields, Fields DEF HInv, Asked
<1>3. /\ row \in History /\ row.param = (IF changed THEN r.param ELSE None)
      /\ changed => row.new = r.value
  BY <1>2 DEF History, Kinds
<1> HIDE DEF row, r, changed
<1>4. /\ Numbered' /\ Newest' = Newest + 1 /\ NextGeneration = Newest + 1
      /\ rows'[Newest + 1] = row /\ Newest \in Nat /\ Numbered
  BY <1>1, <1>3, RowAdded DEF HInv, Types, Numbered
<1>5. /\ hs' \in [Handlers -> Working] /\ hs'[h].pc = "replace" /\ hs'[h].req = r
      /\ \A g \in Handlers : g # h => hs'[g] = hs[g]
  <2>1. PICK n \in Nat : n = Newest + 1
    BY <1>4
  <2>2. "replace" \in Pcs /\ Types
    BY DEF Pcs, HInv
  <2>3. Put(h, "replace", n)
    BY <1>1, <1>4, <2>1 DEF Put
  <2>4. /\ hs' \in [Handlers -> Working] /\ hs'[h].pc = "replace" /\ hs'[h].req = hs[h].req
        /\ \A g \in Handlers : g # h => hs'[g] = hs[g]
    BY <2>2, <2>3, GenPut
  <2> QED BY <2>4 DEF r
<1>6. \A g \in Handlers : hs[g].pc \notin {"insert", "annotate", "point"}
  BY <1>1, NoneApart DEF HInv, Locked
<1>7. /\ stored' \in Stored
      /\ changed => stored'[r.param] = r.value
      /\ \A p \in Params : p # r.param \/ ~changed => stored'[p] = stored[p]
  BY <1>1, <1>2 DEF HInv, Types, Stored
<1>8. Types'
  BY <1>1, <1>4, <1>5, <1>7 DEF HInv, Types
<1>9. Asked'
  BY <1>2, <1>5 DEF HInv, Asked
<1>10. Locked'
  BY <1>1, <1>5, <1>6, NoneApart DEF Locked
<1>11. Told'
  <2>1. ASSUME NEW p \in Params, p \notin torn' PROVE Says(p, stored[p])'
    <3>1. CASE changed /\ p = r.param
      <4>1. PICK n \in Nat : n = Newest + 1 /\ n \in 1 .. n
        BY <1>4
      <4>2. Newest' = n /\ rows'[n].param = p /\ rows'[n].new = r.value
        BY <4>1, <3>1, <1>3, <1>4
      <4>3. Says(rows[n].param, rows[n].new)'
        BY <4>1, <4>2, SaysNew
      <4> QED BY <4>2, <4>3, <3>1, <1>7 DEF Says
    <3>2. CASE ~(changed /\ p = r.param)
      <4>1. p \notin torn /\ ~InCall(p)
        BY <2>1, <3>2, <1>1, <1>6 DEF InCall
      <4>2. PICK v : v = stored[p]
        OBVIOUS
      <4>3. Says(p, v)
        BY <4>1, <4>2 DEF HInv, Told
      <4>4. row.param # p
        BY <3>2, <1>3, NoneApart
      <4>5. Says(p, v)'
        BY <4>3, <4>4, <1>1, <1>3, <1>4, SaysKept
      <4>6. stored'[p] = v
        BY <3>2, <4>2, <1>7
      <4> QED BY <4>5, <4>6 DEF Says
    <3> QED BY <3>1, <3>2
  <2> QED BY <2>1, <1>5, <1>6 DEF Told
<1> QED BY <1>8, <1>9, <1>10, <1>11 DEF HInv

\* A crash inside a database call leaves the parameter of the call torn.
LEMMA RestartKeeps ==
  ASSUME HInv, Restart
  PROVE  HInv'
<1> DEFINE half == {hs[h].req.param : h \in {k \in Handlers : hs[k].pc \in {"insert", "annotate", "point"}}}
<1>1. /\ hs' = [h \in Handlers |-> Idle] /\ db' = None /\ torn' = torn \cup half
      /\ cut' = (cut \/ torn' # {})
      /\ UNCHANGED <<stored, rows, current, overlap, raced>> /\ entry' = LoadFromDb
  BY DEF Restart, tables
<1>2. \A h \in Handlers : hs'[h] \in Working /\ hs'[h].pc = "idle"
  BY <1>1, IdleType
<1>3. Newest' = Newest
  BY <1>1 DEF Newest
<1>4. half \subseteq Params
  BY RequestFields DEF HInv, Asked
<1>5. \A p \in Params : InCall(p) => p \in half
  BY DEF InCall
<1> HIDE DEF half
<1>6. Types'
  <2>1. Shaped(entry)'
    BY <1>1 DEF LoadFromDb, Shaped, HInv, Types
  <2>2. cut' \in BOOLEAN /\ (~cut' => torn' = {})
    BY <1>1
  <2> QED BY <2>1, <2>2, <1>1, <1>2, <1>3, <1>4 DEF HInv, Types, Numbered
<1>7. Asked' /\ Locked'
  BY <1>1, <1>2, NoneApart DEF Asked, Locked
<1>8. ASSUME NEW p \in Params, p \notin torn' PROVE Says(p, stored[p])'
  <2>1. Says(p, stored[p])
    BY <1>1, <1>5, <1>8 DEF HInv, Told
  <2> QED BY <2>1, <1>1, <1>3 DEF Says
<1>9. Told'
  BY <1>2, <1>8 DEF Told
<1> QED BY <1>6, <1>7, <1>9 DEF HInv

LEMMA HandlerMoves ==
  ASSUME HInv, NEW h \in Handlers,
         \/ \E r \in Requests : Begin(h, r)
         \/ ReadPrevious(h) \/ ReadValues(h) \/ Refuse(h) \/ LoadParams(h) \/ Reload(h)
         \/ StampGeneration(h) \/ PersistAppFields(h) \/ ReplaceDefinition(h) \/ ScheduleOnChange(h)
         \/ InvokeAction(h) \/ RequestSlot(h) \/ Spawn(h)
  PROVE  HInv'
<1> DEFINE x == hs[h]
<1>1. /\ x \in Working /\ x.pc \in Pcs /\ x.req \in Requests \cup {Invocation, None}
      /\ x.previous \in Values \cup {None}
      /\ x.seen \in Stored \cup {None} /\ x.gen \in Nat /\ hs \in [Handlers -> Working]
      /\ stored \in Stored /\ overlap \in BOOLEAN /\ raced \in BOOLEAN /\ Types
      /\ Shaped(entry) /\ current \in Nat
  BY Fields DEF HInv, Types
<1>2. /\ x.pc # "idle" => x.req \in Requests \cup {Invocation}
      /\ x.pc \notin {"idle", "request", "spawn"} => x.req \in Requests
      /\ x.pc = "spawn" => x.req = Invocation
      /\ x.pc \in {"store", "load", "reload", "stamp", "persist"} => x.req.kind = "param"
      /\ x.pc \in {"commit", "replace"} => x.req.kind = "update"
  BY DEF HInv, Asked
<1>3. /\ UNCHANGED <<stored, rows, db, torn>> /\ overlap' \in BOOLEAN /\ raced' \in BOOLEAN
      /\ current' \in Nat /\ cut' = cut /\ x.pc \notin {"insert", "annotate", "point"}
  BY <1>1 DEF Begin, ReadPrevious, ReadValues, Refuse, LoadParams, Reload, StampGeneration,
              PersistAppFields, ReplaceDefinition, ScheduleOnChange, InvokeAction, RequestSlot,
              Spawn, tables, Shaped
<1>4. Shaped(entry)'
  <2>1. CASE entry' = entry
    BY <2>1, <1>1 DEF Shaped
  <2>2. CASE Reload(h)
    BY <2>2, <1>1 DEF Reload, Shaped
  <2>3. CASE StampGeneration(h)
    BY <2>3, <1>1 DEF StampGeneration, Shaped
  <2>4. CASE ReplaceDefinition(h)
    BY <2>4, <1>1 DEF ReplaceDefinition, Shaped
  <2> QED BY <2>1, <2>2, <2>3, <2>4 DEF Begin, ReadPrevious, ReadValues, Refuse, LoadParams,
             PersistAppFields, ScheduleOnChange, InvokeAction, RequestSlot, Spawn
<1>5. ASSUME NEW w \in Working, hs' = [hs EXCEPT ![h] = w],
             w.pc \notin {"insert", "annotate", "point"},
             w.pc # "idle" => w.req \in Requests \cup {Invocation},
             w.pc \notin {"idle", "request", "spawn"} => w.req \in Requests,
             w.pc = "spawn" => w.req = Invocation,
             w.pc \in {"store", "load", "reload", "stamp", "persist"} => w.req.kind = "param",
             w.pc \in {"commit", "replace"} => w.req.kind = "update"
      PROVE  HInv'
  BY <1>3, <1>4, <1>5, MovesKeeps DEF Moves
<1>6. ASSUME Done(h) PROVE HInv'
  BY <1>5, <1>6, IdleType DEF Done
<1>7. ASSUME NEW q \in {"stamp", "persist", "schedule", "request", "spawn"}, Step(h, q), x.pc # "idle",
             q \in {"stamp", "persist"} => x.req.kind = "param",
             q # "spawn" => x.req \in Requests, q = "spawn" => x.req = Invocation
      PROVE  HInv'
  <2> DEFINE w == [x EXCEPT !.pc = q]
  <2>1. hs' = [hs EXCEPT ![h] = w]
    BY <1>1, <1>7 DEF Step
  <2>2. w \in Working /\ w.pc = q /\ w.req = x.req
    BY <1>1 DEF Working, Pcs
  <2> HIDE DEF w
  <2> QED BY <2>1, <2>2, <1>2, <1>5, <1>7
<1>8. ASSUME NEW r \in Requests, Begin(h, r) PROVE HInv'
  <2> DEFINE w == [Idle EXCEPT !.pc = "read", !.req = r]
  <2>1. hs' = [hs EXCEPT ![h] = w]
    BY <1>8 DEF Begin
  <2>2. w \in Working /\ w.pc = "read" /\ w.req = r
    BY <1>8, IdleType DEF Idle, Working, Pcs
  <2> HIDE DEF w
  <2> QED BY <2>1, <2>2, <1>5, <1>8
<1>9. CASE ReadPrevious(h)
  <2> DEFINE w == [x EXCEPT !.pc = "store", !.previous = stored[x.req.param]]
  <2>1. x.pc = "read" /\ x.req.kind = "param" /\ x.req \in Requests
    BY <1>2, <1>9 DEF ReadPrevious
  <2>2. stored[x.req.param] \in Values \cup {None}
    BY <1>1, <2>1, RequestFields DEF Stored
  <2>3. CASE hs' = [hs EXCEPT ![h].pc = "store", ![h].previous = stored[x.req.param]]
    <3>1. hs' = [hs EXCEPT ![h] = w]
      BY <1>1, <2>3
    <3>2. w \in Working /\ w.pc = "store" /\ w.req = x.req
      BY <1>1, <2>2 DEF Working, Pcs
    <3> HIDE DEF w
    <3> QED BY <3>1, <3>2, <2>1, <1>5
  <2> QED BY <1>6, <1>9, <2>3 DEF ReadPrevious
<1>10. CASE ReadValues(h)
  <2> DEFINE r == x.req
             prev == IF r.param = None THEN None ELSE stored[r.param]
             w == [x EXCEPT !.pc = "commit", !.seen = Proposed(r), !.previous = prev]
  <2>1. x.pc = "read" /\ r.kind = "update" /\ r \in Requests
    BY <1>2, <1>10 DEF ReadValues
  <2>2. r.param \in Params \cup {None} /\ r.value \in Values \cup {None}
    BY <2>1, RequestFields
  <2>3. prev \in Values \cup {None} /\ Proposed(r) \in Stored
    BY <1>1, <2>2 DEF Stored, Proposed
  <2>4. CASE hs' = [hs EXCEPT ![h].pc = "commit", ![h].seen = Proposed(r), ![h].previous = prev]
    <3>1. hs' = [hs EXCEPT ![h] = w]
      BY <1>1, <2>4
    <3> HIDE DEF prev
    <3>2. w \in Working /\ w.pc = "commit" /\ w.req = x.req
      BY <1>1, <2>3 DEF Working, Pcs
    <3> HIDE DEF w
    <3> QED BY <3>1, <3>2, <2>1, <1>5
  <2> QED BY <1>6, <1>10, <2>4 DEF ReadValues
<1>11. CASE Refuse(h)
  BY <1>6, <1>11 DEF Refuse
<1>12. CASE LoadParams(h)
  <2> DEFINE w == [x EXCEPT !.pc = "reload", !.seen = stored]
  <2>1. hs' = [hs EXCEPT ![h] = w] /\ x.pc = "load"
    BY <1>1, <1>12 DEF LoadParams
  <2>2. w \in Working /\ w.pc = "reload" /\ w.req = x.req
    BY <1>1 DEF Working, Pcs
  <2> HIDE DEF w
  <2> QED BY <2>1, <2>2, <1>2, <1>5
<1>13. CASE Reload(h)
  BY <1>2, <1>7, <1>13 DEF Reload
<1>14. CASE StampGeneration(h)
  BY <1>2, <1>7, <1>14 DEF StampGeneration
<1>15. CASE PersistAppFields(h)
  BY <1>2, <1>7, <1>15 DEF PersistAppFields
<1>16. CASE ReplaceDefinition(h)
  BY <1>2, <1>6, <1>7, <1>16 DEF ReplaceDefinition
<1>17. CASE ScheduleOnChange(h)
  BY <1>2, <1>6, <1>7, <1>17 DEF ScheduleOnChange
<1>18. CASE InvokeAction(h)
  <2>1. PICK n : n = entry.generation
    OBVIOUS
  <2> DEFINE w == [Idle EXCEPT !.pc = "request", !.req = Invocation, !.gen = n]
  <2>2. hs' = [hs EXCEPT ![h] = w]
    BY <1>18, <2>1 DEF InvokeAction
  <2>3. n \in Nat
    BY <1>1, <2>1 DEF Shaped
  <2>4. w \in Working /\ w.pc = "request" /\ w.req = Invocation
    BY <2>3, IdleType DEF Idle, Working, Pcs
  <2> HIDE DEF w
  <2> QED BY <2>2, <2>4, <1>5
<1>19. CASE RequestSlot(h)
  <2>1. x.pc = "request" /\ (Done(h) \/ (Invoking(h) /\ Step(h, "spawn")))
    BY <1>19 DEF RequestSlot
  <2> QED BY <2>1, <1>6, <1>7 DEF Invoking
<1>20. CASE Spawn(h)
  BY <1>6, <1>20 DEF Spawn
<1> QED BY <1>8, <1>9, <1>10, <1>11, <1>12, <1>13, <1>14, <1>15, <1>16, <1>17, <1>18, <1>19, <1>20

LEMMA HInvStep == HInv /\ [Next]_vars => HInv'
<1> SUFFICES ASSUME HInv, [Next]_vars PROVE HInv'
  OBVIOUS
<1>1. ASSUME NEW h \in Handlers, Handle(h) \/ \E r \in Requests : Begin(h, r) PROVE HInv'
  BY <1>1, HandlerMoves, StoreKeeps, InsertKeeps, WriteKeeps, PointKeeps, CommitKeeps DEF Handle
<1>2. CASE Restart
  BY <1>2, RestartKeeps
<1>3. CASE Dequeue \/ SaveOperation \/ Complete \/ UNCHANGED vars
  <2>1. UNCHANGED <<stored, rows, hs, db, torn, cut, overlap, raced, entry, current>>
    BY <1>3 DEF Dequeue, SaveOperation, Complete, vars, tables
  <2>2. Newest' = Newest
    BY <2>1 DEF Newest
  <2>3. Told'
    BY <2>1, ToldKept DEF HInv
  <2>4. Types'
    BY <2>1, <2>2 DEF HInv, Types, Numbered
  <2> QED BY <2>1, <2>3, <2>4 DEF HInv, Asked, Locked
<1> QED BY <1>1, <1>2, <1>3 DEF Next

LEMMA HInvInit == Init => HInv
<1> SUFFICES ASSUME Init PROVE HInv
  OBVIOUS
<1>1. PICK d \in Defs :
        /\ rows = [g \in {1} |-> [kind |-> "register", def |-> d, param |-> None,
                                  previous |-> None, new |-> None]]
        /\ entry = [bundle |-> d, evaluated |-> <<d, stored>>, generation |-> 1]
  BY DEF Init
<1>2. 1 .. 1 = {1} /\ DOMAIN rows = 1 .. 1
  BY <1>1
<1>3. Newest = 1
  <2>1. DOMAIN rows \subseteq Nat /\ 1 \in DOMAIN rows /\ \A k \in DOMAIN rows : k <= 1
    BY <1>2
  <2> QED BY <2>1, LastIs DEF Newest
<1>4. Numbered /\ rows[1].param = None
  BY <1>1, <1>2, <1>3 DEF Numbered, History, Kinds
<1>5. stored \in Stored /\ \A p \in Params : stored[p] = None
  BY DEF Init, Stored
<1>6. \A h \in Handlers : hs[h] \in Working /\ hs[h].pc = "idle"
  BY IdleType DEF Init
<1>7. Types
  BY <1>1, <1>4, <1>5, <1>6 DEF Types, Init, Shaped
<1>8. Asked /\ Locked
  BY <1>6, NoneApart DEF Asked, Locked, Init
<1>9. Told
  BY <1>2, <1>3, <1>4, <1>5, <1>6, NoneApart DEF Told, Says
<1> QED BY <1>7, <1>8, <1>9 DEF HInv

\* Outside a database call the only rows written are new ones.
LEMMA RowsKept ==
  ASSUME HInv, Next, db = None
  PROVE  DOMAIN rows \subseteq DOMAIN rows' /\ \A g \in DOMAIN rows : rows'[g] = rows[g]
<1>1. ASSUME NEW h \in Handlers, CommitUpdate(h)
      PROVE  DOMAIN rows \subseteq DOMAIN rows' /\ \A g \in DOMAIN rows : rows'[g] = rows[g]
  <2>1. DOMAIN rows = 1 .. Newest /\ NextGeneration = Newest + 1 /\ Newest \in Nat
    BY DEF HInv, Types, Numbered, NextGeneration
  <2>2. NextGeneration \notin DOMAIN rows
    BY <2>1
  <2>3. \E r : AddRow(r)
    BY <1>1 DEF CommitUpdate
  <2> QED BY <2>2, <2>3 DEF AddRow
<1>2. \A h \in Handlers : ~InsertRow(h) /\ ~WriteParamChange(h)
  BY NoneApart DEF HInv, Locked, InsertRow, WriteParamChange
<1> QED BY <1>1, <1>2 DEF Next, Handle, Begin, ReadPrevious, ReadValues, Refuse, StoreParamValue,
           PointRow, LoadParams, Reload, StampGeneration, PersistAppFields, ReplaceDefinition,
           ScheduleOnChange, InvokeAction, RequestSlot, Spawn, Dequeue, SaveOperation, Complete,
           Restart, tables

\* r[generation.history] and r[generation.reconstruction]: a generation once written
\* says the same for ever, and between two database calls param_map_at of the newest
\* generation gives the stored values back, for any number of handlers and crashes,
\* except for a parameter whose change a crash cut in two.
THEOREM HistoryHolds == Spec => HistoryTells
<1>1. Spec => []HInv
  BY HInvInit, HInvStep, PTL DEF Spec
<1>2. HInv => (db = None => \A p \in Params \ torn : ParamMapAt(Newest)[p] = stored[p])
  <2> SUFFICES ASSUME HInv, db = None, NEW p \in Params \ torn PROVE ParamMapAt(Newest)[p] = stored[p]
    OBVIOUS
  <2>1. ~InCall(p)
    BY NoneApart DEF HInv, Locked, InCall
  <2>2. Says(p, stored[p]) /\ Numbered
    BY <2>1 DEF HInv, Told, Types
  <2>3. PICK n \in 1 .. Newest : n = Newest
    BY <2>2 DEF Numbered
  <2>4. PICK v : v = stored[p]
    OBVIOUS
  <2>5. SaysAt(p, v, n)
    BY <2>2, <2>3, <2>4 DEF Says, SaysAt
  <2> QED BY <2>2, <2>3, <2>4, <2>5, SaysMap
<1>3. HInv /\ [Next]_vars =>
        [db = None => /\ DOMAIN rows \subseteq DOMAIN rows'
                      /\ \A g \in DOMAIN rows : rows'[g] = rows[g]]_vars
  BY RowsKept
<1> QED BY <1>1, <1>2, <1>3, PTL DEF Spec, HistoryTells

-----------------------------------------------------------------------------
(* The entry, the row and the history agree.                               *)

LEMMA OriginKept ==
  ASSUME NEW d, Origin(d), Newest' = Newest, current \in Nat, current' \in Nat, current <= current',
         \A g \in 1 .. Newest : rows'[g].kind = rows[g].kind /\ rows'[g].def = rows[g].def
  PROVE  Origin(d)'
<1>1. PICK g \in 1 .. Newest : /\ g <= current /\ IsDef(g) /\ rows[g].def = d
                               /\ \A k \in 1 .. Newest : IsDef(k) => k <= g
  BY DEF Origin
<1>2. \A k \in 1 .. Newest : IsDef(k)' <=> IsDef(k)
  BY DEF IsDef
<1>3. g \in Nat /\ g <= current'
  BY <1>1
<1> QED BY <1>1, <1>2, <1>3 DEF Origin

\* A row of a parameter change brings no definition.
LEMMA OriginAdded ==
  ASSUME NEW d, Origin(d), Numbered, NEW r \in History, AddRow(r), r.kind \in {"param_set", "param_unset"},
         current' = current
  PROVE  Origin(d)'
<1>1. PICK g \in 1 .. Newest : /\ g <= current /\ IsDef(g) /\ rows[g].def = d
                               /\ \A k \in 1 .. Newest : IsDef(k) => k <= g
  BY DEF Origin
<1>2. /\ Newest' = Newest + 1 /\ rows'[Newest + 1] = r /\ \A k \in 1 .. Newest : rows'[k] = rows[k]
      /\ 1 .. Newest' = (1 .. Newest) \cup {Newest + 1}
  BY RowAdded
<1>3. \A k \in 1 .. Newest : IsDef(k)' <=> IsDef(k)
  BY <1>2 DEF IsDef
<1>4. \A k \in 1 .. Newest' : IsDef(k)' => k <= g
  <2> SUFFICES ASSUME NEW k \in 1 .. Newest', IsDef(k)' PROVE k <= g
    OBVIOUS
  <2>1. k # Newest + 1
    BY <1>2 DEF IsDef
  <2> QED BY <2>1, <1>1, <1>2, <1>3
<1>5. g \in 1 .. Newest' /\ IsDef(g)' /\ rows'[g].def = d /\ g <= current'
  BY <1>1, <1>2, <1>3
<1> QED BY <1>4, <1>5 DEF Origin

\* definition_at finds the newest definition.
LEMMA DefIsAt ==
  ASSUME Numbered, NEW n \in 1 .. Newest, NEW d, DefIs(d, n)
  PROVE  DefinitionAt(n) = d
<1>1. PICK g \in 1 .. n : IsDef(g) /\ rows[g].def = d /\ \A k \in 1 .. n : IsDef(k) => k <= g
  BY DEF DefIs
<1> DEFINE S == {k \in DOMAIN rows : k <= n /\ rows[k].kind \in {"register", "script_update"}}
<1>2. DOMAIN rows = 1 .. Newest /\ Newest \in Nat
  BY DEF Numbered
<1>3. S \subseteq Nat /\ g \in S /\ \A k \in S : k <= g
  BY <1>1, <1>2 DEF IsDef
<1> HIDE DEF S
<1>4. Last(S) = g
  BY <1>3, LastIs
<1> QED BY <1>1, <1>4 DEF DefinitionAt, S

\* The origin is what definition_at finds from the app's row and from the newest one.
LEMMA OriginAt ==
  ASSUME NEW d, Origin(d), Numbered, NEW n \in 1 .. Newest, current <= n, current \in Nat
  PROVE  DefIs(d, n) /\ DefinitionAt(n) = d
<1>1. PICK g \in 1 .. Newest : /\ g <= current /\ IsDef(g) /\ rows[g].def = d
                               /\ \A k \in 1 .. Newest : IsDef(k) => k <= g
  BY DEF Origin
<1>2. Newest \in Nat /\ g \in 1 .. n /\ \A k \in 1 .. n : k \in 1 .. Newest
  BY <1>1 DEF Numbered
<1>3. DefIs(d, n)
  BY <1>1, <1>2 DEF DefIs
<1> QED BY <1>3, DefIsAt

\* A handler that is past reading its request and not at the scheduler is changing
\* something.
LEMMA AtWork ==
  ASSUME HInv, NEW h \in Handlers, hs[h].pc \notin {"idle", "request", "spawn"}
  PROVE  Changing(h) /\ hs[h].req \in Requests /\ hs[h].req # Invocation
BY RequestFields DEF HInv, Asked, Changing

LEMMA Alone ==
  ASSUME Solo, Agrees, NEW h \in Handlers, Changing(h)
  PROVE  /\ \A g \in Handlers : g # h => ~Changing(g)
         /\ AgreesFor(hs[h]) /\ current \in 1 .. Newest
BY DEF Solo, Agrees

LEMMA StepAlone ==
  ASSUME NEW h \in Handlers, \A g \in Handlers : g # h => ~Changing(g),
         \A g \in Handlers : g # h => hs'[g] = hs[g],
         AgreesFor(hs[h])', current' \in 1 .. Newest',
         hs'[h].req # Invocation \/ hs'[h] = Idle
  PROVE  Solo' /\ Agrees'
<1>1. \A g \in Handlers : g # h => ~Changing(g)'
  BY DEF Changing
<1>2. Solo'
  BY <1>1 DEF Solo
<1>3. \A g \in Handlers : Changing(g)' => AgreesFor(hs[g])'
  BY <1>1
<1>4. ASSUME NoChange' PROVE AgreesFor(Idle)'
  <2>1. ~Changing(h)'
    BY <1>4 DEF NoChange
  <2>2. CASE hs'[h] = Idle
    BY <2>2 DEF AgreesFor
  <2>3. CASE hs'[h].req # Invocation
    <3>1. hs'[h].pc = "idle" /\ Idle.pc = "idle"
      BY <2>1, <2>3, IdleType DEF Changing
    <3> QED BY <3>1 DEF AgreesFor
  <2> QED BY <2>2, <2>3
<1> QED BY <1>2, <1>3, <1>4 DEF Agrees

\* Steps of a handler that leave the tables and the entry.
LEMMA QuietAgrees ==
  ASSUME HInv, Solo, Agrees, NEW h \in Handlers,
         ReadPrevious(h) \/ ReadValues(h) \/ Refuse(h) \/ LoadParams(h)
  PROVE  Solo' /\ Agrees'
<1> DEFINE x == hs[h]
<1>1. hs \in [Handlers -> Working] /\ x \in Working
  BY Fields DEF HInv, Types
<1>2. /\ UNCHANGED <<stored, rows, current, entry, slot, torn>> /\ Newest' = Newest
      /\ x.pc \in {"read", "store", "commit", "load"}
  BY DEF ReadPrevious, ReadValues, Refuse, LoadParams, tables, Newest
<1>3. Changing(h) /\ x.req # Invocation /\ \A g \in Handlers : g # h => ~Changing(g)
  BY <1>2, AtWork, Alone
<1>4. AgreesFor(x) /\ current \in 1 .. Newest
  BY <1>3, Alone
<1>5. \A d : Origin(d)' <=> Origin(d)
  BY <1>2 DEF Origin, IsDef
<1>6. (Fit' <=> Fit) /\ \A r : Proposed(r)' = Proposed(r)
  BY <1>2 DEF Fit, Proposed
<1>7. x.pc \in Pcs \ {"replace"}
  BY <1>2 DEF Pcs
<1>8. Origin(entry.bundle)
  BY <1>4, <1>7 DEF AgreesFor
<1>9. CASE Done(h) /\ x.pc # "load"
  <2>1. hs'[h] = Idle /\ Idle.pc = "idle" /\ \A g \in Handlers : g # h => hs'[g] = hs[g]
    BY <1>1, <1>9, IdleType DEF Done
  <2>2. AgreesFor(hs[h])'
    BY <2>1, <1>2, <1>4, <1>5, <1>6, <1>8, <1>9 DEF AgreesFor
  <2> QED BY <2>1, <2>2, <1>2, <1>3, <1>4, StepAlone
<1>10. CASE ReadPrevious(h) /\ ~Done(h)
  <2>1. /\ hs'[h].pc = "store" /\ hs'[h].req = x.req /\ \A g \in Handlers : g # h => hs'[g] = hs[g]
        /\ x.pc = "read"
    BY <1>1, <1>10 DEF ReadPrevious, Working
  <2>2. AgreesFor(hs[h])'
    BY <2>1, <1>2, <1>4, <1>5, <1>6, <1>8 DEF AgreesFor
  <2> QED BY <2>1, <2>2, <1>2, <1>3, <1>4, StepAlone
<1>11. CASE ReadValues(h) /\ ~Done(h)
  <2> DEFINE prev == IF x.req.param = None THEN None ELSE stored[x.req.param]
  <2>1. hs' = [hs EXCEPT ![h].pc = "commit", ![h].seen = Proposed(x.req), ![h].previous = prev]
        /\ x.pc = "read"
    BY <1>11 DEF ReadValues
  <2>2. x.req.param # None => prev = stored[x.req.param]
    OBVIOUS
  <2> HIDE DEF prev
  <2>3. /\ hs'[h].pc = "commit" /\ hs'[h].seen = Proposed(x.req) /\ hs'[h].previous = prev
        /\ hs'[h].req = x.req /\ \A g \in Handlers : g # h => hs'[g] = hs[g]
    BY <1>1, <2>1 DEF Working
  <2>4. AgreesFor(hs[h])'
    BY <2>1, <2>2, <2>3, <1>2, <1>4, <1>5, <1>6, <1>8 DEF AgreesFor
  <2> QED BY <2>3, <2>4, <1>2, <1>3, <1>4, StepAlone
<1>12. CASE LoadParams(h)
  <2>1. /\ hs'[h].pc = "reload" /\ hs'[h].seen = stored /\ hs'[h].gen = x.gen /\ hs'[h].req = x.req
        /\ \A g \in Handlers : g # h => hs'[g] = hs[g]
        /\ x.pc = "load"
    BY <1>1, <1>12 DEF LoadParams, Working
  <2>2. AgreesFor(hs[h])'
    BY <2>1, <1>2, <1>4, <1>5, <1>6, <1>8 DEF AgreesFor
  <2> QED BY <2>1, <2>2, <1>2, <1>3, <1>4, StepAlone
<1> QED BY <1>9, <1>10, <1>11, <1>12 DEF ReadPrevious, ReadValues, Refuse

\* A request begins when nobody is at work.
LEMMA BeginAgrees ==
  ASSUME HInv, AInv, NEW h \in Handlers, NEW r \in Requests, Begin(h, r)
  PROVE  AInv'
<1> SUFFICES ASSUME ~overlap' PROVE Solo' /\ Agrees'
  BY DEF AInv
<1> DEFINE x == hs[h]
<1>1. /\ hs \in [Handlers -> Working] /\ overlap \in BOOLEAN
  BY DEF HInv, Types
<1>2. ~overlap /\ NoChange
  BY <1>1 DEF Begin
<1>3. /\ UNCHANGED <<stored, rows, current, entry, slot, torn>> /\ Newest' = Newest
      /\ hs' = [hs EXCEPT ![h] = [Idle EXCEPT !.pc = "read", !.req = r]]
  BY DEF Begin, tables, Newest
<1>4. /\ hs'[h].pc = "read" /\ hs'[h].req = r /\ r # Invocation
      /\ \A g \in Handlers : g # h => hs'[g] = hs[g]
      /\ \A g \in Handlers : ~Changing(g)
  BY <1>1, <1>2, <1>3, RequestFields DEF Idle, NoChange
<1>5. AgreesFor(Idle) /\ Idle.pc = "idle" /\ current \in 1 .. Newest
  BY <1>2, IdleType DEF AInv, Agrees
<1>6. Origin(entry.bundle)
  BY <1>4, <1>5 DEF AgreesFor, Pcs
<1>7. (Fit' <=> Fit) /\ \A d : Origin(d)' <=> Origin(d)
  BY <1>3 DEF Fit, Origin, IsDef
<1>8. AgreesFor(hs[h])'
  BY <1>3, <1>4, <1>5, <1>6, <1>7 DEF AgreesFor
<1> QED BY <1>2, <1>3, <1>4, <1>5, <1>8, StepAlone

LEMMA StoreAgrees ==
  ASSUME HInv, Solo, Agrees, NEW h \in Handlers, StoreParamValue(h)
  PROVE  Solo' /\ Agrees'
<1> DEFINE x == hs[h]
<1>1. hs \in [Handlers -> Working]
  BY DEF HInv, Types
<1>2. /\ x.pc = "store" /\ UNCHANGED <<rows, current, entry, slot, torn>> /\ Newest' = Newest
      /\ hs' = [hs EXCEPT ![h].pc = "insert"]
  BY DEF StoreParamValue, Step, Newest
<1>3. Changing(h) /\ x.req # Invocation /\ \A g \in Handlers : g # h => ~Changing(g)
  BY <1>2, AtWork, Alone
<1>4. AgreesFor(x) /\ current \in 1 .. Newest
  BY <1>3, Alone
<1>5. Origin(entry.bundle)
  BY <1>2, <1>4 DEF AgreesFor, Pcs
<1>6. \A d : Origin(d)' <=> Origin(d)
  BY <1>2 DEF Origin, IsDef
<1>7. hs'[h].pc = "insert" /\ hs'[h].req = x.req /\ \A g \in Handlers : g # h => hs'[g] = hs[g]
  BY <1>1, <1>2 DEF Working
<1>8. AgreesFor(hs[h])'
  BY <1>2, <1>5, <1>6, <1>7 DEF AgreesFor
<1> QED BY <1>2, <1>3, <1>4, <1>7, <1>8, StepAlone

LEMMA InsertAgrees ==
  ASSUME HInv, Solo, Agrees, NEW h \in Handlers, InsertRow(h)
  PROVE  Solo' /\ Agrees'
<1> DEFINE x == hs[h]
           row == [kind |-> IF x.req.value = None THEN "param_unset" ELSE "param_set",
                   def |-> rows[Newest].def, param |-> None, previous |-> None, new |-> None]
<1>1. hs \in [Handlers -> Working] /\ Numbered
  BY DEF HInv, Types
<1>2. /\ x.pc = "insert" /\ UNCHANGED <<current, entry, slot>> /\ AddRow(row)
      /\ hs' = [hs EXCEPT ![h].pc = "annotate", ![h].gen = NextGeneration]
  BY DEF InsertRow
<1>3. row \in History /\ row.kind \in {"param_set", "param_unset"}
  <2>1. rows[Newest] \in History
    BY <1>1 DEF Numbered
  <2>2. rows[Newest].def \in Defs
    BY <2>1 DEF History
  <2> QED BY <2>2 DEF History, Kinds
<1> HIDE DEF row
<1>4. Changing(h) /\ x.req # Invocation /\ \A g \in Handlers : g # h => ~Changing(g)
  BY <1>2, AtWork, Alone
<1>5. AgreesFor(x) /\ current \in 1 .. Newest
  BY <1>4, Alone
<1>6. PICK d : d = entry.bundle /\ Origin(d)
  BY <1>2, <1>5 DEF AgreesFor, Pcs
<1>7. Origin(d)'
  BY <1>1, <1>2, <1>3, <1>6, OriginAdded
<1>8. Newest' = Newest + 1 /\ NextGeneration = Newest + 1 /\ Newest \in Nat
  BY <1>1, <1>2, <1>3, RowAdded DEF Numbered
<1>9. /\ hs'[h].pc = "annotate" /\ hs'[h].gen = NextGeneration /\ hs'[h].req = x.req
      /\ \A g \in Handlers : g # h => hs'[g] = hs[g]
  BY <1>1, <1>2 DEF Working
<1>10. AgreesFor(hs[h])'
  BY <1>2, <1>6, <1>7, <1>8, <1>9 DEF AgreesFor
<1>11. current' \in 1 .. Newest'
  BY <1>2, <1>5, <1>8
<1> QED BY <1>2, <1>4, <1>9, <1>10, <1>11, StepAlone

LEMMA WriteAgrees ==
  ASSUME HInv, Solo, Agrees, NEW h \in Handlers, WriteParamChange(h)
  PROVE  Solo' /\ Agrees'
<1> DEFINE x == hs[h]
<1>1. hs \in [Handlers -> Working] /\ Types
  BY DEF HInv, Types
<1>2. /\ x.pc = "annotate" /\ UNCHANGED <<current, entry, slot>>
      /\ hs' = [hs EXCEPT ![h].pc = "point"]
  BY DEF WriteParamChange, Step
<1>3. Changing(h) /\ x.req # Invocation /\ \A g \in Handlers : g # h => ~Changing(g)
  BY <1>2, AtWork, Alone
<1>4. AgreesFor(x) /\ current \in 1 .. Newest
  BY <1>3, Alone
<1>5. x.gen = Newest /\ x.req \in Requests
  BY <1>2, <1>4 DEF AgreesFor, HInv, Asked
<1>6. /\ Newest' = Newest
      /\ \A g \in 1 .. Newest : rows'[g].kind = rows[g].kind /\ rows'[g].def = rows[g].def
  BY <1>1, <1>5, Annotated
<1>7. PICK d : d = entry.bundle /\ Origin(d)
  BY <1>2, <1>4 DEF AgreesFor, Pcs
<1>8. Origin(d)'
  <2>1. current \in Nat /\ current' \in Nat /\ current <= current'
    BY <1>2, <1>4
  <2> QED BY <2>1, <1>6, <1>7, OriginKept
<1>9. /\ hs'[h].pc = "point" /\ hs'[h].gen = x.gen /\ hs'[h].req = x.req
      /\ \A g \in Handlers : g # h => hs'[g] = hs[g]
  BY <1>1, <1>2 DEF Working
<1>10. AgreesFor(hs[h])'
  BY <1>2, <1>5, <1>6, <1>7, <1>8, <1>9 DEF AgreesFor
<1> QED BY <1>2, <1>3, <1>4, <1>6, <1>9, <1>10, StepAlone

\* The app's row is brought up to the newest generation.
LEMMA PointAgrees ==
  ASSUME HInv, Solo, Agrees, NEW h \in Handlers, PointRow(h) \/ PersistAppFields(h)
  PROVE  Solo' /\ Agrees'
<1> DEFINE x == hs[h]
<1>1. hs \in [Handlers -> Working] /\ Newest \in Nat \ {0}
  BY DEF HInv, Types, Numbered
<1>2. /\ x.pc \in {"point", "persist"} /\ UNCHANGED <<rows, stored, entry, slot, torn>> /\ Newest' = Newest
      /\ x.pc = "point" => current' = x.gen /\ hs' = [hs EXCEPT ![h].pc = "load"]
      /\ x.pc = "persist" => current' = entry.generation /\ hs' = [hs EXCEPT ![h].pc = "schedule"]
  BY DEF PointRow, PersistAppFields, Step, Newest
<1>3. Changing(h) /\ x.req # Invocation /\ \A g \in Handlers : g # h => ~Changing(g)
  BY <1>2, AtWork, Alone
<1>4. AgreesFor(x) /\ current \in 1 .. Newest
  BY <1>3, Alone
<1>5. current' = Newest /\ x.gen = Newest
  BY <1>2, <1>4 DEF AgreesFor
<1>6. PICK d : d = entry.bundle /\ Origin(d)
  BY <1>2, <1>4 DEF AgreesFor, Pcs
<1>7. Origin(d)'
  <2>1. current \in Nat /\ current' \in Nat /\ current <= current'
    BY <1>1, <1>4, <1>5
  <2> QED BY <2>1, <1>2, <1>6, OriginKept
<1>8. /\ x.pc = "point" => hs'[h].pc = "load"
      /\ x.pc = "persist" => hs'[h].pc = "schedule"
      /\ hs'[h].gen = x.gen /\ hs'[h].req = x.req /\ \A g \in Handlers : g # h => hs'[g] = hs[g]
  BY <1>1, <1>2 DEF Working
<1>9. Fit' <=> Fit
  BY <1>2 DEF Fit
<1>10. AgreesFor(hs[h])'
  BY <1>2, <1>4, <1>5, <1>6, <1>7, <1>8, <1>9 DEF AgreesFor
<1>11. current' \in 1 .. Newest'
  BY <1>1, <1>2, <1>5
<1> QED BY <1>2, <1>3, <1>8, <1>10, <1>11, StepAlone

\* The entry is brought up to the values and the generation.
LEMMA ReloadAgrees ==
  ASSUME HInv, Solo, Agrees, NEW h \in Handlers, Reload(h) \/ StampGeneration(h)
  PROVE  Solo' /\ Agrees'
<1> DEFINE x == hs[h]
<1>1. hs \in [Handlers -> Working]
      /\ entry = [bundle |-> entry.bundle, evaluated |-> <<entry.bundle, entry.evaluated[2]>>,
                  generation |-> entry.generation]
  BY DEF HInv, Types, Shaped
<1>2. /\ x.pc \in {"reload", "stamp"} /\ UNCHANGED <<stored, rows, current, slot, torn>> /\ Newest' = Newest
      /\ x.pc = "reload" => hs' = [hs EXCEPT ![h].pc = "stamp"]
      /\ x.pc = "stamp" => hs' = [hs EXCEPT ![h].pc = "persist"]
  BY DEF Reload, StampGeneration, Step, tables, Newest
<1>3. Changing(h) /\ x.req # Invocation /\ \A g \in Handlers : g # h => ~Changing(g)
  BY <1>2, AtWork, Alone
<1>4. AgreesFor(x) /\ current \in 1 .. Newest
  BY <1>3, Alone
<1>5. x.gen = Newest /\ current = Newest /\ Origin(entry.bundle)
      /\ (x.pc = "reload" => x.seen = stored) /\ (x.pc = "stamp" => Fit)
  BY <1>2, <1>4 DEF AgreesFor, Pcs
<1>6. \A d : Origin(d)' <=> Origin(d)
  BY <1>2 DEF Origin, IsDef
<1>7. /\ x.pc = "reload" => hs'[h].pc = "stamp"
      /\ x.pc = "stamp" => hs'[h].pc = "persist"
      /\ hs'[h].gen = x.gen /\ hs'[h].req = x.req /\ \A g \in Handlers : g # h => hs'[g] = hs[g]
  BY <1>1, <1>2 DEF Working
<1>8. /\ entry'.bundle = entry.bundle
      /\ x.pc = "stamp" => entry'.generation = x.gen
      /\ Fit'
  <2>1. CASE Reload(h)
    <3>1. entry' = IF Evaluates(entry.bundle, stored)
                   THEN [entry EXCEPT !.evaluated = <<entry.bundle, stored>>] ELSE entry
      BY <2>1, <1>5 DEF Reload
    <3>2. entry'.bundle = entry.bundle
      BY <3>1, <1>1
    <3>3. Evaluates(entry.bundle, stored) => entry'.evaluated = <<entry.bundle, stored>>
      BY <3>1, <1>1
    <3>4. Fit'
      BY <3>2, <3>3, <1>2 DEF Fit, Evaluates
    <3> QED BY <2>1, <3>2, <3>4 DEF Reload
  <2>2. CASE StampGeneration(h)
    <3>1. entry' = [entry EXCEPT !.generation = x.gen] /\ x.pc = "stamp"
      BY <2>2 DEF StampGeneration
    <3>2. entry'.bundle = entry.bundle /\ entry'.evaluated = entry.evaluated /\ entry'.generation = x.gen
      BY <3>1, <1>1
    <3> QED BY <3>1, <3>2, <1>2, <1>5 DEF Fit
  <2> QED BY <2>1, <2>2
<1>9. AgreesFor(hs[h])'
  BY <1>2, <1>5, <1>6, <1>7, <1>8 DEF AgreesFor
<1> QED BY <1>2, <1>3, <1>4, <1>7, <1>9, StepAlone

LEMMA CommitAgrees ==
  ASSUME HInv, Solo, Agrees, NEW h \in Handlers, CommitUpdate(h)
  PROVE  Solo' /\ Agrees'
<1> DEFINE x == hs[h]
           r == x.req
           changed == r.param # None /\ x.previous # r.value
           row == [kind |-> "script_update", def |-> r.def,
                   param |-> IF changed THEN r.param ELSE None,
                   previous |-> IF changed THEN x.previous ELSE None,
                   new |-> IF changed THEN r.value ELSE None]
<1>1. hs \in [Handlers -> Working] /\ Numbered /\ stored \in Stored
  BY DEF HInv, Types
<1>2. /\ x.pc = "commit" /\ UNCHANGED <<entry, slot>> /\ AddRow(row) /\ current' = NextGeneration
      /\ stored' = IF changed THEN [stored EXCEPT ![r.param] = r.value] ELSE stored
      /\ hs' = [hs EXCEPT ![h].pc = "replace", ![h].gen = NextGeneration]
  BY DEF CommitUpdate
<1>3. /\ r \in Requests /\ r.def \in Defs /\ r.param \in Params \cup {None}
      /\ r.value \in Values \cup {None} /\ x.previous \in Values \cup {None}
  BY <1>2, RequestFields, Fields DEF HInv, Asked
<1>4. row \in History /\ row.kind = "script_update" /\ row.def = r.def
  BY <1>3 DEF History, Kinds
<1>5. Changing(h) /\ x.req # Invocation /\ \A g \in Handlers : g # h => ~Changing(g)
  BY <1>2, AtWork, Alone
<1>6. AgreesFor(x) /\ current \in 1 .. Newest
  BY <1>5, Alone
<1>7. x.seen = Proposed(r) /\ (r.param # None => x.previous = stored[r.param])
  BY <1>2, <1>6 DEF AgreesFor
<1>8. stored' = Proposed(r)
  <2>1. CASE r.param = None
    BY <2>1, <1>2 DEF Proposed
  <2>2. CASE r.param # None /\ x.previous # r.value
    BY <2>2, <1>2 DEF Proposed
  <2>3. CASE r.param # None /\ x.previous = r.value
    <3>1. stored[r.param] = r.value /\ r.param \in Params
      BY <2>3, <1>3, <1>7
    <3>2. [stored EXCEPT ![r.param] = r.value] = stored
      BY <3>1, <1>1 DEF Stored
    <3> QED BY <2>3, <3>2, <1>2 DEF Proposed
  <2> QED BY <2>1, <2>2, <2>3
<1> HIDE DEF row, changed
<1>9. /\ Newest' = Newest + 1 /\ NextGeneration = Newest + 1 /\ Newest \in Nat
      /\ rows'[Newest + 1] = row
  BY <1>1, <1>2, <1>4, RowAdded DEF Numbered
<1>10. /\ hs'[h].pc = "replace" /\ hs'[h].gen = NextGeneration /\ hs'[h].seen = x.seen
       /\ hs'[h].req = r /\ \A g \in Handlers : g # h => hs'[g] = hs[g]
  BY <1>1, <1>2 DEF Working
<1>11. PICK n \in Nat : n = Newest + 1 /\ n \in 1 .. n
  BY <1>9
<1>12. PICK d : d = r.def
  OBVIOUS
<1>13. Origin(d)'
  <2>1. Newest' = n /\ current' = n /\ rows'[n].kind = "script_update" /\ rows'[n].def = d
    BY <1>2, <1>4, <1>9, <1>11, <1>12
  <2>2. IsDef(n)'
    BY <2>1 DEF IsDef
  <2>3. \A k \in 1 .. n : k <= n
    OBVIOUS
  <2> QED BY <2>1, <2>2, <2>3, <1>11 DEF Origin
<1>14. AgreesFor(hs[h])'
  BY <1>2, <1>7, <1>8, <1>9, <1>10, <1>12, <1>13 DEF AgreesFor
<1>15. current' \in 1 .. Newest'
  BY <1>2, <1>9
<1> QED BY <1>2, <1>5, <1>10, <1>14, <1>15, StepAlone

LEMMA ReplaceAgrees ==
  ASSUME HInv, Solo, Agrees, NEW h \in Handlers, ReplaceDefinition(h)
  PROVE  Solo' /\ Agrees'
<1> DEFINE x == hs[h]
<1>1. hs \in [Handlers -> Working]
  BY DEF HInv, Types
<1>2. /\ x.pc = "replace" /\ UNCHANGED <<stored, rows, current, slot, torn>> /\ Newest' = Newest
      /\ entry' = [bundle |-> x.req.def, evaluated |-> <<x.req.def, x.seen>>, generation |-> x.gen]
      /\ hs' = [hs EXCEPT ![h].pc = "schedule"] \/ hs' = [hs EXCEPT ![h] = Idle]
  BY DEF ReplaceDefinition, Step, Done, tables, Newest
<1>3. Changing(h) /\ x.req # Invocation /\ \A g \in Handlers : g # h => ~Changing(g)
  BY <1>2, AtWork, Alone
<1>4. AgreesFor(x) /\ current \in 1 .. Newest
  BY <1>3, Alone
<1>5. x.gen = Newest /\ current = Newest /\ x.seen = stored /\ Origin(x.req.def)
  BY <1>2, <1>4 DEF AgreesFor
<1>6. \A d : Origin(d)' <=> Origin(d)
  BY <1>2 DEF Origin, IsDef
<1>7. \/ hs'[h].pc = "schedule" /\ hs'[h].gen = x.gen /\ hs'[h].req = x.req
      \/ hs'[h].pc = "idle" /\ hs'[h] = Idle
  BY <1>1, <1>2, IdleType DEF Working
<1>8. \A g \in Handlers : g # h => hs'[g] = hs[g]
  BY <1>1, <1>2
<1>9. entry'.bundle = x.req.def /\ entry'.generation = x.gen /\ Fit'
  BY <1>2, <1>5 DEF Fit
<1>10. AgreesFor(hs[h])'
  BY <1>2, <1>5, <1>6, <1>7, <1>9 DEF AgreesFor
<1> QED BY <1>2, <1>3, <1>4, <1>7, <1>8, <1>10, StepAlone

\* The parameter's handler is looked for, and asked for.
LEMMA ScheduleAgrees ==
  ASSUME HInv, Solo, Agrees, NEW h \in Handlers, ScheduleOnChange(h) \/ (RequestSlot(h) /\ Changing(h))
  PROVE  Solo' /\ Agrees'
<1> DEFINE x == hs[h]
<1>1. hs \in [Handlers -> Working]
  BY DEF HInv, Types
<1>2. /\ x.pc \in {"schedule", "request"} /\ UNCHANGED <<stored, rows, current, entry, torn>>
      /\ Newest' = Newest
      /\ hs' = [hs EXCEPT ![h] = Idle] \/ (x.pc = "schedule" /\ hs' = [hs EXCEPT ![h].pc = "request"])
  BY DEF ScheduleOnChange, RequestSlot, Changing, Invoking, Done, Step, tables, Newest
<1>3. Changing(h) /\ x.req # Invocation /\ \A g \in Handlers : g # h => ~Changing(g)
  <2>1. Changing(h) /\ x.req # Invocation
    BY AtWork DEF ScheduleOnChange, Changing
  <2> QED BY <2>1, Alone
<1>4. AgreesFor(x) /\ current \in 1 .. Newest
  BY <1>3, Alone
<1>5. x.gen = Newest /\ current = Newest /\ entry.generation = Newest /\ Fit /\ Origin(entry.bundle)
  BY <1>2, <1>4 DEF AgreesFor
<1>6. (Fit' <=> Fit) /\ \A d : Origin(d)' <=> Origin(d)
  BY <1>2 DEF Fit, Origin, IsDef
<1>7. \/ hs'[h].pc = "idle" /\ hs'[h] = Idle
      \/ hs'[h].pc = "request" /\ hs'[h].gen = x.gen /\ hs'[h].req = x.req
  BY <1>1, <1>2, IdleType DEF Working
<1>8. \A g \in Handlers : g # h => hs'[g] = hs[g]
  BY <1>1, <1>2
<1>9. AgreesFor(hs[h])'
  BY <1>2, <1>5, <1>6, <1>7 DEF AgreesFor
<1> QED BY <1>2, <1>3, <1>4, <1>7, <1>8, <1>9, StepAlone

\* Invocations, and operations on their way, leave the app's entry and its tables.
LEMMA SlotAgrees ==
  ASSUME HInv, Solo, Agrees,
         \/ \E h \in Handlers : InvokeAction(h) \/ (RequestSlot(h) /\ ~Changing(h)) \/ Spawn(h)
         \/ Dequeue \/ SaveOperation \/ Complete \/ UNCHANGED vars
  PROVE  Solo' /\ Agrees'
<1>1. UNCHANGED <<stored, rows, current, entry, torn>> /\ Newest' = Newest
  BY DEF InvokeAction, RequestSlot, Spawn, Dequeue, SaveOperation, Complete, vars, tables, Newest
<1>2. hs \in [Handlers -> Working]
  BY DEF HInv, Types
<1>3. ASSUME NEW g \in Handlers PROVE (Changing(g)' <=> Changing(g)) /\ (Changing(g) => hs'[g] = hs[g])
  <2> DEFINE Goal == (Changing(g)' <=> Changing(g)) /\ (Changing(g) => hs'[g] = hs[g])
  <2>1. ASSUME NEW h \in Handlers, InvokeAction(h) PROVE Goal
    BY <2>1, <1>2 DEF InvokeAction, Changing, Idle
  <2>2. ASSUME NEW h \in Handlers, RequestSlot(h), ~Changing(h) PROVE Goal
    <3>1. hs[h].req = Invocation /\ (hs' = [hs EXCEPT ![h] = Idle] \/ hs' = [hs EXCEPT ![h].pc = "spawn"])
      BY <2>2 DEF RequestSlot, Changing, Done, Step
    <3>2. (hs'[h].pc = "idle" \/ hs'[h].req = Invocation) /\ (g # h => hs'[g] = hs[g])
      BY <3>1, <1>2, IdleType DEF Working
    <3> QED BY <2>2, <3>2 DEF Changing
  <2>3. ASSUME NEW h \in Handlers, Spawn(h) PROVE Goal
    <3>1. hs[h].req = Invocation /\ hs' = [hs EXCEPT ![h] = Idle]
      BY <2>3 DEF Spawn, HInv, Asked, Done
    <3>2. hs'[h].pc = "idle" /\ (g # h => hs'[g] = hs[g])
      BY <3>1, <1>2, IdleType
    <3> QED BY <3>1, <3>2 DEF Changing
  <2>4. CASE hs' = hs
    BY <2>4 DEF Changing
  <2> QED BY <2>1, <2>2, <2>3, <2>4 DEF Dequeue, SaveOperation, Complete, vars
<1>4. ASSUME NEW x PROVE AgreesFor(x) => AgreesFor(x)'
  <2>1. /\ \A d : Origin(d)' <=> Origin(d)
        /\ Fit' <=> Fit
        /\ \A r : Proposed(r)' = Proposed(r)
    BY <1>1 DEF Origin, IsDef, Fit, Proposed
  <2> QED BY <1>1, <2>1 DEF AgreesFor
<1>5. Solo'
  BY <1>3 DEF Solo
<1>6. NoChange' => AgreesFor(Idle)'
  BY <1>3, <1>4 DEF NoChange, Agrees
<1>7. \A g \in Handlers : Changing(g)' => AgreesFor(hs[g])'
  <2> SUFFICES ASSUME NEW g \in Handlers, Changing(g)' PROVE AgreesFor(hs[g])'
    OBVIOUS
  <2>1. PICK x : x = hs[g]
    OBVIOUS
  <2>2. AgreesFor(x)
    BY <1>3, <2>1 DEF Agrees
  <2>3. AgreesFor(x)' /\ hs'[g] = x
    BY <1>3, <1>4, <2>1, <2>2
  <2> QED BY <2>3 DEF AgreesFor
<1> QED BY <1>1, <1>5, <1>6, <1>7 DEF Agrees

\* Whoever is at work, the app has an origin; and outside the database calls its row
\* is at the newest generation.
LEMMA OriginIs ==
  ASSUME HInv, Solo, Agrees
  PROVE  /\ \E d : Origin(d)
         /\ torn = {} /\ (\A h \in Handlers : hs[h].pc \notin {"insert", "annotate", "point"})
              => current = Newest
<1>1. CASE NoChange
  BY <1>1, IdleType DEF Agrees, AgreesFor
<1>2. ASSUME NEW h \in Handlers, Changing(h)
      PROVE  /\ \E d : Origin(d)
             /\ torn = {} /\ hs[h].pc \notin {"insert", "annotate", "point"} => current = Newest
  <2>1. AgreesFor(hs[h]) /\ hs[h].pc \in Pcs /\ hs[h].pc # "idle" /\ hs[h].pc # "spawn"
    BY <1>2, Fields DEF Agrees, Changing, HInv, Asked
  <2> QED BY <2>1 DEF AgreesFor, Pcs
<1> QED BY <1>1, <1>2 DEF NoChange

\* A restart reads the entry back from the tables.
LEMMA RestartAgrees ==
  ASSUME HInv, Solo, Agrees, Restart
  PROVE  Solo' /\ Agrees'
<1>1. /\ hs' = [h \in Handlers |-> Idle] /\ UNCHANGED <<stored, rows, current>> /\ Newest' = Newest
      /\ entry' = LoadFromDb /\ torn \subseteq torn'
  BY DEF Restart, tables, Newest
<1>2. Idle.pc = "idle" /\ \A h \in Handlers : ~Changing(h)'
  BY <1>1, IdleType DEF Changing
<1>3. current \in 1 .. Newest /\ Numbered /\ Newest \in Nat
  BY DEF Agrees, HInv, Types, Numbered
<1>4. PICK d : Origin(d)
  BY OriginIs
<1>5. DefinitionAt(current) = d
  <2>1. PICK n \in 1 .. Newest : n = current
    BY <1>3
  <2>2. current <= n /\ current \in Nat
    BY <1>3, <2>1
  <2> QED BY <2>1, <2>2, <1>3, <1>4, OriginAt
<1>6. entry'.bundle = d /\ entry'.evaluated = <<d, stored>> /\ entry'.generation = current
  BY <1>1, <1>5 DEF LoadFromDb
<1>7. Origin(entry.bundle)'
  BY <1>1, <1>4, <1>6 DEF Origin, IsDef
<1>8. Fit'
  BY <1>1, <1>6 DEF Fit
<1>9. torn' = {} => current = Newest
  <2>1. torn' = {} => torn = {} /\ \A h \in Handlers : hs[h].pc \notin {"insert", "annotate", "point"}
    BY DEF Restart
  <2> QED BY <2>1, OriginIs
<1>10. AgreesFor(Idle)'
  BY <1>1, <1>2, <1>6, <1>7, <1>8, <1>9 DEF AgreesFor
<1> QED BY <1>1, <1>2, <1>3, <1>10 DEF Agrees, Solo

LEMMA AInvStep == HInv /\ AInv /\ [Next]_vars => AInv'
<1> SUFFICES ASSUME HInv, AInv, [Next]_vars PROVE AInv'
  OBVIOUS
<1>1. ASSUME NEW h \in Handlers, Handle(h) PROVE AInv'
  <2>1. overlap' = overlap
    BY <1>1 DEF Handle, ReadPrevious, ReadValues, Refuse, StoreParamValue, InsertRow, WriteParamChange,
                PointRow, LoadParams, Reload, StampGeneration, PersistAppFields, CommitUpdate,
                ReplaceDefinition, ScheduleOnChange, InvokeAction, RequestSlot, Spawn
  <2> SUFFICES ASSUME Solo, Agrees PROVE Solo' /\ Agrees'
    BY <2>1 DEF AInv
  <2> QED BY <1>1, QuietAgrees, StoreAgrees, InsertAgrees, WriteAgrees, PointAgrees, ReloadAgrees,
             CommitAgrees, ReplaceAgrees, ScheduleAgrees, SlotAgrees DEF Handle
<1>2. ASSUME NEW h \in Handlers, NEW r \in Requests, Begin(h, r) PROVE AInv'
  BY <1>2, BeginAgrees
<1>3. CASE Restart
  BY <1>3, RestartAgrees DEF AInv, Restart
<1>4. CASE Dequeue \/ SaveOperation \/ Complete \/ UNCHANGED vars
  <2>1. overlap' = overlap
    BY <1>4 DEF Dequeue, SaveOperation, Complete, vars
  <2> SUFFICES ASSUME Solo, Agrees PROVE Solo' /\ Agrees'
    BY <2>1 DEF AInv
  <2> QED BY <1>4, SlotAgrees
<1> QED BY <1>1, <1>2, <1>3, <1>4 DEF Next

LEMMA AInvInit == Init => AInv
<1> SUFFICES ASSUME Init PROVE Solo /\ Agrees
  BY DEF AInv
<1>1. PICK d \in Defs :
        /\ rows = [g \in {1} |-> [kind |-> "register", def |-> d, param |-> None,
                                  previous |-> None, new |-> None]]
        /\ entry = [bundle |-> d, evaluated |-> <<d, stored>>, generation |-> 1]
  BY DEF Init
<1>2. HInv
  BY HInvInit
<1>3. DOMAIN rows = {1} /\ Newest \in Nat \ {0} /\ DOMAIN rows = 1 .. Newest
  BY <1>1, <1>2 DEF HInv, Types, Numbered
<1>4. Newest = 1 /\ 1 .. Newest = {1}
  BY <1>3
<1>5. \A h \in Handlers : ~Changing(h)
  BY IdleType DEF Init, Changing
<1>6. Origin(entry.bundle) /\ Fit
  BY <1>1, <1>4 DEF Origin, IsDef, Fit, Init
<1>7. AgreesFor(Idle)
  BY <1>1, <1>4, <1>6, IdleType DEF AgreesFor, Init
<1> QED BY <1>4, <1>5, <1>7 DEF Solo, Agrees, Init

-----------------------------------------------------------------------------
(* Operations and the generation they run for.                             *)

\* The steps of a change touch neither the slot nor an invocation.
LEMMA ChangeMoves ==
  ASSUME HInv, NEW h \in Handlers,
         \/ ReadPrevious(h) \/ ReadValues(h) \/ Refuse(h)
         \/ StoreParamValue(h) \/ InsertRow(h) \/ WriteParamChange(h) \/ PointRow(h)
         \/ LoadParams(h) \/ Reload(h) \/ StampGeneration(h) \/ PersistAppFields(h)
         \/ CommitUpdate(h) \/ ReplaceDefinition(h) \/ ScheduleOnChange(h)
  PROVE  /\ Changing(h) /\ slot' = slot /\ UNCHANGED <<overlap, cut, raced>>
         /\ \A g \in Handlers : g # h => hs'[g] = hs[g]
         /\ ~Invoking(h)' /\ hs'[h].pc # "spawn"
<1>1. /\ slot' = slot /\ UNCHANGED <<overlap, cut, raced>>
      /\ hs[h].pc \notin {"idle", "request", "spawn"}
  BY DEF ReadPrevious, ReadValues, Refuse, StoreParamValue, InsertRow, WriteParamChange, PointRow,
         LoadParams, Reload, StampGeneration, PersistAppFields, CommitUpdate, ReplaceDefinition,
         ScheduleOnChange
<1>2. Changing(h) /\ hs[h].req # Invocation
  BY <1>1, AtWork
<1>3. hs \in [Handlers -> Working]
  BY DEF HInv, Types
<1> DEFINE Kept == /\ \A g \in Handlers : g # h => hs'[g] = hs[g]
                   /\ hs'[h].pc = "idle" \/ (hs'[h].pc # "spawn" /\ hs'[h].req = hs[h].req)
<1>4. ASSUME Done(h) PROVE Kept
  BY <1>3, <1>4, IdleType DEF Done
<1>5. ASSUME NEW q \in Pcs \ {"idle", "spawn"}, Step(h, q) PROVE Kept
  BY <1>3, <1>5 DEF Step, Working
<1>6. CASE ReadPrevious(h) \/ ReadValues(h) \/ Refuse(h)
  <2>1. \/ Done(h)
        \/ \E v : hs' = [hs EXCEPT ![h].pc = "store", ![h].previous = v]
        \/ \E s, v : hs' = [hs EXCEPT ![h].pc = "commit", ![h].seen = s, ![h].previous = v]
    BY <1>6 DEF ReadPrevious, ReadValues, Refuse
  <2>2. ASSUME NEW v, hs' = [hs EXCEPT ![h].pc = "store", ![h].previous = v] PROVE Kept
    BY <1>3, <2>2 DEF Working
  <2>3. ASSUME NEW s, NEW v, hs' = [hs EXCEPT ![h].pc = "commit", ![h].seen = s, ![h].previous = v]
        PROVE  Kept
    BY <1>3, <2>3 DEF Working
  <2> HIDE DEF Kept
  <2>4. Kept
    BY <2>1, <2>2, <2>3, <1>4
  <2> QED BY <2>4, <1>1, <1>2 DEF Invoking, Kept
<1>7. CASE InsertRow(h) \/ CommitUpdate(h)
  <2>1. \/ hs' = [hs EXCEPT ![h].pc = "annotate", ![h].gen = NextGeneration]
        \/ hs' = [hs EXCEPT ![h].pc = "replace", ![h].gen = NextGeneration]
    BY <1>7 DEF InsertRow, CommitUpdate
  <2>2. Kept
    BY <1>3, <2>1 DEF Working
  <2> QED BY <2>2, <1>1, <1>2 DEF Invoking
<1>8. CASE LoadParams(h)
  <2>1. hs' = [hs EXCEPT ![h].pc = "reload", ![h].seen = stored]
    BY <1>8 DEF LoadParams
  <2>2. Kept
    BY <1>3, <2>1 DEF Working
  <2> QED BY <2>2, <1>1, <1>2 DEF Invoking
<1>9. CASE StoreParamValue(h) \/ WriteParamChange(h) \/ PointRow(h) \/ Reload(h) \/ StampGeneration(h)
           \/ PersistAppFields(h) \/ ReplaceDefinition(h) \/ ScheduleOnChange(h)
  <2>1. Done(h) \/ \E q \in Pcs \ {"idle", "spawn"} : Step(h, q)
    BY <1>9 DEF StoreParamValue, WriteParamChange, PointRow, Reload, StampGeneration, PersistAppFields,
                ReplaceDefinition, ScheduleOnChange, Pcs
  <2>2. Kept
    BY <2>1, <1>4, <1>5
  <2> QED BY <2>2, <1>1, <1>2 DEF Invoking
<1> QED BY <1>6, <1>7, <1>8, <1>9

LEMMA SpawningStep == HInv /\ Spawning /\ [Next]_vars => Spawning'
<1> SUFFICES ASSUME HInv, Spawning, [Next]_vars PROVE Spawning'
  OBVIOUS
<1>1. hs \in [Handlers -> Working]
  BY DEF HInv, Types
<1>2. ASSUME slot' = slot, \A g \in Handlers : hs'[g].pc = "spawn" => hs[g].pc = "spawn" PROVE Spawning'
  BY <1>2 DEF Spawning
<1>3. ASSUME NEW h \in Handlers, Handle(h), ~RequestSlot(h), ~Spawn(h) PROVE Spawning'
  <2>1. CASE InvokeAction(h)
    BY <2>1, <1>1, <1>2 DEF InvokeAction, Idle
  <2>2. CASE ~InvokeAction(h)
    <3>1. /\ slot' = slot /\ hs'[h].pc # "spawn"
          /\ \A g \in Handlers : g # h => hs'[g] = hs[g]
      BY <1>3, <2>2, ChangeMoves DEF Handle
    <3> QED BY <3>1, <1>2
  <2> QED BY <2>1, <2>2
<1>4. ASSUME NEW h \in Handlers, NEW r \in Requests, Begin(h, r) PROVE Spawning'
  BY <1>1, <1>2, <1>4 DEF Begin, Idle
<1>5. ASSUME NEW h \in Handlers, RequestSlot(h) PROVE Spawning'
  <2>1. /\ \A g \in Handlers : g # h => hs'[g] = hs[g]
        /\ hs'[h].pc = "idle" \/ (hs'[h].pc = "spawn" /\ Invoking(h))
    <3>1. hs' = [hs EXCEPT ![h] = Idle] \/ (hs' = [hs EXCEPT ![h].pc = "spawn"] /\ Invoking(h))
      BY <1>5 DEF RequestSlot, Done, Step
    <3> QED BY <3>1, <1>1, IdleType DEF Working
  <2>2. CASE slot' = slot /\ Done(h)
    <3>1. hs'[h].pc = "idle"
      BY <2>2, <1>1, IdleType DEF Done
    <3> QED BY <2>1, <2>2, <3>1, <1>2
  <2>3. CASE ~(slot' = slot /\ Done(h))
    <3>1. PICK b \in BOOLEAN :
            /\ slot = None
            /\ slot' = [source |-> IF Invoking(h) THEN hs[h].gen ELSE hs[h].gen - 1,
                        target |-> hs[h].gen, queued |-> b, row |-> FALSE, app |-> None]
            /\ IF Invoking(h) /\ ~b THEN Step(h, "spawn") ELSE Done(h)
      BY <1>5, <2>3 DEF RequestSlot
    <3>2. hs'[h].pc = "spawn" => Invoking(h) /\ ~b
      <4>1. Done(h) => hs'[h].pc = "idle"
        BY <1>1, IdleType DEF Done
      <4> QED BY <3>1, <4>1
    <3>3. hs'[h].pc = "spawn" => slot' # None /\ ~slot'.queued
      <4>1. hs[h].gen \in Nat
        BY Fields DEF HInv
      <4>2. ASSUME Invoking(h) PROVE slot' \in Slots
        BY <4>1, <4>2, <3>1 DEF Slots
      <4> QED BY <3>1, <3>2, <4>2, ConstantsAssumption DEF ConstantsAssumption
    <3>4. \A g \in Handlers : hs'[g].pc = "spawn" => g = h
      BY <2>1, <3>1 DEF Spawning
    <3>5. slot'.app = None /\ ~slot'.row
          /\ slot' = [source |-> slot'.source, target |-> slot'.target, queued |-> slot'.queued,
                      row |-> slot'.row, app |-> slot'.app]
      BY <3>1
    <3> QED BY <3>3, <3>4, <3>5 DEF Spawning
  <2> QED BY <2>2, <2>3
<1>6. ASSUME slot # None,
             slot' = [slot EXCEPT !.app = slot'.app, !.queued = slot'.queued, !.row = slot'.row],
             \A g \in Handlers : hs'[g].pc # "spawn"
      PROVE  Spawning'
  <2>1. slot = [source |-> slot.source, target |-> slot.target, queued |-> slot.queued,
                row |-> slot.row, app |-> slot.app]
    BY <1>6 DEF Spawning
  <2>2. slot' = [source |-> slot'.source, target |-> slot'.target, queued |-> slot'.queued,
                 row |-> slot'.row, app |-> slot'.app]
    BY <1>6, <2>1
  <2> QED BY <2>2, <1>6 DEF Spawning
<1>7. ASSUME NEW h \in Handlers, Spawn(h) PROVE Spawning'
  <2>1. slot # None /\ slot' = [slot EXCEPT !.app = entry.evaluated]
        /\ \A g \in Handlers : g # h => hs[g].pc # "spawn"
    BY <1>7 DEF Spawn, Spawning
  <2>2. \A g \in Handlers : hs'[g].pc # "spawn"
    BY <1>1, <1>7, <2>1, IdleType DEF Spawn, Done
  <2>3. slot' = [slot EXCEPT !.app = slot'.app, !.queued = slot'.queued, !.row = slot'.row]
    BY <2>1 DEF Spawning
  <2> QED BY <2>1, <2>2, <2>3, <1>6
<1>8. CASE Dequeue \/ SaveOperation
  <2>1. slot # None /\ UNCHANGED hs /\ \A g \in Handlers : hs[g].pc # "spawn"
    BY <1>8 DEF Dequeue, SaveOperation, Spawning
  <2>2. slot' = [slot EXCEPT !.app = slot'.app, !.queued = slot'.queued, !.row = slot'.row]
    BY <1>8, <2>1 DEF Dequeue, SaveOperation, Spawning
  <2> QED BY <2>1, <2>2, <1>6
<1>9. CASE Complete
  <2>1. slot' = None /\ UNCHANGED hs /\ \A g \in Handlers : hs[g].pc # "spawn"
    BY <1>9 DEF Complete, Spawning
  <2> QED BY <2>1 DEF Spawning
<1>10. CASE Restart
  <2>1. \A g \in Handlers : hs'[g].pc # "spawn"
    BY <1>10, IdleType DEF Restart
  <2>2. CASE slot' = None
    BY <2>1, <2>2 DEF Spawning
  <2>3. CASE slot' # None
    <3>1. slot # None /\ slot' = [slot EXCEPT !.app = LoadFromDb.evaluated]
      BY <1>10, <2>3 DEF Restart
    <3>2. slot' = [slot EXCEPT !.app = slot'.app, !.queued = slot'.queued, !.row = slot'.row]
      BY <3>1 DEF Spawning
    <3> QED BY <2>1, <3>1, <3>2, <1>6
  <2> QED BY <2>2, <2>3
<1>11. CASE UNCHANGED vars
  BY <1>2, <1>11 DEF vars
<1> QED BY <1>3, <1>4, <1>5, <1>7, <1>8, <1>9, <1>10, <1>11 DEF Next, Handle

\* A generation whose row is complete says the same ever after.
LEMMA PastKept ==
  ASSUME HInv, [Next]_vars, NEW n \in 1 .. Newest, Settled(n)
  PROVE  /\ Newest \in Nat /\ Newest' \in Nat /\ Newest <= Newest' /\ Settled(n)'
         /\ \A g \in 1 .. n : rows'[g] = rows[g]
<1>1. Numbered /\ Numbered'
  BY HInvStep DEF HInv, Types
<1>2. /\ Newest \in Nat \ {0} /\ Newest' \in Nat /\ DOMAIN rows = 1 .. Newest
      /\ DOMAIN rows' = 1 .. Newest'
  BY <1>1 DEF Numbered
<1>3. hs \in [Handlers -> Working]
  BY DEF HInv, Types
<1>4. ASSUME rows' = rows, \A g \in Handlers : hs'[g].pc = "annotate" => hs'[g] = hs[g]
      PROVE  /\ Newest <= Newest' /\ Settled(n)'
             /\ \A g \in 1 .. n : rows'[g] = rows[g]
  <2>1. Newest' = Newest
    BY <1>4 DEF Newest
  <2> QED BY <1>2, <1>4, <2>1 DEF Settled
<1>5. ASSUME NEW r, AddRow(r)
      PROVE  Newest <= Newest' /\ \A g \in 1 .. n : rows'[g] = rows[g]
  <2>1. NextGeneration = Newest + 1 /\ NextGeneration \notin DOMAIN rows
    BY <1>2 DEF NextGeneration
  <2>2. \A g \in 1 .. n : g \in DOMAIN rows
    BY <1>2
  <2>3. \A g \in 1 .. n : rows'[g] = rows[g]
    BY <1>5, <2>1, <2>2 DEF AddRow
  <2>4. Newest \in DOMAIN rows'
    BY <1>2, <1>5 DEF AddRow
  <2> QED BY <1>2, <2>3, <2>4
<1>6. ASSUME NEW h \in Handlers, InsertRow(h) \/ CommitUpdate(h)
      PROVE  /\ Newest <= Newest' /\ Settled(n)'
             /\ \A g \in 1 .. n : rows'[g] = rows[g]
  <2>1. \E r : AddRow(r)
    BY <1>6 DEF InsertRow, CommitUpdate
  <2>2. \/ hs' = [hs EXCEPT ![h].pc = "annotate", ![h].gen = NextGeneration]
        \/ hs' = [hs EXCEPT ![h].pc = "replace", ![h].gen = NextGeneration]
    BY <1>6 DEF InsertRow, CommitUpdate
  <2>3. hs'[h].gen = NextGeneration /\ \A g \in Handlers : g # h => hs'[g] = hs[g]
    BY <1>3, <2>2 DEF Working
  <2>4. NextGeneration # n
    BY <1>2 DEF NextGeneration
  <2>5. Settled(n)'
    BY <2>3, <2>4 DEF Settled
  <2> QED BY <2>1, <2>5, <1>5
<1>7. ASSUME NEW h \in Handlers, WriteParamChange(h)
      PROVE  /\ Newest <= Newest' /\ Settled(n)'
             /\ \A g \in 1 .. n : rows'[g] = rows[g]
  <2>1. hs[h].pc = "annotate" /\ hs[h].gen = Newest /\ hs' = [hs EXCEPT ![h].pc = "point"]
    BY <1>7 DEF WriteParamChange, Step, HInv, Told
  <2>2. n # Newest /\ hs[h].req \in Requests
    BY <2>1 DEF Settled, HInv, Asked
  <2>3. Newest' = Newest /\ \A g \in 1 .. Newest : g # Newest => rows'[g] = rows[g]
    BY <1>7, <2>1, <2>2, Annotated DEF HInv
  <2>4. hs'[h].pc = "point" /\ \A g \in Handlers : g # h => hs'[g] = hs[g]
    BY <1>3, <2>1 DEF Working
  <2>5. \A g \in 1 .. n : g \in 1 .. Newest /\ g # Newest
    BY <1>2, <2>2
  <2> QED BY <1>2, <2>3, <2>4, <2>5 DEF Settled
<1>8. ASSUME NEW h \in Handlers, \/ \E r \in Requests : Begin(h, r)
                                 \/ Handle(h) /\ ~InsertRow(h) /\ ~CommitUpdate(h) /\ ~WriteParamChange(h)
      PROVE  rows' = rows /\ \A g \in Handlers : hs'[g].pc = "annotate" => hs'[g] = hs[g]
  <2>1. rows' = rows
    BY <1>8 DEF Begin, Handle, ReadPrevious, ReadValues, Refuse, StoreParamValue, PointRow, LoadParams,
                Reload, StampGeneration, PersistAppFields, ReplaceDefinition, ScheduleOnChange,
                InvokeAction, RequestSlot, Spawn, tables
  <2>2. (\A g \in Handlers : g # h => hs'[g] = hs[g]) /\ hs'[h].pc # "annotate"
    <3> DEFINE Off == (\A g \in Handlers : g # h => hs'[g] = hs[g]) /\ hs'[h].pc # "annotate"
    <3>1. ASSUME Done(h) PROVE Off
      BY <1>3, <3>1, IdleType DEF Done
    <3>2. ASSUME NEW q \in Pcs \ {"annotate"}, Step(h, q) PROVE Off
      BY <1>3, <3>2 DEF Step, Working
    <3>3. CASE (\E r \in Requests : Begin(h, r)) \/ InvokeAction(h)
      BY <1>3, <3>3 DEF Begin, InvokeAction, Idle
    <3>4. CASE ReadPrevious(h) \/ ReadValues(h) \/ Refuse(h) \/ LoadParams(h)
      <4>1. \/ Done(h)
            \/ \E v : hs' = [hs EXCEPT ![h].pc = "store", ![h].previous = v]
            \/ \E s, v : hs' = [hs EXCEPT ![h].pc = "commit", ![h].seen = s, ![h].previous = v]
            \/ \E s : hs' = [hs EXCEPT ![h].pc = "reload", ![h].seen = s]
        BY <3>4 DEF ReadPrevious, ReadValues, Refuse, LoadParams
      <4>2. ASSUME NEW v, hs' = [hs EXCEPT ![h].pc = "store", ![h].previous = v] PROVE Off
        BY <1>3, <4>2 DEF Working
      <4>3. ASSUME NEW s, NEW v, hs' = [hs EXCEPT ![h].pc = "commit", ![h].seen = s, ![h].previous = v]
            PROVE  Off
        BY <1>3, <4>3 DEF Working
      <4>4. ASSUME NEW s, hs' = [hs EXCEPT ![h].pc = "reload", ![h].seen = s] PROVE Off
        BY <1>3, <4>4 DEF Working
      <4> QED BY <3>1, <4>1, <4>2, <4>3, <4>4
    <3>5. CASE StoreParamValue(h) \/ PointRow(h) \/ Reload(h) \/ StampGeneration(h) \/ PersistAppFields(h)
               \/ ReplaceDefinition(h) \/ ScheduleOnChange(h) \/ RequestSlot(h) \/ Spawn(h)
      <4>1. Done(h) \/ \E q \in Pcs \ {"annotate"} : Step(h, q)
        BY <3>5 DEF StoreParamValue, PointRow, Reload, StampGeneration, PersistAppFields, ReplaceDefinition,
                    ScheduleOnChange, RequestSlot, Spawn, Pcs
      <4> QED BY <3>1, <3>2, <4>1
    <3> QED BY <1>8, <3>3, <3>4, <3>5 DEF Handle
  <2> QED BY <2>1, <2>2
<1>9. CASE Dequeue \/ SaveOperation \/ Complete \/ UNCHANGED vars
  BY <1>2, <1>4, <1>9 DEF Dequeue, SaveOperation, Complete, vars, tables
<1>10. CASE Restart
  BY <1>2, <1>4, <1>10, IdleType DEF Restart, tables
<1> QED BY <1>2, <1>4, <1>6, <1>7, <1>8, <1>9, <1>10 DEF Next

LEMMA GoodKept ==
  ASSUME HInv, [Next]_vars, NEW a, NEW t \in Nat \ {0}, Good(a, t)
  PROVE  Good(a, t)'
<1>1. PICK n \in t .. Newest : Settled(n) /\ IsOf(a, n)
  BY DEF Good
<1>2. Newest \in Nat
  BY DEF HInv, Types, Numbered
<1>3. n \in 1 .. Newest
  BY <1>2
<1>4. /\ Newest' \in Nat /\ Newest <= Newest' /\ Settled(n)'
      /\ \A g \in 1 .. n : rows'[g] = rows[g]
  BY <1>1, <1>3, PastKept
<1>5. PICK s \in Stored : /\ DefIs(a[1], n) /\ \A p \in Params : SaysAt(p, s[p], n)
                          /\ a[2] = s \/ ~Evaluates(a[1], s)
  BY <1>1 DEF IsOf
<1>6. DefIs(a[1], n)'
  BY <1>4, <1>5 DEF DefIs, IsDef
<1>7. \A p \in Params : SaysAt(p, s[p], n)'
  BY <1>4, <1>5 DEF SaysAt
<1>8. IsOf(a, n)'
  BY <1>5, <1>6, <1>7 DEF IsOf
<1>9. n \in t .. Newest'
  BY <1>2, <1>4
<1> QED BY <1>4, <1>8, <1>9 DEF Good

\* A later App is good for an earlier generation.
LEMMA GoodDown ==
  ASSUME HInv, NEW a, NEW t \in Nat, NEW u \in 1 .. t, Good(a, t)
  PROVE  Good(a, u)
<1>1. PICK n \in t .. Newest : Settled(n) /\ IsOf(a, n)
  BY DEF Good
<1>2. n \in u .. Newest
  BY DEF HInv, Types, Numbered
<1> QED BY <1>1, <1>2 DEF Good

\* The App evaluated from the stored values is that of the newest generation.
LEMMA NowIs ==
  ASSUME HInv, torn = {}, \A h \in Handlers : hs[h].pc \notin {"insert", "annotate"},
         NEW d, Origin(d), current \in 1 .. Newest,
         NEW s, s = stored \/ ~Evaluates(d, stored), NEW t \in 1 .. Newest
  PROVE  Good(<<d, s>>, t)
<1>1. Numbered /\ Newest \in Nat \ {0} /\ stored \in Stored
  BY DEF HInv, Types, Numbered
<1>2. PICK n \in 1 .. Newest : n = Newest
  BY <1>1
<1>3. DefIs(d, n)
  <2>1. current <= n /\ current \in Nat
    BY <1>1, <1>2
  <2> QED BY <2>1, <1>1, OriginAt
<1>4. \A p \in Params : SaysAt(p, stored[p], n)
  BY <1>2 DEF HInv, Told, InCall, Says, SaysAt
<1>5. PICK a : a = <<d, s>>
  OBVIOUS
<1>6. a[1] = d /\ a[2] = s
  BY <1>5
<1>7. IsOf(a, n)
  BY <1>1, <1>3, <1>4, <1>6 DEF IsOf
<1>8. Settled(n)
  BY DEF Settled
<1>9. n \in t .. Newest
  BY <1>1, <1>2
<1> QED BY <1>5, <1>7, <1>8, <1>9 DEF Good

\* What Good says of an App, in the words of the model.
LEMMA IsOfGeneration ==
  ASSUME Numbered, NEW n \in 1 .. Newest, NEW a, IsOf(a, n)
  PROVE  OfGeneration(a, n)
<1>1. PICK s \in Stored : /\ DefIs(a[1], n) /\ \A p \in Params : SaysAt(p, s[p], n)
                          /\ a[2] = s \/ ~Evaluates(a[1], s)
  BY DEF IsOf
<1>2. PICK d : d = a[1]
  OBVIOUS
<1>3. DefinitionAt(n) = d
  BY <1>1, <1>2, DefIsAt
<1>4. \A p \in Params : ParamMapAt(n)[p] = s[p]
  <2> SUFFICES ASSUME NEW p \in Params PROVE ParamMapAt(n)[p] = s[p]
    OBVIOUS
  <2>1. PICK v : v = s[p]
    OBVIOUS
  <2>2. SaysAt(p, v, n)
    BY <1>1, <2>1
  <2> QED BY <2>1, <2>2, SaysMap
<1>5. ParamMapAt(n) = s
  <2>1. PICK m : m = ParamMapAt(n) /\ m = [p \in Params |-> m[p]]
    BY DEF ParamMapAt
  <2>2. \A p \in Params : m[p] = s[p]
    BY <1>4, <2>1
  <2>3. s = [p \in Params |-> s[p]]
    BY DEF Stored
  <2> QED BY <2>1, <2>2, <2>3
<1> QED BY <1>1, <1>2, <1>3, <1>5 DEF OfGeneration

\* The entry moves on to later generations only, and never to an older App.
LEMMA EntryStep ==
  ASSUME HInv, Solo, Agrees, Fresh, ~cut, [Next]_vars, ~cut'
  PROVE  /\ entry'.generation \in entry.generation .. Newest
         /\ Good(entry'.evaluated, entry'.generation)
<1> DEFINE Goal == /\ entry'.generation \in entry.generation .. Newest
                   /\ Good(entry'.evaluated, entry'.generation)
<1>1. Newest \in Nat \ {0} /\ torn = {} /\ entry.generation \in 1 .. Newest /\ Newest \in 1 .. Newest
  BY DEF HInv, Types, Numbered, Fresh
<1>2. CASE entry' = entry
  <2>1. entry.generation \in entry.generation .. Newest
    BY <1>1
  <2> QED BY <1>2, <2>1 DEF Fresh
<1>3. ASSUME NEW h \in Handlers, hs[h].pc \in {"reload", "stamp", "replace"}
      PROVE  /\ AgreesFor(hs[h]) /\ current \in 1 .. Newest
             /\ \A g \in Handlers : hs[g].pc \notin {"insert", "annotate"}
  <2>1. Changing(h)
    BY <1>3, AtWork
  <2>2. AgreesFor(hs[h]) /\ current \in 1 .. Newest /\ \A g \in Handlers : g # h => ~Changing(g)
    BY <2>1, Alone
  <2>3. ASSUME NEW g \in Handlers, hs[g].pc \in {"insert", "annotate"} PROVE FALSE
    BY <1>3, <2>2, <2>3, AtWork
  <2> QED BY <2>2, <2>3
<1>4. ASSUME NEW h \in Handlers, Reload(h) PROVE Goal
  <2>1. hs[h].pc = "reload"
    BY <1>4 DEF Reload
  <2>2. /\ Origin(entry.bundle) /\ hs[h].seen = stored /\ current \in 1 .. Newest
        /\ \A g \in Handlers : hs[g].pc \notin {"insert", "annotate"}
    BY <1>3, <2>1 DEF AgreesFor
  <2>3. PICK d, s : /\ d = entry.bundle /\ entry'.evaluated = <<d, s>> /\ entry'.generation = entry.generation
                    /\ s = stored \/ ~Evaluates(d, stored)
    <3>1. CASE Evaluates(entry.bundle, stored)
      BY <1>4, <2>2, <3>1 DEF Reload, HInv, Types, Shaped
    <3>2. CASE ~Evaluates(entry.bundle, stored)
      BY <1>4, <2>2, <3>2 DEF Reload, HInv, Types, Shaped
    <3> QED BY <3>1, <3>2
  <2>4. PICK n \in 1 .. Newest : n = entry.generation
    BY <1>1
  <2>5. Good(<<d, s>>, n)
    BY <1>1, <2>2, <2>3, NowIs
  <2> QED BY <1>1, <2>3, <2>4, <2>5
<1>5. ASSUME NEW h \in Handlers, StampGeneration(h) PROVE Goal
  <2>1. hs[h].pc = "stamp"
    BY <1>5 DEF StampGeneration
  <2>2. /\ Origin(entry.bundle) /\ hs[h].gen = Newest /\ Fit /\ current \in 1 .. Newest
        /\ \A g \in Handlers : hs[g].pc \notin {"insert", "annotate"}
    BY <1>3, <2>1 DEF AgreesFor
  <2>3. PICK d, s : /\ d = entry.bundle /\ entry'.evaluated = <<d, s>> /\ entry'.generation = Newest
                    /\ s = stored \/ ~Evaluates(d, stored)
    BY <1>5, <2>2 DEF StampGeneration, HInv, Types, Shaped, Fit
  <2>4. PICK n \in 1 .. Newest : n = Newest
    BY <1>1
  <2>5. Good(<<d, s>>, n)
    BY <1>1, <2>2, <2>3, NowIs
  <2> QED BY <1>1, <2>3, <2>4, <2>5
<1>6. ASSUME NEW h \in Handlers, ReplaceDefinition(h) PROVE Goal
  <2>1. hs[h].pc = "replace"
    BY <1>6 DEF ReplaceDefinition
  <2>2. /\ Origin(hs[h].req.def) /\ hs[h].gen = Newest /\ hs[h].seen = stored /\ current \in 1 .. Newest
        /\ \A g \in Handlers : hs[g].pc \notin {"insert", "annotate"}
    BY <1>3, <2>1 DEF AgreesFor
  <2>3. PICK d, s : /\ d = hs[h].req.def /\ s = stored
                    /\ entry'.evaluated = <<d, s>> /\ entry'.generation = Newest
    BY <1>6, <2>2 DEF ReplaceDefinition
  <2>4. PICK n \in 1 .. Newest : n = Newest
    BY <1>1
  <2>5. Good(<<d, s>>, n)
    BY <1>1, <2>2, <2>3, NowIs
  <2> QED BY <1>1, <2>3, <2>4, <2>5
<1>7. CASE Restart
  <2>1. torn' = {}
    BY <1>7 DEF Restart
  <2>2. \A h \in Handlers : hs[h].pc \notin {"insert", "annotate", "point"}
    BY <1>7, <2>1 DEF Restart
  <2>3. current = Newest
    BY <1>1, <2>2, OriginIs
  <2>4. PICK d : Origin(d)
    BY OriginIs
  <2>5. PICK n \in 1 .. Newest : n = Newest
    BY <1>1
  <2>6. DefinitionAt(n) = d
    <3>1. current <= n /\ current \in Nat /\ Numbered
      BY <1>1, <2>3, <2>5 DEF HInv, Types
    <3> QED BY <2>4, <3>1, OriginAt
  <2>7. entry'.evaluated = <<d, stored>> /\ entry'.generation = n
    BY <1>7, <2>3, <2>5, <2>6 DEF Restart, LoadFromDb
  <2>8. PICK s : s = stored
    OBVIOUS
  <2>9. Good(<<d, s>>, n)
    BY <1>1, <2>2, <2>3, <2>4, <2>5, <2>8, NowIs
  <2> QED BY <1>1, <2>5, <2>7, <2>8, <2>9
<1>8. ASSUME NEW h \in Handlers, (\E r \in Requests : Begin(h, r)) \/ Handle(h),
             ~Reload(h), ~StampGeneration(h), ~ReplaceDefinition(h)
      PROVE  entry' = entry
  BY <1>8 DEF Begin, Handle, ReadPrevious, ReadValues, Refuse, StoreParamValue, InsertRow, WriteParamChange,
              PointRow, LoadParams, PersistAppFields, CommitUpdate, ScheduleOnChange, InvokeAction,
              RequestSlot, Spawn
<1>9. Dequeue \/ SaveOperation \/ Complete \/ UNCHANGED vars => entry' = entry
  BY DEF Dequeue, SaveOperation, Complete, vars
<1> HIDE DEF Goal
<1>10. Goal
  BY <1>2, <1>4, <1>5, <1>6, <1>7, <1>8, <1>9 DEF Next, Goal
<1> QED BY <1>10 DEF Goal

\* An operation is asked for with a generation that the entry has come to, and is
\* given the App of the entry.
LEMMA FreshStep ==
  ASSUME HInv, Solo, Agrees, Spawning, Fresh, ~cut, [Next]_vars, ~cut'
  PROVE  Fresh'
<1>1. PICK e, n : e = entry'.evaluated /\ n = entry'.generation
  OBVIOUS
<1>2. /\ n \in 1 .. Newest /\ Good(e, n) /\ n \in Nat /\ entry.generation \in 1 .. n
      /\ Newest \in Nat /\ Newest' \in Nat /\ Newest <= Newest'
  <2>1. n \in entry.generation .. Newest /\ Good(e, n)
    BY <1>1, EntryStep
  <2>2. entry.generation \in 1 .. Newest /\ Newest \in Nat
    BY DEF Fresh, HInv, Types, Numbered
  <2>3. n \in 1 .. Newest
    BY <2>1, <2>2
  <2>4. PICK m \in n .. Newest : Settled(m)
    BY <2>1 DEF Good
  <2>5. m \in 1 .. Newest
    BY <2>3, <2>4
  <2>6. Newest' \in Nat /\ Newest <= Newest'
    BY <2>4, <2>5, PastKept
  <2> QED BY <2>1, <2>2, <2>3, <2>6
<1>3. hs \in [Handlers -> Working]
  BY DEF HInv, Types
<1>4. Good(e, n)' /\ entry'.generation \in 1 .. Newest' /\ entry'.evaluated = e
  BY <1>1, <1>2, GoodKept
<1>5. Good(entry.evaluated, entry.generation)' /\ entry'.generation \in 1 .. Newest'
  BY <1>1, <1>4 DEF Good, IsOf, DefIs, SaysAt, Settled, IsDef
<1>6. ASSUME NEW h \in Handlers, Invoking(h)' PROVE hs'[h].gen \in 1 .. n
  <2>1. CASE InvokeAction(h)
    BY <2>1, <1>2, <1>3 DEF InvokeAction, Idle
  <2>2. CASE Invoking(h) /\ hs'[h].gen = hs[h].gen
    <3>1. hs[h].gen \in 1 .. entry.generation
      BY <2>2 DEF Fresh
    <3> QED BY <2>2, <3>1, <1>2
  <2>3. ASSUME NEW g \in Handlers, Handle(g), ~InvokeAction(g), ~RequestSlot(g), ~Spawn(g)
        PROVE  Invoking(h) /\ hs'[h].gen = hs[h].gen
    <3>1. ~Invoking(g)' /\ \A k \in Handlers : k # g => hs'[k] = hs[k]
      BY <2>3, ChangeMoves DEF Handle
    <3> QED BY <3>1, <1>6 DEF Invoking
  <2>4. ASSUME NEW g \in Handlers, InvokeAction(g), g # h PROVE Invoking(h) /\ hs'[h].gen = hs[h].gen
    BY <2>4, <1>3, <1>6 DEF InvokeAction, Invoking
  <2>5. ASSUME NEW g \in Handlers, RequestSlot(g) \/ Spawn(g) PROVE Invoking(h) /\ hs'[h].gen = hs[h].gen
    <3>1. \/ hs' = [hs EXCEPT ![g] = Idle]
          \/ hs' = [hs EXCEPT ![g].pc = "spawn"] /\ Invoking(g)
      BY <2>5 DEF RequestSlot, Spawn, Done, Step
    <3>2. CASE hs' = [hs EXCEPT ![g] = Idle]
      <4>1. h # g /\ hs'[h] = hs[h]
        BY <3>2, <1>3, <1>6, IdleType DEF Invoking
      <4> QED BY <4>1, <1>6 DEF Invoking
    <3>3. CASE hs' = [hs EXCEPT ![g].pc = "spawn"] /\ Invoking(g)
      <4>1. hs'[h].gen = hs[h].gen /\ hs'[h].req = hs[h].req /\ (h # g => hs'[h] = hs[h])
        BY <3>3, <1>3 DEF Working
      <4> QED BY <3>3, <4>1, <1>6 DEF Invoking
    <3> QED BY <3>1, <3>2, <3>3
  <2>6. ASSUME NEW g \in Handlers, NEW r \in Requests, Begin(g, r)
        PROVE  Invoking(h) /\ hs'[h].gen = hs[h].gen
    <3>1. hs'[g].req = r /\ r # Invocation /\ (h # g => hs'[h] = hs[h])
      BY <2>6, <1>3, RequestFields DEF Begin, Idle
    <3> QED BY <3>1, <1>6 DEF Invoking
  <2>7. CASE Dequeue \/ SaveOperation \/ Complete \/ UNCHANGED vars
    <3>1. hs' = hs
      BY <2>7 DEF Dequeue, SaveOperation, Complete, vars
    <3> QED BY <2>2, <3>1, <1>6 DEF Invoking
  <2>8. ~Restart
    BY <1>6, IdleType DEF Restart, Invoking
  <2> QED BY <2>1, <2>2, <2>3, <2>4, <2>5, <2>6, <2>7, <2>8 DEF Next
<1>7. ASSUME slot' # None
      PROVE  /\ slot'.target \in 1 .. n
             /\ slot'.app # None => Good(slot'.app, slot'.target)
  <2> DEFINE Goal == /\ slot'.target \in 1 .. n
                     /\ slot'.app # None => Good(slot'.app, slot'.target)
  <2>1. slot # None =>
          /\ slot.target \in 1 .. entry.generation /\ slot.target \in 1 .. n
          /\ slot.app # None => Good(slot.app, slot.target)
          /\ slot = [source |-> slot.source, target |-> slot.target, queued |-> slot.queued,
                     row |-> slot.row, app |-> slot.app]
    BY <1>2 DEF Fresh, Spawning
  <2>2. CASE slot' = slot
    BY <1>7, <2>1, <2>2
  <2>3. ASSUME slot # None, slot'.app \in {entry.evaluated, e}, slot'.target = slot.target PROVE Goal
    <3>1. PICK m \in 1 .. entry.generation : m = slot.target
      BY <2>1, <2>3
    <3>2. PICK a : a = slot'.app
      OBVIOUS
    <3>3. CASE a = entry.evaluated
      <4>1. PICK k \in Nat : k = entry.generation /\ m \in 1 .. k
        BY <1>2, <3>1
      <4>2. Good(a, k)
        BY <3>3, <4>1 DEF Fresh
      <4>3. Good(a, m)
        BY <4>1, <4>2, GoodDown
      <4> QED BY <2>1, <2>3, <3>1, <3>2, <4>3
    <3>4. CASE a = e
      <4>1. m \in 1 .. n
        BY <1>2, <3>1
      <4>2. Good(a, m)
        BY <1>2, <3>4, <4>1, GoodDown
      <4> QED BY <2>1, <2>3, <3>1, <3>2, <4>2
    <3> QED BY <2>3, <3>2, <3>3, <3>4
  <2>4. ASSUME NEW h \in Handlers, RequestSlot(h), slot' # slot PROVE Goal
    <3>1. slot'.app = None /\ slot'.target = hs[h].gen /\ hs[h].pc = "request"
      BY <2>4 DEF RequestSlot
    <3>2. CASE Invoking(h)
      <4>1. hs[h].gen \in 1 .. entry.generation
        BY <3>2 DEF Fresh
      <4> QED BY <3>1, <4>1, <1>2
    <3>3. CASE Changing(h)
      <4>1. AgreesFor(hs[h])
        BY <3>3, Alone
      <4>2. hs[h].gen = Newest /\ entry.generation = Newest
        BY <3>1, <4>1 DEF AgreesFor
      <4> QED BY <3>1, <4>2, <1>2
    <3> QED BY <3>1, <3>2, <3>3 DEF Changing, Invoking
  <2>5. ASSUME NEW h \in Handlers, Spawn(h) PROVE Goal
    <3>1. slot # None /\ slot' = [slot EXCEPT !.app = entry.evaluated]
      BY <2>5 DEF Spawn, Spawning
    <3>2. slot'.app = entry.evaluated /\ slot'.target = slot.target
      BY <3>1, <2>1
    <3> QED BY <2>3, <3>1, <3>2
  <2>6. CASE Dequeue
    <3>1. slot # None /\ slot' = [slot EXCEPT !.queued = FALSE, !.app = entry.evaluated]
      BY <2>6 DEF Dequeue
    <3>2. slot'.app = entry.evaluated /\ slot'.target = slot.target
      BY <3>1, <2>1
    <3> QED BY <2>3, <3>1, <3>2
  <2>7. CASE SaveOperation
    <3>1. slot # None /\ slot' = [slot EXCEPT !.row = TRUE]
      BY <2>7 DEF SaveOperation
    <3>2. slot'.app = slot.app /\ slot'.target = slot.target
      BY <3>1, <2>1
    <3> QED BY <2>1, <3>1, <3>2
  <2>8. CASE Restart
    <3>1. slot # None /\ slot' = [slot EXCEPT !.app = e]
      BY <2>8, <1>1, <1>7 DEF Restart
    <3>2. slot'.app = e /\ slot'.target = slot.target
      BY <3>1, <2>1
    <3> QED BY <2>3, <3>1, <3>2
  <2>9. CASE UNCHANGED vars
    BY <2>2, <2>9 DEF vars
  <2>10. ~Complete
    BY <1>7 DEF Complete
  <2>11. ASSUME NEW h \in Handlers, \/ \E r \in Requests : Begin(h, r)
                                    \/ Handle(h) /\ ~RequestSlot(h) /\ ~Spawn(h)
         PROVE  slot' = slot
    <3>1. CASE (\E r \in Requests : Begin(h, r)) \/ InvokeAction(h)
      BY <3>1 DEF Begin, InvokeAction
    <3> QED BY <2>11, <3>1, ChangeMoves DEF Handle
  <2> HIDE DEF Goal
  <2>12. Goal
    BY <2>2, <2>4, <2>5, <2>6, <2>7, <2>8, <2>9, <2>10, <2>11 DEF Next, Handle, Goal
  <2> QED BY <2>12 DEF Goal
<1>8. slot' # None => /\ slot'.target \in 1 .. entry'.generation
                      /\ slot'.app # None => Good(slot.app, slot.target)'
  <2> SUFFICES ASSUME slot' # None
               PROVE  /\ slot'.target \in 1 .. entry'.generation
                      /\ slot'.app # None => Good(slot.app, slot.target)'
    OBVIOUS
  <2>1. PICK a, m : a = slot'.app /\ m = slot'.target
    OBVIOUS
  <2>2. m \in 1 .. n /\ (a # None => Good(a, m))
    BY <1>7, <2>1
  <2>3. m \in Nat \ {0}
    BY <1>2, <2>2
  <2>4. a # None => Good(a, m)'
    BY <2>2, <2>3, GoodKept
  <2> QED BY <1>1, <2>1, <2>2, <2>4 DEF Good, IsOf, DefIs, SaysAt, Settled, IsDef
<1> QED BY <1>1, <1>5, <1>6, <1>8 DEF Fresh

\* Without a change beside an invocation, nothing moves under an operation.
LEMMA ApartStep ==
  ASSUME HInv, Solo, Agrees, Spawning, Apart, torn = {}, [Next]_vars, ~raced, ~raced'
  PROVE  Apart'
<1>1. hs \in [Handlers -> Working]
  BY DEF HInv, Types
<1>2. ASSUME slot' = None, \A g \in Handlers : ~Invoking(g)' PROVE Apart'
  BY <1>2 DEF Apart
<1>3. ASSUME NoChange', slot' # None => slot'.target = Newest',
             \A g \in Handlers : Invoking(g)' => hs'[g].gen = Newest'
      PROVE  Apart'
  BY <1>3 DEF Apart
<1>4. ASSUME NEW h \in Handlers, Handle(h), ~InvokeAction(h), ~RequestSlot(h), ~Spawn(h) PROVE Apart'
  <2>1. /\ Changing(h) /\ slot' = slot /\ ~Invoking(h)'
        /\ \A g \in Handlers : g # h => hs'[g] = hs[g]
    BY <1>4, ChangeMoves DEF Handle
  <2>2. slot = None /\ \A g \in Handlers : ~Invoking(g)
    BY <2>1 DEF Apart, NoChange
  <2>3. \A g \in Handlers : ~Invoking(g)'
    BY <2>1, <2>2 DEF Invoking
  <2> QED BY <2>1, <2>2, <2>3, <1>2
<1>5. ASSUME NEW h \in Handlers, NEW r \in Requests, Begin(h, r) PROVE Apart'
  <2>1. slot = None /\ slot' = slot /\ \A g \in Handlers : ~Invoking(g)
    BY <1>5 DEF Begin, Gate
  <2>2. hs'[h].req = r /\ r # Invocation /\ \A g \in Handlers : g # h => hs'[g] = hs[g]
    BY <1>1, <1>5, RequestFields DEF Begin, Idle
  <2>3. \A g \in Handlers : ~Invoking(g)'
    BY <2>1, <2>2 DEF Invoking
  <2> QED BY <2>1, <2>3, <1>2
<1>6. ASSUME NEW h \in Handlers, InvokeAction(h) PROVE Apart'
  <2>1. NoChange /\ slot' = slot /\ Newest' = Newest
    BY <1>6 DEF InvokeAction, Newest, tables
  <2>2. /\ hs'[h].req = Invocation /\ hs'[h].gen = entry.generation
        /\ \A g \in Handlers : g # h => hs'[g] = hs[g]
    BY <1>1, <1>6 DEF InvokeAction, Idle
  <2>3. entry.generation = Newest
    BY <2>1, IdleType DEF Agrees, AgreesFor
  <2>4. NoChange'
    BY <2>1, <2>2 DEF NoChange, Changing
  <2>5. slot' # None => slot'.target = Newest'
    BY <2>1 DEF Apart
  <2>6. \A g \in Handlers : Invoking(g)' => hs'[g].gen = Newest'
    BY <2>1, <2>2, <2>3 DEF Apart, Invoking
  <2> QED BY <2>4, <2>5, <2>6, <1>3
<1>7. ASSUME NEW h \in Handlers, RequestSlot(h) PROVE Apart'
  <2>1. /\ Newest' = Newest /\ hs[h].pc = "request"
        /\ \/ hs' = [hs EXCEPT ![h] = Idle]
           \/ hs' = [hs EXCEPT ![h].pc = "spawn"] /\ Invoking(h)
        /\ slot' = slot \/ slot'.target = hs[h].gen
    BY <1>7 DEF RequestSlot, Done, Step, Newest, tables
  <2>2. hs[h].gen = Newest /\ \A g \in Handlers : g # h => ~Changing(g)
    <3>1. CASE Changing(h)
      <4>1. AgreesFor(hs[h]) /\ \A g \in Handlers : g # h => ~Changing(g)
        BY <3>1, Alone
      <4> QED BY <2>1, <4>1 DEF AgreesFor
    <3>2. CASE Invoking(h)
      BY <3>2 DEF Apart, NoChange
    <3> QED BY <2>1, <3>1, <3>2 DEF Changing, Invoking
  <2>3. /\ \A g \in Handlers : g # h => hs'[g] = hs[g]
        /\ hs'[h].pc = "idle" \/ (hs'[h].gen = hs[h].gen /\ hs'[h].req = Invocation)
    BY <1>1, <2>1, IdleType DEF Working, Invoking
  <2>4. NoChange'
    BY <2>2, <2>3 DEF NoChange, Changing
  <2>5. slot' # None => slot'.target = Newest'
    BY <2>1, <2>2 DEF Apart
  <2>6. \A g \in Handlers : Invoking(g)' => hs'[g].gen = Newest'
    BY <2>1, <2>2, <2>3 DEF Apart, Invoking
  <2> QED BY <2>4, <2>5, <2>6, <1>3
<1>8. ASSUME NEW h \in Handlers, Spawn(h) PROVE Apart'
  <2>1. /\ slot # None /\ slot' = [slot EXCEPT !.app = entry.evaluated] /\ Newest' = Newest
        /\ hs' = [hs EXCEPT ![h] = Idle]
    BY <1>8 DEF Spawn, Spawning, Done, Newest, tables
  <2>2. slot'.target = slot.target
    BY <2>1 DEF Spawning
  <2>3. hs'[h].pc = "idle" /\ \A g \in Handlers : g # h => hs'[g] = hs[g]
    BY <1>1, <2>1, IdleType
  <2>4. NoChange'
    BY <2>1, <2>3 DEF Apart, NoChange, Changing
  <2>5. \A g \in Handlers : Invoking(g)' => hs'[g].gen = Newest'
    BY <2>1, <2>3 DEF Apart, Invoking
  <2>6. slot' # None => slot'.target = Newest'
    BY <2>1, <2>2 DEF Apart
  <2> QED BY <2>4, <2>5, <2>6, <1>3
<1>9. CASE Dequeue \/ SaveOperation \/ Complete \/ UNCHANGED vars
  <2>1. hs' = hs /\ Newest' = Newest
    BY <1>9 DEF Dequeue, SaveOperation, Complete, vars, tables, Newest
  <2>2. ASSUME slot' # None PROVE slot # None /\ slot'.target = slot.target
    <3>1. CASE Dequeue \/ SaveOperation
      <4>1. \/ slot' = [slot EXCEPT !.queued = FALSE, !.app = entry.evaluated]
            \/ slot' = [slot EXCEPT !.row = TRUE]
        BY <3>1 DEF Dequeue, SaveOperation
      <4>2. slot # None
        BY <3>1 DEF Dequeue, SaveOperation
      <4> QED BY <4>1, <4>2 DEF Spawning
    <3> QED BY <1>9, <2>2, <3>1 DEF Complete, vars
  <2> QED BY <2>1, <2>2 DEF Apart, NoChange, Changing, Invoking
<1>10. CASE Restart
  <2>1. Newest' = Newest /\ \A g \in Handlers : hs'[g].pc = "idle"
    BY <1>10, IdleType DEF Restart, tables, Newest
  <2>2. ASSUME slot' # None PROVE slot # None /\ slot'.target = slot.target
    <3>1. slot # None /\ slot' = [slot EXCEPT !.app = LoadFromDb.evaluated]
      BY <1>10, <2>2 DEF Restart
    <3> QED BY <3>1 DEF Spawning
  <2>3. NoChange' /\ \A g \in Handlers : ~Invoking(g)'
    BY <2>1 DEF NoChange, Changing, Invoking
  <2>4. slot' # None => slot'.target = Newest'
    BY <2>1, <2>2 DEF Apart
  <2> QED BY <2>3, <2>4, <1>3
<1> QED BY <1>4, <1>5, <1>6, <1>7, <1>8, <1>9, <1>10 DEF Next

LEMMA OInvStep == HInv /\ AInv /\ Spawning /\ OInv /\ [Next]_vars => OInv'
<1> SUFFICES ASSUME HInv, AInv, Spawning, OInv, [Next]_vars, ~overlap', ~cut'
             PROVE  Fresh' /\ (~raced' => Apart')
  BY DEF OInv
<1>1. ~overlap /\ ~cut /\ (~raced' => ~raced)
  <2>1. ASSUME NEW h \in Handlers, Handle(h), ~InvokeAction(h), ~RequestSlot(h), ~Spawn(h)
        PROVE  UNCHANGED <<overlap, cut, raced>>
    BY <2>1, ChangeMoves DEF Handle
  <2>2. ASSUME NEW h \in Handlers, RequestSlot(h) \/ Spawn(h) PROVE UNCHANGED <<overlap, cut, raced>>
    BY <2>2 DEF RequestSlot, Spawn
  <2>3. Dequeue \/ SaveOperation \/ Complete \/ UNCHANGED vars => UNCHANGED <<overlap, cut, raced>>
    BY DEF Dequeue, SaveOperation, Complete, vars
  <2>4. CASE UNCHANGED <<overlap, cut, raced>>
    BY <2>4
  <2>5. ASSUME NEW h \in Handlers, InvokeAction(h) PROVE ~overlap /\ ~cut /\ (~raced' => ~raced)
    BY <2>5 DEF InvokeAction
  <2>6. ASSUME NEW h \in Handlers, NEW r \in Requests, Begin(h, r)
        PROVE  ~overlap /\ ~cut /\ (~raced' => ~raced)
    BY <2>6 DEF Begin
  <2>7. CASE Restart
    BY <2>7 DEF Restart
  <2> QED BY <2>1, <2>2, <2>3, <2>4, <2>5, <2>6, <2>7 DEF Next
<1>2. Solo /\ Agrees /\ Fresh /\ (~raced => Apart) /\ torn = {}
  BY <1>1 DEF AInv, OInv, HInv, Types
<1>3. Fresh'
  BY <1>1, <1>2, FreshStep
<1>4. ~raced' => Apart'
  BY <1>1, <1>2, ApartStep
<1> QED BY <1>3, <1>4

LEMMA OInvInit == Init => Spawning /\ OInv
<1> SUFFICES ASSUME Init PROVE Spawning /\ Fresh /\ Apart
  BY DEF OInv
<1>1. HInv /\ Solo /\ Agrees
  BY HInvInit, AInvInit DEF AInv, Init
<1>2. slot = None /\ torn = {} /\ \A h \in Handlers : hs[h].pc = "idle"
  BY IdleType DEF Init
<1>3. NoChange /\ \A h \in Handlers : ~Invoking(h)
  BY <1>2 DEF NoChange, Changing, Invoking
<1>4. Origin(entry.bundle) /\ entry.generation = Newest /\ current \in 1 .. Newest
  BY <1>1, <1>2, <1>3, IdleType DEF Agrees, AgreesFor
<1>5. entry.evaluated = <<entry.bundle, stored>>
  BY DEF Init
<1>6. PICK n \in 1 .. Newest : n = Newest
  BY <1>1 DEF HInv, Types, Numbered
<1>7. PICK d, s : d = entry.bundle /\ s = stored
  OBVIOUS
<1>8. Good(<<d, s>>, n)
  BY <1>1, <1>2, <1>4, <1>7, NowIs
<1>9. Fresh
  BY <1>2, <1>3, <1>4, <1>5, <1>6, <1>7, <1>8 DEF Fresh
<1> QED BY <1>2, <1>3, <1>9 DEF Spawning, Apart

\* r[generation.definition], r[operation.lifecycle.generations] and
\* reject_if_op_in_progress: changes made one at a time leave the entry, its row and
\* the history in agreement once no parameter is half-changed; and if no crash cut a
\* change in two, no operation runs with an App older than its target generation,
\* however the reading of the generation, the request, the spawning and the changes
\* interleave, and where no change was at work beside an invocation it runs with the
\* App of that very generation, after any number of restarts.
THEOREM EntryAgrees == Spec => []Agreement
<1>1. HInv /\ AInv /\ OInv => Agreement
  <2> SUFFICES ASSUME HInv, AInv, OInv, ~overlap PROVE Agreement
    BY DEF Agreement
  <2>1. Numbered /\ Newest \in Nat \ {0} /\ Solo /\ Agrees
    BY DEF HInv, Types, Numbered, AInv
  <2>2. ASSUME NoChange, torn = {}
        PROVE  /\ entry.generation = Newest /\ current = Newest
               /\ entry.bundle = DefinitionAt(Newest)
               /\ entry.evaluated = <<entry.bundle, stored>> \/ ~Evaluates(entry.bundle, stored)
    <3>1. Origin(entry.bundle) /\ Fit /\ entry.generation = Newest /\ current = Newest
      BY <2>1, <2>2, IdleType DEF Agrees, AgreesFor
    <3>2. PICK d : d = entry.bundle
      OBVIOUS
    <3>3. PICK n \in 1 .. Newest : n = Newest
      BY <2>1
    <3>4. Origin(d) /\ current <= n /\ current \in Nat
      BY <2>1, <3>1, <3>2, <3>3
    <3>5. DefinitionAt(n) = d
      BY <2>1, <3>4, OriginAt
    <3> QED BY <3>1, <3>2, <3>3, <3>5 DEF Fit
  <2>3. ASSUME slot # None, slot.app # None, ~cut
        PROVE  /\ \E n \in slot.target .. Newest : OfGeneration(slot.app, n)
               /\ ~raced => OfGeneration(slot.app, slot.target)
    <3>1. Fresh /\ (~raced => Apart)
      BY <2>3 DEF OInv
    <3>2. PICK a, m : a = slot.app /\ m = slot.target
      OBVIOUS
    <3>3. Good(a, m) /\ m \in 1 .. entry.generation /\ entry.generation \in 1 .. Newest
      BY <2>3, <3>1, <3>2 DEF Fresh
    <3>4. PICK n \in m .. Newest : IsOf(a, n)
      BY <3>3 DEF Good
    <3>5. n \in 1 .. Newest
      BY <2>1, <3>3, <3>4
    <3>6. OfGeneration(a, n)
      BY <2>1, <3>4, <3>5, IsOfGeneration
    <3>7. ~raced => n = m
      BY <2>1, <2>3, <3>1, <3>2, <3>4 DEF Apart
    <3> QED BY <3>2, <3>4, <3>6, <3>7
  <2> QED BY <2>2, <2>3 DEF Agreement
<1> QED BY <1>1, HInvInit, HInvStep, AInvInit, AInvStep, SpawningStep, OInvInit, OInvStep, PTL DEF Spec
=============================================================================
