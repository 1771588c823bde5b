--------------------------- MODULE SessionsProofs ---------------------------
(***************************************************************************)
(* Theorems about Sessions, for every number of forwards, shells,          *)
(* connections and keys.                                                   *)
(*                                                                         *)
(* That no two forwards of a connection share a key rests on the order in  *)
(* which alloc_key hands keys out: as long as the counter has not gone     *)
(* round, what lies ahead of it was never given to anybody.                *)
(***************************************************************************)
EXTENDS Sessions, WellFoundedInduction, TLAPS

Task == [pc : {"none", "found", "keyed", "registered", "serving", "telling", "done"},
         conn : Conns \cup {None}, key : Keys \cup {None}, udp : BOOLEAN]

Types ==
  /\ conn \in [Conns -> {"open", "lost", "closed"}]
  /\ task \in [Forwards -> Task]
  /\ byId \subseteq Forwards
  /\ keyToId \in [Conns \X Keys -> Forwards \cup {None}]
  /\ connToIds \in [Conns -> SUBSET Forwards] /\ counter \in [Conns -> Keys]
  /\ allocs \in [Conns -> 0 .. KeySpace + 1]

\* What a session carries at which step.
Carries == \A f \in Forwards :
  /\ task[f].pc \in {"found", "keyed", "registered", "serving", "telling"} => task[f].conn \in Conns
  /\ task[f].pc \in {"keyed", "registered", "serving", "telling"} <=> task[f].key # None

\* Until its counter has gone round, a connection hands out the keys in order.
FreshKeys == \A c \in Conns : conn[c] # "closed" /\ allocs[c] <= KeySpace =>
  /\ counter[c] = allocs[c] % KeySpace
  /\ \A f \in Forwards : task[f].conn = c /\ task[f].key # None => task[f].key < allocs[c]
  /\ \A f, g \in Forwards : f # g /\ task[f].conn = c /\ task[g].conn = c /\ task[f].key # None
                              => task[f].key # task[g].key

\* The index by key leads to UDP forwards that were given the key.
KeysTrue ==
  \A x \in Conns \X Keys : keyToId[x] # None =>
    keyToId[x] \in byId /\ task[keyToId[x]].udp /\ Slot(keyToId[x]) = x

\* The forwards by id are at work, and the indexes by connection and key find them.
IdsTrue ==
  \A f \in byId :
    /\ task[f].pc \in {"registered", "serving", "telling"}
    /\ f \in connToIds[task[f].conn]
    /\ task[f].udp /\ conn[task[f].conn] = "open" /\ allocs[task[f].conn] <= KeySpace
         => keyToId[Slot(f)] = f

FInv == Types /\ Carries /\ FreshKeys /\ KeysTrue /\ IdsTrue

ShellTasks == [pc : {"none", "greeting", "closure", "prepared", "ready", "running",
                     "registered", "serving", "typing", "printing", "closing", "done"},
               conn : Conns \cup {None}, kind : {"shell", "volume", None}]
Alive == {"registered", "serving", "typing", "printing", "closing"}

\* Only living shells are listed.
SInv ==
  /\ shell \in [Shells -> ShellTasks] /\ sessions \subseteq Shells
  /\ \A s \in sessions : shell[s].pc \in Alive

LEMMA Constants ==
  /\ KeySpace \in Nat \ {0} /\ None \notin Keys /\ None \notin Conns /\ None \notin Forwards
  /\ \A k \in Keys : k \in Nat /\ k < KeySpace
BY SessionsAssumption DEF SessionsAssumption, Keys, Conns, Forwards

\* The fields of a session's record.
LEMMA TaskFields ==
  ASSUME Types, NEW f \in Forwards
  PROVE  /\ task[f] \in Task /\ task[f].conn \in Conns \cup {None} /\ task[f].key \in Keys \cup {None}
         /\ task[f].udp \in BOOLEAN
         /\ task[f].pc \in {"none", "found", "keyed", "registered", "serving", "telling", "done"}
<1>1. task[f] \in Task
  BY DEF Types
<1> QED BY <1>1 DEF Task

LEMMA EndedType ==
  /\ Ended \in Task /\ Ended.pc = "done" /\ Ended.conn = None /\ Ended.key = None
  /\ NoTask \in Task /\ NoTask.pc = "none" /\ NoTask.conn = None /\ NoTask.key = None
BY DEF Ended, NoTask, Task

\* A registered forward has a connection and a key.
LEMMA SlotType ==
  ASSUME Types, Carries, NEW f \in Forwards, task[f].pc \in {"keyed", "registered", "serving", "telling"}
  PROVE  /\ task[f].conn \in Conns /\ task[f].key \in Keys /\ Slot(f) \in Conns \X Keys
         /\ Slot(f) = <<task[f].conn, task[f].key>>
<1>1. task[f].conn \in Conns /\ task[f].key # None
  BY DEF Carries
<1>2. task[f].key \in Keys
  BY <1>1, TaskFields
<1> QED BY <1>1, <1>2 DEF Slot

-----------------------------------------------------------------------------
(* Arithmetic of the key counter.                                          *)

LEMMA ModSmall ==
  ASSUME NEW n \in Nat \ {0}, NEW a \in Nat, a < n
  PROVE  a % n = a
OBVIOUS

LEMMA ModRound ==
  ASSUME NEW n \in Nat \ {0}, NEW a \in Nat, a < n
  PROVE  (a + n) % n = a
OBVIOUS

\* The counter's own key is the only one no step ahead of it.
LEMMA AheadZero ==
  ASSUME Types, NEW c \in Conns, NEW k \in Keys
  PROVE  Ahead(c, k) \in Nat /\ (Ahead(c, k) = 0 <=> k = counter[c])
<1>1. KeySpace \in Nat \ {0} /\ k \in Nat /\ k < KeySpace /\ counter[c] \in Nat /\ counter[c] < KeySpace
  BY Constants DEF Types
<1>2. CASE k < counter[c]
  <2>1. k + KeySpace - counter[c] \in Nat /\ k + KeySpace - counter[c] < KeySpace
        /\ k + KeySpace - counter[c] # 0
    BY <1>1, <1>2
  <2>2. Ahead(c, k) = k + KeySpace - counter[c]
    BY <1>1, <2>1, ModSmall DEF Ahead
  <2> QED BY <1>1, <1>2, <2>1, <2>2
<1>3. CASE k >= counter[c]
  <2>1. k - counter[c] \in Nat /\ k - counter[c] < KeySpace
        /\ k + KeySpace - counter[c] = (k - counter[c]) + KeySpace
    BY <1>1, <1>3
  <2>2. Ahead(c, k) = k - counter[c]
    BY <1>1, <2>1, ModRound DEF Ahead
  <2> QED BY <1>1, <1>3, <2>1, <2>2
<1> QED BY <1>1, <1>2, <1>3

\* alloc_key finds the counter's key first.
LEMMA NextKeyIsCounter ==
  ASSUME Types, NEW c \in Conns, counter[c] \in Free(c)
  PROVE  NextKey(c) = counter[c]
<1>1. counter[c] \in Keys /\ \A l \in Free(c) : l \in Keys
  BY DEF Types, Free
<1>2. \A l \in Free(c) : Ahead(c, counter[c]) <= Ahead(c, l)
  BY <1>1, AheadZero
<1>3. \A k \in Free(c) : (\A l \in Free(c) : Ahead(c, k) <= Ahead(c, l)) => k = counter[c]
  BY <1>1, AheadZero
<1> QED BY <1>2, <1>3 DEF NextKey

\* A non-empty set of numbers has a least element.
LEMMA Least ==
  ASSUME NEW T, T \subseteq Nat, T # {}
  PROVE  \E x \in T : \A y \in T : x <= y
<1> DEFINE R == OpToRel(<, Nat)
<1>1. IsWellFoundedOn(R, Nat)
  BY NatLessThanWellFounded
<1>2. \A x, y \in Nat : y < x => <<y, x>> \in R
  BY DEF OpToRel
<1> HIDE DEF R
<1>3. PICK x \in T : \A y \in T : ~(<<y, x>> \in R)
  BY <1>1, WFMin
<1>4. \A y \in T : x \in Nat /\ y \in Nat /\ ~(y < x)
  BY <1>2, <1>3
<1>5. \A y \in T : x <= y
  BY <1>4
<1> QED BY <1>3, <1>5

\* When there is a free key, alloc_key returns one.
LEMMA NextKeyIsFree ==
  ASSUME Types, NEW c \in Conns, Free(c) # {}
  PROVE  NextKey(c) \in Free(c) /\ NextKey(c) \in Keys
<1>1. \A k \in Free(c) : k \in Keys
  BY DEF Free
<1> DEFINE T == {Ahead(c, k) : k \in Free(c)}
<1>2. T \subseteq Nat /\ T # {}
  BY <1>1, AheadZero
<1>3. PICK x \in T : \A y \in T : x <= y
  BY <1>2, Least
<1>4. \E k \in Free(c) : \A l \in Free(c) : Ahead(c, k) <= Ahead(c, l)
  BY <1>3
<1> QED BY <1>1, <1>4 DEF NextKey

-----------------------------------------------------------------------------
(* Taking forwards out of the registry.                                    *)

\* What remove, remove_stale_for_app and remove_by_conn have in common: F leaves
\* the index by id and takes its keys along, only sessions of F end, and no
\* forward that stays is dropped by its connection.
Removes(F) ==
  /\ F \subseteq Forwards
  /\ byId' = byId \ F
  /\ \A f \in byId \ F, c \in Conns : f \in connToIds[c] => f \in connToIds'[c]
  /\ keyToId' = [x \in Conns \X Keys |->
                   IF \E f \in F \cap byId : Slot(f) = x THEN None ELSE keyToId[x]]
  /\ \A f \in Forwards : task'[f] = task[f] \/ (f \in F /\ task'[f] = Ended)
  /\ \A c \in Conns : \/ conn'[c] = "closed"
                      \/ conn'[c] = conn[c] /\ counter'[c] = counter[c]
  /\ allocs' = allocs

LEMMA RemovesKeeps ==
  ASSUME FInv, Types', NEW F, Removes(F)
  PROVE  FInv'
<1> USE DEF FInv, Removes
<1>1. Carries'
  BY EndedType DEF Carries
<1>2. FreshKeys'
  <2> SUFFICES ASSUME NEW c \in Conns, conn'[c] # "closed", allocs[c] <= KeySpace
               PROVE  /\ counter'[c] = allocs[c] % KeySpace
                      /\ \A f \in Forwards : task'[f].conn = c /\ task'[f].key # None
                                               => task'[f].key < allocs[c]
                      /\ \A f, g \in Forwards : f # g /\ task'[f].conn = c /\ task'[g].conn = c
                                                /\ task'[f].key # None
                                                  => task'[f].key # task'[g].key
    BY DEF FreshKeys
  <2>1. conn[c] # "closed" /\ counter'[c] = counter[c]
    OBVIOUS
  <2>2. /\ counter[c] = allocs[c] % KeySpace
        /\ \A f \in Forwards : task[f].conn = c /\ task[f].key # None => task[f].key < allocs[c]
        /\ \A f, g \in Forwards : f # g /\ task[f].conn = c /\ task[g].conn = c /\ task[f].key # None
                                    => task[f].key # task[g].key
    BY <2>1 DEF FreshKeys
  <2>3. \A f \in Forwards : task'[f].conn = c => task'[f] = task[f]
    BY EndedType, Constants
  <2> QED BY <2>1, <2>2, <2>3
<1>3. \A f \in byId : f \in Forwards /\ Slot(f) \in Conns \X Keys
                      /\ Slot(f) = <<task[f].conn, task[f].key>>
  BY SlotType DEF IdsTrue, Types
<1>4. \A f \in byId \ F : task'[f] = task[f] /\ Slot(f)' = Slot(f)
  BY DEF Types, Slot
<1>5. KeysTrue'
  <2> SUFFICES ASSUME NEW x \in Conns \X Keys, keyToId'[x] # None
               PROVE  keyToId'[x] \in byId' /\ task'[keyToId'[x]].udp /\ Slot(keyToId[x])' = x
    BY DEF KeysTrue, Slot
  <2>1. keyToId'[x] = keyToId[x] /\ ~\E f \in F \cap byId : Slot(f) = x
    OBVIOUS
  <2>2. keyToId[x] \in byId /\ task[keyToId[x]].udp /\ Slot(keyToId[x]) = x
    BY <2>1 DEF KeysTrue
  <2>3. keyToId[x] \in byId \ F
    BY <2>1, <2>2
  <2>4. Slot(keyToId[x])' = <<task'[keyToId[x]].conn, task'[keyToId[x]].key>>
    BY <2>1 DEF Slot
  <2> QED BY <2>1, <2>2, <2>3, <2>4, <1>4 DEF Slot
<1>6. IdsTrue'
  <2> SUFFICES ASSUME NEW f \in byId \ F
               PROVE  /\ task'[f].pc \in {"registered", "serving", "telling"}
                      /\ f \in connToIds'[task'[f].conn]
                      /\ task'[f].udp /\ conn'[task'[f].conn] = "open"
                           /\ allocs'[task'[f].conn] <= KeySpace => keyToId'[Slot(f)'] = f
    BY DEF IdsTrue, Slot
  <2>1. /\ task[f].pc \in {"registered", "serving", "telling"} /\ f \in connToIds[task[f].conn]
        /\ task[f].udp /\ conn[task[f].conn] = "open" /\ allocs[task[f].conn] <= KeySpace
             => keyToId[Slot(f)] = f
    BY DEF IdsTrue
  <2>2. task'[f] = task[f] /\ Slot(f)' = Slot(f) /\ f \in Forwards
    BY <1>3, <1>4
  <2>3. task[f].conn \in Conns /\ Slot(f) \in Conns \X Keys /\ task[f].key # None
        /\ Slot(f) = <<task[f].conn, task[f].key>>
    BY <2>1, <2>2, SlotType, Constants
  <2>4. ASSUME task[f].udp, conn'[task[f].conn] = "open", allocs[task[f].conn] <= KeySpace
        PROVE  keyToId'[Slot(f)] = f
    <3>1. conn[task[f].conn] = "open"
      BY <2>3, <2>4
    <3>2. keyToId[Slot(f)] = f
      BY <2>1, <2>4, <3>1
    <3>3. \A g \in F \cap byId : Slot(g) # Slot(f)
      <4>1. SUFFICES ASSUME NEW g \in F \cap byId, Slot(g) = Slot(f) PROVE FALSE
        OBVIOUS
      <4>2. g \in Forwards /\ g # f /\ task[g].conn = task[f].conn /\ task[g].key = task[f].key
        BY <4>1, <2>3, <1>3
      <4> QED BY <4>2, <2>2, <2>3, <2>4, <3>1 DEF FreshKeys
    <3> QED BY <2>3, <3>2, <3>3
  <2> QED BY <2>1, <2>2, <2>3, <2>4
<1> QED BY <1>1, <1>2, <1>5, <1>6

\* remove and remove_stale_for_app, whatever they are called from.
LEMMA ForgetKeeps ==
  ASSUME FInv, NEW F, F \subseteq Forwards, Forget(F),
         task' \in [Forwards -> Task],
         \A f \in Forwards : task'[f] = task[f] \/ (f \in F /\ task'[f] = Ended),
         UNCHANGED <<conn, counter, allocs>>
  PROVE  FInv'
<1>1. Types'
  <2>1. keyToId' \in [Conns \X Keys -> Forwards \cup {None}]
    BY DEF FInv, Types, Forget
  <2> QED BY <2>1 DEF FInv, Types, Forget
<1>2. Removes(F)
  <2>1. \A f \in byId \ F, c \in Conns : f \in connToIds[c] => f \in connToIds'[c]
    BY DEF FInv, Types, Forget
  <2> QED BY <2>1 DEF Forget, Removes
<1> QED BY <1>1, <1>2, RemovesKeeps

-----------------------------------------------------------------------------
(* The steps of a forward session.                                         *)

\* The answer or a status line is written: the session moves on and nothing else
\* changes.
LEMMA MoveKeeps ==
  ASSUME FInv, NEW f \in Forwards, task[f].pc \in {"registered", "serving", "telling"},
         NEW q \in {"serving", "telling"}, task' = [task EXCEPT ![f].pc = q],
         UNCHANGED <<conn, registry, allocs>>
  PROVE  FInv'
<1> USE DEF FInv
<1>1. /\ task' \in [Forwards -> Task]
      /\ \A g \in Forwards : /\ task'[g].conn = task[g].conn /\ task'[g].key = task[g].key
                             /\ task'[g].udp = task[g].udp
                             /\ task'[g].pc = IF g = f THEN q ELSE task[g].pc
  BY DEF Types, Task
<1>2. byId \subseteq Forwards /\ keyToId \in [Conns \X Keys -> Forwards \cup {None}]
  BY DEF Types
<1>3. \A g \in Forwards : Slot(g)' = Slot(g)
  BY <1>1 DEF Slot
<1>4. Types' /\ Carries'
  BY <1>1 DEF Types, Carries, registry
<1>5. FreshKeys'
  BY <1>1 DEF FreshKeys, registry
<1>6. KeysTrue'
  BY <1>1, <1>2 DEF KeysTrue, Slot, registry
<1>7. IdsTrue'
  BY <1>1, <1>2 DEF IdsTrue, Slot, registry
<1> QED BY <1>4, <1>5, <1>6, <1>7

LEMMA RequestKeeps ==
  ASSUME FInv, NEW f \in Forwards, NEW c \in Conns, NEW udp \in BOOLEAN, Request(f, c, udp)
  PROVE  FInv'
<1> USE DEF FInv
<1> DEFINE r == IF declared THEN [pc |-> "found", conn |-> c, key |-> None, udp |-> udp] ELSE Ended
<1>1. task' = [task EXCEPT ![f] = r] /\ UNCHANGED <<conn, byId, keyToId, connToIds, counter, allocs>>
      /\ task[f].pc = "none"
  BY DEF Request, Over, At, ForwardOnly, registry
<1>2. r \in Task /\ r.key = None /\ r.pc \in {"found", "done"} /\ (r.pc = "found" => r.conn \in Conns)
  BY EndedType DEF Task
<1> HIDE DEF r
<1>3. /\ task' \in [Forwards -> Task] /\ task'[f] = r
      /\ \A g \in Forwards : g # f => task'[g] = task[g]
  BY <1>1, <1>2 DEF Types
<1>4. byId \subseteq Forwards /\ keyToId \in [Conns \X Keys -> Forwards \cup {None}] /\ f \notin byId
  BY <1>1 DEF Types, IdsTrue
<1>5. Types' /\ Carries'
  BY <1>1, <1>2, <1>3 DEF Types, Carries
<1>6. FreshKeys'
  <2> SUFFICES ASSUME NEW d \in Conns, conn[d] # "closed", allocs[d] <= KeySpace
               PROVE  /\ counter[d] = allocs[d] % KeySpace
                      /\ \A g \in Forwards : task'[g].conn = d /\ task'[g].key # None
                                               => task'[g].key < allocs[d]
                      /\ \A g, h \in Forwards : g # h /\ task'[g].conn = d /\ task'[h].conn = d
                                                /\ task'[g].key # None
                                                  => task'[g].key # task'[h].key
    BY <1>1 DEF FreshKeys
  <2>1. /\ counter[d] = allocs[d] % KeySpace
        /\ \A g \in Forwards : task[g].conn = d /\ task[g].key # None => task[g].key < allocs[d]
        /\ \A g, h \in Forwards : g # h /\ task[g].conn = d /\ task[h].conn = d /\ task[g].key # None
                                    => task[g].key # task[h].key
    BY DEF FreshKeys
  <2> QED BY <2>1, <1>2, <1>3
<1>7. KeysTrue'
  BY <1>1, <1>3, <1>4 DEF KeysTrue, Slot
<1>8. IdsTrue'
  BY <1>1, <1>3, <1>4 DEF IdsTrue, Slot
<1> QED BY <1>5, <1>6, <1>7, <1>8

\* A key that the counter has not reached leads nowhere.
LEMMA CounterFree ==
  ASSUME FInv, NEW c \in Conns, conn[c] # "closed", allocs[c] < KeySpace
  PROVE  allocs[c] \in Nat /\ counter[c] = allocs[c] /\ counter[c] \in Free(c)
<1> USE DEF FInv
<1>1. allocs[c] \in Nat /\ KeySpace \in Nat \ {0} /\ counter[c] \in Keys
  BY Constants DEF Types
<1>2. counter[c] = allocs[c]
  BY <1>1, ModSmall DEF FreshKeys
<1>3. keyToId[<<c, counter[c]>>] = None
  <2> DEFINE g == keyToId[<<c, counter[c]>>]
  <2>1. SUFFICES ASSUME g # None PROVE FALSE
    OBVIOUS
  <2>2. g \in byId /\ Slot(g) = <<c, counter[c]>>
    BY <1>1, <2>1 DEF KeysTrue
  <2>3. g \in Forwards /\ task[g].pc \in {"registered", "serving", "telling"}
    BY <2>2 DEF IdsTrue, Types
  <2>4. task[g].conn = c /\ task[g].key = counter[c] /\ task[g].key # None
    BY <1>1, <2>2, <2>3, SlotType, Constants
  <2> HIDE DEF g
  <2>5. task[g].key < allocs[c]
    BY <1>1, <2>3, <2>4 DEF FreshKeys
  <2> QED BY <1>1, <1>2, <2>4, <2>5
<1> QED BY <1>1, <1>2, <1>3 DEF Free

LEMMA AllocKeyKeeps ==
  ASSUME FInv, NEW f \in Forwards, AllocKey(f)
  PROVE  FInv'
<1> USE DEF FInv
<1> DEFINE c == task[f].conn
<1>1. /\ task[f].pc = "found" /\ c \in Conns
      /\ UNCHANGED <<conn, byId, keyToId, connToIds>>
  BY DEF AllocKey, At, ForwardOnly, Carries
<1>2. /\ byId \subseteq Forwards /\ keyToId \in [Conns \X Keys -> Forwards \cup {None}]
      /\ f \notin byId /\ task \in [Forwards -> Task]
  BY <1>1 DEF Types, IdsTrue
<1>3. task[f].key = None
  BY <1>1 DEF Carries
<1>4. CASE Free(c) = {}
  <2>1. task' = [task EXCEPT ![f] = Ended] /\ UNCHANGED <<counter, allocs>>
    BY <1>4 DEF AllocKey, Over
  <2>2. /\ task' \in [Forwards -> Task] /\ task'[f] = Ended
        /\ \A g \in Forwards : g # f => task'[g] = task[g]
    BY <2>1, <1>2, EndedType
  <2>3. Types' /\ Carries'
    BY <1>1, <2>1, <2>2, EndedType DEF Types, Carries
  <2>4. FreshKeys'
    <3> SUFFICES ASSUME NEW d \in Conns, conn[d] # "closed", allocs[d] <= KeySpace
                 PROVE  /\ counter[d] = allocs[d] % KeySpace
                        /\ \A g \in Forwards : task'[g].conn = d /\ task'[g].key # None
                                                 => task'[g].key < allocs[d]
                        /\ \A g, h \in Forwards : g # h /\ task'[g].conn = d /\ task'[h].conn = d
                                                  /\ task'[g].key # None
                                                    => task'[g].key # task'[h].key
      BY <1>1, <2>1 DEF FreshKeys
    <3>1. /\ counter[d] = allocs[d] % KeySpace
          /\ \A g \in Forwards : task[g].conn = d /\ task[g].key # None => task[g].key < allocs[d]
          /\ \A g, h \in Forwards : g # h /\ task[g].conn = d /\ task[h].conn = d /\ task[g].key # None
                                      => task[g].key # task[h].key
      BY DEF FreshKeys
    <3> QED BY <3>1, <2>2, EndedType
  <2>5. KeysTrue'
    BY <1>1, <1>2, <2>2 DEF KeysTrue, Slot
  <2>6. IdsTrue'
    BY <1>1, <1>2, <2>1, <2>2 DEF IdsTrue, Slot
  <2> QED BY <2>3, <2>4, <2>5, <2>6
<1>5. CASE Free(c) # {}
  <2> DEFINE k == NextKey(c)
             a == IF allocs[c] > KeySpace THEN allocs[c] ELSE allocs[c] + 1
  <2>1. /\ task' = [task EXCEPT ![f].pc = "keyed", ![f].key = k]
        /\ counter' = [counter EXCEPT ![c] = After(k)]
        /\ allocs' = [allocs EXCEPT ![c] = a]
    BY <1>5 DEF AllocKey
  <2>2. k \in Keys /\ k # None /\ k \in Nat /\ k < KeySpace
    BY <1>1, <1>5, NextKeyIsFree, Constants
  <2>3. /\ After(k) \in Keys /\ After(k) = (k + 1) % KeySpace
    BY <2>2, Constants DEF After, Keys
  <2>4. allocs[c] \in Nat /\ allocs[c] <= KeySpace + 1 /\ KeySpace \in Nat \ {0}
        /\ a \in 0 .. KeySpace + 1 /\ (a <= KeySpace => a = allocs[c] + 1 /\ allocs[c] < KeySpace)
    BY <1>1, Constants DEF Types
  <2>5. conn[c] # "closed" /\ a <= KeySpace => k = allocs[c] /\ After(k) = a % KeySpace
    BY <1>1, <2>3, <2>4, CounterFree, NextKeyIsCounter
  <2> HIDE DEF k, a
  <2>6. /\ task' \in [Forwards -> Task]
        /\ task'[f].pc = "keyed" /\ task'[f].key = k /\ task'[f].conn = c
        /\ \A g \in Forwards : g # f => task'[g] = task[g]
        /\ \A g \in Forwards : task'[g].conn = task[g].conn
    BY <1>2, <2>1, <2>2 DEF Task
  <2>7. /\ counter' \in [Conns -> Keys] /\ allocs' \in [Conns -> 0 .. KeySpace + 1]
        /\ counter'[c] = After(k) /\ allocs'[c] = a
        /\ \A d \in Conns : d # c => counter'[d] = counter[d] /\ allocs'[d] = allocs[d]
    BY <1>1, <2>1, <2>3, <2>4 DEF Types
  <2>8. Types' /\ Carries'
    BY <1>1, <2>2, <2>6, <2>7 DEF Types, Carries
  <2>9. FreshKeys'
    <3> SUFFICES ASSUME NEW d \in Conns, conn[d] # "closed", allocs'[d] <= KeySpace
                 PROVE  /\ counter'[d] = allocs'[d] % KeySpace
                        /\ \A g \in Forwards : task'[g].conn = d /\ task'[g].key # None
                                                 => task'[g].key < allocs'[d]
                        /\ \A g, h \in Forwards : g # h /\ task'[g].conn = d /\ task'[h].conn = d
                                                  /\ task'[g].key # None
                                                    => task'[g].key # task'[h].key
      BY <1>1 DEF FreshKeys
    <3>1. CASE d # c
      <4>1. /\ counter[d] = allocs[d] % KeySpace
            /\ \A g \in Forwards : task[g].conn = d /\ task[g].key # None => task[g].key < allocs[d]
            /\ \A g, h \in Forwards : g # h /\ task[g].conn = d /\ task[h].conn = d /\ task[g].key # None
                                        => task[g].key # task[h].key
        BY <3>1, <2>7 DEF FreshKeys
      <4> QED BY <4>1, <3>1, <2>6, <2>7
    <3>2. CASE d = c
      <4>1. a <= KeySpace /\ k = allocs[c] /\ After(k) = a % KeySpace /\ a = allocs[c] + 1
            /\ allocs[c] <= KeySpace /\ conn[c] # "closed"
        BY <3>2, <2>4, <2>5, <2>7
      <4>2. /\ \A g \in Forwards : task[g].conn = c /\ task[g].key # None => task[g].key < allocs[c]
            /\ \A g, h \in Forwards : g # h /\ task[g].conn = c /\ task[h].conn = c /\ task[g].key # None
                                        => task[g].key # task[h].key
        BY <4>1, <1>1 DEF FreshKeys
      <4>3. \A g \in Forwards : task[g].key # None => task[g].key \in Nat
        BY TaskFields, Constants
      <4>4. \A g \in Forwards : task'[g].conn = c /\ task'[g].key # None => task'[g].key < a
        BY <4>1, <4>2, <4>3, <2>2, <2>4, <2>6
      <4>5. \A g \in Forwards : g # f /\ task[g].conn = c => task[g].key # k
        BY <4>1, <4>2, <4>3, <2>2
      <4>6. \A g, h \in Forwards : g # h /\ task'[g].conn = c /\ task'[h].conn = c /\ task'[g].key # None
                                        => task'[g].key # task'[h].key
        BY <4>2, <4>5, <2>6
      <4> QED BY <3>2, <4>1, <4>4, <4>6, <2>7
    <3> QED BY <3>1, <3>2
  <2>10. KeysTrue'
    BY <1>1, <1>2, <2>6 DEF KeysTrue, Slot
  <2>11. IdsTrue'
    <3> SUFFICES ASSUME NEW g \in byId
                 PROVE  /\ task'[g].pc \in {"registered", "serving", "telling"}
                        /\ g \in connToIds[task'[g].conn]
                        /\ task'[g].udp /\ conn[task'[g].conn] = "open"
                             /\ allocs'[task'[g].conn] <= KeySpace => keyToId[Slot(g)'] = g
      BY <1>1 DEF IdsTrue, Slot
    <3>1. g \in Forwards /\ task'[g] = task[g] /\ Slot(g)' = Slot(g)
      BY <1>2, <2>6 DEF Slot
    <3>2. task[g].conn \in Conns
      BY <3>1, SlotType DEF IdsTrue
    <3>3. allocs'[task[g].conn] <= KeySpace => allocs[task[g].conn] <= KeySpace
      BY <3>2, <2>4, <2>7
    <3> QED BY <3>1, <3>3 DEF IdsTrue
  <2> QED BY <2>8, <2>9, <2>10, <2>11
<1> QED BY <1>4, <1>5

LEMMA RegisterKeeps ==
  ASSUME FInv, NEW f \in Forwards, Register(f)
  PROVE  FInv'
<1> USE DEF FInv
<1>1. /\ task[f].pc = "keyed" /\ task' = [task EXCEPT ![f].pc = "registered"]
      /\ byId' = byId \cup {f} /\ UNCHANGED <<conn, counter, allocs>>
      /\ connToIds' = [connToIds EXCEPT ![task[f].conn] = @ \cup {f}]
      /\ keyToId' = IF task[f].udp THEN [keyToId EXCEPT ![Slot(f)] = f] ELSE keyToId
  BY DEF Register, Insert, At, Goto, ForwardOnly
<1>2. /\ task[f].conn \in Conns /\ task[f].key \in Keys /\ Slot(f) \in Conns \X Keys
      /\ Slot(f) = <<task[f].conn, task[f].key>>
  BY <1>1, SlotType
<1>3. /\ byId \subseteq Forwards /\ keyToId \in [Conns \X Keys -> Forwards \cup {None}]
      /\ task \in [Forwards -> Task] /\ f \notin byId
      /\ connToIds \in [Conns -> SUBSET Forwards]
  BY <1>1 DEF Types, IdsTrue
<1>4. /\ task' \in [Forwards -> Task]
      /\ \A g \in Forwards : /\ task'[g].conn = task[g].conn /\ task'[g].key = task[g].key
                             /\ task'[g].udp = task[g].udp
                             /\ task'[g].pc = IF g = f THEN "registered" ELSE task[g].pc
  BY <1>1, <1>3 DEF Task
<1>5. \A g \in Forwards : Slot(g)' = Slot(g)
  BY <1>4 DEF Slot
<1>6. /\ keyToId' \in [Conns \X Keys -> Forwards \cup {None}]
      /\ task[f].udp => keyToId'[Slot(f)] = f
      /\ \A x \in Conns \X Keys : keyToId'[x] = keyToId[x] \/ (x = Slot(f) /\ keyToId'[x] = f /\ task[f].udp)
  BY <1>1, <1>2, <1>3
<1>7. /\ connToIds' \in [Conns -> SUBSET Forwards] /\ f \in connToIds'[task[f].conn]
      /\ \A c \in Conns : connToIds[c] \subseteq connToIds'[c]
  BY <1>1, <1>2, <1>3
<1>8. Types' /\ Carries'
  BY <1>1, <1>3, <1>4, <1>6, <1>7 DEF Types, Carries
<1>9. FreshKeys'
  BY <1>1, <1>4 DEF FreshKeys
<1>10. KeysTrue'
  <2> SUFFICES ASSUME NEW x \in Conns \X Keys, keyToId'[x] # None
               PROVE  keyToId'[x] \in byId' /\ task'[keyToId'[x]].udp /\ Slot(keyToId[x])' = x
    BY DEF KeysTrue, Slot
  <2>1. CASE keyToId'[x] = keyToId[x]
    <3>1. keyToId[x] \in byId /\ task[keyToId[x]].udp /\ Slot(keyToId[x]) = x
      BY <2>1 DEF KeysTrue
    <3>2. keyToId[x] \in Forwards
      BY <3>1, <1>3
    <3> QED BY <2>1, <3>1, <3>2, <1>1, <1>4 DEF Slot
  <2>2. CASE x = Slot(f) /\ keyToId'[x] = f /\ task[f].udp
    BY <2>2, <1>1, <1>4 DEF Slot
  <2> QED BY <2>1, <2>2, <1>6
<1>11. IdsTrue'
  <2> SUFFICES ASSUME NEW g \in byId'
               PROVE  /\ task'[g].pc \in {"registered", "serving", "telling"}
                      /\ g \in connToIds'[task[g].conn]
                      /\ task[g].udp /\ conn[task[g].conn] = "open"
                           /\ allocs[task[g].conn] <= KeySpace => keyToId'[Slot(g)] = g
    BY <1>1, <1>3, <1>4, <1>5 DEF IdsTrue, Slot
  <2>1. CASE g = f
    BY <2>1, <1>4, <1>6, <1>7
  <2>2. CASE g # f
    <3>1. g \in byId /\ g \in Forwards /\ task'[g].pc = task[g].pc
      BY <2>2, <1>1, <1>3, <1>4
    <3>2. /\ task[g].pc \in {"registered", "serving", "telling"} /\ g \in connToIds[task[g].conn]
          /\ task[g].udp /\ conn[task[g].conn] = "open" /\ allocs[task[g].conn] <= KeySpace
               => keyToId[Slot(g)] = g
      BY <3>1 DEF IdsTrue
    <3>3. task[g].conn \in Conns /\ task[g].key \in Keys /\ Slot(g) \in Conns \X Keys
          /\ Slot(g) = <<task[g].conn, task[g].key>> /\ task[g].key # None
      BY <3>1, <3>2, SlotType, Constants
    <3>4. ASSUME conn[task[g].conn] = "open", allocs[task[g].conn] <= KeySpace
          PROVE  Slot(g) # Slot(f)
      <4>1. task[g].conn = task[f].conn => task[g].key # task[f].key
        BY <2>2, <3>1, <3>3, <3>4 DEF FreshKeys
      <4> QED BY <4>1, <3>3, <1>2
    <3> QED BY <3>1, <3>2, <3>3, <3>4, <1>6, <1>7
  <2> QED BY <2>1, <2>2
<1> QED BY <1>8, <1>9, <1>10, <1>11

\* A session that ends takes its entry along, if it has one.
LEMMA EndKeeps ==
  ASSUME FInv, NEW f \in Forwards, Forget({f}), Over(f), UNCHANGED <<conn, counter, allocs>>
  PROVE  FInv'
<1>1. task \in [Forwards -> Task]
  BY DEF FInv, Types
<1>2. /\ task' \in [Forwards -> Task]
      /\ \A g \in Forwards : task'[g] = task[g] \/ (g \in {f} /\ task'[g] = Ended)
  BY <1>1, EndedType DEF Over
<1> QED BY <1>2, ForgetKeeps

LEMMA TeardownKeeps ==
  ASSUME FInv, NEW c \in Conns, Teardown(c)
  PROVE  FInv'
<1> USE DEF FInv
<1> DEFINE F == connToIds[c]
<1>1. /\ conn' = [conn EXCEPT ![c] = "closed"] /\ byId' = byId \ F
      /\ connToIds' = [connToIds EXCEPT ![c] = {}]
      /\ keyToId' = [x \in Conns \X Keys |->
                       IF \E f \in F \cap byId : Slot(f) = x THEN None ELSE keyToId[x]]
      /\ counter' = [counter EXCEPT ![c] = 0] /\ UNCHANGED <<task, allocs>>
  BY DEF Teardown
<1>2. F \subseteq Forwards
  BY DEF Types
<1>3. keyToId' \in [Conns \X Keys -> Forwards \cup {None}]
  BY <1>1 DEF Types
<1>4. 0 \in Keys
  BY Constants DEF Keys
<1>5. Types'
  BY <1>1, <1>3, <1>4 DEF Types
<1>6. \A f \in byId \ F, d \in Conns : f \in connToIds[d] => f \in connToIds'[d]
  BY <1>1 DEF Types
<1>7. \A d \in Conns : conn'[d] = "closed" \/ (conn'[d] = conn[d] /\ counter'[d] = counter[d])
  BY <1>1 DEF Types
<1>8. Removes(F)
  BY <1>1, <1>2, <1>6, <1>7 DEF Removes
<1> QED BY <1>5, <1>8, RemovesKeeps

LEMMA LoseKeeps ==
  ASSUME FInv, NEW c \in Conns, Lose(c)
  PROVE  FInv'
<1> USE DEF FInv
<1>1. /\ conn[c] = "open" /\ conn' = [conn EXCEPT ![c] = "lost"]
      /\ UNCHANGED <<task, byId, keyToId, connToIds, counter, allocs>>
  BY DEF Lose, forwardVars, registry
<1>2. /\ conn' \in [Conns -> {"open", "lost", "closed"}]
      /\ \A d \in Conns : /\ conn'[d] = "open" => conn[d] = "open"
                          /\ conn'[d] # "closed" => conn[d] # "closed"
  BY <1>1 DEF Types
<1>3. Types' /\ Carries' /\ KeysTrue'
  BY <1>1, <1>2 DEF Types, Carries, KeysTrue, Slot
<1>4. FreshKeys'
  BY <1>1, <1>2 DEF FreshKeys
<1>5. \A f \in byId : task[f].conn \in Conns
  BY SlotType DEF IdsTrue, Types
<1>6. IdsTrue'
  BY <1>1, <1>2, <1>5 DEF IdsTrue, Slot
<1> QED BY <1>3, <1>4, <1>6

\* Before the first request, and after a crash, nothing is registered.
LEMMA EmptyKeeps ==
  ASSUME conn' = [c \in Conns |-> "open"],
         task' \in [Forwards -> {NoTask, Ended}],
         byId' = {}, keyToId' = [x \in Conns \X Keys |-> None],
         connToIds' = [c \in Conns |-> {}], counter' = [c \in Conns |-> 0],
         allocs' = [c \in Conns |-> 0]
  PROVE  FInv'
<1>1. 0 \in Keys /\ 0 \in 0 .. KeySpace + 1 /\ 0 % KeySpace = 0
  BY Constants, ModSmall DEF Keys
<1>2. \A f \in Forwards : task'[f] \in Task /\ task'[f].key = None /\ task'[f].conn = None
                          /\ task'[f].pc \in {"none", "done"}
  BY EndedType
<1>3. Types'
  BY <1>1, <1>2 DEF Types
<1>4. Carries' /\ KeysTrue' /\ IdsTrue'
  BY <1>2 DEF Carries, KeysTrue, IdsTrue
<1>5. FreshKeys'
  BY <1>1, <1>2 DEF FreshKeys
<1> QED BY <1>3, <1>4, <1>5 DEF FInv

-----------------------------------------------------------------------------
(* The registry of shells.                                                 *)

\* A shell's session moves on; it is listed only where it may be.
LEMMA MoveShell ==
  ASSUME SInv, NEW s \in Shells, NEW q, Step(s, q),
         q \in {"closure", "prepared", "ready", "greeting", "running"} \cup Alive,
         sessions' \subseteq sessions \cup {s}, s \in sessions' => q \in Alive
  PROVE  SInv'
<1>1. /\ shell' \in [Shells -> ShellTasks] /\ shell'[s].pc = q
      /\ \A r \in Shells : r # s => shell'[r] = shell[r]
  BY DEF SInv, Step, ShellTasks, Alive
<1> QED BY <1>1 DEF SInv

\* It ends after it has left the registry.
LEMMA EndShell ==
  ASSUME SInv, NEW s \in Shells, Done(s), sessions' \subseteq sessions, s \notin sessions'
  PROVE  SInv'
<1>1. shell[s].kind \in {"shell", "volume", None}
  BY DEF SInv, ShellTasks
<1>2. ShellEnded(s) \in ShellTasks
  BY <1>1 DEF ShellEnded, NoShell, ShellTasks
<1>3. shell' \in [Shells -> ShellTasks] /\ \A r \in Shells : r # s => shell'[r] = shell[r]
  BY <1>2 DEF SInv, Done
<1> QED BY <1>3 DEF SInv

LEMMA ShellStep ==
  ASSUME SInv, NEW s \in Shells,
         \/ ShellTask(s) \/ ShellWrites(s) \/ RunClosure(s) \/ HangUp(s) \/ Reap(s)
         \/ StopShell(s) \/ Exits(s)
         \/ \E c \in Conns, k \in {"shell", "volume"} : OpenShell(s, c, k)
  PROVE  SInv' /\ UNCHANGED <<conn, forwardVars>>
<1>0. UNCHANGED <<conn, forwardVars>>
  BY DEF ShellTask, ShellWrites, Greet, MakeNetwork, Exec, Enter, Attach, Break, Close, RunClosure,
         Write, Written, WriteFails, FirstWriteFails, HangUp, Reap, StopShell, Exits, OpenShell, ShellOnly
<1> SUFFICES SInv'
  BY <1>0
<1>1. s \in sessions => shell[s].pc \in Alive
  BY DEF SInv
<1>2. CASE Greet(s)
  <2>1. s \notin sessions /\ sessions' = sessions
    BY <1>1, <1>2 DEF Greet, In, Alive
  <2>2. CASE Done(s)
    BY <2>1, <2>2, EndShell
  <2>3. CASE Step(s, IF shell[s].kind = "shell" THEN "closure" ELSE "ready")
    <3>1. PICK q \in {"closure", "ready"} : Step(s, q)
      BY <2>3
    <3> QED BY <2>1, <3>1, MoveShell
  <2> QED BY <1>2, <2>2, <2>3 DEF Greet
<1>3. CASE MakeNetwork(s)
  <2>1. s \notin sessions /\ sessions' = sessions
    BY <1>1, <1>3 DEF MakeNetwork, In, Alive
  <2>2. CASE Done(s)
    BY <2>1, <2>2, EndShell
  <2>3. CASE Step(s, IF shell[s].kind = "shell" THEN "ready" ELSE "greeting")
    <3>1. PICK q \in {"ready", "greeting"} : Step(s, q)
      BY <2>3
    <3> QED BY <2>1, <3>1, MoveShell
  <2> QED BY <1>3, <2>2, <2>3 DEF MakeNetwork
<1>4. CASE Exec(s) \/ RunClosure(s)
  <2>1. s \notin sessions /\ sessions' = sessions
    BY <1>1, <1>4 DEF Exec, RunClosure, In, Alive
  <2>2. CASE Done(s)
    BY <2>1, <2>2, EndShell
  <2>3. CASE Step(s, "running")
    BY <2>1, <2>3, MoveShell
  <2>4. CASE Step(s, "prepared")
    BY <2>1, <2>4, MoveShell
  <2> QED BY <1>4, <2>2, <2>3, <2>4 DEF Exec, RunClosure
<1>5. CASE Enter(s)
  BY <1>5, MoveShell DEF Enter, Alive
<1>6. CASE Attach(s)
  BY <1>6, MoveShell DEF Attach, Alive
<1>7. CASE Break(s) \/ HangUp(s) \/ Written(s) \/ WriteFails(s)
             \/ \E p \in {"typing", "printing"} : Write(s, p)
  <2>1. /\ \E q \in {"serving", "typing", "printing", "closing"} : Step(s, q)
        /\ sessions' = sessions
    BY <1>7 DEF Break, HangUp, Written, WriteFails, Write
  <2> QED BY <2>1, MoveShell DEF Alive
<1>8. CASE Close(s) \/ Reap(s) \/ FirstWriteFails(s)
  BY <1>8, EndShell DEF Close, Reap, FirstWriteFails
<1>9. CASE StopShell(s) \/ Exits(s)
  BY <1>9 DEF StopShell, Exits, SInv
<1>10. ASSUME NEW c \in Conns, NEW k \in {"shell", "volume"}, OpenShell(s, c, k)
       PROVE  SInv'
  <2> DEFINE r == [pc |-> IF k = "shell" THEN "greeting" ELSE "prepared", conn |-> c, kind |-> k]
  <2>1. shell' = [shell EXCEPT ![s] = r] /\ sessions' = sessions /\ s \notin sessions
    BY <1>1, <1>10 DEF OpenShell, In, Alive
  <2>2. r \in ShellTasks
    BY DEF ShellTasks
  <2> HIDE DEF r
  <2> QED BY <2>1, <2>2 DEF SInv
<1> QED BY <1>2, <1>3, <1>4, <1>5, <1>6, <1>7, <1>8, <1>9, <1>10
       DEF ShellTask, ShellWrites

-----------------------------------------------------------------------------

LEMMA InvInit == Init => FInv /\ SInv
<1> SUFFICES ASSUME Init PROVE FInv /\ SInv
  OBVIOUS
<1>1. FInv
  <2>1. 0 \in Keys /\ 0 \in 0 .. KeySpace + 1 /\ 0 % KeySpace = 0
    BY Constants, ModSmall DEF Keys
  <2>2. \A f \in Forwards : task[f] \in Task /\ task[f].key = None /\ task[f].conn = None
                            /\ task[f].pc = "none"
    BY EndedType DEF Init
  <2>3. Types
    BY <2>1, <2>2 DEF Types, Init
  <2>4. Carries /\ KeysTrue /\ IdsTrue
    BY <2>2 DEF Carries, KeysTrue, IdsTrue, Init
  <2>5. FreshKeys
    BY <2>1, <2>2 DEF FreshKeys, Init
  <2> QED BY <2>3, <2>4, <2>5 DEF FInv
<1>2. NoShell \in ShellTasks
  BY DEF NoShell, ShellTasks
<1>3. SInv
  BY <1>2 DEF Init, SInv
<1> QED BY <1>1, <1>3

LEMMA InvStep == FInv /\ SInv /\ [Next]_vars => FInv' /\ SInv'
<1> SUFFICES ASSUME FInv, SInv, [Next]_vars PROVE FInv' /\ SInv'
  OBVIOUS
<1> DEFINE Same == UNCHANGED <<conn, task, byId, keyToId, connToIds, counter, allocs>>
<1>1. ASSUME Same PROVE FInv'
  BY <1>1 DEF FInv, Types, Carries, FreshKeys, KeysTrue, IdsTrue, Slot
<1>2. ASSUME UNCHANGED <<shell, sessions>> PROVE SInv'
  BY <1>2 DEF SInv
<1>3. \A f \in byId : f \in Forwards
  BY DEF FInv, Types
<1>4. ASSUME NEW f \in Forwards,
             \/ ForwardTask(f) \/ ForwardWrites(f) \/ Leave(f) \/ StopForward(f)
             \/ RelayEnds(f) \/ RelayFails(f)
             \/ \E c \in Conns, udp \in BOOLEAN : Request(f, c, udp)
      PROVE  FInv' /\ SInv'
  <2>1. UNCHANGED <<conn, shell, sessions>>
    BY <1>4 DEF ForwardTask, ForwardWrites, Tell, Told, TellFails, AllocKey, Register,
                Reply, Finish, Leave, EndSession, StopForward,
                RelayEnds, RelayFails, Request, ForwardOnly, shellVars
  <2>2. SUFFICES FInv'
    BY <2>1, <1>2
  <2>3. CASE AllocKey(f)
    BY <2>3, AllocKeyKeeps
  <2>4. CASE Register(f)
    BY <2>4, RegisterKeeps
  <2>5. CASE Reply(f)
    <3>1. CASE ReplyFails(f)
      BY <3>1, <2>1, EndKeeps DEF ReplyFails
    <3>2. CASE Goto(f, "serving") /\ UNCHANGED <<registry, relays, allocs>>
      BY <3>2, <2>1, <2>5, MoveKeeps DEF Goto, Reply, At
    <3> QED BY <2>5, <3>1, <3>2 DEF Reply
  <2>6. CASE Finish(f) \/ Leave(f) \/ TellFails(f)
    BY <2>6, <2>1, EndKeeps DEF Finish, Leave, TellFails, EndSession
  <2>7. CASE StopForward(f)
    <3>1. Forget({f}) /\ UNCHANGED <<task, counter, allocs>>
      BY <2>7 DEF StopForward
    <3>2. task' \in [Forwards -> Task]
      BY <3>1 DEF FInv, Types
    <3> QED BY <3>1, <3>2, <2>1, ForgetKeeps
  <2>8. CASE RelayEnds(f) \/ RelayFails(f)
    BY <2>8, <2>1, <1>1 DEF RelayEnds, RelayFails, registry
  <2>9. CASE \E c \in Conns, udp \in BOOLEAN : Request(f, c, udp)
    BY <2>9, RequestKeeps
  <2>10. CASE Tell(f) \/ Told(f)
    <3>1. PICK q \in {"serving", "telling"} : Goto(f, q)
      BY <2>10 DEF Tell, Told
    <3>2. task[f].pc \in {"serving", "telling"} /\ UNCHANGED <<registry, allocs>>
      BY <2>10 DEF Tell, Told, At
    <3> QED BY <3>1, <3>2, <2>1, MoveKeeps DEF Goto
  <2> QED BY <1>4, <2>3, <2>4, <2>5, <2>6, <2>7, <2>8, <2>9, <2>10 DEF ForwardTask, ForwardWrites
<1>5. ASSUME NEW s \in Shells,
             \/ ShellTask(s) \/ ShellWrites(s) \/ RunClosure(s) \/ HangUp(s) \/ Reap(s)
             \/ StopShell(s) \/ Exits(s)
             \/ \E c \in Conns, k \in {"shell", "volume"} : OpenShell(s, c, k)
      PROVE  FInv' /\ SInv'
  <2>1. SInv' /\ UNCHANGED <<conn, forwardVars>>
    BY <1>5, ShellStep
  <2> QED BY <2>1, <1>1 DEF forwardVars, registry
<1>6. ASSUME NEW c \in Conns, Lose(c) \/ Teardown(c)
      PROVE  FInv' /\ SInv'
  <2>1. UNCHANGED <<shell, sessions>>
    BY <1>6 DEF Lose, Teardown, shellVars
  <2> QED BY <1>6, <2>1, <1>2, LoseKeeps, TeardownKeeps
<1>7. CASE Undeclare \/ Sweep
  <2>1. UNCHANGED <<conn, forwardVars, shell, sessions>>
    BY <1>7 DEF Undeclare, Sweep, Snapshot, List, ListFails, SweepEnds, Remove, RemoveFails, shellVars
  <2> QED BY <2>1, <1>1, <1>2 DEF forwardVars, registry
<1>8. CASE RemoveStale
  <2>1. Forget(byId) /\ UNCHANGED <<conn, task, counter, allocs, shell, sessions>>
    BY <1>8 DEF RemoveStale, shellVars
  <2>2. byId \subseteq Forwards /\ task' \in [Forwards -> Task]
    BY <2>1 DEF FInv, Types
  <2> QED BY <2>1, <2>2, <1>2, ForgetKeeps
<1>9. CASE Crash
  <2>1. task' \in [Forwards -> {NoTask, Ended}]
    BY <1>9 DEF Crash
  <2>2. FInv'
    BY <2>1, <1>9, EmptyKeeps DEF Crash
  <2>3. \A s \in Shells : ShellEnded(s) \in ShellTasks
    <3>1. \A s \in Shells : shell[s].kind \in {"shell", "volume", None}
      BY DEF SInv, ShellTasks
    <3> QED BY <3>1 DEF ShellEnded, NoShell, ShellTasks
  <2>4. NoShell \in ShellTasks
    BY DEF NoShell, ShellTasks
  <2>5. shell' \in [Shells -> ShellTasks] /\ sessions' = {}
    BY <1>9, <2>3, <2>4 DEF Crash
  <2> QED BY <2>2, <2>5 DEF SInv
<1>10. CASE UNCHANGED vars
  BY <1>10, <1>1, <1>2 DEF vars, forwardVars, registry, shellVars
<1> QED BY <1>4, <1>5, <1>6, <1>7, <1>8, <1>9, <1>10 DEF Next

\* A datagram is never handed to the wrong forward, and a forward of an open
\* connection that has not used up its keys receives its own: whatever comes and
\* goes between alloc_key and insert, the three indexes of ForwardRegistry and the
\* sessions agree, and the shells of ShellRegistry are alive.
THEOREM RegistriesAgree == Spec => []RegistryTrue
<1>1. FInv /\ SInv => RegistryTrue
  <2> SUFFICES ASSUME FInv, SInv PROVE RegistryTrue
    OBVIOUS
  <2>1. \A c \in Conns, k \in Keys : keyToId[<<c, k>>] # None =>
           /\ keyToId[<<c, k>>] \in byId /\ task[keyToId[<<c, k>>]].udp
           /\ Slot(keyToId[<<c, k>>]) = <<c, k>>
    BY DEF FInv, KeysTrue
  <2> QED BY <2>1 DEF FInv, IdsTrue, SInv, Alive, RegistryTrue
<1> QED BY <1>1, InvInit, InvStep, PTL DEF Spec
=============================================================================
