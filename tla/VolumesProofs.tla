--------------------------- MODULE VolumesProofs ---------------------------
(***************************************************************************)
(* Host-backed volumes: data is never lost (NoDataLost), and what is on    *)
(* disk and what is recorded of it agree (Listed), for any number of       *)
(* requests, volumes, pieces of data, failing calls and restarts.          *)
(*                                                                         *)
(* The sweep of a start removes storage under the reserved names that has  *)
(* no row.  That is safe because nobody but a delete takes such a row away *)
(* and by then the directory is gone (Reserves).  The agreement rests on   *)
(* the names: a request that did not race another one is alone with the    *)
(* names it is about (Alone), so what it found there stays true until its  *)
(* next step (Midway), and all the others are as they should be (SitesAgree,*)
(* HeldAgree).                                                             *)
(***************************************************************************)
EXTENDS Volumes, TLAPS

-----------------------------------------------------------------------------
(* What the processes are about.                                           *)

\* A handler: the request it serves, the steps that takes, the names it is about.
HandlerShape(h) ==
  \/ job[h] = Idle
  \/ /\ job[h].kind = "delete_held" /\ job[h].pc \in {"rm_held", "rm_meta"}
     /\ job[h].site = None /\ job[h].src = None /\ job[h].id \in 1..used
  \/ /\ job[h].kind = "restore"
     /\ job[h].pc \in {"vacant", "restore", "move", "restored", "insert"}
     /\ job[h].site \in Sites \ Reserved /\ job[h].src = None /\ job[h].id \in 1..used
  \/ /\ job[h].kind = "create" /\ job[h].pc \in {"storage", "insert"}
     /\ job[h].site \in Sites \ Reserved /\ job[h].src = None /\ job[h].id = None
  \/ /\ job[h].kind = "bind" /\ job[h].pc = "insert"
     /\ job[h].site \in Sites \ Reserved /\ job[h].src = None /\ job[h].id = None
  \/ /\ job[h].kind = "delete" /\ job[h].pc \in {"look", "hold", "rm_site", "meta", "unrow"}
     /\ job[h].site \in Sites /\ job[h].src = None
     /\ IF job[h].pc = "meta" THEN job[h].id \in 1..used ELSE job[h].id = None
  \/ /\ job[h].kind = "snapshot" /\ job[h].pc \in {"resolve", "snap", "insert"}
     /\ job[h].site \in Sites \ Reserved /\ job[h].src \in Sites \cup {App} /\ job[h].id = None
  \/ /\ job[h].kind = "promote" /\ job[h].pc \in {"look", "snap", "insert"}
     /\ job[h].site \in Sites \ Reserved /\ job[h].src \in Sites /\ job[h].id = None
  \/ /\ job[h].kind = "update" /\ job[h].pc \in {"define", "hold", "meta", "forget"}
     /\ job[h].site = None /\ job[h].src = None /\ job[h].id \in (1..used) \cup {None}
     /\ job[h].pc = "meta" => job[h].id # None
     /\ job[h].id # None => job[h].pc = "meta" \/ torn

\* The tick's volume phase.  A failed hold leaves its id behind.
TickShape ==
  /\ job[Tick].pc \in {"idle", "done", "observe", "hold", "meta", "migrate", "rm", "mv", "create"}
  /\ job[Tick].kind \in {None, "Ready", "Unscheduled", "recreate", "stop", "displace"}
  /\ job[Tick].site = None /\ job[Tick].src = None
  /\ job[Tick].id \in (1..used) \cup {None}
  /\ job[Tick].pc = "meta" => job[Tick].id # None
  /\ job[Tick].id # None => job[Tick].pc = "meta" \/ torn
  /\ job[Tick].pc \in {"hold", "meta"} => job[Tick].kind \in {"recreate", "stop", "displace"}

Pcs == {"idle", "done", "observe", "hold", "meta", "migrate", "rm", "mv", "create", "rm_held",
        "rm_meta", "vacant", "restore", "move", "restored", "insert", "storage", "look", "rm_site",
        "unrow", "resolve", "snap", "define", "forget"}
Kinds == {"delete_held", "restore", "create", "bind", "delete", "snapshot", "promote", "update",
          "recreate", "stop", "displace", "Ready", "Unscheduled"}
Job == [pc : Pcs, kind : Kinds \cup {None}, site : Sites \cup {None},
        src : Sites \cup {App, None}, id : Held \cup {None}]

Shapes == job \in [Procs -> Job] /\ TickShape /\ \A h \in Handlers : HandlerShape(h)

\* An id that was not generated yet has no directory.
Fresh == \A i \in Held : i > used => ~Exists(i)

\* Data, and containers, are where a directory is.
Used(p) == (\E t \in Tokens : at[t] = p) \/ (\E c \in Pods : mount[c] = p)
Real == \A p \in Places : Used(p) => Exists(p)

RowLast(p) == job[p].kind = "delete" /\ job[p].pc \in {"meta", "unrow"} /\ job[p].site \in Reserved
                => ~Exists(job[p].site)

\* The reserved names: what is used has a row, which is not a bind's, and a delete
\* takes the row away when the directory is gone.
Reserves ==
  /\ \A r \in Reserved : row[r] # "bind" /\ (Used(r) => row[r] # None)
  /\ \A p \in Procs : RowLast(p)

NothingLost == ~Used(Lost)

\* The types of what the argument is about.
StoreOK ==
  /\ disk \in [Places -> Dirs \cup {None}]
  /\ at \in [Tokens -> Places \cup Gone \cup {None}]
  /\ mount \in [Pods -> Places \cup Gone \cup {None}]
Typed ==
  /\ StoreOK /\ used \in 0..MaxHeld /\ meta \subseteq 1..used
  /\ row \in [Sites -> {None, "managed", "bind", "snapshot"}]
  /\ btrfs \in BOOLEAN /\ scene \in Scenes

VInv == Typed /\ Shapes /\ Fresh /\ Real /\ Reserves /\ NothingLost

-----------------------------------------------------------------------------
(* Disk and records.                                                       *)

\* The legacy path has something only where it had at the start.
OldOnly == ~scene.old => ~Exists(Legacy) /\ job[Tick].pc # "rm"

\* No two processes are about one name.
Alone == \A p, q \in Procs : p # q => Touched(p) \cap Touched(q) \subseteq {App}

\* What a request found, or did, at its names so far.
Midway(p) ==
  LET s == job[p].site
      i == job[p].id
  IN /\ AtOf(p, "restore", "restore") => row[s] = None
     /\ AtOf(p, "move", "restore") => row[s] = None /\ ~Exists(s)
     /\ AtOf(p, "restored", "restore") => row[s] = None /\ Exists(s) /\ ~Exists(i) /\ i \in meta
     /\ AtOf(p, "insert", "restore") => row[s] = None /\ Exists(s) /\ ~Exists(i) /\ i \notin meta
     /\ At(p, "insert") /\ job[p].kind \in {"create", "snapshot", "promote"} => Exists(s)
     /\ AtOf(p, "meta", "delete") => ~Exists(s)
     /\ AtOf(p, "unrow", "delete") => ~Exists(s) \/ (row[s] = "bind" /\ ~Used(s))
     /\ AtOf(p, "rm_site", "delete") => row[s] = "snapshot"
     /\ At(p, "rm_meta") => ~Exists(i)
     /\ At(p, "meta") => Exists(i) /\ i \notin meta

\* The steps between the two halves of what a request does to a name, to an id.
HalfSite(p) == \/ job[p].kind = "restore" /\ job[p].pc \in {"restored", "insert"}
               \/ job[p].kind = "delete" /\ job[p].pc \in {"meta", "unrow"}
HalfId(p) == \/ job[p].kind = "restore" /\ job[p].pc \in {"restored", "insert"}
             \/ job[p].pc \in {"meta", "rm_meta"}

SiteAgrees(s) == /\ row[s] \in {"managed", "snapshot"} => Exists(s)
                 /\ Used(s) => row[s] = "managed"
IdAgrees(i) == Exists(i) <=> i \in meta

\* Everything else is as it should be.
SitesAgree == \A s \in Sites : (\A p \in Procs : job[p].site = s => ~HalfSite(p)) => SiteAgrees(s)
HeldAgree == \A i \in 1..used : (\A p \in Procs : job[p].id = i => ~HalfId(p)) => IdAgrees(i)

NothingStrays == scene.old \/ ~Used(Strayed)

Agree == Alone /\ (\A p \in Procs : Midway(p)) /\ SitesAgree /\ HeldAgree

LInv == OldOnly /\ (~raced /\ ~torn => Agree /\ NothingStrays)

-----------------------------------------------------------------------------
(* What the file system's calls come to.                                   *)

\* A place where a step leaves everything as it was; a container that is there,
\* or a managed volume that gets one, makes no difference.
Kept(x) ==
  /\ Exists(x)' <=> Exists(x)
  /\ Used(x)' => Used(x) \/ (x \in Sites /\ row[x] = "managed" /\ Exists(x))
  /\ x \in Sites => row'[x] = row[x]
  /\ x \in meta' <=> x \in meta

\* The places, the fates and None are told apart.
LEMMA Apart ==
  /\ \A p \in Places : p \notin Gone /\ p # None
  /\ App \in Places /\ Legacy \in Places /\ App # Legacy
  /\ Sites \subseteq Places /\ Held \subseteq Places /\ Sites \cap Held = {}
  /\ App \notin Sites \cup Held /\ Legacy \notin Sites \cup Held
  /\ None \notin Sites \cup Held \cup Dirs /\ Reserved \subseteq Sites
  /\ Lost \in Gone /\ Strayed \in Gone /\ Confirmed \in Gone /\ None \notin Gone
  /\ Strayed # Lost /\ Confirmed # Lost /\ Confirmed # Strayed
  /\ Tick \notin Handlers /\ Tick \in Procs /\ Handlers \subseteq Procs /\ Held \subseteq Nat
<1>1. Held \subseteq Nat /\ Handlers \subseteq Nat /\ Reserved \subseteq Sites
  BY VolumesAssumption DEF Held
<1>2. \A x \in {App, Legacy, Confirmed, Strayed, Lost, None} : x \notin Sites /\ x \notin Nat
  BY PlacesAssumption
<1>3. /\ App \notin {Legacy, Confirmed, Strayed, Lost, None}
      /\ Legacy \notin {Confirmed, Strayed, Lost, None}
      /\ Confirmed \notin {Strayed, Lost, None} /\ Strayed \notin {Lost, None} /\ Lost # None
      /\ None \notin Dirs /\ Tick \notin Nat /\ Sites \cap Nat = {}
  BY PlacesAssumption DEF Dirs
<1>4. \A p \in Places : p \notin Gone /\ p # None
  BY <1>1, <1>2, <1>3 DEF Places, Gone
<1>5. /\ App \in Places /\ Legacy \in Places /\ Sites \subseteq Places /\ Held \subseteq Places
      /\ Lost \in Gone /\ Strayed \in Gone /\ Confirmed \in Gone
      /\ Tick \in Procs /\ Handlers \subseteq Procs
  BY DEF Places, Gone, Procs
<1>6. Sites \cap Held = {} /\ App \notin Held /\ Legacy \notin Held /\ None \notin Held
  BY <1>1, <1>2, <1>3
<1>7. None \notin Gone /\ Tick \notin Handlers
  BY <1>1, <1>3 DEF Gone
<1> QED BY <1>1, <1>2, <1>3, <1>4, <1>5, <1>6, <1>7

LEMMA RenameEffect ==
  ASSUME StoreOK, NEW from \in Places, NEW to \in Places, from # to, Exists(from), Rename(from, to)
  PROVE  /\ StoreOK'
         /\ ~Exists(from)' /\ Exists(to)' /\ ~Used(from)'
         /\ \A x \in Places \ {from, to} : (Exists(x)' <=> Exists(x)) /\ (Used(x)' <=> Used(x))
         /\ Used(Lost)' => Used(Lost)
         /\ Used(Strayed)' => Used(Strayed) \/ Used(to)
<1> DEFINE D == Dirs \cup {None}
           P == Places \cup Gone \cup {None}
<1>1. disk \in [Places -> D] /\ at \in [Tokens -> P] /\ mount \in [Pods -> P]
  BY DEF StoreOK
<1>2. /\ disk' = [disk EXCEPT ![to] = disk[from], ![from] = None]
      /\ at' = [t \in Tokens |-> IF at[t] = from THEN to ELSE at[t]]
      /\ mount' = [c \in Pods |-> IF mount[c] = from THEN to
                                  ELSE IF mount[c] = to THEN Strayed ELSE mount[c]]
  BY DEF Rename
<1>3. None \in D /\ disk[from] \in D /\ to \in P /\ Strayed \in P
  BY <1>1, Apart
<1>4. Strayed # Lost /\ Lost \notin Places /\ Strayed \notin Places
  BY Apart
<1> HIDE DEF D, P
<1>5. StoreOK'
  <2>1. disk' \in [Places -> D] /\ at' \in [Tokens -> P] /\ mount' \in [Pods -> P]
    BY <1>1, <1>2, <1>3
  <2> QED BY <2>1 DEF StoreOK, D, P
<1>6. ~Exists(from)' /\ Exists(to)' /\ \A x \in Places \ {from, to} : disk'[x] = disk[x]
  BY <1>1, <1>2 DEF Exists
<1>7. ~Used(from)'
  BY <1>2, <1>4 DEF Used
<1>8. \A x \in Places \ {from, to} : Used(x)' <=> Used(x)
  BY <1>2, <1>4 DEF Used
<1>9. Used(Lost)' => Used(Lost)
  BY <1>2, <1>4 DEF Used
<1>10. Used(Strayed)' => Used(Strayed) \/ Used(to)
  BY <1>2, <1>4 DEF Used
<1> QED BY <1>5, <1>6, <1>7, <1>8, <1>9, <1>10 DEF Exists

LEMMA RemoveEffect ==
  ASSUME StoreOK, NEW p \in Places, NEW fate \in {Confirmed, Strayed}, Remove(p, fate)
  PROVE  /\ StoreOK'
         /\ ~Exists(p)' /\ ~Used(p)'
         /\ \A x \in Places \ {p} : (Exists(x)' <=> Exists(x)) /\ (Used(x)' <=> Used(x))
         /\ Used(Lost)' => Used(Lost)
         /\ Used(Strayed)' => Used(Strayed) \/ (fate = Strayed /\ Used(p))
<1> DEFINE D == Dirs \cup {None}
           P == Places \cup Gone \cup {None}
<1>1. disk \in [Places -> D] /\ at \in [Tokens -> P] /\ mount \in [Pods -> P]
  BY DEF StoreOK
<1>2. /\ disk' = [disk EXCEPT ![p] = None]
      /\ at' = [t \in Tokens |-> IF at[t] = p THEN fate ELSE at[t]]
      /\ mount' = [c \in Pods |-> IF mount[c] = p THEN fate ELSE mount[c]]
  BY DEF Remove
<1>3. None \in D /\ fate \in P /\ fate # Lost /\ fate \notin Places
  BY Apart
<1> HIDE DEF D, P
<1>4. StoreOK'
  <2>1. disk' \in [Places -> D] /\ at' \in [Tokens -> P] /\ mount' \in [Pods -> P]
    BY <1>1, <1>2, <1>3
  <2> QED BY <2>1 DEF StoreOK, D, P
<1>5. ~Exists(p)' /\ \A x \in Places \ {p} : Exists(x)' <=> Exists(x)
  BY <1>1, <1>2 DEF Exists
<1>6. ~Used(p)' /\ \A x \in Places \ {p} : Used(x)' <=> Used(x)
  BY <1>2, <1>3 DEF Used
<1>7. Used(Lost)' => Used(Lost)
  BY <1>2, <1>3 DEF Used
<1>8. Used(Strayed)' => Used(Strayed) \/ (fate = Strayed /\ Used(p))
  BY <1>2 DEF Used
<1> QED BY <1>4, <1>5, <1>6, <1>7, <1>8

LEMMA RemovePartEffect ==
  ASSUME StoreOK, NEW p \in Places, NEW fate \in {Confirmed, Strayed}, RemovePart(p, fate)
  PROVE  /\ StoreOK' /\ disk' = disk
         /\ \A x \in Places : Used(x)' => Used(x)
         /\ Used(Lost)' => Used(Lost)
         /\ Used(Strayed)' => Used(Strayed) \/ (fate = Strayed /\ Used(p))
<1> DEFINE P == Places \cup Gone \cup {None}
<1>1. at \in [Tokens -> P]
  BY DEF StoreOK
<1>2. PICK gone \in SUBSET {t \in Tokens : at[t] = p} :
        at' = [t \in Tokens |-> IF t \in gone THEN fate ELSE at[t]]
  BY DEF RemovePart
<1>3. UNCHANGED <<disk, mount>>
  BY DEF RemovePart
<1>4. fate \in P /\ fate # Lost /\ fate \notin Places
  BY Apart
<1> HIDE DEF P
<1>5. StoreOK'
  <2>1. at' \in [Tokens -> P]
    BY <1>1, <1>2, <1>4
  <2> QED BY <1>3, <2>1 DEF StoreOK, P
<1>6. \A x \in Places : Used(x)' => Used(x)
  BY <1>2, <1>3, <1>4 DEF Used
<1>7. Used(Lost)' => Used(Lost)
  BY <1>2, <1>3, <1>4 DEF Used
<1>8. Used(Strayed)' => Used(Strayed) \/ (fate = Strayed /\ Used(p))
  BY <1>2, <1>3 DEF Used
<1> QED BY <1>3, <1>5, <1>6, <1>7, <1>8

\* Create and TakeSnapshot make one directory, or touch it.
Makes(p) == /\ StoreOK' /\ Exists(p)'
            /\ \A x \in Places \ {p} : Exists(x)' <=> Exists(x)
            /\ \A x : Used(x)' <=> Used(x)

LEMMA CreateEffect ==
  ASSUME StoreOK, btrfs \in BOOLEAN, NEW p \in Places, Create(p), UNCHANGED <<at, mount>>
  PROVE  Makes(p)
<1> DEFINE D == Dirs \cup {None}
           new == [Plain EXCEPT !.sub = btrfs]
<1>1. disk \in [Places -> D] /\ new \in Dirs /\ None \notin Dirs
  BY Apart DEF StoreOK, Plain, Dirs
<1>2. (disk' = disk /\ Exists(p)) \/ disk' = [disk EXCEPT ![p] = new]
  BY DEF Create
<1>3. new \in D /\ new # None
  BY <1>1
<1> HIDE DEF D, new
<1>4. disk' \in [Places -> D]
  BY <1>1, <1>2, <1>3
<1>5. Exists(p)' /\ \A x \in Places \ {p} : Exists(x)' <=> Exists(x)
  BY <1>1, <1>2, <1>3 DEF Exists
<1>6. StoreOK'
  BY <1>4 DEF StoreOK, D
<1> QED BY <1>5, <1>6 DEF Makes, Used

LEMMA SnapshotEffect ==
  ASSUME StoreOK, NEW from, NEW p \in Places, NEW readonly \in BOOLEAN,
         TakeSnapshot(from, p, readonly), UNCHANGED <<at, mount>>
  PROVE  Makes(p)
<1> DEFINE D == Dirs \cup {None}
           new == [Snapshot EXCEPT !.ro = readonly]
           into == [disk[p] EXCEPT !.nested =
                      IF readonly \/ disk[p].nested = "ro" THEN "ro" ELSE "rw"]
<1>1. disk \in [Places -> D] /\ None \notin Dirs
  BY Apart DEF StoreOK
<1>2. disk' = [disk EXCEPT ![p] = IF ~Exists(p) THEN new ELSE into]
  BY DEF TakeSnapshot
<1>3. new \in Dirs
  BY DEF Snapshot, Dirs
<1>4. Exists(p) => into \in Dirs
  BY <1>1 DEF Exists, Dirs
<1> HIDE DEF new, into
<1>5. PICK d \in Dirs : disk' = [disk EXCEPT ![p] = d]
  BY <1>2, <1>3, <1>4
<1>6. d \in D /\ d # None
  BY <1>1
<1> HIDE DEF D
<1>7. disk' \in [Places -> D]
  BY <1>1, <1>5, <1>6
<1>8. Exists(p)' /\ \A x \in Places \ {p} : Exists(x)' <=> Exists(x)
  BY <1>1, <1>5, <1>6 DEF Exists
<1>9. StoreOK'
  BY <1>7 DEF StoreOK, D
<1> QED BY <1>8, <1>9 DEF Makes, Used

-----------------------------------------------------------------------------
(* A step of one process.                                                  *)

Others(p) == job' \in [Procs -> Job] /\ \A q \in Procs : q # p => job'[q] = job[q]
SameNames(p) == job'[p].site = job[p].site /\ job'[p].src = job[p].src /\ job'[p].id = job[p].id

LEMMA GotoOK ==
  ASSUME Shapes, NEW p \in Procs, NEW pc \in Pcs, Goto(p, pc)
  PROVE  Others(p) /\ SameNames(p) /\ job'[p].pc = pc /\ job'[p].kind = job[p].kind
<1>1. job \in [Procs -> Job] /\ job' = [job EXCEPT ![p].pc = pc]
  BY DEF Shapes, Goto
<1> QED BY <1>1 DEF Others, SameNames, Job

LEMMA EndOK ==
  ASSUME Shapes, NEW p \in Procs, End(p)
  PROVE  /\ Others(p)
         /\ p \in Handlers => job'[p] = Idle
         /\ p = Tick => SameNames(p) /\ job'[p].pc = "done" /\ job'[p].kind = job[p].kind
<1>1. CASE p = Tick
  <2>1. Goto(p, "done") /\ "done" \in Pcs
    BY <1>1 DEF End, Pcs
  <2> QED BY <1>1, <2>1, GotoOK, Apart
<1>2. CASE p # Tick
  <2>1. job \in [Procs -> Job] /\ job' = [job EXCEPT ![p] = Idle]
    BY <1>2 DEF Shapes, End
  <2>2. Idle \in Job
    <3>1. "idle" \in Pcs
      BY DEF Pcs
    <3> QED BY <3>1 DEF Idle, Job
  <2> QED BY <1>2, <2>1, <2>2 DEF Others
<1> QED BY <1>1, <1>2

\* The shape of a process that does not move stays.
LEMMA ShapeStays ==
  ASSUME Typed, Typed', used <= used', torn => torn'
  PROVE  /\ \A h \in Handlers : HandlerShape(h) /\ job'[h] = job[h] => HandlerShape(h)'
         /\ TickShape /\ job'[Tick] = job[Tick] => TickShape'
<1>1. used \in Nat /\ used' \in Nat /\ 1..used \subseteq 1..used'
  BY DEF Typed
<1>2. \A h \in Handlers : HandlerShape(h) /\ job'[h] = job[h] => HandlerShape(h)'
  BY <1>1 DEF HandlerShape
<1>3. TickShape /\ job'[Tick] = job[Tick] => TickShape'
  BY <1>1 DEF TickShape
<1> QED BY <1>2, <1>3

\* What a step of p that changes things at the places X owes for VInv.
Owes(p, X) ==
  /\ Others(p) /\ (p = Tick => TickShape') /\ (p \in Handlers => HandlerShape(p)')
  /\ Typed' /\ used <= used' /\ (torn => torn')
  /\ \A x \in Places \ X : Kept(x)
  /\ \A x \in X : Used(x)' => Exists(x)'
  /\ \A i \in X \cap Held : i <= used'
  /\ \A r \in X \cap Reserved : /\ Exists(r)' => Exists(r)
                                /\ row'[r] # "bind"
                                /\ Used(r)' => row'[r] # None
  /\ RowLast(p)'
  /\ ~Used(Lost)'

LEMMA OwesKeeps ==
  ASSUME VInv, NEW p \in Procs, NEW X \in SUBSET Places, Owes(p, X)
  PROVE  VInv'
<1>1. \A x \in Places \ X : Kept(x)
  BY DEF Owes
<1>2. Shapes'
  <2>1. \A q \in Procs : q # p => job'[q] = job[q]
    BY DEF Owes, Others
  <2>2. Typed /\ Typed' /\ used <= used' /\ (torn => torn')
    BY DEF VInv, Owes
  <2>3. \A h \in Handlers : HandlerShape(h)'
    BY <2>1, <2>2, ShapeStays, Apart DEF VInv, Shapes, Owes
  <2>4. TickShape'
    BY <2>1, <2>2, ShapeStays, Apart DEF VInv, Shapes, Owes
  <2>5. job' \in [Procs -> Job]
    BY DEF Owes, Others
  <2> QED BY <2>3, <2>4, <2>5 DEF Shapes
<1>3. Fresh'
  <2>1. used \in Nat /\ used' \in Nat /\ used <= used' /\ Held \subseteq Nat /\ Held \subseteq Places
    BY Apart DEF VInv, Typed, Owes
  <2> SUFFICES ASSUME NEW i \in Held, i > used' PROVE ~Exists(i)'
    BY DEF Fresh
  <2>2. i \notin X
    BY <2>1 DEF Owes
  <2> QED BY <1>1, <2>1, <2>2 DEF VInv, Fresh, Kept
<1>4. Real'
  <2> SUFFICES ASSUME NEW x \in Places, Used(x)' PROVE Exists(x)'
    BY DEF Real
  <2>1. CASE x \in X
    BY <2>1 DEF Owes
  <2>2. CASE x \notin X
    BY <1>1, <2>2 DEF Kept, VInv, Real
  <2> QED BY <2>1, <2>2
<1>5. Reserves'
  <2>1. ASSUME NEW r \in Reserved
        PROVE  row'[r] # "bind" /\ (Used(r)' => row'[r] # None) /\ (Exists(r)' => Exists(r))
    <3>1. r \in Places /\ r \in Sites /\ row[r] # "bind" /\ (Used(r) => row[r] # None)
          /\ None # "managed"
      BY Apart, PlacesAssumption DEF VInv, Reserves
    <3>2. CASE r \in X
      BY <3>2 DEF Owes
    <3>3. CASE r \notin X
      BY <1>1, <3>1, <3>3 DEF Kept
    <3> QED BY <3>2, <3>3
  <2>2. ASSUME NEW q \in Procs PROVE RowLast(q)'
    <3>1. CASE q = p
      BY <3>1 DEF Owes
    <3>2. CASE q # p
      <4>1. job'[q] = job[q] /\ RowLast(q)
        BY <3>2 DEF Owes, Others, VInv, Reserves
      <4> QED BY <2>1, <4>1 DEF RowLast, Exists
    <3> QED BY <3>1, <3>2
  <2> QED BY <2>1, <2>2 DEF Reserves
<1> QED BY <1>2, <1>3, <1>4, <1>5 DEF VInv, Owes, NothingLost

\* What it owes for the agreement.
OwesMore(p, X) ==
  /\ Others(p)
  /\ X \cap Sites \subseteq {job[p].site} /\ X \cap Held \subseteq {job[p].id, used + 1}
  /\ \A x \in Places \ X : Kept(x)
  /\ used' \in {used, used + 1}
  /\ job'[p].site \in {job[p].site, None} /\ job'[p].src \in {job[p].src, None}
  /\ job'[p].id \in {job[p].id, None} \/ (job'[p].id = used + 1 /\ used' = used + 1)
  /\ Midway(p)'
  /\ \A s \in Sites : s = job[p].site /\ (job'[p].site = s => ~HalfSite(p)') => SiteAgrees(s)'
  /\ \A i \in 1..used' : i \in {job[p].id, used + 1} /\ (job'[p].id = i => ~HalfId(p)')
                           => IdAgrees(i)'

\* The names of a process.
LEMMA NamesOK ==
  ASSUME Typed, Shapes, NEW p \in Procs
  PROVE  /\ job[p].site \in Sites \cup {None} /\ job[p].src \in Sites \cup {App, None}
         /\ job[p].id \in (1..used) \cup {None} /\ used \in Nat /\ 1..used \subseteq Held
<1>1. used \in Nat /\ used <= MaxHeld /\ MaxHeld \in Nat /\ 1..used \subseteq Held
  BY VolumesAssumption DEF Typed, Held
<1>2. job[p] \in Job
  BY DEF Shapes
<1>3. job[p].id \in (1..used) \cup {None}
  <2>1. CASE p = Tick
    BY <2>1 DEF Shapes, TickShape
  <2>2. CASE p \in Handlers
    BY <2>2 DEF Shapes, HandlerShape, Idle
  <2> QED BY <2>1, <2>2 DEF Procs
<1> QED BY <1>1, <1>2, <1>3 DEF Job

LEMMA MidwayStays ==
  ASSUME NEW q \in Procs, Midway(q), job'[q] = job[q], Typed, Shapes,
         \A x \in {job[q].site, job[q].id} \ {None} : Kept(x)
  PROVE  Midway(q)'
<1>1. PICK s : s = job[q].site
  OBVIOUS
<1>2. PICK i : i = job[q].id
  OBVIOUS
<1>3. CASE q = Tick
  <2>1. s = None /\ i \in (1..used) \cup {None} /\ (job[q].pc = "meta" => i # None)
        /\ job[q].pc \notin {"restore", "move", "restored", "insert", "unrow", "rm_site", "rm_meta"}
        /\ job[q].kind # "delete"
    BY <1>1, <1>2, <1>3, PlacesAssumption DEF Shapes, TickShape
  <2>2. job[q].pc = "meta" => Kept(i)
    BY <1>2, <2>1
  <2> QED BY <1>1, <1>2, <2>1, <2>2 DEF Midway, At, AtOf, Kept, Exists
<1>4. CASE q \in Handlers
  <2>1. HandlerShape(q) /\ None \notin Sites /\ None \notin 1..used
    BY <1>4, NamesOK, Apart DEF Shapes
  <2>2. job[q].kind \in {"restore", "create", "snapshot", "promote", "delete"}
          => s \in Sites /\ Kept(s)
    BY <1>1, <2>1, PlacesAssumption DEF HandlerShape, Idle
  <2>3. job[q].pc \in {"restored", "rm_meta", "meta"} \/ job[q].kind = "restore" => Kept(i)
    BY <1>2, <2>1, PlacesAssumption DEF HandlerShape, Idle
  <2> QED BY <1>1, <1>2, <2>2, <2>3 DEF Midway, At, AtOf, Kept, Exists
<1> QED BY <1>3, <1>4 DEF Procs

LEMMA OwesMoreKeeps ==
  ASSUME VInv, Agree, NEW p \in Procs, NEW X \in SUBSET Places, OwesMore(p, X)
  PROVE  Agree'
<1>1. Typed /\ Shapes
  BY DEF VInv
<1>2. \A q \in Procs : q # p => job'[q] = job[q]
  BY DEF OwesMore, Others
<1>3. \A x \in Places \ X : Kept(x)
  BY DEF OwesMore
<1>4. \A q \in Procs : /\ job[q].site \in Sites \cup {None} /\ job[q].src \in Sites \cup {App, None}
                       /\ job[q].id \in (1..used) \cup {None}
  BY <1>1, NamesOK
<1>5. /\ used \in Nat /\ 1..used \subseteq Held /\ Held \subseteq Places /\ Sites \subseteq Places
      /\ App \notin Sites \cup Held /\ None \notin Sites \cup Held /\ Sites \cap Held = {}
      /\ Held \subseteq Nat
  BY <1>1, NamesOK, Apart
<1>6. ASSUME NEW q \in Procs, q # p PROVE Touched(p)' \cap Touched(q)' \subseteq {App}
  <2>1. Touched(q)' = Touched(q)
    BY <1>2, <1>6 DEF Touched
  <2>2. used + 1 \notin Touched(q)
    <3>1. used + 1 \notin Sites
      BY PlacesAssumption, <1>5
    <3>2. used + 1 # App
      BY PlacesAssumption, <1>5
    <3> QED BY <1>4, <1>5, <3>1, <3>2 DEF Touched
  <2>3. Touched(p)' \subseteq Touched(p) \cup {used + 1}
    BY DEF OwesMore, Touched
  <2>4. Touched(p) \cap Touched(q) \subseteq {App}
    BY <1>6 DEF Agree, Alone
  <2> QED BY <2>1, <2>2, <2>3, <2>4
<1>7. Alone'
  <2>1. ASSUME NEW q \in Procs, NEW r \in Procs, q # r
        PROVE  Touched(q)' \cap Touched(r)' \subseteq {App}
    <3>1. CASE q = p \/ r = p
      BY <1>6, <2>1, <3>1
    <3>2. CASE q # p /\ r # p
      <4>1. Touched(q)' = Touched(q) /\ Touched(r)' = Touched(r)
        BY <1>2, <3>2 DEF Touched
      <4> QED BY <2>1, <4>1 DEF Agree, Alone
    <3> QED BY <3>1, <3>2
  <2> QED BY <2>1 DEF Alone
<1>8. ASSUME NEW q \in Procs PROVE Midway(q)'
  <2>1. CASE q = p
    BY <2>1 DEF OwesMore
  <2>2. CASE q # p
    <3>1. Touched(p) \cap Touched(q) \subseteq {App}
      BY <2>2 DEF Agree, Alone
    <3>2. ASSUME NEW x \in {job[q].site, job[q].id} \ {None} PROVE Kept(x)
      <4>1. x \in Touched(q) /\ x \in Sites \cup Held /\ x # App /\ x # used + 1
        <5>1. x \in Touched(q)
          BY DEF Touched
        <5>2. CASE x = job[q].site
          BY <1>4, <1>5, <5>1, <5>2, PlacesAssumption
        <5>3. CASE x = job[q].id
          BY <1>4, <1>5, <5>1, <5>3
        <5> QED BY <5>2, <5>3
      <4>2. x \notin Touched(p)
        BY <3>1, <4>1
      <4>3. x # job[p].site /\ x # job[p].id
        BY <4>2 DEF Touched
      <4>4. x \notin X
        BY <4>1, <4>3 DEF OwesMore
      <4> QED BY <1>3, <1>5, <4>1, <4>4
    <3>3. job'[q] = job[q] /\ Midway(q)
      BY <1>2, <2>2 DEF Agree
    <3> QED BY <1>1, <3>2, <3>3, MidwayStays
  <2> QED BY <2>1, <2>2
<1>9. SitesAgree'
  <2> SUFFICES ASSUME NEW s \in Sites, \A q \in Procs : job'[q].site = s => ~HalfSite(q)'
               PROVE  SiteAgrees(s)'
    BY DEF SitesAgree
  <2>1. CASE s = job[p].site
    BY <2>1 DEF OwesMore
  <2>2. CASE s # job[p].site
    <3>1. Kept(s)
      BY <1>3, <1>5, <2>2 DEF OwesMore
    <3>2. \A q \in Procs : job[q].site = s => ~HalfSite(q)
      BY <1>2, <2>2 DEF HalfSite
    <3>3. SiteAgrees(s)
      BY <3>2 DEF Agree, SitesAgree
    <3> QED BY <3>1, <3>3 DEF SiteAgrees, Kept
  <2> QED BY <2>1, <2>2
<1>10. HeldAgree'
  <2> SUFFICES ASSUME NEW i \in 1..used', \A q \in Procs : job'[q].id = i => ~HalfId(q)'
               PROVE  IdAgrees(i)'
    BY DEF HeldAgree
  <2>1. CASE i \in {job[p].id, used + 1}
    BY <2>1 DEF OwesMore
  <2>2. CASE i \notin {job[p].id, used + 1}
    <3>1. i \in 1..used
      BY <1>5, <2>2 DEF OwesMore
    <3>2. Kept(i)
      BY <1>3, <1>5, <2>2, <3>1 DEF OwesMore
    <3>3. \A q \in Procs : job[q].id = i => ~HalfId(q)
      BY <1>2, <2>2 DEF HalfId
    <3>4. IdAgrees(i)
      BY <3>1, <3>3 DEF Agree, HeldAgree
    <3> QED BY <3>2, <3>4 DEF IdAgrees, Kept
  <2> QED BY <2>1, <2>2
<1> QED BY <1>7, <1>8, <1>9, <1>10 DEF Agree

\* A request that is not half-way finds its name, and its id, in order.
LEMMA Sole ==
  ASSUME VInv, Agree, NEW p \in Procs
  PROVE  /\ job[p].site \in Sites /\ ~HalfSite(p) => SiteAgrees(job[p].site)
         /\ job[p].id \in 1..used /\ ~HalfId(p) => IdAgrees(job[p].id)
<1>1. App \notin Sites /\ App \notin Held /\ None \notin Sites \cup Held /\ 1..used \subseteq Held
  BY Apart, NamesOK DEF VInv
<1>2. ASSUME NEW q \in Procs, q # p PROVE Touched(p) \cap Touched(q) \subseteq {App}
  BY <1>2 DEF Agree, Alone
<1>3. ASSUME job[p].site \in Sites, ~HalfSite(p) PROVE SiteAgrees(job[p].site)
  <2>1. \A q \in Procs : q # p => job[q].site # job[p].site
    BY <1>1, <1>2, <1>3 DEF Touched
  <2> QED BY <1>3, <2>1 DEF Agree, SitesAgree
<1>4. ASSUME job[p].id \in 1..used, ~HalfId(p) PROVE IdAgrees(job[p].id)
  <2>1. \A q \in Procs : q # p => job[q].id # job[p].id
    BY <1>1, <1>2, <1>4 DEF Touched
  <2> QED BY <1>4, <2>1 DEF Agree, HeldAgree
<1> QED BY <1>3, <1>4

\* A step of p, at the places X.
Handled(p, X) ==
  /\ Owes(p, X) /\ scene' = scene /\ (raced => raced')
  /\ Exists(Legacy)' => Exists(Legacy)
  /\ p = Tick /\ ~scene.old => job'[Tick].pc # "rm"
  /\ ~raced /\ ~torn /\ ~torn' /\ Agree => OwesMore(p, X) /\ (scene.old \/ ~Used(Strayed)')

LEMMA HandledKeeps ==
  ASSUME VInv, LInv, NEW p \in Procs, NEW X \in SUBSET Places, Handled(p, X)
  PROVE  VInv' /\ LInv'
<1>1. VInv'
  BY OwesKeeps DEF Handled
<1>2. OldOnly'
  <2>1. p # Tick => job'[Tick] = job[Tick]
    BY Apart DEF Handled, Owes, Others
  <2> QED BY <2>1 DEF Handled, LInv, OldOnly
<1>3. ASSUME ~raced', ~torn' PROVE Agree' /\ NothingStrays'
  <2>1. ~raced /\ ~torn /\ Agree
    BY <1>3 DEF Handled, Owes, LInv
  <2>2. OwesMore(p, X) /\ (scene.old \/ ~Used(Strayed)')
    BY <1>3, <2>1 DEF Handled
  <2>3. Agree'
    BY <2>1, <2>2, OwesMoreKeeps
  <2> QED BY <2>2, <2>3 DEF NothingStrays, Handled
<1> QED BY <1>1, <1>2, <1>3 DEF LInv

\* A step that moves p on and leaves disk and records alone.
Quietly == UNCHANGED <<disk, at, mount, meta, used, row, scene, raced>> /\ (torn => torn')
           /\ btrfs' = btrfs
MovesOn(p) ==
  /\ Others(p) /\ (p = Tick => TickShape') /\ (p \in Handlers => HandlerShape(p)') /\ RowLast(p)'
  /\ job'[p].site \in {job[p].site, None} /\ job'[p].src \in {job[p].src, None}
  /\ job'[p].id \in {job[p].id, None}
  /\ p = Tick /\ ~scene.old => job'[Tick].pc # "rm"
  /\ ~torn' /\ Agree =>
       /\ Midway(p)'
       /\ HalfSite(p) => job'[p].site = job[p].site /\ HalfSite(p)'
       /\ HalfId(p) => job'[p].id = job[p].id /\ HalfId(p)'

\* At most data and containers go.
Softly ==
  /\ UNCHANGED <<disk, meta, used, row, scene, raced, btrfs>> /\ (torn => torn')
  /\ StoreOK' /\ ~Used(Lost)' /\ \A x \in Places : Used(x)' => Used(x)
  /\ ~raced /\ ~torn /\ ~torn' /\ Agree => scene.old \/ ~Used(Strayed)'

LEMMA SoftKeeps ==
  ASSUME VInv, LInv, NEW p \in Procs, Softly, MovesOn(p)
  PROVE  VInv' /\ LInv'
<1>1. \A x \in Places : (Exists(x)' <=> Exists(x)) /\ (Used(x)' => Used(x)) /\ Kept(x)
  BY DEF Softly, Exists, Kept
<1>2. Owes(p, {})
  <2>1. Typed' /\ used <= used'
    BY DEF Softly, VInv, Typed
  <2> QED BY <1>1, <2>1 DEF Owes, MovesOn, Softly
<1>3. ASSUME ~raced, ~torn, ~torn', Agree PROVE OwesMore(p, {})
  <2>1. ASSUME NEW s \in Sites, s = job[p].site, job'[p].site = s => ~HalfSite(p)'
        PROVE  SiteAgrees(s)'
    <3>1. SiteAgrees(s) /\ s \in Places
      BY <1>3, <2>1, Sole, Apart DEF MovesOn
    <3> QED BY <1>1, <3>1 DEF SiteAgrees, Softly
  <2>2. ASSUME NEW i \in 1..used', i \in {job[p].id, used + 1}, job'[p].id = i => ~HalfId(p)'
        PROVE  IdAgrees(i)'
    <3>1. i \in 1..used /\ i = job[p].id
      BY <2>2 DEF Softly, VInv, Typed
    <3>2. IdAgrees(i)
      BY <1>3, <2>2, <3>1, Sole DEF MovesOn
    <3> QED BY <3>2 DEF IdAgrees, Exists, Softly
  <2> QED BY <1>1, <1>3, <2>1, <2>2 DEF OwesMore, MovesOn, Softly
<1>4. Exists(Legacy)' => Exists(Legacy)
  BY <1>1, Apart
<1> QED BY <1>2, <1>3, <1>4, HandledKeeps DEF Handled, MovesOn, Softly

LEMMA QuietKeeps ==
  ASSUME VInv, LInv, NEW p \in Procs, Quietly, MovesOn(p)
  PROVE  VInv' /\ LInv'
<1>1. \A x : Used(x)' <=> Used(x)
  BY DEF Quietly, Used
<1>2. StoreOK' /\ ~Used(Lost)'
  BY <1>1 DEF Quietly, VInv, Typed, StoreOK, NothingLost
<1>3. ~raced /\ ~torn /\ ~torn' /\ Agree => scene.old \/ ~Used(Strayed)'
  BY <1>1 DEF LInv, NothingStrays
<1> QED BY <1>1, <1>2, <1>3, SoftKeeps DEF Softly, Quietly

\* A handler that answers.
LEMMA Answers ==
  ASSUME VInv, NEW h \in Handlers, End(h)
  PROVE  /\ Others(h) /\ HandlerShape(h)' /\ RowLast(h)' /\ Midway(h)'
         /\ job'[h].site = None /\ job'[h].src = None /\ job'[h].id = None
<1>1. Others(h) /\ job'[h] = Idle
  BY EndOK, Apart DEF VInv
<1>2. HandlerShape(h)' /\ RowLast(h)' /\ Midway(h)'
  BY <1>1, PlacesAssumption DEF HandlerShape, RowLast, Midway, At, AtOf, Idle
<1>3. job'[h].site = None /\ job'[h].src = None /\ job'[h].id = None
  BY <1>1 DEF Idle
<1> QED BY <1>1, <1>2, <1>3

LEMMA EndMoves ==
  ASSUME VInv, NEW h \in Handlers, End(h), torn' \/ (~HalfSite(h) /\ ~HalfId(h))
  PROVE  MovesOn(h)
<1>1. h # Tick /\ h \in Procs
  BY Apart
<1> QED BY <1>1, Answers DEF MovesOn

LEMMA EndKeeps ==
  ASSUME VInv, LInv, NEW h \in Handlers, Quietly, End(h), torn' \/ (~HalfSite(h) /\ ~HalfId(h))
  PROVE  VInv' /\ LInv'
<1>1. MovesOn(h) /\ h \in Procs
  BY EndMoves, Apart
<1> QED BY <1>1, QuietKeeps

\* A handler that goes on to a step at which it is not half-way, quietly.
LEMMA GotoKeeps ==
  ASSUME VInv, LInv, NEW h \in Handlers, NEW pc \in Pcs, Quietly, Goto(h, pc),
         HandlerShape(h)', RowLast(h)', torn' \/ (~HalfSite(h) /\ ~HalfId(h)),
         ~torn' /\ Agree => Midway(h)'
  PROVE  VInv' /\ LInv'
<1>1. Others(h) /\ SameNames(h) /\ h \in Procs /\ h # Tick
  BY GotoOK, Apart DEF VInv
<1>2. MovesOn(h)
  BY <1>1 DEF MovesOn, SameNames
<1> QED BY <1>1, <1>2, QuietKeeps

-----------------------------------------------------------------------------
(* The requests: the steps that only look.                                 *)

LEMMA RestoreLooks ==
  ASSUME VInv, LInv, NEW h \in Handlers, RestoreVacant(h) \/ RestoreCheck(h)
  PROVE  VInv' /\ LInv'
<1>1. /\ job[h].kind = "restore" /\ job[h].pc \in {"vacant", "restore"} /\ job[h].src = None
      /\ job[h].site \in Sites \ Reserved /\ job[h].id \in 1..used /\ h \in Procs
  BY Apart DEF VInv, Shapes, HandlerShape, Idle, RestoreVacant, RestoreCheck, At
<1>2. Quietly
  BY DEF RestoreVacant, RestoreCheck, Quietly, store, bounds, ghosts
<1>3. ~HalfSite(h) /\ ~HalfId(h)
  BY <1>1 DEF HalfSite, HalfId
<1>4. CASE End(h)
  BY <1>2, <1>3, <1>4, EndKeeps
<1>5. ASSUME NEW pc \in {"restore", "move"}, Goto(h, pc), Agree => row[job[h].site] = None,
             pc = "move" => ~Exists(job[h].site)
      PROVE  VInv' /\ LInv'
  <2>1. SameNames(h) /\ job'[h].pc = pc /\ job'[h].kind = "restore" /\ pc \in Pcs
    BY <1>1, <1>5, GotoOK DEF VInv, Pcs
  <2>2. HandlerShape(h)' /\ RowLast(h)'
    BY <1>1, <1>2, <2>1 DEF HandlerShape, RowLast, SameNames, Quietly
  <2>3. Agree => Midway(h)'
    BY <1>2, <1>5, <2>1 DEF Midway, At, AtOf, SameNames, Quietly, Exists
  <2> QED BY <1>2, <1>3, <1>5, <2>1, <2>2, <2>3, GotoKeeps
<1>6. CASE RestoreVacant(h)
  BY <1>4, <1>5, <1>6 DEF RestoreVacant
<1>7. CASE RestoreCheck(h)
  <2>1. Agree => row[job[h].site] = None
    BY <1>1, <1>7 DEF Agree, Midway, AtOf, At, RestoreCheck
  <2> QED BY <1>4, <1>5, <1>7, <2>1 DEF RestoreCheck
<1> QED BY <1>6, <1>7

LEMMA DeleteLooks ==
  ASSUME VInv, LInv, NEW h \in Handlers, DeleteLook(h)
  PROVE  VInv' /\ LInv'
<1>1. /\ job[h].kind = "delete" /\ job[h].pc = "look" /\ job[h].src = None
      /\ job[h].site \in Sites /\ job[h].id = None /\ h \in Procs
  BY Apart DEF VInv, Shapes, HandlerShape, Idle, DeleteLook, At, AtOf
<1>2. Quietly
  BY DEF DeleteLook, Quietly, store, bounds, ghosts
<1>3. ~HalfSite(h) /\ ~HalfId(h)
  BY <1>1 DEF HalfSite, HalfId
<1>4. CASE End(h)
  BY <1>2, <1>3, <1>4, EndKeeps
<1>5. ASSUME NEW pc \in {"hold", "rm_site", "unrow"}, Goto(h, pc),
             pc = "rm_site" => row[job[h].site] = "snapshot",
             pc = "unrow" => row[job[h].site] = "bind"
      PROVE  VInv' /\ LInv'
  <2>1. SameNames(h) /\ job'[h].pc = pc /\ job'[h].kind = "delete" /\ pc \in Pcs
    BY <1>1, <1>5, GotoOK DEF VInv, Pcs
  <2>2. HandlerShape(h)'
    BY <1>1, <1>2, <2>1 DEF HandlerShape, SameNames, Quietly
  <2>3. RowLast(h)'
    BY <1>2, <1>5, <2>1 DEF RowLast, SameNames, VInv, Reserves
  <2>4. ASSUME Agree PROVE Midway(h)'
    <3>1. pc = "unrow" => ~Used(job[h].site)
      BY <1>1, <1>3, <1>5, <2>4, Sole DEF SiteAgrees
    <3> QED BY <1>2, <1>5, <2>1, <3>1 DEF Midway, At, AtOf, SameNames, Quietly, Exists, Used
  <2> QED BY <1>2, <1>3, <1>5, <2>1, <2>2, <2>3, <2>4, GotoKeeps
<1> QED BY <1>4, <1>5 DEF DeleteLook

LEMMA SnapshotLooks ==
  ASSUME VInv, LInv, NEW h \in Handlers, SnapshotResolve(h) \/ PromoteLook(h)
  PROVE  VInv' /\ LInv'
<1>1. /\ job[h].pc \in {"resolve", "look"} /\ job[h].site \in Sites \ Reserved /\ job[h].id = None
      /\ \/ job[h].kind = "snapshot" /\ job[h].src \in Sites \cup {App}
         \/ job[h].kind = "promote" /\ job[h].src \in Sites
  BY DEF VInv, Shapes, HandlerShape, Idle, SnapshotResolve, PromoteLook, At, AtOf
<1>2. Quietly
  BY DEF SnapshotResolve, PromoteLook, Quietly, store, bounds, ghosts
<1>3. ~HalfSite(h) /\ ~HalfId(h) /\ h \in Procs
  BY <1>1, Apart DEF HalfSite, HalfId
<1>4. CASE End(h)
  BY <1>2, <1>3, <1>4, EndKeeps
<1>5. CASE Goto(h, "snap")
  <2>1. SameNames(h) /\ job'[h].pc = "snap" /\ job'[h].kind = job[h].kind /\ "snap" \in Pcs
    <3>1. "snap" \in Pcs
      BY DEF Pcs
    <3> QED BY <1>3, <1>5, <3>1, GotoOK DEF VInv
  <2>2. HandlerShape(h)' /\ RowLast(h)' /\ Midway(h)'
    BY <1>1, <2>1 DEF HandlerShape, RowLast, Midway, At, AtOf, SameNames
  <2> QED BY <1>2, <1>3, <1>5, <2>1, <2>2, GotoKeeps
<1> QED BY <1>4, <1>5 DEF SnapshotResolve, PromoteLook

LEMMA UpdateKeeps ==
  ASSUME VInv, LInv, NEW h \in Handlers, UpdateDefine(h) \/ UpdateForget(h)
  PROVE  VInv' /\ LInv'
<1>1. /\ job[h].pc \in {"define", "forget"} /\ job[h].kind = "update"
      /\ job[h].site = None /\ job[h].src = None
      /\ job[h].id \in (1..used) \cup {None} /\ (job[h].id # None => torn)
  BY DEF VInv, Shapes, HandlerShape, Idle, UpdateDefine, UpdateForget, At
<1>2. Quietly
  BY DEF UpdateDefine, UpdateForget, Quietly, store, bounds, ghosts
<1>3. ~HalfSite(h) /\ ~HalfId(h) /\ h \in Procs
  BY <1>1, Apart DEF HalfSite, HalfId
<1>4. CASE End(h)
  BY <1>2, <1>3, <1>4, EndKeeps
<1>5. CASE Goto(h, "hold")
  <2>1. SameNames(h) /\ job'[h].pc = "hold" /\ job'[h].kind = "update" /\ "hold" \in Pcs
    <3>1. "hold" \in Pcs
      BY DEF Pcs
    <3> QED BY <1>1, <1>3, <1>5, <3>1, GotoOK DEF VInv
  <2>2. HandlerShape(h)' /\ RowLast(h)' /\ Midway(h)'
    BY <1>1, <1>2, <2>1 DEF HandlerShape, RowLast, Midway, At, AtOf, SameNames, Quietly
  <2> QED BY <1>2, <1>3, <1>5, <2>1, <2>2, GotoKeeps
<1> QED BY <1>4, <1>5 DEF UpdateDefine, UpdateForget

-----------------------------------------------------------------------------
(* Holding.                                                                *)

\* A process at "hold" or "meta": a delete, an update, or the tick.
LEMMA Holder ==
  ASSUME VInv, NEW p \in Procs, job[p].pc \in {"hold", "meta"}
  PROVE  /\ job[p].src = None /\ job[p].id \in (1..used) \cup {None}
         /\ job[p].id = None => job[p].pc = "hold"
         /\ job[p].id # None => job[p].pc = "meta" \/ torn
         /\ \/ p \in Handlers /\ p # Tick /\ job[p].kind = "delete" /\ job[p].site \in Sites
               /\ (job[p].pc = "hold" => job[p].id = None)
            \/ p \in Handlers /\ p # Tick /\ job[p].kind = "update" /\ job[p].site = None
            \/ p = Tick /\ p \notin Handlers /\ job[p].kind \in {"recreate", "stop", "displace"}
               /\ job[p].site = None
<1>1. CASE p = Tick
  BY <1>1, Apart DEF VInv, Shapes, TickShape
<1>2. CASE p \in Handlers
  BY <1>2, Apart, NamesOK DEF VInv, Shapes, HandlerShape, Idle
<1> QED BY <1>1, <1>2 DEF Procs

\* Where a hold, failed or not, goes on.
AfterPc(p, pc) ==
  CASE job[p].kind = "delete" -> pc = "unrow"
    [] job[p].kind = "update" -> pc = "forget"
    [] OTHER -> pc \in {"migrate", "mv", "done"}

\* The step after a hold, for a process with the names it has or without the id.
LEMMA AfterShape ==
  ASSUME VInv, NEW p \in Procs, job[p].pc \in {"hold", "meta"}, Typed', used <= used', torn => torn',
         NEW pc, AfterPc(p, pc), job'[p].pc = pc, job'[p].kind = job[p].kind,
         job'[p].site = job[p].site, job'[p].src = job[p].src,
         \/ job'[p].id = None
         \/ job'[p].id = job[p].id /\ job[p].kind # "delete" /\ (job[p].pc = "meta" => torn')
  PROVE  (p = Tick => TickShape') /\ (p \in Handlers => HandlerShape(p)')
<1>1. used \in Nat /\ used' \in Nat /\ 1..used \subseteq 1..used'
  BY DEF VInv, Typed
<1>2. CASE p = Tick
  BY <1>1, <1>2, Holder, PlacesAssumption DEF TickShape, AfterPc
<1>3. CASE p \in Handlers
  BY <1>1, <1>3, Holder DEF HandlerShape, AfterPc
<1> QED BY <1>2, <1>3, Holder

\* The tick moves on, quietly, to a step other than "meta".
LEMMA TickGoes ==
  ASSUME VInv, LInv, Quietly, Others(Tick), TickShape', job'[Tick].pc # "meta",
         job[Tick].pc # "meta" \/ torn', job'[Tick].id \in {job[Tick].id, None},
         ~scene.old => job'[Tick].pc # "rm"
  PROVE  VInv' /\ LInv'
<1>1. Tick \in Procs /\ Tick \notin Handlers
  BY Apart
<1>2. job[Tick].site = None /\ job'[Tick].site = None /\ job[Tick].src = None /\ job'[Tick].src = None
  BY DEF VInv, Shapes, TickShape
<1>3. RowLast(Tick)' /\ Midway(Tick)' /\ ~HalfSite(Tick)
  BY PlacesAssumption DEF VInv, Shapes, TickShape, RowLast, Midway, At, AtOf, HalfSite
<1>4. ~torn' => ~HalfId(Tick)
  BY PlacesAssumption DEF VInv, Shapes, TickShape, HalfId
<1>5. MovesOn(Tick)
  BY <1>1, <1>2, <1>3, <1>4 DEF MovesOn
<1> QED BY <1>1, <1>5, QuietKeeps

LEMMA TickEnds ==
  ASSUME VInv, LInv, Quietly, End(Tick), job[Tick].pc # "meta" \/ torn'
  PROVE  VInv' /\ LInv'
<1>1. Others(Tick) /\ SameNames(Tick) /\ job'[Tick].pc = "done" /\ job'[Tick].kind = job[Tick].kind
  BY EndOK, Apart DEF VInv
<1>2. TickShape'
  BY <1>1 DEF VInv, Shapes, TickShape, SameNames, Quietly
<1> QED BY <1>1, <1>2, TickGoes DEF SameNames

LEMMA OnErrorKeeps ==
  ASSUME VInv, LInv, NEW p \in Procs, job[p].pc \in {"hold", "meta"}, Quietly, OnError(p),
         job[p].pc = "meta" => torn'
  PROVE  VInv' /\ LInv'
<1>1. Typed' /\ used <= used'
  BY DEF Quietly, VInv, Typed, StoreOK
<1>2. torn' \/ (~HalfSite(p) /\ ~HalfId(p))
  BY DEF HalfSite, HalfId
<1>3. CASE job[p].kind = "update"
  <2>1. Goto(p, "forget") /\ "forget" \in Pcs
    BY <1>3 DEF OnError, Pcs
  <2>2. /\ SameNames(p) /\ job'[p].pc = "forget" /\ job'[p].kind = "update"
        /\ p \in Handlers /\ p # Tick
    BY <1>3, <2>1, GotoOK, Holder DEF VInv
  <2>3. HandlerShape(p)'
    <3>1. AfterPc(p, "forget")
      BY <1>3 DEF AfterPc
    <3> QED BY <1>1, <1>3, <2>2, <3>1, AfterShape DEF SameNames, Quietly
  <2>4. RowLast(p)' /\ Midway(p)'
    BY <2>2 DEF RowLast, Midway, At, AtOf
  <2> QED BY <1>2, <2>1, <2>2, <2>3, <2>4, GotoKeeps
<1>4. CASE job[p].kind # "update" /\ p \in Handlers
  BY <1>2, <1>4, EndKeeps DEF OnError
<1>5. CASE job[p].kind # "update" /\ p = Tick
  BY <1>5, TickEnds DEF OnError
<1> QED BY <1>3, <1>4, <1>5 DEF Procs

LEMMA HoldAbsentKeeps ==
  ASSUME VInv, LInv, NEW p \in Procs, HoldAbsent(p)
  PROVE  VInv' /\ LInv'
<1>1. job[p].pc = "hold" /\ Quietly
  BY DEF HoldAbsent, At, Quietly, bounds, ghosts
<1>2. CASE job[p].kind \in {"recreate", "stop"}
  <2>1. PICK pc \in {"migrate", "done"} : Goto(p, pc)
    BY <1>2 DEF HoldAbsent, AfterHold
  <2>2. p = Tick /\ pc \in Pcs
    BY <1>1, <1>2, Holder DEF Pcs
  <2>3. Others(p) /\ SameNames(p) /\ job'[p].pc = pc /\ job'[p].kind = job[p].kind
    BY <2>1, <2>2, GotoOK DEF VInv
  <2>4. TickShape'
    BY <1>1, <2>2, <2>3 DEF VInv, Shapes, TickShape, SameNames, Quietly
  <2> QED BY <1>1, <2>2, <2>3, <2>4, TickGoes DEF SameNames
<1>3. CASE job[p].kind \notin {"recreate", "stop"}
  BY <1>1, <1>3, OnErrorKeeps DEF HoldAbsent
<1> QED BY <1>2, <1>3

LEMMA HoldRenameKeeps ==
  ASSUME VInv, LInv, NEW p \in Procs, HoldRename(p)
  PROVE  VInv' /\ LInv'
<1>1. /\ job[p].pc = "hold" /\ used < MaxHeld /\ used \in Nat /\ MaxHeld \in Nat
      /\ UNCHANGED <<meta, row, btrfs, scene, raced, torn>>
  BY VolumesAssumption DEF HoldRename, At, bounds, ghosts, VInv, Typed
<1>2. CASE OnError(p) /\ UNCHANGED <<disk, at, mount, used>>
  BY <1>1, <1>2, OnErrorKeeps DEF Quietly
<1>3. CASE CanRename(HoldSource(p), used + 1) /\ Rename(HoldSource(p), used + 1) /\ used' = used + 1
           /\ job' = [job EXCEPT ![p].pc = "meta", ![p].id = used + 1]
  <2>1. PICK from : from = HoldSource(p)
    OBVIOUS
  <2>2. PICK to \in Held : to = used + 1
    BY <1>1 DEF Held
  <2>3. /\ from = App \/ (from = job[p].site /\ job[p].kind = "delete" /\ p \in Handlers)
        /\ job[p].kind = "delete" => from = job[p].site
        /\ from \in Sites \cup {App}
    BY <1>1, <2>1, Holder DEF HoldSource
  <2>4. /\ from \in Places /\ to \in Places /\ from # to /\ Legacy \notin {from, to} /\ to \notin Sites
        /\ from \notin Held /\ Legacy \in Places
    BY <2>2, <2>3, Apart
  <2>5. Exists(from) /\ Rename(from, to)
    BY <1>3, <2>1, <2>2 DEF CanRename
  <2>6. StoreOK
    BY DEF VInv, Typed
  <2>7. /\ StoreOK' /\ ~Exists(from)' /\ Exists(to)' /\ ~Used(from)'
        /\ \A x \in Places \ {from, to} : (Exists(x)' <=> Exists(x)) /\ (Used(x)' <=> Used(x))
        /\ Used(Lost)' => Used(Lost)
        /\ Used(Strayed)' => Used(Strayed) \/ Used(to)
    BY <2>4, <2>5, <2>6, RenameEffect
  <2>8. ~Used(to)
    <3>1. ~Exists(to)
      BY <1>1, <2>2 DEF VInv, Fresh
    <3> QED BY <2>4, <3>1 DEF VInv, Real
  <2>9. /\ Others(p) /\ job'[p].pc = "meta" /\ job'[p].kind = job[p].kind /\ job'[p].site = job[p].site
        /\ job'[p].src = job[p].src /\ job'[p].id = to
    <3>1. job \in [Procs -> Job] /\ "meta" \in Pcs
      BY DEF VInv, Shapes, Pcs
    <3> QED BY <1>3, <2>2, <3>1 DEF Others, Job
  <2>10. \A x \in Places \ {from, to} : Kept(x)
    BY <1>1, <2>7 DEF Kept
  <2>11. Owes(p, {from, to})
    <3>1. Typed' /\ used <= used'
      BY <1>1, <1>3, <2>7 DEF VInv, Typed
    <3>2. to \in 1..used' /\ to # None
      BY <1>1, <1>3, <2>2, <2>4, Apart
    <3>3. /\ job[p].src = None
           /\ \/ p \in Handlers /\ p # Tick /\ job[p].kind = "delete" /\ job[p].site \in Sites
              \/ p \in Handlers /\ p # Tick /\ job[p].kind = "update" /\ job[p].site = None
              \/ p = Tick /\ p \notin Handlers /\ job[p].kind \in {"recreate", "stop", "displace"}
                 /\ job[p].site = None
      BY <1>1, Holder
    <3>4. p = Tick => TickShape'
      BY <2>9, <3>2, <3>3 DEF TickShape
    <3>5. p \in Handlers => HandlerShape(p)'
      BY <2>9, <3>2, <3>3 DEF HandlerShape
    <3>6. \A x \in {from, to} : Used(x)' => Exists(x)'
      BY <2>7
    <3>7. \A i \in {from, to} \cap Held : i <= used'
      BY <1>1, <1>3, <2>2, <2>4
    <3>8. \A r \in {from, to} \cap Reserved : /\ Exists(r)' => Exists(r)
                                              /\ row'[r] # "bind"
                                              /\ Used(r)' => row'[r] # None
      <4> SUFFICES ASSUME NEW r \in {from, to} \cap Reserved
                   PROVE  ~Exists(r)' /\ row'[r] # "bind" /\ ~Used(r)'
        OBVIOUS
      <4>1. r = from
        BY <2>4, Apart
      <4> QED BY <1>1, <2>7, <4>1 DEF VInv, Reserves
    <3>9. RowLast(p)'
      BY <2>3, <2>7, <2>9 DEF RowLast
    <3>10. ~Used(Lost)'
      BY <2>7 DEF VInv, NothingLost
    <3> QED BY <1>1, <2>9, <2>10, <3>1, <3>4, <3>5, <3>6, <3>7, <3>8, <3>9, <3>10 DEF Owes
  <2>12. ASSUME ~raced, ~torn, Agree PROVE OwesMore(p, {from, to}) /\ (scene.old \/ ~Used(Strayed)')
    <3>1. scene.old \/ ~Used(Strayed)'
      BY <2>7, <2>8, <2>12 DEF LInv, NothingStrays
    <3>2. Midway(p)'
      <4>1. to \notin meta
        BY <1>1, <2>2 DEF VInv, Typed
      <4> QED BY <1>1, <2>3, <2>7, <2>9, <4>1 DEF Midway, At, AtOf
    <3>3. {from, to} \cap Sites \subseteq {job[p].site} /\ {from, to} \cap Held \subseteq {used + 1}
      BY <2>2, <2>3, <2>4, Apart
    <3>4. ASSUME NEW s \in Sites, s = job[p].site PROVE job'[p].site = s /\ HalfSite(p)'
      BY <1>1, <2>9, <3>4, Holder, Apart DEF HalfSite
    <3>5. HalfId(p)' /\ job[p].id = None
      BY <1>1, <2>9, <2>12, Holder DEF HalfId
    <3>6. None \notin 1..used'
      BY PlacesAssumption
    <3>7. \A i \in 1..used' : i \in {job[p].id, used + 1} => job'[p].id = i
      BY <2>2, <2>9, <3>5, <3>6
    <3> QED BY <1>3, <2>2, <2>9, <2>10, <3>1, <3>2, <3>3, <3>4, <3>5, <3>7 DEF OwesMore
  <2>13. Exists(Legacy)' => Exists(Legacy)
    BY <2>4, <2>7
  <2> QED BY <1>1, <2>4, <2>9, <2>11, <2>12, <2>13, HandledKeeps DEF Handled
<1> QED BY <1>2, <1>3 DEF HoldRename

LEMMA HoldMetaKeeps ==
  ASSUME VInv, LInv, NEW p \in Procs, HoldMeta(p)
  PROVE  VInv' /\ LInv'
<1>1. /\ job[p].pc = "meta" /\ meta' = meta \cup {job[p].id}
      /\ UNCHANGED <<disk, at, mount, used, row, btrfs, scene, raced, torn>>
  BY DEF HoldMeta, At, bounds, ghosts
<1>2. PICK i \in 1..used : i = job[p].id
  BY <1>1, Holder
<1>3. i \in Held /\ i \in Places /\ i \notin Sites /\ i \in Nat /\ i <= used /\ used \in Nat
  BY <1>2, NamesOK, Apart DEF VInv
<1>4. PICK pc \in Pcs : pc = AfterHold(p) /\ AfterPc(p, pc)
  BY <1>1, Holder DEF AfterHold, AfterPc, Pcs
<1>5. /\ Others(p) /\ job'[p].pc = pc /\ job'[p].kind = job[p].kind /\ job'[p].site = job[p].site
      /\ job'[p].src = job[p].src /\ job'[p].id = None
  <2>1. job \in [Procs -> Job] /\ job' = [job EXCEPT ![p].pc = pc, ![p].id = None]
    BY <1>4 DEF VInv, Shapes, HoldMeta
  <2> QED BY <2>1 DEF Others, Job
<1>6. \A x : (Exists(x)' <=> Exists(x)) /\ (Used(x)' <=> Used(x))
  BY <1>1 DEF Exists, Used
<1>7. \A x \in Places \ {i} : Kept(x)
  BY <1>1, <1>2, <1>6 DEF Kept
<1>8. Owes(p, {i})
  <2>1. Typed' /\ used <= used'
    <3>1. StoreOK' /\ meta' \subseteq 1..used'
      BY <1>1, <1>2 DEF VInv, Typed, StoreOK
    <3> QED BY <1>1, <1>3, <3>1 DEF VInv, Typed
  <2>2. (p = Tick => TickShape') /\ (p \in Handlers => HandlerShape(p)')
    BY <1>1, <1>4, <1>5, <2>1, AfterShape
  <2>3. RowLast(p)'
    <3>1. job[p].kind = "delete" /\ job[p].site \in Reserved => ~Exists(job[p].site)
      BY <1>1 DEF VInv, Reserves, RowLast
    <3> QED BY <1>5, <1>6, <3>1 DEF RowLast
  <2>4. i \notin Reserved /\ (Used(i)' => Exists(i)') /\ ~Used(Lost)'
    BY <1>3, <1>6, Apart DEF VInv, Real, NothingLost
  <2> QED BY <1>1, <1>3, <1>5, <1>7, <2>1, <2>2, <2>3, <2>4 DEF Owes
<1>9. ASSUME ~raced, ~torn, Agree PROVE OwesMore(p, {i}) /\ (scene.old \/ ~Used(Strayed)')
  <2>1. scene.old \/ ~Used(Strayed)'
    BY <1>6, <1>9 DEF LInv, NothingStrays
  <2>2. Exists(i) /\ (job[p].kind = "delete" => ~Exists(job[p].site))
    BY <1>1, <1>2, <1>9 DEF Agree, Midway, At, AtOf
  <2>3. job'[p].pc \notin {"meta", "rm_meta", "restore", "move", "restored", "insert", "rm_site"}
        /\ job[p].kind # "restore"
    BY <1>1, <1>4, <1>5, Holder DEF AfterPc
  <2>4. Midway(p)'
    BY <1>5, <1>6, <2>2, <2>3 DEF Midway, At, AtOf
  <2>5. ASSUME NEW s \in Sites, s = job[p].site PROVE job'[p].site = s /\ HalfSite(p)'
    <3>1. job[p].kind = "delete"
      BY <1>1, <2>5, Holder, Apart
    <3> QED BY <1>4, <1>5, <2>5, <3>1 DEF HalfSite, AfterPc
  <2>6. \A j \in 1..used' : j \in {job[p].id, used + 1} => j = i
    BY <1>1, <1>2, <1>3
  <2>7. IdAgrees(i)'
    BY <1>1, <1>2, <1>6, <2>2 DEF IdAgrees
  <2> QED BY <1>1, <1>2, <1>3, <1>5, <1>7, <2>1, <2>4, <2>5, <2>6, <2>7 DEF OwesMore
<1>10. p = Tick /\ ~scene.old => job'[Tick].pc # "rm"
  BY <1>1, <1>4, <1>5, Holder DEF AfterPc
<1> QED BY <1>1, <1>3, <1>6, <1>8, <1>9, <1>10, HandledKeeps DEF Handled

LEMMA FailKeeps ==
  ASSUME VInv, LInv, NEW p \in Procs, Fail(p)
  PROVE  VInv' /\ LInv'
<1>1. Quietly
  BY DEF Fail, Quietly, store
<1>2. job[p].pc \in Halfway => torn'
  BY DEF Fail
<1>3. torn' \/ (~HalfSite(p) /\ ~HalfId(p))
  BY <1>2 DEF HalfSite, HalfId, Halfway
<1>4. CASE job[p].pc \in {"hold", "meta"}
  BY <1>1, <1>2, <1>4, OnErrorKeeps DEF Fail, Halfway
<1>5. CASE job[p].pc \notin {"hold", "meta"} /\ p \in Handlers
  BY <1>1, <1>3, <1>5, EndKeeps DEF Fail
<1>6. CASE job[p].pc \notin {"hold", "meta"} /\ p = Tick
  BY <1>1, <1>6, TickEnds DEF Fail
<1> QED BY <1>4, <1>5, <1>6 DEF Procs

-----------------------------------------------------------------------------
(* The requests: the steps that change something.                          *)

\* A step of a handler at its name, its id, or both.
Serves(h, X) ==
  /\ Others(h) /\ HandlerShape(h)' /\ RowLast(h)'
  /\ job'[h].site \in {job[h].site, None} /\ job'[h].src \in {job[h].src, None}
  /\ job'[h].id \in {job[h].id, None}
  /\ StoreOK' /\ UNCHANGED <<used, btrfs, scene, raced, torn>>
  /\ meta' \subseteq meta /\ row' \in [Sites -> {None, "managed", "bind", "snapshot"}]
  /\ X \subseteq {job[h].site, job[h].id} \ {None}
  /\ \A x \in Places \ X : Kept(x)
  /\ \A x \in X : Used(x)' => Exists(x)'
  /\ \A r \in X \cap Reserved : /\ Exists(r)' => Exists(r)
                                /\ row'[r] # "bind"
                                /\ Used(r)' => row'[r] # None
  /\ ~Used(Lost)'
  /\ ~raced /\ ~torn /\ Agree =>
       /\ Midway(h)' /\ (scene.old \/ ~Used(Strayed)')
       /\ \A s \in Sites : s = job[h].site /\ (job'[h].site = s => ~HalfSite(h)') => SiteAgrees(s)'
       /\ \A i \in 1..used : i = job[h].id /\ (job'[h].id = i => ~HalfId(h)') => IdAgrees(i)'

LEMMA ServesKeeps ==
  ASSUME VInv, LInv, NEW h \in Handlers, NEW X \in SUBSET Places, Serves(h, X)
  PROVE  VInv' /\ LInv'
<1>1. h \in Procs /\ h # Tick
  BY Apart
<1>2. /\ job[h].site \in Sites \cup {None} /\ job[h].id \in (1..used) \cup {None}
      /\ used \in Nat /\ 1..used \subseteq Held /\ used' = used
  BY <1>1, NamesOK DEF VInv, Serves
<1>3. X \cap Sites \subseteq {job[h].site} /\ X \cap Held \subseteq {job[h].id} \cap (1..used)
  BY <1>2, Apart DEF Serves
<1>4. Typed'
  BY DEF Serves, VInv, Typed
<1>5. Owes(h, X)
  <2>1. \A i \in X \cap Held : i <= used' 
    BY <1>2, <1>3
  <2>2. \A x \in Places \ X : Kept(x)
    BY DEF Serves
  <2> QED BY <1>1, <1>2, <1>4, <2>1, <2>2 DEF Owes, Serves
<1>6. ASSUME ~raced, ~torn, Agree PROVE OwesMore(h, X) /\ (scene.old \/ ~Used(Strayed)')
  <2>1. \A i \in 1..used' : i \in {job[h].id, used + 1} => i \in 1..used /\ i = job[h].id
    BY <1>2
  <2> QED BY <1>2, <1>3, <1>6, <2>1 DEF OwesMore, Serves
<1>7. Exists(Legacy)' => Exists(Legacy)
  <2>1. Legacy \notin X /\ Legacy \in Places
    BY <1>2, Apart DEF Serves
  <2> QED BY <2>1 DEF Serves, Kept
<1> QED BY <1>1, <1>5, <1>6, <1>7, HandledKeeps DEF Handled, Serves

LEMMA DeleteHeldKeeps ==
  ASSUME VInv, LInv, NEW h \in Handlers, DeleteHeld(h)
  PROVE  VInv' /\ LInv'
<1>1. /\ job[h].pc = "rm_held" /\ job[h].kind = "delete_held" /\ h \in Procs
      /\ job[h].site = None /\ job[h].src = None /\ job[h].id \in 1..used
      /\ UNCHANGED <<meta, used, row, btrfs, scene, raced, torn>>
  BY Apart DEF VInv, Shapes, HandlerShape, Idle, DeleteHeld, At, bounds, ghosts
<1>2. PICK i \in Held : i = job[h].id
  BY <1>1, NamesOK DEF VInv
<1>3. ~HalfSite(h) /\ ~HalfId(h) /\ i \in Places /\ StoreOK /\ i # None /\ i \notin Reserved
  BY <1>1, <1>2, Apart DEF HalfSite, HalfId, VInv, Typed
<1>4. CASE End(h) /\ UNCHANGED <<disk, at, mount>>
  BY <1>1, <1>3, <1>4, EndKeeps DEF Quietly
<1>5. ASSUME Goto(h, "rm_meta")
      PROVE  /\ Others(h) /\ job'[h].pc = "rm_meta" /\ job'[h].kind = job[h].kind
             /\ SameNames(h) /\ HandlerShape(h)' /\ RowLast(h)' /\ "rm_meta" \in Pcs
             /\ ~Exists(i)' => Midway(h)'
  <2>1. "rm_meta" \in Pcs
    BY DEF Pcs
  <2>2. /\ Others(h) /\ SameNames(h) /\ job'[h].pc = "rm_meta" /\ job'[h].kind = job[h].kind
    BY <1>1, <1>5, <2>1, GotoOK DEF VInv
  <2>3. HandlerShape(h)' /\ RowLast(h)'
    BY <1>1, <2>2 DEF HandlerShape, RowLast, SameNames
  <2>4. ~Exists(i)' => Midway(h)'
    BY <1>1, <1>2, <2>2 DEF Midway, At, AtOf, SameNames
  <2> QED BY <2>1, <2>2, <2>3, <2>4
<1>6. CASE ~Exists(i) /\ Goto(h, "rm_meta") /\ UNCHANGED <<disk, at, mount>>
  <2>1. ~Exists(i)'
    BY <1>6 DEF Exists
  <2> QED BY <1>1, <1>3, <1>5, <1>6, <2>1, GotoKeeps DEF Quietly
<1>7. CASE Remove(i, Confirmed) /\ Goto(h, "rm_meta")
  <2>1. /\ StoreOK' /\ ~Exists(i)' /\ ~Used(i)'
        /\ \A x \in Places \ {i} : (Exists(x)' <=> Exists(x)) /\ (Used(x)' <=> Used(x))
        /\ Used(Lost)' => Used(Lost)
        /\ Used(Strayed)' => Used(Strayed)
    BY <1>3, <1>7, RemoveEffect, Apart
  <2>2. \A x \in Places \ {i} : Kept(x)
    BY <1>1, <2>1 DEF Kept
  <2>3. HalfId(h)'
    BY <1>5, <1>7 DEF HalfId
  <2>4. ~Used(Lost)' /\ (~raced /\ ~torn => scene.old \/ ~Used(Strayed)')
    BY <2>1 DEF VInv, NothingLost, LInv, NothingStrays
  <2>5. row' \in [Sites -> {None, "managed", "bind", "snapshot"}] /\ None \notin Sites
    BY <1>1, Apart DEF VInv, Typed
  <2>6. Serves(h, {i})
    BY <1>1, <1>2, <1>3, <1>5, <1>7, <2>1, <2>2, <2>3, <2>4, <2>5 DEF Serves, SameNames
  <2> QED BY <1>3, <2>6, ServesKeeps
<1>8. CASE RemovePart(i, Confirmed) /\ End(h)
  <2>1. /\ StoreOK' /\ disk' = disk /\ (\A x \in Places : Used(x)' => Used(x))
        /\ Used(Lost)' => Used(Lost)
        /\ Used(Strayed)' => Used(Strayed)
    BY <1>3, <1>8, RemovePartEffect, Apart
  <2>2. ~Used(Lost)' /\ (~raced /\ ~torn => scene.old \/ ~Used(Strayed)')
    BY <2>1 DEF VInv, NothingLost, LInv, NothingStrays
  <2>3. Softly
    BY <1>1, <2>1, <2>2 DEF Softly
  <2>4. MovesOn(h)
    BY <1>3, <1>8, EndMoves
  <2> QED BY <1>1, <2>3, <2>4, SoftKeeps
<1> QED BY <1>2, <1>4, <1>6, <1>7, <1>8 DEF DeleteHeld

LEMMA DeleteMetaKeeps ==
  ASSUME VInv, LInv, NEW h \in Handlers, DeleteMeta(h)
  PROVE  VInv' /\ LInv'
<1>1. /\ job[h].pc = "rm_meta" /\ job[h].kind = "delete_held" /\ h \in Procs
      /\ job[h].site = None /\ job[h].id \in 1..used /\ meta' = meta \ {job[h].id} /\ End(h)
      /\ UNCHANGED <<disk, at, mount, used, row, btrfs, scene, raced, torn>>
  BY Apart DEF VInv, Shapes, HandlerShape, Idle, DeleteMeta, At, bounds, ghosts
<1>2. PICK i \in Held : i = job[h].id
  BY <1>1, NamesOK DEF VInv
<1>3. i \in Places /\ i # None /\ i \notin Reserved /\ None \notin Sites
  BY <1>2, Apart
<1>4. /\ Others(h) /\ HandlerShape(h)' /\ RowLast(h)' /\ Midway(h)'
      /\ job'[h].site = None /\ job'[h].src = None /\ job'[h].id = None
  BY <1>1, Answers
<1>5. \A x : (Exists(x)' <=> Exists(x)) /\ (Used(x)' <=> Used(x))
  BY <1>1 DEF Exists, Used
<1>6. \A x \in Places \ {i} : Kept(x)
  BY <1>1, <1>2, <1>5 DEF Kept
<1>7. ~Used(Lost)' /\ (~raced /\ ~torn => scene.old \/ ~Used(Strayed)')
  BY <1>5 DEF VInv, NothingLost, LInv, NothingStrays
<1>8. Agree => IdAgrees(i)'
  BY <1>1, <1>2, <1>5 DEF Agree, Midway, At, AtOf, IdAgrees
<1>9. StoreOK' /\ row' \in [Sites -> {None, "managed", "bind", "snapshot"}] /\ (Used(i)' => Exists(i)')
  BY <1>1, <1>3, <1>5 DEF VInv, Typed, StoreOK, Real
<1>10. Serves(h, {i})
  BY <1>1, <1>2, <1>3, <1>4, <1>6, <1>7, <1>8, <1>9 DEF Serves
<1> QED BY <1>3, <1>10, ServesKeeps

LEMMA RestoreMoveKeeps ==
  ASSUME VInv, LInv, NEW h \in Handlers, RestoreMove(h)
  PROVE  VInv' /\ LInv'
<1>1. /\ job[h].pc = "move" /\ job[h].kind = "restore" /\ h \in Procs /\ job[h].src = None
      /\ job[h].site \in Sites \ Reserved /\ job[h].id \in 1..used
      /\ UNCHANGED <<meta, used, row, btrfs, scene, raced, torn>>
  BY Apart DEF VInv, Shapes, HandlerShape, Idle, RestoreMove, At, bounds, ghosts
<1>2. PICK i \in Held : i = job[h].id
  BY <1>1, NamesOK DEF VInv
<1>3. PICK s \in Sites : s = job[h].site
  BY <1>1
<1>4. ~HalfSite(h) /\ ~HalfId(h)
  BY <1>1 DEF HalfSite, HalfId
<1>5. CASE End(h) /\ UNCHANGED <<disk, at, mount>>
  BY <1>1, <1>4, <1>5, EndKeeps DEF Quietly
<1>6. CASE CanRename(i, s) /\ Rename(i, s) /\ Goto(h, "restored")
  <2>1. /\ i \in Places /\ s \in Places /\ i # s /\ i # None /\ s # None /\ i \notin Sites
        /\ s \notin Reserved /\ i \notin Reserved /\ s \notin 1..used /\ StoreOK /\ Exists(i)
    BY <1>1, <1>2, <1>3, <1>6, Apart, NamesOK DEF VInv, Typed, CanRename
  <2>2. /\ StoreOK' /\ ~Exists(i)' /\ Exists(s)' /\ ~Used(i)'
        /\ \A x \in Places \ {i, s} : (Exists(x)' <=> Exists(x)) /\ (Used(x)' <=> Used(x))
        /\ Used(Lost)' => Used(Lost)
        /\ Used(Strayed)' => Used(Strayed) \/ Used(s)
    BY <1>6, <2>1, RenameEffect
  <2>3. Others(h) /\ SameNames(h) /\ job'[h].pc = "restored" /\ job'[h].kind = "restore"
    <3>1. "restored" \in Pcs
      BY DEF Pcs
    <3> QED BY <1>1, <1>6, <3>1, GotoOK DEF VInv
  <2>4. HandlerShape(h)' /\ RowLast(h)' /\ HalfSite(h)' /\ HalfId(h)'
    BY <1>1, <2>3 DEF HandlerShape, RowLast, HalfSite, HalfId, SameNames
  <2>5. \A x \in Places \ {i, s} : Kept(x)
    BY <1>1, <2>2 DEF Kept
  <2>6. ASSUME ~raced, ~torn, Agree PROVE Midway(h)' /\ (scene.old \/ ~Used(Strayed)')
    <3>1. row[s] = None /\ ~Exists(s)
      BY <1>1, <1>3, <2>6 DEF Agree, Midway, At, AtOf
    <3>2. i \in meta
      BY <1>1, <1>2, <1>4, <2>1, <2>6, Sole DEF IdAgrees
    <3>3. Midway(h)'
      BY <1>1, <1>2, <1>3, <2>2, <2>3, <3>1, <3>2 DEF Midway, At, AtOf, SameNames
    <3>4. ~Used(s)
      BY <2>1, <3>1 DEF VInv, Real
    <3> QED BY <2>2, <2>6, <3>3, <3>4 DEF LInv, NothingStrays
  <2>7. row' \in [Sites -> {None, "managed", "bind", "snapshot"}] /\ ~Used(Lost)'
    BY <1>1, <2>2 DEF VInv, Typed, NothingLost
  <2>8. Serves(h, {i, s})
    BY <1>1, <1>2, <1>3, <2>1, <2>2, <2>3, <2>4, <2>5, <2>6, <2>7 DEF Serves, SameNames
  <2> QED BY <2>1, <2>8, ServesKeeps
<1> QED BY <1>2, <1>3, <1>5, <1>6 DEF RestoreMove

LEMMA RestoreMetaKeeps ==
  ASSUME VInv, LInv, NEW h \in Handlers, RestoreMeta(h)
  PROVE  VInv' /\ LInv'
<1>1. /\ job[h].pc = "restored" /\ job[h].kind = "restore" /\ h \in Procs /\ job[h].src = None
      /\ job[h].site \in Sites \ Reserved /\ job[h].id \in 1..used /\ meta' = meta \ {job[h].id}
      /\ UNCHANGED <<disk, at, mount, used, row, btrfs, scene, raced, torn>>
  BY Apart DEF VInv, Shapes, HandlerShape, Idle, RestoreMeta, At, bounds, ghosts
<1>2. PICK i \in Held : i = job[h].id
  BY <1>1, NamesOK DEF VInv
<1>3. PICK s \in Sites : s = job[h].site
  BY <1>1
<1>4. i \in Places /\ i # None /\ i \notin Reserved /\ s \notin 1..used /\ s # i
  BY <1>2, <1>3, Apart, NamesOK DEF VInv
<1>5. \A x : (Exists(x)' <=> Exists(x)) /\ (Used(x)' <=> Used(x))
  BY <1>1 DEF Exists, Used
<1>6. \A x \in Places \ {i} : Kept(x)
  BY <1>1, <1>2, <1>5 DEF Kept
<1>7. ~Used(Lost)' /\ (~raced /\ ~torn => scene.old \/ ~Used(Strayed)')
  BY <1>5 DEF VInv, NothingLost, LInv, NothingStrays
<1>8. StoreOK' /\ row' \in [Sites -> {None, "managed", "bind", "snapshot"}] /\ (Used(i)' => Exists(i)')
  BY <1>1, <1>4, <1>5 DEF VInv, Typed, StoreOK, Real
<1>9. Agree => row[s] = None /\ Exists(s) /\ ~Exists(i) /\ i \in meta
  BY <1>1, <1>2, <1>3 DEF Agree, Midway, At, AtOf
<1>10. CASE i \in meta /\ Goto(h, "insert")
  <2>1. Others(h) /\ SameNames(h) /\ job'[h].pc = "insert" /\ job'[h].kind = "restore"
    <3>1. "insert" \in Pcs
      BY DEF Pcs
    <3> QED BY <1>1, <1>10, <3>1, GotoOK DEF VInv
  <2>2. HandlerShape(h)' /\ RowLast(h)' /\ HalfSite(h)' /\ HalfId(h)'
    BY <1>1, <2>1 DEF HandlerShape, RowLast, HalfSite, HalfId, SameNames
  <2>3. Agree => Midway(h)'
    BY <1>1, <1>2, <1>3, <1>5, <1>9, <2>1 DEF Midway, At, AtOf, SameNames
  <2>4. Serves(h, {i})
    BY <1>1, <1>2, <1>4, <1>6, <1>7, <1>8, <2>1, <2>2, <2>3 DEF Serves, SameNames
  <2> QED BY <1>4, <2>4, ServesKeeps
<1>11. CASE i \notin meta /\ End(h)
  <2>1. /\ Others(h) /\ HandlerShape(h)' /\ RowLast(h)'
        /\ job'[h].site = None /\ job'[h].src = None /\ job'[h].id = None
    BY <1>11, Answers
  <2>2. Serves(h, {i})
    BY <1>1, <1>2, <1>4, <1>6, <1>7, <1>8, <1>9, <1>11, <2>1 DEF Serves
  <2> QED BY <1>4, <2>2, ServesKeeps
<1> QED BY <1>2, <1>10, <1>11 DEF RestoreMeta

\* CreateStorage and Snap make the directory of a name, and go on to its row.
LEMMA MakesKeeps ==
  ASSUME VInv, LInv, NEW h \in Handlers, job[h].pc \in {"storage", "snap"},
         NEW s \in Sites, s = job[h].site, Makes(s), Goto(h, "insert"),
         UNCHANGED <<meta, used, row, btrfs, scene, raced, torn>>
  PROVE  VInv' /\ LInv'
<1>1. /\ h \in Procs /\ job[h].site \in Sites \ Reserved /\ job[h].id = None
      /\ \/ job[h].kind = "create" /\ job[h].src = None
         \/ job[h].kind = "snapshot" /\ job[h].src \in Sites \cup {App}
         \/ job[h].kind = "promote" /\ job[h].src \in Sites
  BY Apart DEF VInv, Shapes, HandlerShape, Idle
<1>2. s \in Places /\ s # None /\ s \notin Reserved /\ None \notin 1..used
  BY <1>1, Apart, NamesOK DEF VInv
<1>3. Others(h) /\ SameNames(h) /\ job'[h].pc = "insert" /\ job'[h].kind = job[h].kind
  <2>1. "insert" \in Pcs
    BY DEF Pcs
  <2> QED BY <1>1, <2>1, GotoOK DEF VInv
<1>4. HandlerShape(h)' /\ RowLast(h)'
  BY <1>1, <1>3 DEF HandlerShape, RowLast, SameNames
<1>5. Midway(h)'
  BY <1>1, <1>3 DEF Midway, At, AtOf, SameNames, Makes
<1>6. \A x \in Places \ {s} : Kept(x)
  BY DEF Kept, Makes
<1>7. ~Used(Lost)' /\ (~raced /\ ~torn => scene.old \/ ~Used(Strayed)')
  BY DEF VInv, NothingLost, LInv, NothingStrays, Makes
<1>8. StoreOK' /\ row' \in [Sites -> {None, "managed", "bind", "snapshot"}] /\ Exists(s)'
  BY DEF VInv, Typed, Makes
<1>9. Agree => SiteAgrees(s)'
  <2>1. ~HalfSite(h)
    BY <1>1 DEF HalfSite
  <2> QED BY <1>1, <2>1, Sole DEF SiteAgrees, Makes
<1>10. Serves(h, {s})
  BY <1>1, <1>2, <1>3, <1>4, <1>5, <1>6, <1>7, <1>8, <1>9 DEF Serves, SameNames
<1> QED BY <1>2, <1>10, ServesKeeps

LEMMA CreateStorageKeeps ==
  ASSUME VInv, LInv, NEW h \in Handlers, CreateStorage(h)
  PROVE  VInv' /\ LInv'
<1>1. /\ job[h].pc = "storage" /\ job[h].kind = "create" /\ job[h].site \in Sites
      /\ UNCHANGED <<at, mount, meta, used, row, btrfs, scene, raced, torn>>
  BY DEF VInv, Shapes, HandlerShape, Idle, CreateStorage, At, bounds, ghosts
<1>2. PICK s \in Sites : s = job[h].site
  BY <1>1
<1>3. CASE End(h) /\ disk' = disk
  <2>1. ~HalfSite(h) /\ ~HalfId(h)
    BY <1>1 DEF HalfSite, HalfId
  <2> QED BY <1>1, <1>3, <2>1, EndKeeps DEF Quietly
<1>4. CASE Create(s) /\ Goto(h, "insert")
  <2>1. Makes(s)
    BY <1>1, <1>4, CreateEffect, Apart DEF VInv, Typed
  <2> QED BY <1>1, <1>2, <1>4, <2>1, MakesKeeps
<1> QED BY <1>2, <1>3, <1>4 DEF CreateStorage

LEMMA SnapKeeps ==
  ASSUME VInv, LInv, NEW h \in Handlers, Snap(h)
  PROVE  VInv' /\ LInv'
<1>1. /\ job[h].pc = "snap" /\ job[h].kind \in {"snapshot", "promote"} /\ job[h].site \in Sites
      /\ UNCHANGED <<at, mount, meta, used, row, btrfs, scene, raced, torn>>
  BY DEF VInv, Shapes, HandlerShape, Idle, Snap, At, bounds, ghosts
<1>2. PICK s \in Sites : s = job[h].site
  BY <1>1
<1>3. CASE End(h) /\ disk' = disk
  <2>1. ~HalfSite(h) /\ ~HalfId(h)
    BY <1>1 DEF HalfSite, HalfId
  <2> QED BY <1>1, <1>3, <2>1, EndKeeps DEF Quietly
<1>4. CASE TakeSnapshot(job[h].src, s, job[h].kind = "snapshot") /\ Goto(h, "insert")
  <2>1. PICK from : from = job[h].src
    OBVIOUS
  <2>2. PICK readonly \in BOOLEAN : readonly = (job[h].kind = "snapshot")
    OBVIOUS
  <2>3. Makes(s)
    BY <1>1, <1>4, <2>1, <2>2, SnapshotEffect, Apart DEF VInv, Typed
  <2> QED BY <1>1, <1>2, <1>4, <2>3, MakesKeeps
<1> QED BY <1>2, <1>3, <1>4 DEF Snap

LEMMA InsertKeeps ==
  ASSUME VInv, LInv, NEW h \in Handlers, Insert(h)
  PROVE  VInv' /\ LInv'
<1>1. /\ job[h].pc = "insert" /\ job[h].site \in Sites \ Reserved /\ h \in Procs /\ End(h)
      /\ job[h].kind \in {"restore", "create", "bind", "snapshot", "promote"}
      /\ job[h].kind # "restore" => job[h].id = None
      /\ UNCHANGED <<disk, at, mount, meta, used, btrfs, scene, raced, torn>>
  BY Apart DEF VInv, Shapes, HandlerShape, Idle, Insert, At, store, bounds, ghosts
<1>2. PICK s \in Sites : s = job[h].site
  BY <1>1
<1>3. s \in Places /\ s # None /\ s \notin Reserved /\ None \notin 1..used
  BY <1>1, <1>2, Apart, NamesOK DEF VInv
<1>4. PICK k \in {"managed", "bind", "snapshot"} :
        /\ row' = IF row[s] # None THEN row ELSE [row EXCEPT ![s] = k]
        /\ k = "managed" => job[h].kind \in {"restore", "create", "promote"}
        /\ k = "snapshot" => job[h].kind = "snapshot"
        /\ job[h].kind = "restore" => k = "managed"
  BY <1>1, <1>2 DEF Insert
<1>5. row \in [Sites -> {None, "managed", "bind", "snapshot"}]
  BY DEF VInv, Typed
<1>6. row' \in [Sites -> {None, "managed", "bind", "snapshot"}] /\ \A r \in Sites \ {s} : row'[r] = row[r]
  BY <1>4, <1>5
<1>7. \A x : (Exists(x)' <=> Exists(x)) /\ (Used(x)' <=> Used(x))
  BY <1>1 DEF Exists, Used
<1>8. \A x \in Places \ {s} : Kept(x)
  BY <1>1, <1>6, <1>7 DEF Kept
<1>9. ~Used(Lost)' /\ (~raced /\ ~torn => scene.old \/ ~Used(Strayed)')
  BY <1>7 DEF VInv, NothingLost, LInv, NothingStrays
<1>10. StoreOK' /\ (Used(s)' => Exists(s)')
  BY <1>1, <1>3, <1>7 DEF VInv, Typed, StoreOK, Real
<1>11. /\ Others(h) /\ HandlerShape(h)' /\ RowLast(h)' /\ Midway(h)'
       /\ job'[h].site = None /\ job'[h].src = None /\ job'[h].id = None
  BY <1>1, Answers
<1>12. ASSUME Agree
       PROVE  SiteAgrees(s)' /\ \A i \in 1..used : i = job[h].id => IdAgrees(i)'
  <2>1. CASE job[h].kind = "restore"
    <3>1. row[s] = None /\ Exists(s) /\ ~Exists(job[h].id) /\ job[h].id \notin meta
      BY <1>1, <1>2, <1>12, <2>1 DEF Agree, Midway, At, AtOf
    <3>2. row'[s] = "managed"
      BY <1>4, <1>5, <2>1, <3>1
    <3> QED BY <1>1, <1>7, <3>1, <3>2 DEF SiteAgrees, IdAgrees
  <2>2. CASE job[h].kind # "restore"
    <3>1. SiteAgrees(s) /\ job[h].id = None
      <4>1. ~HalfSite(h)
        BY <1>1, <2>2 DEF HalfSite
      <4> QED BY <1>1, <1>2, <1>12, <2>2, <4>1, Sole
    <3>2. job[h].kind \in {"create", "snapshot", "promote"} => Exists(s)
      BY <1>1, <1>2, <1>12 DEF Agree, Midway, At
    <3>3. CASE row[s] # None
      BY <1>3, <1>4, <1>7, <3>1, <3>3 DEF SiteAgrees
    <3>4. CASE row[s] = None
      <4>1. row'[s] = k /\ ~Used(s)
        BY <1>4, <1>5, <3>1, <3>4, PlacesAssumption DEF SiteAgrees
      <4> QED BY <1>3, <1>4, <1>7, <2>2, <3>1, <3>2, <4>1 DEF SiteAgrees
    <3> QED BY <3>3, <3>4
  <2> QED BY <2>1, <2>2
<1>13. Serves(h, {s})
  BY <1>1, <1>2, <1>3, <1>6, <1>8, <1>9, <1>10, <1>11, <1>12 DEF Serves
<1> QED BY <1>3, <1>13, ServesKeeps

LEMMA DeleteSnapshotKeeps ==
  ASSUME VInv, LInv, NEW h \in Handlers, DeleteSnapshot(h)
  PROVE  VInv' /\ LInv'
<1>1. /\ job[h].pc = "rm_site" /\ job[h].kind = "delete" /\ job[h].site \in Sites /\ h \in Procs
      /\ job[h].src = None /\ job[h].id = None
      /\ UNCHANGED <<meta, used, row, btrfs, scene, raced, torn>>
  BY Apart DEF VInv, Shapes, HandlerShape, Idle, DeleteSnapshot, At, bounds, ghosts
<1>2. PICK s \in Sites : s = job[h].site
  BY <1>1
<1>3. s \in Places /\ s # None /\ None \notin 1..used /\ StoreOK /\ ~HalfSite(h) /\ ~HalfId(h)
  BY <1>1, <1>2, Apart, NamesOK DEF VInv, Typed, HalfSite, HalfId
<1>4. ASSUME Agree PROVE ~Used(s)
  BY <1>1, <1>2, <1>3, <1>4, Sole DEF Agree, Midway, At, AtOf, SiteAgrees
<1>5. ASSUME Goto(h, "unrow"), ~Exists(s)'
      PROVE  /\ Others(h) /\ SameNames(h) /\ HandlerShape(h)' /\ RowLast(h)' /\ Midway(h)'
             /\ HalfSite(h)' /\ "unrow" \in Pcs
  <2>1. "unrow" \in Pcs
    BY DEF Pcs
  <2>2. Others(h) /\ SameNames(h) /\ job'[h].pc = "unrow" /\ job'[h].kind = "delete"
    BY <1>1, <1>5, <2>1, GotoOK DEF VInv
  <2>3. HandlerShape(h)' /\ HalfSite(h)'
    BY <1>1, <2>2 DEF HandlerShape, HalfSite, SameNames
  <2>4. RowLast(h)' /\ Midway(h)'
    BY <1>2, <1>5, <2>2 DEF RowLast, Midway, At, AtOf, SameNames
  <2> QED BY <2>1, <2>2, <2>3, <2>4
<1>6. CASE ~Exists(s) /\ Goto(h, "unrow") /\ UNCHANGED <<disk, at, mount>>
  <2>1. ~Exists(s)'
    BY <1>6 DEF Exists
  <2> QED BY <1>1, <1>3, <1>5, <1>6, <2>1, GotoKeeps DEF Quietly
<1>7. CASE Remove(s, Strayed) /\ Goto(h, "unrow")
  <2>1. /\ StoreOK' /\ ~Exists(s)' /\ ~Used(s)'
        /\ \A x \in Places \ {s} : (Exists(x)' <=> Exists(x)) /\ (Used(x)' <=> Used(x))
        /\ Used(Lost)' => Used(Lost)
        /\ Used(Strayed)' => Used(Strayed) \/ Used(s)
    BY <1>3, <1>7, RemoveEffect
  <2>2. \A x \in Places \ {s} : Kept(x)
    BY <1>1, <2>1 DEF Kept
  <2>3. ~Used(Lost)' /\ (~raced /\ ~torn /\ Agree => scene.old \/ ~Used(Strayed)')
    BY <1>4, <2>1 DEF VInv, NothingLost, LInv, NothingStrays
  <2>4. row' \in [Sites -> {None, "managed", "bind", "snapshot"}]
        /\ \A r \in Reserved : row'[r] # "bind"
    BY <1>1 DEF VInv, Typed, Reserves
  <2>5. Serves(h, {s})
    BY <1>1, <1>2, <1>3, <1>5, <1>7, <2>1, <2>2, <2>3, <2>4 DEF Serves, SameNames
  <2> QED BY <1>3, <2>5, ServesKeeps
<1>8. CASE RemovePart(s, Strayed) /\ End(h)
  <2>1. /\ StoreOK' /\ disk' = disk /\ (\A x \in Places : Used(x)' => Used(x))
        /\ Used(Lost)' => Used(Lost)
        /\ Used(Strayed)' => Used(Strayed) \/ Used(s)
    BY <1>3, <1>8, RemovePartEffect
  <2>2. ~Used(Lost)' /\ (~raced /\ ~torn /\ Agree => scene.old \/ ~Used(Strayed)')
    BY <1>4, <2>1 DEF VInv, NothingLost, LInv, NothingStrays
  <2>3. Softly
    BY <1>1, <2>1, <2>2 DEF Softly
  <2>4. MovesOn(h)
    BY <1>3, <1>8, EndMoves
  <2> QED BY <1>1, <2>3, <2>4, SoftKeeps
<1> QED BY <1>2, <1>6, <1>7, <1>8 DEF DeleteSnapshot

LEMMA DeleteRowKeeps ==
  ASSUME VInv, LInv, NEW h \in Handlers, DeleteRow(h)
  PROVE  VInv' /\ LInv'
<1>1. /\ job[h].pc = "unrow" /\ job[h].kind = "delete" /\ job[h].site \in Sites /\ h \in Procs
      /\ job[h].id = None /\ End(h)
      /\ UNCHANGED <<disk, at, mount, meta, used, btrfs, scene, raced, torn>>
  BY Apart DEF VInv, Shapes, HandlerShape, Idle, DeleteRow, At, store, bounds, ghosts
<1>2. PICK s \in Sites : s = job[h].site
  BY <1>1
<1>3. s \in Places /\ s # None /\ None \notin 1..used
  BY <1>1, Apart, NamesOK DEF VInv
<1>4. row \in [Sites -> {None, "managed", "bind", "snapshot"}] /\ row' = [row EXCEPT ![s] = None]
  BY <1>2 DEF VInv, Typed, DeleteRow
<1>5. /\ row' \in [Sites -> {None, "managed", "bind", "snapshot"}]
      /\ row'[s] = None /\ \A r \in Sites \ {s} : row'[r] = row[r]
  BY <1>4
<1>6. \A x : (Exists(x)' <=> Exists(x)) /\ (Used(x)' <=> Used(x))
  BY <1>1 DEF Exists, Used
<1>7. \A x \in Places \ {s} : Kept(x)
  BY <1>1, <1>5, <1>6 DEF Kept
<1>8. ~Used(Lost)' /\ (~raced /\ ~torn => scene.old \/ ~Used(Strayed)')
  BY <1>6 DEF VInv, NothingLost, LInv, NothingStrays
<1>9. StoreOK' /\ (Used(s)' => Exists(s)')
  BY <1>1, <1>3, <1>6 DEF VInv, Typed, StoreOK, Real
<1>10. s \in Reserved => ~Used(s)'
  <2>1. s \in Reserved => ~Exists(s)
    BY <1>1, <1>2 DEF VInv, Reserves, RowLast
  <2> QED BY <1>3, <1>6, <2>1 DEF VInv, Real
<1>11. Agree => SiteAgrees(s)'
  <2>1. Agree => ~Exists(s) \/ ~Used(s)
    BY <1>1, <1>2 DEF Agree, Midway, At, AtOf
  <2>2. Agree => ~Used(s)
    BY <1>3, <2>1 DEF VInv, Real
  <2> QED BY <1>5, <1>6, <2>2, PlacesAssumption DEF SiteAgrees
<1>12. /\ Others(h) /\ HandlerShape(h)' /\ RowLast(h)' /\ Midway(h)'
       /\ job'[h].site = None /\ job'[h].src = None /\ job'[h].id = None
  BY <1>1, Answers
<1>13. None # "bind"
  BY PlacesAssumption
<1>14. Serves(h, {s})
  BY <1>1, <1>2, <1>3, <1>5, <1>6, <1>7, <1>8, <1>9, <1>10, <1>11, <1>12, <1>13 DEF Serves
<1> QED BY <1>3, <1>14, ServesKeeps

-----------------------------------------------------------------------------
(* The tick and its pods.                                                  *)

LEMMA TickStartKeeps ==
  ASSUME VInv, LInv, TickStart
  PROVE  VInv' /\ LInv'
<1>1. Quietly /\ job[Tick].pc = "idle" /\ torn' = torn
  BY DEF TickStart, Quietly, At, store, bounds, ghosts
<1>2. PICK want \in {None, "Ready", "Unscheduled"} :
        job' = [job EXCEPT ![Tick].pc = IF want = None THEN "done" ELSE "observe",
                           ![Tick].kind = want]
  BY DEF TickStart
<1>3. PICK pc \in {"done", "observe"} : job' = [job EXCEPT ![Tick].pc = pc, ![Tick].kind = want]
  BY <1>2
<1>4. /\ Others(Tick) /\ SameNames(Tick) /\ job'[Tick].pc = pc /\ job'[Tick].kind = want
  <2>1. job \in [Procs -> Job] /\ Tick \in Procs /\ pc \in Pcs /\ want \in Kinds \cup {None}
    BY Apart DEF VInv, Shapes, Pcs, Kinds
  <2> QED BY <1>3, <2>1 DEF Others, SameNames, Job
<1>5. TickShape'
  BY <1>1, <1>4 DEF VInv, Shapes, TickShape, SameNames, Quietly
<1> QED BY <1>1, <1>4, <1>5, TickGoes DEF SameNames

\* A tick that goes on to a step, with a kind that fits it.
LEMMA TickStepKeeps ==
  ASSUME VInv, LInv, Quietly, torn' = torn,
         NEW pc \in {"hold", "migrate", "rm", "mv", "create"},
         NEW kind \in {None, "Ready", "Unscheduled", "recreate", "stop", "displace"},
         pc = "hold" => kind \in {"recreate", "stop", "displace"},
         job' = [job EXCEPT ![Tick].pc = pc, ![Tick].kind = kind],
         job[Tick].pc # "meta", ~scene.old => pc # "rm"
  PROVE  VInv' /\ LInv'
<1>1. /\ Others(Tick) /\ SameNames(Tick) /\ job'[Tick].pc = pc /\ job'[Tick].kind = kind
  <2>1. job \in [Procs -> Job] /\ Tick \in Procs /\ pc \in Pcs /\ kind \in Kinds \cup {None}
    BY Apart DEF VInv, Shapes, Pcs, Kinds
  <2> QED BY <2>1 DEF Others, SameNames, Job
<1>2. TickShape'
  BY <1>1 DEF VInv, Shapes, TickShape, SameNames, Quietly
<1> QED BY <1>1, <1>2, TickGoes DEF SameNames

LEMMA ObserveKeeps ==
  ASSUME VInv, LInv, Observe
  PROVE  VInv' /\ LInv'
<1>1. Quietly /\ job[Tick].pc = "observe" /\ torn' = torn
  BY DEF Observe, Quietly, At, store, bounds, ghosts
<1>2. CASE End(Tick)
  BY <1>1, <1>2, TickEnds
<1>3. ASSUME NEW pc \in {"hold", "migrate"}, NEW kind \in {"recreate", "Ready", "stop"},
             pc = "hold" => kind \in {"recreate", "stop"},
             job' = [job EXCEPT ![Tick].pc = pc, ![Tick].kind = kind]
      PROVE  VInv' /\ LInv'
  BY <1>1, <1>3, TickStepKeeps
<1> QED BY <1>2, <1>3 DEF Observe

LEMMA MigrateKeeps ==
  ASSUME VInv, LInv, Migrate
  PROVE  VInv' /\ LInv'
<1>1. Quietly /\ job[Tick].pc = "migrate" /\ torn' = torn
  BY DEF Migrate, Quietly, At, store, bounds, ghosts
<1>2. ASSUME NEW pc \in {"create", "mv", "rm"}, Goto(Tick, pc), pc = "rm" => Exists(Legacy)
      PROVE  VInv' /\ LInv'
  <2>1. pc \in Pcs /\ (~scene.old => pc # "rm")
    BY <1>2 DEF Pcs, LInv, OldOnly
  <2>2. Others(Tick) /\ SameNames(Tick) /\ job'[Tick].pc = pc /\ job'[Tick].kind = job[Tick].kind
    BY <1>2, <2>1, GotoOK, Apart DEF VInv
  <2>3. TickShape'
    BY <1>1, <2>2 DEF VInv, Shapes, TickShape, SameNames, Quietly
  <2> QED BY <1>1, <2>1, <2>2, <2>3, TickGoes DEF SameNames
<1>3. CASE job' = [job EXCEPT ![Tick].pc = "hold", ![Tick].kind = "displace"]
  BY <1>1, <1>3, TickStepKeeps
<1> QED BY <1>2, <1>3 DEF Migrate

\* A step of the tick, or of a pod, at the app's own paths.
AtApp ==
  /\ Others(Tick) /\ TickShape' /\ StoreOK' /\ job'[Tick].pc # "meta"
  /\ job[Tick].pc = "meta" => torn
  /\ job'[Tick].id \in {job[Tick].id, None}
  /\ UNCHANGED <<meta, used, row, btrfs, scene, raced, torn>>
  /\ \A x \in Places \ {App, Legacy} : (Exists(x)' <=> Exists(x)) /\ (Used(x)' => Used(x))
  /\ \A x \in {App, Legacy} : Used(x)' => Exists(x)'
  /\ Exists(Legacy)' => Exists(Legacy)
  /\ ~scene.old => job'[Tick].pc # "rm"
  /\ Used(Lost)' => Used(Lost)
  /\ Used(Strayed)' => Used(Strayed) \/ scene.old

LEMMA AtAppKeeps ==
  ASSUME VInv, LInv, AtApp
  PROVE  VInv' /\ LInv'
<1>1. /\ Tick \in Procs /\ Tick \notin Handlers /\ {App, Legacy} \in SUBSET Places
      /\ {App, Legacy} \cap Sites = {} /\ {App, Legacy} \cap Held = {}
      /\ {App, Legacy} \cap Reserved = {} /\ None \notin Sites
  BY Apart
<1>2. job[Tick].site = None /\ job'[Tick].site = None /\ job[Tick].src = None /\ job'[Tick].src = None
  BY DEF VInv, Shapes, TickShape, AtApp
<1>3. RowLast(Tick)' /\ Midway(Tick)'
  BY PlacesAssumption DEF TickShape, RowLast, Midway, At, AtOf, AtApp
<1>4. \A x \in Places \ {App, Legacy} : Kept(x)
  BY DEF AtApp, Kept
<1>5. Owes(Tick, {App, Legacy})
  <2>1. Typed' /\ used <= used'
    BY DEF AtApp, VInv, Typed
  <2> QED BY <1>1, <1>3, <1>4, <2>1 DEF Owes, AtApp, VInv, NothingLost
<1>6. ASSUME ~raced, ~torn, Agree
      PROVE  OwesMore(Tick, {App, Legacy}) /\ (scene.old \/ ~Used(Strayed)')
  <2>1. scene.old \/ ~Used(Strayed)'
    BY <1>6 DEF AtApp, LInv, NothingStrays
  <2>2. job[Tick].id = None
    BY <1>6 DEF AtApp, VInv, Shapes, TickShape
  <2>3. \A i \in 1..used' : i \notin {job[Tick].id, used + 1}
    BY <1>1, <2>2, NamesOK, PlacesAssumption DEF AtApp, VInv, Typed
  <2> QED BY <1>1, <1>2, <1>3, <1>4, <2>1, <2>3 DEF OwesMore, AtApp
<1> QED BY <1>1, <1>5, <1>6, HandledKeeps DEF Handled, AtApp

LEMMA MigrateClearKeeps ==
  ASSUME VInv, LInv, MigrateClear
  PROVE  VInv' /\ LInv'
<1>1. /\ job[Tick].pc = "rm" /\ Goto(Tick, "mv") /\ scene.old
      /\ UNCHANGED <<meta, used, row, btrfs, scene, raced, torn>>
  BY DEF MigrateClear, At, bounds, ghosts, LInv, OldOnly
<1>2. Others(Tick) /\ SameNames(Tick) /\ job'[Tick].pc = "mv" /\ job'[Tick].kind = job[Tick].kind
  <2>1. "mv" \in Pcs
    BY DEF Pcs
  <2> QED BY <1>1, <2>1, GotoOK, Apart DEF VInv
<1>3. TickShape'
  BY <1>1, <1>2 DEF VInv, Shapes, TickShape, SameNames
<1>4. CASE UNCHANGED <<disk, at, mount>>
  BY <1>1, <1>2, <1>3, <1>4, TickGoes DEF Quietly, SameNames
<1>5. CASE Remove(App, Strayed)
  <2>1. /\ StoreOK' /\ ~Exists(App)' /\ ~Used(App)'
        /\ \A x \in Places \ {App} : (Exists(x)' <=> Exists(x)) /\ (Used(x)' <=> Used(x))
        /\ Used(Lost)' => Used(Lost)
    BY <1>5, RemoveEffect, Apart DEF VInv, Typed
  <2>2. (Exists(Legacy)' <=> Exists(Legacy)) /\ (Used(Legacy)' => Exists(Legacy)')
    BY <2>1, Apart DEF VInv, Real
  <2>3. AtApp
    BY <1>1, <1>2, <1>3, <2>1, <2>2 DEF AtApp, SameNames
  <2> QED BY <2>3, AtAppKeeps
<1> QED BY <1>4, <1>5 DEF MigrateClear

LEMMA MigrateMoveKeeps ==
  ASSUME VInv, LInv, MigrateMove
  PROVE  VInv' /\ LInv'
<1>1. /\ job[Tick].pc = "mv" /\ UNCHANGED <<meta, used, row, btrfs, scene, raced, torn>>
  BY DEF MigrateMove, At, bounds, ghosts
<1>2. CASE End(Tick) /\ UNCHANGED <<disk, at, mount>>
  BY <1>1, <1>2, TickEnds DEF Quietly
<1>3. CASE CanRename(Legacy, App) /\ Rename(Legacy, App) /\ Goto(Tick, "create")
  <2>1. Others(Tick) /\ SameNames(Tick) /\ job'[Tick].pc = "create" /\ job'[Tick].kind = job[Tick].kind
    <3>1. "create" \in Pcs
      BY DEF Pcs
    <3> QED BY <1>3, <3>1, GotoOK, Apart DEF VInv
  <2>2. TickShape'
    BY <1>1, <2>1 DEF VInv, Shapes, TickShape, SameNames
  <2>3. Exists(Legacy) /\ scene.old
    BY <1>3 DEF CanRename, LInv, OldOnly
  <2>4. /\ StoreOK' /\ ~Exists(Legacy)' /\ Exists(App)' /\ ~Used(Legacy)'
        /\ \A x \in Places \ {Legacy, App} : (Exists(x)' <=> Exists(x)) /\ (Used(x)' <=> Used(x))
        /\ Used(Lost)' => Used(Lost)
    BY <1>3, <2>3, RenameEffect, Apart DEF VInv, Typed
  <2>5. AtApp
    BY <1>1, <2>1, <2>2, <2>3, <2>4 DEF AtApp, SameNames
  <2> QED BY <2>5, AtAppKeeps
<1> QED BY <1>2, <1>3 DEF MigrateMove

LEMMA CreateAppKeeps ==
  ASSUME VInv, LInv, CreateApp
  PROVE  VInv' /\ LInv'
<1>1. /\ job[Tick].pc = "create" /\ End(Tick)
      /\ UNCHANGED <<at, mount, meta, used, row, btrfs, scene, raced, torn>>
  BY DEF CreateApp, At, bounds, ghosts
<1>2. CASE disk' = disk
  BY <1>1, <1>2, TickEnds DEF Quietly
<1>3. CASE Create(App)
  <2>1. Others(Tick) /\ SameNames(Tick) /\ job'[Tick].pc = "done" /\ job'[Tick].kind = job[Tick].kind
    BY <1>1, EndOK, Apart DEF VInv
  <2>2. TickShape'
    BY <1>1, <2>1 DEF VInv, Shapes, TickShape, SameNames
  <2>3. Makes(App)
    BY <1>1, <1>3, CreateEffect, Apart DEF VInv, Typed
  <2>4. (Exists(Legacy)' <=> Exists(Legacy)) /\ (Used(Legacy)' => Exists(Legacy)')
    BY <2>3, Apart DEF VInv, Real, Makes
  <2>5. AtApp
    BY <1>1, <2>1, <2>2, <2>3, <2>4 DEF AtApp, SameNames, Makes
  <2> QED BY <2>5, AtAppKeeps
<1> QED BY <1>2, <1>3 DEF CreateApp

LEMMA TickEndKeeps ==
  ASSUME VInv, LInv, TickEnd
  PROVE  VInv' /\ LInv'
<1>1. Quietly /\ job[Tick].pc = "done" /\ job' = [job EXCEPT ![Tick] = Idle] /\ torn' = torn
  BY DEF TickEnd, Quietly, At, store, bounds, ghosts
<1>2. Idle \in Job
  <2>1. "idle" \in Pcs
    BY DEF Pcs
  <2> QED BY <2>1 DEF Idle, Job
<1>3. Others(Tick) /\ job'[Tick] = Idle
  BY <1>1, <1>2, Apart DEF VInv, Shapes, Others
<1>4. TickShape' /\ job'[Tick].pc = "idle" /\ job'[Tick].id = None
  BY <1>3 DEF TickShape, Idle
<1> QED BY <1>1, <1>3, <1>4, TickGoes

\* The processes stand still; the app's directory may appear and containers come,
\* go and write.
Still ==
  /\ job' = job /\ StoreOK' /\ UNCHANGED <<meta, used, row, btrfs, scene, raced, torn>>
  /\ \A x \in Places \ {App} : Kept(x)
  /\ Used(App)' => Exists(App)'
  /\ Used(Lost)' => Used(Lost)
  /\ Used(Strayed)' => Used(Strayed)

LEMMA StillKeeps ==
  ASSUME VInv, LInv, Still
  PROVE  VInv' /\ LInv'
<1>1. /\ Tick \in Procs /\ Tick \notin Handlers /\ {App} \in SUBSET Places /\ Legacy \in Places \ {App}
      /\ {App} \cap Sites = {} /\ {App} \cap Held = {} /\ {App} \cap Reserved = {} /\ None \notin Sites
      /\ 1..used \subseteq Held /\ Held \subseteq Places
  BY Apart, NamesOK DEF VInv
<1>2. Typed' /\ used <= used' /\ used' = used /\ used \in Nat
  BY DEF Still, VInv, Typed
<1>3. Others(Tick) /\ TickShape' /\ job[Tick].site = None /\ RowLast(Tick)'
  <2>1. Others(Tick) /\ job'[Tick] = job[Tick] /\ job[Tick].site = None
    BY DEF Still, Others, VInv, Shapes, TickShape
  <2>2. TickShape'
    BY <1>2, <2>1, ShapeStays DEF Still, VInv, Shapes
  <2>3. RowLast(Tick)'
    BY <2>2, PlacesAssumption DEF RowLast, TickShape
  <2> QED BY <2>1, <2>2, <2>3
<1>4. \A x \in Places \ {App} : Kept(x)
  BY DEF Still
<1>5. Owes(Tick, {App})
  BY <1>1, <1>2, <1>3, <1>4 DEF Owes, Still, VInv, NothingLost
<1>6. ASSUME ~raced, ~torn, Agree PROVE OwesMore(Tick, {App}) /\ (scene.old \/ ~Used(Strayed)')
  <2>1. scene.old \/ ~Used(Strayed)'
    BY <1>6 DEF Still, LInv, NothingStrays
  <2>2. Midway(Tick)'
    <3>1. \A x \in {job[Tick].site, job[Tick].id} \ {None} : Kept(x)
      BY <1>1, <1>3, <1>4, NamesOK DEF VInv
    <3>2. Midway(Tick) /\ job'[Tick] = job[Tick]
      BY <1>1, <1>6 DEF Agree, Still
    <3> QED BY <1>1, <3>1, <3>2, MidwayStays DEF VInv
  <2>3. ASSUME NEW i \in 1..used', i \in {job[Tick].id, used + 1}, job'[Tick].id = i => ~HalfId(Tick)'
        PROVE  IdAgrees(i)'
    <3>1. i \in 1..used /\ i = job[Tick].id /\ Kept(i)
      BY <1>1, <1>2, <1>4, <2>3
    <3>2. ~HalfId(Tick)
      BY <2>3, <3>1 DEF HalfId, Still
    <3>3. IdAgrees(i)
      BY <1>1, <1>6, <3>1, <3>2, Sole
    <3> QED BY <3>1, <3>3 DEF IdAgrees, Kept
  <2> QED BY <1>1, <1>2, <1>3, <1>4, <2>1, <2>2, <2>3 DEF OwesMore, Still
<1>7. (Exists(Legacy)' => Exists(Legacy)) /\ (~scene.old => job'[Tick].pc # "rm")
  BY <1>1, <1>4 DEF Kept, Still, LInv, OldOnly
<1> QED BY <1>1, <1>5, <1>6, <1>7, HandledKeeps DEF Handled, Still

LEMMA PodEnsureKeeps ==
  ASSUME VInv, LInv, PodEnsure
  PROVE  VInv' /\ LInv'
<1>1. job' = job /\ UNCHANGED <<at, mount, meta, used, row, btrfs, scene, raced, torn>>
  BY DEF PodEnsure, bounds, ghosts
<1>2. \A x : Used(x)' <=> Used(x)
  BY <1>1 DEF Used
<1>3. StoreOK' /\ (Exists(App) => Exists(App)') /\ \A x \in Places \ {App} : Exists(x)' <=> Exists(x)
  <2>1. CASE disk' = disk
    BY <1>1, <2>1 DEF StoreOK, Exists, VInv, Typed
  <2>2. CASE Create(App)
    BY <1>1, <2>2, CreateEffect, Apart DEF Makes, VInv, Typed
  <2> QED BY <2>1, <2>2 DEF PodEnsure
<1>4. \A x \in Places \ {App} : Kept(x)
  BY <1>1, <1>2, <1>3 DEF Kept
<1>5. Used(App)' => Exists(App)'
  BY <1>2, <1>3, Apart DEF VInv, Real
<1> QED BY <1>1, <1>2, <1>3, <1>4, <1>5, StillKeeps DEF Still

\* A container starts, or stops, or writes.
LEMMA PodsKeep ==
  ASSUME VInv, LInv,
         PodStart \/ PodDrain \/ SiteMount \/ (\E c \in Pods : Write(c) \/ PodExit(c))
  PROVE  VInv' /\ LInv'
<1> DEFINE P == Places \cup Gone \cup {None}
<1>1. job' = job /\ UNCHANGED <<disk, meta, used, row, btrfs, scene, raced, torn>>
  BY DEF PodStart, PodDrain, SiteMount, Write, PodExit, bounds, ghosts
<1>2. at \in [Tokens -> P] /\ mount \in [Pods -> P]
  BY DEF VInv, Typed, StoreOK
<1>3. \A x : Exists(x)' <=> Exists(x)
  BY <1>1 DEF Exists
<1>4. App \in P /\ None \in P /\ Sites \subseteq P /\ None \notin Places \cup Gone
      /\ App \notin Gone /\ Sites \cap Gone = {} /\ Lost \in Gone /\ Strayed \in Gone
      /\ "own" \in Pods /\ "other" \in Pods
  BY Apart DEF Pods
<1> HIDE DEF P
<1>5. ASSUME NEW c \in Pods, NEW m \in P, mount' = [mount EXCEPT ![c] = m], at' = at,
             \/ m = None
             \/ m = App /\ Exists(App)
             \/ m \in Sites /\ row[m] = "managed" /\ Exists(m)
      PROVE  VInv' /\ LInv'
  <2>1. mount' \in [Pods -> P] /\ \A d \in Pods : mount'[d] = IF d = c THEN m ELSE mount[d]
    BY <1>2, <1>5
  <2>2. StoreOK'
    BY <1>1, <1>5, <2>1 DEF P, StoreOK, VInv, Typed
  <2>3. \A x : Used(x)' => Used(x) \/ x = m
    BY <1>5, <2>1 DEF Used
  <2>4. \A x \in Places \ {App} : Kept(x)
    BY <1>1, <1>3, <1>4, <1>5, <2>3 DEF Kept
  <2>5. Used(App)' => Exists(App)'
    BY <1>3, <1>4, <1>5, <2>3, Apart DEF VInv, Real
  <2>6. (Used(Lost)' => Used(Lost)) /\ (Used(Strayed)' => Used(Strayed))
    BY <1>4, <1>5, <2>3
  <2> QED BY <1>1, <2>2, <2>4, <2>5, <2>6, StillKeeps DEF Still
<1>6. ASSUME NEW c \in Pods, mount[c] # None, mount' = mount,
             NEW t \in Tokens, at' = [at EXCEPT ![t] = mount[c]]
      PROVE  VInv' /\ LInv'
  <2>1. PICK m \in P : m = mount[c]
    BY <1>2
  <2>2. at' \in [Tokens -> P] /\ \A u \in Tokens : at'[u] = IF u = t THEN m ELSE at[u]
    BY <1>2, <1>6, <2>1
  <2>3. StoreOK'
    BY <1>1, <1>6, <2>2 DEF P, StoreOK, VInv, Typed
  <2>4. \A x : Used(x)' => Used(x)
    BY <1>6, <2>1, <2>2 DEF Used
  <2>5. \A x \in Places \ {App} : Kept(x)
    BY <1>1, <1>3, <2>4 DEF Kept
  <2>6. Used(App)' => Exists(App)'
    BY <1>3, <2>4, Apart DEF VInv, Real
  <2> QED BY <1>1, <2>3, <2>4, <2>5, <2>6, StillKeeps DEF Still
<1>7. CASE PodStart
  BY <1>4, <1>5, <1>7 DEF PodStart
<1>8. CASE PodDrain
  BY <1>4, <1>5, <1>8 DEF PodDrain
<1>9. CASE SiteMount
  BY <1>4, <1>5, <1>9 DEF SiteMount
<1>10. CASE \E c \in Pods : Write(c)
  BY <1>6, <1>10 DEF Write
<1>11. CASE \E c \in Pods : PodExit(c)
  BY <1>4, <1>5, <1>11 DEF PodExit
<1> QED BY <1>7, <1>8, <1>9, <1>10, <1>11

-----------------------------------------------------------------------------
(* A request arrives; the daemon starts again.                             *)

LEMMA AskKeeps ==
  ASSUME VInv, LInv, NEW h \in Handlers, Ask(h)
  PROVE  VInv' /\ LInv'
<1>1. /\ job[h].pc = "idle" /\ UNCHANGED <<disk, at, mount, meta, used, row, btrfs, scene, torn>>
  BY DEF Ask, At, store
<1>2. h \in Procs /\ h # Tick
  BY Apart
<1>3. PICK k \in scene.kinds, s \in Sites \cup {None}, o \in Sites \cup {App, None}, i \in 0..used :
        /\ (k \in {"restore", "create", "bind", "delete", "snapshot", "promote"}) = (s # None)
        /\ (k \in {"snapshot", "promote"}) = (o # None) /\ (k = "promote" => o # App)
        /\ (k \in {"delete_held", "restore"}) = (i # 0)
        /\ k \in {"restore", "create", "bind", "snapshot", "promote"} => s \notin Reserved
        /\ k \notin {"uninstall", "install"}
        /\ raced' = (raced \/ ~(\A x \in {s, o, i} \ {None, 0, App} : Quiet(x)))
        /\ job' = [job EXCEPT ![h] =
             [pc |-> CASE k = "delete_held" -> "rm_held"
                       [] k = "restore" -> "vacant"
                       [] k = "create" -> "storage"
                       [] k = "bind" -> "insert"
                       [] k \in {"delete", "promote"} -> "look"
                       [] k = "snapshot" -> "resolve"
                       [] k = "update" -> "define",
              kind |-> k, site |-> s, src |-> o, id |-> IF i = 0 THEN None ELSE i]]
  BY DEF Ask
<1>4. k \in {"delete_held", "restore", "create", "bind", "delete", "snapshot", "promote", "update"}
  <2>1. scene \in Scenes
    BY DEF VInv, Typed
  <2>2. scene.kinds \subseteq {"delete_held", "restore", "create", "bind", "delete", "snapshot",
                               "promote", "update", "uninstall", "install"}
    BY <2>1, VolumesAssumption
  <2> QED BY <1>3, <2>2
<1>5. PICK pc \in Pcs :
        /\ pc = CASE k = "delete_held" -> "rm_held"
                  [] k = "restore" -> "vacant"
                  [] k = "create" -> "storage"
                  [] k = "bind" -> "insert"
                  [] k \in {"delete", "promote"} -> "look"
                  [] k = "snapshot" -> "resolve"
                  [] k = "update" -> "define"
  BY <1>4 DEF Pcs
<1>6. PICK id \in (1..used) \cup {None} : id = IF i = 0 THEN None ELSE i
  BY <1>3 DEF VInv, Typed
<1>7. used \in Nat /\ 1..used \subseteq Held /\ None \notin 1..used /\ None \notin Sites
  BY <1>2, NamesOK, Apart DEF VInv
<1>8. /\ Others(h) /\ job'[h].pc = pc /\ job'[h].kind = k /\ job'[h].site = s /\ job'[h].src = o
      /\ job'[h].id = id
  <2>1. job' = [job EXCEPT ![h] = [pc |-> pc, kind |-> k, site |-> s, src |-> o, id |-> id]]
    BY <1>3, <1>5, <1>6
  <2>2. [pc |-> pc, kind |-> k, site |-> s, src |-> o, id |-> id] \in Job
    BY <1>4, <1>6, <1>7 DEF Job, Kinds
  <2>3. job \in [Procs -> Job]
    BY DEF VInv, Shapes
  <2> QED BY <1>2, <2>1, <2>2, <2>3 DEF Others
<1>9. k \in {"delete_held", "restore"} => id \in 1..used
  BY <1>3, <1>6
<1>10. k \notin {"delete_held", "restore"} => id = None
  BY <1>3, <1>6
<1>11. HandlerShape(h)'
  BY <1>1, <1>3, <1>4, <1>5, <1>8, <1>9, <1>10 DEF HandlerShape
<1>12. RowLast(h)' /\ Midway(h)'
  BY <1>4, <1>5, <1>8 DEF RowLast, Midway, At, AtOf
<1>13. \A x : (Exists(x)' <=> Exists(x)) /\ (Used(x)' <=> Used(x))
  BY <1>1 DEF Exists, Used
<1>14. VInv'
  <2>1. Typed' /\ used <= used'
    BY <1>1, <1>7 DEF VInv, Typed, StoreOK
  <2>2. \A x \in Places : Kept(x)
    BY <1>1, <1>13 DEF Kept
  <2>3. Owes(h, {})
    BY <1>1, <1>2, <1>8, <1>11, <1>12, <1>13, <2>1, <2>2 DEF Owes, VInv, NothingLost
  <2> QED BY <1>2, <2>3, OwesKeeps
<1>15. OldOnly'
  BY <1>1, <1>2, <1>8, <1>13, Apart DEF Others, LInv, OldOnly
<1>16. ASSUME ~raced', ~torn' PROVE Agree' /\ NothingStrays'
  <2>1. Agree /\ NothingStrays
    BY <1>1, <1>3, <1>16 DEF LInv
  <2>2. \A q \in Procs : q # h => job'[q] = job[q]
    BY <1>8 DEF Others
  <2>3. ASSUME NEW q \in Procs, q # h PROVE Touched(h)' \cap Touched(q)' \subseteq {App}
    <3>1. Touched(q)' = Touched(q)
      BY <2>2, <2>3 DEF Touched
    <3>2. Touched(h)' \subseteq {s, o, id} \ {None}
      BY <1>8 DEF Touched
    <3>3. 0 # None
      BY PlacesAssumption
    <3>4. {s, o, id} \ {None, App} \subseteq {s, o, i} \ {None, 0, App}
      <4>1. id = i \/ id = None
        BY <1>6
      <4>2. id # 0
        BY <1>6, <3>3
      <4>3. \A x \in Sites : x # 0
        BY PlacesAssumption
      <4> QED BY <3>3, <4>1, <4>2, <4>3
    <3>5. \A x \in {s, o, id} \ {None, App} : x \notin Touched(q)
      BY <1>3, <1>16, <3>4 DEF Quiet
    <3> QED BY <3>1, <3>2, <3>5
  <2>4. Alone'
    <3>1. ASSUME NEW q \in Procs, NEW r \in Procs, q # r
          PROVE  Touched(q)' \cap Touched(r)' \subseteq {App}
      <4>1. CASE q = h \/ r = h
        BY <2>3, <3>1, <4>1
      <4>2. CASE q # h /\ r # h
        <5>1. Touched(q)' = Touched(q) /\ Touched(r)' = Touched(r)
          BY <2>2, <4>2 DEF Touched
        <5> QED BY <2>1, <3>1, <5>1 DEF Agree, Alone
      <4> QED BY <4>1, <4>2
    <3> QED BY <3>1 DEF Alone
  <2>5. \A q \in Procs : Midway(q)'
    <3> SUFFICES ASSUME NEW q \in Procs, q # h PROVE Midway(q)'
      BY <1>12
    <3> QED BY <1>1, <1>13, <2>1, <2>2 DEF Agree, Midway, At, AtOf
  <2>6. ~HalfSite(h) /\ ~HalfId(h)
    BY <1>1 DEF HalfSite, HalfId
  <2>7. SitesAgree'
    <3> SUFFICES ASSUME NEW z \in Sites, \A q \in Procs : job'[q].site = z => ~HalfSite(q)'
                 PROVE  SiteAgrees(z)'
      BY DEF SitesAgree
    <3>1. \A q \in Procs : job[q].site = z => ~HalfSite(q)
      BY <2>2, <2>6 DEF HalfSite
    <3> QED BY <1>1, <1>13, <2>1, <3>1 DEF Agree, SitesAgree, SiteAgrees
  <2>8. HeldAgree'
    <3> SUFFICES ASSUME NEW z \in 1..used', \A q \in Procs : job'[q].id = z => ~HalfId(q)'
                 PROVE  IdAgrees(z)'
      BY DEF HeldAgree
    <3>1. \A q \in Procs : job[q].id = z => ~HalfId(q)
      BY <2>2, <2>6 DEF HalfId
    <3> QED BY <1>1, <1>13, <2>1, <3>1 DEF Agree, HeldAgree, IdAgrees
  <2> QED BY <1>1, <1>13, <2>1, <2>4, <2>5, <2>7, <2>8 DEF Agree, NothingStrays
<1> QED BY <1>14, <1>15, <1>16 DEF LInv

\* What the sweep removes holds no data and no container.
LEMMA RestartKeeps ==
  ASSUME VInv, LInv, Restart
  PROVE  VInv' /\ LInv'
<1> DEFINE D == Dirs \cup {None}
           P == Places \cup Gone \cup {None}
<1>1. UNCHANGED <<meta, used, row, scene, raced>> /\ btrfs' \in BOOLEAN
  BY DEF Restart
<1>2. PICK S \in SUBSET Reserved : S = Swept
  BY DEF Swept
<1>3. \A s \in S : ~Used(s) /\ row[s] = None
  BY <1>2 DEF Swept, VInv, Reserves
<1>4. S \subseteq Sites /\ S \subseteq Places /\ Legacy \notin S /\ S \cap Held = {}
  BY <1>2, Apart
<1>5. disk' = [p \in Places |-> IF p \in S THEN None ELSE disk[p]]
  BY <1>2 DEF Restart
<1>6. disk \in [Places -> D] /\ at \in [Tokens -> P] /\ mount \in [Pods -> P] /\ None \in D
  BY DEF VInv, Typed, StoreOK
<1>7. at' = at
  <2>1. at' = [t \in Tokens |-> IF at[t] \in S THEN Lost ELSE at[t]]
    BY <1>2 DEF Restart
  <2>2. \A t \in Tokens : at[t] \notin S
    BY <1>3 DEF Used
  <2>3. at' = [t \in Tokens |-> at[t]]
    BY <2>1, <2>2
  <2> QED BY <1>6, <2>3
<1>8. mount' = mount
  <2>1. mount' = [c \in Pods |-> IF mount[c] \in S THEN Lost ELSE mount[c]]
    BY <1>2 DEF Restart
  <2>2. \A c \in Pods : mount[c] \notin S
    BY <1>3 DEF Used
  <2>3. mount' = [c \in Pods |-> mount[c]]
    BY <2>1, <2>2
  <2> QED BY <1>6, <2>3
<1>9. \A x : Used(x)' <=> Used(x)
  BY <1>7, <1>8 DEF Used
<1>10. \A x \in Places : Exists(x)' <=> Exists(x) /\ x \notin S
  BY <1>5 DEF Exists
<1>11. Typed'
  <2> HIDE DEF D, P
  <2>1. disk' \in [Places -> D]
    BY <1>5, <1>6
  <2>2. StoreOK'
    BY <1>7, <1>8, <2>1 DEF D, StoreOK, VInv, Typed
  <2> QED BY <1>1, <2>2 DEF VInv, Typed
<1>12. job' \in [Procs -> Job] /\ \A p \in Procs : job'[p] = Idle
  <2>1. "idle" \in Pcs
    BY DEF Pcs
  <2>2. Idle \in Job
    BY <2>1 DEF Idle, Job
  <2> QED BY <2>2 DEF Restart
<1>13. Shapes'
  <2>1. TickShape'
    BY <1>12, Apart DEF TickShape, Idle
  <2>2. \A h \in Handlers : HandlerShape(h)'
    BY <1>12, Apart DEF HandlerShape, Idle
  <2> QED BY <1>12, <2>1, <2>2 DEF Shapes
<1>14. Fresh' /\ Real'
  <2>1. Held \subseteq Places
    BY Apart
  <2>2. Fresh'
    BY <1>1, <1>10, <2>1 DEF VInv, Fresh
  <2>3. Real'
    BY <1>3, <1>9, <1>10 DEF VInv, Real
  <2> QED BY <2>2, <2>3
<1>15. Reserves'
  <2>1. \A p \in Procs : RowLast(p)'
    BY <1>12, PlacesAssumption DEF RowLast, Idle
  <2> QED BY <1>1, <1>9, <2>1 DEF VInv, Reserves
<1>16. VInv'
  BY <1>9, <1>11, <1>13, <1>14, <1>15 DEF VInv, NothingLost
<1>17. OldOnly'
  <2>1. Legacy \in Places /\ job'[Tick].pc = "idle"
    BY <1>12, Apart DEF Idle
  <2> QED BY <1>1, <1>10, <2>1 DEF LInv, OldOnly
<1>18. ASSUME ~raced', ~torn' PROVE Agree' /\ NothingStrays'
  <2>1. Agree /\ NothingStrays /\ \A p \in Procs : job[p].pc \notin Halfway
    <3>1. torn' = (torn \/ \E p \in Procs : job[p].pc \in Halfway)
      BY DEF Restart
    <3>2. ~torn /\ \A p \in Procs : job[p].pc \notin Halfway
      BY <1>18, <3>1, Zenon
    <3>3. ~raced
      BY <1>1, <1>18
    <3> QED BY <3>2, <3>3 DEF LInv
  <2>2. \A p \in Procs : ~HalfSite(p) /\ ~HalfId(p)
    BY <2>1 DEF HalfSite, HalfId, Halfway
  <2>3. Alone'
    BY <1>12 DEF Alone, Touched, Idle
  <2>4. \A p \in Procs : Midway(p)'
    BY <1>12, PlacesAssumption DEF Midway, At, AtOf, Idle
  <2>5. SitesAgree'
    <3> SUFFICES ASSUME NEW s \in Sites PROVE SiteAgrees(s)'
      BY DEF SitesAgree
    <3>1. SiteAgrees(s) /\ s \in Places
      BY <2>1, <2>2, Apart DEF Agree, SitesAgree
    <3> QED BY <1>1, <1>3, <1>9, <1>10, <3>1, PlacesAssumption DEF SiteAgrees
  <2>6. HeldAgree'
    <3> SUFFICES ASSUME NEW i \in 1..used PROVE IdAgrees(i)'
      BY <1>1 DEF HeldAgree
    <3>1. IdAgrees(i) /\ i \in Places /\ i \notin S
      BY <1>4, <2>1, <2>2, NamesOK, Apart DEF Agree, HeldAgree, VInv
    <3> QED BY <1>1, <1>10, <3>1 DEF IdAgrees
  <2> QED BY <1>1, <1>9, <2>1, <2>3, <2>4, <2>5, <2>6 DEF Agree, NothingStrays
<1> QED BY <1>16, <1>17, <1>18 DEF LInv

-----------------------------------------------------------------------------
(* The theorems.                                                           *)

LEMMA InitInv ==
  ASSUME Init
  PROVE  VInv /\ LInv
<1> DEFINE D == Dirs \cup {None}
           P == Places \cup Gone \cup {None}
           made == [Plain EXCEPT !.sub = btrfs]
           content(p) == CASE p = App /\ scene.made -> made
                           [] p = Legacy /\ scene.old -> Plain
                           [] p \in Reserved /\ scene.taken = "managed" -> made
                           [] p \in Reserved /\ scene.taken \in {"snapshot", "left"} -> Snapshot
                           [] OTHER -> None
<1>1. /\ scene \in Scenes /\ btrfs \in BOOLEAN /\ disk = [p \in Places |-> content(p)]
      /\ row = [s \in Sites |-> IF s \in Reserved /\ scene.taken \in {"managed", "snapshot"}
                                THEN scene.taken ELSE None]
      /\ mount = [c \in Pods |-> None] /\ meta = {} /\ used = 0 /\ job = [p \in Procs |-> Idle]
  BY DEF Init
<1>2. PICK q \in {None} \cup {z \in Places : disk[z] # None /\ ~disk[z].ro} :
        at = [t \in Tokens |-> IF \A u \in Tokens : t <= u THEN q ELSE None]
  BY DEF Init
<1>3. made \in Dirs /\ Plain \in Dirs /\ Snapshot \in Dirs /\ None \notin Dirs /\ Snapshot.ro
  BY <1>1, Apart DEF Plain, Snapshot, Dirs
<1> HIDE DEF made
<1>4. \A p \in Places : content(p) \in D /\ disk[p] = content(p)
  BY <1>1, <1>3
<1>5. StoreOK
  <2>1. disk \in [Places -> D]
    <3> HIDE DEF D, content
    <3> QED BY <1>1, <1>4
  <2>2. at \in [Tokens -> P] /\ mount \in [Pods -> P]
    BY <1>1, <1>2
  <2> QED BY <2>1, <2>2 DEF StoreOK
<1>6. scene.taken \in {"none", "managed", "snapshot", "left"}
  BY <1>1, VolumesAssumption
<1>7. row \in [Sites -> {None, "managed", "bind", "snapshot"}]
  BY <1>1
<1>8. Typed
  BY <1>1, <1>5, <1>7, VolumesAssumption DEF Typed
<1>9. \A x : x # None /\ Used(x) => x = q /\ x \in Places /\ Exists(x) /\ ~disk[x].ro
  BY <1>1, <1>2 DEF Used, Exists
<1>10. \A s \in Sites : /\ s \in Reserved /\ scene.taken \in {"managed", "snapshot"} =>
                             row[s] = scene.taken /\ Exists(s)
                        /\ ~(s \in Reserved /\ scene.taken \in {"managed", "snapshot"}) =>
                             row[s] = None
                        /\ Used(s) => s \in Reserved /\ scene.taken = "managed"
  <2> SUFFICES ASSUME NEW s \in Sites
               PROVE  /\ s \in Reserved /\ scene.taken \in {"managed", "snapshot"} =>
                           row[s] = scene.taken /\ Exists(s)
                      /\ ~(s \in Reserved /\ scene.taken \in {"managed", "snapshot"}) =>
                           row[s] = None
                      /\ Used(s) => s \in Reserved /\ scene.taken = "managed"
    OBVIOUS
  <2>1. s \in Places /\ s # App /\ s # Legacy /\ s # None
    BY Apart
  <2>2. disk[s] = content(s)
    BY <1>4, <2>1
  <2>3. s \in Reserved /\ scene.taken \in {"managed", "snapshot"} => row[s] = scene.taken /\ Exists(s)
    BY <1>1, <1>3, <2>1, <2>2 DEF Exists
  <2>4. ~(s \in Reserved /\ scene.taken \in {"managed", "snapshot"}) => row[s] = None
    BY <1>1
  <2>5. Used(s) => disk[s] # None /\ disk[s] # Snapshot
    BY <1>3, <1>9, <2>1 DEF Exists
  <2>6. Used(s) => s \in Reserved /\ scene.taken = "managed"
    BY <2>1, <2>2, <2>5
  <2> QED BY <2>3, <2>4, <2>6
<1>11. \A i \in Held : ~Exists(i)
  BY <1>4, Apart DEF Exists
<1>12. ~scene.old => ~Exists(Legacy)
  BY <1>4, Apart DEF Exists
<1>13. job \in [Procs -> Job] /\ \A p \in Procs : job[p] = Idle
  <2>1. "idle" \in Pcs
    BY DEF Pcs
  <2>2. Idle \in Job
    BY <2>1 DEF Idle, Job
  <2> QED BY <1>1, <2>2
<1>14. Shapes
  <2>1. TickShape
    BY <1>13, Apart DEF TickShape, Idle
  <2>2. \A h \in Handlers : HandlerShape(h)
    BY <1>13, Apart DEF HandlerShape, Idle
  <2> QED BY <1>13, <2>1, <2>2 DEF Shapes
<1>15. Fresh /\ Real
  BY <1>9, <1>11, Apart DEF Fresh, Real
<1>16. Reserves
  <2>1. \A p \in Procs : RowLast(p)
    BY <1>13, PlacesAssumption DEF RowLast, Idle
  <2>2. \A r \in Reserved : row[r] # "bind" /\ (Used(r) => row[r] # None)
    BY <1>10, Apart, PlacesAssumption
  <2> QED BY <2>1, <2>2 DEF Reserves
<1>17. ~Used(Lost) /\ ~Used(Strayed)
  BY <1>9, Apart
<1>18. VInv
  BY <1>8, <1>14, <1>15, <1>16, <1>17 DEF VInv, NothingLost
<1>19. OldOnly
  <2>1. job[Tick].pc = "idle"
    BY <1>13, Apart DEF Idle
  <2> QED BY <1>12, <2>1 DEF OldOnly
<1>20. Agree
  <2>1. Alone
    BY <1>13 DEF Alone, Touched, Idle
  <2>2. \A p \in Procs : Midway(p)
    BY <1>13, PlacesAssumption DEF Midway, At, AtOf, Idle
  <2>3. SitesAgree
    BY <1>10, PlacesAssumption DEF SitesAgree, SiteAgrees
  <2>4. HeldAgree
    BY <1>1 DEF HeldAgree
  <2> QED BY <2>1, <2>2, <2>3, <2>4 DEF Agree
<1> QED BY <1>17, <1>18, <1>19, <1>20 DEF LInv, NothingStrays

LEMMA StepInv ==
  ASSUME VInv, LInv, [Next]_vars
  PROVE  VInv' /\ LInv'
<1>1. CASE Switch \/ UNCHANGED vars
  <2>1. job' = job /\ UNCHANGED <<disk, at, mount, meta, used, row, btrfs, scene, raced, torn>>
    BY <1>1 DEF Switch, store, ghosts, vars
  <2>2. \A x : (Exists(x)' <=> Exists(x)) /\ (Used(x)' <=> Used(x))
    BY <2>1 DEF Exists, Used
  <2>3. StoreOK' /\ (\A x \in Places : Kept(x)) /\ (Used(App)' => Exists(App)')
    BY <2>1, <2>2, Apart DEF VInv, Typed, StoreOK, Kept, Real
  <2> QED BY <2>1, <2>2, <2>3, StillKeeps DEF Still
<1>2. CASE \E h \in Handlers : Ask(h) \/ HandlerStep(h)
  <2>1. PICK h \in Handlers : Ask(h) \/ HandlerStep(h)
    BY <1>2
  <2> QED BY <2>1, AskKeeps, DeleteHeldKeeps, DeleteMetaKeeps, RestoreLooks, RestoreMoveKeeps,
             RestoreMetaKeeps, CreateStorageKeeps, InsertKeeps, DeleteLooks, DeleteSnapshotKeeps,
             DeleteRowKeeps, SnapshotLooks, SnapKeeps, UpdateKeeps DEF HandlerStep
<1>3. CASE \E p \in Procs : HoldStep(p) \/ Fail(p)
  BY <1>3, HoldAbsentKeeps, HoldRenameKeeps, HoldMetaKeeps, FailKeeps DEF HoldStep
<1>4. CASE VolumePhase
  BY <1>4, TickStartKeeps, ObserveKeeps, MigrateKeeps, MigrateClearKeeps, MigrateMoveKeeps,
     CreateAppKeeps, TickEndKeeps DEF VolumePhase
<1>5. CASE PodPhase \/ SiteMount \/ (\E c \in Pods : Write(c) \/ PodExit(c))
  BY <1>5, PodEnsureKeeps, PodsKeep DEF PodPhase
<1>6. CASE Restart
  BY <1>6, RestartKeeps
<1> QED BY <1>1, <1>2, <1>3, <1>4, <1>5, <1>6 DEF Next

\* What containers wrote is removed only when the operator confirms it, and in the
\* two cases the model names apart: neither the sweep of a start nor anything else
\* loses it (actuate.volume.hold; leftover_snapshots::sweep).
THEOREM DataKept == Spec => []NoDataLost
<1>1. Init => VInv /\ LInv
  BY InitInv
<1>2. VInv /\ LInv /\ [Next]_vars => VInv' /\ LInv'
  BY StepInv
<1>3. VInv => NoDataLost
  BY DEF VInv, NothingLost, Used, NoDataLost
<1> QED BY <1>1, <1>2, <1>3, PTL DEF Spec

\* Without overlapping requests about one name, and without one cut short after its
\* first effect, disk and records agree at every name no request is about, and
\* nothing strays (hold_inner, restore_held, create and delete of site volumes).
THEOREM RecordsAgree == Spec => []Listed
<1>1. Init => VInv /\ LInv
  BY InitInv
<1>2. VInv /\ LInv /\ [Next]_vars => VInv' /\ LInv'
  BY StepInv
<1>3. VInv /\ LInv => Listed
  <2> SUFFICES ASSUME VInv, LInv, ~raced, ~torn
               PROVE  /\ \A i \in Held : Quiet(i) => (Exists(i) <=> i \in meta)
                      /\ scene.old \/ \A t \in Tokens : at[t] # Strayed
                      /\ \A s \in Sites : Quiet(s) =>
                           /\ row[s] \in {"managed", "snapshot"} => Exists(s)
                           /\ (\E t \in Tokens : at[t] = s) => row[s] = "managed"
    BY DEF Listed
  <2>1. Agree /\ NothingStrays
    BY DEF LInv
  <2>2. scene.old \/ \A t \in Tokens : at[t] # Strayed
    BY <2>1 DEF NothingStrays, Used
  <2>3. ASSUME NEW s \in Sites, Quiet(s)
        PROVE  /\ row[s] \in {"managed", "snapshot"} => Exists(s)
               /\ (\E t \in Tokens : at[t] = s) => row[s] = "managed"
    <3>1. \A p \in Procs : job[p].site # s
      BY <2>3, Apart DEF Quiet, Touched
    <3> QED BY <2>1, <3>1 DEF Agree, SitesAgree, SiteAgrees, Used
  <2>4. ASSUME NEW i \in Held, Quiet(i) PROVE Exists(i) <=> i \in meta
    <3>1. i \in Nat /\ i >= 1 /\ used \in Nat
      BY VolumesAssumption DEF Held, VInv, Typed
    <3>2. CASE i > used
      <4>1. i \notin 1..used /\ ~Exists(i)
        BY <3>1, <3>2 DEF VInv, Fresh
      <4>2. meta \subseteq 1..used
        BY DEF VInv, Typed
      <4> QED BY <4>1, <4>2
    <3>3. CASE i \in 1..used
      <4>1. \A p \in Procs : job[p].id # i
        BY <2>4, Apart DEF Quiet, Touched
      <4> QED BY <2>1, <3>3, <4>1 DEF Agree, HeldAgree, IdAgrees
    <3> QED BY <3>1, <3>2, <3>3
  <2> QED BY <2>2, <2>3, <2>4
<1> QED BY <1>1, <1>2, <1>3, PTL DEF Spec
=============================================================================
