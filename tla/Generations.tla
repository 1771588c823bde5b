----------------------------- MODULE Generations -----------------------------
(***************************************************************************)
(* The generations of one installed app: set_param, unset_param and        *)
(* update_app on concurrent handler threads, the operations they must not  *)
(* run under, and the daemon's restart.                                    *)
(*                                                                         *)
(* The database thread runs one call at a time, but the call of set_param  *)
(* is a row of statements outside a transaction, and the daemon can die    *)
(* between two of them.  A definition and a value are model values; that a *)
(* definition evaluates or not with given values is a constant.            *)
(***************************************************************************)
EXTENDS Naturals, FiniteSets

CONSTANTS
  None,
  Handlers,    \* threads that serve requests
  Defs,        \* definition bundles
  Params,      \* parameter names
  Values,      \* parameter values
  Broken,      \* pairs of a definition and values that fail to evaluate
  OnChange,    \* pairs of a definition and a parameter it has a handler for
  MaxGen,      \* bound: generations of the app
  MaxCrashes   \* bound: crashes of the daemon

Stored == [Params -> Values \cup {None}]

\* An operation that has the app's slot in the scheduler: its generations, is it
\* queued, has it a row, and the App its driver cloned.
Slots == [source : Nat, target : Nat, queued : BOOLEAN, row : BOOLEAN,
          app : (Defs \X Stored) \cup {None}]

ASSUME ConstantsAssumption ==
  /\ None \notin Params \cup Values \cup Handlers /\ None \notin Slots
  /\ Broken \subseteq Defs \X Stored
  /\ OnChange \subseteq Defs \X Params
  /\ MaxGen \in Nat /\ MaxCrashes \in Nat

VARIABLES
  stored,    \* the parameter values in the database
  rows,      \* the generations table: generation number to history entry
  current,   \* registered_apps.current_generation
  entry,     \* AppEntry: bundle, evaluated (the App), generation
  slot,      \* the app's operation in the scheduler, or None
  hs,        \* what each handler is doing
  db,        \* the handler whose database call is at work, or None
  crashes,   \* crashes so far
  torn,      \* history: parameters whose last change a crash cut in two
  cut,       \* history: a crash has cut a change in two
  overlap,   \* history: a change was at work together with another
  raced      \* history: a change was at work together with an invocation

tables == <<stored, rows, current>>
vars == <<tables, entry, slot, hs, db, crashes, torn, cut, overlap, raced>>

Kinds == {"register", "script_update", "param_set", "param_unset"}
History == [kind : Kinds, def : Defs, param : Params \cup {None},
            previous : Values \cup {None}, new : Values \cup {None}]

Requests ==
  [kind : {"param"}, def : {None}, param : Params, value : Values \cup {None}]
    \cup [kind : {"update"}, def : Defs, param : Params \cup {None},
          value : Values \cup {None}]

Invocation == [kind |-> "invoke", def |-> None, param |-> None, value |-> None]

Evaluates(d, s) == <<d, s>> \notin Broken

Idle == [pc |-> "idle", req |-> None, previous |-> None, seen |-> None, gen |-> 0]
Changing(h) == hs[h].pc # "idle" /\ hs[h].req # Invocation
Invoking(h) == hs[h].pc # "idle" /\ hs[h].req = Invocation
NoChange == \A h \in Handlers : ~Changing(h)

-----------------------------------------------------------------------------
(* The history.                                                            *)

Last(S) == CHOOSE g \in S : \A k \in S : k <= g
Newest == Last(DOMAIN rows)

\* next_generation_for.
NextGeneration == Newest + 1

\* definition_at.
DefinitionAt(n) ==
  rows[Last({g \in DOMAIN rows : g <= n /\ rows[g].kind \in {"register", "script_update"}})].def

\* Faulty form: a parameter changed together with its definition is missed.
ParamMapAtParamsOnly(n) ==
  [p \in Params |->
     LET at == {g \in DOMAIN rows : g <= n /\ rows[g].param = p
                                    /\ rows[g].kind \in {"param_set", "param_unset"}}
     IN IF at = {} THEN None ELSE rows[Last(at)].new]

\* param_map_at: the most recent change of each parameter.
ParamMapAt(n) ==
  [p \in Params |->
     LET at == {g \in DOMAIN rows : g <= n /\ rows[g].param = p}
     IN IF at = {} THEN None ELSE rows[Last(at)].new]

AddRow(r) == rows' = [g \in DOMAIN rows \cup {NextGeneration} |->
                        IF g = NextGeneration THEN r ELSE rows[g]]

-----------------------------------------------------------------------------
(* Requests.                                                               *)

\* The app is registered and installed, with one definition and no values.
Init ==
  /\ stored = [p \in Params |-> None]
  /\ \E d \in Defs :
       /\ Evaluates(d, stored)
       /\ rows = [g \in {1} |-> [kind |-> "register", def |-> d, param |-> None,
                                 previous |-> None, new |-> None]]
       /\ entry = [bundle |-> d, evaluated |-> <<d, stored>>, generation |-> 1]
  /\ current = 1 /\ slot = None /\ db = None
  /\ hs = [h \in Handlers |-> Idle]
  /\ crashes = 0 /\ torn = {} /\ cut = FALSE /\ overlap = FALSE /\ raced = FALSE

Step(h, pc) == hs' = [hs EXCEPT ![h].pc = pc]
Done(h) == hs' = [hs EXCEPT ![h] = Idle]

\* Faulty form: a change is taken while an operation runs.
GateOpen == TRUE

\* reject_if_op_in_progress, and the check of update_app.
Gate == slot = None

\* set_param, unset_param and update_app up to the gate.
Begin(h, r) ==
  /\ hs[h].pc = "idle" /\ Gate
  /\ hs' = [hs EXCEPT ![h] = [Idle EXCEPT !.pc = "read", !.req = r]]
  /\ overlap' = (overlap \/ ~NoChange)
  /\ raced' = (raced \/ \E g \in Handlers : Invoking(g))
  /\ UNCHANGED <<tables, entry, slot, db, crashes, torn, cut>>

Proposed(r) == IF r.param = None THEN stored ELSE [stored EXCEPT ![r.param] = r.value]
Changes(r, s) == r.param # None /\ s[r.param] # r.value

\* set_param and unset_param read the value they replace; the same value
\* again ends the request.
ReadPrevious(h) ==
  LET r == hs[h].req
  IN /\ hs[h].pc = "read" /\ r.kind = "param" /\ db = None
     /\ \/ ~Changes(r, stored) /\ Done(h)
        \/ /\ Changes(r, stored)
           /\ hs' = [hs EXCEPT ![h].pc = "store", ![h].previous = stored[r.param]]
     /\ UNCHANGED <<tables, entry, slot, db, crashes, torn, cut, overlap, raced>>

\* update_app reads the values its evaluation will see.
ReadValues(h) ==
  LET r == hs[h].req
  IN /\ hs[h].pc = "read" /\ r.kind = "update" /\ db = None
     /\ \/ ~Evaluates(r.def, Proposed(r)) /\ Done(h)
        \/ /\ Evaluates(r.def, Proposed(r))
           /\ hs' = [hs EXCEPT ![h].pc = "commit", ![h].seen = Proposed(r),
                               ![h].previous = IF r.param = None THEN None
                                               ELSE stored[r.param]]
     /\ UNCHANGED <<tables, entry, slot, db, crashes, torn, cut, overlap, raced>>

\* A validator rejects the values.
Refuse(h) ==
  /\ hs[h].pc \in {"store", "commit"}
  /\ Done(h)
  /\ UNCHANGED <<tables, entry, slot, db, crashes, torn, cut, overlap, raced>>

-----------------------------------------------------------------------------
(* The database call of set_param and unset_param, statement by statement. *)

StoreParamValue(h) ==
  LET r == hs[h].req
  IN /\ hs[h].pc = "store" /\ db = None /\ Newest < MaxGen
     /\ stored' = [stored EXCEPT ![r.param] = r.value]
     /\ db' = h /\ Step(h, "insert")
     /\ UNCHANGED <<rows, current, entry, slot, crashes, torn, cut, overlap, raced>>

\* bump_param_change: the row with the hash of the newest one, ...
InsertRow(h) ==
  LET r == hs[h].req
  IN /\ hs[h].pc = "insert"
     /\ AddRow([kind |-> IF r.value = None THEN "param_unset" ELSE "param_set",
                def |-> rows[Newest].def, param |-> None, previous |-> None,
                new |-> None])
     /\ hs' = [hs EXCEPT ![h].pc = "annotate", ![h].gen = NextGeneration]
     /\ UNCHANGED <<stored, current, entry, slot, db, crashes, torn, cut, overlap, raced>>

\* ... write_param_change, ...
WriteParamChange(h) ==
  LET r == hs[h].req
  IN /\ hs[h].pc = "annotate"
     /\ rows' = [rows EXCEPT ![hs[h].gen].param = r.param,
                             ![hs[h].gen].previous = hs[h].previous,
                             ![hs[h].gen].new = r.value]
     /\ torn' = torn \ {r.param}
     /\ Step(h, "point")
     /\ UNCHANGED <<stored, current, entry, slot, db, crashes, cut, overlap, raced>>

\* ... and the app's row.
PointRow(h) ==
  /\ hs[h].pc = "point"
  /\ current' = hs[h].gen
  /\ db' = None /\ Step(h, "load")
  /\ UNCHANGED <<stored, rows, entry, slot, crashes, torn, cut, overlap, raced>>

-----------------------------------------------------------------------------
(* reload_and_persist_apperror.                                            *)

LoadParams(h) ==
  /\ hs[h].pc = "load" /\ db = None
  /\ hs' = [hs EXCEPT ![h].pc = "reload", ![h].seen = stored]
  /\ UNCHANGED <<tables, entry, slot, db, crashes, torn, cut, overlap, raced>>

\* AppRegistry::reload: a definition that fails to evaluate leaves the App.
Reload(h) ==
  /\ hs[h].pc = "reload"
  /\ entry' = IF Evaluates(entry.bundle, hs[h].seen)
              THEN [entry EXCEPT !.evaluated = <<entry.bundle, hs[h].seen>>] ELSE entry
  /\ Step(h, "stamp")
  /\ UNCHANGED <<tables, slot, db, crashes, torn, cut, overlap, raced>>

StampGeneration(h) ==
  /\ hs[h].pc = "stamp"
  /\ entry' = [entry EXCEPT !.generation = hs[h].gen]
  /\ Step(h, "persist")
  /\ UNCHANGED <<tables, slot, db, crashes, torn, cut, overlap, raced>>

\* persist_app_fields, with the registry locked for reading: the generation in
\* memory goes to the app's row.
PersistAppFields(h) ==
  /\ hs[h].pc = "persist" /\ db = None
  /\ current' = entry.generation
  /\ Step(h, "schedule")
  /\ UNCHANGED <<stored, rows, entry, slot, db, crashes, torn, cut, overlap, raced>>

-----------------------------------------------------------------------------
(* update_app.                                                             *)

\* One transaction: the value, the history row and the app's row.
CommitUpdate(h) ==
  LET r == hs[h].req
      changed == r.param # None /\ hs[h].previous # r.value
  IN /\ hs[h].pc = "commit" /\ db = None /\ Newest < MaxGen
     /\ stored' = IF changed THEN [stored EXCEPT ![r.param] = r.value] ELSE stored
     /\ AddRow([kind |-> "script_update", def |-> r.def,
                param |-> IF changed THEN r.param ELSE None,
                previous |-> IF changed THEN hs[h].previous ELSE None,
                new |-> IF changed THEN r.value ELSE None])
     /\ current' = NextGeneration
     /\ torn' = IF changed THEN torn \ {r.param} ELSE torn
     /\ hs' = [hs EXCEPT ![h].pc = "replace", ![h].gen = NextGeneration]
     /\ UNCHANGED <<entry, slot, db, crashes, cut, overlap, raced>>

\* replace_definition.  Without a parameter change nothing is scheduled.
ReplaceDefinition(h) ==
  LET r == hs[h].req
  IN /\ hs[h].pc = "replace"
     /\ entry' = [bundle |-> r.def, evaluated |-> <<r.def, hs[h].seen>>,
                  generation |-> hs[h].gen]
     /\ \/ r.param # None /\ hs[h].previous # r.value /\ Step(h, "schedule")
        \/ ~(r.param # None /\ hs[h].previous # r.value) /\ Done(h)
     /\ UNCHANGED <<tables, slot, db, crashes, torn, cut, overlap, raced>>

-----------------------------------------------------------------------------
(* Operations.                                                             *)

\* schedule_on_change looks for a handler of the parameter in the App.
ScheduleOnChange(h) ==
  /\ hs[h].pc = "schedule"
  /\ IF <<entry.evaluated[1], hs[h].req.param>> \in OnChange THEN Step(h, "request") ELSE Done(h)
  /\ UNCHANGED <<tables, entry, slot, db, crashes, torn, cut, overlap, raced>>

\* invoke_action reads the generation under the registry's lock, and lets go of
\* it.  Its checks before that only refuse.
InvokeAction(h) ==
  /\ hs[h].pc = "idle"
  /\ hs' = [hs EXCEPT ![h] = [Idle EXCEPT !.pc = "request", !.req = Invocation,
                                          !.gen = entry.generation]]
  /\ raced' = (raced \/ ~NoChange)
  /\ UNCHANGED <<tables, entry, slot, db, crashes, torn, cut, overlap>>

\* The scheduler answers: refused (a parameter change stays committed), queued
\* behind another app's operation, or accepted.  invoke_action goes on to spawn an
\* accepted operation; one that schedule_on_change had accepted has no driver and
\* no row, and ends with the daemon.
RequestSlot(h) ==
  LET invoked == Invoking(h)
  IN /\ hs[h].pc = "request"
     /\ \/ slot # None /\ Done(h) /\ UNCHANGED slot
        \/ /\ slot = None
           /\ \E queued \in BOOLEAN :
                /\ slot' = [source |-> IF invoked THEN hs[h].gen ELSE hs[h].gen - 1,
                            target |-> hs[h].gen, queued |-> queued, row |-> FALSE,
                            app |-> None]
                /\ IF invoked /\ ~queued THEN Step(h, "spawn") ELSE Done(h)
     /\ UNCHANGED <<tables, entry, db, crashes, torn, cut, overlap, raced>>

\* spawn_accepted_operation clones the App; the operation runs with the clone.
Spawn(h) ==
  /\ hs[h].pc = "spawn"
  /\ slot' = [slot EXCEPT !.app = entry.evaluated]
  /\ Done(h)
  /\ UNCHANGED <<tables, entry, db, crashes, torn, cut, overlap, raced>>

\* The other app's operation ends and its driver spawns the queued one.
Dequeue ==
  /\ slot # None /\ slot.queued
  /\ slot' = [slot EXCEPT !.queued = FALSE, !.app = entry.evaluated]
  /\ UNCHANGED <<tables, entry, hs, db, crashes, torn, cut, overlap, raced>>

\* save_current_operation, over the operation's own connection.
SaveOperation ==
  /\ slot # None /\ slot.app # None /\ ~slot.row
  /\ slot' = [slot EXCEPT !.row = TRUE]
  /\ UNCHANGED <<tables, entry, hs, db, crashes, torn, cut, overlap, raced>>

Complete ==
  /\ slot # None /\ slot.row
  /\ slot' = None
  /\ UNCHANGED <<tables, entry, hs, db, crashes, torn, cut, overlap, raced>>

-----------------------------------------------------------------------------
(* The daemon dies and starts again.                                       *)

\* load_from_db.
LoadFromDb ==
  [bundle |-> DefinitionAt(current), evaluated |-> <<DefinitionAt(current), stored>>,
   generation |-> current]

\* The operation with a row is replayed, for the same generations and with the
\* App that was loaded.
Restart ==
  /\ crashes < MaxCrashes
  /\ crashes' = crashes + 1
  /\ entry' = LoadFromDb
  /\ slot' = IF slot # None /\ slot.row THEN [slot EXCEPT !.app = LoadFromDb.evaluated] ELSE None
  /\ hs' = [h \in Handlers |-> Idle] /\ db' = None
  /\ torn' = torn \cup {hs[h].req.param : h \in {k \in Handlers :
                           hs[k].pc \in {"insert", "annotate", "point"}}}
  /\ cut' = (cut \/ torn' # {})
  /\ UNCHANGED <<tables, overlap, raced>>

Handle(h) ==
  \/ ReadPrevious(h) \/ ReadValues(h) \/ Refuse(h)
  \/ StoreParamValue(h) \/ InsertRow(h) \/ WriteParamChange(h) \/ PointRow(h)
  \/ LoadParams(h) \/ Reload(h) \/ StampGeneration(h) \/ PersistAppFields(h)
  \/ CommitUpdate(h) \/ ReplaceDefinition(h) \/ ScheduleOnChange(h)
  \/ InvokeAction(h) \/ RequestSlot(h) \/ Spawn(h)

Next ==
  \/ \E h \in Handlers : Handle(h) \/ \E r \in Requests : Begin(h, r)
  \/ Dequeue \/ SaveOperation \/ Complete \/ Restart

Spec == Init /\ [][Next]_vars

-----------------------------------------------------------------------------
(* Properties.                                                             *)

Pcs == {"idle", "read", "store", "insert", "annotate", "point", "load", "reload",
        "stamp", "persist", "commit", "replace", "schedule", "request", "spawn"}

\* Values of the right kind; the history is numbered from 1 without a gap.
TypeOK ==
  /\ stored \in Stored
  /\ DOMAIN rows = 1..Cardinality(DOMAIN rows) /\ \A g \in DOMAIN rows : rows[g] \in History
  /\ current \in DOMAIN rows
  /\ entry.bundle \in Defs /\ entry.generation \in DOMAIN rows
  /\ entry.evaluated \in Defs \X Stored
  /\ slot # None => slot \in Slots /\ slot.target \in DOMAIN rows
  /\ \A h \in Handlers : hs[h].pc \in Pcs /\ hs[h].req \in Requests \cup {Invocation, None}
  /\ db \in Handlers \cup {None}
  /\ crashes \in 0..MaxCrashes /\ torn \subseteq Params
  /\ cut \in BOOLEAN /\ overlap \in BOOLEAN /\ raced \in BOOLEAN

\* r[generation.monotonic], r[generation.history], r[generation.reconstruction]:
\* a generation once written says the same for ever, so what a replayed on_change
\* handler is given as `old` does not change under it; and between two database
\* calls the history gives the stored values back, whoever changed them and in
\* whatever order, except for a parameter whose change a crash cut in two.
HistoryTells ==
  /\ [][db = None =>
          /\ DOMAIN rows \subseteq DOMAIN rows'
          /\ \A g \in DOMAIN rows : rows'[g] = rows[g]]_vars
  /\ [](db = None => \A p \in Params \ torn : ParamMapAt(Newest)[p] = stored[p])

\* The App a is what generation n evaluates to, or what was left when n failed to.
OfGeneration(a, n) ==
  /\ a[1] = DefinitionAt(n)
  /\ a[2] = ParamMapAt(n) \/ ~Evaluates(DefinitionAt(n), ParamMapAt(n))

\* r[generation.definition], r[operation.lifecycle.generations], and
\* reject_if_op_in_progress: "captured-closure state inside the operation would
\* become inconsistent with the new param value".  When changes come one at a time,
\* the app's entry, its row and its history agree after each, beside whatever
\* operations and crashes, once no parameter is left half-changed.  And if no crash
\* ever cut one in two: an operation, whenever it was asked for, spawned and
\* replayed, never runs with an App older than its target generation; and if no
\* change was at work while an action was being invoked, operations run to their
\* end, replays included, with the App of that very generation.
Agreement ==
  ~overlap =>
    /\ NoChange /\ torn = {} =>
         /\ entry.generation = Newest /\ current = Newest
         /\ entry.bundle = DefinitionAt(Newest)
         /\ entry.evaluated = <<entry.bundle, stored>> \/ ~Evaluates(entry.bundle, stored)
    /\ slot # None /\ slot.app # None /\ ~cut =>
         /\ \E n \in slot.target..Newest : OfGeneration(slot.app, n)
         /\ ~raced => OfGeneration(slot.app, slot.target)
=============================================================================
