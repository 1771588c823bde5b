----------------------------- MODULE CallLedger -----------------------------
(***************************************************************************)
(* What replay promises, without passes, positions or barriers: the calls  *)
(* of an operation are made one after the other, the record of them is a   *)
(* prefix that only grows, a crash takes back exactly the calls beyond the *)
(* record, and the operation ends once, successfully only when every call  *)
(* of its closure is on record.                                            *)
(***************************************************************************)
EXTENDS Naturals

CONSTANT Outcomes

VARIABLES
  made,     \* calls made, by this or an earlier incarnation
  kept,     \* calls on record
  need,     \* calls the closure makes
  outcome   \* "open", or how the operation ended

ledger == <<made, kept, need, outcome>>

LedgerInit == made = 0 /\ kept = 0 /\ need \in Nat /\ outcome = "open"

Make == outcome = "open" /\ made' = made + 1 /\ UNCHANGED <<kept, need, outcome>>
Keep == outcome = "open" /\ kept < made /\ kept' = kept + 1 /\ UNCHANGED <<made, need, outcome>>
Forget == made' = kept /\ UNCHANGED <<kept, need, outcome>>
Edit == outcome = "open" /\ made = kept /\ need' \in Nat /\ UNCHANGED <<made, kept, outcome>>
End(o) ==
  /\ outcome = "open" /\ kept = made
  /\ o = "Completed" => kept >= need
  /\ outcome' = o /\ UNCHANGED <<made, kept, need>>

LedgerNext == Make \/ Keep \/ Forget \/ Edit \/ \E o \in Outcomes : End(o)

Ledger == LedgerInit /\ [][LedgerNext]_ledger
=============================================================================
