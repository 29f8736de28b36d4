----------------------------- MODULE OrderBook ------------------------------
(***************************************************************************)
(* What the life of a purchase order promises, without the calls that      *)
(* produce it (purchase-orders.service.ts): goods come in against an open  *)
(* order and are never given back; an order is closed only when all of it  *)
(* came in, and then it can no longer be cancelled.                        *)
(***************************************************************************)
EXTENDS Naturals

CONSTANTS Orders, Lines

VARIABLES
  phase,  \* absent, draft, open, closed or cancelled
  left    \* the quantity still to come, for each line that has a quantity

vars == <<phase, left>>

Complete(o) == \A l \in DOMAIN left[o] : left[o][l] = 0
Move(o, p) == phase' = [phase EXCEPT ![o] = p] /\ UNCHANGED left

Init ==
  /\ phase = [o \in Orders |-> "absent"]
  /\ left = [o \in Orders |-> [l \in {} |-> 0]]

Place(o) ==
  /\ phase[o] = "absent"
  /\ phase' = [phase EXCEPT ![o] = "draft"]
  /\ DOMAIN left'[o] \subseteq Lines
  /\ \A l \in DOMAIN left'[o] : left'[o][l] > 0
  /\ \A p \in Orders \ {o} : left'[p] = left[p]

Issue(o) == phase[o] = "draft" /\ Move(o, "open")

Deliver(o) ==
  /\ phase[o] = "open"
  /\ DOMAIN left'[o] = DOMAIN left[o]
  /\ \A l \in DOMAIN left[o] : left'[o][l] \in 0..left[o][l]
  /\ \A p \in Orders \ {o} : left'[p] = left[p]
  /\ UNCHANGED phase

Cancel(o) ==
  /\ phase[o] \in {"draft", "open"}
  /\ DOMAIN left[o] = {} \/ ~Complete(o)
  /\ Move(o, "cancelled")

Close(o) ==
  /\ phase[o] = "open" /\ Complete(o)
  /\ Move(o, "closed")

Next == \E o \in Orders :
          Place(o) \/ Issue(o) \/ Deliver(o) \/ Cancel(o) \/ Close(o)

Spec == Init /\ [][Next]_vars
=============================================================================
