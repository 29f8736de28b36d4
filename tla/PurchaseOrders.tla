--------------------------- MODULE PurchaseOrders ---------------------------
(***************************************************************************)
(* Purchase orders and the goods received against them                     *)
(* (purchase-orders.service.ts).                                           *)
(*                                                                         *)
(* A handler reads the order, checks it and then writes in further         *)
(* database calls, each a transaction of its own, so handlers of two       *)
(* requests interleave: a request keeps what it read in req, and one       *)
(* action is one database call.  The new quantity of a line is computed    *)
(* from the quantity read at the start and written as an absolute value.   *)
(*                                                                         *)
(* Quantities are natural numbers: the code's are floats compared with a   *)
(* tolerance of 1e-9, and an ordered quantity below zero is never received *)
(* against, like zero.  A definition Name_Slip is Name with a plausible    *)
(* slip, which a property below must catch; nothing refers to it.          *)
(*                                                                         *)
(* Left out: titles, notes, vendor, entity and totals, which update writes *)
(* on a draft and nothing here reads.                                      *)
(***************************************************************************)
EXTENDS Naturals, FiniteSetsExt

CONSTANTS
  Orders,      \* purchase order ids
  Lines,       \* line numbers
  Requests,    \* slots for requests served at the same time
  None,        \* SQL NULL
  LineTables,  \* the tables of ordered quantities an order may have
  Receipts,    \* the bodies of a receive request, as sets of entries
  MaxEntries,  \* the length of the longest body
  MaxAudited,  \* bound: the quantity of a line that receipts may mention
  FailAt       \* the calls at which a request may stop

ASSUME LineTablesAssumption ==
  \A t \in LineTables :
    \E S \in SUBSET Lines : t \in [S -> Nat \union {None}]

ASSUME NoneAssumption == None \notin Nat

ASSUME MaxEntriesAssumption == MaxEntries \in Nat \ {0}

(* An entry of a body: its place in the list, its line and its quantity,   *)
(* which the validation of the body makes positive.                        *)
Entries == [no : 1..MaxEntries, line : Lines, qty : Nat \ {0}]

(* A body is a list: it has one entry at each of its places.               *)
ASSUME ReceiptsAssumption ==
  /\ Receipts \subseteq SUBSET Entries
  /\ \A body \in Receipts : \A e, f \in body : e.no = f.no => e = f

ASSUME RequestsAssumption == IsFiniteSet(Requests)

Status == {"absent", "draft", "issued", "partially_received", "received",
           "closed", "cancelled"}
Open == {"issued", "partially_received"}

Idle == [pc |-> "idle", op |-> None, order |-> None, target |-> None,
         entries |-> {}, already |-> [l \in Lines |-> 0]]

VARIABLES
  status,    \* PurchaseOrder.status
  ordered,   \* PurchaseOrderLine.quantity, over the lines of the order
  received,  \* PurchaseOrderLine.receivedQty, 0 for NULL
  audited,   \* the quantities in the po.received audit entries
  req,       \* the requests in flight
  serial     \* whether requests are served one after the other

vars == <<status, ordered, received, audited, req, serial>>

Init ==
  /\ status = [o \in Orders |-> "absent"]
  /\ ordered = [o \in Orders |-> [l \in {} |-> 0]]
  /\ received = [o \in Orders |-> [l \in Lines |-> 0]]
  /\ audited = [o \in Orders |-> [l \in Lines |-> 0]]
  /\ req = [r \in Requests |-> Idle]
  /\ serial \in BOOLEAN

At(r, p) == req[r].pc = p
Goto(r, p) == req' = [req EXCEPT ![r].pc = p]
Finish(r) == req' = [req EXCEPT ![r] = Idle]
Quiet == \A r \in Requests : At(r, "idle")

-----------------------------------------------------------------------------
(* Pure parts of the service *)

LinesOf(o) == DOMAIN ordered[o]
WithQty(o) == {l \in LinesOf(o) : ordered[o][l] # None /\ ordered[o][l] > 0}
AllIn(o) == \A l \in WithQty(o) : received[o][l] >= ordered[o][l]

Derive_SomeLineIn(o) ==
  IF \E l \in WithQty(o) : received[o][l] >= ordered[o][l] THEN "received"
  ELSE IF \E l \in WithQty(o) : received[o][l] > 0 THEN "partially_received"
  ELSE "issued"

(* deriveReceiveStatus.                                                    *)
Derive(o) ==
  IF AllIn(o) THEN "received"
  ELSE IF \E l \in WithQty(o) : received[o][l] > 0 THEN "partially_received"
  ELSE "issued"

(* A body without lines receives what remains of every line.               *)
Remaining(o) ==
  {[no |-> 1, line |-> l, qty |-> ordered[o][l] - received[o][l]] :
     l \in {k \in WithQty(o) : received[o][k] < ordered[o][k]}}
Asked(o, body) == IF body = {} THEN Remaining(o) ELSE body

(* Each entry is checked against what was received before the request, not *)
(* against the entries before it.                                          *)
Fits(o, e) ==
  /\ e.line \in LinesOf(o) /\ ordered[o][e.line] # None
  /\ received[o][e.line] + e.qty <= ordered[o][e.line]

(* The lines are updated in the order of the entries: the last one wins.   *)
LastOn(es, l) ==
  CHOOSE e \in es : e.line = l /\ \A f \in es : f.line = l => f.no <= e.no

QtyOn(es, l) ==
  MapThenSumSet(LAMBDA e : e.qty, {e \in es : e.line = l})

(* The statuses a transition may set.                                      *)
Allowed == [absent |-> {}, draft |-> {"issued", "cancelled"},
            issued |-> {"cancelled"}, partially_received |-> {"cancelled"},
            received |-> {"closed"}, closed |-> {}, cancelled |-> {}]

-----------------------------------------------------------------------------
(* create, and convertToPo of the purchase requests *)

Create(r, o, t) ==
  /\ At(r, "idle") /\ status[o] = "absent"
  /\ status' = [status EXCEPT ![o] = "draft"]
  /\ ordered' = [ordered EXCEPT ![o] = t]
  /\ UNCHANGED <<received, audited, req>>

(* transition *)
StartTransition(r, o, s) ==
  /\ At(r, "idle") /\ s \in Allowed[status[o]]
  /\ req' = [req EXCEPT ![r] = [Idle EXCEPT !.pc = "setStatus",
                                  !.op = "transition", !.order = o,
                                  !.target = s]]
  /\ UNCHANGED <<status, ordered, received, audited>>

-----------------------------------------------------------------------------
(* receive *)

StartReceive(r, o, body) ==
  LET es == Asked(o, body)
      job == [Idle EXCEPT !.op = "receive", !.order = o, !.already = received[o]]
  IN  /\ At(r, "idle") /\ status[o] \in Open
      /\ \A l \in Lines : audited[o][l] + QtyOn(es, l) <= MaxAudited
      /\ \/ /\ LinesOf(o) = {}
            /\ req' = [req EXCEPT ![r] =
                         [job EXCEPT !.pc = "setStatus", !.target = "received"]]
         \/ /\ LinesOf(o) # {} /\ es # {}
            /\ \A e \in es : Fits(o, e)
            /\ req' = [req EXCEPT ![r] =
                         [job EXCEPT !.pc = "writeLines", !.entries = es]]
      /\ UNCHANGED <<status, ordered, received, audited>>

WriteLines_Increment(r) ==
  LET o == req[r].order
      es == req[r].entries
  IN  /\ At(r, "writeLines")
      /\ received' = [received EXCEPT ![o] =
           [l \in Lines |-> received[o][l] + QtyOn(es, l)]]
      /\ Goto(r, "reread")
      /\ UNCHANGED <<status, ordered, audited>>

WriteLines(r) ==
  LET o == req[r].order
      es == req[r].entries
  IN  /\ At(r, "writeLines")
      /\ received' = [received EXCEPT ![o] =
           [l \in Lines |-> IF \E e \in es : e.line = l
                            THEN req[r].already[l] + LastOn(es, l).qty
                            ELSE received[o][l]]]
      /\ Goto(r, "reread")
      /\ UNCHANGED <<status, ordered, audited>>

Reread_IssuedOnly(r) ==
  LET o == req[r].order
  IN  /\ At(r, "reread")
      /\ IF status[o] = "issued"
         THEN req' = [req EXCEPT ![r].target = Derive(o), ![r].pc = "setStatus"]
         ELSE Goto(r, "audit")
      /\ UNCHANGED <<status, ordered, received, audited>>

(* The status is derived from the lines as they are now, and written in    *)
(* the next call whatever has become of the order.                         *)
Reread(r) ==
  LET o == req[r].order
  IN  /\ At(r, "reread")
      /\ IF Derive(o) # status[o]
         THEN req' = [req EXCEPT ![r].target = Derive(o), ![r].pc = "setStatus"]
         ELSE Goto(r, "audit")
      /\ UNCHANGED <<status, ordered, received, audited>>

SetStatus(r) ==
  /\ At(r, "setStatus")
  /\ status' = [status EXCEPT ![req[r].order] = req[r].target]
  /\ IF req[r].op = "receive" THEN Goto(r, "audit") ELSE Finish(r)
  /\ UNCHANGED <<ordered, received, audited>>

(* The audit entry lists every entry of the request.                       *)
Audit(r) ==
  LET o == req[r].order
  IN  /\ At(r, "audit")
      /\ audited' = [audited EXCEPT ![o] =
           [l \in Lines |-> audited[o][l] + QtyOn(req[r].entries, l)]]
      /\ Finish(r)
      /\ UNCHANGED <<status, ordered, received>>

(* A database error, or the end of the process before the call.            *)
Fail(r) ==
  /\ req[r].pc \in FailAt /\ ~At(r, "idle")
  /\ Finish(r)
  /\ UNCHANGED <<status, ordered, received, audited>>

-----------------------------------------------------------------------------
Start(r) ==
  \E o \in Orders :
    \/ \E t \in LineTables : Create(r, o, t)
    \/ \E s \in Status : StartTransition(r, o, s)
    \/ \E body \in Receipts : StartReceive(r, o, body)

Step(r) == WriteLines(r) \/ Reread(r) \/ SetStatus(r) \/ Audit(r)

Next ==
  /\ \E r \in Requests :
       \/ (serial => Quiet) /\ Start(r)
       \/ Step(r)
       \/ Fail(r)
  /\ UNCHANGED serial

Spec == Init /\ [][Next]_vars

-----------------------------------------------------------------------------
(* Properties *)

Request ==
  [pc : {"idle", "writeLines", "reread", "setStatus", "audit"},
   op : {None, "transition", "receive"}, order : Orders \union {None},
   target : Status \union {None}, entries : SUBSET Entries,
   already : [Lines -> Nat]]

(* The types of the variables.                                             *)
TypeOK ==
  /\ status \in [Orders -> Status]
  /\ \A o \in Orders : /\ LinesOf(o) \subseteq Lines
                       /\ ordered[o] \in [LinesOf(o) -> Nat \union {None}]
  /\ received \in [Orders -> [Lines -> Nat]]
  /\ audited \in [Orders -> [Lines -> Nat]]
  /\ req \in [Requests -> Request]

(* Nothing is received beyond the ordered quantity, whatever overlaps.     *)
ReceivedWithinOrdered ==
  \A o \in Orders : \A l \in Lines :
    received[o][l] > 0 => /\ l \in LinesOf(o) /\ ordered[o][l] # None
                          /\ received[o][l] <= ordered[o][l]

(* Once no request is in flight, what the lines hold is covered by audit   *)
(* entries, unless a receipt stopped after its write: overlapping receipts *)
(* may lose a quantity, never invent one.                                  *)
NothingUnaudited ==
  Quiet => \A o \in Orders : \A l \in Lines : received[o][l] <= audited[o][l]

(* Served one after the other, requests leave the status of an order that  *)
(* is being received in line with its quantities.                          *)
StatusFollowsLines ==
  serial /\ Quiet => \A o \in Orders :
    status[o] \in {"issued", "partially_received", "received"} /\ WithQty(o) # {}
      => status[o] = Derive(o)

(* A receipt that is over has left its lines, its record and the status of *)
(* its order in agreement.                                                 *)
ReceiptsAgree == NothingUnaudited /\ StatusFollowsLines

(* The quantities receipts acknowledged never exceed what was ordered.     *)
AuditedWithinOrdered ==
  \A o \in Orders : \A l \in WithQty(o) : audited[o][l] <= ordered[o][l]

(* Served one after the other, requests implement the order book; those    *)
(* that overlap are left to the other properties.                          *)
Book == INSTANCE OrderBook
  WITH phase <- [o \in Orders |->
         IF ~serial THEN "absent"
         ELSE IF status[o] \in {"issued", "partially_received", "received"}
         THEN "open" ELSE status[o]],
       left <- [o \in Orders |->
         [l \in IF serial THEN WithQty(o) ELSE {} |->
           ordered[o][l] - received[o][l]]]
BookSpec == Book!Spec
=============================================================================
