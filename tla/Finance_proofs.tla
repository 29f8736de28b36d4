--------------------------- MODULE Finance_proofs ---------------------------
(***************************************************************************)
(* Purchase orders, accruals and exchange rates, each for any number of    *)
(* orders, accruals, currencies, days and calls.  The three share no       *)
(* variable, and so each has invariants of its own: Inv, BookInv and       *)
(* NoteInv for the orders; ChainInv, OrderInv and DraftsInv for the        *)
(* accruals; RatesInv, TableInv, HolesInv and CrossInv for the rates.      *)
(***************************************************************************)
EXTENDS PurchaseOrders, Accruals, FxRates, Sums, FiniteSetTheorems,
        SequenceTheorems, WellFoundedInduction, TLAPS

-----------------------------------------------------------------------------
(* Purchase orders.  The written quantity was checked when the request     *)
(* started; it still fits when it is written because the lines of an order *)
(* never change once the order exists, which is what the conjuncts of      *)
(* JobsFit about the request in flight say.                                *)

(* The state of the orders.                                                *)
RowsOK ==
  /\ status \in [Orders -> Status]
  /\ DOMAIN ordered = Orders
  /\ \A o \in Orders : /\ LinesOf(o) \subseteq Lines
                       /\ ordered[o] \in [LinesOf(o) -> Nat \union {None}]
                       /\ status[o] = "absent" => LinesOf(o) = {}
  /\ received \in [Orders -> [Lines -> Nat]]

Existing == Status \ {"absent"}

(* What a request in flight knows of its order.                            *)
JobFits(q) ==
  /\ q.pc # "idle" => q.order \in Orders /\ status[q.order] \in Existing
  /\ q.pc = "setStatus" => q.target \in Existing
  /\ q.pc = "writeLines" =>
       /\ q.already \in [Lines -> Nat]
       /\ q.entries \subseteq Entries
       /\ \A e \in q.entries :
            /\ e.line \in LinesOf(q.order) /\ ordered[q.order][e.line] # None
            /\ q.already[e.line] + e.qty <= ordered[q.order][e.line]

Fields == DOMAIN Idle

JobsFit ==
  /\ DOMAIN req = Requests
  /\ \A r \in Requests : DOMAIN req[r] = Fields /\ JobFits(req[r])

Inv == RowsOK /\ JobsFit /\ ReceivedWithinOrdered

LEMMA TablesTyped ==
  ASSUME NEW t \in LineTables
  PROVE  DOMAIN t \subseteq Lines /\ t \in [DOMAIN t -> Nat \union {None}]
BY LineTablesAssumption

(* Lines of the orders that exist do not change and an order stays in      *)
(* existence, so a request that is not touched by a step still fits.       *)
LEMMA JobFrame ==
  ASSUME NEW q, JobFits(q),
         \A o \in Orders : status[o] \in Existing =>
           status'[o] \in Existing /\ ordered'[o] = ordered[o]
  PROVE  JobFits(q)'
BY DEF JobFits, LinesOf

LEMMA RemainingFits ==
  ASSUME RowsOK, NEW o \in Orders, NEW e \in Remaining(o)
  PROVE  e \in Entries /\ Fits(o, e)
<1> USE DEF RowsOK
<1>1. PICK k \in WithQty(o) :
        /\ received[o][k] < ordered[o][k]
        /\ e = [no |-> 1, line |-> k, qty |-> ordered[o][k] - received[o][k]]
  BY DEF Remaining
<1>2. /\ k \in LinesOf(o) /\ k \in Lines
      /\ ordered[o][k] \in Nat /\ received[o][k] \in Nat
  BY <1>1 DEF WithQty, LinesOf
<1>3. ordered[o][k] - received[o][k] \in Nat \ {0}
  BY <1>1, <1>2 DEF WithQty
<1>4. e.line = k /\ e.qty = ordered[o][k] - received[o][k]
  BY <1>1
<1> QED
  BY <1>1, <1>2, <1>3, <1>4, NoneAssumption, MaxEntriesAssumption
  DEF Entries, Fits

(* Of the entries on a line one comes last, because a body is bounded.     *)
LEMMA LastExists ==
  ASSUME NEW es, es \subseteq Entries, NEW l \in Lines,
         \E e \in es : e.line = l
  PROVE  LastOn(es, l) \in es /\ LastOn(es, l).line = l
<1> DEFINE Left == {MaxEntries - e.no : e \in {f \in es : f.line = l}}
<1>1. Left \subseteq Nat /\ Left # {}
  BY MaxEntriesAssumption DEF Entries
<1>2. PICK x \in Left : \A y \in Left : ~(<<y, x>> \in OpToRel(<, Nat))
  BY <1>1, NatLessThanWellFounded, WFMin
<1>3. \A y \in Left : x <= y
  <2> TAKE y \in Left
  <2>1. <<y, x>> \in Nat \X Nat /\ <<y, x>>[1] = y /\ <<y, x>>[2] = x
    BY <1>1
  <2>2. ~(y < x)
    BY <1>2, <2>1, Zenon DEF OpToRel
  <2> QED BY <1>1, <2>2
<1>4. PICK e \in es : e.line = l /\ x = MaxEntries - e.no
  BY <1>2
<1>5. \A f \in es : f.line = l => f.no <= e.no
  <2> TAKE f \in es
  <2> HAVE f.line = l
  <2>1. x <= MaxEntries - f.no
    BY <1>3
  <2> QED BY <1>4, <2>1, MaxEntriesAssumption DEF Entries
<1> QED BY <1>4, <1>5 DEF LastOn

LEMMA InitInv == Init => Inv
BY DEF Init, Inv, RowsOK, JobsFit, JobFits, Fields, ReceivedWithinOrdered,
       LinesOf, Idle, Status

LEMMA NextInv == Inv /\ [Next]_vars => Inv'
<1> SUFFICES ASSUME Inv, [Next]_vars PROVE Inv'
  OBVIOUS
<1> USE DEF Inv
<1>1. ASSUME NEW r \in Requests, NEW o \in Orders, NEW t \in LineTables,
             Create(r, o, t)
      PROVE  Inv'
  <2>1. RowsOK'
    BY <1>1, TablesTyped DEF Create, RowsOK, LinesOf, Status
  <2>2. \A q : JobFits(q) => JobFits(q)'
    <3> SUFFICES ASSUME NEW q, JobFits(q) PROVE JobFits(q)'
      OBVIOUS
    <3>1. \A p \in Orders : status[p] \in Existing =>
            status'[p] \in Existing /\ ordered'[p] = ordered[p]
      BY <1>1 DEF Create, RowsOK, Existing
    <3> QED BY <3>1, JobFrame
  <2>3. JobsFit'
    BY <1>1, <2>2 DEF Create, JobsFit
  <2>4. ReceivedWithinOrdered'
    <3> SUFFICES ASSUME NEW p \in Orders, NEW l \in Lines,
                        received'[p][l] > 0
                 PROVE  (/\ l \in LinesOf(p) /\ ordered[p][l] # None
                         /\ received[p][l] <= ordered[p][l])'
      BY DEF ReceivedWithinOrdered
    <3>1. received'[p][l] = received[p][l]
      BY <1>1 DEF Create
    <3>2. CASE p # o
      BY <1>1, <3>1, <3>2 DEF Create, ReceivedWithinOrdered, LinesOf, RowsOK
    <3>3. CASE p = o
      BY <1>1, <3>1, <3>3 DEF Create, ReceivedWithinOrdered, RowsOK
    <3> QED BY <3>2, <3>3
  <2> QED BY <2>1, <2>3, <2>4
<1>2. ASSUME NEW r \in Requests, NEW o \in Orders, NEW s \in Status,
             StartTransition(r, o, s)
      PROVE  Inv'
  <2>1. s \in Existing /\ status[o] \in Existing
    BY <1>2 DEF StartTransition, Allowed, Existing, Status, RowsOK
  <2>2. DOMAIN req' = Requests /\ \A q \in Requests \ {r} : req'[q] = req[q]
    BY <1>2 DEF StartTransition, JobsFit
  <2>3. /\ DOMAIN req'[r] = Fields /\ req'[r].pc = "setStatus"
        /\ req'[r].order = o /\ req'[r].target = s
    BY <1>2 DEF StartTransition, JobsFit, Fields, Idle
  <2>4. JobsFit'
    BY <1>2, <2>1, <2>2, <2>3 DEF StartTransition, JobsFit, JobFits, LinesOf
  <2> QED
    BY <1>2, <2>4 DEF StartTransition, RowsOK, ReceivedWithinOrdered, LinesOf
<1>3. ASSUME NEW r \in Requests, NEW o \in Orders, NEW body \in Receipts,
             StartReceive(r, o, body)
      PROVE  Inv'
  <2> DEFINE es == Asked(o, body)
  <2>1. status[o] \in Existing /\ received[o] \in [Lines -> Nat]
    BY <1>3 DEF StartReceive, Open, Existing, Status, RowsOK
  <2>2. es \subseteq Entries
    BY ReceiptsAssumption, RemainingFits DEF Asked
  <2>3. DOMAIN req' = Requests /\ \A q \in Requests \ {r} : req'[q] = req[q]
    BY <1>3 DEF StartReceive, JobsFit
  <2>4. DOMAIN req'[r] = Fields /\ JobFits(req'[r])
    <3>1. CASE LinesOf(o) = {}
      <4>1. /\ DOMAIN req'[r] = Fields /\ req'[r].pc = "setStatus"
            /\ req'[r].order = o /\ req'[r].target = "received"
        BY <1>3, <3>1 DEF StartReceive, JobsFit, Fields, Idle
      <4> QED BY <2>1, <4>1 DEF JobFits, Existing, Status
    <3>2. CASE LinesOf(o) # {}
      <4>1. /\ DOMAIN req'[r] = Fields /\ req'[r].pc = "writeLines"
            /\ req'[r].order = o /\ req'[r].entries = es
            /\ req'[r].already = received[o]
        BY <1>3, <3>2 DEF StartReceive, JobsFit, Fields, Idle
      <4>2. \A e \in es : Fits(o, e)
        BY <1>3, <3>2 DEF StartReceive
      <4> QED BY <2>1, <2>2, <4>1, <4>2 DEF JobFits, Fits
    <3> QED BY <3>1, <3>2
  <2>5. JobsFit'
    BY <1>3, <2>3, <2>4 DEF StartReceive, JobsFit, JobFits, LinesOf
  <2> QED
    BY <1>3, <2>5 DEF StartReceive, RowsOK, ReceivedWithinOrdered, LinesOf
<1>4. ASSUME NEW r \in Requests, WriteLines(r)
      PROVE  Inv'
  <2> DEFINE o == req[r].order
             es == req[r].entries
             already == req[r].already
             Named(l) == \E e \in es : e.line = l
  <2>1. /\ o \in Orders /\ already \in [Lines -> Nat] /\ es \subseteq Entries
        /\ status[o] \in Existing
        /\ \A e \in es : /\ e.line \in LinesOf(o) /\ ordered[o][e.line] # None
                         /\ already[e.line] + e.qty <= ordered[o][e.line]
    BY <1>4 DEF WriteLines, At, JobsFit, JobFits
  <2>2. \A l \in Lines : Named(l) =>
          LastOn(es, l) \in es /\ LastOn(es, l).line = l
    BY <2>1, LastExists
  <2>3. \A l \in Lines :
          received'[o][l] = IF Named(l) THEN already[l] + LastOn(es, l).qty
                            ELSE received[o][l]
    BY <1>4, <2>1 DEF WriteLines, RowsOK
  <2>4. \A p \in Orders \ {o} : received'[p] = received[p]
    BY <1>4 DEF WriteLines, RowsOK
  <2>5. received' \in [Orders -> [Lines -> Nat]]
    <3>1. \A l \in Lines : Named(l) => LastOn(es, l).qty \in Nat \ {0}
      BY <2>1, <2>2 DEF Entries
    <3>2. received'[o] \in [Lines -> Nat]
      <4>1. received'[o] =
              [l \in Lines |-> IF Named(l) THEN already[l] + LastOn(es, l).qty
                               ELSE received[o][l]]
        BY <1>4, <2>1 DEF WriteLines, RowsOK
      <4> QED BY <2>1, <3>1, <4>1 DEF RowsOK
    <3> QED BY <1>4, <2>1, <2>4, <3>2 DEF WriteLines, RowsOK
  <2>6. JobsFit'
    <3>1. DOMAIN req' = Requests /\ \A q \in Requests \ {r} : req'[q] = req[q]
      BY <1>4 DEF WriteLines, Goto, JobsFit
    <3>2. /\ DOMAIN req'[r] = Fields /\ req'[r].pc = "reread"
          /\ req'[r].order = o
      BY <1>4 DEF WriteLines, Goto, JobsFit, Fields, Idle
    <3> QED
      BY <1>4, <2>1, <3>1, <3>2 DEF WriteLines, JobsFit, JobFits, LinesOf
  <2>7. ReceivedWithinOrdered'
    <3> SUFFICES ASSUME NEW p \in Orders, NEW l \in Lines,
                        received'[p][l] > 0
                 PROVE  /\ l \in LinesOf(p) /\ ordered[p][l] # None
                        /\ received'[p][l] <= ordered[p][l]
      BY <1>4 DEF WriteLines, ReceivedWithinOrdered, LinesOf
    <3>1. CASE p = o /\ Named(l)
      BY <2>1, <2>2, <2>3, <3>1
    <3>2. CASE ~(p = o /\ Named(l))
      <4>1. received'[p][l] = received[p][l]
        BY <2>3, <2>4, <3>2
      <4> QED BY <4>1 DEF ReceivedWithinOrdered
    <3> QED BY <3>1, <3>2
  <2> QED
    BY <1>4, <2>5, <2>6, <2>7 DEF WriteLines, RowsOK, LinesOf
<1>5. ASSUME NEW r \in Requests, Reread(r)
      PROVE  Inv'
  <2>1. req[r].order \in Orders /\ status[req[r].order] \in Existing
    BY <1>5 DEF Reread, At, JobsFit, JobFits
  <2>2. DOMAIN req' = Requests /\ \A q \in Requests \ {r} : req'[q] = req[q]
    BY <1>5 DEF Reread, Goto, JobsFit
  <2>3. /\ DOMAIN req'[r] = Fields /\ req'[r].order = req[r].order
        /\ \/ req'[r].pc = "audit"
           \/ req'[r].pc = "setStatus" /\ req'[r].target = Derive(req[r].order)
    BY <1>5 DEF Reread, Goto, JobsFit, Fields, Idle
  <2>4. Derive(req[r].order) \in Existing
    BY DEF Derive, Existing, Status
  <2>5. JobsFit'
    BY <1>5, <2>1, <2>2, <2>3, <2>4 DEF Reread, JobsFit, JobFits, LinesOf
  <2> QED
    BY <1>5, <2>5 DEF Reread, RowsOK, ReceivedWithinOrdered, LinesOf
<1>6. ASSUME NEW r \in Requests, SetStatus(r)
      PROVE  Inv'
  <2>1. /\ req[r].order \in Orders /\ status[req[r].order] \in Existing
        /\ req[r].target \in Existing
    BY <1>6 DEF SetStatus, At, JobsFit, JobFits
  <2>2. RowsOK'
    BY <1>6, <2>1 DEF SetStatus, RowsOK, LinesOf, Existing
  <2>3. \A q : JobFits(q) => JobFits(q)'
    <3> SUFFICES ASSUME NEW q, JobFits(q) PROVE JobFits(q)'
      OBVIOUS
    <3>1. \A o \in Orders : status[o] \in Existing =>
            status'[o] \in Existing /\ ordered'[o] = ordered[o]
      BY <1>6, <2>1 DEF SetStatus, RowsOK
    <3> QED BY <3>1, JobFrame
  <2>4. DOMAIN req' = Requests /\ \A q \in Requests \ {r} : req'[q] = req[q]
    BY <1>6 DEF SetStatus, Goto, Finish, JobsFit
  <2>5. DOMAIN req'[r] = Fields /\ JobFits(req[r])'
    <3>1. CASE Finish(r)
      BY <3>1 DEF Finish, JobsFit, JobFits, Fields, Idle
    <3>2. CASE Goto(r, "audit")
      <4>1. /\ DOMAIN req'[r] = Fields /\ req'[r].pc = "audit"
            /\ req'[r].order = req[r].order
        BY <3>2 DEF Goto, JobsFit, Fields, Idle
      <4>2. status'[req[r].order] \in Existing
        BY <1>6, <2>1 DEF SetStatus, RowsOK
      <4> QED BY <2>1, <4>1, <4>2 DEF JobFits
    <3> QED BY <1>6, <3>1, <3>2 DEF SetStatus
  <2>6. JobsFit'
    BY <2>3, <2>4, <2>5 DEF JobsFit
  <2> QED
    BY <1>6, <2>2, <2>6 DEF SetStatus, ReceivedWithinOrdered, LinesOf
<1>7. ASSUME NEW r \in Requests, Finish(r),
             UNCHANGED <<status, ordered, received>>
      PROVE  Inv'
  <2>1. DOMAIN req' = Requests /\ \A q \in Requests \ {r} : req'[q] = req[q]
    BY <1>7 DEF Finish, JobsFit
  <2>2. req'[r] = Idle
    BY <1>7 DEF Finish, JobsFit
  <2>3. JobsFit'
    BY <1>7, <2>1, <2>2 DEF JobsFit, JobFits, Fields, Idle, LinesOf
  <2> QED
    BY <1>7, <2>3 DEF RowsOK, ReceivedWithinOrdered, LinesOf
<1>8. CASE UNCHANGED vars
  BY <1>8 DEF vars, RowsOK, JobsFit, JobFits, ReceivedWithinOrdered, LinesOf
<1>9. ASSUME NEW r \in Requests, Audit(r) \/ Fail(r) PROVE Inv'
  BY <1>9, <1>7 DEF Audit, Fail
<1> QED
  BY <1>1, <1>2, <1>3, <1>4, <1>5, <1>6, <1>8, <1>9 DEF Next, Start, Step

(* However many requests overlap, and wherever they stop, no order ever    *)
(* holds more of a line than it ordered.                                   *)
THEOREM NeverOverReceived == Spec => []ReceivedWithinOrdered
<1>1. Inv => ReceivedWithinOrdered
  BY DEF Inv
<1> QED BY <1>1, InitInv, NextInv, PTL DEF Spec

-----------------------------------------------------------------------------
(* The order book.  Served one after the other, a request finds the rows   *)
(* as it read them; the only moment at which the status of an order is not *)
(* that of its quantities is inside the receipt that is about to set it.   *)

OnReceipt == {"issued", "partially_received", "received"}

(* A receipt has written the lines of o and not yet its status.            *)
Unsettled(q, o) ==
  /\ q.order = o
  /\ q.pc = "reread" \/ (q.pc = "setStatus" /\ q.op = "receive")

StatusFits(o) ==
  status[o] \in OnReceipt /\ WithQty(o) # {} => status[o] = Derive(o)

(* What the only request in flight knows.                                  *)
AloneKnows(q) ==
  /\ q.pc \in {"writeLines", "reread"} => q.op = "receive"
  /\ q.pc # "idle" /\ q.pc # "audit" /\ q.op = "receive" =>
       status[q.order] \in Open
  /\ q.pc = "writeLines" => q.already = received[q.order]
  /\ q.pc = "setStatus" =>
       IF q.op = "receive" THEN q.target = Derive(q.order)
       ELSE q.target \in Allowed[status[q.order]]

AloneInv ==
  /\ \A r, s \in Requests : ~At(r, "idle") /\ ~At(s, "idle") => r = s
  /\ \A r \in Requests : AloneKnows(req[r])
  /\ \A o \in Orders : status[o] \in {"absent", "draft"} =>
       \A l \in Lines : received[o][l] = 0
  /\ \A o \in Orders :
       (\A r \in Requests : ~Unsettled(req[r], o)) => StatusFits(o)

BookInv == serial => AloneInv

(* A receipt that has begun to write goes on to set the status.            *)
Finishes == FailAt \subseteq {"writeLines", "audit"}

LEMMA InitBook == Init => BookInv
BY DEF Init, BookInv, AloneInv, AloneKnows, Idle, At, StatusFits, OnReceipt

(* What a step that leaves orders and lines alone leaves of the invariant. *)
LEMMA DeriveFrame ==
  ASSUME NEW o, ordered'[o] = ordered[o], received'[o] = received[o]
  PROVE  WithQty(o)' = WithQty(o) /\ Derive(o)' = Derive(o)
BY DEF WithQty, LinesOf, Derive, AllIn

(* An order of which nothing has come in is issued, one of which all has   *)
(* come in is received.                                                    *)
LEMMA DeriveBounds ==
  ASSUME RowsOK, NEW o \in Orders
  PROVE  /\ Derive(o) \in OnReceipt
         /\ Derive(o) = "received" <=> AllIn(o)
         /\ WithQty(o) = {} => Derive(o) = "received"
         /\ (\A l \in Lines : received[o][l] = 0) /\ WithQty(o) # {}
              => Derive(o) = "issued"
<1>1. Derive(o) \in OnReceipt /\ (Derive(o) = "received" <=> AllIn(o))
  BY DEF Derive, OnReceipt
<1>2. WithQty(o) = {} => AllIn(o)
  BY DEF AllIn
<1>3. ASSUME \A l \in Lines : received[o][l] = 0, WithQty(o) # {}
      PROVE  Derive(o) = "issued"
  <2>1. \A l \in WithQty(o) :
          /\ received[o][l] = 0
          /\ ordered[o][l] \in Nat /\ ordered[o][l] > 0
    BY <1>3, NoneAssumption DEF WithQty, LinesOf, RowsOK
  <2>2. ~AllIn(o) /\ ~\E k \in WithQty(o) : received[o][k] > 0
    BY <1>3, <2>1 DEF AllIn
  <2> QED BY <2>2 DEF Derive
<1> QED BY <1>1, <1>2, <1>3

(* Which statuses a transition leads to.                                   *)
LEMMA AllowedMoves ==
  ASSUME NEW s \in Status, NEW t \in Allowed[s]
  PROVE  \/ s = "draft" /\ t = "issued"
         \/ s \in {"draft", "issued", "partially_received"} /\ t = "cancelled"
         \/ s = "received" /\ t = "closed"
BY DEF Allowed, Status

(* Where a request is in flight, no other is; and nobody is in flight when *)
(* one starts.                                                             *)
LEMMA OthersRest ==
  ASSUME AloneInv, NEW r \in Requests, ~At(r, "idle")
  PROVE  \A s \in Requests \ {r} : At(s, "idle")
BY DEF AloneInv

LEMMA OnlyOne ==
  ASSUME NEW r \in Requests, NEW job,
         \A s \in Requests \ {r} : At(s, "idle"),
         DOMAIN req = Requests, req' = [req EXCEPT ![r] = job]
  PROVE  /\ req'[r] = job
         /\ \A s \in Requests \ {r} : req'[s] = req[s] /\ req'[s].pc = "idle"
         /\ \A s, t \in Requests :
              req'[s].pc # "idle" /\ req'[t].pc # "idle" => s = t
<1>1. req'[r] = job /\ \A s \in Requests \ {r} : req'[s] = req[s]
  OBVIOUS
<1>2. \A s \in Requests \ {r} : req'[s].pc = "idle"
  BY <1>1 DEF At
<1> QED BY <1>1, <1>2

(* What is left to show of a step of request r: what r now knows, and the  *)
(* orders.                                                                 *)
LEMMA OneMoves ==
  ASSUME NEW r \in Requests, NEW job,
         \A s \in Requests \ {r} : At(s, "idle"),
         DOMAIN req = Requests, req' = [req EXCEPT ![r] = job],
         AloneKnows(job)',
         \A o \in Orders : status'[o] \in {"absent", "draft"} =>
           \A l \in Lines : received'[o][l] = 0,
         \A o \in Orders : ~Unsettled(job, o) => StatusFits(o)'
  PROVE  AloneInv'
<1>1. /\ req'[r] = job
      /\ \A s \in Requests \ {r} : req'[s].pc = "idle"
      /\ \A s, t \in Requests :
           req'[s].pc # "idle" /\ req'[t].pc # "idle" => s = t
  BY OnlyOne
<1>2. \A s \in Requests : AloneKnows(req[s])'
  <2> TAKE s \in Requests
  <2>1. CASE s = r
    BY <1>1, <2>1 DEF AloneKnows
  <2>2. CASE s # r
    BY <1>1, <2>2 DEF AloneKnows
  <2> QED BY <2>1, <2>2
<1>3. \A o \in Orders :
        (\A s \in Requests : ~Unsettled(req[s], o)') => StatusFits(o)'
  BY <1>1 DEF Unsettled
<1> QED BY <1>1, <1>2, <1>3 DEF AloneInv, At

LEMMA AllRest ==
  ASSUME Quiet, AloneInv, NEW o \in Orders
  PROVE  StatusFits(o) /\ \A r, s \in Requests : s # r => At(s, "idle")
BY DEF Quiet, AloneInv, At, Unsettled

LEMMA BookStart ==
  ASSUME Inv, AloneInv, Quiet, NEW r \in Requests, Start(r)
  PROVE  AloneInv'
<1> USE DEF Inv
<1>1. ASSUME NEW o \in Orders, NEW t \in LineTables, Create(r, o, t)
      PROVE  AloneInv'
  <2>1. /\ status[o] = "absent" /\ status'[o] = "draft"
        /\ \A p \in Orders \ {o} : status'[p] = status[p] /\ ordered'[p] = ordered[p]
        /\ received' = received /\ req' = req
    BY <1>1 DEF Create, RowsOK
  <2>2. \A s \in Requests : AloneKnows(req[s])' /\ At(s, "idle")'
    BY <2>1 DEF Quiet, At, AloneKnows
  <2>3. \A p \in Orders : status'[p] \in {"absent", "draft"} =>
          \A l \in Lines : received'[p][l] = 0
    BY <2>1 DEF AloneInv
  <2>4. \A p \in Orders : StatusFits(p)'
    <3> TAKE p \in Orders
    <3>1. CASE p = o
      BY <2>1, <3>1 DEF StatusFits, OnReceipt
    <3>2. CASE p # o
      <4>1. WithQty(p)' = WithQty(p) /\ Derive(p)' = Derive(p)
        BY <2>1, <3>2, DeriveFrame
      <4> QED BY <2>1, <3>2, <4>1, AllRest DEF StatusFits
    <3> QED BY <3>1, <3>2
  <2> QED BY <2>2, <2>3, <2>4 DEF AloneInv
<1>2. ASSUME NEW job, req' = [req EXCEPT ![r] = job],
             UNCHANGED <<status, ordered, received>>, AloneKnows(job)',
             \A o \in Orders : ~Unsettled(job, o) => StatusFits(o)
      PROVE  AloneInv'
  <2>1. \A s \in Requests \ {r} : At(s, "idle")
    BY DEF Quiet
  <2>2. \A o \in Orders : status'[o] \in {"absent", "draft"} =>
          \A l \in Lines : received'[o][l] = 0
    BY <1>2 DEF AloneInv
  <2>3. \A o \in Orders : ~Unsettled(job, o) => StatusFits(o)'
    BY <1>2, DeriveFrame DEF StatusFits
  <2> QED BY <1>2, <2>1, <2>2, <2>3, OneMoves DEF JobsFit
<1>3. \A o \in Orders : StatusFits(o)
  BY AllRest
<1>4. ASSUME NEW o \in Orders, NEW s \in Status, StartTransition(r, o, s)
      PROVE  AloneInv'
  <2>1. PICK job : job = [Idle EXCEPT !.pc = "setStatus", !.op = "transition",
                                      !.order = o, !.target = s]
    OBVIOUS
  <2>2. job.pc = "setStatus" /\ job.op = "transition" /\ job.order = o /\ job.target = s
    BY <2>1 DEF Idle
  <2>3. req' = [req EXCEPT ![r] = job] /\ UNCHANGED <<status, ordered, received>>
    BY <1>4, <2>1 DEF StartTransition
  <2>4. AloneKnows(job)'
    BY <1>4, <2>2, <2>3 DEF AloneKnows, StartTransition
  <2> QED BY <1>2, <1>3, <2>3, <2>4
<1>5. ASSUME NEW o \in Orders, NEW body \in Receipts, StartReceive(r, o, body)
      PROVE  AloneInv'
  <2>1. PICK already : already = received[o]
    OBVIOUS
  <2>2. /\ status[o] \in Open
        /\ UNCHANGED <<status, ordered, received>>
    BY <1>5 DEF StartReceive
  <2>3. CASE LinesOf(o) = {}
    <3>1. PICK job : job = [Idle EXCEPT !.op = "receive", !.order = o, !.already = already,
                             !.pc = "setStatus", !.target = "received"]
      OBVIOUS
    <3>2. /\ job.pc = "setStatus" /\ job.op = "receive" /\ job.order = o
          /\ job.target = "received"
      BY <3>1 DEF Idle
    <3>3. req' = [req EXCEPT ![r] = job]
      BY <1>5, <2>1, <2>3, <3>1 DEF StartReceive
    <3>4. Derive(o) = "received"
      BY <2>3, DeriveBounds DEF WithQty
    <3>5. Derive(o)' = "received"
      BY <2>2, <3>4, DeriveFrame
    <3>6. AloneKnows(job)'
      BY <2>2, <3>2, <3>5 DEF AloneKnows
    <3> QED BY <1>2, <1>3, <2>2, <3>3, <3>6
  <2>4. CASE LinesOf(o) # {}
    <3>1. PICK es : es = Asked(o, body)
      OBVIOUS
    <3>2. PICK job : job = [Idle EXCEPT !.op = "receive", !.order = o, !.already = already,
                             !.pc = "writeLines", !.entries = es]
      OBVIOUS
    <3>3. /\ job.pc = "writeLines" /\ job.op = "receive" /\ job.order = o
          /\ job.already = already
      BY <3>2 DEF Idle
    <3>4. req' = [req EXCEPT ![r] = job]
      BY <1>5, <2>1, <2>4, <3>1, <3>2 DEF StartReceive
    <3>5. AloneKnows(job)'
      BY <2>1, <2>2, <3>3 DEF AloneKnows
    <3> QED BY <1>2, <1>3, <2>2, <3>4, <3>5
  <2> QED BY <2>3, <2>4
<1> QED BY <1>1, <1>4, <1>5 DEF Start

LEMMA BookWork ==
  ASSUME Inv, AloneInv, NEW r \in Requests, ~At(r, "idle"), Finishes,
         Step(r) \/ Fail(r)
  PROVE  AloneInv'
<1> USE DEF Inv
<1>1. \A s \in Requests \ {r} : At(s, "idle")
  BY OthersRest
<1>2. DOMAIN req = Requests /\ AloneKnows(req[r]) /\ JobFits(req[r])
  BY DEF JobsFit, AloneInv
<1>3. PICK q : q = req[r]
  OBVIOUS
<1>4. /\ q.order \in Orders /\ status[q.order] \in Existing
      /\ q.pc # "idle" /\ AloneKnows(q) /\ JobFits(q) /\ DOMAIN q = Fields
  BY <1>2, <1>3 DEF JobFits, At, JobsFit
<1>5. \A o \in Orders : ~Unsettled(q, o) => StatusFits(o)
  BY <1>1, <1>3 DEF AloneInv, Unsettled, At
<1>6. \A o \in Orders : Derive(o) \in OnReceipt
  BY DeriveBounds
<1>7. ASSUME NEW job, req' = [req EXCEPT ![r] = job],
             UNCHANGED <<status, ordered, received>>, AloneKnows(job)',
             \A o \in Orders : ~Unsettled(job, o) => StatusFits(o)
      PROVE  AloneInv'
  <2>1. \A o \in Orders : status'[o] \in {"absent", "draft"} =>
          \A l \in Lines : received'[o][l] = 0
    BY <1>7 DEF AloneInv
  <2>2. \A o \in Orders : ~Unsettled(job, o) => StatusFits(o)'
    BY <1>7, DeriveFrame DEF StatusFits
  <2> QED BY <1>1, <1>2, <1>7, <2>1, <2>2, OneMoves
<1>8. AloneKnows(Idle) /\ Idle.pc = "idle" /\ \A o : ~Unsettled(Idle, o)
  BY DEF Idle, AloneKnows, Unsettled
<1>9. ASSUME WriteLines(r) PROVE AloneInv'
  <2>1. /\ q.pc = "writeLines" /\ q.op = "receive" /\ status[q.order] \in Open
        /\ UNCHANGED <<status, ordered>>
    BY <1>3, <1>4, <1>9 DEF WriteLines, At, AloneKnows
  <2>2. \A p \in Orders \ {q.order} : received'[p] = received[p]
    BY <1>3, <1>9 DEF WriteLines, RowsOK
  <2>3. PICK job : job = [q EXCEPT !.pc = "reread"]
    OBVIOUS
  <2>4. job.pc = "reread" /\ job.op = q.op /\ job.order = q.order
    BY <1>4, <2>3 DEF Fields, Idle
  <2>5. req' = [req EXCEPT ![r] = job]
    BY <1>2, <1>3, <1>9, <2>3 DEF WriteLines, Goto
  <2>6. AloneKnows(job)'
    BY <2>1, <2>4 DEF AloneKnows
  <2>7. \A o \in Orders : status'[o] \in {"absent", "draft"} =>
          \A l \in Lines : received'[o][l] = 0
    BY <2>1, <2>2 DEF AloneInv, Open
  <2>8. \A o \in Orders : ~Unsettled(job, o) => StatusFits(o)'
    <3> SUFFICES ASSUME NEW o \in Orders, o # q.order PROVE StatusFits(o)'
      BY <2>4 DEF Unsettled
    <3>1. WithQty(o)' = WithQty(o) /\ Derive(o)' = Derive(o)
      BY <2>1, <2>2, DeriveFrame
    <3>2. StatusFits(o)
      BY <1>5 DEF Unsettled
    <3> QED BY <2>1, <3>1, <3>2 DEF StatusFits
  <2> QED BY <1>1, <1>2, <2>5, <2>6, <2>7, <2>8, OneMoves
<1>10. ASSUME Reread(r) PROVE AloneInv'
  <2>1. /\ q.pc = "reread" /\ q.op = "receive" /\ status[q.order] \in Open
        /\ UNCHANGED <<status, ordered, received>>
    BY <1>3, <1>4, <1>10 DEF Reread, At, AloneKnows
  <2>2. CASE Derive(q.order) # status[q.order]
    <3>1. PICK t : t = Derive(q.order)
      OBVIOUS
    <3>2. PICK job : job = [q EXCEPT !.target = t, !.pc = "setStatus"]
      OBVIOUS
    <3>3. /\ job.pc = "setStatus" /\ job.op = q.op /\ job.order = q.order
          /\ job.target = t
      BY <1>4, <3>2 DEF Fields, Idle
    <3>4. req' = [req EXCEPT ![r] = job]
      BY <1>2, <1>3, <1>10, <2>2, <3>1, <3>2 DEF Reread
    <3>5. Derive(q.order)' = t
      BY <2>1, <3>1, DeriveFrame
    <3>6. AloneKnows(job)'
      BY <2>1, <3>3, <3>5 DEF AloneKnows
    <3>7. \A o \in Orders : ~Unsettled(job, o) => StatusFits(o)
      BY <1>5, <2>1, <3>3 DEF Unsettled
    <3> QED BY <1>7, <2>1, <3>4, <3>6, <3>7
  <2>3. CASE Derive(q.order) = status[q.order]
    <3>1. PICK job : job = [q EXCEPT !.pc = "audit"]
      OBVIOUS
    <3>2. job.pc = "audit"
      BY <1>4, <3>1 DEF Fields, Idle
    <3>3. req' = [req EXCEPT ![r] = job]
      BY <1>2, <1>3, <1>10, <2>3, <3>1 DEF Reread, Goto
    <3>4. AloneKnows(job)'
      BY <3>2 DEF AloneKnows
    <3>5. \A o \in Orders : StatusFits(o)
      BY <1>5, <2>3 DEF Unsettled, StatusFits
    <3> QED BY <1>7, <2>1, <3>3, <3>4, <3>5
  <2> QED BY <2>2, <2>3
<1>11. ASSUME SetStatus(r) PROVE AloneInv'
  <2>1. /\ q.pc = "setStatus" /\ status' = [status EXCEPT ![q.order] = q.target]
        /\ UNCHANGED <<ordered, received>>
    BY <1>3, <1>11 DEF SetStatus, At
  <2>2. PICK job : job = IF q.op = "receive" THEN [q EXCEPT !.pc = "audit"] ELSE Idle
    OBVIOUS
  <2>3. job.pc \in {"audit", "idle"}
    BY <1>4, <1>8, <2>2 DEF Fields, Idle
  <2>4. req' = [req EXCEPT ![r] = job]
    BY <1>2, <1>3, <1>11, <2>2 DEF SetStatus, Goto, Finish
  <2>5. AloneKnows(job)'
    BY <2>3 DEF AloneKnows
  <2>6. /\ status'[q.order] = q.target
        /\ \A o \in Orders \ {q.order} : status'[o] = status[o]
    BY <1>4, <2>1 DEF RowsOK
  <2>7. /\ q.target \notin {"absent", "draft"}
        /\ \/ q.target = Derive(q.order)
           \/ q.target \notin OnReceipt
           \/ q.target = "issued" /\ status[q.order] = "draft"
    <3>1. CASE q.op = "receive"
      BY <1>4, <1>6, <2>1, <3>1 DEF AloneKnows, OnReceipt
    <3>2. CASE q.op # "receive"
      <4>1. q.target \in Allowed[status[q.order]] /\ status[q.order] \in Status
        BY <1>4, <2>1, <3>2 DEF AloneKnows, Existing
      <4> QED BY <4>1, AllowedMoves DEF OnReceipt
    <3> QED BY <3>1, <3>2
  <2>8. \A o \in Orders : status'[o] \in {"absent", "draft"} =>
          \A l \in Lines : received'[o][l] = 0
    BY <2>1, <2>6, <2>7 DEF AloneInv
  <2>9. \A o \in Orders : StatusFits(o)'
    <3> TAKE o \in Orders
    <3>1. WithQty(o)' = WithQty(o) /\ Derive(o)' = Derive(o)
      BY <2>1, DeriveFrame
    <3>2. CASE o # q.order
      <4>1. StatusFits(o)
        BY <1>5, <3>2 DEF Unsettled
      <4> QED BY <2>6, <3>1, <3>2, <4>1 DEF StatusFits
    <3>3. CASE o = q.order
      <4>1. status[o] = "draft" => \A l \in Lines : received[o][l] = 0
        BY DEF AloneInv
      <4>2. WithQty(o) # {} /\ status[o] = "draft" => Derive(o) = "issued"
        BY <4>1, DeriveBounds
      <4> QED BY <2>6, <2>7, <3>1, <3>3, <4>2 DEF StatusFits
    <3> QED BY <3>2, <3>3
  <2> QED BY <1>1, <1>2, <2>4, <2>5, <2>8, <2>9, OneMoves
<1>12. ASSUME Finish(r), UNCHANGED <<status, ordered, received>>,
              q.pc \in {"writeLines", "audit"}
       PROVE  AloneInv'
  <2>1. \A o \in Orders : StatusFits(o)
    BY <1>5, <1>12 DEF Unsettled
  <2>2. AloneKnows(Idle)'
    BY <1>8 DEF AloneKnows
  <2>3. PICK job : job = Idle
    OBVIOUS
  <2>4. req' = [req EXCEPT ![r] = job] /\ AloneKnows(job)'
    BY <1>12, <2>2, <2>3 DEF Finish
  <2> QED BY <1>7, <1>12, <2>1, <2>4
<1>13. CASE Audit(r)
  BY <1>3, <1>12, <1>13 DEF Audit, At
<1>14. CASE Fail(r)
  BY <1>3, <1>12, <1>14 DEF Fail, Finishes
<1> QED BY <1>9, <1>10, <1>11, <1>13, <1>14 DEF Step

LEMMA NextBook ==
  Finishes /\ Inv /\ BookInv /\ [Next]_vars => BookInv'
<1> SUFFICES ASSUME Finishes, Inv, BookInv, [Next]_vars, serial' PROVE AloneInv'
  BY DEF BookInv
<1>1. serial' = serial /\ serial /\ AloneInv
  BY DEF Next, vars, BookInv
<1>2. ASSUME NEW r \in Requests, (serial => Quiet) /\ Start(r) PROVE AloneInv'
  BY <1>1, <1>2, BookStart
<1>3. ASSUME NEW r \in Requests, Step(r) \/ Fail(r) PROVE AloneInv'
  <2>1. ~At(r, "idle")
    BY <1>3 DEF Step, Fail, WriteLines, Reread, SetStatus, Audit, At
  <2> QED BY <1>1, <1>3, <2>1, BookWork
<1>4. CASE UNCHANGED vars
  BY <1>1, <1>4
  DEF vars, AloneInv, AloneKnows, At, Unsettled, StatusFits, WithQty, LinesOf,
      Derive, AllIn
<1> QED BY <1>2, <1>3, <1>4 DEF Next

-----------------------------------------------------------------------------
(* The steps of the order book.                                            *)

Phase(o) == IF ~serial THEN "absent"
            ELSE IF status[o] \in OnReceipt THEN "open" ELSE status[o]
LeftOf(o) == [l \in IF serial THEN WithQty(o) ELSE {} |->
              ordered[o][l] - received[o][l]]
PhaseMap == [o \in Orders |-> Phase(o)]
LeftMap == [o \in Orders |-> LeftOf(o)]

LEMMA BookRests ==
  ASSUME PhaseMap' = PhaseMap, LeftMap' = LeftMap
  PROVE  UNCHANGED Book!vars
BY DEF Book!vars, PhaseMap, LeftMap, Phase, LeftOf, OnReceipt

(* A step that leaves the lines alone and moves one order from one phase   *)
(* to another is a move of the book.                                       *)
LEMMA BookMoves ==
  ASSUME NEW o \in Orders, NEW p, UNCHANGED <<ordered, received, serial>>,
         PhaseMap' = [PhaseMap EXCEPT ![o] = p]
  PROVE  Book!Move(o, p)
<1>1. LeftMap' = LeftMap
  BY DEF LeftMap, LeftOf, WithQty, LinesOf
<1> QED BY <1>1 DEF Book!Move, PhaseMap, LeftMap, Phase, LeftOf, OnReceipt

LEMMA BookStutters ==
  ASSUME UNCHANGED <<ordered, received, serial>>,
         \A o \in Orders : Phase(o)' = Phase(o)
  PROVE  UNCHANGED Book!vars
<1>1. LeftMap' = LeftMap /\ PhaseMap' = PhaseMap
  BY DEF LeftMap, LeftOf, WithQty, LinesOf, PhaseMap
<1> QED BY <1>1, BookRests

(* Of a complete order nothing is left to come.                            *)
LEMMA BookComplete ==
  ASSUME Inv, serial, NEW o \in Orders
  PROVE  Book!Complete(o) <=> AllIn(o)
<1>1. \A l \in WithQty(o) :
        /\ received[o][l] \in Nat /\ ordered[o][l] \in Nat
        /\ received[o][l] <= ordered[o][l]
  <2> SUFFICES ASSUME NEW l \in WithQty(o)
               PROVE  /\ received[o][l] \in Nat /\ ordered[o][l] \in Nat
                      /\ received[o][l] <= ordered[o][l]
    OBVIOUS
  <2>1. l \in Lines /\ received[o][l] \in Nat /\ ordered[o][l] \in Nat
    BY NoneAssumption DEF Inv, RowsOK, WithQty, LinesOf
  <2>2. received[o][l] > 0 => received[o][l] <= ordered[o][l]
    BY <2>1 DEF Inv, ReceivedWithinOrdered
  <2> QED BY <2>1, <2>2
<1>2. LeftMap[o] = [l \in WithQty(o) |-> ordered[o][l] - received[o][l]]
  BY DEF LeftMap, LeftOf
<1>3. Book!Complete(o) <=> \A l \in DOMAIN LeftMap[o] : LeftMap[o][l] = 0
  BY DEF Book!Complete, LeftMap, LeftOf
<1>4. Book!Complete(o) <=> \A l \in WithQty(o) : ordered[o][l] - received[o][l] = 0
  BY <1>2, <1>3
<1>5. \A l \in WithQty(o) :
        ordered[o][l] - received[o][l] = 0 <=> received[o][l] >= ordered[o][l]
  BY <1>1
<1> QED BY <1>4, <1>5 DEF AllIn

LEMMA BookInit == Init => Book!Init
<1> SUFFICES ASSUME Init PROVE Book!Init
  OBVIOUS
<1>1. \A o \in Orders : Phase(o) = "absent"
  BY DEF Init, Phase, OnReceipt
<1>2. \A o \in Orders : LeftOf(o) = [l \in {} |-> 0]
  <2> TAKE o \in Orders
  <2>1. WithQty(o) = {}
    BY DEF Init, WithQty, LinesOf
  <2> QED BY <2>1 DEF LeftOf
<1>3. PhaseMap = [o \in Orders |-> "absent"] /\ LeftMap = [o \in Orders |-> [l \in {} |-> 0]]
  BY <1>1, <1>2 DEF PhaseMap, LeftMap
<1> QED BY <1>3 DEF Book!Init, PhaseMap, LeftMap, Phase, LeftOf, OnReceipt

LEMMA BookPlace ==
  ASSUME Inv, AloneInv, serial, UNCHANGED serial, NEW r \in Requests,
         NEW o \in Orders, NEW t \in LineTables, Create(r, o, t)
  PROVE  Book!Place(o)
<1>1. /\ status[o] = "absent" /\ status' = [status EXCEPT ![o] = "draft"]
      /\ ordered' = [ordered EXCEPT ![o] = t] /\ UNCHANGED received
  BY DEF Create
<1>2. RowsOK
  BY DEF Inv
<1>3. PhaseMap[o] = "absent" /\ PhaseMap' = [PhaseMap EXCEPT ![o] = "draft"]
  BY <1>1, <1>2 DEF PhaseMap, Phase, OnReceipt, RowsOK
<1>4. ordered'[o] = t /\ \A p \in Orders \ {o} : ordered'[p] = ordered[p]
  BY <1>1, <1>2 DEF RowsOK
<1>5. \A p \in Orders \ {o} : LeftMap'[p] = LeftMap[p]
  <2> TAKE p \in Orders \ {o}
  <2>1. WithQty(p)' = WithQty(p)
    BY <1>1, <1>4, DeriveFrame
  <2> QED BY <1>1, <1>4, <2>1 DEF LeftMap, LeftOf
<1>6. \A l \in Lines : received[o][l] = 0
  BY <1>1 DEF AloneInv
<1>7. DOMAIN LeftMap'[o] \subseteq Lines /\ \A l \in DOMAIN LeftMap'[o] : LeftMap'[o][l] > 0
  <2>1. WithQty(o)' = {l \in DOMAIN t : t[l] # None /\ t[l] > 0}
    BY <1>4 DEF WithQty, LinesOf
  <2>2. LeftMap'[o] = [l \in WithQty(o)' |-> t[l] - received[o][l]]
    BY <1>1, <1>4 DEF LeftMap, LeftOf
  <2>3. \A l \in WithQty(o)' : l \in Lines /\ t[l] \in Nat /\ t[l] > 0
    BY <2>1, TablesTyped, NoneAssumption
  <2>4. \A l \in WithQty(o)' : t[l] - received[o][l] > 0
    BY <2>3, <1>6
  <2>5. DOMAIN LeftMap'[o] = WithQty(o)'
    BY <2>2
  <2>6. \A l \in WithQty(o)' : LeftMap'[o][l] = t[l] - received[o][l]
    BY <2>2
  <2> QED BY <2>3, <2>4, <2>5, <2>6
<1> QED
  BY <1>3, <1>5, <1>7
  DEF Book!Place, PhaseMap, LeftMap, Phase, LeftOf, OnReceipt

LEMMA BookDeliver ==
  ASSUME Inv, AloneInv, serial, UNCHANGED serial, NEW r \in Requests, WriteLines(r),
         NEW o, o = req[r].order
  PROVE  Book!Deliver(o)
<1> DEFINE es == req[r].entries
           Named(l) == \E e \in es : e.line = l
<1>1. RowsOK /\ AloneKnows(req[r]) /\ JobFits(req[r]) /\ At(r, "writeLines")
  BY DEF Inv, JobsFit, AloneInv, WriteLines
<1>2. /\ o \in Orders /\ es \subseteq Entries
      /\ status[o] \in Open /\ req[r].already = received[o]
      /\ \A e \in es : /\ e.line \in LinesOf(o) /\ ordered[o][e.line] # None
                       /\ received[o][e.line] + e.qty <= ordered[o][e.line]
  BY <1>1 DEF At, JobFits, AloneKnows
<1>3. UNCHANGED <<status, ordered>>
  BY DEF WriteLines
<1>4. \A p \in Orders \ {o} : received'[p] = received[p]
  BY <1>1 DEF WriteLines, RowsOK
<1>5. \A l \in Lines :
        received'[o][l] = IF Named(l) THEN received[o][l] + LastOn(es, l).qty
                          ELSE received[o][l]
  BY <1>1, <1>2 DEF WriteLines, RowsOK
<1>6. \A l \in WithQty(o) :
        /\ l \in Lines /\ ordered[o][l] \in Nat /\ received[o][l] \in Nat
        /\ received[o][l] <= ordered[o][l]
  <2> SUFFICES ASSUME NEW l \in WithQty(o)
               PROVE  /\ l \in Lines /\ received[o][l] \in Nat /\ ordered[o][l] \in Nat
                      /\ received[o][l] <= ordered[o][l]
    OBVIOUS
  <2>1. l \in Lines /\ received[o][l] \in Nat /\ ordered[o][l] \in Nat
    BY <1>1, <1>2, NoneAssumption DEF RowsOK, WithQty, LinesOf
  <2>2. received[o][l] > 0 => received[o][l] <= ordered[o][l]
    BY <1>2, <2>1 DEF Inv, ReceivedWithinOrdered
  <2> QED BY <2>1, <2>2
<1>7. \A l \in WithQty(o) :
        ordered[o][l] - received'[o][l] \in 0..(ordered[o][l] - received[o][l])
  <2> TAKE l \in WithQty(o)
  <2>1. l \in Lines /\ ordered[o][l] \in Nat /\ received[o][l] \in Nat
        /\ received[o][l] <= ordered[o][l]
    BY <1>6
  <2>2. CASE Named(l)
    <3>1. LastOn(es, l) \in es /\ LastOn(es, l).line = l
      BY <1>2, <2>1, <2>2, LastExists
    <3>2. PICK n : n = LastOn(es, l).qty
      OBVIOUS
    <3>3. n \in Nat /\ received[o][l] + n <= ordered[o][l]
      BY <1>2, <3>1, <3>2 DEF Entries
    <3>4. received'[o][l] = received[o][l] + n
      BY <1>5, <2>1, <2>2, <3>2
    <3> QED BY <2>1, <3>3, <3>4
  <2>3. CASE ~Named(l)
    <3>1. received'[o][l] = received[o][l]
      BY <1>5, <2>1, <2>3
    <3> QED BY <2>1, <3>1
  <2> QED BY <2>2, <2>3
<1>8. PhaseMap[o] = "open" /\ PhaseMap' = PhaseMap
  BY <1>2, <1>3 DEF PhaseMap, Phase, OnReceipt, Open
<1>9. \A p \in Orders : WithQty(p)' = WithQty(p)
  BY <1>3 DEF WithQty, LinesOf
<1>10. \A p \in Orders \ {o} : LeftMap'[p] = LeftMap[p]
  BY <1>3, <1>4, <1>9 DEF LeftMap, LeftOf
<1>11. /\ DOMAIN LeftMap[o] = WithQty(o) /\ DOMAIN LeftMap'[o] = WithQty(o)
       /\ \A l \in WithQty(o) : /\ LeftMap[o][l] = ordered[o][l] - received[o][l]
                                /\ LeftMap'[o][l] = ordered[o][l] - received'[o][l]
  BY <1>2, <1>3, <1>9 DEF LeftMap, LeftOf
<1>12. \A l \in DOMAIN LeftMap[o] : LeftMap'[o][l] \in 0..LeftMap[o][l]
  BY <1>7, <1>11
<1> QED
  BY <1>8, <1>10, <1>11, <1>12
  DEF Book!Deliver, PhaseMap, LeftMap, Phase, LeftOf, OnReceipt

LEMMA BookSetStatus ==
  ASSUME Inv, AloneInv, serial, UNCHANGED serial, NEW r \in Requests, SetStatus(r)
  PROVE  \/ \E o \in Orders : Book!Issue(o) \/ Book!Cancel(o) \/ Book!Close(o)
         \/ UNCHANGED Book!vars
<1>1. PICK q : q = req[r]
  OBVIOUS
<1>2. RowsOK /\ AloneKnows(q) /\ JobFits(q) /\ q.pc = "setStatus"
  BY <1>1 DEF Inv, JobsFit, AloneInv, SetStatus, At
<1>3. PICK o : o = q.order
  OBVIOUS
<1>4. /\ o \in Orders /\ status' = [status EXCEPT ![o] = q.target]
      /\ UNCHANGED <<ordered, received>>
  BY <1>1, <1>2, <1>3 DEF JobFits, SetStatus
<1>5. status[o] \in Status /\ \A p \in Orders \ {o} : Phase(p)' = Phase(p)
  BY <1>2, <1>4 DEF Phase, RowsOK
<1>6. CASE q.op = "receive"
  <2>1. status[o] \in Open /\ q.target \in OnReceipt
    BY <1>2, <1>3, <1>4, <1>6, DeriveBounds DEF AloneKnows
  <2>2. Phase(o)' = Phase(o)
    BY <1>2, <1>4, <2>1 DEF Phase, Open, OnReceipt, RowsOK
  <2> QED BY <1>4, <1>5, <2>2, BookStutters
<1>7. CASE q.op # "receive"
  <2>1. q.target \in Allowed[status[o]]
    BY <1>2, <1>3, <1>7 DEF AloneKnows
  <2>2. \A s \in Requests \ {r} : At(s, "idle")
    BY <1>1, <1>2, OthersRest DEF At
  <2>3. StatusFits(o)
    BY <1>1, <1>2, <1>4, <1>7, <2>2 DEF AloneInv, Unsettled, At
  <2>4. status'[o] = q.target
    BY <1>2, <1>4 DEF RowsOK
  <2>5. PICK p : p = Phase(o)'
    OBVIOUS
  <2>6. Book!Move(o, p)
    <3>1. PhaseMap' = [PhaseMap EXCEPT ![o] = p]
      BY <1>5, <2>5 DEF PhaseMap
    <3> QED BY <1>4, <3>1, BookMoves
  <2>7. PhaseMap[o] = Phase(o) /\ DOMAIN LeftMap[o] = WithQty(o)
    BY <1>4 DEF PhaseMap, LeftMap, LeftOf
  <2>8. CASE status[o] = "draft" /\ q.target = "issued"
    <3>1. PhaseMap[o] = "draft" /\ p = "open"
      BY <2>4, <2>5, <2>7, <2>8 DEF Phase, OnReceipt
    <3>2. Book!Issue(o)
      BY <2>6, <3>1 DEF Book!Issue, PhaseMap, Phase, OnReceipt
    <3> QED BY <1>4, <3>2
  <2>9. CASE status[o] \in {"draft", "issued", "partially_received"} /\ q.target = "cancelled"
    <3>1. PhaseMap[o] \in {"draft", "open"} /\ p = "cancelled"
      BY <2>4, <2>5, <2>7, <2>9 DEF Phase, OnReceipt
    <3>2. WithQty(o) = {} \/ ~AllIn(o)
      <4>1. CASE status[o] = "draft"
        <5>1. \A l \in Lines : received[o][l] = 0
          BY <1>4, <4>1 DEF AloneInv
        <5>2. WithQty(o) # {} => Derive(o) # "received"
          BY <1>2, <1>4, <5>1, DeriveBounds
        <5> QED BY <1>2, <1>4, <5>2, DeriveBounds
      <4>2. CASE status[o] # "draft"
        BY <1>2, <1>4, <2>3, <2>9, <4>2, DeriveBounds DEF StatusFits, OnReceipt
      <4> QED BY <4>1, <4>2
    <3>3. DOMAIN LeftMap[o] = {} \/ ~Book!Complete(o)
      BY <1>4, <2>7, <3>2, BookComplete
    <3>4. Book!Cancel(o)
      BY <2>6, <3>1, <3>3
      DEF Book!Cancel, PhaseMap, LeftMap, Phase, LeftOf, OnReceipt
    <3> QED BY <1>4, <3>4
  <2>10. CASE status[o] = "received" /\ q.target = "closed"
    <3>1. PhaseMap[o] = "open" /\ p = "closed"
      BY <2>4, <2>5, <2>7, <2>10 DEF Phase, OnReceipt
    <3>2. AllIn(o)
      BY <1>2, <1>4, <2>3, <2>10, DeriveBounds DEF StatusFits, OnReceipt, AllIn
    <3>3. Book!Complete(o)
      BY <1>4, <3>2, BookComplete
    <3>4. Book!Close(o)
      BY <2>6, <3>1, <3>3 DEF Book!Close, PhaseMap, Phase, OnReceipt
    <3> QED BY <1>4, <3>4
  <2> QED BY <1>5, <2>1, <2>8, <2>9, <2>10, AllowedMoves
<1> QED BY <1>6, <1>7

LEMMA BookStep ==
  Inv /\ BookInv /\ [Next]_vars => [Book!Next]_Book!vars
<1> SUFFICES ASSUME Inv, BookInv, [Next]_vars
             PROVE  Book!Next \/ UNCHANGED Book!vars
  OBVIOUS
<1>1. serial' = serial
  BY DEF Next, vars
<1>2. CASE ~serial
  <2>1. \A o \in Orders : Phase(o)' = Phase(o) /\ LeftOf(o)' = LeftOf(o)
    BY <1>1, <1>2 DEF Phase, LeftOf
  <2>2. PhaseMap' = PhaseMap /\ LeftMap' = LeftMap
    BY <2>1 DEF PhaseMap, LeftMap
  <2> QED BY <2>2, BookRests
<1>3. CASE serial
  <2> USE <1>1, <1>3
  <2>1. AloneInv
    BY DEF BookInv
  <2>2. ASSUME UNCHANGED <<status, ordered, received>> PROVE UNCHANGED Book!vars
    BY <2>2, BookStutters DEF Phase
  <2>3. ASSUME NEW r \in Requests, Start(r) PROVE Book!Next \/ UNCHANGED Book!vars
    <3>1. ASSUME NEW o \in Orders, NEW t \in LineTables, Create(r, o, t)
          PROVE  Book!Next
      BY <2>1, <3>1, BookPlace DEF Book!Next
    <3>2. ASSUME NEW o \in Orders, NEW s \in Status, StartTransition(r, o, s)
          PROVE  UNCHANGED Book!vars
      BY <2>2, <3>2 DEF StartTransition
    <3>3. ASSUME NEW o \in Orders, NEW body \in Receipts, StartReceive(r, o, body)
          PROVE  UNCHANGED Book!vars
      BY <2>2, <3>3 DEF StartReceive
    <3> QED BY <2>3, <3>1, <3>2, <3>3 DEF Start
  <2>4. ASSUME NEW r \in Requests, WriteLines(r) PROVE Book!Next
    <3>1. req[r].order \in Orders
      BY <2>4 DEF Inv, JobsFit, JobFits, WriteLines, At
    <3>2. PICK o \in Orders : o = req[r].order
      BY <3>1
    <3>3. Book!Deliver(o)
      BY <2>1, <2>4, <3>2, BookDeliver
    <3> QED BY <3>3 DEF Book!Next
  <2>5. ASSUME NEW r \in Requests, SetStatus(r) PROVE Book!Next \/ UNCHANGED Book!vars
    BY <2>1, <2>5, BookSetStatus DEF Book!Next
  <2>6. ASSUME NEW r \in Requests, Reread(r) \/ Audit(r) \/ Fail(r)
        PROVE  UNCHANGED Book!vars
    BY <2>2, <2>6 DEF Reread, Audit, Fail
  <2>7. CASE UNCHANGED vars
    BY <2>2, <2>7 DEF vars
  <2> QED BY <2>3, <2>4, <2>5, <2>6, <2>7 DEF Next, Step
<1> QED BY <1>2, <1>3

(* Served one after the other, transitions and receipts are an order book: *)
(* goods only come in, a cancelled order was not complete, a closed one    *)
(* was, provided a receipt that has begun to write sets the status too.    *)
THEOREM SerialKeepsTheBook ==
  ASSUME Finishes
  PROVE  Spec => BookSpec
<1>1. Spec => [](Inv /\ BookInv)
  <2>1. Finishes /\ (Inv /\ BookInv) /\ [Next]_vars => (Inv /\ BookInv)'
    BY NextInv, NextBook
  <2> QED BY <2>1, InitInv, InitBook, PTL DEF Spec
<1> QED BY <1>1, BookInit, BookStep, PTL DEF Spec, BookSpec, Book!Spec

-----------------------------------------------------------------------------
(* What receipts acknowledge.  A receipt that has written its lines will   *)
(* add its entries to the audit; until then it owes them.  What a line     *)
(* holds is covered by what is audited or owed: that never gets less, so a *)
(* quantity that was read at the start of a request is covered still when  *)
(* the request writes, and what it adds it owes.                           *)

On(es, l) == {e \in es : e.line = l}
Listed(es) == es \subseteq Entries /\ \A l \in Lines : IsFiniteSet(On(es, l))

Owed(q, o, l) ==
  IF q.pc \in {"reread", "setStatus", "audit"} /\ q.order = o
  THEN QtyOn(q.entries, l) ELSE 0
OwedBy(jobs, o, l) == [r \in Requests |-> Owed(jobs[r], o, l)]
Covered(sums, jobs, o, l) == sums[o][l] + Total(OwedBy(jobs, o, l), Requests)

NoteKnows(q) ==
  /\ Listed(q.entries)
  /\ q.pc \in {"writeLines", "reread"} => q.op = "receive"
  /\ q.pc = "setStatus" /\ q.op # "receive" => q.entries = {}
NoteInv ==
  /\ audited \in [Orders -> [Lines -> Nat]]
  /\ \A r \in Requests : NoteKnows(req[r])
  /\ \A o \in Orders, l \in Lines :
       received[o][l] <= Covered(audited, req, o, l)
  /\ \A r \in Requests : req[r].pc = "writeLines" =>
       \A l \in Lines :
         req[r].already[l] <= Covered(audited, req, req[r].order, l)

(* A receipt stops, if it does, before it writes.                          *)
StopsEarly == FailAt \subseteq {"writeLines"}

(* The quantity on a line is a sum.                                        *)
Qtys(S) == [e \in S |-> e.qty]
QtySum(g, S) ==
  g = [s \in SUBSET S |-> IF s = {} THEN 0 ELSE Pick(s).qty + g[s \ {Pick(s)}]]

LEMMA QtySums ==
  ASSUME NEW S, NEW g
  PROVE  QtySum(g, S) <=> IsSum(g, Qtys(S), S)
<1>1. \A s \in SUBSET S : s # {} => Qtys(S)[Pick(s)] = Pick(s).qty
  BY PickIn DEF Qtys
<1>2. [s \in SUBSET S |-> IF s = {} THEN 0 ELSE Pick(s).qty + g[s \ {Pick(s)}]]
        = [s \in SUBSET S |-> IF s = {} THEN 0
                              ELSE Qtys(S)[Pick(s)] + g[s \ {Pick(s)}]]
  BY <1>1
<1> QED BY <1>2 DEF QtySum, IsSum, AddsUp

LEMMA QtyIs ==
  ASSUME NEW es, NEW l, IsFiniteSet(On(es, l))
  PROVE  QtyOn(es, l) = Total(Qtys(On(es, l)), On(es, l))
<1> DEFINE S == On(es, l)
           f == Qtys(S)
           h == CHOOSE g : QtySum(g, S)
<1>1. QtyOn(es, l) = h[S]
  BY DEF QtyOn, On, QtySum, Pick, MapThenSumSet, MapThenFoldSet
<1> HIDE DEF S, f
<1>2. PICK g : IsSum(g, f, S) /\ Total(f, S) = g[S]
  BY TotalAddsUp DEF S
<1>3. QtySum(g, S)
  BY <1>2, QtySums DEF f
<1>4. QtySum(h, S)
  BY <1>3
<1> HIDE DEF h
<1>5. IsSum(h, f, S)
  BY <1>4, QtySums DEF f
<1>6. S \in SUBSET S /\ Agree(h, h, S) /\ Agree(f, f, S)
  BY DEF Agree
<1>7. h[S] = g[S]
  BY <1>2, <1>5, <1>6, SameSums DEF S
<1> QED BY <1>1, <1>2, <1>7 DEF S, f

LEMMA QtyType ==
  ASSUME NEW es, Listed(es), NEW l \in Lines
  PROVE  /\ QtyOn(es, l) \in Nat
         /\ \A e \in es : e.line = l => e.qty <= QtyOn(es, l)
         /\ es = {} => QtyOn(es, l) = 0
<1> DEFINE S == On(es, l)
           f == Qtys(S)
<1>1. IsFiniteSet(S) /\ \A e \in S : f[e] = e.qty /\ f[e] \in Nat
  BY DEF Listed, On, Entries, Qtys
<1>2. QtyOn(es, l) = Total(f, S)
  BY <1>1, QtyIs
<1>3. es = {} => S = {}
  BY DEF On
<1>4. \A e \in es : e.line = l => e \in S
  BY DEF On
<1> HIDE DEF S, f
<1>5. Total(f, S) \in Nat
  BY <1>1, TotalType
<1>6. \A e \in S : e.qty <= Total(f, S)
  BY <1>1, TotalAtLeast
<1>7. S = {} => Total(f, S) = 0
  BY TotalOfNone
<1> QED BY <1>2, <1>3, <1>4, <1>5, <1>6, <1>7

(* A body is a list, and what remains of an order is one entry to a line.  *)
LEMMA BodyListed ==
  ASSUME NEW body \in Receipts
  PROVE  Listed(body)
<1> DEFINE f == [e \in body |-> e.no]
<1>1. body \subseteq Entries
  BY ReceiptsAssumption
<1>2. f \in Injection(body, 1..MaxEntries)
  <2>1. f \in [body -> 1..MaxEntries]
    BY <1>1 DEF Entries
  <2>2. \A e, d \in body : f[e] = f[d] => e = d
    BY ReceiptsAssumption
  <2> QED BY <2>1, <2>2 DEF Injection, IsInjective
<1>3. IsFiniteSet(1..MaxEntries)
  BY MaxEntriesAssumption, FS_Interval
<1>4. IsFiniteSet(body)
  <2> HIDE DEF f
  <2> QED BY <1>2, <1>3, FS_Injection
<1>5. \A l : On(body, l) \subseteq body
  BY DEF On
<1> QED BY <1>1, <1>4, <1>5, FS_Subset DEF Listed

LEMMA AskedListed ==
  ASSUME RowsOK, NEW o \in Orders, NEW body \in Receipts
  PROVE  Listed(Asked(o, body))
<1>1. CASE body # {}
  BY <1>1, BodyListed DEF Asked
<1>2. CASE body = {}
  <2>1. Remaining(o) \subseteq Entries
    BY RemainingFits
  <2>2. ASSUME NEW l \in Lines PROVE IsFiniteSet(On(Remaining(o), l))
    <3> DEFINE e == [no |-> 1, line |-> l, qty |-> ordered[o][l] - received[o][l]]
    <3>1. On(Remaining(o), l) \subseteq {e}
      BY DEF On, Remaining
    <3> HIDE DEF e
    <3> QED BY <3>1, FS_Singleton, FS_Subset
  <2> QED BY <1>2, <2>1, <2>2 DEF Asked, Listed
<1> QED BY <1>1, <1>2

LEMMA NoEntries == Listed({})
<1>1. \A l : On({}, l) = {}
  BY DEF On
<1> QED BY <1>1, FS_EmptySet DEF Listed

LEMMA OwedType ==
  ASSUME NEW q, Listed(q.entries), NEW o, NEW l \in Lines
  PROVE  Owed(q, o, l) \in Nat
BY QtyType DEF Owed

(* What one request comes to owe is what all do.                           *)
LEMMA CoverMoves ==
  ASSUME NEW jobs, NEW r \in Requests, NEW next,
         \A s \in Requests : Listed(jobs[s].entries) /\ Listed(next[s].entries),
         \A s \in Requests \ {r} : next[s] = jobs[s],
         NEW o, NEW l \in Lines
  PROVE  /\ Total(OwedBy(jobs, o, l), Requests) \in Nat
         /\ Total(OwedBy(next, o, l), Requests)
              = Total(OwedBy(jobs, o, l), Requests)
                  - Owed(jobs[r], o, l) + Owed(next[r], o, l)
<1> DEFINE f == OwedBy(jobs, o, l)
           g == OwedBy(next, o, l)
<1>1. \A s \in Requests : f[s] \in Nat /\ g[s] \in Nat
  BY OwedType DEF OwedBy
<1>2. Agree(f, g, Requests \ {r})
  BY DEF Agree, OwedBy
<1>3. f[r] = Owed(jobs[r], o, l) /\ g[r] = Owed(next[r], o, l)
  BY DEF OwedBy
<1> HIDE DEF f, g
<1>4. Numbers(f, Requests) /\ Numbers(g, Requests)
  BY <1>1 DEF Numbers
<1>5. Total(g, Requests) = Total(f, Requests) - f[r] + g[r]
  BY <1>2, <1>4, RequestsAssumption, TotalChanged
<1>6. Total(f, Requests) \in Nat
  BY <1>1, RequestsAssumption, TotalType
<1> QED BY <1>3, <1>5, <1>6 DEF f, g

LEMMA NothingOwed ==
  ASSUME NEW jobs, NEW o, NEW l, \A r \in Requests : Owed(jobs[r], o, l) = 0
  PROVE  Total(OwedBy(jobs, o, l), Requests) = 0
<1> DEFINE f == OwedBy(jobs, o, l)
<1>1. \A r \in Requests : f[r] = 0
  BY DEF OwedBy
<1> HIDE DEF f
<1>2. Total(f, Requests) <= Total(f, {}) + Total(f, {})
  <2>1. \A x \in Requests \union {} \union {} : f[x] \in Nat
    BY <1>1
  <2>2. \A x \in Requests : x \in {} \union {} \/ f[x] = 0
    BY <1>1
  <2> QED BY <2>1, <2>2, RequestsAssumption, FS_EmptySet, TotalCovered
<1>3. Total(f, {}) = 0
  BY TotalOfNone
<1>4. Total(f, Requests) \in Nat
  BY <1>1, RequestsAssumption, TotalType
<1> QED BY <1>2, <1>3, <1>4 DEF f

LEMMA InitNote == Init => NoteInv
<1> SUFFICES ASSUME Init PROVE NoteInv
  OBVIOUS
<1>1. \A r \in Requests : req[r] = Idle
  BY DEF Init
<1>2. Idle.pc = "idle" /\ Idle.entries = {}
  BY DEF Idle
<1>3. ASSUME NEW o \in Orders, NEW l \in Lines
      PROVE  received[o][l] <= Covered(audited, req, o, l)
  <2>1. Total(OwedBy(req, o, l), Requests) = 0
    BY <1>1, <1>2, NothingOwed DEF Owed
  <2>2. received[o][l] = 0 /\ audited[o][l] = 0
    BY DEF Init
  <2> QED BY <2>1, <2>2 DEF Covered
<1>4. \A r \in Requests : NoteKnows(req[r]) /\ req[r].pc # "writeLines"
  BY <1>1, <1>2, NoEntries DEF NoteKnows
<1>5. audited \in [Orders -> [Lines -> Nat]]
  BY DEF Init
<1> QED BY <1>3, <1>4, <1>5 DEF NoteInv

(* What is left to show of a step of request r: that what is covered does  *)
(* not get less, and what r or a line comes to hold is covered.            *)
LEMMA NoteMoves ==
  ASSUME Inv, NoteInv, NEW r \in Requests, NEW job,
         req' = [req EXCEPT ![r] = job], NoteKnows(job),
         audited' \in [Orders -> [Lines -> Nat]],
         received' \in [Orders -> [Lines -> Nat]],
         \A o \in Orders, l \in Lines :
           /\ audited[o][l] + Owed(req[r], o, l) <= audited'[o][l] + Owed(job, o, l)
           /\ \/ received'[o][l] = received[o][l]
              \/ /\ audited'[o][l] = audited[o][l]
                 /\ received'[o][l] <= Covered(audited, req, o, l)
                                        + Owed(job, o, l) - Owed(req[r], o, l),
         job.pc = "writeLines" =>
           /\ job.order \in Orders
           /\ \A l \in Lines :
                /\ job.already[l] \in Nat
                /\ job.already[l] <= Covered(audited, req, job.order, l)
  PROVE  NoteInv'
<1> USE DEF Inv
<1>1. /\ req'[r] = job /\ \A s \in Requests \ {r} : req'[s] = req[s]
  BY DEF JobsFit
<1>2. \A s \in Requests : NoteKnows(req[s]) /\ NoteKnows(req'[s])
  BY <1>1 DEF NoteInv
<1>3. ASSUME NEW o \in Orders, NEW l \in Lines
      PROVE  /\ Covered(audited, req, o, l) \in Nat
             /\ Covered(audited', req', o, l) \in Nat
             /\ Covered(audited, req, o, l) <= Covered(audited', req', o, l)
             /\ received'[o][l] <= Covered(audited', req', o, l)
  <2>1. PICK a, b : a = Total(OwedBy(req, o, l), Requests)
                    /\ b = Total(OwedBy(req', o, l), Requests)
    OBVIOUS
  <2>2. PICK x, y : x = Owed(req[r], o, l) /\ y = Owed(job, o, l)
    OBVIOUS
  <2>3. a \in Nat /\ b = a - x + y
    <3>1. PICK jobs, next : jobs = req /\ next = req'
      OBVIOUS
    <3>2. /\ \A s \in Requests : Listed(jobs[s].entries) /\ Listed(next[s].entries)
          /\ \A s \in Requests \ {r} : next[s] = jobs[s]
      BY <1>1, <1>2, <3>1 DEF NoteKnows
    <3>3. /\ Total(OwedBy(jobs, o, l), Requests) \in Nat
          /\ Total(OwedBy(next, o, l), Requests)
               = Total(OwedBy(jobs, o, l), Requests)
                   - Owed(jobs[r], o, l) + Owed(next[r], o, l)
      BY <3>2, CoverMoves
    <3> QED BY <1>1, <2>1, <2>2, <3>1, <3>3
  <2>4. x \in Nat /\ y \in Nat
    BY <1>2, <2>2, OwedType DEF NoteKnows
  <2>5. /\ audited[o][l] \in Nat /\ audited'[o][l] \in Nat
        /\ received'[o][l] \in Nat
    BY DEF NoteInv
  <2>6. audited[o][l] + x <= audited'[o][l] + y
    BY <2>2
  <2>7. \/ received'[o][l] = received[o][l]
        \/ /\ audited'[o][l] = audited[o][l]
           /\ received'[o][l] <= (audited[o][l] + a) + y - x
    BY <2>1, <2>2 DEF Covered
  <2>8. received[o][l] <= audited[o][l] + a
    BY <2>1 DEF NoteInv, Covered
  <2>9. /\ Covered(audited, req, o, l) = audited[o][l] + a
        /\ Covered(audited', req', o, l) = audited'[o][l] + b
    BY <2>1 DEF Covered
  <2>10. b \in Nat
    <3>1. \A s \in Requests : OwedBy(req', o, l)[s] \in Nat
      BY <1>2, OwedType DEF NoteKnows, OwedBy
    <3> QED BY <2>1, <3>1, RequestsAssumption, TotalType
  <2>11. audited[o][l] + a <= audited'[o][l] + b
    BY <2>3, <2>4, <2>5, <2>6
  <2>12. received'[o][l] <= audited'[o][l] + b
    <3>1. CASE received'[o][l] = received[o][l]
      BY <2>3, <2>5, <2>8, <2>10, <2>11, <3>1
    <3>2. CASE /\ audited'[o][l] = audited[o][l]
               /\ received'[o][l] <= (audited[o][l] + a) + y - x
      BY <2>3, <2>4, <2>5, <3>2
    <3> QED BY <2>7, <3>1, <3>2
  <2> QED BY <2>3, <2>5, <2>9, <2>10, <2>11, <2>12
<1>4. ASSUME NEW s \in Requests, req'[s].pc = "writeLines", NEW l \in Lines
      PROVE  req'[s].already[l] <= Covered(audited', req', req'[s].order, l)
  <2>1. CASE s = r
    <3>1. PICK p : p = job.order
      OBVIOUS
    <3>2. /\ p \in Orders /\ job.already[l] \in Nat
          /\ job.already[l] <= Covered(audited, req, p, l)
      BY <1>1, <1>4, <2>1, <3>1
    <3>3. PICK c, d : c = Covered(audited, req, p, l)
                      /\ d = Covered(audited', req', p, l)
      OBVIOUS
    <3>4. c \in Nat /\ d \in Nat /\ c <= d
      BY <1>3, <3>2, <3>3, Zenon
    <3>5. job.already[l] <= d
      BY <3>1, <3>2, <3>3, <3>4
    <3> QED BY <1>1, <2>1, <3>1, <3>3, <3>5
  <2>2. CASE s # r
    <3>1. /\ req'[s] = req[s] /\ req[s].order \in Orders
          /\ req[s].already[l] \in Nat
          /\ req[s].already[l] <= Covered(audited, req, req[s].order, l)
      BY <1>1, <1>4, <2>2 DEF NoteInv, JobsFit, JobFits
    <3>2. PICK p : p = req[s].order
      OBVIOUS
    <3>3. PICK c, d : c = Covered(audited, req, p, l)
                      /\ d = Covered(audited', req', p, l)
      OBVIOUS
    <3>4. c \in Nat /\ d \in Nat /\ c <= d
      BY <1>3, <3>1, <3>2, <3>3, Zenon
    <3>5. req[s].already[l] <= d
      BY <3>1, <3>2, <3>3, <3>4
    <3> QED BY <3>1, <3>2, <3>3, <3>5
  <2> QED BY <2>1, <2>2
<1> QED BY <1>2, <1>3, <1>4 DEF NoteInv

LEMMA NextNote ==
  ASSUME StopsEarly, Inv, Inv', NoteInv, [Next]_vars
  PROVE  NoteInv'
<1> USE DEF Inv
<1>1. CASE UNCHANGED <<received, audited, req>>
  BY <1>1 DEF NoteInv
<1>2. /\ received \in [Orders -> [Lines -> Nat]]
      /\ received' \in [Orders -> [Lines -> Nat]]
      /\ audited \in [Orders -> [Lines -> Nat]]
  BY DEF RowsOK, NoteInv
<1>3. \A s \in Requests : NoteKnows(req[s]) /\ DOMAIN req[s] = Fields
  BY DEF NoteInv, JobsFit
<1>4. ASSUME NEW r \in Requests, NEW job, req' = [req EXCEPT ![r] = job],
             UNCHANGED <<received, audited>>, NoteKnows(job),
             \A o \in Orders, l \in Lines : Owed(job, o, l) = Owed(req[r], o, l),
             job.pc # "writeLines"
      PROVE  NoteInv'
  <2>1. \A o \in Orders, l \in Lines :
          audited[o][l] + Owed(req[r], o, l) <= audited'[o][l] + Owed(job, o, l)
    <3> TAKE o \in Orders, l \in Lines
    <3>1. Owed(req[r], o, l) \in Nat /\ audited[o][l] \in Nat
      BY <1>2, <1>3, OwedType DEF NoteKnows
    <3> QED BY <1>4, <3>1
  <2> QED BY <1>2, <1>4, <2>1, NoteMoves
<1>5. NoteKnows(Idle) /\ \A o, l : Owed(Idle, o, l) = 0 /\ Idle.pc = "idle"
  BY NoEntries DEF NoteKnows, Idle, Owed
<1>6. ASSUME NEW r \in Requests, NEW o \in Orders, NEW s \in Status,
             StartTransition(r, o, s)
      PROVE  NoteInv'
  <2>1. PICK job : job = [Idle EXCEPT !.pc = "setStatus", !.op = "transition",
                                      !.order = o, !.target = s]
    OBVIOUS
  <2>2. job.pc = "setStatus" /\ job.entries = {}
    BY <2>1 DEF Idle
  <2>3. req' = [req EXCEPT ![r] = job] /\ UNCHANGED <<received, audited>>
    BY <1>6, <2>1 DEF StartTransition
  <2>4. NoteKnows(job)
    BY <2>2, NoEntries DEF NoteKnows
  <2>5. req[r].pc = "idle"
    BY <1>6 DEF StartTransition, At
  <2>6. \A p \in Orders, l \in Lines : Owed(job, p, l) = Owed(req[r], p, l)
    BY <2>2, <2>5, NoEntries, QtyType DEF Owed
  <2> QED BY <1>4, <2>2, <2>3, <2>4, <2>6
<1>7. ASSUME NEW r \in Requests, NEW o \in Orders, NEW body \in Receipts,
             StartReceive(r, o, body)
      PROVE  NoteInv'
  <2>1. PICK already : already = received[o]
    OBVIOUS
  <2>2. UNCHANGED <<received, audited>> /\ req[r].pc = "idle"
    BY <1>7 DEF StartReceive, At
  <2>3. \A p \in Orders, l \in Lines : Owed(req[r], p, l) = 0
    BY <2>2 DEF Owed
  <2>4. CASE LinesOf(o) = {}
    <3>1. PICK job : job = [Idle EXCEPT !.op = "receive", !.order = o,
                             !.already = already, !.pc = "setStatus",
                             !.target = "received"]
      OBVIOUS
    <3>2. job.pc = "setStatus" /\ job.entries = {}
      BY <3>1 DEF Idle
    <3>3. req' = [req EXCEPT ![r] = job]
      BY <1>7, <2>1, <2>4, <3>1 DEF StartReceive
    <3>4. NoteKnows(job)
      BY <3>2, NoEntries DEF NoteKnows
    <3>5. \A p \in Orders, l \in Lines : Owed(job, p, l) = 0
      BY <3>2, NoEntries, QtyType DEF Owed
    <3>6. \A p \in Orders, l \in Lines : Owed(job, p, l) = Owed(req[r], p, l)
      BY <2>3, <3>5
    <3>7. job.pc # "writeLines" /\ UNCHANGED <<received, audited>>
      BY <2>2, <3>2
    <3> QED BY <1>4, <3>3, <3>4, <3>6, <3>7
  <2>5. CASE LinesOf(o) # {}
    <3>1. PICK es : es = Asked(o, body)
      OBVIOUS
    <3>2. PICK job : job = [Idle EXCEPT !.op = "receive", !.order = o,
                             !.already = already, !.pc = "writeLines",
                             !.entries = es]
      OBVIOUS
    <3>3. /\ job.pc = "writeLines" /\ job.entries = es /\ job.order = o
          /\ job.already = already /\ job.op = "receive"
      BY <3>2 DEF Idle
    <3>4. req' = [req EXCEPT ![r] = job]
      BY <1>7, <2>1, <2>5, <3>1, <3>2 DEF StartReceive
    <3>5. NoteKnows(job)
      BY <3>1, <3>3, AskedListed DEF NoteKnows
    <3>6. \A p \in Orders, l \in Lines :
            /\ Owed(job, p, l) = 0
            /\ audited[p][l] + Owed(req[r], p, l)
                 <= audited'[p][l] + Owed(job, p, l)
      BY <1>2, <2>2, <2>3, <3>3 DEF Owed
    <3>7. \A l \in Lines : /\ job.already[l] \in Nat
                           /\ job.already[l] <= Covered(audited, req, o, l)
      BY <1>2, <2>1, <3>3 DEF NoteInv
    <3> QED BY <1>2, <2>2, <3>3, <3>4, <3>5, <3>6, <3>7, NoteMoves
  <2> QED BY <2>4, <2>5
<1>8. ASSUME NEW r \in Requests, WriteLines(r) PROVE NoteInv'
  <2>1. PICK q : q = req[r]
    OBVIOUS
  <2>2. /\ q.pc = "writeLines" /\ NoteKnows(q) /\ DOMAIN q = Fields
        /\ q.order \in Orders /\ q.already \in [Lines -> Nat]
        /\ audited' = audited
    BY <1>3, <1>8, <2>1 DEF WriteLines, At, JobsFit, JobFits
  <2>3. PICK job : job = [q EXCEPT !.pc = "reread"]
    OBVIOUS
  <2>4. /\ job.pc = "reread" /\ job.order = q.order /\ job.entries = q.entries
        /\ job.op = q.op
    BY <2>2, <2>3 DEF Fields, Idle
  <2>5. req' = [req EXCEPT ![r] = job]
    BY <1>8, <2>1, <2>3 DEF WriteLines, Goto, JobsFit
  <2>6. NoteKnows(job) /\ Listed(q.entries)
    BY <2>2, <2>4 DEF NoteKnows
  <2>7. ASSUME NEW o \in Orders, NEW l \in Lines
        PROVE  /\ audited[o][l] + Owed(req[r], o, l)
                    <= audited'[o][l] + Owed(job, o, l)
               /\ \/ received'[o][l] = received[o][l]
                  \/ /\ audited'[o][l] = audited[o][l]
                     /\ received'[o][l]
                          <= Covered(audited, req, o, l) + Owed(job, o, l)
                               - Owed(req[r], o, l)
    <3>1. Owed(req[r], o, l) = 0 /\ Owed(job, o, l) \in Nat /\ audited[o][l] \in Nat
      BY <1>2, <2>1, <2>2, <2>4, <2>6, OwedType DEF Owed
    <3>2. CASE o # q.order
      BY <1>8, <2>1, <2>2, <3>1, <3>2 DEF WriteLines, RowsOK
    <3>3. CASE o = q.order /\ ~\E e \in q.entries : e.line = l
      BY <1>8, <2>1, <2>2, <3>1, <3>3 DEF WriteLines, RowsOK
    <3>4. CASE o = q.order /\ \E e \in q.entries : e.line = l
      <4>1. received'[o][l] = q.already[l] + LastOn(q.entries, l).qty
        BY <1>8, <2>1, <2>2, <3>4 DEF WriteLines, RowsOK
      <4>2. LastOn(q.entries, l) \in q.entries /\ LastOn(q.entries, l).line = l
        BY <2>6, <3>4, LastExists DEF Listed
      <4>3. /\ LastOn(q.entries, l).qty <= QtyOn(q.entries, l)
            /\ LastOn(q.entries, l).qty \in Nat /\ QtyOn(q.entries, l) \in Nat
        BY <2>6, <4>2, QtyType DEF Listed, Entries
      <4>4. Owed(job, o, l) = QtyOn(q.entries, l)
        BY <2>4, <3>4 DEF Owed
      <4>5. q.already[l] \in Nat /\ q.already[l] <= Covered(audited, req, o, l)
        BY <2>1, <2>2, <3>4 DEF NoteInv
      <4>6. Covered(audited, req, o, l) \in Nat
        <5>1. \A s \in Requests : OwedBy(req, o, l)[s] \in Nat
          BY <1>3, OwedType DEF NoteKnows, OwedBy
        <5> QED BY <3>1, <5>1, RequestsAssumption, TotalType DEF Covered
      <4>7. received'[o][l] <= Covered(audited, req, o, l) + QtyOn(q.entries, l) - 0
        BY <4>1, <4>3, <4>5, <4>6
      <4> QED BY <2>2, <3>1, <4>4, <4>7
    <3> QED BY <3>2, <3>3, <3>4
  <2> QED BY <1>2, <2>2, <2>4, <2>5, <2>6, <2>7, NoteMoves
<1>9. ASSUME NEW r \in Requests, Reread(r) PROVE NoteInv'
  <2>1. PICK q : q = req[r]
    OBVIOUS
  <2>2. /\ q.pc = "reread" /\ NoteKnows(q) /\ DOMAIN q = Fields
        /\ UNCHANGED <<received, audited>>
    BY <1>3, <1>9, <2>1 DEF Reread, At
  <2>3. PICK job : /\ req' = [req EXCEPT ![r] = job]
                   /\ job.pc \in {"setStatus", "audit"} /\ job.order = q.order
                   /\ job.entries = q.entries /\ job.op = q.op
    <3>1. PICK t, a, b : /\ t = Derive(q.order)
                         /\ a = [q EXCEPT !.target = t, !.pc = "setStatus"]
                         /\ b = [q EXCEPT !.pc = "audit"]
      OBVIOUS
    <3>2. /\ a.pc = "setStatus" /\ a.order = q.order /\ a.entries = q.entries
          /\ a.op = q.op
          /\ b.pc = "audit" /\ b.order = q.order /\ b.entries = q.entries
          /\ b.op = q.op
      BY <2>2, <3>1 DEF Fields, Idle
    <3>3. req' = [req EXCEPT ![r] = a] \/ req' = [req EXCEPT ![r] = b]
      BY <1>9, <2>1, <3>1 DEF Reread, Goto, JobsFit
    <3> QED BY <3>2, <3>3
  <2>4. q.op = "receive"
    BY <2>2 DEF NoteKnows
  <2>5. NoteKnows(job)
    BY <2>2, <2>3, <2>4 DEF NoteKnows
  <2>6. \A o \in Orders, l \in Lines : Owed(job, o, l) = Owed(req[r], o, l)
    BY <2>1, <2>2, <2>3 DEF Owed
  <2> QED BY <1>4, <2>2, <2>3, <2>5, <2>6
<1>10. ASSUME NEW r \in Requests, SetStatus(r) PROVE NoteInv'
  <2>1. PICK q : q = req[r]
    OBVIOUS
  <2>2. /\ q.pc = "setStatus" /\ NoteKnows(q) /\ DOMAIN q = Fields
        /\ UNCHANGED <<received, audited>>
    BY <1>3, <1>10, <2>1 DEF SetStatus, At
  <2>3. CASE q.op = "receive"
    <3>1. PICK job : job = [q EXCEPT !.pc = "audit"]
      OBVIOUS
    <3>2. /\ job.pc = "audit" /\ job.order = q.order /\ job.entries = q.entries
      BY <2>2, <3>1 DEF Fields, Idle
    <3>3. req' = [req EXCEPT ![r] = job]
      BY <1>10, <2>1, <2>3, <3>1 DEF SetStatus, Goto, JobsFit
    <3>4. NoteKnows(job)
      BY <2>2, <3>2 DEF NoteKnows
    <3>5. \A o \in Orders, l \in Lines : Owed(job, o, l) = Owed(req[r], o, l)
      BY <2>1, <2>2, <3>2 DEF Owed
    <3> QED BY <1>4, <2>2, <3>2, <3>3, <3>4, <3>5
  <2>4. CASE q.op # "receive"
    <3>1. req' = [req EXCEPT ![r] = Idle]
      BY <1>10, <2>1, <2>4 DEF SetStatus, Finish
    <3>2. q.entries = {}
      BY <2>2, <2>4 DEF NoteKnows
    <3>3. \A o \in Orders, l \in Lines : Owed(Idle, o, l) = Owed(req[r], o, l)
      BY <1>5, <2>1, <2>2, <3>2, NoEntries, QtyType DEF Owed
    <3> QED BY <1>4, <1>5, <2>2, <3>1, <3>3
  <2> QED BY <2>3, <2>4
<1>11. ASSUME NEW r \in Requests, Audit(r) PROVE NoteInv'
  <2>1. PICK q : q = req[r]
    OBVIOUS
  <2>2. /\ q.pc = "audit" /\ Listed(q.entries) /\ received' = received
        /\ q.order \in Orders
        /\ req' = [req EXCEPT ![r] = Idle]
    BY <1>3, <1>11, <2>1
    DEF Audit, At, Finish, NoteKnows, JobsFit, JobFits
  <2>3. \A o \in Orders, l \in Lines :
          /\ o = q.order => audited'[o][l] = audited[o][l] + QtyOn(q.entries, l)
          /\ o # q.order => audited'[o][l] = audited[o][l]
    BY <1>2, <1>11, <2>1 DEF Audit
  <2>4. audited' \in [Orders -> [Lines -> Nat]]
    <3>1. [l \in Lines |-> audited[q.order][l] + QtyOn(q.entries, l)]
            \in [Lines -> Nat]
      BY <1>2, <2>2, QtyType
    <3> QED BY <1>2, <1>11, <2>1, <3>1 DEF Audit
  <2>5. \A o \in Orders, l \in Lines :
          audited[o][l] + Owed(req[r], o, l) <= audited'[o][l] + Owed(Idle, o, l)
    <3> TAKE o \in Orders, l \in Lines
    <3>1. audited[o][l] \in Nat /\ QtyOn(q.entries, l) \in Nat
      BY <1>2, <2>2, QtyType
    <3>2. /\ o = q.order => Owed(req[r], o, l) = QtyOn(q.entries, l)
          /\ o # q.order => Owed(req[r], o, l) = 0
      BY <2>1, <2>2 DEF Owed
    <3> QED BY <1>5, <2>3, <3>1, <3>2
  <2> QED BY <1>2, <1>5, <2>2, <2>4, <2>5, NoteMoves
<1>12. ASSUME NEW r \in Requests, Fail(r) PROVE NoteInv'
  <2>1. /\ req[r].pc = "writeLines" /\ UNCHANGED <<received, audited>>
        /\ req' = [req EXCEPT ![r] = Idle]
    BY <1>12 DEF Fail, Finish, StopsEarly
  <2>2. \A o \in Orders, l \in Lines : Owed(Idle, o, l) = Owed(req[r], o, l)
    BY <1>5, <2>1 DEF Owed
  <2> QED BY <1>4, <1>5, <2>1, <2>2
<1> QED
  BY <1>1, <1>6, <1>7, <1>8, <1>9, <1>10, <1>11, <1>12
  DEF Next, Start, Step, Create, vars

(* Receipts that stop, if they do, before they write: at rest every        *)
(* quantity a line holds is in the audit, however receipts overlapped, and *)
(* the status of an order is that of its quantities if they did not.       *)
THEOREM ReceiptsEndInAgreement ==
  ASSUME StopsEarly
  PROVE  Spec => []ReceiptsAgree
<1> DEFINE AllInv == Inv /\ BookInv /\ NoteInv
<1>1. Init => AllInv
  BY InitInv, InitBook, InitNote
<1>2. AllInv /\ [Next]_vars => AllInv'
  <2>1. Finishes
    BY DEF Finishes, StopsEarly
  <2> QED BY <2>1, NextInv, NextBook, NextNote
<1>3. AllInv => ReceiptsAgree
  <2> SUFFICES ASSUME AllInv, Quiet PROVE ReceiptsAgree
    BY DEF ReceiptsAgree, NothingUnaudited, StatusFollowsLines
  <2>1. NothingUnaudited
    <3> SUFFICES ASSUME NEW o \in Orders, NEW l \in Lines
                 PROVE  received[o][l] <= audited[o][l]
      BY DEF NothingUnaudited
    <3>1. \A r \in Requests : Owed(req[r], o, l) = 0
      BY DEF Quiet, At, Owed
    <3>2. Total(OwedBy(req, o, l), Requests) = 0
      BY <3>1, NothingOwed
    <3>3. received[o][l] <= audited[o][l] + 0 /\ audited[o][l] \in Nat
      BY <3>2 DEF NoteInv, Covered
    <3> QED BY <3>3
  <2>2. StatusFollowsLines
    BY AllRest DEF BookInv, StatusFollowsLines, StatusFits, OnReceipt
  <2> QED BY <2>1, <2>2 DEF ReceiptsAgree
<1> QED BY <1>1, <1>2, <1>3, PTL DEF Spec

-----------------------------------------------------------------------------
(* Accruals.  What a call has read is true of its row for good as far as   *)
(* the chain of approvals goes, because approvals are only ever added; and *)
(* it is true to the letter while no other call runs.                      *)

AccrualStatus == {"absent", "draft", "in_approval", "approved", "posted"}
Amounts == 0..MaxDue
Row == [po : Purchases \union {Nothing}, status : AccrualStatus, stage : Nat,
        amount : Amounts]
Todo == UNION {[S -> Amounts] : S \in SUBSET Purchases}
Call == [op : {"none", "generate", "send", "advance", "post"}, todo : Todo,
         po : Purchases \union {Nothing}, row : Rows \union {Nothing}, stage : Nat]

AccrualsTyped ==
  /\ due \in [Purchases -> Amounts]
  /\ accrual \in [Rows -> Row]
  /\ call \in [Calls -> Call]
  /\ advanced \in [Rows -> Nat]
  /\ posted \in [Rows -> Nat]
  /\ orderly \in BOOLEAN

(* The row that a call is to write, and the stage it found it at.          *)
CallKnows(k) ==
  /\ k.op \in {"send", "advance", "post"} => k.row \in Rows /\ ~Has(k.row, "absent")
  /\ k.op = "generate" /\ k.po # Nothing =>
       /\ k.po \in DOMAIN k.todo
       /\ k.row # Nothing => accrual[k.row].po = k.po /\ ~Has(k.row, "absent")
  /\ k.op = "advance" => k.stage \in 1..Stages /\ k.stage <= advanced[k.row] + 1
  /\ k.op = "post" => advanced[k.row] >= Stages

RowKnows(a) ==
  /\ Has(a, "in_approval") =>
       accrual[a].stage \in 1..Stages /\ accrual[a].stage <= advanced[a] + 1
  /\ Has(a, "approved") \/ Has(a, "posted") \/ posted[a] > 0
       => advanced[a] >= Stages

ChainInv ==
  /\ AccrualsTyped
  /\ \A c \in Calls : CallKnows(call[c])
  /\ \A a \in Rows : RowKnows(a)

LEMMA InitChain == AccrualsInit => ChainInv
<1> SUFFICES ASSUME AccrualsInit PROVE ChainInv
  OBVIOUS
<1>1. NoRow \in Row
  BY StagesAssumption DEF NoRow, Row, AccrualStatus, Amounts
<1>2. NoCall \in Call
  <2>1. [p \in {} |-> 0] \in [{} -> Amounts]
    OBVIOUS
  <2>2. [p \in {} |-> 0] \in Todo
    BY <2>1 DEF Todo
  <2> QED BY <2>2 DEF NoCall, Call
<1>3. AccrualsTyped
  BY <1>1, <1>2, StagesAssumption DEF AccrualsInit, AccrualsTyped, Amounts
<1> QED
  BY <1>3 DEF AccrualsInit, ChainInv, CallKnows, RowKnows, Has, NoRow, NoCall

(* Rows stay, and approvals are only added: what a call knows stays true.  *)
LEMMA CallsKeepKnowing ==
  ASSUME AccrualsTyped, AccrualsTyped',
         \A a \in Rows : ~Has(a, "absent") =>
           ~Has(a, "absent")' /\ accrual'[a].po = accrual[a].po,
         \A a \in Rows : advanced'[a] >= advanced[a],
         NEW k \in Call, CallKnows(k)
  PROVE  CallKnows(k)'
<1>1. k.row # Nothing => k.row \in Rows
  BY DEF Call
<1>2. \A a \in Rows : advanced[a] \in Nat /\ advanced'[a] \in Nat
  BY DEF AccrualsTyped
<1>3. k.stage \in Nat
  BY DEF Call
<1> QED BY <1>1, <1>2, <1>3, StagesAssumption, NothingAssumption DEF CallKnows

(* A step of call c that leaves the rows alone.                            *)
LEMMA ReadChain ==
  ASSUME ChainInv, NEW c \in Calls, NEW k \in Call, CallKnows(k),
         call' = [call EXCEPT ![c] = k],
         UNCHANGED <<due, accrual, advanced, posted, orderly>>
  PROVE  ChainInv'
<1>1. AccrualsTyped'
  BY DEF ChainInv, AccrualsTyped
<1>2. CallKnows(k)'
  BY DEF CallKnows, Has
<1>3. \A d \in Calls : call'[d] = IF d = c THEN k ELSE call[d]
  BY DEF ChainInv, AccrualsTyped
<1>4. \A d \in Calls : CallKnows(call[d])'
  BY <1>2, <1>3 DEF ChainInv, CallKnows, Has
<1>5. \A a \in Rows : RowKnows(a)'
  BY DEF ChainInv, RowKnows, Has
<1> QED BY <1>1, <1>4, <1>5 DEF ChainInv

LEMMA NoCallKnows == NoCall \in Call /\ CallKnows(NoCall)
<1>1. [p \in {} |-> 0] \in [{} -> Amounts]
  OBVIOUS
<1>2. [p \in {} |-> 0] \in Todo
  BY <1>1 DEF Todo
<1> QED BY <1>2 DEF NoCall, Call, CallKnows

(* A step that writes row a and leaves the call with what is left to do.   *)
LEMMA WriteChain ==
  ASSUME ChainInv, NEW c \in Calls, NEW a \in Rows, NEW w \in Row,
         NEW k \in Call, k = NoCall \/ (k.op = "generate" /\ k.po = Nothing),
         call' = [call EXCEPT ![c] = k],
         accrual' = [accrual EXCEPT ![a] = w],
         w.status # "absent", ~Has(a, "absent") => w.po = accrual[a].po,
         AccrualsTyped', UNCHANGED orderly,
         \A b \in Rows \ {a} : UNCHANGED <<advanced[b], posted[b]>>,
         advanced'[a] >= advanced[a],
         RowKnows(a)'
  PROVE  ChainInv'
<1>1. /\ \A b \in Rows : accrual'[b] = IF b = a THEN w ELSE accrual[b]
      /\ \A d \in Calls : call'[d] = IF d = c THEN k ELSE call[d]
  BY DEF ChainInv, AccrualsTyped
<1>2. \A b \in Rows : ~Has(b, "absent") =>
        ~Has(b, "absent")' /\ accrual'[b].po = accrual[b].po
  BY <1>1 DEF Has
<1>3. \A b \in Rows : advanced'[b] >= advanced[b]
  BY DEF ChainInv, AccrualsTyped
<1>4. \A j \in Call : CallKnows(j) => CallKnows(j)'
  BY <1>2, <1>3, CallsKeepKnowing DEF ChainInv
<1>5. CallKnows(k)'
  BY DEF CallKnows, NoCall
<1>6. \A d \in Calls : CallKnows(call[d])'
  BY <1>1, <1>4, <1>5 DEF ChainInv, AccrualsTyped
<1>7. \A b \in Rows : RowKnows(b)'
  BY <1>1 DEF ChainInv, RowKnows, Has
<1> QED BY <1>6, <1>7 DEF ChainInv

(* What a call knows when it begins.                                       *)
LEMMA NoCallFields ==
  \E none : NoCall = [op |-> "none", todo |-> none, po |-> Nothing,
                      row |-> Nothing, stage |-> 0]
BY DEF NoCall

Becomes(c, k) == call' = [call EXCEPT ![c] = k]
Starts(c, op, todo) == call' = [call EXCEPT ![c].op = op, ![c].todo = todo]
Takes(c, op, row, stage) ==
  call' = [call EXCEPT ![c].op = op, ![c].row = row, ![c].stage = stage]

LEMMA BegunGenerate ==
  ASSUME AccrualsTyped, NEW c \in Calls, call[c] = NoCall, NEW op, NEW todo,
         Starts(c, op, todo)
  PROVE  Becomes(c, [op |-> op, todo |-> todo, po |-> Nothing, row |-> Nothing,
                     stage |-> 0])
<1>1. PICK none : NoCall = [op |-> "none", todo |-> none, po |-> Nothing,
                            row |-> Nothing, stage |-> 0]
  BY NoCallFields
<1> DEFINE y == [NoCall EXCEPT !.op = op]
           z == [y EXCEPT !.todo = todo]
<1>2. call' = [call EXCEPT ![c] = z]
  BY DEF AccrualsTyped, Starts
<1>3. y = [op |-> op, todo |-> none, po |-> Nothing, row |-> Nothing, stage |-> 0]
  BY <1>1
<1> HIDE DEF y
<1>4. z = [op |-> op, todo |-> todo, po |-> Nothing, row |-> Nothing, stage |-> 0]
  BY <1>3
<1> HIDE DEF z
<1> QED BY <1>2, <1>4 DEF Becomes

LEMMA BegunOnRow ==
  ASSUME AccrualsTyped, NEW c \in Calls, call[c] = NoCall,
         NEW op, NEW row, NEW stage, Takes(c, op, row, stage)
  PROVE  Becomes(c, [op |-> op, todo |-> NoCall.todo, po |-> Nothing,
                     row |-> row, stage |-> stage])
<1>1. PICK none : NoCall = [op |-> "none", todo |-> none, po |-> Nothing,
                            row |-> Nothing, stage |-> 0]
  BY NoCallFields
<1> DEFINE x == [NoCall EXCEPT !.op = op]
           y == [x EXCEPT !.row = row]
           z == [y EXCEPT !.stage = stage]
<1>2. call' = [call EXCEPT ![c] = z]
  BY DEF AccrualsTyped, Takes
<1>3. x = [op |-> op, todo |-> none, po |-> Nothing, row |-> Nothing, stage |-> 0]
  BY <1>1
<1> HIDE DEF x
<1>4. y = [op |-> op, todo |-> none, po |-> Nothing, row |-> row, stage |-> 0]
  BY <1>3
<1> HIDE DEF y
<1>5. z = [op |-> op, todo |-> none, po |-> Nothing, row |-> row, stage |-> stage]
  BY <1>4
<1>6. NoCall.todo = none
  BY <1>1
<1> HIDE DEF z
<1> QED BY <1>2, <1>5, <1>6 DEF Becomes

LEMMA OrderMovesChain ==
  ASSUME ChainInv, NEW p \in Purchases, OrderMoves(p)
  PROVE  ChainInv'
BY DEF OrderMoves, ChainInv, AccrualsTyped, Amounts, CallKnows, RowKnows, Has

(* A generation starts, or finds a draft of an order, or that it has none. *)
Found(k) ==
  /\ k.op = "generate"
  /\ \/ k.po = Nothing /\ k.row = Nothing
     \/ /\ k.po # Nothing /\ k.po \in DOMAIN k.todo
        /\ \/ k.row = Nothing /\ DraftsOf(k.po) = {}
           \/ k.row \in Rows /\ accrual[k.row].po = k.po /\ Has(k.row, "draft")

LEMMA Generates ==
  ASSUME AccrualsTyped, NEW c \in Calls, StartGenerate(c) \/ FindDraft(c)
  PROVE  \E k \in Call : Becomes(c, k) /\ Found(k)
<1>0. call[c] \in Call
  BY DEF AccrualsTyped
<1>1. CASE StartGenerate(c)
  <2> DEFINE S == {q \in Purchases : due[q] > 0}
             todo == [p \in S |-> due[p]]
             k == [op |-> "generate", todo |-> todo, po |-> Nothing,
                   row |-> Nothing, stage |-> 0]
  <2>1. todo \in [S -> Amounts] /\ S \in SUBSET Purchases
    BY <1>0 DEF AccrualsTyped
  <2>2. todo \in Todo
    BY <2>1 DEF Todo
  <2>3. Starts(c, "generate", todo)
    BY <1>1 DEF StartGenerate, Starts
  <2> HIDE DEF todo
  <2>4. k \in Call /\ k.op = "generate" /\ k.po = Nothing /\ k.row = Nothing
    BY <2>2 DEF Call
  <2>5. Becomes(c, k)
    BY <1>0, <1>1, <2>3, BegunGenerate DEF StartGenerate, Free
  <2> HIDE DEF k
  <2> QED BY <2>4, <2>5 DEF Found
<1>2. CASE FindDraft(c)
  <2>1. PICK p \in DOMAIN call[c].todo :
          \E a \in IF DraftsOf(p) = {} THEN {Nothing} ELSE DraftsOf(p) :
            call' = [call EXCEPT ![c].po = p, ![c].row = a]
    BY <1>2 DEF FindDraft, DraftsOf
  <2>2. PICK a \in Rows \union {Nothing} :
          /\ call' = [call EXCEPT ![c].po = p, ![c].row = a]
          /\ \/ a = Nothing /\ DraftsOf(p) = {}
             \/ a \in Rows /\ accrual[a].po = p /\ Has(a, "draft")
    BY <2>1 DEF DraftsOf
  <2> DEFINE k == [call[c] EXCEPT !.po = p, !.row = a]
  <2>3. p \in Purchases /\ p # Nothing
    BY <1>0, NothingAssumption DEF Call, Todo
  <2>4. /\ k \in Call /\ k.op = "generate" /\ k.po = p /\ k.row = a
        /\ k.todo = call[c].todo
    BY <1>0, <1>2, <2>2, <2>3 DEF Call, FindDraft
  <2>5. Becomes(c, k)
    BY <1>0, <2>2 DEF AccrualsTyped, Becomes
  <2> HIDE DEF k
  <2>6. Found(k)
    BY <2>2, <2>3, <2>4 DEF Found
  <2> QED BY <2>4, <2>5, <2>6
<1> QED BY <1>1, <1>2

LEMMA GenerateReads ==
  ASSUME ChainInv, NEW c \in Calls, StartGenerate(c) \/ FindDraft(c)
  PROVE  ChainInv'
<1>1. PICK k \in Call : Becomes(c, k) /\ Found(k)
  BY Generates DEF ChainInv
<1>2. CallKnows(k)
  BY <1>1 DEF Found, CallKnows, Has
<1> QED BY <1>1, <1>2, ReadChain DEF Becomes, StartGenerate, FindDraft

(* A call takes a row in the status it asks for.                           *)
Asks == [send |-> "draft", advance |-> "in_approval", post |-> "approved"]

LEMMA Takings ==
  ASSUME AccrualsTyped, NEW c \in Calls, NEW a \in Rows,
         StartSend(c, a) \/ StartAdvance(c, a) \/ StartPost(c, a)
  PROVE  \E k \in Call :
           /\ Becomes(c, k) /\ call[c] = NoCall
           /\ orderly => \A d \in Calls : call[d] = NoCall
           /\ k.op \in DOMAIN Asks /\ Has(a, Asks[k.op])
           /\ k.row = a /\ k.po = Nothing /\ k.stage = accrual[a].stage
<1>1. PICK op \in DOMAIN Asks : Begin(c, op, a, Asks[op])
  BY DEF StartSend, StartAdvance, StartPost, Asks
<1> DEFINE k == [op |-> op, todo |-> NoCall.todo, po |-> Nothing, row |-> a,
                 stage |-> accrual[a].stage]
<1>2. accrual[a] \in Row /\ call[c] = NoCall
  BY <1>1 DEF AccrualsTyped, Begin, Free
<1>3. k \in Call
  BY <1>2, NoCallKnows DEF Call, Row, Asks
<1>4. Takes(c, op, a, accrual[a].stage)
  BY <1>1 DEF Begin, Takes
<1>5. Becomes(c, k)
  BY <1>2, <1>4, BegunOnRow
<1>6. k.op = op /\ k.row = a /\ k.po = Nothing /\ k.stage = accrual[a].stage
  OBVIOUS
<1>7. Has(a, Asks[op]) /\ (orderly => \A d \in Calls : call[d] = NoCall)
  BY <1>1 DEF Begin, Free
<1> HIDE DEF k
<1> QED BY <1>2, <1>3, <1>5, <1>6, <1>7

LEMMA BeginReads ==
  ASSUME ChainInv, NEW c \in Calls, NEW a \in Rows,
         StartSend(c, a) \/ StartAdvance(c, a) \/ StartPost(c, a)
  PROVE  ChainInv'
<1>1. PICK k \in Call :
        /\ Becomes(c, k)
        /\ k.op \in DOMAIN Asks /\ Has(a, Asks[k.op])
        /\ k.row = a /\ k.po = Nothing /\ k.stage = accrual[a].stage
  BY Takings DEF ChainInv
<1>2. CallKnows(k)
  BY <1>1 DEF ChainInv, RowKnows, CallKnows, Has, Asks
<1>3. UNCHANGED <<due, accrual, advanced, posted, orderly>>
  BY DEF StartSend, StartAdvance, StartPost, Begin
<1> QED BY <1>1, <1>2, <1>3, ReadChain DEF Becomes

LEMMA NewRowIsAbsent ==
  ASSUME \E a \in Rows : Has(a, "absent")
  PROVE  NewRow \in Rows /\ Has(NewRow, "absent")
BY DEF NewRow

(* What WriteDraft leaves of its call, and the row it writes.              *)
LEMMA Draft ==
  ASSUME AccrualsTyped, NEW c \in Calls, CallKnows(call[c]), WriteDraft(c)
  PROVE  \E a \in Rows, k \in Call, w \in Row :
           /\ k = NoCall \/ (k.op = "generate" /\ k.po = Nothing /\ k.row = Nothing)
           /\ call' = [call EXCEPT ![c] = k]
           /\ accrual' = [accrual EXCEPT ![a] = w]
           /\ w.po = call[c].po
           /\ \/ /\ call[c].row = a /\ ~Has(a, "absent")
                 /\ w.po = accrual[a].po
                 /\ w.status = accrual[a].status /\ w.stage = accrual[a].stage
              \/ /\ call[c].row = Nothing /\ Has(a, "absent")
                 /\ w.status = "draft" /\ w.stage = 0
<1> DEFINE p == call[c].po
           amount == call[c].todo[p]
           rest == DOMAIN call[c].todo \ {p}
           less == [q \in rest |-> call[c].todo[q]]
           k == IF rest = {} THEN NoCall
                ELSE [call[c] EXCEPT !.po = Nothing, !.row = Nothing, !.todo = less]
<1>0. /\ call[c] \in Call /\ call[c].op = "generate" /\ p # Nothing
      /\ p \in DOMAIN call[c].todo
  BY DEF AccrualsTyped, WriteDraft, CallKnows
<1>1. PICK S \in SUBSET Purchases : call[c].todo \in [S -> Amounts]
  BY <1>0 DEF Call, Todo
<1>2. amount \in Amounts /\ p \in Purchases
  BY <1>0, <1>1
<1>3. rest \in SUBSET Purchases /\ less \in [rest -> Amounts]
  BY <1>1
<1>4. less \in Todo
  BY <1>3 DEF Todo
<1>5. k \in Call /\ (k = NoCall \/ (k.op = "generate" /\ k.po = Nothing /\ k.row = Nothing))
  <2>1. CASE rest = {}
    <3>1. k = NoCall
      BY <2>1, Zenon
    <3> HIDE DEF k
    <3> QED BY <3>1, NoCallKnows
  <2>2. CASE rest # {}
    <3> DEFINE y == [call[c] EXCEPT !.po = Nothing]
               z == [y EXCEPT !.row = Nothing]
               w == [z EXCEPT !.todo = less]
    <3> HIDE DEF less, rest
    <3>1. y \in Call /\ y.op = "generate" /\ y.po = Nothing
      BY <1>0 DEF Call
    <3> HIDE DEF y
    <3>2. z \in Call /\ z.op = "generate" /\ z.po = Nothing /\ z.row = Nothing
      BY <3>1 DEF Call
    <3> HIDE DEF z
    <3>3. w \in Call /\ w.op = "generate" /\ w.po = Nothing /\ w.row = Nothing
      BY <1>4, <3>2 DEF Call
    <3>4. k = w
      BY <2>2 DEF z, y
    <3> QED BY <3>3, <3>4, Zenon
  <2> QED BY <2>1, <2>2
<1>6. call' = [call EXCEPT ![c] = k]
  BY DEF WriteDraft, AccrualsTyped
<1>7. CASE call[c].row # Nothing
  <2> DEFINE a == call[c].row
             w == [accrual[a] EXCEPT !.amount = amount]
  <2>1. a \in Rows /\ accrual[a].po = p /\ ~Has(a, "absent")
    BY <1>0, <1>7 DEF Call, CallKnows
  <2>2. accrual[a] \in Row
    BY <2>1 DEF AccrualsTyped
  <2>3. /\ w \in Row /\ w.status = accrual[a].status
        /\ w.stage = accrual[a].stage /\ w.po = accrual[a].po
    BY <1>2, <2>2 DEF Row
  <2>4. accrual' = [accrual EXCEPT ![a] = w]
    BY <1>7, <2>1 DEF WriteDraft, AccrualsTyped
  <2> HIDE DEF w, k
  <2> QED BY <1>5, <1>6, <2>1, <2>3, <2>4
<1>8. CASE call[c].row = Nothing
  <2> DEFINE w == [po |-> p, status |-> "draft", stage |-> 0, amount |-> amount]
  <2>1. NewRow \in Rows /\ Has(NewRow, "absent")
    BY <1>8, NewRowIsAbsent DEF WriteDraft
  <2>2. w \in Row
    BY <1>2 DEF Row, AccrualStatus
  <2>3. accrual' = [accrual EXCEPT ![NewRow] = w]
    BY <1>8 DEF WriteDraft
  <2>4. w.status = "draft" /\ w.stage = 0 /\ w.po = p
    OBVIOUS
  <2> HIDE DEF w, k, p, NewRow
  <2> QED BY <1>5, <1>6, <1>8, <2>1, <2>2, <2>3, <2>4 DEF p
<1> QED BY <1>7, <1>8

LEMMA WriteDraftChain ==
  ASSUME ChainInv, NEW c \in Calls, WriteDraft(c)
  PROVE  ChainInv'
<1>0. AccrualsTyped /\ CallKnows(call[c])
  BY DEF ChainInv
<1>1. PICK a \in Rows, k \in Call, w \in Row :
        /\ k = NoCall \/ (k.op = "generate" /\ k.po = Nothing)
        /\ call' = [call EXCEPT ![c] = k]
        /\ accrual' = [accrual EXCEPT ![a] = w]
        /\ \/ ~Has(a, "absent") /\ w.po = accrual[a].po
              /\ w.status = accrual[a].status /\ w.stage = accrual[a].stage
           \/ Has(a, "absent") /\ w.status = "draft"
  BY <1>0, Draft
<1>2. UNCHANGED <<due, advanced, posted, orderly>>
  BY DEF WriteDraft
<1>3. AccrualsTyped'
  BY <1>0, <1>1, <1>2 DEF AccrualsTyped
<1>4. w.status # "absent" /\ (~Has(a, "absent") => w.po = accrual[a].po)
  BY <1>1 DEF Has
<1>5. accrual'[a] = w
  BY <1>0, <1>1 DEF AccrualsTyped
<1>6. RowKnows(a)'
  BY <1>1, <1>2, <1>5 DEF ChainInv, RowKnows, Has
<1>7. advanced'[a] >= advanced[a]
  BY <1>0, <1>2 DEF AccrualsTyped
<1> QED BY <1>1, <1>2, <1>3, <1>4, <1>6, <1>7, WriteChain

(* Send, Advance and Post write the status or the stage of their row.      *)
Moved(c, a, w) ==
  /\ \/ Send(c) /\ w.status = "in_approval" /\ w.stage = 1
     \/ /\ Advance(c)
        /\ \/ call[c].stage + 1 > Stages /\ w.status = "approved"
           \/ /\ call[c].stage + 1 <= Stages /\ w.status = accrual[a].status
              /\ w.stage = call[c].stage + 1
     \/ Post(c) /\ w.status = "posted"
  /\ w.po = accrual[a].po /\ w.amount = accrual[a].amount

LEMMA Writes ==
  ASSUME AccrualsTyped, NEW c \in Calls, CallKnows(call[c]),
         Send(c) \/ Advance(c) \/ Post(c)
  PROVE  \E a \in Rows, w \in Row :
           /\ a = call[c].row /\ ~Has(a, "absent")
           /\ call' = [call EXCEPT ![c] = NoCall]
           /\ accrual' = [accrual EXCEPT ![a] = w]
           /\ Moved(c, a, w)
<1>0. call[c].row \in Rows /\ ~Has(call[c].row, "absent")
  BY DEF Send, Advance, Post, CallKnows
<1> PICK a \in Rows : a = call[c].row
  BY <1>0
<1>1. accrual[a] \in Row
  BY DEF AccrualsTyped
<1>2. call' = [call EXCEPT ![c] = NoCall]
  BY DEF Send, Advance, Post, Hang
<1>3. CASE Send(c)
  <2> DEFINE x == [accrual[a] EXCEPT !.status = "in_approval"]
             w == [x EXCEPT !.stage = 1]
  <2>1. /\ x \in Row /\ x.status = "in_approval" /\ x.po = accrual[a].po
        /\ x.amount = accrual[a].amount
    BY <1>1 DEF Row, AccrualStatus
  <2> HIDE DEF x
  <2>2. /\ w \in Row /\ w.status = "in_approval" /\ w.po = accrual[a].po
        /\ w.stage = 1 /\ w.amount = accrual[a].amount
    BY <2>1 DEF Row
  <2>3. accrual' = [accrual EXCEPT ![a] = w]
    BY <1>0, <1>3 DEF Send, AccrualsTyped, x
  <2> HIDE DEF w
  <2>4. Moved(c, a, w)
    BY <1>3, <2>2 DEF Moved
  <2> QED BY <1>0, <1>2, <2>2, <2>3, <2>4
<1>4. CASE Advance(c)
  <2> DEFINE next == call[c].stage + 1
             x == [accrual[a] EXCEPT !.status = "approved"]
             w == IF next > Stages THEN [x EXCEPT !.stage = Stages]
                  ELSE [accrual[a] EXCEPT !.stage = next]
  <2>0. call[c].stage \in 1..Stages /\ Stages \in Nat
    BY <1>0, <1>4, StagesAssumption DEF Advance, CallKnows
  <2>1. /\ x \in Row /\ x.status = "approved" /\ x.po = accrual[a].po
        /\ x.amount = accrual[a].amount
    BY <1>1 DEF Row, AccrualStatus
  <2>2. /\ w \in Row /\ w.po = accrual[a].po /\ w.amount = accrual[a].amount
        /\ \/ next > Stages /\ w.status = "approved"
           \/ next <= Stages /\ w.status = accrual[a].status /\ w.stage = next
    <3>1. CASE next > Stages
      <4> HIDE DEF x
      <4> QED BY <2>0, <2>1, <3>1 DEF Row
    <3>2. CASE ~(next > Stages)
      BY <1>0, <1>1, <2>0, <3>2 DEF Row, Has
    <3> QED BY <3>1, <3>2
  <2>3. accrual' = [accrual EXCEPT ![a] = w]
    BY <1>0, <1>4 DEF Advance, AccrualsTyped
  <2> HIDE DEF w
  <2>4. Moved(c, a, w)
    BY <1>4, <2>2 DEF Moved
  <2> QED BY <1>0, <1>2, <2>2, <2>3, <2>4
<1>5. CASE Post(c)
  <2> DEFINE w == [accrual[a] EXCEPT !.status = "posted"]
  <2>1. /\ w \in Row /\ w.status = "posted" /\ w.po = accrual[a].po
        /\ w.amount = accrual[a].amount
    BY <1>1 DEF Row, AccrualStatus
  <2>2. accrual' = [accrual EXCEPT ![a] = w]
    BY <1>0, <1>5 DEF Post, AccrualsTyped
  <2> HIDE DEF w
  <2>3. Moved(c, a, w)
    BY <1>5, <2>1 DEF Moved
  <2> QED BY <1>0, <1>2, <2>1, <2>2, <2>3
<1> QED BY <1>3, <1>4, <1>5

LEMMA ChainWrites ==
  ASSUME ChainInv, NEW c \in Calls, Send(c) \/ Advance(c) \/ Post(c)
  PROVE  ChainInv'
<1>0. AccrualsTyped /\ CallKnows(call[c])
  BY DEF ChainInv
<1> PICK a \in Rows, w \in Row :
      /\ a = call[c].row /\ ~Has(a, "absent")
      /\ call' = [call EXCEPT ![c] = NoCall]
      /\ accrual' = [accrual EXCEPT ![a] = w]
      /\ Moved(c, a, w)
  BY <1>0, Writes
<1>1. RowKnows(a) /\ advanced[a] \in Nat /\ posted[a] \in Nat
  BY <1>0 DEF AccrualsTyped, ChainInv
<1>2. accrual'[a] = w /\ w.status # "absent"
  BY <1>0 DEF AccrualsTyped, Moved, Has
<1>3. /\ advanced' \in [Rows -> Nat] /\ posted' \in [Rows -> Nat]
      /\ \A b \in Rows \ {a} : UNCHANGED <<advanced[b], posted[b]>>
      /\ advanced'[a] >= advanced[a] /\ UNCHANGED <<due, orderly>>
      /\ Advance(c) => advanced'[a] = advanced[a] + 1
      /\ Post(c) \/ Send(c) => advanced'[a] = advanced[a]
      /\ Advance(c) \/ Send(c) => posted'[a] = posted[a]
  BY <1>0, <1>1 DEF AccrualsTyped, Send, Advance, Post
<1>4. AccrualsTyped'
  BY <1>0, <1>3, NoCallKnows DEF AccrualsTyped
<1>5. RowKnows(a)'
  <2>1. CASE Send(c)
    BY <1>1, <1>2, <1>3, <2>1, StagesAssumption
    DEF Moved, Send, Advance, Post, RowKnows, Has
  <2>2. CASE Advance(c)
    <3>1. call[c].stage \in 1..Stages /\ call[c].stage <= advanced[a] + 1
      BY <1>0, <2>2 DEF Advance, CallKnows
    <3>2. ~Send(c) /\ ~Post(c)
      BY <2>2 DEF Advance, Send, Post
    <3> QED
      BY <1>1, <1>2, <1>3, <2>2, <3>1, <3>2, StagesAssumption
      DEF Moved, RowKnows, Has
  <2>3. CASE Post(c)
    <3>1. advanced[a] >= Stages
      BY <1>0, <2>3 DEF Post, CallKnows
    <3>2. ~Send(c) /\ ~Advance(c)
      BY <2>3 DEF Advance, Send, Post
    <3> QED
      BY <1>1, <1>2, <1>3, <2>3, <3>1, <3>2 DEF Moved, RowKnows, Has
  <2> QED BY <2>1, <2>2, <2>3
<1>6. w.po = accrual[a].po
  BY DEF Moved
<1> QED BY <1>2, <1>3, <1>4, <1>5, <1>6, NoCallKnows, WriteChain

LEMMA NextChain == ChainInv /\ [AccrualsNext]_accrualVars => ChainInv'
<1> SUFFICES ASSUME ChainInv, [AccrualsNext]_accrualVars PROVE ChainInv'
  OBVIOUS
<1>1. ASSUME NEW c \in Calls, Break(c) PROVE ChainInv'
  <2>1. call' = [call EXCEPT ![c] = NoCall]
    BY <1>1 DEF Break, Hang
  <2>2. UNCHANGED <<due, accrual, advanced, posted, orderly>>
    BY <1>1 DEF Break
  <2> QED BY <2>1, <2>2, NoCallKnows, ReadChain
<1>2. ASSUME NEW c \in Calls, NEW a \in Rows,
             StartSend(c, a) \/ StartAdvance(c, a) \/ StartPost(c, a)
      PROVE  ChainInv'
  BY <1>2, BeginReads
<1>3. CASE UNCHANGED accrualVars
  BY <1>3
  DEF accrualVars, ChainInv, AccrualsTyped, CallKnows, RowKnows, Has
<1> QED
  BY <1>1, <1>2, <1>3, OrderMovesChain, GenerateReads, WriteDraftChain,
     ChainWrites
  DEF AccrualsNext

(* One call at a time finds its row as it read it.                         *)
CallExact(k) ==
  /\ k.op \in DOMAIN Asks => Has(k.row, Asks[k.op]) /\ k.stage = accrual[k.row].stage
  /\ k.op = "generate" => Found(k)

(* The history of a row is that of a single pass through the chain.        *)
RowExact(a) ==
  /\ Has(a, "absent") \/ Has(a, "draft") => advanced[a] = 0 /\ posted[a] = 0
  /\ Has(a, "in_approval") => accrual[a].stage = advanced[a] + 1 /\ posted[a] = 0
  /\ Has(a, "approved") => advanced[a] = Stages /\ posted[a] = 0
  /\ Has(a, "posted") => advanced[a] = Stages /\ posted[a] = 1

OrderInv ==
  orderly =>
    /\ \A c, d \in Calls : call[c] # NoCall /\ call[d] # NoCall => c = d
    /\ \A c \in Calls : CallExact(call[c])
    /\ \A a \in Rows : RowExact(a)

LEMMA NoCallExact == CallExact(NoCall)
BY DEF CallExact, NoCall, Asks

LEMMA InitOrder == AccrualsInit => OrderInv
BY NoCallExact DEF AccrualsInit, OrderInv, RowExact, CallExact, Has, NoRow, NoCall, Asks

(* A step of the only call.                                                *)
LEMMA OrderStep ==
  ASSUME AccrualsTyped, OrderInv, UNCHANGED orderly,
         NEW c \in Calls, NEW k \in Call, Becomes(c, k),
         orderly => call[c] # NoCall \/ \A d \in Calls : call[d] = NoCall,
         orderly => CallExact(k)' /\ \A a \in Rows : RowExact(a)'
  PROVE  OrderInv'
<1> SUFFICES ASSUME orderly
             PROVE  /\ \A x, d \in Calls : call'[x] # NoCall /\ call'[d] # NoCall => x = d
                    /\ \A x \in Calls : CallExact(call[x])'
                    /\ \A a \in Rows : RowExact(a)'
  BY DEF OrderInv
<1>1. \A d \in Calls : call'[d] = IF d = c THEN k ELSE call[d]
  BY DEF AccrualsTyped, Becomes
<1>2. \A d \in Calls \ {c} : call[d] = NoCall
  BY DEF OrderInv
<1>3. \A d \in Calls : CallExact(call[d])'
  <2> SUFFICES ASSUME NEW d \in Calls PROVE CallExact(call[d])'
    OBVIOUS
  <2>1. CASE d = c
    BY <1>1, <2>1 DEF CallExact, Found, DraftsOf, Has
  <2>2. CASE d # c
    <3>1. call'[d] = NoCall
      BY <1>1, <1>2, <2>2
    <3> QED BY <3>1 DEF CallExact, NoCall, Asks
  <2> QED BY <2>1, <2>2
<1> QED BY <1>1, <1>2, <1>3

(* A step that reads.                                                      *)
LEMMA OrderRead ==
  ASSUME AccrualsTyped, OrderInv, NEW c \in Calls, NEW k \in Call, Becomes(c, k),
         UNCHANGED <<accrual, advanced, posted, orderly>>,
         orderly => call[c] # NoCall \/ \A d \in Calls : call[d] = NoCall,
         CallExact(k)
  PROVE  OrderInv'
<1>1. orderly => \A a \in Rows : RowExact(a)'
  BY DEF OrderInv, RowExact, Has
<1>2. CallExact(k)'
  BY DEF CallExact, Found, DraftsOf, Has
<1> QED BY <1>1, <1>2, OrderStep

LEMMA OrderReads ==
  ASSUME ChainInv, OrderInv, NEW c \in Calls,
         \/ StartGenerate(c) \/ FindDraft(c) \/ Break(c)
         \/ \E a \in Rows : StartSend(c, a) \/ StartAdvance(c, a) \/ StartPost(c, a)
  PROVE  OrderInv'
<1>0. AccrualsTyped
  BY DEF ChainInv
<1>1. CASE StartGenerate(c) \/ FindDraft(c)
  <2>1. PICK k \in Call : Becomes(c, k) /\ Found(k)
    BY <1>0, <1>1, Generates
  <2>2. CallExact(k)
    BY <2>1 DEF CallExact, Found, Asks
  <2>3. orderly => call[c] # NoCall \/ \A d \in Calls : call[d] = NoCall
    <3>1. CASE StartGenerate(c)
      BY <3>1 DEF StartGenerate, Free
    <3>2. CASE FindDraft(c)
      <4>1. call[c].op = "generate"
        BY <3>2 DEF FindDraft
      <4> QED BY <4>1 DEF NoCall
    <3> QED BY <1>1, <3>1, <3>2
  <2> QED
    BY <1>0, <1>1, <2>1, <2>2, <2>3, OrderRead DEF StartGenerate, FindDraft
<1>2. CASE Break(c)
  <2>1. Becomes(c, NoCall) /\ call[c] # NoCall
    BY <1>2 DEF Break, Hang, Becomes
  <2> QED BY <1>0, <1>2, <2>1, NoCallKnows, NoCallExact, OrderRead DEF Break
<1>3. ASSUME NEW a \in Rows, StartSend(c, a) \/ StartAdvance(c, a) \/ StartPost(c, a)
      PROVE  OrderInv'
  <2>1. PICK k \in Call :
          /\ Becomes(c, k) /\ call[c] = NoCall
          /\ orderly => \A d \in Calls : call[d] = NoCall
          /\ k.op \in DOMAIN Asks /\ Has(a, Asks[k.op])
          /\ k.row = a /\ k.po = Nothing /\ k.stage = accrual[a].stage
    BY <1>0, <1>3, Takings
  <2>2. CallExact(k)
    BY <2>1 DEF CallExact, Asks
  <2>3. UNCHANGED <<accrual, advanced, posted, orderly>>
    BY <1>3 DEF StartSend, StartAdvance, StartPost, Begin
  <2> QED BY <1>0, <2>1, <2>2, <2>3, OrderRead
<1> QED BY <1>1, <1>2, <1>3

LEMMA OrderWrites ==
  ASSUME ChainInv, OrderInv, NEW c \in Calls, Send(c) \/ Advance(c) \/ Post(c)
  PROVE  OrderInv'
<1>0. AccrualsTyped /\ CallKnows(call[c])
  BY DEF ChainInv
<1> PICK a \in Rows, w \in Row :
      /\ a = call[c].row /\ ~Has(a, "absent")
      /\ call' = [call EXCEPT ![c] = NoCall]
      /\ accrual' = [accrual EXCEPT ![a] = w]
      /\ Moved(c, a, w)
  BY <1>0, Writes
<1>1. /\ \A b \in Rows : accrual'[b] = IF b = a THEN w ELSE accrual[b]
      /\ \A b \in Rows \ {a} : UNCHANGED <<advanced[b], posted[b]>>
      /\ UNCHANGED orderly
      /\ Advance(c) => advanced'[a] = advanced[a] + 1
      /\ Post(c) => posted'[a] = posted[a] + 1
      /\ Post(c) \/ Send(c) => advanced'[a] = advanced[a]
      /\ Advance(c) \/ Send(c) => posted'[a] = posted[a]
  BY <1>0 DEF AccrualsTyped, Send, Advance, Post
<1>2. call[c] # NoCall /\ Becomes(c, NoCall)
  BY DEF Send, Advance, Post, NoCall, Becomes
<1>3. ASSUME orderly PROVE CallExact(NoCall)'
  BY DEF CallExact, NoCall, Asks
<1>4. ASSUME orderly, NEW b \in Rows PROVE RowExact(b)'
  <2>1. CASE b # a
    BY <1>1, <1>4, <2>1 DEF OrderInv, RowExact, Has
  <2>2. CASE b = a
    <3>1. /\ RowExact(a) /\ CallExact(call[c])
          /\ advanced[a] \in Nat /\ posted[a] \in Nat
          /\ accrual[a].stage \in Nat
      BY <1>0, <1>4 DEF OrderInv, AccrualsTyped, Row
    <3>2. CASE Send(c)
      <4>1. Has(a, "draft") /\ ~Advance(c) /\ ~Post(c)
        BY <3>1, <3>2 DEF CallExact, Asks, Send, Advance, Post
      <4> QED
        BY <1>1, <2>2, <3>1, <3>2, <4>1 DEF RowExact, Has, Moved
    <3>3. CASE Advance(c)
      <4>1. /\ Has(a, "in_approval") /\ call[c].stage = accrual[a].stage
            /\ ~Send(c) /\ ~Post(c)
        BY <3>1, <3>3 DEF CallExact, Asks, Send, Advance, Post
      <4>2. call[c].stage \in 1..Stages /\ Stages \in Nat
        BY <1>0, <3>3, StagesAssumption DEF CallKnows, Advance
      <4> QED
        BY <1>1, <2>2, <3>1, <3>3, <4>1, <4>2 DEF RowExact, Has, Moved
    <3>4. CASE Post(c)
      <4>1. Has(a, "approved") /\ ~Send(c) /\ ~Advance(c)
        BY <3>1, <3>4 DEF CallExact, Asks, Send, Advance, Post
      <4> QED
        BY <1>1, <2>2, <3>1, <3>4, <4>1 DEF RowExact, Has, Moved
    <3> QED BY <3>2, <3>3, <3>4
  <2> QED BY <2>1, <2>2
<1> QED BY <1>0, <1>1, <1>2, <1>3, <1>4, NoCallKnows, OrderStep

LEMMA OrderWriteDraft ==
  ASSUME ChainInv, OrderInv, NEW c \in Calls, WriteDraft(c)
  PROVE  OrderInv'
<1>0. AccrualsTyped /\ CallKnows(call[c])
  BY DEF ChainInv
<1>1. PICK a \in Rows, k \in Call, w \in Row :
        /\ k = NoCall \/ (k.op = "generate" /\ k.po = Nothing /\ k.row = Nothing)
        /\ call' = [call EXCEPT ![c] = k]
        /\ accrual' = [accrual EXCEPT ![a] = w]
        /\ \/ ~Has(a, "absent")
              /\ w.status = accrual[a].status /\ w.stage = accrual[a].stage
           \/ Has(a, "absent") /\ w.status = "draft"
  BY <1>0, Draft
<1>2. UNCHANGED <<advanced, posted, orderly>> /\ call[c] # NoCall /\ Becomes(c, k)
  <2>1. call[c].op = "generate" /\ UNCHANGED <<advanced, posted, orderly>>
    BY DEF WriteDraft
  <2> QED BY <1>1, <2>1 DEF NoCall, Becomes
<1>3. CallExact(k)'
  BY <1>1 DEF CallExact, Found, NoCall, Asks
<1>4. \A b \in Rows : accrual'[b] = IF b = a THEN w ELSE accrual[b]
  BY <1>0, <1>1 DEF AccrualsTyped
<1>5. orderly => \A b \in Rows : RowExact(b)'
  BY <1>1, <1>2, <1>4 DEF OrderInv, RowExact, Has
<1> QED BY <1>0, <1>2, <1>3, <1>5, OrderStep

LEMMA NextOrder == ChainInv /\ OrderInv /\ [AccrualsNext]_accrualVars => OrderInv'
<1> SUFFICES ASSUME ChainInv, OrderInv, [AccrualsNext]_accrualVars PROVE OrderInv'
  OBVIOUS
<1>1. ASSUME UNCHANGED <<accrual, call, advanced, posted, orderly>> PROVE OrderInv'
  BY <1>1 DEF OrderInv, CallExact, RowExact, Found, DraftsOf, Has
<1> QED
  BY <1>1, OrderReads, OrderWrites, OrderWriteDraft
  DEF AccrualsNext, OrderMoves, accrualVars

(* Any interleaving, and a call at a time.                                 *)
LEMMA AccrualsInvariant == AccrualsSpec => [](ChainInv /\ OrderInv)
BY InitChain, InitOrder, NextChain, NextOrder, PTL DEF AccrualsSpec

(* An accrual reaches the accounting system only after every stage of its  *)
(* chain was approved, for a chain of any length, however many calls       *)
(* overlap and wherever they stop; and once, with no approval too many, if *)
(* none do.                                                                *)
THEOREM PostedWhenApproved == AccrualsSpec => []PostedAfterChain
<1>1. ChainInv /\ OrderInv => PostedAfterChain
  <2> SUFFICES ASSUME ChainInv, OrderInv, NEW a \in Rows
               PROVE  /\ posted[a] > 0 => advanced[a] >= Stages
                      /\ orderly => posted[a] <= 1 /\ advanced[a] <= Stages
    BY DEF PostedAfterChain
  <2>1. RowKnows(a) /\ accrual[a] \in Row /\ advanced[a] \in Nat /\ posted[a] \in Nat
    BY DEF ChainInv, AccrualsTyped
  <2>2. orderly => RowExact(a)
    BY DEF OrderInv
  <2>3. accrual[a].status \in AccrualStatus /\ accrual[a].stage \in Nat
    BY <2>1 DEF Row
  <2> QED
    BY <2>1, <2>2, <2>3, StagesAssumption
    DEF RowKnows, RowExact, Has, AccrualStatus
<1> QED BY <1>1, AccrualsInvariant, PTL

(* One call at a time, for any number of orders and accruals: what was     *)
(* sent for approval keeps its amount until it is posted.                  *)
THEOREM AmountStays == AccrualsSpec => SentAmountStays
<1> DEFINE P == \A a \in Rows :
                  orderly /\ ~Has(a, "absent") /\ accrual'[a].amount # accrual[a].amount
                    => Has(a, "draft")
<1>1. ChainInv /\ OrderInv /\ [AccrualsNext]_accrualVars => [P]_accrualVars
  <2> SUFFICES ASSUME ChainInv, OrderInv, AccrualsNext, NEW a \in Rows, orderly,
                      ~Has(a, "absent"), accrual'[a].amount # accrual[a].amount
               PROVE  Has(a, "draft")
    OBVIOUS
  <2>0. AccrualsTyped /\ \A c \in Calls : CallKnows(call[c])
    BY DEF ChainInv
  <2>1. PICK c \in Calls : WriteDraft(c) \/ Send(c) \/ Advance(c) \/ Post(c)
    BY DEF AccrualsNext, OrderMoves, StartGenerate, FindDraft, StartSend,
           StartAdvance, StartPost, Begin, Break
  <2>2. CASE Send(c) \/ Advance(c) \/ Post(c)
    <3>1. PICK b \in Rows, w \in Row :
            accrual' = [accrual EXCEPT ![b] = w] /\ Moved(c, b, w)
      BY <2>0, <2>2, Writes
    <3> QED BY <2>0, <3>1 DEF AccrualsTyped, Moved
  <2>3. CASE WriteDraft(c)
    <3>1. PICK b \in Rows, w \in Row :
            /\ accrual' = [accrual EXCEPT ![b] = w]
            /\ call[c].row = b \/ Has(b, "absent")
      BY <2>0, <2>3, Draft
    <3>2. a = b
      BY <2>0, <3>1 DEF AccrualsTyped
    <3>3. call[c].op = "generate" /\ CallExact(call[c])
      BY <2>3 DEF WriteDraft, OrderInv
    <3> QED BY <3>1, <3>2, <3>3, NothingAssumption DEF CallExact, Found
  <2> QED BY <2>1, <2>2, <2>3
<1> QED BY <1>1, AccrualsInvariant, PTL DEF AccrualsSpec, SentAmountStays

-----------------------------------------------------------------------------
(* A generation that found no draft of an order is about to make one.      *)
Creating(p) ==
  {c \in Calls : call[c].op = "generate" /\ call[c].po = p /\ call[c].row = Nothing}

DraftsFit(p) ==
  /\ IsFiniteSet(DraftsOf(p))
  /\ Cardinality(DraftsOf(p)) + Cardinality(Creating(p)) <= Cardinality(Calls)
  /\ orderly => \A a, b \in DraftsOf(p) : a = b

DraftsInv == \A p \in Purchases : DraftsFit(p)

LEMMA InitDrafts == AccrualsInit => DraftsInv
<1> SUFFICES ASSUME AccrualsInit, NEW p \in Purchases PROVE DraftsFit(p)
  BY DEF DraftsInv
<1>1. DraftsOf(p) = {}
  BY DEF AccrualsInit, DraftsOf, Has, NoRow
<1>2. Creating(p) = {}
  BY DEF AccrualsInit, Creating, NoCall
<1> QED
  BY <1>1, <1>2, CallsAssumption, FS_EmptySet, FS_CardinalityType DEF DraftsFit

LEMMA CreatingCounts ==
  ASSUME NEW p
  PROVE  /\ IsFiniteSet(Creating(p)) /\ Cardinality(Creating(p)) \in Nat
         /\ Cardinality(Creating(p)) <= Cardinality(Calls)
         /\ IsFiniteSet(Creating(p)') /\ Cardinality(Creating(p)') \in Nat
         /\ Cardinality(Creating(p)') <= Cardinality(Calls)
         /\ Cardinality(Calls) \in Nat
<1>1. Creating(p) \in SUBSET Calls /\ Creating(p)' \in SUBSET Calls
  BY DEF Creating
<1> QED BY <1>1, CallsAssumption, FS_Subset, FS_CardinalityType

LEMMA FewerDrafts ==
  ASSUME NEW p \in Purchases, DraftsFit(p), UNCHANGED orderly,
         DraftsOf(p)' \subseteq DraftsOf(p), Creating(p)' \subseteq Creating(p)
  PROVE  DraftsFit(p)'
<1>1. /\ IsFiniteSet(DraftsOf(p)) /\ Cardinality(DraftsOf(p)) \in Nat
      /\ IsFiniteSet(DraftsOf(p)') /\ Cardinality(DraftsOf(p)') \in Nat
      /\ Cardinality(DraftsOf(p)') <= Cardinality(DraftsOf(p))
  BY FS_Subset, FS_CardinalityType DEF DraftsFit
<1>2. Cardinality(Creating(p)') <= Cardinality(Creating(p))
  BY CreatingCounts, FS_Subset
<1> QED BY <1>1, <1>2, CreatingCounts DEF DraftsFit

LEMMA DraftRead ==
  ASSUME AccrualsTyped, NEW p \in Purchases, DraftsFit(p),
         NEW c \in Calls, NEW k \in Call, Becomes(c, k),
         k.po = Nothing \/ Found(k), UNCHANGED <<accrual, orderly>>
  PROVE  DraftsFit(p)'
<1>1. \A d \in Calls : call'[d] = IF d = c THEN k ELSE call[d]
  BY DEF AccrualsTyped, Becomes
<1>2. DraftsOf(p)' = DraftsOf(p)
  BY DEF DraftsOf, Has
<1>3. CASE k.po = p /\ k.row = Nothing
  <2>1. DraftsOf(p) = {}
    BY <1>3, NothingAssumption DEF Found
  <2> QED BY <1>2, <2>1, CreatingCounts, FS_EmptySet DEF DraftsFit
<1>4. CASE ~(k.po = p /\ k.row = Nothing)
  <2>1. Creating(p)' \subseteq Creating(p)
    BY <1>1, <1>4 DEF Creating
  <2> QED BY <1>2, <2>1, FewerDrafts
<1> QED BY <1>3, <1>4

LEMMA DraftWritten ==
  ASSUME ChainInv, OrderInv, NEW p \in Purchases, DraftsFit(p),
         NEW c \in Calls, WriteDraft(c)
  PROVE  DraftsFit(p)'
<1>0. AccrualsTyped /\ CallKnows(call[c])
  BY DEF ChainInv
<1>1. PICK a \in Rows, k \in Call, w \in Row :
        /\ k = NoCall \/ (k.op = "generate" /\ k.po = Nothing /\ k.row = Nothing)
        /\ call' = [call EXCEPT ![c] = k]
        /\ accrual' = [accrual EXCEPT ![a] = w]
        /\ w.po = call[c].po
        /\ \/ /\ call[c].row = a /\ ~Has(a, "absent")
              /\ w.po = accrual[a].po
              /\ w.status = accrual[a].status
           \/ call[c].row = Nothing /\ Has(a, "absent") /\ w.status = "draft"
  BY <1>0, Draft
<1>2. /\ \A b \in Rows : accrual'[b] = IF b = a THEN w ELSE accrual[b]
      /\ \A d \in Calls : call'[d] = IF d = c THEN k ELSE call[d]
  BY <1>0, <1>1 DEF AccrualsTyped
<1>3. call[c].op = "generate" /\ call[c].po # Nothing /\ UNCHANGED orderly
  BY DEF WriteDraft
<1>4. k.po = Nothing
  BY <1>1 DEF NoCall
<1>5. Creating(p)' \subseteq Creating(p)
  BY <1>2, <1>4, NothingAssumption DEF Creating
<1>6. CASE call[c].row = a \/ call[c].po # p
  <2>1. DraftsOf(p)' \subseteq DraftsOf(p)
    BY <1>1, <1>2, <1>6, NothingAssumption DEF DraftsOf, Has
  <2> QED BY <1>3, <1>5, <2>1, FewerDrafts
<1>7. CASE call[c].row = Nothing /\ call[c].po = p
  <2>1. a \notin DraftsOf(p) /\ DraftsOf(p)' = DraftsOf(p) \union {a}
    BY <1>1, <1>2, <1>7, NothingAssumption DEF DraftsOf, Has
  <2>2. c \in Creating(p) /\ c \notin Creating(p)'
    BY <1>2, <1>3, <1>4, <1>7 DEF Creating
  <2>3. Cardinality(Creating(p)') <= Cardinality(Creating(p)) - 1
    <3>1. Creating(p)' \in SUBSET (Creating(p) \ {c})
      BY <1>5, <2>2
    <3>2. /\ IsFiniteSet(Creating(p) \ {c})
          /\ Cardinality(Creating(p) \ {c}) = Cardinality(Creating(p)) - 1
      BY <2>2, CreatingCounts, FS_RemoveElement
    <3> QED BY <3>1, <3>2, FS_Subset
  <2>4. /\ IsFiniteSet(DraftsOf(p)) /\ Cardinality(DraftsOf(p)) \in Nat
        /\ IsFiniteSet(DraftsOf(p)')
        /\ Cardinality(DraftsOf(p)') = Cardinality(DraftsOf(p)) + 1
    BY <2>1, FS_AddElement, FS_CardinalityType DEF DraftsFit
  <2>5. ASSUME orderly PROVE DraftsOf(p) = {}
    <3>1. CallExact(call[c])
      BY <2>5 DEF OrderInv
    <3> QED BY <1>3, <1>7, <3>1, NothingAssumption DEF CallExact, Found
  <2>6. orderly' => \A x, y \in DraftsOf(p)' : x = y
    BY <1>3, <2>1, <2>5
  <2> QED BY <2>3, <2>4, <2>6, CreatingCounts DEF DraftsFit
<1> QED BY <1>1, <1>6, <1>7

LEMMA NextDrafts ==
  ChainInv /\ OrderInv /\ DraftsInv /\ [AccrualsNext]_accrualVars => DraftsInv'
<1> SUFFICES ASSUME ChainInv, OrderInv, DraftsInv, [AccrualsNext]_accrualVars,
                    NEW p \in Purchases
             PROVE  DraftsFit(p)'
  BY DEF DraftsInv
<1>0. AccrualsTyped /\ DraftsFit(p) /\ \A c \in Calls : CallKnows(call[c])
  BY DEF ChainInv, DraftsInv
<1>1. CASE UNCHANGED <<accrual, call, orderly>>
  BY <1>0, <1>1 DEF DraftsFit, DraftsOf, Creating, Has
<1>2. ASSUME NEW c \in Calls, StartGenerate(c) \/ FindDraft(c)
      PROVE  DraftsFit(p)'
  <2>1. PICK k \in Call : Becomes(c, k) /\ Found(k)
    BY <1>0, <1>2, Generates
  <2> QED BY <1>0, <1>2, <2>1, DraftRead DEF StartGenerate, FindDraft
<1>3. ASSUME NEW c \in Calls, NEW a \in Rows,
             StartSend(c, a) \/ StartAdvance(c, a) \/ StartPost(c, a)
      PROVE  DraftsFit(p)'
  <2>1. PICK k \in Call : Becomes(c, k) /\ k.po = Nothing
    BY <1>0, <1>3, Takings
  <2>2. UNCHANGED <<accrual, orderly>>
    BY <1>3 DEF StartSend, StartAdvance, StartPost, Begin
  <2> QED BY <1>0, <2>1, <2>2, DraftRead
<1>4. ASSUME NEW c \in Calls, Break(c) PROVE DraftsFit(p)'
  <2>1. Becomes(c, NoCall) /\ UNCHANGED <<accrual, orderly>>
    BY <1>4 DEF Break, Hang, Becomes
  <2>2. NoCall.po = Nothing
    BY DEF NoCall
  <2> QED BY <1>0, <2>1, <2>2, NoCallKnows, DraftRead
<1>5. ASSUME NEW c \in Calls, Send(c) \/ Advance(c) \/ Post(c)
      PROVE  DraftsFit(p)'
  <2>1. PICK a \in Rows, w \in Row :
          /\ call' = [call EXCEPT ![c] = NoCall]
          /\ accrual' = [accrual EXCEPT ![a] = w]
          /\ Moved(c, a, w)
    BY <1>0, <1>5, Writes
  <2>2. /\ w.po = accrual[a].po /\ (w.status = "draft" => Has(a, "draft"))
        /\ UNCHANGED orderly
    BY <1>5, <2>1 DEF Moved, Has, Send, Advance, Post
  <2>3. /\ \A b \in Rows : accrual'[b] = IF b = a THEN w ELSE accrual[b]
        /\ \A d \in Calls : call'[d] = IF d = c THEN NoCall ELSE call[d]
    BY <1>0, <2>1 DEF AccrualsTyped
  <2>4. DraftsOf(p)' \subseteq DraftsOf(p)
    BY <2>2, <2>3 DEF DraftsOf, Has
  <2>5. Creating(p)' \subseteq Creating(p)
    BY <2>3, NothingAssumption DEF Creating, NoCall
  <2> QED BY <1>0, <2>2, <2>4, <2>5, FewerDrafts
<1> QED
  BY <1>0, <1>1, <1>2, <1>3, <1>4, <1>5, DraftWritten
  DEF AccrualsNext, OrderMoves, accrualVars

(* However often accruals are generated for an order, it has one draft;    *)
(* where generations overlap, one for each call that can be in flight.     *)
THEOREM DraftsBounded == AccrualsSpec => []DraftsPerOverlap
<1>1. DraftsInv => DraftsPerOverlap
  <2> SUFFICES ASSUME DraftsInv, NEW p \in Purchases
               PROVE  Cardinality(DraftsOf(p))
                        <= IF orderly THEN 1 ELSE Cardinality(Calls)
    BY DEF DraftsPerOverlap
  <2>1. /\ IsFiniteSet(DraftsOf(p)) /\ Cardinality(DraftsOf(p)) \in Nat
        /\ Cardinality(DraftsOf(p)) + Cardinality(Creating(p)) <= Cardinality(Calls)
        /\ orderly => \A a, b \in DraftsOf(p) : a = b
    BY FS_CardinalityType DEF DraftsInv, DraftsFit
  <2>2. CASE orderly
    <3>1. CASE DraftsOf(p) = {}
      BY <2>2, <3>1, FS_EmptySet
    <3>2. CASE DraftsOf(p) # {}
      <4>1. PICK a : DraftsOf(p) = {a}
        BY <2>1, <2>2, <3>2
      <4>2. Cardinality(DraftsOf(p)) = 1
        BY <4>1, FS_Singleton
      <4> QED BY <2>2, <4>2
    <3> QED BY <3>1, <3>2
  <2>3. CASE ~orderly
    BY <2>1, <2>3, CreatingCounts
  <2> QED BY <2>2, <2>3
<1> QED BY <1>1, InitDrafts, NextDrafts, AccrualsInvariant, PTL DEF AccrualsSpec

-----------------------------------------------------------------------------
(* Exchange rates: the provider shows what it has of a day at once, all    *)
(* that is stored was shown, and what a sync has in hand completes the     *)
(* days it is of, as far as the provider has them.                         *)

FxRec == [step : FxSteps, back : BOOLEAN, queue : Seq(SUBSET Days),
          recent : SUBSET Rate, pending : SUBSET Rate, count : Nat]

Others(s) == \A r \in FxSyncs \ {s} : fx'[r] = fx[r]

Carries(k, d, q) == \E y \in k.pending : y.day = d /\ y.quote = q

InHand(k) ==
  /\ k.pending # {} <=> k.step = "persist"
  /\ k.queue # <<>> <=> k.step \in {"fetch", "persist"}
  /\ \A p \in k.pending :
       /\ p.rate # 0 /\ published[p.day][p.quote] # 0
       /\ \A q \in Quotes : published[p.day][q] # 0 =>
            stored[p.day][q] # 0 \/ Carries(k, p.day, q)

RatesInv ==
  /\ FxTypeOK
  /\ \A d \in Days : Shown(d) => d <= today
  /\ \A d \in Days, q \in Quotes : stored[d][q] # 0 => published[d][q] # 0
  /\ \A s \in FxSyncs : InHand(fx[s])

LEMMA FxConstants ==
  /\ LastDay \in Nat \ {0} /\ Window \in Nat /\ Batch \in Nat \ {0}
  /\ Days \subseteq Nat \ {0} /\ IsFiniteSet(Days)
  /\ IsFiniteSet(Days \X Quotes)
  /\ Fixings \in [Days -> [Quotes -> Nat]]
<1>1. LastDay \in Nat \ {0} /\ IsFiniteSet(Quotes)
  BY FxAssumption
<1>2. IsFiniteSet(Days)
  BY <1>1, FS_Interval DEF Days
<1> QED BY <1>1, <1>2, FxAssumption, FS_Product DEF Days

LEMMA RatedFinite ==
  ASSUME NEW rates
  PROVE  IsFiniteSet(Rated(rates)) /\ Cardinality(Rated(rates)) \in Nat
<1>1. Rated(rates) \in SUBSET (Days \X Quotes)
  BY DEF Rated
<1> QED BY <1>1, FxConstants, FS_Subset, FS_CardinalityType

LEMMA RatedIn ==
  ASSUME NEW rates, NEW d \in Days, NEW q \in Quotes
  PROVE  <<d, q>> \in Rated(rates) <=> rates[d][q] # 0
BY DEF Rated

(* Rates never go away.                                                    *)
Grows(old, new) ==
  /\ new \in [Days -> [Quotes -> Nat]]
  /\ \A d \in Days, q \in Quotes : old[d][q] # 0 => new[d][q] # 0

LEMMA MoreRated ==
  ASSUME NEW old, NEW new, Grows(old, new)
  PROVE  Cardinality(Rated(old)) <= Cardinality(Rated(new))
<1>1. Rated(old) \subseteq Rated(new)
  BY DEF Rated, Grows
<1> QED BY <1>1, RatedFinite, FS_Subset

-----------------------------------------------------------------------------
(* What each step does to its sync.                                        *)

LEMMA RangeEffect ==
  ASSUME FxTypeOK, NEW s \in FxSyncs, NEW queue \in Seq(SUBSET Days),
         NextRange(s, queue)
  PROVE  /\ fx' \in [FxSyncs -> FxRec] /\ Others(s)
         /\ fx'[s].queue = queue /\ fx'[s].pending = {}
         /\ fx'[s].step = IF queue = <<>> THEN "aggregate" ELSE "fetch"
<1>0. fx \in [FxSyncs -> FxRec]
  BY DEF FxTypeOK, FxRec
<1> DEFINE step == IF queue = <<>> THEN "aggregate" ELSE "fetch"
           x == [fx[s] EXCEPT !.queue = queue]
           y == [x EXCEPT !.back = FALSE]
           z == [y EXCEPT !.pending = {}]
           k == [z EXCEPT !.step = step]
<1>1. fx' = [fx EXCEPT ![s] = k]
  BY <1>0 DEF NextRange
<1>2. x \in FxRec /\ x.queue = queue
  BY <1>0 DEF FxRec
<1> HIDE DEF x
<1>3. y \in FxRec /\ y.queue = queue
  BY <1>2 DEF FxRec
<1> HIDE DEF y
<1>4. z \in FxRec /\ z.queue = queue /\ z.pending = {}
  BY <1>3 DEF FxRec
<1> HIDE DEF z
<1>5. step \in FxSteps
  BY DEF FxSteps
<1>6. k \in FxRec /\ k.queue = queue /\ k.pending = {} /\ k.step = step
  <2> HIDE DEF step
  <2> QED BY <1>4, <1>5 DEF FxRec
<1> HIDE DEF k
<1> QED BY <1>0, <1>1, <1>6 DEF Others

LEMMA AnswerRates ==
  ASSUME FxTypeOK, NEW R
  PROVE  /\ Answer(R) \subseteq Rate
         /\ \A p \in Answer(R) :
              p.day \in R /\ p.rate # 0 /\ published[p.day][p.quote] # 0
         /\ \A d \in Days, q \in Quotes : d \in R /\ published[d][q] # 0 =>
              \E p \in Answer(R) : p.day = d /\ p.quote = q
<1>1. ASSUME NEW p \in Answer(R)
      PROVE  p \in Rate /\ p.day \in R /\ p.rate # 0 /\ published[p.day][p.quote] # 0
  <2>1. PICK x \in Rated(published) :
          /\ x[1] \in R
          /\ p = [day |-> x[1], quote |-> x[2], rate |-> published[x[1]][x[2]]]
    BY DEF Answer
  <2>2. PICK d \in Days, q \in Quotes : x = <<d, q>> /\ published[d][q] # 0
    BY DEF Rated
  <2>3. published[d][q] \in Nat
    BY DEF FxTypeOK
  <2> QED BY <2>1, <2>2, <2>3 DEF Rate
<1>2. ASSUME NEW d \in Days, NEW q \in Quotes, d \in R, published[d][q] # 0
      PROVE  \E p \in Answer(R) : p.day = d /\ p.quote = q
  <2> DEFINE p == [day |-> d, quote |-> q, rate |-> published[d][q]]
  <2>1. <<d, q>> \in {y \in Rated(published) : y[1] \in R}
    BY <1>2, RatedIn
  <2>2. p \in Answer(R)
    BY <2>1 DEF Answer
  <2> QED BY <2>2
<1> QED BY <1>1, <1>2

LEMMA FetchEffect ==
  ASSUME FxTypeOK, NEW s \in FxSyncs, Fetch(s), fx[s].queue # <<>>
  PROVE  LET R == Head(fx[s].queue)
         IN  /\ fx[s].step = "fetch"
             /\ UNCHANGED <<today, published, stored, table, active, fxHistory>>
             /\ \/ Answer(R) = {} /\ NextRange(s, Tail(fx[s].queue))
                \/ /\ Answer(R) # {} /\ fx' \in [FxSyncs -> FxRec] /\ Others(s)
                   /\ fx'[s].step = "persist" /\ fx'[s].pending = Answer(R)
                   /\ fx'[s].queue = fx[s].queue
<1>0. fx \in [FxSyncs -> FxRec]
  BY DEF FxTypeOK, FxRec
<1> DEFINE found == Answer(Head(fx[s].queue))
           recent == IF Len(fx[s].queue) = 1 THEN found ELSE {}
           x == [fx[s] EXCEPT !.step = "persist"]
           y == [x EXCEPT !.pending = found]
           z == [y EXCEPT !.recent = recent]
<1>1. CASE found = {}
  BY <1>1 DEF Fetch
<1>2. CASE found # {}
  <2>1. fx' = [fx EXCEPT ![s] = z]
    BY <1>0, <1>2 DEF Fetch
  <2>2. found \in SUBSET Rate /\ recent \in SUBSET Rate
    BY AnswerRates
  <2>3. fx[s].step = "fetch" /\ UNCHANGED <<today, published, stored, table, active, fxHistory>>
    BY DEF Fetch
  <2> HIDE DEF found, recent
  <2>4. x \in FxRec /\ x.queue = fx[s].queue /\ x.step = "persist"
    BY <1>0 DEF FxRec, FxSteps
  <2> HIDE DEF x
  <2>5. y \in FxRec /\ y.queue = fx[s].queue /\ y.step = "persist" /\ y.pending = found
    BY <2>2, <2>4 DEF FxRec
  <2> HIDE DEF y
  <2>6. z \in FxRec /\ z.queue = fx[s].queue /\ z.step = "persist" /\ z.pending = found
    BY <2>2, <2>5 DEF FxRec
  <2> HIDE DEF z
  <2>7. /\ fx' \in [FxSyncs -> FxRec] /\ Others(s) /\ fx'[s] = z
    BY <1>0, <2>1, <2>6 DEF Others
  <2> USE DEF found
  <2> QED BY <1>2, <2>3, <2>6, <2>7
<1> QED BY <1>1, <1>2

(* The rates of a batch are stored unless there are rates already.         *)
LEMMA InsertEffect ==
  ASSUME FxTypeOK, NEW b \in SUBSET Rate, \A p \in b : p.rate # 0
  PROVE  /\ Insert(b) \in [Days -> [Quotes -> Nat]]
         /\ \A d \in Days, q \in Quotes :
              /\ stored[d][q] # 0 => Insert(b)[d][q] = stored[d][q]
              /\ Insert(b)[d][q] # 0 <=>
                   stored[d][q] # 0 \/ \E p \in b : p.day = d /\ p.quote = q
<1> DEFINE New(d, q) == {x \in b : x.day = d /\ x.quote = q}
           Value(d, q) == IF stored[d][q] = 0 /\ New(d, q) # {}
                          THEN (CHOOSE x \in New(d, q) : TRUE).rate
                          ELSE stored[d][q]
<1>1. Insert(b) = [d \in Days |-> [q \in Quotes |-> Value(d, q)]]
  BY DEF Insert
<1>2. ASSUME NEW d \in Days, NEW q \in Quotes
      PROVE  /\ Value(d, q) \in Nat
             /\ stored[d][q] # 0 => Value(d, q) = stored[d][q]
             /\ Value(d, q) # 0 <=>
                  stored[d][q] # 0 \/ \E p \in b : p.day = d /\ p.quote = q
  <2>1. stored[d][q] \in Nat
    BY DEF FxTypeOK
  <2>2. CASE New(d, q) = {}
    BY <2>1, <2>2
  <2>3. CASE New(d, q) # {}
    <3>1. PICK x : x = CHOOSE y \in New(d, q) : TRUE
      OBVIOUS
    <3>2. x \in New(d, q)
      BY <2>3, <3>1
    <3>3. x \in b /\ x.day = d /\ x.quote = q /\ x.rate \in Nat /\ x.rate # 0
      BY <3>2 DEF Rate
    <3>4. Value(d, q) = IF stored[d][q] = 0 THEN x.rate ELSE stored[d][q]
      BY <2>3, <3>1
    <3> HIDE DEF Value, New
    <3> QED BY <2>1, <3>3, <3>4
  <2> QED BY <2>2, <2>3
<1> HIDE DEF Value
<1> QED BY <1>1, <1>2

LEMMA PersistEffect ==
  ASSUME FxTypeOK, NEW s \in FxSyncs, InHand(fx[s]), Persist(s)
  PROVE  /\ fx[s].step = "persist"
         /\ UNCHANGED <<today, published, table, active, fxHistory>>
         /\ \E b \in Batches(fx[s].pending) :
              /\ b \in SUBSET Rate /\ \A p \in b : p.rate # 0
              /\ stored' = Insert(b)
              /\ \/ b = fx[s].pending /\ NextRange(s, Tail(fx[s].queue))
                 \/ /\ b # fx[s].pending
                    /\ fx' \in [FxSyncs -> FxRec] /\ Others(s)
                    /\ fx'[s].step = "persist"
                    /\ fx'[s].pending = fx[s].pending \ b
                    /\ fx'[s].queue = fx[s].queue
<1>0. fx \in [FxSyncs -> FxRec]
  BY DEF FxTypeOK, FxRec
<1>1. PICK b \in Batches(fx[s].pending) :
        /\ stored' = Insert(b)
        /\ IF b = fx[s].pending
           THEN NextRange(s, Tail(fx[s].queue))
           ELSE fx' = [fx EXCEPT ![s].pending = fx[s].pending \ b]
  BY <1>0 DEF Persist
<1>2. /\ fx[s].step = "persist"
      /\ UNCHANGED <<today, published, table, active, fxHistory>>
  BY DEF Persist
<1>3. b \in SUBSET fx[s].pending /\ fx[s].pending \in SUBSET Rate
  BY <1>0 DEF Batches, FxRec
<1>4. b \in SUBSET Rate /\ \A p \in b : p.rate # 0
  BY <1>3 DEF InHand
<1>5. CASE b = fx[s].pending
  BY <1>1, <1>2, <1>4, <1>5
<1>6. CASE b # fx[s].pending
  <2>1. PICK rest : rest = fx[s].pending \ b
    OBVIOUS
  <2> DEFINE k == [fx[s] EXCEPT !.pending = rest]
  <2>2. fx' = [fx EXCEPT ![s] = k]
    BY <1>0, <1>1, <1>6, <2>1
  <2>3. rest \in SUBSET Rate
    BY <1>3, <2>1
  <2>4. /\ k \in FxRec /\ k.step = "persist" /\ k.pending = rest
        /\ k.queue = fx[s].queue
    BY <1>0, <1>2, <2>3 DEF FxRec
  <2> HIDE DEF k
  <2>5. fx' \in [FxSyncs -> FxRec] /\ Others(s) /\ fx'[s] = k
    BY <1>0, <2>2, <2>4 DEF Others
  <2> QED BY <1>1, <1>2, <1>4, <1>6, <2>1, <2>4, <2>5
<1> QED BY <1>5, <1>6

(* The other steps of a sync but Plan have nothing in hand.                *)
EmptyHanded(s) ==
  \/ \E back \in BOOLEAN : StartFxSync(s, back)
  \/ Aggregate(s) \/ RefreshStats(s) \/ LookForActive(s) \/ Activate(s)
  \/ StopFx(s)

LEMMA EmptyHandedEffect ==
  ASSUME FxTypeOK, NEW s \in FxSyncs, InHand(fx[s]), EmptyHanded(s)
  PROVE  /\ UNCHANGED <<today, published, stored>>
         /\ fx' \in [FxSyncs -> FxRec] /\ Others(s)
         /\ fx'[s].pending = {} /\ fx'[s].queue = <<>>
         /\ fx'[s].step \notin {"fetch", "persist"}
<1>0. fx \in [FxSyncs -> FxRec] /\ today \in Days
  BY DEF FxTypeOK, FxRec
<1>1. NoFx \in FxRec /\ NoFx.pending = {} /\ NoFx.queue = <<>>
  BY DEF NoFx, FxRec, FxSteps
<1>2. ASSUME NEW back \in BOOLEAN, StartFxSync(s, back)
      PROVE  /\ UNCHANGED <<today, published, stored>>
             /\ fx' \in [FxSyncs -> FxRec] /\ Others(s)
             /\ fx'[s].pending = {} /\ fx'[s].queue = <<>>
             /\ fx'[s].step \notin {"fetch", "persist"}
  <2> DEFINE k == [NoFx EXCEPT !.step = "plan"]
             z == [k EXCEPT !.back = back]
  <2>1. fx' = [fx EXCEPT ![s] = z]
    BY <1>0, <1>2 DEF StartFxSync
  <2>2. k \in FxRec /\ k.pending = {} /\ k.queue = <<>> /\ k.step = "plan"
    BY <1>1 DEF FxRec, FxSteps
  <2> HIDE DEF k
  <2>3. z \in FxRec /\ z.pending = {} /\ z.queue = <<>> /\ z.step = "plan"
    BY <2>2 DEF FxRec
  <2> HIDE DEF z
  <2> QED BY <1>0, <1>2, <2>1, <2>3 DEF StartFxSync, Others
<1>3. CASE Aggregate(s)
  <2>1. PICK c : c = Cardinality(Rated(stored))
    OBVIOUS
  <2>2. c \in Nat
    BY <2>1, RatedFinite
  <2> DEFINE x == [fx[s] EXCEPT !.count = c]
             y == [x EXCEPT !.recent = {}]
             z == [y EXCEPT !.step = "stats"]
  <2>3. fx' = [fx EXCEPT ![s] = z]
    BY <1>0, <1>3, <2>1 DEF Aggregate
  <2>4. fx[s].pending = {} /\ fx[s].queue = <<>>
    BY <1>3 DEF Aggregate, InHand
  <2>5. x \in FxRec /\ x.pending = {} /\ x.queue = <<>>
    BY <1>0, <2>2, <2>4 DEF FxRec
  <2> HIDE DEF x
  <2>6. y \in FxRec /\ y.pending = {} /\ y.queue = <<>>
    BY <2>5 DEF FxRec
  <2> HIDE DEF y
  <2>7. z \in FxRec /\ z.pending = {} /\ z.queue = <<>> /\ z.step = "stats"
    BY <2>6 DEF FxRec, FxSteps
  <2> HIDE DEF z
  <2> QED BY <1>0, <1>3, <2>3, <2>7 DEF Aggregate, Others
<1>4. ASSUME NEW step \in FxSteps \ {"fetch", "persist"},
             fx[s].step \notin {"fetch", "persist"},
             fx' = [fx EXCEPT ![s].step = step],
             UNCHANGED <<today, published, stored>>
      PROVE  /\ UNCHANGED <<today, published, stored>>
             /\ fx' \in [FxSyncs -> FxRec] /\ Others(s)
             /\ fx'[s].pending = {} /\ fx'[s].queue = <<>>
             /\ fx'[s].step \notin {"fetch", "persist"}
  <2> DEFINE z == [fx[s] EXCEPT !.step = step]
  <2>1. fx' = [fx EXCEPT ![s] = z]
    BY <1>0, <1>4
  <2>2. fx[s].pending = {} /\ fx[s].queue = <<>>
    BY <1>4 DEF InHand
  <2>3. z \in FxRec /\ z.pending = {} /\ z.queue = <<>> /\ z.step = step
    BY <1>0, <2>2 DEF FxRec
  <2> HIDE DEF z
  <2> QED BY <1>0, <1>4, <2>1, <2>3 DEF Others
<1>5. CASE RefreshStats(s)
  BY <1>4, <1>5 DEF RefreshStats, FxSteps
<1>6. CASE Activate(s)
  BY <1>4, <1>6 DEF Activate, FxSteps
<1>7. ASSUME NEW step \in FxSteps \ {"fetch", "persist"},
             fx' = [fx EXCEPT ![s] = [NoFx EXCEPT !.step = step]],
             UNCHANGED <<today, published, stored>>
      PROVE  /\ UNCHANGED <<today, published, stored>>
             /\ fx' \in [FxSyncs -> FxRec] /\ Others(s)
             /\ fx'[s].pending = {} /\ fx'[s].queue = <<>>
             /\ fx'[s].step \notin {"fetch", "persist"}
  <2> DEFINE z == [NoFx EXCEPT !.step = step]
  <2>1. z \in FxRec /\ z.pending = {} /\ z.queue = <<>> /\ z.step = step
    BY <1>1 DEF FxRec
  <2>2. fx' = [fx EXCEPT ![s] = z]
    BY <1>7
  <2> HIDE DEF z
  <2> QED BY <1>0, <1>7, <2>1, <2>2 DEF Others
<1>8. CASE LookForActive(s)
  <2>1. PICK step \in FxSteps \ {"fetch", "persist"} :
          step = IF active = NoTable THEN "activate" ELSE "done"
    BY DEF FxSteps
  <2> QED BY <1>7, <1>8, <2>1 DEF LookForActive
<1>9. CASE StopFx(s)
  BY <1>7, <1>9 DEF StopFx, FxSteps
<1> QED
  BY <1>2, <1>3, <1>5, <1>6, <1>8, <1>9 DEF EmptyHanded

LEMMA PlanEffect ==
  ASSUME FxTypeOK, NEW s \in FxSyncs, Plan(s)
  PROVE  /\ fx[s].step = "plan"
         /\ UNCHANGED <<today, published, stored, table, active, fxHistory>>
         /\ \E queue \in Seq(SUBSET Days) : queue # <<>> /\ NextRange(s, queue)
<1>1. 1..today \subseteq Days
  BY FxConstants DEF FxTypeOK, Days
<1> DEFINE after == After(StoredDays)
           before == {d \in 1..today : \A x \in StoredDays : d < x}
           window == {d \in 1..today : d >= today - Window}
           first == IF after # {} THEN <<after>> ELSE <<>>
           second == IF fx[s].back /\ StoredDays # {} /\ before # {}
                     THEN <<before>> ELSE <<>>
<1>2. /\ after \in SUBSET Days /\ before \in SUBSET Days
      /\ window \in SUBSET Days
  BY <1>1 DEF After
<1> HIDE DEF after, before, window
<1>3. first \in Seq(SUBSET Days) /\ second \in Seq(SUBSET Days)
  <2>1. <<>> \in Seq(SUBSET Days)
    BY EmptySeq
  <2>2. <<after>> \in Seq(SUBSET Days) /\ <<before>> \in Seq(SUBSET Days)
    BY <1>2
  <2> QED BY <2>1, <2>2
<1>4. <<window>> \in Seq(SUBSET Days) /\ Len(<<window>>) = 1
  BY <1>2
<1> DEFINE queue == first \o second \o <<window>>
<1>5. queue \in Seq(SUBSET Days) /\ queue # <<>>
  <2> HIDE DEF first, second
  <2>1. first \o second \in Seq(SUBSET Days)
    BY <1>3
  <2>2. queue \in Seq(SUBSET Days) /\ Len(queue) = Len(first \o second) + 1
    BY <1>4, <2>1
  <2>3. Len(first \o second) \in Nat
    BY <2>1
  <2> HIDE DEF queue
  <2> QED BY <2>2, <2>3, EmptySeq
<1>6. /\ fx[s].step = "plan" /\ NextRange(s, queue)
      /\ UNCHANGED <<today, published, stored, table, active, fxHistory>>
  BY DEF Plan, after, before, window
<1> HIDE DEF queue
<1> QED BY <1>5, <1>6

-----------------------------------------------------------------------------
(* Every step keeps RatesInv.                                              *)

TableTyped ==
  /\ table \in Nat
  /\ active \in Tables \union {NoTable} /\ choice \in Tables \union {NoTable}
  /\ late \subseteq Days /\ torn \subseteq Days
  /\ raced \in BOOLEAN

LEMMA TableStaysTyped ==
  ASSUME FxTypeOK, [FxNext]_fxVars
  PROVE  TableTyped'
<1>0. fx \in [FxSyncs -> FxRec] /\ TableTyped
  BY DEF FxTypeOK, FxRec, TableTyped
<1>1. ASSUME NEW s \in FxSyncs, StopFx(s)
      PROVE  TableTyped'
  <2>1. fx[s].pending \subseteq Rate
    BY <1>0 DEF FxRec
  <2>2. Torn(s) \subseteq Days
    BY <2>1 DEF Torn, Rate
  <2> QED BY <1>0, <1>1, <2>2 DEF StopFx, TableTyped
<1>2. ASSUME NEW s \in FxSyncs, RefreshStats(s)
      PROVE  TableTyped'
  <2>1. fx[s].count \in Nat
    BY <1>0 DEF FxRec
  <2> QED BY <1>0, <1>2, <2>1 DEF RefreshStats, TableTyped, fxHistory
<1>3. ASSUME NEW s \in FxSyncs, Activate(s)
      PROVE  TableTyped'
  BY <1>0, <1>3 DEF Activate, TableTyped, fxHistory, Tables
<1>4. ASSUME NEW s \in FxSyncs,
             UNCHANGED <<table, active, fxHistory>>
      PROVE  TableTyped'
  BY <1>0, <1>4 DEF TableTyped, fxHistory
<1>5. ASSUME NEW s \in FxSyncs,
             \/ Plan(s) \/ Fetch(s) \/ Persist(s) \/ Aggregate(s)
             \/ LookForActive(s) \/ \E back \in BOOLEAN : StartFxSync(s, back)
      PROVE  UNCHANGED <<table, active, fxHistory>>
  BY <1>5 DEF Plan, Fetch, Persist, Aggregate, LookForActive, StartFxSync
<1>6. CASE SetActive
  BY <1>0, <1>6 DEF SetActive, TableTyped
<1>7. CASE UNCHANGED fxVars \/ NextDay
  BY <1>0, <1>7 DEF fxVars, NextDay, TableTyped, fxHistory
<1>8. ASSUME NEW d \in Days, Publish(d) \/ \E q \in Quotes : Correct(d, q)
      PROVE  TableTyped'
  BY <1>0, <1>8 DEF Publish, Correct, TableTyped, fxHistory
<1> QED
  BY <1>1, <1>2, <1>3, <1>4, <1>5, <1>6, <1>7, <1>8 DEF FxNext, FxStep

(* A day that was shown gets no further currency.                          *)
NoneAdded ==
  \A d \in Days, q \in Quotes :
    Shown(d) /\ published'[d][q] # 0 => published[d][q] # 0

(* What a sync has in hand stays so while more is published and stored.    *)
LEMMA InHandStays ==
  ASSUME NEW k \in FxRec, InHand(k), NoneAdded,
         Grows(published, published'), Grows(stored, stored')
  PROVE  InHand(k)'
<1>1. \A y \in k.pending : y.day \in Days /\ y.quote \in Quotes
  BY DEF FxRec, Rate
<1>2. \A y \in k.pending : Shown(y.day)
  BY <1>1 DEF InHand, Shown
<1>3. \A y \in k.pending, q \in Quotes :
        published'[y.day][q] # 0 =>
          stored'[y.day][q] # 0 \/ Carries(k, y.day, q)
  BY <1>1, <1>2 DEF InHand, NoneAdded, Grows
<1> QED BY <1>1, <1>3 DEF InHand, Carries, Grows

LEMMA SyncKeepsRates ==
  ASSUME RatesInv, NEW s \in FxSyncs,
         UNCHANGED <<today, published>>, Grows(stored, stored'),
         \A d \in Days, q \in Quotes : stored'[d][q] # 0 => published[d][q] # 0,
         fx' \in [FxSyncs -> FxRec], Others(s), InHand(fx[s])', TableTyped'
  PROVE  RatesInv'
<1>1. Grows(published, published') /\ NoneAdded
  BY DEF RatesInv, FxTypeOK, Grows, NoneAdded
<1>2. ASSUME NEW r \in FxSyncs \ {s}
      PROVE  InHand(fx[r])'
  <2>1. PICK k \in FxRec : k = fx[r]
    BY DEF RatesInv, FxTypeOK, FxRec
  <2>2. InHand(k)'
    BY <1>1, <2>1, InHandStays DEF RatesInv
  <2>3. fx'[r] = k
    BY <2>1 DEF Others
  <2> QED BY <2>2, <2>3
<1>3. FxTypeOK'
  BY DEF RatesInv, FxTypeOK, FxRec, Grows, TableTyped
<1>4. \A r \in FxSyncs : InHand(fx[r])'
  BY <1>2
<1> QED BY <1>3, <1>4 DEF RatesInv, Shown

LEMMA WorldKeepsRates ==
  ASSUME RatesInv, UNCHANGED <<stored, fx>>, Grows(published, published'),
         NoneAdded, \A d \in Days : Shown(d)' => d <= today',
         today' \in Days, TableTyped'
  PROVE  RatesInv'
<1>1. Grows(stored, stored')
  BY DEF RatesInv, FxTypeOK, Grows
<1>2. ASSUME NEW r \in FxSyncs
      PROVE  InHand(fx[r])'
  <2>1. PICK k \in FxRec : k = fx[r]
    BY DEF RatesInv, FxTypeOK, FxRec
  <2>2. InHand(k)'
    BY <1>1, <2>1, InHandStays DEF RatesInv
  <2> QED BY <2>1, <2>2
<1>3. FxTypeOK'
  BY DEF RatesInv, FxTypeOK, Grows, TableTyped
<1> QED BY <1>2, <1>3 DEF RatesInv, Grows

LEMMA FixingsGrow ==
  ASSUME RatesInv, NEW d \in Days, Publish(d)
  PROVE  /\ UNCHANGED <<stored, fx, today>> /\ d <= today /\ ~Shown(d)
         /\ Grows(published, published')
         /\ \A x \in Days : x # d => published'[x] = published[x]
         /\ NoneAdded
<1>1. published' = [published EXCEPT ![d] = Fixings[d]]
  BY DEF Publish
<1>2. published \in [Days -> [Quotes -> Nat]]
  BY DEF RatesInv, FxTypeOK
<1>3. Fixings[d] \in [Quotes -> Nat]
  BY FxConstants
<1>4. published' \in [Days -> [Quotes -> Nat]]
  BY <1>1, <1>2, <1>3
<1>5. \A x \in Days : x # d => published'[x] = published[x]
  BY <1>1, <1>2
<1>6. ~Shown(d)
  BY DEF Publish
<1>7. \A q \in Quotes : published[d][q] = 0
  BY <1>6 DEF Shown
<1>8. Grows(published, published')
  BY <1>4, <1>5, <1>7 DEF Grows
<1>9. NoneAdded
  BY <1>5, <1>6 DEF NoneAdded
<1> QED BY <1>5, <1>6, <1>8, <1>9 DEF Publish

LEMMA CorrectionGrows ==
  ASSUME RatesInv, NEW d \in Days, NEW q \in Quotes, Correct(d, q)
  PROVE  /\ UNCHANGED <<stored, fx, today, late, torn>>
         /\ Grows(published, published')
         /\ \A x \in Days, r \in Quotes :
              published'[x][r] # 0 <=> published[x][r] # 0
<1>1. published' = [published EXCEPT ![d][q] = published[d][q] + 1]
  BY DEF Correct
<1>2. published \in [Days -> [Quotes -> Nat]]
  BY DEF RatesInv, FxTypeOK
<1>3. published[d][q] \in Nat \ {0}
  BY <1>2 DEF Correct
<1>4. published' \in [Days -> [Quotes -> Nat]]
  BY <1>1, <1>2, <1>3
<1>5. \A x \in Days, r \in Quotes :
        published'[x][r] # 0 <=> published[x][r] # 0
  BY <1>1, <1>2, <1>3
<1> QED BY <1>4, <1>5 DEF Grows, Correct, fxHistory

LEMMA FxInitRates == FxInit => RatesInv
<1> SUFFICES ASSUME FxInit PROVE RatesInv
  OBVIOUS
<1>1. /\ \A d \in Days, q \in Quotes : published[d][q] = 0 /\ stored[d][q] = 0
      /\ published \in [Days -> [Quotes -> Nat]]
      /\ stored \in [Days -> [Quotes -> Nat]]
  BY DEF FxInit, NoRates
<1>2. 1 \in Days
  BY FxConstants DEF Days
<1>3. NoFx \in FxRec
  BY EmptySeq DEF NoFx, FxRec, FxSteps
<1>4. FxTypeOK
  BY <1>1, <1>2, <1>3 DEF FxInit, FxTypeOK, FxRec, Tables
<1> QED
  BY <1>1, <1>4 DEF FxInit, RatesInv, Shown, InHand, NoFx

LEMMA RatesStay ==
  ASSUME RatesInv, [FxNext]_fxVars
  PROVE  RatesInv'
<1>0. /\ TableTyped' /\ FxTypeOK /\ fx \in [FxSyncs -> FxRec]
      /\ today \in Days /\ \A s \in FxSyncs : InHand(fx[s])
  BY TableStaysTyped DEF RatesInv, FxTypeOK, FxRec
<1>1. Grows(stored, stored) /\ Grows(published, published)
  BY DEF RatesInv, FxTypeOK, Grows
<1>2. ASSUME NEW s \in FxSyncs, EmptyHanded(s)
      PROVE  RatesInv'
  <2>1. /\ UNCHANGED <<today, published, stored>>
        /\ fx' \in [FxSyncs -> FxRec] /\ Others(s)
        /\ fx'[s].pending = {} /\ fx'[s].queue = <<>>
        /\ fx'[s].step \notin {"fetch", "persist"}
    BY <1>0, <1>2, EmptyHandedEffect
  <2>2. InHand(fx[s])'
    BY <2>1 DEF InHand
  <2> QED BY <1>0, <1>1, <2>1, <2>2, SyncKeepsRates DEF RatesInv
<1>3. ASSUME NEW s \in FxSyncs, NEW queue \in Seq(SUBSET Days),
             NextRange(s, queue), UNCHANGED <<today, published>>,
             Grows(stored, stored'),
             \A d \in Days, q \in Quotes : stored'[d][q] # 0 => published[d][q] # 0
      PROVE  RatesInv'
  <2>1. /\ fx' \in [FxSyncs -> FxRec] /\ Others(s)
        /\ fx'[s].queue = queue /\ fx'[s].pending = {}
        /\ fx'[s].step = IF queue = <<>> THEN "aggregate" ELSE "fetch"
    BY <1>0, <1>3, RangeEffect
  <2>2. InHand(fx[s])'
    BY <2>1 DEF InHand
  <2> QED BY <1>0, <1>3, <2>1, <2>2, SyncKeepsRates
<1>4. ASSUME NEW s \in FxSyncs, Plan(s)
      PROVE  RatesInv'
  BY <1>0, <1>1, <1>3, <1>4, PlanEffect DEF RatesInv
<1>5. ASSUME NEW s \in FxSyncs, fx[s].step \in {"fetch", "persist"}
      PROVE  /\ fx[s].queue # <<>> /\ fx[s].queue \in Seq(SUBSET Days)
             /\ Tail(fx[s].queue) \in Seq(SUBSET Days)
             /\ Head(fx[s].queue) \in SUBSET Days
  <2>1. fx[s].queue # <<>> /\ fx[s].queue \in Seq(SUBSET Days)
    BY <1>0, <1>5 DEF InHand, FxRec
  <2> QED BY <2>1
<1>6. ASSUME NEW s \in FxSyncs, Fetch(s)
      PROVE  RatesInv'
  <2>1. fx[s].step = "fetch"
    BY <1>6 DEF Fetch
  <2> DEFINE R == Head(fx[s].queue)
  <2>2. /\ UNCHANGED <<today, published, stored, table, active, fxHistory>>
        /\ \/ Answer(R) = {} /\ NextRange(s, Tail(fx[s].queue))
           \/ /\ Answer(R) # {} /\ fx' \in [FxSyncs -> FxRec] /\ Others(s)
              /\ fx'[s].step = "persist" /\ fx'[s].pending = Answer(R)
              /\ fx'[s].queue = fx[s].queue
    BY <1>0, <1>5, <1>6, <2>1, FetchEffect
  <2>3. CASE Answer(R) = {} /\ NextRange(s, Tail(fx[s].queue))
    BY <1>1, <1>3, <1>5, <2>1, <2>2, <2>3 DEF RatesInv
  <2>4. CASE /\ Answer(R) # {} /\ fx' \in [FxSyncs -> FxRec] /\ Others(s)
             /\ fx'[s].step = "persist" /\ fx'[s].pending = Answer(R)
             /\ fx'[s].queue = fx[s].queue
    <3>1. ASSUME NEW p \in Answer(R), NEW q \in Quotes, published[p.day][q] # 0
          PROVE  /\ p.rate # 0 /\ published[p.day][p.quote] # 0
                 /\ \E y \in Answer(R) : y.day = p.day /\ y.quote = q
      <4>1. /\ p \in Rate /\ p.day \in R /\ p.rate # 0
            /\ published[p.day][p.quote] # 0
        BY <1>0, AnswerRates
      <4>2. p.day \in Days /\ p.quote \in Quotes
        BY <4>1 DEF Rate
      <4>3. \E y \in Answer(R) : y.day = p.day /\ y.quote = q
        BY <1>0, <3>1, <4>1, <4>2, AnswerRates
      <4> QED BY <4>1, <4>3
    <3>2. \A p \in Answer(R) : p.rate # 0 /\ published[p.day][p.quote] # 0
      <4>1. \A p \in Answer(R) : p.rate # 0 /\ published[p.day][p.quote] # 0
        BY <1>0, AnswerRates
      <4> QED BY <4>1
    <3>3. InHand(fx[s])'
      BY <1>5, <2>1, <2>2, <2>4, <3>1, <3>2 DEF InHand, Carries
    <3> QED BY <1>0, <1>1, <2>2, <2>4, <3>3, SyncKeepsRates DEF RatesInv
  <2> QED BY <2>2, <2>3, <2>4
<1>7. ASSUME NEW s \in FxSyncs, Persist(s)
      PROVE  RatesInv'
  <2>1. /\ fx[s].step = "persist"
        /\ UNCHANGED <<today, published, table, active, fxHistory>>
    BY <1>0, <1>7, PersistEffect
  <2>2. PICK b \in Batches(fx[s].pending) :
              /\ b \in SUBSET Rate /\ \A p \in b : p.rate # 0
              /\ stored' = Insert(b)
              /\ \/ b = fx[s].pending /\ NextRange(s, Tail(fx[s].queue))
                 \/ /\ b # fx[s].pending
                    /\ fx' \in [FxSyncs -> FxRec] /\ Others(s)
                    /\ fx'[s].step = "persist"
                    /\ fx'[s].pending = fx[s].pending \ b
                    /\ fx'[s].queue = fx[s].queue
    BY <1>0, <1>7, PersistEffect
  <2>3. /\ stored' \in [Days -> [Quotes -> Nat]]
        /\ \A d \in Days, q \in Quotes :
             stored'[d][q] # 0 <=>
               stored[d][q] # 0 \/ \E p \in b : p.day = d /\ p.quote = q
    BY <1>0, <2>2, InsertEffect
  <2>4. b \subseteq fx[s].pending
    BY DEF Batches
  <2>5. /\ Grows(stored, stored')
        /\ \A d \in Days, q \in Quotes :
             stored'[d][q] # 0 => published[d][q] # 0
    <3>1. \A p \in b : published[p.day][p.quote] # 0
      BY <1>0, <2>4 DEF InHand
    <3>2. Grows(stored, stored')
      BY <2>3 DEF Grows
    <3> QED BY <2>3, <3>1, <3>2 DEF RatesInv
  <2>6. CASE b = fx[s].pending /\ NextRange(s, Tail(fx[s].queue))
    BY <1>3, <1>5, <2>1, <2>5, <2>6
  <2>7. CASE /\ b # fx[s].pending
             /\ fx' \in [FxSyncs -> FxRec] /\ Others(s)
             /\ fx'[s].step = "persist"
             /\ fx'[s].pending = fx[s].pending \ b
             /\ fx'[s].queue = fx[s].queue
    <3>1. ASSUME NEW p \in fx'[s].pending, NEW q \in Quotes,
                 published[p.day][q] # 0
          PROVE  stored'[p.day][q] # 0 \/ Carries(fx'[s], p.day, q)
      <4>1. p \in fx[s].pending /\ p \in Rate
        BY <1>0, <2>7 DEF FxRec
      <4>2. p.day \in Days
        BY <4>1 DEF Rate
      <4>3. stored[p.day][q] # 0 \/ Carries(fx[s], p.day, q)
        BY <1>0, <3>1, <4>1 DEF InHand
      <4>4. CASE stored[p.day][q] # 0
        BY <2>3, <4>2, <4>4
      <4>5. CASE Carries(fx[s], p.day, q)
        <5>1. PICK y \in fx[s].pending : y.day = p.day /\ y.quote = q
          BY <4>5 DEF Carries
        <5>2. CASE y \in b
          BY <2>3, <4>2, <5>1, <5>2
        <5>3. CASE y \notin b
          BY <2>7, <5>1, <5>3 DEF Carries
        <5> QED BY <5>2, <5>3
      <4> QED BY <4>3, <4>4, <4>5
    <3>2. \A p \in fx'[s].pending : p.rate # 0 /\ published[p.day][p.quote] # 0
      BY <1>0, <2>7 DEF InHand
    <3>3. fx'[s].pending # {}
      BY <2>4, <2>7
    <3>4. InHand(fx[s])'
      BY <1>5, <2>1, <2>7, <3>1, <3>2, <3>3 DEF InHand, Carries
    <3> QED BY <1>0, <2>1, <2>5, <2>7, <3>4, SyncKeepsRates
  <2> QED BY <2>2, <2>6, <2>7
<1>8. ASSUME NEW d \in Days, Publish(d) PROVE RatesInv'
  <2>1. /\ UNCHANGED <<stored, fx, today>> /\ d <= today /\ ~Shown(d)
        /\ Grows(published, published')
        /\ \A x \in Days : x # d => published'[x] = published[x]
        /\ NoneAdded
    BY <1>8, FixingsGrow
  <2>2. \A x \in Days : Shown(x)' => x <= today'
    BY <2>1 DEF RatesInv, Shown
  <2> QED BY <1>0, <2>1, <2>2, WorldKeepsRates
<1>9. ASSUME NEW d \in Days, NEW q \in Quotes, Correct(d, q) PROVE RatesInv'
  <2>1. /\ UNCHANGED <<stored, fx, today>>
        /\ Grows(published, published')
        /\ \A x \in Days, r \in Quotes :
             published'[x][r] # 0 <=> published[x][r] # 0
    BY <1>9, CorrectionGrows
  <2>2. NoneAdded /\ \A x \in Days : Shown(x)' => x <= today'
    BY <2>1 DEF RatesInv, Shown, NoneAdded
  <2> QED BY <1>0, <2>1, <2>2, WorldKeepsRates
<1>10. CASE NextDay
  <2>1. today' \in Days /\ today <= today'
    BY <1>0, <1>10, FxConstants DEF NextDay, Days
  <2>2. NoneAdded /\ \A x \in Days : Shown(x)' => x <= today'
    BY <1>0, <1>10, <2>1, FxConstants DEF NextDay, RatesInv, Shown, NoneAdded
  <2> QED BY <1>0, <1>1, <1>10, <2>1, <2>2, WorldKeepsRates DEF NextDay
<1>11. CASE SetActive \/ UNCHANGED fxVars
  <2>1. UNCHANGED <<today, published, stored, fx>>
    BY <1>11 DEF SetActive, fxVars
  <2>2. NoneAdded /\ \A x \in Days : Shown(x)' => x <= today'
    BY <2>1 DEF RatesInv, Shown, NoneAdded
  <2> QED BY <1>0, <1>1, <2>1, <2>2, WorldKeepsRates
<1> QED
  BY <1>2, <1>4, <1>6, <1>7, <1>8, <1>9, <1>10, <1>11
  DEF FxNext, FxStep, EmptyHanded

-----------------------------------------------------------------------------
(* The row of the table.  What a sync counted does not exceed what is      *)
(* stored, and no sync is about to activate the table once an              *)
(* administrator has chosen, unless the choice came in between.            *)

TableInv ==
  /\ \A s \in FxSyncs :
       fx[s].step = "stats" => fx[s].count <= Cardinality(Rated(stored))
  /\ table <= Cardinality(Rated(stored))
  /\ choice # NoTable =>
       /\ active # NoTable
       /\ ~raced => active = choice /\ \A s \in FxSyncs : fx[s].step # "activate"

LEMMA WhereTo ==
  ASSUME RatesInv, NEW s \in FxSyncs,
         FxStep(s) \/ \E back \in BOOLEAN : StartFxSync(s, back)
  PROVE  /\ Others(s)
         /\ fx'[s].step = "stats" => fx'[s].count = Cardinality(Rated(stored))
         /\ fx'[s].step = "activate" => LookForActive(s) /\ active = NoTable
<1>0. FxTypeOK /\ InHand(fx[s]) /\ fx \in [FxSyncs -> FxRec]
  BY DEF RatesInv, FxTypeOK, FxRec
<1>1. ASSUME NEW queue \in Seq(SUBSET Days), NextRange(s, queue)
      PROVE  Others(s) /\ fx'[s].step \notin {"stats", "activate"}
  BY <1>0, <1>1, RangeEffect
<1>2. CASE Plan(s)
  BY <1>0, <1>1, <1>2, PlanEffect
<1>3. fx[s].step \in {"fetch", "persist"} =>
        fx[s].queue # <<>> /\ Tail(fx[s].queue) \in Seq(SUBSET Days)
  BY <1>0 DEF InHand, FxRec
<1>4. CASE Fetch(s)
  <2>1. fx[s].step = "fetch"
    BY <1>4 DEF Fetch
  <2>2. \/ NextRange(s, Tail(fx[s].queue))
        \/ Others(s) /\ fx'[s].step = "persist"
    BY <1>0, <1>3, <1>4, <2>1, FetchEffect
  <2> QED BY <1>1, <1>3, <2>1, <2>2
<1>5. CASE Persist(s)
  <2>1. /\ fx[s].step = "persist"
        /\ \/ NextRange(s, Tail(fx[s].queue))
           \/ Others(s) /\ fx'[s].step = "persist"
    BY <1>0, <1>5, PersistEffect
  <2> QED BY <1>1, <1>3, <2>1
<1>6. CASE Aggregate(s)
  <2>1. PICK c : c = Cardinality(Rated(stored))
    OBVIOUS
  <2> DEFINE x == [fx[s] EXCEPT !.count = c]
             y == [x EXCEPT !.recent = {}]
             z == [y EXCEPT !.step = "stats"]
  <2>2. fx' = [fx EXCEPT ![s] = z]
    BY <1>0, <1>6, <2>1 DEF Aggregate
  <2>3. c \in Nat
    BY <2>1, RatedFinite
  <2>4. x \in FxRec /\ x.count = c
    BY <1>0, <2>3 DEF FxRec
  <2> HIDE DEF x
  <2>5. y \in FxRec /\ y.count = c
    BY <2>4 DEF FxRec
  <2> HIDE DEF y
  <2>6. z.step = "stats" /\ z.count = c
    BY <2>5 DEF FxRec
  <2> HIDE DEF z
  <2> QED BY <1>0, <2>1, <2>2, <2>6 DEF Others
<1>7. CASE LookForActive(s)
  <2>1. fx' = [fx EXCEPT ![s] = [NoFx EXCEPT !.step =
          IF active = NoTable THEN "activate" ELSE "done"]]
    BY <1>7 DEF LookForActive
  <2>2. fx'[s].step = IF active = NoTable THEN "activate" ELSE "done"
    BY <1>0, <2>1 DEF NoFx
  <2> QED BY <1>0, <1>7, <2>1, <2>2 DEF Others
<1>8. CASE \/ RefreshStats(s) \/ Activate(s) \/ StopFx(s)
           \/ \E back \in BOOLEAN : StartFxSync(s, back)
  <2>1. Others(s)
    BY <1>0, <1>8 DEF RefreshStats, Activate, StopFx, StartFxSync, Others
  <2>2. fx'[s].step \in {"look", "done", "stopped", "plan"}
    BY <1>0, <1>8 DEF RefreshStats, Activate, StopFx, StartFxSync, NoFx, FxRec
  <2> QED BY <2>1, <2>2
<1> QED BY <1>2, <1>4, <1>5, <1>6, <1>7, <1>8 DEF FxStep

LEMMA StoredGrows ==
  ASSUME RatesInv, [FxNext]_fxVars
  PROVE  /\ Grows(stored, stored')
         /\ \A d \in Days, q \in Quotes :
              stored[d][q] # 0 => stored'[d][q] = stored[d][q]
<1>0. FxTypeOK /\ \A s \in FxSyncs : InHand(fx[s])
  BY DEF RatesInv
<1>1. CASE UNCHANGED stored
  BY <1>0, <1>1 DEF FxTypeOK, Grows
<1>2. ASSUME NEW s \in FxSyncs, Persist(s)
      PROVE  /\ Grows(stored, stored')
             /\ \A d \in Days, q \in Quotes :
                  stored[d][q] # 0 => stored'[d][q] = stored[d][q]
  <2>1. PICK b \in SUBSET Rate :
          (\A p \in b : p.rate # 0) /\ stored' = Insert(b)
    BY <1>0, <1>2, PersistEffect
  <2>2. /\ stored' \in [Days -> [Quotes -> Nat]]
        /\ \A d \in Days, q \in Quotes :
             stored[d][q] # 0 => stored'[d][q] = stored[d][q]
    BY <1>0, <2>1, InsertEffect
  <2> QED BY <2>2 DEF Grows
<1>3. UNCHANGED stored \/ \E s \in FxSyncs : Persist(s)
  BY DEF FxNext, FxStep, fxVars, NextDay, SetActive, Publish, Correct, Plan,
         Fetch, Aggregate, RefreshStats, LookForActive, Activate, StopFx,
         StartFxSync
<1> QED BY <1>1, <1>2, <1>3

LEMMA TableInvStays ==
  ASSUME RatesInv, TableInv, [FxNext]_fxVars
  PROVE  TableInv'
<1>0. /\ Cardinality(Rated(stored)) \in Nat /\ Cardinality(Rated(stored')) \in Nat
      /\ Cardinality(Rated(stored)) <= Cardinality(Rated(stored'))
  BY RatedFinite, StoredGrows, MoreRated
<1>1. fx \in [FxSyncs -> FxRec] /\ table \in Nat
  BY DEF RatesInv, FxTypeOK, FxRec
<1>2. RatesInv'
  BY RatesStay
<1>3. fx' \in [FxSyncs -> FxRec] /\ table' \in Nat
  BY <1>2 DEF RatesInv, FxTypeOK, FxRec
<1>4. ASSUME NEW s \in FxSyncs,
             FxStep(s) \/ \E back \in BOOLEAN : StartFxSync(s, back)
      PROVE  TableInv'
  <2>1. /\ Others(s)
        /\ fx'[s].step = "stats" => fx'[s].count = Cardinality(Rated(stored))
        /\ fx'[s].step = "activate" => LookForActive(s) /\ active = NoTable
    BY <1>4, WhereTo
  <2>2. ASSUME NEW r \in FxSyncs, fx'[r].step = "stats"
        PROVE  fx'[r].count <= Cardinality(Rated(stored'))
    <3>1. fx'[r].count \in Nat
      BY <1>3 DEF FxRec
    <3>2. CASE r = s
      BY <1>0, <2>1, <2>2, <3>1, <3>2
    <3>3. CASE r # s
      <4>1. fx'[r] = fx[r]
        BY <2>1, <3>3 DEF Others
      <4>2. fx'[r].count <= Cardinality(Rated(stored))
        BY <2>2, <4>1 DEF TableInv
      <4> QED BY <1>0, <3>1, <4>2
    <3> QED BY <3>2, <3>3
  <2>3. table' <= Cardinality(Rated(stored'))
    <3>1. CASE RefreshStats(s)
      <4>1. fx[s].step = "stats" /\ table' = fx[s].count
        BY <3>1 DEF RefreshStats
      <4>2. fx[s].count <= Cardinality(Rated(stored))
        BY <4>1 DEF TableInv
      <4> QED BY <1>0, <1>3, <4>1, <4>2
    <3>2. CASE ~RefreshStats(s)
      <4>1. table' = table
        BY <1>4, <3>2 DEF FxStep, StartFxSync, Plan, Fetch, Persist, Aggregate,
           LookForActive, Activate, StopFx
      <4> QED BY <1>0, <1>1, <4>1 DEF TableInv
    <3> QED BY <3>1, <3>2
  <2>4. choice' = choice /\ raced' = raced
    BY <1>4 DEF FxStep, StartFxSync, Plan, Fetch, Persist, Aggregate,
       RefreshStats, LookForActive, Activate, StopFx, fxHistory
  <2>5. active' = active \/ (Activate(s) /\ active' = "this")
    <3>1. CASE Activate(s)
      BY <3>1 DEF Activate
    <3>2. CASE ~Activate(s)
      <4>1. active' = active
        BY <1>4, <3>2 DEF FxStep, StartFxSync, Plan, Fetch, Persist, Aggregate,
           RefreshStats, LookForActive, StopFx
      <4> QED BY <4>1
    <3> QED BY <3>1, <3>2
  <2>6. "this" # NoTable
    BY FxAssumption DEF Tables
  <2>7. ASSUME choice' # NoTable
        PROVE  /\ active' # NoTable
               /\ ~raced' => /\ active' = choice'
                             /\ \A r \in FxSyncs : fx'[r].step # "activate"
    <3>1. active # NoTable
      BY <2>4, <2>7 DEF TableInv
    <3>2. active' # NoTable
      BY <2>5, <2>6, <3>1
    <3>3. ASSUME ~raced
          PROVE  /\ active' = choice'
                 /\ \A r \in FxSyncs : fx'[r].step # "activate"
      <4>1. active = choice /\ \A r \in FxSyncs : fx[r].step # "activate"
        BY <2>4, <2>7, <3>3 DEF TableInv
      <4>2. ~Activate(s)
        BY <4>1 DEF Activate
      <4>3. ASSUME NEW r \in FxSyncs PROVE fx'[r].step # "activate"
        BY <2>1, <3>1, <4>1 DEF Others
      <4> QED BY <2>4, <2>5, <4>1, <4>2, <4>3
    <3> QED BY <2>4, <3>2, <3>3
  <2> QED BY <2>2, <2>3, <2>7 DEF TableInv
<1>5. CASE SetActive
  <2>1. PICK t \in Tables : active' = t /\ choice' = t
    BY <1>5 DEF SetActive
  <2>2. /\ UNCHANGED <<stored, table, fx>>
        /\ raced' = \E s \in FxSyncs : fx[s].step = "activate"
    BY <1>5 DEF SetActive
  <2>3. t # NoTable
    BY FxAssumption
  <2> QED BY <2>1, <2>2, <2>3 DEF TableInv
<1>6. CASE \/ NextDay \/ UNCHANGED fxVars
           \/ \E d \in Days : Publish(d) \/ \E q \in Quotes : Correct(d, q)
  <2>1. UNCHANGED <<stored, table, fx, active, choice, raced>>
    BY <1>6 DEF NextDay, fxVars, Publish, Correct, fxHistory
  <2> QED BY <2>1 DEF TableInv
<1> QED BY <1>4, <1>5, <1>6 DEF FxNext

(* The row never counts more rates than are stored, and a sync never takes *)
(* back the choice of an administrator that it could have seen.            *)
THEOREM TableStaysTruthful == FxSpec => []TableIsTruthful
<1>1. FxInit => RatesInv /\ TableInv
  <2> SUFFICES ASSUME FxInit PROVE TableInv
    BY FxInitRates
  <2>1. Cardinality(Rated(stored)) \in Nat
    BY RatedFinite
  <2> QED BY <2>1 DEF FxInit, TableInv, NoFx
<1>2. RatesInv /\ TableInv /\ [FxNext]_fxVars => RatesInv' /\ TableInv'
  BY RatesStay, TableInvStays
<1>3. TableInv => TableIsTruthful
  BY DEF TableInv, TableIsTruthful
<1> QED BY <1>1, <1>2, <1>3, PTL DEF FxSpec

-----------------------------------------------------------------------------
(* What was converted at the rates of the very day.                        *)

LEMMA LatestIn ==
  ASSUME NEW S \in SUBSET Days, S # {}
  PROVE  Latest(S) \in S /\ \A x \in S : x <= Latest(S)
<1> DEFINE Left == {LastDay - x : x \in S}
<1>1. LastDay \in Nat /\ \A x \in S : x \in Nat /\ x <= LastDay
  BY FxConstants DEF Days
<1>2. Left \subseteq Nat /\ Left # {}
  BY <1>1
<1>3. PICK x \in Left : \A y \in Left : ~(<<y, x>> \in OpToRel(<, Nat))
  BY <1>2, NatLessThanWellFounded, WFMin
<1>4. \A y \in Left : x <= y
  <2> TAKE y \in Left
  <2>1. <<y, x>> \in Nat \X Nat /\ <<y, x>>[1] = y /\ <<y, x>>[2] = x
    BY <1>2
  <2>2. ~(y < x)
    BY <1>3, <2>1, Zenon DEF OpToRel
  <2> QED BY <1>2, <2>2
<1>5. PICK d \in S : x = LastDay - d
  BY <1>3
<1>6. \A y \in S : y <= d
  <2> TAKE y \in S
  <2>1. x <= LastDay - y
    BY <1>4
  <2> QED BY <1>1, <1>5, <2>1
<1> QED BY <1>5, <1>6 DEF Latest

LEMMA RateOfTheDay ==
  ASSUME NEW rates, rates = stored, NEW c \in Currencies, NEW d \in Days
  PROVE  LET r == RateOnOrBefore(c, d)
         IN  /\ r.day \in 0..d
             /\ r.day = d <=> c = Base \/ stored[d][c] # 0
             /\ c # Base /\ stored[d][c] # 0 => r = [day |-> d, rate |-> stored[d][c]]
<1> DEFINE before == {x \in 1..d : stored[x][c] # 0}
<1>1. d \in Nat \ {0} /\ before \in SUBSET Days
  BY FxConstants DEF Days
<1>2. CASE c = Base
  BY <1>1, <1>2 DEF RateOnOrBefore
<1>3. CASE c # Base /\ before = {}
  <2>1. RateOnOrBefore(c, d) = [day |-> 0, rate |-> 0]
    BY <1>3 DEF RateOnOrBefore
  <2>2. stored[d][c] = 0
    BY <1>1, <1>3
  <2> QED BY <1>1, <1>3, <2>1, <2>2
<1>4. CASE c # Base /\ before # {}
  <2>1. PICK l : l = Latest(before)
    OBVIOUS
  <2>2. l \in before /\ \A x \in before : x <= l
    BY <1>1, <1>4, <2>1, LatestIn
  <2>3. RateOnOrBefore(c, d) = [day |-> l, rate |-> stored[l][c]]
    BY <1>4, <2>1 DEF RateOnOrBefore
  <2>4. l \in 1..d /\ stored[l][c] # 0
    BY <2>2
  <2>5. stored[d][c] # 0 => l = d
    BY <1>1, <2>2, <2>4
  <2> QED BY <1>1, <1>4, <2>3, <2>4, <2>5
<1> QED BY <1>2, <1>3, <1>4

LEMMA RateStays ==
  ASSUME FxTypeOK, FxTypeOK', NEW d \in Days, NEW c \in Currencies,
         \A q \in Quotes : stored[d][q] # 0 => stored'[d][q] = stored[d][q],
         RateOnOrBefore(c, d).day = d
  PROVE  RateOnOrBefore(c, d)' = RateOnOrBefore(c, d)
<1>1. CASE c = Base
  BY <1>1 DEF RateOnOrBefore
<1>2. CASE c # Base
  <2>1. c \in Quotes
    BY <1>2 DEF Currencies
  <2>2. stored[d][c] # 0
    BY <1>2, RateOfTheDay
  <2>3. RateOnOrBefore(c, d) = [day |-> d, rate |-> stored[d][c]]
    BY <1>2, <2>2, RateOfTheDay
  <2>4. stored'[d][c] # 0 /\ stored'[d][c] = stored[d][c]
    BY <2>1, <2>2
  <2>5. RateOnOrBefore(c, d)' = [day |-> d, rate |-> stored'[d][c]]
    <3>1. \A x \in 1..d : x <= d
      BY FxConstants
    <3> DEFINE later == {x \in 1..d : stored'[x][c] # 0}
    <3>2. d \in later /\ \A x \in later : x <= d
      BY <2>4, <3>1, FxConstants DEF Days
    <3>3. Latest(later) = d
      <4>1. \A l \in later : (\A x \in later : x <= l) => l = d
        BY <3>2, FxConstants DEF Days
      <4> HIDE DEF later
      <4> QED BY <3>2, <4>1 DEF Latest
    <3> QED BY <1>2, <3>2, <3>3 DEF RateOnOrBefore
  <2> QED BY <2>3, <2>4, <2>5
<1> QED BY <1>1, <1>2

LEMMA ReportStays ==
  ASSUME RatesInv, [FxNext]_fxVars, NEW d \in Days,
         NEW f \in Currencies, NEW t \in Currencies, f # t,
         ConvertOne(7, f, t, d).converted, ConvertOne(7, f, t, d).day = d
  PROVE  ConvertOne(7, f, t, d)' = ConvertOne(7, f, t, d)
<1>1. PICK a, b : a = RateOnOrBefore(f, d) /\ b = RateOnOrBefore(t, d)
  OBVIOUS
<1>2. d \in Nat \ {0} /\ a.day \in 0..d /\ b.day \in 0..d
  BY <1>1, FxConstants, RateOfTheDay
<1>3. ConvertOne(7, f, t, d) =
        IF a.day = 0 \/ b.day = 0
        THEN [amount |-> 7, day |-> 0, converted |-> FALSE]
        ELSE [amount |-> Convert(7, a.rate, b.rate),
              day |-> Smaller(a.day, b.day), converted |-> TRUE]
  BY <1>1 DEF ConvertOne
<1>4. a.day # 0 /\ b.day # 0 /\ Smaller(a.day, b.day) = d
  BY <1>3
<1>5. a.day = d /\ b.day = d
  BY <1>2, <1>4 DEF Smaller
<1>6. /\ RateOnOrBefore(f, d)' = a /\ RateOnOrBefore(t, d)' = b
  <2>1. FxTypeOK /\ FxTypeOK'
    BY RatesStay DEF RatesInv
  <2>2. \A q \in Quotes : stored[d][q] # 0 => stored'[d][q] = stored[d][q]
    BY StoredGrows
  <2> QED BY <1>1, <1>5, <2>1, <2>2, RateStays
<1>7. ConvertOne(7, f, t, d)' =
        IF a.day = 0 \/ b.day = 0
        THEN [amount |-> 7, day |-> 0, converted |-> FALSE]
        ELSE [amount |-> Convert(7, a.rate, b.rate),
              day |-> Smaller(a.day, b.day), converted |-> TRUE]
  BY <1>6 DEF ConvertOne
<1> QED BY <1>3, <1>7

(* A conversion at rates of the very day gives the same in every later     *)
(* report: a rate that is stored is never replaced and never goes away.    *)
THEOREM ReportsKeepStanding == FxSpec => ReportsStand
<1>1. FxInit => RatesInv
  BY FxInitRates
<1>2. RatesInv /\ [FxNext]_fxVars => RatesInv'
  BY RatesStay
<1>3. RatesInv /\ [FxNext]_fxVars =>
        [stored' # stored =>
           \A d \in Days, f, t \in Currencies :
             LET report == ConvertOne(7, f, t, d)
             IN  f # t /\ report.converted /\ report.day = d
                   => ConvertOne(7, f, t, d)' = report]_fxVars
  BY ReportStays
<1> QED BY <1>1, <1>2, <1>3, PTL DEF FxSpec, ReportsStand

-----------------------------------------------------------------------------
(* Holes.  A sync knows of each day up to the one it planned on that there *)
(* are rates behind it, that it is still to ask for it, that it has rates  *)
(* of it in hand, or that it was not there when it asked: and what comes   *)
(* after that is late, or within the last range.                           *)

Windows(T) == {d \in 1..T : d >= T - Window}

(* The ranges that a sync is still to ask for.                             *)
Rest(k) ==
  IF k.step = "fetch" THEN k.queue
  ELSE IF k.step = "persist" THEN Tail(k.queue) ELSE <<>>

Behind(d) == \E x \in Days : x >= d /\ HasRates(x)
ToAsk(k, d) == \E i \in 1..Len(Rest(k)) : d \in Rest(k)[i]
OfDay(k, d) == \E y \in k.pending : y.day = d

PlannedOn(k, T) ==
  /\ Rest(k)[Len(Rest(k))] = Windows(T)
  /\ \A i \in 1..Len(Rest(k)) : Rest(k)[i] \subseteq 1..T
  /\ \A d \in 1..T :
       Shown(d) /\ d \notin late => Behind(d) \/ ToAsk(k, d) \/ OfDay(k, d)

Leaves(k) ==
  /\ Rest(k) # <<>> => \E T \in 1..today : PlannedOn(k, T)
  /\ \A i \in 1..Len(Rest(k)) - 1 : \A y \in Rest(k)[i] :
       \A d \in 1..y : d \in Rest(k)[i] \/ Behind(d)
  /\ \A y \in k.pending : \A d \in 1..y.day :
       Shown(d) /\ d \notin late => Behind(d) \/ OfDay(k, d)

HolesInv ==
  /\ \A s \in FxSyncs : Leaves(fx[s])
  /\ \A d \in Days, q \in Quotes :
       published[d][q] # 0 /\ stored[d][q] = 0 /\ Behind(d)
         => \/ d \in late \union torn
            \/ \E s \in FxSyncs : Carries(fx[s], d, q)

LEMMA BehindStays ==
  ASSUME NEW d, Behind(d), Grows(stored, stored')
  PROVE  Behind(d)'
BY DEF Behind, HasRates, Grows

LEMMA LeavesStays ==
  ASSUME NEW k, Leaves(k), today \in Nat, today' \in Nat, today <= today',
         Grows(stored, stored'), late \subseteq late',
         \A d \in Days : Shown(d)' => Shown(d),
         \A y \in k.pending : y.day \in Days, today' \in Days
  PROVE  Leaves(k)'
<1>0. \A d : Behind(d) => Behind(d)'
  BY BehindStays
<1>1. ASSUME NEW T \in 1..today, PlannedOn(k, T)
      PROVE  T \in 1..today' /\ PlannedOn(k, T)'
  <2>1. 1..T \subseteq Days
    BY FxConstants DEF Days
  <2>2. \A d \in 1..T : (Shown(d) /\ d \notin late)'
                          => Shown(d) /\ d \notin late
    BY <2>1
  <2>3. \A d \in 1..T : (Shown(d) /\ d \notin late)'
                          => (Behind(d) \/ ToAsk(k, d) \/ OfDay(k, d))'
    BY <1>0, <1>1, <2>2 DEF PlannedOn, ToAsk, OfDay
  <2> QED BY <1>1, <2>3 DEF PlannedOn
<1>2. \A i \in 1..Len(Rest(k)) - 1 : \A y \in Rest(k)[i] :
        \A d \in 1..y : d \in Rest(k)[i] \/ Behind(d)'
  BY <1>0 DEF Leaves
<1>3. ASSUME NEW y \in k.pending, NEW d \in 1..y.day, (Shown(d) /\ d \notin late)'
      PROVE  Behind(d)' \/ OfDay(k, d)
  <2>1. d \in Days
    BY FxConstants DEF Days
  <2> QED BY <1>0, <1>3, <2>1 DEF Leaves
<1>4. Rest(k) # <<>> => (\E T \in 1..today : PlannedOn(k, T))'
  <2> SUFFICES ASSUME Rest(k) # <<>>
               PROVE  (\E T \in 1..today : PlannedOn(k, T))'
    OBVIOUS
  <2>1. PICK T \in 1..today : PlannedOn(k, T)
    BY DEF Leaves
  <2> QED BY <1>1, <2>1
<1> QED BY <1>2, <1>3, <1>4 DEF Leaves, OfDay

(* A day that was not there when its range was asked for comes late or in  *)
(* the last range.                                                         *)
LEMMA LeavesPublished ==
  ASSUME RatesInv, NEW k \in FxRec, Leaves(k), InHand(k),
         NEW d0 \in Days, Publish(d0)
  PROVE  Leaves(k)'
<1>1. /\ UNCHANGED <<stored, fx, today>> /\ d0 <= today /\ ~Shown(d0)
      /\ \A x \in Days : x # d0 => published'[x] = published[x]
  BY FixingsGrow
<1>2. late \subseteq late'
  BY DEF Publish
<1>3. d0 \notin late' => d0 >= today - Window /\ \A x \in Days : x > d0 => ~Shown(x)
  <2>1. d0 \in Nat /\ today \in Nat /\ Window \in Nat
    BY FxConstants DEF RatesInv, FxTypeOK
  <2>2. d0 < today - Window \/ (\E x \in Days : x > d0 /\ Shown(x)) => d0 \in late'
    BY DEF Publish
  <2> QED BY <2>1, <2>2
<1>4. /\ today \in Nat /\ today \in Days /\ Window \in Nat
      /\ \A T \in 1..today : 1..T \subseteq Days
      /\ \A y \in k.pending : /\ y.day \in Days /\ y.day \in Nat
                              /\ 1..y.day \subseteq Days /\ y.quote \in Quotes
  <2>1. today \in Days /\ k.pending \subseteq Rate
    BY DEF RatesInv, FxTypeOK, FxRec
  <2>2. \A T \in Days : T \in Nat /\ 1..T \subseteq Days
    BY FxConstants DEF Days
  <2>3. \A y \in k.pending : y.day \in Days /\ y.quote \in Quotes
    BY <2>1 DEF Rate
  <2>4. 1..today \subseteq Days
    BY <2>1, <2>2
  <2> QED BY <2>1, <2>2, <2>3, <2>4, FxConstants
<1>5. ASSUME NEW d \in Days, Shown(d)'
      PROVE  d = d0 \/ Shown(d)
  BY <1>1, <1>5 DEF Shown
<1>6. \A d : Behind(d)' <=> Behind(d)
  BY <1>1 DEF Behind, HasRates
<1>7. ASSUME NEW T \in 1..today, PlannedOn(k, T), Rest(k) # <<>>
      PROVE  PlannedOn(k, T)'
  <2>0. Rest(k) \in Seq(SUBSET Days) /\ Len(Rest(k)) \in 1..Len(Rest(k))
    <3>1. k.queue \in Seq(SUBSET Days)
      BY DEF FxRec
    <3>2. Rest(k) \in Seq(SUBSET Days)
      BY <3>1, <1>7, EmptySeq DEF Rest, InHand
    <3> QED BY <1>7, <3>2
  <2>1. ASSUME NEW d \in 1..T, (Shown(d) /\ d \notin late)'
        PROVE  (Behind(d) \/ ToAsk(k, d) \/ OfDay(k, d))'
    <3>1. CASE d = d0
      <4>1. d >= T - Window
        BY <1>3, <1>4, <2>1, <3>1
      <4>2. d \in Rest(k)[Len(Rest(k))]
        BY <1>7, <4>1 DEF PlannedOn, Windows
      <4> QED BY <2>0, <4>2 DEF ToAsk
    <3>2. CASE d # d0
      <4>1. Shown(d) /\ d \notin late
        BY <1>2, <1>4, <1>5, <2>1, <3>2
      <4> QED BY <1>6, <1>7, <4>1 DEF PlannedOn, ToAsk, OfDay
    <3> QED BY <3>1, <3>2
  <2> QED BY <1>7, <2>1 DEF PlannedOn
<1>8. ASSUME NEW y \in k.pending, NEW d \in 1..y.day, (Shown(d) /\ d \notin late)'
      PROVE  Behind(d)' \/ OfDay(k, d)
  <2>1. CASE d = d0
    <3>1. Shown(y.day)
      BY <1>4 DEF InHand, Shown
    <3>2. y.day > d0
      BY <1>1, <1>4, <2>1, <3>1
    <3> QED BY <1>3, <1>4, <1>8, <2>1, <3>1, <3>2
  <2>2. CASE d # d0
    <3>1. Shown(d) /\ d \notin late
      BY <1>2, <1>4, <1>5, <1>8, <2>2
    <3> QED BY <1>6, <3>1 DEF Leaves
  <2> QED BY <2>1, <2>2
<1>9. \A i \in 1..Len(Rest(k)) - 1 : \A y \in Rest(k)[i] :
        \A d \in 1..y : d \in Rest(k)[i] \/ Behind(d)'
  BY <1>6 DEF Leaves
<1>10. Rest(k) # <<>> => (\E T \in 1..today : PlannedOn(k, T))'
  <2> SUFFICES ASSUME Rest(k) # <<>>
               PROVE  (\E T \in 1..today : PlannedOn(k, T))'
    OBVIOUS
  <2>1. PICK T \in 1..today : PlannedOn(k, T)
    BY DEF Leaves
  <2> QED BY <1>1, <1>7, <2>1
<1> QED BY <1>8, <1>9, <1>10 DEF Leaves, OfDay

Before == {d \in 1..today : \A x \in StoredDays : d < x}

LEMMA TwoRanges ==
  ASSUME NEW S, NEW u \in S, NEW v \in S
  PROVE  <<u>> \o <<v>> = <<u, v>>
<1>1. <<u>> \in Seq(S) /\ <<v>> \in Seq(S) /\ <<u, v>> \in Seq(S)
  OBVIOUS
<1> DEFINE c == <<u>> \o <<v>>
<1>2. c \in Seq(S) /\ Len(c) = 2
  BY <1>1, ConcatProperties
<1>3. c[1] = u /\ c[2] = v
  BY <1>1, ConcatProperties
<1>4. \A i \in 1..2 : c[i] = <<u, v>>[i]
  <2> HIDE DEF c
  <2>1. \A i \in 1..2 : i = 1 \/ i = 2
    OBVIOUS
  <2> QED BY <1>3, <2>1
<1>5. Len(<<u, v>>) = 2
  OBVIOUS
<1> HIDE DEF c
<1>6. c = <<u, v>>
  BY <1>1, <1>2, <1>4, <1>5, SeqEqual
<1> QED BY <1>6 DEF c

LEMMA ThreeRanges ==
  ASSUME NEW S, NEW u \in S, NEW v \in S, NEW w \in S
  PROVE  <<u, v>> \o <<w>> = <<u, v, w>>
<1>1. <<u, v>> \in Seq(S) /\ <<w>> \in Seq(S) /\ <<u, v, w>> \in Seq(S)
  OBVIOUS
<1> DEFINE c == <<u, v>> \o <<w>>
<1>2. c \in Seq(S) /\ Len(c) = 3
  BY <1>1, ConcatProperties
<1>3. c[1] = u /\ c[2] = v /\ c[3] = w
  BY <1>1, ConcatProperties
<1>4. \A i \in 1..3 : c[i] = <<u, v, w>>[i]
  <2> HIDE DEF c
  <2>1. \A i \in 1..3 : i = 1 \/ i = 2 \/ i = 3
    OBVIOUS
  <2> QED BY <1>3, <2>1
<1>5. Len(<<u, v, w>>) = 3
  OBVIOUS
<1> HIDE DEF c
<1>6. c = <<u, v, w>>
  BY <1>1, <1>2, <1>4, <1>5, SeqEqual
<1> QED BY <1>6 DEF c

LEMMA PlanRanges ==
  ASSUME FxTypeOK, NEW s \in FxSyncs, Plan(s)
  PROVE  \E queue \in Seq(SUBSET Days) :
           /\ NextRange(s, queue) /\ queue # <<>>
           /\ queue[Len(queue)] = Windows(today)
           /\ \A i \in 1..Len(queue) : queue[i] \subseteq 1..today
           /\ \A i \in 1..Len(queue) - 1 :
                \/ queue[i] = After(StoredDays)
                \/ (queue[i] = Before /\ StoredDays # {})
           /\ After(StoredDays) # {} =>
                \E i \in 1..Len(queue) : queue[i] = After(StoredDays)
<1>1. 1..today \subseteq Days
  BY FxConstants DEF FxTypeOK, Days
<1>2. PICK a, b, w :
        a = After(StoredDays) /\ b = Before /\ w = Windows(today)
  OBVIOUS
<1>3. /\ a \in SUBSET Days /\ b \in SUBSET Days /\ w \in SUBSET Days
      /\ a \subseteq 1..today /\ b \subseteq 1..today /\ w \subseteq 1..today
  BY <1>1, <1>2 DEF After, Before, Windows
<1>4. NextRange(s, (IF a # {} THEN <<a>> ELSE <<>>)
           \o (IF fx[s].back /\ StoredDays # {} /\ b # {} THEN <<b>> ELSE <<>>)
           \o <<w>>)
  BY <1>2 DEF Plan, Before, Windows
<1>5. ASSUME NEW q \in Seq(SUBSET Days), Len(q) \in 1..3, NextRange(s, q),
             q[Len(q)] = w,
             \A i \in 1..Len(q) - 1 : q[i] = a \/ (q[i] = b /\ StoredDays # {}),
             a # {} => \E i \in 1..Len(q) : q[i] = a
      PROVE  \E queue \in Seq(SUBSET Days) :
           /\ NextRange(s, queue) /\ queue # <<>>
           /\ queue[Len(queue)] = Windows(today)
           /\ \A i \in 1..Len(queue) : queue[i] \subseteq 1..today
           /\ \A i \in 1..Len(queue) - 1 :
                \/ queue[i] = After(StoredDays)
                \/ (queue[i] = Before /\ StoredDays # {})
           /\ After(StoredDays) # {} =>
                \E i \in 1..Len(queue) : queue[i] = After(StoredDays)
  <2>1. q # <<>>
    BY <1>5
  <2>2. \A i \in 1..Len(q) : q[i] \subseteq 1..today
    <3> TAKE i \in 1..Len(q)
    <3>1. i = Len(q) \/ i \in 1..Len(q) - 1
      BY <1>5
    <3> QED BY <1>3, <1>5, <3>1
  <2> QED BY <1>2, <1>5, <2>1, <2>2
<1>6. CASE a # {} /\ (fx[s].back /\ StoredDays # {} /\ b # {})
  <2>1. <<a>> \o <<b>> \o <<w>> = <<a, b, w>>
    <3>1. <<a>> \o <<b>> = <<a, b>>
      BY <1>3, TwoRanges
    <3> QED BY <1>3, <3>1, ThreeRanges
  <2>2. <<a, b, w>> \in Seq(SUBSET Days)
    BY <1>3
  <2>3. PICK q \in Seq(SUBSET Days) :
          /\ q = <<a, b, w>> /\ Len(q) = 3
          /\ q[1] = a /\ q[2] = b /\ q[3] = w
    BY <2>2
  <2>4. NextRange(s, q)
    BY <1>4, <1>6, <2>1, <2>3
  <2>5. \A i \in 1..Len(q) - 1 : q[i] = a \/ (q[i] = b /\ StoredDays # {})
    BY <1>6, <2>3
  <2>6. a # {} => \E i \in 1..Len(q) : q[i] = a
    BY <1>6, <2>3
  <2>7. Len(q) \in 1..3 /\ q[Len(q)] = w
    BY <2>3
  <2> QED BY <2>4, <2>5, <2>6, <2>7, <1>5
<1>7. CASE a # {} /\ ~(fx[s].back /\ StoredDays # {} /\ b # {})
  <2>1. <<a>> \o <<>> \o <<w>> = <<a, w>>
    <3>1. <<a>> \o <<>> = <<a>>
      <4>1. <<a>> \in Seq(SUBSET Days)
        BY <1>3
      <4> QED BY <4>1, ConcatEmptySeq
    <3> QED BY <1>3, <3>1, TwoRanges
  <2>2. <<a, w>> \in Seq(SUBSET Days)
    BY <1>3
  <2>3. PICK q \in Seq(SUBSET Days) :
          /\ q = <<a, w>> /\ Len(q) = 2
          /\ q[1] = a /\ q[2] = w
    BY <2>2
  <2>4. NextRange(s, q)
    BY <1>4, <1>7, <2>1, <2>3
  <2>5. \A i \in 1..Len(q) - 1 : q[i] = a \/ (q[i] = b /\ StoredDays # {})
    BY <1>7, <2>3
  <2>6. a # {} => \E i \in 1..Len(q) : q[i] = a
    BY <1>7, <2>3
  <2>7. Len(q) \in 1..3 /\ q[Len(q)] = w
    BY <2>3
  <2> QED BY <2>4, <2>5, <2>6, <2>7, <1>5
<1>8. CASE a = {} /\ (fx[s].back /\ StoredDays # {} /\ b # {})
  <2>1. <<>> \o <<b>> \o <<w>> = <<b, w>>
    <3>1. <<>> \o <<b>> = <<b>>
      <4>1. <<b>> \in Seq(SUBSET Days)
        BY <1>3
      <4> QED BY <4>1, ConcatEmptySeq
    <3> QED BY <1>3, <3>1, TwoRanges
  <2>2. <<b, w>> \in Seq(SUBSET Days)
    BY <1>3
  <2>3. PICK q \in Seq(SUBSET Days) :
          /\ q = <<b, w>> /\ Len(q) = 2
          /\ q[1] = b /\ q[2] = w
    BY <2>2
  <2>4. NextRange(s, q)
    BY <1>4, <1>8, <2>1, <2>3
  <2>5. \A i \in 1..Len(q) - 1 : q[i] = a \/ (q[i] = b /\ StoredDays # {})
    BY <1>8, <2>3
  <2>6. a # {} => \E i \in 1..Len(q) : q[i] = a
    BY <1>8, <2>3
  <2>7. Len(q) \in 1..3 /\ q[Len(q)] = w
    BY <2>3
  <2> QED BY <2>4, <2>5, <2>6, <2>7, <1>5
<1>9. CASE a = {} /\ ~(fx[s].back /\ StoredDays # {} /\ b # {})
  <2>1. <<>> \o <<>> \o <<w>> = <<w>>
    BY <1>3
  <2>2. <<w>> \in Seq(SUBSET Days)
    BY <1>3
  <2>3. PICK q \in Seq(SUBSET Days) :
          /\ q = <<w>> /\ Len(q) = 1
          /\ q[1] = w
    BY <2>2
  <2>4. NextRange(s, q)
    BY <1>4, <1>9, <2>1, <2>3
  <2>5. \A i \in 1..Len(q) - 1 : q[i] = a \/ (q[i] = b /\ StoredDays # {})
    BY <1>9, <2>3
  <2>6. a # {} => \E i \in 1..Len(q) : q[i] = a
    BY <1>9, <2>3
  <2>7. Len(q) \in 1..3 /\ q[Len(q)] = w
    BY <2>3
  <2> QED BY <2>4, <2>5, <2>6, <2>7, <1>5
<1> QED BY <1>6, <1>7, <1>8, <1>9

LEMMA PlanLeaves ==
  ASSUME RatesInv, NEW s \in FxSyncs, Plan(s)
  PROVE  Leaves(fx[s])'
<1>0. FxTypeOK /\ today \in Days /\ today \in 1..today /\ today \in Nat
  <2>1. FxTypeOK /\ today \in Days
    BY DEF RatesInv, FxTypeOK
  <2>2. today \in Nat \ {0}
    BY <2>1, FxConstants
  <2> QED BY <2>1, <2>2
<1>1. PICK queue \in Seq(SUBSET Days) :
           /\ NextRange(s, queue) /\ queue # <<>>
           /\ queue[Len(queue)] = Windows(today)
           /\ \A i \in 1..Len(queue) : queue[i] \subseteq 1..today
           /\ \A i \in 1..Len(queue) - 1 :
                \/ queue[i] = After(StoredDays)
                \/ (queue[i] = Before /\ StoredDays # {})
           /\ After(StoredDays) # {} =>
                \E i \in 1..Len(queue) : queue[i] = After(StoredDays)
  BY <1>0, PlanRanges
<1>2. /\ fx'[s].queue = queue /\ fx'[s].pending = {} /\ fx'[s].step = "fetch"
  BY <1>0, <1>1, RangeEffect
<1>3. PICK k : k = fx'[s]
  OBVIOUS
<1>4. Rest(k) = queue /\ k.pending = {}
  BY <1>2, <1>3 DEF Rest
<1>5. UNCHANGED <<today, published, stored, late>>
  BY DEF Plan, fxHistory
<1>6. \A d \in 1..today : d \notin After(StoredDays) => Behind(d)
  BY <1>0, FxConstants DEF After, Behind, StoredDays
<1>7. ASSUME NEW d \in 1..today
      PROVE  Behind(d) \/ ToAsk(k, d)
  <2>1. CASE d \notin After(StoredDays)
    BY <1>6, <2>1
  <2>2. CASE d \in After(StoredDays)
    BY <1>1, <1>4, <2>2 DEF ToAsk
  <2> QED BY <2>1, <2>2
<1>8. ASSUME NEW i \in 1..Len(queue) - 1, NEW y \in queue[i], NEW d \in 1..y
      PROVE  d \in queue[i] \/ Behind(d)
  <2>1. Len(queue) \in Nat /\ i \in 1..Len(queue)
    BY <1>1
  <2>2. y \in 1..today /\ d \in 1..today
    BY <1>0, <1>1, <2>1
  <2>3. CASE queue[i] = After(StoredDays)
    BY <1>6, <2>2, <2>3
  <2>4. CASE queue[i] = Before /\ StoredDays # {}
    <3>1. PICK x \in StoredDays : y < x
      BY <2>4 DEF Before
    <3>2. x \in Days /\ x >= d /\ HasRates(x)
      <4>1. x \in Days /\ x \in Nat /\ HasRates(x)
        BY FxConstants DEF StoredDays
      <4>2. y \in Nat /\ d <= y
        BY <2>2
      <4> QED BY <3>1, <4>1, <4>2
    <3> QED BY <3>2 DEF Behind
  <2> QED BY <1>1, <2>3, <2>4
<1>9. PlannedOn(k, today)
  BY <1>1, <1>4, <1>7 DEF PlannedOn
<1>10. Leaves(k)
  BY <1>0, <1>4, <1>8, <1>9 DEF Leaves
<1>11. Leaves(k)'
  BY <1>5, <1>10 DEF Leaves, PlannedOn, ToAsk, OfDay, Behind, HasRates, Shown
<1> QED BY <1>3, <1>11


LEMMA TailRanges ==
  ASSUME NEW Q \in Seq(SUBSET Days), Q # <<>>
  PROVE  /\ Len(Q) \in Nat \ {0} /\ Head(Q) = Q[1]
         /\ Tail(Q) \in Seq(SUBSET Days) /\ Len(Tail(Q)) = Len(Q) - 1
         /\ \A i \in 1..Len(Q) - 1 : Tail(Q)[i] = Q[i + 1]
<1>1. Len(Q) \in Nat \ {0}
  BY EmptySeq
<1> QED BY <1>1

(* What came back for a range is in hand, and what did not is not there.   *)
LEMMA FetchLeaves ==
  ASSUME RatesInv, NEW s \in FxSyncs, Fetch(s), Leaves(fx[s])
  PROVE  Leaves(fx[s])'
<1>0. /\ FxTypeOK /\ InHand(fx[s]) /\ fx[s].queue \in Seq(SUBSET Days)
      /\ today \in Nat /\ \A T \in 1..today : 1..T \subseteq Days
  BY FxConstants DEF RatesInv, FxTypeOK, FxRec, Days
<1>1. PICK k, n, Q, R : k = fx[s] /\ n = fx'[s] /\ Q = fx[s].queue /\ R = Head(Q)
  OBVIOUS
<1>2. k.step = "fetch" /\ Q # <<>> /\ Q \in Seq(SUBSET Days) /\ k.pending = {}
  BY <1>0, <1>1 DEF Fetch, InHand
<1>3. /\ Len(Q) \in Nat \ {0} /\ R = Q[1]
      /\ Tail(Q) \in Seq(SUBSET Days) /\ Len(Tail(Q)) = Len(Q) - 1
      /\ \A i \in 1..Len(Q) - 1 : Tail(Q)[i] = Q[i + 1]
  BY <1>1, <1>2, TailRanges
<1>4. UNCHANGED <<today, published, stored, late>>
  BY DEF Fetch, fxHistory
<1>5. n.pending = Answer(R) /\ Rest(n) = Tail(Q)
  <2>1. \/ Answer(R) = {} /\ NextRange(s, Tail(Q))
        \/ n.step = "persist" /\ n.pending = Answer(R) /\ n.queue = Q
    BY <1>0, <1>1, <1>2, FetchEffect
  <2>2. CASE Answer(R) = {} /\ NextRange(s, Tail(Q))
    <3>1. /\ n.queue = Tail(Q) /\ n.pending = {}
          /\ n.step = IF Tail(Q) = <<>> THEN "aggregate" ELSE "fetch"
      BY <1>0, <1>1, <1>3, <2>2, RangeEffect
    <3> QED BY <2>2, <3>1 DEF Rest
  <2>3. CASE n.step = "persist" /\ n.pending = Answer(R) /\ n.queue = Q
    BY <2>3 DEF Rest
  <2> QED BY <2>1, <2>2, <2>3
<1>6. Rest(k) = Q /\ Leaves(k)
  BY <1>1, <1>2 DEF Rest
<1>7. ASSUME NEW d \in Days, d \in R, Shown(d)
      PROVE  OfDay(n, d)
  <2>1. PICK q \in Quotes : published[d][q] # 0
    BY <1>7 DEF Shown
  <2>2. \E y \in Answer(R) : y.day = d
    BY <1>0, <1>7, <2>1, AnswerRates
  <2> QED BY <1>5, <2>2 DEF OfDay
<1>8. ASSUME NEW T \in 1..today, PlannedOn(k, T), Tail(Q) # <<>>
      PROVE  PlannedOn(n, T)
  <2>1. Len(Q) - 1 \in 1..Len(Q) - 1 /\ Len(Q) > 1
    BY <1>2, <1>3, <1>8, EmptySeq
  <2>2. Rest(n)[Len(Rest(n))] = Windows(T)
    BY <1>3, <1>5, <1>6, <1>8, <2>1 DEF PlannedOn
  <2>3. \A i \in 1..Len(Rest(n)) : Rest(n)[i] \subseteq 1..T
    <3> TAKE i \in 1..Len(Rest(n))
    <3>1. i \in 1..Len(Q) - 1 /\ i + 1 \in 1..Len(Q)
      BY <1>3, <1>5
    <3>2. Rest(n)[i] = Q[i + 1]
      BY <1>3, <1>5, <3>1
    <3> QED BY <1>6, <1>8, <3>1, <3>2 DEF PlannedOn
  <2>4. ASSUME NEW d \in 1..T, Shown(d) /\ d \notin late
        PROVE  Behind(d) \/ ToAsk(n, d) \/ OfDay(n, d)
    <3>1. Behind(d) \/ \E i \in 1..Len(Q) : d \in Q[i]
      BY <1>2, <1>6, <1>8, <2>4 DEF PlannedOn, ToAsk, OfDay
    <3>2. ASSUME NEW i \in 1..Len(Q), d \in Q[i]
          PROVE  ToAsk(n, d) \/ OfDay(n, d)
      <4>1. CASE i = 1
        <5>1. d \in Days /\ d \in R
          BY <1>0, <1>3, <3>2, <4>1
        <5> QED BY <1>7, <2>4, <5>1
      <4>2. CASE i # 1
        <5>1. i - 1 \in 1..Len(Q) - 1 /\ (i - 1) + 1 = i
          BY <1>3, <4>2
        <5>2. d \in Tail(Q)[i - 1]
          BY <1>3, <3>2, <5>1
        <5> QED BY <1>3, <1>5, <5>1, <5>2 DEF ToAsk
      <4> QED BY <4>1, <4>2
    <3> QED BY <3>1, <3>2
  <2> QED BY <2>2, <2>3, <2>4 DEF PlannedOn
<1>9. Rest(n) # <<>> => \E T \in 1..today : PlannedOn(n, T)
  <2> SUFFICES ASSUME Rest(n) # <<>> PROVE \E T \in 1..today : PlannedOn(n, T)
    OBVIOUS
  <2>1. PICK T \in 1..today : PlannedOn(k, T)
    BY <1>2, <1>6 DEF Leaves
  <2> QED BY <1>5, <1>8, <2>1
<1>10. ASSUME NEW i \in 1..Len(Rest(n)) - 1, NEW y \in Rest(n)[i], NEW d \in 1..y
       PROVE  d \in Rest(n)[i] \/ Behind(d)
  <2>1. i \in 1..Len(Q) - 1 /\ i + 1 \in 1..Len(Q) - 1
    BY <1>3, <1>5, <1>10
  <2>2. Rest(n)[i] = Q[i + 1]
    BY <1>3, <1>5, <2>1
  <2> QED BY <1>6, <1>10, <2>1, <2>2 DEF Leaves
<1>11. ASSUME NEW y \in n.pending, NEW d \in 1..y.day, Shown(d) /\ d \notin late
       PROVE  Behind(d) \/ OfDay(n, d)
  <2>1. y.day \in R /\ R \subseteq Days
    <3>1. \A p \in Answer(R) : p.day \in R
      BY <1>0, AnswerRates
    <3>2. R \in SUBSET Days
      BY <1>2, <1>3, ElementOfSeq
    <3> QED BY <1>5, <3>1, <3>2
  <2>2. y.day \in Days /\ y.day \in Nat /\ d \in Days
    <3>1. \A x \in Days : x \in Nat /\ 1..x \subseteq Days
      BY FxConstants DEF Days
    <3>2. y.day \in Days
      BY <2>1
    <3> QED BY <3>1, <3>2
  <2>3. CASE d \in R
    BY <1>7, <1>11, <2>2, <2>3
  <2>4. CASE d \notin R /\ Len(Q) > 1
    <3>1. 1 \in 1..Len(Q) - 1
      BY <1>3, <2>4
    <3> QED BY <1>3, <1>6, <2>1, <2>4, <3>1 DEF Leaves
  <2>5. CASE d \notin R /\ Len(Q) = 1
    <3>1. PICK T \in 1..today : PlannedOn(k, T)
      BY <1>2, <1>6 DEF Leaves
    <3>2. y.day \in 1..T
      BY <1>3, <1>6, <2>1, <2>5, <3>1 DEF PlannedOn
    <3>3. d \in 1..T
      BY <2>2, <3>2
    <3>4. \A i \in 1..Len(Q) : i = 1
      BY <2>5
    <3>5. Behind(d) \/ ToAsk(k, d) \/ OfDay(k, d)
      BY <1>11, <3>1, <3>3 DEF PlannedOn
    <3> QED BY <1>2, <1>3, <1>6, <2>5, <3>4, <3>5 DEF ToAsk, OfDay
  <2> QED BY <1>3, <2>3, <2>4, <2>5
<1>12. Leaves(n)
  BY <1>9, <1>10, <1>11 DEF Leaves
<1>13. Leaves(n)'
  BY <1>4, <1>12 DEF Leaves, PlannedOn, ToAsk, OfDay, Behind, HasRates, Shown
<1> QED BY <1>1, <1>13

(* A batch moves days from the rates in hand to those that are stored.     *)
LEMMA PersistLeaves ==
  ASSUME RatesInv, NEW s \in FxSyncs, Persist(s), Leaves(fx[s])
  PROVE  Leaves(fx[s])'
<1>0. /\ FxTypeOK /\ InHand(fx[s]) /\ fx \in [FxSyncs -> FxRec]
  BY DEF RatesInv, FxTypeOK, FxRec
<1>1. PICK k, n : k = fx[s] /\ n = fx'[s]
  OBVIOUS
<1>2. k.step = "persist" /\ UNCHANGED <<today, published, late>>
  BY <1>0, <1>1, PersistEffect DEF fxHistory
<1>3. PICK b \in Batches(k.pending) :
              /\ b \in SUBSET Rate /\ \A p \in b : p.rate # 0
              /\ stored' = Insert(b)
              /\ \/ b = fx[s].pending /\ NextRange(s, Tail(fx[s].queue))
                 \/ /\ b # fx[s].pending
                    /\ fx' \in [FxSyncs -> FxRec] /\ Others(s)
                    /\ fx'[s].step = "persist"
                    /\ fx'[s].pending = fx[s].pending \ b
                    /\ fx'[s].queue = fx[s].queue
  BY <1>0, <1>1, PersistEffect
<1>4. Rest(n) = Rest(k) /\ n.pending = k.pending \ b
  <2>1. CASE b = fx[s].pending /\ NextRange(s, Tail(fx[s].queue))
    <3>1. Tail(k.queue) \in Seq(SUBSET Days)
      <4>1. k.queue # <<>> /\ k.queue \in Seq(SUBSET Days)
        BY <1>0, <1>1, <1>2 DEF InHand, FxRec
      <4> QED BY <4>1
    <3>2. /\ n.queue = Tail(k.queue) /\ n.pending = {}
          /\ n.step = IF Tail(k.queue) = <<>> THEN "aggregate" ELSE "fetch"
      BY <1>0, <1>1, <2>1, <3>1, RangeEffect
    <3> QED BY <1>1, <1>2, <2>1, <3>2 DEF Rest
  <2>2. CASE b # fx[s].pending
    BY <1>1, <1>2, <1>3, <2>2 DEF Rest
  <2> QED BY <1>3, <2>1, <2>2
<1>5. /\ Grows(stored, stored')
      /\ \A d \in Days, q \in Quotes :
           stored'[d][q] # 0 <=>
             stored[d][q] # 0 \/ \E p \in b : p.day = d /\ p.quote = q
  BY <1>0, <1>3, InsertEffect DEF Grows
<1>6. \A d : Behind(d) => Behind(d)'
  BY <1>5, BehindStays
<1>7. ASSUME NEW d, OfDay(k, d)
      PROVE  Behind(d)' \/ OfDay(n, d)
  <2>1. PICK y \in k.pending : y.day = d
    BY <1>7 DEF OfDay
  <2>2. y \in Rate
    BY <1>0, <1>1 DEF FxRec
  <2>3. CASE y \in b
    <3>1. d \in Days /\ d >= d /\ y.quote \in Quotes
      <4>1. d \in Days /\ y.quote \in Quotes
        BY <2>1, <2>2 DEF Rate
      <4>2. d \in Nat
        BY <4>1, FxConstants
      <4> QED BY <4>1, <4>2
    <3>2. stored'[d][y.quote] # 0
      BY <1>5, <2>1, <2>3, <3>1
    <3> QED BY <3>1, <3>2 DEF Behind, HasRates
  <2>4. CASE y \notin b
    BY <1>4, <2>1, <2>4 DEF OfDay
  <2> QED BY <2>3, <2>4
<1>8. Leaves(k)
  BY <1>1
<1>9. \A d : Shown(d)' <=> Shown(d)
  BY <1>2 DEF Shown
<1>10. ASSUME NEW T \in 1..today, PlannedOn(k, T)
       PROVE  PlannedOn(n, T)'
  <2>1. ASSUME NEW d \in 1..T, (Shown(d) /\ d \notin late)'
        PROVE  (Behind(d) \/ ToAsk(n, d) \/ OfDay(n, d))'
    <3>1. Behind(d) \/ ToAsk(k, d) \/ OfDay(k, d)
      BY <1>2, <1>9, <1>10, <2>1 DEF PlannedOn
    <3>2. ToAsk(k, d) => ToAsk(n, d)'
      BY <1>4 DEF ToAsk
    <3>3. OfDay(n, d) => OfDay(n, d)'
      BY DEF OfDay
    <3> QED BY <1>6, <1>7, <3>1, <3>2, <3>3
  <2> QED BY <1>4, <1>10, <2>1 DEF PlannedOn
<1>11. Rest(n) # <<>> => (\E T \in 1..today : PlannedOn(n, T))'
  <2> SUFFICES ASSUME Rest(n) # <<>>
               PROVE  (\E T \in 1..today : PlannedOn(n, T))'
    OBVIOUS
  <2>1. PICK T \in 1..today : PlannedOn(k, T)
    BY <1>4, <1>8 DEF Leaves
  <2> QED BY <1>2, <1>10, <2>1
<1>12. \A i \in 1..Len(Rest(n)) - 1 : \A y \in Rest(n)[i] :
         \A d \in 1..y : d \in Rest(n)[i] \/ Behind(d)'
  BY <1>4, <1>6, <1>8 DEF Leaves
<1>13. ASSUME NEW y \in n.pending, NEW d \in 1..y.day, (Shown(d) /\ d \notin late)'
       PROVE  (Behind(d) \/ OfDay(n, d))'
  <2>1. y \in k.pending
    BY <1>4
  <2>2. Behind(d) \/ OfDay(k, d)
    BY <1>2, <1>8, <1>9, <1>13, <2>1 DEF Leaves
  <2>3. OfDay(n, d) => OfDay(n, d)'
    BY DEF OfDay
  <2> QED BY <1>6, <1>7, <2>2, <2>3
<1>14. Leaves(n)'
  BY <1>11, <1>12, <1>13 DEF Leaves
<1> QED BY <1>1, <1>14

LEMMA FxInitHoles == FxInit => HolesInv
<1> SUFFICES ASSUME FxInit PROVE HolesInv
  OBVIOUS
<1>1. \A d \in Days, q \in Quotes : published[d][q] = 0
  BY DEF FxInit, NoRates
<1>2. Rest(NoFx) = <<>> /\ NoFx.pending = {}
  BY DEF Rest, NoFx
<1>3. Leaves(NoFx)
  BY <1>2, EmptySeq DEF Leaves
<1>4. \A s \in FxSyncs : fx[s] = NoFx
  BY DEF FxInit
<1> QED BY <1>1, <1>3, <1>4 DEF HolesInv

LEMMA LeavesStay ==
  ASSUME RatesInv, HolesInv, [FxNext]_fxVars, NEW s \in FxSyncs
  PROVE  Leaves(fx[s])'
<1>0. /\ RatesInv' /\ Grows(stored, stored') /\ today \in Days
      /\ fx \in [FxSyncs -> FxRec] /\ fx' \in [FxSyncs -> FxRec]
  <2>1. RatesInv'
    BY RatesStay
  <2> QED BY <2>1, StoredGrows DEF RatesInv, FxTypeOK, FxRec
<1>1. PICK k \in FxRec : k = fx[s]
  BY <1>0
<1>2. Leaves(k) /\ InHand(k)
  BY <1>1 DEF HolesInv, RatesInv
<1>3. \A y \in k.pending : y.day \in Days
  BY DEF FxRec, Rate
<1>4. ASSUME UNCHANGED published, late \subseteq late', today <= today', fx'[s] = fx[s]
      PROVE  Leaves(fx[s])'
  <2>1. today \in Nat /\ today' \in Nat /\ today' \in Days
    BY <1>0, FxConstants DEF RatesInv, FxTypeOK
  <2>2. \A d \in Days : Shown(d)' => Shown(d)
    BY <1>4 DEF Shown
  <2>3. Leaves(k)'
    BY <1>0, <1>2, <1>3, <1>4, <2>1, <2>2, LeavesStays
  <2> QED BY <1>1, <1>4, <2>3
<1>5. today <= today
  BY <1>0, FxConstants
<1>6. ASSUME NEW r \in FxSyncs,
             FxStep(r) \/ \E back \in BOOLEAN : StartFxSync(r, back)
      PROVE  Leaves(fx[s])'
  <2>1. UNCHANGED <<today, published, late>> /\ Others(r)
    <3>1. Others(r)
      BY <1>6, WhereTo
    <3>2. UNCHANGED <<today, published, late>>
      BY <1>6 DEF FxStep, StartFxSync, Plan, Fetch, Persist, Aggregate,
         RefreshStats, LookForActive, Activate, StopFx, fxHistory
    <3> QED BY <3>1, <3>2
  <2>2. CASE r # s
    BY <1>4, <1>5, <2>1, <2>2 DEF Others
  <2>3. CASE r = s /\ (Plan(s) \/ Fetch(s) \/ Persist(s))
    BY <2>3, PlanLeaves, FetchLeaves, PersistLeaves DEF HolesInv
  <2>4. CASE r = s /\ EmptyHanded(s)
    <3>1. /\ fx'[s].pending = {} /\ fx'[s].step \notin {"fetch", "persist"}
      BY <2>4, EmptyHandedEffect DEF RatesInv
    <3>2. Rest(fx'[s]) = <<>>
      BY <3>1 DEF Rest
    <3> QED BY <3>1, <3>2, EmptySeq DEF Leaves
  <2> QED BY <1>6, <2>2, <2>3, <2>4 DEF FxStep, EmptyHanded
<1>7. ASSUME NEW d \in Days, Publish(d)
      PROVE  Leaves(fx[s])'
  <2>1. Leaves(k)'
    BY <1>2, <1>7, LeavesPublished
  <2> QED BY <1>1, <1>7, <2>1 DEF Publish
<1>8. ASSUME NEW d \in Days, NEW q \in Quotes, Correct(d, q)
      PROVE  Leaves(fx[s])'
  <2>1. /\ UNCHANGED <<stored, fx, today, late>>
        /\ \A x \in Days, r \in Quotes :
              published'[x][r] # 0 <=> published[x][r] # 0
    BY <1>8, CorrectionGrows
  <2>2. \A x \in Days : Shown(x)' => Shown(x)
    BY <2>1 DEF Shown
  <2>3. today \in Nat /\ today' \in Nat /\ today' \in Days
    BY <1>0, <2>1, FxConstants
  <2>4. Leaves(k)'
    BY <1>0, <1>2, <1>3, <1>5, <2>1, <2>2, <2>3, LeavesStays
  <2> QED BY <1>1, <2>1, <2>4
<1>9. CASE NextDay
  <2>1. today <= today'
    BY <1>0, <1>9, FxConstants DEF NextDay
  <2> QED BY <1>4, <1>9, <2>1 DEF NextDay, fxHistory
<1>10. CASE SetActive \/ UNCHANGED fxVars
  BY <1>4, <1>5, <1>10 DEF SetActive, fxVars, fxHistory
<1> QED BY <1>6, <1>7, <1>8, <1>9, <1>10 DEF FxNext

(* A hole is not new, or its day is in hand, or it has its reason now.     *)
LEMMA HolesStay ==
  ASSUME RatesInv, HolesInv, [FxNext]_fxVars,
         NEW d \in Days, NEW q \in Quotes,
         published'[d][q] # 0, stored'[d][q] = 0, Behind(d)'
  PROVE  \/ d \in late' \union torn'
         \/ \E s \in FxSyncs : Carries(fx'[s], d, q)
<1>0. /\ FxTypeOK /\ fx \in [FxSyncs -> FxRec] /\ d \in Nat
      /\ \A s \in FxSyncs : InHand(fx[s]) /\ Leaves(fx[s])
  BY FxConstants DEF RatesInv, FxTypeOK, FxRec, HolesInv
<1>1. stored[d][q] = 0
  BY StoredGrows DEF Grows
<1>2. late \subseteq late' /\ torn \subseteq torn'
  BY DEF FxNext, FxStep, fxVars, fxHistory, NextDay, SetActive, Publish, Correct,
         StartFxSync, Plan, Fetch, Persist, Aggregate, RefreshStats,
         LookForActive, Activate, StopFx
<1>3. ASSUME published[d][q] # 0, Behind(d)
      PROVE  \/ d \in late' \union torn'
             \/ \E s \in FxSyncs : Carries(fx[s], d, q)
  BY <1>1, <1>2, <1>3 DEF HolesInv
<1>4. ASSUME NEW d0 \in Days, Publish(d0)
      PROVE  d \in late' \union torn' \/ \E s \in FxSyncs : Carries(fx'[s], d, q)
  <2>1. /\ UNCHANGED <<stored, fx>> /\ ~Shown(d0)
        /\ d # d0 => published'[d] = published[d]
    BY <1>4, FixingsGrow
  <2>2. Behind(d)
    BY <2>1 DEF Behind, HasRates
  <2>3. CASE d = d0
    <3>1. PICK x \in Days : x >= d /\ HasRates(x)
      BY <2>2 DEF Behind
    <3>2. Shown(x)
      BY <3>1 DEF RatesInv, Shown, HasRates
    <3>3. x > d
      <4>1. x # d
        BY <2>1, <2>3, <3>2
      <4>2. x \in Nat
        BY FxConstants
      <4> QED BY <1>0, <3>1, <4>1, <4>2
    <3> QED BY <1>4, <2>3, <3>2, <3>3 DEF Publish
  <2>4. CASE d # d0
    BY <1>3, <2>1, <2>2, <2>4
  <2> QED BY <2>3, <2>4
<1>5. ASSUME NEW x \in Days, NEW r \in Quotes, Correct(x, r)
      PROVE  d \in late' \union torn' \/ \E s \in FxSyncs : Carries(fx'[s], d, q)
  <2>1. /\ UNCHANGED <<stored, fx>> /\ published[d][q] # 0
    BY <1>5, CorrectionGrows
  <2>2. Behind(d)
    BY <2>1 DEF Behind, HasRates
  <2> QED BY <1>3, <2>1, <2>2
<1>6. CASE NextDay \/ SetActive \/ UNCHANGED fxVars
  <2>1. UNCHANGED <<stored, fx, published>>
    BY <1>6 DEF NextDay, SetActive, fxVars
  <2>2. Behind(d)
    BY <2>1 DEF Behind, HasRates
  <2> QED BY <1>3, <2>1, <2>2
<1>7. ASSUME NEW s \in FxSyncs, Others(s), UNCHANGED <<stored, published>>,
             \/ fx[s].pending = {}
             \/ /\ StopFx(s)
      PROVE  d \in late' \union torn' \/ \E r \in FxSyncs : Carries(fx'[r], d, q)
  <2>1. Behind(d) /\ published[d][q] # 0
    BY <1>7 DEF Behind, HasRates
  <2>2. CASE d \in late' \union torn'
    BY <2>2
  <2>3. ASSUME NEW r \in FxSyncs, Carries(fx[r], d, q)
        PROVE  d \in late' \union torn' \/ Carries(fx'[r], d, q)
    <3>1. CASE r # s
      BY <1>7, <2>3, <3>1 DEF Others
    <3>2. CASE r = s /\ fx[s].pending = {}
      BY <2>3, <3>2 DEF Carries
    <3>3. CASE r = s /\ StopFx(s)
      <4>1. PICK y \in fx[s].pending : y.day = d
        BY <2>3, <3>3 DEF Carries
      <4>2. PICK x \in StoredDays : d <= x
        <5>1. PICK x \in Days : x >= d /\ HasRates(x)
          BY <2>1 DEF Behind
        <5>2. x \in StoredDays /\ d <= x
          BY <1>0, <5>1, FxConstants DEF StoredDays
        <5> QED BY <5>2
      <4>3. d \in Torn(s)
        BY <4>1, <4>2 DEF Torn
      <4> QED BY <3>3, <4>3 DEF StopFx
    <3> QED BY <1>7, <3>1, <3>2, <3>3
  <2> QED BY <1>3, <2>1, <2>2, <2>3
<1>8. ASSUME NEW s \in FxSyncs, EmptyHanded(s)
      PROVE  d \in late' \union torn' \/ \E r \in FxSyncs : Carries(fx'[r], d, q)
  <2>1. UNCHANGED <<stored, published>> /\ Others(s)
    BY <1>0, <1>8, EmptyHandedEffect
  <2>2. StopFx(s) \/ fx[s].step # "persist"
    BY <1>8 DEF EmptyHanded, StartFxSync, NoFx, Aggregate, RefreshStats,
                LookForActive, Activate
  <2> QED BY <1>0, <1>7, <2>1, <2>2 DEF InHand
<1>9. ASSUME NEW s \in FxSyncs, Plan(s) \/ Fetch(s)
      PROVE  d \in late' \union torn' \/ \E r \in FxSyncs : Carries(fx'[r], d, q)
  <2>1. UNCHANGED <<stored, published>> /\ fx[s].step # "persist"
    BY <1>9 DEF Plan, Fetch
  <2>2. Others(s)
    BY <1>9, WhereTo DEF FxStep
  <2> QED BY <1>0, <1>7, <2>1, <2>2 DEF InHand
<1>10. ASSUME NEW s \in FxSyncs, Persist(s)
       PROVE  d \in late' \union torn' \/ \E r \in FxSyncs : Carries(fx'[r], d, q)
  <2>1. PICK b \in Batches(fx[s].pending) :
              /\ b \in SUBSET Rate /\ \A p \in b : p.rate # 0
              /\ stored' = Insert(b)
              /\ \/ b = fx[s].pending /\ NextRange(s, Tail(fx[s].queue))
                 \/ /\ b # fx[s].pending
                    /\ fx' \in [FxSyncs -> FxRec] /\ Others(s)
                    /\ fx'[s].step = "persist"
                    /\ fx'[s].pending = fx[s].pending \ b
                    /\ fx'[s].queue = fx[s].queue
    BY <1>0, <1>10, PersistEffect
  <2>2. UNCHANGED <<published, late>> /\ fx[s].step = "persist"
    BY <1>0, <1>10, PersistEffect DEF fxHistory
  <2>3. Others(s)
    BY <1>10, WhereTo DEF FxStep
  <2>4. \A x \in Days, r \in Quotes :
           stored'[x][r] # 0 <=>
             stored[x][r] # 0 \/ \E p \in b : p.day = x /\ p.quote = r
    BY <1>0, <2>1, InsertEffect
  <2>5. b \subseteq fx[s].pending
    BY DEF Batches
  <2>6. ASSUME NEW y \in fx[s].pending, y.day = d, y.quote = q
        PROVE  Carries(fx'[s], d, q)
    <3>1. y \notin b
      BY <2>4, <2>6
    <3>2. b # fx[s].pending
      BY <3>1
    <3> QED BY <2>1, <2>6, <3>1, <3>2 DEF Carries
  <2>7. CASE Behind(d)
    <3>1. ASSUME NEW r \in FxSyncs, Carries(fx[r], d, q)
          PROVE  Carries(fx'[r], d, q)
      <4>1. CASE r # s
        BY <2>3, <3>1, <4>1 DEF Others
      <4>2. CASE r = s
        BY <2>6, <3>1, <4>2 DEF Carries
      <4> QED BY <4>1, <4>2
    <3> QED BY <1>3, <2>2, <2>7, <3>1
  <2>8. CASE ~Behind(d)
    <3>1. PICK x \in Days : x >= d /\ \E r \in Quotes : stored'[x][r] # 0
      BY DEF Behind, HasRates
    <3>2. ~HasRates(x)
      BY <2>8, <3>1 DEF Behind
    <3>3. PICK y \in b : y.day = x
      BY <2>4, <3>1, <3>2 DEF HasRates
    <3>4. y \in fx[s].pending /\ d \in 1..y.day
      BY <1>0, <2>5, <3>1, <3>3, FxConstants
    <3>5. d \in late \/ OfDay(fx[s], d)
      <4>1. Shown(d)
        BY <2>2 DEF Shown
      <4> QED BY <1>0, <2>8, <3>4, <4>1 DEF Leaves
    <3>6. CASE d \in late
      BY <1>2, <3>6
    <3>7. CASE OfDay(fx[s], d)
      <4>1. PICK z \in fx[s].pending : z.day = d
        BY <3>7 DEF OfDay
      <4>2. stored[z.day][q] # 0 \/ Carries(fx[s], z.day, q)
        BY <1>0, <2>2, <4>1 DEF InHand
      <4> QED BY <1>1, <2>6, <4>1, <4>2 DEF Carries
    <3> QED BY <3>5, <3>6, <3>7
  <2> QED BY <2>7, <2>8
<1> QED
  BY <1>4, <1>5, <1>6, <1>8, <1>9, <1>10 DEF FxNext, FxStep, EmptyHanded

(* No rate is missing behind the latest stored day but for a day that came *)
(* late, one that a sync left half stored, or one still in hand.           *)
THEOREM HolesKeepAReason == FxSpec => []HolesHaveAReason
<1>1. FxInit => RatesInv /\ HolesInv
  BY FxInitRates, FxInitHoles
<1>2. RatesInv /\ HolesInv /\ [FxNext]_fxVars => RatesInv' /\ HolesInv'
  <2> SUFFICES ASSUME RatesInv, HolesInv, [FxNext]_fxVars
               PROVE  RatesInv' /\ HolesInv'
    OBVIOUS
  <2>1. RatesInv'
    BY RatesStay
  <2>2. \A s \in FxSyncs : Leaves(fx[s])'
    BY LeavesStay
  <2>3. (\A d \in Days, q \in Quotes :
           published[d][q] # 0 /\ stored[d][q] = 0 /\ Behind(d)
             => \/ d \in late \union torn
                \/ \E s \in FxSyncs : Carries(fx[s], d, q))'
    BY HolesStay
  <2> QED BY <2>1, <2>2, <2>3 DEF HolesInv
<1>3. HolesInv => HolesHaveAReason
  <2> SUFFICES ASSUME HolesInv, NEW d \in Days, NEW q \in Quotes,
                      published[d][q] # 0 /\ stored[d][q] = 0,
                      \E x \in Days : x > d /\ HasRates(x)
               PROVE  \/ d \in late \union torn
                      \/ \E s \in FxSyncs : \E p \in fx[s].pending :
                           p.day = d /\ p.quote = q
    BY DEF HolesHaveAReason
  <2>1. Behind(d)
    BY FxConstants DEF Behind
  <2> QED BY <2>1 DEF HolesInv, Carries
<1> QED BY <1>1, <1>2, <1>3, PTL DEF FxSpec

-----------------------------------------------------------------------------
(* Cross rates.  Because a sync stores the oldest rates first, the only    *)
(* day it can have half stored is the first of those it has in hand; when  *)
(* it ends it leaves that one behind.                                      *)

Half == {d \in Days : /\ HasRates(d)
                      /\ \E q \in Quotes : published[d][q] # 0 /\ stored[d][q] = 0}
IsFirst(k, d) == OfDay(k, d) /\ \A y \in k.pending : d <= y.day
Firsts == {d \in Days : \E s \in FxSyncs : IsFirst(fx[s], d)}
Ended == {s \in FxSyncs : fx[s].step = "stopped"}

CrossInv == Cardinality(Half \ Firsts) <= Cardinality(Ended)

LEMMA FirstIsFirst ==
  ASSUME NEW k \in FxRec, NEW d, NEW e, IsFirst(k, d), IsFirst(k, e)
  PROVE  d = e
<1>1. PICK x \in k.pending, y \in k.pending : x.day = d /\ y.day = e
  BY DEF IsFirst, OfDay
<1>2. d <= e /\ e <= d
  BY <1>1 DEF IsFirst
<1>3. d \in Nat /\ e \in Nat
  BY <1>1, FxConstants DEF FxRec, Rate
<1> QED BY <1>2, <1>3

LEMMA PersistHalves ==
  ASSUME RatesInv, NEW s \in FxSyncs, Persist(s)
  PROVE  (Half \ Firsts)' \subseteq Half \ Firsts
<1>0. /\ FxTypeOK /\ InHand(fx[s]) /\ fx \in [FxSyncs -> FxRec]
      /\ fx' \in [FxSyncs -> FxRec]
      /\ \A x \in Days : x \in Nat
  <2>1. RatesInv'
    BY RatesStay DEF FxNext, FxStep
  <2> QED BY <2>1, FxConstants DEF RatesInv, FxTypeOK, FxRec
<1>1. PICK k, n : k = fx[s] /\ n = fx'[s]
  OBVIOUS
<1>2. k \in FxRec /\ n \in FxRec
  BY <1>0, <1>1
<1>3. PICK b \in Batches(k.pending) :
              /\ b \in SUBSET Rate /\ \A p \in b : p.rate # 0
              /\ stored' = Insert(b)
              /\ \/ b = fx[s].pending /\ NextRange(s, Tail(fx[s].queue))
                 \/ /\ b # fx[s].pending
                    /\ fx' \in [FxSyncs -> FxRec] /\ Others(s)
                    /\ fx'[s].step = "persist"
                    /\ fx'[s].pending = fx[s].pending \ b
                    /\ fx'[s].queue = fx[s].queue
  BY <1>0, <1>1, PersistEffect
<1>4. n.pending = k.pending \ b
  <2>1. CASE b = fx[s].pending /\ NextRange(s, Tail(fx[s].queue))
    <3>1. Tail(k.queue) \in Seq(SUBSET Days)
      <4>1. k.step = "persist"
        BY <1>1 DEF Persist
      <4>2. k.queue # <<>> /\ k.queue \in Seq(SUBSET Days)
        BY <1>0, <1>1, <4>1 DEF InHand, FxRec
      <4> QED BY <4>2
    <3>2. n.pending = {}
      BY <1>0, <1>1, <2>1, <3>1, RangeEffect
    <3> QED BY <1>1, <2>1, <3>2
  <2>2. CASE b # fx[s].pending
    BY <1>1, <1>3, <2>2
  <2> QED BY <1>3, <2>1, <2>2
<1>5. /\ \A x \in Days, q \in Quotes :
           stored'[x][q] # 0 <=>
             stored[x][q] # 0 \/ \E p \in b : p.day = x /\ p.quote = q
  BY <1>0, <1>3, InsertEffect
<1>6. Others(s) /\ UNCHANGED published
  BY WhereTo DEF FxStep, Persist
<1>7. /\ b \subseteq k.pending
      /\ \A x \in b, y \in k.pending \ b : x.day <= y.day
  BY DEF Batches
(* A day of the batch, or the first day, that is half stored comes first.  *)
<1>8. ASSUME NEW d \in Half', NEW p \in k.pending, p.day = d,
             p \in b \/ IsFirst(k, d)
      PROVE  IsFirst(n, d)
  <2>1. d \in Days
    BY DEF Half
  <2>2. PICK t \in Quotes : published[d][t] # 0 /\ stored'[d][t] = 0
    BY <1>6 DEF Half
  <2>3. Carries(k, d, t)
    <3>1. stored[d][t] = 0
      BY <1>5, <2>1, <2>2
    <3>2. stored[p.day][t] # 0 \/ Carries(k, p.day, t)
      BY <1>0, <1>1, <1>8, <2>2 DEF InHand
    <3> QED BY <1>8, <3>1, <3>2
  <2>4. PICK z \in k.pending : z.day = d /\ z.quote = t
    BY <2>3 DEF Carries
  <2>5. z \notin b
    BY <1>5, <2>1, <2>2, <2>4
  <2>6. OfDay(n, d)
    BY <1>4, <2>4, <2>5 DEF OfDay
  <2>7. \A y \in n.pending : d <= y.day
    BY <1>4, <1>7, <1>8 DEF IsFirst
  <2> QED BY <2>6, <2>7 DEF IsFirst
<1>9. ASSUME NEW d \in (Half \ Firsts)'
      PROVE  d \in Half \ Firsts
  <2>1. d \in Half' /\ d \in Days
    BY DEF Half
  <2>2. ~IsFirst(n, d) /\ \A r \in FxSyncs : ~IsFirst(fx'[r], d)
    BY <1>1, <2>1 DEF Firsts, IsFirst, OfDay
  <2>3. HasRates(d)
    <3>1. PICK q \in Quotes : stored'[d][q] # 0
      BY <2>1 DEF Half, HasRates
    <3>2. ~ \E p \in b : p.day = d
      BY <1>7, <1>8, <2>1, <2>2
    <3> QED BY <1>5, <2>1, <3>1, <3>2 DEF HasRates
  <2>4. d \in Half
    <3>1. PICK t \in Quotes : published[d][t] # 0 /\ stored'[d][t] = 0
      BY <1>6, <2>1 DEF Half
    <3>2. stored[d][t] = 0
      BY <1>5, <2>1, <3>1
    <3> QED BY <2>1, <2>3, <3>1, <3>2 DEF Half
  <2>5. d \notin Firsts
    <3> SUFFICES ASSUME NEW r \in FxSyncs, IsFirst(fx[r], d) PROVE FALSE
      BY DEF Firsts
    <3>1. CASE r # s
      BY <1>6, <2>2, <3>1 DEF Others
    <3>2. CASE r = s
      <4>1. IsFirst(k, d)
        BY <1>1, <3>2
      <4>2. PICK p \in k.pending : p.day = d
        BY <4>1 DEF IsFirst, OfDay
      <4> QED BY <1>8, <2>1, <2>2, <4>1, <4>2
    <3> QED BY <3>1, <3>2
  <2> QED BY <2>4, <2>5
<1> QED BY <1>9

LEMMA EndedFinite ==
  ASSUME NEW S \in SUBSET FxSyncs
  PROVE  IsFiniteSet(S) /\ Cardinality(S) \in Nat
BY FxAssumption, FS_Subset, FS_CardinalityType

LEMMA DaysFinite ==
  ASSUME NEW S \in SUBSET Days
  PROVE  IsFiniteSet(S) /\ Cardinality(S) \in Nat
BY FxConstants, FS_Subset, FS_CardinalityType

LEMMA CrossInvStays ==
  ASSUME RatesInv, CrossInv, [FxNext]_fxVars
  PROVE  CrossInv'
<1>0. /\ FxTypeOK /\ fx \in [FxSyncs -> FxRec]
      /\ \A s \in FxSyncs : InHand(fx[s])
  BY DEF RatesInv, FxTypeOK, FxRec
<1>1. ASSUME (Half \ Firsts)' \subseteq Half \ Firsts, Ended \subseteq Ended'
      PROVE  CrossInv'
  <2>1. PICK H, H1, E, E1 : /\ H = Half \ Firsts /\ H1 = (Half \ Firsts)'
                            /\ E = Ended /\ E1 = Ended'
    OBVIOUS
  <2>2. H \in SUBSET Days /\ E1 \in SUBSET FxSyncs
    BY <2>1 DEF Half, Ended
  <2>3. Cardinality(H1) <= Cardinality(H) /\ Cardinality(H1) \in Nat
    BY <1>1, <2>1, <2>2, DaysFinite, FS_Subset
  <2>4. Cardinality(E) <= Cardinality(E1) /\ Cardinality(E1) \in Nat
    BY <1>1, <2>1, <2>2, EndedFinite, FS_Subset
  <2>5. Cardinality(H) <= Cardinality(E)
    BY <2>1 DEF CrossInv
  <2>6. Cardinality(H) \in Nat /\ Cardinality(E) \in Nat
    <3>1. E \in SUBSET FxSyncs
      BY <2>1 DEF Ended
    <3> QED BY <2>2, <3>1, DaysFinite, EndedFinite
  <2>7. Cardinality(H1) <= Cardinality(E1)
    BY <2>3, <2>4, <2>5, <2>6
  <2> QED BY <2>1, <2>7 DEF CrossInv
<1>2. ASSUME UNCHANGED <<stored, fx>>, NoneAdded
      PROVE  CrossInv'
  <2>1. Half' \subseteq Half
    <3> SUFFICES ASSUME NEW d \in Days, HasRates(d), NEW q \in Quotes,
                        published'[d][q] # 0, stored[d][q] = 0
                 PROVE  published[d][q] # 0
      BY <1>2 DEF Half, HasRates
    <3>1. Shown(d)
      BY DEF RatesInv, HasRates, Shown
    <3> QED BY <1>2, <3>1 DEF NoneAdded
  <2>2. Firsts' = Firsts /\ Ended' = Ended
    BY <1>2 DEF Firsts, Ended, IsFirst, OfDay
  <2> QED BY <1>1, <2>1, <2>2
(* Steps that take nothing from any hand, and store nothing.               *)
<1>3. ASSUME NEW s \in FxSyncs, UNCHANGED <<stored, published>>, Others(s),
             fx[s].pending = {}, fx[s].step # "stopped"
      PROVE  CrossInv'
  <2>1. Half' = Half
    BY <1>3 DEF Half, HasRates
  <2>2. Ended \subseteq Ended'
    BY <1>3 DEF Ended, Others
  <2>3. Firsts \subseteq Firsts'
    <3> SUFFICES ASSUME NEW d \in Days, NEW r \in FxSyncs, IsFirst(fx[r], d)
                 PROVE  IsFirst(fx'[r], d)
      BY DEF Firsts, IsFirst, OfDay
    <3>1. r # s
      BY <1>3 DEF IsFirst, OfDay
    <3> QED BY <1>3, <3>1 DEF Others
  <2> QED BY <1>1, <2>1, <2>2, <2>3
<1>4. ASSUME NEW s \in FxSyncs, StopFx(s)
      PROVE  CrossInv'
  <2>1. /\ UNCHANGED <<stored, published>> /\ fx[s].step # "stopped"
        /\ fx' = [fx EXCEPT ![s] = [NoFx EXCEPT !.step = "stopped"]]
    BY <1>4 DEF StopFx, FxRunning
  <2>2. Others(s) /\ fx'[s].step = "stopped"
    BY <1>0, <2>1 DEF Others, NoFx
  <2>3. Half' = Half
    BY <2>1 DEF Half, HasRates
  <2>4. Ended' = Ended \union {s} /\ s \notin Ended
    BY <2>1, <2>2 DEF Ended, Others
  <2>5. PICK m : (\E d \in Days : IsFirst(fx[s], d)) => IsFirst(fx[s], m)
    OBVIOUS
  <2>6. (Half \ Firsts)' \subseteq (Half \ Firsts) \union {m}
    <3> SUFFICES ASSUME NEW d \in Half, d \notin Firsts', d # m
                 PROVE  d \notin Firsts
      BY <2>3
    <3> SUFFICES ASSUME NEW r \in FxSyncs, IsFirst(fx[r], d) PROVE FALSE
      BY DEF Firsts
    <3>1. d \in Days
      BY DEF Half
    <3>2. CASE r = s
      <4>1. fx[s] \in FxRec
        BY <1>0
      <4> QED BY <2>5, <3>1, <3>2, <4>1, FirstIsFirst
    <3>3. CASE r # s
      <4>1. fx'[r] = fx[r]
        BY <2>2, <3>3 DEF Others
      <4> QED BY <3>1, <4>1 DEF Firsts, IsFirst, OfDay
    <3> QED BY <3>2, <3>3
  <2>7. PICK H, H1, E, E1 : /\ H = Half \ Firsts /\ H1 = (Half \ Firsts)'
                            /\ E = Ended /\ E1 = Ended'
    OBVIOUS
  <2>8. H \in SUBSET Days /\ E \in SUBSET FxSyncs
    BY <2>7 DEF Half, Ended
  <2>9. IsFiniteSet(H) /\ Cardinality(H) \in Nat /\ IsFiniteSet(E) /\ Cardinality(E) \in Nat
    BY <2>8, DaysFinite, EndedFinite
  <2>10. Cardinality(E1) = Cardinality(E) + 1
    BY <2>4, <2>7, <2>9, FS_AddElement
  <2>11. IsFiniteSet(H \union {m}) /\ Cardinality(H \union {m}) \in Nat
           /\ Cardinality(H \union {m}) <= Cardinality(H) + 1
    <3>1. /\ IsFiniteSet(H \union {m})
          /\ Cardinality(H \union {m}) =
               IF m \in H THEN Cardinality(H) ELSE Cardinality(H) + 1
      BY <2>9, FS_AddElement
    <3> QED BY <2>9, <3>1
  <2>12. Cardinality(H1) <= Cardinality(H \union {m}) /\ Cardinality(H1) \in Nat
    <3>1. H1 \in SUBSET (H \union {m})
      BY <2>6, <2>7
    <3> QED BY <2>11, <3>1, FS_Subset, FS_CardinalityType
  <2>13. Cardinality(H) <= Cardinality(E)
    BY <2>7 DEF CrossInv
  <2>14. Cardinality(H1) <= Cardinality(E1)
    BY <2>9, <2>10, <2>11, <2>12, <2>13
  <2> QED BY <2>7, <2>14 DEF CrossInv
<1>5. ASSUME NEW s \in FxSyncs, Persist(s)
      PROVE  CrossInv'
  <2>1. Others(s) /\ fx[s].step = "persist"
    BY <1>5, WhereTo DEF FxStep, Persist
  <2>2. Ended \subseteq Ended'
    BY <2>1 DEF Ended, Others
  <2> QED BY <1>1, <1>5, <2>2, PersistHalves
<1>6. ASSUME NEW s \in FxSyncs,
             \/ Plan(s) \/ Fetch(s) \/ Aggregate(s) \/ RefreshStats(s)
             \/ LookForActive(s) \/ Activate(s)
             \/ \E back \in BOOLEAN : StartFxSync(s, back)
      PROVE  CrossInv'
  <2>1. Others(s)
    BY <1>6, WhereTo DEF FxStep
  <2>2. UNCHANGED <<stored, published>> /\ fx[s].step \notin {"persist", "stopped"}
    BY <1>6 DEF Plan, Fetch, Aggregate, RefreshStats, LookForActive, Activate,
       StartFxSync, NoFx
  <2>3. fx[s].pending = {}
    BY <1>0, <2>2 DEF InHand
  <2> QED BY <1>3, <2>1, <2>2, <2>3
<1>7. CASE \/ NextDay \/ SetActive \/ UNCHANGED fxVars
           \/ \E d \in Days : Publish(d) \/ \E q \in Quotes : Correct(d, q)
  <2>1. UNCHANGED <<stored, fx>>
    BY <1>7 DEF NextDay, SetActive, Publish, Correct, fxVars
  <2>2. CASE NextDay \/ SetActive \/ UNCHANGED fxVars
    <3>1. UNCHANGED published
      BY <2>2 DEF NextDay, SetActive, fxVars
    <3> QED BY <1>2, <2>1, <3>1 DEF NoneAdded
  <2>3. CASE \E d \in Days : Publish(d)
    BY <1>2, <2>1, <2>3, FixingsGrow
  <2>4. ASSUME NEW d \in Days, NEW q \in Quotes, Correct(d, q) PROVE NoneAdded
    BY <2>4, CorrectionGrows DEF NoneAdded
  <2> QED BY <1>2, <1>7, <2>1, <2>2, <2>3, <2>4
<1> QED BY <1>4, <1>5, <1>6, <1>7 DEF FxNext, FxStep

(* As many syncs have rates in hand as days are the first in a hand.       *)
LEMMA FirstsBounded ==
  ASSUME RatesInv
  PROVE  Cardinality(Firsts) <= Cardinality({s \in FxSyncs : fx[s].step = "persist"})
<1> DEFINE Busy == {s \in FxSyncs : fx[s].step = "persist"}
           owner == [d \in Firsts |-> CHOOSE s \in Busy : IsFirst(fx[s], d)]
<1>1. IsFiniteSet(Busy) /\ IsFiniteSet(Firsts)
      /\ Cardinality(Busy) \in Nat /\ Cardinality(Firsts) \in Nat
  <2>1. Busy \in SUBSET FxSyncs /\ Firsts \in SUBSET Days
    BY DEF Firsts
  <2> QED BY <2>1, DaysFinite, EndedFinite
<1>2. \A d \in Firsts : owner[d] \in Busy /\ IsFirst(fx[owner[d]], d)
  <2> TAKE d \in Firsts
  <2>1. PICK s \in FxSyncs : IsFirst(fx[s], d)
    BY DEF Firsts
  <2>2. s \in Busy
    BY <2>1 DEF RatesInv, InHand, IsFirst, OfDay
  <2> QED BY <2>1, <2>2
<1>3. owner \in [Firsts -> Busy]
  BY <1>2
<1>4. \A d, e \in Firsts : owner[d] = owner[e] => d = e
  <2> HIDE DEF owner
  <2> TAKE d, e \in Firsts
  <2> HAVE owner[d] = owner[e]
  <2>1. fx[owner[d]] \in FxRec
    BY <1>2 DEF RatesInv, FxTypeOK, FxRec
  <2> QED BY <1>2, <2>1, FirstIsFirst
<1> HIDE DEF owner, Busy
<1>5. ~(Cardinality(Busy) < Cardinality(Firsts))
  BY <1>1, <1>3, <1>4, FS_PigeonHole
<1> QED BY <1>1, <1>5 DEF Busy

LEMMA CrossDaysBounded ==
  ASSUME RatesInv, CrossInv
  PROVE  CrossOfOneDay
<1> DEFINE mixed == {d \in Days : \E f, t \in Quotes :
                       /\ RateOnOrBefore(f, d).day = d
                       /\ RateOnOrBefore(t, d).day < d
                       /\ published[d][t] # 0}
           Busy == {s \in FxSyncs : fx[s].step = "persist"}
           Begun == {s \in FxSyncs : fx[s].step # "off"}
<1>1. mixed \subseteq Half
  <2> SUFFICES ASSUME NEW d \in Days, NEW f \in Quotes, NEW t \in Quotes,
                      RateOnOrBefore(f, d).day = d,
                      RateOnOrBefore(t, d).day < d, published[d][t] # 0
               PROVE  d \in Half
    OBVIOUS
  <2>1. f \in Currencies /\ t \in Currencies /\ f # Base /\ t # Base
    BY FxAssumption DEF Currencies
  <2>2. stored[d][f] # 0
    BY <2>1, RateOfTheDay
  <2>3. RateOnOrBefore(t, d).day # d
    BY FxConstants
  <2>4. stored[d][t] = 0
    BY <2>1, <2>3, RateOfTheDay
  <2> QED BY <2>2, <2>4 DEF Half, HasRates
<1>2. Half \in SUBSET Days /\ Firsts \in SUBSET Days
  BY DEF Half, Firsts
<1>3. Busy \in SUBSET FxSyncs /\ Ended \in SUBSET FxSyncs /\ Begun \in SUBSET FxSyncs
  BY DEF Ended
<1>4. Busy \intersect Ended = {} /\ Busy \union Ended \subseteq Begun
  BY DEF Ended
<1>5. Cardinality(Firsts) <= Cardinality(Busy)
  BY FirstsBounded
<1>6. Cardinality(Half \ Firsts) <= Cardinality(Ended)
  BY DEF CrossInv
<1> HIDE DEF mixed, Busy, Begun
<1>7. /\ Cardinality(mixed) <= Cardinality(Half) /\ Cardinality(mixed) \in Nat
      /\ Cardinality(Half) \in Nat /\ IsFiniteSet(Half)
  BY <1>1, <1>2, DaysFinite, FS_Subset
<1>8. Cardinality(Half) <= Cardinality(Half \ Firsts) + Cardinality(Firsts)
  <2> DEFINE U == (Half \ Firsts) \union Firsts
  <2>1. /\ IsFiniteSet(Half \ Firsts) /\ IsFiniteSet(Firsts)
        /\ Cardinality(Half \ Firsts) \in Nat /\ Cardinality(Firsts) \in Nat
    <3>1. Half \ Firsts \in SUBSET Days
      BY <1>2
    <3> QED BY <1>2, <3>1, DaysFinite
  <2>2. (Half \ Firsts) \intersect Firsts = {}
    OBVIOUS
  <2>3. IsFiniteSet(U) /\ Cardinality(U) = Cardinality(Half \ Firsts) + Cardinality(Firsts)
    <3>1. Cardinality((Half \ Firsts) \intersect Firsts) = 0
      BY <2>2, FS_EmptySet
    <3>2. /\ IsFiniteSet(U)
          /\ Cardinality(U) = Cardinality(Half \ Firsts) + Cardinality(Firsts)
                                - Cardinality((Half \ Firsts) \intersect Firsts)
      BY <2>1, FS_Union
    <3> QED BY <2>1, <3>1, <3>2
  <2>4. Half \subseteq U
    OBVIOUS
  <2> HIDE DEF U
  <2>5. Cardinality(Half) <= Cardinality(U)
    BY <2>3, <2>4, FS_Subset
  <2> QED BY <2>3, <2>5
<1>9. Cardinality(Busy) + Cardinality(Ended) <= Cardinality(Begun)
  <2>1. /\ IsFiniteSet(Busy) /\ IsFiniteSet(Ended) /\ IsFiniteSet(Begun)
        /\ Cardinality(Busy) \in Nat /\ Cardinality(Ended) \in Nat
        /\ Cardinality(Begun) \in Nat
    BY <1>3, EndedFinite
  <2>2. Cardinality(Busy \union Ended) = Cardinality(Busy) + Cardinality(Ended)
    <3>1. Cardinality(Busy \intersect Ended) = 0
      BY <1>4, FS_EmptySet
    <3>2. Cardinality(Busy \union Ended) =
            Cardinality(Busy) + Cardinality(Ended) - Cardinality(Busy \intersect Ended)
      BY <2>1, FS_Union
    <3> QED BY <2>1, <3>1, <3>2
  <2>3. Cardinality(Busy \union Ended) <= Cardinality(Begun)
    BY <1>4, <2>1, FS_Subset
  <2> QED BY <2>2, <2>3
<1>10. /\ Cardinality(Half \ Firsts) \in Nat /\ Cardinality(Firsts) \in Nat
       /\ Cardinality(Busy) \in Nat /\ Cardinality(Ended) \in Nat
       /\ Cardinality(Begun) \in Nat
  <2>1. Half \ Firsts \in SUBSET Days
    BY <1>2
  <2> QED BY <1>2, <1>3, <2>1, DaysFinite, EndedFinite
<1>11. Cardinality(mixed) <= Cardinality(Begun)
  BY <1>5, <1>6, <1>7, <1>8, <1>9, <1>10
<1> QED BY <1>11 DEF mixed, Begun, CrossOfOneDay

(* The two rates of a cross rate are of one day where the provider has     *)
(* both, but for one day for each sync that has begun.                     *)
THEOREM CrossDaysAgree == FxSpec => []CrossOfOneDay
<1>1. FxInit => RatesInv /\ CrossInv
  <2> SUFFICES ASSUME FxInit PROVE CrossInv
    BY FxInitRates
  <2>1. Half \ Firsts = {}
    BY DEF FxInit, NoRates, Half, HasRates
  <2>2. Cardinality(Ended) \in Nat
    BY EndedFinite DEF Ended
  <2> QED BY <2>1, <2>2, FS_EmptySet DEF CrossInv
<1>2. RatesInv /\ CrossInv /\ [FxNext]_fxVars => RatesInv' /\ CrossInv'
  BY RatesStay, CrossInvStays
<1> QED BY <1>1, <1>2, CrossDaysBounded, PTL DEF FxSpec
=============================================================================
