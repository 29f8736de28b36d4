------------------------------ MODULE Accruals ------------------------------
(***************************************************************************)
(* Accruals for goods that were ordered and not invoiced yet               *)
(* (accruals.service.ts): a generation reads the open orders once and then *)
(* creates or updates a draft for each; an accrual goes through a chain of *)
(* approvals and is posted to the accounting system.                       *)
(*                                                                         *)
(* Every call checks the row it read and writes in a later database call,  *)
(* so calls of two users interleave.  One action is one database call; a   *)
(* call may stop after any of them.  A definition Name_Slip is Name with a *)
(* plausible slip, which a property below must catch; nothing refers to it.*)
(*                                                                         *)
(* Left out: the fields copied from the order; the audit entries, which    *)
(* follow the last write.                                                  *)
(***************************************************************************)
EXTENDS Naturals, FiniteSets

CONSTANTS
  Purchases,  \* purchase order ids
  Rows,       \* ids of accruals
  Calls,      \* slots for calls served at the same time
  Stages,     \* the length of the approval chain
  MaxDue,     \* bound: what remains to be invoiced of an order
  Nothing     \* no id

ASSUME StagesAssumption == Stages \in Nat \ {0} /\ MaxDue \in Nat \ {0}

ASSUME CallsAssumption == IsFiniteSet(Calls)

ASSUME NothingAssumption == Nothing \notin Rows \union Purchases

VARIABLES
  due,        \* what remains to be invoiced of an order that is open, else 0
  accrual,    \* the ApAccrual rows
  call,       \* the calls in flight
  advanced,   \* history: the approvals of an accrual
  posted,     \* history: how often an accrual was posted
  orderly     \* whether calls are served one after the other

accrualVars == <<due, accrual, call, advanced, posted, orderly>>

NoRow == [po |-> Nothing, status |-> "absent", stage |-> 0, amount |-> 0]
NoCall == [op |-> "none", todo |-> [p \in {} |-> 0], po |-> Nothing,
           row |-> Nothing, stage |-> 0]

AccrualsInit ==
  /\ due = [p \in Purchases |-> 0]
  /\ accrual = [a \in Rows |-> NoRow]
  /\ call = [c \in Calls |-> NoCall]
  /\ advanced = [a \in Rows |-> 0]
  /\ posted = [a \in Rows |-> 0]
  /\ orderly \in BOOLEAN

Free(c) == /\ call[c] = NoCall
           /\ orderly => \A d \in Calls : call[d] = NoCall
Hang(c) == call' = [call EXCEPT ![c] = NoCall]
Has(a, status) == accrual[a].status = status

(* A new row gets an id that is not in use.                                *)
NewRow == CHOOSE a \in Rows : Has(a, "absent")

-----------------------------------------------------------------------------
(* Orders are issued, received, closed and cancelled, and invoices are     *)
(* matched to them.                                                        *)
OrderMoves(p) ==
  /\ due' \in {[due EXCEPT ![p] = n] : n \in 0..MaxDue}
  /\ UNCHANGED <<accrual, call, advanced, posted, orderly>>

-----------------------------------------------------------------------------
(* generateFromOpenPos *)

StartGenerate(c) ==
  /\ Free(c) /\ \E p \in Purchases : due[p] > 0
  /\ call' = [call EXCEPT ![c].op = "generate", ![c].todo =
                [p \in {q \in Purchases : due[q] > 0} |-> due[p]]]
  /\ UNCHANGED <<due, accrual, advanced, posted, orderly>>

FindDraft_Unsent(c) ==
  /\ call[c].op = "generate" /\ call[c].po = Nothing
  /\ \E p \in DOMAIN call[c].todo :
       LET found == {a \in Rows : accrual[a].po = p /\ ~Has(a, "posted")}
       IN  \E a \in IF found = {} THEN {Nothing} ELSE found :
             call' = [call EXCEPT ![c].po = p, ![c].row = a]
  /\ UNCHANGED <<due, accrual, advanced, posted, orderly>>

FindDraft_OfThisAmount(c) ==
  /\ call[c].op = "generate" /\ call[c].po = Nothing
  /\ \E p \in DOMAIN call[c].todo :
       LET found == {a \in Rows : accrual[a].po = p /\ Has(a, "draft")
                                 /\ accrual[a].amount = call[c].todo[p]}
       IN  \E a \in IF found = {} THEN {Nothing} ELSE found :
             call' = [call EXCEPT ![c].po = p, ![c].row = a]
  /\ UNCHANGED <<due, accrual, advanced, posted, orderly>>

(* Any one of the drafts of the order is found.                            *)
FindDraft(c) ==
  /\ call[c].op = "generate" /\ call[c].po = Nothing
  /\ \E p \in DOMAIN call[c].todo :
       LET drafts == {a \in Rows : accrual[a].po = p /\ Has(a, "draft")}
       IN  \E a \in IF drafts = {} THEN {Nothing} ELSE drafts :
             call' = [call EXCEPT ![c].po = p, ![c].row = a]
  /\ UNCHANGED <<due, accrual, advanced, posted, orderly>>

(* The amount that was read at the start goes to the draft that was found, *)
(* whatever its status is now, or to a new one.                            *)
WriteDraft(c) ==
  LET p == call[c].po
      amount == call[c].todo[p]
      rest == DOMAIN call[c].todo \ {p}
  IN  /\ call[c].op = "generate" /\ p # Nothing
      /\ \/ /\ call[c].row # Nothing
            /\ accrual' = [accrual EXCEPT ![call[c].row].amount = amount]
         \/ /\ call[c].row = Nothing
            /\ \E a \in Rows : Has(a, "absent")
            /\ accrual' = [accrual EXCEPT ![NewRow] =
                 [po |-> p, status |-> "draft", stage |-> 0,
                  amount |-> amount]]
      /\ call' = [call EXCEPT ![c] = IF rest = {} THEN NoCall ELSE
                    [@ EXCEPT !.po = Nothing, !.row = Nothing,
                              !.todo = [q \in rest |-> call[c].todo[q]]]]
      /\ UNCHANGED <<due, advanced, posted, orderly>>

-----------------------------------------------------------------------------
(* sendForApproval, advanceApproval and postToErp: read the row, check its *)
(* status, write in a later call.                                          *)

Begin(c, op, a, status) ==
  /\ Free(c) /\ Has(a, status)
  /\ call' = [call EXCEPT ![c].op = op, ![c].row = a,
                          ![c].stage = accrual[a].stage]
  /\ UNCHANGED <<due, accrual, advanced, posted, orderly>>

StartSend(c, a) == Begin(c, "send", a, "draft")
StartAdvance(c, a) == Begin(c, "advance", a, "in_approval")
StartPost(c, a) == Begin(c, "post", a, "approved")

Send(c) ==
  /\ call[c].op = "send"
  /\ accrual' = [accrual EXCEPT ![call[c].row].status = "in_approval",
                                ![call[c].row].stage = 1]
  /\ Hang(c)
  /\ UNCHANGED <<due, advanced, posted, orderly>>

Advance_ReachesLast(c) ==
  LET a == call[c].row
      next == call[c].stage + 1
  IN  /\ call[c].op = "advance"
      /\ accrual' = [accrual EXCEPT ![a] =
           IF next >= Stages THEN [@ EXCEPT !.status = "approved", !.stage = Stages]
           ELSE [@ EXCEPT !.stage = next]]
      /\ advanced' = [advanced EXCEPT ![a] = @ + 1]
      /\ Hang(c)
      /\ UNCHANGED <<due, posted, orderly>>

(* The last approval sets the status, the others only the stage.           *)
Advance(c) ==
  LET a == call[c].row
      next == call[c].stage + 1
  IN  /\ call[c].op = "advance"
      /\ accrual' = [accrual EXCEPT ![a] =
           IF next > Stages THEN [@ EXCEPT !.status = "approved", !.stage = Stages]
           ELSE [@ EXCEPT !.stage = next]]
      /\ advanced' = [advanced EXCEPT ![a] = @ + 1]
      /\ Hang(c)
      /\ UNCHANGED <<due, posted, orderly>>

(* postToErp records the posting; the accounting system is a mock.         *)
Post(c) ==
  LET a == call[c].row
  IN  /\ call[c].op = "post"
      /\ accrual' = [accrual EXCEPT ![a].status = "posted"]
      /\ posted' = [posted EXCEPT ![a] = @ + 1]
      /\ Hang(c)
      /\ UNCHANGED <<due, advanced, orderly>>

(* A database error, or the end of the process.                            *)
Break(c) ==
  /\ call[c] # NoCall
  /\ Hang(c)
  /\ UNCHANGED <<due, accrual, advanced, posted, orderly>>

-----------------------------------------------------------------------------
AccrualsNext ==
  \/ \E p \in Purchases : OrderMoves(p)
  \/ \E c \in Calls :
       \/ StartGenerate(c) \/ FindDraft(c) \/ WriteDraft(c)
       \/ \E a \in Rows : StartSend(c, a) \/ StartAdvance(c, a) \/ StartPost(c, a)
       \/ Send(c) \/ Advance(c) \/ Post(c) \/ Break(c)

AccrualsSpec == AccrualsInit /\ [][AccrualsNext]_accrualVars

-----------------------------------------------------------------------------
(* Properties *)

DraftsOf(p) == {a \in Rows : accrual[a].po = p /\ Has(a, "draft")}

(* An order has one draft, however often accruals are generated; where     *)
(* generations overlap, one for each of them at most.                      *)
DraftsPerOverlap ==
  \A p \in Purchases :
    Cardinality(DraftsOf(p)) <= IF orderly THEN 1 ELSE Cardinality(Calls)

(* An accrual is posted only after every stage of the chain was approved,  *)
(* whatever overlaps, and once if nothing does.  (An approval that         *)
(* overlaps a posting takes the accrual back to "approved", and it can be  *)
(* posted again.)                                                          *)
PostedAfterChain ==
  \A a \in Rows :
    /\ posted[a] > 0 => advanced[a] >= Stages
    /\ orderly => posted[a] <= 1 /\ advanced[a] <= Stages

(* If nothing overlaps, the amount that was sent for approval is the one   *)
(* that is posted.                                                         *)
SentAmountStays ==
  [][\A a \in Rows :
       orderly /\ ~Has(a, "absent") /\ accrual'[a].amount # accrual[a].amount
         => Has(a, "draft")]_accrualVars
=============================================================================
