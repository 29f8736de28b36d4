----------------------------- MODULE MCFinance -----------------------------
(* Small instances of PurchaseOrders, Accruals, ErpSync and FxRates.  They *)
(* share no variable: what one sees of another moves freely in its own     *)
(* module.  So each is checked with the others at rest.                    *)
EXTENDS PurchaseOrders, Accruals, ErpSync, FxRates, TLC

CONSTANTS l1, l2, q1, q2

VARIABLE part  \* which of the four a behaviour is about

-----------------------------------------------------------------------------
(* Purchase orders *)

Entry(n, l, q) == [no |-> n, line |-> l, qty |-> q]

(* Two lines, one line with a quantity and one without, no line at all.    *)
MCTables == {(l1 :> 2 @@ l2 :> 1), (l1 :> 1 @@ l2 :> None), [l \in {} |-> 0]}

BeforeWriting == {"writeLines"}

(* The remaining quantities, part of a line, both lines, or a line twice.  *)
MCReceipts == {{}, {Entry(1, l1, 1)}, {Entry(1, l1, 2)},
               {Entry(1, l1, 1), Entry(2, l2, 1)},
               {Entry(1, l1, 1), Entry(2, l1, 2)}}

-----------------------------------------------------------------------------
(* Accruals: one at a time goes further than a draft, and not much further *)

Sent == {a \in Rows : accrual[a].status \notin {"absent", "draft"}}
AccrualsScope == /\ Cardinality(Sent) <= 1
                 /\ \A a \in Rows : posted[a] <= 2 /\ advanced[a] <= 4

-----------------------------------------------------------------------------
(* Connectors: two invoices in one sync, or one invoice in two that        *)
(* overlap, and one connection at a time is not as it was at first.        *)

Connected == [p \in Packs |-> IF p = "demo" THEN "mock" ELSE "live"]
Fresh == [status |-> "open", exported |-> FALSE]

ErpPart ==
  /\ \/ /\ invoice = [i \in Invoices |-> Fresh]
        /\ \E x \in Syncs : sync = [s \in Syncs |->
              IF s = x THEN NoSync ELSE [NoSync EXCEPT !.step = "done"]]
     \/ /\ \E x \in Invoices : invoice = [i \in Invoices |->
              IF i = x THEN Fresh ELSE [Fresh EXCEPT !.status = "void"]]
        /\ sync = [s \in Syncs |-> NoSync]
  /\ connection = Connected
  /\ bills = [p \in Erps |-> [i \in Invoices |-> 0]]
  /\ jobs = [s \in Syncs |-> {}]
  /\ written = {} /\ lost = {} /\ broken = {}
  /\ meanwhile = [s \in Syncs |-> {}]

ErpScope == Cardinality({p \in Packs : connection[p] # Connected[p]}) <= 1

-----------------------------------------------------------------------------
(* Exchange rates: the choice of a table matters before there are rates;   *)
(* one rate is corrected, after it was stored; and syncs overlap in the    *)
(* first days.                                                             *)

(* Different rates from day to day; the second currency is not fixed on    *)
(* the second day.                                                         *)
MCFixings ==
  [d \in 1..LastDay |-> q1 :> 1 + (d % 2) @@ q2 :> IF d = 2 THEN 0 ELSE 3]

Corrected == {<<d, q>> \in Days \X Quotes : published[d][q] > Fixings[d][q]}
FxScope ==
  /\ Cardinality(Corrected) <= 1 /\ Corrected \subseteq Rated(stored)
  /\ (\A s \in FxSyncs : FxRunning(s)) => today < LastDay
  /\ choice # NoTable => published = NoRates

-----------------------------------------------------------------------------
Parts == {"orders", "accruals", "erp", "fx"}

FinanceInit ==
  /\ part \in Parts
  /\ Init /\ (part # "orders" => serial)
  /\ AccrualsInit /\ (part # "accruals" => orderly)
  /\ IF part = "erp" THEN ErpPart ELSE ErpInit
  /\ FxInit

FinanceNext ==
  /\ \/ /\ part = "orders" /\ Next
        /\ UNCHANGED <<accrualVars, erpVars, fxVars>>
     \/ /\ part = "accruals" /\ AccrualsNext
        /\ UNCHANGED <<vars, erpVars, fxVars>>
     \/ /\ part = "erp" /\ ErpNext
        /\ UNCHANGED <<vars, accrualVars, fxVars>>
     \/ /\ part = "fx" /\ FxNext
        /\ UNCHANGED <<vars, accrualVars, erpVars>>
  /\ UNCHANGED part

FinanceSpec ==
  FinanceInit /\ [][FinanceNext]_<<vars, accrualVars, erpVars, fxVars, part>>

Scope == /\ part = "accruals" => AccrualsScope
         /\ part = "erp" => ErpScope
         /\ part = "fx" => FxScope

Symmetric == Permutations(Invoices) \union Permutations(Syncs)
               \union Permutations(FxSyncs)
=============================================================================
