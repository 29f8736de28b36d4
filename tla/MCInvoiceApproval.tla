------------------------- MODULE MCInvoiceApproval -------------------------
(* Small instances of InvoiceApproval.                                     *)
EXTENDS InvoiceApproval, TLC

CONSTANTS clerk, boss, admin

(* Totals are 1, under the automatic limit of the policies below, and 2.   *)
Complete(n, t) == [number |-> n, total |-> t, coded |-> TRUE]

MCDrafts == {Complete(1, 1), Complete(1, 2), Blank}
MCBigDrafts == {Complete(1, 2), [Complete(1, 2) EXCEPT !.total = None]}
MCOneDraft == {Complete(1, 2)}

NoDelegation == [u \in Users |-> u]

(* Everything over total 1 goes to the boss, or to the admin when the boss *)
(* is the submitter; own approval is blocked.                              *)
Default == [auto |-> {1}, pool |-> [t \in 1..2 |-> {boss} \cap Users],
            admins |-> {boss, admin} \cap Users, blockOwn |-> TRUE,
            conflicts |-> {}, delegate |-> NoDelegation]
Unstaffed == [Default EXCEPT !.blockOwn = FALSE, !.pool = [t \in 1..2 |-> {}],
                             !.admins = {}]
Away == [Default EXCEPT !.delegate = [NoDelegation EXCEPT ![boss] = clerk],
                        !.conflicts = {<<boss, clerk>>}]

MCDefaultPolicy == {Default}
MCBlocking == {Default, Away}
MCUnstaffed == {Unstaffed, Default}

(* Where requests stop: nowhere; before the first of the writes that       *)
(* belong together; anywhere but before an approved invoice is billed.     *)
Never == {}
AtGates == {"extract", "write", "evaluate", "reread", "setStatus", "guard",
            "route", "canApprove"}
BeforeBilling == Steps \ {"idle", "bill"}

NoDrafts == {}

(* Starts with every invoice captured, complete, of total t and with a     *)
(* number of its own: the run about metering needs no editing.              *)
Captured(t) ==
  /\ status = [i \in Invoices |-> "needs_review"]
  /\ LET number == CHOOSE n \in [Invoices -> 1..Cardinality(Invoices)] :
                     \A i, j \in Invoices : n[i] = n[j] => i = j
     IN  fields = [i \in Invoices |-> Complete(number[i], t)]
  /\ submittedBy = [i \in Invoices |-> None] /\ age = [i \in Invoices |-> 0]
  /\ pending = {} /\ round = [i \in Invoices |-> 0]
  /\ billed = {} /\ mtd = {} /\ copies = [i \in Invoices |-> 0]
  /\ policy \in Policies /\ req = [r \in Requests |-> Idle]

(* Only the requests that may approve an invoice are sent.                 *)
ApprovingNext ==
  \/ \E r \in Requests :
       \/ \E i \in Invoices, u \in Users :
            StartSubmit(r, i, u) \/ StartForce(r, i, u)
       \/ Step(r)
  \/ NewMonth

FairApprovingSpec ==
  /\ Captured(1) /\ [][ApprovingNext]_vars
  /\ \A r \in Requests : WF_vars(Step(r))

(* One invoice has no double, whatever its age.                            *)
TimelessSpec ==
  Init /\ [][(\E r \in Requests : Start(r) \/ Step(r) \/ Fail(r)) \/ NewMonth]_vars

(* At most one invoice is submitted twice, and a new month is not looked   *)
(* at together with invoices that are old.                                 *)
SerialScope ==
  /\ \A i, j \in Invoices : round[i] > 1 /\ round[j] > 1 => i = j
  /\ mtd = billed \/ \A i \in Invoices : age[i] = 0

MCSymmetry == Permutations(Requests) \union Permutations(Invoices)
=============================================================================
