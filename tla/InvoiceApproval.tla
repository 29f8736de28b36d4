-------------------------- MODULE InvoiceApproval --------------------------
(***************************************************************************)
(* The life of an invoice of one tenant, from capture to export, as the    *)
(* HTTP requests of the API drive it (invoices, invoice-rules, workflow,   *)
(* usage, capture and integration services).                               *)
(*                                                                         *)
(* Every awaited Prisma call is a transaction of its own, so a handler is  *)
(* not atomic: requests served at the same time interleave between their   *)
(* database calls, each acting on what it read before.  A request is a     *)
(* record of its local variables and of the call it is about to make (pc); *)
(* one action is one call, with the code up to the next.  With a single    *)
(* element in Requests the handlers run one after the other.               *)
(*                                                                         *)
(* A definition Name_Slip is Name with a plausible slip, which a property  *)
(* below must catch; nothing refers to it.                                 *)
(*                                                                         *)
(* Left out: audit entries, notifications, webhooks and comments, which    *)
(* change no state read here; the rows of InvoiceException, which no guard *)
(* reads; the statuses captured and paid, which no code assigns.           *)
(***************************************************************************)
EXTENDS Naturals, FiniteSets

CONSTANTS
  Invoices,   \* invoice ids
  Users,      \* users of the tenant
  Requests,   \* slots for requests served at the same time
  None,       \* SQL NULL
  Totals,     \* invoice totals
  Drafts,     \* the contents OCR or a user may give an invoice
  Policies,   \* the approval configurations an administrator may set
  HardLimit,  \* Tenant.approvedHardLimit
  Lookback,   \* DUP_LOOKBACK_DAYS: how old a double may be to count
  MaxRound,   \* bound: submissions that create tasks, per invoice
  MaxCopies,  \* bound: export files that hold an invoice
  FailAt      \* the calls at which a request may stop

ASSUME FinitenessAssumption ==
  /\ IsFiniteSet(Invoices) /\ IsFiniteSet(Requests) /\ Requests # {}
  /\ HardLimit \in Nat /\ Lookback \in Nat

(* The users a policy names are users of the tenant.                       *)
ASSUME PolicyAssumption ==
  \A p \in Policies :
    /\ p.pool \in [Totals -> SUBSET Users]
    /\ p.admins \subseteq Users
    /\ p.delegate \in [Users -> Users]

ASSUME DraftAssumption ==
  \A d \in Drafts : d.total \in Totals \union {None} /\ d.coded \in BOOLEAN

(* A draft's coded field stands for the checks on the invoice alone:       *)
(* currency, entity, vendor and tax sum.                                   *)
Blank == [number |-> None, total |-> None, coded |-> FALSE]
Contents == Drafts \union {Blank}

(* The round and the policy of the submission that made a task are history. *)
Tasks == [inv : Invoices, to : Users, round : Nat, under : Policies]

Status == {"absent", "extracting", "needs_review", "exception",
           "in_approval", "approved", "exported", "void"}
Locked_NotInApproval == {"approved", "exported", "void"}
Locked == {"in_approval", "approved", "exported", "void"}
Decided == {"approved", "exported"}

Ops == {"capture", "update", "validate", "resolve", "submit", "submitInvoice",
        "force", "recall", "approve", "reject", "export"}
Steps == {"idle", "extract", "write", "evaluate", "reread", "setStatus",
          "guard", "route", "closeTasks", "assign", "enterApproval",
          "canApprove", "decide", "limit", "markApproved", "bill", "sendBack",
          "writeFile", "markExported"}

Idle == [pc |-> "idle", op |-> None, inv |-> None, user |-> None,
         task |-> None, to |-> {}, blocking |-> FALSE, draft |-> Blank,
         batch |-> {}]

VARIABLES
  status,       \* Invoice.status
  fields,       \* the editable contents of the invoice
  submittedBy,  \* Invoice.submittedById
  age,          \* days since Invoice.createdAt, counted to Lookback + 1
  pending,      \* the approval tasks in status pending
  round,        \* number of submissions that created tasks
  billed,       \* invoices with an invoice.approved usage event
  mtd,          \* those among them whose event is of this month
  copies,       \* number of export files that hold the invoice
  policy,       \* approval policy, rules, SoD policies and delegations
  req           \* the requests in flight

invoiceVars == <<status, fields, submittedBy, age>>
taskVars == <<pending, round>>
meterVars == <<billed, mtd>>
vars == <<status, fields, submittedBy, age, pending, round, billed, mtd,
          copies, policy, req>>

Init ==
  /\ status = [i \in Invoices |-> "absent"]
  /\ fields = [i \in Invoices |-> Blank]
  /\ submittedBy = [i \in Invoices |-> None]
  /\ age = [i \in Invoices |-> 0]
  /\ pending = {}
  /\ round = [i \in Invoices |-> 0]
  /\ billed = {} /\ mtd = {}
  /\ copies = [i \in Invoices |-> 0]
  /\ policy \in Policies
  /\ req = [r \in Requests |-> Idle]

-----------------------------------------------------------------------------
(* Requests *)

At(r, p) == req[r].pc = p
Goto(r, p) == req' = [req EXCEPT ![r].pc = p]
Finish(r) == req' = [req EXCEPT ![r] = Idle]
Quiet == \A r \in Requests : At(r, "idle")

(* A handler starts, has read what its guard needs, and is about to make   *)
(* the call p.                                                             *)
Begin(r, o, i, u, p) ==
  /\ At(r, "idle")
  /\ req' = [req EXCEPT ![r] = [Idle EXCEPT !.pc = p, !.op = o, !.inv = i,
                                            !.user = u]]

-----------------------------------------------------------------------------
(* Pure parts of the services *)

Recent(i) == age[i] <= Lookback

(* The duplicate query of evaluate, over the invoices that are not older   *)
(* than DUP_LOOKBACK_DAYS; number stands for the pair of vendor and        *)
(* invoice number.                                                         *)
Duplicate(i) ==
  \E j \in Invoices \ {i} :
    /\ status[j] \notin {"absent", "void"} /\ Recent(j)
    /\ fields[j].number = fields[i].number

(* InvoiceValidationService.evaluate: are there blocking issues?           *)
Blocking(i) ==
  \/ fields[i].number = None
  \/ fields[i].total = None
  \/ ~fields[i].coded
  \/ Duplicate(i)

(* May v approve, under the policy p, what u submitted?                    *)
Independent(p, u, v) == ~(p.blockOwn /\ v = u) /\ <<u, v>> \notin p.conflicts

(* applySodAssigneeFilter for the submitter u.                             *)
SodFilter(S, u) == {v \in S : Independent(policy, u, v)}

Assignees_AnyAdmin(total, u) ==
  LET pool == SodFilter(policy.pool[total], u)
      candidates == IF pool # {} THEN pool ELSE policy.admins
  IN  {policy.delegate[v] : v \in candidates}

(* Candidates of submitInvoice: the role or canApprove pool, else the      *)
(* admins, both SoD-filtered, then replaced by their delegates.            *)
Assignees(total, u) ==
  LET pool == SodFilter(policy.pool[total], u)
      candidates == IF pool # {} THEN pool ELSE SodFilter(policy.admins, u)
  IN  {policy.delegate[v] : v \in candidates}

(* assertCanApprove.                                                       *)
CanApprove(i, u) == Independent(policy, submittedBy[i], u)

HardBlocked == Cardinality(mtd) >= HardLimit

PendingOf(i) == {t \in pending : t.inv = i}

-----------------------------------------------------------------------------
(* CaptureService.uploadAndExtract: the row is created before it is filled *)

StartCapture(r, i) ==
  /\ status[i] = "absent"
  /\ Begin(r, "capture", i, None, "extract")
  /\ status' = [status EXCEPT ![i] = "extracting"]
  /\ UNCHANGED <<fields, submittedBy, age, taskVars, meterVars, copies, policy>>

Extract(r) ==
  /\ At(r, "extract")
  /\ \E d \in Drafts : fields' = [fields EXCEPT ![req[r].inv] = d]
  /\ status' = [status EXCEPT ![req[r].inv] = "needs_review"]
  /\ Goto(r, "evaluate")
  /\ UNCHANGED <<submittedBy, age, taskVars, meterVars, copies, policy>>

-----------------------------------------------------------------------------
(* InvoiceValidationService.syncExceptions, and what its callers do next   *)

Evaluate(r) ==
  /\ At(r, "evaluate")
  /\ req' = [req EXCEPT ![r].blocking = Blocking(req[r].inv),
                        ![r].pc = "reread"]
  /\ UNCHANGED <<invoiceVars, taskVars, meterVars, copies, policy>>

(* The call that follows a gate with no blocking issue.                    *)
AfterGate == [submit |-> "guard", submitInvoice |-> "route",
              force |-> "canApprove"]

AfterSync(r) ==
  IF req[r].op \in DOMAIN AfterGate /\ ~req[r].blocking
  THEN Goto(r, AfterGate[req[r].op])
  ELSE Finish(r)

MustSetStatus_AnyStatus(r) ==
  IF req[r].blocking
  THEN status[req[r].inv] # "exception"
  ELSE status[req[r].inv] = "exception"

MustSetStatus(r) ==
  IF req[r].blocking
  THEN status[req[r].inv] \in {"needs_review", "extracting"}
  ELSE status[req[r].inv] = "exception"

Reread(r) ==
  /\ At(r, "reread")
  /\ IF MustSetStatus(r) THEN Goto(r, "setStatus") ELSE AfterSync(r)
  /\ UNCHANGED <<invoiceVars, taskVars, meterVars, copies, policy>>

(* The write that follows uses the status read by the call before it.      *)
SetStatus(r) ==
  /\ At(r, "setStatus")
  /\ status' = [status EXCEPT ![req[r].inv] =
                  IF req[r].blocking THEN "exception" ELSE "needs_review"]
  /\ AfterSync(r)
  /\ UNCHANGED <<fields, submittedBy, age, taskVars, meterVars, copies, policy>>

-----------------------------------------------------------------------------
(* InvoicesService: update, validate, resolveExceptions, void              *)

StartUpdate(r, i, d) ==
  /\ status[i] \notin Locked \union {"absent"}
  /\ At(r, "idle")
  /\ req' = [req EXCEPT ![r] = [Idle EXCEPT !.pc = "write", !.op = "update",
                                            !.inv = i, !.draft = d]]
  /\ UNCHANGED <<invoiceVars, taskVars, meterVars, copies, policy>>

Write(r) ==
  /\ At(r, "write")
  /\ fields' = [fields EXCEPT ![req[r].inv] = req[r].draft]
  /\ req' = [req EXCEPT ![r].pc = "evaluate", ![r].draft = Blank]
  /\ UNCHANGED <<status, submittedBy, age, taskVars, meterVars, copies, policy>>

StartValidate(r, i) ==
  /\ status[i] # "absent"
  /\ Begin(r, "validate", i, None, "evaluate")
  /\ UNCHANGED <<invoiceVars, taskVars, meterVars, copies, policy>>

(* Marks the exceptions resolved; the invoice goes back to review whether  *)
(* or not its issues are gone.                                             *)
StartResolve(r, i) ==
  /\ status[i] = "exception"
  /\ Begin(r, "resolve", i, None, "setStatus")
  /\ UNCHANGED <<invoiceVars, taskVars, meterVars, copies, policy>>

(* One write, whatever the status; open tasks stay open.                   *)
Void(r, i) ==
  /\ At(r, "idle")
  /\ status[i] \notin {"absent", "void"}
  /\ status' = [status EXCEPT ![i] = "void"]
  /\ UNCHANGED <<fields, submittedBy, age, taskVars, meterVars, copies, policy, req>>

-----------------------------------------------------------------------------
(* InvoicesService.submit, which gates, then WorkflowService.submitInvoice *)

StartSubmit(r, i, u) ==
  /\ status[i] # "absent" /\ round[i] < MaxRound
  /\ Begin(r, "submit", i, u, "evaluate")
  /\ UNCHANGED <<invoiceVars, taskVars, meterVars, copies, policy>>

(* submitInvoice reads the status and gates once more.                     *)
Guard(r) ==
  /\ At(r, "guard")
  /\ IF status[req[r].inv] \in {"needs_review", "exception", "in_approval"}
     THEN req' = [req EXCEPT ![r].op = "submitInvoice", ![r].pc = "evaluate"]
     ELSE Finish(r)
  /\ UNCHANGED <<invoiceVars, taskVars, meterVars, copies, policy>>

(* Automatic approval by rule or threshold, refusal, or tasks for the      *)
(* assignees; an empty pool is approved unless own approval is blocked.    *)
Route(r) ==
  LET total == fields[req[r].inv].total
      to == Assignees(total, req[r].user)
  IN  /\ At(r, "route")
      /\ \/ total = None /\ Finish(r)
         \/ total # None /\ total \in policy.auto /\ Goto(r, "limit")
         \/ /\ total # None /\ total \notin policy.auto
            /\ \/ to = {} /\ policy.blockOwn /\ Finish(r)
               \/ to = {} /\ ~policy.blockOwn /\ Goto(r, "limit")
               \/ /\ to # {}
                  /\ req' = [req EXCEPT ![r].to = to, ![r].pc = "closeTasks"]
      /\ UNCHANGED <<invoiceVars, taskVars, meterVars, copies, policy>>

(* The updateMany over the pending tasks of the invoice, which the submit, *)
(* recall and decision handlers all make, and the call each makes next.    *)
AfterClose == [submitInvoice |-> "assign", recall |-> "sendBack",
               reject |-> "sendBack", approve |-> "limit"]

CloseTasks_OwnOnly(r) ==
  /\ At(r, "closeTasks")
  /\ pending' = pending \ {t \in PendingOf(req[r].inv) : t.to = req[r].user}
  /\ Goto(r, AfterClose[req[r].op])
  /\ UNCHANGED <<invoiceVars, round, meterVars, copies, policy>>

CloseTasks(r) ==
  /\ At(r, "closeTasks")
  /\ pending' = pending \ PendingOf(req[r].inv)
  /\ Goto(r, AfterClose[req[r].op])
  /\ UNCHANGED <<invoiceVars, round, meterVars, copies, policy>>

Assign(r) ==
  LET i == req[r].inv
  IN  /\ At(r, "assign")
      /\ round' = [round EXCEPT ![i] = @ + 1]
      /\ pending' = pending \union
           [inv : {i}, to : req[r].to, round : {round[i] + 1}, under : {policy}]
      /\ req' = [req EXCEPT ![r].to = {}, ![r].pc = "enterApproval"]
      /\ UNCHANGED <<invoiceVars, meterVars, copies, policy>>

EnterApproval(r) ==
  /\ At(r, "enterApproval")
  /\ status' = [status EXCEPT ![req[r].inv] = "in_approval"]
  /\ submittedBy' = [submittedBy EXCEPT ![req[r].inv] = req[r].user]
  /\ Finish(r)
  /\ UNCHANGED <<fields, age, taskVars, meterVars, copies, policy>>

-----------------------------------------------------------------------------
(* WorkflowService.recallInvoice and decideTask (decideByEmailToken ends   *)
(* there too), InvoicesService.approve                                     *)

StartRecall(r, i) ==
  /\ status[i] = "in_approval"
  /\ Begin(r, "recall", i, None, "closeTasks")
  /\ UNCHANGED <<invoiceVars, taskVars, meterVars, copies, policy>>

(* decision is approve or reject; the status of the invoice is not read.   *)
StartDecide(r, t, decision) ==
  /\ t \in pending
  /\ At(r, "idle")
  /\ req' = [req EXCEPT ![r] =
               [Idle EXCEPT !.pc = IF decision = "approve" THEN "canApprove"
                                                           ELSE "decide",
                            !.op = decision, !.inv = t.inv, !.user = t.to,
                            !.task = t]]
  /\ UNCHANGED <<invoiceVars, taskVars, meterVars, copies, policy>>

StartForce(r, i, u) ==
  /\ status[i] \notin {"absent", "void", "exported"}
  /\ Begin(r, "force", i, u, "evaluate")
  /\ UNCHANGED <<invoiceVars, taskVars, meterVars, copies, policy>>

AssertCanApprove(r) ==
  /\ At(r, "canApprove")
  /\ IF CanApprove(req[r].inv, req[r].user)
     THEN Goto(r, IF req[r].op = "force" THEN "limit" ELSE "decide")
     ELSE Finish(r)
  /\ UNCHANGED <<invoiceVars, taskVars, meterVars, copies, policy>>

Decide(r) ==
  /\ At(r, "decide")
  /\ pending' = pending \ {req[r].task}
  /\ req' = [req EXCEPT ![r].task = None, ![r].pc = "closeTasks"]
  /\ UNCHANGED <<invoiceVars, round, meterVars, copies, policy>>

(* A recall forgets the submitter, a rejection keeps it.                   *)
SendBack(r) ==
  /\ At(r, "sendBack")
  /\ status' = [status EXCEPT ![req[r].inv] = "needs_review"]
  /\ submittedBy' = IF req[r].op = "recall"
                    THEN [submittedBy EXCEPT ![req[r].inv] = None]
                    ELSE submittedBy
  /\ Finish(r)
  /\ UNCHANGED <<fields, age, taskVars, meterVars, copies, policy>>

-----------------------------------------------------------------------------
(* finalizeApprove, and the same calls at the end of InvoicesService.approve *)

Limit(r) ==
  /\ At(r, "limit")
  /\ IF HardBlocked THEN Finish(r) ELSE Goto(r, "markApproved")
  /\ UNCHANGED <<invoiceVars, taskVars, meterVars, copies, policy>>

MarkApproved_ForceUnmetered(r) ==
  /\ At(r, "markApproved")
  /\ status' = [status EXCEPT ![req[r].inv] = "approved"]
  /\ IF req[r].op = "force" THEN Finish(r) ELSE Goto(r, "bill")
  /\ UNCHANGED <<fields, submittedBy, age, taskVars, meterVars, copies, policy>>

MarkApproved(r) ==
  /\ At(r, "markApproved")
  /\ status' = [status EXCEPT ![req[r].inv] = "approved"]
  /\ submittedBy' = IF req[r].op = "submitInvoice"
                    THEN [submittedBy EXCEPT ![req[r].inv] = req[r].user]
                    ELSE submittedBy
  /\ Goto(r, "bill")
  /\ UNCHANGED <<fields, age, taskVars, meterVars, copies, policy>>

Bill_EveryApproval(r) ==
  /\ At(r, "bill")
  /\ billed' = billed \union {req[r].inv}
  /\ mtd' = mtd \union {req[r].inv}
  /\ Finish(r)
  /\ UNCHANGED <<invoiceVars, taskVars, copies, policy>>

Bill_BelowLimit(r) ==
  /\ At(r, "bill") /\ ~HardBlocked
  /\ billed' = billed \union {req[r].inv}
  /\ mtd' = IF req[r].inv \in billed THEN mtd ELSE mtd \union {req[r].inv}
  /\ Finish(r)
  /\ UNCHANGED <<invoiceVars, taskVars, copies, policy>>

(* UsageService.recordInvoiceApproved: an upsert that keeps the event of   *)
(* an earlier approval, and its date.                                      *)
Bill(r) ==
  /\ At(r, "bill")
  /\ billed' = billed \union {req[r].inv}
  /\ mtd' = IF req[r].inv \in billed THEN mtd ELSE mtd \union {req[r].inv}
  /\ Finish(r)
  /\ UNCHANGED <<invoiceVars, taskVars, copies, policy>>

-----------------------------------------------------------------------------
(* IntegrationService.exportApprovedInvoices and finishExport              *)

StartExport(r) ==
  LET approved == {i \in Invoices : status[i] = "approved"}
  IN  /\ approved # {} /\ At(r, "idle")
      /\ \A i \in approved : copies[i] < MaxCopies
      /\ req' = [req EXCEPT ![r] = [Idle EXCEPT !.pc = "writeFile",
                                    !.op = "export", !.batch = approved]]
      /\ UNCHANGED <<invoiceVars, taskVars, meterVars, copies, policy>>

WriteFile(r) ==
  /\ At(r, "writeFile")
  /\ copies' = [i \in Invoices |->
                  IF i \in req[r].batch THEN copies[i] + 1 ELSE copies[i]]
  /\ Goto(r, "markExported")
  /\ UNCHANGED <<invoiceVars, taskVars, meterVars, policy>>

(* By id, whatever has become of the invoice meanwhile.                    *)
MarkExported(r) ==
  /\ At(r, "markExported")
  /\ status' = [i \in Invoices |->
                  IF i \in req[r].batch THEN "exported" ELSE status[i]]
  /\ Finish(r)
  /\ UNCHANGED <<fields, submittedBy, age, taskVars, meterVars, copies, policy>>

-----------------------------------------------------------------------------
(* Configuration (updatePolicy, the rule, SoD and delegation endpoints),   *)
(* the calendar, and requests that die                                     *)

SetPolicy(r, p) ==
  /\ At(r, "idle")
  /\ p # policy /\ policy' = p
  /\ UNCHANGED <<invoiceVars, taskVars, meterVars, copies, req>>

NewMonth ==
  /\ mtd # {} /\ mtd' = {}
  /\ UNCHANGED <<invoiceVars, taskVars, billed, copies, policy, req>>

(* A day goes by.                                                          *)
NextDay ==
  LET ageing == {i \in Invoices : status[i] # "absent" /\ Recent(i)}
  IN  /\ ageing # {}
      /\ age' = [i \in Invoices |-> IF i \in ageing THEN age[i] + 1 ELSE age[i]]
      /\ UNCHANGED <<status, fields, submittedBy, taskVars, meterVars, copies,
                     policy, req>>

(* A database error, or the end of the process before the call.            *)
Fail(r) ==
  /\ req[r].pc \in FailAt /\ ~At(r, "idle")
  /\ Finish(r)
  /\ UNCHANGED <<invoiceVars, taskVars, meterVars, copies, policy>>

-----------------------------------------------------------------------------
Start(r) ==
  \/ \E i \in Invoices :
       \/ StartCapture(r, i)
       \/ \E d \in Drafts : StartUpdate(r, i, d)
       \/ StartValidate(r, i)
       \/ StartResolve(r, i)
       \/ \E u \in Users : StartSubmit(r, i, u) \/ StartForce(r, i, u)
       \/ StartRecall(r, i)
  \/ \E t \in pending, decision \in {"approve", "reject"} :
       StartDecide(r, t, decision)
  \/ StartExport(r)
  \/ \E i \in Invoices : Void(r, i)
  \/ \E p \in Policies : SetPolicy(r, p)

Step(r) ==
  \/ Extract(r)  \/ Write(r)  \/ Evaluate(r)  \/ Reread(r)  \/ SetStatus(r)
  \/ Guard(r)  \/ Route(r)  \/ CloseTasks(r)  \/ Assign(r)  \/ EnterApproval(r)
  \/ AssertCanApprove(r)  \/ Decide(r)  \/ SendBack(r)
  \/ Limit(r)  \/ MarkApproved(r)  \/ Bill(r)
  \/ WriteFile(r)  \/ MarkExported(r)

Next ==
  \/ \E r \in Requests : Start(r) \/ Step(r) \/ Fail(r)
  \/ NewMonth \/ NextDay

Spec == Init /\ [][Next]_vars

(* The server carries on with the requests it has accepted: an awaited     *)
(* call returns.  Nobody is obliged to send a request.                     *)
FairSpec == Spec /\ \A r \in Requests : WF_vars(Step(r))

-----------------------------------------------------------------------------
(* Properties *)

Request ==
  [pc : Steps, op : Ops \union {None}, inv : Invoices \union {None},
   user : Users \union {None}, task : Tasks \union {None}, to : SUBSET Users,
   blocking : BOOLEAN, draft : Contents, batch : SUBSET Invoices]

(* The types of the variables, and the events of this month are events.    *)
TypeOK ==
  /\ status \in [Invoices -> Status]
  /\ fields \in [Invoices -> Contents]
  /\ submittedBy \in [Invoices -> Users \union {None}]
  /\ age \in [Invoices -> 0..Lookback + 1]
  /\ pending \subseteq Tasks
  /\ round \in [Invoices -> Nat]
  /\ billed \subseteq Invoices
  /\ mtd \subseteq billed
  /\ copies \in [Invoices -> Nat]
  /\ policy \in Policies
  /\ req \in [Requests -> Request]

Metering(i) == \E r \in Requests : At(r, "bill") /\ req[r].inv = i

(* The hard limit is read before the usage event is written, in another    *)
(* call: the month may pass it, by at most one invoice for each further    *)
(* request served at the same time.                                        *)
HardLimitOvershoot ==
  Cardinality(mtd) <= HardLimit + Cardinality(Requests) - 1

(* An invoice that is approved or exported has a usage event, or the       *)
(* request that approved it is about to write one.                         *)
ApprovedIsBilled ==
  \A i \in Invoices : status[i] \in Decided => i \in billed \/ Metering(i)

(* Resubmission, recall and decision close the earlier tasks: tasks of     *)
(* several submissions are open only when submissions overlap.             *)
OpenRoundsBounded ==
  \A i \in Invoices :
    Cardinality({t.round : t \in PendingOf(i)}) <= Cardinality(Requests)

(* The usage events are those UsageMeter promises; the second form adds    *)
(* that an event owed is written, when no request fails.                   *)
Meter == INSTANCE UsageMeter
  WITH Ceiling <- HardLimit + Cardinality(Requests) - 1,
       owed <- {i \in Invoices : Metering(i)} \ billed
MeterSpec == Meter!Spec
ReliableMeterSpec == Meter!ReliableSpec

-----------------------------------------------------------------------------
(* Properties of requests served one after the other *)

(* No task stays open on an invoice that is back with the clerks, so no    *)
(* decision can be taken on contents that are still edited.                *)
OpenTasksFollowSubmission ==
  Quiet => \A t \in pending :
             status[t.inv] \in {"in_approval", "approved", "exported", "void"}

(* What is in approval, approved or exported is complete.                  *)
Coded ==
  \A i \in Invoices :
    status[i] \in {"in_approval", "approved", "exported"} =>
      fields[i].coded /\ fields[i].number # None /\ fields[i].total # None

(* Two invoices of one vendor and number are in approval together only     *)
(* when one of them was too old to count.                                  *)
NoDouble ==
  \A i, j \in Invoices :
    /\ i # j /\ status[i] = "in_approval" /\ status[j] = "in_approval"
    /\ fields[i].number = fields[j].number
    => ~Recent(i) \/ ~Recent(j)

(* What passed the gate stays what passed it: nothing that is in approval  *)
(* was edited since, and no recent invoice became its double.              *)
GatePassed == Coded /\ NoDouble

(* Delegations replace the assignees after the segregation of duties, and  *)
(* nobody filters the delegates.  What is left: whoever is asked about an  *)
(* invoice in approval was independent of the user it is recorded to be    *)
(* submitted by, under the policy of that submission, or stands in for     *)
(* somebody who was, however often it was sent back, submitted again by    *)
(* others or under another policy.                                         *)
AskedAreIndependent ==
  Quiet => \A t \in pending :
    status[t.inv] = "in_approval" =>
      \E v \in Users : /\ t.to = t.under.delegate[v]
                       /\ Independent(t.under, submittedBy[t.inv], v)

(* While an invoice is in approval somebody has a task to decide it, as    *)
(* long as the tenant never reached the hard limit: decideTask closes the  *)
(* tasks before it learns that the limit blocks the approval.              *)
StalledOnlyByLimit ==
  Quiet => \A i \in Invoices :
    status[i] = "in_approval" =>
      PendingOf(i) # {} \/ Cardinality(billed) >= HardLimit

(* Between requests the open tasks fit the status of the invoice.          *)
TasksFitStatus == OpenTasksFollowSubmission /\ StalledOnlyByLimit

(* A void or exported invoice is revived only by the decision of a task    *)
(* that was left open.                                                     *)
FinalLeavesByDecision ==
  [][\A i \in Invoices :
       /\ status[i] \in {"void", "exported"}
       /\ status'[i] \notin {"void", "exported"}
       => \E r \in Requests : /\ req[r].op \in {"approve", "reject"}
                              /\ req[r].inv = i]_vars

-----------------------------------------------------------------------------
(* What the documents say and the code does not always do *)

(* A void invoice is never approved ("Cannot approve invoice in status").  *)
VoidIsFinal ==
  [][\A i \in Invoices : status[i] = "void" => status'[i] # "approved"]_vars

(* An export takes approved invoices that are not exported yet, so the     *)
(* files hold an invoice once.                                             *)
ExportedOnce == \A i \in Invoices : copies[i] <= 1

(* The hard limit blocks approval.                                         *)
MonthWithinHardLimit == Cardinality(mtd) <= HardLimit

(* Every approved invoice is metered.                                      *)
ApprovedIsMetered ==
  Quiet => \A i \in Invoices : status[i] \in Decided => i \in billed
=============================================================================
