----------------------- MODULE InvoiceApproval_proofs -----------------------
(***************************************************************************)
(* Proofs about InvoiceApproval, for any number of invoices and users: the *)
(* types, what holds when requests are served one after the other, and     *)
(* what holds however many overlap.                                        *)
(***************************************************************************)
EXTENDS InvoiceApproval, FiniteSetTheorems, TLAPS

(* What a request knows at each of its calls: every call but those of an   *)
(* export is about an invoice, and a call shared by several handlers is    *)
(* made by one of them.                                                    *)
CallOK(q) ==
  /\ q.pc \notin {"idle", "writeFile", "markExported"} => q.inv \in Invoices
  /\ q.pc = "route" => q.op = "submitInvoice"
  /\ q.pc = "canApprove" => q.op \in {"force", "approve"}
  /\ q.pc = "decide" => q.op \in {"approve", "reject"}
  /\ q.pc = "closeTasks" =>
       q.op \in {"submitInvoice", "recall", "reject", "approve"}

StepOK == \A r \in Requests : CallOK(req[r])

TypeInv == TypeOK /\ StepOK

RequestsOK == req \in [Requests -> Request] /\ StepOK

(* The tables, which only some of the steps write.                         *)
TablesOK ==
  /\ status \in [Invoices -> Status]
  /\ fields \in [Invoices -> Contents]
  /\ submittedBy \in [Invoices -> Users \union {None}]
  /\ age \in [Invoices -> 0..Lookback + 1]
  /\ pending \subseteq Tasks
  /\ round \in [Invoices -> Nat]
  /\ billed \subseteq Invoices
  /\ mtd \subseteq billed
  /\ copies \in [Invoices -> Nat]
  /\ policy \in Policies

LEMMA TypeInvParts ==
  /\ TypeInv <=> TablesOK /\ RequestsOK
  /\ TypeInv' <=> TablesOK' /\ RequestsOK'
BY DEF TypeInv, TypeOK, TablesOK, RequestsOK

-----------------------------------------------------------------------------
LEMMA IdleType == Idle \in Request
BY DEF Idle, Request, Steps, Contents

LEMMA AssigneesType ==
  ASSUME policy \in Policies, NEW t \in Totals, NEW u
  PROVE  Assignees(t, u) \in SUBSET Users
BY PolicyAssumption DEF Assignees, SodFilter, Independent

LEMMA TotalType ==
  ASSUME TypeOK, NEW i \in Invoices
  PROVE  fields[i].total \in Totals \union {None}
BY DraftAssumption DEF TypeOK, Contents, Blank

LEMMA BlockingType ==
  ASSUME TypeOK, NEW i \in Invoices
  PROVE  Blocking(i) \in BOOLEAN
<1>1. fields[i].coded \in BOOLEAN
  <2>1. Blank.coded \in BOOLEAN
    BY Zenon DEF Blank
  <2>2. fields[i] \in Drafts \/ fields[i] = Blank
    BY DEF TypeOK, Contents
  <2> QED BY <2>1, <2>2, DraftAssumption
<1>2. Duplicate(i) \in BOOLEAN
  BY DEF Duplicate
<1> QED BY <1>1, <1>2 DEF Blocking

LEMMA InitTypeInv == Init => TypeInv
BY IdleType, FinitenessAssumption
DEF Init, TypeInv, TypeOK, StepOK, CallOK, Idle, Status, Contents

-----------------------------------------------------------------------------
(* A step of a request changes its record alone, in one of four ways.      *)

LEMMA RecordType ==
  ASSUME RequestsOK, NEW r \in Requests, NEW q \in Request, CallOK(q),
         req' = [req EXCEPT ![r] = q]
  PROVE  RequestsOK'
BY DEF RequestsOK, StepOK

LEMMA FinishType ==
  ASSUME RequestsOK, NEW r \in Requests, Finish(r)
  PROVE  RequestsOK'
<1>1. CallOK(Idle)
  BY DEF CallOK, Idle
<1> QED
  BY <1>1, IdleType, RecordType DEF Finish

LEMMA GotoType ==
  ASSUME RequestsOK, NEW r \in Requests, NEW p \in Steps, Goto(r, p),
         CallOK([req[r] EXCEPT !.pc = p])
  PROVE  RequestsOK'
<1> DEFINE q == [req[r] EXCEPT !.pc = p]
<1>1. q \in Request
  BY DEF RequestsOK, Request
<1>2. req' = [req EXCEPT ![r] = q]
  BY DEF Goto
<1> HIDE DEF q
<1> QED
  BY <1>1, <1>2, RecordType DEF q

(* The calls that every handler may make.                                  *)
Shared == {"extract", "evaluate", "reread", "setStatus", "guard", "limit",
           "markApproved", "bill", "assign", "enterApproval", "sendBack"}

LEMMA SharedType ==
  ASSUME RequestsOK, NEW r \in Requests, req[r].inv \in Invoices,
         NEW p \in Shared, Goto(r, p)
  PROVE  RequestsOK'
<1>1. CallOK([req[r] EXCEPT !.pc = p])
  BY DEF CallOK, Shared, RequestsOK, Request
<1>2. p \in Steps
  BY DEF Shared, Steps
<1> QED
  BY <1>1, <1>2, GotoType

LEMMA BeginType ==
  ASSUME RequestsOK, NEW r \in Requests, NEW o \in Ops, NEW i \in Invoices,
         NEW u \in Users \union {None}, NEW p \in Steps, Begin(r, o, i, u, p),
         CallOK([Idle EXCEPT !.pc = p, !.op = o, !.inv = i, !.user = u])
  PROVE  RequestsOK'
<1> DEFINE q == [Idle EXCEPT !.pc = p, !.op = o, !.inv = i, !.user = u]
<1>1. q \in Request
  BY IdleType DEF Request, Idle
<1>2. req' = [req EXCEPT ![r] = q]
  BY DEF Begin
<1> HIDE DEF q
<1> QED
  BY <1>1, <1>2, RecordType DEF q

LEMMA AfterSyncType ==
  ASSUME RequestsOK, NEW r \in Requests, req[r].inv \in Invoices,
         AfterSync(r)
  PROVE  RequestsOK'
<1>1. CASE Finish(r)
  BY <1>1, FinishType
<1>2. CASE ~Finish(r)
  <2>1. /\ req[r].op \in {"submit", "submitInvoice", "force"}
        /\ Goto(r, AfterGate[req[r].op])
    BY <1>2 DEF AfterSync, AfterGate
  <2>2. req[r] \in Request
    BY DEF RequestsOK
  <2>3. CASE req[r].op = "submit"
    BY <2>1, <2>3, AfterGate["submit"] = "guard", SharedType
    DEF AfterGate, Shared
  <2>4. CASE req[r].op = "submitInvoice"
    <3>1. CallOK([req[r] EXCEPT !.pc = "route"])
      BY <2>2, <2>4 DEF CallOK, Request
    <3> QED
      BY <2>1, <2>4, <3>1, AfterGate["submitInvoice"] = "route", GotoType
      DEF AfterGate, Steps
  <2>5. CASE req[r].op = "force"
    <3>1. CallOK([req[r] EXCEPT !.pc = "canApprove"])
      BY <2>2, <2>5 DEF CallOK, Request
    <3> QED
      BY <2>1, <2>5, <3>1, AfterGate["force"] = "canApprove", GotoType
      DEF AfterGate, Steps
  <2> QED BY <2>1, <2>3, <2>4, <2>5
<1> QED BY <1>1, <1>2

-----------------------------------------------------------------------------
LEMMA StartTypeInv ==
  ASSUME TypeInv, NEW r \in Requests, Start(r)
  PROVE  TypeInv'
<1> USE TypeInvParts DEF invoiceVars, taskVars, meterVars
<1>0. TablesOK /\ RequestsOK
  OBVIOUS
<1>a. ASSUME UNCHANGED <<invoiceVars, taskVars, meterVars, copies, policy>>
      PROVE  TablesOK'
  BY <1>0, <1>a DEF TablesOK
<1>1. ASSUME NEW i \in Invoices, StartCapture(r, i) PROVE TypeInv'
  <2>1. RequestsOK'
    BY <1>0, <1>1, BeginType DEF StartCapture, CallOK, Idle, Ops, Steps
  <2>2. TablesOK'
    BY <1>0, <1>1 DEF StartCapture, TablesOK, Status
  <2> QED BY <2>1, <2>2
<1>2. ASSUME NEW i \in Invoices, NEW d \in Drafts, StartUpdate(r, i, d)
      PROVE  TypeInv'
  <2> DEFINE q == [Idle EXCEPT !.pc = "write", !.op = "update", !.inv = i,
                               !.draft = d]
  <2>1. q \in Request /\ CallOK(q)
    BY IdleType DEF Request, Idle, Steps, Ops, Contents, CallOK
  <2>2. req' = [req EXCEPT ![r] = q]
    BY <1>2 DEF StartUpdate
  <2> HIDE DEF q
  <2> QED
    BY <1>0, <1>2, <2>1, <2>2, <1>a, RecordType DEF StartUpdate
<1>3. ASSUME NEW i \in Invoices, StartValidate(r, i) PROVE TypeInv'
  <2>1. RequestsOK'
    BY <1>0, <1>3, BeginType DEF StartValidate, CallOK, Idle, Ops, Steps
  <2> QED BY <1>3, <2>1, <1>a DEF StartValidate
<1>4. ASSUME NEW i \in Invoices, StartResolve(r, i) PROVE TypeInv'
  <2>1. RequestsOK'
    BY <1>0, <1>4, BeginType DEF StartResolve, CallOK, Idle, Ops, Steps
  <2> QED BY <1>4, <2>1, <1>a DEF StartResolve
<1>5. ASSUME NEW i \in Invoices, NEW u \in Users, StartSubmit(r, i, u)
      PROVE  TypeInv'
  <2>1. RequestsOK'
    BY <1>0, <1>5, BeginType DEF StartSubmit, CallOK, Idle, Ops, Steps
  <2> QED BY <1>5, <2>1, <1>a DEF StartSubmit
<1>6. ASSUME NEW i \in Invoices, NEW u \in Users, StartForce(r, i, u)
      PROVE  TypeInv'
  <2>1. RequestsOK'
    BY <1>0, <1>6, BeginType DEF StartForce, CallOK, Idle, Ops, Steps
  <2> QED BY <1>6, <2>1, <1>a DEF StartForce
<1>7. ASSUME NEW i \in Invoices, StartRecall(r, i) PROVE TypeInv'
  <2>1. RequestsOK'
    BY <1>0, <1>7, BeginType DEF StartRecall, CallOK, Idle, Ops, Steps
  <2> QED BY <1>7, <2>1, <1>a DEF StartRecall
<1>8. ASSUME NEW t \in pending, NEW decision \in {"approve", "reject"},
             StartDecide(r, t, decision)
      PROVE  TypeInv'
  <2> DEFINE p == IF decision = "approve" THEN "canApprove" ELSE "decide"
             q == [Idle EXCEPT !.pc = p, !.op = decision, !.inv = t.inv,
                               !.user = t.to, !.task = t]
  <2>1. t \in Tasks /\ t.inv \in Invoices /\ t.to \in Users
    BY <1>0 DEF Tasks, TablesOK
  <2>2. p \in Steps /\ (p = "canApprove" => decision = "approve")
                   /\ p \in {"canApprove", "decide"}
    BY DEF Steps
  <2>3. req' = [req EXCEPT ![r] = q]
    BY <1>8 DEF StartDecide
  <2> HIDE DEF p
  <2>4. q \in Request /\ CallOK(q)
    BY <2>1, <2>2, IdleType DEF Request, Idle, Ops, CallOK
  <2> HIDE DEF q
  <2> QED
    BY <1>0, <1>8, <2>3, <2>4, <1>a, RecordType DEF StartDecide
<1>9. CASE StartExport(r)
  <2> DEFINE b == {i \in Invoices : status[i] = "approved"}
             q == [Idle EXCEPT !.pc = "writeFile", !.op = "export",
                               !.batch = b]
  <2>1. q \in Request /\ CallOK(q)
    BY IdleType DEF Request, Idle, Steps, Ops, CallOK
  <2>2. req' = [req EXCEPT ![r] = q]
    BY <1>9 DEF StartExport
  <2> HIDE DEF q
  <2> QED
    BY <1>0, <1>9, <2>1, <2>2, <1>a, RecordType DEF StartExport
<1>10. ASSUME NEW i \in Invoices, Void(r, i) PROVE TypeInv'
  BY <1>0, <1>10
  DEF Void, TablesOK, Status, RequestsOK, StepOK
<1>11. ASSUME NEW p \in Policies, SetPolicy(r, p) PROVE TypeInv'
  BY <1>0, <1>11 DEF SetPolicy, TablesOK, RequestsOK, StepOK
<1> QED
  BY <1>1, <1>2, <1>3, <1>4, <1>5, <1>6, <1>7, <1>8, <1>9, <1>10, <1>11
  DEF Start

LEMMA StepTypeInv ==
  ASSUME TypeInv, NEW r \in Requests, Step(r) \/ Fail(r)
  PROVE  TypeInv'
<1> USE TypeInvParts DEF invoiceVars, taskVars, meterVars
<1>0. /\ TablesOK /\ RequestsOK
      /\ req[r] \in Request /\ CallOK(req[r])
  BY DEF RequestsOK, StepOK
<1>a. ASSUME UNCHANGED <<invoiceVars, taskVars, meterVars, copies, policy>>
      PROVE  TablesOK'
  BY <1>0, <1>a DEF TablesOK
<1>1. CASE Extract(r)
  <2>1. RequestsOK'
    BY <1>0, <1>1, SharedType DEF Extract, At, CallOK, Shared
  <2>2. TablesOK'
    BY <1>0, <1>1 DEF Extract, TablesOK, Status, Contents
  <2> QED BY <2>1, <2>2
<1>2. CASE Write(r)
  <2> DEFINE q == [req[r] EXCEPT !.pc = "evaluate", !.draft = Blank]
  <2>1. q \in Request
    BY <1>0 DEF Request, Steps, Contents
  <2>2. req' = [req EXCEPT ![r] = q] /\ CallOK(q)
    BY <1>0, <1>2 DEF Write, At, CallOK, RequestsOK, Request
  <2> HIDE DEF q
  <2>3. RequestsOK'
    BY <1>0, <2>1, <2>2, RecordType
  <2>4. req[r].draft \in Contents
    BY <1>0 DEF Request
  <2>5. TablesOK'
    BY <1>0, <1>2, <2>4 DEF Write, TablesOK
  <2> QED BY <2>3, <2>5
<1>3. CASE Evaluate(r)
  <2> DEFINE q == [req[r] EXCEPT !.blocking = Blocking(req[r].inv),
                                 !.pc = "reread"]
  <2>1. req[r].inv \in Invoices
    BY <1>0, <1>3 DEF Evaluate, At, CallOK
  <2>2. Blocking(req[r].inv) \in BOOLEAN
    BY <2>1, BlockingType DEF TypeInv
  <2>3. q \in Request
    BY <1>0, <2>2 DEF Request, Steps
  <2>4. CallOK(q)
    BY <1>0, <2>1 DEF CallOK, Request
  <2>5. req' = [req EXCEPT ![r] = q]
    BY <1>3 DEF Evaluate
  <2> HIDE DEF q
  <2> QED BY <1>0, <1>3, <2>3, <2>4, <2>5, <1>a, RecordType DEF Evaluate
<1>4. CASE Reread(r)
  <2>1. req[r].inv \in Invoices
    BY <1>0, <1>4 DEF Reread, At, CallOK
  <2>2. RequestsOK'
    BY <1>0, <1>4, <2>1, AfterSyncType, SharedType DEF Reread, Shared
  <2> QED BY <1>4, <2>2, <1>a DEF Reread
<1>5. CASE SetStatus(r)
  <2>1. RequestsOK'
    BY <1>0, <1>5, AfterSyncType DEF SetStatus, At, CallOK
  <2>2. TablesOK'
    BY <1>0, <1>5 DEF SetStatus, TablesOK, Status
  <2> QED BY <2>1, <2>2
<1>6. CASE Guard(r)
  <2>1. RequestsOK'
    <3> DEFINE q == [req[r] EXCEPT !.op = "submitInvoice", !.pc = "evaluate"]
    <3>1. CASE Finish(r)
      BY <1>0, <3>1, FinishType
    <3>2. CASE req' = [req EXCEPT ![r] = q]
      <4>1. q \in Request
        BY <1>0 DEF Request, Steps, Ops
      <4>2. CallOK(q)
        BY <1>0, <1>6 DEF Guard, At, CallOK, Request
      <4> HIDE DEF q
      <4> QED BY <1>0, <3>2, <4>1, <4>2, RecordType
    <3> QED BY <1>6, <3>1, <3>2 DEF Guard
  <2> QED BY <1>6, <2>1, <1>a DEF Guard
<1>7. CASE Route(r)
  <2> DEFINE t == fields[req[r].inv].total
             to == Assignees(t, req[r].user)
             q == [req[r] EXCEPT !.to = to, !.pc = "closeTasks"]
  <2>1. req[r].inv \in Invoices /\ req[r].op = "submitInvoice"
    BY <1>0, <1>7 DEF Route, At, CallOK
  <2>2. CASE Finish(r)
    BY <1>0, <1>7, <2>2, <1>a, FinishType DEF Route
  <2>3. CASE Goto(r, "limit")
    BY <1>0, <1>7, <2>1, <2>3, <1>a, SharedType DEF Route, Shared
  <2>4. CASE t # None /\ req' = [req EXCEPT ![r] = q]
    <3>1. to \in SUBSET Users
      BY <1>0, <2>1, <2>4, TotalType, AssigneesType DEF TypeInv, TablesOK
    <3> HIDE DEF to
    <3>2. q \in Request
      BY <1>0, <3>1 DEF Request, Steps
    <3>3. CallOK(q)
      BY <1>0, <2>1 DEF CallOK, Request
    <3> HIDE DEF q
    <3> QED BY <1>0, <1>7, <2>4, <3>2, <3>3, <1>a, RecordType DEF Route
  <2> QED BY <1>7, <2>2, <2>3, <2>4 DEF Route
<1>8. CASE CloseTasks(r)
  <2>1. /\ req[r].op \in {"submitInvoice", "recall", "reject", "approve"}
        /\ req[r].inv \in Invoices
    BY <1>0, <1>8 DEF CloseTasks, At, CallOK
  <2>2. AfterClose[req[r].op] \in Shared
    <3>1. \A o \in {"submitInvoice", "recall", "reject", "approve"} :
            AfterClose[o] \in {"assign", "sendBack", "limit"}
      BY DEF AfterClose
    <3> QED
      BY <2>1, <3>1 DEF Shared
  <2>3. RequestsOK'
    <3> DEFINE p == AfterClose[req[r].op]
    <3>1. Goto(r, p)
      BY <1>8 DEF CloseTasks
    <3> HIDE DEF p
    <3> QED
      BY <1>0, <2>1, <2>2, <3>1, SharedType DEF p
  <2>4. TablesOK'
    BY <1>0, <1>8 DEF CloseTasks, TablesOK
  <2> QED BY <2>3, <2>4
<1>9. CASE Assign(r)
  <2> DEFINE q == [req[r] EXCEPT !.to = {}, !.pc = "enterApproval"]
  <2>1. req[r].inv \in Invoices /\ req[r].to \subseteq Users
    BY <1>0, <1>9 DEF Assign, At, CallOK, Request
  <2>2. q \in Request
    BY <1>0 DEF Request, Steps
  <2>3. CallOK(q)
    BY <1>0, <2>1 DEF CallOK, Request
  <2>4. req' = [req EXCEPT ![r] = q]
    BY <1>9 DEF Assign
  <2> HIDE DEF q
  <2>5. RequestsOK'
    BY <1>0, <2>2, <2>3, <2>4, RecordType
  <2>6. [inv : {req[r].inv}, to : req[r].to, round : {round[req[r].inv] + 1},
         under : {policy}]
          \subseteq Tasks
    <3> DEFINE i == req[r].inv
               to == req[r].to
               n == round[i] + 1
    <3>1. i \in Invoices /\ to \subseteq Users /\ n \in Nat
      BY <1>0, <2>1 DEF TablesOK
    <3> HIDE DEF i, to, n
    <3>2. [inv : {i}, to : to, round : {n}, under : {policy}] \subseteq Tasks
      BY <1>0, <3>1 DEF Tasks, TablesOK
    <3> QED BY <3>2 DEF i, to, n
  <2>7. TablesOK'
    <3>1. pending' \subseteq Tasks
      BY <1>0, <1>9, <2>6 DEF Assign, TablesOK
    <3>2. round' \in [Invoices -> Nat]
      BY <1>0, <1>9, <2>1 DEF Assign, TablesOK
    <3> QED BY <1>0, <1>9, <3>1, <3>2 DEF Assign, TablesOK
  <2> QED BY <2>5, <2>7
<1>10. CASE EnterApproval(r)
  <2>1. TablesOK'
    BY <1>0, <1>10 DEF EnterApproval, TablesOK, Status, Request
  <2> QED BY <1>0, <1>10, <2>1, FinishType DEF EnterApproval
<1>11. CASE AssertCanApprove(r)
  <2>1. /\ req[r].inv \in Invoices
        /\ req[r].op \in {"force", "approve"}
    BY <1>0, <1>11 DEF AssertCanApprove, At, CallOK
  <2>2. CASE Finish(r)
    BY <1>0, <1>11, <2>2, <1>a, FinishType DEF AssertCanApprove
  <2>3. CASE Goto(r, "limit")
    BY <1>0, <1>11, <2>1, <2>3, <1>a, SharedType
    DEF AssertCanApprove, Shared
  <2>4. CASE Goto(r, "decide") /\ req[r].op # "force"
    <3>1. CallOK([req[r] EXCEPT !.pc = "decide"])
      BY <1>0, <2>1, <2>4 DEF CallOK, Request
    <3> QED
      BY <1>0, <1>11, <2>4, <3>1, <1>a, GotoType DEF AssertCanApprove, Steps
  <2> QED BY <1>11, <2>2, <2>3, <2>4 DEF AssertCanApprove
<1>12. CASE Decide(r)
  <2> DEFINE q == [req[r] EXCEPT !.task = None, !.pc = "closeTasks"]
  <2>1. q \in Request
    BY <1>0 DEF Request, Steps
  <2>2. CallOK(q)
    BY <1>0, <1>12 DEF Decide, At, CallOK, Request
  <2>3. req' = [req EXCEPT ![r] = q]
    BY <1>12 DEF Decide
  <2> HIDE DEF q
  <2>4. TablesOK'
    BY <1>0, <1>12 DEF Decide, TablesOK
  <2> QED BY <1>0, <2>1, <2>2, <2>3, <2>4, RecordType
<1>13. CASE SendBack(r)
  <2>1. TablesOK'
    BY <1>0, <1>13 DEF SendBack, TablesOK, Status
  <2> QED BY <1>0, <1>13, <2>1, FinishType DEF SendBack
<1>14. CASE Limit(r)
  <2>1. RequestsOK'
    BY <1>0, <1>14, FinishType, SharedType
    DEF Limit, At, CallOK, Shared
  <2> QED BY <1>14, <2>1, <1>a DEF Limit
<1>15. CASE MarkApproved(r)
  <2>1. RequestsOK'
    BY <1>0, <1>15, SharedType DEF MarkApproved, At, CallOK, Shared
  <2>2. TablesOK'
    BY <1>0, <1>15 DEF MarkApproved, TablesOK, Status, Request
  <2> QED BY <2>1, <2>2
<1>16. CASE Bill(r)
  <2>1. TablesOK'
    BY <1>0, <1>16 DEF Bill, TablesOK, At, CallOK
  <2> QED BY <1>0, <1>16, <2>1, FinishType DEF Bill
<1>17. CASE WriteFile(r)
  <2>1. CallOK([req[r] EXCEPT !.pc = "markExported"])
    BY <1>0 DEF CallOK, Request
  <2>2. RequestsOK'
    BY <1>0, <1>17, <2>1, GotoType DEF WriteFile, Steps
  <2>3. TablesOK'
    BY <1>0, <1>17 DEF WriteFile, TablesOK
  <2> QED BY <2>2, <2>3
<1>18. CASE MarkExported(r)
  <2>1. TablesOK'
    BY <1>0, <1>18 DEF MarkExported, TablesOK, Status
  <2> QED BY <1>0, <1>18, <2>1, FinishType DEF MarkExported
<1>19. CASE Fail(r)
  BY <1>0, <1>19, <1>a, FinishType DEF Fail
<1> QED
  BY <1>1, <1>2, <1>3, <1>4, <1>5, <1>6, <1>7, <1>8, <1>9, <1>10, <1>11,
     <1>12, <1>13, <1>14, <1>15, <1>16, <1>17, <1>18, <1>19
  DEF Step

LEMMA NextTypeInv == TypeInv /\ [Next]_vars => TypeInv'
<1> SUFFICES ASSUME TypeInv, [Next]_vars PROVE TypeInv'
  OBVIOUS
<1>1. ASSUME NEW r \in Requests, Start(r) PROVE TypeInv'
  BY <1>1, StartTypeInv
<1>2. ASSUME NEW r \in Requests, Step(r) \/ Fail(r) PROVE TypeInv'
  BY <1>2, StepTypeInv
<1>3. CASE NewMonth
  BY <1>3 DEF NewMonth, TypeInv, TypeOK, StepOK, invoiceVars, taskVars
<1>4. CASE NextDay
  <2>1. age' \in [Invoices -> 0..Lookback + 1]
    BY <1>4, FinitenessAssumption DEF NextDay, Recent, TypeInv, TypeOK
  <2> QED
    BY <1>4, <2>1 DEF NextDay, TypeInv, TypeOK, StepOK, taskVars, meterVars
<1>5. CASE UNCHANGED vars
  BY <1>5 DEF vars, TypeInv, TypeOK, StepOK
<1> QED BY <1>1, <1>2, <1>3, <1>4, <1>5 DEF Next

(* The types of the variables are preserved, and each call of a request is *)
(* made by a handler that makes it.                                        *)
THEOREM TypeCorrect == Spec => []TypeOK
<1>1. TypeInv => TypeOK
  BY DEF TypeInv
<1> QED BY <1>1, InitTypeInv, NextTypeInv, PTL DEF Spec
-----------------------------------------------------------------------------
(* Requests served one after the other *)

Finished(i) ==
  fields[i].coded /\ fields[i].number # None /\ fields[i].total # None

Approving == {"limit", "markApproved"}

(* Which handler makes a call, beyond CallOK.                              *)
MadeBy(q) ==
  /\ q.pc = "extract" => q.op = "capture"
  /\ q.pc = "write" => q.op = "update"
  /\ q.pc \in {"evaluate", "reread"} =>
       q.op \in {"capture", "update", "validate", "submit", "submitInvoice",
                 "force"}
  /\ q.pc = "setStatus" => q.op \notin {"approve", "reject", "recall"}
  /\ q.pc = "guard" => q.op = "submit"
  /\ q.pc \in {"assign", "enterApproval"} => q.op = "submitInvoice"
  /\ q.pc \in Approving => q.op \in {"submitInvoice", "force", "approve"}
  /\ q.pc = "sendBack" => q.op \in {"recall", "reject"}

(* The status the invoice of a request has at its calls.                   *)
StatusFits(q) ==
  /\ q.pc = "extract" => status[q.inv] = "extracting"
  /\ q.pc = "write" => status[q.inv] \notin Locked \union {"absent"}
  /\ q.pc = "setStatus" =>
       status[q.inv] \in {"needs_review", "extracting", "exception"}
  /\ q.op = "recall" /\ q.pc # "idle" => status[q.inv] = "in_approval"
  /\ q.op = "force" /\ q.pc # "idle" =>
       status[q.inv] \notin {"absent", "void", "exported"}
  /\ q.op = "submitInvoice" /\ q.pc \notin {"idle", "bill"} =>
       status[q.inv] \in {"needs_review", "exception", "in_approval"}
  /\ q.pc \in {"writeFile", "markExported"} =>
       \A i \in q.batch : status[i] = "approved"

(* What the gates a request has passed established still holds.            *)
GateFits(q) ==
  /\ q.pc = "reread" \/ (q.pc = "setStatus" /\ q.op # "resolve") =>
       (Blocking(q.inv) => q.blocking)
  /\ q.op \in {"submit", "submitInvoice", "force"} =>
       \/ q.pc \in {"idle", "evaluate", "reread", "setStatus"}
       \/ ~Blocking(q.inv)
  /\ q.op = "approve" /\ q.pc # "idle" => Finished(q.inv)

(* The open tasks of the invoice of a request at its calls.                *)
TasksFit(q) ==
  /\ q.op \in {"approve", "reject"} /\ q.pc \in {"canApprove", "decide"} =>
       q.task \in Tasks /\ q.task.inv = q.inv
  /\ (q.pc = "closeTasks" /\ q.op = "submitInvoice") \/ q.pc = "assign" =>
       q.to # {}
  /\ q.pc \in {"assign", "sendBack"} => PendingOf(q.inv) = {}
  /\ q.pc = "enterApproval" => PendingOf(q.inv) # {}

Closed == {"in_approval", "approved", "exported", "void"}

(* A request that closed tasks and has not said yet what became of the     *)
(* invoice.                                                                *)
Between(q, i) ==
  /\ q.inv = i
  /\ \/ q.pc \in {"assign", "enterApproval", "sendBack", "markApproved"}
     \/ q.pc \in {"closeTasks", "limit"} /\ q.op \in {"approve", "reject"}

TablesFit(q) ==
  /\ \A t \in pending :
       status[t.inv] \in Closed \/ (q.pc = "enterApproval" /\ q.inv = t.inv)
  /\ \A i \in Invoices : status[i] = "in_approval" =>
       \/ PendingOf(i) # {} \/ Cardinality(billed) >= HardLimit
       \/ Between(q, i)
  /\ \A i \in Invoices :
       status[i] \in {"in_approval", "approved", "exported"}
         \/ PendingOf(i) # {} => Finished(i)
  /\ NoDouble

Fits(q) ==
  MadeBy(q) /\ StatusFits(q) /\ GateFits(q) /\ TasksFit(q) /\ TablesFit(q)

SerialInv == \A r \in Requests : Fits(req[r])

Serial == \A r, s \in Requests : r = s

(* Requests stop at most where nothing has been written that a later call  *)
(* completes.                                                              *)
StopsAtGates ==
  FailAt \subseteq {"extract", "write", "evaluate", "reread", "setStatus",
                    "guard", "route", "canApprove"}

LEMMA RestFits ==
  ASSUME TablesFit(Idle) PROVE Fits(Idle)
<1>1. Idle.pc = "idle"
  BY DEF Idle
<1> QED
  BY <1>1 DEF Fits, MadeBy, StatusFits, GateFits, TasksFit, Approving

(* With one request, the invariant is about the record it leaves.          *)
LEMMA Left ==
  ASSUME Serial, TypeInv, NEW r \in Requests, NEW a,
         req' = [req EXCEPT ![r] = a], Fits(a)'
  PROVE  SerialInv'
<1>1. \A s \in Requests : req'[s] = a
  BY DEF Serial, TypeInv, TypeOK
<1> QED BY <1>1 DEF SerialInv

(* What a request that only reads leaves fits if it fits what it read.     *)
LEMMA Reads ==
  ASSUME NEW a, Fits(a), UNCHANGED <<invoiceVars, taskVars, billed, policy>>
  PROVE  Fits(a)'
<1> USE DEF invoiceVars, taskVars
<1>1. \A i : PendingOf(i)' = PendingOf(i) /\ Finished(i)' = Finished(i)
  BY DEF PendingOf, Finished
<1>2. \A i : Blocking(i)' = Blocking(i)
  BY DEF Blocking, Duplicate, Recent
<1>4. MadeBy(a)' /\ StatusFits(a)'
  BY DEF Fits, MadeBy, StatusFits
<1>5. GateFits(a)' /\ TasksFit(a)'
  BY <1>1, <1>2 DEF Fits, GateFits, TasksFit
<1>6. TablesFit(a)'
  BY <1>1 DEF Fits, TablesFit, Between, NoDouble, Recent
<1> QED BY <1>4, <1>5, <1>6 DEF Fits

(* Nothing is between its writes, so whatever comes next fits the tables.  *)
Calm(q) == q.pc # "enterApproval" /\ \A i \in Invoices : ~Between(q, i)

LEMMA CalmTables ==
  ASSUME NEW q, NEW a, TablesFit(q), Calm(q)
  PROVE  TablesFit(a)
BY DEF TablesFit, Calm

LEMMA CalmEnd ==
  ASSUME Serial, TypeInv, NEW r \in Requests, Fits(req[r]), Calm(req[r]),
         Finish(r), UNCHANGED <<invoiceVars, taskVars, billed, policy>>
  PROVE  SerialInv'
<1>1. Fits(Idle)
  BY CalmTables, RestFits DEF Fits
<1> QED BY <1>1, Reads, Left DEF Finish

LEMMA IdleCalm == \A q : q.pc = "idle" => Calm(q)
BY DEF Calm, Between

(* The ways a request changes the tables.                                  *)

LEMMA GateStays ==
  ASSUME NEW i, \A j \in Invoices \ {i} : status'[j] = status[j],
         UNCHANGED <<fields, age>>
  PROVE  Blocking(i)' = Blocking(i) /\ \A j : Finished(j)' = Finished(j)
<1>1. Duplicate(i)' = Duplicate(i)
  BY DEF Duplicate, Recent
<1> QED BY <1>1 DEF Blocking, Finished

(* An invoice without tasks is opened, or written while it is open.        *)
LEMMA OpenTables ==
  ASSUME NEW q, NEW a, TypeOK, TablesFit(q), NEW i \in Invoices,
         PendingOf(i) = {}, status'[i] \notin Closed,
         \A j \in Invoices \ {i} :
           status'[j] = status[j] /\ fields'[j] = fields[j] /\ ~Between(q, j),
         q.pc = "enterApproval" => q.inv = i,
         UNCHANGED <<age, pending, billed>>
  PROVE  TablesFit(a)'
<1> USE DEF TablesFit, PendingOf, Closed
<1>1. \A t \in pending :
        t.inv \in Invoices /\ t.inv # i /\ status[t.inv] \in Closed
  BY DEF TypeOK, Tasks
<1>2. \A j \in Invoices : PendingOf(j)' = PendingOf(j)
  OBVIOUS
<1>3. \A j \in Invoices \ {i} : Finished(j)' = Finished(j)
  BY DEF Finished
<1> HIDE DEF PendingOf
<1> QED BY <1>1, <1>2, <1>3 DEF NoDouble, Recent

(* Invoices are approved, exported or given up.                            *)
LEMMA CloseTables ==
  ASSUME NEW q, NEW a, TypeOK, TablesFit(q),
         \A j \in Invoices :
           \/ status'[j] = status[j] /\ ~Between(q, j)
           \/ status'[j] = "void"
           \/ status'[j] \in {"approved", "exported"} /\ Finished(j),
         q.pc # "enterApproval", UNCHANGED <<fields, age, pending, billed>>
  PROVE  TablesFit(a)'
<1> USE DEF TablesFit, Closed
<1>1. \A t \in pending : t.inv \in Invoices /\ status[t.inv] \in Closed
  BY DEF TypeOK, Tasks
<1>2. \A j \in Invoices :
        PendingOf(j)' = PendingOf(j) /\ Finished(j)' = Finished(j)
  BY DEF PendingOf, Finished
<1>3. \A j \in Invoices : status'[j] = "in_approval" => status[j] = "in_approval"
  OBVIOUS
<1>4. NoDouble'
  BY <1>3 DEF NoDouble, Recent
<1> QED BY <1>1, <1>2, <1>3, <1>4

(* Tasks of the invoice of a request are closed, and the request goes on   *)
(* to say what becomes of it.                                              *)
LEMMA FewerTasks ==
  ASSUME NEW q, NEW a, NEW i \in Invoices, TablesFit(q), Between(a, i),
         \A j \in Invoices \ {i} : ~Between(q, j),
         pending' \subseteq pending,
         \A t \in pending \ pending' : t.inv = i,
         q.pc # "enterApproval", UNCHANGED <<status, fields, age, billed>>
  PROVE  TablesFit(a)'
<1>1. \A j \in Invoices : /\ PendingOf(j)' \subseteq PendingOf(j)
                          /\ j # i => PendingOf(j)' = PendingOf(j)
                          /\ Finished(j)' = Finished(j)
  BY DEF PendingOf, Finished
<1>2. Between(a, i)'
  BY DEF Between
<1> QED BY <1>1, <1>2 DEF TablesFit, NoDouble, Recent

-----------------------------------------------------------------------------
(* Handlers that start *)

LEMMA StartFits ==
  ASSUME Serial, TypeInv, NEW r \in Requests, Fits(req[r]), At(r, "idle"),
         NEW a, req' = [req EXCEPT ![r] = a],
         MadeBy(a), StatusFits(a), GateFits(a), TasksFit(a),
         UNCHANGED <<invoiceVars, taskVars, billed, policy>>
  PROVE  SerialInv'
<1>1. TablesFit(a)
  BY CalmTables, IdleCalm DEF Fits, At
<1> QED BY <1>1, Reads, Left DEF Fits

LEMMA BeginFits ==
  ASSUME Serial, TypeInv, NEW r \in Requests, Fits(req[r]),
         NEW o, NEW i \in Invoices, NEW u, NEW p, Begin(r, o, i, u, p),
         \/ o \in {"validate", "submit"} /\ p = "evaluate"
         \/ o = "force" /\ p = "evaluate"
              /\ status[i] \notin {"absent", "void", "exported"}
         \/ o = "resolve" /\ p = "setStatus" /\ status[i] = "exception"
         \/ o = "recall" /\ p = "closeTasks" /\ status[i] = "in_approval",
         UNCHANGED <<invoiceVars, taskVars, billed, policy>>
  PROVE  SerialInv'
<1> PICK a : a = [Idle EXCEPT !.pc = p, !.op = o, !.inv = i, !.user = u]
  OBVIOUS
<1>1. a.pc = p /\ a.op = o /\ a.inv = i
  BY DEF Idle
<1>2. MadeBy(a) /\ StatusFits(a)
  BY <1>1 DEF MadeBy, StatusFits, Approving, Closed
<1>3. GateFits(a) /\ TasksFit(a)
  BY <1>1 DEF GateFits, TasksFit, Approving
<1> QED BY <1>2, <1>3, StartFits DEF Begin

LEMMA StartSerial ==
  ASSUME Serial, TypeInv, NEW r \in Requests, Fits(req[r]), Start(r)
  PROVE  SerialInv'
<1> USE DEF meterVars
<1>0. At(r, "idle") /\ TablesFit(Idle) /\ req[r].pc = "idle" /\ TypeOK
  <2>1. At(r, "idle")
    BY DEF Start, StartCapture, StartUpdate, StartValidate, StartResolve,
           StartSubmit, StartForce, StartRecall, StartDecide, StartExport,
           Void, SetPolicy, Begin
  <2> QED BY <2>1, CalmTables, IdleCalm DEF Fits, At, TypeInv
<1>1. ASSUME NEW i \in Invoices, StartCapture(r, i) PROVE SerialInv'
  <2> PICK a : a = [Idle EXCEPT !.pc = "extract", !.op = "capture", !.inv = i,
                                !.user = None]
    OBVIOUS
  <2>1. a.pc = "extract" /\ a.op = "capture" /\ a.inv = i
    BY DEF Idle
  <2>2. /\ status[i] = "absent" /\ status' = [status EXCEPT ![i] = "extracting"]
        /\ UNCHANGED <<fields, age, pending, billed>>
        /\ req' = [req EXCEPT ![r] = a]
    BY <1>1 DEF StartCapture, Begin, taskVars
  <2>3. status' = [j \in Invoices |-> IF j = i THEN "extracting" ELSE status[j]]
    BY <1>0, <2>2 DEF TypeOK
  <2>4. PendingOf(i) = {}
    BY <1>0, <2>2 DEF PendingOf, TablesFit, Closed, Idle
  <2>5. TablesFit(a)'
    BY <1>0, <2>2, <2>3, <2>4, OpenTables, IdleCalm DEF Closed, Calm, Idle
  <2>6. MadeBy(a)' /\ StatusFits(a)'
    BY <2>1, <2>3 DEF MadeBy, StatusFits, Approving
  <2>7. GateFits(a)' /\ TasksFit(a)'
    BY <2>1 DEF GateFits, TasksFit, Approving
  <2> QED BY <2>2, <2>5, <2>6, <2>7, Left DEF Fits
<1>2. ASSUME NEW i \in Invoices, NEW d \in Drafts, StartUpdate(r, i, d)
      PROVE  SerialInv'
  <2> PICK a : a = [Idle EXCEPT !.pc = "write", !.op = "update", !.inv = i,
                                !.draft = d]
    OBVIOUS
  <2>1. a.pc = "write" /\ a.op = "update" /\ a.inv = i
    BY DEF Idle
  <2>2. MadeBy(a) /\ StatusFits(a)
    BY <1>2, <2>1 DEF StartUpdate, MadeBy, StatusFits, Approving
  <2>3. GateFits(a) /\ TasksFit(a)
    BY <2>1 DEF GateFits, TasksFit, Approving
  <2> QED BY <1>0, <1>2, <2>2, <2>3, StartFits DEF StartUpdate
<1>3. ASSUME NEW i \in Invoices,
             StartValidate(r, i) \/ StartResolve(r, i) \/ StartRecall(r, i)
      PROVE  SerialInv'
  BY <1>3, BeginFits DEF StartValidate, StartResolve, StartRecall
<1>4. ASSUME NEW i \in Invoices, NEW u \in Users,
             StartSubmit(r, i, u) \/ StartForce(r, i, u)
      PROVE  SerialInv'
  BY <1>4, BeginFits DEF StartSubmit, StartForce
<1>5. ASSUME NEW t \in pending, NEW decision \in {"approve", "reject"},
             StartDecide(r, t, decision)
      PROVE  SerialInv'
  <2> PICK p : p = IF decision = "approve" THEN "canApprove" ELSE "decide"
    OBVIOUS
  <2> PICK a : a = [Idle EXCEPT !.pc = p, !.op = decision, !.inv = t.inv,
                                !.user = t.to, !.task = t]
    OBVIOUS
  <2>1. /\ a.pc = p /\ a.op = decision /\ a.inv = t.inv /\ a.task = t
        /\ req' = [req EXCEPT ![r] = a]
    BY <1>5 DEF Idle, StartDecide
  <2>2. t \in Tasks /\ t.inv \in Invoices
    BY <1>0 DEF TypeOK, Tasks
  <2>3. Finished(t.inv)
    BY <1>0, <2>2 DEF TablesFit, PendingOf
  <2>4. MadeBy(a) /\ StatusFits(a)
    BY <2>1 DEF MadeBy, StatusFits, Approving
  <2>5. GateFits(a) /\ TasksFit(a)
    BY <2>1, <2>2, <2>3 DEF GateFits, TasksFit, Approving
  <2> QED BY <1>0, <1>5, <2>1, <2>4, <2>5, StartFits DEF StartDecide
<1>6. CASE StartExport(r)
  <2> PICK b : b = {i \in Invoices : status[i] = "approved"}
    OBVIOUS
  <2> PICK a : a = [Idle EXCEPT !.pc = "writeFile", !.op = "export", !.batch = b]
    OBVIOUS
  <2>1. /\ a.pc = "writeFile" /\ a.op = "export" /\ a.batch = b
        /\ req' = [req EXCEPT ![r] = a]
    BY <1>6 DEF Idle, StartExport
  <2>2. MadeBy(a) /\ StatusFits(a)
    BY <2>1 DEF MadeBy, StatusFits, Approving
  <2>3. GateFits(a) /\ TasksFit(a)
    BY <2>1 DEF GateFits, TasksFit, Approving
  <2> QED BY <1>0, <1>6, <2>1, <2>2, <2>3, StartFits DEF StartExport
<1>7. ASSUME NEW i \in Invoices, Void(r, i) PROVE SerialInv'
  <2>1. /\ status' = [j \in Invoices |-> IF j = i THEN "void" ELSE status[j]]
        /\ UNCHANGED <<fields, age, pending, billed, req>>
    BY <1>0, <1>7 DEF Void, TypeOK, taskVars
  <2>2. TablesFit(req[r])'
    BY <1>0, <2>1, CloseTables, IdleCalm DEF Calm, Fits
  <2>3. \A s \in Requests : req'[s] = req[r]
    BY <2>1 DEF Serial
  <2>4. Fits(req[r])'
    BY <1>0, <2>1, <2>2
    DEF Fits, MadeBy, StatusFits, GateFits, TasksFit, Approving
  <2> QED BY <2>3, <2>4 DEF SerialInv
<1>8. ASSUME NEW p \in Policies, SetPolicy(r, p) PROVE SerialInv'
  <2>1. UNCHANGED <<status, fields, submittedBy, age, pending, billed, req>>
    BY <1>8 DEF SetPolicy, invoiceVars, taskVars
  <2>2. TablesFit(req[r])'
    BY <2>1 DEF Fits, TablesFit, PendingOf, Finished, NoDouble, Recent, Between
  <2>3. \A s \in Requests : req'[s] = req[r]
    BY <2>1 DEF Serial
  <2>4. Fits(req[r])'
    BY <1>0, <2>1, <2>2
    DEF Fits, MadeBy, StatusFits, GateFits, TasksFit, Approving
  <2> QED BY <2>3, <2>4 DEF SerialInv
<1> QED
  BY <1>1, <1>2, <1>3, <1>4, <1>5, <1>6, <1>7, <1>8 DEF Start

-----------------------------------------------------------------------------
(* The calls *)

LEMMA EndFits ==
  ASSUME Serial, TypeInv, NEW r \in Requests, Finish(r), TablesFit(Idle)'
  PROVE  SerialInv'
<1>1. Idle.pc = "idle"
  BY DEF Idle
<1>2. Fits(Idle)'
  BY <1>1 DEF Fits, MadeBy, StatusFits, GateFits, TasksFit, Approving
<1> QED BY <1>2, Left DEF Finish

(* After syncExceptions, whether or not it wrote a status.                 *)
LEMMA SyncFits ==
  ASSUME Serial, TypeInv, NEW r \in Requests, AfterSync(r),
         NEW q, q = req[r], NEW i, i = q.inv,
         q.op \notin {"approve", "recall"},
         q.op \in {"submit", "submitInvoice", "force"} /\ ~q.blocking
           => ~Blocking(i)',
         q.op = "submitInvoice" =>
           status'[i] \in {"needs_review", "exception", "in_approval"},
         q.op = "force" =>
           status'[i] \notin {"absent", "void", "exported"},
         \A a : TablesFit(a)'
  PROVE  SerialInv'
<1>1. CASE Finish(r)
  BY <1>1, EndFits
<1>2. CASE ~Finish(r)
  <2>1. /\ q.op \in {"submit", "submitInvoice", "force"}
        /\ ~q.blocking /\ Goto(r, AfterGate[q.op])
    BY <1>2 DEF AfterSync, AfterGate
  <2> PICK p : p = AfterGate[q.op]
    OBVIOUS
  <2>2. \/ q.op = "submit" /\ p = "guard"
        \/ q.op = "submitInvoice" /\ p = "route"
        \/ q.op = "force" /\ p = "canApprove"
    BY <2>1 DEF AfterGate
  <2> PICK a : a = [q EXCEPT !.pc = p]
    OBVIOUS
  <2>3. a.pc = p /\ a.op = q.op /\ a.inv = q.inv
    BY DEF TypeInv, TypeOK, Request
  <2>4. req' = [req EXCEPT ![r] = a]
    BY <2>1 DEF Goto
  <2>5. MadeBy(a)' /\ StatusFits(a)'
    BY <2>1, <2>2, <2>3 DEF MadeBy, StatusFits, Approving
  <2>6. GateFits(a)' /\ TasksFit(a)'
    BY <2>1, <2>2, <2>3 DEF GateFits, TasksFit, Approving
  <2> QED BY <2>4, <2>5, <2>6, Left DEF Fits
<1> QED BY <1>1, <1>2

LEMMA EditSerial ==
  ASSUME Serial, TypeInv, NEW r \in Requests, Fits(req[r]),
         Extract(r) \/ Write(r)
  PROVE  SerialInv'
<1> PICK q : q = req[r]
  OBVIOUS
<1> PICK i : i = q.inv
  OBVIOUS
<1>0. /\ q \in Request /\ CallOK(q) /\ TypeOK /\ i \in Invoices
      /\ MadeBy(q) /\ StatusFits(q) /\ TablesFit(q)
      /\ q.pc \in {"extract", "write"}
  BY DEF TypeInv, TypeOK, StepOK, CallOK, Extract, Write, At, Fits
<1> PICK a : a = IF q.pc = "extract" THEN [q EXCEPT !.pc = "evaluate"]
                 ELSE [q EXCEPT !.pc = "evaluate", !.draft = Blank]
  OBVIOUS
<1>1. /\ a.pc = "evaluate" /\ a.op = q.op /\ a.inv = i
      /\ q.op \in {"capture", "update"}
  BY <1>0 DEF Request, MadeBy
<1>2. req' = [req EXCEPT ![r] = a]
  BY <1>0 DEF Extract, Write, Goto, At
<1>3. /\ status[i] \notin Closed /\ status'[i] \notin Closed
      /\ \A j \in Invoices \ {i} :
           status'[j] = status[j] /\ fields'[j] = fields[j]
      /\ UNCHANGED <<age, pending, billed>>
  BY <1>0
  DEF Extract, Write, At, TypeOK, StatusFits, Closed, Locked, taskVars, meterVars
<1>4. PendingOf(i) = {}
  BY <1>0, <1>3 DEF PendingOf, TablesFit
<1>5. TablesFit(a)'
  BY <1>0, <1>3, <1>4, OpenTables DEF Between
<1>6. MadeBy(a)' /\ StatusFits(a)'
  BY <1>1 DEF MadeBy, StatusFits, Approving
<1>7. GateFits(a)' /\ TasksFit(a)'
  BY <1>1 DEF GateFits, TasksFit, Approving
<1> QED BY <1>2, <1>5, <1>6, <1>7, Left DEF Fits

LEMMA SyncSerial ==
  ASSUME Serial, TypeInv, NEW r \in Requests, Fits(req[r]),
         Evaluate(r) \/ Reread(r) \/ SetStatus(r)
  PROVE  SerialInv'
<1> PICK q : q = req[r]
  OBVIOUS
<1> PICK i : i = q.inv
  OBVIOUS
<1>0. /\ q \in Request /\ CallOK(q) /\ TypeOK /\ i \in Invoices
      /\ MadeBy(q) /\ StatusFits(q) /\ TablesFit(q) /\ GateFits(q)
      /\ q.pc \in {"evaluate", "reread", "setStatus"} /\ q.pc # "idle"
      /\ Calm(q) /\ Blocking(i) \in BOOLEAN
  BY BlockingType
  DEF TypeInv, TypeOK, StepOK, CallOK, Evaluate, Reread, SetStatus, At, Fits,
      Calm, Between
<1>1. CASE Evaluate(r)
  <2> PICK a : a = [q EXCEPT !.blocking = Blocking(i), !.pc = "reread"]
    OBVIOUS
  <2>1. /\ a.pc = "reread" /\ a.op = q.op /\ a.inv = i
        /\ a.blocking = Blocking(i)
    BY <1>0 DEF Request
  <2>2. req' = [req EXCEPT ![r] = a]
    BY <1>1 DEF Evaluate
  <2>3. q.pc = "evaluate"
    BY <1>1 DEF Evaluate, At
  <2>4. MadeBy(a) /\ StatusFits(a)
    BY <1>0, <2>1, <2>3 DEF MadeBy, StatusFits, Approving
  <2>5. GateFits(a) /\ TasksFit(a) /\ TablesFit(a)
    BY <1>0, <2>1, <2>3, <2>4, CalmTables
    DEF GateFits, TasksFit, Approving, MadeBy
  <2> QED BY <1>1, <2>2, <2>4, <2>5, Reads, Left DEF Fits, Evaluate, meterVars
<1>2. CASE Reread(r) /\ MustSetStatus(r)
  <2> PICK a : a = [q EXCEPT !.pc = "setStatus"]
    OBVIOUS
  <2>1. a.pc = "setStatus" /\ a.op = q.op /\ a.inv = i /\ a.blocking = q.blocking
    BY <1>0 DEF Request
  <2>2. req' = [req EXCEPT ![r] = a]
    BY <1>2 DEF Reread, Goto
  <2>3. /\ q.pc = "reread"
        /\ status[i] \in {"needs_review", "extracting", "exception"}
    BY <1>2 DEF Reread, At, MustSetStatus
  <2>4. MadeBy(a) /\ StatusFits(a)
    BY <1>0, <2>1, <2>3 DEF MadeBy, StatusFits, Approving
  <2>5. GateFits(a) /\ TasksFit(a) /\ TablesFit(a)
    BY <1>0, <2>1, <2>3, <2>4, CalmTables
    DEF GateFits, TasksFit, Approving, MadeBy
  <2> QED BY <1>2, <2>2, <2>4, <2>5, Reads, Left DEF Fits, Reread, meterVars
<1>3. CASE Reread(r) /\ ~MustSetStatus(r)
  <2>1. /\ AfterSync(r) /\ q.pc = "reread"
        /\ UNCHANGED <<invoiceVars, taskVars, billed, policy>>
    BY <1>3 DEF Reread, At, meterVars
  <2>2. /\ Blocking(i)' = Blocking(i) /\ (Blocking(i) => q.blocking)
        /\ status' = status
    BY <1>0, <2>1, GateStays DEF invoiceVars, GateFits
  <2>3. \A a : TablesFit(a)'
    <3> TAKE a
    <3>1. TablesFit(a)
      BY <1>0, CalmTables
    <3> QED
      BY <2>1, <3>1
      DEF TablesFit, PendingOf, Finished, NoDouble, Recent, Between, invoiceVars, taskVars
  <2>4. /\ q.op \notin {"approve", "recall"}
        /\ q.op = "submitInvoice" =>
             status'[i] \in {"needs_review", "exception", "in_approval"}
        /\ q.op = "force" => status'[i] \notin {"absent", "void", "exported"}
    BY <1>0, <2>1, <2>2 DEF MadeBy, StatusFits
  <2> QED BY <2>1, <2>2, <2>3, <2>4, SyncFits
<1>4. CASE SetStatus(r)
  <2>1. /\ AfterSync(r) /\ q.pc = "setStatus"
        /\ UNCHANGED <<fields, age, pending, billed>>
        /\ \A j \in Invoices \ {i} : status'[j] = status[j]
        /\ status'[i] \in {"exception", "needs_review"}
    BY <1>0, <1>4 DEF SetStatus, At, taskVars, meterVars, TypeOK
  <2>2. /\ Blocking(i)' = Blocking(i)
        /\ q.op # "resolve" => (Blocking(i) => q.blocking)
    BY <1>0, <2>1, GateStays DEF GateFits
  <2>3. PendingOf(i) = {}
    BY <1>0, <2>1 DEF PendingOf, TablesFit, StatusFits, Closed
  <2>4. \A a : TablesFit(a)'
    BY <1>0, <2>1, <2>3, OpenTables DEF Calm, Closed
  <2>5. q.op \notin {"approve", "recall"}
    BY <1>0, <2>1 DEF MadeBy
  <2> QED BY <2>1, <2>2, <2>4, <2>5, SyncFits
<1> QED BY <1>1, <1>2, <1>3, <1>4 DEF Reread

(* What every call knows of its request.                                   *)
LEMMA CallFacts ==
  ASSUME TypeInv, NEW r \in Requests, Fits(req[r]),
         req[r].pc \notin {"idle", "writeFile", "markExported"}
  PROVE  /\ req[r] \in Request /\ CallOK(req[r]) /\ TypeOK
         /\ req[r].inv \in Invoices
         /\ MadeBy(req[r]) /\ StatusFits(req[r]) /\ GateFits(req[r])
         /\ TasksFit(req[r]) /\ TablesFit(req[r])
BY DEF TypeInv, TypeOK, StepOK, CallOK, Fits

(* A call that reads, and goes on or ends.                                 *)
LEMMA OnFits ==
  ASSUME Serial, TypeInv, NEW r \in Requests, NEW a,
         req' = [req EXCEPT ![r] = a],
         MadeBy(a), StatusFits(a), GateFits(a), TasksFit(a), TablesFit(a),
         UNCHANGED <<invoiceVars, taskVars, billed, policy>>
  PROVE  SerialInv'
BY Reads, Left DEF Fits

LEMMA SubmitSerial ==
  ASSUME Serial, TypeInv, NEW r \in Requests, Fits(req[r]),
         Guard(r) \/ Route(r)
  PROVE  SerialInv'
<1> PICK q : q = req[r]
  OBVIOUS
<1> PICK i : i = q.inv
  OBVIOUS
<1>0. /\ q \in Request /\ CallOK(q) /\ TypeOK /\ i \in Invoices
      /\ MadeBy(q) /\ StatusFits(q) /\ TablesFit(q) /\ GateFits(q) /\ Calm(q)
      /\ UNCHANGED <<invoiceVars, taskVars, billed, policy>>
  <2>1. q.pc \in {"guard", "route"}
    BY DEF Guard, Route, At
  <2> QED BY <2>1, CallFacts DEF Guard, Route, meterVars, Calm, Between
<1>1. CASE Finish(r)
  BY <1>0, <1>1, CalmEnd
<1>2. CASE Guard(r) /\ ~Finish(r)
  <2> PICK a : a = [q EXCEPT !.op = "submitInvoice", !.pc = "evaluate"]
    OBVIOUS
  <2>1. a.pc = "evaluate" /\ a.op = "submitInvoice" /\ a.inv = i
    BY <1>0 DEF Request
  <2>2. /\ req' = [req EXCEPT ![r] = a]
        /\ status[i] \in {"needs_review", "exception", "in_approval"}
    BY <1>2 DEF Guard
  <2>3. MadeBy(a) /\ StatusFits(a)
    BY <2>1, <2>2 DEF MadeBy, StatusFits, Approving
  <2>4. GateFits(a) /\ TasksFit(a) /\ TablesFit(a)
    BY <1>0, <2>1, CalmTables DEF GateFits, TasksFit, Approving
  <2> QED BY <1>0, <2>2, <2>3, <2>4, OnFits
<1>3. CASE Route(r) /\ ~Finish(r)
  <2>0. q.pc = "route" /\ q.op = "submitInvoice" /\ ~Blocking(i)
        /\ status[i] \in {"needs_review", "exception", "in_approval"}
    BY <1>0, <1>3 DEF Route, At, CallOK, GateFits, StatusFits
  <2>1. CASE Goto(r, "limit")
    <3> PICK a : a = [q EXCEPT !.pc = "limit"]
      OBVIOUS
    <3>1. a.pc = "limit" /\ a.op = "submitInvoice" /\ a.inv = i
      BY <1>0, <2>0 DEF Request
    <3>2. req' = [req EXCEPT ![r] = a]
      BY <2>1 DEF Goto
    <3>3. MadeBy(a) /\ StatusFits(a)
      BY <2>0, <3>1 DEF MadeBy, StatusFits, Approving
    <3>4. GateFits(a) /\ TasksFit(a) /\ TablesFit(a)
      BY <1>0, <2>0, <3>1, CalmTables DEF GateFits, TasksFit, Approving
    <3> QED BY <1>0, <3>2, <3>3, <3>4, OnFits
  <2>2. CASE ~Goto(r, "limit")
    <3> PICK to : /\ to # {}
                  /\ req' = [req EXCEPT ![r].to = to, ![r].pc = "closeTasks"]
      BY <1>3, <2>2 DEF Route
    <3> PICK a : a = [q EXCEPT !.to = to, !.pc = "closeTasks"]
      OBVIOUS
    <3>1. a.pc = "closeTasks" /\ a.op = "submitInvoice" /\ a.inv = i /\ a.to = to
      BY <1>0, <2>0 DEF Request
    <3>2. req' = [req EXCEPT ![r] = a]
      OBVIOUS
    <3>3. MadeBy(a) /\ StatusFits(a)
      BY <2>0, <3>1 DEF MadeBy, StatusFits, Approving
    <3>4. GateFits(a) /\ TasksFit(a) /\ TablesFit(a)
      BY <1>0, <2>0, <3>1, CalmTables DEF GateFits, TasksFit, Approving
    <3> QED BY <1>0, <3>2, <3>3, <3>4, OnFits
  <2> QED BY <2>1, <2>2
<1> QED BY <1>1, <1>2, <1>3

LEMMA TasksSerial ==
  ASSUME Serial, TypeInv, NEW r \in Requests, Fits(req[r]),
         CloseTasks(r) \/ Decide(r)
  PROVE  SerialInv'
<1> PICK q : q = req[r]
  OBVIOUS
<1> PICK i : i = q.inv
  OBVIOUS
<1>0. /\ q \in Request /\ CallOK(q) /\ TypeOK /\ i \in Invoices
      /\ MadeBy(q) /\ StatusFits(q) /\ TablesFit(q) /\ GateFits(q)
      /\ TasksFit(q) /\ q.pc \in {"closeTasks", "decide"}
      /\ \A j \in Invoices \ {i} : ~Between(q, j)
      /\ UNCHANGED <<status, fields, submittedBy, age, billed, policy>>
      /\ q.op \in {"submitInvoice", "recall", "approve", "reject"}
  <2>1. q.pc \in {"closeTasks", "decide"}
    BY DEF CloseTasks, Decide, At
  <2> QED
    BY <2>1, CallFacts
    DEF CloseTasks, Decide, invoiceVars, meterVars, Between, CallOK
<1> PICK p : p = IF q.pc = "decide" THEN "closeTasks" ELSE AfterClose[q.op]
  OBVIOUS
<1> PICK a : a = IF q.pc = "decide" THEN [q EXCEPT !.task = None, !.pc = p]
                 ELSE [q EXCEPT !.pc = p]
  OBVIOUS
<1>1. \/ q.pc = "decide" /\ p = "closeTasks" /\ q.op \in {"approve", "reject"}
      \/ q.pc = "closeTasks" /\ q.op = "submitInvoice" /\ p = "assign"
      \/ q.pc = "closeTasks" /\ q.op \in {"recall", "reject"} /\ p = "sendBack"
      \/ q.pc = "closeTasks" /\ q.op = "approve" /\ p = "limit"
  BY <1>0 DEF AfterClose, CallOK
<1>2. /\ a.pc = p /\ a.op = q.op /\ a.inv = i /\ a.to = q.to
      /\ a.user = q.user
  BY <1>0 DEF Request
<1>3. req' = [req EXCEPT ![r] = a]
  BY <1>0 DEF CloseTasks, Decide, Goto, At
<1>4. /\ pending' \subseteq pending
      /\ \A t \in pending \ pending' : t.inv = i
      /\ q.pc = "closeTasks" => PendingOf(i)' = {}
  BY <1>0, <1>1 DEF CloseTasks, Decide, At, PendingOf, TasksFit
<1>5. Between(a, i)
  BY <1>1, <1>2 DEF Between
<1>6. TablesFit(a)'
  BY <1>0, <1>4, <1>5, FewerTasks
<1>7. MadeBy(a)' /\ StatusFits(a)'
  BY <1>0, <1>1, <1>2 DEF MadeBy, StatusFits, Approving
<1>8. GateFits(a)'
  <2>1. Blocking(i)' = Blocking(i) /\ Finished(i)' = Finished(i)
    BY <1>0, GateStays
  <2> QED BY <1>0, <1>1, <1>2, <2>1 DEF GateFits, Approving
<1>9. TasksFit(a)'
  BY <1>0, <1>1, <1>2, <1>4 DEF TasksFit
<1> QED BY <1>3, <1>6, <1>7, <1>8, <1>9, Left DEF Fits

LEMMA EnterSerial ==
  ASSUME Serial, TypeInv, NEW r \in Requests, Fits(req[r]),
         Assign(r) \/ EnterApproval(r)
  PROVE  SerialInv'
<1> PICK q : q = req[r]
  OBVIOUS
<1> PICK i : i = q.inv
  OBVIOUS
<1>0. /\ q \in Request /\ CallOK(q) /\ TypeOK /\ i \in Invoices
      /\ StatusFits(q) /\ TablesFit(q) /\ TasksFit(q)
      /\ q.pc \in {"assign", "enterApproval"} /\ q.op = "submitInvoice"
      /\ ~Blocking(i)
      /\ \A j \in Invoices \ {i} : ~Between(q, j)
  <2>1. q.pc \in {"assign", "enterApproval"}
    BY DEF Assign, EnterApproval, At
  <2> QED BY <2>1, CallFacts DEF Between, MadeBy, GateFits
<1>1. Finished(i) /\ ~Duplicate(i)
  BY <1>0 DEF Blocking, Finished
<1>2. CASE Assign(r)
  <2> PICK a : a = [q EXCEPT !.to = {}, !.pc = "enterApproval"]
    OBVIOUS
  <2>1. a.pc = "enterApproval" /\ a.op = "submitInvoice" /\ a.inv = i
    BY <1>0 DEF Request
  <2>2. /\ req' = [req EXCEPT ![r] = a]
        /\ UNCHANGED <<status, fields, submittedBy, age, billed, policy>>
        /\ q.pc = "assign"
    BY <1>2 DEF Assign, At, invoiceVars, meterVars
  <2> PICK n : n = round[i] + 1
    OBVIOUS
  <2>3. pending' = pending \union
          [inv : {i}, to : q.to, round : {n}, under : {policy}]
    BY <1>2 DEF Assign
  <2>4. PICK u : u \in q.to
    BY <1>0, <2>2 DEF TasksFit
  <2>5. [inv |-> i, to |-> u, round |-> n, under |-> policy] \in pending'
    BY <2>3, <2>4
  <2>6. \A t \in pending' \ pending : t.inv = i
    BY <2>3
  <2>7. /\ PendingOf(i)' # {}
        /\ \A j \in Invoices \ {i} : PendingOf(j)' = PendingOf(j)
    BY <2>3, <2>5, <2>6 DEF PendingOf
  <2>8. \A j : Finished(j)' = Finished(j) /\ (Blocking(i)' = Blocking(i))
    BY <2>2, GateStays
  <2>9. TablesFit(a)'
    <3>1. \A t \in pending' : t.inv = i \/ status'[t.inv] \in Closed
      BY <1>0, <2>2, <2>6 DEF TablesFit
    <3> QED
      BY <1>0, <1>1, <2>1, <2>2, <2>7, <2>8, <3>1 DEF TablesFit, NoDouble, Recent
  <2>10. MadeBy(a)' /\ StatusFits(a)'
    BY <1>0, <2>1, <2>2 DEF MadeBy, StatusFits, Approving
  <2>11. GateFits(a)' /\ TasksFit(a)'
    BY <1>0, <2>1, <2>7, <2>8 DEF GateFits, TasksFit, Approving
  <2> QED BY <2>2, <2>9, <2>10, <2>11, Left DEF Fits
<1>3. CASE EnterApproval(r)
  <2>1. /\ Finish(r) /\ q.pc = "enterApproval"
        /\ UNCHANGED <<fields, age, pending, billed>>
        /\ status' = [j \in Invoices |-> IF j = i THEN "in_approval" ELSE status[j]]
    BY <1>0, <1>3 DEF EnterApproval, At, taskVars, meterVars, TypeOK
  <2>2. \A j : PendingOf(j)' = PendingOf(j) /\ Finished(j)' = Finished(j)
    BY <2>1 DEF PendingOf, Finished
  <2>3. PendingOf(i) # {}
    BY <1>0, <2>1 DEF TasksFit
  <2>4. NoDouble'
    BY <1>0, <1>1, <2>1 DEF TablesFit, NoDouble, Duplicate, Recent
  <2>5. \A t \in pending' : status'[t.inv] \in Closed
    BY <1>0, <2>1 DEF TablesFit, Closed, TypeOK, Tasks
  <2>6. TablesFit(Idle)'
    BY <1>0, <1>1, <2>1, <2>2, <2>3, <2>4, <2>5 DEF TablesFit
  <2> QED BY <2>1, <2>6, EndFits
<1> QED BY <1>2, <1>3

LEMMA CheckSerial ==
  ASSUME Serial, TypeInv, NEW r \in Requests, Fits(req[r]),
         AssertCanApprove(r)
  PROVE  SerialInv'
<1> PICK q : q = req[r]
  OBVIOUS
<1> PICK i : i = q.inv
  OBVIOUS
<1>0. /\ q \in Request /\ CallOK(q) /\ TypeOK /\ i \in Invoices
      /\ StatusFits(q) /\ TablesFit(q) /\ GateFits(q) /\ TasksFit(q) /\ Calm(q)
      /\ q.pc = "canApprove" /\ q.op \in {"force", "approve"}
      /\ UNCHANGED <<invoiceVars, taskVars, billed, policy>>
  <2>1. q.pc = "canApprove"
    BY DEF AssertCanApprove, At
  <2> QED
    BY <2>1, CallFacts DEF AssertCanApprove, Calm, Between, CallOK, meterVars
<1>1. CASE ~CanApprove(i, q.user)
  BY <1>0, <1>1, CalmEnd DEF AssertCanApprove
<1>2. CASE CanApprove(i, q.user)
  <2> PICK p : p = IF q.op = "force" THEN "limit" ELSE "decide"
    OBVIOUS
  <2> PICK a : a = [q EXCEPT !.pc = p]
    OBVIOUS
  <2>1. a.pc = p /\ a.op = q.op /\ a.inv = i /\ a.user = q.user /\ a.task = q.task
    BY <1>0 DEF Request
  <2>2. req' = [req EXCEPT ![r] = a]
    BY <1>2 DEF AssertCanApprove, Goto
  <2>3. q.op = "approve" => q.task \in Tasks /\ q.task.inv = i
    BY <1>0 DEF TasksFit
  <2>4. MadeBy(a) /\ StatusFits(a)
    BY <1>0, <2>1 DEF MadeBy, StatusFits, Approving
  <2>5. GateFits(a) /\ TasksFit(a) /\ TablesFit(a)
    BY <1>0, <1>2, <2>1, <2>3, CalmTables DEF GateFits, TasksFit, Approving
  <2> QED BY <1>0, <2>2, <2>4, <2>5, OnFits
<1> QED BY <1>1, <1>2

LEMMA BackSerial ==
  ASSUME Serial, TypeInv, NEW r \in Requests, Fits(req[r]), SendBack(r)
  PROVE  SerialInv'
<1> PICK q : q = req[r]
  OBVIOUS
<1> PICK i : i = q.inv
  OBVIOUS
<1>0. /\ TypeOK /\ i \in Invoices /\ TablesFit(q) /\ PendingOf(i) = {}
      /\ q.pc = "sendBack" /\ \A j \in Invoices \ {i} : ~Between(q, j)
  <2>1. q.pc = "sendBack"
    BY DEF SendBack, At
  <2> QED BY <2>1, CallFacts DEF Between, TasksFit
<1>1. /\ Finish(r) /\ UNCHANGED <<fields, age, pending, billed>>
      /\ status'[i] \notin Closed
      /\ \A j \in Invoices \ {i} : status'[j] = status[j]
  BY <1>0 DEF SendBack, taskVars, meterVars, TypeOK, Closed
<1> QED BY <1>0, <1>1, OpenTables, EndFits

LEMMA BilledFinite ==
  ASSUME TypeOK
  PROVE  /\ IsFiniteSet(billed) /\ Cardinality(billed) \in Nat
         /\ Cardinality(mtd) \in Nat /\ Cardinality(mtd) <= Cardinality(billed)
<1>1. billed \subseteq Invoices /\ mtd \subseteq billed
  BY DEF TypeOK
<1> QED BY <1>1, FinitenessAssumption, FS_Subset, FS_CardinalityType

LEMMA ApproveSerial ==
  ASSUME Serial, TypeInv, NEW r \in Requests, Fits(req[r]),
         Limit(r) \/ MarkApproved(r) \/ Bill(r)
  PROVE  SerialInv'
<1> PICK q : q = req[r]
  OBVIOUS
<1> PICK i : i = q.inv
  OBVIOUS
<1>0. /\ q \in Request /\ TypeOK /\ i \in Invoices
      /\ StatusFits(q) /\ TablesFit(q) /\ GateFits(q)
      /\ q.pc \in {"limit", "markApproved", "bill"}
      /\ q.pc # "bill" => q.op \in {"submitInvoice", "force", "approve"}
      /\ \A j \in Invoices \ {i} : ~Between(q, j)
  <2>1. q.pc \in {"limit", "markApproved", "bill"}
    BY DEF Limit, MarkApproved, Bill, At
  <2> QED BY <2>1, CallFacts DEF Between, MadeBy, Approving
<1>1. CASE Limit(r) /\ HardBlocked
  <2>1. Finish(r) /\ UNCHANGED <<invoiceVars, taskVars, billed, policy>>
    BY <1>1 DEF Limit, meterVars
  <2>2. Cardinality(billed) >= HardLimit
    BY <1>0, <1>1, BilledFinite, FinitenessAssumption DEF HardBlocked
  <2>3. TablesFit(Idle)
    BY <1>0, <2>2 DEF TablesFit
  <2> QED BY <2>1, <2>3, RestFits, Reads, Left DEF Finish
<1>2. CASE Limit(r) /\ ~HardBlocked
  <2> PICK a : a = [q EXCEPT !.pc = "markApproved"]
    OBVIOUS
  <2>1. a.pc = "markApproved" /\ a.op = q.op /\ a.inv = i /\ a.user = q.user
    BY <1>0 DEF Request
  <2>2. /\ req' = [req EXCEPT ![r] = a] /\ q.pc = "limit"
        /\ UNCHANGED <<invoiceVars, taskVars, billed, policy>>
    BY <1>2 DEF Limit, Goto, At, meterVars
  <2>3. MadeBy(a) /\ StatusFits(a)
    BY <1>0, <2>1, <2>2 DEF MadeBy, StatusFits, Approving
  <2>4. GateFits(a) /\ TasksFit(a)
    BY <1>0, <2>1, <2>2 DEF GateFits, TasksFit, Approving
  <2>5. TablesFit(a)
    BY <1>0, <2>1, <2>2 DEF TablesFit, Between
  <2> QED BY <2>2, <2>3, <2>4, <2>5, OnFits
<1>3. CASE MarkApproved(r)
  <2> PICK a : a = [q EXCEPT !.pc = "bill"]
    OBVIOUS
  <2>1. a.pc = "bill" /\ a.op = q.op /\ a.inv = i
    BY <1>0 DEF Request
  <2>2. /\ req' = [req EXCEPT ![r] = a] /\ q.pc = "markApproved"
        /\ status'[i] = "approved"
        /\ \A j \in Invoices \ {i} : status'[j] = status[j]
        /\ UNCHANGED <<fields, age, pending, billed>>
    BY <1>0, <1>3 DEF MarkApproved, Goto, At, taskVars, meterVars, TypeOK
  <2>3. /\ Blocking(i)' = Blocking(i) /\ Finished(i)' = Finished(i)
        /\ ~Blocking(i) \/ Finished(i)
    BY <1>0, <2>2, GateStays DEF GateFits
  <2>4. Finished(i)
    BY <2>3 DEF Blocking, Finished
  <2>5. TablesFit(a)'
    BY <1>0, <2>2, <2>4, CloseTables
  <2>6. MadeBy(a)' /\ StatusFits(a)'
    BY <1>0, <2>1, <2>2 DEF MadeBy, StatusFits, Approving
  <2>7. GateFits(a)' /\ TasksFit(a)'
    BY <1>0, <2>1, <2>2, <2>3, <2>4 DEF GateFits, TasksFit, Approving
  <2> QED BY <2>2, <2>5, <2>6, <2>7, Left DEF Fits
<1>4. CASE Bill(r)
  <2>1. /\ Finish(r) /\ UNCHANGED <<status, fields, age, pending>>
        /\ q.pc = "bill" /\ billed' = billed \union {i}
    BY <1>4 DEF Bill, At, invoiceVars, taskVars
  <2>2. IsFiniteSet(billed') /\ Cardinality(billed') \in Nat
    BY <1>0, <2>1, BilledFinite, FS_AddElement, FS_CardinalityType
  <2>3. Cardinality(billed) <= Cardinality(billed')
    BY <2>1, <2>2, FS_Subset
  <2>4. Cardinality(billed) >= HardLimit => Cardinality(billed') >= HardLimit
    BY <1>0, <2>2, <2>3, BilledFinite, FinitenessAssumption
  <2>5. \A j : PendingOf(j)' = PendingOf(j) /\ Finished(j)' = Finished(j)
    BY <2>1 DEF PendingOf, Finished
  <2>6. \A j \in Invoices : ~Between(q, j)
    BY <2>1 DEF Between
  <2>7. NoDouble'
    BY <1>0, <2>1 DEF TablesFit, NoDouble, Recent
  <2>8. TablesFit(Idle)'
    BY <1>0, <2>1, <2>4, <2>5, <2>6, <2>7 DEF TablesFit
  <2> QED BY <2>1, <2>8, EndFits
<1> QED BY <1>1, <1>2, <1>3, <1>4

LEMMA ExportSerial ==
  ASSUME Serial, TypeInv, NEW r \in Requests, Fits(req[r]),
         WriteFile(r) \/ MarkExported(r)
  PROVE  SerialInv'
<1> PICK q : q = req[r]
  OBVIOUS
<1>0. /\ q \in Request /\ TypeOK /\ TablesFit(q) /\ Calm(q)
      /\ q.pc \in {"writeFile", "markExported"}
      /\ \A i \in q.batch : status[i] = "approved"
  BY DEF WriteFile, MarkExported, At, TypeInv, TypeOK, Fits, StatusFits, Calm,
         Between
<1>1. CASE WriteFile(r)
  <2> PICK a : a = [q EXCEPT !.pc = "markExported"]
    OBVIOUS
  <2>1. /\ a.pc = "markExported" /\ a.op = q.op /\ a.inv = q.inv
        /\ a.batch = q.batch
    BY <1>0 DEF Request
  <2>2. /\ req' = [req EXCEPT ![r] = a] /\ q.pc = "writeFile"
        /\ UNCHANGED <<invoiceVars, taskVars, billed, policy>>
    BY <1>1 DEF WriteFile, Goto, At, meterVars
  <2>3. StatusFits(q) /\ GateFits(q)
    BY DEF Fits
  <2>4. MadeBy(a) /\ StatusFits(a)
    BY <1>0, <2>1, <2>2, <2>3 DEF MadeBy, StatusFits, Approving
  <2>5. GateFits(a) /\ TasksFit(a) /\ TablesFit(a)
    BY <1>0, <2>1, <2>2, <2>3, CalmTables DEF GateFits, TasksFit, Approving
  <2> QED BY <2>2, <2>4, <2>5, OnFits
<1>2. CASE MarkExported(r)
  <2>1. /\ Finish(r) /\ UNCHANGED <<fields, age, pending, billed>>
        /\ \A i \in Invoices :
             status'[i] = IF i \in q.batch THEN "exported" ELSE status[i]
    BY <1>2 DEF MarkExported, taskVars, meterVars
  <2>2. \A i \in Invoices : status[i] = "approved" => Finished(i)
    BY <1>0 DEF TablesFit
  <2>3. TablesFit(Idle)'
    BY <1>0, <2>1, <2>2, CloseTables DEF Calm
  <2> QED BY <2>1, <2>3, EndFits
<1> QED BY <1>1, <1>2

(* Who grows older is a double of fewer.                                   *)
LEMMA DaySerial ==
  ASSUME TypeInv, SerialInv, NextDay
  PROVE  SerialInv'
<1>1. \A i \in Invoices : Recent(i)' => Recent(i)
  BY FinitenessAssumption DEF NextDay, Recent, TypeInv, TypeOK
<1>2. UNCHANGED <<status, fields, submittedBy, pending, billed, policy, req>>
  BY DEF NextDay, taskVars, meterVars
<1>3. \A i : Blocking(i)' => Blocking(i)
  BY <1>1, <1>2 DEF Blocking, Duplicate
<1>4. NoDouble => NoDouble'
  BY <1>1, <1>2 DEF NoDouble
<1>5. \A i : PendingOf(i)' = PendingOf(i) /\ Finished(i)' = Finished(i)
  BY <1>2 DEF PendingOf, Finished
<1>6. ASSUME NEW r \in Requests PROVE Fits(req[r])'
  <2> PICK q : q = req[r]
    OBVIOUS
  <2>1. q = req'[r] /\ Fits(q)
    BY <1>2 DEF SerialInv
  <2>2. MadeBy(q)' /\ StatusFits(q)'
    BY <1>2, <2>1 DEF Fits, MadeBy, StatusFits
  <2>3. GateFits(q)' /\ TasksFit(q)'
    BY <1>2, <1>3, <1>5, <2>1 DEF Fits, GateFits, TasksFit
  <2>4. TablesFit(q)'
    BY <1>2, <1>4, <1>5, <2>1 DEF Fits, TablesFit, Between
  <2> QED BY <2>1, <2>2, <2>3, <2>4 DEF Fits
<1> QED BY <1>6 DEF SerialInv

LEMMA NextSerial ==
  ASSUME Serial, StopsAtGates, TypeInv, SerialInv, [Next]_vars
  PROVE  SerialInv'
<1>1. ASSUME NEW r \in Requests, Start(r) PROVE SerialInv'
  BY <1>1, StartSerial DEF SerialInv
<1>2. ASSUME NEW r \in Requests, Step(r) PROVE SerialInv'
  BY <1>2, EditSerial, SyncSerial, SubmitSerial, TasksSerial, EnterSerial,
     CheckSerial, BackSerial, ApproveSerial, ExportSerial
  DEF SerialInv, Step
<1>3. ASSUME NEW r \in Requests, Fail(r) PROVE SerialInv'
  <2>1. Calm(req[r]) /\ Fits(req[r])
    BY <1>3 DEF Fail, StopsAtGates, Calm, Between, SerialInv
  <2> QED BY <1>3, <2>1, CalmEnd DEF Fail, meterVars
<1>4. ASSUME UNCHANGED <<invoiceVars, taskVars, billed, policy, req>>
      PROVE  SerialInv'
  <2>1. ASSUME NEW r \in Requests PROVE Fits(req[r])'
    BY <1>4, Reads DEF SerialInv
  <2> QED BY <2>1 DEF SerialInv
<1>5. CASE NextDay
  BY <1>5, DaySerial
<1> QED
  BY <1>1, <1>2, <1>3, <1>4, <1>5 DEF Next, NewMonth, vars, invoiceVars, taskVars

LEMMA InitSerial == Init => SerialInv
<1> SUFFICES ASSUME Init PROVE SerialInv
  OBVIOUS
<1>1. TablesFit(Idle)
  BY DEF Init, TablesFit, PendingOf, NoDouble
<1> QED BY <1>1, RestFits DEF Init, SerialInv

(* Served one after the other, requests leave tasks that fit the invoices: *)
(* none is open on an invoice that is back with the clerks, and one is open *)
(* on each invoice in approval unless the tenant is at the hard limit.     *)
THEOREM SerialTasksFit ==
  ASSUME Serial, StopsAtGates
  PROVE  Spec => []TasksFitStatus
<1>1. SerialInv => TasksFitStatus
  <2> SUFFICES ASSUME SerialInv, Quiet PROVE TasksFitStatus
    BY DEF TasksFitStatus, OpenTasksFollowSubmission, StalledOnlyByLimit
  <2> PICK r \in Requests : TRUE
    BY FinitenessAssumption
  <2>1. req[r].pc = "idle" /\ TablesFit(req[r])
    BY DEF Quiet, At, SerialInv, Fits
  <2> QED
    BY <2>1
    DEF TablesFit, Between, Closed, TasksFitStatus, OpenTasksFollowSubmission,
        StalledOnlyByLimit
<1> QED
  BY <1>1, InitSerial, NextSerial, InitTypeInv, NextTypeInv, PTL DEF Spec

(* What they bring into approval passed the gate and still does.           *)
THEOREM SerialGate ==
  ASSUME Serial, StopsAtGates
  PROVE  Spec => []GatePassed
<1>1. SerialInv => GatePassed
  <2> PICK r \in Requests : TRUE
    BY FinitenessAssumption
  <2> SUFFICES ASSUME SerialInv PROVE GatePassed
    OBVIOUS
  <2>1. TablesFit(req[r])
    BY DEF SerialInv, Fits
  <2> QED BY <2>1 DEF TablesFit, GatePassed, Coded, Finished
<1> QED
  BY <1>1, InitSerial, NextSerial, InitTypeInv, NextTypeInv, PTL DEF Spec

(* Whoever the submitter u of an invoice may ask under the policy p, or a  *)
(* delegate of such a user.                                                *)
Asked(p, u, to) ==
  \E v \in Users : to = p.delegate[v] /\ Independent(p, u, v)

(* The same from the moment the assignees are chosen: the tasks are        *)
(* written, and the submitter after them.                                  *)
DutiesFit(q) ==
  /\ q.pc \in {"closeTasks", "assign"} /\ q.op = "submitInvoice" =>
       \A to \in q.to : Asked(policy, q.user, to)
  /\ q.pc = "enterApproval" =>
       \A t \in PendingOf(q.inv) : Asked(t.under, q.user, t.to)
  /\ \A t \in pending :
       \/ status[t.inv] # "in_approval"
       \/ q.pc = "enterApproval" /\ q.inv = t.inv
       \/ Asked(t.under, submittedBy[t.inv], t.to)

DutiesInv == \A r \in Requests : DutiesFit(req[r])

LEMMA AssigneesAsked ==
  ASSUME policy \in Policies, NEW t \in Totals, NEW u
  PROVE  \A to \in Assignees(t, u) : Asked(policy, u, to)
BY PolicyAssumption DEF Assignees, SodFilter, Asked

(* With one request, the invariant is about the record it leaves.          *)
LEMMA DutiesLeft ==
  ASSUME Serial, NEW r \in Requests, DutiesFit(req[r])'
  PROVE  DutiesInv'
BY DEF Serial, DutiesInv

(* Most steps write no task and no submitter, and bring nothing into       *)
(* approval.                                                               *)
LEMMA DutiesRest ==
  ASSUME Serial, NEW r \in Requests, DutiesFit(req[r]),
         req'[r].pc \notin {"assign", "enterApproval"},
         req'[r].pc = "closeTasks" => req'[r].op # "submitInvoice",
         pending' \subseteq pending, req[r].pc # "enterApproval",
         \A t \in pending' : status'[t.inv] = "in_approval" =>
           /\ status[t.inv] = "in_approval"
           /\ submittedBy'[t.inv] = submittedBy[t.inv]
  PROVE  DutiesInv'
<1>1. DutiesFit(req[r])'
  BY DEF DutiesFit, Asked, Independent
<1> QED BY <1>1, DutiesLeft

LEMMA InitDuties == Init => DutiesInv
BY DEF Init, DutiesInv, DutiesFit, Idle

LEMMA StartDuties ==
  ASSUME Serial, TypeInv, NEW r \in Requests, DutiesFit(req[r]), Start(r)
  PROVE  DutiesInv'
<1>0. req[r].pc = "idle" /\ TypeOK
  BY DEF Start, StartCapture, StartUpdate, StartValidate, StartResolve,
         StartSubmit, StartForce, StartRecall, StartDecide, StartExport,
         Void, SetPolicy, Begin, At, TypeInv
<1>1. /\ req'[r].pc \notin {"assign", "enterApproval"}
      /\ req'[r].pc = "closeTasks" => req'[r].op # "submitInvoice"
  <2>1. ASSUME NEW o, NEW i, NEW u, NEW p, Begin(r, o, i, u, p)
        PROVE  req'[r].pc = p /\ req'[r].op = o
    BY <1>0, <2>1 DEF Begin, Idle, TypeOK
  <2>2. ASSUME NEW i \in Invoices,
               \/ StartCapture(r, i) \/ StartValidate(r, i)
               \/ StartResolve(r, i) \/ StartRecall(r, i)
               \/ \E u \in Users : StartSubmit(r, i, u) \/ StartForce(r, i, u)
        PROVE  /\ req'[r].pc \notin {"assign", "enterApproval"}
               /\ req'[r].pc = "closeTasks" => req'[r].op # "submitInvoice"
    BY <2>1, <2>2
    DEF StartCapture, StartValidate, StartResolve, StartRecall, StartSubmit,
        StartForce
  <2>3. ASSUME NEW i \in Invoices, NEW d \in Drafts, StartUpdate(r, i, d)
        PROVE  req'[r].pc = "write"
    BY <1>0, <2>3 DEF StartUpdate, Idle, TypeOK
  <2>4. ASSUME NEW t \in pending, NEW decision, StartDecide(r, t, decision)
        PROVE  req'[r].pc \in {"canApprove", "decide"}
    BY <1>0, <2>4 DEF StartDecide, Idle, TypeOK
  <2>5. ASSUME StartExport(r) PROVE req'[r].pc = "writeFile"
    BY <1>0, <2>5 DEF StartExport, Idle, TypeOK
  <2>6. ASSUME NEW i, NEW p, Void(r, i) \/ SetPolicy(r, p)
        PROVE  req'[r].pc = "idle"
    BY <1>0, <2>6 DEF Void, SetPolicy
  <2> QED BY <2>2, <2>3, <2>4, <2>5, <2>6 DEF Start
<1>2. /\ pending' = pending /\ submittedBy' = submittedBy
      /\ \A i \in Invoices :
           status'[i] = "in_approval" => status[i] = "in_approval"
  BY <1>0
  DEF Start, StartCapture, StartUpdate, StartValidate, StartResolve,
      StartSubmit, StartForce, StartRecall, StartDecide, StartExport,
      Void, SetPolicy, invoiceVars, taskVars, TypeOK
<1>3. \A t \in pending : t.inv \in Invoices
  BY <1>0 DEF TypeOK, Tasks
<1> QED BY <1>0, <1>1, <1>2, <1>3, DutiesRest

LEMMA StepDuties ==
  ASSUME Serial, TypeInv, NEW r \in Requests, Fits(req[r]), DutiesFit(req[r]),
         Step(r)
  PROVE  DutiesInv'
<1> PICK q : q = req[r]
  OBVIOUS
<1> PICK i : i = q.inv
  OBVIOUS
<1>0. /\ TypeOK /\ q \in Request /\ CallOK(q) /\ DutiesFit(q)
      /\ MadeBy(q) /\ TasksFit(q)
      /\ \A t \in pending : t.inv \in Invoices
  BY DEF TypeInv, TypeOK, StepOK, Fits, Tasks
<1>1. ASSUME Extract(r) \/ Write(r) \/ Evaluate(r) \/ Reread(r) \/ SetStatus(r)
      PROVE  DutiesInv'
  <2>1. /\ q.pc # "enterApproval" /\ UNCHANGED <<pending, submittedBy>>
        /\ \A j \in Invoices :
             status'[j] = "in_approval" => status[j] = "in_approval"
    BY <1>0, <1>1
    DEF Extract, Write, Evaluate, Reread, SetStatus, At, invoiceVars, taskVars,
        TypeOK
  <2>2. req'[r].pc \notin {"assign", "enterApproval", "closeTasks"}
    BY <1>0, <1>1
    DEF Extract, Write, Evaluate, Reread, SetStatus, AfterSync, AfterGate,
        Goto, Finish, Idle, TypeOK, Request
  <2> QED BY <1>0, <2>1, <2>2, DutiesRest
<1>2. ASSUME Guard(r) \/ AssertCanApprove(r) \/ Decide(r) \/ SendBack(r)
             \/ Limit(r) \/ MarkApproved(r) \/ Bill(r)
      PROVE  DutiesInv'
  <2>1. /\ q.pc # "enterApproval" /\ pending' \subseteq pending
        /\ \A j \in Invoices : status'[j] = "in_approval" =>
             /\ status[j] = "in_approval"
             /\ submittedBy'[j] = submittedBy[j]
    BY <1>0, <1>2
    DEF Guard, AssertCanApprove, Decide, SendBack, Limit, MarkApproved, Bill,
        At, invoiceVars, taskVars, TypeOK
  <2>2. /\ req'[r].pc \notin {"assign", "enterApproval"}
        /\ req'[r].pc = "closeTasks" => req'[r].op # "submitInvoice"
    BY <1>0, <1>2
    DEF Guard, AssertCanApprove, Decide, SendBack, Limit, MarkApproved, Bill,
        At, Goto, Finish, Idle, TypeOK, Request, CallOK
  <2> QED BY <1>0, <2>1, <2>2, DutiesRest
<1>3. ASSUME WriteFile(r) \/ MarkExported(r) PROVE DutiesInv'
  <2>1. /\ q.pc # "enterApproval" /\ UNCHANGED <<pending, submittedBy>>
        /\ \A j \in Invoices :
             status'[j] = "in_approval" => status[j] = "in_approval"
    BY <1>3 DEF WriteFile, MarkExported, At, invoiceVars, taskVars
  <2>2. req'[r].pc \in {"markExported", "idle"}
    BY <1>0, <1>3 DEF WriteFile, MarkExported, Goto, Finish, Idle, TypeOK, Request
  <2> QED BY <1>0, <2>1, <2>2, DutiesRest
<1>4. CASE Route(r)
  <2>1. /\ q.pc = "route" /\ i \in Invoices
        /\ UNCHANGED <<status, submittedBy, pending, policy>>
    BY <1>0, <1>4 DEF Route, At, CallOK, invoiceVars, taskVars
  <2>2. CASE Finish(r) \/ Goto(r, "limit")
    <3>1. req'[r].pc \in {"limit", "idle"}
      BY <1>0, <2>2 DEF Goto, Finish, Idle, TypeOK, Request
    <3> QED BY <1>0, <2>1, <3>1, DutiesRest
  <2>3. CASE ~(Finish(r) \/ Goto(r, "limit"))
    <3> PICK to : to = Assignees(fields[i].total, q.user)
      OBVIOUS
    <3>1. /\ fields[i].total # None
          /\ req' = [req EXCEPT ![r].to = to, ![r].pc = "closeTasks"]
      BY <1>4, <2>3 DEF Route
    <3>2. \A u \in to : Asked(policy, q.user, u)
      <4>1. fields[i].total \in Totals /\ policy \in Policies
        BY <1>0, <2>1, <3>1, TotalType DEF TypeOK
      <4> QED BY <4>1, AssigneesAsked
    <3>3. /\ req'[r].pc = "closeTasks" /\ req'[r].to = to
          /\ req'[r].user = q.user
      BY <1>0, <3>1 DEF TypeOK, Request
    <3>4. DutiesFit(req[r])'
      BY <1>0, <2>1, <3>2, <3>3 DEF DutiesFit, Asked, Independent
    <3> QED BY <3>4, DutiesLeft
  <2> QED BY <2>2, <2>3
<1>5. CASE CloseTasks(r)
  <2>1. /\ q.pc = "closeTasks" /\ pending' \subseteq pending
        /\ UNCHANGED <<status, submittedBy, policy>>
    BY <1>5 DEF CloseTasks, At, invoiceVars
  <2>2. /\ req'[r].pc = AfterClose[q.op] /\ req'[r].op = q.op
        /\ req'[r].to = q.to /\ req'[r].user = q.user
    BY <1>0, <1>5 DEF CloseTasks, Goto, TypeOK, Request
  <2>3. CASE q.op = "submitInvoice"
    <3>1. req'[r].pc = "assign"
      BY <2>2, <2>3 DEF AfterClose
    <3>2. DutiesFit(req[r])'
      BY <1>0, <2>1, <2>2, <2>3, <3>1 DEF DutiesFit, Asked, Independent
    <3> QED BY <3>2, DutiesLeft
  <2>4. CASE q.op # "submitInvoice"
    <3>1. req'[r].pc \in {"sendBack", "limit"}
      BY <1>0, <2>1, <2>2, <2>4 DEF AfterClose, CallOK
    <3> QED BY <1>0, <2>1, <3>1, DutiesRest
  <2> QED BY <2>3, <2>4
<1>6. CASE Assign(r)
  <2>1. /\ q.pc = "assign" /\ q.op = "submitInvoice" /\ PendingOf(i) = {}
        /\ UNCHANGED <<status, submittedBy, policy>>
    BY <1>0, <1>6 DEF Assign, At, invoiceVars, MadeBy, TasksFit
  <2>2. pending' = pending \union
          [inv : {i}, to : q.to, round : {round[i] + 1}, under : {policy}]
    BY <1>6 DEF Assign
  <2>3. /\ req'[r].pc = "enterApproval" /\ req'[r].inv = i
        /\ req'[r].user = q.user
    BY <1>0, <1>6 DEF Assign, TypeOK, Request
  <2>4. \A t \in PendingOf(i)' : Asked(policy, q.user, t.to) /\ t.under = policy
    BY <1>0, <2>1, <2>2 DEF PendingOf, DutiesFit
  <2>5. \A t \in pending' : t.inv # i => t \in pending
    BY <2>2
  <2>6. DutiesFit(req[r])'
    BY <1>0, <2>1, <2>3, <2>4, <2>5 DEF DutiesFit, Asked, Independent
  <2> QED BY <2>6, DutiesLeft
<1>7. CASE EnterApproval(r)
  <2>1. /\ q.pc = "enterApproval" /\ i \in Invoices /\ pending' = pending
        /\ submittedBy'[i] = q.user
        /\ \A j \in Invoices \ {i} :
             status'[j] = status[j] /\ submittedBy'[j] = submittedBy[j]
    BY <1>0, <1>7 DEF EnterApproval, At, CallOK, taskVars, TypeOK
  <2>2. req'[r].pc = "idle"
    BY <1>0, <1>7 DEF EnterApproval, Finish, Idle, TypeOK
  <2>3. \A t \in pending : t.inv = i => Asked(t.under, q.user, t.to)
    BY <1>0, <2>1 DEF DutiesFit, PendingOf
  <2>4. \A t \in pending :
          \/ status'[t.inv] # "in_approval"
          \/ Asked(t.under, submittedBy'[t.inv], t.to)
    BY <1>0, <2>1, <2>3 DEF DutiesFit
  <2>5. DutiesFit(req[r])'
    BY <2>1, <2>2, <2>4 DEF DutiesFit, Asked, Independent
  <2> QED BY <2>5, DutiesLeft
<1> QED BY <1>1, <1>2, <1>3, <1>4, <1>5, <1>6, <1>7 DEF Step

LEMMA NextDuties ==
  ASSUME Serial, StopsAtGates
  PROVE  TypeInv /\ SerialInv /\ DutiesInv /\ [Next]_vars => DutiesInv'
<1> SUFFICES ASSUME TypeInv, SerialInv, DutiesInv, [Next]_vars PROVE DutiesInv'
  OBVIOUS
<1>1. ASSUME NEW r \in Requests, Start(r) PROVE DutiesInv'
  BY <1>1, StartDuties DEF DutiesInv
<1>2. ASSUME NEW r \in Requests, Step(r) PROVE DutiesInv'
  BY <1>2, StepDuties DEF DutiesInv, SerialInv
<1>3. ASSUME NEW r \in Requests, Fail(r) PROVE DutiesInv'
  <2>1. req[r].pc # "enterApproval" /\ req'[r].pc = "idle"
    BY <1>3 DEF Fail, Finish, Idle, StopsAtGates, TypeInv, TypeOK
  <2>2. UNCHANGED <<status, submittedBy, pending>>
    BY <1>3 DEF Fail, invoiceVars, taskVars
  <2> QED BY <2>1, <2>2, DutiesRest DEF DutiesInv
<1>4. CASE UNCHANGED <<status, submittedBy, pending, policy, req>>
  BY <1>4 DEF DutiesInv, DutiesFit, PendingOf, Asked, Independent
<1> QED
  BY <1>1, <1>2, <1>3, <1>4
  DEF Next, NewMonth, NextDay, vars, invoiceVars, taskVars

(* Whoever is asked about an invoice was independent of the user it is     *)
(* recorded to be submitted by, or stands in for somebody who was: for     *)
(* every policy, delegations included, and however the policies change     *)
(* while the invoice goes back and forth.                                  *)
THEOREM SerialAsked ==
  ASSUME Serial, StopsAtGates
  PROVE  Spec => []AskedAreIndependent
<1>1. DutiesInv => AskedAreIndependent
  <2> SUFFICES ASSUME DutiesInv, Quiet PROVE AskedAreIndependent
    BY DEF AskedAreIndependent
  <2> PICK r \in Requests : TRUE
    BY FinitenessAssumption
  <2>1. req[r].pc = "idle" /\ DutiesFit(req[r])
    BY DEF Quiet, At, DutiesInv
  <2> QED BY <2>1 DEF DutiesFit, AskedAreIndependent, Asked
<1> QED
  BY <1>1, InitSerial, NextSerial, InitDuties, NextDuties, InitTypeInv,
     NextTypeInv, PTL DEF Spec

(* Only a decision on a task left open brings a void or exported invoice   *)
(* back.                                                                   *)
THEOREM SerialFinal ==
  ASSUME Serial, StopsAtGates
  PROVE  Spec => FinalLeavesByDecision
<1> DEFINE Decision == \A i \in Invoices :
             /\ status[i] \in {"void", "exported"}
             /\ status'[i] \notin {"void", "exported"}
             => \E r \in Requests : /\ req[r].op \in {"approve", "reject"}
                                    /\ req[r].inv = i
<1>1. ASSUME TypeInv, SerialInv, [Next]_vars PROVE Decision
  <2> SUFFICES ASSUME NEW i \in Invoices,
                      status[i] \in {"void", "exported"},
                      status'[i] \notin {"void", "exported"}
               PROVE  \E r \in Requests :
                        req[r].op \in {"approve", "reject"} /\ req[r].inv = i
    OBVIOUS
  <2> USE DEF TypeInv, TypeOK, invoiceVars
  <2>1. ASSUME NEW r \in Requests, Start(r) PROVE FALSE
    BY <1>1, <2>1
    DEF Start, StartCapture, StartUpdate, StartValidate, StartResolve,
        StartSubmit, StartForce, StartRecall, StartDecide, StartExport, Void,
        SetPolicy
  <2>2. ASSUME NEW r \in Requests, Step(r)
        PROVE  req[r].op \in {"approve", "reject"} /\ req[r].inv = i
    <3>1. Fits(req[r])
      BY <1>1 DEF SerialInv
    <3>2. CASE Extract(r) \/ SetStatus(r) \/ EnterApproval(r)
      BY <1>1, <3>1, <3>2
      DEF Extract, SetStatus, EnterApproval, At, Fits, StatusFits, MadeBy
    <3>3. CASE SendBack(r) \/ MarkApproved(r)
      BY <1>1, <3>1, <3>3
      DEF SendBack, MarkApproved, At, Fits, StatusFits, MadeBy, Approving
    <3>4. CASE MarkExported(r)
      BY <1>1, <3>4 DEF MarkExported
    <3> QED
      BY <1>1, <2>2, <3>2, <3>3, <3>4
      DEF Step, Write, Evaluate, Reread, Guard, Route, CloseTasks, Assign,
          AssertCanApprove, Decide, Limit, Bill, WriteFile
  <2>3. CASE UNCHANGED status
    BY <2>3
  <2> QED BY <1>1, <2>1, <2>2, <2>3 DEF Next, NewMonth, NextDay, Fail, vars
<1>2. TypeInv /\ SerialInv /\ [Next]_vars => [Decision]_vars
  BY <1>1
<1> QED
  BY <1>2, InitSerial, NextSerial, InitTypeInv, NextTypeInv, PTL
  DEF Spec, FinalLeavesByDecision

-----------------------------------------------------------------------------
(* Tasks of several submissions *)

Rounds(i) == {t.round : t \in PendingOf(i)}
Assigning(i) == {r \in Requests : req[r].pc = "assign" /\ req[r].inv = i}

(* Each further submission whose tasks are open, or about to be, is a      *)
(* request of its own: it closed the tasks there were before.              *)
RoundsInv ==
  \A i \in Invoices :
    /\ IsFiniteSet(Rounds(i))
    /\ Cardinality(Rounds(i)) + Cardinality(Assigning(i))
         <= Cardinality(Requests)

(* Only closing tasks leads to assigning new ones.                         *)
NotAssigning(r) ==
  (\A s \in Requests \ {r} : req'[s] = req[s]) /\ req'[r].pc # "assign"

LEMMA OtherCalls ==
  ASSUME TypeInv, NEW r \in Requests,
         Start(r) \/ (Step(r) /\ ~CloseTasks(r)) \/ Fail(r)
  PROVE  NotAssigning(r) \/ UNCHANGED req
<1> USE DEF NotAssigning, TypeInv, TypeOK
<1>1. CASE Start(r)
  <2>0. ASSUME NEW o, NEW i, NEW u, NEW p, p # "assign", Begin(r, o, i, u, p)
        PROVE  NotAssigning(r)
    BY <2>0 DEF Begin, Idle
  <2>1. ASSUME NEW i \in Invoices,
               StartCapture(r, i) \/ StartValidate(r, i) \/ StartResolve(r, i)
                 \/ StartRecall(r, i)
        PROVE  NotAssigning(r)
    BY <2>0, <2>1
    DEF StartCapture, StartValidate, StartResolve, StartRecall
  <2>2. ASSUME NEW i \in Invoices, NEW u \in Users,
               StartSubmit(r, i, u) \/ StartForce(r, i, u)
        PROVE  NotAssigning(r)
    BY <2>0, <2>2 DEF StartSubmit, StartForce
  <2>3. ASSUME NEW i \in Invoices, NEW d \in Drafts, StartUpdate(r, i, d)
        PROVE  NotAssigning(r)
    BY <2>3 DEF StartUpdate, Idle
  <2>4. ASSUME NEW t \in pending, NEW decision \in {"approve", "reject"},
               StartDecide(r, t, decision)
        PROVE  NotAssigning(r)
    BY <2>4 DEF StartDecide, Idle
  <2>5. CASE StartExport(r)
    BY <2>5 DEF StartExport, Idle
  <2>6. ASSUME NEW i \in Invoices, Void(r, i) PROVE UNCHANGED req
    BY <2>6 DEF Void
  <2>7. ASSUME NEW p \in Policies, SetPolicy(r, p) PROVE UNCHANGED req
    BY <2>7 DEF SetPolicy
  <2> QED BY <1>1, <2>1, <2>2, <2>3, <2>4, <2>5, <2>6, <2>7 DEF Start
<1>2. ASSUME Finish(r) PROVE NotAssigning(r)
  BY <1>2 DEF Finish, Idle
<1>3. ASSUME NEW p, p # "assign", Goto(r, p) PROVE NotAssigning(r)
  BY <1>3 DEF Goto, Request
<1>4. ASSUME AfterSync(r) PROVE NotAssigning(r)
  <2>1. CASE Finish(r)
    BY <1>2, <2>1
  <2>2. CASE ~Finish(r)
    <3>1. /\ req[r].op \in {"submit", "submitInvoice", "force"}
          /\ Goto(r, AfterGate[req[r].op])
      BY <1>4, <2>2 DEF AfterSync, AfterGate
    <3>2. AfterGate[req[r].op] # "assign"
      BY <3>1 DEF AfterGate
    <3> QED BY <1>3, <3>1, <3>2
  <2> QED BY <2>1, <2>2
<1>5. CASE Step(r) /\ ~CloseTasks(r)
  <2>1. ASSUME Extract(r) \/ EnterApproval(r) \/ AssertCanApprove(r)
                 \/ SendBack(r) \/ Limit(r) \/ MarkApproved(r) \/ Bill(r)
                 \/ WriteFile(r) \/ MarkExported(r)
        PROVE  NotAssigning(r)
    <3>1. Finish(r) \/ \E p : p # "assign" /\ Goto(r, p)
      BY <2>1
      DEF Extract, EnterApproval, AssertCanApprove, SendBack, Limit,
          MarkApproved, Bill, WriteFile, MarkExported
    <3> QED BY <1>2, <1>3, <3>1
  <2>2. ASSUME Write(r) \/ Evaluate(r) \/ Decide(r) \/ Assign(r)
        PROVE  NotAssigning(r)
    BY <2>2 DEF Write, Evaluate, Decide, Assign, Request
  <2>3. ASSUME Reread(r) \/ SetStatus(r) PROVE NotAssigning(r)
    <3>1. AfterSync(r) \/ Goto(r, "setStatus")
      BY <2>3 DEF Reread, SetStatus
    <3> QED BY <1>3, <1>4, <3>1
  <2>4. ASSUME Guard(r) \/ Route(r) PROVE NotAssigning(r)
    <3>1. CASE Finish(r)
      BY <1>2, <3>1
    <3>2. CASE Goto(r, "limit")
      BY <1>3, <3>2
    <3>3. CASE ~Finish(r) /\ ~Goto(r, "limit")
      BY <2>4, <3>3 DEF Guard, Route, Request
    <3> QED BY <3>1, <3>2, <3>3
  <2> QED BY <1>5, <2>1, <2>2, <2>3, <2>4 DEF Step
<1>6. CASE Fail(r)
  BY <1>2, <1>6 DEF Fail
<1> QED BY <1>1, <1>5, <1>6

LEMMA CountsAreFinite ==
  /\ Cardinality(Requests) \in Nat
  /\ \A S \in SUBSET Requests :
       /\ IsFiniteSet(S) /\ Cardinality(S) \in Nat
       /\ Cardinality(S) <= Cardinality(Requests)
BY FinitenessAssumption, FS_Subset, FS_CardinalityType

(* Fewer tasks, and nobody about to assign more.                           *)
LEMMA FewerRounds ==
  ASSUME NEW i \in Invoices, RoundsInv,
         Rounds(i)' \subseteq Rounds(i), Assigning(i)' \subseteq Assigning(i)
  PROVE  /\ IsFiniteSet(Rounds(i)')
         /\ Cardinality(Rounds(i)') + Cardinality(Assigning(i)')
              <= Cardinality(Requests)
<1>1. /\ IsFiniteSet(Rounds(i)) /\ Cardinality(Rounds(i)) \in Nat
      /\ Cardinality(Rounds(i)) + Cardinality(Assigning(i))
           <= Cardinality(Requests)
  BY FS_CardinalityType DEF RoundsInv
<1>2. /\ IsFiniteSet(Rounds(i)') /\ Cardinality(Rounds(i)') \in Nat
      /\ Cardinality(Rounds(i)') <= Cardinality(Rounds(i))
  BY <1>1, FS_Subset, FS_CardinalityType
<1>3. /\ Cardinality(Assigning(i)) \in Nat /\ Cardinality(Assigning(i)') \in Nat
      /\ Cardinality(Assigning(i)') <= Cardinality(Assigning(i))
  <2>1. Assigning(i) \in SUBSET Requests /\ IsFiniteSet(Assigning(i))
    BY CountsAreFinite DEF Assigning
  <2> QED BY <2>1, FS_Subset, FS_CardinalityType
<1> QED BY <1>1, <1>2, <1>3, CountsAreFinite

LEMMA NextRounds == TypeInv /\ RoundsInv /\ [Next]_vars => RoundsInv'
<1> SUFFICES ASSUME TypeInv, RoundsInv, [Next]_vars, NEW i \in Invoices
             PROVE  /\ IsFiniteSet(Rounds(i)')
                    /\ Cardinality(Rounds(i)') + Cardinality(Assigning(i)')
                         <= Cardinality(Requests)
  BY DEF RoundsInv
<1>1. ASSUME NEW r \in Requests, NotAssigning(r), pending' \subseteq pending
      PROVE  /\ Rounds(i)' \subseteq Rounds(i)
             /\ Assigning(i)' \subseteq Assigning(i)
  BY <1>1 DEF NotAssigning, Rounds, PendingOf, Assigning
<1>2. ASSUME UNCHANGED req, pending' \subseteq pending
      PROVE  /\ Rounds(i)' \subseteq Rounds(i)
             /\ Assigning(i)' \subseteq Assigning(i)
  BY <1>2 DEF Rounds, PendingOf, Assigning
<1>3. ASSUME NEW r \in Requests, CloseTasks(r), req[r].inv = i
      PROVE  /\ IsFiniteSet(Rounds(i)')
             /\ Cardinality(Rounds(i)') + Cardinality(Assigning(i)')
                  <= Cardinality(Requests)
  <2>1. Rounds(i)' = {}
    BY <1>3 DEF CloseTasks, Rounds, PendingOf
  <2>2. Assigning(i)' \in SUBSET Requests
    BY DEF Assigning
  <2>3. IsFiniteSet(Rounds(i)') /\ Cardinality(Rounds(i)') = 0
    BY <2>1, FS_EmptySet
  <2> QED BY <2>2, <2>3, CountsAreFinite
<1>4. ASSUME NEW r \in Requests, CloseTasks(r), req[r].inv # i
      PROVE  /\ Rounds(i)' \subseteq Rounds(i)
             /\ Assigning(i)' \subseteq Assigning(i)
  BY <1>4
  DEF CloseTasks, Goto, Rounds, PendingOf, Assigning, TypeInv, TypeOK, Request
<1>5. ASSUME NEW r \in Requests, Assign(r), req[r].inv = i
      PROVE  /\ IsFiniteSet(Rounds(i)')
             /\ Cardinality(Rounds(i)') + Cardinality(Assigning(i)')
                  <= Cardinality(Requests)
  <2> PICK n : n = round[i] + 1
    OBVIOUS
  <2>1. Rounds(i)' \subseteq Rounds(i) \union {n}
    <3>1. pending' = pending \union
            [inv : {i}, to : req[r].to, round : {n}, under : {policy}]
      BY <1>5 DEF Assign
    <3> QED BY <3>1 DEF Rounds, PendingOf
  <2>2. r \in Assigning(i) /\ Assigning(i)' = Assigning(i) \ {r}
    BY <1>5 DEF Assign, At, Assigning, TypeInv, TypeOK, Request
  <2>3. /\ IsFiniteSet(Rounds(i)) /\ Cardinality(Rounds(i)) \in Nat
        /\ Cardinality(Rounds(i)) + Cardinality(Assigning(i))
             <= Cardinality(Requests)
    BY FS_CardinalityType DEF RoundsInv
  <2>4. /\ IsFiniteSet(Rounds(i) \union {n})
        /\ Cardinality(Rounds(i) \union {n}) <= Cardinality(Rounds(i)) + 1
        /\ Cardinality(Rounds(i) \union {n}) \in Nat
    <3>1. /\ IsFiniteSet(Rounds(i) \union {n})
          /\ \/ Cardinality(Rounds(i) \union {n}) = Cardinality(Rounds(i))
             \/ Cardinality(Rounds(i) \union {n}) = Cardinality(Rounds(i)) + 1
      BY <2>3, FS_AddElement
    <3> QED BY <2>3, <3>1
  <2>5. /\ IsFiniteSet(Rounds(i)') /\ Cardinality(Rounds(i)') \in Nat
        /\ Cardinality(Rounds(i)') <= Cardinality(Rounds(i)) + 1
    BY <2>1, <2>3, <2>4, FS_Subset, FS_CardinalityType
  <2>6. IsFiniteSet(Assigning(i)) /\ Cardinality(Assigning(i)) \in Nat
    BY CountsAreFinite DEF Assigning
  <2>7. Cardinality(Assigning(i)') = Cardinality(Assigning(i)) - 1
    BY <2>2, <2>6, FS_RemoveElement
  <2> QED BY <2>3, <2>5, <2>6, <2>7, CountsAreFinite
<1>6. ASSUME NEW r \in Requests, Assign(r), req[r].inv # i
      PROVE  /\ Rounds(i)' \subseteq Rounds(i)
             /\ Assigning(i)' \subseteq Assigning(i)
  BY <1>6
  DEF Assign, Rounds, PendingOf, Assigning, TypeInv, TypeOK, Request
<1>7. ASSUME NEW r \in Requests, Start(r) \/ Fail(r)
      PROVE  pending' \subseteq pending
  BY <1>7
  DEF Start, StartCapture, StartUpdate, StartValidate, StartResolve,
      StartSubmit, StartForce, StartRecall, StartDecide, StartExport, Void,
      SetPolicy, Fail, taskVars
<1>8. ASSUME NEW r \in Requests, Step(r), ~CloseTasks(r), ~Assign(r)
      PROVE  pending' \subseteq pending
  BY <1>8
  DEF Step, Extract, Write, Evaluate, Reread, SetStatus, Guard, Route,
      EnterApproval, AssertCanApprove, Decide, SendBack, Limit, MarkApproved,
      Bill, WriteFile, MarkExported, taskVars
<1>9. ASSUME NEW r \in Requests, Start(r) \/ Step(r) \/ Fail(r)
      PROVE  /\ IsFiniteSet(Rounds(i)')
             /\ Cardinality(Rounds(i)') + Cardinality(Assigning(i)')
                  <= Cardinality(Requests)
  BY <1>9, <1>1, <1>2, <1>3, <1>4, <1>5, <1>6, <1>7, <1>8, OtherCalls,
     FewerRounds
<1>10. CASE NewMonth \/ NextDay \/ UNCHANGED vars
  BY <1>2, <1>10, FewerRounds DEF NewMonth, NextDay, vars, taskVars
<1> QED BY <1>9, <1>10 DEF Next

(* However many requests overlap, the tasks open on an invoice are of at   *)
(* most as many submissions as requests are served at a time.              *)
THEOREM RoundsBounded == Spec => []OpenRoundsBounded
<1>1. Init => RoundsInv
  <2> SUFFICES ASSUME Init, NEW i \in Invoices
               PROVE  /\ IsFiniteSet(Rounds(i))
                      /\ Cardinality(Rounds(i)) + Cardinality(Assigning(i))
                           <= Cardinality(Requests)
    BY DEF RoundsInv
  <2>1. Rounds(i) = {} /\ Assigning(i) = {}
    BY DEF Init, Rounds, PendingOf, Assigning, Idle
  <2> QED BY <2>1, FS_EmptySet, CountsAreFinite
<1>2. RoundsInv => OpenRoundsBounded
  <2> SUFFICES ASSUME RoundsInv, NEW i \in Invoices
               PROVE  Cardinality(Rounds(i)) <= Cardinality(Requests)
    BY DEF OpenRoundsBounded, Rounds
  <2>1. Cardinality(Assigning(i)) \in Nat /\ Cardinality(Rounds(i)) \in Nat
    BY CountsAreFinite, FS_CardinalityType DEF Assigning, RoundsInv
  <2> QED BY <2>1, CountsAreFinite DEF RoundsInv
<1> QED BY <1>1, <1>2, NextRounds, InitTypeInv, NextTypeInv, PTL DEF Spec

-----------------------------------------------------------------------------
(* Metering: the bound on the hard limit's overshoot, and that             *)
(* InvoiceApproval implements UsageMeter.                                  *)

(* The requests that passed the limit check and have not metered yet.      *)
InFlight == {r \in Requests : req[r].pc \in {"markApproved", "bill"}}

Slots == Cardinality(Requests)

(* The inductive form of the bound: whoever passed the check may still add *)
(* an event to the month.                                                  *)
RoomInv == Cardinality(mtd) + Cardinality(InFlight) <= HardLimit + Slots - 1

-----------------------------------------------------------------------------
(* What a call other than the three of finalizeApprove leaves alone.       *)
Frame(r) ==
  /\ \A s \in Requests \ {r} : req'[s] = req[s]
  /\ req'[r].pc \notin {"markApproved", "bill"}
  /\ UNCHANGED meterVars

LEMMA FinishFrame ==
  ASSUME TypeInv, NEW r \in Requests, Finish(r), UNCHANGED meterVars
  PROVE  Frame(r)
BY DEF TypeInv, TypeOK, Finish, Frame, Idle

LEMMA GotoFrame ==
  ASSUME TypeInv, NEW r \in Requests, NEW p, Goto(r, p),
         p \notin {"markApproved", "bill"}, UNCHANGED meterVars
  PROVE  Frame(r)
BY DEF TypeInv, TypeOK, Goto, Frame, Request

LEMMA BeginFrame ==
  ASSUME TypeInv, NEW r \in Requests, NEW o, NEW i, NEW u, NEW p,
         Begin(r, o, i, u, p), p \notin {"markApproved", "bill"},
         UNCHANGED meterVars
  PROVE  Frame(r)
BY DEF TypeInv, TypeOK, Begin, Frame, Idle

LEMMA AfterSyncFrame ==
  ASSUME TypeInv, NEW r \in Requests, AfterSync(r), UNCHANGED meterVars
  PROVE  Frame(r)
<1>1. CASE Finish(r)
  BY <1>1, FinishFrame
<1>2. CASE ~Finish(r)
  <2>1. /\ req[r].op \in {"submit", "submitInvoice", "force"}
        /\ Goto(r, AfterGate[req[r].op])
    BY <1>2 DEF AfterSync, AfterGate
  <2>2. AfterGate[req[r].op] \in {"guard", "route", "canApprove"}
    BY <2>1 DEF AfterGate
  <2>3. AfterGate[req[r].op] \notin {"markApproved", "bill"}
    BY <2>2
  <2> QED BY <2>1, <2>3, GotoFrame
<1> QED BY <1>1, <1>2

LEMMA StartFrame ==
  ASSUME TypeInv, NEW r \in Requests, Start(r)
  PROVE  Frame(r) \/ UNCHANGED <<req, meterVars>>
<1>1. ASSUME NEW i \in Invoices,
             StartCapture(r, i) \/ StartValidate(r, i) \/ StartResolve(r, i)
               \/ StartRecall(r, i)
      PROVE  Frame(r)
  BY <1>1, BeginFrame
  DEF StartCapture, StartValidate, StartResolve, StartRecall, meterVars
<1>2. ASSUME NEW i \in Invoices, NEW u \in Users,
             StartSubmit(r, i, u) \/ StartForce(r, i, u)
      PROVE  Frame(r)
  BY <1>2, BeginFrame DEF StartSubmit, StartForce, meterVars
<1>3. ASSUME NEW i \in Invoices, NEW d \in Drafts, StartUpdate(r, i, d)
      PROVE  Frame(r)
  BY <1>3 DEF StartUpdate, Frame, TypeInv, TypeOK, Idle, meterVars
<1>4. ASSUME NEW t \in pending, NEW decision \in {"approve", "reject"},
             StartDecide(r, t, decision)
      PROVE  Frame(r)
  BY <1>4 DEF StartDecide, Frame, TypeInv, TypeOK, Idle, meterVars
<1>5. CASE StartExport(r)
  BY <1>5 DEF StartExport, Frame, TypeInv, TypeOK, Idle, meterVars
<1>6. ASSUME NEW i \in Invoices, Void(r, i)
      PROVE  UNCHANGED <<req, meterVars>>
  BY <1>6 DEF Void, meterVars
<1>7. ASSUME NEW p \in Policies, SetPolicy(r, p)
      PROVE  UNCHANGED <<req, meterVars>>
  BY <1>7 DEF SetPolicy, meterVars
<1> QED BY <1>1, <1>2, <1>3, <1>4, <1>5, <1>6, <1>7 DEF Start

(* Only finalizeApprove lets a request past the limit, marks and meters.   *)
LEMMA StepFrame ==
  ASSUME TypeInv, NEW r \in Requests, Step(r)
  PROVE  Frame(r) \/ Limit(r) \/ MarkApproved(r) \/ Bill(r)
<1> USE DEF meterVars
<1>1. CASE Extract(r)
  BY <1>1, GotoFrame DEF Extract
<1>2. CASE Write(r)
  BY <1>2 DEF Write, Frame, TypeInv, TypeOK, Request
<1>3. CASE Evaluate(r)
  BY <1>3 DEF Evaluate, Frame, TypeInv, TypeOK, Request
<1>4. CASE Reread(r)
  BY <1>4, GotoFrame, AfterSyncFrame DEF Reread
<1>5. CASE SetStatus(r)
  BY <1>5, AfterSyncFrame DEF SetStatus
<1>6. CASE Guard(r)
  BY <1>6, FinishFrame DEF Guard, Frame, TypeInv, TypeOK, Request
<1>7. CASE Route(r)
  BY <1>7, FinishFrame, GotoFrame
  DEF Route, Frame, TypeInv, TypeOK, Request
<1>8. CASE CloseTasks(r)
  <2>1. req[r].op \in {"submitInvoice", "recall", "reject", "approve"}
    BY <1>8 DEF CloseTasks, At, TypeInv, StepOK, CallOK
  <2>2. AfterClose[req[r].op] \notin {"markApproved", "bill"}
    BY <2>1 DEF AfterClose
  <2> QED BY <1>8, <2>2, GotoFrame DEF CloseTasks
<1>9. CASE Assign(r)
  BY <1>9 DEF Assign, Frame, TypeInv, TypeOK, Request
<1>10. CASE EnterApproval(r)
  BY <1>10, FinishFrame DEF EnterApproval
<1>11. CASE AssertCanApprove(r)
  BY <1>11, FinishFrame, GotoFrame DEF AssertCanApprove
<1>12. CASE Decide(r)
  BY <1>12 DEF Decide, Frame, TypeInv, TypeOK, Request
<1>13. CASE SendBack(r)
  BY <1>13, FinishFrame DEF SendBack
<1>14. CASE WriteFile(r)
  BY <1>14, GotoFrame DEF WriteFile
<1>15. CASE MarkExported(r)
  BY <1>15, FinishFrame DEF MarkExported
<1> QED
  BY <1>1, <1>2, <1>3, <1>4, <1>5, <1>6, <1>7, <1>8, <1>9, <1>10, <1>11,
     <1>12, <1>13, <1>14, <1>15
  DEF Step

-----------------------------------------------------------------------------
(* The bound on the month *)

LEMMA Finiteness ==
  ASSUME TypeOK
  PROVE  /\ IsFiniteSet(mtd) /\ Cardinality(mtd) \in Nat
         /\ IsFiniteSet(InFlight) /\ Cardinality(InFlight) \in Nat
         /\ Slots \in Nat /\ Slots >= 1 /\ Cardinality(InFlight) <= Slots
<1>1. mtd \in SUBSET Invoices /\ InFlight \in SUBSET Requests
  BY DEF TypeOK, InFlight
<1>2. Slots \in Nat /\ Slots # 0
  BY FinitenessAssumption, FS_CardinalityType, FS_EmptySet DEF Slots
<1> QED
  BY <1>1, <1>2, FinitenessAssumption, FS_Subset, FS_CardinalityType
  DEF Slots

LEMMA InitRoom == Init => RoomInv
<1> SUFFICES ASSUME Init PROVE RoomInv
  OBVIOUS
<1>1. mtd = {} /\ InFlight = {}
  BY DEF Init, InFlight, Idle
<1>2. Slots \in Nat /\ Slots >= 1
  BY InitTypeInv, Finiteness DEF TypeInv
<1> QED BY <1>1, <1>2, FS_EmptySet, FinitenessAssumption DEF RoomInv

(* A step that adds no event and lets nobody past the check keeps the room. *)
LEMMA ShrinkRoom ==
  ASSUME TypeOK, RoomInv, mtd' \subseteq mtd, InFlight' \subseteq InFlight
  PROVE  RoomInv'
<1>1. /\ Cardinality(mtd') \in Nat /\ Cardinality(mtd') <= Cardinality(mtd)
      /\ Cardinality(InFlight') \in Nat
      /\ Cardinality(InFlight') <= Cardinality(InFlight)
  BY Finiteness, FS_Subset, FS_CardinalityType
<1> QED BY <1>1, Finiteness, FinitenessAssumption DEF RoomInv, Slots

LEMMA NextRoom == TypeInv /\ TypeInv' /\ RoomInv /\ [Next]_vars => RoomInv'
<1> SUFFICES ASSUME TypeInv, TypeInv', RoomInv, [Next]_vars PROVE RoomInv'
  OBVIOUS
<1> USE DEF meterVars
<1>1. ASSUME NEW r \in Requests, Frame(r) PROVE RoomInv'
  BY <1>1, ShrinkRoom DEF Frame, InFlight, TypeInv
<1>2. ASSUME NEW r \in Requests, Limit(r) PROVE RoomInv'
  <2>1. CASE HardBlocked
    <3>1. Frame(r)
      BY <1>2, <2>1, FinishFrame DEF Limit
    <3> QED BY <3>1, <1>1
  <2>2. CASE ~HardBlocked
    <3>1. mtd' = mtd
      BY <1>2 DEF Limit
    <3>2. Cardinality(mtd) < HardLimit
      BY <2>2, Finiteness, FinitenessAssumption DEF HardBlocked, TypeInv
    <3>3. Cardinality(InFlight)' <= Slots
      <4>1. InFlight' \in SUBSET Requests
        BY DEF InFlight
      <4> QED BY <4>1, FinitenessAssumption, FS_Subset DEF Slots
    <3>4. Cardinality(InFlight)' \in Nat
      <4>1. InFlight' \in SUBSET Requests
        BY DEF InFlight
      <4> QED BY <4>1, FinitenessAssumption, FS_Subset, FS_CardinalityType
    <3> QED
      BY <3>1, <3>2, <3>3, <3>4, Finiteness, FinitenessAssumption
      DEF RoomInv, Slots, TypeInv
  <2> QED BY <2>1, <2>2
<1>3. ASSUME NEW r \in Requests, MarkApproved(r) PROVE RoomInv'
  <2>1. InFlight' = InFlight /\ mtd' = mtd
    BY <1>3 DEF MarkApproved, At, Goto, InFlight, TypeInv, TypeOK, Request
  <2> QED BY <2>1, ShrinkRoom DEF TypeInv
<1>4. ASSUME NEW r \in Requests, Bill(r) PROVE RoomInv'
  <2>1. InFlight' = InFlight \ {r} /\ r \in InFlight
    BY <1>4 DEF Bill, At, Finish, Idle, InFlight, TypeInv, TypeOK
  <2>2. Cardinality(InFlight') = Cardinality(InFlight) - 1
    BY <2>1, Finiteness, FS_RemoveElement DEF TypeInv
  <2>3. mtd' = mtd \/ mtd' = mtd \union {req[r].inv}
    BY <1>4 DEF Bill
  <2>4. /\ Cardinality(mtd') \in Nat
        /\ Cardinality(mtd') <= Cardinality(mtd) + 1
    <3>1. /\ IsFiniteSet(mtd \union {req[r].inv})
          /\ Cardinality(mtd \union {req[r].inv}) =
               IF req[r].inv \in mtd THEN Cardinality(mtd)
                                     ELSE Cardinality(mtd) + 1
      BY Finiteness, FS_AddElement DEF TypeInv
    <3> QED BY <2>3, <3>1, Finiteness DEF TypeInv
  <2> QED
    BY <2>2, <2>4, Finiteness, FinitenessAssumption
    DEF RoomInv, Slots, TypeInv
<1>5. CASE NewMonth
  BY <1>5, ShrinkRoom DEF NewMonth, InFlight, TypeInv
<1>6. CASE UNCHANGED <<req, mtd>>
  BY <1>6, ShrinkRoom DEF InFlight, TypeInv
<1>7. ASSUME NEW r \in Requests, Start(r) PROVE RoomInv'
  BY <1>7, <1>1, <1>6, StartFrame
<1>8. ASSUME NEW r \in Requests, Step(r) PROVE RoomInv'
  BY <1>8, <1>1, <1>2, <1>3, <1>4, StepFrame
<1>9. ASSUME NEW r \in Requests, Fail(r) PROVE RoomInv'
  BY <1>9, <1>1, FinishFrame DEF Fail
<1> QED BY <1>5, <1>6, <1>7, <1>8, <1>9 DEF Next, NextDay, vars, meterVars

(* finalizeApprove and the forced approval read the usage of the month     *)
(* before they meter: whatever the number of overlapping requests, the     *)
(* month passes the hard limit by less than that number, also when         *)
(* requests fail.                                                          *)
THEOREM OvershootBounded == Spec => []HardLimitOvershoot
<1>1. TypeInv /\ RoomInv => HardLimitOvershoot
  BY Finiteness, FinitenessAssumption
  DEF RoomInv, HardLimitOvershoot, Slots, TypeInv
<1> QED
  BY <1>1, InitTypeInv, NextTypeInv, InitRoom, NextRoom, PTL DEF Spec

-----------------------------------------------------------------------------
(* InvoiceApproval implements UsageMeter *)

Owed == {i \in Invoices : Metering(i)} \ billed

(* The instance has a copy of Cardinality of its own.                      *)
LEMMA SameCardinality == \A S : Meter!Cardinality(S) = Cardinality(S)
BY Zenon DEF Cardinality, Meter!Cardinality

(* A step of a request that is not about to meter leaves who is.           *)
LEMMA MeteringFrame ==
  ASSUME NEW r \in Requests, Frame(r), ~At(r, "bill")
  PROVE  Owed' = Owed /\ billed' = billed /\ mtd' = mtd
BY DEF Frame, Owed, Metering, At, meterVars

(* There are no more invoices owed than requests in flight.                *)
LEMMA OwedBound ==
  ASSUME TypeInv, NEW r \in Requests, r \in InFlight
  PROVE  /\ IsFiniteSet(Owed \union {req[r].inv})
         /\ Cardinality(Owed \union {req[r].inv}) <= Cardinality(InFlight)
<1> DEFINE S == Owed \union {req[r].inv}
           f == [i \in S |-> CHOOSE s \in InFlight : req[s].inv = i]
<1>1. \A i \in S : \E s \in InFlight : req[s].inv = i
  BY DEF Owed, Metering, InFlight, At
<1>2. \A i \in S : f[i] \in InFlight /\ req[f[i]].inv = i
  BY <1>1
<1>3. f \in Injection(S, InFlight)
  <2>1. f \in [S -> InFlight]
    BY <1>2
  <2>2. \A i, j \in S : f[i] = f[j] => i = j
    BY <1>2
  <2> HIDE DEF f
  <2> QED BY <2>1, <2>2 DEF Injection, IsInjective
<1> QED BY <1>3, FS_Injection, Finiteness DEF TypeInv

(* The steps of the meter; it loses an event only where a request may stop *)
(* right before it writes one.                                             *)
MeterMoves ==
  \/ Meter!ReliableNext
  \/ "bill" \in FailAt /\ \E i \in Invoices : Meter!Lose(i)

LEMMA MeterSteps ==
  ASSUME TypeInv, RoomInv, RoomInv', [Next]_vars
  PROVE  MeterMoves \/ UNCHANGED <<Owed, billed, mtd>>
<1> USE DEF MeterMoves, Meter!ReliableNext
<1>1. ASSUME NEW r \in Requests, Frame(r), ~At(r, "bill")
      PROVE  UNCHANGED <<Owed, billed, mtd>>
  BY <1>1, MeteringFrame
<1>2. ASSUME NEW r \in Requests, Limit(r)
      PROVE  UNCHANGED <<Owed, billed, mtd>>
  BY <1>2
  DEF Limit, At, Goto, Finish, Idle, Owed, Metering, TypeInv, TypeOK,
      Request, meterVars
<1>3. ASSUME NEW r \in Requests, MarkApproved(r)
      PROVE  MeterMoves \/ UNCHANGED <<Owed, billed, mtd>>
  <2> DEFINE i == req[r].inv
  <2>1. i \in Invoices /\ r \in InFlight
    BY <1>3 DEF MarkApproved, At, InFlight, TypeInv, StepOK, CallOK
  <2>2. /\ \A s \in Requests \ {r} : req'[s] = req[s]
        /\ req'[r].pc = "bill" /\ req'[r].inv = i
        /\ billed' = billed /\ mtd' = mtd
    BY <1>3 DEF MarkApproved, Goto, TypeInv, TypeOK, Request, meterVars
  <2>3. \A j \in Invoices : Metering(j)' <=> Metering(j) \/ j = i
    BY <2>2, <1>3 DEF Metering, At, MarkApproved
  <2>4. CASE i \in billed
    BY <2>2, <2>3, <2>4 DEF Owed
  <2>5. CASE i \notin billed
    <3>1. Owed' = Owed \union {i}
      BY <2>1, <2>2, <2>3, <2>5 DEF Owed
    <3>2. /\ Cardinality(Owed \union {i}) \in Nat
          /\ Cardinality(Owed \union {i}) <= Cardinality(InFlight)
      BY <2>1, OwedBound, FS_CardinalityType
    <3>3. Cardinality(mtd) + Cardinality(Owed \union {i})
            <= HardLimit + Cardinality(Requests) - 1
      BY <3>2, Finiteness, FinitenessAssumption
      DEF RoomInv, Slots, TypeInv
    <3>4. Meter!Approve(i)
      <4> DEFINE owed == {j \in Invoices : Metering(j)} \ billed
      <4>1. /\ Cardinality(mtd) + Cardinality(owed \union {i})
                 <= HardLimit + Cardinality(Requests) - 1
            /\ owed' = owed \union {i}
        BY <3>1, <3>3 DEF Owed
      <4> HIDE DEF owed
      <4>2. Meter!Approve(i) <=>
              /\ i \notin billed
              /\ Cardinality(mtd) + Cardinality(owed \union {i})
                   <= HardLimit + Cardinality(Requests) - 1
              /\ owed' = owed \union {i}
              /\ UNCHANGED <<billed, mtd>>
        BY SameCardinality DEF Meter!Approve, owed
      <4> QED BY <2>2, <2>5, <4>1, <4>2
    <3> QED BY <2>1, <3>4
  <2> QED BY <2>4, <2>5
<1>4. ASSUME NEW r \in Requests, Bill(r)
      PROVE  MeterMoves \/ UNCHANGED <<Owed, billed, mtd>>
  <2> DEFINE i == req[r].inv
  <2>1. i \in Invoices /\ Metering(i)
    BY <1>4 DEF Bill, At, Metering, TypeInv, StepOK, CallOK
  <2>2. /\ \A s \in Requests \ {r} : req'[s] = req[s]
        /\ req'[r].pc = "idle"
        /\ billed' = billed \union {i}
        /\ mtd' = IF i \in billed THEN mtd ELSE mtd \union {i}
    BY <1>4 DEF Bill, Finish, Idle, TypeInv, TypeOK
  <2>3. \A j \in Invoices : Metering(j)' \/ j = i <=> Metering(j)
    BY <2>1, <2>2 DEF Metering, At
  <2>4. Owed' = Owed \ {i}
    BY <2>2, <2>3 DEF Owed
  <2>5. CASE i \in billed
    BY <2>2, <2>4, <2>5 DEF Owed
  <2>6. CASE i \notin billed
    <3>1. Meter!Record(i)
      BY <2>1, <2>2, <2>4, <2>6 DEF Meter!Record, Owed
    <3> QED BY <2>1, <3>1
  <2> QED BY <2>5, <2>6
<1>5. ASSUME NEW r \in Requests, Fail(r)
      PROVE  MeterMoves \/ UNCHANGED <<Owed, billed, mtd>>
  <2> DEFINE i == req[r].inv
  <2>1. /\ \A s \in Requests \ {r} : req'[s] = req[s]
        /\ req'[r].pc = "idle"
        /\ billed' = billed /\ mtd' = mtd
    BY <1>5 DEF Fail, Finish, Idle, TypeInv, TypeOK, meterVars
  <2>2. CASE ~At(r, "bill")
    BY <2>1, <2>2, <1>1 DEF Frame, meterVars
  <2>3. CASE At(r, "bill")
    <3>1. i \in Invoices /\ Metering(i)
      BY <2>3 DEF At, Metering, TypeInv, StepOK, CallOK
    <3>2. \A j \in Invoices \ {i} : Metering(j)' <=> Metering(j)
      BY <2>1 DEF Metering, At
    <3>3. Owed' = Owed \/ (i \in Owed /\ Owed' = Owed \ {i})
      BY <2>1, <3>1, <3>2 DEF Owed
    <3>4. Owed' = Owed \/ Meter!Lose(i)
      BY <2>1, <3>3 DEF Meter!Lose, Owed
    <3>5. "bill" \in FailAt
      BY <1>5, <2>3 DEF Fail, At
    <3> QED BY <2>1, <3>1, <3>4, <3>5
  <2> QED BY <2>2, <2>3
<1>6. CASE NewMonth
  <2>1. Owed' = Owed
    BY <1>6 DEF NewMonth, Owed, Metering, At
  <2> QED BY <1>6, <2>1 DEF NewMonth, Meter!NewMonth, Owed
<1>7. ASSUME UNCHANGED <<req, billed, mtd>>
      PROVE  UNCHANGED <<Owed, billed, mtd>>
  BY <1>7 DEF Owed, Metering, At
<1>8. ASSUME NEW r \in Requests, Start(r)
      PROVE  UNCHANGED <<Owed, billed, mtd>>
  <2>1. CASE UNCHANGED <<req, meterVars>>
    BY <2>1, <1>7 DEF meterVars
  <2>2. CASE Frame(r) /\ ~UNCHANGED <<req, meterVars>>
    <3>1. At(r, "idle")
      BY <1>8
      DEF Start, StartCapture, StartUpdate, StartValidate, StartResolve,
          StartSubmit, StartForce, StartRecall, StartDecide, StartExport,
          Void, SetPolicy, Begin
    <3> QED BY <2>2, <3>1, <1>1 DEF At
  <2> QED BY <1>8, <2>1, <2>2, StartFrame
<1>9. ASSUME NEW r \in Requests, Step(r)
      PROVE  MeterMoves \/ UNCHANGED <<Owed, billed, mtd>>
  <2>1. CASE At(r, "bill")
    <3>1. Bill(r)
      BY <1>9, <2>1
      DEF Step, At, Extract, Write, Evaluate, Reread, SetStatus, Guard,
          Route, CloseTasks, Assign, EnterApproval, AssertCanApprove, Decide,
          SendBack, Limit, MarkApproved, Bill, WriteFile, MarkExported
    <3> QED BY <3>1, <1>4
  <2>2. CASE ~At(r, "bill")
    BY <1>9, <2>2, <1>1, <1>2, <1>3, <1>4, StepFrame
  <2> QED BY <2>1, <2>2
<1> QED BY <1>5, <1>6, <1>7, <1>8, <1>9 DEF Next, NextDay, vars, meterVars

(* Whatever overlaps and wherever requests stop, the usage events are      *)
(* written as the meter promises: one for an approved invoice, never taken *)
(* back, and within the ceiling.                                           *)
THEOREM ImplementsMeter == Spec => MeterSpec
<1>1. Init => Meter!Init
  BY DEF Init, Meter!Init, Metering, At, Idle
<1>2. TypeInv /\ RoomInv /\ RoomInv' /\ [Next]_vars => [Meter!Next]_(Meter!vars)
  <2>1. MeterMoves => Meter!Next
    BY DEF MeterMoves, Meter!Next, Meter!ReliableNext
  <2> QED BY <2>1, MeterSteps DEF Meter!vars, Owed
<1> QED
  BY <1>1, <1>2, InitTypeInv, NextTypeInv, InitRoom, NextRoom, PTL
  DEF Spec, MeterSpec, Meter!Spec

(* If no request stops right before it meters, no step loses an event that *)
(* is owed: the steps of ReliableMeterSpec, without its fairness.          *)
THEOREM MeterLosesNothing ==
  ASSUME "bill" \notin FailAt
  PROVE  Spec => Meter!Init /\ [][Meter!ReliableNext]_(Meter!vars)
<1>1. Init => Meter!Init
  BY DEF Init, Meter!Init, Metering, At, Idle
<1>2. TypeInv /\ RoomInv /\ RoomInv' /\ [Next]_vars
        => [Meter!ReliableNext]_(Meter!vars)
  BY MeterSteps DEF MeterMoves, Meter!vars, Owed
<1> QED
  BY <1>1, <1>2, InitTypeInv, NextTypeInv, InitRoom, NextRoom, PTL DEF Spec

-----------------------------------------------------------------------------
(* Every approved invoice is metered *)

Paid(i) == i \in billed \/ Metering(i)

(* An export holds invoices that were approved when it read them.          *)
BilledInv ==
  /\ ApprovedIsBilled
  /\ \A r \in Requests : req[r].pc \in {"writeFile", "markExported"} =>
       \A i \in req[r].batch : Paid(i)

(* Who owes an event keeps owing it until it is written, unless a request  *)
(* stops right before it writes one.                                       *)
LEMMA PaidStays ==
  ASSUME "bill" \notin FailAt, TypeInv, RoomInv, RoomInv', [Next]_vars,
         NEW i \in Invoices, Paid(i)
  PROVE  Paid(i)'
<1> USE DEF Paid, Metering, At
<1>1. ASSUME NEW r \in Requests, Frame(r), ~At(r, "bill") PROVE Paid(i)'
  BY <1>1 DEF Frame, meterVars
<1>2. ASSUME NEW r \in Requests, Limit(r) PROVE Paid(i)'
  BY <1>2 DEF Limit, Goto, Finish, TypeInv, TypeOK, Request, meterVars
<1>3. ASSUME NEW r \in Requests, MarkApproved(r) PROVE Paid(i)'
  BY <1>3 DEF MarkApproved, Goto, TypeInv, TypeOK, Request, meterVars
<1>4. ASSUME NEW r \in Requests, Bill(r) PROVE Paid(i)'
  BY <1>4 DEF Bill, Finish, TypeInv, TypeOK
<1>5. CASE NewMonth
  BY <1>5 DEF NewMonth
<1>6. ASSUME UNCHANGED <<req, billed>> PROVE Paid(i)'
  BY <1>6
<1>7. ASSUME NEW r \in Requests, Start(r) PROVE Paid(i)'
  <2>1. CASE UNCHANGED <<req, meterVars>>
    BY <2>1, <1>6 DEF meterVars
  <2>2. CASE Frame(r) /\ ~UNCHANGED <<req, meterVars>>
    <3>1. At(r, "idle")
      BY <1>7
      DEF Start, StartCapture, StartUpdate, StartValidate, StartResolve,
          StartSubmit, StartForce, StartRecall, StartDecide, StartExport,
          Void, SetPolicy, Begin
    <3> QED BY <2>2, <3>1, <1>1
  <2> QED BY <1>7, <2>1, <2>2, StartFrame
<1>8. ASSUME NEW r \in Requests, Step(r) PROVE Paid(i)'
  <2>1. CASE At(r, "bill")
    <3>1. Bill(r)
      BY <1>8, <2>1
      DEF Step, Extract, Write, Evaluate, Reread, SetStatus, Guard,
          Route, CloseTasks, Assign, EnterApproval, AssertCanApprove, Decide,
          SendBack, Limit, MarkApproved, Bill, WriteFile, MarkExported
    <3> QED BY <3>1, <1>4
  <2>2. CASE ~At(r, "bill")
    BY <1>8, <2>2, <1>1, <1>2, <1>3, <1>4, StepFrame
  <2> QED BY <2>1, <2>2
<1>9. ASSUME NEW r \in Requests, Fail(r) PROVE Paid(i)'
  <2>1. ~At(r, "bill")
    BY <1>9 DEF Fail
  <2>2. Frame(r)
    BY <1>9, FinishFrame DEF Fail
  <2> QED BY <2>1, <2>2, <1>1
<1> QED BY <1>5, <1>6, <1>7, <1>8, <1>9 DEF Next, NextDay, vars, meterVars

(* An invoice becomes approved or exported by the two calls that say so.   *)
LEMMA DecidedBy ==
  ASSUME TypeInv, [Next]_vars, NEW i \in Invoices,
         status'[i] \in Decided
  PROVE  \/ status[i] \in Decided
         \/ \E r \in Requests : MarkApproved(r) /\ req[r].inv = i
         \/ \E r \in Requests : MarkExported(r) /\ i \in req[r].batch
<1> USE DEF TypeInv, TypeOK, Decided
<1>1. ASSUME NEW r \in Requests, Start(r) PROVE status[i] \in Decided
  BY <1>1
  DEF Start, StartCapture, StartUpdate, StartValidate, StartResolve,
      StartSubmit, StartForce, StartRecall, StartDecide, StartExport, Void,
      SetPolicy, invoiceVars
<1>2. ASSUME NEW r \in Requests, Step(r), ~MarkApproved(r), ~MarkExported(r)
      PROVE  status[i] \in Decided
  BY <1>2
  DEF Step, Extract, Write, Evaluate, Reread, SetStatus, Guard, Route,
      CloseTasks, Assign, EnterApproval, AssertCanApprove, Decide, SendBack,
      Limit, Bill, WriteFile, invoiceVars
<1>3. ASSUME NEW r \in Requests, MarkApproved(r)
      PROVE  status[i] \in Decided \/ req[r].inv = i
  BY <1>3 DEF MarkApproved
<1>4. ASSUME NEW r \in Requests, MarkExported(r)
      PROVE  status[i] \in Decided \/ i \in req[r].batch
  BY <1>4 DEF MarkExported
<1>5. ASSUME UNCHANGED status PROVE status[i] \in Decided
  BY <1>5
<1> QED
  BY <1>1, <1>2, <1>3, <1>4, <1>5
  DEF Next, NewMonth, NextDay, Fail, vars, invoiceVars

(* The batch of an export is read when it starts.                          *)
LEMMA BatchFrom ==
  ASSUME TypeInv, [Next]_vars, NEW s \in Requests,
         req'[s].pc \in {"writeFile", "markExported"}, NEW i \in req'[s].batch
  PROVE  \/ req[s].pc \in {"writeFile", "markExported"} /\ i \in req[s].batch
         \/ i \in Invoices /\ status[i] = "approved"
<1> USE DEF TypeInv, TypeOK, At
<1>1. CASE req'[s] = req[s]
  BY <1>1
<1>2. ASSUME NEW r \in Requests, r # s,
             \/ Frame(r) \/ Limit(r) \/ MarkApproved(r) \/ Bill(r)
      PROVE  req'[s] = req[s]
  BY <1>2 DEF Frame, Limit, MarkApproved, Bill, Goto, Finish
<1>3. CASE Start(s)
  <2>1. CASE StartExport(s)
    BY <2>1 DEF StartExport
  <2>2. CASE UNCHANGED req
    BY <2>2, <1>1
  <2>3. ASSUME NEW o, NEW j, NEW u, NEW p \in {"extract", "evaluate",
               "setStatus", "closeTasks"}, Begin(s, o, j, u, p)
        PROVE  FALSE
    <3>1. req'[s] = [Idle EXCEPT !.pc = p, !.op = o, !.inv = j, !.user = u]
      BY <2>3 DEF Begin
    <3>2. req'[s].pc = p
      BY <3>1 DEF Idle
    <3> QED BY <3>2, <2>3
  <2>4. ASSUME NEW j \in Invoices, NEW d \in Drafts, StartUpdate(s, j, d)
        PROVE  FALSE
    <3>1. req'[s].pc = "write"
      BY <2>4 DEF StartUpdate, Idle
    <3> QED BY <3>1
  <2>5. ASSUME NEW t \in pending, NEW decision, StartDecide(s, t, decision)
        PROVE  FALSE
    <3>1. req'[s].pc \in {"canApprove", "decide"}
      BY <2>5 DEF StartDecide, Idle
    <3> QED BY <3>1
  <2> QED
    BY <1>3, <2>1, <2>2, <2>3, <2>4, <2>5
    DEF Start, StartCapture, StartValidate, StartResolve, StartSubmit,
        StartForce, StartRecall, Void, SetPolicy
<1>4. ASSUME Step(s)
      PROVE req[s].pc \in {"writeFile", "markExported"} /\ i \in req[s].batch
  <2> USE DEF Request, Goto, Finish, Idle
  <2>1. CASE WriteFile(s)
    BY <2>1 DEF WriteFile
  <2>2. CASE ~WriteFile(s)
    <3>1. \/ req'[s].pc = "idle" \/ req'[s].pc = "evaluate"
          \/ \E p \in Steps \ {"writeFile", "markExported"} : Goto(s, p)
          \/ Route(s) \/ Evaluate(s) \/ Assign(s) \/ Decide(s)
      <4>1. CASE Reread(s) \/ SetStatus(s)
        <5>1. ASSUME AfterSync(s)
              PROVE  Finish(s) \/ \E p \in {"guard", "route", "canApprove"} :
                                    Goto(s, p)
          BY <5>1, AfterGate["submit"] = "guard",
             AfterGate["submitInvoice"] = "route",
             AfterGate["force"] = "canApprove"
          DEF AfterSync, AfterGate
        <5> QED BY <4>1, <5>1 DEF Reread, SetStatus, Steps
      <4>2. CASE CloseTasks(s)
        <5>1. req[s].op \in {"submitInvoice", "recall", "reject", "approve"}
          BY <4>2 DEF CloseTasks, StepOK, CallOK
        <5>2. AfterClose[req[s].op] \in {"assign", "sendBack", "limit"}
          BY <5>1 DEF AfterClose
        <5> QED BY <4>2, <5>2 DEF CloseTasks, Steps
      <4> QED
        BY <1>4, <2>2, <4>1, <4>2
        DEF Step, Extract, Write, Guard, EnterApproval, AssertCanApprove,
            SendBack, Limit, MarkApproved, Bill, MarkExported, Steps
    <3> QED BY <3>1 DEF Route, Evaluate, Assign, Decide
  <2> QED BY <2>1, <2>2
<1>5. CASE Fail(s)
  BY <1>5 DEF Fail, Finish, Idle
<1>6. ASSUME NEW r \in Requests, Start(r) \/ Step(r) \/ Fail(r), r # s
      PROVE  req'[s] = req[s]
  BY <1>6, <1>2, StartFrame, StepFrame DEF Fail, Finish
<1> QED
  BY <1>1, <1>3, <1>4, <1>5, <1>6 DEF Next, NewMonth, NextDay, vars

LEMMA NextBilled ==
  ASSUME "bill" \notin FailAt, TypeInv, RoomInv, RoomInv', BilledInv, [Next]_vars
  PROVE  BilledInv'
<1>1. ASSUME NEW i \in Invoices, status'[i] \in Decided PROVE Paid(i)'
  <2>1. CASE status[i] \in Decided
    BY <2>1, PaidStays DEF BilledInv, ApprovedIsBilled, Paid
  <2>2. ASSUME NEW r \in Requests, MarkApproved(r), req[r].inv = i
        PROVE  Paid(i)'
    BY <2>2
    DEF MarkApproved, Goto, At, Paid, Metering, TypeInv, TypeOK, Request
  <2>3. ASSUME NEW r \in Requests, MarkExported(r), i \in req[r].batch
        PROVE  Paid(i)'
    BY <2>3, PaidStays DEF MarkExported, At, BilledInv
  <2> QED BY <1>1, <2>1, <2>2, <2>3, DecidedBy
<1>2. ASSUME NEW s \in Requests,
             req'[s].pc \in {"writeFile", "markExported"},
             NEW i \in req'[s].batch
      PROVE  Paid(i)'
  <2>1. CASE /\ req[s].pc \in {"writeFile", "markExported"}
             /\ i \in req[s].batch
    <3>1. i \in Invoices
      BY <2>1 DEF TypeInv, TypeOK, Request
    <3> QED BY <2>1, <3>1, PaidStays DEF BilledInv
  <2>2. CASE i \in Invoices /\ status[i] = "approved"
    BY <2>2, PaidStays DEF BilledInv, ApprovedIsBilled, Paid, Decided
  <2> QED BY <1>2, <2>1, <2>2, BatchFrom
<1> QED BY <1>1, <1>2 DEF BilledInv, ApprovedIsBilled, Paid

(* When no request stops before it bills, every approved or exported       *)
(* invoice has its usage event or a request that is about to write it,     *)
(* however many requests overlap and whatever they do.                     *)
THEOREM AllApprovedBilled ==
  ASSUME "bill" \notin FailAt
  PROVE  Spec => []ApprovedIsBilled
<1>1. Init => BilledInv
  BY DEF Init, BilledInv, ApprovedIsBilled, Decided, Idle
<1>2. BilledInv => ApprovedIsBilled
  BY DEF BilledInv
<1>3. TypeInv /\ RoomInv /\ RoomInv' /\ BilledInv /\ [Next]_vars => BilledInv'
  BY NextBilled
<1> QED
  BY <1>1, <1>2, <1>3, InitTypeInv, NextTypeInv, InitRoom, NextRoom, PTL
  DEF Spec
=============================================================================
