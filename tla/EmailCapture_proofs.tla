------------------------ MODULE EmailCapture_proofs ------------------------
(***************************************************************************)
(* A message makes one invoice at most, however often and however          *)
(* concurrently it is delivered, whichever calls throw and whenever the    *)
(* process stops.                                                          *)
(*                                                                         *)
(* The insert of the row is what decides between deliveries: the request   *)
(* that made it owns the message, and nobody else ever will.  The          *)
(* invariant says how far the owner is and whether the invoice exists.     *)
(*                                                                         *)
(* Then the webhooks, which share no row with the messages: what the       *)
(* deliveries tell and what a dispatch has settled, for any number of      *)
(* endpoints and dispatches and wherever the server restarts.              *)
(***************************************************************************)
EXTENDS EmailCapture, Webhooks, FiniteSetTheorems, TLAPS

Owns(r, m) == req[r].msg = m /\ req[r].pc \notin {"idle", "createRow"}

Before == {"lookup", "ocr", "store", "meter", "create"}
After == {"fill", "complete", "audit"}

SoleOwner ==
  \A m \in Messages : \A r, s \in Requests : Owns(r, m) /\ Owns(s, m) => r = s

(* What the place of a request in the handler says about its message.      *)
Progress(r, m) ==
  /\ ingest[m] # "absent"
  /\ req[r].pc \in Before => captured[m] = 0 /\ ingest[m] = "processing"
  /\ req[r].pc \in After => captured[m] = 1

OwnerProgress ==
  \A m \in Messages : \A r \in Requests : Owns(r, m) => Progress(r, m)

RowAgrees(m) ==
  /\ captured[m] <= 1
  /\ ingest[m] = "absent" => captured[m] = 0
  /\ ingest[m] = "completed" => captured[m] = 1

(* The local variables of a request in flight.                             *)
Loaded(r) ==
  /\ ~At(r, "idle") => req[r].kind \in Kinds /\ req[r].file \in Files
  /\ req[r].pc \in {"createRow", "markFailed"} => req[r].msg \in Messages

Inv ==
  /\ TypeOK
  /\ SoleOwner
  /\ OwnerProgress
  /\ \A m \in Messages : RowAgrees(m)
  /\ \A r \in Requests : Loaded(r)

LEMMA InitInv == Init => Inv
BY NoneAssumption
DEF Init, Inv, TypeOK, Loaded, SoleOwner, OwnerProgress, RowAgrees, Owns, At,
    Idle, Request, Locals, Steps

(* A step of a request touches only the message it owns, or takes a        *)
(* message that has no row: the invariant is then a matter of that request *)
(* and its message alone.                                                  *)
LEMMA LocalStep ==
  ASSUME Inv, TypeOK', NEW r \in Requests, Loaded(r)',
         \A s \in Requests \ {r} : req'[s] = req[s],
         \A m \in Messages :
           \/ ingest'[m] # ingest[m]
           \/ captured'[m] # captured[m]
           \/ Owns(r, m)'
           => Owns(r, m) \/ ingest[m] = "absent",
         \A m \in Messages : Owns(r, m)' => Progress(r, m)',
         \A m \in Messages : RowAgrees(m)'
  PROVE  Inv'
<1> USE DEF Inv
<1>1. \A s \in Requests : Loaded(s)'
  BY DEF Loaded, At
<1>2. \A s \in Requests \ {r}, m \in Messages :
        Owns(s, m)' => /\ Owns(s, m) /\ Progress(s, m)
                       /\ ~Owns(r, m) /\ ingest[m] # "absent"
  BY DEF Owns, SoleOwner, OwnerProgress, Progress
<1>3. SoleOwner'
  BY <1>2 DEF SoleOwner, Owns
<1>4. OwnerProgress'
  <2> SUFFICES ASSUME NEW m \in Messages, NEW s \in Requests, Owns(s, m)'
               PROVE  Progress(s, m)'
    BY DEF OwnerProgress
  <2>1. CASE s = r
    BY <2>1
  <2>2. CASE s # r
    BY <1>2, <2>2 DEF Progress
  <2> QED BY <2>1, <2>2
<1> QED BY <1>1, <1>3, <1>4

(* A request ends.                                                         *)
LEMMA EndInv ==
  ASSUME Inv, NEW r \in Requests, Finish(r),
         UNCHANGED <<ingest, captured, cached, paid, metered>>
  PROVE  Inv'
<1> USE DEF Inv
<1>1. /\ \A s \in Requests \ {r} : req'[s] = req[s]
      /\ req'[r] = Idle
      /\ Idle \in Locals /\ Idle.pc = "idle"
  BY DEF Finish, TypeOK, Idle, Request, Locals, Steps
<1>2. TypeOK'
  BY <1>1 DEF Finish, TypeOK
<1>3. Loaded(r)' /\ \A m \in Messages : ~Owns(r, m)' /\ RowAgrees(m)'
  BY <1>1 DEF Loaded, Owns, At, RowAgrees
<1> QED BY <1>1, <1>2, <1>3, LocalStep

(* A request goes on without touching the row or the invoice.              *)
LEMMA GoInv ==
  ASSUME Inv, NEW r \in Requests, ~At(r, "idle"), ~At(r, "createRow"),
         NEW p \in Steps \ {"idle", "createRow"},
         \E g \in Kinds \union {None} :
           req' = [req EXCEPT ![r].got = g, ![r].pc = p],
         p \in Before => req[r].pc \in Before,
         p \in After => req[r].pc \in After,
         p = "markFailed" => req[r].msg \in Messages,
         UNCHANGED <<ingest, captured>>,
         cached' \in [Files -> Kinds \union {None}],
         paid' \in [Files -> Nat], metered' \in [Files -> Nat]
  PROVE  Inv'
<1> USE DEF Inv
<1> PICK g \in Kinds \union {None} :
      req' = [req EXCEPT ![r].got = g, ![r].pc = p]
  OBVIOUS
<1>1. /\ \A s \in Requests \ {r} : req'[s] = req[s]
      /\ req'[r] = [req[r] EXCEPT !.got = g, !.pc = p]
  BY DEF TypeOK
<1>2. req[r] \in Locals
  BY DEF TypeOK
<1>3. /\ req'[r] \in Locals /\ req'[r].pc = p /\ req'[r].msg = req[r].msg
      /\ req'[r].kind = req[r].kind /\ req'[r].file = req[r].file
  <2>1. req'[r] = [pc |-> p, msg |-> req[r].msg, kind |-> req[r].kind,
                   file |-> req[r].file, got |-> g]
    <3> DEFINE y == [req[r] EXCEPT !.got = g]
    <3>1. y = [pc |-> req[r].pc, msg |-> req[r].msg, kind |-> req[r].kind,
               file |-> req[r].file, got |-> g]
      BY <1>2 DEF Locals
    <3>2. req'[r] = [y EXCEPT !.pc = p]
      BY <1>1
    <3> HIDE DEF y
    <3> QED BY <3>1, <3>2
  <2> QED BY <1>2, <2>1 DEF Locals
<1>4. TypeOK'
  BY <1>1, <1>3 DEF TypeOK
<1>5. Loaded(r)'
  BY <1>3 DEF Loaded, At
<1>6. \A m \in Messages : RowAgrees(m)'
  BY DEF RowAgrees
<1>7. \A m \in Messages : Owns(r, m)' => Owns(r, m)
  BY <1>3 DEF Owns, At
<1>8. \A m \in Messages : Owns(r, m)' => Progress(r, m)'
  BY <1>3, <1>7 DEF Progress, OwnerProgress
<1> QED BY <1>1, <1>4, <1>5, <1>6, <1>7, <1>8, LocalStep

LEMMA GotoInv ==
  ASSUME Inv, NEW r \in Requests, ~At(r, "idle"), ~At(r, "createRow"),
         NEW p \in Steps \ {"idle", "createRow"}, Goto(r, p),
         p \in Before => req[r].pc \in Before,
         p \in After => req[r].pc \in After,
         p = "markFailed" => req[r].msg \in Messages,
         UNCHANGED <<ingest, captured>>,
         cached' \in [Files -> Kinds \union {None}],
         paid' \in [Files -> Nat], metered' \in [Files -> Nat]
  PROVE  Inv'
<1>1. req[r] \in Locals
  BY DEF Inv, TypeOK
<1>2. req[r].got \in Kinds \union {None}
  BY <1>1 DEF Locals
<1>3. [req[r] EXCEPT !.pc = p] = [req[r] EXCEPT !.got = req[r].got, !.pc = p]
  BY <1>1 DEF Locals
<1>4. req' = [req EXCEPT ![r].got = req[r].got, ![r].pc = p]
  BY <1>3 DEF Goto, Inv, TypeOK
<1> QED BY <1>2, <1>4, GoInv

LEMMA AbortInv ==
  ASSUME Inv, NEW r \in Requests, Abort(r),
         ~At(r, "idle"), ~At(r, "createRow"),
         UNCHANGED <<ingest, captured, cached, paid, metered>>
  PROVE  Inv'
<1>1. CASE Finish(r)
  BY <1>1, EndInv
<1>2. CASE Goto(r, "markFailed") /\ req[r].msg # None
  <2>1. req[r].msg \in Messages
    BY <1>2 DEF Inv, TypeOK, Locals
  <2> QED
    BY <1>2, <2>1, GotoInv DEF Inv, TypeOK, Steps, Before, After
<1> QED BY <1>1, <1>2 DEF Abort

(* The request of a message makes the row, or the invoice, or settles it.  *)
LEMMA OwnInv ==
  ASSUME Inv, NEW r \in Requests, NEW m \in Messages, req[r].msg = m,
         Owns(r, m) \/ ingest[m] = "absent",
         TypeOK', Loaded(r)',
         \A s \in Requests \ {r} : req'[s] = req[s],
         \A n \in Messages \ {m} : ingest'[n] = ingest[n] /\ captured'[n] = captured[n],
         req'[r].msg \in {m, None},
         Owns(r, m)' => Progress(r, m)',
         RowAgrees(m)'
  PROVE  Inv'
<1> USE DEF Inv
<1>1. \A n \in Messages : Owns(r, n)' => n = m
  BY NoneAssumption DEF Owns
<1>2. \A n \in Messages : RowAgrees(n)'
  BY DEF RowAgrees
<1>3. \A n \in Messages :
        \/ ingest'[n] # ingest[n]
        \/ captured'[n] # captured[n]
        \/ Owns(r, n)'
        => Owns(r, n) \/ ingest[n] = "absent"
  BY <1>1
<1>4. \A n \in Messages : Owns(r, n)' => Progress(r, n)'
  BY <1>1
<1> QED BY <1>2, <1>3, <1>4, LocalStep

LEMMA CreateRowInv ==
  ASSUME Inv, NEW r \in Requests, CreateRow(r)
  PROVE  Inv'
<1> USE DEF Inv
<1>1. CASE ingest[req[r].msg] = "absent"
  <2> PICK m \in Messages : req[r].msg = m
    BY DEF CreateRow, At, Loaded
  <2>1. Loaded(r) /\ req[r] \in Locals
    BY DEF TypeOK
  <2>2. /\ ingest' = [ingest EXCEPT ![m] = "processing"]
        /\ req' = [req EXCEPT ![r].pc = "lookup"]
        /\ UNCHANGED <<captured, cached, paid, metered>>
    BY <1>1 DEF CreateRow, Goto
  <2>3. /\ \A s \in Requests \ {r} : req'[s] = req[s]
        /\ req'[r] = [pc |-> "lookup", msg |-> m, kind |-> req[r].kind,
                      file |-> req[r].file, got |-> req[r].got]
    BY <2>1, <2>2 DEF TypeOK, Locals
  <2>4. TypeOK'
    BY <2>1, <2>2, <2>3 DEF TypeOK, Locals, Steps
  <2>5. Loaded(r)'
    BY <2>1, <2>3 DEF Loaded, At, CreateRow
  <2>6. RowAgrees(m)' /\ Progress(r, m)'
    BY <1>1, <2>1, <2>2, <2>3
    DEF RowAgrees, Progress, Before, After, TypeOK
  <2>7. /\ ingest[m] = "absent" /\ req'[r].msg = m
        /\ \A n \in Messages \ {m} : ingest'[n] = ingest[n] /\ captured'[n] = captured[n]
    BY <1>1, <2>2, <2>3 DEF CreateRow, TypeOK
  <2> QED BY <2>3, <2>4, <2>5, <2>6, <2>7, OwnInv
<1>2. CASE ingest[req[r].msg] # "absent"
  BY <1>2, EndInv DEF CreateRow
<1> QED BY <1>1, <1>2

LEMMA CreateInv ==
  ASSUME Inv, NEW r \in Requests, Create(r)
  PROVE  Inv'
<1> USE DEF Inv
<1>1. CASE Abort(r) /\ UNCHANGED captured
  BY <1>1, AbortInv DEF Create, At
<1>2. CASE req[r].msg = None /\ Goto(r, "fill") /\ UNCHANGED captured
  <2> DEFINE x == req[r]
  <2>1. x \in Locals /\ x.msg = None /\ At(r, "create") /\ Loaded(r)
    BY <1>2 DEF TypeOK, Create
  <2>2. /\ \A s \in Requests \ {r} : req'[s] = req[s]
        /\ req'[r] = [pc |-> "fill", msg |-> None, kind |-> x.kind,
                      file |-> x.file, got |-> x.got]
    BY <1>2, <2>1 DEF Goto, TypeOK, Locals
  <2>3. TypeOK'
    BY <1>2, <2>1, <2>2 DEF Create, Goto, TypeOK, Locals, Steps
  <2>4. Loaded(r)' /\ \A m \in Messages : ~Owns(r, m)'
    BY <2>1, <2>2, NoneAssumption DEF Loaded, At, Owns
  <2>5. \A m \in Messages : RowAgrees(m)'
    BY <1>2 DEF Create, RowAgrees
  <2> QED BY <1>2, <2>2, <2>3, <2>4, <2>5, LocalStep DEF Create
<1>3. CASE /\ req[r].msg # None /\ Goto(r, "fill")
           /\ captured' = [captured EXCEPT ![req[r].msg] = @ + 1]
  <2>1. /\ req[r] \in Locals /\ At(r, "create")
        /\ Loaded(r) /\ UNCHANGED <<ingest, cached, paid, metered>>
    BY <1>3 DEF TypeOK, Create
  <2> PICK m \in Messages : req[r].msg = m
    BY <1>3, <2>1 DEF Locals
  <2>2. Owns(r, m) /\ captured[m] = 0 /\ ingest[m] = "processing"
    BY <2>1 DEF Owns, At, OwnerProgress, Progress, Before
  <2>3. /\ \A s \in Requests \ {r} : req'[s] = req[s]
        /\ req'[r] = [pc |-> "fill", msg |-> m, kind |-> req[r].kind,
                      file |-> req[r].file, got |-> req[r].got]
    BY <1>3, <2>1 DEF Goto, TypeOK, Locals
  <2>4. captured'[m] = 1 /\ captured' \in [Messages -> Nat]
    BY <1>3, <2>1, <2>2 DEF TypeOK
  <2>5. TypeOK'
    BY <2>1, <2>3, <2>4, <1>3 DEF Goto, TypeOK, Locals, Steps
  <2>6. Loaded(r)'
    BY <2>1, <2>3 DEF Loaded, At
  <2>7. RowAgrees(m)' /\ Progress(r, m)'
    BY <2>1, <2>2, <2>3, <2>4 DEF RowAgrees, Progress, Before, After
  <2>8. \A n \in Messages \ {m} : ingest'[n] = ingest[n] /\ captured'[n] = captured[n]
    BY <1>3, <2>1 DEF TypeOK
  <2>9. req'[r].msg = m /\ \A s \in Requests \ {r} : req'[s] = req[s]
    BY <2>3
  <2> QED BY <2>2, <2>5, <2>6, <2>7, <2>8, <2>9, OwnInv
<1> QED BY <1>1, <1>2, <1>3 DEF Create

LEMMA CompleteInv ==
  ASSUME Inv, NEW r \in Requests, Complete(r)
  PROVE  Inv'
<1> USE DEF Inv
<1>1. /\ req[r] \in Locals /\ Loaded(r) /\ At(r, "complete")
      /\ UNCHANGED <<captured, cached, paid, metered>>
  BY DEF TypeOK, Complete
<1>2. /\ \A s \in Requests \ {r} : req'[s] = req[s]
      /\ req'[r] = [pc |-> "audit", msg |-> req[r].msg, kind |-> req[r].kind,
                    file |-> req[r].file, got |-> req[r].got]
  BY <1>1 DEF Complete, Goto, TypeOK, Locals
<1>3. Loaded(r)'
  BY <1>1, <1>2 DEF Loaded, At
<1>4. CASE req[r].msg = None
  <2>1. TypeOK'
    BY <1>1, <1>2, <1>4 DEF Complete, Goto, TypeOK, Locals, Steps
  <2>2. \A m \in Messages : ~Owns(r, m)' /\ RowAgrees(m)'
    BY <1>1, <1>2, <1>4, NoneAssumption DEF Complete, Owns, RowAgrees
  <2> QED BY <1>1, <1>2, <1>3, <1>4, <2>1, <2>2, LocalStep DEF Complete
<1>5. CASE req[r].msg # None
  <2> PICK m \in Messages : req[r].msg = m
    BY <1>1, <1>5 DEF Locals
  <2>1. /\ Owns(r, m) /\ captured[m] = 1
        /\ ingest' = [ingest EXCEPT ![m] = "completed"]
    BY <1>1, <1>5
    DEF Complete, Owns, At, OwnerProgress, Progress, After, Before
  <2>2. TypeOK'
    BY <1>1, <1>2, <2>1 DEF Complete, Goto, TypeOK, Locals, Steps
  <2>3. RowAgrees(m)' /\ Progress(r, m)'
    BY <1>1, <1>2, <2>1 DEF RowAgrees, Progress, Before, After, TypeOK
  <2>4. \A n \in Messages \ {m} : ingest'[n] = ingest[n] /\ captured'[n] = captured[n]
    BY <1>1, <2>1 DEF TypeOK
  <2>5. req'[r].msg = m /\ \A s \in Requests \ {r} : req'[s] = req[s]
    BY <1>2
  <2> QED BY <1>3, <2>1, <2>2, <2>3, <2>4, <2>5, OwnInv
<1> QED BY <1>4, <1>5

LEMMA MarkFailedInv ==
  ASSUME Inv, NEW r \in Requests, MarkFailed(r)
  PROVE  Inv'
<1> USE DEF Inv
<1>1. /\ req[r] \in Locals /\ Loaded(r) /\ At(r, "markFailed")
      /\ UNCHANGED <<captured, cached, paid, metered>>
  BY DEF TypeOK, MarkFailed
<1> PICK m \in Messages : req[r].msg = m
  BY <1>1 DEF Loaded, At
<1>2. /\ \A s \in Requests \ {r} : req'[s] = req[s]
      /\ req'[r] = Idle /\ Idle \in Locals /\ Idle.pc = "idle"
      /\ Idle.msg = None
  BY DEF MarkFailed, Finish, TypeOK, Idle, Request, Locals, Steps
<1>3. TypeOK'
  BY <1>1, <1>2 DEF MarkFailed, Finish, TypeOK
<1>4. Loaded(r)' /\ ~Owns(r, m)'
  BY <1>2 DEF Loaded, At, Owns
<1>5. Owns(r, m) /\ ingest[m] # "absent"
  BY <1>1 DEF Owns, At, OwnerProgress, Progress
<1>6. RowAgrees(m)'
  BY <1>1, <1>5 DEF MarkFailed, RowAgrees, TypeOK
<1>7. \A n \in Messages \ {m} : ingest'[n] = ingest[n] /\ captured'[n] = captured[n]
  BY <1>1 DEF MarkFailed, TypeOK
<1>8. req'[r].msg = None /\ \A s \in Requests \ {r} : req'[s] = req[s]
  BY <1>2
<1> QED BY <1>3, <1>4, <1>5, <1>6, <1>7, <1>8, OwnInv

LEMMA StartInv ==
  ASSUME Inv, NEW r \in Requests, Start(r)
  PROVE  Inv'
<1> USE DEF Inv
<1> DEFINE
      Starts(x) ==
        /\ req' = [req EXCEPT ![r] = x]
        /\ x.kind \in Kinds /\ x.file \in Files
        /\ \/ x.pc = "createRow" /\ x.msg \in Messages
           \/ x.pc = "lookup" /\ x.msg = None
        /\ UNCHANGED <<ingest, captured, cached, paid, metered>>
<1>1. \E x \in Locals : Starts(x)
  <2>1. ASSUME NEW m \in Messages, Deliver(r, m)
        PROVE  \E x \in Locals : Starts(x)
    <3> DEFINE x == Request("createRow", m, "invoice", Content[m])
    <3>1. x \in Locals
      BY ContentAssumption DEF Request, Locals, Steps, Kinds
    <3>2. Starts(x)
      BY <2>1, ContentAssumption DEF Deliver, Request, Kinds
    <3> QED BY <3>1, <3>2
  <2>2. ASSUME NEW f \in Files, NEW k \in Kinds, StartUpload(r, f, k)
        PROVE  \E x \in Locals : Starts(x)
    <3> DEFINE x == Request("lookup", None, k, f)
    <3>1. x \in Locals
      BY DEF Request, Locals, Steps
    <3>2. Starts(x)
      BY <2>2 DEF StartUpload, Request
    <3> QED BY <3>1, <3>2
  <2> QED BY <2>1, <2>2 DEF Start
<1> PICK x \in Locals : Starts(x)
  BY <1>1
<1>2. req'[r] = x /\ \A s \in Requests \ {r} : req'[s] = req[s]
  BY DEF TypeOK
<1>3. TypeOK'
  BY DEF TypeOK
<1>4. Loaded(r)'
  BY <1>2 DEF Loaded, At
<1>5. \A m \in Messages : ~Owns(r, m)' /\ RowAgrees(m)'
  BY <1>2, NoneAssumption DEF Owns, RowAgrees
<1> QED BY <1>2, <1>3, <1>4, <1>5, LocalStep

LEMMA NextInv == Inv /\ [Next]_vars => Inv'
<1> SUFFICES ASSUME Inv, [Next]_vars PROVE Inv'
  OBVIOUS
<1> USE DEF Inv
<1>1. ASSUME NEW r \in Requests, Lookup(r) PROVE Inv'
  <2>1. /\ cached[req[r].file] \in Kinds \union {None}
        /\ At(r, "lookup")
    BY <1>1 DEF Lookup, Loaded, At, TypeOK
  <2>2. CASE cached[req[r].file] # None
    BY <1>1, <2>1, <2>2, GoInv DEF Lookup, TypeOK, At, Before, After, Steps
  <2>3. CASE cached[req[r].file] = None
    BY <1>1, <2>1, <2>3, GoInv DEF Lookup, TypeOK, At, Before, After, Steps
  <2> QED BY <2>2, <2>3
<1>2. ASSUME NEW r \in Requests, Ocr(r) PROVE Inv'
  <2>1. req[r].kind \in Kinds /\ req[r].file \in Files
    BY <1>2 DEF Ocr, Loaded, At
  <2>2. paid' \in [Files -> Nat]
    BY <1>2, <2>1 DEF Ocr, TypeOK
  <2> QED
    BY <1>2, <2>1, <2>2, GoInv DEF Ocr, TypeOK, At, Before, After, Steps
<1>3. ASSUME NEW r \in Requests, Store(r) PROVE Inv'
  <2>1. req[r].kind \in Kinds /\ req[r].file \in Files
    BY <1>3 DEF Store, Loaded, At
  <2>2. cached' \in [Files -> Kinds \union {None}]
    BY <1>3, <2>1 DEF Store, TypeOK
  <2> QED
    BY <1>3, <2>1, <2>2, GotoInv DEF Store, TypeOK, At, Before, After, Steps
<1>4. ASSUME NEW r \in Requests, Meter(r) PROVE Inv'
  <2>1. metered' \in [Files -> Nat]
    BY <1>4 DEF Meter, Loaded, At, TypeOK
  <2> QED
    BY <1>4, <2>1, GotoInv DEF Meter, TypeOK, At, Before, After, Steps
<1>5. ASSUME NEW r \in Requests, Fill(r) PROVE Inv'
  BY <1>5, GotoInv DEF Fill, TypeOK, At, Before, After, Steps
<1>6. ASSUME NEW r \in Requests, Audit(r) \/ Crash(r) PROVE Inv'
  BY <1>6, EndInv DEF Audit, Crash
<1>7. ASSUME NEW r \in Requests, CallThrows(r) PROVE Inv'
  BY <1>7, EndInv, AbortInv DEF CallThrows
<1>8. CASE UNCHANGED vars
  BY <1>8
  DEF vars, TypeOK, Loaded, SoleOwner, OwnerProgress, Progress, RowAgrees,
      Owns, At
<1> QED
  BY <1>1, <1>2, <1>3, <1>4, <1>5, <1>6, <1>7, <1>8, StartInv, CreateRowInv,
     CreateInv, CompleteInv, MarkFailedInv
  DEF Next, Step

(* The inductive invariant holds of every behaviour.                       *)
THEOREM Spec_Inv == Spec => []Inv
BY InitInv, NextInv, PTL DEF Spec

(* The variables have their types.                                         *)
THEOREM TypeCorrect == Spec => []TypeOK
BY Spec_Inv, PTL DEF Inv

(* However often and however concurrently a message is delivered, at most  *)
(* one invoice is created for it, and exactly one when its row says        *)
(* completed.                                                              *)
THEOREM OneInvoice == Spec => []MailIsCaptured
<1>1. Inv => MailIsCaptured
  BY DEF Inv, RowAgrees, MailIsCaptured
<1> QED BY <1>1, Spec_Inv, PTL

-----------------------------------------------------------------------------
(* What OCR costs.  A request has paid for a page before it meters it, and *)
(* until a result is stored every page of a file was paid for by a request *)
(* that is still to store its own.  Once a result is there no request goes *)
(* on to OCR but those that had looked it up before.                       *)

Reading(f, steps) == {r \in Requests : req[r].pc \in steps /\ req[r].file = f}
Unmetered(f) == Reading(f, {"store", "meter"})
Storing(f) == Reading(f, {"store"})
Missed(f) == Reading(f, {"ocr"})

PaidFor(f) ==
  IF cached[f] = None THEN paid[f] <= Cardinality(Storing(f))
  ELSE paid[f] + Cardinality(Missed(f)) <= Cardinality(Requests)

PagesInv ==
  \A f \in Files :
    /\ metered[f] + Cardinality(Unmetered(f)) <= paid[f]
    /\ ~cut => PaidFor(f)

(* A request goes on to a step that reads no page, or ends.                *)
Ended(r) ==
  /\ \A s \in Requests \ {r} : req'[s] = req[s]
  /\ req'[r].pc \in {"idle", "lookup", "fill", "complete", "audit", "markFailed"}

LEMMA Counts ==
  /\ Cardinality(Requests) \in Nat
  /\ \A f, steps :
       LET S == Reading(f, steps)
       IN  /\ S \subseteq Requests /\ IsFiniteSet(S)
           /\ Cardinality(S) \in Nat /\ Cardinality(S) <= Cardinality(Requests)
BY RequestsAssumption, FS_Subset, FS_CardinalityType DEF Reading

LEMMA CountsPrime ==
  \A f, steps :
    LET S == Reading(f, steps)'
    IN  /\ S \subseteq Requests /\ IsFiniteSet(S) /\ Cardinality(S) \in Nat
        /\ Cardinality(S) <= Cardinality(Requests)
BY RequestsAssumption, FS_Subset, FS_CardinalityType DEF Reading

(* A request that reads nothing, or a hit, neither pays nor meters.        *)
LEMMA NoPage ==
  ASSUME TypeOK, PagesInv, UNCHANGED <<cached, paid, metered>>, cut => cut',
         NEW r \in Requests, \A s \in Requests \ {r} : req'[s] = req[s],
         req'[r].pc \notin {"store", "meter"},
         req[r].pc = "store" => cut',
         req'[r].pc = "ocr" => cached[req'[r].file] = None
  PROVE  PagesInv'
<1> SUFFICES ASSUME NEW f \in Files
             PROVE  /\ metered'[f] + Cardinality(Unmetered(f)') <= paid'[f]
                    /\ ~cut' => PaidFor(f)'
  BY DEF PagesInv
<1>1. Unmetered(f)' \subseteq Unmetered(f)
  BY DEF Unmetered, Reading
<1>2. Cardinality(Unmetered(f)') <= Cardinality(Unmetered(f))
  BY <1>1, Counts, FS_Subset DEF Unmetered
<1>3. metered'[f] + Cardinality(Unmetered(f)') <= paid'[f]
  BY <1>2, Counts, CountsPrime DEF PagesInv, TypeOK, Unmetered
<1>4. ASSUME ~cut', cached[f] = None PROVE PaidFor(f)'
  <2>1. Storing(f)' = Storing(f)
    BY <1>4 DEF Storing, Reading
  <2> QED BY <1>4, <2>1 DEF PagesInv, PaidFor
<1>5. ASSUME ~cut', cached[f] # None PROVE PaidFor(f)'
  <2>1. Missed(f)' \subseteq Missed(f)
    BY <1>5 DEF Missed, Reading
  <2>2. Cardinality(Missed(f)') <= Cardinality(Missed(f))
    BY <2>1, Counts, FS_Subset DEF Missed
  <2> QED
    BY <1>5, <2>2, Counts, CountsPrime DEF PagesInv, PaidFor, TypeOK, Missed
<1> QED BY <1>3, <1>4, <1>5

LEMMA OcrPages ==
  ASSUME Inv, PagesInv, NEW r \in Requests, Ocr(r), UNCHANGED cut
  PROVE  PagesInv'
<1>0. /\ TypeOK /\ req[r].pc = "ocr"
      /\ req[r].file \in Files
  BY DEF Inv, Loaded, Ocr, At
<1> PICK g \in Files : g = req[r].file
  BY <1>0
<1>1. /\ \A s \in Requests \ {r} : req'[s] = req[s]
      /\ req'[r].pc = "store" /\ req'[r].file = g
  BY <1>0 DEF Ocr, TypeOK, Locals
<1>2. /\ Unmetered(g)' = Unmetered(g) \union {r} /\ r \notin Unmetered(g)
      /\ Storing(g)' = Storing(g) \union {r} /\ r \notin Storing(g)
      /\ Missed(g)' = Missed(g) \ {r} /\ r \in Missed(g)
  BY <1>0, <1>1 DEF Unmetered, Storing, Missed, Reading
<1>3. /\ Cardinality(Unmetered(g)') = Cardinality(Unmetered(g)) + 1
      /\ Cardinality(Storing(g)') = Cardinality(Storing(g)) + 1
      /\ Cardinality(Missed(g)') = Cardinality(Missed(g)) - 1
  <2>1. /\ IsFiniteSet(Unmetered(g)) /\ IsFiniteSet(Storing(g))
        /\ IsFiniteSet(Missed(g))
    BY Counts DEF Unmetered, Storing, Missed
  <2>2. /\ Cardinality(Unmetered(g) \union {r}) = Cardinality(Unmetered(g)) + 1
        /\ Cardinality(Storing(g) \union {r}) = Cardinality(Storing(g)) + 1
    BY <1>2, <2>1, FS_AddElement
  <2>3. Cardinality(Missed(g) \ {r}) = Cardinality(Missed(g)) - 1
    BY <1>2, <2>1, FS_RemoveElement
  <2> QED BY <1>2, <2>2, <2>3
<1>4. /\ paid'[g] = paid[g] + 1
      /\ \A f \in Files \ {g} : paid'[f] = paid[f]
      /\ UNCHANGED <<cached, metered>>
  BY <1>0 DEF Ocr, TypeOK
<1>5. /\ metered[g] + Cardinality(Unmetered(g)) <= paid[g]
      /\ ~cut => PaidFor(g)
      /\ metered[g] \in Nat /\ paid[g] \in Nat
  BY <1>0 DEF PagesInv, TypeOK
<1>6. /\ Cardinality(Unmetered(g)) \in Nat /\ Cardinality(Storing(g)) \in Nat
      /\ Cardinality(Missed(g)) \in Nat /\ Cardinality(Requests) \in Nat
  BY Counts DEF Unmetered, Storing, Missed
<1>7. metered'[g] + Cardinality(Unmetered(g)') <= paid'[g]
  BY <1>3, <1>4, <1>5, <1>6
<1>8. ~cut' => PaidFor(g)'
  BY <1>3, <1>4, <1>5, <1>6 DEF PaidFor
<1>9. \A f \in Files \ {g} :
        /\ Unmetered(f)' = Unmetered(f) /\ Storing(f)' = Storing(f)
        /\ Missed(f)' = Missed(f)
  BY <1>1 DEF Unmetered, Storing, Missed, Reading
<1> QED BY <1>4, <1>7, <1>8, <1>9 DEF PagesInv, PaidFor

LEMMA StorePages ==
  ASSUME Inv, PagesInv, NEW r \in Requests, Store(r), UNCHANGED cut
  PROVE  PagesInv'
<1>0. /\ TypeOK /\ req[r].pc = "store" /\ req[r].kind # None
      /\ req[r].file \in Files
  BY NoneAssumption DEF Inv, Loaded, Store, At
<1> PICK g \in Files : g = req[r].file
  BY <1>0
<1>1. /\ \A s \in Requests \ {r} : req'[s] = req[s]
      /\ req'[r].pc = "meter" /\ req'[r].file = g
  BY <1>0 DEF Store, Goto, TypeOK, Locals
<1>2. /\ UNCHANGED <<paid, metered>> /\ cached'[g] # None
      /\ \A f \in Files \ {g} : cached'[f] = cached[f]
  BY <1>0 DEF Store, TypeOK
<1>3. \A f \in Files :
        Unmetered(f)' = Unmetered(f) /\ Missed(f)' = Missed(f)
  BY <1>0, <1>1 DEF Unmetered, Missed, Reading
<1>4. \A f \in Files \ {g} : Storing(f)' = Storing(f)
  BY <1>0, <1>1 DEF Storing, Reading
<1>5. ASSUME ~cut PROVE paid[g] + Cardinality(Missed(g)) <= Cardinality(Requests)
  <2>1. CASE cached[g] # None
    BY <1>0, <1>5, <2>1 DEF PagesInv, PaidFor
  <2>2. CASE cached[g] = None
    <3> DEFINE S == Storing(g)
               M == Missed(g)
    <3>1. /\ IsFiniteSet(S) /\ IsFiniteSet(M)
          /\ Cardinality(S) \in Nat /\ Cardinality(M) \in Nat
      BY Counts DEF Storing, Missed
    <3>2. S \cap M = {} /\ S \union M \in SUBSET Requests
      BY DEF Storing, Missed, Reading
    <3>3. Cardinality(S \union M) = Cardinality(S) + Cardinality(M)
      <4>1. Cardinality(S \union M)
              = Cardinality(S) + Cardinality(M) - Cardinality(S \intersect M)
        BY <3>1, FS_Union
      <4>2. Cardinality(S \intersect M) = 0
        BY <3>2, FS_EmptySet
      <4> HIDE DEF S, M
      <4> QED BY <3>1, <4>1, <4>2
    <3>4. Cardinality(S \union M) <= Cardinality(Requests)
      BY <3>2, RequestsAssumption, FS_Subset
    <3>5. paid[g] <= Cardinality(S) /\ paid[g] \in Nat
      BY <1>0, <1>5, <2>2 DEF PagesInv, PaidFor, TypeOK
    <3> HIDE DEF S
    <3> QED BY <3>1, <3>3, <3>4, <3>5, Counts
  <2> QED BY <2>1, <2>2
<1>6. ~cut' => PaidFor(g)'
  BY <1>0, <1>2, <1>3, <1>5 DEF PaidFor
<1> QED BY <1>0, <1>2, <1>3, <1>4, <1>6 DEF PagesInv, PaidFor

LEMMA MeterPages ==
  ASSUME Inv, PagesInv, NEW r \in Requests, Meter(r), UNCHANGED cut
  PROVE  PagesInv'
<1>0. /\ TypeOK /\ req[r].pc = "meter"
      /\ req[r].file \in Files
  BY DEF Inv, Loaded, Meter, At
<1> PICK g \in Files : g = req[r].file
  BY <1>0
<1>1. /\ \A s \in Requests \ {r} : req'[s] = req[s]
      /\ req'[r].pc = "create" /\ req'[r].file = g
  BY <1>0 DEF Meter, Goto, TypeOK, Locals
<1>2. Unmetered(g)' = Unmetered(g) \ {r} /\ r \in Unmetered(g)
  BY <1>0, <1>1 DEF Unmetered, Reading
<1>3. Cardinality(Unmetered(g)') = Cardinality(Unmetered(g)) - 1
  BY <1>2, Counts, FS_RemoveElement DEF Unmetered
<1>4. /\ metered'[g] = metered[g] + 1
      /\ \A f \in Files \ {g} : metered'[f] = metered[f]
      /\ UNCHANGED <<cached, paid>>
  BY <1>0 DEF Meter, TypeOK
<1>5. /\ metered[g] + Cardinality(Unmetered(g)) <= paid[g]
      /\ metered[g] \in Nat /\ paid[g] \in Nat
      /\ Cardinality(Unmetered(g)) \in Nat
  BY <1>0, Counts DEF PagesInv, TypeOK, Unmetered
<1>6. metered'[g] + Cardinality(Unmetered(g)') <= paid'[g]
  BY <1>3, <1>4, <1>5
<1>7. \A f \in Files : Storing(f)' = Storing(f) /\ Missed(f)' = Missed(f)
  BY <1>0, <1>1 DEF Storing, Missed, Reading
<1>8. \A f \in Files \ {g} : Unmetered(f)' = Unmetered(f)
  BY <1>1 DEF Unmetered, Reading
<1> QED BY <1>4, <1>6, <1>7, <1>8 DEF PagesInv, PaidFor

LEMMA InitPages == Init => PagesInv
<1> SUFFICES ASSUME Init, NEW f \in Files
             PROVE  /\ metered[f] + Cardinality(Unmetered(f)) <= paid[f]
                    /\ PaidFor(f)
  BY DEF PagesInv
<1>1. Unmetered(f) = {} /\ Storing(f) = {}
  BY DEF Init, Unmetered, Storing, Reading, Idle, Request
<1> QED BY <1>1, FS_EmptySet DEF Init, PaidFor

LEMMA NextPages == Inv /\ PagesInv /\ [Next]_vars => PagesInv'
<1> SUFFICES ASSUME Inv, PagesInv, [Next]_vars PROVE PagesInv'
  OBVIOUS
<1>0. TypeOK
  BY DEF Inv
<1>1. ASSUME NEW r \in Requests, Ended(r),
             UNCHANGED <<cached, paid, metered>>, cut => cut',
             req[r].pc = "store" => cut'
      PROVE  PagesInv'
  BY <1>0, <1>1, NoPage DEF Ended
<1>2. ASSUME NEW r \in Requests, Start(r) PROVE PagesInv'
  <2>1. /\ UNCHANGED <<cached, paid, metered, cut>>
        /\ req[r].pc = "idle"
    BY <1>2 DEF Start, Deliver, StartUpload, At
  <2>2. /\ \A s \in Requests \ {r} : req'[s] = req[s]
        /\ req'[r].pc \in {"createRow", "lookup"}
    BY <1>0, <1>2 DEF Start, Deliver, StartUpload, Request, TypeOK
  <2> QED BY <1>0, <2>1, <2>2, NoPage
<1>3. ASSUME NEW r \in Requests, Lookup(r), UNCHANGED cut PROVE PagesInv'
  <2>1. /\ UNCHANGED <<cached, paid, metered>> /\ req[r].pc = "lookup"
        /\ \A s \in Requests \ {r} : req'[s] = req[s]
    BY <1>0, <1>3 DEF Lookup, At, TypeOK
  <2>2. /\ req'[r].pc = IF cached[req[r].file] # None THEN "create" ELSE "ocr"
        /\ req'[r].file = req[r].file
    BY <1>0, <1>3 DEF Lookup, TypeOK, Locals
  <2>3. /\ req'[r].pc \notin {"store", "meter"} /\ req[r].pc # "store"
        /\ req'[r].pc = "ocr" => cached[req'[r].file] = None
    BY <2>1, <2>2
  <2> QED BY <1>0, <1>3, <2>1, <2>3, NoPage
<1>4. ASSUME NEW r \in Requests, UNCHANGED cut,
             CreateRow(r) \/ Create(r) \/ Fill(r) \/ Complete(r) \/ Audit(r)
               \/ MarkFailed(r)
      PROVE  PagesInv'
  <2>1. /\ UNCHANGED <<cached, paid, metered>>
        /\ req[r].pc # "store"
    BY <1>4 DEF CreateRow, Create, Fill, Complete, Audit, MarkFailed, At
  <2>2. Ended(r)
    BY <1>0, <1>4
    DEF CreateRow, Create, Fill, Complete, Audit, MarkFailed, Ended, Goto,
        Finish, Abort, TypeOK, Locals, Idle, Request
  <2> QED BY <1>1, <1>4, <2>1, <2>2
<1>5. ASSUME NEW r \in Requests, CallThrows(r) \/ Crash(r) PROVE PagesInv'
  <2>1. /\ UNCHANGED <<cached, paid, metered>> /\ (cut => cut')
        /\ req[r].pc = "store" => cut'
    BY <1>5 DEF CallThrows, Crash, At
  <2>2. Ended(r)
    BY <1>0, <1>5
    DEF CallThrows, Crash, Ended, Goto, Finish, Abort, TypeOK, Locals, Idle,
        Request
  <2> QED BY <1>1, <2>1, <2>2
<1>6. CASE UNCHANGED vars
  BY <1>6
  DEF vars, PagesInv, PaidFor, Unmetered, Storing, Missed, Reading
<1> QED
  BY <1>2, <1>3, <1>4, <1>5, <1>6, OcrPages, StorePages, MeterPages
  DEF Next, Step

(* However many requests read the same file at the same time, the meter    *)
(* never runs ahead of what was paid, and as long as no result is lost a   *)
(* file is paid for once for every request that can overlap, at most.      *)
THEOREM PaidForOverlapsOnly == Spec => []PaidOncePerOverlap
<1>1. ASSUME Inv, PagesInv PROVE PaidOncePerOverlap
  <2> SUFFICES ASSUME NEW f \in Files
               PROVE  /\ metered[f] <= paid[f]
                      /\ ~cut => paid[f] <= Cardinality(Requests)
    BY DEF PaidOncePerOverlap
  <2>1. /\ metered[f] \in Nat /\ paid[f] \in Nat
        /\ metered[f] + Cardinality(Unmetered(f)) <= paid[f]
        /\ ~cut => PaidFor(f)
    BY <1>1 DEF Inv, TypeOK, PagesInv
  <2>2. /\ Cardinality(Unmetered(f)) \in Nat /\ Cardinality(Requests) \in Nat
        /\ Cardinality(Storing(f)) \in Nat /\ Cardinality(Missed(f)) \in Nat
        /\ Cardinality(Storing(f)) <= Cardinality(Requests)
    BY Counts DEF Unmetered, Storing, Missed
  <2> QED BY <2>1, <2>2 DEF PaidFor
<1>2. PagesInv /\ Inv => PaidOncePerOverlap
  BY <1>1
<1> QED BY <1>2, InitPages, NextPages, Spec_Inv, PTL DEF Spec

-----------------------------------------------------------------------------
(* Webhooks.  A dispatch touches its own rows only, and an endpoint can be *)
(* deleted under it: the invariant says, for each step of a dispatch,      *)
(* which of its endpoints are untouched, which one is under way and which  *)
(* are settled.                                                            *)

Fresh(d, e) == delivery[d][e] = "none" /\ received[d][e] = 0
Settled(d, e) ==
  delivery[d][e] \in {"succeeded", "failed"} \/ endpoint[e] = "deleted"
Going(d) == dispatch[d].step \in {"create", "send", "record"}

(* What a row says of its receiver.                                        *)
Truthful(d) ==
  \A e \in Endpoints :
    /\ received[d][e] <= 1
    /\ received[d][e] = 1 => delivery[d][e] # "none"
    /\ delivery[d][e] = "succeeded" => received[d][e] = 1
    /\ delivery[d][e] = "deleted" => endpoint[e] = "deleted"

(* Where a dispatch is.                                                    *)
Place(d) ==
  /\ d \in restarted => dispatch[d].step = "done"
  /\ dispatch[d].step \in {"idle", "match"} => \A e \in Endpoints : Fresh(d, e)
  /\ Going(d) =>
       /\ dispatch[d].todo \subseteq matched[d]
       /\ \A e \in matched[d] \ dispatch[d].todo : Settled(d, e)
       /\ \A e \in dispatch[d].todo : e = dispatch[d].at \/ Fresh(d, e)
  /\ dispatch[d].step \in {"idle", "match", "create"} => dispatch[d].at = Nobody
  /\ dispatch[d].step \in {"send", "record"} =>
       /\ dispatch[d].at \in dispatch[d].todo
       /\ delivery[d][dispatch[d].at] \in {"pending", "deleted"}
  /\ dispatch[d].step = "send" => received[d][dispatch[d].at] = 0
  /\ dispatch[d].step = "record" /\ dispatch[d].ok =>
       received[d][dispatch[d].at] = 1

(* Which rows say pending.                                                 *)
PendingRows(d) ==
  LET pending == {e \in Endpoints : delivery[d][e] = "pending"}
  IN  /\ dispatch[d].step = "done" => \A e, f \in pending : e = f
      /\ d \notin restarted => pending \subseteq {dispatch[d].at}

(* What a dispatch that is done has settled.                               *)
AllTold(d) ==
  dispatch[d].step = "done" =>
    \/ d \in restarted
    \/ \E e \in matched[d] : endpoint[e] = "deleted"
    \/ \A e \in matched[d] : delivery[d][e] \in {"succeeded", "failed"}

Sound(d) == Truthful(d) /\ Place(d) /\ PendingRows(d) /\ AllTold(d)

WebhooksInv == WebhooksTypeOK /\ \A d \in Dispatches : Sound(d)

LEMMA InitWebhooks == WebhooksInit => WebhooksInv
<1> SUFFICES ASSUME WebhooksInit PROVE WebhooksInv
  OBVIOUS
<1> USE DEF WebhooksInit
<1>1. WebhooksTypeOK
  BY DEF WebhooksTypeOK, NoDispatch, Phases, DeliveryRows
<1>2. ASSUME NEW d \in Dispatches PROVE Sound(d)
  <2>1. dispatch[d].step = "idle" /\ dispatch[d].at = Nobody
    BY DEF NoDispatch
  <2>2. \A e \in Endpoints : delivery[d][e] = "none" /\ received[d][e] = 0
    OBVIOUS
  <2> QED BY <2>1, <2>2 DEF Sound, Truthful, Place, Going, Fresh, PendingRows, AllTold
<1> QED BY <1>1, <1>2 DEF WebhooksInv

-----------------------------------------------------------------------------
(* What a step leaves alone *)

(* A step of a dispatch d: its own rows, and no endpoint.                  *)
LEMMA OthersStay ==
  ASSUME WebhooksInv, NEW d \in Dispatches, endpoint' = endpoint,
         \A x \in Dispatches \ {d} :
           /\ dispatch'[x] = dispatch[x] /\ delivery'[x] = delivery[x]
           /\ received'[x] = received[x] /\ matched'[x] = matched[x]
           /\ x \in restarted' <=> x \in restarted
  PROVE  \A x \in Dispatches \ {d} : Sound(x)'
<1> TAKE x \in Dispatches \ {d}
<1>1. Sound(x)
  BY DEF WebhooksInv
<1>2. Truthful(x)'
  BY <1>1 DEF Sound, Truthful
<1>3. Place(x)'
  BY <1>1 DEF Sound, Place, Going, Fresh, Settled
<1>4. PendingRows(x)' /\ AllTold(x)'
  BY <1>1 DEF Sound, PendingRows, AllTold
<1> QED BY <1>2, <1>3, <1>4 DEF Sound

(* The local state of a dispatch.                                          *)
Position == [step : Phases, todo : SUBSET Endpoints,
             at : Endpoints \union {Nobody}, ok : BOOLEAN]

LEMMA Put ==
  ASSUME dispatch \in [Dispatches -> Position], NEW d \in Dispatches,
         NEW q \in Position, dispatch' = [dispatch EXCEPT ![d] = q]
  PROVE  /\ dispatch' \in [Dispatches -> Position]
         /\ dispatch'[d] = q
         /\ \A y \in Dispatches \ {d} : dispatch'[y] = dispatch[y]
OBVIOUS

LEMMA Continued ==
  ASSUME WebhooksTypeOK, NEW d \in Dispatches, NEW rest \in SUBSET Endpoints,
         Continue(d, rest)
  PROVE  /\ dispatch' \in [Dispatches -> Position]
         /\ dispatch'[d].step = IF rest = {} THEN "done" ELSE "create"
         /\ dispatch'[d].todo = rest /\ dispatch'[d].at = Nobody
         /\ \A y \in Dispatches \ {d} : dispatch'[y] = dispatch[y]
<1> DEFINE x == IF rest = {} THEN "done" ELSE "create"
           q == [NoDispatch EXCEPT !.step = x, !.todo = rest]
<1>1. dispatch \in [Dispatches -> Position] /\ x \in Phases
  BY DEF WebhooksTypeOK, Position, Phases
<1>2. dispatch' = [dispatch EXCEPT ![d] = q]
  BY DEF Continue
<1> HIDE DEF x
<1>3. q \in Position /\ q.step = x /\ q.todo = rest /\ q.at = Nobody
  BY <1>1 DEF NoDispatch, Position
<1> HIDE DEF q
<1>4. /\ dispatch' \in [Dispatches -> Position]
      /\ dispatch'[d] = q
      /\ \A y \in Dispatches \ {d} : dispatch'[y] = dispatch[y]
  BY <1>1, <1>2, <1>3, Put
<1> QED BY <1>3, <1>4 DEF x

-----------------------------------------------------------------------------
(* Administration *)

LEMMA EndpointsKeep ==
  ASSUME WebhooksInv, NEW e \in Endpoints, CreateEndpoint(e) \/ UpdateEndpoint(e)
  PROVE  WebhooksInv'
<1>1. UNCHANGED <<delivery, received, dispatch, matched, restarted>>
  BY DEF CreateEndpoint, UpdateEndpoint
<1>2. /\ endpoint' \in [Endpoints -> {"absent", "enabled", "disabled", "deleted"}]
      /\ \A f \in Endpoints : endpoint[f] = "deleted" => endpoint'[f] = "deleted"
  BY DEF CreateEndpoint, UpdateEndpoint, WebhooksInv, WebhooksTypeOK
<1>3. WebhooksTypeOK'
  BY <1>1, <1>2 DEF WebhooksInv, WebhooksTypeOK
<1>4. ASSUME NEW d \in Dispatches PROVE Sound(d)'
  <2>1. Sound(d) /\ matched[d] \subseteq Endpoints
    BY DEF WebhooksInv, WebhooksTypeOK
  <2>2. Truthful(d)'
    BY <2>1, <1>1, <1>2 DEF Sound, Truthful
  <2>3. Place(d)'
    BY <2>1, <1>1, <1>2 DEF Sound, Place, Going, Fresh, Settled
  <2>4. PendingRows(d)' /\ AllTold(d)'
    BY <2>1, <1>1, <1>2 DEF Sound, PendingRows, AllTold
  <2> QED BY <2>2, <2>3, <2>4 DEF Sound
<1> QED BY <1>3, <1>4 DEF WebhooksInv

LEMMA DeleteKeeps ==
  ASSUME WebhooksInv, NEW e \in Endpoints, DeleteEndpoint(e)
  PROVE  WebhooksInv'
<1>1. UNCHANGED <<received, dispatch, matched, restarted>>
  BY DEF DeleteEndpoint
<1>2. /\ endpoint' \in [Endpoints -> {"absent", "enabled", "disabled", "deleted"}]
      /\ endpoint'[e] = "deleted"
      /\ \A f \in Endpoints : endpoint[f] = "deleted" => endpoint'[f] = "deleted"
  BY DEF DeleteEndpoint, WebhooksInv, WebhooksTypeOK
<1>3. \A d \in Dispatches :
        /\ delivery'[d] \in [Endpoints -> DeliveryRows]
        /\ \A f \in Endpoints \ {e} : delivery'[d][f] = delivery[d][f]
        /\ delivery'[d][e] = IF delivery[d][e] = "none" THEN "none" ELSE "deleted"
  BY DEF DeleteEndpoint, WebhooksInv, WebhooksTypeOK, DeliveryRows
<1>4. WebhooksTypeOK'
  <2>1. delivery' = [d \in Dispatches |-> delivery'[d]]
    BY DEF DeleteEndpoint
  <2>2. delivery' \in [Dispatches -> [Endpoints -> DeliveryRows]]
    BY <1>3, <2>1
  <2> QED BY <1>1, <1>2, <2>2 DEF WebhooksInv, WebhooksTypeOK
<1>5. ASSUME NEW d \in Dispatches PROVE Sound(d)'
  <2>1. Sound(d) /\ matched[d] \subseteq Endpoints /\ dispatch[d].todo \subseteq Endpoints
    BY DEF WebhooksInv, WebhooksTypeOK
  <2>2. Truthful(d)'
    BY <2>1, <1>1, <1>2, <1>3 DEF Sound, Truthful
  <2>3. Place(d)'
    BY <2>1, <1>1, <1>2, <1>3 DEF Sound, Place, Going, Fresh, Settled
  <2>4. PendingRows(d)'
    BY <2>1, <1>1, <1>2, <1>3 DEF Sound, PendingRows
  <2>5. AllTold(d)'
    BY <2>1, <1>1, <1>2, <1>3 DEF Sound, AllTold
  <2> QED BY <2>2, <2>3, <2>4, <2>5 DEF Sound
<1> QED BY <1>4, <1>5 DEF WebhooksInv

-----------------------------------------------------------------------------
(* A dispatch *)

LEMMA StartKeeps ==
  ASSUME WebhooksInv, NEW d \in Dispatches, StartDispatch(d)
  PROVE  WebhooksInv'
<1>1. UNCHANGED <<endpoint, delivery, received, matched, restarted>>
  BY DEF StartDispatch
<1>2. /\ dispatch' \in [Dispatches -> Position]
      /\ dispatch'[d].step = "match" /\ dispatch'[d].at = Nobody
      /\ dispatch[d].step = "idle"
      /\ \A y \in Dispatches \ {d} : dispatch'[y] = dispatch[y]
  <2> DEFINE q == [dispatch[d] EXCEPT !.step = "match"]
  <2>1. /\ dispatch \in [Dispatches -> Position] /\ dispatch[d] \in Position
        /\ "match" \in Phases
    BY DEF WebhooksInv, WebhooksTypeOK, Position, Phases
  <2>2. dispatch[d].step = "idle" /\ dispatch[d].at = Nobody
    BY DEF StartDispatch, NoDispatch
  <2>3. dispatch' = [dispatch EXCEPT ![d] = q]
    BY DEF StartDispatch
  <2>4. q \in Position /\ q.step = "match" /\ q.at = Nobody
    BY <2>1, <2>2 DEF Position
  <2> HIDE DEF q
  <2> QED BY <2>1, <2>2, <2>3, <2>4, Put
<1>3. WebhooksTypeOK'
  BY <1>1, <1>2 DEF WebhooksInv, WebhooksTypeOK, Position
<1>4. Sound(d)'
  BY <1>1, <1>2 DEF WebhooksInv, Sound, Truthful, Place, Going, Fresh, PendingRows, AllTold
<1> QED BY <1>1, <1>2, <1>3, <1>4, OthersStay DEF WebhooksInv

LEMMA MatchKeeps ==
  ASSUME WebhooksInv, NEW d \in Dispatches, MatchEndpoints(d)
  PROVE  WebhooksInv'
<1> DEFINE found == {e \in Endpoints : endpoint[e] = "enabled"}
<1>1. /\ dispatch[d].step = "match"
      /\ UNCHANGED <<endpoint, delivery, received, restarted>>
      /\ Continue(d, found) /\ found \in SUBSET Endpoints
  BY DEF MatchEndpoints
<1>2. /\ matched' \in [Dispatches -> SUBSET Endpoints]
      /\ matched'[d] = found
      /\ \A y \in Dispatches \ {d} : matched'[y] = matched[y]
  BY DEF MatchEndpoints, WebhooksInv, WebhooksTypeOK
<1> HIDE DEF found
<1>3. /\ dispatch' \in [Dispatches -> Position]
      /\ dispatch'[d].step = IF found = {} THEN "done" ELSE "create"
      /\ dispatch'[d].todo = found /\ dispatch'[d].at = Nobody
      /\ \A y \in Dispatches \ {d} : dispatch'[y] = dispatch[y]
  BY <1>1, Continued DEF WebhooksInv
<1>4. WebhooksTypeOK'
  BY <1>1, <1>2, <1>3 DEF WebhooksInv, WebhooksTypeOK, Position
<1>5. Sound(d) /\ d \notin restarted /\ \A e \in Endpoints : Fresh(d, e)
  BY <1>1 DEF WebhooksInv, Sound, Place
<1>6. Truthful(d)' /\ PendingRows(d)' /\ AllTold(d)'
  BY <1>1, <1>2, <1>3, <1>5 DEF Sound, Truthful, PendingRows, AllTold, Fresh
<1>7. Place(d)'
  BY <1>1, <1>2, <1>3, <1>5 DEF Place, Going, Fresh, Settled
<1> QED BY <1>1, <1>2, <1>3, <1>4, <1>6, <1>7, OthersStay DEF WebhooksInv, Sound

(* The row of e becomes x.                                                 *)
LEMMA RowWritten ==
  ASSUME WebhooksTypeOK, NEW d \in Dispatches, NEW e \in Endpoints,
         NEW x \in DeliveryRows, delivery' = [delivery EXCEPT ![d][e] = x]
  PROVE  /\ delivery' \in [Dispatches -> [Endpoints -> DeliveryRows]]
         /\ delivery'[d][e] = x
         /\ \A f \in Endpoints \ {e} : delivery'[d][f] = delivery[d][f]
         /\ \A y \in Dispatches \ {d} : delivery'[y] = delivery[y]
BY DEF WebhooksTypeOK

(* An exception: some endpoint that was found is deleted by now.           *)
LEMMA ThrowKeeps ==
  ASSUME WebhooksInv, NEW d \in Dispatches, Going(d), Throw(d),
         UNCHANGED <<endpoint, delivery, received, matched, restarted>>,
         NEW e \in Endpoints, e \in dispatch[d].todo, endpoint[e] = "deleted",
         \A f \in Endpoints : delivery[d][f] # "pending"
  PROVE  WebhooksInv'
<1>1. /\ dispatch' \in [Dispatches -> Position]
      /\ dispatch'[d].step = "done" /\ dispatch'[d].at = Nobody
      /\ \A y \in Dispatches \ {d} : dispatch'[y] = dispatch[y]
  BY Continued DEF WebhooksInv, Throw
<1>2. WebhooksTypeOK'
  BY <1>1 DEF WebhooksInv, WebhooksTypeOK, Position
<1>3. Sound(d) /\ e \in matched[d]
  BY DEF WebhooksInv, Sound, Place
<1>4. Truthful(d)' /\ PendingRows(d)' /\ AllTold(d)'
  BY <1>1, <1>3 DEF Sound, Truthful, PendingRows, AllTold
<1>5. Place(d)'
  BY <1>1, <1>3 DEF Sound, Place, Going, Fresh, Settled
<1> QED BY <1>1, <1>2, <1>4, <1>5, OthersStay DEF WebhooksInv, Sound

LEMMA CreateKeeps ==
  ASSUME WebhooksInv, NEW d \in Dispatches, CreateDelivery(d)
  PROVE  WebhooksInv'
<1>1. /\ dispatch[d].step = "create" /\ dispatch[d].todo \subseteq Endpoints
      /\ UNCHANGED <<endpoint, received, matched, restarted>>
  BY DEF CreateDelivery, WebhooksInv, WebhooksTypeOK
<1>2. PICK e \in dispatch[d].todo :
        IF endpoint[e] = "deleted"
        THEN Throw(d) /\ UNCHANGED delivery
        ELSE /\ delivery' = [delivery EXCEPT ![d][e] = "pending"]
             /\ dispatch' = [dispatch EXCEPT ![d].step = "send", ![d].at = e]
  BY DEF CreateDelivery
<1>3. Sound(d) /\ Going(d) /\ d \notin restarted /\ dispatch[d].at = Nobody
      /\ Nobody \notin Endpoints
  BY <1>1, EndpointsAssumption DEF WebhooksInv, Sound, Place, Going
<1>4. \A f \in Endpoints : delivery[d][f] # "pending"
  BY <1>3 DEF Sound, PendingRows
<1>5. e \in Endpoints /\ Fresh(d, e) /\ e \in matched[d]
  BY <1>1, <1>2, <1>3 DEF Sound, Place
<1>6. CASE endpoint[e] = "deleted"
  BY <1>1, <1>2, <1>3, <1>4, <1>5, <1>6, ThrowKeeps
<1>7. CASE endpoint[e] # "deleted"
  <2> DEFINE q == [dispatch[d] EXCEPT !.step = "send", !.at = e]
  <2>1. /\ dispatch \in [Dispatches -> Position] /\ dispatch[d] \in Position
        /\ "send" \in Phases
    BY DEF WebhooksInv, WebhooksTypeOK, Position, Phases
  <2>2. q \in Position /\ q.step = "send" /\ q.at = e
        /\ q.todo = dispatch[d].todo
    BY <2>1, <1>5 DEF Position
  <2>3. dispatch' = [dispatch EXCEPT ![d] = q]
    BY <1>2, <1>7
  <2> HIDE DEF q
  <2>4. /\ dispatch' \in [Dispatches -> Position]
        /\ dispatch'[d] = q
        /\ \A y \in Dispatches \ {d} : dispatch'[y] = dispatch[y]
    BY <2>1, <2>2, <2>3, Put
  <2>5. /\ delivery' \in [Dispatches -> [Endpoints -> DeliveryRows]]
        /\ delivery'[d][e] = "pending"
        /\ \A f \in Endpoints \ {e} : delivery'[d][f] = delivery[d][f]
        /\ \A y \in Dispatches \ {d} : delivery'[y] = delivery[y]
    <3>1. "pending" \in DeliveryRows
      BY DEF DeliveryRows
    <3> QED BY <3>1, <1>2, <1>5, <1>7, RowWritten DEF WebhooksInv
  <2>6. WebhooksTypeOK'
    BY <1>1, <2>4, <2>5 DEF WebhooksInv, WebhooksTypeOK, Position
  <2>7. Truthful(d)'
    BY <1>1, <1>3, <1>5, <2>5 DEF Sound, Truthful, Fresh
  <2>8. PendingRows(d)' /\ AllTold(d)'
    BY <1>1, <1>3, <1>4, <2>2, <2>4, <2>5 DEF PendingRows, AllTold
  <2>9. Place(d)'
    <3>1. \A f \in matched[d] \ dispatch[d].todo : Settled(d, f)'
      BY <1>1, <1>2, <1>3, <2>5 DEF Sound, Place, Going, Settled, WebhooksInv, WebhooksTypeOK
    <3>2. \A f \in dispatch[d].todo : f = e \/ Fresh(d, f)'
      BY <1>1, <1>2, <1>3, <2>5 DEF Sound, Place, Going, Fresh
    <3> QED BY <1>1, <1>2, <1>3, <1>5, <2>2, <2>4, <2>5, <3>1, <3>2
         DEF Sound, Place, Going, Fresh
  <2> QED BY <1>1, <2>4, <2>5, <2>6, <2>7, <2>8, <2>9, OthersStay DEF WebhooksInv, Sound
<1> QED BY <1>6, <1>7

LEMMA SendKeeps ==
  ASSUME WebhooksInv, NEW d \in Dispatches, Send(d)
  PROVE  WebhooksInv'
<1> DEFINE e == dispatch[d].at
<1>1. /\ dispatch[d].step = "send"
      /\ UNCHANGED <<endpoint, delivery, matched, restarted>>
  BY DEF Send
<1>2. PICK acts \in BOOLEAN, ok \in BOOLEAN :
        /\ ok => acts
        /\ received' = [received EXCEPT ![d][e] = IF acts THEN @ + 1 ELSE @]
        /\ dispatch' = [dispatch EXCEPT ![d].step = "record", ![d].ok = ok]
  BY DEF Send
<1>3. /\ Sound(d) /\ Going(d) /\ d \notin restarted
      /\ e \in dispatch[d].todo /\ dispatch[d].todo \subseteq Endpoints
      /\ received[d][e] = 0 /\ delivery[d][e] \in {"pending", "deleted"}
  BY <1>1 DEF WebhooksInv, WebhooksTypeOK, Sound, Place, Going
<1> DEFINE q == [dispatch[d] EXCEPT !.step = "record", !.ok = ok]
<1>4. /\ dispatch \in [Dispatches -> Position] /\ dispatch[d] \in Position
      /\ "record" \in Phases
  BY DEF WebhooksInv, WebhooksTypeOK, Position, Phases
<1>5. q \in Position /\ q.step = "record" /\ q.at = e
      /\ q.todo = dispatch[d].todo /\ q.ok = ok
  BY <1>4 DEF Position
<1>6. dispatch' = [dispatch EXCEPT ![d] = q]
  BY <1>2
<1> HIDE DEF q
<1>7. /\ dispatch' \in [Dispatches -> Position]
      /\ dispatch'[d] = q
      /\ \A y \in Dispatches \ {d} : dispatch'[y] = dispatch[y]
  BY <1>4, <1>5, <1>6, Put
<1>8. /\ received' \in [Dispatches -> [Endpoints -> Nat]]
      /\ received'[d][e] = IF acts THEN 1 ELSE 0
      /\ \A f \in Endpoints \ {e} : received'[d][f] = received[d][f]
      /\ \A y \in Dispatches \ {d} : received'[y] = received[y]
  BY <1>2, <1>3 DEF WebhooksInv, WebhooksTypeOK
<1>9. WebhooksTypeOK'
  BY <1>1, <1>7, <1>8 DEF WebhooksInv, WebhooksTypeOK, Position
<1>10. Truthful(d)'
  BY <1>1, <1>3, <1>8 DEF Sound, Truthful
<1>11. PendingRows(d)' /\ AllTold(d)'
  BY <1>1, <1>3, <1>5, <1>7 DEF Sound, PendingRows, AllTold
<1>12. Place(d)'
  <2>1. \A f \in matched[d] \ dispatch[d].todo : Settled(d, f)'
    BY <1>1, <1>3 DEF Sound, Place, Going, Settled
  <2>2. \A f \in dispatch[d].todo : f = e \/ Fresh(d, f)'
    BY <1>1, <1>3, <1>8 DEF Sound, Place, Going, Fresh
  <2>3. dispatch'[d].ok => received'[d][e] = 1
    BY <1>2, <1>5, <1>7, <1>8
  <2> QED BY <1>1, <1>3, <1>5, <1>7, <2>1, <2>2, <2>3
       DEF Sound, Place, Going
<1> QED BY <1>1, <1>7, <1>8, <1>9, <1>10, <1>11, <1>12, OthersStay DEF WebhooksInv, Sound

LEMMA RecordKeeps ==
  ASSUME WebhooksInv, NEW d \in Dispatches, Record(d)
  PROVE  WebhooksInv'
<1> DEFINE e == dispatch[d].at
           rest == dispatch[d].todo \ {e}
           x == IF dispatch[d].ok THEN "succeeded" ELSE "failed"
<1>1. /\ dispatch[d].step = "record"
      /\ UNCHANGED <<endpoint, received, matched, restarted>>
  BY DEF Record
<1>2. /\ Sound(d) /\ Going(d) /\ d \notin restarted
      /\ e \in dispatch[d].todo /\ dispatch[d].todo \subseteq Endpoints
      /\ delivery[d][e] \in {"pending", "deleted"}
      /\ dispatch[d].ok => received[d][e] = 1
  BY <1>1 DEF WebhooksInv, WebhooksTypeOK, Sound, Place, Going
<1>3. \A f \in Endpoints \ {e} : delivery[d][f] # "pending"
  BY <1>2 DEF Sound, PendingRows
<1>4. CASE delivery[d][e] = "deleted"
  <2>1. Throw(d) /\ UNCHANGED delivery
    BY <1>4 DEF Record
  <2>2. endpoint[e] = "deleted" /\ e \in Endpoints
    BY <1>2, <1>4 DEF Sound, Truthful
  <2> QED BY <1>1, <1>2, <1>3, <1>4, <2>1, <2>2, ThrowKeeps
<1>5. CASE delivery[d][e] = "pending"
  <2>1. delivery' = [delivery EXCEPT ![d][e] = x] /\ Continue(d, rest)
    BY <1>5 DEF Record
  <2>2. /\ x \in DeliveryRows /\ x \in {"succeeded", "failed"}
        /\ x = "succeeded" => received[d][e] = 1
    BY <1>2 DEF DeliveryRows
  <2> HIDE DEF x
  <2>3. /\ delivery' \in [Dispatches -> [Endpoints -> DeliveryRows]]
        /\ delivery'[d][e] = x
        /\ \A f \in Endpoints \ {e} : delivery'[d][f] = delivery[d][f]
        /\ \A y \in Dispatches \ {d} : delivery'[y] = delivery[y]
    BY <1>2, <2>1, <2>2, RowWritten DEF WebhooksInv
  <2>4. rest \in SUBSET Endpoints
    BY <1>2
  <2>5. /\ dispatch' \in [Dispatches -> Position]
        /\ dispatch'[d].step = IF rest = {} THEN "done" ELSE "create"
        /\ dispatch'[d].todo = rest /\ dispatch'[d].at = Nobody
        /\ \A y \in Dispatches \ {d} : dispatch'[y] = dispatch[y]
    BY <2>1, <2>4, Continued DEF WebhooksInv
  <2>6. WebhooksTypeOK'
    BY <1>1, <2>3, <2>5 DEF WebhooksInv, WebhooksTypeOK, Position
  <2>7. Truthful(d)'
    BY <1>1, <1>2, <2>2, <2>3 DEF Sound, Truthful
  <2>8. \A f \in Endpoints : delivery'[d][f] # "pending"
    BY <1>3, <2>2, <2>3
  <2>9. PendingRows(d)'
    BY <2>8 DEF PendingRows
  <2>10. \A f \in matched[d] \ rest : Settled(d, f)'
    BY <1>1, <1>2, <2>2, <2>3 DEF Sound, Place, Going, Settled, WebhooksInv, WebhooksTypeOK
  <2>11. AllTold(d)'
    BY <1>1, <2>5, <2>10 DEF AllTold, Settled
  <2>12. Place(d)'
    <3>1. \A f \in rest : Fresh(d, f)'
      BY <1>1, <1>2, <2>3 DEF Sound, Place, Going, Fresh
    <3>2. rest \subseteq matched[d]
      BY <1>2 DEF Sound, Place
    <3> QED BY <1>1, <1>2, <2>5, <2>10, <3>1, <3>2 DEF Place, Going
  <2> QED BY <1>1, <2>3, <2>5, <2>6, <2>7, <2>9, <2>11, <2>12, OthersStay
       DEF WebhooksInv, Sound
<1> QED BY <1>2, <1>4, <1>5

LEMMA RestartKeeps ==
  ASSUME WebhooksInv, RestartServer
  PROVE  WebhooksInv'
<1>1. UNCHANGED <<endpoint, delivery, received, matched>>
  BY DEF RestartServer
<1>2. /\ restarted' \subseteq Dispatches
      /\ \A d \in Dispatches : d \in restarted' <=> d \in restarted \/ Running(d)
  BY DEF RestartServer, WebhooksInv, WebhooksTypeOK
<1> DEFINE q == [NoDispatch EXCEPT !.step = "done"]
<1>3. q \in Position /\ q.step = "done" /\ q.at = Nobody
  BY DEF Position, NoDispatch, Phases
<1>4. dispatch' = [d \in Dispatches |-> IF Running(d) THEN q ELSE dispatch[d]]
  BY DEF RestartServer
<1> HIDE DEF q
<1>5. dispatch' \in [Dispatches -> Position]
  BY <1>3, <1>4 DEF WebhooksInv, WebhooksTypeOK, Position
<1>6. WebhooksTypeOK'
  BY <1>1, <1>2, <1>5 DEF WebhooksInv, WebhooksTypeOK, Position
<1>7. ASSUME NEW d \in Dispatches PROVE Sound(d)'
  <2>1. Sound(d) /\ Truthful(d)'
    BY <1>1 DEF WebhooksInv, Sound, Truthful
  <2>2. CASE Running(d)
    <3>1. dispatch'[d].step = "done" /\ d \in restarted' /\ d \notin restarted
      BY <1>2, <1>3, <1>4, <2>1, <2>2 DEF Sound, Place, Running
    <3>2. Place(d)' /\ AllTold(d)'
      BY <3>1 DEF Place, Going, AllTold
    <3>3. PendingRows(d)'
      BY <3>1, <2>1, <1>1 DEF Sound, PendingRows
    <3> QED BY <2>1, <3>2, <3>3 DEF Sound
  <2>3. CASE ~Running(d)
    <3>1. dispatch'[d] = dispatch[d] /\ (d \in restarted' <=> d \in restarted)
      BY <1>2, <1>4, <2>3
    <3>2. Place(d)'
      BY <1>1, <2>1, <3>1 DEF Sound, Place, Going, Fresh, Settled
    <3>3. PendingRows(d)' /\ AllTold(d)'
      BY <1>1, <2>1, <3>1 DEF Sound, PendingRows, AllTold
    <3> QED BY <2>1, <3>2, <3>3 DEF Sound
  <2> QED BY <2>2, <2>3
<1> QED BY <1>6, <1>7 DEF WebhooksInv

-----------------------------------------------------------------------------
(* The invariant *)

LEMMA NextKeeps == WebhooksInv /\ [WebhooksNext]_webhookVars => WebhooksInv'
<1> SUFFICES ASSUME WebhooksInv, [WebhooksNext]_webhookVars PROVE WebhooksInv'
  OBVIOUS
<1>1. CASE \E e \in Endpoints :
             CreateEndpoint(e) \/ UpdateEndpoint(e) \/ DeleteEndpoint(e)
  BY <1>1, EndpointsKeep, DeleteKeeps
<1>2. CASE \E d \in Dispatches : StartDispatch(d) \/ DispatchStep(d)
  BY <1>2, StartKeeps, MatchKeeps, CreateKeeps, SendKeeps, RecordKeeps
     DEF DispatchStep
<1>3. CASE RestartServer
  BY <1>3, RestartKeeps
<1>4. CASE UNCHANGED webhookVars
  BY <1>4 DEF webhookVars, WebhooksInv, WebhooksTypeOK, Sound, Truthful, Place, Going,
       Fresh, Settled, PendingRows, AllTold
<1> QED BY <1>1, <1>2, <1>3, <1>4 DEF WebhooksNext

LEMMA Invariant == WebhooksSpec => []WebhooksInv
BY InitWebhooks, NextKeeps, PTL DEF WebhooksSpec

(* The variables have their types, whatever happens to endpoints and the   *)
(* server.                                                                 *)
THEOREM WebhooksTypeCorrect == WebhooksSpec => []WebhooksTypeOK
<1>1. WebhooksInv => WebhooksTypeOK
  BY DEF WebhooksInv
<1> QED BY <1>1, Invariant, PTL

LEMMA Truth == WebhooksInv => DeliveriesAreTruthful
<1> SUFFICES ASSUME WebhooksInv, NEW d \in Dispatches
             PROVE  LET pending == {e \in Endpoints : delivery[d][e] = "pending"}
                    IN  /\ IF d \in restarted
                           THEN \A e, f \in pending : e = f
                           ELSE pending \subseteq {dispatch[d].at}
                        /\ \A e \in Endpoints :
                             /\ received[d][e] <= 1
                             /\ received[d][e] = 1 => delivery[d][e] # "none"
                             /\ delivery[d][e] = "succeeded" => received[d][e] = 1
  BY DEF DeliveriesAreTruthful
<1>1. Sound(d)
  BY DEF WebhooksInv
<1> QED BY <1>1 DEF Sound, Truthful, Place, PendingRows

(* A receiver acts at most once on an event and never without a row; a row *)
(* that says it succeeded does not lie, and one that says pending is under *)
(* way or was cut off by a restart.  A dispatch that is done has settled   *)
(* with every endpoint it found, or a restart cut it off, or one of them   *)
(* was deleted meanwhile (DispatchesAreTruthful).                          *)
THEOREM Settles == WebhooksSpec => []DispatchesAreTruthful
<1>1. WebhooksInv => NoneSkipped
  BY DEF WebhooksInv, Sound, AllTold, NoneSkipped
<1>2. WebhooksInv => DispatchesAreTruthful
  BY <1>1, Truth DEF DispatchesAreTruthful
<1> QED BY <1>2, Invariant, PTL
=============================================================================
