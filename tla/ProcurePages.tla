---------------------------- MODULE ProcurePages ----------------------------
(***************************************************************************)
(* The pages of the web application over purchase requests, orders and     *)
(* accruals, contracts, and one contract (PurchaseRequestsPage,            *)
(* PurchaseOrdersPage, ContractsPage, ContractWorkspacePage).  They work   *)
(* alike: a page loads a list and shows for each row the buttons of its    *)
(* status; a button sets busy, calls the API, loads the list again and     *)
(* clears busy; a form for one row is filled when it opens, and React      *)
(* keeps what it holds until it is closed.                                 *)
(*                                                                         *)
(* One user has one page open; others change the same documents.  A call   *)
(* holds where it goes on and what it was made from.                       *)
(*                                                                         *)
(* A definition Name_Slip is Name with a plausible slip, which a property  *)
(* below must catch; nothing refers to it.                                 *)
(*                                                                         *)
(* Abstractions: the state of a signature and the link to an order are     *)
(* part of the status of a document; the length of an approval chain is    *)
(* open; what a form holds is valid, and the numbers of new documents are  *)
(* free; the tables of a list are read at once; the API serves a call at   *)
(* once, its inner steps are the subject of other modules.  Calls that no  *)
(* page offers are left out, and those that leave status and fields alone. *)
(***************************************************************************)
EXTENDS Naturals, FiniteSets

CONSTANTS
  Docs,    \* the documents
  Calls,   \* slots for calls under way
  Nobody,  \* no document
  MaxSteps \* bound: what the user and the others do

ASSUME DocsAssumption == Nobody \notin Docs /\ MaxSteps \in Nat

VARIABLES
  kind,     \* the page
  docs,     \* the rows of the database
  rows,     \* the state rows (contract, on the page of one)
  busy,     \* the state busy
  editing,  \* the state editingId
  held,     \* the document whose values the open form holds
  call,     \* the calls under way
  steps,    \* history: how much was done
  vain,     \* history: which buttons were refused, and in which status, on a
            \*   document that nobody else had interfered with
  troubled, \* history: a call got lost, an older list came in late, or the
            \*   user went on beside a call
  switched  \* history: a form was opened while that of another row was open,
            \*   or saved after its contract had expired under it

procureVars == <<kind, docs, rows, busy, editing, held, call, steps, vain,
                 troubled, switched>>

-----------------------------------------------------------------------------
(* What the API accepts: from which status to which *)

Transit(op, from, to) == {<<op, f, t>> : f \in from, t \in to}

RequestMoves ==
  Transit("accept", {"proposed"}, {"in_approval"}) \union
  Transit("create", {"absent"}, {"draft"}) \union
  Transit("submit", {"draft"}, {"in_approval"}) \union
  Transit("approve", {"in_approval"}, {"approved"}) \union
  Transit("back", {"in_approval"}, {"draft"}) \union
  Transit("cancel", {"draft", "in_approval", "approved", "ordered"},
        {"cancelled"}) \union
  Transit("order", {"approved"}, {"ordered"})
RequestConversion == Transit("convert", {"approved"}, {"converted"})
RequestUpdate == Transit("edit", {"draft"}, {"draft"})

OrderMoves ==
  Transit("create", {"absent"}, {"draft"}) \union
  Transit("issue", {"draft"}, {"issued"}) \union
  Transit("cancel", {"draft", "issued", "partially_received"}, {"cancelled"})
    \union
  Transit("receive", {"issued", "partially_received"},
        {"partially_received", "received"}) \union
  Transit("close", {"received"}, {"closed"})
OrderUpdate == Transit("edit", {"draft"}, {"draft"})

AccrualMoves ==
  Transit("generate", {"absent", "draft"}, {"draft"}) \union
  Transit("send", {"draft"}, {"in_approval"}) \union
  Transit("advance", {"in_approval"}, {"in_approval", "approved"}) \union
  Transit("post", {"approved"}, {"posted"})

AgreementMoves ==
  Transit("create", {"absent"}, {"draft"}) \union
  Transit("back", {"in_approval"}, {"draft"}) \union
  Transit("cancel", {"draft", "in_approval", "unsent", "sent", "signed",
                   "active"}, {"cancelled"}) \union
  Transit("expire", {"active"}, {"expired"})
AgreementApproval ==
  Transit("send", {"draft"}, {"in_approval"}) \union
  Transit("advance", {"in_approval"}, {"in_approval", "unsent"})
AgreementSignature ==
  Transit("sendOut", {"unsent", "sent"}, {"sent"}) \union
  Transit("check", {"sent"}, {"sent", "signed"}) \union
  Transit("complete", {"signed"}, {"active"})
AgreementUpdate ==
  Transit("edit", {"draft"}, {"draft"}) \union
  Transit("edit", {"active"}, {"active"}) \union
  Transit("edit", {"expired"}, {"expired"}) \union
  Transit("edit", {"cancelled"}, {"cancelled"})
AgreementAmendment ==
  Transit("amend", {"active"}, {"active"}) \union
  Transit("renew", {"active"}, {"active"})

-----------------------------------------------------------------------------
(* What the pages offer: which button for which status *)

Offer(op, status) == {<<op, s>> : s \in status}

ProposalButtons == Offer("accept", {"proposed"})
RequestComposer == Offer("create", {"absent"})
RequestButtons ==
  Offer("edit", {"draft", "in_approval"}) \union Offer("submit", {"draft"})
    \union Offer("approve", {"in_approval"})
    \union Offer("convert", {"approved"})

OrderComposer == Offer("create", {"absent"})
OrderButtons ==
  Offer("edit", {"draft"}) \union Offer("issue", {"draft"}) \union
  Offer("receive", {"issued", "partially_received"}) \union
  Offer("close", {"received"})

AccrualButtons ==
  Offer("generate", {"absent", "draft"}) \union Offer("send", {"draft"})
    \union Offer("advance", {"in_approval"}) \union Offer("post", {"approved"})

ContractComposer == Offer("create", {"absent"})
ContractButtons ==
  Offer("send", {"draft"}) \union Offer("advance", {"in_approval"})
SignatureButtons ==
  Offer("sendOut", {"unsent"}) \union Offer("check", {"sent"}) \union
  Offer("complete", {"signed"})

WorkspaceButtons ==
  ContractButtons \union SignatureButtons \union
  Offer("cancel", {"draft", "in_approval", "unsent", "sent", "signed",
                   "active"}) \union
  Offer("back", {"in_approval"}) \union Offer("expire", {"active"})
WorkspaceEdits ==
  Offer("edit", {"draft", "in_approval", "active"}) \union
  Offer("renew", {"active"})

Saves == {"edit", "amend"}

(* Those calls of the workspace that do not set busy.                      *)
Unguarded == {"cancel", "back", "expire", "renew"}

Kinds == {"requests", "orders", "accruals", "contracts", "contract"}

Accepted ==
  CASE kind = "requests" -> RequestMoves \union RequestConversion
                              \union RequestUpdate
    [] kind = "orders" -> OrderMoves \union OrderUpdate
    [] kind = "accruals" -> AccrualMoves
    [] OTHER -> AgreementMoves \union AgreementApproval
                  \union AgreementSignature \union AgreementUpdate
                  \union AgreementAmendment

Offered ==
  CASE kind = "requests" -> ProposalButtons \union RequestComposer
                              \union RequestButtons
    [] kind = "orders" -> OrderComposer \union OrderButtons
    [] kind = "accruals" -> AccrualButtons
    [] kind = "contracts" -> ContractComposer \union ContractButtons
                               \union SignatureButtons
    [] kind = "contract" -> WorkspaceButtons \union WorkspaceEdits

Statuses == {m[2] : m \in Accepted} \union {m[3] : m \in Accepted}
Workspace == kind = "contract"

(* Whatever the page, what the API accepts, and what a document is.        *)
Rule == UNION {RequestMoves, RequestConversion, RequestUpdate, OrderMoves,
               OrderUpdate, AccrualMoves, AgreementMoves, AgreementApproval,
               AgreementSignature, AgreementUpdate, AgreementAmendment}
Document == [says : Docs \union {Nobody}, status : {m[2] : m \in Rule}
               \union {m[3] : m \in Rule}, mine : Nat, theirs : Nat]

(* The state null is no list of documents.                                 *)
ASSUME NullAssumption == Nobody \notin [Docs -> Document]

-----------------------------------------------------------------------------
(* Says whose values a document has; counts who changed it how often.      *)
Doc(d, status) == [says |-> d, status |-> status, mine |-> 0, theirs |-> 0]

NoCall == [then |-> "idle", op |-> "list", doc |-> Nobody, sent |-> Nobody,
          theirs |-> 0, got |-> Nobody, gone |-> FALSE]
Guarded(q) == q.op # "list" /\ ~(Workspace /\ q.op \in Unguarded)
UnderWay(c) == call[c].then # "idle"

(* Free slots differ in nothing: a call takes one of them.                 *)
Free(c) == call[c] = NoCall /\ c = (CHOOSE x \in Calls : call[x] = NoCall)

(* The page opens on documents in any state, and loads them.               *)
ProcureInit ==
  /\ kind \in Kinds
  /\ \E status \in [Docs -> Statuses] : docs = [d \in Docs |-> Doc(d, status[d])]
  /\ rows = Nobody /\ busy = FALSE /\ editing = Nobody /\ held = Nobody
  /\ \E c \in Calls :
       call = [[x \in Calls |-> NoCall] EXCEPT ![c].then = "list"]
  /\ steps = 0 /\ vain = {} /\ troubled = FALSE /\ switched = FALSE

StepTaken == steps < MaxSteps /\ steps' = steps + 1

-----------------------------------------------------------------------------
(* What the user does *)

(* Mounting, another entity, another tab, a search.                        *)
Refresh(c) ==
  /\ ~Workspace /\ Free(c) /\ StepTaken
  /\ call' = [call EXCEPT ![c].then = "list"]
  /\ UNCHANGED <<kind, docs, rows, busy, editing, held, vain, troubled,
                 switched>>

Run(c, op, d, sent) ==
  LET q == [NoCall EXCEPT !.then = "serve", !.op = op, !.doc = d, !.sent = sent,
                         !.theirs = rows[d].theirs]
      beside == {x \in Calls : call[x].op # "list"
                                 /\ ~(Guarded(q) /\ Guarded(call[x]))}
  IN  /\ Free(c) /\ rows # Nobody /\ StepTaken
      /\ call' = [call EXCEPT ![c] = q]
      /\ busy' = (busy \/ Guarded(q))
      /\ troubled' = (troubled \/ beside # {})
      /\ UNCHANGED <<kind, docs, rows, editing, held, vain>>

(* The contract in the address of its page.                                *)
Here == CHOOSE d \in Docs : TRUE

OffersRow(d, op) ==
  /\ rows # Nobody /\ <<op, rows[d].status>> \in Offered
  /\ Workspace => d = Here

PressButton_Twice(c, d, op) ==
  /\ op \notin Saves /\ OffersRow(d, op)
  /\ Run(c, op, d, Nobody)
  /\ UNCHANGED switched

PressButton(c, d, op) ==
  /\ op \notin Saves /\ OffersRow(d, op)
  /\ busy => Workspace /\ op \in Unguarded
  /\ Run(c, op, d, Nobody)
  /\ UNCHANGED switched

(* A form that is open is the same form for another row.                   *)
Edit(d) ==
  /\ OffersRow(d, "edit") /\ (~busy \/ Workspace)
  /\ editing' = d
  /\ held' = IF held = Nobody THEN rows[d].says ELSE held
  /\ switched' = (switched \/ editing \notin {Nobody, d})
  /\ UNCHANGED <<kind, docs, rows, busy, call, steps, vain, troubled>>

CloseForm_Hides ==
  /\ editing' = Nobody
  /\ UNCHANGED <<kind, docs, rows, busy, held, call, steps, vain, troubled,
                 switched>>

CloseForm ==
  /\ editing' = Nobody /\ held' = Nobody
  /\ UNCHANGED <<kind, docs, rows, busy, call, steps, vain, troubled,
                 switched>>

(* Another tab and back: the form of the row is a new one.                 *)
SwitchTab ==
  /\ editing # Nobody /\ ~Workspace
  /\ held' = rows[editing].says
  /\ UNCHANGED <<kind, docs, rows, busy, editing, call, steps, vain, troubled,
                 switched>>

(* An active contract is amended.  The form of one that is neither active  *)
(* nor before its signature has lost most of its fields, and sends them as *)
(* empty.                                                                  *)
OnUpdate(c) ==
  LET active == Workspace /\ rows[editing].status = "active"
      bare == Workspace /\ rows[editing].status
                             \notin {"draft", "in_approval", "active"}
  IN  /\ editing # Nobody /\ ~busy
      /\ Run(c, IF active THEN "amend" ELSE "edit", editing,
             IF bare THEN Nobody ELSE held)
      /\ switched' = (switched \/ bare)

(* Away and back: the states are new, the calls go on without them.        *)
Leave(c) ==
  /\ Free(c) /\ StepTaken
  /\ rows' = Nobody /\ busy' = FALSE /\ editing' = Nobody /\ held' = Nobody
  /\ call' = [x \in Calls |->
       IF x = c THEN [NoCall EXCEPT !.then = "list"]
       ELSE IF UnderWay(x) THEN [call[x] EXCEPT !.gone = TRUE] ELSE NoCall]
  /\ troubled' = (troubled \/ \E x \in Calls : call[x].op # "list")
  /\ UNCHANGED <<kind, docs, vain, switched>>

(* Somebody else moves a document.                                         *)
Other(d) ==
  /\ StepTaken
  /\ \E m \in Accepted :
       /\ m[2] = docs[d].status /\ m[3] # m[2]
       /\ docs' = [docs EXCEPT ![d].status = m[3], ![d].theirs = @ + 1]
  /\ UNCHANGED <<kind, rows, busy, editing, held, call, vain, troubled,
                 switched>>

-----------------------------------------------------------------------------
(* What becomes of a call *)

ServeList(c) ==
  /\ call[c].then = "list"
  /\ call' = [call EXCEPT ![c].then = "rows", ![c].got = docs]
  /\ UNCHANGED <<kind, docs, rows, busy, editing, held, steps, vain, troubled,
                 switched>>

Perform(c) ==
  LET q == call[c]
      doc == docs[q.doc]
  IN  /\ q.then = "serve"
      /\ \E m \in Accepted :
           /\ m[1] = q.op /\ m[2] = doc.status
           /\ docs' = [docs EXCEPT ![q.doc] =
                [doc EXCEPT !.status = m[3], !.mine = @ + 1,
                            !.says = IF q.op \in Saves THEN q.sent ELSE @]]
      /\ call' = [call EXCEPT ![c].then = "done", ![c].got = docs']
      /\ UNCHANGED <<kind, rows, busy, editing, held, steps, vain, troubled,
                     switched>>

(* Whatever was pressed, the save of a form as well.                       *)
Refuse(c) ==
  LET q == call[c]
  IN  /\ q.then = "serve"
      /\ ~\E m \in Accepted : m[1] = q.op /\ m[2] = docs[q.doc].status
      /\ call' = [call EXCEPT ![c].then = "error"]
      /\ vain' = IF docs[q.doc].theirs = q.theirs
                 THEN vain \union {<<q.op, docs[q.doc].status>>} ELSE vain
      /\ UNCHANGED <<kind, docs, rows, busy, editing, held, steps, troubled,
                     switched>>

(* On its way there, or back.                                              *)
Lose(c) ==
  /\ call[c].then \in {"list", "rows", "serve", "done"}
  /\ call' = [call EXCEPT ![c].then = "error"]
  /\ troubled' = (troubled \/ call[c].op # "list")
  /\ UNCHANGED <<kind, docs, rows, busy, editing, held, steps, vain, switched>>

Over(c) ==
  /\ call' = [call EXCEPT ![c] = NoCall]
  /\ busy' = (busy /\ ~(Guarded(call[c]) /\ ~call[c].gone))

Late(got) == rows # Nobody /\ \E d \in Docs : got[d].mine < rows[d].mine

(* The call was accepted: a list is loaded again, a workspace shows the    *)
(* row it was answered.                                                    *)
Done(c) ==
  LET q == call[c]
      closes == q.op \in Saves /\ ~q.gone
  IN  /\ q.then = "done"
      /\ editing' = IF closes THEN Nobody ELSE editing
      /\ held' = IF closes THEN Nobody ELSE held
      /\ IF Workspace /\ ~q.gone
         THEN /\ rows' = q.got /\ troubled' = (troubled \/ Late(q.got))
              /\ call' = [call EXCEPT ![c].then = "sides"]
         ELSE /\ UNCHANGED <<rows, troubled>>
              /\ call' = [call EXCEPT ![c].then = "list"]
      /\ UNCHANGED <<kind, docs, busy, steps, vain, switched>>

ShowRows(c) ==
  LET q == call[c]
  IN  /\ q.then = "rows"
      /\ rows' = IF q.gone THEN rows ELSE q.got
      /\ troubled' = (troubled \/ (~q.gone /\ Late(q.got)))
      /\ Over(c)
      /\ UNCHANGED <<kind, docs, editing, held, steps, vain, switched>>

(* finally: after an error, or when the comments of a contract are there.  *)
Settle(c) ==
  /\ call[c].then \in {"error", "sides"}
  /\ Over(c)
  /\ UNCHANGED <<kind, docs, rows, editing, held, steps, vain, troubled,
                 switched>>

-----------------------------------------------------------------------------
Buttons == {m[1] : m \in Accepted}

ProcureNext ==
  \/ \E c \in Calls :
       \/ Refresh(c)  \/ OnUpdate(c)  \/ Leave(c)
       \/ \E d \in Docs, op \in Buttons : PressButton(c, d, op)
       \/ ServeList(c)  \/ Perform(c)  \/ Refuse(c)  \/ Lose(c)
       \/ Done(c)  \/ ShowRows(c)  \/ Settle(c)
  \/ \E d \in Docs : Edit(d) \/ Other(d)
  \/ CloseForm  \/ SwitchTab

ProcureSpec == ProcureInit /\ [][ProcureNext]_procureVars

-----------------------------------------------------------------------------
(* Properties *)

(* Edit is offered in approval (PurchaseRequestsPage.tsx:463,              *)
(* ContractWorkspacePage.tsx:221), as a doc has it                         *)
(* (COMMAND_CENTER_AND_ADMIN.md:73), and the API refuses it.  A form that  *)
(* is left open outlives the status it was opened in.                      *)
Bearable(op, status) ==
  /\ op = "edit"
  /\ <<op, status>> \in Offered => status = "in_approval"

(* Unless a call got lost, a list came late or the user went on beside a   *)
(* call, nothing that a row offers is refused before somebody else has     *)
(* changed the document, but Edit of what is in approval; and nothing that *)
(* it does not offer any longer, but the save of a form that the user left *)
(* open while he moved the document on: nobody else stumbles over what he  *)
(* did himself.                                                            *)
NothingInVain == troubled \/ \A b \in vain : Bearable(b[1], b[2])

(* A form that is closed before the next is opened, and saved while what   *)
(* it shows can be edited, saves nothing of one document into another and  *)
(* empties none.                                                           *)
SavedIsOwn == switched \/ \A d \in Docs : docs[d].says = d
=============================================================================
