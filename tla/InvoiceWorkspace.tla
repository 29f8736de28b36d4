-------------------------- MODULE InvoiceWorkspace --------------------------
(***************************************************************************)
(* The review page of the web application (InvoiceWorkspacePage.tsx) over  *)
(* the invoices of the API (invoices.service.ts).  One user has the page   *)
(* open and moves from invoice to invoice; the same component stays, so    *)
(* its states (the invoice it shows, the fields of its form) outlive the   *)
(* move, and an answer asked for before it may come in after it.           *)
(*                                                                         *)
(* A function of the page runs up to its next await; a call holds the      *)
(* point at which it goes on, the invoice it was made for (the id of that  *)
(* render), what was sent and what was answered.                           *)
(*                                                                         *)
(* A definition Name_Slip is Name with a plausible slip, which a property  *)
(* below must catch; nothing refers to it.                                 *)
(*                                                                         *)
(* Abstractions: of what an invoice says, whose it is (its own document's, *)
(* another invoice's, nobody's), for the fields and for each line; lines   *)
(* that differ in nothing else are one, and what is typed into a field or  *)
(* a line that is there is right for it.  "open" is every status in which  *)
(* fields may be changed, "approved" stands for exported and paid too;     *)
(* whether the API finds an invoice ready, and the user entitled, is open. *)
(* Nobody else works on the invoices.                                      *)
(***************************************************************************)
EXTENDS Naturals, FiniteSets

CONSTANTS
  Papers,   \* the invoices
  Lined,    \* those whose document has lines
  Fetches,  \* slots for calls under way
  Blank,    \* nobody's: empty fields, no lines, no invoice
  MaxActs   \* bound: what the user does

ASSUME PapersAssumption == Lined \subseteq Papers /\ Blank \notin Papers
ASSUME FetchesAssumption == IsFiniteSet(Fetches) /\ MaxActs \in Nat

VARIABLES
  stored,  \* the Invoice rows
  at,      \* the id in the address of the page
  shown,   \* the state invoice: its header and its buttons
  form,    \* the states of the fields, and editLines: a line of row Blank
           \*   was added and has no id yet
  armed,   \* armedChip: a value recognized on the document of an invoice
  fetch,   \* the calls under way
  acts,    \* history: how much the user did
  filled,  \* history: the invoice of the address, once its load is done
  hasty,   \* history: the user left before all answers were there, used the
           \*   page while it left or before it was filled, or put in a value
           \*   picked on another invoice
  unseen   \* history: invoices decided while another was shown

workspaceVars ==
  <<stored, at, shown, form, armed, fetch, acts, filled, hasty, unseen>>
page == <<at, shown, form, armed>>
past == <<acts, filled, hasty, unseen>>

Line(p) == [row |-> p, from |-> p]
Own(p) == [fields |-> p, lines |-> IF p \in Lined THEN {Line(p)} ELSE {}]
Empty == [fields |-> Blank, lines |-> {}]
Row(p, status) == [id |-> p, status |-> status, says |-> Own(p)]
NoRow == [id |-> Blank, status |-> "open", says |-> Empty]

(* What a call does next.                                                  *)
Ends == {"idle"}
AtServer == {"load", "patch", "approve", "mywork", "reject", "void",
             "submit", "recall", "resolve", "next", "refresh"}
AtPage == {"panels", "tables", "saved", "approved", "submitted", "recalled",
           "resolved", "go", "repaint"}

(* The calls that end on another invoice, or load one.                     *)
Leading == {"load", "panels", "tables", "approve", "approved", "mywork",
            "reject", "void", "next", "go"}

Quiet == [then |-> "idle", for |-> Blank, sent |-> Empty, got |-> NoRow]
Ask(then, p) == [Quiet EXCEPT !.then = then, !.for = p]

(* The page opens at some invoice, and loads it.                           *)
WorkspaceInit ==
  /\ stored = [p \in Papers |-> Row(p, "open")]
  /\ at \in Papers
  /\ shown = NoRow /\ form = Empty /\ armed = Blank
  /\ \E c \in Fetches :
       fetch = [[d \in Fetches |-> Quiet] EXCEPT ![c] = Ask("load", at)]
  /\ acts = 0 /\ filled = Blank /\ hasty = FALSE /\ unseen = {}

-----------------------------------------------------------------------------
(* What the user does *)

Waiting == \E c \in Fetches : fetch[c].then # "idle"
Leaving == \E c \in Fetches : fetch[c].then \in Leading

(* Free slots differ in nothing: a call takes one of them.                 *)
Act(c, call) ==
  /\ fetch[c] = Quiet /\ c = (CHOOSE d \in Fetches : fetch[d] = Quiet)
  /\ acts < MaxActs
  /\ fetch' = [fetch EXCEPT ![c] = call]
  /\ acts' = acts + 1
  /\ UNCHANGED stored

(* Buttons and keys change no state of the page before their call.         *)
Press(c, call) ==
  /\ Act(c, call)
  /\ hasty' = (hasty \/ filled # at \/ Leaving
                 \/ (call.then \in Leading /\ Waiting))
  /\ UNCHANGED <<page, filled>>

(* A decision goes to the invoice of the address.                          *)
Decide(c, call) ==
  /\ Press(c, call)
  /\ unseen' = IF shown.id = at THEN unseen ELSE unseen \union {at}

Locked(status) == status # "open"

(* A link to another invoice: of the vendor, or the original of a double.  *)
Follow(c, p) ==
  /\ p # at /\ shown # NoRow
  /\ Act(c, Ask("load", p))
  /\ at' = p /\ filled' = Blank
  /\ hasty' = (hasty \/ Waiting)
  /\ UNCHANGED <<shown, form, armed, unseen>>

(* A recognized value is picked, or let go, and put into the next field    *)
(* that gets the focus; it stays picked when the page moves on.            *)
OnChipClick ==
  /\ shown # NoRow
  /\ armed' = IF armed = shown.id THEN Blank ELSE shown.id
  /\ UNCHANGED <<stored, at, shown, form, fetch, past>>

OnFieldFocus ==
  /\ shown # NoRow /\ ~Locked(shown.status) /\ armed # Blank
  /\ form' = [form EXCEPT !.fields = armed]
  /\ armed' = Blank
  /\ hasty' = (hasty \/ filled # at \/ armed # at)
  /\ UNCHANGED <<stored, at, shown, fetch, acts, filled, unseen>>

(* A line more, for what is shown; it has no id before it is saved.        *)
AddEditLine ==
  /\ shown # NoRow /\ ~Locked(shown.status)
  /\ form' = [form EXCEPT
       !.lines = @ \union {[row |-> Blank, from |-> shown.id]}]
  /\ hasty' = (hasty \/ filled # at)
  /\ UNCHANGED <<stored, at, shown, armed, fetch, acts, filled, unseen>>

OnSave(c) ==
  /\ shown # NoRow /\ ~Locked(shown.status)
  /\ Press(c, [Ask("patch", at) EXCEPT !.sent = form])
  /\ UNCHANGED unseen

(* The keys A, R and N work whatever is shown, or nothing.                 *)
OnApprove(c) == Decide(c, Ask("approve", at))
OnReject(c) == Decide(c, [Ask("mywork", at) EXCEPT !.got = shown])
GoNext(c) == Press(c, Ask("next", at)) /\ UNCHANGED unseen

OnSubmit(c) ==
  /\ shown # NoRow /\ shown.status = "open"
  /\ Decide(c, Ask("submit", at))

OnRecall(c) ==
  /\ shown.status = "in_approval"
  /\ Decide(c, Ask("recall", at))

OnResolve(c) ==
  /\ shown # NoRow
  /\ Press(c, Ask("resolve", at))
  /\ UNCHANGED unseen

(* onAddComment and onUploadAttachment: what is posted is no part of what  *)
(* the invoice says; the panels are loaded anew.                           *)
OnPost(c) ==
  /\ shown # NoRow
  /\ Press(c, Ask("refresh", at))
  /\ UNCHANGED unseen

-----------------------------------------------------------------------------
(* What the API does with a call, and what it answers *)

Awaits(c, then) == fetch[c].then = then

Answer(c, row, then) ==
  /\ stored' = [stored EXCEPT ![row.id] = row]
  /\ fetch' = [fetch EXCEPT ![c].then = then, ![c].got = row]
  /\ UNCHANGED <<page, past>>

Moves(c, from, then, status, onto) ==
  LET row == stored[fetch[c].for]
  IN  /\ Awaits(c, from) /\ row.status \in status
      /\ \E s \in onto : Answer(c, [row EXCEPT !.status = s], then)

(* validation, activity and comments.                                      *)
Read(c) ==
  LET row == stored[fetch[c].for]
  IN  \/ Awaits(c, "load") /\ Answer(c, row, "panels")
      \/ Awaits(c, "refresh") /\ Answer(c, row, "repaint")

(* update: a line with an id must be one of this invoice, a line without   *)
(* is created on it, and the lines that were not sent are deleted.         *)
Patch(c) ==
  LET q == fetch[c]
      row == stored[q.for]
  IN  /\ Awaits(c, "patch") /\ ~Locked(row.status)
      /\ \A l \in q.sent.lines : l.row = Blank \/ l \in row.says.lines
      /\ Answer(c, [row EXCEPT
           !.says = [fields |-> q.sent.fields,
                     lines |-> {[l EXCEPT !.row = q.for] : l \in q.sent.lines}]],
           "saved")

Approve(c) ==
  Moves(c, "approve", "approved", {"open", "in_approval", "approved"},
        {"approved"})
Submit(c) ==
  Moves(c, "submit", "submitted", {"open", "in_approval"},
        {"in_approval", "approved"})
Recall(c) == Moves(c, "recall", "recalled", {"in_approval"}, {"open"})
Resolve(c) ==
  \E s \in {"open", "in_approval", "approved", "void"} :
    Moves(c, "resolve", "resolved", {s}, {s})

(* my-work names the task of the user, if there is one; without one the    *)
(* invoice is voided when the page showed it open as the key was pressed.  *)
MyWork(c) ==
  /\ Awaits(c, "mywork")
  /\ \/ /\ stored[fetch[c].for].status = "in_approval"
        /\ fetch' = [fetch EXCEPT ![c].then = "reject"]
     \/ /\ fetch[c].got # NoRow /\ fetch[c].got.status = "open"
        /\ fetch' = [fetch EXCEPT ![c].then = "void"]
  /\ UNCHANGED <<stored, page, past>>

RejectTask(c) == Moves(c, "reject", "next", {"in_approval"}, {"open"})
Void(c) ==
  Moves(c, "void", "next", {"open", "in_approval", "approved", "void"},
        {"void"})

(* nextInQueue: the one after this one, or the first, of those in review.  *)
NextInQueue(c) ==
  /\ Awaits(c, "next")
  /\ \E p \in Papers \ {fetch[c].for} :
       /\ stored[p].status = "open"
       /\ fetch' = [fetch EXCEPT ![c].then = "go", ![c].got = stored[p]]
  /\ UNCHANGED <<stored, page, past>>

(* A call is refused, or fails on its way; what it did may be done, and    *)
(* what it answered lost.                                                  *)
Fail(c) ==
  /\ fetch[c].then \in (AtServer \union AtPage) \ {"go"}
  /\ fetch' = [fetch EXCEPT ![c] = Quiet]
  /\ UNCHANGED <<stored, page, past>>

-----------------------------------------------------------------------------
(* What the page does with an answer *)

Goes(c, then) == fetch' = [fetch EXCEPT ![c].then = then]
Stops(c) == fetch' = [fetch EXCEPT ![c] = Quiet]

(* loadSidePanels shows the invoice; the form waits for the other tables.  *)
Panels(c) ==
  /\ Awaits(c, "panels")
  /\ shown' = fetch[c].got
  /\ Goes(c, "tables")
  /\ UNCHANGED <<stored, at, form, armed, past>>

FillForm_FieldsOnly(c) ==
  /\ Awaits(c, "tables")
  /\ form' = [form EXCEPT !.fields = fetch[c].got.says.fields]
  /\ filled' = fetch[c].for
  /\ Stops(c)
  /\ UNCHANGED <<stored, at, shown, armed, acts, hasty, unseen>>

FillForm(c) ==
  /\ Awaits(c, "tables")
  /\ form' = fetch[c].got.says
  /\ filled' = fetch[c].for
  /\ Stops(c)
  /\ UNCHANGED <<stored, at, shown, armed, acts, hasty, unseen>>

(* One of the other tables fails while the panels are on their way, which  *)
(* are shown all the same.                                                 *)
TablesFail(c) ==
  /\ fetch[c].then \in {"load", "panels"}
  /\ Goes(c, IF Awaits(c, "load") THEN "refresh" ELSE "repaint")
  /\ UNCHANGED <<stored, page, past>>

Repaint(c) ==
  /\ Awaits(c, "repaint")
  /\ shown' = fetch[c].got
  /\ Stops(c)
  /\ UNCHANGED <<stored, at, form, armed, past>>

(* The row that was answered, and the lines where the function sets them.  *)
Shows(c, lines, then) ==
  /\ shown' = fetch[c].got
  /\ form' = IF lines THEN [form EXCEPT !.lines = fetch[c].got.says.lines]
             ELSE form
  /\ IF then = "idle" THEN Stops(c) ELSE Goes(c, then)
  /\ UNCHANGED <<stored, at, armed, past>>

Saved(c) == Awaits(c, "saved") /\ Shows(c, TRUE, "refresh")
Approved(c) == Awaits(c, "approved") /\ Shows(c, FALSE, "next")
Submitted(c) == Awaits(c, "submitted") /\ Shows(c, FALSE, "idle")
Recalled(c) == Awaits(c, "recalled") /\ Shows(c, TRUE, "idle")
Resolved(c) == Awaits(c, "resolved") /\ Shows(c, FALSE, "refresh")

(* navigate: the effect of the page runs when the id is another.           *)
Go(c) ==
  LET p == fetch[c].got.id
  IN  /\ Awaits(c, "go")
      /\ at' = p
      /\ IF p = at THEN Stops(c) /\ UNCHANGED filled
         ELSE filled' = Blank /\ fetch' = [fetch EXCEPT ![c] = Ask("load", p)]
      /\ UNCHANGED <<stored, shown, form, armed, acts, hasty, unseen>>

-----------------------------------------------------------------------------
Acts(c) ==
  \/ \E p \in Papers : Follow(c, p)
  \/ OnSave(c)  \/ OnApprove(c)  \/ OnReject(c)  \/ GoNext(c)
  \/ OnSubmit(c)  \/ OnRecall(c)  \/ OnResolve(c)  \/ OnPost(c)

Serves(c) ==
  \/ Read(c)  \/ Patch(c)  \/ Approve(c)  \/ Submit(c)  \/ Recall(c)
  \/ Resolve(c)  \/ MyWork(c)  \/ RejectTask(c)  \/ Void(c)
  \/ NextInQueue(c)  \/ Fail(c)

Continues(c) ==
  \/ Panels(c)  \/ FillForm(c)  \/ TablesFail(c)  \/ Repaint(c)
  \/ Saved(c)  \/ Approved(c)  \/ Submitted(c)  \/ Recalled(c)
  \/ Resolved(c)  \/ Go(c)

WorkspaceNext ==
  \/ \E c \in Fetches : Acts(c) \/ Serves(c) \/ Continues(c)
  \/ OnChipClick \/ OnFieldFocus \/ AddEditLine

WorkspaceSpec == WorkspaceInit /\ [][WorkspaceNext]_workspaceVars

-----------------------------------------------------------------------------
(* Properties *)

Lines == [row : Papers \union {Blank}, from : Papers \union {Blank}]
Says == [fields : Papers \union {Blank}, lines : SUBSET Lines]
Rows == [id : Papers \union {Blank}, says : Says,
         status : {"open", "in_approval", "approved", "void"}]

(* The types of the variables.                                             *)
WorkspaceTypeOK ==
  /\ stored \in [Papers -> Rows]
  /\ at \in Papers /\ shown \in Rows /\ form \in Says
  /\ armed \in Papers \union {Blank}
  /\ fetch \in [Fetches -> [then : Ends \union AtServer \union AtPage,
                            for : Papers \union {Blank},
                            sent : Says, got : Rows]]
  /\ acts \in Nat /\ filled \in Papers \union {Blank}
  /\ hasty \in BOOLEAN /\ unseen \subseteq Papers

(* What is said of an invoice is its own, and no line of its document is   *)
(* missing.                                                                *)
SaysOwn(p, says) ==
  /\ says.fields = p /\ \A l \in says.lines : l.from = p
  /\ Own(p).lines \subseteq says.lines

(* What is on the page reaches no other invoice.  A user who leaves an     *)
(* invoice only when all answers are there, and uses the page only once it *)
(* is filled, may save, post, submit and recall as fast as he likes: in    *)
(* whatever order the calls are served and answered, and whichever of them *)
(* get lost, no invoice gets what another one says or loses a line of its  *)
(* document, and none is decided on but the one shown.                     *)
FormsStayHome ==
  ~hasty => /\ \A p \in Papers : SaysOwn(p, stored[p].says)
            /\ unseen = {}
=============================================================================
