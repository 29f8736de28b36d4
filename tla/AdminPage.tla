------------------------------ MODULE AdminPage ------------------------------
(***************************************************************************)
(* The administration page of the web application (AdminPage.tsx) over the *)
(* services it configures.  One component holds the states of all tabs:    *)
(* it loads nearly everything at once, and the approval tab again for each *)
(* module that is chosen there.  Forms are uncontrolled: React fills one   *)
(* when it is mounted or its key changes, and keeps what it holds          *)
(* otherwise; a tab that is left unmounts its forms.                       *)
(*                                                                         *)
(* One administrator has the page open; others change the same rows.  A    *)
(* call holds where it goes on and the module of the render it was made in.*)
(*                                                                         *)
(* A definition Name_Slip is Name with a plausible slip, which a property  *)
(* below must catch; nothing refers to it.                                 *)
(*                                                                         *)
(* Abstractions: of what is stored, whose values it is; what a form holds  *)
(* is valid; one row stands for all rows of a list but the approval rules; *)
(* the two providers of single sign-on are one; the API serves a call at   *)
(* once.  The tab of exchange rates is RatesTab, the audit log only shows. *)
(***************************************************************************)
EXTENDS Naturals, FiniteSets

CONSTANTS
  Areas,    \* the modules with an approval policy
  Invoices, \* the one under which segregation of duties is shown
  Persons,  \* the users
  Offices,  \* the entities
  Bands,    \* the approval rules
  AreaOf,   \* the module of each
  Flights,  \* slots for calls under way
  NoOne,    \* nothing
  MaxDeeds  \* bound: what the administrator and the others do

ASSUME BandsAssumption ==
  AreaOf \in [Bands -> Areas] /\ Invoices \in Areas /\ MaxDeeds \in Nat

VARIABLES
  kept,     \* whose values the rows behind the forms hold
  state,    \* the rows behind the lists: live, off or gone
  view,     \* the states of the page: tab, approvalModule, policy, whose
            \*   rules are listed, what is edited, which settings are there
  listed,   \* the rows of its lists
  inputs,   \* whose values the mounted forms hold
  flight,   \* the calls under way
  deeds,    \* history: how much was done
  meddled,  \* history: the rows others changed
  refused,  \* history: what was refused although no one else had changed it
  strayed,  \* history: rules handled under the heading of another module
  careless  \* history: what the page does not bear and was done: "user" a user
            \*   edited over another, "sso" single sign-on opened before it was
            \*   there, "order" answers lost, overtaken or not waited for

adminVars == <<kept, state, view, listed, inputs, flight, deeds, meddled,
               refused, strayed, careless>>
record == <<meddled, refused, strayed>>

Settings == {"sso", "plan", "email", "ai"}
Edited == {"user", "entity", "rule"}
Forms == Edited \union {"policy"} \union Settings
Things == Persons \union Offices \union Bands \union Areas \union Settings
Sod == {"pair", "own"}
Deletable == Bands \union {"pair", "endpoint"}
Final == {"key", "client", "note"}  \* off for good
Lists == Bands \union Sod \union
  {"module", "key", "client", "endpoint", "note", "delegation"}
Tabs == {"users", "entities", "modules", "keys", "oauth", "usage", "mailbox",
         "webhooks", "sso", "notifications", "workflow", "delegations"}

(* The identifiers of different things differ, and none is null.           *)
ASSUME NamesAssumption ==
  /\ NoOne \notin Things \union Lists
  /\ Persons \union Offices \union Areas \union Settings
       \subseteq Things \ Lists
  /\ "note" \notin Deletable

-----------------------------------------------------------------------------
(* The forms on the page: whether mounted, filled from what, its key *)

UserForm(p) ==
  [on |-> p.tab = "users" /\ p.editing["user"] # NoOne,
   of |-> p.editing["user"], key |-> NoOne]

EntityForm(p) ==
  [on |-> p.tab = "entities" /\ p.editing["entity"] # NoOne,
   of |-> p.editing["entity"], key |-> p.editing["entity"]]

RuleForm(p) ==
  [on |-> p.tab = "workflow" /\ p.editing["rule"] # NoOne,
   of |-> p.editing["rule"], key |-> p.editing["rule"]]

PolicyForm_AreaKey(p) ==
  [on |-> p.tab = "workflow" /\ p.policy # NoOne,
   of |-> p.policy, key |-> <<p.area>>]

PolicyForm(p) ==
  [on |-> p.tab = "workflow" /\ p.policy # NoOne,
   of |-> p.policy, key |-> <<p.area, p.policy>>]

(* Shown before the settings are there, with defaults in their place.      *)
SsoForm(p) ==
  [on |-> p.tab = "sso",
   of |-> IF "sso" \in p.there THEN "sso" ELSE NoOne, key |-> NoOne]

PlanForm(p) ==
  [on |-> p.tab = "usage" /\ "plan" \in p.there, of |-> "plan", key |-> NoOne]

AiForm(p) ==
  [on |-> p.tab = "usage" /\ {"plan", "ai"} \subseteq p.there,
   of |-> "ai", key |-> NoOne]

EmailForm(p) ==
  [on |-> p.tab = "mailbox" /\ "email" \in p.there, of |-> "email",
   key |-> NoOne]

Form(f, p) ==
  CASE f = "user" -> UserForm(p)  [] f = "entity" -> EntityForm(p)
    [] f = "rule" -> RuleForm(p)  [] f = "policy" -> PolicyForm(p)
    [] f = "sso" -> SsoForm(p)    [] f = "plan" -> PlanForm(p)
    [] f = "ai" -> AiForm(p)      [] f = "email" -> EmailForm(p)

(* The page is rendered with these states.                                 *)
Renders(p) ==
  /\ view' = p
  /\ inputs' = [f \in Forms |->
       LET was == Form(f, view)
           is == Form(f, p)
       IN  IF ~is.on THEN NoOne
           ELSE IF was.on /\ was.key = is.key THEN inputs[f] ELSE is.of]

-----------------------------------------------------------------------------
(* The calls under way *)

Grounded ==
  [then |-> "idle", what |-> NoOne, op |-> "load", of |-> NoOne,
   sends |-> NoOne, area |-> NoOne, list |-> "none", busy |-> FALSE,
   got |-> NoOne, older |-> {}, late |-> FALSE]

(* Free slots differ in nothing: a call takes one of them.                 *)
Vacant(c) ==
  flight[c] = Grounded /\ c = (CHOOSE d \in Flights : flight[d] = Grounded)

Busy == \E c \in Flights : flight[c].busy
Changing == \E c \in Flights : flight[c].then \in {"perform", "done"}
Loading == \E c \in Flights : flight[c].then \in {"serve", "show"}

(* A list is asked for after those that are under way.                     *)
Asks(c, q, list) ==
  [q EXCEPT !.then = "serve", !.list = list,
     !.older = {d \in Flights \ {c} : flight[d].then \in {"serve", "show"}}]

Landed(c) ==
  [d \in Flights |->
     IF d = c THEN Grounded ELSE [flight[d] EXCEPT !.older = @ \ {c}]]

(* The page opens.                                                         *)
AdminInit ==
  /\ kept = [t \in Things |-> t]
  /\ state = [r \in Lists |-> "live"] /\ listed = [r \in Lists |-> "gone"]
  /\ \E a \in Areas :
       view = [tab |-> "users", area |-> a, policy |-> NoOne, ruled |-> NoOne,
               editing |-> [f \in Edited |-> NoOne], there |-> {}]
  /\ inputs = [f \in Forms |-> NoOne]
  /\ \E c \in Flights :
       flight = [[d \in Flights |-> Grounded] EXCEPT ![c] =
         [Grounded EXCEPT !.then = "serve", !.list = "refresh",
                          !.area = view.area]]
  /\ deeds = 0 /\ meddled = {} /\ refused = {} /\ strayed = {}
  /\ careless = {}

Careless(what, is) ==
  careless' = IF is THEN careless \union {what} ELSE careless
Deed == deeds < MaxDeeds /\ deeds' = deeds + 1

-----------------------------------------------------------------------------
(* Tabs, and what is opened in them *)

(* The form of single sign-on keeps the defaults it was opened with.       *)
SetTab(t) ==
  /\ view.tab # t /\ t \notin {"workflow", "delegations"}
  /\ Renders([view EXCEPT !.tab = t])
  /\ Careless("sso", t = "sso" /\ "sso" \notin view.there)
  /\ UNCHANGED <<kept, state, listed, flight, deeds, record>>

(* These load what they show.                                              *)
OpenTab(c, t) ==
  /\ view.tab # t /\ t \in {"workflow", "delegations"} /\ Vacant(c)
  /\ Renders([view EXCEPT !.tab = t])
  /\ flight' = [flight EXCEPT ![c] =
       Asks(c, [Grounded EXCEPT !.area = view.area], t)]
  /\ UNCHANGED <<kept, state, listed, deeds, record, careless>>

(* Beside a change, whose load asks for the module of its own render.      *)
SetApprovalModule(c, a) ==
  /\ Deed /\ view.tab = "workflow" /\ view.area # a /\ Vacant(c)
  /\ Renders([view EXCEPT !.area = a])
  /\ flight' = [flight EXCEPT ![c] =
       Asks(c, [Grounded EXCEPT !.area = a], "workflow")]
  /\ Careless("order", Changing)
  /\ UNCHANGED <<kept, state, listed, record>>

Opens(f, t) == view.editing[f] # t /\ Renders([view EXCEPT !.editing[f] = t])

(* The form of a user has no key: one opened over another keeps its values.*)
EditUser(u) ==
  /\ view.tab = "users" /\ view.there # {} /\ Opens("user", u)
  /\ Careless("user", view.editing["user"] \notin {u, NoOne})
  /\ UNCHANGED <<kept, state, listed, flight, deeds, record>>

EditEntity(e) ==
  /\ view.tab = "entities" /\ view.there # {} /\ Opens("entity", e)
  /\ UNCHANGED <<kept, state, listed, flight, deeds, record, careless>>

(* A rule is handled under the heading of the module that is chosen.       *)
Handles(r) ==
  /\ view.tab = "workflow" /\ AreaOf[r] = view.ruled /\ ~Busy
  /\ strayed' = IF view.ruled = view.area THEN strayed ELSE strayed \union {r}
  /\ Careless("order", Loading)

EditRule(r) ==
  /\ Handles(r) /\ listed[r] # "gone" /\ Opens("rule", r)
  /\ UNCHANGED <<kept, state, listed, flight, deeds, meddled, refused>>

Cancel(f) ==
  /\ f \in Edited /\ Form(f, view).on
  /\ Renders([view EXCEPT !.editing[f] = NoOne])
  /\ UNCHANGED <<kept, state, listed, flight, deeds, record, careless>>

-----------------------------------------------------------------------------
(* Forms are submitted.  Their buttons are disabled while the page is busy *)

Sends(c, q, list) ==
  /\ Deed /\ Vacant(c)
  /\ flight' = [flight EXCEPT ![c] =
       [q EXCEPT !.then = "perform", !.area = view.area, !.list = list]]
  /\ UNCHANGED <<kept, state, view, listed, inputs, meddled, refused>>

Submits(c, f, thing, list) ==
  /\ ~Busy /\ Form(f, view).on
  /\ Sends(c, [Grounded EXCEPT !.what = f, !.op = "save", !.of = thing,
                               !.sends = inputs[f], !.busy = TRUE], list)
  /\ UNCHANGED strayed

OnUpdateUser(c) ==
  Submits(c, "user", view.editing["user"], "users") /\ UNCHANGED careless
OnUpdateEntity(c) ==
  Submits(c, "entity", view.editing["entity"], "refresh") /\ UNCHANGED careless
OnUpdateRule(c) ==
  Submits(c, "rule", view.editing["rule"], "workflow") /\ UNCHANGED careless
OnSavePlan(c) == Submits(c, "plan", "plan", "refresh") /\ UNCHANGED careless
SaveSso(c) == Submits(c, "sso", "sso", "none") /\ UNCHANGED careless
SaveAi(c) == Submits(c, "ai", "ai", "none") /\ UNCHANGED careless
SaveEmail(c) == Submits(c, "email", "email", "none") /\ UNCHANGED careless

(* The policy of the module that is chosen, whatever the form was filled   *)
(* from.                                                                   *)
OnSavePolicy(c) ==
  Submits(c, "policy", view.area, "workflow") /\ Careless("order", Loading)

SodShown == view.area = Invoices

(* A form for a new row has no row to mistake.                             *)
Adds(c, what, tab, list) ==
  /\ ~Busy /\ view.tab = tab
  /\ Sends(c, [Grounded EXCEPT !.what = what, !.op = "add", !.busy = TRUE],
           list)
  /\ UNCHANGED <<strayed, careless>>

OnInviteUser(c) == Adds(c, "row", "users", "refresh")
OnCreateUser(c) == Adds(c, "row", "users", "refresh")
OnCreateEntity(c) == Adds(c, "office", "entities", "refresh")
OnCreateKey(c) == Adds(c, "row", "keys", "refresh")
OnCreateOauthClient(c) == Adds(c, "row", "oauth", "refresh")
OnCreateEndpoint(c) == Adds(c, "row", "webhooks", "refresh")
OnCreateRule(c) == Adds(c, "row", "workflow", "workflow")
OnCreateRolePair(c) ==
  SodShown /\ Adds(c, "row", "workflow", "workflow")
RotateToken(c) == Adds(c, "row", "mailbox", "refresh")
MarkAllRead(c) == Adds(c, "row", "notifications", "refresh")

-----------------------------------------------------------------------------
(* The buttons of a row *)

Presses(c, r, op, tab, list) ==
  /\ view.tab = tab
  /\ Sends(c, [Grounded EXCEPT !.what = r, !.op = op, !.of = r,
                               !.busy = (r # "note")], list)

(* Its label is the opposite of what the row said, and so is what it asks. *)
Toggles(c, r, tab, list) ==
  \/ listed[r] = "live" /\ Presses(c, r, "off", tab, list)
  \/ listed[r] = "off" /\ Presses(c, r, "live", tab, list)

RowFree(c, r) == ~Busy /\ UNCHANGED <<strayed, careless>>

SetModule(c) ==
  RowFree(c, "module") /\ Toggles(c, "module", "modules", "refresh")
RevokeApiKey(c) ==
  /\ RowFree(c, "key") /\ listed["key"] = "live"
  /\ Presses(c, "key", "off", "keys", "refresh")
RevokeOauthClient(c) ==
  /\ RowFree(c, "client") /\ listed["client"] = "live"
  /\ Presses(c, "client", "off", "oauth", "refresh")
ToggleEndpoint(c) ==
  RowFree(c, "endpoint") /\ Toggles(c, "endpoint", "webhooks", "refresh")
DeleteEndpointRow(c) ==
  /\ RowFree(c, "endpoint") /\ listed["endpoint"] # "gone"
  /\ Presses(c, "endpoint", "gone", "webhooks", "refresh")
RevokeDelegation(c) ==
  /\ RowFree(c, "delegation") /\ listed["delegation"] = "live"
  /\ Presses(c, "delegation", "off", "delegations", "delegations")
ToggleRule(c, r) == Handles(r) /\ Toggles(c, r, "workflow", "workflow")
DeleteRule(c, r) ==
  /\ Handles(r) /\ listed[r] # "gone"
  /\ Presses(c, r, "gone", "workflow", "workflow")
ToggleSod(c, r) ==
  /\ r \in Sod /\ SodShown
  /\ RowFree(c, r) /\ Toggles(c, r, "workflow", "workflow")

(* The rule of one's own invoices can only be disabled.                    *)
DeleteSod(c) ==
  /\ SodShown /\ RowFree(c, "pair") /\ listed["pair"] # "gone"
  /\ Presses(c, "pair", "gone", "workflow", "workflow")

(* Neither disabled by the state busy nor setting it.                      *)
MarkRead(c) ==
  /\ listed["note"] = "live" /\ UNCHANGED <<strayed, careless>>
  /\ Presses(c, "note", "off", "notifications", "refresh")

-----------------------------------------------------------------------------
(* The calls are answered *)

(* A row says what the form said.                                          *)
Overwrites(q) ==
  /\ q.of \in Bands => state[q.of] # "gone"
  /\ kept' = [kept EXCEPT ![q.of] = q.sends] /\ UNCHANGED state

Switches(q) ==
  /\ state[q.of] # "gone"
  /\ state' = [state EXCEPT ![q.of] = q.op] /\ UNCHANGED kept

(* One change at the API; then the page goes on.                           *)
Change(c) ==
  /\ flight[c].then = "perform"
  /\ CASE flight[c].op = "add" -> UNCHANGED <<kept, state>>
       [] flight[c].op = "save" -> Overwrites(flight[c])
       [] OTHER -> Switches(flight[c])
  /\ flight' = [flight EXCEPT ![c].then = "done"]
  /\ UNCHANGED <<view, listed, inputs, deeds, record, careless>>

(* Only what can be deleted can be gone.                                   *)
RefuseGone(c) ==
  /\ flight[c].then = "perform" /\ flight[c].of \in Lists
  /\ state[flight[c].of] = "gone"
  /\ refused' = IF flight[c].of \in meddled THEN refused
                ELSE refused \union {flight[c].what}
  /\ flight' = Landed(c)
  /\ UNCHANGED <<kept, state, view, listed, inputs, deeds, meddled, strayed,
                 careless>>

(* The name of a new entity is taken: its list is loaded nevertheless.     *)
RefuseNew(c) ==
  /\ flight[c].then = "perform" /\ flight[c].op = "add"
  /\ flight' = IF flight[c].what = "office"
               THEN [flight EXCEPT ![c] = Asks(c, flight[c], "refresh")]
               ELSE Landed(c)
  /\ UNCHANGED <<kept, state, view, listed, inputs, deeds, record, careless>>

(* A call fails before it is served, or its answer is lost after it.       *)
LoseCall(c) ==
  /\ flight[c].then \in {"perform", "done"}
  /\ flight' = Landed(c)
  /\ Careless("order", flight[c].then = "done")
  /\ UNCHANGED <<kept, state, view, listed, inputs, deeds, record>>

(* The form is closed, or the policy that was answered shown; then the     *)
(* lists are loaded, for the module of the render the call was made in.    *)
AfterSave(c) ==
  CASE flight[c].what \in Edited ->
         [view EXCEPT !.editing[flight[c].what] = NoOne]
    [] flight[c].what = "policy" -> [view EXCEPT !.policy = flight[c].area]
    [] OTHER -> view

GoOn(c) ==
  /\ flight[c].then = "done"
  /\ Renders(AfterSave(c))
  /\ flight' = IF flight[c].list = "none" THEN Landed(c)
               ELSE [flight EXCEPT ![c] = Asks(c, flight[c], flight[c].list)]
  /\ UNCHANGED <<kept, state, listed, deeds, record, careless>>

Respond(c) ==
  /\ flight[c].then = "serve"
  /\ flight' = [flight EXCEPT ![c].then = "show", ![c].got = state]
  /\ UNCHANGED <<kept, state, view, listed, inputs, deeds, record, careless>>

Showing(list) ==
  CASE list = "refresh" -> Lists \ {"delegation"}
    [] list = "workflow" -> Bands \union Sod
    [] list = "users" -> {}
    [] list = "delegations" -> {"delegation"}

(* The lists of one load are set together.  An older load still under way  *)
(* will set its own after them.                                            *)
Sets(c, area, there) ==
  /\ flight[c].then = "show"
  /\ listed' = [r \in Lists |-> IF r \in Showing(flight[c].list)
                                THEN flight[c].got[r] ELSE listed[r]]
  /\ Renders(CASE flight[c].list = "refresh" ->
                    [view EXCEPT !.policy = area, !.ruled = area,
                                 !.there = there]
               [] flight[c].list = "workflow" ->
                    [view EXCEPT !.policy = area, !.ruled = flight[c].area]
               [] OTHER -> view)
  /\ flight' = [d \in Flights |->
       IF d \in flight[c].older /\ flight[d].then \in {"serve", "show"}
       THEN [Landed(c)[d] EXCEPT !.late = TRUE] ELSE Landed(c)[d]]
  /\ UNCHANGED <<kept, state, deeds, record>>

Show(c) ==
  Sets(c, flight[c].area, Settings) /\ Careless("order", flight[c].late)

(* Some of its parts failed, which is caught and shows nothing for them.   *)
ShowPartly(c) ==
  /\ flight[c].list \in {"refresh", "workflow"}
  /\ Sets(c, NoOne, {"plan"}) /\ Careless("order", TRUE)

LoseLoad(c) ==
  /\ flight[c].then \in {"serve", "show"}
  /\ flight' = Landed(c)
  /\ Careless("order", TRUE)
  /\ UNCHANGED <<kept, state, view, listed, inputs, deeds, record>>

(* Others change a row.                                                    *)
OthersChange(r) ==
  /\ Deed /\ state[r] # "gone"
  /\ \E s \in {"live", "off", "gone"} :
       /\ s # state[r] /\ s = "gone" => r \in Deletable
       /\ s = "live" => r \notin Final
       /\ state' = [state EXCEPT ![r] = s]
  /\ meddled' = meddled \union {r}
  /\ UNCHANGED <<kept, view, listed, inputs, flight, refused, strayed,
                 careless>>

AdminNext ==
  \/ \E t \in Tabs : SetTab(t) \/ \E c \in Flights : OpenTab(c, t)
  \/ \E c \in Flights, a \in Areas : SetApprovalModule(c, a)
  \/ \E u \in Persons : EditUser(u)
  \/ \E e \in Offices : EditEntity(e)
  \/ \E r \in Bands : EditRule(r)
  \/ \E f \in Edited : Cancel(f)
  \/ \E c \in Flights :
       \/ OnUpdateUser(c) \/ OnUpdateEntity(c) \/ OnUpdateRule(c)
       \/ OnSavePlan(c) \/ SaveSso(c) \/ SaveAi(c) \/ SaveEmail(c)
       \/ OnSavePolicy(c)
       \/ OnInviteUser(c) \/ OnCreateUser(c) \/ OnCreateEntity(c)
       \/ OnCreateKey(c) \/ OnCreateOauthClient(c) \/ OnCreateEndpoint(c)
       \/ OnCreateRule(c) \/ OnCreateRolePair(c)
       \/ RotateToken(c) \/ MarkAllRead(c)
       \/ SetModule(c) \/ RevokeApiKey(c) \/ RevokeOauthClient(c)
       \/ ToggleEndpoint(c) \/ DeleteEndpointRow(c) \/ RevokeDelegation(c)
       \/ DeleteSod(c) \/ MarkRead(c)
       \/ \E r \in Lists : ToggleSod(c, r)
       \/ \E r \in Bands : ToggleRule(c, r) \/ DeleteRule(c, r)
       \/ Change(c) \/ RefuseGone(c) \/ RefuseNew(c) \/ LoseCall(c) \/ GoOn(c)
       \/ Respond(c) \/ Show(c) \/ ShowPartly(c) \/ LoseLoad(c)
  \/ \E r \in Lists : OthersChange(r)

AdminSpec == AdminInit /\ [][AdminNext]_adminVars

-----------------------------------------------------------------------------
(* A form saves what it was filled from: a user unless edited over         *)
(* another, single sign-on unless opened too early, a policy as long as    *)
(* the answers of the loads come in their order and are waited for, and    *)
(* everything else in any case.  Under the same condition rules are        *)
(* handled under the heading of their own module, and of what no one else  *)
(* touched only a form on a rule that was deleted meanwhile is refused.    *)
AdminInOrder ==
  /\ \A t \in Things :
       \/ kept[t] = t
       \/ t \in Persons /\ "user" \in careless
       \/ t = "sso" /\ "sso" \in careless
       \/ t \in Areas /\ "order" \in careless
  /\ "order" \in careless \/ (strayed = {} /\ refused \subseteq {"rule"})

=============================================================================
