# Formify: a TLA+ model of the invoice-to-pay API

Formify is a multi-tenant web service for accounts payable and procurement: a
NestJS API (`src/apps/api`) over one PostgreSQL database through Prisma, and a
React client (`src/apps/web`) that stores nothing, but whose pages hold what
they were answered and what was typed into them until they are left. This
directory models the API's stateful services and the pages with the most state,
model-checks them with TLC and proves most of their invariants with TLAPS.

## What makes this code hard

Every `await this.prisma...` is a database transaction of its own, except for
the few places that use `$transaction`, and those run at PostgreSQL's default
isolation. A handler therefore is a sequence of small transactions: it reads a
row, checks it in JavaScript and writes it in a later call, without a version
check and mostly without a condition on the row. Requests that are served at
the same time interleave between any two calls; a request may stop between two
calls, when the database answers with an error or the process ends. There is no
background worker, no retry and no lock. What holds of the data is therefore
what survives

- requests that overlap, each acting on what it read before;
- requests that stop half-way, after some of their writes;
- callers that repeat a call (mail providers, users whose request failed);
- long sequences of legal calls that nobody tried in that order.

A page of the client has the same problem on a smaller scale. An event handler
runs up to its next `await`, keeps the states of the render it was made in, and
goes on after the answer, when the page may show something else; the answers of
two calls come in any order; forms are mostly uncontrolled, so that React keeps
what they hold while the row behind them changes.

All models of the API use the same representation. A request is a record of the handler's
local variables and of the database call it is about to make (`pc`);
`Requests` is the set of slots for requests served at once; one action is one
call together with the JavaScript up to the next one. With one element in
`Requests` the handlers run one after the other, so the same module answers two
questions: what a handler promises on its own, and what is left of the promise
when handlers overlap.

## Inventory

| component | state | operations | hard behaviour | what makes it correct |
|---|---|---|---|---|
| invoices (`modules/invoices`) | `Invoice`, lines, submitter | upload, update, validate, resolve, submit, approve, void | update and void do not look at open tasks; status checked long before it is written | what is approved is complete and is what was reviewed |
| invoice rules (`modules/invoice-rules`) | `InvoiceException`, `Invoice.status` | evaluate, syncExceptions | writes a status decided from an earlier read; duplicates are looked up, not constrained | no recent duplicate and nothing uncoded enters approval |
| workflow (`modules/workflow`) | `ApprovalTask`, policies, rules, delegations | submitInvoice, recall, decideTask, e-mailed decisions | tasks and invoice are changed in separate calls; delegation after the SoD filter | who is asked is independent of the submitter, or stands in for somebody who is; an open task belongs to a submission |
| usage metering (`modules/usage`) | `UsageEvent`, `OcrPageMeter`, limits of the tenant | recordInvoiceApproved, incrementOcrPages, getUsageSummary | the limit is read before the event is written | every approved invoice is billed once, the limit holds but for the overlap |
| capture and OCR (`modules/capture`) | `EmailIngest`, `FileAsset` with extraction | ingestEmail, upload, extractDocument | repeated deliveries, failing providers, a cache shared by kinds of document | a message becomes one invoice |
| purchase orders (`modules/purchase-orders`) | `PurchaseOrder`, lines, received quantities | create, update, transition, receive | received quantity read early, written as an absolute value | never more received than ordered, status follows the lines |
| purchase requests (`modules/purchase-requests`) | `PurchaseRequest`, stage | create, submit, advance, from a proposal, convert to an order | conversion checks outside its transaction | one order per request |
| accruals (`purchase-orders/accruals.service.ts`) | `ApAccrual` | generate, advance, post | generation looks for a row and then creates it; a late approval overwrites a posting | one draft per order, posted once and only after the whole chain |
| contracts (`modules/contracts`) | `Contract`, signature envelope | approve in five stages, sign, complete | envelope and stage are read and written whole | active only when approved and signed |
| integration (`modules/integration`) | `IntegrationJob`, connectors, export flags | CSV export, pushes to a demo ERP, NetSuite and QuickBooks, master-data import | ERP calls in a loop, marks afterwards | what says exported is in a file, what is billed says so |
| identity (`modules/identity`) | `User`, `Session`, `UserInvite`, `PasswordResetToken` | login, second factor, invite, accept, reset | failures counted from an earlier read; single-use tokens checked and then marked | a token works once, a lockout locks, a reset ends sessions |
| sign-on, SCIM | `OidcAuthState`, `SamlAuthState`, the same `User` rows | login, callback; provision, deactivate | login state found and then deleted | a login state opens one session |
| OAuth, API keys | clients, keys, tokens | issue, revoke, resolve | a token issued from a client read before its revocation | a revoked credential opens nothing |
| FX rates (`modules/fx-rates`) | rate tables, history, the tenant's active table | sync, convert | stored in batches, continued from the newest day; cross rates of two lookups | history without holes, reports that do not change |
| webhooks (`modules/webhooks`) | endpoints, `WebhookDelivery` | dispatch | five-second abort, no retry, lives in memory | a delivery row tells the truth and is settled |
| guards, tenancy (`common`, `modules/tenancy`) | buckets in memory, `ModuleLicense`, `Entity`, memberships | resolve a bearer, count, check licence and entity where the route asks; update user, licence | the guards read one after the other, rows change between them; updates of memberships alone overlap | who is served had what his route asks for at some moment since he came; no more defaults than such updates overlapped |
| web application (`apps/web`) | states of the pages, their forms, calls under way | open, edit, decide, move on | answers come in late or never; a form outlives the row it was filled from | what is sent is of the document that is shown |
| master data, notifications, audit, ops, search | rows of their own | create, read, update | little: single-row writes | read by the others |

Interactions. `capture` creates the invoice that `invoice-rules` validates and
`workflow` routes; `invoices.submit` runs the gate and calls
`workflow.submitInvoice`, which runs it again; `workflow` and
`invoices.approve` both end in the limit check and the metering of `usage`;
`integration` reads approved invoices and marks them exported;
`purchase-requests` and `contracts` create purchase orders; nearly every
service appends to `audit` and calls `notifications` and `webhooks`, whose rows
no guard reads. `PROJECT.json` lists every component with what is modelled of
it, and the hazards with the line at which each bites.

## Modules

### InvoiceApproval, UsageMeter

`InvoiceApproval.tla` is the life of an invoice from capture to export: the
services invoices, invoice-rules, workflow, usage and the export of integration
in one state machine, because they share `Invoice.status` and the approval
tasks.

| TLA+ | code |
|---|---|
| `StartCapture`, `Extract` | `CaptureService.uploadAndExtract`: the row exists before its contents |
| `StartUpdate`, `Write` | `InvoicesService.update` after its status check |
| `Evaluate`, `Reread`, `SetStatus` | `InvoiceValidationService.syncExceptions`: evaluate, read the invoice again, write its status |
| `StartSubmit`, `Guard`, `Route`, `CloseTasks`, `Assign`, `EnterApproval` | `InvoicesService.submit`, then `WorkflowService.submitInvoice` |
| `StartDecide`, `AssertCanApprove`, `Decide`, `CloseTasks`, `SendBack` | `WorkflowService.decideTask`, also reached by e-mail token |
| `StartRecall` | `WorkflowService.recallInvoice` |
| `Limit`, `MarkApproved`, `Bill` | `finalizeApprove` and `UsageService` |
| `StartForce` | `InvoicesService.approve` |
| `StartExport`, `WriteFile`, `MarkExported` | `IntegrationService.exportApprovedInvoices`, `finishExport` |
| `Void`, `SetPolicy`, `NewMonth`, `NextDay`, `Fail` | void; configuration endpoints; the calendar; an error between two calls |

Abstractions. An invoice's contents are a number (vendor and invoice number
together), a total and `coded`, the verdict of the remaining checks of
`evaluate` (currency, entity, vendor, tax sum, purchase-order match). `age`
counts the days since `createdAt` as far as the duplicate check can tell them
apart: it looks back `Lookback` days (`DUP_LOOKBACK_DAYS`, 365 in the code), so
an older copy is no obstacle, and `NoDouble` says so. Policies,
approval rules, SoD policies and delegations are one value of `Policies`, from
which `Assignees` computes the candidates as the code does. A task remembers in
`under` the policy of its submission, for `AskedAreIndependent` alone: the
delegates who replace the candidates are not filtered again and the policy may
change meanwhile, so no more can be promised of who has a task; whether he may
approve is checked once more when he does (`AssertCanApprove`). `InvoiceException`
rows are left out, no guard reads them. Neither controller restricts these
operations to a role, so any user may submit, void or force.

`UsageMeter.tla` is the promise to the billing side: an approved invoice is
owed one event, it is written once, and the events of the month together with
those still owed never pass the limit by more than the overlap.
`InvoiceApproval` implements it with `owed` the approved invoices whose request
is about to write the event.

### PurchaseOrders, OrderBook

`PurchaseOrders.tla` models create, transition and receive. `StartReceive` is
everything up to the transaction that writes the lines, whose new quantities
were computed from the lines read at the start; then `WriteLines`, `Reread`
(which derives the status), `SetStatus` and `Audit`. `Create` also stands for
the conversion of a purchase request. Quantities are naturals, the code's are
floats compared with a tolerance. `OrderBook.tla` is what a buyer expects:
goods come in against an open order, are not given back, and an order closes
only when all of it came in.

### Contracting

`Contracting.tla` follows a contract to the order that comes of it, through
`ContractsService` and `PurchaseRequestsService`, which share the contract's
status, the link from a request to its contract, and the orders.

| TLA+ | code |
|---|---|
| `contract`, `stage`, `envelope` | `Contract.status`, `.approvalStage`, `.signatureJson` |
| `pr`, `source` | `PurchaseRequest.status`, `.sourceContractId` |
| `named` | the contract whose number `prNumber` is made from (unique per tenant) |
| `CreateContract` | `create`, and the scans that end in it |
| `StartMoveContract`, `MoveContract` | `ContractsService.transition` |
| `StartSendForApproval`, `SendForApproval`, `StartAdvance`, `Advance`, `OpenEnvelope` | `sendForApproval`, `advanceApproval` |
| `StartSendForSignature`, `StartSign`, `WriteEnvelope` | `sendForSignature`, `checkSignatureStatus` |
| `StartComplete`, `Complete` | `completeSignature` |
| `CreatePR`, `StartMovePR`, `MovePR` | `create`, `transition` of purchase requests |
| `StartAccept`, `FindLinked`, `Accept` | `createFromProposal` |
| `StartConvert`, `Convert` | `convertToPo` |
| `CreateOrder` | `PurchaseOrdersService.create` with or without a request |

Each of these handlers reads a row, checks it and makes one write (or one
transaction of writes) that another handler's guard reads. An action `Start...`
is the read with its checks and leaves in `req` the record to be written; the
other action is the write. A handler that stops in between has written nothing,
so no action for failures is needed: the request slot it occupied is the only
difference. `accepted` counts acceptances and is there for the properties
alone. Signers sign in order, so an envelope is its state and the number of
signatures. Contents, documents, comments and red flags are left out.

### EmailCapture

`EmailCapture.tla` models the delivery of a message (`ingestEmail`) and the
extraction it shares with uploads and scanned contracts (`extractDocument`,
`uploadAndExtract`). A provider may deliver a message any number of times,
every call may throw, and the process may stop. The `try` block of
`ingestEmail` begins after `CreateRow`, so a call that throws after it leads to
`MarkFailed`, which may itself throw.

### Webhooks

`Webhooks.tla` is `dispatch`, which an approval calls without waiting: match
the endpoints once (`MatchEndpoints`), then for each create a pending row
(`CreateDelivery`), POST (`Send`: the receiver acts or not, its answer comes in
time or not), record the result (`Record`). A deletion of the endpoint takes
its rows, so the update throws and ends the dispatch. `RestartServer` loses
whatever is under way; nothing in the code resumes it. Only
`InvoicesService.approve` dispatches: invoices that the workflow approves send
no event.

### Accruals

`Accruals.tla`: `StartGenerate` reads the open orders, `FindDraft` and
`WriteDraft` are the two calls of the loop body for each order; `StartSend`,
`Send`, `StartAdvance`, `Advance`, `StartPost`, `Post` are a read with its
checks and the unconditional write behind it; `Break` is a call that stops.
`due` is what remains of an order and moves freely, since receipts and invoices
change it in other handlers. The variable `orderly` is chosen at the start: in
an orderly behaviour calls are served one after the other. The same module so
answers what the handlers promise alone and what is left under overlap.

### ErpSync

`ErpSync.tla`: the three connectors share one shape, `ReadApproved`, `Push` for
each invoice (a live connection books a bill, or its client reports an error, or
no answer comes), `WriteArtifact`, `CreateJob`, `MarkExported`. They differ in
what is marked (`Marks`: the demo connector marks whatever is approved by now),
in which statuses are listed, and in what the other side does with a bill it
has: NetSuite refuses a second external id, QuickBooks books it again.
`ThrowSync` and `FailJob` are the `catch`, `StopSync` a restart. `StartExport`
is the CSV export. `InvoiceApproval` keeps its own, coarser export, as one of
the users of an invoice's status.

### FxRates

`FxRates.tla`: `Plan` computes from the stored days which range to ask for,
`Fetch` asks for it and for the last days again, `Persist` stores one batch and
skips what is there, `Aggregate`, `RefreshStats`, `LookForActive` and `Activate`
follow. `NextDay`, `Publish` and `Correct` are the provider, `SetActive` an
administrator. `ConvertOne` with `RateOnOrBefore` and `Round` is the conversion.
Rates are natural numbers, hence cross rates are exact fractions and the
rounding of the amount is the only one; that rates are cut to eight places is
not modelled. The provider shows what it has of a day at once, and may have no
rate for some currencies or for none: the two rates of a cross rate are then of
two days, which the code intends (it reports the older one), and
`CrossOfOneDay` counts only the days on which the provider has both.

### SignIn

`SignIn.tla`: every way to a session, because they meet in the `User` row:
passwords with the failure count and lock, the second factor with its signed
challenge, invitations, resets, OIDC and SAML callbacks, and what SCIM and
administrators write to a user. `Start...` and the checks of a handler up to
its first write are one action, and then one action for each further database
call; `Stop` ends a request anywhere. Passwords are numbered in the order in
which they are chosen, so that a session or a challenge remembers which it came
from. The history variables count failures, note the password of the last
finished reset and which second factors were proven. `overlapped` records
whether two requests were ever served at once.

### Access

`Access.tla` is what a request passes before it is served, one action per
guard, because each of them reads on its own: `Resolve` (session, API key or
OAuth token; `ApiKeysService`, `OAuthService`), `Limit` (`RateLimitGuard`),
`Licence` (`ModuleLicenseGuard`), `Scoped` (the entity scope of the service).
What a route asks for comes with the request (`asks`). Only the controllers of
contracts, orders, requests and accruals are held against a licence, and only
the lists (of invoices with their export and the next one, of orders, requests,
contracts and master data) against the entities of their user. A route by id, the queue of exceptions and every other route of invoices
look at neither, so that whoever has a session of the tenant is served whatever
he names: `AdmittedIsEntitled` says of those no more than that the bearer was
good. No controller reaches the branch of `buildScopedEntityWhere` without a
user; to the model it is a list that asks for nothing.

Between the guards move `RevokeKey`, `RevokeClient`, the updates of a user, the
licence, new entities, the clock, and a restart, which empties the buckets. An
update that writes the user's row (`role` of its slot) holds it to its end, so
that two of them go one after the other. One of memberships alone
(`PATCH` with `entityIds` or `defaultEntityId` only) is an empty write to Prisma,
which locks nothing: it reads what is committed when it deletes or clears
(`WipeMembers`, `SetDefaultEntity`) and commits later (`GiveMembers`,
`MarkDefault`), or fails on the unique key or on the membership that is gone.
Two of these leave a user two defaults. `DefaultPerOverlap` states what is left:
not more defaults than such updates were under way at once (`most`), updates that
hold the row counted once; hence one where none overlap.

An access token of a client counts in the bucket of the user who created the client, as the code has it. The comment of `rate-limit.guard.ts:13`
speaks of a sliding window; the code's is fixed, so `LimitHolds` states what it
gives: never more than twice the limit in a stretch as long as the window. A
token issued from a client that was read before its revocation is harmless,
because resolving a token reads the client again (`AdmittedIsEntitled`).

### InvoiceWorkspace

`InvoiceWorkspace.tla` is the review page of one user. The router keeps one
component for all invoices, so its states outlive the move to another one
(`Go`, the queue's next). Functions of the page are cut at each `await`:
`AtServer` are the calls, `AtPage` the points at which they go on. A line of the
form carries the invoice whose row it is, or none: `AddEditLine` adds one
without an id, which `Patch` creates on the invoice of the address, while a line
with an id must be one of that invoice and the lines that were not sent are
deleted. The history `hasty` names what the page does not bear. It is set when
the user leaves an invoice (a link, next, or a decision, which goes on to the
next one) while an answer is still to come, does anything while the page leaves
or before its form is filled (also after a load that failed), or puts in a value
picked on the document of another invoice (`armedChip` is not reset by a move).
Then the fields, a new line, and the loss of its own lines can reach another
invoice: a save before the form is filled writes the form of the invoice that
was left. Saving, posting, submitting and recalling while other answers are
still to come is not hasty: these calls overlap freely and `FormsStayHome` holds
of them. Left out: that the page is unmounted by
"Back", which ends it, and other people who work on the same invoices, which is
the subject of `InvoiceApproval`.

### ProcurePages

`ProcurePages.tla` is four pages that work alike (requests, orders and
accruals, contracts, one contract): `kind` picks one. A button is there for the
statuses that `Offer` lists and is accepted by the API in those that `Transit`
lists, both translated from their own source. `PressButton` sets `busy`,
`Perform` or `Refuse` is the API, `ServeList` and `ShowRows` load the list
again, `Settle` is `finally`. Renewing and the transitions of the workspace of
a contract do not set `busy` (`Unguarded`). The forms have no key and are
uncontrolled: Edit on a second row while that of a first is open keeps the
first one's values, and a form of a contract that expires or is cancelled under
it (`ContractWorkspacePage.tsx:140-183`) loses most of its fields and saves
them as empty; `switched` records both. `vain` collects every refusal of a
document that nobody else has changed since its row was loaded, saves included.
`NothingInVain` says which ones there are. The code and a document disagree on
one: the pages offer Edit for requests and contracts in approval
(`PurchaseRequestsPage.tsx:463`, `ContractWorkspacePage.tsx:221`), as
`docs/architecture/COMMAND_CENTER_AND_ADMIN.md:73` and `:75` say, and the API
refuses it (`purchase-requests.service.ts:112`). The other is a form left open
while its user moves the document on (a draft that is submitted): it is refused
when it is saved.

### AdminPage

`AdminPage.tla` is the administration page without its tab of exchange rates.
One component holds the states of all tabs and loads nearly everything at once;
the approval tab loads again for each module, and each load goes on with the
module of its render. Forms are mounted, filled and unmounted as React does
(`Renders`, keys included). `careless` names what the page does not bear: a user
edited over another one (a stale row then replaces memberships), single sign-on
opened before it was loaded (it keeps the defaults and saves them), and answers
that are lost, overtaken or not waited for. Toggles send the explicit opposite
of what is shown. A deleted rule leaves its form open, and saving it gets a 404,
which is why `refused` may contain `"rule"`. The search of users and the audit
log only show and are left out.

### RatesTab

`RatesTab.tla` is the tab of exchange rates: asked for no date the API answers
the latest, which the page fills into its three selects and asks for again
(`seed`, `seeded`). Leaving the filter's field or Enter starts a load, and the
selects stay enabled during a synchronisation. `crossed` records that a call
did not wait for another one, or failed.

## Runs

| run | instance | shows |
|---|---|---|
| `serial` | 2 invoices, 2 users, 1 request that may stop at the gates, 2 policies, one with a conflict and a delegation, doubles that count on the day of their capture only | handlers one after the other: whoever has a task on an invoice in approval is independent of its recorded submitter or stands in for somebody who is, whatever is reconfigured meanwhile; tasks follow submissions, what is in approval is complete and has no recent double, only an open task revives a final invoice, only the hard limit leaves an invoice in approval without a task |
| `overlap` | 1 invoice, 2 requests that may stop anywhere but before billing, 2 policies | types, billing, rounds of tasks and exports under every interleaving |
| `metering` | 3 captured invoices, 2 requests that submit or force, limit 1, fairness | the overshoot of the limit, the refinement of `UsageMeter` with its liveness, every approval billed in the end |
| `void_approved` | 1 invoice, 1 request | expected violation, see below |
| `capture` | 2 messages with one file, 2 requests, every call throws, crashes; 3 endpoints, 1 dispatch, restarts, fairness | one invoice per message, completed means captured, a file is paid once per overlapping request, every accepted message settles; deliveries tell the truth, none is skipped without a reason, every dispatch ends |
| `scanned_contract` | 1 message, 1 request | expected violation |
| `finance` | orders: 1 order, 2 lines, 2 requests, 3 tables of lines, failures before writing; accruals: 1 order, 3 rows, 2 calls, 2 stages; connectors: 2 invoices, 2 syncs; FX: 2 currencies, 3 days, batches of one, 2 syncs | receipts within the order and refinement of `OrderBook` if served one by one; drafts, approval chains and amounts of accruals; what is marked was delivered, what is billed is marked; holes in the rate history have a reason, reports do not change, the rates of a cross rate are of one day |
| `received_twice` | the orders of `finance` | expected violation |
| `corrected` | the rates of `finance` | expected violation |
| `office` | contracts: 1 contract, 2 purchase requests, 3 order numbers, 2 requests, 2 stages, 2 signers; review: 2 invoices, 2 calls, 3 things done; procurement pages: 2 documents, 2 calls, 2 things done; administration: 2 modules, 2 rules, 2 users, 2 entities, 2 calls, 2 things done; rates: 2 tables, 2 days, 2 filters, 2 calls, 2 clicks | no unsigned envelope completes, a proposal is accepted once, a conversion makes an order and at most one per overlapping request, without overlap approval, signature and conversion keep their order; who leaves an invoice only when all answers are there writes and decides only what the review page shows and keeps its lines; what a row of the procurement pages offers is accepted, but for Edit in approval, until somebody else moves the document, and no form saves another row's values; the administration changes what it shows; rates fit their table and date |
| `converted_twice` | the contracts of `office` | expected violation |
| `signin` | sign-in: 1 user, 2 requests, 2 invitations, 2 resets, 1 login state, 3 failures, 3 passwords; access: 1 key, 1 client, 2 entities, 2 slots, 3 requests, a window of 2 ticks and a limit of 1 | a login state opens one session, an invitation one per overlapping request; the lockout locks in time under overlap; without overlap tokens are used once, a reset leaves no old session, a second factor is asked for once it is proven; whoever is served had what its route asks for, the rate limit holds twice over, a user has no more defaults than updates of memberships alone overlapped |

Bounds. Two requests are enough for every pair of handlers to interleave at
every call, and every write in these services conflicts with at most one read
of one other handler; the theorems below remove the bound for the invariants
that matter most. Two invoices are needed for duplicates, and three for a limit
of one that two requests pass: with two, no overshoot could exceed the bound.
To pay for the third, `metering` sends only the requests that approve
(`ApprovingNext`); its two safety properties are proved for all requests. The
interleaving of every pair of handlers on one invoice is in `overlap`.
`MaxRound`, `MaxCopies`, `MaxAudited` and
`MaxPaid` bound counters, each in the guard of the action that starts a request
(`MaxRound = 2` lets an invoice be submitted, sent back and submitted again;
`metering` sends no export). `HardLimit` is 1 or 2,
so that it is reached. `metering` starts with captured invoices, which are
states the capture actions reach.

`finance`, `capture`, `signin` and `office` put modules that share no variable side by side: what
one sees of another moves freely in its own module, so `part` (`site`, `desk`) picks the one
that a behaviour is about and the others rest. Each half is thereby explored
completely, and one run answers for all of them. `Scope` bounds it further by
constraints on states, not on steps: one accrual at a time beyond a draft (a
second one is independent of it, since only generation looks across rows);
either two invoices in one sync or one invoice in two; one connection that is
not as it was at first; one corrected rate, corrected after it was stored; FX
syncs that overlap only in the first two of the three days, which is enough for
a hole between two stored days. `Window = 0` and `Batch = 1` make the second
request cover today alone and every insert a cut-off point. In `signin`, `Scope`
lets second factors be set up where they meet resets, and passwords be mistaken
elsewhere (once where there are invitations), and keeps the clock still and
keys, tokens, licence and buckets as they were where users are updated; requests
on their way at once are of one kind of route; `PartsSpec` starts with the tokens
of one way to sign in.
`LastTick = 2` lets a full window pass. The bound in
`LockedInTime` is that of two slots: a late count takes back what was made
meanwhile, once from each value of the count.

`serial` lets a request stop before the first of the writes that belong
together (`AtGates`), `overlap` anywhere but before billing
(`BeforeBilling`).
`serial` has `Lookback = 0`, so that a day makes an invoice too old to count;
`SerialScope` lets one of its two invoices be submitted twice, and a month end
only while both are new. Its invoices are interchangeable (`MCSymmetry`), like
the slots of `overlap`, which has one invoice and therefore leaves the days out
(`TimelessSpec`).

The contracts of `office` start in one of three states the system reaches, each of which
lets one part of it go on (`PartsSpec`): the approval and signature of a
contract; the acceptance of the proposal of an active contract and what becomes
of it; requests by hand and their conversion. The parts meet only in the two
handlers that the second and the third state contain. The history `together` notes whether
two requests were ever served at once: `SerialIsOrderly` is about the
behaviours in which they were not.

The pages start a handful of things and are then followed until every answer is
in or lost. Two calls are what it takes for one answer to overtake another, two
rows for one to be taken for the other; `MaxActs = 3` lets a user of the review
page move on, come back and save, `MaxSteps = 2` open, save and press. For the
page of exchange rates `MaxClicks = 2` is a change of the selects within the
load of another. `Reviewing` and `OneTab` leave out what the first two steps of
a hasty user and the tabs beside the users have no part in: the tabs share no
state but the loads. `SavedIsOwn`, `NothingInVain`, `FormsStayHome` and
`RatesFitTable` are proved without any of these bounds. Where a call takes a
slot, it takes the first free one (`CHOOSE`), as slots differ in nothing.
The provider has no rate for one of the two currencies on the second of the
three days, so that a cross rate takes its halves from two days.

Deadlock is checked except where the system may stop: in `finance` all orders
may be closed and all syncs done, in the captures all messages handled, in
`office` everything cancelled or expired, in `signin` the tokens used up.

Fairness. `WF_vars(Step(r))`: an accepted request whose call can return goes
on, which is how a Node process treats an awaited promise. Starting a request
is never fair, and neither is the end of a month. Liveness is claimed only for
instances in which requests do not stop; `EverySettles` holds with calls that
throw, except the call that marks a message failed, because nothing marks it
afterwards. It fails without the assumption because
`ingestEmail` has no retry, which is why the model records the slot that died
there (`cut`). `DispatchesEnd` assumes `WF_webhookVars(DispatchStep(d))`, that a
POST returns or is aborted after five seconds, and that the server does not
restart; no receiver is assumed to answer.

## Where the code and its documents disagree

Five runs expect a violation and name the text they refute in `PROJECT.json`:

- `void_approved`: voiding leaves the approval tasks open, and `decideTask`
  finalizes without reading the invoice's status, so a void invoice is approved.
- `received_twice`: overlapping receipts are both accepted and audited, one is lost.
- `scanned_contract`: the extraction cache is keyed by the hash alone.
- `converted_twice`: a conversion looks for an order before its transaction,
  which does not look again; two numbers make two orders.
- `corrected`: the last days are asked for again "to pick up corrections", but
  stored with `skipDuplicates`, so a corrected rate never arrives.

More can be reproduced with the configuration of a run and another property or
value:

- `MonthWithinHardLimit` with `metering.cfg`: the limit is read before the
  approval is written;
- `ExportedOnce` with `serial.cfg` and `MaxCopies = 2`: an exported invoice can be sent back and
  exported again;
- `ApprovedIsMetered` with `overlap.cfg` and `FailAt <- Steps`: a request stops
  before billing and nothing makes up for it;
- `GatePassed` with `overlap.cfg`: an update after the gate;
- the first conjunct of `SignsInOrderly` without `~overlapped`: two parallel
  guesses count once, and a count written late takes a lock back.

What no text of the repository denies is stated in the properties as the code
has it: QuickBooks bills an invoice again at each sync that lists it
(`BilledPerSync`); the demo connector marks invoices approved after its file
was written (`BooksAgree`); a late final approval takes a posted accrual
back to approved, and it can be posted again (`PostedAfterChain`); a challenge
for a second factor that was issued before a reset still opens a session, and
`login` looks at the lock's time and not at the status `locked`, so a user
who was deactivated can log in with his password (`SignIn`, `CanLogIn`).

In contracting, the generic transition also leads from `in_approval` and
`pending_signature` to `active` without a signature, although
`src/docs/architecture/GABI_PROCURE_PARITY.md:16` speaks of requests from
signed contracts; no property claims what that transition table openly denies.

## Proofs

All theorems hold for every value of the constants under the named assumptions
of the modules (finiteness of the ids, the shape of policies and of tables). A
property that a run checks for handlers served one after the other is proved
for one request slot, or for behaviours whose history says that nothing
overlapped; the assumption is named with the theorem. Each proof follows the
same plan: a type invariant strengthened by what every call in flight holds, an
invariant with a lemma for each action, and the property read off from it.

`Sums` holds what several of them need about sums over finite sets: that the
recursive function the library adds up with exists, that the sum does not depend
on the order, and how it changes with one element. The prover has no induction
over sets; the lemmas say it as a least counterexample: if a set violated the
claim, one of the smallest size would, and it is neither empty nor one element
more than a smaller one.

`InvoiceApproval_proofs`

- `TypeCorrect`: the type invariant alone is not inductive: a call that several
  handlers make is followed by a different call for each (`AfterGate`,
  `AfterClose`), so `StepOK` says which handlers may be at which call, and that
  a request there has an invoice.
- Billing: the strengthening says which requests hold the right to bill. Call a
  request *late* when it is past the limit check; at the moment the last one
  passed, `mtd` was below the limit, so the events written plus the late
  requests never exceed the limit plus the slots less one. It gives
  `OvershootBounded` (`HardLimitOvershoot`) and the enabling condition of
  `UsageMeter!Approve`, hence `ImplementsMeter`. `MeterLosesNothing` and
  `AllApprovedBilled` assume `"bill" \notin FailAt`: unless a request stops at
  that very call, no step of the meter loses an event, and an invoice that is
  approved or exported has its event or a request about to write it.
- `SerialTasksFit`, `SerialGate`, `SerialAsked`, `SerialFinal`: the properties
  of `serial`, under `Serial` (one slot) and `StopsAtGates` (a request stops, if
  at all, before the first of the writes that belong together). The first is
  what the properties are about; the second is needed because a request that
  stops between its writes leaves tasks of an invoice that is not in approval,
  which the code does not repair. The invariant follows the request through its
  handler: what it has read of the invoice is still true, since nobody else
  writes, and which of its writes are done. `SerialAsked` follows the assignees
  besides (`DutiesInv`): chosen for the submitter of the call, written as tasks
  once the earlier ones are closed, and only then recorded with the submitter.
- `RoundsBounded`: however submissions overlap, an invoice has open tasks of at
  most as many rounds as requests can be at it.

`EmailCapture_proofs`

- `OneInvoice`, `TypeCorrect`: at most one request works on a message between
  `lookup` and `audit`, because `CreateRow` succeeds once; a request before
  `create` has captured nothing.
- `PaidForOverlapsOnly` (`PagesInv`): the pages of a file are paid for again only
  by requests that looked into the cache before the first result was in it; each
  of them took a slot then.
- `Settles`, in a section of its own about webhooks: the endpoints of a dispatch
  are untouched, under way or settled, and only the one under way may be pending.

`Finance_proofs`

- Orders. `NeverOverReceived`: the quantities a request is about to write were
  checked against what it read, and `ordered` never changes after creation, so
  the absolute write is in range whatever others wrote. This is why a lost
  update can hide a receipt but not exceed the order. `SerialKeepsTheBook` is
  the refinement of `OrderBook` for one slot and `Finishes`, which says that a
  receipt stops only before its first write or after its last: one that stops
  between the lines and the status leaves an order complete that the code lets
  a buyer cancel. `ReceiptsEndInAgreement` is about receipts
  that overlap and stop, if at all, before they write (`StopsEarly`): what a line
  holds is covered by its audit entries and by the receipts that have written it
  and are yet to audit it (`NoteInv`), and so is what a receipt has read. A lost
  update makes a line hold less, never more, and once no request is under way
  the audit entries alone cover it.
- Accruals. `PostedWhenApproved` (`ChainInv`), `AmountStays` and `DraftsBounded`
  (`DraftsInv`): an orderly behaviour has one call at a time, so what it read is
  still true; without order, a draft is doubled only by calls that both looked
  before either wrote, one per slot.
- Rates. `ReportsKeepStanding` (`RatesInv`): what a call is about to store was
  published, and a stored day is never stored again. `TableStaysTruthful`
  (`TableInv`): statistics never lead the table, and the active one is the one
  chosen last, but for a sync that had looked before the choice.
  `HolesKeepAReason` (`HolesInv`): a day missing between two stored ones was not
  published when the batch that skipped it was fetched, or belongs to a batch of
  a call that is still storing or stopped. `CrossDaysAgree` rests on `CrossInv`:
  a sync has at most one day half stored, of the currencies the provider has.

`ErpSync_proofs`

- `MarksAreRight` (`BooksAgree`): a call knows at each step what went through
  and what failed, both among what was listed; what is left to push is neither,
  and a call that has written its file has its job before it marks. It never
  forgets what went through, and a bill with an answer is in the call that
  pushed it. `BilledOncePerSync` needs for QuickBooks that the bills of an
  invoice never exceed the syncs that listed it and have had their turn to
  push it.

`SignIn_proofs`

- `SignInTypes`, `LoginsOpenOnce`, `InvitesPerOverlap`: a login state is deleted
  by one request only, and only who deleted it opens the session; an invitation
  is accepted again only by requests that read it before it was marked.
- `OrderlySignIn` (`OrderlyInv`): as long as nothing overlapped, at most one
  request is under way and what it read is still true. The attempt to prove it
  showed the property false for a user whose row is activated again without a
  password; `Match` now compares with the passwords that were really chosen.
- `LocksInTime`: with at most two requests at a time, an account is locked after
  at most `MaxFailed * (MaxFailed + 3) / 2` wrong passwords. A request that has
  read the count can, when it writes, take back what was made since. `Ahead` is
  how many values the count of a row has still to come to, `Left` the same once
  the write in flight has been made, and `Room` what two such numbers leave to
  be counted: all values below the larger, once each, and the smaller once more.
  The wrong passwords so far plus `Room` never exceed the bound (`LockInv`);
  steps that count nothing (`Mildly`) leave both alone or start anew.

`Access_proofs`

- `AdmittedWereEntitled`: `lacks` of a request, of what its route asks for,
  shrinks with everything that supplies what it lacked, and each guard reads at a
  moment since its arrival.
- `LimitsHold`: the counter admits at most `PerWindow` in each of its fixed
  windows, and a stretch of the clock as long as a window reaches into two of
  them at most, the present one and the one before; hence twice the limit, and
  not the limit. The sum over the clock's readings is split at the border.
- `DefaultsPerOverlap`: for any set of updates that have read the memberships,
  the defaults none of them saw and the updates together are no more than `most`
  (`DefaultInv`). One that reads sees every default; one that ends takes or clears
  those it saw and adds one, in the place it had in the set. Updates that write
  the row never read side by side, so they count once.

`Office_proofs`, a section each for contracts and four of the pages

- `OnlySignedCompletes`: whoever is about to write an envelope read one that was
  completed only with every signature; envelopes are overwritten whole, so a
  signature may get lost, but none is made up. `ProposalAcceptedOnce` rests on
  the unique number: an accepted proposal has left the contract's number on a
  request, which keeps it. `ConversionsBounded` counts slots: an order and a
  request about to make one each take up one, and a request gets there only
  while there is no order. `OverlapsAreBounded` puts both together.
- `OneAtATimeIsOrderly`: as long as nothing ran together, what a request in
  flight read is still so (`StillSo`). Handlers that finish in one call may run
  in between: they create rows that no request in flight has read.
- `FormsAlwaysStayHome` (`ReviewInv`, `Patient`): unless the user was hasty, all
  calls under way are for the invoice of the address, what they send and were
  answered is that invoice's own (`FitsCall`), and one that leads to another
  invoice or fills the form is the only one; so whatever order they are served
  and answered in, the form holds what is the invoice's own once it is filled
  (`FitsForm`), and a save of it leaves no line of the document out
  (`LinesSaved`).
- `SavesAlwaysOwn`, `NoButtonInVain` (`ProcureInv`): first, that every button
  offered for a status is accepted in it, but Edit in approval
  (`ButtonsAreSound`, for each page and
  status). Then, unless something went wrong that `troubled` names, there is
  one call that changes anything, because `busy` or the lack of it keeps others
  away; the rows show what it has done unless it is on its way to show it
  (`RowsCurrent`); and a list is of the past of the documents (`Seen`): same
  counts, same status. So a button that meets a document nobody else has
  touched meets the status it was offered for. `NullAssumption` says that the
  state null is no list of documents.
- `AdminStaysInOrder` (`AdminInv`): a mounted form holds what it was opened for
  (`FormsFilled`), so a call that saves sends the row's own values. Unless
  something was lost or not waited for, a load was overtaken and is still to come
  (`Overtaken`: showing it is what the history calls out of order), or the newest
  load for a module is for the one that is chosen and the heading is right once
  none is under way (`InOrder`). What the page deleted is no longer listed, or
  the call that deleted it is still busy and everything that would list it again
  was asked for before it (`DeletedShown`), so only a form can be about a row that
  is gone. `NamesAssumption` says that the identifiers of different things differ.
- `RatesAlwaysFit` (`RatesTabInv`): unless calls crossed, one is under way, and
  the table, date and filter it was made with are those of the selects, or are
  the ones it is about to set.

Only model-checked, because it is out of the prover's reach: what must happen
under fairness (`EverySettles`, `DispatchesEnd`, the fairness half of
`ReliableMeterSpec`), which needs ENABLED. `LocksInTime` is stated, like the
bound in the property, for two slots.

## Not modelled, and the plan

- `contracts`: amendments and renewals of an active contract but for their
  buttons, and the update that is refused while a contract is in approval but
  writes after its check.
- `identity`: approval delegations, logout.
- `integration`: master-data imports, credentials.
- Web application: the list of invoices, master data, the directory, the
  integration centre and the reports, which show rows and send single changes.
- Master data, notifications, audit, ops and search write single rows that
  nothing else races with; the mobile placeholder and the packages hold no
  state. None of them is planned.
- Proofs: `LockedInTime` for more slots, which needs a bound that grows with them.
