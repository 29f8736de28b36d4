------------------------------ MODULE ErpSync ------------------------------
(***************************************************************************)
(* The connectors that push approved invoices to an accounting system, and *)
(* the export to a file (integration.service.ts: demo ERP, NetSuite,       *)
(* QuickBooks Online, CSV).                                                *)
(*                                                                         *)
(* A sync reads the approved invoices, pushes a bill for each (only a live *)
(* connection does), writes a file of what came of it, adds a job row and  *)
(* marks invoices as exported, one call after the other, while users       *)
(* approve and void invoices.  Between two calls it may throw, or the      *)
(* server may stop.                                                        *)
(*                                                                         *)
(* A definition Name_Slip is Name with a plausible slip, which a property  *)
(* below must catch; nothing refers to it.                                 *)
(*                                                                         *)
(* Left out: credentials, vendors and amounts; the warning added to a job  *)
(* that succeeded in part.  An accounting system is what its client shows  *)
(* of it: NetSuite refuses a second bill with the same external id,        *)
(* QuickBooks books whatever it gets.                                      *)
(***************************************************************************)
EXTENDS Naturals, FiniteSets

CONSTANTS
  Invoices,  \* invoice ids
  Syncs,     \* calls of a sync or of the export
  NoPack     \* no connector

Packs == {"demo", "netsuite", "qbo"}
Erps == {"netsuite", "qbo"}

ASSUME PackAssumption == NoPack \notin Packs \union {"csv"}

ASSUME SyncsAssumption == IsFiniteSet(Syncs)

VARIABLES
  invoice,     \* the status of an invoice, and whether exportedAt is set
  connection,  \* the ConnectorConnection rows
  bills,       \* the accounting systems: bills booked for an invoice
  sync,        \* a call: what it does next and what it knows
  jobs,        \* the IntegrationJob rows of a call
  written,     \* history: the calls whose file was written
  lost,        \* history: invoices whose bill was booked without an answer
  broken,      \* history: the calls that threw or stopped
  meanwhile    \* history: invoices approved since a call read them

syncHistory == <<written, lost, broken, meanwhile>>
erpVars == <<invoice, connection, bills, sync, jobs, syncHistory>>

NoSync == [step |-> "off", pack |-> NoPack, live |-> FALSE,
           listed |-> {}, rest |-> {}, ok |-> {}, errors |-> {}]

ErpInit ==
  /\ invoice = [i \in Invoices |-> [status |-> "open", exported |-> FALSE]]
  /\ connection = [p \in Packs |-> "absent"]
  /\ bills = [p \in Erps |-> [i \in Invoices |-> 0]]
  /\ sync = [s \in Syncs |-> NoSync]
  /\ jobs = [s \in Syncs |-> {}]
  /\ written = {} /\ lost = {} /\ broken = {}
  /\ meanwhile = [s \in Syncs |-> {}]

-----------------------------------------------------------------------------
(* Users *)

Syncing(s) == sync[s].step \notin {"off", "done", "stopped"}

ApproveInvoice(i) ==
  /\ invoice[i].status = "open"
  /\ invoice' = [invoice EXCEPT ![i].status = "approved"]
  /\ meanwhile' = [s \in Syncs |-> IF Syncing(s) THEN meanwhile[s] \union {i}
                                   ELSE meanwhile[s]]
  /\ UNCHANGED <<connection, bills, sync, jobs, written, lost, broken>>

(* Whatever was done with it.                                              *)
VoidInvoice(i) ==
  /\ invoice[i].status # "void"
  /\ invoice' = [invoice EXCEPT ![i].status = "void"]
  /\ UNCHANGED <<connection, bills, sync, jobs, syncHistory>>

Connect(p, modes) ==
  /\ \E mode \in modes :
       /\ connection[p] # mode
       /\ connection' = [connection EXCEPT ![p] = mode]
  /\ UNCHANGED <<invoice, bills, sync, jobs, syncHistory>>

ConnectDemoErp == Connect("demo", {"mock"})
ConnectNetsuite == Connect("netsuite", {"mock", "live"})
ConnectQbo == Connect("qbo", {"mock", "live"})

Disconnect(p) ==
  /\ connection[p] \in {"mock", "live"}
  /\ connection' = [connection EXCEPT ![p] = "disconnected"]
  /\ UNCHANGED <<invoice, bills, sync, jobs, syncHistory>>

DisconnectDemoErp == Disconnect("demo")
DisconnectNetsuite == Disconnect("netsuite")
DisconnectQbo == Disconnect("qbo")

-----------------------------------------------------------------------------
(* A sync *)

Becomes(s, call) == sync' = [sync EXCEPT ![s] = call]
Go(s, step) == Becomes(s, [sync[s] EXCEPT !.step = step])
End(s, step) == Becomes(s, [sync[s] EXCEPT !.step = step, !.live = FALSE,
                                           !.rest = {}, !.errors = {}])
Doing(s, step) == sync[s].step = step

(* The connection is read once: what becomes of it meanwhile is not seen.  *)
StartSync(s, p) ==
  /\ Doing(s, "off") /\ connection[p] \in {"mock", "live"}
  /\ Becomes(s, [NoSync EXCEPT !.step = "read", !.pack = p,
                               !.live = connection[p] = "live"])
  /\ UNCHANGED <<invoice, connection, bills, jobs, syncHistory>>

SyncDemoErp(s) == StartSync(s, "demo")
SyncNetsuite(s) == StartSync(s, "netsuite")
SyncQbo(s) == StartSync(s, "qbo")

StartExport(s) ==
  /\ Doing(s, "off")
  /\ Becomes(s, [NoSync EXCEPT !.step = "read", !.pack = "csv"])
  /\ UNCHANGED <<invoice, connection, bills, jobs, syncHistory>>

(* All the approved invoices, also those that were pushed before.          *)
ReadApproved(s) ==
  LET approved == {i \in Invoices : invoice[i].status = "approved"}
  IN  /\ Doing(s, "read")
      /\ Becomes(s, [sync[s] EXCEPT
           !.listed = approved,
           !.step = IF sync[s].live /\ approved # {} THEN "push" ELSE "write",
           !.rest = IF sync[s].live THEN approved ELSE {},
           !.ok = IF sync[s].live THEN {} ELSE approved])
      /\ meanwhile' = [meanwhile EXCEPT ![s] = {}]
      /\ UNCHANGED <<invoice, connection, bills, jobs, written, lost, broken>>

(* What comes of a push: whether a bill is booked, and the answer.         *)
Booked == [booked |-> TRUE, answer |-> "ok"]
Outcomes(p, i) ==
  {[booked |-> FALSE, answer |-> "error"], [booked |-> FALSE, answer |-> "none"]}
    \union IF p = "netsuite" /\ bills[p][i] > 0 THEN {}
           ELSE {Booked, [booked |-> TRUE, answer |-> "none"]}

Push_Retry(s) ==
  LET p == sync[s].pack
  IN  /\ Doing(s, "push")
      /\ \E i \in sync[s].rest : \E o \in Outcomes(p, i) :
           LET rest == IF o.answer = "none" THEN sync[s].rest
                       ELSE sync[s].rest \ {i}
           IN  /\ bills[p][i] < 3
               /\ bills' = [bills EXCEPT ![p][i] =
                              IF o.booked THEN @ + 1 ELSE @]
               /\ Becomes(s, [sync[s] EXCEPT
                    !.rest = rest,
                    !.step = IF rest = {} THEN "write" ELSE "push",
                    !.ok = IF o.answer = "ok" THEN @ \union {i} ELSE @])
               /\ lost' = lost
      /\ UNCHANGED <<invoice, connection, jobs, written, broken, meanwhile>>

(* The invoices one after the other; neither an error nor an answer that   *)
(* does not come within thirty seconds ends the loop.                      *)
Push(s) ==
  LET p == sync[s].pack
  IN  /\ Doing(s, "push")
      /\ \E i \in sync[s].rest : \E o \in Outcomes(p, i) :
           /\ bills' = [bills EXCEPT ![p][i] = IF o.booked THEN @ + 1 ELSE @]
           /\ Becomes(s, [sync[s] EXCEPT
                !.rest = @ \ {i},
                !.step = IF sync[s].rest = {i} THEN "write" ELSE "push",
                !.ok = IF o = Booked THEN @ \union {i} ELSE @,
                !.errors = IF o = Booked THEN @ ELSE @ \union {i}])
           /\ lost' = IF o.booked /\ o # Booked
                      THEN lost \union {<<p, i>>} ELSE lost
      /\ UNCHANGED <<invoice, connection, jobs, written, broken, meanwhile>>

Failed_AnyError(s) == sync[s].errors # {}

(* A sync that pushed some of its invoices has not failed.                 *)
Failed(s) == sync[s].errors # {} /\ sync[s].ok = {}

WriteArtifact(s) ==
  /\ Doing(s, "write")
  /\ written' = written \union {s}
  /\ Go(s, IF Failed(s) THEN "fail" ELSE "job")
  /\ UNCHANGED <<invoice, connection, bills, jobs, lost, broken, meanwhile>>

CreateJob(s) ==
  /\ Doing(s, "job")
  /\ jobs' = [jobs EXCEPT ![s] = @ \union {"succeeded"}]
  /\ Go(s, "mark")
  /\ UNCHANGED <<invoice, connection, bills, syncHistory>>

(* Which invoices the last call writes to.                                 *)
(* The demo ERP: whatever is approved by now.  The others: what was        *)
(* pushed, or listed, whatever its status by now.                          *)
Marks(s) ==
  CASE sync[s].pack = "demo" ->
         {i \in Invoices : /\ invoice[i].status = "approved"
                           /\ ~invoice[i].exported}
    [] sync[s].pack \in Erps -> {i \in sync[s].ok : ~invoice[i].exported}
    [] OTHER -> sync[s].listed

(* Only the export moves the status.                                       *)
MarkExported(s) ==
  /\ Doing(s, "mark")
  /\ invoice' = [i \in Invoices |->
       IF i \notin Marks(s) THEN invoice[i]
       ELSE [exported |-> TRUE,
             status |-> IF sync[s].pack = "csv" THEN "exported"
                        ELSE invoice[i].status]]
  /\ End(s, "done")
  /\ UNCHANGED <<connection, bills, jobs, syncHistory>>

(* The export has no handler; a sync adds a job that says it failed, also  *)
(* beside one that says it succeeded.                                      *)
ThrowSync(s) ==
  /\ sync[s].step \in {"write", "job", "mark"}
  /\ End(s, IF sync[s].pack = "csv" THEN "stopped" ELSE "fail")
  /\ broken' = broken \union {s}
  /\ UNCHANGED <<invoice, connection, bills, jobs, written, lost, meanwhile>>

FailJob(s) ==
  /\ Doing(s, "fail")
  /\ jobs' = [jobs EXCEPT ![s] = @ \union {"failed"}]
  /\ End(s, "stopped")
  /\ UNCHANGED <<invoice, connection, bills, syncHistory>>

(* The server stops.                                                       *)
StopSync(s) ==
  /\ Syncing(s)
  /\ End(s, "stopped")
  /\ broken' = broken \union {s}
  /\ UNCHANGED <<invoice, connection, bills, jobs, written, lost, meanwhile>>

-----------------------------------------------------------------------------
SyncStep(s) ==
  \/ ReadApproved(s) \/ Push(s) \/ WriteArtifact(s) \/ CreateJob(s)
  \/ MarkExported(s) \/ ThrowSync(s) \/ FailJob(s) \/ StopSync(s)

ErpNext ==
  \/ \E i \in Invoices : ApproveInvoice(i) \/ VoidInvoice(i)
  \/ ConnectDemoErp \/ ConnectNetsuite \/ ConnectQbo
  \/ DisconnectDemoErp \/ DisconnectNetsuite \/ DisconnectQbo
  \/ \E s \in Syncs : \/ SyncDemoErp(s) \/ SyncNetsuite(s) \/ SyncQbo(s)
                      \/ StartExport(s) \/ SyncStep(s)

ErpSpec == ErpInit /\ [][ErpNext]_erpVars

-----------------------------------------------------------------------------
(* Properties *)

SyncSteps == {"off", "read", "push", "write", "job", "mark", "fail",
              "done", "stopped"}
Call == [step : SyncSteps, pack : Packs \union {"csv", NoPack},
         live : BOOLEAN, listed : SUBSET Invoices, rest : SUBSET Invoices,
         ok : SUBSET Invoices, errors : SUBSET Invoices]

(* The types of the variables.                                             *)
ErpTypeOK ==
  /\ invoice \in [Invoices -> [status : {"open", "approved", "exported", "void"},
                               exported : BOOLEAN]]
  /\ connection \in [Packs -> {"absent", "mock", "live", "disconnected"}]
  /\ bills \in [Erps -> [Invoices -> Nat]]
  /\ sync \in [Syncs -> Call]
  /\ jobs \in [Syncs -> SUBSET {"succeeded", "failed"}]
  /\ written \subseteq Syncs
  /\ lost \subseteq Erps \X Invoices
  /\ broken \subseteq Syncs
  /\ meanwhile \in [Syncs -> SUBSET Invoices]

(* An invoice that says it was exported is in a file that was written, as  *)
(* one that went through, and a job tells so; or it was approved while a   *)
(* sync to the demo ERP was under way, which marks it with its own.        *)
MarkedIsDelivered ==
  \A i \in Invoices :
    invoice[i].exported =>
      \E s \in written :
        /\ "succeeded" \in jobs[s]
        /\ i \in sync[s].ok \/ (sync[s].pack = "demo" /\ i \in meanwhile[s])

(* An invoice with a bill in an accounting system says so, unless no       *)
(* answer came for it or the sync that pushed it is not through, threw or  *)
(* stopped: an error of another invoice does not leave it out.             *)
BilledIsMarked ==
  \A p \in Erps, i \in Invoices :
    bills[p][i] > 0 =>
      \/ invoice[i].exported
      \/ <<p, i>> \in lost
      \/ \E s \in Syncs :
           /\ sync[s].pack = p /\ i \in sync[s].ok
           /\ s \in broken \/ sync[s].step \in {"push", "write", "job", "mark"}

(* What an invoice says of its export agrees with the files and the bills. *)
BooksAgree == MarkedIsDelivered /\ BilledIsMarked

(* NetSuite books one bill for an invoice; QuickBooks one for each sync    *)
(* that listed it: marked or not, the next sync pushes it again.           *)
BilledPerSync ==
  \A i \in Invoices :
    /\ bills["netsuite"][i] <= 1
    /\ bills["qbo"][i] <=
         Cardinality({s \in Syncs : sync[s].pack = "qbo" /\ i \in sync[s].listed})
=============================================================================
