------------------------------ MODULE MCOffice ------------------------------
(* Small instances of Contracting and of the pages of the web application. *)
(* They share no variable: a page sees whatever its own module lets the    *)
(* API answer.  So each is checked with the others at rest.                *)
EXTENDS MCContracting, InvoiceWorkspace, ProcurePages, AdminPage, RatesTab

CONSTANTS i1, g1, d1, d2, a1, a2, b1, b2

VARIABLES
  desk,     \* which of them a behaviour is about
  goal      \* of the administration, the tab beside the users

Desks == {"contracts", "review", "procure", "rates", "admin"}

MCAreaOf == b1 :> a1 @@ b2 :> a2
MCCalendar == <<<<2025, 12, 31>>, <<2026, 1, 2>>>>

OfficeInit ==
  /\ desk \in Desks /\ goal \in Tabs \ {"users", "modules"}
  /\ desk # "admin" => goal = "entities"
  /\ PartsInit /\ (desk # "contracts" => Converting)
  /\ WorkspaceInit /\ (desk # "review" => at = i1 /\ fetch[g1] # Quiet)
  /\ ProcureInit /\ docs[d2].status = "draft" /\ call[g1] # NoCall
  /\ desk # "procure" =>
       kind = "orders" /\ docs[d1].status = "draft"
  /\ AdminInit /\ view.area = a1 /\ flight[g1] # Grounded
  /\ RatesInit /\ load[g1] # NoLoad
  /\ desk # "rates" => last = [t \in Tables |-> 0] /\ active = a1

pages == <<workspaceVars, procureVars, adminVars, ratesVars>>

OfficeNext ==
  /\ \/ /\ desk = "contracts" /\ Next
        /\ UNCHANGED pages
     \/ /\ desk = "review" /\ WorkspaceNext
        /\ UNCHANGED <<vars, procureVars, adminVars, ratesVars>>
     \/ /\ desk = "procure" /\ ProcureNext
        /\ UNCHANGED <<vars, workspaceVars, adminVars, ratesVars>>
     \/ /\ desk = "admin" /\ AdminNext
        /\ UNCHANGED <<vars, workspaceVars, procureVars, ratesVars>>
     \/ /\ desk = "rates" /\ RatesNext
        /\ UNCHANGED <<vars, workspaceVars, procureVars, adminVars>>
  /\ UNCHANGED <<desk, goal>>

(* On the review page a recognized value is picked before much else is     *)
(* done, and somebody who did not wait does no more than two things.       *)
Fetching == {c \in Fetches : fetch[c] # Quiet}
Reviewing ==
  /\ armed # Blank => acts <= 1 /\ Cardinality(Fetching) <= 1
  /\ hasty => acts <= 2

(* The administration is seen one tab beside the users at a time, and left *)
(* for it before much is done; others change what it lists; where the      *)
(* order was lost, little more is done.                                    *)
Goals == {goal, "users"}
           \union (IF goal = "delegations" THEN {"modules"} ELSE {})
RowsOf ==
  CASE goal = "workflow" -> Bands \union Sod
    [] goal = "delegations" -> {"delegation", "module"}
    [] goal = "keys" -> {"key"}
    [] goal = "oauth" -> {"client"}
    [] goal = "webhooks" -> {"endpoint"}
    [] goal = "notifications" -> {"note"}
    [] OTHER -> {}
OneTab ==
  /\ view.tab \in Goals /\ meddled \subseteq RowsOf
  /\ view.editing["user"] # NoOne => goal = "entities"
  /\ view.tab = "users" => goal = "entities" \/ deeds = 0
  /\ "order" \in careless => deeds <= 1

Scope == Reviewing /\ OneTab

OfficeSpec ==
  OfficeInit /\ [][OfficeNext]_<<vars, pages, desk, goal>>

(* The requests about contracts are told apart by nothing.                 *)
AlikeRequests == Permutations(Requests)
=============================================================================
