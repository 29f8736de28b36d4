----------------------------- MODULE UsageMeter -----------------------------
(***************************************************************************)
(* What usage metering promises the tenant, without the requests that      *)
(* produce it (usage.service.ts): an approved invoice is owed one usage    *)
(* event, the event is written once and never taken back, and the events   *)
(* of a month together with those still owed never pass Ceiling.           *)
(*                                                                         *)
(* Ceiling is HardLimit - 1 plus the number of requests the API serves at  *)
(* once: the limit is read in one database call and the event written in a *)
(* later one, so every request but one can pass the check too early.       *)
(***************************************************************************)
EXTENDS Naturals, FiniteSets

CONSTANTS Invoices, Ceiling

VARIABLES
  owed,     \* invoices marked approved whose usage event is not written yet
  billed,   \* invoices with a usage event, of any month
  mtd       \* the invoices among them whose event is of this month

vars == <<owed, billed, mtd>>

Init == owed = {} /\ billed = {} /\ mtd = {}

(* An invoice that has no usage event becomes approved.                    *)
Approve(i) ==
  /\ i \notin billed
  /\ Cardinality(mtd) + Cardinality(owed \union {i}) <= Ceiling
  /\ owed' = owed \union {i}
  /\ UNCHANGED <<billed, mtd>>

(* The usage event of an owed invoice is written.                          *)
Record(i) ==
  /\ i \in owed
  /\ owed' = owed \ {i}
  /\ billed' = billed \union {i}
  /\ mtd' = mtd \union {i}

(* A request stops between approval and metering: the event is lost.       *)
Lose(i) ==
  /\ i \in owed
  /\ owed' = owed \ {i}
  /\ UNCHANGED <<billed, mtd>>

NewMonth ==
  /\ mtd # {}
  /\ mtd' = {}
  /\ UNCHANGED <<owed, billed>>

Next ==
  \/ \E i \in Invoices : Approve(i) \/ Record(i) \/ Lose(i)
  \/ NewMonth

Spec == Init /\ [][Next]_vars

(* When no request fails, an owed event is written in the end.             *)
ReliableNext ==
  \/ \E i \in Invoices : Approve(i) \/ Record(i)
  \/ NewMonth

ReliableSpec ==
  /\ Init
  /\ [][ReliableNext]_vars
  /\ \A i \in Invoices : WF_vars(Record(i))
=============================================================================
