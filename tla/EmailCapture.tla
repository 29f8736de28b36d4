---------------------------- MODULE EmailCapture ----------------------------
(***************************************************************************)
(* Capture of documents: invoices that a mail provider delivers, documents *)
(* that users upload or scan, and the extraction cache they share          *)
(* (capture.service.ts, document-extraction.service.ts).                   *)
(*                                                                         *)
(* A message may be delivered any number of times, also while an earlier   *)
(* delivery is being served.  A request is a record of its local variables *)
(* and of the database or OCR call it is about to make (pc); requests      *)
(* interleave between calls, a call may throw, and the process may stop.   *)
(*                                                                         *)
(* An invoice and a contract are extracted differently but cached under    *)
(* the same key, the hash of the file.  What happens to the invoice after  *)
(* its creation is the subject of InvoiceApproval.  A definition Name_Slip *)
(* is Name with a plausible slip, which a property below must catch;       *)
(* nothing refers to it.                                                   *)
(*                                                                         *)
(* Left out: the mailbox and the rotation of its token, the files on disk  *)
(* and the FileAsset rows that hold no extraction.                         *)
(***************************************************************************)
EXTENDS Naturals, FiniteSets

CONSTANTS
  Messages,  \* message ids
  Files,     \* content hashes
  Content,   \* the file a message carries
  Requests,  \* slots for requests served at the same time
  None,      \* SQL NULL
  MaxPaid,   \* bound: OCR calls after which a file is not uploaded again
  Throws     \* the calls that may throw

ASSUME ContentAssumption == Content \in [Messages -> Files]

Kinds == {"invoice", "contract"}

ASSUME NoneAssumption == None \notin Messages \union Kinds

ASSUME RequestsAssumption == IsFiniteSet(Requests)

Steps == {"idle", "createRow", "lookup", "ocr", "store", "meter", "create",
          "fill", "complete", "audit", "markFailed"}

Request(p, m, k, f) ==
  [pc |-> p, msg |-> m, kind |-> k, file |-> f, got |-> None]

Idle == Request("idle", None, None, None)

VARIABLES
  ingest,    \* EmailIngest.status, absent when there is no row
  captured,  \* number of invoices created for a message
  cached,    \* what the newest extraction stored for a file was made for
  paid,      \* OCR calls made for a file
  metered,   \* OCR calls for a file counted by the page meter
  req,       \* the requests in flight
  cut        \* history: a crash, or a failure to store or to mark as failed

vars == <<ingest, captured, cached, paid, metered, req, cut>>

Init ==
  /\ ingest = [m \in Messages |-> "absent"]
  /\ captured = [m \in Messages |-> 0]
  /\ cached = [f \in Files |-> None]
  /\ paid = [f \in Files |-> 0]
  /\ metered = [f \in Files |-> 0]
  /\ req = [r \in Requests |-> Idle]
  /\ cut = FALSE

At(r, p) == req[r].pc = p
Goto(r, p) == req' = [req EXCEPT ![r].pc = p]
Finish(r) == req' = [req EXCEPT ![r] = Idle]
Quiet == \A r \in Requests : At(r, "idle")

Abort_Silent(r) == Finish(r)

(* An exception in the handler: the row of the message is marked failed.   *)
Abort(r) == IF req[r].msg # None THEN Goto(r, "markFailed") ELSE Finish(r)

-----------------------------------------------------------------------------
(* ingestEmail *)

(* A message that has a row already is answered from the row.              *)
Deliver(r, m) ==
  /\ At(r, "idle") /\ ingest[m] = "absent"
  /\ req' = [req EXCEPT ![r] = Request("createRow", m, "invoice", Content[m])]
  /\ UNCHANGED <<ingest, captured, cached, paid, metered>>

CreateRow_NotUnique(r) ==
  /\ At(r, "createRow")
  /\ ingest' = [ingest EXCEPT ![req[r].msg] = "processing"]
  /\ Goto(r, "lookup")
  /\ UNCHANGED <<captured, cached, paid, metered>>

(* Tenant and message id are unique: the second insert throws, outside the *)
(* try block.                                                              *)
CreateRow(r) ==
  /\ At(r, "createRow")
  /\ \/ /\ ingest[req[r].msg] = "absent"
        /\ ingest' = [ingest EXCEPT ![req[r].msg] = "processing"]
        /\ Goto(r, "lookup")
     \/ /\ ingest[req[r].msg] # "absent"
        /\ Finish(r)
        /\ UNCHANGED ingest
  /\ UNCHANGED <<captured, cached, paid, metered>>

Complete(r) ==
  /\ At(r, "complete")
  /\ IF req[r].msg # None
     THEN ingest' = [ingest EXCEPT ![req[r].msg] = "completed"]
     ELSE UNCHANGED ingest
  /\ Goto(r, "audit")
  /\ UNCHANGED <<captured, cached, paid, metered>>

(* The entry email.ingested is written inside the try block.               *)
Audit(r) ==
  /\ At(r, "audit")
  /\ Finish(r)
  /\ UNCHANGED <<ingest, captured, cached, paid, metered>>

MarkFailed(r) ==
  /\ At(r, "markFailed")
  /\ ingest' = [ingest EXCEPT ![req[r].msg] = "failed"]
  /\ Finish(r)
  /\ UNCHANGED <<captured, cached, paid, metered>>

-----------------------------------------------------------------------------
(* extractDocument, called by ingestEmail, by the upload of an invoice and *)
(* by the scan of a contract                                               *)

StartUpload(r, f, k) ==
  /\ At(r, "idle") /\ paid[f] < MaxPaid
  /\ req' = [req EXCEPT ![r] = Request("lookup", None, k, f)]
  /\ UNCHANGED <<ingest, captured, cached, paid, metered>>

(* findCachedExtraction asks for the hash, not for the kind of document; a *)
(* hit is copied to the new FileAsset with its date, so it stays newest.   *)
Lookup(r) ==
  LET hit == cached[req[r].file]
  IN  /\ At(r, "lookup")
      /\ req' = [req EXCEPT ![r].got = hit,
                            ![r].pc = IF hit # None THEN "create" ELSE "ocr"]
      /\ UNCHANGED <<ingest, captured, cached, paid, metered>>

Ocr(r) ==
  /\ At(r, "ocr")
  /\ paid' = [paid EXCEPT ![req[r].file] = @ + 1]
  /\ req' = [req EXCEPT ![r].got = req[r].kind, ![r].pc = "store"]
  /\ UNCHANGED <<ingest, captured, cached, metered>>

Store_InvoicesOnly(r) ==
  /\ At(r, "store")
  /\ cached' = IF req[r].kind = "invoice"
               THEN [cached EXCEPT ![req[r].file] = "invoice"] ELSE cached
  /\ Goto(r, "meter")
  /\ UNCHANGED <<ingest, captured, paid, metered>>

Store(r) ==
  /\ At(r, "store")
  /\ cached' = [cached EXCEPT ![req[r].file] = req[r].kind]
  /\ Goto(r, "meter")
  /\ UNCHANGED <<ingest, captured, paid, metered>>

Meter(r) ==
  /\ At(r, "meter")
  /\ metered' = [metered EXCEPT ![req[r].file] = @ + 1]
  /\ Goto(r, "create")
  /\ UNCHANGED <<ingest, captured, cached, paid>>

-----------------------------------------------------------------------------
(* uploadAndExtract *)

(* The extraction of a contract holds no invoice, and the other way round. *)
Create(r) ==
  /\ At(r, "create")
  /\ \/ /\ req[r].got = req[r].kind
        /\ captured' = IF req[r].msg # None
                       THEN [captured EXCEPT ![req[r].msg] = @ + 1] ELSE captured
        /\ Goto(r, "fill")
     \/ /\ req[r].got # req[r].kind
        /\ Abort(r)
        /\ UNCHANGED captured
  /\ UNCHANGED <<ingest, cached, paid, metered>>

(* The invoice gets its contents, coding, exceptions and notifications.    *)
Fill(r) ==
  /\ At(r, "fill")
  /\ Goto(r, "complete")
  /\ UNCHANGED <<ingest, captured, cached, paid, metered>>

-----------------------------------------------------------------------------
(* A call throws; outside the try block of ingestEmail nothing follows.    *)
CallThrows(r) ==
  /\ req[r].pc \in Throws /\ ~At(r, "idle")
  /\ IF At(r, "createRow") \/ At(r, "markFailed") THEN Finish(r) ELSE Abort(r)
  /\ cut' = (cut \/ At(r, "store") \/ At(r, "markFailed"))
  /\ UNCHANGED <<ingest, captured, cached, paid, metered>>

Crash(r) ==
  /\ ~At(r, "idle")
  /\ Finish(r)
  /\ cut' = TRUE
  /\ UNCHANGED <<ingest, captured, cached, paid, metered>>

Start(r) ==
  /\ \/ \E m \in Messages : Deliver(r, m)
     \/ \E f \in Files, k \in Kinds : StartUpload(r, f, k)
  /\ UNCHANGED cut

Step(r) ==
  /\ \/ CreateRow(r)  \/ Lookup(r)  \/ Ocr(r)  \/ Store(r)  \/ Meter(r)
     \/ Create(r)  \/ Fill(r)  \/ Complete(r)  \/ Audit(r)  \/ MarkFailed(r)
  /\ UNCHANGED cut

Next == \E r \in Requests : Start(r) \/ Step(r) \/ CallThrows(r) \/ Crash(r)

Spec == Init /\ [][Next]_vars

(* The server carries on with what it has accepted.                        *)
Fairness == \A r \in Requests : WF_vars(Step(r))

FairSpec == Spec /\ Fairness

-----------------------------------------------------------------------------
(* Properties *)

Locals == [pc : Steps, msg : Messages \union {None},
           kind : Kinds \union {None}, file : Files \union {None},
           got : Kinds \union {None}]

(* The types of the variables.                                             *)
TypeOK ==
  /\ ingest \in [Messages -> {"absent", "processing", "completed", "failed"}]
  /\ captured \in [Messages -> Nat]
  /\ cached \in [Files -> Kinds \union {None}]
  /\ paid \in [Files -> Nat]
  /\ metered \in [Files -> Nat]
  /\ req \in [Requests -> Locals]

(* However often a message is delivered, it makes one invoice at most, and *)
(* one that is completed made it.                                          *)
MailIsCaptured ==
  \A m \in Messages :
    captured[m] <= 1 /\ (ingest[m] = "completed" => captured[m] = 1)

(* The row of a message settles, unless the process stops or the call that *)
(* marks it failed throws.                                                 *)
EverySettles ==
  [](~cut) => \A m \in Messages :
    (ingest[m] = "processing") ~> (ingest[m] \in {"completed", "failed"})

(* The meter counts no page that was not read by OCR, and the same bytes   *)
(* are read again only for requests that looked them up before the first   *)
(* of them stored its result, unless that failed.                          *)
PaidOncePerOverlap ==
  \A f \in Files :
    /\ metered[f] <= paid[f]
    /\ ~cut => paid[f] <= Cardinality(Requests)

(* A message that was delivered makes an invoice.                          *)
DeliveredIsCaptured ==
  Quiet => \A m \in Messages : ingest[m] # "absent" => captured[m] = 1
=============================================================================
