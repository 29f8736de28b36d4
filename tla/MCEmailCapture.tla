--------------------------- MODULE MCEmailCapture ---------------------------
(* Small instances of EmailCapture and of Webhooks.  They share no row, so *)
(* either is checked with the other at rest.                               *)
EXTENDS EmailCapture, Webhooks

CONSTANTS m1, m2, f1, f2

VARIABLE part  \* which of the two a behaviour is about

(* Two messages carry the same file, so they share its extraction.         *)
MCShared == [m \in Messages |-> f1]

NoCall == {}
AnyCall == Steps \ {"idle"}

CaptureNext ==
  \/ part = "capture" /\ Next /\ UNCHANGED <<webhookVars, part>>
  \/ part = "webhooks" /\ WebhooksNext /\ UNCHANGED <<vars, part>>

CaptureInit ==
  /\ Init /\ WebhooksInit
  /\ part \in {"capture", "webhooks"}

CaptureSpec ==
  CaptureInit /\ [][CaptureNext]_<<vars, webhookVars, part>>

CaptureFairSpec ==
  CaptureSpec /\ Fairness /\ WebhooksFairness
=============================================================================
