--------------------------- MODULE ErpSync_proofs ---------------------------
(***************************************************************************)
(* What is known of an invoice after any number of overlapping syncs, of   *)
(* which any may throw or stop: one that says it was exported was          *)
(* delivered, one that was billed says so or has its excuse, and NetSuite  *)
(* books it once, QuickBooks once for each sync.                           *)
(*                                                                         *)
(* What a call has read and pushed stays what it was once its job says     *)
(* that it succeeded, so an invoice that was delivered remains so; the     *)
(* invariant says what a call knows at each of its steps.                  *)
(***************************************************************************)
EXTENDS ErpSync, FiniteSetTheorems, TLAPS

(* What a call knows where it is.                                          *)
Knows(s) ==
  /\ ~Doing(s, "off") => sync[s].pack \in Packs \union {"csv"}
  /\ sync[s].live => sync[s].pack \in Erps
  /\ Doing(s, "push") => sync[s].live
  /\ sync[s].rest \subseteq sync[s].listed
  /\ sync[s].step \in {"job", "mark"} => s \in written
  /\ Doing(s, "mark") => "succeeded" \in jobs[s]
  /\ "succeeded" \in jobs[s] => sync[s].step \in {"mark", "fail", "done", "stopped"}
  /\ s \in broken => sync[s].step \in {"fail", "stopped"}

(* What a call that pushes nothing is about to mark.                       *)
Listed(s) ==
  sync[s].step \in {"write", "job", "mark"} =>
    /\ sync[s].pack = "csv" => sync[s].listed \subseteq sync[s].ok
    /\ sync[s].pack = "demo" =>
         \A i \in Invoices : invoice[i].status = "approved"
                               => i \in sync[s].ok \union meanwhile[s]

Delivered(i, s) ==
  /\ s \in written /\ "succeeded" \in jobs[s]
  /\ i \in sync[s].ok \/ (sync[s].pack = "demo" /\ i \in meanwhile[s])

Excused(p, i, s) ==
  /\ sync[s].pack = p /\ i \in sync[s].ok
  /\ s \in broken \/ sync[s].step \in {"push", "write", "job", "mark"}

(* The syncs to QuickBooks that had their turn with an invoice.            *)
Turns(i) ==
  {s \in Syncs : /\ sync[s].pack = "qbo" /\ sync[s].step \notin {"off", "read"}
                 /\ i \in sync[s].listed \ sync[s].rest}

TurnsBound == \A i \in Invoices : bills["qbo"][i] <= Cardinality(Turns(i))
OnceInNetsuite == \A i \in Invoices : bills["netsuite"][i] <= 1

Inv ==
  /\ ErpTypeOK
  /\ connection["demo"] # "live"
  /\ \A s \in Syncs : Knows(s) /\ Listed(s)
  /\ MarkedIsDelivered
  /\ BilledIsMarked
  /\ OnceInNetsuite
  /\ TurnsBound

LEMMA InitInv == ErpInit => Inv
<1> SUFFICES ASSUME ErpInit PROVE Inv
  OBVIOUS
<1> USE DEF ErpInit
<1>1. ErpTypeOK
  BY DEF ErpTypeOK, NoSync, Call, SyncSteps
<1>2. \A s \in Syncs : Knows(s) /\ Listed(s)
  BY DEF Knows, Listed, Doing, NoSync
<1>3. MarkedIsDelivered /\ BilledIsMarked /\ OnceInNetsuite
  BY DEF MarkedIsDelivered, BilledIsMarked, OnceInNetsuite, Erps
<1>4. ASSUME NEW i \in Invoices
      PROVE  bills["qbo"][i] <= Cardinality(Turns(i))
  <2>1. Turns(i) \subseteq Syncs
    BY DEF Turns
  <2>2. Cardinality(Turns(i)) \in Nat
    BY <2>1, SyncsAssumption, FS_Subset, FS_CardinalityType
  <2> QED BY <2>2 DEF Erps
<1> QED BY <1>1, <1>2, <1>3, <1>4 DEF Inv, TurnsBound, Packs

-----------------------------------------------------------------------------
(* Types *)

LEMMA Became ==
  ASSUME sync \in [Syncs -> Call], NEW s \in Syncs, NEW q \in Call, Becomes(s, q)
  PROVE  /\ sync' \in [Syncs -> Call]
         /\ sync'[s] = q
         /\ \A t \in Syncs \ {s} : sync'[t] = sync[t]
BY DEF Becomes

(* The ways in which a step leaves its own call.                           *)
LEMMA Started ==
  ASSUME ErpTypeOK, NEW s \in Syncs, NEW p \in Packs, StartSync(s, p)
  PROVE  /\ sync' \in [Syncs -> Call]
         /\ sync'[s].step = "read" /\ sync'[s].pack = p
         /\ sync'[s].live => connection[p] = "live"
         /\ sync'[s].rest = {} /\ sync'[s].listed = {}
         /\ \A t \in Syncs \ {s} : sync'[t] = sync[t]
<1> DEFINE q == [NoSync EXCEPT !.step = "read", !.pack = p,
                               !.live = connection[p] = "live"]
<1>1. q \in Call
  BY DEF Call, SyncSteps, NoSync
<1>2. Becomes(s, q) /\ sync \in [Syncs -> Call]
  BY DEF StartSync, ErpTypeOK
<1>3. /\ q.step = "read" /\ q.pack = p /\ q.rest = {} /\ q.listed = {}
      /\ q.live => connection[p] = "live"
  BY DEF NoSync
<1> HIDE DEF q
<1>4. /\ sync' \in [Syncs -> Call]
      /\ sync'[s] = q
      /\ \A t \in Syncs \ {s} : sync'[t] = sync[t]
  BY <1>1, <1>2, Became
<1> QED BY <1>3, <1>4

LEMMA Exporting ==
  ASSUME ErpTypeOK, NEW s \in Syncs, StartExport(s)
  PROVE  /\ sync' \in [Syncs -> Call]
         /\ sync'[s].step = "read" /\ sync'[s].pack = "csv" /\ ~sync'[s].live
         /\ sync'[s].rest = {} /\ sync'[s].listed = {}
         /\ \A t \in Syncs \ {s} : sync'[t] = sync[t]
<1> DEFINE q == [NoSync EXCEPT !.step = "read", !.pack = "csv"]
<1>1. q \in Call
  BY DEF Call, SyncSteps, NoSync
<1>2. Becomes(s, q) /\ sync \in [Syncs -> Call]
  BY DEF StartExport, ErpTypeOK
<1>3. /\ q.step = "read" /\ q.pack = "csv" /\ ~q.live
      /\ q.rest = {} /\ q.listed = {}
  BY DEF NoSync
<1> HIDE DEF q
<1>4. /\ sync' \in [Syncs -> Call]
      /\ sync'[s] = q
      /\ \A t \in Syncs \ {s} : sync'[t] = sync[t]
  BY <1>1, <1>2, Became
<1> QED BY <1>3, <1>4

LEMMA Went ==
  ASSUME ErpTypeOK, NEW s \in Syncs, NEW x \in SyncSteps, Go(s, x)
  PROVE  /\ sync' \in [Syncs -> Call]
         /\ sync'[s].step = x
         /\ sync'[s].pack = sync[s].pack /\ sync'[s].live = sync[s].live
         /\ sync'[s].listed = sync[s].listed /\ sync'[s].rest = sync[s].rest
         /\ sync'[s].ok = sync[s].ok
         /\ \A t \in Syncs \ {s} : sync'[t] = sync[t]
<1> DEFINE q == [sync[s] EXCEPT !.step = x]
<1>1. sync \in [Syncs -> Call] /\ sync[s] \in Call /\ Becomes(s, q)
  BY DEF ErpTypeOK, Go
<1>2. q \in Call
  BY <1>1 DEF Call
<1>4. /\ q.step = x
      /\ q.pack = sync[s].pack /\ q.live = sync[s].live
      /\ q.listed = sync[s].listed /\ q.rest = sync[s].rest
      /\ q.ok = sync[s].ok
  BY <1>1 DEF Call
<1> HIDE DEF q
<1>3. /\ sync' \in [Syncs -> Call]
      /\ sync'[s] = q
      /\ \A t \in Syncs \ {s} : sync'[t] = sync[t]
  BY <1>1, <1>2, Became
<1> QED BY <1>3, <1>4

LEMMA Ended ==
  ASSUME ErpTypeOK, NEW s \in Syncs, NEW x \in SyncSteps, End(s, x)
  PROVE  /\ sync' \in [Syncs -> Call]
         /\ sync'[s].step = x /\ ~sync'[s].live /\ sync'[s].rest = {}
         /\ sync'[s].pack = sync[s].pack /\ sync'[s].listed = sync[s].listed
         /\ sync'[s].ok = sync[s].ok
         /\ \A t \in Syncs \ {s} : sync'[t] = sync[t]
<1> DEFINE q == [sync[s] EXCEPT !.step = x, !.live = FALSE, !.rest = {},
                                !.errors = {}]
<1>1. sync \in [Syncs -> Call] /\ sync[s] \in Call /\ Becomes(s, q)
  BY DEF ErpTypeOK, End
<1>2. q \in Call
  BY <1>1 DEF Call
<1>3. /\ q.step = x /\ ~q.live /\ q.rest = {}
      /\ q.pack = sync[s].pack /\ q.listed = sync[s].listed /\ q.ok = sync[s].ok
  BY <1>1 DEF Call
<1> HIDE DEF q
<1>4. /\ sync' \in [Syncs -> Call]
      /\ sync'[s] = q
      /\ \A t \in Syncs \ {s} : sync'[t] = sync[t]
  BY <1>1, <1>2, Became
<1> QED BY <1>3, <1>4

LEMMA ReadIsCall ==
  ASSUME NEW c \in Call, NEW x \in SyncSteps, NEW a \in SUBSET Invoices,
         NEW b \in SUBSET Invoices, NEW k \in SUBSET Invoices
  PROVE  [c EXCEPT !.listed = a, !.step = x, !.rest = b, !.ok = k] \in Call
BY DEF Call

LEMMA HasRead ==
  ASSUME ErpTypeOK, NEW s \in Syncs, ReadApproved(s)
  PROVE  LET approved == {i \in Invoices : invoice[i].status = "approved"}
         IN  /\ sync' \in [Syncs -> Call]
             /\ sync'[s].pack = sync[s].pack /\ sync'[s].live = sync[s].live
             /\ sync'[s].step = IF sync[s].live /\ approved # {}
                                THEN "push" ELSE "write"
             /\ sync'[s].listed = approved
             /\ sync'[s].rest = IF sync[s].live THEN approved ELSE {}
             /\ sync'[s].ok = IF sync[s].live THEN {} ELSE approved
             /\ \A t \in Syncs \ {s} : sync'[t] = sync[t]
<1> DEFINE approved == {i \in Invoices : invoice[i].status = "approved"}
           x == IF sync[s].live /\ approved # {} THEN "push" ELSE "write"
           b == IF sync[s].live THEN approved ELSE {}
           k == IF sync[s].live THEN {} ELSE approved
           q == [sync[s] EXCEPT !.listed = approved, !.step = x, !.rest = b, !.ok = k]
<1>1. x \in SyncSteps
  BY DEF SyncSteps
<1>2. b \in SUBSET Invoices /\ k \in SUBSET Invoices /\ approved \in SUBSET Invoices
  OBVIOUS
<1>3. sync[s] \in Call /\ sync \in [Syncs -> Call]
  BY DEF ErpTypeOK
<1>4. Becomes(s, q)
  BY DEF ReadApproved
<1> HIDE DEF approved, x, b, k
<1>5. q \in Call
  BY <1>1, <1>2, <1>3, ReadIsCall
<1>6. /\ sync' \in [Syncs -> Call]
      /\ sync'[s] = q
      /\ \A t \in Syncs \ {s} : sync'[t] = sync[t]
  BY <1>3, <1>4, <1>5, Became
<1>7. /\ q.pack = sync[s].pack /\ q.live = sync[s].live /\ q.step = x
      /\ q.listed = approved /\ q.rest = b /\ q.ok = k
  BY <1>3 DEF Call
<1> QED BY <1>6, <1>7 DEF approved, x, b, k

LEMMA PushIsCall ==
  ASSUME NEW c \in Call, NEW x \in SyncSteps, NEW b \in SUBSET Invoices,
         NEW k \in SUBSET Invoices, NEW e \in SUBSET Invoices
  PROVE  [c EXCEPT !.rest = b, !.step = x, !.ok = k, !.errors = e] \in Call
BY DEF Call

(* A push of an invoice that is left to push: i, with outcome o.           *)
PushOf(s, i, o) ==
  LET p == sync[s].pack
  IN  /\ Doing(s, "push") /\ i \in sync[s].rest /\ o \in Outcomes(p, i)
      /\ bills' = [bills EXCEPT ![p][i] = IF o.booked THEN @ + 1 ELSE @]
      /\ lost' = IF o.booked /\ o # Booked THEN lost \union {<<p, i>>} ELSE lost
      /\ sync' \in [Syncs -> Call]
      /\ sync'[s].pack = p /\ sync'[s].live = sync[s].live
      /\ sync'[s].listed = sync[s].listed
      /\ sync'[s].rest = sync[s].rest \ {i}
      /\ sync'[s].step = IF sync[s].rest = {i} THEN "write" ELSE "push"
      /\ sync'[s].ok = IF o = Booked THEN sync[s].ok \union {i} ELSE sync[s].ok
      /\ \A t \in Syncs \ {s} : sync'[t] = sync[t]

LEMMA HasPushed ==
  ASSUME ErpTypeOK, NEW s \in Syncs, Push(s)
  PROVE  \E i \in Invoices : \E o \in Outcomes(sync[s].pack, i) : PushOf(s, i, o)
<1> DEFINE p == sync[s].pack
<1>1. PICK i \in sync[s].rest : \E o \in Outcomes(p, i) :
           /\ bills' = [bills EXCEPT ![p][i] = IF o.booked THEN @ + 1 ELSE @]
           /\ Becomes(s, [sync[s] EXCEPT
                !.rest = @ \ {i},
                !.step = IF sync[s].rest = {i} THEN "write" ELSE "push",
                !.ok = IF o = Booked THEN @ \union {i} ELSE @,
                !.errors = IF o = Booked THEN @ ELSE @ \union {i}])
           /\ lost' = IF o.booked /\ o # Booked
                      THEN lost \union {<<p, i>>} ELSE lost
  BY DEF Push
<1>2. PICK o \in Outcomes(p, i) :
           /\ bills' = [bills EXCEPT ![p][i] = IF o.booked THEN @ + 1 ELSE @]
           /\ Becomes(s, [sync[s] EXCEPT
                !.rest = @ \ {i},
                !.step = IF sync[s].rest = {i} THEN "write" ELSE "push",
                !.ok = IF o = Booked THEN @ \union {i} ELSE @,
                !.errors = IF o = Booked THEN @ ELSE @ \union {i}])
           /\ lost' = IF o.booked /\ o # Booked
                      THEN lost \union {<<p, i>>} ELSE lost
  BY <1>1
<1> DEFINE c == sync[s]
           x == IF c.rest = {i} THEN "write" ELSE "push"
           b == c.rest \ {i}
           k == IF o = Booked THEN c.ok \union {i} ELSE c.ok
           e == IF o = Booked THEN c.errors ELSE c.errors \union {i}
           q == [c EXCEPT !.rest = b, !.step = x, !.ok = k, !.errors = e]
<1>3. sync[s] \in Call /\ sync \in [Syncs -> Call]
  BY DEF ErpTypeOK
<1>4. c.rest \subseteq Invoices /\ c.ok \subseteq Invoices /\ c.errors \subseteq Invoices
  BY <1>3 DEF Call
<1>5. i \in Invoices
  BY <1>1, <1>4
<1>6. x \in SyncSteps
  BY DEF SyncSteps
<1>7. b \in SUBSET Invoices /\ k \in SUBSET Invoices /\ e \in SUBSET Invoices
  BY <1>4, <1>5
<1>8. Becomes(s, q)
  BY <1>2
<1> HIDE DEF x, b, k, e
<1>9. q \in Call
  BY <1>3, <1>6, <1>7, PushIsCall
<1>10. /\ sync' \in [Syncs -> Call]
       /\ sync'[s] = q
       /\ \A t \in Syncs \ {s} : sync'[t] = sync[t]
  BY <1>3, <1>8, <1>9, Became
<1>11. /\ q.pack = c.pack /\ q.live = c.live /\ q.listed = c.listed
       /\ q.rest = b /\ q.step = x /\ q.ok = k
  BY <1>3 DEF Call
<1>12. Doing(s, "push")
  BY DEF Push
<1>13. PushOf(s, i, o)
  BY <1>1, <1>2, <1>10, <1>11, <1>12 DEF PushOf, x, b, k
<1> QED BY <1>5, <1>13

-----------------------------------------------------------------------------
(* What a step leaves alone *)

(* A step of a call s, or of a user (no call is s): the other calls and    *)
(* what they know stay, no invoice becomes approved and none is unmarked.  *)
Elsewhere(s) ==
  /\ \A t \in Syncs \ {s} :
       /\ sync'[t] = sync[t] /\ jobs'[t] = jobs[t]
       /\ meanwhile'[t] = meanwhile[t]
       /\ t \in written' <=> t \in written
       /\ t \in broken' <=> t \in broken
  /\ \A i \in Invoices : /\ invoice'[i].status = "approved"
                             => invoice[i].status = "approved"
                         /\ invoice[i].exported => invoice'[i].exported

LEMMA OthersKnow ==
  ASSUME Inv, NEW s \in Syncs, Elsewhere(s), NEW t \in Syncs \ {s}
  PROVE  Knows(t)' /\ Listed(t)'
<1>1. Knows(t) /\ Listed(t)
  BY DEF Inv
<1>2. Knows(t)'
  BY <1>1 DEF Knows, Doing, Elsewhere
<1>3. Listed(t)'
  BY <1>1 DEF Listed, Elsewhere
<1> QED BY <1>2, <1>3

(* Nothing is marked: what was delivered remains delivered.                *)
LEMMA StaysDelivered ==
  ASSUME Inv,
         \A i \in Invoices : invoice'[i].exported => invoice[i].exported,
         \A i \in Invoices, t \in Syncs : Delivered(i, t) => Delivered(i, t)'
  PROVE  MarkedIsDelivered'
<1> SUFFICES ASSUME NEW i \in Invoices, invoice'[i].exported
             PROVE  \E t \in written' : Delivered(i, t)'
  BY DEF MarkedIsDelivered, Delivered
<1>1. \E t \in written : Delivered(i, t)
  BY DEF Inv, MarkedIsDelivered, Delivered
<1>2. written \subseteq Syncs
  BY DEF Inv, ErpTypeOK
<1> QED BY <1>1, <1>2 DEF Delivered

(* Nothing is pushed: what was excused is excused or marked by now.        *)
LEMMA StaysMarked ==
  ASSUME Inv, bills' = bills, lost \subseteq lost',
         \A i \in Invoices : invoice[i].exported => invoice'[i].exported,
         \A p \in Erps, i \in Invoices, t \in Syncs :
           Excused(p, i, t) => Excused(p, i, t)' \/ invoice'[i].exported
  PROVE  BilledIsMarked'
<1> SUFFICES ASSUME NEW p \in Erps, NEW i \in Invoices, bills[p][i] > 0
             PROVE  \/ invoice'[i].exported
                    \/ <<p, i>> \in lost'
                    \/ \E t \in Syncs : Excused(p, i, t)'
  BY DEF BilledIsMarked, Excused
<1>1. \/ invoice[i].exported
      \/ <<p, i>> \in lost
      \/ \E t \in Syncs : Excused(p, i, t)
  BY DEF Inv, BilledIsMarked, Excused
<1> QED BY <1>1

LEMMA TurnsAreFinite ==
  ASSUME NEW i \in Invoices
  PROVE  /\ IsFiniteSet(Turns(i)) /\ Cardinality(Turns(i)) \in Nat
         /\ IsFiniteSet(Turns(i)') /\ Cardinality(Turns(i)') \in Nat
<1>1. Turns(i) \subseteq Syncs /\ Turns(i)' \subseteq Syncs
  BY DEF Turns
<1> QED BY <1>1, SyncsAssumption, FS_Subset, FS_CardinalityType

(* A call that had its turn keeps it.                                      *)
LEMMA StaysBounded ==
  ASSUME Inv, bills' = bills,
         \A i \in Invoices : Turns(i) \subseteq Turns(i)'
  PROVE  OnceInNetsuite' /\ TurnsBound'
<1>1. OnceInNetsuite'
  BY DEF Inv, OnceInNetsuite
<1>2. ASSUME NEW i \in Invoices
      PROVE  bills'["qbo"][i] <= Cardinality(Turns(i)')
  <2>1. Cardinality(Turns(i)) <= Cardinality(Turns(i)')
    BY TurnsAreFinite, FS_Subset
  <2>2. bills["qbo"][i] <= Cardinality(Turns(i))
    BY DEF Inv, TurnsBound
  <2>3. bills["qbo"][i] \in Nat
    BY DEF Inv, ErpTypeOK, Erps
  <2> QED BY <2>1, <2>2, <2>3, TurnsAreFinite
<1>3. TurnsBound'
  BY <1>2 DEF TurnsBound
<1> QED BY <1>1, <1>3

-----------------------------------------------------------------------------
(* Users *)

(* Nothing but the invoices and the connections changes.                   *)
LEMMA CallsStay ==
  ASSUME Inv, UNCHANGED <<bills, sync, jobs, written, lost, broken>>,
         \A i \in Invoices : invoice'[i].exported = invoice[i].exported,
         \A t \in Syncs : meanwhile[t] \subseteq meanwhile'[t]
  PROVE  /\ \A t \in Syncs : Knows(t)'
         /\ MarkedIsDelivered' /\ BilledIsMarked'
         /\ OnceInNetsuite' /\ TurnsBound'
<1>1. \A t \in Syncs : Knows(t)'
  BY DEF Inv, Knows, Doing
<1>2. \A i \in Invoices, t \in Syncs : Delivered(i, t) => Delivered(i, t)'
  BY DEF Delivered
<1>3. MarkedIsDelivered'
  BY <1>2, StaysDelivered
<1>4. \A p \in Erps, i \in Invoices, t \in Syncs :
        Excused(p, i, t) => Excused(p, i, t)'
  BY DEF Excused
<1>5. BilledIsMarked'
  BY <1>4, StaysMarked
<1>6. \A i \in Invoices : Turns(i) \subseteq Turns(i)'
  BY DEF Turns
<1> QED BY <1>1, <1>3, <1>5, <1>6, StaysBounded

LEMMA ApproveKeeps ==
  ASSUME Inv, NEW i \in Invoices, ApproveInvoice(i)
  PROVE  Inv'
<1> USE DEF ApproveInvoice
<1>1. /\ invoice' \in [Invoices -> [status : {"open", "approved", "exported", "void"},
                                   exported : BOOLEAN]]
      /\ \A j \in Invoices \ {i} : invoice'[j] = invoice[j]
      /\ invoice'[i].exported = invoice[i].exported
  BY DEF Inv, ErpTypeOK
<1>2. /\ meanwhile' \in [Syncs -> SUBSET Invoices]
      /\ \A t \in Syncs : /\ meanwhile[t] \subseteq meanwhile'[t]
                           /\ Syncing(t) => i \in meanwhile'[t]
  BY DEF Inv, ErpTypeOK
<1>3. ErpTypeOK'
  BY <1>1, <1>2 DEF Inv, ErpTypeOK
<1>4. \A t \in Syncs : Listed(t)'
  BY <1>1, <1>2 DEF Inv, Listed, Syncing
<1> QED BY <1>1, <1>2, <1>3, <1>4, CallsStay DEF Inv

LEMMA VoidKeeps ==
  ASSUME Inv, NEW i \in Invoices, VoidInvoice(i)
  PROVE  Inv'
<1> USE DEF VoidInvoice
<1>1. /\ invoice' \in [Invoices -> [status : {"open", "approved", "exported", "void"},
                                   exported : BOOLEAN]]
      /\ \A j \in Invoices : /\ invoice'[j].exported = invoice[j].exported
                             /\ invoice'[j].status = "approved"
                                  => invoice[j].status = "approved"
  BY DEF Inv, ErpTypeOK
<1>2. ErpTypeOK'
  BY <1>1 DEF Inv, ErpTypeOK, syncHistory
<1>3. \A t \in Syncs : Listed(t)'
  BY <1>1 DEF Inv, Listed, syncHistory
<1> QED BY <1>1, <1>2, <1>3, CallsStay DEF Inv, syncHistory

(* Connecting and disconnecting, and a step that changes nothing.          *)
LEMMA ConnectionKeeps ==
  ASSUME Inv, UNCHANGED <<invoice, bills, sync, jobs, syncHistory>>,
         connection' \in [Packs -> {"absent", "mock", "live", "disconnected"}],
         connection'["demo"] # "live"
  PROVE  Inv'
<1>1. ErpTypeOK'
  BY DEF Inv, ErpTypeOK, syncHistory
<1>2. \A t \in Syncs : Listed(t)'
  BY DEF Inv, Listed, syncHistory
<1> QED BY <1>1, <1>2, CallsStay DEF Inv, syncHistory

-----------------------------------------------------------------------------
(* Calls *)

(* The start of a sync or an export.                                       *)
LEMMA StartKeeps ==
  ASSUME Inv, NEW s \in Syncs, Doing(s, "off"),
         NEW p \in Packs \union {"csv"},
         sync' \in [Syncs -> Call],
         sync'[s].step = "read", sync'[s].pack = p,
         sync'[s].live => p \in Erps,
         sync'[s].rest = {}, sync'[s].listed = {},
         \A t \in Syncs \ {s} : sync'[t] = sync[t],
         UNCHANGED <<invoice, connection, bills, jobs, syncHistory>>
  PROVE  Inv'
<1>2. sync[s].step = "off"
  BY DEF Doing
<1>3. ErpTypeOK'
  BY DEF Inv, ErpTypeOK, syncHistory
<1>4. "succeeded" \notin jobs[s] /\ s \notin broken
  BY <1>2 DEF Inv, Knows
<1>5. Elsewhere(s)
  BY DEF Elsewhere, syncHistory
<1>6. Knows(s)' /\ Listed(s)'
  BY <1>4 DEF Knows, Listed, Doing, syncHistory
<1>7. \A i \in Invoices, t \in Syncs : Delivered(i, t) => Delivered(i, t)'
  BY <1>4 DEF Delivered, syncHistory
<1>8. MarkedIsDelivered'
  BY <1>7, StaysDelivered
<1>9. \A q \in Erps, i \in Invoices, t \in Syncs :
        Excused(q, i, t) => Excused(q, i, t)'
  BY <1>2, <1>4 DEF Excused, syncHistory
<1>10. BilledIsMarked'
  BY <1>9, StaysMarked DEF syncHistory
<1>11. \A i \in Invoices : Turns(i) \subseteq Turns(i)'
  BY <1>2 DEF Turns
<1>12. OnceInNetsuite' /\ TurnsBound'
  BY <1>11, StaysBounded
<1> QED BY <1>3, <1>5, <1>6, <1>8, <1>10, <1>12, OthersKnow DEF Inv

LEMMA ReadKeeps ==
  ASSUME Inv, NEW s \in Syncs, ReadApproved(s)
  PROVE  Inv'
<1> DEFINE approved == {i \in Invoices : invoice[i].status = "approved"}
<1>1. /\ sync' \in [Syncs -> Call]
      /\ sync'[s].pack = sync[s].pack /\ sync'[s].live = sync[s].live
      /\ sync'[s].step = IF sync[s].live /\ approved # {} THEN "push" ELSE "write"
      /\ sync'[s].listed = approved
      /\ sync'[s].rest = IF sync[s].live THEN approved ELSE {}
      /\ sync'[s].ok = IF sync[s].live THEN {} ELSE approved
      /\ \A t \in Syncs \ {s} : sync'[t] = sync[t]
  BY HasRead DEF Inv
<1>2. /\ sync[s].step = "read" /\ meanwhile' = [meanwhile EXCEPT ![s] = {}]
      /\ UNCHANGED <<invoice, connection, bills, jobs, written, lost, broken>>
  BY DEF ReadApproved, Doing
<1>3. ErpTypeOK'
  BY <1>1, <1>2 DEF Inv, ErpTypeOK
<1>4. Knows(s) /\ "succeeded" \notin jobs[s] /\ s \notin broken
  BY <1>2 DEF Inv, Knows
<1>5. Elsewhere(s)
  BY <1>1, <1>2 DEF Elsewhere, Inv, ErpTypeOK
<1>6. Knows(s)'
  BY <1>1, <1>2, <1>4 DEF Knows, Doing
<1>7. Listed(s)'
  BY <1>1, <1>2, <1>4 DEF Listed, Knows, Erps
<1>8. \A i \in Invoices, t \in Syncs : Delivered(i, t) => Delivered(i, t)'
  BY <1>1, <1>2, <1>4, <1>5 DEF Delivered, Elsewhere
<1>9. MarkedIsDelivered'
  BY <1>2, <1>8, StaysDelivered
<1>10. \A q \in Erps, i \in Invoices, t \in Syncs :
         Excused(q, i, t) => Excused(q, i, t)'
  BY <1>1, <1>2, <1>4 DEF Excused
<1>11. BilledIsMarked'
  BY <1>2, <1>10, StaysMarked
<1>12. \A i \in Invoices : Turns(i) \subseteq Turns(i)'
  BY <1>1, <1>2 DEF Turns
<1>13. OnceInNetsuite' /\ TurnsBound'
  BY <1>2, <1>12, StaysBounded
<1> QED BY <1>2, <1>3, <1>5, <1>6, <1>7, <1>9, <1>11, <1>13, OthersKnow DEF Inv

LEMMA JobAdded ==
  ASSUME ErpTypeOK, NEW s \in Syncs, NEW j \in {"succeeded", "failed"},
         jobs' = [jobs EXCEPT ![s] = @ \union {j}]
  PROVE  /\ jobs' \in [Syncs -> SUBSET {"succeeded", "failed"}]
         /\ jobs'[s] = jobs[s] \union {j}
         /\ \A t \in Syncs \ {s} : jobs'[t] = jobs[t]
BY DEF ErpTypeOK

(* A step that moves a call on: the file, the job.                         *)
LEMMA GoKeeps ==
  ASSUME Inv, NEW s \in Syncs, NEW x \in {"job", "mark", "fail"}, Go(s, x),
         UNCHANGED <<invoice, connection, bills, lost, broken, meanwhile>>,
         \/ /\ Doing(s, "write") /\ x = IF Failed(s) THEN "fail" ELSE "job"
            /\ written' = written \union {s} /\ jobs' = jobs
         \/ /\ Doing(s, "job") /\ x = "mark" /\ written' = written
            /\ jobs' = [jobs EXCEPT ![s] = @ \union {"succeeded"}]
  PROVE  Inv'
<1>1. /\ sync' \in [Syncs -> Call]
      /\ sync'[s].step = x
      /\ sync'[s].pack = sync[s].pack /\ sync'[s].live = sync[s].live
      /\ sync'[s].listed = sync[s].listed /\ sync'[s].rest = sync[s].rest
      /\ sync'[s].ok = sync[s].ok
      /\ \A t \in Syncs \ {s} : sync'[t] = sync[t]
  BY Went DEF Inv, SyncSteps
<1>2. /\ jobs' \in [Syncs -> SUBSET {"succeeded", "failed"}]
      /\ \A t \in Syncs : jobs[t] \subseteq jobs'[t]
      /\ \A t \in Syncs \ {s} : jobs'[t] = jobs[t]
      /\ x = "mark" => "succeeded" \in jobs'[s]
      /\ x # "mark" => jobs'[s] = jobs[s]
  <2>1. CASE jobs' = jobs /\ x \in {"fail", "job"}
    BY <2>1 DEF Inv, ErpTypeOK
  <2>2. CASE x = "mark" /\ jobs' = [jobs EXCEPT ![s] = @ \union {"succeeded"}]
    BY <2>2, JobAdded DEF Inv
  <2> QED BY <2>1, <2>2
<1>3. ErpTypeOK'
  BY <1>1, <1>2 DEF Inv, ErpTypeOK
<1>4. Knows(s) /\ Listed(s) /\ s \notin broken
  BY DEF Inv, Knows, Doing
<1>5. Elsewhere(s)
  BY <1>1, <1>2 DEF Elsewhere
<1>6. Knows(s)'
  BY <1>1, <1>2, <1>4 DEF Knows, Doing
<1>7. Listed(s)'
  BY <1>1, <1>4 DEF Listed, Doing
<1>8. \A i \in Invoices, t \in Syncs : Delivered(i, t) => Delivered(i, t)'
  BY <1>1, <1>2 DEF Delivered
<1>9. MarkedIsDelivered'
  BY <1>8, StaysDelivered
<1>10. \A q \in Erps, i \in Invoices, t \in Syncs :
         Excused(q, i, t) => Excused(q, i, t)'
  BY <1>1, <1>4 DEF Excused, Failed
<1>11. BilledIsMarked'
  BY <1>10, StaysMarked
<1>12. \A i \in Invoices : Turns(i) \subseteq Turns(i)'
  BY <1>1 DEF Turns
<1>13. OnceInNetsuite' /\ TurnsBound'
  BY <1>12, StaysBounded
<1> QED BY <1>3, <1>5, <1>6, <1>7, <1>9, <1>11, <1>13, OthersKnow DEF Inv

(* A call that throws, stops, or leaves a job that says it failed.         *)
LEMMA EndKeeps ==
  ASSUME Inv, NEW s \in Syncs, NEW x \in {"fail", "stopped"}, End(s, x), Syncing(s),
         UNCHANGED <<invoice, connection, bills, written, lost, meanwhile>>,
         \/ broken' = broken \union {s} /\ jobs' = jobs
         \/ /\ Doing(s, "fail") /\ broken' = broken
            /\ jobs' = [jobs EXCEPT ![s] = @ \union {"failed"}]
  PROVE  Inv'
<1>1. /\ sync' \in [Syncs -> Call]
      /\ sync'[s].step = x /\ ~sync'[s].live /\ sync'[s].rest = {}
      /\ sync'[s].pack = sync[s].pack /\ sync'[s].listed = sync[s].listed
      /\ sync'[s].ok = sync[s].ok
      /\ \A t \in Syncs \ {s} : sync'[t] = sync[t]
  BY Ended DEF Inv, SyncSteps
<1>2. /\ jobs' \in [Syncs -> SUBSET {"succeeded", "failed"}]
      /\ \A t \in Syncs : /\ jobs[t] \subseteq jobs'[t]
                           /\ "succeeded" \in jobs'[t] <=> "succeeded" \in jobs[t]
      /\ \A t \in Syncs \ {s} : jobs'[t] = jobs[t]
  <2>1. CASE jobs' = jobs
    BY <2>1 DEF Inv, ErpTypeOK
  <2>2. CASE jobs' = [jobs EXCEPT ![s] = @ \union {"failed"}]
    BY <2>2, JobAdded DEF Inv
  <2> QED BY <2>1, <2>2
<1>3. ErpTypeOK'
  BY <1>1, <1>2 DEF Inv, ErpTypeOK
<1>4. Knows(s) /\ ~Doing(s, "off")
  BY DEF Inv, Syncing, Doing
<1>5. Elsewhere(s)
  BY <1>1, <1>2 DEF Elsewhere
<1>6. Knows(s)' /\ Listed(s)'
  BY <1>1, <1>2, <1>4 DEF Knows, Doing, Listed
<1>7. \A i \in Invoices, t \in Syncs : Delivered(i, t) => Delivered(i, t)'
  BY <1>1, <1>2 DEF Delivered
<1>8. MarkedIsDelivered'
  BY <1>7, StaysDelivered
<1>9. \A q \in Erps, i \in Invoices, t \in Syncs :
         Excused(q, i, t) => Excused(q, i, t)'
  BY <1>1 DEF Excused, Doing
<1>10. BilledIsMarked'
  BY <1>9, StaysMarked
<1>11. \A i \in Invoices : Turns(i) \subseteq Turns(i)'
  BY <1>1 DEF Turns
<1>12. OnceInNetsuite' /\ TurnsBound'
  BY <1>11, StaysBounded
<1> QED BY <1>3, <1>5, <1>6, <1>8, <1>10, <1>12, OthersKnow DEF Inv

(* What is marked went through, or was approved meanwhile.                 *)
LEMMA MarkKeeps ==
  ASSUME Inv, NEW s \in Syncs, MarkExported(s)
  PROVE  Inv'
<1>1. /\ sync' \in [Syncs -> Call]
      /\ sync'[s].step = "done" /\ ~sync'[s].live /\ sync'[s].rest = {}
      /\ sync'[s].pack = sync[s].pack /\ sync'[s].listed = sync[s].listed
      /\ sync'[s].ok = sync[s].ok
      /\ \A t \in Syncs \ {s} : sync'[t] = sync[t]
  BY Ended DEF Inv, SyncSteps, MarkExported
<1>2. /\ sync[s].step = "mark"
      /\ UNCHANGED <<connection, bills, jobs, written, lost, broken, meanwhile>>
  BY DEF MarkExported, Doing, syncHistory
<1>3. \A i \in Invoices :
        /\ invoice'[i] \in [status : {"open", "approved", "exported", "void"},
                            exported : BOOLEAN]
        /\ i \notin Marks(s) => invoice'[i] = invoice[i]
        /\ i \in Marks(s) => invoice'[i].exported
        /\ invoice'[i].status = "approved" => invoice[i].status = "approved"
        /\ invoice[i].exported => invoice'[i].exported
  BY DEF MarkExported, Inv, ErpTypeOK
<1>4. ErpTypeOK'
  <2>1. DOMAIN invoice' = Invoices /\ invoice' = [i \in Invoices |-> invoice'[i]]
    BY DEF MarkExported
  <2>2. invoice' \in [Invoices -> [status : {"open", "approved", "exported", "void"},
                                 exported : BOOLEAN]]
    BY <1>3, <2>1
  <2> QED BY <1>1, <1>2, <2>2 DEF Inv, ErpTypeOK
<1>5. Knows(s) /\ Listed(s)
  BY DEF Inv
<1>6. s \in written /\ "succeeded" \in jobs[s]
      /\ sync[s].pack \in Packs \union {"csv"} /\ s \notin broken
  BY <1>2, <1>5 DEF Knows, Doing
<1>7. Elsewhere(s)
  BY <1>1, <1>2, <1>3 DEF Elsewhere
<1>8. Knows(s)' /\ Listed(s)'
  BY <1>1, <1>2, <1>6 DEF Knows, Doing, Listed
<1>9. \A i \in Invoices, t \in Syncs : Delivered(i, t) => Delivered(i, t)'
  BY <1>1, <1>2 DEF Delivered
<1>10. \A i \in Marks(s) \intersect Invoices : Delivered(i, s)
  BY <1>2, <1>5, <1>6 DEF Marks, Listed, Delivered, Erps, Packs
<1>11. MarkedIsDelivered'
  <2> SUFFICES ASSUME NEW i \in Invoices, invoice'[i].exported
               PROVE  \E t \in written' : Delivered(i, t)'
    BY DEF MarkedIsDelivered, Delivered
  <2>1. CASE i \in Marks(s)
    BY <2>1, <1>2, <1>6, <1>9, <1>10
  <2>2. CASE i \notin Marks(s)
    <3>1. invoice[i].exported
      BY <2>2, <1>3
    <3>2. \E t \in written : Delivered(i, t)
      BY <3>1 DEF Inv, MarkedIsDelivered, Delivered
    <3> QED BY <3>2, <1>2, <1>9 DEF Inv, ErpTypeOK
  <2> QED BY <2>1, <2>2
<1>12. \A q \in Erps, i \in Invoices, t \in Syncs :
         Excused(q, i, t) => Excused(q, i, t)' \/ invoice'[i].exported
  <2> SUFFICES ASSUME NEW q \in Erps, NEW i \in Invoices, NEW t \in Syncs,
                      Excused(q, i, t), t = s
               PROVE  invoice'[i].exported
    BY <1>1, <1>2 DEF Excused
  <2>1. invoice[i].exported \/ i \in Marks(s)
    BY DEF Excused, Marks, Erps
  <2> QED BY <2>1, <1>3
<1>13. BilledIsMarked'
  BY <1>2, <1>3, <1>12, StaysMarked
<1>14. \A i \in Invoices : Turns(i) \subseteq Turns(i)'
  BY <1>1 DEF Turns
<1>15. OnceInNetsuite' /\ TurnsBound'
  BY <1>2, <1>14, StaysBounded
<1> QED BY <1>2, <1>4, <1>7, <1>8, <1>11, <1>13, <1>15, OthersKnow DEF Inv

LEMMA PushKeeps ==
  ASSUME Inv, NEW s \in Syncs, Push(s)
  PROVE  Inv'
<1> DEFINE p == sync[s].pack
<1>1. PICK i \in Invoices : \E o \in Outcomes(p, i) : PushOf(s, i, o)
  BY HasPushed DEF Inv
<1>2. PICK o \in Outcomes(p, i) : PushOf(s, i, o)
  BY <1>1
<1>3. /\ sync' \in [Syncs -> Call]
      /\ sync'[s].pack = p /\ sync'[s].live = sync[s].live
      /\ sync'[s].listed = sync[s].listed
      /\ i \in sync[s].rest /\ sync'[s].rest = sync[s].rest \ {i}
      /\ sync'[s].step = IF sync[s].rest = {i} THEN "write" ELSE "push"
      /\ sync'[s].ok = IF o = Booked THEN sync[s].ok \union {i} ELSE sync[s].ok
      /\ \A t \in Syncs \ {s} : sync'[t] = sync[t]
  BY <1>2 DEF PushOf
<1>4. /\ sync[s].step = "push"
      /\ UNCHANGED <<invoice, connection, jobs, written, broken, meanwhile>>
  BY DEF Push, Doing
<1>5. Knows(s) /\ sync[s].live /\ p \in Erps /\ s \notin broken
      /\ "succeeded" \notin jobs[s]
  BY <1>4 DEF Inv, Knows, Doing
<1>6. /\ o = Booked => o.booked
      /\ p = "netsuite" /\ bills[p][i] > 0 => ~o.booked
  <2>1. o = Booked => o.booked
    BY DEF Booked
  <2>2. ASSUME p = "netsuite", bills[p][i] > 0
        PROVE  ~o.booked
    <3>1. o \in {[booked |-> FALSE, answer |-> "error"], [booked |-> FALSE, answer |-> "none"]}
      BY <2>2 DEF Outcomes
    <3> QED BY <3>1
  <2> QED BY <2>1, <2>2
<1>7. /\ bills' \in [Erps -> [Invoices -> Nat]]
      /\ bills'[p][i] = IF o.booked THEN bills[p][i] + 1 ELSE bills[p][i]
      /\ \A q \in Erps, j \in Invoices :
           q # p \/ j # i => bills'[q][j] = bills[q][j]
  BY <1>2, <1>5, <1>6 DEF PushOf, Inv, ErpTypeOK
<1>8. /\ lost' \subseteq Erps \X Invoices /\ lost \subseteq lost'
      /\ o.booked /\ o # Booked => <<p, i>> \in lost'
  BY <1>2, <1>5 DEF PushOf, Inv, ErpTypeOK
<1>9. ErpTypeOK'
  BY <1>3, <1>4, <1>7, <1>8 DEF Inv, ErpTypeOK
<1>10. Elsewhere(s)
  BY <1>3, <1>4 DEF Elsewhere
<1>11. Knows(s)' /\ Listed(s)'
  BY <1>3, <1>4, <1>5 DEF Knows, Doing, Listed, Erps
<1>12. \A j \in Invoices, t \in Syncs : Delivered(j, t) => Delivered(j, t)'
  BY <1>3, <1>4, <1>5 DEF Delivered
<1>13. MarkedIsDelivered'
  BY <1>4, <1>12, StaysDelivered
<1>14. BilledIsMarked'
  <2> SUFFICES ASSUME NEW q \in Erps, NEW j \in Invoices, bills'[q][j] > 0
               PROVE  \/ invoice'[j].exported
                      \/ <<q, j>> \in lost'
                      \/ \E t \in Syncs : Excused(q, j, t)'
    BY DEF BilledIsMarked, Excused
  <2>1. CASE bills[q][j] > 0
    <3>1. \/ invoice[j].exported
          \/ <<q, j>> \in lost
          \/ \E t \in Syncs : Excused(q, j, t)
      BY <2>1 DEF Inv, BilledIsMarked, Excused
    <3>2. \A t \in Syncs : Excused(q, j, t) => Excused(q, j, t)'
      BY <1>3, <1>4 DEF Excused
    <3> QED BY <3>1, <3>2, <1>4, <1>8
  <2>2. CASE ~(bills[q][j] > 0)
    <3>1. q = p /\ j = i /\ o.booked
      BY <2>2, <1>5, <1>7
    <3>2. CASE o = Booked
      <4>1. Excused(q, j, s)'
        BY <3>1, <3>2, <1>3 DEF Excused
      <4> QED BY <4>1
    <3>3. CASE o # Booked
      BY <3>1, <3>3, <1>8
    <3> QED BY <3>2, <3>3
  <2> QED BY <2>1, <2>2
<1>15. OnceInNetsuite'
  <2> SUFFICES ASSUME NEW j \in Invoices PROVE bills'["netsuite"][j] <= 1
    BY DEF OnceInNetsuite
  <2>1. bills["netsuite"][j] <= 1 /\ bills["netsuite"][j] \in Nat
        /\ "netsuite" \in Erps
    BY DEF Inv, OnceInNetsuite, ErpTypeOK, Erps
  <2>2. CASE p = "netsuite" /\ j = i /\ o.booked
    <3>1. bills[p][i] = 0
      BY <2>1, <2>2, <1>6
    <3> QED BY <3>1, <2>2, <1>7
  <2>3. CASE ~(p = "netsuite" /\ j = i /\ o.booked)
    BY <2>1, <2>3, <1>6, <1>7
  <2> QED BY <2>2, <2>3
<1>16. ASSUME NEW j \in Invoices
       PROVE  bills'["qbo"][j] <= Cardinality(Turns(j)')
  <2>1. bills["qbo"][j] <= Cardinality(Turns(j)) /\ bills["qbo"][j] \in Nat
        /\ "qbo" \in Erps
    BY DEF Inv, TurnsBound, ErpTypeOK, Erps
  <2>2. Turns(j) \subseteq Turns(j)'
    BY <1>3, <1>4 DEF Turns
  <2>3. CASE p = "qbo" /\ j = i
    <3>1. s \notin Turns(i)
      BY <1>3 DEF Turns
    <3>2. s \in Turns(i)'
      <4>1. i \in sync[s].listed
        BY <1>3, <1>5 DEF Knows
      <4> QED BY <1>3, <2>3, <4>1 DEF Turns
    <3>3. Cardinality(Turns(i) \union {s}) = Cardinality(Turns(i)) + 1
      BY <3>1, TurnsAreFinite, FS_AddElement
    <3>4. Turns(i) \union {s} \subseteq Turns(i)'
      BY <2>2, <2>3, <3>2
    <3>5. Cardinality(Turns(i) \union {s}) <= Cardinality(Turns(i)')
      BY <3>4, TurnsAreFinite, FS_Subset
    <3>6. bills'["qbo"][i] <= bills["qbo"][i] + 1
      BY <2>1, <2>3, <1>6, <1>7
    <3>7. bills'["qbo"][i] \in Nat
      BY <2>1, <1>7
    <3> QED BY <2>1, <2>3, <3>3, <3>5, <3>6, <3>7, TurnsAreFinite
  <2>4. CASE ~(p = "qbo" /\ j = i)
    <3>1. bills'["qbo"][j] = bills["qbo"][j]
      BY <2>1, <2>4, <1>7
    <3>2. Cardinality(Turns(j)) <= Cardinality(Turns(j)')
      BY <2>2, TurnsAreFinite, FS_Subset
    <3> QED BY <2>1, <3>1, <3>2, TurnsAreFinite
  <2> QED BY <2>3, <2>4
<1>17. TurnsBound'
  BY <1>16 DEF TurnsBound
<1> QED BY <1>4, <1>9, <1>10, <1>11, <1>13, <1>14, <1>15, <1>17, OthersKnow DEF Inv

-----------------------------------------------------------------------------
(* The invariant *)

LEMMA CallKeeps ==
  ASSUME Inv, NEW s \in Syncs, SyncStep(s)
  PROVE  Inv'
<1>1. CASE ReadApproved(s)
  BY <1>1, ReadKeeps
<1>2. CASE Push(s)
  BY <1>2, PushKeeps
<1>3. CASE WriteArtifact(s)
  BY <1>3, GoKeeps DEF WriteArtifact
<1>4. CASE CreateJob(s)
  BY <1>4, GoKeeps DEF CreateJob, syncHistory
<1>5. CASE MarkExported(s)
  BY <1>5, MarkKeeps
<1>6. CASE ThrowSync(s)
  BY <1>6, EndKeeps DEF ThrowSync, Syncing
<1>7. CASE FailJob(s)
  BY <1>7, EndKeeps DEF FailJob, Syncing, Doing, syncHistory
<1>8. CASE StopSync(s)
  BY <1>8, EndKeeps DEF StopSync
<1> QED BY <1>1, <1>2, <1>3, <1>4, <1>5, <1>6, <1>7, <1>8 DEF SyncStep

LEMMA SyncStarts ==
  ASSUME Inv, NEW s \in Syncs, NEW p \in Packs, StartSync(s, p)
  PROVE  Inv'
<1>1. /\ Doing(s, "off")
      /\ UNCHANGED <<invoice, connection, bills, jobs, syncHistory>>
  BY DEF StartSync
<1>2. connection[p] = "live" => p \in Erps
  BY DEF Inv, Packs, Erps
<1>3. /\ sync' \in [Syncs -> Call]
      /\ sync'[s].step = "read" /\ sync'[s].pack = p
      /\ sync'[s].live => connection[p] = "live"
      /\ sync'[s].rest = {} /\ sync'[s].listed = {}
      /\ \A t \in Syncs \ {s} : sync'[t] = sync[t]
  BY Started DEF Inv
<1> QED BY <1>1, <1>2, <1>3, StartKeeps

LEMMA ExportStarts ==
  ASSUME Inv, NEW s \in Syncs, StartExport(s)
  PROVE  Inv'
<1>1. /\ Doing(s, "off")
      /\ UNCHANGED <<invoice, connection, bills, jobs, syncHistory>>
  BY DEF StartExport
<1>2. /\ sync' \in [Syncs -> Call]
      /\ sync'[s].step = "read" /\ sync'[s].pack = "csv" /\ ~sync'[s].live
      /\ sync'[s].rest = {} /\ sync'[s].listed = {}
      /\ \A t \in Syncs \ {s} : sync'[t] = sync[t]
  BY Exporting DEF Inv
<1> QED BY <1>1, <1>2, StartKeeps

LEMMA Connects ==
  ASSUME Inv, NEW p \in Packs, NEW modes \in SUBSET {"mock", "live"},
         p = "demo" => "live" \notin modes, Connect(p, modes) \/ Disconnect(p)
  PROVE  Inv'
<1>1. /\ UNCHANGED <<invoice, bills, sync, jobs, syncHistory>>
      /\ \E mode \in modes \union {"disconnected"} :
           connection' = [connection EXCEPT ![p] = mode]
  BY DEF Connect, Disconnect
<1>2. /\ connection' \in [Packs -> {"absent", "mock", "live", "disconnected"}]
      /\ connection'["demo"] # "live"
  BY <1>1 DEF Inv, ErpTypeOK, Packs
<1> QED BY <1>1, <1>2, ConnectionKeeps

LEMMA NextKeeps == Inv /\ [ErpNext]_erpVars => Inv'
<1> SUFFICES ASSUME Inv, [ErpNext]_erpVars PROVE Inv'
  OBVIOUS
<1>1. CASE \E i \in Invoices : ApproveInvoice(i) \/ VoidInvoice(i)
  BY <1>1, ApproveKeeps, VoidKeeps
<1>2. CASE \/ ConnectDemoErp \/ ConnectNetsuite \/ ConnectQbo
           \/ DisconnectDemoErp \/ DisconnectNetsuite \/ DisconnectQbo
  BY <1>2, Connects DEF Packs, ConnectDemoErp, ConnectNetsuite, ConnectQbo,
       DisconnectDemoErp, DisconnectNetsuite, DisconnectQbo
<1>3. CASE \E s \in Syncs : SyncDemoErp(s) \/ SyncNetsuite(s) \/ SyncQbo(s)
  BY <1>3, SyncStarts DEF Packs, SyncDemoErp, SyncNetsuite, SyncQbo
<1>4. CASE \E s \in Syncs : StartExport(s) \/ SyncStep(s)
  BY <1>4, ExportStarts, CallKeeps
<1>5. CASE UNCHANGED erpVars
  BY <1>5, ConnectionKeeps DEF erpVars, Inv, ErpTypeOK
<1> QED BY <1>1, <1>2, <1>3, <1>4, <1>5 DEF ErpNext

LEMMA Invariant == ErpSpec => []Inv
BY InitInv, NextKeeps, PTL DEF ErpSpec

(* The variables have their types after any number of calls.               *)
THEOREM ErpTypeCorrect == ErpSpec => []ErpTypeOK
<1>1. Inv => ErpTypeOK
  BY DEF Inv
<1> QED BY <1>1, Invariant, PTL

(* An invoice that says it was exported is in a written file as one that   *)
(* went through, but for those approved during a sync to the demo ERP; an  *)
(* invoice that was billed says so, unless no answer came for it or the    *)
(* call that billed it is not through or broke (BooksAgree).               *)
THEOREM MarksAreRight == ErpSpec => []BooksAgree
<1>1. Inv => BooksAgree
  BY DEF Inv, BooksAgree
<1> QED BY <1>1, Invariant, PTL

(* NetSuite books one bill for an invoice, QuickBooks at most one for each *)
(* sync that listed it (BilledPerSync).                                    *)
THEOREM BilledOncePerSync == ErpSpec => []BilledPerSync
<1>1. Inv => BilledPerSync
  <2> SUFFICES ASSUME Inv, NEW i \in Invoices
               PROVE  /\ bills["netsuite"][i] <= 1
                      /\ bills["qbo"][i] <= Cardinality(
                           {s \in Syncs : sync[s].pack = "qbo" /\ i \in sync[s].listed})
    BY DEF BilledPerSync
  <2> DEFINE listing == {s \in Syncs : sync[s].pack = "qbo" /\ i \in sync[s].listed}
  <2>1. Turns(i) \subseteq listing /\ listing \subseteq Syncs
    BY DEF Turns
  <2>2. IsFiniteSet(listing) /\ Cardinality(listing) \in Nat
        /\ Cardinality(Turns(i)) <= Cardinality(listing)
    BY <2>1, SyncsAssumption, FS_Subset, FS_CardinalityType
  <2>3. bills["qbo"][i] <= Cardinality(Turns(i)) /\ bills["qbo"][i] \in Nat
    BY DEF Inv, TurnsBound, ErpTypeOK, Erps
  <2>4. bills["netsuite"][i] <= 1
    BY DEF Inv, OnceInNetsuite
  <2> QED BY <2>2, <2>3, <2>4, TurnsAreFinite
<1> QED BY <1>1, Invariant, PTL
=============================================================================
