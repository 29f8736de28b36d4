---------------------------- MODULE Office_proofs ----------------------------
(***************************************************************************)
(* Proofs about Contracting, for any number of contracts, purchase         *)
(* requests, order numbers and overlapping requests, and for a chain and   *)
(* signers of any length; and about the pages of the web application, for  *)
(* any rows, calls under way and steps of the user.  They share no         *)
(* variable; each section stands on its own.                               *)
(***************************************************************************)
EXTENDS Contracting, InvoiceWorkspace, ProcurePages, AdminPage, RatesTab,
        FiniteSetTheorems, TLAPS

-----------------------------------------------------------------------------
(* Contracts, purchase requests and orders                                 *)

PROps == {"movePR", "convert"}

(* What a request in flight is about to write.                             *)
PendingOK ==
  \A r \in Requests :
    /\ req[r].op \in Ops \ PROps => req[r].contract \in Contracts
    /\ req[r].op \in PROps => req[r].pr \in PRs
    /\ Pending(r, "moveContract") => req[r].to \in ContractStatus
    /\ Pending(r, "movePR") =>
         req[r].to \in PRStatus \ {"absent", "converted"}
    /\ Pending(r, "advance") => req[r].stage \in 0..Chain
    /\ req[r].op \in {"writeEnvelope", "complete"} =>
         req[r].envelope \in Envelopes
    /\ Pending(r, "convert") => req[r].number \in Numbers

TypeInv == TypeOK /\ PendingOK

-----------------------------------------------------------------------------
(* Types *)

LEMMA IdleType == Idle \in Request /\ Idle.op \notin Ops
BY NoneAssumption, ChainAssumption DEF Idle, Request

LEMMA ContractMovesType ==
  ASSUME NEW s \in ContractStatus, NEW t \in ContractMoves[s]
  PROVE  t \in ContractStatus
BY DEF ContractMoves, ContractStatus

LEMMA PRMovesType ==
  ASSUME NEW s \in PRStatus, NEW t \in PRMoves[s]
  PROVE  t \in PRStatus \ {"absent", "converted"}
BY DEF PRMoves, PRStatus

LEMMA InitTypeInv == Init => TypeInv
<1> SUFFICES ASSUME Init PROVE TypeInv
  OBVIOUS
<1>1. together \in BOOLEAN
  BY DEF Init
<1>2. PendingOK
  BY IdleType DEF Init, PendingOK, Pending, Ops, PROps
<1> QED
  BY <1>1, <1>2, IdleType, ChainAssumption
  DEF Init, TypeInv, TypeOK, ContractStatus, PRStatus

(* A request that is served has the type of what it is about to write.     *)
LEMMA ServeTypeInv ==
  ASSUME TypeInv, NEW r \in Requests, NEW job \in Request, Serve(r, job),
         together' \in BOOLEAN,
         UNCHANGED <<contractVars, prVars, orders>>,
         job.op \in Ops \ PROps => job.contract \in Contracts,
         job.op \in PROps => job.pr \in PRs,
         job.op = "moveContract" => job.to \in ContractStatus,
         job.op = "movePR" => job.to \in PRStatus \ {"absent", "converted"},
         job.op = "advance" => job.stage \in 0..Chain,
         job.op \in {"writeEnvelope", "complete"} => job.envelope \in Envelopes,
         job.op = "convert" => job.number \in Numbers
  PROVE  TypeInv'
BY DEF TypeInv, TypeOK, PendingOK, Pending, Serve, contractVars, prVars

LEMMA StartTypeInv ==
  ASSUME TypeInv, NEW r \in Requests, Start(r), together' \in BOOLEAN
  PROVE  TypeInv'
<1> USE DEF TypeInv, TypeOK
<1>1. ASSUME NEW c \in Contracts, CreateContract(r, c) PROVE TypeInv'
  BY <1>1 DEF CreateContract, PendingOK, Pending, ContractStatus, prVars
<1>2. ASSUME NEW c \in Contracts, NEW s, StartMoveContract(r, c, s)
      PROVE  TypeInv'
  <2> DEFINE job == [Idle EXCEPT !.op = "moveContract", !.contract = c,
                                 !.to = s]
  <2>1. s \in ContractStatus
    BY <1>2, ContractMovesType DEF StartMoveContract
  <2>2. job \in Request
    BY <2>1, IdleType DEF Request, Ops, Idle
  <2> QED
    BY <1>2, <2>1, <2>2, ServeTypeInv DEF StartMoveContract, Idle, PROps
<1>3. ASSUME NEW c \in Contracts, StartSendForApproval(r, c) PROVE TypeInv'
  <2>1. [Idle EXCEPT !.op = "sendForApproval", !.contract = c] \in Request
    BY IdleType DEF Request, Ops, Idle
  <2> QED
    BY <1>3, <2>1, ServeTypeInv DEF StartSendForApproval, Idle, PROps
<1>4. ASSUME NEW c \in Contracts, StartAdvance(r, c) PROVE TypeInv'
  <2> DEFINE op == IF stage[c] + 1 > Chain THEN "openEnvelope" ELSE "advance"
             job == [Idle EXCEPT !.op = op, !.contract = c,
                                 !.stage = stage[c] + 1]
  <2>1. /\ stage[c] + 1 \in 0..Chain + 1
        /\ op = "advance" => stage[c] + 1 \in 0..Chain
        /\ op \in {"openEnvelope", "advance"}
    BY ChainAssumption
  <2> HIDE DEF op
  <2>2. job \in Request
    BY <2>1, IdleType DEF Request, Ops, Idle
  <2>3. Serve(r, job)
    BY <1>4 DEF StartAdvance, op
  <2> QED
    BY <1>4, <2>1, <2>2, <2>3, ServeTypeInv DEF StartAdvance, Idle, PROps
<1>5. ASSUME NEW c \in Contracts, StartSendForSignature(r, c)
      PROVE  TypeInv'
  <2> DEFINE signed == IF envelope[c] = None THEN 0 ELSE envelope[c].signed
             e == [state |-> "sent", signed |-> signed]
             job == [Idle EXCEPT !.op = "writeEnvelope", !.contract = c,
                                 !.envelope = e]
  <2>1. e \in Envelopes
    BY ChainAssumption DEF Envelopes
  <2>2. Serve(r, job) /\ UNCHANGED <<contractVars, prVars, orders>>
    BY <1>5 DEF StartSendForSignature
  <2> HIDE DEF e
  <2>3. job \in Request
    BY <2>1, IdleType DEF Request, Ops, Idle
  <2> QED
    BY <2>1, <2>2, <2>3, ServeTypeInv DEF Idle, PROps
<1>6. ASSUME NEW c \in Contracts, StartSign(r, c) PROVE TypeInv'
  <2> DEFINE e == [envelope[c] EXCEPT !.signed = @ + 1]
             job == [Idle EXCEPT !.op = "writeEnvelope", !.contract = c,
                                 !.envelope = e]
  <2>1. e \in Envelopes
    BY <1>6, ChainAssumption DEF StartSign, Envelopes
  <2>2. Serve(r, job) /\ UNCHANGED <<contractVars, prVars, orders>>
    BY <1>6 DEF StartSign
  <2> HIDE DEF e
  <2>3. job \in Request
    BY <2>1, IdleType DEF Request, Ops, Idle
  <2> QED
    BY <2>1, <2>2, <2>3, ServeTypeInv DEF Idle, PROps
<1>7. ASSUME NEW c \in Contracts, StartComplete(r, c) PROVE TypeInv'
  <2> DEFINE e == [envelope[c] EXCEPT !.state = "completed"]
             job == [Idle EXCEPT !.op = "complete", !.contract = c,
                                 !.envelope = e]
  <2>1. e \in Envelopes
    BY <1>7, ChainAssumption DEF StartComplete, Envelopes
  <2>2. Serve(r, job) /\ UNCHANGED <<contractVars, prVars, orders>>
    BY <1>7 DEF StartComplete
  <2> HIDE DEF e
  <2>3. job \in Request
    BY <2>1, IdleType DEF Request, Ops, Idle
  <2> QED
    BY <2>1, <2>2, <2>3, ServeTypeInv DEF Idle, PROps
<1>8. ASSUME NEW c \in Contracts, StartAccept(r, c) PROVE TypeInv'
  <2>1. [Idle EXCEPT !.op = "findLinked", !.contract = c] \in Request
    BY IdleType DEF Request, Ops, Idle
  <2> QED
    BY <1>8, <2>1, ServeTypeInv DEF StartAccept, Idle, PROps
<1>9. ASSUME NEW p \in PRs, NEW c \in Contracts \union {None},
             NEW n \in Contracts \union {None}, CreatePR(r, p, c, n)
      PROVE  TypeInv'
  BY <1>9 DEF CreatePR, PendingOK, Pending, PRStatus, contractVars
<1>10. ASSUME NEW p \in PRs, NEW s, StartMovePR(r, p, s) PROVE TypeInv'
  <2> DEFINE job == [Idle EXCEPT !.op = "movePR", !.pr = p, !.to = s]
  <2>1. s \in PRStatus \ {"absent", "converted"}
    BY <1>10, PRMovesType DEF StartMovePR
  <2>2. job \in Request
    BY <2>1, IdleType DEF Request, Ops, Idle
  <2> QED
    BY <1>10, <2>1, <2>2, ServeTypeInv DEF StartMovePR, Idle, PROps
<1>11. ASSUME NEW p \in PRs, NEW n \in Numbers, StartConvert(r, p, n)
       PROVE  TypeInv'
  <2>1. [Idle EXCEPT !.op = "convert", !.pr = p, !.number = n] \in Request
    BY IdleType DEF Request, Ops, Idle
  <2> QED
    BY <1>11, <2>1, ServeTypeInv DEF StartConvert, Idle, PROps
<1>12. ASSUME NEW p \in PRs \union {None}, NEW n \in Numbers,
              CreateOrder(r, p, n)
       PROVE  TypeInv'
  BY <1>12 DEF CreateOrder, PendingOK, Pending, Orders, contractVars, prVars
<1> QED
  BY <1>1, <1>2, <1>3, <1>4, <1>5, <1>6, <1>7, <1>8, <1>9, <1>10, <1>11,
     <1>12
  DEF Start

LEMMA StepTypeInv ==
  ASSUME TypeInv, NEW r \in Requests, Step(r), together' \in BOOLEAN
  PROVE  TypeInv'
<1> USE IdleType DEF TypeInv, TypeOK, PendingOK, Pending, Finish, contractVars,
                     prVars, PROps, Ops
<1>1. CASE MoveContract(r)
  BY <1>1 DEF MoveContract
<1>2. CASE SendForApproval(r)
  BY <1>2, ChainAssumption DEF SendForApproval, ContractStatus
<1>3. CASE Advance(r)
  BY <1>3 DEF Advance
<1>4. CASE OpenEnvelope(r)
  <2>1. NewEnvelope \in Envelopes /\ Chain \in 0..Chain
    BY ChainAssumption DEF NewEnvelope, Envelopes
  <2> QED
    BY <1>4, <2>1 DEF OpenEnvelope, ContractStatus
<1>5. CASE WriteEnvelope(r)
  BY <1>5 DEF WriteEnvelope
<1>6. CASE Complete(r)
  BY <1>6 DEF Complete, ContractStatus
<1>7. CASE MovePR(r)
  BY <1>7 DEF MovePR
<1>8. CASE FindLinked(r)
  BY <1>8 DEF FindLinked, Request
<1>9. CASE Accept(r)
  BY <1>9 DEF Accept, PRStatus
<1>10. CASE Convert(r)
  BY <1>10 DEF Convert, PRStatus, Orders
<1> QED
  BY <1>1, <1>2, <1>3, <1>4, <1>5, <1>6, <1>7, <1>8, <1>9, <1>10 DEF Step

LEMMA NextTypeInv == TypeInv /\ [Next]_vars => TypeInv'
<1>1. ASSUME TypeInv, UNCHANGED vars PROVE TypeInv'
  BY <1>1 DEF TypeInv, TypeOK, PendingOK, Pending, vars
<1>2. ASSUME Next PROVE together' \in BOOLEAN
  BY <1>2 DEF Next, OneAtATime
<1> QED
  BY <1>1, <1>2, StartTypeInv, StepTypeInv DEF Next

LEMMA AlwaysTypeInv == Spec => []TypeInv
BY InitTypeInv, NextTypeInv, PTL DEF Spec

(* The variables keep their types, and no approval stage lies beyond the   *)
(* chain, however the requests of the contract services overlap.           *)
THEOREM TypeCorrect == Spec => []TypeOK
<1>1. TypeInv => TypeOK
  BY DEF TypeInv
<1> QED
  BY <1>1, AlwaysTypeInv, PTL

-----------------------------------------------------------------------------
(* Signatures *)

SignedIf(e) == e.state = "completed" => e.signed = Signers

(* Whoever is about to write an envelope read one that was completed only  *)
(* with every signature, and signed, sent or completed that one.           *)
SignedInv ==
  /\ \A c \in Contracts : envelope[c] # None => SignedIf(envelope[c])
  /\ \A r \in Requests : req[r].op \in {"writeEnvelope", "complete"} =>
                         SignedIf(req[r].envelope)

LEMMA NextSignedInv == TypeInv /\ SignedInv /\ [Next]_vars => SignedInv'
<1> SUFFICES ASSUME TypeInv, SignedInv, [Next]_vars PROVE SignedInv'
  OBVIOUS
<1> USE IdleType DEF SignedInv, SignedIf, TypeInv, TypeOK, Ops
<1>1. ASSUME UNCHANGED vars PROVE SignedInv'
  BY <1>1 DEF vars
<1>2. ASSUME NEW r \in Requests, UNCHANGED envelope,
             \A q \in Requests \ {r} : req'[q] = req[q],
             req'[r].op \notin {"writeEnvelope", "complete"}
      PROVE  SignedInv'
  BY <1>2
<1>3. ASSUME NEW r \in Requests, Start(r) PROVE SignedInv'
  <2>1. ASSUME UNCHANGED <<envelope, req>> PROVE SignedInv'
    BY <2>1
  <2>2. ASSUME NEW c \in Contracts, StartSign(r, c) PROVE SignedInv'
    <3>1. SignedIf([envelope[c] EXCEPT !.signed = @ + 1])
      BY <2>2, ChainAssumption DEF StartSign, Envelopes
    <3> QED
      BY <2>2, <3>1 DEF StartSign, Serve, contractVars, Idle
  <2>3. ASSUME NEW c \in Contracts, StartComplete(r, c) PROVE SignedInv'
    BY <2>3, ChainAssumption
    DEF StartComplete, Serve, contractVars, Idle, Envelopes
  <2>4. ASSUME NEW c \in Contracts, StartSendForSignature(r, c)
        PROVE  SignedInv'
    BY <2>4 DEF StartSendForSignature, Serve, contractVars, Idle
  <2>5. ASSUME NEW c \in Contracts, NEW s, StartMoveContract(r, c, s)
        PROVE  SignedInv'
    BY <2>5, <1>2 DEF StartMoveContract, Serve, Idle, contractVars
  <2>6. ASSUME NEW c \in Contracts, StartSendForApproval(r, c)
        PROVE  SignedInv'
    BY <2>6, <1>2 DEF StartSendForApproval, Serve, Idle, contractVars
  <2>10. ASSUME NEW c \in Contracts, StartAccept(r, c) PROVE SignedInv'
    BY <2>10, <1>2 DEF StartAccept, Serve, Idle, contractVars
  <2>7. ASSUME NEW c \in Contracts, StartAdvance(r, c) PROVE SignedInv'
    <3>1. req'[r].op \in {"openEnvelope", "advance"}
      BY <2>7 DEF StartAdvance, Serve, Idle
    <3> QED
      BY <2>7, <3>1, <1>2 DEF StartAdvance, Serve, contractVars
  <2>8. ASSUME NEW p \in PRs, NEW s, StartMovePR(r, p, s) PROVE SignedInv'
    BY <2>8, <1>2 DEF StartMovePR, Serve, Idle, contractVars
  <2>9. ASSUME NEW p \in PRs, NEW n, StartConvert(r, p, n) PROVE SignedInv'
    BY <2>9, <1>2 DEF StartConvert, Serve, Idle, contractVars
  <2> QED
    BY <1>3, <2>1, <2>2, <2>3, <2>4, <2>5, <2>6, <2>7, <2>8, <2>9,
       <2>10
    DEF Start, CreateContract, CreatePR, CreateOrder, contractVars
<1>4. ASSUME NEW r \in Requests, Step(r) PROVE SignedInv'
  <2> USE DEF Pending, Finish, contractVars
  <2>1. CASE OpenEnvelope(r)
    BY <2>1 DEF OpenEnvelope, NewEnvelope
  <2>2. CASE WriteEnvelope(r) \/ Complete(r)
    BY <2>2 DEF WriteEnvelope, Complete
  <2>3. CASE FindLinked(r)
    <3>1. req'[r] = Idle \/ req'[r].op = "accept"
      BY <2>3 DEF FindLinked, Request
    <3> QED
      BY <2>3, <3>1, <1>2 DEF FindLinked
  <2>4. CASE UNCHANGED envelope /\ Finish(r)
    BY <2>4
  <2> QED
    BY <1>4, <2>1, <2>2, <2>3, <2>4
    DEF Step, MoveContract, SendForApproval, Advance, MovePR, Accept, Convert
<1> QED
  BY <1>1, <1>3, <1>4 DEF Next

(* A completed envelope bears every signature: the envelope is overwritten *)
(* as a whole, so a signature may be lost, but what is completed was read  *)
(* with all of them.                                                       *)
THEOREM OnlySignedCompletes == Spec => []CompletedIsSigned
<1>1. Init => SignedInv
  BY IdleType DEF Init, SignedInv, Ops
<1>2. TypeInv /\ SignedInv => CompletedIsSigned
  BY DEF SignedInv, SignedIf, CompletedIsSigned
<1> QED
  BY <1>1, <1>2, NextSignedInv, AlwaysTypeInv, PTL DEF Spec

-----------------------------------------------------------------------------
(* Proposals *)

(* The accepted proposal of a contract has left its number on a request,   *)
(* and only a request that does not exist yet is named.                    *)
AcceptedInv ==
  /\ \A p \in PRs : pr[p] = "absent" => named[p] = None
  /\ \A c \in Contracts :
       accepted[c] <= 1 /\ (accepted[c] = 1 => Taken(c))

LEMMA NextAcceptedInv ==
  TypeInv /\ AcceptedInv /\ [Next]_vars => AcceptedInv'
<1> SUFFICES ASSUME TypeInv, AcceptedInv, [Next]_vars PROVE AcceptedInv'
  OBVIOUS
<1> USE NoneAssumption DEF AcceptedInv, Taken, TypeInv, TypeOK
<1>1. ASSUME UNCHANGED prVars PROVE AcceptedInv'
  BY <1>1 DEF prVars
<1>2. ASSUME NEW r \in Requests, NEW p \in PRs,
             NEW c \in Contracts \union {None},
             NEW n \in Contracts \union {None}, CreatePR(r, p, c, n)
      PROVE  AcceptedInv'
  BY <1>2 DEF CreatePR
<1>3. ASSUME NEW r \in Requests, MovePR(r) PROVE AcceptedInv'
  BY <1>3 DEF MovePR, PendingOK, Pending, PROps
<1>4. ASSUME NEW r \in Requests, Accept(r) PROVE AcceptedInv'
  <2> DEFINE c == req[r].contract
  <2>1. c \in Contracts
    BY <1>4 DEF Accept, PendingOK, Pending, PROps, Ops
  <2>2. CASE UNCHANGED prVars
    BY <2>2, <1>1
  <2>3. CASE ~Taken(c)
    <3>1. accepted[c] = 0
      BY <2>1, <2>3
    <3> QED
      BY <1>4, <2>1, <2>3, <3>1 DEF Accept
  <2> QED
    BY <1>4, <2>2, <2>3 DEF Accept
<1>5. ASSUME NEW r \in Requests, Convert(r) PROVE AcceptedInv'
  BY <1>5 DEF Convert
<1>6. ASSUME NEW r \in Requests, Start(r) PROVE AcceptedInv'
  BY <1>6, <1>1, <1>2
  DEF Start, CreateContract, StartMoveContract, StartSendForApproval,
      StartAdvance, StartSendForSignature, StartSign, StartComplete,
      StartAccept, StartMovePR, StartConvert, CreateOrder
<1>7. ASSUME NEW r \in Requests, Step(r) PROVE AcceptedInv'
  BY <1>7, <1>1, <1>3, <1>4, <1>5
  DEF Step, MoveContract, SendForApproval, Advance, OpenEnvelope,
      WriteEnvelope, Complete, FindLinked
<1> QED
  BY <1>1, <1>6, <1>7 DEF Next, vars, prVars

(* The proposal of a contract is accepted once: requests that overlap all  *)
(* find it without a purchase request, and the unique number that is made  *)
(* from the contract's lets one of them insert it.                         *)
THEOREM ProposalAcceptedOnce == Spec => []AcceptedOnce
<1>1. Init => AcceptedInv
  BY NoneAssumption DEF Init, AcceptedInv, Taken
<1>2. AcceptedInv => AcceptedOnce
  BY DEF AcceptedInv, AcceptedOnce
<1> QED
  BY <1>1, <1>2, NextAcceptedInv, AlwaysTypeInv, PTL DEF Spec

-----------------------------------------------------------------------------
(* Conversions *)

(* What says it was converted has an order.                                *)
ConvertedHasOrder ==
  \A p \in PRs : pr[p] = "converted" => ConvertedFrom(p) # {}

LEMMA NextConvertedHasOrder ==
  TypeInv /\ ConvertedHasOrder /\ [Next]_vars => ConvertedHasOrder'
<1> SUFFICES ASSUME TypeInv, ConvertedHasOrder, [Next]_vars
             PROVE  ConvertedHasOrder'
  OBVIOUS
<1> USE DEF ConvertedHasOrder, ConvertedFrom, TypeInv, TypeOK
<1>1. ASSUME UNCHANGED pr, orders \subseteq orders'
      PROVE  ConvertedHasOrder'
  BY <1>1
<1>2. ASSUME NEW p \in PRs, NEW s, s # "converted",
             pr' = [pr EXCEPT ![p] = s], UNCHANGED orders
      PROVE  ConvertedHasOrder'
  BY <1>2
<1>3. ASSUME NEW r \in Requests, NEW p \in PRs,
             NEW c \in Contracts \union {None},
             NEW n \in Contracts \union {None}, CreatePR(r, p, c, n)
      PROVE  ConvertedHasOrder'
  BY <1>3, <1>2 DEF CreatePR
<1>4. ASSUME NEW r \in Requests, MovePR(r) PROVE ConvertedHasOrder'
  BY <1>4, <1>2 DEF MovePR, PendingOK, Pending, PROps
<1>5. ASSUME NEW r \in Requests, Accept(r) PROVE ConvertedHasOrder'
  <2>1. CASE UNCHANGED prVars
    BY <1>5, <2>1, <1>1 DEF Accept, prVars
  <2>2. ASSUME NEW p \in PRs, pr' = [pr EXCEPT ![p] = "in_approval"]
        PROVE  ConvertedHasOrder'
    BY <1>5, <2>2, <1>2 DEF Accept
  <2> QED
    BY <1>5, <2>1, <2>2 DEF Accept
<1>6. ASSUME NEW r \in Requests, Convert(r) PROVE ConvertedHasOrder'
  <2>1. CASE UNCHANGED <<pr, orders>>
    BY <2>1, <1>1
  <2>2. ASSUME NEW p, NEW n, pr' = [pr EXCEPT ![p] = "converted"],
               orders' = orders \union
                           {[number |-> n, pr |-> p, by |-> "convert"]}
        PROVE  ConvertedHasOrder'
    <3> DEFINE o == [number |-> n, pr |-> p, by |-> "convert"]
    <3>1. o \in ConvertedFrom(p)'
      BY <2>2
    <3>2. ASSUME NEW q \in PRs, q # p, pr'[q] = "converted"
          PROVE  ConvertedFrom(q)' # {}
      <4>1. pr[q] = "converted"
        BY <2>2, <3>2
      <4>2. ConvertedFrom(q) \subseteq ConvertedFrom(q)'
        BY <2>2
      <4> QED
        BY <4>1, <4>2
    <3> QED
      BY <3>1, <3>2
  <2> QED
    BY <1>6, <2>1, <2>2 DEF Convert
<1>7. ASSUME NEW r \in Requests, Start(r) PROVE ConvertedHasOrder'
  BY <1>7, <1>1, <1>3
  DEF Start, prVars, CreateContract, StartMoveContract, StartSendForApproval,
      StartAdvance, StartSendForSignature, StartSign, StartComplete,
      StartAccept, StartMovePR, StartConvert, CreateOrder
<1>8. ASSUME NEW r \in Requests, Step(r) PROVE ConvertedHasOrder'
  BY <1>8, <1>1, <1>4, <1>5, <1>6
  DEF Step, prVars, MoveContract, SendForApproval, Advance, OpenEnvelope,
      WriteEnvelope, Complete, FindLinked
<1> QED
  BY <1>1, <1>7, <1>8 DEF Next, vars

(* A purchase request that says it was converted has an order: the status  *)
(* is written in the transaction that creates it, and no transition of an  *)
(* overlapping request writes that status.                                 *)
LEMMA ConversionsOrder == Spec => []ConvertedHasOrder
<1>1. Init => ConvertedHasOrder
  BY DEF Init, ConvertedHasOrder
<1> QED
  BY <1>1, NextConvertedHasOrder, AlwaysTypeInv, PTL DEF Spec

(* Requests about to convert a purchase request.                           *)
Converting(p) == {r \in Requests : Pending(r, "convert") /\ req[r].pr = p}

(* An order and a request about to make one each take up a slot: a request *)
(* gets there only while the purchase request has no order, and gives up   *)
(* its slot when it makes one.                                             *)
SlotInv ==
  \A p \in PRs :
    /\ IsFiniteSet(ConvertedFrom(p))
    /\ Cardinality(ConvertedFrom(p)) + Cardinality(Converting(p))
         <= Cardinality(Requests)

LEMMA ConvertingBounds ==
  ASSUME NEW p
  PROVE  /\ IsFiniteSet(Converting(p))
         /\ Cardinality(Converting(p)) \in Nat
         /\ Cardinality(Requests) \in Nat
         /\ Cardinality(Converting(p)) <= Cardinality(Requests)
BY RequestsAssumption, FS_Subset, FS_CardinalityType DEF Converting

LEMMA NextSlotInv == TypeInv /\ SlotInv /\ [Next]_vars => SlotInv'
<1> SUFFICES ASSUME TypeInv, SlotInv, [Next]_vars, NEW p \in PRs
             PROVE  SlotInv!(p)'
  BY DEF SlotInv
<1> USE DEF SlotInv
<1> DEFINE made == ConvertedFrom(p)
           serving == Converting(p)
<1>1. /\ IsFiniteSet(serving) /\ Cardinality(serving) \in Nat
      /\ IsFiniteSet(serving') /\ Cardinality(serving') \in Nat
      /\ Cardinality(Requests) \in Nat
      /\ IsFiniteSet(made) /\ Cardinality(made) \in Nat
      /\ Cardinality(serving') <= Cardinality(Requests)
  <2>1. /\ IsFiniteSet(serving') /\ serving' \subseteq Requests
    BY RequestsAssumption, FS_Subset DEF Converting
  <2> QED
    BY <2>1, ConvertingBounds, RequestsAssumption, FS_Subset,
       FS_CardinalityType
<1>2. ASSUME made' = made, serving' \subseteq serving PROVE SlotInv!(p)'
  <2>1. Cardinality(serving') <= Cardinality(serving)
    BY <1>1, <1>2, FS_Subset
  <2> QED
    BY <1>1, <1>2, <2>1
<1>3. ASSUME made = {}, made' = made PROVE SlotInv!(p)'
  BY <1>1, <1>3, FS_EmptySet
<1>4. ASSUME NEW r \in Requests, Convert(r) PROVE SlotInv!(p)'
  <2>1. serving' = serving \ {r}
    BY <1>4, IdleType
    DEF Convert, Finish, Converting, Pending, TypeInv, TypeOK, Ops
  <2>2. CASE req[r].pr = p /\ ~Used(req[r].number)
    <3> DEFINE o == [number |-> req[r].number, pr |-> p, by |-> "convert"]
    <3>1. made' = made \union {o}
      BY <1>4, <2>2 DEF Convert, ConvertedFrom
    <3>2. r \in serving
      BY <1>4, <2>2 DEF Convert, Converting
    <3>3. /\ IsFiniteSet(made')
          /\ Cardinality(made') <= Cardinality(made) + 1
          /\ Cardinality(made') \in Nat
      <4> DEFINE more == made \union {o}
      <4>1. /\ IsFiniteSet(more)
            /\ Cardinality(more) \in {Cardinality(made), Cardinality(made) + 1}
        BY <1>1, FS_AddElement
      <4> QED
        BY <1>1, <3>1, <4>1, FS_CardinalityType
    <3>4. Cardinality(serving') = Cardinality(serving) - 1
      BY <1>1, <2>1, <3>2, FS_RemoveElement
    <3>5. Cardinality(made') + Cardinality(serving') <= Cardinality(Requests)
      BY <1>1, <3>3, <3>4
    <3> QED
      BY <3>3, <3>5
  <2>3. CASE req[r].pr # p \/ Used(req[r].number)
    <3>1. made' = made
      BY <1>4, <2>3 DEF Convert, ConvertedFrom
    <3> QED
      BY <2>1, <3>1, <1>2
  <2> QED
    BY <2>2, <2>3
<1>5. ASSUME UNCHANGED <<orders, req>> PROVE SlotInv!(p)'
  <2>1. made' = made /\ serving' = serving
    BY <1>5 DEF ConvertedFrom, Converting, Pending
  <2> QED
    BY <2>1, <1>2
<1>6. ASSUME NEW r \in Requests, UNCHANGED orders,
             \A q \in Requests \ {r} : req'[q] = req[q],
             req'[r].op # "convert"
      PROVE  SlotInv!(p)'
  <2>1. made' = made /\ serving' \subseteq serving
    BY <1>6 DEF ConvertedFrom, Converting, Pending
  <2> QED
    BY <2>1, <1>2
<1>7. ASSUME NEW r \in Requests, Start(r) PROVE SlotInv!(p)'
  <2> USE DEF Serve, Idle, TypeInv, TypeOK
  <2>1. ASSUME NEW q \in PRs \union {None}, NEW n, CreateOrder(r, q, n)
        PROVE  SlotInv!(p)'
    <3>1. made' = made /\ serving' = serving
      BY <2>1 DEF CreateOrder, ConvertedFrom, Converting, Pending
    <3> QED
      BY <3>1, <1>2
  <2>2. ASSUME NEW q \in PRs, NEW n, StartConvert(r, q, n)
        PROVE  SlotInv!(p)'
    <3>1. made' = made
      BY <2>2 DEF StartConvert, ConvertedFrom
    <3>2. CASE q = p
      BY <2>2, <3>1, <3>2, <1>3 DEF StartConvert, Linked, ConvertedFrom
    <3>3. CASE q # p
      <4>1. serving' \subseteq serving
        BY <2>2, <3>3 DEF StartConvert, Converting, Pending
      <4> QED
        BY <3>1, <4>1, <1>2
    <3> QED
      BY <3>2, <3>3
  <2>3. ASSUME NEW q \in PRs, NEW s, StartMovePR(r, q, s)
        PROVE  SlotInv!(p)'
    BY <2>3, <1>6 DEF StartMovePR
  <2>4. ASSUME NEW c \in Contracts, NEW s, StartMoveContract(r, c, s)
        PROVE  SlotInv!(p)'
    BY <2>4, <1>6 DEF StartMoveContract
  <2>5. ASSUME NEW c \in Contracts, StartSendForApproval(r, c)
        PROVE  SlotInv!(p)'
    BY <2>5, <1>6 DEF StartSendForApproval
  <2>6. ASSUME NEW c \in Contracts, StartAdvance(r, c) PROVE SlotInv!(p)'
    <3>1. req'[r].op \in {"openEnvelope", "advance"}
      BY <2>6 DEF StartAdvance
    <3> QED
      BY <2>6, <3>1, <1>6 DEF StartAdvance
  <2>7. ASSUME NEW c \in Contracts, StartSendForSignature(r, c)
        PROVE  SlotInv!(p)'
    BY <2>7, <1>6 DEF StartSendForSignature
  <2>8. ASSUME NEW c \in Contracts, StartSign(r, c) PROVE SlotInv!(p)'
    BY <2>8, <1>6 DEF StartSign
  <2>9. ASSUME NEW c \in Contracts, StartComplete(r, c) PROVE SlotInv!(p)'
    BY <2>9, <1>6 DEF StartComplete
  <2>10. ASSUME NEW c \in Contracts, StartAccept(r, c) PROVE SlotInv!(p)'
    BY <2>10, <1>6 DEF StartAccept
  <2> QED
    BY <1>7, <1>5, <2>1, <2>2, <2>3, <2>4, <2>5, <2>6, <2>7, <2>8, <2>9,
       <2>10
    DEF Start, CreateContract, CreatePR
<1>8. ASSUME NEW r \in Requests, Step(r) PROVE SlotInv!(p)'
  <2> USE DEF TypeInv, TypeOK
  <2>1. CASE FindLinked(r)
    <3>1. req'[r] = Idle \/ req'[r].op = "accept"
      BY <2>1 DEF FindLinked, Finish, Request
    <3> QED
      BY <2>1, <3>1, <1>6, IdleType DEF FindLinked, Finish, Ops
  <2>2. CASE Finish(r) /\ UNCHANGED orders
    BY <2>2, <1>6, IdleType DEF Finish, Ops
  <2> QED
    BY <1>8, <1>4, <2>1, <2>2
    DEF Step, MoveContract, SendForApproval, Advance, OpenEnvelope,
        WriteEnvelope, Complete, MovePR, Accept
<1> QED
  BY <1>5, <1>7, <1>8 DEF Next, vars

(* A purchase request that says it was converted has an order from it,     *)
(* whatever overlapped, and becomes at most one order per request that can *)
(* be served at the same time.                                             *)
THEOREM ConversionsBounded == Spec => []OrdersPerOverlap
<1>1. Init => SlotInv
  <2> SUFFICES ASSUME Init, NEW p \in PRs PROVE SlotInv!(p)
    BY DEF SlotInv
  <2>1. ConvertedFrom(p) = {}
    BY DEF Init, ConvertedFrom
  <2> QED
    BY <2>1, ConvertingBounds, FS_EmptySet DEF SlotInv
<1>2. SlotInv /\ ConvertedHasOrder => OrdersPerOverlap
  <2> SUFFICES ASSUME SlotInv, ConvertedHasOrder, NEW p \in PRs
               PROVE  Cardinality(ConvertedFrom(p)) <= Cardinality(Requests)
    BY DEF OrdersPerOverlap, ConvertedHasOrder
  <2> QED
    BY ConvertingBounds, FS_CardinalityType DEF SlotInv
<1> QED
  BY <1>1, <1>2, NextSlotInv, AlwaysTypeInv, ConversionsOrder, PTL DEF Spec

(* Overlapping requests accept a proposal once, lose no order of a         *)
(* conversion, and make no more of them than there are requests.           *)
THEOREM OverlapsAreBounded == Spec => []DoneOnce
<1>1. AcceptedOnce /\ OrdersPerOverlap => DoneOnce
  BY DEF DoneOnce
<1> QED
  BY <1>1, ProposalAcceptedOnce, ConversionsBounded, PTL

-----------------------------------------------------------------------------
(* One request at a time.  What the only request in flight read is still   *)
(* so when it writes.                                                      *)

StillSo(q) ==
  /\ q.op = "moveContract" => q.to \in ContractMoves[contract[q.contract]]
  /\ q.op = "sendForApproval" => contract[q.contract] = "draft"
  /\ q.op \in {"writeEnvelope", "complete"} =>
       contract[q.contract] = "pending_signature"
  /\ q.op = "movePR" => q.to \in PRMoves[pr[q.pr]]
  /\ q.op = "convert" => pr[q.pr] = "approved"

Unsigned == {"absent", "draft", "in_approval"}

AloneInv ==
  /\ OneAtATime
  /\ \A r \in Requests : StillSo(req[r])
  /\ \A c \in Contracts : contract[c] \in Unsigned => envelope[c] = None
  /\ \A p \in PRs :
       IF pr[p] = "converted" THEN Cardinality(ConvertedFrom(p)) = 1
                              ELSE ConvertedFrom(p) = {}

LEMMA IdleKnowsNothing == StillSo(Idle)
BY NoneAssumption DEF StillSo, Idle, Ops

(* Nobody is in flight beside the request that is served.                  *)
LEMMA OthersIdle ==
  ASSUME AloneInv, NEW r \in Requests, req[r] # Idle
  PROVE  \A s \in Requests \ {r} : req[s] = Idle
BY DEF AloneInv, OneAtATime

(* When r has started or finished, alone, what is left to show is that its *)
(* own knowledge is true.                                                  *)
LEMMA OnlyServed ==
  ASSUME TypeInv, NEW r \in Requests, NEW job, OneAtATime',
         req' = [req EXCEPT ![r] = job], job # Idle, StillSo(job)'
  PROVE  \A s \in Requests : StillSo(req[s])'
<1>1. req'[r] = job
  BY DEF TypeInv, TypeOK
<1>2. \A s \in Requests \ {r} : req'[s] = Idle
  BY <1>1 DEF OneAtATime
<1>3. StillSo(Idle)'
  BY NoneAssumption DEF StillSo, Idle, Ops
<1> TAKE s \in Requests
<1>4. CASE s = r
  BY <1>1, <1>4 DEF StillSo
<1>5. CASE s # r
  BY <1>2, <1>3, <1>5 DEF StillSo
<1> QED BY <1>4, <1>5

LEMMA NobodyServed ==
  ASSUME TypeInv, AloneInv, NEW r \in Requests, req[r] # Idle, Finish(r)
  PROVE  \A s \in Requests : StillSo(req[s])'
<1>1. \A s \in Requests : req'[s] = Idle
  BY OthersIdle DEF Finish, TypeInv, TypeOK
<1>2. StillSo(Idle)'
  BY NoneAssumption DEF StillSo, Idle, Ops
<1> QED BY <1>1, <1>2 DEF StillSo

(* A step that reads: rows stay as they are.                               *)
LEMMA ReadAlone ==
  ASSUME TypeInv, AloneInv, NEW r \in Requests, NEW job, Serve(r, job),
         UNCHANGED <<contractVars, prVars, orders>>, OneAtATime',
         job # Idle, StillSo(job)
  PROVE  AloneInv'
<1>1. StillSo(job)'
  BY DEF StillSo, contractVars, prVars
<1>2. \A s \in Requests : StillSo(req[s])'
  BY <1>1, OnlyServed DEF Serve
<1> QED BY <1>2 DEF AloneInv, ConvertedFrom, contractVars, prVars

(* A step that makes a row which did not exist is no concern of whoever is *)
(* in flight: nobody reads a row that does not exist.                      *)
LEMMA StartAlone ==
  ASSUME TypeInv, AloneInv, NEW r \in Requests, Start(r), OneAtATime'
  PROVE  AloneInv'
<1>1. \A s \in Requests : StillSo(req[s])
  BY DEF AloneInv
<1>2. ASSUME NEW c \in Contracts, CreateContract(r, c) PROVE AloneInv'
  <2>1. /\ contract[c] = "absent" /\ contract'[c] = "draft"
        /\ \A d \in Contracts \ {c} : contract'[d] = contract[d]
        /\ UNCHANGED <<envelope, pr, orders, req>>
    BY <1>2 DEF CreateContract, prVars, TypeInv, TypeOK
  <2>2. \A s \in Requests : StillSo(req[s])'
    <3> TAKE s \in Requests
    <3>1. StillSo(req[s]) /\ (req[s].op \in Ops \ PROps => req[s].contract \in Contracts)
      BY <1>1 DEF TypeInv, PendingOK
    <3>2. req[s].op \in {"moveContract", "sendForApproval", "writeEnvelope", "complete"}
            => req[s].contract # c
      BY <2>1, <3>1 DEF StillSo, ContractMoves
    <3> QED BY <2>1, <3>1, <3>2 DEF StillSo, Ops, PROps
  <2>3. \A d \in Contracts : contract'[d] \in Unsigned => envelope'[d] = None
    BY <2>1 DEF AloneInv, Unsigned
  <2> QED BY <2>1, <2>2, <2>3 DEF AloneInv, ConvertedFrom
<1>3. ASSUME NEW p \in PRs, NEW c \in Contracts \union {None},
             NEW n \in Contracts \union {None}, CreatePR(r, p, c, n)
      PROVE  AloneInv'
  <2>1. /\ pr[p] = "absent" /\ pr'[p] = "draft"
        /\ \A q \in PRs \ {p} : pr'[q] = pr[q]
        /\ UNCHANGED <<contract, envelope, orders, req>>
    BY <1>3 DEF CreatePR, contractVars, TypeInv, TypeOK
  <2>2. \A s \in Requests : StillSo(req[s])'
    <3> TAKE s \in Requests
    <3>1. StillSo(req[s]) /\ (req[s].op \in PROps => req[s].pr \in PRs)
      BY <1>1 DEF TypeInv, PendingOK
    <3>2. req[s].op \in PROps => req[s].pr # p
      BY <2>1, <3>1 DEF StillSo, PRMoves, PROps
    <3> QED BY <2>1, <3>1, <3>2 DEF StillSo, PROps
  <2>3. \A q \in PRs : ConvertedFrom(q)' = ConvertedFrom(q)
    BY <2>1 DEF ConvertedFrom
  <2>4. \A q \in PRs : (pr'[q] = "converted") <=> (pr[q] = "converted")
    BY <2>1
  <2> QED BY <2>1, <2>2, <2>3, <2>4 DEF AloneInv
<1>4. ASSUME NEW p \in PRs \union {None}, NEW n \in Numbers, CreateOrder(r, p, n)
      PROVE  AloneInv'
  <2>1. UNCHANGED <<contract, envelope, pr, req>>
    BY <1>4 DEF CreateOrder, contractVars, prVars
  <2>2. \A q \in PRs : ConvertedFrom(q)' = ConvertedFrom(q)
    BY <1>4 DEF CreateOrder, ConvertedFrom
  <2>3. \A s \in Requests : StillSo(req[s])'
    BY <1>1, <2>1 DEF StillSo
  <2> QED BY <2>1, <2>2, <2>3 DEF AloneInv
<1>5. ASSUME NEW job, Serve(r, job), UNCHANGED <<contractVars, prVars, orders>>,
             job.op \in Ops, StillSo(job)
      PROVE  AloneInv'
  BY <1>5, IdleType, ReadAlone
<1>6. ASSUME NEW c \in Contracts, NEW s, StartMoveContract(r, c, s) PROVE AloneInv'
  <2> DEFINE job == [Idle EXCEPT !.op = "moveContract", !.contract = c, !.to = s]
  <2>1. job.op = "moveContract" /\ job.contract = c /\ job.to = s
    BY DEF Idle
  <2>2. Serve(r, job) /\ UNCHANGED <<contractVars, prVars, orders>>
    BY <1>6 DEF StartMoveContract
  <2> HIDE DEF job
  <2> QED BY <1>5, <1>6, <2>1, <2>2 DEF StartMoveContract, StillSo, Ops
<1>7. ASSUME NEW c \in Contracts, StartSendForApproval(r, c) PROVE AloneInv'
  <2> DEFINE job == [Idle EXCEPT !.op = "sendForApproval", !.contract = c]
  <2>1. job.op = "sendForApproval" /\ job.contract = c
    BY DEF Idle
  <2>2. Serve(r, job) /\ UNCHANGED <<contractVars, prVars, orders>>
    BY <1>7 DEF StartSendForApproval
  <2> HIDE DEF job
  <2> QED BY <1>5, <1>7, <2>1, <2>2 DEF StartSendForApproval, StillSo, Ops
<1>8. ASSUME NEW c \in Contracts, StartAdvance(r, c) PROVE AloneInv'
  <2>1. PICK job : job = [Idle EXCEPT
                       !.op = IF stage[c] + 1 > Chain THEN "openEnvelope" ELSE "advance",
                       !.contract = c, !.stage = stage[c] + 1]
    OBVIOUS
  <2>2. job.op \in {"openEnvelope", "advance"}
    BY <2>1 DEF Idle
  <2>3. Serve(r, job) /\ UNCHANGED <<contractVars, prVars, orders>>
    BY <1>8, <2>1 DEF StartAdvance
  <2> QED BY <1>5, <2>2, <2>3 DEF StillSo, Ops
<1>9. ASSUME NEW c \in Contracts, contract[c] = "pending_signature", NEW job,
             Serve(r, job), UNCHANGED <<contractVars, prVars, orders>>,
             job.op \in {"writeEnvelope", "complete"}, job.contract = c
      PROVE  AloneInv'
  BY <1>5, <1>9 DEF StillSo, Ops
<1>10. ASSUME NEW c \in Contracts, StartSendForSignature(r, c) PROVE AloneInv'
  <2>1. PICK e : e = [state |-> "sent",
                      signed |-> IF envelope[c] = None THEN 0 ELSE envelope[c].signed]
    OBVIOUS
  <2>2. PICK job : job = [Idle EXCEPT !.op = "writeEnvelope", !.contract = c,
                                      !.envelope = e]
    OBVIOUS
  <2>3. Serve(r, job) /\ UNCHANGED <<contractVars, prVars, orders>>
    BY <1>10, <2>1, <2>2 DEF StartSendForSignature
  <2>4. job.op = "writeEnvelope" /\ job.contract = c
    BY <2>2 DEF Idle
  <2> QED BY <1>9, <1>10, <2>3, <2>4 DEF StartSendForSignature
<1>11. ASSUME NEW c \in Contracts, StartSign(r, c) PROVE AloneInv'
  <2>1. PICK e : e = [envelope[c] EXCEPT !.signed = @ + 1]
    OBVIOUS
  <2>2. PICK job : job = [Idle EXCEPT !.op = "writeEnvelope", !.contract = c,
                                      !.envelope = e]
    OBVIOUS
  <2>3. Serve(r, job) /\ UNCHANGED <<contractVars, prVars, orders>>
    BY <1>11, <2>1, <2>2 DEF StartSign
  <2>4. job.op = "writeEnvelope" /\ job.contract = c
    BY <2>2 DEF Idle
  <2> QED BY <1>9, <1>11, <2>3, <2>4 DEF StartSign
<1>12. ASSUME NEW c \in Contracts, StartComplete(r, c) PROVE AloneInv'
  <2>1. PICK e : e = [envelope[c] EXCEPT !.state = "completed"]
    OBVIOUS
  <2>2. PICK job : job = [Idle EXCEPT !.op = "complete", !.contract = c,
                                      !.envelope = e]
    OBVIOUS
  <2>3. Serve(r, job) /\ UNCHANGED <<contractVars, prVars, orders>>
    BY <1>12, <2>1, <2>2 DEF StartComplete
  <2>4. job.op = "complete" /\ job.contract = c
    BY <2>2 DEF Idle
  <2> QED BY <1>9, <1>12, <2>3, <2>4 DEF StartComplete
<1>13. ASSUME NEW c \in Contracts, StartAccept(r, c) PROVE AloneInv'
  <2> DEFINE job == [Idle EXCEPT !.op = "findLinked", !.contract = c]
  <2>1. job.op = "findLinked"
    BY DEF Idle
  <2>2. Serve(r, job) /\ UNCHANGED <<contractVars, prVars, orders>>
    BY <1>13 DEF StartAccept
  <2> HIDE DEF job
  <2> QED BY <1>5, <2>1, <2>2 DEF StillSo, Ops
<1>14. ASSUME NEW p \in PRs, NEW s, StartMovePR(r, p, s) PROVE AloneInv'
  <2> DEFINE job == [Idle EXCEPT !.op = "movePR", !.pr = p, !.to = s]
  <2>1. job.op = "movePR" /\ job.pr = p /\ job.to = s
    BY DEF Idle
  <2>2. Serve(r, job) /\ UNCHANGED <<contractVars, prVars, orders>>
    BY <1>14 DEF StartMovePR
  <2> HIDE DEF job
  <2> QED BY <1>5, <1>14, <2>1, <2>2 DEF StartMovePR, StillSo, Ops
<1>15. ASSUME NEW p \in PRs, NEW n, StartConvert(r, p, n) PROVE AloneInv'
  <2> DEFINE job == [Idle EXCEPT !.op = "convert", !.pr = p, !.number = n]
  <2>1. job.op = "convert" /\ job.pr = p
    BY DEF Idle
  <2>2. Serve(r, job) /\ UNCHANGED <<contractVars, prVars, orders>>
    BY <1>15 DEF StartConvert
  <2> HIDE DEF job
  <2> QED BY <1>5, <1>15, <2>1, <2>2 DEF StartConvert, StillSo, Ops
<1> QED
  BY <1>2, <1>3, <1>4, <1>6, <1>7, <1>8, <1>10, <1>11, <1>12, <1>13, <1>14,
     <1>15
  DEF Start

(* What may change when the only request in flight writes.                 *)
LEMMA ContractsWritten ==
  ASSUME TypeInv, AloneInv, NEW r \in Requests, req[r].op \in Ops,
         Finish(r), OneAtATime', UNCHANGED <<pr, orders>>,
         NEW c, c = req[r].contract,
         \A d \in Contracts \ {c} :
           contract'[d] = contract[d] /\ envelope'[d] = envelope[d],
         c \in Contracts =>
           (contract'[c] \in Unsigned => envelope'[c] = None)
  PROVE  AloneInv'
<1>1. \A s \in Requests : StillSo(req[s])'
  BY IdleType, NobodyServed
<1>2. \A d \in Contracts : contract'[d] \in Unsigned => envelope'[d] = None
  BY DEF AloneInv
<1> QED BY <1>1, <1>2 DEF AloneInv, ConvertedFrom

LEMMA RequestsWritten ==
  ASSUME TypeInv, AloneInv, NEW r \in Requests, req[r].op \in Ops,
         Finish(r), OneAtATime', UNCHANGED <<contract, envelope>>,
         \A p \in PRs : IF pr'[p] = "converted"
                        THEN Cardinality(ConvertedFrom(p)') = 1
                        ELSE ConvertedFrom(p)' = {}
  PROVE  AloneInv'
<1>1. \A s \in Requests : StillSo(req[s])'
  BY IdleType, NobodyServed
<1> QED BY <1>1 DEF AloneInv

LEMMA StepAlone ==
  ASSUME TypeInv, AloneInv, NEW r \in Requests, Step(r), OneAtATime'
  PROVE  AloneInv'
<1>1. /\ StillSo(req[r])
      /\ \A c \in Contracts : contract[c] \in Unsigned => envelope[c] = None
      /\ \A p \in PRs : IF pr[p] = "converted"
                        THEN Cardinality(ConvertedFrom(p)) = 1
                        ELSE ConvertedFrom(p) = {}
  BY DEF AloneInv
<1>2. PICK c : c = req[r].contract
  OBVIOUS
<1>3. PICK p : p = req[r].pr
  OBVIOUS
<1>4. /\ req[r].op \in Ops
      /\ req[r].op \in Ops \ PROps => c \in Contracts
      /\ req[r].op \in PROps => p \in PRs
  BY <1>2, <1>3
  DEF Step, Pending, Ops, MoveContract, SendForApproval, Advance, OpenEnvelope,
      WriteEnvelope, Complete, MovePR, FindLinked, Accept, Convert, TypeInv,
      PendingOK
<1> USE DEF Pending, contractVars, prVars
<1>5. CASE MoveContract(r)
  <2>1. /\ c \in Contracts /\ req[r].to \in ContractMoves[contract[c]]
        /\ contract[c] \in ContractStatus
    BY <1>1, <1>2, <1>4, <1>5
       DEF MoveContract, StillSo, Ops, PROps, TypeInv, TypeOK
  <2>2. req[r].to \in Unsigned => contract[c] \in Unsigned
    BY <2>1 DEF ContractMoves, ContractStatus, Unsigned
  <2>3. /\ contract'[c] = req[r].to /\ envelope' = envelope
        /\ \A d \in Contracts \ {c} : contract'[d] = contract[d]
        /\ Finish(r) /\ UNCHANGED <<pr, orders>>
    BY <1>2, <1>5, <2>1 DEF MoveContract, TypeInv, TypeOK
  <2> QED BY <1>1, <1>2, <1>4, <2>1, <2>2, <2>3, ContractsWritten
<1>6. CASE SendForApproval(r)
  <2>1. c \in Contracts /\ contract[c] = "draft"
    BY <1>1, <1>2, <1>4, <1>6 DEF SendForApproval, StillSo, Ops, PROps
  <2>2. /\ envelope' = envelope
        /\ \A d \in Contracts \ {c} : contract'[d] = contract[d]
        /\ Finish(r) /\ UNCHANGED <<pr, orders>>
    BY <1>2, <1>6, <2>1 DEF SendForApproval, TypeInv, TypeOK
  <2>3. envelope'[c] = None
    BY <1>1, <2>1, <2>2 DEF Unsigned
  <2> QED BY <1>2, <1>4, <2>1, <2>2, <2>3, ContractsWritten
<1>7. CASE Advance(r)
  <2>1. Finish(r) /\ UNCHANGED <<contract, envelope, pr, orders>>
    BY <1>7 DEF Advance
  <2> QED BY <1>1, <1>2, <1>4, <2>1, ContractsWritten
<1>8. CASE OpenEnvelope(r)
  <2>1. c \in Contracts
    BY <1>4, <1>8 DEF OpenEnvelope, Ops, PROps
  <2>2. /\ contract'[c] = "pending_signature"
        /\ \A d \in Contracts \ {c} :
             contract'[d] = contract[d] /\ envelope'[d] = envelope[d]
        /\ Finish(r) /\ UNCHANGED <<pr, orders>>
    BY <1>2, <1>8, <2>1 DEF OpenEnvelope, TypeInv, TypeOK
  <2> QED BY <1>2, <1>4, <2>1, <2>2, ContractsWritten DEF Unsigned
<1>9. CASE WriteEnvelope(r)
  <2>1. c \in Contracts /\ contract[c] = "pending_signature"
    BY <1>1, <1>2, <1>4, <1>9 DEF WriteEnvelope, StillSo, Ops, PROps
  <2>2. /\ contract' = contract
        /\ \A d \in Contracts \ {c} : envelope'[d] = envelope[d]
        /\ Finish(r) /\ UNCHANGED <<pr, orders>>
    BY <1>2, <1>9, <2>1 DEF WriteEnvelope, TypeInv, TypeOK
  <2> QED BY <1>2, <1>4, <2>1, <2>2, ContractsWritten DEF Unsigned
<1>10. CASE Complete(r)
  <2>1. c \in Contracts
    BY <1>4, <1>10 DEF Complete, Ops, PROps
  <2>2. /\ contract'[c] = "active"
        /\ \A d \in Contracts \ {c} :
             contract'[d] = contract[d] /\ envelope'[d] = envelope[d]
        /\ Finish(r) /\ UNCHANGED <<pr, orders>>
    BY <1>2, <1>10, <2>1 DEF Complete, TypeInv, TypeOK
  <2> QED BY <1>2, <1>4, <2>1, <2>2, ContractsWritten DEF Unsigned
<1>11. CASE MovePR(r)
  <2>1. /\ p \in PRs /\ req[r].to \in PRMoves[pr[p]] /\ pr[p] \in PRStatus
    BY <1>1, <1>3, <1>4, <1>11 DEF MovePR, StillSo, Ops, PROps, TypeInv, TypeOK
  <2>2. pr[p] # "converted" /\ req[r].to # "converted"
    BY <2>1, PRMovesType DEF PRMoves
  <2>3. /\ pr'[p] = req[r].to /\ \A q \in PRs \ {p} : pr'[q] = pr[q]
        /\ Finish(r) /\ UNCHANGED <<contract, envelope, orders>>
    BY <1>3, <1>11, <2>1 DEF MovePR, TypeInv, TypeOK
  <2>4. \A q \in PRs : ConvertedFrom(q)' = ConvertedFrom(q)
                       /\ (pr'[q] = "converted" <=> pr[q] = "converted")
    BY <2>2, <2>3 DEF ConvertedFrom
  <2> QED BY <1>1, <1>4, <2>3, <2>4, RequestsWritten
<1>12. CASE FindLinked(r)
  <2>1. CASE Finish(r)
    BY <1>1, <1>2, <1>4, <1>12, <2>1, ContractsWritten DEF FindLinked
  <2>2. CASE req' = [req EXCEPT ![r].op = "accept"]
    <3>1. PICK job : job = [req[r] EXCEPT !.op = "accept"]
      OBVIOUS
    <3>2. job.op = "accept"
      BY <3>1 DEF TypeInv, TypeOK, Request
    <3>3. req' = [req EXCEPT ![r] = job]
      BY <2>2, <3>1 DEF TypeInv, TypeOK
    <3>4. job # Idle /\ StillSo(job)'
      BY <3>2, IdleType DEF StillSo, Ops
    <3>5. \A s \in Requests : StillSo(req[s])'
      BY <3>3, <3>4, OnlyServed
    <3> QED BY <1>1, <1>12, <3>5 DEF FindLinked, AloneInv, ConvertedFrom
  <2> QED BY <1>12, <2>1, <2>2 DEF FindLinked
<1>13. CASE Accept(r)
  <2>1. Finish(r) /\ UNCHANGED <<contract, envelope, orders>>
    BY <1>13 DEF Accept
  <2>2. \A q \in PRs : pr'[q] = "converted" <=> pr[q] = "converted"
    <3>1. CASE UNCHANGED prVars
      BY <3>1
    <3>2. ASSUME NEW q \in PRs, pr[q] = "absent", pr' = [pr EXCEPT ![q] = "in_approval"]
          PROVE  \A u \in PRs : pr'[u] = "converted" <=> pr[u] = "converted"
      BY <3>2 DEF TypeInv, TypeOK
    <3> QED BY <1>13, <3>1, <3>2 DEF Accept
  <2>3. \A q \in PRs : ConvertedFrom(q)' = ConvertedFrom(q)
    BY <2>1 DEF ConvertedFrom
  <2> QED BY <1>1, <1>4, <2>1, <2>2, <2>3, RequestsWritten
<1>14. CASE Convert(r)
  <2>1. p \in PRs /\ pr[p] = "approved"
    BY <1>1, <1>3, <1>4, <1>14 DEF Convert, StillSo, Ops, PROps
  <2>2. Finish(r) /\ UNCHANGED <<contract, envelope>>
    BY <1>14 DEF Convert
  <2>3. CASE UNCHANGED <<pr, orders>>
    <3>1. \A q \in PRs : ConvertedFrom(q)' = ConvertedFrom(q)
      BY <2>3 DEF ConvertedFrom
    <3> QED BY <1>1, <1>4, <2>2, <2>3, <3>1, RequestsWritten
  <2>4. CASE /\ pr' = [pr EXCEPT ![p] = "converted"]
             /\ orders' = orders \union
                  {[number |-> req[r].number, pr |-> p, by |-> "convert"]}
    <3>1. PICK o : o = [number |-> req[r].number, pr |-> p, by |-> "convert"]
      OBVIOUS
    <3>2. ConvertedFrom(p) = {}
      BY <1>1, <2>1
    <3>3. ConvertedFrom(p)' = {o}
      BY <2>4, <3>1, <3>2 DEF ConvertedFrom
    <3>4. Cardinality({o}) = 1
      BY FS_Singleton
    <3>5. /\ pr'[p] = "converted" /\ \A q \in PRs \ {p} : pr'[q] = pr[q]
      BY <2>1, <2>4 DEF TypeInv, TypeOK
    <3>6. \A q \in PRs \ {p} : ConvertedFrom(q)' = ConvertedFrom(q)
      BY <2>4 DEF ConvertedFrom
    <3>7. \A q \in PRs : IF pr'[q] = "converted"
                         THEN Cardinality(ConvertedFrom(q)') = 1
                         ELSE ConvertedFrom(q)' = {}
      BY <1>1, <3>3, <3>4, <3>5, <3>6
    <3> QED BY <1>4, <2>2, <3>7, RequestsWritten
  <2> QED BY <1>3, <1>14, <2>3, <2>4 DEF Convert
<1> QED
  BY <1>5, <1>6, <1>7, <1>8, <1>9, <1>10, <1>11, <1>12, <1>13, <1>14 DEF Step

LEMMA NextAlone ==
  TypeInv /\ (together \/ AloneInv) /\ [Next]_vars => (together \/ AloneInv)'
<1> SUFFICES ASSUME TypeInv, together \/ AloneInv, [Next]_vars, ~together'
             PROVE  AloneInv'
  OBVIOUS
<1>1. CASE UNCHANGED vars
  BY <1>1 DEF vars, AloneInv, OneAtATime, StillSo, ConvertedFrom
<1>2. CASE Next
  <2>1. AloneInv /\ OneAtATime'
    BY <1>2 DEF Next
  <2> QED BY <1>2, <2>1, StartAlone, StepAlone DEF Next
<1> QED BY <1>1, <1>2

(* One request at a time, nobody signs a contract that is still edited or  *)
(* in approval, and a purchase request is converted just when it has the   *)
(* one order of its conversion.                                            *)
THEOREM OneAtATimeIsOrderly == Spec => []SerialIsOrderly
<1>1. Init => AloneInv
  <2> SUFFICES ASSUME Init PROVE AloneInv
    OBVIOUS
  <2>1. OneAtATime
    BY DEF Init, OneAtATime
  <2>2. \A r \in Requests : StillSo(req[r])
    BY IdleKnowsNothing DEF Init
  <2>3. \A p \in PRs : ConvertedFrom(p) = {} /\ pr[p] # "converted"
    BY DEF Init, ConvertedFrom
  <2> QED BY <2>1, <2>2, <2>3 DEF AloneInv, Init
<1>2. together \/ AloneInv => SerialIsOrderly
  BY DEF AloneInv, SerialIsOrderly, Orderly, Unsigned
<1>3. Init => together \/ AloneInv
  BY <1>1
<1> QED
  BY <1>2, <1>3, NextAlone, AlwaysTypeInv, PTL DEF Spec

-----------------------------------------------------------------------------
(* The review of an invoice                                                *)

FetchSteps == Ends \union AtServer \union AtPage

FetchCalls ==
  [then : FetchSteps, for : Papers \union {Blank}, sent : Says, got : Rows]

(* A call under way is for an invoice, and so is a move to another one.    *)
ForPapers(q) ==
  /\ q.then # "idle" => q.for \in Papers
  /\ q.then = "go" => q.got.id \in Papers

ReviewTypes ==
  /\ WorkspaceTypeOK
  /\ \A p \in Papers : stored[p].id = p
  /\ \A c \in Fetches : ForPapers(fetch[c])

(* A call of the page at p, which shows id: what it sends or was answered  *)
(* is that invoice's own.                                                  *)
FitsCall(q, p, id) ==
  q.then # "idle" =>
    /\ q.for = p
    /\ q.then = "patch" => SaysOwn(p, q.sent)
    /\ q.then \in AtPage \ {"go"} => q.got.id = p /\ SaysOwn(p, q.got.says)
    /\ q.then = "tables" => id = p

(* The form, once it is filled.                                            *)
FitsForm(f, p, x, id) == x = p => SaysOwn(p, f) /\ id = p

(* All calls of a patient user fit the page, and one that leads away is    *)
(* the only one.                                                           *)
Patient ==
  /\ \A p \in Papers : SaysOwn(p, stored[p].says)
  /\ unseen = {}
  /\ FitsForm(form, at, filled, shown.id)
  /\ \A c, d \in Fetches :
       fetch[c].then \in Leading => c = d \/ fetch[d].then = "idle"
  /\ \A c \in Fetches : FitsCall(fetch[c], at, shown.id)

ReviewInv == ReviewTypes /\ (~hasty => Patient)

LEMMA PatientNext ==
  ASSUME \A p \in Papers : SaysOwn(p, stored'[p].says), unseen' = {},
         FitsForm(form', at', filled', shown'.id),
         \A c, d \in Fetches :
           fetch'[c].then \in Leading => c = d \/ fetch'[d].then = "idle",
         \A c \in Fetches : FitsCall(fetch'[c], at', shown'.id)
  PROVE  Patient'
BY DEF Patient, SaysOwn, FitsForm, FitsCall, Leading, AtPage, Own, Line

LEMMA OwnFits ==
  ASSUME NEW p \in Papers
  PROVE  Own(p) \in Says /\ SaysOwn(p, Own(p))
BY DEF Own, Line, Says, Lines, SaysOwn

LEMMA RowIsTyped ==
  ASSUME NEW p \in Papers
  PROVE  /\ Row(p, "open") \in Rows /\ Row(p, "open").id = p
         /\ Row(p, "open").says = Own(p)
BY OwnFits DEF Row, Rows

LEMMA QuietIsTyped ==
  /\ Quiet \in FetchCalls /\ Quiet.then = "idle" /\ NoRow \in Rows
  /\ Empty \in Says
<1>1. Empty \in Says
  BY DEF Empty, Says
<1>2. NoRow \in Rows
  BY <1>1 DEF NoRow, Rows
<1>3. "idle" \in FetchSteps
  BY DEF FetchSteps, Ends
<1> QED
  BY <1>1, <1>2, <1>3 DEF Quiet, FetchCalls

(* One field of a call is set.                                             *)
LEMMA FetchSet ==
  ASSUME NEW q \in FetchCalls
  PROVE  /\ \A x \in FetchSteps :
              /\ [q EXCEPT !.then = x] \in FetchCalls
              /\ [q EXCEPT !.then = x].then = x
              /\ [q EXCEPT !.then = x].for = q.for
              /\ [q EXCEPT !.then = x].sent = q.sent
              /\ [q EXCEPT !.then = x].got = q.got
         /\ \A x \in Papers :
              /\ [q EXCEPT !.for = x] \in FetchCalls
              /\ [q EXCEPT !.for = x].then = q.then
              /\ [q EXCEPT !.for = x].for = x
         /\ \A x \in Says :
              /\ [q EXCEPT !.sent = x] \in FetchCalls
              /\ [q EXCEPT !.sent = x].then = q.then
              /\ [q EXCEPT !.sent = x].for = q.for
              /\ [q EXCEPT !.sent = x].sent = x
         /\ \A x \in Rows :
              /\ [q EXCEPT !.got = x] \in FetchCalls
              /\ [q EXCEPT !.got = x].then = q.then
              /\ [q EXCEPT !.got = x].for = q.for
              /\ [q EXCEPT !.got = x].sent = q.sent
              /\ [q EXCEPT !.got = x].got = x
<1>1. ASSUME NEW x \in FetchSteps
      PROVE  /\ [q EXCEPT !.then = x] \in FetchCalls
             /\ [q EXCEPT !.then = x].then = x
             /\ [q EXCEPT !.then = x].for = q.for
             /\ [q EXCEPT !.then = x].sent = q.sent
             /\ [q EXCEPT !.then = x].got = q.got
  BY DEF FetchCalls
<1>2. ASSUME NEW x \in Papers
      PROVE  /\ [q EXCEPT !.for = x] \in FetchCalls
             /\ [q EXCEPT !.for = x].then = q.then
             /\ [q EXCEPT !.for = x].for = x
  BY DEF FetchCalls
<1>3. ASSUME NEW x \in Says
      PROVE  /\ [q EXCEPT !.sent = x] \in FetchCalls
             /\ [q EXCEPT !.sent = x].then = q.then
             /\ [q EXCEPT !.sent = x].for = q.for
             /\ [q EXCEPT !.sent = x].sent = x
  BY DEF FetchCalls
<1>4. ASSUME NEW x \in Rows
      PROVE  /\ [q EXCEPT !.got = x] \in FetchCalls
             /\ [q EXCEPT !.got = x].then = q.then
             /\ [q EXCEPT !.got = x].for = q.for
             /\ [q EXCEPT !.got = x].sent = q.sent
             /\ [q EXCEPT !.got = x].got = x
  BY DEF FetchCalls
<1> QED
  BY <1>1, <1>2, <1>3, <1>4

LEMMA AskIsTyped ==
  ASSUME NEW then \in FetchSteps, NEW p \in Papers
  PROVE  Ask(then, p) \in FetchCalls /\ Ask(then, p).then = then
           /\ Ask(then, p).for = p
<1>1. PICK a : a = [Quiet EXCEPT !.then = then]
  OBVIOUS
<1>2. a \in FetchCalls /\ a.then = then
  BY <1>1, QuietIsTyped, FetchSet
<1>3. Ask(then, p) = [a EXCEPT !.for = p]
  BY <1>1 DEF Ask
<1> QED
  BY <1>2, <1>3, FetchSet

LEMMA ReviewInit == WorkspaceInit => ReviewInv
<1> SUFFICES ASSUME WorkspaceInit PROVE ReviewInv
  OBVIOUS
<1>1. at \in Papers /\ "load" \in FetchSteps
  BY DEF WorkspaceInit, FetchSteps, AtServer
<1>2. PICK c \in Fetches :
        fetch = [[d \in Fetches |-> Quiet] EXCEPT ![c] = Ask("load", at)]
  BY DEF WorkspaceInit
<1>3. PICK q : q = Ask("load", at)
  OBVIOUS
<1>4. q \in FetchCalls /\ q.then = "load" /\ q.for = at
  BY <1>1, <1>3, AskIsTyped
<1>5. fetch = [d \in Fetches |-> IF d = c THEN q ELSE Quiet]
  BY <1>2, <1>3
<1>6. fetch \in [Fetches -> FetchCalls]
  BY <1>4, <1>5, QuietIsTyped
<1>7. /\ \A p \in Papers : /\ stored[p] \in Rows /\ stored[p].id = p
                           /\ stored[p].says = Own(p)
      /\ stored \in [Papers -> Rows]
  BY RowIsTyped DEF WorkspaceInit
<1>8. WorkspaceTypeOK
  BY <1>6, <1>7, QuietIsTyped
     DEF WorkspaceTypeOK, WorkspaceInit, FetchCalls, FetchSteps
<1>9. ReviewTypes
  BY <1>1, <1>4, <1>5, <1>7, <1>8, QuietIsTyped DEF ReviewTypes, ForPapers
<1>10. filled # at
  BY PapersAssumption DEF WorkspaceInit
<1>11. \A d \in Fetches : FitsCall(fetch[d], at, shown.id)
  BY <1>4, <1>5, QuietIsTyped DEF FitsCall, AtPage
<1>12. Patient
  <2>1. \A p \in Papers : SaysOwn(p, stored[p].says)
    BY <1>7, OwnFits
  <2>2. \A d, e \in Fetches : fetch[d].then \in Leading =>
          d = e \/ fetch[e].then = "idle"
    BY <1>5, QuietIsTyped DEF Leading
  <2>3. FitsForm(form, at, filled, shown.id) /\ unseen = {}
    BY <1>10 DEF FitsForm, WorkspaceInit
  <2> QED BY <1>11, <2>1, <2>2, <2>3 DEF Patient
<1> QED
  BY <1>9, <1>12 DEF ReviewInv

PageTypes ==
  /\ stored \in [Papers -> Rows]
  /\ \A p \in Papers : stored[p].id = p
  /\ at \in Papers /\ shown \in Rows /\ form \in Says
  /\ armed \in Papers \union {Blank}
  /\ acts \in Nat /\ filled \in Papers \union {Blank}
  /\ unseen \subseteq Papers

ActTypes ==
  PageTypes /\ fetch \in [Fetches -> FetchCalls] /\ Blank \notin Papers

(* The frame of a step: one call changes, and what the types ask for is    *)
(* kept.  The page moves on only under a call that leads away, or when     *)
(* there is none; then the other calls are idle.                           *)
LEMMA FetchMoves ==
  ASSUME ReviewInv, NEW c \in Fetches, NEW q \in FetchCalls,
         fetch' = [fetch EXCEPT ![c] = q], ForPapers(q),
         PageTypes', hasty' \in BOOLEAN,
         ~hasty' =>
           /\ ~hasty /\ unseen' = {}
           /\ \A p \in Papers : SaysOwn(p, stored'[p].says)
           /\ FitsForm(form', at', filled', shown'.id)
           /\ FitsCall(q, at', shown'.id)
           /\ \/ fetch[c].then \in Leading \/ ~Waiting
              \/ /\ q.then \notin Leading
                 /\ fetch[c].then # "idle" \/ ~Leaving
                 /\ at' = at /\ (shown.id = at => shown'.id = at)
  PROVE  ReviewInv'
<1>1. \A d \in Fetches : fetch'[d] = IF d = c THEN q ELSE fetch[d]
  BY DEF ReviewInv, ReviewTypes, WorkspaceTypeOK
<1>2. fetch' \in [Fetches -> FetchCalls]
  BY DEF ReviewInv, ReviewTypes, WorkspaceTypeOK, FetchCalls, FetchSteps
<1>3. WorkspaceTypeOK'
  BY <1>2 DEF WorkspaceTypeOK, FetchCalls, FetchSteps, PageTypes
<1>4. \A d \in Fetches : ForPapers(fetch[d])'
  <2>1. \A d \in Fetches : ForPapers(fetch'[d])
    BY <1>1 DEF ReviewInv, ReviewTypes
  <2> QED
    BY <2>1 DEF ForPapers
<1>5. ReviewTypes'
  BY <1>3, <1>4 DEF ReviewTypes, PageTypes
<1>6. ASSUME ~hasty' PROVE Patient'
  <2>1. /\ \A d, e \in Fetches :
             fetch[d].then \in Leading => d = e \/ fetch[e].then = "idle"
        /\ \A d \in Fetches : FitsCall(fetch[d], at, shown.id)
    BY <1>6 DEF ReviewInv, Patient
  <2>2. CASE fetch[c].then \in Leading \/ ~Waiting
    <3>1. \A d \in Fetches : d = c \/ fetch[d].then = "idle"
      BY <2>1, <2>2 DEF Waiting
    <3>2. \A d \in Fetches : d = c \/ fetch'[d].then = "idle"
      BY <1>1, <3>1
    <3>3. \A d \in Fetches : FitsCall(fetch'[d], at', shown'.id)
      <4> TAKE d \in Fetches
      <4>1. CASE d = c
        BY <1>1, <1>6, <4>1
      <4>2. CASE d # c
        BY <3>2, <4>2 DEF FitsCall
      <4> QED
        BY <4>1, <4>2
    <3>4. \A d, e \in Fetches :
            fetch'[d].then \in Leading => d = e \/ fetch'[e].then = "idle"
      BY <3>2 DEF Leading
    <3> QED
      BY <1>6, <3>3, <3>4, PatientNext
  <2>3. CASE /\ q.then \notin Leading /\ (fetch[c].then # "idle" \/ ~Leaving)
             /\ at' = at /\ (shown.id = at => shown'.id = at)
    <3>1. \A d \in Fetches : FitsCall(fetch'[d], at', shown'.id)
      <4> TAKE d \in Fetches
      <4>1. CASE d = c
        BY <1>1, <1>6, <4>1
      <4>2. CASE d # c
        <5>1. fetch'[d] = fetch[d] /\ FitsCall(fetch[d], at, shown.id)
          BY <1>1, <2>1, <4>2
        <5> QED
          BY <2>3, <5>1 DEF FitsCall
      <4> QED
        BY <4>1, <4>2
    <3>2. ASSUME NEW d \in Fetches, NEW e \in Fetches,
                 fetch'[d].then \in Leading
          PROVE  d = e \/ fetch'[e].then = "idle"
      <4>1. d # c /\ fetch[d].then \in Leading
        BY <1>1, <2>3, <3>2
      <4>2. fetch[c].then = "idle" => FALSE
        BY <2>3, <4>1 DEF Leaving
      <4>3. CASE e = c
        BY <2>1, <4>1, <4>2, <4>3
      <4>4. CASE e # c
        BY <1>1, <2>1, <4>1, <4>4
      <4> QED
        BY <4>3, <4>4
    <3> QED
      BY <1>6, <3>1, <3>2, PatientNext
  <2> QED
    BY <1>6, <2>2, <2>3
<1> QED
  BY <1>5, <1>6 DEF ReviewInv

LEMMA ReviewTyped == ReviewInv => ActTypes /\ hasty \in BOOLEAN
<1> SUFFICES ASSUME ReviewInv PROVE ActTypes /\ hasty \in BOOLEAN
  OBVIOUS
<1>1. fetch \in [Fetches -> FetchCalls]
  BY DEF ReviewInv, ReviewTypes, WorkspaceTypeOK, FetchCalls, FetchSteps
<1>2. hasty \in BOOLEAN
  BY DEF ReviewInv, ReviewTypes, WorkspaceTypeOK
<1> QED
  BY <1>1, <1>2, PapersAssumption
     DEF ActTypes, PageTypes, ReviewInv, ReviewTypes, WorkspaceTypeOK

(* A button or a key: the call is for the invoice of the address.          *)
LEMMA Pressed ==
  ASSUME ReviewInv, NEW c \in Fetches, NEW q \in FetchCalls, Press(c, q),
         q.for = at, q.then \in AtServer, q.then = "patch" => q.sent = form,
         unseen' \subseteq Papers,
         shown.id = at => unseen' = unseen
  PROVE  ReviewInv'
<1>1. /\ fetch' = [fetch EXCEPT ![c] = q] /\ acts' = acts + 1
      /\ UNCHANGED <<stored, at, shown, form, armed, filled>>
  BY DEF Press, Act, page
<1>2. hasty' = (hasty \/ filled # at \/ Leaving
                  \/ (q.then \in Leading /\ Waiting))
  BY DEF Press
<1>3. ActTypes /\ hasty' \in BOOLEAN
  <2>1. ActTypes /\ hasty \in BOOLEAN
    BY ReviewTyped
  <2>2. Waiting \in BOOLEAN /\ Leaving \in BOOLEAN
    BY DEF Waiting, Leaving
  <2> QED
    BY <1>2, <2>1, <2>2
<1>4. ForPapers(q)
  BY <1>3 DEF ForPapers, AtServer, ActTypes, PageTypes
<1>5. PageTypes'
  BY <1>1, <1>3 DEF ActTypes, PageTypes
<1>6. ASSUME ~hasty'
      PROVE  /\ ~hasty /\ unseen' = {}
             /\ \A p \in Papers : SaysOwn(p, stored'[p].says)
             /\ FitsForm(form', at', filled', shown'.id)
             /\ FitsCall(q, at', shown'.id)
             /\ ~Waiting \/ (q.then \notin Leading /\ ~Leaving)
  <2>1. ~hasty /\ filled = at /\ ~Leaving /\ (q.then \in Leading => ~Waiting)
    BY <1>2, <1>6
  <2>2. /\ \A p \in Papers : SaysOwn(p, stored[p].says)
        /\ unseen = {} /\ FitsForm(form, at, filled, shown.id)
    BY <2>1 DEF ReviewInv, Patient
  <2>3. SaysOwn(at, form) /\ shown.id = at
    BY <2>1, <2>2 DEF FitsForm
  <2>4. FitsCall(q, at, shown.id)
    BY <2>3 DEF FitsCall, AtServer, AtPage
  <2> QED
    BY <1>1, <2>1, <2>2, <2>3, <2>4
<1> QED
  BY <1>1, <1>3, <1>4, <1>5, <1>6, FetchMoves

LEMMA Decided ==
  ASSUME ReviewInv, NEW c \in Fetches, NEW q \in FetchCalls, Decide(c, q),
         q.for = at, q.then \in AtServer \ {"patch"}
  PROVE  ReviewInv'
<1>1. unseen' \subseteq Papers /\ (shown.id = at => unseen' = unseen)
  BY ReviewTyped DEF Decide, ActTypes, PageTypes
<1> QED
  BY <1>1, Pressed DEF Decide

LEMMA UserActs ==
  ASSUME ReviewInv, NEW c \in Fetches, Acts(c)
  PROVE  ReviewInv'
<1>1. ActTypes /\ hasty \in BOOLEAN
  BY ReviewTyped
<1>2. ASSUME NEW p \in Papers, Follow(c, p) PROVE ReviewInv'
  <2>1. PICK q : q = Ask("load", p)
    OBVIOUS
  <2>2. q \in FetchCalls /\ q.then = "load" /\ q.for = p
    BY <2>1, AskIsTyped DEF FetchSteps, AtServer
  <2>3. /\ fetch' = [fetch EXCEPT ![c] = q] /\ acts' = acts + 1
        /\ at' = p /\ filled' = Blank /\ hasty' = (hasty \/ Waiting)
        /\ UNCHANGED <<stored, shown, form, armed, unseen>>
    BY <1>2, <2>1 DEF Follow, Act
  <2>4. hasty' \in BOOLEAN
    BY <1>1, <2>3 DEF Waiting
  <2>5. ForPapers(q)
    BY <2>2 DEF ForPapers
  <2>6. PageTypes'
    BY <1>1, <2>3 DEF ActTypes, PageTypes
  <2>7. ASSUME ~hasty'
        PROVE  /\ ~hasty /\ unseen' = {} /\ ~Waiting
               /\ \A d \in Papers : SaysOwn(d, stored'[d].says)
               /\ FitsForm(form', at', filled', shown'.id)
               /\ FitsCall(q, at', shown'.id)
    <3>1. /\ ~hasty /\ ~Waiting /\ unseen' = {}
          /\ \A d \in Papers : SaysOwn(d, stored[d].says)
      BY <2>3, <2>7 DEF ReviewInv, Patient
    <3>2. FitsForm(form', at', filled', shown'.id)
      BY <1>1, <2>3 DEF FitsForm, ActTypes, PageTypes
    <3>3. FitsCall(q, at', shown'.id)
      BY <2>2, <2>3 DEF FitsCall, AtPage
    <3> QED
      BY <2>3, <3>1, <3>2, <3>3
  <2> QED
    BY <2>2, <2>3, <2>4, <2>5, <2>6, <2>7, FetchMoves
<1>3. ASSUME OnSave(c) PROVE ReviewInv'
  <2>1. PICK a : a = Ask("patch", at)
    OBVIOUS
  <2>2. a \in FetchCalls /\ a.then = "patch" /\ a.for = at
    BY <1>1, <2>1, AskIsTyped DEF FetchSteps, AtServer, ActTypes, PageTypes
  <2>3. PICK q : q = [a EXCEPT !.sent = form]
    OBVIOUS
  <2>4. q \in FetchCalls /\ q.then = "patch" /\ q.for = at /\ q.sent = form
    BY <1>1, <2>2, <2>3, FetchSet DEF ActTypes, PageTypes
  <2>5. Press(c, q) /\ UNCHANGED unseen
    BY <1>3, <2>1, <2>3 DEF OnSave
  <2> QED
    BY <1>1, <2>4, <2>5, Pressed DEF ActTypes, PageTypes, AtServer
<1>4. ASSUME OnReject(c) PROVE ReviewInv'
  <2>1. PICK a : a = Ask("mywork", at)
    OBVIOUS
  <2>2. a \in FetchCalls /\ a.then = "mywork" /\ a.for = at
    BY <1>1, <2>1, AskIsTyped DEF FetchSteps, AtServer, ActTypes, PageTypes
  <2>3. PICK q : q = [a EXCEPT !.got = shown]
    OBVIOUS
  <2>4. q \in FetchCalls /\ q.then = "mywork" /\ q.for = at
    BY <1>1, <2>2, <2>3, FetchSet DEF ActTypes, PageTypes
  <2>5. Decide(c, q)
    BY <1>4, <2>1, <2>3 DEF OnReject
  <2> QED
    BY <2>4, <2>5, Decided DEF AtServer
<1>5. ASSUME OnApprove(c) \/ OnSubmit(c) \/ OnRecall(c) PROVE ReviewInv'
  <2>1. PICK then \in {"approve", "submit", "recall"} : Decide(c, Ask(then, at))
    BY <1>5 DEF OnApprove, OnSubmit, OnRecall
  <2>2. PICK q : q = Ask(then, at)
    OBVIOUS
  <2>3. then \in FetchSteps /\ then \in AtServer \ {"patch"}
    BY DEF FetchSteps, AtServer
  <2>4. q \in FetchCalls /\ q.then = then /\ q.for = at
    BY <1>1, <2>2, <2>3, AskIsTyped DEF ActTypes, PageTypes
  <2> QED
    BY <2>1, <2>2, <2>3, <2>4, Decided
<1>6. ASSUME GoNext(c) \/ OnResolve(c) \/ OnPost(c) PROVE ReviewInv'
  <2>1. PICK then \in {"next", "resolve", "refresh"} :
          Press(c, Ask(then, at)) /\ UNCHANGED unseen
    BY <1>6 DEF GoNext, OnResolve, OnPost
  <2>2. PICK q : q = Ask(then, at)
    OBVIOUS
  <2>3. then \in FetchSteps /\ then \in AtServer \ {"patch"}
    BY DEF FetchSteps, AtServer
  <2>4. q \in FetchCalls /\ q.then = then /\ q.for = at
    BY <1>1, <2>2, <2>3, AskIsTyped DEF ActTypes, PageTypes
  <2> QED
    BY <1>1, <2>1, <2>2, <2>3, <2>4, Pressed DEF ActTypes, PageTypes
<1> QED
  BY <1>2, <1>3, <1>4, <1>5, <1>6 DEF Acts

(* A call under way, as the invariant has it.                              *)
LEMMA Fetched ==
  ASSUME ReviewInv, NEW c \in Fetches, fetch[c].then # "idle"
  PROVE  /\ fetch[c] \in FetchCalls /\ fetch[c].for \in Papers
         /\ fetch[c].got \in Rows /\ fetch[c].sent \in Says
         /\ ~hasty => /\ FitsCall(fetch[c], at, shown.id) /\ unseen = {}
                      /\ FitsForm(form, at, filled, shown.id)
                      /\ \A p \in Papers : SaysOwn(p, stored[p].says)
<1>1. fetch[c] \in FetchCalls /\ fetch[c].for \in Papers
  BY ReviewTyped DEF ReviewInv, ReviewTypes, ForPapers, ActTypes, PageTypes
<1>2. fetch[c].got \in Rows /\ fetch[c].sent \in Says
  BY <1>1 DEF FetchCalls
<1> QED
  BY <1>1, <1>2 DEF ReviewInv, Patient

(* The API answers with the row it has written, or as it is.               *)
LEMMA Answered ==
  ASSUME ReviewInv, NEW c \in Fetches, fetch[c].then # "idle",
         NEW row \in Rows, row.id = fetch[c].for,
         ~hasty => SaysOwn(fetch[c].for, row.says),
         NEW then \in (FetchSteps \ {"go", "patch", "tables", "idle"}),
         then \in Leading => fetch[c].then \in Leading,
         Answer(c, row, then)
  PROVE  ReviewInv'
<1>1. ActTypes /\ hasty \in BOOLEAN
  BY ReviewTyped
<1>2. PICK p : p = fetch[c]
  OBVIOUS
<1>3. p \in FetchCalls /\ p.for \in Papers /\ (~hasty => p.for = at)
  BY <1>2, Fetched DEF FitsCall
<1>4. PICK a : a = [p EXCEPT !.then = then]
  OBVIOUS
<1>5. a \in FetchCalls /\ a.then = then /\ a.for = p.for
  BY <1>3, <1>4, FetchSet
<1>6. PICK q : q = [a EXCEPT !.got = row]
  OBVIOUS
<1>7. q \in FetchCalls /\ q.then = then /\ q.for = p.for /\ q.got = row
  BY <1>5, <1>6, FetchSet
<1>8. /\ stored' = [stored EXCEPT ![row.id] = row]
      /\ fetch' = [fetch EXCEPT ![c].then = then, ![c].got = row]
      /\ UNCHANGED <<at, shown, form, armed, acts, filled, hasty, unseen>>
  BY DEF Answer, page, past
<1>9. fetch' = [fetch EXCEPT ![c] = q]
  BY <1>1, <1>2, <1>4, <1>6, <1>8 DEF ActTypes, PageTypes
<1>10. /\ stored' \in [Papers -> Rows]
       /\ \A d \in Papers : stored'[d].id = d
  BY <1>1, <1>2, <1>3, <1>8 DEF ActTypes, PageTypes
<1>11. ForPapers(q)
  BY <1>3, <1>7 DEF ForPapers
<1>12. PageTypes'
  BY <1>1, <1>8, <1>10 DEF ActTypes, PageTypes
<1>13. ASSUME ~hasty
       PROVE  /\ unseen = {} /\ \A d \in Papers : SaysOwn(d, stored'[d].says)
              /\ FitsForm(form, at, filled, shown.id)
              /\ FitsCall(q, at, shown.id)
  <2>1. /\ \A d \in Papers : SaysOwn(d, stored[d].says)
        /\ unseen = {} /\ FitsForm(form, at, filled, shown.id)
    BY <1>13, Fetched
  <2>2. FitsCall(q, at, shown.id)
    BY <1>2, <1>3, <1>7, <1>13 DEF FitsCall
  <2>3. ASSUME NEW d \in Papers PROVE SaysOwn(d, stored'[d].says)
    <3>1. stored'[d] = IF d = p.for THEN row ELSE stored[d]
      BY <1>1, <1>2, <1>8 DEF ActTypes, PageTypes
    <3> QED
      BY <1>2, <1>13, <2>1, <3>1
  <2> QED
    BY <2>1, <2>2, <2>3
<1> QED
  BY <1>1, <1>7, <1>8, <1>9, <1>11, <1>12, <1>13, FetchMoves

LEMMA RowsWritten ==
  ASSUME NEW row \in Rows
  PROVE  /\ \A s \in {"open", "in_approval", "approved", "void"} :
              /\ [row EXCEPT !.status = s] \in Rows
              /\ [row EXCEPT !.status = s].id = row.id
              /\ [row EXCEPT !.status = s].says = row.says
         /\ \A x \in Says :
              /\ [row EXCEPT !.says = x] \in Rows
              /\ [row EXCEPT !.says = x].id = row.id
              /\ [row EXCEPT !.says = x].says = x
<1>1. ASSUME NEW s \in {"open", "in_approval", "approved", "void"}
      PROVE  /\ [row EXCEPT !.status = s] \in Rows
             /\ [row EXCEPT !.status = s].id = row.id
             /\ [row EXCEPT !.status = s].says = row.says
  BY DEF Rows
<1>2. ASSUME NEW x \in Says
      PROVE  /\ [row EXCEPT !.says = x] \in Rows
             /\ [row EXCEPT !.says = x].id = row.id
             /\ [row EXCEPT !.says = x].says = x
  BY DEF Rows
<1> QED
  BY <1>1, <1>2

(* The row a call is for.                                                  *)
LEMMA RowFor ==
  ASSUME ReviewInv, NEW c \in Fetches, fetch[c].then # "idle"
  PROVE  /\ stored[fetch[c].for] \in Rows
         /\ stored[fetch[c].for].id = fetch[c].for
         /\ ~hasty => SaysOwn(fetch[c].for, stored[fetch[c].for].says)
BY Fetched, ReviewTyped DEF ActTypes, PageTypes

LEMMA Decides ==
  ASSUME ReviewInv, NEW c \in Fetches, NEW from, from # "idle",
         NEW then \in (FetchSteps \ {"go", "patch", "tables", "idle"}),
         NEW status, NEW onto, Moves(c, from, then, status, onto),
         then \in Leading => from \in Leading,
         onto \subseteq {"open", "in_approval", "approved", "void"}
  PROVE  ReviewInv'
<1>1. fetch[c].then # "idle" /\ fetch[c].then = from
  BY DEF Moves, Awaits
<1>2. PICK row : row = stored[fetch[c].for]
  OBVIOUS
<1>3. /\ row \in Rows /\ row.id = fetch[c].for
      /\ (~hasty => SaysOwn(fetch[c].for, row.says))
  BY <1>1, <1>2, RowFor
<1>4. PICK s \in onto : Answer(c, [row EXCEPT !.status = s], then)
  BY <1>2 DEF Moves
<1>5. PICK to : to = [row EXCEPT !.status = s]
  OBVIOUS
<1>6. to \in Rows /\ to.id = row.id /\ to.says = row.says
  BY <1>3, <1>5, RowsWritten
<1> QED
  BY <1>1, <1>3, <1>4, <1>5, <1>6, Answered

(* A call goes on with what it holds, or ends; nothing else changes.       *)
LEMMA Turns ==
  ASSUME ReviewInv, NEW c \in Fetches, NEW q \in FetchCalls,
         fetch[c].then # "idle", fetch' = [fetch EXCEPT ![c] = q],
         UNCHANGED <<stored, at, shown, form, armed, acts, filled, hasty, unseen>>,
         ForPapers(q), q.then \in Leading => fetch[c].then \in Leading,
         ~hasty => FitsCall(q, at, shown.id)
  PROVE  ReviewInv'
<1>1. ActTypes /\ hasty \in BOOLEAN
  BY ReviewTyped
<1>2. PageTypes' /\ hasty' \in BOOLEAN
  BY <1>1 DEF ActTypes, PageTypes
<1>3. ASSUME ~hasty
      PROVE  /\ unseen = {} /\ \A d \in Papers : SaysOwn(d, stored[d].says)
             /\ FitsForm(form, at, filled, shown.id)
  BY <1>3, Fetched
<1> QED
  BY <1>1, <1>2, <1>3, FetchMoves

LEMMA Stopped ==
  ASSUME ReviewInv, NEW c \in Fetches, fetch[c].then # "idle", Stops(c),
         UNCHANGED <<stored, at, shown, form, armed, acts, filled, hasty, unseen>>
  PROVE  ReviewInv'
<1>1. PICK q : q = Quiet
  OBVIOUS
<1>2. /\ q \in FetchCalls /\ fetch' = [fetch EXCEPT ![c] = q]
      /\ ForPapers(q) /\ FitsCall(q, at, shown.id) /\ q.then \notin Leading
  BY <1>1, QuietIsTyped DEF ForPapers, FitsCall, Stops, Leading
<1> QED
  BY <1>2, Turns

LEMMA GoesOnTo ==
  ASSUME ReviewInv, NEW c \in Fetches, fetch[c].then # "idle",
         NEW then \in (FetchSteps \ {"patch", "tables", "go"}),
         Goes(c, then),
         UNCHANGED <<stored, at, shown, form, armed, acts, filled, hasty, unseen>>,
         then \in AtServer \/ fetch[c].then \in AtPage \ {"go"},
         then \in Leading => fetch[c].then \in Leading
  PROVE  ReviewInv'
<1>1. PICK p : p = fetch[c]
  OBVIOUS
<1>2. p \in FetchCalls /\ p.for \in Papers /\ (~hasty => FitsCall(p, at, shown.id))
  BY <1>1, Fetched
<1>3. PICK q : q = [p EXCEPT !.then = then]
  OBVIOUS
<1>4. /\ q \in FetchCalls /\ q.then = then /\ q.for = p.for /\ q.got = p.got
  BY <1>2, <1>3, FetchSet
<1>5. fetch' = [fetch EXCEPT ![c] = q]
  BY <1>1, <1>3, ReviewTyped DEF Goes, ActTypes
<1>6. ForPapers(q)
  BY <1>2, <1>4 DEF ForPapers
<1>7. ~hasty => FitsCall(q, at, shown.id)
  BY <1>1, <1>2, <1>4 DEF FitsCall, AtServer, AtPage
<1> QED
  BY <1>4, <1>5, <1>6, <1>7, Turns

(* Lines get the invoice they are saved on, and stay what they say.        *)
LEMMA LinesSaved ==
  ASSUME NEW p \in Papers, NEW sent \in Says, NEW x,
         x = [fields |-> sent.fields,
              lines |-> {[l EXCEPT !.row = p] : l \in sent.lines}]
  PROVE  x \in Says /\ (SaysOwn(p, sent) => SaysOwn(p, x))
<1>1. \A l \in sent.lines : /\ l \in Lines /\ [l EXCEPT !.row = p] \in Lines
                            /\ [l EXCEPT !.row = p].from = l.from
  BY DEF Says, Lines
<1>2. x \in Says
  BY <1>1 DEF Says
<1>3. [Line(p) EXCEPT !.row = p] = Line(p)
  BY DEF Line
<1>4. ASSUME SaysOwn(p, sent) PROVE SaysOwn(p, x)
  <2>1. x.fields = p /\ \A l \in x.lines : l.from = p
    BY <1>1, <1>4 DEF SaysOwn
  <2>2. Own(p).lines \subseteq x.lines
    BY <1>3, <1>4 DEF SaysOwn, Own
  <2> QED
    BY <2>1, <2>2 DEF SaysOwn
<1> QED
  BY <1>2, <1>4

LEMMA ServedStays ==
  ASSUME ReviewInv, NEW c \in Fetches, Serves(c)
  PROVE  ReviewInv'
<1>1. ASSUME Read(c) PROVE ReviewInv'
  <2>1. PICK then \in {"panels", "repaint"} :
          /\ fetch[c].then # "idle" /\ Answer(c, stored[fetch[c].for], then)
          /\ then = "panels" => fetch[c].then = "load"
    BY <1>1 DEF Read, Awaits
  <2>2. PICK row : row = stored[fetch[c].for]
    OBVIOUS
  <2>3. /\ then \in FetchSteps \ {"go", "patch", "tables", "idle"}
        /\ then \in Leading => fetch[c].then \in Leading
    BY <2>1 DEF FetchSteps, AtPage, Leading
  <2>4. /\ row \in Rows /\ row.id = fetch[c].for
        /\ (~hasty => SaysOwn(fetch[c].for, row.says))
    BY <2>1, <2>2, RowFor
  <2> QED
    BY <2>1, <2>2, <2>3, <2>4, Answered
<1>2. ASSUME Patch(c) PROVE ReviewInv'
  <2>1. PICK p, sent : p = fetch[c].for /\ sent = fetch[c].sent
    OBVIOUS
  <2>2. PICK x : x = [fields |-> sent.fields,
                      lines |-> {[l EXCEPT !.row = p] : l \in sent.lines}]
    OBVIOUS
  <2>3. /\ fetch[c].then = "patch"
        /\ Answer(c, [stored[p] EXCEPT !.says = x], "saved")
    BY <1>2, <2>1, <2>2 DEF Patch, Awaits
  <2>4. PICK row : row = [stored[p] EXCEPT !.says = x]
    OBVIOUS
  <2>5. /\ p \in Papers /\ stored[p] \in Rows /\ stored[p].id = p /\ sent \in Says
        /\ ~hasty => SaysOwn(p, sent)
    BY <2>1, <2>3, RowFor, Fetched DEF FitsCall
  <2>6. x \in Says /\ (SaysOwn(p, sent) => SaysOwn(p, x))
    BY <2>2, <2>5, LinesSaved
  <2>7. row \in Rows /\ row.id = p /\ row.says = x
    BY <2>4, <2>5, <2>6, RowsWritten
  <2>8. /\ "saved" \in FetchSteps \ {"go", "patch", "tables", "idle"}
        /\ "saved" \notin Leading
    BY DEF FetchSteps, AtPage, Leading
  <2> QED
    BY <2>1, <2>3, <2>4, <2>5, <2>6, <2>7, <2>8, Answered
<1>3. ASSUME Approve(c) \/ Submit(c) \/ Recall(c) \/ Resolve(c) \/ RejectTask(c)
               \/ Void(c)
      PROVE  ReviewInv'
  <2>1. /\ {"approved", "submitted", "recalled", "resolved", "next"}
             \subseteq FetchSteps \ {"go", "patch", "tables", "idle"}
        /\ {"approve", "reject", "void"} \subseteq Leading
        /\ "submitted" \notin Leading /\ "recalled" \notin Leading
        /\ "resolved" \notin Leading
    BY DEF FetchSteps, AtPage, AtServer, Leading
  <2>2. CASE Approve(c)
    BY <2>1, <2>2, Decides DEF Approve
  <2>3. CASE Submit(c)
    BY <2>1, <2>3, Decides DEF Submit
  <2>4. CASE Recall(c)
    BY <2>1, <2>4, Decides DEF Recall
  <2>5. CASE Resolve(c)
    BY <2>1, <2>5, Decides DEF Resolve
  <2>6. CASE RejectTask(c)
    BY <2>1, <2>6, Decides DEF RejectTask
  <2>7. CASE Void(c)
    BY <2>1, <2>7, Decides DEF Void
  <2> QED
    BY <1>3, <2>2, <2>3, <2>4, <2>5, <2>6, <2>7
<1>4. ASSUME MyWork(c) PROVE ReviewInv'
  <2>1. PICK then \in {"reject", "void"} : fetch[c].then = "mywork" /\ Goes(c, then)
    BY <1>4 DEF MyWork, Awaits, Goes
  <2>2. /\ then \in AtServer /\ then \in FetchSteps \ {"patch", "tables", "go"}
        /\ fetch[c].then \in Leading
    BY <2>1 DEF AtServer, FetchSteps, Leading
  <2>3. UNCHANGED <<stored, at, shown, form, armed, acts, filled, hasty, unseen>>
    BY <1>4 DEF MyWork, page, past
  <2> QED
    BY <2>1, <2>2, <2>3, GoesOnTo
<1>5. ASSUME NextInQueue(c) PROVE ReviewInv'
  <2>1. PICK d \in Papers :
          fetch' = [fetch EXCEPT ![c].then = "go", ![c].got = stored[d]]
    BY <1>5 DEF NextInQueue
  <2>2. /\ fetch[c].then # "idle" /\ fetch[c].then \in Leading
        /\ UNCHANGED <<stored, at, shown, form, armed, acts, filled, hasty, unseen>>
    BY <1>5 DEF NextInQueue, page, past, Awaits, Leading
  <2>3. PICK row : row = stored[d]
    OBVIOUS
  <2>4. row \in Rows /\ row.id = d
    BY <2>3, ReviewTyped DEF ActTypes, PageTypes
  <2>5. PICK p : p = fetch[c]
    OBVIOUS
  <2>6. p \in FetchCalls /\ p.for \in Papers /\ (~hasty => FitsCall(p, at, shown.id))
    BY <2>2, <2>5, Fetched
  <2>7. PICK a : a = [p EXCEPT !.then = "go"]
    OBVIOUS
  <2>8. a \in FetchCalls /\ a.then = "go" /\ a.for = p.for
    BY <2>6, <2>7, FetchSet DEF FetchSteps, AtPage
  <2>9. PICK q : q = [a EXCEPT !.got = row]
    OBVIOUS
  <2>10. q \in FetchCalls /\ q.then = "go" /\ q.for = p.for /\ q.got = row
    BY <2>4, <2>8, <2>9, FetchSet
  <2>11. fetch' = [fetch EXCEPT ![c] = q]
    BY <2>1, <2>3, <2>5, <2>7, <2>9, ReviewTyped DEF ActTypes
  <2>12. ForPapers(q)
    BY <2>4, <2>6, <2>10 DEF ForPapers
  <2>13. ~hasty => FitsCall(q, at, shown.id)
    BY <2>2, <2>5, <2>6, <2>10 DEF FitsCall
  <2> QED
    BY <2>2, <2>10, <2>11, <2>12, <2>13, Turns
<1>6. ASSUME Fail(c) PROVE ReviewInv'
  <2>1. /\ fetch[c].then # "idle" /\ Stops(c)
        /\ UNCHANGED <<stored, at, shown, form, armed, acts, filled, hasty, unseen>>
    BY <1>6 DEF Fail, Stops, AtServer, AtPage, page, past
  <2> QED
    BY <2>1, Stopped
<1> QED
  BY <1>1, <1>2, <1>3, <1>4, <1>5, <1>6 DEF Serves

LEMMA PageMoves ==
  ASSUME ReviewInv, NEW c \in Fetches, NEW q \in FetchCalls,
         fetch[c].then # "idle", fetch' = [fetch EXCEPT ![c] = q],
         UNCHANGED <<stored, armed, acts, hasty, unseen>>,
         at' \in Papers, shown' \in Rows, form' \in Says,
         filled' \in Papers \union {Blank}, ForPapers(q),
         ~hasty =>
           /\ FitsForm(form', at', filled', shown'.id)
           /\ FitsCall(q, at', shown'.id)
           /\ \/ fetch[c].then \in Leading
              \/ q.then \notin Leading /\ at' = at /\ shown'.id = at
  PROVE  ReviewInv'
<1>1. ActTypes /\ hasty \in BOOLEAN
  BY ReviewTyped
<1>2. PageTypes' /\ hasty' \in BOOLEAN
  BY <1>1 DEF ActTypes, PageTypes
<1>3. ASSUME ~hasty
      PROVE  (\A d \in Papers : SaysOwn(d, stored[d].says)) /\ unseen = {}
  BY <1>3, Fetched
<1> QED
  BY <1>1, <1>2, <1>3, FetchMoves

(* A field or a line is set, or the lines of an answer are.                *)
LEMMA FormsSet ==
  ASSUME NEW f \in Says
  PROVE  /\ \A x \in SUBSET Lines : [f EXCEPT !.lines = x] \in Says
         /\ \A x \in Papers \union {Blank} : [f EXCEPT !.fields = x] \in Says
         /\ \A p \in Papers, g \in Says :
              SaysOwn(p, f) /\ SaysOwn(p, g) => SaysOwn(p, [f EXCEPT !.lines = g.lines])
         /\ \A p \in Papers : SaysOwn(p, f) => SaysOwn(p, [f EXCEPT !.fields = p])
<1>1. ASSUME NEW x \in SUBSET Lines
      PROVE  /\ [f EXCEPT !.lines = x] \in Says
             /\ [f EXCEPT !.lines = x].fields = f.fields
             /\ [f EXCEPT !.lines = x].lines = x
  BY DEF Says
<1>2. ASSUME NEW x \in Papers \union {Blank}
      PROVE  /\ [f EXCEPT !.fields = x] \in Says
             /\ [f EXCEPT !.fields = x].fields = x
             /\ [f EXCEPT !.fields = x].lines = f.lines
  BY DEF Says
<1>3. ASSUME NEW p \in Papers, NEW g \in Says, SaysOwn(p, f), SaysOwn(p, g)
      PROVE  SaysOwn(p, [f EXCEPT !.lines = g.lines])
  <2>1. g.lines \in SUBSET Lines
    BY DEF Says
  <2> QED
    BY <1>1, <1>3, <2>1 DEF SaysOwn
<1>4. ASSUME NEW p \in Papers, SaysOwn(p, f)
      PROVE  SaysOwn(p, [f EXCEPT !.fields = p])
  BY <1>2, <1>4 DEF SaysOwn
<1> QED
  BY <1>1, <1>2, <1>3, <1>4

(* A line is added to the form of an invoice.                              *)
LEMMA LineAdded ==
  ASSUME NEW f \in Says, NEW id \in Papers \union {Blank}, NEW g,
         g = [f EXCEPT !.lines = f.lines \union {[row |-> Blank, from |-> id]}]
  PROVE  g \in Says /\ (SaysOwn(id, f) => SaysOwn(id, g))
<1>1. PICK x : x = f.lines \union {[row |-> Blank, from |-> id]}
  OBVIOUS
<1>2. x \in SUBSET Lines
  BY <1>1 DEF Says, Lines
<1>3. g \in Says /\ g.fields = f.fields /\ g.lines = x
  BY <1>1, <1>2 DEF Says
<1> QED
  BY <1>1, <1>3 DEF SaysOwn

(* The answer is shown, with its lines where the function sets them.       *)
LEMMA Shown ==
  ASSUME ReviewInv, NEW c \in Fetches, NEW lines \in BOOLEAN,
         fetch[c].then \in AtPage \ {"go"},
         NEW then \in {"idle", "next", "refresh"}, Shows(c, lines, then),
         then = "next" => fetch[c].then \in Leading
  PROVE  ReviewInv'
<1>1. PICK p : p = fetch[c]
  OBVIOUS
<1>2. fetch[c].then # "idle"
  BY DEF AtPage
<1>3. /\ p \in FetchCalls /\ p.for \in Papers /\ p.got \in Rows
      /\ (~hasty => /\ FitsCall(p, at, shown.id)
                    /\ FitsForm(form, at, filled, shown.id))
  BY <1>1, <1>2, Fetched
<1>4. PICK q : q = IF then = "idle" THEN Quiet ELSE [p EXCEPT !.then = then]
  OBVIOUS
<1>5. /\ q \in FetchCalls /\ q.then = then
      /\ (then # "idle" => q.for = p.for)
  BY <1>3, <1>4, QuietIsTyped, FetchSet DEF FetchSteps, AtServer
<1>6. /\ shown' = p.got
      /\ form' = IF lines THEN [form EXCEPT !.lines = p.got.says.lines] ELSE form
      /\ UNCHANGED <<stored, at, armed, acts, filled, hasty, unseen>>
  BY <1>1 DEF Shows, past
<1>7. fetch' = [fetch EXCEPT ![c] = q]
  BY <1>1, <1>4, ReviewTyped DEF Shows, Stops, Goes, ActTypes
<1>8. form' \in Says /\ at' \in Papers /\ filled' \in Papers \union {Blank}
  <2>1. p.got.says.lines \in SUBSET Lines
    BY <1>3 DEF Rows, Says
  <2>2. form \in Says /\ at \in Papers /\ filled \in Papers \union {Blank}
    BY ReviewTyped DEF ActTypes, PageTypes
  <2> QED
    BY <1>6, <2>1, <2>2, FormsSet
<1>9. ForPapers(q)
  BY <1>3, <1>5 DEF ForPapers
<1>10. ASSUME ~hasty
       PROVE  /\ FitsForm(form', at', filled', shown'.id)
              /\ FitsCall(q, at', shown'.id)
              /\ at' = at /\ shown'.id = at
  <2>1. p.for = at /\ p.got.id = at /\ SaysOwn(at, p.got.says) /\ p.got.says \in Says
    BY <1>1, <1>2, <1>3, <1>10 DEF FitsCall, Rows
  <2>2. FitsCall(q, at', shown'.id)
    BY <1>5, <1>6, <2>1 DEF FitsCall, AtPage
  <2>3. ASSUME filled = at PROVE SaysOwn(at, form')
    <3>1. SaysOwn(at, form) /\ form \in Says /\ at \in Papers
      BY <1>3, <1>10, <2>3, ReviewTyped DEF FitsForm, ActTypes, PageTypes
    <3> QED
      BY <1>6, <2>1, <3>1, FormsSet
  <2> QED
    BY <1>6, <2>1, <2>2, <2>3 DEF FitsForm
<1>11. q.then \in Leading => fetch[c].then \in Leading
  BY <1>5 DEF Leading
<1> QED
  BY <1>2, <1>3, <1>5, <1>6, <1>7, <1>8, <1>9, <1>10, <1>11, PageMoves

LEMMA PageGoesOn ==
  ASSUME ReviewInv, NEW c \in Fetches, Continues(c)
  PROVE  ReviewInv'
<1>1. ActTypes
  BY ReviewTyped
<1>2. PICK p : p = fetch[c]
  OBVIOUS
<1>3. ASSUME p.then # "idle"
      PROVE  /\ fetch[c].then # "idle" /\ p \in FetchCalls /\ p.for \in Papers
             /\ p.got \in Rows /\ p.got.says \in Says
             /\ (~hasty => /\ FitsCall(p, at, shown.id)
                           /\ FitsForm(form, at, filled, shown.id))
  BY <1>2, <1>3, Fetched DEF Rows
<1>4. ASSUME Panels(c) PROVE ReviewInv'
  <2>1. /\ p.then = "panels" /\ shown' = p.got
        /\ fetch' = [fetch EXCEPT ![c].then = "tables"]
        /\ UNCHANGED <<stored, at, form, armed, acts, filled, hasty, unseen>>
    BY <1>2, <1>4 DEF Panels, Awaits, Goes, past
  <2>2. PICK q : q = [p EXCEPT !.then = "tables"]
    OBVIOUS
  <2>3. /\ q \in FetchCalls /\ q.then = "tables" /\ q.for = p.for
        /\ q.got = p.got
    BY <1>3, <2>1, <2>2, FetchSet DEF FetchSteps, AtPage
  <2>4. fetch' = [fetch EXCEPT ![c] = q]
    BY <1>1, <1>2, <2>1, <2>2 DEF ActTypes
  <2>5. ForPapers(q)
    BY <1>3, <2>1, <2>3 DEF ForPapers
  <2>6. ASSUME ~hasty
        PROVE  /\ FitsForm(form', at', filled', shown'.id)
               /\ FitsCall(q, at', shown'.id)
    <3>1. p.for = at /\ p.got.id = at /\ SaysOwn(at, p.got.says)
      BY <1>3, <2>1, <2>6 DEF FitsCall, AtPage
    <3>2. FitsCall(q, at', shown'.id)
      BY <2>1, <2>3, <3>1 DEF FitsCall
    <3>3. FitsForm(form', at', filled', shown'.id)
      BY <1>3, <2>1, <2>6, <3>1 DEF FitsForm
    <3> QED
      BY <3>2, <3>3
  <2>7. fetch[c].then \in Leading
    BY <1>2, <2>1 DEF Leading
  <2> QED
    BY <1>1, <1>3, <2>1, <2>3, <2>4, <2>5, <2>6, <2>7, PageMoves
       DEF ActTypes, PageTypes
<1>5. ASSUME FillForm(c) PROVE ReviewInv'
  <2>1. /\ p.then = "tables" /\ form' = p.got.says /\ filled' = p.for
        /\ UNCHANGED <<stored, at, shown, armed, acts, hasty, unseen>>
        /\ fetch' = [fetch EXCEPT ![c] = Quiet]
    BY <1>2, <1>5 DEF FillForm, Awaits, Stops
  <2>2. PICK q : q = Quiet
    OBVIOUS
  <2>3. q \in FetchCalls /\ ForPapers(q) /\ FitsCall(q, at', shown'.id)
    BY <2>2, QuietIsTyped DEF ForPapers, FitsCall
  <2>4. ASSUME ~hasty PROVE FitsForm(form', at', filled', shown'.id)
    <3>1. SaysOwn(at, p.got.says) /\ shown.id = at
      BY <1>3, <2>1, <2>4 DEF FitsCall, AtPage
    <3> QED
      BY <2>1, <3>1 DEF FitsForm
  <2>5. fetch[c].then \in Leading
    BY <1>2, <2>1 DEF Leading
  <2> QED
    BY <1>1, <1>3, <2>1, <2>2, <2>3, <2>4, <2>5, PageMoves DEF ActTypes, PageTypes
<1>6. ASSUME TablesFail(c) PROVE ReviewInv'
  <2>1. UNCHANGED <<stored, at, shown, form, armed, acts, filled, hasty, unseen>>
    BY <1>6 DEF TablesFail, page, past
  <2>2. CASE fetch[c].then = "load"
    <3>1. Goes(c, "refresh")
      BY <1>6, <2>2 DEF TablesFail, Awaits
    <3>2. /\ "refresh" \in AtServer /\ "refresh" \notin Leading
          /\ "refresh" \in FetchSteps \ {"patch", "tables", "go"}
      BY DEF AtServer, FetchSteps, Leading
    <3> QED
      BY <2>1, <2>2, <3>1, <3>2, GoesOnTo
  <2>3. CASE fetch[c].then = "panels"
    <3>1. Goes(c, "repaint")
      BY <1>6, <2>3 DEF TablesFail, Awaits
    <3>2. /\ "panels" \in AtPage \ {"go"} /\ "repaint" \notin Leading
          /\ "repaint" \in FetchSteps \ {"patch", "tables", "go"}
      BY DEF AtPage, FetchSteps, Leading
    <3> QED
      BY <2>1, <2>3, <3>1, <3>2, GoesOnTo
  <2> QED
    BY <1>6, <2>2, <2>3 DEF TablesFail
<1>7. ASSUME Repaint(c) PROVE ReviewInv'
  <2>1. fetch[c].then = "repaint" /\ Shows(c, FALSE, "idle")
    BY <1>7 DEF Repaint, Awaits, Shows, Stops
  <2> QED
    BY <2>1, Shown DEF AtPage
<1>8. ASSUME Saved(c) \/ Approved(c) \/ Submitted(c) \/ Recalled(c) \/ Resolved(c)
      PROVE  ReviewInv'
  <2>1. PICK lines \in BOOLEAN, then \in {"idle", "next", "refresh"} :
          /\ fetch[c].then \in AtPage \ {"go"} /\ Shows(c, lines, then)
          /\ then = "next" => fetch[c].then \in Leading
    BY <1>8 DEF Saved, Approved, Submitted, Recalled, Resolved, Awaits, AtPage,
                Leading
  <2> QED
    BY <2>1, Shown
<1>9. ASSUME Go(c) PROVE ReviewInv'
  <2>1. /\ p.then = "go" /\ at' = p.got.id
        /\ UNCHANGED <<stored, shown, form, armed, acts, hasty, unseen>>
    BY <1>2, <1>9 DEF Go, Awaits
  <2>2. p.got.id \in Papers
    BY <1>2, <2>1 DEF ReviewInv, ReviewTypes, ForPapers
  <2>3. CASE p.got.id = at
    <3>1. Stops(c) /\ UNCHANGED <<at, filled>>
      BY <1>2, <1>9, <2>1, <2>3 DEF Go
    <3> QED
      BY <1>3, <2>1, <3>1, Stopped
  <2>4. CASE p.got.id # at
    <3>1. PICK q : q = Ask("load", p.got.id)
      OBVIOUS
    <3>2. q \in FetchCalls /\ q.then = "load" /\ q.for = p.got.id
      BY <2>2, <3>1, AskIsTyped DEF FetchSteps, AtServer
    <3>3. filled' = Blank /\ fetch' = [fetch EXCEPT ![c] = q]
      BY <1>2, <1>9, <2>4, <3>1 DEF Go
    <3>4. ForPapers(q)
      BY <2>2, <3>2 DEF ForPapers
    <3>5. /\ FitsForm(form', at', filled', shown'.id)
          /\ FitsCall(q, at', shown'.id)
      BY <1>1, <2>1, <2>2, <3>2, <3>3 DEF FitsForm, FitsCall, AtPage, ActTypes
    <3>6. fetch[c].then \in Leading
      BY <1>2, <2>1 DEF Leading
    <3> QED
      BY <1>1, <1>3, <2>1, <2>2, <3>2, <3>3, <3>4, <3>5, <3>6, PageMoves
         DEF ActTypes, PageTypes
  <2> QED
    BY <2>3, <2>4
<1> QED
  BY <1>4, <1>5, <1>6, <1>7, <1>8, <1>9 DEF Continues

(* A recognized value is put into a field of the invoice it was picked on, *)
(* and a line is added for the invoice that is shown.                      *)
LEMMA PicksStay ==
  ASSUME ReviewInv, OnChipClick \/ OnFieldFocus \/ AddEditLine
  PROVE  ReviewInv'
<1>1. ActTypes /\ hasty \in BOOLEAN
  BY ReviewTyped
<1>2. UNCHANGED <<stored, at, shown, fetch, acts, filled, unseen>>
  BY DEF OnChipClick, OnFieldFocus, AddEditLine, past
<1>3. form \in Says /\ shown.id \in Papers \union {Blank} /\ at \in Papers
  BY <1>1 DEF ActTypes, PageTypes, Rows
<1>4. ASSUME OnChipClick
      PROVE  /\ form' \in Says /\ hasty' \in BOOLEAN
             /\ armed' \in Papers \union {Blank}
             /\ ~hasty' => ~hasty /\ form' = form
  BY <1>1, <1>3, <1>4 DEF OnChipClick, past, ActTypes, PageTypes
<1>5. ASSUME OnFieldFocus
      PROVE  /\ form' \in Says /\ hasty' \in BOOLEAN
             /\ armed' \in Papers \union {Blank}
             /\ ~hasty' => /\ ~hasty /\ (SaysOwn(at, form) => SaysOwn(at, form'))
  <2>1. /\ form' = [form EXCEPT !.fields = armed] /\ armed' = Blank
        /\ hasty' = (hasty \/ filled # at \/ armed # at)
    BY <1>5 DEF OnFieldFocus
  <2>2. armed \in Papers \union {Blank}
    BY <1>1 DEF ActTypes, PageTypes
  <2>3. hasty' \in BOOLEAN
    BY <1>1, <2>1
  <2>4. form' \in Says /\ (armed = at /\ SaysOwn(at, form) => SaysOwn(at, form'))
    BY <1>3, <2>1, <2>2, FormsSet
  <2> QED
    BY <2>1, <2>3, <2>4
<1>6. ASSUME AddEditLine
      PROVE  /\ form' \in Says /\ hasty' \in BOOLEAN
             /\ armed' \in Papers \union {Blank}
             /\ ~hasty' =>
                  /\ ~hasty
                  /\ SaysOwn(at, form) /\ shown.id = at => SaysOwn(at, form')
  <2>1. /\ form' = [form EXCEPT !.lines =
                      form.lines \union {[row |-> Blank, from |-> shown.id]}]
        /\ armed' = armed /\ hasty' = (hasty \/ filled # at)
    BY <1>6 DEF AddEditLine
  <2>2. hasty' \in BOOLEAN /\ armed' \in Papers \union {Blank}
    BY <1>1, <2>1 DEF ActTypes, PageTypes
  <2>3. form' \in Says /\ (shown.id = at /\ SaysOwn(at, form) => SaysOwn(at, form'))
    BY <1>3, <2>1, LineAdded
  <2> QED
    BY <2>1, <2>2, <2>3
<1>7. /\ form' \in Says /\ hasty' \in BOOLEAN /\ armed' \in Papers \union {Blank}
      /\ ~hasty' => /\ ~hasty
                    /\ SaysOwn(at, form) /\ shown.id = at => SaysOwn(at, form')
  BY <1>4, <1>5, <1>6
<1>8. ReviewTypes'
  BY <1>1, <1>2, <1>7 DEF ReviewInv, ReviewTypes, WorkspaceTypeOK, ForPapers
<1>9. ASSUME ~hasty' PROVE Patient'
  <2>1. Patient
    BY <1>7, <1>9 DEF ReviewInv
  <2>2. FitsForm(form', at, filled, shown.id)
    BY <1>7, <1>9, <2>1 DEF Patient, FitsForm
  <2> QED
    BY <1>2, <2>1, <2>2, PatientNext DEF Patient
<1> QED
  BY <1>8, <1>9 DEF ReviewInv

LEMMA ReviewStep == ReviewInv /\ [WorkspaceNext]_workspaceVars => ReviewInv'
<1> SUFFICES ASSUME ReviewInv, [WorkspaceNext]_workspaceVars PROVE ReviewInv'
  OBVIOUS
<1>1. CASE WorkspaceNext
  BY <1>1, UserActs, ServedStays, PageGoesOn, PicksStay DEF WorkspaceNext
<1>2. CASE UNCHANGED workspaceVars
  <2>1. UNCHANGED <<stored, at, shown, form, armed, fetch, acts, filled, hasty,
                    unseen>>
    BY <1>2 DEF workspaceVars
  <2>2. ReviewTypes'
    BY <2>1 DEF ReviewInv, ReviewTypes, WorkspaceTypeOK, ForPapers
  <2>3. ~hasty' => Patient'
    <3>1. ~hasty => Patient
      BY DEF ReviewInv
    <3> QED
      BY <2>1, <3>1, PatientNext DEF Patient
  <2> QED
    BY <2>2, <2>3 DEF ReviewInv
<1> QED
  BY <1>1, <1>2

(* For any invoices and any number of calls under way: who leaves an       *)
(* invoice only when all answers are there, and uses the page only once it *)
(* is filled, never writes to an invoice what another one says, deletes no *)
(* line of its document, and never decides on one that is not shown, in    *)
(* whatever order saves, submissions and uploads are answered              *)
(* (InvoiceWorkspacePage.tsx, update of invoices.service.ts).              *)
THEOREM FormsAlwaysStayHome == WorkspaceSpec => []FormsStayHome
<1>1. ReviewInv => FormsStayHome
  BY DEF ReviewInv, Patient, FormsStayHome
<1> QED
  BY <1>1, ReviewInit, ReviewStep, PTL DEF WorkspaceSpec

-----------------------------------------------------------------------------
(* What the pages offer is what the API accepts *)

Accepts(op, status) == \E m \in Accepted : m[1] = op /\ m[2] = status

(* Whatever a row offers is accepted, but Edit of what is in approval.     *)
Sound(op, status) ==
  /\ op # "list"
  /\ Accepts(op, status) \/ (op = "edit" /\ status = "in_approval")

LEMMA OfferedOf ==
  ASSUME NEW op, NEW S, NEW o, NEW s, <<o, s>> \in Offer(op, S)
  PROVE  o = op /\ s \in S
BY DEF Offer

LEMMA AcceptedOf ==
  ASSUME NEW op, NEW F, NEW T, T # {}, Transit(op, F, T) \subseteq Accepted
  PROVE  \A s \in F : Accepts(op, s)
<1> TAKE s \in F
<1>1. PICK t \in T : TRUE
  OBVIOUS
<1>2. <<op, s, t>> \in Accepted
  BY DEF Transit
<1>3. <<op, s, t>>[1] = op /\ <<op, s, t>>[2] = s
  OBVIOUS
<1> QED
  BY <1>2, <1>3 DEF Accepts

LEMMA RequestButtonsAccepted ==
  ASSUME kind = "requests", NEW o, NEW s, <<o, s>> \in Offered
  PROVE  Sound(o, s)
<1>1. (RequestMoves \union RequestConversion \union RequestUpdate) \subseteq
      Accepted
  BY DEF Accepted
<1>2. ASSUME <<o, s>> \in Offer("accept", {"proposed"}) PROVE Sound(o, s)
  <2>1. Transit("accept", {"proposed"}, {"in_approval"}) \subseteq Accepted
    BY <1>1 DEF RequestMoves
  <2>2. \A x \in {"proposed"} : Accepts("accept", x)
    BY <2>1, AcceptedOf
  <2>3. o = "accept" /\ s \in {"proposed"}
    BY <1>2, OfferedOf
  <2> QED
    BY <2>2, <2>3 DEF Sound
<1>3. ASSUME <<o, s>> \in Offer("create", {"absent"}) PROVE Sound(o, s)
  <2>1. Transit("create", {"absent"}, {"draft"}) \subseteq Accepted
    BY <1>1 DEF RequestMoves
  <2>2. \A x \in {"absent"} : Accepts("create", x)
    BY <2>1, AcceptedOf
  <2>3. o = "create" /\ s \in {"absent"}
    BY <1>3, OfferedOf
  <2> QED
    BY <2>2, <2>3 DEF Sound
<1>4. ASSUME <<o, s>> \in Offer("edit", {"draft", "in_approval"}) PROVE
      Sound(o, s)
  <2>1. Transit("edit", {"draft"}, {"draft"}) \subseteq Accepted
    BY <1>1 DEF RequestUpdate
  <2>2. \A x \in {"draft"} : Accepts("edit", x)
    BY <2>1, AcceptedOf
  <2>3. o = "edit" /\ s \in {"draft", "in_approval"}
    BY <1>4, OfferedOf
  <2> QED
    BY <2>2, <2>3 DEF Sound
<1>5. ASSUME <<o, s>> \in Offer("submit", {"draft"}) PROVE Sound(o, s)
  <2>1. Transit("submit", {"draft"}, {"in_approval"}) \subseteq Accepted
    BY <1>1 DEF RequestMoves
  <2>2. \A x \in {"draft"} : Accepts("submit", x)
    BY <2>1, AcceptedOf
  <2>3. o = "submit" /\ s \in {"draft"}
    BY <1>5, OfferedOf
  <2> QED
    BY <2>2, <2>3 DEF Sound
<1>6. ASSUME <<o, s>> \in Offer("approve", {"in_approval"}) PROVE Sound(o, s)
  <2>1. Transit("approve", {"in_approval"}, {"approved"}) \subseteq Accepted
    BY <1>1 DEF RequestMoves
  <2>2. \A x \in {"in_approval"} : Accepts("approve", x)
    BY <2>1, AcceptedOf
  <2>3. o = "approve" /\ s \in {"in_approval"}
    BY <1>6, OfferedOf
  <2> QED
    BY <2>2, <2>3 DEF Sound
<1>7. ASSUME <<o, s>> \in Offer("convert", {"approved"}) PROVE Sound(o, s)
  <2>1. Transit("convert", {"approved"}, {"converted"}) \subseteq Accepted
    BY <1>1 DEF RequestConversion
  <2>2. \A x \in {"approved"} : Accepts("convert", x)
    BY <2>1, AcceptedOf
  <2>3. o = "convert" /\ s \in {"approved"}
    BY <1>7, OfferedOf
  <2> QED
    BY <2>2, <2>3 DEF Sound
<1> QED
  BY <1>2, <1>3, <1>4, <1>5, <1>6, <1>7
     DEF Offered, ProposalButtons, RequestComposer, RequestButtons

LEMMA OrderButtonsAccepted ==
  ASSUME kind = "orders", NEW o, NEW s, <<o, s>> \in Offered
  PROVE  Sound(o, s)
<1>1. (OrderMoves \union OrderUpdate) \subseteq Accepted
  BY DEF Accepted
<1>2. ASSUME <<o, s>> \in Offer("create", {"absent"}) PROVE Sound(o, s)
  <2>1. Transit("create", {"absent"}, {"draft"}) \subseteq Accepted
    BY <1>1 DEF OrderMoves
  <2>2. \A x \in {"absent"} : Accepts("create", x)
    BY <2>1, AcceptedOf
  <2>3. o = "create" /\ s \in {"absent"}
    BY <1>2, OfferedOf
  <2> QED
    BY <2>2, <2>3 DEF Sound
<1>3. ASSUME <<o, s>> \in Offer("edit", {"draft"}) PROVE Sound(o, s)
  <2>1. Transit("edit", {"draft"}, {"draft"}) \subseteq Accepted
    BY <1>1 DEF OrderUpdate
  <2>2. \A x \in {"draft"} : Accepts("edit", x)
    BY <2>1, AcceptedOf
  <2>3. o = "edit" /\ s \in {"draft"}
    BY <1>3, OfferedOf
  <2> QED
    BY <2>2, <2>3 DEF Sound
<1>4. ASSUME <<o, s>> \in Offer("issue", {"draft"}) PROVE Sound(o, s)
  <2>1. Transit("issue", {"draft"}, {"issued"}) \subseteq Accepted
    BY <1>1 DEF OrderMoves
  <2>2. \A x \in {"draft"} : Accepts("issue", x)
    BY <2>1, AcceptedOf
  <2>3. o = "issue" /\ s \in {"draft"}
    BY <1>4, OfferedOf
  <2> QED
    BY <2>2, <2>3 DEF Sound
<1>5. ASSUME <<o, s>> \in Offer("receive", {"issued", "partially_received"})
      PROVE Sound(o, s)
  <2>1. Transit("receive", {"issued", "partially_received"},
        {"partially_received", "received"}) \subseteq Accepted
    BY <1>1 DEF OrderMoves
  <2>2. \A x \in {"issued", "partially_received"} : Accepts("receive", x)
    BY <2>1, AcceptedOf
  <2>3. o = "receive" /\ s \in {"issued", "partially_received"}
    BY <1>5, OfferedOf
  <2> QED
    BY <2>2, <2>3 DEF Sound
<1>6. ASSUME <<o, s>> \in Offer("close", {"received"}) PROVE Sound(o, s)
  <2>1. Transit("close", {"received"}, {"closed"}) \subseteq Accepted
    BY <1>1 DEF OrderMoves
  <2>2. \A x \in {"received"} : Accepts("close", x)
    BY <2>1, AcceptedOf
  <2>3. o = "close" /\ s \in {"received"}
    BY <1>6, OfferedOf
  <2> QED
    BY <2>2, <2>3 DEF Sound
<1> QED
  BY <1>2, <1>3, <1>4, <1>5, <1>6
     DEF Offered, OrderComposer, OrderButtons

LEMMA AccrualButtonsAccepted ==
  ASSUME kind = "accruals", NEW o, NEW s, <<o, s>> \in Offered
  PROVE  Sound(o, s)
<1>1. (AccrualMoves) \subseteq Accepted
  BY DEF Accepted
<1>2. ASSUME <<o, s>> \in Offer("generate", {"absent", "draft"}) PROVE
      Sound(o, s)
  <2>1. Transit("generate", {"absent", "draft"}, {"draft"}) \subseteq Accepted
    BY <1>1 DEF AccrualMoves
  <2>2. \A x \in {"absent", "draft"} : Accepts("generate", x)
    BY <2>1, AcceptedOf
  <2>3. o = "generate" /\ s \in {"absent", "draft"}
    BY <1>2, OfferedOf
  <2> QED
    BY <2>2, <2>3 DEF Sound
<1>3. ASSUME <<o, s>> \in Offer("send", {"draft"}) PROVE Sound(o, s)
  <2>1. Transit("send", {"draft"}, {"in_approval"}) \subseteq Accepted
    BY <1>1 DEF AccrualMoves
  <2>2. \A x \in {"draft"} : Accepts("send", x)
    BY <2>1, AcceptedOf
  <2>3. o = "send" /\ s \in {"draft"}
    BY <1>3, OfferedOf
  <2> QED
    BY <2>2, <2>3 DEF Sound
<1>4. ASSUME <<o, s>> \in Offer("advance", {"in_approval"}) PROVE Sound(o, s)
  <2>1. Transit("advance", {"in_approval"}, {"in_approval", "approved"})
        \subseteq Accepted
    BY <1>1 DEF AccrualMoves
  <2>2. \A x \in {"in_approval"} : Accepts("advance", x)
    BY <2>1, AcceptedOf
  <2>3. o = "advance" /\ s \in {"in_approval"}
    BY <1>4, OfferedOf
  <2> QED
    BY <2>2, <2>3 DEF Sound
<1>5. ASSUME <<o, s>> \in Offer("post", {"approved"}) PROVE Sound(o, s)
  <2>1. Transit("post", {"approved"}, {"posted"}) \subseteq Accepted
    BY <1>1 DEF AccrualMoves
  <2>2. \A x \in {"approved"} : Accepts("post", x)
    BY <2>1, AcceptedOf
  <2>3. o = "post" /\ s \in {"approved"}
    BY <1>5, OfferedOf
  <2> QED
    BY <2>2, <2>3 DEF Sound
<1> QED
  BY <1>2, <1>3, <1>4, <1>5
     DEF Offered, AccrualButtons

LEMMA ContractButtonsAccepted ==
  ASSUME kind \in {"contracts", "contract"}, NEW o, NEW s, <<o, s>> \in Offered
  PROVE  Sound(o, s)
<1>1. (AgreementMoves \union AgreementApproval \union AgreementSignature
      \union AgreementUpdate \union AgreementAmendment) \subseteq Accepted
  BY DEF Accepted
<1>2. ASSUME <<o, s>> \in Offer("create", {"absent"}) PROVE Sound(o, s)
  <2>1. Transit("create", {"absent"}, {"draft"}) \subseteq Accepted
    BY <1>1 DEF AgreementMoves
  <2>2. \A x \in {"absent"} : Accepts("create", x)
    BY <2>1, AcceptedOf
  <2>3. o = "create" /\ s \in {"absent"}
    BY <1>2, OfferedOf
  <2> QED
    BY <2>2, <2>3 DEF Sound
<1>3. ASSUME <<o, s>> \in Offer("send", {"draft"}) PROVE Sound(o, s)
  <2>1. Transit("send", {"draft"}, {"in_approval"}) \subseteq Accepted
    BY <1>1 DEF AgreementApproval
  <2>2. \A x \in {"draft"} : Accepts("send", x)
    BY <2>1, AcceptedOf
  <2>3. o = "send" /\ s \in {"draft"}
    BY <1>3, OfferedOf
  <2> QED
    BY <2>2, <2>3 DEF Sound
<1>4. ASSUME <<o, s>> \in Offer("advance", {"in_approval"}) PROVE Sound(o, s)
  <2>1. Transit("advance", {"in_approval"}, {"in_approval", "unsent"})
        \subseteq Accepted
    BY <1>1 DEF AgreementApproval
  <2>2. \A x \in {"in_approval"} : Accepts("advance", x)
    BY <2>1, AcceptedOf
  <2>3. o = "advance" /\ s \in {"in_approval"}
    BY <1>4, OfferedOf
  <2> QED
    BY <2>2, <2>3 DEF Sound
<1>5. ASSUME <<o, s>> \in Offer("sendOut", {"unsent"}) PROVE Sound(o, s)
  <2>1. Transit("sendOut", {"unsent", "sent"}, {"sent"}) \subseteq Accepted
    BY <1>1 DEF AgreementSignature
  <2>2. \A x \in {"unsent", "sent"} : Accepts("sendOut", x)
    BY <2>1, AcceptedOf
  <2>3. o = "sendOut" /\ s \in {"unsent"}
    BY <1>5, OfferedOf
  <2> QED
    BY <2>2, <2>3 DEF Sound
<1>6. ASSUME <<o, s>> \in Offer("check", {"sent"}) PROVE Sound(o, s)
  <2>1. Transit("check", {"sent"}, {"sent", "signed"}) \subseteq Accepted
    BY <1>1 DEF AgreementSignature
  <2>2. \A x \in {"sent"} : Accepts("check", x)
    BY <2>1, AcceptedOf
  <2>3. o = "check" /\ s \in {"sent"}
    BY <1>6, OfferedOf
  <2> QED
    BY <2>2, <2>3 DEF Sound
<1>7. ASSUME <<o, s>> \in Offer("complete", {"signed"}) PROVE Sound(o, s)
  <2>1. Transit("complete", {"signed"}, {"active"}) \subseteq Accepted
    BY <1>1 DEF AgreementSignature
  <2>2. \A x \in {"signed"} : Accepts("complete", x)
    BY <2>1, AcceptedOf
  <2>3. o = "complete" /\ s \in {"signed"}
    BY <1>7, OfferedOf
  <2> QED
    BY <2>2, <2>3 DEF Sound
<1>8. ASSUME <<o, s>> \in Offer("cancel", {"draft", "in_approval", "unsent",
      "sent", "signed", "active"}) PROVE Sound(o, s)
  <2>1. Transit("cancel", {"draft", "in_approval", "unsent", "sent", "signed",
        "active"}, {"cancelled"}) \subseteq Accepted
    BY <1>1 DEF AgreementMoves
  <2>2. \A x \in {"draft", "in_approval", "unsent", "sent", "signed",
        "active"} : Accepts("cancel", x)
    BY <2>1, AcceptedOf
  <2>3. o = "cancel" /\ s \in {"draft", "in_approval", "unsent", "sent", "signed", "active"}
    BY <1>8, OfferedOf
  <2> QED
    BY <2>2, <2>3 DEF Sound
<1>9. ASSUME <<o, s>> \in Offer("back", {"in_approval"}) PROVE Sound(o, s)
  <2>1. Transit("back", {"in_approval"}, {"draft"}) \subseteq Accepted
    BY <1>1 DEF AgreementMoves
  <2>2. \A x \in {"in_approval"} : Accepts("back", x)
    BY <2>1, AcceptedOf
  <2>3. o = "back" /\ s \in {"in_approval"}
    BY <1>9, OfferedOf
  <2> QED
    BY <2>2, <2>3 DEF Sound
<1>10. ASSUME <<o, s>> \in Offer("expire", {"active"}) PROVE Sound(o, s)
  <2>1. Transit("expire", {"active"}, {"expired"}) \subseteq Accepted
    BY <1>1 DEF AgreementMoves
  <2>2. \A x \in {"active"} : Accepts("expire", x)
    BY <2>1, AcceptedOf
  <2>3. o = "expire" /\ s \in {"active"}
    BY <1>10, OfferedOf
  <2> QED
    BY <2>2, <2>3 DEF Sound
<1>11. ASSUME <<o, s>> \in Offer("edit", {"draft", "in_approval", "active"})
      PROVE Sound(o, s)
  <2>1. /\ Transit("edit", {"draft"}, {"draft"}) \subseteq Accepted
        /\ Transit("edit", {"active"}, {"active"}) \subseteq Accepted
    BY <1>1 DEF AgreementUpdate
  <2>2. \A x \in {"draft"} : Accepts("edit", x)
    BY <2>1, AcceptedOf
  <2>3. \A x \in {"active"} : Accepts("edit", x)
    BY <2>1, AcceptedOf
  <2>4. o = "edit" /\ s \in {"draft", "in_approval", "active"}
    BY <1>11, OfferedOf
  <2> QED
    BY <2>2, <2>3, <2>4 DEF Sound
<1>12. ASSUME <<o, s>> \in Offer("renew", {"active"}) PROVE Sound(o, s)
  <2>1. Transit("renew", {"active"}, {"active"}) \subseteq Accepted
    BY <1>1 DEF AgreementAmendment
  <2>2. \A x \in {"active"} : Accepts("renew", x)
    BY <2>1, AcceptedOf
  <2>3. o = "renew" /\ s \in {"active"}
    BY <1>12, OfferedOf
  <2> QED
    BY <2>2, <2>3 DEF Sound
<1> QED
  BY <1>2, <1>3, <1>4, <1>5, <1>6, <1>7, <1>8, <1>9, <1>10, <1>11, <1>12
     DEF Offered, ContractComposer, ContractButtons, SignatureButtons,
         WorkspaceButtons, WorkspaceEdits

LEMMA ButtonsAreSound ==
  ASSUME kind \in Kinds, NEW o, NEW s, <<o, s>> \in Offered
  PROVE  Sound(o, s)
BY RequestButtonsAccepted, OrderButtonsAccepted, AccrualButtonsAccepted,
   ContractButtonsAccepted DEF Kinds

-----------------------------------------------------------------------------
(* The invariant *)

DocLists == [Docs -> Document]

CallSteps == {"idle", "list", "rows", "serve", "done", "error", "sides"}

CallNames == {m[1] : m \in Rule} \union {"list", "edit", "amend"}

PageCalls ==
  [then : CallSteps,
   op : CallNames, doc : Docs \union {Nobody}, sent : Docs \union {Nobody},
   theirs : Nat, got : DocLists \union {Nobody}, gone : BOOLEAN]

HasList(q) == q.then \in {"rows", "done"} => q.got \in DocLists
Addressed(q) == q.then = "serve" => q.doc \in Docs

ProcureTypes ==
  /\ kind \in Kinds
  /\ docs \in DocLists /\ rows \in DocLists \union {Nobody}
  /\ editing \in Docs \union {Nobody} /\ held \in Docs \union {Nobody}
  /\ editing # Nobody => rows # Nobody
  /\ busy \in BOOLEAN
  /\ troubled \in BOOLEAN
  /\ switched \in BOOLEAN
  /\ call \in [Calls -> PageCalls]
  /\ \A c \in Calls : HasList(call[c]) /\ Addressed(call[c])

(* A list is of a state the documents have been in.                        *)
Seen(r) ==
  \A d \in Docs :
    /\ r[d].mine <= docs[d].mine /\ r[d].theirs <= docs[d].theirs
    /\ r[d].mine = docs[d].mine /\ r[d].theirs = docs[d].theirs =>
         r[d].status = docs[d].status

CallSeen(q) ==
  /\ q.then \in {"rows", "done"} => Seen(q.got)
  /\ q.then = "serve" => q.theirs <= docs[q.doc].theirs

AllSeen == (rows # Nobody => Seen(rows)) /\ \A c \in Calls : CallSeen(call[c])

(* What is shown and what is sent is what the documents themselves say.    *)
OwnList(r) == \A d \in Docs : r[d].says = d

CallOwn(q) ==
  /\ q.then \in {"rows", "done"} => OwnList(q.got)
  /\ q.then = "serve" /\ q.op \in Saves => q.sent = q.doc

FormOwn ==
  /\ held = editing
  /\ rows # Nobody => OwnList(rows)

AllOwn == OwnList(docs) /\ FormOwn /\ \A c \in Calls : CallOwn(call[c])

(* Nothing the user did himself is missing from a list.                    *)
Current(r) == \A d \in Docs : r[d].mine = docs[d].mine

IsDeed(q) == q.op # "list"
WasDone(q) == IsDeed(q) /\ q.then \in {"done", "list", "rows"}

CallSmooth(q) ==
  /\ IsDeed(q) => ~q.gone /\ rows # Nobody /\ (Guarded(q) => busy)
  /\ IsDeed(q) /\ q.then \in {"rows", "done"} => Current(q.got)
  /\ rows = Nobody /\ q.then = "rows" /\ ~q.gone => Current(q.got)
  /\ q.then \in {"serve", "done"} => IsDeed(q)
  /\ q.then = "serve" /\ q.op # "edit" /\ q.theirs = docs[q.doc].theirs =>
       Accepts(q.op, docs[q.doc].status)

OneActs ==
  \A c, x \in Calls : IsDeed(call[c]) /\ IsDeed(call[x]) => c = x

RowsCurrent ==
  rows # Nobody => Current(rows) \/ \E c \in Calls : WasDone(call[c])

Borne == \A b \in vain : Bearable(b[1], b[2])

Smooth ==
  Borne /\ OneActs /\ RowsCurrent /\ \A c \in Calls : CallSmooth(call[c])

ProcureInv ==
  ProcureTypes /\ AllSeen /\ (~switched => AllOwn) /\ (~troubled => Smooth)

LEMMA NoCallIsTyped ==
  /\ NoCall \in PageCalls
  /\ NoCall.then = "idle" /\ NoCall.op = "list" /\ NoCall.gone = FALSE
BY DEF NoCall, PageCalls, CallSteps, CallNames

(* One field of a call is set.                                             *)
Same(q, p) ==
  q.op = p.op /\ q.doc = p.doc /\ q.sent = p.sent /\ q.theirs = p.theirs

LEMMA ThenIs ==
  ASSUME NEW p \in PageCalls, NEW x \in CallSteps, NEW q, q = [p EXCEPT !.then = x]
  PROVE  /\ q \in PageCalls /\ q.then = x /\ Same(q, p)
         /\ q.got = p.got /\ q.gone = p.gone
<1>1. q \in PageCalls
  BY DEF PageCalls
<1> QED
  BY <1>1 DEF PageCalls, Same

LEMMA GotListIs ==
  ASSUME NEW p \in PageCalls, NEW x \in DocLists, NEW q, q = [p EXCEPT !.got = x]
  PROVE  /\ q \in PageCalls /\ q.then = p.then /\ Same(q, p)
         /\ q.got = x /\ q.gone = p.gone
<1>1. q \in PageCalls
  BY DEF PageCalls
<1> QED
  BY <1>1 DEF PageCalls, Same

LEMMA GoneIs ==
  ASSUME NEW p \in PageCalls, NEW q, q = [p EXCEPT !.gone = TRUE]
  PROVE  /\ q \in PageCalls /\ q.then = p.then /\ Same(q, p)
         /\ q.got = p.got /\ q.gone = TRUE
<1>1. q \in PageCalls
  BY DEF PageCalls
<1> QED
  BY <1>1 DEF PageCalls, Same

Started(op, d, sent, n) ==
  [NoCall EXCEPT !.then = "serve", !.op = op, !.doc = d, !.sent = sent,
                 !.theirs = n]

CallIs(q, op, d, sent, n) ==
  /\ q \in PageCalls /\ q.then = "serve" /\ q.op = op /\ q.doc = d
  /\ q.sent = sent /\ q.theirs = n /\ q.gone = FALSE

LEMMA StartedIs ==
  \A op \in CallNames, d \in Docs, sent \in Docs \union {Nobody}, n \in Nat :
    CallIs(Started(op, d, sent, n), op, d, sent, n)
<1> TAKE op \in CallNames, d \in Docs, sent \in Docs \union {Nobody}, n \in Nat
<1> PICK q : q = Started(op, d, sent, n)
  OBVIOUS
<1>1. PICK p1 : p1 = [NoCall EXCEPT !.then = "serve"]
  OBVIOUS
<1>2. p1 \in PageCalls /\ p1.then = "serve" /\ p1.gone = FALSE
  BY <1>1, NoCallIsTyped, ThenIs DEF CallSteps
<1>3. PICK p2 : p2 = [p1 EXCEPT !.op = op]
  OBVIOUS
<1>4. p2 \in PageCalls /\ p2.then = "serve" /\ p2.gone = FALSE /\ p2.op = op
  <2>1. p2 \in PageCalls
    BY <1>2, <1>3 DEF PageCalls
  <2> QED
    BY <1>2, <1>3, <2>1 DEF PageCalls
<1>5. PICK p3 : p3 = [p2 EXCEPT !.doc = d]
  OBVIOUS
<1>6. /\ p3 \in PageCalls /\ p3.then = "serve" /\ p3.gone = FALSE /\ p3.op = op
      /\ p3.doc = d
  <2>1. p3 \in PageCalls
    BY <1>4, <1>5 DEF PageCalls
  <2> QED
    BY <1>4, <1>5, <2>1 DEF PageCalls
<1>7. PICK p4 : p4 = [p3 EXCEPT !.sent = sent]
  OBVIOUS
<1>8. /\ p4 \in PageCalls /\ p4.then = "serve" /\ p4.gone = FALSE /\ p4.op = op
      /\ p4.doc = d /\ p4.sent = sent
  <2>1. p4 \in PageCalls
    BY <1>6, <1>7 DEF PageCalls
  <2> QED
    BY <1>6, <1>7, <2>1 DEF PageCalls
<1>9. q = [p4 EXCEPT !.theirs = n]
  BY <1>1, <1>3, <1>5, <1>7 DEF Started
<1>10. q \in PageCalls
  BY <1>8, <1>9 DEF PageCalls
<1> QED
  BY <1>8, <1>9, <1>10 DEF PageCalls, CallIs

-----------------------------------------------------------------------------
(* What holds of every step *)

LEMMA AcceptedIsRule == Accepted \subseteq Rule
BY DEF Accepted, Rule

(* The calls after call c became q.                                        *)
LEMMA CallMoves ==
  ASSUME ProcureTypes, NEW c \in Calls, NEW q \in PageCalls,
         call' = [call EXCEPT ![c] = q]
  PROVE  /\ call' \in [Calls -> PageCalls]
         /\ call'[c] = q
         /\ \A x \in Calls \ {c} : call'[x] = call[x]
BY DEF ProcureTypes

RowTypes ==
  /\ rows \in DocLists \union {Nobody}
  /\ editing \in Docs \union {Nobody} /\ held \in Docs \union {Nobody}
  /\ editing # Nobody => rows # Nobody
  /\ busy \in BOOLEAN
  /\ troubled \in BOOLEAN
  /\ switched \in BOOLEAN

(* A step that moves one call and no document.                             *)
CallSet(c, q) ==
  /\ call' = [call EXCEPT ![c] = q] /\ HasList(q) /\ Addressed(q)
  /\ kind' = kind /\ docs' = docs

LEMMA TypesStay ==
  ASSUME ProcureTypes, NEW c \in Calls, NEW q \in PageCalls, CallSet(c, q),
         RowTypes'
  PROVE  ProcureTypes'
<1>1. \A x \in Calls : HasList(call'[x]) /\ Addressed(call'[x])
  BY CallMoves DEF CallSet, ProcureTypes
<1>2. \A x \in Calls : (HasList(call[x]) /\ Addressed(call[x]))'
  BY <1>1 DEF HasList, Addressed
<1> QED
  BY <1>2, CallMoves DEF CallSet, ProcureTypes, RowTypes

LEMMA SeenStays ==
  ASSUME ProcureTypes, AllSeen, NEW c \in Calls, NEW q \in PageCalls,
         CallSet(c, q), CallSeen(q), rows' # Nobody => Seen(rows')
  PROVE  AllSeen'
<1>1. \A x \in Calls : CallSeen(call'[x])
  BY CallMoves DEF CallSet, AllSeen
<1>2. \A x \in Calls : CallSeen(call[x])'
  BY <1>1 DEF CallSeen, Seen, CallSet
<1>3. (rows # Nobody => Seen(rows))'
  BY DEF Seen, CallSet
<1> QED
  BY <1>2, <1>3 DEF AllSeen

LEMMA OwnStays ==
  ASSUME ProcureTypes, AllOwn, NEW c \in Calls, NEW q \in PageCalls,
         CallSet(c, q), CallOwn(q), FormOwn'
  PROVE  AllOwn'
<1>1. \A x \in Calls : CallOwn(call'[x])
  BY CallMoves DEF CallSet, AllOwn
<1>2. \A x \in Calls : CallOwn(call[x])'
  BY <1>1 DEF CallOwn, OwnList
<1>3. OwnList(docs)'
  BY DEF CallSet, AllOwn, OwnList
<1> QED
  BY <1>2, <1>3 DEF AllOwn

(* The button of a call that keeps the page busy is not let go by another. *)
OthersStay(c) ==
  /\ rows' = Nobody => rows = Nobody
  /\ \A x \in Calls \ {c} : IsDeed(call[x]) /\ Guarded(call[x]) /\ busy => busy'

LEMMA BorneStays ==
  ASSUME Smooth, vain' = vain, kind' = kind
  PROVE  Borne'
<1>1. Offered' = Offered
  BY DEF Offered
<1> QED
  BY <1>1 DEF Smooth, Borne, Bearable

LEMMA SmoothStays ==
  ASSUME ProcureTypes, Smooth, NEW c \in Calls, NEW q \in PageCalls,
         CallSet(c, q), OthersStay(c), Borne',
         \A x \in Calls \ {c} : IsDeed(q) => ~IsDeed(call[x]),
         RowsCurrent', CallSmooth(q)'
  PROVE  Smooth'
<1>1. \A x \in Calls \ {c} : CallSmooth(call[x])
  BY DEF Smooth
<1>2. \A x \in Calls \ {c} : call'[x] = call[x]
  BY CallMoves DEF CallSet
<1>4. Accepted' = Accepted
  BY DEF Accepted, CallSet
<1>5. \A op, s : Accepts(op, s)' <=> Accepts(op, s)
  BY <1>4 DEF Accepts
<1>6. \A x \in Calls \ {c} : CallSmooth(call[x])'
  <2> SUFFICES ASSUME NEW x \in Calls \ {c} PROVE CallSmooth(call[x])'
    OBVIOUS
  <2> PICK p : p = call[x]
    OBVIOUS
  <2>1. CallSmooth(p) /\ call'[x] = p
    BY <1>1, <1>2
  <2>2. Guarded(p)' <=> Guarded(p)
    BY DEF Guarded, Workspace, CallSet
  <2>3. IsDeed(p)' <=> IsDeed(p)
    BY DEF IsDeed
  <2>4. Current(p.got)' <=> Current(p.got)
    BY DEF Current, CallSet
  <2>5. CallSmooth(p)'
    <3>1. (IsDeed(p) => ~p.gone /\ rows # Nobody /\ (Guarded(p) => busy))'
      BY <2>1, <2>2, <2>3 DEF CallSmooth, OthersStay
    <3>2. (p.then = "serve" /\ p.op # "edit"
             /\ p.theirs = docs[p.doc].theirs
             => Accepts(p.op, docs[p.doc].status))'
      BY <2>1, <1>5 DEF CallSmooth, CallSet
    <3>3. /\ (IsDeed(p) /\ p.then \in {"rows", "done"} => Current(p.got))'
          /\ (rows = Nobody /\ p.then = "rows" /\ ~p.gone => Current(p.got))'
          /\ (p.then \in {"serve", "done"} => IsDeed(p))'
      BY <2>1, <2>3, <2>4 DEF CallSmooth, OthersStay
    <3> QED
      BY <3>1, <3>2, <3>3 DEF CallSmooth
  <2> QED
    BY <2>5, <2>1
<1>7. \A x \in Calls : CallSmooth(call[x])'
  BY <1>6, CallMoves DEF CallSet
<1>8. OneActs'
  <2>1. \A x, y \in Calls : IsDeed(call'[x]) /\ IsDeed(call'[y]) => x = y
    <3>1. call'[c] = q
      BY CallMoves DEF CallSet
    <3> QED
      BY <1>2, <3>1 DEF Smooth, OneActs
  <2> QED
    BY <2>1 DEF OneActs, IsDeed
<1> QED
  BY <1>7, <1>8 DEF Smooth

(* Rows that stay are as current as they were.                             *)
LEMMA RowsStayCurrent ==
  ASSUME ProcureTypes, RowsCurrent, NEW c \in Calls, NEW q \in PageCalls,
         CallSet(c, q), rows' = rows, WasDone(call[c]) => WasDone(q)
  PROVE  RowsCurrent'
<1>1. \A x \in Calls : WasDone(call[x]) => WasDone(call'[x])
  BY CallMoves DEF CallSet
<1>2. rows # Nobody /\ Current(rows) => Current(rows)'
  BY DEF Current, CallSet
<1>3. \A x \in Calls : WasDone(call[x]) => WasDone(call[x])'
  BY <1>1 DEF WasDone, IsDeed
<1> QED
  BY <1>2, <1>3 DEF RowsCurrent

(* The whole invariant, of a step that moves one call and no document.     *)
LEMMA OneMoves ==
  ASSUME ProcureInv, NEW c \in Calls, NEW q \in PageCalls, CallSet(c, q),
         RowTypes', CallSeen(q), rows' # Nobody => Seen(rows'),
         ~switched' => ~switched /\ (AllOwn => CallOwn(q) /\ FormOwn'),
         ~troubled' => ~troubled /\ (Smooth => Smooth')
  PROVE  ProcureInv'
<1>1. ProcureTypes' /\ AllSeen'
  BY TypesStay, SeenStays DEF ProcureInv
<1>2. (~switched => AllOwn)'
  BY OwnStays DEF ProcureInv
<1>3. (~troubled => Smooth)'
  BY DEF ProcureInv
<1> QED
  BY <1>1, <1>2, <1>3 DEF ProcureInv

(* A step at the form alone.                                               *)
LEMMA FormMoves ==
  ASSUME ProcureInv, RowTypes', UNCHANGED <<kind, docs, rows, call>>,
         busy' = busy, vain' = vain, troubled' = troubled,
         ~switched' => ~switched /\ (AllOwn => FormOwn')
  PROVE  ProcureInv'
<1>1. ProcureTypes'
  BY DEF ProcureInv, ProcureTypes, RowTypes, HasList, Addressed
<1>2. AllSeen'
  BY DEF ProcureInv, AllSeen, CallSeen, Seen
<1>3. (~switched => AllOwn)'
  BY DEF ProcureInv, AllOwn, CallOwn, OwnList
<1>4. (~troubled => Smooth)'
  BY BorneStays DEF ProcureInv, Smooth, OneActs, RowsCurrent, CallSmooth, IsDeed, WasDone,
     Current, Guarded, Workspace, Accepts, Accepted
<1> QED
  BY <1>1, <1>2, <1>3, <1>4 DEF ProcureInv

-----------------------------------------------------------------------------
(* One step of each kind *)

LEMMA ProcureBegins == ProcureInit => ProcureInv
<1> SUFFICES ASSUME ProcureInit PROVE ProcureInv
  OBVIOUS
<1>1. PICK c \in Calls :
        call = [[x \in Calls |-> NoCall] EXCEPT ![c].then = "list"]
  BY DEF ProcureInit
<1>2. PICK q : q = [NoCall EXCEPT !.then = "list"]
  OBVIOUS
<1>3. /\ q \in PageCalls /\ q.then = "list" /\ q.op = "list"
  BY <1>2, NoCallIsTyped, ThenIs DEF CallSteps, Same
<1>4. /\ call \in [Calls -> PageCalls]
      /\ \A x \in Calls : call[x].op = "list" /\ call[x].then \in {"idle", "list"}
  BY <1>1, <1>2, <1>3, NoCallIsTyped
<1>5. docs \in DocLists /\ OwnList(docs)
  <2>1. PICK status \in [Docs -> Statuses] : docs = [d \in Docs |-> Doc(d, status[d])]
    BY DEF ProcureInit
  <2>2. \A d \in Docs : Doc(d, status[d]) \in Document
    <3>1. \A d \in Docs : status[d] \in {m[2] : m \in Rule} \union {m[3] : m \in Rule}
      BY <2>1, AcceptedIsRule DEF Statuses
    <3> QED
      BY <3>1 DEF Doc, Document
  <2>3. \A d \in Docs : Doc(d, status[d]).says = d
    BY DEF Doc
  <2> QED
    BY <2>1, <2>2, <2>3 DEF DocLists, OwnList
<1>6. ProcureTypes
  BY <1>4, <1>5 DEF ProcureInit, ProcureTypes, HasList, Addressed
<1>7. AllSeen
  BY <1>4 DEF ProcureInit, AllSeen, CallSeen
<1>8. AllOwn
  BY <1>4, <1>5 DEF ProcureInit, AllOwn, CallOwn, FormOwn
<1>9. Smooth
  BY <1>4 DEF ProcureInit, Smooth, Borne, OneActs, RowsCurrent, CallSmooth, IsDeed
<1> QED
  BY <1>6, <1>7, <1>8, <1>9 DEF ProcureInv

LEMMA FreeIsIdle ==
  ASSUME NEW c \in Calls, Free(c)
  PROVE  /\ call[c] = NoCall /\ ~IsDeed(call[c]) /\ ~WasDone(call[c])
BY NoCallIsTyped DEF Free, IsDeed, WasDone

LEMMA RefreshStep ==
  ASSUME ProcureInv, NEW c \in Calls, Refresh(c)
  PROVE  ProcureInv'
<1>1. PICK q : q = [NoCall EXCEPT !.then = "list"]
  OBVIOUS
<1>2. /\ q \in PageCalls /\ q.then = "list" /\ q.op = "list" /\ ~IsDeed(q)
  BY <1>1, NoCallIsTyped, ThenIs DEF CallSteps, Same, IsDeed
<1>3. CallSet(c, q)
  BY <1>1, <1>2, FreeIsIdle DEF Refresh, CallSet, HasList, Addressed
<1>4. RowTypes'
  BY DEF ProcureInv, ProcureTypes, RowTypes, Refresh
<1>5. CallSeen(q) /\ (rows' # Nobody => Seen(rows'))
  BY <1>2 DEF ProcureInv, AllSeen, CallSeen, Refresh
<1>6. AllOwn => CallOwn(q) /\ FormOwn'
  BY <1>2 DEF AllOwn, CallOwn, FormOwn, Refresh, OwnList
<1>7. Smooth => Smooth'
  <2> SUFFICES ASSUME Smooth PROVE Smooth'
    OBVIOUS
  <2>1. RowsCurrent'
    BY <1>2, <1>3, FreeIsIdle, RowsStayCurrent
      DEF ProcureInv, Smooth, Refresh
  <2>2. OthersStay(c) /\ Borne'
    BY BorneStays DEF OthersStay, Refresh
  <2>3. CallSmooth(q)'
    BY <1>2 DEF CallSmooth, IsDeed
  <2> QED
    BY <1>2, <1>3, <2>1, <2>2, <2>3, SmoothStays DEF ProcureInv
<1> QED
  BY <1>2, <1>3, <1>4, <1>5, <1>6, <1>7, OneMoves DEF Refresh

LEMMA RunStep ==
  ASSUME ProcureInv, NEW c \in Calls, NEW op \in CallNames, NEW d \in Docs,
         NEW sent \in Docs \union {Nobody}, Run(c, op, d, sent),
         switched' \in BOOLEAN,
         ~switched' => ~switched /\ (AllOwn /\ op \in Saves => sent = d),
         op # "list", busy => Workspace /\ op \in Unguarded,
         op # "edit" => Accepts(op, rows[d].status)
  PROVE  ProcureInv'
<1>1. PICK q : q = Started(op, d, sent, rows[d].theirs)
  OBVIOUS
<1>2. rows \in DocLists /\ Seen(rows) /\ rows[d] \in Document
  BY DEF Run, ProcureInv, ProcureTypes, AllSeen, DocLists
<1>3. /\ q \in PageCalls /\ q.then = "serve" /\ q.op = op /\ q.doc = d
      /\ q.sent = sent /\ q.theirs = rows[d].theirs /\ q.gone = FALSE
  <2>1. rows[d].theirs \in Nat
    BY <1>2 DEF Document
  <2> QED
    BY <1>1, <2>1, StartedIs DEF CallIs
<1>4. CallSet(c, q)
  BY <1>1, <1>3 DEF Started, Run, CallSet, HasList, Addressed
<1>5. RowTypes'
  BY DEF ProcureInv, ProcureTypes, RowTypes, Run
<1>6. CallSeen(q) /\ (rows' # Nobody => Seen(rows'))
  BY <1>2, <1>3 DEF CallSeen, Seen, Run
<1>7. ~switched' => ~switched /\ (AllOwn => CallOwn(q) /\ FormOwn')
  <2>1. AllOwn => FormOwn'
    BY DEF AllOwn, FormOwn, OwnList, Run
  <2> QED
    BY <1>3, <2>1 DEF CallOwn
<1>8. ~troubled' => ~troubled /\ (Smooth => Smooth')
  <2> SUFFICES ASSUME ~troubled', Smooth PROVE ~troubled /\ Smooth'
    BY DEF Run
  <2>0. ~troubled
    BY DEF Run
  <2>1. \A x \in Calls : IsDeed(call[x]) => Guarded(q) /\ Guarded(call[x])
    BY <1>1 DEF Started, Run, IsDeed
  <2>2. \A x \in Calls : ~IsDeed(call[x])
    <3>1. busy => ~Guarded(q)
      BY <1>3 DEF Guarded
    <3> QED
      BY <2>1, <3>1 DEF Smooth, CallSmooth
  <2>3. RowsCurrent'
    BY <1>3, <1>4, FreeIsIdle, RowsStayCurrent DEF Run, ProcureInv, Smooth
  <2>4. OthersStay(c) /\ Borne'
    BY <2>2, BorneStays DEF OthersStay, Run
  <2>5. Current(rows)
    BY <2>2 DEF Smooth, RowsCurrent, WasDone, Run
  <2>6. Accepted' = Accepted
    BY DEF Accepted, Run
  <2>7. op # "edit" /\ rows[d].theirs = docs[d].theirs =>
          Accepts(op, docs[d].status)
    BY <1>2, <2>5 DEF Seen, Current
  <2>8. CallSmooth(q)'
    <3>1. (q.then = "serve" /\ q.op # "edit"
             /\ q.theirs = docs[q.doc].theirs
             => Accepts(q.op, docs[q.doc].status))'
      BY <1>3, <2>6, <2>7 DEF Accepts, Run
    <3>2. (IsDeed(q) => ~q.gone /\ rows # Nobody /\ (Guarded(q) => busy))'
      BY <1>1, <1>3 DEF Started, Run, Guarded, Workspace
    <3> QED
      BY <1>3, <3>1, <3>2 DEF CallSmooth, IsDeed
  <2> QED
    BY <2>0, <1>3, <1>4, <2>2, <2>3, <2>4, <2>8, SmoothStays DEF ProcureInv
<1> QED
  BY <1>3, <1>4, <1>5, <1>6, <1>7, <1>8, OneMoves

LEMMA PressButtonStep ==
  ASSUME ProcureInv, NEW c \in Calls, NEW d \in Docs, NEW op \in Buttons,
         PressButton(c, d, op)
  PROVE  ProcureInv'
<1>1. Sound(op, rows[d].status)
  BY ButtonsAreSound DEF PressButton, OffersRow, ProcureInv, ProcureTypes
<1>2. op \in CallNames
  BY AcceptedIsRule DEF Buttons, CallNames
<1>3. switched' \in BOOLEAN
  BY DEF PressButton, ProcureInv, ProcureTypes
<1> QED
  BY <1>1, <1>2, <1>3, RunStep DEF PressButton, Sound

LEMMA OnUpdateStep ==
  ASSUME ProcureInv, NEW c \in Calls, OnUpdate(c)
  PROVE  ProcureInv'
<1> DEFINE amends == Workspace /\ rows[editing].status = "active"
           bare == Workspace /\ rows[editing].status
                                  \notin {"draft", "in_approval", "active"}
           op == IF amends THEN "amend" ELSE "edit"
           sent == IF bare THEN Nobody ELSE held
<1>1. /\ editing # Nobody /\ ~busy /\ Run(c, op, editing, sent)
      /\ switched' = (switched \/ bare)
  BY DEF OnUpdate
<1>2. editing \in Docs /\ sent \in Docs \union {Nobody}
  BY <1>1 DEF ProcureInv, ProcureTypes
<1>3. /\ op \in CallNames /\ op # "list" /\ op \in Saves
      /\ op # "edit" => Accepts(op, rows[editing].status)
  <2>1. amends => Transit("amend", {"active"}, {"active"}) \subseteq Accepted
    BY DEF Workspace, Accepted, AgreementAmendment
  <2>2. amends => Accepts("amend", rows[editing].status)
    BY <2>1, AcceptedOf
  <2> QED BY <2>2 DEF CallNames, Saves
<1>4. switched' \in BOOLEAN
  BY <1>1 DEF ProcureInv, ProcureTypes
<1>5. ~switched' => ~switched /\ (AllOwn => sent = editing)
  BY <1>1 DEF AllOwn, FormOwn
<1> HIDE DEF op, sent
<1> QED
  BY <1>1, <1>2, <1>3, <1>4, <1>5, RunStep

LEMMA EditStep ==
  ASSUME ProcureInv, NEW d \in Docs, Edit(d)
  PROVE  ProcureInv'
<1>1. rows # Nobody /\ rows \in DocLists /\ rows[d].says \in Docs \union {Nobody}
  BY DEF Edit, OffersRow, ProcureInv, ProcureTypes, DocLists, Document
<1>2. RowTypes'
  BY <1>1 DEF ProcureInv, ProcureTypes, RowTypes, Edit
<1>3. ~switched' => ~switched /\ (AllOwn => FormOwn')
  BY <1>1, DocsAssumption DEF Edit, AllOwn, FormOwn, OwnList
<1> QED
  BY <1>2, <1>3, FormMoves DEF Edit

LEMMA CloseFormStep ==
  ASSUME ProcureInv, CloseForm
  PROVE  ProcureInv'
<1>1. RowTypes'
  BY DEF ProcureInv, ProcureTypes, RowTypes, CloseForm
<1>2. AllOwn => FormOwn'
  BY DEF CloseForm, AllOwn, FormOwn, OwnList
<1> QED
  BY <1>1, <1>2, FormMoves DEF CloseForm

LEMMA SwitchTabStep ==
  ASSUME ProcureInv, SwitchTab
  PROVE  ProcureInv'
<1>1. editing \in Docs /\ rows \in DocLists /\ rows # Nobody
  BY DEF SwitchTab, ProcureInv, ProcureTypes
<1>2. rows[editing].says \in Docs \union {Nobody}
  BY <1>1 DEF DocLists, Document
<1>3. RowTypes'
  BY <1>2 DEF ProcureInv, ProcureTypes, RowTypes, SwitchTab
<1>4. AllOwn => FormOwn'
  BY <1>1 DEF SwitchTab, AllOwn, FormOwn, OwnList
<1> QED
  BY <1>3, <1>4, FormMoves DEF SwitchTab

LEMMA ServeListStep ==
  ASSUME ProcureInv, NEW c \in Calls, ServeList(c)
  PROVE  ProcureInv'
<1>0. docs \in DocLists /\ call[c] \in PageCalls
  BY DEF ProcureInv, ProcureTypes
<1>1. PICK p : p = [call[c] EXCEPT !.then = "rows"]
  OBVIOUS
<1>2. p \in PageCalls /\ p.then = "rows" /\ p.op = call[c].op /\ p.gone = call[c].gone
  BY <1>0, <1>1, ThenIs DEF CallSteps, Same
<1>3. PICK q : q = [p EXCEPT !.got = docs]
  OBVIOUS
<1>4. /\ q \in PageCalls /\ q.then = "rows" /\ q.op = call[c].op
      /\ q.gone = call[c].gone /\ q.got = docs
  BY <1>0, <1>2, <1>3, GotListIs DEF Same
<1>5. CallSet(c, q)
  <2>1. call' = [call EXCEPT ![c] = q]
    BY <1>1, <1>3 DEF ServeList
  <2> QED
    BY <1>0, <1>4, <2>1 DEF ServeList, CallSet, HasList, Addressed
<1>6. RowTypes'
  BY DEF ProcureInv, ProcureTypes, RowTypes, ServeList
<1>7. Seen(docs)
  BY <1>0 DEF Seen, DocLists, Document
<1>8. CallSeen(q) /\ (rows' # Nobody => Seen(rows'))
  BY <1>4, <1>7 DEF ProcureInv, AllSeen, CallSeen, ServeList
<1>9. AllOwn => CallOwn(q) /\ FormOwn'
  BY <1>4 DEF AllOwn, CallOwn, FormOwn, ServeList, OwnList
<1>10. Smooth => Smooth'
  <2> SUFFICES ASSUME Smooth PROVE Smooth'
    OBVIOUS
  <2>1. RowsCurrent'
    <3>1. WasDone(call[c]) => WasDone(q)
      BY <1>4 DEF WasDone, IsDeed
    <3> QED
      BY <1>4, <1>5, <3>1, RowsStayCurrent DEF ProcureInv, Smooth, ServeList
  <2>2. OthersStay(c) /\ Borne'
    BY BorneStays DEF OthersStay, ServeList
  <2>3. CallSmooth(q)'
    <3>1. CallSmooth(call[c])
      BY DEF Smooth
    <3>2. (IsDeed(q) => ~q.gone /\ rows # Nobody /\ (Guarded(q) => busy))'
      BY <1>4, <3>1 DEF CallSmooth, IsDeed, Guarded, Workspace, ServeList
    <3>3. Current(q.got)'
      BY <1>4 DEF Current, ServeList
    <3> QED
      BY <1>4, <3>2, <3>3 DEF CallSmooth
  <2>4. \A x \in Calls \ {c} : IsDeed(q) => ~IsDeed(call[x])
    BY <1>4 DEF Smooth, OneActs, IsDeed
  <2> QED
    BY <1>4, <1>5, <2>1, <2>2, <2>3, <2>4, SmoothStays DEF ProcureInv
<1> QED
  BY <1>4, <1>5, <1>6, <1>8, <1>9, <1>10, OneMoves DEF ServeList

LEMMA RefuseStep ==
  ASSUME ProcureInv, NEW c \in Calls, Refuse(c)
  PROVE  ProcureInv'
<1>0. call[c] \in PageCalls
  BY DEF ProcureInv, ProcureTypes
<1>1. PICK q : q = [call[c] EXCEPT !.then = "error"]
  OBVIOUS
<1>2. /\ q \in PageCalls /\ q.then = "error" /\ q.op = call[c].op
      /\ q.gone = call[c].gone
  BY <1>0, <1>1, ThenIs DEF CallSteps, Same
<1>3. CallSet(c, q)
  BY <1>1, <1>2 DEF Refuse, CallSet, HasList, Addressed
<1>4. RowTypes'
  BY DEF ProcureInv, ProcureTypes, RowTypes, Refuse
<1>5. CallSeen(q) /\ (rows' # Nobody => Seen(rows'))
  BY <1>2 DEF ProcureInv, AllSeen, CallSeen, Refuse
<1>6. AllOwn => CallOwn(q) /\ FormOwn'
  BY <1>2 DEF AllOwn, CallOwn, FormOwn, Refuse, OwnList
<1>7. Smooth => Smooth'
  <2> SUFFICES ASSUME Smooth PROVE Smooth'
    OBVIOUS
  <2>1. CallSmooth(call[c])
    BY DEF Smooth
  <2>2. RowsCurrent'
    <3>1. ~WasDone(call[c])
      BY DEF WasDone, Refuse
    <3> QED
      BY <1>2, <1>3, <3>1, RowsStayCurrent DEF ProcureInv, Smooth, Refuse
  <2>3. Borne'
    <3> PICK op : op = call[c].op
      OBVIOUS
    <3> PICK status : status = docs[call[c].doc].status
      OBVIOUS
    <3>1. ~Accepts(op, status)
      BY DEF Refuse, Accepts
    <3>2. CASE docs[call[c].doc].theirs = call[c].theirs
      <4>1. op = "edit"
        BY <2>1, <3>1, <3>2 DEF CallSmooth, Refuse
      <4>2. <<op, status>> \in Offered => status = "in_approval"
        BY <3>1, ButtonsAreSound DEF Sound, ProcureInv, ProcureTypes
      <4>3. Bearable(op, status)
        BY <4>1, <4>2 DEF Bearable
      <4>4. vain' = vain \union {<<op, status>>}
        BY <3>2 DEF Refuse
      <4>5. \A b \in vain' : Bearable(b[1], b[2])
        BY <4>3, <4>4 DEF Smooth, Borne
      <4>6. Offered' = Offered
        BY DEF Offered, Refuse
      <4> QED BY <4>5, <4>6 DEF Borne, Bearable
    <3>3. CASE docs[call[c].doc].theirs # call[c].theirs
      BY <3>3, BorneStays DEF Refuse
    <3> QED BY <3>2, <3>3
  <2>4. OthersStay(c)
    BY DEF OthersStay, Refuse
  <2>5. CallSmooth(q)'
    BY <1>2, <2>1 DEF CallSmooth, IsDeed, Guarded, Workspace, Refuse
  <2>6. \A x \in Calls \ {c} : IsDeed(q) => ~IsDeed(call[x])
    BY <1>2 DEF Smooth, OneActs, IsDeed
  <2> QED
    BY <1>2, <1>3, <2>2, <2>3, <2>4, <2>5, <2>6, SmoothStays DEF ProcureInv
<1> QED
  BY <1>2, <1>3, <1>4, <1>5, <1>6, <1>7, OneMoves DEF Refuse

LEMMA LoseStep ==
  ASSUME ProcureInv, NEW c \in Calls, Lose(c)
  PROVE  ProcureInv'
<1>0. call[c] \in PageCalls
  BY DEF ProcureInv, ProcureTypes
<1>1. PICK q : q = [call[c] EXCEPT !.then = "error"]
  OBVIOUS
<1>2. /\ q \in PageCalls /\ q.then = "error" /\ q.op = call[c].op
      /\ q.gone = call[c].gone
  BY <1>0, <1>1, ThenIs DEF CallSteps, Same
<1>3. CallSet(c, q)
  BY <1>1, <1>2 DEF Lose, CallSet, HasList, Addressed
<1>4. RowTypes'
  BY DEF ProcureInv, ProcureTypes, RowTypes, Lose
<1>5. CallSeen(q) /\ (rows' # Nobody => Seen(rows'))
  BY <1>2 DEF ProcureInv, AllSeen, CallSeen, Lose
<1>6. AllOwn => CallOwn(q) /\ FormOwn'
  BY <1>2 DEF AllOwn, CallOwn, FormOwn, Lose, OwnList
<1>7. ~troubled' => ~troubled /\ (Smooth => Smooth')
  <2> SUFFICES ASSUME ~troubled', Smooth PROVE ~troubled /\ Smooth'
    BY DEF Lose
  <2>1. ~troubled /\ ~IsDeed(call[c]) /\ ~IsDeed(q)
    BY <1>2 DEF Lose, IsDeed
  <2>2. RowsCurrent'
    <3>1. ~WasDone(call[c])
      BY <2>1 DEF WasDone
    <3> QED
      BY <1>2, <1>3, <3>1, RowsStayCurrent DEF ProcureInv, Smooth, Lose
  <2>3. OthersStay(c) /\ Borne'
    BY BorneStays DEF OthersStay, Lose
  <2>4. CallSmooth(q)'
    BY <1>2, <2>1 DEF CallSmooth, IsDeed
  <2> QED
    BY <1>2, <1>3, <2>1, <2>2, <2>3, <2>4, SmoothStays DEF ProcureInv
<1> QED
  BY <1>2, <1>3, <1>4, <1>5, <1>6, <1>7, OneMoves DEF Lose

(* A list that is not late lacks nothing that the rows before it had.      *)
LEMMA NewRowsAreCurrent ==
  ASSUME ProcureTypes, NEW got \in DocLists, Seen(got),
         rows # Nobody => Current(rows), rows = Nobody => Current(got), ~Late(got)
  PROVE  Current(got)
<1>1. CASE rows # Nobody
  <2> SUFFICES ASSUME NEW d \in Docs PROVE got[d].mine = docs[d].mine
    BY DEF Current
  <2>1. rows \in DocLists /\ docs \in DocLists
    BY <1>1 DEF ProcureTypes
  <2>2. got[d].mine \in Nat /\ rows[d].mine \in Nat /\ docs[d].mine \in Nat
    BY <2>1 DEF DocLists, Document
  <2>3. ~(got[d].mine < rows[d].mine)
    BY <1>1 DEF Late
  <2>4. rows[d].mine = docs[d].mine /\ got[d].mine <= docs[d].mine
    BY <1>1 DEF Current, Seen
  <2> QED
    BY <2>2, <2>3, <2>4
<1> QED
  BY <1>1

LEMMA DoneStep ==
  ASSUME ProcureInv, NEW c \in Calls, Done(c)
  PROVE  ProcureInv'
<1> DEFINE here == Workspace /\ ~call[c].gone
           x == IF here THEN "sides" ELSE "list"
<1>0. /\ call[c] \in PageCalls /\ call[c].got \in DocLists /\ Seen(call[c].got)
      /\ call[c].got # Nobody
  BY NullAssumption
     DEF ProcureInv, ProcureTypes, HasList, AllSeen, CallSeen, Done,
     DocLists
<1>1. PICK q : q = [call[c] EXCEPT !.then = x]
  OBVIOUS
<1>2. /\ q \in PageCalls /\ q.then = x /\ q.op = call[c].op
      /\ q.gone = call[c].gone
  BY <1>0, <1>1, ThenIs DEF CallSteps, Same
<1>3. CallSet(c, q)
  <2>1. q.then \in {"sides", "list"}
    BY <1>2
  <2>2. call' = [call EXCEPT ![c] = q]
    BY <1>1 DEF Done
  <2> QED
    BY <2>1, <2>2 DEF Done, CallSet, HasList, Addressed
<1>4. RowTypes'
  BY <1>0 DEF ProcureInv, ProcureTypes, RowTypes, Done
<1>5. CallSeen(q)
  BY <1>2 DEF CallSeen
<1>6. rows' # Nobody => Seen(rows')
  BY <1>0 DEF ProcureInv, AllSeen, Done
<1>7. AllOwn => CallOwn(q) /\ FormOwn'
  <2> SUFFICES ASSUME AllOwn PROVE CallOwn(q) /\ FormOwn'
    OBVIOUS
  <2>1. OwnList(call[c].got) /\ (rows # Nobody => OwnList(rows)) /\ held = editing
    BY DEF AllOwn, CallOwn, FormOwn, Done
  <2>2. (rows' # Nobody => OwnList(rows')) /\ held' = editing'
    BY <2>1 DEF Done
  <2> QED
    BY <1>2, <2>2 DEF CallOwn, FormOwn, OwnList
<1>8. ~troubled' => ~troubled /\ (Smooth => Smooth')
  <2> SUFFICES ASSUME ~troubled', Smooth PROVE ~troubled /\ Smooth'
    BY DEF Done
  <2>1. ~troubled /\ CallSmooth(call[c])
    BY DEF Done, Smooth
  <2>2. /\ IsDeed(call[c]) /\ ~call[c].gone /\ rows # Nobody
        /\ Current(call[c].got)
    BY <2>1 DEF Done, CallSmooth
  <2>3. RowsCurrent'
    <3>1. CASE here
      <4>1. Current(rows')
        BY <3>1, <2>2 DEF Done
      <4> QED
        BY <4>1 DEF RowsCurrent, Current, Done
    <3>2. CASE ~here
      <4>1. WasDone(q)
        BY <3>2, <1>2, <2>2 DEF WasDone, IsDeed
      <4> QED
        BY <3>2, <4>1, <1>2, <1>3, RowsStayCurrent DEF ProcureInv, Smooth, Done
    <3> QED
      BY <3>1, <3>2
  <2>4. OthersStay(c) /\ Borne'
    BY <1>0, BorneStays DEF OthersStay, Done
  <2>5. rows' # Nobody /\ busy' = busy /\ kind' = kind
    BY <1>0, <2>2 DEF Done
  <2>6. CallSmooth(q)'
    BY <1>2, <2>1, <2>2, <2>5 DEF CallSmooth, IsDeed, Guarded, Workspace
  <2>7. \A y \in Calls \ {c} : IsDeed(q) => ~IsDeed(call[y])
    BY <1>2 DEF Smooth, OneActs, IsDeed
  <2> QED
    BY <1>2, <1>3, <2>1, <2>3, <2>4, <2>6, <2>7, SmoothStays DEF ProcureInv
<1>9. switched' = switched
  BY DEF Done
<1> QED
  BY <1>2, <1>3, <1>4, <1>5, <1>6, <1>7, <1>8, <1>9, OneMoves

(* A call that is over leaves the page busy if another keeps it so.        *)
LEMMA OverStep ==
  ASSUME ProcureInv, NEW c \in Calls, Over(c), kind' = kind, docs' = docs,
         rows' \in DocLists \union {Nobody}, rows' = Nobody => rows = Nobody,
         rows' # Nobody => Seen(rows'),
         UNCHANGED <<editing, held, steps, vain, switched>>,
         troubled' \in BOOLEAN,
         AllOwn => FormOwn',
         ~troubled' => ~troubled /\ (Smooth => RowsCurrent')
  PROVE  ProcureInv'
<1>1. NoCall \in PageCalls /\ CallSet(c, NoCall)
  BY NoCallIsTyped DEF Over, CallSet, HasList, Addressed
<1>2. RowTypes'
  BY DEF ProcureInv, ProcureTypes, RowTypes, Over
<1>3. CallSeen(NoCall) /\ CallOwn(NoCall) /\ ~IsDeed(NoCall)
  BY NoCallIsTyped DEF CallSeen, CallOwn, IsDeed
<1>4. ~troubled' => ~troubled /\ (Smooth => Smooth')
  <2> SUFFICES ASSUME ~troubled', Smooth PROVE ~troubled /\ Smooth'
    OBVIOUS
  <2>1. OthersStay(c)
    BY DEF OthersStay, Over, Guarded, IsDeed, Smooth, OneActs
  <2>2. CallSmooth(NoCall)'
    BY NoCallIsTyped DEF CallSmooth, IsDeed, NoCall
  <2>3. Borne' /\ RowsCurrent'
    BY BorneStays
  <2> QED
    BY <1>1, <1>3, <2>1, <2>2, <2>3, SmoothStays DEF ProcureInv
<1> QED
  BY <1>1, <1>2, <1>3, <1>4, OneMoves

LEMMA ShowRowsStep ==
  ASSUME ProcureInv, NEW c \in Calls, ShowRows(c)
  PROVE  ProcureInv'
<1> PICK q : q = call[c]
  OBVIOUS
<1>1. q \in PageCalls /\ q.got \in DocLists /\ Seen(q.got) /\ q.got # Nobody
  BY NullAssumption
     DEF ProcureInv, ProcureTypes, HasList, AllSeen, CallSeen, ShowRows,
     DocLists
<1>2. /\ rows' = IF q.gone THEN rows ELSE q.got
      /\ troubled' = (troubled \/ (~q.gone /\ Late(q.got)))
      /\ Over(c) /\ kind' = kind /\ docs' = docs
      /\ UNCHANGED <<editing, held, steps, vain, switched>>
  BY DEF ShowRows
<1>3. /\ rows' \in DocLists \union {Nobody} /\ (rows' = Nobody => rows = Nobody)
      /\ (rows' # Nobody => Seen(rows'))
  BY <1>1, <1>2 DEF ProcureInv, ProcureTypes, AllSeen
<1>4. AllOwn => FormOwn'
  <2> SUFFICES ASSUME AllOwn PROVE FormOwn'
    OBVIOUS
  <2>1. OwnList(q.got) /\ (rows # Nobody => OwnList(rows)) /\ held = editing
    BY DEF AllOwn, CallOwn, FormOwn, ShowRows
  <2>2. (rows' # Nobody => OwnList(rows')) /\ held' = editing'
    BY <2>1, <1>2
  <2> QED
    BY <2>2 DEF FormOwn, OwnList
<1>5. ~troubled' => ~troubled /\ (Smooth => RowsCurrent')
  <2>0. ~troubled' => ~troubled /\ (~q.gone => ~Late(q.got))
    <3>1. troubled' = (troubled \/ (~q.gone /\ Late(q.got)))
      BY <1>2
    <3> QED
      BY <3>1
  <2> SUFFICES ASSUME ~troubled', Smooth PROVE RowsCurrent'
    BY <2>0
  <2>1. ~q.gone => ~Late(q.got)
    BY <2>0
  <2>2. CallSmooth(q) /\ q.then = "rows"
    BY DEF Smooth, ShowRows
  <2>3. CallSet(c, NoCall)
    BY <1>2, NoCallIsTyped DEF Over, CallSet, HasList, Addressed
  <2>4. CASE q.gone
    <3>1. ~WasDone(q)
      BY <2>2, <2>4 DEF CallSmooth, WasDone
    <3> QED
      BY <1>2, <2>3, <2>4, <3>1, NoCallIsTyped, RowsStayCurrent
         DEF ProcureInv, Smooth
  <2>5. CASE ~q.gone /\ Current(q.got)
    <3>1. Current(rows')
      BY <1>2, <2>5
    <3> QED
      BY <1>2, <3>1 DEF RowsCurrent, Current
  <2>6. CASE ~q.gone /\ ~Current(q.got)
    <3>1. ~IsDeed(q) /\ rows # Nobody
      BY <2>2, <2>6 DEF CallSmooth
    <3>2. ~Current(rows)
      BY <1>1, <2>1, <2>6, <3>1, NewRowsAreCurrent DEF ProcureInv
    <3>3. PICK x \in Calls : WasDone(call[x])
      BY <3>1, <3>2 DEF Smooth, RowsCurrent
    <3>4. x # c
      BY <3>1, <3>3 DEF WasDone
    <3>5. call'[x] = call[x]
      BY <2>3, <3>4, NoCallIsTyped, CallMoves DEF ProcureInv, CallSet
    <3>6. WasDone(call[x])'
      BY <3>3, <3>5 DEF WasDone, IsDeed
    <3> QED
      BY <3>6 DEF RowsCurrent
  <2> QED
    BY <2>4, <2>5, <2>6
<1>6. troubled' \in BOOLEAN
  BY <1>2 DEF ProcureInv, ProcureTypes, Late
<1> QED
  BY <1>2, <1>3, <1>4, <1>5, <1>6, OverStep

LEMMA SettleStep ==
  ASSUME ProcureInv, NEW c \in Calls, Settle(c)
  PROVE  ProcureInv'
<1>1. /\ Over(c) /\ kind' = kind /\ docs' = docs /\ rows' = rows
      /\ troubled' = troubled /\ UNCHANGED <<editing, held, steps, vain, switched>>
  BY DEF Settle
<1>2. AllOwn => FormOwn'
  BY <1>1 DEF AllOwn, FormOwn, OwnList
<1>3. Smooth => RowsCurrent'
  <2> SUFFICES ASSUME Smooth PROVE RowsCurrent'
    OBVIOUS
  <2>1. CallSet(c, NoCall)
    BY <1>1, NoCallIsTyped DEF Over, CallSet, HasList, Addressed
  <2>2. ~WasDone(call[c])
    BY DEF Settle, WasDone
  <2> QED
    BY <1>1, <2>1, <2>2, NoCallIsTyped, RowsStayCurrent DEF ProcureInv, Smooth
<1>4. /\ rows' \in DocLists \union {Nobody} /\ troubled' \in BOOLEAN
      /\ (rows' # Nobody => Seen(rows'))
  BY <1>1 DEF ProcureInv, ProcureTypes, AllSeen
<1> QED
  BY <1>1, <1>2, <1>3, <1>4, OverStep

-----------------------------------------------------------------------------
(* The steps that change documents, and the one that leaves the page *)

(* What was seen of a document is still of its past when it changes.       *)
LEMMA SeenOfThePast ==
  ASSUME NEW r \in DocLists, docs \in DocLists, docs' \in DocLists, Seen(r),
         \A d \in Docs :
           \/ docs'[d] = docs[d]
           \/ /\ docs'[d].mine >= docs[d].mine /\ docs'[d].theirs >= docs[d].theirs
              /\ docs'[d].mine + docs'[d].theirs > docs[d].mine + docs[d].theirs
  PROVE  Seen(r)'
<1> SUFFICES ASSUME NEW d \in Docs
             PROVE  /\ r[d].mine <= docs'[d].mine /\ r[d].theirs <= docs'[d].theirs
                    /\ r[d].mine = docs'[d].mine /\ r[d].theirs = docs'[d].theirs
                         => r[d].status = docs'[d].status
  BY DEF Seen
<1>1. /\ r[d].mine \in Nat /\ r[d].theirs \in Nat
      /\ docs[d].mine \in Nat /\ docs[d].theirs \in Nat
      /\ docs'[d].mine \in Nat /\ docs'[d].theirs \in Nat
  BY DEF DocLists, Document
<1> QED
  BY <1>1 DEF Seen

Grows ==
  /\ docs' \in DocLists
  /\ \A d \in Docs :
       \/ docs'[d] = docs[d]
       \/ /\ docs'[d].mine >= docs[d].mine /\ docs'[d].theirs >= docs[d].theirs
          /\ docs'[d].mine + docs'[d].theirs > docs[d].mine + docs[d].theirs

LEMMA CallSeenOfThePast ==
  ASSUME docs \in DocLists, Grows, NEW q \in PageCalls, HasList(q), Addressed(q),
         CallSeen(q)
  PROVE  CallSeen(q)'
<1>1. q.then \in {"rows", "done"} => Seen(q.got)'
  BY SeenOfThePast DEF Grows, CallSeen, HasList
<1>2. q.then = "serve" => q.theirs <= docs'[q.doc].theirs
  <2> SUFFICES ASSUME q.then = "serve" PROVE q.theirs <= docs'[q.doc].theirs
    OBVIOUS
  <2>1. q.doc \in Docs /\ q.theirs \in Nat /\ q.theirs <= docs[q.doc].theirs
    BY DEF CallSeen, Addressed, PageCalls
  <2>2. docs[q.doc].theirs \in Nat /\ docs'[q.doc].theirs \in Nat
    BY <2>1 DEF Grows, DocLists, Document
  <2>3. docs'[q.doc].theirs >= docs[q.doc].theirs
    BY <2>1, <2>2 DEF Grows
  <2> QED
    BY <2>1, <2>2, <2>3
<1> QED
  BY <1>1, <1>2 DEF CallSeen

LEMMA StatusOfRule ==
  ASSUME NEW m \in Accepted
  PROVE  m[3] \in {n[2] : n \in Rule} \union {n[3] : n \in Rule}
BY AcceptedIsRule

(* Somebody else moves document d by rule m.                               *)
LEMMA OtherIs ==
  ASSUME docs \in DocLists, NEW d \in Docs, NEW m \in Accepted,
         docs' = [docs EXCEPT ![d].status = m[3], ![d].theirs = @ + 1]
  PROVE  /\ Grows
         /\ \A x \in Docs : docs'[x].mine = docs[x].mine /\ docs'[x].says = docs[x].says
         /\ \A x \in Docs \ {d} : docs'[x] = docs[x]
         /\ docs'[d].theirs = docs[d].theirs + 1
<1>1. PICK p1 : p1 = [docs[d] EXCEPT !.status = m[3]]
  OBVIOUS
<1>2. docs[d] \in Document
  BY DEF DocLists
<1>3. p1 \in Document /\ p1.mine = docs[d].mine /\ p1.theirs = docs[d].theirs
      /\ p1.says = docs[d].says
  <2>1. p1 \in Document
    BY <1>1, <1>2, StatusOfRule DEF Document
  <2> QED
    BY <1>1, <1>2, <2>1 DEF Document
<1>4. PICK p : p = [p1 EXCEPT !.theirs = @ + 1]
  OBVIOUS
<1>5. p \in Document /\ p.mine = docs[d].mine /\ p.theirs = docs[d].theirs + 1
      /\ p.says = docs[d].says
  <2>1. p \in Document
    BY <1>3, <1>4 DEF Document
  <2> QED
    BY <1>3, <1>4, <2>1 DEF Document
<1>6. docs' = [docs EXCEPT ![d] = p]
  BY <1>1, <1>2, <1>4 DEF DocLists
<1>7. docs' \in DocLists /\ docs'[d] = p /\ \A x \in Docs \ {d} : docs'[x] = docs[x]
  BY <1>5, <1>6 DEF DocLists
<1>8. docs[d].mine \in Nat /\ docs[d].theirs \in Nat
  BY <1>2 DEF Document
<1>9. /\ docs'[d].mine >= docs[d].mine /\ docs'[d].theirs >= docs[d].theirs
      /\ docs'[d].mine + docs'[d].theirs > docs[d].mine + docs[d].theirs
  BY <1>5, <1>7, <1>8
<1>10. Grows
  BY <1>7, <1>9 DEF Grows
<1> QED
  BY <1>5, <1>7, <1>10

LEMMA OtherStep ==
  ASSUME ProcureInv, NEW d \in Docs, Other(d)
  PROVE  ProcureInv'
<1>0. docs \in DocLists
  BY DEF ProcureInv, ProcureTypes
<1>1. PICK m \in Accepted :
        docs' = [docs EXCEPT ![d].status = m[3], ![d].theirs = @ + 1]
  BY DEF Other
<1>2. /\ Grows
      /\ \A x \in Docs : docs'[x].mine = docs[x].mine /\ docs'[x].says = docs[x].says
      /\ \A x \in Docs \ {d} : docs'[x] = docs[x]
      /\ docs'[d].theirs = docs[d].theirs + 1
  BY <1>0, <1>1, OtherIs
<1>3. UNCHANGED <<kind, rows, busy, editing, held, call, vain, troubled, switched>>
  BY DEF Other
<1>4. ProcureTypes'
  BY <1>2, <1>3 DEF ProcureInv, ProcureTypes, Grows, HasList, Addressed
<1>5. AllSeen'
  <2> PICK r : r = rows
    OBVIOUS
  <2>1. r # Nobody => Seen(r)'
    <3> SUFFICES ASSUME r # Nobody PROVE Seen(r)'
      OBVIOUS
    <3>1. r \in DocLists /\ Seen(r)
      BY DEF ProcureInv, ProcureTypes, AllSeen
    <3> QED
      BY <1>0, <1>2, <3>1, SeenOfThePast DEF Grows
  <2>2. \A x \in Calls : CallSeen(call[x])'
    <3> SUFFICES ASSUME NEW x \in Calls PROVE CallSeen(call[x])'
      OBVIOUS
    <3> PICK q : q = call[x]
      OBVIOUS
    <3>1. q \in PageCalls /\ HasList(q) /\ Addressed(q) /\ CallSeen(q)
      BY DEF ProcureInv, ProcureTypes, AllSeen
    <3>2. CallSeen(q)'
      BY <1>0, <1>2, <3>1, CallSeenOfThePast
    <3> QED
      BY <3>2, <1>3
  <2>3. (rows # Nobody => Seen(rows))'
    BY <2>1, <1>3 DEF Seen
  <2> QED
    BY <2>2, <2>3 DEF AllSeen
<1>6. (~switched => AllOwn)'
  BY <1>2, <1>3 DEF ProcureInv, AllOwn, OwnList, FormOwn, CallOwn
<1>7. (~troubled => Smooth)'
  <2> SUFFICES ASSUME Smooth PROVE Smooth'
    BY <1>3 DEF ProcureInv
  <2>1. \A r : Current(r) => Current(r)'
    BY <1>2 DEF Current
  <2>2. Borne' /\ OneActs' /\ RowsCurrent'
    BY <1>3, <2>1, BorneStays DEF Smooth, OneActs, RowsCurrent, IsDeed, WasDone
  <2>3. \A x \in Calls : CallSmooth(call[x])'
    <3> SUFFICES ASSUME NEW x \in Calls PROVE CallSmooth(call[x])'
      OBVIOUS
    <3> PICK q : q = call[x]
      OBVIOUS
    <3>1. q \in PageCalls /\ Addressed(q) /\ CallSeen(q) /\ CallSmooth(q)
      BY DEF ProcureInv, ProcureTypes, AllSeen, Smooth
    <3>2. (q.then = "serve" /\ q.op # "edit"
             /\ q.theirs = docs[q.doc].theirs
             => Accepts(q.op, docs[q.doc].status))'
      <4>1. ASSUME q.then = "serve", q.theirs = docs'[q.doc].theirs
            PROVE  docs'[q.doc] = docs[q.doc]
        <5>1. q.doc \in Docs /\ q.theirs \in Nat /\ q.theirs <= docs[q.doc].theirs
          BY <3>1, <4>1 DEF Addressed, CallSeen, PageCalls
        <5>2. docs[q.doc].theirs \in Nat
          BY <1>0, <5>1 DEF DocLists, Document
        <5>3. q.doc # d
          BY <1>2, <4>1, <5>1, <5>2
        <5> QED
          BY <1>2, <5>1, <5>3
      <4>2. Accepted' = Accepted
        BY <1>3 DEF Accepted
      <4>3. \A op, s : Accepts(op, s)' <=> Accepts(op, s)
        BY <4>2 DEF Accepts
      <4> QED
        BY <3>1, <4>1, <4>3 DEF CallSmooth
    <3>3. CallSmooth(q)'
      BY <1>3, <2>1, <3>1, <3>2 DEF CallSmooth, IsDeed, Guarded, Workspace
    <3> QED
      BY <3>3, <1>3
  <2> QED
    BY <2>2, <2>3 DEF Smooth
<1> QED
  BY <1>4, <1>5, <1>6, <1>7 DEF ProcureInv

(* Call c changes its document by rule m.                                  *)
Changes(d, m, says) ==
  docs' = [docs EXCEPT ![d] = [docs[d] EXCEPT !.status = m[3], !.mine = @ + 1,
                                              !.says = says]]

LEMMA PerformIs ==
  ASSUME docs \in DocLists, NEW d \in Docs, NEW m \in Accepted,
         NEW says \in Docs \union {Nobody},
         Changes(d, m, says)
  PROVE  /\ Grows
         /\ \A x \in Docs \ {d} : docs'[x] = docs[x]
         /\ docs'[d].says = says
<1>1. docs[d] \in Document
  BY DEF DocLists
<1>2. PICK p1 : p1 = [docs[d] EXCEPT !.status = m[3]]
  OBVIOUS
<1>3. p1 \in Document /\ p1.mine = docs[d].mine /\ p1.theirs = docs[d].theirs
  <2>1. p1 \in Document
    BY <1>1, <1>2, StatusOfRule DEF Document
  <2> QED
    BY <1>1, <1>2, <2>1 DEF Document
<1>4. PICK p2 : p2 = [p1 EXCEPT !.mine = @ + 1]
  OBVIOUS
<1>5. p2 \in Document /\ p2.mine = docs[d].mine + 1 /\ p2.theirs = docs[d].theirs
  <2>1. p2 \in Document
    BY <1>3, <1>4 DEF Document
  <2> QED
    BY <1>3, <1>4, <2>1 DEF Document
<1>6. PICK p : p = [p2 EXCEPT !.says = says]
  OBVIOUS
<1>7. /\ p \in Document /\ p.mine = docs[d].mine + 1 /\ p.theirs = docs[d].theirs
      /\ p.says = says
  <2>1. p \in Document
    BY <1>5, <1>6 DEF Document
  <2> QED
    BY <1>5, <1>6, <2>1 DEF Document
<1>8. docs' = [docs EXCEPT ![d] = p]
  BY <1>1, <1>2, <1>4, <1>6 DEF Changes, Document
<1>9. docs' \in DocLists /\ docs'[d] = p /\ \A x \in Docs \ {d} : docs'[x] = docs[x]
  BY <1>7, <1>8 DEF DocLists
<1>10. docs[d].mine \in Nat /\ docs[d].theirs \in Nat
  BY <1>1 DEF Document
<1>11. /\ docs'[d].mine >= docs[d].mine /\ docs'[d].theirs >= docs[d].theirs
       /\ docs'[d].mine + docs'[d].theirs > docs[d].mine + docs[d].theirs
  BY <1>7, <1>9, <1>10
<1>12. Grows
  BY <1>9, <1>11 DEF Grows
<1>13. docs'[d].says = says
  BY <1>7, <1>9
<1> QED
  BY <1>9, <1>12, <1>13

LEMMA PerformStep ==
  ASSUME ProcureInv, NEW c \in Calls, Perform(c)
  PROVE  ProcureInv'
<1>1. /\ docs \in DocLists /\ call[c] \in PageCalls
      /\ call[c].doc \in Docs /\ call[c].sent \in Docs \union {Nobody}
      /\ call[c].then = "serve"
  BY DEF ProcureInv, ProcureTypes, Addressed, Perform, PageCalls
<1> PICK d \in Docs : d = call[c].doc
  BY <1>1
<1> PICK says : says = IF call[c].op \in Saves THEN call[c].sent ELSE docs[d].says
  OBVIOUS
<1>2. says \in Docs \union {Nobody}
  BY <1>1 DEF DocLists, Document
<1>3. PICK m \in Accepted : Changes(d, m, says)
  BY DEF Perform, Changes
<1>4. /\ Grows
      /\ \A x \in Docs \ {d} : docs'[x] = docs[x]
      /\ docs'[d].says = says
  BY <1>1, <1>2, <1>3, PerformIs
<1>5. UNCHANGED <<kind, rows, busy, editing, held, vain, troubled, switched>>
  BY DEF Perform
<1>6. PICK list \in DocLists : list = docs'
  BY <1>4 DEF Grows
<1>7. PICK p : p = [call[c] EXCEPT !.then = "done"]
  OBVIOUS
<1>8. /\ p \in PageCalls /\ p.then = "done" /\ p.op = call[c].op
      /\ p.gone = call[c].gone
  BY <1>1, <1>7, ThenIs DEF CallSteps, Same
<1>9. PICK q : q = [p EXCEPT !.got = list]
  OBVIOUS
<1>10. /\ q \in PageCalls /\ q.then = "done" /\ q.op = call[c].op
       /\ q.gone = call[c].gone /\ q.got = list
  BY <1>8, <1>9, GotListIs DEF Same
<1>11. call' = [call EXCEPT ![c] = q]
  BY <1>6, <1>7, <1>9 DEF Perform
<1>12. /\ call' \in [Calls -> PageCalls] /\ call'[c] = q
       /\ \A x \in Calls \ {c} : call'[x] = call[x]
  BY <1>10, <1>11, CallMoves DEF ProcureInv
<1>13. ProcureTypes'
  <2>1. \A x \in Calls : HasList(call'[x]) /\ Addressed(call'[x])
    BY <1>6, <1>10, <1>12 DEF ProcureInv, ProcureTypes, HasList, Addressed
  <2>2. \A x \in Calls : (HasList(call[x]) /\ Addressed(call[x]))'
    BY <2>1 DEF HasList, Addressed
  <2> QED
    BY <1>4, <1>5, <1>12, <2>2 DEF ProcureInv, ProcureTypes, Grows
<1>14. AllSeen'
  <2> PICK r : r = rows
    OBVIOUS
  <2>1. r # Nobody => Seen(r)'
    <3> SUFFICES ASSUME r # Nobody PROVE Seen(r)'
      OBVIOUS
    <3>1. r \in DocLists /\ Seen(r)
      BY DEF ProcureInv, ProcureTypes, AllSeen
    <3> QED
      BY <1>1, <1>4, <3>1, SeenOfThePast DEF Grows
  <2>2. \A x \in Calls \ {c} : CallSeen(call[x])'
    <3> SUFFICES ASSUME NEW x \in Calls \ {c} PROVE CallSeen(call[x])'
      OBVIOUS
    <3> PICK y : y = call[x]
      OBVIOUS
    <3>1. y \in PageCalls /\ HasList(y) /\ Addressed(y) /\ CallSeen(y)
      BY DEF ProcureInv, ProcureTypes, AllSeen
    <3>2. CallSeen(y)'
      BY <1>1, <1>4, <3>1, CallSeenOfThePast
    <3> QED
      BY <3>2, <1>12
  <2>3. Seen(list)'
    BY <1>6 DEF Seen, DocLists, Document
  <2>4. CallSeen(q)'
    BY <1>10, <2>3 DEF CallSeen
  <2>5. CallSeen(call[c])'
    BY <1>12, <2>4
  <2>6. (rows # Nobody => Seen(rows))'
    BY <2>1, <1>5 DEF Seen
  <2> QED
    BY <2>2, <2>5, <2>6 DEF AllSeen
<1>15. (~switched => AllOwn)'
  <2> SUFFICES ASSUME AllOwn PROVE AllOwn'
    BY <1>5 DEF ProcureInv
  <2>1. OwnList(docs')
    <3>1. says = d
      BY <1>1 DEF AllOwn, CallOwn, OwnList
    <3> QED
      BY <1>4, <3>1 DEF AllOwn, OwnList
  <2>2. \A x \in Calls : CallOwn(call'[x])
    BY <1>6, <1>10, <1>12, <2>1 DEF AllOwn, CallOwn
  <2>3. \A x \in Calls : CallOwn(call[x])'
    BY <2>2 DEF CallOwn, OwnList
  <2>4. FormOwn'
    BY <1>5 DEF AllOwn, FormOwn, OwnList
  <2>5. OwnList(docs)'
    BY <2>1 DEF OwnList
  <2> QED
    BY <2>3, <2>4, <2>5 DEF AllOwn
<1>16. (~troubled => Smooth)'
  <2> SUFFICES ASSUME Smooth PROVE Smooth'
    BY <1>5 DEF ProcureInv
  <2>1. CallSmooth(call[c]) /\ IsDeed(call[c])
    BY <1>1 DEF Smooth, CallSmooth
  <2>2. \A x \in Calls \ {c} : ~IsDeed(call[x])
    BY <2>1 DEF Smooth, OneActs
  <2>3. /\ IsDeed(q) /\ ~q.gone /\ rows # Nobody /\ (Guarded(q) => busy)
    BY <1>10, <2>1 DEF CallSmooth, IsDeed, Guarded, Workspace
  <2>4. CallSmooth(q)'
    <3>1. Current(q.got)'
      BY <1>6, <1>10 DEF Current
    <3>2. (IsDeed(q) => ~q.gone /\ rows # Nobody /\ (Guarded(q) => busy))'
      BY <1>5, <2>3 DEF Guarded, Workspace
    <3> QED
      BY <1>10, <2>3, <3>1, <3>2 DEF CallSmooth, IsDeed
  <2>5. \A x \in Calls \ {c} : CallSmooth(call[x])'
    <3> SUFFICES ASSUME NEW x \in Calls \ {c} PROVE CallSmooth(call[x])'
      OBVIOUS
    <3> PICK y : y = call[x]
      OBVIOUS
    <3>1. CallSmooth(y) /\ ~IsDeed(y)
      BY <2>2 DEF Smooth
    <3>2. y.then \notin {"serve", "done"} /\ rows' # Nobody
      BY <1>5, <2>3, <3>1 DEF CallSmooth
    <3>3. CallSmooth(y)'
      BY <3>1, <3>2 DEF CallSmooth, IsDeed
    <3> QED
      BY <3>3, <1>12
  <2>6. \A x \in Calls : CallSmooth(call[x])'
    <3>1. CallSmooth(call[c])'
      BY <1>12, <2>4
    <3> QED
      BY <2>5, <3>1
  <2>7. OneActs'
    BY <1>12, <2>2 DEF OneActs, IsDeed
  <2>8. RowsCurrent'
    <3>1. WasDone(call'[c])
      BY <1>10, <1>12, <2>3 DEF WasDone
    <3> QED
      BY <3>1 DEF RowsCurrent, WasDone, IsDeed
  <2> QED
    BY <1>5, <2>6, <2>7, <2>8, BorneStays DEF Smooth
<1> QED
  BY <1>13, <1>14, <1>15, <1>16 DEF ProcureInv

LEMMA LeaveStep ==
  ASSUME ProcureInv, NEW c \in Calls, Leave(c)
  PROVE  ProcureInv'
<1>1. PICK q : q = [NoCall EXCEPT !.then = "list"]
  OBVIOUS
<1>2. q \in PageCalls /\ q.then = "list" /\ q.op = "list"
  BY <1>1, NoCallIsTyped, ThenIs DEF CallSteps, Same
<1>3. /\ call' = [x \in Calls |->
           IF x = c THEN q
           ELSE IF UnderWay(x) THEN [call[x] EXCEPT !.gone = TRUE] ELSE NoCall]
      /\ rows' = Nobody /\ busy' = FALSE /\ editing' = Nobody /\ held' = Nobody
      /\ troubled' = (troubled \/ \E x \in Calls : call[x].op # "list")
      /\ UNCHANGED <<kind, docs, vain, switched>>
  BY <1>1 DEF Leave
(* Each call is a list to be loaded, nothing, or goes on without the page. *)
<1> DEFINE LetGo(p, x) == /\ p.then = x.then /\ Same(p, x) /\ p.got = x.got
                          /\ p.gone = TRUE
<1>4. \A x \in Calls :
        /\ call'[x] \in PageCalls
        /\ \/ call'[x].then \in {"list", "idle"} /\ call'[x].op = "list"
           \/ LetGo(call'[x], call[x])
  <2> SUFFICES ASSUME NEW x \in Calls
               PROVE  /\ call'[x] \in PageCalls
                      /\ \/ call'[x].then \in {"list", "idle"} /\ call'[x].op = "list"
                         \/ LetGo(call'[x], call[x])
    OBVIOUS
  <2>1. call[x] \in PageCalls
    BY DEF ProcureInv, ProcureTypes
  <2>2. CASE x = c
    BY <1>2, <1>3, <2>2
  <2>3. CASE x # c /\ UnderWay(x)
    <3> PICK p : p = [call[x] EXCEPT !.gone = TRUE]
      OBVIOUS
    <3>1. p \in PageCalls /\ LetGo(p, call[x])
      BY <2>1, GoneIs
    <3>2. call'[x] = p
      BY <1>3, <2>3
    <3> QED
      BY <3>1, <3>2
  <2>4. CASE x # c /\ ~UnderWay(x)
    BY <1>3, <2>4, NoCallIsTyped
  <2> QED
    BY <2>2, <2>3, <2>4
<1>5. call' \in [Calls -> PageCalls]
  <2>1. call' = [x \in Calls |-> call'[x]]
    BY <1>3
  <2> QED
    BY <1>4, <2>1
<1>6. ProcureTypes'
  <2>1. \A x \in Calls : (HasList(call[x]) /\ Addressed(call[x]))'
    BY <1>4 DEF ProcureInv, ProcureTypes, HasList, Addressed, Same
  <2>2. troubled' \in BOOLEAN
    BY <1>3 DEF ProcureInv, ProcureTypes
  <2> QED
    BY <1>3, <1>5, <2>1, <2>2 DEF ProcureInv, ProcureTypes
<1>7. AllSeen'
  <2>1. \A x \in Calls : CallSeen(call'[x])
    BY <1>4 DEF ProcureInv, AllSeen, CallSeen, Same
  <2>2. \A x \in Calls : CallSeen(call[x])'
    BY <1>3, <2>1 DEF CallSeen, Seen
  <2> QED
    BY <1>3, <2>2 DEF AllSeen
<1>8. (~switched => AllOwn)'
  <2> SUFFICES ASSUME AllOwn PROVE AllOwn'
    BY <1>3 DEF ProcureInv
  <2>1. \A x \in Calls : CallOwn(call'[x])
    BY <1>4 DEF AllOwn, CallOwn, Same
  <2>2. \A x \in Calls : CallOwn(call[x])'
    BY <2>1 DEF CallOwn, OwnList
  <2> QED
    BY <1>3, <2>2 DEF AllOwn, OwnList, FormOwn
<1>9. (~troubled => Smooth)'
  <2> SUFFICES ASSUME ~troubled' PROVE Smooth'
    OBVIOUS
  <2>1. Smooth /\ \A x \in Calls : ~IsDeed(call[x])
    BY <1>3 DEF ProcureInv, IsDeed
  <2>2. \A x \in Calls : call[x].then \notin {"serve", "done"}
    BY <2>1 DEF Smooth, CallSmooth
  <2>3. \A x \in Calls : /\ ~IsDeed(call'[x])
                         /\ call'[x].then \notin {"serve", "done"}
                         /\ call'[x].then = "rows" => call'[x].gone
    BY <1>4, <2>1, <2>2 DEF IsDeed, Same
  <2>4. \A x \in Calls : CallSmooth(call[x])'
    BY <2>3 DEF CallSmooth, IsDeed
  <2> QED
    BY <1>3, <2>1, <2>3, <2>4, BorneStays DEF Smooth, OneActs, RowsCurrent, IsDeed
<1> QED
  BY <1>6, <1>7, <1>8, <1>9 DEF ProcureInv

-----------------------------------------------------------------------------
(* The theorems *)

LEMMA ProcureStep ==
  ASSUME ProcureInv, [ProcureNext]_procureVars
  PROVE  ProcureInv'
<1>1. CASE ProcureNext
  <2> USE <1>1
  <2>1. ASSUME NEW c \in Calls,
               \/ Refresh(c)  \/ OnUpdate(c)  \/ Leave(c)
               \/ \E d \in Docs, op \in Buttons : PressButton(c, d, op)
               \/ ServeList(c)  \/ Perform(c)  \/ Refuse(c)  \/ Lose(c)
               \/ Done(c)  \/ ShowRows(c)  \/ Settle(c)
        PROVE  ProcureInv'
    BY <2>1, RefreshStep, OnUpdateStep, LeaveStep, PressButtonStep,
       ServeListStep,
       PerformStep, RefuseStep, LoseStep, DoneStep, ShowRowsStep, SettleStep
  <2>2. ASSUME NEW d \in Docs, Edit(d) \/ Other(d)
        PROVE  ProcureInv'
    BY <2>2, EditStep, OtherStep
  <2> QED
    BY <2>1, <2>2, CloseFormStep, SwitchTabStep DEF ProcureNext
<1>2. CASE UNCHANGED procureVars
  <2>1. UNCHANGED <<kind, docs, rows, busy, editing, held, call, vain, troubled,
                    switched>>
    BY <1>2 DEF procureVars
  <2>2. RowTypes'
    BY <2>1 DEF ProcureInv, ProcureTypes, RowTypes
  <2>3. AllOwn => FormOwn'
    BY <2>1 DEF AllOwn, FormOwn, OwnList
  <2> QED
    BY <2>1, <2>2, <2>3, FormMoves
<1> QED
  BY <1>1, <1>2

LEMMA ProcureInvAlways == ProcureSpec => []ProcureInv
BY ProcureBegins, ProcureStep, PTL DEF ProcureSpec

(* However many documents, calls and pages opened: a form that is closed   *)
(* before the next is opened, and saved while what it shows can be edited, *)
(* saves nothing of one document into another and empties none (onUpdate   *)
(* of the four pages).                                                     *)
THEOREM SavesAlwaysOwn == ProcureSpec => []SavedIsOwn
<1>1. ProcureInv => SavedIsOwn
  BY DEF ProcureInv, SavedIsOwn, AllOwn, OwnList
<1> QED
  BY <1>1, ProcureInvAlways, PTL

(* Unless a call got lost, a list came late or the user went on beside a   *)
(* call, what a row of these pages offers is accepted unless somebody else *)
(* has changed the document since it was loaded, but for Edit in approval; *)
(* of what it no longer offers, only a form left open is refused.          *)
THEOREM NoButtonInVain == ProcureSpec => []NothingInVain
<1>1. ProcureInv => NothingInVain
  BY DEF ProcureInv, NothingInVain, Smooth, Borne
<1> QED
  BY <1>1, ProcureInvAlways, PTL

-----------------------------------------------------------------------------
(* The administration page                                                 *)

(* The states of the page.                                                 *)
RowStates == {"live", "off", "gone"}
Maybe(S) == S \union {NoOne}
Views ==
  {p \in [tab : Tabs, area : Areas, policy : Maybe(Areas), ruled : Maybe(Areas),
          editing : [Edited -> Maybe(Things)], there : SUBSET Settings] :
     /\ p.editing["user"] \in Maybe(Persons)
     /\ p.editing["entity"] \in Maybe(Offices)
     /\ p.editing["rule"] \in Maybe(Bands)}
FlightRec ==
  [then : {"idle", "perform", "done", "serve", "show"},
   what : Maybe(Lists \union Forms \union {"row", "office"}),
   op : RowStates \union {"load", "save", "add"},
   of : Maybe(Things \union Lists), sends : Maybe(Things),
   area : Maybe(Areas),
   list : {"none", "refresh", "workflow", "users", "delegations"},
   busy : BOOLEAN, got : Maybe([Lists -> RowStates]), older : SUBSET Flights,
   late : BOOLEAN]

AdminTypeOK ==
  /\ kept \in [Things -> Maybe(Things)]
  /\ state \in [Lists -> RowStates] /\ listed \in [Lists -> RowStates]
  /\ view \in Views /\ inputs \in [Forms -> Maybe(Things)]
  /\ flight \in [Flights -> FlightRec]

(* A mounted form holds the values of what it was opened for.              *)
Meant(f, p) == IF f = "sso" THEN "sso" ELSE Form(f, p).of
Filled(p, in, slips) ==
  \A f \in Forms : Form(f, p).on =>
    in[f] = Meant(f, p) \/ f \in {"user", "sso"} \intersect slips
FormsFilled == Filled(view, inputs, careless)

Excused(t) ==
  \/ t \in Persons /\ "user" \in careless
  \/ t = "sso" /\ "sso" \in careless
  \/ t \in Areas /\ "order" \in careless
RowsKept == \A t \in Things : kept[t] = t \/ Excused(t)

(* What a call is about to do at the API.                                  *)
Adding(q) == q.op = "add" /\ q.of = NoOne /\ q.busy
Saving(q) ==
  /\ q.op = "save" /\ q.of \in Things /\ q.busy
  /\ q.of \in Lists => q.what = "rule"
  /\ q.sends = q.of \/ Excused(q.of)
Pressing(q) ==
  /\ q.op \in RowStates /\ q.of \in Lists
  /\ q.busy \/ q.of = "note"
  /\ q.op = "gone" => /\ q.of \in Deletable
                      /\ q.list # "none" /\ q.of \in Showing(q.list)
Performs(q) == q.then = "perform" => Adding(q) \/ Saving(q) \/ Pressing(q)
AnswerFits(q) == q.then = "show" => q.got \in [Lists -> RowStates]
CallsMean == \A c \in Flights : Performs(flight[c]) /\ AnswerFits(flight[c])
OneBusy == \A c, d \in Flights : flight[c].busy /\ flight[d].busy => c = d

(* Unless a load was overtaken: the changes under way are made under the   *)
(* module that is chosen, and the newest of the loads is for it.           *)
IsLoad(q) == q.then \in {"serve", "show"}
AreaLoad(q) == IsLoad(q) /\ q.list \in {"refresh", "workflow"}
Fits(q) == AreaLoad(q) /\ q.area = view.area
Heading == view.policy = view.area /\ view.ruled = view.area
Overtaken == \E d \in Flights : IsLoad(flight[d]) /\ flight[d].late
ChangesFit ==
  \A c \in Flights : flight[c].then \in {"perform", "done"} =>
    flight[c].area = view.area
LoadsEndFit ==
  \A c \in Flights : AreaLoad(flight[c]) =>
    \/ flight[c].area = view.area
    \/ \E d \in Flights : c \in flight[d].older /\ Fits(flight[d])
HeadingFits == Heading \/ \E d \in Flights : Fits(flight[d])
InOrder == ChangesFit /\ LoadsEndFit /\ HeadingFits

(* What the page itself deleted is no longer listed, or the call that      *)
(* deleted it is still under way and what else is shown then comes late.   *)
Missing(r) == state[r] = "gone" /\ r \notin meddled
Outdated(q, r) ==
  q.then = "show" /\ r \in Showing(q.list) /\ q.got[r] # "gone"
Deleting(q, r) ==
  /\ q.busy /\ q.list # "none" /\ r \in Showing(q.list)
  /\ q.op = "gone" /\ q.of = r /\ q.then \in {"done", "serve", "show"}
  /\ ~Outdated(q, r)
Tells(c, r) ==
  /\ Deleting(flight[c], r)
  /\ IsLoad(flight[c]) =>
       \A d \in Flights : Outdated(flight[d], r) => d \in flight[c].older
Told(r) ==
  /\ listed[r] = "gone"
  /\ \A d \in Flights : Outdated(flight[d], r) => flight[d].late
DeletedShown ==
  \A r \in Lists : Missing(r) => Told(r) \/ \E c \in Flights : Tells(c, r)
StillThere ==
  \A c \in Flights : flight[c].then = "perform" /\ flight[c].of \in Lists =>
    flight[c].what = "rule" \/ ~Missing(flight[c].of)

AdminSound ==
  /\ Overtaken \/ InOrder
  /\ DeletedShown /\ StillThere
  /\ strayed = {} /\ refused \subseteq {"rule"}

AdminInv ==
  /\ AdminTypeOK /\ FormsFilled /\ RowsKept /\ CallsMean /\ OneBusy
  /\ state["note"] # "gone"
  /\ "order" \in careless \/ AdminSound

LEMMA AdminNames ==
  /\ NoOne \notin Things /\ NoOne \notin Lists /\ "note" \notin Deletable
  /\ "note" \in Lists /\ Deletable \subseteq Lists /\ Bands \subseteq Lists
  /\ Persons \subseteq Things /\ Offices \subseteq Things
  /\ Bands \subseteq Things
  /\ Areas \subseteq Things /\ Settings \subseteq Things
  /\ \A t \in Persons \union Offices \union Areas \union Settings : t \notin Lists
BY NamesAssumption DEF Things, Lists, Deletable, Sod

(* What a form holds after the page was rendered anew.                     *)
LEMMA RenderFills ==
  ASSUME AdminTypeOK, FormsFilled, NEW p \in Views, Renders(p),
         careless \subseteq careless',
         \/ p.editing["user"] = view.editing["user"]
         \/ p.editing["user"] = NoOne \/ view.editing["user"] = NoOne
         \/ "user" \in careless',
         \/ p.tab # "sso" \/ view.tab = "sso" \/ "sso" \in p.there
         \/ "sso" \in careless'
  PROVE  FormsFilled' /\ inputs' \in [Forms -> Maybe(Things)] /\ view' = p
<1>1. view' = p /\ view \in Views
  BY DEF Renders, AdminTypeOK
<1>2. ASSUME NEW f \in Forms
      PROVE  /\ inputs'[f] \in {NoOne, inputs[f], Form(f, p).of}
             /\ Form(f, p).on =>
                  \/ inputs'[f] = Form(f, p).of /\
                       (f = "sso" => ~Form(f, view).on)
                  \/ /\ inputs'[f] = inputs[f] /\ Form(f, view).on
                     /\ Form(f, view).key = Form(f, p).key
  <2>1. inputs'[f] = LET was == Form(f, view)
                         is == Form(f, p)
                     IN  IF ~is.on THEN NoOne
                         ELSE IF was.on /\ was.key = is.key
                              THEN inputs[f] ELSE is.of
    BY DEF Renders
  <2>2. f = "sso" => Form(f, view).key = Form(f, p).key
    BY DEF Form, SsoForm
  <2> QED BY <2>1, <2>2
<1>3. ASSUME NEW f \in Forms
      PROVE  Form(f, p).of \in Maybe(Things)
  <2>1. p \in Views
    OBVIOUS
  <2>2. /\ p.editing["user"] \in Maybe(Things)
        /\ p.editing["rule"] \in Maybe(Things)
        /\ p.editing["entity"] \in Maybe(Things) /\ p.policy \in Maybe(Things)
    BY <2>1, AdminNames DEF Views, Edited, Maybe
  <2>3. \A s \in Settings : s \in Maybe(Things)
    BY AdminNames DEF Maybe
  <2>4. CASE f = "sso"
    BY <2>3, <2>4 DEF Form, SsoForm, Settings, Maybe
  <2>5. CASE f # "sso"
    BY <2>2, <2>3, <2>5 DEF Form, UserForm, EntityForm, RuleForm, PolicyForm,
       PlanForm, AiForm, EmailForm, Forms, Edited, Settings
  <2> QED BY <2>4, <2>5
<1>4. inputs' \in [Forms -> Maybe(Things)]
  <2>1. inputs' = [f \in Forms |-> inputs'[f]]
    BY DEF Renders
  <2>2. inputs \in [Forms -> Maybe(Things)]
    BY DEF AdminTypeOK
  <2> QED BY <1>2, <1>3, <2>1, <2>2 DEF Maybe
<1>5. ASSUME NEW f \in Forms, Form(f, p).on
      PROVE  inputs'[f] = Meant(f, p) \/ f \in {"user", "sso"} \intersect careless'
  <2>1. CASE inputs'[f] = Form(f, p).of /\ (f = "sso" => ~Form(f, view).on)
    <3>1. CASE f = "sso"
      BY <1>5, <2>1, <3>1 DEF Form, SsoForm, Meant
    <3> QED BY <2>1, <3>1 DEF Meant
  <2>2. CASE /\ inputs'[f] = inputs[f] /\ Form(f, view).on
             /\ Form(f, view).key = Form(f, p).key
    <3>1. inputs[f] = Meant(f, view) \/ f \in {"user", "sso"} \intersect careless
      BY <2>2 DEF FormsFilled, Filled
    <3>2. f # "user" => Meant(f, view) = Meant(f, p)
      BY <1>5, <2>2 DEF Form, EntityForm, RuleForm, PolicyForm, SsoForm,
         PlanForm, AiForm, EmailForm, Forms, Edited, Settings, Meant
    <3>3. f = "user" => Meant(f, view) = Meant(f, p) \/ "user" \in careless'
      BY <1>5, <2>2 DEF Form, UserForm, Meant
    <3> QED BY <2>2, <3>1, <3>2, <3>3
  <2> QED BY <1>2, <1>5, <2>1, <2>2
<1> QED BY <1>1, <1>4, <1>5 DEF FormsFilled, Filled

LEMMA CallFields ==
  ASSUME NEW q \in FlightRec
  PROVE  /\ q.then \in {"idle", "perform", "done", "serve", "show"}
         /\ q.op \in RowStates \union {"load", "save", "add"}
         /\ q.of \in Maybe(Things \union Lists) /\ q.sends \in Maybe(Things)
         /\ q.area \in Maybe(Areas) /\ q.busy \in BOOLEAN /\ q.late \in BOOLEAN
         /\ q.list \in {"none", "refresh", "workflow", "users", "delegations"}
         /\ q.got \in Maybe([Lists -> RowStates]) /\ q.older \subseteq Flights
BY DEF FlightRec

LEMMA GroundedCall ==
  /\ Grounded \in FlightRec /\ Grounded.then = "idle" /\ ~Grounded.busy
  /\ Grounded.op = "load" /\ ~IsLoad(Grounded) /\ ~AreaLoad(Grounded)
BY DEF Grounded, FlightRec, Maybe, IsLoad, AreaLoad

(* A step of one call leaves what the others are about; it may drop itself *)
(* from those they were asked after, and mark them as late.                *)
Alike(p, q) ==
  /\ p.then = q.then /\ p.what = q.what /\ p.op = q.op /\ p.of = q.of
  /\ p.sends = q.sends /\ p.area = q.area /\ p.list = q.list
  /\ p.busy = q.busy /\ p.got = q.got
Steady(c) ==
  /\ flight' \in [Flights -> FlightRec]
  /\ \A d \in Flights \ {c} :
       /\ Alike(flight'[d], flight[d])
       /\ flight[d].older \ {c} \subseteq flight'[d].older
       /\ flight[d].late => flight'[d].late

LEMMA OneCallMoves ==
  ASSUME AdminTypeOK, NEW c \in Flights, NEW q \in FlightRec,
         flight' = [flight EXCEPT ![c] = q]
  PROVE  /\ Steady(c) /\ flight'[c] = q
         /\ \A d \in Flights \ {c} : flight'[d] = flight[d]
BY DEF AdminTypeOK, Steady, Alike

LEMMA OneCallLands ==
  ASSUME AdminTypeOK, NEW c \in Flights, flight' = Landed(c)
  PROVE  Steady(c) /\ flight'[c] = Grounded
<1>1. ASSUME NEW d \in Flights
      PROVE  /\ flight'[d] = IF d = c THEN Grounded
                             ELSE [flight[d] EXCEPT !.older = @ \ {c}]
             /\ flight'[d] \in FlightRec
             /\ d # c => /\ Alike(flight'[d], flight[d])
                         /\ flight'[d].older = flight[d].older \ {c}
                         /\ flight'[d].late = flight[d].late
  <2>1. PICK q : q = flight[d]
    OBVIOUS
  <2>2. q \in FlightRec
    BY <2>1 DEF AdminTypeOK
  <2>3. flight'[d] = IF d = c THEN Grounded ELSE [q EXCEPT !.older = q.older \ {c}]
    BY <2>1 DEF Landed
  <2> QED BY <2>1, <2>2, <2>3, GroundedCall DEF FlightRec, Alike
<1>2. flight' \in [Flights -> FlightRec]
  BY <1>1 DEF Landed
<1> QED BY <1>1, <1>2 DEF Steady

(* What the calls are about to do.                                         *)
LEMMA MeaningStays ==
  ASSUME NEW q, NEW p, Alike(p, q), Performs(q) /\ AnswerFits(q),
         careless \subseteq careless'
  PROVE  Performs(p)' /\ AnswerFits(p)
BY DEF Alike, Performs, AnswerFits, Adding, Saving, Pressing, Excused

LEMMA CallsStayMeant ==
  ASSUME CallsMean, OneBusy, NEW c \in Flights, Steady(c),
         careless \subseteq careless',
         Performs(flight[c])', AnswerFits(flight[c])',
         flight'[c].busy => flight[c].busy \/ ~Busy
  PROVE  CallsMean' /\ OneBusy'
<1>1. ASSUME NEW d \in Flights \ {c}
      PROVE  Performs(flight[d])' /\ AnswerFits(flight[d])'
  <2>1. Alike(flight'[d], flight[d])
    BY DEF Steady
  <2>2. Performs(flight[d]) /\ AnswerFits(flight[d])
    BY DEF CallsMean
  <2>3. \A p : Alike(p, flight[d]) => Performs(p)' /\ AnswerFits(p)
    BY <2>2, MeaningStays
  <2>4. PICK p : p = flight'[d]
    OBVIOUS
  <2> QED BY <2>1, <2>3, <2>4
<1>2. CallsMean'
  BY <1>1 DEF CallsMean
<1>3. ASSUME NEW d \in Flights, NEW e \in Flights, flight'[d].busy, flight'[e].busy
      PROVE  d = e
  <2>1. \A x \in Flights \ {c} : flight'[x].busy = flight[x].busy
    BY DEF Steady, Alike
  <2> QED BY <1>3, <2>1 DEF OneBusy, Busy
<1> QED BY <1>2, <1>3 DEF OneBusy

(* What a step of a call must respect: the order of the loads, ...         *)
HasArea(c) ==
  \/ flight'[c].area = view.area
  \/ flight[c].then \in {"perform", "done"} /\ flight'[c].area = flight[c].area
KeepsItsTurn(c) ==
  /\ flight'[c].then \in {"perform", "done"} => HasArea(c)
  /\ AreaLoad(flight[c]) =>
       /\ AreaLoad(flight'[c]) /\ flight'[c].area = flight[c].area
       /\ flight[c].older \subseteq flight'[c].older
       /\ \A d \in Flights : c \in flight[d].older => c \in flight'[d].older
  /\ AreaLoad(flight'[c]) => AreaLoad(flight[c]) \/ HasArea(c)
  /\ IsLoad(flight[c]) /\ flight[c].late =>
       IsLoad(flight'[c]) /\ flight'[c].late

(* ... what was deleted, ...                                               *)
KeepsDeleting(c) ==
  \A r \in Lists : Missing(r) =>
    /\ Outdated(flight'[c], r) =>
         /\ Outdated(flight[c], r) /\ (flight[c].late => flight'[c].late)
         /\ \A d \in Flights : c \in flight[d].older => c \in flight'[d].older
    /\ Deleting(flight[c], r) =>
         /\ Deleting(flight'[c], r)
         /\ IsLoad(flight'[c]) =>
              \/ IsLoad(flight[c]) /\ flight[c].older \subseteq flight'[c].older
              \/ \A d \in Flights \ {c} :
                   IsLoad(flight'[d]) => d \in flight'[c].older

(* ... and what is still there.                                            *)
PressesWhatIs(c) ==
  flight'[c].then = "perform" /\ flight'[c].of \in Lists =>
    flight'[c].what = "rule" \/ ~Missing(flight'[c].of)

(* The loads keep their order.                                             *)
LEMMA OrderStays ==
  ASSUME Overtaken \/ InOrder, NEW c \in Flights, Steady(c),
         view'.area = view.area, Overtaken \/ (Heading => Heading'),
         KeepsItsTurn(c)
  PROVE  (Overtaken \/ InOrder)'
<1>1. \A d \in Flights \ {c} :
        /\ flight'[d].then = flight[d].then /\ flight'[d].area = flight[d].area
        /\ flight'[d].list = flight[d].list
        /\ flight[d].older \ {c} \subseteq flight'[d].older
        /\ flight[d].late => flight'[d].late
  BY DEF Steady, Alike
<1>2. CASE Overtaken
  <2>1. PICK d \in Flights : IsLoad(flight[d]) /\ flight[d].late
    BY <1>2 DEF Overtaken
  <2>2. IsLoad(flight'[d]) /\ flight'[d].late
    BY <1>1, <2>1 DEF IsLoad, KeepsItsTurn
  <2> QED BY <2>2 DEF Overtaken, IsLoad
<1>3. CASE InOrder /\ ~Overtaken
  <2>1. ChangesFit'
    BY <1>1, <1>3 DEF InOrder, ChangesFit, KeepsItsTurn, HasArea
  <2>0. HasArea(c) => flight'[c].area = view'.area
    BY <1>3 DEF InOrder, ChangesFit, HasArea
  <2>2. ASSUME NEW d \in Flights, Fits(flight[d])
        PROVE  Fits(flight[d])'
    BY <1>1, <2>2 DEF Fits, AreaLoad, IsLoad, KeepsItsTurn
  <2>3. HeadingFits'
    BY <1>3, <2>2 DEF InOrder, HeadingFits
  <2>4. ASSUME NEW x \in Flights, AreaLoad(flight[x])', flight'[x].area # view'.area
        PROVE  \E d \in Flights : x \in flight'[d].older /\ Fits(flight[d])'
    <3>1. AreaLoad(flight[x]) /\ flight[x].area = flight'[x].area
      BY <1>1, <2>0, <2>4 DEF AreaLoad, IsLoad, KeepsItsTurn
    <3>2. PICK d \in Flights : x \in flight[d].older /\ Fits(flight[d])
      BY <1>3, <2>4, <3>1 DEF InOrder, LoadsEndFit
    <3>3. x \in flight'[d].older
      BY <1>1, <3>1, <3>2 DEF Fits, KeepsItsTurn
    <3> QED BY <2>2, <3>2, <3>3
  <2>5. LoadsEndFit'
    BY <2>4 DEF LoadsEndFit
  <2> QED BY <2>1, <2>3, <2>5 DEF InOrder
<1> QED BY <1>2, <1>3

(* What was deleted stays on its way to be shown.                          *)
LEMMA DeletionsStay ==
  ASSUME DeletedShown, NEW c \in Flights, Steady(c),
         \A r \in Lists : Missing(r)' => Missing(r), UNCHANGED listed,
         KeepsDeleting(c)
  PROVE  DeletedShown'
<1> SUFFICES ASSUME NEW r \in Lists, Missing(r)'
             PROVE  Told(r)' \/ \E d \in Flights : Tells(d, r)'
  BY DEF DeletedShown
<1>0. Missing(r)
  OBVIOUS
<1>1. \A d \in Flights \ {c} :
        /\ Outdated(flight'[d], r) <=> Outdated(flight[d], r)
        /\ Deleting(flight'[d], r) <=> Deleting(flight[d], r)
        /\ IsLoad(flight'[d]) <=> IsLoad(flight[d])
        /\ flight[d].older \ {c} \subseteq flight'[d].older
        /\ flight[d].late => flight'[d].late
  BY DEF Steady, Alike, Outdated, Deleting, IsLoad
<1>2. CASE Told(r)
  BY <1>0, <1>1, <1>2 DEF Told, KeepsDeleting
<1>3. ASSUME NEW d \in Flights, Tells(d, r)
      PROVE  Tells(d, r)'
  <2>1. CASE d = c
    <3>1. Deleting(flight'[c], r) /\ ~Outdated(flight'[c], r)
      BY <1>0, <1>3, <2>1 DEF Tells, Deleting, KeepsDeleting
    <3>2. ASSUME IsLoad(flight'[c]), NEW e \in Flights, Outdated(flight'[e], r)
          PROVE  e \in flight'[c].older
      <4>1. e # c /\ Outdated(flight[e], r) /\ IsLoad(flight'[e])
        BY <1>0, <1>1, <3>1, <3>2 DEF Outdated, IsLoad, KeepsDeleting
      <4> QED BY <1>0, <1>3, <2>1, <3>2, <4>1 DEF Tells, KeepsDeleting
    <3> QED BY <2>1, <3>1, <3>2 DEF Tells
  <2>2. CASE d # c
    <3>1. Deleting(flight'[d], r) /\ IsLoad(flight'[d]) <=> Deleting(flight[d], r) /\ IsLoad(flight[d])
      BY <1>1, <2>2
    <3>2. ASSUME IsLoad(flight'[d]), NEW e \in Flights, Outdated(flight'[e], r)
          PROVE  e \in flight'[d].older
      <4>1. Outdated(flight[e], r) /\ e \in flight[d].older
        BY <1>0, <1>1, <1>3, <2>2, <3>2 DEF Tells, KeepsDeleting
      <4> QED BY <1>0, <1>1, <2>2, <3>2, <4>1 DEF KeepsDeleting
    <3> QED BY <1>1, <1>3, <2>2, <3>2 DEF Tells
  <2> QED BY <2>1, <2>2
<1> QED BY <1>0, <1>2, <1>3 DEF DeletedShown

LEMMA PressedStayThere ==
  ASSUME StillThere, NEW c \in Flights, Steady(c),
         \A r \in Lists : Missing(r)' => Missing(r),
         PressesWhatIs(c)
  PROVE  StillThere'
<1>1. \A d \in Flights \ {c} : Alike(flight'[d], flight[d])
  BY DEF Steady
<1>2. ASSUME NEW d \in Flights, flight'[d].then = "perform", flight'[d].of \in Lists
      PROVE  flight'[d].what = "rule" \/ ~Missing(flight'[d].of)
  BY <1>1, <1>2 DEF StillThere, Alike, PressesWhatIs
<1>3. ASSUME NEW d \in Flights, flight'[d].then = "perform", flight'[d].of \in Lists
      PROVE  flight'[d].what = "rule" \/ ~Missing(flight[d].of)'
  <2>1. PICK r \in Lists : r = flight'[d].of
    BY <1>3
  <2>2. flight'[d].what = "rule" \/ ~Missing(r)
    BY <1>2, <1>3, <2>1
  <2>3. Missing(flight[d].of)' => Missing(r)'
    BY <2>1 DEF Missing
  <2> QED BY <2>2, <2>3
<1> QED BY <1>3 DEF StillThere

(* A step of one call that changes no row.                                 *)
LEMMA FlightMoves ==
  ASSUME AdminInv, NEW c \in Flights, Steady(c),
         kept' \in [Things -> Maybe(Things)], RowsKept',
         state' \in [Lists -> RowStates], listed' \in [Lists -> RowStates],
         state'["note"] # "gone", careless \subseteq careless',
         view' \in Views, inputs' \in [Forms -> Maybe(Things)], FormsFilled',
         Performs(flight[c])', AnswerFits(flight'[c]),
         flight'[c].busy => flight[c].busy \/ ~Busy,
         "order" \in careless' \/ AdminSound'
  PROVE  AdminInv'
<1>1. CallsMean' /\ OneBusy'
  BY CallsStayMeant DEF AdminInv
<1>2. AdminTypeOK'
  BY DEF AdminTypeOK, Steady
<1> QED BY <1>1, <1>2 DEF AdminInv

LEMMA CallMovesOn ==
  ASSUME AdminInv, NEW c \in Flights, Steady(c),
         UNCHANGED <<kept, state, listed, meddled>>, careless \subseteq careless',
         view' \in Views, inputs' \in [Forms -> Maybe(Things)], FormsFilled',
         Performs(flight[c])', AnswerFits(flight'[c]),
         flight'[c].busy => flight[c].busy \/ ~Busy,
         \/ "order" \in careless'
         \/ /\ \/ (Overtaken \/ InOrder)'
               \/ /\ view'.area = view.area /\ KeepsItsTurn(c)
                  /\ Overtaken \/ (Heading => Heading')
            /\ strayed' = strayed /\ refused' \subseteq refused \union {"rule"}
            /\ KeepsDeleting(c) /\ PressesWhatIs(c)
  PROVE  AdminInv'
<1>2. RowsKept'
  BY DEF AdminInv, RowsKept, Excused
<1>3. ASSUME "order" \notin careless'
      PROVE  AdminSound'
  <2>1. AdminSound
    BY <1>3 DEF AdminInv
  <2>2. \A r \in Lists : Missing(r)' => Missing(r)
    BY DEF Missing
  <2>3. DeletedShown' /\ StillThere'
    BY <1>3, <2>1, <2>2, DeletionsStay, PressedStayThere DEF AdminSound
  <2>4. (Overtaken \/ InOrder)'
    BY <1>3, <2>1, OrderStays DEF AdminSound
  <2> QED BY <1>3, <2>1, <2>3, <2>4 DEF AdminSound
<1>4. /\ kept' \in [Things -> Maybe(Things)] /\ state'["note"] # "gone"
      /\ state' \in [Lists -> RowStates] /\ listed' \in [Lists -> RowStates]
  BY DEF AdminInv, AdminTypeOK
<1> QED BY <1>2, <1>3, <1>4, FlightMoves

(* A step of the page alone.                                               *)
LEMMA PageTurns ==
  ASSUME AdminInv, UNCHANGED <<kept, state, listed, meddled, refused, flight>>,
         careless \subseteq careless', NEW p \in Views, Renders(p),
         p.area = view.area, p.policy = view.policy, p.ruled = view.ruled,
         \/ p.editing["user"] = view.editing["user"]
         \/ p.editing["user"] = NoOne \/ view.editing["user"] = NoOne
         \/ "user" \in careless',
         \/ p.tab # "sso" \/ view.tab = "sso" \/ "sso" \in p.there
         \/ "sso" \in careless',
         "order" \in careless' \/ strayed' = strayed
  PROVE  AdminInv'
<1>1. FormsFilled' /\ inputs' \in [Forms -> Maybe(Things)] /\ view' = p
  BY RenderFills DEF AdminInv
<1>2. CallsMean' /\ OneBusy' /\ RowsKept'
  BY DEF AdminInv, CallsMean, OneBusy, RowsKept, Performs, AnswerFits, Adding,
     Saving, Pressing, Excused
<1>3. ASSUME "order" \notin careless'
      PROVE  AdminSound'
  <2>1. AdminSound
    BY <1>3 DEF AdminInv
  <2>2. (Overtaken \/ InOrder)'
    BY <1>1, <2>1 DEF AdminSound, Overtaken, InOrder, ChangesFit, LoadsEndFit,
       HeadingFits, Heading, Fits
  <2>3. DeletedShown' /\ StillThere'
    BY <2>1 DEF AdminSound, DeletedShown, StillThere, Missing, Told, Tells
  <2> QED BY <1>3, <2>1, <2>2, <2>3 DEF AdminSound
<1> QED BY <1>1, <1>2, <1>3 DEF AdminInv, AdminTypeOK

LEMMA ViewsChange ==
  ASSUME NEW p \in Views
  PROVE  /\ \A t \in Tabs : LET q == [p EXCEPT !.tab = t] IN
              /\ q \in Views /\ q.tab = t /\ q.area = p.area
              /\ q.policy = p.policy
              /\ q.ruled = p.ruled /\ q.editing = p.editing
              /\ q.there = p.there
         /\ \A a \in Areas : LET q == [p EXCEPT !.area = a] IN
              /\ q \in Views /\ q.tab = p.tab /\ q.area = a
              /\ q.policy = p.policy
              /\ q.ruled = p.ruled /\ q.editing = p.editing
              /\ q.there = p.there
         /\ \A a \in Maybe(Areas) : LET q == [p EXCEPT !.policy = a] IN
              /\ q \in Views /\ q.tab = p.tab /\ q.area = p.area
              /\ q.policy = a
              /\ q.ruled = p.ruled /\ q.editing = p.editing
              /\ q.there = p.there
         /\ p.area \in Areas /\ p.policy \in Maybe(Areas) /\ p.tab \in Tabs
         /\ p.editing \in [Edited -> Maybe(Things)]
         /\ p.editing["user"] \in Maybe(Persons)
         /\ p.editing["entity"] \in Maybe(Offices)
         /\ p.editing["rule"] \in Maybe(Bands)
BY DEF Views

Edits(p, f, t) == [p EXCEPT !.editing[f] = t]

Reads(q, p, f, t) ==
  /\ q.tab = p.tab /\ q.area = p.area /\ q.policy = p.policy
  /\ q.ruled = p.ruled /\ q.there = p.there /\ q.editing[f] = t
  /\ \A g \in Edited \ {f} : q.editing[g] = p.editing[g]
Editable(f, t) ==
  \/ t = NoOne
  \/ f = "user" /\ t \in Persons
  \/ f = "entity" /\ t \in Offices
  \/ f = "rule" /\ t \in Bands

LEMMA ViewsEdit ==
  ASSUME NEW p \in Views, NEW f \in Edited, NEW t, Editable(f, t)
  PROVE  Edits(p, f, t) \in Views /\ Reads(Edits(p, f, t), p, f, t)
<1>1. t \in Maybe(Things)
  BY DEF Maybe, Things, Editable
<1>2. p.editing \in [Edited -> Maybe(Things)]
  BY ViewsChange
<1>3. PICK e : e = [p.editing EXCEPT ![f] = t]
  OBVIOUS
<1>4. /\ e \in [Edited -> Maybe(Things)] /\ e[f] = t
      /\ \A g \in Edited \ {f} : e[g] = p.editing[g]
  BY <1>1, <1>2, <1>3
<1>5. /\ e["user"] \in Maybe(Persons) /\ e["entity"] \in Maybe(Offices)
      /\ e["rule"] \in Maybe(Bands)
  BY <1>4, ViewsChange DEF Edited, Maybe, Editable
<1>6. Edits(p, f, t) = [p EXCEPT !.editing = e]
  BY <1>3 DEF Views, Edits
<1> QED BY <1>4, <1>5, <1>6 DEF Views, Reads

(* The parts of a step that leave the page as it is shown.                 *)
LEMMA PageStays ==
  ASSUME AdminInv, UNCHANGED <<view, inputs>>, careless \subseteq careless'
  PROVE  /\ FormsFilled' /\ view' \in Views
         /\ inputs' \in [Forms -> Maybe(Things)]
         /\ view'.area = view.area /\ (Heading => Heading')
BY DEF AdminInv, AdminTypeOK, FormsFilled, Filled, Heading

(* Who waits handles the rules of the module that is chosen.               *)
LEMMA HandledInOrder ==
  ASSUME AdminInv, NEW r \in Bands, Handles(r)
  PROVE  /\ careless \subseteq careless' /\ ~Busy
         /\ "order" \in careless' \/ strayed' = strayed
<1>1. careless \subseteq careless' /\ (Loading => "order" \in careless')
  BY DEF Handles, Careless
<1>2. ASSUME "order" \notin careless'
      PROVE  strayed' = strayed
  <2>1. AdminSound /\ \A d \in Flights : ~IsLoad(flight[d])
    BY <1>1, <1>2 DEF AdminInv, Loading, IsLoad
  <2>2. Heading
    BY <2>1 DEF AdminSound, Overtaken, InOrder, HeadingFits, Fits, AreaLoad
  <2> QED BY <2>2 DEF Handles, Heading
<1> QED BY <1>1, <1>2 DEF Handles

LEMMA TabIsSet ==
  ASSUME AdminInv, NEW t \in Tabs, SetTab(t)
  PROVE  AdminInv'
<1>1. PICK p : p = [view EXCEPT !.tab = t]
  OBVIOUS
<1>2. /\ p \in Views /\ p.tab = t /\ p.area = view.area
      /\ p.policy = view.policy
      /\ p.ruled = view.ruled /\ p.editing = view.editing
      /\ p.there = view.there
  BY <1>1, ViewsChange DEF AdminInv, AdminTypeOK
<1>3. /\ Renders(p) /\ Careless("sso", t = "sso" /\ "sso" \notin view.there)
      /\ UNCHANGED <<kept, state, listed, meddled, refused, flight>>
      /\ strayed' = strayed
  BY <1>1 DEF SetTab, record
<1>4. /\ careless \subseteq careless'
      /\ t = "sso" /\ "sso" \notin view.there => "sso" \in careless'
  BY <1>3 DEF Careless
<1> QED BY <1>2, <1>3, <1>4, PageTurns

LEMMA UserIsEdited ==
  ASSUME AdminInv, NEW u \in Persons, EditUser(u)
  PROVE  AdminInv'
<1>0. "user" \in Edited /\ Editable("user", u)
  BY DEF Edited, Editable
<1>1. PICK p : p = Edits(view, "user", u)
  OBVIOUS
<1>2. p \in Views /\ Reads(p, view, "user", u)
  BY <1>0, <1>1, ViewsEdit DEF AdminInv, AdminTypeOK
<1>3. /\ Renders(p) /\ Careless("user", view.editing["user"] \notin {u, NoOne})
      /\ UNCHANGED <<kept, state, listed, meddled, refused, flight>>
      /\ strayed' = strayed
  BY <1>1 DEF EditUser, Opens, record, Edits
<1>4. /\ careless \subseteq careless'
      /\ view.editing["user"] \notin {u, NoOne} => "user" \in careless'
  BY <1>3 DEF Careless
<1> QED BY <1>2, <1>3, <1>4, PageTurns DEF Reads

LEMMA EntityIsEdited ==
  ASSUME AdminInv, NEW e \in Offices, EditEntity(e)
  PROVE  AdminInv'
<1>0. "entity" \in Edited /\ Editable("entity", e)
  BY DEF Edited, Editable
<1>1. PICK p : p = Edits(view, "entity", e)
  OBVIOUS
<1>2. p \in Views /\ Reads(p, view, "entity", e)
  BY <1>0, <1>1, ViewsEdit DEF AdminInv, AdminTypeOK
<1>3. /\ Renders(p) /\ careless' = careless
      /\ UNCHANGED <<kept, state, listed, meddled, refused, flight>>
      /\ strayed' = strayed
  BY <1>1 DEF EditEntity, Opens, record, Edits
<1>4. p.editing["user"] = view.editing["user"]
  BY <1>2 DEF Edited, Reads
<1> QED BY <1>2, <1>3, <1>4, PageTurns DEF Reads

LEMMA RuleIsEdited ==
  ASSUME AdminInv, NEW r \in Bands, EditRule(r)
  PROVE  AdminInv'
<1>0. "rule" \in Edited /\ Editable("rule", r)
  BY DEF Edited, Editable
<1>1. PICK p : p = Edits(view, "rule", r)
  OBVIOUS
<1>2. p \in Views /\ Reads(p, view, "rule", r)
  BY <1>0, <1>1, ViewsEdit DEF AdminInv, AdminTypeOK
<1>3. /\ Renders(p) /\ Handles(r)
      /\ UNCHANGED <<kept, state, listed, meddled, refused, flight>>
  BY <1>1 DEF EditRule, Opens, Edits
<1>4. p.editing["user"] = view.editing["user"]
  BY <1>2 DEF Edited, Reads
<1> QED BY <1>2, <1>3, <1>4, HandledInOrder, PageTurns DEF Reads

LEMMA EditIsCancelled ==
  ASSUME AdminInv, NEW f \in Edited, Cancel(f)
  PROVE  AdminInv'
<1>0. f \in Edited /\ Editable(f, NoOne)
  BY DEF Edited, Editable
<1>1. PICK p : p = Edits(view, f, NoOne)
  OBVIOUS
<1>2. p \in Views /\ Reads(p, view, f, NoOne)
  BY <1>0, <1>1, ViewsEdit DEF AdminInv, AdminTypeOK
<1>3. /\ Renders(p) /\ careless' = careless
      /\ UNCHANGED <<kept, state, listed, meddled, refused, flight>>
      /\ strayed' = strayed
  BY <1>1 DEF Cancel, record, Edits
<1>4. p.editing["user"] \in {view.editing["user"], NoOne}
  BY <1>2 DEF Edited, Reads
<1> QED BY <1>2, <1>3, <1>4, PageTurns DEF Reads

(* A call is made.                                                         *)
Sent(q, list) == [q EXCEPT !.then = "perform", !.area = view.area, !.list = list]
CallLists == {"none", "refresh", "workflow", "users", "delegations"}

LEMMA SentCall ==
  ASSUME AdminTypeOK, NEW q \in FlightRec, NEW list \in CallLists,
         NEW p, p = Sent(q, list)
  PROVE  /\ p \in FlightRec /\ p.then = "perform" /\ p.area = view.area
         /\ p.list = list /\ p.what = q.what /\ p.op = q.op /\ p.of = q.of
         /\ p.sends = q.sends /\ p.busy = q.busy
<1>1. view.area \in Areas
  BY ViewsChange DEF AdminTypeOK
<1> QED BY <1>1 DEF Sent, FlightRec, CallLists, Maybe

LEMMA CallSent ==
  ASSUME AdminInv, NEW c \in Flights, NEW q \in FlightRec,
         NEW list \in CallLists, Sends(c, q, list),
         careless \subseteq careless', q.busy => ~Busy,
         NEW p, p = Sent(q, list), Performs(p)',
         \/ "order" \in careless'
         \/ /\ strayed' = strayed
            /\ q.of \in Lists => q.what = "rule" \/ ~Missing(q.of)
  PROVE  AdminInv'
<1>1. AdminTypeOK
  BY DEF AdminInv
<1>2. /\ p \in FlightRec /\ p.then = "perform" /\ p.area = view.area
      /\ p.what = q.what /\ p.of = q.of /\ p.busy = q.busy
  BY <1>1, SentCall
<1>3. /\ flight' = [flight EXCEPT ![c] = p] /\ flight[c] = Grounded
      /\ UNCHANGED <<kept, state, view, listed, inputs, meddled, refused>>
  BY DEF Sends, Sent, Vacant
<1>4. Steady(c) /\ flight'[c] = p
  BY <1>1, <1>2, <1>3, OneCallMoves
<1>5. KeepsItsTurn(c)
  BY <1>2, <1>3, <1>4, GroundedCall DEF KeepsItsTurn, HasArea, AreaLoad, IsLoad
<1>6. KeepsDeleting(c)
  BY <1>2, <1>3, <1>4, GroundedCall DEF KeepsDeleting, Outdated, Deleting
<1>7. "order" \in careless' \/ (strayed' = strayed /\ PressesWhatIs(c))
  BY <1>2, <1>4 DEF PressesWhatIs
<1>8. Performs(flight[c])'
  BY <1>4
<1>9. AnswerFits(flight'[c]) /\ (flight'[c].busy => flight[c].busy \/ ~Busy)
  BY <1>2, <1>4 DEF AnswerFits
<1> QED
  BY <1>3, <1>4, <1>5, <1>6, <1>7, <1>8, <1>9, PageStays, CallMovesOn

(* A form is submitted.                                                    *)
Filling(f, thing) ==
  [Grounded EXCEPT !.what = f, !.op = "save", !.of = thing,
                   !.sends = inputs[f], !.busy = TRUE]

LEMMA FormSubmitted ==
  ASSUME AdminInv, NEW c \in Flights, NEW f \in Forms, NEW thing \in Things,
         NEW list \in CallLists, Submits(c, f, thing, list),
         careless \subseteq careless', thing \in Lists => f = "rule",
         inputs[f] = thing \/ Excused(thing)'
  PROVE  AdminInv'
<1>1. PICK q : q = Filling(f, thing)
  OBVIOUS
<1>2. inputs[f] \in Maybe(Things)
  BY DEF AdminInv, AdminTypeOK
<1>3. /\ q \in FlightRec /\ q.what = f /\ q.op = "save" /\ q.of = thing
      /\ q.sends = inputs[f] /\ q.busy
  BY <1>1, <1>2 DEF Filling, Grounded, FlightRec, Maybe
<1>4. Sends(c, q, list) /\ ~Busy /\ strayed' = strayed
  BY <1>1 DEF Submits, Filling
<1>5. PICK p : p = Sent(q, list)
  OBVIOUS
<1>6. /\ p.op = "save" /\ p.of = thing /\ p.busy /\ p.what = f
      /\ p.sends = inputs[f]
  BY <1>3, <1>5, SentCall DEF AdminInv
<1>7. Performs(p)'
  <2>1. p.sends = p.of \/ Excused(thing)'
    BY <1>6
  <2> QED BY <1>6, <2>1 DEF Performs, Saving
<1> QED BY <1>3, <1>4, <1>5, <1>7, CallSent

LEMMA FormsAreSubmitted ==
  ASSUME AdminInv, NEW c \in Flights,
         \/ OnUpdateUser(c) \/ OnUpdateEntity(c) \/ OnUpdateRule(c)
         \/ OnSavePlan(c) \/ SaveSso(c) \/ SaveAi(c) \/ SaveEmail(c)
  PROVE  AdminInv'
<1>1. view \in Views
  BY DEF AdminInv, AdminTypeOK
<1>2. /\ view.editing["user"] \in Maybe(Persons)
      /\ view.editing["entity"] \in Maybe(Offices)
      /\ view.editing["rule"] \in Maybe(Bands)
  BY <1>1, ViewsChange
<1>3. ASSUME NEW f \in Forms, Form(f, view).on
      PROVE  inputs[f] = Meant(f, view) \/ f \in {"user", "sso"} \intersect careless
  BY <1>3 DEF AdminInv, FormsFilled, Filled
<1>4. CASE OnUpdateUser(c)
  <2>1. PICK u : u = view.editing["user"]
    OBVIOUS
  <2>2. Submits(c, "user", u, "users") /\ careless' = careless
    BY <1>4, <2>1 DEF OnUpdateUser
  <2>3. Form("user", view).on /\ "user" \in Forms
    BY <2>2 DEF Submits, Forms, Edited
  <2>4. u \in Persons /\ Meant("user", view) = u
    BY <1>2, <2>1, <2>3 DEF Form, UserForm, Maybe, Meant
  <2>5. inputs["user"] = u \/ "user" \in careless
    BY <1>3, <2>3, <2>4
  <2>6. inputs["user"] = u \/ Excused(u)'
    BY <2>2, <2>4, <2>5 DEF Excused
  <2>7. u \in Things /\ u \notin Lists /\ "users" \in CallLists
    BY <2>4, AdminNames DEF CallLists
  <2> QED BY <2>2, <2>3, <2>6, <2>7, FormSubmitted
<1>5. CASE OnUpdateEntity(c)
  <2>1. PICK u : u = view.editing["entity"]
    OBVIOUS
  <2>2. Submits(c, "entity", u, "refresh") /\ careless' = careless
    BY <1>5, <2>1 DEF OnUpdateEntity
  <2>3. Form("entity", view).on /\ "entity" \in Forms
    BY <2>2 DEF Submits, Forms, Edited
  <2>4. u \in Offices /\ Meant("entity", view) = u
    BY <1>2, <2>1, <2>3 DEF Form, EntityForm, Maybe, Meant
  <2>5. inputs["entity"] = u
    BY <1>3, <2>3, <2>4
  <2>7. u \in Things /\ u \notin Lists /\ "refresh" \in CallLists
    BY <2>4, AdminNames DEF CallLists
  <2> QED BY <2>2, <2>3, <2>5, <2>7, FormSubmitted
<1>6. CASE OnUpdateRule(c)
  <2>1. PICK u : u = view.editing["rule"]
    OBVIOUS
  <2>2. Submits(c, "rule", u, "workflow") /\ careless' = careless
    BY <1>6, <2>1 DEF OnUpdateRule
  <2>3. Form("rule", view).on /\ "rule" \in Forms
    BY <2>2 DEF Submits, Forms, Edited
  <2>4. u \in Bands /\ Meant("rule", view) = u
    BY <1>2, <2>1, <2>3 DEF Form, RuleForm, Maybe, Meant
  <2>5. inputs["rule"] = u
    BY <1>3, <2>3, <2>4
  <2>7. u \in Things /\ "workflow" \in CallLists
    BY <2>4, AdminNames DEF CallLists
  <2> QED BY <2>2, <2>3, <2>5, <2>7, FormSubmitted
<1>7. ASSUME NEW s \in Settings, NEW list \in CallLists, Submits(c, s, s, list),
             UNCHANGED careless
      PROVE  AdminInv'
  <2>1. Form(s, view).on /\ s \in Forms
    BY <1>7 DEF Submits, Forms
  <2>2. Meant(s, view) = s
    BY DEF Meant, Form, PlanForm, AiForm, EmailForm, Settings
  <2>3. inputs[s] = s \/ (s = "sso" /\ "sso" \in careless)
    BY <1>3, <2>1, <2>2 DEF Settings
  <2>4. inputs[s] = s \/ Excused(s)'
    BY <1>7, <2>3 DEF Excused
  <2>5. s \in Things /\ s \notin Lists
    BY AdminNames
  <2> QED BY <1>7, <2>1, <2>4, <2>5, FormSubmitted
<1>8. CASE OnSavePlan(c) \/ SaveSso(c) \/ SaveAi(c) \/ SaveEmail(c)
  BY <1>7, <1>8 DEF OnSavePlan, SaveSso, SaveAi, SaveEmail, Settings, CallLists
<1> QED BY <1>4, <1>5, <1>6, <1>8

(* The policy is saved.                                                    *)
LEMMA PolicyIsSaved ==
  ASSUME AdminInv, NEW c \in Flights, OnSavePolicy(c)
  PROVE  AdminInv'
<1>1. view.area \in Areas
  BY ViewsChange DEF AdminInv, AdminTypeOK
<1>2. PICK a : a = view.area /\ a \in Areas
  BY <1>1
<1>3. /\ Submits(c, "policy", a, "workflow") /\ careless \subseteq careless'
      /\ Loading => "order" \in careless'
  BY <1>2 DEF OnSavePolicy, Careless
<1>4. Form("policy", view).on /\ "policy" \in Forms
  BY <1>3 DEF Submits, Forms
<1>5. inputs["policy"] = view.policy
  BY <1>4 DEF AdminInv, FormsFilled, Filled, Meant, Form, PolicyForm
<1>6. ASSUME "order" \notin careless'
      PROVE  inputs["policy"] = a
  <2>1. AdminSound /\ \A d \in Flights : ~IsLoad(flight[d])
    BY <1>3, <1>6 DEF AdminInv, Loading, IsLoad
  <2>2. Heading
    BY <2>1 DEF AdminSound, Overtaken, InOrder, HeadingFits, Fits, AreaLoad
  <2> QED BY <1>2, <1>5, <2>2 DEF Heading
<1>7. inputs["policy"] = a \/ Excused(a)'
  BY <1>2, <1>6 DEF Excused
<1>8. a \in Things /\ a \notin Lists /\ "workflow" \in CallLists
  BY <1>2, AdminNames DEF CallLists
<1> QED BY <1>3, <1>4, <1>7, <1>8, FormSubmitted

(* A form for a new row, or a button of a row.                             *)
LEMMA RowAdded ==
  ASSUME AdminInv, NEW c \in Flights,
         NEW what \in {"row", "office"}, NEW tab, NEW list \in CallLists,
         Adds(c, what, tab, list)
  PROVE  AdminInv'
<1>1. PICK q : q = [Grounded EXCEPT !.what = what, !.op = "add", !.busy = TRUE]
  OBVIOUS
<1>2. q \in FlightRec /\ q.op = "add" /\ q.of = NoOne /\ q.busy
  BY <1>1 DEF Grounded, FlightRec, Maybe
<1>3. Sends(c, q, list) /\ ~Busy /\ UNCHANGED <<strayed, careless>>
  BY <1>1 DEF Adds
<1>4. PICK p : p = Sent(q, list)
  OBVIOUS
<1>5. p.op = "add" /\ p.of = NoOne /\ p.busy
  BY <1>2, <1>4, SentCall DEF AdminInv
<1>6. Performs(p)'
  BY <1>5 DEF Performs, Adding
<1>7. q.of \notin Lists
  BY <1>2, AdminNames
<1> QED BY <1>2, <1>3, <1>4, <1>6, <1>7, CallSent

LEMMA RowsAreAdded ==
  ASSUME AdminInv, NEW c \in Flights,
         \/ OnInviteUser(c) \/ OnCreateUser(c) \/ OnCreateEntity(c)
         \/ OnCreateKey(c) \/ OnCreateOauthClient(c) \/ OnCreateEndpoint(c)
         \/ OnCreateRule(c) \/ OnCreateRolePair(c)
         \/ RotateToken(c) \/ MarkAllRead(c)
  PROVE  AdminInv'
<1>1. \E what \in {"row", "office"}, list \in CallLists, tab \in Tabs :
        Adds(c, what, tab, list)
  <2>1. {"refresh", "workflow"} \subseteq CallLists
    BY DEF CallLists
  <2>2. {"users", "entities", "keys", "oauth", "webhooks", "workflow", "mailbox",
         "notifications"} \subseteq Tabs
    BY DEF Tabs
  <2> QED BY <2>1, <2>2 DEF OnInviteUser, OnCreateUser, OnCreateEntity, OnCreateKey,
       OnCreateOauthClient, OnCreateEndpoint, OnCreateRule, OnCreateRolePair,
       RotateToken, MarkAllRead
<1> QED BY <1>1, RowAdded

LEMMA RowPressed ==
  ASSUME AdminInv, NEW c \in Flights, NEW r \in Lists, NEW op \in RowStates,
         NEW tab, NEW list \in CallLists, Presses(c, r, op, tab, list),
         careless \subseteq careless', "order" \in careless' \/ strayed' = strayed,
         r # "note" => ~Busy /\ listed[r] # "gone",
         op = "gone" => /\ r \in Deletable /\ r \in Showing(list)
                        /\ list # "none"
  PROVE  AdminInv'
<1>1. PICK q : q = [Grounded EXCEPT !.what = r, !.op = op, !.of = r,
                                    !.busy = (r # "note")]
  OBVIOUS
<1>2. /\ q \in FlightRec /\ q.op = op /\ q.of = r
      /\ q.busy = (r # "note")
  BY <1>1 DEF Grounded, FlightRec, Maybe
<1>3. Sends(c, q, list)
  BY <1>1 DEF Presses
<1>4. PICK p : p = Sent(q, list)
  OBVIOUS
<1>5. p.op = op /\ p.of = r /\ p.busy = q.busy /\ p.list = list
  BY <1>2, <1>4, SentCall DEF AdminInv
<1>6. Performs(p)'
  BY <1>2, <1>5 DEF Performs, Pressing
<1>7. ASSUME "order" \notin careless'
      PROVE  ~Missing(r)
  <2>1. CASE r = "note"
    BY <2>1 DEF AdminInv, Missing
  <2>2. CASE r # "note"
    <3>1. ~Told(r) /\ \A d \in Flights : ~Tells(d, r)
      BY <2>2 DEF Busy, Told, Tells, Deleting
    <3> QED BY <1>7, <3>1 DEF AdminInv, AdminSound, DeletedShown
  <2> QED BY <2>1, <2>2
<1>8. \/ "order" \in careless'
      \/ /\ strayed' = strayed
         /\ q.of \in Lists => q.what = "rule" \/ ~Missing(q.of)
  BY <1>2, <1>7
<1>9. q.busy => ~Busy
  BY <1>2
<1> QED BY <1>2, <1>3, <1>4, <1>6, <1>8, <1>9, CallSent

LEMMA RowsAreSwitched ==
  ASSUME AdminInv, NEW c \in Flights,
         \/ SetModule(c) \/ RevokeApiKey(c) \/ RevokeOauthClient(c)
         \/ ToggleEndpoint(c) \/ RevokeDelegation(c)
         \/ \E r \in Lists : ToggleSod(c, r)
  PROVE  AdminInv'
<1>1. PICK r \in Lists, op \in {"live", "off"}, tab \in Tabs, list \in CallLists :
        /\ Presses(c, r, op, tab, list) /\ listed[r] # "gone" /\ RowFree(c, r)
  <2>1. /\ {"refresh", "workflow", "delegations"} \subseteq CallLists
        /\ {"modules", "keys", "oauth", "webhooks", "delegations", "workflow"}
             \subseteq Tabs
        /\ {"module", "key", "client", "endpoint", "delegation"} \subseteq Lists
    BY DEF CallLists, Tabs, Lists
  <2>2. PICK r \in Lists, tab \in Tabs, list \in CallLists :
          /\ RowFree(c, r)
          /\ \/ listed[r] = "live" /\ Presses(c, r, "off", tab, list)
             \/ listed[r] = "off" /\ Presses(c, r, "live", tab, list)
    BY <2>1 DEF SetModule, RevokeApiKey, RevokeOauthClient, ToggleEndpoint,
       RevokeDelegation, ToggleSod, Toggles
  <2>3. CASE listed[r] = "live" /\ Presses(c, r, "off", tab, list)
    BY <2>2, <2>3
  <2>4. CASE listed[r] = "off" /\ Presses(c, r, "live", tab, list)
    BY <2>2, <2>4
  <2> QED BY <2>2, <2>3, <2>4
<1>2. op \in RowStates /\ op # "gone"
  BY DEF RowStates
<1>3. ~Busy /\ UNCHANGED <<strayed, careless>>
  BY <1>1 DEF RowFree
<1> QED BY <1>1, <1>2, <1>3, RowPressed

LEMMA RowsAreDeleted ==
  ASSUME AdminInv, NEW c \in Flights, DeleteEndpointRow(c) \/ DeleteSod(c)
  PROVE  AdminInv'
<1>1. PICK r \in {"endpoint", "pair"}, tab \in Tabs, list \in {"refresh", "workflow"} :
        /\ Presses(c, r, "gone", tab, list) /\ listed[r] # "gone"
        /\ RowFree(c, r)
        /\ r \in Showing(list)
  <2>1. "endpoint" \in Showing("refresh") /\ "pair" \in Showing("workflow")
    BY DEF Showing, Lists, Sod
  <2>2. "webhooks" \in Tabs /\ "workflow" \in Tabs
    BY DEF Tabs
  <2> QED BY <2>1, <2>2 DEF DeleteEndpointRow, DeleteSod
<1>2. r \in Deletable /\ r \in Lists /\ "gone" \in RowStates /\ list \in CallLists
      /\ list # "none"
  BY <1>1, AdminNames DEF Deletable, RowStates, CallLists
<1>3. ~Busy /\ UNCHANGED <<strayed, careless>>
  BY <1>1 DEF RowFree
<1> QED BY <1>1, <1>2, <1>3, RowPressed

LEMMA RulesAreHandled ==
  ASSUME AdminInv, NEW c \in Flights, NEW r \in Bands,
         ToggleRule(c, r) \/ DeleteRule(c, r)
  PROVE  AdminInv'
<1>1. /\ Handles(r) /\ listed[r] # "gone"
      /\ \E op \in RowStates : Presses(c, r, op, "workflow", "workflow")
  BY DEF ToggleRule, DeleteRule, Toggles, RowStates
<1>2. /\ careless \subseteq careless' /\ ~Busy
      /\ "order" \in careless' \/ strayed' = strayed
  BY <1>1, HandledInOrder
<1>3. r \in Lists /\ r \in Deletable
  BY DEF Lists, Deletable
<1>4. r \in Showing("workflow") /\ "workflow" \in CallLists /\ "workflow" # "none"
  BY DEF Showing, CallLists
<1> QED BY <1>1, <1>2, <1>3, <1>4, RowPressed

LEMMA NoteIsRead ==
  ASSUME AdminInv, NEW c \in Flights, MarkRead(c)
  PROVE  AdminInv'
<1>1. /\ Presses(c, "note", "off", "notifications", "refresh")
      /\ UNCHANGED <<strayed, careless>>
  BY DEF MarkRead
<1>2. "note" \in Lists /\ "off" \in RowStates /\ "refresh" \in CallLists
  BY AdminNames DEF RowStates, CallLists
<1> QED BY <1>1, <1>2, RowPressed

(* A list is asked for.                                                    *)
LEMMA AskedCall ==
  ASSUME NEW c \in Flights, NEW q \in FlightRec, NEW list \in CallLists,
         NEW p, p = Asks(c, q, list)
  PROVE  /\ p \in FlightRec /\ p.then = "serve" /\ p.list = list
         /\ p.area = q.area /\ p.busy = q.busy /\ p.op = q.op /\ p.of = q.of
         /\ \A d \in Flights \ {c} : IsLoad(flight[d]) => d \in p.older
BY DEF Asks, FlightRec, CallLists, IsLoad

Visiting(area) == [Grounded EXCEPT !.area = area]

LEMMA VisitingCall ==
  ASSUME NEW a \in Areas
  PROVE  Visiting(a) \in FlightRec /\ Visiting(a).area = a /\ ~Visiting(a).busy
BY DEF Visiting, Grounded, FlightRec, Maybe

LEMMA TabIsOpened ==
  ASSUME AdminInv, NEW c \in Flights, NEW t \in Tabs, OpenTab(c, t)
  PROVE  AdminInv'
<1>0. view \in Views /\ AdminTypeOK /\ FormsFilled
  BY DEF AdminInv, AdminTypeOK
<1>1. PICK a \in Areas : a = view.area
  BY <1>0, ViewsChange
<1>2. PICK q \in FlightRec : q = Visiting(a) /\ q.area = a /\ ~q.busy
  BY VisitingCall
<1>3. t \in {"workflow", "delegations"} /\ t \in CallLists
  BY DEF OpenTab, CallLists
<1>4. PICK p : p = Asks(c, q, t)
  OBVIOUS
<1>5. /\ p \in FlightRec /\ p.then = "serve" /\ p.area = a /\ ~p.busy
  BY <1>2, <1>3, <1>4, AskedCall
<1>6. PICK w : w = [view EXCEPT !.tab = t]
  OBVIOUS
<1>7. /\ w \in Views /\ w.tab = t /\ w.area = view.area
      /\ w.policy = view.policy
      /\ w.ruled = view.ruled /\ w.editing = view.editing
  BY <1>0, <1>6, ViewsChange
<1>8. /\ flight' = [flight EXCEPT ![c] = p] /\ flight[c] = Grounded
      /\ Renders(w)
      /\ UNCHANGED <<kept, state, listed, meddled, refused, strayed, careless>>
  BY <1>1, <1>2, <1>4, <1>6 DEF OpenTab, Vacant, Visiting, record
<1>9. Steady(c) /\ flight'[c] = p
  BY <1>0, <1>5, <1>8, OneCallMoves
<1>10. FormsFilled' /\ inputs' \in [Forms -> Maybe(Things)] /\ view' = w
  BY <1>0, <1>3, <1>7, <1>8, RenderFills
<1>11. KeepsItsTurn(c) /\ PressesWhatIs(c)
  BY <1>1, <1>5, <1>8, <1>9, GroundedCall
     DEF KeepsItsTurn, PressesWhatIs, HasArea, AreaLoad, IsLoad
<1>12. KeepsDeleting(c)
  BY <1>5, <1>8, <1>9, GroundedCall DEF KeepsDeleting, Outdated, Deleting
<1>13. /\ view'.area = view.area /\ (Heading => Heading')
       /\ ~flight'[c].busy /\ Performs(flight[c])' /\ AnswerFits(flight'[c])
  BY <1>5, <1>7, <1>9, <1>10 DEF Heading, Performs, AnswerFits
<1> QED
  BY <1>7, <1>8, <1>9, <1>10, <1>11, <1>12, <1>13, CallMovesOn

LEMMA ModuleIsChosen ==
  ASSUME AdminInv, NEW c \in Flights, NEW a \in Areas, SetApprovalModule(c, a)
  PROVE  AdminInv'
<1>0. view \in Views /\ AdminTypeOK /\ FormsFilled
  BY DEF AdminInv, AdminTypeOK
<1>2. PICK q \in FlightRec : q = Visiting(a) /\ q.area = a /\ ~q.busy
  BY VisitingCall
<1>3. "workflow" \in CallLists
  BY DEF CallLists
<1>4. PICK p : p = Asks(c, q, "workflow")
  OBVIOUS
<1>5. /\ p \in FlightRec /\ p.then = "serve" /\ p.area = a /\ ~p.busy
      /\ p.list = "workflow"
      /\ \A d \in Flights \ {c} : IsLoad(flight[d]) => d \in p.older
  BY <1>2, <1>3, <1>4, AskedCall
<1>6. PICK w : w = [view EXCEPT !.area = a]
  OBVIOUS
<1>7. /\ w \in Views /\ w.tab = view.tab /\ w.area = a
      /\ w.editing = view.editing
  BY <1>0, <1>6, ViewsChange
<1>8. /\ flight' = [flight EXCEPT ![c] = p] /\ flight[c] = Grounded
      /\ Renders(w)
      /\ UNCHANGED <<kept, state, listed, meddled, refused, strayed>>
      /\ careless \subseteq careless' /\ (Changing => "order" \in careless')
  BY <1>2, <1>4, <1>6 DEF SetApprovalModule, Vacant, Visiting, record, Careless
<1>9. /\ Steady(c) /\ flight'[c] = p
      /\ \A d \in Flights \ {c} : flight'[d] = flight[d]
  BY <1>0, <1>5, <1>8, OneCallMoves
<1>10. FormsFilled' /\ inputs' \in [Forms -> Maybe(Things)] /\ view' = w
  BY <1>0, <1>7, <1>8, RenderFills
<1>11. ASSUME "order" \notin careless'
       PROVE  (Overtaken \/ InOrder)'
  <2>1. \A d \in Flights \ {c} : flight[d].then \notin {"perform", "done"}
    BY <1>8, <1>11 DEF Changing
  <2>2. ChangesFit'
    BY <1>5, <1>9, <2>1 DEF ChangesFit
  <2>3. Fits(flight[c])'
    BY <1>5, <1>7, <1>9, <1>10 DEF Fits, AreaLoad, IsLoad
  <2>4. HeadingFits'
    BY <2>3 DEF HeadingFits
  <2>5. LoadsEndFit'
    <3>1. \A d \in Flights \ {c} : AreaLoad(flight'[d]) => d \in flight'[c].older
      BY <1>5, <1>9 DEF AreaLoad
    <3>2. flight'[c].area = view'.area
      BY <1>5, <1>7, <1>9, <1>10
    <3> QED BY <2>3, <3>1, <3>2 DEF LoadsEndFit
  <2> QED BY <2>2, <2>4, <2>5 DEF InOrder
<1>12. KeepsDeleting(c) /\ PressesWhatIs(c)
  BY <1>5, <1>8, <1>9, GroundedCall
     DEF KeepsDeleting, PressesWhatIs, Outdated, Deleting
<1>13. ~flight'[c].busy /\ Performs(flight[c])' /\ AnswerFits(flight'[c])
  BY <1>5, <1>9 DEF Performs, AnswerFits
<1> QED BY <1>7, <1>8, <1>9, <1>10, <1>11, <1>12, <1>13, CallMovesOn

(* The API changes a row.                                                  *)
Finished(q) == [q EXCEPT !.then = "done"]

LEMMA FinishedCall ==
  ASSUME NEW q \in FlightRec, NEW p, p = Finished(q)
  PROVE  /\ p \in FlightRec /\ p.then = "done" /\ p.area = q.area
         /\ p.busy = q.busy /\ p.op = q.op /\ p.of = q.of /\ p.list = q.list
BY DEF Finished, FlightRec

(* What the change of a row keeps, if it is not deleted by another.        *)
LEMMA ChangeKeepsSound ==
  ASSUME AdminInv, AdminSound, NEW c \in Flights, NEW q, q = flight[c],
         q.then = "perform", Pressing(q), Switches(q),
         Steady(c), flight'[c] = Finished(q),
         \A d \in Flights \ {c} : flight'[d] = flight[d],
         UNCHANGED <<view, listed, meddled, strayed, refused>>
  PROVE  AdminSound'
<1>0. /\ AdminTypeOK /\ CallsMean /\ OneBusy /\ DeletedShown /\ StillThere
      /\ q \in FlightRec
  BY DEF AdminInv, AdminSound, AdminTypeOK
<1>1. /\ flight'[c].then = "done" /\ flight'[c].area = q.area
      /\ flight'[c].busy = q.busy /\ flight'[c].op = q.op
      /\ flight'[c].of = q.of /\ flight'[c].list = q.list
  BY <1>0, FinishedCall
<1>2. /\ q.of \in Lists /\ state[q.of] # "gone"
      /\ \A r \in Lists : state'[r] = IF r = q.of THEN q.op ELSE state[r]
  BY <1>0 DEF Switches, Pressing, AdminTypeOK
<1>3. ASSUME NEW r \in Lists, Missing(r)'
      PROVE  (r = q.of /\ q.op = "gone") \/ (Missing(r) /\ r # q.of)
  BY <1>2, <1>3 DEF Missing
<1>4. (Overtaken \/ InOrder)'
  <2>1. KeepsItsTurn(c)
    BY <1>1 DEF KeepsItsTurn, HasArea, AreaLoad, IsLoad
  <2>2. view'.area = view.area /\ (Heading => Heading')
    BY DEF Heading
  <2> QED BY <2>1, <2>2, OrderStays DEF AdminSound
<1>5. ASSUME NEW r \in Lists, Missing(r)'
      PROVE  Told(r)' \/ \E d \in Flights : Tells(d, r)'
  <2>1. CASE r = q.of /\ q.op = "gone"
    <3>1. q.busy /\ q.list # "none" /\ r \in Showing(q.list)
      BY <2>1, AdminNames DEF Pressing
    <3>2. Tells(c, r)'
      BY <1>1, <2>1, <3>1 DEF Tells, Deleting, Outdated, IsLoad
    <3> QED BY <3>2
  <2>2. CASE Missing(r) /\ r # q.of
    <3>1. \A d \in Flights : Outdated(flight'[d], r) =>
            d # c /\ Outdated(flight[d], r) /\ flight'[d] = flight[d]
      BY <1>1 DEF Outdated
    <3>2. CASE Told(r)
      BY <3>1, <3>2 DEF Told
    <3>3. ASSUME NEW d \in Flights, Tells(d, r)
          PROVE  Tells(d, r)'
      <4>1. d # c
        BY <3>3 DEF Tells, Deleting
      <4> QED BY <3>1, <3>3, <4>1 DEF Tells
    <3> QED BY <1>0, <2>2, <3>2, <3>3 DEF DeletedShown
  <2> QED BY <1>3, <1>5, <2>1, <2>2
<1>6. ASSUME NEW d \in Flights, flight'[d].then = "perform", NEW r \in Lists,
             r = flight'[d].of, Missing(r)', flight'[d].what # "rule"
      PROVE  FALSE
  <2>1. d # c /\ flight'[d] = flight[d]
    BY <1>1, <1>6
  <2>2. CASE Missing(r)
    BY <1>0, <1>6, <2>1, <2>2 DEF StillThere
  <2>3. CASE r = q.of /\ q.op = "gone"
    <3>1. Adding(flight[d]) \/ Saving(flight[d]) \/ Pressing(flight[d])
      BY <1>0, <1>6, <2>1 DEF CallsMean, Performs
    <3>2. Pressing(flight[d])
      BY <1>6, <2>1, <3>1, AdminNames DEF Adding, Saving
    <3>3. r # "note"
      BY <2>3, AdminNames DEF Pressing
    <3>4. flight[d].busy /\ q.busy
      BY <1>6, <2>1, <2>3, <3>2, <3>3 DEF Pressing
    <3> QED BY <1>0, <2>1, <3>4 DEF OneBusy
  <2> QED BY <1>3, <1>6, <2>2, <2>3
<1>7. StillThere'
  <2> SUFFICES ASSUME NEW d \in Flights, flight'[d].then = "perform",
                      flight'[d].of \in Lists, flight'[d].what # "rule"
               PROVE  ~Missing(flight[d].of)'
    BY DEF StillThere
  <2>1. PICK r \in Lists : r = flight'[d].of
    OBVIOUS
  <2>2. ~Missing(r)'
    BY <1>6, <2>1
  <2> QED BY <2>1, <2>2 DEF Missing
<1>8. DeletedShown'
  BY <1>5 DEF DeletedShown
<1> QED BY <1>4, <1>7, <1>8 DEF AdminSound

LEMMA ChangeIsMade ==
  ASSUME AdminInv, NEW c \in Flights, Change(c)
  PROVE  AdminInv'
<1>0. AdminTypeOK /\ CallsMean /\ RowsKept /\ view \in Views
  BY DEF AdminInv, AdminTypeOK
<1>1. PICK q \in FlightRec : q = flight[c]
  BY <1>0 DEF AdminTypeOK
<1>2. PICK p : p = Finished(q)
  OBVIOUS
<1>3. /\ p \in FlightRec /\ p.then = "done" /\ p.area = q.area
      /\ p.busy = q.busy /\ p.op = q.op /\ p.of = q.of /\ p.list = q.list
  BY <1>2, FinishedCall
<1>4. /\ q.then = "perform" /\ flight' = [flight EXCEPT ![c] = p]
      /\ UNCHANGED <<view, listed, inputs, deeds, meddled, refused, strayed, careless>>
  BY <1>1, <1>2 DEF Change, record, Finished
<1>5. /\ Steady(c) /\ flight'[c] = p
      /\ \A d \in Flights \ {c} : flight'[d] = flight[d]
  BY <1>0, <1>3, <1>4, OneCallMoves
<1>6. /\ FormsFilled' /\ view' \in Views
      /\ inputs' \in [Forms -> Maybe(Things)]
      /\ view'.area = view.area /\ (Heading => Heading')
  BY <1>4, PageStays
<1>7. /\ Performs(flight[c])' /\ AnswerFits(flight'[c])
      /\ flight'[c].busy => flight[c].busy
  BY <1>1, <1>3, <1>5 DEF Performs, AnswerFits
<1>8. Adding(q) \/ Saving(q) \/ Pressing(q)
  BY <1>0, <1>1, <1>4 DEF CallsMean, Performs
<1>9. ASSUME UNCHANGED state
      PROVE  KeepsItsTurn(c) /\ KeepsDeleting(c) /\ PressesWhatIs(c)
  BY <1>1, <1>3, <1>4, <1>5 DEF KeepsItsTurn, KeepsDeleting, PressesWhatIs,
     HasArea, AreaLoad, IsLoad, Outdated, Deleting
<1>10. CASE Adding(q)
  <2>1. UNCHANGED <<kept, state>>
    BY <1>1, <1>10 DEF Change, Adding
  <2> QED BY <1>4, <1>5, <1>6, <1>7, <1>9, <2>1, CallMovesOn
<1>11. CASE Saving(q)
  <2>1. kept' = [kept EXCEPT ![q.of] = q.sends] /\ UNCHANGED state
    BY <1>1, <1>11 DEF Change, Saving, Overwrites
  <2>2. kept' \in [Things -> Maybe(Things)]
    BY <1>0, <1>11, <2>1, CallFields DEF AdminTypeOK, Saving
  <2>3. RowsKept'
    BY <1>0, <1>4, <1>11, <2>1 DEF AdminTypeOK, RowsKept, Excused, Saving
  <2>4. ASSUME "order" \notin careless'
        PROVE  AdminSound'
    <3>1. AdminSound /\ \A r \in Lists : Missing(r)' => Missing(r)
      BY <1>4, <2>1, <2>4 DEF AdminInv, Missing
    <3>2. DeletedShown' /\ StillThere'
      BY <1>4, <1>5, <1>9, <2>1, <3>1, DeletionsStay, PressedStayThere
         DEF AdminSound
    <3>3. (Overtaken \/ InOrder)'
      BY <1>5, <1>6, <1>9, <2>1, <3>1, OrderStays DEF AdminSound
    <3> QED BY <1>4, <3>1, <3>2, <3>3 DEF AdminSound
  <2>5. /\ state' \in [Lists -> RowStates] /\ listed' \in [Lists -> RowStates]
        /\ state'["note"] # "gone"
    BY <1>4, <2>1 DEF AdminInv, AdminTypeOK
  <2> QED BY <1>4, <1>5, <1>6, <1>7, <2>2, <2>3, <2>4, <2>5, FlightMoves
<1>12. CASE Pressing(q)
  <2>1. Switches(q) /\ UNCHANGED kept
    BY <1>1, <1>12 DEF Change, Pressing, RowStates, Switches
  <2>2. kept' \in [Things -> Maybe(Things)] /\ RowsKept'
    BY <1>0, <1>4, <2>1 DEF AdminTypeOK, RowsKept, Excused
  <2>3. state' \in [Lists -> RowStates] /\ listed' \in [Lists -> RowStates]
    BY <1>0, <1>4, <1>12, <2>1 DEF Switches, Pressing, AdminTypeOK
  <2>4. state'["note"] # "gone"
    <3>1. state["note"] # "gone"
      BY DEF AdminInv
    <3> QED BY <1>0, <1>12, <2>1, <3>1, AdminNames DEF Switches, Pressing, AdminTypeOK
  <2>5. "order" \in careless' \/ AdminSound'
    BY <1>1, <1>2, <1>4, <1>5, <1>12, <2>1, ChangeKeepsSound DEF AdminInv
  <2> QED BY <1>4, <1>5, <1>6, <1>7, <2>2, <2>3, <2>4, <2>5, FlightMoves
<1> QED BY <1>8, <1>10, <1>11, <1>12

(* A call is refused or lost.                                              *)
LEMMA CallEnds ==
  ASSUME AdminInv, NEW c \in Flights, flight' = Landed(c),
         flight[c].then \in {"perform", "done"},
         flight[c].then = "done" => "order" \in careless',
         UNCHANGED <<kept, state, view, listed, inputs, meddled, strayed>>,
         careless \subseteq careless',
         "order" \in careless' \/ refused' \subseteq refused \union {"rule"}
  PROVE  AdminInv'
<1>1. Steady(c) /\ flight'[c] = Grounded
  BY OneCallLands DEF AdminInv
<1>2. /\ FormsFilled' /\ view' \in Views
      /\ inputs' \in [Forms -> Maybe(Things)]
      /\ view'.area = view.area /\ (Heading => Heading')
  BY PageStays
<1>3. ~flight'[c].busy /\ Performs(flight[c])' /\ AnswerFits(flight'[c])
  BY <1>1, GroundedCall DEF Performs, AnswerFits
<1>4. KeepsItsTurn(c) /\ PressesWhatIs(c)
  BY <1>1, GroundedCall DEF KeepsItsTurn, PressesWhatIs, AreaLoad, IsLoad
<1>5. KeepsDeleting(c) \/ "order" \in careless'
  BY <1>1, GroundedCall DEF KeepsDeleting, Outdated, Deleting
<1> QED BY <1>1, <1>2, <1>3, <1>4, <1>5, CallMovesOn

LEMMA GoneIsRefused ==
  ASSUME AdminInv, NEW c \in Flights, RefuseGone(c)
  PROVE  AdminInv'
<1>1. /\ flight[c].then = "perform" /\ flight[c].of \in Lists
      /\ state[flight[c].of] = "gone" /\ flight' = Landed(c)
      /\ UNCHANGED <<kept, state, view, listed, inputs, meddled, strayed, careless>>
      /\ refused' = IF flight[c].of \in meddled THEN refused
                    ELSE refused \union {flight[c].what}
  BY DEF RefuseGone
<1>2. "order" \in careless' \/ refused' \subseteq refused \union {"rule"}
  BY <1>1 DEF AdminInv, AdminSound, StillThere, Missing
<1> QED BY <1>1, <1>2, CallEnds

LEMMA CallIsLost ==
  ASSUME AdminInv, NEW c \in Flights, LoseCall(c)
  PROVE  AdminInv'
<1>1. /\ flight[c].then \in {"perform", "done"} /\ flight' = Landed(c)
      /\ UNCHANGED <<kept, state, view, listed, inputs, meddled, strayed, refused>>
      /\ careless \subseteq careless'
      /\ flight[c].then = "done" => "order" \in careless'
  BY DEF LoseCall, Careless, record
<1> QED BY <1>1, CallEnds

(* A call goes on with asking for a list.                                  *)
LEMMA CallAsksOn ==
  ASSUME AdminInv, NEW c \in Flights, NEW q \in FlightRec, q = flight[c],
         q.then \in {"perform", "done"}, NEW list \in CallLists,
         flight' = [flight EXCEPT ![c] = Asks(c, q, list)],
         q.then = "done" => list = q.list,
         UNCHANGED <<kept, state, listed, meddled, strayed, refused, careless>>,
         view' \in Views, inputs' \in [Forms -> Maybe(Things)], FormsFilled',
         \/ "order" \in careless
         \/ view'.area = view.area /\ (Overtaken \/ (Heading => Heading'))
  PROVE  AdminInv'
<1>1. PICK p : p = Asks(c, q, list)
  OBVIOUS
<1>2. /\ p \in FlightRec /\ p.then = "serve" /\ p.list = list
      /\ p.area = q.area /\ p.busy = q.busy /\ p.op = q.op /\ p.of = q.of
      /\ \A d \in Flights \ {c} : IsLoad(flight[d]) => d \in p.older
  BY <1>1, AskedCall
<1>3. /\ Steady(c) /\ flight'[c] = p
      /\ \A d \in Flights \ {c} : flight'[d] = flight[d]
  BY <1>1, <1>2, OneCallMoves DEF AdminInv
<1>4. KeepsItsTurn(c) /\ PressesWhatIs(c)
  BY <1>2, <1>3 DEF KeepsItsTurn, PressesWhatIs, HasArea, AreaLoad, IsLoad
<1>5. KeepsDeleting(c)
  BY <1>2, <1>3 DEF KeepsDeleting, Outdated, Deleting
<1>6. /\ Performs(flight[c])' /\ AnswerFits(flight'[c])
      /\ flight'[c].busy => flight[c].busy
  BY <1>2, <1>3 DEF Performs, AnswerFits
<1> QED BY <1>3, <1>4, <1>5, <1>6, CallMovesOn

LEMMA NewIsRefused ==
  ASSUME AdminInv, NEW c \in Flights, RefuseNew(c)
  PROVE  AdminInv'
<1>1. PICK q \in FlightRec : q = flight[c]
  BY DEF AdminInv, AdminTypeOK
<1>2. /\ q.then = "perform"
      /\ UNCHANGED <<kept, state, view, listed, inputs, meddled, strayed, refused,
                     careless>>
  BY <1>1 DEF RefuseNew, record
<1>3. CASE flight' = Landed(c)
  BY <1>1, <1>2, <1>3, CallEnds
<1>4. CASE flight' = [flight EXCEPT ![c] = Asks(c, q, "refresh")]
  <2>1. /\ FormsFilled' /\ view' \in Views
        /\ inputs' \in [Forms -> Maybe(Things)]
        /\ view'.area = view.area /\ (Heading => Heading')
    BY <1>2, PageStays
  <2>2. "refresh" \in CallLists
    BY DEF CallLists
  <2> QED BY <1>1, <1>2, <1>4, <2>1, <2>2, CallAsksOn
<1> QED BY <1>1, <1>3, <1>4 DEF RefuseNew

LEMMA CallGoesOn ==
  ASSUME AdminInv, NEW c \in Flights, GoOn(c)
  PROVE  AdminInv'
<1>0. AdminTypeOK /\ FormsFilled /\ view \in Views
  BY DEF AdminInv, AdminTypeOK
<1>1. PICK q \in FlightRec : q = flight[c]
  BY <1>0 DEF AdminTypeOK
<1>2. PICK w : w = AfterSave(c)
  OBVIOUS
<1>3. /\ q.then = "done" /\ Renders(w)
      /\ UNCHANGED <<kept, state, listed, meddled, strayed, refused, careless>>
      /\ flight' = IF q.list = "none" THEN Landed(c)
                   ELSE [flight EXCEPT ![c] = Asks(c, q, q.list)]
  BY <1>1, <1>2 DEF GoOn, record
<1>4. /\ w \in Views /\ w.area = view.area /\ w.tab = view.tab
      /\ w.editing["user"] \in {view.editing["user"], NoOne}
      /\ \/ w.policy = view.policy /\ w.ruled = view.ruled
         \/ w.policy = q.area /\ w.ruled = view.ruled
  <2>1. CASE q.what \in Edited
    <3>0. q.what # "policy"
      BY <2>1 DEF Edited
    <3>1. w = Edits(view, q.what, NoOne) /\ Editable(q.what, NoOne)
      BY <1>1, <1>2, <2>1, <3>0 DEF AfterSave, Edits, Editable
    <3>2. w \in Views /\ Reads(w, view, q.what, NoOne)
      BY <1>0, <2>1, <3>1, ViewsEdit
    <3> QED BY <2>1, <3>2 DEF Reads, Edited
  <2>2. CASE q.what \notin Edited /\ q.what = "policy"
    <3>1. w = [view EXCEPT !.policy = q.area]
      BY <1>1, <1>2, <2>2 DEF AfterSave
    <3>2. q.area \in Maybe(Areas)
      BY CallFields
    <3> QED BY <1>0, <3>1, <3>2, ViewsChange
  <2>3. CASE q.what \notin Edited /\ q.what # "policy"
    <3>1. w = view
      BY <1>1, <1>2, <2>3 DEF AfterSave
    <3> QED BY <1>0, <3>1
  <2> QED BY <2>1, <2>2, <2>3
<1>5. FormsFilled' /\ inputs' \in [Forms -> Maybe(Things)] /\ view' = w
  BY <1>0, <1>3, <1>4, RenderFills
<1>6. \/ "order" \in careless
      \/ view'.area = view.area /\ (Overtaken \/ (Heading => Heading'))
  <2> SUFFICES ASSUME "order" \notin careless, ~Overtaken, Heading
               PROVE  Heading'
    BY <1>4, <1>5
  <2>1. q.area = view.area
    BY <1>1, <1>3 DEF AdminInv, AdminSound, InOrder, ChangesFit
  <2> QED BY <1>4, <1>5, <2>1 DEF Heading
<1>7. CASE q.list = "none"
  <2>1. Steady(c) /\ flight'[c] = Grounded
    BY <1>0, <1>3, <1>7, OneCallLands
  <2>2. ~flight'[c].busy /\ Performs(flight[c])' /\ AnswerFits(flight'[c])
    BY <2>1, GroundedCall DEF Performs, AnswerFits
  <2>3. KeepsItsTurn(c) /\ PressesWhatIs(c)
    BY <1>1, <1>3, <2>1, GroundedCall
       DEF KeepsItsTurn, PressesWhatIs, AreaLoad, IsLoad
  <2>4. KeepsDeleting(c)
    BY <1>1, <1>7, <2>1, GroundedCall DEF KeepsDeleting, Outdated, Deleting
  <2> QED BY <1>3, <1>4, <1>5, <1>6, <2>1, <2>2, <2>3, <2>4, CallMovesOn
<1>8. CASE q.list # "none"
  <2>1. q.list \in CallLists
    BY CallFields DEF CallLists
  <2> QED BY <1>1, <1>3, <1>4, <1>5, <1>6, <1>8, <2>1, CallAsksOn
<1> QED BY <1>7, <1>8

(* The API answers a load with the rows of this moment.                    *)
Served(q) == [q EXCEPT !.then = "show", !.got = state]

LEMMA LoadIsServed ==
  ASSUME AdminInv, NEW c \in Flights, Respond(c)
  PROVE  AdminInv'
<1>0. AdminTypeOK /\ state \in [Lists -> RowStates]
  BY DEF AdminInv, AdminTypeOK
<1>1. PICK q \in FlightRec : q = flight[c]
  BY <1>0 DEF AdminTypeOK
<1>2. PICK p : p = Served(q)
  OBVIOUS
<1>3. /\ p \in FlightRec /\ p.then = "show" /\ p.area = q.area /\ p.got = state
      /\ p.busy = q.busy /\ p.op = q.op /\ p.of = q.of /\ p.list = q.list
      /\ p.older = q.older /\ p.late = q.late
  BY <1>0, <1>2 DEF Served, FlightRec, Maybe
<1>4. /\ q.then = "serve" /\ flight' = [flight EXCEPT ![c] = p]
      /\ UNCHANGED <<kept, state, view, listed, inputs, meddled, refused, strayed,
                     careless>>
  BY <1>1, <1>2 DEF Respond, record, Served
<1>5. /\ Steady(c) /\ flight'[c] = p
      /\ \A d \in Flights \ {c} : flight'[d] = flight[d]
  BY <1>0, <1>3, <1>4, OneCallMoves
<1>6. /\ FormsFilled' /\ view' \in Views
      /\ inputs' \in [Forms -> Maybe(Things)]
      /\ view'.area = view.area /\ (Heading => Heading')
  BY <1>4, PageStays
<1>7. /\ Performs(flight[c])' /\ AnswerFits(flight'[c])
      /\ flight'[c].busy => flight[c].busy
  BY <1>0, <1>1, <1>3, <1>5 DEF Performs, AnswerFits
<1>8. KeepsItsTurn(c) /\ PressesWhatIs(c)
  <2>1. \A d \in Flights : flight[d].older = flight'[d].older
    BY <1>1, <1>3, <1>5
  <2> QED BY <1>1, <1>3, <1>4, <1>5, <2>1
     DEF KeepsItsTurn, PressesWhatIs, HasArea, AreaLoad, IsLoad
<1>9. KeepsDeleting(c)
  BY <1>1, <1>3, <1>4, <1>5
     DEF KeepsDeleting, Outdated, Deleting, Missing, IsLoad
<1> QED BY <1>4, <1>5, <1>6, <1>7, <1>8, <1>9, CallMovesOn

(* The lists of a load are set.                                            *)
LEMMA SettingCall ==
  ASSUME AdminInv, NEW c \in Flights, NEW area \in Maybe(Areas),
         NEW there \in SUBSET Settings, Sets(c, area, there)
  PROVE  /\ Steady(c) /\ ~flight'[c].busy /\ flight'[c].then = "idle"
         /\ flight'[c].op = "load"
         /\ \A d \in Flights \ {c} :
              d \in flight[c].older /\ IsLoad(flight[d]) => flight'[d].late
<1>0. flight \in [Flights -> FlightRec]
  BY DEF AdminInv, AdminTypeOK
<1>1. ASSUME NEW d \in Flights, d # c
      PROVE  /\ flight'[d] \in FlightRec /\ Alike(flight'[d], flight[d])
             /\ flight[d].older \ {c} \subseteq flight'[d].older
             /\ flight[d].late => flight'[d].late
             /\ d \in flight[c].older /\ IsLoad(flight[d]) => flight'[d].late
  <2>1. PICK q \in FlightRec : q = flight[d]
    BY <1>0
  <2>2. PICK p : p = [q EXCEPT !.older = q.older \ {c}]
    OBVIOUS
  <2>3. /\ p \in FlightRec /\ Alike(p, q) /\ p.older = q.older \ {c}
        /\ p.late = q.late
    BY <2>1, <2>2 DEF FlightRec, Alike
  <2>4. PICK l : l = [p EXCEPT !.late = TRUE]
    OBVIOUS
  <2>5. /\ l \in FlightRec /\ Alike(l, q) /\ l.older = q.older \ {c} /\ l.late
    BY <2>3, <2>4 DEF FlightRec, Alike
  <2>6. flight'[d] = IF d \in flight[c].older /\ IsLoad(q) THEN l ELSE p
    BY <1>1, <2>1, <2>2, <2>4 DEF Sets, Landed, IsLoad
  <2> QED BY <2>1, <2>3, <2>5, <2>6
<1>2. /\ flight'[c] \in FlightRec /\ ~flight'[c].busy
      /\ flight'[c].then = "idle"
      /\ flight'[c].op = "load"
  <2>1. PICK l : l = [Grounded EXCEPT !.late = TRUE]
    OBVIOUS
  <2>2. l \in FlightRec /\ ~l.busy /\ l.then = "idle" /\ l.op = "load"
    BY <2>1 DEF Grounded, FlightRec, Maybe
  <2>3. flight'[c] \in {Grounded, l}
    BY <2>1 DEF Sets, Landed
  <2> QED BY <2>2, <2>3, GroundedCall
<1>3. flight' = [d \in Flights |-> flight'[d]]
  BY DEF Sets
<1> QED BY <1>1, <1>2, <1>3 DEF Steady

LEMMA SettingPage ==
  ASSUME AdminInv, NEW c \in Flights, NEW area \in Maybe(Areas),
         NEW there \in SUBSET Settings, Sets(c, area, there),
         careless \subseteq careless'
  PROVE  /\ FormsFilled' /\ inputs' \in [Forms -> Maybe(Things)]
         /\ view' \in Views
         /\ view'.area = view.area
         /\ AreaLoad(flight[c]) =>
              view'.policy = area /\
              view'.ruled \in {area, flight[c].area}
         /\ ~AreaLoad(flight[c]) =>
              view'.policy = view.policy /\ view'.ruled = view.ruled
<1>0. AdminTypeOK /\ FormsFilled /\ view \in Views
  BY DEF AdminInv, AdminTypeOK
<1>1. PICK q \in FlightRec : q = flight[c]
  BY <1>0 DEF AdminTypeOK
<1>2. /\ q.then = "show" /\ q.area \in Maybe(Areas)
      /\ q.list \in CallLists
  BY <1>1, CallFields DEF Sets, CallLists
<1>3. PICK w :
        /\ Renders(w)
        /\ q.list = "refresh" =>
             w = [view EXCEPT !.policy = area, !.ruled = area, !.there = there]
        /\ q.list = "workflow" =>
             w = [view EXCEPT !.policy = area, !.ruled = q.area]
        /\ q.list \notin {"refresh", "workflow"} => w = view
  BY <1>1 DEF Sets
<1>4. CASE q.list = "refresh"
  <2>1. w = [view EXCEPT !.policy = area, !.ruled = area, !.there = there]
    BY <1>3, <1>4
  <2>2. /\ w \in Views /\ w.tab = view.tab /\ w.area = view.area
        /\ w.policy = area /\ w.ruled = area /\ w.editing = view.editing
    BY <1>0, <2>1 DEF Views
  <2>3. FormsFilled' /\ inputs' \in [Forms -> Maybe(Things)] /\ view' = w
    BY <1>0, <1>3, <2>2, RenderFills
  <2> QED BY <1>1, <1>2, <1>4, <2>2, <2>3 DEF AreaLoad, IsLoad
<1>5. CASE q.list = "workflow"
  <2>1. w = [view EXCEPT !.policy = area, !.ruled = q.area]
    BY <1>3, <1>5
  <2>2. /\ w \in Views /\ w.tab = view.tab /\ w.area = view.area
        /\ w.policy = area /\ w.ruled = q.area /\ w.editing = view.editing
    BY <1>0, <1>2, <2>1 DEF Views
  <2>3. FormsFilled' /\ inputs' \in [Forms -> Maybe(Things)] /\ view' = w
    BY <1>0, <1>3, <2>2, RenderFills
  <2> QED BY <1>1, <1>2, <1>5, <2>2, <2>3 DEF AreaLoad, IsLoad
<1>6. CASE q.list \notin {"refresh", "workflow"}
  <2>1. w = view
    BY <1>3, <1>6
  <2>3. FormsFilled' /\ inputs' \in [Forms -> Maybe(Things)] /\ view' = w
    BY <1>0, <1>3, <2>1, RenderFills
  <2> QED BY <1>0, <1>1, <1>6, <2>1, <2>3 DEF AreaLoad
<1> QED BY <1>4, <1>5, <1>6

(* A load that is not late shows what the rows say, and what is shown      *)
(* after it and was asked for before it comes late.                        *)
LEMMA SettingInOrder ==
  ASSUME AdminInv, AdminSound, NEW c \in Flights,
         Sets(c, flight[c].area, Settings), ~flight[c].late,
         UNCHANGED <<strayed, refused>>, careless \subseteq careless'
  PROVE  AdminSound'
<1>0. /\ flight[c].then = "show" /\ flight[c].area \in Maybe(Areas)
      /\ UNCHANGED <<kept, state, meddled>>
      /\ DeletedShown /\ StillThere /\ AdminTypeOK
      /\ \A r \in Lists : listed'[r] = IF r \in Showing(flight[c].list)
                                       THEN flight[c].got[r] ELSE listed[r]
  <2>1. AdminTypeOK
    BY DEF AdminInv
  <2>2. flight[c] \in FlightRec
    BY <2>1 DEF AdminTypeOK
  <2> QED BY <2>1, <2>2, CallFields DEF AdminSound, Sets, record
<1>1. /\ Steady(c) /\ ~flight'[c].busy /\ flight'[c].then = "idle"
      /\ \A d \in Flights \ {c} :
           d \in flight[c].older /\ IsLoad(flight[d]) => flight'[d].late
  BY <1>0, SettingCall
<1>2. \A d \in Flights \ {c} :
        /\ flight'[d].then = flight[d].then /\ flight'[d].area = flight[d].area
        /\ flight'[d].list = flight[d].list
        /\ flight[d].older \ {c} \subseteq flight'[d].older
        /\ flight[d].late => flight'[d].late
  BY <1>1 DEF Steady, Alike
<1>3. /\ view'.area = view.area
      /\ AreaLoad(flight[c]) => view'.policy = flight[c].area /\
                                view'.ruled = flight[c].area
      /\ ~AreaLoad(flight[c]) =>
           view'.policy = view.policy /\ view'.ruled = view.ruled
  BY <1>0, SettingPage
<1>4. (Overtaken \/ InOrder)'
  <2> SUFFICES ASSUME ~Overtaken'
               PROVE  InOrder'
    OBVIOUS
  <2>1. \A d \in Flights \ {c} : IsLoad(flight[d]) => ~flight'[d].late
    BY <1>2 DEF Overtaken, IsLoad
  <2>2. ~Overtaken
    BY <1>2, <2>1 DEF Overtaken, IsLoad
  <2>3. InOrder
    BY <2>2 DEF AdminSound
  <2>4. ChangesFit'
    BY <1>1, <1>2, <1>3, <2>3 DEF InOrder, ChangesFit
  <2>5. ASSUME NEW d \in Flights \ {c}, Fits(flight[d])
        PROVE  Fits(flight[d])'
    BY <1>2, <1>3, <2>5 DEF Fits, AreaLoad, IsLoad
  <2>6. ASSUME NEW x \in Flights, AreaLoad(flight[x])', flight'[x].area # view'.area
        PROVE  \E d \in Flights : x \in flight'[d].older /\ Fits(flight[d])'
    <3>1. x # c /\ AreaLoad(flight[x]) /\ flight[x].area # view.area
      BY <1>1, <1>2, <1>3, <2>6 DEF AreaLoad, IsLoad
    <3>2. PICK d \in Flights : x \in flight[d].older /\ Fits(flight[d])
      BY <2>3, <3>1 DEF InOrder, LoadsEndFit
    <3>3. d # c
      BY <1>1, <2>1, <3>1, <3>2 DEF AreaLoad
    <3>4. x \in flight'[d].older
      BY <1>2, <3>1, <3>2, <3>3
    <3> QED BY <2>5, <3>2, <3>3, <3>4
  <2>7. LoadsEndFit'
    BY <2>6 DEF LoadsEndFit
  <2>8. HeadingFits'
    <3>1. CASE AreaLoad(flight[c]) /\ flight[c].area = view.area
      BY <1>3, <3>1 DEF HeadingFits, Heading
    <3>2. CASE AreaLoad(flight[c]) /\ flight[c].area # view.area
      <4>1. PICK d \in Flights : Fits(flight[d])
        BY <2>3, <3>2 DEF InOrder, LoadsEndFit
      <4>2. d # c
        BY <3>2, <4>1 DEF Fits
      <4> QED BY <2>5, <4>1, <4>2 DEF HeadingFits
    <3>3. CASE ~AreaLoad(flight[c])
      <4>1. CASE Heading
        BY <1>3, <3>3, <4>1 DEF HeadingFits, Heading
      <4>2. ASSUME NEW d \in Flights, Fits(flight[d])
            PROVE  HeadingFits'
        <5>1. d # c
          BY <3>3, <4>2 DEF Fits
        <5> QED BY <2>5, <4>2, <5>1 DEF HeadingFits
      <4> QED BY <2>3, <4>1, <4>2 DEF InOrder, HeadingFits
    <3> QED BY <3>1, <3>2, <3>3
  <2> QED BY <2>4, <2>7, <2>8 DEF InOrder
<1>5. ASSUME NEW r \in Lists, Missing(r)'
      PROVE  Told(r)' \/ \E d \in Flights : Tells(d, r)'
  <2>0. Missing(r)
    BY <1>0, <1>5 DEF Missing
  <2>1. \A d \in Flights : Outdated(flight'[d], r) =>
          /\ d # c /\ Outdated(flight[d], r) /\ IsLoad(flight[d])
          /\ flight[d].late => flight'[d].late
    <3>1. \A d \in Flights \ {c} : Alike(flight'[d], flight[d])
      BY <1>1 DEF Steady
    <3> QED BY <1>1, <1>2, <3>1 DEF Outdated, Alike, IsLoad
  <2>2. CASE Told(r)
    <3>1. listed'[r] = "gone"
      BY <1>0, <2>2 DEF Told, Outdated
    <3> QED BY <2>1, <2>2, <3>1 DEF Told
  <2>3. CASE Tells(c, r)
    <3>1. listed'[r] = "gone"
      BY <1>0, <2>3 DEF Tells, Deleting, Outdated
    <3>2. \A d \in Flights : Outdated(flight'[d], r) => flight'[d].late
      BY <1>0, <1>1, <2>1, <2>3 DEF Tells, IsLoad
    <3> QED BY <3>1, <3>2 DEF Told
  <2>4. ASSUME NEW d \in Flights \ {c}, Tells(d, r)
        PROVE  Tells(d, r)'
    <3>1. Alike(flight'[d], flight[d])
      BY <1>1 DEF Steady
    <3>2. Deleting(flight'[d], r) /\ (IsLoad(flight'[d]) <=> IsLoad(flight[d]))
      BY <2>4, <3>1 DEF Tells, Deleting, Outdated, Alike, IsLoad
    <3>3. \A e \in Flights : Outdated(flight'[e], r) /\ IsLoad(flight[d]) =>
            e \in flight'[d].older
      BY <1>2, <2>1, <2>4 DEF Tells
    <3> QED BY <3>2, <3>3 DEF Tells
  <2> QED BY <1>0, <2>0, <2>2, <2>3, <2>4 DEF DeletedShown
<1>6. DeletedShown'
  BY <1>5 DEF DeletedShown
<1>7. StillThere'
  <2>1. \A r \in Lists : Missing(r)' => Missing(r)
    BY <1>0 DEF Missing
  <2>2. PressesWhatIs(c)
    BY <1>1 DEF PressesWhatIs
  <2> QED BY <1>0, <1>1, <2>1, <2>2, PressedStayThere
<1> QED BY <1>4, <1>6, <1>7 DEF AdminSound

LEMMA LoadIsShown ==
  ASSUME AdminInv, NEW c \in Flights, Show(c) \/ ShowPartly(c)
  PROVE  AdminInv'
<1>0. AdminTypeOK /\ flight[c] \in FlightRec
  BY DEF AdminInv, AdminTypeOK
<1>1. PICK area \in Maybe(Areas), there \in SUBSET Settings :
        /\ Sets(c, area, there) /\ careless \subseteq careless'
        /\ \/ "order" \in careless'
           \/ area = flight[c].area /\ there = Settings /\ ~flight[c].late
  <2>1. CASE Show(c)
    <3>1. flight[c].area \in Maybe(Areas)
      BY <1>0, CallFields
    <3> QED BY <2>1, <3>1 DEF Show, Careless
  <2>2. CASE ShowPartly(c)
    <3>1. NoOne \in Maybe(Areas) /\ {"plan"} \in SUBSET Settings
      BY DEF Maybe, Settings
    <3> QED BY <2>2, <3>1 DEF ShowPartly, Careless
  <2> QED BY <2>1, <2>2
<1>2. /\ Steady(c) /\ ~flight'[c].busy /\ flight'[c].then = "idle"
  BY <1>1, SettingCall
<1>3. /\ FormsFilled' /\ inputs' \in [Forms -> Maybe(Things)]
      /\ view' \in Views
  BY <1>1, SettingPage
<1>4. /\ UNCHANGED <<kept, state, strayed, refused, meddled>>
      /\ flight[c].then = "show"
      /\ listed' = [r \in Lists |-> IF r \in Showing(flight[c].list)
                                    THEN flight[c].got[r] ELSE listed[r]]
  BY <1>1 DEF Sets, record
<1>5. listed' \in [Lists -> RowStates]
  <2>1. flight[c].got \in [Lists -> RowStates]
    BY <1>4 DEF AdminInv, CallsMean, AnswerFits
  <2> QED BY <1>0, <1>4, <2>1 DEF AdminTypeOK
<1>6. RowsKept' /\ kept' \in [Things -> Maybe(Things)]
  BY <1>1, <1>4 DEF AdminInv, AdminTypeOK, RowsKept, Excused
<1>7. state' \in [Lists -> RowStates] /\ state'["note"] # "gone"
  BY <1>4 DEF AdminInv, AdminTypeOK
<1>8. Performs(flight[c])' /\ AnswerFits(flight'[c])
  BY <1>2 DEF Performs, AnswerFits
<1>9. "order" \in careless' \/ AdminSound'
  BY <1>1, <1>4, SettingInOrder DEF AdminInv
<1> QED
  BY <1>1, <1>2, <1>3, <1>5, <1>6, <1>7, <1>8, <1>9, FlightMoves

LEMMA LoadIsLost ==
  ASSUME AdminInv, NEW c \in Flights, LoseLoad(c)
  PROVE  AdminInv'
<1>1. /\ flight' = Landed(c) /\ careless \subseteq careless'
      /\ "order" \in careless'
      /\ UNCHANGED <<kept, state, view, listed, inputs, meddled>>
  BY DEF LoseLoad, Careless, record
<1>2. Steady(c) /\ flight'[c] = Grounded
  BY <1>1, OneCallLands DEF AdminInv
<1>3. /\ FormsFilled' /\ view' \in Views
      /\ inputs' \in [Forms -> Maybe(Things)]
  BY <1>1, PageStays
<1>4. ~flight'[c].busy /\ Performs(flight[c])' /\ AnswerFits(flight'[c])
  BY <1>2, GroundedCall DEF Performs, AnswerFits
<1> QED BY <1>1, <1>2, <1>3, <1>4, CallMovesOn

LEMMA OthersChangeRows ==
  ASSUME AdminInv, NEW r \in Lists, OthersChange(r)
  PROVE  AdminInv'
<1>1. PICK s \in {"live", "off", "gone"} :
        /\ state[r] # "gone" /\ (s = "gone" => r \in Deletable)
        /\ state' = [state EXCEPT ![r] = s] /\ meddled' = meddled \union {r}
        /\ UNCHANGED <<kept, view, listed, inputs, flight, refused, strayed,
                       careless>>
  BY DEF OthersChange
<1>2. state \in [Lists -> RowStates]
  BY DEF AdminInv, AdminTypeOK
<1>3. state' \in [Lists -> RowStates]
  BY <1>1, <1>2 DEF RowStates
<1>4. state'["note"] # "gone"
  BY <1>1, <1>2, AdminNames DEF AdminInv
<1>5. AdminTypeOK'
  BY <1>1, <1>3 DEF AdminInv, AdminTypeOK
<1>6. FormsFilled' /\ RowsKept' /\ CallsMean' /\ OneBusy'
  BY <1>1 DEF AdminInv, FormsFilled, Filled, RowsKept, CallsMean, OneBusy,
     Performs, AnswerFits, Adding, Saving, Pressing, Excused
<1>7. ASSUME AdminSound
      PROVE  AdminSound'
  <2>1. \A x \in Lists : Missing(x)' => Missing(x)
    BY <1>1, <1>2 DEF Missing
  <2>2. (Overtaken \/ InOrder)'
    BY <1>1, <1>7 DEF AdminSound, Overtaken, InOrder, ChangesFit, LoadsEndFit,
       HeadingFits, Heading, Fits
  <2>3. DeletedShown'
    BY <1>1, <1>7, <2>1 DEF AdminSound, DeletedShown, Told, Tells
  <2>4. StillThere'
    <3>1. ASSUME NEW c \in Flights, flight[c].then = "perform",
                 flight[c].of \in Lists, flight[c].what # "rule"
          PROVE  ~Missing(flight[c].of)'
      <4>1. PICK x \in Lists : x = flight[c].of
        BY <3>1
      <4>2. ~Missing(x)'
        BY <1>7, <2>1, <3>1, <4>1 DEF AdminSound, StillThere
      <4> QED BY <1>1, <4>1, <4>2 DEF Missing
    <3> QED BY <1>1, <3>1 DEF StillThere
  <2> QED BY <1>1, <1>7, <2>2, <2>3, <2>4 DEF AdminSound
<1> QED BY <1>1, <1>4, <1>5, <1>6, <1>7 DEF AdminInv

LEMMA AdminStarts == AdminInit => AdminInv
<1> SUFFICES ASSUME AdminInit PROVE AdminInv
  OBVIOUS
<1>1. /\ kept = [t \in Things |-> t]
      /\ state = [r \in Lists |-> "live"] /\ listed = [r \in Lists |-> "gone"]
      /\ inputs = [f \in Forms |-> NoOne] /\ strayed = {} /\ refused = {}
  BY DEF AdminInit
<1>2. PICK a \in Areas :
        view = [tab |-> "users", area |-> a, policy |-> NoOne, ruled |-> NoOne,
                editing |-> [f \in Edited |-> NoOne], there |-> {}]
  BY DEF AdminInit
<1>3. /\ view \in Views /\ view.area = a /\ view.tab = "users"
      /\ view.editing["user"] = NoOne
  BY <1>2 DEF Views, Tabs, Maybe, Edited
<1>4. PICK p : p = [Grounded EXCEPT !.then = "serve", !.list = "refresh",
                                    !.area = view.area]
  OBVIOUS
<1>5. /\ p \in FlightRec /\ p.then = "serve" /\ p.list = "refresh"
      /\ p.area = a
      /\ ~p.busy /\ ~p.late
  BY <1>3, <1>4 DEF Grounded, FlightRec, Maybe
<1>6. PICK c \in Flights : flight = [[d \in Flights |-> Grounded] EXCEPT ![c] = p]
  BY <1>4 DEF AdminInit
<1>7. /\ flight[c] = p /\ \A d \in Flights \ {c} : flight[d] = Grounded
      /\ flight \in [Flights -> FlightRec]
  BY <1>5, <1>6, GroundedCall
<1>8. AdminTypeOK
  BY <1>1, <1>3, <1>7 DEF AdminTypeOK, Maybe, RowStates
<1>9. FormsFilled
  BY <1>3 DEF FormsFilled, Filled, Form, Forms, Edited, Settings, UserForm,
     EntityForm, RuleForm, PolicyForm, SsoForm, PlanForm, AiForm, EmailForm
<1>10. RowsKept /\ state["note"] # "gone"
  BY <1>1, AdminNames DEF RowsKept
<1>11. CallsMean /\ OneBusy
  BY <1>5, <1>7, GroundedCall DEF CallsMean, OneBusy, Performs, AnswerFits
<1>12. AdminSound
  <2>1. Fits(flight[c])
    BY <1>3, <1>5, <1>7 DEF Fits, AreaLoad, IsLoad
  <2>2. InOrder
    <3>1. HeadingFits
      BY <2>1 DEF HeadingFits
    <3>2. ChangesFit
      BY <1>5, <1>7, GroundedCall DEF ChangesFit
    <3>3. LoadsEndFit
      BY <1>3, <1>5, <1>7, GroundedCall DEF LoadsEndFit
    <3> QED BY <3>1, <3>2, <3>3 DEF InOrder
  <2>3. DeletedShown /\ StillThere
    BY <1>1 DEF DeletedShown, StillThere, Missing
  <2> QED BY <1>1, <2>2, <2>3 DEF AdminSound
<1> QED BY <1>8, <1>9, <1>10, <1>11, <1>12 DEF AdminInv

LEMMA AdminStep == AdminInv /\ [AdminNext]_adminVars => AdminInv'
<1> SUFFICES ASSUME AdminInv, [AdminNext]_adminVars PROVE AdminInv'
  OBVIOUS
<1>1. CASE UNCHANGED adminVars
  <2>1. AdminTypeOK' /\ FormsFilled' /\ RowsKept' /\ CallsMean' /\ OneBusy'
    BY <1>1
       DEF adminVars, AdminInv, AdminTypeOK, FormsFilled, Filled, RowsKept,
       CallsMean, OneBusy, Performs, AnswerFits, Adding, Saving, Pressing, Excused
  <2>2. AdminSound => AdminSound'
    BY <1>1
       DEF adminVars, AdminSound, Overtaken, InOrder, ChangesFit, LoadsEndFit,
       HeadingFits, Heading, Fits, DeletedShown, Told, Tells, StillThere, Missing
  <2> QED BY <1>1, <2>1, <2>2 DEF AdminInv, adminVars
<1>2. ASSUME NEW c \in Flights,
             \/ \E t \in Tabs : OpenTab(c, t)
             \/ \E a \in Areas : SetApprovalModule(c, a)
             \/ OnUpdateUser(c) \/ OnUpdateEntity(c) \/ OnUpdateRule(c)
             \/ OnSavePlan(c) \/ SaveSso(c) \/ SaveAi(c) \/ SaveEmail(c)
             \/ OnSavePolicy(c)
      PROVE  AdminInv'
  BY <1>2, TabIsOpened, ModuleIsChosen, FormsAreSubmitted, PolicyIsSaved
<1>3. ASSUME NEW c \in Flights,
             \/ OnInviteUser(c) \/ OnCreateUser(c) \/ OnCreateEntity(c)
             \/ OnCreateKey(c) \/ OnCreateOauthClient(c) \/ OnCreateEndpoint(c)
             \/ OnCreateRule(c) \/ OnCreateRolePair(c)
             \/ RotateToken(c) \/ MarkAllRead(c)
      PROVE  AdminInv'
  BY <1>3, RowsAreAdded
<1>4. ASSUME NEW c \in Flights,
             \/ SetModule(c) \/ RevokeApiKey(c) \/ RevokeOauthClient(c)
             \/ ToggleEndpoint(c) \/ DeleteEndpointRow(c) \/ RevokeDelegation(c)
             \/ DeleteSod(c) \/ MarkRead(c)
             \/ \E r \in Lists : ToggleSod(c, r)
             \/ \E r \in Bands : ToggleRule(c, r) \/ DeleteRule(c, r)
      PROVE  AdminInv'
  BY <1>4, RowsAreSwitched, RowsAreDeleted, RulesAreHandled, NoteIsRead
<1>5. ASSUME NEW c \in Flights,
             \/ Change(c) \/ RefuseGone(c) \/ RefuseNew(c) \/ LoseCall(c)
             \/ GoOn(c) \/ Respond(c) \/ Show(c) \/ ShowPartly(c) \/ LoseLoad(c)
      PROVE  AdminInv'
  BY <1>5, ChangeIsMade, GoneIsRefused, NewIsRefused, CallIsLost, CallGoesOn,
     LoadIsServed, LoadIsShown, LoadIsLost
<1>6. ASSUME \/ \E t \in Tabs : SetTab(t)
             \/ \E u \in Persons : EditUser(u)
             \/ \E e \in Offices : EditEntity(e)
             \/ \E r \in Bands : EditRule(r)
             \/ \E f \in Edited : Cancel(f)
             \/ \E r \in Lists : OthersChange(r)
      PROVE  AdminInv'
  BY <1>6, TabIsSet, UserIsEdited, EntityIsEdited, RuleIsEdited,
     EditIsCancelled, OthersChangeRows
<1>7. CASE AdminNext
  BY <1>2, <1>3, <1>4, <1>5, <1>6, <1>7 DEF AdminNext
<1> QED BY <1>1, <1>7

(* For any modules, rows and calls under way: a form saves what it was     *)
(* filled from, and rules are handled under the heading of their module,   *)
(* as long as nothing careless was done, answers are waited for and come   *)
(* in their order (AdminPage.tsx, its forms and loadApproval).             *)
THEOREM AdminStaysInOrder == AdminSpec => []AdminInOrder
<1>1. AdminInv => AdminInOrder
  BY DEF AdminInv, AdminSound, AdminInOrder, RowsKept, Excused
<1> QED BY <1>1, AdminStarts, AdminStep, PTL DEF AdminSpec

-----------------------------------------------------------------------------
(* The tab of exchange rates                                               *)

(* A day is never the empty date.                                          *)
LEMMA DaysAreDates ==
  \A d \in 1..Len(Calendar) : Calendar[d] # <<>>
<1> TAKE d \in 1..Len(Calendar)
<1>1. Calendar[d] \in Nat \X Nat \X Nat
  BY CalendarAssumption
<1>2. PICK x \in Nat, y \in Nat, z \in Nat : Calendar[d] = <<x, y, z>>
  BY <1>1
<1>3. Len(<<x, y, z>>) # Len(<<>>)
  BY SMT
<1> QED
  BY <1>2, <1>3

(* What a select of the page can hold.                                     *)
Dates ==
  {<<>>} \union {Calendar[d] : d \in 1..Len(Calendar)}
    \union {SubSeq(Calendar[d], 1, n) : d \in 1..Len(Calendar), n \in 1..3}

Named == Tables \union {NoTable}

LoadCalls ==
  [then : {"idle", "overview", "detail", "listed", "seed", "seeded", "sync",
           "synced", "activate", "activated", "latest"},
   table : Named, cut : Dates, quote : Quotes, sel : Named, goal : Named,
   busy : BOOLEAN, got : 0..Len(Calendar)]

(* The steps of a call that are about a table.                             *)
OfTable == {"detail", "listed", "seed", "seeded", "activate", "activated"}

(* A call about a table has it, and one that goes on after a sync as well. *)
HasTable(q) ==
  /\ q.then \in OfTable => q.table # NoTable
  /\ q.then = "latest" => q.goal # NoTable

LoadTypes ==
  /\ last \in [Tables -> 0..Len(Calendar)] /\ active \in Tables
  /\ overview \in Named /\ tableId \in Named
  /\ cut \in Dates /\ quote \in Quotes /\ typing \in BOOLEAN
  /\ crossed \in BOOLEAN
  /\ load \in [Loads -> LoadCalls]
  /\ typing => tableId # NoTable
  /\ \A c \in Loads : HasTable(load[c])

(* Without a crossing there is one call, and it is about what the selects  *)
(* say; the filter may be typed in meanwhile.                              *)
OneLoad ==
  ~crossed => \A c, d \in Loads : Resting(c) \/ Resting(d) \/ c = d

FitsSelects(q) ==
  /\ typing \/ q.quote = quote
  /\ q.cut = cut
  /\ q.then \in {"seed", "seeded"} => q.table = tableId /\ q.cut # <<>>

LoadsFit == ~crossed => \A c \in Loads : Resting(c) \/ FitsSelects(load[c])

RatesTabInv == LoadTypes /\ OneLoad /\ LoadsFit /\ RatesFitTable

LEMMA IdleIsNoLoad == NoLoad \in LoadCalls /\ NoLoad.then = "idle"
<1>1. <<>> \in Dates /\ All \in Quotes /\ 0 \in 0..Len(Calendar)
  BY CalendarAssumption DEF Dates
<1> QED
  BY <1>1 DEF NoLoad, LoadCalls, Named

LEMMA RatesTabInit == RatesInit => RatesTabInv
<1> SUFFICES ASSUME RatesInit PROVE RatesTabInv
  OBVIOUS
<1>1. <<>> \in Dates /\ All \in Quotes /\ {0, 1} \subseteq 0..Len(Calendar)
  BY CalendarAssumption DEF Dates
<1>2. PICK c \in Loads :
        load = [[d \in Loads |-> NoLoad] EXCEPT ![c].then = "overview"]
  BY DEF RatesInit
<1>3. load = [d \in Loads |->
                IF d = c THEN [NoLoad EXCEPT !.then = "overview"] ELSE NoLoad]
  BY <1>2
<1>4. [NoLoad EXCEPT !.then = "overview"] \in LoadCalls
  BY IdleIsNoLoad DEF LoadCalls
<1>5. LoadTypes
  <2>1. \A d \in Loads : HasTable(load[d])
    BY <1>3 DEF HasTable, OfTable, NoLoad
  <2> QED
    BY <1>1, <1>3, <1>4, <2>1, IdleIsNoLoad DEF LoadTypes, RatesInit, Named
<1>6. OneLoad
  BY <1>3 DEF OneLoad, Resting
<1>7. LoadsFit
  BY <1>3 DEF LoadsFit, Resting, FitsSelects, NoLoad, RatesInit
<1>8. ~Calm
  BY <1>3 DEF Calm, Resting, NoLoad
<1> QED
  BY <1>5, <1>6, <1>7, <1>8 DEF RatesTabInv, RatesFitTable

(* A call goes on, ends, or is made by a click while nothing else is under *)
(* way.                                                                    *)
LEMMA LoadMoves ==
  ASSUME RatesTabInv, NEW c \in Loads, NEW q \in LoadCalls,
         load' = [load EXCEPT ![c] = q],
         ~Resting(c) \/ crossed' = (crossed \/ ~Calm),
         crossed' \in BOOLEAN, crossed => crossed',
         HasTable(q),
         last' \in [Tables -> 0..Len(Calendar)], active' \in Tables,
         overview' \in Named, tableId' \in Named, cut' \in Dates,
         quote' \in Quotes, typing' \in BOOLEAN,
         typing' => tableId' # NoTable,
         ~crossed' => \/ q # NoLoad /\ FitsSelects(q)'
                      \/ /\ q = NoLoad
                         /\ typing' \/ rates' = [table |-> tableId',
                                         quote |-> quote', cut |-> cut']
  PROVE  RatesTabInv'
<1>1. \A d \in Loads : load'[d] = IF d = c THEN q ELSE load[d]
  BY DEF RatesTabInv, LoadTypes
<1>2. LoadTypes'
  <2>1. load' \in [Loads -> LoadCalls]
    BY DEF RatesTabInv, LoadTypes
  <2>2. \A d \in Loads : HasTable(load'[d])
    BY <1>1 DEF RatesTabInv, LoadTypes
  <2>3. \A d \in Loads : HasTable(load[d])'
    BY <2>2 DEF HasTable
  <2> QED
    BY <2>1, <2>3 DEF LoadTypes
<1>3. ~crossed' => \A d \in Loads : d = c \/ Resting(d)
  BY DEF RatesTabInv, OneLoad, Calm
<1>4. ~crossed' => \A d \in Loads : d = c \/ Resting(d)'
  BY <1>1, <1>3 DEF Resting
<1>5. OneLoad'
  BY <1>4 DEF OneLoad
<1>6. LoadsFit'
  <2> SUFFICES ASSUME ~crossed', ~Resting(c)' PROVE FitsSelects(q)'
    BY <1>1, <1>4 DEF LoadsFit, FitsSelects
  <2> QED
    BY <1>1 DEF Resting
<1>7. RatesFitTable'
  BY <1>1 DEF RatesFitTable, Calm, Resting
<1> QED
  BY <1>2, <1>5, <1>6, <1>7 DEF RatesTabInv

(* What the administrator does makes a call about the selects, or none.    *)
LEMMA CallsFit ==
  ASSUME RatesTabInv, NEW c \in Loads, NEW q \in LoadCalls, Clicks(c, q),
         q # NoLoad, q.then \notin {"seed", "seeded", "latest"},
         q.then \in OfTable => q.table # NoTable,
         cut' \in Dates, quote' \in Quotes, typing' \in BOOLEAN,
         typing' => tableId # NoTable,
         q.cut = cut', typing' \/ q.quote = quote'
  PROVE  RatesTabInv'
<1>1. /\ load' = [load EXCEPT ![c] = q] /\ crossed' = (crossed \/ ~Calm)
      /\ UNCHANGED <<last, active, overview, tableId, rates>>
  BY DEF Clicks
<1>2. Calm \in BOOLEAN /\ crossed \in BOOLEAN
  BY DEF Calm, RatesTabInv, LoadTypes
<1>3. crossed' \in BOOLEAN /\ (crossed => crossed')
  BY <1>1, <1>2
<1>4. /\ last' \in [Tables -> 0..Len(Calendar)] /\ active' \in Tables
      /\ overview' \in Named /\ tableId' \in Named
      /\ (typing' => tableId' # NoTable)
  BY <1>1 DEF RatesTabInv, LoadTypes
<1>5. q # NoLoad /\ FitsSelects(q)' /\ HasTable(q)
  BY DEF FitsSelects, HasTable
<1> QED
  BY <1>1, <1>3, <1>4, <1>5, LoadMoves

LEMMA SelectsAreDates == \A t \in Tables : LoadTypes => Cuts(t) \subseteq Dates
<1> SUFFICES ASSUME NEW t \in Tables, LoadTypes, NEW d \in 1..last[t]
             PROVE  d \in 1..Len(Calendar)
  BY DEF Cuts, Dates
<1>1. last[t] \in 0..Len(Calendar) /\ Len(Calendar) \in Nat
  BY CalendarAssumption DEF LoadTypes
<1> QED
  BY <1>1

Steps == {"idle", "overview", "detail", "listed", "seed", "seeded", "sync",
          "synced", "activate", "activated", "latest"}

(* One field of a call is set.                                             *)
LEMMA FieldsSet ==
  ASSUME NEW q \in LoadCalls
  PROVE  /\ \A x \in Steps : [q EXCEPT !.then = x] \in LoadCalls
         /\ \A x \in Named : [q EXCEPT !.table = x] \in LoadCalls
         /\ \A x \in Dates : [q EXCEPT !.cut = x] \in LoadCalls
         /\ \A x \in Quotes : [q EXCEPT !.quote = x] \in LoadCalls
         /\ \A x \in Named : [q EXCEPT !.sel = x] \in LoadCalls
         /\ \A x \in Named : [q EXCEPT !.goal = x] \in LoadCalls
         /\ \A x \in BOOLEAN : [q EXCEPT !.busy = x] \in LoadCalls
         /\ \A x \in 0..Len(Calendar) : [q EXCEPT !.got = x] \in LoadCalls
<1>1. \A x \in Steps : [q EXCEPT !.then = x] \in LoadCalls
  BY DEF LoadCalls, Steps
<1>2. \A x \in Named : [q EXCEPT !.table = x] \in LoadCalls
  BY DEF LoadCalls
<1>3. \A x \in Dates : [q EXCEPT !.cut = x] \in LoadCalls
  BY DEF LoadCalls
<1>4. \A x \in Quotes : [q EXCEPT !.quote = x] \in LoadCalls
  BY DEF LoadCalls
<1>5. \A x \in Named : [q EXCEPT !.sel = x] \in LoadCalls
  BY DEF LoadCalls
<1>6. \A x \in Named : [q EXCEPT !.goal = x] \in LoadCalls
  BY DEF LoadCalls
<1>7. \A x \in BOOLEAN : [q EXCEPT !.busy = x] \in LoadCalls
  BY DEF LoadCalls
<1>8. \A x \in 0..Len(Calendar) : [q EXCEPT !.got = x] \in LoadCalls
  BY DEF LoadCalls
<1> QED
  BY <1>1, <1>2, <1>3, <1>4, <1>5, <1>6, <1>7, <1>8

(* A call as it is made, and the calls the clicks make of it.              *)
LEMMA CallSays ==
  ASSUME LoadTypes, NEW then \in Steps
  PROVE  /\ Call(then) \in LoadCalls
         /\ Call(then).then = then /\ Call(then).table = tableId
         /\ Call(then).cut = cut /\ Call(then).quote = quote
<1> DEFINE a == [NoLoad EXCEPT !.then = then]
           b == [a EXCEPT !.table = tableId]
           d == [b EXCEPT !.cut = cut]
           e == [d EXCEPT !.quote = quote]
<1>1. /\ tableId \in Named /\ cut \in Dates /\ quote \in Quotes
  BY DEF LoadTypes
<1>2. Call(then) = [e EXCEPT !.sel = tableId]
  BY DEF Call
<1>3. a \in LoadCalls /\ a.then = then
  <2>1. a \in LoadCalls
    BY IdleIsNoLoad, FieldsSet
  <2>2. a.then = then
    BY IdleIsNoLoad DEF LoadCalls
  <2> QED
    BY <2>1, <2>2
<1> HIDE DEF a
<1>4. b \in LoadCalls /\ b.then = then /\ b.table = tableId
  <2>1. b \in LoadCalls
    BY <1>1, <1>3, FieldsSet
  <2> QED
    BY <1>3, <2>1 DEF LoadCalls
<1> HIDE DEF b
<1>5. d \in LoadCalls /\ d.then = then /\ d.table = tableId /\ d.cut = cut
  <2>1. d \in LoadCalls
    BY <1>1, <1>4, FieldsSet
  <2> QED
    BY <1>4, <2>1 DEF LoadCalls
<1> HIDE DEF d
<1>6. /\ e \in LoadCalls /\ e.then = then /\ e.table = tableId /\ e.cut = cut
      /\ e.quote = quote
  <2>1. e \in LoadCalls
    BY <1>1, <1>5, FieldsSet
  <2> QED
    BY <1>5, <2>1 DEF LoadCalls
<1> HIDE DEF e
<1>7. Call(then) \in LoadCalls
  BY <1>1, <1>2, <1>6, FieldsSet
<1> QED
  BY <1>2, <1>6, <1>7 DEF LoadCalls

LEMMA GoalIs ==
  ASSUME NEW p \in LoadCalls, NEW x \in Named, NEW q, q = [p EXCEPT !.goal = x]
  PROVE  /\ q \in LoadCalls /\ q.then = p.then /\ q.cut = p.cut
         /\ q.quote = p.quote /\ q.table = p.table
<1>1. q \in LoadCalls
  BY FieldsSet
<1> QED
  BY <1>1 DEF LoadCalls

LEMMA CutIs ==
  ASSUME NEW p \in LoadCalls, NEW y \in Dates, NEW q, q = [p EXCEPT !.cut = y]
  PROVE  /\ q \in LoadCalls /\ q.then = p.then /\ q.cut = y
         /\ q.quote = p.quote /\ q.table = p.table
<1>1. q \in LoadCalls
  BY FieldsSet
<1> QED
  BY <1>1 DEF LoadCalls

LEMMA TableIs ==
  ASSUME NEW p \in LoadCalls, NEW x \in Named, NEW q, q = [p EXCEPT !.table = x]
  PROVE  /\ q \in LoadCalls /\ q.then = p.then /\ q.table = x
         /\ q.cut = p.cut /\ q.quote = p.quote /\ q.got = p.got
<1>1. q \in LoadCalls
  BY FieldsSet
<1> QED
  BY <1>1 DEF LoadCalls

LEMMA BusyIs ==
  ASSUME NEW p \in LoadCalls, NEW q, q = [p EXCEPT !.busy = TRUE]
  PROVE  /\ q \in LoadCalls /\ q.then = p.then /\ q.cut = p.cut
         /\ q.quote = p.quote /\ q.table = p.table
<1>1. q \in LoadCalls
  BY FieldsSet
<1> QED
  BY <1>1 DEF LoadCalls

LEMMA ClicksKeep ==
  ASSUME RatesTabInv, NEW c \in Loads,
         \/ OpenRates(c) \/ OnBlur(c) \/ SyncAll(c) \/ SyncOne(c)
         \/ ActivateFx(c)
         \/ \E t \in Tables : SelectTable(c, t)
         \/ tableId # NoTable /\ \E to \in Cuts(tableId) : SelectDate(c, to)
  PROVE  RatesTabInv'
<1>1. /\ cut \in Dates /\ tableId \in Named /\ NoTable \in Named
      /\ quote \in Quotes /\ typing \in BOOLEAN /\ LoadTypes
      /\ <<>> \in Dates
      /\ (typing => tableId # NoTable)
  BY DEF RatesTabInv, LoadTypes, Dates, Named
<1>2. CASE OpenRates(c)
  <2>5. PICK q : q = Call("overview")
    OBVIOUS
  <2>6. /\ q \in LoadCalls /\ q.then = "overview" /\ q.table = tableId
        /\ q.cut = cut /\ q.quote = quote
    BY <1>1, <2>5, CallSays DEF Steps
  <2>7. Clicks(c, q) /\ UNCHANGED filters
    BY <1>2, <2>5 DEF OpenRates
  <2> QED
    BY <1>1, <2>6, <2>7, CallsFit DEF filters, OfTable, NoLoad
<1>3. CASE OnBlur(c)
  <2>5. PICK q : q = Call("detail")
    OBVIOUS
  <2>6. /\ q \in LoadCalls /\ q.then = "detail" /\ q.table = tableId
        /\ q.cut = cut /\ q.quote = quote
    BY <1>1, <2>5, CallSays DEF Steps
  <2>7. Clicks(c, q) /\ typing /\ typing' \in BOOLEAN /\ UNCHANGED <<cut, quote>>
    BY <1>3, <2>5 DEF OnBlur
  <2> QED
    BY <1>1, <2>6, <2>7, CallsFit DEF filters, OfTable, NoLoad
<1>4. CASE SyncAll(c)
  <2>3. PICK p : p = Call("sync")
    OBVIOUS
  <2>4. /\ p \in LoadCalls /\ p.then = "sync" /\ p.table = tableId
        /\ p.cut = cut /\ p.quote = quote
    BY <1>1, <2>3, CallSays DEF Steps
  <2>5. PICK q : q = [p EXCEPT !.busy = TRUE]
    OBVIOUS
  <2>6. /\ q \in LoadCalls /\ q.then = "sync" /\ q.table = tableId
        /\ q.cut = cut /\ q.quote = quote
    BY <1>1, <2>4, <2>5, BusyIs
  <2>7. Clicks(c, q) /\ UNCHANGED filters
    BY <1>4, <2>3, <2>5 DEF SyncAll
  <2> QED
    BY <1>1, <2>6, <2>7, CallsFit DEF filters, OfTable, NoLoad
<1>5. CASE SyncOne(c)
  <2>3. PICK p : p = Call("sync")
    OBVIOUS
  <2>4. /\ p \in LoadCalls /\ p.then = "sync" /\ p.table = tableId
        /\ p.cut = cut /\ p.quote = quote
    BY <1>1, <2>3, CallSays DEF Steps
  <2>5. PICK a : a = [p EXCEPT !.goal = tableId]
    OBVIOUS
  <2>8. /\ a \in LoadCalls /\ a.then = "sync" /\ a.table = tableId
        /\ a.cut = cut /\ a.quote = quote
    BY <1>1, <2>4, <2>5, GoalIs
  <2>9. PICK q : q = [a EXCEPT !.busy = TRUE]
    OBVIOUS
  <2>10. q = [p EXCEPT !.goal = tableId, !.busy = TRUE]
    BY <2>5, <2>9
  <2>6. /\ q \in LoadCalls /\ q.then = "sync" /\ q.table = tableId
        /\ q.cut = cut /\ q.quote = quote
    BY <2>8, <2>9, BusyIs
  <2>7. Clicks(c, q) /\ UNCHANGED filters
    BY <1>5, <2>3, <2>10 DEF SyncOne
  <2> QED
    BY <1>1, <2>6, <2>7, CallsFit DEF filters, OfTable, NoLoad
<1>6. CASE ActivateFx(c)
  <2>3. PICK p : p = Call("activate")
    OBVIOUS
  <2>4. /\ p \in LoadCalls /\ p.then = "activate" /\ p.table = tableId
        /\ p.cut = cut /\ p.quote = quote
    BY <1>1, <2>3, CallSays DEF Steps
  <2>5. PICK q : q = [p EXCEPT !.busy = TRUE]
    OBVIOUS
  <2>6. /\ q \in LoadCalls /\ q.then = "activate" /\ q.table = tableId
        /\ q.cut = cut /\ q.quote = quote
    BY <1>1, <2>4, <2>5, BusyIs
  <2>7. Clicks(c, q) /\ tableId # NoTable /\ UNCHANGED filters
    BY <1>6, <2>3, <2>5 DEF ActivateFx
  <2> QED
    BY <1>1, <2>6, <2>7, CallsFit DEF filters, OfTable, NoLoad
<1>7. CASE \E t \in Tables : SelectTable(c, t)
  <2>1. PICK t \in Tables : SelectTable(c, t)
    BY <1>7
  <2>2. t \in Named /\ t # NoTable
    BY CalendarAssumption DEF Named
  <2>3. PICK p : p = Call("detail")
    OBVIOUS
  <2>4. /\ p \in LoadCalls /\ p.then = "detail" /\ p.table = tableId
        /\ p.cut = cut /\ p.quote = quote
    BY <1>1, <2>3, CallSays DEF Steps
  <2>5. PICK a : a = [p EXCEPT !.table = t]
    OBVIOUS
  <2>8. /\ a \in LoadCalls /\ a.then = "detail" /\ a.table = t
        /\ a.quote = quote
    BY <2>2, <2>4, <2>5, TableIs
  <2>9. PICK q : q = [a EXCEPT !.cut = <<>>]
    OBVIOUS
  <2>10. q = [p EXCEPT !.table = t, !.cut = <<>>]
    BY <2>5, <2>9
  <2>6. /\ q \in LoadCalls /\ q.then = "detail" /\ q.table = t
        /\ q.cut = <<>> /\ q.quote = quote
    BY <1>1, <2>8, <2>9, CutIs
  <2>7. Clicks(c, q) /\ t \in Named /\ t # NoTable /\ cut' = <<>> /\ UNCHANGED <<quote, typing>>
    BY <1>7, <2>1, <2>2, <2>3, <2>10 DEF SelectTable
  <2> QED
    BY <1>1, <2>6, <2>7, CallsFit DEF filters, OfTable, NoLoad
<1>8. CASE tableId # NoTable /\ \E to \in Cuts(tableId) : SelectDate(c, to)
  <2>1. PICK to \in Cuts(tableId) : SelectDate(c, to)
    BY <1>8
  <2>2. to \in Dates
    BY <1>1, <1>8, SelectsAreDates DEF Named
  <2>3. PICK p : p = Call("detail")
    OBVIOUS
  <2>4. /\ p \in LoadCalls /\ p.then = "detail" /\ p.table = tableId
        /\ p.cut = cut /\ p.quote = quote
    BY <1>1, <2>3, CallSays DEF Steps
  <2>5. PICK q : q = [p EXCEPT !.cut = to]
    OBVIOUS
  <2>6. /\ q \in LoadCalls /\ q.then = "detail" /\ q.table = tableId
        /\ q.cut = to /\ q.quote = quote
    BY <1>1, <2>4, <2>5, <2>2, CutIs
  <2>7. Clicks(c, q) /\ to \in Dates /\ tableId # NoTable /\ cut' = to /\ UNCHANGED <<quote, typing>>
    BY <1>8, <2>1, <2>2, <2>3, <2>5 DEF SelectDate
  <2> QED
    BY <1>1, <2>6, <2>7, CallsFit DEF filters, OfTable, NoLoad
<1> QED
  BY <1>2, <1>3, <1>4, <1>5, <1>6, <1>7, <1>8

LEMMA StepIs ==
  ASSUME NEW p \in LoadCalls, NEW x \in Steps, NEW q, q = [p EXCEPT !.then = x]
  PROVE  /\ q \in LoadCalls /\ q.then = x /\ q.table = p.table
         /\ q.cut = p.cut /\ q.quote = p.quote /\ q.goal = p.goal
<1>1. q \in LoadCalls
  BY FieldsSet
<1> QED
  BY <1>1 DEF LoadCalls

LEMMA GotIs ==
  ASSUME NEW p \in LoadCalls, NEW x \in 0..Len(Calendar), NEW q,
         q = [p EXCEPT !.got = x]
  PROVE  /\ q \in LoadCalls /\ q.then = p.then /\ q.table = p.table
         /\ q.cut = p.cut /\ q.quote = p.quote
<1>1. q \in LoadCalls
  BY FieldsSet
<1> QED
  BY <1>1 DEF LoadCalls

(* A call under way, as the invariant has it.                              *)
LEMMA LoadUnderWay ==
  ASSUME RatesTabInv, NEW c \in Loads, load[c].then # "idle"
  PROVE  /\ ~Resting(c) /\ load[c] \in LoadCalls
         /\ load \in [Loads -> LoadCalls]
         /\ (~crossed => FitsSelects(load[c]))
         /\ (load[c].then \in OfTable => load[c].table \in Tables)
<1>1. ~Resting(c)
  BY DEF Resting, NoLoad
<1>2. load \in [Loads -> LoadCalls] /\ load[c] \in LoadCalls
  BY DEF RatesTabInv, LoadTypes
<1>3. load[c].table \in Named
  BY <1>2 DEF LoadCalls
<1> QED
  BY <1>1, <1>2, <1>3 DEF RatesTabInv, LoadTypes, LoadsFit, Named, HasTable

(* A call under way goes on, and nothing else of the state of a call       *)
(* changes.                                                                *)
LEMMA GoesOnWith ==
  ASSUME RatesTabInv, NEW c \in Loads, NEW q \in LoadCalls,
         load[c].then # "idle", load' = [load EXCEPT ![c] = q],
         UNCHANGED <<quote, typing, crossed>>,
         q.then # "idle", HasTable(q),
         last' \in [Tables -> 0..Len(Calendar)], active' \in Tables,
         overview' \in Named, tableId' \in Named, cut' \in Dates,
         tableId # NoTable => tableId' # NoTable,
         q.quote = load[c].quote, ~crossed => q.cut = cut',
         q.then \in {"seed", "seeded"} =>
           (~crossed => q.table = tableId' /\ q.cut # <<>>)
  PROVE  RatesTabInv'
<1>1. /\ quote' \in Quotes /\ typing' \in BOOLEAN /\ crossed' \in BOOLEAN
      /\ (crossed => crossed') /\ (typing' => tableId' # NoTable)
  BY DEF RatesTabInv, LoadTypes
<1>2. ~crossed' => q # NoLoad /\ FitsSelects(q)'
  BY LoadUnderWay DEF FitsSelects, NoLoad
<1> QED
  BY <1>1, <1>2, LoadUnderWay, LoadMoves

(* The call of a slot ends with what it listed in the table.               *)
LEMMA EndsWith ==
  ASSUME RatesTabInv, NEW c \in Loads,
         ~Resting(c), load' = [load EXCEPT ![c] = NoLoad],
         UNCHANGED <<last, active, overview, quote, typing>>,
         crossed' \in BOOLEAN, crossed => crossed',
         tableId' \in Named, tableId # NoTable => tableId' # NoTable,
         cut' \in Dates,
         ~crossed' => typing \/ rates' = [table |-> tableId', quote |-> quote,
                                         cut |-> cut']
  PROVE  RatesTabInv'
<1>1. /\ last' \in [Tables -> 0..Len(Calendar)] /\ active' \in Tables
      /\ overview' \in Named /\ quote' \in Quotes /\ typing' \in BOOLEAN
      /\ (typing' => tableId' # NoTable)
  BY DEF RatesTabInv, LoadTypes
<1>2. PICK q : q = NoLoad
  OBVIOUS
<1>3. q \in LoadCalls /\ HasTable(q)
  BY <1>2, IdleIsNoLoad DEF OfTable, HasTable
<1> QED
  BY <1>1, <1>2, <1>3, LoadMoves

LEMMA ServerSteps ==
  ASSUME RatesTabInv, NEW c \in Loads,
         GetTable(c) \/ SyncTables(c) \/ SetActiveTable(c)
  PROVE  RatesTabInv'
<1>1. /\ cut \in Dates /\ tableId \in Named /\ overview \in Named
      /\ last \in [Tables -> 0..Len(Calendar)] /\ active \in Tables
      /\ NoTable \notin Tables
  BY CalendarAssumption DEF RatesTabInv, LoadTypes
<1>2. load[c].then # "idle"
  BY DEF GetTable, SyncTables, SetActiveTable
<1>3. PICK p : p = load[c]
  OBVIOUS
<1>4. /\ p \in LoadCalls /\ load \in [Loads -> LoadCalls]
      /\ (~crossed => FitsSelects(p))
      /\ (p.then \in OfTable => p.table \in Tables)
  BY <1>2, <1>3, LoadUnderWay
<1>5. CASE GetTable(c)
  <2>1. p.then \in {"detail", "seed"} /\ p.table \in Tables
    BY <1>3, <1>4, <1>5 DEF GetTable, OfTable
  <2>2. PICK x \in {"seeded", "listed"} :
          x = IF p.then = "seed" THEN "seeded" ELSE "listed"
    OBVIOUS
  <2>3. PICK n \in 0..Len(Calendar) : n = last[p.table]
    BY <1>1, <2>1
  <2>4. PICK a : a = [p EXCEPT !.then = x]
    OBVIOUS
  <2>5. /\ a \in LoadCalls /\ a.then = x /\ a.table = p.table
        /\ a.cut = p.cut /\ a.quote = p.quote
    BY <1>4, <2>2, <2>4, StepIs DEF Steps
  <2>6. PICK q : q = [a EXCEPT !.got = n]
    OBVIOUS
  <2>7. /\ q \in LoadCalls /\ q.then = x /\ q.table = p.table
        /\ q.cut = p.cut /\ q.quote = p.quote
    BY <2>5, <2>6, GotIs
  <2>8. load' = [load EXCEPT ![c].then = x, ![c].got = n]
    BY <1>3, <1>5, <2>2, <2>3 DEF GetTable
  <2>9. load' = [load EXCEPT ![c] = q]
    BY <1>3, <1>4, <2>4, <2>6, <2>8
  <2>10. UNCHANGED <<last, active, overview, tableId, cut, quote, typing, crossed>>
    BY <1>5 DEF GetTable, filters
  <2>11. x = "seeded" => p.then = "seed"
    BY <2>2
  <2>12. q.then # "idle" /\ q.table # NoTable /\ (~crossed => q.cut = cut')
    BY <1>1, <1>4, <2>1, <2>2, <2>7, <2>10 DEF FitsSelects
  <2>13. q.then \in {"seed", "seeded"} =>
           (~crossed => q.table = tableId' /\ q.cut # <<>>)
    BY <1>4, <2>2, <2>7, <2>10, <2>11 DEF FitsSelects
  <2> QED
    BY <1>1, <1>2, <1>3, <2>7, <2>9, <2>10, <2>12, <2>13, GoesOnWith
       DEF HasTable
<1>6. CASE SyncTables(c)
  <2>1. PICK x \in {"synced", "overview"} :
          x = IF p.goal = NoTable THEN "synced" ELSE "overview"
    OBVIOUS
  <2>2. PICK q : q = [p EXCEPT !.then = x]
    OBVIOUS
  <2>3. /\ q \in LoadCalls /\ q.then = x /\ q.table = p.table
        /\ q.cut = p.cut /\ q.quote = p.quote
    BY <1>4, <2>1, <2>2, StepIs DEF Steps
  <2>4. load' = [load EXCEPT ![c] = q]
    BY <1>3, <1>4, <1>6, <2>1, <2>2 DEF SyncTables, GoesOn
  <2>5. UNCHANGED <<active, overview, tableId, cut, quote, typing, crossed>>
    BY <1>6 DEF SyncTables, filters
  <2>6. last' \in [Tables -> 0..Len(Calendar)]
    <3>1. last' \in [Tables -> 1..Len(Calendar)]
      BY <1>6 DEF SyncTables
    <3>2. 1..Len(Calendar) \subseteq 0..Len(Calendar)
      BY CalendarAssumption
    <3> QED
      BY <3>1, <3>2
  <2>7. q.then \notin OfTable \union {"idle"} /\ (~crossed => q.cut = cut')
    BY <1>4, <2>1, <2>3, <2>5 DEF FitsSelects, OfTable
  <2>8. HasTable(q)
    BY <2>1, <2>3, <2>7 DEF HasTable
  <2> QED
    BY <1>1, <1>2, <1>3, <2>1, <2>3, <2>4, <2>5, <2>6, <2>7, <2>8, GoesOnWith
       DEF HasTable
<1>7. CASE SetActiveTable(c)
  <2>1. p.then = "activate" /\ p.table \in Tables
    BY <1>3, <1>4, <1>7 DEF SetActiveTable, OfTable
  <2>2. PICK q : q = [p EXCEPT !.then = "activated"]
    OBVIOUS
  <2>3. /\ q \in LoadCalls /\ q.then = "activated" /\ q.table = p.table
        /\ q.cut = p.cut /\ q.quote = p.quote
    BY <1>4, <2>2, StepIs DEF Steps
  <2>4. load' = [load EXCEPT ![c] = q]
    BY <1>3, <1>4, <1>7, <2>2 DEF SetActiveTable, GoesOn
  <2>5. /\ UNCHANGED <<last, overview, tableId, cut, quote, typing, crossed>>
        /\ active' = p.table
    BY <1>3, <1>7 DEF SetActiveTable, filters
  <2>6. q.table # NoTable /\ (~crossed => q.cut = cut')
    BY <1>1, <1>4, <2>1, <2>3, <2>5 DEF FitsSelects
  <2> QED
    BY <1>1, <1>2, <1>3, <2>1, <2>3, <2>4, <2>5, <2>6, GoesOnWith DEF HasTable
<1> QED
  BY <1>5, <1>6, <1>7

LEMMA CutIsTyped ==
  ASSUME NEW p \in LoadCalls
  PROVE  /\ p.got \in 0..Len(Calendar) /\ p.goal \in Named /\ p.cut \in Dates
         /\ p.sel \in Named
         /\ p.got > 0 => Calendar[p.got] \in Dates /\ Calendar[p.got] # <<>>
<1>1. /\ p.got \in 0..Len(Calendar) /\ p.goal \in Named /\ p.cut \in Dates
      /\ p.sel \in Named
  BY DEF LoadCalls
<1>2. ASSUME p.got > 0 PROVE Calendar[p.got] \in Dates /\ Calendar[p.got] # <<>>
  <2>1. p.got \in 1..Len(Calendar)
    BY <1>1, <1>2, CalendarAssumption
  <2> QED
    BY <2>1, DaysAreDates DEF Dates
<1> QED
  BY <1>1, <1>2

(* What loadFxTable shows at its end.                                      *)
LEMMA LoadEnds ==
  ASSUME RatesTabInv, NEW c \in Loads, load[c].then # "idle", EndsLoad(c),
         UNCHANGED <<last, active, overview, quote, typing, crossed>>,
         tableId' \in Named, tableId # NoTable => tableId' # NoTable,
         cut' \in Dates, ~crossed => load[c].cut = cut',
         ~crossed => typing \/ rates' = [table |-> tableId', quote |-> quote,
                                        cut |-> cut']
  PROVE  RatesTabInv'
<1>1. CASE load[c].goal = NoTable
  <2>1. load' = [load EXCEPT ![c] = NoLoad]
    BY <1>1 DEF EndsLoad
  <2>2. crossed' \in BOOLEAN /\ (crossed => crossed')
    BY DEF RatesTabInv, LoadTypes
  <2> QED
    BY <2>1, <2>2, LoadUnderWay, EndsWith
<1>2. CASE load[c].goal # NoTable
  <2>1. PICK p : p = load[c]
    OBVIOUS
  <2>2. p \in LoadCalls /\ load \in [Loads -> LoadCalls]
    BY <2>1, LoadUnderWay
  <2>3. PICK q : q = [p EXCEPT !.then = "latest"]
    OBVIOUS
  <2>4. /\ q \in LoadCalls /\ q.then = "latest" /\ q.cut = p.cut
        /\ q.quote = p.quote /\ q.goal = p.goal
    BY <2>2, <2>3, StepIs DEF Steps
  <2>5. load' = [load EXCEPT ![c] = q]
    BY <1>2, <2>1, <2>2, <2>3 DEF EndsLoad
  <2>6. /\ last' \in [Tables -> 0..Len(Calendar)] /\ active' \in Tables
        /\ overview' \in Named
    BY DEF RatesTabInv, LoadTypes
  <2> QED
    BY <1>2, <2>1, <2>4, <2>5, <2>6, GoesOnWith DEF OfTable, HasTable
<1> QED
  BY <1>1, <1>2

LEMMA PageSteps ==
  ASSUME RatesTabInv, NEW c \in Loads,
         \/ LoadFx(c) \/ ShowSynced(c) \/ ShowActivated(c) \/ ShowLatest(c)
         \/ ShowTable(c) \/ ShowSeeded(c)
  PROVE  RatesTabInv'
<1>1. /\ cut \in Dates /\ tableId \in Named /\ overview \in Named
      /\ last \in [Tables -> 0..Len(Calendar)] /\ active \in Tables
      /\ NoTable \notin Tables /\ Tables \subseteq Named /\ <<>> \in Dates
  <2>1. /\ cut \in Dates /\ tableId \in Named /\ overview \in Named
        /\ last \in [Tables -> 0..Len(Calendar)] /\ active \in Tables
    BY DEF RatesTabInv, LoadTypes
  <2> QED
    BY <2>1, CalendarAssumption DEF Named, Dates
<1>2. load[c].then # "idle"
  BY DEF LoadFx, ShowSynced, ShowActivated, ShowLatest, ShowTable, ShowSeeded
<1>3. PICK p : p = load[c]
  OBVIOUS
<1>4. /\ p \in LoadCalls /\ load \in [Loads -> LoadCalls]
      /\ (~crossed => FitsSelects(p))
      /\ (p.then \in OfTable => p.table \in Tables)
  BY <1>2, <1>3, LoadUnderWay
<1>5. CASE LoadFx(c)
  <2>1. p.sel \in Named
    BY <1>4, CutIsTyped
  <2>2. PICK t \in Tables : t = IF p.sel = NoTable THEN active ELSE p.sel
    BY <1>1, <2>1 DEF Named
  <2>3. PICK a : a = [p EXCEPT !.then = "detail"]
    OBVIOUS
  <2>4. a \in LoadCalls /\ a.then = "detail" /\ a.cut = p.cut /\ a.quote = p.quote
    BY <1>4, <2>3, StepIs DEF Steps
  <2>5. PICK q : q = [a EXCEPT !.table = t]
    OBVIOUS
  <2>6. /\ q \in LoadCalls /\ q.then = "detail" /\ q.cut = p.cut
        /\ q.quote = p.quote /\ q.table = t
    BY <1>1, <2>4, <2>5, TableIs
  <2>7. load' = [load EXCEPT ![c].then = "detail", ![c].table = t]
    BY <1>3, <1>5, <2>2 DEF LoadFx
  <2>8. load' = [load EXCEPT ![c] = q]
    BY <1>3, <1>4, <2>3, <2>5, <2>7
  <2>9. /\ UNCHANGED <<last, active, tableId, cut, quote, typing, crossed>>
        /\ overview' \in Named
    BY <1>1, <1>5 DEF LoadFx, filters
  <2>10. q.table # NoTable /\ (~crossed => q.cut = cut')
    BY <1>1, <1>4, <2>6, <2>9 DEF FitsSelects
  <2> QED
    BY <1>1, <1>2, <1>3, <2>6, <2>8, <2>9, <2>10, GoesOnWith DEF HasTable
<1>6. CASE ShowSynced(c)
  <2>1. PICK a : a = [p EXCEPT !.then = "detail"]
    OBVIOUS
  <2>2. a \in LoadCalls /\ a.then = "detail" /\ a.quote = p.quote
    BY <1>4, <2>1, StepIs DEF Steps
  <2>3. PICK b : b = [a EXCEPT !.table = active]
    OBVIOUS
  <2>4. b \in LoadCalls /\ b.then = "detail" /\ b.quote = p.quote /\ b.table = active
    BY <1>1, <2>2, <2>3, TableIs
  <2>5. PICK q : q = [b EXCEPT !.cut = <<>>]
    OBVIOUS
  <2>6. /\ q \in LoadCalls /\ q.then = "detail" /\ q.cut = <<>>
        /\ q.quote = p.quote /\ q.table = active
    BY <1>1, <2>4, <2>5, CutIs
  <2>7. load' = [load EXCEPT ![c].then = "detail", ![c].table = active,
                             ![c].cut = <<>>]
    BY <1>6 DEF ShowSynced
  <2>8. load' = [load EXCEPT ![c] = q]
    BY <1>3, <1>4, <2>1, <2>3, <2>5, <2>7
  <2>9. /\ UNCHANGED <<last, active, tableId, quote, typing, crossed>>
        /\ overview' \in Named /\ cut' = <<>>
    BY <1>1, <1>6 DEF ShowSynced
  <2>10. q.table # NoTable
    BY <1>1, <2>6
  <2> QED
    BY <1>1, <1>2, <1>3, <2>6, <2>8, <2>9, <2>10, GoesOnWith DEF HasTable
<1>7. CASE ShowActivated(c)
  <2>1. p.then = "activated" /\ p.table \in Tables
    BY <1>3, <1>4, <1>7 DEF ShowActivated, OfTable
  <2>2. PICK q : q = [p EXCEPT !.then = "detail"]
    OBVIOUS
  <2>3. /\ q \in LoadCalls /\ q.then = "detail" /\ q.table = p.table
        /\ q.cut = p.cut /\ q.quote = p.quote
    BY <1>4, <2>2, StepIs DEF Steps
  <2>4. load' = [load EXCEPT ![c] = q]
    BY <1>3, <1>4, <1>7, <2>2 DEF ShowActivated, GoesOn
  <2>5. /\ UNCHANGED <<last, active, tableId, cut, quote, typing, crossed>>
        /\ overview' \in Named
    BY <1>1, <1>7 DEF ShowActivated, filters
  <2>6. q.table # NoTable /\ (~crossed => q.cut = cut')
    BY <1>1, <1>4, <2>1, <2>3, <2>5 DEF FitsSelects
  <2> QED
    BY <1>1, <1>2, <1>3, <2>3, <2>4, <2>5, <2>6, GoesOnWith DEF HasTable
<1>8. CASE ShowLatest(c)
  <2>1. PICK a : a = [p EXCEPT !.then = "detail"]
    OBVIOUS
  <2>2. a \in LoadCalls /\ a.then = "detail" /\ a.quote = p.quote
    BY <1>4, <2>1, StepIs DEF Steps
  <2>3. p.goal \in Named
    BY <1>4, CutIsTyped
  <2>4. PICK b : b = [a EXCEPT !.table = p.goal]
    OBVIOUS
  <2>5. b \in LoadCalls /\ b.then = "detail" /\ b.quote = p.quote /\ b.table = p.goal
    BY <2>2, <2>3, <2>4, TableIs
  <2>6. PICK d : d = [b EXCEPT !.cut = <<>>]
    OBVIOUS
  <2>7. /\ d \in LoadCalls /\ d.then = "detail" /\ d.cut = <<>>
        /\ d.quote = p.quote /\ d.table = p.goal
    BY <1>1, <2>5, <2>6, CutIs
  <2>8. PICK q : q = [d EXCEPT !.goal = NoTable]
    OBVIOUS
  <2>9. /\ q \in LoadCalls /\ q.then = "detail" /\ q.cut = <<>>
        /\ q.quote = p.quote /\ q.table = p.goal
    BY <2>7, <2>8, GoalIs DEF Named
  <2>10. load' = [load EXCEPT ![c].then = "detail", ![c].table = p.goal,
                              ![c].cut = <<>>, ![c].goal = NoTable]
    BY <1>3, <1>8 DEF ShowLatest
  <2>11. load' = [load EXCEPT ![c] = q]
    BY <1>3, <1>4, <2>1, <2>4, <2>6, <2>8, <2>10
  <2>12. /\ UNCHANGED <<last, active, overview, tableId, quote, typing, crossed>>
         /\ cut' = <<>>
    BY <1>8 DEF ShowLatest
  <2>13. q.table # NoTable
    BY <1>3, <1>8, <2>9 DEF ShowLatest, RatesTabInv, LoadTypes, HasTable
  <2> QED
    BY <1>1, <1>2, <1>3, <2>9, <2>11, <2>12, <2>13, GoesOnWith DEF HasTable
<1>9. CASE ShowTable(c)
  <2>1. p.then = "listed" /\ p.table \in Tables
    BY <1>3, <1>4, <1>9 DEF ShowTable, OfTable
  <2>2. /\ UNCHANGED <<last, active, overview, quote, typing, crossed>>
        /\ tableId' = p.table /\ rates' = Listed(p)
    BY <1>3, <1>9 DEF ShowTable
  <2>3. /\ tableId' \in Named /\ tableId' # NoTable
    BY <1>1, <2>1, <2>2
  <2>4. CASE p.cut = <<>> /\ p.got > 0
    <3>1. PICK x \in Dates : x = Calendar[p.got] /\ x # <<>>
      BY <1>4, <2>4, CutIsTyped
    <3>2. PICK a : a = [p EXCEPT !.then = "seed"]
      OBVIOUS
    <3>3. a \in LoadCalls /\ a.then = "seed" /\ a.quote = p.quote
      BY <1>4, <3>2, StepIs DEF Steps
    <3>4. PICK b : b = [a EXCEPT !.table = p.table]
      OBVIOUS
    <3>5. /\ b \in LoadCalls /\ b.then = "seed" /\ b.quote = p.quote
          /\ b.table = p.table
      BY <1>1, <2>1, <3>3, <3>4, TableIs
    <3>6. PICK q : q = [b EXCEPT !.cut = x]
      OBVIOUS
    <3>7. /\ q \in LoadCalls /\ q.then = "seed" /\ q.cut = x
          /\ q.quote = p.quote /\ q.table = p.table
      BY <3>1, <3>5, <3>6, CutIs
    <3>8. cut' = x
      BY <1>3, <1>9, <2>4, <3>1 DEF ShowTable
    <3>9. load' = [load EXCEPT ![c].then = "seed", ![c].table = p.table,
                               ![c].cut = x]
      BY <1>3, <1>9, <2>4, <3>8 DEF ShowTable, Reloaded
    <3>10. load' = [load EXCEPT ![c] = q]
      BY <1>3, <1>4, <3>2, <3>4, <3>6, <3>9
    <3>11. q.table # NoTable
      BY <1>1, <2>1, <3>7
    <3> QED
      BY <1>1, <1>2, <1>3, <2>2, <2>3, <3>1, <3>7, <3>8, <3>10, <3>11,
         GoesOnWith DEF HasTable
  <2>5. CASE ~(p.cut = <<>> /\ p.got > 0)
    <3>1. EndsLoad(c) /\ UNCHANGED cut
      BY <1>3, <1>9, <2>5 DEF ShowTable
    <3>2. Listed(p) = [table |-> p.table, quote |-> p.quote, cut |-> p.cut]
      BY <2>5 DEF Listed
    <3>3. ~crossed => p.cut = cut' /\ (typing \/ p.quote = quote)
      BY <1>4, <3>1 DEF FitsSelects
    <3> QED
      BY <1>1, <1>2, <1>3, <2>2, <2>3, <3>1, <3>2, <3>3, LoadEnds
  <2> QED
    BY <2>4, <2>5
<1>10. CASE ShowSeeded(c)
  <2>1. p.then = "seeded"
    BY <1>3, <1>10 DEF ShowSeeded
  <2>2. /\ UNCHANGED <<last, active, overview, tableId, cut, quote, typing, crossed>>
        /\ rates' = Listed(p) /\ EndsLoad(c)
    BY <1>3, <1>10 DEF ShowSeeded, filters
  <2>3. ~crossed => /\ p.cut = cut /\ p.cut # <<>> /\ p.table = tableId
                    /\ (typing \/ p.quote = quote)
    BY <1>4, <2>1 DEF FitsSelects
  <2>4. ~crossed => Listed(p) = [table |-> p.table, quote |-> p.quote,
                                 cut |-> p.cut]
    BY <2>3 DEF Listed
  <2> QED
    BY <1>1, <1>2, <1>3, <2>2, <2>3, <2>4, LoadEnds
<1> QED
  BY <1>5, <1>6, <1>7, <1>8, <1>9, <1>10

LEMMA CallsMayFail ==
  ASSUME RatesTabInv, NEW c \in Loads, FailLoad(c)
  PROVE  RatesTabInv'
<1>1. /\ load' = [load EXCEPT ![c] = NoLoad] /\ crossed' = TRUE /\ ~Resting(c)
      /\ UNCHANGED <<last, active, overview, tableId, cut, quote, typing>>
  BY DEF FailLoad, filters
<1>2. tableId \in Named /\ cut \in Dates
  BY DEF RatesTabInv, LoadTypes
<1> QED
  BY <1>1, <1>2, EndsWith

LEMMA FilterIsTyped ==
  ASSUME RatesTabInv, NEW to \in Quotes, SetFilter(to)
  PROVE  RatesTabInv'
<1>1. /\ quote' \in Quotes /\ typing' = TRUE /\ tableId # NoTable
      /\ UNCHANGED <<last, active, overview, tableId, cut, load, crossed>>
  BY DEF SetFilter
<1>2. LoadTypes'
  BY <1>1 DEF RatesTabInv, LoadTypes, HasTable
<1>3. OneLoad' /\ LoadsFit' /\ RatesFitTable'
  BY <1>1
     DEF RatesTabInv, OneLoad, LoadsFit, FitsSelects, RatesFitTable, Resting
<1> QED
  BY <1>2, <1>3 DEF RatesTabInv

LEMMA RatesTabStep == RatesTabInv /\ [RatesNext]_ratesVars => RatesTabInv'
<1> SUFFICES ASSUME RatesTabInv, [RatesNext]_ratesVars PROVE RatesTabInv'
  OBVIOUS
<1>1. CASE RatesNext
  BY <1>1, ClicksKeep, ServerSteps, PageSteps, CallsMayFail,
     FilterIsTyped DEF RatesNext
<1>2. CASE UNCHANGED ratesVars
  <2>1. LoadTypes' /\ OneLoad' /\ LoadsFit' /\ RatesFitTable'
    BY <1>2 DEF RatesTabInv, LoadTypes, OneLoad, LoadsFit, FitsSelects,
       RatesFitTable, Resting, Calm, HasTable, ratesVars
  <2> QED
    BY <2>1 DEF RatesTabInv
<1> QED
  BY <1>1, <1>2

(* For any tables, days and filters: who waits for the answers sees the    *)
(* rates of the table, the date and the currencies the tab shows           *)
(* (loadFxTable of AdminPage.tsx).                                         *)
THEOREM RatesAlwaysFit == RatesSpec => []RatesFitTable
<1>1. RatesTabInv => RatesFitTable
  BY DEF RatesTabInv
<1> QED
  BY <1>1, RatesTabInit, RatesTabStep, PTL DEF RatesSpec
=============================================================================
