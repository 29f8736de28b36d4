----------------------------- MODULE Contracting -----------------------------
(***************************************************************************)
(* From a contract to an order: contracts with their approval chain and    *)
(* signature envelope (contracts.service.ts), the purchase requests raised *)
(* for them or by hand, and the orders these become                        *)
(* (purchase-requests.service.ts).                                         *)
(*                                                                         *)
(* A handler reads a row, checks it and writes it in a later database      *)
(* call, so requests served at the same time interleave between the two: a *)
(* request holds what it is about to write, computed from what it read.    *)
(* A handler has one write that matters, so one that stops before it       *)
(* leaves no trace and needs no action.                                    *)
(*                                                                         *)
(* A definition Name_Slip is Name with a plausible slip, which a property  *)
(* below must catch; nothing refers to it.                                 *)
(*                                                                         *)
(* Left out: what contracts and requests say, which update, amend, renew   *)
(* and the scans write and no guard reads; documents, comments and flags.  *)
(* What becomes of an order is the subject of PurchaseOrders.              *)
(***************************************************************************)
EXTENDS Naturals, FiniteSets

CONSTANTS
  Contracts,  \* contract ids
  PRs,        \* purchase request ids
  Numbers,    \* order numbers
  Requests,   \* slots for requests served at the same time
  None,       \* SQL NULL
  Chain,      \* the length of CONTRACT_APPROVAL_CHAIN
  Signers     \* the number of signers of an envelope

ASSUME ChainAssumption == Chain \in Nat \ {0} /\ Signers \in Nat \ {0}
ASSUME RequestsAssumption == IsFiniteSet(Requests)

ContractStatus == {"absent", "draft", "in_approval", "pending_signature",
                   "active", "expired", "cancelled"}
PRStatus == {"absent", "draft", "in_approval", "approved", "converted",
             "cancelled"}

(* The signers sign in order, so their number says who they are.           *)
Envelopes == [state : {"new", "sent", "completed"}, signed : 0..Signers]
NewEnvelope == [state |-> "new", signed |-> 0]

(* The writes a request may be about to make.                              *)
Ops == {"moveContract", "sendForApproval", "advance", "openEnvelope",
        "writeEnvelope", "complete", "movePR", "findLinked", "accept",
        "convert"}

ASSUME NoneAssumption == None \notin Contracts \union PRs \union Ops

Idle == [op |-> None, contract |-> None, pr |-> None, to |-> None,
         stage |-> 0, envelope |-> None, number |-> None]

VARIABLES
  contract,  \* Contract.status
  stage,     \* Contract.approvalStage
  envelope,  \* Contract.signatureJson
  pr,        \* PurchaseRequest.status
  source,    \* PurchaseRequest.sourceContractId
  named,     \* the contract whose number the request's number is made from
  accepted,  \* the proposals of a contract that were accepted
  orders,    \* the orders, each with its number, its request and how it arose
  req,       \* the requests in flight
  together   \* history: two requests were served at the same time

contractVars == <<contract, stage, envelope>>
prVars == <<pr, source, named, accepted>>
vars == <<contract, stage, envelope, pr, source, named, accepted, orders, req,
          together>>

Init ==
  /\ contract = [c \in Contracts |-> "absent"]
  /\ stage = [c \in Contracts |-> 0]
  /\ envelope = [c \in Contracts |-> None]
  /\ pr = [p \in PRs |-> "absent"]
  /\ source = [p \in PRs |-> None]
  /\ named = [p \in PRs |-> None]
  /\ accepted = [c \in Contracts |-> 0]
  /\ orders = {}
  /\ req = [r \in Requests |-> Idle]
  /\ together = FALSE

(* A request has made its checks and is about to write what job says.      *)
Serve(r, job) ==
  /\ req[r] = Idle
  /\ req' = [req EXCEPT ![r] = job]

Pending(r, op) == req[r].op = op
Finish(r) == req' = [req EXCEPT ![r] = Idle]

-----------------------------------------------------------------------------
(* Contracts: create, aiIntake and scanIntake; transition                  *)

CreateContract(r, c) ==
  /\ req[r] = Idle /\ contract[c] = "absent"
  /\ contract' = [contract EXCEPT ![c] = "draft"]
  /\ UNCHANGED <<stage, envelope, prVars, orders, req>>

ContractMoves_BackFromSignature ==
  [absent |-> {}, draft |-> {"in_approval", "cancelled"},
   in_approval |-> {"pending_signature", "active", "draft", "cancelled"},
   pending_signature |-> {"active", "draft", "cancelled"},
   active |-> {"expired", "cancelled"}, expired |-> {}, cancelled |-> {}]

ContractMoves ==
  [absent |-> {}, draft |-> {"in_approval", "cancelled"},
   in_approval |-> {"pending_signature", "active", "draft", "cancelled"},
   pending_signature |-> {"active", "cancelled"},
   active |-> {"expired", "cancelled"}, expired |-> {}, cancelled |-> {}]

StartMoveContract(r, c, s) ==
  /\ s \in ContractMoves[contract[c]]
  /\ Serve(r, [Idle EXCEPT !.op = "moveContract", !.contract = c, !.to = s])
  /\ UNCHANGED <<contractVars, prVars, orders>>

MoveContract(r) ==
  /\ Pending(r, "moveContract")
  /\ contract' = [contract EXCEPT ![req[r].contract] = req[r].to]
  /\ Finish(r)
  /\ UNCHANGED <<stage, envelope, prVars, orders>>

-----------------------------------------------------------------------------
(* sendForApproval and advanceApproval                                     *)

StartSendForApproval(r, c) ==
  /\ contract[c] = "draft"
  /\ Serve(r, [Idle EXCEPT !.op = "sendForApproval", !.contract = c])
  /\ UNCHANGED <<contractVars, prVars, orders>>

SendForApproval(r) ==
  /\ Pending(r, "sendForApproval")
  /\ contract' = [contract EXCEPT ![req[r].contract] = "in_approval"]
  /\ stage' = [stage EXCEPT ![req[r].contract] = 1]
  /\ Finish(r)
  /\ UNCHANGED <<envelope, prVars, orders>>

StartAdvance(r, c) ==
  /\ contract[c] = "in_approval"
  /\ Serve(r, [Idle EXCEPT
       !.op = IF stage[c] + 1 > Chain THEN "openEnvelope" ELSE "advance",
       !.contract = c, !.stage = stage[c] + 1])
  /\ UNCHANGED <<contractVars, prVars, orders>>

Advance(r) ==
  /\ Pending(r, "advance")
  /\ stage' = [stage EXCEPT ![req[r].contract] = req[r].stage]
  /\ Finish(r)
  /\ UNCHANGED <<contract, envelope, prVars, orders>>

(* After the last stage: an envelope nobody has signed.                    *)
OpenEnvelope(r) ==
  /\ Pending(r, "openEnvelope")
  /\ contract' = [contract EXCEPT ![req[r].contract] = "pending_signature"]
  /\ stage' = [stage EXCEPT ![req[r].contract] = Chain]
  /\ envelope' = [envelope EXCEPT ![req[r].contract] = NewEnvelope]
  /\ Finish(r)
  /\ UNCHANGED <<prVars, orders>>

-----------------------------------------------------------------------------
(* sendForSignature, checkSignatureStatus and completeSignature.  The      *)
(* envelope is one JSON value, read and written as a whole.                *)

StartSendForSignature(r, c) ==
  LET signed == IF envelope[c] = None THEN 0 ELSE envelope[c].signed
  IN  /\ contract[c] = "pending_signature"
      /\ Serve(r, [Idle EXCEPT !.op = "writeEnvelope", !.contract = c,
                     !.envelope = [state |-> "sent", signed |-> signed]])
      /\ UNCHANGED <<contractVars, prVars, orders>>

(* The next signer signs, whether or not the envelope was sent.            *)
StartSign(r, c) ==
  /\ contract[c] = "pending_signature" /\ envelope[c] # None
  /\ envelope[c].signed < Signers
  /\ Serve(r, [Idle EXCEPT !.op = "writeEnvelope", !.contract = c,
                 !.envelope = [envelope[c] EXCEPT !.signed = @ + 1]])
  /\ UNCHANGED <<contractVars, prVars, orders>>

WriteEnvelope(r) ==
  /\ Pending(r, "writeEnvelope")
  /\ envelope' = [envelope EXCEPT ![req[r].contract] = req[r].envelope]
  /\ Finish(r)
  /\ UNCHANGED <<contract, stage, prVars, orders>>

StartComplete(r, c) ==
  /\ contract[c] = "pending_signature" /\ envelope[c] # None
  /\ envelope[c].signed = Signers
  /\ Serve(r, [Idle EXCEPT !.op = "complete", !.contract = c,
                 !.envelope = [envelope[c] EXCEPT !.state = "completed"]])
  /\ UNCHANGED <<contractVars, prVars, orders>>

Complete_StatusOnly(r) ==
  /\ Pending(r, "complete")
  /\ contract' = [contract EXCEPT ![req[r].contract] = "active"]
  /\ envelope' = [envelope EXCEPT ![req[r].contract].state = "completed"]
  /\ Finish(r)
  /\ UNCHANGED <<stage, prVars, orders>>

(* One transaction, with the executed document.                            *)
Complete(r) ==
  /\ Pending(r, "complete")
  /\ contract' = [contract EXCEPT ![req[r].contract] = "active"]
  /\ envelope' = [envelope EXCEPT ![req[r].contract] = req[r].envelope]
  /\ Finish(r)
  /\ UNCHANGED <<stage, prVars, orders>>

-----------------------------------------------------------------------------
(* Purchase requests: create, transition, createFromProposal               *)

Exists(c) == contract[c] # "absent"
Taken(n) == \E p \in PRs : named[p] = n

(* By hand, for an existing contract or none, under a number of its own or *)
(* one that a proposal would get.                                          *)
CreatePR(r, p, c, n) ==
  /\ req[r] = Idle /\ pr[p] = "absent"
  /\ c \in Contracts => Exists(c)
  /\ n \in Contracts => Exists(n) /\ ~Taken(n)
  /\ pr' = [pr EXCEPT ![p] = "draft"]
  /\ source' = [source EXCEPT ![p] = c]
  /\ named' = [named EXCEPT ![p] = n]
  /\ UNCHANGED <<contractVars, accepted, orders, req>>

PRMoves ==
  [absent |-> {}, draft |-> {"in_approval", "cancelled"},
   in_approval |-> {"approved", "draft", "cancelled"},
   approved |-> {"cancelled"}, converted |-> {}, cancelled |-> {}]

StartMovePR(r, p, s) ==
  /\ s \in PRMoves[pr[p]]
  /\ Serve(r, [Idle EXCEPT !.op = "movePR", !.pr = p, !.to = s])
  /\ UNCHANGED <<contractVars, prVars, orders>>

MovePR(r) ==
  /\ Pending(r, "movePR")
  /\ pr' = [pr EXCEPT ![req[r].pr] = req[r].to]
  /\ Finish(r)
  /\ UNCHANGED <<contractVars, source, named, accepted, orders>>

StartAccept(r, c) ==
  /\ contract[c] = "active"
  /\ Serve(r, [Idle EXCEPT !.op = "findLinked", !.contract = c])
  /\ UNCHANGED <<contractVars, prVars, orders>>

FindLinked(r) ==
  /\ Pending(r, "findLinked")
  /\ IF \E p \in PRs : source[p] = req[r].contract
     THEN Finish(r)
     ELSE req' = [req EXCEPT ![r].op = "accept"]
  /\ UNCHANGED <<contractVars, prVars, orders>>

Accept_OwnNumber(r) ==
  LET c == req[r].contract
  IN  /\ Pending(r, "accept")
      /\ \E p \in PRs :
           /\ pr[p] = "absent"
           /\ pr' = [pr EXCEPT ![p] = "in_approval"]
           /\ source' = [source EXCEPT ![p] = c]
           /\ accepted' = [accepted EXCEPT ![c] = @ + 1]
           /\ UNCHANGED named
      /\ Finish(r)
      /\ UNCHANGED <<contractVars, orders>>

(* The number of the request is made from the number of the contract and   *)
(* unique: the insert fails when it is taken.                              *)
Accept(r) ==
  LET c == req[r].contract
  IN  /\ Pending(r, "accept")
      /\ \/ /\ Taken(c)
            /\ UNCHANGED prVars
         \/ /\ ~Taken(c)
            /\ \E p \in PRs :
                 /\ pr[p] = "absent"
                 /\ pr' = [pr EXCEPT ![p] = "in_approval"]
                 /\ source' = [source EXCEPT ![p] = c]
                 /\ named' = [named EXCEPT ![p] = c]
            /\ accepted' = [accepted EXCEPT ![c] = @ + 1]
      /\ Finish(r)
      /\ UNCHANGED <<contractVars, orders>>

-----------------------------------------------------------------------------
(* convertToPo, and the create of purchase orders                          *)

Linked(p) == {o \in orders : o.pr = p}
ConvertedFrom(p) == {o \in orders : o.pr = p /\ o.by = "convert"}
Used(n) == \E o \in orders : o.number = n

StartConvert_StatusOnly(r, p, n) ==
  /\ pr[p] \in {"approved", "converted"}
  /\ Serve(r, [Idle EXCEPT !.op = "convert", !.pr = p, !.number = n])
  /\ UNCHANGED <<contractVars, prVars, orders>>

StartConvert(r, p, n) ==
  /\ pr[p] = "approved" /\ Linked(p) = {}
  /\ Serve(r, [Idle EXCEPT !.op = "convert", !.pr = p, !.number = n])
  /\ UNCHANGED <<contractVars, prVars, orders>>

(* One transaction; order numbers are unique, so it may fail as a whole.   *)
Convert(r) ==
  LET p == req[r].pr
      n == req[r].number
  IN  /\ Pending(r, "convert")
      /\ \/ Used(n) /\ UNCHANGED <<pr, orders>>
         \/ /\ ~Used(n)
            /\ pr' = [pr EXCEPT ![p] = "converted"]
            /\ orders' = orders \union
                           {[number |-> n, pr |-> p, by |-> "convert"]}
      /\ Finish(r)
      /\ UNCHANGED <<contractVars, source, named, accepted>>

(* By hand, for an existing purchase request of any status or for none.    *)
CreateOrder(r, p, n) ==
  /\ req[r] = Idle /\ ~Used(n)
  /\ p \in PRs => pr[p] # "absent"
  /\ orders' = orders \union {[number |-> n, pr |-> p, by |-> "hand"]}
  /\ UNCHANGED <<contractVars, prVars, req>>

-----------------------------------------------------------------------------
Start(r) ==
  \/ \E c \in Contracts :
       \/ CreateContract(r, c)
       \/ \E s \in ContractStatus : StartMoveContract(r, c, s)
       \/ StartSendForApproval(r, c)  \/ StartAdvance(r, c)
       \/ StartSendForSignature(r, c)  \/ StartSign(r, c)
       \/ StartComplete(r, c)  \/ StartAccept(r, c)
  \/ \E p \in PRs :
       \/ \E c, n \in Contracts \union {None} : CreatePR(r, p, c, n)
       \/ \E s \in PRStatus : StartMovePR(r, p, s)
       \/ \E n \in Numbers : StartConvert(r, p, n)
  \/ \E p \in PRs \union {None}, n \in Numbers : CreateOrder(r, p, n)

Step(r) ==
  \/ MoveContract(r)  \/ SendForApproval(r)  \/ Advance(r)
  \/ OpenEnvelope(r)  \/ WriteEnvelope(r)  \/ Complete(r)
  \/ MovePR(r)  \/ FindLinked(r)  \/ Accept(r)  \/ Convert(r)

OneAtATime == \A r, s \in Requests : r # s => Idle \in {req[r], req[s]}

Next == /\ \E r \in Requests : Start(r) \/ Step(r)
        /\ together' = (together \/ ~OneAtATime')

Spec == Init /\ [][Next]_vars

-----------------------------------------------------------------------------
(* Properties *)

Request ==
  [op : Ops \union {None}, contract : Contracts \union {None},
   pr : PRs \union {None}, to : ContractStatus \union PRStatus \union {None},
   stage : 0..Chain + 1, envelope : Envelopes \union {None},
   number : Numbers \union {None}]

Orders == [number : Numbers, pr : PRs \union {None}, by : {"convert", "hand"}]

(* The types of the variables; no stage lies beyond the chain.             *)
TypeOK ==
  /\ contract \in [Contracts -> ContractStatus]
  /\ stage \in [Contracts -> 0..Chain]
  /\ envelope \in [Contracts -> Envelopes \union {None}]
  /\ pr \in [PRs -> PRStatus]
  /\ source \in [PRs -> Contracts \union {None}]
  /\ named \in [PRs -> Contracts \union {None}]
  /\ accepted \in [Contracts -> Nat]
  /\ orders \subseteq Orders
  /\ req \in [Requests -> Request]
  /\ together \in BOOLEAN

(* A completed envelope bears every signature, whatever overlapped.        *)
CompletedIsSigned ==
  \A c \in Contracts :
    envelope[c] # None /\ envelope[c].state = "completed"
      => envelope[c].signed = Signers

(* The proposal of a contract is accepted once, however requests overlap.  *)
AcceptedOnce == \A c \in Contracts : accepted[c] <= 1

(* What says it was converted has an order, and a purchase request becomes *)
(* more than one order only by conversions that overlap.                   *)
OrdersPerOverlap ==
  \A p \in PRs :
    /\ pr[p] = "converted" => ConvertedFrom(p) # {}
    /\ Cardinality(ConvertedFrom(p)) <= Cardinality(Requests)

(* Requests that overlap do once what can be done once, and where they can *)
(* do more, no more than there are requests: acceptances and conversions.  *)
DoneOnce == AcceptedOnce /\ OrdersPerOverlap

(* As long as requests do not overlap, nobody signs a contract that is     *)
(* still in approval or editable before it, and a purchase request is      *)
(* converted if and only if it has an order from its conversion, one.      *)
Orderly ==
  /\ \A c \in Contracts :
       contract[c] \in {"draft", "in_approval"} => envelope[c] = None
  /\ \A p \in PRs :
       IF pr[p] = "converted" THEN Cardinality(ConvertedFrom(p)) = 1
                              ELSE ConvertedFrom(p) = {}
SerialIsOrderly == together \/ Orderly

(* A purchase request that has an order is not converted again.            *)
ConvertedOnce == \A p \in PRs : Cardinality(ConvertedFrom(p)) <= 1
=============================================================================
