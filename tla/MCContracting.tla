--------------------------- MODULE MCContracting ----------------------------
(* Small instances of Contracting.                                         *)
EXTENDS Contracting, TLC

CONSTANTS c1, p1, p2, n1, n2, n3

(* The halves of the system meet in the acceptance of an active contract   *)
(* and in the conversion of a request.  Three states it can reach, from    *)
(* which one of its parts goes on: no request or order can be raised any   *)
(* more; the contract is active and one order number is left; the contract *)
(* is cancelled, with one purchase request still to come.                  *)
Part(status, prs, used) ==
  /\ contract = [c \in Contracts |-> status]
  /\ pr = prs
  /\ orders = [number : used, pr : {None}, by : {"hand"}]

Approving == Part("absent", [p \in PRs |-> "cancelled"], Numbers)
Accepting == Part("active", [p \in PRs |-> "absent"], {n2, n3})
Converting == Part("cancelled", (p1 :> "absent" @@ p2 :> "cancelled"), {})

PartsInit ==
  /\ Approving \/ Accepting \/ Converting
  /\ stage = [c \in Contracts |-> 0]
  /\ envelope = [c \in Contracts |-> None]
  /\ source = [p \in PRs |-> None]
  /\ named = [p \in PRs |-> None]
  /\ accepted = [c \in Contracts |-> 0]
  /\ req = [r \in Requests |-> Idle]
  /\ together = FALSE

PartsSpec == PartsInit /\ [][Next]_vars
=============================================================================
