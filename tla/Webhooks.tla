------------------------------ MODULE Webhooks ------------------------------
(***************************************************************************)
(* Outbound webhooks (webhooks.service.ts).  An approval calls dispatch    *)
(* and does not wait for it: the endpoints that listen to the event are    *)
(* read once, and then one after the other gets a delivery row and a POST  *)
(* that is given five seconds.  A dispatch lives in the memory of the      *)
(* server, and nothing resumes it after a restart.                         *)
(*                                                                         *)
(* A definition Name_Slip is Name with a plausible slip, which a property  *)
(* below must catch; nothing refers to it.                                 *)
(*                                                                         *)
(* Left out: signatures and payloads, and which events an endpoint listens *)
(* to: "enabled" stands for an endpoint that listens to the one event the  *)
(* code dispatches.                                                        *)
(***************************************************************************)
EXTENDS Naturals

CONSTANTS
  Endpoints,   \* endpoint ids
  Dispatches,  \* the dispatches, one for each event
  Nobody       \* no endpoint

ASSUME EndpointsAssumption == Nobody \notin Endpoints

VARIABLES
  endpoint,    \* the WebhookEndpoint rows
  delivery,    \* the WebhookDelivery rows of a dispatch, by endpoint
  received,    \* how often the receiver behind an endpoint acted on an event
  dispatch,    \* what dispatch does next: its local state
  matched,     \* history: the endpoints a dispatch read
  restarted    \* history: the dispatches that a restart ended

webhookVars == <<endpoint, delivery, received, dispatch, matched, restarted>>

NoDispatch == [step |-> "idle", todo |-> {}, at |-> Nobody, ok |-> FALSE]

WebhooksInit ==
  /\ endpoint = [e \in Endpoints |-> "absent"]
  /\ delivery = [d \in Dispatches |-> [e \in Endpoints |-> "none"]]
  /\ received = [d \in Dispatches |-> [e \in Endpoints |-> 0]]
  /\ dispatch = [d \in Dispatches |-> NoDispatch]
  /\ matched = [d \in Dispatches |-> {}]
  /\ restarted = {}

-----------------------------------------------------------------------------
(* Administration of endpoints *)

CreateEndpoint(e) ==
  /\ endpoint[e] = "absent"
  /\ endpoint' = [endpoint EXCEPT ![e] = "enabled"]
  /\ UNCHANGED <<delivery, received, dispatch, matched, restarted>>

UpdateEndpoint(e) ==
  /\ endpoint[e] \in {"enabled", "disabled"}
  /\ \E s \in {"enabled", "disabled"} : endpoint' = [endpoint EXCEPT ![e] = s]
  /\ UNCHANGED <<delivery, received, dispatch, matched, restarted>>

(* Its deliveries are deleted with it.                                     *)
DeleteEndpoint(e) ==
  /\ endpoint[e] \in {"enabled", "disabled"}
  /\ endpoint' = [endpoint EXCEPT ![e] = "deleted"]
  /\ delivery' = [d \in Dispatches |-> [delivery[d] EXCEPT ![e] =
                    IF @ = "none" THEN "none" ELSE "deleted"]]
  /\ UNCHANGED <<received, dispatch, matched, restarted>>

-----------------------------------------------------------------------------
(* dispatch *)

Running(d) == dispatch[d].step \notin {"idle", "done"}

(* Goes on with the next endpoint, or is done.                             *)
Continue(d, rest) ==
  dispatch' = [dispatch EXCEPT ![d] =
    [NoDispatch EXCEPT !.step = IF rest = {} THEN "done" ELSE "create",
                 !.todo = rest]]

(* An exception ends the dispatch, whatever is left to do.                 *)
Throw(d) == Continue(d, {})

StartDispatch(d) ==
  /\ dispatch[d] = NoDispatch
  /\ dispatch' = [dispatch EXCEPT ![d].step = "match"]
  /\ UNCHANGED <<endpoint, delivery, received, matched, restarted>>

MatchEndpoints(d) ==
  LET found == {e \in Endpoints : endpoint[e] = "enabled"}
  IN  /\ dispatch[d].step = "match"
      /\ matched' = [matched EXCEPT ![d] = found]
      /\ Continue(d, found)
      /\ UNCHANGED <<endpoint, delivery, received, restarted>>

CreateDelivery_AllFirst(d) ==
  LET here == {e \in dispatch[d].todo : endpoint[e] # "deleted"}
  IN  /\ dispatch[d].step = "create"
      /\ \E e \in dispatch[d].todo :
           /\ delivery' = [delivery EXCEPT ![d] =
                [x \in Endpoints |-> IF x \in here /\ @[x] = "none"
                                     THEN "pending" ELSE @[x]]]
           /\ dispatch' = [dispatch EXCEPT ![d].step = "send", ![d].at = e]
      /\ UNCHANGED <<endpoint, received, matched, restarted>>

(* The rows were read in no particular order.  A delivery of an endpoint   *)
(* that was deleted since cannot be created.                               *)
CreateDelivery(d) ==
  /\ dispatch[d].step = "create"
  /\ \E e \in dispatch[d].todo :
       IF endpoint[e] = "deleted"
       THEN Throw(d) /\ UNCHANGED delivery
       ELSE /\ delivery' = [delivery EXCEPT ![d][e] = "pending"]
            /\ dispatch' = [dispatch EXCEPT ![d].step = "send", ![d].at = e]
  /\ UNCHANGED <<endpoint, received, matched, restarted>>

(* The receiver acts or not; what comes back within five seconds is its    *)
(* consent, its refusal or nothing.                                        *)
Send(d) ==
  /\ dispatch[d].step = "send"
  /\ \E acts, ok \in BOOLEAN :
       /\ ok => acts
       /\ received' = [received EXCEPT ![d][dispatch[d].at] =
                         IF acts THEN @ + 1 ELSE @]
       /\ dispatch' = [dispatch EXCEPT ![d].step = "record", ![d].ok = ok]
  /\ UNCHANGED <<endpoint, delivery, matched, restarted>>

Record_OnlyAnswers(d) ==
  LET e == dispatch[d].at
  IN  /\ dispatch[d].step = "record"
      /\ IF dispatch[d].ok
         THEN delivery' = [delivery EXCEPT ![d][e] = "succeeded"]
         ELSE UNCHANGED delivery
      /\ Continue(d, dispatch[d].todo \ {e})
      /\ UNCHANGED <<endpoint, received, matched, restarted>>

(* A row that was deleted cannot be updated, in the handler of the         *)
(* exception neither.                                                      *)
Record(d) ==
  LET e == dispatch[d].at
  IN  /\ dispatch[d].step = "record"
      /\ IF delivery[d][e] = "deleted"
         THEN Throw(d) /\ UNCHANGED delivery
         ELSE /\ delivery' = [delivery EXCEPT ![d][e] =
                   IF dispatch[d].ok THEN "succeeded" ELSE "failed"]
              /\ Continue(d, dispatch[d].todo \ {e})
      /\ UNCHANGED <<endpoint, received, matched, restarted>>

(* The server restarts.                                                    *)
RestartServer ==
  /\ \E d \in Dispatches : Running(d)
  /\ restarted' = restarted \union {d \in Dispatches : Running(d)}
  /\ dispatch' = [d \in Dispatches |->
       IF Running(d) THEN [NoDispatch EXCEPT !.step = "done"] ELSE dispatch[d]]
  /\ UNCHANGED <<endpoint, delivery, received, matched>>

-----------------------------------------------------------------------------
DispatchStep(d) ==
  MatchEndpoints(d) \/ CreateDelivery(d) \/ Send(d) \/ Record(d)

WebhooksNext ==
  \/ \E e \in Endpoints :
       CreateEndpoint(e) \/ UpdateEndpoint(e) \/ DeleteEndpoint(e)
  \/ \E d \in Dispatches : StartDispatch(d) \/ DispatchStep(d)
  \/ RestartServer

(* A server that runs goes on with what it has begun: each call returns or *)
(* is aborted.  Nobody has to approve, or to restart the server.           *)
WebhooksFairness == \A d \in Dispatches : WF_webhookVars(DispatchStep(d))

WebhooksSpec ==
  WebhooksInit /\ [][WebhooksNext]_webhookVars /\ WebhooksFairness

-----------------------------------------------------------------------------
(* Properties *)

Phases == {"idle", "match", "create", "send", "record", "done"}
DeliveryRows == {"none", "pending", "succeeded", "failed", "deleted"}

(* The types of the variables.                                             *)
WebhooksTypeOK ==
  /\ endpoint \in [Endpoints -> {"absent", "enabled", "disabled", "deleted"}]
  /\ delivery \in [Dispatches -> [Endpoints -> DeliveryRows]]
  /\ received \in [Dispatches -> [Endpoints -> Nat]]
  /\ dispatch \in [Dispatches -> [step : Phases, todo : SUBSET Endpoints,
                                  at : Endpoints \union {Nobody}, ok : BOOLEAN]]
  /\ matched \in [Dispatches -> SUBSET Endpoints]
  /\ restarted \subseteq Dispatches

(* A receiver acts on an event at most once, and never without a row that  *)
(* tells; a row that says it succeeded does not lie.  One that says it     *)
(* failed may: the receiver acted and its answer came late or never.  A    *)
(* row says pending only while its POST is under way, or when a restart    *)
(* cut its dispatch off: one row for each dispatch that was cut off.       *)
DeliveriesAreTruthful ==
  \A d \in Dispatches :
    LET pending == {e \in Endpoints : delivery[d][e] = "pending"}
    IN  /\ IF d \in restarted
           THEN \A e, f \in pending : e = f
           ELSE pending \subseteq {dispatch[d].at}
        /\ \A e \in Endpoints :
             /\ received[d][e] <= 1
             /\ received[d][e] = 1 => delivery[d][e] # "none"
             /\ delivery[d][e] = "succeeded" => received[d][e] = 1

(* A dispatch that is done has settled with every endpoint it found, or a  *)
(* restart cut it off, or one of them was deleted meanwhile: that takes    *)
(* their deliveries from those that would have come after it.              *)
NoneSkipped ==
  \A d \in Dispatches :
    dispatch[d].step = "done" =>
      \/ d \in restarted
      \/ \E e \in matched[d] : endpoint[e] = "deleted"
      \/ \A e \in matched[d] : delivery[d][e] \in {"succeeded", "failed"}

(* What the deliveries say is true, and they say all.                      *)
DispatchesAreTruthful == DeliveriesAreTruthful /\ NoneSkipped

(* Unless the server restarts, every dispatch that was begun comes to its  *)
(* end and no delivery stays pending, whatever the receivers do.           *)
DispatchesEnd ==
  [](restarted = {}) =>
    \A d \in Dispatches :
      /\ Running(d) ~> dispatch[d].step = "done"
      /\ \A e \in Endpoints :
           delivery[d][e] = "pending" ~> delivery[d][e] # "pending"
=============================================================================
