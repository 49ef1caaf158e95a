----------------------------- MODULE MCDelivery -----------------------------
(***************************************************************************)
(* What the event pipeline owes in the end, in two instances that share    *)
(* the state.  In the "tight" one, whose constants the configuration       *)
(* gives, the queue overflows; in the "roomy" one it holds whatever comes, *)
(* and the log has a line without an event in the middle.  A behaviour is  *)
(* one of the instance that part names; as only one moves, fairness of the *)
(* disjunction of an action of each is the fairness of each.               *)
(***************************************************************************)
EXTENDS MCEventPipeline

VARIABLE part

Roomy == INSTANCE EventPipeline WITH
             MaxEvents <- 4, MaxLines <- 3, IdOf <- Gap, HookIds <- {a}

DeliveryInit == part \in {"tight", "roomy"} /\ Init

DeliveryNext ==
    \/ part = "tight" /\ Next /\ UNCHANGED part
    \/ part = "roomy" /\ Roomy!Next /\ UNCHANGED part

deliveryVars == <<part, vars>>

\* The action A of the tight instance, or its counterpart B of the roomy one.
Either(A, B) == UNCHANGED part /\ IF part = "tight" THEN A ELSE B

DeliverySpec ==
    /\ DeliveryInit /\ [][DeliveryNext]_deliveryVars
    /\ WF_deliveryVars(Either(Monitor, Roomy!Monitor))
    /\ WF_deliveryVars(Either(Tailer, Roomy!Tailer))
    /\ WF_deliveryVars(Either(Settle, Roomy!Settle))
    /\ WF_deliveryVars(Either(\E ids \in SUBSET Range(queue) : PeekBatch(ids),
                              \E ids \in SUBSET Range(queue) : Roomy!PeekBatch(ids)))
    /\ SF_deliveryVars(Either(PeekBatch({}), Roomy!PeekBatch({})))
    /\ SF_deliveryVars(Either(PushBatch(due \ Invalid, TRUE), Roomy!PushBatch(due \ Invalid, TRUE)))

\* While the queue has room, every line OpenCanary writes is settled in the
\* end, crashes and failed requests included (RunLogRoad, RunSenderLoop).
RoomyLinesSettled == part = "roomy" => Roomy!EveryLineSettled
=============================================================================
