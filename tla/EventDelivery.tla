---------------------------- MODULE EventDelivery ----------------------------
(***************************************************************************)
(* What the daemon promises about its Event signal: an event is raised     *)
(* once, and then goes out on the bus once or is lost with the connection; *)
(* it never goes out twice and is never left behind.                       *)
(***************************************************************************)
CONSTANT Event

VARIABLES
  raised,     \* events on their way
  delivered,  \* events signalled on the bus
  lost        \* events that will never be

deliveryVars == <<raised, delivered, lost>>

DeliveryInit == raised = {} /\ delivered = {} /\ lost = {}

Raise(e) ==
  /\ e \notin raised \union delivered \union lost
  /\ raised' = raised \union {e}
  /\ UNCHANGED <<delivered, lost>>

Deliver(e) ==
  /\ e \in raised
  /\ raised' = raised \ {e}
  /\ delivered' = delivered \union {e}
  /\ UNCHANGED lost

Lose(events) ==
  /\ events # {} /\ events \subseteq raised
  /\ raised' = raised \ events
  /\ lost' = lost \union events
  /\ UNCHANGED delivered

DeliveryNext ==
  \/ \E e \in Event : Raise(e)
  \/ \E e \in raised : Deliver(e)
  \/ \E events \in SUBSET raised : Lose(events)

(* Every raised event gets out or is lost.                                 *)
Settle(e) == Deliver(e) \/ \E events \in SUBSET raised : e \in events /\ Lose(events)

DeliverySpec ==
  /\ DeliveryInit /\ [][DeliveryNext]_deliveryVars
  /\ \A e \in Event : WF_deliveryVars(Settle(e))
=============================================================================
