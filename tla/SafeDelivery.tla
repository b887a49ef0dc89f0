--------------------------- MODULE SafeDelivery ---------------------------
(***************************************************************************)
(* What receivers, streams and workers promise of an event together,       *)
(* however many of them there are and whichever calls fail: it is handled  *)
(* only after it was stored, and removed from the store only after it was  *)
(* handled, unless the store ran over.  The sender of a durable event is   *)
(* told only after it was stored.  A receiver that lives lets go of an     *)
(* event whose sender was told only when it is stored, or was dropped for  *)
(* a reason that the code names.                                           *)
(***************************************************************************)

CONSTANTS Events,
          Durable,      \* those stored before their sender is told
          Repeatable    \* those sent again although their sender was told

VARIABLES sent,         \* events that were sent
          told,         \* events whose sender was told not to send them again
          held,         \* events a receiver has in its memory
          stored,       \* events in a store that survives every process
          handled,      \* events handled once or more
          overrun,      \* events removed because the store ran over
          dropped,      \* events dropped on purpose, or with an error
          broken        \* whether a receiver died

deliveryVars == <<sent, told, held, stored, handled, overrun, dropped, broken>>

DeliveryInit ==
  /\ sent = {} /\ told = {} /\ held = {} /\ stored = {} /\ handled = {}
  /\ overrun = {} /\ dropped = {} /\ broken = FALSE

Safe(e) == e \in stored \cup handled \cup overrun

\* A receiver that has done something for e keeps it in memory or does not.
MayLetGo(e) ==
  /\ held' \in {held, held \ {e}}
  /\ e \in told' /\ e \notin held' => Safe(e)' \/ e \in dropped' \/ broken

Send(e) ==
  /\ e \notin told \/ e \in Repeatable
  /\ sent' = sent \cup {e}
  /\ held' = held \cup {e}
  /\ UNCHANGED <<told, stored, handled, overrun, dropped, broken>>

\* Storing one event may remove others, and the sender may not learn of it.
Store(e) ==
  /\ e \in held
  /\ \E gone \in SUBSET (stored \ {e}) :
       /\ stored' = (stored \cup {e}) \ gone
       /\ gone \subseteq overrun'
  /\ overrun \subseteq overrun' /\ overrun' \subseteq overrun \cup stored
  /\ dropped' \in {dropped, dropped \cup {e}}
  /\ MayLetGo(e)
  /\ UNCHANGED <<sent, told, handled, broken>>

Tell(e) ==
  /\ e \in held
  /\ e \in Durable => Safe(e)
  /\ told' = told \cup {e}
  /\ MayLetGo(e)
  /\ UNCHANGED <<sent, stored, handled, overrun, dropped, broken>>

GiveUp(e) ==
  /\ e \in held
  /\ dropped' \in {dropped, dropped \cup {e}}
  /\ MayLetGo(e)
  /\ UNCHANGED <<sent, told, stored, handled, overrun, broken>>

Handle(e) ==
  /\ Safe(e)
  /\ handled' = handled \cup {e}
  /\ UNCHANGED <<sent, told, held, stored, overrun, dropped, broken>>

Acknowledge(e) ==
  /\ e \in handled
  /\ stored' = stored \ {e}
  /\ UNCHANGED <<sent, told, held, handled, overrun, dropped, broken>>

Die ==
  /\ held' \subseteq held
  /\ broken' = TRUE
  /\ UNCHANGED <<sent, told, stored, handled, overrun, dropped>>

DeliveryNext ==
  \/ \E e \in Events :
       Send(e) \/ Store(e) \/ Tell(e) \/ GiveUp(e) \/ Handle(e) \/ Acknowledge(e)
  \/ Die

DeliverySpec == DeliveryInit /\ [][DeliveryNext]_deliveryVars

=============================================================================
