-------------------------- MODULE MCEventDelivery --------------------------
(* EventDelivery on small instances. *)
EXTENDS EventDelivery

\* MaxSends: every event twice, or twice unless it is a mention.
SentTwice == [e \in Events |-> 2]
MentionsOnce == [e \in Events |-> IF e \in Mentions THEN 1 ELSE 2]

=============================================================================
