--------------------------- MODULE EventDelivery ---------------------------
(***************************************************************************)
(* How an event gets from its sender to a handler: Slack, SQS and ArgoCD   *)
(* on one side, the receiver (cmd/receiver) with its ECR poller            *)
(* (internal/ecrpoller), ArgoCD webhook (internal/argocd) and retry        *)
(* buffers (internal/buffer), the Redis streams with their consumer group, *)
(* and the workers' event loops (internal/queue).                          *)
(*                                                                         *)
(* A sender sends an event again until it is settled: acknowledged to      *)
(* Slack, deleted from SQS, answered 2xx to ArgoCD.  Every XADD makes a    *)
(* message of its own, so an event may be in a stream several times.       *)
(* What a handler does is one step here; DeployLifecycle models it.        *)
(*                                                                         *)
(* Events that end before they reach a stream (a channel that is not       *)
(* allowed, a modal with errors, no matching app) and malformed payloads   *)
(* are left out, and so are a flush of Redis and the expiry of a dedupe    *)
(* marker (24 hours).                                                      *)
(***************************************************************************)
EXTENDS Naturals, Sequences, FiniteSets

CONSTANTS
  Interactions,   \* slash commands, buttons, modals
  Mentions,       \* Events API app_mention
  Pushes,         \* ECR push events, one per matching app
  Notifications,  \* ArgoCD notifications: (app, sha, trigger)
  NoEvent,        \* "none of them"
  Receivers,      \* receiver processes
  Workers,        \* worker processes
  BufferSize,     \* capacity of each retry buffer
  BatchSize,      \* messages read at once: batchSize
  ECRConcurrency, \* ECR messages a worker handles at once
  StreamMaxLen,   \* MAXLEN of a stream
  ArgoCDEnabled,  \* whether the workers read the ArgoCD stream
  MaxSends,       \* bound: times each event is sent
  MaxFailures,    \* bound: calls that fail, over a behaviour
  MaxCrashes,     \* bound: receivers and workers that die
  MaxLapsed       \* bound: messages that become idle

Events  == Interactions \cup Mentions \cup Pushes \cup Notifications
Streams == {"user", "ecr", "argocd"}

ASSUME DeliveryAssumption ==
  /\ Pushes \cap (Interactions \cup Mentions \cup Notifications) = {}
  /\ Notifications \cap (Interactions \cup Mentions) = {}
  /\ Interactions \cap Mentions = {}
  /\ NoEvent \notin Events
  /\ BufferSize \in Nat \ {0}
  /\ BatchSize \in Nat \ {0}
  /\ ECRConcurrency \in Nat \ {0}
  /\ StreamMaxLen \in Nat \ {0}
  /\ ArgoCDEnabled \in BOOLEAN /\ (Notifications # {} => ArgoCDEnabled)
  /\ MaxSends \in [Events -> Nat]
  /\ MaxFailures \in Nat
  /\ MaxCrashes \in Nat
  /\ MaxLapsed \in Nat

StreamOf(e) ==
  CASE e \in Pushes        -> "ecr"
    [] e \in Notifications -> "argocd"
    [] OTHER               -> "user"

\* A stream entry; ids grow within a stream.
Messages == [event : Events, id : Nat]

VARIABLES
  sends,      \* senders: how often each event was sent
  settled,    \* senders: events they will not send again
  taking,     \* receiver: the event each intake is working on
  stage,      \* receiver: the call it makes next for it
  buffer,     \* receiver: each retry buffer's channel
  draining,   \* receiver: the event each buffer is retrying
  seen,       \* Redis: notifications with a dedupe marker
  added,      \* Redis: entries ever added to each stream
  unread,     \* Redis: messages no worker has been given
  pending,    \* Redis: messages given to a worker and not acknowledged
  idle,       \* Redis: pending messages not given out for claimMinIdle
  mode, turn, \* worker: reading or reclaiming, and from which stream next
  batch,      \* worker: messages of its last read it has not come to
  headDone,   \* worker: whether the first of them has been handled
  slots,      \* worker: ECR messages its goroutines are at
  slotDone,   \* worker: those of them that have been handled
  handled,    \* auxiliary: how often each event was handled
  skipped,    \* auxiliary: pushes dropped because the app was locked
  forgone,    \* auxiliary: dropped by a full buffer or a failed first check
  trimmed,    \* auxiliary: unacknowledged when MAXLEN removed them
  lapsed,     \* auxiliary: messages that were idle once
  failures,   \* auxiliary: calls that failed
  lostIntakes, lostWorkers  \* auxiliary: receivers, workers that died

senders   == <<sends, settled>>
receivers == <<taking, stage, buffer, draining>>
streams   == <<seen, added, unread, pending, idle, trimmed, lapsed>>
workers   == <<mode, turn, batch, headDone, slots, slotDone, handled>>
dropped   == <<skipped, forgone>>
crashes   == <<lostIntakes, lostWorkers>>
vars == <<sends, settled, taking, stage, buffer, draining, seen, added,
          unread, pending, idle, mode, turn, batch, headDone, slots, slotDone,
          handled, skipped, forgone, trimmed, lapsed, failures, lostIntakes,
          lostWorkers>>

TypeOK ==
  /\ sends \in [Events -> Nat]
  /\ settled \subseteq Events
  /\ taking \in [Receivers -> [Streams -> Events \cup {NoEvent}]]
  /\ stage \in [Receivers -> [Streams -> {"none", "check", "enqueue", "settle"}]]
  /\ buffer \in [Receivers -> [Streams -> Seq(Events)]]
  /\ draining \in [Receivers -> [Streams -> Events \cup {NoEvent}]]
  /\ seen \subseteq Notifications
  /\ added \in [Streams -> Nat]
  /\ unread \subseteq Messages
  /\ pending \subseteq Messages
  /\ idle \subseteq pending
  /\ mode \in [Workers -> {"read", "claim"}]
  /\ turn \in [Workers -> Streams \cup {"top"}]
  /\ batch \in [Workers -> SUBSET Messages]
  /\ headDone \in [Workers -> BOOLEAN]
  /\ slots \in [Workers -> SUBSET Messages]
  /\ slotDone \in [Workers -> SUBSET Messages]
  /\ handled \in [Events -> Nat]
  /\ skipped \subseteq Pushes
  /\ forgone \subseteq Events
  /\ trimmed \subseteq Events
  /\ lapsed \subseteq Messages
  /\ failures \in Nat
  /\ lostIntakes \in Nat
  /\ lostWorkers \in Nat

Init ==
  /\ sends = [e \in Events |-> 0]
  /\ settled = {}
  /\ taking = [r \in Receivers |-> [s \in Streams |-> NoEvent]]
  /\ stage = [r \in Receivers |-> [s \in Streams |-> "none"]]
  /\ buffer = [r \in Receivers |-> [s \in Streams |-> <<>>]]
  /\ draining = [r \in Receivers |-> [s \in Streams |-> NoEvent]]
  /\ seen = {}
  /\ added = [s \in Streams |-> 0]
  /\ unread = {}
  /\ pending = {}
  /\ idle = {}
  /\ mode = [w \in Workers |-> "read"]
  /\ turn = [w \in Workers |-> "top"]
  /\ batch = [w \in Workers |-> {}]
  /\ headDone = [w \in Workers |-> FALSE]
  /\ slots = [w \in Workers |-> {}]
  /\ slotDone = [w \in Workers |-> {}]
  /\ handled = [e \in Events |-> 0]
  /\ skipped = {}
  /\ forgone = {}
  /\ trimmed = {}
  /\ lapsed = {}
  /\ failures = 0
  /\ lostIntakes = 0
  /\ lostWorkers = 0

CallFails == failures < MaxFailures /\ failures' = failures + 1
CallWorks == UNCHANGED failures

-----------------------------------------------------------------------------
(* Redis streams, as internal/queue relies on them.                        *)

In(M, s) == {m \in M : StreamOf(m.event) = s}

\* The n oldest of the messages M of one stream.
Oldest(M, n) == {m \in M : Cardinality({k \in M : k.id < m.id}) < n}

\* XADD MAXLEN ~ n: what exceeds the limit may be removed at once or later,
\* whether or not a worker was given it.
XAdd(e) ==
  LET s == StreamOf(e)
      n == added[s] + 1
  IN \E k \in 0 .. n :
       LET gone == {m \in In(unread \cup pending, s) : m.id <= k} IN
       /\ k + StreamMaxLen <= n \/ k = 0
       /\ added' = [added EXCEPT ![s] = n]
       /\ unread' = (unread \cup {[event |-> e, id |-> n]}) \ gone
       /\ pending' = pending \ gone
       /\ idle' = idle \ gone
       /\ trimmed' = trimmed \cup {m.event : m \in gone}
       /\ UNCHANGED <<seen, lapsed>>

\* EnqueueTo returned nil, and an error: nothing written, or the reply lost.
Enqueued(e) == XAdd(e) /\ CallWorks
EnqueueFails(e) == (XAdd(e) \/ UNCHANGED streams) /\ CallFails

\* XACK, whoever was given the message last.
XAck(m) ==
  /\ pending' = pending \ {m}
  /\ idle' = idle \ {m}
  /\ UNCHANGED <<seen, added, unread, trimmed, lapsed>>

-----------------------------------------------------------------------------
(* The receiver.  Each of its intakes (the Slack loop, the SQS poller, the *)
(* ArgoCD webhook) takes one event at a time to one stream.  Redis, Slack, *)
(* SQS and ArgoCD are called one call after the other, in the order the    *)
(* kind of event has.                                                      *)

\* A mention is acknowledged first, an interaction written first; a push is
\* checked for the app's lock, a notification for its dedupe marker.
FirstStage(e) ==
  CASE e \in Interactions -> "enqueue"
    [] e \in Mentions     -> "settle"
    [] OTHER              -> "check"

\* The sender sends what it does not know to be settled; a restarted ArgoCD
\* controller also sends what was.
Send(r, e) ==
  LET s == StreamOf(e) IN
  /\ e \notin settled \/ e \in Notifications
  /\ sends[e] < MaxSends[e]
  /\ stage[r][s] = "none"
  /\ sends' = [sends EXCEPT ![e] = @ + 1]
  /\ taking' = [taking EXCEPT ![r][s] = e]
  /\ stage' = [stage EXCEPT ![r][s] = FirstStage(e)]
  /\ UNCHANGED <<settled, buffer, draining, streams, workers, dropped,
                 failures, crashes>>

At(r, s, g) == stage[r][s] = g

GoOn(r, s, g) ==
  /\ stage' = [stage EXCEPT ![r][s] = g]
  /\ taking' = [taking EXCEPT ![r][s] = IF g = "none" THEN NoEvent ELSE @]

\* IsLocked: locked, an error, free.  Both of the first end the push, and
\* its SQS message is deleted.
CheckLock(r) ==
  LET e == taking[r]["ecr"] IN
  /\ At(r, "ecr", "check")
  /\ \/ skipped' = skipped \cup {e} /\ UNCHANGED forgone /\ CallWorks
        /\ GoOn(r, "ecr", "settle")
     \/ forgone' = forgone \cup {e} /\ UNCHANGED skipped /\ CallFails
        /\ GoOn(r, "ecr", "settle")
     \/ UNCHANGED dropped /\ CallWorks /\ GoOn(r, "ecr", "enqueue")
  /\ UNCHANGED <<senders, buffer, draining, streams, workers, crashes>>

\* Mutant: a repeated notification is not recognised.
AcceptAll(r) ==
  LET e == taking[r]["argocd"] IN
  /\ At(r, "argocd", "check")
  /\ seen' = seen \cup {e}
  /\ CallWorks
  /\ GoOn(r, "argocd", "enqueue")
  /\ UNCHANGED <<senders, buffer, draining, added, unread, pending, idle,
                 trimmed, lapsed, workers, dropped, crashes>>

\* SET NX of the dedupe marker: a duplicate is answered 200 at once, an error
\* 500, even where the marker was set and only the reply was lost: then every
\* repetition is a duplicate of a notification nobody enqueued.
Accept(r) ==
  LET e == taking[r]["argocd"] IN
  /\ At(r, "argocd", "check")
  /\ \/ e \in seen /\ UNCHANGED seen /\ CallWorks /\ GoOn(r, "argocd", "settle")
     \/ e \notin seen /\ seen' = seen \cup {e} /\ CallWorks
        /\ GoOn(r, "argocd", "enqueue")
     \/ UNCHANGED seen /\ CallFails /\ GoOn(r, "argocd", "none")
     \/ seen' = seen \cup {e} /\ CallFails /\ GoOn(r, "argocd", "none")
  /\ forgone' = IF e \in seen' \ seen /\ stage'[r]["argocd"] = "none"
                THEN forgone \cup {e} ELSE forgone
  /\ UNCHANGED <<senders, buffer, draining, added, unread, pending, idle,
                 trimmed, lapsed, workers, skipped, crashes>>

\* Where an event is once it is in its stream, and once it could not be put
\* there: only a user event that was buffered stays unsettled.
AfterEnqueue(e) == IF e \in Mentions THEN "none" ELSE "settle"

\* Mutant: Slack is acknowledged from the buffer.
AfterBufferSettles(e) == IF e \in Mentions THEN "none" ELSE "settle"

AfterBuffer(e) == IF e \in Interactions \cup Mentions THEN "none" ELSE "settle"

Enqueue(r, s) ==
  LET e == taking[r][s] IN
  /\ At(r, s, "enqueue")
  /\ Enqueued(e)
  /\ GoOn(r, s, AfterEnqueue(e))
  /\ UNCHANGED <<senders, buffer, draining, workers, dropped, crashes>>

\* Mutant: an event that could not be written is not buffered.
EnqueueElseForget(r, s) ==
  LET e == taking[r][s] IN
  /\ At(r, s, "enqueue")
  /\ EnqueueFails(e)
  /\ GoOn(r, s, AfterBuffer(e))
  /\ UNCHANGED <<senders, buffer, draining, workers, dropped, crashes>>

\* The buffer's Add: a full buffer drops the event, which nobody looks at.
EnqueueElseBuffer(r, s) ==
  LET e == taking[r][s] IN
  /\ At(r, s, "enqueue")
  /\ EnqueueFails(e)
  /\ IF Len(buffer[r][s]) < BufferSize
     THEN buffer' = [buffer EXCEPT ![r][s] = Append(@, e)] /\ UNCHANGED forgone
     ELSE forgone' = forgone \cup {e} /\ UNCHANGED buffer
  /\ GoOn(r, s, AfterBuffer(e))
  /\ UNCHANGED <<senders, draining, workers, skipped, crashes>>

\* The acknowledgement, the deletion, the 200: when it fails, or gets lost,
\* the sender sends the event again.  A mention is enqueued only now.
Settle(r, s) ==
  LET e == taking[r][s] IN
  /\ At(r, s, "settle")
  /\ \/ settled' = settled \cup {e} /\ CallWorks
     \/ UNCHANGED settled /\ CallFails
  /\ GoOn(r, s, IF e \in Mentions THEN "enqueue" ELSE "none")
  /\ UNCHANGED <<sends, buffer, draining, streams, workers, dropped, crashes>>

DrainTake(r, s) ==
  /\ draining[r][s] = NoEvent
  /\ buffer[r][s] # <<>>
  /\ draining' = [draining EXCEPT ![r][s] = Head(buffer[r][s])]
  /\ buffer' = [buffer EXCEPT ![r][s] = Tail(@)]
  /\ UNCHANGED <<senders, taking, stage, streams, workers, dropped, failures,
                 crashes>>

\* Mutant: Redis answers a ping again, which is taken for the write.
DrainPing(r, s) ==
  LET e == draining[r][s] IN
  /\ e # NoEvent
  /\ CallWorks
  /\ draining' = [draining EXCEPT ![r][s] = NoEvent]
  /\ UNCHANGED <<senders, taking, stage, buffer, streams, workers, dropped,
                 crashes>>

\* drainOne retries for as long as it takes.
DrainOne(r, s) ==
  LET e == draining[r][s] IN
  /\ e # NoEvent
  /\ \/ Enqueued(e) /\ draining' = [draining EXCEPT ![r][s] = NoEvent]
     \/ EnqueueFails(e) /\ UNCHANGED draining
  /\ UNCHANGED <<senders, taking, stage, buffer, workers, dropped, crashes>>

\* What the receiver holds in memory is gone: what it was working on, its
\* buffers and what they were retrying.
ReceiverDies(r) ==
  /\ lostIntakes + lostWorkers < MaxCrashes
  /\ lostIntakes' = lostIntakes + 1
  /\ taking' = [taking EXCEPT ![r] = [s \in Streams |-> NoEvent]]
  /\ stage' = [stage EXCEPT ![r] = [s \in Streams |-> "none"]]
  /\ buffer' = [buffer EXCEPT ![r] = [s \in Streams |-> <<>>]]
  /\ draining' = [draining EXCEPT ![r] = [s \in Streams |-> NoEvent]]
  /\ UNCHANGED <<senders, streams, workers, dropped, failures, lostWorkers>>

-----------------------------------------------------------------------------
(* The workers' loop: the ticker, then the user stream until it is empty,  *)
(* then one batch of each of the others.                                   *)

NextStream(s) ==
  CASE s = "user"                  -> "ecr"
    [] s = "ecr" /\ ArgoCDEnabled -> "argocd"
    [] OTHER                       -> "top"

\* reclaimStuck ends in the user read; the loop, at its top.
AfterClaim(w) ==
  IF NextStream(turn[w]) = "top"
  THEN mode' = [mode EXCEPT ![w] = "read"] /\ turn' = [turn EXCEPT ![w] = "user"]
  ELSE turn' = [turn EXCEPT ![w] = NextStream(@)] /\ UNCHANGED mode

\* Mutant: the user stream is not reclaimed.
StartReclaimBackground(w) ==
  /\ turn[w] = "top"
  /\ batch[w] = {}
  /\ mode' = [mode EXCEPT ![w] = "claim"]
  /\ turn' = [turn EXCEPT ![w] = "ecr"]
  /\ UNCHANGED <<senders, receivers, streams, batch, headDone, slots, slotDone,
                 handled, dropped, failures, crashes>>

\* The claim ticker has fired.
StartReclaim(w) ==
  /\ turn[w] = "top"
  /\ batch[w] = {}
  /\ mode' = [mode EXCEPT ![w] = "claim"]
  /\ turn' = [turn EXCEPT ![w] = "user"]
  /\ UNCHANGED <<senders, receivers, streams, batch, headDone, slots, slotDone,
                 handled, dropped, failures, crashes>>

\* XAUTOCLAIM of one stream: its idle messages become this worker's, and are
\* idle no more; with the reply lost, nobody has them in hand.
ReclaimStuck(w) ==
  LET got == Oldest(In(idle, turn[w]), BatchSize) IN
  /\ mode[w] = "claim"
  /\ batch[w] = {}
  /\ \/ batch' = [batch EXCEPT ![w] = got] /\ idle' = idle \ got /\ CallWorks
     \/ UNCHANGED batch /\ idle' \in {idle, idle \ got} /\ CallFails
  /\ AfterClaim(w)
  /\ UNCHANGED <<senders, receivers, seen, added, unread, pending, trimmed,
                 lapsed, headDone, slots, slotDone, handled, dropped, crashes>>

\* XREADGROUP of messages nobody was given, of the user stream when the ticker
\* has not fired.  A failed read is an empty one, though the group may have
\* given the messages out.
ReadStream(w) ==
  LET s == IF turn[w] = "top" THEN "user" ELSE turn[w]
      got == Oldest(In(unread, s), BatchSize)
      given == /\ unread' = unread \ got
               /\ pending' = pending \cup got
  IN
  /\ mode[w] = "read"
  /\ batch[w] = {}
  /\ \/ given /\ batch' = [batch EXCEPT ![w] = got] /\ CallWorks
     \/ given /\ UNCHANGED batch /\ CallFails
     \/ UNCHANGED <<unread, pending, batch>> /\ CallFails
  /\ turn' = [turn EXCEPT ![w] = IF s = "user" /\ batch'[w] # {} THEN "top"
                                 ELSE NextStream(s)]
  /\ UNCHANGED <<senders, receivers, seen, added, idle, trimmed, lapsed, mode,
                 headDone, slots, slotDone, handled, dropped, crashes>>

\* The batch of an ECR read, not of a reclaim, is handed to goroutines.
Concurrent(w, m) ==
  m.event \in Pushes /\ mode[w] = "read" /\ turn[w] = NextStream("ecr")

IsHead(w, m) == m \in batch[w] /\ \A k \in batch[w] : m.id <= k.id

Spawn(w, m) ==
  /\ Concurrent(w, m)
  /\ IsHead(w, m)
  /\ Cardinality(slots[w]) < ECRConcurrency
  /\ slots' = [slots EXCEPT ![w] = @ \cup {m}]
  /\ batch' = [batch EXCEPT ![w] = @ \ {m}]
  /\ UNCHANGED <<senders, receivers, streams, mode, turn, headDone, slotDone,
                 handled, dropped, failures, crashes>>

Handled(m) == handled' = [handled EXCEPT ![m.event] = @ + 1]

HandleHead(w, m) ==
  /\ ~Concurrent(w, m) /\ IsHead(w, m) /\ ~headDone[w]
  /\ headDone' = [headDone EXCEPT ![w] = TRUE]
  /\ Handled(m)
  /\ UNCHANGED <<senders, receivers, streams, mode, turn, batch, slots, slotDone,
                 dropped, failures, crashes>>

\* Mutant: a message is acknowledged before it is handled.
AckHeadFirst(w, m) ==
  /\ IsHead(w, m)
  /\ \/ XAck(m) /\ CallWorks
     \/ UNCHANGED streams /\ CallFails
  /\ batch' = [batch EXCEPT ![w] = @ \ {m}]
  /\ headDone' = [headDone EXCEPT ![w] = FALSE]
  /\ UNCHANGED <<senders, receivers, mode, turn, slots, slotDone, handled,
                 dropped, crashes>>

\* A failed XACK is logged: the message stays pending.
AckHead(w, m) ==
  /\ IsHead(w, m) /\ headDone[w]
  /\ \/ XAck(m) /\ CallWorks
     \/ UNCHANGED streams /\ CallFails
  /\ batch' = [batch EXCEPT ![w] = @ \ {m}]
  /\ headDone' = [headDone EXCEPT ![w] = FALSE]
  /\ UNCHANGED <<senders, receivers, mode, turn, slots, slotDone, handled,
                 dropped, crashes>>

HandleSlot(w, m) ==
  /\ m \in slots[w] \ slotDone[w]
  /\ slotDone' = [slotDone EXCEPT ![w] = @ \cup {m}]
  /\ Handled(m)
  /\ UNCHANGED <<senders, receivers, streams, mode, turn, batch, headDone, slots,
                 dropped, failures, crashes>>

AckSlot(w, m) ==
  /\ m \in slotDone[w]
  /\ \/ XAck(m) /\ CallWorks
     \/ UNCHANGED streams /\ CallFails
  /\ slots' = [slots EXCEPT ![w] = @ \ {m}]
  /\ slotDone' = [slotDone EXCEPT ![w] = @ \ {m}]
  /\ UNCHANGED <<senders, receivers, mode, turn, batch, headDone, handled,
                 dropped, crashes>>

WorkerDies(w) ==
  /\ lostIntakes + lostWorkers < MaxCrashes
  /\ lostWorkers' = lostWorkers + 1
  /\ mode' = [mode EXCEPT ![w] = "read"]
  /\ turn' = [turn EXCEPT ![w] = "top"]
  /\ batch' = [batch EXCEPT ![w] = {}]
  /\ headDone' = [headDone EXCEPT ![w] = FALSE]
  /\ slots' = [slots EXCEPT ![w] = {}]
  /\ slotDone' = [slotDone EXCEPT ![w] = {}]
  /\ UNCHANGED <<senders, receivers, streams, handled, dropped, failures,
                 lostIntakes>>

\* claimMinIdle passes, the message's worker being dead, slow, or at another
\* message of its batch.
BecomeIdle(m) ==
  /\ m \in pending \ idle
  /\ idle' = idle \cup {m}
  /\ lapsed' = lapsed \cup {m}
  /\ Cardinality(lapsed') <= MaxLapsed
  /\ UNCHANGED <<senders, receivers, seen, added, unread, pending, trimmed,
                 workers, dropped, failures, crashes>>

-----------------------------------------------------------------------------

IntakeStep(r, s) ==
  \/ s = "ecr" /\ CheckLock(r)
  \/ s = "argocd" /\ Accept(r)
  \/ Enqueue(r, s) \/ EnqueueElseBuffer(r, s) \/ Settle(r, s)

DrainStep(r, s) == DrainTake(r, s) \/ DrainOne(r, s)

LoopStep(w) ==
  \/ StartReclaim(w) \/ ReclaimStuck(w) \/ ReadStream(w)
  \/ \E m \in batch[w] : Spawn(w, m) \/ HandleHead(w, m) \/ AckHead(w, m)

SlotStep(w) == \E m \in slots[w] : HandleSlot(w, m) \/ AckSlot(w, m)

Next ==
  \/ \E r \in Receivers, e \in Events : Send(r, e)
  \/ \E r \in Receivers, s \in Streams : IntakeStep(r, s) \/ DrainStep(r, s)
  \/ \E r \in Receivers : ReceiverDies(r)
  \/ \E w \in Workers : LoopStep(w) \/ SlotStep(w) \/ WorkerDies(w)
  \/ \E m \in pending : BecomeIdle(m)

Spec == Init /\ [][Next]_vars

\* Goroutines are scheduled and calls return; every worker's claim ticker
\* fires again and again; a message nobody acknowledges becomes idle.
\* Nothing is assumed of the senders.  A process that died is replaced at once:
\* the model gives its successor its name.
Fairness ==
  /\ \A r \in Receivers, s \in {StreamOf(e) : e \in Events} :
       WF_vars(IntakeStep(r, s)) /\ WF_vars(DrainStep(r, s))
  /\ \A w \in Workers :
       WF_vars(LoopStep(w)) /\ WF_vars(SlotStep(w)) /\ SF_vars(StartReclaim(w))
  /\ \A e \in Events :
       WF_vars(\E m \in pending : m.event = e /\ BecomeIdle(m))

FairSpec == Spec /\ Fairness

-----------------------------------------------------------------------------
(* Properties.                                                             *)

\* The streams still hold a message of e that nobody has acknowledged.
Kept(e) == \E m \in unread \cup pending : m.event = e

Buffered(e) ==
  \E r \in Receivers, s \in Streams :
    \/ draining[r][s] = e
    \/ \E i \in 1 .. Len(buffer[r][s]) : buffer[r][s][i] = e

\* An intake works on it and has not come to the end of it.
Taken(e) == \E r \in Receivers, s \in Streams : taking[r][s] = e

\* A slash command or a click that Slack was told is received has been
\* handled or is in the stream, whatever calls fail, whichever receivers and
\* workers die, and however often it is buffered, re-sent and reclaimed; only
\* MAXLEN can take it away (enqueueAndAck, process, reclaimStuck).
SettledInteractionIsKept ==
  \A e \in Interactions \cap settled :
    handled[e] > 0 \/ Kept(e) \/ e \in trimmed

\* While no receiver dies, nothing gets lost on the way that the code does
\* not drop on purpose or with an error: a settled event is at an intake, in
\* a buffer, in its stream, or handled, also when a duplicate of it was
\* answered while the first was still on its way (Accept, Add, drainOne).
AccountedWhileReceiversLive ==
  \A e \in settled :
    lostIntakes = 0 =>
      \/ handled[e] > 0 \/ Kept(e) \/ Buffered(e) \/ Taken(e)
      \/ e \in skipped \cup forgone \cup trimmed

\* While no call fails, no worker dies and no message grows idle, an event is
\* handled at most as often as it was sent, and a notification once, though
\* its sender repeats it.
OnceWhileHealthy ==
  \A e \in Events :
    failures = 0 /\ lostWorkers = 0 /\ lapsed = {}
      => handled[e] <= IF e \in Notifications THEN 1 ELSE sends[e]

\* The system as SafeDelivery sees it: events that were sent, that some receiver has in
\* its memory, that some stream has, and that some worker has handled.
Sent   == {e \in Events : sends[e] > 0}
Held   == {e \in Events : Taken(e) \/ Buffered(e)}
Stored == {e \in Events : Kept(e)}
Done   == {e \in Events : handled[e] > 0}

\* The order of things: every step of every process is one that SafeDelivery allows, so
\* that an event is acknowledged only after it was handled and handled only after it was
\* written, and leaves a receiver's memory untold, written or dropped (enqueueAndAck,
\* handleMessage, ServeHTTP, drainOne, process, reclaimStuck).
Promise == INSTANCE SafeDelivery WITH
  Durable    <- Interactions,
  Repeatable <- Notifications,
  sent       <- Sent,
  told       <- settled,
  held       <- Held,
  stored     <- Stored,
  handled    <- Done,
  overrun    <- trimmed,
  dropped    <- skipped \cup forgone,
  broken     <- lostIntakes > 0
ImplementsDelivery == Promise!DeliverySpec

\* What keeps an intake together: with a call to make it has an event of its stream.
ReceiverInv ==
  \A r \in Receivers, s \in Streams :
    IF stage[r][s] = "none" THEN taking[r][s] = NoEvent
    ELSE taking[r][s] \in Events /\ StreamOf(taking[r][s]) = s

InHand(w) == batch[w] \cup slots[w]

\* The messages there are, those a worker still has after they were trimmed too.
Around == unread \cup pending \cup UNION {InHand(w) : w \in Workers}

\* Ids tell the messages of a stream apart; a batch is of one stream.
MessageInv ==
  /\ \A m \in Around : m.id <= added[StreamOf(m.event)]
  /\ \A m, k \in Around : StreamOf(m.event) = StreamOf(k.event) /\ m.id = k.id => m = k
  /\ \A w \in Workers : \A m, k \in batch[w] : StreamOf(m.event) = StreamOf(k.event)

\* What a worker is about to acknowledge has been handled.
WorkerInv ==
  \A w \in Workers :
    /\ headDone[w] =>
         \E m \in batch[w] : IsHead(w, m) /\ ~Concurrent(w, m) /\ handled[m.event] > 0
    /\ \A m \in slotDone[w] : handled[m.event] > 0

InStreamOrHandled(e) == handled[e] > 0 \/ Kept(e) \/ e \in trimmed

\* What a worker has in hand was not lost sight of: another worker may have
\* acknowledged it, or MAXLEN removed it, but only so.
HandInv == \A w \in Workers : \A m \in InHand(w) : InStreamOrHandled(m.event)

\* An intake is about to tell the sender that e is settled, or to write e.
Settling(e) == \E r \in Receivers, s \in Streams : taking[r][s] = e /\ stage[r][s] = "settle"
Writing(e) == \E r \in Receivers, s \in Streams : taking[r][s] = e /\ stage[r][s] = "enqueue"

\* An interaction is in its stream before Slack is told.
InteractionInv ==
  \A e \in Interactions : e \in settled \/ Settling(e) => InStreamOrHandled(e)

OnItsWay(e) == InStreamOrHandled(e) \/ Buffered(e) \/ Writing(e) \/ e \in skipped \cup forgone

\* What a sender or the dedupe marker takes for done is at least about to be written.
ProgressInv ==
  lostIntakes = 0 =>
    \A e \in Events :
      e \in settled \cup seen \/ (Settling(e) /\ e \notin Mentions) => OnItsWay(e)

\* No worker has handled m, and one may.
Unhandled(m) ==
  \/ m \in unread
  \/ \E w \in Workers :
       \/ m \in batch[w] /\ ~(headDone[w] /\ IsHead(w, m))
       \/ m \in slots[w] \ slotDone[w]

ToHandle(e) == {m \in Around : m.event = e /\ Unhandled(m)}

\* Intakes that are going to write e.
ToWrite(e) ==
  {r \in Receivers :
     /\ taking[r][StreamOf(e)] = e
     /\ \/ stage[r][StreamOf(e)] = "enqueue"
        \/ stage[r][StreamOf(e)] = "check" /\ e \in Pushes
        \/ stage[r][StreamOf(e)] = "settle" /\ e \in Mentions}

\* How often e may be handled in all.
Admitted(e) == IF e \notin Notifications THEN sends[e] ELSE IF e \in seen THEN 1 ELSE 0

Healthy == failures = 0 /\ lostWorkers = 0 /\ lapsed = {}

\* While all is well a message is in one hand only, and what was and what may still
\* be handled is covered by what was sent or admitted.
OnceInv ==
  /\ idle \subseteq lapsed
  /\ Healthy =>
       /\ \A r \in Receivers, s \in Streams : buffer[r][s] = <<>> /\ draining[r][s] = NoEvent
       /\ \A w \in Workers :
            /\ InHand(w) \cap unread = {} /\ batch[w] \cap slots[w] = {}
            /\ \A v \in Workers : v # w => InHand(w) \cap InHand(v) = {}
       /\ \A e \in Events :
            /\ IsFiniteSet(ToHandle(e)) /\ IsFiniteSet(ToWrite(e))
            /\ handled[e] + Cardinality(ToHandle(e)) + Cardinality(ToWrite(e)) <= Admitted(e)

\* The inductive invariant.
DeliveryInv ==
  /\ TypeOK /\ ReceiverInv /\ MessageInv /\ WorkerInv /\ HandInv
  /\ InteractionInv /\ ProgressInv /\ OnceInv

\* A settled interaction is handled in the end: workers that die, lost XACKs
\* and lost replies only delay it.
SettledInteractionIsHandled ==
  \A e \in Interactions :
    e \in settled ~> (handled[e] > 0 \/ e \in trimmed)

\* What a buffer holds is handled in the end, unless its receiver dies.
BufferedIsHandled ==
  \A e \in Events :
    Buffered(e) ~> (handled[e] > 0 \/ e \in trimmed \/ lostIntakes > 0)

-----------------------------------------------------------------------------
(* What the documentation says and the code does not keep.                 *)

\* "SQS messages are deleted only after the event has been successfully
\* written to Redis (or buffered)" (docs/ecr-push-triggered-deploys.md), or
\* the app was found locked.
DeletedPushIsQueued ==
  \A e \in Pushes \cap settled :
    handled[e] > 0 \/ Kept(e) \/ Buffered(e) \/ e \in skipped \cup trimmed

\* The dedupe marker handles duplication by "our own at-least-once stream
\* semantics: XAUTOCLAIM reclaims stuck messages and would otherwise
\* re-deliver them" (docs/argocd-notifications.md).
NotificationHandledOnce == \A e \in Notifications : handled[e] <= 1

=============================================================================
