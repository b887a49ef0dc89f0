------------------------ MODULE EventDelivery_proofs ------------------------
(***************************************************************************)
(* Proofs about EventDelivery, for every value of its constants: any       *)
(* events, receivers and workers, any sizes of the buffers, batches and    *)
(* streams, and any number of failed calls, deaths and idle messages.      *)
(***************************************************************************)
EXTENDS EventDelivery, FiniteSetTheorems, TLAPS

-----------------------------------------------------------------------------
(* Events and the two sides of the streams.                                *)

\* Each kind of event has its stream.
LEMMA StreamKinds ==
  ASSUME NEW e \in Events
  PROVE  /\ StreamOf(e) \in Streams /\ e # NoEvent
         /\ StreamOf(e) = "ecr" <=> e \in Pushes
         /\ StreamOf(e) = "argocd" <=> e \in Notifications
         /\ e \in Interactions => e \notin Mentions /\ e \notin Pushes /\ e \notin Notifications
         /\ e \in Mentions => e \notin Pushes /\ e \notin Notifications
BY DeliveryAssumption DEF DeliveryAssumption, StreamOf, Streams, Events

ReceiverStep ==
  \/ \E r \in Receivers, e \in Events : Send(r, e)
  \/ \E r \in Receivers, s \in Streams : IntakeStep(r, s) \/ DrainStep(r, s)
  \/ \E r \in Receivers : ReceiverDies(r)

WorkerStep ==
  \/ \E w \in Workers : LoopStep(w) \/ SlotStep(w) \/ WorkerDies(w)
  \/ \E m \in pending : BecomeIdle(m)

\* A step is one of a receiver or one of a worker.
LEMMA TwoSides == Next => ReceiverStep \/ WorkerStep
BY DEF Next, ReceiverStep, WorkerStep

\* The types, side by side.
Stages == {"none", "check", "enqueue", "settle"}

SendersOK == sends \in [Events -> Nat] /\ settled \subseteq Events
IntakesOK ==
  /\ taking \in [Receivers -> [Streams -> Events \cup {NoEvent}]]
  /\ stage \in [Receivers -> [Streams -> Stages]]
  /\ ReceiverInv
BuffersOK ==
  /\ buffer \in [Receivers -> [Streams -> Seq(Events)]]
  /\ draining \in [Receivers -> [Streams -> Events \cup {NoEvent}]]
StreamsOK ==
  /\ seen \subseteq Notifications /\ added \in [Streams -> Nat]
  /\ unread \subseteq Messages /\ pending \subseteq Messages /\ idle \subseteq pending
  /\ trimmed \subseteq Events /\ lapsed \subseteq Messages
LoopsOK ==
  /\ mode \in [Workers -> {"read", "claim"}]
  /\ turn \in [Workers -> Streams \cup {"top"}]
  /\ batch \in [Workers -> SUBSET Messages]
  /\ headDone \in [Workers -> BOOLEAN]
  /\ slots \in [Workers -> SUBSET Messages]
  /\ slotDone \in [Workers -> SUBSET Messages]
  /\ handled \in [Events -> Nat]
DroppedOK == skipped \subseteq Pushes /\ forgone \subseteq Events
CountsOK == failures \in Nat /\ lostIntakes \in Nat /\ lostWorkers \in Nat

Types == SendersOK /\ IntakesOK /\ BuffersOK /\ StreamsOK /\ LoopsOK /\ DroppedOK /\ CountsOK

\* The types, split by the part of the state that a step touches.
LEMMA TypesAreThese == TypeOK /\ ReceiverInv <=> Types
BY DEF TypeOK, Types, SendersOK, IntakesOK, BuffersOK, StreamsOK, LoopsOK, DroppedOK, CountsOK,
   Stages

-----------------------------------------------------------------------------
(* What the calls do.                                                      *)

\* An intake that goes on takes its event along, or is done with it.
LEMMA GoOnMoves ==
  ASSUME IntakesOK, NEW r \in Receivers, NEW s \in Streams, NEW g \in Stages, GoOn(r, s, g)
  PROVE  \A q \in Receivers, p \in Streams :
           /\ stage'[q][p] = IF q = r /\ p = s THEN g ELSE stage[q][p]
           /\ taking'[q][p] = IF q = r /\ p = s /\ g = "none" THEN NoEvent ELSE taking[q][p]
BY DEF IntakesOK, GoOn

\* An intake that goes on to its next call keeps an event of its own stream.
LEMMA GoOnTypes ==
  ASSUME IntakesOK, NEW r \in Receivers, NEW s \in Streams, NEW g \in Stages, GoOn(r, s, g),
         stage[r][s] # "none"
  PROVE  IntakesOK'
<1>1. taking' \in [Receivers -> [Streams -> Events \cup {NoEvent}]]
  BY DEF IntakesOK, GoOn
<1>2. stage' \in [Receivers -> [Streams -> Stages]]
  BY DEF IntakesOK, GoOn
<1>3. ReceiverInv'
  BY GoOnMoves DEF IntakesOK, ReceiverInv
<1> QED BY <1>1, <1>2, <1>3 DEF IntakesOK

Entry(e) == [event |-> e, id |-> added[StreamOf(e)] + 1]

\* XADD writes one message, and may remove some of the same stream.
LEMMA XAddIs ==
  ASSUME NEW e \in Events, XAdd(e)
  PROVE  \E gone \in SUBSET In(unread \cup pending, StreamOf(e)) :
           /\ added' = [added EXCEPT ![StreamOf(e)] = added[StreamOf(e)] + 1]
           /\ unread' = (unread \cup {Entry(e)}) \ gone
           /\ pending' = pending \ gone
           /\ idle' = idle \ gone
           /\ trimmed' = trimmed \cup {m.event : m \in gone}
           /\ UNCHANGED <<seen, lapsed>>
BY DEF XAdd, Entry

\* XADD gives an id above all earlier ones, and trimming only removes.
LEMMA XAddTypes ==
  ASSUME StreamsOK, NEW e \in Events, XAdd(e)
  PROVE  StreamsOK'
<1>1. PICK gone \in SUBSET In(unread \cup pending, StreamOf(e)) :
        /\ added' = [added EXCEPT ![StreamOf(e)] = added[StreamOf(e)] + 1]
        /\ unread' = (unread \cup {Entry(e)}) \ gone
        /\ pending' = pending \ gone
        /\ idle' = idle \ gone
        /\ trimmed' = trimmed \cup {m.event : m \in gone}
        /\ UNCHANGED <<seen, lapsed>>
  BY XAddIs
<1>2. added[StreamOf(e)] + 1 \in Nat
  BY StreamKinds DEF StreamsOK
<1>3. Entry(e) \in Messages
  BY <1>2 DEF Messages, Entry
<1>4. \A m \in gone : m.event \in Events
  BY DEF In, StreamsOK, Messages
<1>5. added' \in [Streams -> Nat]
  BY <1>1, <1>2 DEF StreamsOK
<1> QED BY <1>1, <1>3, <1>4, <1>5 DEF StreamsOK

\* XACK only removes.
LEMMA XAckTypes ==
  ASSUME StreamsOK, NEW m, XAck(m)
  PROVE  StreamsOK'
BY DEF StreamsOK, XAck

\* A call works or fails.
LEMMA CallTypes == ASSUME failures \in Nat, CallWorks \/ CallFails PROVE failures' \in Nat
BY DEF CallWorks, CallFails

\* The order of the streams in a worker's loop.
LEMMA Turns ==
  /\ \A s \in Streams \cup {"top"} : NextStream(s) \in Streams \cup {"top"}
  /\ NextStream("user") = "ecr"
  /\ "user" \in Streams /\ "ecr" \in Streams /\ "argocd" \in Streams
BY DEF NextStream, Streams

-----------------------------------------------------------------------------
(* Types: the receiver's steps.                                            *)

\* What a receiver leaves alone.
LEMMA ReceiverFrame ==
  ASSUME ReceiverStep
  PROVE  UNCHANGED workers /\ UNCHANGED lostWorkers
<1>1. ASSUME NEW r \in Receivers, NEW e \in Events, Send(r, e)
      PROVE  UNCHANGED workers /\ UNCHANGED lostWorkers
  BY <1>1 DEF Send, crashes
<1>2. ASSUME NEW r \in Receivers, NEW s \in Streams, IntakeStep(r, s) \/ DrainStep(r, s)
      PROVE  UNCHANGED workers /\ UNCHANGED lostWorkers
  BY <1>2 DEF IntakeStep, DrainStep, CheckLock, Accept, Enqueue, EnqueueElseBuffer, Settle,
     DrainTake, DrainOne, crashes
<1>3. ASSUME NEW r \in Receivers, ReceiverDies(r)
      PROVE  UNCHANGED workers /\ UNCHANGED lostWorkers
  BY <1>3 DEF ReceiverDies
<1> QED BY <1>1, <1>2, <1>3 DEF ReceiverStep

\* What is sent is sent to the intake of its own stream.
LEMMA SendTypes ==
  ASSUME Types, NEW r \in Receivers, NEW e \in Events, Send(r, e)
  PROVE  Types'
<1>1. SendersOK'
  BY DEF Types, SendersOK, Send
<1>2. IntakesOK'
  <2>1. StreamOf(e) \in Streams /\ FirstStage(e) \in Stages /\ FirstStage(e) # "none"
    BY StreamKinds DEF FirstStage, Stages
  <2>2. /\ taking' \in [Receivers -> [Streams -> Events \cup {NoEvent}]]
        /\ stage' \in [Receivers -> [Streams -> Stages]]
    BY <2>1 DEF Types, IntakesOK, Send
  <2>3. \A q \in Receivers, p \in Streams :
          /\ stage'[q][p] = IF q = r /\ p = StreamOf(e) THEN FirstStage(e) ELSE stage[q][p]
          /\ taking'[q][p] = IF q = r /\ p = StreamOf(e) THEN e ELSE taking[q][p]
    BY <2>1 DEF Types, IntakesOK, Send
  <2>4. ReceiverInv'
    BY <2>1, <2>3 DEF ReceiverInv, Types, IntakesOK
  <2> QED BY <2>2, <2>4 DEF IntakesOK
<1> QED BY <1>1, <1>2 DEF Types, BuffersOK, StreamsOK, LoopsOK, DroppedOK, CountsOK,
           Send, streams, workers, dropped, crashes

\* Each call of an intake, answered or failed, keeps the types.
LEMMA IntakeTypes ==
  ASSUME Types, NEW r \in Receivers, NEW s \in Streams, IntakeStep(r, s)
  PROVE  Types'
<1> DEFINE e == taking[r][s]
<1>1. stage[r][s] # "none" /\ e \in Events /\ StreamOf(e) = s
  <2>1. stage[r][s] # "none"
    BY DEF IntakeStep, CheckLock, Accept, Enqueue, EnqueueElseBuffer, Settle, At
  <2> QED BY <2>1 DEF Types, IntakesOK, ReceiverInv
<1>2. /\ AfterEnqueue(e) \in Stages /\ AfterBuffer(e) \in Stages
      /\ {"none", "enqueue", "settle"} \subseteq Stages
  BY DEF AfterEnqueue, AfterBuffer, Stages
<1>3. IntakesOK'
  <2>1. \E g \in Stages : GoOn(r, s, g)
    BY <1>2 DEF IntakeStep, CheckLock, Accept, Enqueue, EnqueueElseBuffer, Settle
  <2> QED BY <1>1, <2>1, GoOnTypes DEF Types
<1>4. CASE s = "ecr" /\ CheckLock(r)
  <2>1. e \in Pushes
    BY <1>1, <1>4, StreamKinds
  <2>2. DroppedOK' /\ failures' \in Nat
    BY <1>1, <1>4, <2>1, CallTypes DEF CheckLock, Types, DroppedOK, CountsOK, dropped
  <2> QED BY <1>3, <1>4, <2>2 DEF Types, SendersOK, BuffersOK, StreamsOK, LoopsOK, CountsOK,
             CheckLock, senders, streams, workers, crashes
<1>5. CASE s = "argocd" /\ Accept(r)
  <2>1. e \in Notifications
    BY <1>1, <1>5, StreamKinds
  <2>2. DroppedOK' /\ failures' \in Nat /\ seen' \subseteq Notifications
    BY <1>1, <1>5, <2>1, CallTypes DEF Accept, Types, DroppedOK, StreamsOK, CountsOK
  <2> QED BY <1>3, <1>5, <2>2 DEF Types, SendersOK, BuffersOK, StreamsOK, LoopsOK, CountsOK,
             Accept, senders, workers, crashes
<1>6. CASE Enqueue(r, s)
  <2>1. StreamsOK' /\ failures' \in Nat
    BY <1>1, <1>6, XAddTypes, CallTypes DEF Enqueue, Enqueued, Types, CountsOK
  <2> QED BY <1>3, <1>6, <2>1 DEF Types, SendersOK, BuffersOK, LoopsOK, DroppedOK, CountsOK,
             Enqueue, senders, workers, dropped, crashes
<1>7. CASE EnqueueElseBuffer(r, s)
  <2>1. StreamsOK' /\ failures' \in Nat
    <3>1. CASE UNCHANGED streams
      BY <1>7, <3>1, CallTypes DEF EnqueueElseBuffer, EnqueueFails, Types, CountsOK, StreamsOK, streams
    <3>2. CASE XAdd(e)
      BY <1>1, <1>7, <3>2, XAddTypes, CallTypes DEF EnqueueElseBuffer, EnqueueFails, Types, CountsOK
    <3> QED BY <1>7, <3>1, <3>2 DEF EnqueueElseBuffer, EnqueueFails
  <2>2. BuffersOK' /\ DroppedOK'
    <3>1. Append(buffer[r][s], e) \in Seq(Events)
      BY <1>1 DEF Types, BuffersOK
    <3> DEFINE to == Append(buffer[r][s], e)
    <3>2. CASE buffer' = [buffer EXCEPT ![r][s] = to] /\ UNCHANGED <<forgone, skipped, draining>>
      <4> HIDE DEF to, e
      <4> QED BY <3>1, <3>2 DEF Types, BuffersOK, DroppedOK, to
    <3>3. CASE forgone' = forgone \cup {e} /\ UNCHANGED <<buffer, skipped, draining>>
      BY <1>1, <3>3 DEF Types, BuffersOK, DroppedOK
    <3> QED BY <1>7, <3>2, <3>3 DEF EnqueueElseBuffer
  <2> QED BY <1>3, <1>7, <2>1, <2>2 DEF Types, SendersOK, LoopsOK, CountsOK,
             EnqueueElseBuffer, senders, workers, crashes
<1>8. CASE Settle(r, s)
  <2>1. SendersOK' /\ failures' \in Nat
    BY <1>1, <1>8, CallTypes DEF Settle, Types, SendersOK, CountsOK
  <2> QED BY <1>3, <1>8, <2>1 DEF Types, BuffersOK, StreamsOK, LoopsOK, DroppedOK, CountsOK,
             Settle, streams, workers, dropped, crashes
<1> QED BY <1>4, <1>5, <1>6, <1>7, <1>8 DEF IntakeStep

\* The retry buffer hands events of its own stream to XADD.
LEMMA DrainTypes ==
  ASSUME Types, NEW r \in Receivers, NEW s \in Streams, DrainStep(r, s)
  PROVE  Types'
<1>1. CASE DrainTake(r, s)
  <2>1. buffer[r][s] \in Seq(Events) /\ buffer[r][s] # <<>>
    BY <1>1 DEF DrainTake, Types, BuffersOK
  <2>2. Head(buffer[r][s]) \in Events /\ Tail(buffer[r][s]) \in Seq(Events)
    BY <2>1
  <2>3. BuffersOK'
    BY <1>1, <2>2 DEF DrainTake, Types, BuffersOK
  <2> QED BY <1>1, <2>3 DEF Types, SendersOK, IntakesOK, ReceiverInv, StreamsOK, LoopsOK, DroppedOK,
             CountsOK, DrainTake, senders, streams, workers, dropped, crashes
<1>2. CASE DrainOne(r, s)
  <2>1. draining[r][s] \in Events
    BY <1>2 DEF DrainOne, Types, BuffersOK
  <2>2. StreamsOK' /\ failures' \in Nat
    <3>1. CASE XAdd(draining[r][s]) /\ (CallWorks \/ CallFails)
      BY <2>1, <3>1, XAddTypes, CallTypes DEF Types, CountsOK
    <3>2. CASE UNCHANGED streams /\ CallFails
      BY <3>2, CallTypes DEF Types, CountsOK, StreamsOK, streams
    <3> QED BY <1>2, <3>1, <3>2 DEF DrainOne, Enqueued, EnqueueFails
  <2>3. BuffersOK'
    <3>1. UNCHANGED buffer /\ (UNCHANGED draining \/ draining' = [draining EXCEPT ![r][s] = NoEvent])
      BY <1>2 DEF DrainOne
    <3>2. draining' \in [Receivers -> [Streams -> Events \cup {NoEvent}]]
      <4>1. draining \in [Receivers -> [Streams -> Events \cup {NoEvent}]]
        BY DEF Types, BuffersOK
      <4>2. [draining EXCEPT ![r][s] = NoEvent] \in [Receivers -> [Streams -> Events \cup {NoEvent}]]
        BY ONLY <4>1
      <4> QED BY ONLY <3>1, <4>1, <4>2
    <3> QED BY <3>1, <3>2 DEF Types, BuffersOK
  <2> QED BY <1>2, <2>2, <2>3 DEF Types, SendersOK, IntakesOK, ReceiverInv, LoopsOK, DroppedOK,
             CountsOK, DrainOne, senders, workers, dropped, crashes
<1> QED BY <1>1, <1>2 DEF DrainStep

\* A receiver that dies loses its buffers and intakes, and nothing else.
LEMMA ReceiverDiesTypes ==
  ASSUME Types, NEW r \in Receivers, ReceiverDies(r)
  PROVE  Types'
<1>1. IntakesOK'
  <2>1. /\ taking' \in [Receivers -> [Streams -> Events \cup {NoEvent}]]
        /\ stage' \in [Receivers -> [Streams -> Stages]]
    BY DEF Types, IntakesOK, ReceiverDies, Stages
  <2>2. \A q \in Receivers, p \in Streams :
          /\ stage'[q][p] = IF q = r THEN "none" ELSE stage[q][p]
          /\ taking'[q][p] = IF q = r THEN NoEvent ELSE taking[q][p]
    BY DEF Types, IntakesOK, ReceiverDies
  <2> QED BY <2>1, <2>2 DEF IntakesOK, ReceiverInv, Types
<1>2. BuffersOK'
  <2>1. <<>> \in Seq(Events)
    OBVIOUS
  <2> QED BY <2>1 DEF BuffersOK, Types, ReceiverDies
<1> QED BY <1>1, <1>2 DEF Types, SendersOK, StreamsOK, LoopsOK, DroppedOK, CountsOK,
           ReceiverDies, senders, streams, workers, dropped

\* Every step of the receivers keeps the types.
LEMMA ReceiverTypes == ASSUME Types, ReceiverStep PROVE Types'
BY SendTypes, IntakeTypes, DrainTypes, ReceiverDiesTypes DEF ReceiverStep

-----------------------------------------------------------------------------
(* Types: the workers' steps.                                              *)

\* What a worker leaves alone.
LEMMA WorkerFrame ==
  ASSUME WorkerStep
  PROVE  UNCHANGED senders /\ UNCHANGED receivers /\ UNCHANGED seen /\ UNCHANGED added
         /\ UNCHANGED dropped /\ UNCHANGED lostIntakes
<1> DEFINE Frame == UNCHANGED senders /\ UNCHANGED receivers /\ UNCHANGED seen /\ UNCHANGED added
                    /\ UNCHANGED dropped /\ UNCHANGED lostIntakes
<1>1. ASSUME NEW w \in Workers, StartReclaim(w) \/ ReclaimStuck(w) \/ ReadStream(w) \/ WorkerDies(w)
      PROVE  Frame
  BY <1>1 DEF StartReclaim, ReclaimStuck, ReadStream, WorkerDies, streams, crashes
<1>2. ASSUME NEW w \in Workers, NEW m, Spawn(w, m) \/ HandleHead(w, m) \/ HandleSlot(w, m)
      PROVE  Frame
  BY <1>2 DEF Spawn, HandleHead, HandleSlot, streams, crashes
<1>3. ASSUME NEW w \in Workers, NEW m, AckHead(w, m) \/ AckSlot(w, m)
      PROVE  Frame
  BY <1>3 DEF AckHead, AckSlot, XAck, streams, crashes
<1>4. ASSUME NEW m, BecomeIdle(m)
      PROVE  Frame
  BY <1>4 DEF BecomeIdle, crashes
<1> HIDE DEF Frame
<1> QED BY <1>1, <1>2, <1>3, <1>4 DEF WorkerStep, LoopStep, SlotStep, Frame

\* The oldest messages of a stream are some of them.
LEMMA OldestAreThere ==
  ASSUME NEW M, NEW s, NEW n
  PROVE  /\ Oldest(In(M, s), n) \subseteq M
         /\ \A m \in Oldest(In(M, s), n) : StreamOf(m.event) = s
BY DEF Oldest, In

\* Reading and reclaiming put messages of the right stream in a batch.
LEMMA LoopTypes ==
  ASSUME StreamsOK, LoopsOK, NEW w \in Workers,
         StartReclaim(w) \/ ReclaimStuck(w) \/ ReadStream(w) \/ WorkerDies(w)
  PROVE  StreamsOK' /\ LoopsOK' /\ (failures \in Nat => failures' \in Nat)
<1> USE Turns
<1>1. CASE StartReclaim(w)
  <2>1. "user" \in Streams \cup {"top"}
    OBVIOUS
  <2> QED BY <1>1, <2>1 DEF StartReclaim, StreamsOK, LoopsOK, streams
<1>2. CASE ReclaimStuck(w)
  <2> DEFINE got == Oldest(In(idle, turn[w]), BatchSize)
  <2>1. got \subseteq idle /\ got \in SUBSET Messages
    BY OldestAreThere DEF StreamsOK
  <2> HIDE DEF got
  <2>2. StreamsOK'
    BY <1>2, <2>1 DEF ReclaimStuck, StreamsOK, got
  <2>3. batch' \in [Workers -> SUBSET Messages]
    BY <1>2, <2>1 DEF ReclaimStuck, LoopsOK, got
  <2>4. mode' \in [Workers -> {"read", "claim"}] /\ turn' \in [Workers -> Streams \cup {"top"}]
    <3>1. AfterClaim(w) /\ turn[w] \in Streams \cup {"top"}
      BY <1>2 DEF ReclaimStuck, LoopsOK
    <3> QED BY <3>1 DEF AfterClaim, LoopsOK
  <2>5. failures \in Nat => failures' \in Nat
    BY <1>2, CallTypes DEF ReclaimStuck
  <2> QED BY <1>2, <2>2, <2>3, <2>4, <2>5 DEF ReclaimStuck, LoopsOK
<1>3. CASE ReadStream(w)
  <2> DEFINE s == IF turn[w] = "top" THEN "user" ELSE turn[w]
             got == Oldest(In(unread, s), BatchSize)
  <2>1. got \subseteq unread /\ got \in SUBSET Messages
    BY OldestAreThere DEF StreamsOK
  <2>2. s \in Streams
    BY DEF LoopsOK
  <2>3. /\ UNCHANGED <<seen, added, idle, trimmed, lapsed>>
        /\ unread' \in {unread, unread \ got} /\ pending' \in {pending, pending \cup got}
        /\ batch' \in {batch, [batch EXCEPT ![w] = got]}
        /\ \E t \in {"top", NextStream(s)} : turn' = [turn EXCEPT ![w] = t]
    BY <1>3 DEF ReadStream
  <2> HIDE DEF s, got
  <2>4. StreamsOK'
    BY <2>1, <2>3 DEF StreamsOK
  <2>5. batch' \in [Workers -> SUBSET Messages] /\ turn' \in [Workers -> Streams \cup {"top"}]
    <3>1. NextStream(s) \in Streams \cup {"top"}
      BY <2>2
    <3> QED BY <2>1, <2>3, <3>1 DEF LoopsOK
  <2>6. failures \in Nat => failures' \in Nat
    BY <1>3, CallTypes DEF ReadStream
  <2> QED BY <1>3, <2>4, <2>5, <2>6 DEF ReadStream, LoopsOK
<1>4. CASE WorkerDies(w)
  BY <1>4 DEF WorkerDies, StreamsOK, LoopsOK, streams
<1> QED BY <1>1, <1>2, <1>3, <1>4

\* Handling and acknowledging keep what a worker has in hand.
LEMMA HandTypes ==
  ASSUME StreamsOK, LoopsOK, NEW w \in Workers, NEW m \in InHand(w),
         \/ Spawn(w, m) \/ HandleHead(w, m) \/ AckHead(w, m)
         \/ HandleSlot(w, m) \/ AckSlot(w, m)
  PROVE  StreamsOK' /\ LoopsOK' /\ (failures \in Nat => failures' \in Nat)
<1>1. m \in Messages /\ m.event \in Events
  BY DEF InHand, LoopsOK, Messages
<1>2. /\ batch[w] \in SUBSET Messages /\ slots[w] \in SUBSET Messages
      /\ slotDone[w] \in SUBSET Messages /\ handled[m.event] + 1 \in Nat
  BY <1>1 DEF LoopsOK
<1>3. CASE Spawn(w, m)
  BY <1>1, <1>2, <1>3 DEF Spawn, StreamsOK, LoopsOK, streams
<1>4. CASE HandleHead(w, m)
  BY <1>1, <1>2, <1>4 DEF HandleHead, Handled, StreamsOK, LoopsOK, streams
<1>5. CASE AckHead(w, m)
  <2>1. StreamsOK'
    BY <1>5, XAckTypes DEF AckHead, StreamsOK, streams
  <2>2. failures \in Nat => failures' \in Nat
    BY <1>5, CallTypes DEF AckHead
  <2> QED BY <1>2, <1>5, <2>1, <2>2 DEF AckHead, LoopsOK
<1>6. CASE HandleSlot(w, m)
  BY <1>1, <1>2, <1>6 DEF HandleSlot, Handled, StreamsOK, LoopsOK, streams
<1>7. CASE AckSlot(w, m)
  <2>1. StreamsOK'
    BY <1>7, XAckTypes DEF AckSlot, StreamsOK, streams
  <2>2. failures \in Nat => failures' \in Nat
    BY <1>7, CallTypes DEF AckSlot
  <2> QED BY <1>2, <1>7, <2>1, <2>2 DEF AckSlot, LoopsOK
<1> QED BY <1>3, <1>4, <1>5, <1>6, <1>7

\* A message becomes idle only among the pending ones.
LEMMA IdleTypes ==
  ASSUME StreamsOK, LoopsOK, NEW m \in pending, BecomeIdle(m)
  PROVE  StreamsOK' /\ LoopsOK' /\ UNCHANGED failures
BY DEF BecomeIdle, StreamsOK, LoopsOK, workers

\* Every step of the workers keeps the types.
LEMMA WorkerTypes == ASSUME Types, WorkerStep PROVE Types'
<1>1. StreamsOK' /\ LoopsOK' /\ failures' \in Nat
  BY LoopTypes, HandTypes, IdleTypes
     DEF WorkerStep, LoopStep, SlotStep, InHand, Types, CountsOK
<1>2. lostWorkers' \in Nat
  BY DEF WorkerStep, LoopStep, SlotStep, StartReclaim, ReclaimStuck, ReadStream, WorkerDies, Spawn,
     HandleHead, AckHead, HandleSlot, AckSlot, BecomeIdle, crashes, Types, CountsOK
<1> QED BY <1>1, <1>2, WorkerFrame DEF Types, SendersOK, IntakesOK, ReceiverInv, BuffersOK, DroppedOK,
           CountsOK, senders, receivers, dropped

-----------------------------------------------------------------------------
(* The messages: ids tell them apart, and what is acknowledged was handled.*)

\* A receiver's step writes at most one message.
LEMMA ReceiverStreams ==
  ASSUME Types, ReceiverStep
  PROVE  (\E e \in Events : XAdd(e)) \/ UNCHANGED <<added, unread, pending, idle, trimmed, lapsed>>
<1> DEFINE Same == UNCHANGED <<added, unread, pending, idle, trimmed, lapsed>>
<1>1. ASSUME NEW r \in Receivers, NEW e \in Events, Send(r, e)
      PROVE  Same
  BY <1>1 DEF Send, streams
<1>2. ASSUME NEW r \in Receivers, NEW s \in Streams, IntakeStep(r, s)
      PROVE  (\E e \in Events : XAdd(e)) \/ Same
  <2>1. taking[r][s] \in Events
    BY <1>2 DEF IntakeStep, CheckLock, Accept, Enqueue, EnqueueElseBuffer, Settle, At, Types,
       IntakesOK, ReceiverInv
  <2> QED BY <1>2, <2>1 DEF IntakeStep, CheckLock, Accept, Enqueue, EnqueueElseBuffer, Settle,
             Enqueued, EnqueueFails, streams
<1>3. ASSUME NEW r \in Receivers, NEW s \in Streams, DrainStep(r, s)
      PROVE  (\E e \in Events : XAdd(e)) \/ Same
  <2>1. draining[r][s] # NoEvent => draining[r][s] \in Events
    BY DEF Types, BuffersOK
  <2> QED BY <1>3, <2>1 DEF DrainStep, DrainTake, DrainOne, Enqueued, EnqueueFails, streams
<1>4. ASSUME NEW r \in Receivers, ReceiverDies(r)
      PROVE  Same
  BY <1>4 DEF ReceiverDies, streams
<1> HIDE DEF Same
<1> QED BY <1>1, <1>2, <1>3, <1>4 DEF ReceiverStep, Same

\* A worker has in hand what it had, or messages of one stream it was just given.
LEMMA WorkerHands ==
  ASSUME Types, WorkerStep
  PROVE  /\ Around' \subseteq Around
         /\ \A w \in Workers :
              batch'[w] \subseteq batch[w] \/ \E s : \A m \in batch'[w] : StreamOf(m.event) = s
<1> DEFINE Hands ==
      /\ Around' \subseteq Around
      /\ \A w \in Workers :
           batch'[w] \subseteq batch[w] \/ \E s : \A m \in batch'[w] : StreamOf(m.event) = s
<1> USE DEF Types, StreamsOK, LoopsOK
<1>1. ASSUME NEW w \in Workers, StartReclaim(w) \/ WorkerDies(w)
      PROVE  Hands
  BY <1>1 DEF StartReclaim, WorkerDies, streams, Around, InHand
<1>2. ASSUME NEW w \in Workers, NEW s, NEW got \in SUBSET Around,
             \A m \in got : StreamOf(m.event) = s,
             batch' \in {batch, [batch EXCEPT ![w] = got]},
             unread' \cup pending' \subseteq Around, UNCHANGED slots
      PROVE  Hands
  <2>1. \A v \in Workers : batch'[v] \in {batch[v], got} /\ slots'[v] = slots[v]
    BY <1>2
  <2>2. \A v \in Workers : InHand(v)' \subseteq Around
    BY <2>1, <1>2 DEF InHand, Around
  <2>3. Around' \subseteq Around
    BY <1>2, <2>2 DEF Around
  <2> QED BY <1>2, <2>1, <2>3
<1>3. ASSUME NEW w \in Workers, ReclaimStuck(w)
      PROVE  Hands
  <2>1. pending \subseteq Around /\ unread \subseteq Around
    BY DEF Around
  <2>2. Oldest(In(idle, turn[w]), BatchSize) \in SUBSET Around
    BY <2>1, OldestAreThere
  <2> HIDE DEF Hands, Types, StreamsOK, LoopsOK
  <2> QED BY <1>2, <1>3, <2>1, <2>2, OldestAreThere DEF ReclaimStuck
<1>4. ASSUME NEW w \in Workers, ReadStream(w)
      PROVE  Hands
  <2> DEFINE s == IF turn[w] = "top" THEN "user" ELSE turn[w]
             got == Oldest(In(unread, s), BatchSize)
  <2>1. got \in SUBSET Around /\ got \subseteq unread /\ \A m \in got : StreamOf(m.event) = s
    BY OldestAreThere DEF Around
  <2>2. /\ unread' \subseteq unread /\ pending' \subseteq pending \cup got /\ UNCHANGED slots
        /\ batch' \in {batch, [batch EXCEPT ![w] = got]}
    BY <1>4 DEF ReadStream
  <2>3. unread' \cup pending' \subseteq Around
    BY <2>1, <2>2 DEF Around
  <2> HIDE DEF Hands, got, s, Types, StreamsOK, LoopsOK
  <2> QED BY <1>2, <2>1, <2>2, <2>3
<1>5. ASSUME NEW w \in Workers, NEW m \in InHand(w), Spawn(w, m)
      PROVE  Hands
  <2>1. \A v \in Workers : InHand(v)' \subseteq InHand(v) /\ batch'[v] \subseteq batch[v]
    BY <1>5 DEF Spawn, InHand
  <2> QED BY <1>5, <2>1 DEF Spawn, streams, Around
<1>6. ASSUME NEW w \in Workers, NEW m, HandleHead(w, m) \/ HandleSlot(w, m)
      PROVE  Hands
  BY <1>6 DEF HandleHead, HandleSlot, streams, Around, InHand
<1>7. ASSUME NEW w \in Workers, NEW m, AckHead(w, m) \/ AckSlot(w, m)
      PROVE  Hands
  <2>1. \A v \in Workers : InHand(v)' \subseteq InHand(v) /\ batch'[v] \subseteq batch[v]
    BY <1>7 DEF AckHead, AckSlot, InHand
  <2>2. unread' = unread /\ pending' \subseteq pending
    BY <1>7 DEF AckHead, AckSlot, XAck, streams
  <2> QED BY <2>1, <2>2 DEF Around
<1>8. ASSUME NEW m \in pending, BecomeIdle(m)
      PROVE  Hands
  BY <1>8 DEF BecomeIdle, workers, Around, InHand
<1> HIDE DEF Hands
<1> QED BY <1>1, <1>3, <1>4, <1>5, <1>6, <1>7, <1>8
        DEF WorkerStep, LoopStep, SlotStep, InHand, Hands

\* Every step keeps ids apart within a stream, and a batch to one stream.
LEMMA MessageStep ==
  ASSUME Types, MessageInv, ReceiverStep \/ WorkerStep
  PROVE  MessageInv'
<1>1. ASSUME WorkerStep
      PROVE  MessageInv'
  BY <1>1, WorkerHands, WorkerFrame DEF MessageInv
<1>2. ASSUME ReceiverStep, UNCHANGED <<added, unread, pending>>
      PROVE  MessageInv'
  BY <1>2, ReceiverFrame DEF MessageInv, workers, Around, InHand
<1>3. ASSUME ReceiverStep, NEW e \in Events, XAdd(e)
      PROVE  MessageInv'
  <2>1. UNCHANGED <<batch, slots>>
    BY <1>3, ReceiverFrame DEF workers
  <2>2. /\ added' = [added EXCEPT ![StreamOf(e)] = added[StreamOf(e)] + 1]
        /\ unread' \subseteq unread \cup {Entry(e)} /\ pending' \subseteq pending
    BY <1>3, XAddIs
  <2>3. Around' \subseteq Around \cup {Entry(e)}
    BY <2>1, <2>2 DEF Around, InHand
  <2>4. /\ StreamOf(e) \in Streams /\ added \in [Streams -> Nat]
        /\ \A s \in Streams :
             added'[s] = IF s = StreamOf(e) THEN added[s] + 1 ELSE added[s]
    BY <2>2, StreamKinds DEF Types, StreamsOK
  <2>5. Entry(e).event = e /\ Entry(e).id = added[StreamOf(e)] + 1
    BY DEF Entry
  <2>6. \A m \in Around : m.id \in Nat /\ StreamOf(m.event) \in Streams /\ m.id <= added[StreamOf(m.event)]
    BY StreamKinds DEF MessageInv, Around, InHand, Messages, Types, StreamsOK, LoopsOK
  <2>7. \A m \in Around' : m.id <= added'[StreamOf(m.event)]
    BY <2>3, <2>4, <2>5, <2>6
  <2>8. \A m, k \in Around' : StreamOf(m.event) = StreamOf(k.event) /\ m.id = k.id => m = k
    BY <2>3, <2>4, <2>5, <2>6 DEF MessageInv
  <2> QED BY <2>1, <2>7, <2>8 DEF MessageInv
<1> QED BY <1>1, <1>2, <1>3, ReceiverStreams

\* Only one message heads a batch.
LEMMA OneHead ==
  ASSUME Types, MessageInv, NEW w \in Workers, NEW m, NEW k, IsHead(w, m), IsHead(w, k)
  PROVE  m = k
<1>1. m.id \in Nat /\ k.id \in Nat /\ m \in Around /\ k \in Around
  BY DEF IsHead, Types, LoopsOK, Messages, Around, InHand
<1>2. m.id <= k.id /\ k.id <= m.id
  BY DEF IsHead
<1>3. m.id = k.id
  BY <1>1, <1>2
<1> QED BY <1>1, <1>3 DEF MessageInv, IsHead

WorkerOK(w) ==
  /\ headDone[w] =>
       \E m \in batch[w] : IsHead(w, m) /\ ~Concurrent(w, m) /\ handled[m.event] > 0
  /\ \A m \in slotDone[w] : handled[m.event] > 0

\* A message is acknowledged once it has been handled, and not before.
LEMMA WorkerInvStep ==
  ASSUME Types, MessageInv, WorkerInv, ReceiverStep \/ WorkerStep
  PROVE  WorkerInv'
<1> USE DEF Types, LoopsOK
<1>0. \A v \in Workers : WorkerOK(v)
  BY DEF WorkerInv, WorkerOK
<1>1. ASSUME UNCHANGED workers
      PROVE  WorkerInv'
  BY <1>1 DEF workers, WorkerInv, IsHead, Concurrent
<1>2. ASSUME NEW w \in Workers, UNCHANGED handled, WorkerOK(w)',
             \A v \in Workers \ {w} :
               /\ batch'[v] = batch[v] /\ slotDone'[v] = slotDone[v] /\ headDone'[v] = headDone[v]
               /\ mode'[v] = mode[v] /\ turn'[v] = turn[v]
      PROVE  WorkerInv'
  <2>1. ASSUME NEW v \in Workers \ {w}
        PROVE  WorkerOK(v)'
    <3>1. \A m : IsHead(v, m)' = IsHead(v, m) /\ Concurrent(v, m)' = Concurrent(v, m)
      BY <1>2 DEF IsHead, Concurrent
    <3> QED BY <1>0, <1>2, <3>1 DEF WorkerOK
  <2> QED BY <1>2, <2>1 DEF WorkerInv, WorkerOK
<1>3. ASSUME NEW w \in Workers, batch[w] = {}
      PROVE  ~headDone[w]
  BY <1>0, <1>3 DEF WorkerOK
<1>4. ASSUME NEW w \in Workers, StartReclaim(w) \/ ReclaimStuck(w) \/ ReadStream(w)
      PROVE  WorkerInv'
  <2>1. ~headDone[w] /\ UNCHANGED <<handled, headDone, slotDone>>
    BY <1>3, <1>4 DEF StartReclaim, ReclaimStuck, ReadStream
  <2>2. WorkerOK(w)'
    BY <1>0, <2>1 DEF WorkerOK
  <2>3. \A v \in Workers \ {w} : batch'[v] = batch[v] /\ mode'[v] = mode[v] /\ turn'[v] = turn[v]
    BY <1>4 DEF StartReclaim, ReclaimStuck, ReadStream, AfterClaim
  <2> QED BY <1>2, <2>1, <2>2, <2>3
<1>5. ASSUME NEW w \in Workers, NEW m \in batch[w], Spawn(w, m)
      PROVE  WorkerInv'
  <2>1. ~headDone[w]
    BY <1>0, <1>5, OneHead DEF WorkerOK, Spawn
  <2>2. WorkerOK(w)'
    BY <1>0, <1>5, <2>1 DEF WorkerOK, Spawn
  <2> QED BY <1>2, <1>5, <2>2 DEF Spawn
<1>6. ASSUME NEW w \in Workers, NEW m \in InHand(w), HandleHead(w, m) \/ HandleSlot(w, m)
      PROVE  WorkerInv'
  <2>1. m.event \in Events
    BY DEF InHand, Messages
  <2>2. \A e \in Events : handled'[e] \in Nat /\ (handled[e] > 0 => handled'[e] > 0)
    BY <1>6, <2>1 DEF HandleHead, HandleSlot, Handled
  <2>3. handled'[m.event] > 0
    BY <1>6, <2>1 DEF HandleHead, HandleSlot, Handled
  <2>4. /\ UNCHANGED <<batch, mode, turn>>
        /\ \A v \in Workers : \A k \in batch[v] \cup slotDone[v] : k.event \in Events
    BY <1>6 DEF HandleHead, HandleSlot, Messages
  <2>5. /\ \A v \in Workers : headDone'[v] => headDone[v] \/ (v = w /\ HandleHead(w, m))
        /\ \A v \in Workers : slotDone'[v] \subseteq slotDone[v] \cup {m}
    BY <1>6 DEF HandleHead, HandleSlot
  <2>6. ASSUME NEW v \in Workers
        PROVE  WorkerOK(v)'
    <3>1. \A k : IsHead(v, k)' = IsHead(v, k) /\ Concurrent(v, k)' = Concurrent(v, k)
      BY <2>4 DEF IsHead, Concurrent
    <3>2. ASSUME headDone'[v]
          PROVE  \E k \in batch'[v] : IsHead(v, k)' /\ ~Concurrent(v, k)' /\ handled'[k.event] > 0
      <4>1. CASE headDone[v]
        BY <1>0, <2>2, <2>4, <3>1, <4>1 DEF WorkerOK
      <4>2. CASE v = w /\ HandleHead(w, m)
        BY <2>3, <2>4, <3>1, <4>2 DEF HandleHead, IsHead
      <4> QED BY <2>5, <3>2, <4>1, <4>2
    <3>3. \A k \in slotDone'[v] : handled'[k.event] > 0
      BY <1>0, <2>2, <2>3, <2>4, <2>5 DEF WorkerOK
    <3> QED BY <3>2, <3>3 DEF WorkerOK
  <2> QED BY <2>6 DEF WorkerInv, WorkerOK
<1>7. ASSUME NEW w \in Workers, NEW m, AckHead(w, m)
      PROVE  WorkerInv'
  <2>1. ~headDone'[w] /\ WorkerOK(w)'
    BY <1>0, <1>7 DEF AckHead, WorkerOK
  <2> QED BY <1>2, <1>7, <2>1 DEF AckHead
<1>8. ASSUME NEW w \in Workers, NEW m, AckSlot(w, m)
      PROVE  WorkerInv'
  <2>1. \A k : IsHead(w, k)' = IsHead(w, k) /\ Concurrent(w, k)' = Concurrent(w, k)
    BY <1>8 DEF AckSlot, IsHead, Concurrent
  <2>2. WorkerOK(w)'
    BY <1>0, <1>8, <2>1 DEF AckSlot, WorkerOK
  <2> QED BY <1>2, <1>8, <2>2 DEF AckSlot
<1>9. ASSUME NEW w \in Workers, WorkerDies(w)
      PROVE  WorkerInv'
  <2>1. WorkerOK(w)'
    BY <1>9 DEF WorkerDies, WorkerOK
  <2> QED BY <1>2, <1>9, <2>1 DEF WorkerDies
<1>10. ASSUME NEW m, BecomeIdle(m)
       PROVE  WorkerInv'
  BY <1>1, <1>10 DEF BecomeIdle
<1>11. ReceiverStep => WorkerInv'
  BY <1>1, ReceiverFrame
<1> QED BY <1>4, <1>5, <1>6, <1>7, <1>8, <1>9, <1>10, <1>11 DEF WorkerStep, LoopStep, SlotStep, InHand

-----------------------------------------------------------------------------
(* Nothing in a stream gets lost unhandled but by MAXLEN.                  *)

\* What XADD has written is there, and what it removed is known.
LEMMA XAddKeeps ==
  ASSUME Types, NEW e \in Events, XAdd(e), UNCHANGED handled
  PROVE  /\ InStreamOrHandled(e)'
         /\ \A f \in Events : InStreamOrHandled(f) => InStreamOrHandled(f)'
<1>1. PICK gone \in SUBSET In(unread \cup pending, StreamOf(e)) :
        /\ unread' = (unread \cup {Entry(e)}) \ gone
        /\ pending' = pending \ gone
        /\ trimmed' = trimmed \cup {m.event : m \in gone}
  BY XAddIs
<1>2. Entry(e).event = e
  BY DEF Entry
<1>3. ASSUME NEW m \in unread \cup pending \cup {Entry(e)}
      PROVE  m \in unread' \cup pending' \/ m.event \in trimmed'
  BY <1>1, <1>3
<1>4. InStreamOrHandled(e)'
  <2>1. Entry(e) \in unread' \cup pending' \/ e \in trimmed'
    BY <1>2, <1>3
  <2> QED BY <1>2, <2>1 DEF InStreamOrHandled, Kept
<1>5. ASSUME NEW f \in Events, InStreamOrHandled(f)
      PROVE  InStreamOrHandled(f)'
  <2>1. trimmed \subseteq trimmed'
    BY <1>1
  <2> QED BY <1>3, <1>5, <2>1 DEF InStreamOrHandled, Kept
<1> QED BY <1>4, <1>5

\* A worker acknowledges what was handled, and takes nothing else out of a stream.
LEMMA WorkerKeeps ==
  ASSUME Types, MessageInv, WorkerInv, WorkerStep
  PROVE  \A f \in Events : InStreamOrHandled(f) => InStreamOrHandled(f)'
<1> DEFINE Keeps == \A f \in Events : InStreamOrHandled(f) => InStreamOrHandled(f)'
<1> USE DEF Types, StreamsOK, LoopsOK
<1>1. ASSUME UNCHANGED <<handled, trimmed>>, unread \cup pending \subseteq unread' \cup pending'
      PROVE  Keeps
  BY <1>1 DEF InStreamOrHandled, Kept
<1>2. ASSUME NEW w \in Workers, StartReclaim(w) \/ ReclaimStuck(w) \/ WorkerDies(w)
      PROVE  Keeps
  <2> HIDE DEF Keeps
  <2> QED BY <1>1, <1>2 DEF StartReclaim, ReclaimStuck, WorkerDies, streams
<1>3. ASSUME NEW w \in Workers, ReadStream(w)
      PROVE  Keeps
  <2> DEFINE got == Oldest(In(unread, IF turn[w] = "top" THEN "user" ELSE turn[w]), BatchSize)
  <2>1. \/ unread' = unread \ got /\ pending' = pending \cup got
        \/ UNCHANGED <<unread, pending>>
    BY <1>3 DEF ReadStream
  <2>2. UNCHANGED <<handled, trimmed>>
    BY <1>3 DEF ReadStream
  <2> HIDE DEF Keeps, got
  <2>3. unread \cup pending \subseteq unread' \cup pending'
    BY <2>1
  <2> QED BY <1>1, <2>2, <2>3
<1>4. ASSUME NEW w \in Workers, NEW m, Spawn(w, m)
      PROVE  Keeps
  <2> HIDE DEF Keeps
  <2> QED BY <1>1, <1>4 DEF Spawn, streams
<1>5. ASSUME NEW w \in Workers, NEW m \in InHand(w), HandleHead(w, m) \/ HandleSlot(w, m)
      PROVE  Keeps
  <2>1. m.event \in Events
    BY DEF InHand, Messages
  <2>2. \A f \in Events : handled[f] > 0 => handled'[f] > 0
    BY <1>5, <2>1 DEF HandleHead, HandleSlot, Handled
  <2>3. UNCHANGED <<unread, pending, trimmed>>
    BY <1>5 DEF HandleHead, HandleSlot, streams
  <2> QED BY <2>2, <2>3 DEF InStreamOrHandled, Kept
<1>6. ASSUME NEW m, handled[m.event] > 0, XAck(m) \/ UNCHANGED streams, UNCHANGED handled
      PROVE  Keeps
  <2>1. UNCHANGED <<unread, trimmed>> /\ pending \subseteq pending' \cup {m}
    BY <1>6 DEF XAck, streams
  <2> QED BY <1>6, <2>1 DEF InStreamOrHandled, Kept
<1>7. ASSUME NEW w \in Workers, NEW m, AckHead(w, m) \/ AckSlot(w, m)
      PROVE  Keeps
  <2>1. handled[m.event] > 0
    BY <1>7, OneHead DEF AckHead, AckSlot, WorkerInv
  <2> HIDE DEF Keeps
  <2> QED BY <1>6, <1>7, <2>1 DEF AckHead, AckSlot
<1>8. ASSUME NEW m, BecomeIdle(m)
      PROVE  Keeps
  <2> HIDE DEF Keeps
  <2> QED BY <1>1, <1>8 DEF BecomeIdle, workers
<1> HIDE DEF Keeps
<1> QED BY <1>2, <1>3, <1>4, <1>5, <1>7, <1>8 DEF WorkerStep, LoopStep, SlotStep, InHand, Keeps

\* An event kept in its stream, handled or trimmed stays so when a receiver steps.
LEMMA ReceiverKeeps ==
  ASSUME Types, ReceiverStep
  PROVE  \A f \in Events : InStreamOrHandled(f) => InStreamOrHandled(f)'
<1>1. UNCHANGED handled
  BY ReceiverFrame DEF workers
<1>2. CASE UNCHANGED <<added, unread, pending, idle, trimmed, lapsed>>
  BY <1>1, <1>2 DEF InStreamOrHandled, Kept
<1> QED BY <1>1, <1>2, ReceiverStreams, XAddKeeps

\* How an event comes to be taken for settled: it was, or it is a mention, or it is
\* in its stream now, or an intake of another kind of event has come to the end of it.
LEMMA Settles ==
  ASSUME Types, ReceiverStep, NEW f \in Interactions, f \in settled' \/ Settling(f)'
  PROVE  f \in settled \/ Settling(f) \/ InStreamOrHandled(f)'
<1>0. f \in Events /\ f \notin Mentions /\ f \notin Pushes /\ f \notin Notifications
  BY StreamKinds DEF Events
<1> DEFINE Known == f \in settled \/ Settling(f) \/ InStreamOrHandled(f)'
<1>1. ASSUME UNCHANGED <<settled, taking, stage>>
      PROVE  Known
  BY <1>1 DEF Settling
<1>2. ASSUME NEW r \in Receivers, NEW e \in Events, Send(r, e)
      PROVE  Known
  <2>1. /\ settled' = settled /\ StreamOf(e) \in Streams
        /\ \A q \in Receivers, p \in Streams :
             /\ stage'[q][p] = IF q = r /\ p = StreamOf(e) THEN FirstStage(e) ELSE stage[q][p]
             /\ taking'[q][p] = IF q = r /\ p = StreamOf(e) THEN e ELSE taking[q][p]
    BY <1>2, StreamKinds DEF Send, Types, IntakesOK
  <2>2. e = f => FirstStage(e) # "settle"
    BY <1>0 DEF FirstStage
  <2> QED BY <2>1, <2>2 DEF Settling
<1>3. ASSUME NEW r \in Receivers, NEW s \in Streams, NEW g \in Stages, GoOn(r, s, g),
             taking[r][s] = f /\ g = "settle" => Known,
             settled' = settled \/ (settled' = settled \cup {taking[r][s]} /\ stage[r][s] = "settle")
      PROVE  Known
  <2>1. f \in settled' => Known
    BY <1>3 DEF Settling
  <2>2. ASSUME NEW q \in Receivers, NEW p \in Streams, taking'[q][p] = f, stage'[q][p] = "settle"
        PROVE  Known
    <3>1. CASE q = r /\ p = s
      BY <1>3, <2>2, <3>1, GoOnMoves DEF Types
    <3>2. CASE ~(q = r /\ p = s)
      BY <1>3, <2>2, <3>2, GoOnMoves DEF Types, Settling
    <3> QED BY <3>1, <3>2
  <2> HIDE DEF Known
  <2> QED BY <2>1, <2>2 DEF Settling
<1>4. ASSUME NEW r \in Receivers, NEW s \in Streams, IntakeStep(r, s)
      PROVE  Known
  <2>1. PICK e \in Events : e = taking[r][s] /\ StreamOf(e) = s
    <3>1. stage[r][s] # "none"
      BY <1>4 DEF IntakeStep, CheckLock, Accept, Enqueue, EnqueueElseBuffer, Settle, At
    <3> QED BY <3>1 DEF Types, IntakesOK, ReceiverInv
  <2>2. {"none", "enqueue", "settle"} \subseteq Stages
    BY DEF Stages
  <2> HIDE DEF Known
  <2>3. CASE (s = "ecr" /\ CheckLock(r)) \/ (s = "argocd" /\ Accept(r))
    <3>1. e # f
      BY <1>0, <2>1, <2>3, StreamKinds
    <3>2. /\ settled' = settled
          /\ \E g \in {"none", "enqueue", "settle"} : GoOn(r, s, g)
      BY <2>3 DEF CheckLock, Accept, senders
    <3> QED BY <1>3, <2>1, <2>2, <3>1, <3>2
  <2>4. CASE Enqueue(r, s)
    <3>1. InStreamOrHandled(e)'
      BY <2>1, <2>4, XAddKeeps DEF Enqueue, Enqueued, workers
    <3>2. e = f => Known
      BY <3>1 DEF Known
    <3>3. settled' = settled /\ GoOn(r, s, AfterEnqueue(e)) /\ AfterEnqueue(e) \in Stages
      BY <2>1, <2>4 DEF Enqueue, senders, AfterEnqueue, Stages
    <3> QED BY <1>3, <2>1, <3>2, <3>3
  <2>5. CASE EnqueueElseBuffer(r, s)
    <3>1. settled' = settled /\ GoOn(r, s, AfterBuffer(e)) /\ AfterBuffer(e) \in Stages
      BY <2>1, <2>5 DEF EnqueueElseBuffer, senders, AfterBuffer, Stages
    <3>2. e = f => AfterBuffer(e) # "settle"
      BY DEF AfterBuffer
    <3> QED BY <1>3, <2>1, <3>1, <3>2
  <2>6. CASE Settle(r, s)
    <3>1. stage[r][s] = "settle" /\ (settled' = settled \/ settled' = settled \cup {e})
      BY <2>1, <2>6 DEF Settle, At
    <3>2. \E g \in {"none", "enqueue"} : GoOn(r, s, g)
      BY <2>6 DEF Settle
    <3> QED BY <1>3, <2>1, <2>2, <3>1, <3>2
  <2> QED BY <1>4, <2>3, <2>4, <2>5, <2>6, Zenon DEF IntakeStep
<1>5. ASSUME NEW r \in Receivers, ReceiverDies(r)
      PROVE  Known
  <2>1. /\ settled' = settled
        /\ \A q \in Receivers, p \in Streams : q # r => taking'[q][p] = taking[q][p] /\ stage'[q][p] = stage[q][p]
        /\ \A p \in Streams : stage'[r][p] = "none"
    BY <1>5 DEF Types, IntakesOK, ReceiverDies, senders
  <2> QED BY <2>1 DEF Settling
<1>6. ASSUME NEW r \in Receivers, NEW s \in Streams, DrainStep(r, s)
      PROVE  Known
  BY <1>1, <1>6 DEF DrainStep, DrainTake, DrainOne, senders
<1> HIDE DEF Known
<1> QED BY <1>2, <1>4, <1>5, <1>6 DEF ReceiverStep, Known

\* An interaction is written before Slack is told, whatever an intake does.
LEMMA InteractionStep ==
  ASSUME Types, MessageInv, WorkerInv, InteractionInv, ReceiverStep \/ WorkerStep
  PROVE  InteractionInv'
<1>1. ASSUME NEW f \in Interactions, f \in settled' \/ Settling(f)'
      PROVE  InStreamOrHandled(f)'
  <2>1. f \in Events
    BY DEF Events
  <2>2. WorkerStep => f \in settled \/ Settling(f)
    BY <1>1, WorkerFrame DEF senders, receivers, Settling
  <2> QED BY <1>1, <2>1, <2>2, Settles, ReceiverKeeps, WorkerKeeps DEF InteractionInv
<1> QED BY <1>1 DEF InteractionInv

-----------------------------------------------------------------------------
(* While receivers live, an event is on its way.                           *)

\* A buffer keeps what it has when an event is added to it.
LEMMA BufferAdds ==
  ASSUME BuffersOK, NEW r \in Receivers, NEW s \in Streams, NEW e \in Events,
         buffer' = [buffer EXCEPT ![r][s] = Append(buffer[r][s], e)], UNCHANGED draining
  PROVE  Buffered(e)' /\ \A f : Buffered(f) => Buffered(f)'
<1>1. buffer[r][s] \in Seq(Events) /\ Len(buffer[r][s]) \in Nat
  BY DEF BuffersOK
<1> DEFINE n == Len(buffer[r][s])
<1>2. /\ Len(Append(buffer[r][s], e)) = n + 1 /\ Append(buffer[r][s], e)[n + 1] = e
      /\ \A i \in 1 .. n : Append(buffer[r][s], e)[i] = buffer[r][s][i]
  BY <1>1
<1>3. /\ buffer'[r][s] = Append(buffer[r][s], e)
      /\ \A q \in Receivers, p \in Streams : ~(q = r /\ p = s) => buffer'[q][p] = buffer[q][p]
  BY DEF BuffersOK
<1>4. /\ Len(buffer'[r][s]) = n + 1 /\ buffer'[r][s][n + 1] = e
      /\ \A i \in 1 .. n : buffer'[r][s][i] = buffer[r][s][i]
  BY <1>2, <1>3
<1>5. Buffered(e)'
  <2>1. n + 1 \in 1 .. (n + 1)
    BY <1>1
  <2> QED BY <1>4, <2>1 DEF Buffered
<1>6. ASSUME NEW f, Buffered(f)
      PROVE  Buffered(f)'
  <2>1. PICK q \in Receivers, p \in Streams :
          draining[q][p] = f \/ \E i \in 1 .. Len(buffer[q][p]) : buffer[q][p][i] = f
    BY <1>6 DEF Buffered
  <2>2. CASE draining[q][p] = f
    BY <2>2 DEF Buffered
  <2>3. CASE ~(q = r /\ p = s)
    BY <1>3, <2>1, <2>3 DEF Buffered
  <2>4. CASE q = r /\ p = s /\ draining[q][p] # f
    <3>1. PICK i \in 1 .. n : buffer[r][s][i] = f
      BY <2>1, <2>4
    <3>2. i \in 1 .. (n + 1) /\ buffer'[r][s][i] = f
      BY <1>1, <1>4, <3>1
    <3> QED BY <1>4, <3>2 DEF Buffered
  <2> QED BY <2>2, <2>3, <2>4
<1> QED BY <1>5, <1>6

\* The drainer takes the first event over.
LEMMA DrainTakes ==
  ASSUME BuffersOK, NEW r \in Receivers, NEW s \in Streams, DrainTake(r, s)
  PROVE  \A f \in Events : Buffered(f) => Buffered(f)'
<1>1. buffer[r][s] \in Seq(Events) /\ buffer[r][s] # <<>> /\ Len(buffer[r][s]) \in Nat
  BY DEF BuffersOK, DrainTake
<1> DEFINE n == Len(buffer[r][s])
<1>2. /\ n >= 1 /\ Head(buffer[r][s]) = buffer[r][s][1] /\ Len(Tail(buffer[r][s])) = n - 1
      /\ \A i \in 1 .. (n - 1) : Tail(buffer[r][s])[i] = buffer[r][s][i + 1]
  BY <1>1
<1>3. /\ buffer'[r][s] = Tail(buffer[r][s]) /\ draining'[r][s] = buffer[r][s][1]
      /\ \A q \in Receivers, p \in Streams : ~(q = r /\ p = s) =>
           buffer'[q][p] = buffer[q][p] /\ draining'[q][p] = draining[q][p]
  BY <1>2 DEF BuffersOK, DrainTake
<1>4. ASSUME NEW f \in Events, Buffered(f)
      PROVE  Buffered(f)'
  <2>1. PICK q \in Receivers, p \in Streams :
          draining[q][p] = f \/ \E i \in 1 .. Len(buffer[q][p]) : buffer[q][p][i] = f
    BY <1>4 DEF Buffered
  <2>2. CASE ~(q = r /\ p = s)
    BY <1>3, <2>1, <2>2 DEF Buffered
  <2>3. CASE q = r /\ p = s
    <3>1. draining[q][p] # f
      BY <2>3, StreamKinds DEF DrainTake
    <3>2. PICK i \in 1 .. n : buffer[r][s][i] = f
      BY <2>1, <2>3, <3>1
    <3>3. CASE i = 1
      BY <1>3, <3>2, <3>3 DEF Buffered
    <3>4. CASE i # 1
      <4>1. i - 1 \in 1 .. (n - 1) /\ (i - 1) + 1 = i
        BY <1>1, <3>2, <3>4
      <4>2. i - 1 \in 1 .. Len(buffer'[r][s]) /\ buffer'[r][s][i - 1] = f
        BY <1>2, <1>3, <3>2, <4>1
      <4> QED BY <4>2 DEF Buffered
    <3> QED BY <3>3, <3>4
  <2> QED BY <2>2, <2>3
<1> QED BY <1>4

\* What an intake's step, on the event e, does to what it makes of it.
IntakeMove(r, s, e, g) ==
  /\ GoOn(r, s, g)
  /\ \A f : Buffered(f) => Buffered(f)'
  /\ skipped \subseteq skipped' /\ forgone \subseteq forgone'
  /\ settled' = settled \/ (settled' = settled \cup {e} /\ stage[r][s] = "settle")
  /\ seen' = seen \/ (seen' = seen \cup {e})
  /\ stage[r][s] = "enqueue" => OnItsWay(e)'
  /\ settled' # settled /\ e \in Mentions => g = "enqueue"
  /\ e \in seen' => e \in seen \/ OnItsWay(e)'
  /\ g = "settle" => e \in seen \/ OnItsWay(e)'

\* A step of an intake, as what it does to the one event it has.
LEMMA IntakeMoves ==
  ASSUME Types, NEW r \in Receivers, NEW s \in Streams, IntakeStep(r, s)
  PROVE  \E e \in Events, g \in Stages : e = taking[r][s] /\ IntakeMove(r, s, e, g)
<1>1. PICK e \in Events : e = taking[r][s] /\ StreamOf(e) = s
  <2>1. stage[r][s] # "none"
    BY DEF IntakeStep, CheckLock, Accept, Enqueue, EnqueueElseBuffer, Settle, At
  <2> QED BY <2>1 DEF Types, IntakesOK, ReceiverInv
<1> DEFINE Moves(g) == g \in Stages /\ IntakeMove(r, s, e, g)
<1>2. "none" \in Stages /\ "enqueue" \in Stages /\ "settle" \in Stages
  BY DEF Stages
<1>3. ASSUME NEW g \in Stages, GoOn(r, s, g), g = "enqueue"
      PROVE  Writing(e)'
  BY <1>1, <1>3, GoOnMoves DEF Writing, Types
<1>4. ASSUME UNCHANGED <<buffer, draining>>
      PROVE  \A f : Buffered(f) => Buffered(f)'
  BY <1>4 DEF Buffered
<1>5. CASE s = "ecr" /\ CheckLock(r)
  <2>1. PICK g \in {"enqueue", "settle"} :
          GoOn(r, s, g) /\ (g = "settle" => e \in skipped' \cup forgone')
    BY <1>1, <1>5 DEF CheckLock
  <2>2. stage[r][s] = "check" /\ settled' = settled /\ seen' = seen
        /\ skipped \subseteq skipped' /\ forgone \subseteq forgone' /\ UNCHANGED <<buffer, draining>>
    BY <1>5 DEF CheckLock, At, senders, streams, dropped
  <2>3. IntakeMove(r, s, e, g)
    BY <1>4, <2>1, <2>2 DEF IntakeMove, OnItsWay
  <2> QED BY <1>1, <1>2, <2>1, <2>3
<1>6. CASE s = "argocd" /\ Accept(r)
  <2>1. PICK g \in {"none", "enqueue", "settle"} :
          /\ GoOn(r, s, g)
          /\ seen' = seen \/ (seen' = seen \cup {e} /\ g \in {"none", "enqueue"})
          /\ g = "settle" => e \in seen
    BY <1>1, <1>6 DEF Accept
  <2>2. stage[r][s] = "check" /\ settled' = settled /\ skipped' = skipped
        /\ forgone' = (IF e \in seen' \ seen /\ stage'[r][s] = "none" THEN forgone \cup {e} ELSE forgone)
        /\ UNCHANGED <<buffer, draining>>
    BY <1>1, <1>6 DEF Accept, At, senders
  <2>3. stage'[r][s] = g
    BY <1>2, <2>1, GoOnMoves DEF Types
  <2>4. e \in seen' => e \in seen \/ OnItsWay(e)'
    BY <1>2, <1>3, <2>1, <2>2, <2>3 DEF OnItsWay
  <2>5. IntakeMove(r, s, e, g)
    BY <1>4, <2>1, <2>2, <2>4 DEF IntakeMove
  <2> QED BY <1>1, <1>2, <2>1, <2>5
<1>7. CASE Enqueue(r, s)
  <2>1. InStreamOrHandled(e)'
    BY <1>1, <1>7, XAddKeeps DEF Enqueue, Enqueued, workers
  <2>2. /\ GoOn(r, s, AfterEnqueue(e)) /\ AfterEnqueue(e) \in Stages
        /\ settled' = settled /\ UNCHANGED <<buffer, draining, skipped, forgone>>
    BY <1>1, <1>7 DEF Enqueue, AfterEnqueue, Stages, senders, dropped
  <2>3. seen' = seen
    BY <1>1, <1>7, XAddIs DEF Enqueue, Enqueued
  <2>4. IntakeMove(r, s, e, AfterEnqueue(e))
    BY <1>4, <2>1, <2>2, <2>3 DEF IntakeMove, OnItsWay
  <2> QED BY <1>1, <2>2, <2>4
<1>8. CASE EnqueueElseBuffer(r, s)
  <2>1. \/ buffer' = [buffer EXCEPT ![r][s] = Append(buffer[r][s], e)] /\ UNCHANGED forgone
        \/ forgone' = forgone \cup {e} /\ UNCHANGED buffer
    BY <1>1, <1>8 DEF EnqueueElseBuffer
  <2>2. /\ GoOn(r, s, AfterBuffer(e)) /\ AfterBuffer(e) \in Stages
        /\ settled' = settled /\ UNCHANGED <<draining, skipped>>
    BY <1>1, <1>8 DEF EnqueueElseBuffer, AfterBuffer, Stages, senders
  <2>3. seen' = seen
    BY <1>1, <1>8, XAddIs DEF EnqueueElseBuffer, EnqueueFails, streams
  <2>4. OnItsWay(e)' /\ (\A f : Buffered(f) => Buffered(f)') /\ forgone \subseteq forgone'
    BY <1>4, <2>1, <2>2, BufferAdds DEF OnItsWay, Types
  <2>5. IntakeMove(r, s, e, AfterBuffer(e))
    BY <2>2, <2>3, <2>4 DEF IntakeMove
  <2> QED BY <1>1, <2>2, <2>5
<1>9. CASE Settle(r, s)
  <2> DEFINE g == IF e \in Mentions THEN "enqueue" ELSE "none"
  <2>1. /\ stage[r][s] = "settle" /\ (settled' = settled \/ settled' = settled \cup {e})
        /\ GoOn(r, s, g) /\ UNCHANGED <<buffer, draining, skipped, forgone, seen>>
    BY <1>1, <1>9 DEF Settle, At, streams, dropped
  <2>2. IntakeMove(r, s, e, g)
    BY <1>4, <2>1 DEF IntakeMove
  <2> QED BY <1>1, <1>2, <2>2
<1> QED BY <1>5, <1>6, <1>7, <1>8, <1>9, Zenon DEF IntakeStep

Told(e) == e \in settled \cup seen \/ (Settling(e) /\ e \notin Mentions)

\* What is told to be done is on its way after an intake's step.
LEMMA IntakeProgress ==
  ASSUME Types, NEW r \in Receivers, NEW s \in Streams, IntakeStep(r, s),
         \A f \in Events : Told(f) => OnItsWay(f)
  PROVE  \A f \in Events : Told(f)' => OnItsWay(f)'
<1>1. PICK e \in Events, g \in Stages : e = taking[r][s] /\ IntakeMove(r, s, e, g)
  BY IntakeMoves
<1>2. \A q \in Receivers, p \in Streams :
        /\ stage'[q][p] = IF q = r /\ p = s THEN g ELSE stage[q][p]
        /\ taking'[q][p] = IF q = r /\ p = s /\ g = "none" THEN NoEvent ELSE taking[q][p]
  BY <1>1, GoOnMoves DEF IntakeMove, Types
<1>3. ASSUME NEW f \in Events, OnItsWay(f)
      PROVE  OnItsWay(f)'
  <2>1. InStreamOrHandled(f) => InStreamOrHandled(f)'
    BY ReceiverKeeps DEF ReceiverStep
  <2>2. Writing(f) => Writing(f)' \/ OnItsWay(f)'
    <3>1. ASSUME NEW q \in Receivers, NEW p \in Streams, taking[q][p] = f, stage[q][p] = "enqueue"
          PROVE  Writing(f)' \/ OnItsWay(f)'
      <4>1. CASE q = r /\ p = s
        BY <1>1, <3>1, <4>1 DEF IntakeMove
      <4>2. CASE ~(q = r /\ p = s)
        BY <1>2, <3>1, <4>2 DEF Writing
      <4> QED BY <4>1, <4>2
    <3> QED BY <3>1 DEF Writing
  <2> QED BY <1>1, <1>3, <2>1, <2>2 DEF OnItsWay, IntakeMove
<1>4. ASSUME NEW f \in Events, Told(f)'
      PROVE  OnItsWay(f)'
  <2>1. CASE Told(f)
    BY <1>3, <2>1
  <2>2. CASE f \in settled' /\ f \notin settled
    <3>1. f = e /\ stage[r][s] = "settle" /\ settled' # settled
      BY <1>1, <2>2 DEF IntakeMove
    <3>2. CASE e \in Mentions
      <4>1. g = "enqueue"
        BY <1>1, <3>1, <3>2 DEF IntakeMove
      <4> QED BY <1>1, <1>2, <3>1, <4>1 DEF OnItsWay, Writing
    <3>3. CASE e \notin Mentions
      BY <1>1, <2>1, <3>1, <3>3 DEF Told, Settling
    <3> QED BY <3>2, <3>3
  <2>3. CASE f \in seen' /\ f \notin seen
    BY <1>1, <2>3 DEF IntakeMove
  <2>4. CASE Settling(f)' /\ f \notin Mentions
    <3>1. PICK q \in Receivers, p \in Streams : taking'[q][p] = f /\ stage'[q][p] = "settle"
      BY <2>4 DEF Settling
    <3>2. CASE q = r /\ p = s
      <4>1. g = "settle" /\ f = e
        BY <1>1, <1>2, <3>1, <3>2
      <4> QED BY <1>1, <2>1, <4>1 DEF IntakeMove, Told
    <3>3. CASE ~(q = r /\ p = s)
      BY <1>2, <2>1, <2>4, <3>1, <3>3 DEF Told, Settling
    <3> QED BY <3>2, <3>3
  <2> QED BY <1>4, <2>1, <2>2, <2>3, <2>4 DEF Told
<1> QED BY <1>4

\* What a receiver that does not die, or a worker, does to what is on its way.
LEMMA ProgressStep ==
  ASSUME Types, MessageInv, WorkerInv, ProgressInv, ReceiverStep \/ WorkerStep
  PROVE  ProgressInv'
<1> SUFFICES ASSUME lostIntakes' = 0
             PROVE  \A f \in Events : Told(f)' => OnItsWay(f)'
  BY DEF ProgressInv, Told
<1>1. ASSUME lostIntakes = 0
      PROVE  \A f \in Events : Told(f) => OnItsWay(f)
  BY <1>1 DEF ProgressInv, Told
<1>2. CASE WorkerStep
  <2>1. UNCHANGED <<settled, taking, stage, buffer, draining, seen, skipped, forgone, lostIntakes>>
    BY <1>2, WorkerFrame DEF senders, receivers, dropped
  <2>2. \A f : /\ Told(f)' <=> Told(f)
               /\ Buffered(f)' <=> Buffered(f)
               /\ Writing(f)' <=> Writing(f)
    BY <2>1 DEF Told, Settling, Buffered, Writing
  <2>3. \A f \in Events : OnItsWay(f) => OnItsWay(f)'
    BY <1>2, <2>1, <2>2, WorkerKeeps DEF OnItsWay
  <2> QED BY <1>1, <2>1, <2>2, <2>3
<1>3. ASSUME NEW r \in Receivers, NEW s \in Streams, IntakeStep(r, s)
      PROVE  \A f \in Events : Told(f)' => OnItsWay(f)'
  <2>1. lostIntakes = 0
    BY <1>3 DEF IntakeStep, CheckLock, Accept, Enqueue, EnqueueElseBuffer, Settle, crashes
  <2> QED BY <1>1, <1>3, <2>1, IntakeProgress
<1>4. ASSUME NEW r \in Receivers, NEW s \in Streams, DrainStep(r, s)
      PROVE  \A f \in Events : Told(f)' => OnItsWay(f)'
  <2>1. UNCHANGED <<settled, taking, stage, skipped, forgone, lostIntakes>>
    BY <1>4 DEF DrainStep, DrainTake, DrainOne, crashes, senders, dropped
  <2>2. seen' = seen
    <3>1. draining[r][s] \in Events \cup {NoEvent}
      BY DEF Types, BuffersOK
    <3> QED BY <1>4, <3>1, XAddIs DEF DrainStep, DrainTake, DrainOne, Enqueued, EnqueueFails, streams
  <2>3. \A f : (Told(f)' <=> Told(f)) /\ (Writing(f)' <=> Writing(f))
    BY <2>1, <2>2 DEF Told, Settling, Writing
  <2>4. ASSUME NEW f \in Events, Buffered(f)
        PROVE  Buffered(f)' \/ InStreamOrHandled(f)'
    <3>1. CASE DrainTake(r, s)
      BY <2>4, <3>1, DrainTakes DEF Types
    <3>2. CASE DrainOne(r, s) /\ UNCHANGED draining
      BY <2>4, <3>2 DEF DrainOne, Buffered
    <3>3. CASE DrainOne(r, s) /\ draining' # draining
      <4>1. PICK e \in Events : e = draining[r][s] /\ XAdd(e)
        BY <3>3 DEF DrainOne, Enqueued, Types, BuffersOK
      <4>2. InStreamOrHandled(e)'
        BY <3>3, <4>1, XAddKeeps DEF DrainOne, workers
      <4>3. /\ UNCHANGED buffer
            /\ \A q \in Receivers, p \in Streams :
                 ~(q = r /\ p = s) => draining'[q][p] = draining[q][p]
        BY <3>3 DEF DrainOne, Types, BuffersOK
      <4>4. CASE f = e
        BY <4>2, <4>4
      <4>5. CASE f # e
        <5>1. PICK q \in Receivers, p \in Streams :
                draining[q][p] = f \/ \E i \in 1 .. Len(buffer[q][p]) : buffer[q][p][i] = f
          BY <2>4 DEF Buffered
        <5>2. draining[q][p] = f => draining'[q][p] = f
          BY <4>1, <4>3, <4>5
        <5> QED BY <4>3, <5>1, <5>2 DEF Buffered
      <4> QED BY <4>4, <4>5
    <3> QED BY <1>4, <3>1, <3>2, <3>3 DEF DrainStep
  <2>5. \A f \in Events : OnItsWay(f) => OnItsWay(f)'
    <3>1. \A f \in Events : InStreamOrHandled(f) => InStreamOrHandled(f)'
      BY <1>4, ReceiverKeeps DEF ReceiverStep
    <3> QED BY <2>1, <2>3, <2>4, <3>1 DEF OnItsWay
  <2> QED BY <1>1, <2>1, <2>3, <2>5
<1>5. ASSUME NEW r \in Receivers, NEW e \in Events, Send(r, e)
      PROVE  \A f \in Events : Told(f)' => OnItsWay(f)'
  <2>1. UNCHANGED <<settled, seen, buffer, draining, skipped, forgone, lostIntakes>>
    BY <1>5 DEF Send, streams, dropped, crashes
  <2>2. /\ StreamOf(e) \in Streams /\ stage[r][StreamOf(e)] = "none"
        /\ \A q \in Receivers, p \in Streams :
             /\ stage'[q][p] = IF q = r /\ p = StreamOf(e) THEN FirstStage(e) ELSE stage[q][p]
             /\ taking'[q][p] = IF q = r /\ p = StreamOf(e) THEN e ELSE taking[q][p]
    BY <1>5, StreamKinds DEF Send, Types, IntakesOK
  <2>3. e \notin Mentions => FirstStage(e) # "settle"
    BY DEF FirstStage
  <2>4. \A f \in Events : Told(f)' => Told(f)
    BY <2>1, <2>2, <2>3 DEF Told, Settling
  <2>5. \A f \in Events : OnItsWay(f) => OnItsWay(f)'
    <3>1. \A f \in Events : InStreamOrHandled(f) => InStreamOrHandled(f)'
      BY <1>5, ReceiverKeeps DEF ReceiverStep
    <3>2. \A f : (Buffered(f)' <=> Buffered(f)) /\ (Writing(f) => Writing(f)')
      BY <2>1, <2>2 DEF Buffered, Writing
    <3> QED BY <2>1, <3>1, <3>2 DEF OnItsWay
  <2> QED BY <1>1, <2>1, <2>4, <2>5
<1>6. ASSUME NEW r \in Receivers, ReceiverDies(r)
      PROVE  FALSE
  BY <1>6 DEF ReceiverDies, Types, CountsOK
<1> QED BY <1>2, <1>3, <1>4, <1>5, <1>6 DEF ReceiverStep

-----------------------------------------------------------------------------
(* While all is well, an event is handled as often as it was admitted.     *)

\* Sets that shrink, grow by one, or lose one.
LEMMA Counts ==
  ASSUME NEW S, NEW T, NEW x, IsFiniteSet(S)
  PROVE  /\ Cardinality(S) \in Nat
         /\ T \subseteq S => /\ IsFiniteSet(T) /\ Cardinality(T) \in Nat
                             /\ Cardinality(T) <= Cardinality(S)
         /\ T \subseteq S \cup {x} => /\ IsFiniteSet(T) /\ Cardinality(T) \in Nat
                                      /\ Cardinality(T) <= Cardinality(S) + 1
         /\ T \subseteq S \ {x} /\ x \in S => /\ IsFiniteSet(T) /\ Cardinality(T) \in Nat
                                              /\ Cardinality(T) <= Cardinality(S) - 1
<1>1. Cardinality(S) \in Nat
  BY FS_CardinalityType
<1>2. ASSUME NEW U, IsFiniteSet(U), T \subseteq U
      PROVE  IsFiniteSet(T) /\ Cardinality(T) \in Nat /\ Cardinality(U) \in Nat
             /\ Cardinality(T) <= Cardinality(U)
  BY <1>2, FS_Subset, FS_CardinalityType
<1>3. /\ IsFiniteSet(S \cup {x})
      /\ Cardinality(S \cup {x}) = Cardinality(S) \/ Cardinality(S \cup {x}) = Cardinality(S) + 1
  BY FS_AddElement
<1>4. /\ IsFiniteSet(S \ {x})
      /\ x \in S => Cardinality(S \ {x}) = Cardinality(S) - 1
  BY FS_RemoveElement
<1>5. T \subseteq S \cup {x} => /\ IsFiniteSet(T) /\ Cardinality(T) \in Nat
                                /\ Cardinality(T) <= Cardinality(S) + 1
  BY <1>1, <1>2, <1>3
<1>6. T \subseteq S \ {x} /\ x \in S => /\ IsFiniteSet(T) /\ Cardinality(T) \in Nat
                                        /\ Cardinality(T) <= Cardinality(S) - 1
  BY <1>1, <1>2, <1>4
<1> QED BY <1>1, <1>2, <1>5, <1>6

Counted(e) ==
  /\ IsFiniteSet(ToHandle(e)) /\ IsFiniteSet(ToWrite(e))
  /\ handled[e] + Cardinality(ToHandle(e)) + Cardinality(ToWrite(e)) <= Admitted(e)

Apart ==
  \A w \in Workers :
    /\ InHand(w) \cap unread = {} /\ batch[w] \cap slots[w] = {}
    /\ \A v \in Workers : v # w => InHand(w) \cap InHand(v) = {}

BuffersEmpty == \A r \in Receivers, s \in Streams : buffer[r][s] = <<>> /\ draining[r][s] = NoEvent

\* OnceInv, split by event.
LEMMA OnceParts ==
  OnceInv <=> /\ idle \subseteq lapsed
              /\ Healthy => BuffersEmpty /\ Apart /\ \A e \in Events : Counted(e)
BY DEF OnceInv, BuffersEmpty, Apart, Counted

\* What may be handled and what was handled are numbers.
LEMMA AdmittedIsNumber == ASSUME Types, NEW e \in Events PROVE Admitted(e) \in Nat /\ handled[e] \in Nat
BY DEF Types, SendersOK, LoopsOK, Admitted

\* The account of an event stays balanced: nothing grows; something is admitted to be
\* written; what was to be written is to be handled; what was to be handled is.
LEMMA Balance ==
  ASSUME Types, Types', NEW e \in Events, NEW x, Counted(e),
         \/ /\ ToHandle(e)' \subseteq ToHandle(e) /\ ToWrite(e)' \subseteq ToWrite(e)
            /\ handled'[e] = handled[e] /\ Admitted(e)' = Admitted(e)
         \/ /\ ToHandle(e)' \subseteq ToHandle(e) /\ ToWrite(e)' \subseteq ToWrite(e) \cup {x}
            /\ handled'[e] = handled[e] /\ Admitted(e)' = Admitted(e) + 1
         \/ /\ ToWrite(e)' \subseteq ToWrite(e) \ {x} /\ x \in ToWrite(e)
            /\ \E y : ToHandle(e)' \subseteq ToHandle(e) \cup {y}
            /\ handled'[e] = handled[e] /\ Admitted(e)' = Admitted(e)
         \/ /\ ToHandle(e)' \subseteq ToHandle(e) \ {x} /\ x \in ToHandle(e)
            /\ ToWrite(e)' \subseteq ToWrite(e)
            /\ handled'[e] = handled[e] + 1 /\ Admitted(e)' = Admitted(e)
  PROVE  Counted(e)'
<1>1. Admitted(e) \in Nat /\ handled[e] \in Nat /\ Admitted(e)' \in Nat /\ handled'[e] \in Nat
  <2>1. Admitted(e)' \in Nat
    BY DEF Types, SendersOK, Admitted
  <2> QED BY <2>1, AdmittedIsNumber DEF Types, LoopsOK
<1>2. IsFiniteSet(ToHandle(e)) /\ IsFiniteSet(ToWrite(e))
      /\ handled[e] + Cardinality(ToHandle(e)) + Cardinality(ToWrite(e)) <= Admitted(e)
  BY DEF Counted
<1> DEFINE H == ToHandle(e)
           W == ToWrite(e)
           H2 == ToHandle(e)'
           W2 == ToWrite(e)'
<1> HIDE DEF H, W, H2, W2
<1>3. IsFiniteSet(H2) /\ IsFiniteSet(W2)
      /\ handled'[e] + Cardinality(H2) + Cardinality(W2) <= Admitted(e)'
  <2>0. /\ IsFiniteSet(H) /\ IsFiniteSet(W) /\ Cardinality(H) \in Nat /\ Cardinality(W) \in Nat
        /\ handled[e] + Cardinality(H) + Cardinality(W) <= Admitted(e)
    BY <1>2, Counts DEF H, W
  <2>1. CASE /\ H2 \subseteq H /\ W2 \subseteq W
             /\ handled'[e] = handled[e] /\ Admitted(e)' = Admitted(e)
    <3>1. IsFiniteSet(H2) /\ Cardinality(H2) \in Nat /\ Cardinality(H2) <= Cardinality(H)
      BY ONLY <2>1, <2>0, Counts
    <3>2. IsFiniteSet(W2) /\ Cardinality(W2) \in Nat /\ Cardinality(W2) <= Cardinality(W)
      BY ONLY <2>1, <2>0, Counts
    <3> QED BY <1>1, <2>0, <2>1, <3>1, <3>2
  <2>2. CASE /\ H2 \subseteq H /\ W2 \subseteq W \cup {x}
             /\ handled'[e] = handled[e] /\ Admitted(e)' = Admitted(e) + 1
    <3>1. IsFiniteSet(H2) /\ Cardinality(H2) \in Nat /\ Cardinality(H2) <= Cardinality(H)
      BY ONLY <2>2, <2>0, Counts
    <3>2. IsFiniteSet(W2) /\ Cardinality(W2) \in Nat /\ Cardinality(W2) <= Cardinality(W) + 1
      BY ONLY <2>2, <2>0, Counts
    <3> QED BY <1>1, <2>0, <2>2, <3>1, <3>2
  <2>3. CASE /\ (\E y : H2 \subseteq H \cup {y}) /\ W2 \subseteq W \ {x} /\ x \in W
             /\ handled'[e] = handled[e] /\ Admitted(e)' = Admitted(e)
    <3>1. IsFiniteSet(H2) /\ Cardinality(H2) \in Nat /\ Cardinality(H2) <= Cardinality(H) + 1
      BY ONLY <2>3, <2>0, Counts
    <3>2. IsFiniteSet(W2) /\ Cardinality(W2) \in Nat /\ Cardinality(W2) <= Cardinality(W) - 1
      BY ONLY <2>3, <2>0, Counts
    <3> QED BY <1>1, <2>0, <2>3, <3>1, <3>2
  <2>4. CASE /\ H2 \subseteq H \ {x} /\ x \in H /\ W2 \subseteq W
             /\ handled'[e] = handled[e] + 1 /\ Admitted(e)' = Admitted(e)
    <3>1. IsFiniteSet(H2) /\ Cardinality(H2) \in Nat /\ Cardinality(H2) <= Cardinality(H) - 1
      BY ONLY <2>4, <2>0, Counts
    <3>2. IsFiniteSet(W2) /\ Cardinality(W2) \in Nat /\ Cardinality(W2) <= Cardinality(W)
      BY ONLY <2>4, <2>0, Counts
    <3> QED BY <1>1, <2>0, <2>4, <3>1, <3>2
  <2> QED BY <2>1, <2>2, <2>3, <2>4 DEF H, W, H2, W2
<1> QED BY <1>3 DEF Counted, H2, W2

\* Nothing that went wrong is undone: where all is well it was before, and no call failed.
LEMMA WellBefore ==
  ASSUME Types, ReceiverStep \/ WorkerStep, Healthy'
  PROVE  Healthy /\ ~CallFails /\ \A w \in Workers : ~WorkerDies(w)
<1>1. ~CallFails /\ \A w \in Workers : ~WorkerDies(w)
  BY DEF CallFails, WorkerDies, Healthy, Types, CountsOK
<1>2. \A m : ~BecomeIdle(m)
  BY DEF BecomeIdle, Healthy
<1>3. ASSUME NEW m, XAck(m) \/ UNCHANGED streams
      PROVE  UNCHANGED lapsed
  BY <1>3 DEF XAck, streams
<1>4. UNCHANGED lapsed
  <2>1. ReceiverStep => UNCHANGED lapsed
    BY ReceiverStreams, XAddIs
  <2>2. ASSUME NEW w \in Workers, NEW m,
               \/ StartReclaim(w) \/ ReclaimStuck(w) \/ ReadStream(w) \/ Spawn(w, m)
               \/ HandleHead(w, m) \/ AckHead(w, m) \/ HandleSlot(w, m) \/ AckSlot(w, m)
        PROVE  UNCHANGED lapsed
    BY <1>3, <2>2 DEF StartReclaim, ReclaimStuck, ReadStream, Spawn, HandleHead, AckHead, HandleSlot,
       AckSlot, streams
  <2> QED BY <1>1, <1>2, <2>1, <2>2 DEF WorkerStep, LoopStep, SlotStep
<1>5. UNCHANGED lostWorkers
  <2>1. ReceiverStep => UNCHANGED lostWorkers
    BY ReceiverFrame
  <2>2. ASSUME NEW w \in Workers, NEW m,
               \/ StartReclaim(w) \/ ReclaimStuck(w) \/ ReadStream(w) \/ Spawn(w, m)
               \/ HandleHead(w, m) \/ AckHead(w, m) \/ HandleSlot(w, m) \/ AckSlot(w, m)
        PROVE  UNCHANGED lostWorkers
    BY <2>2 DEF StartReclaim, ReclaimStuck, ReadStream, Spawn, HandleHead, AckHead, HandleSlot,
       AckSlot, crashes
  <2> QED BY <1>1, <1>2, <2>1, <2>2 DEF WorkerStep, LoopStep, SlotStep
<1>6. UNCHANGED failures
  <2>1. ASSUME NEW r \in Receivers, NEW e \in Events, Send(r, e)
        PROVE  UNCHANGED failures
    BY <2>1 DEF Send
  <2>2. ASSUME NEW r \in Receivers, NEW s \in Streams, IntakeStep(r, s) \/ DrainStep(r, s)
        PROVE  UNCHANGED failures
    BY <1>1, <2>2 DEF IntakeStep, CheckLock, Accept, Enqueue, EnqueueElseBuffer, Settle, DrainStep,
       DrainTake, DrainOne, Enqueued, EnqueueFails, CallWorks
  <2>3. ASSUME NEW r \in Receivers, ReceiverDies(r)
        PROVE  UNCHANGED failures
    BY <2>3 DEF ReceiverDies
  <2>4. ASSUME NEW w \in Workers, NEW m,
               \/ StartReclaim(w) \/ ReclaimStuck(w) \/ ReadStream(w) \/ Spawn(w, m)
               \/ HandleHead(w, m) \/ AckHead(w, m) \/ HandleSlot(w, m) \/ AckSlot(w, m)
        PROVE  UNCHANGED failures
    BY <1>1, <2>4 DEF StartReclaim, ReclaimStuck, ReadStream, Spawn, HandleHead, AckHead, HandleSlot,
       AckSlot, CallWorks
  <2> QED BY <1>1, <1>2, <2>1, <2>2, <2>3, <2>4 DEF ReceiverStep, WorkerStep, LoopStep, SlotStep
<1> QED BY <1>1, <1>4, <1>5, <1>6 DEF Healthy

\* What was idle has lapsed.
LEMMA IdleStep ==
  ASSUME Types, idle \subseteq lapsed, ReceiverStep \/ WorkerStep
  PROVE  idle' \subseteq lapsed'
<1>1. ReceiverStep => idle' \subseteq lapsed'
  BY ReceiverStreams, XAddIs
<1>2. ASSUME NEW m, XAck(m) \/ UNCHANGED streams
      PROVE  idle' \subseteq lapsed'
  BY <1>2 DEF XAck, streams
<1>3. ASSUME NEW w \in Workers, NEW m,
             \/ StartReclaim(w) \/ ReclaimStuck(w) \/ ReadStream(w) \/ Spawn(w, m) \/ WorkerDies(w)
             \/ HandleHead(w, m) \/ AckHead(w, m) \/ HandleSlot(w, m) \/ AckSlot(w, m)
      PROVE  idle' \subseteq lapsed'
  BY <1>2, <1>3 DEF StartReclaim, ReclaimStuck, ReadStream, Spawn, WorkerDies, HandleHead, AckHead,
     HandleSlot, AckSlot, streams
<1>4. ASSUME NEW m, BecomeIdle(m)
      PROVE  idle' \subseteq lapsed'
  BY <1>4 DEF BecomeIdle
<1> QED BY <1>1, <1>3, <1>4 DEF WorkerStep, LoopStep, SlotStep

\* What a step of a receiver adds to what is to be handled: the message it writes.
LEMMA ToHandleGrows ==
  ASSUME Types, MessageInv, Apart, ReceiverStep
  PROVE  /\ Apart'
         /\ \/ \A f \in Events : ToHandle(f)' \subseteq ToHandle(f)
            \/ \E e \in Events :
                 /\ XAdd(e)
                 /\ \A f \in Events \ {e} : ToHandle(f)' \subseteq ToHandle(f)
                 /\ \E y : ToHandle(e)' \subseteq ToHandle(e) \cup {y}
<1>1. UNCHANGED <<batch, slots, headDone, slotDone>>
  BY ReceiverFrame DEF workers
<1>2. CASE UNCHANGED <<unread, pending>>
  BY <1>1, <1>2 DEF Apart, InHand, ToHandle, Around, Unhandled, IsHead
<1>3. ASSUME NEW e \in Events, XAdd(e)
      PROVE  /\ Apart'
             /\ \A f \in Events \ {e} : ToHandle(f)' \subseteq ToHandle(f)
             /\ \E y : ToHandle(e)' \subseteq ToHandle(e) \cup {y}
  <2>1. unread' \subseteq unread \cup {Entry(e)} /\ pending' \subseteq pending
    BY <1>3, XAddIs
  <2>2. Entry(e) \notin Around
    <3>1. Entry(e).event = e /\ Entry(e).id = added[StreamOf(e)] + 1
      BY DEF Entry
    <3>2. added[StreamOf(e)] \in Nat
      BY StreamKinds DEF Types, StreamsOK
    <3> QED BY <3>1, <3>2 DEF MessageInv
  <2>3. Around' \subseteq Around \cup {Entry(e)}
    BY <1>1, <2>1 DEF Around, InHand
  <2>4. \A m : Unhandled(m)' => Unhandled(m) \/ m = Entry(e)
    BY <1>1, <2>1 DEF Unhandled, IsHead
  <2>5. Entry(e).event = e
    BY DEF Entry
  <2>6. /\ \A f \in Events \ {e} : ToHandle(f)' \subseteq ToHandle(f)
        /\ ToHandle(e)' \subseteq ToHandle(e) \cup {Entry(e)}
    BY <2>3, <2>4, <2>5 DEF ToHandle
  <2>7. \A w \in Workers : Entry(e) \notin InHand(w)
    BY <2>2 DEF Around
  <2>8. Apart'
    BY <1>1, <2>1, <2>7 DEF Apart, InHand
  <2> QED BY <2>6, <2>8
<1> QED BY <1>2, <1>3, ReceiverStreams

\* How an intake may have an event to write.
HasToWrite(e, g) ==
  g = "enqueue" \/ (g = "check" /\ e \in Pushes) \/ (g = "settle" /\ e \in Mentions)

\* The intakes yet to write an event, by the stage they are at.
LEMMA ToWriteIs ==
  ASSUME NEW e
  PROVE  ToWrite(e) = {r \in Receivers : /\ taking[r][StreamOf(e)] = e
                                         /\ HasToWrite(e, stage[r][StreamOf(e)])}
BY DEF ToWrite, HasToWrite

\* What an intake's step makes of the intakes that have its event to write.
LEMMA ToWriteMoves ==
  ASSUME Types, NEW r \in Receivers, NEW s \in Streams, NEW g \in Stages, GoOn(r, s, g),
         NEW e \in Events, e = taking[r][s], StreamOf(e) = s
  PROVE  /\ \A f \in Events \ {e} : ToWrite(f)' \subseteq ToWrite(f)
         /\ ToWrite(e)' \subseteq ToWrite(e) \cup {r}
         /\ ~HasToWrite(e, g) => ToWrite(e)' \subseteq ToWrite(e) \ {r}
         /\ HasToWrite(e, stage[r][s]) => r \in ToWrite(e)
<1>1. \A q \in Receivers, p \in Streams :
        /\ stage'[q][p] = IF q = r /\ p = s THEN g ELSE stage[q][p]
        /\ taking'[q][p] = IF q = r /\ p = s /\ g = "none" THEN NoEvent ELSE taking[q][p]
  BY GoOnMoves DEF Types
<1>2. \A f \in Events : StreamOf(f) \in Streams /\ f # NoEvent
  BY StreamKinds
<1>3. \A f \in Events : ToWrite(f) = {q \in Receivers : /\ taking[q][StreamOf(f)] = f
                                                       /\ HasToWrite(f, stage[q][StreamOf(f)])}
  BY ToWriteIs
<1>4. \A f \in Events : ToWrite(f)' = {q \in Receivers : /\ taking'[q][StreamOf(f)] = f
                                                        /\ HasToWrite(f, stage'[q][StreamOf(f)])}
  BY DEF ToWrite, HasToWrite
<1>5. \A f \in Events \ {e} : ToWrite(f)' \subseteq ToWrite(f)
  BY <1>1, <1>2, <1>3, <1>4
<1>6. ToWrite(e)' \subseteq ToWrite(e) \cup {r}
  BY <1>1, <1>2, <1>3, <1>4
<1>7. ~HasToWrite(e, g) => ToWrite(e)' \subseteq ToWrite(e) \ {r}
  BY <1>1, <1>2, <1>3, <1>4
<1>8. HasToWrite(e, stage[r][s]) => r \in ToWrite(e)
  BY <1>3
<1> QED BY <1>5, <1>6, <1>7, <1>8

\* No step of a receiver unbalances the account of an event.
LEMMA ReceiverBalances ==
  ASSUME Types, MessageInv, Healthy, BuffersEmpty, Apart, \A e \in Events : Counted(e),
         ReceiverStep, ~CallFails
  PROVE  BuffersEmpty' /\ \A e \in Events : Counted(e)'
<1>0. Types' /\ UNCHANGED handled
  BY ReceiverTypes, ReceiverFrame DEF workers
<1> DEFINE Goal == BuffersEmpty' /\ \A e \in Events : Counted(e)'
<1>1. ASSUME NEW r \in Receivers, NEW e \in Events, Send(r, e)
      PROVE  Goal
  <2>1. UNCHANGED <<buffer, draining, seen, unread, pending, batch, slots, headDone, slotDone>>
    BY <1>1 DEF Send, streams, workers
  <2>2. \A f \in Events : ToHandle(f)' \subseteq ToHandle(f)
    BY <2>1 DEF ToHandle, Around, InHand, Unhandled, IsHead
  <2>3. /\ StreamOf(e) \in Streams
        /\ \A q \in Receivers, p \in Streams :
             /\ stage'[q][p] = IF q = r /\ p = StreamOf(e) THEN FirstStage(e) ELSE stage[q][p]
             /\ taking'[q][p] = IF q = r /\ p = StreamOf(e) THEN e ELSE taking[q][p]
        /\ \A f \in Events : sends'[f] = IF f = e THEN sends[f] + 1 ELSE sends[f]
    BY <1>1, StreamKinds DEF Send, Types, IntakesOK, SendersOK
  <2>4. \A f \in Events : StreamOf(f) \in Streams
    BY StreamKinds
  <2>5. ASSUME NEW f \in Events
        PROVE  Counted(f)'
    <3>1. CASE f # e \/ e \in Notifications
      <4>1. Admitted(f)' = Admitted(f)
        BY <2>1, <2>3, <3>1 DEF Admitted
      <4>2. f = e => FirstStage(f) = "check" /\ f \notin Pushes
        BY <3>1, StreamKinds DEF FirstStage
      <4>3. ToWrite(f)' \subseteq ToWrite(f)
        BY <2>3, <2>4, <4>2 DEF ToWrite
      <4> QED BY <1>0, <2>2, <4>1, <4>3, Balance
    <3>2. CASE f = e /\ e \notin Notifications
      <4>1. Admitted(f)' = Admitted(f) + 1
        BY <2>1, <2>3, <3>2 DEF Admitted
      <4>2. ToWrite(f)' \subseteq ToWrite(f) \cup {r}
        BY <2>3, <2>4 DEF ToWrite
      <4> QED BY <1>0, <2>2, <4>1, <4>2, Balance
    <3> QED BY <3>1, <3>2
  <2> QED BY <2>1, <2>5 DEF BuffersEmpty
<1>2. ASSUME NEW r \in Receivers, NEW s \in Streams, IntakeStep(r, s)
      PROVE  Goal
  <2>1. PICK e \in Events : e = taking[r][s] /\ StreamOf(e) = s
    <3>1. stage[r][s] # "none"
      BY <1>2 DEF IntakeStep, CheckLock, Accept, Enqueue, EnqueueElseBuffer, Settle, At
    <3> QED BY <3>1 DEF Types, IntakesOK, ReceiverInv
  <2>2. UNCHANGED <<sends, buffer, draining>>
    BY <1>0, <1>2 DEF IntakeStep, CheckLock, Accept, Enqueue, EnqueueElseBuffer, Settle, EnqueueFails,
       senders
  <2>3. BuffersEmpty'
    BY <2>2 DEF BuffersEmpty
  <2>4. /\ {"none", "enqueue", "settle"} \subseteq Stages
        /\ e \in Interactions => e \notin Mentions
        /\ e \in Mentions => e \notin Pushes /\ e \notin Notifications
        /\ e \in Pushes => e \notin Notifications /\ e \notin Mentions
    BY StreamKinds, DeliveryAssumption DEF Stages, DeliveryAssumption
  <2>5. ASSUME UNCHANGED <<unread, pending>>
        PROVE  \A f \in Events : ToHandle(f)' \subseteq ToHandle(f)
    BY <2>5, <1>2, ReceiverFrame DEF ReceiverStep, workers, ToHandle, Around, InHand, Unhandled, IsHead
  <2>6. \A f \in Events : seen' = seen => Admitted(f)' = Admitted(f)
    BY <2>2 DEF Admitted
  <2>7. ASSUME NEW g \in Stages, GoOn(r, s, g), UNCHANGED <<unread, pending, seen>>,
               HasToWrite(e, g) => HasToWrite(e, stage[r][s])
        PROVE  \A f \in Events : Counted(f)'
    <3>1. \A f \in Events : ToWrite(f)' \subseteq ToWrite(f)
      BY <2>1, <2>7, ToWriteMoves
    <3> QED BY <1>0, <2>5, <2>6, <2>7, <3>1, Balance
  <2>8. CASE s = "ecr" /\ CheckLock(r)
    <3>1. e \in Pushes /\ stage[r][s] = "check" /\ UNCHANGED <<unread, pending, seen>>
      BY <2>1, <2>8, StreamKinds DEF CheckLock, At, streams
    <3>2. \E g \in {"enqueue", "settle"} : GoOn(r, s, g)
      BY <2>8 DEF CheckLock
    <3>3. HasToWrite(e, stage[r][s])
      BY <3>1 DEF HasToWrite
    <3> HIDE DEF Goal
    <3> QED BY <2>3, <2>4, <2>7, <3>1, <3>2, <3>3 DEF Goal
  <2>9. CASE s = "argocd" /\ Accept(r)
    <3>1. e \in Notifications /\ stage[r][s] = "check" /\ UNCHANGED <<unread, pending>>
      BY <2>1, <2>9, StreamKinds DEF Accept, At
    <3>2. CASE GoOn(r, s, "settle") /\ seen' = seen
      <4>1. ~HasToWrite(e, "settle")
        BY <2>4, <3>1 DEF HasToWrite
      <4> QED BY <2>3, <2>4, <2>7, <3>1, <3>2, <4>1
    <3>3. CASE GoOn(r, s, "enqueue") /\ e \notin seen /\ seen' = seen \cup {e}
      <4>1. Admitted(e)' = Admitted(e) + 1 /\ \A f \in Events \ {e} : Admitted(f)' = Admitted(f)
        BY <2>2, <3>1, <3>3 DEF Admitted
      <4>2. /\ ToWrite(e)' \subseteq ToWrite(e) \cup {r}
            /\ \A f \in Events \ {e} : ToWrite(f)' \subseteq ToWrite(f)
        BY <2>1, <2>4, <3>3, ToWriteMoves
      <4>3. ASSUME NEW f \in Events
            PROVE  Counted(f)'
        BY <1>0, <2>5, <3>1, <4>1, <4>2, Balance
      <4> QED BY <2>3, <4>3
    <3> QED BY <2>1, <2>9, <3>2, <3>3 DEF Accept
  <2>10. CASE Enqueue(r, s)
    <3>1. XAdd(e) /\ stage[r][s] = "enqueue" /\ GoOn(r, s, AfterEnqueue(e))
      BY <2>1, <2>10 DEF Enqueue, Enqueued, At
    <3>2. seen' = seen
      BY <3>1, XAddIs
    <3>3. AfterEnqueue(e) \in Stages /\ ~HasToWrite(e, AfterEnqueue(e)) /\ HasToWrite(e, stage[r][s])
      BY <2>4, <3>1 DEF AfterEnqueue, Stages, HasToWrite
    <3>4. /\ ToWrite(e)' \subseteq ToWrite(e) \ {r} /\ r \in ToWrite(e)
          /\ \A f \in Events \ {e} : ToWrite(f)' \subseteq ToWrite(f)
      BY <2>1, <3>1, <3>3, ToWriteMoves
    <3>5. \A f \in Events : \E y : ToHandle(f)' \subseteq ToHandle(f) \cup {y}
      BY <1>2, ToHandleGrows DEF ReceiverStep
    <3>6. ASSUME NEW f \in Events
          PROVE  Counted(f)'
      <4>1. CASE f = e
        BY <1>0, <2>6, <3>2, <3>4, <3>5, <4>1, Balance
      <4>2. CASE f # e
        <5>1. ToHandle(f)' \subseteq ToHandle(f)
          <6>1. unread' \subseteq unread \cup {Entry(e)} /\ pending' \subseteq pending /\ Entry(e).event = e
            BY <3>1, XAddIs DEF Entry
          <6> QED BY <4>2, <6>1, <1>2, ReceiverFrame
                  DEF ReceiverStep, workers, ToHandle, Around, InHand, Unhandled, IsHead
        <5> QED BY <1>0, <2>6, <3>2, <3>4, <4>2, <5>1, Balance
      <4> QED BY <4>1, <4>2
    <3> QED BY <2>3, <3>6
  <2>11. CASE EnqueueElseBuffer(r, s)
    BY <2>11 DEF EnqueueElseBuffer, EnqueueFails
  <2>12. CASE Settle(r, s)
    <3>1. /\ stage[r][s] = "settle" /\ UNCHANGED <<unread, pending, seen>>
          /\ GoOn(r, s, IF e \in Mentions THEN "enqueue" ELSE "none")
      BY <2>1, <2>12 DEF Settle, At, streams
    <3>2. HasToWrite(e, IF e \in Mentions THEN "enqueue" ELSE "none") => HasToWrite(e, stage[r][s])
      BY <3>1 DEF HasToWrite
    <3> QED BY <2>3, <2>4, <2>7, <3>1, <3>2
  <2> HIDE DEF Goal
  <2> QED BY <1>2, <2>8, <2>9, <2>10, <2>11, <2>12, Zenon DEF IntakeStep
<1>3. ASSUME NEW r \in Receivers, NEW s \in Streams, DrainStep(r, s)
      PROVE  FALSE
  BY <1>3 DEF DrainStep, DrainTake, DrainOne, BuffersEmpty
<1>4. ASSUME NEW r \in Receivers, ReceiverDies(r)
      PROVE  Goal
  <2>1. UNCHANGED <<sends, seen, unread, pending>>
    BY <1>4 DEF ReceiverDies, senders, streams
  <2>2. /\ \A q \in Receivers, p \in Streams :
             /\ stage'[q][p] = IF q = r THEN "none" ELSE stage[q][p]
             /\ taking'[q][p] = IF q = r THEN NoEvent ELSE taking[q][p]
             /\ buffer'[q][p] = IF q = r THEN <<>> ELSE buffer[q][p]
             /\ draining'[q][p] = IF q = r THEN NoEvent ELSE draining[q][p]
    BY <1>4 DEF Types, IntakesOK, BuffersOK, ReceiverDies
  <2>3. \A f \in Events : StreamOf(f) \in Streams /\ f # NoEvent
    BY StreamKinds
  <2>4. \A f \in Events : ToWrite(f)' \subseteq ToWrite(f)
    BY <2>2, <2>3 DEF ToWrite
  <2>5. \A f \in Events : ToHandle(f)' \subseteq ToHandle(f)
    BY <1>4, <2>1, ReceiverFrame DEF ReceiverStep, workers, ToHandle, Around, InHand, Unhandled, IsHead
  <2>6. \A f \in Events : Admitted(f)' = Admitted(f)
    BY <2>1 DEF Admitted
  <2>7. \A f \in Events : Counted(f)'
    BY <1>0, <2>4, <2>5, <2>6, Balance
  <2>8. BuffersEmpty'
    BY <2>2 DEF BuffersEmpty
  <2> QED BY <2>7, <2>8
<1> HIDE DEF Goal
<1> QED BY <1>1, <1>2, <1>3, <1>4 DEF ReceiverStep, Goal

\* No step of a worker unbalances the account of an event.
LEMMA WorkerBalances ==
  ASSUME Types, MessageInv, WorkerInv, Healthy, idle = {}, Apart, \A e \in Events : Counted(e),
         WorkerStep, ~CallFails, \A w \in Workers : ~WorkerDies(w), Healthy'
  PROVE  Apart' /\ \A e \in Events : Counted(e)'
<1>0. Types' /\ UNCHANGED <<taking, stage, sends, seen>>
  BY WorkerTypes, WorkerFrame DEF senders, receivers
<1> DEFINE Goal == Apart' /\ \A e \in Events : Counted(e)'
<1>1. \A f \in Events : ToWrite(f)' \subseteq ToWrite(f) /\ Admitted(f)' = Admitted(f)
  BY <1>0 DEF ToWrite, Admitted
<1>2. ASSUME \A f \in Events : ToHandle(f)' \subseteq ToHandle(f), UNCHANGED handled
      PROVE  \A f \in Events : Counted(f)'
  BY <1>0, <1>1, <1>2, Balance
<1>3. ASSUME UNCHANGED <<unread, pending, batch, slots, headDone, slotDone, handled>>
      PROVE  Goal
  <2>1. Apart'
    BY <1>3 DEF Apart, InHand
  <2>2. \A f \in Events : ToHandle(f)' \subseteq ToHandle(f)
    BY <1>3 DEF ToHandle, Around, InHand, Unhandled, IsHead
  <2> QED BY <1>2, <1>3, <2>1, <2>2
<1>4. Around' \subseteq Around
  BY WorkerHands
<1>5. ASSUME \A m : Unhandled(m)' => Unhandled(m), UNCHANGED handled
      PROVE  \A f \in Events : Counted(f)'
  <2>1. \A f \in Events : ToHandle(f)' \subseteq ToHandle(f)
    BY <1>4, <1>5 DEF ToHandle
  <2> QED BY <1>2, <1>5, <2>1
<1>6. ASSUME NEW w \in Workers, StartReclaim(w)
      PROVE  Goal
  <2> HIDE DEF Goal
  <2> QED BY <1>3, <1>6 DEF StartReclaim, streams
<1>7. ASSUME NEW w \in Workers, ReclaimStuck(w)
      PROVE  Goal
  <2>1. Oldest(In(idle, turn[w]), BatchSize) = {}
    BY OldestAreThere
  <2>2. batch' = [batch EXCEPT ![w] = {}] /\ batch[w] = {}
    BY <1>7, <2>1 DEF ReclaimStuck
  <2>3. batch' = batch
    BY <2>2 DEF Types, LoopsOK
  <2>4. UNCHANGED <<unread, pending, slots, headDone, slotDone, handled>>
    BY <1>7 DEF ReclaimStuck
  <2> HIDE DEF Goal
  <2> QED BY <1>3, <2>3, <2>4
<1>8. ASSUME NEW w \in Workers, ReadStream(w)
      PROVE  Goal
  <2> DEFINE got == Oldest(In(unread, IF turn[w] = "top" THEN "user" ELSE turn[w]), BatchSize)
  <2>1. got \subseteq unread
    BY OldestAreThere
  <2>2. /\ unread' = unread \ got /\ batch' = [batch EXCEPT ![w] = got] /\ batch[w] = {}
        /\ UNCHANGED <<slots, headDone, slotDone, handled>>
    BY <1>8 DEF ReadStream
  <2> HIDE DEF got
  <2>3. \A v \in Workers : batch'[v] = IF v = w THEN got ELSE batch[v]
    BY <2>2 DEF Types, LoopsOK
  <2>4. Apart'
    <3>1. \A v \in Workers : InHand(v)' = IF v = w THEN got \cup slots[v] ELSE InHand(v)
      BY <2>2, <2>3 DEF InHand
    <3>2. \A v \in Workers : InHand(v) \cap unread = {} /\ slots[v] \cap unread = {}
                             /\ slots[v] \subseteq InHand(v)
      BY DEF Apart, InHand
    <3>3. ASSUME NEW v \in Workers
          PROVE  InHand(v)' \cap unread' = {} /\ batch'[v] \cap slots'[v] = {}
      BY <2>1, <2>2, <2>3, <3>1, <3>2 DEF Apart
    <3>4. ASSUME NEW v \in Workers, NEW u \in Workers, u # v
          PROVE  InHand(v)' \cap InHand(u)' = {}
      BY <2>1, <3>1, <3>2, <3>4 DEF Apart
    <3> QED BY <3>3, <3>4 DEF Apart
  <2>5. ASSUME NEW m, Unhandled(m)'
        PROVE  Unhandled(m)
    <3>1. CASE m \in unread
      BY <3>1 DEF Unhandled
    <3>2. CASE m \notin unread
      <4>1. PICK v \in Workers :
              \/ m \in batch'[v] /\ ~(headDone'[v] /\ IsHead(v, m)')
              \/ m \in slots'[v] \ slotDone'[v]
        BY <2>2, <2>5, <3>2 DEF Unhandled
      <4>2. v # w \/ m \notin batch'[v]
        BY <2>1, <2>3, <3>2
      <4> QED BY <2>2, <2>3, <4>1, <4>2 DEF Unhandled, IsHead
    <3> QED BY <3>1, <3>2
  <2> QED BY <1>5, <2>2, <2>4, <2>5
<1>9. ASSUME NEW w \in Workers, NEW m \in batch[w], Spawn(w, m)
      PROVE  Goal
  <2>1. ~headDone[w]
    BY <1>9, OneHead DEF WorkerInv, Spawn
  <2>2. /\ \A v \in Workers : /\ batch'[v] = IF v = w THEN batch[v] \ {m} ELSE batch[v]
                              /\ slots'[v] = IF v = w THEN slots[v] \cup {m} ELSE slots[v]
        /\ UNCHANGED <<unread, headDone, slotDone, handled>>
    BY <1>9 DEF Spawn, streams, Types, LoopsOK
  <2>3. \A v \in Workers : InHand(v)' = InHand(v)
    BY <2>2 DEF InHand
  <2>4. Apart'
    BY <2>2, <2>3 DEF Apart
  <2>5. ASSUME NEW k, Unhandled(k)'
        PROVE  Unhandled(k)
    <3>1. CASE k = m
      BY <2>1, <3>1 DEF Unhandled
    <3>2. CASE k \in unread
      BY <3>2 DEF Unhandled
    <3>3. CASE k # m /\ k \notin unread
      <4>1. PICK v \in Workers :
              \/ k \in batch'[v] /\ ~(headDone'[v] /\ IsHead(v, k)')
              \/ k \in slots'[v] \ slotDone'[v]
        BY <2>2, <2>5, <3>3 DEF Unhandled
      <4>2. CASE v = w
        BY <2>1, <2>2, <3>3, <4>1, <4>2 DEF Unhandled
      <4>3. CASE v # w
        BY <2>2, <4>1, <4>3 DEF Unhandled, IsHead
      <4> QED BY <4>2, <4>3
    <3> QED BY <3>1, <3>2, <3>3
  <2> QED BY <1>5, <2>2, <2>4, <2>5
<1>10. ASSUME NEW w \in Workers, NEW m \in InHand(w), HandleHead(w, m) \/ HandleSlot(w, m)
       PROVE  Goal
  <2>1. m.event \in Events /\ m \in Around
    BY DEF InHand, Messages, Types, LoopsOK, Around
  <2>2. /\ UNCHANGED <<unread, pending, batch, slots>>
        /\ \A f \in Events : handled'[f] = IF f = m.event THEN handled[f] + 1 ELSE handled[f]
        /\ \A v \in Workers : headDone[v] => headDone'[v]
        /\ \A v \in Workers : slotDone[v] \subseteq slotDone'[v]
    BY <1>10, <2>1 DEF HandleHead, HandleSlot, Handled, streams, Types, LoopsOK
  <2>3. Apart'
    BY <2>2 DEF Apart, InHand
  <2>4. \A k : Unhandled(k)' => Unhandled(k)
    BY <2>2 DEF Unhandled, IsHead
  <2>5. Unhandled(m)
    BY <1>10 DEF HandleHead, HandleSlot, IsHead, Unhandled
  <2>6. ~Unhandled(m)'
    <3>1. m \notin unread' /\ \A v \in Workers : v # w => m \notin InHand(v)
      BY <2>2 DEF Apart
    <3>2. CASE HandleHead(w, m)
      <4>1. m \in batch[w] /\ m \notin slots[w] /\ headDone'[w] /\ IsHead(w, m)'
        BY <3>2, <2>2 DEF HandleHead, IsHead, Apart, Types, LoopsOK
      <4> QED BY <2>2, <3>1, <4>1 DEF Unhandled, InHand
    <3>3. CASE HandleSlot(w, m)
      <4>1. m \in slots[w] /\ m \notin batch[w] /\ m \in slotDone'[w]
        BY <3>3 DEF HandleSlot, Apart, Types, LoopsOK
      <4> QED BY <2>2, <3>1, <4>1 DEF Unhandled, InHand
    <3> QED BY <1>10, <3>2, <3>3
  <2>7. \A f \in Events : ToHandle(f)' \subseteq ToHandle(f)
    BY <1>4, <2>4 DEF ToHandle
  <2>8. m \in ToHandle(m.event) /\ ToHandle(m.event)' \subseteq ToHandle(m.event) \ {m}
    BY <2>1, <2>5, <2>6, <2>7 DEF ToHandle
  <2>9. ASSUME NEW f \in Events
        PROVE  Counted(f)'
    <3>1. CASE f = m.event
      BY <1>0, <1>1, <2>1, <2>2, <2>8, <3>1, Balance
    <3>2. CASE f # m.event
      BY <1>0, <1>1, <2>1, <2>2, <2>7, <3>2, Balance
    <3> QED BY <3>1, <3>2
  <2> QED BY <2>3, <2>9
<1>11. ASSUME NEW w \in Workers, NEW m, AckHead(w, m)
       PROVE  Goal
  <2>1. /\ \A v \in Workers : /\ batch'[v] = IF v = w THEN batch[v] \ {m} ELSE batch[v]
                              /\ headDone'[v] = IF v = w THEN FALSE ELSE headDone[v]
        /\ UNCHANGED <<slots, slotDone, handled, unread>> /\ IsHead(w, m)
    BY <1>11 DEF AckHead, XAck, streams, Types, LoopsOK
  <2>2. \A v \in Workers : InHand(v)' \subseteq InHand(v)
    BY <2>1 DEF InHand
  <2>3. Apart'
    <3>1. \A v \in Workers : InHand(v)' \cap unread' = {} /\ batch'[v] \cap slots'[v] = {}
      BY <2>1, <2>2 DEF Apart
    <3>2. \A v, u \in Workers : u # v => InHand(v)' \cap InHand(u)' = {}
      BY <2>2 DEF Apart
    <3> QED BY <3>1, <3>2 DEF Apart
  <2>4. ASSUME NEW k, Unhandled(k)'
        PROVE  Unhandled(k)
    <3>1. k \in unread \/ \E v \in Workers :
            \/ k \in batch'[v] /\ ~(headDone'[v] /\ IsHead(v, k)')
            \/ k \in slots'[v] \ slotDone'[v]
      BY <2>1, <2>4 DEF Unhandled
    <3>2. ASSUME k \in batch'[w]
          PROVE  k \in batch[w] /\ ~IsHead(w, k)
      BY <2>1, <3>2, OneHead
    <3>3. ASSUME NEW v \in Workers, v # w
          PROVE  IsHead(v, k)' <=> IsHead(v, k)
      BY <2>1, <3>3 DEF IsHead
    <3> QED BY <2>1, <3>1, <3>2, <3>3 DEF Unhandled
  <2> QED BY <1>5, <2>1, <2>3, <2>4
<1>12. ASSUME NEW w \in Workers, NEW m, AckSlot(w, m)
       PROVE  Goal
  <2>1. /\ \A v \in Workers : /\ slots'[v] = IF v = w THEN slots[v] \ {m} ELSE slots[v]
                              /\ slotDone'[v] = IF v = w THEN slotDone[v] \ {m} ELSE slotDone[v]
        /\ UNCHANGED <<batch, headDone, handled, unread>>
    BY <1>12 DEF AckSlot, XAck, streams, Types, LoopsOK
  <2>2. \A v \in Workers : InHand(v)' \subseteq InHand(v)
    BY <2>1 DEF InHand
  <2>3. Apart'
    <3>1. \A v \in Workers : InHand(v)' \cap unread' = {} /\ batch'[v] \cap slots'[v] = {}
      BY <2>1, <2>2 DEF Apart
    <3>2. \A v, u \in Workers : u # v => InHand(v)' \cap InHand(u)' = {}
      BY <2>2 DEF Apart
    <3> QED BY <3>1, <3>2 DEF Apart
  <2>4. \A k : Unhandled(k)' => Unhandled(k)
    BY <2>1 DEF Unhandled, IsHead
  <2> QED BY <1>5, <2>1, <2>3, <2>4
<1>13. ASSUME NEW m, BecomeIdle(m)
       PROVE  FALSE
  BY <1>13 DEF BecomeIdle, Healthy
<1> HIDE DEF Goal
<1> QED BY <1>6, <1>7, <1>8, <1>9, <1>10, <1>11, <1>12, <1>13
        DEF WorkerStep, LoopStep, SlotStep, InHand, Goal

\* While all is well every event's account stays balanced.
LEMMA OnceStep ==
  ASSUME Types, MessageInv, WorkerInv, OnceInv, ReceiverStep \/ WorkerStep
  PROVE  OnceInv'
<1>1. idle \subseteq lapsed /\ (Healthy => BuffersEmpty /\ Apart /\ \A e \in Events : Counted(e))
  BY OnceParts
<1>2. idle' \subseteq lapsed'
  BY <1>1, IdleStep
<1>3. ASSUME Healthy'
      PROVE  BuffersEmpty' /\ Apart' /\ \A e \in Events : Counted(e)'
  <2>1. Healthy /\ ~CallFails /\ \A w \in Workers : ~WorkerDies(w)
    BY <1>3, WellBefore
  <2>2. CASE ReceiverStep
    BY <1>1, <2>1, <2>2, ReceiverBalances, ToHandleGrows
  <2>3. CASE WorkerStep
    <3>1. idle = {}
      BY <1>1, <2>1 DEF Healthy
    <3>2. BuffersEmpty'
      BY <1>1, <2>1, <2>3, WorkerFrame DEF BuffersEmpty, receivers
    <3> QED BY <1>1, <1>3, <2>1, <2>3, <3>1, <3>2, WorkerBalances
  <2> QED BY <2>2, <2>3
<1> QED BY <1>2, <1>3 DEF OnceInv, BuffersEmpty, Apart, Counted

-----------------------------------------------------------------------------
(* What a worker has in hand is in the stream, handled or trimmed.         *)

\* A receiver gives workers nothing, and a worker takes in hand only what is around.
LEMMA HandStep ==
  ASSUME Types, MessageInv, WorkerInv, HandInv, ReceiverStep \/ WorkerStep
  PROVE  HandInv'
<1>1. ASSUME NEW m \in Around
      PROVE  m.event \in Events /\ InStreamOrHandled(m.event)
  <2>1. m.event \in Events
    BY <1>1 DEF Around, InHand, Messages, Types, StreamsOK, LoopsOK
  <2>2. CASE m \in unread \cup pending
    BY <2>1, <2>2 DEF InStreamOrHandled, Kept
  <2>3. CASE m \notin unread \cup pending
    BY <1>1, <2>1, <2>3 DEF Around, HandInv
  <2> QED BY <2>2, <2>3
<1>2. ASSUME NEW w \in Workers, NEW m \in InHand(w)'
      PROVE  m \in Around
  <2>1. CASE ReceiverStep
    BY <1>2, <2>1, ReceiverFrame DEF workers, Around, InHand
  <2>2. CASE WorkerStep
    BY <1>2, <2>2, WorkerHands DEF Around
  <2> QED BY <2>1, <2>2
<1>3. ASSUME NEW w \in Workers, NEW m \in InHand(w)'
      PROVE  InStreamOrHandled(m.event)'
  BY <1>1, <1>2, <1>3, ReceiverKeeps, WorkerKeeps
<1> QED BY <1>3 DEF HandInv

-----------------------------------------------------------------------------
(* The theorems.                                                           *)

\* At the start nothing was sent.
LEMMA InitInv == Init => DeliveryInv
<1> SUFFICES ASSUME Init PROVE DeliveryInv
  OBVIOUS
<1>1. Types
  <2>1. SendersOK /\ DroppedOK /\ CountsOK
    BY DEF Init, SendersOK, DroppedOK, CountsOK
  <2>2. IntakesOK
    BY DEF Init, IntakesOK, ReceiverInv, Stages
  <2>3. BuffersOK
    <3>1. <<>> \in Seq(Events)
      OBVIOUS
    <3> QED BY <3>1 DEF Init, BuffersOK
  <2>4. StreamsOK
    BY DEF Init, StreamsOK
  <2>5. LoopsOK
    BY DEF Init, LoopsOK
  <2> QED BY <2>1, <2>2, <2>3, <2>4, <2>5 DEF Types
<1>2. Around = {}
  BY DEF Init, Around, InHand
<1>3. MessageInv
  BY <1>2 DEF MessageInv, Init
<1>4. WorkerInv
  BY DEF WorkerInv, Init
<1>5. HandInv /\ \A e : ~Settling(e)
  BY DEF HandInv, InHand, Settling, Init
<1>6. InteractionInv
  BY <1>5 DEF InteractionInv, Init
<1>7. ProgressInv
  BY <1>5 DEF ProgressInv, Init
<1>8. OnceInv
  <2>1. BuffersEmpty
    BY DEF BuffersEmpty, Init
  <2>2. Apart
    BY DEF Apart, InHand, Init
  <2>3. ASSUME NEW e \in Events
        PROVE  Counted(e)
    <3>1. ToHandle(e) = {} /\ ToWrite(e) = {}
      <4>1. ToHandle(e) = {}
        BY <1>2 DEF ToHandle
      <4>2. StreamOf(e) \in Streams /\ e # NoEvent
        BY StreamKinds
      <4> QED BY <4>1, <4>2 DEF ToWrite, Init
    <3>2. IsFiniteSet({}) /\ Cardinality({}) = 0
      BY FS_EmptySet
    <3>3. handled[e] = 0 /\ Admitted(e) \in Nat
      BY <1>1, AdmittedIsNumber DEF Init
    <3> QED BY <3>1, <3>2, <3>3 DEF Counted
  <2> QED BY <2>1, <2>2, <2>3, OnceParts DEF Init
<1> QED BY <1>1, <1>3, <1>4, <1>5, <1>6, <1>7, <1>8, TypesAreThese DEF DeliveryInv

\* The parts are preserved together.
LEMMA StepInv == DeliveryInv /\ [Next]_vars => DeliveryInv'
<1> SUFFICES ASSUME DeliveryInv, [Next]_vars PROVE DeliveryInv'
  OBVIOUS
<1>1. Types
  BY TypesAreThese DEF DeliveryInv
<1>2. CASE ReceiverStep \/ WorkerStep
  <2>1. Types'
    BY <1>1, <1>2, ReceiverTypes, WorkerTypes
  <2>2. TypeOK' /\ ReceiverInv'
    BY <2>1 DEF TypeOK, Types, SendersOK, IntakesOK, BuffersOK, StreamsOK, LoopsOK, DroppedOK,
       CountsOK, Stages
  <2> QED BY <1>1, <1>2, <2>2, MessageStep, WorkerInvStep, HandStep, InteractionStep,
             ProgressStep, OnceStep
          DEF DeliveryInv
<1>3. CASE UNCHANGED vars
  <2>1. UNCHANGED <<senders, receivers, streams, workers, dropped, failures, crashes>>
    BY <1>3 DEF vars, senders, receivers, streams, workers, dropped, crashes
  <2>2. TypeOK' /\ ReceiverInv'
    BY <1>3 DEF DeliveryInv, TypeOK, ReceiverInv, vars
  <2>3. MessageInv' /\ WorkerInv'
    BY <1>3 DEF DeliveryInv, MessageInv, WorkerInv, Around, InHand, IsHead, Concurrent, vars
  <2>4. HandInv' /\ InteractionInv' /\ ProgressInv'
    BY <1>3 DEF DeliveryInv, HandInv, InHand, InteractionInv, ProgressInv, InStreamOrHandled, Kept,
       OnItsWay, Buffered, Settling, Writing, vars
  <2>5. OnceInv'
    BY <1>3 DEF DeliveryInv, OnceInv, Healthy, ToHandle, ToWrite, Admitted, Around, InHand, Unhandled,
       IsHead, vars
  <2> QED BY <2>2, <2>3, <2>4, <2>5 DEF DeliveryInv
<1> QED BY <1>2, <1>3, TwoSides

\* The inductive invariant holds: intakes take one event of their stream each, ids tell
\* the messages of a stream apart, what is about to be acknowledged was handled, what was
\* told to be done is in a stream or on its way to it, and every event's account balances.
THEOREM Invariance == Spec => []DeliveryInv
BY InitInv, StepInv, PTL DEF Spec

\* Every variable keeps its type.
THEOREM TypeCorrect == Spec => []TypeOK
<1>1. DeliveryInv => TypeOK
  BY DEF DeliveryInv
<1> QED BY <1>1, Invariance, PTL

\* An interaction Slack was told is received is in its stream or handled, whatever calls
\* fail and whoever dies, unless MAXLEN removed it (enqueueAndAck, process, reclaimStuck).
THEOREM InteractionsAreKept == Spec => []SettledInteractionIsKept
<1>1. DeliveryInv => SettledInteractionIsKept
  BY DEF DeliveryInv, InteractionInv, SettledInteractionIsKept, InStreamOrHandled
<1> QED BY <1>1, Invariance, PTL

\* While no receiver dies a settled event is accounted for: handled, in its stream, in a
\* buffer, at an intake, or dropped by the code that says so (Accept, Add, drainOne).
THEOREM SettledIsAccounted == Spec => []AccountedWhileReceiversLive
<1>1. ASSUME DeliveryInv, NEW e \in settled, lostIntakes = 0
      PROVE  \/ handled[e] > 0 \/ Kept(e) \/ Buffered(e) \/ Taken(e)
             \/ e \in skipped \cup forgone \cup trimmed
  <2>1. OnItsWay(e)
    BY <1>1 DEF DeliveryInv, TypeOK, ProgressInv
  <2> QED BY <2>1 DEF OnItsWay, InStreamOrHandled, Writing, Taken
<1>2. DeliveryInv => AccountedWhileReceiversLive
  BY <1>1 DEF AccountedWhileReceiversLive
<1> QED BY <1>2, Invariance, PTL

\* While no call fails, no worker dies and no message grows idle, an event is handled at
\* most as often as it was sent, and a notification once (Accept, ReadStream, AckHead).
THEOREM HandledOnce == Spec => []OnceWhileHealthy
<1>1. ASSUME DeliveryInv, NEW e \in Events, Healthy
      PROVE  handled[e] <= IF e \in Notifications THEN 1 ELSE sends[e]
  <2>1. Types /\ Counted(e)
    BY <1>1, OnceParts, TypesAreThese DEF DeliveryInv
  <2>2. /\ Cardinality(ToHandle(e)) \in Nat /\ Cardinality(ToWrite(e)) \in Nat
        /\ Admitted(e) \in Nat /\ handled[e] \in Nat
    BY <2>1, Counts, AdmittedIsNumber DEF Counted
  <2>3. handled[e] <= Admitted(e)
    BY <2>1, <2>2 DEF Counted
  <2> QED BY <2>2, <2>3 DEF Admitted
<1>2. DeliveryInv => OnceWhileHealthy
  BY <1>1 DEF OnceWhileHealthy, Healthy
<1> QED BY <1>2, Invariance, PTL
-----------------------------------------------------------------------------
(* The refinement of SafeDelivery.                                         *)

\* Receivers keep in memory, or drop, nothing else than e.
HoldsBut(e) == e \in Held /\ \A f \in Events \ {e} : f \in Held' <=> f \in Held
DropsBut(e) == (skipped \cup forgone)' \in {skipped \cup forgone, (skipped \cup forgone) \cup {e}}

\* XADD stores its event, and what it removes are events that MAXLEN trimmed.
LEMMA XAddStores ==
  ASSUME Types, NEW e \in Events, XAdd(e)
  PROVE  /\ e \in Stored' /\ Stored' \subseteq Stored \cup {e}
         /\ Stored \ Stored' \subseteq trimmed'
         /\ trimmed \subseteq trimmed' /\ trimmed' \subseteq trimmed \cup Stored
<1> DEFINE s == StreamOf(e)
           n == added[s] + 1
           Gone(k) == {m \in In(unread \cup pending, s) : m.id <= k}
<1>1. n \in Nat /\ n > 0
  BY StreamKinds DEF Types, StreamsOK
<1>2. PICK k \in 0 .. n :
        /\ k + StreamMaxLen <= n \/ k = 0
        /\ unread' = (unread \cup {Entry(e)}) \ Gone(k)
        /\ pending' = pending \ Gone(k)
        /\ trimmed' = trimmed \cup {m.event : m \in Gone(k)}
  BY DEF XAdd, Entry
<1>3. Entry(e).event = e /\ Entry(e).id = n
  BY DEF Entry
<1> HIDE DEF n, s
<1>4. Entry(e) \notin Gone(k)
  BY <1>1, <1>2, <1>3, DeliveryAssumption DEF DeliveryAssumption
<1>5. Gone(k) \subseteq unread \cup pending
  BY DEF In
<1>6. \A m \in unread \cup pending : m.event \in Events
  BY DEF Types, StreamsOK, Messages
<1> HIDE DEF Gone
<1>7. e \in Stored'
  BY <1>2, <1>3, <1>4 DEF Stored, Kept
<1>8. Stored' \subseteq Stored \cup {e}
  BY <1>2, <1>3 DEF Stored, Kept
<1>9. Stored \ Stored' \subseteq trimmed'
  BY <1>2, <1>5 DEF Stored, Kept
<1>10. trimmed' \subseteq trimmed \cup Stored
  BY <1>2, <1>5, <1>6 DEF Stored, Kept
<1> QED BY <1>2, <1>7, <1>8, <1>9, <1>10

\* A receiver that lives lets go of e untold, or with e on its way to a worker or dropped.
LEMMA LetsGo ==
  ASSUME Types, ProgressInv', UNCHANGED lostIntakes, NEW e \in Events, HoldsBut(e)
  PROVE  Promise!MayLetGo(e)
<1>1. Held' \in {Held, Held \ {e}}
  BY DEF HoldsBut, Held
<1>2. ASSUME e \in settled', e \notin Held', ~(lostIntakes > 0)
      PROVE  e \in Stored' \cup Done' \cup trimmed' \/ e \in (skipped \cup forgone)'
  <2>1. OnItsWay(e)'
    BY <1>2 DEF ProgressInv, Types, CountsOK
  <2>2. ~Buffered(e)' /\ ~Writing(e)'
    BY <1>2 DEF Held, Taken, Writing
  <2> QED BY <2>1, <2>2 DEF OnItsWay, InStreamOrHandled, Stored, Done
<1> QED BY <1>1, <1>2 DEF Promise!MayLetGo, Promise!Safe

\* Writing an event is the Store of SafeDelivery, whatever else was trimmed.
LEMMA WritesAreStores ==
  ASSUME Types, ProgressInv', NEW e \in Events, XAdd(e), HoldsBut(e), DropsBut(e),
         UNCHANGED <<sends, settled, handled, lostIntakes>>
  PROVE  Promise!Store(e)
<1>1. Promise!MayLetGo(e)
  BY LetsGo
<1>2. /\ e \in Stored' /\ Stored' \subseteq Stored \cup {e}
      /\ Stored \ Stored' \subseteq trimmed'
      /\ trimmed \subseteq trimmed' /\ trimmed' \subseteq trimmed \cup Stored
  BY XAddStores
<1>3. \E gone \in SUBSET (Stored \ {e}) : Stored' = (Stored \cup {e}) \ gone /\ gone \subseteq trimmed'
  <2> DEFINE gone == Stored \ Stored'
  <2>1. gone \in SUBSET (Stored \ {e}) /\ Stored' = (Stored \cup {e}) \ gone /\ gone \subseteq trimmed'
    BY <1>2
  <2> QED BY <2>1
<1>4. e \in Held /\ UNCHANGED <<Sent, Done>>
  BY DEF HoldsBut, Sent, Done
<1> QED BY <1>1, <1>2, <1>3, <1>4 DEF DropsBut, Promise!Store

\* An intake that goes on without a write gives its event up, or keeps it.
LEMMA OthersAreGiveUps ==
  ASSUME Types, ProgressInv', NEW e \in Events, HoldsBut(e), DropsBut(e),
         UNCHANGED <<sends, settled, unread, pending, trimmed, handled, lostIntakes>>
  PROVE  Promise!GiveUp(e)
<1>1. Promise!MayLetGo(e)
  BY LetsGo
<1>2. UNCHANGED <<Sent, Stored, Done>>
  BY DEF Sent, Stored, Kept, Done
<1> QED BY <1>1, <1>2 DEF HoldsBut, DropsBut, Promise!GiveUp

\* The intake's call is about its own event.
LEMMA GoOnHolds ==
  ASSUME Types, NEW r \in Receivers, NEW s \in Streams, NEW g \in Stages, GoOn(r, s, g),
         taking[r][s] \in Events,
         \A f \in Events \ {taking[r][s]} : Buffered(f)' <=> Buffered(f)
  PROVE  HoldsBut(taking[r][s])
<1>1. \A q \in Receivers, p \in Streams :
        taking'[q][p] = IF q = r /\ p = s /\ g = "none" THEN NoEvent ELSE taking[q][p]
  BY GoOnMoves DEF Types
<1>2. \A f \in Events \ {taking[r][s]} : Taken(f)' <=> Taken(f)
  BY <1>1, StreamKinds DEF Taken
<1>3. taking[r][s] \in Held
  BY DEF Held, Taken
<1> QED BY <1>2, <1>3 DEF HoldsBut, Held

\* A buffer that an event is added to has no other event more.
LEMMA BufferAddsOnly ==
  ASSUME BuffersOK, NEW r \in Receivers, NEW s \in Streams, NEW e \in Events,
         buffer' = [buffer EXCEPT ![r][s] = Append(buffer[r][s], e)], UNCHANGED draining
  PROVE  \A f \in Events \ {e} : Buffered(f)' <=> Buffered(f)
<1>1. buffer[r][s] \in Seq(Events) /\ Len(buffer[r][s]) \in Nat
  BY DEF BuffersOK
<1>2. /\ Len(Append(buffer[r][s], e)) = Len(buffer[r][s]) + 1
      /\ Append(buffer[r][s], e)[Len(buffer[r][s]) + 1] = e
      /\ \A i \in 1 .. Len(buffer[r][s]) : Append(buffer[r][s], e)[i] = buffer[r][s][i]
  BY <1>1
<1>3. /\ buffer'[r][s] = Append(buffer[r][s], e)
      /\ \A q \in Receivers, p \in Streams : ~(q = r /\ p = s) => buffer'[q][p] = buffer[q][p]
  BY DEF BuffersOK
<1>4. ASSUME NEW f \in Events \ {e}, NEW i \in 1 .. Len(buffer'[r][s]), buffer'[r][s][i] = f
      PROVE  i \in 1 .. Len(buffer[r][s]) /\ buffer[r][s][i] = f
  BY <1>1, <1>2, <1>3, <1>4
<1>5. ASSUME NEW f \in Events \ {e}, Buffered(f)'
      PROVE  Buffered(f)
  <2>1. PICK q \in Receivers, p \in Streams :
          draining'[q][p] = f \/ \E i \in 1 .. Len(buffer'[q][p]) : buffer'[q][p][i] = f
    BY <1>5 DEF Buffered
  <2>2. draining[q][p] = f \/ \E i \in 1 .. Len(buffer[q][p]) : buffer[q][p][i] = f
    BY <1>3, <1>4, <2>1
  <2> QED BY <2>2 DEF Buffered
<1> QED BY <1>5, BufferAdds

\* The drainer takes an event out of the buffer's channel and no other.
LEMMA DrainTakesOnly ==
  ASSUME BuffersOK, NEW r \in Receivers, NEW s \in Streams, DrainTake(r, s)
  PROVE  \A f \in Events : Buffered(f)' <=> Buffered(f)
<1>1. buffer[r][s] \in Seq(Events) /\ buffer[r][s] # <<>> /\ Len(buffer[r][s]) \in Nat
  BY DEF BuffersOK, DrainTake
<1>2. /\ Len(buffer[r][s]) >= 1 /\ Head(buffer[r][s]) = buffer[r][s][1]
      /\ Len(Tail(buffer[r][s])) = Len(buffer[r][s]) - 1
      /\ \A i \in 1 .. (Len(buffer[r][s]) - 1) : Tail(buffer[r][s])[i] = buffer[r][s][i + 1]
  BY <1>1
<1>3. /\ buffer'[r][s] = Tail(buffer[r][s]) /\ draining'[r][s] = buffer[r][s][1]
      /\ \A q \in Receivers, p \in Streams : ~(q = r /\ p = s) =>
           buffer'[q][p] = buffer[q][p] /\ draining'[q][p] = draining[q][p]
  BY <1>2 DEF BuffersOK, DrainTake
<1>4. ASSUME NEW f \in Events, Buffered(f)'
      PROVE  Buffered(f)
  <2>1. PICK q \in Receivers, p \in Streams :
          draining'[q][p] = f \/ \E i \in 1 .. Len(buffer'[q][p]) : buffer'[q][p][i] = f
    BY <1>4 DEF Buffered
  <2>2. CASE ~(q = r /\ p = s)
    BY <1>3, <2>1, <2>2 DEF Buffered
  <2>3. CASE q = r /\ p = s
    <3>1. \E i \in 1 .. Len(buffer[r][s]) : buffer[r][s][i] = f
      <4>1. CASE draining'[r][s] = f
        <5>1. 1 \in 1 .. Len(buffer[r][s])
          BY <1>1, <1>2
        <5> QED BY <1>3, <4>1, <5>1
      <4>2. ASSUME NEW i \in 1 .. Len(buffer'[r][s]), buffer'[r][s][i] = f
            PROVE  \E j \in 1 .. Len(buffer[r][s]) : buffer[r][s][j] = f
        <5>1. i \in 1 .. (Len(buffer[r][s]) - 1) /\ i + 1 \in 1 .. Len(buffer[r][s])
          BY <1>1, <1>2, <1>3, <4>2
        <5> QED BY <1>2, <1>3, <4>2, <5>1
      <4> QED BY <2>1, <2>3, <4>1, <4>2
    <3> QED BY <3>1 DEF Buffered
  <2> QED BY <2>2, <2>3
<1> QED BY <1>4, DrainTakes

\* A receiver that takes up an event of a sender is the Send of SafeDelivery.
LEMMA SendsAreSends ==
  ASSUME Types, NEW r \in Receivers, NEW e \in Events, Send(r, e)
  PROVE  Promise!Send(e)
<1>1. StreamOf(e) \in Streams /\ e # NoEvent
  BY StreamKinds
<1>2. /\ taking[r][StreamOf(e)] = NoEvent
      /\ \A q \in Receivers, p \in Streams :
           taking'[q][p] = IF q = r /\ p = StreamOf(e) THEN e ELSE taking[q][p]
  BY <1>1 DEF Send, Types, IntakesOK, ReceiverInv
<1>3. \A f \in Events : Taken(f)' <=> Taken(f) \/ f = e
  BY <1>1, <1>2, StreamKinds DEF Taken
<1>4. UNCHANGED <<settled, buffer, draining, unread, pending, trimmed, handled, skipped, forgone, lostIntakes>>
  BY DEF Send, streams, workers, dropped, crashes
<1>5. Held' = Held \cup {e}
  BY <1>3, <1>4 DEF Held, Buffered
<1>6. Sent' = Sent \cup {e}
  <2>1. \A f \in Events : sends'[f] = (IF f = e THEN sends[f] + 1 ELSE sends[f]) /\ sends[f] \in Nat
    BY DEF Send, Types, SendersOK
  <2> QED BY <2>1 DEF Sent
<1>7. UNCHANGED <<Stored, Done>>
  BY <1>4 DEF Stored, Kept, Done
<1> QED BY <1>4, <1>5, <1>6, <1>7 DEF Send, Promise!Send

\* An intake's call is a Store, a Tell or a GiveUp of its event.
LEMMA IntakesKeepThePromise ==
  ASSUME Types, InteractionInv, ProgressInv', NEW r \in Receivers, NEW s \in Streams, IntakeStep(r, s)
  PROVE  \E e \in Events : Promise!Store(e) \/ Promise!Tell(e) \/ Promise!GiveUp(e)
<1>1. PICK e \in Events : e = taking[r][s] /\ StreamOf(e) = s
  <2>1. stage[r][s] # "none"
    BY DEF IntakeStep, CheckLock, Accept, Enqueue, EnqueueElseBuffer, Settle, At
  <2> QED BY <2>1 DEF Types, IntakesOK, ReceiverInv
<1>2. UNCHANGED <<sends, handled, lostIntakes>> /\ (Settle(r, s) \/ UNCHANGED settled)
  BY ReceiverFrame DEF ReceiverStep, workers, IntakeStep, CheckLock, Accept, Enqueue, EnqueueElseBuffer,
     Settle, senders, crashes
<1>3. \E g \in Stages : GoOn(r, s, g)
  BY DEF IntakeStep, CheckLock, Accept, Enqueue, EnqueueElseBuffer, Settle, AfterEnqueue, AfterBuffer,
     Stages
<1>4. ASSUME \A f \in Events \ {e} : Buffered(f)' <=> Buffered(f)
      PROVE  HoldsBut(e)
  BY <1>1, <1>3, <1>4, GoOnHolds
<1>5. ASSUME UNCHANGED <<buffer, draining>>
      PROVE  HoldsBut(e)
  BY <1>4, <1>5 DEF Buffered
<1>6. CASE s = "ecr" /\ CheckLock(r)
  <2>1. /\ UNCHANGED <<buffer, draining, settled, unread, pending, trimmed>>
        /\ DropsBut(e)
    BY <1>1, <1>6 DEF CheckLock, senders, streams, dropped, DropsBut
  <2>2. Promise!GiveUp(e)
    BY <1>2, <1>5, <2>1, OthersAreGiveUps
  <2> QED BY <2>2
<1>7. CASE s = "argocd" /\ Accept(r)
  <2>1. /\ UNCHANGED <<buffer, draining, settled, unread, pending, trimmed>>
        /\ DropsBut(e)
    BY <1>1, <1>7 DEF Accept, senders, DropsBut
  <2>2. Promise!GiveUp(e)
    BY <1>2, <1>5, <2>1, OthersAreGiveUps
  <2> QED BY <2>2
<1>8. CASE Enqueue(r, s)
  <2>1. UNCHANGED <<buffer, draining, settled>> /\ DropsBut(e) /\ XAdd(e)
    BY <1>1, <1>8 DEF Enqueue, Enqueued, senders, dropped, DropsBut
  <2>2. Promise!Store(e)
    BY <1>2, <1>5, <2>1, WritesAreStores
  <2> QED BY <2>2
<1>9. CASE EnqueueElseBuffer(r, s)
  <2>1. UNCHANGED settled /\ (XAdd(e) \/ UNCHANGED <<unread, pending, trimmed>>)
    BY <1>1, <1>9 DEF EnqueueElseBuffer, EnqueueFails, senders, streams
  <2>2. CASE buffer' = [buffer EXCEPT ![r][s] = Append(buffer[r][s], e)] /\ UNCHANGED <<draining, skipped, forgone>>
    <3>1. HoldsBut(e) /\ DropsBut(e)
      BY <1>4, <2>2, BufferAddsOnly DEF Types, DropsBut
    <3>2. Promise!Store(e) \/ Promise!GiveUp(e)
      BY <1>2, <2>1, <3>1, WritesAreStores, OthersAreGiveUps
    <3> QED BY <3>2
  <2>3. CASE forgone' = forgone \cup {e} /\ UNCHANGED <<buffer, draining, skipped>>
    <3>1. HoldsBut(e) /\ DropsBut(e)
      BY <1>5, <2>3 DEF DropsBut
    <3>2. Promise!Store(e) \/ Promise!GiveUp(e)
      BY <1>2, <2>1, <3>1, WritesAreStores, OthersAreGiveUps
    <3> QED BY <3>2
  <2> QED BY <1>1, <1>9, <2>2, <2>3 DEF EnqueueElseBuffer
<1>10. CASE Settle(r, s)
  <2>1. /\ UNCHANGED <<buffer, draining, skipped, forgone, unread, pending, trimmed>>
        /\ settled' = settled \/ settled' = settled \cup {e}
        /\ Settling(e)
    BY <1>1, <1>10 DEF Settle, At, Settling, streams, dropped
  <2>2. HoldsBut(e) /\ DropsBut(e)
    BY <1>5, <2>1 DEF DropsBut
  <2>3. CASE settled' = settled
    <3>1. Promise!GiveUp(e)
      BY <1>2, <2>1, <2>2, <2>3, OthersAreGiveUps
    <3> QED BY <3>1
  <2>4. CASE settled' = settled \cup {e}
    <3>1. e \in Interactions => e \in Stored \cup Done \cup trimmed
      BY <2>1 DEF InteractionInv, InStreamOrHandled, Stored, Done
    <3>2. Promise!MayLetGo(e)
      BY <1>2, <2>2, LetsGo
    <3>3. UNCHANGED <<Sent, Stored, Done, trimmed, skipped \cup forgone, lostIntakes > 0>> /\ e \in Held
      BY <1>2, <2>1, <2>2 DEF Sent, Stored, Kept, Done, HoldsBut
    <3>4. Promise!Tell(e)
      BY <2>4, <3>1, <3>2, <3>3 DEF Promise!Tell, Promise!Safe
    <3> QED BY <3>4
  <2> QED BY <2>1, <2>3, <2>4
<1> QED BY <1>6, <1>7, <1>8, <1>9, <1>10, Zenon DEF IntakeStep

\* A retry buffer takes an event over, which nobody sees, or stores it.
LEMMA DrainsKeepThePromise ==
  ASSUME Types, ProgressInv', NEW r \in Receivers, NEW s \in Streams, DrainStep(r, s)
  PROVE  UNCHANGED Promise!deliveryVars \/ \E e \in Events : Promise!Store(e)
<1>1. UNCHANGED <<sends, settled, taking, handled, skipped, forgone, lostIntakes>>
  BY DEF DrainStep, DrainTake, DrainOne, senders, workers, dropped, crashes
<1>2. CASE UNCHANGED <<unread, pending, trimmed>> /\ (DrainTake(r, s) \/ UNCHANGED <<buffer, draining>>)
  <2>1. \A f \in Events : Buffered(f)' <=> Buffered(f)
    BY <1>2, DrainTakesOnly DEF Types, Buffered
  <2>2. UNCHANGED <<Sent, Held, Stored, Done>>
    BY <1>1, <1>2, <2>1 DEF Sent, Held, Taken, Stored, Kept, Done
  <2> QED BY <1>1, <1>2, <2>2 DEF Promise!deliveryVars
<1>3. CASE DrainOne(r, s) /\ XAdd(draining[r][s])
  <2>1. PICK e \in Events : e = draining[r][s]
    BY <1>3 DEF DrainOne, Types, BuffersOK
  <2>2. /\ UNCHANGED buffer
        /\ \A q \in Receivers, p \in Streams :
             draining'[q][p] = draining[q][p] \/ (q = r /\ p = s /\ draining'[q][p] = NoEvent)
    BY <1>3 DEF DrainOne, Types, BuffersOK
  <2>3. \A f \in Events \ {e} : Buffered(f)' <=> Buffered(f)
    BY <2>1, <2>2, StreamKinds DEF Buffered
  <2>4. e \in Held
    BY <2>1 DEF Held, Buffered
  <2>5. HoldsBut(e) /\ DropsBut(e)
    BY <1>1, <2>3, <2>4 DEF HoldsBut, DropsBut, Held, Taken
  <2>6. Promise!Store(e)
    BY <1>1, <1>3, <2>1, <2>5, WritesAreStores
  <2> QED BY <2>6
<1> QED BY <1>2, <1>3 DEF DrainStep, DrainTake, DrainOne, Enqueued, EnqueueFails, streams

\* A receiver that dies forgets what it held and nothing else.
LEMMA DeathsAreDeaths ==
  ASSUME Types, NEW r \in Receivers, ReceiverDies(r)
  PROVE  Promise!Die
<1>1. \A q \in Receivers, p \in Streams :
        /\ taking'[q][p] = IF q = r THEN NoEvent ELSE taking[q][p]
        /\ draining'[q][p] = IF q = r THEN NoEvent ELSE draining[q][p]
        /\ buffer'[q][p] = IF q = r THEN <<>> ELSE buffer[q][p]
  BY DEF ReceiverDies, Types, IntakesOK, BuffersOK
<1>2. ASSUME NEW f \in Events
      PROVE  (Taken(f)' => Taken(f)) /\ (Buffered(f)' => Buffered(f))
  BY <1>1, StreamKinds DEF Taken, Buffered
<1>3. Held' \subseteq Held
  BY <1>2 DEF Held
<1>4. (lostIntakes' > 0) = TRUE
  BY DEF ReceiverDies, Types, CountsOK
<1>5. UNCHANGED <<Sent, settled, Stored, Done, trimmed, skipped \cup forgone>>
  BY DEF ReceiverDies, Sent, Stored, Kept, Done, senders, streams, workers, dropped
<1> QED BY <1>3, <1>4, <1>5 DEF Promise!Die

\* A worker handles what was stored, and acknowledges what was handled.
LEMMA WorkersKeepThePromise ==
  ASSUME Types, MessageInv, WorkerInv, HandInv, WorkerStep
  PROVE  \/ UNCHANGED Promise!deliveryVars
         \/ \E e \in Events : Promise!Handle(e) \/ Promise!Acknowledge(e)
<1> DEFINE Promised == UNCHANGED Promise!deliveryVars
                    \/ \E e \in Events : Promise!Handle(e) \/ Promise!Acknowledge(e)
<1>1. UNCHANGED <<Sent, settled, Held, skipped \cup forgone, lostIntakes>>
  BY WorkerFrame DEF senders, receivers, dropped, Sent, Held, Taken, Buffered
<1>2. ASSUME UNCHANGED <<handled, trimmed>>, unread' \cup pending' = unread \cup pending
      PROVE  Promised
  <2>1. UNCHANGED <<Stored, Done>>
    BY <1>2 DEF Stored, Kept, Done
  <2> QED BY <1>1, <1>2, <2>1 DEF Promise!deliveryVars
<1> HIDE DEF Promised
<1>3. ASSUME NEW w \in Workers, StartReclaim(w) \/ ReclaimStuck(w) \/ WorkerDies(w)
      PROVE  Promised
  BY <1>2, <1>3 DEF StartReclaim, ReclaimStuck, WorkerDies, streams
<1>4. ASSUME NEW w \in Workers, ReadStream(w)
      PROVE  Promised
  <2> DEFINE got == Oldest(In(unread, IF turn[w] = "top" THEN "user" ELSE turn[w]), BatchSize)
  <2>1. got \subseteq unread
    BY OldestAreThere
  <2>2. /\ UNCHANGED <<handled, trimmed>>
        /\ \/ unread' = unread \ got /\ pending' = pending \cup got
           \/ UNCHANGED <<unread, pending>>
    BY <1>4 DEF ReadStream
  <2> HIDE DEF got
  <2>3. unread' \cup pending' = unread \cup pending
    BY <2>1, <2>2
  <2> QED BY <1>2, <2>2, <2>3
<1>5. ASSUME NEW w \in Workers, NEW m, Spawn(w, m)
      PROVE  Promised
  BY <1>2, <1>5 DEF Spawn, streams
<1>6. ASSUME NEW m, BecomeIdle(m)
      PROVE  Promised
  BY <1>2, <1>6 DEF BecomeIdle, workers
<1>7. ASSUME NEW w \in Workers, NEW m \in InHand(w), HandleHead(w, m) \/ HandleSlot(w, m)
      PROVE  Promised
  <2>1. m.event \in Events /\ InStreamOrHandled(m.event)
    BY DEF HandInv, InHand, Messages, Types, LoopsOK
  <2>2. m.event \in Stored \cup Done \cup trimmed
    BY <2>1 DEF InStreamOrHandled, Stored, Done
  <2>3. /\ UNCHANGED <<unread, pending, trimmed>>
        /\ \A f \in Events : /\ handled'[f] = IF f = m.event THEN handled[f] + 1 ELSE handled[f]
                             /\ handled[f] \in Nat
    BY <1>7, <2>1 DEF HandleHead, HandleSlot, Handled, streams, Types, LoopsOK
  <2>4. Done' = Done \cup {m.event}
    BY <2>1, <2>3 DEF Done
  <2>5. UNCHANGED Stored
    BY <2>3 DEF Stored, Kept
  <2>6. Promise!Handle(m.event)
    BY <1>1, <2>2, <2>3, <2>4, <2>5 DEF Promise!Handle, Promise!Safe
  <2> QED BY <2>1, <2>6 DEF Promised
<1>8. ASSUME NEW w \in Workers, NEW m \in InHand(w), AckHead(w, m) \/ AckSlot(w, m)
      PROVE  Promised
  <2>1. m.event \in Events /\ handled[m.event] > 0
    BY <1>8, OneHead DEF AckHead, AckSlot, WorkerInv, InHand, Messages, Types, LoopsOK
  <2>2. /\ UNCHANGED <<handled, unread, trimmed>>
        /\ pending' = pending \ {m} \/ UNCHANGED pending
    BY <1>8 DEF AckHead, AckSlot, XAck, streams
  <2>3. Stored' \in {Stored, Stored \ {m.event}}
    <3>1. \A f \in Events \ {m.event} : f \in Stored' <=> f \in Stored
      BY <2>2 DEF Stored, Kept
    <3>2. Stored' \subseteq Stored
      BY <2>2 DEF Stored, Kept
    <3> QED BY <3>1, <3>2 DEF Stored
  <2>4. m.event \in Done /\ UNCHANGED Done
    BY <2>1, <2>2 DEF Done
  <2>5. CASE Stored' = Stored
    BY <1>1, <2>2, <2>4, <2>5 DEF Promised, Promise!deliveryVars
  <2>6. CASE Stored' = Stored \ {m.event}
    <3>1. Promise!Acknowledge(m.event)
      BY <1>1, <2>2, <2>4, <2>6 DEF Promise!Acknowledge
    <3> QED BY <2>1, <3>1 DEF Promised
  <2> QED BY <2>3, <2>5, <2>6
<1> QED BY <1>3, <1>4, <1>5, <1>6, <1>7, <1>8 DEF WorkerStep, LoopStep, SlotStep, InHand, Promised

\* Nothing was sent, stored or handled at the start.
LEMMA InitPromise == Init => Promise!DeliveryInit
BY StreamKinds DEF Init, Promise!DeliveryInit, Sent, Held, Stored, Done, Taken, Buffered, Kept

\* Every step is one that SafeDelivery allows, or one that it does not see.
LEMMA StepPromise ==
  DeliveryInv /\ DeliveryInv' /\ [Next]_vars => [Promise!DeliveryNext]_(Promise!deliveryVars)
<1> SUFFICES ASSUME DeliveryInv, DeliveryInv', [Next]_vars
             PROVE  Promise!DeliveryNext \/ UNCHANGED Promise!deliveryVars
  OBVIOUS
<1>1. /\ Types /\ MessageInv /\ WorkerInv /\ HandInv /\ InteractionInv
      /\ ProgressInv'
  BY TypesAreThese DEF DeliveryInv
<1>2. CASE WorkerStep
  BY <1>1, <1>2, WorkersKeepThePromise DEF Promise!DeliveryNext
<1>3. ASSUME NEW r \in Receivers, NEW e \in Events, Send(r, e)
      PROVE  Promise!DeliveryNext
  BY <1>1, <1>3, SendsAreSends DEF Promise!DeliveryNext
<1>4. ASSUME NEW r \in Receivers, NEW s \in Streams, IntakeStep(r, s)
      PROVE  Promise!DeliveryNext
  BY <1>1, <1>4, IntakesKeepThePromise DEF Promise!DeliveryNext
<1>5. ASSUME NEW r \in Receivers, NEW s \in Streams, DrainStep(r, s)
      PROVE  Promise!DeliveryNext \/ UNCHANGED Promise!deliveryVars
  BY <1>1, <1>5, DrainsKeepThePromise DEF Promise!DeliveryNext
<1>6. ASSUME NEW r \in Receivers, ReceiverDies(r)
      PROVE  Promise!DeliveryNext
  BY <1>1, <1>6, DeathsAreDeaths DEF Promise!DeliveryNext
<1>7. CASE UNCHANGED vars
  BY <1>7 DEF vars, Promise!deliveryVars, Sent, Held, Stored, Done, Taken, Buffered, Kept
<1> QED BY <1>2, <1>3, <1>4, <1>5, <1>6, <1>7, TwoSides DEF ReceiverStep

\* Receivers, streams and workers, however many, keep SafeDelivery: an event is handled
\* only after it was stored and leaves the store only after it was handled or by MAXLEN,
\* Slack is told of an interaction only after it was stored, and a receiver that lives
\* forgets an event its sender was told of only when it is stored or dropped on purpose.
THEOREM Implementation == Spec => ImplementsDelivery
BY InitPromise, StepPromise, Invariance, PTL DEF Spec, ImplementsDelivery, Promise!DeliverySpec
\* What SafeDelivery is good for, whoever keeps it: nothing is handled or stored that was
\* not sent, a durable event that its sender was told of is safe, and any other one is,
\* while no receiver dies, safe, in a receiver's memory or dropped on purpose.
SafeSet == Stored \cup Done \cup trimmed
PromiseInv ==
  /\ Held \cup SafeSet \subseteq Sent
  /\ Interactions \cap settled \subseteq SafeSet
  /\ ~(lostIntakes > 0) => settled \subseteq Held \cup SafeSet \cup (skipped \cup forgone)

\* The actions of SafeDelivery are all that is used of the system here.
LEMMA PromiseIsKept == PromiseInv /\ [Promise!DeliveryNext]_(Promise!deliveryVars) => PromiseInv'
<1> SUFFICES ASSUME PromiseInv, [Promise!DeliveryNext]_(Promise!deliveryVars) PROVE PromiseInv'
  OBVIOUS
<1> USE DEF PromiseInv, SafeSet
<1>1. ASSUME NEW e \in Events, Promise!Send(e)
      PROVE  PromiseInv'
  BY <1>1 DEF Promise!Send
<1>2. ASSUME NEW e \in Events, Promise!MayLetGo(e), UNCHANGED (lostIntakes > 0),
             settled' \in {settled, settled \cup {e}}, e \in Held,
             SafeSet \subseteq SafeSet', skipped \cup forgone \subseteq (skipped \cup forgone)'
      PROVE  /\ Held' \subseteq Held
             /\ ~(lostIntakes > 0)' => settled' \subseteq Held' \cup SafeSet' \cup (skipped \cup forgone)'
  <2>1. Held' \in {Held, Held \ {e}}
    BY <1>2 DEF Promise!MayLetGo
  <2>2. ASSUME ~(lostIntakes > 0), NEW f \in settled'
        PROVE  f \in Held' \cup SafeSet' \cup (skipped \cup forgone)'
    <3>1. CASE f = e
      BY <1>2, <2>2, <3>1 DEF Promise!MayLetGo, Promise!Safe
    <3>2. CASE f # e
      BY <1>2, <2>1, <2>2, <3>2
    <3> QED BY <3>1, <3>2
  <2> QED BY <1>2, <2>1, <2>2
<1>3. ASSUME NEW e \in Events, Promise!Store(e)
      PROVE  PromiseInv'
  <2>1. SafeSet \subseteq SafeSet' /\ SafeSet' \subseteq SafeSet \cup {e}
    BY <1>3 DEF Promise!Store
  <2>2. skipped \cup forgone \subseteq (skipped \cup forgone)' /\ Promise!MayLetGo(e) /\ e \in Held
        /\ UNCHANGED <<Sent, settled, lostIntakes > 0>>
    BY <1>3 DEF Promise!Store
  <2> HIDE DEF SafeSet
  <2> QED BY <1>2, <2>1, <2>2
<1>4. ASSUME NEW e \in Events, Promise!Tell(e)
      PROVE  PromiseInv'
  <2>1. UNCHANGED <<Sent, SafeSet, skipped \cup forgone, lostIntakes > 0>> /\ Promise!MayLetGo(e)
        /\ e \in Held /\ settled' = settled \cup {e} /\ (e \in Interactions => e \in SafeSet)
    BY <1>4 DEF Promise!Tell, Promise!Safe
  <2> HIDE DEF SafeSet
  <2> QED BY <1>2, <2>1
<1>5. ASSUME NEW e \in Events, Promise!GiveUp(e)
      PROVE  PromiseInv'
  <2>1. UNCHANGED <<Sent, SafeSet, settled, lostIntakes > 0>> /\ Promise!MayLetGo(e)
        /\ e \in Held /\ skipped \cup forgone \subseteq (skipped \cup forgone)'
    BY <1>5 DEF Promise!GiveUp
  <2> HIDE DEF SafeSet
  <2> QED BY <1>2, <2>1
<1>6. ASSUME NEW e \in Events, Promise!Handle(e) \/ Promise!Acknowledge(e)
      PROVE  PromiseInv'
  <2>1. UNCHANGED <<Sent, SafeSet, Held, settled, skipped \cup forgone, lostIntakes > 0>>
    BY <1>6 DEF Promise!Handle, Promise!Acknowledge, Promise!Safe
  <2> QED BY <2>1
<1>7. CASE Promise!Die
  <2>1. UNCHANGED <<Sent, SafeSet, settled>> /\ Held' \subseteq Held /\ (lostIntakes > 0)'
    BY <1>7 DEF Promise!Die
  <2> QED BY <2>1
<1>8. CASE UNCHANGED Promise!deliveryVars
  BY <1>8 DEF Promise!deliveryVars
<1> QED BY <1>1, <1>3, <1>4, <1>5, <1>6, <1>7, <1>8 DEF Promise!DeliveryNext

\* Whatever keeps SafeDelivery, the system among it, handles only what was sent, keeps an
\* interaction Slack was told of until it is handled, and accounts for every settled event
\* while no receiver dies (enqueueAndAck, handleMessage, ServeHTTP, process).
THEOREM PromiseSuffices == ImplementsDelivery => []PromiseInv
<1>1. Promise!DeliveryInit => PromiseInv
  BY DEF Promise!DeliveryInit, PromiseInv, SafeSet
<1> QED BY <1>1, PromiseIsKept, PTL DEF ImplementsDelivery, Promise!DeliverySpec

\* A worker handles no event that no sender sent.
THEOREM NothingIsInvented == Spec => [](Done \subseteq Sent)
<1>1. PromiseInv => Done \subseteq Sent
  BY DEF PromiseInv, SafeSet
<1> QED BY <1>1, Implementation, PromiseSuffices, PTL
=============================================================================
