------------------------- MODULE ExpiringKeys_proofs -------------------------
(***************************************************************************)
(* Proofs about ExpiringKeys, for every value of its constants: any number *)
(* of handlers, replicas, failures and deaths, and any lengths of TTLs,    *)
(* intervals and passes, as long as the lock outlives the interval.        *)
(***************************************************************************)
EXTENDS ExpiringKeys, FiniteSetTheorems, TLAPS

-----------------------------------------------------------------------------
(* The constants.                                                          *)

\* The longest gap that is counted is longer than an interval.
LEMMA GapIsLong == LongestGap \in Nat /\ LongestGap > Interval /\ Never = LongestGap + 1
<1>1. Interval \in Nat /\ Interval >= 1 /\ MaxHappenings \in Nat
  BY KeysAssumption DEF KeysAssumption
<1>2. Interval * (2 + 2 * MaxHappenings) = Interval + Interval + Interval * (2 * MaxHappenings)
  BY <1>1
<1>3. Interval * (2 * MaxHappenings) \in Nat
  BY <1>1
<1> HIDE DEF LongestGap
<1>4. LongestGap = Interval + Interval + Interval * (2 * MaxHappenings) + 1
  BY <1>2 DEF LongestGap
<1> QED BY <1>1, <1>3, <1>4 DEF Never

\* The constants are numbers.
LEMMA Numbers ==
  /\ ThreadTTL \in Nat \ {0} /\ Polls \in Nat \ {0} /\ Interval \in Nat \ {0}
  /\ LockTTL \in Nat \ {0} /\ LongestPass \in Nat \ {0} /\ MaxThreads \in Nat \ {0}
  /\ Interval < LockTTL /\ Pending # Flat /\ Pending \notin Nat /\ MaxHappenings \in Nat
BY KeysAssumption DEF KeysAssumption, Flat

-----------------------------------------------------------------------------
(* What every step preserves: the types.                                   *)

PosterType ==
  [at : {"get", "claim", "poll", "parent", "update", "message"},
   ts : Held, looks : 0..(Polls - 1), age : 0..ThreadTTL]
ReplicaType == [next : 1..Interval, due : BOOLEAN, pass : 0..(LongestPass + 1)]

\* The count of happenings keeps to its bound.
LEMMA HappensBounded ==
  ASSUME happened \in 0..MaxHappenings, NEW n \in Nat, Happens(n)
  PROVE  happened' \in 0..MaxHappenings
BY Numbers DEF Happens

\* Where a handler goes: back, or to post a message in a thread that is or was.
LEMMA PosterMoves ==
  /\ Done \in PosterType
  /\ \A at \in {"claim", "poll", "parent"} : [Done EXCEPT !.at = at] \in PosterType
  /\ \A ts \in Held : [Done EXCEPT !.at = "message", !.ts = ts] \in PosterType
  /\ \A p \in PosterType, ts \in Held : [p EXCEPT !.at = "update", !.ts = ts] \in PosterType
  /\ \A p \in PosterType, n \in 0..(Polls - 1) : [p EXCEPT !.looks = n] \in PosterType
  /\ \A p \in PosterType, n \in 0..ThreadTTL : [p EXCEPT !.age = n] \in PosterType
<1>1. Done \in PosterType
  BY Numbers DEF PosterType, Done, Held, Flat
<1> QED BY <1>1 DEF PosterType

\* Where each of these moves leaves it.
LEMMA PosterPlaces ==
  /\ Done.at = "get"
  /\ \A at \in {"claim", "poll", "parent"} : [Done EXCEPT !.at = at].at = at
  /\ \A ts \in Held : [Done EXCEPT !.at = "message", !.ts = ts].at = "message"
  /\ \A p \in PosterType, ts \in Held :
       LET q == [p EXCEPT !.at = "update", !.ts = ts] IN q.at = "update" /\ q.ts = ts
  /\ \A p \in PosterType, n \in 0..(Polls - 1) : [p EXCEPT !.looks = n].at = p.at
BY DEF PosterType, Done

\* The thread's variables keep their types, whatever a handler does.
LEMMA PostingTypes ==
  ASSUME TypeOK, NEW h \in Posters, Posting(h) \/ PosterDies(h)
  PROVE  TypeOK'
<1> USE Numbers DEF TypeOK
<1> DEFINE PostersOK ==
      /\ poster \in [Posters -> PosterType]
      /\ \A k \in Posters : At(k, "update") => poster[k].ts \in 1..MaxThreads
<1>1. ASSUME NEW p \in PosterType, Sets(h, p), p.at = "update" => p.ts \in 1..MaxThreads
      PROVE  PostersOK'
  BY <1>1 DEF Sets, PosterType, At
<1>2. /\ thread.holds \in Held /\ Flat \in Held
      /\ poster[h] \in PosterType /\ poster[h].ts \in Held /\ poster[h].looks \in 0..(Polls - 1)
  BY DEF PosterType, Held, Flat
<1>3. ASSUME NEW ts \in Held, Posts(h, ts)
      PROVE  PostersOK'
  BY <1>1, <1>3, PosterMoves, PosterPlaces DEF Posts
<1> HIDE DEF PostersOK
<1>4. CASE UNCHANGED <<thread, parents, late, lockVars, happened>> /\ PostersOK'
  BY <1>4 DEF lockVars, PosterType, PostersOK
<1>5. CASE GetThreadTS(h)
  BY <1>1, <1>2, <1>3, <1>4, <1>5, PosterMoves, PosterPlaces DEF GetThreadTS
<1>6. CASE SetThreadTS(h)
  <2>1. PostersOK'
    BY <1>1, <1>2, <1>3, <1>6, PosterMoves, PosterPlaces DEF SetThreadTS
  <2>2. thread' \in {thread, Free, Placeholder} /\ happened' \in 0..MaxHappenings
    BY <1>6, HappensBounded DEF SetThreadTS
  <2> QED BY <1>6, <2>1, <2>2
      DEF SetThreadTS, lockVars, PosterType, PostersOK, Free, Placeholder, Held, Flat
<1>7. CASE PollThreadTS(h)
  <2>1. PostersOK'
    <3>1. poster[h].looks + 1 # Polls => poster[h].looks + 1 \in 0..(Polls - 1)
      BY <1>2
    <3>2. poster[h].looks + 1 # Polls =>
            [poster[h] EXCEPT !.looks = poster[h].looks + 1] \in PosterType
      BY <1>2, <3>1, PosterMoves
    <3>3. At(h, "poll") /\ poster[h].looks + 1 # Polls =>
            [poster[h] EXCEPT !.looks = poster[h].looks + 1].at = "poll"
      BY <1>2, <3>1, PosterPlaces DEF At
    <3> QED BY <1>1, <1>2, <1>3, <1>7, <3>2, <3>3 DEF PollThreadTS
  <2> QED BY <1>4, <1>7, <2>1 DEF PollThreadTS
<1>8. CASE PostParent(h)
  <2>1. parents' \in 0..MaxThreads /\ (parents' # parents => parents' \in Held)
    BY <1>8 DEF PostParent, Held
  <2>2. PostersOK'
    <3>1. parents < MaxThreads => parents + 1 \in Held /\ parents + 1 \in 1..MaxThreads
      BY DEF Held
    <3>2. ASSUME parents < MaxThreads,
                 Sets(h, [poster[h] EXCEPT !.at = "update", !.ts = parents + 1])
          PROVE  PostersOK'
      <4> DEFINE c == [poster[h] EXCEPT !.at = "update", !.ts = parents + 1]
      <4>1. c \in PosterType
        BY <1>2, <3>1, <3>2, PosterMoves, Zenon
      <4>2. c.ts = parents + 1
        BY <1>2 DEF PosterType
      <4> HIDE DEF c
      <4> QED BY <1>1, <3>1, <3>2, <4>1, <4>2 DEF c
    <3> QED BY <1>2, <1>3, <1>8, <3>2 DEF PostParent
  <2>3. thread' \in {thread, Free} /\ happened' \in 0..MaxHappenings
    BY <1>8, HappensBounded DEF PostParent
  <2> QED BY <1>8, <2>1, <2>2, <2>3 DEF PostParent, lockVars, PosterType, PostersOK, Free, Held, Flat
<1>9. CASE UpdateThreadTS(h)
  <2>1. PostersOK'
    BY <1>2, <1>3, <1>9 DEF UpdateThreadTS
  <2>2. happened' \in 0..MaxHappenings
    BY <1>9, HappensBounded DEF UpdateThreadTS
  <2> QED BY <1>2, <1>9, <2>1, <2>2 DEF At, UpdateThreadTS, lockVars, PosterType, PostersOK, Held, Flat
<1>10. CASE PostMessage(h)
  BY <1>1, <1>4, <1>10, PosterMoves, PosterPlaces DEF PostMessage
<1>11. CASE PosterDies(h)
  <2>1. PostersOK' /\ happened' \in 0..MaxHappenings
    BY <1>1, <1>11, PosterMoves, PosterPlaces, HappensBounded DEF PosterDies
  <2> QED BY <1>11, <2>1 DEF PosterDies, lockVars, PosterType, PostersOK
<1> QED BY <1>5, <1>6, <1>7, <1>8, <1>9, <1>10, <1>11 DEF Posting

\* The lock's variables keep their types, whatever a replica does.
LEMMA PassTypes ==
  ASSUME TypeOK, NEW r \in Replicas, Pass(r) \/ ReplicaRestarts(r)
  PROVE  TypeOK'
<1> USE Numbers, GapIsLong DEF TypeOK, NotRunning
<1> HIDE DEF LongestGap, Never
<1>1. UNCHANGED threadVars
  BY DEF Pass, HandleTick, EndPass, ReplicaRestarts
<1>2. happened' \in 0..MaxHappenings
  BY HappensBounded DEF Pass, HandleTick, EndPass, ReplicaRestarts
<1>3. lock' \in 0..LockTTL /\ since' \in 0..Never
  BY DEF Pass, HandleTick, TryLock, TryLockFails, EndPass, ReplicaRestarts
<1>4. replica' \in [Replicas -> ReplicaType]
  <2>1. replica \in [Replicas -> ReplicaType]
    BY DEF ReplicaType
  <2>2. \A c \in ReplicaType, p \in {0, 1} :
          /\ [c EXCEPT !.due = FALSE, !.pass = p] \in ReplicaType
          /\ [c EXCEPT !.due = FALSE] \in ReplicaType
          /\ [c EXCEPT !.pass = p] \in ReplicaType
    <3> DEFINE Lengths == 0..(LongestPass + 1)
    <3>1. 0 \in Lengths /\ 1 \in Lengths /\ ReplicaType = [next : 1..Interval, due : BOOLEAN, pass : Lengths]
      BY DEF ReplicaType
    <3> HIDE DEF Lengths
    <3> QED BY ONLY <3>1
  <2>3. [next |-> Interval, due |-> FALSE, pass |-> NotRunning] \in ReplicaType
    BY DEF ReplicaType
  <2>4. ASSUME NEW c \in ReplicaType, replica' = [replica EXCEPT ![r] = c]
        PROVE  replica' \in [Replicas -> ReplicaType]
    BY <2>1, <2>4
  <2>5. \E c \in ReplicaType : replica' = [replica EXCEPT ![r] = c]
    <3>1. replica[r] \in ReplicaType
      BY <2>1
    <3> QED BY <2>2, <2>3, <3>1 DEF Pass, HandleTick, TryLock, TryLockFails, EndPass, ReplicaRestarts
  <2> QED BY <2>4, <2>5
<1> QED BY <1>1, <1>2, <1>3, <1>4 DEF threadVars, ReplicaType, At

\* A tick keeps the types.
LEMMA TickTypes ==
  ASSUME TypeOK, Tick
  PROVE  TypeOK'
<1> USE Numbers, GapIsLong DEF TypeOK, NotRunning, Less
<1> HIDE DEF LongestGap, Never
<1>1. thread' \in [holds : Held, left : 0..ThreadTTL] /\ (thread'.left = 0 <=> thread'.holds = Flat)
  <2>1. thread.left \in 0..ThreadTTL /\ thread.holds \in Held /\ Flat \in Held
    BY DEF Held
  <2>2. CASE thread.left = 1
    BY <2>1, <2>2 DEF Tick, Free
  <2>3. CASE thread.left # 1
    <3>1. thread' = [thread EXCEPT !.left = Less(thread.left)]
      BY <2>3 DEF Tick
    <3> QED BY <2>1, <2>3, <3>1
  <2> QED BY <2>2, <2>3
<1>2. /\ poster' \in [Posters -> PosterType]
      /\ \A h \in Posters : poster'[h].at = poster[h].at /\ poster'[h].ts = poster[h].ts
  <2>1. ASSUME NEW h \in Posters
        PROVE  /\ poster'[h] \in PosterType
               /\ poster'[h].at = poster[h].at /\ poster'[h].ts = poster[h].ts
    <3>1. poster[h] \in PosterType /\ poster[h].age \in 0..ThreadTTL
      BY DEF PosterType
    <3>2. poster'[h] = IF Claiming(h) /\ poster[h].age < ThreadTTL
                       THEN [poster[h] EXCEPT !.age = poster[h].age + 1] ELSE poster[h]
      BY DEF Tick
    <3>3. poster[h].age < ThreadTTL => poster[h].age + 1 \in 0..ThreadTTL
      BY <3>1
    <3> QED BY <3>1, <3>2, <3>3 DEF PosterType
  <2>2. poster' = [h \in Posters |-> poster'[h]]
    BY DEF Tick
  <2> QED BY <2>1, <2>2
<1>3. /\ late' \in BOOLEAN /\ lock' \in 0..LockTTL /\ since' \in 0..Never
      /\ UNCHANGED <<parents, happened>>
  <2>1. late' \in BOOLEAN
    BY Zenon DEF Tick
  <2>2. lock' = Less(lock) /\ since' = IF since >= LongestGap THEN since ELSE since + 1
    BY DEF Tick
  <2>3. lock' \in 0..LockTTL
    BY <2>2
  <2>4. since' \in 0..Never
    BY <2>2
  <2> QED BY <2>1, <2>3, <2>4 DEF Tick
<1>4. replica' \in [Replicas -> ReplicaType]
  <2>1. ASSUME NEW r \in Replicas
        PROVE  [next |-> IF replica[r].next = 1 THEN Interval ELSE replica[r].next - 1,
                due  |-> replica[r].due \/ replica[r].next = 1,
                pass |-> IF replica[r].pass = NotRunning THEN NotRunning ELSE replica[r].pass + 1]
               \in ReplicaType
    <3>1. /\ replica[r].next \in 1..Interval /\ replica[r].due \in BOOLEAN
          /\ replica[r].pass \in 0..LongestPass
      BY DEF Tick
    <3>2. (replica[r].due \/ replica[r].next = 1) \in BOOLEAN
      BY Zenon
    <3> QED BY <3>1, <3>2 DEF ReplicaType
  <2> QED BY <2>1 DEF Tick
<1> QED BY <1>1, <1>2, <1>3, <1>4 DEF PosterType, ReplicaType, At

-----------------------------------------------------------------------------
(* What every step preserves: one handler opens the thread.                *)

\* No handler's step lets a second one open the thread while the first has its slot.
LEMMA PostingSlot ==
  ASSUME TypeOK, SlotInv, NEW h \in Posters, Posting(h) \/ PosterDies(h)
  PROVE  SlotInv'
<1> USE Numbers DEF TypeOK, SlotInv, Claiming, At
<1>1. UNCHANGED late
  BY DEF Posting, GetThreadTS, SetThreadTS, PollThreadTS, PostParent, UpdateThreadTS,
     PostMessage, PosterDies
<1>2. /\ Done.age = 0 /\ [Done EXCEPT !.at = "parent"].at = "parent"
      /\ [Done EXCEPT !.at = "parent"].age = 0
      /\ \A at \in {"claim", "poll"} : [Done EXCEPT !.at = at].at = at
      /\ Flat \in Held /\ thread.holds \in Held /\ poster[h].ts \in Held
  BY DEF Done, Held, Flat
<1>3. ASSUME NEW c, Sets(h, c), c.at \notin {"parent", "update"}, UNCHANGED thread
      PROVE  SlotInv'
  BY <1>1, <1>3 DEF Sets
<1>4. ASSUME NEW ts \in Held, Posts(h, ts), UNCHANGED thread
      PROVE  SlotInv'
  BY <1>3, <1>4, PosterPlaces DEF Posts
<1> HIDE DEF SlotInv
<1>5. CASE GetThreadTS(h)
  BY <1>2, <1>3, <1>4, <1>5 DEF GetThreadTS
<1> USE DEF SlotInv
<1>6. CASE SetThreadTS(h)
  <2>1. ASSUME ~late, thread = Free, NEW k \in Posters
        PROVE  ~Claiming(k)
    BY <2>1 DEF Free, Flat
  <2>2. CASE thread = Free /\ thread' = Placeholder /\ Sets(h, [Done EXCEPT !.at = "parent"])
    BY <1>1, <1>2, <2>1, <2>2 DEF Sets, Placeholder
  <2>3. CASE thread = Free /\ thread' \in {Free, Placeholder} /\ Posts(h, Flat)
    <3>1. [Done EXCEPT !.at = "message", !.ts = Flat].at = "message"
      BY <1>2, PosterPlaces
    <3>2. ~late => \A k \in Posters : ~Claiming(k)'
      BY <1>1, <2>1, <2>3, <3>1 DEF Sets, Posts
    <3> QED BY <1>1, <3>2
  <2> HIDE DEF SlotInv
  <2> QED BY <1>2, <1>3, <1>4, <1>6, <2>2, <2>3 DEF SetThreadTS
<1>7. CASE PollThreadTS(h)
  <2>1. [poster[h] EXCEPT !.looks = poster[h].looks + 1].at = poster[h].at
    OBVIOUS
  <2> QED BY <1>2, <1>3, <1>4, <1>7, <2>1 DEF PollThreadTS
<1>8. CASE PostParent(h)
  <2>1. CASE thread' \in {thread, Free} /\ Posts(h, Flat)
    BY <1>1, <1>2, <1>8, <2>1 DEF PostParent, Posts, Sets
  <2>2. ASSUME Sets(h, [poster[h] EXCEPT !.at = "update", !.ts = parents']), UNCHANGED thread
        PROVE  SlotInv'
    BY <1>1, <1>8, <2>2 DEF PostParent, Sets
  <2> QED BY <1>8, <2>1, <2>2 DEF PostParent
<1>9. CASE UpdateThreadTS(h)
  BY <1>1, <1>2, <1>9 DEF UpdateThreadTS, Posts, Sets
<1>10. CASE PostMessage(h)
  BY <1>3, <1>10, PosterPlaces DEF PostMessage
<1>11. CASE PosterDies(h)
  BY <1>3, <1>11, PosterPlaces DEF PosterDies
<1> QED BY <1>5, <1>6, <1>7, <1>8, <1>9, <1>10, <1>11 DEF Posting

\* A tick takes as much from the slot as it adds to the time its handler has had.
LEMMA TickSlot ==
  ASSUME TypeOK, SlotInv, Tick
  PROVE  SlotInv'
<1> USE Numbers DEF TypeOK, SlotInv, Less
<1>1. SUFFICES ASSUME ~late', NEW h \in Posters, Claiming(h)'
               PROVE  /\ poster'[h].age < ThreadTTL
                      /\ thread' = [holds |-> Pending, left |-> ThreadTTL - poster'[h].age]
                      /\ \A k \in Posters : Claiming(k)' => k = h
  OBVIOUS
<1>2. ASSUME NEW k \in Posters
      PROVE  /\ poster[k] \in PosterType /\ poster[k].age \in 0..ThreadTTL
             /\ poster'[k] = IF Claiming(k) /\ poster[k].age < ThreadTTL
                             THEN [poster[k] EXCEPT !.age = poster[k].age + 1] ELSE poster[k]
  BY DEF Tick, PosterType
<1>3. \A k \in Posters : Claiming(k)' <=> Claiming(k)
  <2>1. \A c \in PosterType, n \in 0..ThreadTTL : [c EXCEPT !.age = n].at = c.at
    BY DEF PosterType
  <2>2. ASSUME NEW k \in Posters
        PROVE  poster'[k].at = poster[k].at
    <3>1. CASE Claiming(k) /\ poster[k].age < ThreadTTL
      <4>1. poster[k].age + 1 \in 0..ThreadTTL
        BY <1>2, <3>1
      <4>2. [poster[k] EXCEPT !.age = poster[k].age + 1].at = poster[k].at
        BY <1>2, <2>1, <4>1
      <4> QED BY <1>2, <3>1, <4>2
    <3>2. CASE ~(Claiming(k) /\ poster[k].age < ThreadTTL)
      BY <1>2, <3>2
    <3> QED BY <3>1, <3>2
  <2> QED BY <2>2 DEF Claiming
<1>4. ~late /\ Claiming(h) /\ poster'[h].age # ThreadTTL
  BY <1>1, <1>3 DEF Tick
<1>5. /\ poster[h].age < ThreadTTL /\ thread = [holds |-> Pending, left |-> ThreadTTL - poster[h].age]
      /\ \A k \in Posters : Claiming(k) => k = h
  BY <1>4
<1>6. poster'[h].age = poster[h].age + 1
  BY <1>2, <1>4, <1>5 DEF PosterType
<1>7. thread.left = ThreadTTL - poster[h].age /\ thread.left # 1 /\ thread.left # 0
  BY <1>2, <1>4, <1>5, <1>6
<1>8. thread' = [thread EXCEPT !.left = thread.left - 1]
  BY <1>7 DEF Tick
<1> QED BY <1>2, <1>3, <1>4, <1>5, <1>6, <1>7, <1>8

-----------------------------------------------------------------------------
(* What every step preserves: the lock covers a pass.                      *)

\* No replica's step brings two covered passes together.
LEMMA PassLock ==
  ASSUME TypeOK, LockInv, NEW r \in Replicas, Pass(r) \/ ReplicaRestarts(r)
  PROVE  LockInv'
<1> USE Numbers, GapIsLong DEF TypeOK, LockInv, NotRunning
<1> HIDE DEF LongestGap, Never
<1>1. ASSUME UNCHANGED <<lock, since>>, NEW c, replica' = [replica EXCEPT ![r] = c],
             c.pass \in {NotRunning, replica[r].pass}
      PROVE  LockInv'
  BY <1>1
<1>2. CASE HandleTick(r)
  <2>1. CASE lock = 0 /\ TryLock(r)
    <3>1. \A q \in Replicas : replica'[q].pass = IF q = r THEN 1 ELSE replica[q].pass
      BY <2>1 DEF TryLock
    <3>2. lock' = LockTTL /\ since' = 0
      BY <2>1 DEF TryLock
    <3>3. \A q \in Replicas : replica[q].pass = 0 \/ replica[q].pass > LockTTL
      BY <2>1
    <3> QED BY <3>1, <3>2, <3>3
  <2>2. CASE lock # 0 /\ TryLock(r)
    <3>1. [replica[r] EXCEPT !.due = FALSE, !.pass = NotRunning].pass = NotRunning
      OBVIOUS
    <3> QED BY <1>1, <2>2, <3>1 DEF TryLock
  <2>3. CASE TryLockFails(r)
    <3>1. \A q \in Replicas : replica'[q].pass = replica[q].pass
      BY <2>3 DEF TryLockFails
    <3>2. lock' \in 0..LockTTL /\ lock' >= lock /\ since' = since
      BY <2>3 DEF TryLockFails
    <3> QED BY <3>1, <3>2
  <2> QED BY <1>2, <2>1, <2>2, <2>3 DEF HandleTick
<1>3. CASE EndPass(r)
  <2>1. [replica[r] EXCEPT !.pass = NotRunning].pass = NotRunning
    OBVIOUS
  <2> QED BY <1>1, <1>3, <2>1 DEF EndPass
<1>4. CASE ReplicaRestarts(r)
  BY <1>1, <1>4 DEF ReplicaRestarts
<1> QED BY <1>2, <1>3, <1>4 DEF Pass

\* A tick takes as much from the lock as it adds to a pass.
LEMMA TickLock ==
  ASSUME TypeOK, LockInv, Tick
  PROVE  LockInv'
<1> USE Numbers, GapIsLong DEF TypeOK, LockInv, NotRunning, Less
<1> HIDE DEF LongestGap, Never
<1>1. \A r \in Replicas :
        replica'[r].pass = IF replica[r].pass = 0 THEN 0 ELSE replica[r].pass + 1
  BY DEF Tick
<1>2. lock' = Less(lock) /\ since' = IF since >= LongestGap THEN since ELSE since + 1
  BY DEF Tick
<1> QED BY <1>1, <1>2

-----------------------------------------------------------------------------
(* What every step preserves: passes keep pace.                            *)

\* The latest a pass may begin moves on by two intervals with each happening.
LEMMA Latest ==
  ASSUME NEW n \in Nat
  PROVE  /\ Interval * (2 + 2 * n) \in Nat /\ Interval * (2 + 2 * n) >= 2 * Interval
         /\ Interval * (2 + 2 * (n + 1)) = Interval * (2 + 2 * n) + 2 * Interval
         /\ n <= MaxHappenings => Interval * (2 + 2 * n) < LongestGap
<1>1. Interval \in Nat /\ MaxHappenings \in Nat
  BY Numbers
<1>2. \A k \in Nat : Interval * (2 + 2 * k) = 2 * Interval + 2 * (Interval * k) /\ Interval * k \in Nat
  BY <1>1
<1>3. Interval * (2 + 2 * (n + 1)) = Interval * (2 + 2 * n) + 2 * Interval
  BY <1>1
<1>4. ASSUME n <= MaxHappenings PROVE Interval * (2 + 2 * n) < LongestGap
  <2>1. PICK m \in Nat : MaxHappenings = n + m
    BY <1>1, <1>4
  <2>2. Interval * (2 + 2 * (n + m)) = Interval * (2 + 2 * n) + 2 * (Interval * m)
    BY <1>1
  <2> HIDE DEF LongestGap
  <2>3. LongestGap = Interval * (2 + 2 * (n + m)) + 1
    BY <2>1 DEF LongestGap
  <2> QED BY <1>2, <2>2, <2>3
<1> QED BY <1>1, <1>2, <1>3, <1>4

\* What PaceInv says of one replica.
Paced(r) ==
  /\ replica[r].pass # NotRunning /\ ~replica[r].due
       => replica[r].pass + replica[r].next <= Interval + 1
  /\ since # Never =>
       \/ replica[r].pass # NotRunning /\ since < replica[r].pass
       \/ replica[r].pass = NotRunning /\ replica[r].due
       \/ replica[r].pass = NotRunning /\ since + replica[r].next <= LatestPass

LockTells ==
  since # Never =>
    /\ Replicas # {} /\ since <= LatestPass
    /\ lock # 0 => since + lock + Interval <= LatestPass + 1

\* PaceInv is about the lock and about each replica.
LEMMA PaceParts == PaceInv <=> LockTells /\ \A r \in Replicas : Paced(r)
BY DEF PaceInv, LockTells, Paced

\* What the lock tells holds the more so when a pass may begin later.
LEMMA TellsLater ==
  ASSUME since \in Nat, lock \in Nat, LatestPass \in Nat, LatestPass' \in Nat,
         LatestPass' >= LatestPass, LockTells, UNCHANGED <<lock, since>>
  PROVE  LockTells'
<1> HIDE DEF Never
<1>1. Interval \in Nat
  BY Numbers
<1>2. \A s, l, i, a, b \in Nat :
        /\ s <= a /\ b >= a => s <= b
        /\ s + l + i <= a + 1 /\ b >= a => s + l + i <= b + 1
  OBVIOUS
<1>3. since <= LatestPass => since <= LatestPass'
  BY <1>2
<1>4. since + lock + Interval <= LatestPass + 1 => since + lock + Interval <= LatestPass' + 1
  BY <1>1, <1>2
<1> QED BY <1>3, <1>4 DEF LockTells

\* While the lock is there, a replica that comes back within an interval is in time.
LEMMA LockInTime ==
  ASSUME since \in Nat, lock \in Nat, lock # 0, since # Never, LatestPass \in Nat, LockTells,
         NEW n \in 1..Interval
  PROVE  since + n <= LatestPass
<1> HIDE DEF Never
<1>1. Interval \in Nat /\ n \in Nat /\ n <= Interval /\ lock >= 1
  BY Numbers
<1>2. since + lock + Interval <= LatestPass + 1
  BY DEF LockTells
<1>3. \A s, l, i, a \in Nat : l >= 1 /\ n <= i /\ s + l + i <= a + 1 => s + n <= a
  BY <1>1
<1> QED BY <1>1, <1>2, <1>3

\* A happening elsewhere only gives more time.
LEMMA MoreTime ==
  ASSUME TypeOK, PaceInv, UNCHANGED <<lock, since, replica>>,
         happened' \in {happened, happened + 1, happened + 2}
  PROVE  PaceInv'
<1> USE Numbers DEF TypeOK
<1> HIDE DEF Never
<1>1. LatestPass \in Nat /\ LatestPass' \in Nat /\ LatestPass' >= LatestPass
  <2>1. happened \in Nat /\ happened + 1 \in Nat /\ Interval \in Nat
    OBVIOUS
  <2>2. (happened + 1) + 1 = happened + 2
    BY <2>1
  <2>3. /\ Interval * (2 + 2 * happened) \in Nat
        /\ Interval * (2 + 2 * (happened + 1)) = Interval * (2 + 2 * happened) + 2 * Interval
        /\ Interval * (2 + 2 * (happened + 2)) = Interval * (2 + 2 * (happened + 1)) + 2 * Interval
    BY <2>1, <2>2, Latest
  <2> DEFINE at(n) == Interval * (2 + 2 * n)
  <2>4. LatestPass = at(happened) /\ LatestPass' = at(happened')
    BY DEF LatestPass
  <2>5. happened' = happened \/ happened' = happened + 1 \/ happened' = happened + 2
    OBVIOUS
  <2>6. /\ at(happened) \in Nat /\ at(happened + 1) = at(happened) + 2 * Interval
        /\ at(happened + 2) = at(happened + 1) + 2 * Interval
    BY <2>3
  <2> HIDE DEF at
  <2> QED BY <2>1, <2>4, <2>5, <2>6
<1>2. \A r \in Replicas : replica[r].next \in Nat
  OBVIOUS
<1>3. LockTells'
  <2>1. since \in Nat /\ lock \in Nat /\ LockTells
    BY GapIsLong, PaceParts
  <2> QED BY <1>1, <2>1, TellsLater
<1>4. ASSUME NEW r \in Replicas PROVE Paced(r)'
  BY <1>1, <1>2, GapIsLong DEF PaceInv, Paced
<1> QED BY <1>3, <1>4 DEF PaceInv, LockTells, Paced

\* A replica that dies, that fails to ask, or that is told that another has the lock,
\* is back within an interval; a lock taken by a call that failed is gone within two;
\* a replica that begins a pass lets the others off.
LEMMA PassPace ==
  ASSUME TypeOK, AsConfigured, PaceInv, NEW r \in Replicas, Pass(r) \/ ReplicaRestarts(r)
  PROVE  PaceInv'
<1> USE Numbers, GapIsLong DEF TypeOK, NotRunning, AsConfigured
<1> HIDE DEF LongestGap, Never
<1>1. LockTells /\ \A q \in Replicas : Paced(q)
  BY PaceParts
<1> DEFINE later == Interval * (2 + 2 * (happened + 1))
<1>2. /\ happened \in Nat /\ LatestPass \in Nat /\ LatestPass >= 2 * Interval
      /\ later = LatestPass + 2 * Interval /\ Interval \in Nat
  BY Latest DEF LatestPass
<1> HIDE DEF later
<1>3. happened' = happened + 1 => LatestPass' = later
  BY DEF LatestPass, later
<1>4. happened' = happened => LatestPass' = LatestPass
  BY DEF LatestPass
<1>5. LatestPass' \in Nat /\ LatestPass' >= LatestPass
  <2>1. happened' \in {happened, happened + 1}
    BY DEF Pass, HandleTick, EndPass, ReplicaRestarts, Happens
  <2> QED BY <1>2, <1>3, <1>4, <2>1
<1>6. \A q \in Replicas : replica[q] \in ReplicaType
  BY DEF ReplicaType
<1>7. ASSUME UNCHANGED <<lock, since>>, NEW c \in ReplicaType, replica' = [replica EXCEPT ![r] = c],
             c.pass # 0 /\ ~c.due => c.pass + c.next <= Interval + 1,
             since # Never => \/ c.pass # 0 /\ since < c.pass
                              \/ c.pass = 0 /\ c.due
                              \/ c.pass = 0 /\ since + c.next <= LatestPass'
      PROVE  PaceInv'
  <2>1. LockTells'
    <3>1. since \in Nat /\ lock \in Nat
      OBVIOUS
    <3> QED BY <1>1, <1>2, <1>5, <1>7, <3>1, TellsLater
  <2>2. replica'[r] = c /\ \A q \in Replicas \ {r} : replica'[q] = replica[q]
    BY <1>7
  <2>3. Paced(r)'
    BY <1>7, <2>2 DEF Paced
  <2>4. ASSUME NEW q \in Replicas \ {r} PROVE Paced(q)'
    BY <1>1, <1>2, <1>5, <1>6, <1>7, <2>2, <2>4 DEF Paced, ReplicaType
  <2> QED BY <2>1, <2>3, <2>4 DEF PaceInv, LockTells, Paced
<1>8. CASE HandleTick(r)
  <2>1. replica[r].due /\ replica[r].pass = 0
    BY <1>8 DEF HandleTick, Waiting
  <2> DEFINE idle == [replica[r] EXCEPT !.due = FALSE]
  <2>2. /\ idle \in ReplicaType /\ idle.pass = 0 /\ idle.next = replica[r].next
        /\ idle.next \in 1..Interval
    BY <1>6, <2>1 DEF ReplicaType
  <2>3. CASE lock = 0 /\ TryLock(r) /\ Happens(0)
    <3>1. lock' = LockTTL /\ since' = 0 /\ LatestPass' = LatestPass
      BY <1>4, <2>3 DEF TryLock, Happens
    <3>2. /\ replica'[r] = [replica[r] EXCEPT !.due = FALSE, !.pass = 1]
          /\ \A q \in Replicas \ {r} : replica'[q] = replica[q]
      BY <2>3 DEF TryLock
    <3>3. LockTells'
      BY <1>2, <3>1 DEF LockTells
    <3>4. Paced(r)'
      BY <1>6, <3>1, <3>2 DEF Paced, ReplicaType
    <3>5. ASSUME NEW q \in Replicas \ {r} PROVE Paced(q)'
      BY <1>1, <1>2, <1>6, <3>1, <3>2, <3>5 DEF Paced, ReplicaType
    <3> QED BY <3>3, <3>4, <3>5 DEF PaceInv, LockTells, Paced
  <2>4. CASE lock # 0 /\ TryLock(r) /\ Happens(0)
    <3>1. UNCHANGED <<lock, since>> /\ LatestPass' = LatestPass
      BY <1>4, <2>4 DEF TryLock, Happens
    <3>2. [replica[r] EXCEPT !.due = FALSE, !.pass = 0] = idle
      BY <1>6, <2>1 DEF ReplicaType
    <3>3. replica' = [replica EXCEPT ![r] = idle]
      BY <2>4, <3>2 DEF TryLock
    <3>4. since # Never => since + idle.next <= LatestPass
      <4>1. since \in Nat /\ lock \in Nat /\ lock # 0
        BY <2>4
      <4> QED BY <1>1, <1>2, <2>2, <4>1, LockInTime
    <3> QED BY <1>7, <2>2, <3>1, <3>3, <3>4
  <2>5. CASE TryLockFails(r) /\ Happens(1)
    <3>1. LatestPass' = later /\ replica' = [replica EXCEPT ![r] = idle]
      BY <1>3, <2>5 DEF Happens, TryLockFails
    <3>2. since # Never => since + idle.next <= LatestPass'
      BY <1>1, <1>2, <2>2, <3>1 DEF LockTells
    <3>3. CASE lock' = lock
      BY <1>7, <2>2, <2>5, <3>1, <3>2, <3>3 DEF TryLockFails
    <3>4. CASE lock = 0 /\ lock' = LockTTL
      <4>1. since' = since /\ since \in Nat
        BY <2>5 DEF TryLockFails
      <4>2. LockTells'
        BY <1>1, <1>2, <3>1, <3>4, <4>1 DEF LockTells
      <4>3. replica'[r] = idle /\ \A q \in Replicas \ {r} : replica'[q] = replica[q]
        BY <3>1
      <4>4. Paced(r)'
        BY <2>2, <3>2, <4>1, <4>3 DEF Paced
      <4>5. ASSUME NEW q \in Replicas \ {r} PROVE Paced(q)'
        BY <1>1, <1>2, <1>5, <1>6, <4>1, <4>3, <4>5 DEF Paced, ReplicaType
      <4> QED BY <4>2, <4>4, <4>5 DEF PaceInv, LockTells, Paced
    <3> QED BY <2>5, <3>3, <3>4 DEF TryLockFails
  <2> QED BY <1>8, <2>3, <2>4, <2>5 DEF HandleTick
<1>9. CASE EndPass(r)
  <2> DEFINE c == [replica[r] EXCEPT !.pass = 0]
  <2>1. /\ UNCHANGED <<lock, since>> /\ LatestPass' = LatestPass /\ replica' = [replica EXCEPT ![r] = c]
        /\ replica[r].pass # 0
    BY <1>4, <1>9 DEF EndPass
  <2>2. /\ c \in ReplicaType /\ c.pass = 0 /\ c.due = replica[r].due /\ c.next = replica[r].next
        /\ c.next \in 1..Interval /\ replica[r].pass \in Nat
    BY <1>6 DEF ReplicaType
  <2>3. since # Never /\ ~c.due => since + c.next <= LatestPass
    BY <1>1, <1>2, <2>1, <2>2 DEF Paced
  <2> QED BY <1>7, <2>1, <2>2, <2>3
<1>10. CASE ReplicaRestarts(r)
  <2> DEFINE c == [next |-> Interval, due |-> FALSE, pass |-> 0]
  <2>1. UNCHANGED <<lock, since>> /\ LatestPass' = later /\ replica' = [replica EXCEPT ![r] = c]
    BY <1>3, <1>10 DEF ReplicaRestarts, Happens
  <2>2. c \in ReplicaType /\ c.pass = 0
    BY DEF ReplicaType
  <2>3. since # Never => since + c.next <= LatestPass'
    BY <1>1, <1>2, <2>1 DEF LockTells
  <2> QED BY <1>7, <2>1, <2>2, <2>3
<1> QED BY <1>8, <1>9, <1>10 DEF Pass

\* A tick brings a replica as much nearer to its next try as it takes from the time
\* there is, and nobody lets one go by.
LEMMA TickPace ==
  ASSUME TypeOK, AsConfigured, PaceInv, Tick
  PROVE  PaceInv'
<1> USE Numbers, GapIsLong DEF TypeOK, NotRunning, AsConfigured, Less
<1> HIDE DEF LongestGap, Never
<1>1. LockTells /\ \A q \in Replicas : Paced(q)
  BY PaceParts
<1>2. /\ LatestPass' = LatestPass /\ LatestPass \in Nat /\ LatestPass >= 2 * Interval
      /\ LatestPass < LongestGap
  BY Latest DEF Tick, LatestPass
<1>3. lock' = Less(lock) /\ since' = IF since >= LongestGap THEN since ELSE since + 1
  BY DEF Tick
<1>4. since # Never => since' = since + 1
  BY <1>1, <1>2, <1>3 DEF LockTells
<1>5. since' # Never => since # Never
  BY <1>3
<1>6. ASSUME NEW r \in Replicas
      PROVE  /\ replica[r] \in ReplicaType
             /\ ~(replica[r].due /\ replica[r].pass = 0) /\ replica[r].pass <= LongestPass
             /\ replica'[r].next = IF replica[r].next = 1 THEN Interval ELSE replica[r].next - 1
             /\ replica'[r].due <=> replica[r].due \/ replica[r].next = 1
             /\ replica'[r].pass = IF replica[r].pass = 0 THEN 0 ELSE replica[r].pass + 1
  BY DEF Tick, Waiting, ReplicaType
<1>7. ASSUME NEW r \in Replicas, since # Never PROVE since + 1 <= LatestPass
  BY <1>1, <1>2, <1>6, <1>7 DEF Paced, ReplicaType
<1>8. LockTells'
  BY <1>1, <1>2, <1>3, <1>4, <1>5, <1>7 DEF LockTells
<1>9. ASSUME NEW r \in Replicas PROVE Paced(r)'
  <2>1. Paced(r) /\ replica[r].next \in 1..Interval /\ replica[r].pass \in Nat /\ replica[r].due \in BOOLEAN
    BY <1>1, <1>6 DEF ReplicaType
  <2>2. replica'[r].pass # 0 /\ ~replica'[r].due => replica'[r].pass + replica'[r].next <= Interval + 1
    BY <1>6, <2>1 DEF Paced
  <2>3. ASSUME since # Never, since \in Nat, replica[r].pass = 0
        PROVE  /\ replica'[r].pass = 0
               /\ replica'[r].due \/ (since + 1) + replica'[r].next <= LatestPass
    BY <1>2, <1>6, <2>1, <2>3 DEF Paced
  <2>4. ASSUME since # Never, since \in Nat, replica[r].pass # 0
        PROVE  replica'[r].pass # 0 /\ since + 1 < replica'[r].pass
    BY <1>6, <2>1, <2>4 DEF Paced
  <2>5. since \in Nat
    OBVIOUS
  <2> QED BY <1>2, <1>4, <1>5, <2>2, <2>3, <2>4, <2>5 DEF Paced
<1> QED BY <1>8, <1>9 DEF PaceInv, LockTells, Paced

-----------------------------------------------------------------------------
(* The theorems.                                                           *)

\* At the start no key is there and no pass runs.
LEMMA InitInv == Init => KeysInv
<1> SUFFICES ASSUME Init PROVE KeysInv
  OBVIOUS
<1> USE Numbers, GapIsLong DEF Init
<1> HIDE DEF LongestGap, Never
<1>1. TypeOK
  <2>1. thread \in [holds : Held, left : 0..ThreadTTL] /\ (thread.left = 0 <=> thread.holds = Flat)
    BY DEF Free, Held, Flat
  <2>2. poster \in [Posters -> PosterType] /\ \A h \in Posters : ~At(h, "update")
    BY PosterMoves, PosterPlaces DEF At
  <2>3. parents \in 0..MaxThreads /\ lock \in 0..LockTTL /\ happened \in 0..MaxHappenings
    OBVIOUS
  <2>4. late \in BOOLEAN
    BY Zenon
  <2>5. since \in 0..Never
    OBVIOUS
  <2>6. replica \in [Replicas -> ReplicaType]
    <3>1. 0 \in 0..(LongestPass + 1)
      OBVIOUS
    <3>2. [next : 1..Interval, due : {FALSE}, pass : {0}] \subseteq ReplicaType
      BY ONLY <3>1 DEF ReplicaType
    <3> QED BY ONLY <3>2, Init DEF Init, NotRunning
  <2> QED BY <2>1, <2>2, <2>3, <2>4, <2>5, <2>6 DEF TypeOK, PosterType, ReplicaType
<1>2. SlotInv
  BY PosterPlaces DEF SlotInv, Claiming
<1>3. LockInv
  <2>1. \A r \in Replicas : replica[r].pass = NotRunning
    OBVIOUS
  <2>2. since >= LongestGap
    OBVIOUS
  <2> QED BY <2>1, <2>2 DEF LockInv
<1>4. PaceInv
  BY DEF PaceInv
<1> QED BY <1>1, <1>2, <1>3, <1>4 DEF KeysInv

\* The parts are preserved together.
LEMMA StepInv == KeysInv /\ [Next]_vars => KeysInv'
<1> SUFFICES ASSUME KeysInv, [Next]_vars PROVE KeysInv'
  OBVIOUS
<1>1. CASE UNCHANGED vars
  BY <1>1 DEF KeysInv, TypeOK, SlotInv, LockInv, PaceInv, LatestPass, vars, threadVars,
     lockVars, At, Claiming
<1>2. ASSUME NEW h \in Posters, Posting(h) \/ PosterDies(h)
      PROVE  KeysInv'
  <2>1. UNCHANGED lockVars
    BY <1>2 DEF Posting, GetThreadTS, SetThreadTS, PollThreadTS, PostParent, UpdateThreadTS,
       PostMessage, PosterDies
  <2>2. LockInv'
    BY <2>1 DEF KeysInv, LockInv, lockVars
  <2>3. PaceInv => PaceInv'
    <3>1. happened' \in {happened, happened + 1, happened + 2}
      BY <1>2, Numbers DEF KeysInv, TypeOK, Posting, GetThreadTS, SetThreadTS, PollThreadTS,
         PostParent, UpdateThreadTS, PostMessage, PosterDies, Happens
    <3> QED BY <2>1, <3>1, MoreTime DEF KeysInv, lockVars
  <2> QED BY <1>2, <2>2, <2>3, PostingTypes, PostingSlot DEF KeysInv
<1>3. ASSUME NEW r \in Replicas, Pass(r) \/ ReplicaRestarts(r)
      PROVE  KeysInv'
  <2>1. UNCHANGED threadVars
    BY <1>3 DEF Pass, HandleTick, EndPass, ReplicaRestarts
  <2>2. SlotInv'
    BY <2>1 DEF KeysInv, SlotInv, Claiming, threadVars
  <2> QED BY <1>3, <2>2, PassTypes, PassLock, PassPace DEF KeysInv
<1>4. CASE Tick
  BY <1>4, TickTypes, TickSlot, TickLock, TickPace DEF KeysInv
<1> QED BY <1>1, <1>2, <1>3, <1>4 DEF Next

\* The inductive invariant holds in every state the program reaches.
THEOREM Invariance == Spec => []KeysInv
<1>1. Init => KeysInv
  BY InitInv
<1>2. KeysInv /\ [Next]_vars => KeysInv'
  BY StepInv
<1> QED BY <1>1, <1>2, PTL DEF Spec

\* Every variable keeps its type.
THEOREM TypeCorrect == Spec => []TypeOK
<1>1. KeysInv => TypeOK
  BY DEF KeysInv
<1> QED BY <1>1, Invariance, PTL

\* getThreadTS opens one thread at a time, unless a slot runs out under its handler:
\* whichever handlers die, however long each of them polls.
THEOREM OneOpener == Spec => []OneOpensTheThread
<1>1. ASSUME KeysInv
      PROVE  OneOpensTheThread
  <2> DEFINE C == {h \in Posters : Claiming(h)}
  <2>1. CASE late
    BY <2>1 DEF OneOpensTheThread
  <2>2. CASE C = {}
    BY <2>2, FS_EmptySet DEF OneOpensTheThread
  <2>3. ASSUME ~late, NEW h \in C
        PROVE  OneOpensTheThread
    <3>1. C = {h}
      BY <1>1, <2>3 DEF KeysInv, SlotInv
    <3>2. Cardinality(C) = 1
      BY <3>1, FS_Singleton
    <3> QED BY <3>2 DEF OneOpensTheThread
  <2> QED BY <2>1, <2>2, <2>3
<1> QED BY <1>1, Invariance, PTL

\* TryLock keeps two replicas out of one pass unless one of them is in it for longer
\* than the lock lives.
THEOREM LongPassesOverlap == Spec => []PassesOverlapWhenLong
<1>1. KeysInv => PassesOverlapWhenLong
  BY Numbers DEF KeysInv, TypeOK, LockInv, PassesOverlapWhenLong, NotRunning
<1> QED BY <1>1, Invariance, PTL

\* A pass begins more than an interval after the last one, since the lock outlives
\* the interval and nobody releases it.
THEOREM PassesApart == Spec => PassesKeepApart
<1>1. ASSUME KeysInv, [Next]_vars, NEW r \in Replicas,
             replica[r].pass = NotRunning, replica'[r].pass # NotRunning
      PROVE  since > Interval
  <2> USE <1>1, Numbers, GapIsLong DEF KeysInv, TypeOK, NotRunning
  <2> HIDE DEF LongestGap, Never
  <2>1. lock = 0
    <3>1. ASSUME NEW h \in Posters, Posting(h) \/ PosterDies(h)
          PROVE  FALSE
      BY <3>1 DEF lockVars, Posting, GetThreadTS, SetThreadTS, PollThreadTS, PostParent,
         UpdateThreadTS, PostMessage, PosterDies
    <3>2. ASSUME NEW q \in Replicas, Pass(q) \/ ReplicaRestarts(q)
          PROVE  lock = 0
      BY <3>2 DEF Pass, HandleTick, TryLock, TryLockFails, EndPass, ReplicaRestarts
    <3>3. CASE Tick
      BY <3>3 DEF Tick
    <3>4. CASE UNCHANGED vars
      BY <3>4 DEF vars, lockVars
    <3> QED BY <3>1, <3>2, <3>3, <3>4 DEF Next
  <2> QED BY <2>1 DEF LockInv
<1>2. KeysInv /\ [Next]_vars => [\A r \in Replicas :
        replica[r].pass = NotRunning /\ replica'[r].pass # NotRunning => since > Interval]_vars
  BY <1>1
<1> QED BY <1>2, Invariance, PTL DEF Spec, PassesKeepApart

\* Whichever replicas run the passes, and whichever die or fail to take the lock, a pass
\* begins more than an interval after the last one and at most two intervals after it,
\* two more for each happening, as long as the lock lives one tick longer.
THEOREM PassesPace == ASSUME AsConfigured PROVE Spec => PassesKeepPace
<1>1. KeysInv => (since # Never => since <= LatestPass)
  BY AsConfigured DEF KeysInv, PaceInv
<1> QED BY <1>1, Invariance, PassesApart, PTL DEF PassesKeepPace
=============================================================================
