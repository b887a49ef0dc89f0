----------------------------- MODULE ExpiringKeys -----------------------------
(***************************************************************************)
(* Two keys of Redis that replicas share and that run out by themselves:   *)
(* the thread under which the messages of one environment are posted       *)
(* (internal/bot/thread.go), and the system lock that lets one replica at  *)
(* a time run a periodic pass: the sweeper's, the reconciliation's or the  *)
(* retention's (cmd/bot/main.go).                                          *)
(*                                                                         *)
(* Time goes by in ticks.  A thread is the number of its parent message;   *)
(* a placeholder is kept in its place while that is posted.                *)
(***************************************************************************)
EXTENDS Naturals, FiniteSets

CONSTANTS
  Posters,       \* handlers with a message for the environment
  Replicas,      \* worker replicas, each with a ticker for the pass
  ThreadTTL,     \* ticks the key of the thread lives
  Pending,       \* the placeholder
  Polls,         \* times a handler looks for the thread another one is opening
  Interval,      \* ticks between two ticks of a ticker
  LockTTL,       \* ticks the lock lives
  LongestPass,   \* bound: ticks a pass may take
  MaxThreads,    \* bound: parent messages posted
  MaxHappenings  \* bound: failed calls and replicas that die, taken together

ASSUME KeysAssumption ==
  /\ IsFiniteSet(Posters) /\ IsFiniteSet(Replicas)
  /\ {ThreadTTL, Polls, Interval, LockTTL, LongestPass, MaxThreads} \subseteq Nat \ {0}
  /\ Interval < LockTTL
  /\ Pending \notin Nat /\ MaxHappenings \in Nat

Flat == 0   \* no thread: the message goes to the channel

VARIABLES
  thread,   \* Redis: thread:<env>, what it holds and the ticks it has left
  poster,   \* handlers: the next call of getThreadTS, its result, looks taken,
            \* and ticks since the slot was claimed
  parents,  \* how many parent messages were posted
  late,     \* whether a handler was still opening a thread when its slot ran out
  lock,     \* Redis: the ticks the system lock has left
  replica,  \* replicas: ticks to the next tick, whether one waits, and the
            \* ticks a pass has run for
  since,    \* ticks since a pass was last begun, or Never
  happened  \* how many of the bounded happenings there were

threadVars == <<thread, poster, parents, late>>
lockVars == <<lock, replica, since>>
vars == <<threadVars, lockVars, happened>>

Free == [holds |-> Flat, left |-> 0]
Done == [at |-> "get", ts |-> Flat, looks |-> 0, age |-> 0]
LongestGap == Interval * (2 + 2 * MaxHappenings) + 1
Never == LongestGap + 1   \* no pass has begun yet
NotRunning == 0   \* a pass has run for as many ticks, less one

Init ==
  /\ thread = Free
  /\ poster = [h \in Posters |-> Done]
  /\ parents = 0
  /\ late = FALSE
  /\ lock = 0
  /\ replica \in [Replicas -> [next : 1..Interval, due : {FALSE}, pass : {NotRunning}]]
  /\ since = Never
  /\ happened = 0

Happens(n) == happened + n <= MaxHappenings /\ happened' = happened + n

-----------------------------------------------------------------------------
(* The thread of the environment.                                          *)

At(h, step) == poster[h].at = step
Sets(h, to) == poster' = [poster EXCEPT ![h] = to]
Posts(h, ts) == Sets(h, [Done EXCEPT !.at = "message", !.ts = ts])

Claiming(h) == poster[h].at \in {"parent", "update"}

\* A thread that is there is used, the placeholder too.  The message is posted
\* flat when Redis or Postgres fails, or no thread is there and few deploys are pending.
GetThreadTS(h) ==
  /\ At(h, "get")
  /\ \/ Posts(h, Flat)
     \/ thread # Free /\ Posts(h, thread.holds)
     \/ thread = Free /\ parents < MaxThreads /\ Sets(h, [Done EXCEPT !.at = "claim"])
  /\ UNCHANGED <<thread, parents, late, lockVars, happened>>

\* Mutant: a claim does not look whether the key exists.
SetThreadTSAlways(h) ==
  /\ At(h, "claim")
  /\ thread' = [holds |-> Pending, left |-> ThreadTTL] /\ Sets(h, [Done EXCEPT !.at = "parent"])
  /\ UNCHANGED <<parents, late, lockVars, happened>>

\* Mutant: the placeholder has no TTL.
SetThreadTSForever(h) ==
  /\ At(h, "claim")
  /\ IF thread = Free
     THEN thread' = [holds |-> Pending, left |-> 0] /\ Sets(h, [Done EXCEPT !.at = "parent"])
     ELSE thread' = thread /\ Sets(h, [Done EXCEPT !.at = "poll"])
  /\ UNCHANGED <<parents, late, lockVars, happened>>

Placeholder == [holds |-> Pending, left |-> ThreadTTL]

\* SET NX of the placeholder: one handler opens the thread, the others look for it.
\* When it fails the message is posted flat, though the key may have been set.
SetThreadTS(h) ==
  /\ At(h, "claim")
  /\ \/ /\ thread = Free /\ thread' = Placeholder
        /\ Sets(h, [Done EXCEPT !.at = "parent"]) /\ Happens(0)
     \/ thread # Free /\ thread' = thread /\ Sets(h, [Done EXCEPT !.at = "poll"]) /\ Happens(0)
     \/ /\ thread' \in IF thread = Free THEN {Free, Placeholder} ELSE {thread}
        /\ Posts(h, Flat) /\ Happens(1)
  /\ UNCHANGED <<parents, late, lockVars>>

\* A look that fails counts as one that found the placeholder.
PollThreadTS(h) ==
  /\ At(h, "poll")
  /\ \/ thread.holds \notin {Flat, Pending} /\ Posts(h, thread.holds)
     \/ IF poster[h].looks + 1 = Polls THEN Posts(h, Flat)
        ELSE Sets(h, [poster[h] EXCEPT !.looks = @ + 1])
  /\ UNCHANGED <<thread, parents, late, lockVars, happened>>

\* A failed post gives the slot up, whoever has it by then, if Redis answers.
PostParent(h) ==
  /\ At(h, "parent")
  /\ \/ /\ parents < MaxThreads
        /\ parents' = parents + 1
        /\ Sets(h, [poster[h] EXCEPT !.at = "update", !.ts = parents'])
        /\ thread' = thread /\ Happens(0)
     \/ /\ Posts(h, Flat) /\ parents' = parents
        /\ \/ thread' = Free /\ Happens(1)
           \/ thread' = thread /\ Happens(2)
  /\ UNCHANGED <<late, lockVars>>

\* Whatever the key holds by then is overwritten.
UpdateThreadTS(h) ==
  /\ At(h, "update")
  /\ Posts(h, poster[h].ts)
  /\ \/ thread' = [holds |-> poster[h].ts, left |-> ThreadTTL] /\ Happens(0)
     \/ thread' = thread /\ Happens(1)
  /\ UNCHANGED <<parents, late, lockVars>>

PostMessage(h) ==
  /\ At(h, "message")
  /\ Sets(h, Done)
  /\ UNCHANGED <<thread, parents, late, lockVars, happened>>

PosterDies(h) ==
  /\ Happens(1)
  /\ ~At(h, "get")
  /\ Sets(h, Done)
  /\ UNCHANGED <<thread, parents, late, lockVars>>

-----------------------------------------------------------------------------
(* The periodic pass.                                                      *)

\* Mutant: TryLock sets the key whether it is there or not.
TryLockAlways(r) ==
  /\ lock' = LockTTL /\ since' = 0
  /\ replica' = [replica EXCEPT ![r].due = FALSE, ![r].pass = 1]

\* SET NX with a TTL; nobody releases the key.
TryLock(r) ==
  /\ lock' = IF lock = 0 THEN LockTTL ELSE lock
  /\ since' = IF lock = 0 THEN 0 ELSE since
  /\ replica' = [replica EXCEPT ![r].due = FALSE, ![r].pass = IF lock = 0 THEN 1 ELSE NotRunning]

Waiting(r) == replica[r].due /\ replica[r].pass = NotRunning

\* A call that fails begins no pass, though the key may have been set.
TryLockFails(r) ==
  /\ lock' \in IF lock = 0 THEN {0, LockTTL} ELSE {lock}
  /\ since' = since
  /\ replica' = [replica EXCEPT ![r].due = FALSE]

\* A tick is handled: a pass begins, or another replica has the lock, or Redis fails.
HandleTick(r) ==
  /\ Waiting(r)
  /\ \/ TryLock(r) /\ Happens(0)
     \/ TryLockFails(r) /\ Happens(1)
  /\ UNCHANGED threadVars

\* Mutant: the lock is given up when the pass is over.
EndPassReleasing(r) ==
  /\ replica[r].pass # NotRunning
  /\ replica' = [replica EXCEPT ![r].pass = NotRunning]
  /\ lock' = 0
  /\ UNCHANGED <<threadVars, since, happened>>

EndPass(r) ==
  /\ replica[r].pass # NotRunning
  /\ replica' = [replica EXCEPT ![r].pass = NotRunning]
  /\ UNCHANGED <<threadVars, lock, since, happened>>

\* A replica dies and starts again: its ticker starts anew, and the lock stays.
ReplicaRestarts(r) ==
  /\ Happens(1)
  /\ replica' = [replica EXCEPT ![r] = [next |-> Interval, due |-> FALSE, pass |-> NotRunning]]
  /\ UNCHANGED <<threadVars, lock, since>>

-----------------------------------------------------------------------------
(* Time.                                                                   *)

Less(n) == IF n = 0 THEN 0 ELSE n - 1

\* One tick: keys run out, tickers tick (one tick waits at most), passes go on.
\* A tick that waits is handled within the tick unless a pass is under way.
Tick ==
  /\ \A r \in Replicas : ~Waiting(r) /\ replica[r].pass <= LongestPass
  /\ thread' = IF thread.left = 1 THEN Free ELSE [thread EXCEPT !.left = Less(@)]
  /\ poster' = [h \in Posters |->
       IF Claiming(h) /\ poster[h].age < ThreadTTL THEN [poster[h] EXCEPT !.age = @ + 1]
       ELSE poster[h]]
  /\ late' = (late \/ \E h \in Posters : Claiming(h) /\ poster'[h].age = ThreadTTL)
  /\ lock' = Less(lock)
  /\ replica' = [r \in Replicas |->
       [next |-> IF replica[r].next = 1 THEN Interval ELSE replica[r].next - 1,
        due  |-> replica[r].due \/ replica[r].next = 1,
        pass |-> IF replica[r].pass = NotRunning THEN NotRunning ELSE replica[r].pass + 1]]
  /\ since' = IF since >= LongestGap THEN since ELSE since + 1
  /\ UNCHANGED <<parents, happened>>

Posting(h) ==
  \/ GetThreadTS(h) \/ SetThreadTS(h) \/ PollThreadTS(h)
  \/ PostParent(h) \/ UpdateThreadTS(h) \/ PostMessage(h)

Pass(r) == HandleTick(r) \/ EndPass(r)

Next ==
  \/ \E h \in Posters : Posting(h) \/ PosterDies(h)
  \/ \E r \in Replicas : Pass(r) \/ ReplicaRestarts(r)
  \/ Tick

Spec == Init /\ [][Next]_vars

\* Time goes by: tickers are handled, passes end, keys run out.
FairSpec == Spec /\ WF_vars(Tick) /\ \A r \in Replicas : WF_vars(Pass(r))

-----------------------------------------------------------------------------
(* Properties.                                                             *)

Held == {Flat, Pending} \cup 1..MaxThreads

\* Every variable has its type; a thread key exists exactly while it has ticks left.
TypeOK ==
  /\ thread \in [holds : Held, left : 0..ThreadTTL]
  /\ thread.left = 0 <=> thread.holds = Flat
  /\ poster \in [Posters -> [at : {"get", "claim", "poll", "parent", "update", "message"},
                             ts : Held, looks : 0..(Polls - 1), age : 0..ThreadTTL]]
  /\ \A h \in Posters : At(h, "update") => poster[h].ts \in 1..MaxThreads
  /\ parents \in 0..MaxThreads /\ late \in BOOLEAN
  /\ lock \in 0..LockTTL /\ since \in 0..Never
  /\ replica \in [Replicas -> [next : 1..Interval, due : BOOLEAN, pass : 0..(LongestPass + 1)]]
  /\ happened \in 0..MaxHappenings

\* Two handlers open a thread at once only after one was still at it when its slot
\* ran out: concurrent workers do not create duplicate threads.
OneOpensTheThread == late \/ Cardinality({h \in Posters : Claiming(h)}) <= 1

\* While no slot has run out under its handler, the handler that opens a thread is
\* alone, and its placeholder is there for as long as it has time left.
SlotInv ==
  ~late =>
    \A h \in Posters :
      Claiming(h) =>
        /\ poster[h].age < ThreadTTL
        /\ thread = [holds |-> Pending, left |-> ThreadTTL - poster[h].age]
        /\ \A k \in Posters : Claiming(k) => k = h

\* Messages are kept from a thread no longer than the placeholder lives, although
\* the handler that was to replace it may die or fail: the slot is freed or filled.
PendingPasses == thread.holds = Pending ~> thread.holds # Pending

\* Two replicas are in the pass at once only when one has been for as long as the
\* lock lives.
PassesOverlapWhenLong ==
  \A r, q \in Replicas :
    r # q /\ replica[r].pass # NotRunning /\ replica[q].pass # NotRunning
      => replica[r].pass > LockTTL \/ replica[q].pass > LockTTL

\* The lock outlives what is left to a pass of the time it covers, so that only one
\* such pass runs; and it tells how long ago the last pass began.
LockInv ==
  /\ \A r \in Replicas :
       replica[r].pass # NotRunning /\ replica[r].pass <= LockTTL
         => /\ lock + replica[r].pass > LockTTL
            /\ \A q \in Replicas : replica[q].pass # NotRunning /\ replica[q].pass <= LockTTL => q = r
  /\ since + lock >= LockTTL \/ since >= LongestGap

\* How the code sets its times, with a tick of a minute (sweeper, reconciliation) or of
\* an hour (retention): the lock lives one tick longer than the interval.
AsConfigured == LockTTL = Interval + 1 /\ LongestPass <= 2 * Interval

\* The latest a pass begins after the one before.
LatestPass == Interval * (2 + 2 * happened)

\* With these times the lock runs out an interval before the next pass is due at the
\* latest, and no replica tries again too late: one in a pass began it no later than
\* the last, and is found by the next tick of its ticker; any other tries at that tick,
\* or is about to.
PaceInv ==
  /\ \A r \in Replicas :
       replica[r].pass # NotRunning /\ ~replica[r].due
         => replica[r].pass + replica[r].next <= Interval + 1
  /\ since # Never =>
       /\ Replicas # {}
       /\ since <= LatestPass
       /\ lock # 0 => since + lock + Interval <= LatestPass + 1
       /\ \A r \in Replicas :
            \/ replica[r].pass # NotRunning /\ since < replica[r].pass
            \/ replica[r].pass = NotRunning /\ replica[r].due
            \/ replica[r].pass = NotRunning /\ since + replica[r].next <= LatestPass

\* The inductive invariant.
KeysInv == TypeOK /\ SlotInv /\ LockInv /\ (AsConfigured => PaceInv)

\* A pass begins more than an interval after the one before, whichever replica ran it.
PassesKeepApart ==
  [][\A r \in Replicas : replica[r].pass = NotRunning /\ replica'[r].pass # NotRunning
       => since > Interval]_vars

\* A pass begins more than an interval after the one before, whichever replicas
\* run them and however short they are, and, with the code's times, at the latest two
\* intervals after it, and two more for each failed call or restart: the lock, which
\* outlives the interval, costs a lone replica every other tick and no more, and one
\* that was taken by a call whose reply was lost goes by without a pass.
PassesKeepPace ==
  /\ [](since # Never => since <= LatestPass)
  /\ PassesKeepApart

\* internal/bot/thread.go:57 has "Use a placeholder value so concurrent workers see
\* the key exists and wait for the real timestamp": no message is posted under it.
PlaceholderIsNoThread == \A h \in Posters : At(h, "message") => poster[h].ts # Pending

\* docs/postgres-setup.md:121 has "once per 24 hours": a pass begins every interval
\* while nothing fails.
OncePerInterval == happened = 0 /\ since # Never => since <= Interval
=============================================================================
