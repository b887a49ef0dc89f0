-------------------------- MODULE DeployLifecycle --------------------------
(***************************************************************************)
(* The life of a deploy: the handlers of internal/bot (submit, ECR push,   *)
(* approve, reject, cancel), the jobs of internal/sweeper (expire,         *)
(* reconcile from GitHub, recover stuck merges), the rows of               *)
(* pending_deploys and history (Postgres), the per-app lock (Redis) and    *)
(* the pull requests (GitHub) they all share without any transaction.      *)
(*                                                                         *)
(* A deploy request and the pull request it may open are one identity d:   *)
(* numbering them is a matter of naming.  Every call to GitHub, Postgres   *)
(* or Redis is a step of its own, so handlers on different replicas, and   *)
(* the goroutines of one handler, interleave between any two calls.  A     *)
(* call may fail (the code logs it and goes on) and a replica may die      *)
(* between any two calls.                                                  *)
(*                                                                         *)
(* Slack posts, PR comments, audit lines, metrics and the validations that *)
(* end a handler before its first write are left out.  ReconstructHistory  *)
(* and pull requests edited by hand on GitHub are left out too.            *)
(***************************************************************************)
EXTENDS Naturals

CONSTANTS
  Apps,          \* app-environment pairs: AppConfig.FullName()
  Tags,          \* image tags
  InitialTag,    \* the tag every app runs at first
  Deploys,       \* deploy requests
  AppOf,         \* the app each of them deploys
  Taggings,      \* the tags they may be for: TagOf is one of these
  AutoDeploys,   \* ECR pushes to an app with auto_deploy in force
  NoDeploy,      \* "none of them"
  Workers,       \* replicas' event handlers: one event each at a time
  Janitors,      \* replicas' background jobs: startup, sweeper, reconcile
  LockExpires,   \* whether lock_ttl may run out while a deploy is in flight
  MaxFailures,   \* bound: calls that fail, over a behaviour
  MaxCrashes     \* bound: replicas that die, over a behaviour

Procs == Workers \cup Janitors

ASSUME LifecycleAssumption ==
  /\ InitialTag \in Tags
  /\ AppOf \in [Deploys -> Apps]
  /\ Taggings \subseteq [Deploys -> Tags]
  /\ AutoDeploys \subseteq Deploys
  /\ NoDeploy \notin Deploys
  /\ LockExpires \in BOOLEAN
  /\ MaxFailures \in Nat
  /\ MaxCrashes \in Nat

VARIABLES
  pr,         \* GitHub: state of each deploy's pull request
  base,       \* GitHub: the tag on the commit its branch grows from
  live,       \* GitHub: newTag of each app on the default branch
  labelled,   \* GitHub: pull requests carrying the deploy label
  row,        \* Postgres: pending_deploys.state, or "none"
  stale,      \* Postgres: rows whose expires_at has passed
  history,    \* Postgres: event types recorded for each deploy
  lock,       \* Redis: the deploy each app's lock was acquired for
  job, pc,    \* what each process runs, and the call it makes next
  on,         \* the deploy it is working on
  todo,       \* the calls its goroutines have not made yet
  batch,      \* what is left of the rows or PRs a job read at its start
  TagOf,      \* the tag each request is for
  granted,    \* auxiliary: deploys a member approved, or the config did
  unguarded,  \* auxiliary: deploys whose lock is gone (expired, released)
  failures,   \* auxiliary: calls that failed so far
  crashes     \* auxiliary: replicas that died so far

github   == <<pr, base, live, labelled>>
postgres == <<row, stale, history>>
redis    == <<lock, unguarded>>
procs    == <<job, pc, on, todo, batch>>
requests == <<TagOf, granted>>
vars == <<pr, base, live, labelled, row, stale, history, lock,
          job, pc, on, todo, batch, TagOf, granted, unguarded, failures,
          crashes>>

PRStates  == {"none", "open", "merged", "closed"}
RowStates == {"none", "pending", "merging"}
Events    == {"approved", "rejected", "cancelled", "expired"}
Effects   == {"close", "unlock", "delete", "record"}
Jobs      == {"none", "submit", "approve", "reject", "cancel",
              "sweep", "recover", "reconcile"}
Labels    == {"idle", "create", "unlock", "store", "label",
              "mark", "merge", "rebase", "merge2", "retry", "reset",
              "finish", "finishInOrder",
              "sweep", "recover", "list", "reconcile", "rehydrate"}

TypeOK ==
  /\ pr \in [Deploys -> PRStates]
  /\ base \in [Deploys -> Tags]
  /\ live \in [Apps -> Tags]
  /\ labelled \subseteq Deploys
  /\ row \in [Deploys -> RowStates]
  /\ stale \subseteq Deploys
  /\ history \in [Deploys -> SUBSET Events]
  /\ lock \in [Apps -> Deploys \cup {NoDeploy}]
  /\ job \in [Procs -> Jobs]
  /\ pc \in [Procs -> Labels]
  /\ on \in [Procs -> Deploys \cup {NoDeploy}]
  /\ todo \in [Procs -> SUBSET Effects]
  /\ batch \in [Procs -> SUBSET Deploys]
  /\ TagOf \in [Deploys -> Tags]
  /\ granted \subseteq Deploys
  /\ unguarded \subseteq Deploys
  /\ failures \in Nat
  /\ crashes \in Nat

Init ==
  /\ pr = [d \in Deploys |-> "none"]
  /\ base = [d \in Deploys |-> InitialTag]
  /\ live = [a \in Apps |-> InitialTag]
  /\ labelled = {}
  /\ row = [d \in Deploys |-> "none"]
  /\ stale = {}
  /\ history = [d \in Deploys |-> {}]
  /\ lock = [a \in Apps |-> NoDeploy]
  /\ job = [p \in Procs |-> "none"]
  /\ pc = [p \in Procs |-> "idle"]
  /\ on = [p \in Procs |-> NoDeploy]
  /\ todo = [p \in Procs |-> {}]
  /\ batch = [p \in Procs |-> {}]
  /\ TagOf \in Taggings
  /\ granted = {}
  /\ unguarded = {}
  /\ failures = 0
  /\ crashes = 0

-----------------------------------------------------------------------------
(* The store (internal/store/store.go).                                    *)

\* Mutant: SET without NX.
AcquireLockAnyway(d) ==
  /\ lock' = [lock EXCEPT ![AppOf[d]] = d]
  /\ unguarded' = unguarded \ {d}

\* SET NX: succeeds only while nobody holds the app's lock.
AcquireLock(d) ==
  /\ lock[AppOf[d]] = NoDeploy
  /\ lock' = [lock EXCEPT ![AppOf[d]] = d]
  /\ unguarded' = unguarded \ {d}

\* DEL, whoever the value names.
ReleaseLock(a) ==
  /\ lock' = [lock EXCEPT ![a] = NoDeploy]
  /\ unguarded' = unguarded \cup ({lock[a]} \cap Deploys)

\* Upsert of a fresh row: the state is "pending" again and the expiry new.
Set(d) ==
  /\ row' = [row EXCEPT ![d] = "pending"]
  /\ stale' = stale \ {d}

\* An UPDATE by key, whatever the state was: no row, no effect.
UpdateState(d, s) ==
  row' = [row EXCEPT ![d] = IF @ = "none" THEN @ ELSE s]

Delete(d) ==
  /\ row' = [row EXCEPT ![d] = "none"]
  /\ stale' = stale \ {d}

\* Mutant: GetExpired passes over rows whose pull request is not open.
ExpiredAndOpen == {d \in stale : row[d] = "pending" /\ pr[d] = "open"}

Expired == {d \in stale : row[d] = "pending"}

-----------------------------------------------------------------------------
(* GitHub, as the code in internal/github relies on it.                    *)

\* Two requests for one app and tag share the branch deploy/<env>-<app>-<tag>.
SameBranch(d, e) == AppOf[e] = AppOf[d] /\ TagOf[e] = TagOf[d]

\* The branch of an open pull request exists; that of a closed or merged one
\* may still, its deletion running by itself or left to GitHub's settings.
BranchIn(d, states) ==
  \E e \in Deploys \ {d} : SameBranch(d, e) /\ pr[e] \in states

\* One line of one file: the merge is clean when the line on the default
\* branch is still the one the branch grew from, or already the wanted one.
Mergeable(d) ==
  /\ pr[d] = "open"
  /\ live[AppOf[d]] \in {base[d], TagOf[d]}

OpenPR(d) ==
  /\ pr' = [pr EXCEPT ![d] = "open"]
  /\ base' = [base EXCEPT ![d] = live[AppOf[d]]]

MergePR(d) ==
  /\ Mergeable(d)
  /\ pr' = [pr EXCEPT ![d] = "merged"]
  /\ live' = [live EXCEPT ![AppOf[d]] = TagOf[d]]

\* Closing what is merged, closed or unknown is not an error and no change.
ClosePR(d) ==
  pr' = [pr EXCEPT ![d] = IF @ = "open" THEN "closed" ELSE @]

-----------------------------------------------------------------------------
(* Processes, failed calls.                                                *)

Goto(p, l) == pc' = [pc EXCEPT ![p] = l]

CallFails == failures < MaxFailures /\ failures' = failures + 1
CallWorks == UNCHANGED failures

Start(p, j, l, d, calls) ==
  /\ pc[p] = "idle"
  /\ job' = [job EXCEPT ![p] = j]
  /\ on' = [on EXCEPT ![p] = d]
  /\ todo' = [todo EXCEPT ![p] = calls]
  /\ Goto(p, l)
  /\ UNCHANGED batch

GoIdle(p) ==
  /\ job' = [job EXCEPT ![p] = "none"]
  /\ on' = [on EXCEPT ![p] = NoDeploy]
  /\ todo' = [todo EXCEPT ![p] = {}]
  /\ batch' = [batch EXCEPT ![p] = {}]
  /\ Goto(p, "idle")

Stay(p) == UNCHANGED <<job, on, todo, batch>>

-----------------------------------------------------------------------------
(* handleDeploySubmit and handleECRPush: lock, pull request, row, labels.  *)

\* A request that finds the lock taken is refused and changes nothing.
Submit(p, d) ==
  /\ pr[d] = "none"
  /\ \A q \in Procs : on[q] # d
  /\ AcquireLock(d)
  /\ Start(p, "submit", "create", d, {})
  /\ UNCHANGED <<github, postgres, requests, failures, crashes>>

Opened(p) == IF on[p] \in AutoDeploys THEN "merge" ELSE "store"

CreateDeployPR(p) ==
  LET d == on[p] IN
  /\ pc[p] = "create"
  /\ live[AppOf[d]] # TagOf[d]
  /\ ~BranchIn(d, {"open"})
  /\ OpenPR(d)
  /\ granted' = granted \cup ({d} \cap AutoDeploys)
  /\ \/ Goto(p, Opened(p)) /\ CallWorks
     \/ Goto(p, "unlock") /\ CallFails    \* opened, but the reply was lost
  /\ Stay(p)
  /\ UNCHANGED <<live, labelled, postgres, redis, TagOf, crashes>>

\* ErrNoChange, a branch that exists already, or any other error.
CreateDeployPRFails(p) ==
  LET d == on[p] IN
  /\ pc[p] = "create"
  /\ \/ /\ \/ live[AppOf[d]] = TagOf[d]
           \/ BranchIn(d, {"open", "merged", "closed"})
        /\ CallWorks
     \/ CallFails
  /\ Goto(p, "unlock")
  /\ Stay(p)
  /\ UNCHANGED <<github, postgres, redis, requests, crashes>>

AbandonSubmit(p) ==
  /\ pc[p] = "unlock"
  /\ \/ ReleaseLock(AppOf[on[p]]) /\ CallWorks
     \/ UNCHANGED redis /\ CallFails
  /\ GoIdle(p)
  /\ UNCHANGED <<github, postgres, requests, crashes>>

\* A row that could not be written is only logged: the request goes on.
StoreDeploy(p) ==
  /\ pc[p] = "store"
  /\ \/ Set(on[p]) /\ CallWorks
     \/ UNCHANGED <<row, stale>> /\ CallFails
  /\ Goto(p, "label")
  /\ Stay(p)
  /\ UNCHANGED <<github, history, redis, requests, crashes>>

AddLabels(p) ==
  /\ pc[p] = "label"
  /\ \/ labelled' = labelled \cup {on[p]} /\ CallWorks
     \/ UNCHANGED labelled /\ CallFails
  /\ GoIdle(p)
  /\ UNCHANGED <<pr, base, live, postgres, redis, requests, crashes>>

-----------------------------------------------------------------------------
(* handleApprove, mergeWithRetry, handleECRAutoDeploy.                     *)

\* store.Get finds a row, in whatever state, and the user is a member.
Approve(p, d) ==
  /\ row[d] # "none"
  /\ granted' = granted \cup {d}
  /\ Start(p, "approve", "mark", d, {})
  /\ UNCHANGED <<github, postgres, redis, TagOf, failures, crashes>>

\* UpdateState(merging) is logged when it fails, and the merge goes on;
\* an app gone from the configuration sends the row back to pending.
MarkMerging(p) ==
  /\ pc[p] = "mark"
  /\ \/ UpdateState(on[p], "merging") /\ CallWorks /\ Goto(p, "merge")
     \/ UNCHANGED row /\ CallFails /\ Goto(p, "merge")
     \/ UpdateState(on[p], "merging") /\ CallFails /\ Goto(p, "reset")
  /\ Stay(p)
  /\ UNCHANGED <<github, stale, history, redis, requests, crashes>>

Fan(p, l, calls) ==
  /\ todo' = [todo EXCEPT ![p] = calls]
  /\ Goto(p, l)
  /\ UNCHANGED <<job, on, batch>>

\* Mutant: the error branch falls through to the success path.
GiveUpMergeAsMerged(p) == Fan(p, "finish", {"unlock", "delete", "record"})

\* Mutant: handleApprove returns without resetToPending.
GiveUpMergeForgetsReset(p) ==
  IF job[p] = "submit"
  THEN Fan(p, "finish", {"close", "unlock"})
  ELSE GoIdle(p)

\* notifyECRAutoDeployFailed closes; handleApprove keeps the PR and resets.
GiveUpMerge(p) ==
  IF job[p] = "submit"
  THEN Fan(p, "finish", {"close", "unlock"})
  ELSE Fan(p, "reset", {})

Merging(p) == pc[p] \in {"merge", "merge2", "retry"}

MergeSucceeds(p) ==
  /\ Merging(p)
  /\ MergePR(on[p])
  /\ Fan(p, "finish", IF job[p] = "submit" THEN {"unlock", "record"}
                      ELSE {"unlock", "delete", "record"})
  /\ UNCHANGED <<base, labelled, postgres, redis, requests, failures, crashes>>

\* HTTP 405 the first time: rebase; later: ErrMergeConflict to the caller.
MergeConflicts(p) ==
  /\ Merging(p)
  /\ ~Mergeable(on[p])
  /\ IF pc[p] = "merge" THEN Fan(p, "rebase", {}) ELSE GiveUpMerge(p)
  /\ UNCHANGED <<github, postgres, redis, requests, failures, crashes>>

\* A required check, a draft, the rate limit, a network error; or a merge
\* GitHub made whose reply never arrived.
MergeFails(p) ==
  /\ Merging(p)
  /\ CallFails
  /\ \/ UNCHANGED <<pr, live>>
     \/ MergePR(on[p])
  /\ GiveUpMerge(p)
  /\ UNCHANGED <<base, labelled, postgres, redis, requests, crashes>>

\* HTTP 409: handleApprove waits and calls MergePR once more.
HeadModified(p) ==
  /\ pc[p] \in {"merge", "merge2"}
  /\ pr[on[p]] = "open"
  /\ CallFails
  /\ IF job[p] = "approve" THEN Fan(p, "retry", {}) ELSE GiveUpMerge(p)
  /\ UNCHANGED <<github, postgres, redis, requests, crashes>>

\* updateRef(force) and one commit on top of the default branch.
RebaseDeployBranch(p) ==
  LET d == on[p] IN
  /\ pc[p] = "rebase"
  /\ live[AppOf[d]] # TagOf[d]
  /\ base' = [e \in Deploys |->
                IF SameBranch(d, e) THEN live[AppOf[d]] ELSE base[e]]
  /\ Fan(p, "merge2", {})
  /\ UNCHANGED <<pr, live, labelled, postgres, redis, requests,
                 failures, crashes>>

\* Mutant: the caller overlooks result.NoOp and finishes as after a merge.
RebaseNoChangeOverlooked(p) ==
  /\ pc[p] = "rebase"
  /\ live[AppOf[on[p]]] = TagOf[on[p]]
  /\ Fan(p, "finish", {"unlock", "delete", "record"})
  /\ UNCHANGED <<github, postgres, redis, requests, failures, crashes>>

\* ErrNoChange: the app runs the tag already, the PR is closed as a no-op.
RebaseNoChange(p) ==
  /\ pc[p] = "rebase"
  /\ live[AppOf[on[p]]] = TagOf[on[p]]
  /\ IF job[p] = "submit"
     THEN Fan(p, "finishInOrder", {"close", "unlock"})
     ELSE Fan(p, "finish", {"close", "unlock", "delete"})
  /\ UNCHANGED <<github, postgres, redis, requests, failures, crashes>>

\* The branch is gone with its pull request, or the call fails.
RebaseFails(p) ==
  /\ pc[p] = "rebase"
  /\ \/ pr[on[p]] # "open" /\ CallWorks
     \/ CallFails
  /\ GiveUpMerge(p)
  /\ UNCHANGED <<github, postgres, redis, requests, crashes>>

ResetToPending(p) ==
  /\ pc[p] = "reset"
  /\ \/ UpdateState(on[p], "pending") /\ CallWorks
     \/ UNCHANGED row /\ CallFails
  /\ GoIdle(p)
  /\ UNCHANGED <<github, stale, history, redis, requests, crashes>>

-----------------------------------------------------------------------------
(* handleRejectSubmit, doCancelDeploy: store.Get, then all calls at once.  *)

Reject(p, d) ==
  /\ row[d] # "none"
  /\ Start(p, "reject", "finish", d, Effects)
  /\ UNCHANGED <<github, postgres, redis, requests, failures, crashes>>

Cancel(p, d) ==
  /\ row[d] # "none"
  /\ Start(p, "cancel", "finish", d, Effects)
  /\ UNCHANGED <<github, postgres, redis, requests, failures, crashes>>

-----------------------------------------------------------------------------
(* The calls a handler's goroutines make, in any order, or one by one in   *)
(* the order close, unlock, delete where the code is sequential.           *)

EventOf(j) ==
  CASE j = "reject" -> "rejected"
    [] j = "cancel" -> "cancelled"
    [] j = "sweep"  -> "expired"
    [] OTHER        -> "approved"

\* What wg.Wait returns to: a handler is done, a job takes its next deploy.
Resume(p) ==
  IF job[p] \in {"sweep", "recover"}
  THEN /\ on' = [on EXCEPT ![p] = NoDeploy]
       /\ todo' = [todo EXCEPT ![p] = {}]
       /\ Goto(p, job[p])
       /\ UNCHANGED <<job, batch>>
  ELSE GoIdle(p)

Call(p, e) ==
  /\ pc[p] \in {"finish", "finishInOrder"}
  /\ e \in todo[p]
  /\ pc[p] = "finishInOrder" =>
       /\ e = "unlock" => "close" \notin todo[p]
       /\ e = "delete" => "unlock" \notin todo[p]
  /\ IF todo[p] = {e}
     THEN Resume(p)
     ELSE /\ todo' = [todo EXCEPT ![p] = @ \ {e}]
          /\ UNCHANGED <<job, pc, on, batch>>

FinishClose(p) ==
  /\ Call(p, "close")
  /\ \/ ClosePR(on[p]) /\ CallWorks
     \/ UNCHANGED pr /\ CallFails
  /\ UNCHANGED <<base, live, labelled, postgres, redis, requests, crashes>>

FinishUnlock(p) ==
  /\ Call(p, "unlock")
  /\ \/ ReleaseLock(AppOf[on[p]]) /\ CallWorks
     \/ UNCHANGED redis /\ CallFails
  /\ UNCHANGED <<github, postgres, requests, crashes>>

FinishDelete(p) ==
  /\ Call(p, "delete")
  /\ \/ Delete(on[p]) /\ CallWorks
     \/ UNCHANGED <<row, stale>> /\ CallFails
  /\ UNCHANGED <<github, history, redis, requests, crashes>>

FinishRecord(p) ==
  /\ Call(p, "record")
  /\ \/ history' = [history EXCEPT ![on[p]] = @ \cup {EventOf(job[p])}]
        /\ CallWorks
     \/ UNCHANGED history /\ CallFails
  /\ UNCHANGED <<github, row, stale, redis, requests, crashes>>

-----------------------------------------------------------------------------
(* internal/sweeper: each job reads its rows or pull requests once, then   *)
(* works through what it read.                                             *)

StartJob(p, j, l, read) ==
  /\ pc[p] = "idle"
  /\ job' = [job EXCEPT ![p] = j]
  /\ batch' = [batch EXCEPT ![p] = read]
  /\ Goto(p, l)
  /\ UNCHANGED <<on, todo>>
  /\ UNCHANGED <<github, postgres, redis, requests, failures, crashes>>

Take(p, d, l, calls) ==
  /\ d \in batch[p]
  /\ batch' = [batch EXCEPT ![p] = @ \ {d}]
  /\ on' = [on EXCEPT ![p] = d]
  /\ todo' = [todo EXCEPT ![p] = calls]
  /\ Goto(p, l)
  /\ UNCHANGED job

Skip(p, d) ==
  /\ d \in batch[p]
  /\ batch' = [batch EXCEPT ![p] = @ \ {d}]
  /\ UNCHANGED <<job, pc, on, todo>>

RunOnce(p) == StartJob(p, "sweep", "sweep", Expired)

\* Mutant: an expired deploy keeps its pull request.
SweepNextLeavesPR(p, d) ==
  /\ pc[p] = "sweep"
  /\ Take(p, d, "finish", Effects \ {"close"})
  /\ UNCHANGED <<github, postgres, redis, requests, failures, crashes>>

SweepNext(p, d) ==
  /\ pc[p] = "sweep"
  /\ Take(p, d, "finish", Effects)
  /\ UNCHANGED <<github, postgres, redis, requests, failures, crashes>>

\* Mutant: every row is taken for a merge that was interrupted.
RecoverEveryRow(p) ==
  StartJob(p, "recover", "recover", {d \in Deploys : row[d] # "none"})

\* At the start of every worker, other replicas running or not.
RecoverStuck(p) ==
  StartJob(p, "recover", "recover", {d \in Deploys : row[d] = "merging"})

RecoverMerge(p, d) ==
  /\ pc[p] = "recover"
  /\ MergePR(d)
  /\ \/ Take(p, d, "finishInOrder", {"unlock", "delete"}) /\ CallWorks
     \/ Skip(p, d) /\ CallFails    \* merged, but the reply was lost
  /\ UNCHANGED <<base, labelled, postgres, redis, requests, crashes>>

\* A merge that fails is logged, and the row stays as it is.
RecoverFails(p, d) ==
  /\ pc[p] = "recover"
  /\ \/ ~Mergeable(d) /\ CallWorks
     \/ CallFails
  /\ Skip(p, d)
  /\ UNCHANGED <<github, postgres, redis, requests, crashes>>

\* RunOnce and startup recovery end with a reconciliation; the periodic
\* one starts here.
ReconcileFromGitHub(p) == StartJob(p, "reconcile", "list", {})

\* Mutant: RunOnce does not end with a reconciliation.
ListOpenPRsNotAfterSweep(p) ==
  /\ \/ pc[p] = "list"
     \/ pc[p] \in {"sweep", "recover"} /\ batch[p] = {}
  /\ batch' = [batch EXCEPT ![p] =
                 IF job[p] = "sweep" THEN {}
                 ELSE {d \in labelled : pr[d] = "open"}]
  /\ CallWorks
  /\ Goto(p, "reconcile")
  /\ UNCHANGED <<job, on, todo>>
  /\ UNCHANGED <<github, postgres, redis, requests, crashes>>

ListOpenPRs(p) ==
  /\ \/ pc[p] = "list"
     \/ pc[p] \in {"sweep", "recover"} /\ batch[p] = {}
  /\ \/ batch' = [batch EXCEPT ![p] = {d \in labelled : pr[d] = "open"}]
        /\ CallWorks
     \/ batch' = [batch EXCEPT ![p] = {}] /\ CallFails
  /\ Goto(p, "reconcile")
  /\ UNCHANGED <<job, on, todo>>
  /\ UNCHANGED <<github, postgres, redis, requests, crashes>>

\* store.Get: a row makes the reconciler pass on, and so does an error.
ReconcileSkip(p, d) ==
  /\ pc[p] = "reconcile"
  /\ \/ row[d] # "none" /\ CallWorks
     \/ CallFails
  /\ Skip(p, d)
  /\ UNCHANGED <<github, postgres, redis, requests, crashes>>

ReconcileMissing(p, d) ==
  /\ pc[p] = "reconcile"
  /\ row[d] = "none"
  /\ Take(p, d, "rehydrate", {})
  /\ UNCHANGED <<github, postgres, redis, requests, failures, crashes>>

\* The row is written from the PR's metadata; no lock is taken.
Rehydrate(p) ==
  /\ pc[p] = "rehydrate"
  /\ \/ Set(on[p]) /\ CallWorks
     \/ UNCHANGED <<row, stale>> /\ CallFails
  /\ on' = [on EXCEPT ![p] = NoDeploy]
  /\ Goto(p, "reconcile")
  /\ UNCHANGED <<job, todo, batch>>
  /\ UNCHANGED <<github, history, redis, requests, crashes>>

ReconcileDone(p) ==
  /\ pc[p] = "reconcile"
  /\ batch[p] = {}
  /\ GoIdle(p)
  /\ UNCHANGED <<github, postgres, redis, requests, failures, crashes>>

-----------------------------------------------------------------------------
(* Time and crashes.                                                       *)

\* expires_at passes.
BecomeStale(d) ==
  /\ row[d] # "none"
  /\ d \notin stale
  /\ stale' = stale \cup {d}
  /\ UNCHANGED <<github, row, history, redis, procs, requests,
                 failures, crashes>>

\* lock_ttl passes, or Redis loses its data.
LockTTL(a) ==
  /\ LockExpires
  /\ lock[a] # NoDeploy
  /\ ReleaseLock(a)
  /\ UNCHANGED <<github, postgres, procs, requests, failures, crashes>>

Crash(p) ==
  /\ pc[p] # "idle"
  /\ crashes < MaxCrashes
  /\ crashes' = crashes + 1
  /\ GoIdle(p)
  /\ UNCHANGED <<github, postgres, redis, requests, failures>>

-----------------------------------------------------------------------------

\* The steps of a process that has begun: what its code does by itself.
Step(p) ==
  \/ CreateDeployPR(p) \/ CreateDeployPRFails(p) \/ AbandonSubmit(p)
  \/ StoreDeploy(p) \/ AddLabels(p)
  \/ MarkMerging(p) \/ MergeSucceeds(p) \/ MergeConflicts(p) \/ MergeFails(p)
  \/ HeadModified(p) \/ RebaseDeployBranch(p) \/ RebaseNoChange(p)
  \/ RebaseFails(p) \/ ResetToPending(p)
  \/ FinishClose(p) \/ FinishUnlock(p) \/ FinishDelete(p) \/ FinishRecord(p)
  \/ ListOpenPRs(p) \/ Rehydrate(p) \/ ReconcileDone(p)
  \/ \E d \in Deploys : \/ SweepNext(p, d)
                        \/ RecoverMerge(p, d) \/ RecoverFails(p, d)
                        \/ ReconcileSkip(p, d) \/ ReconcileMissing(p, d)

\* What people, ECR and the tickers start.
Request(p, d) == Submit(p, d) \/ Approve(p, d) \/ Reject(p, d) \/ Cancel(p, d)
Tick(p) == RunOnce(p) \/ RecoverStuck(p) \/ ReconcileFromGitHub(p)

Next ==
  \/ \E p \in Workers, d \in Deploys : Request(p, d)
  \/ \E p \in Janitors : Tick(p)
  \/ \E p \in Procs : Step(p) \/ Crash(p)
  \/ \E d \in Deploys : BecomeStale(d)
  \/ \E a \in Apps : LockTTL(a)

Spec == Init /\ [][Next]_vars

\* A handler that has begun goes on (goroutines are scheduled, calls return
\* or time out).  Each ticker fires again and again, whatever other jobs run
\* meanwhile, and so does a row's clock.  Nothing is assumed of people, of
\* the lock's TTL, of restarts.
Fairness ==
  /\ \A p \in Procs : WF_vars(Step(p))
  /\ \A p \in Janitors : SF_vars(RunOnce(p))
  /\ \A d \in Deploys : WF_vars(BecomeStale(d))

FairSpec == Spec /\ Fairness

\* The same, and some worker restarts again and again.
RestartingSpec == FairSpec /\ \A p \in Janitors : SF_vars(RecoverStuck(p))

-----------------------------------------------------------------------------
(* Properties.                                                             *)

\* A process other than a reconciler about to write a row works on d.
WorksOn(p, d) == on[p] = d /\ pc[p] # "rehydrate"

\* No call failed and no replica died.
Healthy == failures = 0 /\ crashes = 0

\* The history says "approved" only of a pull request GitHub merged: no
\* handler records it before, or instead of, a successful MergePR
\* (handleApprove, handleECRAutoDeploy, the no-op and give-up paths).
ApprovedIsMerged ==
  \A d \in Deploys : "approved" \in history[d] => pr[d] = "merged"

\* p merged d's pull request and has yet to push the history entry.
OwesApproval(p, d) ==
  /\ on[p] = d
  /\ job[p] \in {"submit", "approve"}
  /\ "record" \in todo[p]

\* However many replicas approve, retry, rebase or recover one deploy, at
\* most one of them goes on to record it as approved, and nobody does so a
\* second time: rollback and ArgoCD correlation read these entries.
ApprovalRecordedOnce ==
  \A d \in Deploys, p \in Procs :
    OwesApproval(p, d) =>
      /\ "approved" \notin history[d]
      /\ \A q \in Procs : OwesApproval(q, d) => q = p

\* Two open pull requests of one app mean that the lock of one of them is
\* gone: every path that opens one holds the app's lock, and the lock is
\* lost only by expiry or by a ReleaseLock.
ConcurrentDeploysLostALock ==
  \A d, e \in Deploys :
    /\ d # e /\ AppOf[d] = AppOf[e]
    /\ pr[d] = "open" /\ pr[e] = "open"
    => d \in unguarded \/ e \in unguarded

\* While calls succeed and replicas live, no pull request is orphaned: an
\* open one has a row, or a handler is still working on it, whatever
\* approvals, rejections, sweeps and recoveries overlap.
NoOrphanWhileHealthy ==
  \A d \in Deploys :
    Healthy /\ pr[d] = "open" /\ row[d] = "none"
      => \E p \in Procs : WorksOn(p, d)

\* While calls succeed and replicas live, a row stands in "merging" only
\* while an approval of it runs: it is the state the sweeper never expires.
MergingIsAttended ==
  \A d \in Deploys :
    Healthy /\ row[d] = "merging"
      => \E p \in Workers : on[p] = d /\ job[p] = "approve"

\* While calls succeed and replicas live, a deploy the history calls over is
\* over on GitHub as soon as nobody works on it any more.
RecordedIsOverWhileHealthy ==
  \A d \in Deploys :
    Healthy /\ history[d] # {} /\ ~(\E p \in Procs : WorksOn(p, d))
      => pr[d] \in {"merged", "closed"}

\* While calls succeed and replicas live, GitHub, the rows and the history agree
\* about every deploy that no handler has in hand, in whichever of these ways
\* they could part.
AgreesWhileHealthy ==
  /\ NoOrphanWhileHealthy
  /\ MergingIsAttended
  /\ RecordedIsOverWhileHealthy

\* Only what a member approved, or auto_deploy covers, is ever merged; one
\* PR ends one way; "approved" is recorded of merged ones only.
Gate == INSTANCE GatedDeploy WITH
          phase <- pr,
          authorised <- granted,
          recorded <- {d \in Deploys : "approved" \in history[d]}
ImplementsGate == Gate!GateSpec

\* A pending request does not linger: it is approved, withdrawn or expired,
\* in spite of failed calls, crashes and overlapping reconciliations.
PendingLeaves ==
  \A d \in Deploys : row[d] = "pending" ~> row[d] # "pending"

\* An open pull request that carries the deploy label and has lost its row
\* gets a row again, or is closed or merged.
LabelledOrphanIsFound ==
  \A d \in Deploys :
    (pr[d] = "open" /\ d \in labelled /\ row[d] = "none")
      ~> (row[d] # "none" \/ pr[d] # "open")

\* While calls succeed and replicas live, every pull request is eventually
\* merged or closed, even if nobody ever approves or rejects it.
EveryPRResolves ==
  \A d \in Deploys :
    (pr[d] = "open") ~> (pr[d] \in {"merged", "closed"} \/ ~Healthy)

\* While calls succeed and replicas live, an approval brings its row out of
\* "merging", whatever conflicts, rebases and sweeps it meets on the way.
MergingEndsWhileHealthy ==
  \A d \in Deploys :
    (row[d] = "merging") ~> (row[d] # "merging" \/ ~Healthy)

-----------------------------------------------------------------------------
(* Why the safety properties hold: an inductive invariant, in parts.       *)

\* Between deploys a process works on none.
Engaged == Labels \ {"idle", "sweep", "recover", "list", "reconcile"}

\* Where a process may be, and what it may still have to record.
ProcessInv ==
  \A p \in Procs :
    /\ pc[p] \in Engaged => on[p] \in Deploys
    /\ pc[p] \in {"sweep", "recover"} => job[p] = pc[p]
    /\ pc[p] \in {"create", "unlock", "store", "label"} => job[p] = "submit"
    /\ pc[p] \in {"mark", "retry", "reset"} => job[p] = "approve"
    /\ pc[p] \in {"merge", "rebase", "merge2"} => job[p] \in {"submit", "approve"}
    /\ job[p] = "approve" => p \in Workers
    /\ "record" \in todo[p]
         => pc[p] = "finish" /\ job[p] \notin {"none", "recover", "reconcile"}

\* Nothing refers to a pull request before it exists, and one handler at most
\* is about to open it.
FreshInv ==
  /\ \A d \in Deploys :
       pr[d] = "none" =>
         /\ row[d] = "none" /\ d \notin labelled
         /\ \A p \in Procs :
              d \notin batch[p] /\ (on[p] = d => pc[p] \in {"create", "unlock"})
  /\ \A p \in Procs :
       pc[p] = "create" =>
         pr[on[p]] = "none" /\ \A q \in Procs : on[q] = on[p] => q = p

\* Every path to MergePR starts from an authorised deploy: a row "merging",
\* what RecoverStuck read of them, and a handler on its way to a merge.
AuthorisedInv ==
  /\ \A d \in Deploys : row[d] = "merging" => d \in granted
  /\ \A p \in Procs :
       /\ pc[p] \in {"mark", "merge", "rebase", "merge2", "retry"}
            => on[p] \in granted
       /\ job[p] = "recover" /\ pc[p] \in {"recover", "finish", "finishInOrder"}
            => batch[p] \subseteq granted

\* Who is to record an approval has merged the pull request himself.
RecordInv ==
  /\ ApprovedIsMerged
  /\ ApprovalRecordedOnce
  /\ \A d \in Deploys, p \in Procs : OwesApproval(p, d) => pr[d] = "merged"

\* A pull request is opened under the app's lock and stays under it until
\* the lock is lost.
GuardedInv ==
  /\ \A d \in Deploys :
       pr[d] = "open" => d \in unguarded \/ lock[AppOf[d]] = d
  /\ \A p \in Procs :
       pc[p] = "create" =>
         on[p] \in unguarded \/ lock[AppOf[on[p]]] = on[p]

\* The calls at the end of a handler; those that have yet to close d's pull request.
Finishing(p) == pc[p] \in {"finish", "finishInOrder"}
Closing(p, d) == on[p] = d /\ Finishing(p) /\ "close" \in todo[p]

\* p will give d a row, or have its pull request merged or closed.
InHand(p, d) ==
  \/ on[p] = d /\ pc[p] = "store"
  \/ on[p] = d /\ pc[p] \in {"merge", "rebase", "merge2"} /\ job[p] = "submit"
  \/ Closing(p, d)

\* p approves d and will take its row out of "merging".
Attending(p, d) ==
  /\ on[p] = d /\ job[p] = "approve"
  /\ \/ pc[p] \in {"merge", "rebase", "merge2", "retry", "reset"}
     \/ Finishing(p) /\ "delete" \in todo[p]

\* While calls succeed and replicas live, a handler that ends leaves no pull request
\* open behind it.
EndInv ==
  /\ \A d \in Deploys : pr[d] = "none" => history[d] = {}
  /\ \A p \in Procs :
       /\ Healthy /\ pc[p] = "unlock" => pr[on[p]] = "none"
       /\ Healthy /\ Finishing(p) /\ pr[on[p]] = "open" => "close" \in todo[p]

\* While calls succeed and replicas live, what GitHub, the rows and the history do
\* not agree on is in the hands of somebody who will mend it.
CareInv ==
  \A d \in Deploys :
    Healthy =>
      /\ pr[d] = "open" /\ row[d] = "none" => \E p \in Procs : InHand(p, d)
      /\ pr[d] = "open" /\ history[d] # {} => \E p \in Procs : Closing(p, d)
      /\ row[d] = "merging" => \E p \in Procs : Attending(p, d)

LifecycleInv ==
  /\ TypeOK
  /\ ProcessInv
  /\ FreshInv
  /\ AuthorisedInv
  /\ RecordInv
  /\ GuardedInv
  /\ EndInv
  /\ CareInv

-----------------------------------------------------------------------------
(* What the documentation says and the code does not keep: runs refute     *)
(* OneInFlightPerApp and MergingEnds; TLC refutes the others there too.    *)

\* An open pull request with a row, which nobody is closing.
InFlight(d) ==
  /\ pr[d] = "open" /\ row[d] # "none"
  /\ \A p \in Procs : on[p] = d => "close" \notin todo[p]

\* "Only one deploy of a given app can be in flight at a time" (README.md).
OneInFlightPerApp ==
  \A d, e \in Deploys :
    AppOf[d] = AppOf[e] /\ InFlight(d) /\ InFlight(e) => d = e

\* "The bot's GetByEnvApp check [...] will still surface the conflict on
\* modal submission" when the lock is gone (docs/redis-resilience.md): the
\* lock is not acquired anew while another deploy of the app is pending.
SubmissionSeesPending ==
  [][\A d \in Deploys :
       lock[AppOf[d]] = NoDeploy /\ lock'[AppOf[d]] = d
         => \A e \in Deploys : AppOf[e] = AppOf[d] => row[e] # "pending"]_vars

\* "No terminal-state rows linger here" (migration 00002): once nobody works
\* on a merged or closed pull request, its row is gone.
NoTerminalRowLingers ==
  \A d \in Deploys :
    pr[d] \in {"merged", "closed"} /\ (\A p \in Procs : on[p] # d)
      => row[d] = "none"

\* Rows in "merging" have "their own completion paths" (migration 00002):
\* when workers keep restarting, and so keep running RecoverStuck, a row in
\* "merging" leaves that state.
MergingEnds ==
  \A d \in Deploys : row[d] = "merging" ~> row[d] # "merging"

=============================================================================
