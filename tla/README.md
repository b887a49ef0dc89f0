# deploy-bot in TLA+

deploy-bot turns a Slack request (or an ECR image push) into a pull request on
a GitOps repository, has somebody approve it, merges it, and keeps a record.
It runs as several replicas that share GitHub, Postgres and Redis and use no
transaction across them.  This directory models what happens between those
replicas: who may merge what, what is left behind when a call fails or a
replica dies, which requests are sure to end, whether an event that was
accepted reaches a handler, and what the caches and lists that decisions are
made on (applications, members, tags, history) say while they are out of date.

    tlc -workers 2 -config lifecycle_races.cfg MCDeployLifecycle.tla
    tlc -workers 2 -config delivery.cfg MCEventDelivery.tla
    tlapm DeployLifecycle_proofs.tla

Each of the seven modules `M` of the models has its theorems in `M_proofs.tla`;
`GatedDeploy` is what DeployLifecycle is shown to implement, `SafeDelivery` what
EventDelivery is, and `Lemmas` has induction over numbers for the proofs about
lists.

## The system

| Component (source) | State | Operations | Hard behaviour | What makes it correct | Module |
|---|---|---|---|---|---|
| Receiver (`cmd/receiver`) | its buffer, its own tag cache | reads Slack's socket, checks forms, enqueues, acknowledges | order of XADD and acknowledgement, crash between them | a settled event is not lost | EventDelivery; its form checks in Authorization and TagCache |
| Retry buffer (`internal/buffer`) | bounded channel | `Add`, `Run` with back-off | full buffer, shutdown | what it accepted is delivered or its caller still owns it | EventDelivery |
| Event queue (`internal/queue`) | Redis streams, pending entries of the consumer group | `EnqueueTo`, `Run`, `readStream`, `process`, `reclaimStuck` | death of a worker holding messages, reclaim from a live worker, priority of streams, MAXLEN | handled at least once; again only after `claimMinIdle` | EventDelivery |
| Deploy handlers (`internal/bot/actions.go`, `ecr.go`, `merge.go`, `cancel.go`) | locals only | submit, approve, reject, cancel, ECR push, auto-deploy, merge with rebase | two replicas deciding on one deploy, fan-outs in any order, failed calls that are logged and passed over | only authorised deploys merge; history, row and pull request agree; nothing is orphaned | DeployLifecycle |
| Store (`internal/store`) | `pending_deploys`, `history` (Postgres); locks, threads (Redis) | `Set`, `UpdateState`, `Delete`, `GetExpired`, `PushHistory`, `AcquireLock`, `ReleaseLock`, `TryLock`, thread slot | updates without compare-and-set, TTLs, DEL of a lock somebody else holds | the lock serialises the deploys of an app | DeployLifecycle, DeployOutcome, ExpiringKeys |
| Sweeper (`internal/sweeper`, tickers of `cmd/bot`) | the batch it read | `RunOnce`, `ReconcileFromGitHub`, `RecoverStuck`, `ReconstructHistory` | works from a list read earlier, on every replica, beside live handlers | pending rows leave, orphans are found, merges end, a deploy has one row | DeployLifecycle, DeployOutcome |
| GitHub client (`internal/github`) | GitHub's branches, pull requests, labels | `CreateDeployPR`, `MergePR`, `RebaseDeployBranch`, `ClosePR`, `AddLabels`, `ListOpenPRsWithLabel` | replies lost, conflicts, a branch shared by requests for one tag | one merge per pull request | DeployLifecycle |
| ECR poller and webhook (`internal/ecrpoller`) | SQS queue | receive, lock check, enqueue, delete | deletes what it skipped | a push is handled or rightly skipped | EventDelivery |
| ArgoCD webhook, dedupe (`internal/argocd`) | Redis dedupe markers | verify, mark, enqueue, answer | marker set before the event is safe | a notification is not lost | EventDelivery |
| ArgoCD notifications, rollback (`internal/bot/argocd*.go`) | history, prompts in Slack | correlate by SHA, post, offer a rollback, dismiss | notification before the row, rows out of order, a modal built from a second read | the prompt goes back to what ran before | DeployOutcome |
| Deploy thread (`internal/bot/thread.go`) | Redis slot per environment | SET NX of a placeholder, poll, update | handlers race, the slot runs out, a reader sees the placeholder | one thread at a time | ExpiringKeys |
| Health monitor (`internal/healthcheck`, `internal/dynatrace`) | a poll loop per deploy | poll until the window ends | death of the worker, deadline against last poll | a deploy that never was healthy is told | DeployOutcome |
| ECR tag cache (`internal/ecr`) | tags per app, a list in Redis | populate, refresh, add apps, validate | caches of several processes behind one another | only tags that were built are accepted | TagCache; `AddApps` in AppCatalogue |
| Configuration (`internal/config`) | current config | load, merge discovered apps, hot reload by mtime | write between reload and stat | the newest file is in force | AppCatalogue |
| Repo scanner (`internal/reposcanner`, `internal/repoconfig`) | `pushedAt` cache, file contents, warned conflicts | scan, conflict resolution, ConfigMap, statuses, warnings | failed fetch with an advanced cache, repositories that rival for a name or a file | discovered apps follow the repositories; who is left out is told | AppCatalogue |
| Approver cache, validator (`internal/approvers`, `internal/validator`) | member set and identities in Redis | refresh, `IsMember`, `ResolveIdentity` | refreshes that overlap, sources that fail, identities kept for ever | only members start and decide | Authorization |
| Retention (`internal/store/postgres/retention.go`) | history | batched DELETE under a lock | long pass, a lock that outlives its interval | old rows go | ExpiringKeys (the lock) |
| Slash commands, modals, mentions | none | read, format, call the handlers above | stale history and tags in a form | | the three that decide something: DeployOutcome, Authorization, TagCache |
| Slack client, audit, metrics, health endpoints, sanitizers, tools | none | input and output | | | none |

How they interact: Slack -> receiver -> Redis stream -> a worker's event loop
-> a handler, which calls GitHub, Postgres and Redis directly; ECR -> SQS ->
poller -> stream; ArgoCD -> webhook -> stream.  A worker's tickers run the
sweeper beside its event loop.  Replicas share nothing in memory: everything
they know of one another is in Postgres, Redis and on GitHub.

The seven models meet at one step each: EventDelivery handles an event in one
step, which DeployLifecycle takes apart; an `Approve` or `Submit` of
DeployLifecycle is by somebody Authorization let through, for a tag TagCache let
through, of an application AppCatalogue gave the worker; a merge and the row
that DeployLifecycle writes are where DeployOutcome begins; the tickers that
start DeployLifecycle's jobs are ExpiringKeys' passes.

## What is modelled: DeployLifecycle

`DeployLifecycle.tla` composes the handlers, the sweeper's jobs, the store and
GitHub; a pull request's whole life passes through all four, and the hazards
are in how their calls interleave.

* **State.** `pr`, `base`, `live`, `labelled` are GitHub: the state of each
  pull request, the value its branch grew from, the tag on the default branch,
  the deploy label.  `row`, `stale`, `history` are Postgres
  (`pending_deploys.state`, "`expires_at` is past", the event types recorded).
  `lock` is Redis (`lock:<env>/<app>`); its value is remembered although the code
  never looks at it.  `job`, `pc`, `on`, `todo`, `batch` are what each replica's
  handler or job has in its locals: what it runs, the next call, the deploy,
  the calls its goroutines have not made yet, and the rows or pull requests a
  job read at its start.  `granted`, `unguarded`, `failures`, `crashes` are
  auxiliary and guard nothing but the bounds.
* **Identities.** A request and the pull request it may open are one `d`.
  `TagOf`, the tag each is for, is any member of `Taggings` from the start and
  never changes.  Requests for the same app and tag share a branch
  (`SameBranch`), as in `deploy/<env>-<app>-<tag>`.
* **Grain.** Each call to GitHub, Postgres or Redis is one action; between two
  calls anything else may happen.  The goroutines a handler starts together and
  waits for with a WaitGroup are a set of calls (`todo`) made in any order
  (`finish`); where the code is sequential the order is kept
  (`finishInOrder`: the auto-deploy no-op and the recovery).
* **Failure.** `CallFails` is a call that returns an error; the code logs it
  and goes on, or takes its error branch, and so does the action.  For the two
  GitHub mutations that matter (opening, merging) the call may also take effect
  and lose its reply.  `Crash` drops all of a process's locals between any two
  calls; it also stands for a shutdown, after which every remaining call fails
  on the cancelled context.
* **Actions and code.** `Submit`/`CreateDeployPR`/`StoreDeploy`/`AddLabels`/
  `AbandonSubmit` are `handleDeploySubmit`, `handleECRPush` and
  `handleECRApprovalRequest`; `Approve`/`MarkMerging`/`Merge*`/`HeadModified`/
  `Rebase*`/`ResetToPending` are `handleApprove`, `mergeWithRetry` and (with
  `job = "submit"`) `handleECRAutoDeploy`; `Reject` and `Cancel` are
  `handleRejectSubmit` and `doCancelDeploy`; `RunOnce`/`SweepNext`,
  `RecoverStuck`/`Recover*` and `ReconcileFromGitHub`/`ListOpenPRs`/
  `Reconcile*`/`Rehydrate` are `internal/sweeper`; the `Finish*` actions are
  the calls all of them end with.  PROJECT.json has the lines of each.
* **Left out of it.** Slack messages, pull request comments, audit lines,
  metrics; validation that ends a handler before its first write;
  `SetSlackHandle` (a column no decision reads); `ReconstructHistory` (in
  DeployOutcome); pull requests edited by hand on GitHub; the asynchronous deletion of a branch and
  what it does to a later pull request on the same branch; one of the two label
  listings failing by itself (taken as both failing).

`GatedDeploy.tla` is the abstract specification: a pull request is opened once,
merged only when authorised, otherwise withdrawn, and recorded as approved only
when merged.  `ImplementsGate` is the refinement: `phase <- pr`,
`authorised <- granted`, `recorded <-` the deploys whose history says
"approved".

## What is modelled: EventDelivery

`EventDelivery.tla` is the way of an event from its sender to a handler: the
receiver's intakes and retry buffers, the Redis streams with their consumer
group, and the workers' event loops.

* **State.** `sends`, `settled` are the senders' (Slack, SQS, ArgoCD): how often
  an event was sent, and whether it was acknowledged, deleted, answered 2xx.
  `taking`, `stage` are the event each intake of a receiver works on and the
  call it makes next; `buffer`, `draining` its retry buffers and what their
  goroutines are retrying; all of it dies with the receiver.  `seen` (dedupe
  markers), `added`, `unread`, `pending`, `idle` are Redis: entries added, not
  given out, given out and not acknowledged, and of these those nobody got for
  `claimMinIdle`.  `mode`, `turn`, `batch`, `headDone`, `slots`, `slotDone` are a
  worker's place in its loop, what it has read, and its ECR goroutines.  The
  rest is auxiliary: what was handled, what was dropped and why.
* **Messages.** Every XADD makes a message of its own, so an event that was
  sent twice, or buffered after a reply was lost, is in a stream twice.
  `XAdd` may trim the old end as `MAXLEN ~` does, pending entries included.
* **Order of the calls.** An interaction is written and then acknowledged; a
  mention is acknowledged and then written; a push is checked for the app's
  lock, written and deleted; a notification is marked, written and answered.
  `FirstStage`, `AfterEnqueue` and `AfterBuffer` say this per kind, and which
  failures leave an event unsettled.
* **Actions and code.** `Send` is the arrival of an event at an intake;
  `CheckLock`, `Accept`, `Enqueue`, `EnqueueElseBuffer`, `Settle` are
  `ProcessEvent` and `handleMessage`, `Processor.Process`, `enqueueAndAck` and
  `handleEventsAPI`; `DrainTake`, `DrainOne` are `Buffer.Run`; `StartReclaim`,
  `ReclaimStuck`, `ReadStream`, `Spawn` are `Worker.Run`, `reclaimStuck` and
  `readStream`; `HandleHead`/`AckHead` and `HandleSlot`/`AckSlot` are `process`,
  inline and in a goroutine.  `ReceiverDies`, `WorkerDies` may come between any
  two; `BecomeIdle` is the clock.
* **Failure.** Every call may fail; XADD, the reads and the marker may also
  take effect and lose their reply.
* **Left out of it.** What a handler does (one step here); events that end in
  the receiver; payloads that do not decode; a flush of Redis; the expiry of a
  dedupe marker; an SQS message that concerns several apps; requests handled
  in parallel by one webhook (each intake takes one event at a time).

`SafeDelivery.tla` is the abstract specification, in sets of events and without
receivers, workers, buffers or messages: an event is sent, held in memory,
stored, handled, acknowledged; its sender is told.  `Store` may remove others when
the store runs over; `Tell` needs a durable event to be safe (stored, handled or
removed by an overrun); `Handle` needs any event to be, and `Acknowledge` needs it
handled.  `MayLetGo` is what a receiver that forgets an event owes to one whose
sender was told: it is safe, or dropped where the code says so, or a receiver
died.  `ImplementsDelivery` is the refinement: `stored <- Stored`, the events with
a message unread or unacknowledged, `held <- Held`, those an intake, a buffer or
its goroutine has, `told <- settled`, `handled <- Done`, `overrun <- trimmed`,
`dropped <- skipped \cup forgone`, `broken <- lostIntakes > 0`; the durable events are the
interactions, and notifications are sent again although they were settled.
Reads, reclaims, goroutines, workers' deaths and the duplicates of a message are
invisible to it.

## What is modelled: AppCatalogue

`AppCatalogue.tla` is how an application becomes one the bot deploys: declared in
a repository's file, found by the receiver's scanner, written to the ConfigMap,
mounted by Kubernetes, merged by the worker's watcher with the operator's file,
and made known to the tag cache.

* **State.** `repo`, `status` are GitHub (each repository's file, `pushed_at`,
  whether it is listed; the commit status of its default branch, none after a
  push); `operator` the operator's file and its mtime; `receiver`, `scan`,
  `channel` the scanner's caches, the scan under way and the conflicts it warned
  about, with `told`, those whose message Slack took; `published`, `mounted` the ConfigMap and
  the file in the pod; `bot` the worker's configuration, the applications of its
  tag cache and the watcher's place in a reload.
* **Actions and code.** `StartScan`, `Fetch`, `FinishScan` are `Scanner.Scan`
  with its fetch goroutines in any order, `DetectConflicts`, `EmitWarnings`,
  `SetCommitStatuses`, `WriteConfigMap`; `ByLastPush` is the order of GitHub's
  listing; `ParseRepoConfig`, `ValidEntries` and `Kept` are
  `repoconfig` and `validate.go`; `Check` is one turn of the loop that finds
  conflicts; `Tick`/`Sighup`, `MergeDiscovered`, `StatFiles`
  are `config.Watch`, the loader and the callbacks that follow it, in three
  steps because files may be written between them; `MergeApps`, `AddApps` are
  the functions of that name.
* **Failure.** A fetch, the status of each repository, the warning's post or the
  ConfigMap may fail (`lost` of `FinishScan`); receiver and worker restart; the
  operator's file may not load.  A warning that fails counts as given all the same
  (`Warn`), as `conflict.go:113-121` has it.  Statuses go through
  `refs/heads/main` whatever the default branch is called: `OnMain` are the
  repositories where that is one, `Flaggable` those of them that are not archived.
* **Left out of it.** Enforced naming (an entry with another name is `ok =
  FALSE`), rate-limit floors (a scan that does not happen), several scanners.

## What is modelled: DeployOutcome

`DeployOutcome.tla` begins at a merge: the row of the history, ArgoCD's
notifications, the health check, the prompts and modals of a rollback, and the
rebuilding of a lost history.

* **State.** `merges` is the default branch, one tag per commit; `pushing` the
  merged deploys whose row is not written; `history` the approved rows in order
  of insertion; `listing` the replicas that found the table empty and wait for
  GitHub's list, `rebuild` what each replica still has to insert; `inbox`,
  `results` the notifications; `channel` alerts, replies and prompts in Slack;
  `monitors`, `verdicts` the health checks; `opening`, `proposal` a rollback
  between its two reads of the history, and the modal it led to.  `met` and
  `contested` are auxiliary: the commits whose rows were written since a replica
  found the table empty, and those a rebuild listed although they had a row by
  then, or somebody was to write one.  One application is modelled; its name in requests (`FullName`) and the one in
  commit messages (`CommitName`) differ, as they do in the code.
* **Actions and code.** `Merge`, `Complete` are the end of the deploy handlers;
  `HandleArgoCDNotification` with `Result`, `RollbackPrompts`,
  `FindPreviousApprovedBefore`, `IsTransientRolloutDegraded` is
  `internal/bot/argocd*.go`; `Round`, `Deadline` are the monitor; `RollbackModal`,
  `HandleRollback`, `HandleHealthRollbackClick`, `HandleArgoCDRollbackClick`,
  `HandleMentionRollback`, `HandleDeployFilter`, `OpenDeployModal` are the ways a
  rollback is proposed; `ReconstructHistory`, `ListCommits`, `RebuildRow` are the
  sweeper's function of the first name, cut where other processes may write: the
  look at the table, the listing, each row.
* **Failure.** Rows, lookups and listings may fail, and so may each post
  (`lost` of `HandleArgoCDNotification` and of `Deadline`): that is logged, and the
  notification acknowledged (`argocd.go:244`, `monitor.go:254`).
* **Left out of it.** Thresholds and queries of a check (one verdict a round),
  the limits of lists and options, wording.  The handlers ask for the newest 100
  rows of an application; with more, of any kind, the row sought may not be among
  them and no tag is proposed, where the model proposes one.

## What is modelled: Authorization

`Authorization.tla` is who may open the form, be named approver, ask by a mention
and decide: the receivers' cached member set, and the workers' live check.

* **State.** `source` is the truth (Slack groups and emails, GitHub teams and
  logins); `identity`, `members` are Redis; `refresh` each receiver's pass over
  the sources; `form` the forms; `handler` a worker's check, call by call;
  `deploy` whether one is under way.  `was` and `held`, in a handler, remember
  who was authorized since it took its event and which sources held and answered.
* **Actions and code.** `CollectGroups`, `CollectTeams`, `ClearMembers`,
  `AddMembers` are `Cache.Refresh`, DEL and SADD apart because nothing makes them
  one; `Submit` is the receiver's `validateAndDispatch`; `CheckSlack`,
  `LookUpIdentity`, `SearchIdentity`, `CheckGitHub` are `Validator.IsMember` and
  `ResolveIdentity`; the rest are the handlers that ask.
* **Left out of it.** The two kinds of Slack source and of GitHub source are one
  set each: whichever says yes, the code goes the same way.

## What is modelled: TagCache

`TagCache.tla` is whether a tag exists, as two kinds of process see it.

* **State.** `ecr` the push time of each tag's image, `changed` when the tag was
  last put on an image or deleted; `redis` the list
  that workers share; `cache`, `fetching` each worker's; `request` the request
  under way, with whether its tag was there since.  The receiver's cache is
  filled once and never refreshed, so it may hold whatever ever was there
  (`ValidateAndDispatch`).
* **Actions and code.** `PopulateFromRedis`, `FetchToPopulate`, `FetchImages`,
  `Refresh` with `Keep` and `WriteRepoTags` are `Populate`, `StartRefresh`,
  `refresh`; `ValidateTag` is asked by the receiver, which lets through what it
  could not ask, and by the worker, which does not.
  A tag may be put on an image that is there already, whose push time it then has
  (`PushImage` picks any time so far), and two images may have one time.
* **Failure.** Reads and writes of Redis and questions to ECR may fail; the worker
  that could not ask says "not found", as it does of a tag that is not there
  (`Outcome`).
* **Left out of it.** Pages of DescribeImages.

## What is modelled: ExpiringKeys

`ExpiringKeys.tla` has the two keys of Redis that replicas share and that run
out: the thread slot of an environment and the lock of a periodic pass.  Time is
a count of ticks; what matters is the order of TTL, interval and length of a
pass, which the instance has as in the code (lock longer than the interval).

* **State.** `thread`, `lock` are the keys with the ticks they have left; `poster`
  the handlers in `getThreadTS`; `replica` each replica's ticker and pass.
  `parents`, `late`, `since` count threads, slots outlived by their opener, and
  the ticks since a pass began.
* **Actions and code.** `GetThreadTS`, `SetThreadTS`, `PollThreadTS`, `PostParent`,
  `UpdateThreadTS`, `PostMessage` are `getThreadTS` and `threadOption`, each call
  with its failure; `HandleTick`, `TryLock`, `TryLockFails`, `EndPass` are the
  tickers of `cmd/bot`.  A SET NX that fails may have set its key, for the slot and
  for the lock: the lock is then held although no pass began.  The sweeper, the reconciliation and the retention each have a lock
  of their own and the same shape.

## What the runs show

| Run | Instance | Shows |
|---|---|---|
| `lifecycle_races` | one deploy, two event workers, one background job, one failing call, lock may expire | every overlap of approve, reject, cancel, sweep, recover and reconcile on one deploy: `ApprovedIsMerged`, `ApprovalRecordedOnce`, and while nothing fails `AgreesWhileHealthy` |
| `lifecycle_auto` | a manual and an auto-deploy request of one app, for one tag or for two, one failure, one crash | the inductive invariant `LifecycleInv` (with the types); `ConcurrentDeploysLostALock` through conflicts, rebases, expiries and late releases; `ImplementsGate` |
| `lifecycle_liveness` | one deploy, one worker, one job, one failure, one crash, fair | `PendingLeaves`, `LabelledOrphanIsFound`, `EveryPRResolves`, `MergingEndsWhileHealthy` |
| `delivery` | a slash command sent twice, two workers, one failure, one death, a stream of one, fair | `SettledInteractionIsKept`, `SettledInteractionIsHandled`, `BufferedIsHandled`; `ImplementsDelivery`, with deaths, reclaims and trimming between any two calls |
| `delivery_background` | a mention, a push and a notification, the last two sent twice, two failures, all three streams | `AccountedWhileReceiversLive`, `OnceWhileHealthy` |
| `catalogue` | two repositories, one without a branch `main`, that rival for a name and a file, or one with the operator; two happenings, fair | `DistinctTargets`, `MissedOnlyWhileReloading`, `ExcludedIsFlagged`, `CatalogueConverges`, `WorkerConverges`, `ConflictIsReported` |
| `outcome` | three merges, one of them automatic, two replicas, two happenings, fair | `PromptGoesBackOne`, `OneRowUnlessContested`, `RollbackStartsFromDeployed`, `FailureIsTold` |
| `authorization` | a requester Slack knows, an approver GitHub knows, two receivers, one worker, two happenings, fair | the inductive invariant `AuthorizationInv`; `RefusedForCause`, `MembersDecide`, `MembersConverge` |
| `tags` | two tags of the pattern and one that is not, two workers, three happenings, fair | the inductive invariant `TagsInv`; `DeletedUntilNextPush`, `ImagesAreOffered`, `AcceptedWasBuilt`, `RefusedWasMissing` |
| `keys` | two handlers and two replicas, thread slot of 2 ticks, interval 2, lock 3, passes that may outlast it, two happenings, fair | the inductive invariant `KeysInv`; `OneOpensTheThread`, `PendingPasses`, `PassesOverlapWhenLong`, `PassesKeepPace` |
| `lock_released_late` | three deploys, two workers, no expiry | violated: `OneInFlightPerApp` |
| `merging_stuck` | one deploy, one crash, restarting workers | violated: `MergingEnds` |

A run of each of four modules checks the inductive invariant its theorems rest
on, and with it the module's `TypeOK`, its first conjunct.  `DeliveryInv` (and
`ImplementsDelivery`) hold on the instance of `delivery_background` too, 1.7 million
states, and `CatalogueInv` and `OutcomeInv` on those of `catalogue` and `outcome` (add
`INVARIANT CatalogueInv`); those runs keep to what follows from them.

**Bounds.** `MaxFailures` and `MaxCrashes` bound failed calls and deaths; the
instances bound deploys and processes.  Handlers relate to one another only
through one deploy, one branch or one app's lock, so two actors on one deploy,
two deploys on one branch and two (for the late release, three) on one lock
cover the kinds of overlap; one fault at any place covers each error branch,
and a second one mostly repeats a first from another state.  The proofs below
need none of these bounds.

In EventDelivery events of different kinds meet only in a worker's loop and
those of one kind in a buffer or a stream, where two copies of one event do
what two events would; so each kind needs one event, sent twice.  A buffer and
a stream of one make overflow and trimming happen, a batch of two lets a
message wait behind another; the second failure of `delivery_background` makes a
buffer overflow or a retry fail.  `delivery` has one failure to keep liveness
within minutes; with `MaxFailures = 2` its invariants hold too (`SPECIFICATION
Spec`, 4.2 million states), and its liveness with the command sent once.
`MaxLapsed` bounds the messages that ever become idle: `delivery` has fewer than
its 9; `delivery_background` sets it to 0, so that there nothing is reclaimed,
which keeps the three streams within reach.

In the other five modules one bound, `MaxHappenings`, counts everything from
outside together (pushes, edits, deletions, failed calls, deaths, changes of
membership), so a run has every pair of them in every order, and three in
`tags`.  Two are what the hazards take: a conflict and the end of it, a
failed fetch and the next push, a notification and a later deploy, a lost history
and its rebuild beside a deploy, a member who moves between sources; three are a
push or a deletion beside a tag put on an older image and a failed call.  `outcome`
holds with three as well (3.6 million states), `tags` with four (3.7 million).  The
instances are chosen to make the rare case certain rather than likely: files
with a bad entry and duplicates, a repository without a `main` and one with it,
an operator who already has the name, a
deploy without a Slack message, a thread slot that runs out while its opener
works, a pass longer than its lock.

**Fairness** (`FairSpec` of each module).  DeployLifecycle: a process that has
begun goes on: the Go scheduler runs its goroutines, and each call has a timeout
or returns (`WF` on `Step`).  The sweep ticker fires for ever, whatever other
jobs the same replica runs in between (`SF` on `RunOnce`).  The clock passes
`expires_at` (`WF` on `BecomeStale`).  Nothing is assumed of people, of lock
expiry, or of restarts; only the refuted `MergingEnds` is given restarts for ever
(`RestartingSpec`), to show that even those do not help.

EventDelivery: an intake that took an event goes on, a buffer's goroutine goes
on retrying, a worker's loop and goroutines go on; the claim ticker is found at
the top of the loop again and again (`SF` on `StartReclaim`); a message nobody
acknowledges becomes idle.  A process that died is replaced, as its Deployment
does.  Calls fail only `MaxFailures` times: a Redis that is down for good
promises nothing.

AppCatalogue: the tickers of scanner and watcher fire, a fetch is made, and
Kubernetes refreshes the mounted file (`WF`); again and again a scan ends without
a failing call and after the warnings' cooldown (`SF` on `FinishScan`), as scans
are repeated for ever and the cooldown is 20 minutes.  DeployOutcome: a worker
takes up what is on the stream (EventDelivery's promise), and a health check's
window ends.  Authorization and TagCache: the refresh tickers fire.
ExpiringKeys: time goes by and passes end.  In none of them are people, ArgoCD or
ECR obliged to do anything.

**Why "WhileHealthy".** Nothing in the code retries a failed `PushHistory`,
`Delete` or `ClosePR`, so consistency of the three stores is promised only
while calls succeed (`AgreesWhileHealthy`: no orphaned pull request, every
merging row attended, what is recorded is over); what is promised in spite of
failures and crashes is `ImplementsGate`, single recording, and that labelled or
recorded deploys leave.

### Where documentation and code disagree

Two have a run that TLC must find violated:

1. **Two deploys of an app in flight** (`lock_released_late`).  `ReleaseLock` is
   a DEL whoever holds the lock.  When two handlers end one deploy (a rejection
   beside a sweep, an approval beside a cancel), the first releases the lock,
   the app's next deploy takes it, and the second deletes that one.  With the
   default settings plain expiry (5 minutes against 2 hours) leads there too.
2. **A merge nobody can finish** (`merging_stuck`).  After a death between the
   merge and the deletion of the row, `RecoverStuck` fails for ever on the
   merged pull request, and expiry passes over rows in `merging`.

The others are stated in their modules, after the properties that hold; put in
the cfg named here in place of its properties, TLC violates each.

| Property | Instance | What is said, and what happens |
|---|---|---|
| `SubmissionSeesPending` | `lock_released_late` | `docs/redis-resilience.md:91` calls `GetByEnvApp` a second guard; it is asked only to word a refusal, after `AcquireLock` has failed |
| `NoTerminalRowLingers` | `lock_released_late` | the migration says no terminal rows linger; the reconciler writes rows from a list it read before the pull request was decided |
| `DeletedPushIsQueued` | `delivery_background` | `docs/ecr-push-triggered-deploys.md:26`: deleted only after being written or buffered; when the lock check fails the app is passed over and the SQS message deleted |
| `NotificationHandledOnce` | `delivery_background` with two workers and `MaxLapsed = 2` | `docs/argocd-notifications.md:142`: the marker handles reclaimed messages; it is tested before the stream only |
| `SuccessMeansRegistered` | `catalogue` | `docs/repo-sourced-app-discovery.md:177`: "All apps registered successfully"; conflicts are kept by name, so the second repository with a conflicting name gets success although its application is left out |
| `StatusOnDefaultBranch` | `catalogue` | `docs/repo-sourced-app-discovery.md:168`: the commit status is set on the head of the default branch; the file is read from there, but the status asks for `refs/heads/main` and passes silently over a repository that has none (`scanner.go:432`) |
| `ConflictIsTold` | `catalogue` | `docs/naming-conventions.md:171`: a conflict has a Slack warning; one whose message Slack refuses counts as warned about and is not told again before it is resolved |
| `ConfiguredIsPolled` | `catalogue` | `README.md:67`: the bot picks up an application on the next reload; the receiver's ECR poller keeps the operator's file it started with (`cmd/receiver/main.go:198`) and no discovered application |
| `ClickPrefillsTarget` | `outcome` | `docs/argocd-notifications.md:32`: the previous tag is pre-filled; it is an option only if it is in the history read at the click and not the newest there |
| `HealthRollbackLeavesFailing` | `outcome` | `docs/health-check-monitoring.md:55`: the previous known-good tag; the button runs `/deploy rollback`, which goes one back from the newest deploy, possibly to the failing one |
| `TargetIsKnownGood` | `outcome` | the prompt says "last known-good" (`argocd_rollback.go:147`); it is the row before, whether or not that deploy failed as well |
| `RebuiltIsFound` | `outcome` | `sweeper.go:24`: a rebuild recovers the display data; rebuilt rows carry the application's name as the commit message has it, which the queries by full name do not match |
| `IdentityIsRefreshed` | `authorization` | `docs/redis-resilience.md:28` lists identity caches as refreshed periodically; they have no TTL (`TODO.md:130` says so), and half an identity is kept as long |
| `OfferedIsInECR` | `tags` | `README.md:32`: autocomplete shows what is in ECR; a refresh replaces the tags only when a newer image was pushed |
| `PlaceholderIsNoThread` | `keys` | `thread.go:57`: workers wait for the real timestamp; one that reads the slot before claiming uses the placeholder (`thread.go:35`) |
| `OncePerInterval` | `keys` | `docs/postgres-setup.md:121`: once per 24 hours; the lock lives 25 hours, so a lone replica runs the retention every other day, and the sweeper and the reconciliation have the same shape |

Two comments say of failures the opposite of what the code does: `IsMember` of the
approver cache "fails open" (`approvers/cache.go:30`, `:67`) and refuses; the
receiver's tag check is "authoritative" (`cmd/receiver/main.go:406`) although its
cache is never refreshed.  The models follow the code.

The models show more that no document denies clearly enough.  An approval and a
rejection that overlap can both be recorded of one deploy; a pull request whose
row and label were both lost is invisible to the reconciler; a recovery that
overlaps a live approval merges in its place, after which the deploy has no
history entry.  A mention that Slack was told is received is lost when its
receiver dies before the write, or when the buffer is full; a notification whose
marker was set while the reply was lost is a duplicate from then on;
MAXLEN removes settled events that nobody handled when a stream is 10,000
entries behind.  A notification that comes before the row of its deploy is
dropped as unmatched, and one whose alert Slack refuses is acknowledged all the
same; a repository whose fetch failed is not read again before its next push.
Two replicas that start with an empty history both rebuild it, and a deploy that
merges or writes its row between the look and the listing is rebuilt beside its
own row.  A tag put on an image that is there already is offered only after the
next push; a requester is told that a tag was not found when ECR could not be
asked; a lock whose SET NX lost its reply goes by without a pass.  The properties name these in their exceptions.

## What is proved

Everything below is proved for every value of the constants, hence for any
number of replicas, deploys, events, users, tags, failures and deaths, under the
one named assumption of its module, which says what kind of value each constant
is, that names do not collide, in EventDelivery and ExpiringKeys how sizes and
times relate in the code, and in AppCatalogue that an operator's file which loads
has no kustomization file twice (`config.go:892`).  The proofs need none of the
bounds of the runs.

The pattern is the same in all: a safety property is seldom inductive, so the
module names the inductive invariant (`LifecycleInv`, `DeliveryInv`, ...) as a
conjunction of parts that each say one thing; the `_proofs` module has lemmas
that every action preserves each part, `THEOREM Invariance` joins them, and the
properties follow.

| Theorem of `M_proofs` | States |
|---|---|
| DeployLifecycle: `Invariance`, `TypeCorrect` | `LifecycleInv`, `TypeOK` |
| `ApprovedMeansMerged`, `OneApprovalRecord` | `ApprovedIsMerged`, `ApprovalRecordedOnce` |
| `LockSerialises` | `ConcurrentDeploysLostALock` |
| `AgreementWhileHealthy` | `AgreesWhileHealthy` |
| `Implementation` | `ImplementsGate`: the refinement of GatedDeploy |
| `GateSuffices` | what GatedDeploy alone implies, whoever implements it (`GateInv`) |
| `MergedWasAuthorised` | whatever is merged was approved by a member or covered by auto_deploy, through the refinement |
| EventDelivery: `Invariance`, `TypeCorrect` | `DeliveryInv`, `TypeOK` |
| `InteractionsAreKept` | `SettledInteractionIsKept` |
| `SettledIsAccounted` | `AccountedWhileReceiversLive` |
| `HandledOnce` | `OnceWhileHealthy` |
| `Implementation` | `ImplementsDelivery`: the refinement of SafeDelivery |
| `PromiseSuffices` | what SafeDelivery alone implies, whoever implements it (`PromiseInv`) |
| `NothingIsInvented` | no event is handled that was not sent, through the refinement |
| Authorization: `Invariance`, `TypeCorrect` | `AuthorizationInv`, `TypeOK` |
| `RefusalHasCause` | `RefusedForCause` |
| `OnlyMembersDecide` | `MembersDecide`, about steps |
| TagCache: `Invariance`, `TypeCorrect` | `TagsInv`, `TypeOK` |
| `DeletedIsDropped` | `DeletedUntilNextPush` |
| `AcceptedTagsWereBuilt`, `RefusedTagsWereMissing` | `AcceptedWasBuilt`, `RefusedWasMissing`, about steps |
| ExpiringKeys: `Invariance`, `TypeCorrect` | `KeysInv`, `TypeOK` |
| `OneOpener` | `OneOpensTheThread` |
| `LongPassesOverlap` | `PassesOverlapWhenLong` |
| `PassesApart` | `PassesKeepApart`, about steps: the second half of `PassesKeepPace` |
| `PassesPace` | `PassesKeepPace`, given `AsConfigured` |
| AppCatalogue: `Invariance`, `TypeCorrect` | `CatalogueInv`, `TypeOK` |
| `TargetsDiffer` | `DistinctTargets` |
| `NobodyIsLeftOutUntold` | `ExcludedIsFlagged`, about steps |
| `NothingElseIsMissed` | `MissedOnlyWhileReloading` |
| DeployOutcome: `Invariance`, `TypeCorrect` | `OutcomeInv`, `TypeOK` |
| `OneRow` | `OneRowUnlessContested` |
| `PromptsGoBack` | `PromptGoesBackOne` |
| `RollbacksAreTrue` | `RollbackStartsFromDeployed`, about steps |

**DeployLifecycle.**  `ProcessInv` ties each program counter to the job that can be
there and to a deploy, without which nothing is known of an update "at `on[p]`".
`FreshInv` says that before a pull request exists nobody but one opener refers
to it, so opening it disturbs nobody.  `AuthorisedInv` follows authorisation along
the path to `MergePR`: into the row's "merging", from there into what
`RecoverStuck` read, and into the program counters between `mark` and `merge`;
that is why `Merge` of the abstract specification is enabled whenever the code
merges.  `RecordInv` says who is yet to record an approval has merged the pull
request himself; GitHub merges once, so there is one such process at most, and
it has not recorded yet.  `GuardedInv` says that an open pull request's lock is
either its own or lost, which gives `ConcurrentDeploysLostALock` since a lock has
one value.  `AgreesWhileHealthy` speaks only of deploys nobody has in hand;
`CareInv` says of the others who will put things right: the submitter yet to
store the row or to merge by itself, the handler yet to close the pull request,
the approver yet to take the row out of "merging".  `EndInv` says what such a
handler has left to do when it ends, so that the last one to let go of a deploy
leaves it in order.

**EventDelivery.**  A message lives in a stream, among the pending entries, or in
a worker's batch or slots, and may have been trimmed while a worker still has
it.  `MessageInv` says that the ids of one stream tell these apart (an id given
out is never above the number added), and `WorkerInv` that what is about to be
acknowledged was handled, so `XACK` never removes the last trace of an unhandled
event; with `ReceiverInv` (an intake holds an event of its own stream while it has
a call to make) this carries `InteractionInv`: an interaction is in its stream
before Slack is told.  `ProgressInv` is the same for all kinds, as long as no
receiver dies, with the buffers and the drops of the code as further places to
be.  `OnceInv` counts: what was handled, the messages yet to handle and the
intakes yet to write are together at most what was sent (for a notification:
admitted by the marker), and a message is in one hand only.  It needs the sets
to be finite, hence the cardinality lemmas.

`HandInv`, that what a worker has in hand was at no time lost sight of, is what the
refinement adds: two workers may have one message after a reclaim, and the
second handles an event that the first has acknowledged and nobody has stored
any more.  With it every call maps to one action of SafeDelivery: `Handle` is
enabled by `HandInv`, `Acknowledge` by `WorkerInv`, `Tell` by `InteractionInv`,
and `MayLetGo` of the state after the step follows from `ProgressInv` there
(`LetsGo`).  That an XADD trims nothing of its own event, so that it is a `Store`
whatever else goes, rests on `StreamMaxLen` being at least one (`XAddStores`).
`PromiseInv` is then proved from the actions of SafeDelivery alone: `InteractionsAreKept`
and `SettledIsAccounted` say of the abstract view what it says, so the abstract
specification is strong enough to be what the rest of the bot relies on.

**Authorization.**  A check makes up to four calls and memberships change between
any two.  `Remembers` says that the auxiliary fields of a check are true of the
sources; `HasCause` that a check goes past a source only when that source does
not have the user or did not answer.  `TypeOK` includes that a user without a
login never gets one, on which `RefusedForCause` rests.  `MembersDecide` is about
the step that starts or decides a deployment and follows from `Remembers`.

**TagCache.**  `ListsInv` says of every list there is (in Redis, in a cache, or
fetched and on its way to either) that what it has of deleted tags was deleted
after all its images were pushed: that a cache keeps what it has unless the
fetched list has a newer image is harmless for this reason.  `RequestInv` ties
what a request remembers of its tag to ECR.  A tag is deleted later than any image
was pushed, and an older push time, as a tag put on an older image has, only makes
a list less recent; so retags leave it inductive.

**ExpiringKeys.**  `SlotInv`: until a slot runs out under its handler, the
handler that opens a thread is alone and the placeholder has exactly the time
left that the handler has not used.  `LockInv`: of the passes not longer than the
lock there is one at most, and the lock's time left tells how long ago the last
pass began.  `PassesApart` uses that the lock outlives the interval (`KeysAssumption`; 25
hours against 24 for the retention, a minute more than the interval for the
sweeper and the reconciliation).  How long the next pass may take to begin
depends on how much longer the lock lives: with one of seven ticks and an interval
of four TLC finds gaps of more than two intervals, since a replica that begins a
pass late, having waited for its own last one, tries again too early twice.  So
`PassesPace` has the hypothesis `AsConfigured`, the lock one tick longer than the
interval and passes of two intervals at most.  `PaceInv` is what it rests on: a
replica either runs a pass as old as the last one or older, or has a tick to
handle, or gets one in time; and the lock, whoever took it, runs out an interval
before the next pass is due.  A failed call or restart puts that off by two
intervals, for it may have taken the lock and begun nothing.

**AppCatalogue.**  `ReloadInv`: until a file is written under a reload, what the
reload read is what the files say, and the stored mtimes are never ahead of the
files'; then equal mtimes mean that nothing was missed.  `PathsInv`: what is
published and mounted has no file twice and none of the operator's, as long as
the operator's file is the one the receiver loaded; then merging, which looks at
names alone, is safe.  Both this and `ExcludedIsFlagged` rest on what the loop of
`detectConflicts` has computed after any number of entries (`Detected`): each
entry is named in a conflict or has claimed its path, of two with one path one is
named, and a conflict is about one of the entries.

**DeployOutcome.**  `RowsInv` is about the commit each row is of (a rebuilt row has
none, but its number as completion time).  Of a commit that is not `contested` one
process at most is to write a row, its own deploy or one rebuild, and none once the
row is there.  The step that could break it is `ListCommits`, which takes every
commit there is: those in the table were written since the look, hence are in
`met` (a replica in `listing` has met every row there is), and those others are to
write are in `pushing` or a `rebuild`; all of them become contested.  `RecordInv` is about
what a row says: a row with a SHA has the tag of its commit, no other has its SHA or its
time, it is older than any to come, and a prompt posted for a commit has the tag
of the row before that commit's, whatever was inserted since.  When the rows up to
a commit are there in order (`InOrder`), the row before is of the commit before,
which deployed another tag; that gives `PromptGoesBackOne`, and for the newest
two rows `RollbackStartsFromDeployed`.

**Lemmas.**  What a loop over a list of any length computes needs induction over
the natural numbers.  The library states it with a predicate as parameter, which
the provers here cannot instantiate; `SetInduction` of `Lemmas.tla` states it of
a set of numbers, and is proved from the order's being well founded.  `FoldExists` says
that a recursive function of the kind the models use exists, so that its equation
may be used.  With them AppCatalogue_proofs shows of `Kept`, `FlattenSeq`,
`DetectConflicts`, `MergeApps` and `ByLastPush` what the invariants need, for lists and
sets of any size.

Only model-checked, and why:

* liveness and `ENABLED`, which the prover does not do: `PendingLeaves`,
  `LabelledOrphanIsFound`, `EveryPRResolves`, `MergingEndsWhileHealthy`,
  `SettledInteractionIsHandled`, `BufferedIsHandled`, `CatalogueConverges`,
  `WorkerConverges`, `ConflictIsReported`, `FailureIsTold`, `MembersConverge`,
  `ImagesAreOffered`, `PendingPasses`;
* the two properties that TLC refutes.

Every safety invariant and every action property the passing runs check is
stated by a theorem; `PassesKeepPace` with the hypothesis above.

Some definitions are worded for the proofs, and say what the code computes in
another way.  `Keep` of TagCache compares lists with `Newer` (some image is newer
than all of the other list's) where the code compares two maxima.  In
DeployOutcome a replica that rebuilds has the set of commits it has left and takes
the oldest, where the code goes through a slice, and a query that sorts rows
returns their set, of which `Newest`, `First` and `Second` are what the code takes
from the sorted list.  In AppCatalogue `Kept` is one recursive function for the
loops that filter a list, and `ByLastPush` chooses an order rather than sorting.

## Plan

1. **DeployLifecycle, GatedDeploy** (modelled, checked, proved).
2. **EventDelivery**, **AppCatalogue**, **DeployOutcome**, **Authorization**,
   **TagCache**, **ExpiringKeys** (modelled, checked; their safety proved), with
   **SafeDelivery**, which EventDelivery implements (checked, proved).
3. **GitBranch**: refs, pull requests on a shared branch, the deletion running
   on its own; composed with the part of the lifecycle that opens and closes.
4. The wait of user events behind the ECR semaphore (`queue.go:283`), which
   needs a smaller model of the loop than EventDelivery's.

Runs are kept few: one passing run per distinct question, and a refuting one
only where documentation and code disagree.

## Not modelled

The asynchronous deletion of a branch (GitBranch in the plan).  Parsing,
defaults and validation of single configuration values, and the migrations.
Formatting of messages and modals, listings (`/deploy list`, `history`, `tags`),
Slack's, Dynatrace's and AWS's clients, audit and metric output, HTTP health
endpoints, the Redis-to-Postgres migration and the configuration tool (run while
the bot is stopped), the Terraform and Kubernetes files: they decide nothing and
change nothing another component reads.  PROJECT.json says for each component
what is left out of it.
