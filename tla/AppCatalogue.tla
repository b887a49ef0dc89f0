---------------------------- MODULE AppCatalogue ----------------------------
(***************************************************************************)
(* How an application becomes one the bot deploys: from the config file of *)
(* a repository, through the receiver's scanner (internal/reposcanner),    *)
(* the ConfigMap it writes and the file Kubernetes mounts, and from the    *)
(* operator's config file, to the worker's configuration                   *)
(* (internal/config: watcher, holder, loader) and its tag cache's list of  *)
(* applications (internal/ecr).                                            *)
(*                                                                         *)
(* An application is a record: its full name (app and environment), the    *)
(* kustomization file it targets, the pattern its tags match and the       *)
(* repository that declares it (Operator for the operator's own file).     *)
(* What is declared in a file is a sequence of entries; one that fails the *)
(* field checks (a missing field, a bad regular expression, a name other   *)
(* than the derived one) has ok = FALSE.  One receiver scans, and each     *)
(* process runs on the configuration it loaded.                            *)
(***************************************************************************)
EXTENDS Integers, Sequences, FiniteSets, SequencesExt

CONSTANTS
  Repos,          \* repositories of the organisation
  OnMain,         \* those whose default branch is called main
  Names,          \* full names of applications
  Paths,          \* kustomization files
  Patterns,       \* tag patterns
  Files,          \* what a repository's config file may declare
  OperatorFiles,  \* what the operator's file may declare, when it loads
  Beginnings,     \* what is declared when the processes start: [files, apps]
  Operator,       \* the source of an operator entry
  NoFile,         \* there is no config file, or none is cached
  BadFile,        \* an operator's file that does not load
  MaxHappenings   \* bound: pushes, archivings, writes of the operator's file, failed
                  \* calls, signals and restarts, taken together

App   == [name : Names, path : Paths, pattern : Patterns, source : Repos \cup {Operator}]
Discovered == [name : Names, path : Paths, pattern : Patterns, source : Repos]
Entry == [name : Names, path : Paths, pattern : Patterns, ok : BOOLEAN]

ASSUME CatalogueAssumption ==
  /\ IsFiniteSet(Repos) /\ Operator \notin Repos /\ OnMain \subseteq Repos
  /\ Files \subseteq Seq(Entry) /\ NoFile \notin Files
  /\ OperatorFiles \subseteq Seq(App) /\ BadFile \notin OperatorFiles
  /\ \A f \in OperatorFiles : \A i, j \in DOMAIN f :
       f[i].source = Operator /\ (f[i].path = f[j].path => i = j)
  /\ Beginnings \subseteq [files : [Repos -> Files \cup {NoFile}], apps : OperatorFiles]
  /\ MaxHappenings \in Nat

Never == -1   \* no pushed_at is stored for the repository

VARIABLES
  repo,      \* GitHub: each repository's file, pushed_at, and whether it is listed
  status,    \* GitHub: the commit status deploy-bot/config of the last commit of each
             \* repository's default branch
  operator,  \* the operator's file and its mtime
  receiver,  \* receiver: the config it loaded; the scanner's repoPushedAt, lastContent
  scan,      \* receiver: the scan under way: repositories seen, to fetch, apps found
  channel,   \* receiver: the conflict tracker: names warned about, those of them
             \* that a message named which Slack took, and whether a message
             \* was tried since the start
  published, \* the ConfigMap's list of discovered applications
  mounted,   \* the discovered file in the worker's pod and its mtime
  bot,       \* worker: its config, the applications its tag cache knows, its watcher;
             \* hit: a file was written since the reload under way read the files
  happened   \* how many of the bounded happenings there were

vars == <<repo, status, operator, receiver, scan, channel, published, mounted, bot, happened>>

NamesOf(apps) == {apps[i].name : i \in DOMAIN apps}
PathsOf(apps) == {apps[i].path : i \in DOMAIN apps}

-----------------------------------------------------------------------------
(* Parsing a repository's file: one bad entry does not invalidate the      *)
(* others; of two entries with one name or one path the first is kept.     *)

DuplicateName(f, i) == \E j \in 1..(i - 1) : f[j].ok /\ f[j].name = f[i].name
DuplicatePath(f, i) ==
  \E j \in 1..(i - 1) : f[j].ok /\ ~DuplicateName(f, j) /\ f[j].path = f[i].path

ValidEntries(f) ==
  {i \in DOMAIN f : f[i].ok /\ ~DuplicateName(f, i) /\ ~DuplicatePath(f, i)}

\* What a sequence has at some positions, in their order.
Kept(seq, wanted) ==
  LET upto[i \in 0..Len(seq)] ==
        IF i = 0 THEN <<>>
        ELSE IF i \in wanted THEN Append(upto[i - 1], seq[i]) ELSE upto[i - 1]
  IN upto[Len(seq)]

ParseRepoConfig[r \in Repos] == [f \in Files \cup {NoFile} |->
  IF f = NoFile THEN <<>> ELSE
  Kept([i \in DOMAIN f |-> [name |-> f[i].name, path |-> f[i].path, pattern |-> f[i].pattern,
                           source |-> r]], ValidEntries(f))]

\* Mutant: paths that other repositories claim are not looked at.
DetectConflictsOperatorOnly(operatorApps, found) ==
  {[name |-> found[i].name, source |-> found[i].source] : i \in
     {j \in DOMAIN found : \/ found[j].name \in NamesOf(operatorApps)
                            \/ found[j].path \in PathsOf(operatorApps)}}

\* One entry that was found, after those before it: it is at fault when the operator
\* has its name or its path, or an entry before it claimed the path; one conflict is
\* kept for a name.
Check(acc, operatorApps, d) ==
  IF d.name \in {c.name : c \in acc.conflicts} THEN acc
  ELSE IF \/ d.name \in NamesOf(operatorApps)
          \/ d.path \in PathsOf(operatorApps) \cup acc.claimed
  THEN [acc EXCEPT !.conflicts = @ \cup {[name |-> d.name, source |-> d.source]}]
  ELSE [acc EXCEPT !.claimed = @ \cup {d.path}]

\* The scanner's conflicts, as (name, repository of the entry at fault); every entry
\* of a name that has one is dropped.
DetectConflicts(operatorApps, found) ==
  LET after[i \in 0..Len(found)] ==
        IF i = 0 THEN [conflicts |-> {}, claimed |-> {}]
        ELSE Check(after[i - 1], operatorApps, found[i])
  IN after[Len(found)].conflicts

\* Operator entries first; a discovered one is skipped when its name is taken.
MergeApps(primary, discovered) ==
  LET taken(i) == \/ discovered[i].name \in NamesOf(primary)
                  \/ \E j \in 1..(i - 1) : discovered[j].name = discovered[i].name
  IN primary \o Kept(discovered, {i \in DOMAIN discovered : ~taken(i)})

Init ==
  /\ status = [r \in Repos |-> "none"]
  /\ \E start \in Beginnings :
     LET apps == start.apps IN
       /\ repo = [r \in Repos |-> [file |-> start.files[r], pushed |-> 0, listed |-> TRUE]]
       /\ operator = [apps |-> apps, mtime |-> 0]
       /\ receiver = [cfg |-> apps, pushedAt |-> [r \in Repos |-> Never],
                      content |-> [r \in Repos |-> NoFile]]
       /\ bot = [cfg |-> MergeApps(apps, <<>>), got |-> <<>>, pc |-> "idle",
                 lastMod |-> 0, lastDiscoveredMod |-> 0, hit |-> FALSE,
                 cached |-> {<<apps[i].name, apps[i].pattern>> : i \in DOMAIN apps}]
  /\ scan = [on |-> FALSE, seen |-> {}, todo |-> <<>>, found |-> <<>>]
  /\ channel = [warned |-> {}, told |-> {}, lastWarn |-> FALSE]
  /\ published = <<>>
  /\ mounted = [apps |-> <<>>, mtime |-> 0]
  /\ happened = 0

Happens(n) == happened + n <= MaxHappenings /\ happened' = happened + n

-----------------------------------------------------------------------------
(* The organisation and the operator.                                      *)

\* A write of a config file between the moment a reload reads it and the moment
\* the watcher stores its mtime.
Written == [bot EXCEPT !.hit = @ \/ bot.pc \in {"merge", "stat"}]

\* The new commit has no status yet.
Push(r, f) ==
  /\ Happens(1)
  /\ repo[r].listed
  /\ repo' = [repo EXCEPT ![r] = [@ EXCEPT !.file = f, !.pushed = happened + 1]]
  /\ status' = [status EXCEPT ![r] = "none"]
  /\ UNCHANGED <<operator, receiver, scan, channel, published, mounted, bot>>

\* Archived, deleted or renamed: the organisation's listing no longer has it.
Unlist(r) ==
  /\ Happens(1)
  /\ repo[r].listed
  /\ repo' = [repo EXCEPT ![r].listed = FALSE]
  /\ UNCHANGED <<status, operator, receiver, scan, channel, published, mounted, bot>>

EditOperatorFile(apps) ==
  /\ Happens(1)
  /\ apps # operator.apps
  /\ operator' = [apps |-> apps, mtime |-> operator.mtime + 1]
  /\ bot' = Written
  /\ UNCHANGED <<repo, status, receiver, scan, channel, published, mounted>>

\* Kubernetes brings the mounted file up to date with the ConfigMap.
Mount ==
  /\ mounted.apps # published
  /\ mounted' = [apps |-> published, mtime |-> mounted.mtime + 1]
  /\ bot' = Written
  /\ UNCHANGED <<repo, status, operator, receiver, scan, channel, published, happened>>

-----------------------------------------------------------------------------
(* The receiver's scanner.                                                 *)

\* Mutant: archived repositories are listed too.
ListReposAll == Repos

ListRepos == {r \in Repos : repo[r].listed}

\* The order in which GitHub lists repositories: the one pushed to last comes first.
ByLastPush(repos) ==
  CHOOSE order \in [1..Cardinality(repos) -> repos] :
    \A i, j \in 1..Cardinality(repos) :
      i < j => order[i] # order[j] /\ repo[order[i]].pushed >= repo[order[j]].pushed

\* A scan that cannot list the repositories, or finds the rate limit low, ends
\* here and changes nothing.  Repositories come in the order of their last push;
\* those not pushed to since are parsed from the cache, before any other.
StartScan ==
  LET seen   == ListRepos
      fresh  == {r \in seen : repo[r].pushed > receiver.pushedAt[r]}
      cached == ByLastPush({r \in seen \ fresh : receiver.content[r] # NoFile})
  IN
  /\ ~scan.on
  /\ scan' = [on |-> TRUE, seen |-> seen,
              todo |-> [r \in fresh |-> repo[r].pushed],
              found |-> FlattenSeq([i \in DOMAIN cached |->
                          ParseRepoConfig[cached[i]][receiver.content[cached[i]]]])]
  /\ UNCHANGED <<repo, status, operator, receiver, channel, published, mounted, bot, happened>>

\* What a repository contributes: its file (none on a 404), or, when the call
\* fails, what the scanner has cached.
FetchConfigFile(r, fails) == IF fails THEN receiver.content[r] ELSE repo[r].file

\* One fetch goroutine: pushed_at is stored whether the fetch failed or not.
Fetch(r, fails) ==
  LET content == FetchConfigFile(r, fails)
  IN
  /\ r \in DOMAIN scan.todo
  /\ Happens(IF fails THEN 1 ELSE 0)
  /\ receiver' = [receiver EXCEPT !.pushedAt[r] = scan.todo[r], !.content[r] = content]
  /\ scan' = [scan EXCEPT !.todo = [s \in DOMAIN @ \ {r} |-> @[s]],
                          !.found = @ \o ParseRepoConfig[r][content]]
  /\ UNCHANGED <<repo, status, operator, channel, published, mounted, bot>>

\* What a message with the conflicts not warned about leaves of the tracker.
Warn(names, posted) ==
  [warned |-> names, lastWarn |-> TRUE,
   told |-> IF posted THEN names \ (channel.warned \ channel.told) ELSE names \cap channel.told]

\* What is left of it without one: conflicts that are resolved are forgotten.
Forget(names) == [channel EXCEPT !.warned = @ \cap names, !.told = @ \cap names]

\* Mutant: once a message was posted the cooldown never ends.
EmitWarningsOnce(names, cooling, posted) ==
  IF names \subseteq channel.warned \/ channel.lastWarn
  THEN Forget(names) ELSE Warn(names, posted)

\* emitWarnings: nothing new during the cooldown; otherwise one message with the
\* conflicts not warned about, which then are, whether Slack took it or not.
EmitWarnings(names, cooling, posted) ==
  IF names \subseteq channel.warned \/ (channel.lastWarn /\ cooling)
  THEN Forget(names) ELSE Warn(names, posted)

\* The commit that gets a status is the one refs/heads/main points to: a repository
\* without that branch is passed over, and of one that has it beside its default branch
\* another commit gets the status.  One that is archived takes none.
Flaggable == OnMain \cap ListRepos

\* Mutant: a repository succeeds when one of its applications does.
SetCommitStatusesAny(found, clashes, lost) ==
  [r \in Repos |->
     IF r \in lost \/ r \notin {found[i].source : i \in DOMAIN found} \cap Flaggable THEN status[r]
     ELSE IF \A i \in DOMAIN found : found[i].source = r => [name |-> found[i].name, source |-> r] \in clashes
     THEN "failure" ELSE "success"]

\* A status for each repository with an application, but for those whose call is lost.
SetCommitStatuses(found, clashes, lost) ==
  [r \in Repos |->
     IF r \in lost \/ r \notin {found[i].source : i \in DOMAIN found} \cap Flaggable THEN status[r]
     ELSE IF r \in {c.source : c \in clashes} THEN "failure" ELSE "success"]

\* The ConfigMap is created, left as it is or replaced; the next scan tries again.
WriteConfigMap(apps, fails) == IF fails THEN published ELSE apps

\* The calls that end a scan: the message, the ConfigMap's, and a status for each
\* repository.
Calls == {"message", "configmap"} \cup Repos

\* The rest of a scan, once every fetch is done; lost are the calls that fail, and
\* cooling says that the last message is less than the cooldown of 20 minutes ago.
FinishScan(lost, cooling) ==
  LET gone    == {r \in Repos \ scan.seen : receiver.content[r] # NoFile}
      clashes == DetectConflicts(receiver.cfg, scan.found)
      names   == {c.name : c \in clashes}
  IN
  /\ scan.on /\ DOMAIN scan.todo = {}
  /\ Happens(Cardinality(lost))
  /\ receiver' = [receiver EXCEPT
       !.content  = [r \in Repos |-> IF r \in gone THEN NoFile ELSE @[r]],
       !.pushedAt = [r \in Repos |-> IF r \in gone THEN Never ELSE @[r]]]
  /\ channel' = EmitWarnings(names, cooling, "message" \notin lost)
  /\ status' = SetCommitStatuses(scan.found, clashes, lost)
  /\ published' = WriteConfigMap(
                    Kept(scan.found, {i \in DOMAIN scan.found : scan.found[i].name \notin names}),
                    "configmap" \in lost)
  /\ scan' = [on |-> FALSE, seen |-> {}, todo |-> <<>>, found |-> <<>>]
  /\ UNCHANGED <<repo, operator, mounted, bot>>

\* The receiver loads the operator's file once, and keeps nothing else.
RestartReceiver ==
  /\ Happens(1)
  /\ operator.apps # BadFile
  /\ receiver' = [cfg |-> operator.apps, pushedAt |-> [r \in Repos |-> Never],
                  content |-> [r \in Repos |-> NoFile]]
  /\ scan' = [on |-> FALSE, seen |-> {}, todo |-> <<>>, found |-> <<>>]
  /\ channel' = [warned |-> {}, told |-> {}, lastWarn |-> FALSE]
  /\ UNCHANGED <<repo, status, operator, published, mounted, bot>>

-----------------------------------------------------------------------------
(* The worker: config.Watch and what a reload does.                        *)

\* A reload starts by reading the operator's file: at a tick that finds that an
\* mtime has advanced, or at a SIGHUP.  A file that does not load ends it there, and
\* leaves the config and the mtimes as they are.
ReadPrimary ==
  /\ bot.pc = "idle" /\ operator.apps # BadFile
  /\ bot' = [bot EXCEPT !.pc = "merge", !.got = operator.apps, !.hit = FALSE]
  /\ UNCHANGED <<repo, status, operator, receiver, scan, channel, published, mounted>>

\* Mutant: the discovered file's mtime is not compared.
TickPrimary ==
  /\ operator.mtime > bot.lastMod
  /\ ReadPrimary
  /\ UNCHANGED happened

Tick ==
  /\ operator.mtime > bot.lastMod \/ mounted.mtime > bot.lastDiscoveredMod
  /\ ReadPrimary
  /\ UNCHANGED happened

Sighup == Happens(1) /\ ReadPrimary

\* Mutant: a reload loads the operator's file alone.
MergeNothing ==
  /\ bot.pc = "merge"
  /\ bot' = [bot EXCEPT !.pc = "stat", !.cfg = bot.got, !.got = <<>>]
  /\ UNCHANGED <<repo, status, operator, receiver, scan, channel, published, mounted, happened>>

MergeDiscovered ==
  /\ bot.pc = "merge"
  /\ bot' = [bot EXCEPT !.pc = "stat", !.cfg = MergeApps(bot.got, mounted.apps), !.got = <<>>]
  /\ UNCHANGED <<repo, status, operator, receiver, scan, channel, published, mounted, happened>>

\* AddApps keeps the entry of an application it knows, whatever its pattern now is.
AddApps(cached, apps) ==
  cached \cup {<<apps[i].name, apps[i].pattern>> :
                 i \in {j \in DOMAIN apps : apps[j].name \notin {c[1] : c \in cached}}}

StatFiles ==
  /\ bot.pc = "stat"
  /\ bot' = [bot EXCEPT !.pc = "idle", !.lastMod = operator.mtime,
                        !.lastDiscoveredMod = mounted.mtime,
                        !.cached = AddApps(bot.cached, bot.cfg)]
  /\ UNCHANGED <<repo, status, operator, receiver, scan, channel, published, mounted, happened>>

\* A restart loads both files and builds the tag cache; the watcher stores the
\* mtimes when it is started, later on.
RestartBot ==
  /\ Happens(1)
  /\ operator.apps # BadFile
  /\ LET apps == MergeApps(operator.apps, mounted.apps) IN
     bot' = [bot EXCEPT !.pc = "stat", !.hit = FALSE, !.cfg = apps, !.got = <<>>,
                        !.cached = AddApps({}, apps)]
  /\ UNCHANGED <<repo, status, operator, receiver, scan, channel, published, mounted>>

-----------------------------------------------------------------------------
Scanner ==
  \/ StartScan
  \/ \E r \in Repos, fails \in BOOLEAN : Fetch(r, fails)
  \/ \E lost \in SUBSET Calls, cooling \in BOOLEAN : FinishScan(lost, cooling)

Worker == Tick \/ MergeDiscovered \/ StatFiles

Next ==
  \/ \E r \in Repos, f \in Files \cup {NoFile} : Push(r, f)
  \/ \E r \in Repos : Unlist(r)
  \/ \E apps \in OperatorFiles \cup {BadFile} : EditOperatorFile(apps)
  \/ Mount
  \/ Scanner
  \/ RestartReceiver
  \/ Worker
  \/ Sighup
  \/ RestartBot

Spec == Init /\ [][Next]_vars

\* The tickers of the scanner and the watcher fire, scans end, now and then one
\* does so after the cooldown, and Kubernetes refreshes the mounted file.
FairSpec ==
  /\ Spec
  /\ WF_vars(StartScan \/ \E r \in Repos : Fetch(r, FALSE))
  /\ SF_vars(FinishScan({}, FALSE)) /\ WF_vars(Mount) /\ WF_vars(Worker)

-----------------------------------------------------------------------------
(* Properties.                                                             *)

OrganisationTyped ==
  /\ happened \in 0..MaxHappenings
  /\ repo \in [Repos -> [file : Files \cup {NoFile}, pushed : 0..happened, listed : BOOLEAN]]
  /\ status \in [Repos -> {"none", "success", "failure"}]
  /\ operator \in [apps : OperatorFiles \cup {BadFile}, mtime : 0..happened]

ReceiverTyped ==
  /\ receiver \in [cfg : OperatorFiles, pushedAt : [Repos -> -1..happened],
                  content : [Repos -> Files \cup {NoFile}]]
  /\ scan \in [on : BOOLEAN, seen : SUBSET Repos, todo : [DOMAIN scan.todo -> 0..happened],
              found : Seq(Discovered)]
  /\ DOMAIN scan.todo \subseteq scan.seen
  /\ channel \in [warned : SUBSET Names, told : SUBSET Names, lastWarn : BOOLEAN]
  /\ channel.told \subseteq channel.warned
  /\ published \in Seq(Discovered)

WorkerTyped ==
  /\ mounted \in [apps : Seq(Discovered), mtime : Nat]
  /\ bot \in [cfg : Seq(App), got : Seq(App), pc : {"idle", "merge", "stat"},
             lastMod : Nat, lastDiscoveredMod : Nat, hit : BOOLEAN,
             cached : SUBSET (Names \X Patterns)]

TypeOK == OrganisationTyped /\ ReceiverTyped /\ WorkerTyped

DistinctPaths(apps) == \A i, j \in DOMAIN apps : apps[i].path = apps[j].path => i = j

\* No two discovered applications target one kustomization file, however many
\* repositories claim it and in whatever order they are scanned; two applications
\* of the worker's config do only after the operator's file was changed, since
\* MergeApps looks at names alone and the scanner at the file it started with.
DistinctTargets ==
  /\ DistinctPaths(published) /\ DistinctPaths(mounted.apps)
  /\ operator.mtime = 0 => DistinctPaths(bot.cfg)

\* The inductive invariant behind it: as long as the operator's file is the first one, what
\* the scanner and a reload know of it is what it says, and nothing that was discovered
\* targets a file of its.
PathsInv ==
  /\ DistinctPaths(published) /\ DistinctPaths(mounted.apps)
  /\ operator.mtime = 0 =>
       /\ operator.apps = receiver.cfg
       /\ bot.pc = "merge" => bot.got = receiver.cfg
       /\ DistinctPaths(bot.cfg)
       /\ (PathsOf(published) \cup PathsOf(mounted.apps)) \cap PathsOf(receiver.cfg) = {}

\* An application a scan leaves out is reported to its repository as a failed
\* status, if its default branch is main, unless another entry has its name: of a name only
\* the first conflict is kept, and that repository alone is told.
ExcludedIsFlagged ==
  [][ (\E cooling \in BOOLEAN : FinishScan({}, cooling)) =>
        \A i \in DOMAIN scan.found :
          \/ scan.found[i] \in ToSet(published')
          \/ status'[scan.found[i].source] = "failure"
          \/ scan.found[i].source \notin Flaggable
          \/ \E j \in DOMAIN scan.found \ {i} : scan.found[j].name = scan.found[i].name ]_vars

\* The watcher takes the config for current although it is not: both mtimes are
\* those of the files, and the files say something else.
Missed ==
  /\ bot.pc = "idle" /\ operator.apps # BadFile
  /\ bot.lastMod = operator.mtime /\ bot.lastDiscoveredMod = mounted.mtime
  /\ bot.cfg # MergeApps(operator.apps, mounted.apps)

\* The watcher misses a write only when it falls between a reload's read and the
\* stat that follows it (at a start: between the load and Watch).
MissedOnlyWhileReloading == Missed => bot.hit

\* The inductive invariant behind it: until a file is written, what a reload has read
\* is what the files say, and the mtimes it stored are not ahead of those of the files.
ReloadInv ==
  /\ operator.mtime \in Nat /\ mounted.mtime \in Nat
  /\ bot \in [cfg : {bot.cfg}, got : {bot.got}, pc : {"idle", "merge", "stat"},
             lastMod : 0..operator.mtime, lastDiscoveredMod : 0..mounted.mtime,
             hit : BOOLEAN, cached : {bot.cached}]
  /\ ~bot.hit =>
       /\ bot.pc = "merge" => bot.got = operator.apps
       /\ bot.pc = "stat" => bot.cfg = MergeApps(operator.apps, mounted.apps)
       /\ ~Missed

CatalogueInv == TypeOK /\ ReloadInv /\ PathsInv

Claims == UNION {ToSet(ParseRepoConfig[r][repo[r].file]) : r \in {s \in Repos : repo[s].listed}}

\* The scanner holds an old file, or none, of a repository it takes for read.
Behind(r) == repo[r].listed /\ receiver.pushedAt[r] = repo[r].pushed /\ receiver.content[r] # repo[r].file

\* In the end the ConfigMap holds only what the listed repositories declare, and
\* every entry of theirs that no other entry, and no entry of the operator file
\* the receiver started with, rivals; unless a fetch failed, after which the
\* repository is not read again before its next push.
CatalogueConverges ==
  <>[](\/ \E r \in Repos : Behind(r)
       \/ /\ ToSet(published) \subseteq Claims
          /\ \A d \in Claims \ ToSet(published) :
               \E c \in (Claims \cup ToSet(receiver.cfg)) \ {d} : c.name = d.name \/ c.path = d.path)

\* In the end the worker's config is the operator's file with the ConfigMap merged
\* in, and its tag cache knows every application of it, so that no request for one
\* is refused as unknown; unless the file does not load or a write was missed.
WorkerConverges ==
  <>[](\/ operator.apps = BadFile \/ Missed
       \/ /\ bot.cfg = MergeApps(operator.apps, published)
          /\ NamesOf(bot.cfg) \subseteq {c[1] : c \in bot.cached})

\* An entry whose repository the scanner has read takes a name or a file of the operator's.
Clashing(n) ==
  \E d \in Claims : /\ d.name = n /\ ~Behind(d.source)
                    /\ n \in NamesOf(receiver.cfg) \/ d.path \in PathsOf(receiver.cfg)

\* The one message that named the conflict was lost: it counts as warned about.
Unheard(n) == n \in channel.warned \ channel.told

\* A conflict with the operator's file that goes on is told to the channel in the end, in
\* spite of the cooldown and of conflicts that come and go; but for one whose message
\* Slack refused, which is not repeated before the conflict is resolved.
ConflictIsReported ==
  \A n \in Names : <>[]Clashing(n) => <>[](n \in channel.told) \/ <>[]Unheard(n)

\* Quoted from the documentation, and not so: docs/naming-conventions.md:171 has the
\* conflict warning posted, also when Slack refuses the first message.
ConflictIsTold == \A n \in Names : <>[]Clashing(n) => <>[](n \in channel.told)

\* Quoted from the documentation, and not so: docs/repo-sourced-app-discovery.md:168 has
\* "The collector sets a **commit status** on the repo's default branch HEAD".
StatusOnDefaultBranch ==
  [][ (\E cooling \in BOOLEAN : FinishScan({}, cooling)) =>
        \A i \in DOMAIN scan.found : status'[scan.found[i].source] # "none" ]_vars

\* Quoted from the code and the documentation, and not so: success says that all
\* applications of the repository are registered.
SuccessMeansRegistered ==
  [][ (\E cooling \in BOOLEAN : FinishScan({}, cooling)) =>
        \A i \in DOMAIN scan.found :
          status'[scan.found[i].source] = "success" => scan.found[i] \in ToSet(published') ]_vars

\* Quoted from the documentation, and not so: an application the worker's config
\* has is in the end one the ECR poller matches pushes for, or not configured.
ConfiguredIsPolled ==
  \A n \in Names : n \in NamesOf(bot.cfg) ~> (n \in NamesOf(receiver.cfg) \/ n \notin NamesOf(bot.cfg))
=============================================================================
