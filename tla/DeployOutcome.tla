---------------------------- MODULE DeployOutcome ----------------------------
(***************************************************************************)
(* What happens to a deploy after its merge: the row in the history table  *)
(* (internal/store), ArgoCD's notifications and the prompt to roll back    *)
(* (internal/bot/argocd*.go), the health check of the deploy               *)
(* (internal/healthcheck), the ways a rollback is proposed (prompts, slash *)
(* command, mention, modal) and the rebuilding of a lost history at the    *)
(* start of a replica (internal/sweeper).                                  *)
(*                                                                         *)
(* One application is modelled: every query but the one that asks whether  *)
(* the table is empty filters by its full name, "app-env".  A merge commit *)
(* is known by its number on the default branch, and completed_at is the   *)
(* number of the merge or insertion among all of them.  A query that lists *)
(* rows newest first returns their set here, and Newest what it lists      *)
(* first.                                                                  *)
(***************************************************************************)
EXTENDS Integers, Sequences, FiniteSets, SequencesExt

CONSTANTS
  Tags,         \* image tags
  AutoTags,     \* the tags deployed by their push to ECR, not at a person's request
  EcrTags,      \* the tags the tag cache lists as recent
  Replicas,     \* worker replicas, which may rebuild the history
  FullName,     \* the application's name in requests and in config: app-env
  CommitName,   \* what its commit messages have in parentheses: env/app-env
  FirstTag,     \* the tag that is deployed at the start
  NoTag,        \* no tag
  MaxMerges,    \* bound: commits on the default branch that set the tag
  MaxHappenings \* bound: notifications, health checks, rollbacks asked for, failed
                \* calls, outside commits, losses of the table, starts and stops of
                \* replicas, taken together

ASSUME OutcomeAssumption ==
  /\ EcrTags \cup AutoTags \subseteq Tags /\ FirstTag \in Tags /\ NoTag \notin Tags
  /\ FullName # CommitName
  /\ MaxMerges \in Nat \ {0} /\ MaxHappenings \in Nat

Triggers == {"on-sync-succeeded", "on-sync-failed", "on-health-degraded"}
NoSHA == 0     \* a row without gitops_commit_sha

VARIABLES
  merges,    \* GitHub: the commits that set the tag, oldest first
  pushing,   \* worker: merged deploys whose row is not written yet
  history,   \* Postgres: the approved rows of the history table, in order of insertion
  listing,   \* worker: the replicas that found no row and list the commits now
  met,       \* the commits whose row was written while a replica listed them
  rebuild,   \* worker: the commits each replica has yet to rebuild rows of
  contested, \* the commits a rebuild listed that others wrote, or were to write, a row of
  inbox,     \* notifications on the stream
  results,   \* metrics: the result recorded for each notification
  channel,   \* Slack: alerts, threaded replies and prompts, open or dismissed
  monitors,  \* worker: the last round of each health check under way
  verdicts,  \* worker: how each health check ended
  opening,   \* worker: what a rollback found, before its modal is built
  proposal,  \* Slack: the last rollback proposed
  happened   \* how many of the bounded happenings there were

deploys == <<merges, pushing>>
rows == <<history, listing, met, rebuild, contested>>
argocd == <<inbox, results>>
health == <<monitors, verdicts>>
rollback == <<opening, proposal>>
vars == <<deploys, rows, argocd, channel, health, rollback, happened>>

Happens(n) == happened + n <= MaxHappenings /\ happened' = happened + n

NotOpening == [via |-> "none", failing |-> NoTag, wanted |-> NoTag]
NoProposal == [via |-> "none", failing |-> NoTag, wanted |-> NoTag, current |-> NoTag,
               suggested |-> NoTag, options |-> {}, initial |-> NoTag]

\* The tag on the default branch, after the first n commits.
TagAfter(n) == IF n = 0 THEN NoTag ELSE merges[n].tag
Deployed == TagAfter(Len(merges))

Now == Len(merges) + Len(history)

\* One deploy was made; its row is there, or the table was lost.
Init ==
  /\ merges = <<[tag |-> FirstTag, handle |-> TRUE, ours |-> TRUE]>> /\ pushing = {}
  /\ history \in {<<>>, <<[app |-> FullName, tag |-> FirstTag, sha |-> 1, at |-> 2, handle |-> TRUE]>>}
  /\ listing = {} /\ contested = {}
  /\ met = [r \in Replicas |-> {}] /\ rebuild = [r \in Replicas |-> {}]
  /\ inbox = {} /\ results = {}
  /\ channel = [alerts |-> {}, replies |-> {}, prompts |-> {}, dismissed |-> {}]
  /\ monitors = <<>> /\ verdicts = {}
  /\ opening = NotOpening /\ proposal = NoProposal
  /\ happened = 0

-----------------------------------------------------------------------------
(* The history table.                                                      *)

\* Mutant: rows come oldest first.
Oldest(entries) == {e \in entries : \A d \in entries : e.at <= d.at}

\* The row that comes first by completed_at, newest first; none of no rows.
Newest(entries) == {e \in entries : \A d \in entries : d.at <= e.at}

\* The first row, and the second, of two at least.
First(entries) == CHOOSE e \in Newest(entries) : TRUE
Second(entries) == First(entries \ {First(entries)})
AtLeastTwo(entries) == \E d, e \in entries : d # e

GetHistory(app) == {e \in ToSet(history) : e.app = app}

\* The newest row of a commit, or none: a rebuilt row has no SHA.
FindHistoryBySHA(sha) == Newest({e \in ToSet(history) : e.sha = sha})

\* The commit a row is of: a rebuilt one has its number for completed_at.
CommitOf(row) == IF row.sha = NoSHA THEN row.at ELSE row.sha

\* A row is inserted; a replica that found the table empty does not see it.
PushHistory(row) ==
  /\ history' = Append(history, row)
  /\ met' = [r \in Replicas |-> IF r \in listing THEN met[r] \cup {CommitOf(row)} ELSE met[r]]

-----------------------------------------------------------------------------
(* Deploys.                                                                *)

\* A request ends in a merge.  A person's has a message to thread replies under, one
\* of an ECR push has none.  The lock is released beside the insertion of the row, so
\* the next deploy may merge before the row of this one is there.
Merge(t) ==
  /\ Len(merges) < MaxMerges
  /\ t # Deployed
  /\ merges' = Append(merges, [tag |-> t, handle |-> t \notin AutoTags, ours |-> TRUE])
  /\ pushing' = pushing \cup {Len(merges) + 1}
  /\ UNCHANGED <<rows, argocd, channel, health, rollback, happened>>

\* A pull request of the bot's merged by hand, or a commit it did not make.
MergeOutside(t, ours) ==
  /\ Happens(1)
  /\ Len(merges) < MaxMerges
  /\ t # Deployed
  /\ merges' = Append(merges, [tag |-> t, handle |-> FALSE, ours |-> ours])
  /\ UNCHANGED <<pushing, rows, argocd, channel, health, rollback>>

\* The end of the handler: the row, which may fail to be written, and after it the
\* health check, if the application has any and its first message is posted.
Complete(s, written, monitored) ==
  /\ s \in pushing
  /\ Happens((IF written THEN 0 ELSE 1) + (IF monitored THEN 1 ELSE 0))
  /\ pushing' = pushing \ {s}
  /\ IF written
     THEN PushHistory([app |-> FullName, tag |-> merges[s].tag, sha |-> s,
                       at |-> Now + 1, handle |-> merges[s].handle])
     ELSE UNCHANGED <<history, met>>
  /\ monitors' = IF monitored THEN [x \in DOMAIN monitors \cup {s} |->
                                     IF x = s THEN "none" ELSE monitors[x]]
                             ELSE monitors
  /\ UNCHANGED <<merges, listing, rebuild, contested, argocd, channel, verdicts, rollback>>

\* A replica stops: of the deploys it handled, the rows it had to write and the
\* health checks are lost, and so is its rebuilding of the history.
Crash(r, handled) ==
  /\ Happens(1)
  /\ pushing' = pushing \ handled
  /\ monitors' = [s \in DOMAIN monitors \ handled |-> monitors[s]]
  /\ opening' \in {opening, NotOpening}
  /\ listing' = listing \ {r}
  /\ met' = [met EXCEPT ![r] = {}] /\ rebuild' = [rebuild EXCEPT ![r] = {}]
  /\ UNCHANGED <<merges, history, contested, argocd, channel, verdicts, proposal>>

-----------------------------------------------------------------------------
(* Rebuilding the history.                                                 *)

\* The table is lost.
LoseHistory ==
  /\ Happens(1)
  /\ history # <<>>
  /\ history' = <<>>
  /\ met' = [r \in Replicas |-> {}]
  /\ UNCHANGED <<deploys, listing, rebuild, contested, argocd, channel, health, rollback>>

\* The commits whose message is a deploy's.
ListDeployCommits == {s \in DOMAIN merges : merges[s].ours}

\* Mutant: rows that are there do not stop a rebuild.
ReconstructHistoryAlways(r) ==
  /\ Happens(1)
  /\ r \notin listing /\ rebuild[r] = {}
  /\ listing' = listing \cup {r}
  /\ UNCHANGED <<deploys, history, met, rebuild, contested, argocd, channel, health, rollback>>

\* At its start a replica asks for one row of any application; if there is none it goes
\* on to list the commits.
ReconstructHistory(r) ==
  /\ Happens(1)
  /\ r \notin listing /\ rebuild[r] = {} /\ history = <<>>
  /\ listing' = listing \cup {r}
  /\ UNCHANGED <<deploys, history, met, rebuild, contested, argocd, channel, health, rollback>>

\* GitHub answers, or its call fails and nothing is rebuilt.  Nobody looks at the table
\* again: rows written meanwhile, and those others are to write, are not left out.
ListCommits(r, answers) ==
  /\ r \in listing
  /\ Happens(IF answers THEN 0 ELSE 1)
  /\ listing' = listing \ {r}
  /\ met' = [met EXCEPT ![r] = {}]
  /\ rebuild' = [rebuild EXCEPT ![r] = IF answers THEN ListDeployCommits ELSE {}]
  /\ contested' = contested \cup
       (rebuild'[r] \cap (met[r] \cup pushing \cup UNION {rebuild[q] : q \in Replicas}))
  /\ UNCHANGED <<deploys, history, argocd, channel, health, rollback>>

\* A row for the oldest commit there is none of yet, under the name its message has;
\* a row that fails to be written is skipped.
RebuildRow(r, s, written) ==
  /\ s \in rebuild[r] /\ \A u \in rebuild[r] : s <= u
  /\ Happens(IF written THEN 0 ELSE 1)
  /\ IF written
     THEN PushHistory([app |-> CommitName, tag |-> merges[s].tag, sha |-> NoSHA,
                       at |-> s, handle |-> FALSE])
     ELSE UNCHANGED <<history, met>>
  /\ rebuild' = [rebuild EXCEPT ![r] = @ \ {s}]
  /\ UNCHANGED <<deploys, listing, contested, argocd, channel, health, rollback>>

-----------------------------------------------------------------------------
(* ArgoCD's notifications.                                                 *)

\* ArgoCD reports on a commit; the receiver enqueues a trigger of a commit once.
\* detail says that a resource of the payload is unhealthy; it matters to a
\* degradation only.
Notify(s, trigger, detail) ==
  /\ Happens(1)
  /\ detail => trigger = "on-health-degraded"
  /\ ~\E n \in inbox \cup {x.n : x \in results} : n.sha = s /\ n.trigger = trigger
  /\ inbox' = inbox \cup {[sha |-> s, trigger |-> trigger, detail |-> detail]}
  /\ UNCHANGED <<deploys, rows, results, channel, health, rollback>>

\* Mutant: the newest row but the failing one, newer deploys included.
FindPreviousApproved(entries, entry) == Newest({e \in entries : e.at # entry.at})

\* The newest row strictly before the failing one, or none.
FindPreviousApprovedBefore(entries, entry) == Newest({e \in entries : e.at < entry.at})

\* The prompt beside an alert; none for a late arrival or without a previous row.
RollbackPrompts(entry, age) ==
  IF age = "late" THEN {}
  ELSE {[via |-> "argocd", sha |-> entry.sha, failing |-> entry.tag, target |-> prev.tag] :
          prev \in FindPreviousApprovedBefore(GetHistory(entry.app), entry)}

\* Mutant: a young deploy is taken for one in transition whatever the payload says.
IsTransientIfYoung(n, age) == n.trigger = "on-health-degraded" /\ age = "young"

\* Degraded, less than ten minutes after the deploy, with no resource to blame.
IsTransientRolloutDegraded(n, age) ==
  n.trigger = "on-health-degraded" /\ age = "young" /\ ~n.detail

\* What is recorded of a notification: the lookup may fail, and the deploy's age is
\* young (under 10 minutes), settled or late (over two hours).
Result(n, fails, age) ==
  LET found == FindHistoryBySHA(n.sha)
  IN CASE fails                              -> "lookup_error"
       [] ~fails /\ found = {}               -> "unmatched"
       [] ~fails /\ \E e \in found : n.trigger = "on-sync-succeeded" /\ ~e.handle -> "no_handle_skipped"
       [] ~fails /\ found # {} /\ IsTransientRolloutDegraded(n, age) -> "transient_rollout_skipped"
       [] OTHER                              -> "matched"

\* The posts a matched notification makes: a reply in the thread, or an alert and a prompt.
Posts(n, result) ==
  IF result # "matched" THEN {}
  ELSE IF n.trigger = "on-sync-succeeded" THEN {"message"} ELSE {"message", "prompt"}

\* The notification is settled whatever becomes of its posts: a failure of Slack's, or of
\* the prompt's own look at the history, is logged and no more.
HandleArgoCDNotification(n, fails, age, lost) ==
  LET result == Result(n, fails, age)
      sent   == Posts(n, result) \ lost
      about  == IF "message" \in sent THEN {n.sha} ELSE {}
      beside == IF "prompt" \in sent
                THEN UNION {RollbackPrompts(e, age) : e \in FindHistoryBySHA(n.sha)} ELSE {}
  IN
  /\ n \in inbox
  /\ lost \subseteq Posts(n, result)
  /\ Happens((IF fails THEN 1 ELSE 0) + Cardinality(lost))
  /\ inbox' = inbox \ {n}
  /\ results' = results \cup {[n |-> n, result |-> result, lost |-> lost]}
  /\ channel' = IF n.trigger = "on-sync-succeeded"
                THEN [channel EXCEPT !.replies = @ \cup about]
                ELSE [channel EXCEPT !.alerts = @ \cup about, !.prompts = @ \cup beside]
  /\ UNCHANGED <<deploys, rows, health, rollback>>

\* The buttons are replaced; what was already clicked goes on.
HandleArgoCDDismissClick(p) ==
  /\ p \in channel.prompts \ channel.dismissed /\ p.via = "argocd"
  /\ channel' = [channel EXCEPT !.dismissed = @ \cup {p}]
  /\ UNCHANGED <<deploys, rows, argocd, health, rollback, happened>>

-----------------------------------------------------------------------------
(* Health checks.                                                          *)

\* A tick: every check must pass, and a query that fails or has no value does not.
Round(s, healthy) ==
  /\ s \in DOMAIN monitors
  /\ monitors' = [monitors EXCEPT ![s] = IF healthy THEN "healthy" ELSE "unhealthy"]
  /\ UNCHANGED <<deploys, rows, argocd, channel, verdicts, rollback, happened>>

\* The end of the window: the last round decides, and none is a failure.  A prompt that
\* fails to be posted is logged and no more.
Deadline(s, lost) ==
  /\ s \in DOMAIN monitors
  /\ lost => monitors[s] # "healthy"
  /\ Happens(IF lost THEN 1 ELSE 0)
  /\ LET passed == monitors[s] = "healthy"
     IN /\ verdicts' = verdicts \cup {[sha |-> s, passed |-> passed, lost |-> lost]}
        /\ channel' = IF passed \/ lost THEN channel ELSE
             [channel EXCEPT !.prompts = @ \cup
               {[via |-> "health", sha |-> s, failing |-> merges[s].tag, target |-> NoTag]}]
  /\ monitors' = [x \in DOMAIN monitors \ {s} |-> monitors[x]]
  /\ UNCHANGED <<deploys, rows, argocd, rollback>>

-----------------------------------------------------------------------------
(* Rollbacks.                                                              *)

\* A select has an initial option only if that is one of its options.
InitialOption(selected, options) == IF selected \in options THEN selected ELSE NoTag

\* The modal in rollback mode, with the two newest approved rows as the current tag
\* and the one to roll back to, and wanted preselected if it is an option; with
\* fewer rows, or none read, the options are the tag cache's.
RollbackModal(via, failing, wanted, lookup) ==
  LET approved  == IF lookup THEN GetHistory(FullName) ELSE {}
      known     == AtLeastTwo(approved)
      current   == IF known THEN First(approved).tag ELSE NoTag
      suggested == IF known THEN Second(approved).tag ELSE NoTag
      options   == IF known THEN {e.tag : e \in approved} \ {current} ELSE EcrTags
      selected  == IF wanted # NoTag THEN wanted
                   ELSE IF known THEN suggested ELSE CHOOSE t \in EcrTags : TRUE
  IN [via |-> via, failing |-> failing, wanted |-> wanted,
      current   |-> current,
      suggested |-> suggested,
      options   |-> options,
      initial   |-> InitialOption(selected, options)]

\* The button of an ArgoCD prompt: the tag is the one the prompt was posted with.
HandleArgoCDRollbackClick(p, lookup) ==
  /\ p \in channel.prompts \ channel.dismissed /\ p.via = "argocd"
  /\ Happens(1)
  /\ proposal' = RollbackModal("argocd", p.failing, p.target, lookup)
  /\ UNCHANGED <<deploys, rows, argocd, channel, health, opening>>

\* handleRollback, of the slash command or of a health prompt's button: the history
\* is read for the tag, and read again when the modal is built.
HandleRollback(via, failing) ==
  LET approved == GetHistory(FullName)
  IN
  /\ Happens(1)
  /\ opening = NotOpening
  /\ AtLeastTwo(approved)
  /\ opening' = [via |-> via, failing |-> failing, wanted |-> Second(approved).tag]
  /\ UNCHANGED <<deploys, rows, argocd, channel, health, proposal>>

HandleHealthRollbackClick(p) ==
  /\ p \in channel.prompts /\ p.via = "health"
  /\ HandleRollback("health", p.failing)

OpenDeployModal(lookup) ==
  /\ opening # NotOpening
  /\ opening' = NotOpening
  /\ proposal' = RollbackModal(opening.via, opening.failing, opening.wanted, lookup)
  /\ UNCHANGED <<deploys, rows, argocd, channel, health, happened>>

\* The application is selected, again or for the first time, in a modal in rollback
\* mode: nothing is wanted any more.
HandleDeployFilter(lookup) ==
  /\ Happens(1)
  /\ proposal.via # "mention"
  /\ proposal' = RollbackModal("filter", proposal.failing, NoTag, lookup)
  /\ UNCHANGED <<deploys, rows, argocd, channel, health, opening>>

\* A mention requests the tag it finds, with no modal.
HandleMentionRollback ==
  LET approved  == GetHistory(FullName)
      suggested == Second(approved).tag
  IN
  /\ Happens(1)
  /\ AtLeastTwo(approved)
  /\ proposal' = [via |-> "mention", failing |-> NoTag, wanted |-> suggested,
                  current |-> First(approved).tag, suggested |-> suggested,
                  options |-> {suggested}, initial |-> suggested]
  /\ UNCHANGED <<deploys, rows, argocd, channel, health, opening>>

-----------------------------------------------------------------------------
Handled(n) == \E fails \in BOOLEAN, age \in {"young", "settled", "late"},
                 lost \in SUBSET {"message", "prompt"} : HandleArgoCDNotification(n, fails, age, lost)
Ended(s) == \E lost \in BOOLEAN : Deadline(s, lost)

Next ==
  \/ \E t \in Tags : Merge(t)
  \/ \E t \in Tags, ours \in BOOLEAN : MergeOutside(t, ours)
  \/ \E s \in pushing, written, monitored \in BOOLEAN : Complete(s, written, monitored)
  \/ \E r \in Replicas, handled \in SUBSET (pushing \cup DOMAIN monitors) : Crash(r, handled)
  \/ LoseHistory
  \/ \E r \in Replicas : ReconstructHistory(r)
  \/ \E r \in Replicas, answers \in BOOLEAN : ListCommits(r, answers)
  \/ \E r \in Replicas, s \in DOMAIN merges, written \in BOOLEAN : RebuildRow(r, s, written)
  \/ \E s \in DOMAIN merges, trigger \in Triggers, detail \in BOOLEAN : Notify(s, trigger, detail)
  \/ \E n \in inbox : Handled(n)
  \/ \E p \in channel.prompts : HandleArgoCDDismissClick(p)
  \/ \E s \in DOMAIN monitors, healthy \in BOOLEAN : Round(s, healthy)
  \/ \E s \in DOMAIN monitors : Ended(s)
  \/ \E p \in channel.prompts, lookup \in BOOLEAN : HandleArgoCDRollbackClick(p, lookup)
  \/ \E p \in channel.prompts : HandleHealthRollbackClick(p)
  \/ HandleRollback("command", NoTag)
  \/ \E lookup \in BOOLEAN : OpenDeployModal(lookup)
  \/ \E lookup \in BOOLEAN : HandleDeployFilter(lookup)
  \/ HandleMentionRollback

Spec == Init /\ [][Next]_vars

\* A worker takes up what is on the stream, and time brings each window to its end.
FairSpec ==
  /\ Spec
  /\ WF_vars(\E n \in inbox : Handled(n))
  /\ WF_vars(\E s \in DOMAIN monitors : Ended(s))

-----------------------------------------------------------------------------
(* Properties.                                                             *)

Commit == [tag : Tags, handle : BOOLEAN, ours : BOOLEAN]
Row == [app : {FullName, CommitName}, tag : Tags, sha : 0..MaxMerges,
        at : Nat, handle : BOOLEAN]
Notification == [sha : DOMAIN merges, trigger : Triggers, detail : BOOLEAN]
Prompt == [via : {"argocd", "health"}, sha : DOMAIN merges, failing : Tags, target : Tags \cup {NoTag}]

DeploysTyped ==
  /\ merges \in Seq(Commit) /\ Len(merges) <= MaxMerges
  /\ pushing \subseteq DOMAIN merges
  /\ history \in Seq(Row)
  /\ listing \subseteq Replicas /\ contested \subseteq DOMAIN merges
  /\ {met, rebuild} \subseteq [Replicas -> SUBSET DOMAIN merges]

NoticesTyped ==
  /\ inbox \cup {x.n : x \in results} \subseteq Notification
  /\ channel \in [alerts : SUBSET DOMAIN merges, replies : SUBSET DOMAIN merges,
                 prompts : SUBSET Prompt, dismissed : SUBSET channel.prompts]
  /\ DOMAIN monitors \subseteq DOMAIN merges
  /\ \A s \in DOMAIN monitors : monitors[s] \in {"none", "healthy", "unhealthy"}

RollbackTyped ==
  /\ proposal.options \subseteq Tags /\ proposal.initial \in proposal.options \cup {NoTag}
  /\ {opening.wanted, opening.failing, proposal.current, proposal.suggested} \subseteq Tags \cup {NoTag}

TypeOK == DeploysTyped /\ NoticesTyped /\ RollbackTyped

\* The first n commits have their rows, each written before those of later commits.
InOrder(n) ==
  \A s \in 1..n : \E e \in GetHistory(FullName) :
    e.sha = s /\ \A d \in GetHistory(FullName) : d.sha > s => d.at > e.at

\* The inductive invariant behind the next two: an own row says truly what its commit
\* deployed, is the only one of its commit and of its time, and is older than any row to
\* come; a prompt posted for a commit has the tag of the row before that commit's.
RecordInv ==
  /\ \A s \in DOMAIN merges : s > 1 => merges[s].tag # merges[s - 1].tag
  /\ \A e \in ToSet(history) : e.sha # NoSHA <=> e.app = FullName
  /\ \A e \in GetHistory(FullName) :
       /\ e.sha \in DOMAIN merges \ pushing /\ e.tag = merges[e.sha].tag /\ e.at <= Now
       /\ \A d \in GetHistory(FullName) : d.sha = e.sha \/ d.at = e.at => d = e
  /\ \A p \in channel.prompts : p.via = "argocd" =>
       /\ p.sha \notin pushing
       /\ \A e \in GetHistory(FullName) : e.sha = p.sha =>
            \E d \in FindPreviousApprovedBefore(GetHistory(FullName), e) : p.target = d.tag

\* An ArgoCD prompt proposes what ran before the failing deploy, and not that deploy's
\* own tag, however many deploys came after it, unless a row is missing or was
\* written after that of a later deploy.
PromptGoesBackOne ==
  \A p \in channel.prompts : p.via = "argocd" /\ InOrder(p.sha) => p.target = TagAfter(p.sha - 1)

\* A rollback proposed while every commit has its row, in order, says truly what is
\* deployed and does not preselect it, be the history read once or twice.
RollbackStartsFromDeployed ==
  [][ (proposal' # proposal /\ proposal'.current # NoTag
       /\ InOrder(Len(merges))) =>
        proposal'.current = Deployed /\ proposal'.initial # Deployed ]_vars

Copies(s) ==
  Cardinality({i \in DOMAIN history : history[i].sha = s \/ (history[i].sha = NoSHA /\ history[i].at = s)})

\* A deploy has one row in the table at most, unless a rebuild listed its commit after
\* another process had written the row, past the look at the empty table, or when one
\* was about to.
OneRowUnlessContested == \A s \in DOMAIN merges \ contested : Copies(s) <= 1

\* The inductive invariant behind it: of a commit that is not contested one process at most
\* is to write a row, and none once there is one, which everyone who lists has met.
RowsInv ==
  /\ merges \in Seq(ToSet(merges)) /\ history \in Seq(ToSet(history))
  /\ listing \subseteq Replicas /\ pushing \cup contested \subseteq DOMAIN merges
  /\ {met, rebuild} \subseteq [Replicas -> SUBSET DOMAIN merges]
  /\ \A i \in DOMAIN history : CommitOf(history[i]) \in DOMAIN merges
  /\ \A s \in DOMAIN merges \ contested :
       /\ s \in pushing => \A r \in Replicas : s \notin rebuild[r]
       /\ \A q, r \in Replicas : s \in rebuild[q] /\ s \in rebuild[r] => q = r
       /\ \A i \in DOMAIN history : CommitOf(history[i]) = s =>
            /\ s \notin pushing /\ \A r \in Replicas : s \notin rebuild[r]
            /\ \A r \in listing : s \in met[r]
            /\ \A j \in DOMAIN history : CommitOf(history[j]) = s => j = i

OutcomeInv == TypeOK /\ RowsInv /\ RecordInv

Failing(n) == n.trigger # "on-sync-succeeded"

\* A failure reported for a deploy whose row is there is alerted in the end, unless the
\* lookup or the post failed, the row was lost, or it was a degradation without detail.
FailureIsAlerted ==
  \A s \in 1..MaxMerges :
    (FindHistoryBySHA(s) # {} /\ \E n \in inbox : n.sha = s /\ Failing(n)) ~>
      \/ s \in channel.alerts
      \/ FindHistoryBySHA(s) = {}
      \/ \E x \in results :
           /\ x.n.sha = s
           /\ \/ x.result = "lookup_error" \/ "message" \in x.lost
              \/ x.result = "transient_rollout_skipped" /\ ~x.n.detail

\* A health check that has not seen a healthy round ends in a prompt to roll back,
\* unless it still sees one, its worker stops, or the prompt fails to be posted.
UnhealthyIsOffered ==
  \A s \in 1..MaxMerges :
    (s \in DOMAIN monitors /\ monitors[s] # "healthy") ~>
      \/ \E p \in channel.prompts : p.via = "health" /\ p.sha = s
      \/ IF s \in DOMAIN monitors THEN monitors[s] = "healthy"
         ELSE \A v \in verdicts : v.sha = s => v.lost

\* A deploy that fails is told in the channel, whichever of the two notices it, unless the
\* one post that tells of it fails.
FailureIsTold == FailureIsAlerted /\ UnhealthyIsOffered

\* Quoted from the documentation, and not so: the modal comes with the tag of the
\* prompt preselected.
ClickPrefillsTarget ==
  [][ \A p \in channel.prompts :
        HandleArgoCDRollbackClick(p, TRUE) => proposal'.initial = p.target ]_vars

\* Quoted from the documentation, and not so: the button of a failed health check
\* does not preselect the tag that failed it.
HealthRollbackLeavesFailing ==
  [][ (opening.via = "health" /\ OpenDeployModal(TRUE)) => proposal'.initial # opening.failing ]_vars

\* Quoted from the prompt's text, and not so: the target is the last tag known good.
TargetIsKnownGood ==
  [][ \A p \in channel'.prompts \ channel.prompts :
        \A s \in channel.alerts : merges[s].tag # p.target ]_vars

\* Quoted from the code, and not so: a rebuild brings the history back, for the
\* application too that the rows are asked for by.
RebuiltIsFound ==
  \A i \in DOMAIN history : history[i].sha = NoSHA => history[i] \in GetHistory(FullName)
=============================================================================
