---------------------------- MODULE Authorization ----------------------------
(***************************************************************************)
(* Who may ask for a deployment, be named its approver and decide it.  The *)
(* receivers keep a set of members in Redis (internal/approvers) and look  *)
(* an approver up in it when a form is submitted; the workers ask Slack    *)
(* and GitHub (internal/validator) each time, going from a Slack user to a *)
(* GitHub login through identities that Redis keeps for ever.              *)
(*                                                                         *)
(* A user is authorized by a Slack source (a user group or a list of       *)
(* emails) or by a GitHub source (a team or a list of logins); each is one *)
(* set of users here.  One deployment may be under way, as there is one    *)
(* application.                                                            *)
(***************************************************************************)
EXTENDS Naturals, FiniteSets

CONSTANTS
  Users,         \* Slack users
  Askers,        \* those who ask for deployments
  Approvers,     \* those who are named to approve them, and who decide them
  Findable,      \* those a search of GitHub finds by email, and whose email it shows
  Overridden,    \* those identity_overrides gives a login
  GroupMembers,  \* members of the Slack source at the start
  TeamMembers,   \* members of the GitHub source at the start
  Nobody,        \* no approver is named
  Receivers,     \* receiver replicas: each refreshes the set of members
  Workers,       \* handlers of the workers
  MaxHappenings  \* bound: changes of membership and failed calls, taken together

ASSUME AuthorizationAssumption ==
  /\ IsFiniteSet(Users) /\ Nobody \notin Users
  /\ Askers \subseteq Users /\ Approvers \subseteq Users /\ Findable \subseteq Users /\ Overridden \subseteq Users
  /\ GroupMembers \subseteq Users /\ TeamMembers \subseteq Users
  /\ MaxHappenings \in Nat

Sources == {"slack", "github"}

VARIABLES
  source,   \* Slack and GitHub: the users each source authorizes
  identity, \* Redis: what is kept of each user: nothing, an email, or a login too
  members,  \* Redis: the set team_members
  refresh,  \* receivers: the sources still to read and the users found so far
  form,     \* the deploy forms that are open, one for each user, and those submitted
  handler,  \* workers: the event each handles and how far its check is
  deploy,   \* whether a deployment is under way
  happened  \* how many of the bounded happenings there were

vars == <<source, identity, members, refresh, form, handler, deploy, happened>>

Authorized == source["slack"] \cup source["github"]
SourcesOf(u) == {s \in Sources : u \in source[s]}

\* A GitHub login can be turned into this Slack user, and the other way round.
Resolvable == Findable \cup Overridden

Idle == [kind |-> "none"]

\* A receiver's refresh before it has read anything.
NextTick == [at |-> "collect", todo |-> Sources, ids |-> {}]

\* was: the users some source authorized at some time since the event was taken;
\* held: the sources that authorized the user all along since its check began, and
\* answered when they were asked.
Checking(kind, requester, approver, user, was) ==
  [kind |-> kind, requester |-> requester, approver |-> approver, user |-> user,
   at |-> "slack", login |-> "none",
   was |-> was \cup Authorized, held |-> SourcesOf(user)]

Init ==
  /\ source = [s \in Sources |-> IF s = "slack" THEN GroupMembers ELSE TeamMembers]
  /\ identity = [u \in Users |-> "none"]
  /\ members = GroupMembers \cup (TeamMembers \cap Resolvable)
  /\ refresh = [r \in Receivers |-> NextTick]
  /\ form = [u \in Askers |-> "closed"]
  /\ handler = [w \in Workers |-> Idle]
  /\ deploy = FALSE
  /\ happened = 0

Happens(n) == happened + n <= MaxHappenings /\ happened' = happened + n

-----------------------------------------------------------------------------
(* The organisation.                                                       *)

\* Somebody joins or leaves a group or a team: the checks under way remember
\* who was authorized meanwhile.
ChangeMembership(s, u) ==
  /\ Happens(1)
  /\ source' = [source EXCEPT ![s] = IF u \in @ THEN @ \ {u} ELSE @ \cup {u}]
  /\ handler' = [w \in Workers |->
       IF handler[w] = Idle THEN Idle
       ELSE [handler[w] EXCEPT
               !.was = @ \cup source'["slack"] \cup source'["github"],
               !.held = {t \in @ : handler[w].user \in source'[t]}]]
  /\ UNCHANGED <<identity, members, refresh, form, deploy>>

-----------------------------------------------------------------------------
(* Receivers: the set of members.                                          *)

Collects(r, s, found) ==
  /\ refresh[r].at = "collect" /\ s \in refresh[r].todo
  /\ refresh' = [refresh EXCEPT ![r].todo = @ \ {s}, ![r].ids = @ \cup found]
  /\ UNCHANGED <<source, identity, members, form, handler, deploy>>

\* The sources are read side by side.  One that fails is left out, and so is
\* each member of a team whose GitHub profile or Slack user cannot be had.
CollectGroups(r) ==
  \/ Collects(r, "slack", source["slack"]) /\ Happens(0)
  \/ Collects(r, "slack", {}) /\ Happens(1)

CollectTeams(r) ==
  LET found == source["github"] \cap Resolvable IN
  \/ Collects(r, "github", found) /\ Happens(0)
  \/ \E lost \in SUBSET (found \ Overridden) \cup {found} :
       lost # {} /\ Collects(r, "github", found \ lost) /\ Happens(1)

\* Mutant: the set is added to, and nobody is ever taken out of it.
ClearMembersNever(r) ==
  /\ refresh[r].at = "collect" /\ refresh[r].todo = {}
  /\ refresh' = [refresh EXCEPT ![r].at = "add"]
  /\ UNCHANGED <<source, identity, members, form, handler, deploy, happened>>

\* DEL and SADD are sent together, and other commands may run between them.
\* Nothing is written when nobody was found.
ClearMembers(r) ==
  /\ refresh[r].at = "collect" /\ refresh[r].todo = {}
  /\ IF refresh[r].ids = {}
     THEN members' = members /\ refresh' = [refresh EXCEPT ![r] = NextTick]
     ELSE members' = {} /\ refresh' = [refresh EXCEPT ![r].at = "add"]
  /\ UNCHANGED <<source, identity, form, handler, deploy, happened>>

AddMembers(r) ==
  /\ refresh[r].at = "add"
  /\ \/ members' = members \cup refresh[r].ids /\ Happens(0)
     \/ members' = members /\ Happens(1)
  /\ refresh' = [refresh EXCEPT ![r] = NextTick]
  /\ UNCHANGED <<source, identity, form, handler, deploy>>

\* The form is closed and its event goes to the workers only when the approver
\* is in the set; an error is shown in the form otherwise, and Redis failing
\* counts as not being in it.
Submit(u, approver) ==
  /\ form[u] = "open"
  /\ approver \in members
  /\ form' = [form EXCEPT ![u] = approver]
  /\ UNCHANGED <<source, identity, members, refresh, handler, deploy, happened>>

CloseForm(u) ==
  /\ form[u] = "open"
  /\ form' = [form EXCEPT ![u] = "closed"]
  /\ UNCHANGED <<source, identity, members, refresh, handler, deploy, happened>>

-----------------------------------------------------------------------------
(* Workers: the events that need a check.                                  *)

Takes(w, check) ==
  /\ handler[w] = Idle
  /\ handler' = [handler EXCEPT ![w] = check]

OpenDeployModal(w, u) ==
  /\ form[u] = "closed"
  /\ Takes(w, Checking("modal", u, Nobody, u, {}))
  /\ UNCHANGED <<source, identity, members, refresh, form, deploy, happened>>

\* The approver is checked, and the requester, who was when the form opened, is not.
HandleDeploySubmit(w, u) ==
  /\ form[u] \in Approvers
  /\ Takes(w, Checking("submit", u, form[u], form[u], {}))
  /\ form' = [form EXCEPT ![u] = "closed"]
  /\ UNCHANGED <<source, identity, members, refresh, deploy, happened>>

HandleMentionDeploy(w, u, approver) ==
  /\ Takes(w, Checking("mention", u, approver, u, {}))
  /\ UNCHANGED <<source, identity, members, refresh, form, deploy, happened>>

\* A click on [Approve] or [Reject]: whoever clicks is checked, be it the
\* approver the deployment names or another.
HandleDecision(w, u) ==
  /\ deploy
  /\ Takes(w, Checking("click", u, Nobody, u, {}))
  /\ UNCHANGED <<source, identity, members, refresh, form, deploy, happened>>

-----------------------------------------------------------------------------
(* Workers: IsMember, one call at a time.                                  *)

Goes(w, check) ==
  /\ handler' = [handler EXCEPT ![w] = check]
  /\ UNCHANGED <<source, members, refresh, form, deploy>>

Keeps == identity' = identity /\ Happens(0)

\* Mutant: the first user of the answer is taken without looking whether there is one.
FoundLoginAlways(u) == "full"

FoundLogin(u) == IF u \in Resolvable THEN "full" ELSE "partial"

\* The identity of a user who passed: found, half of it, or nothing.
ResolvesKnown(u) ==
  \/ identity' = [identity EXCEPT ![u] = FoundLogin(u)] /\ Happens(0)
  \/ identity' = [identity EXCEPT ![u] = "partial"] /\ u \in Findable \ Overridden /\ Happens(1)
  \/ identity' = identity /\ Happens(1)

\* A source that cannot be asked is passed over.  The identity of a user the
\* Slack source has is resolved before the answer, whatever becomes of that.
CheckSlack(w) ==
  LET h == handler[w] IN
  /\ h.kind # "none" /\ h.at = "slack"
  /\ \/ /\ Goes(w, [h EXCEPT !.at = IF h.user \in source["slack"] THEN "yes" ELSE "lookup"])
        /\ IF h.user \in source["slack"] /\ identity[h.user] = "none"
           THEN ResolvesKnown(h.user) ELSE Keeps
     \/ /\ Goes(w, [h EXCEPT !.at = "lookup", !.held = @ \ {"slack"}])
        /\ identity' = identity /\ Happens(1)

\* ResolveIdentity: what Redis has is used, be it with a login or without.
LookUpIdentity(w) ==
  LET h == handler[w]
      kept == identity[h.user]
  IN /\ h.kind # "none" /\ h.at = "lookup"
     /\ Goes(w, [h EXCEPT !.at = IF kept = "none" THEN "search" ELSE "github", !.login = kept])
     /\ Keeps

\* Slack is asked for the email, and GitHub, without an override, for the login.
\* Without an email there is no answer; without a login half an identity is kept,
\* in place of what another handler kept meanwhile.
SearchIdentity(w) ==
  LET h == handler[w]
      Finds(login, lost) ==
        /\ Goes(w, [h EXCEPT !.at = "github", !.login = login, !.held = @ \ lost])
        /\ identity' = [identity EXCEPT ![h.user] = login]
  IN /\ h.kind # "none" /\ h.at = "search"
     /\ \/ Finds(FoundLogin(h.user), {}) /\ Happens(0)
        \/ h.user \in Findable \ Overridden /\ Finds("partial", {"github"}) /\ Happens(1)
        \/ /\ Goes(w, [h EXCEPT !.at = "no", !.held = @ \ {"github"}])
           /\ identity' = identity /\ Happens(1)

\* Mutant: the teams are not asked after the Slack sources said no.
CheckGitHubNever(w) ==
  LET h == handler[w] IN
  /\ h.kind # "none" /\ h.at = "github"
  /\ Goes(w, [h EXCEPT !.at = "no"]) /\ Keeps

CheckGitHub(w) ==
  LET h == handler[w]
      yes == h.login = "full" /\ h.user \in source["github"]
  IN /\ h.kind # "none" /\ h.at = "github"
     /\ \/ Goes(w, [h EXCEPT !.at = IF yes THEN "yes" ELSE "no"]) /\ Keeps
        \/ /\ h.login = "full"
           /\ Goes(w, [h EXCEPT !.at = "no", !.held = @ \ {"github"}])
           /\ identity' = identity /\ Happens(1)

-----------------------------------------------------------------------------
(* Workers: what follows from the answer.                                  *)

Ends(w) == handler' = [handler EXCEPT ![w] = Idle]

Refuse(w) ==
  /\ handler[w].kind # "none" /\ handler[w].at = "no"
  /\ Ends(w)
  /\ UNCHANGED <<source, identity, members, refresh, form, deploy, happened>>

Allowed(w, kind) == handler[w].kind = kind /\ handler[w].at = "yes"

ShowForm(w) ==
  /\ Allowed(w, "modal")
  /\ form' = [form EXCEPT ![handler[w].requester] = IF @ = "closed" THEN "open" ELSE @]
  /\ Ends(w)
  /\ UNCHANGED <<source, identity, members, refresh, deploy, happened>>

\* The deploy lock lets one deployment of the application be under way.
StartDeploy(w) ==
  /\ deploy' = TRUE
  /\ Ends(w)
  /\ UNCHANGED <<source, identity, members, refresh, form, happened>>

AcceptSubmission(w) == Allowed(w, "submit") /\ StartDeploy(w)

\* Mutant: the approver a mention names is not checked.
AcceptMentionUnchecked(w) == Allowed(w, "mention") /\ StartDeploy(w)

\* The requester comes first, then the approver if one is named.
AcceptMention(w) ==
  LET h == handler[w] IN
  /\ Allowed(w, "mention")
  /\ IF h.user = h.approver \/ h.approver = Nobody
     THEN StartDeploy(w)
     ELSE /\ handler' = [handler EXCEPT
               ![w] = Checking("mention", h.requester, h.approver, h.approver, h.was)]
          /\ UNCHANGED <<source, identity, members, refresh, form, deploy, happened>>

Decide(w) ==
  /\ Allowed(w, "click")
  /\ deploy' = FALSE
  /\ Ends(w)
  /\ UNCHANGED <<source, identity, members, refresh, form, happened>>

Check(w) ==
  CheckSlack(w) \/ LookUpIdentity(w) \/ SearchIdentity(w) \/ CheckGitHub(w)

Answer(w) == Refuse(w) \/ ShowForm(w) \/ AcceptSubmission(w) \/ AcceptMention(w) \/ Decide(w)

Refreshing(r) ==
  \/ CollectGroups(r) \/ CollectTeams(r) \/ ClearMembers(r) \/ AddMembers(r)

Next ==
  \/ \E s \in Sources, u \in Users : ChangeMembership(s, u)
  \/ \E r \in Receivers : Refreshing(r)
  \/ \E u \in Askers : CloseForm(u) \/ \E a \in Approvers : Submit(u, a)
  \/ \E w \in Workers :
       \/ \E u \in Askers : OpenDeployModal(w, u) \/ HandleDeploySubmit(w, u)
       \/ \E u \in Askers, a \in Approvers \cup {Nobody} : HandleMentionDeploy(w, u, a)
       \/ \E u \in Approvers : HandleDecision(w, u)
       \/ Check(w)
       \/ Answer(w)

Spec == Init /\ [][Next]_vars

\* Receivers refresh on a ticker.
FairSpec == Spec /\ \A r \in Receivers : WF_vars(Refreshing(r))

-----------------------------------------------------------------------------
(* Properties.                                                             *)

Handlers ==
  [kind : {"modal", "mention", "submit", "click"}, requester : Askers \cup Approvers,
   approver : Approvers \cup {Nobody}, user : Users,
   at : {"slack", "lookup", "search", "github", "yes", "no"},
   login : {"none", "partial", "full"}, was : SUBSET Users, held : SUBSET Sources]

\* Every variable has its type, and a user without a login anywhere never gets one.
TypeOK ==
  /\ source \in [Sources -> SUBSET Users]
  /\ identity \in [Users -> {"none", "partial", "full"}]
  /\ \A u \in Users \ Resolvable : identity[u] # "full"
  /\ members \subseteq Users
  /\ refresh \in [Receivers -> [at : {"collect", "add"}, todo : SUBSET Sources,
                                ids : SUBSET Users]]
  /\ form \in [Askers -> Approvers \cup {"closed", "open"}]
  /\ handler \in [Workers -> {Idle} \cup Handlers]
  /\ deploy \in BOOLEAN
  /\ happened \in 0..MaxHappenings

\* A deployment starts, and one is decided, only when those the handler answers
\* for (the approver of a form; the requester and the approver of a mention; who
\* clicked) were authorized at some time since the handler took the event: never
\* on what the receivers' set, which may be hours old, says.
MembersDecide ==
  [][\A w \in Workers :
       LET h == handler[w]
           answersFor == CASE h.kind = "submit"  -> {h.approver}
                           [] h.kind = "mention" -> {h.requester, h.approver} \ {Nobody}
                           [] OTHER              -> {h.requester}
       IN h # Idle /\ deploy' # deploy /\ handler'[w] # h => answersFor \subseteq h.was]_vars

\* A check says no only to a user whom no source that answered held all along, or
\* whom only GitHub did, while the identity used has no login.  Who moves from
\* a team to a group while the check is between the two may be refused, and so
\* may, for ever, who has a login that a search once failed to find.
RefusedForCause ==
  \A w \in Workers :
    LET h == handler[w] IN
    h # Idle /\ h.at = "no"
      => "slack" \notin h.held /\ ("github" \in h.held => h.login # "full")

\* What a check remembers of those who were authorized is true, and covers the
\* user whom a check before it passed.
Remembers(h) ==
  /\ Authorized \subseteq h.was
  /\ \A s \in h.held : h.user \in source[s]
  /\ h.at = "yes" => h.user \in h.was
  /\ \/ h.kind \in {"modal", "click"} /\ h.user = h.requester
     \/ h.kind = "submit" /\ h.user = h.approver
     \/ h.kind = "mention" /\ h.user = h.requester
     \/ h.kind = "mention" /\ h.user = h.approver /\ h.requester \in h.was

\* A check goes past the Slack source, and past the GitHub source, only when the
\* source does not have the user or did not answer.
HasCause(h) ==
  /\ h.at \in {"lookup", "search", "github", "no"} => "slack" \notin h.held
  /\ h.at = "no" /\ "github" \in h.held => h.login # "full"

\* Both are true of every check under way, whatever changes while it waits.
ChecksInv ==
  \A w \in Workers : handler[w] # Idle => Remembers(handler[w]) /\ HasCause(handler[w])

\* The inductive invariant.
AuthorizationInv == TypeOK /\ ChecksInv

\* Once memberships stop changing, the set the receivers look approvers up in
\* becomes who is authorized and has a Slack user, unless there is nobody:
\* neither a failed source nor two refreshes at once leave a lasting trace.
MembersConverge ==
  LET current == source["slack"] \cup (source["github"] \cap Resolvable) IN
  []<>(current # {} => members = current)

\* docs/redis-resilience.md:28 lists identity and approver caches as "Refreshed
\* periodically": an identity kept without the login its user has gets it.
IdentityIsRefreshed ==
  \A u \in Users : identity[u] = "partial" /\ u \in Resolvable ~> identity[u] = "full"
=============================================================================
