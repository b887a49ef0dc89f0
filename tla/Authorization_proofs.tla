------------------------ MODULE Authorization_proofs ------------------------
(***************************************************************************)
(* Proofs about Authorization, for every value of its constants: any users *)
(* and sources, any number of receivers, workers, changes of membership    *)
(* and failed calls.                                                       *)
(***************************************************************************)
EXTENDS Authorization, TLAPS

-----------------------------------------------------------------------------
(* A check.                                                                *)

Stages == {"slack", "lookup", "search", "github", "yes", "no"}
Logins == {"none", "partial", "full"}

\* What a call may change of a check leaves it a check.
LEMMA CheckUpdate ==
  ASSUME NEW h \in Handlers, NEW a \in Stages, NEW l \in Logins,
         NEW k \in SUBSET Sources, NEW u \in SUBSET Users
  PROVE  /\ [h EXCEPT !.at = a] \in Handlers
         /\ [h EXCEPT !.at = a, !.held = k] \in Handlers
         /\ [h EXCEPT !.at = a, !.login = l] \in Handlers
         /\ [h EXCEPT !.at = a, !.login = l, !.held = k] \in Handlers
         /\ [h EXCEPT !.was = u, !.held = k] \in Handlers
BY DEF Handlers, Stages, Logins

\* The fields of a check.
LEMMA CheckFields ==
  ASSUME NEW h \in Handlers
  PROVE  /\ h.kind \in {"modal", "mention", "submit", "click"} /\ h # Idle
         /\ h.requester \in Askers \cup Approvers /\ h.approver \in Approvers \cup {Nobody}
         /\ h.user \in Users /\ h.at \in Stages /\ h.login \in Logins
         /\ h.was \in SUBSET Users /\ h.held \in SUBSET Sources
BY DEF Handlers, Idle, Stages, Logins

\* A check that begins has its type, and knows who is authorized now.
LEMMA CheckBegins ==
  ASSUME source \in [Sources -> SUBSET Users],
         NEW kind \in {"modal", "mention", "submit", "click"},
         NEW requester \in Askers \cup Approvers, NEW approver \in Approvers \cup {Nobody},
         NEW user \in Users, NEW was \in SUBSET Users
  PROVE  Checking(kind, requester, approver, user, was) \in Handlers
BY DEF Checking, SourcesOf, Authorized, Handlers, Sources

\* An engaged worker has a check.
LEMMA Engaged ==
  ASSUME TypeOK, NEW w \in Workers, handler[w] # Idle \/ handler[w].kind # "none"
  PROVE  handler[w] \in Handlers
BY DEF TypeOK, Idle

\* A change of membership tells every check under way.
LEMMA CheckIsTold ==
  ASSUME TypeOK, NEW s \in Sources, NEW u \in Users, ChangeMembership(s, u),
         NEW w \in Workers
  PROVE  /\ source' \in [Sources -> SUBSET Users]
         /\ handler[w] = Idle => handler'[w] = Idle
         /\ handler[w] # Idle =>
              handler'[w] = [handler[w] EXCEPT
                !.was = handler[w].was \cup source'["slack"] \cup source'["github"],
                !.held = {t \in handler[w].held : handler[w].user \in source'[t]}]
<1>1. source' \in [Sources -> SUBSET Users]
  <2>1. source' = [source EXCEPT ![s] = IF u \in @ THEN @ \ {u} ELSE @ \cup {u}]
    BY DEF ChangeMembership
  <2> QED BY <2>1 DEF TypeOK
<1>2. handler' = [v \in Workers |->
         IF handler[v] = Idle THEN Idle
         ELSE [handler[v] EXCEPT
                 !.was = @ \cup source'["slack"] \cup source'["github"],
                 !.held = {t \in @ : handler[v].user \in source'[t]}]]
  BY DEF ChangeMembership
<1> QED BY <1>1, <1>2

-----------------------------------------------------------------------------
(* What every step preserves.                                              *)

\* The count of happenings keeps to its bound.
LEMMA HappensBounded ==
  ASSUME happened \in 0..MaxHappenings, NEW n \in Nat, Happens(n)
  PROVE  happened' \in 0..MaxHappenings
BY AuthorizationAssumption DEF AuthorizationAssumption, Happens

\* Every step keeps the types.
LEMMA TypeStep ==
  ASSUME TypeOK, [Next]_vars
  PROVE  TypeOK'
<1> USE AuthorizationAssumption DEF AuthorizationAssumption
<1> USE DEF TypeOK
<1>1. CASE UNCHANGED vars
  BY <1>1 DEF vars
<1>2. ASSUME NEW s \in Sources, NEW u \in Users, ChangeMembership(s, u)
      PROVE  TypeOK'
  <2>1. source' \in [Sources -> SUBSET Users]
    BY <1>2, CheckIsTold, Zenon DEF ChangeMembership
  <2>2. ASSUME NEW w \in Workers
        PROVE  handler'[w] \in {Idle} \cup Handlers
    <3>1. CASE handler[w] = Idle
      BY <1>2, <3>1, CheckIsTold
    <3>2. CASE handler[w] # Idle
      <4>1. handler[w] \in Handlers
        BY <3>2
      <4> DEFINE held == {t \in handler[w].held : handler[w].user \in source'[t]}
                 was == handler[w].was \cup source'["slack"] \cup source'["github"]
      <4>2. held \in SUBSET Sources /\ was \in SUBSET Users
        BY <2>1, <4>1, CheckFields DEF Sources
      <4>3. handler'[w] = [handler[w] EXCEPT !.was = was, !.held = held]
        BY <1>2, <3>2, CheckIsTold
      <4> HIDE DEF held, was
      <4>4. [handler[w] EXCEPT !.was = was, !.held = held] \in Handlers
        BY <4>1, <4>2, CheckUpdate DEF Stages, Logins
      <4> QED BY <4>3, <4>4
    <3> QED BY <3>1, <3>2
  <2>3. handler' \in [Workers -> {Idle} \cup Handlers]
    BY <1>2, <2>2 DEF ChangeMembership
  <2>4. UNCHANGED <<identity, members, refresh, form, deploy>> /\ happened' \in 0..MaxHappenings
    <3>1. Happens(1) /\ UNCHANGED <<identity, members, refresh, form, deploy>>
      BY <1>2 DEF ChangeMembership
    <3> QED BY <3>1, HappensBounded
  <2> QED BY <2>1, <2>3, <2>4
<1>3. ASSUME NEW r \in Receivers, Refreshing(r)
      PROVE  TypeOK'
  <2> USE DEF Happens
  <2>1. ASSUME NEW s \in Sources, NEW found \in SUBSET Users, Collects(r, s, found)
        PROVE  refresh' \in [Receivers -> [at : {"collect", "add"}, todo : SUBSET Sources,
                                            ids : SUBSET Users]]
    <3> DEFINE scan == refresh[r]
    <3>1. /\ scan \in [at : {"collect", "add"}, todo : SUBSET Sources, ids : SUBSET Users]
          /\ scan.todo \ {s} \in SUBSET Sources /\ scan.ids \cup found \in SUBSET Users
      OBVIOUS
    <3>2. refresh' = [refresh EXCEPT ![r] =
                        [scan EXCEPT !.todo = scan.todo \ {s}, !.ids = scan.ids \cup found]]
      BY <2>1 DEF Collects
    <3> HIDE DEF scan
    <3>3. [scan EXCEPT !.todo = scan.todo \ {s}, !.ids = scan.ids \cup found]
            \in [at : {"collect", "add"}, todo : SUBSET Sources, ids : SUBSET Users]
      BY <3>1
    <3> QED BY <3>2, <3>3
  <2>2. CASE CollectGroups(r) \/ CollectTeams(r)
    <3>1. source["slack"] \in SUBSET Users /\ source["github"] \in SUBSET Users
      BY DEF Sources
    <3>2. \E s \in Sources, found \in SUBSET Users : Collects(r, s, found)
      BY <2>2, <3>1 DEF CollectGroups, CollectTeams, Sources
    <3>3. happened' \in 0..MaxHappenings
      BY <2>2, HappensBounded DEF CollectGroups, CollectTeams
    <3> QED BY <2>1, <3>2, <3>3 DEF Collects
  <2>3. CASE ClearMembers(r)
    BY <2>3 DEF ClearMembers, NextTick, Sources
  <2>4. CASE AddMembers(r)
    BY <2>4 DEF AddMembers, NextTick, Sources
  <2> QED BY <1>3, <2>2, <2>3, <2>4 DEF Refreshing
<1>4. ASSUME NEW u \in Askers, CloseForm(u) \/ \E a \in Approvers : Submit(u, a)
      PROVE  TypeOK'
  BY <1>4 DEF CloseForm, Submit
<1>5. ASSUME NEW w \in Workers, NEW u \in Askers,
             OpenDeployModal(w, u) \/ HandleDeploySubmit(w, u)
      PROVE  TypeOK'
  BY <1>5, CheckBegins DEF OpenDeployModal, HandleDeploySubmit, Takes
<1>6. ASSUME NEW w \in Workers, NEW u \in Askers, NEW a \in Approvers \cup {Nobody},
             HandleMentionDeploy(w, u, a)
      PROVE  TypeOK'
  BY <1>6, CheckBegins DEF HandleMentionDeploy, Takes
<1>7. ASSUME NEW w \in Workers, NEW u \in Approvers, HandleDecision(w, u)
      PROVE  TypeOK'
  BY <1>7, CheckBegins DEF HandleDecision, Takes
<1>8. ASSUME NEW w \in Workers, Check(w)
      PROVE  TypeOK'
  <2> DEFINE h == handler[w]
  <2>1. h \in Handlers
    BY <1>8, Engaged DEF Check, CheckSlack, LookUpIdentity, SearchIdentity, CheckGitHub
  <2>2. /\ h.user \in Users /\ h.held \in SUBSET Sources
        /\ FoundLogin(h.user) \in Logins /\ identity[h.user] \in Logins
        /\ h.user \notin Resolvable => FoundLogin(h.user) # "full"
    BY <2>1, CheckFields DEF Logins, FoundLogin
  <2>3. ASSUME NEW c \in Handlers, Goes(w, c)
        PROVE  handler' \in [Workers -> {Idle} \cup Handlers]
    BY <2>3 DEF Goes
  <2> HIDE DEF h
  <2>4. ASSUME NEW login \in Logins, h.user \in Resolvable \/ login # "full",
               identity' = [identity EXCEPT ![h.user] = login]
        PROVE  /\ identity' \in [Users -> Logins]
               /\ \A u \in Users \ Resolvable : identity'[u] # "full"
    BY <2>2, <2>4 DEF Logins
  <2>5. CASE CheckSlack(w)
    <3>1. handler' \in [Workers -> {Idle} \cup Handlers]
      BY <2>1, <2>2, <2>3, <2>5, CheckUpdate DEF CheckSlack, h, Stages, Logins
    <3>2. /\ identity' \in [Users -> Logins]
          /\ \A u \in Users \ Resolvable : identity'[u] # "full"
      BY <2>2, <2>4, <2>5 DEF CheckSlack, ResolvesKnown, Keeps, Logins, h
    <3> QED BY <2>5, <3>1, <3>2
        DEF CheckSlack, ResolvesKnown, Goes, Keeps, Happens, Logins
  <2>6. CASE LookUpIdentity(w)
    <3>1. handler' \in [Workers -> {Idle} \cup Handlers]
      BY <2>1, <2>2, <2>3, <2>6, CheckUpdate DEF LookUpIdentity, h, Stages
    <3> QED BY <2>6, <3>1 DEF LookUpIdentity, Goes, Keeps, Happens
  <2>7. CASE SearchIdentity(w)
    <3>1. handler' \in [Workers -> {Idle} \cup Handlers]
      BY <2>1, <2>2, <2>3, <2>7, CheckUpdate DEF SearchIdentity, h, Stages, Logins
    <3>2. /\ identity' \in [Users -> Logins]
          /\ \A u \in Users \ Resolvable : identity'[u] # "full"
      BY <2>2, <2>4, <2>7 DEF SearchIdentity, Logins, h
    <3> QED BY <2>7, <3>1, <3>2 DEF SearchIdentity, Goes, Happens, Logins
  <2>8. CASE CheckGitHub(w)
    <3>1. handler' \in [Workers -> {Idle} \cup Handlers]
      BY <2>1, <2>2, <2>3, <2>8, CheckUpdate DEF CheckGitHub, h, Stages
    <3> QED BY <2>8, <3>1 DEF CheckGitHub, Goes, Keeps, Happens
  <2> QED BY <1>8, <2>5, <2>6, <2>7, <2>8 DEF Check
<1>9. ASSUME NEW w \in Workers, Answer(w)
      PROVE  TypeOK'
  <2>1. CASE Refuse(w)
    BY <2>1 DEF Refuse, Ends
  <2>2. CASE ShowForm(w)
    BY <2>2 DEF ShowForm, Ends
  <2>3. CASE AcceptSubmission(w)
    BY <2>3 DEF AcceptSubmission, StartDeploy, Ends
  <2>4. CASE AcceptMention(w)
    <3>1. handler[w] \in Handlers
      BY <2>4, Engaged DEF AcceptMention, Allowed
    <3>2. CASE handler[w].user = handler[w].approver \/ handler[w].approver = Nobody
      BY <2>4, <3>2 DEF AcceptMention, StartDeploy, Ends
    <3>3. CASE ~(handler[w].user = handler[w].approver \/ handler[w].approver = Nobody)
      <4>1. Checking("mention", handler[w].requester, handler[w].approver,
                     handler[w].approver, handler[w].was) \in Handlers
        BY <3>1, <3>3, CheckFields, CheckBegins
      <4> QED BY <2>4, <3>3, <4>1 DEF AcceptMention
    <3> QED BY <3>2, <3>3
  <2>5. CASE Decide(w)
    BY <2>5 DEF Decide, Ends
  <2> QED BY <1>9, <2>1, <2>2, <2>3, <2>4, <2>5 DEF Answer
<1> QED BY <1>1, <1>2, <1>3, <1>4, <1>5, <1>6, <1>7, <1>8, <1>9 DEF Next

\* A step that leaves the sources alone keeps what it does not touch of the checks.
LEMMA OneCheckChanges ==
  ASSUME AuthorizationInv, UNCHANGED source, NEW w \in Workers, NEW c,
         handler' = [handler EXCEPT ![w] = c],
         c = Idle \/ (Remembers(c) /\ HasCause(c))
  PROVE  ChecksInv'
BY DEF AuthorizationInv, ChecksInv, TypeOK, Remembers, Authorized, HasCause

\* A check that begins.
LEMMA CheckBeginsTrue ==
  ASSUME NEW kind, NEW requester, NEW approver, NEW user, NEW was,
         \/ kind \in {"modal", "click"} /\ user = requester
         \/ kind = "submit" /\ user = approver
         \/ kind = "mention" /\ user = requester
         \/ kind = "mention" /\ user = approver /\ requester \in was
  PROVE  LET c == Checking(kind, requester, approver, user, was)
         IN  Remembers(c) /\ HasCause(c)
BY DEF Checking, SourcesOf, Remembers, HasCause

\* A call of a check that goes on.
LEMMA CheckGoesOn ==
  ASSUME NEW h \in Handlers, Remembers(h), NEW a \in Stages, NEW l \in Logins,
         NEW k \in SUBSET h.held, a = "yes" => h.user \in Authorized
  PROVE  /\ Remembers([h EXCEPT !.at = a])
         /\ Remembers([h EXCEPT !.at = a, !.held = k])
         /\ Remembers([h EXCEPT !.at = a, !.login = l])
         /\ Remembers([h EXCEPT !.at = a, !.login = l, !.held = k])
BY DEF Handlers, Remembers, Authorized

\* What the checks remember stays true, and their causes stay causes: a change of
\* membership is told to each check under way, and no other step changes the
\* sources.
LEMMA CheckStep ==
  ASSUME AuthorizationInv, [Next]_vars
  PROVE  ChecksInv'
<1> USE DEF ChecksInv
<1>1. ASSUME UNCHANGED <<source, handler>>
      PROVE  ChecksInv'
  BY <1>1 DEF AuthorizationInv, Remembers, Authorized, HasCause
<1>2. ASSUME NEW w \in Workers, UNCHANGED source, NEW c,
             handler' = [handler EXCEPT ![w] = c],
             c = Idle \/ (Remembers(c) /\ HasCause(c))
      PROVE  ChecksInv'
  BY <1>2, OneCheckChanges
<1> USE DEF Sources
<1>3. ASSUME NEW s \in Sources, NEW u \in Users, ChangeMembership(s, u)
      PROVE  ChecksInv'
  <2>1. SUFFICES ASSUME NEW v \in Workers, handler'[v] # Idle
                 PROVE  (Remembers(handler[v]) /\ HasCause(handler[v]))'
    OBVIOUS
  <2>2. handler[v] # Idle /\ TypeOK
    BY <1>3, <2>1, CheckIsTold DEF AuthorizationInv
  <2>3. handler[v] \in Handlers /\ Remembers(handler[v]) /\ HasCause(handler[v])
    BY <2>2, Engaged DEF AuthorizationInv
  <2>4. handler'[v] = [handler[v] EXCEPT
                !.was = handler[v].was \cup source'["slack"] \cup source'["github"],
                !.held = {t \in handler[v].held : handler[v].user \in source'[t]}]
    BY <1>3, <2>2, CheckIsTold
  <2> QED BY <2>3, <2>4 DEF Handlers, Remembers, HasCause, Authorized
<1>4. ASSUME NEW r \in Receivers, Refreshing(r)
      PROVE  ChecksInv'
  BY <1>1, <1>4 DEF Refreshing, CollectGroups, CollectTeams, Collects, ClearMembers, AddMembers
<1>5. ASSUME NEW u \in Askers, CloseForm(u) \/ \E a \in Approvers : Submit(u, a)
      PROVE  ChecksInv'
  BY <1>1, <1>5 DEF CloseForm, Submit
<1>6. ASSUME NEW w \in Workers, NEW u \in Askers,
             OpenDeployModal(w, u) \/ HandleDeploySubmit(w, u)
      PROVE  ChecksInv'
  BY <1>2, <1>6, CheckBeginsTrue DEF OpenDeployModal, HandleDeploySubmit, Takes
<1>7. ASSUME NEW w \in Workers, NEW u \in Askers, NEW a \in Approvers \cup {Nobody},
             HandleMentionDeploy(w, u, a)
      PROVE  ChecksInv'
  BY <1>2, <1>7, CheckBeginsTrue DEF HandleMentionDeploy, Takes
<1>8. ASSUME NEW w \in Workers, NEW u \in Approvers, HandleDecision(w, u)
      PROVE  ChecksInv'
  BY <1>2, <1>8, CheckBeginsTrue DEF HandleDecision, Takes
<1>9. ASSUME NEW w \in Workers, Check(w)
      PROVE  ChecksInv'
  <2> DEFINE h == handler[w]
  <2>1. h \in Handlers
    BY <1>9, Engaged
    DEF AuthorizationInv, Check, CheckSlack, LookUpIdentity, SearchIdentity, CheckGitHub
  <2>2. Remembers(h) /\ HasCause(h)
    BY <2>1, CheckFields DEF AuthorizationInv
  <2>3. /\ FoundLogin(h.user) \in Logins /\ identity[h.user] \in Logins
        /\ h.held \in SUBSET Sources /\ h.login \in Logins
    BY <2>1, CheckFields DEF Logins, FoundLogin, AuthorizationInv, TypeOK
  <2>4. \A s \in h.held : h.user \in source[s]
    BY <2>2 DEF Remembers
  <2> HIDE DEF h
  <2>5. ASSUME NEW c, Goes(w, c), Remembers(c), HasCause(c)
        PROVE  ChecksInv'
    BY <1>2, <2>5 DEF Goes
  <2>6. CASE CheckSlack(w)
    <3>1. PICK a \in {"yes", "lookup"}, k \in SUBSET h.held :
            /\ a = "yes" => h.user \in source["slack"]
            /\ a = "lookup" => h.user \notin source["slack"] \/ "slack" \notin k
            /\ \/ Goes(w, [h EXCEPT !.at = a]) /\ k = h.held
               \/ Goes(w, [h EXCEPT !.at = a, !.held = k])
      BY <2>6 DEF CheckSlack, h
    <3>2. /\ Remembers([h EXCEPT !.at = a])
          /\ Remembers([h EXCEPT !.at = a, !.held = k])
      BY <2>1, <2>2, <2>3, <3>1, CheckGoesOn DEF Stages, Authorized
    <3>3. /\ k = h.held => HasCause([h EXCEPT !.at = a])
          /\ HasCause([h EXCEPT !.at = a, !.held = k])
      BY <2>1, <2>2, <2>4, <3>1 DEF HasCause, Handlers
    <3> QED BY <2>5, <3>1, <3>2, <3>3
  <2>7. CASE LookUpIdentity(w)
    <3>1. PICK a \in {"search", "github"}, l \in Logins :
            h.at = "lookup" /\ Goes(w, [h EXCEPT !.at = a, !.login = l])
      BY <2>3, <2>7 DEF LookUpIdentity, h
    <3>2. Remembers([h EXCEPT !.at = a, !.login = l])
      BY <2>1, <2>2, <2>3, <3>1, CheckGoesOn DEF Stages
    <3>3. HasCause([h EXCEPT !.at = a, !.login = l])
      BY <2>1, <2>2, <3>1 DEF HasCause, Handlers
    <3> QED BY <2>5, <3>1, <3>2, <3>3
  <2>8. CASE SearchIdentity(w)
    <3>1. PICK a \in {"github", "no"}, l \in Logins, k \in SUBSET h.held :
            /\ h.at = "search" /\ (a = "no" => "github" \notin k)
            /\ \/ Goes(w, [h EXCEPT !.at = a, !.held = k])
               \/ Goes(w, [h EXCEPT !.at = a, !.login = l, !.held = k])
      BY <2>3, <2>8 DEF SearchIdentity, h, Logins
    <3>2. /\ Remembers([h EXCEPT !.at = a, !.held = k])
          /\ Remembers([h EXCEPT !.at = a, !.login = l, !.held = k])
      BY <2>1, <2>2, <2>3, <3>1, CheckGoesOn DEF Stages
    <3>3. /\ HasCause([h EXCEPT !.at = a, !.held = k])
          /\ HasCause([h EXCEPT !.at = a, !.login = l, !.held = k])
      BY <2>1, <2>2, <3>1 DEF HasCause, Handlers
    <3> QED BY <2>5, <3>1, <3>2, <3>3
  <2>9. CASE CheckGitHub(w)
    <3>1. PICK a \in {"yes", "no"}, k \in SUBSET h.held :
            /\ h.at = "github"
            /\ a = "yes" => h.user \in source["github"]
            /\ a = "no" => \/ h.login # "full" \/ h.user \notin source["github"]
                            \/ "github" \notin k
            /\ \/ Goes(w, [h EXCEPT !.at = a]) /\ k = h.held
               \/ Goes(w, [h EXCEPT !.at = a, !.held = k])
      BY <2>9 DEF CheckGitHub, h
    <3>2. /\ Remembers([h EXCEPT !.at = a])
          /\ Remembers([h EXCEPT !.at = a, !.held = k])
      BY <2>1, <2>2, <2>3, <3>1, CheckGoesOn DEF Stages, Authorized
    <3>3. /\ k = h.held => HasCause([h EXCEPT !.at = a])
          /\ HasCause([h EXCEPT !.at = a, !.held = k])
      BY <2>1, <2>2, <2>4, <3>1 DEF HasCause, Handlers
    <3> QED BY <2>5, <3>1, <3>2, <3>3
  <2> QED BY <1>9, <2>6, <2>7, <2>8, <2>9 DEF Check
<1>10. ASSUME NEW w \in Workers, Answer(w)
       PROVE  ChecksInv'
  <2>1. CASE AcceptMention(w)
    <3>1. handler[w] \in Handlers /\ Remembers(handler[w])
      BY <2>1, Engaged, CheckFields DEF AuthorizationInv, AcceptMention, Allowed
    <3>2. handler[w].user = handler[w].approver \/ handler[w].requester \in handler[w].was
      BY <2>1, <3>1 DEF AcceptMention, Allowed, Remembers
    <3>3. handler[w].user # handler[w].approver =>
            LET c == Checking("mention", handler[w].requester, handler[w].approver,
                              handler[w].approver, handler[w].was)
            IN  Remembers(c) /\ HasCause(c)
      BY <3>2, CheckBeginsTrue
    <3> QED BY <1>2, <2>1, <3>3 DEF AcceptMention, StartDeploy, Ends
  <2>2. CASE Refuse(w) \/ ShowForm(w) \/ AcceptSubmission(w) \/ Decide(w)
    BY <1>2, <2>2 DEF Refuse, ShowForm, AcceptSubmission, StartDeploy, Decide, Ends
  <2> QED BY <1>10, <2>1, <2>2 DEF Answer
<1>11. CASE UNCHANGED vars
  BY <1>1, <1>11 DEF vars
<1> QED BY <1>3, <1>4, <1>5, <1>6, <1>7, <1>8, <1>9, <1>10, <1>11 DEF Next

-----------------------------------------------------------------------------
(* The theorems.                                                           *)

\* Nothing is being checked at the start.
LEMMA InitInv == Init => AuthorizationInv
<1> SUFFICES ASSUME Init PROVE AuthorizationInv
  OBVIOUS
<1> USE AuthorizationAssumption DEF AuthorizationAssumption, Init
<1>1. source \in [Sources -> SUBSET Users] /\ members \subseteq Users
  OBVIOUS
<1>2. refresh \in [Receivers -> [at : {"collect", "add"}, todo : SUBSET Sources, ids : SUBSET Users]]
  BY DEF NextTick
<1>3. handler \in [Workers -> {Idle} \cup Handlers] /\ ChecksInv
  BY DEF ChecksInv
<1>4. identity \in [Users -> {"none", "partial", "full"}] /\ \A u \in Users : identity[u] # "full"
  OBVIOUS
<1>5. form \in [Askers -> Approvers \cup {"closed", "open"}]
  OBVIOUS
<1>6. deploy \in BOOLEAN
  BY Zenon
<1>7. happened \in 0..MaxHappenings
  OBVIOUS
<1> QED BY <1>1, <1>2, <1>3, <1>4, <1>5, <1>6, <1>7 DEF AuthorizationInv, TypeOK

\* The parts are preserved together.
LEMMA StepInv == AuthorizationInv /\ [Next]_vars => AuthorizationInv'
BY TypeStep, CheckStep DEF AuthorizationInv

\* The inductive invariant holds in every state the program reaches.
THEOREM Invariance == Spec => []AuthorizationInv
<1>1. Init => AuthorizationInv
  BY InitInv
<1>2. AuthorizationInv /\ [Next]_vars => AuthorizationInv'
  BY StepInv
<1> QED BY <1>1, <1>2, PTL DEF Spec

\* Every variable keeps its type, and a user without a login never gets one.
THEOREM TypeCorrect == Spec => []TypeOK
<1>1. AuthorizationInv => TypeOK
  BY DEF AuthorizationInv
<1> QED BY <1>1, Invariance, PTL

\* Validator.IsMember refuses nobody without a cause: whatever memberships change
\* and calls fail while a check is between its calls.
THEOREM RefusalHasCause == Spec => []RefusedForCause
<1>1. AuthorizationInv => RefusedForCause
  BY DEF AuthorizationInv, ChecksInv, HasCause, RefusedForCause
<1> QED BY <1>1, Invariance, PTL

\* The handlers of submissions, mentions and clicks start or decide a deployment
\* only for people authorized at some time since they took the event.
THEOREM OnlyMembersDecide == Spec => MembersDecide
<1>1. ASSUME AuthorizationInv, [Next]_vars,
             NEW w \in Workers, handler[w] # Idle, deploy' # deploy, handler'[w] # handler[w]
      PROVE  (CASE handler[w].kind = "submit"  -> {handler[w].approver}
                [] handler[w].kind = "mention" -> {handler[w].requester, handler[w].approver} \ {Nobody}
                [] OTHER                       -> {handler[w].requester}) \subseteq handler[w].was
  <2> USE <1>1 DEF AuthorizationInv, ChecksInv, TypeOK
  <2>1. PICK v \in Workers : AcceptSubmission(v) \/ AcceptMention(v) \/ Decide(v)
    BY DEF Next, vars, ChangeMembership, Refreshing, CollectGroups, CollectTeams, Collects,
       ClearMembers, AddMembers, CloseForm, Submit, OpenDeployModal, HandleDeploySubmit,
       HandleMentionDeploy, HandleDecision, Check, CheckSlack, LookUpIdentity, SearchIdentity,
       CheckGitHub, Goes, Answer, Refuse, ShowForm
  <2>2. v = w
    BY <2>1 DEF AcceptSubmission, AcceptMention, Decide, StartDeploy, Ends
  <2>3. handler[w] \in Handlers /\ handler[w].at = "yes"
    BY <2>1, <2>2, Engaged DEF AcceptSubmission, AcceptMention, Decide, Allowed
  <2>0. Remembers(handler[w])
    BY <1>1
  <2>4. CASE AcceptSubmission(w)
    BY <2>0, <2>3, <2>4 DEF AcceptSubmission, Allowed, Remembers
  <2>5. CASE AcceptMention(w)
    <3>1. handler[w].user = handler[w].approver \/ handler[w].approver = Nobody
      BY <2>5 DEF AcceptMention
    <3>2. handler[w].user # Nobody
      BY <2>3, AuthorizationAssumption DEF AuthorizationAssumption, Handlers
    <3> QED BY <2>0, <2>3, <2>5, <3>1, <3>2 DEF AcceptMention, Allowed, Remembers
  <2>6. CASE Decide(w)
    BY <2>0, <2>3, <2>6 DEF Decide, Allowed, Remembers
  <2> QED BY <2>1, <2>2, <2>4, <2>5, <2>6
<1>2. AuthorizationInv /\ [Next]_vars => [\A w \in Workers :
        LET h == handler[w]
            answersFor == CASE h.kind = "submit"  -> {h.approver}
                            [] h.kind = "mention" -> {h.requester, h.approver} \ {Nobody}
                            [] OTHER              -> {h.requester}
        IN h # Idle /\ deploy' # deploy /\ handler'[w] # h => answersFor \subseteq h.was]_vars
  BY <1>1
<1> QED BY <1>2, Invariance, PTL DEF Spec, MembersDecide
=============================================================================
