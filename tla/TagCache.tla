------------------------------- MODULE TagCache -------------------------------
(***************************************************************************)
(* The tags of an application and whether one exists: the cache of each    *)
(* process (internal/ecr/cache.go), the list they share in Redis, and the  *)
(* two places a tag is validated, the receiver when a form is submitted    *)
(* and the worker when it handles the submission.                          *)
(*                                                                         *)
(* A list of images is a function from tags to the time at which the image *)
(* of the tag was pushed, 0 for a tag that is not there.  The workers      *)
(* refresh their caches; a receiver fills its own when it starts and never *)
(* again, so it may know any tag that ever was there.                      *)
(* The refreshes of other applications with the same image repository      *)
(* write the same list in Redis, as another worker does.                   *)
(***************************************************************************)
EXTENDS Naturals, FiniteSets

CONSTANTS
  Tags,          \* tags of the image repository
  Matching,      \* those the application's pattern matches
  Built,         \* those that are there at the start
  Bots,          \* worker processes
  Recent,        \* how many tags a form offers
  Unwritten,     \* Redis has no list
  Idle,          \* nothing is being fetched, or no request is under way
  MaxHappenings  \* bound: pushes, deletions, failed calls and restarts, taken together

ASSUME TagAssumption ==
  /\ IsFiniteSet(Tags) /\ Matching \subseteq Tags /\ Built \subseteq Tags
  /\ Recent \in Nat \ {0} /\ MaxHappenings \in Nat \ {0}

Lists == [Tags -> 0..MaxHappenings]
Outcomes == {"accepted", "refused"}

ASSUME NamesAssumption == Unwritten \notin Lists /\ Idle \notin [at : Outcomes, by : Bots]

VARIABLES
  ecr,      \* ECR: the images there are
  changed,  \* when each tag was last put on an image or deleted, 0 if it never was
  redis,    \* Redis: the list of the repository
  cache,    \* each worker: the application's tags
  fetching, \* each worker: the list it fetched and what it still does with it
  request,  \* the request for a deployment under way, or its outcome and who gave it
  happened  \* how many of the bounded happenings there were

vars == <<ecr, changed, redis, cache, fetching, request, happened>>

There(list) == {t \in Tags : list[t] # 0}

\* A list that has an image newer than all of another, and one that has only older ones.
Newer(list, than) == \E t \in Tags : \A u \in Tags : list[t] > than[u]
Before(list, time) == \A t \in Tags : list[t] < time

\* Mutant: the tags of every application of the repository are taken.
FilterNothing(list) == [t \in Tags |-> list[t]]

Filter(list) == [t \in Tags |-> IF t \in Matching THEN list[t] ELSE 0]

Nothing == [t \in Tags |-> 0]

\* The tags a form offers: the most recent of the cache.
RecentTags(list) == {t \in There(list) : Cardinality({u \in Tags : list[u] > list[t]}) < Recent}

Init ==
  /\ ecr = [t \in Tags |-> IF t \in Built THEN 1 ELSE 0]
  /\ changed = ecr
  /\ redis = Unwritten
  /\ cache = [p \in Bots |-> Nothing]
  /\ fetching = [p \in Bots |-> [at |-> "populate"]]
  /\ request = Idle
  /\ happened = 1

Happens(n) == happened + n <= MaxHappenings /\ happened' = happened + n

-----------------------------------------------------------------------------
(* The image repository.  A request remembers whether its tag was there at *)
(* some time, and all along, since it was submitted.                       *)

Watched(list) ==
  IF request = Idle \/ request.at \in Outcomes THEN request
  ELSE [request EXCEPT !.seen = @ \/ list[request.tag] # 0, !.lived = @ /\ list[request.tag] # 0]

\* A tag is put on an image: one pushed now, or one that has been there for a while.
PushImage(t) ==
  /\ Happens(1)
  /\ \E pushed \in 1..(happened + 1) : ecr' = [ecr EXCEPT ![t] = pushed]
  /\ changed' = [changed EXCEPT ![t] = happened + 1]
  /\ request' = Watched(ecr')
  /\ UNCHANGED <<redis, cache, fetching>>

DeleteImage(t) ==
  /\ Happens(1)
  /\ ecr[t] # 0
  /\ ecr' = [ecr EXCEPT ![t] = 0]
  /\ changed' = [changed EXCEPT ![t] = happened + 1]
  /\ request' = Watched(ecr')
  /\ UNCHANGED <<redis, cache, fetching>>

-----------------------------------------------------------------------------
(* The caches.                                                             *)

\* A process starts: its cache is filled from Redis, or from ECR without a list there.
Restart(p) ==
  /\ Happens(1)
  /\ cache' = [cache EXCEPT ![p] = Nothing]
  /\ fetching' = [fetching EXCEPT ![p] = [at |-> "populate"]]
  /\ UNCHANGED <<ecr, changed, redis, request>>

PopulateFromRedis(p) ==
  /\ fetching[p].at = "populate" /\ redis # Unwritten
  /\ cache' = [cache EXCEPT ![p] = Filter(redis)]
  /\ fetching' = [fetching EXCEPT ![p] = [at |-> "idle"]]
  /\ UNCHANGED <<ecr, changed, redis, request, happened>>

\* Redis has no list, or does not say; DescribeImages answers, or fails: a process then
\* starts with no tags.
FetchToPopulate(p) ==
  /\ fetching[p].at = "populate"
  /\ LET unread == IF redis = Unwritten THEN 0 ELSE 1 IN
     \/ /\ fetching' = [fetching EXCEPT ![p] = [at |-> "fill", list |-> ecr]]
        /\ Happens(unread)
     \/ fetching' = [fetching EXCEPT ![p] = [at |-> "idle"]] /\ Happens(unread + 1)
  /\ UNCHANGED <<ecr, changed, redis, cache, request>>

\* Every 5 minutes, on workers.
FetchImages(p) ==
  /\ fetching[p].at = "idle"
  /\ \/ fetching' = [fetching EXCEPT ![p] = [at |-> "refresh", list |-> ecr]] /\ Happens(0)
     \/ fetching' = fetching /\ Happens(1)
  /\ UNCHANGED <<ecr, changed, redis, cache, request>>

\* The error of a write that fails is dropped.
WriteRepoTags(list) ==
  \/ redis' = (IF There(list) # {} THEN list ELSE redis) /\ Happens(0)
  \/ redis' = redis /\ Happens(1)

\* Mutant: tags already known are kept beside those fetched.
KeepMerged(known, tags) == [t \in Tags |-> IF tags[t] > known[t] THEN tags[t] ELSE known[t]]

\* Mutant: a cache that has tags is left as it is.
KeepFirst(known, tags) == IF There(known) = {} THEN tags ELSE known

\* The tags are replaced when a newer image was pushed or there were none.
Keep(known, tags) ==
  IF Newer(tags, known) \/ There(known) = {} THEN tags ELSE known

\* What was fetched goes to the cache and to Redis, whatever others wrote meanwhile.
Refresh(p) ==
  /\ fetching[p].at \in {"fill", "refresh"}
  /\ LET tags == Filter(fetching[p].list) IN
     cache' = [cache EXCEPT ![p] = IF fetching[p].at = "fill" THEN tags ELSE Keep(@, tags)]
  /\ WriteRepoTags(fetching[p].list)
  /\ fetching' = [fetching EXCEPT ![p] = [at |-> "idle"]]
  /\ UNCHANGED <<ecr, changed, request>>

Ready(p) == fetching[p].at \notin {"populate", "fill"}

-----------------------------------------------------------------------------
(* A request: a tag picked from those a worker offers, or typed in.        *)

Submitted(t, typed) ==
  [at |-> IF typed THEN "typed" ELSE "queued", tag |-> t,
   seen |-> ecr[t] # 0, lived |-> ecr[t] # 0]

PickTag(p) ==
  /\ request = Idle /\ Ready(p)
  /\ \E t \in RecentTags(cache[p]) : request' = Submitted(t, FALSE)
  /\ UNCHANGED <<ecr, changed, redis, cache, fetching, happened>>

\* In a form, or in a mention, which goes to the workers as it is.
TypeTag(t) ==
  /\ request = Idle
  /\ \E inForm \in BOOLEAN : request' = Submitted(t, inForm)
  /\ UNCHANGED <<ecr, changed, redis, cache, fetching, happened>>

\* Mutant: only the cache is asked.
ValidateTagCached(cached, t) ==
  IF t \in Matching /\ cached THEN {"valid"} ELSE {"invalid"}

\* What ValidateTag may answer: a tag of another pattern is invalid, a cached one
\* valid, and ECR is asked for any other.
ValidateTag(cached, t) ==
  IF t \notin Matching THEN {"invalid"}
  ELSE IF cached THEN {"valid"}
  ELSE {IF ecr[t] # 0 THEN "valid" ELSE "invalid", "failed"}

\* ECR may report a tag that is not there as an error, too.
Answered(answer, t) == IF answer = "failed" /\ ecr[t] # 0 THEN Happens(1) ELSE Happens(0)

\* The receiver lets a request through when it could not ask; the requester
\* corrects the form otherwise.
ValidateAndDispatch ==
  /\ request # Idle /\ request.at = "typed"
  /\ \E cached \in {FALSE, changed[request.tag] # 0} :
     \E answer \in ValidateTag(cached, request.tag) :
       /\ Answered(answer, request.tag)
       /\ request' = IF answer = "invalid" THEN Idle ELSE [request EXCEPT !.at = "queued"]
  /\ UNCHANGED <<ecr, changed, redis, cache, fetching>>

Handling(p) == request # Idle /\ request.at = "queued" /\ Ready(p)

\* Mutant: the worker too lets through what it could not ask.
OutcomeOpen(answer, p) ==
  [at |-> IF answer = "invalid" THEN "refused" ELSE "accepted", by |-> p]

\* The worker turns down what it could not ask, and says that it was not found.
Outcome(answer, p) ==
  [at |-> IF answer = "valid" THEN "accepted" ELSE "refused", by |-> p]

HandleDeploySubmit(p) ==
  /\ Handling(p)
  /\ \E answer \in ValidateTag(cache[p][request.tag] # 0, request.tag) :
       Answered(answer, request.tag) /\ request' = Outcome(answer, p)
  /\ UNCHANGED <<ecr, changed, redis, cache, fetching>>

NextRequest ==
  /\ request # Idle /\ request.at \in Outcomes
  /\ request' = Idle
  /\ UNCHANGED <<ecr, changed, redis, cache, fetching, happened>>

Refreshing(p) ==
  \/ PopulateFromRedis(p) \/ FetchToPopulate(p) \/ FetchImages(p) \/ Refresh(p)

Next ==
  \/ \E t \in Tags : PushImage(t) \/ DeleteImage(t) \/ TypeTag(t)
  \/ \E p \in Bots :
       Restart(p) \/ Refreshing(p) \/ PickTag(p) \/ HandleDeploySubmit(p)
  \/ ValidateAndDispatch
  \/ NextRequest

Spec == Init /\ [][Next]_vars

\* A process that starts fills its cache, and a worker refreshes on a ticker.
FairSpec == Spec /\ \A p \in Bots : WF_vars(Refreshing(p))

-----------------------------------------------------------------------------
(* Properties.                                                             *)

\* Every variable has its type, and a cache has tags of the pattern only.
TypeOK ==
  /\ ecr \in Lists /\ changed \in Lists
  /\ redis \in Lists \cup {Unwritten}
  /\ cache \in [Bots -> Lists]
  /\ \A p \in Bots : There(cache[p]) \subseteq Matching
  /\ fetching \in [Bots -> [at : {"idle", "populate"}] \cup [at : {"fill", "refresh"}, list : Lists]]
  /\ \/ request = Idle
     \/ request \in [at : Outcomes, by : Bots]
     \/ request \in [at : {"typed", "queued"}, tag : Tags, seen : BOOLEAN, lived : BOOLEAN]
  /\ happened \in 0..MaxHappenings

\* A worker's cache that knows of an image pushed after a tag was deleted no longer
\* has the tag: the next release that is built rids it of what is gone, whichever
\* list it started from and whoever wrote Redis meanwhile.
DeletedUntilNextPush ==
  \A p \in Bots, t \in Tags :
    cache[p][t] # 0 /\ ecr[t] = 0 => Before(cache[p], changed[t])

\* The lists there are: in Redis, in a cache, on the way to both.
Known ==
  {cache[p] : p \in Bots} \cup ({redis} \ {Unwritten})
    \cup {fetching[p].list : p \in {b \in Bots : fetching[b].at \in {"fill", "refresh"}}}

\* Whatever a list has that was deleted was deleted after all its images were pushed.
ListsInv ==
  /\ \A t \in Tags : ecr[t] <= happened /\ changed[t] <= happened
  /\ \A list \in Known, t \in Tags :
       list[t] <= happened /\ (list[t] # 0 /\ ecr[t] = 0 => Before(list, changed[t]))

UnderWay == request # Idle /\ request.at \notin Outcomes

\* What a request remembers of its tag covers what there is now.
RequestInv ==
  UnderWay => /\ ecr[request.tag] # 0 => request.seen
              /\ request.lived => ecr[request.tag] # 0

\* The inductive invariant.
TagsInv == TypeOK /\ ListsInv /\ RequestInv

\* The outcome of the request, given in this step by a worker.
Settles(p, outcome) == Handling(p) /\ request' = [at |-> outcome, by |-> p]

\* A tag a worker accepts matches the pattern, and was in ECR when it was requested
\* or later, unless it was deleted and that worker has it cached and knows of no image
\* that is newer.
AcceptedWasBuilt ==
  [][\A p \in Bots : Settles(p, "accepted")
       => /\ request.tag \in Matching
          /\ \/ request.seen
             \/ /\ ecr[request.tag] = 0 /\ changed[request.tag] # 0
                /\ cache[p][request.tag] # 0 /\ Before(cache[p], changed[request.tag])]_vars

\* A worker says that a tag is not found only when the tag does not match, or was not in
\* ECR all along since the request, or when the worker does not know it and its question
\* to ECR failed: a worker that has not heard of a tag another one offers does not turn
\* it down for that.
RefusedWasMissing ==
  [][\A p \in Bots : Settles(p, "refused")
       => \/ ~request.lived \/ request.tag \notin Matching
          \/ cache[p][request.tag] = 0 /\ happened' # happened]_vars

\* The tags that are there and were put there no later than the last of the images of
\* the application was pushed: by that push, or before it.
Announced ==
  {t \in Matching : ecr[t] # 0 /\ \E u \in Matching : ecr[u] >= changed[t]}

\* Once pushes stop, every worker comes to know every tag that is there, but for those
\* put on an image that was there already and followed by no push: cache.go:308 asks for
\* an image that is newer than all it knows.
ImagesAreOffered == \A p \in Bots : []<>(Announced \subseteq There(cache[p]))

\* README.md:32: "Tag autocomplete shows what's actually in ECR".
OfferedIsInECR == \A p \in Bots : []<>(RecentTags(cache[p]) \subseteq There(ecr))
=============================================================================
