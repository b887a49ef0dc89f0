--------------------------- MODULE TagCache_proofs ---------------------------
(***************************************************************************)
(* Proofs about TagCache, for every value of its constants: any tags,      *)
(* pattern and workers, and any number of pushes, deletions, failed calls  *)
(* and restarts.                                                           *)
(***************************************************************************)
EXTENDS TagCache, TLAPS

-----------------------------------------------------------------------------
(* Types.                                                                  *)

Resting == [at : {"idle", "populate"}]
Carrying == [at : {"fill", "refresh"}, list : Lists]
Pending == [at : {"typed", "queued"}, tag : Tags, seen : BOOLEAN, lived : BOOLEAN]
Settled == [at : Outcomes, by : Bots]

\* What the values that stand for "nothing" are not.
LEMMA Bounds == MaxHappenings \in Nat \ {0} /\ Unwritten \notin Lists /\ Idle \notin Settled
BY TagAssumption, NamesAssumption DEF TagAssumption, NamesAssumption, Settled

\* The happenings are counted up to the bound.
LEMMA HappensBounded ==
  ASSUME happened \in 0..MaxHappenings, NEW n \in Nat, Happens(n)
  PROVE  happened' \in 0..MaxHappenings /\ happened' = happened + n
BY Bounds DEF Happens

\* What a worker does with the list it has fetched.
LEMMA FetchingKinds ==
  ASSUME NEW c \in Resting \cup Carrying
  PROVE  /\ c.at \in {"idle", "populate", "fill", "refresh"}
         /\ c.at \in {"fill", "refresh"} => c \in Carrying /\ c.list \in Lists
         /\ [at |-> "idle"] \in Resting /\ [at |-> "idle"].at = "idle"
         /\ [at |-> "populate"] \in Resting /\ [at |-> "populate"].at = "populate"
         /\ \A l \in Lists : /\ [at |-> "fill", list |-> l] \in Carrying
                             /\ [at |-> "fill", list |-> l].list = l
                             /\ [at |-> "refresh", list |-> l] \in Carrying
                             /\ [at |-> "refresh", list |-> l].list = l
BY DEF Resting, Carrying

\* Where a request is, and what it is then.
LEMMA RequestKinds ==
  ASSUME request = Idle \/ request \in Settled \/ request \in Pending
  PROVE  /\ UnderWay => request \in Pending /\ request.tag \in Tags
         /\ request \in Settled => ~UnderWay
         /\ UnderWay \/ request = Idle \/ request \in Settled
         /\ request # Idle /\ request.at \in {"typed", "queued"} => UnderWay
BY DEF UnderWay, Settled, Pending, Outcomes

\* The pattern only takes tags away.
LEMMA FilterIs ==
  ASSUME NEW l \in Lists
  PROVE  /\ Filter(l) \in Lists /\ There(Filter(l)) \subseteq Matching
         /\ \A t \in Tags : Filter(l)[t] \in {0, l[t]}
         /\ Nothing \in Lists /\ There(Nothing) = {} /\ \A t \in Tags : Nothing[t] = 0
BY Bounds DEF Filter, Lists, There, Nothing
\* What a cache keeps is one of the two lists.
LEMMA KeepIs ==
  ASSUME NEW known, NEW tags
  PROVE  Keep(known, tags) \in {known, tags}
BY DEF Keep

-----------------------------------------------------------------------------
(* Types, one action at a time.                                            *)

\* What each operation of a cache leaves of the types: a list for the worker, and a
\* record of what it does next.
LEMMA TypesOfCaches ==
  ASSUME TypeOK, NEW p \in Bots,
         Restart(p) \/ Refreshing(p)
  PROVE  TypeOK'
<1>0. /\ fetching \in [Bots -> Resting \cup Carrying] /\ cache \in [Bots -> Lists]
      /\ ecr \in Lists /\ changed \in Lists /\ redis \in Lists \cup {Unwritten}
      /\ happened \in 0..MaxHappenings
      /\ \A b \in Bots : There(cache[b]) \subseteq Matching
  BY DEF TypeOK, Resting, Carrying
<1>1. UNCHANGED <<ecr, changed, request>>
  BY DEF Restart, Refreshing, PopulateFromRedis, FetchToPopulate, FetchImages, Refresh
<1>2. happened' \in 0..MaxHappenings
  <2>1. happened' = happened \/ Happens(0) \/ Happens(1) \/ Happens(2)
    BY DEF Restart, Refreshing, PopulateFromRedis, FetchToPopulate, FetchImages, Refresh, WriteRepoTags
  <2> QED BY <1>0, <2>1, HappensBounded
<1>3. fetching' \in [Bots -> Resting \cup Carrying]
  <2>1. \A c \in Resting \cup Carrying :
          fetching' = [fetching EXCEPT ![p] = c] => fetching' \in [Bots -> Resting \cup Carrying]
    BY <1>0
  <2>2. /\ [at |-> "idle"] \in Resting /\ [at |-> "populate"] \in Resting
        /\ [at |-> "fill", list |-> ecr] \in Carrying
        /\ [at |-> "refresh", list |-> ecr] \in Carrying
    BY <1>0 DEF Resting, Carrying
  <2>3. \/ fetching' = [fetching EXCEPT ![p] = [at |-> "idle"]]
        \/ fetching' = [fetching EXCEPT ![p] = [at |-> "populate"]]
        \/ fetching' = [fetching EXCEPT ![p] = [at |-> "fill", list |-> ecr]]
        \/ fetching' = [fetching EXCEPT ![p] = [at |-> "refresh", list |-> ecr]]
        \/ fetching' = fetching
    BY Zenon DEF Restart, Refreshing, PopulateFromRedis, FetchToPopulate, FetchImages, Refresh
  <2> QED BY <1>0, <2>1, <2>2, <2>3
<1>4. redis' \in Lists \cup {Unwritten}
  <2>1. CASE UNCHANGED redis
    BY <1>0, <2>1
  <2>2. CASE Refresh(p)
    BY <1>0, <2>2, FetchingKinds DEF Refresh, WriteRepoTags
  <2> QED BY <2>1, <2>2 DEF Restart, Refreshing, PopulateFromRedis, FetchToPopulate, FetchImages
<1>5. cache' \in [Bots -> Lists] /\ \A b \in Bots : There(cache'[b]) \subseteq Matching
  <2>1. ASSUME NEW l \in Lists, There(l) \subseteq Matching, cache' = [cache EXCEPT ![p] = l]
        PROVE  cache' \in [Bots -> Lists] /\ \A b \in Bots : There(cache'[b]) \subseteq Matching
    BY <1>0, <2>1
  <2>2. CASE UNCHANGED cache
    BY <1>0, <2>2
  <2>3. CASE Restart(p)
    BY <1>0, <2>1, <2>3, FilterIs DEF Restart
  <2>4. CASE PopulateFromRedis(p)
    BY <1>0, <2>1, <2>4, FilterIs DEF PopulateFromRedis
  <2>5. CASE Refresh(p)
    <3>1. fetching[p].list \in Lists
      BY <1>0, <2>5, FetchingKinds DEF Refresh
    <3>2. \E l \in {Filter(fetching[p].list), cache[p]} : cache' = [cache EXCEPT ![p] = l]
      BY <1>0, <2>5, KeepIs DEF Refresh
    <3> QED BY <1>0, <2>1, <3>1, <3>2, FilterIs
  <2> QED BY <2>2, <2>3, <2>4, <2>5 DEF Refreshing, FetchToPopulate, FetchImages
<1> QED BY <1>0, <1>1, <1>2, <1>3, <1>4, <1>5 DEF TypeOK, Resting, Carrying

\* A push or a deletion leaves a request what it was but for what it remembers.
LEMMA WatchedIs ==
  ASSUME request = Idle \/ request \in Settled \/ request \in Pending, NEW l \in Lists
  PROVE  /\ ~UnderWay => Watched(l) = request
         /\ UnderWay => /\ Watched(l) \in Pending
                        /\ Watched(l).at = request.at /\ Watched(l).tag = request.tag
                        /\ Watched(l).seen = (request.seen \/ l[request.tag] # 0)
                        /\ Watched(l).lived = (request.lived /\ l[request.tag] # 0)
BY DEF Watched, UnderWay, Settled, Pending, Outcomes
\* A push or a deletion numbers what happened and touches nothing of the workers.
LEMMA TypesOfImages ==
  ASSUME TypeOK, NEW t \in Tags, PushImage(t) \/ DeleteImage(t)
  PROVE  TypeOK'
<1>0. /\ ecr \in Lists /\ changed \in Lists /\ happened \in 0..MaxHappenings
      /\ request = Idle \/ request \in Settled \/ request \in Pending
  BY DEF TypeOK, Settled, Pending
<1>1. Happens(1) /\ UNCHANGED <<redis, cache, fetching>> /\ request' = Watched(ecr')
  BY DEF PushImage, DeleteImage
<1>2. happened' \in 0..MaxHappenings /\ happened' = happened + 1
  BY <1>0, <1>1, HappensBounded
<1>3. ecr' \in Lists /\ changed' \in Lists
  <2>1. \A f \in Lists, n \in 0..MaxHappenings : [f EXCEPT ![t] = n] \in Lists
    BY DEF Lists
  <2>2. /\ 0 \in 0..MaxHappenings /\ happened + 1 \in 0..MaxHappenings
        /\ 1..(happened + 1) \subseteq 0..MaxHappenings
    BY <1>0, <1>2, Bounds
  <2> QED BY <1>0, <2>1, <2>2 DEF PushImage, DeleteImage
<1>4. request' = Idle \/ request' \in Settled \/ request' \in Pending
  <2>1. PICK l \in Lists : l = ecr'
    BY <1>3
  <2>2. request' = Watched(l)
    BY <1>1, <2>1
  <2> QED BY <1>0, <2>2, WatchedIs, RequestKinds
<1> QED BY <1>1, <1>2, <1>3, <1>4 DEF TypeOK, Settled, Pending

\* A request is made, let through, settled or forgotten; the caches are only read.
LEMMA TypesOfRequests ==
  ASSUME TypeOK,
         \/ \E t \in Tags : TypeTag(t)
         \/ \E p \in Bots : PickTag(p) \/ HandleDeploySubmit(p)
         \/ ValidateAndDispatch \/ NextRequest
  PROVE  TypeOK'
<1>0. /\ happened \in 0..MaxHappenings
      /\ request = Idle \/ request \in Settled \/ request \in Pending
  BY DEF TypeOK, Settled, Pending
<1>1. UNCHANGED <<ecr, changed, redis, cache, fetching>>
  BY DEF TypeTag, PickTag, HandleDeploySubmit, ValidateAndDispatch, NextRequest
<1>2. happened' \in 0..MaxHappenings
  <2>1. happened' = happened \/ Happens(0) \/ Happens(1)
    BY Zenon DEF TypeTag, PickTag, HandleDeploySubmit, ValidateAndDispatch, NextRequest, Answered
  <2> QED BY <1>0, <2>1, HappensBounded
<1>3. request' = Idle \/ request' \in Settled \/ request' \in Pending
  <2>1. \A t \in Tags, typed \in BOOLEAN : Submitted(t, typed) \in Pending
    BY DEF Submitted, Pending
  <2>2. ASSUME NEW t \in Tags, TypeTag(t) PROVE request' \in Pending
    BY <2>1, <2>2 DEF TypeTag
  <2>3. ASSUME NEW p \in Bots, PickTag(p) PROVE request' \in Pending
    BY <2>1, <2>3 DEF PickTag, RecentTags, There
  <2>4. ASSUME NEW p \in Bots, HandleDeploySubmit(p) PROVE request' \in Settled
    BY <2>4 DEF HandleDeploySubmit, Outcome, Settled, Outcomes
  <2>5. ASSUME ValidateAndDispatch PROVE request' = Idle \/ request' \in Pending
    <3>1. request \in Pending
      BY <1>0, <2>5, RequestKinds DEF ValidateAndDispatch
    <3>2. [request EXCEPT !.at = "queued"] \in Pending
      BY <3>1 DEF Pending
    <3> QED BY <2>5, <3>2 DEF ValidateAndDispatch
  <2>6. NextRequest => request' = Idle
    BY DEF NextRequest
  <2> QED BY <2>2, <2>3, <2>4, <2>5, <2>6
<1> QED BY <1>1, <1>2, <1>3 DEF TypeOK, Settled, Pending

-----------------------------------------------------------------------------
(* The lists.                                                              *)

\* A list that holds nothing deleted since a newer image of its own was pushed.
Truthful(list) ==
  \A t \in Tags : list[t] <= happened /\ (list[t] # 0 /\ ecr[t] = 0 => Before(list, changed[t]))

\* ListsInv says of every list somebody has that it is truthful.
LEMMA ListsAreTruthful ==
  ListsInv <=> /\ \A t \in Tags : ecr[t] <= happened /\ changed[t] <= happened
               /\ \A list \in Known : Truthful(list)
BY DEF ListsInv, Truthful

\* The pattern leaves a list truthful, and so do an empty one and what ECR says now.
LEMMA TruthfulLists ==
  ASSUME TypeOK, ListsInv
  PROVE  /\ Truthful(Nothing) /\ Truthful(ecr)
         /\ \A l \in Lists : Truthful(l) => Truthful(Filter(l))
<1>0. ecr \in Lists /\ changed \in Lists /\ happened \in Nat
  BY Bounds DEF TypeOK
<1>1. Truthful(Nothing) /\ Truthful(ecr)
  BY <1>0, FilterIs, ListsAreTruthful DEF Truthful
<1>2. ASSUME NEW l \in Lists, Truthful(l) PROVE Truthful(Filter(l))
  <2>1. ASSUME NEW t \in Tags
        PROVE  /\ Filter(l)[t] <= happened
               /\ Filter(l)[t] # 0 /\ ecr[t] = 0 => Before(Filter(l), changed[t])
    <3>1. \A u \in Tags : Filter(l)[u] \in {0, l[u]} /\ l[u] \in Nat /\ changed[u] \in Nat
      BY <1>0, FilterIs, Bounds DEF Lists
    <3>2. Filter(l)[t] <= happened
      BY <1>0, <1>2, <3>1 DEF Truthful
    <3>3. ASSUME Filter(l)[t] # 0, ecr[t] = 0 PROVE Before(Filter(l), changed[t])
      <4>1. l[t] # 0 /\ Before(l, changed[t])
        BY <1>2, <3>1, <3>3 DEF Truthful
      <4> QED BY <3>1, <4>1 DEF Before
    <3> QED BY <3>2, <3>3
  <2> QED BY <2>1 DEF Truthful
<1> QED BY <1>1, <1>2

\* As long as images come and go elsewhere, a list stays truthful.
LEMMA ListsKept ==
  ASSUME TypeOK, ListsInv, NEW new, Truthful(new), new \in Lists,
         UNCHANGED <<ecr, changed>>, happened' \in Nat, happened <= happened',
         Known' \subseteq Known \cup {new}, Known \subseteq Lists
  PROVE  ListsInv'
<1>0. ecr \in Lists /\ changed \in Lists /\ happened \in Nat
  BY Bounds DEF TypeOK
<1>1. \A t \in Tags : ecr'[t] <= happened' /\ changed'[t] <= happened'
  BY <1>0, Bounds DEF Lists, ListsInv
<1>2. ASSUME NEW list \in Known \cup {new}, NEW t \in Tags
      PROVE  list[t] <= happened' /\ (list[t] # 0 /\ ecr'[t] = 0 => Before(list, changed'[t]))
  <2>1. Truthful(list) /\ list \in Lists
    BY ListsAreTruthful
  <2>2. list[t] \in Nat
    BY <2>1, Bounds DEF Lists
  <2> QED BY <1>0, <2>1, <2>2 DEF Truthful
<1> QED BY <1>1, <1>2 DEF ListsInv, Before

\* The lists somebody has are lists.
LEMMA KnownAreLists ==
  ASSUME TypeOK PROVE Known \subseteq Lists
<1>1. /\ fetching \in [Bots -> Resting \cup Carrying] /\ cache \in [Bots -> Lists]
      /\ redis \in Lists \cup {Unwritten}
  BY DEF TypeOK, Resting, Carrying
<1> QED BY <1>1, FetchingKinds DEF Known
\* A cache gets a list another place has, or what the pattern leaves of it.
LEMMA ListsOfCaches ==
  ASSUME TypeOK, ListsInv, NEW p \in Bots, Restart(p) \/ Refreshing(p)
  PROVE  ListsInv'
<1>0. /\ fetching \in [Bots -> Resting \cup Carrying] /\ cache \in [Bots -> Lists]
      /\ ecr \in Lists /\ redis \in Lists \cup {Unwritten} /\ happened \in 0..MaxHappenings
      /\ Nothing \in Lists
  BY FilterIs DEF TypeOK, Resting, Carrying
<1>1. UNCHANGED <<ecr, changed>> /\ happened' \in Nat /\ happened <= happened'
  <2>1. /\ UNCHANGED <<ecr, changed>>
        /\ happened' = happened \/ Happens(0) \/ Happens(1) \/ Happens(2)
    BY DEF Restart, Refreshing, PopulateFromRedis, FetchToPopulate, FetchImages, Refresh, WriteRepoTags
  <2> QED BY <1>0, <2>1, HappensBounded, Bounds
<1>2. Known \subseteq Lists
  BY KnownAreLists
<1>3. /\ \A b \in Bots : cache[b] \in Known
      /\ redis # Unwritten => redis \in Known
      /\ \A b \in Bots : fetching[b].at \in {"fill", "refresh"} => fetching[b].list \in Known
  BY DEF Known
<1>4. PICK new \in Lists :
        /\ Truthful(new)
        /\ \A b \in Bots : cache'[b] \in Known \cup {new}
        /\ redis' \in Known \cup {Unwritten, new}
        /\ \A b \in Bots :
             fetching'[b].at \in {"fill", "refresh"} => fetching'[b].list \in Known \cup {new}
  <2>1. CASE Restart(p)
    <3>1. /\ cache' = [cache EXCEPT ![p] = Nothing] /\ UNCHANGED redis
          /\ fetching' = [fetching EXCEPT ![p] = [at |-> "populate"]]
      BY <2>1 DEF Restart
    <3>2. /\ \A b \in Bots : cache'[b] \in Known \cup {Nothing}
          /\ redis' \in Known \cup {Unwritten}
          /\ \A b \in Bots :
               fetching'[b].at \in {"fill", "refresh"} => fetching'[b].list \in Known
      BY <1>0, <1>3, <3>1
    <3> QED BY <1>0, <3>2, TruthfulLists
  <2>2. CASE PopulateFromRedis(p)
    <3>1. /\ cache' = [cache EXCEPT ![p] = Filter(redis)] /\ UNCHANGED redis /\ redis \in Known
          /\ fetching' = [fetching EXCEPT ![p] = [at |-> "idle"]]
      BY <1>3, <2>2 DEF PopulateFromRedis
    <3>2. Filter(redis) \in Lists /\ Truthful(Filter(redis))
      BY <1>2, <3>1, FilterIs, TruthfulLists, ListsAreTruthful
    <3>3. /\ \A b \in Bots : cache'[b] \in Known \cup {Filter(redis)}
          /\ redis' \in Known \cup {Unwritten}
          /\ \A b \in Bots :
               fetching'[b].at \in {"fill", "refresh"} => fetching'[b].list \in Known
      BY <1>0, <1>3, <3>1
    <3> QED BY <3>2, <3>3
  <2>3. CASE FetchToPopulate(p) \/ FetchImages(p)
    <3>1. /\ UNCHANGED <<cache, redis>>
          /\ \/ fetching' = [fetching EXCEPT ![p] = [at |-> "fill", list |-> ecr]]
             \/ fetching' = [fetching EXCEPT ![p] = [at |-> "refresh", list |-> ecr]]
             \/ fetching' = [fetching EXCEPT ![p] = [at |-> "idle"]]
             \/ fetching' = fetching
      BY <2>3 DEF FetchToPopulate, FetchImages
    <3>2. /\ \A b \in Bots : cache'[b] \in Known
          /\ redis' \in Known \cup {Unwritten}
      BY <1>3, <3>1
    <3>3. \A b \in Bots :
            fetching'[b].at \in {"fill", "refresh"} => fetching'[b].list \in Known \cup {ecr}
      BY <1>0, <1>3, <3>1
    <3> QED BY <1>0, <3>2, <3>3, TruthfulLists
  <2>4. CASE Refresh(p)
    <3>1. fetching[p].list \in Known
      BY <1>3, <2>4 DEF Refresh
    <3>2. /\ Filter(fetching[p].list) \in Lists /\ Truthful(Filter(fetching[p].list))
      BY <1>2, <3>1, FilterIs, TruthfulLists, ListsAreTruthful
    <3>3. \E l \in {Filter(fetching[p].list), cache[p]} : cache' = [cache EXCEPT ![p] = l]
      BY <2>4, KeepIs DEF Refresh
    <3>4. redis' \in {fetching[p].list, redis}
      BY <2>4 DEF Refresh, WriteRepoTags
    <3>5. fetching' = [fetching EXCEPT ![p] = [at |-> "idle"]]
      BY <2>4 DEF Refresh
    <3>6. \A b \in Bots : cache'[b] \in Known \cup {Filter(fetching[p].list)}
      BY <1>0, <1>3, <3>3
    <3>7. redis' \in Known \cup {Unwritten}
      BY <1>3, <3>1, <3>4
    <3>8. \A b \in Bots :
            fetching'[b].at \in {"fill", "refresh"} => fetching'[b].list \in Known
      BY <1>0, <1>3, <3>5
    <3> QED BY <3>2, <3>6, <3>7, <3>8
  <2> QED BY <2>1, <2>2, <2>3, <2>4 DEF Refreshing
<1>5. Known' \subseteq Known \cup {new}
  BY <1>4 DEF Known
<1> QED BY <1>1, <1>2, <1>4, <1>5, ListsKept

\* A push makes its tag there again; a deletion comes after every push there was.
LEMMA ListsOfImages ==
  ASSUME TypeOK, ListsInv, NEW t \in Tags, PushImage(t) \/ DeleteImage(t)
  PROVE  ListsInv'
<1>0. /\ ecr \in Lists /\ changed \in Lists /\ happened \in 0..MaxHappenings /\ happened \in Nat
      /\ happened' = happened + 1
  BY HappensBounded, Bounds DEF TypeOK, PushImage, DeleteImage
<1>1. \A l \in Lists, u \in Tags : l[u] \in Nat
  BY Bounds DEF Lists
<1>2. PICK n \in 0..(happened + 1) :
        /\ ecr' = [ecr EXCEPT ![t] = n] /\ changed' = [changed EXCEPT ![t] = happened + 1]
        /\ UNCHANGED <<redis, cache, fetching>>
  <2>1. CASE PushImage(t)
    <3>1. PICK pushed \in 1..(happened + 1) : ecr' = [ecr EXCEPT ![t] = pushed]
      BY <2>1 DEF PushImage
    <3>2. pushed \in 0..(happened + 1)
      BY <1>0
    <3> QED BY <2>1, <3>1, <3>2 DEF PushImage
  <2>2. CASE DeleteImage(t)
    <3>1. 0 \in 0..(happened + 1)
      BY <1>0
    <3> QED BY <2>2, <3>1 DEF DeleteImage
  <2> QED BY <2>1, <2>2
<1>3. \A u \in Tags : ecr[u] <= happened /\ changed[u] <= happened
  BY DEF ListsInv
<1>4. /\ \A u \in Tags : u # t => ecr'[u] = ecr[u] /\ changed'[u] = changed[u]
      /\ ecr'[t] = n /\ n <= happened + 1 /\ changed'[t] = happened + 1
  BY <1>0, <1>2 DEF Lists
<1>5. \A u \in Tags : ecr'[u] <= happened' /\ changed'[u] <= happened'
  BY <1>0, <1>1, <1>3, <1>4
<1>6. Known' = Known
  BY <1>2 DEF Known
<1>7. ASSUME NEW list \in Known, NEW u \in Tags
      PROVE  list[u] <= happened' /\ (list[u] # 0 /\ ecr'[u] = 0 => Before(list, changed'[u]))
  <2>1. Truthful(list) /\ \A v \in Tags : list[v] \in Nat /\ list[v] <= happened
    BY <1>1, KnownAreLists, ListsAreTruthful DEF Truthful
  <2>2. list[u] <= happened'
    BY <1>0, <2>1
  <2>3. ASSUME list[u] # 0, ecr'[u] = 0 PROVE Before(list, changed'[u])
    <3>1. CASE u # t
      BY <1>4, <2>1, <2>3, <3>1 DEF Truthful
    <3>2. CASE u = t
      <4>1. changed'[u] = happened + 1
        BY <1>0, <1>4, <2>3, <3>2
      <4> QED BY <1>0, <2>1, <4>1 DEF Before
    <3> QED BY <3>1, <3>2
  <2> QED BY <2>2, <2>3
<1> QED BY <1>5, <1>6, <1>7 DEF ListsInv, Before

\* A request changes no list.
LEMMA ListsOfRequests ==
  ASSUME TypeOK, ListsInv,
         \/ \E t \in Tags : TypeTag(t)
         \/ \E p \in Bots : PickTag(p) \/ HandleDeploySubmit(p)
         \/ ValidateAndDispatch \/ NextRequest
  PROVE  ListsInv'
<1>1. UNCHANGED <<ecr, changed, redis, cache, fetching>>
  BY DEF TypeTag, PickTag, HandleDeploySubmit, ValidateAndDispatch, NextRequest
<1>2. happened' = happened \/ Happens(0) \/ Happens(1)
  BY Zenon DEF TypeTag, PickTag, HandleDeploySubmit, ValidateAndDispatch, NextRequest, Answered
<1>3. happened' \in Nat /\ happened <= happened'
  BY <1>2, HappensBounded, Bounds DEF TypeOK
<1>4. Known' \subseteq Known \cup {Nothing}
  BY <1>1 DEF Known
<1>5. Truthful(Nothing) /\ Nothing \in Lists /\ Known \subseteq Lists
  <2>1. TypeOK => Nothing \in Lists
    BY Bounds DEF Nothing, Lists
  <2> QED BY <2>1, TruthfulLists, KnownAreLists
<1> QED BY <1>1, <1>3, <1>4, <1>5, ListsKept

-----------------------------------------------------------------------------
(* The request.                                                            *)

\* What a request remembers covers what there is: it is told of every push and deletion.
LEMMA RequestRemembers ==
  ASSUME TypeOK, RequestInv, Next
  PROVE  RequestInv'
<1>0. request = Idle \/ request \in Settled \/ request \in Pending
  BY DEF TypeOK, Settled, Pending
<1>1. ASSUME NEW t \in Tags, PushImage(t) \/ DeleteImage(t) PROVE RequestInv'
  <2>1. TypeOK'
    BY <1>1, TypesOfImages
  <2>2. PICK l \in Lists : l = ecr' /\ request' = Watched(l)
    BY <1>1, <2>1 DEF TypeOK, PushImage, DeleteImage
  <2>3. CASE ~UnderWay
    <3>1. request' = request
      BY <1>0, <2>2, <2>3, WatchedIs
    <3> QED BY <2>3, <3>1 DEF UnderWay, RequestInv
  <2>4. CASE UnderWay
    <3>1. /\ request'.tag = request.tag
          /\ request'.seen = (request.seen \/ l[request.tag] # 0)
          /\ request'.lived = (request.lived /\ l[request.tag] # 0)
      BY <1>0, <2>2, <2>4, WatchedIs
    <3> QED BY <2>2, <3>1 DEF RequestInv
  <2> QED BY <2>3, <2>4
<1>2. ASSUME NEW t \in Tags, NEW typed \in BOOLEAN, UNCHANGED ecr, request' = Submitted(t, typed)
      PROVE  RequestInv'
  BY <1>2 DEF Submitted, RequestInv
<1>3. ASSUME NEW t \in Tags, TypeTag(t) PROVE RequestInv'
  BY <1>2, <1>3 DEF TypeTag
<1>4. ASSUME NEW p \in Bots, PickTag(p) PROVE RequestInv'
  BY <1>2, <1>4 DEF PickTag, RecentTags, There
<1>5. ASSUME request' \in Settled \cup {Idle} PROVE RequestInv'
  <2>1. ~UnderWay'
    BY <1>5 DEF UnderWay, Settled, Outcomes
  <2> QED BY <2>1 DEF RequestInv
<1>6. ASSUME NEW p \in Bots, HandleDeploySubmit(p) PROVE RequestInv'
  <2>1. request' \in Settled
    BY <1>6 DEF HandleDeploySubmit, Outcome, Settled, Outcomes
  <2> QED BY <1>5, <2>1
<1>7. ASSUME ValidateAndDispatch PROVE RequestInv'
  <2>1. request \in Pending /\ UnderWay /\ UNCHANGED ecr
    BY <1>0, <1>7, RequestKinds DEF ValidateAndDispatch
  <2>2. request' = Idle \/ request' = [request EXCEPT !.at = "queued"]
    BY <1>7 DEF ValidateAndDispatch
  <2>3. CASE request' = [request EXCEPT !.at = "queued"]
    <3>1. /\ request'.tag = request.tag /\ request'.seen = request.seen
          /\ request'.lived = request.lived
      BY <2>1, <2>3 DEF Pending
    <3> QED BY <2>1, <3>1 DEF RequestInv
  <2> QED BY <1>5, <2>2, <2>3
<1>8. NextRequest => RequestInv'
  BY <1>5 DEF NextRequest
<1>9. ASSUME NEW p \in Bots, Restart(p) \/ Refreshing(p) PROVE RequestInv'
  <2>1. UNCHANGED <<ecr, request>>
    BY <1>9 DEF Restart, Refreshing, PopulateFromRedis, FetchToPopulate, FetchImages, Refresh
  <2> QED BY <2>1 DEF RequestInv, UnderWay
<1> QED BY <1>1, <1>3, <1>4, <1>6, <1>7, <1>8, <1>9 DEF Next

-----------------------------------------------------------------------------
(* The theorems.                                                           *)

\* The invariant holds before anything happens.
LEMMA InitHolds ==
  ASSUME Init
  PROVE  TagsInv
<1>0. /\ \A n \in {0, 1} : n \in 0..MaxHappenings
      /\ Nothing \in Lists /\ There(Nothing) = {} /\ \A t \in Tags : Nothing[t] = 0
      /\ ecr = [t \in Tags |-> IF t \in Built THEN 1 ELSE 0] /\ changed = ecr
      /\ redis = Unwritten /\ cache = [p \in Bots |-> Nothing]
      /\ fetching = [p \in Bots |-> [at |-> "populate"]] /\ request = Idle /\ happened = 1
  BY FilterIs, Bounds DEF Init, Nothing, Lists, There
<1>1. ecr \in Lists
  BY <1>0 DEF Lists
<1>2. fetching \in [Bots -> Resting \cup Carrying]
  BY <1>0 DEF Resting
<1>3. TypeOK
  BY <1>0, <1>1, <1>2 DEF TypeOK, Resting, Carrying
<1>4. Known \subseteq {Nothing}
  BY <1>0 DEF Known
<1>5. ListsInv
  BY <1>0, <1>4 DEF ListsInv
<1>6. RequestInv
  BY <1>0 DEF RequestInv, UnderWay
<1> QED BY <1>3, <1>5, <1>6 DEF TagsInv

\* Every step keeps the invariant.
LEMMA StepHolds ==
  ASSUME TagsInv, [Next]_vars
  PROVE  TagsInv'
<1>0. TypeOK /\ ListsInv /\ RequestInv
  BY DEF TagsInv
<1>1. CASE Next
  <2>1. TypeOK' /\ ListsInv'
    BY <1>0, <1>1, TypesOfCaches, TypesOfImages, TypesOfRequests,
       ListsOfCaches, ListsOfImages, ListsOfRequests DEF Next
  <2> QED BY <1>0, <1>1, <2>1, RequestRemembers DEF TagsInv
<1>2. CASE UNCHANGED vars
  BY <1>0, <1>2 DEF vars, TagsInv, TypeOK, ListsInv, Known, RequestInv, UnderWay
<1> QED BY <1>1, <1>2

\* The lists are truthful about what was deleted, and a request about its tag.
THEOREM Invariance == Spec => []TagsInv
<1>1. Init => TagsInv
  BY InitHolds
<1>2. TagsInv /\ [Next]_vars => TagsInv'
  BY StepHolds
<1> QED BY <1>1, <1>2, PTL DEF Spec

\* Every variable keeps its type, and a cache the tags of its pattern.
THEOREM TypeCorrect == Spec => []TypeOK
<1>1. TagsInv => TypeOK
  BY DEF TagsInv
<1> QED BY <1>1, Invariance, PTL

\* A worker that knows of a newer image has dropped what was deleted before it.
THEOREM DeletedIsDropped == Spec => []DeletedUntilNextPush
<1>1. TagsInv => DeletedUntilNextPush
  BY DEF TagsInv, ListsInv, Known, DeletedUntilNextPush
<1> QED BY <1>1, Invariance, PTL

\* Only the worker that handles a request settles it.
LEMMA OnlyWorkersSettle ==
  ASSUME TagsInv, [Next]_vars, NEW p \in Bots, NEW outcome \in Outcomes, Settles(p, outcome)
  PROVE  /\ HandleDeploySubmit(p)
         /\ \E answer \in ValidateTag(cache[p][request.tag] # 0, request.tag) :
              /\ Answered(answer, request.tag)
              /\ outcome = IF answer = "valid" THEN "accepted" ELSE "refused"
<1>0. request \in Pending /\ UnderWay /\ request.at = "queued"
  BY RequestKinds DEF TagsInv, TypeOK, Settled, Pending, Settles, Handling
<1>1. request' \in Settled /\ request' # Idle /\ request' # request
  BY <1>0, Bounds, RequestKinds DEF Settled, Outcomes, Pending, Settles
<1>2. ~\E t \in Tags : PushImage(t) \/ DeleteImage(t)
  <2>1. SUFFICES ASSUME NEW t \in Tags, PushImage(t) \/ DeleteImage(t) PROVE FALSE
    OBVIOUS
  <2>2. TypeOK'
    BY <2>1, TypesOfImages DEF TagsInv
  <2>3. PICK l \in Lists : l = ecr' /\ request' = Watched(l)
    BY <2>1, <2>2 DEF TypeOK, PushImage, DeleteImage
  <2>4. request'.at = "queued"
    BY <1>0, <2>3, WatchedIs
  <2> QED BY <1>1, <2>4 DEF Settled, Outcomes
<1>3. ~ValidateAndDispatch /\ ~NextRequest /\ ~\E t \in Tags : TypeTag(t)
  BY <1>0 DEF ValidateAndDispatch, NextRequest, TypeTag, Outcomes, UnderWay
<1>4. ~\E b \in Bots : Restart(b) \/ Refreshing(b) \/ PickTag(b)
  BY <1>0, <1>1 DEF Restart, Refreshing, PopulateFromRedis, FetchToPopulate, FetchImages, Refresh,
     PickTag, UnderWay
<1>5. ~UNCHANGED vars
  BY <1>1 DEF vars
<1>6. PICK b \in Bots : HandleDeploySubmit(b)
  BY <1>2, <1>3, <1>4, <1>5 DEF Next
<1>7. PICK answer \in ValidateTag(cache[b][request.tag] # 0, request.tag) :
        Answered(answer, request.tag) /\ request' = Outcome(answer, b)
  BY <1>6 DEF HandleDeploySubmit
<1>8. b = p /\ outcome = IF answer = "valid" THEN "accepted" ELSE "refused"
  <2>1. request'.by = p /\ request'.at = outcome
    BY DEF Settles
  <2>2. request'.by = b /\ request'.at = IF answer = "valid" THEN "accepted" ELSE "refused"
    BY <1>7 DEF Outcome
  <2> QED BY <2>1, <2>2
<1> QED BY <1>6, <1>7, <1>8

\* An accepted tag was there since it was requested, or no image that is newer than its
\* deletion is known to the worker that accepted it from its cache.
THEOREM AcceptedTagsWereBuilt == Spec => AcceptedWasBuilt
<1>1. TagsInv /\ [Next]_vars
        => [\A p \in Bots : Settles(p, "accepted")
              => /\ request.tag \in Matching
                 /\ \/ request.seen
                    \/ /\ ecr[request.tag] = 0 /\ changed[request.tag] # 0
                       /\ cache[p][request.tag] # 0 /\ Before(cache[p], changed[request.tag])]_vars
  <2>1. SUFFICES ASSUME TagsInv, [Next]_vars, NEW p \in Bots, Settles(p, "accepted")
                 PROVE  /\ request.tag \in Matching
                        /\ \/ request.seen
                           \/ /\ ecr[request.tag] = 0 /\ changed[request.tag] # 0
                              /\ cache[p][request.tag] # 0 /\ Before(cache[p], changed[request.tag])
    BY Zenon
  <2>2. UnderWay /\ request.tag \in Tags
    BY <2>1, RequestKinds DEF TagsInv, TypeOK, Settled, Pending, Settles, Handling
  <2>3. "valid" \in ValidateTag(cache[p][request.tag] # 0, request.tag)
    <3>1. "accepted" \in Outcomes /\ "accepted" # "refused"
      BY DEF Outcomes
    <3> QED BY <2>1, <3>1, OnlyWorkersSettle
  <2>4. request.tag \in Matching /\ (cache[p][request.tag] # 0 \/ ecr[request.tag] # 0)
    BY <2>3 DEF ValidateTag
  <2>5. CASE ecr[request.tag] # 0
    BY <2>1, <2>2, <2>4, <2>5 DEF TagsInv, RequestInv
  <2>6. CASE cache[p][request.tag] # 0 /\ ecr[request.tag] = 0
    <3>1. Before(cache[p], changed[request.tag])
      BY <2>1, <2>2, <2>6 DEF TagsInv, ListsInv, Known
    <3>2. changed[request.tag] # 0
      <4>1. cache[p] \in Lists
        BY <2>1 DEF TagsInv, TypeOK
      <4>2. cache[p][request.tag] \in Nat /\ cache[p][request.tag] < changed[request.tag]
        BY <2>2, <3>1, <4>1, Bounds DEF Before, Lists
      <4> QED BY <4>2
    <3> QED BY <2>4, <2>6, <3>1, <3>2
  <2> QED BY <2>4, <2>5, <2>6
<1> QED BY <1>1, Invariance, PTL DEF Spec, AcceptedWasBuilt

\* A tag that was there all along and matches the pattern is said to be missing only by
\* a worker that does not know it and whose question to ECR failed.
THEOREM RefusedTagsWereMissing == Spec => RefusedWasMissing
<1>1. TagsInv /\ [Next]_vars
        => [\A p \in Bots : Settles(p, "refused")
              => \/ ~request.lived \/ request.tag \notin Matching
                 \/ cache[p][request.tag] = 0 /\ happened' # happened]_vars
  <2>1. SUFFICES ASSUME TagsInv, [Next]_vars, NEW p \in Bots, Settles(p, "refused"),
                        request.lived, request.tag \in Matching
                 PROVE  cache[p][request.tag] = 0 /\ happened' # happened
    BY Zenon
  <2>2. UnderWay
    BY <2>1, RequestKinds DEF TagsInv, TypeOK, Settled, Pending, Settles, Handling
  <2>3. PICK answer \in ValidateTag(cache[p][request.tag] # 0, request.tag) :
          Answered(answer, request.tag) /\ answer # "valid"
    <3>1. "refused" \in Outcomes /\ "accepted" # "refused"
      BY DEF Outcomes
    <3> QED BY <2>1, <3>1, OnlyWorkersSettle
  <2>4. ecr[request.tag] # 0
    BY <2>1, <2>2 DEF TagsInv, RequestInv
  <2>5. cache[p][request.tag] = 0 /\ answer = "failed"
    BY <2>1, <2>3, <2>4 DEF ValidateTag
  <2>6. Happens(1)
    BY <2>3, <2>4, <2>5 DEF Answered
  <2>7. happened' = happened + 1 /\ happened \in Nat
    BY <2>1, <2>6, HappensBounded, Bounds DEF TagsInv, TypeOK
  <2> QED BY <2>5, <2>7
<1> QED BY <1>1, Invariance, PTL DEF Spec, RefusedWasMissing
=============================================================================
