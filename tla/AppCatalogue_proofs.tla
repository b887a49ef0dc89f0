------------------------ MODULE AppCatalogue_proofs ------------------------
(***************************************************************************)
(* Proofs about AppCatalogue, for every value of its constants: any        *)
(* repositories, files and number of happenings.                           *)
(*                                                                         *)
(* First what the operators on lists return, by induction on the length of *)
(* the list; then, action by action, that types, the watcher's part and    *)
(* the targeted files are kept.  What MergeApps makes of two files plays   *)
(* no part for the watcher: it is right to take the config for current as  *)
(* long as it merged what they now say.                                    *)
(***************************************************************************)
EXTENDS AppCatalogue, Lemmas, SequenceTheorems, FiniteSetTheorems, TLAPS

-----------------------------------------------------------------------------
(* What the operators on lists return.                                     *)

\* The function a list is computed with by Kept.
KeptUpto(seq, wanted, upto) ==
  upto = [i \in 0..Len(seq) |->
            IF i = 0 THEN <<>>
            ELSE IF i \in wanted THEN Append(upto[i - 1], seq[i]) ELSE upto[i - 1]]

\* The function that picks the wanted members one by one exists, and Kept is its last value.
LEMMA KeptExists ==
  ASSUME NEW S, NEW seq \in Seq(S), NEW wanted
  PROVE  \E upto : KeptUpto(seq, wanted, upto) /\ Kept(seq, wanted) = upto[Len(seq)]
<1> DEFINE n == Len(seq)
           step == [x \in Seq(S) \X (1..n) |->
                      IF x[2] \in wanted THEN Append(x[1], seq[x[2]]) ELSE x[1]]
<1>1. n \in Nat /\ \A i \in 1..n : seq[i] \in S
  OBVIOUS
<1>2. <<>> \in Seq(S)
  OBVIOUS
<1>3. step \in [Seq(S) \X (1..n) -> Seq(S)]
  <2>1. \A x \in Seq(S) \X (1..n) :
          (IF x[2] \in wanted THEN Append(x[1], seq[x[2]]) ELSE x[1]) \in Seq(S)
    <3>1. \A l \in Seq(S), i \in 1..n : Append(l, seq[i]) \in Seq(S)
      BY <1>1, AppendProperties
    <3> QED BY <3>1
  <2> QED BY <2>1
<1>4. \A l \in Seq(S), i \in 1..n :
        step[<<l, i>>] = IF i \in wanted THEN Append(l, seq[i]) ELSE l
  OBVIOUS
<1> HIDE DEF step, n
<1>5. PICK f \in [0..n -> Seq(S)] : f[0] = <<>> /\ \A i \in 1..n : f[i] = step[<<f[i - 1], i>>]
  <2> DEFINE A == Seq(S)
             none == <<>>
  <2>1. none \in A /\ step \in [A \X (1..n) -> A] /\ n \in Nat
    BY <1>1, <1>2, <1>3
  <2> HIDE DEF A, none
  <2>2. \E f : IsFold(f, A, none, n, step)
    BY <2>1, FoldExists
  <2> QED BY <2>2 DEF A, none, IsFold
<1>6. \A i \in 0..n : f[i] = IF i = 0 THEN <<>>
                            ELSE IF i \in wanted THEN Append(f[i - 1], seq[i]) ELSE f[i - 1]
  <2>1. \A i \in 0..n : i = 0 \/ (i \in 1..n /\ i # 0 /\ i - 1 \in 0..n)
    BY <1>1
  <2> QED BY <1>4, <1>5, <2>1
<1>7. KeptUpto(seq, wanted, f)
  BY <1>5, <1>6 DEF KeptUpto, n
<1> DEFINE g == CHOOSE upto : KeptUpto(seq, wanted, upto)
<1>8. KeptUpto(seq, wanted, g)
  BY <1>7
<1>9. Kept(seq, wanted) = g[Len(seq)]
  BY DEF Kept, KeptUpto
<1> QED BY <1>8, <1>9

\* The list kept up to a position, and where each of its elements was.
KeptFrom(S, seq, wanted, kept, i) ==
  /\ kept \in Seq(S)
  /\ \E pos \in [1..Len(kept) -> wanted \cap 1..i] :
       /\ \A k \in 1..Len(kept) : kept[k] = seq[pos[k]]
       /\ \A j, k \in 1..Len(kept) : pos[j] = pos[k] => j = k
       /\ \A p \in wanted \cap 1..i : \E k \in 1..Len(kept) : pos[k] = p

\* One more member of the sequence: the picked ones stay wanted, in order, and complete.
LEMMA KeptStep ==
  ASSUME NEW S, NEW seq \in Seq(S), NEW wanted, NEW i \in 1..Len(seq), NEW kept,
         KeptFrom(S, seq, wanted, kept, i - 1)
  PROVE  KeptFrom(S, seq, wanted, IF i \in wanted THEN Append(kept, seq[i]) ELSE kept, i)
<1>1. kept \in Seq(S) /\ Len(kept) \in Nat /\ seq[i] \in S
  BY DEF KeptFrom
<1>2. PICK pos \in [1..Len(kept) -> wanted \cap 1..(i - 1)] :
        /\ \A k \in 1..Len(kept) : kept[k] = seq[pos[k]]
        /\ \A j, k \in 1..Len(kept) : pos[j] = pos[k] => j = k
        /\ \A p \in wanted \cap 1..(i - 1) : \E k \in 1..Len(kept) : pos[k] = p
  BY DEF KeptFrom
<1>3. 1..i = (1..(i - 1)) \cup {i} /\ i \notin 1..(i - 1)
  OBVIOUS
<1>4. CASE i \notin wanted
  <2>1. wanted \cap 1..i = wanted \cap 1..(i - 1)
    BY <1>3, <1>4
  <2> QED BY <1>1, <1>2, <1>4, <2>1 DEF KeptFrom
<1>5. CASE i \in wanted
  <2> DEFINE more == Append(kept, seq[i])
             n == Len(kept)
             now == [k \in 1..(n + 1) |-> IF k = n + 1 THEN i ELSE pos[k]]
  <2>1. /\ more \in Seq(S) /\ Len(more) = n + 1 /\ more[n + 1] = seq[i]
        /\ \A k \in 1..n : more[k] = kept[k]
    BY <1>1, AppendProperties
  <2>2. 1..(n + 1) = (1..n) \cup {n + 1} /\ n + 1 \notin 1..n
    BY <1>1
  <2>3. /\ DOMAIN now = 1..(n + 1) /\ now[n + 1] = i
        /\ \A k \in 1..n : now[k] = pos[k] /\ now[k] \in wanted \cap 1..(i - 1)
    BY <1>2, <2>2
  <2> HIDE DEF more
  <2>4. now \in [1..(n + 1) -> wanted \cap 1..i]
    BY <1>2, <1>3, <1>5, <2>2
  <2> HIDE DEF now, n
  <2>5. \A k \in 1..(n + 1) : more[k] = seq[now[k]]
    BY <1>2, <2>1, <2>2, <2>3 DEF n
  <2>6. \A j, k \in 1..(n + 1) : now[j] = now[k] => j = k
    <3>1. \A j, k \in 1..n : now[j] = now[k] => j = k
      BY <1>2, <2>3 DEF n
    <3> QED BY <1>3, <2>2, <2>3, <3>1
  <2>7. \A p \in wanted \cap 1..i : \E k \in 1..(n + 1) : now[k] = p
    <3>1. \A p \in wanted \cap 1..(i - 1) : \E k \in 1..n : now[k] = p
      BY <1>2, <2>3 DEF n
    <3> QED BY <1>3, <2>2, <2>3, <3>1
  <2>8. KeptFrom(S, seq, wanted, more, i)
    <3>1. /\ now \in [1..Len(more) -> wanted \cap 1..i]
          /\ \A k \in 1..Len(more) : more[k] = seq[now[k]]
          /\ \A j, k \in 1..Len(more) : now[j] = now[k] => j = k
          /\ \A p \in wanted \cap 1..i : \E k \in 1..Len(more) : now[k] = p
      BY <2>1, <2>4, <2>5, <2>6, <2>7
    <3> QED BY <2>1, <3>1 DEF KeptFrom
  <2> QED BY <1>5, <2>8 DEF more
<1> QED BY <1>4, <1>5

\* What is kept of a list is a list of its elements at the positions wanted, each once.
LEMMA KeptSelects ==
  ASSUME NEW S, NEW seq \in Seq(S), NEW wanted
  PROVE  KeptFrom(S, seq, wanted, Kept(seq, wanted), Len(seq))
<1>1. PICK upto : KeptUpto(seq, wanted, upto) /\ Kept(seq, wanted) = upto[Len(seq)]
  BY KeptExists
<1> DEFINE n == Len(seq)
           T == {i \in Nat : i <= n => KeptFrom(S, seq, wanted, upto[i], i)}
<1>2. n \in Nat
  OBVIOUS
<1>3. upto[0] = <<>> /\ \A i \in 1..n : upto[i] = IF i \in wanted THEN Append(upto[i - 1], seq[i]) ELSE upto[i - 1]
  <2>1. 0 \in 0..n /\ \A i \in 1..n : i \in 0..n /\ i # 0
    BY <1>2
  <2> QED BY <1>1, <2>1 DEF KeptUpto
<1>4. 0 \in T
  <2>1. <<>> \in Seq(S) /\ Len(<<>>) = 0
    OBVIOUS
  <2>2. KeptFrom(S, seq, wanted, <<>>, 0)
    <3>1. <<>> \in [1..0 -> wanted \cap 1..0]
      OBVIOUS
    <3>2. 1..0 = {}
      OBVIOUS
    <3> QED BY <2>1, <3>1, <3>2 DEF KeptFrom
  <2> QED BY <1>3, <2>2
<1>5. \A i \in Nat : i \in T => i + 1 \in T
  <2>1. SUFFICES ASSUME NEW i \in Nat, KeptFrom(S, seq, wanted, upto[i], i), i + 1 <= n
                 PROVE  KeptFrom(S, seq, wanted, upto[i + 1], i + 1)
    BY <1>2
  <2>2. i + 1 \in 1..Len(seq) /\ (i + 1) - 1 = i
    BY <1>2, <2>1
  <2>3. upto[i + 1] = IF i + 1 \in wanted THEN Append(upto[i], seq[i + 1]) ELSE upto[i]
    BY <1>3, <2>2
  <2> QED BY <2>1, <2>2, <2>3, KeptStep
<1>6. n \in T
  <2> HIDE DEF T
  <2> QED BY <1>2, <1>4, <1>5, SetInduction
<1> QED BY <1>1, <1>2, <1>6

\* What is kept is what the list has at the positions wanted, and when the paths at
\* these differ, so do those of the list kept.
LEMMA KeptProperties ==
  ASSUME NEW S, NEW seq \in Seq(S), NEW wanted
  PROVE  /\ Kept(seq, wanted) \in Seq(S)
         /\ \A k \in DOMAIN Kept(seq, wanted) : \E p \in wanted \cap DOMAIN seq : Kept(seq, wanted)[k] = seq[p]
         /\ \A p \in wanted \cap DOMAIN seq : seq[p] \in ToSet(Kept(seq, wanted))
         /\ (\A p, q \in wanted \cap DOMAIN seq : seq[p].path = seq[q].path => p = q)
              => DistinctPaths(Kept(seq, wanted))
<1> DEFINE kept == Kept(seq, wanted)
<1>1. KeptFrom(S, seq, wanted, kept, Len(seq))
  BY KeptSelects
<1> HIDE DEF kept
<1>2. kept \in Seq(S) /\ DOMAIN kept = 1..Len(kept) /\ DOMAIN seq = 1..Len(seq)
  BY <1>1 DEF KeptFrom
<1>3. PICK pos \in [1..Len(kept) -> wanted \cap 1..Len(seq)] :
        /\ \A k \in 1..Len(kept) : kept[k] = seq[pos[k]]
        /\ \A j, k \in 1..Len(kept) : pos[j] = pos[k] => j = k
        /\ \A p \in wanted \cap 1..Len(seq) : \E k \in 1..Len(kept) : pos[k] = p
  BY <1>1 DEF KeptFrom
<1>4. \A k \in DOMAIN kept : pos[k] \in wanted \cap DOMAIN seq /\ kept[k] = seq[pos[k]]
  BY <1>2, <1>3
<1>5. \A p \in wanted \cap DOMAIN seq : seq[p] \in ToSet(kept)
  <2>1. SUFFICES ASSUME NEW p \in wanted \cap DOMAIN seq PROVE seq[p] \in ToSet(kept)
    OBVIOUS
  <2>2. PICK k \in DOMAIN kept : pos[k] = p
    BY <1>2, <1>3
  <2> QED BY <1>4, <2>2 DEF ToSet
<1>6. ASSUME \A p, q \in wanted \cap DOMAIN seq : seq[p].path = seq[q].path => p = q
      PROVE  DistinctPaths(kept)
  <2>1. SUFFICES ASSUME NEW j \in DOMAIN kept, NEW k \in DOMAIN kept, kept[j].path = kept[k].path
                 PROVE  j = k
    BY DEF DistinctPaths
  <2>2. pos[j] = pos[k]
    BY <1>4, <1>6, <2>1
  <2> QED BY <1>2, <1>3, <2>1, <2>2
<1> QED BY <1>2, <1>4, <1>5, <1>6 DEF kept

\* The paths of what is kept are paths of the list.
LEMMA KeptPaths ==
  ASSUME NEW S, NEW seq \in Seq(S), NEW wanted
  PROVE  PathsOf(Kept(seq, wanted)) \subseteq {seq[p].path : p \in wanted \cap DOMAIN seq}
<1> DEFINE kept == Kept(seq, wanted)
<1>1. \A k \in DOMAIN kept : \E p \in wanted \cap DOMAIN seq : kept[k] = seq[p]
  BY KeptProperties
<1> HIDE DEF kept
<1>2. PathsOf(kept) \subseteq {seq[p].path : p \in wanted \cap DOMAIN seq}
  BY <1>1 DEF PathsOf
<1> QED BY <1>2 DEF kept

\* What a repository's file parses to: discovered applications of that repository.
LEMMA ParseTyped ==
  ASSUME CatalogueAssumption, NEW r \in Repos, NEW f \in Files \cup {NoFile}
  PROVE  ParseRepoConfig[r][f] \in Seq(Discovered)
<1> DEFINE entries == [i \in DOMAIN f |->
                        [name |-> f[i].name, path |-> f[i].path, pattern |-> f[i].pattern, source |-> r]]
<1>1. ParseRepoConfig[r][f] = IF f = NoFile THEN <<>> ELSE Kept(entries, ValidEntries(f))
  BY DEF ParseRepoConfig
<1>2. CASE f = NoFile
  BY <1>1, <1>2
<1>3. CASE f # NoFile
  <2>1. f \in Seq(Entry)
    BY <1>3 DEF CatalogueAssumption
  <2>2. DOMAIN f = 1..Len(f) /\ Len(f) \in Nat /\ \A i \in 1..Len(f) : f[i] \in Entry
    BY <2>1
  <2>3. \A e \in Entry : [name |-> e.name, path |-> e.path, pattern |-> e.pattern, source |-> r] \in Discovered
    BY DEF Entry, Discovered
  <2>4. \A i \in 1..Len(f) : [name |-> f[i].name, path |-> f[i].path, pattern |-> f[i].pattern, source |-> r] \in Discovered
    BY <2>2, <2>3
  <2>5. entries \in [1..Len(f) -> Discovered]
    BY <2>2, <2>4
  <2>6. entries \in Seq(Discovered)
    <3> HIDE DEF entries
    <3> QED BY <2>2, <2>5
  <2> HIDE DEF entries
  <2> QED BY <1>1, <1>3, <2>6, KeptProperties
<1> QED BY <1>2, <1>3

-----------------------------------------------------------------------------
(* The conflicts of what was found.                                        *)

Conflict == [name : Names, source : Repos]
Tally == [conflicts : SUBSET Conflict, claimed : SUBSET Paths]
Named(acc, d) == d.name \in {c.name : c \in acc.conflicts}

\* The function the conflicts are computed with.
DetectUpto(ops, found, after) ==
  after = [i \in 0..Len(found) |->
             IF i = 0 THEN [conflicts |-> {}, claimed |-> {}]
             ELSE Check(after[i - 1], ops, found[i])]

\* What is so of the first i entries: each is named in a conflict, or rivals none of
\* the operator's and has claimed its path; two that have one path are not both left;
\* a conflict is about an entry.
Detected(ops, found, acc, i) ==
  /\ acc \in Tally
  /\ \A c \in acc.conflicts : \E k \in 1..i : c = [name |-> found[k].name, source |-> found[k].source]
  /\ \A k \in 1..i : \/ Named(acc, found[k])
                     \/ /\ found[k].name \notin NamesOf(ops) /\ found[k].path \notin PathsOf(ops)
                        /\ found[k].path \in acc.claimed
  /\ \A j, k \in 1..i : j # k /\ found[j].path = found[k].path
                          => Named(acc, found[j]) \/ Named(acc, found[k])

\* Looking at one entry leaves a tally of claimed paths and conflicts.
LEMMA CheckTyped ==
  ASSUME NEW acc \in Tally, NEW ops, NEW d \in Discovered
  PROVE  Check(acc, ops, d) \in Tally
<1>1. [name |-> d.name, source |-> d.source] \in Conflict /\ d.path \in Paths
  BY DEF Discovered, Conflict
<1>2. acc.conflicts \subseteq Conflict /\ acc.claimed \subseteq Paths
  BY DEF Tally
<1> HIDE DEF Conflict
<1> QED BY <1>1, <1>2 DEF Check, Tally

\* The fold behind DetectConflicts: a tally after each entry, the last one its result.
LEMMA DetectExists ==
  ASSUME NEW ops, NEW found \in Seq(Discovered)
  PROVE  \E after : /\ DetectUpto(ops, found, after)
                    /\ DetectConflicts(ops, found) = after[Len(found)].conflicts
<1> DEFINE n == Len(found)
           start == [conflicts |-> {}, claimed |-> {}]
           step == [x \in Tally \X (1..n) |-> Check(x[1], ops, found[x[2]])]
<1>1. n \in Nat /\ \A i \in 1..n : found[i] \in Discovered
  OBVIOUS
<1>2. start \in Tally
  BY DEF Tally
<1>3. step \in [Tally \X (1..n) -> Tally]
  <2>1. \A acc \in Tally, i \in 1..n : Check(acc, ops, found[i]) \in Tally
    BY <1>1, CheckTyped
  <2> QED BY <2>1
<1>4. \A acc \in Tally, i \in 1..n : step[<<acc, i>>] = Check(acc, ops, found[i])
  OBVIOUS
<1> HIDE DEF step, n, start
<1>5. PICK f : IsFold(f, Tally, start, n, step)
  BY <1>1, <1>2, <1>3, FoldExists
<1>6. \A i \in 0..n : f[i] = IF i = 0 THEN start ELSE Check(f[i - 1], ops, found[i])
  <2>1. \A i \in 0..n : i = 0 \/ (i \in 1..n /\ i # 0 /\ i - 1 \in 0..n)
    BY <1>1
  <2>2. f \in [0..n -> Tally] /\ f[0] = start /\ \A i \in 1..n : f[i] = step[<<f[i - 1], i>>]
    BY <1>5 DEF IsFold
  <2> QED BY <1>4, <2>1, <2>2
<1>7. DetectUpto(ops, found, f)
  BY <1>5, <1>6 DEF DetectUpto, n, start, IsFold
<1> DEFINE g == CHOOSE after : DetectUpto(ops, found, after)
<1>8. DetectUpto(ops, found, g)
  BY <1>7
<1>9. DetectConflicts(ops, found) = g[Len(found)].conflicts
  BY DEF DetectConflicts, DetectUpto
<1> QED BY <1>8, <1>9

\* One more entry: it is named in a conflict, or its path becomes claimed by it alone.
LEMMA DetectStep ==
  ASSUME NEW ops, NEW found \in Seq(Discovered), NEW i \in 1..Len(found), NEW acc,
         Detected(ops, found, acc, i - 1)
  PROVE  Detected(ops, found, Check(acc, ops, found[i]), i)
<1> DEFINE d == found[i]
           new == Check(acc, ops, d)
           c0 == [name |-> d.name, source |-> d.source]
<1>1. d \in Discovered /\ acc \in Tally
  BY DEF Detected
<1>2. 1..i = (1..(i - 1)) \cup {i} /\ i \notin 1..(i - 1)
  OBVIOUS
<1>3. new \in Tally
  BY <1>1, CheckTyped
<1>4. /\ new.conflicts = IF ~Named(acc, d) /\ (d.name \in NamesOf(ops) \/ d.path \in PathsOf(ops) \cup acc.claimed)
                         THEN acc.conflicts \cup {c0} ELSE acc.conflicts
      /\ new.claimed = IF Named(acc, d) \/ d.name \in NamesOf(ops) \/ d.path \in PathsOf(ops) \cup acc.claimed
                       THEN acc.claimed ELSE acc.claimed \cup {d.path}
  BY <1>1 DEF Check, Named, Tally
<1>5. c0.name = d.name
  OBVIOUS
<1> HIDE DEF new
<1>6. /\ acc.conflicts \subseteq new.conflicts /\ acc.claimed \subseteq new.claimed
      /\ \A e : Named(acc, e) => Named(new, e)
  BY <1>4 DEF Named
<1>7. \/ Named(new, d)
      \/ /\ d.name \notin NamesOf(ops) /\ d.path \notin PathsOf(ops)
         /\ d.path \notin acc.claimed /\ d.path \in new.claimed
  <2>1. CASE Named(acc, d)
    BY <1>6, <2>1
  <2>2. CASE ~Named(acc, d) /\ (d.name \in NamesOf(ops) \/ d.path \in PathsOf(ops) \cup acc.claimed)
    <3>1. c0 \in new.conflicts
      BY <1>4, <2>2
    <3> QED BY <1>5, <3>1 DEF Named
  <2>3. CASE ~Named(acc, d) /\ ~(d.name \in NamesOf(ops) \/ d.path \in PathsOf(ops) \cup acc.claimed)
    BY <1>4, <2>3
  <2> QED BY <2>1, <2>2, <2>3
<1>8. \A c \in new.conflicts : \E k \in 1..i : c = [name |-> found[k].name, source |-> found[k].source]
  <2>1. SUFFICES ASSUME NEW c \in new.conflicts
                 PROVE  \E k \in 1..i : c = [name |-> found[k].name, source |-> found[k].source]
    OBVIOUS
  <2>2. c \in acc.conflicts \/ c = c0
    BY <1>4
  <2> QED BY <1>2, <2>2 DEF Detected
<1>9. \A k \in 1..i : \/ Named(new, found[k])
                      \/ /\ found[k].name \notin NamesOf(ops) /\ found[k].path \notin PathsOf(ops)
                         /\ found[k].path \in new.claimed
  BY <1>2, <1>6, <1>7 DEF Detected
<1>10. \A j, k \in 1..i : j # k /\ found[j].path = found[k].path
                           => Named(new, found[j]) \/ Named(new, found[k])
  <2>1. \A j \in 1..(i - 1) : found[j].path = d.path => Named(new, found[j]) \/ Named(new, d)
    <3>1. SUFFICES ASSUME NEW j \in 1..(i - 1), found[j].path = d.path
                   PROVE  Named(new, found[j]) \/ Named(new, d)
      OBVIOUS
    <3>2. Named(acc, found[j]) \/ found[j].path \in acc.claimed
      BY DEF Detected
    <3> HIDE DEF d
    <3> QED BY <1>6, <1>7, <3>1, <3>2
  <2>2. \A j, k \in 1..(i - 1) : j # k /\ found[j].path = found[k].path
                                   => Named(new, found[j]) \/ Named(new, found[k])
    BY <1>6 DEF Detected
  <2> QED BY <1>2, <2>1, <2>2
<1> QED BY <1>3, <1>8, <1>9, <1>10 DEF Detected, new

\* What DetectConflicts returns.
LEMMA DetectProperties ==
  ASSUME NEW ops, NEW found \in Seq(Discovered)
  PROVE  \E acc : DetectConflicts(ops, found) = acc.conflicts /\ Detected(ops, found, acc, Len(found))
<1>1. PICK after : DetectUpto(ops, found, after) /\ DetectConflicts(ops, found) = after[Len(found)].conflicts
  BY DetectExists
<1> DEFINE n == Len(found)
           T == {i \in Nat : i <= n => Detected(ops, found, after[i], i)}
<1>2. n \in Nat
  OBVIOUS
<1>3. /\ after[0] = [conflicts |-> {}, claimed |-> {}]
      /\ \A i \in 1..n : after[i] = Check(after[i - 1], ops, found[i])
  <2>1. 0 \in 0..n /\ \A i \in 1..n : i \in 0..n /\ i # 0
    BY <1>2
  <2> QED BY <1>1, <2>1 DEF DetectUpto
<1>4. 0 \in T
  <2>1. after[0] \in Tally /\ after[0].conflicts = {} /\ 1..0 = {}
    BY <1>3 DEF Tally
  <2>2. Detected(ops, found, after[0], 0)
    BY <2>1 DEF Detected
  <2> QED BY <2>2
<1>5. \A i \in Nat : i \in T => i + 1 \in T
  <2>1. SUFFICES ASSUME NEW i \in Nat, Detected(ops, found, after[i], i), i + 1 <= n
                 PROVE  Detected(ops, found, after[i + 1], i + 1)
    BY <1>2
  <2>2. i + 1 \in 1..Len(found) /\ (i + 1) - 1 = i
    BY <1>2, <2>1
  <2>3. after[i + 1] = Check(after[i], ops, found[i + 1])
    BY <1>3, <2>2
  <2> QED BY <2>1, <2>2, <2>3, DetectStep
<1>6. n \in T
  <2> HIDE DEF T
  <2> QED BY <1>2, <1>4, <1>5, SetInduction
<1> QED BY <1>1, <1>2, <1>6

-----------------------------------------------------------------------------
(* The list of repositories, and what is read from the cache.              *)

\* The members of a finite set can be listed from the largest value to the smallest.
Ordered(X, val, order) ==
  /\ order \in [1..Cardinality(X) -> X]
  /\ \A i, j \in 1..Cardinality(X) : i < j => order[i] # order[j] /\ val[order[i]] >= val[order[j]]

\* A finite set can be put in an order in which a value given to each never grows.
LEMMA OrderExists ==
  ASSUME NEW R, IsFiniteSet(R), NEW val \in [R -> Nat]
  PROVE  \E order : Ordered(R, val, order)
<1> DEFINE T == {n \in Nat : \A X \in SUBSET R : Cardinality(X) = n => \E order : Ordered(X, val, order)}
<1>1. \A X \in SUBSET R : IsFiniteSet(X) /\ Cardinality(X) \in Nat
  BY FS_Subset, FS_CardinalityType
<1>2. 0 \in T
  <2>1. SUFFICES ASSUME NEW X \in SUBSET R, Cardinality(X) = 0
                 PROVE  \E order : Ordered(X, val, order)
    OBVIOUS
  <2>2. <<>> \in [1..0 -> X] /\ 1..0 = {}
    OBVIOUS
  <2>3. Ordered(X, val, <<>>)
    BY <2>1, <2>2 DEF Ordered
  <2> QED BY <2>3
<1>3. \A n \in Nat : n \in T => n + 1 \in T
  <2>1. SUFFICES ASSUME NEW n \in Nat, n \in T, NEW X \in SUBSET R, Cardinality(X) = n + 1
                 PROVE  \E order : Ordered(X, val, order)
    OBVIOUS
  <2> DEFINE V == {val[x] : x \in X}
  <2>2. V \subseteq Nat /\ V # {}
    <3>1. X # {}
      BY <2>1, FS_EmptySet
    <3> QED BY <3>1
  <2>3. PICK m \in V : \A k \in V : m <= k
    <3> HIDE DEF V
    <3> QED BY <2>2, LeastNumber
  <2>4. PICK x \in X : \A y \in X : val[x] <= val[y]
    BY <2>3
  <2> HIDE DEF V
  <2> DEFINE Y == X \ {x}
  <2>5. Y \in SUBSET R /\ Cardinality(Y) = n
    <3>1. IsFiniteSet(X) /\ x \in X
      BY <1>1
    <3>2. Cardinality(Y) = Cardinality(X) - 1
      BY <3>1, FS_RemoveElement
    <3> QED BY <2>1, <3>2
  <2>6. PICK before : Ordered(Y, val, before)
    <3> HIDE DEF Y
    <3> QED BY <2>1, <2>5
  <2>7. /\ before \in [1..n -> Y]
        /\ \A i, j \in 1..n : i < j => before[i] # before[j] /\ val[before[i]] >= val[before[j]]
    BY <2>5, <2>6 DEF Ordered
  <2> DEFINE order == [i \in 1..(n + 1) |-> IF i = n + 1 THEN x ELSE before[i]]
  <2>8. 1..(n + 1) = (1..n) \cup {n + 1} /\ n + 1 \notin 1..n
    OBVIOUS
  <2>9. order \in [1..(n + 1) -> X] /\ order[n + 1] = x /\ \A i \in 1..n : order[i] = before[i] /\ order[i] \in Y
    BY <2>7, <2>8
  <2> HIDE DEF order
  <2>10. ASSUME NEW i \in 1..(n + 1), NEW j \in 1..(n + 1), i < j
         PROVE  order[i] # order[j] /\ val[order[i]] >= val[order[j]]
    <3>1. i \in 1..n
      BY <2>10
    <3>2. CASE j = n + 1
      <4>1. order[i] \in X /\ order[i] # x /\ order[j] = x
        BY <2>9, <3>1, <3>2
      <4>2. val[x] <= val[order[i]] /\ val[x] \in Nat /\ val[order[i]] \in Nat
        BY <2>4, <4>1
      <4> QED BY <4>1, <4>2
    <3>3. CASE j \in 1..n
      BY <2>7, <2>9, <2>10, <3>1, <3>3
    <3> QED BY <2>8, <3>2, <3>3
  <2>11. Ordered(X, val, order)
    BY <2>1, <2>9, <2>10 DEF Ordered
  <2> QED BY <2>11
<1>4. Cardinality(R) \in T
  <2> HIDE DEF T
  <2> QED BY <1>1, <1>2, <1>3, SetInduction
<1> QED BY <1>4

\* There is an order of the last pushes.
LEMMA ByLastPushTyped ==
  ASSUME CatalogueAssumption, TypeOK, NEW R \in SUBSET Repos
  PROVE  ByLastPush(R) \in Seq(R)
<1> DEFINE val == [r \in R |-> repo[r].pushed]
           n == Cardinality(R)
           Fits(order) == \A i, j \in 1..n :
                            i < j => order[i] # order[j] /\ repo[order[i]].pushed >= repo[order[j]].pushed
<1>1. IsFiniteSet(R) /\ n \in Nat
  BY FS_Subset, FS_CardinalityType DEF CatalogueAssumption
<1>2. val \in [R -> Nat]
  <2>1. \A r \in Repos : repo[r].pushed \in 0..happened
    BY DEF TypeOK, OrganisationTyped
  <2>2. 0..happened \subseteq Nat
    BY DEF TypeOK, OrganisationTyped, CatalogueAssumption
  <2> QED BY <2>1, <2>2
<1>3. PICK order : Ordered(R, val, order)
  <2> HIDE DEF val
  <2> QED BY <1>1, <1>2, OrderExists
<1>4. order \in [1..n -> R] /\ Fits(order)
  <2>1. order \in [1..n -> R]
    BY <1>3 DEF Ordered
  <2>2. \A i \in 1..n : val[order[i]] = repo[order[i]].pushed
    BY <2>1
  <2> QED BY <1>3, <2>1, <2>2 DEF Ordered
<1>5. ByLastPush(R) = CHOOSE o \in [1..n -> R] : Fits(o)
  BY DEF ByLastPush
<1>6. ByLastPush(R) \in [1..n -> R]
  <2> HIDE DEF Fits, n
  <2> QED BY <1>4, <1>5
<1> QED BY <1>1, <1>6

\* The function a list of lists is flattened with.
FlattenUpto(seqs, upto) ==
  upto = [i \in 1..Len(seqs) |-> IF i = 1 THEN seqs[i] ELSE upto[i - 1] \o seqs[i]]

\* The files of several repositories, one after the other, are a sequence of entries.
LEMMA FlattenTyped ==
  ASSUME NEW S, NEW seqs \in Seq(Seq(S))
  PROVE  FlattenSeq(seqs) \in Seq(S)
<1> DEFINE n == Len(seqs)
           none == <<>>
           A == Seq(S)
           step == [x \in A \X (1..n) |-> x[1] \o seqs[x[2]]]
<1>1. n \in Nat /\ \A i \in 1..n : seqs[i] \in A
  OBVIOUS
<1>2. none \in A
  OBVIOUS
<1>3. CASE n = 0
  <2>1. seqs = <<>>
    BY <1>3
  <2> QED BY <2>1 DEF FlattenSeq
<1>4. CASE n # 0
  <2>1. step \in [A \X (1..n) -> A]
    <3>1. \A l \in A, i \in 1..n : l \o seqs[i] \in A
      BY <1>1, ConcatProperties
    <3> QED BY <3>1
  <2>2. \A l \in A, i \in 1..n : step[<<l, i>>] = l \o seqs[i]
    OBVIOUS
  <2> HIDE DEF step, n, A, none
  <2>3. PICK f : IsFold(f, A, none, n, step)
    BY <1>1, <1>2, <2>1, FoldExists
  <2>4. f \in [0..n -> A] /\ f[0] = none /\ \A i \in 1..n : f[i] = f[i - 1] \o seqs[i]
    <3>1. f \in [0..n -> A] /\ f[0] = none /\ \A i \in 1..n : f[i] = step[<<f[i - 1], i>>]
      BY <2>3 DEF IsFold
    <3>2. \A i \in 1..n : f[i - 1] \in A
      <4>1. \A i \in 1..n : i - 1 \in 0..n
        BY <1>1
      <4> QED BY <3>1, <4>1
    <3> QED BY <2>2, <3>1, <3>2
  <2> DEFINE g == [i \in 1..n |-> f[i]]
  <2>5. \A i \in 1..n : g[i] = IF i = 1 THEN seqs[i] ELSE g[i - 1] \o seqs[i]
    <3>1. 1 \in 1..n /\ \A i \in 1..n : i # 1 => i - 1 \in 1..n
      BY <1>1, <1>4
    <3>2. f[1] = seqs[1]
      <4>1. f[1] = none \o seqs[1]
        <5>1. \A i \in 1..n : f[i] = f[i - 1] \o seqs[i]
          BY <2>4
        <5>2. f[1] = f[1 - 1] \o seqs[1]
          BY <3>1, <5>1
        <5>3. 1 - 1 = 0
          OBVIOUS
        <5> QED BY <2>4, <5>2, <5>3
      <4>2. seqs[1] \in Seq(S)
        BY <1>1, <3>1 DEF A
      <4> QED BY <4>1, <4>2, ConcatEmptySeq DEF none
    <3> QED BY <2>4, <3>1, <3>2
  <2>6. FlattenUpto(seqs, g)
    BY <2>5 DEF FlattenUpto, n
  <2> DEFINE h == CHOOSE upto : FlattenUpto(seqs, upto)
  <2>7. FlattenUpto(seqs, h)
    BY <2>6
  <2>8. FlattenSeq(seqs) = h[n]
    BY <1>4 DEF FlattenSeq, FlattenUpto, n
  <2> HIDE DEF h, g
  <2> DEFINE T == {i \in Nat : i \in 1..n => h[i] \in A}
  <2>9. \A i \in 1..n : h[i] = IF i = 1 THEN seqs[i] ELSE h[i - 1] \o seqs[i]
    BY <2>7 DEF FlattenUpto, n
  <2>10. 0 \in T
    OBVIOUS
  <2>11. \A i \in Nat : i \in T => i + 1 \in T
    <3>1. SUFFICES ASSUME NEW i \in Nat, i \in T, i + 1 \in 1..n PROVE h[i + 1] \in A
      OBVIOUS
    <3>2. seqs[i + 1] \in A
      BY <1>1, <3>1
    <3>3. CASE i = 0
      BY <2>9, <3>1, <3>2, <3>3
    <3>4. CASE i # 0
      <4>1. i \in 1..n /\ h[i + 1] = h[i] \o seqs[i + 1]
        <5>1. i \in 1..n /\ i + 1 # 1 /\ (i + 1) - 1 = i
          BY <1>1, <3>1, <3>4
        <5>2. h[i + 1] = h[(i + 1) - 1] \o seqs[i + 1]
          BY <2>9, <3>1, <5>1
        <5> QED BY <5>1, <5>2
      <4>2. h[i] \in A
        BY <3>1, <4>1
      <4> QED BY <3>2, <4>1, <4>2, ConcatProperties DEF A
    <3> QED BY <3>3, <3>4
  <2>12. n \in T
    <3> HIDE DEF T
    <3> QED BY <1>1, <2>10, <2>11, SetInduction
  <2> QED BY <1>1, <1>4, <2>8, <2>12 DEF A
<1> QED BY <1>3, <1>4

\* The config: the operator's entries, and those discovered whose names are not taken.
LEMMA MergeProperties ==
  ASSUME NEW primary \in Seq(App), NEW discovered \in Seq(Discovered)
  PROVE  /\ MergeApps(primary, discovered) \in Seq(App)
         /\ DistinctPaths(primary) /\ DistinctPaths(discovered) /\ PathsOf(primary) \cap PathsOf(discovered) = {}
              => DistinctPaths(MergeApps(primary, discovered))
<1> DEFINE taken(i) == \/ discovered[i].name \in NamesOf(primary)
                       \/ \E j \in 1..(i - 1) : discovered[j].name = discovered[i].name
           wanted == {i \in DOMAIN discovered : ~taken(i)}
           kept == Kept(discovered, wanted)
<1>1. MergeApps(primary, discovered) = primary \o kept
  BY DEF MergeApps
<1>2. discovered \in Seq(App)
  <2>1. Discovered \subseteq App
    BY DEF Discovered, App
  <2> QED BY <2>1, SeqMonotonic
<1> HIDE DEF wanted
<1>3. /\ kept \in Seq(App)
      /\ \A k \in DOMAIN kept : \E p \in wanted \cap DOMAIN discovered : kept[k] = discovered[p]
      /\ DistinctPaths(discovered) => DistinctPaths(kept)
  BY <1>2, KeptProperties DEF DistinctPaths
<1> HIDE DEF kept
<1> DEFINE m == Len(primary)
           l == Len(kept)
           both == primary \o kept
<1>4. /\ both \in Seq(App) /\ m \in Nat /\ l \in Nat /\ Len(both) = m + l
      /\ \A i \in 1..(m + l) : both[i] = IF i <= m THEN primary[i] ELSE kept[i - m]
  BY <1>3, ConcatProperties
<1>5. DOMAIN both = 1..(m + l) /\ DOMAIN primary = 1..m /\ DOMAIN kept = 1..l
  BY <1>3, <1>4
<1> HIDE DEF both, m, l
<1>6. ASSUME DistinctPaths(primary), DistinctPaths(discovered), PathsOf(primary) \cap PathsOf(discovered) = {}
      PROVE  DistinctPaths(both)
  <2>1. \A i \in 1..m, j \in 1..l : primary[i].path # kept[j].path
    <3>1. \A j \in 1..l : kept[j].path \in PathsOf(discovered)
      BY <1>3, <1>5 DEF PathsOf
    <3>2. \A i \in 1..m : primary[i].path \in PathsOf(primary)
      BY <1>5 DEF PathsOf
    <3> QED BY <1>6, <3>1, <3>2
  <2>2. SUFFICES ASSUME NEW i \in 1..(m + l), NEW j \in 1..(m + l), both[i].path = both[j].path
                 PROVE  i = j
    BY <1>5 DEF DistinctPaths
  <2>3. \A k \in 1..(m + l) : \/ k \in 1..m /\ both[k] = primary[k]
                              \/ k - m \in 1..l /\ k \notin 1..m /\ both[k] = kept[k - m]
    BY <1>4
  <2>4. CASE i \in 1..m /\ j \in 1..m
    BY <1>5, <1>6, <2>2, <2>3, <2>4 DEF DistinctPaths
  <2>5. CASE i \notin 1..m /\ j \notin 1..m
    <3>1. i - m \in 1..l /\ j - m \in 1..l /\ kept[i - m].path = kept[j - m].path
      BY <2>2, <2>3, <2>5
    <3>2. i - m = j - m
      BY <1>3, <1>5, <1>6, <3>1 DEF DistinctPaths
    <3> QED BY <1>4, <3>2
  <2>6. CASE i \in 1..m /\ j \notin 1..m
    BY <2>1, <2>2, <2>3, <2>6
  <2>7. CASE i \notin 1..m /\ j \in 1..m
    BY <2>1, <2>2, <2>3, <2>7
  <2> QED BY <2>4, <2>5, <2>6, <2>7
<1> QED BY <1>1, <1>4, <1>6 DEF both

-----------------------------------------------------------------------------
(* Types.                                                                  *)

\* The count of happenings does not go down, so that what was bounded by it stays so.
LEMMA HappenedGrows ==
  ASSUME CatalogueAssumption, OrganisationTyped, NEW n \in Nat, Happens(n)
  PROVE  /\ happened' \in 0..MaxHappenings /\ happened' = happened + n /\ happened \in Nat
         /\ 0..happened \subseteq 0..happened' /\ -1..happened \subseteq -1..happened'
  BY DEF CatalogueAssumption, OrganisationTyped, Happens

\* A scan ends with finitely many calls.
LEMMA FinitelyManyCalls ==
  ASSUME CatalogueAssumption PROVE IsFiniteSet(Calls)
<1>1. IsFiniteSet({"message"}) /\ IsFiniteSet({"configmap"}) /\ IsFiniteSet(Repos)
  BY FS_Singleton DEF CatalogueAssumption
<1>2. Calls = ({"message"} \cup {"configmap"}) \cup Repos
  BY DEF Calls
<1> QED BY <1>1, <1>2, FS_Union

TrackerType == [warned : SUBSET Names, told : SUBSET Names, lastWarn : BOOLEAN]

\* The tracker is told of names only, and whom a message reached was warned about.
LEMMA TrackerTyped ==
  ASSUME channel \in TrackerType, channel.told \subseteq channel.warned,
         NEW names \in SUBSET Names, NEW cooling \in BOOLEAN, NEW posted \in BOOLEAN
  PROVE  LET c == EmitWarnings(names, cooling, posted) IN
         c \in TrackerType /\ c.told \subseteq c.warned
<1>1. Warn(names, posted) \in TrackerType /\ Warn(names, posted).told \subseteq Warn(names, posted).warned
  BY DEF Warn, TrackerType
<1>2. Forget(names) \in TrackerType /\ Forget(names).told \subseteq Forget(names).warned
  BY DEF Forget, TrackerType
<1> QED BY <1>1, <1>2 DEF EmitWarnings

\* The receiver's part is typed by the count too.
LEMMA ReceiverStays ==
  ASSUME ReceiverTyped, UNCHANGED <<receiver, scan, channel, published>>,
         0..happened \subseteq 0..happened', -1..happened \subseteq -1..happened'
  PROVE  ReceiverTyped'
<1>1. receiver \in [cfg : OperatorFiles, pushedAt : [Repos -> -1..happened'],
                  content : [Repos -> Files \cup {NoFile}]]
  BY DEF ReceiverTyped
<1>2. scan \in [on : BOOLEAN, seen : SUBSET Repos, todo : [DOMAIN scan.todo -> 0..happened'],
              found : Seq(Discovered)]
  BY DEF ReceiverTyped
<1> QED BY <1>1, <1>2 DEF ReceiverTyped

\* The organisation's part, when the operator and the repositories do nothing.
LEMMA OrganisationStays ==
  ASSUME OrganisationTyped, UNCHANGED <<repo, status, operator>>,
         happened' \in 0..MaxHappenings, 0..happened \subseteq 0..happened'
  PROVE  OrganisationTyped'
<1>1. repo \in [Repos -> [file : Files \cup {NoFile}, pushed : 0..happened', listed : BOOLEAN]]
  BY DEF OrganisationTyped
<1>2. operator \in [apps : OperatorFiles \cup {BadFile}, mtime : 0..happened']
  BY DEF OrganisationTyped
<1> QED BY <1>1, <1>2 DEF OrganisationTyped

\* Pushes, archivings and writes of the operator's file.
LEMMA OrganisationKeepsTypes ==
  ASSUME CatalogueAssumption, TypeOK,
         \/ \E r \in Repos : Unlist(r) \/ \E f \in Files \cup {NoFile} : Push(r, f)
         \/ \E apps \in OperatorFiles \cup {BadFile} : EditOperatorFile(apps)
  PROVE  TypeOK'
<1> USE DEF TypeOK
<1>1. /\ happened' \in 0..MaxHappenings /\ happened' = happened + 1 /\ happened \in Nat
      /\ 0..happened \subseteq 0..happened' /\ -1..happened \subseteq -1..happened'
  <2>1. Happens(1)
    BY DEF Unlist, Push, EditOperatorFile
  <2> QED BY <2>1, HappenedGrows
<1>2. UNCHANGED <<receiver, scan, channel, published, mounted>>
  BY DEF Unlist, Push, EditOperatorFile
<1>3. ReceiverTyped'
  BY <1>1, <1>2, ReceiverStays
<1>4. repo' \in [Repos -> [file : Files \cup {NoFile}, pushed : 0..happened', listed : BOOLEAN]]
  <2>0. repo \in [Repos -> [file : Files \cup {NoFile}, pushed : 0..happened', listed : BOOLEAN]]
    BY <1>1 DEF OrganisationTyped
  <2>1. CASE \E r \in Repos : Unlist(r)
    <3>1. PICK r \in Repos : repo' = [repo EXCEPT ![r].listed = FALSE]
      BY <2>1 DEF Unlist
    <3> QED BY <2>0, <3>1
  <2>2. CASE \E r \in Repos, f \in Files \cup {NoFile} : Push(r, f)
    <3>1. PICK r \in Repos, f \in Files \cup {NoFile} :
            repo' = [repo EXCEPT ![r] = [@ EXCEPT !.file = f, !.pushed = happened + 1]]
      BY <2>2 DEF Push
    <3>2. happened + 1 \in 0..happened'
      BY <1>1
    <3> QED BY <2>0, <3>1, <3>2
  <2>3. CASE \E apps \in OperatorFiles \cup {BadFile} : EditOperatorFile(apps)
    BY <2>0, <2>3 DEF EditOperatorFile
  <2> QED BY <2>1, <2>2, <2>3
<1>5. operator' \in [apps : OperatorFiles \cup {BadFile}, mtime : 0..happened']
  <2>0. operator \in [apps : OperatorFiles \cup {BadFile}, mtime : 0..happened]
    BY DEF OrganisationTyped
  <2>1. CASE \E apps \in OperatorFiles \cup {BadFile} : EditOperatorFile(apps)
    <3>1. PICK apps \in OperatorFiles \cup {BadFile} : operator' = [apps |-> apps, mtime |-> operator.mtime + 1]
      BY <2>1 DEF EditOperatorFile
    <3>2. operator.mtime + 1 \in 0..happened'
      BY <1>1, <2>0
    <3> QED BY <3>1, <3>2
  <2>2. CASE UNCHANGED operator
    BY <1>1, <2>0, <2>2
  <2> QED BY <2>1, <2>2 DEF Unlist, Push
<1>6. OrganisationTyped'
  <2>1. status' \in [Repos -> {"none", "success", "failure"}]
    BY DEF OrganisationTyped, Unlist, Push, EditOperatorFile
  <2> QED BY <1>1, <1>4, <1>5, <2>1 DEF OrganisationTyped
<1>7. WorkerTyped'
  <2>1. bot' = [bot EXCEPT !.hit = bot.hit \/ bot.pc \in {"merge", "stat"}] \/ bot' = bot
    BY DEF Unlist, Push, EditOperatorFile, Written
  <2> QED BY <1>2, <2>1 DEF WorkerTyped
<1> QED BY <1>3, <1>6, <1>7

\* The mount and the worker.
LEMMA WorkerKeepsTypes ==
  ASSUME CatalogueAssumption, TypeOK, Mount \/ Worker \/ Sighup \/ RestartBot
  PROVE  TypeOK'
<1> USE DEF TypeOK
<1>1. /\ happened' \in 0..MaxHappenings
      /\ 0..happened \subseteq 0..happened' /\ -1..happened \subseteq -1..happened'
  <2>1. Happens(1) \/ UNCHANGED happened
    BY DEF Mount, Worker, Tick, MergeDiscovered, StatFiles, Sighup, RestartBot
  <2>2. CASE Happens(1)
    BY <2>2, HappenedGrows
  <2>3. CASE UNCHANGED happened
    BY <2>3 DEF OrganisationTyped
  <2> QED BY <2>1, <2>2, <2>3
<1>2. UNCHANGED <<receiver, scan, channel, published, repo, status, operator>>
  BY DEF Mount, Worker, Tick, ReadPrimary, MergeDiscovered, StatFiles, Sighup, RestartBot
<1>3. ReceiverTyped' /\ OrganisationTyped'
  BY <1>1, <1>2, ReceiverStays, OrganisationStays
<1>4. operator.mtime \in Nat /\ mounted.mtime \in Nat /\ mounted.apps \in Seq(Discovered)
  BY DEF OrganisationTyped, WorkerTyped, CatalogueAssumption
<1>5. operator.apps # BadFile => operator.apps \in Seq(App)
  BY DEF OrganisationTyped, CatalogueAssumption
<1>6. \A apps \in Seq(App), cached \in SUBSET (Names \X Patterns) : AddApps(cached, apps) \in SUBSET (Names \X Patterns)
  <2>1. SUFFICES ASSUME NEW apps \in Seq(App), NEW cached \in SUBSET (Names \X Patterns)
                 PROVE  AddApps(cached, apps) \subseteq Names \X Patterns
    OBVIOUS
  <2>2. \A i \in DOMAIN apps : apps[i].name \in Names /\ apps[i].pattern \in Patterns
    <3>1. \A i \in DOMAIN apps : apps[i] \in App
      OBVIOUS
    <3> QED BY <3>1 DEF App
  <2> QED BY <2>2 DEF AddApps
<1>7. <<>> \in Seq(App)
  OBVIOUS
<1>8. WorkerTyped'
  <2>1. CASE Mount
    <3>1. /\ mounted' = [apps |-> published, mtime |-> mounted.mtime + 1]
          /\ bot' = [bot EXCEPT !.hit = bot.hit \/ bot.pc \in {"merge", "stat"}]
      BY <2>1 DEF Mount, Written
    <3>2. mounted' \in [apps : Seq(Discovered), mtime : Nat]
      BY <1>4, <3>1 DEF ReceiverTyped
    <3> QED BY <3>1, <3>2 DEF WorkerTyped
  <2>2. CASE ReadPrimary
    BY <1>5, <2>2 DEF ReadPrimary, WorkerTyped
  <2>3. CASE MergeDiscovered
    <3>1. MergeApps(bot.got, mounted.apps) \in Seq(App)
      <4>1. bot.got \in Seq(App)
        BY DEF WorkerTyped
      <4> QED BY <1>4, <4>1, MergeProperties
    <3> QED BY <1>7, <2>3, <3>1 DEF MergeDiscovered, WorkerTyped
  <2>4. CASE StatFiles
    <3>1. AddApps(bot.cached, bot.cfg) \in SUBSET (Names \X Patterns)
      BY <1>6 DEF WorkerTyped
    <3> QED BY <1>4, <2>4, <3>1 DEF StatFiles, WorkerTyped
  <2>5. CASE RestartBot
    <3> DEFINE apps == MergeApps(operator.apps, mounted.apps)
               known == AddApps({}, apps)
    <3>1. apps \in Seq(App)
      BY <1>4, <1>5, <2>5, MergeProperties DEF RestartBot
    <3>2. known \in SUBSET (Names \X Patterns)
      <4> HIDE DEF apps
      <4> QED BY <1>6, <3>1
    <3>3. /\ bot' = [bot EXCEPT !.pc = "stat", !.hit = FALSE, !.cfg = apps, !.got = <<>>, !.cached = known]
          /\ mounted' = mounted
      BY <2>5 DEF RestartBot
    <3> HIDE DEF apps, known
    <3> QED BY <1>7, <3>1, <3>2, <3>3 DEF WorkerTyped
  <2> QED BY <2>1, <2>2, <2>3, <2>4, <2>5 DEF Worker, Tick, Sighup
<1> QED BY <1>3, <1>8

\* The scanner and a restart of the receiver.
LEMMA ReceiverKeepsTypes ==
  ASSUME CatalogueAssumption, TypeOK, Scanner \/ RestartReceiver
  PROVE  TypeOK'
<1> USE DEF TypeOK
<1>1. happened \in Nat /\ happened \in 0..MaxHappenings /\ <<>> \in Seq(Discovered)
  BY DEF OrganisationTyped, CatalogueAssumption
<1>2. UNCHANGED <<repo, operator, mounted, bot>>
  BY DEF Scanner, StartScan, Fetch, FinishScan, RestartReceiver
<1>3. WorkerTyped'
  BY <1>2 DEF WorkerTyped
<1>4. /\ receiver \in [cfg : OperatorFiles, pushedAt : [Repos -> -1..happened],
                     content : [Repos -> Files \cup {NoFile}]]
      /\ repo \in [Repos -> [file : Files \cup {NoFile}, pushed : 0..happened, listed : BOOLEAN]]
  BY DEF ReceiverTyped, OrganisationTyped
<1>5. CASE StartScan
  <2> DEFINE fresh  == {r \in ListRepos : repo[r].pushed > receiver.pushedAt[r]}
             cached == ByLastPush({r \in ListRepos \ fresh : receiver.content[r] # NoFile})
             todo   == [r \in fresh |-> repo[r].pushed]
             parsed == [i \in DOMAIN cached |-> ParseRepoConfig[cached[i]][receiver.content[cached[i]]]]
  <2>1. /\ scan' = [on |-> TRUE, seen |-> ListRepos, todo |-> todo, found |-> FlattenSeq(parsed)]
        /\ UNCHANGED <<status, receiver, channel, published, happened>>
    BY <1>5 DEF StartScan
  <2>2. cached \in Seq(Repos)
    <3>1. {r \in ListRepos \ fresh : receiver.content[r] # NoFile} \in SUBSET Repos
      BY DEF ListRepos
    <3>2. cached \in Seq({r \in ListRepos \ fresh : receiver.content[r] # NoFile})
      BY <3>1, ByLastPushTyped
    <3> QED BY <3>1, <3>2, SeqMonotonic
  <2>3. parsed \in Seq(Seq(Discovered))
    <3> HIDE DEF cached
    <3>1. \A i \in DOMAIN cached : cached[i] \in Repos /\ receiver.content[cached[i]] \in Files \cup {NoFile}
      BY <1>4, <2>2
    <3>2. \A i \in DOMAIN cached : ParseRepoConfig[cached[i]][receiver.content[cached[i]]] \in Seq(Discovered)
      BY <3>1, ParseTyped
    <3>3. DOMAIN cached = 1..Len(cached) /\ Len(cached) \in Nat
      BY <2>2
    <3>4. parsed \in [1..Len(cached) -> Seq(Discovered)]
      BY <3>2, <3>3
    <3> HIDE DEF parsed
    <3> QED BY <3>3, <3>4
  <2>4. FlattenSeq(parsed) \in Seq(Discovered)
    <3> HIDE DEF parsed
    <3> QED BY <2>3, FlattenTyped
  <2>5. todo \in [fresh -> 0..happened] /\ fresh \subseteq ListRepos /\ ListRepos \subseteq Repos
    BY <1>4 DEF ListRepos
  <2>6. OrganisationTyped'
    BY <1>1, <1>2, <2>1 DEF OrganisationTyped
  <2> HIDE DEF parsed, cached, todo, fresh
  <2>7. ReceiverTyped'
    BY <2>1, <2>4, <2>5 DEF ReceiverTyped
  <2> QED BY <1>3, <2>6, <2>7
<1>6. ASSUME NEW r \in Repos, NEW fails \in BOOLEAN, Fetch(r, fails)
      PROVE  TypeOK'
  <2> DEFINE content == FetchConfigFile(r, fails)
             todo == [s \in DOMAIN scan.todo \ {r} |-> scan.todo[s]]
             found == scan.found \o ParseRepoConfig[r][content]
  <2>1. /\ happened' \in 0..MaxHappenings
        /\ 0..happened \subseteq 0..happened' /\ -1..happened \subseteq -1..happened'
    <3>1. PICK n \in Nat : Happens(n)
      BY <1>6 DEF Fetch
    <3> QED BY <3>1, HappenedGrows
  <2>2. /\ r \in DOMAIN scan.todo
        /\ receiver' = [receiver EXCEPT !.pushedAt[r] = scan.todo[r], !.content[r] = content]
        /\ scan' = [scan EXCEPT !.todo = todo, !.found = found]
        /\ UNCHANGED <<status, channel, published>>
    BY <1>6 DEF Fetch
  <2>3. content \in Files \cup {NoFile}
    BY <1>4 DEF FetchConfigFile
  <2>4. found \in Seq(Discovered)
    <3> HIDE DEF content
    <3>1. ParseRepoConfig[r][content] \in Seq(Discovered)
      BY <2>3, ParseTyped
    <3>2. scan.found \in Seq(Discovered)
      BY DEF ReceiverTyped
    <3> QED BY <3>1, <3>2, ConcatProperties
  <2>5. scan.todo \in [DOMAIN scan.todo -> 0..happened]
    BY DEF ReceiverTyped
  <2>6. todo \in [DOMAIN scan.todo \ {r} -> 0..happened'] /\ scan.todo[r] \in -1..happened'
    BY <2>1, <2>2, <2>5
  <2> HIDE DEF content, found
  <2>7. receiver' \in [cfg : OperatorFiles, pushedAt : [Repos -> -1..happened'],
                     content : [Repos -> Files \cup {NoFile}]]
    <3>1. receiver \in [cfg : OperatorFiles, pushedAt : [Repos -> -1..happened'],
                      content : [Repos -> Files \cup {NoFile}]]
      BY <1>4, <2>1
    <3> QED BY <2>2, <2>3, <2>6, <3>1
  <2>8. DOMAIN todo = DOMAIN scan.todo \ {r}
    OBVIOUS
  <2> HIDE DEF todo
  <2>9. /\ scan' \in [on : BOOLEAN, seen : SUBSET Repos, todo : [DOMAIN scan'.todo -> 0..happened'],
                    found : Seq(Discovered)]
        /\ DOMAIN scan'.todo \subseteq scan'.seen
    <3>1. /\ scan \in [on : BOOLEAN, seen : SUBSET Repos, todo : {scan.todo}, found : Seq(Discovered)]
          /\ DOMAIN scan.todo \subseteq scan.seen
      BY DEF ReceiverTyped
    <3>2. scan'.todo = todo /\ scan'.seen = scan.seen
      BY <2>2, <3>1
    <3> QED BY <2>2, <2>4, <2>6, <2>8, <3>1, <3>2
  <2>10. ReceiverTyped'
    BY <2>2, <2>7, <2>9 DEF ReceiverTyped
  <2>11. OrganisationTyped'
    BY <1>2, <2>1, <2>2, OrganisationStays
  <2> QED BY <1>3, <2>10, <2>11
<1>7. ASSUME NEW lost \in SUBSET Calls, NEW cooling \in BOOLEAN, FinishScan(lost, cooling)
      PROVE  TypeOK'
  <2> DEFINE clashes == DetectConflicts(receiver.cfg, scan.found)
             names   == {c.name : c \in clashes}
             clean   == Kept(scan.found, {i \in DOMAIN scan.found : scan.found[i].name \notin names})
  <2>1. /\ happened' \in 0..MaxHappenings
        /\ 0..happened \subseteq 0..happened' /\ -1..happened \subseteq -1..happened'
    <3>1. Cardinality(lost) \in Nat /\ Happens(Cardinality(lost))
      <4>1. IsFiniteSet(lost)
        BY FinitelyManyCalls, FS_Subset
      <4>2. Cardinality(lost) \in Nat
        BY <4>1, FS_CardinalityType
      <4> QED BY <1>7, <4>2 DEF FinishScan
    <3> QED BY <3>1, HappenedGrows
  <2>2. scan.found \in Seq(Discovered)
    BY DEF ReceiverTyped
  <2>3. names \subseteq Names
    <3>1. PICK acc : clashes = acc.conflicts /\ Detected(receiver.cfg, scan.found, acc, Len(scan.found))
      BY <2>2, DetectProperties
    <3>2. clashes \subseteq Conflict
      BY <3>1 DEF Detected, Tally
    <3> HIDE DEF clashes
    <3> QED BY <3>2 DEF Conflict
  <2>4. clean \in Seq(Discovered)
    BY <2>2, KeptProperties
  <2> HIDE DEF names, clean
  <2>5. /\ channel' = EmitWarnings(names, cooling, "message" \notin lost)
        /\ published' = WriteConfigMap(clean, "configmap" \in lost)
        /\ status' = SetCommitStatuses(scan.found, clashes, lost)
        /\ scan' = [on |-> FALSE, seen |-> {}, todo |-> <<>>, found |-> <<>>]
    BY <1>7 DEF FinishScan, names, clean
  <2>6. PICK gone \in SUBSET Repos :
          receiver' = [receiver EXCEPT
            !.content  = [r \in Repos |-> IF r \in gone THEN NoFile ELSE receiver.content[r]],
            !.pushedAt = [r \in Repos |-> IF r \in gone THEN Never ELSE receiver.pushedAt[r]]]
    BY <1>7 DEF FinishScan
  <2>7. receiver' \in [cfg : OperatorFiles, pushedAt : [Repos -> -1..happened'],
                     content : [Repos -> Files \cup {NoFile}]]
    <3>1. Never \in -1..happened'
      BY <2>1 DEF Never, CatalogueAssumption
    <3>2. [r \in Repos |-> IF r \in gone THEN Never ELSE receiver.pushedAt[r]] \in [Repos -> -1..happened']
      BY <1>4, <2>1, <3>1
    <3>3. [r \in Repos |-> IF r \in gone THEN NoFile ELSE receiver.content[r]] \in [Repos -> Files \cup {NoFile}]
      BY <1>4
    <3> QED BY <1>4, <2>6, <3>2, <3>3
  <2>8. channel' \in TrackerType /\ channel'.told \subseteq channel'.warned
    BY <2>3, <2>5, TrackerTyped DEF ReceiverTyped, TrackerType
  <2>9. published' \in Seq(Discovered)
    BY <2>4, <2>5 DEF ReceiverTyped, WriteConfigMap
  <2>10. ReceiverTyped'
    <3>1. scan' \in [on : BOOLEAN, seen : SUBSET Repos, todo : [{} -> 0..happened'], found : Seq(Discovered)]
      BY <1>1, <2>5
    <3>2. scan'.todo = <<>> /\ DOMAIN scan'.todo = {}
      BY <2>5
    <3> QED BY <2>7, <2>8, <2>9, <3>1, <3>2 DEF ReceiverTyped, TrackerType
  <2>11. status' \in [Repos -> {"none", "success", "failure"}]
    BY <2>5 DEF OrganisationTyped, SetCommitStatuses
  <2>12. OrganisationTyped'
    BY <1>2, <2>1, <2>11 DEF OrganisationTyped
  <2> QED BY <1>3, <2>10, <2>12
<1>8. CASE RestartReceiver
  <2>1. /\ happened' \in 0..MaxHappenings
        /\ 0..happened \subseteq 0..happened' /\ -1..happened \subseteq -1..happened'
    BY <1>8, HappenedGrows DEF RestartReceiver
  <2>2. OrganisationTyped'
    BY <1>2, <1>8, <2>1, OrganisationStays DEF RestartReceiver
  <2>3. receiver' \in [cfg : OperatorFiles, pushedAt : [Repos -> -1..happened'],
                     content : [Repos -> Files \cup {NoFile}]]
    <3>1. operator.apps \in OperatorFiles
      BY <1>8 DEF RestartReceiver, OrganisationTyped
    <3>2. Never \in -1..happened'
      BY <2>1 DEF Never, CatalogueAssumption
    <3> QED BY <1>8, <3>1, <3>2 DEF RestartReceiver
  <2>4. ReceiverTyped'
    <3>1. scan' \in [on : BOOLEAN, seen : SUBSET Repos, todo : [{} -> 0..happened'], found : Seq(Discovered)]
      BY <1>1, <1>8 DEF RestartReceiver
    <3>2. scan'.todo = <<>> /\ DOMAIN scan'.todo = {}
      BY <1>8 DEF RestartReceiver
    <3>3. /\ channel' \in TrackerType /\ channel'.told \subseteq channel'.warned
          /\ published' \in Seq(Discovered)
      BY <1>8 DEF RestartReceiver, ReceiverTyped, TrackerType
    <3> QED BY <2>3, <3>1, <3>2, <3>3 DEF ReceiverTyped, TrackerType
  <2> QED BY <1>3, <2>2, <2>4
<1> QED BY <1>5, <1>6, <1>7, <1>8 DEF Scanner

-----------------------------------------------------------------------------
(* The kustomization files that are targeted.                              *)

\* What a scan leaves of what it found.
Clean(ops, found) ==
  Kept(found, {i \in DOMAIN found : found[i].name \notin {c.name : c \in DetectConflicts(ops, found)}})

\* It has one application for a file at most, and none for a file of the operator's.
LEMMA CleanIsDistinct ==
  ASSUME NEW ops, NEW found \in Seq(Discovered)
  PROVE  DistinctPaths(Clean(ops, found)) /\ PathsOf(Clean(ops, found)) \cap PathsOf(ops) = {}
<1> DEFINE wanted == {i \in DOMAIN found : found[i].name \notin {c.name : c \in DetectConflicts(ops, found)}}
<1>1. PICK acc : DetectConflicts(ops, found) = acc.conflicts /\ Detected(ops, found, acc, Len(found))
  BY DetectProperties
<1>2. DOMAIN found = 1..Len(found)
  OBVIOUS
<1>3. \A i \in wanted : i \in 1..Len(found) /\ ~Named(acc, found[i])
  BY <1>1, <1>2 DEF Named
<1> HIDE DEF wanted
<1>4. \A p, q \in wanted \cap DOMAIN found : found[p].path = found[q].path => p = q
  BY <1>1, <1>3 DEF Detected
<1>5. \A p \in wanted \cap DOMAIN found : found[p].path \notin PathsOf(ops)
  BY <1>1, <1>3 DEF Detected
<1>6. DistinctPaths(Kept(found, wanted))
  BY <1>4, KeptProperties
<1>7. PathsOf(Kept(found, wanted)) \subseteq {found[p].path : p \in wanted \cap DOMAIN found}
  BY KeptPaths
<1>8. Clean(ops, found) = Kept(found, wanted)
  BY DEF Clean, wanted
<1> QED BY <1>5, <1>6, <1>7, <1>8

\* No two applications of the operator's file target one file.
LEMMA OperatorIsDistinct ==
  ASSUME CatalogueAssumption, NEW apps \in OperatorFiles
  PROVE  apps \in Seq(App) /\ DistinctPaths(apps)
BY DEF CatalogueAssumption, DistinctPaths

\* A reload and a restart merge lists that share no file.
LEMMA MergeIsDistinct ==
  ASSUME CatalogueAssumption, TypeOK, PathsInv, operator.mtime = 0
  PROVE  DistinctPaths(MergeApps(receiver.cfg, mounted.apps))
<1>1. receiver.cfg \in Seq(App) /\ DistinctPaths(receiver.cfg)
  BY OperatorIsDistinct DEF TypeOK, ReceiverTyped
<1>2. mounted.apps \in Seq(Discovered) /\ DistinctPaths(mounted.apps)
  BY DEF TypeOK, WorkerTyped, PathsInv
<1>3. PathsOf(receiver.cfg) \cap PathsOf(mounted.apps) = {}
  BY DEF PathsInv
<1> QED BY <1>1, <1>2, <1>3, MergeProperties

\* The steps of the organisation, and those of a scan that is not at its end.
LEMMA OthersKeepPaths ==
  ASSUME CatalogueAssumption, TypeOK, PathsInv,
         \/ \E r \in Repos : Unlist(r) \/ \E f \in Files \cup {NoFile} : Push(r, f)
         \/ \E apps \in OperatorFiles \cup {BadFile} : EditOperatorFile(apps)
         \/ StartScan \/ \E r \in Repos, fails \in BOOLEAN : Fetch(r, fails)
  PROVE  PathsInv'
<1>1. UNCHANGED <<published, mounted>>
  BY DEF Unlist, Push, EditOperatorFile, StartScan, Fetch
<1>2. CASE \E apps \in OperatorFiles \cup {BadFile} : EditOperatorFile(apps)
  <2>1. operator.mtime \in Nat
    BY DEF TypeOK, OrganisationTyped, CatalogueAssumption
  <2>2. operator'.mtime # 0
    BY <1>2, <2>1 DEF EditOperatorFile
  <2> QED BY <1>1, <2>2 DEF PathsInv
<1>3. CASE \/ \E r \in Repos : Unlist(r) \/ \E f \in Files \cup {NoFile} : Push(r, f)
           \/ StartScan \/ \E r \in Repos, fails \in BOOLEAN : Fetch(r, fails)
  <2>1. receiver'.cfg = receiver.cfg
    BY <1>3 DEF Unlist, Push, StartScan, Fetch, TypeOK, ReceiverTyped
  <2>2. UNCHANGED <<operator, bot>>
    BY <1>3 DEF Unlist, Push, StartScan, Fetch
  <2> QED BY <1>1, <2>1, <2>2 DEF PathsInv
<1> QED BY <1>2, <1>3

\* The end of a scan, and a restart of the receiver.
LEMMA ReceiverKeepsPaths ==
  ASSUME CatalogueAssumption, TypeOK, PathsInv,
         \/ \E lost \in SUBSET Calls, cooling \in BOOLEAN : FinishScan(lost, cooling)
         \/ RestartReceiver
  PROVE  PathsInv'
<1>1. UNCHANGED <<operator, mounted, bot>>
  BY DEF FinishScan, RestartReceiver
<1>2. CASE RestartReceiver
  <2>1. receiver'.cfg = operator.apps /\ published' = published
    BY <1>2 DEF RestartReceiver
  <2> QED BY <1>1, <2>1 DEF PathsInv
<1>3. ASSUME NEW lost, NEW cooling, FinishScan(lost, cooling)
      PROVE  PathsInv'
  <2> DEFINE clean == Clean(receiver.cfg, scan.found)
  <2>1. published' = published \/ published' = clean
    BY <1>3 DEF FinishScan, WriteConfigMap, Clean
  <2>2. DistinctPaths(clean) /\ PathsOf(clean) \cap PathsOf(receiver.cfg) = {}
    <3>1. scan.found \in Seq(Discovered)
      BY DEF TypeOK, ReceiverTyped
    <3> QED BY <3>1, CleanIsDistinct
  <2>3. receiver'.cfg = receiver.cfg
    BY <1>3 DEF FinishScan, TypeOK, ReceiverTyped
  <2> HIDE DEF clean
  <2> QED BY <1>1, <2>1, <2>2, <2>3 DEF PathsInv
<1> QED BY <1>2, <1>3

\* The mount and the worker.
LEMMA WorkerKeepsPaths ==
  ASSUME CatalogueAssumption, TypeOK, PathsInv, Mount \/ Worker \/ Sighup \/ RestartBot
  PROVE  PathsInv'
<1>1. UNCHANGED <<operator, receiver, published>>
  BY DEF Mount, Worker, Tick, Sighup, ReadPrimary, MergeDiscovered, StatFiles, RestartBot
<1>2. bot \in [cfg : Seq(App), got : Seq(App), pc : {"idle", "merge", "stat"},
             lastMod : Nat, lastDiscoveredMod : Nat, hit : BOOLEAN,
             cached : SUBSET (Names \X Patterns)]
  BY DEF TypeOK, WorkerTyped
<1>3. CASE Mount
  <2>1. bot' = [bot EXCEPT !.hit = bot.hit \/ bot.pc \in {"merge", "stat"}] /\ mounted'.apps = published
    BY <1>3 DEF Mount, Written
  <2>2. bot'.pc = bot.pc /\ bot'.got = bot.got /\ bot'.cfg = bot.cfg
    BY <1>2, <2>1
  <2> QED BY <1>1, <2>1, <2>2 DEF PathsInv
<1>4. CASE ReadPrimary
  <2>1. bot'.got = operator.apps /\ bot'.cfg = bot.cfg /\ mounted' = mounted
    BY <1>2, <1>4 DEF ReadPrimary
  <2> QED BY <1>1, <2>1 DEF PathsInv
<1>5. CASE MergeDiscovered
  <2>1. bot.pc = "merge" /\ bot'.pc = "stat" /\ bot'.cfg = MergeApps(bot.got, mounted.apps) /\ mounted' = mounted
    BY <1>2, <1>5 DEF MergeDiscovered
  <2>2. operator.mtime = 0 => DistinctPaths(bot'.cfg)
    BY <2>1, MergeIsDistinct DEF PathsInv
  <2> QED BY <1>1, <2>1, <2>2 DEF PathsInv
<1>6. CASE StatFiles
  <2>1. bot'.pc = "idle" /\ bot'.cfg = bot.cfg /\ mounted' = mounted
    BY <1>2, <1>6 DEF StatFiles
  <2> QED BY <1>1, <2>1 DEF PathsInv
<1>7. CASE RestartBot
  <2>1. PICK apps, known :
          /\ apps = MergeApps(operator.apps, mounted.apps) /\ mounted' = mounted
          /\ bot' = [bot EXCEPT !.pc = "stat", !.hit = FALSE, !.cfg = apps, !.got = <<>>,
                                !.cached = known]
    BY <1>7 DEF RestartBot
  <2>2. bot'.pc = "stat" /\ bot'.cfg = MergeApps(operator.apps, mounted.apps) /\ mounted' = mounted
    BY <1>2, <2>1
  <2>3. operator.mtime = 0 => DistinctPaths(bot'.cfg)
    BY <2>2, MergeIsDistinct DEF PathsInv
  <2> QED BY <1>1, <2>2, <2>3 DEF PathsInv
<1> QED BY <1>3, <1>4, <1>5, <1>6, <1>7 DEF Worker, Tick, Sighup

-----------------------------------------------------------------------------
(* The watcher.                                                            *)

\* The steps of others leave the watcher's files and the worker as they are.
LEMMA ElsewhereKeeps ==
  ASSUME ReloadInv,
         \/ \E r \in Repos : Unlist(r) \/ \E f \in Files \cup {NoFile} : Push(r, f)
         \/ Scanner \/ RestartReceiver
  PROVE  ReloadInv'
<1>1. UNCHANGED <<operator, mounted, bot>>
  BY DEF Unlist, Push, Scanner, StartScan, Fetch, FinishScan, RestartReceiver
<1> QED BY <1>1 DEF ReloadInv, Missed

\* A write of either file raises its mtime past the one stored, and marks the reload
\* that is under way.
LEMMA WriteKeeps ==
  ASSUME ReloadInv, Mount \/ \E apps \in OperatorFiles \cup {BadFile} : EditOperatorFile(apps)
  PROVE  ReloadInv'
<1>1. bot' = [bot EXCEPT !.hit = bot.hit \/ bot.pc \in {"merge", "stat"}]
  BY DEF Mount, EditOperatorFile, Written
<1>2. \/ operator'.mtime = operator.mtime + 1 /\ UNCHANGED mounted
      \/ mounted'.mtime = mounted.mtime + 1 /\ UNCHANGED operator
  BY DEF Mount, EditOperatorFile
<1>3. /\ bot'.pc = bot.pc /\ bot'.cfg = bot.cfg /\ bot'.got = bot.got
      /\ bot'.lastMod = bot.lastMod /\ bot'.lastDiscoveredMod = bot.lastDiscoveredMod
      /\ bot'.cached = bot.cached
      /\ bot'.hit = (bot.hit \/ bot.pc \in {"merge", "stat"})
  BY <1>1 DEF ReloadInv
<1>4. operator'.mtime \in Nat /\ mounted'.mtime \in Nat
  BY <1>2 DEF ReloadInv
<1>5. bot' \in [cfg : {bot'.cfg}, got : {bot'.got}, pc : {"idle", "merge", "stat"},
                lastMod : 0..operator'.mtime, lastDiscoveredMod : 0..mounted'.mtime,
                hit : BOOLEAN, cached : {bot'.cached}]
  <2>1. /\ 0..operator.mtime \subseteq 0..operator'.mtime
        /\ 0..mounted.mtime \subseteq 0..mounted'.mtime
    BY <1>2 DEF ReloadInv
  <2> QED BY <1>1, <1>3, <2>1 DEF ReloadInv
<1>6. ~Missed'
  <2>1. bot.lastMod \in 0..operator.mtime /\ bot.lastDiscoveredMod \in 0..mounted.mtime
    BY DEF ReloadInv
  <2>2. bot'.lastMod # operator'.mtime \/ bot'.lastDiscoveredMod # mounted'.mtime
    BY <1>2, <1>3, <2>1 DEF ReloadInv
  <2> QED BY <2>2 DEF Missed
<1>7. ~bot'.hit => bot'.pc = "idle"
  BY <1>3 DEF ReloadInv
<1> QED BY <1>4, <1>5, <1>6, <1>7 DEF ReloadInv

\* A reload reads the operator's file, merges the discovered one, and stores the
\* mtimes of both; a restart does the first two at once.
LEMMA WatcherKeeps ==
  ASSUME ReloadInv, Worker \/ Sighup \/ RestartBot
  PROVE  ReloadInv'
<1>0. /\ bot \in [cfg : {bot.cfg}, got : {bot.got}, pc : {"idle", "merge", "stat"},
                  lastMod : 0..operator.mtime, lastDiscoveredMod : 0..mounted.mtime,
                  hit : BOOLEAN, cached : {bot.cached}]
      /\ operator.mtime \in Nat /\ mounted.mtime \in Nat
  BY DEF ReloadInv
<1>1. UNCHANGED <<operator, mounted>>
  BY DEF Worker, Tick, Sighup, ReadPrimary, MergeDiscovered, StatFiles, RestartBot
<1>2. CASE ReadPrimary
  <2>1. bot' = [bot EXCEPT !.pc = "merge", !.got = operator.apps, !.hit = FALSE]
    BY <1>2 DEF ReadPrimary
  <2> QED BY <1>0, <1>1, <2>1 DEF ReloadInv, Missed
<1>3. CASE MergeDiscovered
  <2>1. /\ bot' = [bot EXCEPT !.pc = "stat", !.cfg = MergeApps(bot.got, mounted.apps), !.got = <<>>]
        /\ bot.pc = "merge"
    BY <1>3 DEF MergeDiscovered
  <2>2. /\ bot'.pc = "stat" /\ bot'.cfg = MergeApps(bot.got, mounted.apps) /\ bot'.hit = bot.hit
        /\ bot'.lastMod = bot.lastMod /\ bot'.lastDiscoveredMod = bot.lastDiscoveredMod
    BY <1>0, <2>1
  <2>3. ~bot.hit => bot.got = operator.apps
    BY <2>1 DEF ReloadInv
  <2> QED BY <1>0, <1>1, <2>1, <2>2, <2>3 DEF ReloadInv, Missed
<1>4. CASE StatFiles
  <2>1. /\ bot' = [bot EXCEPT !.pc = "idle", !.lastMod = operator.mtime,
                              !.lastDiscoveredMod = mounted.mtime,
                              !.cached = AddApps(bot.cached, bot.cfg)]
        /\ bot.pc = "stat"
    BY <1>4 DEF StatFiles
  <2>2. bot'.pc = "idle" /\ bot'.cfg = bot.cfg /\ bot'.hit = bot.hit
    BY <1>0, <2>1
  <2>3. ~bot.hit => bot.cfg = MergeApps(operator.apps, mounted.apps)
    BY <2>1 DEF ReloadInv
  <2>4. bot' \in [cfg : {bot'.cfg}, got : {bot'.got}, pc : {"idle", "merge", "stat"},
                  lastMod : 0..operator.mtime, lastDiscoveredMod : 0..mounted.mtime,
                  hit : BOOLEAN, cached : {bot'.cached}]
    <3>1. operator.mtime \in 0..operator.mtime /\ mounted.mtime \in 0..mounted.mtime
      BY <1>0
    <3> QED BY <1>0, <2>1, <3>1
  <2>5. ~bot'.hit => ~Missed'
    BY <1>1, <2>2, <2>3 DEF Missed
  <2> QED BY <1>0, <1>1, <2>2, <2>4, <2>5 DEF ReloadInv
<1>5. CASE RestartBot
  <2>1. PICK apps, known :
          /\ apps = MergeApps(operator.apps, mounted.apps)
          /\ bot' = [bot EXCEPT !.pc = "stat", !.hit = FALSE, !.cfg = apps, !.got = <<>>,
                                !.cached = known]
    BY <1>5 DEF RestartBot
  <2> QED BY <1>0, <1>1, <2>1 DEF ReloadInv, Missed
<1> QED BY <1>2, <1>3, <1>4, <1>5 DEF Worker, Tick, Sighup

-----------------------------------------------------------------------------
(* The initial states, and the theorems.                                   *)

\* What a process that starts knows: the files as they are.
LEMMA Beginning ==
  ASSUME CatalogueAssumption, Init
  PROVE  CatalogueInv
<1>1. PICK start \in Beginnings :
        /\ repo = [r \in Repos |-> [file |-> start.files[r], pushed |-> 0, listed |-> TRUE]]
        /\ operator = [apps |-> start.apps, mtime |-> 0]
        /\ receiver = [cfg |-> start.apps, pushedAt |-> [r \in Repos |-> Never],
                       content |-> [r \in Repos |-> NoFile]]
        /\ bot = [cfg |-> MergeApps(start.apps, <<>>), got |-> <<>>, pc |-> "idle",
                  lastMod |-> 0, lastDiscoveredMod |-> 0, hit |-> FALSE,
                  cached |-> {<<start.apps[i].name, start.apps[i].pattern>> : i \in DOMAIN start.apps}]
  BY DEF Init
<1>2. /\ status = [r \in Repos |-> "none"]
      /\ scan = [on |-> FALSE, seen |-> {}, todo |-> <<>>, found |-> <<>>]
      /\ channel = [warned |-> {}, told |-> {}, lastWarn |-> FALSE]
      /\ published = <<>> /\ mounted = [apps |-> <<>>, mtime |-> 0] /\ happened = 0
  BY DEF Init
<1>3. /\ start.apps \in OperatorFiles /\ start.files \in [Repos -> Files \cup {NoFile}]
      /\ MaxHappenings \in Nat
  BY DEF CatalogueAssumption
<1>4. start.apps \in Seq(App) /\ DistinctPaths(start.apps)
  BY <1>3, OperatorIsDistinct
<1>5. <<>> \in Seq(Discovered) /\ <<>> \in Seq(App) /\ DistinctPaths(<<>>) /\ PathsOf(<<>>) = {}
  BY DEF DistinctPaths, PathsOf
<1>6. MergeApps(start.apps, <<>>) \in Seq(App) /\ DistinctPaths(MergeApps(start.apps, <<>>))
  BY <1>4, <1>5, MergeProperties
<1>7. OrganisationTyped
  <2>1. 0 \in 0..happened /\ happened \in 0..MaxHappenings
    BY <1>2, <1>3
  <2> QED BY <1>1, <1>2, <1>3, <2>1 DEF OrganisationTyped
<1>8. ReceiverTyped
  <2>1. Never \in -1..happened
    BY <1>2 DEF Never
  <2>2. receiver \in [cfg : OperatorFiles, pushedAt : [Repos -> -1..happened],
                    content : [Repos -> Files \cup {NoFile}]]
    BY <1>1, <1>3, <2>1
  <2>3. scan \in [on : BOOLEAN, seen : SUBSET Repos, todo : [{} -> 0..happened], found : Seq(Discovered)]
    BY <1>2, <1>5
  <2>4. scan.todo = <<>> /\ DOMAIN scan.todo = {}
    BY <1>2
  <2> QED BY <1>2, <1>5, <2>2, <2>3, <2>4 DEF ReceiverTyped
<1>9. WorkerTyped
  <2> DEFINE known == {<<start.apps[i].name, start.apps[i].pattern>> : i \in DOMAIN start.apps}
  <2>1. known \subseteq Names \X Patterns
    <3>1. \A i \in DOMAIN start.apps : start.apps[i] \in App
      BY <1>4
    <3> QED BY <3>1 DEF App
  <2>2. bot = [cfg |-> MergeApps(start.apps, <<>>), got |-> <<>>, pc |-> "idle", lastMod |-> 0,
               lastDiscoveredMod |-> 0, hit |-> FALSE, cached |-> known]
    BY <1>1
  <2> HIDE DEF known
  <2>3. mounted \in [apps : Seq(Discovered), mtime : Nat]
    BY <1>2, <1>5
  <2> QED BY <1>5, <1>6, <2>1, <2>2, <2>3 DEF WorkerTyped
<1>10. ReloadInv
  <2> DEFINE known == {<<start.apps[i].name, start.apps[i].pattern>> : i \in DOMAIN start.apps}
  <2>1. bot = [cfg |-> MergeApps(start.apps, <<>>), got |-> <<>>, pc |-> "idle", lastMod |-> 0,
               lastDiscoveredMod |-> 0, hit |-> FALSE, cached |-> known]
    BY <1>1
  <2> HIDE DEF known
  <2> QED BY <1>1, <1>2, <2>1 DEF ReloadInv, Missed
<1>11. PathsInv
  <2>1. /\ receiver.cfg = start.apps /\ operator.apps = start.apps
        /\ bot.pc = "idle" /\ bot.cfg = MergeApps(start.apps, <<>>)
        /\ mounted.apps = <<>>
    BY <1>1, <1>2
  <2> QED BY <1>2, <1>5, <1>6, <2>1 DEF PathsInv
<1> QED BY <1>7, <1>8, <1>9, <1>10, <1>11 DEF CatalogueInv, TypeOK

\* The inductive invariant: types; the config is current or the watcher will find that it is
\* not, unless a file was written under a reload; and what is discovered targets no file twice.
THEOREM Invariance == Spec => []CatalogueInv
<1>1. Init => CatalogueInv
  BY Beginning, CatalogueAssumption
<1>2. CatalogueInv /\ [Next]_vars => CatalogueInv'
  <2>1. SUFFICES ASSUME TypeOK, ReloadInv, PathsInv, [Next]_vars PROVE CatalogueInv'
    BY DEF CatalogueInv
  <2>2. CASE Next
    <3>1. TypeOK'
      BY <2>1, <2>2, CatalogueAssumption, OrganisationKeepsTypes, ReceiverKeepsTypes, WorkerKeepsTypes
         DEF Next
    <3>2. ReloadInv'
      BY <2>1, <2>2, ElsewhereKeeps, WriteKeeps, WatcherKeeps DEF Next
    <3>3. PathsInv'
      BY <2>1, <2>2, CatalogueAssumption, OthersKeepPaths, ReceiverKeepsPaths, WorkerKeepsPaths
         DEF Next, Scanner
    <3> QED BY <3>1, <3>2, <3>3 DEF CatalogueInv
  <2>3. CASE UNCHANGED vars
    <3>1. TypeOK'
      BY <2>1, <2>3 DEF vars, TypeOK, OrganisationTyped, ReceiverTyped, WorkerTyped
    <3>2. ReloadInv'
      BY <2>1, <2>3 DEF vars, ReloadInv, Missed
    <3>3. PathsInv'
      BY <2>1, <2>3 DEF vars, PathsInv
    <3> QED BY <3>1, <3>2, <3>3 DEF CatalogueInv
  <2> QED BY <2>1, <2>2, <2>3
<1> QED BY <1>1, <1>2, PTL DEF Spec

\* Every variable stays within its type.
THEOREM TypeCorrect == Spec => []TypeOK
<1>1. CatalogueInv => TypeOK
  BY DEF CatalogueInv
<1> QED BY <1>1, Invariance, PTL

\* The watcher takes a stale config for current only after a write under a reload.
THEOREM NothingElseIsMissed == Spec => []MissedOnlyWhileReloading
<1>1. CatalogueInv => MissedOnlyWhileReloading
  BY DEF CatalogueInv, ReloadInv, MissedOnlyWhileReloading
<1> QED BY <1>1, Invariance, PTL

\* No two discovered applications target one kustomization file, and no two of the worker's
\* config do while the operator's file is the first one.
THEOREM TargetsDiffer == Spec => []DistinctTargets
<1>1. CatalogueInv => DistinctTargets
  BY DEF CatalogueInv, PathsInv, DistinctTargets
<1> QED BY <1>1, Invariance, PTL

\* An application that a scan leaves out is reported to its repository, unless another
\* entry has its name or the repository has no main branch to carry the status.
THEOREM NobodyIsLeftOutUntold == Spec => ExcludedIsFlagged
<1>1. ASSUME CatalogueInv, NEW cooling \in BOOLEAN, FinishScan({}, cooling), NEW i \in DOMAIN scan.found
      PROVE  \/ scan.found[i] \in ToSet(published')
             \/ status'[scan.found[i].source] = "failure"
             \/ scan.found[i].source \notin Flaggable
             \/ \E j \in DOMAIN scan.found \ {i} : scan.found[j].name = scan.found[i].name
  <2> DEFINE clashes == DetectConflicts(receiver.cfg, scan.found)
             names == {c.name : c \in clashes}
             wanted == {k \in DOMAIN scan.found : scan.found[k].name \notin names}
  <2>1. scan.found \in Seq(Discovered)
    BY <1>1 DEF CatalogueInv, TypeOK, ReceiverTyped
  <2>2. PICK acc : clashes = acc.conflicts /\ Detected(receiver.cfg, scan.found, acc, Len(scan.found))
    BY <2>1, DetectProperties
  <2>3. published' = Kept(scan.found, wanted) /\ status' = SetCommitStatuses(scan.found, clashes, {})
    BY <1>1 DEF FinishScan, WriteConfigMap
  <2> HIDE DEF clashes
  <2>4. CASE i \in wanted
    <3> HIDE DEF wanted
    <3>1. scan.found[i] \in ToSet(Kept(scan.found, wanted))
      BY <1>1, <2>1, <2>4, KeptProperties
    <3> QED BY <2>3, <3>1
  <2>5. CASE i \notin wanted
    <3>1. PICK c \in clashes : c.name = scan.found[i].name
      BY <1>1, <2>5
    <3>2. PICK k \in 1..Len(scan.found) : c = [name |-> scan.found[k].name, source |-> scan.found[k].source]
      BY <2>2, <3>1 DEF Detected
    <3>3. k \in DOMAIN scan.found /\ scan.found[k].name = scan.found[i].name /\ c.source = scan.found[k].source
      BY <2>1, <3>1, <3>2
    <3>4. CASE k = i
      <4>1. scan.found[i].source \in Repos
        <5>1. scan.found[i] \in Discovered
          BY <1>1, <2>1
        <5> QED BY <5>1 DEF Discovered
      <4>2. scan.found[i].source \in {d.source : d \in clashes}
        BY <3>3, <3>4
      <4>3. scan.found[i].source \in {scan.found[j].source : j \in DOMAIN scan.found}
        BY <1>1
      <4> QED BY <2>3, <4>1, <4>2, <4>3 DEF SetCommitStatuses
    <3> QED BY <3>3, <3>4
  <2> QED BY <2>4, <2>5
<1>2. CatalogueInv /\ [Next]_vars =>
        [ (\E cooling \in BOOLEAN : FinishScan({}, cooling)) =>
            \A i \in DOMAIN scan.found :
              \/ scan.found[i] \in ToSet(published')
              \/ status'[scan.found[i].source] = "failure"
              \/ scan.found[i].source \notin Flaggable
              \/ \E j \in DOMAIN scan.found \ {i} : scan.found[j].name = scan.found[i].name ]_vars
  BY <1>1
<1> QED BY <1>2, Invariance, PTL DEF Spec, ExcludedIsFlagged
=============================================================================
