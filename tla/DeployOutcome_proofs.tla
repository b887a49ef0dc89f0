------------------------ MODULE DeployOutcome_proofs ------------------------
(***************************************************************************)
(* Proofs about DeployOutcome, for every value of its constants: any tags, *)
(* replicas, and number of merges and happenings.                          *)
(*                                                                         *)
(* They are about the rows of the history table: which commit each is of,  *)
(* that none is written twice, that each says truly what its commit        *)
(* deployed, and what those who read the newest rows propose.              *)
(***************************************************************************)
EXTENDS DeployOutcome, Lemmas, SequenceTheorems, FiniteSetTheorems, TLAPS

\* A sequence that is appended to keeps what it had.
LEMMA Appended ==
  ASSUME NEW seq, seq \in Seq(ToSet(seq)), NEW e
  PROVE  /\ Append(seq, e) \in Seq(ToSet(Append(seq, e)))
         /\ Len(seq) \in Nat /\ DOMAIN seq = 1..Len(seq)
         /\ DOMAIN Append(seq, e) = 1..(Len(seq) + 1)
         /\ \A i \in DOMAIN seq : Append(seq, e)[i] = seq[i]
         /\ Append(seq, e)[Len(seq) + 1] = e
<1> DEFINE S == ToSet(seq) \cup {e}
<1>1. seq \in Seq(S) /\ e \in S
  BY SeqDef
<1>2. /\ Append(seq, e) \in Seq(S) /\ Len(Append(seq, e)) = Len(seq) + 1
      /\ \A i \in 1..Len(seq) : Append(seq, e)[i] = seq[i]
      /\ Append(seq, e)[Len(seq) + 1] = e
  BY <1>1, AppendProperties
<1>3. Len(seq) \in Nat /\ DOMAIN seq = 1..Len(seq) /\ DOMAIN Append(seq, e) = 1..(Len(seq) + 1)
  BY <1>1, <1>2, LenProperties
<1>4. Append(seq, e) \in Seq(ToSet(Append(seq, e)))
  BY <1>2, <1>3 DEF ToSet
<1> QED BY <1>2, <1>3, <1>4

\* The parts of the state the rows are about; the other actions leave them.
rowVars == <<merges, pushing, history, listing, met, rebuild, contested>>

\* A step that leaves these alone leaves what is known of the rows.
LEMMA RowsUntouched ==
  ASSUME RowsInv, UNCHANGED rowVars
  PROVE  RowsInv'
BY DEF RowsInv, rowVars

\* Prompts, clicks, monitors, modals and mentions write no row.
LEMMA OtherActions ==
  ASSUME \/ \E s \in DOMAIN merges, trigger \in Triggers, detail \in BOOLEAN :
              Notify(s, trigger, detail)
         \/ \E n \in inbox : Handled(n)
         \/ \E p \in channel.prompts :
              \/ HandleArgoCDDismissClick(p) \/ HandleHealthRollbackClick(p)
              \/ \E lookup \in BOOLEAN : HandleArgoCDRollbackClick(p, lookup)
         \/ \E s \in DOMAIN monitors : Ended(s) \/ \E healthy \in BOOLEAN : Round(s, healthy)
         \/ HandleRollback("command", NoTag)
         \/ \E lookup \in BOOLEAN : OpenDeployModal(lookup) \/ HandleDeployFilter(lookup)
         \/ HandleMentionRollback
  PROVE  UNCHANGED rowVars
<1>1. ASSUME \/ \E s \in DOMAIN merges, trigger \in Triggers, detail \in BOOLEAN :
                  Notify(s, trigger, detail)
             \/ \E s \in DOMAIN monitors : Ended(s) \/ \E healthy \in BOOLEAN : Round(s, healthy)
             \/ \E p \in channel.prompts : HandleArgoCDDismissClick(p)
      PROVE  UNCHANGED rowVars
  BY <1>1 DEF rowVars, deploys, rows, Notify, HandleArgoCDDismissClick, Ended, Deadline, Round
<1>2. ASSUME NEW n \in inbox, Handled(n)
      PROVE  UNCHANGED rowVars
  BY <1>2 DEF rowVars, deploys, rows, Handled, HandleArgoCDNotification
<1>3. ASSUME \/ \E p \in channel.prompts :
                  \/ HandleHealthRollbackClick(p)
                  \/ \E lookup \in BOOLEAN : HandleArgoCDRollbackClick(p, lookup)
             \/ HandleRollback("command", NoTag)
             \/ \E lookup \in BOOLEAN : OpenDeployModal(lookup) \/ HandleDeployFilter(lookup)
             \/ HandleMentionRollback
      PROVE  UNCHANGED rowVars
  BY <1>3 DEF rowVars, deploys, rows, HandleHealthRollbackClick, HandleArgoCDRollbackClick,
     HandleRollback, OpenDeployModal, HandleDeployFilter, HandleMentionRollback
<1> QED BY <1>1, <1>2, <1>3

\* The tables of what each replica has met and is to rebuild.
LEMMA Tables ==
  ASSUME RowsInv
  PROVE  /\ met \in [Replicas -> SUBSET DOMAIN merges]
         /\ rebuild \in [Replicas -> SUBSET DOMAIN merges]
BY DEF RowsInv

\* A merge is the newest commit: there is no row of it, and nobody rebuilds it.
LEMMA MergeKeeps ==
  ASSUME RowsInv, NEW t, Merge(t) \/ \E ours \in BOOLEAN : MergeOutside(t, ours)
  PROVE  RowsInv'
<1>1. PICK c : merges' = Append(merges, c)
  BY DEF Merge, MergeOutside
<1>2. /\ merges' \in Seq(ToSet(merges')) /\ Len(merges) \in Nat /\ DOMAIN merges = 1..Len(merges)
      /\ DOMAIN merges' = 1..(Len(merges) + 1)
  BY <1>1, Appended DEF RowsInv
<1>3. DOMAIN merges \subseteq DOMAIN merges' /\ Len(merges) + 1 \in DOMAIN merges'
      /\ Len(merges) + 1 \notin DOMAIN merges
  BY <1>2
<1>4. /\ UNCHANGED <<history, listing, met, rebuild, contested>>
      /\ pushing' \subseteq pushing \cup {Len(merges) + 1}
  BY DEF Merge, MergeOutside, rows
<1>5. /\ {met', rebuild'} \subseteq [Replicas -> SUBSET DOMAIN merges']
      /\ pushing' \cup contested' \subseteq DOMAIN merges'
      /\ \A i \in DOMAIN history' : CommitOf(history'[i]) \in DOMAIN merges
  BY <1>3, <1>4, Tables DEF RowsInv
<1>6. ASSUME NEW s \in DOMAIN merges' \ contested'
      PROVE  /\ s \in pushing' => \A r \in Replicas : s \notin rebuild'[r]
             /\ \A q, r \in Replicas : s \in rebuild'[q] /\ s \in rebuild'[r] => q = r
             /\ \A i \in DOMAIN history' : CommitOf(history'[i]) = s =>
                  /\ s \notin pushing' /\ \A r \in Replicas : s \notin rebuild'[r]
                  /\ \A r \in listing' : s \in met'[r]
                  /\ \A j \in DOMAIN history' : CommitOf(history'[j]) = s => j = i
  <2>1. CASE s \in DOMAIN merges
    BY <1>3, <1>4, <2>1 DEF RowsInv
  <2>2. CASE s \notin DOMAIN merges
    <3>1. \A r \in Replicas : s \notin rebuild'[r]
      BY <1>4, <2>2, Tables
    <3>2. \A i \in DOMAIN history' : CommitOf(history'[i]) # s
      BY <1>5, <2>2
    <3> QED BY <3>1, <3>2
  <2> QED BY <2>1, <2>2
<1>7. \A i \in DOMAIN history' : CommitOf(history'[i]) \in DOMAIN merges'
  BY <1>3, <1>5
<1>8. history' \in Seq(ToSet(history')) /\ listing' \subseteq Replicas
  BY <1>4 DEF RowsInv
<1> QED BY <1>2, <1>5, <1>6, <1>7, <1>8 DEF RowsInv

\* What is added to the table is of a commit that has no row and that nobody else is
\* to write one of, or of a contested one; who lists meets it.
LEMMA AddRow ==
  ASSUME RowsInv, NEW row, PushHistory(row), UNCHANGED <<merges, listing, contested>>,
         CommitOf(row) \in DOMAIN merges,
         pushing' \subseteq pushing, rebuild' \in [Replicas -> SUBSET DOMAIN merges],
         \A r \in Replicas : rebuild'[r] \subseteq rebuild[r],
         CommitOf(row) \notin contested =>
           /\ CommitOf(row) \notin pushing'
           /\ \A r \in Replicas : CommitOf(row) \notin rebuild'[r]
           /\ \A i \in DOMAIN history : CommitOf(history[i]) # CommitOf(row)
  PROVE  RowsInv'
<1>1. /\ history' \in Seq(ToSet(history')) /\ Len(history) \in Nat
      /\ DOMAIN history = 1..Len(history) /\ DOMAIN history' = 1..(Len(history) + 1)
      /\ \A i \in DOMAIN history : history'[i] = history[i]
      /\ history'[Len(history) + 1] = row
  BY Appended DEF RowsInv, PushHistory
<1>2. \A i \in DOMAIN history' : i \in DOMAIN history \/ i = Len(history) + 1
  BY <1>1
<1>3. /\ met' \in [Replicas -> SUBSET DOMAIN merges]
      /\ \A r \in Replicas : met[r] \subseteq met'[r]
      /\ \A r \in listing : CommitOf(row) \in met'[r]
  BY Tables DEF PushHistory, RowsInv
<1>4. \A i \in DOMAIN history' : CommitOf(history'[i]) \in DOMAIN merges
  BY <1>1, <1>2 DEF RowsInv
<1>5. ASSUME NEW s \in DOMAIN merges \ contested, NEW i \in DOMAIN history',
             CommitOf(history'[i]) = s
      PROVE  /\ s \notin pushing' /\ \A r \in Replicas : s \notin rebuild'[r]
             /\ \A r \in listing : s \in met'[r]
             /\ \A j \in DOMAIN history' : CommitOf(history'[j]) = s => j = i
  <2>1. CASE i = Len(history) + 1
    BY <1>1, <1>2, <1>3, <1>5, <2>1
  <2>2. CASE i \in DOMAIN history
    <3>1. CommitOf(history[i]) = s
      BY <1>1, <1>5, <2>2
    <3>2. /\ s \notin pushing /\ \A r \in Replicas : s \notin rebuild[r]
          /\ \A r \in listing : s \in met[r]
          /\ \A j \in DOMAIN history : CommitOf(history[j]) = s => j = i
      BY <1>5, <2>2, <3>1 DEF RowsInv
    <3>3. CommitOf(row) # s
      BY <1>5, <2>2, <3>1
    <3>4. listing \subseteq Replicas
      BY DEF RowsInv
    <3> QED BY <1>1, <1>2, <1>3, <3>2, <3>3, <3>4
  <2> QED BY <1>2, <2>1, <2>2
<1>6. ASSUME NEW s \in DOMAIN merges \ contested
      PROVE  /\ s \in pushing' => \A r \in Replicas : s \notin rebuild'[r]
             /\ \A q, r \in Replicas : s \in rebuild'[q] /\ s \in rebuild'[r] => q = r
  BY <1>6 DEF RowsInv
<1>7. merges' = merges /\ listing' = listing /\ contested' = contested
      /\ pushing' \cup contested \subseteq DOMAIN merges /\ listing \subseteq Replicas
      /\ merges \in Seq(ToSet(merges))
  BY DEF RowsInv
<1> QED BY <1>1, <1>3, <1>4, <1>5, <1>6, <1>7 DEF RowsInv

\* Fewer rows to write, for a handler or a replica, or fewer replicas that list, disturb
\* nothing.
LEMMA FewerToWrite ==
  ASSUME RowsInv, UNCHANGED <<merges, history, contested>>, pushing' \subseteq pushing,
         listing' \subseteq listing, {met', rebuild'} \subseteq [Replicas -> SUBSET DOMAIN merges],
         \A r \in listing' : met'[r] = met[r],
         \A r \in Replicas : rebuild'[r] \subseteq rebuild[r]
  PROVE  RowsInv'
<1>1. ASSUME NEW s \in DOMAIN merges \ contested, NEW i \in DOMAIN history, CommitOf(history[i]) = s
      PROVE  /\ s \notin pushing' /\ \A r \in Replicas : s \notin rebuild'[r]
             /\ \A r \in listing' : s \in met'[r]
             /\ \A j \in DOMAIN history : CommitOf(history[j]) = s => j = i
  BY <1>1 DEF RowsInv
<1>2. ASSUME NEW s \in DOMAIN merges \ contested
      PROVE  /\ s \in pushing' => \A r \in Replicas : s \notin rebuild'[r]
             /\ \A q, r \in Replicas : s \in rebuild'[q] /\ s \in rebuild'[r] => q = r
  BY <1>2 DEF RowsInv
<1> QED BY <1>1, <1>2 DEF RowsInv

\* The row of a merge the process waited for is its first, whether it is written or not.
LEMMA CompleteKeeps ==
  ASSUME RowsInv, NEW s \in pushing, NEW written \in BOOLEAN, NEW monitored \in BOOLEAN,
         Complete(s, written, monitored)
  PROVE  RowsInv'
<1>1. /\ pushing' = pushing \ {s} /\ UNCHANGED <<merges, listing, rebuild, contested>>
      /\ rebuild' \in [Replicas -> SUBSET DOMAIN merges]
  BY Tables DEF Complete
<1>2. CASE written
  <2>1. PICK row : PushHistory(row) /\ row.sha = s
    BY <1>2 DEF Complete
  <2>2. s \in DOMAIN merges /\ s # NoSHA /\ CommitOf(row) = s
    <3>1. DOMAIN merges = 1..Len(merges)
      BY Appended DEF RowsInv
    <3> QED BY <2>1, <3>1 DEF RowsInv, NoSHA, CommitOf
  <2>3. s \notin contested =>
          /\ \A r \in Replicas : s \notin rebuild[r]
          /\ \A i \in DOMAIN history : CommitOf(history[i]) # s
    BY <2>2 DEF RowsInv
  <2> QED BY <1>1, <2>1, <2>2, <2>3, AddRow
<1>3. CASE ~written
  <2>1. UNCHANGED <<history, met>>
    BY <1>3 DEF Complete
  <2> QED BY <1>1, <2>1, FewerToWrite, Tables
<1> QED BY <1>2, <1>3

\* A process that dies writes no more of the rows it had to write.
LEMMA CrashKeeps ==
  ASSUME RowsInv, NEW r \in Replicas, NEW handled, Crash(r, handled)
  PROVE  RowsInv'
<1>1. /\ UNCHANGED <<merges, history, contested>> /\ pushing' \subseteq pushing
      /\ listing' = listing \ {r}
      /\ met' = [met EXCEPT ![r] = {}] /\ rebuild' = [rebuild EXCEPT ![r] = {}]
  BY DEF Crash
<1>2. {met', rebuild'} \subseteq [Replicas -> SUBSET DOMAIN merges]
      /\ \A q \in Replicas : rebuild'[q] \subseteq rebuild[q]
  BY <1>1, Tables
<1>3. listing' \subseteq listing /\ \A q \in listing' : met'[q] = met[q]
  BY <1>1, Tables DEF RowsInv
<1> QED BY <1>1, <1>2, <1>3, FewerToWrite

\* The table is emptied, or found empty.
LEMMA EmptyTableKeeps ==
  ASSUME RowsInv, LoseHistory \/ \E r \in Replicas : ReconstructHistory(r)
  PROVE  RowsInv'
<1>1. history' = <<>> /\ UNCHANGED <<merges, pushing, rebuild, contested>>
  BY DEF LoseHistory, ReconstructHistory, deploys
<1>2. history' \in Seq(ToSet(history')) /\ DOMAIN history' = {}
  BY <1>1
<1>3. met' \in [Replicas -> SUBSET DOMAIN merges] /\ listing' \subseteq Replicas
  <2>1. CASE LoseHistory
    BY <2>1, Tables DEF LoseHistory, RowsInv
  <2>2. CASE \E r \in Replicas : ReconstructHistory(r)
    BY <2>2, Tables DEF ReconstructHistory, RowsInv
  <2> QED BY <2>1, <2>2
<1> QED BY <1>1, <1>2, <1>3 DEF RowsInv

\* Who lists takes on no commit it has met, and none that somebody else is to write, but
\* for those that are contested from here on.
LEMMA ListKeeps ==
  ASSUME RowsInv, NEW r \in Replicas, NEW answers \in BOOLEAN, ListCommits(r, answers)
  PROVE  RowsInv'
<1> DEFINE listed == IF answers THEN ListDeployCommits ELSE {}
           others == UNION {rebuild[q] : q \in Replicas}
<1>1. /\ r \in listing /\ listing' = listing \ {r}
      /\ met' = [met EXCEPT ![r] = {}] /\ rebuild' = [rebuild EXCEPT ![r] = listed]
      /\ UNCHANGED <<merges, pushing, history>>
      /\ contested' = contested \cup (rebuild'[r] \cap (met[r] \cup pushing \cup others))
  BY DEF ListCommits, deploys
<1>2. listed \subseteq DOMAIN merges
  BY DEF ListDeployCommits
<1> HIDE DEF listed
<1>3. /\ {met', rebuild'} \subseteq [Replicas -> SUBSET DOMAIN merges]
      /\ rebuild'[r] = listed /\ met'[r] = {}
      /\ \A q \in Replicas \ {r} : rebuild'[q] = rebuild[q] /\ met'[q] = met[q]
  BY <1>1, <1>2, Tables
<1>4. ASSUME NEW s \in DOMAIN merges \ contested'
      PROVE  /\ s \notin contested
             /\ s \in listed =>
                  s \notin met[r] /\ s \notin pushing /\ \A q \in Replicas : s \notin rebuild[q]
  BY <1>1, <1>3, <1>4
<1> HIDE DEF others
<1>5. ASSUME NEW s \in DOMAIN merges \ contested'
      PROVE  /\ s \in pushing => \A q \in Replicas : s \notin rebuild'[q]
             /\ \A q, u \in Replicas : s \in rebuild'[q] /\ s \in rebuild'[u] => q = u
             /\ \A i \in DOMAIN history : CommitOf(history[i]) = s =>
                  /\ s \notin pushing /\ \A q \in Replicas : s \notin rebuild'[q]
                  /\ \A q \in listing' : s \in met'[q]
                  /\ \A j \in DOMAIN history : CommitOf(history[j]) = s => j = i
  <2>1. /\ s \in pushing => \A q \in Replicas : s \notin rebuild[q]
        /\ \A q, u \in Replicas : s \in rebuild[q] /\ s \in rebuild[u] => q = u
        /\ \A i \in DOMAIN history : CommitOf(history[i]) = s =>
             /\ s \notin pushing /\ \A q \in Replicas : s \notin rebuild[q]
             /\ \A q \in listing : s \in met[q]
             /\ \A j \in DOMAIN history : CommitOf(history[j]) = s => j = i
    BY <1>4, <1>5 DEF RowsInv
  <2>2. listing' \subseteq Replicas \ {r} /\ listing' \subseteq listing
    BY <1>1 DEF RowsInv
  <2>3. CASE s \in listed
    BY <1>1, <1>3, <1>4, <1>5, <2>1, <2>3
  <2>4. CASE s \notin listed
    BY <1>3, <2>1, <2>2, <2>4
  <2> QED BY <2>3, <2>4
<1>6. /\ contested' \subseteq DOMAIN merges /\ listing' \subseteq Replicas
      /\ merges \in Seq(ToSet(merges)) /\ history \in Seq(ToSet(history))
      /\ pushing \subseteq DOMAIN merges
      /\ \A i \in DOMAIN history : CommitOf(history[i]) \in DOMAIN merges
  BY <1>1, <1>2, <1>3 DEF RowsInv
<1> QED BY <1>1, <1>3, <1>5, <1>6 DEF RowsInv

\* A replica that rebuilds adds the row of a commit that has none, unless it is contested.
LEMMA RebuildKeeps ==
  ASSUME RowsInv, NEW r \in Replicas, NEW s \in DOMAIN merges, NEW written \in BOOLEAN,
         RebuildRow(r, s, written)
  PROVE  RowsInv'
<1>1. /\ s \in rebuild[r] /\ rebuild' = [rebuild EXCEPT ![r] = @ \ {s}]
      /\ UNCHANGED <<merges, pushing, listing, contested>>
  BY DEF RebuildRow, deploys
<1>2. /\ rebuild' \in [Replicas -> SUBSET DOMAIN merges]
      /\ rebuild'[r] = rebuild[r] \ {s}
      /\ \A q \in Replicas \ {r} : rebuild'[q] = rebuild[q]
  BY <1>1, Tables
<1>3. CASE written
  <2>1. PICK row : PushHistory(row) /\ row.sha = NoSHA /\ row.at = s
    BY <1>3 DEF RebuildRow
  <2>2. CommitOf(row) = s
    BY <2>1 DEF CommitOf
  <2>3. s \notin contested =>
          /\ s \notin pushing /\ \A q \in Replicas : s \notin rebuild'[q]
          /\ \A i \in DOMAIN history : CommitOf(history[i]) # s
    BY <1>1, <1>2 DEF RowsInv
  <2> QED BY <1>1, <1>2, <2>1, <2>2, <2>3, AddRow
<1>4. CASE ~written
  <2>1. UNCHANGED <<history, met>>
    BY <1>4 DEF RebuildRow
  <2> QED BY <1>1, <1>2, <2>1, FewerToWrite, Tables
<1> QED BY <1>3, <1>4

\* At first there is at most one row, that of the first deployment.
LEMMA InitHolds ==
  ASSUME Init
  PROVE  RowsInv
<1>1. PICK c : merges = <<c>>
  BY DEF Init
<1>2. PICK row : row.sha = 1 /\ history \in {<<>>, <<row>>}
  BY DEF Init
<1>3. merges \in Seq(ToSet(merges)) /\ DOMAIN merges = 1..1
  BY <1>1 DEF ToSet
<1>4. history \in Seq(ToSet(history)) /\ \A i \in DOMAIN history : history[i] = row
  <2>1. CASE history = <<>>
    BY <2>1 DEF ToSet
  <2>2. CASE history = <<row>>
    BY <2>2 DEF ToSet
  <2> QED BY <1>2, <2>1, <2>2
<1>5. \A i, j \in DOMAIN history : i = j
  BY <1>2
<1>6. \A i \in DOMAIN history : CommitOf(history[i]) \in DOMAIN merges
  <2>1. CommitOf(row) = 1 /\ 1 \in DOMAIN merges
    BY <1>2, <1>3 DEF CommitOf, NoSHA
  <2> QED BY <1>4, <2>1
<1>7. /\ pushing = {} /\ listing = {} /\ contested = {}
      /\ met = [r \in Replicas |-> {}] /\ rebuild = [r \in Replicas |-> {}]
  BY DEF Init
<1> QED BY <1>3, <1>4, <1>5, <1>6, <1>7 DEF RowsInv

-----------------------------------------------------------------------------
(* What the queries return.                                                *)

\* What the types say of the commits, the rows and the number of happenings.
LEMMA Typed ==
  ASSUME TypeOK
  PROVE  /\ MaxMerges \in Nat \ {0}
         /\ Len(merges) \in 0..MaxMerges /\ DOMAIN merges = 1..Len(merges)
         /\ \A s \in DOMAIN merges : merges[s] \in Commit
         /\ Len(history) \in Nat /\ Now \in Nat
         /\ ToSet(history) \subseteq Row /\ Deployed \in Tags \cup {NoTag}
<1>1. MaxMerges \in Nat \ {0}
  BY OutcomeAssumption
<1>2. Len(merges) \in 0..MaxMerges /\ DOMAIN merges = 1..Len(merges) /\ Len(history) \in Nat
  BY <1>1 DEF TypeOK, DeploysTyped
<1>3. \A s \in DOMAIN merges : merges[s] \in Commit
  <2>1. merges \in Seq(Commit)
    BY DEF TypeOK, DeploysTyped
  <2> QED BY <2>1, <1>2
<1>4. ToSet(history) \subseteq Row
  <2>1. history \in Seq(Row)
    BY DEF TypeOK, DeploysTyped
  <2> QED BY <2>1 DEF ToSet
<1>5. Deployed \in Tags \cup {NoTag}
  BY <1>1, <1>2, <1>3 DEF Deployed, TagAfter, Commit
<1>6. Now \in Nat
  BY <1>1, <1>2 DEF Now
<1> QED BY <1>1, <1>2, <1>3, <1>4, <1>5, <1>6

\* Of rows there are, with a time none is later than, some are the newest.
LEMMA NewestIsThere ==
  ASSUME NEW entries, entries # {}, NEW now \in Nat, \A e \in entries : e.at \in Nat /\ e.at <= now
  PROVE  Newest(entries) # {}
<1> DEFINE Ages == {k \in Nat : \E e \in entries : k = now - e.at}
<1>1. PICK e \in entries : TRUE
  OBVIOUS
<1>2. now - e.at \in Ages
  BY <1>1
<1>3. PICK m \in Ages : \A k \in Ages : m <= k
  <2> HIDE DEF Ages
  <2>1. Ages \subseteq Nat
    BY DEF Ages
  <2> QED BY <1>2, <2>1, LeastNumber
<1>4. PICK d \in entries : m = now - d.at
  OBVIOUS
<1>5. \A x \in entries : now - x.at \in Ages
  OBVIOUS
<1>6. \A x \in entries : x.at <= d.at
  <2> HIDE DEF Ages
  <2> QED BY <1>3, <1>4, <1>5
<1> QED BY <1>6 DEF Newest

\* Of own rows there is a newest one, and of two at least a second.
LEMMA OwnRows ==
  ASSUME TypeOK, RecordInv, NEW entries, entries \subseteq GetHistory(FullName)
  PROVE  /\ entries # {} => First(entries) \in Newest(entries)
         /\ AtLeastTwo(entries) =>
              /\ First(entries) \in Newest(entries)
              /\ Second(entries) \in Newest(entries \ {First(entries)})
<1>1. Now \in Nat /\ \A e \in entries : e.at \in Nat /\ e.at <= Now
  BY Typed DEF RecordInv, GetHistory, Row
<1>2. \A some \in SUBSET entries : some # {} => First(some) \in Newest(some)
  BY <1>1, NewestIsThere DEF First
<1>3. AtLeastTwo(entries) => entries # {} /\ entries \ {First(entries)} # {}
  BY DEF AtLeastTwo
<1> QED BY <1>2, <1>3 DEF Second

-----------------------------------------------------------------------------
(* Types.                                                                  *)

\* Notifications, messages and health checks stay about commits there are.
LEMMA NoticesKept ==
  ASSUME NoticesTyped, DOMAIN merges \subseteq DOMAIN merges',
         UNCHANGED <<inbox, results, channel>>,
         \/ UNCHANGED monitors
         \/ /\ DOMAIN monitors' \subseteq DOMAIN merges'
            /\ \A s \in DOMAIN monitors' : monitors'[s] \in {"none", "healthy", "unhealthy"}
  PROVE  NoticesTyped'
<1>1. Notification \subseteq Notification' /\ Prompt \subseteq Prompt'
  BY DEF Notification, Prompt
<1>2. inbox' \cup {x.n : x \in results'} \subseteq Notification'
  BY <1>1 DEF NoticesTyped
<1>3. channel' \in [alerts : SUBSET DOMAIN merges', replies : SUBSET DOMAIN merges',
                    prompts : SUBSET Prompt', dismissed : SUBSET channel'.prompts]
  BY <1>1 DEF NoticesTyped
<1>4. /\ DOMAIN monitors' \subseteq DOMAIN merges'
      /\ \A s \in DOMAIN monitors' : monitors'[s] \in {"none", "healthy", "unhealthy"}
  BY DEF NoticesTyped
<1> QED BY <1>2, <1>3, <1>4 DEF NoticesTyped

\* A merge appends a commit and leaves everything else in its type.
LEMMA MergeTyped ==
  ASSUME TypeOK, NEW t \in Tags, Merge(t) \/ \E ours \in BOOLEAN : MergeOutside(t, ours)
  PROVE  TypeOK'
<1>1. PICK c \in Commit : merges' = Append(merges, c)
  BY DEF Merge, MergeOutside, Commit
<1>2. /\ Len(merges) < MaxMerges /\ pushing' \subseteq pushing \cup {Len(merges) + 1}
      /\ UNCHANGED <<history, listing, met, rebuild, contested, inbox, results, channel, monitors,
                      opening, proposal>>
  BY DEF Merge, MergeOutside, rows, argocd, health, rollback
<1>3. /\ merges' \in Seq(Commit) /\ Len(merges') = Len(merges) + 1
      /\ DOMAIN merges' = 1..(Len(merges) + 1)
  <2>1. merges \in Seq(Commit)
    BY DEF TypeOK, DeploysTyped
  <2> QED BY <1>1, <2>1, AppendProperties, LenProperties
<1>4. DOMAIN merges \subseteq DOMAIN merges' /\ Len(merges) + 1 \in DOMAIN merges'
      /\ Len(merges') <= MaxMerges
  BY <1>2, <1>3, Typed
<1>5. {met, rebuild} \subseteq [Replicas -> SUBSET DOMAIN merges']
  BY <1>4 DEF TypeOK, DeploysTyped
<1>6. DeploysTyped'
  BY <1>2, <1>3, <1>4, <1>5 DEF TypeOK, DeploysTyped
<1>7. NoticesTyped'
  BY <1>2, <1>4, NoticesKept DEF TypeOK
<1> QED BY <1>2, <1>6, <1>7 DEF TypeOK, RollbackTyped

\* A row that is written is of a commit there is.
LEMMA RowTyped ==
  ASSUME TypeOK, NEW row \in Row, history' = Append(history, row)
  PROVE  history' \in Seq(Row)
<1>1. history \in Seq(Row)
  BY DEF TypeOK, DeploysTyped
<1> QED BY <1>1, AppendProperties

\* Who lists meets commits there are.
LEMMA MetTyped ==
  ASSUME TypeOK, NEW row, PushHistory(row), CommitOf(row) \in DOMAIN merges
  PROVE  met' \in [Replicas -> SUBSET DOMAIN merges]
<1>1. met \in [Replicas -> SUBSET DOMAIN merges]
  BY DEF TypeOK, DeploysTyped
<1> QED BY <1>1 DEF PushHistory

\* The row and the monitor of a deployment are a row and a monitor.
LEMMA CompleteTyped ==
  ASSUME TypeOK, NEW s \in pushing, NEW written \in BOOLEAN, NEW monitored \in BOOLEAN,
         Complete(s, written, monitored)
  PROVE  TypeOK'
<1>1. /\ UNCHANGED <<merges, listing, rebuild, contested, inbox, results, channel, opening,
                      proposal>>
      /\ pushing' = pushing \ {s}
  BY DEF Complete, argocd, rollback
<1>2. s \in DOMAIN merges /\ s \in 0..MaxMerges
  BY Typed DEF TypeOK, DeploysTyped
<1>3. history' \in Seq(Row)
  <2>1. CASE written
    <3>1. [app |-> FullName, tag |-> merges[s].tag, sha |-> s, at |-> Now + 1,
           handle |-> merges[s].handle] \in Row
      BY <1>2, Typed DEF Row, Commit
    <3> QED BY <2>1, <3>1, RowTyped DEF Complete, PushHistory
  <2>2. CASE ~written
    BY <2>2 DEF Complete, TypeOK, DeploysTyped
  <2> QED BY <2>1, <2>2
<1>4. DeploysTyped'
  <2>1. met' \in [Replicas -> SUBSET DOMAIN merges]
    <3>1. CASE written
      <4>1. PICK row : PushHistory(row) /\ row.sha = s
        BY <3>1 DEF Complete
      <4>2. CommitOf(row) = s
        BY <1>2, <4>1, Typed DEF CommitOf, NoSHA
      <4> QED BY <1>2, <4>1, <4>2, MetTyped
    <3>2. CASE ~written
      BY <3>2 DEF Complete, TypeOK, DeploysTyped
    <3> QED BY <3>1, <3>2
  <2> QED BY <1>1, <1>3, <2>1 DEF TypeOK, DeploysTyped
<1>5. /\ DOMAIN monitors' \subseteq DOMAIN merges'
      /\ \A x \in DOMAIN monitors' : monitors'[x] \in {"none", "healthy", "unhealthy"}
  BY <1>1, <1>2 DEF Complete, TypeOK, NoticesTyped
<1>6. NoticesTyped'
  BY <1>1, <1>5, NoticesKept DEF TypeOK
<1> QED BY <1>1, <1>4, <1>6 DEF TypeOK, RollbackTyped

\* The steps of crashes and rebuilds.
Rebuilds ==
  \/ \E r \in Replicas, handled \in SUBSET (pushing \cup DOMAIN monitors) : Crash(r, handled)
  \/ LoseHistory
  \/ \E r \in Replicas : ReconstructHistory(r)
  \/ \E r \in Replicas, answers \in BOOLEAN : ListCommits(r, answers)
  \/ \E r \in Replicas, s \in DOMAIN merges, written \in BOOLEAN : RebuildRow(r, s, written)

\* A crash, the loss of the table and a rebuild write rows of commits there are, if any,
\* and leave what is posted.
LEMMA TableTyped ==
  ASSUME TypeOK, Rebuilds
  PROVE  TypeOK'
<1>1. /\ UNCHANGED <<merges, inbox, results, channel, proposal>> /\ pushing' \subseteq pushing
      /\ opening' \in {opening, NotOpening} /\ listing' \subseteq listing \cup Replicas
  BY DEF Rebuilds, Crash, LoseHistory, ReconstructHistory, ListCommits, RebuildRow, deploys, argocd,
     health, rollback
<1>2. history' \in Seq(Row)
  <2>1. ASSUME NEW r \in Replicas, NEW s \in DOMAIN merges, RebuildRow(r, s, TRUE)
        PROVE  history' \in Seq(Row)
    <3>1. [app |-> CommitName, tag |-> merges[s].tag, sha |-> NoSHA, at |-> s,
           handle |-> FALSE] \in Row
      BY Typed DEF Row, Commit, NoSHA
    <3> QED BY <2>1, <3>1, RowTyped DEF RebuildRow, PushHistory
  <2>2. history' = history \/ history' = <<>>
        \/ \E r \in Replicas, s \in DOMAIN merges : RebuildRow(r, s, TRUE)
    BY DEF Rebuilds, Crash, LoseHistory, ReconstructHistory, ListCommits, RebuildRow
  <2>3. history \in Seq(Row) /\ <<>> \in Seq(Row)
    BY DEF TypeOK, DeploysTyped
  <2> QED BY <2>1, <2>2, <2>3
<1>3. {met', rebuild'} \subseteq [Replicas -> SUBSET DOMAIN merges] /\ contested' \subseteq DOMAIN merges
  <2>1. /\ met \in [Replicas -> SUBSET DOMAIN merges] /\ rebuild \in [Replicas -> SUBSET DOMAIN merges]
        /\ contested \subseteq DOMAIN merges
    BY DEF TypeOK, DeploysTyped
  <2>2. ASSUME NEW r \in Replicas, NEW s \in DOMAIN merges, NEW written \in BOOLEAN,
               RebuildRow(r, s, written)
        PROVE  {met', rebuild'} \subseteq [Replicas -> SUBSET DOMAIN merges] /\ contested' = contested
    <3>1. rebuild' = [rebuild EXCEPT ![r] = rebuild[r] \ {s}] /\ contested' = contested
      BY <2>2 DEF RebuildRow
    <3>2. CASE written
      <4>1. PICK row : PushHistory(row) /\ row.sha = NoSHA /\ row.at = s
        BY <2>2, <3>2 DEF RebuildRow
      <4>2. CommitOf(row) \in DOMAIN merges
        BY <4>1 DEF CommitOf
      <4> QED BY <2>1, <3>1, <4>1, <4>2, MetTyped
    <3>3. CASE ~written
      <4>1. met' = met
        BY <2>2, <3>3 DEF RebuildRow
      <4> QED BY <2>1, <3>1, <4>1
    <3> QED BY <3>2, <3>3
  <2>3. ASSUME NEW r \in Replicas, NEW handled, Crash(r, handled)
        PROVE  {met', rebuild'} \subseteq [Replicas -> SUBSET DOMAIN merges] /\ contested' = contested
    BY <2>1, <2>3 DEF Crash
  <2>4. ASSUME LoseHistory \/ \E r \in Replicas : ReconstructHistory(r)
        PROVE  {met', rebuild'} \subseteq [Replicas -> SUBSET DOMAIN merges] /\ contested' = contested
    BY <2>1, <2>4 DEF LoseHistory, ReconstructHistory
  <2>5. ASSUME NEW r \in Replicas, NEW answers \in BOOLEAN, ListCommits(r, answers)
        PROVE  {met', rebuild'} \subseteq [Replicas -> SUBSET DOMAIN merges]
               /\ contested' \subseteq DOMAIN merges
    <3>1. PICK some \in SUBSET DOMAIN merges : rebuild' = [rebuild EXCEPT ![r] = some]
      BY <2>5 DEF ListCommits, ListDeployCommits
    <3>2. met' = [met EXCEPT ![r] = {}] /\ contested' \subseteq contested \cup rebuild'[r]
      BY <2>5 DEF ListCommits
    <3> QED BY <2>1, <3>1, <3>2
  <2> QED BY <2>1, <2>2, <2>3, <2>4, <2>5 DEF Rebuilds
<1>4. DeploysTyped'
  BY <1>1, <1>2, <1>3 DEF TypeOK, DeploysTyped
<1>5. \/ UNCHANGED monitors
      \/ /\ DOMAIN monitors' \subseteq DOMAIN merges'
         /\ \A s \in DOMAIN monitors' : monitors'[s] \in {"none", "healthy", "unhealthy"}
  <2>1. ASSUME NEW r \in Replicas, NEW handled, Crash(r, handled)
        PROVE  /\ DOMAIN monitors' \subseteq DOMAIN monitors
               /\ \A s \in DOMAIN monitors' : monitors'[s] = monitors[s]
    BY <2>1 DEF Crash
  <2>2. UNCHANGED monitors \/ \E r \in Replicas : \E handled : Crash(r, handled)
    BY DEF Rebuilds, LoseHistory, ReconstructHistory, ListCommits, RebuildRow, health
  <2>3. /\ DOMAIN monitors \subseteq DOMAIN merges
        /\ \A s \in DOMAIN monitors : monitors[s] \in {"none", "healthy", "unhealthy"}
    BY DEF TypeOK, NoticesTyped
  <2> QED BY <1>1, <2>1, <2>2, <2>3
<1>6. NoticesTyped'
  BY <1>1, <1>5, NoticesKept DEF TypeOK
<1> QED BY <1>1, <1>4, <1>6 DEF TypeOK, RollbackTyped, NotOpening

\* The prompts posted for a commit's row are about it and a row before it.
LEMMA PromptsOfRow ==
  ASSUME TypeOK, NEW sha \in DOMAIN merges, NEW e \in FindHistoryBySHA(sha), NEW age,
         NEW p \in RollbackPrompts(e, age)
  PROVE  /\ e \in ToSet(history) /\ e.sha = sha /\ p \in Prompt /\ p.via = "argocd" /\ p.sha = sha
         /\ \E d \in FindPreviousApprovedBefore(GetHistory(e.app), e) : p.target = d.tag
<1>1. e \in ToSet(history) /\ e.sha = sha
  BY DEF FindHistoryBySHA, Newest
<1>2. PICK d \in FindPreviousApprovedBefore(GetHistory(e.app), e) :
        p = [via |-> "argocd", sha |-> e.sha, failing |-> e.tag, target |-> d.tag]
  BY DEF RollbackPrompts
<1>3. d \in ToSet(history)
  BY DEF FindPreviousApprovedBefore, Newest, GetHistory
<1>4. e.tag \in Tags /\ d.tag \in Tags
  BY <1>1, <1>3, Typed DEF Row
<1> QED BY <1>1, <1>2, <1>4 DEF Prompt

\* What the channel has after a notification: an alert, a reply or a prompt more.
LEMMA HandledTyped ==
  ASSUME TypeOK, NEW n \in inbox, NEW fails \in BOOLEAN, NEW age, NEW lost,
         HandleArgoCDNotification(n, fails, age, lost)
  PROVE  TypeOK'
<1>1. /\ UNCHANGED <<merges, pushing, history, listing, met, rebuild, contested, monitors, opening,
                      proposal>>
      /\ inbox' = inbox \ {n}
  BY DEF HandleArgoCDNotification, deploys, rows, health, rollback
<1>2. n \in Notification /\ n.sha \in DOMAIN merges
  BY DEF TypeOK, NoticesTyped, Notification
<1>3. Prompt' = Prompt /\ Notification' = Notification
  BY <1>1 DEF Prompt, Notification
<1>4. inbox' \cup {x.n : x \in results'} \subseteq Notification
  <2>1. PICK result : results' = results \cup {[n |-> n, result |-> result, lost |-> lost]}
    BY DEF HandleArgoCDNotification
  <2>2. \A x \in results' : x \in results \/ x.n = n
    BY <2>1
  <2> QED BY <1>1, <1>2, <2>2 DEF TypeOK, NoticesTyped
<1>5. channel' \in [alerts : SUBSET DOMAIN merges, replies : SUBSET DOMAIN merges,
                    prompts : SUBSET Prompt, dismissed : SUBSET channel'.prompts]
  <2>1. \A e \in FindHistoryBySHA(n.sha) : RollbackPrompts(e, age) \subseteq Prompt
    BY <1>2, PromptsOfRow
  <2>2. PICK about \in SUBSET {n.sha}, beside \in SUBSET Prompt :
          \/ channel' = [channel EXCEPT !.replies = @ \cup about]
          \/ channel' = [channel EXCEPT !.alerts = @ \cup about, !.prompts = @ \cup beside]
    <3>1. PICK posted \in {UNION {RollbackPrompts(e, age) : e \in FindHistoryBySHA(n.sha)}} : TRUE
      OBVIOUS
    <3>2. posted \subseteq Prompt
      BY <2>1, <3>1
    <3>3. \E about \in SUBSET {n.sha}, beside \in {{}, posted} :
          \/ channel' = [channel EXCEPT !.replies = @ \cup about]
          \/ channel' = [channel EXCEPT !.alerts = @ \cup about, !.prompts = @ \cup beside]
      <4>1. {} \in SUBSET {n.sha} /\ {n.sha} \in SUBSET {n.sha}
        OBVIOUS
      <4> QED BY <3>1, <4>1 DEF HandleArgoCDNotification
    <3> QED BY <3>2, <3>3
  <2>3. channel \in [alerts : SUBSET DOMAIN merges, replies : SUBSET DOMAIN merges,
                     prompts : SUBSET Prompt, dismissed : SUBSET channel.prompts]
    BY DEF TypeOK, NoticesTyped
  <2>4. /\ channel.alerts \cup about \subseteq DOMAIN merges
        /\ channel.replies \cup about \subseteq DOMAIN merges
        /\ channel.prompts \cup beside \subseteq Prompt
        /\ channel.dismissed \subseteq channel.prompts \cup beside
    BY <1>2, <2>3
  <2> QED BY <2>2, <2>3, <2>4
<1>6. NoticesTyped'
  BY <1>1, <1>3, <1>4, <1>5 DEF TypeOK, NoticesTyped
<1> QED BY <1>1, <1>6 DEF TypeOK, DeploysTyped, RollbackTyped

\* Notifications, dismissals and health checks add only prompts and notices.
LEMMA NoticeTyped ==
  ASSUME TypeOK,
         \/ \E s \in DOMAIN merges, trigger \in Triggers, detail \in BOOLEAN :
              Notify(s, trigger, detail)
         \/ \E p \in channel.prompts : HandleArgoCDDismissClick(p)
         \/ \E s \in DOMAIN monitors, healthy \in BOOLEAN : Round(s, healthy)
         \/ \E s \in DOMAIN monitors : Ended(s)
  PROVE  TypeOK'
<1>1. UNCHANGED <<merges, pushing, history, listing, met, rebuild, contested, opening, proposal>>
  BY DEF Notify, HandleArgoCDDismissClick, Round, Ended, Deadline, deploys, rows, rollback
<1>2. Prompt' = Prompt /\ Notification' = Notification
  BY <1>1 DEF Prompt, Notification
<1>3. inbox' \cup {x.n : x \in results'} \subseteq Notification
  <2>1. results' = results
    BY DEF Notify, HandleArgoCDDismissClick, Round, Ended, Deadline, argocd
  <2>2. \A n \in inbox' : n \in inbox \/ n \in Notification
    <3>1. ASSUME NEW s \in DOMAIN merges, NEW trigger \in Triggers, NEW detail \in BOOLEAN,
                 Notify(s, trigger, detail)
          PROVE  inbox' \subseteq inbox \cup Notification
      BY <3>1 DEF Notify, Notification
    <3> QED BY <3>1 DEF HandleArgoCDDismissClick, Round, Ended, Deadline, argocd
  <2> QED BY <2>1, <2>2 DEF TypeOK, NoticesTyped
<1>4. channel' \in [alerts : SUBSET DOMAIN merges, replies : SUBSET DOMAIN merges,
                    prompts : SUBSET Prompt, dismissed : SUBSET channel'.prompts]
  <2>1. channel \in [alerts : SUBSET DOMAIN merges, replies : SUBSET DOMAIN merges,
                     prompts : SUBSET Prompt, dismissed : SUBSET channel.prompts]
    BY DEF TypeOK, NoticesTyped
  <2>2. ASSUME NEW s \in DOMAIN monitors, NEW lost \in BOOLEAN, Deadline(s, lost)
        PROVE  \E posted \in SUBSET Prompt : channel' = [channel EXCEPT !.prompts = @ \cup posted]
    <3>1. [via |-> "health", sha |-> s, failing |-> merges[s].tag, target |-> NoTag] \in Prompt
      BY Typed DEF Prompt, Commit, TypeOK, NoticesTyped
    <3>2. channel' = channel \/ channel' = [channel EXCEPT !.prompts = @ \cup
             {[via |-> "health", sha |-> s, failing |-> merges[s].tag, target |-> NoTag]}]
      BY <2>2 DEF Deadline
    <3>3. channel = [channel EXCEPT !.prompts = @ \cup {}]
      BY <2>1
    <3> QED BY <3>1, <3>2, <3>3
  <2>3. \/ channel' = channel
        \/ \E p \in channel.prompts : channel' = [channel EXCEPT !.dismissed = @ \cup {p}]
        \/ \E posted \in SUBSET Prompt : channel' = [channel EXCEPT !.prompts = @ \cup posted]
    BY <2>2 DEF Notify, HandleArgoCDDismissClick, Round, Ended
  <2> QED BY <2>1, <2>3
<1>5. /\ DOMAIN monitors' \subseteq DOMAIN merges
      /\ \A s \in DOMAIN monitors' : monitors'[s] \in {"none", "healthy", "unhealthy"}
  BY DEF Notify, HandleArgoCDDismissClick, Round, Ended, Deadline, health, TypeOK, NoticesTyped
<1>6. NoticesTyped'
  BY <1>1, <1>2, <1>3, <1>4, <1>5 DEF NoticesTyped
<1> QED BY <1>1, <1>6 DEF TypeOK, DeploysTyped, RollbackTyped

\* A modal offers tags, names as current the newest row's, and does not preselect it.
LEMMA ModalIsTyped ==
  ASSUME TypeOK, RecordInv, NEW via, NEW failing, NEW wanted, NEW lookup \in BOOLEAN,
         NEW modal, modal = RollbackModal(via, failing, wanted, lookup)
  PROVE  /\ modal.options \subseteq Tags /\ modal.initial \in modal.options \cup {NoTag}
         /\ {modal.current, modal.suggested} \subseteq Tags \cup {NoTag}
         /\ modal.current # NoTag =>
              /\ AtLeastTwo(GetHistory(FullName))
              /\ modal.current = First(GetHistory(FullName)).tag
              /\ modal.initial # modal.current
<1> DEFINE approved == IF lookup THEN GetHistory(FullName) ELSE {}
           known == AtLeastTwo(approved)
           current == IF known THEN First(approved).tag ELSE NoTag
           suggested == IF known THEN Second(approved).tag ELSE NoTag
           options == IF known THEN {e.tag : e \in approved} \ {current} ELSE EcrTags
<1>1. \E selected :
        modal = [via |-> via, failing |-> failing, wanted |-> wanted, current |-> current,
                 suggested |-> suggested, options |-> options,
                 initial |-> InitialOption(selected, options)]
  BY DEF RollbackModal
<1>2. /\ modal.options = options /\ modal.current = current /\ modal.suggested = suggested
      /\ modal.initial \in options \cup {NoTag}
  BY <1>1 DEF InitialOption
<1>3. \A e \in approved : e.tag \in Tags
  BY Typed DEF GetHistory, Row
<1>4. known => /\ approved = GetHistory(FullName)
               /\ First(approved) \in approved /\ Second(approved) \in approved
  <2>1. approved \subseteq GetHistory(FullName)
    OBVIOUS
  <2>2. known => approved = GetHistory(FullName)
    BY DEF AtLeastTwo
  <2> HIDE DEF approved
  <2> QED BY <2>1, <2>2, OwnRows DEF Newest
<1>5. EcrTags \subseteq Tags /\ NoTag \notin Tags
  BY OutcomeAssumption
<1>6. known => current \in Tags /\ suggested \in Tags
  <2> HIDE DEF approved
  <2> QED BY <1>3, <1>4
<1>7. options \subseteq Tags
  <2> HIDE DEF approved, known, current
  <2> QED BY <1>3, <1>5
<1>8. current # NoTag => known /\ current \notin options
  <2> HIDE DEF approved
  <2> QED OBVIOUS
<1>9. current \in Tags \cup {NoTag} /\ suggested \in Tags \cup {NoTag}
  <2> HIDE DEF approved, known
  <2> QED BY <1>6
<1>10. current # NoTag => /\ AtLeastTwo(GetHistory(FullName))
                         /\ current = First(GetHistory(FullName)).tag
  BY <1>4, <1>8
<1> HIDE DEF approved, known, current, suggested, options
<1> QED BY <1>2, <1>7, <1>8, <1>9, <1>10

\* The steps that read the history for a rollback, and change nothing else.
Proposing ==
  \/ \E p \in channel.prompts, lookup \in BOOLEAN : HandleArgoCDRollbackClick(p, lookup)
  \/ \E p \in channel.prompts : HandleHealthRollbackClick(p)
  \/ HandleRollback("command", NoTag)
  \/ \E lookup \in BOOLEAN : OpenDeployModal(lookup)
  \/ \E lookup \in BOOLEAN : HandleDeployFilter(lookup)
  \/ HandleMentionRollback

\* What a rollback modal shows and selects are tags there are.
LEMMA ProposalTyped ==
  ASSUME TypeOK, RecordInv, Proposing
  PROVE  RollbackTyped'
<1>1. RollbackTyped /\ NoTag \notin Tags
  BY OutcomeAssumption DEF TypeOK
<1>2. \A e \in GetHistory(FullName) : e.tag \in Tags
  BY Typed DEF GetHistory, Row
<1>3. AtLeastTwo(GetHistory(FullName)) =>
        /\ First(GetHistory(FullName)).tag \in Tags
        /\ Second(GetHistory(FullName)).tag \in Tags
  BY <1>2, OwnRows DEF Newest
<1>4. ASSUME NEW via, NEW failing \in Tags \cup {NoTag}, HandleRollback(via, failing)
      PROVE  RollbackTyped'
  <2>1. /\ opening' = [via |-> via, failing |-> failing, wanted |-> Second(GetHistory(FullName)).tag]
        /\ AtLeastTwo(GetHistory(FullName)) /\ proposal' = proposal
    BY <1>4 DEF HandleRollback
  <2> QED BY <1>1, <1>3, <2>1 DEF RollbackTyped
<1>5. CASE HandleMentionRollback
  <2>1. /\ AtLeastTwo(GetHistory(FullName)) /\ opening' = opening
        /\ proposal' = [via |-> "mention", failing |-> NoTag,
                        wanted |-> Second(GetHistory(FullName)).tag,
                        current |-> First(GetHistory(FullName)).tag,
                        suggested |-> Second(GetHistory(FullName)).tag,
                        options |-> {Second(GetHistory(FullName)).tag},
                        initial |-> Second(GetHistory(FullName)).tag]
    BY <1>5 DEF HandleMentionRollback
  <2> QED BY <1>1, <1>3, <2>1 DEF RollbackTyped
<1>6. ASSUME NEW via, NEW failing, NEW wanted, NEW lookup \in BOOLEAN,
             proposal' = RollbackModal(via, failing, wanted, lookup), opening' \in {opening, NotOpening}
      PROVE  RollbackTyped'
  <2>1. /\ proposal'.options \subseteq Tags
        /\ proposal'.initial \in proposal'.options \cup {NoTag}
        /\ {proposal'.current, proposal'.suggested} \subseteq Tags \cup {NoTag}
    BY <1>6, ModalIsTyped
  <2> QED BY <1>1, <1>6, <2>1 DEF RollbackTyped, NotOpening
<1>7. CASE \E p \in channel.prompts, lookup \in BOOLEAN : HandleArgoCDRollbackClick(p, lookup)
  BY <1>6, <1>7 DEF HandleArgoCDRollbackClick
<1>8. CASE \E lookup \in BOOLEAN : OpenDeployModal(lookup) \/ HandleDeployFilter(lookup)
  BY <1>6, <1>8 DEF OpenDeployModal, HandleDeployFilter
<1>9. \A p \in channel.prompts : p.failing \in Tags
  BY DEF TypeOK, NoticesTyped, Prompt
<1> QED BY <1>4, <1>5, <1>7, <1>8, <1>9 DEF Proposing, HandleHealthRollbackClick

\* Opening or filtering a modal leaves everything else in its type.
LEMMA ProposingTyped ==
  ASSUME TypeOK, RecordInv, Proposing
  PROVE  TypeOK'
<1>1. UNCHANGED <<merges, pushing, history, listing, met, rebuild, contested, inbox, results,
                  channel, monitors>>
  BY DEF Proposing, HandleArgoCDRollbackClick, HandleHealthRollbackClick, HandleRollback,
     OpenDeployModal, HandleDeployFilter, HandleMentionRollback, deploys, rows, argocd, health
<1>2. DeploysTyped' /\ NoticesTyped'
  BY <1>1, NoticesKept DEF TypeOK, DeploysTyped
<1> QED BY <1>2, ProposalTyped DEF TypeOK

-----------------------------------------------------------------------------
(* Rows and prompts say truly what was deployed.                           *)

\* What RecordInv asks of a prompt.
TrueTo(p) ==
  p.via = "argocd" =>
    /\ p.sha \notin pushing
    /\ \A e \in GetHistory(FullName) : e.sha = p.sha =>
         \E d \in FindPreviousApprovedBefore(GetHistory(FullName), e) : p.target = d.tag

\* With the commits and the rows as they were, only prompts that are posted matter.
LEMMA RecordsKept ==
  ASSUME TypeOK, RecordInv, UNCHANGED <<merges, history>>, pushing' \subseteq pushing,
         \A p \in channel'.prompts : p \in channel.prompts \/ TrueTo(p)
  PROVE  RecordInv'
<1>1. \A app : GetHistory(app)' = GetHistory(app)
  BY DEF GetHistory
<1>2. Now' = Now /\ ToSet(history)' = ToSet(history)
  BY DEF Now
<1>3. \A p \in channel'.prompts : TrueTo(p)
  BY DEF TrueTo, RecordInv
<1> QED BY <1>1, <1>2, <1>3 DEF RecordInv, TrueTo

\* A merge adds a commit of another tag and no row, so the rows stay true of theirs.
LEMMA MergeRecords ==
  ASSUME TypeOK, RecordInv, NEW t \in Tags, Merge(t) \/ \E ours \in BOOLEAN : MergeOutside(t, ours)
  PROVE  RecordInv'
<1>1. PICK c \in Commit : merges' = Append(merges, c) /\ c.tag = t /\ t # Deployed
  BY DEF Merge, MergeOutside, Commit
<1>2. /\ pushing' \subseteq pushing \cup {Len(merges) + 1}
      /\ UNCHANGED <<history, channel>>
  BY DEF Merge, MergeOutside, rows
<1>3. /\ Len(merges) \in Nat /\ DOMAIN merges = 1..Len(merges)
      /\ Len(merges') = Len(merges) + 1 /\ DOMAIN merges' = 1..(Len(merges) + 1)
      /\ \A s \in DOMAIN merges : merges'[s] = merges[s]
      /\ merges'[Len(merges) + 1] = c
  <2>1. merges \in Seq(Commit)
    BY DEF TypeOK, DeploysTyped
  <2> QED BY <1>1, <2>1, AppendProperties, LenProperties
<1>4. \A s \in DOMAIN merges' : s > 1 => merges'[s].tag # merges'[s - 1].tag
  <2>1. SUFFICES ASSUME NEW s \in DOMAIN merges', s > 1 PROVE merges'[s].tag # merges'[s - 1].tag
    OBVIOUS
  <2>2. CASE s \in DOMAIN merges
    BY <1>3, <2>1, <2>2 DEF RecordInv
  <2>3. CASE s = Len(merges) + 1
    <3>1. Deployed = merges[Len(merges)].tag
      BY <1>3, <2>1, <2>3 DEF Deployed, TagAfter
    <3>2. s - 1 = Len(merges) /\ Len(merges) \in DOMAIN merges
      BY <1>3, <2>1, <2>3
    <3>3. merges'[s] = c /\ merges'[s - 1] = merges[Len(merges)]
      BY <1>3, <2>3, <3>2
    <3> QED BY <1>1, <3>1, <3>3
  <2> QED BY <1>3, <2>1, <2>2, <2>3
<1>5. \A app : GetHistory(app)' = GetHistory(app)
  BY <1>2 DEF GetHistory
<1>6. Now \in Nat /\ Now' = Now + 1
  BY <1>2, <1>3, Typed DEF Now
<1>7. \A s \in DOMAIN merges : s \in DOMAIN merges' /\ (s \notin pushing => s \notin pushing')
  BY <1>2, <1>3
<1>8. \A e \in GetHistory(FullName) :
        /\ e.sha \in DOMAIN merges' \ pushing' /\ e.tag = merges'[e.sha].tag /\ e.at <= Now'
        /\ \A d \in GetHistory(FullName) : d.sha = e.sha \/ d.at = e.at => d = e
  <2>1. \A e \in GetHistory(FullName) : e.at \in Nat
    BY Typed DEF GetHistory, Row
  <2> QED BY <1>3, <1>6, <1>7, <2>1 DEF RecordInv
<1>9. \A p \in channel.prompts : p.sha \in DOMAIN merges
  BY DEF TypeOK, NoticesTyped, Prompt
<1> QED BY <1>2, <1>4, <1>5, <1>7, <1>8, <1>9 DEF RecordInv

\* A row that is added is among the rows, with those there were.
LEMMA RowsGrow ==
  ASSUME TypeOK, NEW row \in Row, history' = Append(history, row)
  PROVE  ToSet(history)' = ToSet(history) \cup {row} /\ Len(history') = Len(history) + 1
<1>1. history \in Seq(Row)
  BY DEF TypeOK, DeploysTyped
<1>2. /\ Len(history) \in Nat /\ DOMAIN history = 1..Len(history)
      /\ Len(history') = Len(history) + 1 /\ DOMAIN history' = 1..(Len(history) + 1)
      /\ \A i \in DOMAIN history : history'[i] = history[i]
      /\ history'[Len(history) + 1] = row
  BY <1>1, AppendProperties, LenProperties
<1> QED BY <1>2 DEF ToSet

\* The row of a deploy is the first of its commit, newer than all rows there are.
LEMMA CompleteRecords ==
  ASSUME TypeOK, RecordInv, NEW s \in pushing, NEW written \in BOOLEAN, NEW monitored \in BOOLEAN,
         Complete(s, written, monitored)
  PROVE  RecordInv'
<1>1. UNCHANGED <<merges, channel>> /\ pushing' = pushing \ {s}
  BY DEF Complete
<1>2. CASE ~written
  BY <1>1, <1>2, RecordsKept DEF Complete
<1>3. CASE written
  <2> DEFINE row == [app |-> FullName, tag |-> merges[s].tag, sha |-> s, at |-> Now + 1,
                     handle |-> merges[s].handle]
  <2>1. s \in DOMAIN merges /\ s \in 1..MaxMerges /\ s # NoSHA
    BY Typed DEF TypeOK, DeploysTyped, NoSHA
  <2>2. row \in Row
    BY <2>1, Typed DEF Row, Commit
  <2>3. history' = Append(history, row)
    BY <1>3 DEF Complete, PushHistory
  <2>4. row.app = FullName /\ row.sha = s /\ row.at = Now + 1 /\ row.tag = merges[s].tag
    OBVIOUS
  <2> HIDE DEF row
  <2>5. ToSet(history)' = ToSet(history) \cup {row} /\ Len(history') = Len(history) + 1
    BY <2>2, <2>3, RowsGrow
  <2>6. GetHistory(FullName)' = GetHistory(FullName) \cup {row}
    BY <2>4, <2>5 DEF GetHistory
  <2>7. Now \in Nat /\ Now' = Now + 1 /\ Len(history) \in Nat
    BY <1>1, <2>5, Typed DEF Now
  <2>8. \A e \in GetHistory(FullName) :
          e.sha # s /\ e.at \in Nat /\ e.at <= Now /\ e.at < row.at
    BY <2>4, <2>7, Typed DEF RecordInv, GetHistory, Row
  <2>9. \A e \in GetHistory(FullName)' :
          /\ e.sha \in DOMAIN merges' \ pushing' /\ e.tag = merges'[e.sha].tag /\ e.at <= Now'
          /\ \A d \in GetHistory(FullName)' : d.sha = e.sha \/ d.at = e.at => d = e
    <3>1. \A e \in GetHistory(FullName)' :
            e.sha \in DOMAIN merges' \ pushing' /\ e.tag = merges'[e.sha].tag /\ e.at <= Now'
      BY <1>1, <2>1, <2>4, <2>6, <2>7, <2>8 DEF RecordInv
    <3>2. \A d, e \in GetHistory(FullName)' : d.sha = e.sha \/ d.at = e.at => d = e
      BY <2>4, <2>6, <2>8 DEF RecordInv
    <3> QED BY <3>1, <3>2
  <2>10. \A e \in ToSet(history)' : e.sha # NoSHA <=> e.app = FullName
    BY <2>1, <2>4, <2>5 DEF RecordInv
  <2>11. \A e \in GetHistory(FullName) :
           FindPreviousApprovedBefore(GetHistory(FullName)', e)
             = FindPreviousApprovedBefore(GetHistory(FullName), e)
    <3>1. \A e \in GetHistory(FullName) :
            {x \in GetHistory(FullName)' : x.at < e.at} = {x \in GetHistory(FullName) : x.at < e.at}
      BY <2>4, <2>6, <2>7, <2>8
    <3> QED BY <3>1 DEF FindPreviousApprovedBefore
  <2>12. ASSUME NEW p \in channel.prompts, p.via = "argocd"
         PROVE  /\ p.sha \notin pushing'
                /\ \A e \in GetHistory(FullName)' : e.sha = p.sha =>
                     \E d \in FindPreviousApprovedBefore(GetHistory(FullName)', e) : p.target = d.tag
    <3>1. p.sha \notin pushing
      BY <2>12 DEF RecordInv
    <3>2. \A e \in GetHistory(FullName)' : e.sha = p.sha => e \in GetHistory(FullName)
      BY <2>4, <2>6, <3>1
    <3> QED BY <1>1, <2>11, <2>12, <3>1, <3>2 DEF RecordInv
  <2>13. \A x \in DOMAIN merges' : x > 1 => merges'[x].tag # merges'[x - 1].tag
    BY <1>1 DEF RecordInv
  <2> QED BY <1>1, <2>9, <2>10, <2>12, <2>13 DEF RecordInv, FindPreviousApprovedBefore, Newest
<1> QED BY <1>2, <1>3

\* A table that is emptied or rebuilt has no row of a commit that is new.
LEMMA TableRecords ==
  ASSUME TypeOK, RecordInv, Rebuilds
  PROVE  RecordInv'
<1>1. UNCHANGED <<merges, channel>> /\ pushing' \subseteq pushing
  BY DEF Rebuilds, Crash, LoseHistory, ReconstructHistory, ListCommits, RebuildRow, deploys
<1>2. CASE UNCHANGED history
  BY <1>1, <1>2, RecordsKept
<1>3. CASE history' = <<>>
  <2>1. ToSet(history)' = {} /\ GetHistory(FullName)' = {}
    BY <1>3 DEF ToSet, GetHistory
  <2> QED BY <1>1, <2>1 DEF RecordInv
<1>4. ASSUME NEW r \in Replicas, NEW s \in DOMAIN merges, RebuildRow(r, s, TRUE)
      PROVE  RecordInv'
  <2> DEFINE row == [app |-> CommitName, tag |-> merges[s].tag, sha |-> NoSHA, at |-> s,
                     handle |-> FALSE]
  <2>1. row \in Row
    BY Typed DEF Row, Commit, NoSHA
  <2>2. history' = Append(history, row)
    BY <1>4 DEF RebuildRow, PushHistory
  <2>3. row.app # FullName /\ row.sha = NoSHA
    BY OutcomeAssumption
  <2> HIDE DEF row
  <2>4. ToSet(history)' = ToSet(history) \cup {row} /\ Len(history') = Len(history) + 1
    BY <2>1, <2>2, RowsGrow
  <2>5. GetHistory(FullName)' = GetHistory(FullName)
    BY <2>3, <2>4 DEF GetHistory
  <2>6. Now \in Nat /\ Now' = Now + 1 /\ \A e \in GetHistory(FullName) : e.at \in Nat
    BY <1>1, <2>4, Typed DEF Now, GetHistory, Row
  <2>7. \A e \in ToSet(history)' : e.sha # NoSHA <=> e.app = FullName
    BY <2>3, <2>4 DEF RecordInv
  <2> QED BY <1>1, <2>5, <2>6, <2>7 DEF RecordInv, FindPreviousApprovedBefore, Newest
<1> QED BY <1>2, <1>3, <1>4
     DEF Rebuilds, Crash, LoseHistory, ReconstructHistory, ListCommits, RebuildRow

\* A prompt is posted with the tag of the row before that of its commit.
LEMMA HandledRecords ==
  ASSUME TypeOK, RecordInv, NEW n \in inbox, NEW fails \in BOOLEAN, NEW age, NEW lost,
         HandleArgoCDNotification(n, fails, age, lost)
  PROVE  RecordInv'
<1>1. UNCHANGED <<merges, history, pushing>>
  BY DEF HandleArgoCDNotification, deploys, rows
<1>2. n.sha \in DOMAIN merges /\ n.sha # NoSHA
  BY Typed DEF TypeOK, NoticesTyped, Notification, NoSHA
<1>3. ASSUME NEW e \in FindHistoryBySHA(n.sha), NEW p \in RollbackPrompts(e, age)
      PROVE  TrueTo(p)
  <2>1. /\ e \in ToSet(history) /\ e.sha = n.sha /\ p.sha = n.sha
        /\ \E d \in FindPreviousApprovedBefore(GetHistory(e.app), e) : p.target = d.tag
    BY <1>2, <1>3, PromptsOfRow
  <2>2. e.app = FullName /\ e \in GetHistory(FullName)
    BY <1>2, <2>1 DEF RecordInv, GetHistory
  <2>3. p.sha \notin pushing /\ \A x \in GetHistory(FullName) : x.sha = p.sha => x = e
    BY <2>1, <2>2 DEF RecordInv
  <2> QED BY <2>1, <2>2, <2>3 DEF TrueTo
<1>4. \A p \in channel'.prompts :
        \/ p \in channel.prompts
        \/ \E e \in FindHistoryBySHA(n.sha) : p \in RollbackPrompts(e, age)
  <2> DEFINE posted == UNION {RollbackPrompts(e, age) : e \in FindHistoryBySHA(n.sha)}
  <2>1. \E about, beside : beside \subseteq posted /\
          \/ channel' = [channel EXCEPT !.replies = @ \cup about]
          \/ channel' = [channel EXCEPT !.alerts = @ \cup about, !.prompts = @ \cup beside]
    <3>1. {} \subseteq posted /\ posted \subseteq posted
      OBVIOUS
    <3> QED BY <3>1 DEF HandleArgoCDNotification
  <2>2. channel \in [alerts : SUBSET DOMAIN merges, replies : SUBSET DOMAIN merges,
                     prompts : SUBSET Prompt, dismissed : SUBSET channel.prompts]
    BY DEF TypeOK, NoticesTyped
  <2>3. \A p \in channel'.prompts : p \in channel.prompts \/ p \in posted
    <3> HIDE DEF posted
    <3> QED BY <2>1, <2>2
  <2> QED BY <2>3
<1> QED BY <1>1, <1>3, <1>4, RecordsKept

\* Of the other steps only a health check posts a prompt, and not one of ArgoCD's.
LEMMA OtherRecords ==
  ASSUME TypeOK, RecordInv,
         \/ \E s \in DOMAIN merges, trigger \in Triggers, detail \in BOOLEAN :
              Notify(s, trigger, detail)
         \/ \E p \in channel.prompts : HandleArgoCDDismissClick(p)
         \/ \E s \in DOMAIN monitors, healthy \in BOOLEAN : Round(s, healthy)
         \/ \E s \in DOMAIN monitors : Ended(s)
         \/ Proposing
  PROVE  RecordInv'
<1>1. UNCHANGED <<merges, history, pushing>>
  BY DEF Notify, HandleArgoCDDismissClick, Round, Ended, Deadline, Proposing, HandleArgoCDRollbackClick,
     HandleHealthRollbackClick, HandleRollback, OpenDeployModal, HandleDeployFilter,
     HandleMentionRollback, deploys, rows
<1>2. channel \in [alerts : SUBSET DOMAIN merges, replies : SUBSET DOMAIN merges,
                   prompts : SUBSET Prompt, dismissed : SUBSET channel.prompts]
  BY DEF TypeOK, NoticesTyped
<1>3. \A p \in channel'.prompts : p \in channel.prompts \/ p.via = "health"
  <2>1. ASSUME NEW s, NEW lost, Deadline(s, lost)
        PROVE  \A p \in channel'.prompts : p \in channel.prompts \/ p.via = "health"
    BY <1>2, <2>1 DEF Deadline
  <2>2. CASE \E p \in channel.prompts : HandleArgoCDDismissClick(p)
    BY <1>2, <2>2 DEF HandleArgoCDDismissClick
  <2> QED BY <2>1, <2>2 DEF Notify, Round, Ended, Proposing, HandleArgoCDRollbackClick,
        HandleHealthRollbackClick, HandleRollback, OpenDeployModal, HandleDeployFilter,
        HandleMentionRollback
<1> QED BY <1>1, <1>3, RecordsKept DEF TrueTo

\* The initial state has its types, and its row, if any, is true.
LEMMA InitTyped ==
  ASSUME Init
  PROVE  TypeOK /\ RecordInv
<1> DEFINE c == [tag |-> FirstTag, handle |-> TRUE, ours |-> TRUE]
           row == [app |-> FullName, tag |-> FirstTag, sha |-> 1, at |-> 2, handle |-> TRUE]
<1>1. merges = <<c>> /\ history \in {<<>>, <<row>>} /\ pushing = {}
  BY DEF Init
<1>2. /\ listing = {} /\ contested = {} /\ inbox = {} /\ results = {}
      /\ met = [r \in Replicas |-> {}] /\ rebuild = [r \in Replicas |-> {}]
      /\ channel = [alerts |-> {}, replies |-> {}, prompts |-> {}, dismissed |-> {}]
      /\ monitors = <<>> /\ opening = NotOpening /\ proposal = NoProposal
  BY DEF Init
<1>3. c \in Commit /\ row \in Row /\ c.tag = FirstTag
  BY OutcomeAssumption DEF Commit, Row
<1>4. row.app = FullName /\ row.sha = 1 /\ row.at = 2 /\ row.tag = FirstTag
  OBVIOUS
<1> HIDE DEF c, row
<1>5. merges \in Seq(Commit) /\ Len(merges) = 1 /\ DOMAIN merges = 1..1 /\ merges[1] = c
  <2>1. merges \in Seq(Commit)
    BY <1>1, <1>3
  <2>2. Len(merges) = 1 /\ DOMAIN merges = 1..1 /\ merges[1] = c
    BY <1>1
  <2> QED BY <2>1, <2>2
<1>6. history \in Seq(Row) /\ ToSet(history) \subseteq {row} /\ Len(history) \in Nat
      /\ (ToSet(history) # {} => Len(history) = 1)
  <2>1. CASE history = <<>>
    BY <2>1 DEF ToSet
  <2>2. CASE history = <<row>>
    <3>1. history \in Seq(Row)
      BY <1>3, <2>2
    <3>2. Len(history) = 1 /\ DOMAIN history = 1..1 /\ history[1] = row
      BY <2>2
    <3> QED BY <3>1, <3>2 DEF ToSet
  <2> QED BY <1>1, <2>1, <2>2
<1>7. DeploysTyped
  <2>1. Len(merges) <= MaxMerges
    BY <1>5, OutcomeAssumption
  <2>2. {met, rebuild} \subseteq [Replicas -> SUBSET DOMAIN merges]
    BY <1>2
  <2> QED BY <1>1, <1>2, <1>5, <1>6, <2>1, <2>2 DEF DeploysTyped
<1>8. NoticesTyped
  <2>1. DOMAIN monitors = {}
    BY <1>2
  <2> QED BY <1>2, <2>1 DEF NoticesTyped
<1>9. RollbackTyped
  BY <1>2 DEF RollbackTyped, NotOpening, NoProposal
<1>10. RecordInv
  <2>1. \A e \in ToSet(history) : e = row /\ e.at <= Now
    <3>1. ASSUME NEW e \in ToSet(history) PROVE e = row /\ Now = 2
      <4>1. e = row /\ Len(history) = 1
        BY <1>6
      <4> QED BY <1>5, <4>1 DEF Now
    <3> QED BY <1>4, <3>1
  <2>2. \A e \in GetHistory(FullName) : e = row /\ e.at <= Now
    BY <2>1 DEF GetHistory
  <2> QED BY <1>1, <1>2, <1>3, <1>4, <1>5, <2>1, <2>2 DEF RecordInv, NoSHA
<1> QED BY <1>7, <1>8, <1>9, <1>10 DEF TypeOK

-----------------------------------------------------------------------------
(* What follows from rows in order.                                        *)

\* While the first n commits have their rows in order, the newest of the rows before the
\* n-th commit's is the one of the commit before it.
LEMMA BeforeInOrder ==
  ASSUME TypeOK, RecordInv, NEW n \in DOMAIN merges, InOrder(n),
         NEW e \in GetHistory(FullName), e.sha = n,
         NEW d \in FindPreviousApprovedBefore(GetHistory(FullName), e)
  PROVE  d.tag = TagAfter(n - 1)
<1>1. n \in 1..Len(merges) /\ Len(merges) \in Nat /\ DOMAIN merges = 1..Len(merges)
  BY Typed
<1>2. /\ d \in GetHistory(FullName) /\ d.at < e.at
      /\ \A x \in GetHistory(FullName) : x.at < e.at => x.at <= d.at
  BY DEF FindPreviousApprovedBefore, Newest
<1>3. \A x \in GetHistory(FullName) : x.at \in Nat /\ x.sha \in 1..Len(merges)
  BY <1>1, Typed DEF RecordInv, GetHistory, Row
<1>4. \A s \in 1..n : \A x, y \in GetHistory(FullName) : x.sha = s /\ y.sha > s => y.at > x.at
  BY DEF InOrder, RecordInv
<1>5. d.sha < n
  <2>1. d.sha # n
    BY <1>2, <1>3 DEF RecordInv
  <2>2. ~(d.sha > n)
    BY <1>1, <1>2, <1>3, <1>4
  <2> QED BY <1>1, <1>2, <1>3, <2>1, <2>2
<1>6. d.sha = n - 1
  <2>1. SUFFICES ASSUME d.sha < n - 1 PROVE FALSE
    BY <1>1, <1>2, <1>3, <1>5
  <2>2. n - 1 \in 1..n /\ n - 1 < n
    BY <1>1, <1>2, <1>3, <2>1
  <2>3. PICK x \in GetHistory(FullName) : x.sha = n - 1
    BY <2>2 DEF InOrder
  <2>4. x.at < e.at
    BY <1>4, <2>2, <2>3
  <2>5. x.at > d.at
    <3>1. d.sha \in 1..n /\ x.sha > d.sha
      BY <1>1, <1>2, <1>3, <2>1, <2>2, <2>3
    <3> QED BY <1>2, <1>4, <3>1
  <2> QED BY <1>2, <1>3, <2>4, <2>5
<1>7. d.tag = merges[n - 1].tag /\ n - 1 # 0
  BY <1>1, <1>2, <1>3, <1>6 DEF RecordInv
<1> QED BY <1>7 DEF TagAfter

\* While every commit has its row, in order, the newest row is of what is deployed, and
\* the second is not.
LEMMA NewestInOrder ==
  ASSUME TypeOK, RecordInv, InOrder(Len(merges)), AtLeastTwo(GetHistory(FullName))
  PROVE  /\ First(GetHistory(FullName)).tag = Deployed /\ Deployed # NoTag
         /\ Second(GetHistory(FullName)).tag # Deployed
<1> DEFINE entries == GetHistory(FullName)
           n == Len(merges)
           e == First(entries)
           d == Second(entries)
<1>1. n \in Nat /\ DOMAIN merges = 1..n
  BY Typed
<1>2. /\ e \in entries /\ \A x \in entries : x.at <= e.at
      /\ d \in entries /\ d # e /\ \A x \in entries : x # e => x.at <= d.at
  BY OwnRows DEF Newest
<1> HIDE DEF e, d
<1>3. \A x \in entries : x.at \in Nat /\ x.sha \in 1..n
  BY <1>1, Typed DEF RecordInv, GetHistory, Row
<1>4. n \in 1..n
  BY <1>1, <1>2, <1>3
<1>5. \A s \in 1..n : \A x, y \in entries : x.sha = s /\ y.sha > s => y.at > x.at
  BY DEF InOrder, RecordInv
<1>6. \A s \in 1..n : \E x \in entries : x.sha = s
  BY DEF InOrder
<1> HIDE DEF entries, n
<1>7. e.sha = n
  <2>1. PICK x \in entries : x.sha = n
    BY <1>4, <1>6
  <2>2. SUFFICES ASSUME e.sha # n PROVE FALSE
    OBVIOUS
  <2>3. e.sha \in 1..n /\ x.sha > e.sha
    BY <1>1, <1>2, <1>3, <2>1, <2>2
  <2> QED BY <1>2, <1>3, <1>5, <2>1, <2>3
<1>8. e.tag = merges[n].tag /\ d.tag = merges[d.sha].tag /\ d.sha # n
  BY <1>2, <1>7 DEF RecordInv, entries
<1>9. d.sha = n - 1 /\ n - 1 \in 1..n /\ n > 1
  <2>1. d.sha \in 1..n /\ d.sha < n
    BY <1>1, <1>2, <1>3, <1>8
  <2>2. n - 1 \in 1..n /\ n > 1
    BY <1>1, <2>1
  <2>3. PICK x \in entries : x.sha = n - 1
    BY <1>6, <2>2
  <2>4. SUFFICES ASSUME d.sha # n - 1 PROVE FALSE
    BY <2>2
  <2>5. d.sha < n - 1 /\ x.sha > d.sha
    BY <1>1, <2>1, <2>3, <2>4
  <2>6. x.at > d.at
    BY <1>2, <1>5, <2>1, <2>3, <2>5
  <2>7. x # e
    BY <1>1, <1>7, <2>3
  <2> QED BY <1>2, <1>3, <2>6, <2>7
<1>10. merges[n].tag # merges[n - 1].tag
  BY <1>1, <1>4, <1>9 DEF RecordInv
<1>11. Deployed = merges[n].tag /\ Deployed # NoTag
  <2>1. Deployed = merges[n].tag
    BY <1>1, <1>9 DEF Deployed, TagAfter, n
  <2>2. merges[n].tag \in Tags
    BY <1>1, <1>4, Typed DEF Commit
  <2> QED BY <2>1, <2>2, OutcomeAssumption
<1> QED BY <1>8, <1>9, <1>10, <1>11 DEF e, d, entries, n

-----------------------------------------------------------------------------
(* The theorems.                                                           *)

\* The rows, the prompts and those that are to write rows keep to what each may do.
THEOREM Invariance == Spec => []OutcomeInv
<1>1. Init => OutcomeInv
  BY InitHolds, InitTyped DEF OutcomeInv
<1>2. OutcomeInv /\ [Next]_vars => OutcomeInv'
  <2>1. SUFFICES ASSUME OutcomeInv, [Next]_vars PROVE OutcomeInv'
    OBVIOUS
  <2>2. CASE UNCHANGED vars
    <3>1. UNCHANGED <<merges, pushing, history, listing, met, rebuild, contested, inbox, results,
                      channel, monitors, opening, proposal>>
      BY <2>2 DEF vars, deploys, rows, argocd, health, rollback
    <3>2. RowsInv'
      BY <2>1, <3>1, RowsUntouched DEF OutcomeInv, rowVars
    <3>3. RecordInv'
      BY <2>1, <3>1, RecordsKept DEF OutcomeInv
    <3>4. TypeOK'
      BY <2>1, <3>1, NoticesKept DEF OutcomeInv, TypeOK, DeploysTyped, RollbackTyped
    <3> QED BY <3>2, <3>3, <3>4 DEF OutcomeInv
  <2>3. CASE Next
    <3>1. RowsInv'
      BY <2>1, <2>3, MergeKeeps, CompleteKeeps, CrashKeeps, EmptyTableKeeps, ListKeeps, RebuildKeeps,
         OtherActions, RowsUntouched DEF Next, OutcomeInv
    <3>2. TypeOK'
      BY <2>1, <2>3, MergeTyped, CompleteTyped, TableTyped, HandledTyped, NoticeTyped, ProposingTyped
         DEF Next, OutcomeInv, Handled, Rebuilds, Proposing
    <3>3. RecordInv'
      BY <2>1, <2>3, MergeRecords, CompleteRecords, TableRecords, HandledRecords, OtherRecords
         DEF Next, OutcomeInv, Handled, Rebuilds, Proposing
    <3> QED BY <3>1, <3>2, <3>3 DEF OutcomeInv
  <2> QED BY <2>1, <2>2, <2>3
<1> QED BY <1>1, <1>2, PTL DEF Spec

\* Every variable keeps to its type.
THEOREM TypeCorrect == Spec => []TypeOK
<1>1. OutcomeInv => TypeOK
  BY DEF OutcomeInv
<1> QED BY <1>1, Invariance, PTL

\* An ArgoCD prompt proposes what ran before the failing deploy.
THEOREM PromptsGoBack == Spec => []PromptGoesBackOne
<1>1. OutcomeInv => PromptGoesBackOne
  <2>1. SUFFICES ASSUME OutcomeInv, NEW p \in channel.prompts, p.via = "argocd", InOrder(p.sha)
                 PROVE  p.target = TagAfter(p.sha - 1)
    BY DEF PromptGoesBackOne
  <2>2. p.sha \in DOMAIN merges /\ p.sha \in 1..p.sha
    BY <2>1, Typed DEF OutcomeInv, TypeOK, NoticesTyped, Prompt
  <2>3. PICK e \in GetHistory(FullName) : e.sha = p.sha
    BY <2>1, <2>2 DEF InOrder
  <2>4. PICK d \in FindPreviousApprovedBefore(GetHistory(FullName), e) : p.target = d.tag
    BY <2>1, <2>3 DEF OutcomeInv, RecordInv
  <2> QED BY <2>1, <2>2, <2>3, <2>4, BeforeInOrder DEF OutcomeInv
<1> QED BY <1>1, Invariance, PTL

\* A rollback starts from what is deployed, and does not preselect it.
THEOREM RollbacksAreTrue == Spec => RollbackStartsFromDeployed
<1>1. ASSUME OutcomeInv, Next, proposal' # proposal, proposal'.current # NoTag, InOrder(Len(merges))
      PROVE  proposal'.current = Deployed /\ proposal'.initial # Deployed
  <2>1. Proposing
    <3>1. ASSUME \/ Rebuilds
                 \/ \E t \in Tags : Merge(t) \/ \E ours \in BOOLEAN : MergeOutside(t, ours)
                 \/ \E s \in pushing, written \in BOOLEAN, monitored \in BOOLEAN :
                      Complete(s, written, monitored)
          PROVE  proposal' = proposal
      BY <3>1 DEF Rebuilds, Merge, MergeOutside, Complete, Crash, LoseHistory, ReconstructHistory,
         ListCommits, RebuildRow, rollback
    <3>2. ASSUME \/ \E s \in DOMAIN merges, trigger \in Triggers, detail \in BOOLEAN :
                      Notify(s, trigger, detail)
                 \/ \E p \in channel.prompts : HandleArgoCDDismissClick(p)
                 \/ \E s \in DOMAIN monitors : Ended(s) \/ \E healthy \in BOOLEAN : Round(s, healthy)
          PROVE  proposal' = proposal
      BY <3>2 DEF Notify, HandleArgoCDDismissClick, Round, Ended, Deadline, rollback
    <3>3. ASSUME NEW n \in inbox, Handled(n)
          PROVE  proposal' = proposal
      BY <3>3 DEF Handled, HandleArgoCDNotification, rollback
    <3> QED BY <1>1, <3>1, <3>2, <3>3 DEF Next, Rebuilds, Proposing
  <2>2. ASSUME NEW via, NEW failing, NEW wanted, NEW lookup \in BOOLEAN,
               proposal' = RollbackModal(via, failing, wanted, lookup)
        PROVE  proposal'.current = Deployed /\ proposal'.initial # Deployed
    <3>1. /\ AtLeastTwo(GetHistory(FullName))
          /\ proposal'.current = First(GetHistory(FullName)).tag
          /\ proposal'.initial # proposal'.current
      BY <1>1, <2>2, ModalIsTyped DEF OutcomeInv
    <3> QED BY <1>1, <3>1, NewestInOrder DEF OutcomeInv
  <2>3. CASE HandleMentionRollback
    <3>1. /\ AtLeastTwo(GetHistory(FullName))
          /\ proposal'.current = First(GetHistory(FullName)).tag
          /\ proposal'.initial = Second(GetHistory(FullName)).tag
      BY <2>3 DEF HandleMentionRollback
    <3> QED BY <1>1, <3>1, NewestInOrder DEF OutcomeInv
  <2>4. CASE \/ \E p \in channel.prompts, lookup \in BOOLEAN : HandleArgoCDRollbackClick(p, lookup)
             \/ \E lookup \in BOOLEAN : OpenDeployModal(lookup)
             \/ \E lookup \in BOOLEAN : HandleDeployFilter(lookup)
    BY <2>2, <2>4 DEF HandleArgoCDRollbackClick, OpenDeployModal, HandleDeployFilter
  <2>5. CASE HandleRollback("command", NoTag) \/ \E p \in channel.prompts : HandleHealthRollbackClick(p)
    BY <1>1, <2>5 DEF HandleHealthRollbackClick, HandleRollback
  <2> QED BY <2>1, <2>3, <2>4, <2>5 DEF Proposing
<1>2. OutcomeInv /\ [Next]_vars =>
        [ (proposal' # proposal /\ proposal'.current # NoTag /\ InOrder(Len(merges))) =>
            proposal'.current = Deployed /\ proposal'.initial # Deployed ]_vars
  BY <1>1
<1> QED BY <1>2, Invariance, PTL DEF Spec, RollbackStartsFromDeployed

\* A deploy has one row at most, unless a rebuild listed its commit past another's row.
THEOREM OneRow == Spec => []OneRowUnlessContested
<1>1. OutcomeInv => OneRowUnlessContested
  <2>1. SUFFICES ASSUME RowsInv, NEW s \in DOMAIN merges \ contested PROVE Copies(s) <= 1
    BY DEF OneRowUnlessContested, OutcomeInv
  <2> DEFINE Of == {i \in DOMAIN history :
                      history[i].sha = s \/ (history[i].sha = NoSHA /\ history[i].at = s)}
  <2>2. s # NoSHA
    BY <2>1, Appended DEF RowsInv, NoSHA
  <2>3. \A i \in Of : CommitOf(history[i]) = s
    BY <2>2 DEF CommitOf
  <2>4. \A i, j \in Of : i = j
    BY <2>1, <2>3 DEF RowsInv
  <2>5. CASE Of = {}
    BY <2>5, FS_EmptySet DEF Copies
  <2>6. ASSUME NEW i \in Of PROVE Copies(s) <= 1
    <3>1. Of = {i}
      BY <2>4, <2>6
    <3>2. Copies(s) = Cardinality(Of)
      BY DEF Copies
    <3>3. Cardinality({i}) = 1
      BY FS_Singleton
    <3> HIDE DEF Of
    <3> QED BY <3>1, <3>2, <3>3
  <2> QED BY <2>5, <2>6
<1> QED BY <1>1, Invariance, PTL
=============================================================================
