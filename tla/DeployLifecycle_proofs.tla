----------------------- MODULE DeployLifecycle_proofs -----------------------
(***************************************************************************)
(* Proofs about DeployLifecycle, for every value of its constants: any     *)
(* number of apps, requests, replicas, failed calls and crashes.           *)
(*                                                                         *)
(* Each part of LifecycleInv has a lemma that every step preserves it, one *)
(* step of the proof per action; the properties follow from the whole.     *)
(***************************************************************************)
EXTENDS DeployLifecycle, TLAPS

-----------------------------------------------------------------------------
(* What every step preserves.                                              *)

\* Every step keeps the types.  A process that is engaged works on a deploy:
\* without that an update "at on[p]" has no known type.
LEMMA TypeStep ==
  ASSUME TypeOK, ProcessInv, [Next]_vars
  PROVE  TypeOK'
<1> USE LifecycleAssumption
<1> USE DEF LifecycleAssumption, TypeOK, ProcessInv, Engaged, github,
   postgres, redis, procs, requests, Labels, PRStates, RowStates, Jobs,
   Effects, Events, Procs
<1>1. CASE UNCHANGED vars
  BY <1>1 DEF vars
<1>2. ASSUME NEW p \in Workers, NEW d \in Deploys, Request(p, d)
      PROVE  TypeOK'
  <2>1. CASE Submit(p, d)
    BY <2>1 DEF Submit, AcquireLock, Start, Goto
  <2>2. CASE Approve(p, d)
    BY <2>2 DEF Approve, Start, Goto
  <2>3. CASE Reject(p, d)
    BY <2>3 DEF Reject, Start, Goto
  <2>4. CASE Cancel(p, d)
    BY <2>4 DEF Cancel, Start, Goto
  <2> QED BY <1>2, <2>1, <2>2, <2>3, <2>4 DEF Request
<1>3. ASSUME NEW p \in Janitors, Tick(p)
      PROVE  TypeOK'
  <2>1. CASE RunOnce(p)
    BY <2>1 DEF RunOnce, StartJob, Goto, Expired
  <2>2. CASE RecoverStuck(p)
    BY <2>2 DEF RecoverStuck, StartJob, Goto
  <2>3. CASE ReconcileFromGitHub(p)
    BY <2>3 DEF ReconcileFromGitHub, StartJob, Goto
  <2> QED BY <1>3, <2>1, <2>2, <2>3 DEF Tick
<1>4. ASSUME NEW p \in Procs, Step(p)
      PROVE  TypeOK'
  <2>1. CASE CreateDeployPR(p)
    BY <2>1 DEF CreateDeployPR, OpenPR, Goto, Opened, Stay, CallFails,
       CallWorks
  <2>2. CASE CreateDeployPRFails(p)
    BY <2>2 DEF CreateDeployPRFails, Goto, Stay, CallFails, CallWorks
  <2>3. CASE AbandonSubmit(p)
    BY <2>3 DEF AbandonSubmit, ReleaseLock, CallFails, CallWorks, GoIdle, Goto
  <2>4. CASE StoreDeploy(p)
    BY <2>4 DEF StoreDeploy, Set, CallFails, CallWorks, Goto, Stay
  <2>5. CASE AddLabels(p)
    BY <2>5 DEF AddLabels, CallFails, CallWorks, GoIdle, Goto
  <2>6. CASE MarkMerging(p)
    BY <2>6 DEF MarkMerging, UpdateState, CallFails, CallWorks, Goto, Stay
  <2>7. CASE MergeSucceeds(p)
    BY <2>7 DEF MergeSucceeds, Merging, MergePR, Mergeable, Fan, Goto
  <2>8. CASE MergeConflicts(p)
    BY <2>8 DEF MergeConflicts, Merging, GiveUpMerge, Fan, Goto
  <2>9. CASE MergeFails(p)
    BY <2>9 DEF MergeFails, Merging, MergePR, Mergeable, GiveUpMerge, Fan,
       Goto, CallFails
  <2>10. CASE HeadModified(p)
    BY <2>10 DEF HeadModified, GiveUpMerge, Fan, Goto, CallFails
  <2>11. CASE RebaseDeployBranch(p)
    BY <2>11 DEF RebaseDeployBranch, Fan, Goto
  <2>12. CASE RebaseNoChange(p)
    BY <2>12 DEF RebaseNoChange, Fan, Goto
  <2>13. CASE RebaseFails(p)
    BY <2>13 DEF RebaseFails, GiveUpMerge, Fan, Goto, CallFails, CallWorks
  <2>14. CASE ResetToPending(p)
    BY <2>14 DEF ResetToPending, UpdateState, CallFails, CallWorks, GoIdle,
       Goto
  <2>15. CASE FinishClose(p)
    BY <2>15 DEF FinishClose, Call, Resume, GoIdle, Goto, ClosePR, CallFails,
       CallWorks
  <2>16. CASE FinishUnlock(p)
    BY <2>16 DEF FinishUnlock, Call, Resume, GoIdle, Goto, ReleaseLock,
       CallFails, CallWorks
  <2>17. CASE FinishDelete(p)
    BY <2>17 DEF FinishDelete, Call, Resume, GoIdle, Goto, Delete, CallFails,
       CallWorks
  <2>18. CASE FinishRecord(p)
    BY <2>18 DEF FinishRecord, Call, Resume, GoIdle, Goto, EventOf, CallFails,
       CallWorks
  <2>19. CASE ListOpenPRs(p)
    BY <2>19 DEF ListOpenPRs, Goto, CallFails, CallWorks
  <2>20. CASE Rehydrate(p)
    BY <2>20 DEF Rehydrate, Set, Goto, CallFails, CallWorks
  <2>21. CASE ReconcileDone(p)
    BY <2>21 DEF ReconcileDone, GoIdle, Goto
  <2>22. ASSUME NEW d \in Deploys,
               SweepNext(p, d) \/ RecoverMerge(p, d) \/ RecoverFails(p, d)
               \/ ReconcileSkip(p, d) \/ ReconcileMissing(p, d)
        PROVE  TypeOK'
    <3>1. CASE SweepNext(p, d)
      BY <3>1 DEF SweepNext, Take, Goto
    <3>2. CASE RecoverMerge(p, d)
      BY <3>2 DEF RecoverMerge, MergePR, Mergeable, Take, Skip, Goto,
         CallFails, CallWorks
    <3>3. CASE RecoverFails(p, d)
      BY <3>3 DEF RecoverFails, Skip, CallFails, CallWorks
    <3>4. CASE ReconcileSkip(p, d)
      BY <3>4 DEF ReconcileSkip, Skip, CallFails, CallWorks
    <3>5. CASE ReconcileMissing(p, d)
      BY <3>5 DEF ReconcileMissing, Take, Goto
    <3> QED BY <2>22, <3>1, <3>2, <3>3, <3>4, <3>5
  <2> QED BY <1>4, <2>1, <2>2, <2>3, <2>4, <2>5, <2>6, <2>7, <2>8, <2>9,
     <2>10, <2>11, <2>12, <2>13, <2>14, <2>15, <2>16, <2>17, <2>18, <2>19,
     <2>20, <2>21, <2>22 DEF Step
<1>5. ASSUME NEW p \in Procs, Crash(p)
      PROVE  TypeOK'
  BY <1>5 DEF Crash, GoIdle, Goto
<1>6. ASSUME NEW d \in Deploys, BecomeStale(d)
      PROVE  TypeOK'
  BY <1>6 DEF BecomeStale
<1>7. ASSUME NEW a \in Apps, LockTTL(a)
      PROVE  TypeOK'
  BY <1>7 DEF LockTTL, ReleaseLock
<1> QED BY <1>1, <1>2, <1>3, <1>4, <1>5, <1>6, <1>7 DEF Next

\* Every step leaves each process at a label its job can reach.
LEMMA ProcessStep ==
  ASSUME TypeOK, ProcessInv, [Next]_vars
  PROVE  ProcessInv'
<1> USE LifecycleAssumption
<1> USE DEF LifecycleAssumption, TypeOK, ProcessInv, Engaged, github,
   postgres, redis, procs, Labels, Effects, Procs, requests
<1>1. CASE UNCHANGED vars
  BY <1>1 DEF vars
<1>2. ASSUME NEW p \in Workers, NEW d \in Deploys, Request(p, d)
      PROVE  ProcessInv'
  <2>1. CASE Submit(p, d)
    BY <2>1 DEF Submit, AcquireLock, Start, Goto
  <2>2. CASE Approve(p, d)
    BY <2>2 DEF Approve, Start, Goto
  <2>3. CASE Reject(p, d)
    BY <2>3 DEF Reject, Start, Goto
  <2>4. CASE Cancel(p, d)
    BY <2>4 DEF Cancel, Start, Goto
  <2> QED BY <1>2, <2>1, <2>2, <2>3, <2>4 DEF Request
<1>3. ASSUME NEW p \in Janitors, Tick(p)
      PROVE  ProcessInv'
  <2>1. CASE RunOnce(p)
    BY <2>1 DEF RunOnce, StartJob, Goto, Expired
  <2>2. CASE RecoverStuck(p)
    BY <2>2 DEF RecoverStuck, StartJob, Goto
  <2>3. CASE ReconcileFromGitHub(p)
    BY <2>3 DEF ReconcileFromGitHub, StartJob, Goto
  <2> QED BY <1>3, <2>1, <2>2, <2>3 DEF Tick
<1>4. ASSUME NEW p \in Procs, Step(p)
      PROVE  ProcessInv'
  <2>1. CASE CreateDeployPR(p)
    BY <2>1 DEF CreateDeployPR, OpenPR, Goto, Opened, Stay, CallFails,
       CallWorks
  <2>2. CASE CreateDeployPRFails(p)
    BY <2>2 DEF CreateDeployPRFails, Goto, Stay, CallFails, CallWorks
  <2>3. CASE AbandonSubmit(p)
    BY <2>3 DEF AbandonSubmit, ReleaseLock, CallFails, CallWorks, GoIdle, Goto
  <2>4. CASE StoreDeploy(p)
    BY <2>4 DEF StoreDeploy, Set, CallFails, CallWorks, Goto, Stay
  <2>5. CASE AddLabels(p)
    BY <2>5 DEF AddLabels, CallFails, CallWorks, GoIdle, Goto
  <2>6. CASE MarkMerging(p)
    BY <2>6 DEF MarkMerging, UpdateState, CallFails, CallWorks, Goto, Stay
  <2>7. CASE MergeSucceeds(p)
    BY <2>7 DEF MergeSucceeds, Merging, MergePR, Mergeable, Fan, Goto
  <2>8. CASE MergeConflicts(p)
    BY <2>8 DEF MergeConflicts, Merging, GiveUpMerge, Fan, Goto
  <2>9. CASE MergeFails(p)
    BY <2>9 DEF MergeFails, Merging, MergePR, Mergeable, GiveUpMerge, Fan,
       Goto, CallFails
  <2>10. CASE HeadModified(p)
    BY <2>10 DEF HeadModified, GiveUpMerge, Fan, Goto, CallFails
  <2>11. CASE RebaseDeployBranch(p)
    BY <2>11 DEF RebaseDeployBranch, Fan, Goto
  <2>12. CASE RebaseNoChange(p)
    BY <2>12 DEF RebaseNoChange, Fan, Goto
  <2>13. CASE RebaseFails(p)
    BY <2>13 DEF RebaseFails, GiveUpMerge, Fan, Goto, CallFails, CallWorks
  <2>14. CASE ResetToPending(p)
    BY <2>14 DEF ResetToPending, UpdateState, CallFails, CallWorks, GoIdle,
       Goto
  <2>15. CASE FinishClose(p)
    BY <2>15 DEF FinishClose, Call, Resume, GoIdle, Goto, ClosePR, CallFails,
       CallWorks
  <2>16. CASE FinishUnlock(p)
    BY <2>16 DEF FinishUnlock, Call, Resume, GoIdle, Goto, ReleaseLock,
       CallFails, CallWorks
  <2>17. CASE FinishDelete(p)
    BY <2>17 DEF FinishDelete, Call, Resume, GoIdle, Goto, Delete, CallFails,
       CallWorks
  <2>18. CASE FinishRecord(p)
    BY <2>18 DEF FinishRecord, Call, Resume, GoIdle, Goto, EventOf, CallFails,
       CallWorks
  <2>19. CASE ListOpenPRs(p)
    BY <2>19 DEF ListOpenPRs, Goto, CallFails, CallWorks
  <2>20. CASE Rehydrate(p)
    BY <2>20 DEF Rehydrate, Set, Goto, CallFails, CallWorks
  <2>21. CASE ReconcileDone(p)
    BY <2>21 DEF ReconcileDone, GoIdle, Goto
  <2>22. ASSUME NEW d \in Deploys,
               SweepNext(p, d) \/ RecoverMerge(p, d) \/ RecoverFails(p, d)
               \/ ReconcileSkip(p, d) \/ ReconcileMissing(p, d)
        PROVE  ProcessInv'
    <3>1. CASE SweepNext(p, d)
      BY <3>1 DEF SweepNext, Take, Goto
    <3>2. CASE RecoverMerge(p, d)
      BY <3>2 DEF RecoverMerge, MergePR, Mergeable, Take, Skip, Goto,
         CallFails, CallWorks
    <3>3. CASE RecoverFails(p, d)
      BY <3>3 DEF RecoverFails, Skip, CallFails, CallWorks
    <3>4. CASE ReconcileSkip(p, d)
      BY <3>4 DEF ReconcileSkip, Skip, CallFails, CallWorks
    <3>5. CASE ReconcileMissing(p, d)
      BY <3>5 DEF ReconcileMissing, Take, Goto
    <3> QED BY <2>22, <3>1, <3>2, <3>3, <3>4, <3>5
  <2> QED BY <1>4, <2>1, <2>2, <2>3, <2>4, <2>5, <2>6, <2>7, <2>8, <2>9,
     <2>10, <2>11, <2>12, <2>13, <2>14, <2>15, <2>16, <2>17, <2>18, <2>19,
     <2>20, <2>21, <2>22 DEF Step
<1>5. ASSUME NEW p \in Procs, Crash(p)
      PROVE  ProcessInv'
  BY <1>5 DEF Crash, GoIdle, Goto
<1>6. ASSUME NEW d \in Deploys, BecomeStale(d)
      PROVE  ProcessInv'
  BY <1>6 DEF BecomeStale
<1>7. ASSUME NEW a \in Apps, LockTTL(a)
      PROVE  ProcessInv'
  BY <1>7 DEF LockTTL, ReleaseLock
<1> QED BY <1>1, <1>2, <1>3, <1>4, <1>5, <1>6, <1>7 DEF Next

\* Until a pull request exists nobody but the handler about to open it knows
\* of it, and Submit starts no second handler for it.
LEMMA FreshStep ==
  ASSUME TypeOK, ProcessInv, FreshInv, [Next]_vars
  PROVE  FreshInv'
<1> USE LifecycleAssumption
<1> USE DEF LifecycleAssumption, TypeOK, ProcessInv, FreshInv, Engaged,
   github, postgres, redis, procs, Labels, Effects, Procs, requests
<1>1. CASE UNCHANGED vars
  BY <1>1 DEF vars
<1>2. ASSUME NEW p \in Workers, NEW d \in Deploys, Request(p, d)
      PROVE  FreshInv'
  <2>1. CASE Submit(p, d)
    BY <2>1 DEF Submit, AcquireLock, Start, Goto
  <2>2. CASE Approve(p, d)
    BY <2>2 DEF Approve, Start, Goto
  <2>3. CASE Reject(p, d)
    BY <2>3 DEF Reject, Start, Goto
  <2>4. CASE Cancel(p, d)
    BY <2>4 DEF Cancel, Start, Goto
  <2> QED BY <1>2, <2>1, <2>2, <2>3, <2>4 DEF Request
<1>3. ASSUME NEW p \in Janitors, Tick(p)
      PROVE  FreshInv'
  <2>1. CASE RunOnce(p)
    BY <2>1 DEF RunOnce, StartJob, Goto, Expired
  <2>2. CASE RecoverStuck(p)
    BY <2>2 DEF RecoverStuck, StartJob, Goto
  <2>3. CASE ReconcileFromGitHub(p)
    BY <2>3 DEF ReconcileFromGitHub, StartJob, Goto
  <2> QED BY <1>3, <2>1, <2>2, <2>3 DEF Tick
<1>4. ASSUME NEW p \in Procs, Step(p)
      PROVE  FreshInv'
  <2>1. CASE CreateDeployPR(p)
    BY <2>1 DEF CreateDeployPR, OpenPR, Goto, Opened, Stay, CallFails,
       CallWorks
  <2>2. CASE CreateDeployPRFails(p)
    BY <2>2 DEF CreateDeployPRFails, Goto, Stay, CallFails, CallWorks
  <2>3. CASE AbandonSubmit(p)
    BY <2>3 DEF AbandonSubmit, ReleaseLock, CallFails, CallWorks, GoIdle, Goto
  <2>4. CASE StoreDeploy(p)
    BY <2>4 DEF StoreDeploy, Set, CallFails, CallWorks, Goto, Stay
  <2>5. CASE AddLabels(p)
    BY <2>5 DEF AddLabels, CallFails, CallWorks, GoIdle, Goto
  <2>6. CASE MarkMerging(p)
    BY <2>6 DEF MarkMerging, UpdateState, CallFails, CallWorks, Goto, Stay
  <2>7. CASE MergeSucceeds(p)
    BY <2>7 DEF MergeSucceeds, Merging, MergePR, Mergeable, Fan, Goto
  <2>8. CASE MergeConflicts(p)
    BY <2>8 DEF MergeConflicts, Merging, GiveUpMerge, Fan, Goto
  <2>9. CASE MergeFails(p)
    BY <2>9 DEF MergeFails, Merging, MergePR, Mergeable, GiveUpMerge, Fan,
       Goto, CallFails
  <2>10. CASE HeadModified(p)
    BY <2>10 DEF HeadModified, GiveUpMerge, Fan, Goto, CallFails
  <2>11. CASE RebaseDeployBranch(p)
    BY <2>11 DEF RebaseDeployBranch, Fan, Goto
  <2>12. CASE RebaseNoChange(p)
    BY <2>12 DEF RebaseNoChange, Fan, Goto
  <2>13. CASE RebaseFails(p)
    BY <2>13 DEF RebaseFails, GiveUpMerge, Fan, Goto, CallFails, CallWorks
  <2>14. CASE ResetToPending(p)
    BY <2>14 DEF ResetToPending, UpdateState, CallFails, CallWorks, GoIdle,
       Goto
  <2>15. CASE FinishClose(p)
    BY <2>15 DEF FinishClose, Call, Resume, GoIdle, Goto, ClosePR, CallFails,
       CallWorks
  <2>16. CASE FinishUnlock(p)
    BY <2>16 DEF FinishUnlock, Call, Resume, GoIdle, Goto, ReleaseLock,
       CallFails, CallWorks
  <2>17. CASE FinishDelete(p)
    BY <2>17 DEF FinishDelete, Call, Resume, GoIdle, Goto, Delete, CallFails,
       CallWorks
  <2>18. CASE FinishRecord(p)
    BY <2>18 DEF FinishRecord, Call, Resume, GoIdle, Goto, EventOf, CallFails,
       CallWorks
  <2>19. CASE ListOpenPRs(p)
    BY <2>19 DEF ListOpenPRs, Goto, CallFails, CallWorks
  <2>20. CASE Rehydrate(p)
    BY <2>20 DEF Rehydrate, Set, Goto, CallFails, CallWorks
  <2>21. CASE ReconcileDone(p)
    BY <2>21 DEF ReconcileDone, GoIdle, Goto
  <2>22. ASSUME NEW d \in Deploys,
               SweepNext(p, d) \/ RecoverMerge(p, d) \/ RecoverFails(p, d)
               \/ ReconcileSkip(p, d) \/ ReconcileMissing(p, d)
        PROVE  FreshInv'
    <3>1. CASE SweepNext(p, d)
      BY <3>1 DEF SweepNext, Take, Goto
    <3>2. CASE RecoverMerge(p, d)
      BY <3>2 DEF RecoverMerge, MergePR, Mergeable, Take, Skip, Goto,
         CallFails, CallWorks
    <3>3. CASE RecoverFails(p, d)
      BY <3>3 DEF RecoverFails, Skip, CallFails, CallWorks
    <3>4. CASE ReconcileSkip(p, d)
      BY <3>4 DEF ReconcileSkip, Skip, CallFails, CallWorks
    <3>5. CASE ReconcileMissing(p, d)
      BY <3>5 DEF ReconcileMissing, Take, Goto
    <3> QED BY <2>22, <3>1, <3>2, <3>3, <3>4, <3>5
  <2> QED BY <1>4, <2>1, <2>2, <2>3, <2>4, <2>5, <2>6, <2>7, <2>8, <2>9,
     <2>10, <2>11, <2>12, <2>13, <2>14, <2>15, <2>16, <2>17, <2>18, <2>19,
     <2>20, <2>21, <2>22 DEF Step
<1>5. ASSUME NEW p \in Procs, Crash(p)
      PROVE  FreshInv'
  BY <1>5 DEF Crash, GoIdle, Goto
<1>6. ASSUME NEW d \in Deploys, BecomeStale(d)
      PROVE  FreshInv'
  BY <1>6 DEF BecomeStale
<1>7. ASSUME NEW a \in Apps, LockTTL(a)
      PROVE  FreshInv'
  BY <1>7 DEF LockTTL, ReleaseLock
<1> QED BY <1>1, <1>2, <1>3, <1>4, <1>5, <1>6, <1>7 DEF Next

\* Only an approval, or auto_deploy, puts a deploy on the way to a merge.
LEMMA AuthorisedStep ==
  ASSUME TypeOK, ProcessInv, AuthorisedInv, [Next]_vars
  PROVE  AuthorisedInv'
<1> USE LifecycleAssumption
<1> USE DEF LifecycleAssumption, TypeOK, ProcessInv, AuthorisedInv, Engaged,
   github, postgres, redis, procs, Labels, Effects, Procs, requests
<1>1. CASE UNCHANGED vars
  BY <1>1 DEF vars
<1>2. ASSUME NEW p \in Workers, NEW d \in Deploys, Request(p, d)
      PROVE  AuthorisedInv'
  <2>1. CASE Submit(p, d)
    BY <2>1 DEF Submit, AcquireLock, Start, Goto
  <2>2. CASE Approve(p, d)
    BY <2>2 DEF Approve, Start, Goto
  <2>3. CASE Reject(p, d)
    BY <2>3 DEF Reject, Start, Goto
  <2>4. CASE Cancel(p, d)
    BY <2>4 DEF Cancel, Start, Goto
  <2> QED BY <1>2, <2>1, <2>2, <2>3, <2>4 DEF Request
<1>3. ASSUME NEW p \in Janitors, Tick(p)
      PROVE  AuthorisedInv'
  <2>1. CASE RunOnce(p)
    BY <2>1 DEF RunOnce, StartJob, Goto, Expired
  <2>2. CASE RecoverStuck(p)
    BY <2>2 DEF RecoverStuck, StartJob, Goto
  <2>3. CASE ReconcileFromGitHub(p)
    BY <2>3 DEF ReconcileFromGitHub, StartJob, Goto
  <2> QED BY <1>3, <2>1, <2>2, <2>3 DEF Tick
<1>4. ASSUME NEW p \in Procs, Step(p)
      PROVE  AuthorisedInv'
  <2>1. CASE CreateDeployPR(p)
    BY <2>1 DEF CreateDeployPR, OpenPR, Goto, Opened, Stay, CallFails,
       CallWorks
  <2>2. CASE CreateDeployPRFails(p)
    BY <2>2 DEF CreateDeployPRFails, Goto, Stay, CallFails, CallWorks
  <2>3. CASE AbandonSubmit(p)
    BY <2>3 DEF AbandonSubmit, ReleaseLock, CallFails, CallWorks, GoIdle, Goto
  <2>4. CASE StoreDeploy(p)
    BY <2>4 DEF StoreDeploy, Set, CallFails, CallWorks, Goto, Stay
  <2>5. CASE AddLabels(p)
    BY <2>5 DEF AddLabels, CallFails, CallWorks, GoIdle, Goto
  <2>6. CASE MarkMerging(p)
    BY <2>6 DEF MarkMerging, UpdateState, CallFails, CallWorks, Goto, Stay
  <2>7. CASE MergeSucceeds(p)
    BY <2>7 DEF MergeSucceeds, Merging, MergePR, Mergeable, Fan, Goto
  <2>8. CASE MergeConflicts(p)
    BY <2>8 DEF MergeConflicts, Merging, GiveUpMerge, Fan, Goto
  <2>9. CASE MergeFails(p)
    BY <2>9 DEF MergeFails, Merging, MergePR, Mergeable, GiveUpMerge, Fan,
       Goto, CallFails
  <2>10. CASE HeadModified(p)
    BY <2>10 DEF HeadModified, GiveUpMerge, Fan, Goto, CallFails
  <2>11. CASE RebaseDeployBranch(p)
    BY <2>11 DEF RebaseDeployBranch, Fan, Goto
  <2>12. CASE RebaseNoChange(p)
    BY <2>12 DEF RebaseNoChange, Fan, Goto
  <2>13. CASE RebaseFails(p)
    BY <2>13 DEF RebaseFails, GiveUpMerge, Fan, Goto, CallFails, CallWorks
  <2>14. CASE ResetToPending(p)
    BY <2>14 DEF ResetToPending, UpdateState, CallFails, CallWorks, GoIdle,
       Goto
  <2>15. CASE FinishClose(p)
    BY <2>15 DEF FinishClose, Call, Resume, GoIdle, Goto, ClosePR, CallFails,
       CallWorks
  <2>16. CASE FinishUnlock(p)
    BY <2>16 DEF FinishUnlock, Call, Resume, GoIdle, Goto, ReleaseLock,
       CallFails, CallWorks
  <2>17. CASE FinishDelete(p)
    BY <2>17 DEF FinishDelete, Call, Resume, GoIdle, Goto, Delete, CallFails,
       CallWorks
  <2>18. CASE FinishRecord(p)
    BY <2>18 DEF FinishRecord, Call, Resume, GoIdle, Goto, EventOf, CallFails,
       CallWorks
  <2>19. CASE ListOpenPRs(p)
    BY <2>19 DEF ListOpenPRs, Goto, CallFails, CallWorks
  <2>20. CASE Rehydrate(p)
    BY <2>20 DEF Rehydrate, Set, Goto, CallFails, CallWorks
  <2>21. CASE ReconcileDone(p)
    BY <2>21 DEF ReconcileDone, GoIdle, Goto
  <2>22. ASSUME NEW d \in Deploys,
               SweepNext(p, d) \/ RecoverMerge(p, d) \/ RecoverFails(p, d)
               \/ ReconcileSkip(p, d) \/ ReconcileMissing(p, d)
        PROVE  AuthorisedInv'
    <3>1. CASE SweepNext(p, d)
      BY <3>1 DEF SweepNext, Take, Goto
    <3>2. CASE RecoverMerge(p, d)
      BY <3>2 DEF RecoverMerge, MergePR, Mergeable, Take, Skip, Goto,
         CallFails, CallWorks
    <3>3. CASE RecoverFails(p, d)
      BY <3>3 DEF RecoverFails, Skip, CallFails, CallWorks
    <3>4. CASE ReconcileSkip(p, d)
      BY <3>4 DEF ReconcileSkip, Skip, CallFails, CallWorks
    <3>5. CASE ReconcileMissing(p, d)
      BY <3>5 DEF ReconcileMissing, Take, Goto
    <3> QED BY <2>22, <3>1, <3>2, <3>3, <3>4, <3>5
  <2> QED BY <1>4, <2>1, <2>2, <2>3, <2>4, <2>5, <2>6, <2>7, <2>8, <2>9,
     <2>10, <2>11, <2>12, <2>13, <2>14, <2>15, <2>16, <2>17, <2>18, <2>19,
     <2>20, <2>21, <2>22 DEF Step
<1>5. ASSUME NEW p \in Procs, Crash(p)
      PROVE  AuthorisedInv'
  BY <1>5 DEF Crash, GoIdle, Goto
<1>6. ASSUME NEW d \in Deploys, BecomeStale(d)
      PROVE  AuthorisedInv'
  BY <1>6 DEF BecomeStale
<1>7. ASSUME NEW a \in Apps, LockTTL(a)
      PROVE  AuthorisedInv'
  BY <1>7 DEF LockTTL, ReleaseLock
<1> QED BY <1>1, <1>2, <1>3, <1>4, <1>5, <1>6, <1>7 DEF Next

\* GitHub merges a pull request once, so one handler at most gets to record
\* its approval.
LEMMA RecordStep ==
  ASSUME TypeOK, ProcessInv, FreshInv, RecordInv, [Next]_vars
  PROVE  RecordInv'
<1> USE LifecycleAssumption
<1> USE DEF LifecycleAssumption, TypeOK, ProcessInv, FreshInv, RecordInv,
   ApprovedIsMerged, ApprovalRecordedOnce, OwesApproval, Engaged, github,
   postgres, redis, procs, Labels, Effects, Jobs, PRStates, Procs, requests
<1>1. CASE UNCHANGED vars
  BY <1>1 DEF vars
<1>2. ASSUME NEW p \in Workers, NEW d \in Deploys, Request(p, d)
      PROVE  RecordInv'
  <2>1. CASE Submit(p, d)
    BY <2>1 DEF Submit, AcquireLock, Start, Goto
  <2>2. CASE Approve(p, d)
    BY <2>2 DEF Approve, Start, Goto
  <2>3. CASE Reject(p, d)
    BY <2>3 DEF Reject, Start, Goto
  <2>4. CASE Cancel(p, d)
    BY <2>4 DEF Cancel, Start, Goto
  <2> QED BY <1>2, <2>1, <2>2, <2>3, <2>4 DEF Request
<1>3. ASSUME NEW p \in Janitors, Tick(p)
      PROVE  RecordInv'
  <2>1. CASE RunOnce(p)
    BY <2>1 DEF RunOnce, StartJob, Goto, Expired
  <2>2. CASE RecoverStuck(p)
    BY <2>2 DEF RecoverStuck, StartJob, Goto
  <2>3. CASE ReconcileFromGitHub(p)
    BY <2>3 DEF ReconcileFromGitHub, StartJob, Goto
  <2> QED BY <1>3, <2>1, <2>2, <2>3 DEF Tick
<1>4. ASSUME NEW p \in Procs, Step(p)
      PROVE  RecordInv'
  <2>1. CASE CreateDeployPR(p)
    BY <2>1 DEF CreateDeployPR, OpenPR, Goto, Opened, Stay, CallFails,
       CallWorks
  <2>2. CASE CreateDeployPRFails(p)
    BY <2>2 DEF CreateDeployPRFails, Goto, Stay, CallFails, CallWorks
  <2>3. CASE AbandonSubmit(p)
    BY <2>3 DEF AbandonSubmit, ReleaseLock, CallFails, CallWorks, GoIdle, Goto
  <2>4. CASE StoreDeploy(p)
    BY <2>4 DEF StoreDeploy, Set, CallFails, CallWorks, Goto, Stay
  <2>5. CASE AddLabels(p)
    BY <2>5 DEF AddLabels, CallFails, CallWorks, GoIdle, Goto
  <2>6. CASE MarkMerging(p)
    BY <2>6 DEF MarkMerging, UpdateState, CallFails, CallWorks, Goto, Stay
  <2>7. CASE MergeSucceeds(p)
    BY <2>7 DEF MergeSucceeds, Merging, MergePR, Mergeable, Fan, Goto
  <2>8. CASE MergeConflicts(p)
    <3>1. pr' = pr /\ history' = history
      BY <2>8 DEF MergeConflicts
    <3>2. job'[p] \in {job[p], "none"} /\ "record" \notin todo'[p]
      BY <2>8 DEF MergeConflicts, GiveUpMerge, Fan, GoIdle, Goto
    <3>3. \A q \in Procs \ {p} :
             todo'[q] = todo[q] /\ job'[q] = job[q] /\ on'[q] = on[q]
      BY <2>8 DEF MergeConflicts, GiveUpMerge, Fan, GoIdle, Goto
    <3>4. \A d \in Deploys, q \in Procs : OwesApproval(q, d)' => OwesApproval(q, d)
      BY <3>2, <3>3
    <3> QED BY <3>1, <3>4
  <2>9. CASE MergeFails(p)
    <3>1. history' = history /\ \A d \in Deploys : pr[d] = "merged" => pr'[d] = "merged"
      BY <2>9 DEF MergeFails, Merging, MergePR, Mergeable
    <3>2. job'[p] \in {job[p], "none"} /\ "record" \notin todo'[p]
      BY <2>9 DEF MergeFails, GiveUpMerge, Fan, GoIdle, Goto
    <3>3. \A q \in Procs \ {p} :
             todo'[q] = todo[q] /\ job'[q] = job[q] /\ on'[q] = on[q]
      BY <2>9 DEF MergeFails, GiveUpMerge, Fan, GoIdle, Goto
    <3>4. \A d \in Deploys, q \in Procs : OwesApproval(q, d)' => OwesApproval(q, d)
      BY <3>2, <3>3
    <3> QED BY <3>1, <3>4
  <2>10. CASE HeadModified(p)
    <3>1. pr' = pr /\ history' = history
      BY <2>10 DEF HeadModified
    <3>2. job'[p] \in {job[p], "none"} /\ "record" \notin todo'[p]
      BY <2>10 DEF HeadModified, GiveUpMerge, Fan, GoIdle, Goto
    <3>3. \A q \in Procs \ {p} :
             todo'[q] = todo[q] /\ job'[q] = job[q] /\ on'[q] = on[q]
      BY <2>10 DEF HeadModified, GiveUpMerge, Fan, GoIdle, Goto
    <3>4. \A d \in Deploys, q \in Procs : OwesApproval(q, d)' => OwesApproval(q, d)
      BY <3>2, <3>3
    <3> QED BY <3>1, <3>4
  <2>11. CASE RebaseDeployBranch(p)
    BY <2>11 DEF RebaseDeployBranch, Fan, Goto
  <2>12. CASE RebaseNoChange(p)
    BY <2>12 DEF RebaseNoChange, Fan, Goto
  <2>13. CASE RebaseFails(p)
    <3>1. pr' = pr /\ history' = history
      BY <2>13 DEF RebaseFails
    <3>2. job'[p] \in {job[p], "none"} /\ "record" \notin todo'[p]
      BY <2>13 DEF RebaseFails, GiveUpMerge, Fan, GoIdle, Goto
    <3>3. \A q \in Procs \ {p} :
             todo'[q] = todo[q] /\ job'[q] = job[q] /\ on'[q] = on[q]
      BY <2>13 DEF RebaseFails, GiveUpMerge, Fan, GoIdle, Goto
    <3>4. \A d \in Deploys, q \in Procs : OwesApproval(q, d)' => OwesApproval(q, d)
      BY <3>2, <3>3
    <3> QED BY <3>1, <3>4
  <2>14. CASE ResetToPending(p)
    <3>1. pr' = pr /\ history' = history
      BY <2>14 DEF ResetToPending
    <3>2. job'[p] \in {job[p], "none"} /\ "record" \notin todo'[p]
      BY <2>14 DEF ResetToPending, GiveUpMerge, Fan, GoIdle, Goto
    <3>3. \A q \in Procs \ {p} :
             todo'[q] = todo[q] /\ job'[q] = job[q] /\ on'[q] = on[q]
      BY <2>14 DEF ResetToPending, GiveUpMerge, Fan, GoIdle, Goto
    <3>4. \A d \in Deploys, q \in Procs : OwesApproval(q, d)' => OwesApproval(q, d)
      BY <3>2, <3>3
    <3> QED BY <3>1, <3>4
  <2>15. CASE FinishClose(p)
    BY <2>15 DEF FinishClose, Call, Resume, GoIdle, Goto, ClosePR, CallFails,
       CallWorks
  <2>16. CASE FinishUnlock(p)
    <3>1. pr' = pr /\ history' = history
      BY <2>16 DEF FinishUnlock
    <3>2. "record" \in todo'[p] =>
           "record" \in todo[p] /\ job'[p] = job[p] /\ on'[p] = on[p]
      BY <2>16 DEF FinishUnlock, Call, Resume, GoIdle, Goto
    <3>3. \A q \in Procs \ {p} :
             todo'[q] = todo[q] /\ job'[q] = job[q] /\ on'[q] = on[q]
      BY <2>16 DEF FinishUnlock, Call, Resume, GoIdle, Goto
    <3>4. \A d \in Deploys, q \in Procs : OwesApproval(q, d)' => OwesApproval(q, d)
      BY <3>2, <3>3
    <3> QED BY <3>1, <3>4
  <2>17. CASE FinishDelete(p)
    <3>1. pr' = pr /\ history' = history
      BY <2>17 DEF FinishDelete
    <3>2. "record" \in todo'[p] =>
           "record" \in todo[p] /\ job'[p] = job[p] /\ on'[p] = on[p]
      BY <2>17 DEF FinishDelete, Call, Resume, GoIdle, Goto
    <3>3. \A q \in Procs \ {p} :
             todo'[q] = todo[q] /\ job'[q] = job[q] /\ on'[q] = on[q]
      BY <2>17 DEF FinishDelete, Call, Resume, GoIdle, Goto
    <3>4. \A d \in Deploys, q \in Procs : OwesApproval(q, d)' => OwesApproval(q, d)
      BY <3>2, <3>3
    <3> QED BY <3>1, <3>4
  <2>18. CASE FinishRecord(p)
    <3>1. pr' = pr /\ on[p] \in Deploys /\ "record" \in todo[p]
      BY <2>18 DEF FinishRecord, Call
    <3>2. "record" \notin todo'[p]
      BY <2>18 DEF FinishRecord, Call, Resume, GoIdle, Goto
    <3>3. \A q \in Procs \ {p} :
             todo'[q] = todo[q] /\ job'[q] = job[q] /\ on'[q] = on[q]
      BY <2>18 DEF FinishRecord, Call, Resume, GoIdle, Goto
    <3>4. \A d \in Deploys, q \in Procs : OwesApproval(q, d)' => q # p /\ OwesApproval(q, d)
      BY <3>2, <3>3
    <3>5. \A d \in Deploys : \/ history'[d] = history[d]
                             \/ d = on[p] /\ history'[d] = history[d] \cup {EventOf(job[p])}
      BY <2>18, <3>1 DEF FinishRecord
    <3>6. EventOf(job[p]) = "approved" => OwesApproval(p, on[p])
      <4>1. job[p] \in {"submit", "approve", "reject", "cancel", "sweep"}
        BY <3>1
      <4> QED BY <3>1, <4>1 DEF EventOf
    <3> HIDE DEF OwesApproval
    <3>7. ApprovedIsMerged'
      BY <3>1, <3>5, <3>6
    <3>8. ApprovalRecordedOnce'
      BY <3>4, <3>5, <3>6
    <3>9. \A d \in Deploys, q \in Procs : OwesApproval(q, d)' => pr'[d] = "merged"
      BY <3>1, <3>4
    <3> QED BY <3>7, <3>8, <3>9
  <2>19. CASE ListOpenPRs(p)
    BY <2>19 DEF ListOpenPRs, Goto, CallFails, CallWorks
  <2>20. CASE Rehydrate(p)
    BY <2>20 DEF Rehydrate, Set, Goto, CallFails, CallWorks
  <2>21. CASE ReconcileDone(p)
    BY <2>21 DEF ReconcileDone, GoIdle, Goto
  <2>22. ASSUME NEW d \in Deploys,
               SweepNext(p, d) \/ RecoverMerge(p, d) \/ RecoverFails(p, d)
               \/ ReconcileSkip(p, d) \/ ReconcileMissing(p, d)
        PROVE  RecordInv'
    <3>1. CASE SweepNext(p, d)
      BY <3>1 DEF SweepNext, Take, Goto
    <3>2. CASE RecoverMerge(p, d)
      <4>1. history' = history /\ \A e \in Deploys : pr[e] = "merged" => pr'[e] = "merged"
        BY <3>2 DEF RecoverMerge, MergePR, Mergeable
      <4>2. job'[p] \notin {"submit", "approve"}
        BY <3>2 DEF RecoverMerge, Take, Skip
      <4>3. \A q \in Procs \ {p} :
               todo'[q] = todo[q] /\ job'[q] = job[q] /\ on'[q] = on[q]
        BY <3>2 DEF RecoverMerge, Take, Skip
      <4>4. \A e \in Deploys, q \in Procs : OwesApproval(q, e)' => OwesApproval(q, e)
        BY <4>2, <4>3
      <4> QED BY <4>1, <4>4
    <3>3. CASE RecoverFails(p, d)
      BY <3>3 DEF RecoverFails, Skip, CallFails, CallWorks
    <3>4. CASE ReconcileSkip(p, d)
      BY <3>4 DEF ReconcileSkip, Skip, CallFails, CallWorks
    <3>5. CASE ReconcileMissing(p, d)
      BY <3>5 DEF ReconcileMissing, Take, Goto
    <3> QED BY <2>22, <3>1, <3>2, <3>3, <3>4, <3>5
  <2> QED BY <1>4, <2>1, <2>2, <2>3, <2>4, <2>5, <2>6, <2>7, <2>8, <2>9,
     <2>10, <2>11, <2>12, <2>13, <2>14, <2>15, <2>16, <2>17, <2>18, <2>19,
     <2>20, <2>21, <2>22 DEF Step
<1>5. ASSUME NEW p \in Procs, Crash(p)
      PROVE  RecordInv'
  BY <1>5 DEF Crash, GoIdle, Goto
<1>6. ASSUME NEW d \in Deploys, BecomeStale(d)
      PROVE  RecordInv'
  BY <1>6 DEF BecomeStale
<1>7. ASSUME NEW a \in Apps, LockTTL(a)
      PROVE  RecordInv'
  BY <1>7 DEF LockTTL, ReleaseLock
<1> QED BY <1>1, <1>2, <1>3, <1>4, <1>5, <1>6, <1>7 DEF Next

\* The lock of an open pull request is given up only by a ReleaseLock or by
\* its expiry, never by somebody else's AcquireLock.
LEMMA GuardedStep ==
  ASSUME TypeOK, ProcessInv, FreshInv, GuardedInv, [Next]_vars
  PROVE  GuardedInv'
<1> USE LifecycleAssumption
<1> USE DEF LifecycleAssumption, TypeOK, ProcessInv, FreshInv, GuardedInv,
   Engaged, github, postgres, redis, procs, Labels, Procs, requests
<1>1. CASE UNCHANGED vars
  BY <1>1 DEF vars
<1>2. ASSUME NEW p \in Workers, NEW d \in Deploys, Request(p, d)
      PROVE  GuardedInv'
  <2>1. CASE Submit(p, d)
    BY <2>1 DEF Submit, AcquireLock, Start, Goto
  <2>2. CASE Approve(p, d)
    BY <2>2 DEF Approve, Start, Goto
  <2>3. CASE Reject(p, d)
    BY <2>3 DEF Reject, Start, Goto
  <2>4. CASE Cancel(p, d)
    BY <2>4 DEF Cancel, Start, Goto
  <2> QED BY <1>2, <2>1, <2>2, <2>3, <2>4 DEF Request
<1>3. ASSUME NEW p \in Janitors, Tick(p)
      PROVE  GuardedInv'
  <2>1. CASE RunOnce(p)
    BY <2>1 DEF RunOnce, StartJob, Goto, Expired
  <2>2. CASE RecoverStuck(p)
    BY <2>2 DEF RecoverStuck, StartJob, Goto
  <2>3. CASE ReconcileFromGitHub(p)
    BY <2>3 DEF ReconcileFromGitHub, StartJob, Goto
  <2> QED BY <1>3, <2>1, <2>2, <2>3 DEF Tick
<1>4. ASSUME NEW p \in Procs, Step(p)
      PROVE  GuardedInv'
  <2>1. CASE CreateDeployPR(p)
    BY <2>1 DEF CreateDeployPR, OpenPR, Goto, Opened, Stay, CallFails,
       CallWorks
  <2>2. CASE CreateDeployPRFails(p)
    BY <2>2 DEF CreateDeployPRFails, Goto, Stay, CallFails, CallWorks
  <2>3. CASE AbandonSubmit(p)
    BY <2>3 DEF AbandonSubmit, ReleaseLock, CallFails, CallWorks, GoIdle, Goto
  <2>4. CASE StoreDeploy(p)
    BY <2>4 DEF StoreDeploy, Set, CallFails, CallWorks, Goto, Stay
  <2>5. CASE AddLabels(p)
    BY <2>5 DEF AddLabels, CallFails, CallWorks, GoIdle, Goto
  <2>6. CASE MarkMerging(p)
    BY <2>6 DEF MarkMerging, UpdateState, CallFails, CallWorks, Goto, Stay
  <2>7. CASE MergeSucceeds(p)
    BY <2>7 DEF MergeSucceeds, Merging, MergePR, Mergeable, Fan, Goto
  <2>8. CASE MergeConflicts(p)
    BY <2>8 DEF MergeConflicts, Merging, GiveUpMerge, Fan, Goto
  <2>9. CASE MergeFails(p)
    BY <2>9 DEF MergeFails, Merging, MergePR, Mergeable, GiveUpMerge, Fan,
       Goto, CallFails
  <2>10. CASE HeadModified(p)
    BY <2>10 DEF HeadModified, GiveUpMerge, Fan, Goto, CallFails
  <2>11. CASE RebaseDeployBranch(p)
    BY <2>11 DEF RebaseDeployBranch, Fan, Goto
  <2>12. CASE RebaseNoChange(p)
    BY <2>12 DEF RebaseNoChange, Fan, Goto
  <2>13. CASE RebaseFails(p)
    BY <2>13 DEF RebaseFails, GiveUpMerge, Fan, Goto, CallFails, CallWorks
  <2>14. CASE ResetToPending(p)
    BY <2>14 DEF ResetToPending, UpdateState, CallFails, CallWorks, GoIdle,
       Goto
  <2>15. CASE FinishClose(p)
    BY <2>15 DEF FinishClose, Call, Resume, GoIdle, Goto, ClosePR, CallFails,
       CallWorks
  <2>16. CASE FinishUnlock(p)
    BY <2>16 DEF FinishUnlock, Call, Resume, GoIdle, Goto, ReleaseLock,
       CallFails, CallWorks
  <2>17. CASE FinishDelete(p)
    BY <2>17 DEF FinishDelete, Call, Resume, GoIdle, Goto, Delete, CallFails,
       CallWorks
  <2>18. CASE FinishRecord(p)
    BY <2>18 DEF FinishRecord, Call, Resume, GoIdle, Goto, EventOf, CallFails,
       CallWorks
  <2>19. CASE ListOpenPRs(p)
    BY <2>19 DEF ListOpenPRs, Goto, CallFails, CallWorks
  <2>20. CASE Rehydrate(p)
    BY <2>20 DEF Rehydrate, Set, Goto, CallFails, CallWorks
  <2>21. CASE ReconcileDone(p)
    BY <2>21 DEF ReconcileDone, GoIdle, Goto
  <2>22. ASSUME NEW d \in Deploys,
               SweepNext(p, d) \/ RecoverMerge(p, d) \/ RecoverFails(p, d)
               \/ ReconcileSkip(p, d) \/ ReconcileMissing(p, d)
        PROVE  GuardedInv'
    <3>1. CASE SweepNext(p, d)
      BY <3>1 DEF SweepNext, Take, Goto
    <3>2. CASE RecoverMerge(p, d)
      BY <3>2 DEF RecoverMerge, MergePR, Mergeable, Take, Skip, Goto,
         CallFails, CallWorks
    <3>3. CASE RecoverFails(p, d)
      BY <3>3 DEF RecoverFails, Skip, CallFails, CallWorks
    <3>4. CASE ReconcileSkip(p, d)
      BY <3>4 DEF ReconcileSkip, Skip, CallFails, CallWorks
    <3>5. CASE ReconcileMissing(p, d)
      BY <3>5 DEF ReconcileMissing, Take, Goto
    <3> QED BY <2>22, <3>1, <3>2, <3>3, <3>4, <3>5
  <2> QED BY <1>4, <2>1, <2>2, <2>3, <2>4, <2>5, <2>6, <2>7, <2>8, <2>9,
     <2>10, <2>11, <2>12, <2>13, <2>14, <2>15, <2>16, <2>17, <2>18, <2>19,
     <2>20, <2>21, <2>22 DEF Step
<1>5. ASSUME NEW p \in Procs, Crash(p)
      PROVE  GuardedInv'
  BY <1>5 DEF Crash, GoIdle, Goto
<1>6. ASSUME NEW d \in Deploys, BecomeStale(d)
      PROVE  GuardedInv'
  BY <1>6 DEF BecomeStale
<1>7. ASSUME NEW a \in Apps, LockTTL(a)
      PROVE  GuardedInv'
  BY <1>7 DEF LockTTL, ReleaseLock
<1> QED BY <1>1, <1>2, <1>3, <1>4, <1>5, <1>6, <1>7 DEF Next

\* No handler ends with its pull request open, unless a call failed or a replica
\* died: who may leave it open closes it, and nobody opens one again.
LEMMA EndStep ==
  ASSUME TypeOK, ProcessInv, FreshInv, EndInv, [Next]_vars
  PROVE  EndInv'
<1> USE LifecycleAssumption
<1> USE DEF LifecycleAssumption, TypeOK, ProcessInv, FreshInv, EndInv, Finishing,
   Healthy, github, postgres, redis, procs, requests, Effects, Procs, Labels, Engaged
<1>1. CASE UNCHANGED vars
  BY <1>1 DEF vars
<1>2. ASSUME NEW p \in Workers, NEW d \in Deploys, Request(p, d)
      PROVE  EndInv'
  <2>1. CASE Submit(p, d)
    BY <2>1 DEF Submit, AcquireLock, Start, Goto
  <2>2. CASE Approve(p, d)
    BY <2>2 DEF Approve, Start, Goto
  <2>3. CASE Reject(p, d)
    BY <2>3 DEF Reject, Start, Goto
  <2>4. CASE Cancel(p, d)
    BY <2>4 DEF Cancel, Start, Goto
  <2> QED BY <1>2, <2>1, <2>2, <2>3, <2>4 DEF Request
<1>3. ASSUME NEW p \in Janitors, Tick(p)
      PROVE  EndInv'
  <2>1. CASE RunOnce(p)
    BY <2>1 DEF RunOnce, StartJob, Goto, Expired
  <2>2. CASE RecoverStuck(p)
    BY <2>2 DEF RecoverStuck, StartJob, Goto
  <2>3. CASE ReconcileFromGitHub(p)
    BY <2>3 DEF ReconcileFromGitHub, StartJob, Goto
  <2> QED BY <1>3, <2>1, <2>2, <2>3 DEF Tick
<1>4. ASSUME NEW p \in Procs, Step(p)
      PROVE  EndInv'
  <2>1. CASE CreateDeployPR(p)
    BY <2>1 DEF CreateDeployPR, OpenPR, Goto, Opened, Stay, CallFails,
       CallWorks
  <2>2. CASE CreateDeployPRFails(p)
    BY <2>2 DEF CreateDeployPRFails, Goto, Stay, CallFails, CallWorks
  <2>3. CASE AbandonSubmit(p)
    BY <2>3 DEF AbandonSubmit, ReleaseLock, CallFails, CallWorks, GoIdle, Goto
  <2>4. CASE StoreDeploy(p)
    BY <2>4 DEF StoreDeploy, Set, CallFails, CallWorks, Goto, Stay
  <2>5. CASE AddLabels(p)
    BY <2>5 DEF AddLabels, CallFails, CallWorks, GoIdle, Goto
  <2>6. CASE MarkMerging(p)
    BY <2>6 DEF MarkMerging, UpdateState, CallFails, CallWorks, Goto, Stay
  <2>7. CASE MergeSucceeds(p)
    BY <2>7 DEF MergeSucceeds, Merging, MergePR, Mergeable, Fan, Goto
  <2>8. CASE MergeConflicts(p)
    BY <2>8 DEF MergeConflicts, Merging, GiveUpMerge, Fan, Goto
  <2>9. CASE MergeFails(p)
    BY <2>9 DEF MergeFails, Merging, MergePR, Mergeable, GiveUpMerge, Fan,
       Goto, CallFails
  <2>10. CASE HeadModified(p)
    BY <2>10 DEF HeadModified, GiveUpMerge, Fan, Goto, CallFails
  <2>11. CASE RebaseDeployBranch(p)
    BY <2>11 DEF RebaseDeployBranch, Fan, Goto
  <2>12. CASE RebaseNoChange(p)
    BY <2>12 DEF RebaseNoChange, Fan, Goto
  <2>13. CASE RebaseFails(p)
    BY <2>13 DEF RebaseFails, GiveUpMerge, Fan, Goto, CallFails, CallWorks
  <2>14. CASE ResetToPending(p)
    BY <2>14 DEF ResetToPending, UpdateState, CallFails, CallWorks, GoIdle,
       Goto
  <2>15. CASE FinishClose(p)
    BY <2>15 DEF FinishClose, Call, Resume, GoIdle, Goto, ClosePR, CallFails,
       CallWorks
  <2>16. CASE FinishUnlock(p)
    BY <2>16 DEF FinishUnlock, Call, Resume, GoIdle, Goto, ReleaseLock,
       CallFails, CallWorks
  <2>17. CASE FinishDelete(p)
    BY <2>17 DEF FinishDelete, Call, Resume, GoIdle, Goto, Delete, CallFails,
       CallWorks
  <2>18. CASE FinishRecord(p)
    BY <2>18 DEF FinishRecord, Call, Resume, GoIdle, Goto, EventOf, CallFails,
       CallWorks
  <2>19. CASE ListOpenPRs(p)
    BY <2>19 DEF ListOpenPRs, Goto, CallFails, CallWorks
  <2>20. CASE Rehydrate(p)
    BY <2>20 DEF Rehydrate, Set, Goto, CallFails, CallWorks
  <2>21. CASE ReconcileDone(p)
    BY <2>21 DEF ReconcileDone, GoIdle, Goto
  <2>22. ASSUME NEW d \in Deploys,
               SweepNext(p, d) \/ RecoverMerge(p, d) \/ RecoverFails(p, d)
               \/ ReconcileSkip(p, d) \/ ReconcileMissing(p, d)
        PROVE  EndInv'
    <3>1. CASE SweepNext(p, d)
      BY <3>1 DEF SweepNext, Take, Goto
    <3>2. CASE RecoverMerge(p, d)
      BY <3>2 DEF RecoverMerge, MergePR, Mergeable, Take, Skip, Goto,
         CallFails, CallWorks
    <3>3. CASE RecoverFails(p, d)
      BY <3>3 DEF RecoverFails, Skip, CallFails, CallWorks
    <3>4. CASE ReconcileSkip(p, d)
      BY <3>4 DEF ReconcileSkip, Skip, CallFails, CallWorks
    <3>5. CASE ReconcileMissing(p, d)
      BY <3>5 DEF ReconcileMissing, Take, Goto
    <3> QED BY <2>22, <3>1, <3>2, <3>3, <3>4, <3>5
  <2> QED BY <1>4, <2>1, <2>2, <2>3, <2>4, <2>5, <2>6, <2>7, <2>8, <2>9,
     <2>10, <2>11, <2>12, <2>13, <2>14, <2>15, <2>16, <2>17, <2>18, <2>19,
     <2>20, <2>21, <2>22 DEF Step
<1>5. ASSUME NEW p \in Procs, Crash(p)
      PROVE  EndInv'
  BY <1>5 DEF Crash, GoIdle, Goto
<1>6. ASSUME NEW d \in Deploys, BecomeStale(d)
      PROVE  EndInv'
  BY <1>6 DEF BecomeStale
<1>7. ASSUME NEW a \in Apps, LockTTL(a)
      PROVE  EndInv'
  BY <1>7 DEF LockTTL, ReleaseLock
<1> QED BY <1>1, <1>2, <1>3, <1>4, <1>5, <1>6, <1>7 DEF Next

\* One call of those at the end of a handler leaves the other processes, and the
\* handler's other calls, as they are.
LEMMA CallLeaves ==
  ASSUME TypeOK, ProcessInv, NEW p \in Procs, NEW c \in Effects, Call(p, c)
  PROVE  /\ on[p] \in Deploys /\ c \in todo[p] /\ Finishing(p)
         /\ \A q \in Procs, d \in Deploys :
              /\ InHand(q, d) /\ (q = p => c # "close") => InHand(q, d)'
              /\ Closing(q, d) /\ (q = p => c # "close") => Closing(q, d)'
              /\ Attending(q, d) /\ (q = p => c # "delete") => Attending(q, d)'
<1>1. on[p] \in Deploys /\ c \in todo[p] /\ Finishing(p)
  BY DEF Call, ProcessInv, Engaged, Labels, Finishing
<1>2. /\ \A q \in Procs \ {p} :
           on'[q] = on[q] /\ pc'[q] = pc[q] /\ job'[q] = job[q] /\ todo'[q] = todo[q]
      /\ todo[p] # {c} =>
           on'[p] = on[p] /\ pc'[p] = pc[p] /\ job'[p] = job[p] /\ todo'[p] = todo[p] \ {c}
  BY DEF Call, Resume, GoIdle, Goto, TypeOK
<1>3. ASSUME NEW q \in Procs, NEW d \in Deploys, Closing(q, d), q = p => c # "close"
      PROVE  Closing(q, d)'
  BY <1>1, <1>2, <1>3 DEF Closing, Finishing
<1>4. ASSUME NEW q \in Procs, NEW d \in Deploys, InHand(q, d), q = p => c # "close"
      PROVE  InHand(q, d)'
  BY <1>1, <1>2, <1>3, <1>4 DEF InHand, Finishing
<1>5. ASSUME NEW q \in Procs, NEW d \in Deploys, Attending(q, d), q = p => c # "delete"
      PROVE  Attending(q, d)'
  BY <1>1, <1>2, <1>5 DEF Attending, Finishing
<1> QED BY <1>1, <1>3, <1>4, <1>5

\* What the stores do not agree on stays in the hands of somebody who will mend
\* it: the one call that parts them is made by who has the other call to make.
LEMMA CareStep ==
  ASSUME TypeOK, ProcessInv, FreshInv, EndInv, CareInv, [Next]_vars
  PROVE  CareInv'
<1> USE LifecycleAssumption
<1> USE DEF LifecycleAssumption, TypeOK, ProcessInv, FreshInv, EndInv, CareInv,
   Finishing, Healthy, InHand, Closing, Attending, github, postgres, redis, procs,
   requests, Effects, Procs, Labels, Engaged
<1>1. CASE UNCHANGED vars
  BY <1>1 DEF vars
<1>2. ASSUME NEW p \in Workers, NEW d \in Deploys, Request(p, d)
      PROVE  CareInv'
  <2>1. CASE Submit(p, d)
    BY <2>1 DEF Submit, AcquireLock, Start, Goto
  <2>2. CASE Approve(p, d)
    BY <2>2 DEF Approve, Start, Goto
  <2>3. CASE Reject(p, d)
    BY <2>3 DEF Reject, Start, Goto
  <2>4. CASE Cancel(p, d)
    BY <2>4 DEF Cancel, Start, Goto
  <2> QED BY <1>2, <2>1, <2>2, <2>3, <2>4 DEF Request
<1>3. ASSUME NEW p \in Janitors, Tick(p)
      PROVE  CareInv'
  <2>1. CASE RunOnce(p)
    BY <2>1 DEF RunOnce, StartJob, Goto, Expired
  <2>2. CASE RecoverStuck(p)
    BY <2>2 DEF RecoverStuck, StartJob, Goto
  <2>3. CASE ReconcileFromGitHub(p)
    BY <2>3 DEF ReconcileFromGitHub, StartJob, Goto
  <2> QED BY <1>3, <2>1, <2>2, <2>3 DEF Tick
<1>4. ASSUME NEW p \in Procs, Step(p)
      PROVE  CareInv'
  <2>1. CASE CreateDeployPR(p)
    BY <2>1 DEF CreateDeployPR, OpenPR, Goto, Opened, Stay, CallFails,
       CallWorks
  <2>2. CASE CreateDeployPRFails(p)
    BY <2>2 DEF CreateDeployPRFails, Goto, Stay, CallFails, CallWorks
  <2>3. CASE AbandonSubmit(p)
    BY <2>3 DEF AbandonSubmit, ReleaseLock, CallFails, CallWorks, GoIdle, Goto
  <2>4. CASE StoreDeploy(p)
    BY <2>4 DEF StoreDeploy, Set, CallFails, CallWorks, Goto, Stay
  <2>5. CASE AddLabels(p)
    BY <2>5 DEF AddLabels, CallFails, CallWorks, GoIdle, Goto
  <2>6. CASE MarkMerging(p)
    BY <2>6 DEF MarkMerging, UpdateState, CallFails, CallWorks, Goto, Stay
  <2>7. CASE MergeSucceeds(p)
    BY <2>7 DEF MergeSucceeds, Merging, MergePR, Mergeable, Fan, Goto
  <2>8. CASE MergeConflicts(p)
    BY <2>8 DEF MergeConflicts, Merging, GiveUpMerge, Fan, Goto
  <2>9. CASE MergeFails(p)
    BY <2>9 DEF MergeFails, Merging, MergePR, Mergeable, GiveUpMerge, Fan,
       Goto, CallFails
  <2>10. CASE HeadModified(p)
    BY <2>10 DEF HeadModified, GiveUpMerge, Fan, Goto, CallFails
  <2>11. CASE RebaseDeployBranch(p)
    BY <2>11 DEF RebaseDeployBranch, Fan, Goto
  <2>12. CASE RebaseNoChange(p)
    BY <2>12 DEF RebaseNoChange, Fan, Goto
  <2>13. CASE RebaseFails(p)
    BY <2>13 DEF RebaseFails, GiveUpMerge, Fan, Goto, CallFails, CallWorks
  <2>14. CASE ResetToPending(p)
    BY <2>14 DEF ResetToPending, UpdateState, CallFails, CallWorks, GoIdle,
       Goto
  <2>15. CASE FinishClose(p)
    <3>1. SUFFICES ASSUME NEW e \in Deploys, Healthy'
                   PROVE  /\ pr'[e] = "open" /\ row'[e] = "none" => \E q \in Procs : InHand(q, e)'
                          /\ pr'[e] = "open" /\ history'[e] # {} => \E q \in Procs : Closing(q, e)'
                          /\ row'[e] = "merging" => \E q \in Procs : Attending(q, e)'
      BY DEF CareInv
    <3>2. Healthy /\ Call(p, "close") /\ ClosePR(on[p]) /\ UNCHANGED <<row, history>>
      BY <2>15, <3>1 DEF FinishClose, CallFails, CallWorks, Healthy
    <3>3. on[p] \in Deploys /\ "close" \in todo[p] /\ Finishing(p)
      BY <3>2, CallLeaves
    <3>4. pr'[e] = "open" /\ row'[e] = "none" => \E q \in Procs : InHand(q, e)'
      BY <3>2, <3>3, CallLeaves DEF ClosePR, InHand, Closing
    <3>5. pr'[e] = "open" /\ history'[e] # {} => \E q \in Procs : Closing(q, e)'
      <4>1. pr'[e] = "open" => pr[e] = "open" /\ e # on[p]
        BY <3>2, <3>3 DEF ClosePR
      <4>2. \A q \in Procs : Closing(q, e) /\ (q = p => e # on[p]) => q # p
        BY DEF Closing
      <4> HIDE DEF Closing
      <4>3. \A q \in Procs : Closing(q, e) /\ q # p => Closing(q, e)'
        BY <3>2, CallLeaves
      <4> QED BY <3>2, <4>1, <4>2, <4>3
    <3>6. row'[e] = "merging" => \E q \in Procs : Attending(q, e)'
      BY <3>2, <3>3, CallLeaves
    <3> QED BY <3>4, <3>5, <3>6
  <2>16. CASE FinishUnlock(p)
    <3>1. SUFFICES ASSUME NEW e \in Deploys, Healthy'
                   PROVE  /\ pr'[e] = "open" /\ row'[e] = "none" => \E q \in Procs : InHand(q, e)'
                          /\ pr'[e] = "open" /\ history'[e] # {} => \E q \in Procs : Closing(q, e)'
                          /\ row'[e] = "merging" => \E q \in Procs : Attending(q, e)'
      BY DEF CareInv
    <3>2. Healthy /\ Call(p, "unlock") /\ UNCHANGED <<pr, row, history>>
      BY <2>16, <3>1 DEF FinishUnlock, CallFails, CallWorks, Healthy
    <3>3. on[p] \in Deploys /\ "unlock" \in todo[p] /\ Finishing(p)
      BY <3>2, CallLeaves
    <3>4. pr'[e] = "open" /\ row'[e] = "none" => \E q \in Procs : InHand(q, e)'
      BY <3>2, <3>3, CallLeaves
    <3>5. pr'[e] = "open" /\ history'[e] # {} => \E q \in Procs : Closing(q, e)'
      BY <3>2, <3>3, CallLeaves
    <3>6. row'[e] = "merging" => \E q \in Procs : Attending(q, e)'
      BY <3>2, <3>3, CallLeaves
    <3> QED BY <3>4, <3>5, <3>6
  <2>17. CASE FinishDelete(p)
    <3>1. SUFFICES ASSUME NEW e \in Deploys, Healthy'
                   PROVE  /\ pr'[e] = "open" /\ row'[e] = "none" => \E q \in Procs : InHand(q, e)'
                          /\ pr'[e] = "open" /\ history'[e] # {} => \E q \in Procs : Closing(q, e)'
                          /\ row'[e] = "merging" => \E q \in Procs : Attending(q, e)'
      BY DEF CareInv
    <3>2. Healthy /\ Call(p, "delete") /\ Delete(on[p]) /\ UNCHANGED <<pr, history>>
      BY <2>17, <3>1 DEF FinishDelete, CallFails, CallWorks, Healthy
    <3>3. on[p] \in Deploys /\ "delete" \in todo[p] /\ Finishing(p)
      BY <3>2, CallLeaves
    <3>4. pr'[e] = "open" /\ row'[e] = "none" => \E q \in Procs : InHand(q, e)'
      <4>1. CASE e = on[p]
        <5>1. pr[e] = "open" => Closing(p, e)
          BY <3>2, <3>3, <4>1 DEF Closing, EndInv
        <5>2. Closing(p, e) => Closing(p, e)'
          BY <3>2, CallLeaves
        <5> QED BY <3>2, <5>1, <5>2 DEF InHand
      <4>2. CASE e # on[p]
        <5>1. row'[e] = row[e]
          BY <3>2, <4>2 DEF Delete
        <5>2. \A q \in Procs : InHand(q, e) => InHand(q, e)'
          BY <3>2, CallLeaves
        <5>3. pr[e] = "open" /\ row[e] = "none" => \E q \in Procs : InHand(q, e)
          BY <3>2
        <5> QED BY <3>2, <5>1, <5>2, <5>3
      <4> QED BY <4>1, <4>2
    <3>5. pr'[e] = "open" /\ history'[e] # {} => \E q \in Procs : Closing(q, e)'
      BY <3>2, <3>3, CallLeaves
    <3>6. row'[e] = "merging" => \E q \in Procs : Attending(q, e)'
      BY <3>2, <3>3, CallLeaves DEF Delete, Attending
    <3> QED BY <3>4, <3>5, <3>6
  <2>18. CASE FinishRecord(p)
    <3>1. SUFFICES ASSUME NEW e \in Deploys, Healthy'
                   PROVE  /\ pr'[e] = "open" /\ row'[e] = "none" => \E q \in Procs : InHand(q, e)'
                          /\ pr'[e] = "open" /\ history'[e] # {} => \E q \in Procs : Closing(q, e)'
                          /\ row'[e] = "merging" => \E q \in Procs : Attending(q, e)'
      BY DEF CareInv
    <3>2. Healthy /\ Call(p, "record") /\ UNCHANGED <<pr, row>>
      BY <2>18, <3>1 DEF FinishRecord, CallFails, CallWorks, Healthy
    <3>3. /\ on[p] \in Deploys /\ Finishing(p)
          /\ \A q \in Procs : /\ InHand(q, e) => InHand(q, e)'
                              /\ Closing(q, e) => Closing(q, e)'
                              /\ Attending(q, e) => Attending(q, e)'
      BY <3>2, CallLeaves
    <3>4. history'[e] = history[e] \/ e = on[p]
      BY <2>18, <3>3 DEF FinishRecord
    <3>5. pr[e] = "open" /\ e = on[p] => Closing(p, e)
      BY <3>2, <3>3 DEF EndInv
    <3> HIDE DEF InHand, Closing, Attending
    <3> QED BY <3>2, <3>3, <3>4, <3>5
  <2>19. CASE ListOpenPRs(p)
    BY <2>19 DEF ListOpenPRs, Goto, CallFails, CallWorks
  <2>20. CASE Rehydrate(p)
    BY <2>20 DEF Rehydrate, Set, Goto, CallFails, CallWorks
  <2>21. CASE ReconcileDone(p)
    BY <2>21 DEF ReconcileDone, GoIdle, Goto
  <2>22. ASSUME NEW d \in Deploys,
               SweepNext(p, d) \/ RecoverMerge(p, d) \/ RecoverFails(p, d)
               \/ ReconcileSkip(p, d) \/ ReconcileMissing(p, d)
        PROVE  CareInv'
    <3>1. CASE SweepNext(p, d)
      BY <3>1 DEF SweepNext, Take, Goto
    <3>2. CASE RecoverMerge(p, d)
      <4>1. SUFFICES ASSUME NEW e \in Deploys, Healthy'
                 PROVE  /\ pr'[e] = "open" /\ row'[e] = "none" => \E q \in Procs : InHand(q, e)'
                        /\ pr'[e] = "open" /\ history'[e] # {} => \E q \in Procs : Closing(q, e)'
                        /\ row'[e] = "merging" => \E q \in Procs : Attending(q, e)'
        OBVIOUS
      <4>2. Healthy
        BY <3>2, <4>1 DEF RecoverMerge, MergePR, Mergeable, Take, Skip, Goto, CallFails, CallWorks
      <4>3. pr'[e] = "open" /\ row'[e] = "none" => \E q \in Procs : InHand(q, e)'
        BY <3>2, <4>2 DEF RecoverMerge, MergePR, Mergeable, Take, Skip, Goto, CallFails, CallWorks
      <4>4. ASSUME pr'[e] = "open" /\ history'[e] # {} PROVE \E q \in Procs : Closing(q, e)'
        <5>1. pr[e] = "open" /\ history' = history /\ pc[p] = "recover"
          BY <3>2, <4>4 DEF RecoverMerge, MergePR, Mergeable
        <5>2. PICK q \in Procs : Closing(q, e)
          BY <4>2, <4>4, <5>1
        <5>3. q # p
          BY <5>1, <5>2
        <5>4. on'[q] = on[q] /\ pc'[q] = pc[q] /\ todo'[q] = todo[q]
          BY <3>2, <5>3 DEF RecoverMerge, Take, Skip, Goto
        <5> QED BY <5>2, <5>4
      <4>5. ASSUME row'[e] = "merging" PROVE \E q \in Procs : Attending(q, e)'
        <5>1. row' = row /\ job[p] = "recover"
          BY <3>2 DEF RecoverMerge
        <5>2. PICK q \in Procs : Attending(q, e)
          BY <4>2, <4>5, <5>1
        <5>3. q # p
          BY <5>1, <5>2
        <5>4. on'[q] = on[q] /\ pc'[q] = pc[q] /\ job'[q] = job[q] /\ todo'[q] = todo[q]
          BY <3>2, <5>3 DEF RecoverMerge, Take, Skip, Goto
        <5> QED BY <5>2, <5>4
      <4> QED BY <4>3, <4>4, <4>5
    <3>3. CASE RecoverFails(p, d)
      BY <3>3 DEF RecoverFails, Skip, CallFails, CallWorks
    <3>4. CASE ReconcileSkip(p, d)
      BY <3>4 DEF ReconcileSkip, Skip, CallFails, CallWorks
    <3>5. CASE ReconcileMissing(p, d)
      BY <3>5 DEF ReconcileMissing, Take, Goto
    <3> QED BY <2>22, <3>1, <3>2, <3>3, <3>4, <3>5
  <2> QED BY <1>4, <2>1, <2>2, <2>3, <2>4, <2>5, <2>6, <2>7, <2>8, <2>9,
     <2>10, <2>11, <2>12, <2>13, <2>14, <2>15, <2>16, <2>17, <2>18, <2>19,
     <2>20, <2>21, <2>22 DEF Step
<1>5. ASSUME NEW p \in Procs, Crash(p)
      PROVE  CareInv'
  BY <1>5 DEF Crash, GoIdle, Goto
<1>6. ASSUME NEW d \in Deploys, BecomeStale(d)
      PROVE  CareInv'
  BY <1>6 DEF BecomeStale
<1>7. ASSUME NEW a \in Apps, LockTTL(a)
      PROVE  CareInv'
  BY <1>7 DEF LockTTL, ReleaseLock
<1> QED BY <1>1, <1>2, <1>3, <1>4, <1>5, <1>6, <1>7 DEF Next

-----------------------------------------------------------------------------
(* The invariant.                                                          *)

\* The invariant holds before anything happens.
LEMMA InitInv == Init => LifecycleInv
BY LifecycleAssumption
   DEF LifecycleAssumption, Init, LifecycleInv, TypeOK, ProcessInv, FreshInv,
       AuthorisedInv, RecordInv, ApprovedIsMerged, ApprovalRecordedOnce,
       OwesApproval, GuardedInv, EndInv, CareInv, Finishing, Engaged, Labels,
       PRStates, RowStates, Jobs, Effects, Events

\* Every step of every actor keeps the invariant, part by part.
LEMMA StepInv == LifecycleInv /\ [Next]_vars => LifecycleInv'
BY TypeStep, ProcessStep, FreshStep, AuthorisedStep, RecordStep, GuardedStep,
   EndStep, CareStep
   DEF LifecycleInv

\* The invariant holds in every reachable state.
THEOREM Invariance == Spec => []LifecycleInv
<1>1. Init => LifecycleInv
  BY InitInv
<1>2. LifecycleInv /\ [Next]_vars => LifecycleInv'
  BY StepInv
<1> QED BY <1>1, <1>2, PTL DEF Spec

\* Every variable keeps its type.
THEOREM TypeCorrect == Spec => []TypeOK
<1>1. LifecycleInv => TypeOK
  BY DEF LifecycleInv
<1> QED BY <1>1, Invariance, PTL

\* The history calls a deploy approved only if GitHub merged it.
THEOREM ApprovedMeansMerged == Spec => []ApprovedIsMerged
<1>1. LifecycleInv => ApprovedIsMerged
  BY DEF LifecycleInv, RecordInv
<1> QED BY <1>1, Invariance, PTL

\* However many replicas approve, retry and recover one deploy, one of them
\* at most records its approval, and once.
THEOREM OneApprovalRecord == Spec => []ApprovalRecordedOnce
<1>1. LifecycleInv => ApprovalRecordedOnce
  BY DEF LifecycleInv, RecordInv
<1> QED BY <1>1, Invariance, PTL

\* The lock serialises the deploys of an app for as long as it is held: of
\* two open pull requests of one app, one has lost its lock.
THEOREM LockSerialises == Spec => []ConcurrentDeploysLostALock
<1>1. LifecycleInv => ConcurrentDeploysLostALock
  BY DEF LifecycleInv, GuardedInv, ConcurrentDeploysLostALock
<1> QED BY <1>1, Invariance, PTL

\* While calls succeed and replicas live, GitHub, the rows and the history agree
\* about every deploy that nobody has in hand.
THEOREM AgreementWhileHealthy == Spec => []AgreesWhileHealthy
<1>1. LifecycleInv => NoOrphanWhileHealthy
  BY DEF LifecycleInv, CareInv, InHand, Closing, Finishing, NoOrphanWhileHealthy, WorksOn
<1>2. LifecycleInv => MergingIsAttended
  BY DEF LifecycleInv, CareInv, Attending, ProcessInv, MergingIsAttended
<1>3. LifecycleInv => RecordedIsOverWhileHealthy
  <2>1. SUFFICES ASSUME LifecycleInv, NEW d \in Deploys, Healthy, history[d] # {},
                        ~(\E p \in Procs : WorksOn(p, d))
                 PROVE  pr[d] \in {"merged", "closed"}
    BY DEF RecordedIsOverWhileHealthy
  <2>2. pr[d] # "none" /\ pr[d] \in PRStates
    BY <2>1 DEF LifecycleInv, EndInv, TypeOK
  <2>3. pr[d] # "open"
    BY <2>1 DEF LifecycleInv, CareInv, Closing, Finishing, WorksOn
  <2> QED BY <2>2, <2>3 DEF PRStates
<1>4. LifecycleInv => AgreesWhileHealthy
  BY <1>1, <1>2, <1>3 DEF AgreesWhileHealthy
<1> QED BY <1>4, Invariance, PTL

-----------------------------------------------------------------------------
(* Refinement.                                                             *)

\* Every step is one of GatedDeploy's, or changes nothing GatedDeploy sees.
LEMMA GateStep ==
  ASSUME LifecycleInv, [Next]_vars
  PROVE  [Gate!GateNext]_(Gate!gateVars)
<1> USE LifecycleAssumption
<1> USE DEF LifecycleAssumption, LifecycleInv, TypeOK, ProcessInv, FreshInv,
   AuthorisedInv, RecordInv, ApprovedIsMerged, OwesApproval, Engaged, github,
   postgres, redis, procs, requests, Effects, Events, Labels, Jobs, Procs,
   Gate!GateNext, Gate!gateVars, Gate!Propose, Gate!Authorise, Gate!Merge,
   Gate!Withdraw, Gate!RecordApproval
<1>1. CASE UNCHANGED vars
  BY <1>1 DEF vars
<1>2. ASSUME NEW p \in Workers, NEW d \in Deploys, Request(p, d)
      PROVE  [Gate!GateNext]_(Gate!gateVars)
  <2>1. CASE Submit(p, d)
    BY <2>1 DEF Submit, AcquireLock, Start, Goto
  <2>2. CASE Approve(p, d)
    BY <2>2 DEF Approve, Start, Goto
  <2>3. CASE Reject(p, d)
    BY <2>3 DEF Reject, Start, Goto
  <2>4. CASE Cancel(p, d)
    BY <2>4 DEF Cancel, Start, Goto
  <2> QED BY <1>2, <2>1, <2>2, <2>3, <2>4 DEF Request
<1>3. ASSUME NEW p \in Janitors, Tick(p)
      PROVE  [Gate!GateNext]_(Gate!gateVars)
  <2>1. CASE RunOnce(p)
    BY <2>1 DEF RunOnce, StartJob, Goto, Expired
  <2>2. CASE RecoverStuck(p)
    BY <2>2 DEF RecoverStuck, StartJob, Goto
  <2>3. CASE ReconcileFromGitHub(p)
    BY <2>3 DEF ReconcileFromGitHub, StartJob, Goto
  <2> QED BY <1>3, <2>1, <2>2, <2>3 DEF Tick
<1>4. ASSUME NEW p \in Procs, Step(p)
      PROVE  [Gate!GateNext]_(Gate!gateVars)
  <2>1. CASE CreateDeployPR(p)
    <3>1. on[p] \in Deploys /\ pr[on[p]] = "none"
      BY <2>1 DEF CreateDeployPR
    <3>2. Gate!Propose(on[p])
      BY <2>1, <3>1 DEF CreateDeployPR, OpenPR, Gate!Propose
    <3> QED BY <3>1, <3>2 DEF Gate!GateNext
  <2>2. CASE CreateDeployPRFails(p)
    BY <2>2 DEF CreateDeployPRFails, Goto, Stay, CallFails, CallWorks
  <2>3. CASE AbandonSubmit(p)
    BY <2>3 DEF AbandonSubmit, ReleaseLock, CallFails, CallWorks, GoIdle, Goto
  <2>4. CASE StoreDeploy(p)
    BY <2>4 DEF StoreDeploy, Set, CallFails, CallWorks, Goto, Stay
  <2>5. CASE AddLabels(p)
    BY <2>5 DEF AddLabels, CallFails, CallWorks, GoIdle, Goto
  <2>6. CASE MarkMerging(p)
    BY <2>6 DEF MarkMerging, UpdateState, CallFails, CallWorks, Goto, Stay
  <2>7. CASE MergeSucceeds(p)
    <3>1. on[p] \in Deploys /\ on[p] \in granted
      BY <2>7 DEF MergeSucceeds, Merging
    <3>2. Gate!Merge(on[p])
      BY <2>7, <3>1 DEF MergeSucceeds, MergePR, Mergeable, Gate!Merge
    <3> QED BY <3>1, <3>2 DEF Gate!GateNext
  <2>8. CASE MergeConflicts(p)
    BY <2>8 DEF MergeConflicts, Merging, GiveUpMerge, Fan, Goto
  <2>9. CASE MergeFails(p)
    BY <2>9 DEF MergeFails, Merging, MergePR, Mergeable, GiveUpMerge, Fan,
       Goto, CallFails
  <2>10. CASE HeadModified(p)
    BY <2>10 DEF HeadModified, GiveUpMerge, Fan, Goto, CallFails
  <2>11. CASE RebaseDeployBranch(p)
    BY <2>11 DEF RebaseDeployBranch, Fan, Goto
  <2>12. CASE RebaseNoChange(p)
    BY <2>12 DEF RebaseNoChange, Fan, Goto
  <2>13. CASE RebaseFails(p)
    BY <2>13 DEF RebaseFails, GiveUpMerge, Fan, Goto, CallFails, CallWorks
  <2>14. CASE ResetToPending(p)
    BY <2>14 DEF ResetToPending, UpdateState, CallFails, CallWorks, GoIdle,
       Goto
  <2>15. CASE FinishClose(p)
    BY <2>15 DEF FinishClose, Call, Resume, GoIdle, Goto, ClosePR, CallFails,
       CallWorks
  <2>16. CASE FinishUnlock(p)
    BY <2>16 DEF FinishUnlock, Call, Resume, GoIdle, Goto, ReleaseLock,
       CallFails, CallWorks
  <2>17. CASE FinishDelete(p)
    BY <2>17 DEF FinishDelete, Call, Resume, GoIdle, Goto, Delete, CallFails,
       CallWorks
  <2>18. CASE FinishRecord(p)
    <3>1. on[p] \in Deploys /\ "record" \in todo[p] /\ UNCHANGED <<pr, granted>>
      BY <2>18 DEF FinishRecord, Call
    <3>2. CASE UNCHANGED history
      BY <3>1, <3>2 DEF Gate!gateVars
    <3>3. CASE history' = [history EXCEPT ![on[p]] = @ \cup {EventOf(job[p])}]
      <4>1. CASE job[p] \in {"submit", "approve"}
        <5>1. pr[on[p]] = "merged"
          BY <3>1, <4>1
        <5>2. EventOf(job[p]) = "approved"
          BY <4>1 DEF EventOf
        <5>3. Gate!RecordApproval(on[p])
          BY <3>1, <3>3, <5>1, <5>2 DEF Gate!RecordApproval
        <5> QED BY <3>1, <5>3 DEF Gate!GateNext
      <4>2. CASE job[p] \notin {"submit", "approve"}
        <5>1. EventOf(job[p]) # "approved"
          BY <3>1, <4>2 DEF EventOf
        <5>2. \A d \in Deploys :
                 "approved" \in history'[d] <=> "approved" \in history[d]
          BY <3>3, <5>1
        <5> QED BY <3>1, <5>2 DEF Gate!gateVars
      <4> QED BY <4>1, <4>2
    <3> QED BY <2>18, <3>2, <3>3 DEF FinishRecord
  <2>19. CASE ListOpenPRs(p)
    BY <2>19 DEF ListOpenPRs, Goto, CallFails, CallWorks
  <2>20. CASE Rehydrate(p)
    BY <2>20 DEF Rehydrate, Set, Goto, CallFails, CallWorks
  <2>21. CASE ReconcileDone(p)
    BY <2>21 DEF ReconcileDone, GoIdle, Goto
  <2>22. ASSUME NEW d \in Deploys,
               SweepNext(p, d) \/ RecoverMerge(p, d) \/ RecoverFails(p, d)
               \/ ReconcileSkip(p, d) \/ ReconcileMissing(p, d)
        PROVE  [Gate!GateNext]_(Gate!gateVars)
    <3>1. CASE SweepNext(p, d)
      BY <3>1 DEF SweepNext, Take, Goto
    <3>2. CASE RecoverMerge(p, d)
      <4>1. d \in Deploys /\ d \in granted
        BY <3>2 DEF RecoverMerge, Take, Skip
      <4>2. Gate!Merge(d)
        BY <3>2, <4>1 DEF RecoverMerge, MergePR, Mergeable, Gate!Merge
      <4> QED BY <4>1, <4>2 DEF Gate!GateNext
    <3>3. CASE RecoverFails(p, d)
      BY <3>3 DEF RecoverFails, Skip, CallFails, CallWorks
    <3>4. CASE ReconcileSkip(p, d)
      BY <3>4 DEF ReconcileSkip, Skip, CallFails, CallWorks
    <3>5. CASE ReconcileMissing(p, d)
      BY <3>5 DEF ReconcileMissing, Take, Goto
    <3> QED BY <2>22, <3>1, <3>2, <3>3, <3>4, <3>5
  <2> QED BY <1>4, <2>1, <2>2, <2>3, <2>4, <2>5, <2>6, <2>7, <2>8, <2>9,
     <2>10, <2>11, <2>12, <2>13, <2>14, <2>15, <2>16, <2>17, <2>18, <2>19,
     <2>20, <2>21, <2>22 DEF Step
<1>5. ASSUME NEW p \in Procs, Crash(p)
      PROVE  [Gate!GateNext]_(Gate!gateVars)
  BY <1>5 DEF Crash, GoIdle, Goto
<1>6. ASSUME NEW d \in Deploys, BecomeStale(d)
      PROVE  [Gate!GateNext]_(Gate!gateVars)
  BY <1>6 DEF BecomeStale
<1>7. ASSUME NEW a \in Apps, LockTTL(a)
      PROVE  [Gate!GateNext]_(Gate!gateVars)
  BY <1>7 DEF LockTTL, ReleaseLock
<1> QED BY <1>1, <1>2, <1>3, <1>4, <1>5, <1>6, <1>7 DEF Next

\* The lifecycle implements the gate: whatever interleaves, fails or crashes,
\* only authorised pull requests are merged, each ends one way, and only
\* merged ones are recorded as approved.
THEOREM Implementation == Spec => ImplementsGate
<1>1. Init => Gate!GateInit
  BY DEF Init, Gate!GateInit
<1>2. LifecycleInv /\ [Next]_vars => [Gate!GateNext]_(Gate!gateVars)
  BY GateStep
<1> QED BY <1>1, <1>2, Invariance, PTL DEF Spec, ImplementsGate, Gate!GateSpec

\* What the gate is good for, whoever keeps it: what is merged was authorised, and what
\* is recorded as approved was merged.
Recorded == {d \in Deploys : "approved" \in history[d]}
GateInv ==
  /\ DOMAIN pr = Deploys
  /\ \A d \in Deploys : pr[d] = "merged" => d \in granted
  /\ \A d \in Recorded : pr[d] = "merged"

\* The actions of GatedDeploy are all that is used of the lifecycle here.
LEMMA GateIsKept ==
  ASSUME GateInv, [Gate!GateNext]_(Gate!gateVars)
  PROVE  GateInv'
<1>1. CASE UNCHANGED Gate!gateVars
  <2>1. UNCHANGED <<pr, granted, Recorded>>
    BY <1>1 DEF Gate!gateVars, Recorded
  <2> QED BY <2>1 DEF GateInv
<1>2. ASSUME NEW d \in Deploys, Gate!Propose(d) \/ Gate!Authorise(d)
      PROVE  GateInv'
  <2>1. UNCHANGED Recorded /\ granted \subseteq granted'
    BY <1>2 DEF Gate!Propose, Gate!Authorise, Recorded
  <2>2. UNCHANGED pr \/ (pr[d] = "none" /\ pr' = [pr EXCEPT ![d] = "open"])
    BY <1>2 DEF Gate!Propose, Gate!Authorise
  <2> QED BY <2>1, <2>2 DEF GateInv, Recorded
<1>3. ASSUME NEW d \in Deploys, Gate!Merge(d) \/ Gate!Withdraw(d)
      PROVE  GateInv'
  <2>1. UNCHANGED <<Recorded, granted>> /\ pr[d] = "open"
    BY <1>3 DEF Gate!Merge, Gate!Withdraw, Recorded
  <2>2. \/ pr' = [pr EXCEPT ![d] = "merged"] /\ d \in granted
        \/ pr' = [pr EXCEPT ![d] = "closed"]
    BY <1>3 DEF Gate!Merge, Gate!Withdraw
  <2> QED BY <2>1, <2>2 DEF GateInv, Recorded
<1>4. ASSUME NEW d \in Deploys, Gate!RecordApproval(d)
      PROVE  GateInv'
  <2>1. UNCHANGED <<pr, granted>> /\ pr[d] = "merged" /\ Recorded' = Recorded \cup {d}
    BY <1>4 DEF Gate!RecordApproval, Recorded
  <2> QED BY <2>1 DEF GateInv
<1> QED BY <1>1, <1>2, <1>3, <1>4 DEF Gate!GateNext

\* The gate's promise suffices: whatever implements it merges what was authorised and
\* nothing else, and records no approval of anything else.
THEOREM GateSuffices == ImplementsGate => []GateInv
<1>1. Gate!GateInit => GateInv
  BY DEF Gate!GateInit, GateInv, Recorded
<1>2. GateInv /\ [Gate!GateNext]_(Gate!gateVars) => GateInv'
  BY GateIsKept
<1> QED BY <1>1, <1>2, PTL DEF ImplementsGate, Gate!GateSpec

\* However many replicas decide, retry, recover and crash, GitHub merges only what a
\* member approved or auto_deploy covers (handleApprove, RecoverStuck, handleECRAutoDeploy).
THEOREM MergedWasAuthorised == Spec => [](\A d \in Deploys : pr[d] = "merged" => d \in granted)
<1>1. GateInv => \A d \in Deploys : pr[d] = "merged" => d \in granted
  BY DEF GateInv
<1> QED BY <1>1, Implementation, GateSuffices, PTL

=============================================================================
