------------------------------ MODULE Replicas ------------------------------
(***************************************************************************)
(* Two managers at work on the same resource, which nothing prevents while *)
(* --leader-elect has its default, false: a second replica, or an operator *)
(* started from the command line beside the deployed one.                  *)
(*                                                                         *)
(* The first manager is InvokerOperator as it stands.  The second one has  *)
(* caches, a queue, a worker and a counter of its own and shares the API   *)
(* server's objects.  What a manager writes to the resource makes the      *)
(* copies of the other one outdated; writes to children do not involve the *)
(* other manager until its informers deliver them.                         *)
(***************************************************************************)
EXTENDS OperatorProperties

VARIABLES crCache2, podCache2, cmCache2, revCache2, crSynced2, queued2,
          pc2, observed2, observedRevs2, fresh2, cmCalls2, podCalls2, upgradeCounter2

Second == INSTANCE OperatorProperties WITH
    crCache <- crCache2, podCache <- podCache2, cmCache <- cmCache2,
    revCache <- revCache2, crSynced <- crSynced2, queued <- queued2,
    pc <- pc2, observed <- observed2, observedRevs <- observedRevs2, fresh <- fresh2,
    cmCalls <- cmCalls2, podCalls <- podCalls2, upgradeCounter <- upgradeCounter2

bothVars == <<vars, Second!vars>>

BothInit == Init /\ Second!Init

(* Mutant: the second manager's writes carry no resourceVersion, so none is  *)
(* refused because the first one wrote in the meantime.                      *)
NoticedBySecond_unversioned ==
    UNCHANGED <<crSynced2, fresh2, crCache2, podCache2, cmCache2, revCache2, queued2, pc2,
                observed2, observedRevs2, cmCalls2, podCalls2, upgradeCounter2>>

(* What a step of one manager, or of the environment, does to the other      *)
(* manager: its copies of the resource stay the latest only if the resource  *)
(* has no new version.                                                       *)
NoticedBySecond ==
    /\ crSynced2' = (crSynced2 /\ cr' = cr)
    /\ fresh2' = (fresh2 /\ cr' = cr)
    /\ UNCHANGED <<crCache2, podCache2, cmCache2, revCache2, queued2, pc2, observed2,
                   observedRevs2, cmCalls2, podCalls2, upgradeCounter2>>

NoticedByFirst ==
    /\ crSynced' = (crSynced /\ cr' = cr)
    /\ fresh' = (fresh /\ cr' = cr)
    /\ UNCHANGED <<crCache, podCache, cmCache, revCache, queued, pc, observed,
                   observedRevs, cmCalls, podCalls, upgradeCounter>>

FirstWorker == Worker /\ NoticedBySecond
FirstDisturbed == Disturb /\ NoticedBySecond
FirstInformed == Informers /\ NoticedBySecond
SecondWorker == Second!Worker /\ NoticedByFirst
SecondFails == Second!Failures /\ NoticedByFirst
SecondCrashes == Second!Crash /\ NoticedByFirst
SecondInformed == Second!Informers /\ NoticedByFirst
Surroundings == (User \/ Cluster) /\ NoticedBySecond

BothNext == \/ FirstWorker \/ FirstDisturbed \/ FirstInformed
            \/ SecondWorker \/ SecondFails \/ SecondCrashes \/ SecondInformed
            \/ Surroundings

BothSpec == BothInit /\ [][BothNext]_bothVars

-----------------------------------------------------------------------------
(* Optimistic locking keeps both managers honest: a copy that passes for the *)
(* latest is the latest, whoever wrote last, so neither can write the        *)
(* resource from an outdated one.  (OwnerHeld does not carry over: one       *)
(* manager may let the resource go while the other one is in a pass.)        *)
ReplicasInv == WritesLatest /\ Second!WritesLatest

=============================================================================
