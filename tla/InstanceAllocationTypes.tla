----------------------- MODULE InstanceAllocationTypes -----------------------
(***************************************************************************)
(* TypeOK is an invariant of InstanceAllocation for every set of sessions  *)
(* and instances.  Its five parts are proved one by one: first what the    *)
(* shared calls do to them, then the actions that need more than their     *)
(* definition, then one lemma per part with a case for every action.       *)
(***************************************************************************)
EXTENDS InstanceAllocation, FiniteSetTheorems, TLAPS

----------------------------------------------------------------------------
(* The shared calls.                                                        *)

(* Writing both tags keeps the records of the hosting service.              *)
LEMMA RetagHosting ==
  ASSUME HostingOK, NEW i, NEW s \in Sessions \union {NoSession},
         NEW t \in {"unlaunched", "idle", "reserved", "pooled", "terminated"},
         t = "reserved" => s \in Sessions, Retag(i, t, s)
  PROVE  HostingOK'
  BY DEF HostingOK, Retag

(* So does terminating an instance.                                         *)
LEMMA TerminatedHosting ==
  ASSUME HostingOK, NEW i, Terminated(i)
  PROVE  HostingOK'
  BY DEF HostingOK, Terminated

(* So does leaving them alone.                                              *)
LEMMA SameHosting ==
  ASSUME HostingOK, UNCHANGED hosting
  PROVE  HostingOK'
  BY DEF HostingOK, hosting

RelType ==
  [Instances -> [Holders -> {"none", "start", "deployed", "torn", "unclaimed", "failed",
                             "dropping"}]]
ProvType ==
  [Instances -> [Sessions -> {"none", "begin", "keyed", "cleared", "built"}]]

(* The shapes of the release and provisioning counters, and the calls that set them. *)
LEMMA RelStepType ==
  ASSUME HandlersOK, NEW i, NEW h, 
         NEW to \in {"none", "start", "deployed", "torn", "unclaimed", "failed", "dropping"},
         RelStep(i, h, to)
  PROVE  rel' \in RelType
  BY DEF HandlersOK, RelStep, RelType

(* Starting or joining a release.                                           *)
LEMMA StartReleaseType ==
  ASSUME HandlersOK, NEW i, NEW h, StartRelease(i, h)
  PROVE  rel' \in RelType
  BY DEF HandlersOK, StartRelease, RelType

(* provisioning.run, dropped or not.                                        *)
LEMMA RunProvisionType ==
  ASSUME HandlersOK, NEW i, NEW s \in Sessions, RunProvision(i, s)
  PROVE  registry' \in [Instances -> Sessions \union {NoSession}] /\ prov' \in ProvType
<1>1. CASE UNCHANGED provisioning
  BY <1>1 DEF HandlersOK, ProvType, provisioning
<1>2. CASE registry' = [registry EXCEPT ![i] = s] /\ prov' = [prov EXCEPT ![i][s] = "begin"]
  BY <1>2 DEF HandlersOK, ProvType
<1> QED BY <1>1, <1>2 DEF RunProvision

(* The end of a provisioning.                                               *)
LEMMA EndProvisionType ==
  ASSUME HandlersOK, NEW i, NEW s \in Sessions, EndProvision(i, s)
  PROVE  registry' \in [Instances -> Sessions \union {NoSession}] /\ prov' \in ProvType
  BY DEF HandlersOK, EndProvision, ProvType

(* The counters as HandlersOK has them, and back.                           *)
LEMMA SameHandlers ==
  ASSUME HandlersOK
  PROVE  /\ rel \in RelType /\ prov \in ProvType
        /\ registry \in [Instances -> Sessions \union {NoSession}]
  BY DEF HandlersOK, RelType, ProvType

(* HandlersOK from its parts.                                               *)
LEMMA ToHandlers ==
  ASSUME rel \in RelType, prov \in ProvType,
         registry \in [Instances -> Sessions \union {NoSession}],
         misses \subseteq Sessions, probe \subseteq Sessions \X {"PROVISIONED", "MISSING"}
  PROVE  HandlersOK
  BY DEF HandlersOK, RelType, ProvType

(* Claiming and dropping a claim.                                           *)
LEMMA ClaimType ==
  ASSUME SessionsOK, NEW i, NEW h \in Holders, Claim(i, h)
  PROVE  claim' \in [Instances -> Holders \union {NoSession}]
  BY DEF SessionsOK, Claim

(* A dropped claim.                                                         *)
LEMMA DropClaimType ==
  ASSUME SessionsOK, NEW i, NEW h, DropClaim(i, h)
  PROVE  claim' \in [Instances -> Holders \union {NoSession}]
  BY DEF SessionsOK, DropClaim, Holders

----------------------------------------------------------------------------
(* The actions that take more than one step to type.                        *)

(* A launch tags one instance, terminates one or does neither.              *)
LEMMA LaunchReservedHosting ==
  ASSUME HostingOK, NEW s \in Sessions, LaunchReserved(s)
  PROVE  HostingOK'
<1>1. CASE \E i \in Unlaunched :
             /\ tag' = [tag EXCEPT ![i] = "reserved"] /\ owner' = [owner EXCEPT ![i] = s]
             /\ starting' = [starting EXCEPT ![i] = TRUE]
             /\ UNCHANGED <<host, containers, disturbed>>
  BY <1>1 DEF HostingOK
<1> QED BY <1>1, TerminatedHosting, SameHosting DEF LaunchReserved

(* A candidate won or lost.                                                 *)
LEMMA TryCandidateSessions ==
  ASSUME SessionsOK, NEW s \in Sessions, NEW from, NEW won \in {"claimed","startingPooled"},
         TryCandidate(s, from, won)
  PROVE  SessionsOK'
  BY ClaimType DEF TryCandidate, SessionsOK, rows, Holders

(* A reclaimed claim.                                                       *)
LEMMA ReclaimNextSessions ==
  ASSUME SessionsOK, ReclaimNext
  PROVE  SessionsOK'
  BY DropClaimType DEF ReclaimNext, SessionsOK, rows, requests

(* The address starts a provisioning.                                       *)
LEMMA AwaitHostHandlers ==
  ASSUME SessionsOK, HandlersOK, NEW s \in Sessions, AwaitHost(s)
  PROVE  HandlersOK'
  BY RunProvisionType, ToHandlers, SameHandlers DEF AwaitHost, HandlersOK, sweeps,
     provisioning, ProvType

(* So may the poll, for the session it listed.                              *)
LEMMA PollStartedHandlers ==
  ASSUME HostingOK, HandlersOK, ProcessOK, NEW i \in Instances, PollStarted(i)
  PROVE  HandlersOK'
<1>1. PICK p \in polled : (p[2] # NoSession /\ RunProvision(i,p[2])) \/ UNCHANGED provisioning
  BY DEF PollStarted
<1>2. p[2] \in Sessions \union {NoSession}
  BY DEF ProcessOK
<1> QED BY <1>1, <1>2, RunProvisionType DEF PollStarted, HandlersOK, sweeps, provisioning,
     ProvType

(* The tenth failure ends one and starts a release.                         *)
LEMMA ProvisionExhaustedHandlers ==
  ASSUME SessionsOK, HandlersOK, NEW i \in Instances, NEW s \in Sessions,
         ProvisionExhausted(i, s)
  PROVE  HandlersOK'
  BY StartReleaseType, EndProvisionType DEF ProvisionExhausted, CloseAndRelease,
     ProvUnchanged, HandlersOK, sweeps, ProvType, RelType

(* The ownership check of a release.                                        *)
LEMMA GetInstanceHandlers ==
  ASSUME SessionsOK, HandlersOK, NEW i \in Instances, NEW h \in Holders, GetInstance(i, h)
  PROVE  HandlersOK'
<1>1. rel' \in RelType
  BY RelStepType DEF GetInstance
<1>2. registry' \in [Instances -> Sessions \union {NoSession}]
  BY DEF GetInstance, HandlersOK
<1> QED BY <1>1, <1>2 DEF GetInstance, RelUnchanged, HandlersOK, RelType, sweeps

(* Its last step, or a termination.                                         *)
LEMMA TagIdleHandlers ==
  ASSUME SessionsOK, HandlersOK, NEW i \in Instances, NEW h \in Holders, TagIdle(i, h)
  PROVE  HandlersOK'
<1>1. rel' \in RelType
  BY RelStepType DEF TagIdle
<1> QED BY <1>1 DEF TagIdle, RelUnchanged, HandlersOK, RelType, sweeps

(* The releases the sweeps start.                                           *)
LEMMA UnusedReleaseHandlers ==
  ASSUME HandlersOK, UnusedRelease
  PROVE  HandlersOK'
<1>1. rel' \in RelType
  BY StartReleaseType, SameHandlers DEF UnusedRelease
<1> QED BY <1>1 DEF UnusedRelease, SweepUnchanged, provisioning, HandlersOK, RelType

(* Those of reclaimStaleClaims.                                             *)
LEMMA ReclaimNextHandlers ==
  ASSUME HandlersOK, ReclaimNext
  PROVE  HandlersOK'
<1>1. rel' \in RelType
  BY StartReleaseType, SameHandlers DEF ReclaimNext
<1> QED BY <1>1 DEF ReclaimNext, provisioning, HandlersOK, RelType

(* The provisioning the reconcile sweep starts.                             *)
LEMMA ReconcileNextHandlers ==
  ASSUME HandlersOK, ReconcileNext
  PROVE  HandlersOK'
<1>1. PICK p \in probe :
        /\ probe' = probe \ {p} /\ UNCHANGED <<rel, misses>>
        /\ RunProvision(rowInstance[p[1]], p[1]) \/ UNCHANGED provisioning
  BY DEF ReconcileNext
<1>2. p[1] \in Sessions
  BY DEF HandlersOK
<1> QED BY <1>1, <1>2, RunProvisionType DEF HandlersOK, provisioning, ProvType

(* The instances of the open sessions.                                      *)
LEMMA UnusedReadOpenSweeps ==
  ASSUME SessionsOK, SweepsOK, UnusedReadOpen
  PROVE  SweepsOK'
<1>1. {rowInstance[s] : s \in {t \in Sessions : Open(t)}}
        \in SUBSET (Instances \union {NoInstance})
  BY DEF SessionsOK
<1> QED BY <1>1 DEF UnusedReadOpen, SweepsOK

(* A listed instance is paired with the session its tag names.              *)
LEMMA UnusedListReservedSweeps ==
  ASSUME HostingOK, SweepsOK, UnusedListReserved
  PROVE  SweepsOK'
<1>1. {<<i, owner[i]>> : i \in Tagged("reserved")} \in SUBSET (Instances \X Sessions)
  BY DEF Tagged, HostingOK
<1> QED BY <1>1 DEF UnusedListReserved, SweepsOK

(* The next unused instance.                                                *)
LEMMA UnusedReleaseSweeps ==
  ASSUME SweepsOK, UnusedRelease
  PROVE  SweepsOK'
<1>1. CASE unused' = Idle0
  BY <1>1 DEF UnusedRelease, SweepsOK, Idle0
<1>2. ASSUME NEW p \in unused.work, unused' = [unused EXCEPT !.work = @ \ {p}, !.cur = p]
     PROVE  SweepsOK'
  BY <1>2 DEF UnusedRelease, SweepsOK
<1> QED BY <1>1, <1>2 DEF UnusedRelease

(* The stale claims.                                                        *)
LEMMA ReclaimReadClaimsSweeps ==
  ASSUME SessionsOK, SweepsOK, ReclaimReadClaims
  PROVE  SweepsOK'
<1>1. ASSUME NEW i \in Instances, IsStale(i) PROVE claim[i] \in Holders
  BY <1>1 DEF SessionsOK, IsStale
<1> DEFINE W == {<<i, claim[i], i \notin reclaim.live>> : i \in {j \in Instances : IsStale(j)}}
<1>2. ASSUME NEW w \in W PROVE w \in Instances \X Holders \X BOOLEAN
  <2>1. PICK i \in Instances : IsStale(i) /\ w = <<i, claim[i], i \notin reclaim.live>>
    OBVIOUS
  <2> QED BY <2>1, <1>1
<1>3. W \in SUBSET (Instances \X Holders \X BOOLEAN)
  BY <1>2
<1>4. reclaim' = [Reclaim0 EXCEPT !.pc = "reclaiming", !.work = W]
      /\ UNCHANGED <<unused, cycle>>
  BY DEF ReclaimReadClaims
<1> HIDE DEF W
<1> QED BY <1>3, <1>4 DEF SweepsOK, Reclaim0

(* The next stale claim.                                                    *)
LEMMA ReclaimNextSweeps ==
  ASSUME SweepsOK, ReclaimNext
  PROVE  SweepsOK'
<1>1. CASE reclaim' = Reclaim0
  BY <1>1 DEF ReclaimNext, SweepsOK, Reclaim0
<1>2. ASSUME NEW w \in reclaim.work, NEW cur, cur \in {NoPair, <<w[1], w[2]>>},
             reclaim' = [reclaim EXCEPT !.work = @ \ {w}, !.cur = cur],
             UNCHANGED <<unused, cycle>>
      PROVE  SweepsOK'
  <2>1. cur \in (Instances \X Holders) \union {NoPair}
    BY <1>2 DEF SweepsOK
  <2> QED BY <1>2, <2>1 DEF SweepsOK
<1> QED BY <1>1, <1>2 DEF ReclaimNext

(* The pool's deficit is a natural number: the fleet is finite.             *)
LEMMA CyclePoolStateSweeps ==
  ASSUME SweepsOK, HostingOK, CyclePoolState
  PROVE  SweepsOK'
<1> DEFINE n == Cardinality(Tagged("pooled"))
<1> DEFINE q == IF n < StoppedPoolSize THEN StoppedPoolSize - n ELSE 0
<1>1. n \in Nat
  BY FS_Subset, FS_CardinalityType, ConstantsAssumption DEF Tagged
<1>2. q \in Nat
  BY <1>1, ConstantsAssumption
<1>3. cycle' = [cycle EXCEPT !.pc = "sizing", !.quota = q] /\ UNCHANGED <<unused, reclaim>>
  BY Zenon DEF CyclePoolState, CycleUnchanged
<1> HIDE DEF q
<1> QED BY <1>2, <1>3 DEF SweepsOK

(* Pooling an instance uses one of it.                                      *)
LEMMA CycleActSweeps ==
  ASSUME SweepsOK, CycleAct
  PROVE  SweepsOK'
<1>1. CASE cycle' = [cycle EXCEPT !.pc = "acted"]
  BY <1>1 DEF CycleAct, CycleUnchanged, SweepsOK
<1>2. CASE cycle' = [cycle EXCEPT !.pc = "acted", !.quota = @ - 1] /\ cycle.quota > 0
  <2>1. cycle.quota - 1 \in Nat
    BY <1>2 DEF SweepsOK
  <2> QED BY <1>2, <2>1 DEF CycleAct, CycleUnchanged, SweepsOK
<1>3. \/ cycle' = [cycle EXCEPT !.pc = "acted"]
      \/ cycle' = [cycle EXCEPT !.pc = "acted", !.quota = @ - 1] /\ cycle.quota > 0
  BY DEF CycleAct
<1> QED BY <1>1, <1>2, <1>3

(* The next surplus instance.                                               *)
LEMMA CycleClaimSweeps ==
  ASSUME SweepsOK, CycleClaim
  PROVE  SweepsOK'
<1>1. PICK i \in cycle.surplus :
        \/ cycle' = [cycle EXCEPT !.pc = "holding", !.surplus = @ \ {i}, !.hold = i]
        \/ cycle' = [cycle EXCEPT !.surplus = @ \ {i}]
  BY DEF CycleClaim
<1>2. i \in Instances
  BY DEF SweepsOK
<1>3. UNCHANGED <<misses, probe, unused, reclaim>>
  BY DEF CycleClaim, CycleUnchanged
<1>4. ASSUME cycle' = [cycle EXCEPT !.pc = "holding", !.surplus = @ \ {i}, !.hold = i] PROVE SweepsOK'
  BY <1>2, <1>3, <1>4 DEF SweepsOK
<1>5. ASSUME cycle' = [cycle EXCEPT !.surplus = @ \ {i}] PROVE SweepsOK'
  BY <1>3, <1>5 DEF SweepsOK
<1> QED BY <1>1, <1>4, <1>5

----------------------------------------------------------------------------
(* The five parts, step by step.                                            *)

(* Every step keeps HostingOK. *)
LEMMA HostingStep == ASSUME TypeOK, Next PROVE HostingOK'
<1>0. HostingOK /\ SessionsOK /\ HandlersOK /\ SweepsOK /\ ProcessOK
  BY DEF TypeOK
<1>1. ASSUME NEW s \in Sessions, RequestSession(s) \/ RequestStep(s) \/ CloseSession(s) \/
   MissingProbe(s) PROVE HostingOK'
  <2>1. CASE Reserve(s)
    BY <1>0, <1>1, <2>1, RetagHosting, TerminatedHosting DEF Reserve
  <2>2. CASE StartPooled(s)
    BY <1>0, <1>1, <2>2, RetagHosting, TerminatedHosting, SameHosting DEF StartPooled
  <2>3. CASE LaunchReserved(s)
    BY <1>0, <1>1, <2>3, LaunchReservedHosting
  <2>4. CASE RequestSession(s) \/ ClaimIdle(s) \/ ListPooled(s) \/ AwaitHost(s) \/ UndoClaim(s)
     \/ ClaimPooled(s) \/ ClaimLaunched(s) \/ AwaitLaunched(s) \/ InsertRow(s) \/
     CloseSession(s) \/ MissingProbe(s)
    BY <1>0, <2>4 DEF RequestSession, ClaimIdle, ListPooled, AwaitHost, UndoClaim, ClaimPooled,
       ClaimLaunched, AwaitLaunched, InsertRow, CloseSession, MissingProbe, HostingOK, hosting,
       TryCandidate, ProbeUnchanged
  <2> QED BY <1>1, <2>1, <2>2, <2>3, <2>4 DEF RequestStep
<1>2. ASSUME NEW i \in Instances, Boot(i) \/ PollList(i) \/ PollStarted(i) \/ LoseContainer(i)
   PROVE HostingOK'
  <2>1. CASE Boot(i)
    BY <1>0, <1>2, <2>1 DEF Boot, HostingOK
  <2>2. CASE PollStarted(i)
    BY <1>0, <1>2, <2>2, TerminatedHosting DEF PollStarted, HostingOK
  <2>3. CASE LoseContainer(i)
    BY <1>0, <1>2, <2>3 DEF LoseContainer, HostingOK
  <2>4. CASE PollList(i)
    BY <1>0, <2>4 DEF PollList, HostingOK, hosting
  <2> QED BY <1>2, <2>1, <2>2, <2>3, <2>4
<1>3. ASSUME NEW i \in Instances, NEW s \in Sessions, ProvisionStep(i, s) PROVE HostingOK'
  <2>1. CASE RemoveInstanceContainers(i, s)
    BY <1>0, <1>3, <2>1 DEF RemoveInstanceContainers, HostingOK
  <2>2. CASE CreateContainers(i, s)
    BY <1>0, <1>3, <2>2 DEF CreateContainers, HostingOK
  <2>3. CASE AbandonProvision(i, s) \/ GetApiKey(i, s) \/ AttemptFails(i, s) \/ Provisioned(i,
     s) \/ ProvisionExhausted(i, s)
    BY <1>0, <2>3 DEF AbandonProvision, GetApiKey, AttemptFails, Provisioned,
       ProvisionExhausted, HostingOK, hosting
  <2> QED BY <1>3, <2>1, <2>2, <2>3 DEF ProvisionStep
<1>4. ASSUME NEW i \in Instances, NEW h \in Holders, ReleaseStep(i, h) PROVE HostingOK'
  <2>1. CASE Undeploy(i, h)
    BY <1>0, <1>4, <2>1 DEF Undeploy, HostingOK
  <2>2. CASE TagIdle(i, h)
    BY <1>0, <1>4, <2>2, RetagHosting, TerminatedHosting DEF TagIdle
  <2>3. CASE TerminateFailed(i, h)
    BY <1>0, <1>4, <2>3, TerminatedHosting, SameHosting DEF TerminateFailed
  <2>4. CASE GetInstance(i, h) \/ ReleaseClaim(i, h) \/ ReleaseFails(i, h) \/ DropFailed(i, h)
    BY <1>0, <2>4 DEF GetInstance, ReleaseClaim, ReleaseFails, DropFailed, HostingOK, hosting
  <2> QED BY <1>4, <2>1, <2>2, <2>3, <2>4 DEF ReleaseStep
<1>5. ASSUME UnusedStep \/ ReclaimStep \/ CycleStep \/ ReconcileStep \/ Crash \/ BackfillRead \/
   BackfillClaim PROVE HostingOK'
  <2>1. CASE CycleList
    BY <1>0, <1>5, <2>1 DEF CycleList, HostingOK
  <2>2. CASE CycleAct
    BY <1>0, <1>5, <2>2, RetagHosting, TerminatedHosting, SameHosting DEF CycleAct, HostingOK
  <2>3. CASE CycleWarmUp
    BY <1>0, <1>5, <2>3 DEF CycleWarmUp, HostingOK
  <2>4. CASE UnusedReadOpen \/ UnusedListReserved \/ UnusedReadClaims \/ UnusedRelease \/
     ReclaimReadOpen \/ ReclaimReadLive \/ ReclaimReadClaims \/ ReclaimNext \/ CyclePoolState \/
     CycleClaim \/ CycleUnclaim \/ ReconcileProbe \/ ReconcileNext \/ Crash \/ BackfillRead \/
     BackfillClaim
    BY <1>0, <2>4 DEF UnusedReadOpen, UnusedListReserved, UnusedReadClaims, UnusedRelease,
       ReclaimReadOpen, ReclaimReadLive, ReclaimReadClaims, ReclaimNext, CyclePoolState,
       CycleClaim, CycleUnclaim, ReconcileProbe, ReconcileNext, Crash, BackfillRead,
       BackfillClaim, HostingOK, hosting, ProbeUnchanged
  <2> QED BY <1>5, <2>1, <2>2, <2>3, <2>4 DEF UnusedStep, ReclaimStep, CycleStep, ReconcileStep
<1> QED BY <1>1, <1>2, <1>3, <1>4, <1>5 DEF Next

(* Every step keeps SessionsOK. *)
LEMMA SessionsStep == ASSUME TypeOK, Next PROVE SessionsOK'
<1>0. HostingOK /\ SessionsOK /\ HandlersOK /\ SweepsOK /\ ProcessOK
  BY DEF TypeOK
<1>1. ASSUME NEW s \in Sessions, RequestSession(s) \/ RequestStep(s) \/ CloseSession(s) \/
   MissingProbe(s) PROVE SessionsOK'
  <2>1. CASE RequestSession(s)
    BY <1>0, <1>1, <2>1 DEF RequestSession, Tagged, SessionsOK, rows
  <2>2. CASE ClaimIdle(s)
    BY <1>0, <1>1, <2>2, TryCandidateSessions DEF ClaimIdle
  <2>3. CASE ListPooled(s)
    BY <1>0, <1>1, <2>3 DEF ListPooled, Tagged, SessionsOK, rows
  <2>4. CASE Reserve(s)
    BY <1>0, <1>1, <2>4 DEF Reserve, SessionsOK, rows
  <2>5. CASE AwaitHost(s)
    BY <1>0, <1>1, <2>5 DEF AwaitHost, SessionsOK, rows
  <2>6. CASE UndoClaim(s)
    BY <1>0, <1>1, <2>6 DEF UndoClaim, DropClaim, SessionsOK, rows
  <2>7. CASE ClaimPooled(s)
    BY <1>0, <1>1, <2>7, TryCandidateSessions DEF ClaimPooled
  <2>8. CASE StartPooled(s)
    BY <1>0, <1>1, <2>8 DEF StartPooled, SessionsOK, rows
  <2>9. CASE LaunchReserved(s)
    BY <1>0, <1>1, <2>9 DEF LaunchReserved, Unlaunched, SessionsOK, rows
  <2>10. CASE ClaimLaunched(s)
    BY <1>0, <1>1, <2>10 DEF ClaimLaunched, Claim, SessionsOK, rows, Holders
  <2>11. CASE AwaitLaunched(s)
    BY <1>0, <1>1, <2>11 DEF AwaitLaunched, SessionsOK, rows
  <2>12. CASE InsertRow(s)
    BY <1>0, <1>1, <2>12 DEF InsertRow, SessionsOK, rows
  <2>13. CASE CloseSession(s)
    BY <1>0, <1>1, <2>13 DEF CloseSession, CloseAndRelease, SessionsOK, requests
  <2>14. CASE MissingProbe(s)
    BY <1>0, <1>1, <2>14 DEF MissingProbe, ProbeUnchanged, SessionsOK, requests
  <2> QED BY <1>1, <2>1, <2>2, <2>3, <2>4, <2>5, <2>6, <2>7, <2>8, <2>9, <2>10, <2>11, <2>12,
     <2>13, <2>14 DEF RequestStep
<1>2. ASSUME NEW i \in Instances, Boot(i) \/ PollList(i) \/ PollStarted(i) \/ LoseContainer(i)
   PROVE SessionsOK'
  <2>1. CASE Boot(i) \/ PollList(i) \/ PollStarted(i) \/ LoseContainer(i)
    BY <1>0, <2>1 DEF Boot, PollList, PollStarted, LoseContainer, SessionsOK, rows, requests
  <2> QED BY <1>2, <2>1
<1>3. ASSUME NEW i \in Instances, NEW s \in Sessions, ProvisionStep(i, s) PROVE SessionsOK'
  <2>1. CASE Provisioned(i, s)
    BY <1>0, <1>3, <2>1 DEF Provisioned, ActivateOn, ProvUnchanged, SessionsOK, requests
  <2>2. CASE ProvisionExhausted(i, s)
    BY <1>0, <1>3, <2>2 DEF ProvisionExhausted, CloseAndRelease, ProvUnchanged, SessionsOK,
       rows, requests
  <2>3. CASE AbandonProvision(i, s) \/ GetApiKey(i, s) \/ RemoveInstanceContainers(i, s) \/
     CreateContainers(i, s) \/ AttemptFails(i, s)
    BY <1>0, <2>3 DEF AbandonProvision, GetApiKey, RemoveInstanceContainers, CreateContainers,
       AttemptFails, SessionsOK, rows, requests, ProvUnchanged
  <2> QED BY <1>3, <2>1, <2>2, <2>3 DEF ProvisionStep
<1>4. ASSUME NEW i \in Instances, NEW h \in Holders, ReleaseStep(i, h) PROVE SessionsOK'
  <2>1. CASE GetInstance(i, h)
    BY <1>0, <1>4, <2>1 DEF GetInstance, DropClaim, RelUnchanged, SessionsOK, rows, requests
  <2>2. CASE ReleaseClaim(i, h)
    BY <1>0, <1>4, <2>2 DEF ReleaseClaim, DropClaim, RelUnchanged, SessionsOK, rows, requests
  <2>3. CASE DropFailed(i, h)
    BY <1>0, <1>4, <2>3 DEF DropFailed, DropClaim, RelUnchanged, SessionsOK, rows, requests
  <2>4. CASE Undeploy(i, h) \/ TagIdle(i, h) \/ ReleaseFails(i, h) \/ TerminateFailed(i, h)
    BY <1>0, <2>4 DEF Undeploy, TagIdle, ReleaseFails, TerminateFailed, SessionsOK, rows,
       requests, RelUnchanged
  <2> QED BY <1>4, <2>1, <2>2, <2>3, <2>4 DEF ReleaseStep
<1>5. ASSUME UnusedStep \/ ReclaimStep \/ CycleStep \/ ReconcileStep \/ Crash \/ BackfillRead \/
   BackfillClaim PROVE SessionsOK'
  <2>1. CASE ReclaimNext
    BY <1>0, <1>5, <2>1, ReclaimNextSessions
  <2>2. CASE CycleClaim
    BY <1>0, <1>5, <2>2 DEF CycleClaim, Claim, CycleUnchanged, SessionsOK, rows, requests,
       Holders
  <2>3. CASE CycleUnclaim
    BY <1>0, <1>5, <2>3 DEF CycleUnclaim, DropClaim, CycleUnchanged, SessionsOK, rows, requests
  <2>4. CASE ReconcileNext
    BY <1>0, <1>5, <2>4 DEF ReconcileNext, ActivateOn, ProbeUnchanged, SessionsOK, requests
  <2>5. CASE Crash
    BY <1>0, <1>5, <2>5 DEF Crash, SessionsOK, rows
  <2>6. CASE BackfillClaim
    BY <1>0, <1>5, <2>6 DEF BackfillClaim, Claim, SessionsOK, ProcessOK, rows, requests, Holders
  <2>7. CASE UnusedReadOpen \/ UnusedListReserved \/ UnusedReadClaims \/ UnusedRelease \/
     ReclaimReadOpen \/ ReclaimReadLive \/ ReclaimReadClaims \/ CycleList \/ CyclePoolState \/
     CycleAct \/ CycleWarmUp \/ ReconcileProbe \/ BackfillRead
    BY <1>0, <2>7 DEF UnusedReadOpen, UnusedListReserved, UnusedReadClaims, UnusedRelease,
       ReclaimReadOpen, ReclaimReadLive, ReclaimReadClaims, CycleList, CyclePoolState, CycleAct,
       CycleWarmUp, ReconcileProbe, BackfillRead, SessionsOK, rows, requests, SweepUnchanged,
       CycleUnchanged, ProbeUnchanged
  <2> QED BY <1>5, <2>1, <2>2, <2>3, <2>4, <2>5, <2>6, <2>7 DEF UnusedStep, ReclaimStep,
     CycleStep, ReconcileStep
<1> QED BY <1>1, <1>2, <1>3, <1>4, <1>5 DEF Next

(* Every step keeps HandlersOK. *)
LEMMA HandlersStep == ASSUME TypeOK, Next PROVE HandlersOK'
<1>0. HostingOK /\ SessionsOK /\ HandlersOK /\ SweepsOK /\ ProcessOK
  BY DEF TypeOK
<1>1. ASSUME NEW s \in Sessions, RequestSession(s) \/ RequestStep(s) \/ CloseSession(s) \/
   MissingProbe(s) PROVE HandlersOK'
  <2>1. CASE AwaitHost(s)
    BY <1>0, <1>1, <2>1, AwaitHostHandlers
  <2>2. CASE CloseSession(s)
    BY <1>0, <1>1, <2>2 DEF CloseSession, CloseAndRelease, StartRelease, HandlersOK,
       provisioning, sweeps
  <2>3. CASE MissingProbe(s)
    BY <1>0, <1>1, <2>3 DEF MissingProbe, HandlersOK, provisioning
  <2>4. CASE RequestSession(s) \/ ClaimIdle(s) \/ ListPooled(s) \/ Reserve(s) \/ UndoClaim(s) \/
     ClaimPooled(s) \/ StartPooled(s) \/ LaunchReserved(s) \/ ClaimLaunched(s) \/
     AwaitLaunched(s) \/ InsertRow(s)
    BY <1>0, <2>4 DEF RequestSession, ClaimIdle, ListPooled, Reserve, UndoClaim, ClaimPooled,
       StartPooled, LaunchReserved, ClaimLaunched, AwaitLaunched, InsertRow, HandlersOK,
       provisioning, sweeps, TryCandidate
  <2> QED BY <1>1, <2>1, <2>2, <2>3, <2>4 DEF RequestStep
<1>2. ASSUME NEW i \in Instances, Boot(i) \/ PollList(i) \/ PollStarted(i) \/ LoseContainer(i)
   PROVE HandlersOK'
  <2>1. CASE PollStarted(i)
    BY <1>0, <1>2, <2>1, PollStartedHandlers
  <2>2. CASE Boot(i) \/ PollList(i) \/ LoseContainer(i)
    BY <1>0, <2>2 DEF Boot, PollList, LoseContainer, HandlersOK, provisioning, sweeps
  <2> QED BY <1>2, <2>1, <2>2
<1>3. ASSUME NEW i \in Instances, NEW s \in Sessions, ProvisionStep(i, s) PROVE HandlersOK'
  <2>1. CASE AbandonProvision(i, s)
    BY <1>0, <1>3, <2>1 DEF AbandonProvision, ProvUnchanged, HandlersOK, sweeps
  <2>2. CASE GetApiKey(i, s)
    BY <1>0, <1>3, <2>2 DEF GetApiKey, ProvUnchanged, HandlersOK, sweeps
  <2>3. CASE RemoveInstanceContainers(i, s)
    BY <1>0, <1>3, <2>3 DEF RemoveInstanceContainers, ProvUnchanged, HandlersOK, sweeps
  <2>4. CASE CreateContainers(i, s)
    BY <1>0, <1>3, <2>4 DEF CreateContainers, ProvUnchanged, HandlersOK, sweeps
  <2>5. CASE AttemptFails(i, s)
    BY <1>0, <1>3, <2>5 DEF AttemptFails, ProvUnchanged, HandlersOK, sweeps
  <2>6. CASE Provisioned(i, s)
    BY <1>0, <1>3, <2>6 DEF Provisioned, EndProvision, ProvUnchanged, HandlersOK, sweeps
  <2>7. CASE ProvisionExhausted(i, s)
    BY <1>0, <1>3, <2>7, ProvisionExhaustedHandlers
  <2> QED BY <1>3, <2>1, <2>2, <2>3, <2>4, <2>5, <2>6, <2>7 DEF ProvisionStep
<1>4. ASSUME NEW i \in Instances, NEW h \in Holders, ReleaseStep(i, h) PROVE HandlersOK'
  <2>1. CASE GetInstance(i, h)
    BY <1>0, <1>4, <2>1, GetInstanceHandlers
  <2>2. CASE Undeploy(i, h)
    BY <1>0, <1>4, <2>2 DEF Undeploy, RelStep, RelUnchanged, HandlersOK, sweeps
  <2>3. CASE ReleaseClaim(i, h)
    BY <1>0, <1>4, <2>3 DEF ReleaseClaim, RelStep, RelUnchanged, HandlersOK, sweeps
  <2>4. CASE TagIdle(i, h)
    BY <1>0, <1>4, <2>4, TagIdleHandlers
  <2>5. CASE ReleaseFails(i, h)
    BY <1>0, <1>4, <2>5 DEF ReleaseFails, RelStep, RelUnchanged, HandlersOK, sweeps
  <2>6. CASE TerminateFailed(i, h)
    BY <1>0, <1>4, <2>6 DEF TerminateFailed, RelStep, RelUnchanged, HandlersOK, sweeps
  <2>7. CASE DropFailed(i, h)
    BY <1>0, <1>4, <2>7 DEF DropFailed, RelStep, RelUnchanged, HandlersOK, sweeps
  <2> QED BY <1>4, <2>1, <2>2, <2>3, <2>4, <2>5, <2>6, <2>7 DEF ReleaseStep
<1>5. ASSUME UnusedStep \/ ReclaimStep \/ CycleStep \/ ReconcileStep \/ Crash \/ BackfillRead \/
   BackfillClaim PROVE HandlersOK'
  <2>1. CASE UnusedRelease
    BY <1>0, <1>5, <2>1, UnusedReleaseHandlers
  <2>2. CASE ReclaimNext
    BY <1>0, <1>5, <2>2, ReclaimNextHandlers
  <2>3. CASE ReconcileProbe
    BY <1>0, <1>5, <2>3 DEF ReconcileProbe, HandlersOK, provisioning
  <2>4. CASE ReconcileNext
    BY <1>0, <1>5, <2>4, ReconcileNextHandlers
  <2>5. CASE Crash
    BY <1>0, <1>5, <2>5 DEF Crash, HandlersOK
  <2>6. CASE UnusedReadOpen \/ UnusedListReserved \/ UnusedReadClaims \/ ReclaimReadOpen \/
     ReclaimReadLive \/ ReclaimReadClaims \/ CycleList \/ CyclePoolState \/ CycleClaim \/
     CycleAct \/ CycleUnclaim \/ CycleWarmUp \/ BackfillRead \/ BackfillClaim
    BY <1>0, <2>6 DEF UnusedReadOpen, UnusedListReserved, UnusedReadClaims, ReclaimReadOpen,
       ReclaimReadLive, ReclaimReadClaims, CycleList, CyclePoolState, CycleClaim, CycleAct,
       CycleUnclaim, CycleWarmUp, BackfillRead, BackfillClaim, HandlersOK, provisioning, sweeps,
       SweepUnchanged, CycleUnchanged
  <2> QED BY <1>5, <2>1, <2>2, <2>3, <2>4, <2>5, <2>6 DEF UnusedStep, ReclaimStep, CycleStep,
     ReconcileStep
<1> QED BY <1>1, <1>2, <1>3, <1>4, <1>5 DEF Next

(* Every step keeps SweepsOK. *)
LEMMA SweepsStep == ASSUME TypeOK, Next PROVE SweepsOK'
<1>0. HostingOK /\ SessionsOK /\ HandlersOK /\ SweepsOK /\ ProcessOK
  BY DEF TypeOK
<1>1. ASSUME NEW s \in Sessions, RequestSession(s) \/ RequestStep(s) \/ CloseSession(s) \/
   MissingProbe(s) PROVE SweepsOK'
  <2>1. CASE RequestSession(s) \/ ClaimIdle(s) \/ ListPooled(s) \/ Reserve(s) \/ AwaitHost(s) \/
     UndoClaim(s) \/ ClaimPooled(s) \/ StartPooled(s) \/ LaunchReserved(s) \/ ClaimLaunched(s)
     \/ AwaitLaunched(s) \/ InsertRow(s) \/ CloseSession(s) \/ MissingProbe(s)
    BY <1>0, <2>1 DEF RequestSession, ClaimIdle, ListPooled, Reserve, AwaitHost, UndoClaim,
       ClaimPooled, StartPooled, LaunchReserved, ClaimLaunched, AwaitLaunched, InsertRow,
       CloseSession, MissingProbe, SweepsOK, sweeps, TryCandidate, ProbeUnchanged
  <2> QED BY <1>1, <2>1 DEF RequestStep
<1>2. ASSUME NEW i \in Instances, Boot(i) \/ PollList(i) \/ PollStarted(i) \/ LoseContainer(i)
   PROVE SweepsOK'
  <2>1. CASE Boot(i) \/ PollList(i) \/ PollStarted(i) \/ LoseContainer(i)
    BY <1>0, <2>1 DEF Boot, PollList, PollStarted, LoseContainer, SweepsOK, sweeps
  <2> QED BY <1>2, <2>1
<1>3. ASSUME NEW i \in Instances, NEW s \in Sessions, ProvisionStep(i, s) PROVE SweepsOK'
  <2>1. CASE AbandonProvision(i, s) \/ GetApiKey(i, s) \/ RemoveInstanceContainers(i, s) \/
     CreateContainers(i, s) \/ AttemptFails(i, s) \/ Provisioned(i, s) \/ ProvisionExhausted(i,
     s)
    BY <1>0, <2>1 DEF AbandonProvision, GetApiKey, RemoveInstanceContainers, CreateContainers,
       AttemptFails, Provisioned, ProvisionExhausted, SweepsOK, sweeps, ProvUnchanged
  <2> QED BY <1>3, <2>1 DEF ProvisionStep
<1>4. ASSUME NEW i \in Instances, NEW h \in Holders, ReleaseStep(i, h) PROVE SweepsOK'
  <2>1. CASE GetInstance(i, h) \/ Undeploy(i, h) \/ ReleaseClaim(i, h) \/ TagIdle(i, h) \/
     ReleaseFails(i, h) \/ TerminateFailed(i, h) \/ DropFailed(i, h)
    BY <1>0, <2>1 DEF GetInstance, Undeploy, ReleaseClaim, TagIdle, ReleaseFails,
       TerminateFailed, DropFailed, SweepsOK, sweeps, RelUnchanged
  <2> QED BY <1>4, <2>1 DEF ReleaseStep
<1>5. ASSUME UnusedStep \/ ReclaimStep \/ CycleStep \/ ReconcileStep \/ Crash \/ BackfillRead \/
   BackfillClaim PROVE SweepsOK'
  <2>1. CASE UnusedReadOpen
    BY <1>0, <1>5, <2>1, UnusedReadOpenSweeps
  <2>2. CASE UnusedListReserved
    BY <1>0, <1>5, <2>2, UnusedListReservedSweeps
  <2>3. CASE UnusedReadClaims
    BY <1>0, <1>5, <2>3 DEF UnusedReadClaims, Idle0, SweepsOK
  <2>4. CASE UnusedRelease
    BY <1>0, <1>5, <2>4, UnusedReleaseSweeps
  <2>5. CASE ReclaimReadOpen
    BY <1>0, <1>5, <2>5 DEF ReclaimReadOpen, SweepsOK
  <2>6. CASE ReclaimReadLive
    BY <1>0, <1>5, <2>6 DEF ReclaimReadLive, Tagged, SweepsOK
  <2>7. CASE ReclaimReadClaims
    BY <1>0, <1>5, <2>7, ReclaimReadClaimsSweeps
  <2>8. CASE ReclaimNext
    BY <1>0, <1>5, <2>8, ReclaimNextSweeps
  <2>9. CASE CycleList
    BY <1>0, <1>5, <2>9 DEF CycleList, Tagged, CycleUnchanged, SweepsOK
  <2>10. CASE CyclePoolState
    BY <1>0, <1>5, <2>10, CyclePoolStateSweeps
  <2>11. CASE CycleClaim
    BY <1>0, <1>5, <2>11, CycleClaimSweeps
  <2>12. CASE CycleAct
    BY <1>0, <1>5, <2>12, CycleActSweeps
  <2>13. CASE CycleUnclaim
    BY <1>0, <1>5, <2>13 DEF CycleUnclaim, CycleUnchanged, SweepsOK
  <2>14. CASE CycleWarmUp
    BY <1>0, <1>5, <2>14 DEF CycleWarmUp, Cycle0, CycleUnchanged, SweepsOK
  <2>15. CASE Crash
    BY <1>0, <1>5, <2>15 DEF Crash, Idle0, Reclaim0, Cycle0, SweepsOK
  <2>16. CASE ReconcileProbe \/ ReconcileNext \/ BackfillRead \/ BackfillClaim
    BY <1>0, <2>16 DEF ReconcileProbe, ReconcileNext, BackfillRead, BackfillClaim, SweepsOK,
       sweeps, ProbeUnchanged
  <2> QED BY <1>5, <2>1, <2>2, <2>3, <2>4, <2>5, <2>6, <2>7, <2>8, <2>9, <2>10, <2>11, <2>12,
     <2>13, <2>14, <2>15, <2>16 DEF UnusedStep, ReclaimStep, CycleStep, ReconcileStep
<1> QED BY <1>1, <1>2, <1>3, <1>4, <1>5 DEF Next

(* Every step keeps ProcessOK. *)
LEMMA ProcessStep == ASSUME TypeOK, Next PROVE ProcessOK'
<1>0. HostingOK /\ SessionsOK /\ HandlersOK /\ SweepsOK /\ ProcessOK
  BY DEF TypeOK
<1>1. ASSUME NEW s \in Sessions, RequestSession(s) \/ RequestStep(s) \/ CloseSession(s) \/
   MissingProbe(s) PROVE ProcessOK'
  <2>1. CASE Reserve(s)
    BY <1>0, <1>1, <2>1, ConstantsAssumption DEF Reserve, Succeeds, Fails, ProcessOK, boot
  <2>2. CASE AwaitHost(s)
    BY <1>0, <1>1, <2>2, ConstantsAssumption DEF AwaitHost, Succeeds, HostNeverComes, Fails,
       ProcessOK, boot
  <2>3. CASE StartPooled(s)
    BY <1>0, <1>1, <2>3, ConstantsAssumption DEF StartPooled, Succeeds, Fails, ProcessOK, boot
  <2>4. CASE LaunchReserved(s)
    BY <1>0, <1>1, <2>4, ConstantsAssumption DEF LaunchReserved, Succeeds, Fails, ProcessOK,
       boot
  <2>5. CASE ClaimLaunched(s)
    BY <1>0, <1>1, <2>5, ConstantsAssumption DEF ClaimLaunched, Succeeds, Fails, ProcessOK, boot
  <2>6. CASE AwaitLaunched(s)
    BY <1>0, <1>1, <2>6, ConstantsAssumption DEF AwaitLaunched, Succeeds, HostNeverComes, Fails,
       ProcessOK, boot
  <2>7. CASE InsertRow(s)
    BY <1>0, <1>1, <2>7, ConstantsAssumption DEF InsertRow, Succeeds, Fails, ProcessOK, boot
  <2>8. CASE RequestSession(s) \/ ClaimIdle(s) \/ ListPooled(s) \/ UndoClaim(s) \/
     ClaimPooled(s) \/ CloseSession(s) \/ MissingProbe(s)
    BY <1>0, <2>8 DEF RequestSession, ClaimIdle, ListPooled, UndoClaim, ClaimPooled,
       CloseSession, MissingProbe, ProcessOK, boot, TryCandidate, ProbeUnchanged
  <2> QED BY <1>1, <2>1, <2>2, <2>3, <2>4, <2>5, <2>6, <2>7, <2>8 DEF RequestStep
<1>2. ASSUME NEW i \in Instances, Boot(i) \/ PollList(i) \/ PollStarted(i) \/ LoseContainer(i)
   PROVE ProcessOK'
  <2>1. CASE PollList(i)
    BY <1>0, <1>2, <2>1 DEF PollList, HostingOK, ProcessOK
  <2>2. CASE PollStarted(i)
    BY <1>0, <1>2, <2>2, ConstantsAssumption DEF PollStarted, Succeeds, Fails, ProcessOK
  <2>3. CASE LoseContainer(i)
    BY <1>0, <1>2, <2>3, ConstantsAssumption DEF LoseContainer, Fails, ProcessOK, boot
  <2>4. CASE Boot(i)
    BY <1>0, <2>4 DEF Boot, ProcessOK, boot
  <2> QED BY <1>2, <2>1, <2>2, <2>3, <2>4
<1>3. ASSUME NEW i \in Instances, NEW s \in Sessions, ProvisionStep(i, s) PROVE ProcessOK'
  <2>1. CASE AttemptFails(i, s)
    BY <1>0, <1>3, <2>1, ConstantsAssumption DEF AttemptFails, Fails, Succeeds, ProvUnchanged,
       ProcessOK, boot
  <2>2. CASE ProvisionExhausted(i, s)
    BY <1>0, <1>3, <2>2, ConstantsAssumption DEF ProvisionExhausted, Fails, Succeeds,
       ProvUnchanged, ProcessOK, boot
  <2>3. CASE AbandonProvision(i, s) \/ GetApiKey(i, s) \/ RemoveInstanceContainers(i, s) \/
     CreateContainers(i, s) \/ Provisioned(i, s)
    BY <1>0, <2>3 DEF AbandonProvision, GetApiKey, RemoveInstanceContainers, CreateContainers,
       Provisioned, ProcessOK, boot, ProvUnchanged
  <2> QED BY <1>3, <2>1, <2>2, <2>3 DEF ProvisionStep
<1>4. ASSUME NEW i \in Instances, NEW h \in Holders, ReleaseStep(i, h) PROVE ProcessOK'
  <2>1. CASE TagIdle(i, h)
    BY <1>0, <1>4, <2>1, ConstantsAssumption DEF TagIdle, Succeeds, Fails, RelUnchanged,
       ProcessOK, boot
  <2>2. CASE ReleaseFails(i, h)
    BY <1>0, <1>4, <2>2, ConstantsAssumption DEF ReleaseFails, Fails, RelUnchanged, ProcessOK,
       boot
  <2>3. CASE TerminateFailed(i, h)
    BY <1>0, <1>4, <2>3, ConstantsAssumption DEF TerminateFailed, Succeeds, Fails, RelUnchanged,
       ProcessOK, boot
  <2>4. CASE GetInstance(i, h) \/ Undeploy(i, h) \/ ReleaseClaim(i, h) \/ DropFailed(i, h)
    BY <1>0, <2>4 DEF GetInstance, Undeploy, ReleaseClaim, DropFailed, ProcessOK, boot,
       RelUnchanged
  <2> QED BY <1>4, <2>1, <2>2, <2>3, <2>4 DEF ReleaseStep
<1>5. ASSUME UnusedStep \/ ReclaimStep \/ CycleStep \/ ReconcileStep \/ Crash \/ BackfillRead \/
   BackfillClaim PROVE ProcessOK'
  <2>1. CASE CycleAct
    BY <1>0, <1>5, <2>1, ConstantsAssumption DEF CycleAct, Fails, Succeeds, CycleUnchanged,
       ProcessOK, boot
  <2>2. CASE Crash
    BY <1>0, <1>5, <2>2, ConstantsAssumption DEF Crash, ProcessOK
  <2>3. CASE BackfillRead
    BY <1>0, <1>5, <2>3 DEF BackfillRead, Tagged, HostingOK, ProcessOK
  <2>4. CASE BackfillClaim
    BY <1>0, <1>5, <2>4 DEF BackfillClaim, ProcessOK
  <2>5. CASE UnusedReadOpen \/ UnusedListReserved \/ UnusedReadClaims \/ UnusedRelease \/
     ReclaimReadOpen \/ ReclaimReadLive \/ ReclaimReadClaims \/ ReclaimNext \/ CycleList \/
     CyclePoolState \/ CycleClaim \/ CycleUnclaim \/ CycleWarmUp \/ ReconcileProbe \/
     ReconcileNext
    BY <1>0, <2>5 DEF UnusedReadOpen, UnusedListReserved, UnusedReadClaims, UnusedRelease,
       ReclaimReadOpen, ReclaimReadLive, ReclaimReadClaims, ReclaimNext, CycleList,
       CyclePoolState, CycleClaim, CycleUnclaim, CycleWarmUp, ReconcileProbe, ReconcileNext,
       ProcessOK, boot, SweepUnchanged, CycleUnchanged, ProbeUnchanged
  <2> QED BY <1>5, <2>1, <2>2, <2>3, <2>4, <2>5 DEF UnusedStep, ReclaimStep, CycleStep,
     ReconcileStep
<1> QED BY <1>1, <1>2, <1>3, <1>4, <1>5 DEF Next

----------------------------------------------------------------------------
(* The records a worker finds have the types.                               *)
LEMMA TypeInit == Init => TypeOK
<1> SUFFICES ASSUME Init PROVE TypeOK
  OBVIOUS
<1>1. HostingOK
  BY DEF Init, HostingOK
<1>2. SessionsOK
  BY DEF Init, SessionsOK
<1>3. HandlersOK
  BY DEF Init, HandlersOK
<1>4. SweepsOK
  BY DEF Init, SweepsOK, Idle0, Reclaim0, Cycle0
<1>5. ProcessOK
  BY ConstantsAssumption DEF Init, ProcessOK
<1> QED BY <1>1, <1>2, <1>3, <1>4, <1>5 DEF TypeOK

(* A stuttering step keeps them.                                            *)
LEMMA TypeStutter == ASSUME TypeOK, UNCHANGED vars PROVE TypeOK'
<1>1. HostingOK'
  BY DEF TypeOK, HostingOK, vars, hosting
<1>2. SessionsOK'
  BY DEF TypeOK, SessionsOK, vars, rows, requests
<1>3. HandlersOK'
  BY DEF TypeOK, HandlersOK, vars, provisioning, sweeps
<1>4. SweepsOK'
  BY DEF TypeOK, SweepsOK, vars, sweeps
<1>5. ProcessOK'
  BY DEF TypeOK, ProcessOK, vars, boot
<1> QED BY <1>1, <1>2, <1>3, <1>4, <1>5 DEF TypeOK

(* Whatever fails and whenever the worker restarts, every record keeps its  *)
(* shape; a reserved instance in particular always names its session, which *)
(* is what every release and every sweep goes by (releaseInstance's         *)
(* isReservedFor, backfillClaims).                                          *)
THEOREM TypeCorrect == Spec => []TypeOK
<1>1. ASSUME TypeOK, Next PROVE TypeOK'
  BY <1>1, HostingStep, SessionsStep, HandlersStep, SweepsStep, ProcessStep DEF TypeOK
<1>2. TypeOK /\ [Next]_vars => TypeOK'
  BY <1>1, TypeStutter
<1> QED BY TypeInit, <1>2, PTL DEF Spec

=============================================================================
