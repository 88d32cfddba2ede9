--------------------- MODULE InstanceAllocationContainers ---------------------
(***************************************************************************)
(* Whose containers an instance has, for every set of sessions and         *)
(* instances of a calm run: they are of the session the instance is        *)
(* reserved and claimed for, from its row to the undeploy of its release,  *)
(* and nobody but that session's own provisioning takes them away.  Each   *)
(* part of KInv is kept for a reason of its own; what a step can do to the *)
(* rows, the reservations, the claims, the releases, the attempts and the  *)
(* containers comes first.                                                 *)
(***************************************************************************)
EXTENDS InstanceAllocationProofs

----------------------------------------------------------------------------
(* What is known of containers, on top of IInv: whose they are, and which   *)
(* attempts may still touch them.                                           *)

HostInv ==
  \A i \in Instances :
    /\ tag[i] \in {"unlaunched", "terminated"} => ~host[i]
    /\ tag[i] = "terminated" => containers[i] = {}
    /\ tag[i] # "reserved" => owner[i] = NoSession

(* Containers are their session's, from its row to the end of its release:  *)
(* if they outlast undeploy, that or the terminate after it has failed.     *)
ContainerInv ==
  \A i \in Instances : \A s \in containers[i] : i \notin disturbed =>
    /\ IsReservedFor(i, s) /\ host[i] /\ row[s] # "none" /\ rowInstance[s] = i
    /\ rel[i][s] \notin {"torn", "unclaimed"}
    /\ rel[i][s] = "failed" => "undeploy" \in Failing /\ failures >= 1
    /\ rel[i][s] = "dropping" => {"undeploy", "terminate"} \subseteq Failing /\ failures >= 2
    /\ claim[i] # s => {"undeploy", "terminate"} \subseteq Failing /\ failures >= 2

(* An attempt that has its API key is its session's only one.               *)
Built(i, s) == s \in containers[i] \/ i \in disturbed

AttemptInv ==
  \A i \in Instances : \A s \in Sessions :
    /\ registry[i] = s \/ prov[i][s] # "none" => Settled(s) \/ Targets(s, i)
    /\ prov[i][s] # "none" /\ registry[i] # s => ~InFlight(s)
    /\ registry[i] = s => prov[i][s] # "none"
    /\ registry[i] = s /\ prov[i][s] # "begin" /\ tag[i] # "terminated" =>
         /\ IsReservedFor(i, s) /\ claim[i] = s /\ row[s] # "none" /\ rowInstance[s] = i
         /\ rel[i][s] \in {"none", "start"}
         /\ prov[i][s] = "built" => Built(i, s)

(* The poll's listeners, and a reservation that is undone.                  *)
PolledInv ==
  /\ \A p \in polled : p[2] = NoSession \/ Settled(p[2]) \/ Targets(p[2], p[1])
  /\ \A s \in Sessions : req[s] = "undoing" =>
       IsReservedFor(target[s], s) \/ tag[target[s]] = "terminated"

(* Nobody has had a launched instance before.                               *)
FreshInv ==
  \A s \in Sessions : row[s] # "none" =>
    /\ rowInstance[s] \in Instances /\ tag[rowInstance[s]] # "unlaunched"
    /\ \A t \in Sessions : Launching(t) => rowInstance[s] # target[t]

(* A verdict PROVISIONED is acted on only while nobody provisions: whoever  *)
(* is PENDING then on that instance has its containers.                     *)
ProbeInv ==
  \A p \in probe : p[2] = "PROVISIONED" =>
    /\ row[p[1]] # "none"
    /\ \A t \in Sessions :
         /\ target[t] = rowInstance[p[1]] /\ registry[target[t]] = NoSession
         /\ req[t] = "allocated" \/ row[t] = "PENDING"
         => Built(target[t], t)

(* A claim dropped with its instance is of one that is gone.                *)
LiveInv ==
  /\ reclaim.pc = "listed" => \A s \in reclaim.settled : \A i \in Instances \ reclaim.live :
                                 ~IsReservedFor(i, s)
  /\ \A w \in reclaim.work : w[3] => ~IsReservedFor(w[1], w[2])

KInv == /\ HostInv /\ ContainerInv /\ AttemptInv /\ PolledInv /\ FreshInv
        /\ ProbeInv /\ LiveInv

----------------------------------------------------------------------------
(* What a step can do.                                                      *)

(* A settled session stays settled, and a row stays on its instance.        *)
RowsMove ==
  \A s \in Sessions :
    /\ Settled(s) => Settled(s)'
    /\ InFlight(s)' => InFlight(s) \/ req[s] = "none"
    /\ \A i \in Instances : Targets(s, i) => Targets(s, i)' \/ Settled(s)'
    /\ req'[s] = "allocated" => /\ target'[s] = target[s]
                                /\ req[s] = "allocated" \/ (req[s] = "awaiting" /\ RunProvision(target[s], s))
    /\ row'[s] = "PENDING" => row[s] \in {"none", "PENDING"}
    /\ req'[s] = "undoing" => /\ target'[s] = target[s]
                              /\ req[s] \in {"undoing", "awaiting"} \/ tag'[target[s]] = "terminated"
    /\ row[s] # "none" => row'[s] # "none" /\ rowInstance'[s] = rowInstance[s]
    /\ Launching(s)' => \/ Launching(s) /\ target'[s] = target[s]
                        \/ target'[s] \in Unlaunched
    /\ row'[s] # "none" /\ row[s] = "none" =>
         /\ req[s] \in {"allocated", "launchedUp"} /\ rowInstance'[s] = target[s]
         /\ req' = [req EXCEPT ![s] = "done"] /\ row' = [row EXCEPT ![s] = "PENDING"]
         /\ UNCHANGED <<tag, owner, target, registry, probe, containers, disturbed>>

(* Every step moves the rows so.                                              *)
LEMMA RowsStep == ASSUME Calm, TypeOK, TypeOK', IInv, Next PROVE RowsMove
<1> USE ConstantsAssumption
<1>0. \A s \in Sessions : req[s] \in {"launched", "awaitingLaunch", "launchedUp", "allocated", "awaiting"} => ~Open(s)
  BY DEF IInv, RequestInv, Open
<1>1. ASSUME NEW s \in Sessions, RequestSession(s) \/ RequestStep(s) PROVE RowsMove
  <2>1. CASE ClaimIdle(s) \/ ClaimPooled(s)
    <3>1. /\ req[s] \in {"claiming", "pooling"}
          /\ \/ UNCHANGED <<req, target>>
             \/ /\ \E to \in {"claimed", "startingPooled"} : req' = [req EXCEPT ![s] = to]
                /\ \E i \in Instances : target' = [target EXCEPT ![s] = i]
          /\ UNCHANGED <<row, rowInstance>>
      BY <2>1 DEF ClaimIdle, ClaimPooled, TryCandidate, rows, TypeOK, SessionsOK
    <3> QED BY <3>1 DEF RowsMove, TypeOK, SessionsOK, IInv, RequestInv, Settled, InFlight, Launching,
           Targets, Holding, Electing, Open
  <2>2. CASE LaunchReserved(s)
    <3>1. /\ req[s] \in {"launching", "pooling"}
          /\ \/ /\ req' = [req EXCEPT ![s] = "launched"]
                /\ \E i \in Unlaunched : target' = [target EXCEPT ![s] = i]
             \/ req' = [req EXCEPT ![s] = "failed"] /\ UNCHANGED target
          /\ UNCHANGED <<row, rowInstance>>
      BY <2>2 DEF LaunchReserved, rows
    <3> QED BY <3>1 DEF RowsMove, TypeOK, SessionsOK, IInv, RequestInv, Settled, InFlight, Launching,
           Targets, Holding, Electing, Open, Unlaunched
  <2>3. CASE InsertRow(s)
    <3>1. /\ req[s] \in {"allocated", "launchedUp"}
          /\ \/ /\ req' = [req EXCEPT ![s] = "done"] /\ row' = [row EXCEPT ![s] = "PENDING"]
                /\ rowInstance' = [rowInstance EXCEPT ![s] = target[s]]
             \/ req' = [req EXCEPT ![s] = "failed"] /\ UNCHANGED <<row, rowInstance>>
          /\ UNCHANGED <<tag, owner, target, registry, probe, containers, disturbed>>
      BY <2>3 DEF InsertRow, rows, hosting, provisioning, sweeps
    <3> QED BY <3>1 DEF RowsMove, TypeOK, SessionsOK, IInv, RequestInv, Settled, InFlight, Launching,
           Targets, Holding, Electing, Open
  <2>4. CASE RequestSession(s) \/ ListPooled(s) \/ Reserve(s) \/ AwaitHost(s) \/ UndoClaim(s)
             \/ StartPooled(s) \/ ClaimLaunched(s) \/ AwaitLaunched(s)
    <3>1. /\ \/ req[s] \in {"none", "claiming", "claimed", "startingPooled", "undoingStart"} /\
                  \E to \in {"claiming", "pooling", "awaiting", "undoingStart", "launching"} :
                    req' = [req EXCEPT ![s] = to]
             \/ req[s] = "claimed" /\ req' = [req EXCEPT ![s] = "undoing"] /\ tag'[target[s]] = "terminated"
             \/ req[s] = "awaiting" /\ req' = [req EXCEPT ![s] = "undoing"]
             \/ req[s] = "awaiting" /\ req' = [req EXCEPT ![s] = "allocated"] /\ RunProvision(target[s], s)
             \/ req[s] = "undoing" /\ req' = [req EXCEPT ![s] = "failed"]
             \/ req[s] = "launched" /\ req' = [req EXCEPT ![s] = "awaitingLaunch"]
             \/ req[s] = "awaitingLaunch" /\ \E to \in {"launchedUp", "failed"} : req' = [req EXCEPT ![s] = to]
          /\ UNCHANGED <<row, rowInstance, target>>
      <4>1. req[s] = "claimed" => target[s] \in Instances
        BY DEF IInv, RequestInv, Electing
      <4> QED BY <2>4, <4>1 DEF RequestSession, ListPooled, Reserve, Terminated, AwaitHost, UndoClaim,
             StartPooled, ClaimLaunched, AwaitLaunched, rows, TypeOK, HostingOK, SessionsOK
    <3> QED BY <3>1 DEF RowsMove, TypeOK, SessionsOK, IInv, RequestInv, Settled, InFlight, Launching,
           Targets, Holding, Electing, Open
  <2> QED BY <1>1, <2>1, <2>2, <2>3, <2>4 DEF RequestStep
<1>2. CASE /\ \A s \in Sessions : row'[s] = row[s] \/ (Open(s) /\ row'[s] \in {"ACTIVE", "CLOSED"})
           /\ UNCHANGED <<rowInstance, req, target>>
  BY <1>2 DEF RowsMove, TypeOK, SessionsOK, IInv, RequestInv, Settled, InFlight, Launching, Targets,
     Holding, Electing, Open
<1>3. ASSUME NEW s \in Sessions, CloseSession(s) \/ MissingProbe(s) PROVE RowsMove
  BY <1>2, <1>3 DEF CloseSession, CloseAndRelease, MissingProbe, ProbeUnchanged, requests, rows,
     TypeOK, SessionsOK, Open
<1>4. ASSUME NEW i \in Instances, Boot(i) \/ PollList(i) \/ PollStarted(i) \/ LoseContainer(i)
      PROVE  RowsMove
  BY <1>2, <1>4 DEF Boot, PollList, PollStarted, LoseContainer, requests, rows
<1>5. ASSUME NEW i \in Instances, NEW s \in Sessions, ProvisionStep(i, s) PROVE RowsMove
  <2>1. CASE AbandonProvision(i, s) \/ GetApiKey(i, s) \/ RemoveInstanceContainers(i, s)
             \/ CreateContainers(i, s) \/ AttemptFails(i, s)
    BY <1>2, <2>1 DEF AbandonProvision, GetApiKey, RemoveInstanceContainers, CreateContainers,
       AttemptFails, ProvUnchanged, requests, rows
  <2>2. CASE Provisioned(i, s)
    BY <1>2, <2>2 DEF Provisioned, ActivateOn, ProvUnchanged, requests, rows, Open
  <2>3. CASE ProvisionExhausted(i, s)
    BY <1>2, <2>3 DEF ProvisionExhausted, CloseAndRelease, ProvUnchanged, requests, rows,
       TypeOK, SessionsOK, Open
  <2> QED BY <1>5, <2>1, <2>2, <2>3 DEF ProvisionStep
<1>6. ASSUME NEW i \in Instances, NEW h \in Holders, ReleaseStep(i, h) PROVE RowsMove
  BY <1>2, <1>6 DEF ReleaseStep, GetInstance, Undeploy, ReleaseClaim, TagIdle, ReleaseFails,
     TerminateFailed, DropFailed, RelUnchanged, requests, rows
<1>7. CASE UnusedStep \/ ReclaimStep \/ CycleStep
  BY <1>2, <1>7 DEF UnusedStep, ReclaimStep, CycleStep, UnusedReadOpen, UnusedListReserved,
     UnusedReadClaims, UnusedRelease, ReclaimReadOpen, ReclaimReadLive, ReclaimReadClaims,
     ReclaimNext, CycleList, CyclePoolState, CycleClaim, CycleAct, CycleUnclaim, CycleWarmUp,
     SweepUnchanged, CycleUnchanged, requests, rows
<1>8. CASE ReconcileStep
  BY <1>2, <1>8 DEF ReconcileStep, ReconcileProbe, ReconcileNext, ActivateOn, ProbeUnchanged,
     requests, rows, Open
<1>9. CASE Crash
  BY <1>9 DEF Crash, requests, rows, RowsMove, TypeOK, SessionsOK, IInv, RequestInv, Settled,
     InFlight, Launching, Targets, Holding, Electing, Open
<1>10. CASE BackfillRead \/ BackfillClaim
  BY <1>2, <1>10 DEF BackfillRead, BackfillClaim, requests, rows
<1> QED BY <1>1, <1>3, <1>4, <1>5, <1>6, <1>7, <1>8, <1>9, <1>10 DEF Next

(* Only a request reserves, only a release gives back: a reservation is     *)
(* new while its session is in flight, and goes with the last step of the   *)
(* session's own release.                                                   *)
TagsMove ==
  \A i \in Instances :
    /\ tag[i] = "terminated" => tag'[i] = "terminated"
    /\ tag[i] # "unlaunched" => tag'[i] # "unlaunched"
    /\ tag'[i] # "reserved" => tag[i] = "reserved" \/ owner'[i] \in {owner[i], NoSession}
    /\ \A s \in Sessions :
         /\ IsReservedFor(i, s)' => IsReservedFor(i, s) \/ (InFlight(s) /\ target'[s] = i)
         /\ IsReservedFor(i, s) => \/ IsReservedFor(i, s)' 
                                   \/ owner'[i] = NoSession /\ rel[i][s] = "unclaimed"
                                   \/ owner'[i] = NoSession /\ rel[i][s] = "failed" /\ tag'[i] = "terminated"

(* Every step moves the tags so.                                              *)
LEMMA TagsStep == ASSUME Calm, TypeOK, TypeOK', IInv, Next PROVE TagsMove
<1> USE ConstantsAssumption
<1>1. CASE UNCHANGED <<tag, owner>>
  BY <1>1 DEF TagsMove, IsReservedFor
<1>2. ASSUME NEW s \in Sessions, RequestSession(s) \/ RequestStep(s) \/ CloseSession(s) \/ MissingProbe(s)
      PROVE  TagsMove
  <2>1. CASE Reserve(s) \/ StartPooled(s)
    <3>1. /\ req[s] \in {"claimed", "startingPooled"}
          /\ \/ /\ tag[target[s]] # "terminated" /\ tag' = [tag EXCEPT ![target[s]] = "reserved"]
                /\ owner' = [owner EXCEPT ![target[s]] = s]
             \/ /\ tag' = [tag EXCEPT ![target[s]] = "terminated"]
                /\ owner' = [owner EXCEPT ![target[s]] = NoSession]
             \/ UNCHANGED <<tag, owner>>
          /\ UNCHANGED target
      BY <2>1 DEF Reserve, StartPooled, Retag, Terminated, hosting
    <3>2. target[s] \in Instances /\ tag[target[s]] \notin {"reserved", "unlaunched"}
      BY <3>1 DEF IInv, RequestInv, OwnerInv, Electing, TypeOK, SessionsOK
    <3> QED BY <3>1, <3>2 DEF TagsMove, TypeOK, HostingOK, SessionsOK, InFlight, IsReservedFor
  <2>2. CASE LaunchReserved(s)
    <3>1. /\ req[s] \in {"launching", "pooling"}
          /\ \/ \E i \in Unlaunched : /\ tag' = [tag EXCEPT ![i] = "reserved"] /\ owner' = [owner EXCEPT ![i] = s]
                                      /\ target' = [target EXCEPT ![s] = i]
             \/ \E i \in Unlaunched : /\ tag' = [tag EXCEPT ![i] = "terminated"]
                                      /\ owner' = [owner EXCEPT ![i] = NoSession]
             \/ UNCHANGED <<tag, owner>>
      BY <2>2 DEF LaunchReserved, Terminated, hosting
    <3> QED BY <3>1 DEF TagsMove, TypeOK, HostingOK, SessionsOK, InFlight, IsReservedFor, Unlaunched
  <2>3. CASE RequestSession(s) \/ ClaimIdle(s) \/ ListPooled(s) \/ AwaitHost(s) \/ UndoClaim(s)
             \/ ClaimPooled(s) \/ ClaimLaunched(s) \/ AwaitLaunched(s) \/ InsertRow(s)
             \/ CloseSession(s) \/ MissingProbe(s)
    BY <1>1, <2>3 DEF RequestSession, ClaimIdle, ListPooled, AwaitHost, UndoClaim, ClaimPooled,
       ClaimLaunched, AwaitLaunched, InsertRow, CloseSession, MissingProbe, hosting,
       TryCandidate, ProbeUnchanged
  <2> QED BY <1>2, <2>1, <2>2, <2>3 DEF RequestStep
<1>3. ASSUME NEW i \in Instances, Boot(i) \/ PollList(i) \/ PollStarted(i) \/ LoseContainer(i)
      PROVE  TagsMove
  <2>1. CASE PollStarted(i)
    <3>1. \/ UNCHANGED tag /\ UNCHANGED owner
          \/ UNCHANGED tag /\ tag[i] = "terminated" /\ owner' = [owner EXCEPT ![i] = NoSession]
      BY <2>1 DEF PollStarted, Terminated, Fails, Calm, TypeOK, HostingOK
    <3> QED BY <3>1 DEF TagsMove, TypeOK, HostingOK, IsReservedFor
  <2> QED BY <1>1, <1>3, <2>1 DEF Boot, PollList, LoseContainer, hosting
<1>4. ASSUME NEW i \in Instances, NEW s \in Sessions, ProvisionStep(i, s) PROVE TagsMove
  BY <1>1, <1>4 DEF ProvisionStep, AbandonProvision, GetApiKey, RemoveInstanceContainers,
     CreateContainers, AttemptFails, Provisioned, ProvisionExhausted, hosting
<1>5. ASSUME NEW i \in Instances, NEW h \in Holders, ReleaseStep(i, h) PROVE TagsMove
  <2>1. CASE TagIdle(i, h)
    <3>1. h \in Sessions /\ IsReservedFor(i, h)
      BY <2>1 DEF TagIdle, IInv, ReleaseInv, Holders
    <3>2. /\ rel[i][h] = "unclaimed" /\ owner' = [owner EXCEPT ![i] = NoSession]
          /\ \E to \in {"idle", "terminated"} : tag' = [tag EXCEPT ![i] = to]
      BY <2>1 DEF TagIdle, Retag, Terminated
    <3> QED BY <3>1, <3>2 DEF TagsMove, TypeOK, HostingOK, IsReservedFor
  <2>2. CASE TerminateFailed(i, h)
    <3>1. h \in Sessions /\ (IsReservedFor(i, h) \/ tag[i] = "terminated")
      BY <2>2 DEF TerminateFailed, IInv, ReleaseInv, Holders
    <3>2. /\ rel[i][h] = "failed"
          /\ \/ /\ owner' = [owner EXCEPT ![i] = NoSession] /\ tag' = [tag EXCEPT ![i] = "terminated"]
             \/ UNCHANGED <<tag, owner>>
      BY <2>2 DEF TerminateFailed, Terminated, hosting
    <3> QED BY <3>1, <3>2 DEF TagsMove, TypeOK, HostingOK, IsReservedFor
  <2> QED BY <1>1, <1>5, <2>1, <2>2 DEF ReleaseStep, GetInstance, Undeploy, ReleaseClaim,
         ReleaseFails, DropFailed, hosting
<1>6. CASE UnusedStep \/ ReclaimStep \/ ReconcileStep \/ Crash \/ BackfillRead \/ BackfillClaim
  BY <1>1, <1>6 DEF UnusedStep, ReclaimStep, ReconcileStep, UnusedReadOpen, UnusedListReserved,
     UnusedReadClaims, UnusedRelease, ReclaimReadOpen, ReclaimReadLive, ReclaimReadClaims,
     ReclaimNext, ReconcileProbe, ReconcileNext, Crash, BackfillRead, BackfillClaim, hosting,
     ProbeUnchanged
<1>7. CASE CycleStep
  <2>1. CASE CycleList \/ CycleWarmUp
    <3>1. ASSUME NEW new \in SUBSET Unlaunched, NEW to \in {"idle", "pooled"}, UNCHANGED owner,
                 tag' = [i \in Instances |-> IF i \in new THEN to ELSE tag[i]]
          PROVE  TagsMove
      BY <3>1 DEF TagsMove, TypeOK, HostingOK, IsReservedFor, Unlaunched
    <3>2. CASE CycleList
      BY <1>1, <3>1, <3>2 DEF CycleList
    <3>3. CASE CycleWarmUp
      BY <3>1, <3>3 DEF CycleWarmUp
    <3> QED BY <2>1, <3>2, <3>3
  <2>2. CASE CycleAct
    <3>1. cycle.hold \in Instances /\ tag[cycle.hold] \notin {"reserved", "unlaunched"}
      BY <2>2 DEF CycleAct, IInv, CycleInv
    <3>2. \/ UNCHANGED <<tag, owner>>
          \/ /\ owner' = [owner EXCEPT ![cycle.hold] = NoSession]
             /\ \/ tag' = [tag EXCEPT ![cycle.hold] = "terminated"]
                \/ tag[cycle.hold] # "terminated" /\ tag' = [tag EXCEPT ![cycle.hold] = "pooled"]
      BY <2>2 DEF CycleAct, Retag, Terminated, hosting
    <3> QED BY <3>1, <3>2 DEF TagsMove, TypeOK, HostingOK, IsReservedFor
  <2>3. CASE CyclePoolState \/ CycleClaim \/ CycleUnclaim
    BY <1>1, <2>3 DEF CyclePoolState, CycleClaim, CycleUnclaim, hosting
  <2> QED BY <1>7, <2>1, <2>2, <2>3 DEF CycleStep
<1> QED BY <1>2, <1>3, <1>4, <1>5, <1>6, <1>7 DEF Next

(* Who has an instance loses the claim by undoing the request, or in the    *)
(* release after the containers; a sweep only drops it with the instance.   *)
ClaimsMove ==
  \A i \in Instances, s \in Sessions : claim[i] = s /\ claim'[i] # s =>
    \/ req[s] \in {"undoing", "undoingStart"} \/ ~IsReservedFor(i, s)
    \/ rel[i][s] \in {"torn", "dropping"}

(* Every step moves the claims so.                                            *)
LEMMA ClaimsStep == ASSUME Calm, TypeOK, TypeOK', IInv, LiveInv, Next PROVE ClaimsMove
<1> USE ConstantsAssumption
<1>1. CASE UNCHANGED claim
  BY <1>1 DEF ClaimsMove
<1>2. CASE \E i \in Instances, h \in Holders : claim[i] = NoSession /\ claim' = [claim EXCEPT ![i] = h]
  BY <1>2 DEF ClaimsMove, TypeOK, SessionsOK
<1>3. ASSUME NEW i \in Instances, NEW h \in Holders, claim' = [claim EXCEPT ![i] = IF @ = h THEN NoSession ELSE @],
             h \in Sessions => req[h] \in {"undoing", "undoingStart"} \/ ~IsReservedFor(i, h) \/ rel[i][h] \in {"torn", "dropping"}
      PROVE  ClaimsMove
  BY <1>3 DEF ClaimsMove, TypeOK, SessionsOK, Holders
<1>4. ASSUME NEW s \in Sessions, RequestSession(s) \/ RequestStep(s) \/ CloseSession(s) \/ MissingProbe(s)
      PROVE  ClaimsMove
  <2>1. CASE UndoClaim(s)
    <3>1. target[s] \in Instances /\ s \in Holders
      BY <2>1 DEF UndoClaim, IInv, RequestInv, Electing, Holders
    <3> QED BY <1>3, <2>1, <3>1 DEF UndoClaim, DropClaim
  <2>2. CASE ClaimIdle(s) \/ ClaimPooled(s)
    BY <1>1, <1>2, <2>2 DEF ClaimIdle, ClaimPooled, TryCandidate, Claim, Holders, TypeOK, SessionsOK
  <2>3. CASE ClaimLaunched(s)
    <3>1. target[s] \in Instances /\ s \in Holders
      BY <2>3 DEF ClaimLaunched, IInv, RequestInv, Holders
    <3> QED BY <1>1, <1>2, <2>3, <3>1 DEF ClaimLaunched, Claim
  <2> QED BY <1>1, <1>4, <2>1, <2>2, <2>3 DEF RequestStep, RequestSession, ListPooled, Reserve,
         AwaitHost, StartPooled, LaunchReserved, AwaitLaunched, InsertRow, CloseSession,
         MissingProbe, ProbeUnchanged
<1>5. ASSUME NEW i \in Instances, Boot(i) \/ PollList(i) \/ PollStarted(i) \/ LoseContainer(i)
      PROVE  ClaimsMove
  BY <1>1, <1>5 DEF Boot, PollList, PollStarted, LoseContainer
<1>6. ASSUME NEW i \in Instances, NEW s \in Sessions, ProvisionStep(i, s) PROVE ClaimsMove
  BY <1>1, <1>6 DEF ProvisionStep, AbandonProvision, GetApiKey, RemoveInstanceContainers,
     CreateContainers, AttemptFails, Provisioned, ProvisionExhausted, ProvUnchanged
<1>7. ASSUME NEW i \in Instances, NEW h \in Holders, ReleaseStep(i, h) PROVE ClaimsMove
  BY <1>1, <1>3, <1>7 DEF ReleaseStep, GetInstance, Undeploy, ReleaseClaim, TagIdle, ReleaseFails,
     TerminateFailed, DropFailed, DropClaim
<1>8. CASE UnusedStep \/ ReconcileStep \/ Crash \/ BackfillRead
  BY <1>1, <1>8 DEF UnusedStep, ReconcileStep, UnusedReadOpen, UnusedListReserved,
     UnusedReadClaims, UnusedRelease, ReconcileProbe, ReconcileNext, Crash, BackfillRead,
     ProbeUnchanged
<1>9. CASE ReclaimStep
  <2>1. CASE ReclaimNext
    <3>1. ASSUME NEW w \in reclaim.work, w[3], DropClaim(w[1], w[2]) PROVE ClaimsMove
      <4>1. w[1] \in Instances /\ w[2] \in Holders /\ ~IsReservedFor(w[1], w[2])
        BY <3>1 DEF TypeOK, SweepsOK, LiveInv
      <4> QED BY <1>3, <3>1, <4>1 DEF DropClaim
    <3> QED BY <1>1, <2>1, <3>1 DEF ReclaimNext
  <2> QED BY <1>1, <1>9, <2>1 DEF ReclaimStep, ReclaimReadOpen, ReclaimReadLive, ReclaimReadClaims
<1>10. CASE CycleStep
  <2>1. CASE CycleClaim
    BY <1>1, <1>2, <2>1 DEF CycleClaim, Claim, Holders, TypeOK, SweepsOK
  <2>2. CASE CycleUnclaim
    BY <2>2 DEF CycleUnclaim, DropClaim, ClaimsMove, TypeOK, SessionsOK
  <2> QED BY <1>1, <1>10, <2>1, <2>2 DEF CycleStep, CycleList, CyclePoolState, CycleAct, CycleWarmUp
<1>11. CASE BackfillClaim
  <2>1. \A p \in backfill : p[1] \in Instances /\ p[2] \in Holders
    BY DEF TypeOK, ProcessOK, Holders
  <2> QED BY <1>1, <1>2, <1>11, <2>1 DEF BackfillClaim, Claim
<1> QED BY <1>4, <1>5, <1>6, <1>7, <1>8, <1>9, <1>10, <1>11 DEF Next

(* A session's release goes one call further, or is forgotten with the      *)
(* process; it first makes the registry forget, then undeploys.             *)
ReleasesMove ==
  /\ failures' \in Nat /\ failures' >= failures
  /\ \A i \in Instances, s \in Sessions :
       \/ rel'[i][s] \in {rel[i][s], "none"}
       \/ rel[i][s] = "none" /\ rel'[i][s] = "start"
       \/ rel[i][s] = "start" /\ rel'[i][s] = "deployed" /\ registry'[i] = NoSession
       \/ rel[i][s] = "start" /\ rel'[i][s] = "torn" /\ registry'[i] = NoSession /\ ~host[i]
       \/ rel[i][s] = "deployed" /\ rel'[i][s] = "torn" /\ containers'[i] = {}
       \/ rel[i][s] = "deployed" /\ rel'[i][s] = "failed" /\ "undeploy" \in Failing /\ failures' = failures + 1
       \/ rel[i][s] = "torn" /\ rel'[i][s] = "unclaimed"
       \/ rel[i][s] = "unclaimed" /\ rel'[i][s] = "failed" /\ tag'[i] = "terminated"
       \/ /\ rel[i][s] = "failed" /\ rel'[i][s] = "dropping"
          /\ tag'[i] = "terminated" \/ ("terminate" \in Failing /\ failures' = failures + 1)

(* Every step moves the releases so.                                          *)
LEMMA ReleasesStep == ASSUME Calm, TypeOK, TypeOK', IInv, Next PROVE ReleasesMove
<1> USE ConstantsAssumption
<1>0. failures \in Nat /\ failures' \in Nat
  BY DEF TypeOK, ProcessOK
<1>1. ASSUME UNCHANGED failures \/ failures' = failures + 1, UNCHANGED rel PROVE ReleasesMove
  BY <1>0, <1>1 DEF ReleasesMove
<1>2. ASSUME NEW i \in Instances \union {NoInstance}, NEW h \in Holders, StartRelease(i, h), UNCHANGED failures \/ failures' = failures + 1
      PROVE  ReleasesMove
  BY <1>0, <1>2 DEF ReleasesMove, StartRelease, TypeOK, HandlersOK, Holders
<1>3. ASSUME NEW s \in Sessions, RequestSession(s) \/ RequestStep(s) \/ CloseSession(s) \/ MissingProbe(s)
      PROVE  ReleasesMove
  <2>1. CASE CloseSession(s)
    BY <1>2, <2>1 DEF CloseSession, CloseAndRelease, TypeOK, SessionsOK, Holders
  <2>2. CASE RequestSession(s) \/ ClaimIdle(s) \/ ListPooled(s) \/ UndoClaim(s) \/ ClaimPooled(s) \/ MissingProbe(s)
    BY <1>1, <2>2 DEF RequestSession, ClaimIdle, ListPooled, UndoClaim, ClaimPooled, TryCandidate,
       MissingProbe, ProbeUnchanged
  <2>3. CASE Reserve(s) \/ AwaitHost(s) \/ StartPooled(s) \/ LaunchReserved(s) \/ ClaimLaunched(s)
             \/ AwaitLaunched(s) \/ InsertRow(s)
    BY <1>1, <2>3 DEF Reserve, AwaitHost, HostNeverComes, StartPooled, LaunchReserved, ClaimLaunched,
       AwaitLaunched, InsertRow, Succeeds, Fails
  <2> QED BY <1>3, <2>1, <2>2, <2>3 DEF RequestStep
<1>4. ASSUME NEW i \in Instances, Boot(i) \/ PollList(i) \/ PollStarted(i) \/ LoseContainer(i)
      PROVE  ReleasesMove
  BY <1>1, <1>4 DEF Boot, PollList, PollStarted, LoseContainer, Succeeds, Fails
<1>5. ASSUME NEW i \in Instances, NEW s \in Sessions, ProvisionStep(i, s) PROVE ReleasesMove
  <2>1. CASE ProvisionExhausted(i, s)
    BY <1>1, <1>2, <2>1 DEF ProvisionExhausted, CloseAndRelease, Succeeds, Fails, TypeOK,
       SessionsOK, Holders
  <2> QED BY <1>1, <1>5, <2>1 DEF ProvisionStep, AbandonProvision, GetApiKey, RemoveInstanceContainers,
         CreateContainers, AttemptFails, Provisioned, Succeeds, Fails
<1>6. ASSUME NEW i \in Instances, NEW h \in Holders, ReleaseStep(i, h) PROVE ReleasesMove
  <2> USE <1>0 DEF TypeOK, HandlersOK, ReleasesMove, RelStep, Succeeds, Fails, Holders
  <2>1. CASE GetInstance(i, h)
    <3>1. /\ rel[i][h] = "start" /\ UNCHANGED failures
          /\ \/ rel' = [rel EXCEPT ![i][h] = "none"]
             \/ /\ registry'[i] = NoSession
                /\ \/ rel' = [rel EXCEPT ![i][h] = "deployed"]
                   \/ ~host[i] /\ rel' = [rel EXCEPT ![i][h] = "torn"]
      BY <2>1 DEF GetInstance
    <3>2. \A j \in Instances, t \in Sessions : j # i \/ t # h => rel'[j][t] = rel[j][t]
      BY <3>1
    <3>3. rel[i] \in [Holders -> {"none", "start", "deployed", "torn", "unclaimed", "failed", "dropping"}]
      OBVIOUS
    <3>4. CASE rel' = [rel EXCEPT ![i][h] = "none"]
      BY <3>1, <3>2, <3>3, <3>4
    <3>5. CASE registry'[i] = NoSession /\ rel' = [rel EXCEPT ![i][h] = "deployed"]
      BY <3>1, <3>2, <3>3, <3>5
    <3>6. CASE registry'[i] = NoSession /\ ~host[i] /\ rel' = [rel EXCEPT ![i][h] = "torn"]
      BY <3>1, <3>2, <3>3, <3>6
    <3> QED BY <3>1, <3>4, <3>5, <3>6
  <2>2. CASE Undeploy(i, h)
    BY <2>2 DEF Undeploy, HostingOK
  <2>3. CASE ReleaseClaim(i, h)
    BY <2>3 DEF ReleaseClaim
  <2>4. CASE TagIdle(i, h)
    BY <2>4 DEF TagIdle, Retag, Terminated, HostingOK
  <2>5. CASE ReleaseFails(i, h)
    BY <2>5 DEF ReleaseFails, Calm
  <2>6. CASE TerminateFailed(i, h)
    BY <2>6 DEF TerminateFailed, Terminated, HostingOK
  <2>7. CASE DropFailed(i, h)
    BY <2>7 DEF DropFailed
  <2> QED BY <1>6, <2>1, <2>2, <2>3, <2>4, <2>5, <2>6, <2>7 DEF ReleaseStep
<1>7. CASE UnusedStep
  <2>1. CASE UnusedRelease
    BY <1>1, <1>2, <2>1 DEF UnusedRelease, TypeOK, SweepsOK, Holders
  <2> QED BY <1>1, <1>7, <2>1 DEF UnusedStep, UnusedReadOpen, UnusedListReserved, UnusedReadClaims
<1>8. CASE ReclaimStep
  <2>1. CASE ReclaimNext
    BY <1>1, <1>2, <2>1 DEF ReclaimNext, TypeOK, SweepsOK
  <2> QED BY <1>1, <1>8, <2>1 DEF ReclaimStep, ReclaimReadOpen, ReclaimReadLive, ReclaimReadClaims
<1>9. CASE CycleStep \/ ReconcileStep \/ BackfillRead \/ BackfillClaim
  BY <1>1, <1>9 DEF CycleStep, CycleList, CyclePoolState, CycleClaim, CycleAct, CycleUnclaim,
     CycleWarmUp, ReconcileStep, ReconcileProbe, ReconcileNext, BackfillRead, BackfillClaim,
     CycleUnchanged, ProbeUnchanged, Succeeds, Fails
<1>10. CASE Crash
  BY <1>0, <1>10 DEF Crash, ReleasesMove, Holders
<1> QED BY <1>3, <1>4, <1>5, <1>6, <1>7, <1>8, <1>9, <1>10 DEF Next

(* An instance is gone with its machine and its containers.                 *)
LEMMA HostInvStep == ASSUME Calm, TypeOK, TypeOK', IInv, HostInv, Next PROVE HostInv'
<1> USE ConstantsAssumption
<1>0. TagsMove
  BY TagsStep
<1>1. \A i \in Instances : tag'[i] # "reserved" => owner'[i] = NoSession
  BY <1>0 DEF TagsMove, HostInv, TypeOK, HostingOK, IsReservedFor
<1>2. ASSUME \A i \in Instances :
               \/ /\ host'[i] => host[i] \/ tag'[i] \in {"idle", "reserved"}
                  /\ containers'[i] \subseteq containers[i] \/ host[i]
                  /\ tag'[i] = tag[i] \/ tag'[i] \notin {"unlaunched", "terminated"}
               \/ tag'[i] = "terminated" /\ ~host'[i] /\ containers'[i] = {}
      PROVE  HostInv'
  BY <1>1, <1>2 DEF HostInv
<1>3. ASSUME UNCHANGED <<tag, host, containers>> PROVE HostInv'
  BY <1>2, <1>3
<1>4. ASSUME NEW i \in Instances, Terminated(i) PROVE HostInv'
  BY <1>2, <1>4 DEF Terminated, TypeOK, HostingOK
<1>5. ASSUME NEW i \in Instances, NEW t, NEW o, t \in {"reserved", "idle", "pooled"}, Retag(i, t, o) PROVE HostInv'
  BY <1>2, <1>5 DEF Retag, TypeOK, HostingOK
<1>6. ASSUME NEW s \in Sessions, RequestSession(s) \/ RequestStep(s) \/ CloseSession(s) \/ MissingProbe(s)
      PROVE  HostInv'
  <2>1. CASE Reserve(s) \/ StartPooled(s)
    <3>1. target[s] \in Instances
      BY <2>1 DEF Reserve, StartPooled, IInv, RequestInv, Electing
    <3> QED BY <1>3, <1>4, <1>5, <2>1, <3>1 DEF Reserve, StartPooled, hosting
  <2>2. CASE LaunchReserved(s)
    <3>1. ASSUME NEW i \in Unlaunched, tag' = [tag EXCEPT ![i] = "reserved"], UNCHANGED <<host, containers>>
          PROVE  HostInv'
      BY <1>2, <3>1 DEF Unlaunched, TypeOK, HostingOK
    <3> QED BY <1>3, <1>4, <2>2, <3>1 DEF LaunchReserved, Unlaunched, hosting
  <2> QED BY <1>3, <1>6, <2>1, <2>2 DEF RequestStep, RequestSession, ClaimIdle, ListPooled, AwaitHost,
         UndoClaim, ClaimPooled, ClaimLaunched, AwaitLaunched, InsertRow, CloseSession,
         MissingProbe, hosting, TryCandidate, ProbeUnchanged
<1>7. ASSUME NEW i \in Instances, Boot(i) \/ PollList(i) \/ PollStarted(i) \/ LoseContainer(i)
      PROVE  HostInv'
  <2>1. CASE Boot(i)
    BY <1>2, <2>1 DEF Boot, TypeOK, HostingOK
  <2>2. CASE LoseContainer(i)
    BY <1>2, <2>2 DEF LoseContainer, TypeOK, HostingOK
  <2> QED BY <1>3, <1>4, <1>7, <2>1, <2>2 DEF PollList, PollStarted, hosting
<1>8. ASSUME NEW i \in Instances, NEW s \in Sessions, ProvisionStep(i, s) PROVE HostInv'
  <2>1. CASE RemoveInstanceContainers(i, s)
    BY <1>2, <2>1 DEF RemoveInstanceContainers, TypeOK, HostingOK
  <2>2. CASE CreateContainers(i, s)
    BY <1>2, <2>2 DEF CreateContainers, TypeOK, HostingOK
  <2> QED BY <1>3, <1>8, <2>1, <2>2 DEF ProvisionStep, AbandonProvision, GetApiKey, AttemptFails,
         Provisioned, ProvisionExhausted, hosting
<1>9. ASSUME NEW i \in Instances, NEW h \in Holders, ReleaseStep(i, h) PROVE HostInv'
  <2>1. CASE Undeploy(i, h)
    BY <1>2, <2>1 DEF Undeploy, TypeOK, HostingOK
  <2> QED BY <1>3, <1>4, <1>5, <1>9, <2>1 DEF ReleaseStep, GetInstance, ReleaseClaim, TagIdle,
         ReleaseFails, TerminateFailed, DropFailed, hosting
<1>10. CASE UnusedStep \/ ReclaimStep \/ ReconcileStep \/ Crash \/ BackfillRead \/ BackfillClaim
  BY <1>3, <1>10 DEF UnusedStep, ReclaimStep, ReconcileStep, UnusedReadOpen, UnusedListReserved,
     UnusedReadClaims, UnusedRelease, ReclaimReadOpen, ReclaimReadLive, ReclaimReadClaims,
     ReclaimNext, ReconcileProbe, ReconcileNext, Crash, BackfillRead, BackfillClaim, hosting,
     ProbeUnchanged
<1>11. CASE CycleStep
  <2>1. CASE CycleList \/ CycleWarmUp
    <3>1. \/ \E new \in SUBSET Unlaunched, to \in {"idle", "pooled"} :
               tag' = [i \in Instances |-> IF i \in new THEN to ELSE tag[i]]
          \/ UNCHANGED tag
      BY <2>1 DEF CycleList, CycleWarmUp
    <3>2. UNCHANGED <<host, containers>>
      BY <2>1 DEF CycleList, CycleWarmUp
    <3> QED BY <1>2, <3>1, <3>2
  <2>2. CASE CycleAct
    <3>1. cycle.hold \in Instances
      BY <2>2 DEF CycleAct, IInv, CycleInv
    <3>2. CASE tag' = [tag EXCEPT ![cycle.hold] = "pooled"] /\ host' = [host EXCEPT ![cycle.hold] = FALSE]
               /\ UNCHANGED containers
      BY <1>2, <3>1, <3>2 DEF TypeOK, HostingOK
    <3> QED BY <1>3, <1>4, <1>5, <2>2, <3>1, <3>2 DEF CycleAct, hosting
  <2> QED BY <1>3, <1>11, <2>1, <2>2 DEF CycleStep, CyclePoolState, CycleClaim, CycleUnclaim, hosting
<1> QED BY <1>6, <1>7, <1>8, <1>9, <1>10, <1>11 DEF Next

(* A container is created by the attempt that has cleared the instance, and *)
(* goes with the instance, in the release of whoever has it, or to the      *)
(* attempt that builds anew.                                                *)
ContainersMove ==
  \A i \in Instances :
    /\ i \in disturbed => i \in disturbed'
    /\ tag[i] = "reserved" /\ host[i] => host'[i] \/ tag'[i] = "terminated"
    /\ \A s \in Sessions :
         /\ s \in containers'[i] \ containers[i] =>
              /\ prov[i][s] = "cleared" /\ host[i] /\ (registry[i] = s \/ i \in disturbed')
              /\ UNCHANGED <<tag, owner, host, claim, rows, rel, registry, failures>>
         /\ s \in containers[i] \ containers'[i] =>
              \/ tag'[i] = "terminated" \/ i \in disturbed'
              \/ \E h \in Holders : rel[i][h] = "deployed"
              \/ \E t \in Sessions : /\ registry[i] = t /\ prov[i][t] = "keyed" /\ prov'[i][t] = "cleared"
                                     /\ UNCHANGED registry

(* Every step moves the containers so.                                        *)
LEMMA ContainersStep == ASSUME Calm, TypeOK, TypeOK', IInv, Next PROVE ContainersMove
<1> USE ConstantsAssumption
<1>1. CASE UNCHANGED <<host, containers, disturbed>>
  BY <1>1 DEF ContainersMove
<1>2. ASSUME NEW i \in Instances, Terminated(i) PROVE ContainersMove
  BY <1>2 DEF Terminated, ContainersMove, TypeOK, HostingOK
<1>3. ASSUME NEW s \in Sessions, RequestSession(s) \/ RequestStep(s) \/ CloseSession(s) \/ MissingProbe(s)
      PROVE  ContainersMove
  <2>1. CASE Reserve(s) \/ StartPooled(s)
    <3>1. target[s] \in Instances
      BY <2>1 DEF Reserve, StartPooled, IInv, RequestInv, Electing
    <3> QED BY <1>1, <1>2, <2>1, <3>1 DEF Reserve, StartPooled, Retag, hosting
  <2>2. CASE LaunchReserved(s)
    BY <1>1, <1>2, <2>2 DEF LaunchReserved, Unlaunched, hosting
  <2> QED BY <1>1, <1>3, <2>1, <2>2 DEF RequestStep, RequestSession, ClaimIdle, ListPooled, AwaitHost,
         UndoClaim, ClaimPooled, ClaimLaunched, AwaitLaunched, InsertRow, CloseSession,
         MissingProbe, hosting, TryCandidate, ProbeUnchanged
<1>4. ASSUME NEW i \in Instances, Boot(i) \/ PollList(i) \/ PollStarted(i) \/ LoseContainer(i)
      PROVE  ContainersMove
  <2>1. CASE Boot(i)
    BY <2>1 DEF Boot, ContainersMove, TypeOK, HostingOK
  <2>2. CASE LoseContainer(i)
    BY <2>2 DEF LoseContainer, ContainersMove, TypeOK, HostingOK
  <2> QED BY <1>1, <1>2, <1>4, <2>1, <2>2 DEF PollList, PollStarted, hosting
<1>5. ASSUME NEW i \in Instances, NEW s \in Sessions, ProvisionStep(i, s) PROVE ContainersMove
  <2>1. CASE RemoveInstanceContainers(i, s)
    <3>1. prov'[i][s] = "cleared"
      BY <2>1 DEF RemoveInstanceContainers, TypeOK, HandlersOK
    <3> QED BY <2>1, <3>1 DEF RemoveInstanceContainers, ContainersMove, TypeOK, HostingOK
  <2>2. CASE CreateContainers(i, s)
    BY <2>2 DEF CreateContainers, ContainersMove, ProvUnchanged, TypeOK, HostingOK
  <2> QED BY <1>1, <1>5, <2>1, <2>2 DEF ProvisionStep, AbandonProvision, GetApiKey, AttemptFails,
         Provisioned, ProvisionExhausted, hosting
<1>6. ASSUME NEW i \in Instances, NEW h \in Holders, ReleaseStep(i, h) PROVE ContainersMove
  <2>1. CASE Undeploy(i, h)
    BY <2>1 DEF Undeploy, ContainersMove, TypeOK, HostingOK
  <2> QED BY <1>1, <1>2, <1>6, <2>1 DEF ReleaseStep, GetInstance, ReleaseClaim, TagIdle, Retag,
         ReleaseFails, TerminateFailed, DropFailed, hosting
<1>7. CASE UnusedStep \/ ReclaimStep \/ ReconcileStep \/ Crash \/ BackfillRead \/ BackfillClaim
  BY <1>1, <1>7 DEF UnusedStep, ReclaimStep, ReconcileStep, UnusedReadOpen, UnusedListReserved,
     UnusedReadClaims, UnusedRelease, ReclaimReadOpen, ReclaimReadLive, ReclaimReadClaims,
     ReclaimNext, ReconcileProbe, ReconcileNext, Crash, BackfillRead, BackfillClaim, hosting,
     ProbeUnchanged
<1>8. CASE CycleStep
  <2>1. CASE CycleAct
    <3>1. cycle.hold \in Instances /\ tag[cycle.hold] # "reserved"
      BY <2>1 DEF CycleAct, IInv, CycleInv
    <3>2. CASE host' = [host EXCEPT ![cycle.hold] = FALSE] /\ UNCHANGED <<containers, disturbed>>
      BY <3>1, <3>2 DEF ContainersMove, TypeOK, HostingOK
    <3> QED BY <1>1, <1>2, <2>1, <3>1, <3>2 DEF CycleAct, Retag, hosting
  <2> QED BY <1>1, <1>8, <2>1 DEF CycleStep, CycleList, CyclePoolState, CycleClaim, CycleUnclaim,
         CycleWarmUp, hosting
<1> QED BY <1>3, <1>4, <1>5, <1>6, <1>7, <1>8 DEF Next

(* An attempt is run for whom the instance is reserved or was, while nobody *)
(* else's is registered; it is forgotten at its end, with the process, or   *)
(* by the release of whoever has the instance.                              *)
AttemptsMove ==
  \A i \in Instances, s \in Sessions :
    /\ registry'[i] = s /\ registry[i] # s =>
         prov'[i][s] = "begin" /\ (Settled(s) \/ Targets(s, i))
    /\ registry[i] = s /\ registry'[i] # s =>
         \/ prov'[i][s] = "none" /\ (Provisioned(i, s) \/ ProvisionExhausted(i, s) \/ Crash)
         \/ \E h \in Holders : IsReservedFor(i, h) /\ rel[i][h] = "start"
    /\ prov'[i][s] # prov[i][s] =>
         \/ prov'[i][s] = "none" /\ registry'[i] # s
         \/ prov[i][s] = "none" /\ prov'[i][s] = "begin" /\ registry'[i] = s
         \/ /\ prov[i][s] = "begin" /\ prov'[i][s] = "keyed"
            /\ registry[i] = s /\ Open(s) /\ rowInstance[s] = i
            /\ UNCHANGED <<tag, owner, claim, rows, rel>>
         \/ prov[i][s] = "keyed" /\ prov'[i][s] = "cleared"
         \/ prov[i][s] = "cleared" /\ prov'[i][s] = "built" /\ s \in containers'[i]
         \/ prov[i][s] # "none" /\ prov'[i][s] = "begin"

(* Every step moves the attempts so.                                          *)
LEMMA AttemptsStep == ASSUME Calm, TypeOK, TypeOK', IInv, PolledInv, Next PROVE AttemptsMove
<1> USE ConstantsAssumption
<1>1. CASE UNCHANGED provisioning
  BY <1>1 DEF AttemptsMove, provisioning
<1>2. ASSUME NEW i \in Instances, NEW s \in Sessions, RunProvision(i, s), Settled(s) \/ Targets(s, i)
      PROVE  AttemptsMove
  <2>1. CASE registry[i] # NoSession \/ prov[i][s] # "none"
    BY <1>1, <1>2, <2>1 DEF RunProvision
  <2>2. CASE registry[i] = NoSession /\ prov[i][s] = "none"
    <3>1. registry' = [registry EXCEPT ![i] = s] /\ prov' = [prov EXCEPT ![i][s] = "begin"]
      BY <1>2, <2>2 DEF RunProvision
    <3> QED BY <1>2, <2>2, <3>1 DEF AttemptsMove, TypeOK, HandlersOK
  <2> QED BY <2>1, <2>2 DEF TypeOK, HandlersOK
<1>3. ASSUME NEW s \in Sessions, RequestSession(s) \/ RequestStep(s) \/ CloseSession(s) \/ MissingProbe(s)
      PROVE  AttemptsMove
  <2>1. CASE AwaitHost(s)
    <3>1. target[s] \in Instances /\ Targets(s, target[s])
      BY <2>1 DEF AwaitHost, IInv, RequestInv, Holding, Targets
    <3> QED BY <1>1, <1>2, <2>1, <3>1 DEF AwaitHost
  <2> QED BY <1>1, <1>3, <2>1 DEF RequestStep, RequestSession, ClaimIdle, ListPooled, Reserve,
         UndoClaim, ClaimPooled, StartPooled, LaunchReserved, ClaimLaunched, AwaitLaunched,
         InsertRow, CloseSession, MissingProbe, TryCandidate
<1>4. ASSUME NEW i \in Instances, Boot(i) \/ PollList(i) \/ PollStarted(i) \/ LoseContainer(i)
      PROVE  AttemptsMove
  <2>1. ASSUME NEW p \in polled, p[1] = i, p[2] # NoSession, RunProvision(i, p[2]) PROVE AttemptsMove
    <3>1. p[2] \in Sessions /\ (Settled(p[2]) \/ Targets(p[2], i))
      BY <2>1 DEF TypeOK, ProcessOK, PolledInv
    <3> QED BY <1>2, <2>1, <3>1
  <2> QED BY <1>1, <1>4, <2>1 DEF Boot, PollList, PollStarted, LoseContainer
<1>5. ASSUME NEW i \in Instances, NEW s \in Sessions, ProvisionStep(i, s) PROVE AttemptsMove
  <2>1. CASE AbandonProvision(i, s)
    BY <2>1 DEF AbandonProvision, AttemptsMove, TypeOK, HandlersOK
  <2>2. CASE GetApiKey(i, s)
    BY <2>2 DEF GetApiKey, AttemptsMove, ProvUnchanged, hosting, TypeOK, HandlersOK
  <2>3. CASE RemoveInstanceContainers(i, s)
    BY <2>3 DEF RemoveInstanceContainers, AttemptsMove, TypeOK, HandlersOK
  <2>4. CASE CreateContainers(i, s)
    <3>1. s \in containers'[i]
      BY <2>4 DEF CreateContainers, TypeOK, HostingOK
    <3> QED BY <2>4, <3>1 DEF CreateContainers, AttemptsMove, TypeOK, HandlersOK
  <2>5. CASE AttemptFails(i, s)
    BY <2>5 DEF AttemptFails, AttemptsMove, TypeOK, HandlersOK
  <2>6. CASE Provisioned(i, s) \/ ProvisionExhausted(i, s)
    <3>1. EndProvision(i, s)
      BY <2>6 DEF Provisioned, ProvisionExhausted
    <3> QED BY <2>6, <3>1 DEF EndProvision, AttemptsMove, TypeOK, HandlersOK
  <2> QED BY <1>5, <2>1, <2>2, <2>3, <2>4, <2>5, <2>6 DEF ProvisionStep
<1>6. ASSUME NEW i \in Instances, NEW h \in Holders, ReleaseStep(i, h) PROVE AttemptsMove
  <2>1. CASE GetInstance(i, h)
    BY <2>1 DEF GetInstance, RelUnchanged, AttemptsMove, TypeOK, HandlersOK
  <2> QED BY <1>1, <1>6, <2>1 DEF ReleaseStep, Undeploy, ReleaseClaim, TagIdle, ReleaseFails,
         TerminateFailed, DropFailed, RelUnchanged, provisioning
<1>7. CASE UnusedStep \/ ReclaimStep \/ CycleStep \/ BackfillRead \/ BackfillClaim
  BY <1>1, <1>7 DEF UnusedStep, ReclaimStep, CycleStep, UnusedReadOpen, UnusedListReserved,
     UnusedReadClaims, UnusedRelease, ReclaimReadOpen, ReclaimReadLive, ReclaimReadClaims,
     ReclaimNext, CycleList, CyclePoolState, CycleClaim, CycleAct, CycleUnclaim, CycleWarmUp,
     BackfillRead, BackfillClaim, CycleUnchanged
<1>8. CASE ReconcileStep
  <2>1. ASSUME NEW p \in probe, row[p[1]] = "PENDING", RunProvision(rowInstance[p[1]], p[1])
        PROVE  AttemptsMove
    <3>1. p[1] \in Sessions
      BY <2>1 DEF TypeOK, HandlersOK
    <3>2. rowInstance[p[1]] \in Instances /\ Targets(p[1], rowInstance[p[1]])
      BY <2>1, <3>1 DEF IInv, RequestInv, Targets, Holding, Open
    <3> QED BY <1>2, <2>1, <3>1, <3>2
  <2> QED BY <1>1, <1>8, <2>1 DEF ReconcileStep, ReconcileProbe, ReconcileNext
<1>9. CASE Crash
  <2>1. \A i \in Instances, s \in Sessions : registry'[i] = NoSession /\ prov'[i][s] = "none"
    BY <1>9 DEF Crash
  <2> QED BY <1>9, <2>1 DEF AttemptsMove
<1> QED BY <1>3, <1>4, <1>5, <1>6, <1>7, <1>8, <1>9 DEF Next

----------------------------------------------------------------------------
(* The parts of the invariant.                                              *)

(* A listed instance is its session's as long as that one is not settled.   *)
LEMMA PolledInvStep == ASSUME Calm, TypeOK, TypeOK', IInv, IInv', HostInv, PolledInv, Next PROVE PolledInv'
<1> USE ConstantsAssumption
<1>0. RowsMove /\ TagsMove
  BY RowsStep, TagsStep
<1>1. \A p \in polled : p[2] = NoSession \/ Settled(p[2])' \/ Targets(p[2], p[1])'
  BY <1>0 DEF PolledInv, RowsMove, TypeOK, ProcessOK
<1>2. \A p \in polled' \ polled : p[2] = NoSession \/ Settled(p[2])' \/ Targets(p[2], p[1])'
  <2>1. \A i \in Instances : owner[i] = NoSession \/ Settled(owner[i]) \/ Targets(owner[i], i)
    BY DEF IInv, OwnerInv, HostInv, IsReservedFor, TypeOK, HostingOK
  <2>2. \A i \in Instances, s \in Sessions : owner[i] = s => Settled(s)' \/ Targets(s, i)'
    BY <2>1, <1>0 DEF RowsMove
  <2>3. ASSUME NEW i \in Instances, Boot(i) \/ PollList(i) \/ PollStarted(i) \/ LoseContainer(i)
        PROVE  polled' \subseteq polled \union {<<i, owner[i]>>}
    BY <2>3 DEF Boot, PollList, PollStarted, LoseContainer, boot
  <2>4. ASSUME NEW s \in Sessions, RequestSession(s) \/ RequestStep(s) \/ CloseSession(s) \/ MissingProbe(s)
        PROVE  polled' = polled
    BY <2>4 DEF RequestStep, RequestSession, ClaimIdle, ListPooled, Reserve, AwaitHost, UndoClaim,
       ClaimPooled, StartPooled, LaunchReserved, ClaimLaunched, AwaitLaunched, InsertRow,
       CloseSession, MissingProbe, TryCandidate, ProbeUnchanged, boot
  <2>5. ASSUME NEW i \in Instances, NEW s \in Sessions, ProvisionStep(i, s) PROVE polled' = polled
    BY <2>5 DEF ProvisionStep, AbandonProvision, GetApiKey, RemoveInstanceContainers, CreateContainers,
       AttemptFails, Provisioned, ProvisionExhausted, ProvUnchanged, boot
  <2>6. ASSUME NEW i \in Instances, NEW h \in Holders, ReleaseStep(i, h) PROVE polled' = polled
    BY <2>6 DEF ReleaseStep, GetInstance, Undeploy, ReleaseClaim, TagIdle, ReleaseFails,
       TerminateFailed, DropFailed, RelUnchanged, boot
  <2>7. ASSUME UnusedStep \/ ReclaimStep \/ CycleStep \/ ReconcileStep \/ BackfillRead \/ BackfillClaim
        PROVE  polled' = polled
    BY <2>7 DEF UnusedStep, ReclaimStep, CycleStep, ReconcileStep, UnusedReadOpen,
       UnusedListReserved, UnusedReadClaims, UnusedRelease, ReclaimReadOpen, ReclaimReadLive,
       ReclaimReadClaims, ReclaimNext, CycleList, CyclePoolState, CycleClaim, CycleAct,
       CycleUnclaim, CycleWarmUp, ReconcileProbe, ReconcileNext, BackfillRead, BackfillClaim,
       SweepUnchanged, CycleUnchanged, ProbeUnchanged, boot
  <2>8. ASSUME Crash PROVE polled' = {}
    BY <2>8 DEF Crash
  <2>9. polled' = polled \/ polled' = {} \/ \E i \in Instances : polled' \subseteq polled \union {<<i, owner[i]>>}
    BY ZenonT(60), <2>3, <2>4, <2>5, <2>6, <2>7, <2>8 DEF Next
  <2> QED BY <2>2, <2>9 DEF TypeOK, HostingOK
<1>3. ASSUME NEW s \in Sessions, req'[s] = "undoing" PROVE IsReservedFor(target[s], s)' \/ tag'[target'[s]] = "terminated"
  <2>1. CASE req[s] \in {"undoing", "awaiting"} /\ target'[s] = target[s]
    <3>1. target[s] \in Instances /\ ~Settled(s) /\ (req[s] = "awaiting" => IsReservedFor(target[s], s))
      BY <2>1 DEF IInv, RequestInv, Holding, Electing, Settled
    <3>2. rel[target[s]][s] = "none"
      BY <3>1 DEF IInv, ReleaseInv, TypeOK, HandlersOK
    <3> QED BY <1>0, <2>1, <3>1, <3>2 DEF PolledInv, TagsMove, IsReservedFor
  <2> QED BY <1>0, <1>3, <2>1 DEF RowsMove, TypeOK, SessionsOK
<1> QED BY <1>1, <1>2, <1>3 DEF PolledInv, IsReservedFor

(* A launched instance is new to every session that has a row.              *)
LEMMA FreshInvStep == ASSUME Calm, TypeOK, TypeOK', IInv, IInv', FreshInv, Next PROVE FreshInv'
<1>0. RowsMove /\ TagsMove
  BY RowsStep, TagsStep
<1> SUFFICES ASSUME NEW s \in Sessions, row'[s] # "none"
             PROVE  /\ rowInstance'[s] \in Instances /\ tag'[rowInstance'[s]] # "unlaunched"
                    /\ \A t \in Sessions : Launching(t)' => rowInstance'[s] # target'[t]
  BY DEF FreshInv
<1>2. CASE row[s] # "none"
  <2>1. /\ rowInstance'[s] = rowInstance[s] /\ rowInstance[s] \in Instances
        /\ tag[rowInstance[s]] # "unlaunched"
    BY <1>0, <1>2 DEF RowsMove, FreshInv
  <2> QED BY <1>0, <1>2, <2>1 DEF RowsMove, TagsMove, FreshInv, Unlaunched
<1>3. CASE row[s] = "none"
  <2>1. /\ req[s] \in {"allocated", "launchedUp"} /\ rowInstance'[s] = target[s] /\ req'[s] = "done"
        /\ UNCHANGED <<tag, owner, target>> /\ \A t \in Sessions : t # s => req'[t] = req[t]
    BY <1>0, <1>3 DEF RowsMove, TypeOK, SessionsOK
  <2>2. target[s] \in Instances /\ IsReservedFor(target[s], s)
    BY <2>1 DEF IInv, RequestInv, Holding
  <2>3. ASSUME NEW t \in Sessions, Launching(t)' PROVE t # s /\ IsReservedFor(target[t], t)
    BY <2>1, <2>3 DEF IInv, RequestInv, Holding, Launching
  <2> QED BY <2>1, <2>2, <2>3 DEF IsReservedFor
<1> QED BY <1>2, <1>3

(* A sweep drops a claim only with an instance that nobody reserves again.  *)
LEMMA LiveInvStep == ASSUME Calm, TypeOK, TypeOK', IInv, IInv', LiveInv, Next PROVE LiveInv'
<1> USE ConstantsAssumption
<1>0. TagsMove
  BY TagsStep
<1>1. \A i \in Instances, s \in Sessions : Settled(s) \/ Open(s) => ~InFlight(s)
  BY DEF IInv, RequestInv, Settled, Open, InFlight
<1>2. \A i \in Instances, s \in Sessions : (Settled(s) \/ Open(s)) /\ ~IsReservedFor(i, s) => ~IsReservedFor(i, s)'
  BY <1>0, <1>1 DEF TagsMove
<1>3. \A i \in Instances, h \in Holders : h \notin Sessions => ~IsReservedFor(i, h) /\ ~IsReservedFor(i, h)'
  BY DEF Holders, IsReservedFor, TypeOK, HostingOK
<1>4. \A s \in reclaim.settled : Settled(s) \/ Open(s)
  BY DEF IInv, ReclaimInv
<1>5. \A w \in reclaim.work : /\ w[1] \in Instances /\ w[2] \in Holders
                              /\ w[2] \in Sessions => Settled(w[2])
  BY DEF IInv, ReclaimInv, TypeOK, SweepsOK
<1>6. \A w \in reclaim.work : w[3] => ~IsReservedFor(w[1], w[2])'
  BY <1>2, <1>3, <1>5 DEF LiveInv
<1>7. CASE UNCHANGED reclaim
  BY <1>2, <1>4, <1>6, <1>7 DEF LiveInv, TypeOK, SweepsOK
<1>8. CASE ReclaimReadOpen
  <2>1. reclaim'.pc = "opened" /\ reclaim'.work = reclaim.work
    BY <1>8 DEF ReclaimReadOpen, TypeOK, SweepsOK
  <2> QED BY <1>6, <2>1 DEF LiveInv
<1>9. CASE ReclaimReadLive
  <2>1. /\ reclaim'.live = Tagged("idle") \union Tagged("reserved") /\ reclaim'.work = reclaim.work
        /\ UNCHANGED <<tag, owner>>
    BY <1>9 DEF ReclaimReadLive, TypeOK, SweepsOK, hosting
  <2> QED BY <1>6, <2>1 DEF LiveInv, IsReservedFor, Tagged
<1>10. CASE ReclaimReadClaims
  <2>1. /\ reclaim.pc = "listed" /\ reclaim'.pc = "reclaiming" /\ UNCHANGED <<tag, owner>>
        /\ reclaim'.work = {<<i, claim[i], i \notin reclaim.live>> : i \in {j \in Instances : IsStale(j)}}
    BY <1>10 DEF ReclaimReadClaims, Reclaim0, hosting
  <2>2. ASSUME NEW i \in Instances, IsStale(i), i \notin reclaim.live PROVE ~IsReservedFor(i, claim[i])
    <3>1. claim[i] = PoolCycle \/ claim[i] \in reclaim.settled
      BY <2>2 DEF IsStale
    <3> QED BY <1>3, <2>1, <2>2, <3>1 DEF LiveInv, Holders
  <2>3. ASSUME NEW w \in reclaim'.work, w[3] PROVE ~IsReservedFor(w[1], w[2])
    <3>1. PICK i \in Instances : IsStale(i) /\ w = <<i, claim[i], i \notin reclaim.live>>
      BY <2>1
    <3>2. w[1] = i /\ w[2] = claim[i] /\ w[3] = (i \notin reclaim.live)
      BY <3>1
    <3>3. i \notin reclaim.live
      BY Zenon, <2>3, <3>2
    <3> QED BY <2>2, <3>1, <3>2, <3>3
  <2> QED BY <2>1, <2>3 DEF LiveInv, IsReservedFor
<1>11. CASE ReclaimNext
  <2>1. /\ reclaim.pc = "reclaiming"
        /\ \/ \E w \in reclaim.work : \E c : reclaim' = [reclaim EXCEPT !.work = @ \ {w}, !.cur = c]
           \/ reclaim' = Reclaim0
    BY <1>11 DEF ReclaimNext
  <2>2. reclaim'.pc # "listed" /\ reclaim'.work \subseteq reclaim.work
    <3>1. CASE reclaim' = Reclaim0
      BY <3>1 DEF Reclaim0
    <3>2. ASSUME NEW w \in reclaim.work, NEW c, reclaim' = [reclaim EXCEPT !.work = @ \ {w}, !.cur = c]
          PROVE  reclaim'.pc = reclaim.pc /\ reclaim'.work = reclaim.work \ {w}
      BY <3>2 DEF TypeOK, SweepsOK
    <3> QED BY <2>1, <3>1, <3>2
  <2> QED BY <1>6, <2>2 DEF LiveInv
<1>12. CASE Crash
  BY <1>12 DEF Crash, Reclaim0, LiveInv
<1>13. ASSUME NEW s \in Sessions, RequestSession(s) \/ RequestStep(s) \/ CloseSession(s) \/ MissingProbe(s)
      PROVE  UNCHANGED reclaim
  BY <1>13 DEF RequestStep, RequestSession, ClaimIdle, ListPooled, Reserve, AwaitHost, UndoClaim,
     ClaimPooled, StartPooled, LaunchReserved, ClaimLaunched, AwaitLaunched, InsertRow,
     CloseSession, MissingProbe, TryCandidate, ProbeUnchanged, sweeps
<1>14. ASSUME NEW i \in Instances, Boot(i) \/ PollList(i) \/ PollStarted(i) \/ LoseContainer(i)
       PROVE  UNCHANGED reclaim
  BY <1>14 DEF Boot, PollList, PollStarted, LoseContainer, sweeps
<1>15. ASSUME NEW i \in Instances, NEW s \in Sessions, ProvisionStep(i, s) PROVE UNCHANGED reclaim
  BY <1>15 DEF ProvisionStep, AbandonProvision, GetApiKey, RemoveInstanceContainers, CreateContainers,
     AttemptFails, Provisioned, ProvisionExhausted, ProvUnchanged, sweeps
<1>16. ASSUME NEW i \in Instances, NEW h \in Holders, ReleaseStep(i, h) PROVE UNCHANGED reclaim
  BY <1>16 DEF ReleaseStep, GetInstance, Undeploy, ReleaseClaim, TagIdle, ReleaseFails,
     TerminateFailed, DropFailed, RelUnchanged, sweeps
<1>17. CASE UnusedStep \/ CycleStep \/ ReconcileStep \/ BackfillRead \/ BackfillClaim
  BY <1>7, <1>17 DEF UnusedStep, CycleStep, ReconcileStep, UnusedReadOpen, UnusedListReserved,
     UnusedReadClaims, UnusedRelease, CycleList, CyclePoolState, CycleClaim, CycleAct,
     CycleUnclaim, CycleWarmUp, ReconcileProbe, ReconcileNext, BackfillRead, BackfillClaim,
     CycleUnchanged, ProbeUnchanged, sweeps
<1> QED BY ZenonT(60), <1>7, <1>8, <1>9, <1>10, <1>11, <1>12, <1>13, <1>14, <1>15, <1>16, <1>17 DEF Next, ReclaimStep

(* An attempt that has its key keeps it until its session gives back.       *)
LEMMA AttemptInvStep ==
  ASSUME Calm, TypeOK, TypeOK', IInv, IInv', HostInv, HostInv', PolledInv, LiveInv, AttemptInv, Next
  PROVE  AttemptInv'
<1>0. RowsMove /\ TagsMove /\ ClaimsMove /\ ReleasesMove /\ ContainersMove /\ AttemptsMove
  BY RowsStep, TagsStep, ClaimsStep, ReleasesStep, ContainersStep, AttemptsStep
<1> SUFFICES ASSUME NEW i \in Instances, NEW s \in Sessions
             PROVE  /\ registry'[i] = s \/ prov'[i][s] # "none" => Settled(s)' \/ Targets(s, i)'
                    /\ prov'[i][s] # "none" /\ registry'[i] # s => ~InFlight(s)'
                    /\ registry'[i] = s => prov'[i][s] # "none"
                    /\ registry'[i] = s /\ prov'[i][s] # "begin" /\ tag'[i] # "terminated" =>
                         /\ IsReservedFor(i, s)' /\ claim'[i] = s /\ row'[s] # "none" /\ rowInstance'[s] = i
                         /\ rel'[i][s] \in {"none", "start"}
                         /\ prov'[i][s] = "built" => Built(i, s)'
  BY DEF AttemptInv, IsReservedFor, Built
<1>1. registry'[i] = s \/ prov'[i][s] # "none" => Settled(s) \/ Targets(s, i)
  BY <1>0 DEF AttemptsMove, AttemptInv
<1>2. Settled(s) \/ Targets(s, i) => Settled(s)' \/ Targets(s, i)'
  BY <1>0 DEF RowsMove
<1>3. Settled(s) \/ Targets(s, i) => req[s] # "none"
  BY DEF Settled, Targets, Holding, Open, IInv, RequestInv
<1>4. registry'[i] = s => prov'[i][s] # "none"
  BY <1>0 DEF AttemptsMove, AttemptInv
<1>5. ASSUME prov'[i][s] # "none", registry'[i] # s PROVE ~InFlight(s)'
  <2>1. CASE registry[i] # s
    BY <1>0, <1>1, <1>3, <1>5, <2>1 DEF AttemptsMove, AttemptInv, RowsMove
  <2>2. CASE registry[i] = s
    <3>1. PICK h \in Holders : IsReservedFor(i, h) /\ rel[i][h] = "start"
      BY <1>0, <1>5, <2>2 DEF AttemptsMove
    <3>2. h \in Sessions /\ Settled(h)
      BY <3>1, ConstantsAssumption DEF IInv, ReleaseInv, Holders, IsReservedFor, TypeOK, HostingOK
    <3>3. Targets(s, i) => IsReservedFor(i, s) \/ tag[i] = "terminated"
      BY DEF Targets, IInv, RequestInv, PolledInv
    <3>4. Settled(s)
      BY <1>1, <1>5, <3>1, <3>2, <3>3 DEF IsReservedFor
    <3> QED BY <1>0, <3>4 DEF RowsMove, Settled, InFlight
  <2> QED BY <2>1, <2>2
<1>6. ASSUME registry'[i] = s, prov'[i][s] # "begin", tag'[i] # "terminated"
      PROVE  /\ IsReservedFor(i, s)' /\ claim'[i] = s /\ row'[s] # "none" /\ rowInstance'[s] = i
             /\ rel'[i][s] \in {"none", "start"}
             /\ prov'[i][s] = "built" => Built(i, s)'
  <2>1. registry[i] = s /\ tag[i] # "terminated" /\ prov'[i][s] # "none"
    BY <1>0, <1>4, <1>6 DEF AttemptsMove, TagsMove
  <2>2. CASE prov[i][s] = "begin"
    <3>1. /\ prov'[i][s] = "keyed" /\ Open(s) /\ rowInstance[s] = i
          /\ UNCHANGED <<tag, owner, claim, rows, rel>>
      BY <1>0, <1>6, <2>1, <2>2 DEF AttemptsMove
    <3>2. IsReservedFor(i, s) /\ claim[i] = s /\ row[s] # "none" /\ rel[i][s] = "none"
      BY <3>1 DEF IInv, RequestInv, ReleaseInv, Holding, Open, Settled, TypeOK, HandlersOK
    <3> QED BY <3>1, <3>2 DEF IsReservedFor, rows
  <2>3. CASE prov[i][s] # "begin"
    <3>1. /\ IsReservedFor(i, s) /\ claim[i] = s /\ row[s] # "none" /\ rowInstance[s] = i
          /\ rel[i][s] \in {"none", "start"} /\ (prov[i][s] = "built" => Built(i, s))
      BY <2>1, <2>3 DEF AttemptInv
    <3>2. IsReservedFor(i, s)' /\ row'[s] # "none" /\ rowInstance'[s] = i
      BY <1>0, <3>1 DEF TagsMove, RowsMove
    <3>3. claim'[i] = s
      BY <1>0, <3>1 DEF ClaimsMove, IInv, RequestInv
    <3>4. rel'[i][s] \in {"none", "start"}
      BY <1>0, <1>6, <3>1, ConstantsAssumption DEF ReleasesMove
    <3>5. ASSUME prov'[i][s] = "built" PROVE Built(i, s)'
      <4>1. CASE s \in containers'[i]
        BY <4>1 DEF Built
      <4>2. CASE s \notin containers'[i]
        <5>1. prov[i][s] = "built"
          BY <1>0, <2>1, <3>5, <4>2 DEF AttemptsMove
        <5>2. i \in disturbed' \/ s \in containers[i] \ containers'[i]
          BY <1>0, <3>1, <4>2, <5>1 DEF Built, ContainersMove
        <5>3. \A h \in Holders : rel[i][h] # "deployed"
          BY <3>1, ConstantsAssumption DEF IInv, ReleaseInv, Holders, IsReservedFor
        <5>4. ~\E t \in Sessions : registry[i] = t /\ prov[i][t] = "keyed" /\ prov'[i][t] = "cleared"
          BY <2>1, <5>1
        <5> QED BY <1>0, <1>6, <5>2, <5>3, <5>4 DEF ContainersMove, Built
      <4> QED BY <4>1, <4>2
    <3> QED BY <3>2, <3>3, <3>4, <3>5
  <2> QED BY <2>2, <2>3
<1> QED BY <1>1, <1>2, <1>4, <1>5, <1>6

(* Containers outlast a step of their session's release only if it fails.   *)
LEMMA ContainerInvStep ==
  ASSUME Calm, TypeOK, TypeOK', IInv, IInv', HostInv, HostInv', LiveInv, AttemptInv, ContainerInv, Next
  PROVE  ContainerInv'
<1>0. RowsMove /\ TagsMove /\ ClaimsMove /\ ReleasesMove /\ ContainersMove
  BY RowsStep, TagsStep, ClaimsStep, ReleasesStep, ContainersStep
<1>a. failures \in Nat
  BY DEF TypeOK, ProcessOK
<1> SUFFICES ASSUME NEW i \in Instances, NEW s \in containers'[i], i \notin disturbed'
             PROVE  /\ IsReservedFor(i, s)' /\ host'[i] /\ row'[s] # "none" /\ rowInstance'[s] = i
                    /\ rel'[i][s] \notin {"torn", "unclaimed"}
                    /\ rel'[i][s] = "failed" => "undeploy" \in Failing /\ failures' >= 1
                    /\ rel'[i][s] = "dropping" => {"undeploy", "terminate"} \subseteq Failing /\ failures' >= 2
                    /\ claim'[i] # s => {"undeploy", "terminate"} \subseteq Failing /\ failures' >= 2
  BY DEF ContainerInv, IsReservedFor
<1>1. s \in Sessions /\ i \notin disturbed /\ tag'[i] # "terminated" /\ containers'[i] # {}
  BY <1>0 DEF ContainersMove, HostInv, TypeOK, HostingOK
<1>2. CASE s \notin containers[i]
  <2>1. /\ prov[i][s] = "cleared" /\ host[i] /\ registry[i] = s
        /\ UNCHANGED <<tag, owner, host, claim, rows, rel, registry, failures>>
    BY <1>0, <1>1, <1>2 DEF ContainersMove
  <2>2. /\ IsReservedFor(i, s) /\ claim[i] = s /\ row[s] # "none" /\ rowInstance[s] = i
        /\ rel[i][s] \in {"none", "start"}
    BY <1>1, <2>1 DEF AttemptInv, HostInv
  <2> QED BY <2>1, <2>2 DEF IsReservedFor, rows
<1>3. CASE s \in containers[i]
  <2>1. /\ IsReservedFor(i, s) /\ host[i] /\ row[s] # "none" /\ rowInstance[s] = i
        /\ rel[i][s] \notin {"torn", "unclaimed"}
        /\ rel[i][s] = "failed" => "undeploy" \in Failing /\ failures >= 1
        /\ rel[i][s] = "dropping" => {"undeploy", "terminate"} \subseteq Failing /\ failures >= 2
        /\ claim[i] # s => {"undeploy", "terminate"} \subseteq Failing /\ failures >= 2
    BY <1>1, <1>3 DEF ContainerInv
  <2>2. IsReservedFor(i, s)' /\ host'[i] /\ row'[s] # "none" /\ rowInstance'[s] = i
    BY <1>0, <1>1, <2>1 DEF TagsMove, ContainersMove, RowsMove, IsReservedFor
  <2>3. /\ rel'[i][s] \notin {"torn", "unclaimed"}
        /\ rel'[i][s] = "failed" => "undeploy" \in Failing /\ failures' >= 1
        /\ rel'[i][s] = "dropping" => {"undeploy", "terminate"} \subseteq Failing /\ failures' >= 2
    BY <1>0, <1>a, <1>1, <2>1 DEF ReleasesMove
  <2>4. claim'[i] # s => {"undeploy", "terminate"} \subseteq Failing /\ failures' >= 2
    <3>1. req[s] = "done"
      BY <1>1, <2>1 DEF IInv, RequestInv
    <3>2. claim'[i] # s /\ claim[i] = s => rel[i][s] = "dropping"
      BY <1>0, <1>1, <2>1, <3>1 DEF ClaimsMove
    <3> QED BY <1>0, <1>a, <2>1, <3>2 DEF ReleasesMove
  <2> QED BY <2>2, <2>3, <2>4
<1> QED BY <1>2, <1>3

(* Who is about to have a row, or has one that is PENDING.                  *)
Awaited(t) == req[t] = "allocated" \/ row[t] = "PENDING"

(* Whoever has the instance keeps what an attempt has built for it.         *)
LEMMA BuiltStays ==
  ASSUME Calm, TypeOK, TypeOK', IInv, IInv', AttemptInv, Next,
         NEW t \in Sessions, Holding(t), Holding(t)', target'[t] = target[t],
         Built(target[t], t), registry[target[t]] = NoSession
  PROVE  Built(target[t], t)'
<1> DEFINE i == target[t]
<1>0. ContainersMove
  BY ContainersStep
<1>1. i \in Instances /\ IsReservedFor(i, t) /\ tag'[i] # "terminated" /\ ~Settled(t)
  BY DEF IInv, RequestInv, Holding, Settled, IsReservedFor
<1>2. \A h \in Holders : rel[i][h] # "deployed"
  BY <1>1, ConstantsAssumption DEF IInv, ReleaseInv, Holders, IsReservedFor
<1>3. i \in disturbed \/ t \in containers[i] => i \in disturbed' \/ t \in containers'[i]
  BY <1>0, <1>1, <1>2, ConstantsAssumption DEF ContainersMove
<1> QED BY <1>3 DEF Built

(* The sweep's verdicts are made in one place.                              *)
LEMMA ProbeStep == ASSUME Next PROVE probe' \subseteq probe \/ ReconcileProbe
<1>1. ASSUME NEW s \in Sessions, RequestSession(s) \/ RequestStep(s) \/ CloseSession(s) \/ MissingProbe(s)
      PROVE  probe' = probe
  BY <1>1 DEF RequestStep, RequestSession, ClaimIdle, ListPooled, Reserve, AwaitHost, UndoClaim,
     ClaimPooled, StartPooled, LaunchReserved, ClaimLaunched, AwaitLaunched, InsertRow,
     CloseSession, MissingProbe, TryCandidate, sweeps
<1>2. ASSUME NEW i \in Instances, Boot(i) \/ PollList(i) \/ PollStarted(i) \/ LoseContainer(i)
      PROVE  probe' = probe
  BY <1>2 DEF Boot, PollList, PollStarted, LoseContainer, sweeps
<1>3. ASSUME NEW i \in Instances, NEW s \in Sessions, ProvisionStep(i, s) PROVE probe' = probe
  BY <1>3 DEF ProvisionStep, AbandonProvision, GetApiKey, RemoveInstanceContainers, CreateContainers,
     AttemptFails, Provisioned, ProvisionExhausted, ProvUnchanged, sweeps
<1>4. ASSUME NEW i \in Instances, NEW h \in Holders, ReleaseStep(i, h) PROVE probe' = probe
  BY <1>4 DEF ReleaseStep, GetInstance, Undeploy, ReleaseClaim, TagIdle, ReleaseFails,
     TerminateFailed, DropFailed, RelUnchanged, sweeps
<1>5. ASSUME UnusedStep \/ ReclaimStep \/ CycleStep \/ BackfillRead \/ BackfillClaim PROVE probe' = probe
  BY <1>5 DEF UnusedStep, ReclaimStep, CycleStep, UnusedReadOpen, UnusedListReserved, UnusedReadClaims,
     UnusedRelease, ReclaimReadOpen, ReclaimReadLive, ReclaimReadClaims, ReclaimNext, CycleList,
     CyclePoolState, CycleClaim, CycleAct, CycleUnclaim, CycleWarmUp, BackfillRead, BackfillClaim,
     SweepUnchanged, CycleUnchanged, sweeps
<1>6. ASSUME ReconcileNext \/ Crash PROVE probe' \subseteq probe
  BY <1>6 DEF ReconcileNext, Crash
<1> QED BY ZenonT(60), <1>1, <1>2, <1>3, <1>4, <1>5, <1>6 DEF Next, ReconcileStep

(* While a verdict is out, provisioning ends on the instance of a session   *)
(* that is awaited only by activating or closing it.                        *)
LEMMA EndOfAwaited ==
  ASSUME Calm, TypeOK, TypeOK', IInv, IInv', AttemptInv, probe # {},
         NEW t \in Sessions, Awaited(t), Awaited(t)', UNCHANGED <<req, target>>,
         NEW i \in Instances, target[t] = i, NEW u \in Sessions, registry[i] = u,
         Provisioned(i, u) \/ ProvisionExhausted(i, u)
  PROVE  FALSE
<1>1. /\ IsReservedFor(i, t) /\ (row[t] = "PENDING" => Open(t) /\ rowInstance[t] = i)
      /\ req[t] = "allocated" => row[t] = "none" /\ InFlight(t)
  BY DEF Awaited, IInv, RequestInv, Holding, Open, InFlight, TypeOK, SessionsOK
<1>2. ASSUME NEW v \in Sessions, Open(v), rowInstance[v] = i PROVE v = t
  BY <1>1, <1>2 DEF IInv, RequestInv, Holding, Open, IsReservedFor
<1>3. CASE Provisioned(i, u)
  <2>1. prov[i][u] = "built" /\ ActivateOn(i)
    BY <1>3 DEF Provisioned
  <2>2. u = t /\ row[u] # "none"
    BY <1>1, <2>1 DEF AttemptInv, IsReservedFor
  <2>3. row'[t] # "PENDING"
    BY <1>1, <2>1 DEF ActivateOn
  <2>4. req[t] = "allocated"
    BY <2>3 DEF Awaited
  <2> QED BY <1>1, <2>2, <2>4
<1>4. CASE ProvisionExhausted(i, u)
  <2>1. CASE \E v \in Sessions : Open(v) /\ rowInstance[v] = i /\ row' = [row EXCEPT ![v] = "CLOSED"]
    <3>1. Open(t) /\ row'[t] = "CLOSED"
      BY <1>2, <2>1 DEF TypeOK, SessionsOK
    <3> QED BY <1>1, <3>1 DEF Awaited, Open
  <2>2. CASE \A v \in Sessions : ~(Open(v) /\ rowInstance[v] = i)
    BY <1>4, <2>2 DEF ProvisionExhausted
  <2> QED BY <1>4, <2>1, <2>2 DEF ProvisionExhausted, CloseAndRelease
<1> QED BY <1>3, <1>4

(* A verdict PROVISIONED never outlives the containers it was read from.    *)
LEMMA ProbeInvStep ==
  ASSUME Calm, TypeOK, TypeOK', IInv, IInv', HostInv, PolledInv, FreshInv, AttemptInv, ProbeInv, Next
  PROVE  ProbeInv'
<1>0. RowsMove /\ AttemptsMove
  BY RowsStep, AttemptsStep
<1> SUFFICES ASSUME NEW p \in probe', p[2] = "PROVISIONED"
             PROVE  /\ row'[p[1]] # "none"
                    /\ \A t \in Sessions :
                         target'[t] = rowInstance'[p[1]] /\ registry'[target'[t]] = NoSession /\ Awaited(t)'
                         => Built(target[t], t)' /\ target'[t] = target[t]
  BY DEF ProbeInv, Awaited, Built
<1>a. p[1] \in Sessions
  BY DEF TypeOK, HandlersOK
<1>1. CASE p \notin probe
  <2>1. /\ UNCHANGED <<row, rowInstance, req, target, registry, containers, disturbed>>
        /\ row[p[1]] = "PENDING" /\ p[1] \in containers[rowInstance[p[1]]]
    BY <1>1, ProbeStep DEF ReconcileProbe, ProbeUnchanged, rows, requests, provisioning, hosting
  <2>2. rowInstance[p[1]] = target[p[1]] /\ IsReservedFor(target[p[1]], p[1])
    BY <1>a, <2>1 DEF IInv, RequestInv, Holding, Open
  <2>3. ASSUME NEW t \in Sessions, target[t] = target[p[1]], Awaited(t) PROVE t = p[1]
    BY <2>2, <2>3 DEF Awaited, IInv, RequestInv, Holding, Open, IsReservedFor
  <2> QED BY <2>1, <2>2, <2>3 DEF Awaited, Built
<1>2. CASE p \in probe
  <2>1. /\ row[p[1]] # "none" /\ row'[p[1]] # "none" /\ rowInstance'[p[1]] = rowInstance[p[1]]
        /\ rowInstance[p[1]] \in Instances
    BY <1>0, <1>2, <1>a DEF ProbeInv, RowsMove, FreshInv
  <2> SUFFICES ASSUME NEW t \in Sessions, target'[t] = rowInstance[p[1]],
                      registry'[target'[t]] = NoSession, Awaited(t)'
               PROVE  Built(target[t], t)' /\ target'[t] = target[t]
    BY <2>1
  <2> DEFINE i == rowInstance[p[1]]
  <2>2. Holding(t)' /\ ~Settled(t) /\ IsReservedFor(i, t)'
    BY <1>0, <2>1 DEF Awaited, Holding, Settled, Open, RowsMove, IInv, RequestInv
  <2>3. target[t] = target'[t]
    BY <1>0 DEF Awaited, RowsMove, IInv, RequestInv
  <2>4. Awaited(t)
    <3>1. CASE req'[t] = "allocated" /\ req[t] # "allocated"
      <4>1. req[t] = "awaiting" /\ RunProvision(i, t)
        BY <1>0, <2>3, <3>1 DEF RowsMove
      <4>2. registry[i] = NoSession => prov[i][t] = "none"
        BY <2>1, <4>1, ConstantsAssumption DEF AttemptInv, InFlight
      <4> QED BY <2>1, <4>1, <4>2, ConstantsAssumption DEF RunProvision, provisioning, TypeOK, HandlersOK
    <3>2. CASE row'[t] = "PENDING" /\ row[t] # "PENDING"
      <4>1. row[t] = "none" /\ req[t] \in {"allocated", "launchedUp"}
        BY <1>0, <3>2 DEF RowsMove
      <4>2. req[t] # "launchedUp"
        BY <1>a, <2>1, <2>3 DEF FreshInv, Launching
      <4> QED BY <4>1, <4>2 DEF Awaited
    <3> QED BY <3>1, <3>2 DEF Awaited
  <2>5. Holding(t) /\ IsReservedFor(i, t)
    BY <2>1, <2>3, <2>4 DEF Awaited, Holding, Open, IInv, RequestInv
  <2>6. CASE registry[i] = NoSession
    <3>1. Built(i, t)
      BY <1>2, <2>3, <2>4, <2>6 DEF ProbeInv, Awaited
    <3> QED BY <2>2, <2>3, <2>5, <2>6, <3>1, BuiltStays
  <2>7. CASE registry[i] # NoSession
    <3>1. PICK u \in Sessions : registry[i] = u
      BY <2>1, <2>7 DEF TypeOK, HandlersOK
    <3>2. ~\E h \in Holders : IsReservedFor(i, h) /\ rel[i][h] = "start"
      BY <2>1, <2>2, <2>5, ConstantsAssumption DEF IInv, ReleaseInv, Holders, IsReservedFor
    <3>3. Provisioned(i, u) \/ ProvisionExhausted(i, u) \/ Crash
      BY <1>0, <2>1, <2>3, <2>7, <3>1, <3>2 DEF AttemptsMove
    <3>4. ~Crash
      BY DEF Crash
    <3>5. UNCHANGED <<req, target>>
      BY <3>3, <3>4 DEF Provisioned, ProvisionExhausted, ProvUnchanged, requests
    <3> QED BY <1>2, <2>1, <2>3, <2>4, <3>1, <3>3, <3>4, <3>5, EndOfAwaited
  <2> QED BY <2>6, <2>7
<1> QED BY <1>1, <1>2

----------------------------------------------------------------------------
(* The invariant, and what it says.                                         *)

(* No instance has a container before its first session.                    *)
LEMMA KInvInit == Init => KInv
<1> SUFFICES ASSUME Init PROVE KInv
  OBVIOUS
<1>1. HostInv /\ ContainerInv
  BY DEF Init, HostInv, ContainerInv
<1>2. AttemptInv
  BY ConstantsAssumption DEF Init, AttemptInv
<1>3. PolledInv /\ FreshInv /\ ProbeInv /\ LiveInv
  BY DEF Init, PolledInv, FreshInv, ProbeInv, LiveInv, Reclaim0
<1> QED BY <1>1, <1>2, <1>3 DEF KInv

(* Every step keeps the seven parts.                                        *)
LEMMA KInvStep == ASSUME Calm, TypeOK, TypeOK', IInv, IInv', KInv, Next PROVE KInv'
  BY HostInvStep, ContainerInvStep, AttemptInvStep, PolledInvStep, FreshInvStep, ProbeInvStep,
     LiveInvStep DEF KInv

(* So does the rest of the world.                                           *)
LEMMA KInvStutter == ASSUME KInv, UNCHANGED vars PROVE KInv'
<1>1. HostInv' /\ ContainerInv' /\ AttemptInv'
  BY DEF KInv, vars, hosting, rows, requests, provisioning, HostInv, ContainerInv, AttemptInv,
     IsReservedFor, Settled, Targets, Holding, Open, InFlight, Built
<1>2. PolledInv' /\ FreshInv' /\ ProbeInv' /\ LiveInv'
  BY DEF KInv, vars, hosting, rows, requests, provisioning, sweeps, boot, PolledInv, FreshInv,
     ProbeInv, LiveInv, IsReservedFor, Settled, Targets, Holding, Open, Launching, Built
<1> QED BY <1>1, <1>2 DEF KInv

(* What is known of the containers holds in every calm run                  *)
(* (provisionInstance, releaseInstance, reconcilePendingSessions and the    *)
(* poll, each against all the others).                                      *)
THEOREM KInvCorrect == ASSUME Calm PROVE Spec => []KInv
<1>1. TypeOK /\ TypeOK' /\ IInv /\ IInv' /\ KInv /\ [Next]_vars => KInv'
  BY KInvStep, KInvStutter
<1> QED BY TypeCorrect, IInvCorrect, KInvInit, <1>1, PTL DEF Spec

(* An instance goes back to a pool only torn down: whatever it still has    *)
(* belongs to the session it is reserved for (releaseInstance undeploys     *)
(* before it gives up the claim and the tag).                               *)
THEOREM IdleIsCleanCorrect == ASSUME Calm PROVE Spec => []IdleIsClean
<1>1. TypeOK /\ KInv => IdleIsClean
  BY DEF TypeOK, HostingOK, KInv, ContainerInv, IdleIsClean, IsReservedFor
<1> QED BY TypeCorrect, KInvCorrect, <1>1, PTL

(* A container has the claim of some session to account for it, unless both *)
(* the undeploy of a release and the terminate after it may fail: then the  *)
(* claim goes and the containers stay (releaseInstance's catch).            *)
THEOREM ContainerIsClaimedCorrect ==
  ASSUME Calm, MaxFailures < 2 \/ ~({"undeploy", "terminate"} \subseteq Failing)
  PROVE  Spec => []ContainerIsClaimed
<1>1. TypeOK /\ KInv => ContainerIsClaimed
  BY ConstantsAssumption DEF TypeOK, HostingOK, ProcessOK, KInv, ContainerInv, ContainerIsClaimed
<1> QED BY TypeCorrect, KInvCorrect, <1>1, PTL

(* Nobody takes the containers of an open session away but its own current  *)
(* attempt: a release that undeploys belongs to whoever the instance is     *)
(* reserved for, and that session is no longer open.                        *)
THEOREM TeardownIsOwnCorrect == ASSUME Calm PROVE Spec => TeardownIsOwn
<1> DEFINE Own == \A s \in Sessions : \A i \in Instances :
                    Open(s) /\ Open(s)' /\ rowInstance[s] = i /\ s \in containers[i] \ containers'[i]
                      => (prov[i][s] = "keyed" /\ registry[i] = s) \/ i \in disturbed'
<1>1. ASSUME TypeOK, TypeOK', IInv, IInv', KInv, [Next]_vars PROVE Own
  <2> SUFFICES ASSUME NEW s \in Sessions, NEW i \in Instances, Open(s), Open(s)', rowInstance[s] = i,
                      s \in containers[i] \ containers'[i]
               PROVE  (prov[i][s] = "keyed" /\ registry[i] = s) \/ i \in disturbed'
    OBVIOUS
  <2>1. Next
    BY <1>1 DEF vars, hosting
  <2>2. ContainersMove /\ RowsMove
    BY <1>1, <2>1, ContainersStep, RowsStep
  <2>3. IsReservedFor(i, s) /\ ~Settled(s) /\ tag'[i] # "terminated" /\ tag[i] # "terminated"
    BY <1>1, <2>2 DEF IInv, RequestInv, Holding, Open, Settled, IsReservedFor, RowsMove
  <2>4. \A h \in Holders : rel[i][h] # "deployed"
    BY <1>1, <2>3, ConstantsAssumption DEF IInv, ReleaseInv, Holders, IsReservedFor
  <2>5. ASSUME NEW t \in Sessions, registry[i] = t, prov[i][t] = "keyed" PROVE t = s
    BY <1>1, <2>3, <2>5 DEF KInv, AttemptInv, IsReservedFor
  <2> QED BY <2>2, <2>3, <2>4, <2>5 DEF ContainersMove
<1> QED BY TypeCorrect, IInvCorrect, KInvCorrect, <1>1, PTL DEF Spec, TeardownIsOwn

(* A session becomes ACTIVE only with its containers up: its own attempt    *)
(* has built them, or the sweep's verdict still stands.                     *)
THEOREM ActivatedIsProvisionedCorrect == ASSUME Calm PROVE Spec => ActivatedIsProvisioned
<1> DEFINE Up == \A s \in Sessions : row[s] = "PENDING" /\ row'[s] = "ACTIVE"
                   => s \in containers[rowInstance[s]] \/ rowInstance[s] \in disturbed
<1>1. ASSUME TypeOK, TypeOK', IInv, IInv', KInv, [Next]_vars PROVE Up
  <2> SUFFICES ASSUME NEW s \in Sessions, row[s] = "PENDING", row'[s] = "ACTIVE"
               PROVE  Built(rowInstance[s], s)
    BY DEF Built
  <2>0. /\ rowInstance[s] = target[s] /\ target[s] \in Instances /\ IsReservedFor(target[s], s)
    BY <1>1 DEF IInv, RequestInv, Holding, Open
  <2>1. ASSUME NEW i \in Instances, NEW u \in Sessions, Provisioned(i, u) PROVE Built(rowInstance[s], s)
    <3>1. registry[i] = u /\ prov[i][u] = "built" /\ rowInstance[s] = i
      BY <2>1 DEF Provisioned, ActivateOn
    <3>2. Built(i, u) /\ u = s
      BY <1>1, <2>0, <3>1 DEF KInv, AttemptInv, IsReservedFor
    <3> QED BY <3>1, <3>2
  <2>2. CASE ReconcileNext
    <3>1. PICK p \in probe : /\ p[2] = "PROVISIONED" /\ registry[rowInstance[p[1]]] = NoSession
                             /\ rowInstance[s] = rowInstance[p[1]]
      BY <2>2 DEF ReconcileNext, ActivateOn
    <3> QED BY <1>1, <2>0, <3>1 DEF KInv, ProbeInv
  <2>3. \/ UNCHANGED row \/ ReconcileNext \/ (\E i \in Instances, u \in Sessions : Provisioned(i, u))
        \/ \E t \in Sessions : \E to \in {"PENDING", "CLOSED"} : row' = [row EXCEPT ![t] = to]
    <3>1. ASSUME NEW t \in Sessions, RequestSession(t) \/ RequestStep(t)
          PROVE  UNCHANGED row \/ row' = [row EXCEPT ![t] = "PENDING"]
      BY <3>1 DEF RequestStep, RequestSession, ClaimIdle, ListPooled, Reserve, AwaitHost, UndoClaim,
         ClaimPooled, StartPooled, LaunchReserved, ClaimLaunched, AwaitLaunched, InsertRow,
         TryCandidate, rows
    <3>2. ASSUME NEW t \in Sessions, CloseSession(t) \/ MissingProbe(t)
          PROVE  UNCHANGED row \/ row' = [row EXCEPT ![t] = "CLOSED"]
      BY <3>2 DEF CloseSession, CloseAndRelease, MissingProbe
    <3>3. ASSUME NEW i \in Instances, Boot(i) \/ PollList(i) \/ PollStarted(i) \/ LoseContainer(i)
          PROVE  UNCHANGED row
      BY <3>3 DEF Boot, PollList, PollStarted, LoseContainer, rows
    <3>4. ASSUME NEW i \in Instances, NEW u \in Sessions, ProvisionStep(i, u)
          PROVE  UNCHANGED row \/ Provisioned(i, u) \/ \E t \in Sessions : row' = [row EXCEPT ![t] = "CLOSED"]
      BY <3>4 DEF ProvisionStep, AbandonProvision, GetApiKey, RemoveInstanceContainers, CreateContainers,
         AttemptFails, ProvisionExhausted, CloseAndRelease, rows
    <3>5. ASSUME NEW i \in Instances, NEW h \in Holders, ReleaseStep(i, h) PROVE UNCHANGED row
      BY <3>5 DEF ReleaseStep, GetInstance, Undeploy, ReleaseClaim, TagIdle, ReleaseFails,
         TerminateFailed, DropFailed, RelUnchanged, rows
    <3>6. ASSUME UnusedStep \/ ReclaimStep \/ CycleStep \/ ReconcileProbe \/ Crash \/ BackfillRead \/ BackfillClaim
          PROVE  UNCHANGED row
      BY <3>6 DEF UnusedStep, ReclaimStep, CycleStep, UnusedReadOpen, UnusedListReserved,
         UnusedReadClaims, UnusedRelease, ReclaimReadOpen, ReclaimReadLive, ReclaimReadClaims,
         ReclaimNext, CycleList, CyclePoolState, CycleClaim, CycleAct, CycleUnclaim, CycleWarmUp,
         ReconcileProbe, Crash, BackfillRead, BackfillClaim, SweepUnchanged, CycleUnchanged, rows
    <3>7. UNCHANGED vars => UNCHANGED row
      BY DEF vars, rows
    <3> QED BY ZenonT(60), <1>1, <3>1, <3>2, <3>3, <3>4, <3>5, <3>6, <3>7 DEF Next, ReconcileStep
  <2>4. ~(\E t \in Sessions : \E to \in {"PENDING", "CLOSED"} : row' = [row EXCEPT ![t] = to])
    BY <1>1 DEF TypeOK, SessionsOK
  <2> QED BY <2>1, <2>2, <2>3, <2>4
<1> QED BY TypeCorrect, IInvCorrect, KInvCorrect, <1>1, PTL DEF Spec, ActivatedIsProvisioned

----------------------------------------------------------------------------
(* The worker implements Leases.                                            *)

Leasing == [Lease!Next]_(Lease!vars)

(* What Leases sees of a step that changes less than all of it.             *)
LEMMA ViewKept ==
  /\ UNCHANGED <<tag, owner>> => Lessee' = Lessee /\ Tagged("terminated")' = Tagged("terminated")
  /\ UNCHANGED <<containers, disturbed>> => Used' = Used
  /\ UNCHANGED <<row, req>> => Stage' = Stage
BY DEF Lessee, Tagged, Used, Stage, Open, InFlight

(* of an instance that is terminated,                                       *)
LEMMA ViewTerminated ==
  ASSUME TypeOK, NEW i \in Instances, Terminated(i)
  PROVE  /\ Lessee' = [Lessee EXCEPT ![i] = NoSession] /\ Used' = [Used EXCEPT ![i] = {}]
         /\ Tagged("terminated")' = Tagged("terminated") \union {i}
BY DEF TypeOK, HostingOK, Terminated, Lessee, Used, Tagged

(* which nobody notices the second time,                                    *)
LEMMA ViewTerminatedAgain ==
  ASSUME TypeOK, HostInv, NEW i \in Instances, Terminated(i), tag[i] = "terminated"
  PROVE  Lessee' = Lessee /\ Used' = Used /\ Tagged("terminated")' = Tagged("terminated")
BY DEF TypeOK, HostingOK, HostInv, Terminated, Lessee, Used, Tagged

(* of one that is reserved or no longer is,                                 *)
LEMMA ViewTagged ==
  ASSUME TypeOK, NEW i \in Instances, NEW t \in {"reserved", "idle", "pooled"}, NEW s,
         tag' = [tag EXCEPT ![i] = t], owner' = [owner EXCEPT ![i] = s], tag[i] # "terminated"
  PROVE  /\ Lessee' = [Lessee EXCEPT ![i] = IF t = "reserved" THEN s ELSE NoSession]
         /\ Tagged("terminated")' = Tagged("terminated")
BY DEF TypeOK, HostingOK, Lessee, Tagged

(* and of a request or a row that moves on.                                 *)
LEMMA ViewStage ==
  ASSUME TypeOK, IInv, NEW s \in Sessions, NEW x, req' = [req EXCEPT ![s] = x], UNCHANGED row, ~Open(s)
  PROVE  Stage' = [Stage EXCEPT ![s] = IF x = "none" THEN "new" ELSE IF x \in {"done", "failed"} THEN "over" ELSE "asking"]
<1>1. \A t \in Sessions : (Open(t)' <=> Open(t)) /\ req'[t] = IF t = s THEN x ELSE req[t]
  BY DEF TypeOK, SessionsOK, Open
<1>2. \A t \in Sessions \ {s} : Stage'[t] = Stage[t]
  BY <1>1 DEF Stage, InFlight
<1>3. Stage'[s] = IF x = "none" THEN "new" ELSE IF x \in {"done", "failed"} THEN "over" ELSE "asking"
  BY <1>1 DEF Stage, InFlight
<1>4. Stage = [t \in Sessions |-> Stage[t]] /\ Stage' = [t \in Sessions |-> Stage'[t]]
  BY DEF Stage
<1> QED
  BY <1>2, <1>3, <1>4

LEMMA ViewRow ==
  ASSUME TypeOK, IInv, NEW s \in Sessions, NEW x, row' = [row EXCEPT ![s] = x], UNCHANGED req, req[s] = "done"
  PROVE  Stage' = [Stage EXCEPT ![s] = IF x \in {"PENDING", "ACTIVE"} THEN "open" ELSE "over"]
<1>1. \A t \in Sessions : row'[t] = IF t = s THEN x ELSE row[t]
  BY DEF TypeOK, SessionsOK
<1>2. \A t \in Sessions \ {s} : Stage'[t] = Stage[t]
  BY <1>1 DEF Stage, InFlight, Open
<1>3. Stage'[s] = IF x \in {"PENDING", "ACTIVE"} THEN "open" ELSE "over"
  BY <1>1 DEF Stage, InFlight, Open
<1>4. Stage = [t \in Sessions |-> Stage[t]] /\ Stage' = [t \in Sessions |-> Stage'[t]]
  BY DEF Stage
<1> QED
  BY <1>2, <1>3, <1>4

(* A session that asks has no instance, or only the one its request is at.  *)
LEMMA StageMeans ==
  ASSUME NEW s \in Sessions, TypeOK, IInv
  PROVE  /\ Stage[s] = "open" <=> Open(s)
         /\ Stage[s] = "asking" <=> InFlight(s)
         /\ Stage[s] = "new" <=> req[s] = "none"
         /\ Stage[s] = "over" <=> Settled(s)
BY DEF TypeOK, SessionsOK, IInv, RequestInv, Stage, Open, InFlight, Settled

(* The steps Leases does not see.                                           *)
LEMMA Unseen ==
  ASSUME UNCHANGED <<tag, owner, containers, disturbed, row, req>>
  PROVE  Leasing
BY ViewKept DEF Leasing, Lease!vars

(* A request that asks, gives up or goes on.                                *)
LEMMA RequestMoves ==
  ASSUME TypeOK, IInv, NEW s \in Sessions, NEW x, req' = [req EXCEPT ![s] = x],
         UNCHANGED <<tag, owner, containers, disturbed, row>>,
         \/ req[s] = "none" /\ x = "claiming"
         \/ InFlight(s) /\ x \notin {"none", "done"}
  PROVE  Leasing
<1>1. ~Open(s) /\ Stage[s] = (IF req[s] = "none" THEN "new" ELSE "asking")
  BY StageMeans DEF IInv, RequestInv, Open, InFlight, TypeOK, SessionsOK
<1>2. /\ Stage' = [Stage EXCEPT ![s] = IF x = "failed" THEN "over" ELSE "asking"]
      /\ UNCHANGED <<Lessee, Used, Tagged("terminated")>>
  BY <1>1, ViewStage, ViewKept
<1>3. CASE req[s] = "none"
  <2>1. x = "claiming"
    BY <1>3 DEF InFlight
  <2>2. Lease!Ask(s)
    BY <1>1, <1>2, <1>3, <2>1 DEF Lease!Ask, Lease!Moves
  <2> QED
    BY <2>2 DEF Leasing, Lease!Next
<1>4. CASE req[s] # "none" /\ x = "failed"
  <2>1. Lease!GiveUp({s})
    BY <1>1, <1>2, <1>4 DEF Lease!GiveUp, Stage
  <2> QED
    BY <2>1 DEF Leasing, Lease!Next
<1>5. CASE req[s] # "none" /\ x # "failed"
  BY <1>1, <1>2, <1>5 DEF Leasing, Lease!vars, Stage
<1> QED
  BY <1>3, <1>4, <1>5

(* An instance nobody has any more is terminated.                           *)
LEMMA Discards ==
  ASSUME TypeOK, IInv, HostInv, NEW i \in Instances, Terminated(i), UNCHANGED Stage,
         tag[i] = "reserved" => Settled(owner[i])
  PROVE  Leasing
<1>1. Lease!Returnable(i)
  BY StageMeans DEF Lease!Returnable, Lessee, TypeOK, HostingOK
<1>2. Lease!Discard(i)
  BY <1>1, ViewTerminated DEF Lease!Discard, Lease!Vanish
<1> QED
  BY <1>2 DEF Leasing, Lease!Next

(* A request in flight takes an instance: nobody has it, and nobody has     *)
(* anything on it.                                                          *)
LEMMA Takes ==
  ASSUME TypeOK, IInv, KInv, NEW s \in Sessions, NEW i \in Instances,
         req[s] \in {"claimed", "startingPooled", "pooling", "launching"},
         tag[i] \notin {"reserved", "terminated"},
         tag' = [tag EXCEPT ![i] = "reserved"], owner' = [owner EXCEPT ![i] = s],
         UNCHANGED <<containers, disturbed, Stage>>
  PROVE  Leasing
<1>1. Stage[s] = "asking"
  BY StageMeans DEF InFlight
<1>2. \A j \in Instances : Lessee[j] # s
  BY ConstantsAssumption DEF IInv, RequestInv, OwnerInv, IsReservedFor, Settled, Targets, Holding, Open, Lessee
<1>3. Lessee[i] = NoSession /\ Used[i] = {} /\ i \notin Tagged("terminated")
  BY DEF KInv, ContainerInv, IsReservedFor, Lessee, Used, Tagged, TypeOK, HostingOK
<1>4. Lessee' = [Lessee EXCEPT ![i] = s] /\ UNCHANGED <<Used, Tagged("terminated")>>
  BY ViewTagged, ViewKept
<1>5. Lease!Lease(i, s)
  BY <1>1, <1>2, <1>3, <1>4 DEF Lease!Lease
<1> QED
  BY <1>5 DEF Leasing, Lease!Next

(* A row that is closed.                                                    *)
LEMMA Closes ==
  ASSUME TypeOK, IInv, NEW s \in Sessions, Open(s), row' = [row EXCEPT ![s] = "CLOSED"],
         UNCHANGED <<tag, owner, containers, disturbed, req>>
  PROVE  Leasing
<1>1. req[s] = "done" /\ Stage[s] = "open"
  BY StageMeans DEF IInv, RequestInv, Open
<1>2. Stage' = [Stage EXCEPT ![s] = "over"]
  <2>1. Stage' = [Stage EXCEPT ![s] = IF "CLOSED" \in {"PENDING", "ACTIVE"} THEN "open" ELSE "over"]
    BY <1>1, ViewRow
  <2> QED BY <2>1
<1>3. Lease!Close(s)
  BY <1>1, <1>2, ViewKept DEF Lease!Close, Lease!Moves
<1> QED
  BY <1>3 DEF Leasing, Lease!Next

(* A row that becomes ACTIVE was open before.                               *)
LEMMA Activates ==
  ASSUME TypeOK, NEW i, ActivateOn(i), UNCHANGED <<tag, owner, containers, disturbed, req>>
  PROVE  Leasing
<1>1. \A s \in Sessions : Open(s)' <=> Open(s)
  BY DEF ActivateOn, Open, TypeOK, SessionsOK
<1>2. Stage' = Stage
  BY <1>1 DEF Stage, InFlight
<1> QED
  BY <1>2, ViewKept DEF Leasing, Lease!vars

(* The containers of an instance are removed, or are nobody's any more.     *)
LEMMA TakesDown ==
  ASSUME TypeOK, NEW i \in Instances, UNCHANGED <<tag, owner, row, req>>,
         containers' = [containers EXCEPT ![i] = {}] \/ (i \in disturbed' /\ \E c : containers' = [containers EXCEPT ![i] = c]),
         disturbed' = disturbed \/ disturbed' = disturbed \union {i}
  PROVE  Leasing
<1>1. Used' = [Used EXCEPT ![i] = {}]
  BY DEF Used, TypeOK, HostingOK
<1>2. Lease!TakeDown(i)
  BY <1>1, ViewKept DEF Lease!TakeDown
<1> QED
  BY <1>2 DEF Leasing, Lease!Next

(* Reserving and starting what was elected take it, or lose it.             *)
LEMMA ReserveLeases ==
  ASSUME TypeOK, IInv, KInv, NEW s \in Sessions, Reserve(s) \/ StartPooled(s)
  PROVE  Leasing
<1> DEFINE i == target[s]
<1>1. /\ i \in Instances /\ req[s] \in {"claimed", "startingPooled"} /\ tag[i] # "reserved"
      /\ ~Open(s) /\ Stage[s] = "asking" /\ HostInv
  BY StageMeans DEF Reserve, StartPooled, IInv, RequestInv, Electing, KInv, InFlight, Open
<1>2. Stage' = Stage
  <2>1. UNCHANGED row /\ \E x \in {"awaiting", "undoing", "undoingStart"} : req' = [req EXCEPT ![s] = x]
    BY DEF Reserve, StartPooled, rows
  <2>2. PICK x \in {"awaiting", "undoing", "undoingStart"} : req' = [req EXCEPT ![s] = x]
    BY <2>1
  <2>3. Stage' = [Stage EXCEPT ![s] = "asking"]
    BY <1>1, <2>1, <2>2, ViewStage
  <2> QED
    BY <1>1, <2>3 DEF Stage
<1>3. CASE tag[i] # "terminated" /\ Retag(i, "reserved", s)
  BY <1>1, <1>2, <1>3, Takes DEF Retag
<1>4. CASE Terminated(i)
  BY <1>1, <1>2, <1>4, Discards
<1>5. CASE UNCHANGED hosting
  BY <1>2, <1>5, ViewKept DEF Leasing, Lease!vars, hosting
<1> QED
  BY <1>3, <1>4, <1>5 DEF Reserve, StartPooled

(* A launch takes what it has launched, or fails with it or without.        *)
LEMMA LaunchLeases ==
  ASSUME TypeOK, IInv, KInv, NEW s \in Sessions, LaunchReserved(s)
  PROVE  Leasing
<1>1. /\ req[s] \in {"launching", "pooling"} /\ ~Open(s) /\ Stage[s] = "asking" /\ InFlight(s)
      /\ UNCHANGED row
  BY StageMeans DEF LaunchReserved, IInv, RequestInv, InFlight, Open, rows
<1>2. ASSUME NEW i \in Unlaunched, tag' = [tag EXCEPT ![i] = "reserved"], owner' = [owner EXCEPT ![i] = s],
             req' = [req EXCEPT ![s] = "launched"], UNCHANGED <<containers, disturbed>>
      PROVE  Leasing
  <2>1. Stage' = [Stage EXCEPT ![s] = "asking"]
    BY <1>1, <1>2, ViewStage
  <2>2. Stage' = Stage /\ i \in Instances /\ tag[i] = "unlaunched"
    BY <1>1, <2>1 DEF Stage, Unlaunched
  <2> QED
    BY <1>1, <1>2, <2>2, Takes
<1>3. ASSUME NEW i \in Unlaunched, Terminated(i), req' = [req EXCEPT ![s] = "failed"]
      PROVE  Leasing
  <2>1. Stage' = [Stage EXCEPT ![s] = "over"]
    BY <1>1, <1>3, ViewStage
  <2>2. i \in Instances /\ Lease!Returnable(i)
    BY DEF Unlaunched, Lease!Returnable, Lessee
  <2>3. Lease!LaunchFails(i, s)
    BY <1>1, <1>3, <2>1, <2>2, ViewTerminated DEF Lease!LaunchFails, Lease!Vanish, Lease!Moves
  <2> QED
    BY <2>2, <2>3 DEF Leasing, Lease!Next
<1>4. ASSUME req' = [req EXCEPT ![s] = "failed"], UNCHANGED hosting
      PROVE  Leasing
  BY <1>1, <1>4, RequestMoves DEF hosting
<1> QED
  BY <1>2, <1>3, <1>4 DEF LaunchReserved

(* A row is inserted for the instance its request has.                      *)
LEMMA InsertLeases ==
  ASSUME TypeOK, IInv, KInv, NEW s \in Sessions, InsertRow(s)
  PROVE  Leasing
<1>1. /\ ~Open(s) /\ InFlight(s) /\ Stage[s] = "asking" /\ UNCHANGED <<tag, owner, containers, disturbed>>
      /\ target[s] \in Instances /\ Lessee[target[s]] = s
  BY StageMeans DEF InsertRow, IInv, RequestInv, InFlight, Open, Holding, IsReservedFor, Lessee, hosting
<1>2. CASE req' = [req EXCEPT ![s] = "done"] /\ row' = [row EXCEPT ![s] = "PENDING"]
  <2>1. \A t \in Sessions : /\ row'[t] = IF t = s THEN "PENDING" ELSE row[t]
                            /\ req'[t] = IF t = s THEN "done" ELSE req[t]
    BY <1>2 DEF TypeOK, SessionsOK
  <2>2. Stage' = [Stage EXCEPT ![s] = "open"]
    <3>1. \A t \in Sessions \ {s} : Stage'[t] = Stage[t]
      BY <2>1 DEF Stage, Open, InFlight
    <3>2. Stage'[s] = "open"
      BY <2>1 DEF Stage, Open, InFlight
    <3> QED
      BY <3>1, <3>2 DEF Stage
  <2>3. Lease!Open(target[s], s)
    BY <1>1, <2>2, ViewKept DEF Lease!Open, Lease!Moves
  <2> QED
    BY <1>1, <2>3 DEF Leasing, Lease!Next
<1>3. CASE req' = [req EXCEPT ![s] = "failed"] /\ UNCHANGED rows
  BY <1>1, <1>3, RequestMoves DEF rows
<1> QED
  BY <1>2, <1>3 DEF InsertRow

(* What a request and a user's or the missing sweep's close do.             *)
LEMMA RequestLeases ==
  ASSUME TypeOK, IInv, KInv, NEW s \in Sessions,
         RequestSession(s) \/ RequestStep(s) \/ CloseSession(s) \/ MissingProbe(s)
  PROVE  Leasing
<1>1. CASE RequestSession(s) \/ ListPooled(s) \/ UndoClaim(s)
  <2>1. UNCHANGED <<tag, owner, containers, disturbed, row>>
    BY <1>1 DEF RequestSession, ListPooled, UndoClaim, hosting, rows
  <2>2. \E x \in {"claiming", "pooling", "failed", "launching"} :
          /\ req' = [req EXCEPT ![s] = x]
          /\ (req[s] = "none" /\ x = "claiming") \/ InFlight(s)
    BY <1>1 DEF RequestSession, ListPooled, UndoClaim, InFlight, TypeOK, SessionsOK
  <2> QED
    BY <2>1, <2>2, RequestMoves
<1>2. CASE ClaimIdle(s) \/ ClaimPooled(s)
  <2>1. UNCHANGED <<tag, owner, containers, disturbed, row>>
    BY <1>2 DEF ClaimIdle, ClaimPooled, TryCandidate, hosting, rows
  <2>2. \/ UNCHANGED req
        \/ InFlight(s) /\ \E x \in {"claimed", "startingPooled"} : req' = [req EXCEPT ![s] = x]
    BY <1>2 DEF ClaimIdle, ClaimPooled, TryCandidate, InFlight
  <2> QED
    BY <2>1, <2>2, RequestMoves, Unseen
<1>3. CASE AwaitHost(s) \/ ClaimLaunched(s) \/ AwaitLaunched(s)
  <2>1. UNCHANGED <<tag, owner, containers, disturbed, row>>
    BY <1>3 DEF AwaitHost, ClaimLaunched, AwaitLaunched, hosting, rows
  <2>2. InFlight(s) /\ \E x \in {"allocated", "undoing", "awaitingLaunch", "launchedUp", "failed"} :
                         req' = [req EXCEPT ![s] = x]
    BY <1>3 DEF AwaitHost, ClaimLaunched, AwaitLaunched, InFlight
  <2> QED
    BY <2>1, <2>2, RequestMoves
<1>4. CASE CloseSession(s)
  BY <1>4, Closes DEF CloseSession, CloseAndRelease, hosting, requests
<1>5. CASE MissingProbe(s)
  <2>1. /\ UNCHANGED <<tag, owner, containers, disturbed, req>> /\ Open(s)
        /\ UNCHANGED row \/ row' = [row EXCEPT ![s] = "CLOSED"]
    BY <1>5 DEF MissingProbe, ProbeUnchanged, hosting, requests, Open
  <2> QED
    BY <2>1, Closes, Unseen
<1> QED
  BY <1>1, <1>2, <1>3, <1>4, <1>5, ReserveLeases, LaunchLeases, InsertLeases DEF RequestStep

(* What the hosting service and the poll for started instances do.          *)
LEMMA HostLeases ==
  ASSUME Calm, TypeOK, IInv, KInv, NEW i \in Instances,
         Boot(i) \/ PollList(i) \/ PollStarted(i) \/ LoseContainer(i)
  PROVE  Leasing
<1>1. CASE PollStarted(i)
  <2>1. UNCHANGED <<row, req>>
    BY <1>1 DEF PollStarted, rows, requests
  <2>2. CASE UNCHANGED <<tag, owner, host, containers, disturbed>>
    BY <2>1, <2>2, Unseen
  <2>3. CASE tag[i] = "terminated" /\ Terminated(i)
    BY <2>1, <2>3, ViewKept, ViewTerminatedAgain DEF KInv, Leasing, Lease!vars
  <2> QED
    BY <1>1, <2>2, <2>3 DEF PollStarted, Calm, Fails
<1>2. CASE LoseContainer(i)
  BY <1>2, TakesDown DEF LoseContainer, rows, requests
<1> QED
  BY <1>1, <1>2, Unseen DEF Boot, PollList, hosting, rows, requests

(* An attempt runs containers on the instance its session has, for as long  *)
(* as it is the current one; one that is not disturbs it.                   *)
LEMMA AttemptLeases ==
  ASSUME TypeOK, IInv, KInv, NEW i \in Instances, NEW s \in Sessions, ProvisionStep(i, s)
  PROVE  Leasing
<1>1. UNCHANGED req
  BY DEF ProvisionStep, AbandonProvision, GetApiKey, RemoveInstanceContainers, CreateContainers,
     AttemptFails, Provisioned, ProvisionExhausted, ProvUnchanged, requests
<1>2. CASE AbandonProvision(i, s) \/ GetApiKey(i, s) \/ AttemptFails(i, s)
  BY <1>1, <1>2, Unseen DEF AbandonProvision, GetApiKey, AttemptFails, hosting, rows
<1>3. CASE RemoveInstanceContainers(i, s)
  BY <1>1, <1>3, TakesDown DEF RemoveInstanceContainers, rows
<1>4. CASE CreateContainers(i, s)
  <2>1. UNCHANGED <<tag, owner, row>> /\ containers' = [containers EXCEPT ![i] = @ \union {s}]
    BY <1>4 DEF CreateContainers, rows
  <2>2. CASE registry[i] # s
    BY <1>1, <1>4, <2>1, <2>2, TakesDown DEF CreateContainers
  <2>3. CASE registry[i] = s
    <3>1. IsReservedFor(i, s) /\ row[s] # "none"
      BY <1>4, <2>3 DEF CreateContainers, KInv, AttemptInv, HostInv
    <3>2. Stage[s] \in {"open", "over"} /\ Lessee[i] = s
      BY <3>1, StageMeans DEF IInv, RequestInv, Settled, Open, IsReservedFor, Lessee, TypeOK, SessionsOK
    <3>3. CASE i \in disturbed
      BY <1>1, <1>4, <2>1, <2>3, <3>3, TakesDown DEF CreateContainers
    <3>4. CASE i \notin disturbed
      <4>1. containers[i] \subseteq {s} /\ disturbed' = disturbed
        BY <1>4, <2>3, <3>1, <3>4 DEF CreateContainers, KInv, ContainerInv, IsReservedFor, TypeOK, HostingOK
      <4>2. Used' = [Used EXCEPT ![i] = {s}]
        BY <2>1, <3>4, <4>1 DEF Used, TypeOK, HostingOK
      <4>3. Lease!Use(i, s)
        BY <1>1, <2>1, <3>2, <4>2, ViewKept DEF Lease!Use
      <4> QED
        BY <4>3 DEF Leasing, Lease!Next
    <3> QED
      BY <3>3, <3>4
  <2> QED
    BY <2>2, <2>3
<1>5. CASE Provisioned(i, s)
  BY <1>1, <1>5, Activates, Unseen DEF Provisioned, hosting
<1>6. CASE ProvisionExhausted(i, s)
  BY <1>1, <1>6, Closes, Unseen DEF ProvisionExhausted, CloseAndRelease, hosting, rows
<1> QED
  BY <1>2, <1>3, <1>4, <1>5, <1>6 DEF ProvisionStep

(* A release takes the session's containers down before it gives the        *)
(* instance back, or gives both back at once.                               *)
LEMMA ReleaseLeases ==
  ASSUME TypeOK, IInv, KInv, NEW i \in Instances, NEW h \in Holders, ReleaseStep(i, h)
  PROVE  Leasing
<1>1. UNCHANGED <<row, req>>
  BY DEF ReleaseStep, GetInstance, Undeploy, ReleaseClaim, TagIdle, ReleaseFails, TerminateFailed,
     DropFailed, RelUnchanged, rows, requests
<1>2. CASE GetInstance(i, h) \/ ReleaseClaim(i, h) \/ ReleaseFails(i, h) \/ DropFailed(i, h)
  BY <1>1, <1>2, Unseen DEF GetInstance, ReleaseClaim, ReleaseFails, DropFailed, hosting
<1>3. CASE Undeploy(i, h)
  BY <1>1, <1>3, TakesDown DEF Undeploy
<1>4. CASE TagIdle(i, h)
  <2>1. h \in Sessions /\ IsReservedFor(i, h) /\ Settled(h) /\ rel[i][h] = "unclaimed"
    BY <1>4 DEF TagIdle, IInv, ReleaseInv, Holders
  <2>2. Lessee[i] = h /\ h # NoSession /\ Lease!Returnable(i) /\ Stage' = Stage
    BY <1>1, <2>1, StageMeans, ViewKept, ConstantsAssumption DEF IsReservedFor, Lessee, Lease!Returnable
  <2>3. CASE Retag(i, "idle", NoSession)
    <3>1. Used[i] = {} /\ Used' = Used
      BY <2>1, <2>3, ViewKept DEF KInv, ContainerInv, IsReservedFor, Used, TypeOK, HostingOK, Retag
    <3>2. Lessee' = [Lessee EXCEPT ![i] = NoSession] /\ UNCHANGED Tagged("terminated")
      BY <2>1, <2>3, ViewTagged DEF Retag, IsReservedFor
    <3>3. Lease!Return(i)
      BY <2>2, <3>1, <3>2 DEF Lease!Return
    <3> QED
      BY <3>3 DEF Leasing, Lease!Next
  <2>4. CASE Terminated(i)
    BY <2>1, <2>2, <2>4, Discards DEF KInv, IsReservedFor
  <2> QED
    BY <1>4, <2>3, <2>4 DEF TagIdle
<1>5. CASE TerminateFailed(i, h)
  <2>1. h \in Sessions /\ Settled(h) /\ (IsReservedFor(i, h) \/ tag[i] = "terminated")
    BY <1>5 DEF TerminateFailed, IInv, ReleaseInv, Holders
  <2>2. CASE Terminated(i)
    BY <1>1, <2>1, <2>2, Discards, ViewKept DEF KInv, IsReservedFor
  <2>3. CASE UNCHANGED hosting
    BY <1>1, <2>3, Unseen DEF hosting
  <2> QED
    BY <1>5, <2>2, <2>3 DEF TerminateFailed
<1> QED
  BY <1>2, <1>3, <1>4, <1>5 DEF ReleaseStep

(* The pool cycle has only instances nobody has.                            *)
LEMMA CycleLeases ==
  ASSUME TypeOK, IInv, KInv, CycleStep
  PROVE  Leasing
<1>1. UNCHANGED <<row, req>>
  BY DEF CycleStep, CycleList, CyclePoolState, CycleClaim, CycleAct, CycleUnclaim, CycleWarmUp,
     CycleUnchanged, rows, requests
<1>2. CASE CycleList \/ CycleWarmUp
  <2>1. /\ UNCHANGED <<owner, containers, disturbed>>
        /\ \/ UNCHANGED tag
           \/ \E new \in SUBSET Unlaunched, t \in {"idle", "pooled"} :
                tag' = [i \in Instances |-> IF i \in new THEN t ELSE tag[i]]
    BY <1>2 DEF CycleList, CycleWarmUp
  <2>2. Lessee' = Lessee /\ Tagged("terminated")' = Tagged("terminated")
    BY <2>1 DEF Lessee, Tagged, Unlaunched, TypeOK, HostingOK
  <2> QED
    BY <1>1, <2>1, <2>2, ViewKept DEF Leasing, Lease!vars
<1>3. CASE CyclePoolState \/ CycleClaim \/ CycleUnclaim
  BY <1>1, <1>3, Unseen DEF CyclePoolState, CycleClaim, CycleUnclaim, hosting
<1>4. CASE CycleAct
  <2> DEFINE i == cycle.hold
  <2>1. i \in Instances /\ tag[i] # "reserved"
    BY <1>4 DEF CycleAct, IInv, CycleInv
  <2>2. CASE Terminated(i)
    BY <1>1, <2>1, <2>2, Discards, ViewKept DEF KInv
  <2>3. CASE /\ tag[i] # "terminated" /\ tag' = [tag EXCEPT ![i] = "pooled"]
             /\ owner' = [owner EXCEPT ![i] = NoSession] /\ UNCHANGED <<containers, disturbed>>
    <3>1. Lessee' = Lessee /\ Tagged("terminated")' = Tagged("terminated")
      BY <2>1, <2>3 DEF Lessee, Tagged, TypeOK, HostingOK
    <3> QED
      BY <1>1, <2>3, <3>1, ViewKept DEF Leasing, Lease!vars
  <2>4. CASE UNCHANGED hosting
    BY <1>1, <2>4, Unseen DEF hosting
  <2> QED
    BY <1>4, <2>2, <2>3, <2>4 DEF CycleAct, Retag
<1> QED
  BY <1>2, <1>3, <1>4 DEF CycleStep

(* The process forgets, and with it go the requests under way.              *)
LEMMA CrashLeases ==
  ASSUME TypeOK, IInv, Crash
  PROVE  Leasing
<1>1. \A s \in Sessions : (Open(s)' <=> Open(s)) /\ req'[s] = IF InFlight(s) THEN "failed" ELSE req[s]
  BY DEF Crash, rows, Open, TypeOK, SessionsOK
<1>2. \A s \in Sessions : ~(Open(s) /\ InFlight(s))
  BY DEF IInv, RequestInv, Open, InFlight
<1> DEFINE S == {s \in Sessions : InFlight(s)}
<1>3. Stage' = [s \in Sessions |-> IF s \in S THEN "over" ELSE Stage[s]]
  BY <1>1, <1>2 DEF Stage, InFlight
<1>4. \A s \in S : Stage[s] = "asking"
  BY StageMeans
<1>5. Lease!GiveUp(S)
  BY <1>3, <1>4, ViewKept DEF Lease!GiveUp, Crash, hosting
<1> QED
  BY <1>5 DEF Leasing, Lease!Next

(* Every step does what Leases says.                                        *)
LEMMA LeaseStep == ASSUME Calm, TypeOK, IInv, KInv, [Next]_vars PROVE Leasing
<1>1. CASE UnusedStep \/ ReclaimStep \/ BackfillRead \/ BackfillClaim
  BY <1>1, Unseen DEF UnusedStep, ReclaimStep, UnusedReadOpen, UnusedListReserved, UnusedReadClaims,
     UnusedRelease, ReclaimReadOpen, ReclaimReadLive, ReclaimReadClaims, ReclaimNext, BackfillRead,
     BackfillClaim, SweepUnchanged, hosting, rows, requests
<1>2. CASE ReconcileStep
  <2>1. UNCHANGED <<tag, owner, containers, disturbed, req>> /\ (UNCHANGED row \/ \E i : ActivateOn(i))
    BY <1>2 DEF ReconcileStep, ReconcileProbe, ReconcileNext, ProbeUnchanged, hosting, rows, requests
  <2> QED
    BY <2>1, Activates, Unseen
<1>3. CASE UNCHANGED vars
  BY <1>3, Unseen DEF vars, hosting, rows, requests
<1> QED
  BY <1>1, <1>2, <1>3, RequestLeases, HostLeases, AttemptLeases, ReleaseLeases, CycleLeases,
     CrashLeases DEF Next

(* InstanceAllocation implements Leases: a session is given one clean       *)
(* instance and keeps it until it is over, what it runs runs there, and the *)
(* instance goes to the next one empty, whatever requests, releases, sweeps *)
(* and restarts do to tags, claims and rows in between.                     *)
THEOREM LeasesCorrect == ASSUME Calm PROVE Spec => LeasesKept
<1>1. Init => Lease!Init
  BY DEF Init, Lease!Init, Stage, Lessee, Used, Tagged, Open, InFlight
<1>2. TypeOK /\ IInv /\ KInv /\ [Next]_vars => [Lease!Next]_(Lease!vars)
  BY LeaseStep DEF Leasing
<1> QED
  BY <1>1, <1>2, TypeCorrect, IInvCorrect, KInvCorrect, PTL DEF Spec, LeasesKept, Lease!Spec
=============================================================================
