----------------------- MODULE InstanceAllocationProofs -----------------------
(***************************************************************************)
(* While a session is open its instance stays reserved and claimed for it, *)
(* whatever sweep, late release or restart is under way, for every set of  *)
(* sessions and instances, as long as the process is as calm as the code   *)
(* counts on (Calm).  IInv is inductive: the steps of a request, of a      *)
(* release and of the rows each leave the other parts of it alone in a way *)
(* of their own (a Move), and keep their own parts action by action.       *)
(* That no two open sessions have the same instance is proved from weaker  *)
(* assumptions, by an inductive invariant of its own (Exclusion).          *)
(***************************************************************************)
EXTENDS InstanceAllocationTypes

----------------------------------------------------------------------------
(* What each kind of step leaves alone.                                     *)

(* What a step of the request of s leaves alone.                            *)
RequestMove(s) ==
  /\ phase = "up" /\ ~Settled(s) /\ ~Open(s)
  /\ \A t \in Sessions : Settled(t) => Settled(t)'
  /\ \A t \in Sessions : Open(t) => Open(t)' /\ target'[t] = target[t]
  /\ \A t \in Sessions, i \in Instances : Targets(t, i) => Targets(t, i)' \/ Settled(t)'
  /\ \A i \in Instances, t \in Sessions \ {s} : IsReservedFor(i, t) => IsReservedFor(i, t)'
  /\ \A i \in Instances : tag[i] = "terminated" => tag'[i] = "terminated"
  /\ \A i \in Instances : tag[i] # "unlaunched" =>
       /\ tag'[i] # "unlaunched"
       /\ \A t \in Sessions : req'[t] = "launched" /\ target'[t] = i => req[t] = "launched" /\ target[t] = i
  /\ \A i \in Instances : claim[i] = PoolCycle => claim'[i] = PoolCycle /\ tag'[i] = tag[i]
  /\ UNCHANGED <<rel, unused, reclaim, cycle, phase, backfill>>

(* What a close or an activation of a session leaves alone.                 *)
RowMove ==
  /\ \A t \in Sessions : (Open(t)' => Open(t)) /\ (row'[t] # "none" <=> row[t] # "none")
  /\ \A i \in Instances, t \in Sessions : rel'[i][t] # rel[i][t] =>
       rel[i][t] = "none" /\ rel'[i][t] = "start" /\ row[t] # "none" /\ ~Open(t)'
  /\ \A i \in Instances : rel'[i][PoolCycle] = rel[i][PoolCycle]
  /\ UNCHANGED <<tag, owner, claim, rowInstance, req, candidates, target, unused, reclaim, cycle, phase, backfill>>

(* What a step of the release of i from the session s leaves alone.         *)
ReleaseMove(i, s) ==
  /\ rel[i][s] # "none" /\ Settled(s)
  /\ \A j \in Instances, h \in Holders : rel'[j][h] = rel[j][h] \/ (j = i /\ h = s)
  /\ \A j \in Instances : claim[j] # s => claim'[j] = claim[j]
  /\ \A j \in Instances : claim[j] = s => claim'[j] \in {s, NoSession}
  /\ \A j \in Instances, t \in Sessions : IsReservedFor(j, t)' => IsReservedFor(j, t)
  /\ \A j \in Instances, t \in Sessions : t # s /\ IsReservedFor(j, t) => IsReservedFor(j, t)'
  /\ \A j \in Instances : tag'[j] = "unlaunched" <=> tag[j] = "unlaunched"
  /\ \A j \in Instances : tag'[j] = "reserved" => tag[j] = "reserved"
  /\ UNCHANGED <<row, rowInstance, req, candidates, target, unused, reclaim, cycle, phase, backfill>>

(* A pool cycle's claim is released only when the sweep has found it stale. *)
PoolMove(i) ==
  /\ rel[i][PoolCycle] # "none"
  /\ claim' = [claim EXCEPT ![i] = NoSession] /\ rel' = [rel EXCEPT ![i][PoolCycle] = "none"]
  /\ UNCHANGED <<tag, owner, row, rowInstance, req, candidates, target, unused, reclaim, cycle,
                 phase, backfill>>

(* The records IInv is about, but for the owner of an unreserved instance.  *)
SameView ==
  /\ \A i \in Instances : tag[i] = "reserved" => owner'[i] = owner[i]
  /\ UNCHANGED <<tag, claim, row, rowInstance, req, candidates, target, rel, unused, reclaim,
                 cycle, phase, backfill>>

(* A request leaves the releases, the sweeps and the boot in order.           *)
LEMMA RequestMoveKeeps ==
  ASSUME TypeOK, TypeOK', IInv, NEW s \in Sessions, RequestMove(s)
  PROVE  ReleaseInv' /\ UnusedInv' /\ ReclaimInv' /\ CycleInv' /\ BootInv'
<1>1. ReleaseInv'
  BY ConstantsAssumption DEF RequestMove, TypeOK, HostingOK, SessionsOK, HandlersOK, SweepsOK,
     IInv, ReleaseInv
<1>2. UnusedInv'
  BY ConstantsAssumption DEF RequestMove, TypeOK, HostingOK, SessionsOK, HandlersOK, SweepsOK,
     IInv, UnusedInv
<1>3. ReclaimInv'
  BY ConstantsAssumption DEF RequestMove, TypeOK, HostingOK, SessionsOK, HandlersOK, SweepsOK,
     IInv, ReclaimInv
<1>4. CycleInv'
  BY ConstantsAssumption DEF RequestMove, TypeOK, HostingOK, SessionsOK, HandlersOK, SweepsOK,
     IInv, CycleInv, Unlaunched
<1>5. BootInv'
  BY ConstantsAssumption DEF RequestMove, TypeOK, HostingOK, SessionsOK, HandlersOK, SweepsOK,
     IInv, BootInv
<1> QED BY <1>1, <1>2, <1>3, <1>4, <1>5

(* A close or an activation keeps the invariant.                              *)
LEMMA RowMoveKeeps ==
  ASSUME TypeOK, TypeOK', IInv, RowMove
  PROVE  IInv'
<1>1. RequestInv'
  BY ConstantsAssumption DEF RowMove, TypeOK, HostingOK, SessionsOK, IInv, RequestInv, OwnerInv,
     Settled, Targets, Holding, Electing, Open, IsReservedFor, Unlaunched
<1>2. OwnerInv'
  BY ConstantsAssumption DEF RowMove, TypeOK, HostingOK, SessionsOK, IInv, RequestInv, OwnerInv,
     Settled, Targets, Holding, Electing, Open, IsReservedFor
<1>3. ReleaseInv'
  BY ConstantsAssumption DEF RowMove, TypeOK, HostingOK, SessionsOK, HandlersOK, IInv,
     ReleaseInv, RequestInv, OwnerInv, Settled, Targets, Holding, Electing, Open, IsReservedFor
<1>4. UnusedInv'
  BY ConstantsAssumption DEF RowMove, TypeOK, HostingOK, SessionsOK, SweepsOK, IInv, UnusedInv,
     RequestInv, Settled, Targets, Holding, Electing, Open, IsReservedFor
<1>5. ReclaimInv'
  BY ConstantsAssumption DEF RowMove, TypeOK, HostingOK, SessionsOK, HandlersOK, SweepsOK, IInv,
     RequestInv, OwnerInv, ReclaimInv, ReleaseInv, Settled, Targets, Holding, Electing, Open,
     IsReservedFor
<1>6. CycleInv'
  BY ConstantsAssumption DEF RowMove, TypeOK, HostingOK, SessionsOK, SweepsOK, IInv, CycleInv,
     ReleaseInv, Settled, Targets, Holding, Electing, Open, IsReservedFor, Unlaunched
<1>7. BootInv'
  BY ConstantsAssumption DEF RowMove, TypeOK, HostingOK, SessionsOK, ProcessOK, IInv, BootInv,
     InFlight, RequestInv, Settled, Targets, Holding, Electing, Open, IsReservedFor
<1> QED BY <1>1, <1>2, <1>3, <1>4, <1>5, <1>6, <1>7 DEF IInv

(* A release leaves all but the releases in order.                            *)
LEMMA ReleaseMoveKeeps ==
  ASSUME TypeOK, TypeOK', IInv, NEW i \in Instances, NEW s \in Sessions, ReleaseMove(i, s)
  PROVE  RequestInv' /\ OwnerInv' /\ UnusedInv' /\ ReclaimInv' /\ CycleInv' /\ BootInv'
<1>1. RequestInv'
  BY ConstantsAssumption DEF ReleaseMove, TypeOK, HostingOK, SessionsOK, IInv, RequestInv,
     OwnerInv, Settled, Targets, Holding, Electing, Open, IsReservedFor, Unlaunched
<1>2. OwnerInv'
  BY ConstantsAssumption DEF ReleaseMove, TypeOK, HostingOK, SessionsOK, IInv, RequestInv,
     OwnerInv, Settled, Targets, Holding, Electing, Open, IsReservedFor
<1>3. UnusedInv'
  BY ConstantsAssumption DEF ReleaseMove, TypeOK, HostingOK, SessionsOK, SweepsOK, IInv,
     UnusedInv, RequestInv, Settled, Targets, Holding, Electing, Open, IsReservedFor
<1>4. ReclaimInv'
  BY ConstantsAssumption DEF ReleaseMove, TypeOK, HostingOK, SessionsOK, HandlersOK, SweepsOK,
     IInv, RequestInv, OwnerInv, ReclaimInv, ReleaseInv, Settled, Targets, Holding, Electing,
     Open, IsReservedFor
<1>5. CycleInv'
  BY ConstantsAssumption DEF ReleaseMove, TypeOK, HostingOK, SessionsOK, SweepsOK, IInv,
     CycleInv, ReleaseInv, Settled, Targets, Holding, Electing, Open, IsReservedFor, Unlaunched
<1>6. BootInv'
  BY ConstantsAssumption DEF ReleaseMove, TypeOK, HostingOK, SessionsOK, ProcessOK, IInv,
     BootInv, InFlight, RequestInv, Settled, Targets, Holding, Electing, Open, IsReservedFor
<1> QED BY <1>1, <1>2, <1>3, <1>4, <1>5, <1>6

(* Dropping the stale claim of a pool cycle keeps the invariant.              *)
LEMMA PoolMoveKeeps ==
  ASSUME TypeOK, TypeOK', IInv, NEW i \in Instances, PoolMove(i)
  PROVE  IInv'
<1>0. claim[i] = PoolCycle /\ \A j \in Instances : claim'[j] = claim[j] \/ claim[j] = PoolCycle
  BY ConstantsAssumption DEF PoolMove, TypeOK, HostingOK, SessionsOK, HandlersOK, IInv,
     ReleaseInv
<1>1. RequestInv'
  BY ConstantsAssumption, <1>0 DEF PoolMove, TypeOK, HostingOK, SessionsOK, IInv, RequestInv,
     Open, Holding, Electing, IsReservedFor, Unlaunched
<1>2. OwnerInv'
  BY ConstantsAssumption DEF PoolMove, TypeOK, HostingOK, SessionsOK, IInv, RequestInv, OwnerInv,
     Settled, Targets, Holding, Electing, Open, IsReservedFor
<1>3. ReleaseInv'
  BY ConstantsAssumption DEF PoolMove, TypeOK, HostingOK, SessionsOK, HandlersOK, IInv,
     ReleaseInv, RequestInv, OwnerInv, Settled, Targets, Holding, Electing, Open, IsReservedFor
<1>4. UnusedInv'
  BY ConstantsAssumption DEF PoolMove, TypeOK, HostingOK, SessionsOK, SweepsOK, IInv, UnusedInv,
     RequestInv, Settled, Targets, Holding, Electing, Open, IsReservedFor
<1>5. ReclaimInv'
  BY ConstantsAssumption DEF PoolMove, TypeOK, HostingOK, SessionsOK, HandlersOK, SweepsOK, IInv,
     RequestInv, OwnerInv, ReclaimInv, ReleaseInv, Settled, Targets, Holding, Electing, Open,
     IsReservedFor
<1>6. CycleInv'
  BY ConstantsAssumption DEF PoolMove, TypeOK, HostingOK, SessionsOK, SweepsOK, IInv, CycleInv,
     ReleaseInv, Settled, Targets, Holding, Electing, Open, IsReservedFor, Unlaunched
<1>7. BootInv'
  BY ConstantsAssumption DEF PoolMove, TypeOK, HostingOK, SessionsOK, ProcessOK, IInv, BootInv,
     InFlight, RequestInv, Settled, Targets, Holding, Electing, Open, IsReservedFor
<1> QED BY <1>1, <1>2, <1>3, <1>4, <1>5, <1>6, <1>7 DEF IInv

(* So does a step that touches none of the records.                           *)
LEMMA SameViewKeeps ==
  ASSUME TypeOK, TypeOK', IInv, SameView
  PROVE  IInv'
<1>1. RequestInv'
  BY ConstantsAssumption DEF SameView, TypeOK, HostingOK, SessionsOK, IInv, RequestInv, OwnerInv,
     Settled, Targets, Holding, Electing, Open, IsReservedFor, Unlaunched
<1>2. OwnerInv'
  BY ConstantsAssumption DEF SameView, TypeOK, HostingOK, SessionsOK, IInv, RequestInv, OwnerInv,
     Settled, Targets, Holding, Electing, Open, IsReservedFor
<1>3. ReleaseInv'
  BY ConstantsAssumption DEF SameView, TypeOK, HostingOK, SessionsOK, HandlersOK, IInv,
     ReleaseInv, RequestInv, OwnerInv, Settled, Targets, Holding, Electing, Open, IsReservedFor
<1>4. UnusedInv'
  BY ConstantsAssumption DEF SameView, TypeOK, HostingOK, SessionsOK, SweepsOK, IInv, UnusedInv,
     RequestInv, Settled, Targets, Holding, Electing, Open, IsReservedFor
<1>5. ReclaimInv'
  BY ConstantsAssumption DEF SameView, TypeOK, HostingOK, SessionsOK, HandlersOK, SweepsOK, IInv,
     RequestInv, OwnerInv, ReclaimInv, ReleaseInv, Settled, Targets, Holding, Electing, Open,
     IsReservedFor
<1>6. CycleInv'
  BY ConstantsAssumption DEF SameView, TypeOK, HostingOK, SessionsOK, SweepsOK, IInv, CycleInv,
     ReleaseInv, Settled, Targets, Holding, Electing, Open, IsReservedFor, Unlaunched
<1>7. BootInv'
  BY ConstantsAssumption DEF SameView, TypeOK, HostingOK, SessionsOK, ProcessOK, IInv, BootInv,
     InFlight, RequestInv, Settled, Targets, Holding, Electing, Open, IsReservedFor
<1> QED BY <1>1, <1>2, <1>3, <1>4, <1>5, <1>6, <1>7 DEF IInv

----------------------------------------------------------------------------
(* The steps of a request.                                                  *)

(* requestSession starts with the idle instances as candidates.               *)
LEMMA RequestSessionKeeps ==
  ASSUME Calm, TypeOK, TypeOK', IInv, NEW s \in Sessions, RequestSession(s)
  PROVE  IInv'
<1>1. /\ req[s] = "none" /\ phase = "up"
      /\ req' = [req EXCEPT ![s] = "claiming"]
      /\ candidates' = [candidates EXCEPT ![s] = Tagged("idle")]
      /\ UNCHANGED <<tag, owner, claim, row, rowInstance, target, rel, unused, reclaim, cycle, phase, backfill>>
  BY DEF Calm, TypeOK, HostingOK, SessionsOK, RequestSession, Tagged, hosting, rows,
     provisioning, sweeps, boot
<1>2. RequestMove(s)
  BY ConstantsAssumption, <1>1 DEF RequestMove, TypeOK, HostingOK, SessionsOK, IInv, RequestInv,
     OwnerInv, BootInv, InFlight, Settled, Targets, Holding, Electing, Open, IsReservedFor
<1>3. RequestInv'
  BY ConstantsAssumption, <1>1 DEF TypeOK, HostingOK, SessionsOK, IInv, RequestInv, OwnerInv,
     Settled, Targets, Holding, Electing, Open, IsReservedFor, Unlaunched, Tagged
<1>4. OwnerInv'
  BY ConstantsAssumption, <1>1 DEF TypeOK, HostingOK, SessionsOK, IInv, RequestInv, OwnerInv,
     Settled, Targets, Holding, Electing, Open, IsReservedFor, Unlaunched
<1> QED BY <1>2, <1>3, <1>4, RequestMoveKeeps DEF IInv

(* A candidate's claim is won or lost.                                      *)
LEMMA ClaimIdleKeeps ==
  ASSUME Calm, TypeOK, TypeOK', IInv, NEW s \in Sessions, ClaimIdle(s)
  PROVE  IInv'
<1>1. /\ req[s] = "claiming"
      /\ \/ \E i \in candidates[s] :
              /\ tag[i] # "reserved" /\ claim[i] = NoSession /\ claim' = [claim EXCEPT ![i] = s]
              /\ req' = [req EXCEPT ![s] = "claimed"] /\ target' = [target EXCEPT ![s] = i]
              /\ candidates' = [candidates EXCEPT ![s] = {}]
         \/ \E i \in candidates[s] : candidates' = [candidates EXCEPT ![s] = @ \ {i}]
              /\ UNCHANGED <<claim, req, target>>
      /\ UNCHANGED <<tag, owner, row, rowInstance, rel, unused, reclaim, cycle, phase, backfill>>
  BY DEF Calm, TypeOK, HostingOK, SessionsOK, ClaimIdle, TryCandidate, StillInPool, Claim,
     hosting, rows, provisioning, sweeps, boot
<1>2. ASSUME NEW i \in candidates[s], tag[i] # "reserved", claim[i] = NoSession,
             claim' = [claim EXCEPT ![i] = s], req' = [req EXCEPT ![s] = "claimed"],
             target' = [target EXCEPT ![s] = i], candidates' = [candidates EXCEPT ![s] = {}]
      PROVE  RequestMove(s)
  BY ConstantsAssumption, <1>1, <1>2 DEF RequestMove, TypeOK, HostingOK, SessionsOK, IInv,
     RequestInv, OwnerInv, BootInv, InFlight, Settled, Targets, Holding, Electing, Open,
     IsReservedFor
<1>3. ASSUME UNCHANGED <<claim, req, target>> PROVE RequestMove(s)
  BY <1>1, <1>3 DEF RequestMove, TypeOK, HostingOK, SessionsOK, IInv, RequestInv, OwnerInv,
     BootInv, InFlight, Settled, Targets, Holding, Electing, Open, IsReservedFor
<1>4. RequestInv'
  BY ConstantsAssumption, <1>1 DEF TypeOK, HostingOK, SessionsOK, IInv, RequestInv, OwnerInv,
     Settled, Targets, Holding, Electing, Open, IsReservedFor, Unlaunched
<1>5. OwnerInv'
  BY ConstantsAssumption, <1>1 DEF TypeOK, HostingOK, SessionsOK, IInv, RequestInv, OwnerInv,
     Settled, Targets, Holding, Electing, Open, IsReservedFor, Unlaunched
<1> QED BY <1>1, <1>2, <1>3, <1>4, <1>5, RequestMoveKeeps DEF IInv

(* The pooled instances are the next candidates.                              *)
LEMMA ListPooledKeeps ==
  ASSUME Calm, TypeOK, TypeOK', IInv, NEW s \in Sessions, ListPooled(s)
  PROVE  IInv'
<1>1. /\ req[s] = "claiming"
      /\ req' = [req EXCEPT ![s] = "pooling"]
      /\ candidates' = [candidates EXCEPT ![s] = {i \in Tagged("pooled") : ~host[i]}]
      /\ UNCHANGED <<tag, owner, claim, row, rowInstance, target, rel, unused, reclaim, cycle, phase, backfill>>
  BY DEF Calm, TypeOK, HostingOK, SessionsOK, ListPooled, Tagged, hosting, rows, provisioning,
     sweeps, boot
<1>2. RequestMove(s)
  BY ConstantsAssumption, <1>1 DEF RequestMove, TypeOK, HostingOK, SessionsOK, IInv, RequestInv,
     OwnerInv, BootInv, InFlight, Settled, Targets, Holding, Electing, Open, IsReservedFor,
     Holders
<1>3. RequestInv'
  BY ConstantsAssumption, <1>1 DEF TypeOK, HostingOK, SessionsOK, IInv, RequestInv, OwnerInv,
     Settled, Targets, Holding, Electing, Open, IsReservedFor, Unlaunched, Tagged
<1>4. OwnerInv'
  BY ConstantsAssumption, <1>1 DEF TypeOK, HostingOK, SessionsOK, IInv, RequestInv, OwnerInv,
     Settled, Targets, Holding, Electing, Open, IsReservedFor, Unlaunched
<1> QED BY <1>2, <1>3, <1>4, RequestMoveKeeps DEF IInv

(* Reserving keeps the invariant: the claim is the session's.                 *)
LEMMA ReserveKeeps ==
  ASSUME Calm, TypeOK, TypeOK', IInv, NEW s \in Sessions, Reserve(s)
  PROVE  IInv'
<1>1. /\ req[s] = "claimed"
      /\ \/ /\ tag[target[s]] # "terminated" /\ tag' = [tag EXCEPT ![target[s]] = "reserved"]
            /\ owner' = [owner EXCEPT ![target[s]] = s] /\ req' = [req EXCEPT ![s] = "awaiting"]
         \/ /\ tag' = [tag EXCEPT ![target[s]] = "terminated"] /\ owner' = [owner EXCEPT ![target[s]] = NoSession]
            /\ req' = [req EXCEPT ![s] = "undoing"]
      /\ UNCHANGED <<claim, row, rowInstance, candidates, target, rel, unused, reclaim, cycle, phase, backfill>>
  BY DEF Calm, TypeOK, HostingOK, SessionsOK, Reserve, Retag, Succeeds, Fails, Terminated, rows,
     provisioning, sweeps, boot
<1>2. RequestMove(s)
  BY ConstantsAssumption, <1>1 DEF RequestMove, TypeOK, HostingOK, SessionsOK, IInv, RequestInv,
     OwnerInv, BootInv, InFlight, Settled, Targets, Holding, Electing, Open, IsReservedFor
<1>3. RequestInv'
  BY ConstantsAssumption, <1>1 DEF TypeOK, HostingOK, SessionsOK, IInv, RequestInv, OwnerInv,
     Settled, Targets, Holding, Electing, Open, IsReservedFor, Unlaunched
<1>4. OwnerInv'
  BY ConstantsAssumption, <1>1 DEF TypeOK, HostingOK, SessionsOK, IInv, RequestInv, OwnerInv,
     Settled, Targets, Holding, Electing, Open, IsReservedFor, Unlaunched
<1> QED BY <1>2, <1>3, <1>4, RequestMoveKeeps DEF IInv

(* Waiting for the host ends in an allocation or is undone.                 *)
LEMMA AwaitHostKeeps ==
  ASSUME Calm, TypeOK, TypeOK', IInv, NEW s \in Sessions, AwaitHost(s)
  PROVE  IInv'
<1>1. /\ req[s] = "awaiting"
      /\ req' = [req EXCEPT ![s] = "allocated"] \/ req' = [req EXCEPT ![s] = "undoing"]
      /\ UNCHANGED <<tag, owner, claim, row, rowInstance, candidates, target, rel, unused, reclaim, cycle, phase, backfill>>
  BY DEF Calm, TypeOK, HostingOK, SessionsOK, AwaitHost, Succeeds, RunProvision, HostNeverComes,
     provisioning, hosting, rows, sweeps, boot
<1>2. CASE req' = [req EXCEPT ![s] = "allocated"]
  <2>1. RequestMove(s)
    BY ConstantsAssumption, <1>1, <1>2 DEF RequestMove, TypeOK, HostingOK, SessionsOK, IInv,
       RequestInv, BootInv, InFlight, Settled, Targets, Holding, Electing, Open, IsReservedFor
  <2>2. RequestInv'
    BY ConstantsAssumption, <1>1, <1>2 DEF TypeOK, HostingOK, SessionsOK, IInv, RequestInv,
       OwnerInv, Settled, Targets, Holding, Electing, Open, IsReservedFor, Unlaunched
  <2>3. OwnerInv'
    BY ConstantsAssumption, <1>1, <1>2 DEF TypeOK, HostingOK, SessionsOK, IInv, RequestInv,
       OwnerInv, Settled, Targets, Holding, Electing, Open, IsReservedFor
  <2> QED BY <2>1, <2>2, <2>3, RequestMoveKeeps DEF IInv
<1>3. CASE req' = [req EXCEPT ![s] = "undoing"]
  <2>1. RequestMove(s)
    BY ConstantsAssumption, <1>1, <1>3 DEF RequestMove, TypeOK, HostingOK, SessionsOK, IInv,
       RequestInv, BootInv, InFlight, Settled, Targets, Holding, Electing, Open, IsReservedFor
  <2>2. RequestInv'
    BY ConstantsAssumption, <1>1, <1>3 DEF TypeOK, HostingOK, SessionsOK, IInv, RequestInv,
       OwnerInv, Settled, Targets, Holding, Electing, Open, IsReservedFor, Unlaunched
  <2>3. OwnerInv'
    BY ConstantsAssumption, <1>1, <1>3 DEF TypeOK, HostingOK, SessionsOK, IInv, RequestInv,
       OwnerInv, Settled, Targets, Holding, Electing, Open, IsReservedFor
  <2> QED BY <2>1, <2>2, <2>3, RequestMoveKeeps DEF IInv
<1> QED BY <1>1, <1>2, <1>3

(* The claim is undone, the reservation is left to a sweep.                   *)
LEMMA UndoClaimKeeps ==
  ASSUME Calm, TypeOK, TypeOK', IInv, NEW s \in Sessions, UndoClaim(s)
  PROVE  IInv'
<1>1. /\ req[s] \in {"undoing", "undoingStart"}
      /\ claim' = [claim EXCEPT ![target[s]] = IF @ = s THEN NoSession ELSE @]
      /\ req' = [req EXCEPT ![s] = IF @ = "undoing" THEN "failed" ELSE "launching"]
      /\ UNCHANGED <<tag, owner, row, rowInstance, candidates, target, rel, unused, reclaim, cycle, phase, backfill>>
  BY DEF Calm, TypeOK, HostingOK, SessionsOK, UndoClaim, DropClaim, hosting, rows, provisioning,
     sweeps, boot
<1>2. RequestMove(s)
  BY ConstantsAssumption, <1>1 DEF RequestMove, TypeOK, HostingOK, SessionsOK, IInv, RequestInv,
     OwnerInv, BootInv, InFlight, Settled, Targets, Holding, Electing, Open, IsReservedFor
<1>3. RequestInv'
  BY ConstantsAssumption, <1>1 DEF TypeOK, HostingOK, SessionsOK, IInv, RequestInv, OwnerInv,
     Settled, Targets, Holding, Electing, Open, IsReservedFor, Unlaunched
<1>4. OwnerInv'
  BY ConstantsAssumption, <1>1 DEF TypeOK, HostingOK, SessionsOK, IInv, RequestInv, OwnerInv,
     Settled, Targets, Holding, Electing, Open, IsReservedFor, Unlaunched
<1> QED BY <1>2, <1>3, <1>4, RequestMoveKeeps DEF IInv

(* The same for a pooled instance.                                          *)
LEMMA ClaimPooledKeeps ==
  ASSUME Calm, TypeOK, TypeOK', IInv, NEW s \in Sessions, ClaimPooled(s)
  PROVE  IInv'
<1>1. /\ req[s] = "pooling"
      /\ \/ \E i \in candidates[s] :
              /\ tag[i] # "reserved" /\ claim[i] = NoSession /\ claim' = [claim EXCEPT ![i] = s]
              /\ req' = [req EXCEPT ![s] = "startingPooled"] /\ target' = [target EXCEPT ![s] = i]
              /\ candidates' = [candidates EXCEPT ![s] = {}]
         \/ \E i \in candidates[s] : candidates' = [candidates EXCEPT ![s] = @ \ {i}]
              /\ UNCHANGED <<claim, req, target>>
      /\ UNCHANGED <<tag, owner, row, rowInstance, rel, unused, reclaim, cycle, phase, backfill>>
  BY DEF Calm, TypeOK, HostingOK, SessionsOK, ClaimPooled, TryCandidate, StillInPool, Claim,
     hosting, rows, provisioning, sweeps, boot
<1>2. ASSUME NEW i \in candidates[s], tag[i] # "reserved", claim[i] = NoSession,
             claim' = [claim EXCEPT ![i] = s], req' = [req EXCEPT ![s] = "startingPooled"],
             target' = [target EXCEPT ![s] = i], candidates' = [candidates EXCEPT ![s] = {}]
      PROVE  RequestMove(s)
  BY SMTT(20), ConstantsAssumption, <1>1, <1>2 DEF RequestMove, TypeOK, HostingOK, SessionsOK, IInv,
     RequestInv, OwnerInv, BootInv, InFlight, Settled, Targets, Holding, Electing, Open,
     IsReservedFor
<1>3. ASSUME UNCHANGED <<claim, req, target>> PROVE RequestMove(s)
  BY <1>1, <1>3 DEF RequestMove, TypeOK, HostingOK, SessionsOK, IInv, RequestInv, OwnerInv,
     BootInv, InFlight, Settled, Targets, Holding, Electing, Open, IsReservedFor
<1>4. RequestInv'
  BY ConstantsAssumption, <1>1 DEF TypeOK, HostingOK, SessionsOK, IInv, RequestInv, OwnerInv,
     Settled, Targets, Holding, Electing, Open, IsReservedFor, Unlaunched
<1>5. OwnerInv'
  BY ConstantsAssumption, <1>1 DEF TypeOK, HostingOK, SessionsOK, IInv, RequestInv, OwnerInv,
     Settled, Targets, Holding, Electing, Open, IsReservedFor, Unlaunched
<1> QED BY <1>1, <1>2, <1>3, <1>4, <1>5, RequestMoveKeeps DEF IInv

(* Starting a pooled instance.                                                *)
LEMMA StartPooledKeeps ==
  ASSUME Calm, TypeOK, TypeOK', IInv, NEW s \in Sessions, StartPooled(s)
  PROVE  IInv'
<1>1. /\ req[s] = "startingPooled"
      /\ \/ /\ tag[target[s]] # "terminated" /\ tag' = [tag EXCEPT ![target[s]] = "reserved"]
            /\ owner' = [owner EXCEPT ![target[s]] = s] /\ req' = [req EXCEPT ![s] = "awaiting"]
         \/ /\ tag' = [tag EXCEPT ![target[s]] = "terminated"] /\ owner' = [owner EXCEPT ![target[s]] = NoSession]
            /\ req' = [req EXCEPT ![s] = "undoingStart"]
         \/ req' = [req EXCEPT ![s] = "undoingStart"] /\ UNCHANGED <<tag, owner>>
      /\ UNCHANGED <<claim, row, rowInstance, candidates, target, rel, unused, reclaim, cycle, phase, backfill>>
  BY DEF Calm, TypeOK, HostingOK, SessionsOK, StartPooled, Retag, Succeeds, Fails, Terminated,
     hosting, rows, provisioning, sweeps, boot
<1>2. RequestMove(s)
  BY ConstantsAssumption, <1>1 DEF RequestMove, TypeOK, HostingOK, SessionsOK, IInv, RequestInv,
     OwnerInv, BootInv, InFlight, Settled, Targets, Holding, Electing, Open, IsReservedFor
<1>3. RequestInv'
  BY ConstantsAssumption, <1>1 DEF TypeOK, HostingOK, SessionsOK, IInv, RequestInv, OwnerInv,
     Settled, Targets, Holding, Electing, Open, IsReservedFor, Unlaunched
<1>4. OwnerInv'
  BY ConstantsAssumption, <1>1 DEF TypeOK, HostingOK, SessionsOK, IInv, RequestInv, OwnerInv,
     Settled, Targets, Holding, Electing, Open, IsReservedFor, Unlaunched
<1> QED BY <1>2, <1>3, <1>4, RequestMoveKeeps DEF IInv

(* A launched instance is tagged before it is claimed.                        *)
LEMMA LaunchReservedKeeps ==
  ASSUME Calm, TypeOK, TypeOK', IInv, NEW s \in Sessions, LaunchReserved(s)
  PROVE  IInv'
<1>1. /\ req[s] \in {"launching", "pooling"}
      /\ \/ \E i \in Unlaunched :
              /\ tag' = [tag EXCEPT ![i] = "reserved"] /\ owner' = [owner EXCEPT ![i] = s]
              /\ target' = [target EXCEPT ![s] = i] /\ req' = [req EXCEPT ![s] = "launched"]
         \/ \E i \in Unlaunched :
              /\ tag' = [tag EXCEPT ![i] = "terminated"] /\ owner' = [owner EXCEPT ![i] = NoSession]
              /\ req' = [req EXCEPT ![s] = "failed"] /\ UNCHANGED target
         \/ req' = [req EXCEPT ![s] = "failed"] /\ UNCHANGED <<tag, owner, target>>
      /\ UNCHANGED <<claim, row, rowInstance, candidates, rel, unused, reclaim, cycle, phase, backfill>>
  BY DEF Calm, TypeOK, HostingOK, SessionsOK, LaunchReserved, Unlaunched, Succeeds, Fails,
     Terminated, hosting, rows, provisioning, sweeps, boot
<1>2. RequestMove(s)
  BY ConstantsAssumption, <1>1 DEF RequestMove, TypeOK, HostingOK, SessionsOK, IInv, RequestInv,
     OwnerInv, BootInv, InFlight, Settled, Targets, Holding, Electing, Open, IsReservedFor,
     Unlaunched
<1>3. RequestInv'
  BY ConstantsAssumption, <1>1 DEF TypeOK, HostingOK, SessionsOK, IInv, RequestInv, OwnerInv,
     Settled, Targets, Holding, Electing, Open, IsReservedFor, Unlaunched
<1>4. OwnerInv'
  BY SMTT(20), ConstantsAssumption, <1>1 DEF TypeOK, HostingOK, SessionsOK, IInv, RequestInv, OwnerInv,
     Settled, Targets, Holding, Electing, Open, IsReservedFor, Unlaunched
<1> QED BY <1>2, <1>3, <1>4, RequestMoveKeeps DEF IInv

(* Nobody else can have claimed it in between.                                *)
LEMMA ClaimLaunchedKeeps ==
  ASSUME Calm, TypeOK, TypeOK', IInv, NEW s \in Sessions, ClaimLaunched(s)
  PROVE  IInv'
<1>1. /\ req[s] = "launched"
      /\ \/ claim[target[s]] = NoSession /\ claim' = [claim EXCEPT ![target[s]] = s]
         \/ claim[target[s]] # NoSession /\ UNCHANGED claim
      /\ req' = [req EXCEPT ![s] = "awaitingLaunch"]
      /\ UNCHANGED <<tag, owner, row, rowInstance, candidates, target, rel, unused, reclaim, cycle, phase, backfill>>
  BY DEF Calm, TypeOK, HostingOK, SessionsOK, ClaimLaunched, Claim, Succeeds, Fails, hosting,
     rows, provisioning, sweeps, boot
<1>2. RequestMove(s)
  BY ConstantsAssumption, <1>1 DEF RequestMove, TypeOK, HostingOK, SessionsOK, IInv, RequestInv,
     OwnerInv, BootInv, InFlight, Settled, Targets, Holding, Electing, Open, IsReservedFor
<1>3. RequestInv'
  BY ConstantsAssumption, <1>1 DEF TypeOK, HostingOK, SessionsOK, IInv, RequestInv, OwnerInv,
     Settled, Targets, Holding, Electing, Open, IsReservedFor, Unlaunched
<1>4. OwnerInv'
  BY ConstantsAssumption, <1>1 DEF TypeOK, HostingOK, SessionsOK, IInv, RequestInv, OwnerInv,
     Settled, Targets, Holding, Electing, Open, IsReservedFor, Unlaunched
<1> QED BY <1>2, <1>3, <1>4, RequestMoveKeeps DEF IInv

(* Waiting for the launched instance.                                       *)
LEMMA AwaitLaunchedKeeps ==
  ASSUME Calm, TypeOK, TypeOK', IInv, NEW s \in Sessions, AwaitLaunched(s)
  PROVE  IInv'
<1>1. /\ req[s] = "awaitingLaunch"
      /\ req' = [req EXCEPT ![s] = "launchedUp"] \/ req' = [req EXCEPT ![s] = "failed"]
      /\ UNCHANGED <<tag, owner, claim, row, rowInstance, candidates, target, rel, unused, reclaim, cycle, phase, backfill>>
  BY DEF Calm, TypeOK, HostingOK, SessionsOK, AwaitLaunched, Succeeds, HostNeverComes, hosting,
     rows, provisioning, sweeps, boot
<1>2. CASE req' = [req EXCEPT ![s] = "launchedUp"]
  <2>1. RequestMove(s)
    BY ConstantsAssumption, <1>1, <1>2 DEF RequestMove, TypeOK, HostingOK, SessionsOK, IInv,
       RequestInv, BootInv, InFlight, Settled, Targets, Holding, Electing, Open, IsReservedFor
  <2>2. RequestInv'
    BY ConstantsAssumption, <1>1, <1>2 DEF TypeOK, HostingOK, SessionsOK, IInv, RequestInv,
       OwnerInv, Settled, Targets, Holding, Electing, Open, IsReservedFor, Unlaunched
  <2>3. OwnerInv'
    BY ConstantsAssumption, <1>1, <1>2 DEF TypeOK, HostingOK, SessionsOK, IInv, RequestInv,
       OwnerInv, Settled, Targets, Holding, Electing, Open, IsReservedFor
  <2> QED BY <2>1, <2>2, <2>3, RequestMoveKeeps DEF IInv
<1>3. CASE req' = [req EXCEPT ![s] = "failed"]
  <2>1. RequestMove(s)
    BY ConstantsAssumption, <1>1, <1>3 DEF RequestMove, TypeOK, HostingOK, SessionsOK, IInv,
       RequestInv, BootInv, InFlight, Settled, Targets, Holding, Electing, Open, IsReservedFor
  <2>2. RequestInv'
    BY ConstantsAssumption, <1>1, <1>3 DEF TypeOK, HostingOK, SessionsOK, IInv, RequestInv,
       OwnerInv, Settled, Targets, Holding, Electing, Open, IsReservedFor, Unlaunched
  <2>3. OwnerInv'
    BY ConstantsAssumption, <1>1, <1>3 DEF TypeOK, HostingOK, SessionsOK, IInv, RequestInv,
       OwnerInv, Settled, Targets, Holding, Electing, Open, IsReservedFor
  <2> QED BY <2>1, <2>2, <2>3, RequestMoveKeeps DEF IInv
<1> QED BY <1>1, <1>2, <1>3

(* The row takes over what the request held.                                  *)
LEMMA InsertRowKeeps ==
  ASSUME Calm, TypeOK, TypeOK', IInv, NEW s \in Sessions, InsertRow(s)
  PROVE  IInv'
<1>1. /\ req[s] \in {"allocated", "launchedUp"}
      /\ \/ /\ req' = [req EXCEPT ![s] = "done"] /\ row' = [row EXCEPT ![s] = "PENDING"]
            /\ rowInstance' = [rowInstance EXCEPT ![s] = target[s]]
         \/ req' = [req EXCEPT ![s] = "failed"] /\ UNCHANGED <<row, rowInstance>>
      /\ UNCHANGED <<tag, owner, claim, candidates, target, rel, unused, reclaim, cycle, phase, backfill>>
  BY DEF Calm, TypeOK, HostingOK, SessionsOK, InsertRow, Succeeds, Fails, rows, hosting,
     provisioning, sweeps, boot
<1>2. RequestMove(s)
  BY ConstantsAssumption, <1>1 DEF RequestMove, TypeOK, HostingOK, SessionsOK, IInv, RequestInv,
     OwnerInv, BootInv, InFlight, Settled, Targets, Holding, Electing, Open, IsReservedFor
<1>3. RequestInv'
  BY ConstantsAssumption, <1>1 DEF TypeOK, HostingOK, SessionsOK, IInv, RequestInv, OwnerInv,
     Settled, Targets, Holding, Electing, Open, IsReservedFor, Unlaunched
<1>4. OwnerInv'
  BY ConstantsAssumption, <1>1 DEF TypeOK, HostingOK, SessionsOK, IInv, RequestInv, OwnerInv,
     Settled, Targets, Holding, Electing, Open, IsReservedFor, Unlaunched
<1> QED BY <1>2, <1>3, <1>4, RequestMoveKeeps DEF IInv

----------------------------------------------------------------------------
(* The steps that close or activate a session.                              *)

(* Closing starts the release.                                                *)
LEMMA CloseSessionKeeps ==
  ASSUME TypeOK, TypeOK', IInv, NEW s \in Sessions, CloseSession(s)
  PROVE  IInv'
<1>1. RowMove
  BY ConstantsAssumption DEF RowMove, Open, TypeOK, SessionsOK, HandlersOK, Holders, hosting,
     requests, sweeps, boot, rows, CloseSession, CloseAndRelease, StartRelease
<1> QED BY <1>1, RowMoveKeeps

(* A second MISSING closes.                                                   *)
LEMMA MissingProbeKeeps ==
  ASSUME TypeOK, TypeOK', IInv, NEW s \in Sessions, MissingProbe(s)
  PROVE  IInv'
<1>1. RowMove
  BY ConstantsAssumption DEF RowMove, Open, TypeOK, SessionsOK, HandlersOK, Holders, hosting,
     requests, sweeps, boot, rows, MissingProbe, ProbeUnchanged
<1> QED BY <1>1, RowMoveKeeps

(* Provisioning activates the session that is pending.                        *)
LEMMA ProvisionedKeeps ==
  ASSUME TypeOK, TypeOK', IInv, NEW i \in Instances, NEW s \in Sessions, Provisioned(i, s)
  PROVE  IInv'
<1>1. RowMove
  BY ConstantsAssumption DEF RowMove, Open, TypeOK, SessionsOK, HandlersOK, Holders, hosting,
     requests, sweeps, boot, rows, Provisioned, ActivateOn, ProvUnchanged
<1> QED BY <1>1, RowMoveKeeps

(* So does the reconcile sweep.                                               *)
LEMMA ReconcileNextKeeps ==
  ASSUME TypeOK, TypeOK', IInv, ReconcileNext
  PROVE  IInv'
<1>1. RowMove
  BY ConstantsAssumption DEF RowMove, Open, TypeOK, SessionsOK, HandlersOK, Holders, hosting,
     requests, sweeps, boot, rows, ReconcileNext, ActivateOn, RunProvision, ProbeUnchanged
<1> QED BY <1>1, RowMoveKeeps

(* The last failed attempt closes whichever session is open on the instance. *)
LEMMA ProvisionExhaustedKeeps ==
  ASSUME TypeOK, TypeOK', IInv, NEW i \in Instances, NEW s \in Sessions, ProvisionExhausted(i, s)
  PROVE  IInv'
<1>1. /\ \/ \E t \in Sessions : /\ Open(t) /\ rowInstance[t] = i /\ row' = [row EXCEPT ![t] = "CLOSED"]
                                 /\ rel' = [rel EXCEPT ![i][t] = IF @ = "none" THEN "start" ELSE @]
         \/ UNCHANGED <<row, rel>>
      /\ UNCHANGED <<tag, owner, claim, rowInstance, req, candidates, target, unused, reclaim, cycle, phase, backfill>>
  BY DEF ProvisionExhausted, InFlight, Open, Fails, Succeeds, CloseAndRelease, rows,
     EndProvision, hosting, ProvUnchanged, StartRelease, requests, sweeps, boot
<1>2. ASSUME NEW t \in Sessions, Open(t), rowInstance[t] = i, row' = [row EXCEPT ![t] = "CLOSED"],
             rel' = [rel EXCEPT ![i][t] = IF @ = "none" THEN "start" ELSE @]
      PROVE  RowMove
  BY ConstantsAssumption, <1>1, <1>2 DEF RowMove, Open, TypeOK, SessionsOK
<1>3. ASSUME UNCHANGED <<row, rel>> PROVE RowMove
  BY <1>1, <1>3 DEF RowMove, Open
<1> QED BY <1>1, <1>2, <1>3, RowMoveKeeps

----------------------------------------------------------------------------
(* The steps of a release.                                                  *)

(* What has moved on is left alone, and its claim with it.                  *)
LEMMA GetInstanceKeeps ==
  ASSUME Calm, TypeOK, TypeOK', IInv, NEW i \in Instances, NEW s \in Sessions, GetInstance(i, s)
  PROVE  IInv'
<1>1. /\ rel[i][s] = "start"
      /\ \/ /\ IsReservedFor(i, s) /\ UNCHANGED claim
            /\ \E to \in {"deployed", "torn"} : rel' = [rel EXCEPT ![i][s] = to]
         \/ /\ ~IsReservedFor(i, s) /\ claim' = [claim EXCEPT ![i] = IF @ = s THEN NoSession ELSE @]
            /\ rel' = [rel EXCEPT ![i][s] = "none"]
      /\ UNCHANGED <<tag, owner, row, rowInstance, req, candidates, target, unused, reclaim, cycle, phase, backfill>>
  BY ConstantsAssumption DEF Calm, TypeOK, HostingOK, SessionsOK, HandlersOK, IInv, ReleaseInv,
     IsReservedFor, Holders, rows, requests, sweeps, boot, hosting, GetInstance, RelStep,
     DropClaim, RelUnchanged
<1>2. ReleaseMove(i, s)
  BY ConstantsAssumption DEF ReleaseMove, Calm, TypeOK, HostingOK, SessionsOK, HandlersOK, IInv,
     ReleaseInv, IsReservedFor, Holders, rows, requests, sweeps, boot, hosting, GetInstance,
     RelStep, DropClaim, RelUnchanged
<1>3. ASSUME IsReservedFor(i, s), NEW to \in {"deployed", "torn"}, rel' = [rel EXCEPT ![i][s] = to]
      PROVE  ReleaseInv'
  BY ConstantsAssumption, <1>1, <1>3 DEF TypeOK, HostingOK, SessionsOK, HandlersOK, IInv,
     ReleaseInv, RequestInv, OwnerInv, Settled, Targets, Holding, Electing, Open, IsReservedFor
<1>4. ASSUME ~IsReservedFor(i, s), rel' = [rel EXCEPT ![i][s] = "none"] PROVE ReleaseInv'
  BY ConstantsAssumption, <1>1, <1>4 DEF TypeOK, HostingOK, SessionsOK, HandlersOK, IInv,
     ReleaseInv, RequestInv, OwnerInv, Settled, Targets, Holding, Electing, Open, IsReservedFor
<1>5. ReleaseInv'
  BY <1>1, <1>3, <1>4
<1> QED BY <1>2, <1>5, ReleaseMoveKeeps DEF IInv

(* Undeploying touches the containers only.                                   *)
LEMMA UndeployKeeps ==
  ASSUME Calm, TypeOK, TypeOK', IInv, NEW i \in Instances, NEW s \in Sessions, Undeploy(i, s)
  PROVE  IInv'
<1>1. ReleaseMove(i, s)
  BY ConstantsAssumption DEF ReleaseMove, Calm, TypeOK, HostingOK, SessionsOK, HandlersOK, IInv,
     ReleaseInv, IsReservedFor, Holders, rows, requests, sweeps, boot, hosting, Undeploy,
     RelStep, RelUnchanged
<1>2. ReleaseInv'
  BY ConstantsAssumption DEF Calm, TypeOK, HostingOK, SessionsOK, HandlersOK, IInv, ReleaseInv,
     IsReservedFor, Holders, rows, requests, sweeps, boot, hosting, Undeploy, RelStep,
     RelUnchanged, Settled, Open
<1> QED BY <1>1, <1>2, ReleaseMoveKeeps DEF IInv

(* The claim goes while the instance is still reserved for the session.       *)
LEMMA ReleaseClaimKeeps ==
  ASSUME Calm, TypeOK, TypeOK', IInv, NEW i \in Instances, NEW s \in Sessions,
         ReleaseClaim(i, s)
  PROVE  IInv'
<1>1. ReleaseMove(i, s)
  BY ConstantsAssumption DEF ReleaseMove, Calm, TypeOK, HostingOK, SessionsOK, HandlersOK, IInv,
     ReleaseInv, IsReservedFor, Holders, rows, requests, sweeps, boot, hosting, ReleaseClaim,
     DropClaim, RelStep, RelUnchanged
<1>2. ReleaseInv'
  BY ConstantsAssumption DEF Calm, TypeOK, HostingOK, SessionsOK, HandlersOK, IInv, ReleaseInv,
     IsReservedFor, Holders, rows, requests, sweeps, boot, hosting, ReleaseClaim, DropClaim,
     RelStep, RelUnchanged, Settled, Open
<1> QED BY <1>1, <1>2, ReleaseMoveKeeps DEF IInv

(* Then the reservation.                                                    *)
LEMMA TagIdleKeeps ==
  ASSUME Calm, TypeOK, TypeOK', IInv, NEW i \in Instances, NEW s \in Sessions, TagIdle(i, s)
  PROVE  IInv'
<1>1. /\ rel[i][s] = "unclaimed"
      /\ \/ /\ tag[i] # "terminated" /\ tag' = [tag EXCEPT ![i] = "idle"]
            /\ owner' = [owner EXCEPT ![i] = NoSession] /\ rel' = [rel EXCEPT ![i][s] = "none"]
         \/ /\ tag' = [tag EXCEPT ![i] = "terminated"] /\ owner' = [owner EXCEPT ![i] = NoSession]
            /\ rel' = [rel EXCEPT ![i][s] = "failed"]
      /\ UNCHANGED <<claim, row, rowInstance, req, candidates, target, unused, reclaim, cycle, phase, backfill>>
  BY ConstantsAssumption DEF Calm, TypeOK, HostingOK, SessionsOK, HandlersOK, IInv, ReleaseInv,
     IsReservedFor, Holders, rows, requests, sweeps, boot, hosting, TagIdle, Retag, Succeeds,
     RelStep, Fails, Terminated, RelUnchanged
<1>2. ReleaseMove(i, s)
  BY ConstantsAssumption DEF ReleaseMove, Calm, TypeOK, HostingOK, SessionsOK, HandlersOK, IInv,
     ReleaseInv, IsReservedFor, Holders, rows, requests, sweeps, boot, hosting, TagIdle, Retag,
     Succeeds, RelStep, Fails, Terminated, RelUnchanged
<1>3. ASSUME rel' = [rel EXCEPT ![i][s] = "none"], tag' = [tag EXCEPT ![i] = "idle"],
             owner' = [owner EXCEPT ![i] = NoSession]
      PROVE  ReleaseInv'
  BY ConstantsAssumption, <1>1, <1>3 DEF TypeOK, HostingOK, SessionsOK, HandlersOK, IInv,
     ReleaseInv, RequestInv, OwnerInv, Settled, Targets, Holding, Electing, Open, IsReservedFor
<1>4. ASSUME rel' = [rel EXCEPT ![i][s] = "failed"], tag' = [tag EXCEPT ![i] = "terminated"],
             owner' = [owner EXCEPT ![i] = NoSession]
      PROVE  ReleaseInv'
  BY ConstantsAssumption, <1>1, <1>4 DEF TypeOK, HostingOK, SessionsOK, HandlersOK, IInv,
     ReleaseInv, RequestInv, OwnerInv, Settled, Targets, Holding, Electing, Open, IsReservedFor
<1>5. ReleaseInv'
  BY <1>1, <1>3, <1>4
<1> QED BY <1>2, <1>5, ReleaseMoveKeeps DEF IInv

(* A failed call leads to termination.                                        *)
LEMMA ReleaseFailsKeeps ==
  ASSUME Calm, TypeOK, TypeOK', IInv, NEW i \in Instances, NEW s \in Sessions,
         ReleaseFails(i, s)
  PROVE  IInv'
<1>1. ReleaseMove(i, s)
  BY ConstantsAssumption DEF ReleaseMove, Calm, TypeOK, HostingOK, SessionsOK, HandlersOK, IInv,
     ReleaseInv, IsReservedFor, Holders, rows, requests, sweeps, boot, hosting, ReleaseFails,
     Fails, RelStep, RelUnchanged
<1>2. ReleaseInv'
  BY ConstantsAssumption DEF Calm, TypeOK, HostingOK, SessionsOK, HandlersOK, IInv, ReleaseInv,
     IsReservedFor, Holders, rows, requests, sweeps, boot, hosting, ReleaseFails, Fails, RelStep,
     RelUnchanged, Settled, Open
<1> QED BY <1>1, <1>2, ReleaseMoveKeeps DEF IInv

(* What is terminated was the session's.                                      *)
LEMMA TerminateFailedKeeps ==
  ASSUME Calm, TypeOK, TypeOK', IInv, NEW i \in Instances, NEW s \in Sessions,
         TerminateFailed(i, s)
  PROVE  IInv'
<1>1. ReleaseMove(i, s)
  BY ConstantsAssumption DEF ReleaseMove, Calm, TypeOK, HostingOK, SessionsOK, HandlersOK, IInv,
     ReleaseInv, IsReservedFor, Holders, rows, requests, sweeps, boot, hosting, TerminateFailed,
     Terminated, Succeeds, Fails, RelStep, RelUnchanged
<1>2. ReleaseInv'
  BY ConstantsAssumption DEF Calm, TypeOK, HostingOK, SessionsOK, HandlersOK, IInv, ReleaseInv,
     IsReservedFor, Holders, rows, requests, sweeps, boot, hosting, TerminateFailed, Terminated,
     Succeeds, Fails, RelStep, RelUnchanged, Settled, Open
<1> QED BY <1>1, <1>2, ReleaseMoveKeeps DEF IInv

(* Its claim goes last.                                                       *)
LEMMA DropFailedKeeps ==
  ASSUME Calm, TypeOK, TypeOK', IInv, NEW i \in Instances, NEW s \in Sessions, DropFailed(i, s)
  PROVE  IInv'
<1>1. ReleaseMove(i, s)
  BY ConstantsAssumption DEF ReleaseMove, Calm, TypeOK, HostingOK, SessionsOK, HandlersOK, IInv,
     ReleaseInv, IsReservedFor, Holders, rows, requests, sweeps, boot, hosting, DropFailed,
     DropClaim, RelStep, RelUnchanged
<1>2. ReleaseInv'
  BY ConstantsAssumption DEF Calm, TypeOK, HostingOK, SessionsOK, HandlersOK, IInv, ReleaseInv,
     IsReservedFor, Holders, rows, requests, sweeps, boot, hosting, DropFailed, DropClaim,
     RelStep, RelUnchanged, Settled, Open
<1> QED BY <1>1, <1>2, ReleaseMoveKeeps DEF IInv

(* A pool cycle's claim is dropped at once: no instance is reserved for it.  *)
LEMMA PoolReleaseKeeps ==
  ASSUME Calm, TypeOK, TypeOK', IInv, NEW i \in Instances, ReleaseStep(i, PoolCycle)
  PROVE  IInv'
<1>1. rel[i][PoolCycle] # "none" => rel[i][PoolCycle] = "start" /\ claim[i] = PoolCycle
  BY DEF IInv, ReleaseInv
<1>2. CASE GetInstance(i, PoolCycle)
  BY ConstantsAssumption, <1>1, <1>2, PoolMoveKeeps DEF PoolMove, TypeOK, HostingOK, SessionsOK,
     HandlersOK, IsReservedFor, Holders, rows, requests, sweeps, boot, hosting, GetInstance,
     RelStep, DropClaim, RelUnchanged
<1>3. ~ReleaseFails(i, PoolCycle)
  BY <1>1 DEF Calm, ReleaseFails, Fails
<1> QED BY <1>1, <1>2, <1>3 DEF ReleaseStep, Undeploy, ReleaseClaim, TagIdle, TerminateFailed,
   DropFailed

----------------------------------------------------------------------------
(* The steps of the sweep over unused instances.                            *)

(* What is launching is not old.                                            *)
LEMMA UnusedReadOpenKeeps ==
  ASSUME Calm, TypeOK, TypeOK', IInv, UnusedReadOpen
  PROVE  IInv'
<1>0. /\ unused'.old = Instances \ (Unlaunched \union {target[s] : s \in {t \in Sessions : Launching(t)}})
      /\ unused'.list = unused.list /\ unused'.work = unused.work
      /\ UNCHANGED <<tag, owner, claim, row, rowInstance, req, candidates, target, rel, reclaim, cycle, phase, backfill>>
  BY DEF Calm, TypeOK, HostingOK, SessionsOK, UnusedReadOpen, Open, Unlaunched, Launching,
     hosting, provisioning, SweepUnchanged, rows, requests, boot
<1>1. UnusedInv'
  BY <1>0 DEF TypeOK, SweepsOK, SessionsOK, IInv, UnusedInv, Launching, Unlaunched, Settled,
     Targets, Holding, Open
<1>2. RequestInv' /\ OwnerInv' /\ BootInv'
  BY <1>0 DEF IInv, RequestInv, Holding, Electing, Open, IsReservedFor, Unlaunched, OwnerInv,
     Settled, Targets, BootInv, InFlight
<1>3. ReleaseInv' /\ ReclaimInv' /\ CycleInv'
  BY <1>0 DEF IInv, ReleaseInv, ReclaimInv, CycleInv, Settled, Open, IsReservedFor, Targets,
     Unlaunched
<1> QED BY <1>1, <1>2, <1>3 DEF IInv

(* What is listed is reserved.                                              *)
LEMMA UnusedListReservedKeeps ==
  ASSUME Calm, TypeOK, TypeOK', IInv, UnusedListReserved
  PROVE  IInv'
<1>0. /\ unused'.old = unused.old /\ unused'.work = unused.work
      /\ unused'.list = {<<i, owner[i]>> : i \in Tagged("reserved")}
      /\ UNCHANGED <<tag, owner, claim, row, rowInstance, req, candidates, target, rel, reclaim, cycle, phase, backfill>>
  BY DEF Calm, TypeOK, HostingOK, SessionsOK, UnusedListReserved, Tagged, hosting, provisioning,
     SweepUnchanged, rows, requests, boot
<1>1. UnusedInv'
  BY <1>0 DEF TypeOK, HostingOK, SweepsOK, SessionsOK, IInv, OwnerInv, UnusedInv, Tagged,
     IsReservedFor, Settled, Targets, Holding, Open
<1>2. RequestInv' /\ OwnerInv' /\ BootInv'
  BY <1>0 DEF IInv, RequestInv, Holding, Electing, Open, IsReservedFor, Unlaunched, OwnerInv,
     Settled, Targets, BootInv, InFlight
<1>3. ReleaseInv' /\ ReclaimInv' /\ CycleInv'
  BY <1>0 DEF IInv, ReleaseInv, ReclaimInv, CycleInv, Settled, Open, IsReservedFor, Targets,
     Unlaunched
<1> QED BY <1>1, <1>2, <1>3 DEF IInv

(* An unclaimed instance is reserved for a session that is settled.         *)
LEMMA UnusedReadClaimsKeeps ==
  ASSUME Calm, TypeOK, TypeOK', IInv, UnusedReadClaims
  PROVE  IInv'
<1>0. /\ unused.pc = "listed"
      /\ unused'.old = {} /\ unused'.list = {}
      /\ unused'.work = {p \in unused.list : p[1] \in unused.old \ unused.used /\ claim[p[1]] = NoSession}
      /\ UNCHANGED <<tag, owner, claim, row, rowInstance, req, candidates, target, rel, reclaim, cycle, phase, backfill>>
  BY DEF Calm, TypeOK, HostingOK, SessionsOK, UnusedReadClaims, Idle0, hosting, provisioning,
     SweepUnchanged, NoPair, rows, requests, boot
<1>1. UnusedInv'
  BY ConstantsAssumption, <1>0 DEF TypeOK, HostingOK, SessionsOK, SweepsOK, IInv, UnusedInv,
     RequestInv, Settled, Targets, Holding, Electing, Open, IsReservedFor
<1>2. RequestInv' /\ OwnerInv' /\ BootInv'
  BY <1>0 DEF IInv, RequestInv, Holding, Electing, Open, IsReservedFor, Unlaunched, OwnerInv,
     Settled, Targets, BootInv, InFlight
<1>3. ReleaseInv' /\ ReclaimInv' /\ CycleInv'
  BY <1>0 DEF IInv, ReleaseInv, ReclaimInv, CycleInv, Settled, Open, IsReservedFor, Targets,
     Unlaunched
<1> QED BY <1>1, <1>2, <1>3 DEF IInv

(* A release starts for a session that is settled.                          *)
LEMMA UnusedReleaseKeeps ==
  ASSUME Calm, TypeOK, TypeOK', IInv, UnusedRelease
  PROVE  IInv'
<1>1. \/ \E p \in unused.work : /\ rel' = [rel EXCEPT ![p[1]][p[2]] = IF @ = "none" THEN "start" ELSE @]
                                /\ unused' = [unused EXCEPT !.work = @ \ {p}, !.cur = p]
      \/ unused' = Idle0 /\ UNCHANGED rel
  BY DEF UnusedRelease, StartRelease
<1>2. UNCHANGED <<tag, owner, claim, row, rowInstance, req, candidates, target, reclaim, cycle, phase,
                 backfill>>
  BY DEF UnusedRelease, hosting, rows, requests, boot, SweepUnchanged
<1>3. ASSUME NEW p \in unused.work, unused' = [unused EXCEPT !.work = @ \ {p}, !.cur = p],
             rel' = [rel EXCEPT ![p[1]][p[2]] = IF @ = "none" THEN "start" ELSE @]
      PROVE  IInv'
  <2>0. p \in Instances \X Sessions /\ Settled(p[2])
    BY DEF TypeOK, SweepsOK, IInv, UnusedInv
  <2>9. unused'.old = unused.old /\ unused'.list = unused.list /\ unused'.work \subseteq unused.work
    BY <1>3
  <2>1. ReleaseInv'
    BY ConstantsAssumption, <1>2, <1>3, <2>0 DEF TypeOK, HostingOK, SessionsOK, HandlersOK, IInv,
       ReleaseInv, RequestInv, OwnerInv, Settled, Targets, Holding, Electing, Open, IsReservedFor
  <2>2. UnusedInv'
    BY <1>2, <2>9 DEF TypeOK, SweepsOK, SessionsOK, IInv, UnusedInv, Settled, Targets, Holding,
       Open
  <2>3. ReclaimInv'
    BY ConstantsAssumption, <1>2, <1>3, <2>0 DEF TypeOK, HostingOK, SessionsOK, HandlersOK,
       SweepsOK, IInv, RequestInv, OwnerInv, ReclaimInv, ReleaseInv, Settled, Targets, Holding,
       Electing, Open, IsReservedFor
  <2>4. RequestInv' /\ OwnerInv' /\ CycleInv' /\ BootInv'
    BY <1>2, <1>3, <2>0 DEF IInv, RequestInv, Holding, Electing, Open, IsReservedFor, Unlaunched,
       OwnerInv, Settled, Targets, CycleInv, BootInv, InFlight
  <2> QED BY <2>1, <2>2, <2>3, <2>4 DEF IInv
<1>4. ASSUME unused' = Idle0, UNCHANGED rel PROVE IInv'
  <2>1. UnusedInv'
    BY <1>2, <1>4 DEF UnusedInv, Idle0
  <2>2. RequestInv' /\ OwnerInv' /\ ReleaseInv' /\ ReclaimInv' /\ CycleInv' /\ BootInv'
    BY <1>2, <1>4 DEF IInv, RequestInv, Holding, Electing, Open, IsReservedFor, Unlaunched,
       OwnerInv, Settled, Targets, ReleaseInv, ReclaimInv, CycleInv, BootInv, InFlight
  <2> QED BY <2>1, <2>2 DEF IInv
<1> QED BY ZenonT(60), <1>1, <1>3, <1>4

----------------------------------------------------------------------------
(* The steps of the sweep over claims.                                      *)

(* No claim of a request that is in flight is old.                          *)
LEMMA ReclaimReadOpenKeeps ==
  ASSUME Calm, TypeOK, TypeOK', IInv, ReclaimReadOpen
  PROVE  IInv'
<1>0. /\ reclaim.pc = "idle" /\ reclaim'.pc = "opened"
      /\ reclaim'.open = {s \in Sessions : Open(s)} /\ reclaim'.work = reclaim.work
      /\ reclaim'.settled = {s \in Sessions : req[s] # "none" /\ ~InFlight(s)}
      /\ reclaim'.cur = reclaim.cur
      /\ UNCHANGED <<tag, owner, claim, row, rowInstance, req, candidates, target, rel, unused, cycle, phase, backfill>>
  BY DEF Calm, TypeOK, HostingOK, SessionsOK, ReclaimReadOpen, Open, InFlight, hosting,
     provisioning, SweepUnchanged, rows, requests, boot
<1>1. ReleaseInv'
  BY ConstantsAssumption, <1>0 DEF TypeOK, HostingOK, SessionsOK, HandlersOK, IInv, ReleaseInv,
     RequestInv, OwnerInv, Settled, Targets, Holding, Electing, Open, IsReservedFor
<1>2. ReclaimInv'
  BY ConstantsAssumption, <1>0 DEF TypeOK, HostingOK, SessionsOK, HandlersOK, SweepsOK, IInv,
     RequestInv, OwnerInv, ReclaimInv, ReleaseInv, Settled, Targets, Holding, Electing, Open,
     IsReservedFor, Unlaunched, InFlight
<1>3. RequestInv' /\ OwnerInv' /\ UnusedInv' /\ CycleInv' /\ BootInv'
  BY <1>0 DEF IInv, RequestInv, Holding, Electing, Open, IsReservedFor, Unlaunched, OwnerInv,
     Settled, Targets, UnusedInv, CycleInv, BootInv, InFlight
<1> QED BY <1>1, <1>2, <1>3 DEF IInv

(* What an open session has is live.                                        *)
LEMMA ReclaimReadLiveKeeps ==
  ASSUME Calm, TypeOK, TypeOK', IInv, ReclaimReadLive
  PROVE  IInv'
<1>0. /\ reclaim.pc = "opened" /\ reclaim'.pc = "listed"
      /\ reclaim'.open = reclaim.open /\ reclaim'.settled = reclaim.settled
      /\ reclaim'.work = reclaim.work /\ reclaim'.cur = reclaim.cur
      /\ reclaim'.live = Tagged("idle") \union Tagged("reserved")
      /\ UNCHANGED <<tag, owner, claim, row, rowInstance, req, candidates, target, rel, unused, cycle, phase, backfill>>
  BY DEF Calm, TypeOK, HostingOK, SessionsOK, ReclaimReadLive, Tagged, hosting, provisioning,
     SweepUnchanged, rows, requests, boot
<1>1. ReleaseInv'
  BY ConstantsAssumption, <1>0 DEF TypeOK, HostingOK, SessionsOK, HandlersOK, IInv, ReleaseInv,
     RequestInv, OwnerInv, Settled, Targets, Holding, Electing, Open, IsReservedFor
<1>2. ReclaimInv'
  BY ConstantsAssumption, <1>0 DEF TypeOK, HostingOK, SessionsOK, HandlersOK, SweepsOK, IInv,
     RequestInv, OwnerInv, ReclaimInv, ReleaseInv, Settled, Targets, Holding, Electing, Open,
     IsReservedFor, Unlaunched, Tagged
<1>3. RequestInv' /\ OwnerInv' /\ UnusedInv' /\ CycleInv' /\ BootInv'
  BY <1>0 DEF IInv, RequestInv, Holding, Electing, Open, IsReservedFor, Unlaunched, OwnerInv,
     Settled, Targets, UnusedInv, CycleInv, BootInv, InFlight
<1> QED BY <1>1, <1>2, <1>3 DEF IInv

(* Only the claims of sessions that are settled are stale, and of a pool    *)
(* cycle that is over.                                                       *)
LEMMA ReclaimReadClaimsKeeps ==
  ASSUME Calm, TypeOK, TypeOK', IInv, ReclaimReadClaims
  PROVE  IInv'
<1>a. /\ reclaim.pc = "listed"
      /\ reclaim' = [Reclaim0 EXCEPT !.pc = "reclaiming",
                        !.work = {<<i, claim[i], i \notin reclaim.live>> : i \in {j \in Instances : IsStale(j)}}]
      /\ UNCHANGED <<tag, owner, claim, row, rowInstance, req, candidates, target, rel, unused, cycle,
                    phase, backfill>>
  BY DEF ReclaimReadClaims, hosting, rows, requests, boot, SweepUnchanged
<1>0. /\ reclaim.pc = "listed" /\ reclaim'.pc = "reclaiming"
      /\ reclaim'.open = {} /\ reclaim'.settled = {} /\ reclaim'.cur = NoPair
      /\ reclaim'.work = {<<i, claim[i], i \notin reclaim.live>> : i \in {j \in Instances : IsStale(j)}}
      /\ UNCHANGED <<tag, owner, claim, row, rowInstance, req, candidates, target, rel, unused, cycle,
                    phase, backfill>>
  BY <1>a DEF Reclaim0
<1>1. ASSUME NEW i \in Instances, IsStale(i), claim[i] \in Sessions PROVE Settled(claim[i])
  <2>1. claim[i] \in reclaim.settled /\ (i \notin reclaim.live \/ claim[i] \notin reclaim.open)
    BY <1>1, ConstantsAssumption DEF IsStale
  <2>2. claim[i] \in reclaim.open \/ Settled(claim[i])
    BY <2>1 DEF IInv, ReclaimInv
  <2>3. CASE claim[i] \in reclaim.open
    <3>1. Settled(claim[i]) \/ target[claim[i]] \in reclaim.live
      BY <1>0, <2>3 DEF IInv, ReclaimInv
    <3>2. Settled(claim[i]) \/ target[claim[i]] = i
      BY <1>1 DEF IInv, OwnerInv
    <3> QED BY <2>1, <2>3, <3>1, <3>2
  <2> QED BY <2>2, <2>3
<1>2. ASSUME NEW i \in Instances, IsStale(i), claim[i] = PoolCycle
      PROVE  cycle.hold # i /\ rel[i][PoolCycle] = "none"
  <2>1. rel[i][PoolCycle] = "none"
    BY <1>0 DEF IInv, ReleaseInv
  <2> QED BY <1>2, <2>1 DEF IsStale
<1>3. \A s \in Sessions : Settled(s) => Settled(s)'
  BY <1>0 DEF Settled, Open
<1>4. ASSUME NEW w \in reclaim'.work
      PROVE  /\ w[2] \in Sessions => Settled(w[2])'
             /\ w[2] = PoolCycle => /\ claim'[w[1]] = PoolCycle /\ cycle'.hold # w[1]
                                    /\ rel'[w[1]][PoolCycle] = "none"
             /\ \A v \in reclaim'.work : v[1] = w[1] => v = w
  BY <1>0, <1>1, <1>2, <1>3, <1>4
<1>5. ReclaimInv'
  BY <1>0, <1>4 DEF ReclaimInv
<1>6. ReleaseInv'
  BY <1>0 DEF IInv, ReleaseInv, Settled, Open, IsReservedFor
<1>7. RequestInv' /\ OwnerInv' /\ BootInv'
  BY <1>0 DEF IInv, RequestInv, Holding, Electing, Open, IsReservedFor, Unlaunched, OwnerInv,
     Settled, Targets, BootInv, InFlight
<1>8. UnusedInv'
  BY <1>0 DEF IInv, UnusedInv, Settled, Open, Targets, Holding, Electing, IsReservedFor
<1>9. CycleInv'
  BY <1>0 DEF IInv, CycleInv, Unlaunched
<1> QED BY <1>5, <1>6, <1>7, <1>8, <1>9 DEF IInv

(* The next stale claim is deleted or released.                             *)
LEMMA ReclaimNextKeeps ==
  ASSUME Calm, TypeOK, TypeOK', IInv, ReclaimNext
  PROVE  IInv'
<1>0. /\ reclaim.pc = "reclaiming" /\ ~InRelease(reclaim.cur)
      /\ UNCHANGED <<tag, owner, row, rowInstance, req, candidates, target, unused, cycle, phase, backfill>>
  BY ZenonT(60) DEF ReclaimNext, hosting, rows, requests, boot
<1>1. \/ \E w \in reclaim.work :
           /\ claim' = [claim EXCEPT ![w[1]] = IF @ = w[2] THEN NoSession ELSE @] /\ UNCHANGED rel
           /\ reclaim' = [reclaim EXCEPT !.work = @ \ {w}, !.cur = NoPair]
      \/ \E w \in reclaim.work :
           /\ rel' = [rel EXCEPT ![w[1]][w[2]] = IF @ = "none" THEN "start" ELSE @] /\ UNCHANGED claim
           /\ reclaim' = [reclaim EXCEPT !.work = @ \ {w}, !.cur = <<w[1], w[2]>>]
      \/ reclaim.work = {} /\ reclaim' = Reclaim0 /\ UNCHANGED <<claim, rel>>
  BY DEF TypeOK, SweepsOK, ReclaimNext, DropClaim, StartRelease
<1>2. ASSUME NEW w \in reclaim.work, UNCHANGED rel,
             claim' = [claim EXCEPT ![w[1]] = IF @ = w[2] THEN NoSession ELSE @],
             reclaim' = [reclaim EXCEPT !.work = @ \ {w}, !.cur = NoPair]
      PROVE  IInv'
  <2>a. w \in Instances \X Holders \X BOOLEAN /\ (w[2] \in Sessions => Settled(w[2]))
    BY DEF TypeOK, SweepsOK, IInv, ReclaimInv
  <2>0. ASSUME NEW i \in Instances, claim'[i] # claim[i]
        PROVE  claim[i] = PoolCycle \/ (claim[i] \in Sessions /\ Settled(claim[i]))
    <3>1. claim[i] = w[2]
      BY <1>2, <2>0
    <3> QED BY <2>a, <3>1 DEF Holders
  <2>1. RequestInv'
    BY ConstantsAssumption, <1>0, <2>0 DEF TypeOK, SessionsOK, IInv, RequestInv, Settled, Open,
       Holding, Electing, IsReservedFor, Unlaunched
  <2>2. OwnerInv'
    BY ConstantsAssumption, <1>0, <1>2 DEF TypeOK, HostingOK, SessionsOK, IInv, RequestInv,
       OwnerInv, Settled, Targets, Holding, Electing, Open, IsReservedFor, Unlaunched, Holders,
       InRelease, NoPair, ReleaseInv, ReclaimInv
  <2>3. ReleaseInv'
    BY ConstantsAssumption, <1>0, <1>2 DEF TypeOK, HostingOK, SessionsOK, HandlersOK, IInv,
       ReleaseInv, RequestInv, OwnerInv, Settled, Targets, Holding, Electing, Open,
       IsReservedFor, Unlaunched, Holders, InRelease, NoPair
  <2>4. ReclaimInv'
    BY ConstantsAssumption, <1>0, <1>2 DEF TypeOK, HostingOK, SessionsOK, HandlersOK, SweepsOK,
       IInv, RequestInv, OwnerInv, ReclaimInv, ReleaseInv, Settled, Targets, Holding, Electing,
       Open, IsReservedFor, Unlaunched, Holders
  <2>5. CycleInv'
    BY ConstantsAssumption, <1>0, <1>2 DEF TypeOK, HostingOK, SessionsOK, SweepsOK, IInv,
       CycleInv, ReleaseInv, Settled, Targets, Holding, Electing, Open, IsReservedFor,
       Unlaunched, Holders, InRelease, NoPair, ReclaimInv
  <2>6. UnusedInv' /\ BootInv'
    BY <1>0, <1>2 DEF IInv, UnusedInv, Settled, Targets, Holding, Open, BootInv, InFlight
  <2> QED BY <2>1, <2>2, <2>3, <2>4, <2>5, <2>6 DEF IInv
<1>3. ASSUME NEW w \in reclaim.work, UNCHANGED claim,
             rel' = [rel EXCEPT ![w[1]][w[2]] = IF @ = "none" THEN "start" ELSE @],
             reclaim' = [reclaim EXCEPT !.work = @ \ {w}, !.cur = <<w[1], w[2]>>]
      PROVE  IInv'
  <2>a. /\ w[1] \in Instances /\ w[2] \in Holders /\ (w[2] \in Sessions => Settled(w[2]))
        /\ w[2] = PoolCycle => claim[w[1]] = PoolCycle /\ cycle.hold # w[1]
        /\ reclaim'.pc = "reclaiming" /\ reclaim'.cur = <<w[1], w[2]>>
    BY <1>0, <1>3 DEF TypeOK, SweepsOK, IInv, ReclaimInv
  <2>b. ASSUME NEW i \in Instances, NEW h \in Holders
        PROVE  \/ rel'[i][h] = rel[i][h]
               \/ rel'[i][h] = "start" /\ i = w[1] /\ h = w[2]
    BY <1>3, <2>a DEF TypeOK, HandlersOK
  <2>c. ASSUME NEW i \in Instances PROVE rel[i][PoolCycle] = "none"
    <3>1. reclaim.cur # <<i, PoolCycle>> \/ rel[i][PoolCycle] = "none"
      <4>1. <<i, PoolCycle>> # NoPair
        BY ConstantsAssumption, <2>c DEF NoPair
      <4> QED BY <1>0, <4>1 DEF InRelease
    <3>2. rel[i][PoolCycle] # "none" => reclaim.cur = <<i, PoolCycle>>
      BY DEF IInv, ReleaseInv
    <3> QED BY <3>1, <3>2
  <2>d. ASSUME NEW s \in Sessions PROVE Settled(s)' = Settled(s)
    BY <1>0 DEF Settled, Open
  <2>1. ReleaseInv'
    <3>1. ASSUME NEW i \in Instances, NEW s \in Sessions
          PROVE  /\ rel'[i][s] # "none" => Settled(s)'
                 /\ rel'[i][s] \in {"deployed", "torn", "unclaimed"} => IsReservedFor(i, s)'
                 /\ rel'[i][s] = "failed" => IsReservedFor(i, s)' \/ tag'[i] = "terminated"
      BY <1>0, <2>a, <2>b, <2>d DEF IInv, ReleaseInv, IsReservedFor, Holders
    <3>2. ASSUME NEW i \in Instances, rel'[i][PoolCycle] # "none"
          PROVE  /\ rel'[i][PoolCycle] = "start" /\ claim'[i] = PoolCycle /\ cycle'.hold # i
                 /\ reclaim'.pc = "reclaiming" /\ reclaim'.cur = <<i, PoolCycle>>
      BY <1>0, <1>3, <2>a, <2>b, <2>c, <3>2 DEF Holders
    <3> QED BY <3>1, <3>2 DEF ReleaseInv
  <2>2. ReclaimInv'
    BY ConstantsAssumption, <1>0, <1>3 DEF TypeOK, HostingOK, SessionsOK, HandlersOK, SweepsOK,
       IInv, RequestInv, OwnerInv, ReclaimInv, ReleaseInv, Settled, Targets, Holding, Electing,
       Open, IsReservedFor, Unlaunched, Holders
  <2>3. RequestInv' /\ OwnerInv' /\ UnusedInv' /\ CycleInv' /\ BootInv'
    BY <1>0, <1>3 DEF IInv, RequestInv, Holding, Electing, Open, IsReservedFor, Unlaunched,
       OwnerInv, Settled, Targets, UnusedInv, CycleInv, BootInv, InFlight
  <2> QED BY <2>1, <2>2, <2>3 DEF IInv
<1>4. ASSUME reclaim.work = {}, reclaim' = Reclaim0, UNCHANGED <<claim, rel>>
      PROVE  IInv'
  <2>1. ReleaseInv'
    BY ConstantsAssumption, <1>0, <1>4 DEF TypeOK, HostingOK, SessionsOK, HandlersOK, IInv,
       ReleaseInv, RequestInv, OwnerInv, Settled, Targets, Holding, Electing, Open,
       IsReservedFor, Unlaunched, Holders, InRelease, NoPair, ReclaimInv
  <2>2. ReclaimInv'
    BY ConstantsAssumption, <1>0, <1>4 DEF TypeOK, HostingOK, SessionsOK, HandlersOK, SweepsOK,
       IInv, RequestInv, OwnerInv, ReclaimInv, ReleaseInv, Settled, Targets, Holding, Electing,
       Open, IsReservedFor, Unlaunched, Holders, InRelease, Reclaim0
  <2>3. RequestInv' /\ OwnerInv' /\ UnusedInv' /\ CycleInv' /\ BootInv'
    BY <1>0, <1>4 DEF IInv, RequestInv, Holding, Electing, Open, IsReservedFor, Unlaunched,
       OwnerInv, Settled, Targets, UnusedInv, CycleInv, BootInv, InFlight
  <2> QED BY <2>1, <2>2, <2>3 DEF IInv
<1> QED BY ZenonT(60), <1>1, <1>2, <1>3, <1>4

----------------------------------------------------------------------------
(* The steps of the pool cycle.                                             *)

(* Launched for the pool, or picked from it.                                *)
LEMMA CycleListKeeps ==
  ASSUME Calm, TypeOK, TypeOK', IInv, CycleList
  PROVE  IInv'
<1>0. /\ cycle.pc = "idle" /\ cycle'.pc = "listed" /\ cycle'.hold = cycle.hold
      /\ UNCHANGED <<owner, claim, row, rowInstance, req, candidates, target, rel, unused, reclaim, phase, backfill>>
  BY DEF Calm, TypeOK, SweepsOK, CycleList, Unlaunched, Tagged, AtMost, CycleUnchanged, rows,
     requests, provisioning, boot
<1>1. \/ \E new \in SUBSET Unlaunched :
           /\ tag' = [i \in Instances |-> IF i \in new THEN "idle" ELSE tag[i]]
           /\ cycle'.surplus = cycle.surplus
      \/ \E surplus \in SUBSET Tagged("idle") : cycle'.surplus = surplus /\ UNCHANGED tag
  BY DEF Calm, TypeOK, SweepsOK, CycleList, Unlaunched, Tagged, AtMost, CycleUnchanged, rows,
     requests, provisioning, boot
<1>2. ASSUME NEW new \in SUBSET Unlaunched, tag' = [i \in Instances |-> IF i \in new THEN "idle"
             ELSE tag[i]], cycle'.surplus = cycle.surplus
      PROVE  IInv'
  <2>1. RequestInv'
    BY ConstantsAssumption, <1>0, <1>2 DEF TypeOK, HostingOK, SessionsOK, IInv, RequestInv,
       OwnerInv, Settled, Targets, Holding, Electing, Open, IsReservedFor, Unlaunched
  <2>2. OwnerInv'
    BY ConstantsAssumption, <1>0, <1>2 DEF TypeOK, HostingOK, SessionsOK, IInv, RequestInv,
       OwnerInv, Settled, Targets, Holding, Electing, Open, IsReservedFor
  <2>3. ReleaseInv'
    BY ConstantsAssumption, <1>0, <1>2 DEF TypeOK, HostingOK, SessionsOK, HandlersOK, IInv,
       ReleaseInv, RequestInv, OwnerInv, Settled, Targets, Holding, Electing, Open,
       IsReservedFor, Unlaunched
  <2>4. UnusedInv'
    BY ConstantsAssumption, <1>0, <1>2 DEF TypeOK, HostingOK, SessionsOK, SweepsOK, IInv,
       UnusedInv, RequestInv, Settled, Targets, Holding, Electing, Open, IsReservedFor
  <2>5. ReclaimInv'
    BY ConstantsAssumption, <1>0, <1>2 DEF TypeOK, HostingOK, SessionsOK, HandlersOK, SweepsOK,
       IInv, RequestInv, OwnerInv, ReclaimInv, ReleaseInv, Settled, Targets, Holding, Electing,
       Open, IsReservedFor
  <2>6. CycleInv'
    BY ConstantsAssumption, <1>0, <1>2 DEF TypeOK, HostingOK, SessionsOK, SweepsOK, IInv,
       CycleInv, ReleaseInv, Settled, Targets, Holding, Electing, Open, IsReservedFor, Unlaunched
  <2>7. BootInv'
    BY ConstantsAssumption, <1>0, <1>2 DEF TypeOK, HostingOK, SessionsOK, ProcessOK, IInv,
       BootInv, InFlight, RequestInv, Settled, Targets, Holding, Electing, Open, IsReservedFor
  <2> QED BY <2>1, <2>2, <2>3, <2>4, <2>5, <2>6, <2>7 DEF IInv
<1>3. ASSUME NEW surplus \in SUBSET Tagged("idle"), cycle'.surplus = surplus, UNCHANGED tag
      PROVE  IInv'
  <2>1. ReleaseInv'
    BY ConstantsAssumption, <1>0, <1>3 DEF TypeOK, HostingOK, SessionsOK, HandlersOK, IInv,
       ReleaseInv, RequestInv, OwnerInv, Settled, Targets, Holding, Electing, Open,
       IsReservedFor, Unlaunched
  <2>2. ReclaimInv'
    BY ConstantsAssumption, <1>0, <1>3 DEF TypeOK, HostingOK, SessionsOK, HandlersOK, SweepsOK,
       IInv, RequestInv, OwnerInv, ReclaimInv, ReleaseInv, Settled, Targets, Holding, Electing,
       Open, IsReservedFor, Unlaunched
  <2>3. CycleInv'
    BY ConstantsAssumption, <1>0, <1>3 DEF TypeOK, HostingOK, SessionsOK, SweepsOK, IInv,
       CycleInv, ReleaseInv, Settled, Targets, Holding, Electing, Open, IsReservedFor,
       Unlaunched, Tagged
  <2>4. RequestInv' /\ OwnerInv' /\ UnusedInv' /\ BootInv'
    BY <1>0, <1>3 DEF IInv, RequestInv, Holding, Electing, Open, IsReservedFor, Unlaunched,
       OwnerInv, Settled, Targets, UnusedInv, BootInv, InFlight
  <2> QED BY <2>1, <2>2, <2>3, <2>4 DEF IInv
<1> QED BY <1>1, <1>2, <1>3

(* The pooled instances are counted.                                        *)
LEMMA CyclePoolStateKeeps ==
  ASSUME Calm, TypeOK, TypeOK', IInv, CyclePoolState
  PROVE  IInv'
<1>0. /\ cycle'.pc = "sizing"
      /\ cycle'.hold = cycle.hold /\ cycle'.surplus = cycle.surplus
      /\ UNCHANGED <<tag, owner, claim, row, rowInstance, req, candidates, target, rel, unused, reclaim, phase, backfill>>
  BY DEF Calm, TypeOK, HostingOK, SessionsOK, CyclePoolState, Tagged, hosting, CycleUnchanged,
     rows, requests, provisioning, boot
<1>1. ReleaseInv'
  BY ConstantsAssumption, <1>0 DEF TypeOK, HostingOK, SessionsOK, HandlersOK, IInv, ReleaseInv,
     RequestInv, OwnerInv, Settled, Targets, Holding, Electing, Open, IsReservedFor
<1>2. ReclaimInv'
  BY ConstantsAssumption, <1>0 DEF TypeOK, HostingOK, SessionsOK, HandlersOK, SweepsOK, IInv,
     RequestInv, OwnerInv, ReclaimInv, ReleaseInv, Settled, Targets, Holding, Electing, Open,
     IsReservedFor
<1>3. CycleInv'
  BY ConstantsAssumption, <1>0 DEF TypeOK, HostingOK, SessionsOK, SweepsOK, IInv, CycleInv,
     ReleaseInv, Settled, Targets, Holding, Electing, Open, IsReservedFor, Unlaunched
<1>4. RequestInv' /\ OwnerInv' /\ UnusedInv' /\ BootInv'
  BY <1>0 DEF IInv, RequestInv, Holding, Electing, Open, IsReservedFor, Unlaunched, OwnerInv,
     Settled, Targets, UnusedInv, BootInv, InFlight
<1> QED BY <1>1, <1>2, <1>3, <1>4 DEF IInv

(* A claim that is won is of an instance in the pool.                       *)
LEMMA CycleClaimKeeps ==
  ASSUME Calm, TypeOK, TypeOK', IInv, CycleClaim
  PROVE  IInv'
<1>0. /\ cycle.pc = "sizing"
      /\ UNCHANGED <<tag, owner, row, rowInstance, req, candidates, target, rel, unused, reclaim, phase, backfill>>
  BY DEF Calm, TypeOK, SweepsOK, CycleClaim, StillInPool, Claim, hosting, CycleUnchanged, rows,
     requests, provisioning, boot
<1>1. \/ \E i \in cycle.surplus :
           /\ tag[i] # "reserved" /\ claim[i] = NoSession /\ claim' = [claim EXCEPT ![i] = PoolCycle]
           /\ cycle' = [cycle EXCEPT !.pc = "holding", !.surplus = @ \ {i}, !.hold = i]
      \/ \E i \in cycle.surplus : cycle' = [cycle EXCEPT !.surplus = @ \ {i}] /\ UNCHANGED claim
  BY DEF Calm, TypeOK, SweepsOK, CycleClaim, StillInPool, Claim, hosting, CycleUnchanged, rows,
     requests, provisioning
<1>2. ASSUME NEW i \in cycle.surplus, tag[i] # "reserved", claim[i] = NoSession, claim' = [claim
             EXCEPT ![i] = PoolCycle], cycle' = [cycle EXCEPT !.pc = "holding", !.surplus = @ \
             {i}, !.hold = i]
      PROVE  IInv'
  <2>1. RequestInv'
    BY ConstantsAssumption, <1>0, <1>2 DEF TypeOK, HostingOK, SessionsOK, IInv, RequestInv,
       OwnerInv, Settled, Targets, Holding, Electing, Open, IsReservedFor, Unlaunched
  <2>2. OwnerInv'
    BY ConstantsAssumption, <1>0, <1>2 DEF TypeOK, HostingOK, SessionsOK, IInv, RequestInv,
       OwnerInv, Settled, Targets, Holding, Electing, Open, IsReservedFor, Unlaunched, CycleInv
  <2>3. ReleaseInv'
    BY ConstantsAssumption, <1>0, <1>2 DEF TypeOK, HostingOK, SessionsOK, HandlersOK, IInv,
       ReleaseInv, RequestInv, OwnerInv, Settled, Targets, Holding, Electing, Open,
       IsReservedFor, Unlaunched
  <2>4. ReclaimInv'
    BY ConstantsAssumption, <1>0, <1>2 DEF TypeOK, HostingOK, SessionsOK, HandlersOK, SweepsOK,
       IInv, RequestInv, OwnerInv, ReclaimInv, ReleaseInv, Settled, Targets, Holding, Electing,
       Open, IsReservedFor
  <2>5. CycleInv'
    BY ConstantsAssumption, <1>0, <1>2 DEF TypeOK, HostingOK, SessionsOK, SweepsOK, IInv,
       CycleInv, ReleaseInv, Settled, Targets, Holding, Electing, Open, IsReservedFor, Unlaunched
  <2>6. UnusedInv' /\ BootInv'
    BY <1>0, <1>2 DEF IInv, UnusedInv, Settled, Targets, Holding, Open, BootInv, InFlight
  <2> QED BY <2>1, <2>2, <2>3, <2>4, <2>5, <2>6 DEF IInv
<1>3. ASSUME NEW i \in cycle.surplus, cycle' = [cycle EXCEPT !.surplus = @ \ {i}], UNCHANGED
             claim
      PROVE  IInv'
  <2>1. ReleaseInv'
    BY ConstantsAssumption, <1>0, <1>3 DEF TypeOK, HostingOK, SessionsOK, HandlersOK, IInv,
       ReleaseInv, RequestInv, OwnerInv, Settled, Targets, Holding, Electing, Open,
       IsReservedFor, Unlaunched
  <2>2. ReclaimInv'
    BY ConstantsAssumption, <1>0, <1>3 DEF TypeOK, HostingOK, SessionsOK, HandlersOK, SweepsOK,
       IInv, RequestInv, OwnerInv, ReclaimInv, ReleaseInv, Settled, Targets, Holding, Electing,
       Open, IsReservedFor
  <2>3. CycleInv'
    BY ConstantsAssumption, <1>0, <1>3 DEF TypeOK, HostingOK, SessionsOK, SweepsOK, IInv,
       CycleInv, ReleaseInv, Settled, Targets, Holding, Electing, Open, IsReservedFor, Unlaunched
  <2>4. RequestInv' /\ OwnerInv' /\ UnusedInv' /\ BootInv'
    BY <1>0, <1>3 DEF IInv, RequestInv, Holding, Electing, Open, IsReservedFor, Unlaunched,
       OwnerInv, Settled, Targets, UnusedInv, BootInv, InFlight
  <2> QED BY <2>1, <2>2, <2>3, <2>4 DEF IInv
<1> QED BY ZenonT(60), <1>1, <1>2, <1>3

(* The instance the cycle has claimed is nobody's.                          *)
LEMMA CycleActKeeps ==
  ASSUME Calm, TypeOK, TypeOK', IInv, CycleAct
  PROVE  IInv'
<1>0. /\ cycle.pc = "holding" /\ cycle'.pc = "acted"
      /\ cycle'.hold = cycle.hold /\ cycle'.surplus = cycle.surplus
      /\ UNCHANGED <<claim, row, rowInstance, req, candidates, target, rel, unused, reclaim, phase, backfill>>
  BY DEF Calm, TypeOK, SweepsOK, CycleAct, Retag, Fails, Succeeds, Terminated, hosting,
     CycleUnchanged, rows, requests, provisioning, boot
<1>1. \/ \E t \in {"pooled", "terminated"} :
           /\ tag' = [tag EXCEPT ![cycle.hold] = t] /\ owner' = [owner EXCEPT ![cycle.hold] = NoSession]
      \/ UNCHANGED <<tag, owner>>
  BY DEF Calm, TypeOK, SweepsOK, CycleAct, Retag, Fails, Succeeds, Terminated, hosting,
     CycleUnchanged, rows, requests, provisioning
<1>a. tag[cycle.hold] = "terminated" => tag'[cycle.hold] = "terminated"
  BY DEF HostingOK, IInv, CycleInv, Calm, TypeOK, SweepsOK, CycleAct, Retag, Fails, Succeeds,
     Terminated, hosting, CycleUnchanged, rows, requests, provisioning
<1>2. ASSUME NEW t \in {"pooled", "terminated"}, tag' = [tag EXCEPT ![cycle.hold] = t], owner' =
             [owner EXCEPT ![cycle.hold] = NoSession]
      PROVE  IInv'
  <2>1. RequestInv'
    BY ConstantsAssumption, <1>0, <1>a, <1>2 DEF TypeOK, HostingOK, SessionsOK, IInv, RequestInv,
       OwnerInv, Settled, Targets, Holding, Electing, Open, IsReservedFor, Unlaunched, CycleInv
  <2>2. OwnerInv'
    BY ConstantsAssumption, <1>0, <1>a, <1>2 DEF TypeOK, HostingOK, SessionsOK, IInv, RequestInv,
       OwnerInv, Settled, Targets, Holding, Electing, Open, IsReservedFor, Unlaunched
  <2>3. ReleaseInv'
    <3>1. cycle.hold \in Instances /\ tag[cycle.hold] # "reserved"
      BY <1>0 DEF IInv, CycleInv
    <3>2. \A i \in Instances, s \in Sessions : IsReservedFor(i, s) => IsReservedFor(i, s)'
      BY <1>2, <3>1 DEF IsReservedFor
    <3>3. \A i \in Instances : tag[i] = "terminated" => tag'[i] = "terminated"
      BY <1>2, <1>a
    <3>4. \A i \in Instances : \A s \in Sessions :
            rel[i][s] = "failed" => IsReservedFor(i, s)' \/ tag'[i] = "terminated"
      BY <1>0, <3>1, <3>2, <3>3 DEF IInv, ReleaseInv
    <3> QED BY <1>0, <3>2, <3>4 DEF IInv, ReleaseInv, Settled, Open
  <2>4. UnusedInv'
    BY ConstantsAssumption, <1>0, <1>a, <1>2 DEF TypeOK, HostingOK, SessionsOK, SweepsOK, IInv,
       UnusedInv, RequestInv, Settled, Targets, Holding, Electing, Open, IsReservedFor,
       Unlaunched
  <2>5. ReclaimInv'
    BY ConstantsAssumption, <1>0, <1>a, <1>2 DEF TypeOK, HostingOK, SessionsOK, HandlersOK,
       SweepsOK, IInv, RequestInv, OwnerInv, ReclaimInv, ReleaseInv, Settled, Targets, Holding,
       Electing, Open, IsReservedFor, Unlaunched
  <2>6. CycleInv'
    BY ConstantsAssumption, <1>0, <1>a, <1>2 DEF TypeOK, HostingOK, SessionsOK, SweepsOK, IInv,
       CycleInv, ReleaseInv, Settled, Targets, Holding, Electing, Open, IsReservedFor, Unlaunched
  <2>7. BootInv'
    BY ConstantsAssumption, <1>0, <1>a, <1>2 DEF TypeOK, HostingOK, SessionsOK, ProcessOK, IInv,
       BootInv, InFlight, RequestInv, Settled, Targets, Holding, Electing, Open, IsReservedFor,
       Unlaunched
  <2> QED BY <2>1, <2>2, <2>3, <2>4, <2>5, <2>6, <2>7 DEF IInv
<1>3. ASSUME UNCHANGED <<tag, owner>>
      PROVE  IInv'
  <2>1. ReleaseInv'
    BY ConstantsAssumption, <1>0, <1>a, <1>3 DEF TypeOK, HostingOK, SessionsOK, HandlersOK, IInv,
       ReleaseInv, RequestInv, OwnerInv, Settled, Targets, Holding, Electing, Open, IsReservedFor
  <2>2. ReclaimInv'
    BY ConstantsAssumption, <1>0, <1>a, <1>3 DEF TypeOK, HostingOK, SessionsOK, HandlersOK,
       SweepsOK, IInv, RequestInv, OwnerInv, ReclaimInv, ReleaseInv, Settled, Targets, Holding,
       Electing, Open, IsReservedFor
  <2>3. CycleInv'
    BY ConstantsAssumption, <1>0, <1>a, <1>3 DEF TypeOK, HostingOK, SessionsOK, SweepsOK, IInv,
       CycleInv, ReleaseInv, Settled, Targets, Holding, Electing, Open, IsReservedFor, Unlaunched
  <2>4. RequestInv' /\ OwnerInv' /\ UnusedInv' /\ BootInv'
    BY <1>0, <1>a, <1>3 DEF IInv, RequestInv, Holding, Electing, Open, IsReservedFor, Unlaunched,
       OwnerInv, Settled, Targets, UnusedInv, BootInv, InFlight
  <2> QED BY <2>1, <2>2, <2>3, <2>4 DEF IInv
<1> QED BY <1>1, <1>2, <1>3

(* The cycle drops its own claim.                                           *)
LEMMA CycleUnclaimKeeps ==
  ASSUME Calm, TypeOK, TypeOK', IInv, CycleUnclaim
  PROVE  IInv'
<1>0. /\ cycle.pc = "acted" /\ cycle'.pc = "sizing"
      /\ cycle'.hold = NoInstance /\ cycle'.surplus = cycle.surplus
      /\ claim' = [claim EXCEPT ![cycle.hold] = IF @ = PoolCycle THEN NoSession ELSE @]
      /\ UNCHANGED <<tag, owner, row, rowInstance, req, candidates, target, rel, unused, reclaim, phase, backfill>>
  BY DEF Calm, TypeOK, HostingOK, SessionsOK, CycleUnclaim, DropClaim, hosting, CycleUnchanged,
     rows, requests, provisioning, boot
<1>1. RequestInv'
  BY ConstantsAssumption, <1>0 DEF TypeOK, HostingOK, SessionsOK, IInv, RequestInv, OwnerInv,
     Settled, Targets, Holding, Electing, Open, IsReservedFor, Unlaunched
<1>2. OwnerInv'
  BY ConstantsAssumption, <1>0 DEF TypeOK, HostingOK, SessionsOK, IInv, RequestInv, OwnerInv,
     Settled, Targets, Holding, Electing, Open, IsReservedFor
<1>3. ReleaseInv'
  BY ConstantsAssumption, <1>0 DEF TypeOK, HostingOK, SessionsOK, HandlersOK, IInv, ReleaseInv,
     RequestInv, OwnerInv, Settled, Targets, Holding, Electing, Open, IsReservedFor, Unlaunched
<1>4. ReclaimInv'
  BY ConstantsAssumption, <1>0 DEF TypeOK, HostingOK, SessionsOK, HandlersOK, SweepsOK, IInv,
     RequestInv, OwnerInv, ReclaimInv, ReleaseInv, Settled, Targets, Holding, Electing, Open,
     IsReservedFor
<1>5. CycleInv'
  BY ConstantsAssumption, <1>0 DEF TypeOK, HostingOK, SessionsOK, SweepsOK, IInv, CycleInv,
     ReleaseInv, Settled, Targets, Holding, Electing, Open, IsReservedFor, Unlaunched
<1>6. UnusedInv' /\ BootInv'
  BY <1>0 DEF IInv, UnusedInv, Settled, Targets, Holding, Open, BootInv, InFlight
<1> QED BY <1>1, <1>2, <1>3, <1>4, <1>5, <1>6 DEF IInv

(* New instances go to the stopped pool.                                    *)
LEMMA CycleWarmUpKeeps ==
  ASSUME Calm, TypeOK, TypeOK', IInv, CycleWarmUp
  PROVE  IInv'
<1>0. /\ \E new \in SUBSET Unlaunched : tag' = [i \in Instances |-> IF i \in new THEN "pooled" ELSE tag[i]]
      /\ cycle'.pc = "idle" /\ cycle'.hold = NoInstance /\ cycle'.surplus = {}
      /\ UNCHANGED <<owner, claim, row, rowInstance, req, candidates, target, rel, unused, reclaim, phase, backfill>>
  BY DEF Calm, TypeOK, HostingOK, SessionsOK, CycleWarmUp, Unlaunched, AtMost, Cycle0,
     CycleUnchanged, rows, requests, provisioning, boot, hosting
<1>1. RequestInv'
  BY ConstantsAssumption, <1>0 DEF TypeOK, HostingOK, SessionsOK, IInv, RequestInv, OwnerInv,
     Settled, Targets, Holding, Electing, Open, IsReservedFor, Unlaunched
<1>2. OwnerInv'
  BY ConstantsAssumption, <1>0 DEF TypeOK, HostingOK, SessionsOK, IInv, RequestInv, OwnerInv,
     Settled, Targets, Holding, Electing, Open, IsReservedFor
<1>3. ReleaseInv'
  BY ConstantsAssumption, <1>0 DEF TypeOK, HostingOK, SessionsOK, HandlersOK, IInv, ReleaseInv,
     RequestInv, OwnerInv, Settled, Targets, Holding, Electing, Open, IsReservedFor, Unlaunched
<1>4. UnusedInv'
  BY ConstantsAssumption, <1>0 DEF TypeOK, HostingOK, SessionsOK, SweepsOK, IInv, UnusedInv,
     RequestInv, Settled, Targets, Holding, Electing, Open, IsReservedFor
<1>5. ReclaimInv'
  BY ConstantsAssumption, <1>0 DEF TypeOK, HostingOK, SessionsOK, HandlersOK, SweepsOK, IInv,
     RequestInv, OwnerInv, ReclaimInv, ReleaseInv, Settled, Targets, Holding, Electing, Open,
     IsReservedFor
<1>6. CycleInv'
  BY ConstantsAssumption, <1>0 DEF TypeOK, HostingOK, SessionsOK, SweepsOK, IInv, CycleInv,
     ReleaseInv, Settled, Targets, Holding, Electing, Open, IsReservedFor
<1>7. BootInv'
  BY ConstantsAssumption, <1>0 DEF TypeOK, HostingOK, SessionsOK, ProcessOK, IInv, BootInv,
     InFlight, RequestInv, Settled, Targets, Holding, Electing, Open, IsReservedFor
<1> QED BY <1>1, <1>2, <1>3, <1>4, <1>5, <1>6, <1>7 DEF IInv

----------------------------------------------------------------------------
(* Restart, and the steps that touch no record.                             *)

(* A crash forgets every handler, and what was in flight fails.             *)
LEMMA CrashKeeps ==
  ASSUME TypeOK, TypeOK', IInv, Crash
  PROVE  IInv'
<1>0. /\ req' = [s \in Sessions |-> IF InFlight(s) THEN "failed" ELSE req[s]]
      /\ candidates' = [s \in Sessions |-> {}]
      /\ rel' = [i \in Instances |-> [h \in Holders |-> "none"]]
      /\ unused' = Idle0 /\ reclaim' = Reclaim0 /\ cycle' = Cycle0
      /\ phase' = "booting" /\ backfill' = {}
      /\ UNCHANGED <<tag, owner, claim, row, rowInstance, target>>
  BY DEF Crash, hosting, rows
<1>1. RequestInv'
  BY ConstantsAssumption, <1>0 DEF TypeOK, HostingOK, SessionsOK, IInv, RequestInv, OwnerInv,
     Settled, Targets, Holding, Electing, Open, IsReservedFor, Unlaunched, Holders, Idle0,
     Reclaim0, InFlight
<1>2. OwnerInv'
  BY ConstantsAssumption, <1>0 DEF TypeOK, HostingOK, SessionsOK, IInv, RequestInv, OwnerInv,
     Settled, Targets, Holding, Electing, Open, IsReservedFor, Unlaunched, Holders, Idle0,
     Reclaim0
<1>3. ReleaseInv'
  BY ConstantsAssumption, <1>0 DEF TypeOK, HostingOK, SessionsOK, HandlersOK, IInv, ReleaseInv,
     RequestInv, OwnerInv, Settled, Targets, Holding, Electing, Open, IsReservedFor, Unlaunched,
     Holders, Idle0, Reclaim0
<1>4. UnusedInv'
  BY ConstantsAssumption, <1>0 DEF TypeOK, HostingOK, SessionsOK, SweepsOK, IInv, UnusedInv,
     RequestInv, Settled, Targets, Holding, Electing, Open, IsReservedFor, Unlaunched, Holders,
     Idle0, Reclaim0
<1>5. ReclaimInv'
  BY ConstantsAssumption, <1>0 DEF TypeOK, HostingOK, SessionsOK, HandlersOK, SweepsOK, IInv,
     RequestInv, OwnerInv, ReclaimInv, ReleaseInv, Settled, Targets, Holding, Electing, Open,
     IsReservedFor, Unlaunched, Holders, Idle0, Reclaim0
<1>6. CycleInv'
  BY ConstantsAssumption, <1>0 DEF TypeOK, HostingOK, SessionsOK, SweepsOK, IInv, CycleInv,
     ReleaseInv, Settled, Targets, Holding, Electing, Open, IsReservedFor, Unlaunched, Holders,
     Idle0, Reclaim0, Cycle0
<1>7. BootInv'
  BY ConstantsAssumption, <1>0 DEF TypeOK, HostingOK, SessionsOK, ProcessOK, IInv, BootInv,
     InFlight, RequestInv, Settled, Targets, Holding, Electing, Open, IsReservedFor, Unlaunched,
     Holders, Idle0
<1> QED BY <1>1, <1>2, <1>3, <1>4, <1>5, <1>6, <1>7 DEF IInv

(* Whoever has an instance after a crash has it for good.                   *)
LEMMA BackfillReadKeeps ==
  ASSUME TypeOK, TypeOK', IInv, BackfillRead
  PROVE  IInv'
<1>0. /\ phase = "booting" /\ phase' = "backfilling"
      /\ backfill' = {<<i, owner[i]>> : i \in Tagged("reserved")}
      /\ UNCHANGED <<tag, owner, claim, row, rowInstance, req, candidates, target, rel, unused, reclaim,
                    cycle>>
  BY DEF BackfillRead, hosting, rows, requests, sweeps
<1>1. ASSUME NEW p \in backfill'
      PROVE  tag[p[1]] # "unlaunched" /\ (Settled(p[2]) \/ (target[p[2]] = p[1] /\ Open(p[2])))
  <2>1. PICK i \in Instances : tag[i] = "reserved" /\ p = <<i, owner[i]>>
    BY <1>0, <1>1 DEF Tagged
  <2>2. owner[i] \in Sessions /\ IsReservedFor(i, owner[i])
    BY <2>1 DEF TypeOK, HostingOK, IsReservedFor
  <2>3. Settled(owner[i]) \/ Targets(owner[i], i)
    BY <2>2 DEF IInv, OwnerInv
  <2>4. ~InFlight(owner[i])
    BY <1>0, <2>2 DEF IInv, BootInv
  <2> QED BY <2>1, <2>2, <2>3, <2>4 DEF Targets, InFlight, Holding
<1>2. \A s \in Sessions : ~InFlight(s)'
  BY <1>0 DEF IInv, BootInv, InFlight
<1>3. BootInv'
  BY <1>0, <1>1, <1>2 DEF BootInv, Settled, Open
<1>4. RequestInv' /\ OwnerInv' /\ ReleaseInv' /\ UnusedInv' /\ ReclaimInv' /\ CycleInv'
  BY <1>0 DEF IInv, RequestInv, Holding, Electing, Open, IsReservedFor, Unlaunched, OwnerInv,
     Settled, Targets, ReleaseInv, UnusedInv, ReclaimInv, CycleInv
<1> QED BY <1>3, <1>4 DEF IInv

(* Its claim is made good.                                                  *)
LEMMA BackfillClaimKeeps ==
  ASSUME TypeOK, TypeOK', IInv, BackfillClaim
  PROVE  IInv'
<1>1. /\ phase = "backfilling"
      /\ \/ \E p \in backfill :
              /\ \/ claim[p[1]] = NoSession /\ claim' = [claim EXCEPT ![p[1]] = p[2]]
                 \/ UNCHANGED claim
              /\ backfill' = backfill \ {p} /\ UNCHANGED phase
         \/ backfill = {} /\ phase' = "up" /\ UNCHANGED <<claim, backfill>>
      /\ UNCHANGED <<tag, owner, row, rowInstance, req, candidates, target, rel, unused, reclaim, cycle>>
  BY DEF Calm, TypeOK, HostingOK, SessionsOK, BackfillClaim, Claim, hosting, rows, requests,
     provisioning, sweeps
<1>2. ASSUME NEW p \in backfill, claim[p[1]] = NoSession, claim' = [claim EXCEPT ![p[1]] =
             p[2]], backfill' = backfill \ {p}, UNCHANGED phase
      PROVE  IInv'
  <2>1. RequestInv'
    BY ConstantsAssumption, <1>1, <1>2 DEF TypeOK, HostingOK, SessionsOK, IInv, RequestInv,
       OwnerInv, Settled, Targets, Holding, Electing, Open, IsReservedFor, Unlaunched, Holders,
       BootInv, InFlight
  <2>2. OwnerInv'
    BY ConstantsAssumption, <1>1, <1>2 DEF TypeOK, HostingOK, SessionsOK, IInv, RequestInv,
       OwnerInv, Settled, Targets, Holding, Electing, Open, IsReservedFor, Unlaunched, Holders,
       BootInv
  <2>3. ReleaseInv'
    BY ConstantsAssumption, <1>1, <1>2 DEF TypeOK, HostingOK, SessionsOK, HandlersOK, IInv,
       ReleaseInv, RequestInv, OwnerInv, Settled, Targets, Holding, Electing, Open,
       IsReservedFor, Unlaunched
  <2>4. ReclaimInv'
    BY ConstantsAssumption, <1>1, <1>2 DEF TypeOK, HostingOK, SessionsOK, HandlersOK, SweepsOK,
       IInv, RequestInv, OwnerInv, ReclaimInv, ReleaseInv, Settled, Targets, Holding, Electing,
       Open, IsReservedFor, Unlaunched, Holders
  <2>5. CycleInv'
    BY ConstantsAssumption, <1>1, <1>2 DEF TypeOK, HostingOK, SessionsOK, SweepsOK, IInv,
       CycleInv, ReleaseInv, Settled, Targets, Holding, Electing, Open, IsReservedFor, Unlaunched
  <2>6. BootInv'
    BY ConstantsAssumption, <1>1, <1>2 DEF TypeOK, HostingOK, SessionsOK, ProcessOK, IInv,
       BootInv, InFlight, RequestInv, Settled, Targets, Holding, Electing, Open, IsReservedFor
  <2>7. UnusedInv'
    BY <1>1, <1>2 DEF IInv, UnusedInv, Settled, Targets, Holding, Open
  <2> QED BY <2>1, <2>2, <2>3, <2>4, <2>5, <2>6, <2>7 DEF IInv
<1>3. ASSUME NEW p \in backfill, backfill' = backfill \ {p}, UNCHANGED <<claim, phase>>
      PROVE  IInv'
  <2>1. BootInv'
    BY ConstantsAssumption, <1>1, <1>3 DEF TypeOK, HostingOK, SessionsOK, ProcessOK, IInv,
       BootInv, InFlight, RequestInv, Settled, Targets, Holding, Electing, Open, IsReservedFor
  <2>2. RequestInv' /\ OwnerInv' /\ ReleaseInv' /\ UnusedInv' /\ ReclaimInv' /\ CycleInv'
    BY <1>1, <1>3 DEF IInv, RequestInv, Holding, Electing, Open, IsReservedFor, Unlaunched,
       OwnerInv, Settled, Targets, ReleaseInv, UnusedInv, ReclaimInv, CycleInv
  <2> QED BY <2>1, <2>2 DEF IInv
<1>4. ASSUME backfill = {}, phase' = "up", UNCHANGED <<claim, backfill>>
      PROVE  IInv'
  <2>1. BootInv'
    BY ConstantsAssumption, <1>1, <1>4 DEF TypeOK, HostingOK, SessionsOK, ProcessOK, IInv,
       BootInv, InFlight, RequestInv, Settled, Targets, Holding, Electing, Open, IsReservedFor
  <2>2. RequestInv' /\ OwnerInv' /\ ReleaseInv' /\ UnusedInv' /\ ReclaimInv' /\ CycleInv'
    BY <1>1, <1>4 DEF IInv, RequestInv, Holding, Electing, Open, IsReservedFor, Unlaunched,
       OwnerInv, Settled, Targets, ReleaseInv, UnusedInv, ReclaimInv, CycleInv
  <2> QED BY <2>1, <2>2 DEF IInv
<1> QED BY <1>1, <1>2, <1>3, <1>4

(* The poll leaves a reserved instance its session.                         *)
LEMMA PollStartedKeeps ==
  ASSUME Calm, TypeOK, TypeOK', IInv, NEW i \in Instances, PollStarted(i)
  PROVE  IInv'
<1>1. SameView
  BY DEF SameView, Calm, TypeOK, HostingOK, PollStarted, Succeeds, RunProvision, provisioning,
     Fails, Terminated, rows, requests, sweeps
<1> QED BY <1>1, SameViewKeeps

(* Provisioning, booting and probing touch none of the records.             *)
LEMMA OtherKeeps ==
  ASSUME TypeOK, TypeOK', IInv,
         \/ \E i \in Instances : Boot(i) \/ PollList(i) \/ LoseContainer(i)
         \/ \E i \in Instances, s \in Sessions :
              \/ AbandonProvision(i, s) \/ GetApiKey(i, s) \/ RemoveInstanceContainers(i, s)
              \/ CreateContainers(i, s) \/ AttemptFails(i, s)
         \/ ReconcileProbe \/ UNCHANGED vars
  PROVE  IInv'
<1>1. SameView
  BY DEF SameView, Boot, PollList, LoseContainer, AbandonProvision, ProvUnchanged, GetApiKey,
     RemoveInstanceContainers, CreateContainers, AttemptFails, ReconcileProbe, ProbeUnchanged,
     vars, hosting, rows, requests, provisioning, sweeps, boot
<1> QED BY <1>1, SameViewKeeps

----------------------------------------------------------------------------
(* The invariant, and what it says of the sessions.                         *)

(* The records a worker finds are in order.                                 *)
LEMMA IInvInit == Init => IInv
<1> SUFFICES ASSUME Init PROVE IInv
  OBVIOUS
<1>1. RequestInv
  BY ConstantsAssumption DEF Init, RequestInv, Holding, Electing, Open, IsReservedFor,
     Unlaunched, Holders, Tagged, Settled, Idle0, Reclaim0
<1>2. OwnerInv
  BY ConstantsAssumption DEF Init, OwnerInv, Settled, Targets, Holding, Electing, Open,
     IsReservedFor, Holders, Tagged, Idle0
<1>3. ReleaseInv
  BY ConstantsAssumption DEF Init, ReleaseInv, Settled, Open, IsReservedFor, Holders, Tagged,
     Idle0, Reclaim0, Cycle0
<1>4. UnusedInv
  BY ConstantsAssumption DEF Init, UnusedInv, Settled, Targets, Holding, Open, Holders, Tagged,
     Idle0, Reclaim0
<1>5. ReclaimInv
  BY ConstantsAssumption DEF Init, ReclaimInv, Settled, Open, Holders, Tagged, Idle0, Reclaim0,
     Cycle0
<1>6. CycleInv
  BY ConstantsAssumption DEF Init, CycleInv, Unlaunched, Holders, Tagged, Settled, Idle0,
     Reclaim0, Cycle0
<1>7. BootInv
  BY ConstantsAssumption DEF Init, BootInv, InFlight, Settled, Open, Holders, Tagged, Idle0,
     Reclaim0, Cycle0
<1> QED BY <1>1, <1>2, <1>3, <1>4, <1>5, <1>6, <1>7 DEF IInv

(* Every step keeps them so.                                                *)
LEMMA IInvStep == ASSUME Calm, TypeOK, TypeOK', IInv, Next PROVE IInv'
<1>1. ASSUME NEW s \in Sessions, RequestSession(s) \/ RequestStep(s) \/ CloseSession(s) \/ MissingProbe(s)
      PROVE  IInv'
  BY <1>1, RequestSessionKeeps, ClaimIdleKeeps, ListPooledKeeps, ReserveKeeps, AwaitHostKeeps,
     UndoClaimKeeps, ClaimPooledKeeps, StartPooledKeeps, LaunchReservedKeeps, ClaimLaunchedKeeps,
     AwaitLaunchedKeeps, InsertRowKeeps, CloseSessionKeeps, MissingProbeKeeps DEF RequestStep
<1>2. ASSUME NEW i \in Instances, Boot(i) \/ PollList(i) \/ PollStarted(i) \/ LoseContainer(i)
      PROVE  IInv'
  BY <1>2, PollStartedKeeps, OtherKeeps
<1>3. ASSUME NEW i \in Instances, NEW s \in Sessions, ProvisionStep(i, s)
      PROVE  IInv'
  BY <1>3, OtherKeeps, ProvisionedKeeps, ProvisionExhaustedKeeps DEF ProvisionStep
<1>4. ASSUME NEW i \in Instances, NEW h \in Holders, ReleaseStep(i, h)
      PROVE  IInv'
  <2>1. CASE h \in Sessions
    BY <1>4, <2>1, GetInstanceKeeps, UndeployKeeps, ReleaseClaimKeeps, TagIdleKeeps,
       ReleaseFailsKeeps, TerminateFailedKeeps, DropFailedKeeps DEF ReleaseStep
  <2>2. CASE h = PoolCycle
    BY <1>4, <2>2, PoolReleaseKeeps
  <2> QED BY <1>4, <2>1, <2>2 DEF Holders
<1>5. CASE UnusedStep
  BY <1>5, UnusedReadOpenKeeps, UnusedListReservedKeeps, UnusedReadClaimsKeeps,
     UnusedReleaseKeeps DEF UnusedStep
<1>6. CASE ReclaimStep
  BY <1>6, ReclaimReadOpenKeeps, ReclaimReadLiveKeeps, ReclaimReadClaimsKeeps, ReclaimNextKeeps
     DEF ReclaimStep
<1>7. CASE CycleStep
  BY <1>7, CycleListKeeps, CyclePoolStateKeeps, CycleClaimKeeps, CycleActKeeps,
     CycleUnclaimKeeps, CycleWarmUpKeeps DEF CycleStep
<1>8. CASE ReconcileStep \/ Crash \/ BackfillRead \/ BackfillClaim
  BY <1>8, OtherKeeps, ReconcileNextKeeps, CrashKeeps, BackfillReadKeeps, BackfillClaimKeeps DEF
     ReconcileStep
<1> QED BY <1>1, <1>2, <1>3, <1>4, <1>5, <1>6, <1>7, <1>8 DEF Next

(* The strengthening is an invariant of every calm run (releaseInstance,    *)
(* releaseUnusedInstances, reclaimStaleClaims, sizeIdlePool and             *)
(* backfillClaims, each against all the others).                            *)
THEOREM IInvCorrect == ASSUME Calm PROVE Spec => []IInv
<1>1. TypeOK /\ TypeOK' /\ IInv /\ [Next]_vars => IInv'
  BY IInvStep, OtherKeeps
<1> QED BY TypeCorrect, IInvInit, <1>1, PTL DEF Spec

(* What IInv says of an open session.                                       *)
LEMMA IInvKeepsInstance == IInv => SessionKeepsInstance
  BY DEF IInv, RequestInv, SessionKeepsInstance, Open, Holding

(* While a session is open its instance stays reserved and claimed for it:  *)
(* no release of a former session, no sweep and no pool cycle takes it      *)
(* (releaseUnusedInstances, reclaimStaleClaims, sizeIdlePool).              *)
THEOREM SessionKeepsInstanceCorrect == ASSUME Calm PROVE Spec => []SessionKeepsInstance
  BY IInvCorrect, IInvKeepsInstance, PTL

----------------------------------------------------------------------------
(* No two open sessions have the same instance also where the process is    *)
(* not calm: whatever calls fail and however old a listing is.  The sweeps  *)
(* and releases may then take a session's instance from it, but what is     *)
(* terminated stays so, and what is not is the session's by its claim, or,  *)
(* where that could not be recorded, because nobody else has heard of it.   *)

(* A session that may have an instance, and one that has claimed it only.   *)
Held(s) ==
  Open(s) \/ req[s] \in {"awaiting", "allocated", "undoing", "launched", "awaitingLaunch", "launchedUp"}
Kept(s) == Held(s) /\ req[s] # "undoing"
Elected(s) == req[s] \in {"claimed", "startingPooled"}

(* What is released of it now cannot harm.                                  *)
Past(s, i) == Settled(s) \/ (Held(s) /\ tag[i] = "terminated")

(* Nothing anybody holds in hand is about the instance, but of these.       *)
OnlyBy(i, S) ==
  /\ claim[i] \in S \union {NoSession}
  /\ cycle.hold # i /\ i \notin cycle.surplus
  /\ \A t \in Sessions : i \notin candidates[t] /\ (target[t] = i => t \in S)
  /\ \A h \in Holders \ S : rel[i][h] = "none"
  /\ \A p \in unused.list \union unused.work \union backfill : p[1] = i => p[2] \in S
  /\ \A w \in reclaim.work : w[1] = i => w[2] \in S
  /\ S = {} => i \notin unused.old

Fresh(s) ==
  /\ IsReservedFor(target[s], s) /\ OnlyBy(target[s], {s})
  /\ req[s] \notin {"awaiting", "allocated", "undoing"}

Grip(s) ==
  \/ tag[target[s]] = "terminated"
  \/ claim[target[s]] = s /\ tag[target[s]] \in {"idle", "reserved"}
  \/ Fresh(s)

ExRows ==
  \A s \in Sessions :
    /\ row[s] # "none" => req[s] = "done" /\ rowInstance[s] = target[s]
    /\ Held(s) \/ Elected(s) => target[s] \in Instances

ExElected == \A s \in Sessions : Elected(s) => claim[target[s]] = s

ExGrip == \A s \in Sessions : Held(s) => Grip(s)

ExOne == \A s, t \in Sessions : Kept(s) /\ Kept(t) /\ target[s] = target[t] => s = t

ExOwner ==
  \A i \in Instances : \A s \in Sessions :
    IsReservedFor(i, s) => Settled(s) \/ (Held(s) /\ target[s] = i)

ExRelease ==
  \A i \in Instances :
    /\ \A s \in Sessions : rel[i][s] # "none" => Past(s, i)
    /\ rel[i][PoolCycle] # "none" =>
         /\ rel[i][PoolCycle] \in {"start", "failed", "dropping"}
         /\ claim[i] = PoolCycle /\ cycle.hold # i
         /\ reclaim.pc = "reclaiming" /\ reclaim.cur = <<i, PoolCycle>>
         /\ \A w \in reclaim.work : w[1] = i => w[2] # PoolCycle

ExUnused ==
  /\ \A p \in unused.work : Past(p[2], p[1])
  /\ \A p \in unused.list : Settled(p[2]) \/ (Held(p[2]) /\ target[p[2]] = p[1])
  /\ unused.pc \in {"opened", "listed"} =>
       \A s \in Sessions : Held(s) /\ target[s] \in unused.old \ unused.used =>
         claim[target[s]] = s \/ tag[target[s]] = "terminated"

ExReclaim ==
  /\ \A s \in reclaim.open \union reclaim.settled : req[s] \in {"done", "failed"}
  /\ \A s \in reclaim.settled : s \in reclaim.open \/ Settled(s)
  /\ reclaim.pc = "listed" =>
       \A s \in reclaim.settled : Held(s) => target[s] \in reclaim.live \/ tag[target[s]] = "terminated"
  /\ \A w \in reclaim.work :
       /\ w[2] \in Sessions => \/ Settled(w[2])
                               \/ w[3] /\ Held(w[2]) /\ (target[w[2]] = w[1] => tag[w[1]] = "terminated")
       /\ w[2] = PoolCycle => claim[w[1]] = PoolCycle /\ cycle.hold # w[1]
       /\ \A v \in reclaim.work : v[1] = w[1] => v = w

ExCycle == cycle.hold # NoInstance => claim[cycle.hold] = PoolCycle

ExFresh == \A i \in Unlaunched : OnlyBy(i, {})

Exclusion == /\ ExRows /\ ExElected /\ ExGrip /\ ExOne /\ ExOwner /\ ExRelease
             /\ ExUnused /\ ExReclaim /\ ExCycle /\ ExFresh

----------------------------------------------------------------------------
(* What a step may do to the requests and rows,                             *)
SessionsMayMove ==
  \A s \in Sessions :
    /\ Settled(s) => Settled(s)'
    /\ req[s] \in {"done", "failed"} => req'[s] \in {"done", "failed"}
    /\ Held(s) => (Held(s)' /\ target'[s] = target[s]) \/ Settled(s)'
    /\ Kept(s) /\ Held(s)' /\ req[s] \notin {"awaiting", "allocated"} =>
         req'[s] \notin {"awaiting", "allocated", "undoing"}
    /\ req[s] = "undoing" => ~Kept(s)'
    /\ Held(s)' /\ ~Held(s) =>
         \/ /\ Elected(s) /\ target'[s] = target[s] /\ claim' = claim
            /\ \/ req'[s] = "undoing" /\ tag'[target[s]] = "terminated"
               \/ tag[target[s]] # "terminated" /\ IsReservedFor(target[s], s)'
         \/ /\ target'[s] \in Unlaunched /\ IsReservedFor(target[s], s)'
            /\ req'[s] = "launched"
    /\ Elected(s)' => \/ Elected(s) /\ target'[s] = target[s]
                      \/ target'[s] \in Instances /\ claim'[target'[s]] = s
    /\ row'[s] # "none" => /\ req'[s] = "done" /\ rowInstance'[s] = target'[s]
    /\ \/ target'[s] = target[s] \/ target'[s] \in candidates[s]
       \/ target'[s] \in Unlaunched /\ Held(s)' /\ IsReservedFor(target[s], s)'
    /\ candidates'[s] \subseteq candidates[s] \union Tagged("idle") \union Tagged("pooled")

(* to the tags,                                                             *)
TagsMayMove ==
  \A i \in Instances :
    /\ tag[i] = "terminated" => tag'[i] = "terminated"
    /\ tag'[i] = "unlaunched" => tag[i] = "unlaunched"
    /\ \/ tag'[i] = tag[i] /\ (tag[i] = "reserved" => owner'[i] = owner[i])
       \/ tag'[i] = "terminated"
       \/ tag[i] = "unlaunched" /\ tag'[i] \in {"idle", "pooled"}
       \/ \E s \in Sessions : Elected(s) /\ target[s] = i /\ Held(s)' /\ target'[s] = i /\ IsReservedFor(i, s)'
       \/ tag[i] = "unlaunched" /\ \E s \in Sessions : Held(s)' /\ target'[s] = i /\ IsReservedFor(i, s)'
       \/ tag'[i] = "idle" /\ \E h \in Holders : rel[i][h] = "unclaimed"
       \/ tag'[i] = "pooled" /\ cycle.hold = i

(* to the claims,                                                           *)
Claimed(i, h) ==
  \/ h \in Sessions /\ ~Elected(h) /\ Elected(h)' /\ target'[h] = i /\ i \in candidates[h]
  \/ h \in Sessions /\ req[h] = "launched" /\ target[h] = i
  \/ \E p \in backfill : p[1] = i /\ p[2] = h
  \/ h = PoolCycle /\ i \in cycle.surplus

Unclaimed(i, h) ==
  \/ rel[i][h] # "none" /\ (h = PoolCycle => rel'[i][h] = "none")
  \/ \E w \in reclaim.work : w[1] = i /\ w[2] = h /\ w[3] /\ w \notin reclaim'.work
  \/ h \in Sessions /\ req[h] \in {"undoing", "undoingStart"} /\ ~Held(h)'
  \/ h = PoolCycle /\ cycle.hold = i /\ cycle'.hold = NoInstance

ClaimsMayMove ==
  \A i \in Instances :
    \/ claim'[i] = claim[i]
    \/ claim[i] = NoSession /\ \E h \in Holders : claim'[i] = h /\ Claimed(i, h)
    \/ claim'[i] = NoSession /\ claim[i] \in Holders /\ Unclaimed(i, claim[i])

(* to the releases                                                          *)
ReleasesMayMove ==
  \A i \in Instances, h \in Holders :
    /\ rel[i][h] = "none" /\ rel'[i][h] # "none" => rel'[i][h] = "start" /\
         \/ h \in Sessions /\ Held(h) /\ Settled(h)' /\ target[h] = i
         \/ \E p \in unused.work : p[1] = i /\ p[2] = h
         \/ /\ \E w \in reclaim.work : w[1] = i /\ w[2] = h /\ ~w[3] /\ w \notin reclaim'.work
            /\ reclaim'.work \subseteq reclaim.work
            /\ reclaim'.pc = "reclaiming" /\ reclaim'.cur = <<i, h>>
    /\ rel[i][PoolCycle] \in {"start", "failed", "dropping"} =>
         rel'[i][PoolCycle] \in {"none", "start", "failed", "dropping"}

(* and to what the sweeps and the boot hold in hand.                        *)
ListsMayMove ==
  /\ \A i \in Instances, h \in Holders :
       /\ <<i, h>> \in unused'.list \union unused'.work \union backfill' =>
            <<i, h>> \in unused.list \union unused.work \union backfill \/ IsReservedFor(i, h)
  /\ \A w \in reclaim'.work : w \in reclaim.work \/ (claim[w[1]] = w[2] /\ reclaim.pc = "listed")
  /\ unused'.old \intersect Unlaunched \subseteq unused.old
  /\ cycle'.surplus \subseteq cycle.surplus \union Tagged("idle")
  /\ \/ cycle'.hold \in {NoInstance, cycle.hold}
     \/ cycle'.hold \in cycle.surplus /\ claim[cycle'.hold] = NoSession /\ claim'[cycle'.hold] = PoolCycle
  /\ unused' # unused => \/ UnusedStep \/ Crash
  /\ reclaim' # reclaim => \/ ReclaimStep \/ Crash

(* Requests and rows move so.                                               *)
LEMMA SessionsMay == ASSUME TypeOK, TypeOK', Exclusion, Next PROVE SessionsMayMove
<1> USE ConstantsAssumption
<1>r. \A s \in Sessions : Open(s) => req[s] = "done"
  BY DEF Exclusion, ExRows, Open
<1>1. ASSUME NEW s \in Sessions, RequestSession(s) \/ RequestStep(s) PROVE SessionsMayMove
  <2> USE DEF TypeOK, SessionsOK, Settled, Held, Kept, Elected, Open
  <2>1. CASE ClaimIdle(s) \/ ClaimPooled(s)
    <3>1. /\ req[s] \in {"claiming", "pooling"}
          /\ \A t \in Sessions : candidates'[t] \subseteq candidates[t]
          /\ \/ UNCHANGED <<req, target>>
             \/ \E i \in candidates[s] :
                  /\ claim'[i] = s /\ target' = [target EXCEPT ![s] = i]
                  /\ \E to \in {"claimed", "startingPooled"} : req' = [req EXCEPT ![s] = to]
          /\ UNCHANGED <<row, rowInstance>>
      BY <2>1 DEF ClaimIdle, ClaimPooled, TryCandidate, Claim, rows
    <3> QED BY <1>r, <3>1 DEF SessionsMayMove, Exclusion, ExRows
  <2>2. CASE LaunchReserved(s)
    <3>1. /\ req[s] \in {"launching", "pooling"}
          /\ \/ \E i \in Unlaunched :
                  /\ req' = [req EXCEPT ![s] = "launched"] /\ target' = [target EXCEPT ![s] = i]
                  /\ IsReservedFor(i, s)'
             \/ req' = [req EXCEPT ![s] = "failed"] /\ UNCHANGED target
          /\ UNCHANGED <<row, rowInstance, candidates>>
      BY <2>2 DEF LaunchReserved, rows, IsReservedFor, HostingOK, Unlaunched
    <3> QED BY <1>r, <3>1 DEF SessionsMayMove, Exclusion, ExRows, Unlaunched
  <2>3. CASE InsertRow(s)
    <3>1. /\ req[s] \in {"allocated", "launchedUp"}
          /\ \/ /\ req' = [req EXCEPT ![s] = "done"] /\ row' = [row EXCEPT ![s] = "PENDING"]
                /\ rowInstance' = [rowInstance EXCEPT ![s] = target[s]]
             \/ req' = [req EXCEPT ![s] = "failed"] /\ UNCHANGED <<row, rowInstance>>
          /\ UNCHANGED <<target, candidates>>
      BY <2>3 DEF InsertRow, rows
    <3> QED BY <1>r, <3>1 DEF SessionsMayMove, Exclusion, ExRows
  <2>4. CASE Reserve(s) \/ StartPooled(s)
    <3>1. /\ Elected(s) /\ UNCHANGED <<row, rowInstance, target, claim, candidates>>
          /\ \/ /\ req' = [req EXCEPT ![s] = "awaiting"]
                /\ tag[target[s]] # "terminated" /\ Retag(target[s], "reserved", s)
             \/ req' = [req EXCEPT ![s] = "undoing"] /\ Terminated(target[s])
             \/ req' = [req EXCEPT ![s] = "undoingStart"]
      BY <2>4 DEF Reserve, StartPooled, rows
    <3>2. target[s] \in Instances
      BY <3>1 DEF Exclusion, ExRows
    <3> QED BY <1>r, <3>1, <3>2 DEF SessionsMayMove, Exclusion, ExRows, Retag, Terminated, IsReservedFor, HostingOK
  <2>5. CASE RequestSession(s) \/ ListPooled(s) \/ AwaitHost(s) \/ UndoClaim(s)
             \/ ClaimLaunched(s) \/ AwaitLaunched(s)
    <3>1. /\ \/ req[s] \in {"none", "claiming", "undoingStart"} /\
                  \E to \in {"claiming", "pooling", "launching"} : req' = [req EXCEPT ![s] = to]
             \/ req[s] = "awaiting" /\ \E to \in {"undoing", "allocated"} : req' = [req EXCEPT ![s] = to]
             \/ req[s] = "undoing" /\ req' = [req EXCEPT ![s] = "failed"]
             \/ req[s] = "launched" /\ req' = [req EXCEPT ![s] = "awaitingLaunch"]
             \/ req[s] = "awaitingLaunch" /\ \E to \in {"launchedUp", "failed"} : req' = [req EXCEPT ![s] = to]
          /\ \A t \in Sessions : candidates'[t] \subseteq candidates[t] \union Tagged("idle") \union Tagged("pooled")
          /\ UNCHANGED <<row, rowInstance, target>>
      BY <2>5 DEF RequestSession, ListPooled, AwaitHost, UndoClaim, ClaimLaunched, AwaitLaunched, rows
    <3> QED BY <1>r, <3>1 DEF SessionsMayMove, Exclusion, ExRows
  <2> QED BY <1>1, <2>1, <2>2, <2>3, <2>4, <2>5 DEF RequestStep
<1>2. CASE /\ \A s \in Sessions : row'[s] = row[s] \/ (Open(s) /\ row'[s] \in {"ACTIVE", "CLOSED"})
           /\ UNCHANGED <<rowInstance, req, target, candidates>>
  BY <1>2 DEF SessionsMayMove, TypeOK, SessionsOK, Exclusion, ExRows, Settled, Held, Kept, Elected, Open
<1>3. ASSUME NEW s \in Sessions, CloseSession(s) \/ MissingProbe(s) PROVE SessionsMayMove
  BY <1>2, <1>3 DEF CloseSession, CloseAndRelease, MissingProbe, ProbeUnchanged, requests, rows,
     TypeOK, SessionsOK, Open
<1>4. ASSUME NEW i \in Instances, Boot(i) \/ PollList(i) \/ PollStarted(i) \/ LoseContainer(i)
      PROVE  SessionsMayMove
  BY <1>2, <1>4 DEF Boot, PollList, PollStarted, LoseContainer, requests, rows
<1>5. ASSUME NEW i \in Instances, NEW s \in Sessions, ProvisionStep(i, s) PROVE SessionsMayMove
  <2>1. CASE AbandonProvision(i, s) \/ GetApiKey(i, s) \/ RemoveInstanceContainers(i, s)
             \/ CreateContainers(i, s) \/ AttemptFails(i, s)
    BY <1>2, <2>1 DEF AbandonProvision, GetApiKey, RemoveInstanceContainers, CreateContainers,
       AttemptFails, ProvUnchanged, requests, rows
  <2>2. CASE Provisioned(i, s)
    BY <1>2, <2>2 DEF Provisioned, ActivateOn, ProvUnchanged, requests, rows, Open
  <2>3. CASE ProvisionExhausted(i, s)
    BY <1>2, <2>3 DEF ProvisionExhausted, CloseAndRelease, ProvUnchanged, requests, rows,
       TypeOK, SessionsOK, Open
  <2> QED BY <1>5, <2>1, <2>2, <2>3 DEF ProvisionStep
<1>6. ASSUME NEW i \in Instances, NEW h \in Holders, ReleaseStep(i, h) PROVE SessionsMayMove
  BY <1>2, <1>6 DEF ReleaseStep, GetInstance, Undeploy, ReleaseClaim, TagIdle, ReleaseFails,
     TerminateFailed, DropFailed, RelUnchanged, requests, rows
<1>7. CASE UnusedStep \/ ReclaimStep \/ CycleStep
  BY <1>2, <1>7 DEF UnusedStep, ReclaimStep, CycleStep, UnusedReadOpen, UnusedListReserved,
     UnusedReadClaims, UnusedRelease, ReclaimReadOpen, ReclaimReadLive, ReclaimReadClaims,
     ReclaimNext, CycleList, CyclePoolState, CycleClaim, CycleAct, CycleUnclaim, CycleWarmUp,
     SweepUnchanged, CycleUnchanged, requests, rows
<1>8. CASE ReconcileStep
  BY <1>2, <1>8 DEF ReconcileStep, ReconcileProbe, ReconcileNext, ActivateOn, ProbeUnchanged,
     requests, rows, Open
<1>9. CASE Crash
  BY <1>9 DEF Crash, rows, SessionsMayMove, TypeOK, SessionsOK, Exclusion, ExRows, Settled, InFlight,
     Held, Kept, Elected, Open
<1>10. CASE BackfillRead \/ BackfillClaim
  BY <1>2, <1>10 DEF BackfillRead, BackfillClaim, requests, rows
<1> QED BY <1>1, <1>3, <1>4, <1>5, <1>6, <1>7, <1>8, <1>9, <1>10 DEF Next

(* So do the tags.                                                          *)
LEMMA TagsMay == ASSUME TypeOK, TypeOK', Exclusion, Next PROVE TagsMayMove
<1> USE ConstantsAssumption
<1>1. CASE UNCHANGED <<tag, owner>>
  BY <1>1 DEF TagsMayMove, IsReservedFor
<1>t. ASSUME NEW i \in Instances, Terminated(i) PROVE TagsMayMove
  BY <1>t DEF TagsMayMove, Terminated, TypeOK, HostingOK
<1>2. ASSUME NEW s \in Sessions, RequestSession(s) \/ RequestStep(s) \/ CloseSession(s) \/ MissingProbe(s)
      PROVE  TagsMayMove
  <2>1. CASE Reserve(s) \/ StartPooled(s)
    <3>1. target[s] \in Instances /\ Elected(s)
      BY <2>1 DEF Reserve, StartPooled, Elected, Exclusion, ExRows
    <3>2. CASE /\ tag[target[s]] # "terminated" /\ Retag(target[s], "reserved", s) /\ UNCHANGED target
               /\ req' = [req EXCEPT ![s] = "awaiting"]
      BY <3>1, <3>2 DEF TagsMayMove, Retag, Held, IsReservedFor, TypeOK, HostingOK, SessionsOK
    <3>3. CASE UNCHANGED hosting
      BY <1>1, <3>3 DEF hosting
    <3> QED BY <1>t, <2>1, <3>1, <3>2, <3>3 DEF Reserve, StartPooled
  <2>2. CASE LaunchReserved(s)
    <3>1. ASSUME NEW i \in Unlaunched, tag' = [tag EXCEPT ![i] = "reserved"], owner' = [owner EXCEPT ![i] = s],
                 target' = [target EXCEPT ![s] = i], req' = [req EXCEPT ![s] = "launched"]
          PROVE  TagsMayMove
      BY <3>1 DEF TagsMayMove, Held, Unlaunched, IsReservedFor, TypeOK, HostingOK, SessionsOK
    <3>2. ASSUME NEW i \in Unlaunched, Terminated(i) PROVE TagsMayMove
      BY <1>t, <3>2 DEF Unlaunched
    <3> QED BY <1>1, <2>2, <3>1, <3>2 DEF LaunchReserved, hosting
  <2>3. CASE RequestSession(s) \/ ClaimIdle(s) \/ ListPooled(s) \/ AwaitHost(s) \/ UndoClaim(s)
             \/ ClaimPooled(s) \/ ClaimLaunched(s) \/ AwaitLaunched(s) \/ InsertRow(s)
             \/ CloseSession(s) \/ MissingProbe(s)
    BY <1>1, <2>3 DEF RequestSession, ClaimIdle, ListPooled, AwaitHost, UndoClaim, ClaimPooled,
       ClaimLaunched, AwaitLaunched, InsertRow, CloseSession, MissingProbe, hosting,
       TryCandidate, ProbeUnchanged
  <2> QED BY <1>2, <2>1, <2>2, <2>3 DEF RequestStep
<1>3. ASSUME NEW i \in Instances, Boot(i) \/ PollList(i) \/ PollStarted(i) \/ LoseContainer(i)
      PROVE  TagsMayMove
  BY <1>1, <1>t, <1>3 DEF Boot, PollList, PollStarted, LoseContainer, hosting
<1>4. ASSUME NEW i \in Instances, NEW s \in Sessions, ProvisionStep(i, s) PROVE TagsMayMove
  BY <1>1, <1>4 DEF ProvisionStep, AbandonProvision, GetApiKey, RemoveInstanceContainers,
     CreateContainers, AttemptFails, Provisioned, ProvisionExhausted, hosting
<1>5. ASSUME NEW i \in Instances, NEW h \in Holders, ReleaseStep(i, h) PROVE TagsMayMove
  <2>1. CASE rel[i][h] = "unclaimed" /\ tag[i] # "terminated" /\ Retag(i, "idle", NoSession)
    BY <2>1 DEF TagsMayMove, Retag, TypeOK, HostingOK
  <2> QED BY <1>1, <1>t, <1>5, <2>1 DEF ReleaseStep, TagIdle, TerminateFailed, GetInstance, Undeploy,
         ReleaseClaim, ReleaseFails, DropFailed, hosting
<1>6. CASE UnusedStep \/ ReclaimStep \/ ReconcileStep \/ Crash \/ BackfillRead \/ BackfillClaim
  BY <1>1, <1>6 DEF UnusedStep, ReclaimStep, ReconcileStep, UnusedReadOpen, UnusedListReserved,
     UnusedReadClaims, UnusedRelease, ReclaimReadOpen, ReclaimReadLive, ReclaimReadClaims,
     ReclaimNext, ReconcileProbe, ReconcileNext, Crash, BackfillRead, BackfillClaim, hosting,
     ProbeUnchanged
<1>7. CASE CycleStep
  <2>1. CASE CycleList \/ CycleWarmUp
    <3>1. ASSUME NEW new \in SUBSET Unlaunched, NEW to \in {"idle", "pooled"}, UNCHANGED owner,
                 tag' = [i \in Instances |-> IF i \in new THEN to ELSE tag[i]]
          PROVE  TagsMayMove
      BY <3>1 DEF TagsMayMove, TypeOK, HostingOK, IsReservedFor, Unlaunched
    <3>2. CASE CycleList
      BY <1>1, <3>1, <3>2 DEF CycleList
    <3>3. CASE CycleWarmUp
      BY <3>1, <3>3 DEF CycleWarmUp
    <3> QED BY <2>1, <3>2, <3>3
  <2>2. CASE CycleAct
    <3>1. cycle.hold \in Instances \union {NoInstance}
      BY DEF TypeOK, SweepsOK
    <3>2. \/ UNCHANGED <<tag, owner>>
          \/ /\ owner' = [owner EXCEPT ![cycle.hold] = NoSession]
             /\ \/ tag' = [tag EXCEPT ![cycle.hold] = "terminated"]
                \/ tag[cycle.hold] # "terminated" /\ tag' = [tag EXCEPT ![cycle.hold] = "pooled"]
      BY <2>2 DEF CycleAct, Retag, Terminated, hosting
    <3> QED BY <3>1, <3>2 DEF TagsMayMove, TypeOK, HostingOK, IsReservedFor
  <2>3. CASE CyclePoolState \/ CycleClaim \/ CycleUnclaim
    BY <1>1, <2>3 DEF CyclePoolState, CycleClaim, CycleUnclaim, hosting
  <2> QED BY <1>7, <2>1, <2>2, <2>3 DEF CycleStep
<1> QED BY <1>2, <1>3, <1>4, <1>5, <1>6, <1>7 DEF Next

(* So do the claims.                                                        *)
LEMMA ClaimsMay == ASSUME TypeOK, TypeOK', Exclusion, Next PROVE ClaimsMayMove
<1> USE ConstantsAssumption
<1>1. CASE UNCHANGED claim
  BY <1>1 DEF ClaimsMayMove
<1>2. ASSUME NEW i \in Instances, NEW h \in Holders, claim[i] = NoSession,
             claim' = [claim EXCEPT ![i] = h], Claimed(i, h)
      PROVE  ClaimsMayMove
  BY <1>2 DEF ClaimsMayMove, TypeOK, SessionsOK
<1>3. ASSUME NEW i \in Instances, NEW h \in Holders, DropClaim(i, h), Unclaimed(i, h)
      PROVE  ClaimsMayMove
  BY <1>3 DEF ClaimsMayMove, DropClaim, TypeOK, SessionsOK
<1>4. ASSUME NEW s \in Sessions, RequestSession(s) \/ RequestStep(s) \/ CloseSession(s) \/ MissingProbe(s)
      PROVE  ClaimsMayMove
  <2>1. CASE UndoClaim(s)
    <3>1. target[s] \in Instances \/ target[s] = NoInstance
      BY DEF TypeOK, SessionsOK
    <3>2. s \in Holders /\ ~Held(s)' /\ req[s] \in {"undoing", "undoingStart"} /\ DropClaim(target[s], s)
      BY <2>1 DEF UndoClaim, Exclusion, ExRows, Held, Open, rows, TypeOK, SessionsOK, Holders
    <3>3. CASE target[s] = NoInstance
      BY <1>1, <3>2, <3>3 DEF DropClaim, TypeOK, SessionsOK
    <3> QED BY <1>3, <3>1, <3>2, <3>3 DEF Unclaimed
  <2>2. CASE ClaimIdle(s) \/ ClaimPooled(s)
    <3>1. ASSUME NEW i \in candidates[s], Claim(i, s), target' = [target EXCEPT ![s] = i],
                 req[s] \in {"claiming", "pooling"},
                 \E to \in {"claimed", "startingPooled"} : req' = [req EXCEPT ![s] = to]
          PROVE  ClaimsMayMove
      <4>1. i \in Instances /\ s \in Holders /\ Claimed(i, s)
        BY <3>1 DEF Claimed, Elected, TypeOK, SessionsOK, Holders
      <4> QED BY <1>2, <3>1, <4>1 DEF Claim
    <3> QED BY <1>1, <2>2, <3>1 DEF ClaimIdle, ClaimPooled, TryCandidate
  <2>3. CASE ClaimLaunched(s)
    <3>1. target[s] \in Instances /\ s \in Holders /\ Claimed(target[s], s)
      BY <2>3 DEF ClaimLaunched, Exclusion, ExRows, Held, Claimed, Holders
    <3> QED BY <1>1, <1>2, <2>3, <3>1 DEF ClaimLaunched, Claim
  <2> QED BY <1>1, <1>4, <2>1, <2>2, <2>3 DEF RequestStep, RequestSession, ListPooled, Reserve,
         AwaitHost, StartPooled, LaunchReserved, AwaitLaunched, InsertRow, CloseSession,
         MissingProbe, ProbeUnchanged
<1>5. ASSUME NEW i \in Instances, Boot(i) \/ PollList(i) \/ PollStarted(i) \/ LoseContainer(i)
      PROVE  ClaimsMayMove
  BY <1>1, <1>5 DEF Boot, PollList, PollStarted, LoseContainer
<1>6. ASSUME NEW i \in Instances, NEW s \in Sessions, ProvisionStep(i, s) PROVE ClaimsMayMove
  BY <1>1, <1>6 DEF ProvisionStep, AbandonProvision, GetApiKey, RemoveInstanceContainers,
     CreateContainers, AttemptFails, Provisioned, ProvisionExhausted, ProvUnchanged
<1>7. ASSUME NEW i \in Instances, NEW h \in Holders, ReleaseStep(i, h) PROVE ClaimsMayMove
  <2>1. CASE GetInstance(i, h) \/ DropFailed(i, h)
    <3>1. UNCHANGED claim \/ (DropClaim(i, h) /\ rel[i][h] # "none" /\ rel'[i][h] = "none")
      BY <2>1 DEF GetInstance, DropFailed, RelStep, TypeOK, HandlersOK
    <3> QED BY <1>1, <1>3, <3>1 DEF Unclaimed
  <2>2. CASE ReleaseClaim(i, h)
    <3>1. h # PoolCycle
      BY <2>2 DEF ReleaseClaim, Exclusion, ExRelease
    <3> QED BY <1>3, <2>2, <3>1 DEF ReleaseClaim, Unclaimed
  <2> QED BY <1>1, <1>7, <2>1, <2>2 DEF ReleaseStep, Undeploy, TagIdle, ReleaseFails, TerminateFailed
<1>8. CASE UnusedStep \/ ReconcileStep \/ Crash \/ BackfillRead
  BY <1>1, <1>8 DEF UnusedStep, ReconcileStep, UnusedReadOpen, UnusedListReserved,
     UnusedReadClaims, UnusedRelease, ReconcileProbe, ReconcileNext, Crash, BackfillRead,
     ProbeUnchanged
<1>9. CASE ReclaimStep
  <2>1. CASE ReclaimNext
    <3>1. ASSUME NEW w \in reclaim.work, w[3], DropClaim(w[1], w[2]),
                 reclaim' = [reclaim EXCEPT !.work = @ \ {w}, !.cur = NoPair]
          PROVE ClaimsMayMove
      <4>1. w[1] \in Instances /\ w[2] \in Holders /\ w \notin reclaim'.work
        BY <3>1 DEF TypeOK, SweepsOK
      <4> QED BY <1>3, <3>1, <4>1 DEF Unclaimed
    <3> QED BY <1>1, <2>1, <3>1 DEF ReclaimNext
  <2> QED BY <1>1, <1>9, <2>1 DEF ReclaimStep, ReclaimReadOpen, ReclaimReadLive, ReclaimReadClaims
<1>10. CASE CycleStep
  <2>1. CASE CycleClaim
    <3>1. \A i \in cycle.surplus : i \in Instances /\ Claimed(i, PoolCycle)
      BY DEF Claimed, TypeOK, SweepsOK
    <3> QED BY <1>1, <1>2, <2>1, <3>1 DEF CycleClaim, Claim, Holders
  <2>2. CASE CycleUnclaim
    <3>1. CASE cycle.hold \in Instances
      <4>1. Unclaimed(cycle.hold, PoolCycle)
        BY <2>2 DEF CycleUnclaim, Unclaimed, TypeOK, SweepsOK
      <4> QED BY <1>3, <2>2, <3>1, <4>1 DEF CycleUnclaim, Holders
    <3>2. CASE cycle.hold = NoInstance
      BY <1>1, <2>2, <3>2 DEF CycleUnclaim, DropClaim, TypeOK, SessionsOK
    <3> QED BY <3>1, <3>2 DEF TypeOK, SweepsOK
  <2> QED BY <1>1, <1>10, <2>1, <2>2 DEF CycleStep, CycleList, CyclePoolState, CycleAct, CycleWarmUp
<1>11. CASE BackfillClaim
  <2>1. \A p \in backfill : p[1] \in Instances /\ p[2] \in Holders /\ Claimed(p[1], p[2])
    BY DEF TypeOK, ProcessOK, Holders, Claimed
  <2> QED BY <1>1, <1>2, <1>11, <2>1 DEF BackfillClaim, Claim
<1> QED BY <1>4, <1>5, <1>6, <1>7, <1>8, <1>9, <1>10, <1>11 DEF Next

(* So do the releases.                                                      *)
LEMMA ReleasesMay == ASSUME TypeOK, TypeOK', Exclusion, Next PROVE ReleasesMayMove
<1> USE ConstantsAssumption
<1>1. CASE UNCHANGED rel
  BY <1>1 DEF ReleasesMayMove
<1>2. ASSUME NEW i \in Instances \union {NoInstance}, NEW h \in Holders, StartRelease(i, h),
             \/ h \in Sessions /\ Held(h) /\ Settled(h)' /\ target[h] = i
             \/ \E p \in unused.work : p[1] = i /\ p[2] = h
             \/ /\ \E w \in reclaim.work : w[1] = i /\ w[2] = h /\ ~w[3] /\ w \notin reclaim'.work
                /\ reclaim'.work \subseteq reclaim.work
                /\ reclaim'.pc = "reclaiming" /\ reclaim'.cur = <<i, h>>
      PROVE  ReleasesMayMove
  BY <1>2 DEF ReleasesMayMove, StartRelease, TypeOK, HandlersOK, Holders
<1>c. ASSUME NEW s \in Sessions, Open(s), CloseAndRelease(s), UNCHANGED requests PROVE ReleasesMayMove
  <2>1. rowInstance[s] = target[s] /\ Settled(s)' /\ Held(s)
    BY <1>c DEF Exclusion, ExRows, Open, Settled, CloseAndRelease, Held, requests, TypeOK, SessionsOK
  <2> QED BY <1>2, <1>c, <2>1 DEF CloseAndRelease, Holders, TypeOK, SessionsOK
<1>3. ASSUME NEW s \in Sessions, RequestSession(s) \/ RequestStep(s) \/ CloseSession(s) \/ MissingProbe(s)
      PROVE  ReleasesMayMove
  <2>1. CASE CloseSession(s)
    BY <1>c, <2>1 DEF CloseSession
  <2> QED BY <1>1, <1>3, <2>1 DEF RequestStep, RequestSession, ClaimIdle, ListPooled, UndoClaim, ClaimPooled,
         TryCandidate, MissingProbe, ProbeUnchanged, Reserve, AwaitHost, StartPooled, LaunchReserved,
         ClaimLaunched, AwaitLaunched, InsertRow
<1>4. ASSUME NEW i \in Instances, Boot(i) \/ PollList(i) \/ PollStarted(i) \/ LoseContainer(i)
      PROVE  ReleasesMayMove
  BY <1>1, <1>4 DEF Boot, PollList, PollStarted, LoseContainer
<1>5. ASSUME NEW i \in Instances, NEW s \in Sessions, ProvisionStep(i, s) PROVE ReleasesMayMove
  <2>1. CASE ProvisionExhausted(i, s)
    BY <1>1, <1>c, <2>1 DEF ProvisionExhausted, ProvUnchanged
  <2> QED BY <1>1, <1>5, <2>1 DEF ProvisionStep, AbandonProvision, GetApiKey, RemoveInstanceContainers,
         CreateContainers, AttemptFails, Provisioned
<1>6. ASSUME NEW i \in Instances, NEW h \in Holders, ReleaseStep(i, h) PROVE ReleasesMayMove
  <2>1. /\ rel[i][h] # "none"
        /\ \E to \in {"none", "deployed", "torn", "unclaimed", "failed", "dropping"} :
             /\ rel' = [rel EXCEPT ![i][h] = to]
             /\ h = PoolCycle => to \in {"none", "failed", "dropping"}
    BY <1>6 DEF ReleaseStep, GetInstance, Undeploy, ReleaseClaim, TagIdle, ReleaseFails, TerminateFailed,
       DropFailed, RelStep, Exclusion, ExRelease, IsReservedFor, TypeOK, HostingOK
  <2> QED BY <2>1 DEF ReleasesMayMove, TypeOK, HandlersOK, Holders
<1>7. CASE UnusedStep
  <2>1. CASE UnusedRelease
    BY <1>1, <1>2, <2>1 DEF UnusedRelease, TypeOK, SweepsOK, Holders
  <2> QED BY <1>1, <1>7, <2>1 DEF UnusedStep, UnusedReadOpen, UnusedListReserved, UnusedReadClaims
<1>8. CASE ReclaimStep
  <2>1. CASE ReclaimNext
    <3>1. ASSUME NEW w \in reclaim.work, ~w[3], StartRelease(w[1], w[2]),
                 reclaim' = [reclaim EXCEPT !.work = @ \ {w}, !.cur = <<w[1], w[2]>>],
                 reclaim.pc = "reclaiming"
          PROVE  ReleasesMayMove
      <4>1. /\ w[1] \in Instances /\ w[2] \in Holders /\ w \notin reclaim'.work
            /\ reclaim'.work \subseteq reclaim.work
            /\ reclaim'.pc = "reclaiming" /\ reclaim'.cur = <<w[1], w[2]>>
        BY <3>1 DEF TypeOK, SweepsOK
      <4> QED BY <1>2, <3>1, <4>1
    <3> QED BY <1>1, <2>1, <3>1 DEF ReclaimNext
  <2> QED BY <1>1, <1>8, <2>1 DEF ReclaimStep, ReclaimReadOpen, ReclaimReadLive, ReclaimReadClaims
<1>9. CASE CycleStep \/ ReconcileStep \/ BackfillRead \/ BackfillClaim
  BY <1>1, <1>9 DEF CycleStep, CycleList, CyclePoolState, CycleClaim, CycleAct, CycleUnclaim,
     CycleWarmUp, ReconcileStep, ReconcileProbe, ReconcileNext, BackfillRead, BackfillClaim,
     CycleUnchanged, ProbeUnchanged
<1>10. CASE Crash
  BY <1>10 DEF Crash, ReleasesMayMove, Holders
<1> QED BY <1>3, <1>4, <1>5, <1>6, <1>7, <1>8, <1>9, <1>10 DEF Next

(* So does what the sweeps and the boot hold in hand.                       *)
LEMMA ListsMay == ASSUME TypeOK, TypeOK', Exclusion, Next PROVE ListsMayMove
<1> USE ConstantsAssumption
<1>1. CASE UNCHANGED <<unused, reclaim, cycle, backfill>>
  BY <1>1 DEF ListsMayMove, TypeOK, SweepsOK
<1>2. ASSUME NEW s \in Sessions, RequestSession(s) \/ RequestStep(s) \/ CloseSession(s) \/ MissingProbe(s)
      PROVE  ListsMayMove
  BY <1>1, <1>2 DEF RequestStep, RequestSession, ClaimIdle, ListPooled, UndoClaim, ClaimPooled,
     TryCandidate, MissingProbe, ProbeUnchanged, Reserve, AwaitHost, StartPooled, LaunchReserved,
     ClaimLaunched, AwaitLaunched, InsertRow, CloseSession, sweeps, boot
<1>3. ASSUME NEW i \in Instances, Boot(i) \/ PollList(i) \/ PollStarted(i) \/ LoseContainer(i)
      PROVE  ListsMayMove
  BY <1>1, <1>3 DEF Boot, PollList, PollStarted, LoseContainer, sweeps, boot
<1>4. ASSUME NEW i \in Instances, NEW s \in Sessions, ProvisionStep(i, s) PROVE ListsMayMove
  BY <1>1, <1>4 DEF ProvisionStep, AbandonProvision, GetApiKey, RemoveInstanceContainers, ProvUnchanged,
     CreateContainers, AttemptFails, Provisioned, ProvisionExhausted, sweeps, boot
<1>5. ASSUME NEW i \in Instances, NEW h \in Holders, ReleaseStep(i, h) PROVE ListsMayMove
  BY <1>1, <1>5 DEF ReleaseStep, GetInstance, Undeploy, ReleaseClaim, TagIdle, ReleaseFails, TerminateFailed,
     DropFailed, RelUnchanged, sweeps, boot
<1>6. CASE UnusedStep
  <2>1. /\ UNCHANGED <<reclaim, cycle, backfill>>
        /\ unused'.old \subseteq unused.old \union (Instances \ Unlaunched)
        /\ \A p \in unused'.list \union unused'.work :
             p \in unused.list \union unused.work \/ (p[1] \in Tagged("reserved") /\ p[2] = owner[p[1]])
    <3>1. CASE UnusedReadOpen
      BY <3>1 DEF UnusedReadOpen, SweepUnchanged, boot, TypeOK, SweepsOK
    <3>2. CASE UnusedListReserved
      <4>1. /\ unused'.old = unused.old /\ unused'.work = unused.work
            /\ unused'.list = {<<i, owner[i]>> : i \in Tagged("reserved")}
        BY <3>2 DEF UnusedListReserved, TypeOK, SweepsOK
      <4>2. \A p \in unused'.list : p[1] \in Tagged("reserved") /\ p[2] = owner[p[1]]
        BY <4>1
      <4> QED BY <3>2, <4>1, <4>2 DEF UnusedListReserved, SweepUnchanged, boot
    <3>3. CASE UnusedReadClaims
      BY <3>3 DEF UnusedReadClaims, SweepUnchanged, boot, TypeOK, SweepsOK, Idle0
    <3>4. CASE UnusedRelease
      <4>1. UNCHANGED <<reclaim, cycle, backfill>>
        BY <3>4 DEF UnusedRelease, SweepUnchanged, boot
      <4>2. ASSUME NEW p \in unused.work, unused' = [unused EXCEPT !.work = @ \ {p}, !.cur = p]
            PROVE  unused'.old = unused.old /\ unused'.list = unused.list /\ unused'.work \subseteq unused.work
        BY <4>2 DEF TypeOK, SweepsOK
      <4>3. CASE unused' = Idle0
        BY <4>1, <4>3 DEF Idle0
      <4> QED BY <3>4, <4>1, <4>2, <4>3 DEF UnusedRelease
    <3> QED BY <1>6, <3>1, <3>2, <3>3, <3>4 DEF UnusedStep
  <2> QED BY <1>6, <2>1 DEF ListsMayMove, Tagged, IsReservedFor, TypeOK, SweepsOK
<1>7. CASE ReclaimStep
  <2>1. /\ UNCHANGED <<unused, cycle, backfill>>
        /\ \A w \in reclaim'.work : w \in reclaim.work \/ (claim[w[1]] = w[2] /\ reclaim.pc = "listed")
    <3>1. CASE ReclaimReadOpen
      BY <3>1 DEF ReclaimReadOpen, SweepUnchanged, boot, TypeOK, SweepsOK
    <3>2. CASE ReclaimReadLive
      BY <3>2 DEF ReclaimReadLive, SweepUnchanged, boot, TypeOK, SweepsOK
    <3>3. CASE ReclaimReadClaims
      <4>1. reclaim'.work = {<<i, claim[i], i \notin reclaim.live>> : i \in {j \in Instances : IsStale(j)}}
        BY <3>3 DEF ReclaimReadClaims, Reclaim0
      <4>2. \A w \in reclaim'.work : claim[w[1]] = w[2]
        BY <4>1
      <4> QED BY <3>3, <4>2 DEF ReclaimReadClaims, SweepUnchanged, boot
    <3>4. CASE ReclaimNext
      <4>1. UNCHANGED <<unused, cycle, backfill>>
        BY <3>4 DEF ReclaimNext, boot
      <4>2. ASSUME NEW w \in reclaim.work, NEW c, reclaim' = [reclaim EXCEPT !.work = @ \ {w}, !.cur = c]
            PROVE  reclaim'.work \subseteq reclaim.work
        BY <4>2 DEF TypeOK, SweepsOK
      <4>3. CASE reclaim' = Reclaim0
        BY <4>1, <4>3 DEF Reclaim0
      <4> QED BY <3>4, <4>1, <4>2, <4>3 DEF ReclaimNext
    <3> QED BY <1>7, <3>1, <3>2, <3>3, <3>4 DEF ReclaimStep
  <2> QED BY <1>7, <2>1 DEF ListsMayMove, TypeOK, SweepsOK
<1>8. CASE CycleStep
  <2>1. /\ UNCHANGED <<unused, reclaim, backfill>>
        /\ cycle'.surplus \subseteq cycle.surplus \union Tagged("idle")
        /\ \/ cycle'.hold \in {NoInstance, cycle.hold}
           \/ cycle'.hold \in cycle.surplus /\ claim[cycle'.hold] = NoSession /\ claim'[cycle'.hold] = PoolCycle
    <3>1. CASE CycleList
      <4>1. UNCHANGED <<unused, reclaim, backfill>>
        BY <3>1 DEF CycleList, CycleUnchanged, boot
      <4>2. \/ cycle' = [cycle EXCEPT !.pc = "listed"]
            \/ \E surplus \in SUBSET Tagged("idle") : cycle' = [cycle EXCEPT !.pc = "listed", !.surplus = surplus]
        BY <3>1 DEF CycleList
      <4> QED BY <4>1, <4>2 DEF TypeOK, SweepsOK
    <3>2. CASE CyclePoolState
      BY <3>2 DEF CyclePoolState, CycleUnchanged, boot, TypeOK, SweepsOK
    <3>3. CASE CycleClaim
      <4>1. PICK i \in cycle.surplus :
              \/ /\ Claim(i, PoolCycle)
                 /\ cycle' = [cycle EXCEPT !.pc = "holding", !.surplus = @ \ {i}, !.hold = i]
              \/ cycle' = [cycle EXCEPT !.surplus = @ \ {i}]
        BY <3>3 DEF CycleClaim
      <4>2. i \in Instances /\ UNCHANGED <<unused, reclaim, backfill>>
        BY <3>3 DEF CycleClaim, CycleUnchanged, boot, TypeOK, SweepsOK
      <4>3. CASE Claim(i, PoolCycle) /\ cycle' = [cycle EXCEPT !.pc = "holding", !.surplus = @ \ {i}, !.hold = i]
        <5>1. claim[i] = NoSession /\ claim'[i] = PoolCycle
          BY <4>2, <4>3 DEF Claim, TypeOK, SessionsOK
        <5>2. cycle'.hold = i /\ cycle'.surplus \subseteq cycle.surplus
          BY <4>3 DEF TypeOK, SweepsOK
        <5> QED BY <4>2, <5>1, <5>2
      <4>4. CASE cycle' = [cycle EXCEPT !.surplus = @ \ {i}]
        BY <4>2, <4>4 DEF TypeOK, SweepsOK
      <4> QED BY <4>1, <4>3, <4>4
    <3>4. CASE CycleAct
      BY <3>4 DEF CycleAct, CycleUnchanged, boot, TypeOK, SweepsOK
    <3>5. CASE CycleUnclaim
      BY <3>5 DEF CycleUnclaim, CycleUnchanged, boot, TypeOK, SweepsOK
    <3>6. CASE CycleWarmUp
      BY <3>6 DEF CycleWarmUp, Cycle0, CycleUnchanged, boot, TypeOK, SweepsOK
    <3> QED BY <1>8, <3>1, <3>2, <3>3, <3>4, <3>5, <3>6 DEF CycleStep
  <2> QED BY <2>1 DEF ListsMayMove, TypeOK, SweepsOK
<1>9. CASE ReconcileStep
  BY <1>1, <1>9 DEF ReconcileStep, ReconcileProbe, ReconcileNext, ProbeUnchanged, boot
<1>10. CASE Crash
  BY <1>10 DEF Crash, ListsMayMove, Idle0, Reclaim0, Cycle0
<1>11. CASE BackfillRead \/ BackfillClaim
  <2>1. /\ UNCHANGED <<unused, reclaim, cycle>>
        /\ \A p \in backfill' : p \in backfill \/ (p[1] \in Tagged("reserved") /\ p[2] = owner[p[1]])
    BY <1>11 DEF BackfillRead, BackfillClaim, sweeps
  <2> QED BY <2>1 DEF ListsMayMove, Tagged, IsReservedFor, TypeOK, SweepsOK
<1> QED BY <1>2, <1>3, <1>4, <1>5, <1>6, <1>7, <1>8, <1>9, <1>10, <1>11 DEF Next

Moves == SessionsMayMove /\ TagsMayMove /\ ClaimsMayMove /\ ReleasesMayMove /\ ListsMayMove

(* Every step of the worker is such a step.                                *)
LEMMA NextMoves == ASSUME TypeOK, TypeOK', Exclusion, Next PROVE Moves
BY SessionsMay, TagsMay, ClaimsMay, ReleasesMay, ListsMay DEF Moves

(* A session is at one of the three at a time.                              *)
LEMMA Apart ==
  ASSUME ExRows, NEW s \in Sessions
  PROVE  /\ Elected(s) => ~Held(s) /\ ~Settled(s)
         /\ Held(s) => ~Settled(s)
BY DEF ExRows, Held, Elected, Settled, Open

(* What has nothing more to do with an instance goes on having nothing, and *)
(* a session does not lose the claim of an instance that still runs.        *)
LEMMA PastKept ==
  ASSUME TypeOK, Moves, NEW s \in Sessions, NEW i \in Instances, Past(s, i)
  PROVE  Past(s, i)'
BY DEF Moves, SessionsMayMove, TagsMayMove, Past

(* A claim is dropped by its release, by the sweep or by its own request.  *)
LEMMA ClaimKept ==
  ASSUME TypeOK, Exclusion, Moves, NEW s \in Sessions, NEW i \in Instances, claim[i] = s,
         \/ Elected(s)
         \/ Held(s) /\ Held(s)' /\ target[s] = i
  PROVE  claim'[i] = s \/ (Held(s) /\ tag[i] = "terminated")
<1> USE ConstantsAssumption
<1>1. ExRows BY DEF Exclusion
<1>2. /\ rel[i][s] # "none" => Past(s, i)
      /\ \A w \in reclaim.work : w[1] = i /\ w[2] = s /\ w[3] =>
           Settled(s) \/ (Held(s) /\ (target[s] = i => tag[i] = "terminated"))
  BY DEF Exclusion, ExRelease, ExReclaim
<1>3. Unclaimed(i, s) => Held(s) /\ tag[i] = "terminated"
  <2>1. CASE rel[i][s] # "none"
    BY <1>1, <1>2, <2>1, Apart DEF Past
  <2>2. CASE \E w \in reclaim.work : w[1] = i /\ w[2] = s /\ w[3] /\ w \notin reclaim'.work
    BY <1>1, <1>2, <2>2, Apart
  <2>3. CASE s \in Sessions /\ req[s] \in {"undoing", "undoingStart"} /\ ~Held(s)'
    BY <2>3 DEF Elected
  <2> QED BY <2>1, <2>2, <2>3 DEF Unclaimed
<1> QED BY <1>3 DEF Moves, ClaimsMayMove

(* Nor does the pool cycle, but by its own step or the sweep's.             *)
LEMMA PoolClaimKept ==
  ASSUME TypeOK, Exclusion, Moves, NEW i \in Instances, claim[i] = PoolCycle, cycle.hold # i,
         rel[i][PoolCycle] # "none" => rel'[i][PoolCycle] # "none",
         \A w \in reclaim.work : w[1] = i /\ w[2] = PoolCycle /\ w[3] => w \in reclaim'.work
  PROVE  claim'[i] = PoolCycle /\ cycle'.hold # i
<1> USE ConstantsAssumption
<1>1. ~Unclaimed(i, PoolCycle)
  BY DEF Unclaimed
<1>2. claim'[i] = PoolCycle
  BY <1>1 DEF Moves, ClaimsMayMove
<1>3. cycle'.hold # i
  BY DEF Moves, ListsMayMove
<1> QED BY <1>2, <1>3

(* Only a session that has heard of an instance can come to know of it.     *)
LEMMA OnlyByKept ==
  ASSUME TypeOK, TypeOK', Exclusion, Moves, NEW i \in Instances, NEW S \in SUBSET Sessions,
         NEW T \in SUBSET Sessions, S \subseteq T, OnlyBy(i, S), tag[i] \in {"unlaunched", "reserved"},
         \A t \in Sessions : IsReservedFor(i, t) => t \in T,
         tag[i] = "unlaunched" => \A t \in Sessions : IsReservedFor(i, t)' => t \in T,
         T = {} => tag[i] = "unlaunched"
  PROVE  OnlyBy(i, T)'
<1> USE ConstantsAssumption
<1>t. i \notin Tagged("idle") \union Tagged("pooled") /\ (i \in Unlaunched <=> tag[i] = "unlaunched")
  BY DEF Tagged, Unlaunched
<1>1. claim'[i] \in T \union {NoSession}
  <2>1. ASSUME NEW h \in Holders, Claimed(i, h) PROVE h \in T
    BY <2>1 DEF Claimed, OnlyBy
  <2> QED BY <2>1 DEF Moves, ClaimsMayMove, OnlyBy
<1>2. cycle'.hold # i /\ i \notin cycle'.surplus
  BY <1>t DEF Moves, ListsMayMove, OnlyBy
<1>3. \A t \in Sessions : i \notin candidates'[t] /\ (target'[t] = i => t \in T)
  BY <1>t DEF Moves, SessionsMayMove, OnlyBy
<1>4. \A h \in Holders \ T : rel'[i][h] = "none"
  <2> TAKE h \in Holders \ T
  <2>1. rel[i][h] = "none"
    BY DEF OnlyBy
  <2>2. ~(h \in Sessions /\ target[h] = i) /\ ~(\E p \in unused.work : p[1] = i /\ p[2] = h)
        /\ ~(\E w \in reclaim.work : w[1] = i /\ w[2] = h)
    BY DEF OnlyBy
  <2> QED BY <2>1, <2>2 DEF Moves, ReleasesMayMove
<1>5. \A p \in unused'.list \union unused'.work \union backfill' : p[1] = i => p[2] \in T
  <2>1. ASSUME NEW p \in unused'.list \union unused'.work \union backfill', p[1] = i PROVE p[2] \in T
    <3>1. p[2] \in Sessions /\ p = <<i, p[2]>>
      BY <2>1 DEF TypeOK, SweepsOK, ProcessOK
    <3>2. p \in unused.list \union unused.work \union backfill \/ IsReservedFor(i, p[2])
      BY <2>1, <3>1 DEF Moves, ListsMayMove, Holders
    <3> QED BY <2>1, <3>1, <3>2 DEF OnlyBy
  <2> QED BY <2>1
<1>6. \A w \in reclaim'.work : w[1] = i => w[2] \in T
  <2>1. ASSUME NEW w \in reclaim'.work, w[1] = i PROVE w[2] \in T
    <3>1. w[2] \in Holders
      BY <2>1 DEF TypeOK, SweepsOK
    <3> QED BY <2>1, <3>1 DEF Moves, ListsMayMove, OnlyBy, Holders
  <2> QED BY <2>1
<1>7. T = {} => i \notin unused'.old
  BY <1>t DEF Moves, ListsMayMove, OnlyBy
<1> QED BY <1>1, <1>2, <1>3, <1>4, <1>5, <1>6, <1>7 DEF OnlyBy

----------------------------------------------------------------------------
(* Every part of the invariant survives such a step.                        *)
LEMMA RowsKept == ASSUME TypeOK, Exclusion, Moves PROVE ExRows'
BY DEF Exclusion, ExRows, Moves, SessionsMayMove, Unlaunched, Settled, Held, Open

(* Who has won a claim has it until the instance is reserved.              *)
LEMMA ElectedKept == ASSUME TypeOK, Exclusion, Moves PROVE ExElected'
<1> SUFFICES ASSUME NEW s \in Sessions, Elected(s)' PROVE claim'[target'[s]] = s
  BY DEF ExElected
<1>1. CASE Elected(s) /\ target'[s] = target[s]
  <2>1. target[s] \in Instances /\ claim[target[s]] = s /\ ~Held(s)
    BY <1>1, Apart DEF Exclusion, ExRows, ExElected
  <2> QED BY <1>1, <2>1, ClaimKept
<1> QED BY <1>1 DEF Moves, SessionsMayMove

(* Nobody has heard of an instance that is not launched yet.               *)
LEMMA FreshKept == ASSUME TypeOK, TypeOK', Exclusion, Moves PROVE ExFresh'
<1> SUFFICES ASSUME NEW i \in Unlaunched' PROVE OnlyBy(i, {})'
  BY DEF ExFresh
<1>1. i \in Instances /\ tag[i] = "unlaunched" /\ tag'[i] = "unlaunched"
  BY DEF Unlaunched, Moves, TagsMayMove
<1>2. OnlyBy(i, {})
  BY <1>1 DEF Exclusion, ExFresh, Unlaunched
<1> QED BY <1>1, <1>2, OnlyByKept DEF IsReservedFor

(* What a session has it keeps by the claim, or alone, or it is gone.      *)
LEMMA GripKept == ASSUME TypeOK, TypeOK', Exclusion, Moves PROVE ExGrip'
<1> USE ConstantsAssumption
<1> SUFFICES ASSUME NEW s \in Sessions, Held(s)' PROVE Grip(s)'
  BY DEF ExGrip
<1>r. ExRows BY DEF Exclusion
<1>1. CASE Held(s)
  <2> DEFINE i == target[s]
  <2>0. i \in Instances /\ target'[s] = i /\ ~Elected(s) /\ Grip(s)
    BY <1>1, <1>r, Apart DEF ExRows, Exclusion, ExGrip, Moves, SessionsMayMove, Settled, Held
  <2>t. tag[i] = "terminated" => Grip(s)'
    BY <2>0 DEF Grip, Moves, TagsMayMove
  <2>1. CASE claim[i] = s /\ tag[i] \in {"idle", "reserved"}
    <3>1. claim'[i] = s
      BY <1>1, <2>0, <2>1, ClaimKept
    <3>2. cycle.hold # i
      BY <2>0, <2>1 DEF Exclusion, ExCycle
    <3>3. tag'[i] \in {"idle", "reserved", "terminated"}
      BY <2>0, <2>1, <3>2 DEF Moves, TagsMayMove, IsReservedFor
    <3> QED BY <2>0, <3>1, <3>3 DEF Grip
  <2>2. CASE Fresh(s)
    <3>1. /\ tag[i] = "reserved" /\ owner[i] = s /\ OnlyBy(i, {s})
          /\ req[s] \notin {"awaiting", "allocated", "undoing"}
      BY <2>2 DEF Fresh, IsReservedFor
    <3>2. \A t \in Sessions : Elected(t) => target[t] # i
      BY <2>0, <3>1 DEF OnlyBy
    <3>3. \A h \in Holders : rel[i][h] = "none"
      BY <1>1, <1>r, <2>0, <3>1, Apart DEF OnlyBy, Exclusion, ExRelease, Past
    <3>4. tag'[i] = "terminated" \/ IsReservedFor(i, s)'
      BY <2>0, <3>1, <3>2, <3>3 DEF Moves, TagsMayMove, OnlyBy, IsReservedFor
    <3>5. OnlyBy(i, {s})'
      BY <2>0, <3>1, OnlyByKept DEF IsReservedFor
    <3>6. req'[s] \notin {"awaiting", "allocated", "undoing"}
      BY <1>1, <3>1 DEF Moves, SessionsMayMove, Kept
    <3> QED BY <2>0, <3>4, <3>5, <3>6 DEF Grip, Fresh
  <2> QED BY <2>0, <2>t, <2>1, <2>2 DEF Grip
<1>2. CASE /\ Elected(s) /\ target'[s] = target[s] /\ claim' = claim
           /\ tag'[target[s]] = "terminated" \/ IsReservedFor(target[s], s)'
  <2>1. claim[target[s]] = s
    BY <1>2 DEF Exclusion, ExElected
  <2> QED BY <1>2, <2>1 DEF Grip, IsReservedFor
<1>3. ASSUME NEW i \in Unlaunched, target'[s] = i, IsReservedFor(target[s], s)', req'[s] = "launched"
      PROVE  Grip(s)'
  <2>1. i \in Instances /\ tag[i] = "unlaunched" /\ OnlyBy(i, {}) /\ tag'[i] = "reserved" /\ owner'[i] = s
    BY <1>3 DEF Exclusion, ExFresh, Unlaunched, IsReservedFor
  <2>2. \A t \in Sessions : ~IsReservedFor(i, t) /\ (IsReservedFor(i, t)' => t \in {s})
    BY <2>1 DEF IsReservedFor
  <2>3. OnlyBy(i, {s})'
    BY <2>1, <2>2, OnlyByKept
  <2> QED BY <1>3, <2>3 DEF Grip, Fresh
<1> QED BY <1>1, <1>2, <1>3 DEF Moves, SessionsMayMove

(* Whoever takes an instance finds that nobody has it.                     *)
LEMMA OneKept == ASSUME TypeOK, Exclusion, Moves PROVE ExOne'
<1> USE ConstantsAssumption
<1> DEFINE New(s, i) == /\ ~Held(s) /\ IsReservedFor(i, s)'
                        /\ \/ tag[i] = "unlaunched"
                           \/ target[s] = i /\ claim[i] = s /\ tag[i] # "terminated"
<1>1. ASSUME NEW s \in Sessions, Kept(s)', NEW i, i = target'[s]
      PROVE  \/ Kept(s) /\ target[s] = i
             \/ New(s, i)
  <2>1. CASE Held(s)
    BY <1>1, <2>1 DEF Kept, Moves, SessionsMayMove, Settled, Held
  <2>2. CASE ~Held(s)
    <3>1. Held(s)' /\ req'[s] # "undoing"
      BY <1>1 DEF Kept
    <3>2. Elected(s) => claim[target[s]] = s
      BY DEF Exclusion, ExElected
    <3> QED BY <1>1, <2>2, <3>1, <3>2 DEF Moves, SessionsMayMove, Unlaunched, IsReservedFor
  <2> QED BY <2>1, <2>2
<1>2. ASSUME NEW s \in Sessions, NEW t \in Sessions, NEW i, New(s, i), Kept(t), target[t] = i
      PROVE  s = t
  <2>1. Grip(t)
    BY <1>2 DEF Kept, Exclusion, ExGrip
  <2> QED BY <1>2, <2>1 DEF Grip, Fresh, OnlyBy, IsReservedFor
<1>3. ASSUME NEW s \in Sessions, NEW t \in Sessions, NEW i, New(s, i), New(t, i)
      PROVE  s = t
  BY <1>3 DEF IsReservedFor
<1>4. ASSUME NEW s \in Sessions, NEW t \in Sessions, Kept(s), Kept(t), target[s] = target[t]
      PROVE  s = t
  BY <1>4 DEF Exclusion, ExOne
<1> SUFFICES ASSUME NEW s \in Sessions, NEW t \in Sessions, Kept(s)', Kept(t)',
                    NEW i, i = target'[s], i = target'[t]
             PROVE  s = t
  BY DEF ExOne
<1> HIDE DEF New
<1>5. (Kept(s) /\ target[s] = i) \/ New(s, i)
  BY <1>1
<1>6. (Kept(t) /\ target[t] = i) \/ New(t, i)
  BY <1>1
<1> QED BY <1>2, <1>3, <1>4, <1>5, <1>6

(* A reservation is of a session that has the instance, or is over.        *)
LEMMA OwnerKept == ASSUME TypeOK, Exclusion, Moves PROVE ExOwner'
<1> SUFFICES ASSUME NEW i \in Instances, NEW s \in Sessions, IsReservedFor(i, s)'
             PROVE  Settled(s)' \/ (Held(s)' /\ target'[s] = i)
  BY DEF ExOwner
<1>1. CASE IsReservedFor(i, s)
  BY <1>1 DEF Exclusion, ExOwner, Moves, SessionsMayMove
<1>2. CASE \E t \in Sessions : Held(t)' /\ target'[t] = i /\ IsReservedFor(i, t)'
  BY <1>2 DEF IsReservedFor
<1> QED BY <1>1, <1>2 DEF Moves, TagsMayMove, IsReservedFor

(* The pool cycle has the claim of the instance in its hands.              *)
LEMMA CycleKept == ASSUME TypeOK, TypeOK', Exclusion, Moves PROVE ExCycle'
<1> USE ConstantsAssumption
<1> SUFFICES ASSUME cycle'.hold # NoInstance PROVE claim'[cycle'.hold] = PoolCycle
  BY DEF ExCycle
<1>1. CASE cycle'.hold = cycle.hold
  <2>1. cycle.hold \in Instances /\ claim[cycle.hold] = PoolCycle
    BY <1>1 DEF Exclusion, ExCycle, TypeOK, SweepsOK
  <2>2. ~Unclaimed(cycle.hold, PoolCycle)
    BY <1>1, <2>1 DEF Unclaimed, Exclusion, ExRelease, ExReclaim
  <2> QED BY <1>1, <2>1, <2>2 DEF Moves, ClaimsMayMove
<1> QED BY <1>1 DEF Moves, ListsMayMove

(* The sweep does not go on before the release it has begun is over.        *)
LEMMA ReclaimWaits ==
  ASSUME ReclaimStep, reclaim.pc = "reclaiming"
  PROVE  ~InRelease(reclaim.cur)
BY DEF ReclaimStep, ReclaimReadOpen, ReclaimReadLive, ReclaimReadClaims, ReclaimNext

(* What is released is of sessions that are over, or is gone.              *)
LEMMA ReleaseKept == ASSUME TypeOK, TypeOK', Exclusion, Moves PROVE ExRelease'
<1> USE ConstantsAssumption
<1> SUFFICES ASSUME NEW i \in Instances
             PROVE  /\ \A s \in Sessions : rel'[i][s] # "none" => Past(s, i)'
                    /\ rel'[i][PoolCycle] # "none" =>
                         /\ rel'[i][PoolCycle] \in {"start", "failed", "dropping"}
                         /\ claim'[i] = PoolCycle /\ cycle'.hold # i
                         /\ reclaim'.pc = "reclaiming" /\ reclaim'.cur = <<i, PoolCycle>>
                         /\ \A w \in reclaim'.work : w[1] = i => w[2] # PoolCycle
  BY DEF ExRelease
<1>1. ASSUME NEW s \in Sessions, rel'[i][s] # "none" PROVE Past(s, i)'
  <2>1. CASE rel[i][s] # "none"
    BY <2>1, PastKept DEF Exclusion, ExRelease
  <2>2. CASE \E p \in unused.work : p[1] = i /\ p[2] = s
    BY <2>2, PastKept DEF Exclusion, ExUnused
  <2>3. CASE \E w \in reclaim.work : w[1] = i /\ w[2] = s /\ ~w[3]
    <3>1. Past(s, i)
      BY <2>3 DEF Exclusion, ExReclaim, Past
    <3> QED BY <3>1, PastKept
  <2>4. CASE Settled(s)'
    BY <2>4 DEF Past
  <2> QED BY <1>1, <2>1, <2>2, <2>3, <2>4 DEF Moves, ReleasesMayMove, Holders
<1>2. ASSUME rel'[i][PoolCycle] # "none", rel[i][PoolCycle] = "none"
      PROVE  /\ rel'[i][PoolCycle] = "start"
             /\ claim'[i] = PoolCycle /\ cycle'.hold # i
             /\ reclaim'.pc = "reclaiming" /\ reclaim'.cur = <<i, PoolCycle>>
             /\ \A w \in reclaim'.work : w[1] = i => w[2] # PoolCycle
  <2>1. ~(\E p \in unused.work : p[1] = i /\ p[2] = PoolCycle)
    BY DEF TypeOK, SweepsOK
  <2>2. /\ rel'[i][PoolCycle] = "start"
        /\ \E w \in reclaim.work : w[1] = i /\ w[2] = PoolCycle /\ ~w[3] /\ w \notin reclaim'.work
        /\ reclaim'.work \subseteq reclaim.work
        /\ reclaim'.pc = "reclaiming" /\ reclaim'.cur = <<i, PoolCycle>>
    BY <1>2, <2>1 DEF Moves, ReleasesMayMove, Holders
  <2>3. PICK w \in reclaim.work : w[1] = i /\ w[2] = PoolCycle /\ ~w[3] /\ w \notin reclaim'.work
    BY <2>2
  <2>4. /\ claim[i] = PoolCycle /\ cycle.hold # i
        /\ \A v \in reclaim.work : v[1] = i => v = w
    BY <2>3 DEF Exclusion, ExReclaim
  <2>5. claim'[i] = PoolCycle /\ cycle'.hold # i
    BY <1>2, <2>3, <2>4, PoolClaimKept
  <2> QED BY <2>2, <2>3, <2>4, <2>5
<1>3. ASSUME rel'[i][PoolCycle] # "none", rel[i][PoolCycle] # "none"
      PROVE  /\ rel'[i][PoolCycle] \in {"start", "failed", "dropping"}
             /\ claim'[i] = PoolCycle /\ cycle'.hold # i
             /\ reclaim'.pc = "reclaiming" /\ reclaim'.cur = <<i, PoolCycle>>
             /\ \A w \in reclaim'.work : w[1] = i => w[2] # PoolCycle
  <2>1. /\ rel[i][PoolCycle] \in {"start", "failed", "dropping"}
        /\ claim[i] = PoolCycle /\ cycle.hold # i
        /\ reclaim.pc = "reclaiming" /\ reclaim.cur = <<i, PoolCycle>>
        /\ \A w \in reclaim.work : w[1] = i => w[2] # PoolCycle
    BY <1>3 DEF Exclusion, ExRelease
  <2>2. reclaim' = reclaim
    <3>1. InRelease(reclaim.cur)
      BY <1>3, <2>1 DEF InRelease, NoPair
    <3>2. ~Crash
      BY <1>3 DEF Crash, Holders
    <3> QED BY <2>1, <3>1, <3>2, ReclaimWaits DEF Moves, ListsMayMove
  <2>3. claim'[i] = PoolCycle /\ cycle'.hold # i
    BY <1>3, <2>1, <2>2, PoolClaimKept
  <2>4. rel'[i][PoolCycle] \in {"start", "failed", "dropping"}
    BY <1>3, <2>1 DEF Moves, ReleasesMayMove, Holders
  <2> QED BY <2>1, <2>2, <2>3, <2>4
<1> QED BY <1>1, <1>2, <1>3

(* While a sweep steps, sessions and tags stand still.                      *)
LEMMA UnusedKept == ASSUME TypeOK, Exclusion, Moves PROVE ExUnused'
<1> USE ConstantsAssumption
<1>u. ExUnused BY DEF Exclusion
<1>1. CASE UNCHANGED unused
  <2>1. \A p \in unused.work : Past(p[2], p[1])'
    <3>1. ASSUME NEW p \in unused.work PROVE Past(p[2], p[1])'
      <4>1. p[1] \in Instances /\ p[2] \in Sessions /\ Past(p[2], p[1])
        BY <1>u, <3>1 DEF ExUnused, TypeOK, SweepsOK
      <4> QED BY <4>1, PastKept
    <3> QED BY <3>1
  <2>2. \A p \in unused.list : Settled(p[2])' \/ (Held(p[2])' /\ target'[p[2]] = p[1])
    BY <1>u DEF ExUnused, TypeOK, SweepsOK, Moves, SessionsMayMove
  <2>3. ASSUME unused.pc \in {"opened", "listed"},
               NEW s \in Sessions, Held(s)', target'[s] \in unused.old \ unused.used
        PROVE  claim'[target'[s]] = s \/ tag'[target'[s]] = "terminated"
    <3>0. target'[s] \in Instances
      BY <2>3 DEF TypeOK, SweepsOK
    <3>1. CASE Held(s)
      <4>1. target'[s] = target[s]
        BY <2>3, <3>1 DEF Moves, SessionsMayMove, Settled, Held
      <4>2. claim[target[s]] = s \/ tag[target[s]] = "terminated"
        BY <1>u, <2>3, <3>1, <4>1 DEF ExUnused
      <4>3. tag[target[s]] = "terminated" => tag'[target[s]] = "terminated"
        BY <3>0, <4>1 DEF Moves, TagsMayMove
      <4> QED BY <2>3, <3>0, <3>1, <4>1, <4>2, <4>3, ClaimKept
    <3>2. CASE ~Held(s) /\ Elected(s) /\ target'[s] = target[s] /\ claim' = claim
      BY <3>2 DEF Exclusion, ExElected
    <3>3. target'[s] \notin Unlaunched
      BY <2>3 DEF Exclusion, ExFresh, OnlyBy
    <3> QED BY <2>3, <3>1, <3>2, <3>3 DEF Moves, SessionsMayMove
  <2> QED BY <1>1, <2>1, <2>2, <2>3 DEF ExUnused
<1>2. CASE UnusedStep
  <2>0. UNCHANGED <<tag, claim, row, req, target>>
    BY <1>2 DEF UnusedStep, UnusedReadOpen, UnusedListReserved, UnusedReadClaims, UnusedRelease,
       SweepUnchanged, hosting, rows, requests
  <2>1. /\ \A s \in Sessions : (Held(s)' <=> Held(s)) /\ (Settled(s)' <=> Settled(s))
        /\ \A s \in Sessions, i \in Instances : Past(s, i)' <=> Past(s, i)
    BY <2>0 DEF Held, Settled, Past, Open
  <2>2. CASE UnusedReadOpen
    <3>1. /\ unused'.work = unused.work /\ unused'.list = unused.list
          /\ unused'.used = {rowInstance[s] : s \in {t \in Sessions : Open(t)}}
          /\ unused'.old = Instances \ (Unlaunched \union {target[s] : s \in {t \in Sessions : Launching(t)}})
      BY <2>2 DEF UnusedReadOpen, TypeOK, SweepsOK
    <3>2. ASSUME NEW s \in Sessions, Held(s), target[s] \in unused'.old \ unused'.used
          PROVE  claim[target[s]] = s \/ tag[target[s]] = "terminated"
      <4>1. ~Launching(s) /\ ~Open(s)
        BY <3>1, <3>2 DEF Exclusion, ExRows, Open
      <4>2. req[s] \in {"awaiting", "allocated", "undoing"}
        BY <3>2, <4>1 DEF Held, Launching
      <4> QED BY <3>2, <4>2 DEF Exclusion, ExGrip, Grip, Fresh
    <3> QED BY <1>u, <2>0, <2>1, <3>1, <3>2 DEF ExUnused, TypeOK, SweepsOK
  <2>3. CASE UnusedListReserved
    <3>1. /\ unused.pc = "opened" /\ unused'.work = unused.work
          /\ unused'.used = unused.used /\ unused'.old = unused.old
          /\ unused'.list = {<<i, owner[i]>> : i \in Tagged("reserved")}
      BY <2>3 DEF UnusedListReserved, TypeOK, SweepsOK
    <3>2. \A i \in Tagged("reserved") : Settled(owner[i]) \/ (Held(owner[i]) /\ target[owner[i]] = i)
      BY DEF Exclusion, ExOwner, IsReservedFor, Tagged, TypeOK, HostingOK
    <3>3. \A i \in Tagged("reserved") : owner[i] \in Sessions
      BY DEF Tagged, TypeOK, HostingOK
    <3>4. \A p \in unused'.list : Settled(p[2])' \/ (Held(p[2])' /\ target'[p[2]] = p[1])
      BY <2>0, <2>1, <3>1, <3>2, <3>3
    <3> QED BY <1>u, <2>0, <2>1, <3>1, <3>4 DEF ExUnused, TypeOK, SweepsOK
  <2>4. CASE UnusedReadClaims
    <3>1. /\ unused.pc = "listed" /\ unused'.pc = "releasing" /\ unused'.list = {}
          /\ unused'.work = {p \in unused.list : p[1] \in unused.old \ unused.used /\ claim[p[1]] = NoSession}
      BY <2>4 DEF UnusedReadClaims, Idle0
    <3>2. ASSUME NEW p \in unused'.work PROVE Past(p[2], p[1])
      <4>1. /\ p[1] \in Instances /\ p[2] \in Sessions /\ claim[p[1]] = NoSession
            /\ p \in unused.list /\ p[1] \in unused.old \ unused.used
        BY <3>1, <3>2 DEF TypeOK, SweepsOK
      <4> QED BY <1>u, <3>1, <4>1 DEF ExUnused, Past
    <3>3. \A p \in unused'.work : Past(p[2], p[1])'
      BY <2>1, <3>1, <3>2 DEF TypeOK, SweepsOK
    <3> QED BY <3>1, <3>3 DEF ExUnused
  <2>5. CASE UnusedRelease
    <3>1. CASE unused' = Idle0
      BY <3>1 DEF Idle0, ExUnused
    <3>2. ASSUME NEW p \in unused.work, unused' = [unused EXCEPT !.work = @ \ {p}, !.cur = p]
          PROVE  ExUnused'
      <4>1. /\ unused'.work \subseteq unused.work /\ unused'.list = unused.list /\ unused'.pc = unused.pc
            /\ unused'.old = unused.old /\ unused'.used = unused.used
        BY <3>2 DEF TypeOK, SweepsOK
      <4> QED BY <1>u, <2>0, <2>1, <4>1 DEF ExUnused, TypeOK, SweepsOK
    <3> QED BY <2>5, <3>1, <3>2 DEF UnusedRelease
  <2> QED BY <1>2, <2>2, <2>3, <2>4, <2>5 DEF UnusedStep
<1>3. CASE Crash
  BY <1>3 DEF Crash, Idle0, ExUnused
<1> QED BY <1>1, <1>2, <1>3 DEF Moves, ListsMayMove

(* What reclaimStaleClaims takes for stale, nobody waits for any more.     *)
LEMMA ReclaimKept ==
  ASSUME ~SlowAllocation, TypeOK, TypeOK', Exclusion, Moves
  PROVE  ExReclaim'
<1> USE ConstantsAssumption
<1>r. ExReclaim /\ ExRows BY DEF Exclusion
<1>1. CASE UNCHANGED reclaim
  <2>1. /\ \A s \in reclaim.open \union reclaim.settled : req'[s] \in {"done", "failed"}
        /\ \A s \in reclaim.settled : s \in reclaim.open \/ Settled(s)'
    BY <1>r DEF ExReclaim, TypeOK, SweepsOK, Moves, SessionsMayMove
  <2>2. ASSUME reclaim.pc = "listed", NEW s \in reclaim.settled, Held(s)'
        PROVE  target'[s] \in reclaim.live \/ tag'[target'[s]] = "terminated"
    <3>1. s \in Sessions /\ req[s] \in {"done", "failed"} /\ req'[s] \in {"done", "failed"}
      BY <1>r, <2>1, <2>2 DEF ExReclaim, TypeOK, SweepsOK
    <3>2. Held(s)
      BY <2>2, <3>1 DEF Moves, SessionsMayMove, Elected, Held
    <3>3. target'[s] = target[s] /\ target[s] \in Instances
      BY <1>r, <2>2, <3>1, <3>2 DEF Moves, SessionsMayMove, Settled, Held, ExRows
    <3> QED BY <1>r, <2>2, <3>2, <3>3 DEF ExReclaim, Moves, TagsMayMove
  <2>3. ASSUME NEW w \in reclaim.work, w[2] \in Sessions
        PROVE  \/ Settled(w[2])'
               \/ w[3] /\ Held(w[2])' /\ (target'[w[2]] = w[1] => tag'[w[1]] = "terminated")
    <3>1. w[1] \in Instances
      BY DEF TypeOK, SweepsOK
    <3> QED BY <1>r, <2>3, <3>1 DEF ExReclaim, Moves, SessionsMayMove, TagsMayMove
  <2>4. ASSUME NEW w \in reclaim.work, w[2] = PoolCycle
        PROVE  claim'[w[1]] = PoolCycle /\ cycle'.hold # w[1]
    <3>1. w[1] \in Instances
      BY DEF TypeOK, SweepsOK
    <3>2. claim[w[1]] = PoolCycle /\ cycle.hold # w[1] /\ rel[w[1]][PoolCycle] = "none"
      BY <1>r, <2>4, <3>1 DEF ExReclaim, Exclusion, ExRelease
    <3> QED BY <1>1, <3>1, <3>2, PoolClaimKept
  <2> QED BY <1>1, <1>r, <2>1, <2>2, <2>3, <2>4 DEF ExReclaim
<1>2. CASE ReclaimStep
  <2>0. UNCHANGED <<tag, row, req, target, cycle>>
    BY <1>2 DEF ReclaimStep, ReclaimReadOpen, ReclaimReadLive, ReclaimReadClaims, ReclaimNext,
       SweepUnchanged, hosting, rows, requests
  <2>1. \A s \in Sessions : (Held(s)' <=> Held(s)) /\ (Settled(s)' <=> Settled(s))
    BY <2>0 DEF Held, Settled, Open
  <2>2. CASE ReclaimReadOpen
    <3>1. /\ reclaim'.work = reclaim.work /\ reclaim'.pc = "opened" /\ claim' = claim
          /\ reclaim'.open = {s \in Sessions : Open(s)}
          /\ reclaim'.settled \subseteq {s \in Sessions : req[s] \in {"done", "failed"}}
      BY <2>2 DEF ReclaimReadOpen, TypeOK, SweepsOK, InFlight
    <3>2. \A s \in Sessions : Open(s) => req[s] = "done"
      BY <1>r DEF ExRows, Open
    <3>3. \A s \in reclaim'.settled : s \in reclaim'.open \/ Settled(s)
      BY <3>1 DEF Settled
    <3> QED BY <1>r, <2>0, <2>1, <3>1, <3>2, <3>3 DEF ExReclaim, TypeOK, SweepsOK
  <2>3. CASE ReclaimReadLive
    <3>1. /\ reclaim'.work = reclaim.work /\ claim' = claim
          /\ reclaim'.open = reclaim.open /\ reclaim'.settled = reclaim.settled
          /\ reclaim'.live = Tagged("idle") \union Tagged("reserved")
      BY <2>3 DEF ReclaimReadLive, TypeOK, SweepsOK
    <3>2. \A s \in Sessions : Held(s) =>
            target[s] \in Tagged("idle") \union Tagged("reserved") \/ tag[target[s]] = "terminated"
      BY <1>r DEF Exclusion, ExGrip, Grip, Fresh, IsReservedFor, Tagged, ExRows
    <3> QED BY <1>r, <2>0, <2>1, <3>1, <3>2 DEF ExReclaim, TypeOK, SweepsOK
  <2>4. CASE ReclaimReadClaims
    <3>1. /\ reclaim.pc = "listed" /\ reclaim'.pc = "reclaiming" /\ claim' = claim
          /\ reclaim'.open = {} /\ reclaim'.settled = {}
          /\ reclaim'.work = {<<i, claim[i], i \notin reclaim.live>> : i \in {j \in Instances : IsStale(j)}}
      BY <2>4 DEF ReclaimReadClaims, Reclaim0
    <3>2. ASSUME NEW w \in reclaim'.work
          PROVE  /\ w[1] \in Instances /\ IsStale(w[1])
                 /\ w = <<w[1], claim[w[1]], w[1] \notin reclaim.live>>
                 /\ w[2] = claim[w[1]] /\ w[3] = (w[1] \notin reclaim.live)
      <4>1. PICK i \in {j \in Instances : IsStale(j)} : w = <<i, claim[i], i \notin reclaim.live>>
        BY <3>1, <3>2
      <4> QED BY <4>1
    <3>3. ASSUME NEW w \in reclaim'.work, w[2] \in Sessions
          PROVE  \/ Settled(w[2])
                 \/ w[3] /\ Held(w[2]) /\ (target[w[2]] = w[1] => tag[w[1]] = "terminated")
      <4>1. claim[w[1]] = w[2] /\ w[2] # PoolCycle /\ (w[3] <=> w[1] \notin reclaim.live)
        BY <3>2, <3>3
      <4>2. w[2] \in reclaim.settled /\ (w[3] \/ w[2] \notin reclaim.open)
        BY <3>2, <4>1 DEF IsStale
      <4>3. CASE ~Settled(w[2])
        <5>1. w[3] /\ Open(w[2])
          BY <1>r, <3>3, <4>2, <4>3 DEF ExReclaim, Settled
        <5> QED BY <1>r, <3>1, <4>1, <4>2, <5>1 DEF ExReclaim, Held
      <4> QED BY <4>3
    <3>4. ASSUME NEW w \in reclaim'.work, w[2] = PoolCycle
          PROVE  claim[w[1]] = PoolCycle /\ cycle.hold # w[1]
      BY <3>2, <3>4 DEF IsStale
    <3>5. \A w, v \in reclaim'.work : v[1] = w[1] => v = w
      BY <3>2
    <3> QED BY <2>0, <2>1, <3>1, <3>3, <3>4, <3>5 DEF ExReclaim
  <2>5. CASE ReclaimNext
    <3>1. CASE reclaim' = Reclaim0
      BY <3>1 DEF Reclaim0, ExReclaim
    <3>2. ASSUME NEW w \in reclaim.work, NEW c, reclaim' = [reclaim EXCEPT !.work = @ \ {w}, !.cur = c],
                 claim' = claim \/ DropClaim(w[1], w[2])
          PROVE  ExReclaim'
      <4>1. /\ reclaim'.work = reclaim.work \ {w} /\ reclaim'.open = reclaim.open /\ reclaim'.pc = reclaim.pc
            /\ reclaim'.settled = reclaim.settled /\ reclaim'.live = reclaim.live
        BY <3>2 DEF TypeOK, SweepsOK
      <4>2. \A v \in reclaim'.work : v[1] # w[1] /\ v[1] \in Instances
        BY <1>r, <4>1 DEF ExReclaim, TypeOK, SweepsOK
      <4>3. \A v \in reclaim'.work : claim'[v[1]] = claim[v[1]]
        BY <3>2, <4>2 DEF DropClaim, TypeOK, SessionsOK
      <4> QED BY <1>r, <2>0, <2>1, <4>1, <4>3 DEF ExReclaim, TypeOK, SweepsOK
    <3>3. \/ reclaim' = Reclaim0
          \/ \E w \in reclaim.work, c \in (Instances \X Holders) \union {NoPair} :
               /\ reclaim' = [reclaim EXCEPT !.work = @ \ {w}, !.cur = c]
               /\ claim' = claim \/ DropClaim(w[1], w[2])
      <4>1. \A w \in reclaim.work : <<w[1], w[2]>> \in Instances \X Holders
        BY DEF TypeOK, SweepsOK
      <4> QED BY <2>5, <4>1 DEF ReclaimNext
    <3> QED BY <3>1, <3>2, <3>3
  <2> QED BY <1>2, <2>2, <2>3, <2>4, <2>5 DEF ReclaimStep
<1>3. CASE Crash
  BY <1>3 DEF Crash, Reclaim0, ExReclaim
<1> QED BY <1>1, <1>2, <1>3 DEF Moves, ListsMayMove

(* So every step keeps the whole of it,                                    *)
LEMMA ExclusionStep ==
  ASSUME ~SlowAllocation, TypeOK, TypeOK', Exclusion, [Next]_vars
  PROVE  Exclusion'
<1>1. CASE Next
  <2>1. Moves
    BY <1>1, NextMoves
  <2> QED BY <2>1, RowsKept, ElectedKept, GripKept, OneKept, OwnerKept, ReleaseKept, UnusedKept,
         ReclaimKept, CycleKept, FreshKept DEF Exclusion
<1>2. CASE UNCHANGED vars
  BY <1>2 DEF vars, hosting, rows, requests, sweeps, boot, Exclusion, ExRows, ExElected, ExGrip, ExOne,
     ExOwner, ExRelease, ExUnused, ExReclaim, ExCycle, ExFresh, Held, Kept, Elected, Past, OnlyBy, Fresh,
     Grip, Settled, Open, IsReservedFor, Unlaunched
<1> QED BY <1>1, <1>2

(* and the worker starts with nothing in hand.                             *)
LEMMA ExclusionInit == Init => Exclusion
<1> USE ConstantsAssumption
<1> SUFFICES ASSUME Init PROVE Exclusion
  OBVIOUS
<1>1. \A s \in Sessions : ~Held(s) /\ ~Elected(s) /\ row[s] = "none"
  BY DEF Init, Held, Elected, Open
<1>2. \A i \in Instances, s \in Sessions : ~IsReservedFor(i, s)
  BY DEF Init, IsReservedFor
<1>3. \A i \in Instances : OnlyBy(i, {})
  BY DEF Init, OnlyBy, Idle0, Reclaim0, Cycle0, Holders
<1>4. ExRows /\ ExElected /\ ExGrip /\ ExOne /\ ExOwner
  BY <1>1, <1>2 DEF ExRows, ExElected, ExGrip, ExOne, ExOwner, Kept
<1>5. ExRelease /\ ExUnused /\ ExReclaim /\ ExCycle
  BY DEF Init, ExRelease, ExUnused, ExReclaim, ExCycle, Idle0, Reclaim0, Cycle0, Holders
<1> QED BY <1>3, <1>4, <1>5 DEF Exclusion, ExFresh, Unlaunched

(* The strengthening is an invariant of every run in which no allocation    *)
(* outlasts the grace that reclaimStaleClaims gives a claim.                *)
THEOREM ExclusionCorrect == ASSUME ~SlowAllocation PROVE Spec => []Exclusion
<1>1. TypeOK /\ Exclusion /\ TypeOK' /\ [Next]_vars => Exclusion'
  BY ExclusionStep
<1> QED BY <1>1, ExclusionInit, TypeCorrect, PTL DEF Spec

(* No two open sessions have the same instance (ClaimRepository.claim,      *)
(* requestInstance), whatever calls fail, whenever the worker restarts and  *)
(* however old a listing is, as long as no allocation outlasts the grace    *)
(* that reclaimStaleClaims gives a claim.                                   *)
THEOREM HeldByOneCorrect == ASSUME ~SlowAllocation PROVE Spec => []HeldByOne
<1>1. Exclusion => HeldByOne
  BY DEF Exclusion, ExRows, ExOne, HeldByOne, Kept, Held, Open
<1> QED BY ExclusionCorrect, <1>1, PTL

=============================================================================
