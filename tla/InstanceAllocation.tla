------------------------- MODULE InstanceAllocation -------------------------
(***************************************************************************)
(* How the worker module hands instances to sessions and takes them back   *)
(* (src/modules/worker).  Three records of who has an instance are kept by *)
(* three authorities and only ever agree through the order of the code's   *)
(* awaits: the State/SessionId tags of the hosting service, the            *)
(* instance_claim table, and the worker_session rows.  Every action is the *)
(* code between two awaits; a handler is a process whose program counter   *)
(* is an element of req, rel, prov or of a sweep's record.                 *)
(***************************************************************************)
EXTENDS Integers, FiniteSets

CONSTANTS
  Instances,        \* ids the hosting service may hand out; none is used twice
  Sessions,         \* ids of the sessions requested
  PoolCycle,        \* POOL_CYCLE_CLAIM, the claim of the pool cycle
  NoSession, NoInstance,
  Jobs,             \* the scheduled jobs that run: a subset of AllJobs
  Failing,          \* the calls that may fail: a subset of Calls
  MaxFailures,      \* bound on failing calls
  MaxCrashes,       \* bound on restarts of the worker process
  TargetIdle,       \* target of the idle pool
  StoppedPoolSize,  \* target of the stopped pool
  SlowAllocation,   \* may an allocation outlast CLAIM_GRACE_MS?
  StaleListings     \* may a request still hold a listing made before the
                    \* instance was reserved and given up by another?

AllJobs == {"reconcile", "missing", "unused", "reclaim", "cycle"}
Calls == {"reserve", "start", "launch", "claim", "host", "insert", "getInstance", "undeploy",
          "tagIdle", "terminate", "attempt", "container", "pollTag", "cycle"}

Holders == Sessions \union {PoolCycle}
NoPair == <<NoInstance, NoSession>>

ASSUME ConstantsAssumption ==
  /\ IsFiniteSet(Instances) /\ NoInstance \notin Instances
  /\ Sessions \intersect {NoSession, PoolCycle} = {} /\ PoolCycle # NoSession
  /\ Jobs \subseteq AllJobs /\ Failing \subseteq Calls
  /\ MaxFailures \in Nat /\ MaxCrashes \in Nat
  /\ TargetIdle \in Nat /\ StoppedPoolSize \in Nat
  /\ SlowAllocation \in BOOLEAN /\ StaleListings \in BOOLEAN

VARIABLES
  tag,         \* the State tag of each instance, or its absence from the service
  owner,       \* the SessionId tag of a reserved instance
  host,        \* is the instance running with an address?
  starting,    \* the Starting tag: not yet reported to the launch listeners
  containers,  \* the sessions whose worker containers exist on the instance
  claim,       \* instance_claim: instance_id -> session_id
  row,         \* worker_session.state
  rowInstance, \* worker_session.instance_id
  req, candidates, target,   \* requestSession/requestInstance in flight
  rel,         \* releaseFromSession in flight, by instance and session
  registry, prov,            \* provisioningRegistry; provisionInstance in flight
  misses,      \* the missing-instance tracker: sessions with one MISSING
  probe,       \* verdicts reconcilePendingSessions has yet to act on
  unused, reclaim, cycle,    \* the three sweeps over the instances
  phase, backfill,           \* boot: instanceComponent.start
  polled,      \* started instances the poll has listed, as they were tagged
  failures, crashes,
  disturbed    \* history: instances whose containers an attempt that was no
               \* longer current has deleted or created, or that have failed

hosting == <<tag, owner, host, starting, containers, disturbed>>
rows == <<row, rowInstance>>
requests == <<req, candidates, target>>
provisioning == <<registry, prov>>
sweeps == <<misses, probe, unused, reclaim, cycle>>
boot == <<phase, backfill, polled>>
vars == <<hosting, claim, rows, requests, rel, provisioning, sweeps, boot, failures, crashes>>

Open(s) == row[s] \in {"PENDING", "ACTIVE"}
InFlight(s) == req[s] \notin {"none", "done", "failed"}
Launching(s) == req[s] \in {"launched", "awaitingLaunch", "launchedUp"}
IsReservedFor(i, h) == tag[i] = "reserved" /\ owner[i] = h
Unlaunched == {i \in Instances : tag[i] = "unlaunched"}
Tagged(t) == {i \in Instances : tag[i] = t}

Idle0 == [pc |-> "idle", used |-> {}, old |-> {}, list |-> {}, work |-> {}, cur |-> NoPair]
Reclaim0 == [pc |-> "idle", open |-> {}, settled |-> {}, live |-> {}, work |-> {}, cur |-> NoPair]
Cycle0 == [pc |-> "idle", surplus |-> {}, quota |-> 0, hold |-> NoInstance]

HostingOK ==
  /\ tag \in [Instances -> {"unlaunched", "idle", "reserved", "pooled", "terminated"}]
  /\ owner \in [Instances -> Sessions \union {NoSession}]
  /\ \A i \in Instances : tag[i] = "reserved" => owner[i] \in Sessions
  /\ host \in [Instances -> BOOLEAN] /\ starting \in [Instances -> BOOLEAN]
  /\ containers \in [Instances -> SUBSET Sessions] /\ disturbed \subseteq Instances

SessionsOK ==
  /\ claim \in [Instances -> Holders \union {NoSession}]
  /\ row \in [Sessions -> {"none", "PENDING", "ACTIVE", "CLOSED"}]
  /\ rowInstance \in [Sessions -> Instances \union {NoInstance}]
  /\ req \in [Sessions -> {"none", "claiming", "claimed", "awaiting", "undoing", "pooling",
                           "startingPooled", "undoingStart", "launching", "launched",
                           "awaitingLaunch", "allocated", "launchedUp", "done", "failed"}]
  /\ candidates \in [Sessions -> SUBSET Instances]
  /\ target \in [Sessions -> Instances \union {NoInstance}]

HandlersOK ==
  /\ rel \in [Instances -> [Holders -> {"none", "start", "deployed", "torn", "unclaimed",
                                        "failed", "dropping"}]]
  /\ registry \in [Instances -> Sessions \union {NoSession}]
  /\ prov \in [Instances -> [Sessions -> {"none", "begin", "keyed", "cleared", "built"}]]
  /\ misses \subseteq Sessions /\ probe \subseteq Sessions \X {"PROVISIONED", "MISSING"}

SweepsOK ==
  /\ unused \in [pc : {"idle", "opened", "listed", "releasing"}, used : SUBSET (Instances \union {NoInstance}),
                 old : SUBSET Instances, list : SUBSET (Instances \X Sessions),
                 work : SUBSET (Instances \X Sessions),
                 cur : (Instances \X Sessions) \union {NoPair}]
  /\ reclaim \in [pc : {"idle", "opened", "listed", "reclaiming"}, open : SUBSET Sessions,
                  settled : SUBSET Sessions, live : SUBSET Instances,
                  work : SUBSET (Instances \X Holders \X BOOLEAN),
                  cur : (Instances \X Holders) \union {NoPair}]
  /\ cycle \in [pc : {"idle", "listed", "sizing", "holding", "acted"}, surplus : SUBSET Instances,
                quota : Nat, hold : Instances \union {NoInstance}]

ProcessOK ==
  /\ phase \in {"booting", "backfilling", "up"} /\ backfill \subseteq Instances \X Sessions
  /\ polled \subseteq Instances \X (Sessions \union {NoSession})
  /\ failures \in 0..MaxFailures /\ crashes \in 0..MaxCrashes

TypeOK == HostingOK /\ SessionsOK /\ HandlersOK /\ SweepsOK /\ ProcessOK

(* The fleet the worker finds: instances idle and booted, pooled and        *)
(* stopped, or not launched yet.                                            *)
Init ==
  /\ tag \in [Instances -> {"unlaunched", "idle", "pooled"}]
  /\ host = [i \in Instances |-> tag[i] = "idle"]
  /\ owner = [i \in Instances |-> NoSession] /\ starting = [i \in Instances |-> FALSE]
  /\ containers = [i \in Instances |-> {}] /\ claim = [i \in Instances |-> NoSession]
  /\ row = [s \in Sessions |-> "none"] /\ rowInstance = [s \in Sessions |-> NoInstance]
  /\ req = [s \in Sessions |-> "none"] /\ candidates = [s \in Sessions |-> {}]
  /\ target = [s \in Sessions |-> NoInstance]
  /\ rel = [i \in Instances |-> [h \in Holders |-> "none"]]
  /\ registry = [i \in Instances |-> NoSession]
  /\ prov = [i \in Instances |-> [s \in Sessions |-> "none"]]
  /\ misses = {} /\ probe = {} /\ unused = Idle0 /\ reclaim = Reclaim0 /\ cycle = Cycle0
  /\ phase = "up" /\ backfill = {} /\ polled = {} /\ failures = 0 /\ crashes = 0 /\ disturbed = {}

----------------------------------------------------------------------------
(* Calls shared by the handlers.                                            *)

Fails(call) == call \in Failing /\ failures < MaxFailures /\ failures' = failures + 1
Succeeds == UNCHANGED failures

(* provider.terminate *)
Terminated(i) ==
  /\ tag' = [tag EXCEPT ![i] = "terminated"]
  /\ owner' = [owner EXCEPT ![i] = NoSession]
  /\ host' = [host EXCEPT ![i] = FALSE]
  /\ starting' = [starting EXCEPT ![i] = FALSE]
  /\ containers' = [containers EXCEPT ![i] = {}]
  /\ UNCHANGED disturbed

(* Mutant of Retag: the SessionId tag is left as it was. *)
RetagStateOnly(i, t, s) ==
  /\ tag' = [tag EXCEPT ![i] = t]
  /\ UNCHANGED <<owner, host, starting, containers, disturbed>>

(* CreateTags: State and SessionId change, the machine does not. *)
Retag(i, t, s) ==
  /\ tag' = [tag EXCEPT ![i] = t]
  /\ owner' = [owner EXCEPT ![i] = s]
  /\ UNCHANGED <<host, starting, containers, disturbed>>

(* Mutant of Claim: an upsert. *)
ClaimOverwriting(i, h) == claim' = [claim EXCEPT ![i] = h]

(* ClaimRepository.claim: the INSERT lands or collides with the primary key. *)
Claim(i, h) == claim[i] = NoSession /\ claim' = [claim EXCEPT ![i] = h]

(* ClaimRepository.release: only the caller's own row. *)
DropClaim(i, h) == claim' = [claim EXCEPT ![i] = IF @ = h THEN NoSession ELSE @]

(* A listed instance is claimed while it is still in the pool, or was tried *)
(* while its taker had the claim.  With StaleListings the lister was slower: *)
(* the instance has been reserved since, and its claim dropped again.       *)
StillInPool(i) == StaleListings \/ tag[i] # "reserved"

(* provisioning.run: dropped when the instance has an entry. *)
RunProvision(i, s) ==
  IF registry[i] # NoSession \/ prov[i][s] # "none" THEN UNCHANGED provisioning
  ELSE /\ registry' = [registry EXCEPT ![i] = s]
       /\ prov' = [prov EXCEPT ![i][s] = "begin"]

(* releaseInstance: a release of the same instance and session is joined. *)
StartRelease(i, h) == rel' = [rel EXCEPT ![i][h] = IF @ = "none" THEN "start" ELSE @]

(* The guarded row update of a close, then the release of the instance. *)
CloseAndRelease(s) ==
  /\ row' = [row EXCEPT ![s] = "CLOSED"]
  /\ StartRelease(rowInstance[s], s)
  /\ UNCHANGED rowInstance

----------------------------------------------------------------------------
(* requestSession and requestInstance *)

RequestSession(s) ==
  /\ phase = "up" /\ req[s] = "none"
  /\ req' = [req EXCEPT ![s] = "claiming"]
  /\ candidates' = [candidates EXCEPT ![s] = Tagged("idle")]
  /\ UNCHANGED <<hosting, claim, rows, target, rel, provisioning, sweeps, boot, failures, crashes>>

(* One candidate is tried: a lost claim moves on to the next. *)
TryCandidate(s, from, won) ==
  /\ req[s] = from
  /\ \E i \in candidates[s] :
       \/ /\ StillInPool(i) /\ Claim(i, s)
          /\ req' = [req EXCEPT ![s] = won]
          /\ target' = [target EXCEPT ![s] = i]
          /\ candidates' = [candidates EXCEPT ![s] = {}]
       \/ /\ claim[i] # NoSession \/ ~StillInPool(i)
          /\ candidates' = [candidates EXCEPT ![s] = @ \ {i}]
          /\ UNCHANGED <<claim, req, target>>
  /\ UNCHANGED <<hosting, rows, rel, provisioning, sweeps, boot, failures, crashes>>

ClaimIdle(s) == TryCandidate(s, "claiming", "claimed")
ClaimPooled(s) == TryCandidate(s, "pooling", "startingPooled")

ListPooled(s) ==
  /\ req[s] = "claiming" /\ candidates[s] = {}
  /\ req' = [req EXCEPT ![s] = "pooling"]
  /\ candidates' = [candidates EXCEPT ![s] = {i \in Tagged("pooled") : ~host[i]}]
  /\ UNCHANGED <<hosting, claim, rows, target, rel, provisioning, sweeps, boot, failures, crashes>>

(* provider.reserve; a tag that cannot be written terminates the instance. *)
Reserve(s) ==
  LET i == target[s] IN
  /\ req[s] = "claimed"
  /\ \/ tag[i] # "terminated" /\ Retag(i, "reserved", s) /\ Succeeds
        /\ req' = [req EXCEPT ![s] = "awaiting"]
     \/ (IF tag[i] = "terminated" THEN Succeeds ELSE Fails("reserve")) /\ Terminated(i)
        /\ req' = [req EXCEPT ![s] = "undoing"]
  /\ UNCHANGED <<claim, rows, candidates, target, rel, provisioning, sweeps, boot, crashes>>

(* waitForPublicIp gives up on a slow instance, or finds none. *)
HostNeverComes(i) ==
  /\ ~host[i]
  /\ IF tag[i] = "terminated" THEN Succeeds ELSE Fails("host")

(* provider.awaitHost, then InstancePendingProvisioning provisions it. *)
AwaitHost(s) ==
  /\ req[s] = "awaiting"
  /\ \/ host[target[s]] /\ Succeeds /\ req' = [req EXCEPT ![s] = "allocated"]
        /\ RunProvision(target[s], s)
     \/ HostNeverComes(target[s]) /\ req' = [req EXCEPT ![s] = "undoing"]
        /\ UNCHANGED provisioning
  /\ UNCHANGED <<hosting, claim, rows, candidates, target, rel, sweeps, boot, crashes>>

(* The catch blocks: the claim goes, the reservation tag stays. *)
UndoClaim(s) ==
  /\ req[s] \in {"undoing", "undoingStart"}
  /\ DropClaim(target[s], s)
  /\ req' = [req EXCEPT ![s] = IF @ = "undoing" THEN "failed" ELSE "launching"]
  /\ UNCHANGED <<hosting, rows, candidates, target, rel, provisioning, sweeps, boot, failures, crashes>>

(* provider.startPooled: a failed start leaves the instance pooled, failed  *)
(* tagging terminates it; either way the request launches one instead.      *)
StartPooled(s) ==
  LET i == target[s] IN
  /\ req[s] = "startingPooled"
  /\ \/ tag[i] # "terminated" /\ Retag(i, "reserved", s) /\ Succeeds
        /\ req' = [req EXCEPT ![s] = "awaiting"]
     \/ (IF tag[i] = "terminated" THEN Succeeds ELSE Fails("start"))
        /\ (Terminated(i) \/ UNCHANGED hosting)
        /\ req' = [req EXCEPT ![s] = "undoingStart"]
  /\ UNCHANGED <<claim, rows, candidates, target, rel, provisioning, sweeps, boot, crashes>>

(* provider.launchReserved: tagged before the claim is recorded. *)
LaunchReserved(s) ==
  /\ req[s] = "launching" \/ (req[s] = "pooling" /\ candidates[s] = {})
  /\ \/ \E i \in Unlaunched :
          \/ /\ tag' = [tag EXCEPT ![i] = "reserved"] /\ owner' = [owner EXCEPT ![i] = s]
             /\ starting' = [starting EXCEPT ![i] = TRUE]
             /\ target' = [target EXCEPT ![s] = i]
             /\ req' = [req EXCEPT ![s] = "launched"]
             /\ Succeeds /\ UNCHANGED <<host, containers, disturbed>>
          \/ /\ Fails("launch") /\ Terminated(i)
             /\ req' = [req EXCEPT ![s] = "failed"] /\ UNCHANGED target
     \/ /\ Unlaunched = {} /\ Succeeds
        /\ req' = [req EXCEPT ![s] = "failed"] /\ UNCHANGED <<hosting, target>>
  /\ UNCHANGED <<claim, rows, candidates, rel, provisioning, sweeps, boot, crashes>>

(* A claim that cannot be recorded is only logged. *)
ClaimLaunched(s) ==
  /\ req[s] = "launched"
  /\ \/ Claim(target[s], s) /\ Succeeds
     \/ claim[target[s]] # NoSession /\ Succeeds /\ UNCHANGED claim
     \/ Fails("claim") /\ UNCHANGED claim
  /\ req' = [req EXCEPT ![s] = "awaitingLaunch"]
  /\ UNCHANGED <<hosting, rows, candidates, target, rel, provisioning, sweeps, boot, crashes>>

(* A launch that never gets an address keeps its claim. *)
AwaitLaunched(s) ==
  /\ req[s] = "awaitingLaunch"
  /\ \/ host[target[s]] /\ Succeeds /\ req' = [req EXCEPT ![s] = "launchedUp"]
     \/ HostNeverComes(target[s]) /\ req' = [req EXCEPT ![s] = "failed"]
  /\ UNCHANGED <<hosting, claim, rows, candidates, target, rel, provisioning, sweeps, boot, crashes>>

(* repo.insert: only now is there a row. *)
InsertRow(s) ==
  /\ req[s] \in {"allocated", "launchedUp"}
  /\ \/ /\ Succeeds /\ req' = [req EXCEPT ![s] = "done"]
        /\ row' = [row EXCEPT ![s] = "PENDING"]
        /\ rowInstance' = [rowInstance EXCEPT ![s] = target[s]]
     \/ /\ Fails("insert") /\ req' = [req EXCEPT ![s] = "failed"] /\ UNCHANGED rows
  /\ UNCHANGED <<hosting, claim, candidates, target, rel, provisioning, sweeps, boot, crashes>>

----------------------------------------------------------------------------
(* The hosting service, and the provider's poll for started instances *)

Boot(i) ==
  /\ tag[i] \in {"idle", "reserved"} /\ ~host[i]
  /\ host' = [host EXCEPT ![i] = TRUE]
  /\ UNCHANGED <<tag, owner, starting, containers, disturbed, claim, rows, requests, rel,
                 provisioning, sweeps, boot, failures, crashes>>

(* A container dies on a running host. *)
LoseContainer(i) ==
  /\ containers[i] # {} /\ Fails("container")
  /\ containers' = [containers EXCEPT ![i] = {}] /\ disturbed' = disturbed \union {i}
  /\ UNCHANGED <<tag, owner, host, starting, claim, rows, requests, rel,
                 provisioning, sweeps, boot, crashes>>

(* notifyAboutStartedInstances lists the started instances, then untags each *)
(* and fires the launch listener, which provisions it if it was reserved;    *)
(* failed untagging terminates it.                                           *)
PollList(i) ==
  /\ host[i] /\ starting[i] /\ \A p \in polled : p[1] # i
  /\ polled' = polled \union {<<i, owner[i]>>}
  /\ UNCHANGED <<hosting, claim, rows, requests, rel, provisioning, sweeps, phase, backfill,
                 failures, crashes>>

PollStarted(i) ==
  \E p \in polled :
    /\ p[1] = i /\ polled' = polled \ {p}
    /\ \/ /\ tag[i] # "terminated" /\ Succeeds
          /\ starting' = [starting EXCEPT ![i] = FALSE]
          /\ UNCHANGED <<tag, owner, host, containers, disturbed>>
          /\ IF p[2] # NoSession THEN RunProvision(i, p[2]) ELSE UNCHANGED provisioning
       \/ /\ IF tag[i] = "terminated" THEN Succeeds ELSE Fails("pollTag")
          /\ Terminated(i) /\ UNCHANGED provisioning
    /\ UNCHANGED <<claim, rows, requests, rel, sweeps, phase, backfill, crashes>>

----------------------------------------------------------------------------
(* provisionInstance, one attempt after another *)

ProvUnchanged == UNCHANGED <<claim, requests, sweeps, boot, crashes>>

(* isCurrent is asked at the start of an attempt and after it, no sooner. *)
AbandonProvision(i, s) ==
  /\ prov[i][s] = "begin" /\ registry[i] # s
  /\ prov' = [prov EXCEPT ![i][s] = "none"]
  /\ UNCHANGED <<hosting, rows, rel, registry, failures>> /\ ProvUnchanged

(* Mutant of GetApiKey: whatever session has the instance. *)
GetApiKeyUnchecked(i, s) ==
  /\ prov[i][s] = "begin" /\ registry[i] = s /\ host[i]
  /\ prov' = [prov EXCEPT ![i][s] = "keyed"]
  /\ UNCHANGED <<hosting, rows, rel, registry, failures>> /\ ProvUnchanged

(* apiKeyForSession: null unless the session is the open one on i. *)
GetApiKey(i, s) ==
  /\ prov[i][s] = "begin" /\ registry[i] = s /\ host[i]
  /\ Open(s) /\ rowInstance[s] = i
  /\ prov' = [prov EXCEPT ![i][s] = "keyed"]
  /\ UNCHANGED <<hosting, rows, rel, registry, failures>> /\ ProvUnchanged

RemoveInstanceContainers(i, s) ==
  /\ prov[i][s] = "keyed" /\ host[i]
  /\ containers' = [containers EXCEPT ![i] = {}]
  /\ disturbed' = IF registry[i] = s THEN disturbed ELSE disturbed \union {i}
  /\ prov' = [prov EXCEPT ![i][s] = "cleared"]
  /\ UNCHANGED <<tag, owner, host, starting, rows, rel, registry, failures>> /\ ProvUnchanged

CreateContainers(i, s) ==
  /\ prov[i][s] = "cleared" /\ host[i]
  /\ containers' = [containers EXCEPT ![i] = @ \union {s}]
  /\ disturbed' = IF registry[i] = s THEN disturbed ELSE disturbed \union {i}
  /\ prov' = [prov EXCEPT ![i][s] = "built"]
  /\ UNCHANGED <<tag, owner, host, starting, rows, rel, registry, failures>> /\ ProvUnchanged

AttemptFails(i, s) ==
  /\ prov[i][s] \in {"keyed", "cleared", "built"}
  /\ IF host[i] THEN Fails("attempt") ELSE Succeeds
  /\ prov' = [prov EXCEPT ![i][s] = "begin"]
  /\ UNCHANGED <<hosting, rows, rel, registry>> /\ ProvUnchanged

(* registry.run's finally clears only its own entry. *)
EndProvision(i, s) ==
  /\ prov' = [prov EXCEPT ![i][s] = "none"]
  /\ registry' = [registry EXCEPT ![i] = IF @ = s THEN NoSession ELSE @]

(* activatePendingSessionOnInstance: the PENDING session on i, whichever. *)
ActivateOn(i) ==
  row' = [s \in Sessions |-> IF row[s] = "PENDING" /\ rowInstance[s] = i THEN "ACTIVE" ELSE row[s]]

(* Mutant of Provisioned: isCurrent is not asked after the attempt. *)
ProvisionedUnchecked(i, s) ==
  /\ prov[i][s] = "built" /\ host[i]
  /\ ActivateOn(i) /\ EndProvision(i, s)
  /\ UNCHANGED <<hosting, rowInstance, rel, failures>> /\ ProvUnchanged

Provisioned(i, s) ==
  /\ prov[i][s] = "built" /\ host[i]
  /\ IF registry[i] = s THEN ActivateOn(i) ELSE UNCHANGED row
  /\ EndProvision(i, s)
  /\ UNCHANGED <<hosting, rowInstance, rel, failures>> /\ ProvUnchanged

(* Ten failures: FailedToProvisionInstance closes the open session on i.  An *)
(* attempt without an API key fails, one with it may.  Ten attempts take     *)
(* many minutes: longer than a request, longer than a sweep's verdicts last. *)
ProvisionExhausted(i, s) ==
  /\ prov[i][s] = "begin" /\ registry[i] = s /\ ~InFlight(s)
  /\ IF host[i] /\ Open(s) /\ rowInstance[s] = i THEN Fails("attempt") ELSE probe = {} /\ Succeeds
  /\ \/ \E t \in Sessions : Open(t) /\ rowInstance[t] = i /\ CloseAndRelease(t)
     \/ (\A t \in Sessions : ~(Open(t) /\ rowInstance[t] = i)) /\ UNCHANGED <<rows, rel>>
  /\ EndProvision(i, s)
  /\ UNCHANGED hosting /\ ProvUnchanged

----------------------------------------------------------------------------
(* Closing a session, and releaseInstance *)

(* closeSession: by the user, by budget or user lock, by a deadline. *)
CloseSession(s) ==
  /\ Open(s) /\ CloseAndRelease(s)
  /\ UNCHANGED <<hosting, claim, requests, provisioning, sweeps, boot, failures, crashes>>

RelUnchanged == UNCHANGED <<rows, requests, prov, sweeps, boot, crashes>>
RelStep(i, h, to) == rel' = [rel EXCEPT ![i][h] = to]

(* Mutants of GetInstance: undeploying only without a host; the claim first. *)
GetInstanceHostInverted(i, h) ==
  /\ rel[i][h] = "start"
  /\ IF IsReservedFor(i, h)
     THEN /\ registry' = [registry EXCEPT ![i] = NoSession]
          /\ RelStep(i, h, IF host[i] THEN "torn" ELSE "deployed")
          /\ UNCHANGED claim
     ELSE /\ DropClaim(i, h) /\ RelStep(i, h, "none") /\ UNCHANGED registry
  /\ UNCHANGED <<hosting, failures>> /\ RelUnchanged
GetInstanceUnclaimed(i, h) ==
  /\ rel[i][h] = "start" /\ DropClaim(i, h)
  /\ IF IsReservedFor(i, h)
     THEN /\ registry' = [registry EXCEPT ![i] = NoSession]
          /\ RelStep(i, h, IF host[i] THEN "deployed" ELSE "torn")
     ELSE RelStep(i, h, "none") /\ UNCHANGED registry
  /\ UNCHANGED <<hosting, failures>> /\ RelUnchanged

(* getInstance and the ownership check; what is still the session's is      *)
(* forgotten by the registry, what is not is left alone.  An instance       *)
(* without an address has never been provisioned.                           *)
GetInstance(i, h) ==
  /\ rel[i][h] = "start"
  /\ IF IsReservedFor(i, h)
     THEN /\ registry' = [registry EXCEPT ![i] = NoSession]
          /\ RelStep(i, h, IF host[i] THEN "deployed" ELSE "torn")
          /\ UNCHANGED claim
     ELSE /\ DropClaim(i, h) /\ RelStep(i, h, "none") /\ UNCHANGED registry
  /\ UNCHANGED <<hosting, failures>> /\ RelUnchanged

(* provisioner.undeploy and provider.deleteScratchVolume *)
Undeploy(i, h) ==
  /\ rel[i][h] = "deployed"
  /\ containers' = [containers EXCEPT ![i] = {}]
  /\ RelStep(i, h, "torn")
  /\ UNCHANGED <<tag, owner, host, starting, disturbed, claim, registry, failures>>
  /\ RelUnchanged

ReleaseClaim(i, h) ==
  /\ rel[i][h] = "torn"
  /\ DropClaim(i, h) /\ RelStep(i, h, "unclaimed")
  /\ UNCHANGED <<hosting, registry, failures>> /\ RelUnchanged

(* provider.release: tagged idle; failed tagging terminates. *)
TagIdle(i, h) ==
  /\ rel[i][h] = "unclaimed"
  /\ \/ tag[i] # "terminated" /\ Retag(i, "idle", NoSession) /\ Succeeds /\ RelStep(i, h, "none")
     \/ (IF tag[i] = "terminated" THEN Succeeds ELSE Fails("tagIdle"))
        /\ Terminated(i) /\ RelStep(i, h, "failed")
  /\ UNCHANGED <<claim, registry>> /\ RelUnchanged

(* Any exception on the way ends in terminate, whoever has the instance. *)
ReleaseFails(i, h) ==
  /\ \/ rel[i][h] = "start" /\ Fails("getInstance")
     \/ rel[i][h] = "deployed" /\ Fails("undeploy")
  /\ RelStep(i, h, "failed")
  /\ UNCHANGED <<hosting, claim, registry>> /\ RelUnchanged

TerminateFailed(i, h) ==
  /\ rel[i][h] = "failed"
  /\ \/ Terminated(i) /\ Succeeds
     \/ Fails("terminate") /\ UNCHANGED hosting
  /\ RelStep(i, h, "dropping")
  /\ UNCHANGED <<claim, registry>> /\ RelUnchanged

DropFailed(i, h) ==
  /\ rel[i][h] = "dropping"
  /\ DropClaim(i, h) /\ RelStep(i, h, "none")
  /\ UNCHANGED <<hosting, registry, failures>> /\ RelUnchanged

----------------------------------------------------------------------------
(* ReleaseUnusedInstances: rows, then reserved instances, then claims       *)

SweepUnchanged == UNCHANGED <<rows, requests, boot, crashes, misses, probe>>

InRelease(cur) == cur # NoPair /\ rel[cur[1]][cur[2]] # "none"

(* An instance still launching is younger than the sweep's minimum age. *)
UnusedReadOpen ==
  /\ "unused" \in Jobs /\ phase = "up" /\ unused.pc = "idle"
  /\ unused' = [unused EXCEPT !.pc = "opened",
                  !.used = {rowInstance[s] : s \in {t \in Sessions : Open(t)}},
                  !.old = Instances \ (Unlaunched \union {target[s] : s \in {t \in Sessions : Launching(t)}})]
  /\ UNCHANGED <<hosting, claim, rel, provisioning, reclaim, cycle, failures>> /\ SweepUnchanged

UnusedListReserved ==
  /\ unused.pc = "opened"
  /\ unused' = [unused EXCEPT !.pc = "listed",
                  !.list = {<<i, owner[i]>> : i \in Tagged("reserved")}]
  /\ UNCHANGED <<hosting, claim, rel, provisioning, reclaim, cycle, failures>> /\ SweepUnchanged

(* Mutant of UnusedReadClaims: the claims are not read. *)
UnusedReadNoClaims ==
  /\ unused.pc = "listed"
  /\ unused' = [Idle0 EXCEPT !.pc = "releasing",
                  !.work = {p \in unused.list : p[1] \in unused.old \ unused.used}]
  /\ UNCHANGED <<hosting, claim, rel, provisioning, reclaim, cycle, failures>> /\ SweepUnchanged

UnusedReadClaims ==
  /\ unused.pc = "listed"
  /\ unused' = [Idle0 EXCEPT !.pc = "releasing",
                  !.work = {p \in unused.list : /\ p[1] \in unused.old \ unused.used
                                                /\ claim[p[1]] = NoSession}]
  /\ UNCHANGED <<hosting, claim, rel, provisioning, reclaim, cycle, failures>> /\ SweepUnchanged

(* One release is awaited before the next. *)
UnusedRelease ==
  /\ unused.pc = "releasing"
  /\ ~InRelease(unused.cur)
  /\ \/ \E p \in unused.work :
          /\ StartRelease(p[1], p[2])
          /\ unused' = [unused EXCEPT !.work = @ \ {p}, !.cur = p]
     \/ unused.work = {} /\ unused' = Idle0 /\ UNCHANGED rel
  /\ UNCHANGED <<hosting, claim, provisioning, reclaim, cycle, failures>> /\ SweepUnchanged

----------------------------------------------------------------------------
(* ReclaimStaleClaims: rows, then instances, then claims                    *)

(* Mutant of ReclaimReadOpen: no grace. *)
ReclaimReadOpenNoGrace ==
  /\ "reclaim" \in Jobs /\ phase = "up" /\ reclaim.pc = "idle"
  /\ reclaim' = [reclaim EXCEPT !.pc = "opened", !.open = {s \in Sessions : Open(s)},
                   !.settled = {s \in Sessions : req[s] # "none"}]
  /\ UNCHANGED <<hosting, claim, rel, provisioning, unused, cycle, failures>> /\ SweepUnchanged

(* A claim older than CLAIM_GRACE_MS is one of a request that had settled   *)
(* before this sweep began, unless SlowAllocation.                          *)
ReclaimReadOpen ==
  /\ "reclaim" \in Jobs /\ phase = "up" /\ reclaim.pc = "idle"
  /\ reclaim' = [reclaim EXCEPT !.pc = "opened", !.open = {s \in Sessions : Open(s)},
                   !.settled = {s \in Sessions : req[s] # "none" /\ (InFlight(s) => SlowAllocation)}]
  /\ UNCHANGED <<hosting, claim, rel, provisioning, unused, cycle, failures>> /\ SweepUnchanged

ReclaimReadLive ==
  /\ reclaim.pc = "opened"
  /\ reclaim' = [reclaim EXCEPT !.pc = "listed", !.live = Tagged("idle") \union Tagged("reserved")]
  /\ UNCHANGED <<hosting, claim, rel, provisioning, unused, cycle, failures>> /\ SweepUnchanged

(* Mutant of IsStale: only the claims of instances that are gone. *)
IsStaleWhenGone(i) ==
  /\ claim[i] # NoSession /\ i \notin reclaim.live
  /\ IF claim[i] = PoolCycle THEN cycle.hold # i ELSE claim[i] \in reclaim.settled

(* The claim of the running pool cycle is never old either. *)
IsStale(i) ==
  /\ claim[i] # NoSession
  /\ i \notin reclaim.live \/ claim[i] \notin reclaim.open
  /\ IF claim[i] = PoolCycle THEN cycle.hold # i ELSE claim[i] \in reclaim.settled

ReclaimReadClaims ==
  /\ reclaim.pc = "listed"
  /\ reclaim' = [Reclaim0 EXCEPT !.pc = "reclaiming",
                   !.work = {<<i, claim[i], i \notin reclaim.live>> : i \in {j \in Instances : IsStale(j)}}]
  /\ UNCHANGED <<hosting, claim, rel, provisioning, unused, cycle, failures>> /\ SweepUnchanged

(* A gone instance's claim is deleted, any other goes through a release. *)
ReclaimNext ==
  /\ reclaim.pc = "reclaiming"
  /\ ~InRelease(reclaim.cur)
  /\ \/ \E w \in reclaim.work :
          IF w[3]
          THEN /\ DropClaim(w[1], w[2]) /\ UNCHANGED rel
               /\ reclaim' = [reclaim EXCEPT !.work = @ \ {w}, !.cur = NoPair]
          ELSE /\ StartRelease(w[1], w[2]) /\ UNCHANGED claim
               /\ reclaim' = [reclaim EXCEPT !.work = @ \ {w}, !.cur = <<w[1], w[2]>>]
     \/ reclaim.work = {} /\ reclaim' = Reclaim0 /\ UNCHANGED <<claim, rel>>
  /\ UNCHANGED <<hosting, rows, requests, provisioning, misses, probe, unused, cycle, boot,
                 failures, crashes>>

----------------------------------------------------------------------------
(* SizeIdlePool: one cycle over one instance type                           *)

CycleUnchanged == UNCHANGED <<rows, requests, rel, provisioning, misses, probe, unused,
                              reclaim, boot, crashes>>

AtMost(n, S) == IF n < Cardinality(S) THEN n ELSE Cardinality(S)

(* Launch the idle deficit, or pick the surplus; ages are left open. *)
CycleList ==
  /\ "cycle" \in Jobs /\ phase = "up" /\ cycle.pc = "idle"
  /\ \/ \E new \in SUBSET Unlaunched :
          /\ Cardinality(Tagged("idle")) < TargetIdle
          /\ Cardinality(new) = AtMost(TargetIdle - Cardinality(Tagged("idle")), Unlaunched)
          /\ tag' = [i \in Instances |-> IF i \in new THEN "idle" ELSE tag[i]]
          /\ starting' = [i \in Instances |-> i \in new \/ starting[i]]
          /\ cycle' = [cycle EXCEPT !.pc = "listed"]
     \/ \E surplus \in SUBSET Tagged("idle") :
          /\ Cardinality(surplus) = Cardinality(Tagged("idle")) - TargetIdle
          /\ cycle' = [cycle EXCEPT !.pc = "listed", !.surplus = surplus]
          /\ UNCHANGED <<tag, starting>>
  /\ UNCHANGED <<owner, host, containers, disturbed, claim, failures>> /\ CycleUnchanged

CyclePoolState ==
  /\ cycle.pc = "listed"
  /\ cycle' = [cycle EXCEPT !.pc = "sizing",
                 !.quota = IF Cardinality(Tagged("pooled")) < StoppedPoolSize
                           THEN StoppedPoolSize - Cardinality(Tagged("pooled")) ELSE 0]
  /\ UNCHANGED <<hosting, claim, failures>> /\ CycleUnchanged

(* underClaim: a lost claim leaves the instance to the request that has it. *)
CycleClaim ==
  /\ cycle.pc = "sizing"
  /\ \E i \in cycle.surplus :
       \/ /\ StillInPool(i) /\ Claim(i, PoolCycle)
          /\ cycle' = [cycle EXCEPT !.pc = "holding", !.surplus = @ \ {i}, !.hold = i]
       \/ /\ claim[i] # NoSession \/ ~StillInPool(i)
          /\ UNCHANGED claim
          /\ cycle' = [cycle EXCEPT !.surplus = @ \ {i}]
  /\ UNCHANGED <<hosting, failures>> /\ CycleUnchanged

(* provider.pool while the stopped pool has room, else provider.terminate.  *)
(* Pooling tags, then stops; a failed tag terminates the instance, a failed *)
(* stop leaves it running in the pool.                                      *)
CycleAct ==
  LET i == cycle.hold
      pooling == cycle.quota > 0 /\ tag[i] # "terminated" IN
  /\ cycle.pc = "holding"
  /\ \/ /\ pooling /\ Retag(i, "pooled", NoSession) /\ Fails("cycle")
        /\ cycle' = [cycle EXCEPT !.pc = "acted"]
     \/ /\ pooling /\ Succeeds
        /\ tag' = [tag EXCEPT ![i] = "pooled"] /\ owner' = [owner EXCEPT ![i] = NoSession]
        /\ host' = [host EXCEPT ![i] = FALSE]
        /\ cycle' = [cycle EXCEPT !.pc = "acted", !.quota = @ - 1]
        /\ UNCHANGED <<starting, containers, disturbed>>
     \/ /\ IF pooling THEN Fails("cycle") ELSE Succeeds
        /\ Terminated(i) /\ cycle' = [cycle EXCEPT !.pc = "acted"]
     \/ /\ ~pooling /\ Fails("cycle") /\ UNCHANGED hosting
        /\ cycle' = [cycle EXCEPT !.pc = "acted"]
  /\ UNCHANGED claim /\ CycleUnchanged

CycleUnclaim ==
  /\ cycle.pc = "acted"
  /\ DropClaim(cycle.hold, PoolCycle)
  /\ cycle' = [cycle EXCEPT !.pc = "sizing", !.hold = NoInstance]
  /\ UNCHANGED <<hosting, failures>> /\ CycleUnchanged

(* Warm-ups, at most two at a time, fill what the surplus did not. *)
CycleWarmUp ==
  /\ cycle.pc = "sizing" /\ cycle.surplus = {}
  /\ \E new \in SUBSET Unlaunched :
       /\ Cardinality(new) = AtMost(IF cycle.quota < 2 THEN cycle.quota ELSE 2, Unlaunched)
       /\ tag' = [i \in Instances |-> IF i \in new THEN "pooled" ELSE tag[i]]
  /\ cycle' = Cycle0
  /\ UNCHANGED <<owner, host, starting, containers, disturbed, claim, failures>>
  /\ CycleUnchanged

----------------------------------------------------------------------------
(* ReconcilePendingSessions and CloseSessionsWithoutInstance                *)

ProbeUnchanged == UNCHANGED <<hosting, claim, requests, unused, reclaim, cycle, boot, failures, crashes>>

(* The verdicts are a snapshot; a host that cannot be asked gets none. *)
ReconcileProbe ==
  /\ "reconcile" \in Jobs /\ phase = "up" /\ probe = {}
  /\ probe' = {<<s, IF s \in containers[rowInstance[s]] THEN "PROVISIONED" ELSE "MISSING">> :
                 s \in {t \in Sessions : row[t] = "PENDING" /\ host[rowInstance[t]]}}
  /\ UNCHANGED <<rows, rel, provisioning, misses>> /\ ProbeUnchanged

(* Mutant of ReconcileNext: nothing is provisioned again. *)
ReconcileNextActivating ==
  \E p \in probe :
    LET i == rowInstance[p[1]] IN
    /\ probe' = probe \ {p}
    /\ IF registry[i] = NoSession /\ p[2] = "PROVISIONED" THEN ActivateOn(i) ELSE UNCHANGED row
    /\ UNCHANGED <<rowInstance, rel, misses, provisioning>> /\ ProbeUnchanged

(* PROVISIONED activates whatever is PENDING on the instance; MISSING       *)
(* re-reads the row before it provisions.                                   *)
ReconcileNext ==
  \E p \in probe :
    LET s == p[1]
        i == rowInstance[s]
        idle == registry[i] = NoSession IN
    /\ probe' = probe \ {p}
    /\ IF idle /\ p[2] = "PROVISIONED" THEN ActivateOn(i) ELSE UNCHANGED row
    /\ IF idle /\ p[2] = "MISSING" /\ row[s] = "PENDING"
       THEN RunProvision(i, s) ELSE UNCHANGED provisioning
    /\ UNCHANGED <<rowInstance, rel, misses>> /\ ProbeUnchanged

(* One MISSING is a strike, the second closes, PROVISIONED forgets.  The    *)
(* host of a terminated instance never answers again: it outlasts the       *)
(* backstop.  The close does not release the instance.                      *)
MissingProbe(s) ==
  LET i == rowInstance[s] IN
  /\ "missing" \in Jobs /\ phase = "up" /\ row[s] = "ACTIVE"
  /\ \/ host[i] /\ s \in containers[i] /\ misses' = misses \ {s} /\ UNCHANGED row
     \/ host[i] /\ s \notin containers[i] /\ s \notin misses
        /\ misses' = misses \union {s} /\ UNCHANGED row
     \/ (IF host[i] THEN s \notin containers[i] /\ s \in misses ELSE tag[i] = "terminated")
        /\ misses' = misses \ {s} /\ row' = [row EXCEPT ![s] = "CLOSED"]
  /\ UNCHANGED <<rowInstance, rel, provisioning, probe>> /\ ProbeUnchanged

----------------------------------------------------------------------------
(* Restart: the process forgets, then instanceComponent.start backfills the *)
(* claims of reserved instances before requests and jobs run.               *)

Crash ==
  /\ crashes < MaxCrashes /\ crashes' = crashes + 1
  /\ req' = [s \in Sessions |-> IF InFlight(s) THEN "failed" ELSE req[s]]
  /\ candidates' = [s \in Sessions |-> {}]
  /\ rel' = [i \in Instances |-> [h \in Holders |-> "none"]]
  /\ registry' = [i \in Instances |-> NoSession]
  /\ prov' = [i \in Instances |-> [s \in Sessions |-> "none"]]
  /\ misses' = {} /\ probe' = {} /\ unused' = Idle0 /\ reclaim' = Reclaim0 /\ cycle' = Cycle0
  /\ phase' = "booting" /\ backfill' = {} /\ polled' = {}
  /\ UNCHANGED <<hosting, claim, rows, target, failures>>

BackfillRead ==
  /\ phase = "booting" /\ phase' = "backfilling"
  /\ backfill' = {<<i, owner[i]>> : i \in Tagged("reserved")}
  /\ UNCHANGED <<hosting, claim, rows, requests, rel, provisioning, sweeps, polled, failures, crashes>>

BackfillClaim ==
  /\ phase = "backfilling"
  /\ \/ \E p \in backfill :
          /\ IF claim[p[1]] = NoSession THEN Claim(p[1], p[2]) ELSE UNCHANGED claim
          /\ backfill' = backfill \ {p} /\ UNCHANGED phase
     \/ backfill = {} /\ phase' = "up" /\ UNCHANGED <<claim, backfill>>
  /\ UNCHANGED <<hosting, rows, requests, rel, provisioning, sweeps, polled, failures, crashes>>

----------------------------------------------------------------------------
RequestStep(s) ==
  \/ ClaimIdle(s) \/ ListPooled(s) \/ Reserve(s) \/ AwaitHost(s) \/ UndoClaim(s)
  \/ ClaimPooled(s) \/ StartPooled(s)
  \/ LaunchReserved(s) \/ ClaimLaunched(s) \/ AwaitLaunched(s) \/ InsertRow(s)

ProvisionStep(i, s) ==
  \/ AbandonProvision(i, s) \/ GetApiKey(i, s) \/ RemoveInstanceContainers(i, s)
  \/ CreateContainers(i, s) \/ AttemptFails(i, s) \/ Provisioned(i, s) \/ ProvisionExhausted(i, s)

ReleaseStep(i, h) ==
  \/ GetInstance(i, h) \/ Undeploy(i, h) \/ ReleaseClaim(i, h) \/ TagIdle(i, h)
  \/ ReleaseFails(i, h) \/ TerminateFailed(i, h) \/ DropFailed(i, h)

UnusedStep == UnusedReadOpen \/ UnusedListReserved \/ UnusedReadClaims \/ UnusedRelease
ReclaimStep == ReclaimReadOpen \/ ReclaimReadLive \/ ReclaimReadClaims \/ ReclaimNext
CycleStep ==
  CycleList \/ CyclePoolState \/ CycleClaim \/ CycleAct \/ CycleUnclaim \/ CycleWarmUp
ReconcileStep == ReconcileProbe \/ ReconcileNext

Next ==
  \/ \E s \in Sessions : RequestSession(s) \/ RequestStep(s) \/ CloseSession(s) \/ MissingProbe(s)
  \/ \E i \in Instances : Boot(i) \/ PollList(i) \/ PollStarted(i) \/ LoseContainer(i)
  \/ \E i \in Instances, s \in Sessions : ProvisionStep(i, s)
  \/ \E i \in Instances, h \in Holders : ReleaseStep(i, h)
  \/ UnusedStep \/ ReclaimStep \/ CycleStep \/ ReconcileStep
  \/ Crash \/ BackfillRead \/ BackfillClaim

Spec == Init /\ [][Next]_vars

(* Every handler that has started goes on, instances boot, the poll and the *)
(* jobs run every few seconds or minutes.  Nobody has to close a session.   *)
(* Attempts without an API key go on failing between the sweeps' verdicts.  *)
Fairness ==
  /\ \A s \in Sessions : WF_vars(RequestStep(s))
  /\ \A i \in Instances : WF_vars(Boot(i)) /\ WF_vars(PollList(i) \/ PollStarted(i))
  /\ \A i \in Instances : \A s \in Sessions :
       WF_vars(ProvisionStep(i, s)) /\ SF_vars(ProvisionExhausted(i, s))
  /\ \A i \in Instances : \A h \in Holders : WF_vars(ReleaseStep(i, h))
  /\ WF_vars(UnusedStep) /\ WF_vars(ReclaimStep) /\ WF_vars(CycleStep) /\ WF_vars(ReconcileStep)
  /\ WF_vars(BackfillRead) /\ WF_vars(BackfillClaim)

FairSpec == Spec /\ Fairness

----------------------------------------------------------------------------
(* Properties                                                               *)

(* No two open sessions ever have the same instance: what claiming before   *)
(* reserving is for (ClaimRepository, requestInstance).                     *)
HeldByOne ==
  \A s, t \in Sessions : Open(s) /\ Open(t) /\ rowInstance[s] = rowInstance[t] => s = t

(* While a session is open its instance stays reserved and claimed for it,  *)
(* whatever sweep, late release or pool cycle is under way                  *)
(* (releaseUnusedInstances, reclaimStaleClaims, sizeIdlePool).              *)
SessionKeepsInstance ==
  \A s \in Sessions : Open(s) => /\ IsReservedFor(rowInstance[s], s)
                                 /\ claim[rowInstance[s]] = s

(* An instance goes back to a pool only torn down: no container of a former *)
(* user is on an instance a request can be given (releaseInstance), unless  *)
(* an outdated provisioning attempt has put it there.                       *)
IdleIsClean ==
  \A i \in Instances : tag[i] \in {"idle", "pooled"} /\ i \notin disturbed => containers[i] = {}

(* A container that exists on an instance has the claim of some session to  *)
(* account for it (releaseInstance undeploys before it drops the claim).    *)
(* Where the undeploy and the terminate after it both fail, it does not.    *)
ContainerIsClaimed ==
  \A i \in Instances : containers[i] # {} /\ i \notin disturbed => claim[i] \in Sessions

(* Nothing but the session's own provisioning takes an open session's       *)
(* containers away: no late release, no sweep (releaseInstance's ownership  *)
(* check, reconcilePendingSessions' second read).                           *)
TeardownIsOwn ==
  [][\A s \in Sessions : \A i \in Instances :
       Open(s) /\ Open(s)' /\ rowInstance[s] = i /\ s \in containers[i] \ containers'[i]
         => (prov[i][s] = "keyed" /\ registry[i] = s) \/ i \in disturbed']_vars

(* A session becomes ACTIVE only with its containers up, also when the      *)
(* reconcile sweep activates it on a verdict some seconds old.              *)
ActivatedIsProvisioned ==
  [][\A s \in Sessions : row[s] = "PENDING" /\ row'[s] = "ACTIVE"
       => s \in containers[rowInstance[s]] \/ rowInstance[s] \in disturbed]_vars

(* What Leases sees: a session's instance is the one reserved for it, from  *)
(* the tag to the release; it is over when its request has failed or its    *)
(* row is CLOSED; on a disturbed instance, containers are nobody's.         *)
Stage == [s \in Sessions |-> CASE Open(s) -> "open" [] InFlight(s) -> "asking"
                               [] req[s] = "none" -> "new" [] OTHER -> "over"]
Lessee == [i \in Instances |-> IF tag[i] = "reserved" THEN owner[i] ELSE NoSession]
Used == [i \in Instances |-> IF i \in disturbed THEN {} ELSE containers[i]]

Lease == INSTANCE Leases
         WITH stage <- Stage, lessee <- Lessee, used <- Used, gone <- Tagged("terminated")

(* All of this together: requests, releases, sweeps and restarts of the     *)
(* worker do what Leases says, one step of it for each of theirs or none.   *)
LeasesKept == Lease!Spec

(* Whatever fails and whenever the worker restarts, the instances of a      *)
(* request that failed and of a session that closed are given back.         *)
NoLeak ==
  \A s \in Sessions : (req[s] = "failed" \/ row[s] = "CLOSED") ~>
     (\A i \in Instances : ~IsReservedFor(i, s) /\ claim[i] # s)

(* A PENDING session is activated or closed although nobody times it out:   *)
(* provisioning finishes or gives up, and a restart in the middle of it is  *)
(* made good by reconcilePendingSessions.                                   *)
PendingSettles == \A s \in Sessions : row[s] = "PENDING" ~> row[s] # "PENDING"

----------------------------------------------------------------------------
(* Why SessionKeepsInstance holds: an inductive invariant.  It needs the    *)
(* timing the code counts on, and three calls that do not fail: getInstance *)
(* (a release that cannot read the owner terminates), the poll's untagging  *)
(* (it terminates too) and the claim of a launched instance (only logged).  *)

Calm == /\ ~StaleListings /\ ~SlowAllocation
        /\ Failing \intersect {"getInstance", "pollTag", "claim"} = {}

(* Nothing is done for the session any more, and never will be. *)
Settled(s) == req[s] \in {"done", "failed"} /\ ~Open(s)

(* The instance is reserved and claimed for the session. *)
Holding(s) == Open(s) \/ req[s] \in {"awaiting", "allocated", "awaitingLaunch", "launchedUp"}

(* The instance is claimed, and may or may not be reserved. *)
Electing(s) == req[s] \in {"claimed", "startingPooled", "undoing", "undoingStart"}

Targets(s, i) == target[s] = i /\ (Holding(s) \/ req[s] \in {"launched", "undoing"})

RequestInv ==
  \A s \in Sessions :
    /\ row[s] # "none" => req[s] = "done" /\ rowInstance[s] = target[s]
    /\ Holding(s) \/ Electing(s) \/ req[s] = "launched" => target[s] \in Instances
    /\ Holding(s) => IsReservedFor(target[s], s) /\ claim[target[s]] = s
    /\ Electing(s) => claim[target[s]] = s
    /\ req[s] \in {"claimed", "startingPooled"} => tag[target[s]] # "reserved"
    /\ req[s] = "launched" => IsReservedFor(target[s], s) /\ claim[target[s]] = NoSession
    /\ candidates[s] \intersect Unlaunched = {}

OwnerInv ==
  \A i \in Instances :
    /\ \A s \in Sessions : IsReservedFor(i, s) => Settled(s) \/ Targets(s, i)
    /\ \A s \in Sessions : claim[i] = s =>
         Settled(s) \/ (target[s] = i /\ (Holding(s) \/ Electing(s)))
    /\ tag[i] = "unlaunched" => claim[i] = NoSession

ReleaseInv ==
  \A i \in Instances :
    /\ \A s \in Sessions :
         /\ rel[i][s] # "none" => Settled(s)
         /\ rel[i][s] \in {"deployed", "torn", "unclaimed"} => IsReservedFor(i, s)
         /\ rel[i][s] = "failed" => IsReservedFor(i, s) \/ tag[i] = "terminated"
    /\ rel[i][PoolCycle] # "none" =>
         /\ rel[i][PoolCycle] = "start" /\ claim[i] = PoolCycle /\ cycle.hold # i
         /\ reclaim.pc = "reclaiming" /\ reclaim.cur = <<i, PoolCycle>>

UnusedInv ==
  /\ \A i \in unused.old : tag[i] # "unlaunched" /\ \A s \in Sessions : req[s] = "launched" => target[s] # i
  /\ \A p \in unused.list : Settled(p[2]) \/ Targets(p[2], p[1])
  /\ \A p \in unused.work : Settled(p[2])

ReclaimInv ==
  /\ \A s \in reclaim.open : Open(s) \/ Settled(s)
  /\ \A s \in reclaim.settled : s \in reclaim.open \/ Settled(s)
  /\ reclaim.pc = "listed" => \A s \in reclaim.open : Settled(s) \/ target[s] \in reclaim.live
  /\ reclaim.work # {} => reclaim.pc = "reclaiming"
  /\ \A w \in reclaim.work :
       /\ w[2] \in Sessions => Settled(w[2])
       /\ w[2] = PoolCycle => claim[w[1]] = PoolCycle /\ cycle.hold # w[1] /\ rel[w[1]][PoolCycle] = "none"
       /\ \A v \in reclaim.work : v[1] = w[1] => v = w

CycleInv ==
  /\ cycle.pc = "holding" => /\ cycle.hold \in Instances /\ claim[cycle.hold] = PoolCycle
                             /\ tag[cycle.hold] \notin {"reserved", "unlaunched"}
  /\ cycle.surplus \intersect Unlaunched = {}

BootInv ==
  /\ phase # "up" => \A s \in Sessions : ~InFlight(s)
  /\ \A p \in backfill : tag[p[1]] # "unlaunched"
       /\ (Settled(p[2]) \/ (target[p[2]] = p[1] /\ Open(p[2])))
  /\ backfill # {} => phase = "backfilling"

IInv == /\ RequestInv /\ OwnerInv /\ ReleaseInv /\ UnusedInv /\ ReclaimInv /\ CycleInv /\ BootInv

----------------------------------------------------------------------------
(* What a comment of the code promises and the code does not keep.          *)

(* dockerInstanceProvisioner: an attempt that outlived its session "leaves  *)
(* the next one's containers alone".  The session is looked up before the   *)
(* containers are deleted, and the lookup is not repeated.                  *)
NextSessionLeftAlone ==
  [][\A s \in Sessions : \A i \in Instances :
       Open(s) /\ Open(s)' /\ rowInstance[s] = i /\ s \in containers[i] \ containers'[i]
         => prov'[i][s] = "cleared" \/ failures' # failures]_vars

=============================================================================
