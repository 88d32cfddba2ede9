---------------------------- MODULE SessionExpiry ----------------------------
(***************************************************************************)
(* The deadline of a worker session and what happens when it passes: the   *)
(* row of a session (workerSessionRepository.js), the users, the load and  *)
(* the email links that move its deadline, and the sweep that warns,       *)
(* mails and closes (expireSessions.js).  A statement of SQL is one step;  *)
(* between two statements of the sweep anything else may happen.           *)
(***************************************************************************)
EXTENDS Integers, FiniteSets

CONSTANTS
  Sessions,      \* the sessions
  Lease,         \* startupLeaseMinutes
  Extensions,    \* the minutes an interaction may be worth
  BusyExtension, \* busyExtensionMinutes
  Cap,           \* maxUnattendedHours
  Settings,      \* what the keep-alive slider may be set to
  EmailExtension, \* emailExtensionMinutes
  Visible,       \* notificationVisibleMinutes
  Grace,         \* graceMinutes
  Skew,          \* how far the worker's clock may be from the database's
  Lag,           \* a sweep takes at most this long, and so does the wait for the next
  LastEvent,     \* bound: when the last user event, restart or failure happens
  MaxNow         \* bound: where time ends

ASSUME ConstantsAssumption ==
  /\ Extensions \subseteq Nat \ {0} /\ Settings \subseteq Nat
  /\ {Lease, EmailExtension, BusyExtension} \subseteq Nat \ {0}
  /\ {Cap, Visible, Grace, Skew, Lag, LastEvent, MaxNow} \subseteq Nat
  /\ Visible <= Grace

VARIABLES
  now,             \* NOW() of the database
  mode,            \* expiryPolicy.mode of the process that is running
  state,           \* worker_session.state, "none" before there is a row
  timeout,         \* timeout_time
  notification,    \* notification_state
  notified,        \* notified_time
  lastInteraction, \* last_interaction_time
  active,          \* active_time
  closed,          \* history: who closed the session, and when
  sweep,           \* where the sweep is, what it read, what its clock said
  waited,          \* how long ago the sweep began or, when it has ended, ended
  links,           \* the mailed links that may verify: <<session, notified_time>>
  hushed           \* history: the last warning of a session mailed or dismissed

row == <<state, timeout, notification, notified, lastInteraction, active, closed>>
mails == <<links, hushed>>
vars == <<now, mode, row, sweep, waited, mails>>

NoTime == -1  \* NULL
Times == Nat \union {NoTime}
Warnings == {"NOTIFIED", "EMAILED", "DISMISSED"}
Unseen == [notification |-> "unseen", notified |-> NoTime]
Seen == [notification : {"unseen", "NONE"} \union Warnings, notified : Times]
Idle == [at |-> "idle", seen |-> [s \in Sessions |-> Unseen], clock |-> 0]

RowOK ==
  /\ state \in [Sessions -> {"none", "PENDING", "ACTIVE", "CLOSED"}]
  /\ timeout \in [Sessions -> Nat]
  /\ notification \in [Sessions -> {"NONE"} \union Warnings]
  /\ notified \in [Sessions -> Times]
  /\ \A s \in Sessions : notification[s] = "NONE" <=> notified[s] = NoTime
  /\ lastInteraction \in [Sessions -> Times]
  /\ active \in [Sessions -> Times]
  /\ closed \in [Sessions -> [by : {"none", "user", "link", "sweep"}, at : Times]]

SweepOK ==
  /\ sweep \in [at : {"idle", "read", "loop"}, seen : [Sessions -> Seen], clock : Int]
  /\ waited \in Nat

MailsOK == links \subseteq Sessions \X Times /\ hushed \in [Sessions -> Times]

TypeOK ==
  /\ now \in Nat /\ mode \in {"off", "notify", "enforce"}
  /\ RowOK /\ SweepOK /\ MailsOK

Init ==
  /\ now = 0 /\ waited = 0 /\ mode \in {"off", "notify", "enforce"}
  /\ state = [s \in Sessions |-> "none"]
  /\ timeout = [s \in Sessions |-> 0]
  /\ notification = [s \in Sessions |-> "NONE"]
  /\ notified = [s \in Sessions |-> NoTime]
  /\ lastInteraction = [s \in Sessions |-> NoTime]
  /\ active = [s \in Sessions |-> NoTime]
  /\ closed = [s \in Sessions |-> [by |-> "none", at |-> NoTime]]
  /\ sweep = Idle
  /\ links = {} /\ hushed = [s \in Sessions |-> NoTime]

Later(a, b) == IF a > b THEN a ELSE b    \* GREATEST
Earlier(a, b) == IF a < b THEN a ELSE b  \* LEAST

(* What the worker's own clock may say. *)
Clock == (now - Skew)..(now + Skew)

----------------------------------------------------------------------------
(* The statements that write a row.                                         *)

IsExpired(s) == state[s] = "ACTIVE" /\ timeout[s] < now

UnattendedAnchor(s) == IF lastInteraction[s] # NoTime THEN lastInteraction[s] ELSE active[s]

(* MUTANT: the time of the warning stays. *)
CallOffStateOnly(s) ==
  /\ notification' = [notification EXCEPT ![s] = "NONE"]
  /\ UNCHANGED notified

(* The expiry cycle is over: nothing is left of the warning. *)
CallOff(s) ==
  /\ notification' = [notification EXCEPT ![s] = "NONE"]
  /\ notified' = [notified EXCEPT ![s] = NoTime]

(* MUTANT: the deadline is written before the columns that compare it. *)
ExtendDeadlineFirst(s, candidate, interaction) ==
  /\ state[s] = "ACTIVE"
  /\ lastInteraction' = [lastInteraction EXCEPT ![s] = IF interaction THEN now ELSE @]
  /\ timeout' = [timeout EXCEPT ![s] = Later(@, candidate)]
  /\ UNCHANGED <<state, active, closed, notification, notified>>

(* MUTANT: any extension calls the warning off. *)
ExtendCallingOff(s, candidate, interaction) ==
  /\ state[s] = "ACTIVE"
  /\ CallOff(s)
  /\ lastInteraction' = [lastInteraction EXCEPT ![s] = IF interaction THEN now ELSE @]
  /\ timeout' = [timeout EXCEPT ![s] = Later(@, candidate)]
  /\ UNCHANGED <<state, active, closed>>

(* The deadline moves up to the candidate, and only if it moves the warning is called off. *)
ExtendSession(s, candidate, interaction) ==
  /\ state[s] = "ACTIVE"
  /\ notification' = [notification EXCEPT ![s] = IF candidate > timeout[s] THEN "NONE" ELSE @]
  /\ notified' = [notified EXCEPT ![s] = IF candidate > timeout[s] THEN NoTime ELSE @]
  /\ lastInteraction' = [lastInteraction EXCEPT ![s] = IF interaction THEN now ELSE @]
  /\ timeout' = [timeout EXCEPT ![s] = Later(@, candidate)]
  /\ UNCHANGED <<state, active, closed>>

CloseRow(s, by) ==
  /\ state' = [state EXCEPT ![s] = "CLOSED"]
  /\ closed' = [closed EXCEPT ![s] = [by |-> by, at |-> now]]
  /\ UNCHANGED <<timeout, notification, notified, lastInteraction, active>>

----------------------------------------------------------------------------
(* The life of a session, its users and its load.                           *)

Outside == UNCHANGED <<now, mode, sweep, waited>>

RequestSession(s) ==
  /\ now <= LastEvent /\ state[s] = "none"
  /\ state' = [state EXCEPT ![s] = "PENDING"]
  /\ \E c \in Clock : c >= 0 /\ timeout' = [timeout EXCEPT ![s] = c + Lease]
  /\ UNCHANGED <<notification, notified, lastInteraction, active, closed, mails>> /\ Outside

ActivateSession(s) ==
  /\ now <= LastEvent /\ state[s] = "PENDING"
  /\ state' = [state EXCEPT ![s] = "ACTIVE"]
  /\ active' = [active EXCEPT ![s] = now]
  /\ timeout' = [timeout EXCEPT ![s] = Later(@, now + Lease)]
  /\ UNCHANGED <<notification, notified, lastInteraction, closed, mails>> /\ Outside

(* Input, an app or terminal opened, the Extend button: never bounded. *)
Interact(s) ==
  /\ now <= LastEvent
  /\ \E minutes \in Extensions : ExtendSession(s, now + minutes, TRUE)
  /\ UNCHANGED mails /\ Outside

(* The load, which goes on for as long as it likes. *)
BusyExtend(s) ==
  /\ ExtendSession(s, Earlier(now + BusyExtension, UnattendedAnchor(s) + Cap), FALSE)
  /\ UNCHANGED mails /\ Outside

SetSessionTimeout(s) ==
  /\ now <= LastEvent /\ state[s] = "ACTIVE"
  /\ CallOff(s)
  /\ lastInteraction' = [lastInteraction EXCEPT ![s] = now]
  /\ \E minutes \in Settings : timeout' = [timeout EXCEPT ![s] = now + minutes]
  /\ UNCHANGED <<state, active, closed, mails>> /\ Outside

DismissNotification(s) ==
  /\ now <= LastEvent /\ notification[s] \in {"NOTIFIED", "EMAILED"}
  /\ notification' = [notification EXCEPT ![s] = "DISMISSED"]
  /\ hushed' = [hushed EXCEPT ![s] = notified[s]]
  /\ UNCHANGED <<state, timeout, notified, lastInteraction, active, closed, links>> /\ Outside

(* The owner, an administrator, the sweep over PENDING sessions, a vanished instance. *)
CloseSession(s) ==
  /\ now <= LastEvent /\ state[s] \in {"PENDING", "ACTIVE"}
  /\ CloseRow(s, "user")
  /\ UNCHANGED mails /\ Outside

(* The link of a mailed warning, as long as its token verifies. *)
IsValid(n) == now - Skew <= n + Grace

RedeemExtension(s, n) ==
  /\ now <= LastEvent /\ <<s, n>> \in links /\ IsValid(n)
  /\ state[s] = "ACTIVE" /\ notified[s] = n
  /\ timeout' = [timeout EXCEPT ![s] = Later(@, now + EmailExtension)]
  /\ lastInteraction' = [lastInteraction EXCEPT ![s] = now]
  /\ CallOff(s)
  /\ UNCHANGED <<state, active, closed, mails>> /\ Outside

(* MUTANT: whatever warning the link was for. *)
RedeemAnyTermination(s, n) ==
  /\ now <= LastEvent /\ <<s, n>> \in links /\ IsValid(n)
  /\ state[s] = "ACTIVE"
  /\ CloseRow(s, "link")
  /\ UNCHANGED mails /\ Outside

RedeemTermination(s, n) ==
  /\ now <= LastEvent /\ <<s, n>> \in links /\ IsValid(n)
  /\ state[s] = "ACTIVE" /\ notified[s] = n
  /\ CloseRow(s, "link")
  /\ UNCHANGED mails /\ Outside

----------------------------------------------------------------------------
(* The sweep.                                                               *)

(* Fixed delay: some time passes between two runs. *)
SweepRead ==
  /\ sweep.at = "idle" /\ waited > 0
  /\ waited' = 0
  /\ IF mode # "off" /\ \E s \in Sessions : IsExpired(s)
     THEN sweep' = [Idle EXCEPT !.at = "read",
            !.seen = [s \in Sessions |->
              IF IsExpired(s) THEN [notification |-> notification[s], notified |-> notified[s]]
              ELSE Unseen]]
     ELSE UNCHANGED sweep
  /\ UNCHANGED <<now, mode, row, mails>>

SweepClock ==
  /\ sweep.at = "read"
  /\ \E c \in Clock : sweep' = [sweep EXCEPT !.at = "loop", !.clock = c]
  /\ UNCHANGED <<now, mode, row, waited, mails>>

(* The sweep has done with s: the run ends with the last session. *)
Done(s) ==
  LET seen == [sweep.seen EXCEPT ![s] = Unseen]
  IN  IF \A t \in Sessions : seen[t] = Unseen
      THEN sweep' = Idle /\ waited' = 0
      ELSE sweep' = [sweep EXCEPT !.seen = seen] /\ UNCHANGED waited

Deciding(s) == sweep.at = "loop" /\ sweep.seen[s] # Unseen

IsWarned(s) == sweep.seen[s].notification \in Warnings

Age(s) == sweep.clock - sweep.seen[s].notified

NotifyExpiry(s) ==
  /\ Deciding(s) /\ sweep.seen[s].notification = "NONE"
  /\ IF IsExpired(s) /\ notification[s] = "NONE"
     THEN /\ notification' = [notification EXCEPT ![s] = "NOTIFIED"]
          /\ notified' = [notified EXCEPT ![s] = now]
     ELSE UNCHANGED <<notification, notified>>
  /\ Done(s)
  /\ UNCHANGED <<now, mode, state, timeout, lastInteraction, active, closed, mails>>

(* MUTANT: only the deadline is asserted again. *)
StillPastDeadline(s) == IsExpired(s)

(* Every decision of the sweep is asserted again. *)
StillExpired(s) ==
  /\ IsExpired(s)
  /\ notification[s] = sweep.seen[s].notification /\ notified[s] = sweep.seen[s].notified
  /\ notified[s] < now - Grace

CloseExpiredSession(s) ==
  /\ Deciding(s) /\ IsWarned(s) /\ Age(s) >= Grace /\ mode = "enforce"
  /\ IF StillExpired(s) THEN CloseRow(s, "sweep") ELSE UNCHANGED row
  /\ Done(s)
  /\ UNCHANGED <<now, mode, mails>>

RestartExpiryCycle(s) ==
  /\ Deciding(s) /\ IsWarned(s) /\ Age(s) >= Grace /\ mode = "notify"
  /\ IF state[s] = "ACTIVE" /\ notified[s] = sweep.seen[s].notified
     THEN CallOff(s) /\ timeout' = [timeout EXCEPT ![s] = Later(@, now + Grace)]
     ELSE UNCHANGED <<notification, notified, timeout>>
  /\ Done(s)
  /\ UNCHANGED <<now, mode, state, lastInteraction, active, closed, mails>>

(* MUTANT: a warning dismissed meanwhile is mailed as well. *)
StillSameWarning(s) == notified[s] = sweep.seen[s].notified

(* The row is as the sweep saw it, as far as the statement asks. *)
StillUnmailed(s) == notification[s] = "NOTIFIED" /\ notified[s] = sweep.seen[s].notified

MailIsDue(s) == sweep.seen[s].notification = "NOTIFIED" /\ Age(s) >= Visible

MarkEmailed(s) ==
  /\ Deciding(s) /\ Age(s) < Grace /\ MailIsDue(s)
  /\ IF StillUnmailed(s)
     THEN /\ notification' = [notification EXCEPT ![s] = "EMAILED"]
          /\ links' = links \union {<<s, notified[s]>>}
          /\ hushed' = [hushed EXCEPT ![s] = notified[s]]
     ELSE UNCHANGED <<notification, mails>>
  /\ Done(s)
  /\ UNCHANGED <<now, mode, state, timeout, notified, lastInteraction, active, closed>>

(* Warned and mailed or dismissed, or not yet due for either. *)
LeaveAlone(s) ==
  /\ Deciding(s) /\ IsWarned(s) /\ Age(s) < Grace /\ ~MailIsDue(s)
  /\ Done(s)
  /\ UNCHANGED <<now, mode, row, mails>>

(* A statement fails: that session waits for the next sweep. *)
ItemFails(s) ==
  /\ now <= LastEvent /\ Deciding(s)
  /\ Done(s)
  /\ UNCHANGED <<now, mode, row, mails>>

SweepItem(s) ==
  NotifyExpiry(s) \/ CloseExpiredSession(s) \/ RestartExpiryCycle(s) \/ MarkEmailed(s) \/ LeaveAlone(s)

(* Describing the sessions fails, and the whole run with it. *)
SweepFails ==
  /\ now <= LastEvent /\ sweep.at = "read"
  /\ sweep' = Idle /\ waited' = 0
  /\ UNCHANGED <<now, mode, row, mails>>

(* A new process, with whatever mode it is configured for. *)
Restart ==
  /\ now <= LastEvent
  /\ mode' \in {"off", "notify", "enforce"} /\ sweep' = Idle /\ waited' = 0
  /\ UNCHANGED <<now, row, mails>>

Tick ==
  /\ now < MaxNow /\ waited < Lag
  /\ now' = now + 1 /\ waited' = waited + 1
  /\ links' = {link \in links : now' - Skew <= link[2] + Grace}
  /\ UNCHANGED <<mode, row, sweep, hushed>>

(* The end of the bounded time. *)
TimeIsUp == now = MaxNow /\ UNCHANGED vars

UserStep(s) ==
  \/ RequestSession(s) \/ ActivateSession(s) \/ CloseSession(s)
  \/ Interact(s) \/ SetSessionTimeout(s) \/ DismissNotification(s)
  \/ \E link \in links : RedeemExtension(s, link[2]) \/ RedeemTermination(s, link[2])

Next ==
  \/ \E s \in Sessions : UserStep(s) \/ BusyExtend(s) \/ SweepItem(s) \/ ItemFails(s)
  \/ SweepRead \/ SweepClock \/ SweepFails \/ Restart \/ Tick \/ TimeIsUp

Spec == Init /\ [][Next]_vars

(* Time passes, and the scheduled job runs and gets on. *)
FairSpec ==
  /\ Spec /\ WF_vars(Tick) /\ WF_vars(SweepRead) /\ WF_vars(SweepClock)
  /\ \A s \in Sessions : WF_vars(SweepItem(s))

----------------------------------------------------------------------------
(* What the expiry promises.                                                *)

(* A session that is being warned was past its deadline when it was        *)
(* warned, and nobody has used it since: an extension that moves the       *)
(* deadline calls the warning off in the same statement (extendSession,    *)
(* whose columns compare the deadline before it is written).               *)
NotifiedIsExpired ==
  \A s \in Sessions : state[s] = "ACTIVE" /\ notification[s] # "NONE" =>
    timeout[s] < notified[s] /\ lastInteraction[s] < notified[s]

(* The sweep closes only a session whose whole grace has passed since the  *)
(* warning, and nothing has moved its deadline in that time, whenever it   *)
(* was interrupted or overtaken (closeExpiredSession).                     *)
GraceIsKept ==
  \A s \in Sessions : closed[s].by = "sweep" =>
    /\ notified[s] # NoTime /\ notified[s] + Grace < closed[s].at
    /\ timeout[s] < notified[s]

(* The rescue always wins: neither a sweep nor a link left in an inbox     *)
(* closes a session that was used after the warning (redeemTermination).   *)
RescueWins ==
  \A s \in Sessions : closed[s].by \in {"sweep", "link"} => lastInteraction[s] < notified[s]

(* A warning is mailed once, and never after it was dismissed, however     *)
(* stale what the sweep has read (markEmailed, dismissNotification).       *)
MailedOnce ==
  [][\A s \in Sessions : notification'[s] = "EMAILED" /\ notification[s] # "EMAILED" =>
       notified[s] # hushed[s]]_vars

(* A session nobody uses is closed in the end, whatever its load: the      *)
(* unattended cap stops the deadline, and an extension that the cap has    *)
(* stopped does not call the warning off (extendSession).                  *)
AbandonedCloses ==
  \A s \in Sessions :
    state[s] = "ACTIVE" /\ mode = "enforce" /\ now > LastEvent ~> state[s] = "CLOSED"

----------------------------------------------------------------------------
(* Why these hold: an inductive invariant.                                  *)

(* A session is used and warned only once it is open, it is due at the     *)
(* earliest when it was last used, and its end is on record.               *)
LifeInv ==
  \A s \in Sessions :
    /\ state[s] \in {"none", "PENDING"} => notification[s] = "NONE" /\ lastInteraction[s] = NoTime
    /\ lastInteraction[s] <= timeout[s]
    /\ state[s] = "CLOSED" <=> closed[s].by # "none"

(* Some time passes between two warnings of a session, so that the time of a *)
(* warning says which one it is.                                             *)
WarningInv ==
  /\ \A link \in links : link[2] # NoTime
  /\ \A s \in Sessions :
       /\ notified[s] <= now /\ hushed[s] <= now
       /\ notification[s] = "NOTIFIED" => hushed[s] # notified[s]
       /\ \/ sweep.at = "idle" /\ waited > 0
          \/ sweep.at # "idle" /\ sweep.seen[s].notification = "NONE"
          => notified[s] < now /\ hushed[s] < now

IInv == NotifiedIsExpired /\ GraceIsKept /\ RescueWins /\ LifeInv /\ WarningInv

=============================================================================
