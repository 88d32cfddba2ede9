------------------------- MODULE SessionExpiryProofs -------------------------
(***************************************************************************)
(* For any number of sessions and any lengths of leases, caps, graces and  *)
(* skew: the types, what the expiry promises of each state, and that a     *)
(* warning is mailed once.                                                 *)
(***************************************************************************)
EXTENDS SessionExpiry, TLAPS

(* What Done does to the sweep keeps its type. *)
LEMMA DoneType ==
  ASSUME TypeOK, NEW s \in Sessions, Done(s)
  PROVE  SweepOK'
  BY DEF TypeOK, SweepOK, Done, Idle, Unseen, Seen, Times, NoTime, Warnings

(* An extension keeps the types of the row. *)
LEMMA ExtendType ==
  ASSUME TypeOK, NEW s \in Sessions, NEW c \in Int, NEW i \in BOOLEAN, ExtendSession(s, c, i)
  PROVE  RowOK'
  BY DEF TypeOK, RowOK, ExtendSession, Later, Times, NoTime, Warnings

(* What a process finds has its type. *)
LEMMA TypeInit == Init => TypeOK
  BY ConstantsAssumption
     DEF Init, TypeOK, RowOK, SweepOK, MailsOK, Idle, Unseen, Seen, Times, NoTime, Warnings

(* Every step keeps the types. *)
LEMMA TypeStep == ASSUME TypeOK, Next PROVE TypeOK'
<1>1. ASSUME NEW s \in Sessions, RequestSession(s) PROVE TypeOK'
  <2>1. RowOK'
    BY <1>1, ConstantsAssumption
       DEF TypeOK, RequestSession, MailsOK, Clock, RowOK, Times, NoTime, Warnings
  <2> QED BY <1>1, <2>1 DEF TypeOK, SweepOK, MailsOK, RowOK, RequestSession, Outside, mails
<1>2. ASSUME NEW s \in Sessions, ActivateSession(s) PROVE TypeOK'
  <2>1. RowOK'
    BY <1>2, ConstantsAssumption
       DEF TypeOK, ActivateSession, Later, RowOK, Times, NoTime, Warnings
  <2> QED BY <1>2, <2>1 DEF TypeOK, SweepOK, MailsOK, RowOK, ActivateSession, Outside, mails
<1>3. ASSUME NEW s \in Sessions, SetSessionTimeout(s) PROVE TypeOK'
  <2>1. RowOK'
    BY <1>3, ConstantsAssumption
       DEF TypeOK, SetSessionTimeout, CallOff, RowOK, Times, NoTime, Warnings
  <2> QED BY <1>3, <2>1 DEF TypeOK, SweepOK, MailsOK, RowOK, SetSessionTimeout, Outside, mails
<1>4. ASSUME NEW s \in Sessions, DismissNotification(s) PROVE TypeOK'
  <2>1. RowOK'
    BY <1>4, ConstantsAssumption
       DEF TypeOK, DismissNotification, MailsOK, RowOK, Times, NoTime, Warnings
  <2> QED BY <1>4, <2>1 DEF TypeOK, SweepOK, MailsOK, RowOK, DismissNotification, Outside, mails
<1>5. ASSUME NEW s \in Sessions, CloseSession(s) PROVE TypeOK'
  <2>1. RowOK'
    BY <1>5, ConstantsAssumption
       DEF TypeOK, CloseSession, CloseRow, RowOK, Times, NoTime, Warnings
  <2> QED BY <1>5, <2>1 DEF TypeOK, SweepOK, MailsOK, RowOK, CloseSession, Outside, mails
<1>6. ASSUME NEW s \in Sessions, Interact(s) PROVE TypeOK'
  <2>1. PICK m \in Extensions : ExtendSession(s, now + m, TRUE)
    BY <1>6 DEF Interact
  <2>2. now + m \in Int
    BY ConstantsAssumption DEF TypeOK
  <2> QED BY <1>6, <2>1, <2>2, ExtendType DEF TypeOK, SweepOK, MailsOK, Interact, Outside, mails
<1>7. ASSUME NEW s \in Sessions, BusyExtend(s) PROVE TypeOK'
  <2>1. Earlier(now + BusyExtension, UnattendedAnchor(s) + Cap) \in Int
    BY ConstantsAssumption DEF TypeOK, RowOK, Earlier, UnattendedAnchor, Times, NoTime
  <2> QED BY <1>7, <2>1, ExtendType DEF TypeOK, SweepOK, MailsOK, BusyExtend, Outside, mails
<1>8. ASSUME NEW s \in Sessions, NEW n, RedeemExtension(s, n) PROVE TypeOK'
  <2>1. RowOK'
    BY <1>8, ConstantsAssumption
       DEF TypeOK, RedeemExtension, CallOff, Later, RowOK, Times, NoTime, Warnings
  <2> QED BY <1>8, <2>1 DEF TypeOK, SweepOK, MailsOK, RedeemExtension, Outside, mails
<1>9. ASSUME NEW s \in Sessions, NEW n, RedeemTermination(s, n) PROVE TypeOK'
  <2>1. RowOK'
    BY <1>9, ConstantsAssumption
       DEF TypeOK, RedeemTermination, CloseRow, RowOK, Times, NoTime, Warnings
  <2> QED BY <1>9, <2>1 DEF TypeOK, SweepOK, MailsOK, RedeemTermination, Outside, mails
<1>10. ASSUME NEW s \in Sessions, NotifyExpiry(s) PROVE TypeOK'
  <2>1. SweepOK'
    BY <1>10, DoneType DEF NotifyExpiry
  <2>2. RowOK'
    BY <1>10, ConstantsAssumption DEF TypeOK, NotifyExpiry, RowOK, Times, NoTime, Warnings
  <2>3. MailsOK'
    BY <1>10 DEF TypeOK, MailsOK, NotifyExpiry, mails
  <2> QED BY <1>10, <2>1, <2>2, <2>3 DEF TypeOK, NotifyExpiry
<1>11. ASSUME NEW s \in Sessions, CloseExpiredSession(s) PROVE TypeOK'
  <2>1. SweepOK'
    BY <1>11, DoneType DEF CloseExpiredSession
  <2>2. RowOK'
    <3>1. CASE StillExpired(s)
      <4>1. CloseRow(s, "sweep")
        BY <1>11, <3>1 DEF CloseExpiredSession
      <4>2. state' \in [Sessions -> {"none", "PENDING", "ACTIVE", "CLOSED"}]
        BY <4>1 DEF TypeOK, RowOK, CloseRow
      <4>3. closed' \in [Sessions -> [by : {"none", "user", "link", "sweep"}, at : Times]]
        BY <4>1 DEF TypeOK, RowOK, CloseRow, Times
      <4> QED BY <4>1, <4>2, <4>3 DEF TypeOK, RowOK, CloseRow
    <3>2. CASE ~StillExpired(s)
      BY <1>11, <3>2 DEF TypeOK, RowOK, CloseExpiredSession, row
    <3> QED BY <3>1, <3>2
  <2>3. MailsOK'
    BY <1>11 DEF TypeOK, MailsOK, CloseExpiredSession, mails
  <2> QED BY <1>11, <2>1, <2>2, <2>3 DEF TypeOK, CloseExpiredSession
<1>12. ASSUME NEW s \in Sessions, RestartExpiryCycle(s) PROVE TypeOK'
  <2>1. SweepOK'
    BY <1>12, DoneType DEF RestartExpiryCycle
  <2>2. RowOK'
    <3>1. CASE state[s] = "ACTIVE" /\ notified[s] = sweep.seen[s].notified
      <4>1. /\ CallOff(s) /\ timeout' = [timeout EXCEPT ![s] = Later(timeout[s], now + Grace)]
            /\ UNCHANGED <<state, lastInteraction, active, closed>>
        BY <1>12, <3>1 DEF RestartExpiryCycle
      <4>2. Later(timeout[s], now + Grace) \in Nat
        BY ConstantsAssumption DEF TypeOK, RowOK, Later
      <4>3. timeout' \in [Sessions -> Nat]
        BY <4>1, <4>2 DEF TypeOK, RowOK
      <4>4. /\ notification' \in [Sessions -> {"NONE"} \union Warnings]
            /\ notified' \in [Sessions -> Times]
            /\ \A t \in Sessions : notification'[t] = "NONE" <=> notified'[t] = NoTime
        BY <4>1 DEF TypeOK, RowOK, CallOff, Times
      <4> QED BY <4>1, <4>3, <4>4 DEF TypeOK, RowOK
    <3>2. CASE ~(state[s] = "ACTIVE" /\ notified[s] = sweep.seen[s].notified)
      BY <1>12, <3>2 DEF TypeOK, RowOK, RestartExpiryCycle
    <3> QED BY <3>1, <3>2
  <2>3. MailsOK'
    BY <1>12 DEF TypeOK, MailsOK, RestartExpiryCycle, mails
  <2> QED BY <1>12, <2>1, <2>2, <2>3 DEF TypeOK, RestartExpiryCycle
<1>13. ASSUME NEW s \in Sessions, MarkEmailed(s) PROVE TypeOK'
  <2>1. SweepOK'
    BY <1>13, DoneType DEF MarkEmailed
  <2>2. RowOK'
    BY <1>13, ConstantsAssumption
       DEF TypeOK, MarkEmailed, StillUnmailed, RowOK, Times, NoTime, Warnings
  <2>3. MailsOK'
    BY <1>13 DEF TypeOK, RowOK, MailsOK, MarkEmailed, mails
  <2> QED BY <1>13, <2>1, <2>2, <2>3 DEF TypeOK, MarkEmailed
<1>14. ASSUME NEW s \in Sessions, LeaveAlone(s) PROVE TypeOK'
  <2>1. SweepOK'
    BY <1>14, DoneType DEF LeaveAlone
  <2>2. RowOK'
    BY <1>14, ConstantsAssumption DEF TypeOK, LeaveAlone, row, RowOK, Times, NoTime, Warnings
  <2>3. MailsOK'
    BY <1>14 DEF TypeOK, MailsOK, LeaveAlone, mails
  <2> QED BY <1>14, <2>1, <2>2, <2>3 DEF TypeOK, LeaveAlone
<1>15. ASSUME NEW s \in Sessions, ItemFails(s) PROVE TypeOK'
  <2>1. SweepOK'
    BY <1>15, DoneType DEF ItemFails
  <2>2. RowOK'
    BY <1>15, ConstantsAssumption DEF TypeOK, ItemFails, row, RowOK, Times, NoTime, Warnings
  <2>3. MailsOK'
    BY <1>15 DEF TypeOK, MailsOK, ItemFails, mails
  <2> QED BY <1>15, <2>1, <2>2, <2>3 DEF TypeOK, ItemFails
<1>16. ASSUME SweepRead PROVE TypeOK'
  <2>1. SweepOK'
    <3>1. \A s \in Sessions : [notification |-> notification[s], notified |-> notified[s]] \in Seen
      BY DEF TypeOK, RowOK, Seen
    <3>2. Unseen \in Seen
      BY DEF Unseen, Seen, Times
    <3>3. CASE UNCHANGED sweep
      BY <1>16, <3>3 DEF TypeOK, SweepOK, SweepRead
    <3>4. CASE ~UNCHANGED sweep
      <4>1. sweep' = [at |-> "read", clock |-> 0, seen |-> [s \in Sessions |->
                       IF IsExpired(s) THEN [notification |-> notification[s], notified |-> notified[s]]
                       ELSE Unseen]]
        BY <1>16, <3>4 DEF SweepRead, Idle
      <4> QED BY <1>16, <3>1, <3>2, <4>1 DEF TypeOK, SweepOK, SweepRead
    <3> QED BY <3>3, <3>4
  <2> QED BY <1>16, <2>1 DEF TypeOK, RowOK, MailsOK, SweepRead, row, mails
<1>17. ASSUME SweepClock PROVE TypeOK'
  <2>1. SweepOK'
    <3>1. PICK c \in Clock : sweep' = [sweep EXCEPT !.at = "loop", !.clock = c]
      BY <1>17 DEF SweepClock
    <3>2. c \in Int
      BY ConstantsAssumption DEF TypeOK, Clock
    <3> QED BY <1>17, <3>1, <3>2 DEF TypeOK, SweepOK, SweepClock
  <2> QED BY <1>17, <2>1 DEF TypeOK, RowOK, MailsOK, SweepClock, row, mails
<1>18. ASSUME SweepFails PROVE TypeOK'
  <2>1. SweepOK'
    BY <1>18 DEF TypeOK, SweepOK, SweepFails, Idle, Unseen, Seen, Times
  <2> QED BY <1>18, <2>1 DEF TypeOK, RowOK, MailsOK, SweepFails, row, mails
<1>19. ASSUME Restart PROVE TypeOK'
  <2>1. SweepOK'
    BY <1>19 DEF TypeOK, SweepOK, Restart, Idle, Unseen, Seen, Times
  <2> QED BY <1>19, <2>1 DEF TypeOK, RowOK, MailsOK, Restart, row, mails
<1>20. ASSUME Tick PROVE TypeOK'
  BY <1>20 DEF TypeOK, RowOK, SweepOK, MailsOK, Tick, row
<1>21. ASSUME UNCHANGED vars PROVE TypeOK'
  BY <1>21 DEF TypeOK, RowOK, SweepOK, MailsOK, vars, row, mails
<1> QED BY <1>1, <1>2, <1>3, <1>4, <1>5, <1>6, <1>7, <1>8, <1>9, <1>10, <1>11, <1>12, <1>13,
   <1>14, <1>15, <1>16, <1>17, <1>18, <1>19, <1>20, <1>21 DEF Next, UserStep, SweepItem,
   TimeIsUp

(* Every column keeps its type, and the time of a warning is there exactly *)
(* as long as the warning (extendSession, notifyExpiry).                   *)
THEOREM TypeCorrect == Spec => []TypeOK
<1>1. TypeOK /\ UNCHANGED vars => TypeOK'
  BY DEF TypeOK, RowOK, SweepOK, MailsOK, vars, row, mails
<1> QED BY TypeInit, TypeStep, <1>1, PTL DEF Spec

----------------------------------------------------------------------------
(* The invariant, session by session.                                       *)

(* What the row of a session promises, whatever the sweep is doing. *)
RowInv(s) ==
  /\ state[s] = "ACTIVE" /\ notification[s] # "NONE" =>
       timeout[s] < notified[s] /\ lastInteraction[s] < notified[s]
  /\ closed[s].by = "sweep" =>
       notified[s] # NoTime /\ notified[s] + Grace < closed[s].at /\ timeout[s] < notified[s]
  /\ closed[s].by \in {"sweep", "link"} => lastInteraction[s] < notified[s]
  /\ state[s] \in {"none", "PENDING"} => notification[s] = "NONE" /\ lastInteraction[s] = NoTime
  /\ lastInteraction[s] <= timeout[s]
  /\ state[s] = "CLOSED" <=> closed[s].by # "none"
  /\ notified[s] <= now /\ hushed[s] <= now
  /\ notification[s] = "NOTIFIED" => hushed[s] # notified[s]

(* The sweep may warn the session next. *)
MayBeWarned(s) ==
  \/ sweep.at = "idle" /\ waited > 0
  \/ sweep.at # "idle" /\ sweep.seen[s].notification = "NONE"

(* Then its last warning is of an earlier time. *)
Spaced(s) == MayBeWarned(s) => notified[s] < now /\ hushed[s] < now

(* A link names the time of a warning. *)
LinksInv == \A link \in links : link[2] # NoTime

(* The row of a session is left as it is. *)
RowKept(s) ==
  /\ state'[s] = state[s] /\ timeout'[s] = timeout[s] /\ notification'[s] = notification[s]
  /\ notified'[s] = notified[s] /\ lastInteraction'[s] = lastInteraction[s]
  /\ closed'[s] = closed[s] /\ hushed'[s] = hushed[s]

SessionsInv == \A s \in Sessions : RowInv(s) /\ Spaced(s)

(* The invariant is what each session and each link promises. *)
LEMMA IInvBySession == IInv <=> LinksInv /\ SessionsInv
  BY DEF IInv, NotifiedIsExpired, GraceIsKept, RescueWins, LifeInv, WarningInv, RowInv,
         MayBeWarned, Spaced, LinksInv, SessionsInv

(* A process finds no warning. *)
LEMMA IInvInit == Init => IInv
<1> SUFFICES ASSUME Init PROVE LinksInv /\ SessionsInv
  BY IInvBySession
<1>1. LinksInv
  BY DEF Init, LinksInv
<1>2. ASSUME NEW s \in Sessions PROVE RowInv(s) /\ Spaced(s)
  BY <1>2 DEF Init, RowInv, MayBeWarned, Spaced, Idle, NoTime
<1> QED BY <1>1, <1>2 DEF SessionsInv

(* A session whose row is left alone keeps its promise as time goes by. *)
LEMMA RowKeptInv ==
  ASSUME TypeOK, NEW s \in Sessions, RowInv(s), RowKept(s), now' \in Nat, now' >= now
  PROVE  RowInv(s)'
<1>1. notified[s] \in Int /\ hushed[s] \in Int /\ now \in Int
  BY DEF TypeOK, RowOK, MailsOK, Times, NoTime
<1>2. notified[s] <= now' /\ hushed[s] <= now'
  BY <1>1 DEF RowInv
<1> QED BY <1>2 DEF RowInv, RowKept

(* And it stays behind the clock. *)
LEMMA SpacedKept ==
  ASSUME TypeOK, NEW s \in Sessions, Spaced(s), RowKept(s), now' = now,
         MayBeWarned(s)' => MayBeWarned(s)
  PROVE  Spaced(s)'
  BY DEF Spaced, RowKept

(* When the sweep has done with a session, it does not warn that one next. *)
LEMMA DoneMayWarn ==
  ASSUME TypeOK, NEW s \in Sessions, Deciding(s), Done(s), NEW t \in Sessions, MayBeWarned(t)'
  PROVE  t # s /\ MayBeWarned(t)
<1>1. sweep.at = "loop" /\ sweep = [at |-> sweep.at, seen |-> sweep.seen, clock |-> sweep.clock]
  BY DEF Deciding, TypeOK, SweepOK
<1>2. ~(sweep' = Idle /\ waited' = 0)
  BY DEF MayBeWarned, Idle
<1>3. sweep' = [sweep EXCEPT !.seen = [sweep.seen EXCEPT ![s] = Unseen]]
  BY <1>2 DEF Done
<1>4. sweep'.at = "loop" /\ sweep'.seen = [sweep.seen EXCEPT ![s] = Unseen]
  BY <1>1, <1>3
<1>5. sweep'.seen[t].notification = "NONE"
  BY <1>4 DEF MayBeWarned
<1>6. t # s
  BY <1>4, <1>5 DEF TypeOK, SweepOK, Unseen
<1> QED BY <1>1, <1>4, <1>5, <1>6 DEF TypeOK, SweepOK, MayBeWarned

(* A step on one session outside the sweep keeps the promise of all, if it *)
(* keeps that of its own.                                                  *)
LEMMA OutsideStep ==
  ASSUME TypeOK, IInv, NEW s \in Sessions, Outside, UNCHANGED links,
         \A t \in Sessions \ {s} : RowKept(t),
         RowInv(s)', notified'[s] \in {notified[s], NoTime}, hushed'[s] \in {hushed[s], notified[s]}
  PROVE  IInv'
<1>1. LinksInv'
  BY IInvBySession DEF LinksInv
<1>2. ASSUME NEW t \in Sessions PROVE RowInv(t)' /\ Spaced(t)'
  <2>1. now \in Nat /\ now' = now
    BY DEF TypeOK, Outside
  <2>2. MayBeWarned(t)' => MayBeWarned(t)
    BY DEF MayBeWarned, Outside
  <2>3. RowInv(t) /\ Spaced(t)
    BY IInvBySession DEF SessionsInv
  <2>4. CASE t = s
    <3>1. MayBeWarned(s)' => notified[s] < now /\ hushed[s] < now
      BY <2>2, <2>3, <2>4 DEF Spaced
    <3> QED BY <2>1, <2>4, <3>1 DEF Spaced, NoTime
  <2>5. CASE t # s
    <3>1. RowKept(t)
      BY <2>5
    <3> QED BY <2>1, <2>2, <2>3, <3>1, RowKeptInv, SpacedKept
  <2> QED BY <2>4, <2>5
<1>3. SessionsInv'
  BY <1>2 DEF SessionsInv
<1> QED BY <1>1, <1>3, IInvBySession, PTL

(* The same of a step of the sweep, which has done with the session. *)
LEMMA SweepStep ==
  ASSUME TypeOK, IInv, NEW s \in Sessions, Deciding(s), Done(s), UNCHANGED now, LinksInv',
         \A t \in Sessions \ {s} : RowKept(t), RowInv(s)'
  PROVE  IInv'
<1>1. ASSUME NEW t \in Sessions PROVE RowInv(t)' /\ Spaced(t)'
  <2>1. now \in Nat /\ now' = now
    BY DEF TypeOK
  <2>2. RowInv(t) /\ Spaced(t)
    BY IInvBySession DEF SessionsInv
  <2>3. MayBeWarned(t)' => t # s /\ MayBeWarned(t)
    BY DoneMayWarn
  <2>4. CASE t = s
    BY <2>3, <2>4 DEF Spaced
  <2>5. CASE t # s
    <3>1. RowKept(t)
      BY <2>5
    <3> QED BY <2>1, <2>2, <2>3, <3>1, RowKeptInv, SpacedKept
  <2> QED BY <2>4, <2>5
<1>2. SessionsInv'
  BY <1>1 DEF SessionsInv
<1> QED BY <1>2, IInvBySession, PTL

(* A step that leaves every row alone. *)
LEMMA RowsKeptStep ==
  ASSUME TypeOK, IInv, LinksInv', now' \in Nat, now' >= now,
         \A t \in Sessions : RowKept(t) /\ Spaced(t)'
  PROVE  IInv'
<1>1. ASSUME NEW t \in Sessions PROVE RowInv(t)' /\ Spaced(t)'
  BY IInvBySession, RowKeptInv DEF SessionsInv
<1>2. SessionsInv'
  BY <1>1 DEF SessionsInv
<1> QED BY <1>2, IInvBySession, PTL

(* What an extension does to the row of its session: with a warning out, a *)
(* later deadline calls it off.                                            *)
LEMMA ExtendInv ==
  ASSUME TypeOK, NEW s \in Sessions, RowInv(s), NEW c \in Int, NEW i \in BOOLEAN,
         ExtendSession(s, c, i), i => c > now, UNCHANGED <<now, mails>>
  PROVE  RowInv(s)' /\ notified'[s] \in {notified[s], NoTime}
<1>1. /\ now \in Nat /\ timeout[s] \in Nat /\ notified[s] \in Int /\ lastInteraction[s] \in Int
      /\ hushed[s] \in Int
  BY DEF TypeOK, RowOK, MailsOK, Times, NoTime
<1>2. /\ state[s] = "ACTIVE" /\ state' = state /\ closed' = closed
      /\ timeout'[s] = Later(timeout[s], c)
      /\ lastInteraction'[s] = (IF i THEN now ELSE lastInteraction[s])
      /\ notification'[s] = (IF c > timeout[s] THEN "NONE" ELSE notification[s])
      /\ notified'[s] = (IF c > timeout[s] THEN NoTime ELSE notified[s])
      /\ now' = now /\ hushed'[s] = hushed[s]
  BY DEF ExtendSession, TypeOK, RowOK, mails
<1>3. closed[s].by = "none"
  BY <1>2 DEF RowInv
<1>4. CASE c > timeout[s]
  <2>1. notification'[s] = "NONE" /\ notified'[s] = NoTime /\ timeout'[s] = c
    BY <1>1, <1>2, <1>4 DEF Later
  <2>2. lastInteraction'[s] <= c
    BY <1>1, <1>2, <1>4 DEF RowInv
  <2> QED BY <1>1, <1>2, <1>3, <2>1, <2>2 DEF RowInv, NoTime
<1>5. CASE ~(c > timeout[s])
  <2>1. /\ notification'[s] = notification[s] /\ notified'[s] = notified[s]
        /\ timeout'[s] = timeout[s]
    BY <1>1, <1>2, <1>5 DEF Later
  <2>2. CASE ~i
    <3>1. lastInteraction'[s] = lastInteraction[s]
      BY <1>2, <2>2
    <3> QED BY <1>2, <1>3, <2>1, <3>1 DEF RowInv
  <2>3. CASE i
    <3>1. now < timeout[s] /\ lastInteraction'[s] = now
      BY <1>1, <1>2, <1>5, <2>3
    <3>2. notification[s] = "NONE"
      BY <1>1, <1>2, <3>1 DEF RowInv
    <3> QED BY <1>1, <1>2, <1>3, <2>1, <3>1, <3>2 DEF RowInv
  <2> QED BY <2>2, <2>3
<1> QED BY <1>4, <1>5

(* Every step keeps the promises, one action at a time. *)
LEMMA IInvStep == ASSUME TypeOK, TypeOK', IInv, Next PROVE IInv'
<1>0. LinksInv /\ \A s \in Sessions : RowInv(s) /\ Spaced(s)
  BY IInvBySession DEF SessionsInv
<1> USE ConstantsAssumption
<1>1. ASSUME NEW s \in Sessions, RequestSession(s) PROVE IInv'
  <2>1. Outside /\ UNCHANGED links /\ \A t \in Sessions \ {s} : RowKept(t)
    BY <1>1 DEF RequestSession, Clock, mails, RowKept, TypeOK, RowOK, MailsOK
  <2>2. /\ RowInv(s)' /\ notified'[s] \in {notified[s], NoTime}
        /\ hushed'[s] \in {hushed[s], notified[s]}
    BY <1>0, <1>1
       DEF RowInv, RequestSession, Clock, Outside, mails, Warnings, TypeOK, RowOK, MailsOK,
           Times, NoTime
  <2> QED BY <2>1, <2>2, OutsideStep
<1>2. ASSUME NEW s \in Sessions, ActivateSession(s) PROVE IInv'
  <2>1. Outside /\ UNCHANGED links /\ \A t \in Sessions \ {s} : RowKept(t)
    BY <1>2 DEF ActivateSession, Later, mails, RowKept, TypeOK, RowOK, MailsOK
  <2>2. /\ RowInv(s)' /\ notified'[s] \in {notified[s], NoTime}
        /\ hushed'[s] \in {hushed[s], notified[s]}
    BY <1>0, <1>2
       DEF RowInv, ActivateSession, Later, Outside, mails, Warnings, TypeOK, RowOK, MailsOK,
           Times, NoTime
  <2> QED BY <2>1, <2>2, OutsideStep
<1>3. ASSUME NEW s \in Sessions, SetSessionTimeout(s) PROVE IInv'
  <2>1. Outside /\ UNCHANGED links /\ \A t \in Sessions \ {s} : RowKept(t)
    BY <1>3 DEF SetSessionTimeout, CallOff, mails, RowKept, TypeOK, RowOK, MailsOK
  <2>2. /\ RowInv(s)' /\ notified'[s] \in {notified[s], NoTime}
        /\ hushed'[s] \in {hushed[s], notified[s]}
    BY <1>0, <1>3
       DEF RowInv, SetSessionTimeout, CallOff, Outside, mails, Warnings, TypeOK, RowOK, MailsOK,
           Times, NoTime
  <2> QED BY <2>1, <2>2, OutsideStep
<1>4. ASSUME NEW s \in Sessions, DismissNotification(s) PROVE IInv'
  <2>1. Outside /\ UNCHANGED links /\ \A t \in Sessions \ {s} : RowKept(t)
    BY <1>4 DEF DismissNotification, mails, RowKept, TypeOK, RowOK, MailsOK
  <2>2. /\ RowInv(s)' /\ notified'[s] \in {notified[s], NoTime}
        /\ hushed'[s] \in {hushed[s], notified[s]}
    BY <1>0, <1>4
       DEF RowInv, DismissNotification, Outside, mails, Warnings, TypeOK, RowOK, MailsOK, Times,
           NoTime
  <2> QED BY <2>1, <2>2, OutsideStep
<1>5. ASSUME NEW s \in Sessions, CloseSession(s) PROVE IInv'
  <2>1. Outside /\ UNCHANGED links /\ \A t \in Sessions \ {s} : RowKept(t)
    BY <1>5 DEF CloseSession, CloseRow, mails, RowKept, TypeOK, RowOK, MailsOK
  <2>2. /\ RowInv(s)' /\ notified'[s] \in {notified[s], NoTime}
        /\ hushed'[s] \in {hushed[s], notified[s]}
    BY <1>0, <1>5
       DEF RowInv, CloseSession, CloseRow, Outside, mails, Warnings, TypeOK, RowOK, MailsOK,
           Times, NoTime
  <2> QED BY <2>1, <2>2, OutsideStep
<1>6. ASSUME NEW s \in Sessions, Interact(s) PROVE IInv'
  <2>1. Outside /\ UNCHANGED mails
    BY <1>6 DEF Interact
  <2>2. PICK m \in Extensions : ExtendSession(s, now + m, TRUE)
    BY <1>6 DEF Interact
  <2>3. now + m \in Int /\ now + m > now
    BY DEF TypeOK
  <2>4. RowInv(s)' /\ notified'[s] \in {notified[s], NoTime}
    BY <1>0, <2>1, <2>2, <2>3, ExtendInv DEF Outside
  <2>5. \A t \in Sessions \ {s} : RowKept(t)
    BY <2>1, <2>2 DEF ExtendSession, RowKept, mails, TypeOK, RowOK
  <2> QED BY <2>1, <2>4, <2>5, OutsideStep DEF mails
<1>7. ASSUME NEW s \in Sessions, BusyExtend(s) PROVE IInv'
  <2> DEFINE c == Earlier(now + BusyExtension, UnattendedAnchor(s) + Cap)
  <2>1. Outside /\ UNCHANGED mails /\ ExtendSession(s, c, FALSE)
    BY <1>7 DEF BusyExtend
  <2>2. c \in Int
    BY DEF TypeOK, RowOK, Earlier, UnattendedAnchor, Times, NoTime
  <2> HIDE DEF c
  <2>3. RowInv(s)' /\ notified'[s] \in {notified[s], NoTime}
    BY <1>0, <2>1, <2>2, ExtendInv DEF Outside
  <2>4. \A t \in Sessions \ {s} : RowKept(t)
    BY <2>1 DEF ExtendSession, RowKept, mails, TypeOK, RowOK
  <2> QED BY <2>1, <2>3, <2>4, OutsideStep DEF mails
<1>8. ASSUME NEW s \in Sessions, NEW n, RedeemExtension(s, n) PROVE IInv'
  <2>1. Outside /\ UNCHANGED links /\ \A t \in Sessions \ {s} : RowKept(t)
    BY <1>8 DEF RedeemExtension, CallOff, Later, mails, RowKept, TypeOK, RowOK, MailsOK
  <2>2. /\ RowInv(s)' /\ notified'[s] \in {notified[s], NoTime}
        /\ hushed'[s] \in {hushed[s], notified[s]}
    BY <1>0, <1>8
       DEF RowInv, RedeemExtension, CallOff, Later, Outside, mails, Warnings, TypeOK, RowOK,
           MailsOK, Times, NoTime
  <2> QED BY <2>1, <2>2, OutsideStep
<1>9. ASSUME NEW s \in Sessions, NEW link \in links, RedeemTermination(s, link[2]) PROVE IInv'
  <2>1. Outside /\ UNCHANGED links /\ \A t \in Sessions \ {s} : RowKept(t)
    BY <1>9 DEF RedeemTermination, CloseRow, mails, RowKept, TypeOK, RowOK, MailsOK
  <2>2. /\ RowInv(s)' /\ notified'[s] \in {notified[s], NoTime}
        /\ hushed'[s] \in {hushed[s], notified[s]}
    <3>1. state[s] = "ACTIVE" /\ notified[s] = link[2] /\ notified[s] # NoTime
      BY <1>0, <1>9 DEF RedeemTermination, LinksInv
    <3>2. notification[s] # "NONE"
      BY <3>1 DEF TypeOK, RowOK
    <3>3. lastInteraction[s] < notified[s]
      BY <1>0, <3>1, <3>2 DEF RowInv
    <3> QED BY <1>0, <1>9, <3>1, <3>3
               DEF RowInv, RedeemTermination, CloseRow, Outside, mails, TypeOK, RowOK, MailsOK,
                   Times, NoTime
  <2> QED BY <2>1, <2>2, OutsideStep
<1>10. ASSUME NEW s \in Sessions, NotifyExpiry(s) PROVE IInv'
  <2>1. Deciding(s) /\ Done(s) /\ UNCHANGED now
    BY <1>10 DEF NotifyExpiry
  <2>2. LinksInv'
    BY <1>0, <1>10 DEF NotifyExpiry, mails, LinksInv
  <2>3. \A t \in Sessions \ {s} : RowKept(t)
    BY <1>10 DEF NotifyExpiry, RowKept, mails, TypeOK, RowOK
  <2>4. RowInv(s)'
    <3>1. CASE IsExpired(s) /\ notification[s] = "NONE"
      <4>1. MayBeWarned(s)
        BY <1>10 DEF NotifyExpiry, Deciding, MayBeWarned
      <4>2. hushed[s] < now
        BY <1>0, <4>1 DEF Spaced
      <4>3. timeout[s] < now /\ lastInteraction[s] < now /\ closed[s].by = "none"
        BY <1>0, <3>1 DEF RowInv, IsExpired, TypeOK, RowOK, Times, NoTime
      <4>4. notification'[s] = "NOTIFIED" /\ notified'[s] = now
        BY <1>10, <3>1 DEF NotifyExpiry, TypeOK, RowOK
      <4> QED BY <1>0, <1>10, <3>1, <4>2, <4>3, <4>4
           DEF RowInv, NotifyExpiry, IsExpired, mails, TypeOK, RowOK, MailsOK, Times, NoTime
    <3>2. CASE ~(IsExpired(s) /\ notification[s] = "NONE")
      BY <1>0, <1>10, <3>2 DEF RowInv, NotifyExpiry, mails
    <3> QED BY <3>1, <3>2
  <2> QED BY <2>1, <2>2, <2>3, <2>4, SweepStep
<1>11. ASSUME NEW s \in Sessions, CloseExpiredSession(s) PROVE IInv'
  <2>1. Deciding(s) /\ Done(s) /\ UNCHANGED now
    BY <1>11 DEF CloseExpiredSession
  <2>2. LinksInv'
    BY <1>0, <1>11 DEF CloseExpiredSession, mails, LinksInv
  <2>3. \A t \in Sessions \ {s} : RowKept(t)
    <3>1. CASE StillExpired(s)
      BY <1>11, <3>1 DEF CloseExpiredSession, CloseRow, RowKept, mails, TypeOK, RowOK
    <3>2. CASE ~StillExpired(s)
      BY <1>11, <3>2 DEF CloseExpiredSession, RowKept, row, mails
    <3> QED BY <3>1, <3>2
  <2>4. RowInv(s)'
    <3>1. CASE StillExpired(s)
      <4>1. state[s] = "ACTIVE" /\ notification[s] # "NONE" /\ notified[s] < now - Grace
        BY <1>11, <3>1 DEF CloseExpiredSession, StillExpired, IsExpired, IsWarned, Warnings
      <4>2. timeout[s] < notified[s] /\ lastInteraction[s] < notified[s] /\ notified[s] # NoTime
        BY <1>0, <4>1 DEF RowInv, TypeOK, RowOK
      <4>3. CloseRow(s, "sweep")
        BY <1>11, <3>1 DEF CloseExpiredSession
      <4>4. closed'[s] = [by |-> "sweep", at |-> now] /\ state'[s] = "CLOSED"
        BY <4>3 DEF CloseRow, TypeOK, RowOK
      <4>5. notified[s] + Grace < now
        BY <4>1 DEF TypeOK, RowOK, Times, NoTime
      <4> QED BY <1>0, <1>11, <4>2, <4>3, <4>4, <4>5
                 DEF RowInv, CloseExpiredSession, CloseRow, mails
    <3>2. CASE ~StillExpired(s)
      BY <1>0, <1>11, <3>2 DEF RowInv, CloseExpiredSession, row, mails
    <3> QED BY <3>1, <3>2
  <2> QED BY <2>1, <2>2, <2>3, <2>4, SweepStep
<1>12. ASSUME NEW s \in Sessions, RestartExpiryCycle(s) PROVE IInv'
  <2>1. Deciding(s) /\ Done(s) /\ UNCHANGED now
    BY <1>12 DEF RestartExpiryCycle
  <2>2. LinksInv'
    BY <1>0, <1>12 DEF RestartExpiryCycle, mails, LinksInv
  <2>3. \A t \in Sessions \ {s} : RowKept(t)
    <3>1. CASE state[s] = "ACTIVE" /\ notified[s] = sweep.seen[s].notified
      BY <1>12, <3>1 DEF RestartExpiryCycle, CallOff, RowKept, mails, TypeOK, RowOK
    <3>2. CASE ~(state[s] = "ACTIVE" /\ notified[s] = sweep.seen[s].notified)
      BY <1>12, <3>2 DEF RestartExpiryCycle, RowKept, mails
    <3> QED BY <3>1, <3>2
  <2>4. RowInv(s)'
    <3>1. CASE state[s] = "ACTIVE" /\ notified[s] = sweep.seen[s].notified
      <4>1. /\ notification'[s] = "NONE" /\ notified'[s] = NoTime
            /\ timeout'[s] = Later(timeout[s], now + Grace)
        BY <1>12, <3>1 DEF RestartExpiryCycle, CallOff, TypeOK, RowOK
      <4>2. timeout'[s] >= timeout[s]
        BY <4>1 DEF TypeOK, RowOK, Later
      <4>3. closed[s].by = "none" /\ lastInteraction[s] <= timeout'[s]
        <5>1. closed[s].by = "none" /\ lastInteraction[s] <= timeout[s]
          BY <1>0, <3>1 DEF RowInv
        <5>2. timeout[s] \in Int /\ timeout'[s] \in Int /\ lastInteraction[s] \in Int
          BY DEF TypeOK, RowOK, Times, NoTime
        <5> QED BY <4>2, <5>1, <5>2
      <4>4. /\ state'[s] = "ACTIVE" /\ closed'[s] = closed[s] /\ hushed'[s] = hushed[s]
            /\ lastInteraction'[s] = lastInteraction[s] /\ now' = now /\ now \in Nat
        BY <1>12, <3>1 DEF RestartExpiryCycle, mails, TypeOK
      <4>5. hushed'[s] <= now' /\ notified'[s] <= now'
        BY <1>0, <4>1, <4>4 DEF RowInv, NoTime
      <4>6. notification'[s] # "NOTIFIED" /\ closed'[s].by = "none"
        BY <4>1, <4>3, <4>4
      <4>7. notification'[s] = "NONE"
        BY <4>1
      <4>8. lastInteraction'[s] <= timeout'[s]
        BY <4>3, <4>4
      <4> QED BY <4>4, <4>5, <4>6, <4>7, <4>8 DEF RowInv
    <3>2. CASE ~(state[s] = "ACTIVE" /\ notified[s] = sweep.seen[s].notified)
      BY <1>0, <1>12, <3>2 DEF RowInv, RestartExpiryCycle, mails
    <3> QED BY <3>1, <3>2
  <2> QED BY <2>1, <2>2, <2>3, <2>4, SweepStep
<1>13. ASSUME NEW s \in Sessions, MarkEmailed(s) PROVE IInv'
  <2>1. Deciding(s) /\ Done(s) /\ UNCHANGED now
    BY <1>13 DEF MarkEmailed
  <2>2. LinksInv'
    <3>1. CASE StillUnmailed(s)
      <4>1. notified[s] # NoTime
        BY <3>1 DEF StillUnmailed, TypeOK, RowOK
      <4> QED BY <1>0, <1>13, <3>1, <4>1 DEF MarkEmailed, LinksInv
    <3>2. CASE ~StillUnmailed(s)
      BY <1>0, <1>13, <3>2 DEF MarkEmailed, mails, LinksInv
    <3> QED BY <3>1, <3>2
  <2>3. \A t \in Sessions \ {s} : RowKept(t)
    <3>1. CASE StillUnmailed(s)
      BY <1>13, <3>1 DEF MarkEmailed, RowKept, TypeOK, RowOK, MailsOK
    <3>2. CASE ~StillUnmailed(s)
      BY <1>13, <3>2 DEF MarkEmailed, RowKept, mails
    <3> QED BY <3>1, <3>2
  <2>4. RowInv(s)'
    <3>1. CASE StillUnmailed(s)
      BY <1>0, <1>13, <3>1
         DEF RowInv, MarkEmailed, StillUnmailed, TypeOK, RowOK, MailsOK, Times, NoTime
    <3>2. CASE ~StillUnmailed(s)
      BY <1>0, <1>13, <3>2 DEF RowInv, MarkEmailed, mails
    <3> QED BY <3>1, <3>2
  <2> QED BY <2>1, <2>2, <2>3, <2>4, SweepStep
<1>14. ASSUME NEW s \in Sessions, LeaveAlone(s) PROVE IInv'
  <2>1. Deciding(s) /\ Done(s) /\ UNCHANGED now
    BY <1>14 DEF LeaveAlone
  <2>2. LinksInv'
    BY <1>0, <1>14 DEF LeaveAlone, mails, LinksInv
  <2>3. \A t \in Sessions \ {s} : RowKept(t)
    BY <1>14 DEF LeaveAlone, RowKept, row, mails
  <2>4. RowInv(s)'
    BY <1>0, <1>14 DEF RowInv, LeaveAlone, row, mails
  <2> QED BY <2>1, <2>2, <2>3, <2>4, SweepStep
<1>15. ASSUME NEW s \in Sessions, ItemFails(s) PROVE IInv'
  <2>1. Deciding(s) /\ Done(s) /\ UNCHANGED now
    BY <1>15 DEF ItemFails
  <2>2. LinksInv'
    BY <1>0, <1>15 DEF ItemFails, mails, LinksInv
  <2>3. \A t \in Sessions \ {s} : RowKept(t)
    BY <1>15 DEF ItemFails, RowKept, row, mails
  <2>4. RowInv(s)'
    BY <1>0, <1>15 DEF RowInv, ItemFails, row, mails
  <2> QED BY <2>1, <2>2, <2>3, <2>4, SweepStep
<1>16. ASSUME SweepRead PROVE IInv'
  <2>1. now' \in Nat /\ now' >= now
    BY <1>16 DEF SweepRead, TypeOK
  <2>2. LinksInv'
    BY <1>0, <1>16 DEF SweepRead, LinksInv, mails
  <2>3. ASSUME NEW t \in Sessions PROVE RowKept(t) /\ Spaced(t)'
    <3>1. RowKept(t)
      BY <1>16 DEF SweepRead, RowKept, row, mails
    <3>2. Spaced(t) /\ RowInv(t)
      BY <1>0
    <3>3. MayBeWarned(t)
      BY <1>16 DEF SweepRead, MayBeWarned
    <3> QED BY <1>16, <3>1, <3>2, <3>3 DEF Spaced, SweepRead, RowKept
  <2> QED BY <2>1, <2>2, <2>3, RowsKeptStep
<1>17. ASSUME SweepClock PROVE IInv'
  <2>1. now' \in Nat /\ now' >= now
    BY <1>17 DEF SweepClock, TypeOK
  <2>2. LinksInv'
    BY <1>0, <1>17 DEF SweepClock, LinksInv, mails
  <2>3. ASSUME NEW t \in Sessions PROVE RowKept(t) /\ Spaced(t)'
    <3>1. RowKept(t)
      BY <1>17 DEF SweepClock, RowKept, row, mails
    <3>2. Spaced(t) /\ RowInv(t)
      BY <1>0
    <3>3. sweep'.seen = sweep.seen /\ sweep'.at = "loop" /\ sweep.at = "read"
      BY <1>17 DEF SweepClock, TypeOK, SweepOK
    <3>4. MayBeWarned(t)' => MayBeWarned(t)
      BY <3>3 DEF MayBeWarned
    <3> QED BY <1>17, <3>1, <3>2, <3>4, SpacedKept DEF SweepClock
  <2> QED BY <2>1, <2>2, <2>3, RowsKeptStep
<1>18. ASSUME SweepFails PROVE IInv'
  <2>1. now' \in Nat /\ now' >= now
    BY <1>18 DEF SweepFails, TypeOK
  <2>2. LinksInv'
    BY <1>0, <1>18 DEF SweepFails, LinksInv, mails
  <2>3. ASSUME NEW t \in Sessions PROVE RowKept(t) /\ Spaced(t)'
    <3>1. RowKept(t)
      BY <1>18 DEF SweepFails, RowKept, row, mails
    <3>2. Spaced(t) /\ RowInv(t)
      BY <1>0
    <3>3. ~MayBeWarned(t)'
      BY <1>18 DEF SweepFails, MayBeWarned, Idle
    <3> QED BY <3>1, <3>3 DEF Spaced
  <2> QED BY <2>1, <2>2, <2>3, RowsKeptStep
<1>19. ASSUME Restart PROVE IInv'
  <2>1. now' \in Nat /\ now' >= now
    BY <1>19 DEF Restart, TypeOK
  <2>2. LinksInv'
    BY <1>0, <1>19 DEF Restart, LinksInv, mails
  <2>3. ASSUME NEW t \in Sessions PROVE RowKept(t) /\ Spaced(t)'
    <3>1. RowKept(t)
      BY <1>19 DEF Restart, RowKept, row, mails
    <3>2. Spaced(t) /\ RowInv(t)
      BY <1>0
    <3>3. ~MayBeWarned(t)'
      BY <1>19 DEF Restart, MayBeWarned, Idle
    <3> QED BY <3>1, <3>3 DEF Spaced
  <2> QED BY <2>1, <2>2, <2>3, RowsKeptStep
<1>20. ASSUME Tick PROVE IInv'
  <2>1. now' \in Nat /\ now' >= now
    BY <1>20 DEF Tick, TypeOK
  <2>2. LinksInv'
    BY <1>0, <1>20 DEF Tick, LinksInv
  <2>3. ASSUME NEW t \in Sessions PROVE RowKept(t) /\ Spaced(t)'
    <3>1. RowKept(t)
      BY <1>20 DEF Tick, RowKept, row
    <3>2. Spaced(t) /\ RowInv(t)
      BY <1>0
    <3>3. notified[t] < now' /\ hushed[t] < now'
      BY <1>20, <3>2 DEF RowInv, Tick, TypeOK, RowOK, MailsOK, Times, NoTime
    <3> QED BY <3>1, <3>3 DEF Spaced, RowKept
  <2> QED BY <2>1, <2>2, <2>3, RowsKeptStep
<1>21. ASSUME UNCHANGED vars PROVE IInv'
  BY <1>21
     DEF IInv, NotifiedIsExpired, GraceIsKept, RescueWins, LifeInv, WarningInv, vars, row, mails
<1> QED BY <1>1, <1>2, <1>3, <1>4, <1>5, <1>6, <1>7, <1>8, <1>9, <1>10, <1>11, <1>12, <1>13,
   <1>14, <1>15, <1>16, <1>17, <1>18, <1>19, <1>20, <1>21 DEF Next, UserStep, SweepItem,
   TimeIsUp

(* The invariant holds of every state. *)
THEOREM IInvCorrect == Spec => []IInv
<1>1. IInv /\ UNCHANGED vars => IInv'
  BY DEF IInv, NotifiedIsExpired, GraceIsKept, RescueWins, LifeInv, WarningInv, vars, row, mails
<1> QED BY TypeCorrect, IInvInit, IInvStep, <1>1, PTL DEF Spec

(* A session that is being warned is past its deadline and unused since    *)
(* (extendSession, notifyExpiry).                                          *)
THEOREM NotifiedIsExpiredCorrect == Spec => []NotifiedIsExpired
<1>1. IInv => NotifiedIsExpired
  BY DEF IInv
<1> QED BY <1>1, IInvCorrect, PTL

(* The sweep closes only after a whole grace (closeExpiredSession). *)
THEOREM GraceIsKeptCorrect == Spec => []GraceIsKept
<1>1. IInv => GraceIsKept
  BY DEF IInv
<1> QED BY <1>1, IInvCorrect, PTL

(* Nothing closes a session that was used after its warning                *)
(* (closeExpiredSession, redeemTermination).                               *)
THEOREM RescueWinsCorrect == Spec => []RescueWins
<1>1. IInv => RescueWins
  BY DEF IInv
<1> QED BY <1>1, IInvCorrect, PTL

(* Only markEmailed records a mail, and only of a warning that was neither *)
(* mailed nor dismissed.                                                   *)
LEMMA MailStep ==
  ASSUME TypeOK, IInv, Next, NEW s \in Sessions,
         notification'[s] = "EMAILED", notification[s] # "EMAILED"
  PROVE  notified[s] # hushed[s]
<1>1. ASSUME NEW t \in Sessions, MarkEmailed(t) PROVE notified[s] # hushed[s]
  <2>1. t = s /\ StillUnmailed(s)
    BY <1>1 DEF MarkEmailed, TypeOK, RowOK
  <2> QED BY <2>1 DEF StillUnmailed, IInv, WarningInv
<1>2. ASSUME NEW t \in Sessions,
             \/ RequestSession(t) \/ ActivateSession(t) \/ CloseSession(t)
             \/ LeaveAlone(t) \/ ItemFails(t) \/ \E n : RedeemTermination(t, n)
      PROVE  FALSE
  BY <1>2 DEF RequestSession, ActivateSession, CloseSession, CloseRow, LeaveAlone, ItemFails,
              RedeemTermination, row
<1>3. ASSUME NEW t \in Sessions, \/ SetSessionTimeout(t) \/ DismissNotification(t)
                                 \/ \E n : RedeemExtension(t, n)
      PROVE  FALSE
  BY <1>3 DEF SetSessionTimeout, DismissNotification, RedeemExtension, CallOff, TypeOK, RowOK
<1>4. ASSUME NEW t \in Sessions, NEW c, NEW i, ExtendSession(t, c, i) PROVE FALSE
  BY <1>4 DEF ExtendSession, TypeOK, RowOK
<1>5. ASSUME NEW t \in Sessions, Interact(t) \/ BusyExtend(t) PROVE FALSE
  BY <1>4, <1>5 DEF Interact, BusyExtend
<1>6. ASSUME NEW t \in Sessions, NotifyExpiry(t) PROVE FALSE
  BY <1>6 DEF NotifyExpiry, TypeOK, RowOK
<1>7. ASSUME NEW t \in Sessions, CloseExpiredSession(t) PROVE FALSE
  BY <1>7 DEF CloseExpiredSession, CloseRow, row
<1>8. ASSUME NEW t \in Sessions, RestartExpiryCycle(t) PROVE FALSE
  BY <1>8 DEF RestartExpiryCycle, CallOff, TypeOK, RowOK
<1>9. ASSUME \/ SweepRead \/ SweepClock \/ SweepFails \/ Restart \/ Tick \/ UNCHANGED vars PROVE FALSE
  BY <1>9 DEF SweepRead, SweepClock, SweepFails, Restart, Tick, vars, row
<1> QED BY <1>1, <1>2, <1>3, <1>5, <1>6, <1>7, <1>8, <1>9
           DEF Next, UserStep, SweepItem, TimeIsUp

(* A warning is mailed once, and never after it was dismissed (markEmailed). *)
THEOREM MailedOnceCorrect == Spec => MailedOnce
<1>1. TypeOK /\ IInv /\ [Next]_vars =>
        [\A s \in Sessions : notification'[s] = "EMAILED" /\ notification[s] # "EMAILED" =>
           notified[s] # hushed[s]]_vars
  BY MailStep DEF vars
<1> QED BY <1>1, TypeCorrect, IInvCorrect, PTL DEF Spec, MailedOnce

=============================================================================
