------------------------------ MODULE TopicQueue ------------------------------
(***************************************************************************)
(* src/lib/js/shared/src/messageQueue.js: one service's TopicPublisher,    *)
(* the broker's durable queue for one subscriber, and that subscriber's    *)
(* TopicSubscriber in another service.  Each service has a connection of   *)
(* its own, which is cut and made again.  RabbitMQ is external and does    *)
(* what AMQP says: it confirms what it has stored, keeps a message until   *)
(* it is settled, and hands it out again, marked as redelivered, when the  *)
(* channel it was delivered on closes first.                               *)
(***************************************************************************)
EXTENDS Integers, FiniteSets

CONSTANTS
  Messages,
  MaxCopies,    \* copies the broker may get of one message
  MaxCuts,      \* connections that are lost, of either side
  MaxFailures,  \* handlers that fail and messages the broker refuses
  MaxCrashes,   \* deaths of either process
  Failing       \* which of "handler" and "broker" may fail

ASSUME QueueAssumption ==
  /\ MaxCopies \in Nat \ {0} /\ MaxCuts \in Nat /\ MaxFailures \in Nat /\ MaxCrashes \in Nat

VARIABLES
  published,    \* messages the publisher has been given
  pending,      \* #pending
  channel,      \* whether the publisher has a #channel that works
  wire,         \* messages sent on it that the broker has not taken yet
  unconfirmed,  \* messages the broker has, whose confirmation is on its way
  place,        \* where each copy is: with the broker, the handler, or answered
  again,        \* copies marked as redelivered
  orphans,      \* copies whose handler runs on after its channel closed
  consuming,    \* whether the subscriber consumes
  served,       \* messages a handler has dealt with
  dropped,      \* messages given up on
  refused,      \* history: those the broker refused on this channel
  lost,         \* messages that died with the publisher
  handled,      \* how often each message has been dealt with
  failed,       \* how often its handler has failed
  cuts, failures, crashes

publisher == <<published, pending, channel, wire, unconfirmed, refused, lost>>
broker == <<place, again>>
subscriber == <<orphans, consuming, served, dropped, handled, failed>>
faults == <<cuts, failures, crashes>>
vars == <<publisher, broker, subscriber, faults>>

Copies == Messages \X (1 .. MaxCopies)

(* A copy that was delivered and is not settled; "ack", "requeue" and      *)
(* "drop" are the handler's answers on their way to the broker.            *)
Delivered == {"handler", "ack", "requeue", "drop"}

CopiesOf(m) == {c \in Copies : c[1] = m}
Live(c) == place[c] \in {"queue"} \union Delivered
Stored(m) == \E c \in CopiesOf(m) : place[c] # "none"
Waiting == {m \in Messages : \E c \in CopiesOf(m) : Live(c)}
Returned == {m \in Messages : \E c \in CopiesOf(m) : c \in again}

SendingOK ==
  /\ pending \subseteq published /\ published \subseteq Messages /\ lost \subseteq Messages
  /\ wire \union unconfirmed \union refused \subseteq pending /\ wire \intersect unconfirmed = {}
  /\ wire \intersect refused = {} /\ unconfirmed \intersect refused = {}
  /\ ~channel => wire \union unconfirmed \union refused = {}

CopiesOK ==
  /\ place \in [Copies -> {"none", "queue", "gone"} \union Delivered]
  /\ again \subseteq Copies /\ orphans \subseteq Copies

HandlingOK ==
  /\ served \subseteq Messages /\ dropped \subseteq Messages
  /\ handled \in [Messages -> Nat] /\ failed \in [Messages -> Nat]

ConnectionsOK == channel \in BOOLEAN /\ consuming \in BOOLEAN

FaultsOK == cuts \in Nat /\ failures \in Nat /\ crashes \in Nat

TypeOK == SendingOK /\ CopiesOK /\ HandlingOK /\ ConnectionsOK /\ FaultsOK

Init ==
  /\ published = {} /\ pending = {} /\ channel = FALSE /\ wire = {} /\ unconfirmed = {}
  /\ refused = {} /\ lost = {}
  /\ place = [c \in Copies |-> "none"] /\ again = {} /\ orphans = {} /\ consuming = FALSE
  /\ served = {} /\ dropped = {}
  /\ handled = [m \in Messages |-> 0] /\ failed = [m \in Messages |-> 0]
  /\ cuts = 0 /\ failures = 0 /\ crashes = 0

MayFail(what) == what \in Failing /\ failures < MaxFailures /\ failures' = failures + 1

-----------------------------------------------------------------------------
(* TopicPublisher                                                          *)

(* Mutant of Publish: a message that was sent is not kept. *)
PublishUnkept(m) ==
  /\ m \notin published
  /\ published' = published \union {m}
  /\ IF channel THEN wire' = wire \union {m} /\ UNCHANGED pending
     ELSE pending' = pending \union {m} /\ UNCHANGED wire
  /\ UNCHANGED <<channel, unconfirmed, refused, lost, broker, subscriber, faults>>

(* #enqueue and #send.  Without a channel, or with one that has closed,    *)
(* the message is kept for the next connection.                            *)
Publish(m) ==
  /\ m \notin published
  /\ published' = published \union {m} /\ pending' = pending \union {m}
  /\ wire' = IF channel THEN wire \union {m} ELSE wire
  /\ UNCHANGED <<channel, unconfirmed, refused, lost, broker, subscriber, faults>>

(* Mutant of PublisherUp: only what is published from now on is sent. *)
PublisherUpAnew ==
  /\ ~channel /\ channel' = TRUE
  /\ UNCHANGED <<published, pending, wire, unconfirmed, refused, lost, broker, subscriber, faults>>

(* up, for a connection that was made: what is pending is sent again.      *)
PublisherUp ==
  /\ ~channel /\ channel' = TRUE /\ wire' = pending
  /\ UNCHANGED <<published, pending, unconfirmed, refused, lost, broker, subscriber, faults>>

Confirmed(m) ==
  /\ m \in unconfirmed
  /\ unconfirmed' = unconfirmed \ {m} /\ pending' = pending \ {m}
  /\ UNCHANGED <<published, channel, wire, refused, lost, broker, subscriber, faults>>

(* The connection closes, or the broker closes the channel and the         *)
(* publisher the connection: what was on its way either way is not.        *)
PublisherCut ==
  /\ channel /\ cuts < MaxCuts /\ cuts' = cuts + 1
  /\ channel' = FALSE /\ wire' = {} /\ unconfirmed' = {} /\ refused' = {}
  /\ UNCHANGED <<published, pending, lost, broker, subscriber, failures, crashes>>

PublisherCrash ==
  /\ crashes < MaxCrashes /\ crashes' = crashes + 1
  /\ lost' = lost \union {m \in pending : ~Stored(m)}
  /\ pending' = {} /\ channel' = FALSE /\ wire' = {} /\ unconfirmed' = {} /\ refused' = {}
  /\ UNCHANGED <<published, broker, subscriber, cuts, failures>>

-----------------------------------------------------------------------------
(* RabbitMQ                                                                *)

BrokerTakes(m) ==
  /\ m \in wire /\ wire' = wire \ {m} /\ unconfirmed' = unconfirmed \union {m}
  /\ \E c \in CopiesOf(m) :
       /\ place[c] = "none" /\ \A d \in CopiesOf(m) : place[d] = "none" => c[2] <= d[2]
       /\ place' = [place EXCEPT ![c] = "queue"]
  /\ UNCHANGED <<published, pending, channel, refused, lost, again, subscriber, faults>>

(* Mutant of BrokerRefuses: the callback does not look at the error. *)
BrokerRefusesUnnoticed(m) ==
  /\ m \in wire /\ MayFail("broker")
  /\ wire' = wire \ {m} /\ pending' = pending \ {m}
  /\ UNCHANGED <<published, channel, unconfirmed, refused, lost, broker, subscriber, cuts, crashes>>

(* The confirmation is an error: the message stays pending, and is sent    *)
(* again on the next connection only.                                      *)
BrokerRefuses(m) ==
  /\ m \in wire /\ MayFail("broker")
  /\ wire' = wire \ {m} /\ refused' = refused \union {m}
  /\ UNCHANGED <<published, pending, channel, unconfirmed, lost, broker, subscriber, cuts, crashes>>

Deliver(c) ==
  /\ consuming /\ place[c] = "queue" /\ place' = [place EXCEPT ![c] = "handler"]
  /\ UNCHANGED <<publisher, again, subscriber, faults>>

(* The handler's answer arrives. *)
BrokerSettles(c) ==
  /\ place[c] \in {"ack", "requeue", "drop"}
  /\ place' = [place EXCEPT ![c] = IF @ = "requeue" THEN "queue" ELSE "gone"]
  /\ again' = IF place[c] = "requeue" THEN again \union {c} ELSE again
  /\ dropped' = IF place[c] = "drop" THEN dropped \union {c[1]} ELSE dropped
  /\ UNCHANGED <<publisher, orphans, consuming, served, handled, failed, faults>>

-----------------------------------------------------------------------------
(* TopicSubscriber                                                         *)

SubscriberUp ==
  /\ ~consuming /\ consuming' = TRUE
  /\ UNCHANGED <<publisher, broker, orphans, served, dropped, handled, failed, faults>>

Succeed(m) ==
  /\ served' = served \union {m} /\ handled' = [handled EXCEPT ![m] = @ + 1]

(* Mutant of HandlerSucceeds: the message is not acknowledged. *)
HandlerSucceedsUnacknowledged(c) ==
  /\ place[c] = "handler" /\ place' = [place EXCEPT ![c] = "requeue"]
  /\ Succeed(c[1])
  /\ UNCHANGED <<publisher, again, orphans, consuming, dropped, failed, faults>>

HandlerSucceeds(c) ==
  /\ place[c] = "handler" /\ place' = [place EXCEPT ![c] = "ack"]
  /\ Succeed(c[1])
  /\ UNCHANGED <<publisher, again, orphans, consuming, dropped, failed, faults>>

(* Mutant of HandlerFails: given up on at once. *)
HandlerFailsForGood(c) ==
  /\ place[c] = "handler" /\ MayFail("handler")
  /\ place' = [place EXCEPT ![c] = "drop"]
  /\ failed' = [failed EXCEPT ![c[1]] = @ + 1]
  /\ UNCHANGED <<publisher, again, orphans, consuming, served, dropped, handled, cuts, crashes>>

(* It is put back after a delay, unless it had been delivered before.      *)
HandlerFails(c) ==
  /\ place[c] = "handler" /\ MayFail("handler")
  /\ place' = [place EXCEPT ![c] = IF c \in again THEN "drop" ELSE "requeue"]
  /\ failed' = [failed EXCEPT ![c[1]] = @ + 1]
  /\ UNCHANGED <<publisher, again, orphans, consuming, served, dropped, handled, cuts, crashes>>

(* Handlers go on after their channel has closed; their answer is refused  *)
(* by the closed channel and the message left to redelivery.               *)
OrphanEnds(c) ==
  /\ c \in orphans /\ orphans' = orphans \ {c}
  /\ \/ Succeed(c[1]) /\ UNCHANGED <<failed, failures>>
     \/ /\ MayFail("handler") /\ failed' = [failed EXCEPT ![c[1]] = @ + 1]
        /\ UNCHANGED <<served, handled>>
  /\ UNCHANGED <<publisher, broker, consuming, dropped, cuts, crashes>>

(* What was delivered and is not settled goes back to the queue.           *)
TakeBack ==
  /\ consuming' = FALSE
  /\ place' = [c \in Copies |-> IF place[c] \in Delivered THEN "queue" ELSE place[c]]
  /\ again' = again \union {c \in Copies : place[c] \in Delivered}

SubscriberCut ==
  /\ consuming /\ cuts < MaxCuts /\ cuts' = cuts + 1
  /\ TakeBack
  /\ orphans' = orphans \union {c \in Copies : place[c] = "handler"}
  /\ UNCHANGED <<publisher, served, dropped, handled, failed, failures, crashes>>

SubscriberCrash ==
  /\ crashes < MaxCrashes /\ crashes' = crashes + 1
  /\ TakeBack
  /\ orphans' = {}
  /\ UNCHANGED <<publisher, served, dropped, handled, failed, cuts, failures>>

-----------------------------------------------------------------------------

HandlerEnds(c) == HandlerSucceeds(c) \/ HandlerFails(c)

Next ==
  \/ PublisherUp \/ PublisherCut \/ PublisherCrash
  \/ SubscriberUp \/ SubscriberCut \/ SubscriberCrash
  \/ \E m \in Messages : Publish(m) \/ Confirmed(m) \/ BrokerTakes(m) \/ BrokerRefuses(m)
  \/ \E c \in Copies : Deliver(c) \/ BrokerSettles(c) \/ HandlerEnds(c) \/ OrphanEnds(c)

Spec == Init /\ [][Next]_vars

(* Both services reconnect, the broker does its work, handlers end.        *)
Fairness ==
  /\ WF_vars(PublisherUp) /\ WF_vars(SubscriberUp)
  /\ \A m \in Messages : WF_vars(BrokerTakes(m))
  /\ \A c \in Copies : WF_vars(Deliver(c)) /\ WF_vars(BrokerSettles(c)) /\ WF_vars(HandlerEnds(c))

FairSpec == Spec /\ Fairness

-----------------------------------------------------------------------------
(* Properties.                                                             *)

(* What Delivery promises, with the copies of a message taken together.    *)
Promised == INSTANCE Delivery WITH held <- pending, waiting <- Waiting, returned <- Returned

(* Reconnects, confirmations that do not arrive, deliveries that fail or   *)
(* are handed out again and restarts of either side add up to Delivery.    *)
DeliveryKept == Promised!Spec

(* No message disappears: what was published is kept by the publisher, is  *)
(* or was with the broker, or died with the publisher's process.           *)
NoneUnaccounted == Promised!Accounted

(* A message is dealt with more than once only if a connection or a        *)
(* process was lost: a failure and its retry alone do not repeat it        *)
(* (#handleMessage settles each delivery once).                            *)
RepeatedByCutsOnly == cuts + crashes = 0 => \A m \in Messages : handled[m] <= 1

(* Published on a broken connection or a good one, a message is dealt      *)
(* with, given up on after a retry, or died with its publisher; one the    *)
(* broker refused waits for the next connection.                           *)
PublishedIsServed ==
  \A m \in Messages : m \in published ~> m \in served \union dropped \union lost \union refused

(* What a copy's place says of its message, and what the publisher has     *)
(* heard: the mapping to Delivery rests on it.                             *)
AnswersHold ==
  \A c \in Copies :
    /\ place[c] # "none" => c[1] \in published
    /\ place[c] = "ack" => c[1] \in served
    /\ place[c] = "drop" => c \in again
    /\ place[c] = "gone" => c[1] \in served \union dropped
    /\ c \in again \union orphans => place[c] # "none"

OnlyStored == \A m \in served \union dropped \union unconfirmed : Stored(m)

(* As long as nothing was lost, a message is sent once, and dealt with at  *)
(* most once from its only copy.                                           *)
SentOnce ==
  cuts + crashes = 0 =>
    /\ orphans = {}
    /\ ~channel => wire = {} /\ \A m \in Messages : ~Stored(m)
    /\ \A m \in wire : ~Stored(m)
    /\ \A c, d \in Copies : c[1] = d[1] /\ place[c] # "none" /\ place[d] # "none" => c = d
    /\ \A c \in Copies : place[c] \in {"queue", "handler", "requeue"} => handled[c[1]] = 0
    /\ \A m \in Messages : handled[m] <= 1 /\ (~Stored(m) => handled[m] = 0)

IInv == AnswersHold /\ OnlyStored /\ SentOnce

(* "a redelivered message already failed before, so drop it"               *)
(* (messageQueue.js): what is dropped has failed twice.                    *)
DroppedFailedTwice == \A m \in dropped : failed[m] >= 2
===============================================================================
