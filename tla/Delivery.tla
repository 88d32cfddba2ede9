------------------------------- MODULE Delivery -------------------------------
(***************************************************************************)
(* What the message queue promises of the messages one service publishes   *)
(* and another subscribes to (src/lib/js/shared/src/messageQueue.js): each *)
(* is handed to the handler, more than once if need be, until the handler  *)
(* has dealt with it, unless the publisher dies before the broker has it,  *)
(* or the handler goes on failing with a message that has come back.       *)
(* TopicQueue implements this specification.                               *)
(***************************************************************************)
CONSTANT Messages

VARIABLES
  published,  \* messages the publisher has been given
  held,       \* of those, the ones it keeps to send, perhaps again
  waiting,    \* messages with the broker or the handler
  returned,   \* of those, the ones that have been with the handler in vain
  served,     \* messages the handler has dealt with
  dropped,    \* messages given up on
  lost        \* messages the publisher took with it when it died

delivery == <<published, held, waiting, returned, served, dropped, lost>>

Nothing ==
  /\ published = {} /\ held = {} /\ waiting = {} /\ returned = {}
  /\ served = {} /\ dropped = {} /\ lost = {}

(* Messages of which the broker has, or had, a copy.                       *)
Received == waiting \union served \union dropped

Publish(m) ==
  /\ m \notin published
  /\ published' = published \union {m} /\ held' = held \union {m}
  /\ UNCHANGED <<waiting, returned, served, dropped, lost>>

(* Also a second time, when the first confirmation did not arrive.         *)
Receive(m) ==
  /\ m \in held /\ waiting' = waiting \union {m}
  /\ UNCHANGED <<published, held, returned, served, dropped, lost>>

Confirm(m) ==
  /\ m \in held \intersect Received /\ held' = held \ {m}
  /\ UNCHANGED <<published, waiting, returned, served, dropped, lost>>

(* The handler may have begun before the message was given up on.          *)
Serve(m) ==
  /\ m \in waiting \union dropped /\ served' = served \union {m}
  /\ UNCHANGED <<published, held, waiting, returned, dropped, lost>>

Settle(m) ==
  /\ m \in waiting \intersect served /\ waiting' = waiting \ {m}
  /\ UNCHANGED <<published, held, returned, served, dropped, lost>>

(* The handler failed with one, or the connection with several at hand.    *)
Return(ms) ==
  /\ ms \subseteq waiting /\ returned' = returned \union ms
  /\ UNCHANGED <<published, held, waiting, served, dropped, lost>>

Drop(m) ==
  /\ m \in waiting \intersect returned
  /\ waiting' \in {waiting, waiting \ {m}} /\ dropped' = dropped \union {m}
  /\ UNCHANGED <<published, held, returned, served, lost>>

LosePublisher ==
  /\ lost' = lost \union (held \ Received) /\ held' = {}
  /\ UNCHANGED <<published, waiting, returned, served, dropped>>

Next ==
  \/ \E m \in Messages : Publish(m) \/ Receive(m) \/ Confirm(m) \/ Serve(m) \/ Settle(m) \/ Drop(m)
  \/ \E ms \in SUBSET Messages : Return(ms)
  \/ LosePublisher

Spec == Nothing /\ [][Next]_delivery

(* Whatever connections and processes do, a message that was published is  *)
(* somewhere, or it is known how it ended.                                 *)
Accounted == published \subseteq held \union Received \union lost
===============================================================================
