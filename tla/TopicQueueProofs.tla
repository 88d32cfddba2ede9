--------------------------- MODULE TopicQueueProofs ---------------------------
(***************************************************************************)
(* TopicQueue implements Delivery, for any messages, copies, cuts, failures *)
(* and deaths of either process.  IInv says what a copy's place and the    *)
(* publisher's set stand for; each part has a lemma with a step for each   *)
(* action, and DeliveryStep maps every action to one of Delivery or to     *)
(* none.                                                                   *)
(***************************************************************************)
EXTENDS TopicQueue, TLAPS

-----------------------------------------------------------------------------
(* The invariant.                                                          *)

(* What is sent or awaits its confirmation is kept, and nothing of it is   *)
(* left when the channel closes.                                           *)
LEMMA TypeStep ==
  ASSUME TypeOK, [Next]_vars
  PROVE  TypeOK'
<1> USE DEF TypeOK, publisher, broker, subscriber, faults, MayFail
<1>1. CASE PublisherUp
  <2>1. SendingOK'
    BY <1>1 DEF PublisherUp, SendingOK
  <2>2. CopiesOK'
    BY <1>1 DEF PublisherUp, CopiesOK
  <2>3. HandlingOK'
    BY <1>1 DEF PublisherUp, HandlingOK
  <2>4. ConnectionsOK'
    BY <1>1 DEF PublisherUp, ConnectionsOK
  <2>5. FaultsOK'
    BY <1>1 DEF PublisherUp, FaultsOK
  <2> QED
    BY <2>1, <2>2, <2>3, <2>4, <2>5
<1>2. CASE PublisherCut
  <2>1. SendingOK'
    BY <1>2 DEF PublisherCut, SendingOK
  <2>2. CopiesOK'
    BY <1>2 DEF PublisherCut, CopiesOK
  <2>3. HandlingOK'
    BY <1>2 DEF PublisherCut, HandlingOK
  <2>4. ConnectionsOK'
    BY <1>2 DEF PublisherCut, ConnectionsOK
  <2>5. FaultsOK'
    BY <1>2 DEF PublisherCut, FaultsOK
  <2> QED
    BY <2>1, <2>2, <2>3, <2>4, <2>5
<1>3. CASE PublisherCrash
  <2>1. SendingOK'
    BY <1>3 DEF PublisherCrash, SendingOK
  <2>2. CopiesOK'
    BY <1>3 DEF PublisherCrash, CopiesOK
  <2>3. HandlingOK'
    BY <1>3 DEF PublisherCrash, HandlingOK
  <2>4. ConnectionsOK'
    BY <1>3 DEF PublisherCrash, ConnectionsOK
  <2>5. FaultsOK'
    BY <1>3 DEF PublisherCrash, FaultsOK
  <2> QED
    BY <2>1, <2>2, <2>3, <2>4, <2>5
<1>4. CASE SubscriberUp
  <2>1. SendingOK'
    BY <1>4 DEF SubscriberUp, SendingOK
  <2>2. CopiesOK'
    BY <1>4 DEF SubscriberUp, CopiesOK
  <2>3. HandlingOK'
    BY <1>4 DEF SubscriberUp, HandlingOK
  <2>4. ConnectionsOK'
    BY <1>4 DEF SubscriberUp, ConnectionsOK
  <2>5. FaultsOK'
    BY <1>4 DEF SubscriberUp, FaultsOK
  <2> QED
    BY <2>1, <2>2, <2>3, <2>4, <2>5
<1>5. CASE SubscriberCut
  <2>1. SendingOK'
    BY <1>5 DEF SubscriberCut, SendingOK, TakeBack, Delivered
  <2>2. CopiesOK'
    BY <1>5 DEF SubscriberCut, CopiesOK, TakeBack, Delivered
  <2>3. HandlingOK'
    BY <1>5 DEF SubscriberCut, HandlingOK, TakeBack, Delivered
  <2>4. ConnectionsOK'
    BY <1>5 DEF SubscriberCut, ConnectionsOK, TakeBack, Delivered
  <2>5. FaultsOK'
    BY <1>5 DEF SubscriberCut, FaultsOK, TakeBack, Delivered
  <2> QED
    BY <2>1, <2>2, <2>3, <2>4, <2>5
<1>6. CASE SubscriberCrash
  <2>1. SendingOK'
    BY <1>6 DEF SubscriberCrash, SendingOK, TakeBack, Delivered
  <2>2. CopiesOK'
    BY <1>6 DEF SubscriberCrash, CopiesOK, TakeBack, Delivered
  <2>3. HandlingOK'
    BY <1>6 DEF SubscriberCrash, HandlingOK, TakeBack, Delivered
  <2>4. ConnectionsOK'
    BY <1>6 DEF SubscriberCrash, ConnectionsOK, TakeBack, Delivered
  <2>5. FaultsOK'
    BY <1>6 DEF SubscriberCrash, FaultsOK, TakeBack, Delivered
  <2> QED
    BY <2>1, <2>2, <2>3, <2>4, <2>5
<1>7. ASSUME NEW m \in Messages, Publish(m) PROVE TypeOK'
  <2>1. SendingOK'
    BY <1>7 DEF Publish, SendingOK
  <2>2. CopiesOK'
    BY <1>7 DEF Publish, CopiesOK
  <2>3. HandlingOK'
    BY <1>7 DEF Publish, HandlingOK
  <2>4. ConnectionsOK'
    BY <1>7 DEF Publish, ConnectionsOK
  <2>5. FaultsOK'
    BY <1>7 DEF Publish, FaultsOK
  <2> QED
    BY <2>1, <2>2, <2>3, <2>4, <2>5
<1>8. ASSUME NEW m \in Messages, Confirmed(m) PROVE TypeOK'
  <2>1. SendingOK'
    BY <1>8 DEF Confirmed, SendingOK
  <2>2. CopiesOK'
    BY <1>8 DEF Confirmed, CopiesOK
  <2>3. HandlingOK'
    BY <1>8 DEF Confirmed, HandlingOK
  <2>4. ConnectionsOK'
    BY <1>8 DEF Confirmed, ConnectionsOK
  <2>5. FaultsOK'
    BY <1>8 DEF Confirmed, FaultsOK
  <2> QED
    BY <2>1, <2>2, <2>3, <2>4, <2>5
<1>9. ASSUME NEW m \in Messages, BrokerTakes(m) PROVE TypeOK'
  <2>1. SendingOK'
    BY <1>9 DEF BrokerTakes, SendingOK, CopiesOf
  <2>2. CopiesOK'
    BY <1>9 DEF BrokerTakes, CopiesOK, CopiesOf
  <2>3. HandlingOK'
    BY <1>9 DEF BrokerTakes, HandlingOK, CopiesOf
  <2>4. ConnectionsOK'
    BY <1>9 DEF BrokerTakes, ConnectionsOK, CopiesOf
  <2>5. FaultsOK'
    BY <1>9 DEF BrokerTakes, FaultsOK, CopiesOf
  <2> QED
    BY <2>1, <2>2, <2>3, <2>4, <2>5
<1>10. ASSUME NEW m \in Messages, BrokerRefuses(m) PROVE TypeOK'
  <2>1. SendingOK'
    BY <1>10 DEF BrokerRefuses, SendingOK
  <2>2. CopiesOK'
    BY <1>10 DEF BrokerRefuses, CopiesOK
  <2>3. HandlingOK'
    BY <1>10 DEF BrokerRefuses, HandlingOK
  <2>4. ConnectionsOK'
    BY <1>10 DEF BrokerRefuses, ConnectionsOK
  <2>5. FaultsOK'
    BY <1>10 DEF BrokerRefuses, FaultsOK
  <2> QED
    BY <2>1, <2>2, <2>3, <2>4, <2>5
<1>11. ASSUME NEW c \in Copies, Deliver(c) PROVE TypeOK'
  <2>1. SendingOK'
    BY <1>11 DEF Deliver, SendingOK, Delivered
  <2>2. CopiesOK'
    BY <1>11 DEF Deliver, CopiesOK, Delivered
  <2>3. HandlingOK'
    BY <1>11 DEF Deliver, HandlingOK, Delivered
  <2>4. ConnectionsOK'
    BY <1>11 DEF Deliver, ConnectionsOK, Delivered
  <2>5. FaultsOK'
    BY <1>11 DEF Deliver, FaultsOK, Delivered
  <2> QED
    BY <2>1, <2>2, <2>3, <2>4, <2>5
<1>12. ASSUME NEW c \in Copies, BrokerSettles(c) PROVE TypeOK'
  <2>1. SendingOK'
    BY <1>12 DEF BrokerSettles, SendingOK, Copies,Delivered
  <2>2. CopiesOK'
    BY <1>12 DEF BrokerSettles, CopiesOK, Copies,Delivered
  <2>3. HandlingOK'
    BY <1>12 DEF BrokerSettles, HandlingOK, Copies,Delivered
  <2>4. ConnectionsOK'
    BY <1>12 DEF BrokerSettles, ConnectionsOK, Copies,Delivered
  <2>5. FaultsOK'
    BY <1>12 DEF BrokerSettles, FaultsOK, Copies,Delivered
  <2> QED
    BY <2>1, <2>2, <2>3, <2>4, <2>5
<1>13. ASSUME NEW c \in Copies, HandlerSucceeds(c) PROVE TypeOK'
  <2>1. SendingOK'
    BY <1>13 DEF HandlerSucceeds, SendingOK, Succeed, Copies,Delivered
  <2>2. CopiesOK'
    BY <1>13 DEF HandlerSucceeds, CopiesOK, Succeed, Copies,Delivered
  <2>3. HandlingOK'
    BY <1>13 DEF HandlerSucceeds, HandlingOK, Succeed, Copies,Delivered
  <2>4. ConnectionsOK'
    BY <1>13 DEF HandlerSucceeds, ConnectionsOK, Succeed, Copies,Delivered
  <2>5. FaultsOK'
    BY <1>13 DEF HandlerSucceeds, FaultsOK, Succeed, Copies,Delivered
  <2> QED
    BY <2>1, <2>2, <2>3, <2>4, <2>5
<1>14. ASSUME NEW c \in Copies, HandlerFails(c) PROVE TypeOK'
  <2>1. SendingOK'
    BY <1>14 DEF HandlerFails, SendingOK, Copies,Delivered
  <2>2. CopiesOK'
    BY <1>14 DEF HandlerFails, CopiesOK, Copies,Delivered
  <2>3. HandlingOK'
    BY <1>14 DEF HandlerFails, HandlingOK, Copies,Delivered
  <2>4. ConnectionsOK'
    BY <1>14 DEF HandlerFails, ConnectionsOK, Copies,Delivered
  <2>5. FaultsOK'
    BY <1>14 DEF HandlerFails, FaultsOK, Copies,Delivered
  <2> QED
    BY <2>1, <2>2, <2>3, <2>4, <2>5
<1>15. ASSUME NEW c \in Copies, OrphanEnds(c) PROVE TypeOK'
  <2>1. SendingOK'
    BY <1>15 DEF OrphanEnds, SendingOK, Succeed, Copies
  <2>2. CopiesOK'
    BY <1>15 DEF OrphanEnds, CopiesOK, Succeed, Copies
  <2>3. HandlingOK'
    BY <1>15 DEF OrphanEnds, HandlingOK, Succeed, Copies
  <2>4. ConnectionsOK'
    BY <1>15 DEF OrphanEnds, ConnectionsOK, Succeed, Copies
  <2>5. FaultsOK'
    BY <1>15 DEF OrphanEnds, FaultsOK, Succeed, Copies
  <2> QED
    BY <2>1, <2>2, <2>3, <2>4, <2>5
<1>16. CASE UNCHANGED vars
  BY <1>16 DEF vars, SendingOK, CopiesOK, HandlingOK, ConnectionsOK, FaultsOK
<1> QED
  BY <1>1, <1>2, <1>3, <1>4, <1>5, <1>6, <1>7, <1>8, <1>9, <1>10, <1>11, <1>12, <1>13, <1>14, <1>15, <1>16 DEF Next, HandlerEnds

(* A copy is answered for what happened to its message: only what a handler *)
(* has dealt with is acknowledged, only what has come back is dropped.     *)
LEMMA AnswersStep ==
  ASSUME TypeOK, AnswersHold, [Next]_vars
  PROVE  AnswersHold'
<1> USE DEF AnswersHold, TypeOK, SendingOK, CopiesOK, HandlingOK, Copies, CopiesOf, publisher, broker, subscriber, faults, MayFail
<1>1. CASE PublisherUp
  BY <1>1 DEF PublisherUp
<1>2. CASE PublisherCut
  BY <1>2 DEF PublisherCut
<1>3. CASE PublisherCrash
  BY <1>3 DEF PublisherCrash
<1>4. CASE SubscriberUp
  BY <1>4 DEF SubscriberUp
<1>5. CASE SubscriberCut
  BY <1>5 DEF SubscriberCut, TakeBack, Delivered
<1>6. CASE SubscriberCrash
  BY <1>6 DEF SubscriberCrash, TakeBack, Delivered
<1>7. ASSUME NEW m \in Messages, Publish(m) PROVE AnswersHold'
  BY <1>7 DEF Publish
<1>8. ASSUME NEW m \in Messages, Confirmed(m) PROVE AnswersHold'
  BY <1>8 DEF Confirmed
<1>9. ASSUME NEW m \in Messages, BrokerTakes(m) PROVE AnswersHold'
  BY <1>9 DEF BrokerTakes
<1>10. ASSUME NEW m \in Messages, BrokerRefuses(m) PROVE AnswersHold'
  BY <1>10 DEF BrokerRefuses
<1>11. ASSUME NEW c \in Copies, Deliver(c) PROVE AnswersHold'
  BY <1>11 DEF Deliver, Delivered
<1>12. ASSUME NEW c \in Copies, BrokerSettles(c) PROVE AnswersHold'
  BY <1>12 DEF BrokerSettles, Delivered
<1>13. ASSUME NEW c \in Copies, HandlerSucceeds(c) PROVE AnswersHold'
  BY <1>13 DEF HandlerSucceeds, Succeed,Delivered
<1>14. ASSUME NEW c \in Copies, HandlerFails(c) PROVE AnswersHold'
  BY <1>14 DEF HandlerFails, Delivered
<1>15. ASSUME NEW c \in Copies, OrphanEnds(c) PROVE AnswersHold'
  BY <1>15 DEF OrphanEnds, Succeed
<1>16. CASE UNCHANGED vars
  BY <1>16 DEF vars
<1> QED
  BY <1>1, <1>2, <1>3, <1>4, <1>5, <1>6, <1>7, <1>8, <1>9, <1>10, <1>11, <1>12, <1>13, <1>14, <1>15, <1>16 DEF Next, HandlerEnds

(* Only what the broker has is confirmed, dealt with or dropped.           *)
LEMMA StoredStep ==
  ASSUME TypeOK, AnswersHold, OnlyStored, [Next]_vars
  PROVE  OnlyStored'
<1> USE DEF OnlyStored, TypeOK, SendingOK, CopiesOK, HandlingOK, Stored, Copies, CopiesOf, AnswersHold, publisher, broker, subscriber, faults, MayFail
<1>1. CASE PublisherUp
  BY <1>1 DEF PublisherUp
<1>2. CASE PublisherCut
  BY <1>2 DEF PublisherCut
<1>3. CASE PublisherCrash
  BY <1>3 DEF PublisherCrash
<1>4. CASE SubscriberUp
  BY <1>4 DEF SubscriberUp
<1>5. CASE SubscriberCut
  BY <1>5 DEF SubscriberCut, TakeBack, Delivered
<1>6. CASE SubscriberCrash
  BY <1>6 DEF SubscriberCrash, TakeBack, Delivered
<1>7. ASSUME NEW m \in Messages, Publish(m) PROVE OnlyStored'
  BY <1>7 DEF Publish
<1>8. ASSUME NEW m \in Messages, Confirmed(m) PROVE OnlyStored'
  BY <1>8 DEF Confirmed
<1>9. ASSUME NEW m \in Messages, BrokerTakes(m) PROVE OnlyStored'
  BY <1>9 DEF BrokerTakes
<1>10. ASSUME NEW m \in Messages, BrokerRefuses(m) PROVE OnlyStored'
  BY <1>10 DEF BrokerRefuses
<1>11. ASSUME NEW c \in Copies, Deliver(c) PROVE OnlyStored'
  BY <1>11 DEF Deliver, Delivered
<1>12. ASSUME NEW c \in Copies, BrokerSettles(c) PROVE OnlyStored'
  BY <1>12 DEF BrokerSettles, Delivered
<1>13. ASSUME NEW c \in Copies, HandlerSucceeds(c) PROVE OnlyStored'
  BY <1>13 DEF HandlerSucceeds, Succeed,Delivered
<1>14. ASSUME NEW c \in Copies, HandlerFails(c) PROVE OnlyStored'
  BY <1>14 DEF HandlerFails, Delivered
<1>15. ASSUME NEW c \in Copies, OrphanEnds(c) PROVE OnlyStored'
  BY <1>15 DEF OrphanEnds, Succeed
<1>16. CASE UNCHANGED vars
  BY <1>16 DEF vars
<1> QED
  BY <1>1, <1>2, <1>3, <1>4, <1>5, <1>6, <1>7, <1>8, <1>9, <1>10, <1>11, <1>12, <1>13, <1>14, <1>15, <1>16 DEF Next, HandlerEnds

(* Without a cut or a death a message has one copy, whose handler is done  *)
(* with it once.                                                           *)
LEMMA SentStep ==
  ASSUME TypeOK, AnswersHold, OnlyStored, SentOnce, [Next]_vars
  PROVE  SentOnce'
<1> USE DEF SentOnce, TypeOK, SendingOK, CopiesOK, HandlingOK, FaultsOK, Stored, Copies, CopiesOf, AnswersHold, OnlyStored, publisher, broker, subscriber, faults, MayFail
<1>1. CASE PublisherUp
  BY <1>1 DEF PublisherUp
<1>2. CASE PublisherCut
  BY <1>2 DEF PublisherCut
<1>3. CASE PublisherCrash
  BY <1>3 DEF PublisherCrash
<1>4. CASE SubscriberUp
  BY <1>4 DEF SubscriberUp
<1>5. CASE SubscriberCut
  BY <1>5 DEF SubscriberCut, TakeBack, Delivered
<1>6. CASE SubscriberCrash
  BY <1>6 DEF SubscriberCrash, TakeBack, Delivered
<1>7. ASSUME NEW m \in Messages, Publish(m) PROVE SentOnce'
  BY <1>7 DEF Publish
<1>8. ASSUME NEW m \in Messages, Confirmed(m) PROVE SentOnce'
  BY <1>8 DEF Confirmed
<1>9. ASSUME NEW m \in Messages, BrokerTakes(m) PROVE SentOnce'
  BY <1>9 DEF BrokerTakes
<1>10. ASSUME NEW m \in Messages, BrokerRefuses(m) PROVE SentOnce'
  BY <1>10 DEF BrokerRefuses
<1>11. ASSUME NEW c \in Copies, Deliver(c) PROVE SentOnce'
  BY <1>11 DEF Deliver, Delivered
<1>12. ASSUME NEW c \in Copies, BrokerSettles(c) PROVE SentOnce'
  BY <1>12 DEF BrokerSettles, Delivered
<1>13. ASSUME NEW c \in Copies, HandlerSucceeds(c) PROVE SentOnce'
  BY <1>13 DEF HandlerSucceeds, Succeed,Delivered
<1>14. ASSUME NEW c \in Copies, HandlerFails(c) PROVE SentOnce'
  BY <1>14 DEF HandlerFails, Delivered
<1>15. ASSUME NEW c \in Copies, OrphanEnds(c) PROVE SentOnce'
  BY <1>15 DEF OrphanEnds, Succeed
<1>16. CASE UNCHANGED vars
  BY <1>16 DEF vars
<1> QED
  BY <1>1, <1>2, <1>3, <1>4, <1>5, <1>6, <1>7, <1>8, <1>9, <1>10, <1>11, <1>12, <1>13, <1>14, <1>15, <1>16 DEF Next, HandlerEnds
-----------------------------------------------------------------------------
(* The refinement.                                                         *)

(* A copy anywhere is one Delivery knows of: no message is settled without *)
(* having been dealt with or given up on.                                  *)
LEMMA StoredIsReceived ==
  ASSUME TypeOK, AnswersHold, OnlyStored, NEW m \in Messages
  PROVE  Stored(m) <=> m \in Promised!Received
<1> USE DEF Stored, Promised!Received, Waiting, Live, Delivered, AnswersHold, OnlyStored, TypeOK,
            CopiesOK, CopiesOf, Copies
<1>1. ASSUME NEW c \in CopiesOf(m), place[c] # "none"
      PROVE  m \in Promised!Received
  BY <1>1
<1>2. ASSUME m \in Promised!Received
      PROVE  Stored(m)
  BY <1>2
<1> QED
  BY <1>1, <1>2

LEMMA SameView ==
  ASSUME TypeOK, UNCHANGED <<place, again>>
  PROVE  Waiting' = Waiting /\ Returned' = Returned
BY DEF Waiting, Returned, Live

(* Each action of the queue is one of Delivery or changes nothing it sees: *)
(* a cut of the subscriber's connection returns all that was delivered on  *)
(* it, and settling one of several copies is a stutter.                    *)
LEMMA DeliveryStep ==
  ASSUME TypeOK, AnswersHold, OnlyStored, [Next]_vars
  PROVE  [Promised!Next]_Promised!delivery
<1> USE DEF Promised!delivery, Promised!Next, publisher, broker, subscriber, faults, MayFail
<1>1. CASE PublisherUp \/ PublisherCut
  BY <1>1, SameView DEF PublisherUp, PublisherCut
<1>2. CASE PublisherCrash
  <2>1. {m \in pending : ~Stored(m)} = pending \ Promised!Received
    BY StoredIsReceived DEF TypeOK, SendingOK
  <2>2. Promised!LosePublisher
    BY <1>2, <2>1, SameView DEF PublisherCrash, Promised!LosePublisher
  <2> QED
    BY <2>2
<1>3. CASE SubscriberUp
  BY <1>3, SameView DEF SubscriberUp
<1>4. CASE SubscriberCut \/ SubscriberCrash
  <2> DEFINE back == {m \in Messages : \E c \in CopiesOf(m) : place[c] \in Delivered}
  <2>1. Waiting' = Waiting
    BY <1>4 DEF SubscriberCut, SubscriberCrash, TakeBack, Waiting, Live, Delivered, TypeOK, CopiesOK, CopiesOf, Copies
  <2>2. Returned' = Returned \union back
    BY <1>4 DEF SubscriberCut, SubscriberCrash, TakeBack, Returned, CopiesOf
  <2>3. back \subseteq Waiting
    BY DEF Waiting, Live
  <2>4. back \in SUBSET Messages
    OBVIOUS
  <2>5. Promised!Return(back)
    BY <1>4, <2>1, <2>2, <2>3 DEF SubscriberCut, SubscriberCrash, Promised!Return
  <2> QED
    BY <2>4, <2>5
<1>5. ASSUME NEW m \in Messages, Publish(m)
      PROVE  [Promised!Next]_Promised!delivery
  <2>1. Promised!Publish(m)
    BY <1>5, SameView DEF Publish, Promised!Publish
  <2> QED
    BY <2>1
<1>6. ASSUME NEW m \in Messages, Confirmed(m)
      PROVE  [Promised!Next]_Promised!delivery
  <2>1. m \in pending \intersect Promised!Received
    BY <1>6, StoredIsReceived DEF Confirmed, OnlyStored, TypeOK, SendingOK
  <2>2. Promised!Confirm(m)
    BY <1>6, <2>1, SameView DEF Confirmed, Promised!Confirm
  <2> QED
    BY <2>2
<1>7. ASSUME NEW m \in Messages, BrokerTakes(m)
      PROVE  [Promised!Next]_Promised!delivery
  <2>1. PICK c \in CopiesOf(m) : place[c] = "none" /\ place' = [place EXCEPT ![c] = "queue"]
    BY <1>7 DEF BrokerTakes
  <2>2. Waiting' = Waiting \union {m} /\ Returned' = Returned
    BY <1>7, <2>1 DEF BrokerTakes, Waiting, Returned, Live, Delivered, TypeOK, CopiesOK, CopiesOf, Copies
  <2>3. Promised!Receive(m)
    BY <1>7, <2>2 DEF BrokerTakes, TypeOK, SendingOK, Promised!Receive
  <2> QED
    BY <2>3
<1>8. ASSUME NEW m \in Messages, BrokerRefuses(m)
      PROVE  [Promised!Next]_Promised!delivery
  BY <1>8, SameView DEF BrokerRefuses
<1>9. ASSUME NEW c \in Copies, Deliver(c)
      PROVE  [Promised!Next]_Promised!delivery
  <2>1. Waiting' = Waiting /\ Returned' = Returned
    BY <1>9 DEF Deliver, Waiting, Returned, Live, Delivered, TypeOK, CopiesOK, CopiesOf, Copies
  <2> QED
    BY <1>9, <2>1 DEF Deliver
<1>10. ASSUME NEW c \in Copies, BrokerSettles(c)
       PROVE  [Promised!Next]_Promised!delivery
  <2>1. c[1] \in Messages /\ c \in CopiesOf(c[1])
    BY DEF Copies, CopiesOf
  <2>2. c[1] \in Waiting
    BY <1>10, <2>1 DEF BrokerSettles, Waiting, Live, Delivered
  <2>3. CASE place[c] = "requeue"
    <3>1. Waiting' = Waiting /\ Returned' = Returned \union {c[1]}
      BY <1>10, <2>1, <2>3 DEF BrokerSettles, Waiting, Returned, Live, Delivered, TypeOK, CopiesOK, CopiesOf, Copies
    <3>2. Promised!Return({c[1]})
      BY <1>10, <2>2, <2>3, <3>1 DEF BrokerSettles, Promised!Return
    <3> QED
      BY <2>1, <3>2
  <2>4. CASE place[c] # "requeue"
    <3>1. Waiting' \in {Waiting, Waiting \ {c[1]}} /\ Returned' = Returned
      BY <1>10, <2>1, <2>4 DEF BrokerSettles, Waiting, Returned, Live, Delivered, TypeOK, CopiesOK, CopiesOf, Copies
    <3>2. CASE place[c] = "ack"
      <4>1. c[1] \in served
        BY <3>2 DEF AnswersHold
      <4>2. Promised!Settle(c[1]) \/ UNCHANGED Promised!delivery
        BY <1>10, <2>2, <3>1, <3>2, <4>1 DEF BrokerSettles, Promised!Settle
      <4> QED
        BY <2>1, <4>2
    <3>3. CASE place[c] = "drop"
      <4>1. c[1] \in Returned
        BY <2>1, <3>3 DEF AnswersHold, Returned
      <4>2. Promised!Drop(c[1])
        BY <1>10, <2>2, <3>1, <3>3, <4>1 DEF BrokerSettles, Promised!Drop
      <4> QED
        BY <2>1, <4>2
    <3> QED
      BY <1>10, <2>4, <3>2, <3>3 DEF BrokerSettles
  <2> QED
    BY <2>3, <2>4
<1>11. ASSUME NEW c \in Copies, HandlerSucceeds(c)
       PROVE  [Promised!Next]_Promised!delivery
  <2>1. c[1] \in Messages /\ c[1] \in Waiting
    BY <1>11 DEF HandlerSucceeds, Waiting, Live, Delivered, Copies, CopiesOf
  <2>2. Waiting' = Waiting /\ Returned' = Returned
    BY <1>11 DEF HandlerSucceeds, Waiting, Returned, Live, Delivered, TypeOK, CopiesOK, CopiesOf, Copies
  <2>3. Promised!Serve(c[1])
    BY <1>11, <2>1, <2>2 DEF HandlerSucceeds, Succeed, Promised!Serve
  <2> QED
    BY <2>1, <2>3
<1>12. ASSUME NEW c \in Copies, HandlerFails(c)
       PROVE  [Promised!Next]_Promised!delivery
  <2>1. Waiting' = Waiting /\ Returned' = Returned
    BY <1>12 DEF HandlerFails, Waiting, Returned, Live, Delivered, TypeOK, CopiesOK, CopiesOf, Copies
  <2> QED
    BY <1>12, <2>1 DEF HandlerFails
<1>13. ASSUME NEW c \in Copies, OrphanEnds(c)
       PROVE  [Promised!Next]_Promised!delivery
  <2>1. c[1] \in Messages /\ Stored(c[1])
    BY <1>13 DEF OrphanEnds, AnswersHold, Stored, Copies, CopiesOf
  <2>2. c[1] \in Waiting \union dropped \union served
    BY <2>1, StoredIsReceived DEF Promised!Received
  <2>3. Promised!Serve(c[1]) \/ UNCHANGED Promised!delivery
    BY <1>13, <2>2, SameView DEF OrphanEnds, Succeed, Promised!Serve
  <2> QED
    BY <2>1, <2>3
<1>14. CASE UNCHANGED vars
  BY <1>14, SameView DEF vars
<1> QED
  BY <1>1, <1>2, <1>3, <1>4, <1>5, <1>6, <1>7, <1>8, <1>9, <1>10, <1>11, <1>12, <1>13, <1>14
     DEF Next, HandlerEnds
-----------------------------------------------------------------------------
(* The theorems.                                                           *)

(* Every variable keeps its type, and what is on the wire or unconfirmed   *)
(* is in the publisher's #pending (messageQueue.js, #send).                *)
THEOREM TypeCorrect == Spec => []TypeOK
<1>1. Init => TypeOK
  <2> SUFFICES ASSUME Init PROVE TypeOK
    OBVIOUS
  <2>1. SendingOK
    BY DEF Init, SendingOK
  <2>2. CopiesOK
    BY DEF Init, CopiesOK
  <2>3. HandlingOK
    BY DEF Init, HandlingOK
  <2>4. ConnectionsOK /\ FaultsOK
    BY DEF Init, ConnectionsOK, FaultsOK
  <2> QED
    BY <2>1, <2>2, <2>3, <2>4 DEF TypeOK
<1> QED
  BY <1>1, TypeStep, PTL DEF Spec

(* The strengthening holds always: how the answers of #handleMessage and   *)
(* the confirmations of #send tell what has happened to a message.         *)
THEOREM IInvCorrect == Spec => []IInv
<1>1. Init => IInv
  BY DEF Init, IInv, AnswersHold, OnlyStored, SentOnce, Stored, CopiesOf
<1>2. TypeOK /\ IInv /\ [Next]_vars => IInv'
  BY AnswersStep, StoredStep, SentStep DEF IInv
<1> QED
  BY <1>1, <1>2, TypeCorrect, PTL DEF Spec

(* A message is dealt with twice only after a cut or a death: a handler    *)
(* that failed and its retry do not repeat it (#handleMessage).            *)
THEOREM RepeatedByCutsOnlyCorrect == Spec => []RepeatedByCutsOnly
<1>1. IInv => RepeatedByCutsOnly
  BY DEF IInv, SentOnce, RepeatedByCutsOnly
<1> QED
  BY <1>1, IInvCorrect, PTL

(* The queue keeps Delivery's promise: initial states map to its initial   *)
(* state and each step of either service or the broker to one of its steps *)
(* or a stutter.                                                           *)
THEOREM DeliveryCorrect == Spec => DeliveryKept
<1>1. Init => Promised!Nothing
  BY DEF Init, Promised!Nothing, Waiting, Returned, Live, Delivered, CopiesOf
<1>2. TypeOK /\ IInv /\ [Next]_vars => [Promised!Next]_Promised!delivery
  BY DeliveryStep DEF IInv
<1> QED
  BY <1>1, <1>2, IInvCorrect, TypeCorrect, PTL DEF Spec, DeliveryKept, Promised!Spec

(* No message disappears between the publisher's #pending and the handler  *)
(* (#enqueue, up, #handleMessage); shown of Delivery and inherited.        *)
THEOREM NoneUnaccountedCorrect == Spec => []NoneUnaccounted
<1>1. Promised!Nothing => Promised!Accounted
  BY DEF Promised!Nothing, Promised!Accounted
<1>2. Promised!Accounted /\ [Promised!Next]_Promised!delivery => Promised!Accounted'
  BY DEF Promised!Accounted, Promised!Next, Promised!delivery, Promised!Received, Promised!Publish,
         Promised!Receive, Promised!Confirm, Promised!Serve, Promised!Settle, Promised!Return,
         Promised!Drop, Promised!LosePublisher
<1> QED
  BY <1>1, <1>2, DeliveryCorrect, PTL DEF NoneUnaccounted, DeliveryKept, Promised!Spec
===============================================================================
