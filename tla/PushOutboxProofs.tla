--------------------------- MODULE PushOutboxProofs ---------------------------
(***************************************************************************)
(* Theorems about PushOutbox for any number of notifications, endpoints,   *)
(* registrations and faults, any batch limit and any attempt limit.        *)
(***************************************************************************)
EXTENDS PushOutbox, TLAPS

-------------------------------------------------------------------------------
(* A delivery is a pair of a notification and an endpoint.                 *)
LEMMA DeliveryPair ==
    /\ \A d \in Deliveries : /\ d[1] \in Notifications
                             /\ d[2] \in Endpoints
                             /\ d = <<d[1], d[2]>>
    /\ \A n \in Notifications, e \in Endpoints :
          <<n, e>> \in Deliveries /\ <<n, e>>[1] = n /\ <<n, e>>[2] = e
  BY DEF Deliveries

(* The roll-up yields a status: the one the notification has, or a settled *)
(* one.                                                                    *)
LEMMA RollUpType ==
  ASSUME TypeOK, NEW n \in Notifications, NEW rows
  PROVE  RollUp(n, rows) \in {"none", "pending"} \union Settled
  BY DEF RollUp, TypeOK, Settled

(* Removing a subscription preserves the types of what it writes.          *)
LEMMA RemoveSubscriptionType ==
  ASSUME TypeOK, NEW e \in Endpoints, RemoveSubscription(e)
  PROVE  /\ registrations' \in 0..MaxRegistrations
         /\ subscription' \in [Endpoints -> 0..registrations']
         /\ lapsed' \subseteq Registrations
         /\ notification' \in [Notifications -> {"none", "pending"} \union Settled]
         /\ delivery' \in [Deliveries -> {"none"} \union Active \union Settled]
         /\ attempts' \in [Deliveries -> Nat]
         /\ linked' \subseteq Deliveries
         /\ notDue' \subseteq Deliveries
         /\ leased' \subseteq Deliveries
<1>1. delivery' \in [Deliveries -> {"none"} \union Active \union Settled]
  BY DEF RemoveSubscription, TypeOK, Settled
<1>2. notification' \in [Notifications -> {"none", "pending"} \union Settled]
  BY RollUpType DEF RemoveSubscription, TypeOK
<1>3. QED
  BY <1>1, <1>2 DEF RemoveSubscription, TypeOK

(* Settling a delivery preserves the types of what it writes.              *)
LEMMA SettleType ==
  ASSUME TypeOK, NEW d \in Deliveries, NEW status \in Settled, Settle(d, status)
  PROVE  /\ UNCHANGED subscriptionVars
         /\ notification' \in [Notifications -> {"none", "pending"} \union Settled]
         /\ delivery' \in [Deliveries -> {"none"} \union Active \union Settled]
         /\ attempts' \in [Deliveries -> Nat]
         /\ linked' \subseteq Deliveries
         /\ notDue' \subseteq Deliveries
         /\ leased' \subseteq Deliveries
<1>1. d[1] \in Notifications
  BY DeliveryPair
<1>2. notification' \in [Notifications -> {"none", "pending"} \union Settled]
  BY <1>1, RollUpType DEF Settle, TypeOK
<1>3. QED
  BY <1>2 DEF Settle, TypeOK, subscriptionVars

LEMMA LeavesType ==
  ASSUME TypeOK, NEW d \in Deliveries, Leaves(d)
  PROVE  /\ batch' \subseteq Deliveries
         /\ snapshot' \in [Deliveries -> 0..MaxRegistrations]
         /\ answer' \in [Deliveries -> {"none"} \union Answers]
  BY OutboxAssumption DEF Leaves, TypeOK

-------------------------------------------------------------------------------
(* Types: one lemma per step of Next.                                      *)
LEMMA InitType == Init => TypeOK
  BY OutboxAssumption DEF Init, TypeOK

LEMMA StepType == TypeOK /\ [Next]_vars => TypeOK'
<1> SUFFICES ASSUME TypeOK, [Next]_vars PROVE TypeOK'
  OBVIOUS
<1> USE OutboxAssumption
<1>1. ASSUME NEW e \in Endpoints, Register(e) PROVE TypeOK'
  BY <1>1 DEF Register, TypeOK, rowVars, dispatcherVars
<1>2. ASSUME NEW e \in Endpoints, Unregister(e) PROVE TypeOK'
  BY <1>2, RemoveSubscriptionType DEF Unregister, TypeOK, dispatcherVars
<1>3. ASSUME NEW n \in Notifications, Enqueue(n) PROVE TypeOK'
  BY <1>3 DEF Enqueue, TypeOK, subscriptionVars, dispatcherVars, Active, Settled
<1>4. ASSUME Claim PROVE TypeOK'
  <2>1. \A d \in Deliveries : subscription[d[2]] \in 0..MaxRegistrations
    BY DeliveryPair DEF TypeOK
  <2>2. PICK chosen \in SUBSET (linked \ notDue) :
          /\ delivery' = [d \in Deliveries |->
                            IF d \in chosen THEN "sending"
                            ELSE IF d \in ExpiredLeases THEN "pending" ELSE delivery[d]]
          /\ attempts' = [d \in Deliveries |->
                            IF d \in chosen THEN attempts[d] + 1 ELSE attempts[d]]
          /\ leased' = leased \union chosen
          /\ batch' = chosen
          /\ snapshot' = [d \in Deliveries |->
                            IF d \in chosen THEN subscription[d[2]] ELSE 0]
    BY <1>4 DEF Claim
  <2>3. delivery' \in [Deliveries -> {"none"} \union Active \union Settled]
    BY <2>2 DEF TypeOK, Active
  <2>4. attempts' \in [Deliveries -> Nat]
    BY <2>2 DEF TypeOK
  <2>5. snapshot' \in [Deliveries -> 0..MaxRegistrations]
    BY <2>1, <2>2
  <2>6. QED
    BY <1>4, <2>2, <2>3, <2>4, <2>5 DEF Claim, TypeOK, subscriptionVars
<1>5. ASSUME NEW d \in Deliveries, Disable(d), Leaves(d),
             UNCHANGED <<process, accepted, faults>>
      PROVE  TypeOK'
  <2>1. CASE RemoveSubscription(d[2])
    BY <1>5, <2>1, DeliveryPair, RemoveSubscriptionType, LeavesType DEF TypeOK
  <2>2. CASE UNCHANGED <<subscriptionVars, rowVars>>
    BY <1>5, <2>2, LeavesType DEF TypeOK, subscriptionVars, rowVars
  <2>3. QED
    BY <1>5, <2>1, <2>2 DEF Disable
<1>6. ASSUME NEW d \in Deliveries, DispatchExpired(d) PROVE TypeOK'
  BY <1>5, <1>6 DEF DispatchExpired
<1>7. ASSUME NEW d \in Deliveries, NEW result \in Answers, Send(d, result) PROVE TypeOK'
  BY <1>7 DEF Send, TypeOK, subscriptionVars, rowVars
<1>8. ASSUME NEW d \in Deliveries, SendReplyLost(d) PROVE TypeOK'
  BY <1>8 DEF SendReplyLost, TypeOK, subscriptionVars, rowVars, Answers
<1>9. ASSUME NEW d \in Deliveries, RecordSent(d) PROVE TypeOK'
  <2>1. CASE Settle(d, "sent")
    BY <1>9, <2>1, SettleType, LeavesType
    DEF RecordSent, TypeOK, subscriptionVars, Settled
  <2>2. CASE UNCHANGED <<subscriptionVars, rowVars>>
    BY <1>9, <2>2, LeavesType DEF RecordSent, TypeOK, subscriptionVars, rowVars
  <2>3. QED
    BY <1>9, <2>1, <2>2 DEF RecordSent
<1>10. ASSUME NEW d \in Deliveries, RecordGone(d) PROVE TypeOK'
  BY <1>5, <1>10 DEF RecordGone
<1>11. ASSUME NEW d \in Deliveries, RecordRetry(d) PROVE TypeOK'
  BY <1>11, LeavesType DEF RecordRetry, TypeOK, subscriptionVars, Active
<1>12. ASSUME NEW d \in Deliveries, RecordFailed(d) PROVE TypeOK'
  BY <1>12, SettleType, LeavesType
  DEF RecordFailed, TypeOK, subscriptionVars, Settled
<1>13. ASSUME NEW d \in Deliveries, RecordingFails(d) PROVE TypeOK'
  BY <1>13, LeavesType DEF RecordingFails, TypeOK, subscriptionVars, rowVars
<1>14. CASE Stop \/ Exit \/ Restart
  BY <1>14 DEF Stop, Exit, Restart, TypeOK, subscriptionVars, rowVars, dispatcherVars
<1>15. CASE Crash
  BY <1>15 DEF Crash, TypeOK, subscriptionVars, rowVars
<1>16. ASSUME NEW d \in Deliveries, LeaseRunsOut(d) \/ BackoffElapses(d) PROVE TypeOK'
  BY <1>16 DEF LeaseRunsOut, BackoffElapses, TypeOK, subscriptionVars, dispatcherVars
<1>17. ASSUME NEW r \in Registrations, Lapse(r) PROVE TypeOK'
  BY <1>17 DEF Lapse, TypeOK, rowVars, dispatcherVars
<1>18. CASE UNCHANGED vars
  BY <1>18 DEF TypeOK, vars, subscriptionVars, rowVars, dispatcherVars
<1>19. QED
  BY <1>1, <1>2, <1>3, <1>4, <1>6, <1>7, <1>8, <1>9, <1>10, <1>11, <1>12, <1>13,
     <1>14, <1>15, <1>16, <1>17, <1>18 DEF Next, Finish

(* Every column and every dispatcher variable keeps to its type.           *)
THEOREM TypeCorrect == Spec => []TypeOK
  BY InitType, StepType, PTL DEF Spec

-------------------------------------------------------------------------------
(* Links: an active delivery points at a subscription row, and the row it  *)
(* points at exists.                                                       *)
LinkInv ==
    \A d \in Deliveries :
        /\ delivery[d] \in Active => d \in linked
        /\ d \in linked => subscription[d[2]] # 0

(* The batch: what the dispatcher holds is leased in the table, or was     *)
(* cancelled under it; and only a claimed delivery has an answer.          *)
BatchInv ==
    \A d \in Deliveries :
        /\ d \in batch => delivery[d] \in {"sending", "cancelled"}
        /\ d \in batch /\ d \in linked => delivery[d] = "sending"
        /\ answer[d] # "none" => d \in batch

LEMMA InitLinkBatch == Init => LinkInv /\ BatchInv
  BY DEF Init, LinkInv, BatchInv, Active

(* Removing a subscription keeps both, whoever calls it.                   *)
LEMMA RemoveKeepsLinks ==
  ASSUME TypeOK, LinkInv, BatchInv, NEW e \in Endpoints, RemoveSubscription(e)
  PROVE  /\ LinkInv'
         /\ \A d \in batch : delivery'[d] \in {"sending", "cancelled"}
         /\ \A d \in batch : d \in linked' => delivery'[d] = "sending"
<1>1. \A d \in Deliveries : delivery'[d] =
          IF d \in linked /\ d[2] = e /\ delivery[d] \in Active
          THEN "cancelled" ELSE delivery[d]
  BY DEF RemoveSubscription
<1>2. linked' = {d \in linked : d[2] # e}
  BY DEF RemoveSubscription
<1>3. \A f \in Endpoints : f # e => subscription'[f] = subscription[f]
  BY DEF RemoveSubscription, TypeOK
<1>4. LinkInv'
  BY <1>1, <1>2, <1>3, DeliveryPair DEF LinkInv, Active
<1>5. QED
  BY <1>1, <1>2, <1>4 DEF BatchInv, LinkInv, Active, TypeOK

(* Dropping a delivery from the batch keeps BatchInv if the table does.    *)
LEMMA LeavesKeepsBatch ==
  ASSUME TypeOK, BatchInv, NEW d \in Deliveries, Leaves(d),
         \A c \in batch \ {d} : /\ delivery'[c] \in {"sending", "cancelled"}
                                /\ c \in linked' => delivery'[c] = "sending"
  PROVE  BatchInv'
  BY DEF Leaves, BatchInv, TypeOK

(* What an event without a row implies: no delivery row exists either, so  *)
(* the rows an enqueue adds are new and nobody holds them.                 *)
LEMMA NewRowsAreNew ==
  ASSUME TypeOK, BatchInv, NotificationSummarisesDeliveries,
         NEW d \in Deliveries, notification[d[1]] = "none"
  PROVE  delivery[d] = "none" /\ d \notin batch
<1>1. d[1] \in Notifications /\ d[2] \in Endpoints /\ d = <<d[1], d[2]>>
  BY DeliveryPair
<1>2. delivery[<<d[1], d[2]>>] = "none"
  BY <1>1 DEF NotificationSummarisesDeliveries, Summarises, HasRow
<1>3. QED
  BY <1>1, <1>2 DEF BatchInv

LEMMA StepLinkBatch ==
  TypeOK /\ LinkInv /\ BatchInv /\ NotificationSummarisesDeliveries /\ [Next]_vars
    => LinkInv' /\ BatchInv'
<1> SUFFICES ASSUME TypeOK, LinkInv, BatchInv, NotificationSummarisesDeliveries, [Next]_vars
             PROVE  LinkInv' /\ BatchInv'
  OBVIOUS
<1>1. ASSUME NEW e \in Endpoints, Register(e) PROVE LinkInv' /\ BatchInv'
  <2>1. \A f \in Endpoints : subscription[f] # 0 => subscription'[f] # 0
    BY <1>1 DEF Register, TypeOK
  <2>2. LinkInv'
    BY <1>1, <2>1, DeliveryPair DEF Register, LinkInv, rowVars
  <2>3. QED
    BY <1>1, <2>2 DEF Register, BatchInv, rowVars, dispatcherVars
<1>2. ASSUME NEW e \in Endpoints, Unregister(e) PROVE LinkInv' /\ BatchInv'
  BY <1>2, RemoveKeepsLinks DEF Unregister, BatchInv, dispatcherVars
<1>3. ASSUME NEW n \in Notifications, Enqueue(n) PROVE LinkInv' /\ BatchInv'
  <2>1. \A d \in Deliveries : d[1] = n => d \notin batch
    BY <1>3, NewRowsAreNew DEF Enqueue
  <2>2. LinkInv'
    BY <1>3, DeliveryPair DEF Enqueue, LinkInv, subscriptionVars, TypeOK
  <2>3. QED
    BY <1>3, <2>1, <2>2 DEF Enqueue, BatchInv, dispatcherVars, TypeOK
<1>4. CASE Claim
  <2>1. PICK chosen \in SUBSET (linked \ notDue) :
          /\ delivery' = [d \in Deliveries |->
                            IF d \in chosen THEN "sending"
                            ELSE IF d \in ExpiredLeases THEN "pending" ELSE delivery[d]]
          /\ batch' = chosen
    BY <1>4 DEF Claim
  <2>2. batch = {} /\ UNCHANGED <<subscriptionVars, linked, answer>>
    BY <1>4 DEF Claim, BetweenBatches
  <2>3. LinkInv'
    BY <2>1, <2>2 DEF LinkInv, ExpiredLeases, Active, subscriptionVars
  <2>4. BatchInv'
    BY <2>1, <2>2 DEF BatchInv
  <2>5. QED
    BY <2>3, <2>4
<1>5. ASSUME NEW d \in Deliveries, Disable(d), Leaves(d) PROVE LinkInv' /\ BatchInv'
  <2>1. CASE RemoveSubscription(d[2])
    BY <1>5, <2>1, DeliveryPair, RemoveKeepsLinks, LeavesKeepsBatch DEF TypeOK
  <2>2. CASE UNCHANGED <<subscriptionVars, rowVars>>
    BY <1>5, <2>2, LeavesKeepsBatch
    DEF LinkInv, BatchInv, TypeOK, subscriptionVars, rowVars
  <2>3. QED
    BY <1>5, <2>1, <2>2 DEF Disable
<1>6. ASSUME NEW d \in Deliveries, NEW status \in Settled, Settle(d, status), Leaves(d)
      PROVE  LinkInv' /\ BatchInv'
  <2>1. \A c \in Deliveries : c # d => delivery'[c] = delivery[c]
    BY <1>6 DEF Settle, TypeOK
  <2>2. delivery'[d] \in Active => delivery[d] \in Active
    BY <1>6 DEF Settle, TypeOK, Active, Settled
  <2>3. linked' = linked /\ subscription' = subscription
    BY <1>6 DEF Settle, subscriptionVars
  <2>4. LinkInv'
    BY <2>1, <2>2, <2>3 DEF LinkInv
  <2>5. BatchInv'
    BY <1>6, <2>1, <2>3, LeavesKeepsBatch DEF BatchInv, TypeOK
  <2>6. QED
    BY <2>4, <2>5
<1>7. ASSUME NEW d \in Deliveries, UNCHANGED <<subscriptionVars, rowVars>>, Leaves(d)
      PROVE  LinkInv' /\ BatchInv'
  BY <1>7, LeavesKeepsBatch DEF LinkInv, BatchInv, TypeOK, subscriptionVars, rowVars
<1>8. ASSUME NEW d \in Deliveries, RecordRetry(d) PROVE LinkInv' /\ BatchInv'
  <2>1. \A c \in Deliveries : c # d => delivery'[c] = delivery[c]
    BY <1>8 DEF RecordRetry, TypeOK
  <2>2. delivery'[d] \in Active => delivery[d] \in Active
    BY <1>8 DEF RecordRetry, TypeOK, Active
  <2>3. linked' = linked /\ subscription' = subscription /\ Leaves(d)
    BY <1>8 DEF RecordRetry, subscriptionVars
  <2>4. LinkInv'
    BY <2>1, <2>2, <2>3 DEF LinkInv
  <2>5. BatchInv'
    BY <2>1, <2>3, LeavesKeepsBatch DEF BatchInv, TypeOK
  <2>6. QED
    BY <2>4, <2>5
<1>9. ASSUME NEW d \in Deliveries,
             (\E result \in Answers : Send(d, result)) \/ SendReplyLost(d)
      PROVE  LinkInv' /\ BatchInv'
  BY <1>9 DEF Send, SendReplyLost, IsNext, LinkInv, BatchInv, TypeOK,
              subscriptionVars, rowVars
<1>10. CASE Crash
  BY <1>10 DEF Crash, LinkInv, BatchInv, subscriptionVars, rowVars
<1>11. ASSUME UNCHANGED <<subscription, delivery, linked, batch, answer>>
       PROVE  LinkInv' /\ BatchInv'
  BY <1>11 DEF LinkInv, BatchInv
<1>12. ASSUME NEW d \in Deliveries, DispatchExpired(d) \/ Finish(d) \/ RecordingFails(d)
       PROVE  LinkInv' /\ BatchInv'
  BY <1>5, <1>6, <1>7, <1>8, <1>12
  DEF DispatchExpired, Finish, RecordSent, RecordGone, RecordFailed, RecordingFails, Settled
<1>13. ASSUME Stop \/ Exit \/ Restart
              \/ (\E d \in Deliveries : LeaseRunsOut(d) \/ BackoffElapses(d))
              \/ (\E r \in Registrations : Lapse(r)) \/ UNCHANGED vars
       PROVE  UNCHANGED <<subscription, delivery, linked, batch, answer>>
  BY <1>13 DEF Stop, Exit, Restart, LeaseRunsOut, BackoffElapses, Lapse, vars,
               subscriptionVars, rowVars, dispatcherVars
<1>14. QED
  BY <1>1, <1>2, <1>3, <1>4, <1>9, <1>10, <1>11, <1>12, <1>13 DEF Next

-------------------------------------------------------------------------------
(* The roll-up of rows that exist is their summary, provided the event was *)
(* pending if any of them is still active.                                 *)
LEMMA RollUpSummarises ==
  ASSUME NEW n \in Notifications, NEW rows, HasRow(n, rows),
         HasActive(n, rows) => notification[n] = "pending"
  PROVE  Summarises(n, RollUp(n, rows), rows)
<1>1. ASSUME NEW statuses, statuses = {rows[<<n, e>>] : e \in Endpoints}
      PROVE  /\ statuses \intersect Active # {} <=> HasActive(n, rows)
             /\ "sent" \in statuses <=> HasSent(n, rows)
  BY <1>1 DEF HasActive, HasSent, Active
<1>2. RollUp(n, rows) = IF HasActive(n, rows) THEN notification[n]
                        ELSE IF HasSent(n, rows) THEN "sent" ELSE "failed"
  BY <1>1 DEF RollUp
<1>3. QED
  BY <1>2 DEF Summarises

(* A row that stays among the active ones, or does not change, leaves the  *)
(* summary as it is.                                                       *)
SameVerdict(before, after) ==
    /\ before \in Active <=> after \in Active
    /\ before = "sent" <=> after = "sent"
    /\ before = "none" <=> after = "none"

LEMMA SummaryKept ==
  ASSUME NEW n \in Notifications, Summarises(n, notification[n], delivery),
         notification'[n] = notification[n],
         \A e \in Endpoints : SameVerdict(delivery[<<n, e>>], delivery'[<<n, e>>])
  PROVE  Summarises(n, notification'[n], delivery')
<1>1. HasRow(n, delivery) <=> HasRow(n, delivery')
  BY DEF HasRow, SameVerdict
<1>2. HasActive(n, delivery) <=> HasActive(n, delivery')
  BY DEF HasActive, SameVerdict
<1>3. HasSent(n, delivery) <=> HasSent(n, delivery')
  BY DEF HasSent, SameVerdict
<1>4. QED
  BY <1>1, <1>2, <1>3 DEF Summarises

LEMMA RemoveKeepsSummary ==
  ASSUME TypeOK, NotificationSummarisesDeliveries, NEW e \in Endpoints, RemoveSubscription(e)
  PROVE  NotificationSummarisesDeliveries'
<1> DEFINE cancelled == {d \in linked : d[2] = e /\ delivery[d] \in Active}
<1>1. \A d \in Deliveries :
        delivery'[d] = IF d \in cancelled THEN "cancelled" ELSE delivery[d]
  BY DEF RemoveSubscription
<1>2. \A n \in Notifications :
        notification'[n] = IF <<n, e>> \in cancelled THEN RollUp(n, delivery')
                           ELSE notification[n]
  BY DEF RemoveSubscription
<1>3. ASSUME NEW n \in Notifications PROVE Summarises(n, notification'[n], delivery')
  <2>1. Summarises(n, notification[n], delivery)
    BY DEF NotificationSummarisesDeliveries
  <2>2. CASE <<n, e>> \in cancelled
    <3>1. HasRow(n, delivery')
      BY <1>1, <2>2, DeliveryPair DEF HasRow
    <3>2. HasActive(n, delivery)
      BY <2>2 DEF HasActive
    <3>3. QED
      BY <1>2, <2>1, <2>2, <3>1, <3>2, RollUpSummarises DEF Summarises
  <2>3. CASE <<n, e>> \notin cancelled
    <3>1. \A f \in Endpoints : <<n, f>> \notin cancelled
      BY <2>3, DeliveryPair
    <3>2. \A f \in Endpoints : delivery'[<<n, f>>] = delivery[<<n, f>>]
      BY <1>1, <3>1, DeliveryPair
    <3>3. QED
      BY <1>2, <2>1, <2>3, <3>2, SummaryKept DEF SameVerdict
  <2>4. QED
    BY <2>2, <2>3
<1>4. QED
  BY <1>3 DEF NotificationSummarisesDeliveries

(* Settling a delivery the dispatcher holds: its row exists, and the event *)
(* was pending if the row was still active.                                *)
LEMMA SettleKeepsSummary ==
  ASSUME TypeOK, BatchInv, NotificationSummarisesDeliveries,
         NEW d \in batch, NEW status \in Settled, Settle(d, status)
  PROVE  NotificationSummarisesDeliveries'
<1>1. d \in Deliveries /\ d[1] \in Notifications /\ d[2] \in Endpoints /\ d = <<d[1], d[2]>>
  BY DeliveryPair DEF TypeOK
<1>2. /\ delivery' = [delivery EXCEPT ![d] = IF @ = "sending" THEN status ELSE @]
      /\ notification' = [notification EXCEPT ![d[1]] = RollUp(d[1], delivery')]
  BY DEF Settle
<1>3. ASSUME NEW n \in Notifications PROVE Summarises(n, notification'[n], delivery')
  <2>1. Summarises(n, notification[n], delivery)
    BY DEF NotificationSummarisesDeliveries
  <2>2. CASE n = d[1]
    <3>1. HasRow(n, delivery')
      <4>1. delivery'[d] # "none"
        BY <1>1, <1>2 DEF BatchInv, TypeOK, Settled
      <4>2. d = <<n, d[2]>> /\ d[2] \in Endpoints
        BY <1>1, <2>2
      <4>3. delivery'[<<n, d[2]>>] # "none"
        BY <4>1, <4>2, Zenon
      <4>4. QED
        BY <4>2, <4>3 DEF HasRow
    <3>2. HasActive(n, delivery') => HasActive(n, delivery)
      BY <1>1, <1>2, <2>2, DeliveryPair DEF HasActive, TypeOK, Active, Settled
    <3>3. notification'[n] = RollUp(n, delivery')
      BY <1>2, <2>2 DEF TypeOK
    <3>4. QED
      BY <2>1, <3>1, <3>2, <3>3, RollUpSummarises DEF Summarises
  <2>3. CASE n # d[1]
    <3>1. \A e \in Endpoints : delivery'[<<n, e>>] = delivery[<<n, e>>]
      BY <1>1, <1>2, <2>3, DeliveryPair DEF TypeOK
    <3>2. notification'[n] = notification[n]
      BY <1>1, <1>2, <2>3 DEF TypeOK
    <3>3. QED
      BY <2>1, <3>1, <3>2, SummaryKept DEF SameVerdict
  <2>4. QED
    BY <2>2, <2>3
<1>4. QED
  BY <1>3 DEF NotificationSummarisesDeliveries

LEMMA InitSummary == Init => NotificationSummarisesDeliveries
<1> SUFFICES ASSUME Init, NEW n \in Notifications
             PROVE  Summarises(n, notification[n], delivery)
  BY DEF NotificationSummarisesDeliveries
<1>1. notification[n] = "none" /\ \A e \in Endpoints : delivery[<<n, e>>] = "none"
  BY DeliveryPair DEF Init
<1>2. QED
  BY <1>1 DEF Summarises, HasRow, HasActive, HasSent, Active

LEMMA StepSummary ==
  TypeOK /\ BatchInv /\ NotificationSummarisesDeliveries /\ [Next]_vars
    => NotificationSummarisesDeliveries'
<1> SUFFICES ASSUME TypeOK, BatchInv, NotificationSummarisesDeliveries, [Next]_vars
             PROVE  NotificationSummarisesDeliveries'
  OBVIOUS
<1>1. ASSUME NEW e \in Endpoints, Unregister(e) PROVE NotificationSummarisesDeliveries'
  BY <1>1, RemoveKeepsSummary DEF Unregister
<1>2. ASSUME NEW m \in Notifications, Enqueue(m) PROVE NotificationSummarisesDeliveries'
  <2> DEFINE devices == {e \in Endpoints : subscription[e] # 0 /\ subscription[e] \notin lapsed}
  <2>1. \A e \in Endpoints : delivery[<<m, e>>] = "none"
    BY <1>2, NewRowsAreNew, DeliveryPair DEF Enqueue
  <2>2. \A n \in Notifications, e \in Endpoints :
           delivery'[<<n, e>>] = IF n = m /\ e \in devices THEN "pending"
                                 ELSE delivery[<<n, e>>]
    BY <1>2, DeliveryPair DEF Enqueue
  <2>3. notification' = [notification EXCEPT
                            ![m] = IF devices = {} THEN "cancelled" ELSE "pending"]
    BY <1>2 DEF Enqueue
  <2>4. ASSUME NEW n \in Notifications PROVE Summarises(n, notification'[n], delivery')
    <3>1. Summarises(n, notification[n], delivery)
      BY DEF NotificationSummarisesDeliveries
    <3>2. CASE n # m
      BY <2>2, <2>3, <3>1, <3>2, SummaryKept DEF SameVerdict, TypeOK
    <3>3. CASE n = m
      BY <2>1, <2>2, <2>3, <3>3
      DEF Summarises, HasRow, HasActive, HasSent, Active, TypeOK
    <3>4. QED
      BY <3>2, <3>3
  <2>5. QED
    BY <2>4 DEF NotificationSummarisesDeliveries
<1>3. ASSUME UNCHANGED notification,
             \A d \in Deliveries : SameVerdict(delivery[d], delivery'[d])
      PROVE  NotificationSummarisesDeliveries'
  BY <1>3, SummaryKept, DeliveryPair DEF NotificationSummarisesDeliveries
<1>4. CASE Claim
  <2>1. PICK chosen \in SUBSET {d \in Deliveries :
                                  delivery[d] = "pending" \/ d \in ExpiredLeases} :
          delivery' = [d \in Deliveries |->
                          IF d \in chosen THEN "sending"
                          ELSE IF d \in ExpiredLeases THEN "pending" ELSE delivery[d]]
    BY <1>4 DEF Claim, TypeOK
  <2>2. \A d \in Deliveries : SameVerdict(delivery[d], delivery'[d])
    BY <2>1 DEF SameVerdict, ExpiredLeases, Active
  <2>3. QED
    BY <1>3, <1>4, <2>2 DEF Claim
<1>5. ASSUME NEW d \in Deliveries, RecordRetry(d) PROVE NotificationSummarisesDeliveries'
  BY <1>3, <1>5 DEF RecordRetry, SameVerdict, Active, TypeOK
<1>6. ASSUME NEW d \in Deliveries, Disable(d) PROVE NotificationSummarisesDeliveries'
  BY <1>3, <1>6, RemoveKeepsSummary, DeliveryPair DEF Disable, SameVerdict, rowVars
<1>7. ASSUME NEW d \in Deliveries,
             DispatchExpired(d) \/ RecordSent(d) \/ RecordGone(d) \/ RecordFailed(d)
      PROVE  NotificationSummarisesDeliveries'
  BY <1>3, <1>6, <1>7, SettleKeepsSummary
  DEF DispatchExpired, RecordSent, RecordGone, RecordFailed, Settled, SameVerdict, rowVars
<1>8. ASSUME UNCHANGED <<notification, delivery>> PROVE NotificationSummarisesDeliveries'
  BY <1>3, <1>8 DEF SameVerdict
<1>9. QED
  BY <1>1, <1>2, <1>4, <1>5, <1>7, <1>8
  DEF Next, Finish, Register, Send, SendReplyLost, RecordingFails, Stop, Exit, Crash,
      Restart, LeaseRunsOut, BackoffElapses, Lapse, vars, rowVars

-------------------------------------------------------------------------------
(* The inductive invariant: none of its parts is inductive alone.  The     *)
(* summary needs that the dispatcher holds existing rows; that needs that  *)
(* an enqueue adds rows nobody holds, which is the summary again.          *)
OutboxInv == TypeOK /\ LinkInv /\ BatchInv /\ NotificationSummarisesDeliveries

THEOREM OutboxInvariant == Spec => []OutboxInv
<1>1. Init => OutboxInv
  BY InitType, InitLinkBatch, InitSummary DEF OutboxInv
<1>2. OutboxInv /\ [Next]_vars => OutboxInv'
  BY StepType, StepLinkBatch, StepSummary DEF OutboxInv
<1>3. QED
  BY <1>1, <1>2, PTL DEF Spec

(* Whichever of enqueue, unsubscribe, disable, sent or failed commits      *)
(* last, a notification's status is the summary of its deliveries.         *)
THEOREM SummaryHolds == Spec => []NotificationSummarisesDeliveries
<1>1. OutboxInv => NotificationSummarisesDeliveries
  BY DEF OutboxInv
<1>2. QED
  BY <1>1, OutboxInvariant, PTL

(* No active delivery loses the subscription row that Claim joins on.      *)
THEOREM ActiveClaimable == Spec => []ActiveDeliveriesAreClaimable
<1>1. OutboxInv => ActiveDeliveriesAreClaimable
  BY DEF OutboxInv, LinkInv, ActiveDeliveriesAreClaimable
<1>2. QED
  BY <1>1, OutboxInvariant, PTL

-------------------------------------------------------------------------------
(* A settled row is never written again: the steps that write a row find   *)
(* it active, or write it for the first time.                              *)
THEOREM SettledRowsStaySettled == Spec => SettledStaysSettled
<1>1. ASSUME OutboxInv, [Next]_vars, NEW d \in Deliveries, delivery[d] \in Settled
      PROVE  delivery'[d] = delivery[d]
  <2> USE DEF OutboxInv
  <2>1. ASSUME NEW e \in Endpoints, RemoveSubscription(e)
        PROVE  delivery'[d] = delivery[d]
    BY <1>1, <2>1 DEF RemoveSubscription, Active, Settled
  <2>2. ASSUME NEW n \in Notifications, Enqueue(n)
        PROVE  delivery'[d] = delivery[d]
    BY <1>1, <2>2, NewRowsAreNew DEF Enqueue, Settled
  <2>3. CASE Claim
    BY <1>1, <2>3 DEF Claim, ExpiredLeases, Settled
  <2>4. ASSUME NEW c \in Deliveries, NEW status \in Settled, Settle(c, status)
        PROVE  delivery'[d] = delivery[d]
    BY <1>1, <2>4 DEF Settle, Settled, TypeOK
  <2>5. ASSUME NEW c \in Deliveries, RecordRetry(c)
        PROVE  delivery'[d] = delivery[d]
    BY <1>1, <2>5 DEF RecordRetry, Settled, TypeOK
  <2>6. ASSUME NEW c \in Deliveries, Disable(c) PROVE delivery'[d] = delivery[d]
    BY <2>1, <2>6, DeliveryPair DEF Disable, rowVars
  <2>7. ASSUME NEW c \in Deliveries,
               RecordSent(c) \/ RecordGone(c) \/ RecordFailed(c) \/ DispatchExpired(c)
        PROVE  delivery'[d] = delivery[d]
    BY <2>4, <2>6, <2>7
    DEF RecordSent, RecordGone, RecordFailed, DispatchExpired, Settled, rowVars
  <2>8. QED
    BY <1>1, <2>1, <2>2, <2>3, <2>5, <2>7
    DEF Next, Finish, Register, Unregister, Send, SendReplyLost, RecordingFails, Stop,
        Exit, Crash, Restart, LeaseRunsOut, BackoffElapses, Lapse, vars, rowVars
<1>2. OutboxInv /\ [Next]_vars =>
        [\A d \in Deliveries : delivery[d] \in Settled => delivery'[d] = delivery[d]]_vars
  BY <1>1
<1>3. QED
  BY <1>2, OutboxInvariant, PTL DEF Spec, SettledStaysSettled

(* The push service is called only for a row that is being sent, or was    *)
(* cancelled after the claim.                                              *)
THEOREM NoLateCalls == Spec => NoCallAfterFinalAnswer
<1>1. ASSUME OutboxInv, [Next]_vars, NEW d \in Deliveries, accepted'[d] # accepted[d]
      PROVE  delivery[d] \in {"sending", "cancelled"}
  <2>2. ASSUME NEW c \in Deliveries,
               (\E result \in Answers : Send(c, result)) \/ SendReplyLost(c)
        PROVE  delivery[d] \in {"sending", "cancelled"}
    <3>1. c \in batch /\ \A b \in Deliveries : b # c => accepted'[b] = accepted[b]
      BY <1>1, <2>2 DEF Send, SendReplyLost, IsNext, OutboxInv, TypeOK
    <3>2. c = d
      BY <1>1, <3>1
    <3>3. QED
      BY <1>1, <3>1, <3>2 DEF OutboxInv, BatchInv
  <2>3. QED
    BY <1>1, <2>2
    DEF Next, Finish, Register, Unregister, Enqueue, Claim, DispatchExpired, RecordSent,
        RecordGone, RecordRetry, RecordFailed, RecordingFails, Stop, Exit, Crash,
        Restart, LeaseRunsOut, BackoffElapses, Lapse, vars
<1>2. OutboxInv /\ [Next]_vars =>
        [\A d \in Deliveries : accepted'[d] # accepted[d] =>
            delivery[d] \in {"sending", "cancelled"}]_vars
  BY <1>1
<1>3. QED
  BY <1>2, OutboxInvariant, PTL DEF Spec, NoCallAfterFinalAnswer

-------------------------------------------------------------------------------
(* Counting.  Whatever can still be claimed has an attempt to spare, and   *)
(* whatever can still be sent has been accepted at most once per fault.    *)
Claimable(d) ==
    delivery[d] \in {"none", "pending"} \/ (delivery[d] = "sending" /\ d \notin batch)

AttemptInv ==
    \A d \in Deliveries :
        /\ attempts[d] <= MaxAttempts + faults
        /\ Claimable(d) => attempts[d] + 1 <= MaxAttempts + faults

Sendable(d) ==
    (delivery[d] \in {"none", "pending", "sending"} \/ d \in batch) /\ answer[d] # "accepted"

AcceptInv ==
    \A d \in Deliveries :
        /\ accepted[d] <= faults + 1
        /\ Sendable(d) => accepted[d] <= faults

CountInv == AttemptInv /\ AcceptInv

LEMMA InitCount == Init => CountInv
  BY OutboxAssumption DEF Init, CountInv, AttemptInv, AcceptInv, Claimable, Sendable

(* A step that makes no row claimable and none sendable, and counts        *)
(* nothing, keeps the counts.                                              *)
LEMMA CountKept ==
  ASSUME CountInv, UNCHANGED <<attempts, accepted, faults>>,
         \A d \in Deliveries : /\ Claimable(d)' => Claimable(d)
                               /\ Sendable(d)' => Sendable(d)
  PROVE  CountInv'
  BY DEF CountInv, AttemptInv, AcceptInv

(* A fault pays for one more attempt and one more acceptance of every row. *)
LEMMA CountFault ==
  ASSUME TypeOK, CountInv, faults' = faults + 1, UNCHANGED attempts,
         \A d \in Deliveries : accepted'[d] = accepted[d]
                               \/ (accepted'[d] = accepted[d] + 1 /\ Sendable(d))
  PROVE  CountInv'
<1>1. AttemptInv'
  BY OutboxAssumption DEF CountInv, AttemptInv, TypeOK
<1>2. \A d \in Deliveries : accepted'[d] <= faults + 1
  BY DEF CountInv, AcceptInv, TypeOK
<1>3. QED
  BY <1>1, <1>2 DEF CountInv, AcceptInv, TypeOK

(* A delivery the dispatcher drops is either settled or may be tried again *)
(* within the counts.                                                      *)
LEMMA LeavesKeepsCount ==
  ASSUME TypeOK, BatchInv, CountInv, NEW d \in batch, Leaves(d),
         UNCHANGED <<attempts, accepted, faults>>,
         \A c \in Deliveries : delivery'[c] = delivery[c] \/ delivery'[c] \in Settled
                               \/ (c = d /\ delivery'[c] = "pending"),
         delivery'[d] \in Settled
           \/ (attempts[d] + 1 <= MaxAttempts + faults /\ answer[d] # "accepted")
  PROVE  CountInv'
<1> USE DEF Settled
<1>1. ASSUME NEW c \in Deliveries, c # d
      PROVE  (Claimable(c)' => Claimable(c)) /\ (Sendable(c)' => Sendable(c))
  BY <1>1 DEF Leaves, Claimable, Sendable, TypeOK, BatchInv
<1>2. d \in Deliveries
  BY DEF TypeOK
<1>3. (Claimable(d)' => attempts[d] + 1 <= MaxAttempts + faults)
  BY DEF Claimable
<1>4. (Sendable(d)' => Sendable(d))
  BY <1>2 DEF Leaves, Sendable, TypeOK
<1>5. QED
  BY <1>1, <1>2, <1>3, <1>4 DEF CountInv, AttemptInv, AcceptInv

LEMMA StepCount ==
  OutboxInv /\ CountInv /\ [Next]_vars => CountInv'
<1> SUFFICES ASSUME OutboxInv, CountInv, [Next]_vars PROVE CountInv'
  OBVIOUS
<1> USE DEF OutboxInv
<1>1. ASSUME NEW e \in Endpoints, RemoveSubscription(e)
      PROVE  \A d \in Deliveries : delivery'[d] = delivery[d] \/ delivery'[d] \in Settled
  BY <1>1 DEF RemoveSubscription, Settled
<1>2. ASSUME NEW e \in Endpoints, Unregister(e) PROVE CountInv'
  BY <1>1, <1>2, CountKept
  DEF Unregister, RemoveSubscription, dispatcherVars, Claimable, Sendable, Settled, BatchInv
<1>3. ASSUME NEW n \in Notifications, Enqueue(n) PROVE CountInv'
  <2>1. \A d \in Deliveries : delivery'[d] = delivery[d]
                              \/ (delivery[d] = "none" /\ delivery'[d] = "pending")
    BY <1>3, NewRowsAreNew DEF Enqueue
  <2>2. QED
    BY <1>3, <2>1, CountKept DEF Enqueue, dispatcherVars, Claimable, Sendable
<1>4. CASE Claim
  <2>1. PICK chosen \in SUBSET {d \in Deliveries :
                                  delivery[d] = "pending" \/ d \in ExpiredLeases} :
          /\ delivery' = [d \in Deliveries |->
                            IF d \in chosen THEN "sending"
                            ELSE IF d \in ExpiredLeases THEN "pending" ELSE delivery[d]]
          /\ attempts' = [d \in Deliveries |->
                            IF d \in chosen THEN attempts[d] + 1 ELSE attempts[d]]
          /\ batch' = chosen
    BY <1>4 DEF Claim, TypeOK
  <2>2. batch = {} /\ UNCHANGED <<answer, accepted, faults>>
    BY <1>4 DEF Claim, BetweenBatches
  <2>3. \A d \in chosen : Claimable(d) /\ ~Claimable(d)'
    BY <2>1, <2>2 DEF Claimable, ExpiredLeases
  <2>4. \A d \in Deliveries \ chosen : Claimable(d)' => Claimable(d)
    BY <2>1, <2>2 DEF Claimable, ExpiredLeases
  <2>5. AttemptInv'
    BY <2>1, <2>2, <2>3, <2>4, OutboxAssumption DEF CountInv, AttemptInv, TypeOK
  <2>6. \A d \in Deliveries : Sendable(d)' => Sendable(d)
    BY <2>1, <2>2 DEF Sendable, ExpiredLeases
  <2>7. QED
    BY <2>2, <2>5, <2>6 DEF CountInv, AcceptInv
<1>5. ASSUME NEW d \in Deliveries, NEW result \in Answers, Send(d, result) PROVE CountInv'
  <2>1. UNCHANGED <<delivery, attempts, batch, faults>>
    BY <1>5 DEF Send, rowVars
  <2>2. \A c \in Deliveries \ {d} : answer'[c] = answer[c] /\ accepted'[c] = accepted[c]
    BY <1>5 DEF Send, TypeOK
  <2>3. AttemptInv'
    BY <2>1 DEF CountInv, AttemptInv, Claimable
  <2>4. Sendable(d) /\ accepted[d] <= faults
    BY <1>5 DEF Send, IsNext, Waiting, Sendable, CountInv, AcceptInv, TypeOK
  <2>5. IF result = "accepted" THEN accepted'[d] = accepted[d] + 1 /\ ~Sendable(d)'
        ELSE accepted'[d] = accepted[d]
    BY <1>5 DEF Send, Sendable, TypeOK
  <2>6. AcceptInv'
    BY <2>1, <2>2, <2>4, <2>5 DEF CountInv, AcceptInv, Sendable, TypeOK
  <2>7. QED
    BY <2>3, <2>6 DEF CountInv
<1>6. ASSUME NEW d \in Deliveries, SendReplyLost(d) PROVE CountInv'
  BY <1>6, CountFault DEF SendReplyLost, IsNext, Waiting, Sendable, TypeOK, rowVars
<1>7. ASSUME NEW d \in Deliveries, RecordingFails(d) PROVE CountInv'
  BY <1>7, CountFault DEF RecordingFails, rowVars
<1>8. CASE Crash
  BY <1>8, CountFault DEF Crash, rowVars
<1>9. ASSUME NEW d \in batch, d \notin linked PROVE delivery[d] \in Settled
  BY <1>9 DEF BatchInv, LinkInv, Active, Settled, TypeOK
<1>10. ASSUME NEW d \in batch, NEW status \in Settled, Settle(d, status)
       PROVE  /\ delivery'[d] \in Settled
              /\ UNCHANGED attempts
              /\ \A c \in Deliveries : c # d => delivery'[c] = delivery[c]
  BY <1>10 DEF Settle, TypeOK, BatchInv, Settled
<1>11. ASSUME NEW d \in batch, Disable(d)
       PROVE  /\ delivery'[d] \in Settled
              /\ UNCHANGED attempts
              /\ \A c \in Deliveries : delivery'[c] = delivery[c] \/ delivery'[c] \in Settled
  <2>1. d \in Deliveries /\ d[2] \in Endpoints
    BY DeliveryPair DEF TypeOK
  <2>2. CASE d \in linked /\ RemoveSubscription(d[2])
    BY <1>1, <2>1, <2>2 DEF RemoveSubscription, BatchInv, Settled, Active
  <2>3. CASE d \notin linked /\ UNCHANGED <<subscriptionVars, rowVars>>
    BY <1>9, <2>3 DEF rowVars
  <2>4. QED
    BY <1>11, <2>2, <2>3 DEF Disable
<1>12. ASSUME NEW d \in Deliveries, RecordRetry(d) PROVE CountInv'
  <2>1. d \in batch /\ attempts[d] + 1 <= MaxAttempts + faults /\ answer[d] # "accepted"
    BY <1>12, OutboxAssumption DEF RecordRetry, MayRetry, TypeOK
  <2>2. \A c \in Deliveries : delivery'[c] = delivery[c]
                              \/ (c = d /\ delivery'[c] = "pending")
    BY <1>12 DEF RecordRetry, TypeOK
  <2>3. QED
    BY <1>12, <2>1, <2>2, LeavesKeepsCount DEF RecordRetry
<1>13. ASSUME NEW d \in Deliveries,
              DispatchExpired(d) \/ RecordSent(d) \/ RecordGone(d) \/ RecordFailed(d)
       PROVE  CountInv'
  <2>1. d \in batch /\ Leaves(d) /\ UNCHANGED <<accepted, faults>>
    BY <1>13 DEF DispatchExpired, IsNext, RecordSent, RecordGone, RecordFailed
  <2>2. Disable(d) \/ (\E status \in Settled : Settle(d, status))
        \/ (d \notin linked /\ UNCHANGED rowVars)
    BY <1>13 DEF DispatchExpired, RecordSent, RecordGone, RecordFailed, Settled
  <2>3. /\ delivery'[d] \in Settled
        /\ UNCHANGED attempts
        /\ \A c \in Deliveries : delivery'[c] = delivery[c] \/ delivery'[c] \in Settled
    BY <1>9, <1>10, <1>11, <2>1, <2>2 DEF rowVars
  <2>4. QED
    BY <2>1, <2>3, LeavesKeepsCount
<1>14. ASSUME UNCHANGED <<delivery, attempts, batch, answer, accepted, faults>>
       PROVE  CountInv'
  BY <1>14, CountKept DEF Claimable, Sendable
<1>15. QED
  BY <1>2, <1>3, <1>4, <1>5, <1>6, <1>7, <1>8, <1>12, <1>13, <1>14
  DEF Next, Finish, Register, Stop, Exit, Restart, LeaseRunsOut, BackoffElapses, Lapse,
      vars, rowVars, dispatcherVars

THEOREM CountInvariant == Spec => []CountInv
<1>1. Init => CountInv
  BY InitCount
<1>2. QED
  BY <1>1, StepCount, OutboxInvariant, PTL DEF Spec

(* An attempt beyond the limit is paid for by a fault.                     *)
THEOREM AttemptsStayBounded == Spec => []AttemptsBounded
<1>1. CountInv => AttemptsBounded
  BY DEF CountInv, AttemptInv, AttemptsBounded
<1>2. QED
  BY <1>1, CountInvariant, PTL

(* A device is handed an event twice only after a crash, a failed write or *)
(* a lost reply, however many devices, leases and retries there are.       *)
THEOREM DuplicatesBounded == Spec => []DuplicatesOnlyFromFaults
<1>1. CountInv => DuplicatesOnlyFromFaults
  BY DEF CountInv, AcceptInv, DuplicatesOnlyFromFaults
<1>2. QED
  BY <1>1, CountInvariant, PTL

-------------------------------------------------------------------------------
(* The outbox implements NotificationPromise for every instance: each step *)
(* of PushOutbox is a step of the promise or leaves it as it was.          *)

(* The state functions the promise's variables stand for.                  *)
promised == <<Published, Owed, Reached, notification>>

LEMMA OwedReached ==
    \A n \in Notifications :
        /\ Owed[n] = {e \in Endpoints : delivery[<<n, e>>] \in Active}
        /\ Reached[n] = {e \in Endpoints : delivery[<<n, e>>] = "sent"}
        /\ Owed[n] # {} <=> HasActive(n, delivery)
        /\ Reached[n] # {} <=> HasSent(n, delivery)
  BY DEF Owed, Reached, HasActive, HasSent

LEMMA OwedIff ==
    \A n \in Notifications, e \in Endpoints : e \in Owed[n] <=> delivery[<<n, e>>] \in Active
  BY OwedReached

(* Two pairs are equal when their parts are.                               *)
LEMMA PairEqual ==
  ASSUME NEW d \in Deliveries, NEW n \in Notifications, NEW e \in Endpoints
  PROVE  <<n, e>> = d <=> n = d[1] /\ e = d[2]
<1>1. d = <<d[1], d[2]>>
  BY DeliveryPair
<1>2. <<n, e>>[1] = n /\ <<n, e>>[2] = e
  OBVIOUS
<1>3. QED
  BY <1>1, <1>2, Zenon

(* Rows that keep their verdict leave the promise unchanged.               *)
LEMMA SameVerdictStutters ==
  ASSUME UNCHANGED notification,
         \A d \in Deliveries : SameVerdict(delivery[d], delivery'[d])
  PROVE  UNCHANGED promised
<1>1. \A n \in Notifications, e \in Endpoints :
         SameVerdict(delivery[<<n, e>>], delivery'[<<n, e>>])
  BY DeliveryPair
<1>2. Owed' = Owed
  BY <1>1 DEF Owed, SameVerdict
<1>3. Reached' = Reached
  BY <1>1 DEF Reached, SameVerdict
<1>4. QED
  BY <1>2, <1>3 DEF promised, Published

(* The promise's verdict on an event that has addressees, read off the     *)
(* rows, and the status the code's roll-up writes: they differ only in     *)
(* what they call an event with work left.                                 *)
LEMMA VerdictOfRows ==
  ASSUME NEW n \in Notifications, NEW e \in Endpoints
  PROVE  Promise!Verdict(n, {e}) = IF HasActive(n, delivery') THEN "pending"
                                   ELSE IF HasSent(n, delivery') THEN "sent" ELSE "failed"
<1>1. (Owed')[n] # {} <=> HasActive(n, delivery')
  BY DEF Owed, HasActive
<1>2. (Reached')[n] # {} <=> HasSent(n, delivery')
  BY DEF Reached, HasSent
<1>3. QED
  BY <1>1, <1>2 DEF Promise!Verdict

LEMMA RollUpOfRows ==
  ASSUME NEW n \in Notifications, NEW rows
  PROVE  RollUp(n, rows) = IF HasActive(n, rows) THEN notification[n]
                           ELSE IF HasSent(n, rows) THEN "sent" ELSE "failed"
<1>1. ASSUME NEW statuses, statuses = {rows[<<n, e>>] : e \in Endpoints}
      PROVE  /\ statuses \intersect Active # {} <=> HasActive(n, rows)
             /\ "sent" \in statuses <=> HasSent(n, rows)
  BY <1>1 DEF HasActive, HasSent, Active
<1>2. QED
  BY <1>1 DEF RollUp

(* The roll-up of an event that had work left is the promise's verdict.    *)
LEMMA RollUpIsVerdict ==
  ASSUME NEW n \in Notifications, NEW e \in Endpoints, notification[n] = "pending"
  PROVE  RollUp(n, delivery') = Promise!Verdict(n, {e})
  BY VerdictOfRows, RollUpOfRows

LEMMA InitImplementsPromise == Init => Promise!Init
<1> SUFFICES ASSUME Init PROVE Promise!Init
  OBVIOUS
<1>1. \A n \in Notifications, e \in Endpoints : delivery[<<n, e>>] = "none"
  BY DeliveryPair DEF Init
<1>2. Published = {} /\ Owed = [n \in Notifications |-> {}]
  BY <1>1 DEF Init, Published, Owed, Active
<1>3. Reached = [n \in Notifications |-> {}]
  BY <1>1 DEF Reached
<1>4. QED
  BY <1>2, <1>3 DEF Init, Promise!Init

(* Removing a subscription is the device leaving, if any event waits for   *)
(* it.                                                                     *)
LEMMA RemoveImplementsLeave ==
  ASSUME OutboxInv, NEW e \in Endpoints, RemoveSubscription(e)
  PROVE  Promise!Leave(e) \/ UNCHANGED promised
<1> USE DEF OutboxInv
<1>1. \A n \in Notifications, f \in Endpoints :
        delivery'[<<n, f>>] = IF f = e /\ e \in Owed[n] THEN "cancelled"
                              ELSE delivery[<<n, f>>]
  <2>1. \A d \in Deliveries :
          delivery'[d] = IF d \in linked /\ d[2] = e /\ delivery[d] \in Active
                         THEN "cancelled" ELSE delivery[d]
    BY DEF RemoveSubscription
  <2>2. \A n \in Notifications, f \in Endpoints :
          <<n, f>> \in Deliveries /\ <<n, f>>[2] = f
    BY DeliveryPair
  <2>3. \A n \in Notifications, f \in Endpoints :
          <<n, f>> \in linked /\ <<n, f>>[2] = e /\ delivery[<<n, f>>] \in Active
            <=> f = e /\ e \in Owed[n]
    <3>1. ASSUME NEW n \in Notifications, NEW f \in Endpoints
          PROVE  /\ delivery[<<n, f>>] \in Active => <<n, f>> \in linked
                 /\ f \in Owed[n] <=> delivery[<<n, f>>] \in Active
      BY <2>2, OwedIff DEF LinkInv
    <3>2. QED
      BY <2>2, <3>1, Zenon
  <2>4. QED
    BY <2>1, <2>2, <2>3
<1>2. \A n \in Notifications :
        notification'[n] = IF e \in Owed[n] THEN RollUp(n, delivery') ELSE notification[n]
  BY DeliveryPair, OwedReached DEF RemoveSubscription, LinkInv
<1>3. \A n \in Notifications : e \in Owed[n] => notification[n] = "pending"
  BY OwedReached DEF NotificationSummarisesDeliveries, Summarises, HasActive
<1>4. notification' = [n \in Notifications |->
                         IF e \in Owed[n] THEN Promise!Verdict(n, {e}) ELSE notification[n]]
  <2>1. \A n \in Notifications : e \in Owed[n] =>
           notification'[n] = Promise!Verdict(n, {e})
    BY <1>2, <1>3, RollUpIsVerdict
  <2>2. notification' = [n \in Notifications |-> notification'[n]]
    BY DEF RemoveSubscription
  <2>3. QED
    BY <1>2, <2>1, <2>2
<1>5. Owed' = [n \in Notifications |-> Owed[n] \ {e}]
  <2>1. \A n \in Notifications, f \in Endpoints :
          delivery'[<<n, f>>] \in Active <=> f \in Owed[n] \ {e}
    BY <1>1, OwedIff DEF Active
  <2>2. \A n \in Notifications :
          {f \in Endpoints : delivery'[<<n, f>>] \in Active} = Owed[n] \ {e}
    BY <2>1, OwedReached
  <2>3. QED
    BY <2>2 DEF Owed
<1>6. Reached' = Reached
  BY <1>1, OwedReached DEF Reached, Active
<1>7. Published' = Published
  <2>1. ASSUME NEW n \in Notifications, e \in Owed[n]
        PROVE  notification[n] # "none" /\ notification'[n] # "none"
    BY <1>2, <1>3, <2>1, RollUpOfRows
  <2>2. QED
    BY <1>2, <2>1 DEF Published
<1>8. CASE \E n \in Notifications : e \in Owed[n]
  BY <1>4, <1>5, <1>6, <1>7, <1>8 DEF Promise!Leave
<1>9. CASE ~ \E n \in Notifications : e \in Owed[n]
  <2>1. \A d \in Deliveries : delivery'[d] = delivery[d]
    BY <1>1, <1>9, DeliveryPair
  <2>2. notification' = notification
    BY <1>4, <1>9 DEF TypeOK
  <2>3. QED
    BY <2>1, <2>2, SameVerdictStutters DEF SameVerdict
<1>10. QED
  BY <1>8, <1>9

(* Settling a delivery in hand is its device being reached or given up on, *)
(* or nothing at all when the row was cancelled under the dispatcher.      *)
LEMMA SettleImplementsPromise ==
  ASSUME OutboxInv, NEW d \in batch, NEW status \in {"sent", "failed"}, Settle(d, status)
  PROVE  \/ Promise!Reach(d[1], d[2]) \/ Promise!GiveUp(d[1], d[2])
         \/ UNCHANGED promised
<1> USE DEF OutboxInv
<1>1. /\ d \in Deliveries /\ d[1] \in Notifications /\ d[2] \in Endpoints
      /\ d = <<d[1], d[2]>>
  BY DeliveryPair DEF TypeOK
<1>2. notification' = [notification EXCEPT ![d[1]] = RollUp(d[1], delivery')]
  BY DEF Settle
<1>3. CASE delivery[d] = "sending"
  <2>1. \A n \in Notifications, f \in Endpoints :
          delivery'[<<n, f>>] = IF n = d[1] /\ f = d[2] THEN status ELSE delivery[<<n, f>>]
    <3>1. \A c \in Deliveries : delivery'[c] = IF c = d THEN status ELSE delivery[c]
      BY <1>1, <1>3 DEF Settle, TypeOK
    <3>2. \A n \in Notifications, f \in Endpoints :
            <<n, f>> \in Deliveries /\ (<<n, f>> = d <=> n = d[1] /\ f = d[2])
      BY <1>1, DeliveryPair, PairEqual
    <3>3. QED
      BY <3>1, <3>2
  <2>2. d[2] \in Owed[d[1]]
    BY <1>1, <1>3, OwedReached DEF Active
  <2>3. notification[d[1]] = "pending"
    BY <1>1, <2>2, OwedReached DEF NotificationSummarisesDeliveries, Summarises
  <2>4. notification' = [notification EXCEPT ![d[1]] = Promise!Verdict(d[1], {d[2]})]
    BY <1>1, <1>2, <2>3, RollUpIsVerdict
  <2>5. Owed' = [Owed EXCEPT ![d[1]] = Owed[d[1]] \ {d[2]}]
    <3>1. \A n \in Notifications :
            {f \in Endpoints : delivery'[<<n, f>>] \in Active}
              = IF n = d[1] THEN Owed[n] \ {d[2]} ELSE Owed[n]
      BY <2>1, OwedReached DEF Active
    <3>2. Owed' = [n \in Notifications |->
                      IF n = d[1] THEN Owed[n] \ {d[2]} ELSE Owed[n]]
      BY <3>1 DEF Owed
    <3>3. Owed = [n \in Notifications |-> Owed[n]]
      BY DEF Owed
    <3>4. QED
      BY <1>1, <3>2, <3>3
  <2>6. Published' = Published
    BY <1>1, <1>2, <2>3, RollUpOfRows DEF Published, TypeOK
  <2>7. CASE status = "sent"
    <3>1. Reached' = [Reached EXCEPT ![d[1]] = Reached[d[1]] \union {d[2]}]
      <4>1. \A n \in Notifications :
              {f \in Endpoints : delivery'[<<n, f>>] = "sent"}
                = IF n = d[1] THEN Reached[n] \union {d[2]} ELSE Reached[n]
        BY <1>1, <2>1, <2>7, OwedReached
      <4>2. Reached' = [n \in Notifications |->
                           IF n = d[1] THEN Reached[n] \union {d[2]} ELSE Reached[n]]
        BY <4>1 DEF Reached
      <4>3. Reached = [n \in Notifications |-> Reached[n]]
        BY DEF Reached
      <4>4. QED
        BY <1>1, <4>2, <4>3
    <3>2. QED
      BY <2>2, <2>4, <2>5, <2>6, <3>1 DEF Promise!Reach
  <2>8. CASE status = "failed"
    <3>1. Reached' = Reached
      BY <1>1, <1>3, <2>1, <2>8 DEF Reached
    <3>2. QED
      BY <2>2, <2>4, <2>5, <2>6, <3>1 DEF Promise!GiveUp
  <2>9. QED
    BY <2>7, <2>8
<1>4. CASE delivery[d] = "cancelled"
  <2>1. \A c \in Deliveries : delivery'[c] = delivery[c]
    BY <1>1, <1>4 DEF Settle, TypeOK
  <2>2. delivery' = delivery
    BY <2>1 DEF Settle, TypeOK
  <2>3. HasRow(d[1], delivery)
    <3>1. delivery[<<d[1], d[2]>>] # "none"
      BY <1>1, <1>4, Zenon
    <3>2. QED
      BY <1>1, <3>1 DEF HasRow
  <2>4. RollUp(d[1], delivery) = notification[d[1]]
    BY <1>1, <2>3, RollUpOfRows
    DEF NotificationSummarisesDeliveries, Summarises, TypeOK, Settled
  <2>5. notification' = notification
    BY <1>1, <1>2, <2>2, <2>4 DEF TypeOK
  <2>6. QED
    BY <2>1, <2>5, SameVerdictStutters DEF SameVerdict
<1>5. QED
  BY <1>3, <1>4 DEF BatchInv, TypeOK

LEMMA EnqueueImplementsPublish ==
  ASSUME OutboxInv, NEW m \in Notifications, Enqueue(m)
  PROVE  \E devices \in SUBSET Endpoints : Promise!Publish(m, devices)
<1> USE DEF OutboxInv
<1> DEFINE devices == {e \in Endpoints : subscription[e] # 0 /\ subscription[e] \notin lapsed}
<1>1. \A e \in Endpoints : delivery[<<m, e>>] = "none"
  BY NewRowsAreNew, DeliveryPair DEF Enqueue
<1>2. \A n \in Notifications, e \in Endpoints :
         delivery'[<<n, e>>] = IF n = m /\ e \in devices THEN "pending"
                               ELSE delivery[<<n, e>>]
  BY DeliveryPair DEF Enqueue
<1>3. notification' = [notification EXCEPT
                          ![m] = IF devices = {} THEN "cancelled" ELSE "pending"]
  BY DEF Enqueue
<1>4. m \notin Published /\ Published' = Published \union {m}
  BY <1>3 DEF Enqueue, Published, TypeOK
<1>5. Owed' = [Owed EXCEPT ![m] = devices]
  BY <1>1, <1>2 DEF Owed, Active
<1>6. Reached' = Reached
  BY <1>1, <1>2 DEF Reached
<1>7. Promise!Verdict(m, devices) = IF devices = {} THEN "cancelled" ELSE "pending"
  <2>1. (Owed')[m] = devices
    BY <1>5 DEF Owed
  <2>2. QED
    BY <2>1 DEF Promise!Verdict
<1>8. Promise!Publish(m, devices)
  BY <1>3, <1>4, <1>5, <1>6, <1>7 DEF Promise!Publish
<1>9. QED
  BY <1>8

LEMMA StepImplementsPromise ==
  OutboxInv /\ [Next]_vars => [Promise!Next]_promised
<1> SUFFICES ASSUME OutboxInv, [Next]_vars PROVE Promise!Next \/ UNCHANGED promised
  OBVIOUS
<1> USE DEF OutboxInv
<1>1. ASSUME UNCHANGED <<notification, delivery>> PROVE UNCHANGED promised
  BY <1>1, SameVerdictStutters DEF SameVerdict
<1>2. ASSUME NEW e \in Endpoints, RemoveSubscription(e)
      PROVE  Promise!Next \/ UNCHANGED promised
  BY <1>2, RemoveImplementsLeave DEF Promise!Next
<1>3. ASSUME NEW n \in Notifications, Enqueue(n) PROVE Promise!Next
  BY <1>3, EnqueueImplementsPublish DEF Promise!Next
<1>4. CASE Claim
  <2>1. PICK chosen \in SUBSET {d \in Deliveries :
                                  delivery[d] = "pending" \/ d \in ExpiredLeases} :
          delivery' = [d \in Deliveries |->
                          IF d \in chosen THEN "sending"
                          ELSE IF d \in ExpiredLeases THEN "pending" ELSE delivery[d]]
    BY <1>4 DEF Claim, TypeOK
  <2>2. \A d \in Deliveries : SameVerdict(delivery[d], delivery'[d])
    BY <2>1 DEF SameVerdict, ExpiredLeases, Active
  <2>3. QED
    BY <1>4, <2>2, SameVerdictStutters DEF Claim
<1>5. ASSUME NEW d \in Deliveries, RecordRetry(d) PROVE UNCHANGED promised
  BY <1>5, SameVerdictStutters DEF RecordRetry, SameVerdict, Active, TypeOK
<1>6. ASSUME NEW d \in Deliveries, Disable(d) PROVE Promise!Next \/ UNCHANGED promised
  BY <1>1, <1>2, <1>6, DeliveryPair DEF Disable, rowVars
<1>7. ASSUME NEW d \in batch, NEW status \in {"sent", "failed"}, Settle(d, status)
      PROVE  Promise!Next \/ UNCHANGED promised
  BY <1>7, SettleImplementsPromise, DeliveryPair DEF Promise!Next, TypeOK
<1>8. ASSUME NEW d \in Deliveries,
             DispatchExpired(d) \/ RecordSent(d) \/ RecordGone(d) \/ RecordFailed(d)
      PROVE  Promise!Next \/ UNCHANGED promised
  BY <1>1, <1>6, <1>7, <1>8
  DEF DispatchExpired, RecordSent, RecordGone, RecordFailed, rowVars
<1>9. QED
  BY <1>1, <1>2, <1>3, <1>4, <1>5, <1>8
  DEF Next, Finish, Register, Unregister, Send, SendReplyLost, RecordingFails, Stop, Exit,
      Crash, Restart, LeaseRunsOut, BackoffElapses, Lapse, vars, rowVars

(* Whatever leases, batches, retries, crashes and unsubscriptions do, the  *)
(* tables show each event published once, each of its devices settled      *)
(* once, and the verdict that follows, in the same commit.                 *)
THEOREM OutboxKeepsPromise == Spec => KeepsPromise
<1>1. OutboxInv /\ [Next]_vars => [Promise!Next]_(Promise!vars)
  BY StepImplementsPromise DEF promised, Promise!vars
<1>2. QED
  BY <1>1, InitImplementsPromise, OutboxInvariant, PTL DEF Spec, KeepsPromise, Promise!Spec
===============================================================================
