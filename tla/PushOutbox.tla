------------------------------ MODULE PushOutbox ------------------------------
(***************************************************************************)
(* The Web Push outbox: the tables push_subscriptions, notifications and   *)
(* notification_deliveries (internal/store/sqlite.go), the dispatcher that *)
(* drains them (internal/push/dispatcher.go), the HTTP handlers that       *)
(* register and remove subscriptions, and the process they all run in.     *)
(*                                                                         *)
(* The database has one connection, so each store method is one step.  The *)
(* dispatcher is one goroutine that claims a batch and then, delivery by   *)
(* delivery, calls the push service and records its answer; handlers, the  *)
(* clock and crashes interleave between those steps.                       *)
(*                                                                         *)
(* Instants are abstracted to the comparisons the code makes with the      *)
(* clock: whether a lease has run out, a retry is due, an expiration has   *)
(* passed.  A subscription row is abstracted to the number of the          *)
(* registration (keys and expiration_at) it holds.                         *)
(***************************************************************************)
EXTENDS Naturals, FiniteSets

CONSTANTS
    NotificationCount,  \* how many events are ever enqueued
    Endpoints,          \* the devices' push endpoints
    BatchLimit,         \* deliveries per claim (25 in dispatcher.go)
    MaxAttempts,        \* Dispatcher.maxAttempt (5)
    MaxRegistrations,   \* bound: registrations ever accepted
    MaxFaults           \* bound: crashes, failed writes and lost replies

ASSUME OutboxAssumption ==
    /\ NotificationCount \in Nat
    /\ BatchLimit \in Nat \ {0}
    /\ MaxAttempts \in Nat \ {0}
    /\ MaxRegistrations \in Nat
    /\ MaxFaults \in Nat

Notifications == 1..NotificationCount
Deliveries == Notifications \X Endpoints
Registrations == 1..MaxRegistrations

VARIABLES
    \* push_subscriptions
    subscription,   \* subscription[e]: the registration in e's row, 0 = no row
    registrations,  \* how many registrations the API has accepted
    lapsed,         \* registrations whose expiration_at has passed
    \* notifications and notification_deliveries
    notification,   \* notification[n]: the status column, "none" = no row
    delivery,       \* delivery[d]: the status column, "none" = no row
    attempts,       \* attempts[d]: attempt_count
    linked,         \* deliveries whose subscription_id is not NULL
    notDue,         \* deliveries whose next_attempt_at is in the future
    leased,         \* deliveries whose lease_until is in the future
    \* the process and its dispatcher
    process,        \* "up", "stopping" (context cancelled) or "down"
    batch,          \* deliveries claimed and not dispatched yet
    snapshot,       \* snapshot[d]: the registration read when d was claimed
    answer,         \* answer[d]: the push service's answer, not recorded yet
    \* observers
    accepted,       \* accepted[d]: how often the push service accepted d
    faults          \* crashes, failed writes and lost replies so far

subscriptionVars == <<subscription, registrations, lapsed>>
rowVars == <<notification, delivery, attempts, linked, notDue, leased>>
dispatcherVars == <<batch, snapshot, answer>>
vars == <<subscriptionVars, rowVars, process, dispatcherVars, accepted, faults>>

Active == {"pending", "sending"}
Settled == {"sent", "failed", "cancelled"}
Answers == {"accepted", "gone", "transient", "permanent"}

-------------------------------------------------------------------------------
(* Operators whose name starts with Bad are deliberate mistakes: no action *)
(* uses them; each shows that some property would notice that mistake.     *)
BadRollUpFirst(n, rows) ==
    LET statuses == {rows[<<n, e>>] : e \in Endpoints} IN
    IF statuses \intersect Active # {} THEN CHOOSE s \in statuses : s \in Active
    ELSE IF "sent" \in statuses THEN "sent" ELSE "failed"

BadRollUpAll(n, rows) ==
    LET statuses == {rows[<<n, e>>] : e \in Endpoints} IN
    IF statuses \intersect Active # {} THEN notification[n]
    ELSE IF statuses = {"sent"} THEN "sent" ELSE "failed"

(* updateNotificationByIDTx: the notification keeps its status while a     *)
(* delivery is active, then becomes "sent" if any delivery was, else       *)
(* "failed".                                                               *)
RollUp(n, rows) ==
    LET statuses == {rows[<<n, e>>] : e \in Endpoints} IN
    IF statuses \intersect Active # {} THEN notification[n]
    ELSE IF "sent" \in statuses THEN "sent" ELSE "failed"

BadRemoveSubscription(e) ==
    LET cancelled == {d \in linked : d[2] = e /\ delivery[d] = "pending"}
        rows == [d \in Deliveries |->
                    IF d \in cancelled THEN "cancelled" ELSE delivery[d]] IN
    /\ delivery' = rows
    /\ leased' = leased \ cancelled
    /\ linked' = {d \in linked : d[2] # e}
    /\ subscription' = [subscription EXCEPT ![e] = 0]
    /\ notification' = [n \in Notifications |->
                          IF <<n, e>> \in cancelled THEN RollUp(n, rows)
                          ELSE notification[n]]
    /\ UNCHANGED <<registrations, lapsed, attempts, notDue>>

(* disablePushSubscriptionTx: cancel the row's active deliveries, delete   *)
(* the row (which nulls subscription_id) and roll up the events touched.   *)
RemoveSubscription(e) ==
    LET cancelled == {d \in linked : d[2] = e /\ delivery[d] \in Active}
        rows == [d \in Deliveries |->
                    IF d \in cancelled THEN "cancelled" ELSE delivery[d]] IN
    /\ delivery' = rows
    /\ leased' = leased \ cancelled
    /\ linked' = {d \in linked : d[2] # e}
    /\ subscription' = [subscription EXCEPT ![e] = 0]
    /\ notification' = [n \in Notifications |->
                          IF <<n, e>> \in cancelled THEN RollUp(n, rows)
                          ELSE notification[n]]
    /\ UNCHANGED <<registrations, lapsed, attempts, notDue>>

BadSettle(d, status) ==
    /\ delivery' = [delivery EXCEPT ![d] = IF @ = "sending" THEN status ELSE @]
    /\ leased' = IF delivery[d] = "sending" THEN leased \ {d} ELSE leased
    /\ UNCHANGED <<subscriptionVars, notification, attempts, linked, notDue>>

(* The row of d leaves "sending" with a final status, in one transaction   *)
(* with the roll-up of its notification.                                   *)
Settle(d, status) ==
    LET rows == [delivery EXCEPT ![d] = IF @ = "sending" THEN status ELSE @] IN
    /\ delivery' = rows
    /\ leased' = IF delivery[d] = "sending" THEN leased \ {d} ELSE leased
    /\ notification' = [notification EXCEPT ![d[1]] = RollUp(d[1], rows)]
    /\ UNCHANGED <<subscriptionVars, attempts, linked, notDue>>

BadLeaves(d) ==
    /\ answer' = [answer EXCEPT ![d] = "none"]
    /\ UNCHANGED <<batch, snapshot>>

(* The dispatcher is finished with d and moves to the next delivery.       *)
Leaves(d) ==
    /\ batch' = batch \ {d}
    /\ snapshot' = [snapshot EXCEPT ![d] = 0]
    /\ answer' = [answer EXCEPT ![d] = "none"]

(* The dispatcher works through the batch in the order of the claim, which *)
(* is the order of the delivery ids: older events first.                   *)
IsNext(d) == d \in batch /\ \A other \in batch : d[1] <= other[1]

Waiting(d) == answer[d] = "none"

(* DispatchPending returns before the next tick claims again.              *)
BetweenBatches == batch = {}

(* Rows a dead dispatcher left in "sending", once their lease is over.     *)
BadExpiredLeases == {}
ExpiredLeases == {d \in Deliveries : delivery[d] = "sending" /\ d \notin leased}

(* dispatch: a transient failure is retried below the attempt limit.       *)
BadMayRetry(d) == attempts[d] <= MaxAttempts
MayRetry(d) == attempts[d] < MaxAttempts

-------------------------------------------------------------------------------
Init ==
    /\ subscription = [e \in Endpoints |-> 0]
    /\ registrations = 0
    /\ lapsed = {}
    /\ notification = [n \in Notifications |-> "none"]
    /\ delivery = [d \in Deliveries |-> "none"]
    /\ attempts = [d \in Deliveries |-> 0]
    /\ linked = {}
    /\ notDue = {}
    /\ leased = {}
    /\ process = "up"
    /\ batch = {}
    /\ snapshot = [d \in Deliveries |-> 0]
    /\ answer = [d \in Deliveries |-> "none"]
    /\ accepted = [d \in Deliveries |-> 0]
    /\ faults = 0

(* PUT /push/subscriptions: a new row, or new keys and expiration in the   *)
(* row the endpoint already has.                                           *)
Register(e) ==
    /\ process # "down"
    /\ registrations < MaxRegistrations
    /\ registrations' = registrations + 1
    /\ subscription' = [subscription EXCEPT ![e] = registrations + 1]
    /\ UNCHANGED <<lapsed, rowVars, process, dispatcherVars, accepted, faults>>

(* DELETE /push/subscriptions.                                             *)
Unregister(e) ==
    /\ process # "down"
    /\ subscription[e] # 0
    /\ RemoveSubscription(e)
    /\ UNCHANGED <<process, dispatcherVars, accepted, faults>>

(* enqueueListingNotification, past its gates: the event, and a delivery   *)
(* for every subscription that has not expired, in one transaction.  With  *)
(* no such subscription the event is cancelled.  Ids grow.                 *)
Enqueue(n) ==
    LET devices == {e \in Endpoints : subscription[e] # 0 /\ subscription[e] \notin lapsed}
        rows == {d \in Deliveries : d[1] = n /\ d[2] \in devices} IN
    /\ process # "down"
    /\ notification[n] = "none"
    /\ \A m \in 1..(n - 1) : notification[m] # "none"
    /\ notification' = [notification EXCEPT
                          ![n] = IF devices = {} THEN "cancelled" ELSE "pending"]
    /\ delivery' = [d \in Deliveries |-> IF d \in rows THEN "pending" ELSE delivery[d]]
    /\ linked' = linked \union rows
    /\ UNCHANGED <<subscriptionVars, attempts, notDue, leased, process,
                   dispatcherVars, accepted, faults>>

(* ClaimPushDeliveries: free the expired leases, then lease the oldest due *)
(* deliveries (the join needs a subscription row), up to the limit.        *)
Claim ==
    LET due == {d \in linked \ notDue : delivery[d] = "pending" \/ d \in ExpiredLeases} IN
    /\ process = "up"
    /\ BetweenBatches
    /\ \E chosen \in SUBSET due :
        /\ Cardinality(chosen) = IF Cardinality(due) < BatchLimit
                                 THEN Cardinality(due) ELSE BatchLimit
        /\ \A d \in chosen, later \in due \ chosen : d[1] <= later[1]
        /\ delivery' = [d \in Deliveries |->
                          IF d \in chosen THEN "sending"
                          ELSE IF d \in ExpiredLeases THEN "pending" ELSE delivery[d]]
        /\ attempts' = [d \in Deliveries |->
                          IF d \in chosen THEN attempts[d] + 1 ELSE attempts[d]]
        /\ leased' = leased \union chosen
        /\ batch' = chosen
        /\ snapshot' = [d \in Deliveries |-> IF d \in chosen THEN subscription[d[2]] ELSE 0]
    /\ UNCHANGED <<subscriptionVars, notification, linked, notDue, process,
                   answer, accepted, faults>>

(* DisablePushSubscription: by delivery id; a delivery that lost its       *)
(* subscription meanwhile makes the call fail before it changes anything.  *)
Disable(d) ==
    \/ d \in linked /\ RemoveSubscription(d[2])
    \/ d \notin linked /\ UNCHANGED <<subscriptionVars, rowVars>>

(* dispatch, first branch: the expiration read at claim time has passed,   *)
(* so nothing is sent and the subscription is disabled.                    *)
DispatchExpired(d) ==
    /\ process # "down" /\ IsNext(d) /\ \A other \in batch : Waiting(other)
    /\ snapshot[d] \in lapsed
    /\ Disable(d)
    /\ Leaves(d)
    /\ UNCHANGED <<process, accepted, faults>>

(* dispatch: the network call, outside any transaction.  Once the context  *)
(* is cancelled the client returns an error without sending.               *)
Send(d, result) ==
    /\ process # "down" /\ IsNext(d) /\ \A other \in batch : Waiting(other)
    /\ snapshot[d] \notin lapsed
    /\ process = "stopping" => result = "transient"
    /\ answer' = [answer EXCEPT ![d] = result]
    /\ accepted' = [accepted EXCEPT ![d] = IF result = "accepted" THEN @ + 1 ELSE @]
    /\ UNCHANGED <<subscriptionVars, rowVars, process, batch, snapshot, faults>>

(* The push service accepts the message but its reply is lost (timeout,    *)
(* reset, shutdown): the dispatcher sees a network error.                  *)
SendReplyLost(d) ==
    /\ process = "up" /\ IsNext(d) /\ \A other \in batch : Waiting(other)
    /\ snapshot[d] \notin lapsed
    /\ faults < MaxFaults
    /\ faults' = faults + 1
    /\ answer' = [answer EXCEPT ![d] = "transient"]
    /\ accepted' = [accepted EXCEPT ![d] = @ + 1]
    /\ UNCHANGED <<subscriptionVars, rowVars, process, batch, snapshot>>

(* MarkPushDeliverySent: a NULL subscription_id makes the scan fail and    *)
(* nothing is recorded.                                                    *)
RecordSent(d) ==
    /\ process # "down" /\ d \in batch /\ answer[d] = "accepted"
    /\ \/ d \in linked /\ Settle(d, "sent")
       \/ d \notin linked /\ UNCHANGED <<subscriptionVars, rowVars>>
    /\ Leaves(d)
    /\ UNCHANGED <<process, accepted, faults>>

(* 404 or 410.                                                             *)
RecordGone(d) ==
    /\ process # "down" /\ d \in batch /\ answer[d] = "gone"
    /\ Disable(d)
    /\ Leaves(d)
    /\ UNCHANGED <<process, accepted, faults>>

BadRecordRetry(d) ==
    /\ process # "down" /\ d \in batch /\ answer[d] = "transient"
    /\ MayRetry(d)
    /\ delivery' = [delivery EXCEPT ![d] = "pending"]
    /\ notDue' = notDue \union {d}
    /\ leased' = leased \ {d}
    /\ Leaves(d)
    /\ UNCHANGED <<subscriptionVars, notification, attempts, linked, process,
                   accepted, faults>>

(* RetryPushDelivery: back to pending, due later; an error when the row is *)
(* no longer "sending".                                                    *)
RecordRetry(d) ==
    /\ process # "down" /\ d \in batch /\ answer[d] = "transient"
    /\ MayRetry(d)
    /\ \/ /\ delivery[d] = "sending"
          /\ delivery' = [delivery EXCEPT ![d] = "pending"]
          /\ notDue' = notDue \union {d}
          /\ leased' = leased \ {d}
       \/ delivery[d] # "sending" /\ UNCHANGED <<delivery, notDue, leased>>
    /\ Leaves(d)
    /\ UNCHANGED <<subscriptionVars, notification, attempts, linked, process,
                   accepted, faults>>

(* FailPushDelivery: a permanent answer, or a transient one too many.      *)
RecordFailed(d) ==
    /\ process # "down" /\ d \in batch
    /\ \/ answer[d] = "permanent"
       \/ answer[d] = "transient" /\ ~MayRetry(d)
    /\ Settle(d, "failed")
    /\ Leaves(d)
    /\ UNCHANGED <<process, accepted, faults>>

(* The write that should record the outcome fails (database error): it is  *)
(* rolled back, logged, and the dispatcher moves on.                       *)
RecordingFails(d) ==
    /\ process # "down" /\ IsNext(d)
    /\ \/ ~Waiting(d)
       \/ snapshot[d] \in lapsed /\ \A other \in batch : Waiting(other)
    /\ faults < MaxFaults
    /\ faults' = faults + 1
    /\ Leaves(d)
    /\ UNCHANGED <<subscriptionVars, rowVars, process, accepted>>

-------------------------------------------------------------------------------
(* SIGTERM: the context is cancelled; the batch in hand is still finished. *)
Stop ==
    /\ process = "up"
    /\ process' = "stopping"
    /\ UNCHANGED <<subscriptionVars, rowVars, dispatcherVars, accepted, faults>>

(* The dispatcher returns once its batch is done, then the process ends.   *)
Exit ==
    /\ process = "stopping" /\ batch = {}
    /\ process' = "down"
    /\ UNCHANGED <<subscriptionVars, rowVars, dispatcherVars, accepted, faults>>

(* The process dies, or the shutdown deadline passes and it exits: what    *)
(* the dispatcher holds in memory is gone, the tables stay.                *)
Crash ==
    /\ process # "down"
    /\ faults < MaxFaults
    /\ faults' = faults + 1
    /\ process' = "down"
    /\ batch' = {}
    /\ snapshot' = [d \in Deliveries |-> 0]
    /\ answer' = [d \in Deliveries |-> "none"]
    /\ UNCHANGED <<subscriptionVars, rowVars, accepted>>

Restart ==
    /\ process = "down"
    /\ process' = "up"
    /\ UNCHANGED <<subscriptionVars, rowVars, dispatcherVars, accepted, faults>>

(* The clock passes a lease_until, a next_attempt_at, an expiration_at.    *)
LeaseRunsOut(d) ==
    /\ d \in leased
    /\ leased' = leased \ {d}
    /\ UNCHANGED <<subscriptionVars, notification, delivery, attempts, linked, notDue,
                   process, dispatcherVars, accepted, faults>>

BackoffElapses(d) ==
    /\ d \in notDue
    /\ notDue' = notDue \ {d}
    /\ UNCHANGED <<subscriptionVars, notification, delivery, attempts, linked, leased,
                   process, dispatcherVars, accepted, faults>>

Lapse(r) ==
    /\ r <= registrations /\ r \notin lapsed
    /\ lapsed' = lapsed \union {r}
    /\ UNCHANGED <<subscription, registrations, rowVars, process, dispatcherVars,
                   accepted, faults>>

Finish(d) ==
    RecordSent(d) \/ RecordGone(d) \/ RecordRetry(d) \/ RecordFailed(d)

Next ==
    \/ \E e \in Endpoints : Register(e)
    \/ \E e \in Endpoints : Unregister(e)
    \/ \E n \in Notifications : Enqueue(n)
    \/ Claim
    \/ \E d \in Deliveries : DispatchExpired(d)
    \/ \E d \in Deliveries, result \in Answers : Send(d, result)
    \/ \E d \in Deliveries : SendReplyLost(d)
    \/ \E d \in Deliveries : Finish(d)
    \/ \E d \in Deliveries : RecordingFails(d)
    \/ Stop \/ Exit \/ Crash \/ Restart
    \/ \E d \in Deliveries : LeaseRunsOut(d)
    \/ \E d \in Deliveries : BackoffElapses(d)
    \/ \E r \in Registrations : Lapse(r)

Spec == Init /\ [][Next]_vars

(* The ticker and the restart policy keep the dispatcher going and the     *)
(* clock advances.  Claim is strongly fair because a shutdown disables it: *)
(* the dispatcher claims as soon as it starts, before its first tick.      *)
Fairness ==
    /\ SF_vars(Claim)
    /\ \A d \in Deliveries :
        /\ WF_vars(DispatchExpired(d) \/ (\E result \in Answers : Send(d, result)))
        /\ WF_vars(Finish(d))
        /\ WF_vars(LeaseRunsOut(d))
        /\ WF_vars(BackoffElapses(d))
    /\ WF_vars(Exit)
    /\ WF_vars(Restart)

FairSpec == Spec /\ Fairness

-------------------------------------------------------------------------------
(* What the tables say about the promise: which events exist, which        *)
(* devices wait for them, which were reached.                              *)
Published == {n \in Notifications : notification[n] # "none"}
Owed == [n \in Notifications |-> {e \in Endpoints : delivery[<<n, e>>] \in Active}]
Reached == [n \in Notifications |-> {e \in Endpoints : delivery[<<n, e>>] = "sent"}]

Promise == INSTANCE NotificationPromise WITH
    published <- Published, owed <- Owed, reached <- Reached, outcome <- notification

-------------------------------------------------------------------------------
(* The columns and the dispatcher's memory hold the values their types     *)
(* allow.                                                                  *)
TypeOK ==
    /\ registrations \in 0..MaxRegistrations
    /\ subscription \in [Endpoints -> 0..registrations]
    /\ lapsed \subseteq Registrations
    /\ notification \in [Notifications -> {"none", "pending"} \union Settled]
    /\ delivery \in [Deliveries -> {"none"} \union Active \union Settled]
    /\ attempts \in [Deliveries -> Nat]
    /\ linked \subseteq Deliveries
    /\ notDue \subseteq Deliveries
    /\ leased \subseteq Deliveries
    /\ process \in {"up", "stopping", "down"}
    /\ batch \subseteq Deliveries
    /\ snapshot \in [Deliveries -> 0..MaxRegistrations]
    /\ answer \in [Deliveries -> {"none"} \union Answers]
    /\ accepted \in [Deliveries -> Nat]
    /\ faults \in 0..MaxFaults

(* What a notification's status should be, given its delivery rows.        *)
HasRow(n, rows) == \E e \in Endpoints : rows[<<n, e>>] # "none"
HasActive(n, rows) == \E e \in Endpoints : rows[<<n, e>>] \in Active
HasSent(n, rows) == \E e \in Endpoints : rows[<<n, e>>] = "sent"

Summarises(n, status, rows) ==
    /\ status = "pending" <=> HasActive(n, rows)
    /\ status = "sent" <=> ~HasActive(n, rows) /\ HasSent(n, rows)
    /\ status \in {"none", "cancelled"} <=> ~HasRow(n, rows)

(* Every delivery that still has to be sent points at an existing          *)
(* subscription row.  ClaimPushDeliveries joins on that row, so a delivery *)
(* that kept its status while its subscription disappeared would stay      *)
(* unsent, and its notification "pending", for ever.                       *)
ActiveDeliveriesAreClaimable ==
    \A d \in Deliveries : delivery[d] \in Active =>
        d \in linked /\ subscription[d[2]] # 0

(* The notification's own status agrees with its deliveries at every       *)
(* commit, whichever of the five writers got there last: pending exactly   *)
(* while a delivery is active, sent exactly when all are settled and one   *)
(* was sent, cancelled exactly when there was nobody to notify.            *)
NotificationSummarisesDeliveries ==
    \A n \in Notifications : Summarises(n, notification[n], delivery)

(* The transport is at least once, and no worse than the faults: a device  *)
(* is handed the same event again only after a crash, a failed write or a  *)
(* lost reply, at most once for each.                                      *)
DuplicatesOnlyFromFaults ==
    \A d \in Deliveries : accepted[d] <= faults + 1

(* The limit on attempts is overrun only by faults, since a claim counts   *)
(* the attempt before it is made.                                          *)
AttemptsBounded ==
    \A d \in Deliveries : attempts[d] <= MaxAttempts + faults

(* A settled delivery never becomes active again: an unsubscription that   *)
(* overtakes the dispatcher is not undone by the answer it then records.   *)
SettledStaysSettled ==
    [][\A d \in Deliveries : delivery[d] \in Settled => delivery'[d] = delivery[d]]_vars

(* The push service is never called for a delivery whose final answer the  *)
(* table already holds.  (A delivery cancelled while it waits in the       *)
(* claimed batch is still sent: the batch is not read again.)              *)
NoCallAfterFinalAnswer ==
    [][\A d \in Deliveries : accepted'[d] # accepted[d] =>
          delivery[d] \in {"sending", "cancelled"}]_vars

(* Documented in docs/architecture.md: the dispatcher removes a            *)
(* subscription that the push service reports gone or that has expired.    *)
(* A row therefore keeps its registration while it is unexpired, unless    *)
(* the push service answered 404/410 or the user unsubscribed.             *)
OnlyExpiredSubscriptionsExpire ==
    [][\A e \in Endpoints :
          (subscription[e] # 0 /\ subscription'[e] = 0 /\ batch' # batch /\
           \A d \in batch : answer[d] # "gone") => subscription[e] \in lapsed]_vars

(* The outbox implements the promise: whatever leases, batches, retries,   *)
(* crashes and unsubscriptions do, the tables show an event published      *)
(* once, each device settled once, and the matching verdict.               *)
KeepsPromise == Promise!Spec

(* Every notification that is waiting is eventually settled: no delivery   *)
(* is lost with a dead dispatcher, starved by newer ones or retried for    *)
(* ever.                                                                   *)
EveryNotificationSettles == Promise!Settles
===============================================================================
