------------------------- MODULE NotificationPromise -------------------------
(***************************************************************************)
(* What the Web Push outbox promises about one notification event,         *)
(* without leases, retries, batches or restarts.  An event is published to *)
(* a fixed set of devices; each device is settled once, by being reached   *)
(* or by being given up on; and the event's own status column is always    *)
(* the summary of its devices, written in the same commit.                 *)
(***************************************************************************)
CONSTANTS Notifications, Endpoints

VARIABLES
    published,   \* the notification events that exist
    owed,        \* owed[n]: the devices still waiting for event n
    reached,     \* reached[n]: the devices recorded as reached by event n
    outcome      \* outcome[n]: the event's own status

vars == <<published, owed, reached, outcome>>

(* The status an event must show, given what happened to its devices.      *)
(* An event published to nobody is cancelled on the spot.                  *)
Verdict(n, addressed) ==
    IF addressed = {} THEN "cancelled"
    ELSE IF owed'[n] # {} THEN "pending"
    ELSE IF reached'[n] # {} THEN "sent"
    ELSE "failed"

Init ==
    /\ published = {}
    /\ owed = [n \in Notifications |-> {}]
    /\ reached = [n \in Notifications |-> {}]
    /\ outcome = [n \in Notifications |-> "none"]

(* An event is published once, to the devices known at that moment.        *)
Publish(n, devices) ==
    /\ n \notin published
    /\ published' = published \union {n}
    /\ owed' = [owed EXCEPT ![n] = devices]
    /\ UNCHANGED reached
    /\ outcome' = [outcome EXCEPT ![n] = Verdict(n, devices)]

(* One waiting device is recorded as reached.                              *)
Reach(n, e) ==
    /\ e \in owed[n]
    /\ owed' = [owed EXCEPT ![n] = @ \ {e}]
    /\ reached' = [reached EXCEPT ![n] = @ \union {e}]
    /\ outcome' = [outcome EXCEPT ![n] = Verdict(n, {e})]
    /\ UNCHANGED published

(* One device is given up on for one event (the push service refused it).  *)
GiveUp(n, e) ==
    /\ e \in owed[n]
    /\ owed' = [owed EXCEPT ![n] = @ \ {e}]
    /\ outcome' = [outcome EXCEPT ![n] = Verdict(n, {e})]
    /\ UNCHANGED <<published, reached>>

(* A device leaves: it is given up on for every event it was waiting for,  *)
(* and no other event changes.                                             *)
Leave(e) ==
    /\ \E n \in Notifications : e \in owed[n]
    /\ owed' = [n \in Notifications |-> owed[n] \ {e}]
    /\ outcome' = [n \in Notifications |->
                      IF e \in owed[n] THEN Verdict(n, {e}) ELSE outcome[n]]
    /\ UNCHANGED <<published, reached>>

Next ==
    \/ \E n \in Notifications, devices \in SUBSET Endpoints : Publish(n, devices)
    \/ \E n \in Notifications, e \in Endpoints : Reach(n, e) \/ GiveUp(n, e)
    \/ \E e \in Endpoints : Leave(e)

Spec == Init /\ [][Next]_vars

(* The part of the promise that needs time: a published event leaves       *)
(* "pending" eventually.                                                   *)
Settles == \A n \in Notifications : (outcome[n] = "pending") ~> (outcome[n] # "pending")
===============================================================================
