---------------------------- MODULE AccessPromise ----------------------------
(***************************************************************************)
(* What the access budget promises to the sites, without sources, tables,  *)
(* policies, caches or crashes: a visitor enters a site at most once in an *)
(* interval and never while it is closed, requests only where it is        *)
(* inside, and is outside once it was turned away.  What it remembers of   *)
(* being turned away closes the site.                                      *)
(***************************************************************************)
EXTENDS Integers

CONSTANTS
    Sites,
    Interval    \* between two entries

VARIABLES
    time,
    entered,     \* entered[c]: when the visitor entered c last
    closed,      \* closed[c]: until when c stays closed to it
    visit,       \* visit[c]: "away", "inside" or "turned" away
    requesting   \* the sites that are being asked for something

vars == <<time, entered, closed, visit, requesting>>

Init ==
    /\ time = 0
    /\ entered = [c \in Sites |-> -Interval]
    /\ closed = [c \in Sites |-> 0]
    /\ visit = [c \in Sites |-> "away"]
    /\ requesting = {}

Pass ==
    /\ time' = time + 1
    /\ UNCHANGED <<entered, closed, visit, requesting>>

(* The visitor enters a site that is open to it, and asks at once.         *)
Enter(c) ==
    /\ requesting = {} /\ visit[c] = "away"
    /\ time >= entered[c] + Interval /\ time >= closed[c]
    /\ entered' = [entered EXCEPT ![c] = time]
    /\ visit' = [visit EXCEPT ![c] = "inside"]
    /\ requesting' = {c}
    /\ UNCHANGED <<time, closed>>

(* Another request of the same visit.                                      *)
Request(c) ==
    /\ requesting = {} /\ visit[c] = "inside"
    /\ requesting' = {c}
    /\ UNCHANGED <<time, entered, closed, visit>>

(* The request is over.                                                    *)
Rest ==
    /\ requesting # {}
    /\ requesting' = {}
    /\ UNCHANGED <<time, entered, closed, visit>>

(* The site refuses the request: the visit is over.                        *)
TurnAway(c) ==
    /\ requesting = {c}
    /\ visit' = [visit EXCEPT ![c] = "turned"]
    /\ requesting' = {}
    /\ UNCHANGED <<time, entered, closed>>

(* The refusal is remembered, until now or longer.                         *)
Remember(c) ==
    /\ requesting = {} /\ visit[c] = "turned"
    /\ closed' = [closed EXCEPT ![c] = closed'[c]]
    /\ closed'[c] >= time
    /\ UNCHANGED <<time, entered, visit, requesting>>

(* The visitor goes home, whatever it was doing.                           *)
Leave ==
    /\ visit' = [c \in Sites |-> "away"]
    /\ requesting' = {}
    /\ UNCHANGED <<time, entered, closed>>

Next ==
    \/ Pass \/ Rest \/ Leave
    \/ \E c \in Sites : Enter(c) \/ Request(c) \/ TurnAway(c) \/ Remember(c)

Spec == Init /\ [][Next]_vars
===============================================================================
