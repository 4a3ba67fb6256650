------------------------------ MODULE SourceAccess ------------------------------
(***************************************************************************)
(* The access budget of the sites that scans visit.  Sources are grouped   *)
(* into scopes; a scan reserves a scope once, asks robots.txt where the    *)
(* policy says so, fetches source after source and finally records which   *)
(* scopes answered well (internal/orchestrator/service.go).  The budget is *)
(* the table source_access_states (internal/store/sqlite.go), the robots   *)
(* cache is memory of the process (internal/scraper/robots.go).  Scans are *)
(* exclusive (AnalysisPipeline), so there is one; time may pass between    *)
(* any two steps and the process may die between any two.                  *)
(***************************************************************************)
EXTENDS Integers

CONSTANTS
    SourceCount,  \* sources are visited in the order 1..SourceCount
    Scopes,
    ScopeOf,      \* ScopeOf[s]: policy.Scope of source s
    AskRobots,    \* scopes with access mode "robots"
    Typed,        \* sources whose adapter reports refusals as AccessError
    Interval, Base, Maximum,  \* the policy's durations
    Delays,       \* what a site may ask for in Retry-After, 0 = nothing
    RobotsTTL,    \* robotsCacheTTL
    MaxTime,      \* bound on the clock
    MaxFaults     \* bound on crashes and failed writes

ASSUME AccessAssumption ==
    /\ SourceCount \in Nat
    /\ ScopeOf \in [1..SourceCount -> Scopes]
    /\ Interval \in Nat \ {0} /\ Base \in Nat \ {0}
    /\ Maximum \in Nat /\ Maximum >= Base
    /\ Delays \subseteq Nat
    /\ RobotsTTL \in Nat \ {0}
    /\ MaxTime \in Nat /\ MaxFaults \in Nat

Sources == 1..SourceCount

VARIABLES
    now,
    nextAllowed,   \* next_allowed_at of each scope, 0 = NULL
    blockedUntil,  \* blocked_until, 0 = NULL
    failures,      \* failure_count
    robots,        \* robots[c]: cached answer and the time it was fetched
    phase,         \* "idle", "source", "asking", "fetching", "refused" or "closing"
    source,        \* the source the scan is at
    state,         \* state[c]: accessStates of the scan
    retryAfter,    \* Retry-After of the refusal being recorded
    \* observers
    granted,       \* time of the scope's last reservation
    banned,        \* the latest moment a recorded refusal keeps us away until
    retryAt,       \* what the last report told the user about c, 0 = nothing
    forbidden,     \* since when the site's robots.txt disallows, -1 = it does not
    faults

tableVars == <<nextAllowed, blockedUntil, failures>>
scanVars == <<phase, source, state, retryAfter>>
observers == <<granted, banned, retryAt>>
vars == <<now, tableVars, robots, scanVars, observers, forbidden, faults>>

Later(a, b) == IF a >= b THEN a ELSE b
Unknown == [c \in Scopes |-> "unknown"]
NotCached == [verdict |-> "none", at |-> 0]
Here == ScopeOf[source]

-------------------------------------------------------------------------------
(* Operators whose name starts with Bad are deliberate mistakes: no action *)
(* uses them.                                                              *)

(* Only the interval is looked at.                                         *)
BadFirstAllowed(c) == nextAllowed[c]

(* latestStoredTime: the first moment at which the scope may be entered.   *)
FirstAllowed(c) == Later(nextAllowed[c], blockedUntil[c])

(* exponentialCooldown: doubled for every failure after the first, without *)
(* ever exceeding the maximum on the way.                                  *)
ExponentialCooldown[n \in Nat \ {0}] ==
    IF n = 1 THEN Base
    ELSE LET cooldown == ExponentialCooldown[n - 1] IN
         IF cooldown > Maximum \div 2 THEN Maximum ELSE 2 * cooldown

(* The next source, or the end of the loop.                                *)
Advance ==
    /\ source' = source + 1
    /\ phase' = IF source = SourceCount THEN "closing" ELSE "source"

(* Every scope that was fetched from is cleared.                           *)
BadEarned(c) == state[c] \in {"fetched", "refused"}

(* A scope's record is cleared when it was reserved, a fetch succeeded and *)
(* nothing in it was refused.                                              *)
Earned(c) == state[c] = "fetched"

-------------------------------------------------------------------------------
Tick ==
    /\ now < MaxTime
    /\ now' = now + 1
    /\ UNCHANGED <<tableVars, robots, scanVars, observers, forbidden, faults>>

(* The site edits its robots.txt.                                          *)
EditRobots(c) ==
    /\ c \in AskRobots
    /\ forbidden' = [forbidden EXCEPT ![c] = IF @ = -1 THEN now ELSE -1]
    /\ UNCHANGED <<now, tableVars, robots, scanVars, observers, faults>>

StartScan ==
    /\ phase = "idle"
    /\ SourceCount > 0
    /\ phase' = "source"
    /\ source' = 1
    /\ state' = Unknown
    /\ UNCHANGED <<now, tableVars, robots, retryAfter, observers, forbidden, faults>>

(* Go on to robots.txt or to the page itself.                              *)
Proceed(c) ==
    /\ phase' = IF c \in AskRobots THEN "asking" ELSE "fetching"
    /\ UNCHANGED source

(* ReserveSourceAccess grants the reservation.                             *)
Grant(c) ==
    /\ nextAllowed' = [nextAllowed EXCEPT ![c] = now + Interval]
    /\ granted' = [granted EXCEPT ![c] = now]
    /\ retryAt' = [retryAt EXCEPT ![c] = 0]
    /\ state' = [state EXCEPT ![c] = "open"]
    /\ Proceed(c)
    /\ UNCHANGED <<blockedUntil, failures, banned>>

(* ReserveSourceAccess says when to come back.                             *)
Deny(c) ==
    /\ state' = [state EXCEPT ![c] = "denied"]
    /\ retryAt' = [retryAt EXCEPT ![c] = FirstAllowed(c)]
    /\ Advance
    /\ UNCHANGED <<tableVars, granted, banned>>

(* The first source of a scope in this scan reserves it for all of them.   *)
Reserve ==
    /\ phase = "source" /\ state[Here] = "unknown"
    /\ IF now >= FirstAllowed(Here) THEN Grant(Here) ELSE Deny(Here)
    /\ UNCHANGED <<now, robots, retryAfter, forbidden, faults>>

(* The reservation cannot be written: the scope is left alone.             *)
ReserveFails ==
    /\ phase = "source" /\ state[Here] = "unknown"
    /\ faults < MaxFaults
    /\ faults' = faults + 1
    /\ state' = [state EXCEPT ![Here] = "denied"]
    /\ Advance
    /\ UNCHANGED <<now, tableVars, robots, retryAfter, observers, forbidden>>

(* A later source skips a refused scope only when it was denied at first.  *)
BadEnterAgain ==
    /\ phase = "source" /\ state[Here] # "unknown"
    /\ IF state[Here] # "denied" THEN Proceed(Here) ELSE Advance
    /\ UNCHANGED <<now, tableVars, robots, state, retryAfter, observers, forbidden, faults>>

(* A later source of a scope: its decision stands for the whole scan.      *)
EnterAgain ==
    /\ phase = "source" /\ state[Here] # "unknown"
    /\ IF state[Here] \in {"open", "fetched"} THEN Proceed(Here) ELSE Advance
    /\ UNCHANGED <<now, tableVars, robots, state, retryAfter, observers, forbidden, faults>>

(* A cached answer is used for ever.                                       *)
BadCached(c) == robots[c].verdict # "none"

(* HTTPRobotsChecker.cached: an answer is used for less than RobotsTTL.    *)
Cached(c) == robots[c].verdict # "none" /\ now < robots[c].at + RobotsTTL

(* Check: the answer comes from the cache or from the site, which allows   *)
(* (a rule, 404, 410), or denies (a rule, another 4xx) although nothing is *)
(* disallowed.                                                             *)
AskSite(verdict) ==
    /\ phase = "asking"
    /\ IF Cached(Here)
       THEN verdict = robots[Here].verdict /\ UNCHANGED robots
       ELSE /\ verdict = "allow" => forbidden[Here] = -1
            /\ robots' = [robots EXCEPT ![Here] = [verdict |-> verdict, at |-> now]]
    /\ IF verdict = "allow" THEN phase' = "fetching" /\ UNCHANGED source ELSE Advance
    /\ UNCHANGED <<now, tableVars, state, retryAfter, observers, forbidden, faults>>

(* robots.txt cannot be read (network, 5xx, too large): fail closed, and   *)
(* remember nothing.                                                       *)
SiteSilent ==
    /\ phase = "asking" /\ ~Cached(Here)
    /\ robots' = [robots EXCEPT ![Here] = NotCached]
    /\ Advance
    /\ UNCHANGED <<now, tableVars, state, retryAfter, observers, forbidden, faults>>

(* FetchListings succeeds, or fails in a way that is no refusal: an error  *)
(* of the network, of the page, or any status its adapter does not type.   *)
Fetch(ok) ==
    /\ phase = "fetching"
    /\ state' = IF ok THEN [state EXCEPT ![Here] = "fetched"] ELSE state
    /\ Advance
    /\ UNCHANGED <<now, tableVars, robots, retryAfter, observers, forbidden, faults>>

(* 403, 429 or a challenge (AccessError.Protective), maybe with a          *)
(* Retry-After; the scope is closed for the rest of the scan.              *)
Refused(delay) ==
    /\ phase = "fetching" /\ source \in Typed
    /\ phase' = "refused"
    /\ retryAfter' = IF delay = 0 THEN 0 ELSE now + delay
    /\ state' = [state EXCEPT ![Here] = "refused"]
    /\ UNCHANGED <<now, tableVars, robots, source, observers, forbidden, faults>>

(* The time reported is the end of the cooldown.                           *)
BadRecordRefusal ==
    LET n == failures[Here] + 1
        until == Later(now + ExponentialCooldown[n], retryAfter) IN
    /\ phase = "refused"
    /\ failures' = [failures EXCEPT ![Here] = n]
    /\ blockedUntil' = [blockedUntil EXCEPT ![Here] = until]
    /\ banned' = [banned EXCEPT ![Here] = Later(@, until)]
    /\ retryAt' = [retryAt EXCEPT ![Here] = until]
    /\ retryAfter' = 0
    /\ Advance
    /\ UNCHANGED <<now, nextAllowed, robots, state, granted, forbidden, faults>>

(* RecordSourceAccessFailure.                                              *)
RecordRefusal ==
    LET n == failures[Here] + 1
        until == Later(now + ExponentialCooldown[n], retryAfter) IN
    /\ phase = "refused"
    /\ failures' = [failures EXCEPT ![Here] = n]
    /\ blockedUntil' = [blockedUntil EXCEPT ![Here] = until]
    /\ banned' = [banned EXCEPT ![Here] = Later(@, until)]
    /\ retryAt' = [retryAt EXCEPT ![Here] = Later(until, nextAllowed[Here])]
    /\ retryAfter' = 0
    /\ Advance
    /\ UNCHANGED <<now, nextAllowed, robots, state, granted, forbidden, faults>>

(* It cannot be written: only this scan knows of the refusal.              *)
RecordRefusalFails ==
    /\ phase = "refused"
    /\ faults < MaxFaults
    /\ faults' = faults + 1
    /\ retryAfter' = 0
    /\ Advance
    /\ UNCHANGED <<now, tableVars, robots, state, observers, forbidden>>

(* The record of the last attempt goes with that of the refusals.          *)
BadRecordSuccess(c) ==
    /\ phase = "closing" /\ Earned(c)
    /\ failures' = [failures EXCEPT ![c] = 0]
    /\ blockedUntil' = [blockedUntil EXCEPT ![c] = 0]
    /\ nextAllowed' = [nextAllowed EXCEPT ![c] = 0]
    /\ state' = [state EXCEPT ![c] = "open"]
    /\ UNCHANGED <<now, robots, phase, source, retryAfter, observers, forbidden, faults>>

(* RecordSourceAccessSuccess, scope by scope at the end of the scan: the   *)
(* refusals are forgotten, the interval since the last attempt is not.     *)
RecordSuccess(c) ==
    /\ phase = "closing" /\ Earned(c)
    /\ failures' = [failures EXCEPT ![c] = 0]
    /\ blockedUntil' = [blockedUntil EXCEPT ![c] = 0]
    /\ state' = [state EXCEPT ![c] = "open"]
    /\ UNCHANGED <<now, nextAllowed, robots, phase, source, retryAfter, observers, forbidden, faults>>

EndScan ==
    /\ phase = "closing" /\ \A c \in Scopes : ~Earned(c)
    /\ phase' = "idle"
    /\ source' = 0
    /\ state' = Unknown
    /\ UNCHANGED <<now, tableVars, robots, retryAfter, observers, forbidden, faults>>

(* The process dies and is started again; the robots cache is empty.       *)
Crash ==
    /\ faults < MaxFaults
    /\ faults' = faults + 1
    /\ phase' = "idle" /\ source' = 0 /\ state' = Unknown /\ retryAfter' = 0
    /\ robots' = [c \in Scopes |-> NotCached]
    /\ UNCHANGED <<now, tableVars, observers, forbidden>>

-------------------------------------------------------------------------------
Init ==
    /\ now = 0
    /\ nextAllowed = [c \in Scopes |-> 0]
    /\ blockedUntil = [c \in Scopes |-> 0]
    /\ failures = [c \in Scopes |-> 0]
    /\ robots = [c \in Scopes |-> NotCached]
    /\ phase = "idle" /\ source = 0 /\ state = Unknown /\ retryAfter = 0
    /\ granted = [c \in Scopes |-> -Interval]
    /\ banned = [c \in Scopes |-> 0]
    /\ retryAt = [c \in Scopes |-> 0]
    /\ forbidden = [c \in Scopes |-> -1]
    /\ faults = 0

ScanStep ==
    \/ Reserve \/ ReserveFails \/ EnterAgain
    \/ \E verdict \in {"allow", "deny"} : AskSite(verdict)
    \/ SiteSilent
    \/ \E ok \in BOOLEAN : Fetch(ok)
    \/ \E delay \in Delays : Refused(delay)
    \/ RecordRefusal \/ RecordRefusalFails
    \/ \E c \in Scopes : RecordSuccess(c)
    \/ EndScan

Next ==
    \/ Tick \/ StartScan \/ ScanStep \/ Crash
    \/ \E c \in Scopes : EditRobots(c)

Spec == Init /\ [][Next]_vars

-------------------------------------------------------------------------------
(* The table, the cache and the scan keep their types, and a scan that is  *)
(* at a source is at one of the configured ones.                           *)
TypeOK ==
    /\ now \in 0..MaxTime
    /\ nextAllowed \in [Scopes -> Nat]
    /\ blockedUntil \in [Scopes -> Nat]
    /\ failures \in [Scopes -> Nat]
    /\ robots \in [Scopes -> [verdict : {"none", "allow", "deny"}, at : Nat]]
    /\ phase \in {"idle", "source", "asking", "fetching", "refused", "closing"}
    /\ source \in 0..(SourceCount + 1)
    /\ phase \in {"source", "asking", "fetching", "refused"} => source \in Sources
    /\ state \in [Scopes -> {"unknown", "denied", "open", "fetched", "refused"}]
    /\ retryAfter \in Nat
    /\ granted \in [Scopes -> Int]
    /\ banned \in [Scopes -> Nat]
    /\ retryAt \in [Scopes -> Nat]
    /\ forbidden \in [Scopes -> Int]
    /\ faults \in 0..MaxFaults

(* No request is made to a site before the end of the longest cooldown or  *)
(* Retry-After that was recorded for it, whatever crashed or succeeded     *)
(* since.                                                                  *)
CooldownKept ==
    phase \in {"asking", "fetching"} => now >= banned[Here]

(* Once a site has refused a request of the scan, the scan sends it none,  *)
(* not even when the refusal could not be recorded.                        *)
RefusalEndsVisits ==
    phase \in {"asking", "fetching"} => state[Here] \in {"open", "fetched"}

(* The time a report tells the user to wait for is the time the scope      *)
(* opens: the later one of the interval and the cooldown.                  *)
RetryAtIsExact ==
    \A c \in Scopes : retryAt[c] # 0 => retryAt[c] = FirstAllowed(c)

(* Two reservations of a scope are at least an interval apart, through     *)
(* restarts, failures and successes in between.                            *)
IntervalKept ==
    [][\A c \in Scopes : granted'[c] # granted[c] => granted'[c] - granted[c] >= Interval]_vars

(* A page is fetched by an answer of robots.txt that the site was still    *)
(* giving within the last RobotsTTL.                                       *)
RobotsAnswerFresh ==
    [][phase = "asking" /\ phase' = "fetching" =>
          forbidden[Here] = -1 \/ now - forbidden[Here] < RobotsTTL]_vars

-------------------------------------------------------------------------------
(* The abstract specification, read off this state: a reservation is an    *)
(* entry, a recorded refusal closes the site, and a scope is inside from   *)
(* its reservation to the end of the scan or its first refusal.            *)
Visit == [c \in Scopes |->
    IF state[c] \in {"open", "fetched"} THEN "inside"
    ELSE IF state[c] = "refused" THEN "turned" ELSE "away"]

Requesting == IF phase \in {"asking", "fetching"} THEN {Here} ELSE {}

Promise == INSTANCE AccessPromise WITH
    Sites <- Scopes, time <- now, entered <- granted, closed <- banned,
    visit <- Visit, requesting <- Requesting

(* Whatever happens, the site sees a visitor that keeps to the promise: it *)
(* enters once in an interval and never while it is closed, stays out of   *)
(* where it was turned away, and crashes and failed writes make it forget  *)
(* nothing that the table had recorded.                                    *)
KeepsAccessPromise == Promise!Spec
================================================================================
