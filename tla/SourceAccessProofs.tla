---------------------------- MODULE SourceAccessProofs ----------------------------
(***************************************************************************)
(* Theorems about the access budget: whatever the sites answer, whatever   *)
(* fails and whenever the process dies, a site is left alone for its       *)
(* interval and its cooldowns, which double up to the maximum.             *)
(***************************************************************************)
EXTENDS SourceAccess, Recursion

Phases == {"idle", "source", "asking", "fetching", "refused", "closing"}
States == {"unknown", "denied", "open", "fetched", "refused"}
Answers == [verdict : {"none", "allow", "deny"}, at : Nat]

(* The scan is at a site only when its scope is open; a refusal closes it. *)
VisitInv ==
    /\ phase \in {"asking", "fetching"} => state[Here] \in {"open", "fetched"}
    /\ phase = "refused" => state[Here] = "refused"

(* A recorded refusal is in the table as long as it lasts; the scopes that *)
(* the scan may visit, or has just been refused by, are past theirs.       *)
BanInv ==
    /\ \A c \in Scopes : banned[c] <= blockedUntil[c] \/ banned[c] <= now
    /\ \A c \in Scopes : state[c] \in {"open", "fetched"} => banned[c] <= now
    /\ phase = "refused" => banned[Here] <= now

(* The table keeps the interval since the last reservation.                *)
IntervalInv == \A c \in Scopes : granted[c] + Interval <= nextAllowed[c]

(* What was reported is exact, and a scope that was entered since has      *)
(* nothing reported.                                                       *)
ReportInv ==
    /\ RetryAtIsExact
    /\ \A c \in Scopes : state[c] \in {"open", "fetched"} => retryAt[c] = 0

(* An answer in the cache is no older than now, and a site that is closed  *)
(* although the cache says otherwise was closed after the answer.          *)
RobotsInv ==
    \A c \in Scopes :
        /\ robots[c].at <= now
        /\ robots[c].verdict = "allow" => forbidden[c] = -1 \/ robots[c].at <= forbidden[c]

AccessInv == TypeOK /\ VisitInv /\ BanInv /\ IntervalInv /\ ReportInv /\ RobotsInv

-------------------------------------------------------------------------------
(* The recursive function has the values that its definition says.         *)
LEMMA CooldownDefined ==
    /\ ExponentialCooldown[1] = Base
    /\ \A n \in Nat \ {0} :
          ExponentialCooldown[n + 1] =
             IF ExponentialCooldown[n] > Maximum \div 2 THEN Maximum ELSE 2 * ExponentialCooldown[n]
<1>. DEFINE Doubled(c) == IF c > Maximum \div 2 THEN Maximum ELSE 2 * c
            step == [p \in (Nat \ {0}) \X (Base..Maximum) |-> Doubled(p[2])]
            IsCooldown(c) == c = [n \in Nat \ {0} |-> IF n = 1 THEN Base ELSE Doubled(c[n - 1])]
<1>1. step \in NatSteps(Base..Maximum)
  <2>1. \A c \in Base..Maximum : Doubled(c) \in Base..Maximum
    BY AccessAssumption
  <2>. HIDE DEF Doubled
  <2>. QED BY <2>1 DEF NatSteps
<1>2. Base \in Base..Maximum
  BY AccessAssumption
<1>3. PICK f \in [Nat -> Base..Maximum] : SolvesOnNat(f, Base, step)
  <2>. HIDE DEF step
  <2>. QED BY <1>1, <1>2, RecursionOnNat
<1>. DEFINE c == [n \in Nat \ {0} |-> f[n - 1]]
<1>4. IsCooldown(c)
  <2>. HIDE DEF Doubled
  <2>1. ASSUME NEW n \in Nat \ {0}
        PROVE  f[n] = Doubled(f[n - 1])
    <3>1. f[n] = step[<<n, f[n - 1]>>] /\ f[n - 1] \in Base..Maximum
      <4>1. n - 1 \in Nat
        OBVIOUS
      <4>. HIDE DEF step
      <4>. QED BY <1>3, <4>1 DEF SolvesOnNat
    <3>. DEFINE p == <<n, f[n - 1]>>
    <3>2. p \in (Nat \ {0}) \X (Base..Maximum) /\ p[2] = f[n - 1]
      BY <3>1
    <3>3. step[p] = Doubled(p[2])
      <4>. HIDE DEF p
      <4>. QED BY <3>2
    <3>. QED BY <3>1, <3>2, <3>3
  <2>2. ASSUME NEW n \in Nat \ {0}, n # 1
        PROVE  c[n] = Doubled(c[n - 1])
    <3>1. n - 1 \in Nat \ {0}
      BY <2>2
    <3>2. c[n] = f[n - 1] /\ c[n - 1] = f[(n - 1) - 1]
      BY <3>1
    <3>. QED BY <2>1, <3>1, <3>2
  <2>3. c[1] = Base
    BY <1>3 DEF SolvesOnNat
  <2>. QED BY <2>2, <2>3
<1>5. IsCooldown(ExponentialCooldown)
  <2>1. ExponentialCooldown = CHOOSE g : IsCooldown(g)
    BY DEF ExponentialCooldown
  <2>. HIDE DEF IsCooldown, c
  <2>. QED BY <1>4, <2>1
<1>. QED BY <1>5

(* The cooldown stays within its limits, however many refusals there were. *)
LEMMA CooldownRange ==
    \A n \in Nat \ {0} : ExponentialCooldown[n] \in Base..Maximum
<1>. DEFINE S == {n \in Nat : ExponentialCooldown[n + 1] \in Base..Maximum}
<1>1. 0 \in S
  <2>1. 0 + 1 = 1 /\ Base \in Base..Maximum
    BY AccessAssumption
  <2>. QED BY <2>1, CooldownDefined
<1>2. ASSUME NEW n \in Nat, n \in S
      PROVE  n + 1 \in S
  <2>1. n + 1 \in Nat \ {0} /\ ExponentialCooldown[n + 1] \in Base..Maximum
    BY <1>2
  <2>. DEFINE c == ExponentialCooldown[n + 1]
  <2>2. ExponentialCooldown[(n + 1) + 1] = IF c > Maximum \div 2 THEN Maximum ELSE 2 * c
    BY <2>1, CooldownDefined
  <2>3. c \in Base..Maximum
    BY <2>1
  <2>4. (IF c > Maximum \div 2 THEN Maximum ELSE 2 * c) \in Base..Maximum
    <3>. HIDE DEF c
    <3>. QED BY <2>3, AccessAssumption
  <2>. QED BY <2>2, <2>4
<1>3. Nat \subseteq S
  <2>. HIDE DEF S
  <2>. QED BY <1>1, <1>2, InductionOnNat
<1>4. ASSUME NEW n \in Nat \ {0}
      PROVE  ExponentialCooldown[n] \in Base..Maximum
  <2>1. n - 1 \in S /\ (n - 1) + 1 = n
    BY <1>3
  <2>. QED BY <2>1
<1>. QED BY <1>4

LEMMA CooldownIsNatural ==
    ASSUME NEW n \in Nat \ {0}
    PROVE  ExponentialCooldown[n] \in Nat
BY CooldownRange, AccessAssumption

(* Every refusal doubles the cooldown until it would pass the maximum, at  *)
(* which it stays: it never shrinks, and no value on the way is larger     *)
(* than the maximum, so that no duration overflows.                        *)
THEOREM CooldownDoublesUpToMaximum ==
    /\ ExponentialCooldown[1] = Base
    /\ \A n \in Nat \ {0} :
          /\ ExponentialCooldown[n] \in Base..Maximum
          /\ ExponentialCooldown[n + 1] =
                IF 2 * ExponentialCooldown[n] <= Maximum THEN 2 * ExponentialCooldown[n] ELSE Maximum
          /\ ExponentialCooldown[n] <= ExponentialCooldown[n + 1]
<1>. SUFFICES ASSUME NEW n \in Nat \ {0}
              PROVE  /\ ExponentialCooldown[n] \in Base..Maximum
                     /\ ExponentialCooldown[n + 1] =
                          IF 2 * ExponentialCooldown[n] <= Maximum
                          THEN 2 * ExponentialCooldown[n] ELSE Maximum
                     /\ ExponentialCooldown[n] <= ExponentialCooldown[n + 1]
  BY CooldownDefined
<1>. DEFINE c == ExponentialCooldown[n]
            d == ExponentialCooldown[n + 1]
<1>1. c \in Base..Maximum
  BY CooldownRange
<1>2. d = IF c > Maximum \div 2 THEN Maximum ELSE 2 * c
  BY CooldownDefined
<1>3. d = (IF 2 * c <= Maximum THEN 2 * c ELSE Maximum) /\ c <= d
  <2>. HIDE DEF c, d
  <2>. QED BY <1>1, <1>2, AccessAssumption
<1>. QED BY <1>1, <1>3

(* The scope of a source that exists.                                      *)
LEMMA HereIsScope ==
    ASSUME TypeOK, phase \in {"source", "asking", "fetching", "refused"}
    PROVE  Here \in Scopes
BY AccessAssumption DEF TypeOK, Here, Sources

(* What Advance does to the position of the scan.                          *)
LEMMA AdvanceSteps ==
    ASSUME TypeOK, phase \in {"source", "asking", "fetching", "refused"}, Advance
    PROVE  /\ phase' \in {"closing", "source"}
           /\ source' \in 0..(SourceCount + 1)
           /\ phase' = "source" => source' \in Sources
BY AccessAssumption DEF TypeOK, Advance, Sources

(* A step of the loop keeps the types.                                     *)
LEMMA TypeStep ==
    ASSUME TypeOK, [Next]_vars
    PROVE  TypeOK'
<1>. USE AccessAssumption DEF tableVars, scanVars, observers
<1>1. CASE Tick
  BY <1>1 DEF Tick, TypeOK, Sources
<1>2. CASE StartScan
  <2>1. source' \in Sources /\ source' \in 0..(SourceCount + 1) /\ phase' = "source"
    BY <1>2 DEF StartScan, Sources
  <2>2. state' \in [Scopes -> States]
    BY <1>2 DEF StartScan, Unknown, States
  <2>. QED  BY <1>2, <2>1, <2>2 DEF StartScan, TypeOK, States
<1>3. CASE Reserve
  <2>. Here \in Scopes
    BY <1>3, HereIsScope DEF Reserve
  <2>. FirstAllowed(Here) \in Nat
    BY DEF FirstAllowed, Later, TypeOK
  <2>1. CASE Grant(Here)
    BY <1>3, <2>1 DEF Reserve, Grant, Proceed, TypeOK, Sources
  <2>2. CASE Deny(Here)
    <3>1. Advance /\ phase = "source"
      BY <1>3, <2>2 DEF Reserve, Deny
    <3>. QED  BY <1>3, <2>2, <3>1, AdvanceSteps DEF Reserve, Deny, TypeOK
  <2>. QED  BY <1>3, <2>1, <2>2 DEF Reserve
<1>4. CASE ReserveFails
  <2>. Here \in Scopes
    BY <1>4, HereIsScope DEF ReserveFails
  <2>1. faults' \in 0..MaxFaults
    BY <1>4 DEF ReserveFails, TypeOK
  <2>2. state' \in [Scopes -> States]
    BY <1>4 DEF ReserveFails, TypeOK, States
  <2>3. Advance /\ phase = "source"
    BY <1>4 DEF ReserveFails
  <2>. QED  BY <1>4, <2>1, <2>2, <2>3, AdvanceSteps DEF ReserveFails, TypeOK, States
<1>5. CASE EnterAgain
  <2>1. CASE Proceed(Here)
    BY <1>5, <2>1 DEF EnterAgain, Proceed, TypeOK, Sources
  <2>2. CASE Advance
    BY <1>5, <2>2, AdvanceSteps DEF EnterAgain, TypeOK
  <2>. QED  BY <1>5, <2>1, <2>2 DEF EnterAgain
<1>6. ASSUME NEW verdict \in {"allow", "deny"}, AskSite(verdict)
      PROVE  TypeOK'
  <2>. Here \in Scopes
    BY <1>6, HereIsScope DEF AskSite
  <2>1. robots' \in [Scopes -> Answers]
    <3>1. [verdict |-> verdict, at |-> now] \in Answers
      BY DEF TypeOK, Answers
    <3>. QED  BY <1>6, <3>1 DEF AskSite, TypeOK, Answers
  <2>2. CASE phase' = "fetching" /\ UNCHANGED source
    BY <1>6, <2>1, <2>2 DEF AskSite, TypeOK, Sources, Answers
  <2>3. CASE Advance
    BY <1>6, <2>1, <2>3, AdvanceSteps DEF AskSite, TypeOK, Answers
  <2>. QED  BY <1>6, <2>2, <2>3 DEF AskSite
<1>7. CASE SiteSilent
  <2>. Here \in Scopes
    BY <1>7, HereIsScope DEF SiteSilent
  <2>1. robots' \in [Scopes -> Answers]
    <3>1. NotCached \in Answers
      BY DEF NotCached, Answers
    <3>. QED  BY <1>7, <3>1 DEF SiteSilent, TypeOK, Answers
  <2>. QED  BY <1>7, <2>1, AdvanceSteps DEF SiteSilent, TypeOK, Answers
<1>8. ASSUME NEW ok \in BOOLEAN, Fetch(ok)
      PROVE  TypeOK'
  <2>. Here \in Scopes
    BY <1>8, HereIsScope DEF Fetch
  <2>. QED  BY <1>8, AdvanceSteps DEF Fetch, TypeOK
<1>9. ASSUME NEW delay \in Delays, Refused(delay)
      PROVE  TypeOK'
  <2>. Here \in Scopes
    BY <1>9, HereIsScope DEF Refused
  <2>1. retryAfter' \in Nat
    BY <1>9 DEF Refused, TypeOK
  <2>2. state' \in [Scopes -> States]
    BY <1>9 DEF Refused, TypeOK, States
  <2>. QED  BY <1>9, <2>1, <2>2 DEF Refused, TypeOK, States
<1>10. CASE RecordRefusal
  <2>. Here \in Scopes
    BY <1>10, HereIsScope DEF RecordRefusal
  <2>. DEFINE n == failures[Here] + 1
              until == Later(now + ExponentialCooldown[n], retryAfter)
  <2>1. n \in Nat /\ until \in Nat
    BY CooldownIsNatural DEF TypeOK, Later
  <2>2. /\ failures' = [failures EXCEPT ![Here] = n]
        /\ blockedUntil' = [blockedUntil EXCEPT ![Here] = until]
        /\ banned' = [banned EXCEPT ![Here] = Later(banned[Here], until)]
        /\ retryAt' = [retryAt EXCEPT ![Here] = Later(until, nextAllowed[Here])]
        /\ phase = "refused" /\ retryAfter' = 0 /\ Advance
        /\ UNCHANGED <<now, nextAllowed, robots, state, granted, forbidden, faults>>
    BY <1>10 DEF RecordRefusal, TypeOK
  <2>. HIDE DEF n, until
  <2>. QED  BY <2>1, <2>2, AdvanceSteps DEF TypeOK, Later
<1>11. CASE RecordRefusalFails
  <2>1. faults' \in 0..MaxFaults
    BY <1>11 DEF RecordRefusalFails, TypeOK
  <2>. QED  BY <1>11, <2>1, AdvanceSteps DEF RecordRefusalFails, TypeOK
<1>12. ASSUME NEW c \in Scopes, RecordSuccess(c)
       PROVE  TypeOK'
  BY <1>12 DEF RecordSuccess, TypeOK, Sources
<1>13. CASE EndScan
  BY <1>13 DEF EndScan, TypeOK, Unknown
<1>14. CASE Crash
  BY <1>14 DEF Crash, TypeOK, Unknown, NotCached
<1>15. ASSUME NEW c \in Scopes, EditRobots(c)
       PROVE  TypeOK'
  BY <1>15 DEF EditRobots, TypeOK, Sources
<1>16. CASE UNCHANGED vars
  BY <1>16 DEF vars, TypeOK, Sources
<1>. QED
  BY <1>1, <1>2, <1>3, <1>4, <1>5, <1>6, <1>7, <1>8, <1>9, <1>10, <1>11, <1>12,
     <1>13, <1>14, <1>15, <1>16 DEF Next, ScanStep

(* What a step does to the time: it passes, and by itself.                 *)
LEMMA TimeMoves ==
    ASSUME TypeOK, [Next]_vars
    PROVE  now <= now'
BY DEF Next, ScanStep, Tick, StartScan, Reserve, ReserveFails, EnterAgain, AskSite, SiteSilent,
       Fetch, Refused, RecordRefusal, RecordRefusalFails, RecordSuccess, EndScan, Crash,
       EditRobots, vars, TypeOK

(* The scan is at a site only when its scope is open.                      *)
LEMMA VisitStep ==
    ASSUME TypeOK, VisitInv, [Next]_vars
    PROVE  VisitInv'
<1>. USE DEF scanVars
<1>1. CASE Reserve
  <2>1. Here \in Scopes
    BY <1>1, HereIsScope DEF Reserve
  <2>2. CASE Grant(Here)
    <3>1. Here' = Here /\ state'[Here] = "open" /\ phase' \in {"asking", "fetching"}
      BY <1>1, <2>1, <2>2 DEF Grant, Proceed, Here, TypeOK
    <3>. QED  BY <3>1 DEF VisitInv
  <2>3. CASE Deny(Here)
    BY <1>1, <2>3 DEF Reserve, Deny, Advance, VisitInv
  <2>. QED  BY <1>1, <2>2, <2>3 DEF Reserve
<1>2. CASE EnterAgain
  <2>1. CASE state[Here] \in {"open", "fetched"} /\ Proceed(Here)
    BY <1>2, <2>1 DEF EnterAgain, Proceed, VisitInv, Here
  <2>2. CASE Advance
    BY <1>2, <2>2 DEF EnterAgain, Advance, VisitInv
  <2>. QED  BY <1>2, <2>1, <2>2 DEF EnterAgain
<1>3. ASSUME NEW verdict \in {"allow", "deny"}, AskSite(verdict)
      PROVE  VisitInv'
  BY <1>3 DEF AskSite, Advance, VisitInv, Here
<1>4. ASSUME NEW delay \in Delays, Refused(delay)
      PROVE  VisitInv'
  BY <1>4, HereIsScope DEF Refused, VisitInv, Here, TypeOK
<1>5. CASE ReserveFails \/ SiteSilent \/ RecordRefusal \/ RecordRefusalFails
           \/ \E ok \in BOOLEAN : Fetch(ok)
  BY <1>5 DEF ReserveFails, SiteSilent, RecordRefusal, RecordRefusalFails, Fetch, Advance, VisitInv
<1>6. CASE StartScan \/ EndScan \/ Crash \/ (\E c \in Scopes : RecordSuccess(c))
  BY <1>6 DEF StartScan, EndScan, Crash, RecordSuccess, VisitInv
<1>7. CASE Tick \/ (\E c \in Scopes : EditRobots(c)) \/ UNCHANGED vars
  BY <1>7 DEF Tick, EditRobots, vars, VisitInv, Here
<1>. QED
  BY <1>1, <1>2, <1>3, <1>4, <1>5, <1>6, <1>7 DEF Next, ScanStep

(* The table forgets a refusal only when its time is over.                 *)
LEMMA BanStep ==
    ASSUME TypeOK, TypeOK', VisitInv, BanInv, [Next]_vars
    PROVE  BanInv'
<1>. USE DEF tableVars, scanVars, observers
<1>0. now \in Nat /\ now' \in Nat /\ now <= now'
  BY TimeMoves DEF TypeOK
<1>1. CASE Reserve
  <2>1. Here \in Scopes
    BY <1>1, HereIsScope DEF Reserve
  <2>2. CASE Grant(Here)
    <3>1. now >= FirstAllowed(Here)
      BY <1>1, <2>2, <2>1 DEF Reserve, Grant, Deny, Proceed, Advance, TypeOK
    <3>2. banned[Here] <= now
      BY <1>0, <2>1, <3>1 DEF FirstAllowed, Later, BanInv, TypeOK
    <3>. QED  BY <1>0, <1>1, <2>1, <2>2, <3>2 DEF Reserve, Grant, Proceed, BanInv, TypeOK
  <2>3. CASE Deny(Here)
    BY <1>0, <1>1, <2>1, <2>3 DEF Reserve, Deny, Advance, BanInv, TypeOK
  <2>. QED  BY <1>1, <2>2, <2>3 DEF Reserve
<1>2. CASE EnterAgain
  BY <1>0, <1>2 DEF EnterAgain, Proceed, Advance, BanInv
<1>3. ASSUME NEW verdict \in {"allow", "deny"}, AskSite(verdict)
      PROVE  BanInv'
  BY <1>0, <1>3 DEF AskSite, Advance, BanInv
<1>4. ASSUME NEW delay \in Delays, Refused(delay)
      PROVE  BanInv'
  <2>1. Here \in Scopes /\ banned[Here] <= now
    BY <1>4, HereIsScope DEF Refused, VisitInv, BanInv
  <2>. QED  BY <1>0, <1>4, <2>1 DEF Refused, BanInv, Here, TypeOK
<1>5. CASE RecordRefusal
  <2>. DEFINE until == Later(now + ExponentialCooldown[failures[Here] + 1], retryAfter)
  <2>1. Here \in Scopes
    BY <1>5, HereIsScope DEF RecordRefusal
  <2>2. until \in Nat /\ now <= until
    <3>1. failures[Here] + 1 \in Nat \ {0}
      BY <2>1 DEF TypeOK
    <3>2. ExponentialCooldown[failures[Here] + 1] \in Nat
      BY <3>1, CooldownIsNatural
    <3>. QED BY <3>2 DEF TypeOK, Later
  <2>3. /\ blockedUntil' = [blockedUntil EXCEPT ![Here] = until]
        /\ banned' = [banned EXCEPT ![Here] = Later(banned[Here], until)]
        /\ phase = "refused" /\ Advance /\ UNCHANGED <<now, state>>
    BY <1>5 DEF RecordRefusal, TypeOK
  <2>4. banned[Here] <= now /\ state[Here] = "refused"
    BY <2>3 DEF BanInv, VisitInv
  <2>. HIDE DEF until
  <2>5. banned'[Here] = until /\ blockedUntil'[Here] = until
    <3>1. banned[Here] \in Nat
      BY <2>1 DEF TypeOK
    <3>2. Later(banned[Here], until) = until
      BY <1>0, <2>2, <2>4, <3>1 DEF Later
    <3>. QED  BY <2>1, <2>3, <3>2 DEF TypeOK
  <2>6. \A c \in Scopes : c # Here => banned'[c] = banned[c] /\ blockedUntil'[c] = blockedUntil[c]
    BY <2>1, <2>3 DEF TypeOK
  <2>7. phase' # "refused"
    BY <2>3 DEF Advance
  <2>. QED  BY <1>0, <2>2, <2>3, <2>4, <2>5, <2>6, <2>7 DEF BanInv, TypeOK
<1>6. ASSUME NEW c \in Scopes, RecordSuccess(c)
      PROVE  BanInv'
  BY <1>0, <1>6 DEF RecordSuccess, Earned, BanInv, TypeOK
<1>7. ASSUME NEW ok \in BOOLEAN, Fetch(ok)
      PROVE  BanInv'
  <2>1. Here \in Scopes /\ banned[Here] <= now
    BY <1>7, HereIsScope DEF Fetch, VisitInv, BanInv
  <2>. QED  BY <1>0, <1>7, <2>1 DEF Fetch, Advance, BanInv, TypeOK
<1>8. CASE ReserveFails \/ SiteSilent \/ RecordRefusalFails
  <2>1. Here \in Scopes
    BY <1>8, HereIsScope DEF ReserveFails, SiteSilent, RecordRefusalFails
  <2>. QED  BY <1>0, <1>8, <2>1 DEF ReserveFails, SiteSilent, RecordRefusalFails, Advance, BanInv, TypeOK
<1>9. CASE StartScan \/ EndScan \/ Crash
  BY <1>0, <1>9 DEF StartScan, EndScan, Crash, Unknown, BanInv
<1>10. CASE Tick
  <2>1. UNCHANGED <<blockedUntil, banned, phase, source, state>> /\ Here' = Here
    BY <1>10 DEF Tick, Here
  <2>2. phase = "refused" => Here \in Scopes
    BY HereIsScope
  <2>3. \A c \in Scopes : banned[c] \in Nat /\ blockedUntil[c] \in Nat
    BY DEF TypeOK
  <2>. QED  BY <1>0, <2>1, <2>2, <2>3 DEF BanInv
<1>11. CASE (\E c \in Scopes : EditRobots(c)) \/ UNCHANGED vars
  BY <1>0, <1>11 DEF EditRobots, vars, BanInv, Here
<1>. QED
  BY <1>1, <1>2, <1>3, <1>4, <1>5, <1>6, <1>7, <1>8, <1>9, <1>10, <1>11 DEF Next, ScanStep

(* The table never forgets the interval.                                   *)
LEMMA IntervalStep ==
    ASSUME TypeOK, TypeOK', IntervalInv, [Next]_vars
    PROVE  /\ IntervalInv'
           /\ \A c \in Scopes : granted'[c] # granted[c] => granted'[c] - granted[c] >= Interval
<1>. USE AccessAssumption DEF tableVars, scanVars, observers
<1>1. CASE Reserve
  <2>1. Here \in Scopes
    BY <1>1, HereIsScope DEF Reserve
  <2>2. CASE Grant(Here) /\ now >= FirstAllowed(Here)
    <3>1. nextAllowed[Here] <= now
      <4>1. nextAllowed[Here] \in Nat /\ blockedUntil[Here] \in Nat /\ now \in Nat
        BY <2>1 DEF TypeOK
      <4>. QED  BY <2>2, <4>1 DEF FirstAllowed, Later
    <3>2. /\ now \in Nat /\ Interval \in Nat
          /\ \A c \in Scopes : nextAllowed[c] \in Nat /\ granted[c] \in Int
      BY DEF TypeOK
    <3>3. /\ granted'[Here] = now /\ nextAllowed'[Here] = now + Interval
          /\ \A c \in Scopes : c # Here =>
                granted'[c] = granted[c] /\ nextAllowed'[c] = nextAllowed[c]
      BY <2>1, <2>2 DEF Grant, TypeOK
    <3>4. granted[Here] + Interval <= now
      BY <2>1, <3>1, <3>2 DEF IntervalInv
    <3>. QED  BY <3>2, <3>3, <3>4 DEF IntervalInv
  <2>3. CASE Deny(Here)
    BY <2>3 DEF Deny, IntervalInv
  <2>. QED  BY <1>1, <2>2, <2>3 DEF Reserve
<1>2. CASE UNCHANGED <<nextAllowed, granted>>
  BY <1>2 DEF IntervalInv
<1>3. ASSUME NEW c \in Scopes, RecordSuccess(c)
      PROVE  UNCHANGED <<nextAllowed, granted>>
  BY <1>3 DEF RecordSuccess
<1>4. RecordRefusal => UNCHANGED <<nextAllowed, granted>>
  BY DEF RecordRefusal
<1>. QED
  BY <1>1, <1>2, <1>3, <1>4 DEF Next, ScanStep, Tick, StartScan, ReserveFails, EnterAgain,
     AskSite, SiteSilent, Fetch, Refused, RecordRefusalFails, EndScan, Crash, EditRobots, vars

(* A report stays exact until the scope is entered again.                  *)
LEMMA ReportStep ==
    ASSUME TypeOK, TypeOK', VisitInv, ReportInv, [Next]_vars
    PROVE  ReportInv'
<1>. USE DEF tableVars, scanVars, observers
<1>1. CASE Reserve
  <2>1. Here \in Scopes
    BY <1>1, HereIsScope DEF Reserve
  <2>2. CASE Grant(Here)
    <3>. DEFINE at == now + Interval
    <3>1. /\ nextAllowed' = [nextAllowed EXCEPT ![Here] = at]
          /\ retryAt' = [retryAt EXCEPT ![Here] = 0]
          /\ state' = [state EXCEPT ![Here] = "open"]
          /\ UNCHANGED blockedUntil
      BY <1>1, <2>2 DEF Reserve, Grant
    <3>. HIDE DEF at
    <3>. QED  BY <2>1, <3>1 DEF ReportInv, RetryAtIsExact, FirstAllowed, TypeOK
  <2>3. CASE Deny(Here)
    <3>1. /\ retryAt' = [retryAt EXCEPT ![Here] = FirstAllowed(Here)]
          /\ state' = [state EXCEPT ![Here] = "denied"]
          /\ UNCHANGED <<nextAllowed, blockedUntil>>
      BY <2>3 DEF Deny
    <3>. QED  BY <2>1, <3>1 DEF ReportInv, RetryAtIsExact, FirstAllowed, TypeOK
  <2>. QED  BY <1>1, <2>2, <2>3 DEF Reserve
<1>2. CASE ReserveFails
  <2>1. Here \in Scopes
    BY <1>2, HereIsScope DEF ReserveFails
  <2>. QED  BY <1>2, <2>1 DEF ReserveFails, ReportInv, RetryAtIsExact, FirstAllowed, TypeOK
<1>3. ASSUME NEW ok \in BOOLEAN, Fetch(ok)
      PROVE  ReportInv'
  <2>1. Here \in Scopes /\ retryAt[Here] = 0
    BY <1>3, HereIsScope DEF Fetch, VisitInv, ReportInv
  <2>. QED  BY <1>3, <2>1 DEF Fetch, ReportInv, RetryAtIsExact, FirstAllowed, TypeOK
<1>4. ASSUME NEW delay \in Delays, Refused(delay)
      PROVE  ReportInv'
  <2>1. Here \in Scopes
    BY <1>4, HereIsScope DEF Refused
  <2>. QED  BY <1>4, <2>1 DEF Refused, ReportInv, RetryAtIsExact, FirstAllowed, TypeOK
<1>5. CASE RecordRefusal
  <2>. DEFINE until == Later(now + ExponentialCooldown[failures[Here] + 1], retryAfter)
  <2>1. Here \in Scopes
    BY <1>5, HereIsScope DEF RecordRefusal
  <2>2. until \in Nat
    <3>1. failures[Here] + 1 \in Nat \ {0}
      BY <2>1 DEF TypeOK
    <3>2. ExponentialCooldown[failures[Here] + 1] \in Nat
      BY <3>1, CooldownIsNatural
    <3>. QED BY <3>2 DEF TypeOK, Later
  <2>3. /\ blockedUntil' = [blockedUntil EXCEPT ![Here] = until]
        /\ retryAt' = [retryAt EXCEPT ![Here] = Later(until, nextAllowed[Here])]
        /\ phase = "refused" /\ UNCHANGED <<nextAllowed, state>>
    BY <1>5 DEF RecordRefusal
  <2>. HIDE DEF until
  <2>4. retryAt'[Here] = Later(until, nextAllowed[Here]) /\ blockedUntil'[Here] = until
    BY <2>1, <2>3 DEF TypeOK
  <2>5. Later(until, nextAllowed[Here]) = Later(nextAllowed[Here], until)
    <3>1. nextAllowed[Here] \in Nat
      BY <2>1 DEF TypeOK
    <3>. QED  BY <2>2, <3>1 DEF Later
  <2>6. \A c \in Scopes : c # Here => retryAt'[c] = retryAt[c] /\ blockedUntil'[c] = blockedUntil[c]
    BY <2>1, <2>3 DEF TypeOK
  <2>7. state[Here] = "refused"
    BY <2>3 DEF VisitInv
  <2>. QED  BY <2>3, <2>4, <2>5, <2>6, <2>7 DEF ReportInv, RetryAtIsExact, FirstAllowed
<1>6. ASSUME NEW c \in Scopes, RecordSuccess(c)
      PROVE  ReportInv'
  BY <1>6 DEF RecordSuccess, Earned, ReportInv, RetryAtIsExact, FirstAllowed, TypeOK
<1>7. CASE StartScan \/ EndScan \/ Crash
  <2>1. UNCHANGED <<nextAllowed, blockedUntil, retryAt>> /\ state' = Unknown
    BY <1>7 DEF StartScan, EndScan, Crash
  <2>. QED  BY <2>1 DEF Unknown, ReportInv, RetryAtIsExact, FirstAllowed
<1>8. CASE UNCHANGED <<nextAllowed, blockedUntil, retryAt, state>>
  BY <1>8 DEF ReportInv, RetryAtIsExact, FirstAllowed
<1>. QED
  BY <1>1, <1>2, <1>3, <1>4, <1>5, <1>6, <1>7, <1>8 DEF Next, ScanStep, Tick, EnterAgain,
     AskSite, SiteSilent, RecordRefusalFails, EditRobots, vars

(* What the cache holds was true when it was asked for.                    *)
LEMMA RobotsStep ==
    ASSUME TypeOK, TypeOK', RobotsInv, [Next]_vars
    PROVE  RobotsInv'
<1>0. now \in Nat /\ now' \in Nat /\ now <= now'
  BY TimeMoves DEF TypeOK
<1>1. ASSUME NEW verdict \in {"allow", "deny"}, AskSite(verdict)
      PROVE  RobotsInv'
  <2>1. Here \in Scopes
    BY <1>1, HereIsScope DEF AskSite
  <2>2. CASE UNCHANGED robots
    BY <1>1, <2>2 DEF AskSite, RobotsInv
  <2>3. CASE ~ Cached(Here)
    <3>. DEFINE answer == [verdict |-> verdict, at |-> now]
    <3>1. /\ robots' = [robots EXCEPT ![Here] = answer]
          /\ verdict = "allow" => forbidden[Here] = -1
          /\ UNCHANGED <<now, forbidden>>
      BY <1>1, <2>3 DEF AskSite
    <3>2. answer.at = now /\ answer.verdict = verdict
      OBVIOUS
    <3>. HIDE DEF answer
    <3>3. robots'[Here] = answer /\ \A c \in Scopes : c # Here => robots'[c] = robots[c]
      BY <2>1, <3>1 DEF TypeOK
    <3>. QED  BY <1>0, <3>1, <3>2, <3>3 DEF RobotsInv
  <2>. QED  BY <1>1, <2>2, <2>3 DEF AskSite
<1>2. CASE SiteSilent
  <2>1. Here \in Scopes
    BY <1>2, HereIsScope DEF SiteSilent
  <2>2. /\ robots' = [robots EXCEPT ![Here] = NotCached]
        /\ UNCHANGED <<now, forbidden>>
    BY <1>2 DEF SiteSilent
  <2>3. NotCached.at = 0 /\ NotCached.verdict = "none"
    BY DEF NotCached
  <2>4. robots'[Here] = NotCached /\ \A c \in Scopes : c # Here => robots'[c] = robots[c]
    BY <2>1, <2>2 DEF TypeOK
  <2>. QED  BY <1>0, <2>2, <2>3, <2>4 DEF RobotsInv
<1>3. CASE Crash
  BY <1>0, <1>3 DEF Crash, NotCached, RobotsInv
<1>4. ASSUME NEW c \in Scopes, EditRobots(c)
      PROVE  RobotsInv'
  BY <1>0, <1>4 DEF EditRobots, RobotsInv, TypeOK
<1>5. CASE Tick
  BY <1>0, <1>5 DEF Tick, RobotsInv, TypeOK
<1>6. CASE UNCHANGED <<now, robots, forbidden>>
  BY <1>6 DEF RobotsInv
<1>. QED
  BY <1>1, <1>2, <1>3, <1>4, <1>5, <1>6 DEF Next, ScanStep, StartScan, Reserve, ReserveFails,
     EnterAgain, Fetch, Refused, RecordRefusal, RecordRefusalFails, RecordSuccess, EndScan, vars

-------------------------------------------------------------------------------
(* The inductive invariant: types, where a scan may be, what the table     *)
(* remembers of refusals and reservations, reports and cached answers.     *)
THEOREM AccessInvariant == Spec => []AccessInv
<1>1. Init => AccessInv
  BY AccessAssumption DEF Init, AccessInv, TypeOK, VisitInv, BanInv, IntervalInv, ReportInv,
     RetryAtIsExact, RobotsInv, NotCached, Unknown, Sources
<1>2. AccessInv /\ [Next]_vars => AccessInv'
  BY TypeStep, VisitStep, BanStep, IntervalStep, ReportStep, RobotsStep DEF AccessInv
<1>. QED  BY <1>1, <1>2, PTL DEF Spec

(* The table, the cache and the scan keep to their types.                  *)
THEOREM AccessTypes == Spec => []TypeOK
<1>1. AccessInv => TypeOK
  BY DEF AccessInv
<1>. QED  BY <1>1, AccessInvariant, PTL

(* No scan visits a site before its longest recorded cooldown is over,     *)
(* whatever crashed, failed or succeeded since.                            *)
THEOREM NoVisitInCooldown == Spec => []CooldownKept
<1>1. AccessInv => CooldownKept
  <2>. SUFFICES ASSUME AccessInv, phase \in {"asking", "fetching"}
                PROVE  now >= banned[Here]
    BY DEF CooldownKept
  <2>1. Here \in Scopes /\ state[Here] \in {"open", "fetched"}
    BY HereIsScope DEF AccessInv, VisitInv
  <2>. QED  BY <2>1 DEF AccessInv, BanInv, TypeOK
<1>. QED  BY <1>1, AccessInvariant, PTL

(* A refusal ends the visits of its scan to the site.                      *)
THEOREM NoVisitAfterRefusal == Spec => []RefusalEndsVisits
<1>1. AccessInv => RefusalEndsVisits
  BY DEF AccessInv, VisitInv, RefusalEndsVisits
<1>. QED  BY <1>1, AccessInvariant, PTL

(* The retry time of a report is the moment the scope opens.               *)
THEOREM ReportsAreExact == Spec => []RetryAtIsExact
<1>1. AccessInv => RetryAtIsExact
  BY DEF AccessInv, ReportInv
<1>. QED  BY <1>1, AccessInvariant, PTL

(* Two reservations of a scope are an interval apart, across restarts.     *)
THEOREM NoIntervalUndercut == Spec => IntervalKept
<1>1. AccessInv /\ AccessInv' /\ [Next]_vars
      => [\A c \in Scopes : granted'[c] # granted[c] => granted'[c] - granted[c] >= Interval]_vars
  BY IntervalStep DEF AccessInv
<1>. QED  BY <1>1, AccessInvariant, PTL DEF Spec, IntervalKept

(* No page is fetched by an answer that the site took back longer ago than *)
(* the cache may keep it.                                                  *)
THEOREM NoStaleRobotsAnswer == Spec => RobotsAnswerFresh
<1>. DEFINE Fresh == phase = "asking" /\ phase' = "fetching" =>
                        (forbidden[Here] = -1 \/ now - forbidden[Here] < RobotsTTL)
<1>1. AccessInv /\ [Next]_vars => [Fresh]_vars
  <2>. SUFFICES ASSUME AccessInv, Next, phase = "asking", phase' = "fetching"
                PROVE  forbidden[Here] = -1 \/ now - forbidden[Here] < RobotsTTL
    OBVIOUS
  <2>1. Here \in Scopes
    BY HereIsScope DEF AccessInv
  <2>2. AskSite("allow")
    BY DEF Next, ScanStep, Tick, StartScan, Reserve, ReserveFails, EnterAgain, AskSite, SiteSilent,
       Fetch, Refused, RecordRefusal, RecordRefusalFails, RecordSuccess, EndScan, Crash, EditRobots,
       scanVars, Advance
  <2>3. CASE Cached(Here)
    BY <2>1, <2>2, <2>3, AccessAssumption DEF AskSite, Cached, AccessInv, RobotsInv, TypeOK
  <2>4. CASE ~ Cached(Here)
    BY <2>2, <2>4 DEF AskSite
  <2>. QED  BY <2>3, <2>4
<1>. QED  BY <1>1, AccessInvariant, PTL DEF Spec, RobotsAnswerFresh

-------------------------------------------------------------------------------
(* The budget implements AccessPromise for every instance: each step of    *)
(* the scans is a step of the promise, or leaves its variables alone.      *)
promised == <<now, granted, banned, Visit, Requesting>>

LEMMA VisitIsFunction == Visit \in [Scopes -> {"away", "inside", "turned"}]
BY DEF Visit

(* What a step that changes the state of one scope does to the visits.     *)
LEMMA VisitOfOne ==
    ASSUME TypeOK, NEW c \in Scopes, NEW s \in States, state' = [state EXCEPT ![c] = s]
    PROVE  Visit' = [Visit EXCEPT ![c] =
               IF s \in {"open", "fetched"} THEN "inside"
               ELSE IF s = "refused" THEN "turned" ELSE "away"]
BY DEF Visit, TypeOK

(* Nobody is away from, inside or turned away by a scope but as its state  *)
(* says.                                                                   *)
LEMMA VisitAt ==
    ASSUME NEW c \in Scopes
    PROVE  Visit[c] = IF state[c] \in {"open", "fetched"} THEN "inside"
                      ELSE IF state[c] = "refused" THEN "turned" ELSE "away"
BY DEF Visit

(* A granted reservation is an entry: interval and cooldown are over.      *)
LEMMA GrantImplementsEnter ==
    ASSUME AccessInv, Reserve, Grant(Here), now >= FirstAllowed(Here)
    PROVE  Promise!Enter(Here)
<1>1. Here \in Scopes /\ phase = "source" /\ state[Here] = "unknown"
  BY HereIsScope DEF Reserve, AccessInv
<1>2. /\ now \in Nat /\ Interval \in Nat /\ granted[Here] \in Int /\ banned[Here] \in Nat
      /\ nextAllowed[Here] \in Nat /\ blockedUntil[Here] \in Nat
  BY <1>1, AccessAssumption DEF AccessInv, TypeOK
<1>3. nextAllowed[Here] <= now /\ blockedUntil[Here] <= now
  BY <1>2 DEF FirstAllowed, Later
<1>4. now >= granted[Here] + Interval
  BY <1>1, <1>2, <1>3 DEF AccessInv, IntervalInv
<1>5. now >= banned[Here]
  BY <1>1, <1>2, <1>3 DEF AccessInv, BanInv
<1>6. Visit[Here] = "away" /\ Requesting = {}
  BY <1>1, VisitAt DEF Requesting
<1>7. Visit' = [Visit EXCEPT ![Here] = "inside"]
  BY <1>1, VisitOfOne DEF Grant, AccessInv, States
<1>8. Requesting' = {Here} /\ granted' = [granted EXCEPT ![Here] = now] /\ UNCHANGED <<now, banned>>
  BY DEF Reserve, Grant, Proceed, Requesting, Here
<1>. QED BY <1>4, <1>5, <1>6, <1>7, <1>8 DEF Promise!Enter

(* A recorded refusal closes the site.                                     *)
LEMMA RefusalImplementsRemember ==
    ASSUME AccessInv, RecordRefusal
    PROVE  Promise!Remember(Here)
<1>. DEFINE until == Later(now + ExponentialCooldown[failures[Here] + 1], retryAfter)
<1>1. Here \in Scopes /\ phase = "refused" /\ state[Here] = "refused"
  BY HereIsScope DEF RecordRefusal, AccessInv, VisitInv
<1>2. until \in Nat /\ now <= until /\ banned[Here] \in Nat /\ now \in Nat
  <2>1. ExponentialCooldown[failures[Here] + 1] \in Nat
    BY <1>1, CooldownIsNatural DEF AccessInv, TypeOK
  <2>. QED BY <1>1, <2>1 DEF AccessInv, TypeOK, Later
<1>3. /\ banned' = [banned EXCEPT ![Here] = Later(banned[Here], until)]
      /\ Advance /\ UNCHANGED <<now, state, granted>>
  BY DEF RecordRefusal
<1>. HIDE DEF until
<1>4. Later(banned[Here], until) >= now
  BY <1>2 DEF Later
<1>5. banned'[Here] = Later(banned[Here], until)
  BY <1>1, <1>3 DEF AccessInv, TypeOK
<1>6. Visit[Here] = "turned" /\ Visit' = Visit /\ Requesting = {} /\ Requesting' = {}
  BY <1>1, <1>3, VisitAt DEF Visit, Requesting, Advance
<1>. QED BY <1>3, <1>4, <1>5, <1>6 DEF Promise!Remember

(* Every step is a step of the promise, or none.                           *)
LEMMA StepImplementsPromise ==
    ASSUME AccessInv, Next
    PROVE  Promise!Next \/ UNCHANGED promised
<1>. USE DEF tableVars, scanVars, observers
<1>1. CASE Tick
  <2>1. UNCHANGED <<granted, banned, Visit, Requesting>> /\ now' = now + 1
    BY <1>1 DEF Tick, Visit, Requesting, Here
  <2>. QED BY <2>1 DEF Promise!Next, Promise!Pass
<1>2. CASE Reserve
  <2>1. Here \in Scopes
    BY <1>2, HereIsScope DEF Reserve, AccessInv
  <2>2. CASE Grant(Here) /\ now >= FirstAllowed(Here)
    BY <1>2, <2>1, <2>2, GrantImplementsEnter DEF Promise!Next
  <2>3. CASE Deny(Here)
    <3>1. Visit' = [Visit EXCEPT ![Here] = "away"]
      BY <2>1, <2>3, VisitOfOne DEF Deny, AccessInv, States
    <3>2. Visit[Here] = "away"
      BY <1>2, <2>1, VisitAt DEF Reserve
    <3>3. Visit' = Visit
      BY <3>1, <3>2, VisitIsFunction
    <3>. QED BY <1>2, <2>3, <3>3 DEF Reserve, Deny, Advance, Requesting, promised
  <2>. QED BY <1>2, <2>2, <2>3 DEF Reserve
<1>3. CASE ReserveFails
  <2>1. Here \in Scopes
    BY <1>3, HereIsScope DEF ReserveFails, AccessInv
  <2>2. Visit' = [Visit EXCEPT ![Here] = "away"]
    BY <1>3, <2>1, VisitOfOne DEF ReserveFails, AccessInv, States
  <2>3. Visit[Here] = "away"
    BY <1>3, <2>1, VisitAt DEF ReserveFails
  <2>4. Visit' = Visit
    BY <2>2, <2>3, VisitIsFunction
  <2>. QED BY <1>3, <2>4 DEF ReserveFails, Advance, Requesting, promised
<1>4. CASE EnterAgain
  <2>1. Here \in Scopes
    BY <1>4, HereIsScope DEF EnterAgain, AccessInv
  <2>2. UNCHANGED <<now, granted, banned, Visit>> /\ Requesting = {}
    BY <1>4 DEF EnterAgain, Visit, Requesting
  <2>3. CASE state[Here] \in {"open", "fetched"} /\ Proceed(Here)
    <3>1. Visit[Here] = "inside" /\ Requesting' = {Here}
      BY <2>1, <2>3, VisitAt DEF Proceed, Requesting, Here
    <3>. QED BY <2>1, <2>2, <3>1 DEF Promise!Next, Promise!Request
  <2>4. CASE Advance
    BY <2>2, <2>4 DEF Advance, Requesting, promised
  <2>. QED BY <1>4, <2>3, <2>4 DEF EnterAgain
<1>5. ASSUME NEW verdict \in {"allow", "deny"}, AskSite(verdict)
      PROVE  Promise!Next \/ UNCHANGED promised
  <2>1. UNCHANGED <<now, granted, banned, Visit>> /\ Requesting = {Here}
    BY <1>5 DEF AskSite, Visit, Requesting
  <2>2. CASE phase' = "fetching" /\ UNCHANGED source
    BY <2>1, <2>2 DEF Requesting, Here, promised
  <2>3. CASE Advance
    BY <2>1, <2>3 DEF Advance, Requesting, Promise!Next, Promise!Rest
  <2>. QED BY <1>5, <2>2, <2>3 DEF AskSite
<1>6. CASE SiteSilent
  BY <1>6 DEF SiteSilent, Advance, Visit, Requesting, Promise!Next, Promise!Rest
<1>7. ASSUME NEW ok \in BOOLEAN, Fetch(ok)
      PROVE  Promise!Next \/ UNCHANGED promised
  <2>1. /\ Here \in Scopes /\ phase = "fetching" /\ state[Here] \in {"open", "fetched"}
        /\ UNCHANGED <<now, granted, banned>> /\ Advance
    BY <1>7, HereIsScope DEF Fetch, AccessInv, VisitInv
  <2>2. Visit' = Visit
    <3>1. CASE UNCHANGED state
      BY <3>1 DEF Visit
    <3>2. CASE state' = [state EXCEPT ![Here] = "fetched"]
      <4>1. Visit' = [Visit EXCEPT ![Here] = "inside"]
        BY <2>1, <3>2, VisitOfOne DEF AccessInv, States
      <4>2. Visit[Here] = "inside"
        BY <2>1, VisitAt
      <4>. QED BY <4>1, <4>2, VisitIsFunction
    <3>. QED BY <1>7, <3>1, <3>2 DEF Fetch
  <2>3. Requesting = {Here} /\ Requesting' = {}
    BY <2>1 DEF Advance, Requesting
  <2>. QED BY <2>1, <2>2, <2>3 DEF Promise!Next, Promise!Rest
<1>8. ASSUME NEW delay \in Delays, Refused(delay)
      PROVE  Promise!Next
  <2>1. Here \in Scopes /\ Requesting = {Here} /\ Requesting' = {}
    BY <1>8, HereIsScope DEF Refused, AccessInv, Requesting
  <2>2. Visit' = [Visit EXCEPT ![Here] = "turned"]
    BY <1>8, <2>1, VisitOfOne DEF Refused, AccessInv, States
  <2>. QED BY <1>8, <2>1, <2>2 DEF Refused, Promise!Next, Promise!TurnAway
<1>9. CASE RecordRefusal
  BY <1>9, RefusalImplementsRemember, HereIsScope DEF RecordRefusal, AccessInv, Promise!Next
<1>10. CASE RecordRefusalFails
  BY <1>10 DEF RecordRefusalFails, Advance, Visit, Requesting, promised
<1>11. ASSUME NEW c \in Scopes, RecordSuccess(c)
       PROVE  UNCHANGED promised
  <2>1. Visit' = [Visit EXCEPT ![c] = "inside"]
    BY <1>11, VisitOfOne DEF RecordSuccess, AccessInv, States
  <2>2. Visit[c] = "inside"
    BY <1>11, VisitAt DEF RecordSuccess, Earned
  <2>3. Visit' = Visit
    BY <2>1, <2>2, VisitIsFunction
  <2>. QED BY <1>11, <2>3 DEF RecordSuccess, Requesting, promised
<1>12. CASE StartScan \/ EndScan \/ Crash
  <2>1. UNCHANGED <<now, granted, banned>> /\ state' = Unknown /\ phase' \in {"idle", "source"}
    BY <1>12 DEF StartScan, EndScan, Crash
  <2>2. Visit' = [c \in Scopes |-> "away"] /\ Requesting' = {}
    BY <2>1 DEF Visit, Unknown, Requesting
  <2>. QED BY <2>1, <2>2 DEF Promise!Next, Promise!Leave
<1>13. ASSUME NEW c \in Scopes, EditRobots(c)
       PROVE  UNCHANGED promised
  BY <1>13 DEF EditRobots, Visit, Requesting, Here, promised
<1>. QED
  BY <1>1, <1>2, <1>3, <1>4, <1>5, <1>6, <1>7, <1>8, <1>9, <1>10, <1>11, <1>12, <1>13
     DEF Next, ScanStep

(* Every site sees a visitor that keeps to AccessPromise, whatever it      *)
(* answers, whatever fails and whenever the process dies.                  *)
THEOREM BudgetKeepsPromise == Spec => KeepsAccessPromise
<1>1. Init => Promise!Init
  <2>1. Init => Visit = [c \in Scopes |-> "away"] /\ Requesting = {}
    BY DEF Init, Unknown, Visit, Requesting
  <2>. QED BY <2>1 DEF Init, Promise!Init
<1>2. AccessInv /\ [Next]_vars => [Promise!Next]_(Promise!vars)
  <2>1. ASSUME UNCHANGED vars
        PROVE  UNCHANGED promised
    BY <2>1 DEF vars, scanVars, observers, Visit, Requesting, Here, promised
  <2>. QED BY <2>1, StepImplementsPromise DEF promised, Promise!vars
<1>. QED BY <1>1, <1>2, AccessInvariant, PTL DEF Spec, KeepsAccessPromise, Promise!Spec
================================================================================
