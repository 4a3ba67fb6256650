-------------------------- MODULE OpportunitiesProofs --------------------------
(***************************************************************************)
(* Theorems about Opportunities for any number of listings, any titles,    *)
(* places and similarities and any program windows.                        *)
(***************************************************************************)
EXTENDS Opportunities, TLAPS

-------------------------------------------------------------------------------
(* The three kinds of ids and the missing one are told apart by their      *)
(* first component.                                                        *)
LEMMA Ids ==
    /\ \A l \in Listings : Own(l) \in ListingOpportunities
    /\ \A l \in Listings, t \in Titles, p \in Locations :
          SplitOff(l, t, p) \in ListingOpportunities /\ SplitOff(l, t, p) # Own(l)
    /\ \A q \in Programs : /\ ProgramOpportunity(q) \in Opportunities
                           /\ ProgramOpportunity(q) \notin ListingOpportunities
    /\ ListingOpportunities \subseteq Opportunities
    /\ NoOpportunity \notin Opportunities
<1>1. \A l, k, t, p : SplitOff(l, t, p) # Own(k)
  <2> TAKE l, k, t, p
  <2>1. SplitOff(l, t, p)[1] = "split" /\ Own(k)[1] = "own"
    BY DEF SplitOff, Own
  <2> QED
    BY <2>1
<1>2. \A q, l, t, p : ProgramOpportunity(q) # Own(l) /\ ProgramOpportunity(q) # SplitOff(l, t, p)
  <2> TAKE q, l, t, p
  <2>1. /\ ProgramOpportunity(q)[1] = "program"
        /\ SplitOff(l, t, p)[1] = "split"
        /\ Own(l)[1] = "own"
    BY DEF SplitOff, Own, ProgramOpportunity
  <2> QED
    BY <2>1
<1>3. \A q, l, t, p : /\ NoOpportunity # Own(l)
                      /\ NoOpportunity # SplitOff(l, t, p)
                      /\ NoOpportunity # ProgramOpportunity(q)
  <2> TAKE q, l, t, p
  <2>1. /\ ProgramOpportunity(q)[1] = "program"
        /\ SplitOff(l, t, p)[1] = "split"
        /\ Own(l)[1] = "own"
        /\ NoOpportunity[1] = "none"
    BY DEF SplitOff, Own, ProgramOpportunity, NoOpportunity
  <2> QED
    BY <2>1
<1>4. QED
  BY <1>1, <1>2, <1>3 DEF ListingOpportunities, Opportunities

(* Where an analysis takes a listing: nowhere, into an active opportunity  *)
(* that its own one is retired for, or out of a shared one.                *)
LEMMA TargetCases ==
  ASSUME TypeOK, ListingsAreVisible, NEW l \in Seen, NEW p \in Locations
  PROVE  /\ Target(l, p) \in Opportunities
         /\ \/ Target(l, p) = member[l]
            \/ /\ Target(l, p) # member[l]
               /\ Others(l) = {}
               /\ status[Target(l, p)] = "active"
            \/ /\ Target(l, p) # member[l]
               /\ Others(l) # {}
               /\ Target(l, p) \in ListingOpportunities
<1>1. l \in Listings /\ member[l] \in Opportunities /\ title[l] \in Titles
  BY DEF Seen, ListingsAreVisible, TypeOK
<1>2. CASE Others(l) # {}
  <2>1. SplitTarget(l, p) \in ListingOpportunities /\ SplitTarget(l, p) # member[l]
    BY <1>1, Ids DEF SplitTarget
  <2>2. Target(l, p) \in {SplitTarget(l, p), member[l]}
    BY <1>2 DEF Target
  <2> QED
    BY <1>1, <1>2, <2>1, <2>2, Ids
<1>3. CASE Others(l) = {} /\ \E o \in Candidates(l, p) : Candidates(l, p) = {o}
  <2>1. Target(l, p) \in Candidates(l, p)
    BY <1>3 DEF Target
  <2>2. /\ Target(l, p) \in Opportunities
        /\ status[Target(l, p)] = "active" /\ Target(l, p) # member[l]
    BY <2>1 DEF Candidates
  <2> QED
    BY <1>3, <2>2
<1>4. CASE Others(l) = {} /\ ~\E o \in Candidates(l, p) : Candidates(l, p) = {o}
  BY <1>1, <1>4 DEF Target
<1> QED
  BY <1>2, <1>3, <1>4

-------------------------------------------------------------------------------
(* What the two invariants about listings and opportunities say together;  *)
(* a lone listing's opportunity may be retired only because of the second  *)
(* clause of TargetCases.                                                  *)
MatchInv == TypeOK /\ ListingsAreVisible /\ ActiveOpportunitiesHaveListings

(* The types of the rows that resolving a listing writes.                  *)
LEMMA ResolveType ==
  ASSUME MatchInv, NEW l \in Seen, NEW p \in Locations, Resolve(l, p)
  PROVE  /\ member' \in [Listings -> Opportunities \union {NoOpportunity}]
         /\ status' \in [Opportunities -> {"none", "active", "merged"}]
         /\ identity' \in [Opportunities -> [title : Titles, place : Locations]]
         /\ Seen' = Seen
<1>1. /\ l \in Listings /\ member[l] \in Opportunities /\ title[l] \in Titles
      /\ Target(l, p) \in Opportunities
  BY TargetCases DEF MatchInv, Seen, ListingsAreVisible, TypeOK
<1>2. member' \in [Listings -> Opportunities \union {NoOpportunity}]
  BY <1>1 DEF Resolve, MatchInv, TypeOK, Opportunities
<1>3. status' \in [Opportunities -> {"none", "active", "merged"}]
  BY <1>1 DEF Resolve, NewStatus, MatchInv, TypeOK
<1>4. identity' \in [Opportunities -> [title : Titles, place : Locations]]
  BY <1>1 DEF Resolve, NewIdentity, MatchInv, TypeOK
<1>5. Seen' = Seen
  <2>1. \A k \in Listings : member'[k] = IF k = l THEN Target(l, p) ELSE member[k]
    BY <1>1 DEF Resolve, MatchInv, TypeOK
  <2> QED
    BY <1>1, <2>1, Ids DEF Seen
<1> QED
  BY <1>2, <1>3, <1>4, <1>5

(* Resolving a listing hides no listing and empties no active opportunity. *)
LEMMA ResolveKeepsMatch ==
  ASSUME MatchInv, NEW l \in Seen, NEW p \in Locations, Resolve(l, p)
  PROVE  ListingsAreVisible' /\ ActiveOpportunitiesHaveListings'
<1> DEFINE target == Target(l, p)
<1>1. /\ l \in Listings /\ member[l] \in Opportunities /\ status[member[l]] = "active"
      /\ target \in Opportunities
  BY TargetCases DEF MatchInv, Seen, ListingsAreVisible
<1>2. /\ member \in [Listings -> Opportunities \union {NoOpportunity}]
      /\ status \in [Opportunities -> {"none", "active", "merged"}]
  BY DEF MatchInv, TypeOK, Opportunities
<1>3. \A k \in Listings : member'[k] = IF k = l THEN target ELSE member[k]
  BY <1>1, <1>2 DEF Resolve
<1>4. Seen' = Seen
  BY ResolveType
<1>5. CASE target = member[l]
  <2>1. \A o \in Opportunities : status'[o] = status[o]
    BY <1>1, <1>2, <1>5 DEF Resolve, NewStatus
  <2>2. \A k \in Listings : member'[k] = member[k]
    BY <1>3, <1>5
  <2> QED
    BY <1>4, <2>1, <2>2, Ids
    DEF MatchInv, ListingsAreVisible, ActiveOpportunitiesHaveListings, Members, Seen
<1>6. CASE target # member[l] /\ Others(l) = {} /\ status[target] = "active"
  <2>1. \A o \in Opportunities : status'[o] = IF o = member[l] THEN "merged" ELSE status[o]
    BY <1>1, <1>2, <1>6 DEF Resolve, NewStatus
  <2>2. \A k \in Listings \ {l} : member[k] # member[l]
    BY <1>6 DEF Others, Members
  <2>3. ListingsAreVisible'
    BY <1>1, <1>3, <1>4, <1>6, <2>1, <2>2 DEF MatchInv, ListingsAreVisible, Seen
  <2>4. ActiveOpportunitiesHaveListings'
    <3> SUFFICES ASSUME NEW o \in ListingOpportunities, status'[o] = "active"
                 PROVE  \E k \in Listings : member'[k] = o
      BY DEF ActiveOpportunitiesHaveListings, Members
    <3>1. o # member[l] /\ status[o] = "active"
      BY <2>1, Ids
    <3>2. PICK k \in Listings : member[k] = o
      BY <3>1 DEF MatchInv, ActiveOpportunitiesHaveListings, Members
    <3> QED
      BY <1>3, <3>1, <3>2
  <2> QED
    BY <2>3, <2>4
<1>7. CASE target # member[l] /\ Others(l) # {} /\ target \in ListingOpportunities
  <2>1. \A o \in Opportunities : status'[o] = IF o = target THEN "active" ELSE status[o]
    BY <1>1, <1>2, <1>7 DEF Resolve, NewStatus
  <2>2. PICK m \in Listings : m # l /\ member[m] = member[l]
    BY <1>7 DEF Others, Members
  <2>3. ListingsAreVisible'
    BY <1>1, <1>3, <1>4, <2>1 DEF MatchInv, ListingsAreVisible, Seen
  <2>4. ActiveOpportunitiesHaveListings'
    <3> SUFFICES ASSUME NEW o \in ListingOpportunities, status'[o] = "active"
                 PROVE  \E k \in Listings : member'[k] = o
      BY DEF ActiveOpportunitiesHaveListings, Members
    <3>1. CASE o = target
      BY <1>1, <1>3, <3>1
    <3>2. CASE o # target
      <4>1. PICK k \in Listings : member[k] = o
        BY <2>1, <3>2, Ids DEF MatchInv, ActiveOpportunitiesHaveListings, Members
      <4> QED
        BY <1>3, <2>2, <4>1
    <3> QED
      BY <3>1, <3>2
  <2> QED
    BY <2>3, <2>4
<1> QED
  BY <1>5, <1>6, <1>7, TargetCases DEF MatchInv

-------------------------------------------------------------------------------
(* What an alert that follows its listing looks like afterwards.           *)
LEMMA FollowFollows ==
  ASSUME MatchInv, AlertsFollowListings, NEW l \in Seen, NEW p \in Locations, Resolve(l, p)
  PROVE  /\ Follow(l, p) \in [Listings -> Opportunities \union {NoOpportunity}]
         /\ \A k \in Listings :
               Follow(l, p)[k] # NoOpportunity => k \in first /\ Follow(l, p)[k] = member'[k]
         /\ \A k \in Listings : Follow(l, p)[k] = NoOpportunity <=> alert[k] = NoOpportunity
<1>1. l \in Listings /\ Target(l, p) \in Opportunities /\ Target(l, p) # NoOpportunity
  BY TargetCases, Ids DEF MatchInv, Seen
<1>2. \A k \in Listings : member'[k] = IF k = l THEN Target(l, p) ELSE member[k]
  BY <1>1 DEF Resolve, MatchInv, TypeOK
<1>3. Follow(l, p) \in [Listings -> Opportunities \union {NoOpportunity}]
  BY <1>1 DEF Follow, MatchInv, TypeOK
<1>4. \A k \in Listings :
         Follow(l, p)[k] = IF k = l /\ alert[l] # NoOpportunity THEN Target(l, p) ELSE alert[k]
  BY <1>1 DEF Follow, MatchInv, TypeOK, AlertsFollowListings
<1> QED
  BY <1>1, <1>2, <1>3, <1>4 DEF AlertsFollowListings

(* While the programs are registered, those that were stay visible.        *)
ProgramInv ==
    phase = "registering" =>
        \A q \in Programs \ unregistered : status[ProgramOpportunity(q)] = "active"

(* The inductive invariant.                                                *)
MatchingInv == MatchInv /\ AlertsFollowListings /\ ProgramInv

LEMMA InitMatching == Init => MatchingInv
<1> SUFFICES ASSUME Init PROVE MatchingInv
  OBVIOUS
<1>1. Seen = {}
  BY DEF Init, Seen
<1>2. TypeOK
  <2>1. PICK t \in Titles : /\ title = [l \in Listings |-> t]
                            /\ identity = [o \in Opportunities |-> [title |-> t, place |-> Absent]]
    BY DEF Init
  <2>2. title \in [Listings -> Titles] /\ place \in [Listings -> Locations]
    BY <2>1 DEF Init, Locations
  <2>3. identity \in [Opportunities -> [title : Titles, place : Locations]]
    BY <2>1 DEF Locations
  <2>4. /\ member \in [Listings -> Opportunities \union {NoOpportunity}]
        /\ alert \in [Listings -> Opportunities \union {NoOpportunity}]
        /\ status \in [Opportunities -> {"none", "active", "merged"}]
    BY DEF Init
  <2> QED
    <3>1. /\ processed = {} /\ first = {} /\ dedupKeys = {} /\ todo = {} /\ unregistered = {}
          /\ phase = "reconciling" /\ settled = FALSE /\ changes = 0
      BY DEF Init
    <3>2. changes \in 0..MaxChanges
      BY <3>1, OpportunityAssumption
    <3> QED
      BY <1>1, <2>2, <2>3, <2>4, <3>1, <3>2 DEF TypeOK, Phases
<1>3. ListingsAreVisible /\ ActiveOpportunitiesHaveListings
  BY <1>1, Ids DEF Init, ListingsAreVisible, ActiveOpportunitiesHaveListings
<1>4. AlertsFollowListings /\ ProgramInv
  BY DEF Init, AlertsFollowListings, ProgramInv
<1> QED
  BY <1>2, <1>3, <1>4 DEF MatchingInv, MatchInv

(* A new listing is shown as an opportunity of its own.                    *)
LEMMA UpsertNewStep ==
  ASSUME MatchingInv, NEW l \in Listings, NEW t \in Titles, UpsertNew(l, t)
  PROVE  MatchingInv'
<1> USE DEF MatchingInv, MatchInv
<1>1. Own(l) \in ListingOpportunities /\ Own(l) \in Opportunities /\ Own(l) # NoOpportunity
  BY Ids
<1>2. \A k \in Listings : member'[k] = IF k = l THEN Own(l) ELSE member[k]
  BY DEF UpsertNew, TypeOK
<1>3. \A o \in Opportunities : status'[o] = IF o = Own(l) THEN "active" ELSE status[o]
  BY DEF UpsertNew, TypeOK
<1>4. Seen' = Seen \union {l} /\ member[l] = NoOpportunity
  BY <1>1, <1>2 DEF Seen, UpsertNew
<1>5. TypeOK'
  BY <1>1, <1>4 DEF UpsertNew, TypeOK, alertVars, startupVars, Locations
<1>6. ListingsAreVisible'
  BY <1>1, <1>2, <1>3, <1>4 DEF ListingsAreVisible, Seen
<1>7. ActiveOpportunitiesHaveListings'
  <2> SUFFICES ASSUME NEW o \in ListingOpportunities, status'[o] = "active"
               PROVE  \E k \in Listings : member'[k] = o
    BY DEF ActiveOpportunitiesHaveListings, Members
  <2>1. CASE o = Own(l)
    BY <1>2, <2>1
  <2>2. CASE o # Own(l)
    <3>1. PICK k \in Listings : member[k] = o
      BY <1>3, <2>2, Ids DEF ActiveOpportunitiesHaveListings, Members
    <3>2. k # l
      BY <1>4, <3>1, Ids
    <3> QED
      BY <1>2, <3>1, <3>2
  <2> QED
    BY <2>1, <2>2
<1>8. AlertsFollowListings'
  <2>1. alert[l] = NoOpportunity
    BY DEF AlertsFollowListings, UpsertNew, TypeOK
  <2> QED
    BY <1>2, <2>1 DEF AlertsFollowListings, UpsertNew, alertVars
<1>9. ProgramInv'
  BY DEF ProgramInv, UpsertNew, startupVars
<1> QED
  BY <1>5, <1>6, <1>7, <1>8, <1>9

(* An analysis: the listing is resolved, its alert follows it, and one     *)
(* more may be created.                                                    *)
LEMMA SaveAnalysisStep ==
  ASSUME MatchingInv, NEW l \in Listings, NEW p \in Locations,
         NEW qualifies \in BOOLEAN, SaveAnalysis(l, p, qualifies)
  PROVE  MatchingInv'
<1> USE DEF MatchingInv, MatchInv
<1>1. l \in Seen /\ Resolve(l, p) /\ Target(l, p) \in Opportunities
  BY TargetCases DEF SaveAnalysis
<1>2. ListingsAreVisible' /\ ActiveOpportunitiesHaveListings'
  BY <1>1, ResolveKeepsMatch
<1>3. /\ member' \in [Listings -> Opportunities \union {NoOpportunity}]
      /\ status' \in [Opportunities -> {"none", "active", "merged"}]
      /\ identity' \in [Opportunities -> [title : Titles, place : Locations]]
      /\ Seen' = Seen
  BY <1>1, ResolveType
<1>4. /\ Follow(l, p) \in [Listings -> Opportunities \union {NoOpportunity}]
      /\ \A k \in Listings :
            Follow(l, p)[k] # NoOpportunity => k \in first /\ Follow(l, p)[k] = member'[k]
  BY <1>1, FollowFollows
<1>5. alert' \in {Follow(l, p), [Follow(l, p) EXCEPT ![l] = Target(l, p)]}
  BY DEF SaveAnalysis
<1>6. /\ alert' \in [Listings -> Opportunities \union {NoOpportunity}]
      /\ dedupKeys' \subseteq Opportunities
  BY <1>1, <1>4, <1>5 DEF SaveAnalysis, TypeOK
<1>7. /\ place' \in [Listings -> Locations] /\ first' = first \union {l}
      /\ processed' \subseteq first' /\ first' \subseteq Seen' /\ changes' \in 0..MaxChanges
  BY <1>1, <1>3, OpportunityAssumption DEF SaveAnalysis, Processed, TypeOK
<1>8. TypeOK'
  BY <1>3, <1>6, <1>7 DEF SaveAnalysis, TypeOK, startupVars
<1>9. AlertsFollowListings'
  <2>1. member'[l] = Target(l, p)
    BY <1>1 DEF Resolve, TypeOK
  <2> QED
    BY <1>4, <1>5, <1>7, <2>1 DEF AlertsFollowListings
<1>10. ProgramInv'
  BY DEF ProgramInv, SaveAnalysis, startupVars
<1> QED
  BY <1>2, <1>8, <1>9, <1>10

(* One listing of the startup pass.                                        *)
LEMMA ReconcileStep ==
  ASSUME MatchingInv, NEW l \in Listings, Reconcile(l)
  PROVE  MatchingInv'
<1> USE DEF MatchingInv, MatchInv
<1>1. l \in Seen /\ place[l] \in Locations /\ Resolve(l, place[l])
  BY DEF Reconcile, TypeOK
<1>2. ListingsAreVisible' /\ ActiveOpportunitiesHaveListings'
  BY <1>1, ResolveKeepsMatch
<1>3. /\ member' \in [Listings -> Opportunities \union {NoOpportunity}]
      /\ status' \in [Opportunities -> {"none", "active", "merged"}]
      /\ identity' \in [Opportunities -> [title : Titles, place : Locations]]
      /\ Seen' = Seen
  BY <1>1, ResolveType
<1>4. /\ alert' \in [Listings -> Opportunities \union {NoOpportunity}]
      /\ \A k \in Listings :
            alert'[k] # NoOpportunity => k \in first /\ alert'[k] = member'[k]
  BY <1>1, FollowFollows DEF Reconcile
<1>5. TypeOK'
  BY <1>3, <1>4 DEF Reconcile, TypeOK, analysisVars
<1>6. AlertsFollowListings'
  BY <1>4 DEF AlertsFollowListings, Reconcile, analysisVars
<1>7. ProgramInv'
  BY DEF ProgramInv, Reconcile
<1> QED
  BY <1>2, <1>5, <1>6, <1>7

(* A program's opportunity is no listing's own or split-off opportunity.   *)
LEMMA RegisterProgramStep ==
  ASSUME MatchingInv, NEW q \in Programs, RegisterProgram(q)
  PROVE  MatchingInv'
<1> USE DEF MatchingInv, MatchInv
<1>1. /\ ProgramOpportunity(q) \in Opportunities
      /\ ProgramOpportunity(q) \notin ListingOpportunities
  BY Ids
<1>2. \A o \in Opportunities :
         status'[o] = IF o = ProgramOpportunity(q) THEN "active" ELSE status[o]
  BY DEF RegisterProgram, TypeOK
<1>3. Seen' = Seen /\ \A o : Members(o)' = Members(o)
  BY DEF Seen, Members, RegisterProgram
<1>4. identity' \in [Opportunities -> [title : Titles, place : Locations]]
  <2>1. ProgramTitle[q] \in Titles
    BY OpportunityAssumption
  <2>2. identity[ProgramOpportunity(q)].place \in Locations
    BY <1>1 DEF TypeOK
  <2>3. DEFINE here == [title |-> ProgramTitle[q],
                        place |-> IF status[ProgramOpportunity(q)] = "none" THEN Absent
                                  ELSE identity[ProgramOpportunity(q)].place]
  <2>4. here \in [title : Titles, place : Locations]
    BY <2>1, <2>2 DEF Locations
  <2>5. identity' = [identity EXCEPT ![ProgramOpportunity(q)] = here]
    BY DEF RegisterProgram
  <2> QED
    BY <2>4, <2>5 DEF TypeOK
<1>5. status' \in [Opportunities -> {"none", "active", "merged"}] /\ settled' \in BOOLEAN
  BY DEF RegisterProgram, TypeOK
<1>6. TypeOK'
  BY <1>3, <1>4, <1>5 DEF RegisterProgram, TypeOK, analysisVars, alertVars
<1>7. ListingsAreVisible'
  BY <1>2, <1>3 DEF ListingsAreVisible, RegisterProgram
<1>8. ActiveOpportunitiesHaveListings'
  BY <1>1, <1>2, <1>3, Ids DEF ActiveOpportunitiesHaveListings
<1>9. AlertsFollowListings'
  BY DEF AlertsFollowListings, RegisterProgram, analysisVars, alertVars
<1>10. ProgramInv'
  BY <1>2, Ids DEF ProgramInv, RegisterProgram
<1> QED
  BY <1>6, <1>7, <1>8, <1>9, <1>10

(* The steps that move no listing.                                         *)
LEMMA OtherSteps ==
  ASSUME MatchingInv,
         \/ \E l \in Listings, t \in Titles : UpsertKnown(l, t)
         \/ \E l \in Listings : SaveAnalysisFailure(l)
         \/ Invalidate \/ Reconciled \/ Serve \/ Restart
         \/ UNCHANGED vars
  PROVE  MatchingInv'
<1> USE DEF MatchingInv, MatchInv
<1>1. UNCHANGED <<matchVars, alertVars, first>>
  BY DEF UpsertKnown, SaveAnalysisFailure, Invalidate, Reconciled, Serve, Restart, vars,
         analysisVars, matchVars, alertVars, startupVars
<1>2. Seen' = Seen /\ \A o : Members(o)' = Members(o)
  BY <1>1 DEF Seen, Members, matchVars
<1>3. ListingsAreVisible' /\ ActiveOpportunitiesHaveListings' /\ AlertsFollowListings'
  BY <1>1, <1>2 DEF ListingsAreVisible, ActiveOpportunitiesHaveListings, AlertsFollowListings,
                    matchVars, alertVars
<1>4. CASE \E l \in Listings, t \in Titles : UpsertKnown(l, t)
  <2>1. PICK l \in Listings, t \in Titles : UpsertKnown(l, t)
    BY <1>4
  <2>2. title' \in [Listings -> Titles] /\ changes' \in 0..MaxChanges
    BY <2>1, OpportunityAssumption DEF UpsertKnown, TypeOK
  <2>3. TypeOK'
    BY <1>1, <1>2, <2>1, <2>2 DEF UpsertKnown, TypeOK, matchVars, alertVars, startupVars
  <2>4. ProgramInv'
    BY <2>1 DEF UpsertKnown, ProgramInv, startupVars
  <2> QED
    BY <1>3, <2>3, <2>4
<1>5. CASE \E l \in Listings : SaveAnalysisFailure(l)
  BY <1>1, <1>2, <1>3, <1>5
  DEF SaveAnalysisFailure, TypeOK, ProgramInv, matchVars, alertVars, startupVars
<1>6. CASE Invalidate
  BY <1>1, <1>2, <1>3, <1>6
  DEF Invalidate, TypeOK, ProgramInv, matchVars, alertVars, startupVars
<1>7. CASE Reconciled
  BY <1>1, <1>2, <1>3, <1>7
  DEF Reconciled, TypeOK, Phases, ProgramInv, matchVars, alertVars, analysisVars
<1>8. CASE Serve
  BY <1>1, <1>2, <1>3, <1>8
  DEF Serve, TypeOK, Phases, ProgramInv, matchVars, alertVars, analysisVars
<1>9. CASE Restart
  BY <1>1, <1>2, <1>3, <1>9
  DEF Restart, TypeOK, Phases, ProgramInv, matchVars, alertVars, analysisVars
<1>10. CASE UNCHANGED vars
  BY <1>1, <1>2, <1>3, <1>10
  DEF vars, TypeOK, ProgramInv, matchVars, alertVars, analysisVars, startupVars
<1> QED
  BY <1>4, <1>5, <1>6, <1>7, <1>8, <1>9, <1>10

LEMMA MatchingStep == MatchingInv /\ [Next]_vars => MatchingInv'
<1> SUFFICES ASSUME MatchingInv, [Next]_vars PROVE MatchingInv'
  OBVIOUS
<1>1. ASSUME NEW l \in Listings, NEW t \in Titles, UpsertNew(l, t) PROVE MatchingInv'
  BY <1>1, UpsertNewStep
<1>2. ASSUME NEW l \in Listings, NEW p \in Locations, NEW qualifies \in BOOLEAN,
             SaveAnalysis(l, p, qualifies)
      PROVE  MatchingInv'
  BY <1>2, SaveAnalysisStep
<1>3. ASSUME NEW l \in Listings, Reconcile(l) PROVE MatchingInv'
  BY <1>3, ReconcileStep
<1>4. ASSUME NEW q \in Programs, RegisterProgram(q) PROVE MatchingInv'
  BY <1>4, RegisterProgramStep
<1> QED
  BY <1>1, <1>2, <1>3, <1>4, OtherSteps DEF Next

(* The invariant of the matching: types, visibility, no empty opportunity, *)
(* alerts that follow their listings and registered programs.              *)
THEOREM MatchingInvariant == Spec => []MatchingInv
<1>1. Init => MatchingInv
  BY InitMatching
<1>2. MatchingInv /\ [Next]_vars => MatchingInv'
  BY MatchingStep
<1> QED
  BY <1>1, <1>2, PTL DEF Spec

(* Every column keeps to its type; processed listings were processed for   *)
(* a first time, and the startup pass only visits known listings.          *)
THEOREM OpportunityTypes == Spec => []TypeOK
<1>1. MatchingInv => TypeOK
  BY DEF MatchingInv, MatchInv
<1> QED
  BY <1>1, MatchingInvariant, PTL

(* No sequence of merges, splits and restarts hides a listing.             *)
THEOREM NoListingDisappears == Spec => []ListingsAreVisible
<1>1. MatchingInv => ListingsAreVisible
  BY DEF MatchingInv, MatchInv
<1> QED
  BY <1>1, MatchingInvariant, PTL

(* No merge leaves an empty opportunity on the dashboard.                  *)
THEOREM NoEmptyOpportunity == Spec => []ActiveOpportunitiesHaveListings
<1>1. MatchingInv => ActiveOpportunitiesHaveListings
  BY DEF MatchingInv, MatchInv
<1> QED
  BY <1>1, MatchingInvariant, PTL

(* An alert is always filed under the opportunity of its listing.          *)
THEOREM AlertsStayWithListings == Spec => []AlertsFollowListings
<1>1. MatchingInv => AlertsFollowListings
  BY DEF MatchingInv
<1> QED
  BY <1>1, MatchingInvariant, PTL

(* Only the listing being analysed can be newly alerted about.             *)
LEMMA OnlySavesAlert ==
  ASSUME MatchingInv, [Next]_vars, NEW l \in Listings,
         alert[l] = NoOpportunity, alert'[l] # NoOpportunity
  PROVE  \E p \in Locations, qualifies \in BOOLEAN : SaveAnalysis(l, p, qualifies)
<1> USE DEF MatchingInv, MatchInv
<1>1. ASSUME NEW k \in Listings, NEW p \in Locations, NEW qualifies \in BOOLEAN,
             SaveAnalysis(k, p, qualifies)
      PROVE  k = l
  <2>1. k \in Seen /\ Resolve(k, p) /\ Target(k, p) \in Opportunities
    BY <1>1, TargetCases DEF SaveAnalysis
  <2>2. /\ Follow(k, p) \in [Listings -> Opportunities \union {NoOpportunity}]
        /\ Follow(k, p)[l] = NoOpportunity
    BY <2>1, FollowFollows
  <2>3. alert' \in {Follow(k, p), [Follow(k, p) EXCEPT ![k] = Target(k, p)]}
    BY <1>1 DEF SaveAnalysis
  <2> QED
    BY <2>2, <2>3
<1>2. ASSUME NEW k \in Listings, Reconcile(k) PROVE FALSE
  <2>1. k \in Seen /\ place[k] \in Locations /\ Resolve(k, place[k])
    BY <1>2 DEF Reconcile, TypeOK
  <2> QED
    BY <1>2, <2>1, FollowFollows DEF Reconcile
<1>3. CASE UNCHANGED alert
  BY <1>3
<1> QED
  BY <1>1, <1>2, <1>3
  DEF Next, UpsertNew, UpsertKnown, SaveAnalysisFailure, RegisterProgram, Invalidate,
      Reconciled, Serve, Restart, vars, alertVars

(* A listing is alerted about only when no other listing of its            *)
(* opportunity was: the history is looked up by opportunity, and it is     *)
(* that of the listings because alerts follow them.                        *)
THEOREM NoSecondAlert == Spec => AlertedOncePerOpportunity
<1>1. ASSUME MatchingInv, MatchingInv', [Next]_vars,
             NEW l \in Listings, NEW k \in Listings,
             alert[l] = NoOpportunity, alert'[l] # NoOpportunity,
             k # l, member'[k] = member'[l]
      PROVE  alert'[k] = NoOpportunity
  <2> USE DEF MatchingInv, MatchInv
  <2>1. PICK p \in Locations, qualifies \in BOOLEAN : SaveAnalysis(l, p, qualifies)
    BY <1>1, OnlySavesAlert
  <2>2. l \in Seen /\ Resolve(l, p) /\ Target(l, p) \in Opportunities
    BY <1>1, <2>1, TargetCases DEF SaveAnalysis
  <2>3. /\ Follow(l, p) \in [Listings -> Opportunities \union {NoOpportunity}]
        /\ Follow(l, p)[l] = NoOpportunity
    BY <1>1, <2>2, FollowFollows
  <2>4. MayAlert(l, p) /\ alert' = [Follow(l, p) EXCEPT ![l] = Target(l, p)]
    BY <1>1, <2>1, <2>3 DEF SaveAnalysis
  <2>5. alert'[k] # Target(l, p)
    BY <1>1, <2>3, <2>4 DEF MayAlert
  <2>6. member'[l] = Target(l, p)
    BY <1>1, <2>2 DEF Resolve, TypeOK
  <2> QED
    BY <1>1, <2>5, <2>6 DEF AlertsFollowListings
<1>2. MatchingInv /\ MatchingInv' /\ [Next]_vars
      => [\A l, k \in Listings :
             /\ alert[l] = NoOpportunity
             /\ alert'[l] # NoOpportunity
             /\ k # l
             /\ member'[k] = member'[l]
             => alert'[k] = NoOpportunity]_vars
  BY <1>1
<1> QED
  BY <1>2, MatchingInvariant, PTL DEF Spec, AlertedOncePerOpportunity

(* Serving starts with every configured program window visible.            *)
THEOREM ProgramsVisibleAtStart == Spec => StartupShowsPrograms
<1>1. MatchingInv /\ [Next]_vars
      => [phase = "registering" /\ phase' = "serving"
             => \A q \in Programs : status'[ProgramOpportunity(q)] = "active"]_vars
  <2> SUFFICES ASSUME MatchingInv, Next, phase = "registering", phase' = "serving",
                      NEW q \in Programs
               PROVE  status'[ProgramOpportunity(q)] = "active"
    BY DEF vars, startupVars
  <2>1. Serve
    BY DEF Next, UpsertNew, UpsertKnown, SaveAnalysis, SaveAnalysisFailure, RegisterProgram,
           Invalidate, Reconcile, Reconciled, Restart, startupVars
  <2> QED
    BY <2>1 DEF Serve, MatchingInv, ProgramInv, matchVars
<1> QED
  BY <1>1, MatchingInvariant, PTL DEF Spec, StartupShowsPrograms
===============================================================================
