------------------------------ MODULE Opportunities ------------------------------
(***************************************************************************)
(* Canonical opportunities of one company (the matcher never crosses that  *)
(* boundary): which listings are shown as one opportunity, how an analysis *)
(* merges and splits them, what the pass over all listings at startup      *)
(* does, and how the once-per-opportunity alert follows.  The tables are   *)
(* listings, listing_analyses, opportunities, listing_opportunities and    *)
(* notifications in internal/store/sqlite.go; the decisions are those of   *)
(* internal/opportunity/matcher.go.                                        *)
(*                                                                         *)
(* Listings are numbered in the order of first_seen_at and id.  Titles and *)
(* locations are normalised ones.  The audit table opportunity_match_events*)
(* and the scores in opportunities are left out: nothing here reads them.  *)
(***************************************************************************)
EXTENDS Naturals, FiniteSets

CONSTANTS
    ListingCount,   \* how many listings are ever found
    Titles,         \* normalised titles
    Places,         \* normalised locations, without the absent one
    Absent,         \* the absent location
    Programs,       \* configured program windows
    ProgramTitle,   \* ProgramTitle[q]: the normalised name of program window q
    Fuzzy,          \* sets of two titles whose similarity is at least 0.92
    Similar,        \* sets of two titles whose similarity is in [0.80, 0.92)
    MaxChanges      \* bound on retitled and on repeatedly analysed listings

ASSUME OpportunityAssumption ==
    /\ ListingCount \in Nat
    /\ Absent \notin Places
    /\ ProgramTitle \in [Programs -> Titles]
    /\ Fuzzy \intersect Similar = {}
    /\ MaxChanges \in Nat

Listings == 1..ListingCount
Locations == Places \union {Absent}

(* stableOpportunityID, stableSplitOpportunityID and                       *)
(* stableProgramOpportunityID: distinct ids for distinct arguments.        *)
Own(l) == <<"own", l>>
SplitOff(l, t, p) == <<"split", l, t, p>>
ProgramOpportunity(q) == <<"program", q>>
NoOpportunity == <<"none">>

ListingOpportunities ==
    {Own(l) : l \in Listings} \union
    {SplitOff(l, t, p) : l \in Listings, t \in Titles, p \in Locations}
Opportunities == ListingOpportunities \union {ProgramOpportunity(q) : q \in Programs}

VARIABLES
    title,       \* title[l]: the title last seen
    place,       \* place[l]: the location of the last successful analysis
    processed,   \* listings whose processing_status is 'processed'
    first,       \* listings whose first_processed_at is set
    member,      \* member[l]: l's row in listing_opportunities
    status,      \* status[o]: opportunities.status, "none" = no row
    identity,    \* identity[o]: normalised title and location of o
    alert,       \* alert[l]: opportunity_id of the notification l caused
    dedupKeys,   \* opportunities whose dedup_key a notification holds
    phase,       \* "reconciling", "registering" or "serving"
    todo,        \* listings the startup pass has still to visit
    unregistered,\* program windows the startup has still to register
    settled,     \* observer: nothing was written since a complete pass
    changes      \* new titles and repeated analyses so far

analysisVars == <<title, place, processed, first>>
matchVars == <<member, status, identity>>
alertVars == <<alert, dedupKeys>>
startupVars == <<phase, todo, unregistered>>
vars == <<analysisVars, matchVars, alertVars, startupVars, settled, changes>>

Seen == {l \in Listings : member[l] # NoOpportunity}
Members(o) == {l \in Listings : member[l] = o}
Others(l) == Members(member[l]) \ {l}

-------------------------------------------------------------------------------
(* compareLocations.                                                       *)
Relation(p, q) ==
    IF p = Absent /\ q = Absent THEN "absent"
    ELSE IF p = Absent \/ q = Absent THEN "incomplete"
    ELSE IF p = q THEN "compatible" ELSE "conflict"

(* Evaluate and classify.                                                  *)
AutoMerge(t, p, u, q) ==
    \/ t = u /\ Relation(p, q) \in {"compatible", "absent"}
    \/ {t, u} \in Fuzzy /\ Relation(p, q) = "compatible"

Separate(t, p, u, q) ==
    \/ Relation(p, q) = "conflict"
    \/ t # u /\ {t, u} \notin Fuzzy \union Similar

(* The other member that was seen first stands for the whole opportunity.  *)
Representative(l) == CHOOSE k \in Others(l) : \A m \in Others(l) : k <= m

(* The active opportunities that l, at p, can be merged into.              *)
Candidates(l, p) ==
    {o \in Opportunities : /\ status[o] = "active" /\ o # member[l]
                           /\ AutoMerge(title[l], p, identity[o].title, identity[o].place)}

-------------------------------------------------------------------------------
(* Operators whose name starts with Bad are deliberate mistakes: no action *)
(* uses them.                                                              *)

(* splitOpportunity: back to l's own opportunity, or to one named after    *)
(* the conflicting identity.                                               *)
SplitTarget(l, p) ==
    IF member[l] = Own(l) THEN SplitOff(l, title[l], p) ELSE Own(l)

(* resolveOpportunity: the opportunity l ends in when it is analysed at p. *)
Target(l, p) ==
    IF Others(l) # {}
    THEN LET k == Representative(l) IN
         IF Separate(title[l], p, title[k], place[k]) THEN SplitTarget(l, p) ELSE member[l]
    ELSE LET candidates == Candidates(l, p) IN
         IF \E o \in candidates : candidates = {o}
         THEN CHOOSE o \in candidates : candidates = {o} ELSE member[l]

(* A merge leaves the emptied opportunity active.                          *)
BadStatusKept(l, p) ==
    IF Others(l) = {} THEN [status EXCEPT ![member[l]] = "active"]
    ELSE IF Target(l, p) = member[l] THEN status
    ELSE [status EXCEPT ![Target(l, p)] = "active"]

(* The upsert of a split writes 'active' only into a new row.              *)
BadStatusNotRevived(l, p) ==
    IF Others(l) = {}
    THEN [status EXCEPT ![member[l]] = IF Target(l, p) = member[l] THEN "active" ELSE "merged"]
    ELSE IF Target(l, p) = member[l] THEN status
    ELSE [status EXCEPT ![Target(l, p)] = IF @ = "none" THEN "active" ELSE @]

(* The opportunity of a lone listing is active, until the listing joins    *)
(* another one; a split makes its target active, or active again.          *)
NewStatus(l, p) ==
    IF Others(l) = {}
    THEN [status EXCEPT ![member[l]] = IF Target(l, p) = member[l] THEN "active" ELSE "merged"]
    ELSE IF Target(l, p) = member[l] THEN status
    ELSE [status EXCEPT ![Target(l, p)] = "active"]

(* A lone listing writes its identity into its opportunity, even into the  *)
(* one it leaves; a listing that is split off into the target.             *)
NewIdentity(l, p) ==
    LET here == [title |-> title[l], place |-> p] IN
    IF Others(l) = {} THEN [identity EXCEPT ![member[l]] = here]
    ELSE IF Target(l, p) = member[l] THEN identity
    ELSE [identity EXCEPT ![Target(l, p)] = here]

(* The rows of opportunities and listing_opportunities that                *)
(* resolveOpportunity writes.                                              *)
Resolve(l, p) ==
    /\ member' = [member EXCEPT ![l] = Target(l, p)]
    /\ status' = NewStatus(l, p)
    /\ identity' = NewIdentity(l, p)

(* The notification stays with the opportunity it was sent for.            *)
BadFollow(l, p) == alert

(* A listing that moves takes the notification it caused with it.          *)
Follow(l, p) ==
    IF Target(l, p) = member[l] \/ alert[l] = NoOpportunity THEN alert
    ELSE [alert EXCEPT ![l] = Target(l, p)]

(* Only the history of the listing itself is looked at.                    *)
BadMayAlert(l, p) == l \notin first

(* enqueueListingNotification, once the analysis qualifies: the listing's  *)
(* first success, no event of the opportunity and its dedup_key unused.    *)
MayAlert(l, p) ==
    /\ l \notin first
    /\ \A k \in Listings : Follow(l, p)[k] # Target(l, p)
    /\ Target(l, p) \notin dedupKeys

-------------------------------------------------------------------------------
(* first_processed_at is not among the columns written.                    *)
BadProcessed(l, p) ==
    /\ place' = [place EXCEPT ![l] = p]
    /\ processed' = processed \union {l}
    /\ UNCHANGED first

(* The row SaveAnalysis upserts; first_processed_at is only set once.      *)
Processed(l, p) ==
    /\ place' = [place EXCEPT ![l] = p]
    /\ processed' = processed \union {l}
    /\ first' = first \union {l}

(* UpsertRawListing of a listing seen for the first time: it starts as an  *)
(* opportunity of its own.                                                 *)
UpsertNew(l, t) ==
    /\ phase = "serving"
    /\ l \notin Seen
    /\ \A k \in 1..(l - 1) : k \in Seen
    /\ title' = [title EXCEPT ![l] = t]
    /\ member' = [member EXCEPT ![l] = Own(l)]
    /\ status' = [status EXCEPT ![Own(l)] = "active"]
    /\ identity' = [identity EXCEPT ![Own(l)] = [title |-> t, place |-> Absent]]
    /\ settled' = FALSE
    /\ UNCHANGED <<place, processed, first, alertVars, startupVars, changes>>

(* UpsertRawListing of a known listing: the new title is stored with the   *)
(* listing, its opportunity keeps the identity it had.                     *)
UpsertKnown(l, t) ==
    /\ phase = "serving"
    /\ l \in Seen
    /\ title[l] # t
    /\ changes < MaxChanges
    /\ changes' = changes + 1
    /\ title' = [title EXCEPT ![l] = t]
    /\ settled' = FALSE
    /\ UNCHANGED <<place, processed, first, matchVars, alertVars, startupVars>>

(* SaveAnalysis, one transaction.  qualifies: trust, priority and          *)
(* assessment allow an alert.  A processed listing is saved again when a   *)
(* scan and a retry picked it up together.                                 *)
SaveAnalysis(l, p, qualifies) ==
    /\ phase = "serving"
    /\ l \in Seen
    /\ changes' = IF l \in first THEN changes + 1 ELSE changes
    /\ changes' <= MaxChanges
    /\ Processed(l, p)
    /\ Resolve(l, p)
    /\ \/ /\ qualifies /\ MayAlert(l, p)
          /\ alert' = [Follow(l, p) EXCEPT ![l] = Target(l, p)]
          /\ dedupKeys' = dedupKeys \union {Target(l, p)}
       \/ /\ ~(qualifies /\ MayAlert(l, p))
          /\ alert' = Follow(l, p)
          /\ UNCHANGED dedupKeys
    /\ settled' = FALSE
    /\ UNCHANGED <<title, startupVars>>

(* SaveAnalysisFailure: the listing becomes pending, its values stay.      *)
SaveAnalysisFailure(l) ==
    /\ phase = "serving"
    /\ l \in Seen
    /\ processed' = processed \ {l}
    /\ settled' = FALSE
    /\ UNCHANGED <<title, place, first, matchVars, alertVars, startupVars, changes>>

(* InvalidateProcessedAnalyses, run by cmd/reassess next to the server.    *)
Invalidate ==
    /\ processed # {}
    /\ processed' = {}
    /\ settled' = FALSE
    /\ UNCHANGED <<title, place, first, matchVars, alertVars, startupVars, changes>>

-------------------------------------------------------------------------------
(* One transaction of ReconcileOpportunities: the next listing is resolved *)
(* again at the location stored for it.                                    *)
Reconcile(l) ==
    /\ phase = "reconciling"
    /\ l \in todo
    /\ \A k \in todo : l <= k
    /\ todo' = todo \ {l}
    /\ Resolve(l, place[l])
    /\ alert' = Follow(l, place[l])
    /\ UNCHANGED <<analysisVars, dedupKeys, phase, unregistered, settled, changes>>

(* The pass is over; the configured sources and programs are registered.   *)
Reconciled ==
    /\ phase = "reconciling"
    /\ todo = {}
    /\ phase' = "registering"
    /\ unregistered' = Programs
    /\ settled' = TRUE
    /\ UNCHANGED <<analysisVars, matchVars, alertVars, todo, changes>>

(* The program's row keeps the status it has.                              *)
BadRegisterProgram(q) ==
    LET o == ProgramOpportunity(q) IN
    /\ phase = "registering"
    /\ q \in unregistered
    /\ unregistered' = unregistered \ {q}
    /\ identity' = [identity EXCEPT ![o] =
                       [title |-> ProgramTitle[q],
                        place |-> IF status[o] = "none" THEN Absent ELSE @.place]]
    /\ status' = [status EXCEPT ![o] = IF @ = "none" THEN "active" ELSE @]
    /\ settled' = (settled /\ identity' = identity /\ status' = status)
    /\ UNCHANGED <<analysisVars, member, alertVars, phase, todo, changes>>

(* RegisterProgramWindow: the opportunity of the program becomes active    *)
(* under the program's name; an existing row keeps its location.           *)
RegisterProgram(q) ==
    LET o == ProgramOpportunity(q) IN
    /\ phase = "registering"
    /\ q \in unregistered
    /\ unregistered' = unregistered \ {q}
    /\ identity' = [identity EXCEPT ![o] =
                       [title |-> ProgramTitle[q],
                        place |-> IF status[o] = "none" THEN Absent ELSE @.place]]
    /\ status' = [status EXCEPT ![o] = "active"]
    /\ settled' = (settled /\ identity' = identity /\ status' = status)
    /\ UNCHANGED <<analysisVars, member, alertVars, phase, todo, changes>>

(* main starts the dispatcher, the scheduler and the HTTP server.          *)
Serve ==
    /\ phase = "registering"
    /\ unregistered = {}
    /\ phase' = "serving"
    /\ UNCHANGED <<analysisVars, matchVars, alertVars, todo, unregistered, settled, changes>>

(* The process ends, at any moment, and is started again.                  *)
Restart ==
    /\ phase' = "reconciling"
    /\ todo' = processed
    /\ UNCHANGED <<analysisVars, matchVars, alertVars, unregistered, settled, changes>>

-------------------------------------------------------------------------------
Init ==
    \E t \in Titles :
        /\ title = [l \in Listings |-> t]
        /\ place = [l \in Listings |-> Absent]
        /\ processed = {}
        /\ first = {}
        /\ member = [l \in Listings |-> NoOpportunity]
        /\ status = [o \in Opportunities |-> "none"]
        /\ identity = [o \in Opportunities |-> [title |-> t, place |-> Absent]]
        /\ alert = [l \in Listings |-> NoOpportunity]
        /\ dedupKeys = {}
        /\ phase = "reconciling"
        /\ todo = {}
        /\ unregistered = {}
        /\ settled = FALSE
        /\ changes = 0

Next ==
    \/ \E l \in Listings :
          \/ \E t \in Titles : UpsertNew(l, t) \/ UpsertKnown(l, t)
          \/ \E p \in Locations, qualifies \in BOOLEAN : SaveAnalysis(l, p, qualifies)
          \/ SaveAnalysisFailure(l)
          \/ Reconcile(l)
    \/ \E q \in Programs : RegisterProgram(q)
    \/ Invalidate \/ Reconciled \/ Serve \/ Restart

Spec == Init /\ [][Next]_vars

-------------------------------------------------------------------------------
Phases == {"reconciling", "registering", "serving"}

TypeOK ==
    /\ title \in [Listings -> Titles]
    /\ place \in [Listings -> Locations]
    /\ first \subseteq Seen
    /\ processed \subseteq first
    /\ member \in [Listings -> Opportunities \union {NoOpportunity}]
    /\ status \in [Opportunities -> {"none", "active", "merged"}]
    /\ identity \in [Opportunities -> [title : Titles, place : Locations]]
    /\ alert \in [Listings -> Opportunities \union {NoOpportunity}]
    /\ dedupKeys \subseteq Opportunities
    /\ phase \in Phases
    /\ todo \subseteq Seen
    /\ unregistered \subseteq Programs
    /\ settled \in BOOLEAN
    /\ changes \in 0..MaxChanges

(* No listing disappears: the opportunity every listing belongs to is      *)
(* active, whatever was merged, split or revived before.  The dashboard    *)
(* and the history only show active opportunities.                         *)
ListingsAreVisible ==
    \A l \in Seen : member[l] \in Opportunities /\ status[member[l]] = "active"

(* Whatever listings did to the opportunity of a program window before the *)
(* restart (one that had joined it alone may have taken it along into      *)
(* another), serving starts with every program window visible.             *)
StartupShowsPrograms ==
    [][phase = "registering" /\ phase' = "serving"
          => \A q \in Programs : status'[ProgramOpportunity(q)] = "active"]_vars

(* No empty card: an active opportunity that stands for no program window  *)
(* has a listing, so a merge retires what it empties.                      *)
ActiveOpportunitiesHaveListings ==
    \A o \in ListingOpportunities : status[o] = "active" => Members(o) # {}

(* The alert a listing caused belongs to the opportunity the listing is in *)
(* now, so the history of an opportunity is that of its listings.          *)
AlertsFollowListings ==
    \A l \in Listings : alert[l] # NoOpportunity => l \in first /\ alert[l] = member[l]

(* Whatever merges and splits did, no listing is alerted about while       *)
(* another listing of its opportunity already was.                         *)
AlertedOncePerOpportunity ==
    [][\A l, k \in Listings :
          /\ alert[l] = NoOpportunity
          /\ alert'[l] # NoOpportunity
          /\ k # l
          /\ member'[k] = member'[l]
          => alert'[k] = NoOpportunity]_vars

(* README: the first successful analysis of a qualifying listing creates   *)
(* the one event of its opportunity, so afterwards some listing of the     *)
(* opportunity was alerted about.                                          *)
FirstMatchAlerts ==
    [][\A l \in Listings, p \in Locations :
          /\ l \notin first
          /\ SaveAnalysis(l, p, TRUE)
          => \E k \in Listings : member'[k] = member'[l] /\ alert'[k] # NoOpportunity]_vars

(* ReconcileOpportunities' comment: safe to run on every startup,          *)
(* established memberships stay unchanged.  A pass over what the previous  *)
(* pass left, with nothing written in between, moves no listing.           *)
SecondPassMovesNothing ==
    [][phase = "reconciling" /\ settled => UNCHANGED member]_vars

===============================================================================
