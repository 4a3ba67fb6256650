------------------------------ MODULE LearnedSource ------------------------------
(***************************************************************************)
(* One source read with a learned recipe (internal/scraper/                *)
(* learnedselector.go): the versions of its recipe, the snapshot of what   *)
(* the active one last found, and the copy of both in company_sources      *)
(* (internal/store/sqlite.go, SaveSourceRecipe, UpdateSourceRecipe-        *)
(* Snapshot).  What a recipe finds on a page is an outcome: the page is    *)
(* not the right one, a card does not have the expected shape, or a number *)
(* of listings.  The model that writes recipes may answer anything.        *)
(***************************************************************************)
EXTENDS Naturals, Sequences

CONSTANTS
    MaxListings,  \* how many listings a page may hold
    MaxVersions   \* bound on learned versions

ASSUME LearnedAssumption == MaxListings \in Nat \ {0} /\ MaxVersions \in Nat

(* What runRecipe returns: an error, or how many listings.                 *)
Errors == {"identity", "schema"}
Outcome == [error : Errors, count : {0}] \union [error : {"none"}, count : 0..MaxListings]

VARIABLES
    recipes,  \* source_extraction_recipes: active, golden_listing_count by version
    health,   \* company_sources: strategy_version, last_listing_count
    visit     \* the visit under way

learnedVars == <<recipes, health, visit>>

(* A visit holds the recipe it loaded (0 = none), the step it has come to, *)
(* and the number of listings its last run found.                          *)
NoVisit == [phase |-> "idle", version |-> 0, golden |-> 0, count |-> 0]

Active == {v \in DOMAIN recipes : recipes[v].active}
VisitAt(phase) == visit.phase = phase

-------------------------------------------------------------------------------
(* Operators whose name starts with Bad are deliberate mistakes: no action *)
(* uses them.                                                              *)

(* UPDATE ... SET active = 0.                                              *)
Retired == [v \in DOMAIN recipes |-> [recipes[v] EXCEPT !.active = FALSE]]

(* The page is fetched and LoadSourceRecipe finds the active version; with *)
(* none, the model is asked at once (initial_setup).                       *)
LoadRecipe ==
    /\ VisitAt("idle")
    /\ \/ /\ Active = {}
          /\ visit' = [NoVisit EXCEPT !.phase = "learning"]
       \/ \E v \in Active :
             visit' = [NoVisit EXCEPT !.phase = "running", !.version = v,
                                      !.golden = recipes[v].golden]
    /\ UNCHANGED <<recipes, health>>

(* An empty page is taken for what it is.                                  *)
BadRunRecipe(outcome) ==
    /\ VisitAt("running")
    /\ visit' = [visit EXCEPT !.count = outcome.count,
                              !.phase = IF outcome.error # "none" THEN "learning" ELSE "snapshot"]
    /\ UNCHANGED <<recipes, health>>

(* runRecipe with the active version.  An error, or nothing where there    *)
(* used to be something, calls for a new recipe.                           *)
RunRecipe(outcome) ==
    /\ VisitAt("running")
    /\ visit' = [visit EXCEPT !.count = outcome.count,
                              !.phase = IF \/ outcome.error # "none"
                                           \/ outcome.count = 0 /\ visit.golden > 0
                                        THEN "learning" ELSE "snapshot"]
    /\ UNCHANGED <<recipes, health>>

(* UpdateSourceRecipeSnapshot: only of the version that is active.         *)
UpdateSnapshot ==
    /\ VisitAt("snapshot")
    /\ visit.version \in Active
    /\ recipes' = [recipes EXCEPT ![visit.version].golden = visit.count]
    /\ health' = [version |-> visit.version, count |-> visit.count]
    /\ visit' = NoVisit

(* learnAndRun: the model answers, its recipe is valid and is tried on the *)
(* page that was fetched; it has to find something there.                  *)
Learn(outcome) ==
    /\ VisitAt("learning")
    /\ outcome.error = "none" /\ outcome.count > 0
    /\ visit' = [visit EXCEPT !.phase = "learned", !.count = outcome.count]
    /\ UNCHANGED <<recipes, health>>

(* The version that was loaded is retired, whatever is active.             *)
BadSaveRecipe ==
    /\ VisitAt("learned") /\ Len(recipes) < MaxVersions
    /\ recipes' = Append(IF visit.version = 0 THEN recipes
                         ELSE [recipes EXCEPT ![visit.version].active = FALSE],
                         [active |-> TRUE, golden |-> visit.count])
    /\ UNCHANGED health
    /\ visit' = NoVisit

(* SaveSourceRecipe, one transaction: the active version is retired, the   *)
(* next one inserted, the source's health updated.                         *)
SaveRecipe ==
    /\ VisitAt("learned") /\ Len(recipes) < MaxVersions
    /\ recipes' = Append(Retired, [active |-> TRUE, golden |-> visit.count])
    /\ health' = [version |-> Len(recipes) + 1, count |-> visit.count]
    /\ visit' = NoVisit

(* The visit ends with an error: the model does not answer, its recipe is  *)
(* invalid or finds nothing, a write fails, or the process dies.           *)
VisitFails ==
    /\ ~VisitAt("idle")
    /\ visit' = NoVisit
    /\ UNCHANGED <<recipes, health>>

-------------------------------------------------------------------------------
LearnedInit ==
    /\ recipes = <<>>
    /\ health = [version |-> 0, count |-> 0]
    /\ visit = NoVisit

LearnedNext ==
    \/ LoadRecipe \/ UpdateSnapshot \/ SaveRecipe \/ VisitFails
    \/ \E outcome \in Outcome : RunRecipe(outcome) \/ Learn(outcome)

LearnedSpec == LearnedInit /\ [][LearnedNext]_learnedVars
-------------------------------------------------------------------------------
LearnedTypeOK ==
    /\ recipes \in Seq([active : BOOLEAN, golden : 0..MaxListings])
    /\ health \in [version : Nat, count : 0..MaxListings]
    /\ visit \in [phase : {"idle", "running", "snapshot", "learning", "learned"},
                  version : Nat, golden : 0..MaxListings, count : 0..MaxListings]

(* The newest version is the one in use, no other is, it found listings on *)
(* every page it was last used on, and company_sources tells the same: so  *)
(* a page that goes empty is always noticed.                               *)
NewestRecipeInUse ==
    /\ Active = IF recipes = <<>> THEN {} ELSE {Len(recipes)}
    /\ recipes # <<>> => /\ recipes[Len(recipes)].golden > 0
                         /\ health = [version |-> Len(recipes),
                                      count |-> recipes[Len(recipes)].golden]
================================================================================
