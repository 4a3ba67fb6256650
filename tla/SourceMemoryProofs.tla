--------------------------- MODULE SourceMemoryProofs ---------------------------
(***************************************************************************)
(* What a source remembers between visits, for every number of entries,    *)
(* recipes and blocks and for every bound on faults and edits: each of the *)
(* three sources has an inductive invariant that ties what is remembered   *)
(* to what was really handed over, learned or answered.                    *)
(***************************************************************************)
EXTENDS FeedSource, LearnedSource, GenericSource, SequenceTheorems, TLAPS

-------------------------------------------------------------------------------
(* A learned source.                                                       *)

(* What a visit under way knows of the recipes: the version it extracts    *)
(* with is the newest and still expects what it expected when it was       *)
(* loaded.                                                                 *)
VisitFits ==
    /\ visit.phase \in {"running", "snapshot"} =>
          /\ visit.version = Len(recipes) /\ visit.version # 0
          /\ visit.golden = recipes[visit.version].golden
    /\ visit.phase \in {"snapshot", "learned"} => visit.count > 0

(* The inductive invariant of the learned sources.                         *)
LearnedInv == LearnedTypeOK /\ NewestRecipeInUse /\ VisitFits

(* The rows of source_extraction_recipes.                                  *)
Recipes == [active : BOOLEAN, golden : 0..MaxListings]

(* The versions are numbered from 1 without gaps.                          *)
LEMMA RecipesAreSequence ==
  ASSUME LearnedTypeOK
  PROVE  /\ recipes \in Seq(Recipes)
         /\ recipes \in [1..Len(recipes) -> Recipes]
         /\ DOMAIN recipes = 1..Len(recipes)
         /\ Len(recipes) \in Nat
         /\ recipes = <<>> <=> Len(recipes) = 0
<1>1. recipes \in Seq(Recipes)
  BY DEF LearnedTypeOK, Recipes
<1> QED
  BY <1>1, LenProperties, EmptySeq

(* Retiring keeps every row and leaves none in use.                        *)
LEMMA RetiredType ==
  ASSUME LearnedTypeOK
  PROVE  /\ Retired \in Seq(Recipes)
         /\ Len(Retired) = Len(recipes)
         /\ \A v \in 1..Len(recipes) : ~Retired[v].active
<1>1. ASSUME NEW v \in 1..Len(recipes)
      PROVE  [recipes[v] EXCEPT !.active = FALSE] \in Recipes /\ ~[recipes[v] EXCEPT !.active = FALSE].active
  <2>1. recipes[v] \in Recipes
    BY RecipesAreSequence
  <2> QED
    BY <2>1 DEF Recipes
<1>2. Retired \in [1..Len(recipes) -> Recipes] /\ \A v \in 1..Len(recipes) : ~Retired[v].active
  BY <1>1, RecipesAreSequence DEF Retired
<1>3. Retired \in Seq(Recipes)
  BY <1>2, RecipesAreSequence, SeqDef
<1>4. Len(Retired) = Len(recipes)
  BY <1>2, <1>3, RecipesAreSequence, LenProperties
<1> QED
  BY <1>2, <1>3, <1>4

(* Nothing is learned at the start.                                        *)
LEMMA LearnedStarts ==
  ASSUME LearnedInit PROVE LearnedInv
<1> USE LearnedAssumption
<1>1. LearnedTypeOK
  BY EmptySeq DEF LearnedInit, LearnedTypeOK, NoVisit
<1>2. NewestRecipeInUse /\ VisitFits
  BY DEF LearnedInit, NewestRecipeInUse, VisitFits, NoVisit, Active
<1> QED
  BY <1>1, <1>2 DEF LearnedInv

(* Every step of a learned source keeps the invariant.                     *)
LEMMA LearnedSteps ==
  ASSUME LearnedInv, [LearnedNext]_learnedVars
  PROVE  LearnedInv'
<1> USE LearnedAssumption
<1> DEFINE n == Len(recipes)
<1>0. /\ recipes \in [1..n -> Recipes] /\ DOMAIN recipes = 1..n /\ n \in Nat
      /\ recipes = <<>> <=> n = 0
      /\ recipes \in Seq(Recipes)
  BY RecipesAreSequence DEF LearnedInv
<1>1. CASE LoadRecipe
  <2>0. recipes' = recipes /\ health' = health
    BY <1>1 DEF LoadRecipe
  <2>1. ASSUME NEW v \in Active, visit' = [NoVisit EXCEPT !.phase = "running", !.version = v,
                                      !.golden = recipes[v].golden]
        PROVE  LearnedTypeOK' /\ VisitFits'
    <3>1. v = n /\ n > 0
      BY <1>0, <2>1 DEF LearnedInv, NewestRecipeInUse
    <3>2. recipes[v].golden \in 0..MaxListings
      BY <3>1, <1>0 DEF Recipes
    <3>3. /\ visit'.phase = "running" /\ visit'.version = v
          /\ visit'.golden = recipes[v].golden /\ visit'.count = 0
          /\ visit' = [phase |-> "running", version |-> v, golden |-> recipes[v].golden, count |-> 0]
      BY <2>1 DEF NoVisit
    <3>4. LearnedTypeOK'
      BY <1>0, <2>0, <3>1, <3>2, <3>3 DEF LearnedInv, LearnedTypeOK
    <3>5. VisitFits'
      BY <1>0, <2>0, <3>1, <3>3 DEF VisitFits
    <3> QED
      BY <3>4, <3>5
  <2>2. ASSUME visit' = [NoVisit EXCEPT !.phase = "learning"]
        PROVE  LearnedTypeOK' /\ VisitFits'
    <3>1. /\ visit'.phase = "learning"
          /\ visit' = [phase |-> "learning", version |-> 0, golden |-> 0, count |-> 0]
      BY <2>2 DEF NoVisit
    <3> QED
      BY <2>0, <3>1 DEF LearnedInv, LearnedTypeOK, VisitFits
  <2>3. LearnedTypeOK' /\ VisitFits'
    BY <1>1, <2>1, <2>2 DEF LoadRecipe
  <2> QED
    BY <1>1, <2>3 DEF LoadRecipe, LearnedInv, NewestRecipeInUse, Active
<1>2. ASSUME NEW outcome \in Outcome, RunRecipe(outcome) \/ Learn(outcome)
      PROVE  LearnedInv'
  <2>1. outcome.count \in 0..MaxListings /\ outcome.error \in {"identity", "schema", "none"}
    BY DEF Outcome, Errors
  <2>2. LearnedTypeOK'
    BY <1>2, <2>1 DEF RunRecipe, Learn, LearnedInv, LearnedTypeOK
  <2>3. RunRecipe(outcome) /\ visit'.phase = "snapshot" => visit.golden > 0
    BY <1>0 DEF RunRecipe, LearnedInv, VisitFits, NewestRecipeInUse, VisitAt
  <2>4. ASSUME RunRecipe(outcome) PROVE VisitFits'
    <3>1. visit'.phase \in {"learning", "snapshot"}
      BY <2>4 DEF RunRecipe, LearnedInv, LearnedTypeOK
    <3>2. /\ visit'.version = visit.version /\ visit'.golden = visit.golden
          /\ visit'.count = outcome.count /\ visit.phase = "running"
      BY <2>4 DEF RunRecipe, LearnedInv, LearnedTypeOK, VisitAt
    <3>3. visit'.phase = "snapshot" => outcome.count # 0
      BY <2>3, <2>4 DEF RunRecipe, LearnedInv, LearnedTypeOK
    <3>4. recipes' = recipes
      BY <2>4 DEF RunRecipe
    <3> QED
      BY <2>1, <3>1, <3>2, <3>3, <3>4 DEF LearnedInv, VisitFits
  <2>5. ASSUME Learn(outcome) PROVE VisitFits'
    BY <2>1, <2>5 DEF Learn, LearnedInv, LearnedTypeOK, VisitFits
  <2> QED
    BY <1>2, <2>2, <2>4, <2>5 DEF RunRecipe, Learn, LearnedInv, NewestRecipeInUse, Active
<1>3. CASE UpdateSnapshot
  <2>1. visit.version = n /\ n > 0 /\ visit.count \in 1..MaxListings
    BY <1>0, <1>3 DEF UpdateSnapshot, LearnedInv, VisitFits, LearnedTypeOK, VisitAt
  <2> DEFINE new == [recipes[n] EXCEPT !.golden = visit.count]
  <2>2. new \in Recipes /\ new.golden = visit.count /\ new.active = recipes[n].active
    BY <1>0, <2>1 DEF Recipes
  <2>3. recipes' = [recipes EXCEPT ![n] = new]
    BY <1>3, <2>1 DEF UpdateSnapshot
  <2> HIDE DEF new
  <2>4. /\ recipes' \in Seq(Recipes) /\ Len(recipes') = n
        /\ \A v \in 1..n : recipes'[v] = IF v = n THEN new ELSE recipes[v]
    BY <1>0, <2>1, <2>2, <2>3, ExceptSeq
  <2>5. recipes'[n].golden = visit.count /\ recipes'[n].active = recipes[n].active
    <3>1. n \in 1..n
      BY <1>0, <2>1
    <3>2. recipes'[n] = new
      BY <2>4, <3>1
    <3> QED
      BY <2>2, <3>2
  <2>6. LearnedTypeOK' /\ VisitFits'
    BY <1>3, <2>1, <2>4 DEF UpdateSnapshot, LearnedInv, LearnedTypeOK, VisitFits, NoVisit, Recipes
  <2>7. Active' = Active
    <3>1. DOMAIN recipes' = 1..n
      BY <2>4, LenProperties
    <3> QED
      BY <1>0, <2>4, <2>5, <3>1 DEF Active
  <2> QED
    BY <1>0, <1>3, <2>1, <2>4, <2>5, <2>6, <2>7, EmptySeq DEF UpdateSnapshot, LearnedInv, NewestRecipeInUse
<1>4. CASE SaveRecipe
  <2> DEFINE new == [active |-> TRUE, golden |-> visit.count]
  <2>1. visit.count \in 1..MaxListings /\ new \in Recipes
    BY <1>4 DEF SaveRecipe, LearnedInv, VisitFits, LearnedTypeOK, VisitAt, Recipes
  <2>2. /\ Retired \in Seq(Recipes) /\ Len(Retired) = n
        /\ \A v \in 1..n : ~Retired[v].active
    BY RetiredType DEF LearnedInv
  <2>3. /\ recipes' \in Seq(Recipes) /\ Len(recipes') = n + 1
        /\ \A v \in 1..n : recipes'[v] = Retired[v]
        /\ recipes'[n + 1] = new
    BY <1>4, <2>1, <2>2, AppendProperties DEF SaveRecipe
  <2>4. LearnedTypeOK' /\ VisitFits'
    BY <1>0, <1>4, <2>1, <2>3 DEF SaveRecipe, LearnedInv, LearnedTypeOK, VisitFits, NoVisit, Recipes
  <2>5. DOMAIN recipes' = 1..(n + 1) /\ recipes' # <<>>
    BY <1>0, <2>3, LenProperties, EmptySeq
  <2>6. Active' = {n + 1}
    BY <1>0, <2>2, <2>3, <2>5 DEF Active
  <2> QED
    BY <1>0, <1>4, <2>1, <2>3, <2>4, <2>5, <2>6 DEF SaveRecipe, LearnedInv, NewestRecipeInUse
<1>5. CASE VisitFails
  BY <1>5 DEF VisitFails, LearnedInv, LearnedTypeOK, NewestRecipeInUse, VisitFits, Active, NoVisit
<1>6. CASE UNCHANGED learnedVars
  BY <1>6 DEF learnedVars, LearnedInv, LearnedTypeOK, NewestRecipeInUse, VisitFits, Active
<1> QED
  BY <1>1, <1>2, <1>3, <1>4, <1>5, <1>6 DEF LearnedNext

(* Exactly the newest learned recipe is in use, whatever the order of      *)
(* learning, validation failures and crashes (SaveSourceRecipe retires and *)
(* inserts in one transaction, UpdateSourceRecipeSnapshot writes only to   *)
(* the active version).                                                    *)
THEOREM NewestRecipeStaysInUse ==
  LearnedSpec => []NewestRecipeInUse
<1>1. LearnedSpec => []LearnedInv
  BY LearnedStarts, LearnedSteps, PTL DEF LearnedSpec
<1>2. LearnedInv => NewestRecipeInUse
  BY DEF LearnedInv
<1> QED
  BY <1>1, <1>2, PTL

-------------------------------------------------------------------------------
(* A source read by the language model.                                    *)

(* The inductive invariant of a source read by the model: an answered      *)
(* block is remembered by the process or the table, a saved one by the     *)
(* table, and what the process remembers beyond the table is on its way    *)
(* there or could not be saved.                                            *)
BlocksInv ==
    /\ GenericTypeOK
    /\ AskedOnce
    /\ \A b \in answered : memory[b] # Unknown \/ disk[b] # Unknown
    /\ \A b \in saved : disk[b] # Unknown
    /\ ReadingAt("saving") => \A b \in reading.sent : Known(b)
    /\ \A b \in Blocks :
          Known(b) => \/ memory[b] = disk[b] \/ b \in unsaved
                      \/ ReadingAt("saving") /\ b \in reading.sent

(* What may be remembered of a block.                                      *)
Remembered == (SUBSET Finds) \union {Unknown}

(* A cache that says the same of every block.                              *)
LEMMA RememberedConstant ==
  ASSUME NEW x \in Remembered
  PROVE  [b \in Blocks |-> x] \in [Blocks -> Remembered]
  OBVIOUS

(* A cache written for some blocks.                                        *)
LEMMA RememberedChoice ==
  ASSUME NEW f \in [Blocks -> Remembered], NEW g \in [Blocks -> Remembered],
         NEW S \in SUBSET Blocks
  PROVE  [b \in Blocks |-> IF b \in S THEN f[b] ELSE g[b]] \in [Blocks -> Remembered]
  OBVIOUS

(* Knowing nothing is something to remember.                               *)
LEMMA UnknownRemembered == Unknown \in Remembered
  BY DEF Remembered

(* Nothing is remembered at the start.                                     *)
LEMMA GenericStarts ==
  ASSUME GenericInit PROVE BlocksInv
<1>1. GenericTypeOK
  <2>1. memory \in [Blocks -> Remembered]
    BY UnknownRemembered, RememberedConstant DEF GenericInit
  <2>2. disk \in [Blocks -> Remembered]
    BY UnknownRemembered, RememberedConstant DEF GenericInit
  <2>3. reading = [phase |-> "idle", blocks |-> {}, sent |-> {}]
    BY DEF GenericInit, NotReading
  <2> QED
    BY <2>1, <2>2, <2>3 DEF GenericInit, GenericTypeOK, Remembered
<1>2. AskedOnce
  BY DEF GenericInit, AskedOnce
<1> QED
  BY <1>1, <1>2 DEF GenericInit, BlocksInv, Known, ReadingAt, NotReading

(* Every step of such a source keeps the invariant.                        *)
LEMMA GenericSteps ==
  ASSUME BlocksInv, [GenericNext]_genericVars
  PROVE  BlocksInv'
<1> USE GenericAssumption DEF ReadingAt, Known
<1>0. /\ GenericTypeOK
      /\ \A f \in SUBSET Finds : f # Unknown
  BY DEF BlocksInv
<1>1. CASE \E bs \in SUBSET Blocks : ChangePage(bs)
  BY <1>1 DEF ChangePage, BlocksInv, GenericTypeOK, AskedOnce, observers
<1>2. CASE FetchPage
  <2>1. reading' = [phase |-> "fetched", blocks |-> page, sent |-> {}]
    BY <1>2 DEF FetchPage, NotReading
  <2> QED
    BY <1>2, <2>1 DEF FetchPage, BlocksInv, GenericTypeOK, AskedOnce, observers
<1>3. CASE LoadBlocks
  <2> DEFINE sent == {b \in reading.blocks : memory'[b] = Unknown}
  <2>1. /\ memory' = [b \in Blocks |-> IF b \in reading.blocks /\ disk[b] # Unknown
                                       THEN disk[b] ELSE memory[b]]
        /\ UNCHANGED <<page, revisions, disk, genericFaults, answered, saved, unsaved>>
        /\ reading.phase = "fetched"
    BY <1>3 DEF LoadBlocks, observers
  <2>2. reading.blocks \in SUBSET Blocks /\ sent \in SUBSET Blocks
    BY <1>0 DEF GenericTypeOK
  <2>3. \/ reading' = NotReading
        \/ reading' = [phase |-> "asking", blocks |-> reading.blocks, sent |-> sent]
    BY <1>0, <1>3 DEF LoadBlocks, GenericTypeOK
  <2>4. GenericTypeOK'
    BY <1>0, <2>1, <2>2, <2>3 DEF GenericTypeOK, NotReading
  <2>5. sent \intersect answered = {}
    BY <2>1, <2>2 DEF BlocksInv
  <2>6. AskedOnce'
    BY <2>1, <2>3, <2>5 DEF AskedOnce, NotReading
  <2> QED
    BY <2>1, <2>2, <2>3, <2>4, <2>6 DEF BlocksInv, GenericTypeOK, NotReading
<1>4. ASSUME NEW claims \in SUBSET (Blocks \X Finds), Extract(claims)
      PROVE  BlocksInv'
  <2>1. /\ reading.phase = "asking" /\ reading.sent \in SUBSET Blocks
        /\ reading' = [phase |-> "saving", blocks |-> reading.blocks, sent |-> reading.sent]
        /\ answered' = answered \union reading.sent
        /\ UNCHANGED <<page, revisions, disk, genericFaults, saved, unsaved>>
    BY <1>0, <1>4 DEF Extract, GenericTypeOK
  <2>2. \A b \in reading.sent : Accepted(claims)[b] \in SUBSET Finds
    BY <1>4 DEF Accepted
  <2>3. memory' = [b \in Blocks |-> IF b \in reading.sent THEN Accepted(claims)[b] ELSE memory[b]]
    BY <1>4 DEF Extract
  <2>4. GenericTypeOK'
    BY <1>0, <2>1, <2>2, <2>3 DEF GenericTypeOK
  <2> QED
    BY <1>0, <2>1, <2>2, <2>3, <2>4 DEF BlocksInv, GenericTypeOK, AskedOnce
<1>5. CASE SaveBlocks
  <2>1. /\ reading.phase = "saving" /\ reading.sent \in SUBSET Blocks
        /\ reading' = [phase |-> "idle", blocks |-> {}, sent |-> {}]
        /\ saved' = saved \union reading.sent
        /\ disk' = [b \in Blocks |-> IF b \in reading.sent THEN memory[b] ELSE disk[b]]
        /\ UNCHANGED <<page, revisions, memory, genericFaults, answered, unsaved>>
    BY <1>0, <1>5 DEF SaveBlocks, GenericTypeOK, NotReading
  <2>2. disk' \in [Blocks -> Remembered]
    <3>1. memory \in [Blocks -> Remembered] /\ disk \in [Blocks -> Remembered]
      BY <1>0 DEF GenericTypeOK, Remembered
    <3> QED
      BY <2>1, <3>1, RememberedChoice
  <2>3. GenericTypeOK'
    BY <1>0, <2>1, <2>2 DEF GenericTypeOK, Remembered
  <2>4. \A b \in reading.sent : memory[b] # Unknown
    BY <2>1 DEF BlocksInv
  <2>5. \A b \in Blocks : disk[b] # Unknown => disk'[b] # Unknown
    BY <2>1, <2>4
  <2>6. \A b \in reading.sent : disk'[b] = memory[b]
    BY <2>1
  <2>7. \A b \in Blocks : ReadingAt("saving") /\ b \in reading.sent => disk'[b] = memory'[b]
    BY <2>1, <2>6
  <2> QED
    BY <2>1, <2>3, <2>4, <2>5, <2>6, <2>7 DEF BlocksInv, GenericTypeOK, AskedOnce
<1>6. CASE SaveBlocksFails
  <2>1. reading' = [phase |-> "idle", blocks |-> {}, sent |-> {}]
    BY <1>6 DEF SaveBlocksFails, NotReading
  <2> QED
    BY <1>0, <1>6, <2>1 DEF SaveBlocksFails, BlocksInv, GenericTypeOK, AskedOnce
<1>7. CASE ReadingFails
  <2>1. reading' = [phase |-> "idle", blocks |-> {}, sent |-> {}]
    BY <1>7 DEF ReadingFails, NotReading
  <2> QED
    BY <1>0, <1>7, <2>1 DEF ReadingFails, BlocksInv, GenericTypeOK, AskedOnce, observers
<1>8. CASE GenericCrash
  <2>1. reading' = [phase |-> "idle", blocks |-> {}, sent |-> {}]
    BY <1>8 DEF GenericCrash, NotReading
  <2>2. /\ memory' = [b \in Blocks |-> Unknown]
        /\ answered' = saved /\ unsaved' = {}
        /\ genericFaults' = genericFaults + 1
        /\ UNCHANGED <<page, revisions, disk, saved>>
    BY <1>8 DEF GenericCrash
  <2>3. memory' \in [Blocks -> Remembered]
    BY <2>2, UnknownRemembered, RememberedConstant
  <2>4. GenericTypeOK'
    BY <1>0, <2>1, <2>2, <2>3 DEF GenericTypeOK, Remembered
  <2> QED
    BY <1>0, <2>1, <2>2, <2>4 DEF BlocksInv, GenericTypeOK, AskedOnce
<1>9. CASE UNCHANGED genericVars
  BY <1>9 DEF genericVars, observers, BlocksInv, GenericTypeOK, AskedOnce
<1> QED
  BY <1>1, <1>2, <1>3, <1>4, <1>5, <1>6, <1>7, <1>8, <1>9 DEF GenericNext

(* The inductive invariant of a source read by the model                   *)
(* (LoadExtractionBlocks, SaveExtractionBlocks): what was answered is      *)
(* remembered, what was saved is in the table.                             *)
THEOREM BlocksInvariant ==
  GenericSpec => []BlocksInv
  BY GenericStarts, GenericSteps, PTL DEF GenericSpec

(* The model is not asked again about a block whose answer the process or  *)
(* the table remembers (LoadExtractionBlocks before the request,           *)
(* SaveExtractionBlocks after it), through failed saves and crashes.       *)
THEOREM BlocksAskedOnce ==
  GenericSpec => []AskedOnce
<1>1. BlocksInv => AskedOnce
  BY DEF BlocksInv
<1> QED
  BY <1>1, BlocksInvariant, PTL

(* Between visits the process and a restarted one would serve the same,    *)
(* except for blocks whose save failed.                                    *)
THEOREM RestartChangesNothing ==
  GenericSpec => []RestartServesTheSame
<1>1. BlocksInv => RestartServesTheSame
  BY DEF BlocksInv, RestartServesTheSame, ReadingAt
<1> QED
  BY <1>1, BlocksInvariant, PTL

-------------------------------------------------------------------------------
(* A feed.                                                                 *)

(* A poll knows no validator the feed has not had, and between polls       *)
(* nothing waits to be stored.                                             *)
PollFits ==
    /\ checkpoint <= edition /\ poll.tag <= edition
    /\ poll.phase \in {"idle", "requested"} => poll.out = {}
    /\ poll.todo \subseteq Listed(poll.body) /\ poll.out \subseteq Listed(poll.body)

(* While the answer is read it says what the feed says, up to edits made   *)
(* since, which are recorded and change the validator.                     *)
BodyIsCurrent ==
    PollAt("reading") =>
       /\ \A e \in Entries \ changed : poll.body[e] = feed[e]
       /\ checkpoint = edition => poll.body = feed
       /\ poll.tag = edition => poll.body = feed

(* The item table remembers e as c, or e shares its key.                   *)
Marked(e, c) == SharesKey(e) \/ seen[KeyOf[e]] = Hash(e, c)

(* The item table against the feed: entries not edited since they were     *)
(* handed over, entries the checkpoint vouches for, entries already read.  *)
MarksAreCurrent ==
    /\ \A e \in Entries \ changed : Marked(e, feed[e])
    /\ checkpoint = edition => \A e \in Listed(feed) : Marked(e, feed[e])
    /\ PollAt("reading") =>
          /\ \A e \in poll.out : e \in changed \/ SharesKey(e)
          /\ \A e \in Listed(poll.body) \ poll.todo : Marked(e, poll.body[e])

(* e is stored as c or waits to be.                                        *)
HandedOrStored(e, c) ==
    \/ e \in poll.out /\ poll.body[e] = c
    \/ e \notin poll.out /\ stored[e] = c

(* While nothing has failed, what is marked, vouched for or read is stored *)
(* or waits to be.                                                         *)
NothingLost ==
    feedFaults = 0 =>
       /\ \A e \in Entries, c \in Contents :
             seen[KeyOf[e]] = Hash(e, c) => HandedOrStored(e, c)
       /\ checkpoint = edition => \A e \in Listed(feed) : HandedOrStored(e, feed[e])
       /\ PollAt("reading") =>
             \A e \in Listed(poll.body) \ poll.todo : HandedOrStored(e, poll.body[e])

(* The inductive invariant of a feed.                                      *)
FeedInv == FeedTypeOK /\ PollFits /\ BodyIsCurrent /\ MarksAreCurrent /\ NothingLost

(* The hash covers the link: two entries never share one.                  *)
LEMMA HashTellsApart ==
  ASSUME NEW e \in Entries, NEW c \in Contents, NEW other, NEW d,
         Hash(other, d) = Hash(e, c)
  PROVE  other = e /\ d = c
  BY DEF Hash

(* A hash is something the item table can hold.                            *)
LEMMA HashIsNoAbsence ==
  ASSUME NEW e \in Entries, NEW c \in Contents
  PROVE  /\ Hash(e, c) # Absent
         /\ Hash(e, c) \in (Entries \X Contents) \union {Absent}
  BY FeedAssumption DEF Hash

(* Two entries under one key share it.                                     *)
LEMMA SharedKeys ==
  ASSUME NEW e \in Entries, NEW other \in Entries, other # e, KeyOf[other] = KeyOf[e]
  PROVE  SharesKey(e)
  BY DEF SharesKey

(* Nothing is remembered of the feed at the start.                         *)
LEMMA FeedStarts ==
  ASSUME FeedInit PROVE FeedInv
<1> USE DEF FeedInit
<1>0. poll = [phase |-> "idle", body |-> [e \in Entries |-> Absent], tag |-> 0,
              todo |-> {}, out |-> {}]
  BY DEF NoPoll
<1>1. FeedTypeOK
  BY <1>0 DEF FeedTypeOK
<1>2. PollFits /\ BodyIsCurrent
  BY <1>0 DEF PollFits, BodyIsCurrent, PollAt
<1>3. MarksAreCurrent
  BY <1>0 DEF MarksAreCurrent, PollAt
<1>4. NothingLost
  <2>1. \A e \in Entries : seen[KeyOf[e]] = Absent
    BY DEF Keys
  <2> QED
    BY <1>0, <2>1, HashIsNoAbsence DEF NothingLost, PollAt
<1> QED
  BY <1>1, <1>2, <1>3, <1>4 DEF FeedInv

(* A poll that ends, by a failure or with nothing left to store, keeps the *)
(* invariant: the marks it made stay.                                      *)
LEMMA PollForgotten ==
  ASSUME FeedInv, poll' = NoPoll, feedFaults' \in Nat,
         \/ feedFaults' # 0
         \/ feedFaults' = feedFaults /\ poll.out = {},
         UNCHANGED <<feed, edition, checkpoint, seen, stored, changed>>
  PROVE  FeedInv'
<1>1. /\ poll'.phase = "idle" /\ poll'.out = {} /\ poll'.todo = {} /\ poll'.tag = 0
      /\ poll' \in [phase : {"idle", "requested", "reading", "storing"},
                    body : [Entries -> Contents \union {Absent}], tag : Nat,
                    todo : SUBSET Entries, out : SUBSET Entries]
  BY DEF NoPoll
<1>2. FeedTypeOK'
  BY <1>1 DEF FeedInv, FeedTypeOK
<1>3. PollFits' /\ BodyIsCurrent'
  BY <1>1 DEF FeedInv, FeedTypeOK, PollFits, BodyIsCurrent, PollAt
<1>4. MarksAreCurrent'
  BY <1>1 DEF FeedInv, MarksAreCurrent, PollAt, Marked, Listed
<1>5. NothingLost'
  BY <1>1 DEF FeedInv, NothingLost, PollAt, HandedOrStored, Listed
<1> QED
  BY <1>2, <1>3, <1>4, <1>5 DEF FeedInv

(* Every step of a feed keeps the invariant.                               *)
LEMMA FeedSteps ==
  ASSUME FeedInv, [FeedNext]_feedVars
  PROVE  FeedInv'
<1>0. /\ FeedTypeOK
      /\ PollFits /\ BodyIsCurrent /\ MarksAreCurrent /\ NothingLost
      /\ Absent \notin Contents
  BY FeedAssumption DEF FeedInv
<1>1. ASSUME NEW e \in Entries, NEW c \in Contents \union {Absent}, EditFeed(e, c)
      PROVE  FeedInv'
  <2>1. /\ edition' = edition + 1 /\ changed' = changed \union {e}
        /\ \A other \in Entries \ {e} : feed'[other] = feed[other]
        /\ UNCHANGED <<checkpoint, seen, poll, stored, feedFaults>>
        /\ feed' \in [Entries -> Contents \union {Absent}]
    BY <1>0, <1>1 DEF EditFeed, FeedTypeOK, memoryVars
  <2>2. FeedTypeOK'
    BY <1>0, <2>1 DEF FeedTypeOK
  <2>3. checkpoint' < edition' /\ poll'.tag < edition'
    BY <1>0, <2>1 DEF PollFits, FeedTypeOK
  <2>4. PollFits' /\ BodyIsCurrent'
    BY <1>0, <2>1, <2>2, <2>3 DEF FeedTypeOK, PollFits, BodyIsCurrent, PollAt, Listed
  <2>5. MarksAreCurrent'
    BY <1>0, <2>1, <2>2, <2>3 DEF FeedTypeOK, MarksAreCurrent, PollAt, Marked, Listed
  <2>6. NothingLost'
    BY <1>0, <2>1, <2>2, <2>3 DEF FeedTypeOK, NothingLost, PollAt, HandedOrStored, Listed
  <2> QED
    BY <2>2, <2>4, <2>5, <2>6 DEF FeedInv
<1>2. CASE RequestFeed
  <2>1. /\ poll'.phase = "requested" /\ poll'.out = {} /\ poll'.todo = {} /\ poll'.tag = 0
        /\ poll' \in [phase : {"idle", "requested", "reading", "storing"},
                      body : [Entries -> Contents \union {Absent}], tag : Nat,
                      todo : SUBSET Entries, out : SUBSET Entries]
        /\ poll.out = {}
        /\ UNCHANGED <<feed, edition, checkpoint, seen, stored, changed, feedFaults>>
    BY <1>0, <1>2 DEF RequestFeed, NoPoll, memoryVars, PollFits, PollAt
  <2>2. FeedTypeOK'
    BY <1>0, <2>1 DEF FeedTypeOK
  <2>3. PollFits' /\ BodyIsCurrent'
    BY <1>0, <2>1 DEF FeedTypeOK, PollFits, BodyIsCurrent, PollAt
  <2>4. MarksAreCurrent'
    BY <1>0, <2>1 DEF MarksAreCurrent, PollAt, Marked, Listed
  <2>5. NothingLost'
    BY <1>0, <2>1 DEF NothingLost, PollAt, HandedOrStored, Listed
  <2> QED
    BY <2>2, <2>3, <2>4, <2>5 DEF FeedInv
<1>3. CASE FeedFails \/ NotModified
  BY <1>0, <1>3, PollForgotten DEF FeedFails, NotModified, PollFits, PollAt, FeedTypeOK, memoryVars
<1>4. ASSUME NEW tag \in {0, edition}, Answer(tag)
      PROVE  FeedInv'
  <2>1. /\ poll.out = {}
        /\ poll' = [phase |-> "reading", body |-> feed, tag |-> tag,
                    todo |-> Listed(feed), out |-> {}]
        /\ UNCHANGED <<feed, edition, checkpoint, seen, stored, changed, feedFaults>>
    BY <1>0, <1>4 DEF Answer, memoryVars, PollFits, PollAt
  <2>2. FeedTypeOK'
    BY <1>0, <2>1 DEF FeedTypeOK, Listed
  <2>3. PollFits' /\ BodyIsCurrent'
    BY <1>0, <2>1 DEF FeedTypeOK, PollFits, BodyIsCurrent, PollAt, Listed
  <2>4. MarksAreCurrent'
    BY <1>0, <2>1 DEF MarksAreCurrent, PollAt, Marked, Listed
  <2>5. NothingLost'
    BY <1>0, <2>1 DEF NothingLost, PollAt, HandedOrStored, Listed
  <2> QED
    BY <2>2, <2>3, <2>4, <2>5 DEF FeedInv
<1>5. ASSUME NEW e \in Entries, ReadEntry(e)
      PROVE  FeedInv'
  <2> DEFINE hash == Hash(e, poll.body[e])
  <2>1. /\ poll.phase = "reading" /\ e \in poll.todo
        /\ e \in Listed(poll.body) /\ poll.body[e] \in Contents
        /\ KeyOf[e] \in Keys
    BY <1>0, <1>5 DEF ReadEntry, PollAt, PollFits, FeedTypeOK, Listed, Keys
  <2>2. /\ poll'.phase = "reading" /\ poll'.body = poll.body /\ poll'.tag = poll.tag
        /\ poll'.todo = poll.todo \ {e}
        /\ poll' \in [phase : {"idle", "requested", "reading", "storing"},
                      body : [Entries -> Contents \union {Absent}], tag : Nat,
                      todo : SUBSET Entries, out : SUBSET Entries]
        /\ UNCHANGED <<feed, edition, checkpoint, stored, changed, feedFaults>>
    <3>1. \/ poll' = [poll EXCEPT !.todo = poll.todo \ {e}]
          \/ poll' = [poll EXCEPT !.todo = poll.todo \ {e}, !.out = poll.out \union {e}]
      BY <1>5 DEF ReadEntry
    <3>2. UNCHANGED <<feed, edition, checkpoint, stored, changed, feedFaults>>
      BY <1>5 DEF ReadEntry
    <3>3. poll \in [phase : {"idle", "requested", "reading", "storing"},
                    body : [Entries -> Contents \union {Absent}], tag : Nat,
                    todo : SUBSET Entries, out : SUBSET Entries]
      BY <1>0 DEF FeedTypeOK
    <3>4. CASE poll' = [poll EXCEPT !.todo = poll.todo \ {e}]
      BY <2>1, <3>2, <3>3, <3>4
    <3>5. CASE poll' = [poll EXCEPT !.todo = poll.todo \ {e}, !.out = poll.out \union {e}]
      <4>1. poll' = [phase |-> poll.phase, body |-> poll.body, tag |-> poll.tag,
                     todo |-> poll.todo \ {e}, out |-> poll.out \union {e}]
        BY <3>3, <3>5
      <4> QED
        BY <2>1, <3>2, <3>3, <4>1
    <3> QED
      BY <3>1, <3>4, <3>5
  <2>3. \/ seen[KeyOf[e]] = hash /\ poll'.out = poll.out
        \/ seen[KeyOf[e]] # hash /\ poll'.out = poll.out \union {e}
    BY <1>0, <1>5 DEF ReadEntry, FeedTypeOK
  <2>4. /\ seen'[KeyOf[e]] = hash
        /\ \A other \in Entries : KeyOf[other] # KeyOf[e] => seen'[KeyOf[other]] = seen[KeyOf[other]]
        /\ seen' \in [Keys -> (Entries \X Contents) \union {Absent}]
    BY <1>0, <1>5, <2>1, HashIsNoAbsence DEF ReadEntry, FeedTypeOK, Keys
  <2>5. FeedTypeOK'
    BY <1>0, <2>2, <2>4 DEF FeedTypeOK
  <2>6. PollFits' /\ BodyIsCurrent'
    BY <1>0, <2>1, <2>2, <2>3 DEF PollFits, BodyIsCurrent, PollAt, Listed
  <2>7. MarksAreCurrent'
    <3>1. \A other \in Entries : \A c : other # e /\ Marked(other, c) => Marked(other, c)'
      BY <2>4, SharedKeys DEF Marked
    <3>2. Marked(e, poll.body[e])'
      BY <2>2, <2>4 DEF Marked
    <3>3. e \in changed \/ poll.body[e] = feed[e]
      BY <1>0, <2>1 DEF BodyIsCurrent, PollAt
    <3>4. checkpoint = edition => poll.body[e] = feed[e]
      BY <1>0, <2>1 DEF BodyIsCurrent, PollAt
    <3>5. e \in poll'.out => e \in changed \/ SharesKey(e)
      BY <1>0, <2>1, <2>3, <3>3 DEF MarksAreCurrent, Marked, PollAt
    <3>6. Listed(feed) \subseteq Entries /\ Listed(poll.body) \subseteq Entries
      BY DEF Listed
    <3>7. (\A o \in Entries \ changed : Marked(o, feed[o]))'
      BY <1>0, <2>2, <3>1, <3>2, <3>3 DEF MarksAreCurrent
    <3>8. (checkpoint = edition => \A o \in Listed(feed) : Marked(o, feed[o]))'
      BY <1>0, <2>2, <3>1, <3>2, <3>4, <3>6 DEF MarksAreCurrent, Listed
    <3>9. \A o \in poll'.out : o \in changed' \/ SharesKey(o)
      BY <1>0, <2>1, <2>2, <2>3, <3>5 DEF MarksAreCurrent, PollAt
    <3>10. (\A o \in Listed(poll.body) \ poll.todo : Marked(o, poll.body[o]))'
      BY <1>0, <2>1, <2>2, <3>1, <3>2, <3>6 DEF MarksAreCurrent, PollAt, Listed
    <3> QED
      BY <3>7, <3>8, <3>9, <3>10 DEF MarksAreCurrent
  <2>8. NothingLost'
    <3> SUFFICES ASSUME feedFaults = 0
                 PROVE  NothingLost'
      BY <2>2 DEF NothingLost
    <3>1. \A other \in Entries : \A c : other # e /\ HandedOrStored(other, c) => HandedOrStored(other, c)'
      BY <2>2, <2>3 DEF HandedOrStored
    <3>2. HandedOrStored(e, poll.body[e])'
      <4>1. seen[KeyOf[e]] = hash => HandedOrStored(e, poll.body[e])
        BY <1>0, <2>1 DEF NothingLost
      <4> QED
        BY <2>2, <2>3, <4>1 DEF HandedOrStored
    <3>3. ASSUME NEW other \in Entries, NEW c \in Contents, seen'[KeyOf[other]] = Hash(other, c)
          PROVE  HandedOrStored(other, c)'
      <4>1. CASE other = e
        <5>1. c = poll.body[e]
          BY <2>1, <2>4, <3>3, <4>1, HashTellsApart
        <5> QED
          BY <2>2, <3>2, <4>1, <5>1
      <4>2. CASE other # e
        <5>1. KeyOf[other] # KeyOf[e]
          BY <2>1, <2>4, <3>3, <4>2, HashTellsApart
        <5>2. HandedOrStored(other, c)
          BY <1>0, <2>4, <3>3, <5>1 DEF NothingLost
        <5> QED
          BY <3>1, <4>2, <5>2
      <4> QED
        BY <4>1, <4>2
    <3>4. checkpoint = edition => poll.body[e] = feed[e]
      BY <1>0, <2>1 DEF BodyIsCurrent, PollAt
    <3>5. (checkpoint = edition => \A o \in Listed(feed) : HandedOrStored(o, feed[o]))'
      BY <1>0, <2>2, <3>1, <3>2, <3>4 DEF NothingLost, Listed
    <3>6. (\A o \in Listed(poll.body) \ poll.todo : HandedOrStored(o, poll.body[o]))'
      BY <1>0, <2>1, <2>2, <3>1, <3>2 DEF NothingLost, PollAt, Listed
    <3> QED
      BY <3>3, <3>5, <3>6 DEF NothingLost
  <2> QED
    BY <2>5, <2>6, <2>7, <2>8 DEF FeedInv
<1>6. CASE HandOver
  <2>1. /\ poll.phase = "reading" /\ poll.todo = {}
        /\ poll'.phase = "storing" /\ poll'.body = poll.body /\ poll'.tag = poll.tag
        /\ poll'.todo = {} /\ poll'.out = poll.out
        /\ poll' \in [phase : {"idle", "requested", "reading", "storing"},
                      body : [Entries -> Contents \union {Absent}], tag : Nat,
                      todo : SUBSET Entries, out : SUBSET Entries]
        /\ checkpoint' = poll.tag
        /\ changed' = changed \ {e \in poll.out : feed[e] = poll.body[e]}
        /\ UNCHANGED <<feed, edition, seen, stored, feedFaults>>
    BY <1>0, <1>6 DEF HandOver, PollAt, FeedTypeOK
  <2>2. FeedTypeOK'
    BY <1>0, <2>1 DEF FeedTypeOK
  <2>3. PollFits' /\ BodyIsCurrent'
    BY <1>0, <2>1 DEF PollFits, BodyIsCurrent, PollAt, Listed
  <2>4. checkpoint' = edition' => poll.body = feed
    BY <1>0, <2>1 DEF BodyIsCurrent, PollAt
  <2>5. \A e \in Listed(poll.body) : Marked(e, poll.body[e])
    BY <1>0, <2>1 DEF MarksAreCurrent, PollAt
  <2>6. \A e \in Entries : \A c : Marked(e, c) => Marked(e, c)'
    BY <2>1 DEF Marked
  <2>7. poll.out \subseteq Listed(poll.body) /\ Listed(poll.body) \subseteq Entries
    BY <1>0 DEF PollFits, Listed
  <2>8. (\A e \in Entries \ changed : Marked(e, feed[e]))'
    BY <1>0, <2>1, <2>5, <2>6, <2>7 DEF MarksAreCurrent
  <2>9. MarksAreCurrent'
    BY <2>1, <2>4, <2>5, <2>6, <2>7, <2>8 DEF MarksAreCurrent, PollAt
  <2>10. NothingLost'
    BY <1>0, <2>1, <2>4 DEF NothingLost, PollAt, HandedOrStored, Listed
  <2> QED
    BY <2>2, <2>3, <2>9, <2>10 DEF FeedInv
<1>7. ASSUME NEW e \in Entries, StoreEntry(e) \/ StoreEntryFails(e)
      PROVE  FeedInv'
  <2>1. /\ poll.phase = "storing" /\ e \in poll.out
        /\ poll'.phase = "storing" /\ poll'.body = poll.body /\ poll'.tag = poll.tag
        /\ poll'.todo = poll.todo /\ poll'.out = poll.out \ {e}
        /\ poll' \in [phase : {"idle", "requested", "reading", "storing"},
                      body : [Entries -> Contents \union {Absent}], tag : Nat,
                      todo : SUBSET Entries, out : SUBSET Entries]
        /\ UNCHANGED <<feed, edition, checkpoint, seen, changed>>
    BY <1>0, <1>7 DEF StoreEntry, StoreEntryFails, PollAt, FeedTypeOK, memoryVars
  <2>2. /\ feedFaults' \in Nat
        /\ \/ feedFaults' # 0 /\ stored' = stored
           \/ /\ feedFaults' = feedFaults
              /\ stored' = [stored EXCEPT ![e] = poll.body[e]]
    BY <1>0, <1>7 DEF StoreEntry, StoreEntryFails, FeedTypeOK
  <2>3. FeedTypeOK'
    BY <1>0, <2>1, <2>2 DEF FeedTypeOK
  <2>4. PollFits' /\ BodyIsCurrent'
    BY <1>0, <2>1 DEF PollFits, BodyIsCurrent, PollAt, Listed
  <2>5. MarksAreCurrent'
    BY <1>0, <2>1 DEF MarksAreCurrent, PollAt, Marked, Listed
  <2>6. NothingLost'
    <3> SUFFICES ASSUME feedFaults' = 0
                 PROVE  NothingLost'
      BY DEF NothingLost
    <3>1. feedFaults = 0 /\ stored' = [stored EXCEPT ![e] = poll.body[e]]
      BY <2>2
    <3>2. \A other \in Entries : \A c : HandedOrStored(other, c) => HandedOrStored(other, c)'
      BY <1>0, <2>1, <3>1 DEF HandedOrStored, FeedTypeOK
    <3> QED
      BY <1>0, <2>1, <3>1, <3>2 DEF NothingLost, PollAt, Listed
  <2> QED
    BY <2>3, <2>4, <2>5, <2>6 DEF FeedInv
<1>8. CASE PollEnds
  BY <1>0, <1>8, PollForgotten DEF PollEnds, FeedTypeOK, memoryVars
<1>9. CASE ReadFails \/ FeedCrash
  BY <1>0, <1>9, PollForgotten DEF ReadFails, FeedCrash, FeedTypeOK, memoryVars
<1>10. CASE UNCHANGED feedVars
  <2> USE <1>10 DEF feedVars, memoryVars
  <2>1. FeedTypeOK' /\ PollFits' /\ BodyIsCurrent'
    BY <1>0 DEF FeedTypeOK, PollFits, BodyIsCurrent, PollAt, Listed
  <2>2. MarksAreCurrent'
    BY <1>0 DEF MarksAreCurrent, PollAt, Marked, Listed
  <2>3. NothingLost'
    BY <1>0 DEF NothingLost, PollAt, HandedOrStored, Listed
  <2> QED
    BY <2>1, <2>2, <2>3 DEF FeedInv
<1> QED
  BY <1>1, <1>2, <1>3, <1>4, <1>5, <1>6, <1>7, <1>8, <1>9, <1>10 DEF FeedNext

(* The inductive invariant of a feed (LoadSeenFeedItem, MarkSeenFeedItem,  *)
(* SaveFeedCheckpoint): what is marked was read, and a checkpoint names a  *)
(* feed that was read to its end.                                          *)
THEOREM FeedInvariant ==
  FeedSpec => []FeedInv
  BY FeedStarts, FeedSteps, PTL DEF FeedSpec

(* An entry is handed to the scan again only after an edit, or because it  *)
(* shares its guid, through crashes and failed writes (LoadSeenFeedItem    *)
(* before, MarkSeenFeedItem at each entry).                                *)
THEOREM EntriesHandedOverOnce ==
  FeedSpec => HandedOverOnce
<1>1. ASSUME FeedInv, [FeedNext]_feedVars
      PROVE  [\A e \in Entries :
                PollAt("reading") /\ poll'.phase = "storing" /\ e \in poll.out =>
                   e \in changed \/ SharesKey(e)]_feedVars
  BY <1>1 DEF FeedInv, MarksAreCurrent
<1> QED
  BY <1>1, FeedInvariant, PTL DEF FeedSpec, HandedOverOnce

(* While the site would answer 304 to the saved validator, every entry is  *)
(* marked as it is and, unless something failed, stored as it is           *)
(* (SaveFeedCheckpoint comes after the last mark).                         *)
THEOREM ConditionalRequestHidesNothing ==
  FeedSpec => []NotModifiedHidesNothing
<1>1. FeedInv => NotModifiedHidesNothing
  BY DEF FeedInv, MarksAreCurrent, NothingLost, PollFits, PollAt, Marked, HandedOrStored,
         NotModifiedHidesNothing
<1> QED
  BY <1>1, FeedInvariant, PTL
================================================================================
