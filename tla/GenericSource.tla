------------------------------ MODULE GenericSource ------------------------------
(***************************************************************************)
(* One source read by the language model (internal/scraper/llmgeneric.go): *)
(* a page is reduced to blocks, a block is sent to the model only when     *)
(* neither the process nor source_extraction_block_cache remembers what    *)
(* was found in it.  A block is known by the hash of its text.  The model  *)
(* may find other listings in the same block when it is asked again, cite  *)
(* blocks it was not sent, and claim listings that are none; which of its  *)
(* claims are well formed (normalizeExtracted) is left to it.              *)
(***************************************************************************)
EXTENDS Naturals, FiniteSets

CONSTANTS
    Blocks,          \* candidate blocks a page may consist of
    Finds,           \* listings (by URL) the model may find in a block
    Unknown,         \* nothing is remembered of the block
    MaxRevisions,    \* bound on changes of the page
    MaxGenericFaults \* bound on crashes and failed writes

ASSUME GenericAssumption ==
    /\ IsFiniteSet(Blocks)
    /\ \A found \in SUBSET Finds : Unknown # found
    /\ MaxRevisions \in Nat /\ MaxGenericFaults \in Nat

VARIABLES
    page,        \* the candidate blocks on the page now
    revisions,
    memory,      \* memory[b]: LLMGenericSource.cache
    disk,        \* disk[b]: source_extraction_block_cache
    reading,     \* the visit under way
    genericFaults,
    \* observers
    answered,    \* blocks the model has answered for, and the answer is not lost
    saved,       \* blocks whose answer was saved
    unsaved      \* blocks whose answer could not be saved

observers == <<answered, saved, unsaved>>
genericVars == <<page, revisions, memory, disk, reading, genericFaults, observers>>

NotReading == [phase |-> "idle", blocks |-> {}, sent |-> {}]
ReadingAt(phase) == reading.phase = phase
Known(b) == memory[b] # Unknown

-------------------------------------------------------------------------------
(* Operators whose name starts with Bad are deliberate mistakes: no action *)
(* uses them.                                                              *)

(* The page changes.                                                       *)
ChangePage(bs) ==
    /\ revisions < MaxRevisions
    /\ bs # page
    /\ page' = bs
    /\ revisions' = revisions + 1
    /\ UNCHANGED <<memory, disk, reading, genericFaults, observers>>

(* The page is fetched and reduced to blocks.                              *)
FetchPage ==
    /\ ReadingAt("idle")
    /\ reading' = [NotReading EXCEPT !.phase = "fetched", !.blocks = page]
    /\ UNCHANGED <<page, revisions, memory, disk, genericFaults, observers>>

(* What the process does not know yet is looked up after the gate.         *)
BadLoadBlocks ==
    /\ ReadingAt("fetched") /\ reading.blocks # {}
    /\ memory' = [b \in Blocks |-> IF b \in reading.blocks /\ disk[b] # Unknown
                                   THEN disk[b] ELSE memory[b]]
    /\ reading' = [reading EXCEPT !.sent = {b \in reading.blocks : ~Known(b)},
                                  !.phase = "asking"]
    /\ UNCHANGED <<page, revisions, disk, genericFaults, observers>>

(* LoadExtractionBlocks: what the table holds replaces what the process    *)
(* remembers; the blocks that remain unknown are sent, without any the     *)
(* listings remembered are returned.                                       *)
LoadBlocks ==
    /\ ReadingAt("fetched") /\ reading.blocks # {}
    /\ memory' = [b \in Blocks |-> IF b \in reading.blocks /\ disk[b] # Unknown
                                   THEN disk[b] ELSE memory[b]]
    /\ LET sent == {b \in reading.blocks : memory'[b] = Unknown} IN
       reading' = IF sent = {} THEN NotReading
                  ELSE [reading EXCEPT !.sent = sent, !.phase = "asking"]
    /\ UNCHANGED <<page, revisions, disk, genericFaults, observers>>

(* The claims that cite a block that was sent.                             *)
Accepted(claims) == [b \in reading.sent |-> {c[2] : c \in {d \in claims : d[1] = b}}]

(* Only blocks in which something was found are remembered.                *)
BadExtract(claims) ==
    /\ ReadingAt("asking")
    /\ memory' = [b \in Blocks |-> IF b \in reading.sent /\ Accepted(claims)[b] # {}
                                   THEN Accepted(claims)[b] ELSE memory[b]]
    /\ reading' = [reading EXCEPT !.phase = "saving"]
    /\ answered' = answered \union reading.sent
    /\ UNCHANGED <<page, revisions, disk, genericFaults, saved, unsaved>>

(* The model answers with claims, each a block and a listing; every block  *)
(* that was sent is remembered, also when nothing was found in it.         *)
Extract(claims) ==
    /\ ReadingAt("asking")
    /\ memory' = [b \in Blocks |-> IF b \in reading.sent THEN Accepted(claims)[b]
                                   ELSE memory[b]]
    /\ reading' = [reading EXCEPT !.phase = "saving"]
    /\ answered' = answered \union reading.sent
    /\ UNCHANGED <<page, revisions, disk, genericFaults, saved, unsaved>>

(* Only what was found is saved.                                           *)
BadSaveBlocks ==
    /\ ReadingAt("saving")
    /\ disk' = [b \in Blocks |-> IF b \in reading.sent /\ memory[b] # {} THEN memory[b]
                                 ELSE disk[b]]
    /\ saved' = saved \union reading.sent
    /\ reading' = NotReading
    /\ UNCHANGED <<page, revisions, memory, genericFaults, answered, unsaved>>

(* SaveExtractionBlocks: one transaction for the blocks that were sent;    *)
(* the listings of all blocks of the page are returned.                    *)
SaveBlocks ==
    /\ ReadingAt("saving")
    /\ disk' = [b \in Blocks |-> IF b \in reading.sent THEN memory[b] ELSE disk[b]]
    /\ saved' = saved \union reading.sent
    /\ reading' = NotReading
    /\ UNCHANGED <<page, revisions, memory, genericFaults, answered, unsaved>>

(* The save fails: the visit is an error, the process goes on to remember. *)
SaveBlocksFails ==
    /\ ReadingAt("saving")
    /\ genericFaults < MaxGenericFaults
    /\ genericFaults' = genericFaults + 1
    /\ unsaved' = unsaved \union reading.sent
    /\ reading' = NotReading
    /\ UNCHANGED <<page, revisions, memory, disk, answered, saved>>

(* The page cannot be read or has no candidate block, the table cannot be  *)
(* read, or the model fails: nothing is remembered.                        *)
ReadingFails ==
    /\ reading.phase \in {"fetched", "asking"}
    /\ reading' = NotReading
    /\ UNCHANGED <<page, revisions, memory, disk, genericFaults, observers>>

(* The process dies and is started again: what was not saved is forgotten. *)
GenericCrash ==
    /\ genericFaults < MaxGenericFaults
    /\ genericFaults' = genericFaults + 1
    /\ memory' = [b \in Blocks |-> Unknown]
    /\ reading' = NotReading
    /\ answered' = saved
    /\ unsaved' = {}
    /\ UNCHANGED <<page, revisions, disk, saved>>

-------------------------------------------------------------------------------
GenericInit ==
    /\ page \in SUBSET Blocks
    /\ revisions = 0
    /\ memory = [b \in Blocks |-> Unknown]
    /\ disk = [b \in Blocks |-> Unknown]
    /\ reading = NotReading
    /\ genericFaults = 0
    /\ answered = {} /\ saved = {} /\ unsaved = {}

GenericNext ==
    \/ \E bs \in SUBSET Blocks : ChangePage(bs)
    \/ FetchPage \/ LoadBlocks
    \/ \E claims \in SUBSET (Blocks \X Finds) : Extract(claims)
    \/ SaveBlocks \/ SaveBlocksFails \/ ReadingFails
    \/ GenericCrash

GenericSpec == GenericInit /\ [][GenericNext]_genericVars
-------------------------------------------------------------------------------
GenericTypeOK ==
    /\ page \in SUBSET Blocks
    /\ revisions \in Nat
    /\ memory \in [Blocks -> (SUBSET Finds) \union {Unknown}]
    /\ disk \in [Blocks -> (SUBSET Finds) \union {Unknown}]
    /\ reading \in [phase : {"idle", "fetched", "asking", "saving"},
                    blocks : SUBSET Blocks, sent : SUBSET Blocks]
    /\ genericFaults \in Nat
    /\ answered \in SUBSET Blocks /\ saved \in SUBSET Blocks /\ unsaved \in SUBSET Blocks

(* The model is asked about a block once: not again in the life of the     *)
(* process that got the answer, even if that could not be saved or found   *)
(* nothing, and never again, after any restart, once it is saved.          *)
AskedOnce ==
    ReadingAt("asking") => reading.sent \intersect answered = {}

(* Between visits the process serves what a restarted one would: it        *)
(* remembers more only of blocks whose answer could not be saved, and      *)
(* nothing else than what is saved.                                        *)
RestartServesTheSame ==
    ReadingAt("idle") =>
       \A b \in Blocks : Known(b) => memory[b] = disk[b] \/ b \in unsaved
================================================================================
