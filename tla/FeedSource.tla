------------------------------- MODULE FeedSource -------------------------------
(***************************************************************************)
(* One RSS or Atom source: what it remembers of its feed between polls     *)
(* (internal/scraper/rssfeed.go; the tables feed_checkpoints and           *)
(* feed_seen_items of internal/store/sqlite.go) against what the scan has  *)
(* stored of the entries it was handed (internal/orchestrator/service.go). *)
(* Every store call commits by itself, and the process may die between any *)
(* two.  Scans are exclusive, so there is one poll at a time.  Which order *)
(* a feed lists its entries in is left open.                               *)
(***************************************************************************)
EXTENDS Naturals, FiniteSets

CONSTANTS
    Entries,       \* entries by their link: each link is a listing of its own
    KeyOf,         \* KeyOf[e]: guid or id of the entry, its link without one
    Contents,      \* what an entry may say: title and text
    Absent,        \* the entry is not in the feed, or was never seen or stored
    MaxEdits,      \* bound on edits of the feed
    MaxFeedFaults  \* bound on crashes and failed writes

ASSUME FeedAssumption ==
    /\ IsFiniteSet(Entries)
    /\ Absent \notin Contents
    /\ \A e \in Entries, c \in Contents : Absent # <<e, c>>
    /\ MaxEdits \in Nat /\ MaxFeedFaults \in Nat

Keys == {KeyOf[e] : e \in Entries}

VARIABLES
    feed,        \* feed[e]: what the site's feed says of e now
    edition,     \* the validator (ETag, Last-Modified) of the feed as it is
    checkpoint,  \* feed_checkpoints: validator of the last poll, 0 = none
    seen,        \* feed_seen_items: content_hash by item key
    poll,        \* the poll under way
    stored,      \* what the listing of e says in the store
    changed,     \* observer: entries edited since they were last handed over
    feedFaults   \* observer: crashes, failed writes, refused listings

memoryVars == <<checkpoint, seen>>
feedVars == <<feed, edition, memoryVars, poll, stored, changed, feedFaults>>

NoPoll == [phase |-> "idle", body |-> [e \in Entries |-> Absent], tag |-> 0,
           todo |-> {}, out |-> {}]

(* The hash covers title, text and link.                                   *)
Hash(e, c) == <<e, c>>

(* parseFeed: the entries of a document, those that have a link.           *)
Listed(document) == {e \in Entries : document[e] # Absent}

PollAt(phase) == poll.phase = phase

-------------------------------------------------------------------------------
(* Operators whose name starts with Bad are deliberate mistakes: no action *)
(* uses them.                                                              *)

(* The site edits its feed: an entry appears, changes or goes.             *)
EditFeed(e, c) ==
    /\ edition < MaxEdits
    /\ c # feed[e]
    /\ feed' = [feed EXCEPT ![e] = c]
    /\ edition' = edition + 1
    /\ changed' = changed \union {e}
    /\ UNCHANGED <<memoryVars, poll, stored, feedFaults>>

(* LoadFeedCheckpoint and the request.                                     *)
RequestFeed ==
    /\ PollAt("idle")
    /\ poll' = [NoPoll EXCEPT !.phase = "requested"]
    /\ UNCHANGED <<feed, edition, memoryVars, stored, changed, feedFaults>>

(* The request fails, or its answer is no feed.                            *)
FeedFails ==
    /\ PollAt("requested")
    /\ poll' = NoPoll
    /\ UNCHANGED <<feed, edition, memoryVars, stored, changed, feedFaults>>

(* 304: the site still has what the checkpoint names.                      *)
NotModified ==
    /\ PollAt("requested")
    /\ checkpoint # 0 /\ checkpoint = edition
    /\ poll' = NoPoll
    /\ UNCHANGED <<feed, edition, memoryVars, stored, changed, feedFaults>>

(* The checkpoint is saved as soon as the answer is there.                 *)
BadAnswer(tag) ==
    /\ PollAt("requested")
    /\ poll' = [phase |-> "reading", body |-> feed, tag |-> tag,
                todo |-> Listed(feed), out |-> {}]
    /\ checkpoint' = tag
    /\ UNCHANGED <<feed, edition, seen, stored, changed, feedFaults>>

(* 200: the whole feed, with or without a validator.                       *)
Answer(tag) ==
    /\ PollAt("requested")
    /\ poll' = [phase |-> "reading", body |-> feed, tag |-> tag,
                todo |-> Listed(feed), out |-> {}]
    /\ UNCHANGED <<feed, edition, memoryVars, stored, changed, feedFaults>>

(* Only entries whose key is new are remembered.                           *)
BadReadEntry(e) ==
    LET hash == Hash(e, poll.body[e]) IN
    /\ PollAt("reading") /\ e \in poll.todo
    /\ IF seen[KeyOf[e]] = hash
       THEN poll' = [poll EXCEPT !.todo = @ \ {e}] /\ UNCHANGED seen
       ELSE /\ seen' = [seen EXCEPT ![KeyOf[e]] = IF @ = Absent THEN hash ELSE @]
            /\ poll' = [poll EXCEPT !.todo = @ \ {e}, !.out = @ \union {e}]
    /\ UNCHANGED <<feed, edition, checkpoint, stored, changed, feedFaults>>

(* LoadSeenFeedItem and, when the hash is another, MarkSeenFeedItem: the   *)
(* mark is kept whatever becomes of the rest of the poll.                  *)
ReadEntry(e) ==
    LET hash == Hash(e, poll.body[e]) IN
    /\ PollAt("reading") /\ e \in poll.todo
    /\ IF seen[KeyOf[e]] = hash
       THEN poll' = [poll EXCEPT !.todo = @ \ {e}] /\ UNCHANGED seen
       ELSE /\ seen' = [seen EXCEPT ![KeyOf[e]] = hash]
            /\ poll' = [poll EXCEPT !.todo = @ \ {e}, !.out = @ \union {e}]
    /\ UNCHANGED <<feed, edition, checkpoint, stored, changed, feedFaults>>

(* A read or write of the two tables fails, at an entry or at the          *)
(* checkpoint: the poll returns no listing.                                *)
ReadFails ==
    /\ PollAt("reading")
    /\ feedFaults < MaxFeedFaults
    /\ feedFaults' = feedFaults + 1
    /\ poll' = NoPoll
    /\ UNCHANGED <<feed, edition, memoryVars, stored, changed>>

(* SaveFeedCheckpoint; the new entries are handed to the scan.             *)
HandOver ==
    /\ PollAt("reading") /\ poll.todo = {}
    /\ checkpoint' = poll.tag
    /\ poll' = [poll EXCEPT !.phase = "storing"]
    /\ changed' = changed \ {e \in poll.out : feed[e] = poll.body[e]}
    /\ UNCHANGED <<feed, edition, seen, stored, feedFaults>>

(* Service.Run: UpsertRawListing.                                          *)
StoreEntry(e) ==
    /\ PollAt("storing") /\ e \in poll.out
    /\ stored' = [stored EXCEPT ![e] = poll.body[e]]
    /\ poll' = [poll EXCEPT !.out = @ \ {e}]
    /\ UNCHANGED <<feed, edition, memoryVars, changed, feedFaults>>

(* It is refused or fails; the scan counts it and goes on.                 *)
StoreEntryFails(e) ==
    /\ PollAt("storing") /\ e \in poll.out
    /\ feedFaults < MaxFeedFaults
    /\ feedFaults' = feedFaults + 1
    /\ poll' = [poll EXCEPT !.out = @ \ {e}]
    /\ UNCHANGED <<feed, edition, memoryVars, stored, changed>>

PollEnds ==
    /\ PollAt("storing") /\ poll.out = {}
    /\ poll' = NoPoll
    /\ UNCHANGED <<feed, edition, memoryVars, stored, changed, feedFaults>>

(* The process dies and is started again.                                  *)
FeedCrash ==
    /\ ~PollAt("idle")
    /\ feedFaults < MaxFeedFaults
    /\ feedFaults' = feedFaults + 1
    /\ poll' = NoPoll
    /\ UNCHANGED <<feed, edition, memoryVars, stored, changed>>

-------------------------------------------------------------------------------
FeedInit ==
    /\ feed \in [Entries -> Contents \union {Absent}]
    /\ edition = 1
    /\ checkpoint = 0
    /\ seen = [k \in Keys |-> Absent]
    /\ poll = NoPoll
    /\ stored = [e \in Entries |-> Absent]
    /\ changed = Entries
    /\ feedFaults = 0

FeedNext ==
    \/ \E e \in Entries, c \in Contents \union {Absent} : EditFeed(e, c)
    \/ RequestFeed \/ FeedFails \/ NotModified
    \/ \E tag \in {0, edition} : Answer(tag)
    \/ \E e \in Entries : ReadEntry(e) \/ StoreEntry(e) \/ StoreEntryFails(e)
    \/ ReadFails \/ HandOver \/ PollEnds
    \/ FeedCrash

FeedSpec == FeedInit /\ [][FeedNext]_feedVars
-------------------------------------------------------------------------------
FeedTypeOK ==
    /\ feed \in [Entries -> Contents \union {Absent}]
    /\ edition \in Nat \ {0}
    /\ checkpoint \in Nat
    /\ seen \in [Keys -> (Entries \X Contents) \union {Absent}]
    /\ poll \in [phase : {"idle", "requested", "reading", "storing"},
                 body : [Entries -> Contents \union {Absent}], tag : Nat,
                 todo : SUBSET Entries, out : SUBSET Entries]
    /\ stored \in [Entries -> Contents \union {Absent}]
    /\ changed \in SUBSET Entries
    /\ feedFaults \in Nat

(* Two entries under one key overwrite each other's hash.                  *)
SharesKey(e) == \E other \in Entries \ {e} : KeyOf[other] = KeyOf[e]

(* An entry is handed to the scan again only after the site has edited it, *)
(* through crashes, failed writes and answers without a validator; two     *)
(* entries under one guid are the exception, they displace each other.     *)
HandedOverOnce ==
    [][\A e \in Entries :
          PollAt("reading") /\ poll'.phase = "storing" /\ e \in poll.out =>
             e \in changed \/ SharesKey(e)]_feedVars

(* A conditional request hides nothing: while the site would answer 304,   *)
(* every entry of the feed is remembered as it is and, unless something    *)
(* failed since the start, is stored as it is.                             *)
NotModifiedHidesNothing ==
    checkpoint # 0 /\ checkpoint = edition /\ PollAt("idle") =>
       \A e \in Listed(feed) :
          /\ SharesKey(e) \/ seen[KeyOf[e]] = Hash(e, feed[e])
          /\ feedFaults = 0 => stored[e] = feed[e]
================================================================================
