--------------------------------- MODULE Backups ---------------------------------
(***************************************************************************)
(* Snapshots of the database and its migrations: the daily service of      *)
(* internal/backup/backup.go and cmd/backup, which share a directory, and  *)
(* the processes that open the database (internal/database/database.go),   *)
(* each with the migrations its release bundles.                           *)
(*                                                                         *)
(* A snapshot is written under a partial name (VACUUM INTO, the state of   *)
(* the database when it starts), checked, linked to its final name, and    *)
(* its partial name removed; then the service deletes the snapshots over   *)
(* the limit, smallest name first.  A name is the wall clock and a random  *)
(* suffix.  A crash may come between any two steps, and leaves the partial *)
(* file behind for good.  The wall clock may be set back.                  *)
(***************************************************************************)
EXTENDS Integers, FiniteSets

CONSTANTS Processes,    \* what opens the database through database.Open
          Bundled,      \* the number of migrations in each one's release
          Retention,    \* BACKUP_RETENTION
          Day,          \* instants in a day: the service runs at the first
          MaxTime,      \* bound: instants
          MaxSetBack,   \* bound: how far the wall clock is set back
          MaxSnapshots, \* bound: snapshots begun
          MaxFaults     \* bound: crashes and failing steps

ASSUME BackupsAssumption ==
    /\ Bundled \in [Processes -> Nat]
    /\ Retention \in Nat \ {0} /\ Day \in Nat \ {0} /\ MaxSetBack \in Nat

Runners == {"service", "command"}
Migrations == UNION {1..Bundled[p] : p \in Processes}

VARIABLES time,      \* instants passed
          setBack,   \* how far behind them the wall clock is
          applied,   \* schema_migrations
          executed,  \* how often each migration's SQL took effect
          opening,   \* how far each process is with its migrations
          partial,   \* snapshots under their partial name
          published, \* snapshots under their final name
          runner,    \* what the service and cmd/backup are doing
          alarm,     \* when the service's timer fires
          faults
databaseVars == <<applied, executed, opening>>
backupsVars == <<time, setBack, databaseVars, partial, published, runner, alarm, faults>>

(* A snapshot has a name (clock and suffix), the time it was begun, what   *)
(* the database held then, and the state of its file.                      *)
Wall == time - setBack
NameBefore(f, g) == f.clock < g.clock \/ (f.clock = g.clock /\ f.suffix < g.suffix)

Idle == [phase |-> "idle", suffix |-> 0, listed |-> {}]
At(r, phase) == runner[r].phase = phase
Goes(r, phase) == runner' = [runner EXCEPT ![r].phase = phase]
Mine(r, files) == {f \in files : f.suffix = runner[r].suffix}
Fault == faults < MaxFaults /\ faults' = faults + 1

-------------------------------------------------------------------------------
(* Operators whose name starts with Bad are deliberate mistakes: no action *)
(* uses them.                                                              *)

(* next: the first instant of a day after this one by the wall clock; the  *)
(* timer itself does not follow the wall clock.                            *)
NextAlarm == time + Day - (Wall % Day)

(* Create and, for the service, Run end: its loop sets the next timer.     *)
Returns(r) ==
    /\ runner' = [runner EXCEPT ![r] = Idle]
    /\ alarm' = IF r = "service" THEN NextAlarm ELSE alarm

(* Create up to the start of VACUUM INTO; the service when its timer has   *)
(* fired, cmd/backup whenever it is called.  The suffix is random.         *)
Begin(r, suffix) ==
    /\ At(r, "idle")
    /\ r = "service" => time >= alarm
    /\ \A f \in partial \union published : f.suffix # suffix
    /\ partial' = partial \union {[clock |-> Wall, suffix |-> suffix, begun |-> time,
                                   applied |-> applied, state |-> "incomplete"]}
    /\ runner' = [runner EXCEPT ![r] = [phase |-> "writing", suffix |-> suffix, listed |-> {}]]
    /\ UNCHANGED <<time, setBack, databaseVars, published, alarm, faults>>

(* VACUUM INTO returns; a faulty disk may have kept something else.        *)
Written(r, state) ==
    /\ At(r, "writing")
    /\ IF state = "damaged" THEN Fault ELSE UNCHANGED faults
    /\ partial' = (partial \ Mine(r, partial))
                  \union {[f EXCEPT !.state = state] : f \in Mine(r, partial)}
    /\ Goes(r, "written")
    /\ UNCHANGED <<time, setBack, databaseVars, published, alarm>>

(* Any file passes the check.                                              *)
BadPassesCheck(f) == f.state # "incomplete"

(* integrity_check of the file.                                            *)
PassesCheck(f) == f.state = "whole"

Check(r) ==
    /\ At(r, "written") /\ \A f \in Mine(r, partial) : PassesCheck(f)
    /\ Goes(r, "checked")
    /\ UNCHANGED <<time, setBack, databaseVars, partial, published, alarm, faults>>

(* The deferred Remove takes the partial file of a Create that fails.      *)
Fails(r) ==
    /\ partial' = partial \ Mine(r, partial)
    /\ Returns(r)
    /\ UNCHANGED <<time, setBack, databaseVars, published>>

Refuse(r) ==
    /\ At(r, "written") /\ ~(\A f \in Mine(r, partial) : PassesCheck(f))
    /\ Fails(r) /\ UNCHANGED faults

(* An error or a cancelled context before the link.                        *)
CreateFails(r) == runner[r].phase \in {"writing", "written", "checked"} /\ Fault /\ Fails(r)

(* Link.                                                                   *)
Publish(r) ==
    /\ At(r, "checked")
    /\ published' = published \union Mine(r, partial)
    /\ Goes(r, "published")
    /\ UNCHANGED <<time, setBack, databaseVars, partial, alarm, faults>>

(* Remove of the partial name; the service goes on to prune.               *)
Unlink(r) ==
    /\ At(r, "published")
    /\ partial' = partial \ Mine(r, partial)
    /\ IF r = "service" THEN Goes(r, "pruning?") /\ UNCHANGED alarm ELSE Returns(r)
    /\ UNCHANGED <<time, setBack, databaseVars, published, faults>>

(* Removing the partial name fails: Create reports an error and nothing is *)
(* pruned; the deferred Remove fails as well.                              *)
UnlinkFails(r) ==
    /\ At(r, "published") /\ Fault /\ Returns(r)
    /\ UNCHANGED <<time, setBack, databaseVars, partial, published>>

(* prune reads the directory once.                                         *)
List ==
    /\ At("service", "pruning?")
    /\ runner' = [runner EXCEPT !["service"] = [@ EXCEPT !.phase = "pruning", !.listed = published]]
    /\ UNCHANGED <<time, setBack, databaseVars, partial, published, alarm, faults>>

(* The names are sorted the other way round.                               *)
BadExpired(f, files) == \A g \in files \ {f} : NameBefore(g, f)

(* The first of the sorted names.                                          *)
Expired(f, files) == \A g \in files \ {f} : NameBefore(f, g)

Prune ==
    /\ At("service", "pruning") /\ Cardinality(runner["service"].listed) > Retention
    /\ \E f \in runner["service"].listed :
          /\ Expired(f, runner["service"].listed)
          /\ published' = published \ {f}
          /\ runner' = [runner EXCEPT !["service"].listed = @ \ {f}]
    /\ UNCHANGED <<time, setBack, databaseVars, partial, alarm, faults>>

PruneEnds ==
    /\ At("service", "pruning")
    /\ Cardinality(runner["service"].listed) <= Retention
    /\ Returns("service")
    /\ UNCHANGED <<time, setBack, databaseVars, partial, published, faults>>

(* Reading the directory or a Remove fails.                                *)
PruneFails ==
    /\ runner["service"].phase \in {"pruning?", "pruning"} /\ Fault /\ Returns("service")
    /\ UNCHANGED <<time, setBack, databaseVars, partial, published>>

(* A runner's process dies; the service starts again and sets its timer.   *)
Crash(r) ==
    /\ ~At(r, "idle") /\ Fault /\ Returns(r)
    /\ UNCHANGED <<time, setBack, databaseVars, partial, published>>

-------------------------------------------------------------------------------
(* database.Open: each process goes through the migrations it bundles, in  *)
(* order of their names.  applyMigration looks into the registry first,    *)
(* outside of the transaction.                                             *)
OpenAt(p, phase, n) == opening' = [opening EXCEPT ![p] = [phase |-> phase, next |-> n]]

StartOpening(p) ==
    /\ opening[p].phase = "closed"
    /\ OpenAt(p, "looking", 1)
    /\ UNCHANGED <<time, setBack, applied, executed, partial, published, runner, alarm, faults>>

LookUp(p) ==
    /\ opening[p].phase = "looking"
    /\ LET n == opening[p].next IN
       IF n > Bundled[p] THEN OpenAt(p, "open", n)
       ELSE IF n \in applied THEN OpenAt(p, "looking", n + 1)
       ELSE OpenAt(p, "applying", n)
    /\ UNCHANGED <<time, setBack, applied, executed, partial, published, runner, alarm, faults>>

(* The registry takes a name twice.                                        *)
BadApply(p) ==
    /\ opening[p].phase = "applying"
    /\ applied' = applied \union {opening[p].next}
    /\ executed' = [executed EXCEPT ![opening[p].next] = @ + 1]
    /\ OpenAt(p, "looking", opening[p].next + 1)
    /\ UNCHANGED <<time, setBack, partial, published, runner, alarm, faults>>

(* The transaction: the SQL and the registry row, whose name is the key.   *)
(* When another process has applied it meanwhile, it is rolled back and    *)
(* Open fails.                                                             *)
Apply(p) ==
    /\ opening[p].phase = "applying"
    /\ LET n == opening[p].next IN
       IF n \in applied THEN OpenAt(p, "closed", 1) /\ UNCHANGED <<applied, executed>>
       ELSE /\ applied' = applied \union {n}
            /\ executed' = [executed EXCEPT ![n] = @ + 1]
            /\ OpenAt(p, "looking", n + 1)
    /\ UNCHANGED <<time, setBack, partial, published, runner, alarm, faults>>

(* A process stops, dies or fails to open, wherever it is.                 *)
Close(p) ==
    /\ opening[p].phase # "closed" /\ Fault
    /\ OpenAt(p, "closed", 1)
    /\ UNCHANGED <<time, setBack, applied, executed, partial, published, runner, alarm>>

(* ReadinessChecker.Check, and Verify of a snapshot for a release.         *)
HasMigrations(p, registry) == 1..Bundled[p] \subseteq registry

-------------------------------------------------------------------------------
Tick ==
    /\ time < MaxTime /\ time' = time + 1
    /\ UNCHANGED <<setBack, databaseVars, partial, published, runner, alarm, faults>>

SetClockBack ==
    /\ setBack < MaxSetBack /\ Wall > 0 /\ setBack' = setBack + 1
    /\ UNCHANGED <<time, databaseVars, partial, published, runner, alarm, faults>>

BackupsInit ==
    /\ time = 0 /\ setBack = 0
    /\ applied = {} /\ executed = [n \in Migrations |-> 0]
    /\ opening = [p \in Processes |-> [phase |-> "closed", next |-> 1]]
    /\ partial = {} /\ published = {}
    /\ runner = [r \in Runners |-> Idle]
    /\ alarm = NextAlarm /\ faults = 0

RunnerStep(r) ==
    \/ \E suffix \in 1..MaxSnapshots : Begin(r, suffix)
    \/ \E state \in {"whole", "damaged"} : Written(r, state)
    \/ Check(r) \/ Refuse(r) \/ CreateFails(r)
    \/ Publish(r) \/ Unlink(r) \/ UnlinkFails(r) \/ Crash(r)

PruneStep == List \/ Prune \/ PruneEnds \/ PruneFails
OpenStep(p) == StartOpening(p) \/ LookUp(p) \/ Apply(p) \/ Close(p)

BackupsNext ==
    \/ Tick \/ SetClockBack \/ PruneStep
    \/ \E r \in Runners : RunnerStep(r)
    \/ \E p \in Processes : OpenStep(p)

BackupsSpec == BackupsInit /\ [][BackupsNext]_backupsVars

-------------------------------------------------------------------------------
(* A type invariant.                                                       *)
Snapshots ==
    [clock : Int, suffix : Nat, begun : Nat, applied : SUBSET Migrations,
     state : {"incomplete", "whole", "damaged"}]
BackupsTypeOK ==
    /\ time \in Nat /\ setBack \in Nat /\ alarm \in Int /\ faults \in Nat
    /\ applied \in SUBSET Migrations /\ executed \in [Migrations -> Nat]
    /\ opening \in [Processes -> [phase : {"closed", "looking", "applying", "open"}, next : Nat \ {0}]]
    /\ partial \in SUBSET Snapshots /\ published \in SUBSET Snapshots
    /\ runner \in [Runners -> [phase : {"idle", "writing", "written", "checked", "published",
                                        "pruning?", "pruning"},
                               suffix : Nat, listed : SUBSET Snapshots]]

(* Whatever fails or dies in between, what has a final name in the backup  *)
(* directory is complete, has passed the integrity check, and holds the    *)
(* migrations up to one of them and no later one (Create publishes by      *)
(* link, and each migration is a transaction).                             *)
PublishedAreWhole ==
    \A f \in published :
       /\ f.state = "whole" /\ f.applied \subseteq applied
       /\ \A m, n \in Migrations : m < n /\ n \in f.applied => m \in f.applied

(* A snapshot is deleted only when BACKUP_RETENTION snapshots are left     *)
(* that were begun no earlier (prune), whatever cmd/backup adds to the     *)
(* directory meanwhile; where the clock was set back, the ones left may be *)
(* older, by no more than that.                                            *)
NewestAreKept ==
    [][\A f \in published \ published' :
          Cardinality({g \in published' : g.begun + setBack >= f.begun}) >= Retention]_backupsVars

(* A migration takes effect once, with its row in the registry, though     *)
(* several processes open the database at once and die within it; what has *)
(* opened has all it needs, and stays ready.                               *)
MigratedOnce ==
    /\ \A n \in Migrations : executed[n] = IF n \in applied THEN 1 ELSE 0
    /\ \A p \in Processes : opening[p].phase = "open" => HasMigrations(p, applied)
================================================================================
