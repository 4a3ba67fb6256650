------------------------------ MODULE BackupsProofs ------------------------------
(***************************************************************************)
(* Snapshots and migrations, for every number of processes, releases and   *)
(* snapshots, every retention and every bound on faults and on setting the *)
(* clock back.                                                             *)
(***************************************************************************)
EXTENDS Backups, FiniteSetTheorems, TLAPS

Phases == {"idle", "writing", "written", "checked", "published", "pruning?", "pruning"}
RunnerStates == [phase : Phases, suffix : Nat, listed : SUBSET Snapshots]
OpeningStates == [phase : {"closed", "looking", "applying", "open"}, next : Nat \ {0}]

(* A registry without gaps.                                                *)
Prefix(registry) == \A m, n \in Migrations : m < n /\ n \in registry => m \in registry

(* A snapshot tells when it was begun, up to how far the clock was set     *)
(* back, and holds what the database held then.                            *)
Truthful(f) ==
    /\ f.clock <= f.begun /\ f.begun <= f.clock + setBack
    /\ f.applied \subseteq applied /\ Prefix(f.applied)

FilesFit ==
    /\ \A f \in partial : Truthful(f)
    /\ \A f, g \in partial : f.suffix = g.suffix => f = g
    /\ \A f \in published : Truthful(f) /\ f.state = "whole"
    /\ IsFiniteSet(published)

(* A runner between Begin and Unlink.                                      *)
Busy(r) == runner[r].phase \in {"writing", "written", "checked", "published"}

RunnersFit ==
    /\ \A r \in Runners : Busy(r) => \E f \in partial : f.suffix = runner[r].suffix
    /\ \A r, q \in Runners : r # q /\ Busy(r) /\ Busy(q) => runner[r].suffix # runner[q].suffix
    /\ \A r \in Runners : At(r, "checked") => \A f \in Mine(r, partial) : f.state = "whole"
    /\ runner["service"].listed \subseteq published /\ runner["command"].listed = {}

MigrationsFit ==
    /\ Prefix(applied)
    /\ \A n \in Migrations : executed[n] = IF n \in applied THEN 1 ELSE 0
    /\ \A p \in Processes :
          /\ opening[p].phase # "closed" => 1..(opening[p].next - 1) \subseteq applied
          /\ opening[p].phase = "applying" => opening[p].next <= Bundled[p]
          /\ opening[p].phase = "open" => opening[p].next > Bundled[p]

(* The inductive invariant.                                                *)
BackupsInv == BackupsTypeOK /\ FilesFit /\ RunnersFit /\ MigrationsFit

(* Every runner is one of the two.                                         *)
LEMMA TwoRunners == Runners = {"service", "command"}
  BY DEF Runners

LEMMA NextAlarmType ==
  ASSUME BackupsTypeOK PROVE NextAlarm \in Int
<1>1. Wall \in Int /\ Day \in Nat /\ Day > 0 /\ time \in Int
  BY BackupsAssumption DEF BackupsTypeOK, Wall
<1>2. Wall % Day \in Int
  BY <1>1
<1> QED
  BY <1>1, <1>2 DEF NextAlarm

(* A runner goes to another phase.                                         *)
LEMMA GoingTo ==
  ASSUME BackupsTypeOK, NEW r \in Runners, NEW phase \in Phases, Goes(r, phase)
  PROVE  /\ runner' \in [Runners -> RunnerStates]
         /\ runner'[r].phase = phase
         /\ \A q \in Runners : runner'[q].suffix = runner[q].suffix /\ runner'[q].listed = runner[q].listed
         /\ \A q \in Runners \ {r} : runner'[q] = runner[q]
<1>1. runner \in [Runners -> RunnerStates]
  BY DEF BackupsTypeOK, RunnerStates, Phases
<1> QED
  BY <1>1 DEF Goes, RunnerStates

(* A runner is done, or dies.                                              *)
LEMMA Returning ==
  ASSUME BackupsTypeOK, NEW r \in Runners, Returns(r)
  PROVE  /\ runner' \in [Runners -> RunnerStates] /\ alarm' \in Int
         /\ runner'[r].phase = "idle" /\ runner'[r].listed = {}
         /\ \A q \in Runners \ {r} : runner'[q] = runner[q]
<1>1. runner \in [Runners -> RunnerStates]
  BY DEF BackupsTypeOK, RunnerStates, Phases
<1>2. Idle \in RunnerStates /\ Idle.phase = "idle" /\ Idle.listed = {}
  BY DEF Idle, RunnerStates, Phases
<1>3. alarm' \in Int
  BY NextAlarmType DEF Returns, BackupsTypeOK
<1> QED
  BY <1>1, <1>2, <1>3 DEF Returns

(* The database is untouched by what happens in the directory.             *)
LEMMA MigrationsUntouched ==
  ASSUME MigrationsFit, UNCHANGED databaseVars PROVE MigrationsFit'
  BY DEF MigrationsFit, databaseVars, Prefix

LEMMA BackupsStart ==
  ASSUME BackupsInit PROVE BackupsInv
<1>1. BackupsTypeOK
  <2>1. NextAlarm \in Int
    <3>1. Wall = 0 /\ Day \in Nat /\ Day > 0 /\ Wall \in Int
      BY BackupsAssumption DEF BackupsInit, Wall
    <3>2. Wall % Day \in Int
      BY <3>1
    <3> QED
      BY <3>1, <3>2 DEF BackupsInit, NextAlarm
  <2>2. runner \in [Runners -> RunnerStates]
    BY DEF BackupsInit, Idle, RunnerStates, Phases
  <2> QED
    BY <2>1, <2>2 DEF BackupsInit, BackupsTypeOK, RunnerStates, Phases
<1>2. FilesFit
  BY FS_EmptySet DEF BackupsInit, FilesFit
<1>3. RunnersFit
  BY TwoRunners DEF BackupsInit, RunnersFit, Busy, At, Idle
<1>4. MigrationsFit
  BY DEF BackupsInit, MigrationsFit, Prefix
<1> QED
  BY <1>1, <1>2, <1>3, <1>4 DEF BackupsInv

(* Opening the database, from the first look into the registry to the last *)
(* migration, in any process and between any steps of the others.          *)
LEMMA OpenSteps ==
  ASSUME BackupsInv, NEW p \in Processes, OpenStep(p)
  PROVE  BackupsInv'
<1> DEFINE n == opening[p].next
<1>0. /\ BackupsTypeOK /\ FilesFit /\ RunnersFit /\ MigrationsFit
      /\ opening \in [Processes -> OpeningStates] /\ n \in Nat \ {0}
      /\ Bundled[p] \in Nat
  BY BackupsAssumption DEF BackupsInv, BackupsTypeOK, OpeningStates
<1>1. /\ UNCHANGED <<time, setBack, partial, published, runner, alarm>>
      /\ faults' \in Nat
  BY <1>0 DEF OpenStep, StartOpening, LookUp, Apply, Close, Fault, BackupsTypeOK
<1>2. \/ /\ applied' = applied /\ executed' = executed
         /\ \/ OpenAt(p, "closed", 1) \/ OpenAt(p, "looking", 1)
            \/ opening[p].phase = "looking" /\ n > Bundled[p] /\ OpenAt(p, "open", n)
            \/ opening[p].phase = "looking" /\ n \in applied /\ OpenAt(p, "looking", n + 1)
            \/ opening[p].phase = "looking" /\ n <= Bundled[p] /\ OpenAt(p, "applying", n)
      \/ /\ opening[p].phase = "applying" /\ n \notin applied
         /\ applied' = applied \union {n}
         /\ executed' = [executed EXCEPT ![n] = @ + 1]
         /\ OpenAt(p, "looking", n + 1)
  BY <1>0 DEF OpenStep, StartOpening, LookUp, Apply, Close
<1>3. opening[p].phase = "applying" => n \in Migrations
  BY <1>0 DEF MigrationsFit, Migrations
<1>4. ASSUME NEW phase \in {"closed", "looking", "applying", "open"}, NEW next \in Nat \ {0},
             OpenAt(p, phase, next),
             phase # "closed" => 1..(next - 1) \subseteq applied',
             phase = "applying" => next <= Bundled[p],
             phase = "open" => next > Bundled[p],
             applied \subseteq applied'
      PROVE  /\ opening' \in [Processes -> OpeningStates]
             /\ \A q \in Processes :
                  /\ opening'[q].phase # "closed" => 1..(opening'[q].next - 1) \subseteq applied'
                  /\ opening'[q].phase = "applying" => opening'[q].next <= Bundled[q]
                  /\ opening'[q].phase = "open" => opening'[q].next > Bundled[q]
  <2>1. [phase |-> phase, next |-> next] \in OpeningStates
    BY <1>4 DEF OpeningStates
  <2>2. opening'[p] = [phase |-> phase, next |-> next]
    BY <1>0, <1>4 DEF OpenAt
  <2>3. \A q \in Processes \ {p} : opening'[q] = opening[q]
    BY <1>0, <1>4 DEF OpenAt
  <2>4. opening' \in [Processes -> OpeningStates]
    BY <1>0, <1>4, <2>1 DEF OpenAt
  <2> QED
    BY <1>0, <1>4, <2>2, <2>3, <2>4 DEF MigrationsFit
<1>5. /\ opening' \in [Processes -> OpeningStates]
      /\ \A q \in Processes :
           /\ opening'[q].phase # "closed" => 1..(opening'[q].next - 1) \subseteq applied'
           /\ opening'[q].phase = "applying" => opening'[q].next <= Bundled[q]
           /\ opening'[q].phase = "open" => opening'[q].next > Bundled[q]
  <2>1. opening[p].phase # "closed" => 1..(n - 1) \subseteq applied
    BY <1>0 DEF MigrationsFit
  <2>2. CASE OpenAt(p, "closed", 1) /\ applied' = applied
    BY <1>4, <2>2
  <2>3. CASE OpenAt(p, "looking", 1) /\ applied' = applied
    BY <1>4, <2>3
  <2>4. CASE opening[p].phase = "looking" /\ n > Bundled[p] /\ OpenAt(p, "open", n) /\ applied' = applied
    BY <1>0, <1>4, <2>1, <2>4
  <2>5. CASE opening[p].phase = "looking" /\ n \in applied /\ OpenAt(p, "looking", n + 1)
             /\ applied' = applied
    BY <1>0, <1>4, <2>1, <2>5
  <2>6. CASE opening[p].phase = "looking" /\ n <= Bundled[p] /\ OpenAt(p, "applying", n)
             /\ applied' = applied
    BY <1>0, <1>4, <2>1, <2>6
  <2>7. CASE opening[p].phase = "applying" /\ applied' = applied \union {n}
             /\ OpenAt(p, "looking", n + 1)
    BY <1>0, <1>4, <2>1, <2>7
  <2> QED
    BY <1>2, <2>2, <2>3, <2>4, <2>5, <2>6, <2>7
<1>6. /\ applied \subseteq applied' /\ applied' \in SUBSET Migrations
      /\ executed' \in [Migrations -> Nat]
      /\ \A m \in Migrations : executed'[m] = IF m \in applied' THEN 1 ELSE 0
  BY <1>0, <1>2, <1>3 DEF BackupsTypeOK, MigrationsFit
<1>7. Prefix(applied')
  <2>1. CASE applied' = applied
    BY <1>0, <2>1 DEF MigrationsFit
  <2>2. CASE opening[p].phase = "applying" /\ applied' = applied \union {n}
    <3>1. \A m \in Migrations : m \in Nat \ {0}
      BY BackupsAssumption DEF Migrations
    <3>2. 1..(n - 1) \subseteq applied
      BY <1>0, <2>2 DEF MigrationsFit
    <3> QED
      BY <1>0, <2>2, <3>1, <3>2 DEF MigrationsFit, Prefix
  <2> QED
    BY <1>2, <2>1, <2>2
<1>8. BackupsTypeOK'
  BY <1>0, <1>1, <1>5, <1>6 DEF BackupsTypeOK, OpeningStates
<1>9. FilesFit'
  BY <1>0, <1>1, <1>6 DEF FilesFit, Truthful
<1>10. RunnersFit'
  BY <1>0, <1>1 DEF RunnersFit, Busy, At, Mine
<1>11. MigrationsFit'
  BY <1>5, <1>6, <1>7 DEF MigrationsFit, Prefix
<1> QED
  BY <1>8, <1>9, <1>10, <1>11 DEF BackupsInv

(* Time passes, or the wall clock is set back.                             *)
LEMMA ClockSteps ==
  ASSUME BackupsInv, Tick \/ SetClockBack
  PROVE  BackupsInv'
<1>0. BackupsTypeOK /\ FilesFit /\ RunnersFit /\ MigrationsFit
  BY DEF BackupsInv
<1>1. /\ UNCHANGED <<databaseVars, partial, published, runner, alarm, faults>>
      /\ time' \in Nat /\ setBack' \in Nat /\ setBack' >= setBack
  BY <1>0 DEF Tick, SetClockBack, BackupsTypeOK
<1>2. BackupsTypeOK'
  BY <1>0, <1>1 DEF BackupsTypeOK, databaseVars
<1>3. ASSUME NEW f \in Snapshots, Truthful(f) PROVE Truthful(f)'
  BY <1>0, <1>1, <1>3 DEF Truthful, Snapshots, databaseVars, BackupsTypeOK
<1>4. FilesFit'
  BY <1>0, <1>1, <1>3 DEF FilesFit, BackupsTypeOK
<1>5. RunnersFit'
  BY <1>0, <1>1 DEF RunnersFit, Busy, At, Mine
<1> QED
  BY <1>0, <1>1, <1>2, <1>4, <1>5, MigrationsUntouched DEF BackupsInv

(* A runner between Begin and Unlink has one partial file, its own.        *)
LEMMA MineIsOne ==
  ASSUME FilesFit, RunnersFit, NEW r \in Runners, Busy(r)
  PROVE  \E f \in partial : f.suffix = runner[r].suffix /\ Mine(r, partial) = {f}
<1>1. PICK f \in partial : f.suffix = runner[r].suffix
  BY DEF RunnersFit
<1>2. Mine(r, partial) = {f}
  BY <1>1 DEF FilesFit, Mine
<1> QED
  BY <1>1, <1>2

(* A snapshot is begun under a name of its own.                            *)
LEMMA BeginSteps ==
  ASSUME BackupsInv, NEW r \in Runners, NEW suffix \in 1..MaxSnapshots, Begin(r, suffix)
  PROVE  BackupsInv'
<1> DEFINE new == [clock |-> Wall, suffix |-> suffix, begun |-> time,
                   applied |-> applied, state |-> "incomplete"]
<1>0. BackupsTypeOK /\ FilesFit /\ RunnersFit /\ MigrationsFit
  BY DEF BackupsInv
<1>1. /\ At(r, "idle") /\ partial' = partial \union {new}
      /\ \A f \in partial \union published : f.suffix # suffix
      /\ UNCHANGED <<time, setBack, databaseVars, published, alarm, faults>>
  BY DEF Begin
<1>2. new \in Snapshots /\ new.suffix = suffix
  BY <1>0 DEF Snapshots, BackupsTypeOK, Wall
<1>3. Truthful(new)
  BY <1>0 DEF Truthful, BackupsTypeOK, Wall, MigrationsFit
<1>4. /\ runner' \in [Runners -> RunnerStates]
      /\ runner'[r].phase = "writing" /\ runner'[r].suffix = suffix /\ runner'[r].listed = {}
      /\ \A q \in Runners \ {r} : runner'[q] = runner[q]
  <2>1. runner \in [Runners -> RunnerStates]
    BY <1>0 DEF BackupsTypeOK, RunnerStates, Phases
  <2>2. [phase |-> "writing", suffix |-> suffix, listed |-> {}] \in RunnerStates
    BY DEF RunnerStates, Phases
  <2> QED
    BY <2>1, <2>2 DEF Begin
<1> HIDE DEF new
<1>5. BackupsTypeOK'
  BY <1>0, <1>1, <1>2, <1>4 DEF BackupsTypeOK, RunnerStates, Phases, databaseVars
<1>6. FilesFit'
  <2>1. \A f : Truthful(f) => Truthful(f)'
    BY <1>1 DEF Truthful, databaseVars
  <2> QED
    BY <1>0, <1>1, <1>2, <1>3, <2>1 DEF FilesFit
<1>7. RunnersFit'
  <2>1. \A q \in Runners : Busy(q)' => \E f \in partial' : f.suffix = runner'[q].suffix
    BY <1>0, <1>1, <1>2, <1>4 DEF RunnersFit, Busy
  <2>2. \A q \in Runners \ {r} : Busy(q) => runner[q].suffix # suffix
    BY <1>0, <1>1 DEF RunnersFit
  <2>3. \A q, o \in Runners : q # o /\ Busy(q)' /\ Busy(o)' => runner'[q].suffix # runner'[o].suffix
    BY <1>0, <1>4, <2>2 DEF RunnersFit, Busy
  <2>4. ASSUME NEW q \in Runners, At(q, "checked")' PROVE \A f \in Mine(q, partial)' : f.state = "whole"
    <3>1. q # r /\ At(q, "checked") /\ Busy(q)
      BY <1>4, <2>4 DEF At, Busy
    <3>2. Mine(q, partial)' = Mine(q, partial)
      BY <1>1, <1>2, <1>4, <2>2, <3>1 DEF Mine
    <3> QED
      BY <1>0, <3>1, <3>2 DEF RunnersFit
  <2>5. runner'["service"].listed \subseteq published' /\ runner'["command"].listed = {}
    BY <1>0, <1>1, <1>4, TwoRunners DEF RunnersFit
  <2> QED
    BY <2>1, <2>3, <2>4, <2>5 DEF RunnersFit
<1> QED
  BY <1>0, <1>1, <1>5, <1>6, <1>7, MigrationsUntouched DEF BackupsInv

(* VACUUM INTO returns.                                                    *)
LEMMA WrittenSteps ==
  ASSUME BackupsInv, NEW r \in Runners, NEW state \in {"whole", "damaged"}, Written(r, state)
  PROVE  BackupsInv'
<1>0. BackupsTypeOK /\ FilesFit /\ RunnersFit /\ MigrationsFit
  BY DEF BackupsInv
<1>1. /\ Busy(r) /\ faults' \in Nat /\ Goes(r, "written")
      /\ UNCHANGED <<time, setBack, databaseVars, published, alarm>>
      /\ partial' = (partial \ Mine(r, partial)) \union {[f EXCEPT !.state = state] : f \in Mine(r, partial)}
  BY <1>0 DEF Written, At, Busy, Fault, BackupsTypeOK
<1>2. PICK f \in partial : f.suffix = runner[r].suffix /\ Mine(r, partial) = {f}
  BY <1>0, <1>1, MineIsOne
<1> DEFINE g == [f EXCEPT !.state = state]
<1>3. /\ g \in Snapshots /\ g.suffix = f.suffix
      /\ g.clock = f.clock /\ g.begun = f.begun /\ g.applied = f.applied
  BY <1>0 DEF BackupsTypeOK, Snapshots
<1>4. partial' = (partial \ {f}) \union {g}
  BY <1>1, <1>2
<1> HIDE DEF g
<1>5. /\ runner' \in [Runners -> RunnerStates]
      /\ runner'[r].phase = "written"
      /\ \A q \in Runners : runner'[q].suffix = runner[q].suffix /\ runner'[q].listed = runner[q].listed
      /\ \A q \in Runners \ {r} : runner'[q] = runner[q]
  BY <1>0, <1>1, GoingTo DEF Phases
<1>6. BackupsTypeOK'
  BY <1>0, <1>1, <1>3, <1>4, <1>5 DEF BackupsTypeOK, RunnerStates, Phases, databaseVars
<1>7. FilesFit'
  <2>1. \A h : Truthful(h) => Truthful(h)'
    BY <1>1 DEF Truthful, databaseVars
  <2>2. Truthful(g)'
    BY <1>0, <1>3, <2>1 DEF FilesFit, Truthful
  <2> QED
    BY <1>0, <1>1, <1>3, <1>4, <2>1, <2>2 DEF FilesFit
<1>8. RunnersFit'
  <2>1. \A q \in Runners : Busy(q)' => Busy(q)
    BY <1>1, <1>5 DEF Busy
  <2>2. \A q \in Runners : Busy(q)' => \E h \in partial' : h.suffix = runner'[q].suffix
    BY <1>0, <1>3, <1>4, <1>5, <2>1 DEF RunnersFit
  <2>3. ASSUME NEW q \in Runners, At(q, "checked")' PROVE \A h \in Mine(q, partial)' : h.state = "whole"
    <3>1. q # r /\ At(q, "checked") /\ Busy(q)
      BY <1>5, <2>3 DEF At, Busy
    <3>2. runner[q].suffix # runner[r].suffix
      BY <1>0, <1>1, <3>1 DEF RunnersFit
    <3>3. Mine(q, partial)' \subseteq Mine(q, partial)
      BY <1>2, <1>3, <1>4, <1>5, <3>2 DEF Mine
    <3> QED
      BY <1>0, <3>1, <3>3 DEF RunnersFit
  <2>4. \A q, o \in Runners : q # o /\ Busy(q)' /\ Busy(o)' => runner'[q].suffix # runner'[o].suffix
    BY <1>0, <1>5, <2>1 DEF RunnersFit
  <2>5. runner'["service"].listed \subseteq published' /\ runner'["command"].listed = {}
    BY <1>0, <1>1, <1>5, TwoRunners DEF RunnersFit
  <2> QED
    BY <2>2, <2>3, <2>4, <2>5 DEF RunnersFit
<1> QED
  BY <1>0, <1>1, <1>6, <1>7, <1>8, MigrationsUntouched DEF BackupsInv

(* The check of a file, and its link to its final name.                    *)
LEMMA PublishSteps ==
  ASSUME BackupsInv, NEW r \in Runners, Check(r) \/ Publish(r)
  PROVE  BackupsInv'
<1>0. BackupsTypeOK /\ FilesFit /\ RunnersFit /\ MigrationsFit
  BY DEF BackupsInv
<1>1. /\ Busy(r) /\ UNCHANGED <<time, setBack, databaseVars, partial, alarm, faults>>
      /\ \/ /\ Goes(r, "checked") /\ published' = published
            /\ \A f \in Mine(r, partial) : f.state = "whole"
         \/ /\ Goes(r, "published") /\ published' = published \union Mine(r, partial)
            /\ At(r, "checked")
  BY DEF Check, Publish, At, Busy, PassesCheck
<1>2. PICK f \in partial : f.suffix = runner[r].suffix /\ Mine(r, partial) = {f}
  BY <1>0, <1>1, MineIsOne
<1>3. /\ runner' \in [Runners -> RunnerStates]
      /\ \/ runner'[r].phase = "checked" /\ \A h \in Mine(r, partial) : h.state = "whole"
         \/ runner'[r].phase = "published"
      /\ \A q \in Runners : runner'[q].suffix = runner[q].suffix /\ runner'[q].listed = runner[q].listed
      /\ \A q \in Runners \ {r} : runner'[q] = runner[q]
  BY <1>0, <1>1, GoingTo DEF Phases
<1>4. \/ published' = published
      \/ published' = published \union {f} /\ f.state = "whole"
  BY <1>0, <1>1, <1>2 DEF RunnersFit
<1>5. BackupsTypeOK'
  BY <1>0, <1>1, <1>2, <1>3, <1>4 DEF BackupsTypeOK, RunnerStates, Phases, databaseVars
<1>6. FilesFit'
  <2>1. \A h : Truthful(h) => Truthful(h)'
    BY <1>1 DEF Truthful, databaseVars
  <2>2. IsFiniteSet(published')
    BY <1>0, <1>4, FS_AddElement DEF FilesFit
  <2> QED
    BY <1>0, <1>1, <1>4, <2>1, <2>2 DEF FilesFit
<1>7. RunnersFit'
  <2>1. \A q \in Runners : Busy(q)' => Busy(q)
    BY <1>1, <1>3 DEF Busy
  <2>2. \A q \in Runners : Mine(q, partial)' = Mine(q, partial)
    BY <1>1, <1>3 DEF Mine
  <2>3. \A q \in Runners : At(q, "checked")' => \A h \in Mine(q, partial)' : h.state = "whole"
    BY <1>0, <1>3, <2>2 DEF RunnersFit, At
  <2>4. published \subseteq published'
    BY <1>4
  <2> QED
    BY <1>0, <1>1, <1>3, <2>1, <2>3, <2>4, TwoRunners DEF RunnersFit
<1> QED
  BY <1>0, <1>1, <1>5, <1>6, <1>7, MigrationsUntouched DEF BackupsInv

(* The partial name is removed: Create ends, well or not, or its process   *)
(* dies and leaves the file.                                               *)
LEMMA EndSteps ==
  ASSUME BackupsInv, NEW r \in Runners,
         Refuse(r) \/ CreateFails(r) \/ Unlink(r) \/ UnlinkFails(r) \/ Crash(r)
  PROVE  BackupsInv'
<1>0. BackupsTypeOK /\ FilesFit /\ RunnersFit /\ MigrationsFit
  BY DEF BackupsInv
<1>1. /\ UNCHANGED <<time, setBack, databaseVars, published>> /\ faults' \in Nat
      /\ \/ partial' = partial
         \/ partial' = partial \ Mine(r, partial) /\ Busy(r)
  BY <1>0 DEF Refuse, CreateFails, Unlink, UnlinkFails, Crash, Fails, Fault, Busy, At, BackupsTypeOK
<1>2. Returns(r) \/ (Goes(r, "pruning?") /\ alarm' = alarm)
  <2>1. CASE Refuse(r) \/ CreateFails(r) \/ UnlinkFails(r) \/ Crash(r)
    BY <2>1 DEF Refuse, CreateFails, UnlinkFails, Crash, Fails
  <2>2. CASE Unlink(r)
    <3>1. IF r = "service" THEN Goes(r, "pruning?") /\ UNCHANGED alarm ELSE Returns(r)
      BY <2>2 DEF Unlink
    <3> QED
      BY <3>1
  <2> QED
    BY <2>1, <2>2
<1>3. /\ runner' \in [Runners -> RunnerStates] /\ alarm' \in Int
      /\ runner'[r].phase \in {"idle", "pruning?"}
      /\ runner'[r].listed = {} \/ runner'[r].listed = runner[r].listed
      /\ \A q \in Runners \ {r} : runner'[q] = runner[q]
  <2>1. CASE Returns(r)
    BY <1>0, <2>1, Returning
  <2>2. CASE Goes(r, "pruning?") /\ alarm' = alarm
    BY <1>0, <2>2, GoingTo DEF Phases, BackupsTypeOK
  <2> QED
    BY <1>2, <2>1, <2>2
<1>4. BackupsTypeOK'
  BY <1>0, <1>1, <1>3 DEF BackupsTypeOK, RunnerStates, Phases, databaseVars
<1>5. FilesFit'
  <2>1. \A h : Truthful(h) => Truthful(h)'
    BY <1>1 DEF Truthful, databaseVars
  <2> QED
    BY <1>0, <1>1, <2>1 DEF FilesFit
<1>6. RunnersFit'
  <2>1. \A q \in Runners : Busy(q)' => q # r /\ Busy(q) /\ runner'[q] = runner[q]
    BY <1>3 DEF Busy
  <2>2. ASSUME NEW q \in Runners, Busy(q)' PROVE \E f \in partial' : f.suffix = runner'[q].suffix
    <3>1. PICK f \in partial : f.suffix = runner[q].suffix
      BY <1>0, <2>1, <2>2 DEF RunnersFit
    <3>2. Busy(r) => f \notin Mine(r, partial)
      BY <1>0, <2>1, <2>2, <3>1 DEF RunnersFit, Mine
    <3> QED
      BY <1>1, <2>1, <2>2, <3>1, <3>2
  <2>3. ASSUME NEW q \in Runners, At(q, "checked")' PROVE \A h \in Mine(q, partial)' : h.state = "whole"
    <3>1. q # r /\ runner'[q] = runner[q]
      BY <1>3, <2>3 DEF At
    <3>2. Mine(q, partial)' \subseteq Mine(q, partial) /\ At(q, "checked")
      BY <1>1, <2>3, <3>1 DEF Mine, At
    <3> QED
      BY <1>0, <3>2 DEF RunnersFit
  <2>4. runner'["service"].listed \subseteq published' /\ runner'["command"].listed = {}
    BY <1>0, <1>1, <1>3, TwoRunners DEF RunnersFit
  <2>5. \A q, o \in Runners : q # o /\ Busy(q)' /\ Busy(o)' => runner'[q].suffix # runner'[o].suffix
    BY <1>0, <2>1 DEF RunnersFit
  <2> QED
    BY <2>2, <2>3, <2>4, <2>5 DEF RunnersFit
<1> QED
  BY <1>0, <1>1, <1>4, <1>5, <1>6, MigrationsUntouched DEF BackupsInv

(* The service prunes.                                                     *)
LEMMA PruneSteps ==
  ASSUME BackupsInv, PruneStep
  PROVE  BackupsInv'
<1> DEFINE r == "service"
<1>0. BackupsTypeOK /\ FilesFit /\ RunnersFit /\ MigrationsFit /\ r \in Runners
      /\ runner \in [Runners -> RunnerStates]
  BY DEF BackupsInv, BackupsTypeOK, RunnerStates, Phases, Runners
<1>1. /\ UNCHANGED <<time, setBack, databaseVars, partial>> /\ faults' \in Nat
      /\ published' \subseteq published
      /\ runner[r].phase \in {"pruning?", "pruning"}
  BY <1>0 DEF PruneStep, List, Prune, PruneEnds, PruneFails, Fault, At, BackupsTypeOK
<1>2. /\ runner' \in [Runners -> RunnerStates] /\ alarm' \in Int
      /\ runner'[r].phase \in {"idle", "pruning"} /\ runner'[r].listed \subseteq published'
      /\ \A q \in Runners \ {r} : runner'[q] = runner[q]
  <2>1. CASE List
    <3>1. /\ runner' = [runner EXCEPT ![r] = [@ EXCEPT !.phase = "pruning", !.listed = published]]
          /\ published' = published /\ alarm' = alarm
      BY <2>1 DEF List
    <3> DEFINE new == [runner[r] EXCEPT !.phase = "pruning", !.listed = published]
    <3>2. new \in RunnerStates /\ new.phase = "pruning" /\ new.listed = published
      BY <1>0 DEF RunnerStates, Phases, BackupsTypeOK
    <3>3. runner' = [runner EXCEPT ![r] = new]
      BY <3>1
    <3> HIDE DEF new
    <3> QED
      BY <1>0, <3>1, <3>2, <3>3 DEF BackupsTypeOK
  <2>2. CASE Prune
    <3>1. PICK f \in runner[r].listed :
             /\ published' = published \ {f} /\ alarm' = alarm
             /\ runner' = [runner EXCEPT ![r].listed = runner[r].listed \ {f}]
      BY <2>2 DEF Prune
    <3>2. [runner[r] EXCEPT !.listed = runner[r].listed \ {f}] \in RunnerStates
      BY <1>0 DEF RunnerStates
    <3>3. runner'[r].listed = runner[r].listed \ {f} /\ runner'[r].phase = runner[r].phase
      BY <1>0, <3>1 DEF RunnerStates
    <3>4. runner[r].phase = "pruning"
      BY <2>2 DEF Prune, At
    <3> QED
      BY <1>0, <3>1, <3>2, <3>3, <3>4 DEF RunnersFit, BackupsTypeOK
  <2>3. CASE PruneEnds \/ PruneFails
    BY <1>0, <2>3, Returning DEF PruneEnds, PruneFails
  <2> QED
    BY <2>1, <2>2, <2>3 DEF PruneStep
<1>3. BackupsTypeOK'
  BY <1>0, <1>1, <1>2 DEF BackupsTypeOK, RunnerStates, Phases, databaseVars
<1>4. FilesFit'
  <2>1. \A h : Truthful(h) => Truthful(h)'
    BY <1>1 DEF Truthful, databaseVars
  <2>2. IsFiniteSet(published')
    BY <1>0, <1>1, FS_Subset DEF FilesFit
  <2> QED
    BY <1>0, <1>1, <2>1, <2>2 DEF FilesFit
<1>5. RunnersFit'
  <2>1. \A q \in Runners : Busy(q)' => q # r /\ Busy(q) /\ runner'[q] = runner[q]
    BY <1>2 DEF Busy
  <2>2. \A q \in Runners : At(q, "checked")' => q # r /\ runner'[q] = runner[q]
    BY <1>2 DEF At
  <2> QED
    BY <1>0, <1>1, <1>2, <2>1, <2>2, TwoRunners DEF RunnersFit, Mine, At
<1> QED
  BY <1>0, <1>1, <1>3, <1>4, <1>5, MigrationsUntouched DEF BackupsInv

(* The inductive invariant: every snapshot tells when it was begun and     *)
(* holds the migrations applied then, partial files belong to one runner   *)
(* each, and registry and effects of the migrations agree.                 *)
THEOREM BackupsInvariant ==
  BackupsSpec => []BackupsInv
<1>1. BackupsInv /\ [BackupsNext]_backupsVars => BackupsInv'
  <2> SUFFICES ASSUME BackupsInv, [BackupsNext]_backupsVars PROVE BackupsInv'
    OBVIOUS
  <2>1. CASE \E r \in Runners : RunnerStep(r)
    BY <2>1, BeginSteps, WrittenSteps, PublishSteps, EndSteps DEF RunnerStep
  <2>2. CASE UNCHANGED backupsVars
    BY <2>2 DEF backupsVars, databaseVars, BackupsInv, BackupsTypeOK, FilesFit, RunnersFit, MigrationsFit,
                Truthful, Prefix, Busy, At, Mine
  <2> QED
    BY <2>1, <2>2, ClockSteps, PruneSteps, OpenSteps DEF BackupsNext
<1> QED
  BY <1>1, BackupsStart, PTL DEF BackupsSpec

(* The directory, the registry and the runners keep their types.           *)
THEOREM BackupTypes ==
  BackupsSpec => []BackupsTypeOK
<1>1. BackupsInv => BackupsTypeOK
  BY DEF BackupsInv
<1> QED
  BY <1>1, BackupsInvariant, PTL

(* What has a final name is whole, checked and without gaps in its         *)
(* migrations (Create links only after integrity_check).                   *)
THEOREM OnlyWholeFilesPublished ==
  BackupsSpec => []PublishedAreWhole
<1>1. BackupsInv => PublishedAreWhole
  BY DEF BackupsInv, FilesFit, Truthful, Prefix, PublishedAreWhole
<1> QED
  BY <1>1, BackupsInvariant, PTL

(* Every migration takes effect once, in whatever order any number of      *)
(* processes of any releases open the database and die in it               *)
(* (applyMigration's transaction and the key of schema_migrations).        *)
THEOREM MigrationsTakeEffectOnce ==
  BackupsSpec => []MigratedOnce
<1>1. BackupsInv => MigratedOnce
  <2> SUFFICES ASSUME BackupsInv, NEW p \in Processes, opening[p].phase = "open"
               PROVE  1..Bundled[p] \subseteq applied
    BY DEF BackupsInv, MigrationsFit, MigratedOnce, HasMigrations
  <2>1. /\ opening[p].next \in Nat \ {0} /\ Bundled[p] \in Nat
        /\ opening[p].next > Bundled[p] /\ 1..(opening[p].next - 1) \subseteq applied
    BY BackupsAssumption DEF BackupsInv, BackupsTypeOK, MigrationsFit
  <2> QED
    BY <2>1
<1> QED
  BY <1>1, BackupsInvariant, PTL

(* Pruning leaves BACKUP_RETENTION snapshots that were begun no earlier    *)
(* than the one deleted, up to how far the wall clock was set back, for    *)
(* every retention and any number of snapshots published meanwhile         *)
(* (prune deletes from the sorted names it has read).                      *)
THEOREM NewestSnapshotsKept ==
  BackupsSpec => NewestAreKept
<1>1. ASSUME BackupsInv, [BackupsNext]_backupsVars, NEW f \in published \ published'
      PROVE  Cardinality({g \in published' : g.begun + setBack >= f.begun}) >= Retention
  <2> DEFINE listed == runner["service"].listed
             kept == {g \in published' : g.begun + setBack >= f.begun}
  <2>1. Prune
    BY <1>1 DEF BackupsNext, Tick, SetClockBack, PruneStep, List, PruneEnds, PruneFails, RunnerStep, Begin,
                Written, Check, Refuse, Fails, CreateFails, Publish, Unlink, UnlinkFails, Crash,
                OpenStep, StartOpening, LookUp, Apply, Close, backupsVars
  <2>2. /\ Cardinality(listed) > Retention /\ f \in listed /\ Expired(f, listed)
        /\ published' = published \ {f} /\ setBack' = setBack
    BY <1>1, <2>1 DEF Prune
  <2>3. /\ listed \subseteq published /\ IsFiniteSet(published) /\ published \in SUBSET Snapshots
        /\ setBack \in Nat /\ \A g \in published : Truthful(g)
    BY <1>1 DEF BackupsInv, RunnersFit, FilesFit, BackupsTypeOK
  <2>4. IsFiniteSet(listed) /\ Cardinality(listed) \in Nat
    BY <2>3, FS_Subset, FS_CardinalityType
  <2>5. /\ IsFiniteSet(listed \ {f}) /\ Cardinality(listed \ {f}) = Cardinality(listed) - 1
    BY <2>2, <2>4, FS_RemoveElement
  <2>6. ASSUME NEW g \in listed \ {f} PROVE g \in kept
    <3>1. f.clock <= g.clock
      BY <2>2, <2>3, <2>6 DEF Expired, NameBefore, Snapshots
    <3>2. /\ f.begun <= f.clock + setBack /\ g.clock <= g.begun
          /\ f.clock \in Int /\ g.clock \in Int /\ f.begun \in Nat /\ g.begun \in Nat
      BY <1>1, <2>3, <2>6 DEF Truthful, Snapshots
    <3> QED
      BY <2>2, <2>3, <2>6, <3>1, <3>2
  <2>7. IsFiniteSet(kept) /\ Cardinality(kept) \in Nat
    BY <2>2, <2>3, FS_Subset, FS_CardinalityType
  <2>8. Cardinality(listed \ {f}) <= Cardinality(kept)
    BY <2>6, <2>7, FS_Subset
  <2> QED
    BY <2>2, <2>4, <2>5, <2>7, <2>8, BackupsAssumption
<1>2. BackupsInv /\ [BackupsNext]_backupsVars
        => [\A f \in published \ published' :
              Cardinality({g \in published' : g.begun + setBack >= f.begun}) >= Retention]_backupsVars
  BY <1>1
<1> QED
  BY <1>2, BackupsInvariant, PTL DEF BackupsSpec, NewestAreKept
================================================================================
