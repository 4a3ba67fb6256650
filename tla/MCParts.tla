--------------------------------- MODULE MCParts ---------------------------------
(* Parts that do not meet: what three kinds of sources remember between    *)
(* scans, the layer of an analysed listing, the verdict of the robots.txt  *)
(* checker, the order of stored instants, the directory of the backups     *)
(* and the migrations of the database.  Each behaviour follows one of them *)
(* and leaves the others where they start.  The last two share Backups and *)
(* meet only in what a snapshot holds: a behaviour is about the directory, *)
(* with the database already migrated, or about the migrations, with       *)
(* cmd/backup at any moment of them.                                       *)
EXTENDS FeedSource, LearnedSource, GenericSource, Assessment, RobotsRules, StoredTimes, Backups

CONSTANTS e1, e2, e3, k1, k2, api, tool

VARIABLE part

sourceMemory == <<feedVars, learnedVars, genericVars>>
decisionVars == <<assessmentVars, robotsVars, timesVars>>

(* The running release and, in a later one, a tool with one migration more.*)
Releases == [p \in Processes |-> IF p = api THEN 1 ELSE 2]

(* The second and the third entry of the feed carry the same guid.         *)
EntryKeys == [e \in Entries |-> IF e = e1 THEN k1 ELSE k2]

(* Places as texts make them: not stated, a city of the candidate, another *)
(* in Turkey, a remote one, one abroad, and a city of the candidate there. *)
Places ==
    {[stated |-> FALSE, preferred |-> FALSE, remote |-> FALSE, domestic |-> TRUE]}
    \union [stated : {TRUE}, preferred : BOOLEAN, remote : {FALSE}, domestic : BOOLEAN]
    \union [stated : {TRUE}, preferred : BOOLEAN, remote : {TRUE}, domestic : {FALSE}]

SomeAnalyses ==
    [type : {"staj", "part_time_ogrenci", "yeni_mezun", "bootcamp", "egitim", "burs"},
     open : BOOLEAN, relevant : BOOLEAN, eligibility : Eligibilities,
     confidence : {79, 80}, areas : 0..3, place : Places, remoteWork : BOOLEAN,
     classMet : BOOLEAN, gpaMet : BOOLEAN]

(* Files of at most MaxLines lines, and longer ones of few kinds of lines, *)
(* in which a rule without a value stands between two agent lines.         *)
MaxLines == 5
Lines == {AgentLine(agent) : agent \in {"us", "*"}}
         \union {RuleLine(kind, TRUE, n) : kind \in {"allow", "disallow"}, n \in 1..2}
         \union {RuleLine("disallow", FALSE, 2), EmptyLine("allow"), EmptyLine("disallow")}
FewLines == {AgentLine("us"), AgentLine("*"), RuleLine("allow", TRUE, 2),
             RuleLine("disallow", TRUE, 1), EmptyLine("disallow")}
SomeFiles == UNION {[1..n -> Lines] : n \in 0..MaxLines} \union [1..(MaxLines + 1) -> FewLines]

SomeInstants == [second : 8..11, fraction : [1..FractionDigits -> 0..2]]

(* Every process has migrated the database to its release.                 *)
MigratedInit ==
    /\ time = 0 /\ setBack = 0
    /\ applied = Migrations /\ executed = [n \in Migrations |-> 1]
    /\ opening = [p \in Processes |-> [phase |-> "open", next |-> Bundled[p] + 1]]
    /\ partial = {} /\ published = {}
    /\ runner = [r \in Runners |-> Idle]
    /\ alarm = NextAlarm /\ faults = 0

Init ==
    /\ FeedInit /\ LearnedInit /\ GenericInit
    /\ part \in {"rss", "learned_selector", "llm_generic", "assessment", "robots", "times",
                 "directory", "migrations"}
    /\ part # "rss" => feed = [e \in Entries |-> Absent]
    /\ part # "llm_generic" => page = {}
    /\ IF part = "assessment" THEN AssessmentInit
       ELSE /\ analysis = CHOOSE a \in Analyses : TRUE
            /\ sourceTrust = "" /\ assessment = NotAssessed /\ by = "nobody"
    /\ IF part = "robots" THEN RobotsInit ELSE file = <<>> /\ verdict = "unasked"
    /\ IF part = "times" THEN TimesInit ELSE due = 0 /\ now = 0 /\ passed = "unasked"
    /\ IF part = "directory" THEN MigratedInit ELSE BackupsInit

DirectoryNext == Tick \/ SetClockBack \/ PruneStep \/ \E r \in Runners : RunnerStep(r)
MigrationsNext == RunnerStep("command") \/ \E p \in Processes : OpenStep(p)

Next ==
    /\ UNCHANGED part
    /\ \/ /\ UNCHANGED <<decisionVars, backupsVars>>
          /\ \/ part = "rss" /\ FeedNext /\ UNCHANGED <<learnedVars, genericVars>>
             \/ part = "learned_selector" /\ LearnedNext /\ UNCHANGED <<feedVars, genericVars>>
             \/ part = "llm_generic" /\ GenericNext /\ UNCHANGED <<feedVars, learnedVars>>
       \/ /\ UNCHANGED <<sourceMemory, backupsVars>>
          /\ \/ part = "assessment" /\ AssessmentNext /\ UNCHANGED <<robotsVars, timesVars>>
             \/ part = "robots" /\ RobotsNext /\ UNCHANGED <<assessmentVars, timesVars>>
             \/ part = "times" /\ TimesNext /\ UNCHANGED <<assessmentVars, robotsVars>>
       \/ /\ UNCHANGED <<sourceMemory, decisionVars>>
          /\ \/ part = "directory" /\ DirectoryNext
             \/ part = "migrations" /\ MigrationsNext

partsVars == <<sourceMemory, decisionVars, backupsVars, part>>
Spec == Init /\ [][Next]_partsVars

(* One part alone.                                                         *)
AssessmentPart == part = "assessment" /\ Init /\ [][Next]_partsVars
RobotsPart == part = "robots" /\ Init /\ [][Next]_partsVars
================================================================================
