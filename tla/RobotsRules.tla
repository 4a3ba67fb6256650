------------------------------- MODULE RobotsRules -------------------------------
(***************************************************************************)
(* What a robots.txt allows: parseRobots, matchingGroups and allowed of    *)
(* internal/scraper/robots.go.  A file is a sequence of the lines the      *)
(* parser knows.  An agent line names us, everybody ("*") or another       *)
(* product.  A rule line allows or disallows a pattern, of which this      *)
(* module keeps whether it matches the path in question and its            *)
(* specificity (its length without "*" and "$"); its value may be empty.   *)
(***************************************************************************)
EXTENDS Integers, Sequences

CONSTANT RobotsFiles  \* the files sites serve

Agents == {"us", "*", "other"}
AgentLine(agent) == [kind |-> "agent", agent |-> agent, matches |-> FALSE, specificity |-> 0]
RuleLine(kind, matches, n) ==
    [kind |-> kind, agent |-> "none", matches |-> matches, specificity |-> n]

(* allow or disallow without a value.                                      *)
EmptyLine(kind) == RuleLine(kind, FALSE, -1)

Line == {AgentLine(agent) : agent \in Agents}
        \union {EmptyLine(kind) : kind \in {"allow", "disallow"}}
        \union [kind : {"allow", "disallow"}, agent : {"none"}, matches : BOOLEAN, specificity : Nat]

ASSUME RobotsAssumption == RobotsFiles \subseteq Seq(Line)

VARIABLES file,     \* what the site serves
          verdict   \* what the checker said: "unasked", "allow" or "deny"
robotsVars == <<file, verdict>>

IsRule(line) == line.kind \in {"allow", "disallow"}
IsEmpty(line) == IsRule(line) /\ line.specificity = -1

-------------------------------------------------------------------------------
(* Operators whose name starts with Bad are deliberate mistakes: no action *)
(* uses them.                                                              *)

(* The loop of parseRobots: the groups so far, and whether the last one    *)
(* has a rule, after which an agent line opens another.                    *)
NoGroups == [groups |-> <<>>, hasRules |-> FALSE]

ReadLine(before, line) ==
    LET last == Len(before.groups) IN
    IF line.kind = "agent" THEN
       IF last = 0 \/ before.hasRules
       THEN [groups |-> Append(before.groups, [agents |-> {line.agent}, rules |-> <<>>]),
             hasRules |-> FALSE]
       ELSE [before EXCEPT !.groups[last].agents = @ \union {line.agent}]
    ELSE IF last = 0 \/ IsEmpty(line) THEN before
    ELSE [groups |-> [before.groups EXCEPT ![last].rules = Append(@, line)], hasRules |-> TRUE]

ReadTo(lines) ==
    LET after[n \in 0..Len(lines)] ==
          IF n = 0 THEN NoGroups ELSE ReadLine(after[n - 1], lines[n])
    IN after

Parse(lines) == ReadTo(lines)[Len(lines)].groups

(* Our groups and everybody's together.                                    *)
BadMatchingGroups(groups) ==
    {g \in DOMAIN groups : groups[g].agents \intersect {"us", "*"} # {}}

(* matchingGroups: those that name us or, without any, those for everybody.*)
MatchingGroups(groups) ==
    LET naming(agent) == {g \in DOMAIN groups : agent \in groups[g].agents} IN
    IF naming("us") # {} THEN naming("us") ELSE naming("*")

(* allowed: group after group and rule after rule the most specific match  *)
(* wins, on a tie allow.                                                   *)
Unruled == [best |-> -1, allowed |-> TRUE]

Weigh(before, rule) ==
    IF ~rule.matches \/ rule.specificity < before.best THEN before
    ELSE IF rule.specificity > before.best \/ rule.kind = "allow"
         THEN [best |-> rule.specificity, allowed |-> rule.kind = "allow"]
         ELSE before

WeighTo(before, rules) ==
    LET after[n \in 0..Len(rules)] ==
          IF n = 0 THEN before ELSE Weigh(after[n - 1], rules[n])
    IN after

AllowedTo(groups) ==
    LET after[g \in 0..Len(groups)] ==
          IF g = 0 THEN Unruled
          ELSE IF g \in MatchingGroups(groups)
               THEN WeighTo(after[g - 1], groups[g].rules)[Len(groups[g].rules)]
               ELSE after[g - 1]
    IN after

Allowed(lines) == LET groups == Parse(lines) IN AllowedTo(groups)[Len(groups)].allowed

-------------------------------------------------------------------------------
RobotsInit == file \in RobotsFiles /\ verdict = "unasked"
AskChecker == verdict' = (IF Allowed(file) THEN "allow" ELSE "deny") /\ UNCHANGED file
RobotsNext == AskChecker
RobotsSpec == RobotsInit /\ [][RobotsNext]_robotsVars

-------------------------------------------------------------------------------
(* The same, said of the lines of a file, of which rules names those that  *)
(* are taken for rules.  A rule is for the agents of the nearest agent     *)
(* lines above it: no rule stands between two of them.                     *)
RuleIsFor(lines, rules, i, agent) ==
    \E j \in 1..(i - 1) :
       /\ lines[j] = AgentLine(agent)
       /\ ~\E k, l \in j..i : k < l /\ k \in rules /\ lines[l].kind = "agent"

Names(lines, agent) == \E i \in DOMAIN lines : lines[i] = AgentLine(agent)

(* The rules that we are to obey and that match, by their line.            *)
Applying(lines, rules) ==
    LET me == IF Names(lines, "us") THEN "us" ELSE "*" IN
    {i \in rules : lines[i].matches /\ RuleIsFor(lines, rules, i, me)}

MayVisit(lines, rules) ==
    LET applying == Applying(lines, rules)
        best == {i \in applying :
                   \A j \in applying : lines[i].specificity >= lines[j].specificity}
    IN best = {} \/ \E i \in best : lines[i].kind = "allow"

RuleLines(lines) == {i \in DOMAIN lines : IsRule(lines[i])}
WrittenRules(lines) == {i \in RuleLines(lines) : ~IsEmpty(lines[i])}

(* Between two agent lines no rule without a value stands alone.           *)
EmptyRulesEndNothing(lines) ==
    \A i, k \in DOMAIN lines : \A j \in RuleLines(lines) :
       i < j /\ j < k /\ lines[i].kind = "agent" /\ lines[k].kind = "agent"
          => \E m \in WrittenRules(lines) : i < m /\ m < k

(* The checker decides as the longest matching rule of the groups that     *)
(* name us says (of everybody's when none does), in whatever order and in  *)
(* however many groups the file gives them.  Said of files in which no     *)
(* rule without a value stands alone between two agent lines: such a rule  *)
(* ends a group by RFC 9309 and is skipped by parseRobots.                 *)
VerdictIsLongestMatch ==
    verdict # "unasked" /\ EmptyRulesEndNothing(file)
       => (verdict = "allow" <=> MayVisit(file, RuleLines(file)))

(* The same of every file, as docs/architecture.md:251 has it: the groups  *)
(* are put together as RFC 9309 says, where the value of a rule may be     *)
(* empty and an agent line below any rule opens another group.             *)
GroupsFollowStandard ==
    verdict # "unasked" => (verdict = "allow" <=> MayVisit(file, RuleLines(file)))
================================================================================
