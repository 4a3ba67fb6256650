----------------------------- MODULE DecisionProofs -----------------------------
(***************************************************************************)
(* Decisions that the program computes and acts on.  The layers, for every *)
(* analysis the model may give and every trust level: the two notification *)
(* gates agree, and what they let through.  The verdict on a robots.txt,   *)
(* for every file, and the order of stored instants, for every two of      *)
(* them; both are about sequences of any length, and rest on the           *)
(* inductions of Recursion.  The attempts of the model analyzer, for all   *)
(* replies and answers.                                                    *)
(***************************************************************************)
EXTENDS Assessment, RobotsRules, StoredTimes, ModelAnalyzer, Recursion

(* Each part of the score keeps to the range the store checks.             *)
LEMMA ScoreRanges ==
  ASSUME NEW a \in Analysis
  PROVE  /\ FocusScore(a) \in 0..40 /\ TypeScore(a) \in 0..25
         /\ LocationScore(a) \in 0..20 /\ EligibilityScore(a) \in 0..10
         /\ RequirementScore(a) \in 0..5 /\ Score(a) \in 0..100
<1>1. /\ a.areas \in Nat /\ a.type \in OpportunityTypes
      /\ SummerOtherCities \in BOOLEAN
  BY ProfileAssumption DEF Analysis
<1>2. FocusScore(a) \in 0..40
  BY <1>1 DEF FocusScore
<1>3. TypeScore(a) \in 0..25
  BY <1>1 DEF TypeScore
<1>4. LocationScore(a) \in 0..20
  BY <1>1 DEF LocationScore
<1>5. EligibilityScore(a) \in 0..10
  BY DEF EligibilityScore
<1>6. RequirementScore(a) \in 0..5
  BY DEF RequirementScore
<1> QED
  BY <1>2, <1>3, <1>4, <1>5, <1>6 DEF Score

(* Trust makes a difference to strong matches only: it lifts them from the *)
(* layer of opportunities to the one of notifications.                     *)
LEMMA TrustLiftsStrongMatches ==
  ASSUME NEW a \in Analysis, NEW trust
  PROVE  /\ Layer(a, "") # "bildirim"
         /\ Layer(a, trust) = IF Layer(a, "") = "firsatlar" /\ StrongMatch(a, trust)
                              THEN "bildirim" ELSE Layer(a, "")
<1>1. ~StrongMatch(a, "")
  BY DEF StrongMatch, TrustedForPush
<1>2. StrongMatch(a, trust) => Score(a) >= OpportunityThreshold
  BY ScoreRanges DEF StrongMatch, NotificationThreshold, OpportunityThreshold
<1> QED
  BY <1>1, <1>2 DEF Layer

(* What Assess returns without a trust level, promoted by the store, is    *)
(* what it would return with the trust level.                              *)
LEMMA PromotionIsTrust ==
  ASSUME NEW a \in Analysis, NEW trust
  PROVE  SavedAssessment(a, trust) = Assess(a, trust)
<1> DEFINE s == Assess(a, "")
<1>1. s.score = Score(a) /\ s.visibility = Layer(a, "")
  BY DEF Assess
<1>2. Layer(a, "") = "firsatlar" => a.confidence >= 80
  <2>1. a.confidence \in 0..100
    BY DEF Analysis
  <2>2. a.confidence < MinimumConfidence => Layer(a, "") \in {"elenen", "incelenecek"}
    BY DEF Layer
  <2>3. Layer(a, "") = "firsatlar" => ~(a.confidence < MinimumConfidence)
    BY <2>2
  <2>4. ~(a.confidence < MinimumConfidence) => a.confidence >= 80
    BY <2>1 DEF MinimumConfidence
  <2> QED
    BY <2>3, <2>4
<1>3. Layer(a, "") \in {"elenen", "incelenecek", "firsatlar"}
  BY TrustLiftsStrongMatches DEF Layer
<1>4. Promotable(a, s) /\ TrustedForPush(trust)
        <=> Layer(a, "") = "firsatlar" /\ StrongMatch(a, trust)
  BY <1>1, <1>2, <1>3 DEF Promotable, StrongMatch, NotificationThreshold
<1>5. CASE Layer(a, "") = "firsatlar" /\ StrongMatch(a, trust)
  <2>1. Layer(a, trust) = "bildirim"
    BY <1>5, TrustLiftsStrongMatches
  <2>2. SavedAssessment(a, trust) = [s EXCEPT !.visibility = "bildirim", !.pushEligible = TRUE]
    BY <1>4, <1>5 DEF SavedAssessment, TrustedLayer
  <2> QED
    BY <2>1, <2>2 DEF Assess
<1>6. CASE ~(Layer(a, "") = "firsatlar" /\ StrongMatch(a, trust))
  <2>1. Layer(a, trust) = Layer(a, "")
    BY <1>6, TrustLiftsStrongMatches
  <2>2. SavedAssessment(a, trust) = s
    BY <1>4, <1>6 DEF SavedAssessment, TrustedLayer
  <2> QED
    BY <2>1, <2>2 DEF Assess
<1> QED
  BY <1>5, <1>6

(* The store refuses no assessment.                                        *)
LEMMA StoreAccepts ==
  ASSUME NEW a \in Analysis, NEW trust
  PROVE  AcceptedByStore(Assess(a, trust))
<1>1. Layer(a, trust) \in Layers
  BY DEF Layer, Layers
<1> QED
  BY <1>1, ScoreRanges DEF AcceptedByStore, Assess, Score

(* The inductive invariant: who wrote the assessment last, and what.       *)
AssessmentInv ==
    /\ analysis \in Analysis /\ by \in {"nobody", "scan", "reassess"}
    /\ by = "nobody" => assessment = NotAssessed
    /\ by = "scan" => assessment = Assess(analysis, sourceTrust)
    /\ by = "reassess" => assessment = Assess(analysis, "")

(* The inductive invariant: the stored assessment is what Assess gives     *)
(* with the trust level after a scan, and without it after cmd/reassess.   *)
THEOREM AssessmentInvariant ==
  AssessmentSpec => []AssessmentInv
<1>1. AssessmentInit => AssessmentInv
  BY AnalysesAssumption DEF AssessmentInit, AssessmentInv
<1>2. AssessmentInv /\ [AssessmentNext]_assessmentVars => AssessmentInv'
  BY PromotionIsTrust
     DEF AssessmentInv, AssessmentNext, SaveAnalysis, Reassess, Reassessed, assessmentVars
<1> QED
  BY <1>1, <1>2, PTL DEF AssessmentSpec

(* The two gates agree for every analysis and every trust level: scoring   *)
(* without the trust level and promoting in SaveAnalysis                   *)
(* (applyTrustedNotificationLayer) gives what Assess with the trust level  *)
(* gives, and normalizedAssessment refuses none of it.                     *)
THEOREM TwoGatesAgree ==
  AssessmentSpec => []GatesAgree
<1>1. AssessmentInv => GatesAgree
  BY StoreAccepts DEF AssessmentInv, GatesAgree
<1> QED
  BY <1>1, AssessmentInvariant, PTL

(* Whoever wrote the assessment last, what becomes a notification          *)
(* (NewListingNotification) is a strong, open, certain enough student      *)
(* position from a trusted source.                                         *)
THEOREM OnlyStudentsNotified ==
  AssessmentSpec => []NotifiesOnlyStudents
<1>1. ASSUME NEW a \in Analysis, NEW trust, Layer(a, trust) = "bildirim"
      PROVE  /\ NotificationOpportunity(a.type) /\ TrustedForPush(trust)
             /\ a.open /\ a.relevant /\ ~Abroad(a)
             /\ a.confidence >= MinimumConfidence /\ Score(a) >= NotificationThreshold
             /\ a.eligibility \in {"uygun", "karar_bekliyor"}
  <2>1. a.eligibility \in Eligibilities /\ a.confidence \in 0..100
    BY DEF Analysis
  <2>2. StrongMatch(a, trust)
    BY <1>1 DEF Layer
  <2>3. /\ a.open /\ a.relevant /\ ~Abroad(a)
        /\ a.eligibility \notin {"uygun_degil", "kismen_uygun"}
        /\ a.confidence >= MinimumConfidence
    BY <1>1, <2>1 DEF Layer, MinimumConfidence
  <2> QED
    BY <2>1, <2>2, <2>3 DEF StrongMatch, Eligibilities
<1>2. \A a, trust : Assess(a, trust).visibility = Layer(a, trust)
  BY DEF Assess
<1>3. AssessmentInv => NotifiesOnlyStudents
  <2> SUFFICES ASSUME AssessmentInv, assessment # NotAssessed, assessment.visibility = "bildirim"
               PROVE  /\ by = "scan"
                      /\ Layer(analysis, sourceTrust) = "bildirim" /\ analysis \in Analysis
    BY <1>1 DEF NotifiesOnlyStudents, Notifies
  <2> QED
    BY <1>2, TrustLiftsStrongMatches DEF AssessmentInv
<1> QED
  BY <1>3, AssessmentInvariant, PTL

-------------------------------------------------------------------------------
(* robots.txt: the file read line by line into groups, whose rules are     *)
(* weighed one after the other, against what is said of its lines.         *)

(* A rule with a value, a group of a file, what is read and what is        *)
(* weighed so far.                                                         *)
Rule == {line \in Line : IsRule(line) /\ ~IsEmpty(line)}
Group == [agents : SUBSET Agents, rules : Seq(Rule)]
Reading == [groups : Seq(Group), hasRules : BOOLEAN]
Weighing == [best : Int, allowed : BOOLEAN]

(* What a line is.                                                         *)
LEMMA LineFields ==
    ASSUME NEW line \in Line
    PROVE  /\ line.kind \in {"agent", "allow", "disallow"} /\ line.matches \in BOOLEAN
           /\ line.kind = "agent" => line.agent \in Agents /\ line = AgentLine(line.agent)
           /\ IsEmpty(line) => ~line.matches
           /\ line.kind # "agent" /\ ~IsEmpty(line) => line \in Rule
<1>1. CASE \E agent \in Agents : line = AgentLine(agent)
  BY <1>1 DEF AgentLine, IsRule, IsEmpty
<1>2. CASE \E kind \in {"allow", "disallow"} : line = EmptyLine(kind)
  BY <1>2 DEF EmptyLine, RuleLine, IsRule, IsEmpty
<1>3. CASE line \in [kind : {"allow", "disallow"}, agent : {"none"}, matches : BOOLEAN,
                     specificity : Nat]
  <2>1. IsRule(line) /\ ~IsEmpty(line)
    BY <1>3 DEF IsRule, IsEmpty
  <2>. QED BY <1>3, <2>1 DEF Rule
<1>. QED BY <1>1, <1>2, <1>3 DEF Line

(* What a rule with a value is.                                            *)
LEMMA RuleFields ==
    ASSUME NEW rule \in Rule
    PROVE  /\ rule.kind \in {"allow", "disallow"} /\ rule.matches \in BOOLEAN
           /\ rule.specificity \in Nat /\ rule \in Line
BY DEF Line, AgentLine, EmptyLine, RuleLine, Rule, IsRule, IsEmpty

(* Weighing a rule gives a verdict so far again.                           *)
LEMMA WeighTyped ==
    ASSUME NEW before \in Weighing, NEW rule \in Rule
    PROVE  Weigh(before, rule) \in Weighing
BY RuleFields DEF Weigh, Weighing

(* WeighTo is what its definition says: one rule after the other.          *)
LEMMA WeighToDefined ==
    ASSUME NEW before \in Weighing, NEW rules \in Seq(Rule)
    PROVE  /\ WeighTo(before, rules)[0] = before
           /\ \A n \in 1..Len(rules) :
                 WeighTo(before, rules)[n] = Weigh(WeighTo(before, rules)[n - 1], rules[n])
<1>. DEFINE N == Len(rules)
            step == [p \in (1..N) \X Weighing |-> Weigh(p[2], rules[p[1]])]
            IsWeighing(f) ==
               f = [n \in 0..N |-> IF n = 0 THEN before ELSE Weigh(f[n - 1], rules[n])]
<1>1. N \in Nat /\ \A n \in 1..N : rules[n] \in Rule
  OBVIOUS
<1>2. step \in Steps(N, Weighing)
  <2>1. ASSUME NEW p \in (1..N) \X Weighing
        PROVE  Weigh(p[2], rules[p[1]]) \in Weighing
    BY <1>1, WeighTyped
  <2>. QED BY <2>1 DEF Steps
<1>3. PICK f \in [0..N -> Weighing] : Solves(f, N, before, step)
  <2>. HIDE DEF step, N
  <2>. QED BY <1>1, <1>2, RecursionUpTo
<1>4. IsWeighing(f)
  <2>1. ASSUME NEW n \in 1..N
        PROVE  f[n] = Weigh(f[n - 1], rules[n])
    <3>1. f[n] = step[<<n, f[n - 1]>>]
      <4>. HIDE DEF step
      <4>. QED BY <1>3 DEF Solves
    <3>2. n - 1 \in 0..N /\ <<n, f[n - 1]>> \in (1..N) \X Weighing
      BY <1>1
    <3>. QED BY <3>1, <3>2
  <2>2. f[0] = before
    BY <1>3 DEF Solves
  <2>. QED BY <2>1, <2>2
<1>5. IsWeighing(WeighTo(before, rules))
  <2>1. WeighTo(before, rules) = CHOOSE g : IsWeighing(g)
    BY DEF WeighTo
  <2>. HIDE DEF IsWeighing
  <2>. QED BY <1>4, <2>1
<1>. QED BY <1>1, <1>5

(* What was weighed so far: the rules of a set.                            *)
Weighed(s, rules) ==
    LET matching == {rule \in rules : rule.matches} IN
    /\ s \in Weighing
    /\ \A rule \in matching : rule.specificity <= s.best
    /\ IF matching = {} THEN s = Unruled
       ELSE /\ \E rule \in matching : rule.specificity = s.best
            /\ s.allowed <=> \E rule \in matching : rule.specificity = s.best /\ rule.kind = "allow"

(* Weighing one more rule.                                                 *)
LEMMA WeighOne ==
    ASSUME NEW s, NEW rules \in SUBSET Rule, Weighed(s, rules), NEW rule \in Rule
    PROVE  Weighed(Weigh(s, rule), rules \union {rule})
<1>. DEFINE t == Weigh(s, rule)
            old == {r \in rules : r.matches}
            new == {r \in rules \union {rule} : r.matches}
<1>1. /\ s \in Weighing /\ s.best \in Int /\ s.allowed \in BOOLEAN /\ t \in Weighing
      /\ rule.kind \in {"allow", "disallow"} /\ rule.matches \in BOOLEAN /\ rule.specificity \in Nat
      /\ \A r \in rules : r.specificity \in Nat /\ r.kind \in {"allow", "disallow"}
  BY RuleFields, WeighTyped DEF Weighed, Weighing
<1>2. CASE ~rule.matches
  <2>1. t = s /\ new = old
    BY <1>2 DEF Weigh
  <2>. QED BY <2>1 DEF Weighed
<1>3. CASE rule.matches
  <2>1. new = old \union {rule}
    BY <1>3
  <2>2. /\ \A r \in old : r.specificity <= s.best /\ r \in rules
        /\ old = {} => s = Unruled
        /\ old # {} => /\ \E r \in old : r.specificity = s.best
                       /\ s.allowed <=> \E r \in old : r.specificity = s.best /\ r.kind = "allow"
    BY DEF Weighed
  <2>3. SUFFICES /\ \A r \in new : r.specificity <= t.best
                 /\ \E r \in new : r.specificity = t.best
                 /\ t.allowed <=> \E r \in new : r.specificity = t.best /\ r.kind = "allow"
    BY <1>1, <2>1 DEF Weighed
  <2>. HIDE DEF old, new
  <2>4. CASE rule.specificity < s.best
    <3>1. t = s
      BY <2>4 DEF Weigh
    <3>2. old # {}
      BY <1>1, <2>2, <2>4 DEF Unruled
    <3>. QED BY <1>1, <2>1, <2>2, <2>4, <3>1, <3>2
  <2>5. CASE rule.specificity > s.best
    <3>1. t = [best |-> rule.specificity, allowed |-> rule.kind = "allow"]
      BY <1>1, <1>3, <2>5 DEF Weigh
    <3>2. \A r \in old : r.specificity \in Nat /\ r.specificity < rule.specificity
      BY <1>1, <2>2, <2>5
    <3>. HIDE DEF t
    <3>3. t.best = rule.specificity /\ (t.allowed <=> rule.kind = "allow")
      BY <3>1
    <3>4. \A r \in new : r.specificity <= t.best
      BY <1>1, <2>1, <3>2, <3>3
    <3>5. \A r \in new : r.specificity = t.best <=> r = rule
      BY <1>1, <2>1, <3>2, <3>3
    <3>. QED BY <2>1, <3>3, <3>4, <3>5
  <2>6. CASE rule.specificity = s.best
    <3>1. old # {}
      BY <1>1, <2>2, <2>6 DEF Unruled
    <3>2. CASE rule.kind = "allow"
      <4>1. t = [best |-> rule.specificity, allowed |-> rule.kind = "allow"]
        BY <1>1, <1>3, <2>6, <3>2 DEF Weigh
      <4>. HIDE DEF t
      <4>2. t.best = rule.specificity /\ t.allowed
        BY <3>2, <4>1
      <4>. QED BY <1>1, <2>1, <2>2, <2>6, <3>2, <4>2
    <3>3. CASE rule.kind # "allow"
      <4>1. t = s
        BY <1>1, <1>3, <2>6, <3>3 DEF Weigh
      <4>. QED BY <1>1, <2>1, <2>2, <2>6, <3>1, <3>3, <4>1
    <3>. QED BY <3>2, <3>3
  <2>. QED BY <1>1, <2>4, <2>5, <2>6
<1>. QED BY <1>1, <1>2, <1>3

(* The rules of a group, as a set.                                         *)
Elements(rules) == {rules[n] : n \in 1..Len(rules)}

(* Weighing the rules of a group, by induction along them.                 *)
LEMMA WeighGroup ==
    ASSUME NEW s, NEW before \in SUBSET Rule, Weighed(s, before), NEW rules \in Seq(Rule)
    PROVE  Weighed(WeighTo(s, rules)[Len(rules)], before \union Elements(rules))
<1>. DEFINE N == Len(rules)
            seen(n) == before \union {rules[m] : m \in 1..n}
            S == {n \in 0..N : Weighed(WeighTo(s, rules)[n], seen(n))}
<1>1. N \in Nat /\ \A n \in 1..N : rules[n] \in Rule
  OBVIOUS
<1>2. /\ WeighTo(s, rules)[0] = s
      /\ \A n \in 1..N : WeighTo(s, rules)[n] = Weigh(WeighTo(s, rules)[n - 1], rules[n])
  BY WeighToDefined DEF Weighed
<1>3. seen(0) = before
  OBVIOUS
<1>4. ASSUME NEW n \in 0..N, n < N
      PROVE  seen(n) \in SUBSET Rule /\ seen(n + 1) = seen(n) \union {rules[n + 1]}
  <2>1. n + 1 \in 1..N /\ \A m \in 1..n : rules[m] \in Rule
    BY <1>1, <1>4
  <2>2. 1..(n + 1) = (1..n) \union {n + 1}
    BY <2>1
  <2>. QED BY <2>1, <2>2
<1>5. seen(N) = before \union Elements(rules)
  BY DEF Elements
<1>. HIDE DEF seen
<1>6. 0 \in S
  BY <1>1, <1>2, <1>3
<1>7. ASSUME NEW n \in 0..N, n < N, n \in S
      PROVE  n + 1 \in S
  <2>1. n + 1 \in 1..N /\ (n + 1) - 1 = n /\ rules[n + 1] \in Rule
    BY <1>1, <1>7
  <2>2. Weighed(WeighTo(s, rules)[n], seen(n))
    BY <1>7
  <2>3. WeighTo(s, rules)[n + 1] = Weigh(WeighTo(s, rules)[n], rules[n + 1])
    BY <1>2, <2>1
  <2>4. Weighed(WeighTo(s, rules)[n + 1], seen(n + 1))
    BY <1>4, <1>7, <2>1, <2>2, <2>3, WeighOne
  <2>. QED BY <2>1, <2>4
<1>8. \A n \in 0..N : n \in S
  <2>. HIDE DEF S, N
  <2>. QED BY <1>1, <1>6, <1>7, InductionUpTo
<1>9. N \in 0..N
  BY <1>1
<1>10. Weighed(WeighTo(s, rules)[N], seen(N))
  BY <1>8, <1>9
<1>. QED BY <1>5, <1>10

(* So does weighing the rules of a group.                                  *)
LEMMA WeighToTyped ==
    ASSUME NEW before \in Weighing, NEW rules \in Seq(Rule)
    PROVE  WeighTo(before, rules)[Len(rules)] \in Weighing
<1>. DEFINE N == Len(rules)
            S == {n \in 0..N : WeighTo(before, rules)[n] \in Weighing}
<1>1. N \in Nat /\ \A n \in 1..N : rules[n] \in Rule
  OBVIOUS
<1>2. 0 \in S
  BY <1>1, WeighToDefined
<1>3. ASSUME NEW n \in 0..N, n < N, n \in S
      PROVE  n + 1 \in S
  <2>1. n + 1 \in 1..N /\ (n + 1) - 1 = n /\ rules[n + 1] \in Rule
    BY <1>1, <1>3
  <2>2. WeighTo(before, rules)[n + 1] = Weigh(WeighTo(before, rules)[n], rules[n + 1])
    BY <2>1, WeighToDefined
  <2>3. WeighTo(before, rules)[n] \in Weighing
    BY <1>3
  <2>. QED BY <2>1, <2>2, <2>3, WeighTyped
<1>4. \A n \in 0..N : n \in S
  <2>. HIDE DEF S, N
  <2>. QED BY <1>1, <1>2, <1>3, InductionUpTo
<1>. QED BY <1>1, <1>4

(* What the groups of a file are.                                          *)
LEMMA GroupFields ==
    ASSUME NEW groups \in Seq(Group)
    PROVE  /\ Len(groups) \in Nat /\ DOMAIN groups = 1..Len(groups)
           /\ \A g \in 1..Len(groups) :
                 /\ groups[g].agents \in SUBSET Agents
                 /\ groups[g].rules \in Seq(Rule)
                 /\ Elements(groups[g].rules) \in SUBSET Rule
<1>1. /\ Len(groups) \in Nat /\ DOMAIN groups = 1..Len(groups)
      /\ \A g \in 1..Len(groups) : groups[g] \in Group
  OBVIOUS
<1>2. \A group \in Group : group.agents \in SUBSET Agents /\ group.rules \in Seq(Rule)
  BY DEF Group
<1>3. \A rules \in Seq(Rule) : Elements(rules) \in SUBSET Rule
  BY DEF Elements
<1>. QED BY <1>1, <1>2, <1>3

(* What a group adds: nothing unless it is ours.                           *)
WeighNext(before, groups, g) ==
    IF g \in MatchingGroups(groups)
    THEN WeighTo(before, groups[g].rules)[Len(groups[g].rules)]
    ELSE before

(* AllowedTo is what its definition says: one group after the other.       *)
LEMMA AllowedToDefined ==
    ASSUME NEW groups \in Seq(Group)
    PROVE  /\ AllowedTo(groups)[0] = Unruled
           /\ \A g \in 1..Len(groups) :
                 AllowedTo(groups)[g] = WeighNext(AllowedTo(groups)[g - 1], groups, g)
<1>. DEFINE N == Len(groups)
            step == [p \in (1..N) \X Weighing |-> WeighNext(p[2], groups, p[1])]
            IsAllowed(f) == f = [g \in 0..N |->
                                   IF g = 0 THEN Unruled ELSE WeighNext(f[g - 1], groups, g)]
<1>1. N \in Nat /\ \A g \in 1..N : groups[g].rules \in Seq(Rule)
  BY GroupFields
<1>2. Unruled \in Weighing
  BY DEF Unruled, Weighing
<1>3. step \in Steps(N, Weighing)
  <2>1. ASSUME NEW p \in (1..N) \X Weighing
        PROVE  WeighNext(p[2], groups, p[1]) \in Weighing
    BY <1>1, WeighToTyped DEF WeighNext
  <2>. QED BY <2>1 DEF Steps
<1>4. PICK f \in [0..N -> Weighing] : Solves(f, N, Unruled, step)
  <2>. HIDE DEF step, N
  <2>. QED BY <1>1, <1>2, <1>3, RecursionUpTo
<1>5. IsAllowed(f)
  <2>1. ASSUME NEW g \in 1..N
        PROVE  f[g] = WeighNext(f[g - 1], groups, g)
    <3>1. f[g] = step[<<g, f[g - 1]>>]
      <4>. HIDE DEF step
      <4>. QED BY <1>4 DEF Solves
    <3>2. g - 1 \in 0..N /\ <<g, f[g - 1]>> \in (1..N) \X Weighing
      BY <1>1
    <3>. QED BY <3>1, <3>2
  <2>2. f[0] = Unruled
    BY <1>4 DEF Solves
  <2>. QED BY <2>1, <2>2
<1>6. IsAllowed(AllowedTo(groups))
  <2>1. AllowedTo(groups) = CHOOSE h : IsAllowed(h)
    BY DEF AllowedTo, WeighNext
  <2>. HIDE DEF IsAllowed
  <2>. QED BY <1>5, <2>1
<1>. QED BY <1>1, <1>6

(* The rules of our groups.                                                *)
Considered(groups) == UNION {Elements(groups[g].rules) : g \in MatchingGroups(groups)}

(* The verdict weighs the rules of our groups, by induction along them.    *)
LEMMA AllowedWeighs ==
    ASSUME NEW groups \in Seq(Group)
    PROVE  Weighed(AllowedTo(groups)[Len(groups)], Considered(groups))
<1>. DEFINE N == Len(groups)
            seen(n) == UNION {Elements(groups[g].rules) :
                                 g \in MatchingGroups(groups) \intersect (1..n)}
            S == {n \in 0..N : Weighed(AllowedTo(groups)[n], seen(n))}
<1>1. /\ N \in Nat
      /\ \A g \in 1..N : /\ groups[g].rules \in Seq(Rule)
                         /\ Elements(groups[g].rules) \in SUBSET Rule
  BY GroupFields
<1>2. MatchingGroups(groups) \in SUBSET (1..N)
  BY DEF MatchingGroups
<1>3. seen(0) = {} /\ seen(N) = Considered(groups)
  <2>1. MatchingGroups(groups) \intersect (1..N) = MatchingGroups(groups)
    BY <1>2
  <2>2. MatchingGroups(groups) \intersect (1..0) = {}
    OBVIOUS
  <2>. QED BY <2>1, <2>2 DEF Considered
<1>4. ASSUME NEW n \in 0..N, n < N
      PROVE  /\ seen(n) \in SUBSET Rule
             /\ seen(n + 1) = IF n + 1 \in MatchingGroups(groups)
                              THEN seen(n) \union Elements(groups[n + 1].rules) ELSE seen(n)
  <2>. DEFINE M == MatchingGroups(groups)
  <2>1. n + 1 \in 1..N /\ (1..(n + 1)) = (1..n) \union {n + 1}
    BY <1>1, <1>4
  <2>2. CASE n + 1 \in M
    <3>1. M \intersect (1..(n + 1)) = (M \intersect (1..n)) \union {n + 1}
      BY <2>1, <2>2
    <3>. HIDE DEF M
    <3>. QED BY <1>1, <1>2, <2>1, <2>2, <3>1 DEF M
  <2>3. CASE n + 1 \notin M
    <3>1. M \intersect (1..(n + 1)) = M \intersect (1..n)
      BY <2>1, <2>3
    <3>. QED BY <1>1, <1>2, <2>1, <2>3, <3>1
  <2>. QED BY <2>2, <2>3
<1>. HIDE DEF seen
<1>5. 0 \in S
  <2>1. Weighed(Unruled, {})
    BY DEF Weighed, Weighing, Unruled
  <2>2. Weighed(AllowedTo(groups)[0], seen(0))
    BY <1>3, <2>1, AllowedToDefined
  <2>. QED BY <1>1, <2>2
<1>6. ASSUME NEW n \in 0..N, n < N, n \in S
      PROVE  n + 1 \in S
  <2>1. n + 1 \in 1..N /\ (n + 1) - 1 = n
    BY <1>1, <1>6
  <2>2. Weighed(AllowedTo(groups)[n], seen(n))
    BY <1>6
  <2>3. AllowedTo(groups)[n + 1] = WeighNext(AllowedTo(groups)[n], groups, n + 1)
    BY <2>1, AllowedToDefined
  <2>4. Weighed(AllowedTo(groups)[n + 1], seen(n + 1))
    <3>1. CASE n + 1 \in MatchingGroups(groups)
      <4>1. groups[n + 1].rules \in Seq(Rule)
        BY <1>1, <2>1
      <4>. DEFINE rules == groups[n + 1].rules
                  s == AllowedTo(groups)[n]
      <4>2. seen(n) \in SUBSET Rule /\ seen(n + 1) = seen(n) \union Elements(rules)
        BY <1>4, <1>6, <3>1
      <4>3. AllowedTo(groups)[n + 1] = WeighTo(s, rules)[Len(rules)]
        BY <2>3, <3>1 DEF WeighNext
      <4>4. rules \in Seq(Rule) /\ Weighed(s, seen(n))
        BY <2>2, <4>1
      <4>. HIDE DEF rules, s
      <4>. QED BY <4>2, <4>3, <4>4, WeighGroup
    <3>2. CASE n + 1 \notin MatchingGroups(groups)
      BY <1>4, <1>6, <2>2, <2>3, <3>2 DEF WeighNext
    <3>. QED BY <3>1, <3>2
  <2>. QED BY <2>1, <2>4
<1>7. \A n \in 0..N : n \in S
  <2>. HIDE DEF S, N
  <2>. QED BY <1>1, <1>5, <1>6, InductionUpTo
<1>8. N \in 0..N
  BY <1>1
<1>9. Weighed(AllowedTo(groups)[N], seen(N))
  BY <1>7, <1>8
<1>. QED BY <1>3, <1>9

(* An agent line opens a group unless it goes on with the lines above it.  *)
Opens(before, line) == line.kind = "agent" /\ (Len(before.groups) = 0 \/ before.hasRules)

(* What a line adds: its agent or its rule, to the last group.             *)
ReadsOne(before, line, after) ==
    LET last == Len(after.groups)
        old(g) == g <= Len(before.groups) IN
    /\ after \in Reading
    /\ last = Len(before.groups) + (IF Opens(before, line) THEN 1 ELSE 0)
    /\ after.hasRules <=> ~Opens(before, line) /\ (before.hasRules \/ (line \in Rule /\ last # 0))
    /\ \A g \in 1..last :
          /\ after.groups[g].agents =
                (IF old(g) THEN before.groups[g].agents ELSE {})
                \union (IF line.kind = "agent" /\ g = last THEN {line.agent} ELSE {})
          /\ Elements(after.groups[g].rules) =
                (IF old(g) THEN Elements(before.groups[g].rules) ELSE {})
                \union (IF line \in Rule /\ g = last THEN {line} ELSE {})

(* A rule appended.                                                        *)
LEMMA ElementsAppend ==
    ASSUME NEW rules \in Seq(Rule), NEW rule \in Rule
    PROVE  Append(rules, rule) \in Seq(Rule)
           /\ Elements(Append(rules, rule)) = Elements(rules) \union {rule}
<1>1. Len(Append(rules, rule)) = Len(rules) + 1 /\ Len(rules) \in Nat
  OBVIOUS
<1>2. \A n \in 1..Len(rules) : Append(rules, rule)[n] = rules[n]
  OBVIOUS
<1>3. Append(rules, rule)[Len(rules) + 1] = rule
  OBVIOUS
<1>4. 1..(Len(rules) + 1) = (1..Len(rules)) \union {Len(rules) + 1}
  BY <1>1
<1>5. Elements(Append(rules, rule)) =
         {Append(rules, rule)[n] : n \in (1..Len(rules)) \union {Len(rules) + 1}}
  BY <1>1, <1>4 DEF Elements
<1>. QED BY <1>2, <1>3, <1>5 DEF Elements

(* Reading a line adds what ReadsOne says.                                 *)
LEMMA ReadLineReadsOne ==
    ASSUME NEW before \in Reading, NEW line \in Line
    PROVE  ReadsOne(before, line, ReadLine(before, line))
<1>. DEFINE after == ReadLine(before, line)
            groups == before.groups
            last == Len(groups)
<1>1. /\ groups \in Seq(Group) /\ before.hasRules \in BOOLEAN
      /\ before = [groups |-> groups, hasRules |-> before.hasRules]
      /\ last \in Nat /\ DOMAIN groups = 1..last
      /\ \A g \in 1..last : /\ groups[g] \in Group
                            /\ groups[g].agents \in SUBSET Agents
                            /\ groups[g].rules \in Seq(Rule)
  BY GroupFields DEF Reading
<1>2. /\ line.kind \in {"agent", "allow", "disallow"}
      /\ line.kind = "agent" => line.agent \in Agents /\ line \notin Rule
      /\ line.kind # "agent" => (line \in Rule <=> ~IsEmpty(line))
  BY LineFields DEF Rule, IsRule
<1>. SUFFICES ReadsOne(before, line, after)
  OBVIOUS
<1>3. CASE Opens(before, line)
  <2>. DEFINE new == [agents |-> {line.agent}, rules |-> <<>>]
  <2>1. new \in Group /\ Elements(new.rules) = {}
    BY <1>2, <1>3 DEF Group, Opens, Elements
  <2>2. after = [groups |-> Append(groups, new), hasRules |-> FALSE]
    BY <1>3 DEF ReadLine, Opens
  <2>. HIDE DEF new, after
  <2>3. /\ Append(groups, new) \in Seq(Group) /\ Len(Append(groups, new)) = last + 1
        /\ \A g \in 1..last : Append(groups, new)[g] = groups[g]
        /\ Append(groups, new)[last + 1] = new
    BY <1>1, <2>1
  <2>4. after \in Reading /\ after.groups = Append(groups, new) /\ ~after.hasRules
    BY <2>2, <2>3 DEF Reading
  <2>5. new.agents = {line.agent}
    BY DEF new
  <2>6. line \notin Rule /\ line.kind = "agent"
    BY <1>2, <1>3 DEF Opens
  <2>. QED BY <1>1, <1>3, <2>1, <2>3, <2>4, <2>5, <2>6 DEF ReadsOne
<1>4. CASE line.kind = "agent" /\ ~Opens(before, line)
  <2>. DEFINE joined == [groups[last] EXCEPT !.agents = @ \union {line.agent}]
              changed == [groups EXCEPT ![last] = joined]
  <2>1. last \in 1..last /\ ~before.hasRules
    BY <1>1, <1>4 DEF Opens
  <2>2. joined \in Group /\ joined.agents = groups[last].agents \union {line.agent}
        /\ joined.rules = groups[last].rules
    BY <1>1, <1>2, <1>4, <2>1 DEF Group
  <2>3. after = [groups |-> changed, hasRules |-> before.hasRules]
    <3>1. after = [before EXCEPT !.groups = changed]
      BY <1>4, <2>1 DEF ReadLine, Opens
    <3>. HIDE DEF changed, after
    <3>. QED BY <1>1, <3>1
  <2>. HIDE DEF joined, after
  <2>4. /\ changed \in Seq(Group) /\ Len(changed) = last
        /\ \A g \in 1..last : changed[g] = IF g = last THEN joined ELSE groups[g]
    BY <1>1, <2>1, <2>2
  <2>. HIDE DEF changed
  <2>5. after \in Reading /\ after.groups = changed /\ ~after.hasRules
    BY <2>1, <2>3, <2>4 DEF Reading
  <2>6. line \notin Rule
    BY <1>2, <1>4
  <2>. QED BY <1>1, <1>4, <2>1, <2>2, <2>4, <2>5, <2>6 DEF ReadsOne
<1>5. CASE line.kind # "agent" /\ (last = 0 \/ IsEmpty(line))
  <2>1. after = before
    BY <1>5 DEF ReadLine
  <2>2. last = 0 \/ line \notin Rule
    BY <1>2, <1>5
  <2>. HIDE DEF after
  <2>. QED BY <1>1, <1>5, <2>1, <2>2 DEF ReadsOne, Opens
<1>6. CASE line.kind # "agent" /\ last # 0 /\ ~IsEmpty(line)
  <2>. DEFINE grown == [groups[last] EXCEPT !.rules = Append(@, line)]
              changed == [groups EXCEPT ![last] = grown]
  <2>1. last \in 1..last /\ line \in Rule
    BY <1>1, <1>2, <1>6
  <2>2. grown \in Group /\ grown.agents = groups[last].agents
        /\ Elements(grown.rules) = Elements(groups[last].rules) \union {line}
    BY <1>1, <2>1, ElementsAppend DEF Group
  <2>3. after = [groups |-> changed, hasRules |-> TRUE]
    BY <1>6 DEF ReadLine
  <2>. HIDE DEF grown, after
  <2>4. /\ changed \in Seq(Group) /\ Len(changed) = last
        /\ \A g \in 1..last : changed[g] = IF g = last THEN grown ELSE groups[g]
    BY <1>1, <2>1, <2>2
  <2>. HIDE DEF changed
  <2>5. after \in Reading /\ after.groups = changed /\ after.hasRules
    BY <2>3, <2>4 DEF Reading
  <2>6. ~Opens(before, line) /\ line.kind # "agent"
    BY <1>6 DEF Opens
  <2>7. \A g \in 1..last :
           /\ changed[g].agents = groups[g].agents
           /\ Elements(changed[g].rules) =
                 Elements(groups[g].rules) \union (IF g = last THEN {line} ELSE {})
    BY <2>2, <2>4
  <2>8. /\ Len(after.groups) = Len(before.groups) /\ Len(before.groups) # 0
        /\ after.groups = changed /\ line \in Rule
    BY <1>6, <2>1, <2>4, <2>5
  <2>9. after.hasRules <=> ~Opens(before, line)
                           /\ (before.hasRules \/ (line \in Rule /\ Len(after.groups) # 0))
    BY <2>5, <2>6, <2>8
  <2>10. ASSUME NEW g \in 1..Len(after.groups)
         PROVE  /\ after.groups[g].agents = before.groups[g].agents
                /\ Elements(after.groups[g].rules) =
                      Elements(before.groups[g].rules) \union (IF g = last THEN {line} ELSE {})
                /\ g <= Len(before.groups)
    <3>1. g \in 1..last /\ after.groups[g] = changed[g] /\ g <= Len(before.groups)
      BY <1>1, <2>8
    <3>2. /\ changed[g].agents = groups[g].agents
          /\ Elements(changed[g].rules) =
                Elements(groups[g].rules) \union (IF g = last THEN {line} ELSE {})
      BY <2>7, <3>1
    <3>. QED BY <3>1, <3>2
  <2>11. last = Len(after.groups)
    BY <2>8
  <2>. HIDE DEF last, groups
  <2>12. ASSUME NEW g \in 1..Len(after.groups)
         PROVE  /\ after.groups[g].agents =
                      (IF g <= Len(before.groups) THEN before.groups[g].agents ELSE {})
                      \union (IF line.kind = "agent" /\ g = Len(after.groups)
                              THEN {line.agent} ELSE {})
                /\ Elements(after.groups[g].rules) =
                      (IF g <= Len(before.groups) THEN Elements(before.groups[g].rules) ELSE {})
                      \union (IF line \in Rule /\ g = Len(after.groups) THEN {line} ELSE {})
    BY <2>6, <2>8, <2>10, <2>11
  <2>13. Len(after.groups) = Len(before.groups) + (IF Opens(before, line) THEN 1 ELSE 0)
    BY <1>1, <2>6, <2>8 DEF last, groups
  <2>. QED BY <2>5, <2>9, <2>12, <2>13 DEF ReadsOne
<1>. QED BY <1>2, <1>3, <1>4, <1>5, <1>6

(* ReadTo is what its definition says: one line after the other.           *)
LEMMA ReadToReads ==
    ASSUME NEW lines \in Seq(Line)
    PROVE  /\ ReadTo(lines)[0] = NoGroups
           /\ \A n \in 0..Len(lines) : ReadTo(lines)[n] \in Reading
           /\ \A n \in 1..Len(lines) : ReadsOne(ReadTo(lines)[n - 1], lines[n], ReadTo(lines)[n])
<1>. DEFINE N == Len(lines)
            step == [p \in (1..N) \X Reading |-> ReadLine(p[2], lines[p[1]])]
            IsReading(f) ==
               f = [n \in 0..N |-> IF n = 0 THEN NoGroups ELSE ReadLine(f[n - 1], lines[n])]
<1>1. N \in Nat /\ \A n \in 1..N : lines[n] \in Line
  OBVIOUS
<1>2. NoGroups \in Reading
  BY DEF NoGroups, Reading
<1>3. step \in Steps(N, Reading)
  <2>1. ASSUME NEW p \in (1..N) \X Reading
        PROVE  ReadLine(p[2], lines[p[1]]) \in Reading
    BY <1>1, ReadLineReadsOne DEF ReadsOne
  <2>. QED BY <2>1 DEF Steps
<1>4. PICK f \in [0..N -> Reading] : Solves(f, N, NoGroups, step)
  <2>. HIDE DEF step, N
  <2>. QED BY <1>1, <1>2, <1>3, RecursionUpTo
<1>5. IsReading(f)
  <2>1. ASSUME NEW n \in 1..N
        PROVE  f[n] = ReadLine(f[n - 1], lines[n])
    <3>1. f[n] = step[<<n, f[n - 1]>>]
      <4>. HIDE DEF step
      <4>. QED BY <1>4 DEF Solves
    <3>2. n - 1 \in 0..N /\ <<n, f[n - 1]>> \in (1..N) \X Reading
      BY <1>1
    <3>. QED BY <3>1, <3>2
  <2>2. f[0] = NoGroups
    BY <1>4 DEF Solves
  <2>. QED BY <2>1, <2>2
<1>. DEFINE read == ReadTo(lines)
<1>6. IsReading(read)
  <2>1. read = CHOOSE g : IsReading(g)
    BY DEF ReadTo
  <2>. HIDE DEF IsReading, read
  <2>. QED BY <1>5, <2>1
<1>7. read[0] = NoGroups /\ \A n \in 1..N : read[n] = ReadLine(read[n - 1], lines[n])
  <2>. HIDE DEF read
  <2>. QED BY <1>1, <1>6
<1>8. \A n \in 0..N : read[n] \in Reading
  <2>. DEFINE S == {n \in 0..N : read[n] \in Reading}
  <2>. HIDE DEF read
  <2>1. 0 \in S
    BY <1>1, <1>2, <1>7
  <2>2. ASSUME NEW n \in 0..N, n < N, n \in S
        PROVE  n + 1 \in S
    <3>1. n + 1 \in 1..N /\ (n + 1) - 1 = n /\ lines[n + 1] \in Line /\ read[n] \in Reading
      BY <1>1, <2>2
    <3>2. ReadLine(read[n], lines[n + 1]) \in Reading
      BY <3>1, ReadLineReadsOne DEF ReadsOne
    <3>. QED BY <1>7, <3>1, <3>2
  <2>3. \A n \in 0..N : n \in S
    <3>. HIDE DEF S, N
    <3>. QED BY <1>1, <2>1, <2>2, InductionUpTo
  <2>. QED BY <2>3
<1>9. ASSUME NEW n \in 1..N
      PROVE  ReadsOne(read[n - 1], lines[n], read[n])
  <2>. HIDE DEF read
  <2>1. n - 1 \in 0..N /\ read[n - 1] \in Reading /\ lines[n] \in Line
    BY <1>1, <1>8
  <2>. QED BY <1>7, <2>1, ReadLineReadsOne
<1>. QED BY <1>7, <1>8, <1>9

(* The group that the reader is in after a line.                           *)
GroupAt(lines, n) == Len(ReadTo(lines)[n].groups)

(* What the reader has after n lines.                                      *)
ReadInv(lines, n) ==
    LET read == ReadTo(lines)[n] IN
    /\ \A j \in 0..n : GroupAt(lines, j) <= GroupAt(lines, n)
    /\ read.hasRules <=> \E j \in 1..n : /\ lines[j] \in Rule
                                         /\ GroupAt(lines, j) = GroupAt(lines, n)
                                         /\ GroupAt(lines, n) # 0
    /\ \A g \in 1..GroupAt(lines, n) :
          /\ \A agent \in Agents :
                agent \in read.groups[g].agents <=>
                   \E j \in 1..n : lines[j] = AgentLine(agent) /\ GroupAt(lines, j) = g
          /\ \A rule \in Rule :
                rule \in Elements(read.groups[g].rules) <=>
                   \E j \in 1..n : lines[j] = rule /\ GroupAt(lines, j) = g

(* A line opens at most one group.                                         *)
LEMMA GroupSteps ==
    ASSUME NEW lines \in Seq(Line), NEW n \in 1..Len(lines)
    PROVE  /\ n - 1 \in 0..Len(lines)
           /\ GroupAt(lines, n) \in Nat /\ GroupAt(lines, n - 1) \in Nat
           /\ lines[n] \in Line
           /\ GroupAt(lines, n) = GroupAt(lines, n - 1)
                                  + (IF Opens(ReadTo(lines)[n - 1], lines[n]) THEN 1 ELSE 0)
<1>1. n - 1 \in 0..Len(lines) /\ lines[n] \in Line
  OBVIOUS
<1>2. ReadTo(lines)[n] \in Reading /\ ReadTo(lines)[n - 1] \in Reading
  BY <1>1, ReadToReads
<1>3. ReadsOne(ReadTo(lines)[n - 1], lines[n], ReadTo(lines)[n])
  BY ReadToReads
<1>4. Len(ReadTo(lines)[n].groups) = Len(ReadTo(lines)[n - 1].groups)
                                     + (IF Opens(ReadTo(lines)[n - 1], lines[n]) THEN 1 ELSE 0)
  BY <1>3 DEF ReadsOne
<1>5. \A r \in Reading : Len(r.groups) \in Nat
  BY DEF Reading
<1>. QED BY <1>1, <1>2, <1>4, <1>5 DEF GroupAt

(* Every group holds the agents and the rules of the lines read in it, by  *)
(* induction along the file.                                               *)
LEMMA ReadInvHolds ==
    ASSUME NEW lines \in Seq(Line)
    PROVE  \A n \in 0..Len(lines) : ReadInv(lines, n)
<1>. DEFINE N == Len(lines)
            G(n) == GroupAt(lines, n)
            read == ReadTo(lines)
            S == {n \in 0..N : ReadInv(lines, n)}
<1>1. N \in Nat /\ G(0) = 0 /\ \A n \in 0..N : G(n) \in Nat
  <2>1. \A n \in 0..N : read[n] \in Reading
    BY ReadToReads
  <2>2. G(0) = 0
    BY ReadToReads DEF GroupAt, NoGroups
  <2>. QED BY <2>1, <2>2 DEF GroupAt, Reading
<1>2. 0 \in S
  <2>1. ~read[0].hasRules
    BY ReadToReads DEF NoGroups
  <2>2. ReadInv(lines, 0)
    BY <1>1, <2>1 DEF ReadInv
  <2>. QED BY <1>1, <2>2
<1>3. ASSUME NEW n \in 0..N, n < N, n \in S
      PROVE  n + 1 \in S
  <2>. DEFINE m == n + 1
              line == lines[m]
  <2>1. m \in 1..N /\ m - 1 = n /\ 1..m = (1..n) \union {m} /\ 0..m = (0..n) \union {m}
    BY <1>1, <1>3
  <2>. HIDE DEF m
  <2>2. line \in Line /\ ReadsOne(read[n], line, read[m])
    BY <2>1, ReadToReads
  <2>3. ReadInv(lines, n)
    BY <1>3
  <2>4. G(m) = G(n) + (IF Opens(read[n], line) THEN 1 ELSE 0) /\ G(m) \in Nat /\ G(n) \in Nat
    <3>1. Len(read[m].groups) = Len(read[n].groups) + (IF Opens(read[n], line) THEN 1 ELSE 0)
      BY <2>2 DEF ReadsOne
    <3>2. m \in 0..N
      BY <2>1
    <3>. HIDE DEF read, line
    <3>. QED BY <1>1, <3>1, <3>2 DEF GroupAt, read
  <2>5. \A j \in 0..m : G(j) <= G(m)
    BY <1>1, <2>1, <2>3, <2>4 DEF ReadInv
  <2>6. \A j \in 0..n : G(j) <= G(n) /\ G(j) \in Nat
    BY <1>1, <2>1, <2>3 DEF ReadInv
  <2>7. /\ line.kind \in {"agent", "allow", "disallow"}
        /\ line.kind = "agent" =>
              line.agent \in Agents /\ line = AgentLine(line.agent) /\ line \notin Rule
        /\ \A agent \in Agents :
              line = AgentLine(agent) <=> line.kind = "agent" /\ line.agent = agent
    BY <2>2, LineFields DEF Rule, IsRule, AgentLine
  <2>8. read[m].hasRules <=> \E j \in 1..m : lines[j] \in Rule /\ G(j) = G(m) /\ G(m) # 0
    <3>1. read[m].hasRules <=>
             ~Opens(read[n], line) /\ (read[n].hasRules \/ (line \in Rule /\ G(m) # 0))
      BY <2>2 DEF ReadsOne, GroupAt
    <3>2. read[n].hasRules <=> \E j \in 1..n : lines[j] \in Rule /\ G(j) = G(n) /\ G(n) # 0
      BY <2>3 DEF ReadInv
    <3>3. CASE Opens(read[n], line)
      <4>1. line \notin Rule /\ \A j \in 1..n : G(j) # G(m)
        BY <2>4, <2>6, <2>7, <3>3 DEF Opens
      <4>. QED BY <2>1, <3>1, <3>3, <4>1
    <3>4. CASE ~Opens(read[n], line)
      <4>1. G(m) = G(n)
        BY <2>4, <3>4
      <4>. QED BY <2>1, <3>1, <3>2, <3>4, <4>1
    <3>. QED BY <3>3, <3>4
  <2>9. ASSUME NEW g \in 1..G(m), NEW agent \in Agents
        PROVE  agent \in read[m].groups[g].agents <=>
                  \E j \in 1..m : lines[j] = AgentLine(agent) /\ G(j) = g
    <3>1. read[m].groups[g].agents =
             (IF g <= G(n) THEN read[n].groups[g].agents ELSE {})
             \union (IF line.kind = "agent" /\ g = G(m) THEN {line.agent} ELSE {})
      BY <2>2 DEF ReadsOne, GroupAt
    <3>2. agent \in (IF g <= G(n) THEN read[n].groups[g].agents ELSE {}) <=>
             \E j \in 1..n : lines[j] = AgentLine(agent) /\ G(j) = g
      <4>1. CASE g <= G(n)
        <5>1. g \in 1..G(n)
          BY <2>4, <4>1
        <5>. QED BY <2>3, <4>1, <5>1 DEF ReadInv
      <4>2. CASE ~(g <= G(n))
        BY <2>4, <2>6, <4>2
      <4>. QED BY <4>1, <4>2
    <3>3. agent \in (IF line.kind = "agent" /\ g = G(m) THEN {line.agent} ELSE {}) <=>
             line = AgentLine(agent) /\ G(m) = g
      BY <2>7
    <3>. QED BY <2>1, <3>1, <3>2, <3>3
  <2>10. ASSUME NEW g \in 1..G(m), NEW rule \in Rule
         PROVE  rule \in Elements(read[m].groups[g].rules) <=>
                   \E j \in 1..m : lines[j] = rule /\ G(j) = g
    <3>1. Elements(read[m].groups[g].rules) =
             (IF g <= G(n) THEN Elements(read[n].groups[g].rules) ELSE {})
             \union (IF line \in Rule /\ g = G(m) THEN {line} ELSE {})
      BY <2>2 DEF ReadsOne, GroupAt
    <3>2. rule \in (IF g <= G(n) THEN Elements(read[n].groups[g].rules) ELSE {}) <=>
             \E j \in 1..n : lines[j] = rule /\ G(j) = g
      <4>1. CASE g <= G(n)
        <5>1. g \in 1..G(n)
          BY <2>4, <4>1
        <5>. QED BY <2>3, <4>1, <5>1 DEF ReadInv
      <4>2. CASE ~(g <= G(n))
        BY <2>4, <2>6, <4>2
      <4>. QED BY <4>1, <4>2
    <3>3. rule \in (IF line \in Rule /\ g = G(m) THEN {line} ELSE {}) <=> line = rule /\ G(m) = g
      OBVIOUS
    <3>. QED BY <2>1, <3>1, <3>2, <3>3
  <2>11. ReadInv(lines, m)
    BY <2>5, <2>8, <2>9, <2>10 DEF ReadInv
  <2>. QED BY <2>1, <2>11 DEF m
<1>4. \A n \in 0..N : n \in S
  <2>. HIDE DEF S, N
  <2>. QED BY <1>1, <1>2, <1>3, InductionUpTo
<1>. QED BY <1>4

(* What the proofs below use of the groups that the reader is in.          *)
LEMMA GroupsGrow ==
    ASSUME NEW lines \in Seq(Line)
    PROVE  /\ \A n \in 0..Len(lines) : GroupAt(lines, n) \in Nat
           /\ \A n \in 0..Len(lines) : \A j \in 0..n : GroupAt(lines, j) <= GroupAt(lines, n)
           /\ \A n \in 1..Len(lines) :
                 GroupAt(lines, n) =
                    GroupAt(lines, n - 1)
                    + (IF /\ lines[n].kind = "agent"
                          /\ \/ GroupAt(lines, n - 1) = 0
                             \/ \E k \in 1..(n - 1) : /\ lines[k] \in Rule
                                                      /\ GroupAt(lines, k) = GroupAt(lines, n - 1)
                       THEN 1 ELSE 0)
<1>. DEFINE G(n) == GroupAt(lines, n)
            read == ReadTo(lines)
<1>1. \A n \in 0..Len(lines) : G(n) \in Nat
  <2>1. \A n \in 0..Len(lines) : read[n] \in Reading
    BY ReadToReads
  <2>. QED BY <2>1 DEF GroupAt, Reading
<1>2. \A n \in 0..Len(lines) : \A j \in 0..n : G(j) <= G(n)
  BY ReadInvHolds DEF ReadInv
<1>3. ASSUME NEW n \in 1..Len(lines)
      PROVE  G(n) = G(n - 1)
                    + (IF /\ lines[n].kind = "agent"
                          /\ \/ G(n - 1) = 0
                             \/ \E k \in 1..(n - 1) : lines[k] \in Rule /\ G(k) = G(n - 1)
                       THEN 1 ELSE 0)
  <2>1. n - 1 \in 0..Len(lines)
    OBVIOUS
  <2>2. read[n - 1].hasRules <=>
           \E k \in 1..(n - 1) : lines[k] \in Rule /\ G(k) = G(n - 1) /\ G(n - 1) # 0
    BY <2>1, ReadInvHolds DEF ReadInv
  <2>3. Opens(read[n - 1], lines[n]) <=>
           lines[n].kind = "agent" /\ (G(n - 1) = 0 \/ read[n - 1].hasRules)
    BY DEF Opens, GroupAt
  <2>4. G(n) = G(n - 1) + (IF Opens(read[n - 1], lines[n]) THEN 1 ELSE 0)
    BY GroupSteps
  <2>. HIDE DEF G, read
  <2>5. Opens(read[n - 1], lines[n]) <=>
           lines[n].kind = "agent"
           /\ (G(n - 1) = 0 \/ \E k \in 1..(n - 1) : lines[k] \in Rule /\ G(k) = G(n - 1))
    BY <2>2, <2>3
  <2>. QED BY <2>4, <2>5
<1>. QED BY <1>1, <1>2, <1>3

(* An agent line below a written rule is in a later group.                 *)
LEMMA AgentLineEndsRules ==
    ASSUME NEW lines \in Seq(Line), NEW j \in 1..Len(lines), lines[j].kind = "agent",
           NEW k \in 1..(j - 1), lines[k] \in Rule
    PROVE  GroupAt(lines, k) < GroupAt(lines, j)
<1>. DEFINE G(n) == GroupAt(lines, n)
<1>1. /\ j - 1 \in 0..Len(lines) /\ j \in 0..Len(lines) /\ k \in 0..(j - 1) /\ k \in 0..Len(lines)
      /\ j - 1 \in 0..j
  OBVIOUS
<1>2. G(j) \in Nat /\ G(j - 1) \in Nat /\ G(k) \in Nat /\ G(k) <= G(j - 1)
  BY <1>1, GroupsGrow
<1>3. G(j) = G(j - 1) + (IF \/ G(j - 1) = 0
                            \/ \E i \in 1..(j - 1) : lines[i] \in Rule /\ G(i) = G(j - 1)
                         THEN 1 ELSE 0)
  BY GroupsGrow
<1>. SUFFICES G(k) < G(j)
  OBVIOUS
<1>. HIDE DEF G
<1>4. CASE G(k) = G(j - 1)
  BY <1>2, <1>3, <1>4
<1>5. CASE G(k) < G(j - 1)
  BY <1>2, <1>3, <1>5
<1>. QED BY <1>2, <1>4, <1>5

(* An agent line is in a group.                                            *)
LEMMA AgentLineHasGroup ==
    ASSUME NEW lines \in Seq(Line), NEW j \in 1..Len(lines), lines[j].kind = "agent"
    PROVE  GroupAt(lines, j) # 0
<1>. DEFINE G(n) == GroupAt(lines, n)
<1>1. j - 1 \in 0..Len(lines) /\ j \in 0..Len(lines)
  OBVIOUS
<1>2. G(j) \in Nat /\ G(j - 1) \in Nat
  BY <1>1, GroupsGrow
<1>3. G(j) = G(j - 1) + (IF \/ G(j - 1) = 0
                            \/ \E i \in 1..(j - 1) : lines[i] \in Rule /\ G(i) = G(j - 1)
                         THEN 1 ELSE 0)
  BY GroupsGrow
<1>. HIDE DEF G
<1>. QED BY <1>2, <1>3 DEF G

(* The lines that are rules with a value.                                  *)
LEMMA WrittenRulesAre ==
    ASSUME NEW lines \in Seq(Line)
    PROVE  WrittenRules(lines) = {i \in 1..Len(lines) : lines[i] \in Rule}
<1>1. DOMAIN lines = 1..Len(lines) /\ \A i \in 1..Len(lines) : lines[i] \in Line
  OBVIOUS
<1>. QED BY <1>1 DEF WrittenRules, RuleLines, Rule

(* An agent line and a later line are in one group just when no written    *)
(* rule stands before an agent line between them.                          *)
LEMMA SameGroup ==
    ASSUME NEW lines \in Seq(Line), NEW i \in 1..Len(lines), NEW j \in 1..(i - 1),
           lines[j].kind = "agent"
    PROVE  GroupAt(lines, j) = GroupAt(lines, i) <=>
              ~\E k, l \in j..i : k < l /\ k \in WrittenRules(lines) /\ lines[l].kind = "agent"
<1>. DEFINE N == Len(lines)
            G(n) == GroupAt(lines, n)
<1>1. N \in Nat /\ j \in 1..N /\ j \in 0..N /\ i \in 0..N /\ j \in 0..i
  OBVIOUS
<1>2. /\ \A n \in 0..N : G(n) \in Nat
      /\ \A n \in 0..N : \A m \in 0..n : G(m) <= G(n)
  BY GroupsGrow
<1>3. \A k \in WrittenRules(lines) : k \in 1..N /\ lines[k] \in Rule
  BY WrittenRulesAre
<1>4. ASSUME NEW k \in j..i, NEW l \in j..i, k < l, k \in WrittenRules(lines),
             lines[l].kind = "agent"
      PROVE  G(j) # G(i)
  <2>1. /\ l \in 1..N /\ k \in 1..(l - 1) /\ k \in 0..N /\ l \in 0..N /\ j \in 0..k /\ l \in 0..i
    BY <1>1, <1>4
  <2>2. lines[k] \in Rule
    BY <1>3, <1>4
  <2>3. G(k) < G(l)
    BY <1>4, <2>1, <2>2, AgentLineEndsRules
  <2>4. G(j) <= G(k) /\ G(l) <= G(i) /\ G(j) \in Nat /\ G(k) \in Nat /\ G(l) \in Nat /\ G(i) \in Nat
    BY <1>1, <1>2, <2>1
  <2>. HIDE DEF G
  <2>. QED BY <2>3, <2>4
<1>5. ASSUME G(j) # G(i)
      PROVE  \E k, l \in j..i : k < l /\ k \in WrittenRules(lines) /\ lines[l].kind = "agent"
  <2>. DEFINE S == {n \in j..i : G(n) # G(j)}
  <2>1. i \in S /\ S \subseteq Nat
    BY <1>1, <1>5
  <2>2. PICK l \in S : \A n \in S : l <= n
    <3>. HIDE DEF S
    <3>. QED BY <2>1, LeastNatural
  <2>3. /\ l \in j..i /\ G(l) # G(j) /\ l # j /\ l \in 1..N /\ l \in 0..N
        /\ l - 1 \in j..i /\ l - 1 \in 0..N
        /\ j \in 1..(l - 1) /\ l - 1 \in 0..l
    BY <1>1, <2>2
  <2>4. G(l - 1) = G(j)
    <3>1. l - 1 \notin S
      BY <2>2, <2>3
    <3>. QED BY <2>3, <3>1
  <2>5. G(j) # 0
    BY <1>1, AgentLineHasGroup
  <2>6. lines[l].kind = "agent" /\ \E k \in 1..(l - 1) : lines[k] \in Rule /\ G(k) = G(l - 1)
    <3>1. G(l) = G(l - 1)
                 + (IF /\ lines[l].kind = "agent"
                       /\ \/ G(l - 1) = 0
                          \/ \E k \in 1..(l - 1) : lines[k] \in Rule /\ G(k) = G(l - 1)
                    THEN 1 ELSE 0)
      BY <2>3, GroupsGrow
    <3>2. G(l) \in Nat /\ G(l - 1) \in Nat
      BY <1>2, <2>3
    <3>. HIDE DEF G
    <3>. QED BY <2>3, <2>4, <2>5, <3>1, <3>2
  <2>7. PICK k \in 1..(l - 1) : lines[k] \in Rule /\ G(k) = G(j)
    BY <2>4, <2>6
  <2>8. k \in 1..N /\ k \in WrittenRules(lines)
    BY <2>3, <2>7, WrittenRulesAre
  <2>9. k >= j
    <3>1. ASSUME k < j
          PROVE  FALSE
      <4>1. k \in 1..(j - 1)
        BY <1>1, <2>8, <3>1
      <4>2. G(k) < G(j)
        BY <1>1, <2>7, <4>1, AgentLineEndsRules
      <4>3. G(j) \in Nat
        BY <1>1, <1>2
      <4>. HIDE DEF G
      <4>. QED BY <2>7, <4>2, <4>3
    <3>. QED BY <1>1, <2>8, <3>1
  <2>10. k \in j..i /\ k < l
    BY <1>1, <2>3, <2>8, <2>9
  <2>. QED BY <2>3, <2>6, <2>8, <2>10
<1>. QED BY <1>4, <1>5

(* A rule is for the agents whose line is in its group.                    *)
LEMMA RuleIsForGroup ==
    ASSUME NEW lines \in Seq(Line), NEW i \in WrittenRules(lines), NEW agent \in Agents
    PROVE  RuleIsFor(lines, WrittenRules(lines), i, agent) <=>
              \E j \in 1..Len(lines) : /\ lines[j] = AgentLine(agent)
                                       /\ GroupAt(lines, j) = GroupAt(lines, i)
<1>. DEFINE N == Len(lines)
<1>1. i \in 1..N /\ lines[i] \in Rule /\ N \in Nat
  BY WrittenRulesAre
<1>2. AgentLine(agent).kind = "agent" /\ lines[i].kind # "agent"
  BY <1>1, RuleFields DEF AgentLine
<1>3. ASSUME NEW j \in 1..N, lines[j] = AgentLine(agent), GroupAt(lines, j) = GroupAt(lines, i)
      PROVE  j \in 1..(i - 1)
  <2>1. j # i
    BY <1>2, <1>3
  <2>2. ASSUME i < j
        PROVE  FALSE
    <3>1. i \in 1..(j - 1)
      BY <1>1, <2>2
    <3>2. GroupAt(lines, i) < GroupAt(lines, j)
      BY <1>1, <1>2, <1>3, <3>1, AgentLineEndsRules
    <3>3. GroupAt(lines, i) \in Nat
      BY <1>1, GroupsGrow
    <3>. QED BY <1>3, <3>2, <3>3
  <2>. QED BY <1>1, <2>1, <2>2
<1>4. \A j \in 1..(i - 1) :
         lines[j] = AgentLine(agent) =>
            (GroupAt(lines, j) = GroupAt(lines, i) <=>
               ~\E k, l \in j..i : k < l /\ k \in WrittenRules(lines) /\ lines[l].kind = "agent")
  BY <1>1, <1>2, SameGroup
<1>5. \A j \in 1..(i - 1) : j \in 1..N
  BY <1>1
<1>. QED BY <1>3, <1>4, <1>5 DEF RuleIsFor

(* Whom we obey.                                                           *)
Me(lines) == IF Names(lines, "us") THEN "us" ELSE "*"

(* The groups of the whole file.                                           *)
LEMMA ParseKeeps ==
    ASSUME NEW lines \in Seq(Line)
    PROVE  /\ Parse(lines) \in Seq(Group)
           /\ DOMAIN Parse(lines) = 1..GroupAt(lines, Len(lines))
           /\ \A g \in 1..GroupAt(lines, Len(lines)) :
                 /\ \A agent \in Agents :
                       agent \in Parse(lines)[g].agents <=>
                          \E j \in 1..Len(lines) : /\ lines[j] = AgentLine(agent)
                                                   /\ GroupAt(lines, j) = g
                 /\ \A rule \in Rule :
                       rule \in Elements(Parse(lines)[g].rules) <=>
                          \E j \in 1..Len(lines) : lines[j] = rule /\ GroupAt(lines, j) = g
                 /\ Elements(Parse(lines)[g].rules) \in SUBSET Rule
<1>. DEFINE N == Len(lines)
<1>1. N \in 0..N
  OBVIOUS
<1>2. Parse(lines) = ReadTo(lines)[N].groups /\ ReadTo(lines)[N] \in Reading
  BY <1>1, ReadToReads DEF Parse
<1>3. Parse(lines) \in Seq(Group)
  BY <1>2 DEF Reading
<1>4. /\ DOMAIN Parse(lines) = 1..GroupAt(lines, N)
      /\ \A g \in 1..GroupAt(lines, N) : Elements(Parse(lines)[g].rules) \in SUBSET Rule
  BY <1>2, <1>3, GroupFields DEF GroupAt
<1>5. ReadInv(lines, N)
  BY <1>1, ReadInvHolds
<1>. QED BY <1>2, <1>3, <1>4, <1>5 DEF ReadInv

(* An agent line is in one of the groups of the file.                      *)
LEMMA LineInGroup ==
    ASSUME NEW lines \in Seq(Line), NEW j \in 1..Len(lines), lines[j].kind = "agent"
    PROVE  GroupAt(lines, j) \in 1..GroupAt(lines, Len(lines))
<1>1. j \in 0..Len(lines) /\ Len(lines) \in 0..Len(lines)
  OBVIOUS
<1>2. /\ GroupAt(lines, j) \in Nat /\ GroupAt(lines, Len(lines)) \in Nat
      /\ GroupAt(lines, j) <= GroupAt(lines, Len(lines))
  BY <1>1, GroupsGrow
<1>. QED BY <1>2, AgentLineHasGroup

(* The groups that are ours are those that name whom we obey.              *)
LEMMA OurGroups ==
    ASSUME NEW lines \in Seq(Line)
    PROVE  MatchingGroups(Parse(lines)) =
              {g \in 1..GroupAt(lines, Len(lines)) : Me(lines) \in Parse(lines)[g].agents}
<1>. DEFINE groups == Parse(lines)
            naming(agent) == {g \in DOMAIN groups : agent \in groups[g].agents}
<1>1. DOMAIN lines = 1..Len(lines) /\ "us" \in Agents /\ AgentLine("us").kind = "agent"
  BY DEF Agents, AgentLine
<1>2. naming("us") # {} <=> Names(lines, "us")
  <2>1. ASSUME NEW j \in 1..Len(lines), lines[j] = AgentLine("us")
        PROVE  GroupAt(lines, j) \in naming("us")
    <3>1. GroupAt(lines, j) \in 1..GroupAt(lines, Len(lines))
      BY <1>1, <2>1, LineInGroup
    <3>. QED BY <1>1, <2>1, <3>1, ParseKeeps
  <2>2. ASSUME NEW g \in naming("us")
        PROVE  \E j \in 1..Len(lines) : lines[j] = AgentLine("us")
    <3>1. g \in 1..GroupAt(lines, Len(lines)) /\ "us" \in groups[g].agents
      BY <2>2, ParseKeeps
    <3>. QED BY <1>1, <3>1, ParseKeeps
  <2>. HIDE DEF naming
  <2>. QED BY <1>1, <2>1, <2>2 DEF Names
<1>3. MatchingGroups(groups) = IF naming("us") # {} THEN naming("us") ELSE naming("*")
  BY DEF MatchingGroups
<1>4. \A agent : naming(agent) = {g \in 1..GroupAt(lines, Len(lines)) : agent \in groups[g].agents}
  BY ParseKeeps
<1>. HIDE DEF naming, groups
<1>5. MatchingGroups(groups) = naming(Me(lines))
  BY <1>2, <1>3 DEF Me
<1>. QED BY <1>4, <1>5 DEF groups

(* The rules weighed are those of the lines that are for us.               *)
LEMMA ConsideredAreOurs ==
    ASSUME NEW lines \in Seq(Line)
    PROVE  Considered(Parse(lines)) =
              {lines[i] : i \in {k \in WrittenRules(lines) :
                                   RuleIsFor(lines, WrittenRules(lines), k, Me(lines))}}
<1>. DEFINE N == Len(lines)
            groups == Parse(lines)
            me == Me(lines)
            ours == {k \in WrittenRules(lines) : RuleIsFor(lines, WrittenRules(lines), k, me)}
<1>1. me \in Agents /\ AgentLine(me).kind = "agent"
  BY DEF Me, Agents, AgentLine
<1>2. \A i \in WrittenRules(lines) : i \in 1..N /\ lines[i] \in Rule
  BY WrittenRulesAre
<1>3. ASSUME NEW rule \in Considered(groups)
      PROVE  \E i \in ours : lines[i] = rule
  <2>1. PICK g \in MatchingGroups(groups) : rule \in Elements(groups[g].rules)
    BY <1>3 DEF Considered
  <2>2. g \in 1..GroupAt(lines, N) /\ me \in groups[g].agents
    BY <2>1, OurGroups
  <2>3. rule \in Rule
    BY <2>1, <2>2, ParseKeeps
  <2>4. PICK i \in 1..N : lines[i] = rule /\ GroupAt(lines, i) = g
    BY <2>1, <2>2, <2>3, ParseKeeps
  <2>5. PICK j \in 1..N : lines[j] = AgentLine(me) /\ GroupAt(lines, j) = g
    BY <1>1, <2>2, ParseKeeps
  <2>6. i \in WrittenRules(lines)
    BY <2>3, <2>4, WrittenRulesAre
  <2>7. RuleIsFor(lines, WrittenRules(lines), i, me)
    BY <1>1, <2>4, <2>5, <2>6, RuleIsForGroup
  <2>. QED BY <2>4, <2>6, <2>7
<1>4. ASSUME NEW i \in ours
      PROVE  lines[i] \in Considered(groups)
  <2>1. i \in 1..N /\ lines[i] \in Rule /\ i \in WrittenRules(lines)
    BY <1>2
  <2>2. PICK j \in 1..N : lines[j] = AgentLine(me) /\ GroupAt(lines, j) = GroupAt(lines, i)
    BY <1>1, <2>1, RuleIsForGroup
  <2>. DEFINE g == GroupAt(lines, i)
  <2>3. g \in 1..GroupAt(lines, N)
    BY <1>1, <2>2, LineInGroup
  <2>4. me \in groups[g].agents /\ lines[i] \in Elements(groups[g].rules)
    BY <1>1, <2>1, <2>2, <2>3, ParseKeeps
  <2>5. g \in MatchingGroups(groups)
    BY <2>3, <2>4, OurGroups
  <2>. QED BY <2>4, <2>5 DEF Considered
<1>. HIDE DEF ours, groups
<1>5. Considered(groups) = {lines[i] : i \in ours}
  BY <1>3, <1>4
<1>. QED BY <1>5 DEF ours, groups

(* The parser and the checker together decide as the lines say.            *)
LEMMA AllowedIsMayVisit ==
    ASSUME NEW lines \in Seq(Line)
    PROVE  Allowed(lines) <=> MayVisit(lines, WrittenRules(lines))
<1>. DEFINE written == WrittenRules(lines)
            applying == Applying(lines, written)
            best == {i \in applying :
                       \A j \in applying : lines[i].specificity >= lines[j].specificity}
            s == AllowedTo(Parse(lines))[Len(Parse(lines))]
            matching == {rule \in Considered(Parse(lines)) : rule.matches}
<1>1. Weighed(s, Considered(Parse(lines))) /\ (Allowed(lines) <=> s.allowed)
  BY ParseKeeps, AllowedWeighs DEF Allowed
<1>2. matching = {lines[i] : i \in applying}
  BY ConsideredAreOurs DEF Applying, Me
<1>3. \A i \in applying : lines[i].specificity \in Nat
  BY WrittenRulesAre, RuleFields DEF Applying
<1>4. MayVisit(lines, written) <=> best = {} \/ \E i \in best : lines[i].kind = "allow"
  BY DEF MayVisit
<1>. HIDE DEF s
<1>5. /\ s.best \in Int
      /\ \A rule \in matching : rule.specificity <= s.best
      /\ matching = {} => s = Unruled
      /\ matching # {} => /\ \E rule \in matching : rule.specificity = s.best
                          /\ s.allowed <=> \E rule \in matching :
                                              rule.specificity = s.best /\ rule.kind = "allow"
  BY <1>1 DEF Weighed, Weighing
<1>. HIDE DEF matching, applying
<1>6. CASE applying = {}
  <2>1. s = Unruled /\ best = {}
    BY <1>2, <1>5, <1>6
  <2>. QED BY <1>1, <1>4, <2>1 DEF Unruled
<1>7. CASE applying # {}
  <2>1. matching # {}
    BY <1>2, <1>7
  <2>2. PICK top \in applying : lines[top].specificity = s.best
    BY <1>2, <1>5, <2>1
  <2>3. \A i \in applying : lines[i].specificity <= s.best
    BY <1>2, <1>5
  <2>4. best = {i \in applying : lines[i].specificity = s.best}
    BY <1>3, <1>5, <2>2, <2>3
  <2>5. s.allowed <=> \E i \in applying : lines[i].specificity = s.best /\ lines[i].kind = "allow"
    BY <1>2, <1>5, <2>1
  <2>6. top \in best
    BY <2>2, <2>4
  <2>. QED BY <1>1, <1>4, <2>4, <2>5, <2>6
<1>. QED BY <1>6, <1>7

(* Rules without a value match nothing and, here, separate nothing.        *)
LEMMA EmptyRulesDoNotMatter ==
    ASSUME NEW lines \in Seq(Line), EmptyRulesEndNothing(lines)
    PROVE  MayVisit(lines, RuleLines(lines)) <=> MayVisit(lines, WrittenRules(lines))
<1>. DEFINE all == RuleLines(lines)
            written == WrittenRules(lines)
            me == Me(lines)
<1>1. /\ DOMAIN lines = 1..Len(lines) /\ Len(lines) \in Nat
      /\ \A i \in 1..Len(lines) : lines[i] \in Line
  OBVIOUS
<1>2. written \subseteq all /\ all \subseteq 1..Len(lines)
  BY <1>1 DEF WrittenRules, RuleLines
<1>3. \A i \in all : lines[i].kind # "agent" /\ (lines[i].matches => i \in written)
  BY <1>1, <1>2, LineFields DEF WrittenRules, RuleLines, IsRule
<1>4. ASSUME NEW i \in all
      PROVE  RuleIsFor(lines, all, i, me) <=> RuleIsFor(lines, written, i, me)
  <2>1. ASSUME NEW j \in 1..(i - 1), lines[j] = AgentLine(me),
               NEW k \in j..i, NEW l \in j..i, k < l, k \in all, lines[l].kind = "agent"
        PROVE  \E m \in j..i : m < l /\ m \in written
    <3>1. j # k /\ lines[j].kind = "agent"
      BY <1>3, <2>1 DEF AgentLine
    <3>2. /\ j \in DOMAIN lines /\ l \in DOMAIN lines /\ j < k /\ k < l
          /\ i \in Nat /\ j \in Nat /\ l \in Nat /\ l <= i
      BY <1>1, <1>2, <2>1, <3>1
    <3>3. PICK m \in written : j < m /\ m < l
      BY <2>1, <3>1, <3>2 DEF EmptyRulesEndNothing
    <3>4. m \in Nat
      BY <1>2
    <3>5. m \in j..i
      BY <3>2, <3>3, <3>4
    <3>. QED BY <3>3, <3>5
  <2>2. \A j \in 1..(i - 1) :
           lines[j] = AgentLine(me) =>
              ((\E k, l \in j..i : k < l /\ k \in all /\ lines[l].kind = "agent")
               <=> (\E k, l \in j..i : k < l /\ k \in written /\ lines[l].kind = "agent"))
    BY <1>2, <2>1
  <2>. QED BY <2>2 DEF RuleIsFor
<1>5. Applying(lines, all) = Applying(lines, written)
  BY <1>2, <1>3, <1>4 DEF Applying, Me
<1>. QED BY <1>5 DEF MayVisit

(* VerdictIsLongestMatch: the answer of the checker, which reads a file    *)
(* line by line into groups and weighs their rules one after the other, is *)
(* what the longest matching rule for us says, for every file in which no  *)
(* rule without a value stands alone between two agent lines.              *)
THEOREM VerdictIsLongestMatchHolds == RobotsSpec => []VerdictIsLongestMatch
<1>. DEFINE IInv == file \in RobotsFiles /\ VerdictIsLongestMatch
<1>1. RobotsInit => IInv
  BY DEF RobotsInit, VerdictIsLongestMatch
<1>2. IInv /\ [RobotsNext]_robotsVars => IInv'
  <2>. SUFFICES ASSUME IInv, [RobotsNext]_robotsVars PROVE IInv'
    OBVIOUS
  <2>1. CASE AskChecker
    <3>1. /\ file' = file /\ file \in Seq(Line)
          /\ verdict' = (IF Allowed(file) THEN "allow" ELSE "deny")
      BY <2>1, RobotsAssumption DEF AskChecker
    <3>2. verdict' = "allow" <=> Allowed(file)
      BY <3>1
    <3>. QED BY <3>1, <3>2, AllowedIsMayVisit, EmptyRulesDoNotMatter DEF VerdictIsLongestMatch
  <2>2. CASE UNCHANGED robotsVars
    BY <2>2 DEF robotsVars, VerdictIsLongestMatch
  <2>. QED BY <2>1, <2>2 DEF RobotsNext
<1>. QED BY <1>1, <1>2, PTL DEF RobotsSpec

-------------------------------------------------------------------------------
(* Stored instants: the order of their texts against the order of time.    *)

(* An instant.                                                             *)
Instant == [second : 0..59, fraction : [1..FractionDigits -> 0..9]]

(* How the text of an instant looks whose fraction has w digits up to the  *)
(* last one that is not zero.                                              *)
Digits(t, w) ==
    /\ w = 0 \/ t.fraction[w] # 0
    /\ \A n \in 1..FractionDigits : n > w => t.fraction[n] = 0
    /\ Trimmed(t.fraction) = [n \in 1..w |-> Digit(t.fraction[n])]

WrittenAs(t, w) ==
    /\ Text(t)[1] = Digit(t.second \div 10) /\ Text(t)[2] = Digit(t.second % 10)
    /\ w = 0 => Len(Text(t)) = 3 /\ Text(t)[3] = Zulu
    /\ w > 0 => /\ Len(Text(t)) = w + 4
                /\ Text(t)[3] = Point /\ Text(t)[w + 4] = Zulu
                /\ \A n \in 1..w : Text(t)[n + 3] = Digit(t.fraction[n])

(* The fraction of an instant has a last digit that is not zero, or none.  *)
LEMMA FractionIsTrimmed ==
    ASSUME NEW t \in Instant
    PROVE  \E w \in 0..FractionDigits : Digits(t, w)
<1>. DEFINE f == t.fraction
            upTo == {n \in 1..FractionDigits : f[n] # 0}
<1>1. f \in [1..FractionDigits -> 0..9] /\ FractionDigits \in Nat
  BY TimesAssumption DEF Instant
<1>2. CASE upTo = {}
  <2>1. Trimmed(f) = [n \in 1..0 |-> Digit(f[n])]
    BY <1>2 DEF Trimmed
  <2>2. Digits(t, 0)
    BY <1>1, <1>2, <2>1 DEF Digits
  <2>. QED BY <1>1, <2>2
<1>3. CASE upTo # {}
  <2>. DEFINE last == CHOOSE n \in upTo : \A m \in upTo : m <= n
  <2>1. \E n \in upTo : \A m \in upTo : m <= n
    <3>1. upTo \in SUBSET Nat /\ \A n \in upTo : n <= FractionDigits
      BY <1>1
    <3>. HIDE DEF upTo
    <3>. QED BY <1>1, <1>3, <3>1, GreatestNatural
  <2>2. last \in upTo /\ \A m \in upTo : m <= last
    <3>. HIDE DEF upTo
    <3>. QED BY <2>1
  <2>3. Trimmed(f) = [n \in 1..last |-> Digit(f[n])]
    BY <1>3 DEF Trimmed
  <2>. HIDE DEF last
  <2>4. Digits(t, last)
    BY <1>1, <2>2, <2>3 DEF Digits
  <2>. QED BY <1>1, <2>2, <2>4
<1>. QED BY <1>2, <1>3

(* The text of an instant, character by character.                         *)
LEMMA TextIsWritten ==
    ASSUME NEW t \in Instant, NEW w \in 0..FractionDigits, Digits(t, w)
    PROVE  WrittenAs(t, w) /\ Text(t) \in Seq(Nat)
<1>. DEFINE trimmed == Trimmed(t.fraction)
            a == Digit(t.second \div 10)
            b == Digit(t.second % 10)
<1>1. t.second \in 0..59 /\ t.fraction \in [1..FractionDigits -> 0..9] /\ FractionDigits \in Nat
  BY TimesAssumption DEF Instant
<1>2. a \in Nat /\ b \in Nat
  <2>1. \A s \in 0..59 : s \div 10 \in Nat /\ s % 10 \in Nat
    OBVIOUS
  <2>2. t.second \div 10 \in Nat /\ t.second % 10 \in Nat
    BY <1>1, <2>1
  <2>. QED BY <2>2 DEF Digit
<1>3. /\ trimmed \in Seq(Nat) /\ Len(trimmed) = w
      /\ \A n \in 1..w : trimmed[n] = Digit(t.fraction[n])
  <2>1. \A n \in 1..w : Digit(t.fraction[n]) \in Nat
    BY <1>1 DEF Digit
  <2>. QED BY <2>1 DEF Digits
<1>4. Text(t) = <<a, b>> \o Tail9(t.fraction)
  BY DEF Text
<1>. HIDE DEF trimmed, a, b
<1>5. CASE w = 0
  <2>1. Tail9(t.fraction) = <<Zulu>>
    BY <1>3, <1>5 DEF Tail9, trimmed
  <2>2. Zulu \in Nat
    BY DEF Zulu
  <2>. HIDE DEF Zulu
  <2>3. Text(t) = <<a, b>> \o <<Zulu>>
    BY <1>4, <2>1
  <2>4. /\ Text(t) \in Seq(Nat) /\ Len(Text(t)) = 3
        /\ Text(t)[1] = a /\ Text(t)[2] = b /\ Text(t)[3] = Zulu
    BY <1>2, <2>2, <2>3
  <2>. QED BY <1>5, <2>4 DEF WrittenAs, a, b
<1>6. CASE w > 0
  <2>1. Tail9(t.fraction) = <<Point>> \o trimmed \o <<Zulu>>
    BY <1>3, <1>6 DEF Tail9, trimmed
  <2>2. Point \in Nat /\ Zulu \in Nat
    BY DEF Point, Zulu
  <2>. HIDE DEF Point, Zulu
  <2>. DEFINE tail == Tail9(t.fraction)
  <2>3. /\ tail \in Seq(Nat) /\ Len(tail) = w + 2
        /\ tail[1] = Point /\ tail[w + 2] = Zulu
        /\ \A n \in 1..w : tail[n + 1] = trimmed[n]
    BY <1>3, <2>1, <2>2
  <2>. HIDE DEF tail
  <2>4. Text(t) = <<a, b>> \o tail
    BY <1>4 DEF tail
  <2>5. /\ Text(t) \in Seq(Nat) /\ Len(Text(t)) = w + 4
        /\ Text(t)[1] = a /\ Text(t)[2] = b
        /\ \A n \in 1..(w + 2) : Text(t)[n + 2] = tail[n]
    BY <1>2, <2>3, <2>4
  <2>6. \A n \in 1..w : Text(t)[n + 3] = Digit(t.fraction[n])
    <3>. SUFFICES ASSUME NEW n \in 1..w
                  PROVE  Text(t)[n + 3] = Digit(t.fraction[n])
      OBVIOUS
    <3>1. n + 1 \in 1..(w + 2) /\ (n + 1) + 2 = n + 3
      OBVIOUS
    <3>2. Text(t)[(n + 1) + 2] = tail[n + 1] /\ tail[n + 1] = trimmed[n]
      BY <2>3, <2>5, <3>1
    <3>. QED BY <1>3, <3>1, <3>2
  <2>7. Text(t)[3] = Point /\ Text(t)[w + 4] = Zulu
    BY <1>6, <2>3, <2>5
  <2>. QED BY <1>6, <2>5, <2>6, <2>7 DEF WrittenAs, a, b
<1>. QED BY <1>5, <1>6

(* Texts are ordered by the first character in which they differ.          *)
LEMMA FirstDifferenceDecides ==
    ASSUME NEW x \in Seq(Nat), NEW y \in Seq(Nat), NEW m \in Nat \ {0},
           m <= Len(x), m <= Len(y),
           \A n \in 1..(m - 1) : x[n] = y[n], x[m] < y[m]
    PROVE  TextBefore(x, y) /\ ~TextBefore(y, x)
<1>1. TextBefore(x, y)
  BY DEF TextBefore
<1>2. ASSUME NEW n \in 1..Len(x), \A k \in 1..(n - 1) : k <= Len(y) /\ y[k] = x[k],
             n > Len(y) \/ y[n] < x[n]
      PROVE  FALSE
  <2>1. x[m] \in Nat /\ y[m] \in Nat
    OBVIOUS
  <2>2. CASE n < m
    <3>1. n \in 1..(m - 1) /\ n <= Len(y) /\ x[n] = y[n] /\ x[n] \in Nat
      BY <2>2
    <3>. QED BY <1>2, <3>1
  <2>3. CASE n = m
    BY <1>2, <2>1, <2>3
  <2>4. CASE n > m
    <3>1. y[m] = x[m]
      BY <1>2, <2>4
    <3>. QED BY <2>1, <3>1
  <2>. QED BY <2>2, <2>3, <2>4
<1>. QED BY <1>1, <1>2 DEF TextBefore

(* Of two instants with different seconds the earlier has the lesser text. *)
LEMMA SecondDecides ==
    ASSUME NEW s \in Instant, NEW t \in Instant, s.second < t.second
    PROVE  TextBefore(Text(s), Text(t)) /\ ~TextBefore(Text(t), Text(s))
<1>1. PICK v \in 0..FractionDigits : Digits(s, v)
  BY FractionIsTrimmed
<1>2. PICK w \in 0..FractionDigits : Digits(t, w)
  BY FractionIsTrimmed
<1>3. /\ WrittenAs(s, v) /\ Text(s) \in Seq(Nat)
      /\ WrittenAs(t, w) /\ Text(t) \in Seq(Nat)
  BY <1>1, <1>2, TextIsWritten
<1>4. Len(Text(s)) >= 3 /\ Len(Text(t)) >= 3
  <2>1. FractionDigits \in Nat
    BY TimesAssumption
  <2>2. /\ v = 0 => Len(Text(s)) = 3
        /\ v > 0 => Len(Text(s)) = v + 4
        /\ w = 0 => Len(Text(t)) = 3
        /\ w > 0 => Len(Text(t)) = w + 4
    BY <1>3, Zenon DEF WrittenAs
  <2>3. \A n \in Nat : n = 0 \/ (n > 0 /\ n + 4 >= 3)
    OBVIOUS
  <2>4. v \in Nat /\ w \in Nat
    BY <2>1
  <2>5. /\ v = 0 \/ (v > 0 /\ v + 4 >= 3)
        /\ w = 0 \/ (w > 0 /\ w + 4 >= 3)
    BY <2>3, <2>4
  <2>6. 3 >= 3
    OBVIOUS
  <2>. QED BY <2>2, <2>5, <2>6, Zenon
<1>5. \A a, b \in 0..59 :
         a < b => a \div 10 < b \div 10 \/ (a \div 10 = b \div 10 /\ a % 10 < b % 10)
  OBVIOUS
<1>6. s.second \in 0..59 /\ t.second \in 0..59
  BY DEF Instant
<1>7. \A a \in 0..59 : a \div 10 \in 0..5 /\ a % 10 \in 0..9
  OBVIOUS
<1>8. /\ s.second \div 10 \in 0..5 /\ s.second % 10 \in 0..9
      /\ t.second \div 10 \in 0..5 /\ t.second % 10 \in 0..9
  BY <1>6, <1>7
<1>9. \/ Text(s)[1] < Text(t)[1]
      \/ Text(s)[1] = Text(t)[1] /\ Text(s)[2] < Text(t)[2]
  <2>1. \/ s.second \div 10 < t.second \div 10
        \/ s.second \div 10 = t.second \div 10 /\ s.second % 10 < t.second % 10
    BY <1>5, <1>6
  <2>2. /\ Text(s)[1] = 48 + (s.second \div 10) /\ Text(s)[2] = 48 + (s.second % 10)
        /\ Text(t)[1] = 48 + (t.second \div 10) /\ Text(t)[2] = 48 + (t.second % 10)
    BY <1>3 DEF WrittenAs, Digit
  <2>3. \A a, b, c, d \in 0..9 :
           a < b \/ (a = b /\ c < d) => 48 + a < 48 + b \/ (48 + a = 48 + b /\ 48 + c < 48 + d)
    OBVIOUS
  <2>. QED BY <1>8, <2>1, <2>2, <2>3
<1>10. CASE Text(s)[1] < Text(t)[1]
  <2>. DEFINE m == 1
  <2>1. /\ m \in Nat \ {0} /\ m <= Len(Text(s)) /\ m <= Len(Text(t))
        /\ \A n \in 1..(m - 1) : Text(s)[n] = Text(t)[n]
        /\ Text(s)[m] < Text(t)[m]
    BY <1>3, <1>4, <1>10
  <2>. HIDE DEF m
  <2>. QED BY <1>3, <2>1, FirstDifferenceDecides
<1>11. CASE Text(s)[1] = Text(t)[1] /\ Text(s)[2] < Text(t)[2]
  <2>. DEFINE m == 2
  <2>1. /\ m \in Nat \ {0} /\ m <= Len(Text(s)) /\ m <= Len(Text(t))
        /\ \A n \in 1..(m - 1) : Text(s)[n] = Text(t)[n]
        /\ Text(s)[m] < Text(t)[m]
    BY <1>3, <1>4, <1>11
  <2>. HIDE DEF m
  <2>. QED BY <1>3, <2>1, FirstDifferenceDecides
<1>. QED BY <1>9, <1>10, <1>11

(* At the first digit in which two fractions of one second differ, the     *)
(* smaller one, s, either goes on or has no digit left but zeros.          *)
LEMMA FractionDecides ==
    ASSUME NEW s \in Instant, NEW t \in Instant, s.second = t.second,
           NEW k \in 1..FractionDigits, s.fraction[k] < t.fraction[k],
           \A n \in 1..(k - 1) : s.fraction[n] = t.fraction[n],
           NEW v \in 0..FractionDigits, Digits(s, v)
    PROVE  /\ k <= v => TextBefore(Text(s), Text(t)) /\ ~TextBefore(Text(t), Text(s))
           /\ k > v => TextBefore(Text(t), Text(s)) /\ ~TextBefore(Text(s), Text(t))
<1>. DEFINE f == s.fraction
            g == t.fraction
<1>1. PICK w \in 0..FractionDigits : Digits(t, w)
  BY FractionIsTrimmed
<1>2. /\ WrittenAs(s, v) /\ Text(s) \in Seq(Nat)
      /\ WrittenAs(t, w) /\ Text(t) \in Seq(Nat)
  BY <1>1, TextIsWritten
<1>3. f \in [1..FractionDigits -> 0..9] /\ g \in [1..FractionDigits -> 0..9]
      /\ FractionDigits \in Nat
  BY TimesAssumption DEF Instant
<1>4. k <= w /\ w > 0
  <2>1. g[k] # 0
    <3>1. f[k] \in 0..9 /\ g[k] \in 0..9
      BY <1>3
    <3>2. f[k] < g[k]
      OBVIOUS
    <3>. HIDE DEF f, g
    <3>. QED BY <3>1, <3>2
  <2>. QED BY <1>1, <1>3, <2>1 DEF Digits
<1>5. /\ Len(Text(t)) = w + 4
      /\ Text(t)[3] = Point /\ \A n \in 1..w : Text(t)[n + 3] = Digit(g[n])
  BY <1>2, <1>4 DEF WrittenAs
<1>6. Text(s)[1] = Text(t)[1] /\ Text(s)[2] = Text(t)[2]
  BY <1>2 DEF WrittenAs
<1>7. CASE k <= v
  <2>1. /\ Len(Text(s)) = v + 4
        /\ Text(s)[3] = Point /\ \A n \in 1..v : Text(s)[n + 3] = Digit(f[n])
    <3>1. v > 0
      BY <1>7
    <3>. QED BY <1>2, <3>1 DEF WrittenAs
  <2>2. k + 3 <= Len(Text(s)) /\ k + 3 <= Len(Text(t)) /\ k + 3 \in Nat \ {0}
    BY <1>4, <1>5, <1>7, <2>1
  <2>3. ASSUME NEW n \in 1..((k + 3) - 1)
        PROVE  Text(s)[n] = Text(t)[n]
    <3>1. CASE n \in 1..3
      <4>1. n = 1 \/ n = 2 \/ n = 3
        BY <3>1
      <4>. QED BY <1>5, <1>6, <2>1, <4>1
    <3>2. CASE n > 3
      <4>1. n - 3 \in 1..v /\ n - 3 \in 1..w /\ n - 3 \in 1..(k - 1) /\ (n - 3) + 3 = n
        BY <1>4, <1>7, <3>2
      <4>2. Text(s)[(n - 3) + 3] = Digit(f[n - 3]) /\ Text(t)[(n - 3) + 3] = Digit(g[n - 3])
        BY <1>5, <2>1, <4>1
      <4>. QED BY <4>1, <4>2
    <3>. QED BY <3>1, <3>2
  <2>4. Text(s)[k + 3] < Text(t)[k + 3]
    <3>1. Text(s)[k + 3] = Digit(f[k]) /\ Text(t)[k + 3] = Digit(g[k])
      BY <1>4, <1>5, <1>7, <2>1
    <3>2. f[k] < g[k]
      OBVIOUS
    <3>. HIDE DEF f, g
    <3>3. f[k] \in Nat /\ g[k] \in Nat
      BY <1>3
    <3>. QED BY <3>1, <3>2, <3>3 DEF Digit
  <2>. DEFINE m == k + 3
  <2>5. /\ m \in Nat \ {0} /\ m <= Len(Text(s)) /\ m <= Len(Text(t))
        /\ \A n \in 1..(m - 1) : Text(s)[n] = Text(t)[n]
        /\ Text(s)[m] < Text(t)[m]
    BY <2>2, <2>3, <2>4
  <2>. HIDE DEF m
  <2>. QED BY <1>2, <1>7, <2>5, FirstDifferenceDecides
<1>8. CASE k > v /\ v = 0
  <2>. DEFINE m == 3
  <2>1. Len(Text(s)) = 3 /\ Text(s)[3] = Zulu
    BY <1>2, <1>8 DEF WrittenAs
  <2>2. \A n \in 1..(m - 1) : n = 1 \/ n = 2
    OBVIOUS
  <2>3. /\ m \in Nat \ {0} /\ m <= Len(Text(t)) /\ m <= Len(Text(s))
        /\ \A n \in 1..(m - 1) : Text(t)[n] = Text(s)[n]
        /\ Text(t)[m] < Text(s)[m]
    BY <1>4, <1>5, <1>6, <2>1, <2>2 DEF Point, Zulu
  <2>. HIDE DEF m
  <2>. QED BY <1>2, <1>8, <2>3, FirstDifferenceDecides
<1>9. CASE k > v /\ v > 0
  <2>. DEFINE m == v + 4
  <2>1. /\ Len(Text(s)) = m /\ Text(s)[3] = Point /\ Text(s)[m] = Zulu
        /\ \A n \in 1..v : Text(s)[n + 3] = Digit(f[n])
    BY <1>2, <1>9 DEF WrittenAs
  <2>2. ASSUME NEW n \in 1..(m - 1)
        PROVE  Text(t)[n] = Text(s)[n]
    <3>1. CASE n \in 1..3
      <4>1. n = 1 \/ n = 2 \/ n = 3
        BY <3>1
      <4>. QED BY <1>5, <1>6, <2>1, <4>1
    <3>2. CASE n > 3
      <4>1. n - 3 \in 1..v /\ n - 3 \in 1..w /\ n - 3 \in 1..(k - 1) /\ (n - 3) + 3 = n
        BY <1>4, <1>9, <3>2
      <4>2. Text(s)[(n - 3) + 3] = Digit(f[n - 3]) /\ Text(t)[(n - 3) + 3] = Digit(g[n - 3])
        BY <1>5, <2>1, <4>1
      <4>. QED BY <4>1, <4>2
    <3>. QED BY <3>1, <3>2
  <2>3. Text(t)[m] < Text(s)[m]
    <3>1. v + 1 \in 1..w /\ v + 1 \in 1..FractionDigits /\ m = (v + 1) + 3
      BY <1>3, <1>4, <1>9
    <3>2. Text(t)[m] = Digit(g[v + 1]) /\ g[v + 1] \in 0..9
      BY <1>3, <1>5, <3>1
    <3>3. Digit(g[v + 1]) < Zulu
      BY <3>2 DEF Digit, Zulu
    <3>. QED BY <2>1, <3>2, <3>3
  <2>4. m \in Nat \ {0} /\ m <= Len(Text(t)) /\ m <= Len(Text(s))
    BY <1>4, <1>5, <1>9, <2>1
  <2>. HIDE DEF m
  <2>. QED BY <1>2, <1>9, <2>2, <2>3, <2>4, FirstDifferenceDecides
<1>. QED BY <1>7, <1>8, <1>9

(* What the database finds for an instant that a row holds and one that    *)
(* the query binds is TextOrderIsTimeOrder.                                *)
LEMMA AnswerIsTimeOrder ==
    ASSUME NEW s \in Instant, NEW t \in Instant
    PROVE  LET yes == ~TextBefore(Text(t), Text(s))
               begins(x, y) == \A n \in DOMAIN Trimmed(x.fraction) : x.fraction[n] = y.fraction[n]
           IN IF s.second # t.second THEN yes <=> s.second < t.second
              ELSE yes <=> \/ s = t
                           \/ Before(s, t) /\ ~begins(s, t)
                           \/ Before(t, s) /\ begins(t, s)
<1>. DEFINE f == s.fraction
            g == t.fraction
            yes == ~TextBefore(Text(t), Text(s))
            begins(x, y) == \A n \in DOMAIN Trimmed(x.fraction) : x.fraction[n] = y.fraction[n]
<1>1. /\ s.second \in 0..59 /\ t.second \in 0..59
      /\ f \in [1..FractionDigits -> 0..9] /\ g \in [1..FractionDigits -> 0..9]
      /\ FractionDigits \in Nat
  BY TimesAssumption DEF Instant
<1>2. CASE s.second # t.second
  <2>1. CASE s.second < t.second
    BY <2>1, SecondDecides
  <2>2. CASE t.second < s.second
    BY <1>1, <2>2, SecondDecides
  <2>3. s.second < t.second \/ t.second < s.second
    <3>. DEFINE a == s.second
                b == t.second
    <3>1. a \in 0..59 /\ b \in 0..59 /\ a # b
      BY <1>1, <1>2
    <3>2. a < b \/ b < a
      <4>. HIDE DEF a, b
      <4>. QED BY <3>1
    <3>. QED BY <3>2
  <2>. QED BY <2>1, <2>2, <2>3
<1>3. CASE s = t
  <2>1. PICK v \in 0..FractionDigits : Digits(s, v)
    BY FractionIsTrimmed
  <2>2. Text(s) \in Seq(Nat)
    BY <2>1, TextIsWritten
  <2>3. ~TextBefore(Text(s), Text(s))
    <3>1. \A n \in 1..Len(Text(s)) : n <= Len(Text(s)) /\ ~(Text(s)[n] < Text(s)[n])
      BY <2>2
    <3>. QED BY <2>2, <3>1 DEF TextBefore
  <2>. QED BY <1>3, <2>3
<1>4. CASE s.second = t.second /\ s # t
  <2>1. PICK k \in 1..FractionDigits : f[k] # g[k] /\ \A n \in 1..(k - 1) : f[n] = g[n]
    <3>. DEFINE D == {n \in 1..FractionDigits : f[n] # g[n]}
    <3>1. D # {} /\ D \in SUBSET Nat
      <4>1. f # g
        BY <1>4 DEF Instant
      <4>. QED BY <1>1, <4>1
    <3>2. PICK k \in D : \A n \in D : k <= n
      <4>. HIDE DEF D
      <4>. QED BY <3>1, LeastNatural
    <3>3. ASSUME NEW n \in 1..(k - 1) PROVE f[n] = g[n]
      BY <1>1, <3>2
    <3>. QED BY <3>2, <3>3
  <2>2. /\ f[k] \in 0..9 /\ g[k] \in 0..9
        /\ \A n \in 1..FractionDigits : f[n] \in 0..9 /\ g[n] \in 0..9
    BY <1>1
  <2>3. PICK v \in 0..FractionDigits : Digits(s, v)
    BY FractionIsTrimmed
  <2>4. PICK w \in 0..FractionDigits : Digits(t, w)
    BY FractionIsTrimmed
  <2>5. /\ begins(s, t) <=> \A n \in 1..v : f[n] = g[n]
        /\ begins(t, s) <=> \A n \in 1..w : g[n] = f[n]
    BY <2>3, <2>4 DEF Digits
  <2>6. CASE f[k] < g[k]
    <3>1. Before(s, t)
      BY <1>4, <2>1, <2>6 DEF Before, FractionBefore
    <3>2. ~FractionBefore(g, f)
      <4>. SUFFICES ASSUME NEW n \in 1..FractionDigits, g[n] < f[n],
                           \A m \in 1..(n - 1) : g[m] = f[m]
                    PROVE  FALSE
        BY DEF FractionBefore
      <4>1. ~(n < k)
        BY <2>1, <2>2
      <4>2. ~(k < n)
        BY <2>1
      <4>. QED BY <2>2, <2>6, <4>1, <4>2
    <3>3. ~Before(t, s)
      <4>1. ~(t.second < s.second)
        <5>. DEFINE n == s.second
        <5>1. n \in 0..59 /\ t.second = n
          BY <1>1, <1>4
        <5>2. ~(n < n)
          <6>. HIDE DEF n
          <6>. QED BY <5>1
        <5>. QED BY <5>1, <5>2
      <4>. QED BY <3>2, <4>1 DEF Before
    <3>4. begins(s, t) <=> k > v
      <4>1. f[k] < g[k] /\ k <= v => ~begins(s, t)
        BY <2>1, <2>5
      <4>2. k > v => begins(s, t)
        BY <2>1, <2>5
      <4>. QED BY <2>6, <4>1, <4>2
    <3>5. yes <=> ~(k > v)
      BY <1>4, <2>1, <2>3, <2>6, FractionDecides
    <3>. QED BY <1>4, <3>1, <3>3, <3>4, <3>5
  <2>7. CASE g[k] < f[k]
    <3>1. Before(t, s)
      BY <1>4, <2>1, <2>7 DEF Before, FractionBefore
    <3>2. ~FractionBefore(f, g)
      <4>. SUFFICES ASSUME NEW n \in 1..FractionDigits, f[n] < g[n],
                           \A m \in 1..(n - 1) : f[m] = g[m]
                    PROVE  FALSE
        BY DEF FractionBefore
      <4>1. ~(n < k)
        BY <2>1, <2>2
      <4>2. ~(k < n)
        BY <2>1
      <4>. QED BY <2>2, <2>7, <4>1, <4>2
    <3>3. ~Before(s, t)
      <4>1. ~(s.second < t.second)
        <5>. DEFINE n == s.second
        <5>1. n \in 0..59 /\ t.second = n
          BY <1>1, <1>4
        <5>2. ~(n < n)
          <6>. HIDE DEF n
          <6>. QED BY <5>1
        <5>. QED BY <5>1, <5>2
      <4>. QED BY <3>2, <4>1 DEF Before
    <3>4. begins(t, s) <=> k > w
      <4>1. g[k] < f[k] /\ k <= w => ~begins(t, s)
        BY <2>1, <2>5
      <4>2. k > w => begins(t, s)
        BY <2>1, <2>5
      <4>. QED BY <2>7, <4>1, <4>2
    <3>5. yes <=> k > w
      BY <1>4, <2>1, <2>4, <2>7, FractionDecides
    <3>. QED BY <1>4, <3>1, <3>3, <3>4, <3>5
  <2>. QED BY <2>1, <2>2, <2>6, <2>7
<1>. QED BY <1>2, <1>3, <1>4

(* TextOrderIsTimeOrder: what the database finds due is due up to the      *)
(* fraction of a second, whatever the instants and however many digits a   *)
(* fraction has.                                                           *)
THEOREM TextOrderIsTimeOrderHolds == TimesSpec => []TextOrderIsTimeOrder
<1>. DEFINE IInv == due \in Instants /\ now \in Instants /\ TextOrderIsTimeOrder
<1>1. TimesInit => IInv
  BY DEF TimesInit, TextOrderIsTimeOrder
<1>2. IInv /\ [TimesNext]_timesVars => IInv'
  <2>. SUFFICES ASSUME IInv, [TimesNext]_timesVars PROVE IInv'
    OBVIOUS
  <2>1. CASE AskDatabase
    <3>1. /\ due' = due /\ now' = now /\ due \in Instant /\ now \in Instant
          /\ passed' = (IF TextBefore(Text(now), Text(due)) THEN "no" ELSE "yes")
      BY <2>1, TimesAssumption DEF AskDatabase, Instant
    <3>2. passed' = "yes" <=> ~TextBefore(Text(now), Text(due))
      BY <3>1
    <3>3. TextOrderIsTimeOrder'
      BY <3>1, <3>2, AnswerIsTimeOrder DEF TextOrderIsTimeOrder
    <3>. QED BY <3>1, <3>3
  <2>2. CASE UNCHANGED timesVars
    BY <2>2 DEF timesVars, TextOrderIsTimeOrder
  <2>. QED BY <2>1, <2>2 DEF TimesNext
<1>. QED BY <1>1, <1>2, PTL DEF TimesSpec

-------------------------------------------------------------------------------
(* The attempts of the model analyzer.                                     *)

(* Of what the model is told to answer only the type part_time is refused. *)
LEMMA OnlyPartTimeIsRefused ==
    ASSUME NEW a, InContract(a), ~Valid(a)
    PROVE  a.type = "part_time"
<1>1. a.type \in SchemaTypes /\ a.type \notin OpportunityTypes
  BY DEF InContract, Valid
<1>. QED BY <1>1 DEF SchemaTypes, OpportunityTypes

(* Where the attempts are, and what the last one left.                     *)
AnalyzerInv ==
    /\ attempts \in 0..MaxAttempts
    /\ phase \in {"called", "calling", "waiting", "done", "failed"}
    /\ phase = "called" => attempts = 0
    /\ phase = "waiting" => attempts # MaxAttempts
    /\ error = "validation" => ~Valid(answer)
    /\ FailsOnlySo

(* FailsOnlySo: an analysis is given up for these reasons only, whatever   *)
(* the providers and the model answer and however many attempts there are. *)
THEOREM AnalysisFailsOnlySo ==
    ASSUME MaxAttempts \in Nat \ {0}
    PROVE  Spec => []FailsOnlySo
<1>1. Init => AnalyzerInv
  BY DEF Init, AnalyzerInv, FailsOnlySo
<1>2. AnalyzerInv /\ [Next]_vars => AnalyzerInv'
  <2>. SUFFICES ASSUME AnalyzerInv, [Next]_vars
                PROVE  AnalyzerInv'
    OBVIOUS
  <2>1. CASE Start
    BY <2>1 DEF AnalyzerInv, FailsOnlySo, Start
  <2>2. CASE RetryNow
    BY <2>2 DEF AnalyzerInv, FailsOnlySo, RetryNow
  <2>3. CASE WaitCancelled
    BY <2>3 DEF AnalyzerInv, FailsOnlySo, WaitCancelled
  <2>4. CASE Cancel
    BY <2>4 DEF AnalyzerInv, FailsOnlySo, Cancel
  <2>5. ASSUME NEW reply \in Replies, ProviderFails(reply)
        PROVE  AnalyzerInv'
    <3>1. ReplyError(reply) \in {"temporary", "permanent", "none"}
      BY DEF ReplyError, GoogleError, OpenRouterError
    <3>2. error' \in {"temporary", "permanent"}
      BY <2>5, <3>1 DEF ProviderFails, AttemptFails
    <3>. QED BY <2>5, <3>2 DEF AnalyzerInv, FailsOnlySo, ProviderFails, AttemptFails
  <2>6. ASSUME NEW reply \in Replies, NEW a \in Answers, ModelAnswers(reply, a)
        PROVE  AnalyzerInv'
    <3>1. CASE Valid(a)
      BY <2>6, <3>1 DEF AnalyzerInv, FailsOnlySo, ModelAnswers
    <3>2. CASE ~Valid(a)
      <4>1. /\ answer' = a /\ error' = "validation"
            /\ ~Valid(answer') /\ (InContract(answer') => answer'.type = "part_time")
        BY <2>6, <3>2, OnlyPartTimeIsRefused DEF ModelAnswers, AttemptFails
      <4>. QED BY <2>6, <3>2, <4>1 DEF AnalyzerInv, FailsOnlySo, ModelAnswers, AttemptFails
    <3>. QED BY <3>1, <3>2
  <2>7. CASE UNCHANGED vars
    BY <2>7 DEF vars, AnalyzerInv, FailsOnlySo
  <2>. QED BY <2>1, <2>2, <2>3, <2>4, <2>5, <2>6, <2>7 DEF Next
<1>3. AnalyzerInv => FailsOnlySo
  BY DEF AnalyzerInv
<1>. QED BY <1>1, <1>2, <1>3, PTL DEF Spec
================================================================================
