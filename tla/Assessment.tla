------------------------------- MODULE Assessment -------------------------------
(***************************************************************************)
(* How an analysed listing gets its layer: the score and the layer of      *)
(* internal/matching/scorer.go, the promotion of listings from trusted     *)
(* sources in internal/store/notification_gate.go, what the store accepts  *)
(* (normalizedAssessment) and what becomes a notification                  *)
(* (internal/domain/notification.go).  Scans and retries call Assess       *)
(* without a trust level and leave the promotion to the store.             *)
(*                                                                         *)
(* An analysis is a record: type, open, relevant, eligibility, confidence  *)
(* (in hundredths), areas (how many of the candidate's focus areas it      *)
(* names), place, remoteWork, classMet and gpaMet (no requirement, or one  *)
(* the candidate meets).  A place is what the code asks of its text: is it *)
(* stated, one of the candidate's, remote, in Turkey.                      *)
(***************************************************************************)
EXTENDS Integers, Domain

CONSTANTS SummerOtherCities,  \* LocationPreferences.SummerOtherCities
          Analyses,           \* the answers of the model
          SourceTrusts,       \* trust levels of sources
          NotAssessed

NotificationThreshold == 80
OpportunityThreshold == 55
RejectedThreshold == 35
MinimumConfidence == 80

TrustLevels == {"official_company", "official_ats", "verified_newsletter",
                "secondary_aggregator", ""}
Layers == {"bildirim", "firsatlar", "incelenecek", "elenen"}

Place == [stated : BOOLEAN, preferred : BOOLEAN, remote : BOOLEAN, domestic : BOOLEAN]
Analysis == [type : OpportunityTypes, open : BOOLEAN, relevant : BOOLEAN,
             eligibility : Eligibilities, confidence : 0..100, areas : Nat,
             place : Place, remoteWork : BOOLEAN, classMet : BOOLEAN, gpaMet : BOOLEAN]

ASSUME ProfileAssumption == SummerOtherCities \in BOOLEAN
ASSUME AnalysesAssumption == Analyses \subseteq Analysis /\ SourceTrusts \subseteq TrustLevels

VARIABLES analysis,    \* the stored analysis of a listing
          sourceTrust, \* the trust level of its source
          assessment,  \* its opportunity's score and layer
          by           \* who wrote them: "nobody", "scan", "reassess"
assessmentVars == <<analysis, sourceTrust, assessment, by>>

-------------------------------------------------------------------------------
(* Operators whose name starts with Bad are deliberate mistakes: no action *)
(* uses them.                                                              *)

NotificationOpportunity(type) == type \in {"staj", "uzun_donem_staj", "part_time_ogrenci"}
TrustedForPush(trust) == trust \in {"official_company", "official_ats", "verified_newsletter"}

(* Two areas are enough for the full score.                                *)
FocusScore(a) == 20 * (IF a.areas > 2 THEN 2 ELSE a.areas)

TypeScore(a) ==
    CASE a.type \in {"staj", "uzun_donem_staj"} -> 25
      [] a.type = "part_time_ogrenci" -> 22
      [] a.type \in {"bootcamp", "hackathon", "yarisma", "universite_sirket_programi"} -> 15
      [] a.type \in {"teknik_etkinlik", "egitim"} -> 10
      [] a.type = "burs" -> 8
      [] OTHER -> 5

LocationScore(a) ==
    IF ~a.place.stated THEN 5
    ELSE IF a.place.preferred THEN 20
    ELSE IF SummerOtherCities THEN 10 ELSE 0

EligibilityScore(a) ==
    IF a.eligibility = "uygun" THEN 10 ELSE IF a.eligibility = "kismen_uygun" THEN 4 ELSE 0

RequirementScore(a) == (IF a.classMet THEN 3 ELSE 0) + (IF a.gpaMet THEN 2 ELSE 0)

Score(a) == FocusScore(a) + TypeScore(a) + LocationScore(a)
            + EligibilityScore(a) + RequirementScore(a)

Abroad(a) == ~a.remoteWork /\ ~a.place.remote /\ ~a.place.domestic

StrongMatch(a, trust) ==
    Score(a) >= NotificationThreshold /\ NotificationOpportunity(a.type) /\ TrustedForPush(trust)

(* Assess: the first rule that applies gives the layer.                    *)
Layer(a, trust) ==
    IF ~a.open \/ Abroad(a) \/ ~a.relevant \/ a.eligibility = "uygun_degil" THEN "elenen"
    ELSE IF a.confidence < MinimumConfidence \/ a.eligibility = "kismen_uygun" THEN "incelenecek"
    ELSE IF StrongMatch(a, trust) THEN "bildirim"
    ELSE IF Score(a) >= OpportunityThreshold THEN "firsatlar"
    ELSE "incelenecek"

Assess(a, trust) ==
    [score |-> Score(a), focus |-> FocusScore(a), type |-> TypeScore(a),
     location |-> LocationScore(a), eligibility |-> EligibilityScore(a),
     requirement |-> RequirementScore(a), visibility |-> Layer(a, trust),
     pushEligible |-> Layer(a, trust) = "bildirim"]

-------------------------------------------------------------------------------
(* The store promotes whatever scores high enough.                         *)
BadPromotable(a, s) ==
    a.confidence >= 80 /\ s.score >= 80 /\ s.visibility \notin {"elenen", "incelenecek"}

(* promotableToNotification.                                               *)
Promotable(a, s) ==
    /\ a.confidence >= 80 /\ s.score >= 80
    /\ s.visibility \notin {"elenen", "incelenecek"}
    /\ NotificationOpportunity(a.type)

(* applyTrustedNotificationLayer.                                          *)
TrustedLayer(a, s, trust) ==
    IF Promotable(a, s) /\ TrustedForPush(trust)
    THEN [s EXCEPT !.visibility = "bildirim", !.pushEligible = TRUE] ELSE s

(* SaveAnalysis: what is stored of an analysis of a source so trusted.     *)
SavedAssessment(a, trust) == TrustedLayer(a, Assess(a, ""), trust)

(* cmd/reassess: the stored analysis is assessed again without a trust     *)
(* level, and ReapplyAssessment does not promote.                          *)
Reassessed(a) == Assess(a, "")

(* normalizedAssessment: what the store refuses to write.                  *)
AcceptedByStore(s) ==
    /\ s.visibility \in Layers
    /\ s.score \in 0..100 /\ s.focus \in 0..40 /\ s.type \in 0..25
    /\ s.location \in 0..20 /\ s.eligibility \in 0..10 /\ s.requirement \in 0..5
    /\ s.score = s.focus + s.type + s.location + s.eligibility + s.requirement

(* NewListingNotification, for a source of one of the two priority groups. *)
Notifies(s) == s.pushEligible /\ s.visibility = "bildirim"

-------------------------------------------------------------------------------
AssessmentInit ==
    /\ analysis \in Analyses /\ sourceTrust \in SourceTrusts
    /\ assessment = NotAssessed /\ by = "nobody"

(* A scan or a retry stores the analysis; a refused assessment leaves the  *)
(* row as it was.                                                          *)
SaveAnalysis ==
    /\ AcceptedByStore(Assess(analysis, ""))
    /\ assessment' = SavedAssessment(analysis, sourceTrust)
    /\ by' = "scan"
    /\ UNCHANGED <<analysis, sourceTrust>>

(* reassess -apply writes what has changed.                                *)
Reassess ==
    /\ assessment # NotAssessed /\ Reassessed(analysis) # assessment
    /\ assessment' = Reassessed(analysis)
    /\ by' = "reassess"
    /\ UNCHANGED <<analysis, sourceTrust>>

AssessmentNext == SaveAnalysis \/ Reassess
AssessmentSpec == AssessmentInit /\ [][AssessmentNext]_assessmentVars

-------------------------------------------------------------------------------
(* The two gates agree: scored without the trust level and promoted by the *)
(* store (applyTrustedNotificationLayer), a listing gets the assessment    *)
(* that scoring with the trust level gives; the store takes every          *)
(* assessment, and a scan leaves no listing without one.                   *)
GatesAgree ==
    /\ AcceptedByStore(Assess(analysis, ""))
    /\ by = "scan" => assessment = Assess(analysis, sourceTrust) /\ AcceptedByStore(assessment)

(* What becomes a notification is an open student position with a strong   *)
(* score, in Turkey or remote, certain enough and from a trusted source,   *)
(* whichever of scan and reassess wrote the assessment last.               *)
NotifiesOnlyStudents ==
    assessment # NotAssessed /\ Notifies(assessment) =>
       /\ NotificationOpportunity(analysis.type) /\ TrustedForPush(sourceTrust)
       /\ analysis.open /\ analysis.relevant /\ ~Abroad(analysis)
       /\ analysis.confidence >= MinimumConfidence /\ Score(analysis) >= NotificationThreshold
       /\ analysis.eligibility \in {"uygun", "karar_bekliyor"}

(* What scores 80 or more and comes from a trusted source is in the layer  *)
(* of notifications (docs/architecture.md:443), whichever of scan and      *)
(* cmd/reassess wrote the assessment last.                                 *)
TrustedMatchesGoToBildirim ==
    assessment # NotAssessed /\ Layer(analysis, sourceTrust) = "bildirim"
       => assessment.visibility = "bildirim"
================================================================================
