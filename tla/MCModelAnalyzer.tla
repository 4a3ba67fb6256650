---------------------------- MODULE MCModelAnalyzer ----------------------------
EXTENDS ModelAnalyzer

SomeReplies == [status : {0, 200, 400, 429, 503}, choices : 0..1, slashed : BOOLEAN]
SomeAnswers ==
    [complete : BOOLEAN, inRange : BOOLEAN, type : {"staj", "part_time", "diger", "bootcamp"},
     eligibility : {"uygun", "karar_bekliyor"}, needsDecision : BOOLEAN, question : BOOLEAN]
================================================================================
