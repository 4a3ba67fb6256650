---------------------------- MODULE MCAnalysisPipeline ----------------------------
(* AnalysisPipeline on a small instance: the first source lists one or two *)
(* listings, the second source one.                                        *)
EXTENDS AnalysisPipeline, TLC

CONSTANTS l1, l2, l3

(* Both sources are scanned; or the second is disabled; or it is scanned   *)
(* though its company is tracked by hand.                                  *)
SomeConfigurations ==
    {[enabled |-> {1, 2}, byHand |-> {}], [enabled |-> {1}, byHand |-> {}],
     [enabled |-> {1, 2}, byHand |-> {2}]}

ListedBy == [l \in Listings |-> IF l = l3 THEN 2 ELSE 1]
================================================================================
