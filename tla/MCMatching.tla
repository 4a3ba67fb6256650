------------------------------- MODULE MCMatching -------------------------------
(* A behaviour is about all the listings under one title, which no program *)
(* window has, or about all of them but the last under any title: both at  *)
(* once are more than TLC gets through.  A listing that was never seen has *)
(* a title that nothing reads.                                             *)
EXTENDS MCOpportunities

VARIABLE focus

OneTitle == {t \in Titles : \A q \in Programs : ProgramTitle[q] # t}

Within ==
    \/ focus = "listings" /\ title \in [Listings -> OneTitle]
    \/ focus = "programs" /\ ListingCount \notin Seen

MCInit == Init /\ focus \in {"listings", "programs"} /\ Within /\ title \in [Listings -> OneTitle]
MCNext == Next /\ UNCHANGED focus /\ Within'
MCSpec == MCInit /\ [][MCNext]_<<vars, focus>>
================================================================================
