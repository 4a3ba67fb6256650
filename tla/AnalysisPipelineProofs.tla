------------------------- MODULE AnalysisPipelineProofs -------------------------
(***************************************************************************)
(* Scans, retries, invalidations and crashes, for every number of sources, *)
(* listings, callers and retries and every bound on runs and faults.       *)
(***************************************************************************)
EXTENDS AnalysisPipeline, FiniteSetTheorems, Recursion, TLAPS

TableTypes ==
    /\ analysis \in [Listings -> {"none", "pending", "processed"}]
    /\ answer \in [Listings -> Answers \union {"none"}]
    /\ first \in SUBSET Listings

(* A processed listing was processed once, a pending one that never was    *)
(* awaits a decision.                                                      *)
RowsFit ==
    /\ \A l \in Listings : analysis[l] = "processed" => l \in first
    /\ UnansweredAwaitDecision

(* What the scan of t has done so far: every source behind it is reported  *)
(* as it went, every listing found is analysed, still to do, or has made   *)
(* its source a failed one.                                                *)
ScanFits(t) ==
    /\ scan[t].source \in config.enabled \union {SourceCount + 1}
    /\ scan[t].run \in RunIds /\ runs[scan[t].run] = "running"
    /\ scan[t].phase = "fetching" => scan[t].todo = {} /\ ~scan[t].troubled
    /\ scan[t].phase \in {"storing", "checking", "analysing"} => scan[t].source \in Sources
    /\ scan[t].phase \in {"checking", "analysing"} => scan[t].current \in Listings
    /\ scan[t].failed \subseteq {j \in config.enabled : j < scan[t].source}
    /\ \A j \in config.enabled : j < scan[t].source =>
          /\ j \notin scan[t].failed => j \notin failing
          /\ ~scan[t].unrecorded /\ j \in scan[t].failed => j \in failing
    /\ \A l \in found :
          \/ l \in first \/ l \in scan[t].todo \/ scan[t].troubled \/ scan[t].failed # {}
          \/ scan[t].phase \in {"checking", "analysing"} /\ scan[t].current = l

ScansFit ==
    /\ \A t \in Triggers : ~At(t, "idle") => ScanFits(t)
    /\ lock = Nobody => found = {}

(* Whoever still holds a listing that has been processed holds it since    *)
(* before that.                                                            *)
HoldersFit ==
    \A l \in Listings :
       /\ analysis[l] = "processed"
       /\ (\E t \in Triggers : HeldByScan(t, l)) \/ (\E r \in Retriers : HeldByRetry(r, l))
       => l \in overlapped

(* The inductive invariant.                                                *)
PipelineInv == TypeOK /\ RowsFit /\ ScansFit /\ HoldersFit /\ RunningRowsExplained

(* What is configured are sources.                                         *)
LEMMA ConfiguredSources ==
  ASSUME config \in Configurations
  PROVE  /\ config.enabled \in SUBSET Sources /\ config.byHand \in SUBSET Sources
         /\ \A j \in config.enabled : j \in Nat /\ 1 <= j /\ j < SourceCount + 1
<1>1. config \in [enabled : SUBSET Sources, byHand : SUBSET Sources]
  BY PipelineAssumption DEF Sources
<1>2. SourceCount \in Nat
  BY PipelineAssumption
<1> QED
  BY <1>1, <1>2 DEF Sources

(* After(s) is the next enabled source, if any: it skips none.             *)
LEMMA AfterIsNext ==
  ASSUME config \in Configurations, NEW s \in 0..SourceCount
  PROVE  /\ After(s) \in config.enabled \union {SourceCount + 1}
         /\ After(s) \in 1..(SourceCount + 1) /\ s < After(s)
         /\ \A j \in config.enabled : j < After(s) => j <= s
<1> DEFINE rest == {j \in config.enabled \union {SourceCount + 1} : j > s}
<1>1. SourceCount \in Nat /\ s \in Nat /\ s <= SourceCount
  BY PipelineAssumption
<1>2. \A j \in config.enabled : j \in Nat /\ 1 <= j /\ j < SourceCount + 1
  BY ConfiguredSources
<1>3. rest \in SUBSET Nat /\ SourceCount + 1 \in rest
  BY <1>1, <1>2
<1>4. \E n \in rest : \A j \in rest : n <= j
  <2> HIDE DEF rest
  <2> QED
    BY <1>3, LeastNatural
<1>5. After(s) \in rest /\ \A j \in rest : After(s) <= j
  BY <1>4 DEF After
<1> QED
  BY <1>1, <1>2, <1>5

(* Only whoever holds the slot scans.                                      *)
LEMMA OneScan ==
  ASSUME TypeOK, NEW t \in Triggers, ~At(t, "idle")
  PROVE  lock = t /\ t # Nobody /\ \A q \in Triggers \ {t} : At(q, "idle")
  BY PipelineAssumption DEF TypeOK

(* What a successful analysis writes.                                      *)
LEMMA SavedRows ==
  ASSUME TypeOK, RowsFit, NEW l \in Listings, NEW a \in Answers, Saved(l, a)
  PROVE  /\ TableTypes' /\ RowsFit'
         /\ first' = first \union {l} /\ analysis'[l] = "processed"
         /\ \A o \in Listings \ {l} : analysis'[o] = analysis[o]
<1>1. /\ analysis'[l] = "processed" /\ first' = first \union {l}
      /\ \A o \in Listings \ {l} : analysis'[o] = analysis[o] /\ answer'[o] = answer[o]
      /\ TableTypes'
  BY DEF TypeOK, Saved, TableTypes
<1> QED
  BY <1>1 DEF RowsFit, UnansweredAwaitDecision, Pending, DecisionQueue

(* What a failed analysis writes.                                          *)
LEMMA FailureRows ==
  ASSUME TypeOK, RowsFit, NEW l \in Listings, SavedFailure(l)
  PROVE  /\ TableTypes' /\ RowsFit'
         /\ first' = first /\ analysis'[l] = "pending" /\ overlapped' = overlapped \ {l}
         /\ \A o \in Listings \ {l} : analysis'[o] = analysis[o]
<1>1. /\ analysis'[l] = "pending" /\ answer'[l] = "undecided" /\ first' = first
      /\ \A o \in Listings \ {l} : analysis'[o] = analysis[o] /\ answer'[o] = answer[o]
      /\ TableTypes' /\ overlapped' = overlapped \ {l}
  BY DEF TypeOK, SavedFailure, TableTypes, Answers
<1> QED
  BY <1>1 DEF RowsFit, UnansweredAwaitDecision, Pending, DecisionQueue

(* Rows that are not written stay as they were.                            *)
LEMMA SameRows ==
  ASSUME TypeOK, RowsFit, UNCHANGED tableVars
  PROVE  TableTypes' /\ RowsFit'
  BY DEF TypeOK, TableTypes, RowsFit, UnansweredAwaitDecision, Pending, DecisionQueue, tableVars

(* There are finitely many rows left 'running'.                            *)
LEMMA RunsAreFinite ==
  IsFiniteSet(Running) /\ Cardinality(Running) \in Nat
<1>1. IsFiniteSet(RunIds)
  BY PipelineAssumption, FS_Interval DEF RunIds
<1>2. Running \in SUBSET RunIds
  BY DEF Running
<1> QED
  BY <1>1, <1>2, FS_Subset, FS_CardinalityType

(* A step of the scan of t that keeps the slot.                            *)
LEMMA ScanGoesOn ==
  ASSUME PipelineInv, NEW t \in Triggers, ~At(t, "idle"),
         scan' \in [Triggers -> ScanState], scan'[t].phase # "idle",
         \A q \in Triggers \ {t} : scan'[q] = scan[q],
         UNCHANGED <<config, lock, batch, runs>>, TableTypes', RowsFit', ScanFits(t)', HoldersFit',
         failing' \in SUBSET Sources, faults' \in 0..MaxFaults, faults' >= faults,
         found' \in SUBSET Listings, overlapped' \in SUBSET Listings
  PROVE  PipelineInv'
<1>0. TypeOK /\ RunningRowsExplained /\ lock = t /\ t # Nobody /\ \A q \in Triggers \ {t} : At(q, "idle")
  BY OneScan DEF PipelineInv
<1>1. \A q \in Triggers \ {t} : At(q, "idle")'
  BY <1>0 DEF At
<1>2. TypeOK'
  BY <1>0, <1>1 DEF TypeOK, TableTypes, At
<1>3. ScansFit'
  BY <1>0, <1>1 DEF ScansFit
<1>4. RunningRowsExplained'
  <2>1. Running' = Running
    BY DEF Running
  <2>2. Cardinality(Running) \in Nat /\ faults \in Nat /\ faults' \in Nat
    BY <1>0, RunsAreFinite, PipelineAssumption DEF TypeOK
  <2> QED
    BY <1>0, <2>1, <2>2 DEF RunningRowsExplained
<1> QED
  BY <1>2, <1>3, <1>4 DEF PipelineInv

(* A step of somebody else that leaves the scans and their report alone.   *)
LEMMA OthersGoOn ==
  ASSUME PipelineInv, UNCHANGED <<config, lock, scan, runs, failing, found>>,
         TableTypes', RowsFit', HoldersFit', first \subseteq first',
         batch' \in [Retriers -> SUBSET Listings], overlapped' \in SUBSET Listings,
         faults' \in 0..MaxFaults, faults' >= faults
  PROVE  PipelineInv'
<1>0. TypeOK /\ ScansFit /\ RunningRowsExplained
  BY DEF PipelineInv
<1>1. TypeOK'
  BY <1>0 DEF TypeOK, TableTypes, At
<1>2. ScansFit'
  BY <1>0 DEF ScansFit, ScanFits, At
<1>3. RunningRowsExplained'
  <2>1. Running' = Running
    BY DEF Running
  <2>2. Cardinality(Running) \in Nat /\ faults \in Nat /\ faults' \in Nat
    BY <1>0, RunsAreFinite, PipelineAssumption DEF TypeOK
  <2> QED
    BY <1>0, <2>1, <2>2 DEF RunningRowsExplained
<1> QED
  BY <1>1, <1>2, <1>3 DEF PipelineInv

(* Nothing runs and nothing is stored at the start.                        *)
LEMMA PipelineStarts ==
  ASSUME Init PROVE PipelineInv
<1>1. Idle \in ScanState /\ Idle.phase = "idle"
  BY PipelineAssumption DEF Idle, ScanState
<1>2. TypeOK
  BY <1>1, PipelineAssumption DEF Init, TypeOK, Answers, At
<1>3. RowsFit /\ ScansFit /\ HoldersFit
  BY <1>1 DEF Init, RowsFit, UnansweredAwaitDecision, Pending, ScansFit, At, HoldersFit
<1>4. RunningRowsExplained
  <2>1. Running = {}
    BY DEF Init, Running
  <2> QED
    BY <2>1, FS_EmptySet DEF Init, RunningRowsExplained
<1> QED
  BY <1>2, <1>3, <1>4 DEF PipelineInv

(* A scan is started: it has done nothing yet.                             *)
LEMMA StartSteps ==
  ASSUME PipelineInv, NEW t \in Triggers, StartScan(t)
  PROVE  PipelineInv'
<1>0. TypeOK /\ RowsFit /\ ScansFit /\ HoldersFit /\ RunningRowsExplained
  BY DEF PipelineInv
<1>1. PICK i \in RunIds :
         /\ runs[i] = "none" /\ runs' = [runs EXCEPT ![i] = "running"]
         /\ Goes(t, [Idle EXCEPT !.phase = "fetching", !.run = i, !.source = After(0)])
  BY DEF StartScan
<1>2. /\ At(t, "idle") /\ lock = Nobody /\ lock' = t
      /\ UNCHANGED <<config, tableVars, failing, batch, faults, found, overlapped>>
  BY DEF StartScan
<1> DEFINE new == [Idle EXCEPT !.phase = "fetching", !.run = i, !.source = After(0)]
<1>first. /\ After(0) \in config.enabled \union {SourceCount + 1} /\ After(0) \in 1..(SourceCount + 1)
      /\ \A j \in config.enabled : ~(j < After(0))
  <2>1. SourceCount \in Nat /\ config \in Configurations /\ 0 \in 0..SourceCount
    BY <1>0, PipelineAssumption DEF TypeOK
  <2>2. \A j \in config.enabled : j \in Nat /\ 1 <= j
    BY <2>1, ConfiguredSources
  <2> QED
    BY <2>1, <2>2, AfterIsNext
<1>3. /\ new \in ScanState /\ new.phase = "fetching" /\ new.run = i /\ new.source = After(0)
      /\ new.todo = {} /\ ~new.troubled /\ new.failed = {}
  <2>1. Idle \in ScanState /\ Idle.todo = {} /\ ~Idle.troubled /\ Idle.failed = {}
    BY PipelineAssumption DEF Idle, ScanState
  <2>2. i \in 0..MaxRuns /\ After(0) \in 0..(SourceCount + 1)
    BY <1>first, PipelineAssumption DEF RunIds
  <2> QED
    BY <2>1, <2>2 DEF ScanState
<1>4. scan' = [scan EXCEPT ![t] = new]
  BY <1>1 DEF Goes
<1> HIDE DEF new
<1>5. /\ scan' \in [Triggers -> ScanState] /\ scan'[t] = new
      /\ \A q \in Triggers \ {t} : scan'[q] = scan[q]
  BY <1>0, <1>3, <1>4 DEF TypeOK
<1>6. \A q \in Triggers : At(q, "idle")
  BY <1>0, <1>2, PipelineAssumption DEF TypeOK
<1>7. runs' \in [RunIds -> {"none", "running", "completed", "partial", "failed"}] /\ runs'[i] = "running"
  BY <1>0, <1>1 DEF TypeOK
<1>8. TypeOK'
  BY <1>0, <1>2, <1>3, <1>5, <1>6, <1>7 DEF TypeOK, At, tableVars
<1>9. RowsFit'
  BY <1>0, <1>2, SameRows
<1>10. ScansFit'
  <2>1. found' = {}
    BY <1>0, <1>2 DEF ScansFit
  <2>2. ScanFits(t)'
    BY <1>first, <1>2, <1>3, <1>5, <1>7, <2>1 DEF ScanFits
  <2>3. t # Nobody
    BY PipelineAssumption
  <2> QED
    BY <1>2, <1>5, <1>6, <2>1, <2>2, <2>3 DEF ScansFit, At
<1>11. HoldersFit'
  <2>1. \A q \in Triggers, l \in Listings : ~HeldByScan(q, l)'
    BY <1>3, <1>5, <1>6 DEF HeldByScan, At
  <2> QED
    BY <1>0, <1>2, <2>1 DEF HoldersFit, HeldByRetry, tableVars
<1>12. RunningRowsExplained'
  <2>1. Running' = Running \union {i} /\ i \notin Running
    BY <1>0, <1>1 DEF Running, TypeOK
  <2>2. IsFiniteSet(Running) /\ Cardinality(Running) \in Nat
    BY RunsAreFinite
  <2>3. Cardinality(Running') = Cardinality(Running) + 1
    BY <2>1, <2>2, FS_AddElement
  <2>4. t # Nobody /\ faults \in Nat
    BY <1>0, PipelineAssumption DEF TypeOK
  <2> QED
    BY <1>0, <1>2, <2>2, <2>3, <2>4 DEF RunningRowsExplained
<1> QED
  BY <1>8, <1>9, <1>10, <1>11, <1>12 DEF PipelineInv

(* The steps of a scan that write neither rows nor report.                 *)
LEMMA QuietSteps ==
  ASSUME PipelineInv, NEW t \in Triggers,
         \/ \E ls \in SUBSET Listings : FetchListings(t, ls)
         \/ \E l \in Listings : StoreListing(t, l) \/ StoreFails(t, l)
         \/ CheckListing(t) \/ CheckFails(t) \/ SaveFails(t) \/ Cancel(t)
  PROVE  PipelineInv'
<1>0. /\ TypeOK /\ RowsFit /\ ScansFit /\ HoldersFit /\ scan[t] \in ScanState
      /\ scan \in [Triggers -> ScanState]
  BY DEF PipelineInv, TypeOK
<1>1. /\ ~At(t, "idle")
      /\ UNCHANGED <<config, tableVars, reportVars, lock, batch, faults, overlapped>>
  BY DEF FetchListings, StoreListing, StoreFails, CheckListing, CheckFails, SaveFails, Cancel, At
<1>2. ScanFits(t)
  BY <1>0, <1>1 DEF ScansFit
<1>3. ASSUME NEW ls \in SUBSET Listings, FetchListings(t, ls)
      PROVE  /\ scan' \in [Triggers -> ScanState] /\ scan'[t].phase # "idle"
             /\ \A q \in Triggers \ {t} : scan'[q] = scan[q]
             /\ found' \in SUBSET Listings /\ ScanFits(t)'
             /\ \A l \in Listings : HeldByScan(t, l)' => HeldByScan(t, l) \/ analysis[l] # "processed"
  <2> DEFINE new == [scan[t] EXCEPT !.phase = "storing", !.todo = ls]
  <2>1. /\ new \in ScanState /\ new.phase = "storing" /\ new.todo = ls
        /\ new.run = scan[t].run /\ new.source = scan[t].source /\ new.troubled = scan[t].troubled
        /\ new.failed = scan[t].failed /\ new.unrecorded = scan[t].unrecorded
    BY <1>0 DEF ScanState
  <2>2. /\ scan' = [scan EXCEPT ![t] = new] /\ found' = found \union ls
        /\ scan[t].phase = "fetching" /\ scan[t].source \in Sources
    BY <1>3 DEF FetchListings, Goes, At
  <2> HIDE DEF new
  <2>3. /\ scan' \in [Triggers -> ScanState] /\ scan'[t] = new
        /\ \A q \in Triggers \ {t} : scan'[q] = scan[q]
    BY <1>0, <2>1, <2>2
  <2>4. ScanFits(t)'
    BY <1>1, <1>2, <2>1, <2>2, <2>3 DEF ScanFits, tableVars, reportVars
  <2> QED
    BY <1>0, <2>1, <2>2, <2>3, <2>4 DEF TypeOK, HeldByScan
<1>4. ASSUME NEW l \in Listings, StoreListing(t, l)
      PROVE  /\ scan' \in [Triggers -> ScanState] /\ scan'[t].phase # "idle"
             /\ \A q \in Triggers \ {t} : scan'[q] = scan[q]
             /\ found' \in SUBSET Listings /\ ScanFits(t)'
             /\ \A o \in Listings : HeldByScan(t, o)' => HeldByScan(t, o) \/ analysis[o] # "processed"
  <2> DEFINE new == [scan[t] EXCEPT !.phase = "checking", !.todo = scan[t].todo \ {l}, !.current = l]
  <2>1. /\ new \in ScanState /\ new.phase = "checking" /\ new.todo = scan[t].todo \ {l}
        /\ new.current = l
        /\ new.run = scan[t].run /\ new.source = scan[t].source /\ new.troubled = scan[t].troubled
        /\ new.failed = scan[t].failed /\ new.unrecorded = scan[t].unrecorded
    BY <1>0 DEF ScanState
  <2>2. scan' = [scan EXCEPT ![t] = new] /\ found' = found /\ scan[t].phase = "storing"
    BY <1>4 DEF StoreListing, Goes, At
  <2> HIDE DEF new
  <2>3. /\ scan' \in [Triggers -> ScanState] /\ scan'[t] = new
        /\ \A q \in Triggers \ {t} : scan'[q] = scan[q]
    BY <1>0, <2>1, <2>2
  <2>4. ScanFits(t)'
    BY <1>1, <1>2, <2>1, <2>2, <2>3 DEF ScanFits, tableVars, reportVars
  <2> QED
    BY <1>0, <2>1, <2>2, <2>3, <2>4 DEF TypeOK, HeldByScan
<1>5. ASSUME NEW l \in Listings, StoreFails(t, l)
      PROVE  /\ scan' \in [Triggers -> ScanState] /\ scan'[t].phase # "idle"
             /\ \A q \in Triggers \ {t} : scan'[q] = scan[q]
             /\ found' \in SUBSET Listings /\ ScanFits(t)'
             /\ \A o \in Listings : HeldByScan(t, o)' => HeldByScan(t, o) \/ analysis[o] # "processed"
  <2> DEFINE new == [scan[t] EXCEPT !.todo = scan[t].todo \ {l}, !.troubled = TRUE]
  <2>1. /\ new \in ScanState /\ new.phase = scan[t].phase /\ new.todo = scan[t].todo \ {l}
        /\ new.troubled /\ new.current = scan[t].current
        /\ new.run = scan[t].run /\ new.source = scan[t].source
        /\ new.failed = scan[t].failed /\ new.unrecorded = scan[t].unrecorded
    BY <1>0 DEF ScanState
  <2>2. scan' = [scan EXCEPT ![t] = new] /\ found' = found /\ scan[t].phase = "storing"
    BY <1>5 DEF StoreFails, Goes, At
  <2> HIDE DEF new
  <2>3. /\ scan' \in [Triggers -> ScanState] /\ scan'[t] = new
        /\ \A q \in Triggers \ {t} : scan'[q] = scan[q]
    BY <1>0, <2>1, <2>2
  <2>4. ScanFits(t)'
    BY <1>1, <1>2, <2>1, <2>2, <2>3 DEF ScanFits, tableVars, reportVars
  <2> QED
    BY <1>0, <2>1, <2>2, <2>3, <2>4 DEF TypeOK, HeldByScan
<1>6. ASSUME NEW troubled \in BOOLEAN, NextListing(t, troubled), found' = found,
             scan[t].phase \in {"checking", "analysing"},
             troubled \/ scan[t].current \in first
      PROVE  /\ scan' \in [Triggers -> ScanState] /\ scan'[t].phase # "idle"
             /\ \A q \in Triggers \ {t} : scan'[q] = scan[q]
             /\ found' \in SUBSET Listings /\ ScanFits(t)'
             /\ \A o \in Listings : HeldByScan(t, o)' => HeldByScan(t, o) \/ analysis[o] # "processed"
  <2> DEFINE new == [scan[t] EXCEPT !.phase = "storing", !.current = NoListing,
                                    !.troubled = scan[t].troubled \/ troubled]
  <2>1. /\ new \in ScanState /\ new.phase = "storing" /\ new.todo = scan[t].todo
        /\ new.troubled = (scan[t].troubled \/ troubled)
        /\ new.run = scan[t].run /\ new.source = scan[t].source
        /\ new.failed = scan[t].failed /\ new.unrecorded = scan[t].unrecorded
    BY <1>0 DEF ScanState
  <2>2. scan' = [scan EXCEPT ![t] = new]
    BY <1>6 DEF NextListing, Goes
  <2> HIDE DEF new
  <2>3. /\ scan' \in [Triggers -> ScanState] /\ scan'[t] = new
        /\ \A q \in Triggers \ {t} : scan'[q] = scan[q]
    BY <1>0, <2>1, <2>2
  <2>4. ScanFits(t)'
    BY <1>1, <1>2, <1>6, <2>1, <2>2, <2>3 DEF ScanFits, tableVars, reportVars
  <2> QED
    BY <1>0, <1>6, <2>1, <2>2, <2>3, <2>4 DEF TypeOK, HeldByScan
<1>7. ASSUME Goes(t, [scan[t] EXCEPT !.phase = "analysing"]), found' = found,
             scan[t].phase = "checking", analysis[scan[t].current] # "processed"
      PROVE  /\ scan' \in [Triggers -> ScanState] /\ scan'[t].phase # "idle"
             /\ \A q \in Triggers \ {t} : scan'[q] = scan[q]
             /\ found' \in SUBSET Listings /\ ScanFits(t)'
             /\ \A o \in Listings : HeldByScan(t, o)' => HeldByScan(t, o) \/ analysis[o] # "processed"
  <2> DEFINE new == [scan[t] EXCEPT !.phase = "analysing"]
  <2>1. /\ new \in ScanState /\ new.phase = "analysing" /\ new.todo = scan[t].todo
        /\ new.troubled = scan[t].troubled /\ new.current = scan[t].current
        /\ new.run = scan[t].run /\ new.source = scan[t].source
        /\ new.failed = scan[t].failed /\ new.unrecorded = scan[t].unrecorded
    BY <1>0 DEF ScanState
  <2>2. scan' = [scan EXCEPT ![t] = new]
    BY <1>7 DEF Goes
  <2> HIDE DEF new
  <2>3. /\ scan' \in [Triggers -> ScanState] /\ scan'[t] = new
        /\ \A q \in Triggers \ {t} : scan'[q] = scan[q]
    BY <1>0, <2>1, <2>2
  <2>4. ScanFits(t)'
    BY <1>1, <1>2, <1>7, <2>1, <2>2, <2>3 DEF ScanFits, tableVars, reportVars
  <2> QED
    BY <1>0, <1>7, <2>1, <2>2, <2>3, <2>4 DEF TypeOK, HeldByScan
<1>8. ASSUME Cancel(t)
      PROVE  /\ scan' \in [Triggers -> ScanState] /\ scan'[t].phase # "idle"
             /\ \A q \in Triggers \ {t} : scan'[q] = scan[q]
             /\ found' \in SUBSET Listings /\ ScanFits(t)'
             /\ \A o \in Listings : HeldByScan(t, o)' => HeldByScan(t, o) \/ analysis[o] # "processed"
  <2> DEFINE new == [scan[t] EXCEPT !.cancelled = TRUE]
  <2>1. /\ new \in ScanState /\ new.phase = scan[t].phase /\ new.todo = scan[t].todo
        /\ new.troubled = scan[t].troubled /\ new.current = scan[t].current
        /\ new.run = scan[t].run /\ new.source = scan[t].source
        /\ new.failed = scan[t].failed /\ new.unrecorded = scan[t].unrecorded
    BY <1>0 DEF ScanState
  <2>2. scan' = [scan EXCEPT ![t] = new] /\ found' = found
    BY <1>8 DEF Cancel, Goes
  <2> HIDE DEF new
  <2>3. /\ scan' \in [Triggers -> ScanState] /\ scan'[t] = new
        /\ \A q \in Triggers \ {t} : scan'[q] = scan[q]
    BY <1>0, <2>1, <2>2
  <2>4. ScanFits(t)'
    BY <1>1, <1>2, <2>1, <2>2, <2>3 DEF ScanFits, tableVars, reportVars
  <2> QED
    BY <1>0, <1>1, <2>1, <2>2, <2>3, <2>4 DEF TypeOK, HeldByScan, At
<1>9. /\ scan' \in [Triggers -> ScanState] /\ scan'[t].phase # "idle"
      /\ \A q \in Triggers \ {t} : scan'[q] = scan[q]
      /\ found' \in SUBSET Listings /\ ScanFits(t)'
      /\ \A l \in Listings : HeldByScan(t, l)' => HeldByScan(t, l) \/ analysis[l] # "processed"
  <2>1. CASE CheckListing(t)
    <3>1. scan[t].phase = "checking" /\ found' = found /\ scan[t].current \in Listings
      BY <1>2, <2>1 DEF CheckListing, At, ScanFits
    <3>2. CASE analysis[scan[t].current] = "processed"
      <4>1. NextListing(t, FALSE)
        BY <2>1, <3>2 DEF CheckListing
      <4>2. scan[t].current \in first
        BY <1>0, <3>1, <3>2 DEF RowsFit
      <4> QED
        BY <1>6, <3>1, <4>1, <4>2
    <3>3. CASE analysis[scan[t].current] # "processed"
      <4>1. Goes(t, [scan[t] EXCEPT !.phase = "analysing"])
        BY <2>1, <3>3 DEF CheckListing
      <4> QED
        BY <1>7, <3>1, <3>3, <4>1
    <3> QED
      BY <3>2, <3>3
  <2>2. CASE CheckFails(t) \/ SaveFails(t)
    <3>1. /\ scan[t].phase \in {"checking", "analysing"} /\ found' = found
          /\ NextListing(t, TRUE)
      BY <2>2 DEF CheckFails, SaveFails, At
    <3> QED
      BY <1>6, <3>1
  <2> QED
    BY <1>3, <1>4, <1>5, <1>8, <2>1, <2>2
<1>10. TableTypes' /\ RowsFit'
  BY <1>0, <1>1, SameRows
<1>11. HoldersFit'
  BY <1>0, <1>1, <1>9 DEF HoldersFit, HeldByScan, HeldByRetry, tableVars
<1>12. /\ failing' \in SUBSET Sources /\ faults' \in 0..MaxFaults /\ faults' >= faults
       /\ overlapped' \in SUBSET Listings /\ runs' = runs
  BY <1>0, <1>1, PipelineAssumption DEF TypeOK, reportVars
<1> QED
  BY <1>1, <1>9, <1>10, <1>11, <1>12, ScanGoesOn

(* The scan goes on with the next listing.                                 *)
LEMMA GoingToNextListing ==
  ASSUME TypeOK, NEW t \in Triggers, NEW troubled \in BOOLEAN, NextListing(t, troubled)
  PROVE  /\ scan' \in [Triggers -> ScanState]
         /\ \A q \in Triggers \ {t} : scan'[q] = scan[q]
         /\ scan'[t].phase = "storing" /\ scan'[t].todo = scan[t].todo
         /\ scan'[t].troubled = (scan[t].troubled \/ troubled)
         /\ scan'[t].run = scan[t].run /\ scan'[t].source = scan[t].source
         /\ scan'[t].failed = scan[t].failed /\ scan'[t].unrecorded = scan[t].unrecorded
<1> DEFINE new == [scan[t] EXCEPT !.phase = "storing", !.current = NoListing,
                                  !.troubled = scan[t].troubled \/ troubled]
<1>0. scan \in [Triggers -> ScanState] /\ scan[t] \in ScanState
  BY DEF TypeOK
<1>1. /\ new \in ScanState /\ new.phase = "storing" /\ new.todo = scan[t].todo
      /\ new.troubled = (scan[t].troubled \/ troubled)
      /\ new.run = scan[t].run /\ new.source = scan[t].source
      /\ new.failed = scan[t].failed /\ new.unrecorded = scan[t].unrecorded
  BY <1>0 DEF ScanState
<1>2. scan' = [scan EXCEPT ![t] = new]
  BY DEF NextListing, Goes
<1> HIDE DEF new
<1> QED
  BY <1>0, <1>1, <1>2

(* A listing is analysed by the scan.                                      *)
LEMMA AnalyseSteps ==
  ASSUME PipelineInv, NEW t \in Triggers,
         \/ \E a \in Answers : Analyse(t, a)
         \/ \E recorded \in BOOLEAN : AnalyseFails(t, recorded)
  PROVE  PipelineInv'
<1> DEFINE l == scan[t].current
<1>0. TypeOK /\ RowsFit /\ ScansFit /\ HoldersFit
  BY DEF PipelineInv
<1>1. /\ scan[t].phase = "analysing" /\ ~At(t, "idle")
      /\ UNCHANGED <<config, reportVars, lock, batch, found>>
  BY DEF Analyse, AnalyseFails, At
<1>2. ScanFits(t) /\ l \in Listings /\ lock = t /\ \A q \in Triggers \ {t} : At(q, "idle")
  <2>1. ScanFits(t)
    BY <1>0, <1>1 DEF ScansFit
  <2> QED
    BY <1>0, <1>1, <2>1, OneScan DEF ScanFits
<1>3. CASE \E a \in Answers : Analyse(t, a)
  <2>1. PICK a \in Answers : Analyse(t, a)
    BY <1>3
  <2>2. Saved(l, a) /\ Overlaps(t, l) /\ NextListing(t, FALSE) /\ faults' = faults
    BY <2>1 DEF Analyse
  <2>3. /\ TableTypes' /\ RowsFit' /\ first' = first \union {l}
        /\ \A o \in Listings \ {l} : analysis'[o] = analysis[o]
    BY <1>0, <1>2, <2>2, SavedRows
  <2>4. /\ scan' \in [Triggers -> ScanState]
        /\ \A q \in Triggers \ {t} : scan'[q] = scan[q]
        /\ scan'[t].phase = "storing" /\ scan'[t].todo = scan[t].todo
        /\ scan'[t].troubled = (scan[t].troubled \/ FALSE)
        /\ scan'[t].run = scan[t].run /\ scan'[t].source = scan[t].source
        /\ scan'[t].failed = scan[t].failed /\ scan'[t].unrecorded = scan[t].unrecorded
    BY <1>0, <2>2, GoingToNextListing
  <2>5. ScanFits(t)'
    BY <1>1, <1>2, <2>3, <2>4 DEF ScanFits, reportVars
  <2>6. HoldersFit'
    <3>1. \A q \in Triggers, o \in Listings : ~HeldByScan(q, o)'
      BY <1>2, <2>4 DEF HeldByScan, At
    <3>2. overlapped' = IF \E r \in Retriers : HeldByRetry(r, l)
                        THEN overlapped \union {l} ELSE overlapped \ {l}
      <4>1. t \notin Retriers
        BY PipelineAssumption
      <4>2. \A q \in Triggers \ {t} : ~HeldByScan(q, l)
        BY <1>2 DEF HeldByScan, At
      <4> QED
        BY <2>2, <4>1, <4>2 DEF Overlaps
    <3>3. \A r \in Retriers, o \in Listings : HeldByRetry(r, o)' = HeldByRetry(r, o)
      BY <1>1 DEF HeldByRetry
    <3>4. ASSUME NEW o \in Listings, analysis'[o] = "processed",
                 NEW r \in Retriers, HeldByRetry(r, o)
          PROVE  o \in overlapped'
      BY <1>0, <2>3, <3>2, <3>4 DEF HoldersFit
    <3> QED
      BY <3>1, <3>3, <3>4 DEF HoldersFit
  <2>7. overlapped' \in SUBSET Listings
    BY <1>0, <1>2, <2>2 DEF Overlaps, TypeOK
  <2>8. faults' \in 0..MaxFaults /\ faults' >= faults
    BY <1>0, <2>2, PipelineAssumption DEF TypeOK
  <2>9. failing' \in SUBSET Sources /\ found' \in SUBSET Listings /\ runs' = runs
    BY <1>0, <1>1 DEF TypeOK, reportVars
  <2> QED
    BY <1>1, <2>3, <2>4, <2>5, <2>6, <2>7, <2>8, <2>9, ScanGoesOn
<1>4. CASE \E recorded \in BOOLEAN : AnalyseFails(t, recorded)
  <2>1. PICK recorded \in BOOLEAN : AnalyseFails(t, recorded)
    BY <1>4
  <2>2. /\ IF recorded THEN SavedFailure(l) ELSE UNCHANGED <<tableVars, overlapped>>
        /\ faults' = IF recorded THEN faults ELSE faults + 1
        /\ faults' <= MaxFaults
        /\ NextListing(t, TRUE)
    BY <2>1 DEF AnalyseFails
  <2>3. /\ TableTypes' /\ RowsFit' /\ first' = first
        /\ \A o \in Listings : analysis'[o] = "processed" => analysis[o] = "processed"
        /\ \A o \in Listings : analysis'[o] = "processed" /\ o \in overlapped => o \in overlapped'
        /\ overlapped' \in SUBSET Listings
    <3>1. CASE recorded
      <4>1. SavedFailure(l)
        BY <2>2, <3>1
      <4>2. /\ TableTypes' /\ RowsFit' /\ first' = first /\ analysis'[l] = "pending"
            /\ \A o \in Listings \ {l} : analysis'[o] = analysis[o]
            /\ overlapped' = overlapped \ {l}
        BY <1>0, <1>2, <4>1, FailureRows
      <4> QED
        BY <1>0, <4>2 DEF TypeOK
    <3>2. CASE ~recorded
      BY <1>0, <2>2, <3>2, SameRows DEF tableVars, TypeOK
    <3> QED
      BY <3>1, <3>2
  <2>4. /\ scan' \in [Triggers -> ScanState]
        /\ \A q \in Triggers \ {t} : scan'[q] = scan[q]
        /\ scan'[t].phase = "storing" /\ scan'[t].todo = scan[t].todo
        /\ scan'[t].troubled = (scan[t].troubled \/ TRUE)
        /\ scan'[t].run = scan[t].run /\ scan'[t].source = scan[t].source
        /\ scan'[t].failed = scan[t].failed /\ scan'[t].unrecorded = scan[t].unrecorded
    BY <1>0, <2>2, GoingToNextListing
  <2>5. ScanFits(t)'
    BY <1>1, <1>2, <2>3, <2>4 DEF ScanFits, reportVars
  <2>6. HoldersFit'
    <3>1. \A q \in Triggers, o \in Listings : ~HeldByScan(q, o)'
      BY <1>2, <2>4 DEF HeldByScan, At
    <3>2. \A r \in Retriers, o \in Listings : HeldByRetry(r, o)' = HeldByRetry(r, o)
      BY <1>1 DEF HeldByRetry
    <3> QED
      BY <1>0, <2>3, <3>1, <3>2 DEF HoldersFit
  <2>7. faults' \in 0..MaxFaults /\ faults' >= faults
    BY <1>0, <2>2, PipelineAssumption DEF TypeOK
  <2>8. failing' \in SUBSET Sources /\ found' \in SUBSET Listings /\ runs' = runs
    BY <1>0, <1>1 DEF TypeOK, reportVars
  <2> QED
    BY <1>1, <2>3, <2>4, <2>5, <2>6, <2>7, <2>8, ScanGoesOn
<1> QED
  BY <1>3, <1>4

(* A source is done with: its result is reported and recorded.             *)
LEMMA SourceSteps ==
  ASSUME PipelineInv, NEW t \in Triggers, NEW recorded \in BOOLEAN,
         SourceFails(t, recorded) \/ FinishSource(t, recorded)
  PROVE  PipelineInv'
<1> DEFINE s == scan[t].source
<1>0. /\ TypeOK /\ RowsFit /\ ScansFit /\ HoldersFit /\ scan[t] \in ScanState
      /\ scan \in [Triggers -> ScanState]
  BY DEF PipelineInv, TypeOK
<1>1. /\ ~At(t, "idle") /\ scan[t].phase \in {"fetching", "storing"} /\ scan[t].phase # "analysing"
      /\ UNCHANGED <<config, tableVars, runs, lock, batch, found, overlapped>>
  BY DEF SourceFails, FinishSource, At
<1>2. ScanFits(t)
  BY <1>0, <1>1 DEF ScansFit
<1>3. PICK ok \in BOOLEAN : NextSource(t, ok, recorded) /\ scan[t].todo = {} /\ (ok => ~scan[t].troubled)
  <2>1. CASE SourceFails(t, recorded)
    BY <1>2, <2>1 DEF SourceFails, At, ScanFits
  <2>2. CASE FinishSource(t, recorded)
    <3>1. scan[t].troubled \in BOOLEAN
      BY <1>0 DEF ScanState
    <3> QED
      BY <2>2, <3>1 DEF FinishSource
  <2> QED
    BY <2>1, <2>2
<1>4. s \in Sources /\ s \in config.enabled /\ s \in Nat /\ SourceCount \in Nat
  <2>1. s \in Sources /\ SourceCount \in Nat
    BY <1>2, PipelineAssumption DEF SourceFails, FinishSource, At, ScanFits
  <2>2. s # SourceCount + 1 /\ s \in Nat
    BY <2>1 DEF Sources
  <2> QED
    BY <1>2, <2>1, <2>2 DEF ScanFits
<1>next. /\ After(s) \in config.enabled \union {SourceCount + 1} /\ After(s) \in 1..(SourceCount + 1)
      /\ s < After(s) /\ \A j \in config.enabled : j < After(s) => j <= s
  <2>1. s \in 0..SourceCount /\ config \in Configurations
    BY <1>0, <1>4 DEF Sources, TypeOK
  <2> QED
    BY <2>1, AfterIsNext
<1>nat. \A j \in config.enabled : j \in Nat
  BY <1>0, ConfiguredSources DEF TypeOK
<1> DEFINE failed == IF ok /\ recorded THEN scan[t].failed ELSE scan[t].failed \union {s}
           new == [scan[t] EXCEPT !.phase = "fetching", !.source = After(s), !.troubled = FALSE,
                                  !.failed = failed, !.unrecorded = scan[t].unrecorded \/ ~recorded]
<1>5. /\ new \in ScanState /\ new.phase = "fetching" /\ new.source = After(s) /\ ~new.troubled
      /\ new.failed = failed /\ new.unrecorded = (scan[t].unrecorded \/ ~recorded)
      /\ new.todo = {} /\ new.run = scan[t].run
  <2>1. failed \in SUBSET Sources
    BY <1>0, <1>4 DEF ScanState
  <2>2. After(s) \in 0..(SourceCount + 1)
    BY <1>next, <1>4
  <2> HIDE DEF failed
  <2> QED
    BY <1>0, <1>3, <2>1, <2>2 DEF ScanState
<1>6. /\ scan' = [scan EXCEPT ![t] = new]
      /\ failing' = IF ~recorded THEN failing
                    ELSE IF ok THEN failing \ {s} ELSE failing \union {s}
      /\ faults' = IF recorded THEN faults ELSE faults + 1
      /\ faults' <= MaxFaults
  BY <1>3 DEF NextSource, Goes
<1> HIDE DEF new
<1>7. /\ scan' \in [Triggers -> ScanState] /\ scan'[t] = new
      /\ \A q \in Triggers \ {t} : scan'[q] = scan[q]
  BY <1>0, <1>5, <1>6
<1>8. ScanFits(t)'
  <2>1. scan'[t].source = After(s) /\ scan'[t].failed = failed /\ config' = config
    BY <1>1, <1>5, <1>7
  <2>2. scan[t].failed \subseteq {j \in config.enabled : j < s}
    BY <1>2 DEF ScanFits
  <2>3. failed \subseteq {j \in config.enabled : j < After(s)}
    <3>1. \A j \in config.enabled : j < s => j < After(s)
      BY <1>4, <1>next, <1>nat
    <3> QED
      BY <1>4, <1>next, <2>2, <3>1
  <2>4. ASSUME NEW j \in config.enabled, j < After(s)
        PROVE  /\ j \notin failed => j \notin failing'
               /\ ~scan'[t].unrecorded /\ j \in failed => j \in failing'
    <3>1. CASE j = s
      <4>1. s \notin scan[t].failed
        BY <1>4, <2>2
      <4> QED
        BY <1>5, <1>6, <1>7, <3>1, <4>1
    <3>2. CASE j # s
      <4>1. j < s
        BY <1>4, <1>next, <1>nat, <2>4, <3>2
      <4> QED
        BY <1>2, <1>5, <1>6, <1>7, <3>2, <4>1 DEF ScanFits
    <3> QED
      BY <3>1, <3>2
  <2>6. \A l \in found' : l \in first' \/ failed # {}
    <3>1. \A l \in found : l \in first \/ scan[t].troubled \/ scan[t].failed # {}
      BY <1>1, <1>2, <1>3 DEF ScanFits
    <3> QED
      BY <1>1, <1>3, <3>1 DEF tableVars
  <2>7. \A j \in config'.enabled : j < scan'[t].source =>
           /\ j \notin scan'[t].failed => j \notin failing'
           /\ ~scan'[t].unrecorded /\ j \in scan'[t].failed => j \in failing'
    BY <2>1, <2>4
  <2>8. scan'[t].failed \subseteq {j \in config'.enabled : j < scan'[t].source}
    BY <2>1, <2>3
  <2>9. scan'[t].source \in config'.enabled \union {SourceCount + 1}
    BY <1>next, <2>1
  <2>10. /\ scan'[t].run \in RunIds /\ runs'[scan'[t].run] = "running"
         /\ scan'[t].phase = "fetching" /\ scan'[t].todo = {} /\ ~scan'[t].troubled
    BY <1>1, <1>2, <1>5, <1>7 DEF ScanFits
  <2>11. \A l \in found' : l \in first' \/ scan'[t].failed # {}
    BY <2>1, <2>6
  <2> HIDE DEF failed
  <2> QED
    BY <2>7, <2>8, <2>9, <2>10, <2>11 DEF ScanFits
<1>9. HoldersFit'
  BY <1>0, <1>1, <1>5, <1>7 DEF HoldersFit, HeldByScan, HeldByRetry, tableVars
<1>10. TableTypes' /\ RowsFit'
  BY <1>0, <1>1, SameRows
<1>11. faults' \in 0..MaxFaults /\ faults' >= faults
  BY <1>0, <1>6, PipelineAssumption DEF TypeOK
<1>12. failing' \in SUBSET Sources
  BY <1>0, <1>4, <1>6 DEF TypeOK
<1>13. found' \in SUBSET Listings /\ overlapped' \in SUBSET Listings /\ scan'[t].phase # "idle"
  BY <1>0, <1>1, <1>5, <1>7 DEF TypeOK
<1> QED
  BY <1>1, <1>7, <1>8, <1>9, <1>10, <1>11, <1>12, <1>13, ScanGoesOn

(* The report of a scan is written, or not, and the slot is free.          *)
LEMMA FinishSteps ==
  ASSUME PipelineInv, NEW t \in Triggers, NEW recorded \in BOOLEAN, FinishScan(t, recorded)
  PROVE  PipelineInv'
<1> DEFINE i == scan[t].run
<1>0. /\ TypeOK /\ RowsFit /\ ScansFit /\ HoldersFit /\ RunningRowsExplained
      /\ scan \in [Triggers -> ScanState]
  BY DEF PipelineInv, TypeOK
<1>1. /\ ~At(t, "idle")
      /\ UNCHANGED <<config, tableVars, failing, batch, overlapped>>
      /\ runs' = [runs EXCEPT ![i] = IF recorded THEN Completion(scan[t].failed) ELSE runs[i]]
      /\ faults' = (IF recorded THEN faults ELSE faults + 1) /\ faults' <= MaxFaults
      /\ lock' = Nobody /\ found' = {} /\ scan' = [scan EXCEPT ![t] = Idle]
  BY DEF FinishScan, At, Goes
<1>2. i \in RunIds /\ runs[i] = "running" /\ lock = t /\ t # Nobody
      /\ \A q \in Triggers \ {t} : At(q, "idle")
  BY <1>0, <1>1, OneScan DEF ScansFit, ScanFits
<1>3. Idle \in ScanState /\ Idle.phase = "idle"
  BY PipelineAssumption DEF Idle, ScanState
<1>4. scan' \in [Triggers -> ScanState] /\ \A q \in Triggers : At(q, "idle")'
  BY <1>0, <1>1, <1>2, <1>3 DEF At
<1>5. Completion(scan[t].failed) \in {"completed", "partial", "failed"}
  BY DEF Completion
<1>6. TypeOK'
  <2>1. faults' \in 0..MaxFaults
    BY <1>0, <1>1, PipelineAssumption DEF TypeOK
  <2>2. runs' \in [RunIds -> {"none", "running", "completed", "partial", "failed"}]
    BY <1>0, <1>1, <1>5 DEF TypeOK
  <2>3. \A q \in Triggers : q # Nobody
    BY PipelineAssumption
  <2> QED
    BY <1>0, <1>1, <1>4, <2>1, <2>2, <2>3 DEF TypeOK, tableVars
<1>7. RowsFit'
  BY <1>0, <1>1, SameRows
<1>8. ScansFit'
  BY <1>1, <1>4 DEF ScansFit
<1>9. HoldersFit'
  <2>1. \A q \in Triggers, l \in Listings : ~HeldByScan(q, l)'
    BY <1>4 DEF HeldByScan, At
  <2> QED
    BY <1>0, <1>1, <2>1 DEF HoldersFit, HeldByRetry, tableVars
<1>10. RunningRowsExplained'
  <2>1. faults \in Nat /\ Cardinality(Running) \in Nat /\ IsFiniteSet(Running)
        /\ Cardinality(Running) <= faults + 1
    BY <1>0, <1>2, RunsAreFinite, PipelineAssumption DEF TypeOK, RunningRowsExplained
  <2>2. CASE recorded
    <3>1. Running' = Running \ {i} /\ i \in Running
      BY <1>0, <1>1, <1>2, <1>5, <2>2 DEF Running, TypeOK
    <3>2. Cardinality(Running') = Cardinality(Running) - 1
      BY <2>1, <3>1, FS_RemoveElement
    <3> QED
      BY <1>1, <2>1, <2>2, <3>2 DEF RunningRowsExplained
  <2>3. CASE ~recorded
    <3>1. Running' = Running
      BY <1>0, <1>1, <1>2, <2>3 DEF Running, TypeOK
    <3> QED
      BY <1>1, <2>1, <2>3, <3>1 DEF RunningRowsExplained
  <2> QED
    BY <2>2, <2>3
<1> QED
  BY <1>6, <1>7, <1>8, <1>9, <1>10 DEF PipelineInv

(* Retries and invalidations.                                              *)
LEMMA RetrySteps ==
  ASSUME PipelineInv,
         \/ \E r \in Retriers : RetryStep(r) \/ \E ls \in SUBSET Listings : StartRetry(r, ls)
         \/ \E ls \in SUBSET Listings : Invalidate(ls)
  PROVE  PipelineInv'
<1>0. /\ TypeOK /\ RowsFit /\ HoldersFit /\ batch \in [Retriers -> SUBSET Listings]
      /\ faults \in 0..MaxFaults /\ faults \in Nat /\ MaxFaults \in Nat
  BY PipelineAssumption DEF PipelineInv, TypeOK
<1>1. ASSUME NEW r \in Retriers, NEW ls \in SUBSET Listings, StartRetry(r, ls)
      PROVE  PipelineInv'
  <2>1. /\ batch' = [batch EXCEPT ![r] = ls] /\ ls \subseteq Pending
        /\ UNCHANGED <<config, tableVars, lock, scan, runs, failing, found, faults, overlapped>>
    BY <1>1 DEF StartRetry, reportVars
  <2>2. HoldersFit'
    <3>1. \A l \in Listings, o \in Retriers :
             HeldByRetry(o, l)' => HeldByRetry(o, l) \/ analysis[l] # "processed"
      BY <1>0, <2>1 DEF HeldByRetry, Pending
    <3>2. \A l \in Listings, q \in Triggers : HeldByScan(q, l)' = HeldByScan(q, l)
      BY <2>1 DEF HeldByScan
    <3> QED
      BY <1>0, <2>1, <3>1, <3>2 DEF HoldersFit, tableVars
  <2>3. TableTypes' /\ RowsFit'
    BY <1>0, <2>1, SameRows
  <2>4. batch' \in [Retriers -> SUBSET Listings] /\ overlapped' \in SUBSET Listings
    BY <1>0, <2>1 DEF TypeOK
  <2> QED
    BY <1>0, <2>1, <2>2, <2>3, <2>4, OthersGoOn DEF tableVars
<1>2. ASSUME NEW r \in Retriers, NEW l \in Listings, NEW a \in Answers, RetrySucceeds(r, l, a)
      PROVE  PipelineInv'
  <2>1. /\ l \in batch[r] /\ Saved(l, a) /\ Overlaps(r, l)
        /\ batch' = [batch EXCEPT ![r] = batch[r] \ {l}]
        /\ UNCHANGED <<config, lock, scan, runs, failing, found, faults>>
    BY <1>2 DEF RetrySucceeds, reportVars
  <2>2. /\ TableTypes' /\ RowsFit' /\ first' = first \union {l}
        /\ \A o \in Listings \ {l} : analysis'[o] = analysis[o]
    BY <1>0, <2>1, SavedRows
  <2>3. HoldersFit'
    <3>1. \A o \in Listings, q \in Retriers : HeldByRetry(q, o)' => HeldByRetry(q, o)
      BY <1>0, <2>1 DEF HeldByRetry
    <3>2. ~HeldByRetry(r, l)'
      BY <1>0, <2>1 DEF HeldByRetry
    <3>3. \A o \in Listings, q \in Triggers : HeldByScan(q, o)' = HeldByScan(q, o)
      BY <2>1 DEF HeldByScan
    <3>4. r \notin Triggers
      BY PipelineAssumption
    <3>5. overlapped' = IF \/ \E t \in Triggers : HeldByScan(t, l)
                           \/ \E q \in Retriers \ {r} : HeldByRetry(q, l)
                        THEN overlapped \union {l} ELSE overlapped \ {l}
      BY <2>1, <3>4 DEF Overlaps
    <3>6. ASSUME NEW o \in Listings, analysis'[o] = "processed",
                 \/ \E t \in Triggers : HeldByScan(t, o)'
                 \/ \E q \in Retriers : HeldByRetry(q, o)'
          PROVE  o \in overlapped'
      <4>1. CASE o = l
        BY <3>1, <3>2, <3>3, <3>5, <3>6, <4>1
      <4>2. CASE o # l
        <5>1. o \in overlapped
          BY <1>0, <2>2, <3>1, <3>3, <3>6, <4>2 DEF HoldersFit
        <5> QED
          BY <3>5, <4>2, <5>1
      <4> QED
        BY <4>1, <4>2
    <3> QED
      BY <3>6 DEF HoldersFit
  <2>4. batch' \in [Retriers -> SUBSET Listings] /\ overlapped' \in SUBSET Listings
    BY <1>0, <2>1 DEF TypeOK, Overlaps
  <2> QED
    BY <1>0, <2>1, <2>2, <2>3, <2>4, OthersGoOn
<1>3. ASSUME NEW r \in Retriers, NEW l \in Listings, NEW recorded \in BOOLEAN,
             RetryFails(r, l, recorded)
      PROVE  PipelineInv'
  <2>1. /\ l \in batch[r]
        /\ IF recorded THEN SavedFailure(l) ELSE UNCHANGED <<tableVars, overlapped>>
        /\ faults' = (IF recorded THEN faults ELSE faults + 1) /\ faults' <= MaxFaults
        /\ batch' = [batch EXCEPT ![r] = batch[r] \ {l}]
        /\ UNCHANGED <<config, lock, scan, runs, failing, found>>
    BY <1>3 DEF RetryFails, reportVars
  <2>2. /\ TableTypes' /\ RowsFit' /\ first' = first
        /\ \A o \in Listings : analysis'[o] = "processed" => analysis[o] = "processed"
        /\ \A o \in Listings : analysis'[o] = "processed" /\ o \in overlapped => o \in overlapped'
        /\ overlapped' \in SUBSET Listings
    <3>1. CASE recorded
      <4>1. SavedFailure(l)
        BY <2>1, <3>1
      <4>2. /\ TableTypes' /\ RowsFit' /\ first' = first /\ analysis'[l] = "pending"
            /\ \A o \in Listings \ {l} : analysis'[o] = analysis[o]
            /\ overlapped' = overlapped \ {l}
        BY <1>0, <4>1, FailureRows
      <4> QED
        BY <1>0, <4>2 DEF TypeOK
    <3>2. CASE ~recorded
      BY <1>0, <2>1, <3>2, SameRows DEF tableVars, TypeOK
    <3> QED
      BY <3>1, <3>2
  <2>3. HoldersFit'
    <3>1. \A o \in Listings, q \in Retriers : HeldByRetry(q, o)' => HeldByRetry(q, o)
      BY <1>0, <2>1 DEF HeldByRetry
    <3>2. \A o \in Listings, q \in Triggers : HeldByScan(q, o)' = HeldByScan(q, o)
      BY <2>1 DEF HeldByScan
    <3> QED
      BY <1>0, <2>2, <3>1, <3>2 DEF HoldersFit
  <2>4. /\ batch' \in [Retriers -> SUBSET Listings]
        /\ faults' \in 0..MaxFaults /\ faults' >= faults
    BY <1>0, <2>1
  <2> QED
    BY <1>0, <2>1, <2>2, <2>3, <2>4, OthersGoOn
<1>4. ASSUME NEW ls \in SUBSET Listings, Invalidate(ls)
      PROVE  PipelineInv'
  <2>1. /\ \A l \in ls : analysis[l] = "processed"
        /\ analysis' = [l \in Listings |-> IF l \in ls THEN "pending" ELSE analysis[l]]
        /\ overlapped' = overlapped \ ls
        /\ UNCHANGED <<config, answer, first, lock, scan, runs, failing, found, batch, faults>>
    BY <1>4 DEF Invalidate, reportVars
  <2>2. TableTypes'
    BY <1>0, <2>1 DEF TypeOK, TableTypes
  <2>3. RowsFit'
    BY <1>0, <2>1 DEF RowsFit, UnansweredAwaitDecision, Pending, DecisionQueue
  <2>4. HoldersFit'
    BY <1>0, <2>1 DEF HoldersFit, HeldByScan, HeldByRetry
  <2> QED
    BY <1>0, <2>1, <2>2, <2>3, <2>4, OthersGoOn DEF TypeOK
<1> QED
  BY <1>1, <1>2, <1>3, <1>4 DEF RetryStep

(* A crash leaves the tables, and a run that nobody will finish.           *)
LEMMA CrashSteps ==
  ASSUME PipelineInv, Crash
  PROVE  PipelineInv'
<1>0. TypeOK /\ RowsFit /\ RunningRowsExplained /\ faults \in Nat /\ MaxFaults \in Nat
  BY PipelineAssumption DEF PipelineInv, TypeOK
<1>1. /\ faults' = faults + 1 /\ faults < MaxFaults /\ lock' = Nobody /\ found' = {}
      /\ scan' = [t \in Triggers |-> Idle] /\ batch' = [r \in Retriers |-> {}]
      /\ UNCHANGED <<config, tableVars, runs, failing, overlapped>>
  BY DEF Crash, reportVars
<1>2. Idle \in ScanState /\ Idle.phase = "idle" /\ \A t \in Triggers : t # Nobody
  BY PipelineAssumption DEF Idle, ScanState
<1>3. TypeOK'
  BY <1>0, <1>1, <1>2 DEF TypeOK, tableVars, At
<1>4. RowsFit'
  BY <1>0, <1>1, SameRows
<1>5. ScansFit'
  BY <1>1, <1>2 DEF ScansFit, At
<1>6. HoldersFit'
  BY <1>1, <1>2 DEF HoldersFit, HeldByScan, HeldByRetry
<1>7. RunningRowsExplained'
  <2>1. Running' = Running
    BY <1>1 DEF Running
  <2> QED
    BY <1>0, <1>1, <2>1, RunsAreFinite DEF RunningRowsExplained
<1> QED
  BY <1>3, <1>4, <1>5, <1>6, <1>7 DEF PipelineInv

(* Another configuration, with nothing under way.                          *)
LEMMA ConfigureSteps ==
  ASSUME PipelineInv, NEW c \in Configurations, Configure(c)
  PROVE  PipelineInv'
<1>0. TypeOK /\ RowsFit /\ ScansFit /\ HoldersFit /\ RunningRowsExplained
  BY DEF PipelineInv
<1>1. /\ lock = Nobody /\ config' = c
      /\ UNCHANGED <<tableVars, runs, failing, lock, scan, batch, faults, found, overlapped>>
  BY DEF Configure, reportVars
<1>2. \A t \in Triggers : At(t, "idle")
  BY <1>0, <1>1, PipelineAssumption DEF TypeOK
<1>3. TypeOK'
  BY <1>0, <1>1 DEF TypeOK, tableVars, At
<1>4. RowsFit'
  BY <1>0, <1>1, SameRows
<1>5. ScansFit'
  BY <1>0, <1>1, <1>2 DEF ScansFit, At
<1>6. HoldersFit'
  BY <1>0, <1>1 DEF HoldersFit, HeldByScan, HeldByRetry, tableVars
<1>7. RunningRowsExplained'
  BY <1>0, <1>1 DEF RunningRowsExplained, Running
<1> QED
  BY <1>3, <1>4, <1>5, <1>6, <1>7 DEF PipelineInv

(* The inductive invariant: the rows agree with what was analysed before,  *)
(* the scan that holds the slot has accounted for every source and listing *)
(* behind it, and whoever works on a processed listing held it before it   *)
(* was.                                                                    *)
THEOREM PipelineInvariant ==
  Spec => []PipelineInv
<1>1. PipelineInv /\ [Next]_vars => PipelineInv'
  <2> SUFFICES ASSUME PipelineInv, [Next]_vars PROVE PipelineInv'
    OBVIOUS
  <2>1. ASSUME NEW t \in Triggers, StartScan(t) \/ ScanStep(t) \/ Cancel(t)
        PROVE  PipelineInv'
    BY <2>1, StartSteps, QuietSteps, AnalyseSteps, SourceSteps, FinishSteps DEF ScanStep
  <2>2. CASE UNCHANGED vars
    BY <2>2 DEF vars, tableVars, reportVars, PipelineInv, TypeOK, RowsFit, UnansweredAwaitDecision,
                Pending, DecisionQueue, ScansFit, ScanFits, HoldersFit, HeldByScan, HeldByRetry,
                At, RunningRowsExplained, Running
  <2> QED
    BY <2>1, <2>2, RetrySteps, CrashSteps, ConfigureSteps DEF Next
<1> QED
  BY <1>1, PipelineStarts, PTL DEF Spec

(* The tables keep their types, and only the holder of the slot scans.     *)
THEOREM PipelineTypes ==
  Spec => []TypeOK
<1>1. PipelineInv => TypeOK
  BY DEF PipelineInv
<1> QED
  BY <1>1, PipelineInvariant, PTL

(* A listing whose analysis never succeeded is in the decision queue, in   *)
(* whatever order scans, retries and invalidations wrote it                *)
(* (SaveAnalysisFailure sets the decision with the status).                *)
THEOREM UnansweredAreQueued ==
  Spec => []UnansweredAwaitDecision
<1>1. PipelineInv => UnansweredAwaitDecision
  BY DEF PipelineInv, RowsFit
<1> QED
  BY <1>1, PipelineInvariant, PTL

(* Rows of scan_runs left 'running' number no more than the crashes and    *)
(* failed reports, and the scan under way.                                 *)
THEOREM RunningRowsAreExplained ==
  Spec => []RunningRowsExplained
<1>1. PipelineInv => RunningRowsExplained
  BY DEF PipelineInv
<1> QED
  BY <1>1, PipelineInvariant, PTL

(* A run changes its status only when its scan ends and is reported.       *)
LEMMA RunEnds ==
  ASSUME PipelineInv, [Next]_vars, NEW i \in Running, i \notin Running'
  PROVE  \E t \in Triggers :
            /\ scan[t].run = i /\ ScanFits(t) /\ runs'[i] = Completion(scan[t].failed)
            /\ scan[t].phase = "fetching" /\ scan[t].source = SourceCount + 1
            /\ scan[t].failed \in SUBSET Sources
            /\ first' = first
<1>0. TypeOK /\ ScansFit /\ i \in RunIds /\ runs[i] = "running" /\ runs'[i] # "running"
  BY DEF PipelineInv, Running
<1>1. \E t \in Triggers, recorded \in BOOLEAN : FinishScan(t, recorded)
  <2>1. ASSUME NEW t \in Triggers, StartScan(t) PROVE FALSE
    BY <1>0, <2>1 DEF StartScan, TypeOK
  <2>2. ASSUME NEW t \in Triggers, ScanStep(t),
               ~\E recorded \in BOOLEAN : FinishScan(t, recorded)
        PROVE  runs' = runs
    BY <2>2 DEF ScanStep, SourceFails, AnalyseFails, FinishSource, FetchListings, StoreListing, StoreFails,
                CheckListing, CheckFails, Analyse, SaveFails, reportVars
  <2>3. ASSUME NEW t \in Triggers, Cancel(t) PROVE runs' = runs
    BY <2>3 DEF Cancel, reportVars
  <2>4. ASSUME \/ \E r \in Retriers : RetryStep(r) \/ \E ls \in SUBSET Listings : StartRetry(r, ls)
               \/ \E ls \in SUBSET Listings : Invalidate(ls)
               \/ Crash \/ \E c \in Configurations : Configure(c)
               \/ UNCHANGED vars
        PROVE  runs' = runs
    BY <2>4 DEF RetryStep, RetrySucceeds, RetryFails, StartRetry, Invalidate, Crash, Configure, vars, reportVars
  <2> QED
    BY <1>0, <2>1, <2>2, <2>3, <2>4 DEF Next
<1>2. PICK t \in Triggers, recorded \in BOOLEAN : FinishScan(t, recorded)
  BY <1>1
<1>3. /\ scan[t].phase = "fetching" /\ scan[t].source \notin Sources
      /\ runs' = [runs EXCEPT ![scan[t].run] = IF recorded THEN Completion(scan[t].failed) ELSE runs[scan[t].run]]
      /\ first' = first /\ ~At(t, "idle")
  BY <1>2 DEF FinishScan, At, tableVars
<1>4. ScanFits(t) /\ scan[t] \in ScanState
  BY <1>0, <1>3 DEF ScansFit, TypeOK
<1>5. scan[t].run = i /\ recorded
  BY <1>0, <1>3, <1>4 DEF TypeOK
<1>6. scan[t].source = SourceCount + 1
  <2>1. config.enabled \in SUBSET Sources
    BY <1>0, ConfiguredSources DEF TypeOK
  <2> QED
    BY <1>3, <1>4, <2>1 DEF ScanFits
<1>7. scan[t].failed \in SUBSET Sources
  BY <1>4 DEF ScanState
<1> QED
  BY <1>0, <1>3, <1>4, <1>5, <1>6, <1>7 DEF TypeOK

(* A completed run has analysed every listing it fetched, in it or before  *)
(* (Service.Run marks the source failed for any listing it could not).     *)
THEOREM CompletedRunsAreComplete ==
  Spec => CompletedRunsAnalysedAll
<1>1. ASSUME PipelineInv, [Next]_vars, NEW i \in RunIds, i \in Running, runs'[i] = "completed"
      PROVE  found \subseteq first'
  <2>1. i \notin Running'
    BY <1>1 DEF Running
  <2>2. PICK t \in Triggers :
            /\ scan[t].run = i /\ ScanFits(t) /\ runs'[i] = Completion(scan[t].failed)
            /\ scan[t].phase = "fetching" /\ first' = first
    BY <1>1, <2>1, RunEnds
  <2>3. scan[t].failed = {}
    BY <1>1, <2>2 DEF Completion
  <2> QED
    BY <2>2, <2>3 DEF ScanFits
<1>2. PipelineInv /\ [Next]_vars
        => [\A i \in RunIds : i \in Running /\ runs'[i] = "completed" => found \subseteq first']_vars
  BY <1>1
<1> QED
  BY <1>2, PipelineInvariant, PTL DEF Spec, CompletedRunsAnalysedAll

(* The status summarize gives a run agrees with what manualChecks lists of *)
(* the sources that are scanned when the report is written, whichever of   *)
(* them are tracked by hand and whatever is still listed of others.        *)
THEOREM ReportsMatchManualChecks ==
  Spec => ReportMatchesManualChecks
<1>1. ASSUME PipelineInv, [Next]_vars, NEW i \in RunIds, i \in Running, i \notin Running'
      PROVE  LET listed == ManualChecks \intersect config.enabled IN
             /\ runs'[i] = "completed" => listed = {}
             /\ (\A t \in Triggers : ~scan[t].unrecorded) =>
                    /\ runs'[i] = "failed" => listed = config.enabled \ config.byHand
                    /\ runs'[i] = "partial" /\ config.enabled \intersect config.byHand = {}
                          => listed \notin {{}, config.enabled}
  <2>1. PICK t \in Triggers :
            /\ scan[t].run = i /\ ScanFits(t) /\ runs'[i] = Completion(scan[t].failed)
            /\ scan[t].source = SourceCount + 1
    BY <1>1, RunEnds
  <2>2. \A j \in config.enabled : j < scan[t].source
    BY <1>1, <2>1, ConfiguredSources DEF PipelineInv, TypeOK
  <2>3. /\ scan[t].failed \subseteq config.enabled
        /\ \A j \in config.enabled : j \notin scan[t].failed => j \notin failing
        /\ ~scan[t].unrecorded => \A j \in config.enabled : j \in scan[t].failed => j \in failing
    BY <2>1, <2>2 DEF ScanFits
  <2>4. scan[t].failed = {} => failing \intersect config.enabled = {}
    BY <2>3
  <2>5. ~scan[t].unrecorded => failing \intersect config.enabled = scan[t].failed
    BY <2>3
  <2>6. /\ runs'[i] = "completed" => scan[t].failed = {}
        /\ runs'[i] = "failed" => scan[t].failed = config.enabled
        /\ runs'[i] = "partial" => scan[t].failed \notin {{}, config.enabled}
    BY <2>1 DEF Completion
  <2> QED
    BY <2>4, <2>5, <2>6 DEF ManualChecks
<1>2. PipelineInv /\ [Next]_vars
        => [\A i \in RunIds : i \in Running /\ i \notin Running' =>
              LET listed == ManualChecks \intersect config.enabled IN
              /\ runs'[i] = "completed" => listed = {}
              /\ (\A t \in Triggers : ~scan[t].unrecorded) =>
                     /\ runs'[i] = "failed" => listed = config.enabled \ config.byHand
                     /\ runs'[i] = "partial" /\ config.enabled \intersect config.byHand = {}
                           => listed \notin {{}, config.enabled}]_vars
  BY <1>1
<1> QED
  BY <1>2, PipelineInvariant, PTL DEF Spec, ReportMatchesManualChecks

(* A success is undone only by an invalidation, or by the failure of an    *)
(* attempt that was under way when it came (SaveAnalysisFailure writes     *)
(* over whatever the row holds).                                           *)
THEOREM SuccessLostOnlySo ==
  Spec => SuccessLostOnlyToOverlap
<1>1. ASSUME PipelineInv, [Next]_vars, NEW l \in Listings,
             analysis[l] = "processed", analysis'[l] = "pending"
      PROVE  l \in overlapped \/ UNCHANGED <<scan, batch>>
  <2>0. TypeOK /\ ScansFit /\ HoldersFit
    BY <1>1 DEF PipelineInv
  <2>1. ASSUME NEW o \in Listings, SavedFailure(o) PROVE o = l
    BY <1>1, <2>0, <2>1 DEF SavedFailure, TypeOK
  <2>2. ASSUME NEW o \in Listings, NEW a \in Answers, Saved(o, a) PROVE FALSE
    BY <1>1, <2>0, <2>2 DEF Saved, TypeOK
  <2>3. analysis' # analysis
    BY <1>1
  <2>4. ASSUME NEW t \in Triggers, NEW recorded \in BOOLEAN, AnalyseFails(t, recorded)
        PROVE  l \in overlapped
    <3>1. At(t, "analysing") /\ recorded /\ SavedFailure(scan[t].current)
      BY <2>3, <2>4 DEF AnalyseFails, tableVars
    <3>2. scan[t].current \in Listings
      BY <2>0, <3>1 DEF ScansFit, ScanFits, At
    <3>3. HeldByScan(t, l)
      BY <2>1, <3>1, <3>2 DEF HeldByScan, At
    <3> QED
      BY <1>1, <2>0, <3>3 DEF HoldersFit
  <2>5. ASSUME NEW r \in Retriers, NEW o \in Listings, NEW recorded \in BOOLEAN, RetryFails(r, o, recorded)
        PROVE  l \in overlapped
    <3>1. o \in batch[r] /\ recorded /\ SavedFailure(o)
      BY <2>3, <2>5 DEF RetryFails, tableVars
    <3>2. HeldByRetry(r, l)
      BY <2>1, <3>1 DEF HeldByRetry
    <3> QED
      BY <1>1, <2>0, <3>2 DEF HoldersFit
  <2>6. ASSUME NEW t \in Triggers, NEW a \in Answers, Analyse(t, a) PROVE FALSE
    <3>1. At(t, "analysing") /\ Saved(scan[t].current, a)
      BY <2>6 DEF Analyse
    <3>2. scan[t].current \in Listings
      BY <2>0, <3>1 DEF ScansFit, ScanFits, At
    <3> QED
      BY <2>2, <3>1, <3>2
  <2>7. ASSUME NEW r \in Retriers, NEW o \in Listings, NEW a \in Answers, RetrySucceeds(r, o, a) PROVE FALSE
    BY <2>2, <2>7 DEF RetrySucceeds
  <2>8. ASSUME NEW ls \in SUBSET Listings, Invalidate(ls) PROVE UNCHANGED <<scan, batch>>
    BY <2>8 DEF Invalidate
  <2>9. CASE \E t \in Triggers : StartScan(t) \/ ScanStep(t) \/ Cancel(t)
    BY <2>3, <2>4, <2>6, <2>9
       DEF ScanStep, StartScan, Cancel, SourceFails, FinishSource, FinishScan, FetchListings, StoreListing,
           StoreFails, CheckListing, CheckFails, SaveFails, tableVars
  <2>10. CASE Crash \/ (\E c \in Configurations : Configure(c)) \/ UNCHANGED vars
    BY <2>3, <2>10 DEF Crash, Configure, vars, tableVars
  <2>11. CASE \E r \in Retriers : RetryStep(r) \/ \E ls \in SUBSET Listings : StartRetry(r, ls)
    BY <2>3, <2>5, <2>7, <2>11 DEF RetryStep, StartRetry, tableVars
  <2> QED
    BY <1>1, <2>8, <2>9, <2>10, <2>11 DEF Next
<1>2. PipelineInv /\ [Next]_vars
        => [\A l \in Listings :
              analysis[l] = "processed" /\ analysis'[l] = "pending" =>
                 l \in overlapped \/ UNCHANGED <<scan, batch>>]_vars
  BY <1>1
<1> QED
  BY <1>2, PipelineInvariant, PTL DEF Spec, SuccessLostOnlyToOverlap
================================================================================
