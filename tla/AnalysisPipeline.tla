---------------------------- MODULE AnalysisPipeline ----------------------------
(***************************************************************************)
(* Scans, retries and what they leave in scan_runs, company_sources and    *)
(* listing_analyses.  A scan (internal/orchestrator/service.go, Run) is    *)
(* started by a request or by the scheduler and holds the one scan slot    *)
(* (coordinator.go); retries of pending analyses (ReprocessPending) do not *)
(* take the slot and run next to it; cmd/reassess -invalidate is another   *)
(* process.  Every store call is a step, so is every answer of an analyzer.*)
(*                                                                         *)
(* How a source is reached is left to SourceAccess, what an analysis says  *)
(* to the matching modules: here a fetch returns any listings of the       *)
(* source or fails, an analysis decides or leaves the decision to the user.*)
(* Which of the registered sources are scanned and which companies are     *)
(* tracked by hand comes from the configuration the process started with;  *)
(* the rows of sources it does not scan stay in the table.                 *)
(* The order in which a batch of pending listings is worked through        *)
(* (retry_count, first_seen_at) is left out: any order is allowed.         *)
(***************************************************************************)
EXTENDS Naturals, FiniteSets

CONSTANTS
    SourceCount,  \* sources are configured in the order 1..SourceCount
    Listings,
    SourceOf,     \* SourceOf[l]: the source that lists l
    Configurations, \* what may be configured: enabled, the sources that are
                  \* scanned, and byHand, those of companies tracked by hand
    Triggers,     \* who can start a scan: requests and the scheduler
    Retriers,     \* requests that retry pending analyses
    Limit,        \* how many pending analyses one retry takes (25)
    MaxRuns,      \* bound on scan_runs rows
    MaxFaults,    \* bound on crashes and on failed writes of a report
    NoListing, Nobody

ASSUME PipelineAssumption ==
    /\ SourceCount \in Nat
    /\ IsFiniteSet(Listings)
    /\ SourceOf \in [Listings -> 1..SourceCount]
    /\ Configurations \subseteq [enabled : SUBSET (1..SourceCount), byHand : SUBSET (1..SourceCount)]
    /\ Triggers \intersect Retriers = {}
    /\ Limit \in Nat \ {0}
    /\ MaxRuns \in Nat
    /\ MaxFaults \in Nat
    /\ NoListing \notin Listings
    /\ Nobody \notin Triggers

Sources == 1..SourceCount
RunIds == 1..MaxRuns

VARIABLES
    config,      \* the configuration the process was started with
    analysis,    \* analysis[l]: processing_status, "none" = no row
    answer,      \* answer[l]: eligibility_status, is it left to the user?
    first,       \* listings whose first_processed_at is set
    runs,        \* runs[i]: scan_runs.status, "none" = no row
    failing,     \* sources whose last_error is set
    lock,        \* who holds CoordinatedRunner.mu
    scan,        \* scan[t]: the local state of Service.Run
    batch,       \* batch[r]: pending listings a retry has still to analyse
    faults,      \* observer: crashes and failed report writes so far
    found,       \* observer: the listings the scan has fetched
    overlapped   \* observer: processed listings that some other attempt was
                 \* holding when they were analysed

tableVars == <<analysis, answer, first>>
reportVars == <<runs, failing>>
vars == <<config, tableVars, reportVars, lock, scan, batch, faults, found, overlapped>>

Idle == [phase |-> "idle", run |-> 0, source |-> 0, todo |-> {}, current |-> NoListing,
         troubled |-> FALSE, failed |-> {}, unrecorded |-> FALSE, cancelled |-> FALSE]

Pending == {l \in Listings : analysis[l] = "pending"}
Running == {i \in RunIds : runs[i] = "running"}

(* Who works on l with what it read before: a scan that has found l in     *)
(* need of an analysis, a retry that has l in its batch.                   *)
HeldByScan(t, l) == scan[t].phase = "analysing" /\ scan[t].current = l
HeldByRetry(r, l) == l \in batch[r]

-------------------------------------------------------------------------------
(* Dashboard: the decision queue.                                          *)
DecisionQueue == {l \in Listings : answer[l] = "undecided"}

(* manualChecks: every row with an error, scanned or not, except those of  *)
(* companies that are tracked by hand.                                     *)
ManualChecks == failing \ config.byHand

-------------------------------------------------------------------------------
(* Operators whose name starts with Bad are deliberate mistakes: no action *)
(* uses them.                                                              *)

(* Only the values that are missing are written.                           *)
BadSavedFailure(l) ==
    /\ analysis' = [analysis EXCEPT ![l] = "pending"]
    /\ overlapped' = overlapped \ {l}
    /\ UNCHANGED <<answer, first>>

(* SaveAnalysisFailure: the row is pending and its decision is the user's, *)
(* whatever it held before.                                                *)
SavedFailure(l) ==
    /\ analysis' = [analysis EXCEPT ![l] = "pending"]
    /\ answer' = [answer EXCEPT ![l] = "undecided"]
    /\ overlapped' = overlapped \ {l}
    /\ UNCHANGED first

(* SaveAnalysis, the columns this module keeps.                            *)
Saved(l, a) ==
    /\ analysis' = [analysis EXCEPT ![l] = "processed"]
    /\ answer' = [answer EXCEPT ![l] = a]
    /\ first' = first \union {l}

(* Observer of Saved by an actor: is anybody else at work on l?            *)
Overlaps(me, l) ==
    overlapped' = IF \/ \E t \in Triggers \ {me} : HeldByScan(t, l)
                     \/ \E r \in Retriers \ {me} : HeldByRetry(r, l)
                  THEN overlapped \union {l} ELSE overlapped \ {l}

(* A run in which a source succeeded is completed.                         *)
BadCompletion(failed) ==
    IF failed = config.enabled /\ failed # {} THEN "failed" ELSE "completed"

(* summarize: the status of a run whose failed sources are given.          *)
Completion(failed) ==
    IF failed = {} THEN "completed"
    ELSE IF failed = config.enabled THEN "failed" ELSE "partial"

(* The scan goes through the enabled sources in the order they are         *)
(* configured; SourceCount + 1 stands for the end of the list.             *)
After(s) ==
    LET rest == {j \in config.enabled \union {SourceCount + 1} : j > s} IN
    CHOOSE n \in rest : \A j \in rest : n <= j

-------------------------------------------------------------------------------
At(t, phase) == scan[t].phase = phase
Goes(t, s) == scan' = [scan EXCEPT ![t] = s]

(* The row is opened before the slot is asked for; a conflict leaves it.   *)
BadStartScan(t) ==
    /\ At(t, "idle")
    /\ \E i \in RunIds :
          /\ runs[i] = "none"
          /\ \A j \in 1..(i - 1) : runs[j] # "none"
          /\ runs' = [runs EXCEPT ![i] = "running"]
          /\ IF lock = Nobody
             THEN /\ Goes(t, [Idle EXCEPT !.phase = "fetching", !.run = i, !.source = After(0)])
                  /\ lock' = t
             ELSE UNCHANGED <<scan, lock>>
    /\ UNCHANGED <<config, tableVars, failing, batch, faults, found, overlapped>>

(* CoordinatedRunner.Run and StartScanRun.  When the slot is taken the     *)
(* request is told so, the scheduler waits for its next time.              *)
StartScan(t) ==
    /\ At(t, "idle")
    /\ lock = Nobody
    /\ \E i \in RunIds :
          /\ runs[i] = "none"
          /\ \A j \in 1..(i - 1) : runs[j] # "none"
          /\ runs' = [runs EXCEPT ![i] = "running"]
          /\ Goes(t, [Idle EXCEPT !.phase = "fetching", !.run = i, !.source = After(0)])
    /\ lock' = t
    /\ UNCHANGED <<config, tableVars, failing, batch, faults, found, overlapped>>

(* The next source: recorded says whether its result could be written.     *)
NextSource(t, ok, recorded) ==
    LET s == scan[t].source IN
    /\ Goes(t, [scan[t] EXCEPT !.phase = "fetching", !.source = After(s), !.troubled = FALSE,
                               !.failed = IF ok /\ recorded THEN @ ELSE @ \union {s},
                               !.unrecorded = @ \/ ~recorded])
    /\ failing' = IF ~recorded THEN failing
                  ELSE IF ok THEN failing \ {s} ELSE failing \union {s}
    /\ faults' = IF recorded THEN faults ELSE faults + 1
    /\ faults' <= MaxFaults

(* The source is skipped (access budget, robots.txt) or its fetch fails.   *)
SourceFails(t, recorded) ==
    /\ At(t, "fetching") /\ scan[t].source \in Sources
    /\ NextSource(t, FALSE, recorded)
    /\ UNCHANGED <<config, tableVars, runs, lock, batch, found, overlapped>>

(* FetchListings succeeds; a cancelled request fetches nothing.            *)
FetchListings(t, ls) ==
    /\ At(t, "fetching") /\ scan[t].source \in Sources
    /\ ~scan[t].cancelled
    /\ ls \subseteq {l \in Listings : SourceOf[l] = scan[t].source}
    /\ Goes(t, [scan[t] EXCEPT !.phase = "storing", !.todo = ls])
    /\ found' = found \union ls
    /\ UNCHANGED <<config, tableVars, reportVars, lock, batch, faults, overlapped>>

(* UpsertRawListing: a listing is stored, or refused and counted.          *)
StoreListing(t, l) ==
    /\ At(t, "storing") /\ l \in scan[t].todo
    /\ ~scan[t].cancelled
    /\ Goes(t, [scan[t] EXCEPT !.phase = "checking", !.todo = @ \ {l}, !.current = l])
    /\ UNCHANGED <<config, tableVars, reportVars, lock, batch, faults, found, overlapped>>

(* A listing that cannot be stored ends the loop without a trace.          *)
BadStoreFails(t, l) ==
    /\ At(t, "storing") /\ l \in scan[t].todo
    /\ Goes(t, [scan[t] EXCEPT !.todo = @ \ {l}])
    /\ UNCHANGED <<config, tableVars, reportVars, lock, batch, faults, found, overlapped>>

StoreFails(t, l) ==
    /\ At(t, "storing") /\ l \in scan[t].todo
    /\ Goes(t, [scan[t] EXCEPT !.todo = @ \ {l}, !.troubled = TRUE])
    /\ UNCHANGED <<config, tableVars, reportVars, lock, batch, faults, found, overlapped>>

(* A listing in trouble is taken up again at once.                         *)
BadNextListing(t, troubled) ==
    Goes(t, [scan[t] EXCEPT !.phase = "storing", !.current = NoListing,
                            !.todo = IF troubled THEN @ \union {scan[t].current} ELSE @,
                            !.troubled = @ \/ troubled])

(* Back to the loop over the listings of the source.                       *)
NextListing(t, troubled) ==
    Goes(t, [scan[t] EXCEPT !.phase = "storing", !.current = NoListing,
                            !.troubled = @ \/ troubled])

(* Every stored listing is analysed.                                       *)
BadCheckListing(t) ==
    /\ At(t, "checking") /\ ~scan[t].cancelled
    /\ Goes(t, [scan[t] EXCEPT !.phase = "analysing"])
    /\ UNCHANGED <<config, tableVars, reportVars, lock, batch, faults, found, overlapped>>

(* AnalysisRequired: a processed listing is left alone.                    *)
CheckListing(t) ==
    /\ At(t, "checking") /\ ~scan[t].cancelled
    /\ IF analysis[scan[t].current] = "processed"
       THEN NextListing(t, FALSE)
       ELSE Goes(t, [scan[t] EXCEPT !.phase = "analysing"])
    /\ UNCHANGED <<config, tableVars, reportVars, lock, batch, faults, found, overlapped>>

(* AnalysisRequired with a cancelled context.                              *)
CheckFails(t) ==
    /\ At(t, "checking") /\ scan[t].cancelled
    /\ NextListing(t, TRUE)
    /\ UNCHANGED <<config, tableVars, reportVars, lock, batch, faults, found, overlapped>>

(* The analyzer answers and the answer is saved.                           *)
Analyse(t, a) ==
    /\ At(t, "analysing") /\ ~scan[t].cancelled
    /\ Saved(scan[t].current, a)
    /\ Overlaps(t, scan[t].current)
    /\ NextListing(t, FALSE)
    /\ UNCHANGED <<config, reportVars, lock, batch, faults, found>>

(* The analyzer fails; the failure is saved, whoever cancelled the request,*)
(* unless that write fails too.                                            *)
AnalyseFails(t, recorded) ==
    /\ At(t, "analysing")
    /\ IF recorded THEN SavedFailure(scan[t].current) ELSE UNCHANGED <<tableVars, overlapped>>
    /\ faults' = IF recorded THEN faults ELSE faults + 1
    /\ faults' <= MaxFaults
    /\ NextListing(t, TRUE)
    /\ UNCHANGED <<config, reportVars, lock, batch, found>>

(* The analyzer answers but SaveAnalysis refuses the answer: the scan,     *)
(* unlike a retry, leaves the listing as it was.                           *)
SaveFails(t) ==
    /\ At(t, "analysing")
    /\ NextListing(t, TRUE)
    /\ UNCHANGED <<config, tableVars, reportVars, lock, batch, faults, found, overlapped>>

(* The source's listings are worked through.                               *)
FinishSource(t, recorded) ==
    /\ At(t, "storing") /\ scan[t].todo = {}
    /\ NextSource(t, ~scan[t].troubled, recorded)
    /\ UNCHANGED <<config, tableVars, runs, lock, batch, found, overlapped>>

(* The slot is given back before the report is written.                    *)
BadFinishScan(t, recorded) ==
    /\ At(t, "fetching") /\ scan[t].source \notin Sources
    /\ IF lock = t
       THEN lock' = Nobody /\ UNCHANGED <<runs, scan, faults>>
       ELSE /\ runs' = [runs EXCEPT ![scan[t].run] =
                           IF recorded THEN Completion(scan[t].failed) ELSE @]
            /\ faults' = IF recorded THEN faults ELSE faults + 1
            /\ faults' <= MaxFaults
            /\ Goes(t, Idle)
            /\ UNCHANGED lock
    /\ UNCHANGED <<config, tableVars, failing, batch, found, overlapped>>

(* summarize and FinishScanRun, then the slot is free again.               *)
FinishScan(t, recorded) ==
    /\ At(t, "fetching") /\ scan[t].source \notin Sources
    /\ runs' = [runs EXCEPT ![scan[t].run] = IF recorded THEN Completion(scan[t].failed) ELSE @]
    /\ faults' = IF recorded THEN faults ELSE faults + 1
    /\ faults' <= MaxFaults
    /\ lock' = Nobody
    /\ Goes(t, Idle)
    /\ found' = {}
    /\ UNCHANGED <<config, tableVars, failing, batch, overlapped>>

(* The client goes away, or the server is asked to stop: from here on only *)
(* the writes of the report, made without the context, succeed.            *)
Cancel(t) ==
    /\ ~At(t, "idle") /\ ~scan[t].cancelled
    /\ Goes(t, [scan[t] EXCEPT !.cancelled = TRUE])
    /\ UNCHANGED <<config, tableVars, reportVars, lock, batch, faults, found, overlapped>>

-------------------------------------------------------------------------------
(* POST /analyses/retry: PendingAnalyses reads a batch, without the slot.  *)
StartRetry(r, ls) ==
    /\ batch[r] = {}
    /\ ls \subseteq Pending /\ ls # {}
    /\ IF Cardinality(Pending) <= Limit THEN ls = Pending ELSE Cardinality(ls) = Limit
    /\ batch' = [batch EXCEPT ![r] = ls]
    /\ UNCHANGED <<config, tableVars, reportVars, lock, scan, faults, found, overlapped>>

(* One listing of the batch is analysed and saved.                         *)
RetrySucceeds(r, l, a) ==
    /\ l \in batch[r]
    /\ Saved(l, a)
    /\ Overlaps(r, l)
    /\ batch' = [batch EXCEPT ![r] = @ \ {l}]
    /\ UNCHANGED <<config, reportVars, lock, scan, faults, found>>

(* The analysis or its save fails, or the client has gone away: the        *)
(* failure is saved, over whatever the row holds by now.                   *)
RetryFails(r, l, recorded) ==
    /\ l \in batch[r]
    /\ IF recorded THEN SavedFailure(l) ELSE UNCHANGED <<tableVars, overlapped>>
    /\ faults' = IF recorded THEN faults ELSE faults + 1
    /\ faults' <= MaxFaults
    /\ batch' = [batch EXCEPT ![r] = @ \ {l}]
    /\ UNCHANGED <<config, reportVars, lock, scan, found>>

(* cmd/reassess -invalidate: processed analyses, all or one provider's,    *)
(* become pending; their values stay.                                      *)
Invalidate(ls) ==
    /\ ls # {} /\ \A l \in ls : analysis[l] = "processed"
    /\ analysis' = [l \in Listings |-> IF l \in ls THEN "pending" ELSE analysis[l]]
    /\ overlapped' = overlapped \ ls
    /\ UNCHANGED <<config, answer, first, reportVars, lock, scan, batch, faults, found>>

(* The process dies and is started again: what was in memory is gone, the  *)
(* row of a scan under way stays 'running'.                                *)
Crash ==
    /\ faults < MaxFaults
    /\ \/ lock # Nobody
       \/ \E r \in Retriers : batch[r] # {}
    /\ faults' = faults + 1
    /\ lock' = Nobody
    /\ scan' = [t \in Triggers |-> Idle]
    /\ batch' = [r \in Retriers |-> {}]
    /\ found' = {}
    /\ UNCHANGED <<config, tableVars, reportVars, overlapped>>

(* The process is stopped with nothing under way and started with another  *)
(* configuration: configureSources registers every source, whose row keeps *)
(* the error it has, and hands the enabled ones to the scans.              *)
Configure(c) ==
    /\ c # config /\ lock = Nobody /\ \A r \in Retriers : batch[r] = {}
    /\ config' = c
    /\ UNCHANGED <<tableVars, reportVars, lock, scan, batch, faults, found, overlapped>>

-------------------------------------------------------------------------------
Init ==
    /\ config \in Configurations
    /\ analysis = [l \in Listings |-> "none"]
    /\ answer = [l \in Listings |-> "none"]
    /\ first = {}
    /\ runs = [i \in RunIds |-> "none"]
    /\ failing = {}
    /\ lock = Nobody
    /\ scan = [t \in Triggers |-> Idle]
    /\ batch = [r \in Retriers |-> {}]
    /\ faults = 0
    /\ found = {}
    /\ overlapped = {}

Answers == {"undecided", "decided"}

(* What Service.Run does next; a client that leaves is not part of it.     *)
ScanStep(t) ==
    \/ \E recorded \in BOOLEAN :
          \/ SourceFails(t, recorded) \/ AnalyseFails(t, recorded)
          \/ FinishSource(t, recorded) \/ FinishScan(t, recorded)
    \/ \E ls \in SUBSET Listings : FetchListings(t, ls)
    \/ \E l \in Listings : StoreListing(t, l) \/ StoreFails(t, l)
    \/ CheckListing(t) \/ CheckFails(t)
    \/ \E a \in Answers : Analyse(t, a)
    \/ SaveFails(t)

RetryStep(r) ==
    \E l \in Listings :
       \/ \E a \in Answers : RetrySucceeds(r, l, a)
       \/ \E recorded \in BOOLEAN : RetryFails(r, l, recorded)

Next ==
    \/ \E t \in Triggers : StartScan(t) \/ ScanStep(t) \/ Cancel(t)
    \/ \E r \in Retriers : RetryStep(r) \/ \E ls \in SUBSET Listings : StartRetry(r, ls)
    \/ \E ls \in SUBSET Listings : Invalidate(ls)
    \/ Crash \/ \E c \in Configurations : Configure(c)

(* Every call of a scan returns: HTTP clients, analyzers and the database  *)
(* all have timeouts.  Nobody has to start a scan, to retry, to go away or *)
(* to crash.                                                               *)
Spec == Init /\ [][Next]_vars /\ \A t \in Triggers : WF_vars(ScanStep(t))
-------------------------------------------------------------------------------
ScanState == [phase : {"idle", "fetching", "storing", "checking", "analysing"},
              run : 0..MaxRuns, source : 0..(SourceCount + 1), todo : SUBSET Listings,
              current : Listings \union {NoListing}, troubled : BOOLEAN,
              failed : SUBSET Sources, unrecorded : BOOLEAN, cancelled : BOOLEAN]

(* The tables keep their types and the slot is held by whoever scans.      *)
TypeOK ==
    /\ config \in Configurations
    /\ analysis \in [Listings -> {"none", "pending", "processed"}]
    /\ answer \in [Listings -> Answers \union {"none"}]
    /\ first \in SUBSET Listings
    /\ runs \in [RunIds -> {"none", "running", "completed", "partial", "failed"}]
    /\ failing \in SUBSET Sources
    /\ lock \in Triggers \union {Nobody}
    /\ scan \in [Triggers -> ScanState]
    /\ batch \in [Retriers -> SUBSET Listings]
    /\ faults \in 0..MaxFaults
    /\ found \in SUBSET Listings
    /\ overlapped \in SUBSET Listings
    /\ \A t \in Triggers : lock = t <=> ~At(t, "idle")

(* Rows of scan_runs left 'running': besides that of the scan under way    *)
(* there is at most one for every crash or report that could not be        *)
(* written.  Nothing closes them at startup, so they can only add up.      *)
RunningRowsExplained ==
    Cardinality(Running) <= faults + (IF lock = Nobody THEN 0 ELSE 1)

(* A listing whose analysis has never succeeded waits in the decision      *)
(* queue as soon as it has a row, through failures of scans and of retries *)
(* and a success that came in between.                                     *)
UnansweredAwaitDecision ==
    \A l \in Pending : l \in first \/ l \in DecisionQueue

(* A run reported as completed has lost nothing: each listing it fetched   *)
(* has been analysed successfully, in this run or before.                  *)
CompletedRunsAnalysedAll ==
    [][\A i \in RunIds : i \in Running /\ runs'[i] = "completed" => found \subseteq first']_vars

(* The report agrees, when it is written, with what the dashboard lists    *)
(* for a check by hand among the sources that are scanned: nothing after a *)
(* completed run; unless a source's own result could not be written, all   *)
(* that are not tracked by hand after a failed one, some but not all after *)
(* a partial one.  What is listed of sources no longer scanned may be old. *)
ReportMatchesManualChecks ==
    [][\A i \in RunIds : i \in Running /\ i \notin Running' =>
          LET listed == ManualChecks \intersect config.enabled IN
          /\ runs'[i] = "completed" => listed = {}
          /\ (\A t \in Triggers : ~scan[t].unrecorded) =>
                 /\ runs'[i] = "failed" => listed = config.enabled \ config.byHand
                 /\ runs'[i] = "partial" /\ config.enabled \intersect config.byHand = {}
                       => listed \notin {{}, config.enabled}]_vars

(* A successful analysis goes back to pending by an invalidation, or by    *)
(* the failure of an attempt that was already under way when it succeeded: *)
(* never by one that began later.                                          *)
SuccessLostOnlyToOverlap ==
    [][\A l \in Listings :
          analysis[l] = "processed" /\ analysis'[l] = "pending" =>
             l \in overlapped \/ UNCHANGED <<scan, batch>>]_vars

(* Unless there was a fault, a scan ends and its report is written.        *)
RunsAreReported ==
    \A i \in RunIds : i \in Running ~> (i \notin Running \/ faults > 0)
================================================================================
