---------------------------- MODULE PlanningStage ----------------------------
(***************************************************************************)
(* run_planning and run_browser_capture: the plan is generated and stored, *)
(* then the source page is captured and enters the inventory.              *)
(***************************************************************************)
EXTENDS JobStore

PlanCommand == NewCommand("run_planning", "planning", None, None, 1)
CaptureCommand == NewCommand("run_browser_capture", "browser", None, None, 1)
SourceCommand == NewCommand("run_discovery", "discovery:source", None, SourcePage, 1)

-----------------------------------------------------------------------------

\* Slip: the lease of a PLANNING job is not looked at.
PlanningWithoutLeaseCheck == Accepts({"QUEUED", "PLANNING"})

\* A live lease turns a second planning command away.
PlanningClaimable ==
    /\ Accepts({"QUEUED", "PLANNING"})
    /\ ~(job.status = "PLANNING" /\ job.lease = "live")

ClaimPlanning(w, c) ==
    /\ Delivered(w, c, "run_planning")
    /\ \/ /\ PlanningClaimable
          /\ IF job.status = "QUEUED"
             THEN Transition(Leased(Advanced(job, 10)), "PLANNING")
             ELSE job' = Leased(job) /\ UNCHANGED events
          /\ Begin(w, c, None)
       \/ /\ ~PlanningClaimable
          /\ AcknowledgeOrIgnore({"QUEUED", "PLANNING"})
          /\ Discard(c)
    /\ UNCHANGED <<outbox, published, dataVars, clients, faults>>

\* The plan row is inserted in the transaction that leaves PLANNING, so a job
\* still PLANNING has none and the existing-version check cannot fire.
CompletePlanning(w) ==
    /\ Working(w, "run_planning")
    /\ \/ /\ Accepts({"PLANNING"}) /\ Fresh(CaptureCommand)
          /\ Transition(Released(Advanced(job, 20)), "BROWSER_INITIALIZING")
          /\ Insert(CaptureCommand)
       \/ /\ ~(Accepts({"PLANNING"}) /\ Fresh(CaptureCommand))
          /\ AcknowledgeOrIgnore({"PLANNING"})
          /\ UNCHANGED outbox
    /\ Finish(w)
    /\ UNCHANGED <<published, dataVars, clients, faults>>

FailPlanning(w) ==
    /\ Working(w, "run_planning")
    /\ \/ /\ Accepts({"PLANNING"})
          /\ \E retryable \in FailureOf("run_planning") :
                RetryOrFail(w, retryable, PlannerRetries)
       \/ /\ ~Accepts({"PLANNING"})
          /\ AcknowledgeOrIgnore({"PLANNING"})
          /\ Finish(w)
    /\ UNCHANGED <<outbox, published, dataVars, clients, faults>>

-----------------------------------------------------------------------------

\* prepare_browser_capture: no lease check, so a second delivery captures too.
PrepareCapture(w, c) ==
    /\ Delivered(w, c, "run_browser_capture")
    /\ \/ /\ Accepts({"BROWSER_INITIALIZING"})
          /\ job' = Leased(job)
          /\ UNCHANGED events
          /\ Begin(w, c, None)
       \/ /\ ~Accepts({"BROWSER_INITIALIZING"})
          /\ AcknowledgeOrIgnore({"BROWSER_INITIALIZING"})
          /\ Discard(c)
    /\ UNCHANGED <<outbox, published, dataVars, clients, faults>>

CompleteCapture(w) ==
    /\ Working(w, "run_browser_capture")
    /\ \/ /\ Accepts({"BROWSER_INITIALIZING"}) /\ Fresh(SourceCommand)
          /\ Transition(Released(Advanced(job, 30)), "DISCOVERING")
          /\ pages' = [pages EXCEPT ![SourcePage].status = "DISCOVERED",
                                    ![SourcePage].depth = 0]
          /\ Insert(SourceCommand)
       \/ /\ ~(Accepts({"BROWSER_INITIALIZING"}) /\ Fresh(SourceCommand))
          /\ AcknowledgeOrIgnore({"BROWSER_INITIALIZING"})
          /\ UNCHANGED <<outbox, pages>>
    /\ Finish(w)
    /\ UNCHANGED <<published, records, validation, exports, files, store, clients, faults>>

\* Every BrowserEngineError the worker catches is classified non-retryable, so
\* the retry branch of fail_browser_capture is never taken: the job fails.
\* The transient browser errors are not BrowserEngineErrors: see Abandon.
FailCapture(w) ==
    /\ Working(w, "run_browser_capture")
    /\ IF Accepts({"BROWSER_INITIALIZING"})
       THEN Transition(Released(job), "FAILED")
       ELSE AcknowledgeOrIgnore({"BROWSER_INITIALIZING"})
    /\ Finish(w)
    /\ UNCHANGED <<outbox, published, dataVars, clients, faults>>

PlanningStep(w) ==
    \/ \E c \in queue : ClaimPlanning(w, c) \/ PrepareCapture(w, c)
    \/ CompletePlanning(w) \/ FailPlanning(w)
    \/ CompleteCapture(w) \/ FailCapture(w)

=============================================================================
