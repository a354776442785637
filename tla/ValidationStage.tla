--------------------------- MODULE ValidationStage ---------------------------
(***************************************************************************)
(* run_validation: one durable result per record, then one export job and  *)
(* one export command per requested format, in a single transaction.       *)
(***************************************************************************)
EXTENDS JobStore

ExportCommand(f) == NewCommand("run_export", "export", f, f, 1)

\* Slip: the claim asks only whether the job has ended.
ValidationOfLiveJob == job.status \notin Terminal

\* No lease check: a redelivered command may claim a RUNNING run again.
ValidationClaimable == job.status = "VALIDATING" /\ validation.status # "COMPLETED"

ClaimValidation(w, c) ==
    /\ Delivered(w, c, "run_validation")
    /\ \/ /\ ValidationClaimable /\ ~job.cancelRequested
          /\ validation' = [validation EXCEPT !.status = "RUNNING"]
          /\ job' = Leased(job)
          /\ UNCHANGED events
          /\ Begin(w, c, None)
       \/ /\ ~(ValidationClaimable /\ ~job.cancelRequested)
          /\ IF ValidationClaimable THEN Transition(job, "CANCELLED") ELSE UNCHANGED jobVars
          /\ Discard(c)
          /\ UNCHANGED validation
    /\ UNCHANGED <<outbox, published, pages, records, exports, files, store, clients, faults>>

\* Every record of the job is evaluated in the transaction that queues the
\* exports, so the result set and the hand-off commit together.
CompleteValidation(w) ==
    /\ Working(w, "run_validation")
    /\ \/ /\ Accepts({"VALIDATING"}) /\ \A f \in Formats : Fresh(ExportCommand(f))
          /\ validation' = [status |-> "COMPLETED", results |-> records]
          /\ Transition(Released(Advanced(job, 80)), "EXPORTING")
          /\ exports' = [f \in Formats |-> [status |-> "QUEUED", attempt |-> 0]]
          /\ outbox' = outbox \cup {ExportCommand(f) : f \in Formats}
       \/ /\ ~(Accepts({"VALIDATING"}) /\ \A f \in Formats : Fresh(ExportCommand(f)))
          /\ AcknowledgeOrIgnore({"VALIDATING"})
          /\ UNCHANGED <<outbox, validation, exports>>
    /\ Finish(w)
    /\ UNCHANGED <<published, pages, records, files, store, clients, faults>>

FailValidation(w) ==
    /\ Working(w, "run_validation")
    /\ \/ /\ job.status = "VALIDATING"
          /\ \E retryable \in FailureOf("run_validation") :
                RetryOrFail(w, retryable, ValidationRetries)
       \/ /\ job.status # "VALIDATING"
          /\ UNCHANGED jobVars
          /\ Finish(w)
    /\ UNCHANGED <<outbox, published, dataVars, clients, faults>>

ValidationStep(w) ==
    \/ \E c \in queue : ClaimValidation(w, c)
    \/ CompleteValidation(w) \/ FailValidation(w)

=============================================================================
