----------------------------- MODULE ExportStage -----------------------------
(***************************************************************************)
(* run_export: one format is rendered, uploaded, and published as a file   *)
(* row; the job completes with its last format.  The formats run in        *)
(* parallel under the one lease of the job row.                            *)
(***************************************************************************)
EXTENDS JobStore

\* `if job.status == CANCELLED or job.cancel_requested_at'
JobCancelled == job.status = "CANCELLED" \/ job.cancelRequested

\* Slip: a command is executed whatever has become of its export.
AnyExportClaimable(f) == ~JobCancelled /\ job.status = "EXPORTING"

ExportClaimable(f) ==
    ~JobCancelled /\ job.status = "EXPORTING" /\ exports[f].status = "QUEUED"

ClaimExport(w, c) ==
    LET f == c.target
    IN /\ Delivered(w, c, "run_export")
       /\ \/ /\ ExportClaimable(f)
             /\ exports' = [exports EXCEPT ![f].status = "RUNNING",
                                           ![f].attempt = AtLeast(@, c.attempt)]
             /\ job' = Leased(job)
             /\ Begin(w, c, f)
          \/ /\ ~ExportClaimable(f)
             /\ exports' = [exports EXCEPT ![f].status =
                    IF JobCancelled /\ @ # "COMPLETED" THEN "CANCELLED" ELSE @]
             /\ UNCHANGED job
             /\ Discard(c)
       /\ UNCHANGED <<events, outbox, published, pages, records, validation, files,
                      store, clients, faults>>

\* A storage key nothing refers to: the store draws keys at random.
UnusedBlobs == Blobs \ (store \cup {file.blob : file \in files}
                              \cup {running[v].blob : v \in {u \in Workers : running[u] # None}})

AtStep(w, step) == Working(w, "run_export") /\ running[w].step = step

\* The dataset is loaded and rendered; the upload follows unless the check
\* before it finds the job cancelled.
UploadArtifact(w) ==
    /\ AtStep(w, "working")
    /\ IF JobCancelled
       THEN Finish(w) /\ UNCHANGED store
       ELSE /\ UnusedBlobs # {}
            /\ LET b == CHOOSE b \in UnusedBlobs : TRUE
               IN /\ store' = store \cup {b}
                  /\ running' = [running EXCEPT ![w].blob = b, ![w].step = "stored"]
            /\ UNCHANGED queue
    /\ UNCHANGED <<jobVars, outbox, published, pages, records, validation, exports, files,
                   clients, faults>>

\* Slip: any completed format completes the job.
AnyExported(rows) == \E f \in Formats : rows[f].status = "COMPLETED"

\* `all(status == "COMPLETED" for status in statuses)'
AllExported(rows) == \A f \in Formats : rows[f].status = "COMPLETED"

\* Slip: a refused or failed export leaves its upload behind.
UploadKept(w) == store

\* The store without the upload of operation w.
WithoutUpload(w) == store \ {running[w].blob}

\* complete_export; the worker deletes the upload of a refused completion.
CompleteExport(w) ==
    LET f    == running[w].target
        done == [exports EXCEPT ![f].status = "COMPLETED"]
    IN /\ AtStep(w, "stored")
       /\ IF Accepts({"EXPORTING"}) /\ exports[f].status # "COMPLETED"
          THEN /\ files' = files \cup {[format |-> f, blob |-> running[w].blob]}
               /\ exports' = done
               /\ IF AllExported(done)
                  THEN Transition([Released(job) EXCEPT !.progress = 100], "COMPLETED")
                  ELSE job' = Released(job) /\ UNCHANGED events
               /\ running' = [running EXCEPT ![w].step = "committed"]
               /\ UNCHANGED <<queue, store>>
          ELSE /\ store' = WithoutUpload(w)
               /\ Finish(w)
               /\ UNCHANGED <<jobVars, files, exports>>
       /\ UNCHANGED <<outbox, published, pages, records, validation, clients, faults>>

ReturnFromExport(w) ==
    /\ AtStep(w, "committed")
    /\ Finish(w)
    /\ UNCHANGED <<jobVars, outbox, published, dataVars, clients, faults>>

\* The handlers of run_export's except clauses: delete the upload, if any, then
\* fail_export, which asks for the job's status but not for the export's.
ExportError(w, retryable) ==
    LET f     == running[w].target
        again == retryable /\ exports[f].attempt < ExportRetries
    IN /\ store' = WithoutUpload(w)
       /\ \/ /\ Accepts({"EXPORTING"})
             /\ exports' = [exports EXCEPT
                    ![f].status = IF again THEN "QUEUED" ELSE "FAILED",
                    ![f].attempt = IF again THEN @ + 1 ELSE @]
             /\ IF again
                THEN job' = Released(job) /\ UNCHANGED events /\ Requeue(w)
                ELSE Transition(Released(job), "FAILED") /\ Finish(w)
          \/ /\ ~Accepts({"EXPORTING"})
             /\ UNCHANGED <<jobVars, exports>>
             /\ Finish(w)
       /\ UNCHANGED <<outbox, published, pages, records, validation, files, clients>>

FailExport(w) ==
    /\ AtStep(w, "working") \/ AtStep(w, "stored")
    /\ \E retryable \in FailureOf("run_export") : ExportError(w, retryable)
    /\ UNCHANGED faults

ExportStep(w) ==
    \/ \E c \in queue : ClaimExport(w, c)
    \/ UploadArtifact(w) \/ CompleteExport(w) \/ ReturnFromExport(w) \/ FailExport(w)

=============================================================================
