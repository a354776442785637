---------------------------- MODULE JobProperties ----------------------------
(***************************************************************************)
(* What the job pipeline must never do, and what it must do in the end.    *)
(***************************************************************************)
EXTENDS JobPipeline

BlobsOfFiles == {file.blob : file \in files}
BlobsInFlight == {running[w].blob : w \in {v \in Workers : running[v] # None}}

-----------------------------------------------------------------------------
(* The job row *)

Lifecycle == INSTANCE JobLifecycle WITH status <- job.status, history <- events

\* The pipeline implements JobLifecycle: whatever handlers, recovery, cancel
\* requests and faults interleave, the status moves along ALLOWED_TRANSITIONS
\* only and every move appends its event in the same commit.
FollowsLifecycle == Lifecycle!LifecycleSpec

\* A job that ended is never revived or given another ending by late workers,
\* stale leases or recovery; cancel(), writing from a stale read, is the one
\* exception and can only leave it CANCELLED.
NoResurrection ==
    [][job.status \in Terminal => job'.status \in {job.status, "CANCELLED"}]_vars

\* cancel() records the request and ends the job in one commit: no commit shows
\* a requested cancellation on a live job, so the workers' acknowledgement
\* branches (claim_planning and its siblings) have nothing to acknowledge.
CancelledAtOnce == job.cancelRequested => job.status = "CANCELLED"

\* Work in flight when a job ends leaves no trace: no later command, page,
\* record, validation result or file (system-design.md: a cancelled job must
\* not start new child work or create new exports).
EndedJobIsQuiet ==
    [][job.status \in Terminal => UNCHANGED <<outbox, pages, records, validation, files>>]_vars

-----------------------------------------------------------------------------
(* Work *)

\* Two slots never hold the same unit of work.  Capture and validation have no
\* claim of their own and rely on the status check when they complete.
WorkIsClaimedOnce ==
    \A v, w \in Workers :
        /\ v # w
        /\ running[v] # None /\ running[w] # None
        /\ running[v].cmd.type = running[w].cmd.type
        /\ running[v].target = running[w].target
        => running[v].cmd.type \in {"run_browser_capture", "run_validation"}

\* A job that has not ended always has something that may still move it: a
\* lease that will be recovered, a command to publish, or a message to deliver.
NeverStranded ==
    job.status \notin Terminal => job.lease # "none" \/ Pending # {} \/ queue # {}

\* An abandoned discovery or export lease always finds a page or an export to
\* queue again: recovery never spends an attempt for nothing.
RecoveryFindsWork == Recoverable => RecoveryTargets # {}

-----------------------------------------------------------------------------
(* Data *)

\* The page cap bounds the inventory, however the links were distributed over
\* the visits and over repeated visits of one page.
PageLimit ==
    Cardinality({p \in Pages : pages[p].status \in {"DISCOVERED", "QUEUED", "VISITED", "FAILED"}})
        <= MaxPages

\* The record cap bounds the job, however many operations read its pages.
RecordLimit == Cardinality(records) <= MaxRecords

\* Discovery hands over only when no page of the inventory is left to visit.
InventoryComplete ==
    job.status \in {"EXTRACTING", "VALIDATING", "EXPORTING", "COMPLETED"} =>
        WithStatus(pages, "DISCOVERED") \cup WithStatus(pages, "QUEUED") = {}

\* Extraction hands over only when every visited page has been read.
EveryVisitedPageIsRead ==
    job.status \in {"VALIDATING", "EXPORTING", "COMPLETED"} =>
        \A p \in WithStatus(pages, "VISITED") : pages[p].extraction \in {"EXTRACTED", "PARTIAL"}

\* What is exported is what was validated: no record is added, and no result
\* missing, once the exports may read them.
ExportedDataIsValidated ==
    job.status \in {"EXPORTING", "COMPLETED"} =>
        validation = [status |-> "COMPLETED", results |-> records]

-----------------------------------------------------------------------------
(* Files *)

\* A completed job delivers every requested format: its file row exists and so
\* do the bytes the row points to.
CompletedMeansDelivered ==
    job.status = "COMPLETED" =>
        \A f \in Formats : \E file \in files : file.format = f /\ file.blob \in store

\* No format is published twice.
OneFilePerFormat ==
    \A a, b \in files : a.format = b.format => a = b

\* Every blob belongs to a file or to an upload in progress: a refused or
\* failed export cleans up after itself.
EveryBlobIsOwned == store \subseteq BlobsOfFiles \cup BlobsInFlight

-----------------------------------------------------------------------------
(* Liveness *)

\* Every accepted job ends.
EventuallyEnds == <>(job.status \in Terminal)

-----------------------------------------------------------------------------
(* A promise of the documentation that the code does not keep: the property *)
(* of a run that TLC refutes.                                               *)

\* job-lifecycle.md, Failure handling: "lease timeout allow recovery of
\* abandoned work".  The key of the recovery command may exist already.
ExpiredLeaseIsRecovered ==
    (job.status \in Active /\ job.lease = "expired") ~> job.lease # "expired"

=============================================================================
