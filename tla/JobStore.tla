------------------------------- MODULE JobStore -------------------------------
(***************************************************************************)
(* The durable state of one extraction job (the tables of models.py), the  *)
(* Redis queue that carries its commands, the worker slots that run them,  *)
(* and the helpers every handler of services.py is built from.             *)
(*                                                                         *)
(* A handler is one PostgreSQL transaction that begins with a SELECT ...   *)
(* FOR UPDATE of the job row, so the handlers of a job are serialised: each *)
(* is one atomic action here.  The work between two handlers (planner,     *)
(* browser, rendering) happens while the operation sits in `running'.      *)
(***************************************************************************)
EXTENDS Integers, Sequences, FiniteSets, JobDomain

CONSTANTS
    Workers,            \* worker slots (arq max_jobs, over all processes)
    Clients,            \* API requests that may ask for cancellation
    Pages,              \* canonical URLs the site may link to
    Rank,               \* their order by discovered_at, id: a URL gets its row once
    SourcePage,         \* the captured source page
    SitemapPage,        \* default_sitemap_url, or None when sitemaps are disabled
    Items,              \* record positions one page may yield
    Formats,            \* output_formats of the job
    Blobs,              \* storage keys: a bound on simultaneously live uploads
    None,               \* null
    MaxPages,           \* min(discovery_max_pages, plan.limits.max_pages)
    MaxDepth,           \* discovery_max_depth
    MaxRecords,         \* min(extraction_max_records, plan.limits.max_records)
    MaxAttempts,        \* extraction_jobs.max_attempts
    PlannerRetries,     \* planner_max_retries, also the discovery budget
    ExtractionRetries,  \* extraction_max_retries
    ValidationRetries,  \* the literal 2 of run_validation
    ExportRetries,      \* export_max_retries
    Retryable,          \* commands whose operations may fail transiently
    Faults,             \* <<kind, command type>> pairs the environment may inject
    MaxFaults,          \* bound on injected faults
    StaleLeases,        \* may a lease lapse while an operation still runs?
    RacingCancel        \* may a commit land between cancel()'s read and write?

CommandType == {"run_planning", "run_browser_capture", "run_discovery",
                "run_extraction", "run_validation", "run_export"}

FaultKind == {"crash", "abandon", "redeliver", "lose", "late"}

ASSUME StoreAssumption ==
    /\ SourcePage \in Pages
    /\ SitemapPage \in (Pages \ {SourcePage}) \cup {None}
    /\ None \notin Pages \cup Formats \cup Blobs
    /\ IsFiniteSet(Pages) /\ IsFiniteSet(Items) /\ Pages \cap Formats = {}
    /\ Rank \in [Pages -> Nat]
    /\ \A p, q \in Pages : Rank[p] = Rank[q] => p = q
    /\ Formats # {}
    /\ MaxPages \in Nat \ {0} /\ MaxDepth \in Nat /\ MaxRecords \in Nat
    /\ MaxAttempts \in Nat /\ PlannerRetries \in Nat /\ ExtractionRetries \in Nat
    /\ ValidationRetries \in Nat /\ ExportRetries \in Nat /\ MaxFaults \in Nat
    /\ Retryable \subseteq CommandType
    /\ Faults \subseteq FaultKind \X CommandType
    /\ StaleLeases \in BOOLEAN /\ RacingCancel \in BOOLEAN

VARIABLES
    job,        \* the extraction_jobs row
    events,     \* stages announced by its lifecycle progress_events
    outbox,     \* work_outbox: every command ever inserted
    published,  \* those whose published_at is set
    queue,      \* commands arq holds, the ones being executed included
    running,    \* operation in each worker slot, or None
    pages,      \* the page inventory
    records,    \* extracted records, identified by page and position
    validation, \* the validation run and the records it holds results for
    exports,    \* export_jobs, one per format
    files,      \* generated_files rows
    store,      \* blobs in the artifact store
    clients,    \* what each cancel request has read of the job
    faults      \* injected so far

jobVars == <<job, events>>
queueVars == <<outbox, published, queue>>
dataVars == <<pages, records, validation, exports, files, store>>
vars == <<jobVars, queueVars, dataVars, running, clients, faults>>

-----------------------------------------------------------------------------
(* Row types *)

Lease == {"none", "live", "expired"}

JobRow == [status : JobStatus, version : Nat, progress : 0..100, attempt : Nat,
           cancelRequested : BOOLEAN, lease : Lease]

PageStatus == {"absent", "DISCOVERED", "QUEUED", "VISITED", "REJECTED", "SKIPPED", "FAILED"}

ExtractionStatus == {"none", "PENDING", "EXTRACTING", "EXTRACTED", "PARTIAL", "FAILED"}

PageRow == [status : PageStatus, depth : Nat, extraction : ExtractionStatus]

ExportRow == [status : {"absent", "QUEUED", "RUNNING", "COMPLETED", "FAILED", "CANCELLED"},
              attempt : Nat]

ValidationRow == [status : {"absent", "QUEUED", "RUNNING", "COMPLETED"},
                  results : SUBSET (Pages \X Items)]

Target == Pages \cup Formats \cup {None}

KeyKind == {"planning", "browser", "discovery:source", "discovery:page", "discovery",
            "extraction", "extraction:page", "validation:run", "export"}

\* operation_key, e.g. job:{id}:discovery:page:{page}:1
Key == KeyKind \X Target \X Nat

\* The units of work an operation of each type claims.
WorkOf(type) ==
    CASE type \in {"run_discovery", "run_extraction"} -> Pages
      [] type = "run_export"                          -> Formats
      [] OTHER                                        -> {None}

\* A work_outbox row: what to run, under which key, on which page or export;
\* only the first extraction command leaves the page open.
Command ==
    {c \in [type : CommandType, key : Key, target : Target, attempt : Nat] :
        \/ c.target \in WorkOf(c.type)
        \/ c.type = "run_extraction" /\ c.target = None}

\* A claimed operation: its command, the page or export claimed, the blob it
\* uploaded and how far an export has come.
Operation ==
    {o \in [cmd : Command, target : Target, blob : Blobs \cup {None},
            step : {"working", "stored", "committed"}] :
        /\ o.target \in WorkOf(o.cmd.type)
        /\ o.step # "working" => o.blob # None}

\* Null is no operation: an empty slot is told from a busy one.
ASSUME NullAssumption == None \notin Operation

\* A cancel request and the row it has read.
CancelRequest == [phase : {"idle", "read", "answered"}, row : JobRow]

-----------------------------------------------------------------------------
(* The job row *)

AtLeast(x, y) == IF x < y THEN y ELSE x
AtMost(x, y) == IF x < y THEN x ELSE y

\* Slip: a completing handler forgets lease_expires_at = None.
LeaseKept(j) == j

Leased(j) == [j EXCEPT !.lease = "live"]
Released(j) == [j EXCEPT !.lease = "none"]

\* Slip: the percentages of the stages are added up.
ProgressSummed(j, percent) == [j EXCEPT !.progress = @ + percent]

Advanced(j, percent) == [j EXCEPT !.progress = AtLeast(@, percent)]

\* transition(): the status, its version, and the lifecycle event.
Transition(j, to) ==
    /\ job' = [j EXCEPT !.status = to,
                        !.version = @ + 1,
                        !.progress = IF to = "CANCELLED" THEN AtMost(@, 99) ELSE @]
    /\ events' = Append(events, to)

\* Slip: the handler trusts the claim and checks neither status nor flag.
AcceptsAlways(statuses) == TRUE

\* A handler's status check together with `if job.cancel_requested_at'.
Accepts(statuses) == job.status \in statuses /\ ~job.cancelRequested

\* What a handler that does not accept does to the job: acknowledge a requested
\* cancellation, otherwise return or raise with nothing written.
AcknowledgeOrIgnore(statuses) ==
    IF job.status \in statuses /\ job.cancelRequested
    THEN Transition(job, "CANCELLED")
    ELSE UNCHANGED jobVars

-----------------------------------------------------------------------------
(* The outbox and the queue *)

NewCommand(type, kind, target, subject, n) ==
    [type |-> type, key |-> <<kind, target, n>>, target |-> subject, attempt |-> n]

\* uq_outbox_operation_key: inserting any other row aborts the transaction.
Fresh(c) == \A o \in outbox : o.key # c.key

Insert(c) == outbox' = outbox \cup {c}

Pending == outbox \ published

\* arq hands a queued command to a free slot; the in-progress key keeps it
\* from a second slot while the first still runs it.
Delivered(w, c, type) ==
    /\ running[w] = None
    /\ c \in queue /\ c.type = type
    /\ \A v \in Workers : running[v] # None => running[v].cmd # c

\* The handler claimed work and the slot is busy with it.
Begin(w, c, subject) ==
    /\ running' = [running EXCEPT ![w] =
            [cmd |-> c, target |-> subject, blob |-> None, step |-> "working"]]
    /\ UNCHANGED queue

\* The handler had nothing to do, or raised: arq deletes the message.
Discard(c) ==
    /\ queue' = queue \ {c}
    /\ UNCHANGED running

Working(w, type) == running[w] # None /\ running[w].cmd.type = type

\* The arq job function returned, or raised anything but Retry.
Finish(w) ==
    /\ queue' = queue \ {running[w].cmd}
    /\ running' = [running EXCEPT ![w] = None]

\* Slip: the retry is recorded but Retry is not raised, so arq drops the message.
RetryNotRaised(w) ==
    /\ queue' = queue \ {running[w].cmd}
    /\ running' = [running EXCEPT ![w] = None]

\* It raised Retry: the same message is redelivered after the delay.
Requeue(w) ==
    /\ running' = [running EXCEPT ![w] = None]
    /\ UNCHANGED queue

-----------------------------------------------------------------------------
(* The tail the fail_* handlers share: release the lease, spend an attempt *)
(* on a transient failure, and fail the job once the budget is spent.      *)

FailedRow(retryable) ==
    [Released(job) EXCEPT !.attempt = IF retryable THEN @ + 1 ELSE @]

WillRetry(retryable, budget) == retryable /\ job.attempt + 1 <= budget

RetryOrFail(w, retryable, budget) ==
    IF WillRetry(retryable, budget)
    THEN /\ job' = FailedRow(retryable)
         /\ UNCHANGED events
         /\ Requeue(w)
    ELSE /\ Transition(FailedRow(retryable), "FAILED")
         /\ Finish(w)

\* Is this failure of a `type' operation transient?
FailureOf(type) == IF type \in Retryable THEN BOOLEAN ELSE {FALSE}

-----------------------------------------------------------------------------
(* The inventory *)

\* Slip: ORDER BY depth alone.
Shallowest(S, inventory) ==
    {p \in S : \A q \in S : inventory[p].depth <= inventory[q].depth}

\* ORDER BY depth, discovered_at, id: the row of S that comes first.
Foremost(S, inventory) ==
    {p \in S : \A q \in S :
        \/ inventory[p].depth < inventory[q].depth
        \/ inventory[p].depth = inventory[q].depth /\ Rank[p] <= Rank[q]}

=============================================================================
