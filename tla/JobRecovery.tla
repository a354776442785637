----------------------------- MODULE JobRecovery -----------------------------
(***************************************************************************)
(* The cron that publishes the outbox and re-queues the work of expired    *)
(* leases, the passing of time on a lease, and the failures of processes   *)
(* and transport the design must live with.                                *)
(***************************************************************************)
EXTENDS JobStore

\* dispatch_pending: any part of the pending commands, since a recovered
\* command is held back by available_at and a locked row is skipped.
Publish(S) ==
    /\ queue' = queue \cup S
    /\ published' = published \cup S

Dispatch ==
    /\ \E S \in SUBSET Pending \ {{}} : Publish(S)
    /\ UNCHANGED <<jobVars, outbox, running, dataVars, clients, faults>>

\* A lease outlives the 120 s job_timeout of the operation it covers unless
\* worker_lease_seconds is configured below it.
LeaseExpires ==
    /\ job.lease = "live"
    /\ StaleLeases \/ \A w \in Workers : running[w] = None
    /\ job' = [job EXCEPT !.lease = "expired"]
    /\ UNCHANGED <<events, queueVars, running, dataVars, clients, faults>>

-----------------------------------------------------------------------------
(* recover_expired_leases *)

Recoverable == job.status \in Active /\ job.lease = "expired" /\ ~job.cancelRequested

RecoveredRow == [Released(job) EXCEPT !.attempt = @ + 1]

\* The phase a recovered job is sent back to; EXTRACTING and VALIDATING have
\* none of their own and fall through to planning.
RecoveryPhase ==
    CASE job.status = "BROWSER_INITIALIZING" -> "browser"
      [] job.status = "DISCOVERING"          -> "discovery"
      [] job.status = "EXPORTING"            -> "export"
      [] OTHER                               -> "planning"

RecoveryType == [browser |-> "run_browser_capture", discovery |-> "run_discovery",
                 export |-> "run_export", planning |-> "run_planning"]

\* The inventory page or interrupted export to work on again.
RecoveryTargets ==
    CASE RecoveryPhase = "discovery" ->
            Foremost({p \in Pages : pages[p].status \in {"QUEUED", "DISCOVERED"}}, pages)
      [] RecoveryPhase = "export" -> {f \in Formats : exports[f].status = "RUNNING"}
      [] OTHER -> {None}

\* export.attempt = max(export.attempt, job.attempt) + 1
RecoveredExportAttempt(f) == AtLeast(exports[f].attempt, RecoveredRow.attempt) + 1

RecoveryCommand(t) ==
    LET n == RecoveredRow.attempt
    IN [type    |-> RecoveryType[RecoveryPhase],
        key     |-> IF RecoveryPhase = "export"
                    THEN <<"export", t, RecoveredExportAttempt(t)>>
                    ELSE <<RecoveryPhase, None, n>>,
        target  |-> t,
        attempt |-> n]

\* The cron transaction: recovery, then dispatch of what was pending before it.
\* Committed for a job whose retry budget is spent: status and event are
\* written without transition(), so status_version stays behind.
RecoverExhausted ==
    /\ Recoverable /\ RecoveredRow.attempt > MaxAttempts
    /\ job' = [RecoveredRow EXCEPT !.status = "FAILED"]
    /\ events' = Append(events, "FAILED")
    /\ \E S \in SUBSET Pending : Publish(S)
    /\ UNCHANGED <<outbox, running, dataVars, clients, faults>>

\* Committed with a new command for the abandoned work.
RecoverWork(t) ==
    /\ Fresh(RecoveryCommand(t))
    /\ job' = RecoveredRow
    /\ Insert(RecoveryCommand(t))
    /\ IF t \in Pages
       THEN pages' = [pages EXCEPT ![t].status = "DISCOVERED"] ELSE UNCHANGED pages
    /\ IF t \in Formats
       THEN exports' = [exports EXCEPT ![t] = [status |-> "QUEUED",
                                               attempt |-> RecoveredExportAttempt(t)]]
       ELSE UNCHANGED exports
    /\ \E S \in SUBSET Pending : Publish(S)

\* The key exists already: the commit fails and the transaction is rolled back,
\* except for what dispatch has handed to Redis.
RecoverRolledBack(t) ==
    /\ ~Fresh(RecoveryCommand(t))
    /\ \E S \in SUBSET Pending : queue' = queue \cup S
    /\ UNCHANGED <<job, outbox, published, pages, exports>>

\* Nothing to work on: the lease is given up and the attempt spent all the same.
RecoverNothing ==
    /\ job' = RecoveredRow
    /\ \E S \in SUBSET Pending : Publish(S)
    /\ UNCHANGED <<outbox, pages, exports>>

RecoverLease ==
    /\ Recoverable /\ RecoveredRow.attempt <= MaxAttempts
    /\ IF RecoveryTargets = {} THEN RecoverNothing
       ELSE \E t \in RecoveryTargets : RecoverWork(t) \/ RecoverRolledBack(t)
    /\ UNCHANGED <<events, running, records, validation, files, store, clients, faults>>

-----------------------------------------------------------------------------
(* Faults *)

Inject(kind, type) ==
    /\ <<kind, type>> \in Faults
    /\ faults < MaxFaults
    /\ faults' = faults + 1

\* The worker process dies: nothing is written, arq redelivers the message.
Crash(w) ==
    /\ running[w] # None
    /\ Inject("crash", running[w].cmd.type)
    /\ Requeue(w)
    /\ UNCHANGED <<jobVars, outbox, published, dataVars, clients>>

\* job_timeout, or an exception the worker function does not catch (every
\* transient browser error is one): arq deletes the message and nothing else.
Abandon(w) ==
    /\ running[w] # None
    /\ Inject("abandon", running[w].cmd.type)
    /\ Finish(w)
    /\ UNCHANGED <<jobVars, outbox, published, dataVars, clients>>

\* A command is enqueued again: the transaction that published it did not
\* commit, and the first copy has been executed meanwhile.
Redeliver(c) ==
    /\ c \in published \ queue
    /\ Inject("redeliver", c.type)
    /\ queue' = queue \cup {c}
    /\ UNCHANGED <<jobVars, outbox, published, running, dataVars, clients>>

\* Redis loses a message it had accepted.
Lose(c) ==
    /\ c \in queue
    /\ \A w \in Workers : running[w] # None => running[w].cmd # c
    /\ Inject("lose", c.type)
    /\ queue' = queue \ {c}
    /\ UNCHANGED <<jobVars, outbox, published, running, dataVars, clients>>

RecoveryStep ==
    \/ Dispatch \/ LeaseExpires \/ RecoverExhausted \/ RecoverLease

FaultStep ==
    \/ \E w \in Workers : Crash(w) \/ Abandon(w)
    \/ \E c \in outbox : Redeliver(c) \/ Lose(c)

=============================================================================
