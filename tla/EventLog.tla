------------------------------- MODULE EventLog -------------------------------
(***************************************************************************)
(* The progress_events of one job as its transactions write them: worker   *)
(* handlers, the recovery cron and cancel() each lock the job row, append  *)
(* events numbered MAX(sequence_no) + 1, and commit or roll back.  The     *)
(* unique (job_id, sequence_no) is left out: the lock has to do without.   *)
(* cancel() decides by a status it read before it had the lock, so that it *)
(* may announce CANCELLED after another ending.                            *)
(***************************************************************************)
EXTENDS Integers, SequencesExt, JobDomain

CONSTANTS
    Writers,    \* transactions of handlers and cron that may be open at once
    Cancels,    \* cancel requests that may be open at once
    MaxEvents,  \* bound on the events of the job
    None        \* null

Transactions == Writers \cup Cancels

ASSUME LogAssumption ==
    /\ None \notin JobStatus \cup Transactions
    /\ Writers \cap Cancels = {}
    /\ MaxEvents \in Nat \ {0}

VARIABLES
    status,     \* committed status of the job
    log,        \* sequence_no of the committed events, in commit order
    row,        \* holder of the job row's lock, or None
    draft,      \* status and events a transaction has flushed
    read,       \* status a cancel request has read without the lock, or None
    endings     \* history: the events that announced an end of the job

logVars == <<status, log, row, draft, read, endings>>

Draft == [status : JobStatus, events : Seq(Nat \ {0})]

Ending == [no : Nat \ {0}, status : Terminal]

NoDraft == [status |-> "QUEUED", events |-> <<>>]

HighestNo(events) == Max({0} \cup ToSet(events))

-----------------------------------------------------------------------------

\* Slip: the row is read without FOR UPDATE.
AlwaysFree == TRUE

\* SELECT ... FOR UPDATE waits while another transaction holds the row.
RowIsFree == row = None

Lock(w, seen) ==
    /\ RowIsFree
    /\ row # w /\ draft[w] = NoDraft
    /\ row' = w
    /\ draft' = [draft EXCEPT ![w].status = seen]
    /\ UNCHANGED <<status, log, endings>>

\* A handler reads the status under the lock and leaves an ended job.  (Only the
\* retry branch of fail_browser_capture does not ask, and no error leads there.)
Begin(w) ==
    /\ status \notin Terminal
    /\ Lock(w, status)
    /\ UNCHANGED read

\* cancel(): get_job and the status checks, which turn an ended job away.
ReadToCancel(k) ==
    /\ read[k] = None
    /\ status \notin Terminal
    /\ read' = [read EXCEPT ![k] = status]
    /\ UNCHANGED <<status, log, row, draft, endings>>

\* transition() locks the row, but keeps the columns of the first read.
BeginCancel(k) ==
    /\ read[k] # None
    /\ Lock(k, read[k])
    /\ read' = [read EXCEPT ![k] = None]

\* _append_event: MAX over what is committed and what this transaction flushed.
NextNo(w) == HighestNo(log \o draft[w].events) + 1

\* An event is added and flushed; cancel() adds one.
AppendEvent(w) ==
    /\ row = w
    /\ w \in Cancels => draft[w].events = <<>>
    /\ Len(log) + Len(draft[w].events) < MaxEvents
    /\ draft' = [draft EXCEPT ![w].events = Append(@, NextNo(w))]
    /\ UNCHANGED <<status, log, row, read, endings>>

Release(w) == row' = IF row = w THEN None ELSE row

\* A handler stays in the status it has read or moves on from it.
Outcomes(w) ==
    IF w \in Cancels THEN AllowedTransitions[draft[w].status] \cap {"CANCELLED"}
    ELSE {draft[w].status} \cup AllowedTransitions[draft[w].status]

\* COMMIT, of progress events only or with a move of the job, which the last of
\* them announces.
CommitEvents(w) ==
    /\ draft[w].events # <<>>
    /\ status' \in Outcomes(w)
    /\ endings' = endings \cup
            (IF status' \in Terminal
             THEN {[no |-> Last(draft[w].events), status |-> status']} ELSE {})
    /\ log' = log \o draft[w].events
    /\ draft' = [draft EXCEPT ![w] = NoDraft]
    /\ Release(w)
    /\ UNCHANGED read

\* The handler raised, or its process died.
RollBackEvents(w) ==
    /\ row = w
    /\ draft' = [draft EXCEPT ![w] = NoDraft]
    /\ Release(w)
    /\ UNCHANGED <<status, log, read, endings>>

LogInit ==
    /\ status = "QUEUED"
    /\ log = <<1>>
    /\ row = None
    /\ draft = [w \in Transactions |-> NoDraft]
    /\ read = [k \in Cancels |-> None]
    /\ endings = {}

LogStep ==
    \/ \E w \in Writers : Begin(w)
    \/ \E k \in Cancels : ReadToCancel(k) \/ BeginCancel(k)
    \/ \E w \in Transactions : AppendEvent(w) \/ CommitEvents(w) \/ RollBackEvents(w)

LogTypeOK ==
    /\ status \in JobStatus
    /\ log \in Seq(Nat \ {0})
    /\ row \in Transactions \cup {None}
    /\ draft \in [Transactions -> Draft]
    /\ read \in [Cancels -> (JobStatus \ Terminal) \cup {None}]
    /\ endings \subseteq Ending

=============================================================================
