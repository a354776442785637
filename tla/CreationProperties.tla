-------------------------- MODULE CreationProperties --------------------------
(***************************************************************************)
(* What concurrent, repeated and interrupted POST /api/jobs must keep.     *)
(***************************************************************************)
EXTENDS JobCreation

KeyOf(job) == command[job.id[1]].key

Promise == INSTANCE IdempotentCreation
    WITH jobs <- {[id |-> job.id, key |-> KeyOf(job), body |-> job.body] : job \in db.jobs}

\* create_job implements IdempotentCreation: whatever requests overlap, get lost
\* and are repeated, every answer is true of a committed job and a key keeps it.
KeepsItsPromise == Promise!PromiseSpec

\* services.py:181: "concurrent safe retries observe the committed original
\* row".  A key never has two jobs, also when an answer was lost after the
\* commit and the client posts again.
OneJobPerKey ==
    \A a, b \in db.jobs : KeyOf(a) = KeyOf(b) /\ KeyOf(a) # None => a = b

\* A committed job can be worked on: its source, first event and planning
\* command are committed too.
JobsAreComplete ==
    \A job \in db.jobs :
        /\ UrlOf[job.body] \in db.sources
        /\ job.id \in db.announced
        /\ job.id \in db.outbox

\* Requests under one key never fail each other: the only race that answers 500
\* is two keys (or none) introducing the same new URL at once.
OnlyForeignCollisions ==
    \A r \in Requests : answer[r].code = "error" =>
        \E q \in Requests \ {r} :
            /\ Url(q) = Url(r) /\ sent[q] > 0
            /\ command[q].key # command[r].key \/ command[r].key = None

\* Every request the server has received is answered, or cut off: the lock, the
\* index waits and their order never leave transactions waiting on each other.
EveryRequestIsAnswered ==
    \A r \in Requests : at[r] \notin {"idle", "answered"} ~> at[r] = "answered"

\* The planning command of a committed job reaches the queue, whether or not the
\* request lived to publish it.
EveryJobIsDispatched ==
    \A id \in Requests \X (1..MaxSubmissions) : id \in db.outbox ~> id \in published

=============================================================================
