----------------------------- MODULE JobCreation -----------------------------
(***************************************************************************)
(* POST /api/jobs: concurrent create_job transactions of one project, with *)
(* the advisory lock that serialises one Idempotency-Key, the unique       *)
(* indexes behind it, lost answers, client retries and the dispatch that   *)
(* follows the commit.  PostgreSQL runs each statement on a snapshot of    *)
(* what is committed, so a step here is one statement that reads or waits. *)
(***************************************************************************)
EXTENDS Naturals, FiniteSets

CONSTANTS
    Requests,       \* clients posting a job
    Keys,           \* Idempotency-Key values
    Bodies,         \* request bodies, as far as request_fingerprint tells them apart
    Foreign,        \* those that name a project the caller does not own
    Posts,          \* the requests clients may post: a key or None, and a body
    Urls,           \* canonical source URLs
    UrlOf,          \* the canonical URL of a body, None when validate_initial_url rejects it
    None,           \* null
    MaxSubmissions, \* bound on how often a client sends its request
    MaxFaults       \* bound on requests cut off by the environment

ASSUME CreationAssumption ==
    /\ None \notin Requests \cup Keys \cup Urls
    /\ Foreign \subseteq Bodies
    /\ Posts \subseteq [key : Keys \cup {None}, body : Bodies]
    /\ UrlOf \in [Bodies -> Urls \cup {None}]
    /\ MaxSubmissions \in Nat /\ MaxFaults \in Nat

VARIABLES
    command,    \* what each client posts
    sent,       \* how often it has posted it
    at,         \* where the transaction of its current request stands
    lock,       \* holder of pg_advisory_xact_lock per key
    written,    \* rows a transaction has flushed and not committed
    db,         \* committed rows
    published,  \* commands handed to arq
    answer,     \* what the client knows
    faults      \* requests cut off so far

creationVars == <<command, sent, at, lock, written, db, published, answer, faults>>

-----------------------------------------------------------------------------
(* Rows *)

\* A job's id is a fresh UUID: the request and submission that made it.
JobId == Requests \X Nat

JobRow == [id : JobId, body : Bodies]
KeyRow == [key : Keys, body : Bodies, job : JobId]

\* Rows of sources, extraction_jobs, progress_events (job_queued), work_outbox
\* (planning:1) and idempotency_keys.
Rows == [sources : SUBSET Urls, jobs : SUBSET JobRow, announced : SUBSET JobId,
         outbox : SUBSET JobId, keys : SUBSET KeyRow]

NoRows == [sources |-> {}, jobs |-> {}, announced |-> {}, outbox |-> {}, keys |-> {}]

Merge(a, b) == [sources   |-> a.sources \cup b.sources,
                jobs      |-> a.jobs \cup b.jobs,
                announced |-> a.announced \cup b.announced,
                outbox    |-> a.outbox \cup b.outbox,
                keys      |-> a.keys \cup b.keys]

Phase == {"idle", "locking", "building", "sourceless", "sourced", "flushed", "committed",
          "answered"}

Code == {"none", "accepted", "conflict", "invalid", "forbidden", "error", "lost"}

Answer == [code : Code, job : JobId \cup {None}]

Saying(code) == [code |-> code, job |-> None]
Accepted(id) == [code |-> "accepted", job |-> id]

Url(r) == UrlOf[command[r].body]
NewJob(r) == <<r, sent[r]>>

\* Committed key rows under the request's key, as any transaction reads them.
Existing(r) == {row \in db.keys : row.key = command[r].key}

-----------------------------------------------------------------------------
(* Ends of a transaction *)

\* Slip: pg_advisory_lock instead of pg_advisory_xact_lock: only a request that
\* creates a job gives the key back.
LockKept(r) ==
    lock' = [k \in Keys |-> IF lock[k] = r /\ at[r] = "flushed" THEN None ELSE lock[k]]

\* pg_advisory_xact_lock is released by commit and by rollback.
Unlock(r) == lock' = [k \in Keys |-> IF lock[k] = r THEN None ELSE lock[k]]

\* The transaction ends without a row, and the client is answered.
EndWith(r, reply) ==
    /\ Unlock(r)
    /\ written' = [written EXCEPT ![r] = NoRows]
    /\ at' = [at EXCEPT ![r] = "answered"]
    /\ answer' = [answer EXCEPT ![r] = reply]
    /\ UNCHANGED db

\* The handler raised: the session rolls back.
RollBack(r, reply) == EndWith(r, reply) /\ UNCHANGED published

Pending == db.outbox \ published

\* dispatch_pending in a transaction of its own; its failure is only logged.
Dispatch == \E S \in SUBSET Pending : published' = published \cup S

-----------------------------------------------------------------------------
(* create_job *)

\* A client sends its request; one whose answer was lost sends it again.
Send(r) ==
    /\ \/ at[r] = "idle"
       \/ at[r] = "answered" /\ answer[r].code = "lost"
    /\ sent[r] < MaxSubmissions
    /\ command[r].body \notin Foreign
    /\ sent' = [sent EXCEPT ![r] = @ + 1]
    /\ answer' = [answer EXCEPT ![r] = Saying("none")]
    /\ at' = [at EXCEPT ![r] = IF command[r].key = None THEN "building" ELSE "locking"]
    /\ UNCHANGED <<command, lock, written, db, published, faults>>

\* assert_project_access: the project is not the caller's.
SendForeign(r) ==
    /\ at[r] = "idle" /\ command[r].body \in Foreign
    /\ RollBack(r, Saying("forbidden"))
    /\ UNCHANGED <<command, sent, faults>>

\* Slip: the stored fingerprint is not compared.
ReplayAny(r, rows) == \E row \in rows : EndWith(r, Accepted(row.job)) /\ Dispatch

\* A request under a known key: the original job, and a dispatch as after any
\* accepted request, or IDEMPOTENCY_CONFLICT.
Replay(r, rows) ==
    \E row \in rows :
        IF row.body = command[r].body THEN EndWith(r, Accepted(row.job)) /\ Dispatch
        ELSE RollBack(r, Saying("conflict"))

\* Slip: two keys share no lock, nor do two requests with one key.
LockFree(r) == TRUE

\* pg_advisory_xact_lock waits for the transaction that holds the key.
CanLock(r) == lock[command[r].key] = None

\* The lock, and the SELECT that now sees what its last holder committed.
LookUpKey(r) ==
    /\ at[r] = "locking"
    /\ CanLock(r)
    /\ IF Existing(r) # {} THEN Replay(r, Existing(r))
       ELSE /\ lock' = [lock EXCEPT ![command[r].key] = r]
            /\ at' = [at EXCEPT ![r] = "building"]
            /\ UNCHANGED <<written, db, published, answer>>
    /\ UNCHANGED <<command, sent, faults>>

\* Slip: the source is taken from a cache the other requests share.
SourceCached(u) == u \in db.sources \/ \E q \in Requests : u \in written[q].sources

SourceExists(u) == u \in db.sources

\* validate_initial_url, and the SELECT on sources.
FindSource(r) ==
    /\ at[r] = "building"
    /\ IF Url(r) = None THEN RollBack(r, Saying("invalid"))
       ELSE /\ at' = [at EXCEPT ![r] = IF SourceExists(Url(r)) THEN "sourced" ELSE "sourceless"]
            /\ UNCHANGED <<lock, written, db, published, answer>>
    /\ UNCHANGED <<command, sent, faults>>

\* INSERT INTO sources: waits for an open transaction that inserted the same URL
\* and fails, uncaught, when that one has committed.
InsertSource(r) ==
    /\ at[r] = "sourceless"
    /\ \A q \in Requests \ {r} : Url(r) \notin written[q].sources
    /\ IF Url(r) \in db.sources THEN RollBack(r, Saying("error"))
       ELSE /\ written' = [written EXCEPT ![r].sources = @ \cup {Url(r)}]
            /\ at' = [at EXCEPT ![r] = "sourced"]
            /\ UNCHANGED <<lock, db, published, answer>>
    /\ UNCHANGED <<command, sent, faults>>

\* Slip: the job is stored without the row that remembers its key.
KeyForgotten(r) == {}

\* The idempotency_keys row of a request.
NewKey(r) ==
    IF command[r].key = None THEN {}
    ELSE {[key |-> command[r].key, body |-> command[r].body, job |-> NewJob(r)]}

\* The job, its first event, its planning command and its key.
JobRows(r) == [sources |-> {}, jobs |-> {[id |-> NewJob(r), body |-> command[r].body]},
               announced |-> {NewJob(r)}, outbox |-> {NewJob(r)}, keys |-> NewKey(r)]

\* The IntegrityError branch: a request with the same key has committed first.
KeyCollided(r) ==
    IF \E row \in Existing(r) : row.body = command[r].body
    THEN Replay(r, Existing(r))
    ELSE RollBack(r, Saying("error"))

\* The flush of all rows; the index on the key makes it wait like InsertSource.
InsertJob(r) ==
    /\ at[r] = "sourced"
    /\ \A q \in Requests \ {r} : \A row \in written[q].keys : row.key # command[r].key
    /\ IF Existing(r) # {} THEN KeyCollided(r)
       ELSE /\ written' = [written EXCEPT ![r] = Merge(@, JobRows(r))]
            /\ at' = [at EXCEPT ![r] = "flushed"]
            /\ UNCHANGED <<lock, db, published, answer>>
    /\ UNCHANGED <<command, sent, faults>>

Commit(r) ==
    /\ at[r] = "flushed"
    /\ db' = Merge(db, written[r])
    /\ written' = [written EXCEPT ![r] = NoRows]
    /\ Unlock(r)
    /\ at' = [at EXCEPT ![r] = "committed"]
    /\ UNCHANGED <<command, sent, published, answer, faults>>

-----------------------------------------------------------------------------
(* After the commit *)

\* What was committed is dispatched, and the client gets its answer.
Respond(r) ==
    /\ at[r] = "committed"
    /\ Dispatch
    /\ at' = [at EXCEPT ![r] = "answered"]
    /\ answer' = [answer EXCEPT ![r] = Accepted(NewJob(r))]
    /\ UNCHANGED <<command, sent, lock, written, db, faults>>

\* Slip: the cron looks only at commands of jobs whose client got its answer.
AnsweredOnly == {id \in Pending : \E r \in Requests : answer[r] = Accepted(id)}

\* What the cron's dispatch_pending selects.
Due == Pending

\* The worker's cron publishes what the API did not.
CronDispatch ==
    /\ Due # {}
    /\ published' = published \cup Due
    /\ UNCHANGED <<command, sent, at, lock, written, db, answer, faults>>

\* The process dies or the connection breaks: an open transaction is rolled
\* back, a committed one stays, and the client learns nothing.
CutOff(r) ==
    /\ at[r] \notin {"idle", "answered"}
    /\ faults < MaxFaults
    /\ faults' = faults + 1
    /\ RollBack(r, Saying("lost"))
    /\ UNCHANGED <<command, sent>>

-----------------------------------------------------------------------------

CreationInit ==
    /\ command \in [Requests -> Posts]
    /\ sent = [r \in Requests |-> 0]
    /\ at = [r \in Requests |-> "idle"]
    /\ lock = [k \in Keys |-> None]
    /\ written = [r \in Requests |-> NoRows]
    /\ db = NoRows
    /\ published = {}
    /\ answer = [r \in Requests |-> Saying("none")]
    /\ faults = 0

ServerStep(r) ==
    LookUpKey(r) \/ FindSource(r) \/ InsertSource(r) \/ InsertJob(r) \/ Commit(r) \/ Respond(r)

CreationNext ==
    \/ \E r \in Requests : Send(r) \/ SendForeign(r) \/ ServerStep(r) \/ CutOff(r)
    \/ CronDispatch

CreationSpec == CreationInit /\ [][CreationNext]_creationVars

\* A statement that can proceed does, and the cron runs.  Whether a client
\* sends, or sends again, is its own affair.
CreationFairness ==
    /\ \A r \in Requests : WF_creationVars(ServerStep(r))
    /\ WF_creationVars(CronDispatch)

FairCreationSpec == CreationSpec /\ CreationFairness

CreationTypeOK ==
    /\ command \in [Requests -> Posts]
    /\ sent \in [Requests -> Nat]
    /\ at \in [Requests -> Phase]
    /\ lock \in [Keys -> Requests \cup {None}]
    /\ written \in [Requests -> Rows]
    /\ db \in Rows
    /\ published \subseteq db.outbox
    /\ answer \in [Requests -> Answer]
    /\ faults \in 0..MaxFaults

=============================================================================
