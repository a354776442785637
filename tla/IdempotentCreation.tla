-------------------------- MODULE IdempotentCreation --------------------------
(***************************************************************************)
(* What POST /api/jobs promises its clients: a job comes into being at     *)
(* once and for good, an Idempotency-Key names at most one job, and every  *)
(* answer is true of the jobs there are.  JobCreation implements it.       *)
(***************************************************************************)
CONSTANTS Requests, None

VARIABLES
    command,    \* what each client posts
    jobs,       \* accepted jobs: id, key and body
    answer      \* what each client has been told

promiseVars == <<command, jobs, answer>>

PromiseInit ==
    /\ jobs = {}
    /\ answer = [r \in Requests |-> [code |-> "none", job |-> None]]

\* A job is accepted; its key was unused.
Accept(job) ==
    /\ \A other \in jobs :
            /\ other.id # job.id
            /\ job.key # None => other.key # job.key
    /\ jobs' = jobs \cup {job}
    /\ UNCHANGED <<command, answer>>

\* A client that does not know the outcome is told something: of an accepted
\* job it asked for, or that its key stands for another body.
Tell(r, reply) ==
    /\ answer[r].code \in {"none", "lost"}
    /\ reply.code = "accepted" =>
            \E job \in jobs :
                /\ job.id = reply.job
                /\ job.key = command[r].key /\ job.body = command[r].body
    /\ reply.code = "conflict" =>
            \E job \in jobs :
                job.key = command[r].key /\ job.key # None /\ job.body # command[r].body
    /\ answer' = [answer EXCEPT ![r] = reply]
    /\ UNCHANGED <<command, jobs>>

PromiseNext ==
    \/ \E job \in jobs' : Accept(job)
    \/ \E r \in Requests : Tell(r, answer'[r])

PromiseSpec == PromiseInit /\ [][PromiseNext]_promiseVars

=============================================================================
