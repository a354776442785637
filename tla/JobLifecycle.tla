---------------------------- MODULE JobLifecycle ----------------------------
(***************************************************************************)
(* What the job service promises of one job: its status follows the graph  *)
(* of JobDomain, whose three terminal statuses have no way out, and every  *)
(* move appends one lifecycle event.  JobPipeline implements it.           *)
(***************************************************************************)
EXTENDS Sequences, JobDomain

VARIABLES
    status,     \* the job's status
    history     \* the statuses its lifecycle events announced, in order

lifecycleVars == <<status, history>>

LifecycleInit ==
    /\ status = "QUEUED"
    /\ history = <<"QUEUED">>

\* A compare-and-set move and the event that announces it, in one step.
Move(to) ==
    /\ to \in AllowedTransitions[status]
    /\ status' = to
    /\ history' = Append(history, to)

LifecycleNext == \E to \in JobStatus : Move(to)

LifecycleSpec == LifecycleInit /\ [][LifecycleNext]_lifecycleVars

=============================================================================
