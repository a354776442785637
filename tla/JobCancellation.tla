--------------------------- MODULE JobCancellation ---------------------------
(***************************************************************************)
(* cancel(): the job is read without a lock, then written under the row    *)
(* lock that transition() takes.  SELECT ... FOR UPDATE hands back the     *)
(* object the session has loaded already, with the columns of the first    *)
(* read, so the checks in between see that first read only.                *)
(***************************************************************************)
EXTENDS JobStore

\* get_job and the status checks; a terminal job is answered at once.
CancelRead(c) ==
    /\ clients[c].phase = "idle"
    /\ clients' = [clients EXCEPT ![c] =
            IF job.status \in Terminal THEN [@ EXCEPT !.phase = "answered"]
                                       ELSE [phase |-> "read", row |-> job]]
    /\ UNCHANGED <<jobVars, queueVars, running, dataVars, faults>>

\* transition() from the status read to CANCELLED.  Only the columns it assigns
\* are written: the lease, the attempt and the progress (99 at most in every
\* status that passes the checks) stay.
CancelWrite(c) ==
    /\ clients[c].phase = "read"
    /\ RacingCancel \/ clients[c].row = job
    /\ job' = [job EXCEPT !.status = "CANCELLED",
                          !.version = clients[c].row.version + 1,
                          !.cancelRequested = TRUE]
    /\ events' = Append(events, "CANCELLED")
    /\ clients' = [clients EXCEPT ![c].phase = "answered"]
    /\ UNCHANGED <<queueVars, running, dataVars, faults>>

CancelStep == \E c \in Clients : CancelRead(c) \/ CancelWrite(c)

=============================================================================
