-------------------------- MODULE ProgressProperties --------------------------
(***************************************************************************)
(* What the event log, the streams and the workspace promise.              *)
(***************************************************************************)
EXTENDS Workspace

\* The events of a job are numbered 1, 2, 3, ... in the order in which they
\* were committed, whichever transactions wrote them and rolled back.
LogIsGapless == \A i \in DOMAIN log : log[i] = i

\* Over all its connections a client gets every event once, in order: a
\* reconnect with Last-Event-ID repeats nothing and leaves nothing out.
NothingIsMissed == \A c \in Clients : \A i \in DOMAIN received[c] : received[c][i] = i

\* Every committed event reaches every client, up to the one that tells it of
\* an end of the job: the end itself is never missed, though a stream may close
\* before its last events are sent (their status is read after them).
EveryEventArrives ==
    \A c \in Clients : \A n \in 1..MaxEvents :
        (n <= Len(log)) ~> (n <= Len(received[c]) \/ Told(c))

\* Once the job has ended the workspace comes to show an end that was announced,
\* and from then on nothing else: late answers and timers of older streams do
\* not leave it running.  There is one such end, unless cancel() has overwritten
\* it: then the page may stay with the first.
EndIsShown == (status \in Terminal) ~> [](\E e \in endings : shown = e.status)

\* phase9-progress-results.md: the workspace refreshes the status on SSE
\* messages, so that it comes to show every status the job stays in.
WorkspaceFollowsJob == \A s \in JobStatus : (status = s) ~> (shown = s \/ status # s)

=============================================================================
