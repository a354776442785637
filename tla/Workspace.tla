------------------------------- MODULE Workspace -------------------------------
(***************************************************************************)
(* The web workspace of one job (use-job-workspace.ts): what it shows, the *)
(* status requests in flight, and the EventSource it opens for every       *)
(* status it was shown.  The server names its events, and onmessage only   *)
(* fires for unnamed ones: the stream speaks to the hook through onerror.  *)
(***************************************************************************)
EXTENDS EventStream

CONSTANTS
    Refreshes   \* calls of refresh() that may overlap

ASSUME WorkspaceAssumption == Refreshes # {}

VARIABLES
    shown,      \* status on the page, or None
    refresh     \* what each call of refresh() waits for

workspaceVars == <<shown, refresh>>

RefreshState == [phase : {"idle", "timer", "asked", "answered"}, answer : JobStatus]

Idle == [phase |-> "idle", answer |-> "QUEUED"]

\* The calls are alike: the next one is any that is not under way.
NextCall(r) ==
    /\ refresh[r].phase = "idle"
    /\ r = CHOOSE q \in Refreshes : refresh[q].phase = "idle"

Wait(r, phase) == refresh' = [refresh EXCEPT ![r] = [Idle EXCEPT !.phase = phase]]

\* The page is opened with the job in its URL, or has just created it.
WorkspaceInit ==
    /\ shown = None
    /\ refresh = [r \in Refreshes |->
                    [Idle EXCEPT !.phase = IF r = CHOOSE q \in Refreshes : TRUE
                                           THEN "asked" ELSE "idle"]]

-----------------------------------------------------------------------------

\* The 1500 ms timer fires, whatever the page shows by now.
TimerFires(r) ==
    /\ refresh[r].phase = "timer"
    /\ Wait(r, "asked")
    /\ UNCHANGED <<logVars, streamVars, shown>>

\* GET /api/jobs/{id} reads the committed row.
AnswerRefresh(r) ==
    /\ refresh[r].phase = "asked"
    /\ refresh' = [refresh EXCEPT ![r] = [phase |-> "answered", answer |-> status]]
    /\ UNCHANGED <<logVars, streamVars, shown>>

\* setJob: the effect's clean-up closes the stream, and opens another unless
\* the status shown is terminal.
NextStream(seen) ==
    [stream EXCEPT ![Web] = [Closed EXCEPT !.phase = IF seen \in Terminal THEN "dropped" ELSE "closed"]]

\* Answers are applied as they arrive, an older one after a newer one too.
ApplyRefresh(r) ==
    /\ refresh[r].phase = "answered"
    /\ shown' = refresh[r].answer
    /\ stream' = NextStream(refresh[r].answer)
    /\ refresh' = [refresh EXCEPT ![r] = Idle]
    /\ UNCHANGED <<logVars, received, incidents>>

\* prepareEvents has renewed the session cookie: a stream from the start.
OpenEventSource ==
    /\ shown # None /\ stream[Web].phase = "closed"
    /\ OpenStream(Web, 0)
    /\ UNCHANGED <<logVars, received, incidents, workspaceVars>>

\* onerror, for a stream the server ended and for one that broke.
StreamFails(r) ==
    /\ stream[Web].phase \in {"ended", "broken"}
    /\ NextCall(r)
    /\ stream' = [stream EXCEPT ![Web] = [Closed EXCEPT !.phase = "dropped"]]
    /\ Wait(r, "timer")
    /\ UNCHANGED <<logVars, received, incidents, shown>>

\* cancel: its transaction is one of Cancels; the answer is then refreshed.
ClickCancel(r) ==
    /\ shown # None
    /\ incidents < MaxIncidents
    /\ NextCall(r)
    /\ incidents' = incidents + 1
    /\ Wait(r, "asked")
    /\ UNCHANGED <<logVars, stream, received, shown>>

WorkspaceStep ==
    \/ OpenEventSource
    \/ \E r \in Refreshes :
        TimerFires(r) \/ AnswerRefresh(r) \/ ApplyRefresh(r) \/ StreamFails(r) \/ ClickCancel(r)

-----------------------------------------------------------------------------

ProgressInit == LogInit /\ StreamInit /\ WorkspaceInit

ProgressNext ==
    \/ LogStep /\ UNCHANGED <<streamVars, workspaceVars>>
    \/ \E s \in Streams : (Poll(s) \/ BreakStream(s)) /\ UNCHANGED workspaceVars
    \/ \E c \in Clients : Connect(c) /\ UNCHANGED workspaceVars
    \/ WorkspaceStep

progressVars == <<logVars, streamVars, workspaceVars>>

ProgressSpec == ProgressInit /\ [][ProgressNext]_progressVars

\* The server's generators run, clients reconnect, timers fire and requests
\* are answered.  Nothing makes the job move, or a transaction commit.
FairProgressSpec ==
    /\ ProgressSpec
    /\ \A s \in Streams : WF_progressVars(Poll(s) /\ UNCHANGED workspaceVars)
    /\ \A c \in Clients : WF_progressVars(Connect(c) /\ UNCHANGED workspaceVars)
    /\ WF_progressVars(OpenEventSource)
    /\ WF_progressVars(\E r \in Refreshes : StreamFails(r))
    /\ \A r \in Refreshes :
        /\ WF_progressVars(TimerFires(r))
        /\ WF_progressVars(AnswerRefresh(r))
        /\ WF_progressVars(ApplyRefresh(r))

ProgressTypeOK ==
    /\ LogTypeOK
    /\ StreamTypeOK
    /\ shown \in JobStatus \cup {None}
    /\ refresh \in [Refreshes -> RefreshState]

=============================================================================
