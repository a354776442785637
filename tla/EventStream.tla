----------------------------- MODULE EventStream -----------------------------
(***************************************************************************)
(* GET /api/jobs/{id}/events: the generator that polls the event log, and  *)
(* the connection to its client.  Each poll reads the new events and then  *)
(* the status, in two statements of a READ COMMITTED transaction.          *)
(***************************************************************************)
EXTENDS EventLog

CONSTANTS
    Clients,     \* API clients that follow the job
    Web,         \* the web workspace, which follows it too
    MaxIncidents \* bound on broken connections and clicks on cancel

ASSUME StreamAssumption == Web \notin Clients /\ MaxIncidents \in Nat

Streams == Clients \cup {Web}

VARIABLES
    stream,     \* what each generator holds
    received,   \* events each API client got, over all its connections
    incidents   \* connections broken and clicks on cancel so far

streamVars == <<stream, received, incidents>>

\* "ended" by the server, "broken" by the network, "dropped" by the client.
StreamPhase == {"closed", "polling", "checking", "sending", "ended", "broken", "dropped"}

\* seen tells a terminal status, in the answer of the last query, from others.
StreamState == [phase : StreamPhase, cursor : Nat, batch : Seq(Nat \ {0}),
                seen : {"active", "terminal"}]

Closed == [phase |-> "closed", cursor |-> 0, batch |-> <<>>, seen |-> "active"]

Connected(s) == stream[s].phase \in {"polling", "checking", "sending"}

LastId(s) == IF received[s] = <<>> THEN 0 ELSE Last(received[s])

-----------------------------------------------------------------------------

\* Slip: Last-Event-ID is ignored, a stream starts at the newest event.
OpenAtEnd(s, lastId) == stream' = [stream EXCEPT ![s] = [Closed EXCEPT !.phase = "polling",
                                                                      !.cursor = HighestNo(log)]]

\* The request, with the Last-Event-ID the client kept (0 without one).
OpenStream(s, lastId) == stream' = [stream EXCEPT ![s] = [Closed EXCEPT !.phase = "polling",
                                                                       !.cursor = lastId]]

\* ORDER BY sequence_no: the i-th row has i rows up to its number.
InOrder(S) ==
    [i \in 1..Cardinality(S) |-> CHOOSE n \in S : Cardinality({m \in S : m <= n}) = i]

\* Slip: >= instead of >.
EventsFrom(cursor) == InOrder({n \in ToSet(log) : n >= cursor})

\* events_after
EventsAfter(cursor) == InOrder({n \in ToSet(log) : n > cursor})

\* The workspace hears none of them: that its stream sends them is left out.
ReadEvents(s) ==
    /\ stream[s].phase = "polling"
    /\ stream' = [stream EXCEPT ![s].phase = "checking",
                               ![s].batch = IF s = Web THEN <<>> ELSE EventsAfter(stream[s].cursor)]
    /\ UNCHANGED <<logVars, received, incidents>>

ReadStatus(s) ==
    /\ stream[s].phase = "checking"
    /\ stream' = [stream EXCEPT ![s].phase = "sending",
                               ![s].seen = IF status \in Terminal THEN "terminal" ELSE "active"]
    /\ UNCHANGED <<logVars, received, incidents>>

\* One event is yielded and reaches the client.
SendEvent(s) ==
    /\ stream[s].phase = "sending" /\ stream[s].batch # <<>>
    /\ LET n == Head(stream[s].batch) IN
        /\ stream' = [stream EXCEPT ![s].batch = Tail(@), ![s].cursor = n]
        /\ received' = [received EXCEPT ![s] = Append(@, n)]
    /\ UNCHANGED <<logVars, incidents>>

\* Slip: the stream of an ended job stays open.
NeverEnds(s) == FALSE

JobIsOver(s) == stream[s].seen = "terminal"

\* The end of a poll: break on a terminal status, otherwise sleep.
EndPoll(s) ==
    /\ stream[s].phase = "sending" /\ stream[s].batch = <<>>
    /\ stream' = [stream EXCEPT ![s].phase = IF JobIsOver(s) THEN "ended" ELSE "polling",
                               ![s].seen = "active"]
    /\ UNCHANGED <<logVars, received, incidents>>

\* The network, a proxy or the API process drops the connection.
BreakStream(s) ==
    /\ Connected(s)
    /\ incidents < MaxIncidents
    /\ incidents' = incidents + 1
    /\ stream' = [stream EXCEPT ![s] = [Closed EXCEPT !.phase = "broken"]]
    /\ UNCHANGED <<logVars, received>>

\* An event the client got says that the job has ended.
Told(s) == \E e \in endings : e.no \in ToSet(received[s])

\* A client that follows the contract reconnects with Last-Event-ID, until
\* it has been told that the job has ended.
Connect(s) ==
    /\ stream[s].phase \in {"closed", "broken", "ended"}
    /\ ~Told(s)
    /\ OpenStream(s, LastId(s))
    /\ UNCHANGED <<logVars, received, incidents>>

StreamInit ==
    /\ stream = [s \in Streams |-> Closed]
    /\ received = [s \in Clients |-> <<>>]
    /\ incidents = 0

Poll(s) == ReadEvents(s) \/ ReadStatus(s) \/ SendEvent(s) \/ EndPoll(s)

StreamTypeOK ==
    /\ stream \in [Streams -> StreamState]
    /\ received \in [Clients -> Seq(Nat \ {0})]
    /\ incidents \in 0..MaxIncidents

=============================================================================
