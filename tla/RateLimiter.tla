------------------------------ MODULE RateLimiter ------------------------------
(***************************************************************************)
(* SlidingWindowRateLimiter of the API process: for every client host the  *)
(* times of its admitted requests, the expired ones dropped at each call.  *)
(***************************************************************************)
EXTENDS Integers, Sequences, FiniteSets

CONSTANTS
    Hosts,      \* client addresses
    Limit,      \* api_rate_limit_requests
    Window,     \* api_rate_limit_window_seconds
    MaxTime     \* bound on the clock

ASSUME LimiterAssumption == {Limit, Window} \subseteq Nat \ {0} /\ MaxTime \in Nat

VARIABLES
    now,        \* time.monotonic()
    hits,       \* the deque of each host
    admitted    \* times at which each host was admitted, ever

limiterVars == <<now, hits, admitted>>

Expired(h, i) == hits[h][i] <= now - Window

\* The popleft loop: n entries are dropped, up to the first one to stay.
Drops(h, n) ==
    /\ \A i \in 1..n : Expired(h, i)
    /\ n < Len(hits[h]) => ~Expired(h, n + 1)

\* What it leaves.
Recent(h, n) == SubSeq(hits[h], n + 1, Len(hits[h]))

\* Slip: compared before the request itself is counted.
HasRoomForOneMore(h, n) == Len(Recent(h, n)) <= Limit

HasRoom(h, n) == Len(Recent(h, n)) < Limit

Admit(h) ==
    /\ \E n \in 0..Len(hits[h]) :
        /\ Drops(h, n) /\ HasRoom(h, n)
        /\ hits' = [hits EXCEPT ![h] = Append(Recent(h, n), now)]
    /\ admitted' = [admitted EXCEPT ![h] = Append(@, now)]
    /\ UNCHANGED now

Refuse(h) ==
    /\ \E n \in 0..Len(hits[h]) :
        /\ Drops(h, n) /\ ~HasRoom(h, n)
        /\ hits' = [hits EXCEPT ![h] = Recent(h, n)]
    /\ UNCHANGED <<now, admitted>>

LimiterInit ==
    /\ now = 0
    /\ hits = [h \in Hosts |-> <<>>]
    /\ admitted = [h \in Hosts |-> <<>>]

\* The requests of a host admitted in the window that ends at t.
AdmittedUntil(h, t) ==
    {i \in DOMAIN admitted[h] : t - Window < admitted[h][i] /\ admitted[h][i] <= t}

LimiterTypeOK ==
    /\ now \in 0..MaxTime
    /\ hits \in [Hosts -> Seq(0..MaxTime)]
    /\ admitted \in [Hosts -> Seq(0..MaxTime)]

=============================================================================
