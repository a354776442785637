----------------------------- MODULE TokenVerifier -----------------------------
(***************************************************************************)
(* What an API request goes through before its route: the rate limiter,    *)
(* then SupabaseJwtVerifier, whose cache of the published signing keys is  *)
(* refreshed under an asyncio.Lock and dropped outside it by a token whose *)
(* key it lacks.  A step runs from one await of verify() to the next.      *)
(***************************************************************************)
EXTENDS RateLimiter

CONSTANTS
    Requests,       \* requests in the API process at one time
    HostOf,         \* the host each comes from
    Kids,           \* signing keys
    CacheTime,      \* supabase_jwks_cache_seconds
    FetchTime,      \* supabase_request_timeout_seconds
    MaxRotations,   \* bound on changes of the published keys
    MaxFailures,    \* bound on failed fetches
    None            \* null

ASSUME VerifierAssumption ==
    /\ HostOf \in [Requests -> Hosts]
    /\ Kids # {}
    /\ {CacheTime, FetchTime} \subseteq Nat \ {0}
    /\ {MaxRotations, MaxFailures} \subseteq Nat
    /\ None \notin Requests

VARIABLES
    keys,       \* the keys the identity provider publishes
    withdrawn,  \* when each key was last published, if it is not
    rotations,
    failures,
    jwks,       \* the cached keys, or None
    expires,    \* when the cache expires
    lock,       \* the request that holds the lock, or None
    waiters,    \* requests that wait for it, in order
    call        \* where each request is

providerVars == <<keys, withdrawn, rotations, failures>>
verifierVars == <<jwks, expires, lock, waiters, call>>
accessVars == <<limiterVars, providerVars, verifierVars>>

Verdict == {"accepted", "unknown", "unavailable"}

\* tries counts the calls of _get_jwks; answer is what a fetch that began at
\* since returned; steady says that the key has been published all along.
Call == [phase : {"idle", "look", "waiting", "asking", "read"} \cup Verdict, kid : Kids,
         tries : 1..2, answer : SUBSET Kids, since : 0..MaxTime, steady : BOOLEAN]

\* Slip: a cached key set is used however old it is.
Cached == jwks # None

Fresh == jwks # None /\ now < expires

Fetching == {r \in Requests : call[r].phase \in {"asking", "read"}}

-----------------------------------------------------------------------------

\* The middleware; a request that is refused gets a 429 and is over.
Arrive(r, kid) ==
    /\ call[r].phase \in {"idle"} \cup Verdict
    /\ \/ /\ Admit(HostOf[r])
          /\ call' = [call EXCEPT ![r] = [phase |-> "look", kid |-> kid, tries |-> 1,
                                          answer |-> {}, since |-> 0, steady |-> kid \in keys]]
       \/ Refuse(HostOf[r]) /\ UNCHANGED call
    /\ UNCHANGED <<providerVars, jwks, expires, lock, waiters>>

\* lock.acquire(): a free lock goes to the first in line.
Acquire(r, tries, holder, line) ==
    IF holder = None /\ line = <<>>
    THEN /\ lock' = r /\ waiters' = line
         /\ call' = [call EXCEPT ![r].phase = "asking", ![r].tries = tries, ![r].since = now]
    ELSE /\ lock' = holder /\ waiters' = Append(line, r)
         /\ call' = [call EXCEPT ![r].phase = "waiting", ![r].tries = tries]

End(r, verdict, holder, line) ==
    /\ call' = [call EXCEPT ![r].phase = verdict, ![r].answer = {}, ![r].since = 0,
                            ![r].steady = IF verdict = "unknown" THEN @ ELSE FALSE]
    /\ lock' = holder /\ waiters' = line

\* Slip: a key that is not in the cache is refused without asking again.
NeverAgain(r) == TRUE

LastTry(r) == call[r].tries = 2

\* verify() has a key set: it decides, or drops the set and asks once more.
Consider(r, known, holder, line) ==
    \/ call[r].kid \in known /\ jwks' = known /\ End(r, "accepted", holder, line)
    \/ call[r].kid \notin known /\ LastTry(r) /\ jwks' = known /\ End(r, "unknown", holder, line)
    \/ call[r].kid \notin known /\ ~LastTry(r) /\ jwks' = None /\ Acquire(r, 2, holder, line)

\* _get_jwks: the cache, or the lock.
Look(r) ==
    /\ call[r].phase = "look"
    /\ \/ Fresh /\ Consider(r, jwks, lock, waiters)
       \/ ~Fresh /\ Acquire(r, 1, lock, waiters) /\ UNCHANGED jwks
    /\ UNCHANGED <<limiterVars, providerVars, expires>>

\* The lock is free: the first in line looks at the cache again.
Granted(r) ==
    /\ lock = None /\ waiters # <<>> /\ r = Head(waiters)
    /\ \/ Fresh /\ Consider(r, jwks, None, Tail(waiters))
       \/ /\ ~Fresh
          /\ lock' = r /\ waiters' = Tail(waiters)
          /\ call' = [call EXCEPT ![r].phase = "asking", ![r].since = now]
          /\ UNCHANGED jwks
    /\ UNCHANGED <<limiterVars, providerVars, expires>>

\* The identity provider answers with what it publishes at that moment.
ReadKeys(r) ==
    /\ call[r].phase = "asking"
    /\ call' = [call EXCEPT ![r].phase = "read", ![r].answer = keys]
    /\ UNCHANGED <<limiterVars, providerVars, jwks, expires, lock, waiters>>

Fetched(r) ==
    /\ call[r].phase = "read"
    /\ expires' = now + CacheTime
    /\ Consider(r, call[r].answer, None, waiters)
    /\ UNCHANGED <<limiterVars, providerVars>>

\* Slip: the lock is not given back when the fetch raises.
KeepLock == lock

FreedLock == None

\* The fetch raises; the cache stays as it is.
FetchFails(r) ==
    /\ r \in Fetching
    /\ failures < MaxFailures
    /\ failures' = failures + 1
    /\ End(r, "unavailable", FreedLock, waiters)
    /\ UNCHANGED <<limiterVars, keys, withdrawn, rotations, jwks, expires>>

\* A key is published or withdrawn.
Rotate(k) ==
    /\ rotations < MaxRotations
    /\ rotations' = rotations + 1
    /\ keys' = IF k \in keys THEN keys \ {k} ELSE keys \cup {k}
    /\ withdrawn' = IF k \in keys THEN [withdrawn EXCEPT ![k] = now] ELSE withdrawn
    /\ call' = [r \in Requests |->
                    IF call[r].kid = k THEN [call[r] EXCEPT !.steady = FALSE] ELSE call[r]]
    /\ UNCHANGED <<limiterVars, failures, jwks, expires, lock, waiters>>

\* A fetch is over within its timeout.
Tick ==
    /\ now < MaxTime
    /\ \A r \in Fetching : now - call[r].since < FetchTime
    /\ now' = now + 1
    /\ UNCHANGED <<hits, admitted, providerVars, verifierVars>>

AccessInit ==
    /\ LimiterInit
    /\ keys = {CHOOSE k \in Kids : TRUE}
    /\ withdrawn = [k \in Kids |-> -(CacheTime + FetchTime)]
    /\ rotations = 0 /\ failures = 0
    /\ jwks = None /\ expires = 0
    /\ lock = None /\ waiters = <<>>
    /\ call = [r \in Requests |-> [phase |-> "idle", kid |-> CHOOSE k \in Kids : TRUE, tries |-> 1,
                                   answer |-> {}, since |-> 0, steady |-> FALSE]]

Verify(r) == Look(r) \/ Granted(r) \/ ReadKeys(r) \/ Fetched(r)

AccessNext ==
    \/ \E r \in Requests : Verify(r) \/ FetchFails(r) \/ \E kid \in Kids : Arrive(r, kid)
    \/ \E k \in Kids : Rotate(k)
    \/ Tick

AccessSpec == AccessInit /\ [][AccessNext]_accessVars

FairAccessSpec == AccessSpec /\ \A r \in Requests : WF_accessVars(Verify(r))

AccessTypeOK ==
    /\ LimiterTypeOK
    /\ keys \subseteq Kids
    /\ withdrawn \in [Kids -> Int]
    /\ rotations \in 0..MaxRotations /\ failures \in 0..MaxFailures
    /\ jwks = None \/ jwks \subseteq Kids
    /\ expires \in 0..(MaxTime + CacheTime)
    /\ lock \in Fetching \cup {None}
    /\ waiters \in Seq({r \in Requests : call[r].phase = "waiting"})
    /\ call \in [Requests -> Call]

=============================================================================
