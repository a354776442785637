--------------------------- MODULE AccessProperties ---------------------------
(***************************************************************************)
(* What the API promises a request before its route runs.                  *)
(***************************************************************************)
EXTENDS TokenVerifier

\* No window of api_rate_limit_window_seconds, wherever it ends, holds more
\* admitted requests of one host than the limit.
WindowIsBounded ==
    \A h \in Hosts : \A t \in 0..MaxTime : Cardinality(AdmittedUntil(h, t)) <= Limit

\* A token signed with a key that has been published since before the request
\* is not called unknown, whatever the other requests do to the shared cache.
PublishedKeyIsKnown == \A r \in Requests : call[r].phase = "unknown" => ~call[r].steady

\* A withdrawn key is of no use once the cache time and one fetch have passed.
WithdrawnKeyExpires ==
    [][\A r \in Requests :
        call[r].phase # "accepted" /\ call'[r].phase = "accepted" =>
            call[r].kid \in keys \/ now - withdrawn[call[r].kid] < CacheTime + FetchTime]_accessVars

\* Every verification ends: the lock comes free, after a failed fetch too, and
\* asking again for a missing key is not repeated for ever.
EveryCheckEnds ==
    \A r \in Requests : (call[r].phase = "look") ~> (call[r].phase \in Verdict)

=============================================================================
