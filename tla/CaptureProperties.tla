-------------------------- MODULE CaptureProperties --------------------------
(***************************************************************************)
(* What the browser engine and the retention of its artifacts promise.     *)
(***************************************************************************)
EXTENDS ArtifactRetention

\* No more browsers are up in the worker than BrowserCapacity allows, however
\* captures are cancelled, time out or fail while they open and close.
CapacityIsBounded == Cardinality(Holding) <= MaxContexts

\* A job has artifacts of one capture: run_browser_capture has no claim of its
\* own, and of two deliveries that both capture only one is recorded.
OneCapturePerJob ==
    \A a, b \in rows \ File : JobOf[a[2]] = JobOf[b[2]] => a[2] = b[2]

\* Every capture that was started ends, even when no permit ever comes free.
EveryCaptureEnds ==
    \A c \in Captures : (capture[c].stage = "checking") ~> (capture[c].stage = "done")

\* What has not expired can be downloaded: its bytes outlive every sweep,
\* committed or rolled back.
UnexpiredHasBytes == \A k \in rows : ~Expired(k) => k \in blobs

\* Expired rows and their bytes are removed, though a sweep is bounded and one
\* that fails half-way leaves rows whose bytes are gone already.
ExpiredIsRemoved ==
    \A k \in Key : (k \in rows /\ Expired(k)) ~> (k \notin rows /\ k \notin blobs)

=============================================================================
