---------------------------- MODULE BrowserCapture ----------------------------
(***************************************************************************)
(* PlaywrightBrowserEngine.capture in one worker process: the permits of   *)
(* BrowserCapacity, the stages a capture can be ended in (by itself, by a  *)
(* cancelled job, by its lifetime or by arq's job_timeout), the artifacts  *)
(* it stores on the way, and run_browser_capture's use of the result.      *)
(* Discovery and extraction share the engine, for pages without artifacts. *)
(***************************************************************************)
EXTENDS Integers, FiniteSets

CONSTANTS
    Jobs,
    Captures,       \* deliveries of run_browser_capture
    JobOf,          \* the job of each capture
    MaxContexts,    \* browser_max_contexts
    Downloads,      \* captures whose page starts a download
    None            \* null

ASSUME CaptureAssumption ==
    /\ IsFiniteSet(Captures)
    /\ JobOf \in [Captures -> Jobs]
    /\ MaxContexts \in Nat \ {0}
    /\ Downloads \subseteq Captures

VARIABLES
    job,        \* status of each job
    capture,    \* stage of each capture, and how it ends
    permits,    \* free permits of the semaphore
    download,   \* download task of each capture
    blobs,      \* stored artifacts
    rows        \* browser_artifacts

captureVars == <<job, capture, permits, download, blobs, rows>>

JobStage == {"BROWSER_INITIALIZING", "DISCOVERING", "CANCELLED", "FAILED"}

Stage == {"idle", "checking", "waiting", "launching", "navigating", "reading",
          "closing", "finishing", "done"}

\* BrowserEngineErrors are "cancelled" or "failed"; other exceptions ("dropped")
\* and arq's cancellation ("cut") pass through run_browser_capture.
Result == {"none", "ok", "cancelled", "failed", "dropped", "cut"}

Capture == [stage : Stage, result : Result]

\* The artifacts a capture may store, each under a key of its own.
Artifact == {"screenshot", "download"} \X Captures

StoredBy(c) == {a \in blobs : a[2] = c}

AtStage(c, stages) == capture[c].stage \in stages

Go(c, stage) == capture' = [capture EXCEPT ![c].stage = stage]

\* Inside the try: the permit is held until the finally gives it back.
Holding == {c \in Captures : AtStage(c, {"launching", "navigating", "reading", "closing"})}

-----------------------------------------------------------------------------
(* capture() *)

\* prepare_browser_capture accepts the command: it checks no lease.
Prepare(c) ==
    /\ AtStage(c, {"idle"})
    /\ job[JobOf[c]] = "BROWSER_INITIALIZING"
    /\ Go(c, "checking")
    /\ UNCHANGED <<job, permits, download, blobs, rows>>

Cancelled(c) == job[JobOf[c]] = "CANCELLED"

\* The function is left without a visit to the finally, or out of it.
EndWithout(c, result) ==
    capture' = [capture EXCEPT ![c] = [stage |-> "finishing", result |-> result]]

\* The URL policy and the cancellation probe, before a permit is taken.
Precheck(c) ==
    /\ AtStage(c, {"checking"})
    /\ \/ ~Cancelled(c) /\ Go(c, "waiting")
       \/ Cancelled(c) /\ EndWithout(c, "cancelled")
       \/ EndWithout(c, "failed")
    /\ UNCHANGED <<job, permits, download, blobs, rows>>

Acquire(c) ==
    /\ AtStage(c, {"waiting"})
    /\ permits > 0
    /\ permits' = permits - 1
    /\ Go(c, "launching")
    /\ UNCHANGED <<job, download, blobs, rows>>

\* Slip: the permit is given back before the browser is closed, and after.
ReleaseThenClose(c, result) ==
    /\ capture' = [capture EXCEPT ![c] = [stage |-> "closing", result |-> result]]
    /\ permits' = permits + 1

\* The try ends, one way or another: _close_owned is next.
Unwind(c, result) ==
    /\ capture' = [capture EXCEPT ![c] = [stage |-> "closing", result |-> result]]
    /\ UNCHANGED permits

\* BrowserLaunchError is not a BrowserEngineError.
Launch(c) ==
    /\ AtStage(c, {"launching"})
    /\ \/ Go(c, "navigating") /\ UNCHANGED permits
       \/ Unwind(c, "dropped")
    /\ UNCHANGED <<job, download, blobs, rows>>

\* page.on("download"): the task stores what it can, awaited or not.
StartDownload(c) ==
    /\ AtStage(c, {"navigating", "reading"})
    /\ c \in Downloads /\ download[c] = "none"
    /\ download' = [download EXCEPT ![c] = "running"]
    /\ UNCHANGED <<job, capture, permits, blobs, rows>>

EndDownload(c) ==
    /\ download[c] = "running"
    /\ \/ /\ download' = [download EXCEPT ![c] = "stored"]
          /\ blobs' = blobs \cup {<<"download", c>>}
       \/ /\ download' = [download EXCEPT ![c] = "failed"]
          /\ UNCHANGED blobs
    /\ UNCHANGED <<job, capture, permits, rows>>

\* The navigation is polled for a cancelled job; redirects, responses and
\* subresources may be blocked; the page may crash.
Navigate(c) ==
    /\ AtStage(c, {"navigating"})
    /\ \/ Go(c, "reading") /\ UNCHANGED permits
       \/ Cancelled(c) /\ Unwind(c, "cancelled")
       \/ Unwind(c, "failed")
       \/ Unwind(c, "dropped")
    /\ UNCHANGED <<job, download, blobs, rows>>

\* Signals, text and documents are read; then the screenshot is stored.
Screenshot(c) ==
    /\ AtStage(c, {"reading"})
    /\ <<"screenshot", c>> \notin blobs
    /\ blobs' = blobs \cup {<<"screenshot", c>>}
    /\ UNCHANGED <<job, capture, permits, download, rows>>

ReadFails(c) ==
    /\ AtStage(c, {"reading"})
    /\ \E result \in {"failed", "dropped"} : Unwind(c, result)
    /\ UNCHANGED <<job, download, blobs, rows>>

\* gather(*download_tasks), then return.
Return(c) ==
    /\ AtStage(c, {"reading"})
    /\ <<"screenshot", c>> \in blobs
    /\ \/ download[c] \in {"none", "stored"} /\ Unwind(c, "ok")
       \/ download[c] = "failed" /\ \E result \in {"failed", "dropped"} : Unwind(c, result)
    /\ UNCHANGED <<job, download, blobs, rows>>

\* asyncio.timeout(browser_max_lifetime_seconds): BrowserTimeout.
LifetimeEnds(c) ==
    /\ AtStage(c, {"launching", "navigating", "reading"})
    /\ Unwind(c, "failed")
    /\ UNCHANGED <<job, download, blobs, rows>>

\* _close_owned, then capacity.release().
Close(c) ==
    /\ AtStage(c, {"closing"})
    /\ Go(c, "finishing")
    /\ permits' = permits + 1
    /\ UNCHANGED <<job, download, blobs, rows>>

\* Slip: only the capture itself is limited in time, not the wait for a permit.
CutsCapture(c) == AtStage(c, {"launching", "navigating", "reading", "closing", "finishing"})

\* job_timeout covers the whole of the worker function.
Cuts(c) == capture[c].stage \notin {"idle", "done"}

\* arq cancels a task once.  A capture that is closing already leaves the
\* finally without releasing its permit.
JobTimeout(c) ==
    /\ Cuts(c) /\ capture[c].result # "cut"
    /\ IF AtStage(c, {"launching", "navigating", "reading"})
       THEN Unwind(c, "cut")
       ELSE EndWithout(c, "cut") /\ UNCHANGED permits
    /\ UNCHANGED <<job, download, blobs, rows>>

-----------------------------------------------------------------------------
(* run_browser_capture after the capture *)

\* Slip: the status of the job is not looked at again.
CompletesAnyway(c) == TRUE

\* complete_browser_capture refuses a job that is not BROWSER_INITIALIZING.
Completes(c) == job[JobOf[c]] = "BROWSER_INITIALIZING"

MoveJob(c, status) == job' = [job EXCEPT ![JobOf[c]] = status]

Complete(c) ==
    /\ AtStage(c, {"finishing"}) /\ capture[c].result = "ok"
    /\ IF Completes(c)
       THEN MoveJob(c, "DISCOVERING") /\ rows' = rows \cup StoredBy(c)
       ELSE UNCHANGED <<job, rows>>
    /\ capture' = [capture EXCEPT ![c] = [stage |-> "done", result |-> "none"]]
    /\ UNCHANGED <<permits, download, blobs>>

\* fail_browser_capture; a transition from a status the job has left is refused.
Fail(c) ==
    /\ AtStage(c, {"finishing"}) /\ capture[c].result # "ok"
    /\ IF capture[c].result \in {"cancelled", "failed"} /\ Completes(c)
       THEN MoveJob(c, IF capture[c].result = "cancelled" THEN "CANCELLED" ELSE "FAILED")
       ELSE UNCHANGED job
    /\ capture' = [capture EXCEPT ![c] = [stage |-> "done", result |-> "none"]]
    /\ UNCHANGED <<permits, download, blobs, rows>>

\* POST /api/jobs/{id}/cancel
CancelJob(j) ==
    /\ job[j] \in {"BROWSER_INITIALIZING", "DISCOVERING"}
    /\ job' = [job EXCEPT ![j] = "CANCELLED"]
    /\ UNCHANGED <<capture, permits, download, blobs, rows>>

CaptureInit ==
    /\ job = [j \in Jobs |-> "BROWSER_INITIALIZING"]
    /\ capture = [c \in Captures |-> [stage |-> "idle", result |-> "none"]]
    /\ permits = MaxContexts
    /\ download = [c \in Captures |-> "none"]
    /\ blobs = {}
    /\ rows = {}

EngineStep(c) ==
    \/ Precheck(c) \/ Acquire(c) \/ Launch(c) \/ Navigate(c) \/ Screenshot(c)
    \/ ReadFails(c) \/ Return(c) \/ Close(c) \/ Complete(c) \/ Fail(c)

CaptureStep ==
    \/ \E c \in Captures :
        \/ Prepare(c) \/ EngineStep(c) \/ StartDownload(c) \/ EndDownload(c)
        \/ LifetimeEnds(c) \/ JobTimeout(c)
    \/ \E j \in Jobs : CancelJob(j)

=============================================================================
