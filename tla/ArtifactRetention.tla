--------------------------- MODULE ArtifactRetention ---------------------------
(***************************************************************************)
(* What captures and exports stored expires: the hourly cron deletes the   *)
(* bytes of expired rows one by one, then the rows, in one transaction.    *)
(***************************************************************************)
EXTENDS BrowserCapture, FiniteSetsExt

CONSTANTS
    Exports,        \* export operations that publish a file
    Retention,      \* artifact_retention_days
    Batch,          \* artifact_cleanup_batch_size
    MaxTime,        \* bound on the clock
    MaxFailures     \* bound on failed deletions and interrupted sweeps

ASSUME RetentionAssumption ==
    /\ {Retention, Batch} \subseteq Nat \ {0}
    /\ {MaxTime, MaxFailures} \subseteq Nat
    /\ None \notin Nat

VARIABLES
    now,        \* the database clock
    expiry,     \* expires_at of what was stored
    sweep,      \* the cleanup transaction: rows locked, rows whose bytes are gone
    failures    \* failures so far

retentionVars == <<now, expiry, sweep, failures>>

File == {"export"} \X Exports
Key == Artifact \cup File

NoSweep == [locked |-> {}, deleted |-> {}]

Expired(k) == expiry[k] <= now

\* Whatever is stored by a step of a capture or an export is given its expiry.
StampNew == expiry' = [k \in Key |-> IF k \in blobs' \ blobs THEN now + Retention ELSE expiry[k]]

-----------------------------------------------------------------------------

Capturing ==
    /\ CaptureStep
    /\ StampNew
    /\ UNCHANGED <<now, sweep, failures>>

\* An upload and its complete_export (ExportStage has them in detail).
PublishFile(x) ==
    /\ expiry[<<"export", x>>] = None
    /\ blobs' = blobs \cup {<<"export", x>>}
    /\ rows' = rows \cup {<<"export", x>>}
    /\ StampNew
    /\ UNCHANGED <<job, capture, permits, download, now, sweep, failures>>

Tick ==
    /\ now < MaxTime
    /\ now' = now + 1
    /\ UNCHANGED <<captureVars, expiry, sweep, failures>>

\* The rows of S that expire first, at most n of them.
Oldest(S, n) ==
    {T \in SUBSET S :
        /\ Cardinality(T) = IF Cardinality(S) < n THEN Cardinality(S) ELSE n
        /\ \A t \in T : \A s \in S \ T : expiry[t] <= expiry[s]}

\* Slip: the age of a row is compared instead of its expiry.
Old == {k \in rows : expiry[k] <= now + Retention}

Due == {k \in rows : Expired(k)}

\* Generated files first; browser artifacts for the rest of the batch.
SelectExpired ==
    /\ sweep = NoSweep /\ Due # {}
    /\ \E files \in Oldest(Due \cap File, Batch) :
        \E artifacts \in Oldest(Due \ File, Batch - Cardinality(files)) :
            sweep' = [sweep EXCEPT !.locked = files \cup artifacts]
    /\ UNCHANGED <<captureVars, now, expiry, failures>>

\* Slip: deleting what is not there any more is an error.
IsThere(k) == k \in blobs

\* A deletion is idempotent (missing_ok; "Artifact not found" is swallowed).
Deletable(k) == TRUE

\* store.delete and session.delete, files before artifacts.
DeleteBlob(k) ==
    /\ k \in sweep.locked \ sweep.deleted
    /\ k \in File \/ sweep.locked \cap File \subseteq sweep.deleted
    /\ Deletable(k)
    /\ blobs' = blobs \ {k}
    /\ sweep' = [sweep EXCEPT !.deleted = @ \cup {k}]
    /\ UNCHANGED <<job, capture, permits, download, rows, now, expiry, failures>>

CommitSweep ==
    /\ sweep # NoSweep /\ sweep.deleted = sweep.locked
    /\ rows' = rows \ sweep.locked
    /\ sweep' = NoSweep
    /\ UNCHANGED <<job, capture, permits, download, blobs, now, expiry, failures>>

\* A deletion or the commit fails, or the worker stops: every row stays.
AbortSweep ==
    /\ sweep # NoSweep
    /\ failures < MaxFailures
    /\ failures' = failures + 1
    /\ sweep' = NoSweep
    /\ UNCHANGED <<captureVars, now, expiry>>

Sweep == SelectExpired \/ CommitSweep \/ \E k \in Key : DeleteBlob(k)

ArtifactInit ==
    /\ CaptureInit
    /\ now = 0
    /\ expiry = [k \in Key |-> None]
    /\ sweep = NoSweep
    /\ failures = 0

ArtifactNext ==
    \/ Capturing
    \/ \E x \in Exports : PublishFile(x)
    \/ Tick \/ Sweep \/ AbortSweep

artifactVars == <<captureVars, retentionVars>>

ArtifactSpec == ArtifactInit /\ [][ArtifactNext]_artifactVars

\* arq runs the cron every hour and ends every function that takes too long.
FairArtifactSpec ==
    /\ ArtifactSpec
    /\ WF_artifactVars(Sweep)
    /\ \A c \in Captures :
        /\ WF_artifactVars(EngineStep(c) /\ StampNew /\ UNCHANGED <<now, sweep, failures>>)
        /\ WF_artifactVars(JobTimeout(c) /\ StampNew /\ UNCHANGED <<now, sweep, failures>>)

ArtifactTypeOK ==
    /\ job \in [Jobs -> JobStage]
    /\ capture \in [Captures -> Capture]
    /\ permits \in 0..MaxContexts
    /\ download \in [Captures -> {"none", "running", "stored", "failed"}]
    /\ blobs \subseteq Key
    /\ rows \subseteq Key
    /\ now \in 0..MaxTime
    /\ expiry \in [Key -> {None} \cup 0..(MaxTime + Retention)]
    /\ sweep \in [locked : SUBSET rows, deleted : SUBSET Key]
    /\ failures \in 0..MaxFailures

=============================================================================
