---------------------------- MODULE CaptureProofs ----------------------------
(***************************************************************************)
(* For any number of jobs, captures, permits, exports and failures: the    *)
(* engine keeps to its capacity, a job has artifacts of one capture, and   *)
(* what has not expired has its bytes.                                     *)
(***************************************************************************)
EXTENDS CaptureProperties, FiniteSetTheorems, TLAPS

\* A permit is held by every capture inside the try, and may be lost by one
\* that arq cancels while it closes.
PermitInv == permits + Cardinality(Holding) <= MaxContexts

\* A capture that returned has stored its last artifact.
ReturnedInv ==
    \A c \in Captures : capture[c].result = "ok" =>
        AtStage(c, {"closing", "finishing"}) /\ download[c] # "running"

\* So has one that is recorded; its job has moved on.
RecordedInv ==
    \A a \in rows \cap Artifact :
        /\ AtStage(a[2], {"done"}) /\ download[a[2]] # "running"
        /\ job[JobOf[a[2]]] # "BROWSER_INITIALIZING"

\* Whatever was stored has an expiry, and a sweep works on expired rows.
ExpiryInv ==
    /\ \A k \in rows \cup blobs : expiry[k] \in Nat
    /\ \A k \in sweep.locked : Expired(k)

ArtifactInv ==
    ArtifactTypeOK /\ PermitInv /\ ReturnedInv /\ RecordedInv /\ ExpiryInv
        /\ OneCapturePerJob /\ UnexpiredHasBytes

-----------------------------------------------------------------------------
(* Permits *)

\* The captures that hold a permit are counted.
LEMMA HoldingIsFinite ==
  /\ IsFiniteSet(Holding) /\ Cardinality(Holding) \in Nat
  <1>1. Holding \in SUBSET Captures
    BY DEF Holding
  <1> QED
    BY <1>1, CaptureAssumption, FS_Subset, FS_CardinalityType

\* The three ways a step can change who holds a permit.
LEMMA HoldingKept ==
  ASSUME ArtifactTypeOK, PermitInv, Holding' = Holding, permits' = permits
  PROVE  permits' \in 0..MaxContexts /\ PermitInv'
  BY DEF ArtifactTypeOK, PermitInv

\* A capture that takes a permit is counted once more.
LEMMA HoldingGrows ==
  ASSUME ArtifactTypeOK, PermitInv, NEW c \in Captures, c \notin Holding, permits > 0,
         Holding' = Holding \cup {c}, permits' = permits - 1
  PROVE  permits' \in 0..MaxContexts /\ PermitInv'
  <1>1. Cardinality(Holding \cup {c}) = Cardinality(Holding) + 1
    BY HoldingIsFinite, FS_AddElement
  <1> QED
    BY <1>1, HoldingIsFinite, CaptureAssumption DEF ArtifactTypeOK, PermitInv

\* A capture that gives its permit back is counted no more.
LEMMA HoldingShrinks ==
  ASSUME ArtifactTypeOK, PermitInv, NEW c \in Holding,
         Holding' = Holding \ {c}, permits' \in {permits, permits + 1}
  PROVE  permits' \in 0..MaxContexts /\ PermitInv'
  <1>1. Cardinality(Holding \ {c}) = Cardinality(Holding) - 1
    BY HoldingIsFinite, FS_RemoveElement
  <1>2. Cardinality(Holding) - 1 \in Nat
    BY <1>1, HoldingIsFinite, FS_RemoveElement, FS_CardinalityType
  <1> QED
    BY <1>1, <1>2, HoldingIsFinite, CaptureAssumption DEF ArtifactTypeOK, PermitInv

\* Every step keeps the count of permits.
LEMMA PermitsStep ==
  ASSUME ArtifactTypeOK, PermitInv, CaptureStep
  PROVE  permits' \in 0..MaxContexts /\ PermitInv'
  <1> USE DEF AtStage, Go, Holding, Capture
  <1> capture \in [Captures -> Capture]
    BY DEF ArtifactTypeOK
  <1>1. CASE \E j \in Jobs : CancelJob(j)
    BY <1>1, HoldingKept DEF CancelJob
  <1>2. ASSUME NEW c \in Captures,
               Prepare(c) \/ EngineStep(c) \/ StartDownload(c) \/ EndDownload(c)
                 \/ LifetimeEnds(c) \/ JobTimeout(c)
        PROVE  permits' \in 0..MaxContexts /\ PermitInv'
    <2>1. CASE Acquire(c)
      BY <2>1, HoldingGrows DEF Acquire
    <2>2. CASE Close(c)
      BY <2>2, HoldingShrinks DEF Close
    <2>3. CASE JobTimeout(c)
      <3>1. CASE AtStage(c, {"launching", "navigating", "reading"})
        BY <2>3, <3>1, HoldingKept DEF JobTimeout, Unwind
      <3>2. CASE AtStage(c, {"closing"})
        BY <2>3, <3>2, HoldingShrinks DEF JobTimeout, EndWithout
      <3>3. CASE ~AtStage(c, {"launching", "navigating", "reading", "closing"})
        BY <2>3, <3>3, HoldingKept DEF JobTimeout, EndWithout
      <3> QED
        BY <3>1, <3>2, <3>3
    <2>4. CASE Prepare(c) \/ Precheck(c)
      BY <2>4, HoldingKept DEF Prepare, Precheck, EndWithout
    <2>5. CASE Launch(c) \/ Navigate(c)
      BY <2>5, HoldingKept DEF Launch, Navigate, Unwind
    <2>6. CASE ReadFails(c) \/ Return(c) \/ LifetimeEnds(c)
      BY <2>6, HoldingKept DEF ReadFails, Return, LifetimeEnds, Unwind
    <2>7. CASE Complete(c) \/ Fail(c)
      BY <2>7, HoldingKept DEF Complete, Fail
    <2>8. CASE Screenshot(c) \/ StartDownload(c) \/ EndDownload(c)
      BY <2>8, HoldingKept DEF Screenshot, StartDownload, EndDownload
    <2> QED
      BY <1>2, <2>1, <2>2, <2>3, <2>4, <2>5, <2>6, <2>7, <2>8 DEF EngineStep
  <1> QED
    BY <1>1, <1>2 DEF CaptureStep

-----------------------------------------------------------------------------
(* Steps of captures *)

\* The steps of a capture keep the types.
LEMMA CaptureTypes ==
  ASSUME ArtifactTypeOK, CaptureStep
  PROVE  /\ job' \in [Jobs -> JobStage]
         /\ capture' \in [Captures -> Capture]
         /\ download' \in [Captures -> {"none", "running", "stored", "failed"}]
         /\ blobs \subseteq blobs' /\ blobs' \subseteq Key
         /\ rows \subseteq rows' /\ rows' \subseteq Key
         /\ rows' \subseteq rows \cup blobs
  <1> USE CaptureAssumption DEF AtStage, Go, Capture, Stage, Result, JobStage
  <1>0. /\ job \in [Jobs -> JobStage] /\ capture \in [Captures -> Capture]
        /\ download \in [Captures -> {"none", "running", "stored", "failed"}]
        /\ blobs \subseteq Key /\ rows \subseteq Key
    BY DEF ArtifactTypeOK
  <1>1. CASE \E j \in Jobs : CancelJob(j)
    BY <1>0, <1>1 DEF CancelJob
  <1>2. ASSUME NEW c \in Captures,
               Prepare(c) \/ EngineStep(c) \/ StartDownload(c) \/ EndDownload(c)
                 \/ LifetimeEnds(c) \/ JobTimeout(c)
        PROVE  /\ job' \in [Jobs -> JobStage]
               /\ capture' \in [Captures -> Capture]
               /\ download' \in [Captures -> {"none", "running", "stored", "failed"}]
               /\ blobs \subseteq blobs' /\ blobs' \subseteq Key
               /\ rows \subseteq rows' /\ rows' \subseteq Key
               /\ rows' \subseteq rows \cup blobs
    <2>1. CASE Prepare(c) \/ Precheck(c) \/ Acquire(c)
      BY <1>0, <2>1 DEF Prepare, Precheck, Acquire, EndWithout
    <2>2. CASE Launch(c) \/ Navigate(c) \/ ReadFails(c) \/ Return(c) \/ LifetimeEnds(c)
      BY <1>0, <2>2 DEF Launch, Navigate, ReadFails, Return, LifetimeEnds, Unwind
    <2>3. CASE Close(c) \/ JobTimeout(c)
      BY <1>0, <2>3 DEF Close, JobTimeout, EndWithout, Unwind
    <2>4. CASE Complete(c)
      BY <1>0, <2>4 DEF Complete, MoveJob, StoredBy
    <2>5. CASE Fail(c)
      BY <1>0, <2>5 DEF Fail, MoveJob
    <2>6. CASE Screenshot(c) \/ StartDownload(c) \/ EndDownload(c)
      BY <1>0, <2>6 DEF Screenshot, StartDownload, EndDownload, Key, Artifact
    <2> QED
      BY <1>2, <2>1, <2>2, <2>3, <2>4, <2>5, <2>6 DEF EngineStep
  <1> QED
    BY <1>1, <1>2 DEF CaptureStep

\* An artifact is only stored for a capture that is not recorded yet.
LEMMA StoredBeforeRecorded ==
  ASSUME ArtifactInv, CaptureStep
  PROVE  (blobs' \ blobs) \cap rows = {}
  <1>1. ASSUME NEW c \in Captures, Screenshot(c) \/ EndDownload(c)
        PROVE  (blobs' \ blobs) \cap rows = {}
    <2>1. ASSUME NEW k \in blobs', k \notin blobs, k \in rows
          PROVE  FALSE
      <3>1. k \in Artifact /\ k[2] = c /\ \/ Screenshot(c)
                                          \/ download[c] = "running"
        BY <1>1, <2>1 DEF Screenshot, EndDownload, Artifact
      <3> QED
        BY <3>1, <2>1 DEF ArtifactInv, RecordedInv, Screenshot, AtStage
    <2> QED
      BY <2>1
  <1>2. CASE ~\E c \in Captures : Screenshot(c) \/ EndDownload(c)
    <2>1. blobs' = blobs
      BY <1>2 DEF CaptureStep, CancelJob, EngineStep, Prepare, Precheck, Acquire, Launch, Navigate,
                  ReadFails, Return, Close, Complete, Fail, StartDownload, LifetimeEnds, JobTimeout
    <2> QED
      BY <2>1
  <1> QED
    BY <1>1, <1>2

\* The invariants of captures over one of their steps.
LEMMA CapturesRecorded ==
  ASSUME ArtifactInv, CaptureStep
  PROVE  ReturnedInv' /\ RecordedInv' /\ OneCapturePerJob'
  <1> USE CaptureAssumption
  <1>0. /\ job \in [Jobs -> JobStage] /\ capture \in [Captures -> Capture]
        /\ download \in [Captures -> {"none", "running", "stored", "failed"}]
        /\ ReturnedInv /\ RecordedInv /\ OneCapturePerJob
        /\ rows \subseteq Key
    BY DEF ArtifactInv, ArtifactTypeOK
  <1>1. CASE \E j \in Jobs : CancelJob(j)
    BY <1>0, <1>1 DEF CancelJob, ReturnedInv, RecordedInv, OneCapturePerJob, AtStage, Artifact
  <1>2. ASSUME NEW c \in Captures, Complete(c)
        PROVE  ReturnedInv' /\ RecordedInv' /\ OneCapturePerJob'
    <2> USE DEF AtStage, Capture
    <2>1. ReturnedInv'
      BY <1>0, <1>2 DEF Complete, ReturnedInv
    <2>2. CASE ~Completes(c)
      BY <1>0, <1>2, <2>1, <2>2 DEF Complete, RecordedInv, OneCapturePerJob, Artifact
    <2>3. CASE Completes(c)
      <3>1. /\ rows' = rows \cup StoredBy(c)
            /\ job' = [job EXCEPT ![JobOf[c]] = "DISCOVERING"]
            /\ capture' = [capture EXCEPT ![c] = [stage |-> "done", result |-> "none"]]
            /\ download' = download /\ download[c] # "running"
        BY <1>0, <1>2, <2>3 DEF Complete, MoveJob, ReturnedInv
      <3>2. \A a \in rows \cap Artifact : JobOf[a[2]] # JobOf[c]
        BY <1>0, <2>3 DEF RecordedInv, Completes
      <3>3. RecordedInv'
        BY <1>0, <3>1, <3>2 DEF RecordedInv, StoredBy, Artifact
      <3>4. OneCapturePerJob'
        BY <1>0, <3>1, <3>2 DEF OneCapturePerJob, StoredBy, Key
      <3> QED
        BY <2>1, <3>3, <3>4
    <2> QED
      BY <2>2, <2>3
  <1>3. ASSUME NEW c \in Captures,
               Prepare(c) \/ Precheck(c) \/ Acquire(c) \/ Launch(c) \/ Navigate(c) \/ Screenshot(c)
                 \/ ReadFails(c) \/ Return(c) \/ Close(c) \/ Fail(c) \/ StartDownload(c)
                 \/ EndDownload(c) \/ LifetimeEnds(c) \/ JobTimeout(c)
        PROVE  ReturnedInv' /\ RecordedInv' /\ OneCapturePerJob'
    <2> USE DEF AtStage, Capture, Go, ReturnedInv, RecordedInv, Artifact
    <2>1. OneCapturePerJob'
      BY <1>0, <1>3 DEF OneCapturePerJob, Prepare, Precheck, Acquire, Launch, Navigate, Screenshot, ReadFails,
            Return, Close, Fail, StartDownload, EndDownload, LifetimeEnds, JobTimeout
    <2>2. CASE Prepare(c) \/ Precheck(c) \/ Acquire(c)
      BY <1>0, <2>1, <2>2 DEF Prepare, Precheck, Acquire, EndWithout
    <2>3. CASE Launch(c) \/ Navigate(c) \/ ReadFails(c) \/ Return(c)
      BY <1>0, <2>1, <2>3 DEF Launch, Navigate, ReadFails, Return, Unwind
    <2>4. CASE Close(c) \/ LifetimeEnds(c) \/ JobTimeout(c)
      BY <1>0, <2>1, <2>4 DEF Close, LifetimeEnds, JobTimeout, EndWithout, Unwind, Cuts
    <2>5. CASE Fail(c)
      BY <1>0, <2>1, <2>5 DEF Fail, MoveJob, Completes
    <2>6. CASE Screenshot(c) \/ StartDownload(c) \/ EndDownload(c)
      BY <1>0, <2>1, <2>6 DEF Screenshot, StartDownload, EndDownload
    <2> QED
      BY <1>3, <2>2, <2>3, <2>4, <2>5, <2>6
  <1> QED
    BY <1>1, <1>2, <1>3 DEF CaptureStep, EngineStep

-----------------------------------------------------------------------------
(* Retention *)

\* A step that stores, records what is stored, and leaves clock and sweep alone.
LEMMA StoringStep ==
  ASSUME ArtifactInv, StampNew, now' = now, sweep' = sweep,
         blobs \subseteq blobs', blobs' \subseteq Key, (blobs' \ blobs) \cap rows = {},
         rows \subseteq rows', rows' \subseteq rows \cup blobs'
  PROVE  ExpiryInv' /\ UnexpiredHasBytes' /\ expiry' \in [Key -> {None} \cup 0..(MaxTime + Retention)]
  <1> USE RetentionAssumption
  <1>0. /\ rows \subseteq Key /\ blobs \subseteq Key /\ now \in 0..MaxTime
        /\ expiry \in [Key -> {None} \cup 0..(MaxTime + Retention)]
        /\ sweep.locked \subseteq rows /\ ExpiryInv /\ UnexpiredHasBytes
    BY DEF ArtifactInv, ArtifactTypeOK
  <1>1. \A k \in Key : expiry'[k] = IF k \in blobs' \ blobs THEN now + Retention ELSE expiry[k]
    BY DEF StampNew
  <1>2. expiry' \in [Key -> {None} \cup 0..(MaxTime + Retention)]
    BY <1>0 DEF StampNew
  <1>3. ExpiryInv'
    BY <1>0, <1>1 DEF ExpiryInv, Expired
  <1>4. UnexpiredHasBytes'
    BY <1>0, <1>1 DEF UnexpiredHasBytes, Expired
  <1> QED
    BY <1>2, <1>3, <1>4

\* A step of a capture keeps the artifact invariants.
LEMMA CapturingStep ==
  ASSUME ArtifactInv, Capturing
  PROVE  ArtifactInv'
  <1>1. CaptureStep /\ StampNew /\ now' = now /\ sweep' = sweep /\ failures' = failures
    BY DEF Capturing
  <1>2. ArtifactTypeOK /\ PermitInv
    BY DEF ArtifactInv
  <1>3. ExpiryInv' /\ UnexpiredHasBytes' /\ expiry' \in [Key -> {None} \cup 0..(MaxTime + Retention)]
    BY <1>1, <1>2, CaptureTypes, StoredBeforeRecorded, StoringStep
  <1>4. sweep' \in [locked : SUBSET rows', deleted : SUBSET Key]
    BY <1>1, <1>2, CaptureTypes DEF ArtifactTypeOK
  <1>5. ArtifactTypeOK'
    BY <1>1, <1>2, <1>3, <1>4, CaptureTypes, PermitsStep DEF ArtifactTypeOK
  <1> QED
    BY <1>1, <1>2, <1>3, <1>5, PermitsStep, CapturesRecorded DEF ArtifactInv

\* So does a file that an export publishes.
LEMMA PublishStep ==
  ASSUME ArtifactInv, NEW x \in Exports, PublishFile(x)
  PROVE  ArtifactInv'
  <1> DEFINE k == <<"export", x>>
  <1>0. ArtifactTypeOK /\ k \in Key /\ k \in File /\ k \notin Artifact
    BY DEF ArtifactInv, Key, File, Artifact
  <1>1. /\ blobs' = blobs \cup {k} /\ rows' = rows \cup {k} /\ StampNew
        /\ now' = now /\ sweep' = sweep /\ failures' = failures /\ expiry[k] = None
        /\ UNCHANGED <<job, capture, permits, download>>
    BY DEF PublishFile
  <1>2. k \notin rows
    BY <1>1, RetentionAssumption DEF ArtifactInv, ExpiryInv
  <1>3. ExpiryInv' /\ UnexpiredHasBytes' /\ expiry' \in [Key -> {None} \cup 0..(MaxTime + Retention)]
    BY <1>0, <1>1, <1>2, StoringStep DEF ArtifactTypeOK
  <1>4. ArtifactTypeOK'
    BY <1>0, <1>1, <1>3 DEF ArtifactTypeOK
  <1>5. OneCapturePerJob' /\ RecordedInv'
    BY <1>0, <1>1 DEF ArtifactInv, OneCapturePerJob, RecordedInv, AtStage
  <1>6. PermitInv' /\ ReturnedInv'
    BY <1>1 DEF ArtifactInv, PermitInv, ReturnedInv, Holding, AtStage
  <1> QED
    BY <1>3, <1>4, <1>5, <1>6 DEF ArtifactInv

\* Time and sweeps leave the captures alone.
LEMMA SweepStep ==
  ASSUME ArtifactInv, Tick \/ Sweep \/ AbortSweep
  PROVE  ArtifactInv'
  <1> USE RetentionAssumption
  <1>0. /\ ArtifactTypeOK /\ ExpiryInv /\ UnexpiredHasBytes
        /\ rows \subseteq Key /\ blobs \subseteq Key /\ now \in 0..MaxTime
        /\ expiry \in [Key -> {None} \cup 0..(MaxTime + Retention)]
        /\ sweep \in [locked : SUBSET rows, deleted : SUBSET Key]
    BY DEF ArtifactInv, ArtifactTypeOK
  <1>1. UNCHANGED <<job, capture, permits, download, expiry>> /\ rows' \subseteq rows /\ blobs' \subseteq blobs
    BY DEF Tick, Sweep, SelectExpired, DeleteBlob, CommitSweep, AbortSweep, captureVars
  <1>2. PermitInv' /\ ReturnedInv' /\ RecordedInv' /\ OneCapturePerJob'
    BY <1>1 DEF ArtifactInv, PermitInv, ReturnedInv, RecordedInv, OneCapturePerJob, Holding, AtStage
  <1>3. CASE Tick
    <2>1. now' = now + 1 /\ now' \in 0..MaxTime
      BY <1>0, <1>3 DEF Tick
    <2>2. UNCHANGED <<blobs, rows, sweep, failures>>
      BY <1>3 DEF Tick, captureVars
    <2>3. \A k \in rows : Expired(k) => Expired(k)'
      BY <1>0, <1>1, <2>1 DEF ExpiryInv, Expired
    <2> QED
      BY <1>0, <1>1, <1>2, <2>1, <2>2, <2>3 DEF ArtifactInv, ArtifactTypeOK, ExpiryInv, UnexpiredHasBytes
  <1>4. CASE SelectExpired
    <2>1. UNCHANGED <<blobs, rows, now, failures>>
      BY <1>4 DEF SelectExpired, captureVars
    <2>2. sweep'.locked \subseteq Due /\ sweep' \in [locked : SUBSET rows, deleted : SUBSET Key]
      BY <1>0, <1>4 DEF SelectExpired, Oldest, Due
    <2> QED
      BY <1>0, <1>1, <1>2, <2>1, <2>2
      DEF ArtifactInv, ArtifactTypeOK, ExpiryInv, UnexpiredHasBytes, Due, Expired
  <1>5. ASSUME NEW k \in Key, DeleteBlob(k)
        PROVE  ArtifactInv'
    <2>1. /\ UNCHANGED <<rows, now, failures>> /\ blobs' = blobs \ {k}
          /\ k \in sweep.locked /\ sweep' = [sweep EXCEPT !.deleted = @ \cup {k}]
      BY <1>5 DEF DeleteBlob
    <2>2. sweep'.locked = sweep.locked /\ sweep' \in [locked : SUBSET rows, deleted : SUBSET Key]
      BY <1>0, <2>1
    <2>3. Expired(k)
      BY <1>0, <2>1 DEF ExpiryInv
    <2> QED
      BY <1>0, <1>1, <1>2, <2>1, <2>2, <2>3
      DEF ArtifactInv, ArtifactTypeOK, ExpiryInv, UnexpiredHasBytes, Expired
  <1>6. CASE CommitSweep
    BY <1>0, <1>1, <1>2, <1>6
    DEF CommitSweep, NoSweep, ArtifactInv, ArtifactTypeOK, ExpiryInv, UnexpiredHasBytes, Expired
  <1>7. CASE AbortSweep
    BY <1>0, <1>1, <1>2, <1>7
    DEF AbortSweep, NoSweep, captureVars, ArtifactInv, ArtifactTypeOK, ExpiryInv, UnexpiredHasBytes, Expired
  <1> QED
    BY <1>3, <1>4, <1>5, <1>6, <1>7 DEF Sweep

-----------------------------------------------------------------------------
(* The theorems *)

\* ArtifactInv holds before anything is captured.
LEMMA ArtifactInitially == ArtifactInit => ArtifactInv
  <1> SUFFICES ASSUME ArtifactInit PROVE ArtifactInv
    OBVIOUS
  <1> USE CaptureAssumption, RetentionAssumption DEF ArtifactInit, CaptureInit
  <1>1. Holding = {}
    BY DEF Holding, AtStage
  <1>2. PermitInv
    BY <1>1, FS_EmptySet DEF PermitInv
  <1>3. ArtifactTypeOK
    BY DEF ArtifactTypeOK, JobStage, Capture, Stage, Result, NoSweep
  <1> QED
    BY <1>2, <1>3 DEF ArtifactInv, ReturnedInv, RecordedInv, ExpiryInv, OneCapturePerJob,
                      UnexpiredHasBytes, NoSweep

\* ArtifactInv is inductive.
LEMMA ArtifactStep == ArtifactInv /\ [ArtifactNext]_artifactVars => ArtifactInv'
  <1> SUFFICES ASSUME ArtifactInv, [ArtifactNext]_artifactVars PROVE ArtifactInv'
    OBVIOUS
  <1>1. CASE ArtifactNext
    BY <1>1, CapturingStep, PublishStep, SweepStep DEF ArtifactNext
  <1>2. CASE UNCHANGED artifactVars
    BY <1>2 DEF artifactVars, captureVars, retentionVars, ArtifactInv, ArtifactTypeOK, PermitInv,
        ReturnedInv, RecordedInv, ExpiryInv, OneCapturePerJob, UnexpiredHasBytes, Holding, AtStage, Expired
  <1> QED
    BY <1>1, <1>2

\* ArtifactInv is inductive: the types, the permits held or lost, what is known
\* of a capture that returned or was recorded, and the expiry of what is stored.
THEOREM ArtifactInvariant == ArtifactSpec => []ArtifactInv
  BY ArtifactInitially, ArtifactStep, PTL DEF ArtifactSpec

\* The state of captures and of their artifacts keeps its types.
THEOREM ArtifactTypeCorrect == ArtifactSpec => []ArtifactTypeOK
  <1>1. ArtifactInv => ArtifactTypeOK
    BY DEF ArtifactInv
  <1> QED
    BY <1>1, ArtifactInvariant, PTL

\* BrowserCapacity.release runs at most once for an acquire, however a capture
\* is left: no more browsers are up than there are permits.
THEOREM CapacityHolds == ArtifactSpec => []CapacityIsBounded
  <1>1. ArtifactInv => CapacityIsBounded
    BY HoldingIsFinite, CaptureAssumption DEF ArtifactInv, ArtifactTypeOK, PermitInv, CapacityIsBounded
  <1> QED
    BY <1>1, ArtifactInvariant, PTL

\* complete_browser_capture records the artifacts of one delivery only.
THEOREM OneCaptureIsRecorded == ArtifactSpec => []OneCapturePerJob
  <1>1. ArtifactInv => OneCapturePerJob
    BY DEF ArtifactInv
  <1> QED
    BY <1>1, ArtifactInvariant, PTL

\* cleanup_expired_files deletes nothing before its time, rolled back or not.
THEOREM UnexpiredIsKept == ArtifactSpec => []UnexpiredHasBytes
  <1>1. ArtifactInv => UnexpiredHasBytes
    BY DEF ArtifactInv
  <1> QED
    BY <1>1, ArtifactInvariant, PTL

=============================================================================
