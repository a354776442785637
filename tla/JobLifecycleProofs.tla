-------------------------- MODULE JobLifecycleProofs --------------------------
(***************************************************************************)
(* The types of the pipeline's state, and what a step does to the status   *)
(* of the job: every handler, the recovery cron included, leaves status    *)
(* and cancel flag alone or makes one legal, announced move; only cancel() *)
(* writes them otherwise.  For a job that obeys this lifecycle every step  *)
(* is one of a few outcomes (StepOutcomes), on which the other proofs rest *)
(***************************************************************************)
EXTENDS JobProperties, TLAPS

-----------------------------------------------------------------------------
(* The job row *)

\* Leasing, releasing and advancing a row yields a row.
LEMMA RowHelpers ==
    ASSUME NEW j \in JobRow
    PROVE  /\ Leased(j) \in JobRow
           /\ Released(j) \in JobRow
           /\ \A percent \in 0..100 : Advanced(j, percent) \in JobRow
  <1>1. Leased(j) \in JobRow
    BY DEF Leased, JobRow, Lease
  <1>2. Released(j) \in JobRow
    BY DEF Released, JobRow, Lease
  <1>3. ASSUME NEW percent \in 0..100 PROVE Advanced(j, percent) \in JobRow
    <2>1. AtLeast(j.progress, percent) \in 0..100
      BY DEF AtLeast, JobRow
    <2> QED BY <2>1 DEF Advanced, JobRow
  <1> QED BY <1>1, <1>2, <1>3

\* transition() of any row to any status leaves a row and an event list.
LEMMA TransitionTyped ==
    ASSUME NEW j \in JobRow, NEW to \in JobStatus, events \in Seq(JobStatus), Transition(j, to)
    PROVE  JobOK'
  <1>1. job' \in JobRow
    <2> DEFINE p == IF to = "CANCELLED" THEN AtMost(j.progress, 99) ELSE j.progress
    <2>1. p \in 0..100
      BY DEF AtMost, JobRow
    <2>2. job' = [j EXCEPT !.status = to, !.version = @ + 1, !.progress = p]
      BY DEF Transition
    <2> HIDE DEF p
    <2>3. job' = [status |-> to, version |-> j.version + 1, progress |-> p,
                  attempt |-> j.attempt, cancelRequested |-> j.cancelRequested,
                  lease |-> j.lease]
      BY <2>2 DEF JobRow
    <2>4. j.version + 1 \in Nat
      BY DEF JobRow
    <2> QED BY <2>1, <2>3, <2>4 DEF JobRow
  <1>2. events' \in Seq(JobStatus)
    BY DEF Transition
  <1> QED BY <1>1, <1>2 DEF JobOK

\* A handler that does not accept leaves the job a row.
LEMMA AcknowledgeTyped ==
    ASSUME JobOK, NEW S, AcknowledgeOrIgnore(S)
    PROVE  JobOK'
  <1>1. CASE UNCHANGED jobVars
    BY <1>1 DEF JobOK, jobVars
  <1>2. CASE Transition(job, "CANCELLED")
    BY <1>2, TransitionTyped DEF JobOK, JobStatus, Terminal
  <1> QED BY <1>1, <1>2 DEF AcknowledgeOrIgnore

-----------------------------------------------------------------------------
(* The outbox, the queue and the worker slots *)

\* A freshly built command is a row of the outbox.
LEMMA CommandTyped ==
    ASSUME NEW type \in CommandType, NEW kind \in KeyKind, NEW target \in Target,
           NEW subject \in WorkOf(type) \cup (IF type = "run_extraction" THEN {None} ELSE {}),
           NEW n \in Nat
    PROVE  NewCommand(type, kind, target, subject, n) \in Command
  <1>1. subject \in Target
    BY DEF WorkOf, Target
  <1> QED BY <1>1 DEF NewCommand, Command, Key

\* Delivering a command to a slot keeps the slots well typed.
LEMMA BeginTyped ==
    ASSUME RunningOK, QueueOK, NEW w \in Workers, NEW c \in queue,
           NEW subject \in WorkOf(c.type), Begin(w, c, subject)
    PROVE  RunningOK' /\ queue' = queue
  <1>1. c \in Command
    BY DEF QueueOK
  <1>2. [cmd |-> c, target |-> subject, blob |-> None, step |-> "working"] \in Operation
    BY <1>1 DEF Operation, Command, Target, WorkOf
  <1> QED BY <1>2 DEF Begin, RunningOK

\* Ending an operation, with or without its message, keeps slots and queue.
LEMMA EndTyped ==
    ASSUME RunningOK, QueueOK, NEW w \in Workers, Finish(w) \/ Requeue(w)
    PROVE  RunningOK' /\ queue' \subseteq queue
  BY DEF Finish, Requeue, RunningOK

\* So does turning a message away.
LEMMA DiscardTyped ==
    ASSUME RunningOK, NEW c, Discard(c)
    PROVE  RunningOK' /\ queue' \subseteq queue
  BY DEF Discard, RunningOK

\* What the tail of the fail_* handlers does to job, slots and queue.
LEMMA RetryTyped ==
    ASSUME JobOK, RunningOK, QueueOK, NEW w \in Workers, NEW retryable \in BOOLEAN,
           NEW budget, RetryOrFail(w, retryable, budget)
    PROVE  JobOK' /\ RunningOK' /\ queue' \subseteq queue
  <1>1. FailedRow(retryable) \in JobRow
    <2>1. Released(job) \in JobRow
      BY RowHelpers DEF JobOK
    <2>2. CASE retryable
      BY <2>1, <2>2 DEF FailedRow, JobRow
    <2>3. CASE ~retryable
      BY <2>1, <2>3 DEF FailedRow, JobRow
    <2> QED BY <2>2, <2>3
  <1>2. JobOK'
    <2>1. CASE WillRetry(retryable, budget)
      BY <1>1, <2>1 DEF RetryOrFail, JobOK
    <2>2. CASE ~WillRetry(retryable, budget)
      BY <1>1, <2>2, TransitionTyped DEF RetryOrFail, JobOK, JobStatus, Terminal
    <2> QED BY <2>1, <2>2
  <1>3. Finish(w) \/ Requeue(w)
    BY DEF RetryOrFail
  <1> QED BY <1>2, <1>3, EndTyped

\* A step that inserts commands, publishes none and enqueues none keeps the queue.
LEMMA QueueTyped ==
    ASSUME QueueOK, outbox \subseteq outbox', outbox' \subseteq Command,
           published' = published, queue' \subseteq queue
    PROVE  QueueOK'
  BY DEF QueueOK

\* Every command the stages insert is a row of the outbox.
LEMMA StageCommands ==
    /\ PlanCommand \in Command /\ CaptureCommand \in Command /\ SourceCommand \in Command
    /\ ExtractCommand \in Command /\ ValidateCommand \in Command
    /\ \A p \in Pages : PageCommand(p) \in Command /\ ReadCommand(p) \in Command
    /\ \A f \in Formats : ExportCommand(f) \in Command
  <1>1. PlanCommand \in Command /\ CaptureCommand \in Command /\ ValidateCommand \in Command
    BY CommandTyped DEF PlanCommand, CaptureCommand, ValidateCommand, CommandType, KeyKind,
       Target, WorkOf
  <1>2. SourceCommand \in Command
    BY CommandTyped, StoreAssumption DEF SourceCommand, CommandType, KeyKind, Target, WorkOf
  <1>3. ExtractCommand \in Command
    BY CommandTyped DEF ExtractCommand, CommandType, KeyKind, Target, WorkOf
  <1>4. ASSUME NEW p \in Pages PROVE PageCommand(p) \in Command /\ ReadCommand(p) \in Command
    BY CommandTyped DEF PageCommand, ReadCommand, CommandType, KeyKind, Target, WorkOf
  <1>5. ASSUME NEW f \in Formats PROVE ExportCommand(f) \in Command
    BY CommandTyped DEF ExportCommand, CommandType, KeyKind, Target, WorkOf
  <1> QED BY <1>1, <1>2, <1>3, <1>4, <1>5

-----------------------------------------------------------------------------
(* Planning and capture *)

\* The handlers of planning and capture keep the types.
LEMMA PlanningTyped ==
    ASSUME TypeOK, NEW w \in Workers, PlanningStep(w)
    PROVE  TypeOK'
  <1> USE DEF TypeOK
  <1>1. ASSUME NEW c \in queue, ClaimPlanning(w, c) PROVE TypeOK'
    <2>1. c.type = "run_planning"
      BY <1>1 DEF ClaimPlanning, Delivered
    <2>2. JobOK' /\ RunningOK' /\ queue' \subseteq queue
      <3>1. CASE PlanningClaimable /\ Begin(w, c, None)
                  /\ job.status = "QUEUED" /\ Transition(Leased(Advanced(job, 10)), "PLANNING")
        <4>1. Leased(Advanced(job, 10)) \in JobRow
          BY RowHelpers DEF JobOK
        <4> QED BY <2>1, <3>1, <4>1, TransitionTyped, BeginTyped
                DEF JobOK, JobStatus, Active, WorkOf
      <3>2. CASE PlanningClaimable /\ Begin(w, c, None) /\ job' = Leased(job) /\ UNCHANGED events
        BY <2>1, <3>2, RowHelpers, BeginTyped DEF JobOK, WorkOf
      <3>3. CASE AcknowledgeOrIgnore({"QUEUED", "PLANNING"}) /\ Discard(c)
        BY <3>3, AcknowledgeTyped, DiscardTyped
      <3> QED BY <1>1, <3>1, <3>2, <3>3 DEF ClaimPlanning
    <2> QED BY <1>1, <2>2, QueueTyped DEF ClaimPlanning, QueueOK, DataOK, dataVars, EnvironmentOK
  <1>2. ASSUME CompletePlanning(w) PROVE TypeOK'
    <2>1. JobOK' /\ outbox \subseteq outbox' /\ outbox' \subseteq Command
      <3>1. CASE Transition(Released(Advanced(job, 20)), "BROWSER_INITIALIZING")
                  /\ Insert(CaptureCommand)
        <4>1. Released(Advanced(job, 20)) \in JobRow
          BY RowHelpers DEF JobOK
        <4> QED BY <3>1, <4>1, TransitionTyped, StageCommands
                DEF JobOK, JobStatus, Active, Insert, QueueOK
      <3>2. CASE AcknowledgeOrIgnore({"PLANNING"}) /\ UNCHANGED outbox
        BY <3>2, AcknowledgeTyped DEF QueueOK
      <3> QED BY <1>2, <3>1, <3>2 DEF CompletePlanning
    <2> QED BY <1>2, <2>1, EndTyped, QueueTyped DEF CompletePlanning, DataOK, dataVars, EnvironmentOK
  <1>3. ASSUME FailPlanning(w) PROVE TypeOK'
    <2>1. JobOK' /\ RunningOK' /\ queue' \subseteq queue
      <3>1. CASE \E retryable \in FailureOf("run_planning") :
                    RetryOrFail(w, retryable, PlannerRetries)
        BY <3>1, RetryTyped DEF FailureOf
      <3>2. CASE AcknowledgeOrIgnore({"PLANNING"}) /\ Finish(w)
        BY <3>2, AcknowledgeTyped, EndTyped
      <3> QED BY <1>3, <3>1, <3>2 DEF FailPlanning
    <2> QED BY <1>3, <2>1, QueueTyped DEF FailPlanning, QueueOK, DataOK, dataVars, EnvironmentOK
  <1>4. ASSUME NEW c \in queue, PrepareCapture(w, c) PROVE TypeOK'
    <2>1. c.type = "run_browser_capture"
      BY <1>4 DEF PrepareCapture, Delivered
    <2>2. JobOK' /\ RunningOK' /\ queue' \subseteq queue
      <3>1. CASE job' = Leased(job) /\ UNCHANGED events /\ Begin(w, c, None)
        BY <2>1, <3>1, RowHelpers, BeginTyped DEF JobOK, WorkOf
      <3>2. CASE AcknowledgeOrIgnore({"BROWSER_INITIALIZING"}) /\ Discard(c)
        BY <3>2, AcknowledgeTyped, DiscardTyped
      <3> QED BY <1>4, <3>1, <3>2 DEF PrepareCapture
    <2> QED BY <1>4, <2>2, QueueTyped DEF PrepareCapture, QueueOK, DataOK, dataVars, EnvironmentOK
  <1>5. ASSUME CompleteCapture(w) PROVE TypeOK'
    <2>1. JobOK' /\ outbox \subseteq outbox' /\ outbox' \subseteq Command
          /\ pages' \in [Pages -> PageRow]
      <3>1. CASE /\ Transition(Released(Advanced(job, 30)), "DISCOVERING")
                 /\ pages' = [pages EXCEPT ![SourcePage].status = "DISCOVERED",
                                          ![SourcePage].depth = 0]
                 /\ Insert(SourceCommand)
        <4>1. Released(Advanced(job, 30)) \in JobRow
          BY RowHelpers DEF JobOK
        <4>2. SourcePage \in Pages
          BY StoreAssumption
        <4>3. pages' \in [Pages -> PageRow]
          BY <3>1, <4>2 DEF DataOK, PageRow, PageStatus
        <4> QED BY <3>1, <4>1, <4>3, TransitionTyped, StageCommands
                DEF JobOK, JobStatus, Active, Insert, QueueOK
      <3>2. CASE AcknowledgeOrIgnore({"BROWSER_INITIALIZING"}) /\ UNCHANGED <<outbox, pages>>
        BY <3>2, AcknowledgeTyped DEF QueueOK, DataOK
      <3> QED BY <1>5, <3>1, <3>2 DEF CompleteCapture
    <2> QED BY <1>5, <2>1, EndTyped, QueueTyped DEF CompleteCapture, DataOK, EnvironmentOK
  <1>6. ASSUME FailCapture(w) PROVE TypeOK'
    <2>1. JobOK'
      <3>1. CASE Transition(Released(job), "FAILED")
        BY <3>1, RowHelpers, TransitionTyped DEF JobOK, JobStatus, Terminal
      <3>2. CASE AcknowledgeOrIgnore({"BROWSER_INITIALIZING"})
        BY <3>2, AcknowledgeTyped
      <3> QED BY <1>6, <3>1, <3>2 DEF FailCapture
    <2> QED BY <1>6, <2>1, EndTyped, QueueTyped DEF FailCapture, QueueOK, DataOK, dataVars, EnvironmentOK
  <1> QED BY <1>1, <1>2, <1>3, <1>4, <1>5, <1>6 DEF PlanningStep

-----------------------------------------------------------------------------
(* Discovery *)

\* _persist_discovery_candidates adds typed rows only.
LEMMA PersistedTyped ==
    ASSUME NEW inv \in [Pages -> PageRow], NEW S, NEW keep, NEW depth \in Nat,
           NEW over \in {"SKIPPED", "REJECTED"}
    PROVE  Persisted(inv, S, keep, depth, over) \in [Pages -> PageRow]
  BY DEF Persisted, PageRow, PageStatus, ExtractionStatus

\* Whatever a visit finds, it leaves a typed inventory.
LEMMA VisitTyped ==
    ASSUME DataOK, NEW p \in Pages, NEW result \in VisitOutcomes(p)
    PROVE  result \in [Pages -> PageRow]
  <1> DEFINE visited == [pages EXCEPT ![p].status = "VISITED"]
             depth   == pages[p].depth + 1
             absent  == WithStatus(pages, "absent")
             inDepth == IF depth <= MaxDepth THEN absent ELSE {}
             refused == IF p = SitemapPage THEN absent ELSE inDepth
             linked  == UNION {{Persisted(visited, S, K, depth, "SKIPPED")
                                  : K \in Admitted(visited, S)} : S \in SUBSET inDepth}
             scoped  == {Persisted(inv, R, {}, depth, "REJECTED")
                           : inv \in linked, R \in SUBSET refused}
             probed(inv) == {Persisted(inv, {SitemapPage}, K, 1, "SKIPPED")
                               : K \in Admitted(inv, {SitemapPage})}
  <1>1. depth \in Nat /\ visited \in [Pages -> PageRow]
    BY DEF DataOK, PageRow, PageStatus
  <1>2. linked \subseteq [Pages -> PageRow]
    <2> HIDE DEF visited, depth, inDepth
    <2> QED BY <1>1, PersistedTyped
  <1>3. scoped \subseteq [Pages -> PageRow]
    <2> HIDE DEF linked, depth, refused
    <2> QED BY <1>1, <1>2, PersistedTyped
  <1>4. ASSUME NEW inv \in scoped PROVE probed(inv) \subseteq [Pages -> PageRow]
    <2> HIDE DEF scoped
    <2> QED BY <1>3, <1>4, PersistedTyped
  <1>5. VisitOutcomes(p) =
          IF ProbesSitemap(pages, p) THEN UNION {probed(inv) : inv \in scoped} ELSE scoped
    BY DEF VisitOutcomes
  <1> HIDE DEF scoped, probed
  <1> QED BY <1>3, <1>4, <1>5

\* So do those of discovery: a claim picks a page, and a visit writes page rows.
LEMMA DiscoveryTyped ==
    ASSUME TypeOK, NEW w \in Workers, DiscoveryStep(w)
    PROVE  TypeOK'
  <1> USE DEF TypeOK
  <1>1. ASSUME NEW c \in queue, ClaimDiscovery(w, c) PROVE TypeOK'
    <2>1. c.type = "run_discovery"
      BY <1>1 DEF ClaimDiscovery, Delivered
    <2>2. JobOK' /\ RunningOK' /\ queue' \subseteq queue /\ pages' \in [Pages -> PageRow]
      <3>1. CASE /\ \E p \in DiscoverablePages(c) :
                        /\ pages' = [pages EXCEPT ![p].status = "QUEUED"]
                        /\ Begin(w, c, p)
                 /\ job' = Leased(job) /\ UNCHANGED events
        <4>1. PICK p \in Pages : pages' = [pages EXCEPT ![p].status = "QUEUED"] /\ Begin(w, c, p)
          BY <3>1 DEF DiscoverablePages, Foremost, WithStatus
        <4>2. pages' \in [Pages -> PageRow]
          BY <4>1 DEF DataOK, PageRow, PageStatus
        <4>3. RunningOK' /\ queue' = queue
          BY <2>1, <4>1, BeginTyped DEF WorkOf
        <4> QED BY <3>1, <4>2, <4>3, RowHelpers DEF JobOK
      <3>2. CASE AcknowledgeOrIgnore({"DISCOVERING"}) /\ Discard(c) /\ UNCHANGED pages
        BY <3>2, AcknowledgeTyped, DiscardTyped DEF DataOK
      <3> QED BY <1>1, <3>1, <3>2 DEF ClaimDiscovery
    <2> QED BY <1>1, <2>2, QueueTyped DEF ClaimDiscovery, QueueOK, DataOK, EnvironmentOK
  <1>2. ASSUME CompleteDiscovery(w) PROVE TypeOK'
    <2>1. JobOK' /\ outbox \subseteq outbox' /\ outbox' \subseteq Command
          /\ pages' \in [Pages -> PageRow]
      <3>1. ASSUME NEW inv \in VisitOutcomes(running[w].target), NEW next \in FollowUps(inv),
                   IF next = ExtractCommand
                   THEN Transition(Released(Advanced(job, 40)), "EXTRACTING")
                   ELSE job' = Released(job) /\ UNCHANGED events,
                   pages' = inv, Insert(next)
            PROVE  JobOK' /\ outbox \subseteq outbox' /\ outbox' \subseteq Command
                   /\ pages' \in [Pages -> PageRow]
        <4>1. running[w].target \in Pages
          BY <1>2 DEF CompleteDiscovery, Working, RunningOK, Operation, WorkOf
        <4>2. inv \in [Pages -> PageRow]
          BY <4>1, VisitTyped
        <4>3. next \in Command
          BY StageCommands DEF FollowUps, Foremost, WithStatus
        <4>4. Released(job) \in JobRow /\ Released(Advanced(job, 40)) \in JobRow
          BY RowHelpers DEF JobOK
        <4>5. JobOK'
          BY <3>1, <4>4, TransitionTyped DEF JobOK, JobStatus, Active
        <4> QED BY <3>1, <4>2, <4>3, <4>5 DEF Insert, QueueOK
      <3>2. CASE UNCHANGED <<jobVars, outbox, pages>>
        BY <3>2 DEF jobVars, JobOK, QueueOK, DataOK
      <3>3. CASE AcknowledgeOrIgnore({"DISCOVERING"}) /\ UNCHANGED <<outbox, pages>>
        BY <3>3, AcknowledgeTyped DEF QueueOK, DataOK
      <3> QED BY <1>2, <3>1, <3>2, <3>3 DEF CompleteDiscovery
    <2> QED BY <1>2, <2>1, EndTyped, QueueTyped DEF CompleteDiscovery, DataOK, EnvironmentOK
  <1>3. ASSUME FailDiscovery(w) PROVE TypeOK'
    <2>1. JobOK' /\ RunningOK' /\ queue' \subseteq queue /\ pages' \in [Pages -> PageRow]
      <3>1. ASSUME NEW retryable \in FailureOf("run_discovery"),
                   RetryOrFail(w, retryable, PlannerRetries),
                   pages' = [pages EXCEPT ![running[w].cmd.target].status =
                                IF WillRetry(retryable, PlannerRetries)
                                THEN "DISCOVERED" ELSE "FAILED"]
            PROVE  JobOK' /\ RunningOK' /\ queue' \subseteq queue /\ pages' \in [Pages -> PageRow]
        <4>1. JobOK' /\ RunningOK' /\ queue' \subseteq queue
          BY <3>1, RetryTyped DEF FailureOf
        <4>2. running[w].cmd.target \in Pages
          BY <1>3 DEF FailDiscovery, Working, RunningOK, Operation, Command, WorkOf
        <4>3. pages' \in [Pages -> PageRow]
          <5>1. CASE WillRetry(retryable, PlannerRetries)
            BY <3>1, <4>2, <5>1 DEF DataOK, PageRow, PageStatus
          <5>2. CASE ~WillRetry(retryable, PlannerRetries)
            BY <3>1, <4>2, <5>2 DEF DataOK, PageRow, PageStatus
          <5> QED BY <5>1, <5>2
        <4> QED BY <4>1, <4>3
      <3>2. CASE AcknowledgeOrIgnore({"DISCOVERING"}) /\ Finish(w) /\ UNCHANGED pages
        BY <3>2, AcknowledgeTyped, EndTyped DEF DataOK
      <3> QED BY <1>3, <3>1, <3>2 DEF FailDiscovery
    <2> QED BY <1>3, <2>1, QueueTyped DEF FailDiscovery, QueueOK, DataOK, EnvironmentOK
  <1> QED BY <1>1, <1>2, <1>3 DEF DiscoveryStep

-----------------------------------------------------------------------------
(* Extraction and validation *)

\* So do those of extraction.
LEMMA ExtractionTyped ==
    ASSUME TypeOK, NEW w \in Workers, ExtractionStep(w)
    PROVE  TypeOK'
  <1> USE DEF TypeOK
  <1>1. ASSUME NEW c \in queue, ClaimExtraction(w, c) PROVE TypeOK'
    <2>1. c.type = "run_extraction"
      BY <1>1 DEF ClaimExtraction, Delivered
    <2>2. JobOK' /\ RunningOK' /\ queue' \subseteq queue /\ pages' \in [Pages -> PageRow]
      <3>1. CASE /\ \E p \in ClaimablePages(c) :
                        /\ pages' = [pages EXCEPT ![p].extraction = "EXTRACTING"]
                        /\ Begin(w, c, p)
                 /\ job' = Leased(job) /\ UNCHANGED events
        <4>1. PICK p \in Pages :
                pages' = [pages EXCEPT ![p].extraction = "EXTRACTING"] /\ Begin(w, c, p)
          BY <3>1 DEF ClaimablePages, Readable
        <4>2. pages' \in [Pages -> PageRow]
          BY <4>1 DEF DataOK, PageRow, ExtractionStatus
        <4>3. RunningOK' /\ queue' = queue
          BY <2>1, <4>1, BeginTyped DEF WorkOf
        <4> QED BY <3>1, <4>2, <4>3, RowHelpers DEF JobOK
      <3>2. CASE AcknowledgeOrIgnore({"EXTRACTING"}) /\ Discard(c) /\ UNCHANGED pages
        BY <3>2, AcknowledgeTyped, DiscardTyped DEF DataOK
      <3> QED BY <1>1, <3>1, <3>2 DEF ClaimExtraction
    <2> QED BY <1>1, <2>2, QueueTyped DEF ClaimExtraction, QueueOK, DataOK, EnvironmentOK
  <1>2. ASSUME CompleteExtraction(w) PROVE TypeOK'
    <2> DEFINE p == running[w].target
               read(found) == [pages EXCEPT ![p].extraction =
                                IF found \subseteq records THEN "PARTIAL" ELSE "EXTRACTED"]
    <2>1. p \in Pages
      BY <1>2 DEF CompleteExtraction, Working, RunningOK, Operation, WorkOf
    <2>2. JobOK' /\ outbox \subseteq outbox' /\ outbox' \subseteq Command
          /\ pages' \in [Pages -> PageRow] /\ records' \subseteq Pages \X Items
          /\ validation' \in ValidationRow
      <3>1. ASSUME NEW found \in ExtractedRecords(p), NEW next \in AfterReading(read(found)),
                   IF next = ValidateCommand
                   THEN /\ Transition(Released(Advanced(job, 60)), "VALIDATING")
                        /\ validation' = [validation EXCEPT !.status = "QUEUED"]
                   ELSE job' = Released(job) /\ UNCHANGED <<events, validation>>,
                   pages' = read(found), records' = records \cup found, Insert(next)
            PROVE  /\ JobOK' /\ outbox \subseteq outbox' /\ outbox' \subseteq Command
                   /\ pages' \in [Pages -> PageRow] /\ records' \subseteq Pages \X Items
                   /\ validation' \in ValidationRow
        <4>1. pages' \in [Pages -> PageRow]
          <5>1. CASE found \subseteq records
            BY <2>1, <3>1, <5>1 DEF DataOK, PageRow, ExtractionStatus
          <5>2. CASE ~(found \subseteq records)
            BY <2>1, <3>1, <5>2 DEF DataOK, PageRow, ExtractionStatus
          <5> QED BY <5>1, <5>2
        <4>2. records' \subseteq Pages \X Items
          BY <2>1, <3>1 DEF ExtractedRecords, DataOK
        <4>3. next \in Command
          BY StageCommands DEF AfterReading, Readable
        <4>4. Released(job) \in JobRow /\ Released(Advanced(job, 60)) \in JobRow
          BY RowHelpers DEF JobOK
        <4>5. JobOK'
          BY <3>1, <4>4, TransitionTyped DEF JobOK, JobStatus, Active
        <4>6. validation' \in ValidationRow
          BY <3>1 DEF DataOK, ValidationRow
        <4> QED BY <3>1, <4>1, <4>2, <4>3, <4>5, <4>6 DEF Insert, QueueOK
      <3>2. CASE UNCHANGED <<jobVars, outbox, pages, records, validation>>
        BY <3>2 DEF jobVars, JobOK, QueueOK, DataOK
      <3>3. CASE AcknowledgeOrIgnore({"EXTRACTING"}) /\ UNCHANGED <<outbox, pages, records, validation>>
        BY <3>3, AcknowledgeTyped DEF QueueOK, DataOK
      <3> QED BY <1>2, <3>1, <3>2, <3>3 DEF CompleteExtraction
    <2> QED BY <1>2, <2>2, EndTyped, QueueTyped DEF CompleteExtraction, DataOK, EnvironmentOK
  <1>3. ASSUME FailExtraction(w) PROVE TypeOK'
    <2>1. JobOK' /\ RunningOK' /\ queue' \subseteq queue /\ pages' \in [Pages -> PageRow]
      <3>1. ASSUME NEW retryable \in FailureOf("run_extraction"),
                   RetryOrFail(w, retryable, ExtractionRetries),
                   pages' = [q \in Pages |->
                                IF q = running[w].cmd.target
                                THEN [pages[q] EXCEPT !.extraction =
                                        IF WillRetry(retryable, ExtractionRetries)
                                        THEN "PENDING" ELSE "FAILED"]
                                ELSE pages[q]]
            PROVE  JobOK' /\ RunningOK' /\ queue' \subseteq queue /\ pages' \in [Pages -> PageRow]
        <4>1. JobOK' /\ RunningOK' /\ queue' \subseteq queue
          BY <3>1, RetryTyped DEF FailureOf
        <4>2. ASSUME NEW q \in Pages PROVE pages'[q] \in PageRow
          <5>1. CASE WillRetry(retryable, ExtractionRetries)
            BY <3>1, <5>1 DEF DataOK, PageRow, ExtractionStatus
          <5>2. CASE ~WillRetry(retryable, ExtractionRetries)
            BY <3>1, <5>2 DEF DataOK, PageRow, ExtractionStatus
          <5> QED BY <5>1, <5>2
        <4> QED BY <3>1, <4>1, <4>2
      <3>2. CASE AcknowledgeOrIgnore({"EXTRACTING"}) /\ Finish(w) /\ UNCHANGED pages
        BY <3>2, AcknowledgeTyped, EndTyped DEF DataOK
      <3> QED BY <1>3, <3>1, <3>2 DEF FailExtraction
    <2> QED BY <1>3, <2>1, QueueTyped DEF FailExtraction, QueueOK, DataOK, EnvironmentOK
  <1> QED BY <1>1, <1>2, <1>3 DEF ExtractionStep

\* So do those of validation.
LEMMA ValidationTyped ==
    ASSUME TypeOK, NEW w \in Workers, ValidationStep(w)
    PROVE  TypeOK'
  <1> USE DEF TypeOK
  <1>1. ASSUME NEW c \in queue, ClaimValidation(w, c) PROVE TypeOK'
    <2>1. c.type = "run_validation"
      BY <1>1 DEF ClaimValidation, Delivered
    <2>2. JobOK' /\ RunningOK' /\ queue' \subseteq queue /\ validation' \in ValidationRow
      <3>1. CASE /\ validation' = [validation EXCEPT !.status = "RUNNING"]
                 /\ job' = Leased(job) /\ UNCHANGED events
                 /\ Begin(w, c, None)
        BY <2>1, <3>1, RowHelpers, BeginTyped DEF JobOK, WorkOf, DataOK, ValidationRow
      <3>2. CASE /\ IF ValidationClaimable THEN Transition(job, "CANCELLED") ELSE UNCHANGED jobVars
                 /\ Discard(c) /\ UNCHANGED validation
        BY <3>2, TransitionTyped, DiscardTyped DEF JobOK, jobVars, JobStatus, Terminal, DataOK
      <3> QED BY <1>1, <3>1, <3>2 DEF ClaimValidation
    <2> QED BY <1>1, <2>2, QueueTyped DEF ClaimValidation, QueueOK, DataOK, EnvironmentOK
  <1>2. ASSUME CompleteValidation(w) PROVE TypeOK'
    <2>1. JobOK' /\ outbox \subseteq outbox' /\ outbox' \subseteq Command
          /\ validation' \in ValidationRow /\ exports' \in [Formats -> ExportRow]
      <3>1. CASE /\ validation' = [status |-> "COMPLETED", results |-> records]
                 /\ Transition(Released(Advanced(job, 80)), "EXPORTING")
                 /\ exports' = [f \in Formats |-> [status |-> "QUEUED", attempt |-> 0]]
                 /\ outbox' = outbox \cup {ExportCommand(f) : f \in Formats}
        <4>1. Released(Advanced(job, 80)) \in JobRow
          BY RowHelpers DEF JobOK
        <4>2. JobOK'
          BY <3>1, <4>1, TransitionTyped DEF JobOK, JobStatus, Active
        <4> QED BY <3>1, <4>2, StageCommands DEF DataOK, ValidationRow, ExportRow, QueueOK
      <3>2. CASE AcknowledgeOrIgnore({"VALIDATING"}) /\ UNCHANGED <<outbox, validation, exports>>
        BY <3>2, AcknowledgeTyped DEF QueueOK, DataOK
      <3> QED BY <1>2, <3>1, <3>2 DEF CompleteValidation
    <2> QED BY <1>2, <2>1, EndTyped, QueueTyped DEF CompleteValidation, DataOK, EnvironmentOK
  <1>3. ASSUME FailValidation(w) PROVE TypeOK'
    <2>1. JobOK' /\ RunningOK' /\ queue' \subseteq queue
      <3>1. CASE \E retryable \in FailureOf("run_validation") :
                    RetryOrFail(w, retryable, ValidationRetries)
        BY <3>1, RetryTyped DEF FailureOf
      <3>2. CASE UNCHANGED jobVars /\ Finish(w)
        BY <3>2, EndTyped DEF jobVars, JobOK
      <3> QED BY <1>3, <3>1, <3>2 DEF FailValidation
    <2> QED BY <1>3, <2>1, QueueTyped DEF FailValidation, QueueOK, DataOK, dataVars, EnvironmentOK
  <1> QED BY <1>1, <1>2, <1>3 DEF ValidationStep

-----------------------------------------------------------------------------
(* Export *)

\* The error path of run_export, whether it runs before or after the commit.
LEMMA ExportErrorTyped ==
    ASSUME TypeOK, NEW w \in Workers, Working(w, "run_export"),
           NEW retryable \in BOOLEAN, ExportError(w, retryable)
    PROVE  JobOK' /\ QueueOK' /\ RunningOK' /\ DataOK' /\ clients' = clients
  <1> USE DEF TypeOK
  <1> DEFINE f     == running[w].target
             again == retryable /\ exports[f].attempt < ExportRetries
  <1>1. f \in Formats
    BY DEF Working, RunningOK, Operation, WorkOf, CommandType
  <1>2. JobOK' /\ (Finish(w) \/ Requeue(w)) /\ exports' \in [Formats -> ExportRow]
    <2>1. CASE /\ exports' = [exports EXCEPT
                    ![f].status = IF again THEN "QUEUED" ELSE "FAILED",
                    ![f].attempt = IF again THEN @ + 1 ELSE @]
               /\ IF again
                  THEN job' = Released(job) /\ UNCHANGED events /\ Requeue(w)
                  ELSE Transition(Released(job), "FAILED") /\ Finish(w)
      <3>1. exports' \in [Formats -> ExportRow]
        <4>1. CASE again
          BY <1>1, <2>1, <4>1 DEF DataOK, ExportRow
        <4>2. CASE ~again
          BY <1>1, <2>1, <4>2 DEF DataOK, ExportRow
        <4> QED BY <4>1, <4>2
      <3>2. Released(job) \in JobRow
        BY RowHelpers DEF JobOK
      <3>3. CASE again
        BY <2>1, <3>1, <3>2, <3>3 DEF JobOK
      <3>4. CASE ~again
        BY <2>1, <3>1, <3>2, <3>4, TransitionTyped DEF JobOK, JobStatus, Terminal
      <3> QED BY <3>3, <3>4
    <2>2. CASE UNCHANGED <<jobVars, exports>> /\ Finish(w)
      BY <2>2 DEF jobVars, JobOK, DataOK
    <2> QED BY <2>1, <2>2 DEF ExportError
  <1>3. RunningOK' /\ QueueOK'
    BY <1>2, EndTyped, QueueTyped DEF ExportError, QueueOK
  <1> QED BY <1>2, <1>3 DEF ExportError, WithoutUpload, DataOK

\* So do those of export: its command names a format.
LEMMA ExportTyped ==
    ASSUME TypeOK, NEW w \in Workers, ExportStep(w)
    PROVE  TypeOK'
  <1> USE DEF TypeOK
  <1>1. ASSUME NEW c \in queue, ClaimExport(w, c) PROVE TypeOK'
    <2> DEFINE f == c.target
    <2>1. c \in Command /\ c.type = "run_export" /\ f \in Formats
      BY <1>1 DEF ClaimExport, Delivered, QueueOK, Command, WorkOf
    <2>2. JobOK' /\ RunningOK' /\ queue' \subseteq queue /\ exports' \in [Formats -> ExportRow]
      <3>1. CASE /\ exports' = [exports EXCEPT ![f].status = "RUNNING",
                                              ![f].attempt = AtLeast(@, c.attempt)]
                 /\ job' = Leased(job) /\ Begin(w, c, f)
        <4>1. AtLeast(exports[f].attempt, c.attempt) \in Nat
          BY <2>1 DEF AtLeast, Command, DataOK, ExportRow
        <4>2. exports' \in [Formats -> ExportRow]
          BY <2>1, <3>1, <4>1 DEF DataOK, ExportRow
        <4>3. RunningOK' /\ queue' = queue
          BY <2>1, <3>1, BeginTyped DEF WorkOf, CommandType
        <4> QED BY <1>1, <3>1, <4>2, <4>3, RowHelpers DEF JobOK, ClaimExport
      <3>2. CASE /\ exports' = [exports EXCEPT ![f].status =
                            IF JobCancelled /\ @ # "COMPLETED" THEN "CANCELLED" ELSE @]
                 /\ UNCHANGED job /\ Discard(c)
        <4>1. exports' \in [Formats -> ExportRow]
          <5>1. CASE JobCancelled /\ exports[f].status # "COMPLETED"
            BY <2>1, <3>2, <5>1 DEF DataOK, ExportRow
          <5>2. CASE ~(JobCancelled /\ exports[f].status # "COMPLETED")
            BY <2>1, <3>2, <5>2 DEF DataOK, ExportRow
          <5> QED BY <5>1, <5>2
        <4> QED BY <1>1, <3>2, <4>1, DiscardTyped DEF JobOK, ClaimExport
      <3> QED BY <1>1, <3>1, <3>2 DEF ClaimExport
    <2> QED BY <1>1, <2>2, QueueTyped DEF ClaimExport, QueueOK, DataOK, EnvironmentOK
  <1>2. ASSUME UploadArtifact(w) PROVE TypeOK'
    <2>1. RunningOK' /\ queue' \subseteq queue /\ store' \subseteq Blobs
      <3>1. CASE Finish(w) /\ UNCHANGED store
        BY <3>1, EndTyped DEF DataOK
      <3>2. ASSUME NEW b \in UnusedBlobs, store' = store \cup {b},
                   running' = [running EXCEPT ![w].blob = b, ![w].step = "stored"],
                   UNCHANGED queue
            PROVE  RunningOK' /\ queue' \subseteq queue /\ store' \subseteq Blobs
        <4>1. b \in Blobs /\ b # None
          BY StoreAssumption DEF UnusedBlobs
        <4>2. running[w] \in Operation
          BY <1>2 DEF UploadArtifact, AtStep, Working, RunningOK
        <4>3. [running[w] EXCEPT !.blob = b, !.step = "stored"] \in Operation
          BY <4>1, <4>2 DEF Operation
        <4>4. RunningOK'
          BY <3>2, <4>3 DEF RunningOK
        <4> QED BY <3>2, <4>1, <4>4 DEF DataOK
      <3> QED BY <1>2, <3>1, <3>2 DEF UploadArtifact
    <2> QED BY <1>2, <2>1, QueueTyped
            DEF UploadArtifact, jobVars, JobOK, QueueOK, DataOK, EnvironmentOK
  <1>3. ASSUME CompleteExport(w) PROVE TypeOK'
    <2> DEFINE f    == running[w].target
               done == [exports EXCEPT ![f].status = "COMPLETED"]
    <2>1. running[w] \in Operation /\ f \in Formats /\ running[w].blob \in Blobs
      BY <1>3 DEF CompleteExport, AtStep, Working, RunningOK, Operation, WorkOf, CommandType
    <2>2. JobOK' /\ RunningOK' /\ queue' \subseteq queue /\ exports' \in [Formats -> ExportRow]
          /\ files' \subseteq [format : Formats, blob : Blobs] /\ store' \subseteq Blobs
      <3>1. CASE /\ files' = files \cup {[format |-> f, blob |-> running[w].blob]}
                 /\ exports' = done
                 /\ IF AllExported(done)
                    THEN Transition([Released(job) EXCEPT !.progress = 100], "COMPLETED")
                    ELSE job' = Released(job) /\ UNCHANGED events
                 /\ running' = [running EXCEPT ![w].step = "committed"]
                 /\ UNCHANGED <<queue, store>>
        <4>1. exports' \in [Formats -> ExportRow]
          BY <2>1, <3>1 DEF DataOK, ExportRow
        <4>2. Released(job) \in JobRow /\ [Released(job) EXCEPT !.progress = 100] \in JobRow
          <5>1. Released(job) \in JobRow
            BY RowHelpers DEF JobOK
          <5> QED BY <5>1 DEF JobRow
        <4>3. JobOK'
          <5> HIDE DEF done
          <5> QED BY <3>1, <4>2, TransitionTyped DEF JobOK, JobStatus, Terminal
        <4>4. [running[w] EXCEPT !.step = "committed"] \in Operation
          BY <1>3, <2>1 DEF CompleteExport, AtStep, Operation
        <4>5. RunningOK'
          BY <3>1, <4>4 DEF RunningOK
        <4> QED BY <2>1, <3>1, <4>1, <4>3, <4>5 DEF DataOK
      <3>2. CASE store' = WithoutUpload(w) /\ Finish(w) /\ UNCHANGED <<jobVars, files, exports>>
        BY <3>2, EndTyped DEF WithoutUpload, jobVars, JobOK, DataOK
      <3> QED BY <1>3, <3>1, <3>2 DEF CompleteExport
    <2> QED BY <1>3, <2>2, QueueTyped DEF CompleteExport, QueueOK, DataOK, EnvironmentOK
  <1>4. ASSUME ReturnFromExport(w) PROVE TypeOK'
    BY <1>4, EndTyped, QueueTyped
       DEF ReturnFromExport, jobVars, JobOK, QueueOK, dataVars, DataOK, EnvironmentOK
  <1>5. ASSUME FailExport(w) PROVE TypeOK'
    BY <1>5, ExportErrorTyped DEF FailExport, AtStep, FailureOf, EnvironmentOK
  <1> QED BY <1>1, <1>2, <1>3, <1>4, <1>5 DEF ExportStep

-----------------------------------------------------------------------------
(* Recovery, cancellation and faults *)

\* dispatch_pending publishes rows of the outbox.
LEMMA PublishTyped ==
    ASSUME QueueOK, NEW S \in SUBSET Pending, Publish(S),
           outbox \subseteq outbox', outbox' \subseteq Command
    PROVE  QueueOK'
  BY DEF QueueOK, Publish, Pending

\* The row recovery writes, and the command it inserts, are well typed.
LEMMA RecoveryTyped ==
    ASSUME TypeOK
    PROVE  /\ RecoveredRow \in JobRow
           /\ \A t \in Formats : RecoveredExportAttempt(t) \in Nat
           /\ \A t \in RecoveryTargets : RecoveryCommand(t) \in Command
  <1> USE DEF TypeOK
  <1>1. RecoveredRow \in JobRow
    <2>1. Released(job) \in JobRow
      BY RowHelpers DEF JobOK
    <2> QED BY <2>1 DEF RecoveredRow, JobRow
  <1>2. ASSUME NEW t \in Formats PROVE RecoveredExportAttempt(t) \in Nat
    <2>1. exports[t].attempt \in Nat /\ RecoveredRow.attempt \in Nat
      BY <1>1 DEF DataOK, ExportRow, JobRow
    <2> HIDE DEF TypeOK
    <2> QED BY <2>1 DEF RecoveredExportAttempt, AtLeast
  <1>3. ASSUME NEW t \in RecoveryTargets PROVE RecoveryCommand(t) \in Command
    <2> DEFINE type == RecoveryType[RecoveryPhase]
               key  == IF RecoveryPhase = "export"
                       THEN <<"export", t, RecoveredExportAttempt(t)>>
                       ELSE <<RecoveryPhase, None, RecoveredRow.attempt>>
    <2>1. RecoveredRow.attempt \in Nat
      BY <1>1 DEF JobRow
    <2>2. /\ type \in CommandType /\ t \in WorkOf(type)
          /\ RecoveryPhase \in KeyKind
          /\ RecoveryPhase = "export" => t \in Formats
      <3>1. CASE RecoveryPhase = "discovery"
        BY <1>3, <3>1 DEF RecoveryTargets, Foremost, RecoveryType, CommandType, WorkOf, KeyKind
      <3>2. CASE RecoveryPhase = "export"
        BY <1>3, <3>2 DEF RecoveryTargets, RecoveryType, CommandType, WorkOf, KeyKind
      <3>3. CASE RecoveryPhase = "browser"
        BY <1>3, <3>3 DEF RecoveryTargets, RecoveryType, CommandType, WorkOf, KeyKind
      <3>4. CASE RecoveryPhase = "planning"
        BY <1>3, <3>4 DEF RecoveryTargets, RecoveryType, CommandType, WorkOf, KeyKind
      <3> QED BY <3>1, <3>2, <3>3, <3>4 DEF RecoveryPhase
    <2>3. t \in Target /\ None \in Target
      BY <2>2 DEF WorkOf, Target
    <2>4. key \in Key
      BY <1>2, <2>1, <2>2, <2>3 DEF Key, KeyKind
    <2>5. RecoveryCommand(t) = [type |-> type, key |-> key, target |-> t,
                                attempt |-> RecoveredRow.attempt]
      BY DEF RecoveryCommand
    <2> HIDE DEF type, key, TypeOK
    <2> QED BY <2>1, <2>2, <2>3, <2>4, <2>5 DEF Command
  <1> QED BY <1>1, <1>2, <1>3

\* So does the cron.
LEMMA RecoveryStepTyped ==
    ASSUME TypeOK, RecoveryStep
    PROVE  TypeOK'
  <1> USE DEF TypeOK
  <1>1. ASSUME Dispatch PROVE TypeOK'
    <2>1. QueueOK'
      BY <1>1, PublishTyped DEF Dispatch, QueueOK
    <2> QED BY <1>1, <2>1
            DEF Dispatch, jobVars, JobOK, RunningOK, dataVars, DataOK, EnvironmentOK
  <1>2. ASSUME LeaseExpires PROVE TypeOK'
    BY <1>2 DEF LeaseExpires, JobOK, JobRow, Lease, queueVars, QueueOK, RunningOK, dataVars, DataOK,
                EnvironmentOK
  <1>3. ASSUME RecoverExhausted PROVE TypeOK'
    <2>1. RecoveredRow \in JobRow
      BY RecoveryTyped
    <2>2. JobOK'
      <3>1. "FAILED" \in JobStatus
        BY DEF JobStatus, Terminal
      <3>2. job' \in JobRow
        BY <1>3, <2>1, <3>1 DEF RecoverExhausted, JobRow
      <3>3. events' \in Seq(JobStatus)
        BY <1>3, <3>1 DEF RecoverExhausted, JobOK
      <3> QED BY <3>2, <3>3 DEF JobOK
    <2>3. QueueOK'
      BY <1>3, PublishTyped DEF RecoverExhausted, QueueOK
    <2> QED BY <1>3, <2>2, <2>3 DEF RecoverExhausted, RunningOK, dataVars, DataOK, EnvironmentOK
  <1>4. ASSUME RecoverLease PROVE TypeOK'
    <2>1. JobOK' /\ QueueOK' /\ pages' \in [Pages -> PageRow] /\ exports' \in [Formats -> ExportRow]
      <3>1. CASE RecoverNothing
        BY <1>4, <3>1, RecoveryTyped, PublishTyped DEF RecoverNothing, RecoverLease, JobOK, QueueOK, DataOK
      <3>2. ASSUME NEW t \in RecoveryTargets, RecoverWork(t)
            PROVE  /\ JobOK' /\ QueueOK'
                   /\ pages' \in [Pages -> PageRow] /\ exports' \in [Formats -> ExportRow]
        <4>1. RecoveryCommand(t) \in Command /\ RecoveredRow \in JobRow
          BY RecoveryTyped
        <4>2. JobOK'
          BY <1>4, <3>2, <4>1 DEF RecoverWork, RecoverLease, JobOK
        <4>3. QueueOK'
          BY <3>2, <4>1, PublishTyped DEF RecoverWork, Insert, QueueOK
        <4>4. pages' \in [Pages -> PageRow]
          BY <3>2 DEF RecoverWork, DataOK, PageRow, PageStatus
        <4>5. exports' \in [Formats -> ExportRow]
          BY <3>2, RecoveryTyped DEF RecoverWork, DataOK, ExportRow
        <4> QED BY <4>2, <4>3, <4>4, <4>5
      <3>3. ASSUME NEW t, RecoverRolledBack(t)
            PROVE  /\ JobOK' /\ QueueOK'
                   /\ pages' \in [Pages -> PageRow] /\ exports' \in [Formats -> ExportRow]
        BY <1>4, <3>3 DEF RecoverRolledBack, RecoverLease, JobOK, QueueOK, DataOK, Pending
      <3> QED BY <1>4, <3>1, <3>2, <3>3 DEF RecoverLease
    <2> QED BY <1>4, <2>1 DEF RecoverLease, RunningOK, DataOK, EnvironmentOK
  <1> QED BY <1>1, <1>2, <1>3, <1>4 DEF RecoveryStep

\* So does a cancel request.
LEMMA CancelTyped ==
    ASSUME TypeOK, CancelStep
    PROVE  TypeOK'
  <1> USE DEF TypeOK
  <1>1. ASSUME NEW c \in Clients, CancelRead(c) PROVE TypeOK'
    <2>1. clients' \in [Clients -> CancelRequest]
      <3>1. CASE job.status \in Terminal
        BY <1>1, <3>1 DEF CancelRead, EnvironmentOK, CancelRequest
      <3>2. CASE job.status \notin Terminal
        BY <1>1, <3>2 DEF CancelRead, EnvironmentOK, CancelRequest, JobOK
      <3> QED BY <3>1, <3>2
    <2> QED BY <1>1, <2>1 DEF CancelRead, jobVars, JobOK, queueVars, QueueOK, RunningOK, dataVars,
                              DataOK, EnvironmentOK
  <1>2. ASSUME NEW c \in Clients, CancelWrite(c) PROVE TypeOK'
    <2>1. clients' \in [Clients -> CancelRequest]
      BY <1>2 DEF CancelWrite, EnvironmentOK, CancelRequest
    <2>2. clients[c].row.version + 1 \in Nat
      BY DEF EnvironmentOK, CancelRequest, JobRow
    <2>3. JobOK'
      <3>1. "CANCELLED" \in JobStatus
        BY DEF JobStatus, Terminal
      <3>2. job' \in JobRow
        BY <1>2, <2>2, <3>1 DEF CancelWrite, JobOK, JobRow
      <3>3. events' \in Seq(JobStatus)
        BY <1>2, <3>1 DEF CancelWrite, JobOK
      <3> QED BY <3>2, <3>3 DEF JobOK
    <2> QED BY <1>2, <2>1, <2>3 DEF CancelWrite, queueVars, QueueOK, RunningOK, dataVars, DataOK,
                                    EnvironmentOK
  <1> QED BY <1>1, <1>2 DEF CancelStep

\* Injected faults are counted up to their bound.
LEMMA InjectTyped ==
    ASSUME EnvironmentOK, NEW kind, NEW type, Inject(kind, type), UNCHANGED clients
    PROVE  EnvironmentOK'
  BY StoreAssumption DEF EnvironmentOK, Inject

\* So do the faults.
LEMMA FaultTyped ==
    ASSUME TypeOK, FaultStep
    PROVE  TypeOK'
  <1> USE DEF TypeOK
  <1>1. ASSUME NEW w \in Workers, Crash(w) PROVE TypeOK'
    <2>1. RunningOK' /\ QueueOK'
      BY <1>1, EndTyped, QueueTyped DEF Crash, QueueOK
    <2> QED BY <1>1, <2>1, InjectTyped DEF Crash, jobVars, JobOK, dataVars, DataOK
  <1>2. ASSUME NEW w \in Workers, Abandon(w) PROVE TypeOK'
    <2>1. RunningOK' /\ QueueOK'
      BY <1>2, EndTyped, QueueTyped DEF Abandon, QueueOK
    <2> QED BY <1>2, <2>1, InjectTyped DEF Abandon, jobVars, JobOK, dataVars, DataOK
  <1>3. ASSUME NEW c \in outbox, Redeliver(c) PROVE TypeOK'
    BY <1>3, InjectTyped DEF Redeliver, jobVars, JobOK, QueueOK, RunningOK, dataVars, DataOK
  <1>4. ASSUME NEW c \in outbox, Lose(c) PROVE TypeOK'
    BY <1>4, InjectTyped DEF Lose, jobVars, JobOK, QueueOK, RunningOK, dataVars, DataOK
  <1> QED BY <1>1, <1>2, <1>3, <1>4 DEF FaultStep

\* So does an error after the commit of an export.
LEMMA LateErrorTyped ==
    ASSUME TypeOK, NEW w \in Workers, LateExportError(w)
    PROVE  TypeOK'
  <1> USE DEF TypeOK
  <1>1. Working(w, "run_export") /\ \E retryable \in BOOLEAN : ExportError(w, retryable)
    BY DEF LateExportError, AtStep
  <1>2. JobOK' /\ QueueOK' /\ RunningOK' /\ DataOK' /\ clients' = clients
    BY <1>1, ExportErrorTyped
  <1> QED BY <1>2, InjectTyped DEF LateExportError

-----------------------------------------------------------------------------

\* The row create_job inserts, with its planning command, is well typed.
LEMMA InitTyped == Init => TypeOK
  <1> SUFFICES ASSUME Init PROVE TypeOK
    OBVIOUS
  <1> USE DEF Init
  <1>1. QueuedRow \in JobRow
    BY DEF QueuedRow, JobRow, JobStatus, Lease
  <1>2. JobOK
    <2>1. "QUEUED" \in JobStatus
      BY DEF JobStatus
    <2> QED BY <1>1, <2>1 DEF JobOK
  <1>3. QueueOK
    BY StageCommands DEF QueueOK
  <1>4. RunningOK
    BY DEF RunningOK
  <1>5. DataOK
    BY DEF DataOK, PageRow, PageStatus, ExtractionStatus, ValidationRow, ExportRow
  <1>6. EnvironmentOK
    BY <1>1, StoreAssumption DEF EnvironmentOK, CancelRequest
  <1> QED BY <1>2, <1>3, <1>4, <1>5, <1>6 DEF TypeOK

\* Every handler, recovery, cancellation and fault keeps the store well typed.
LEMMA StepTyped == TypeOK /\ [Next]_vars => TypeOK'
  <1> SUFFICES ASSUME TypeOK, [Next]_vars PROVE TypeOK'
    OBVIOUS
  <1>1. ASSUME NEW w \in Workers, WorkerStep(w) PROVE TypeOK'
    BY <1>1, PlanningTyped, DiscoveryTyped, ExtractionTyped, ValidationTyped, ExportTyped
       DEF WorkerStep
  <1>2. ASSUME NEW w \in Workers, LateExportError(w) PROVE TypeOK'
    BY <1>2, LateErrorTyped
  <1>3. CASE RecoveryStep
    BY <1>3, RecoveryStepTyped
  <1>4. CASE CancelStep
    BY <1>4, CancelTyped
  <1>5. CASE FaultStep
    BY <1>5, FaultTyped
  <1>6. CASE UNCHANGED vars
    BY <1>6 DEF vars, jobVars, queueVars, dataVars, TypeOK, JobOK, QueueOK, RunningOK, DataOK,
                EnvironmentOK
  <1> QED BY <1>1, <1>2, <1>3, <1>4, <1>5, <1>6 DEF Next

\* TypeOK: whatever interleaving of handlers, recovery, cancel requests and
\* faults, the rows keep the columns of models.py, every queued message is a row
\* of the outbox, and every slot works on a unit of work of its command's kind.
THEOREM TypeCorrect == Spec => []TypeOK
  BY InitTyped, StepTyped, PTL DEF Spec

-----------------------------------------------------------------------------
(* The status of a job *)

\* Nothing a lifecycle reader can see has happened.
Still ==
    /\ job'.status = job.status
    /\ job'.cancelRequested = job.cancelRequested
    /\ events' = events

\* One announced move along ALLOWED_TRANSITIONS.  No handler of services.py
\* writes READY_FOR_EXPORT.
MovesTo(to) ==
    /\ to \in AllowedTransitions[job.status] \ {"READY_FOR_EXPORT"}
    /\ job'.status = to
    /\ events' = Append(events, to)
    /\ job'.cancelRequested = job.cancelRequested

Moves == \E to \in JobStatus : MovesTo(to)

\* The strengthening: a cancel request is written only from a row that had not
\* ended, and READY_FOR_EXPORT, from which recovery could not legally fail a job,
\* is never reached.
LifecycleInv ==
    /\ TypeOK
    /\ CancelledAtOnce
    /\ job.status # "READY_FOR_EXPORT"
    /\ \A c \in Clients : clients[c].phase = "read" => clients[c].row.status \notin Terminal

-----------------------------------------------------------------------------
(* Legal moves *)

\* The edges of the lifecycle the handlers use.
LEMMA LegalMoves ==
    /\ \A s \in Terminal : AllowedTransitions[s] = {}
    /\ \A s \in {"QUEUED"} \cup Active : "CANCELLED" \in AllowedTransitions[s]
    /\ \A s \in Active \ {"READY_FOR_EXPORT"} : "FAILED" \in AllowedTransitions[s]
    /\ "PLANNING" \in AllowedTransitions["QUEUED"]
    /\ "BROWSER_INITIALIZING" \in AllowedTransitions["PLANNING"]
    /\ "DISCOVERING" \in AllowedTransitions["BROWSER_INITIALIZING"]
    /\ "EXTRACTING" \in AllowedTransitions["DISCOVERING"]
    /\ "VALIDATING" \in AllowedTransitions["EXTRACTING"]
    /\ "EXPORTING" \in AllowedTransitions["VALIDATING"]
    /\ "COMPLETED" \in AllowedTransitions["EXPORTING"]
  BY DEF AllowedTransitions, JobStatus, Active, Terminal

\* transition() of the job's row, leased, released or advanced, is a move.
LEMMA TransitionMoves ==
    ASSUME NEW j \in JobRow, j.status = job.status, j.cancelRequested = job.cancelRequested,
           NEW to \in AllowedTransitions[job.status] \ {"READY_FOR_EXPORT"},
           to \in JobStatus, Transition(j, to)
    PROVE  Moves
  <1>1. job'.status = to /\ job'.cancelRequested = j.cancelRequested /\ events' = Append(events, to)
    BY DEF Transition, JobRow
  <1> QED BY <1>1 DEF Moves, MovesTo

\* The row helpers touch neither the status nor the cancel flag.
LEMMA HelpersStill ==
    ASSUME NEW j \in JobRow
    PROVE  /\ Leased(j).status = j.status /\ Leased(j).cancelRequested = j.cancelRequested
           /\ Released(j).status = j.status /\ Released(j).cancelRequested = j.cancelRequested
           /\ \A percent : /\ Advanced(j, percent).status = j.status
                           /\ Advanced(j, percent).cancelRequested = j.cancelRequested
  BY DEF Leased, Released, Advanced, JobRow

\* Row j is the job's row up to lease, attempt and progress.
SameLife(j) == j \in JobRow /\ j.status = job.status /\ j.cancelRequested = job.cancelRequested

\* The rows the stages build keep status and flag.
LEMMA StageRows ==
    ASSUME JobOK, NEW percent \in 0..100
    PROVE  SameLife(Leased(Advanced(job, percent))) /\ SameLife(Released(Advanced(job, percent)))
  <1>1. Advanced(job, percent) \in JobRow
    BY RowHelpers DEF JobOK
  <1>2. /\ Advanced(job, percent).status = job.status
        /\ Advanced(job, percent).cancelRequested = job.cancelRequested
    BY HelpersStill DEF JobOK
  <1> HIDE DEF JobOK
  <1> QED BY <1>1, <1>2, RowHelpers, HelpersStill DEF SameLife

\* A handler that does not accept moves the job to CANCELLED or not at all.
LEMMA AcknowledgeMoves ==
    ASSUME JobOK, NEW S \in SUBSET ({"QUEUED"} \cup Active), AcknowledgeOrIgnore(S)
    PROVE  Still \/ Moves
  <1>1. CASE UNCHANGED jobVars
    BY <1>1 DEF jobVars, Still
  <1>2. CASE job.status \in S /\ job.cancelRequested /\ Transition(job, "CANCELLED")
    BY <1>2, LegalMoves, TransitionMoves DEF JobOK, JobStatus, Terminal
  <1> QED BY <1>1, <1>2 DEF AcknowledgeOrIgnore

\* The tail of the fail_* handlers of a live job.
LEMMA RetryMoves ==
    ASSUME JobOK, job.status \in Active \ {"READY_FOR_EXPORT"},
           NEW w, NEW retryable \in BOOLEAN, NEW budget, RetryOrFail(w, retryable, budget)
    PROVE  Still \/ Moves
  <1> DEFINE row == FailedRow(retryable)
  <1>1. row \in JobRow /\ row.status = job.status /\ row.cancelRequested = job.cancelRequested
    <2>1. Released(job) \in JobRow /\ Released(job).status = job.status
          /\ Released(job).cancelRequested = job.cancelRequested
      BY RowHelpers, HelpersStill DEF JobOK
    <2>2. CASE retryable
      BY <2>1, <2>2 DEF FailedRow, JobRow
    <2>3. CASE ~retryable
      BY <2>1, <2>3 DEF FailedRow, JobRow
    <2> QED BY <2>2, <2>3
  <1>2. CASE job' = row /\ UNCHANGED events
    BY <1>1, <1>2 DEF Still
  <1>3. CASE Transition(row, "FAILED")
    <2> HIDE DEF row
    <2> QED BY <1>1, <1>3, LegalMoves, TransitionMoves DEF JobStatus, Terminal
  <1> QED BY <1>2, <1>3 DEF RetryOrFail

-----------------------------------------------------------------------------
(* Handlers *)

\* Planning and capture move the job legally.
LEMMA PlanningMoves ==
    ASSUME LifecycleInv, NEW w \in Workers, PlanningStep(w)
    PROVE  Still \/ Moves
  <1> USE DEF LifecycleInv, TypeOK
  <1>1. ASSUME NEW c \in queue, ClaimPlanning(w, c) PROVE Still \/ Moves
    <2> DEFINE row == Leased(Advanced(job, 10))
    <2>1. SameLife(row)
      BY StageRows
    <2>2. CASE job.status = "QUEUED" /\ Transition(row, "PLANNING")
      <3> HIDE DEF row
      <3> QED BY <2>1, <2>2, LegalMoves, TransitionMoves DEF SameLife, JobStatus, Active
    <2>3. CASE job' = Leased(job) /\ UNCHANGED events
      BY <2>3, HelpersStill DEF Still, JobOK
    <2>4. CASE AcknowledgeOrIgnore({"QUEUED", "PLANNING"})
      BY <2>4, AcknowledgeMoves DEF Active
    <2> QED BY <1>1, <2>2, <2>3, <2>4 DEF ClaimPlanning
  <1>2. ASSUME CompletePlanning(w) PROVE Still \/ Moves
    <2> DEFINE row == Released(Advanced(job, 20))
    <2>1. SameLife(row)
      BY StageRows
    <2>2. CASE Accepts({"PLANNING"}) /\ Transition(row, "BROWSER_INITIALIZING")
      <3> HIDE DEF row
      <3> QED BY <2>1, <2>2, LegalMoves, TransitionMoves DEF SameLife, Accepts, JobStatus, Active
    <2>3. CASE AcknowledgeOrIgnore({"PLANNING"})
      BY <2>3, AcknowledgeMoves DEF Active
    <2> QED BY <1>2, <2>2, <2>3 DEF CompletePlanning
  <1>3. ASSUME FailPlanning(w) PROVE Still \/ Moves
    <2>1. CASE Accepts({"PLANNING"}) /\ \E retryable \in FailureOf("run_planning") :
                    RetryOrFail(w, retryable, PlannerRetries)
      BY <2>1, RetryMoves DEF Accepts, Active, FailureOf
    <2>2. CASE AcknowledgeOrIgnore({"PLANNING"})
      BY <2>2, AcknowledgeMoves DEF Active
    <2> QED BY <1>3, <2>1, <2>2 DEF FailPlanning
  <1>4. ASSUME NEW c \in queue, PrepareCapture(w, c) PROVE Still \/ Moves
    <2>1. CASE job' = Leased(job) /\ UNCHANGED events
      BY <2>1, HelpersStill DEF Still, JobOK
    <2>2. CASE AcknowledgeOrIgnore({"BROWSER_INITIALIZING"})
      BY <2>2, AcknowledgeMoves DEF Active
    <2> QED BY <1>4, <2>1, <2>2 DEF PrepareCapture
  <1>5. ASSUME CompleteCapture(w) PROVE Still \/ Moves
    <2> DEFINE row == Released(Advanced(job, 30))
    <2>1. SameLife(row)
      BY StageRows
    <2>2. CASE Accepts({"BROWSER_INITIALIZING"}) /\ Transition(row, "DISCOVERING")
      <3> HIDE DEF row
      <3> QED BY <2>1, <2>2, LegalMoves, TransitionMoves DEF SameLife, Accepts, JobStatus, Active
    <2>3. CASE AcknowledgeOrIgnore({"BROWSER_INITIALIZING"})
      BY <2>3, AcknowledgeMoves DEF Active
    <2> QED BY <1>5, <2>2, <2>3 DEF CompleteCapture
  <1>6. ASSUME FailCapture(w) PROVE Still \/ Moves
    <2>1. CASE Accepts({"BROWSER_INITIALIZING"}) /\ Transition(Released(job), "FAILED")
      BY <2>1, LegalMoves, RowHelpers, HelpersStill, TransitionMoves
         DEF Accepts, JobOK, JobStatus, Active, Terminal
    <2>2. CASE AcknowledgeOrIgnore({"BROWSER_INITIALIZING"})
      BY <2>2, AcknowledgeMoves DEF Active
    <2> QED BY <1>6, <2>1, <2>2 DEF FailCapture
  <1> QED BY <1>1, <1>2, <1>3, <1>4, <1>5, <1>6 DEF PlanningStep

\* So does discovery.
LEMMA DiscoveryMoves ==
    ASSUME LifecycleInv, NEW w \in Workers, DiscoveryStep(w)
    PROVE  Still \/ Moves
  <1> USE DEF LifecycleInv, TypeOK
  <1>1. ASSUME NEW c \in queue, ClaimDiscovery(w, c) PROVE Still \/ Moves
    <2>1. CASE job' = Leased(job) /\ UNCHANGED events
      BY <2>1, HelpersStill DEF Still, JobOK
    <2>2. CASE AcknowledgeOrIgnore({"DISCOVERING"})
      BY <2>2, AcknowledgeMoves DEF Active
    <2> QED BY <1>1, <2>1, <2>2 DEF ClaimDiscovery
  <1>2. ASSUME CompleteDiscovery(w) PROVE Still \/ Moves
    <2> DEFINE row == Released(Advanced(job, 40))
    <2>1. SameLife(row)
      BY StageRows
    <2>2. CASE Accepts({"DISCOVERING"}) /\ Transition(row, "EXTRACTING")
      <3> HIDE DEF row
      <3> QED BY <2>1, <2>2, LegalMoves, TransitionMoves DEF SameLife, Accepts, JobStatus, Active
    <2>3. CASE job' = Released(job) /\ UNCHANGED events
      BY <2>3, HelpersStill DEF Still, JobOK
    <2>4. CASE UNCHANGED jobVars
      BY <2>4 DEF jobVars, Still
    <2>5. CASE AcknowledgeOrIgnore({"DISCOVERING"})
      BY <2>5, AcknowledgeMoves DEF Active
    <2> QED BY <1>2, <2>2, <2>3, <2>4, <2>5 DEF CompleteDiscovery
  <1>3. ASSUME FailDiscovery(w) PROVE Still \/ Moves
    <2>1. CASE Accepts({"DISCOVERING"}) /\ \E retryable \in FailureOf("run_discovery") :
                    RetryOrFail(w, retryable, PlannerRetries)
      BY <2>1, RetryMoves DEF Accepts, Active, FailureOf
    <2>2. CASE AcknowledgeOrIgnore({"DISCOVERING"})
      BY <2>2, AcknowledgeMoves DEF Active
    <2> QED BY <1>3, <2>1, <2>2 DEF FailDiscovery
  <1> QED BY <1>1, <1>2, <1>3 DEF DiscoveryStep

\* So does extraction.
LEMMA ExtractionMoves ==
    ASSUME LifecycleInv, NEW w \in Workers, ExtractionStep(w)
    PROVE  Still \/ Moves
  <1> USE DEF LifecycleInv, TypeOK
  <1>1. ASSUME NEW c \in queue, ClaimExtraction(w, c) PROVE Still \/ Moves
    <2>1. CASE job' = Leased(job) /\ UNCHANGED events
      BY <2>1, HelpersStill DEF Still, JobOK
    <2>2. CASE AcknowledgeOrIgnore({"EXTRACTING"})
      BY <2>2, AcknowledgeMoves DEF Active
    <2> QED BY <1>1, <2>1, <2>2 DEF ClaimExtraction
  <1>2. ASSUME CompleteExtraction(w) PROVE Still \/ Moves
    <2> DEFINE row == Released(Advanced(job, 60))
    <2>1. SameLife(row)
      BY StageRows
    <2>2. CASE Accepts({"EXTRACTING"}) /\ Transition(row, "VALIDATING")
      <3> HIDE DEF row
      <3> QED BY <2>1, <2>2, LegalMoves, TransitionMoves DEF SameLife, Accepts, JobStatus, Active
    <2>3. CASE job' = Released(job) /\ UNCHANGED events
      BY <2>3, HelpersStill DEF Still, JobOK
    <2>4. CASE UNCHANGED jobVars
      BY <2>4 DEF jobVars, Still
    <2>5. CASE AcknowledgeOrIgnore({"EXTRACTING"})
      BY <2>5, AcknowledgeMoves DEF Active
    <2> QED BY <1>2, <2>2, <2>3, <2>4, <2>5 DEF CompleteExtraction
  <1>3. ASSUME FailExtraction(w) PROVE Still \/ Moves
    <2>1. CASE Accepts({"EXTRACTING"}) /\ \E retryable \in FailureOf("run_extraction") :
                    RetryOrFail(w, retryable, ExtractionRetries)
      BY <2>1, RetryMoves DEF Accepts, Active, FailureOf
    <2>2. CASE AcknowledgeOrIgnore({"EXTRACTING"})
      BY <2>2, AcknowledgeMoves DEF Active
    <2> QED BY <1>3, <2>1, <2>2 DEF FailExtraction
  <1> QED BY <1>1, <1>2, <1>3 DEF ExtractionStep

\* So does validation.
LEMMA ValidationMoves ==
    ASSUME LifecycleInv, NEW w \in Workers, ValidationStep(w)
    PROVE  Still \/ Moves
  <1> USE DEF LifecycleInv, TypeOK
  <1>1. ASSUME NEW c \in queue, ClaimValidation(w, c) PROVE Still \/ Moves
    <2>1. CASE job' = Leased(job) /\ UNCHANGED events
      BY <2>1, HelpersStill DEF Still, JobOK
    <2>2. CASE ValidationClaimable /\ Transition(job, "CANCELLED")
      BY <2>2, LegalMoves, TransitionMoves DEF ValidationClaimable, JobOK, JobStatus, Active, Terminal
    <2>3. CASE UNCHANGED jobVars
      BY <2>3 DEF jobVars, Still
    <2> QED BY <1>1, <2>1, <2>2, <2>3 DEF ClaimValidation
  <1>2. ASSUME CompleteValidation(w) PROVE Still \/ Moves
    <2> DEFINE row == Released(Advanced(job, 80))
    <2>1. SameLife(row)
      BY StageRows
    <2>2. CASE Accepts({"VALIDATING"}) /\ Transition(row, "EXPORTING")
      <3> HIDE DEF row
      <3> QED BY <2>1, <2>2, LegalMoves, TransitionMoves DEF SameLife, Accepts, JobStatus, Active
    <2>3. CASE AcknowledgeOrIgnore({"VALIDATING"})
      BY <2>3, AcknowledgeMoves DEF Active
    <2> QED BY <1>2, <2>2, <2>3 DEF CompleteValidation
  <1>3. ASSUME FailValidation(w) PROVE Still \/ Moves
    <2>1. CASE job.status = "VALIDATING" /\ \E retryable \in FailureOf("run_validation") :
                    RetryOrFail(w, retryable, ValidationRetries)
      BY <2>1, RetryMoves DEF Active, FailureOf
    <2>2. CASE UNCHANGED jobVars
      BY <2>2 DEF jobVars, Still
    <2> QED BY <1>3, <2>1, <2>2 DEF FailValidation
  <1> QED BY <1>1, <1>2, <1>3 DEF ValidationStep

\* The error path of run_export leaves a job that has ended alone, even when it
\* runs after the completion has committed.
LEMMA ExportErrorMoves ==
    ASSUME JobOK, NEW w, NEW retryable, ExportError(w, retryable)
    PROVE  Still \/ Moves
  <1>1. CASE job' = Released(job) /\ UNCHANGED events
    BY <1>1, HelpersStill DEF Still, JobOK
  <1>2. CASE Accepts({"EXPORTING"}) /\ Transition(Released(job), "FAILED")
    BY <1>2, LegalMoves, RowHelpers, HelpersStill, TransitionMoves
       DEF Accepts, JobOK, JobStatus, Active, Terminal
  <1>3. CASE UNCHANGED jobVars
    BY <1>3 DEF jobVars, Still
  <1> QED BY <1>1, <1>2, <1>3 DEF ExportError

\* So does export.
LEMMA ExportMoves ==
    ASSUME LifecycleInv, NEW w \in Workers, ExportStep(w)
    PROVE  Still \/ Moves
  <1> USE DEF LifecycleInv, TypeOK
  <1>1. ASSUME NEW c \in queue, ClaimExport(w, c) PROVE Still \/ Moves
    BY <1>1, HelpersStill DEF ClaimExport, Still, JobOK
  <1>2. ASSUME UploadArtifact(w) \/ ReturnFromExport(w) PROVE Still \/ Moves
    BY <1>2 DEF UploadArtifact, ReturnFromExport, jobVars, Still
  <1>3. ASSUME CompleteExport(w) PROVE Still \/ Moves
    <2> DEFINE row == [Released(job) EXCEPT !.progress = 100]
    <2>1. SameLife(row)
      <3>1. Released(job) \in JobRow
        BY RowHelpers DEF JobOK
      <3> QED BY <3>1, HelpersStill DEF SameLife, JobOK, JobRow
    <2>2. CASE Accepts({"EXPORTING"}) /\ Transition(row, "COMPLETED")
      <3> HIDE DEF row
      <3> QED BY <2>1, <2>2, LegalMoves, TransitionMoves DEF SameLife, Accepts, JobStatus, Terminal
    <2>3. CASE job' = Released(job) /\ UNCHANGED events
      BY <2>3, HelpersStill DEF Still, JobOK
    <2>4. CASE UNCHANGED jobVars
      BY <2>4 DEF jobVars, Still
    <2> QED BY <1>3, <2>2, <2>3, <2>4 DEF CompleteExport
  <1>4. ASSUME FailExport(w) PROVE Still \/ Moves
    BY <1>4, ExportErrorMoves DEF FailExport
  <1> QED BY <1>1, <1>2, <1>3, <1>4 DEF ExportStep

-----------------------------------------------------------------------------
(* Recovery, faults and the whole of Next *)

\* So does the cron.
LEMMA RecoveryMoves ==
    ASSUME LifecycleInv, RecoveryStep
    PROVE  Still \/ Moves
  <1> USE DEF LifecycleInv, TypeOK
  <1>1. RecoveredRow.status = job.status /\ RecoveredRow.cancelRequested = job.cancelRequested
    BY HelpersStill DEF RecoveredRow, JobOK
  <1>2. CASE Dispatch
    BY <1>2 DEF Dispatch, jobVars, Still
  <1>3. CASE LeaseExpires
    BY <1>3 DEF LeaseExpires, JobOK, JobRow, Still
  <1>4. CASE RecoverExhausted
    <2>1. RecoveredRow \in JobRow
      BY RecoveryTyped
    <2>2. job'.status = "FAILED" /\ job'.cancelRequested = job.cancelRequested
      BY <1>1, <1>4, <2>1 DEF RecoverExhausted, JobRow
    <2>3. "FAILED" \in AllowedTransitions[job.status] \ {"READY_FOR_EXPORT"}
      BY <1>4, LegalMoves DEF RecoverExhausted, Recoverable
    <2> QED BY <1>4, <2>2, <2>3 DEF RecoverExhausted, Moves, MovesTo, JobStatus, Terminal
  <1>5. CASE RecoverLease
    <2>1. job' = RecoveredRow \/ job' = job
      BY <1>5 DEF RecoverLease, RecoverNothing, RecoverWork, RecoverRolledBack
    <2> QED BY <1>1, <1>5, <2>1 DEF RecoverLease, Still
  <1> QED BY <1>2, <1>3, <1>4, <1>5 DEF RecoveryStep

\* Every step but the write of a cancel request leaves the lifecycle alone or
\* makes one legal move.
LEMMA StepMoves ==
    ASSUME LifecycleInv, [Next]_vars
    PROVE  Still \/ Moves \/ \E c \in Clients : CancelWrite(c)
  <1> USE DEF LifecycleInv, TypeOK
  <1>1. ASSUME NEW w \in Workers, WorkerStep(w) PROVE Still \/ Moves
    <2> HIDE DEF LifecycleInv
    <2> QED BY <1>1, PlanningMoves, DiscoveryMoves, ExtractionMoves, ValidationMoves, ExportMoves
            DEF WorkerStep
  <1>2. ASSUME NEW w \in Workers, LateExportError(w) PROVE Still \/ Moves
    BY <1>2, ExportErrorMoves DEF LateExportError
  <1>3. CASE RecoveryStep
    <2> HIDE DEF LifecycleInv
    <2> QED BY <1>3, RecoveryMoves
  <1>4. ASSUME NEW c \in Clients, CancelRead(c) PROVE Still
    BY <1>4 DEF CancelRead, jobVars, Still
  <1>5. CASE FaultStep
    BY <1>5 DEF FaultStep, Crash, Abandon, Redeliver, Lose, jobVars, Still
  <1>6. CASE UNCHANGED vars
    BY <1>6 DEF vars, jobVars, Still
  <1> QED BY <1>1, <1>2, <1>3, <1>4, <1>5, <1>6 DEF Next, CancelStep

\* Only the endpoint touches its own requests.
LEMMA ClientsMove ==
    ASSUME [Next]_vars
    PROVE  clients' = clients \/ \E c \in Clients : CancelRead(c) \/ CancelWrite(c)
  <1>1. ASSUME NEW w \in Workers, WorkerStep(w) PROVE clients' = clients
    <2>1. CASE PlanningStep(w)
      BY <2>1 DEF PlanningStep, ClaimPlanning, CompletePlanning, FailPlanning, PrepareCapture,
                  CompleteCapture, FailCapture
    <2>2. CASE DiscoveryStep(w)
      BY <2>2 DEF DiscoveryStep, ClaimDiscovery, CompleteDiscovery, FailDiscovery
    <2>3. CASE ExtractionStep(w)
      BY <2>3 DEF ExtractionStep, ClaimExtraction, CompleteExtraction, FailExtraction
    <2>4. CASE ValidationStep(w)
      BY <2>4 DEF ValidationStep, ClaimValidation, CompleteValidation, FailValidation
    <2>5. CASE ExportStep(w)
      BY <2>5 DEF ExportStep, ClaimExport, UploadArtifact, CompleteExport, ReturnFromExport,
                  FailExport, ExportError
    <2> QED BY <1>1, <2>1, <2>2, <2>3, <2>4, <2>5 DEF WorkerStep
  <1>2. ASSUME NEW w \in Workers, LateExportError(w) PROVE clients' = clients
    BY <1>2 DEF LateExportError, ExportError
  <1>3. CASE RecoveryStep
    BY <1>3 DEF RecoveryStep, Dispatch, LeaseExpires, RecoverExhausted, RecoverLease
  <1>4. CASE FaultStep
    BY <1>4 DEF FaultStep, Crash, Abandon, Redeliver, Lose
  <1> QED BY <1>1, <1>2, <1>3, <1>4 DEF Next, CancelStep, vars

-----------------------------------------------------------------------------
(* The invariant and its theorems *)

\* A job is created QUEUED and without a cancel request.
LEMMA InitLifecycle == Init => LifecycleInv
  <1> SUFFICES ASSUME Init PROVE LifecycleInv
    OBVIOUS
  <1>1. TypeOK
    BY InitTyped
  <1>2. job.status = "QUEUED" /\ job.cancelRequested = FALSE
        /\ \A c \in Clients : clients[c].phase = "idle"
    BY DEF Init, QueuedRow
  <1> QED BY <1>1, <1>2 DEF LifecycleInv, CancelledAtOnce

\* A cancel write ends the job and requests its cancellation.
LEMMA CancelWriteEnds ==
    ASSUME TypeOK, NEW c \in Clients, CancelWrite(c)
    PROVE  /\ job'.status = "CANCELLED" /\ job'.cancelRequested
           /\ events' = Append(events, "CANCELLED")
  BY DEF CancelWrite, TypeOK, JobOK, JobRow

\* LifecycleInv is inductive.
LEMMA StepLifecycle == LifecycleInv /\ [Next]_vars => LifecycleInv'
  <1> SUFFICES ASSUME LifecycleInv, [Next]_vars PROVE LifecycleInv'
    OBVIOUS
  <1> USE DEF LifecycleInv
  <1>1. TypeOK'
    BY StepTyped
  <1>2. CancelledAtOnce' /\ (job.status # "READY_FOR_EXPORT")'
    <2>1. CASE Still
      BY <2>1 DEF Still, CancelledAtOnce
    <2>2. CASE Moves
      <3>1. PICK to \in JobStatus : MovesTo(to)
        BY <2>2 DEF Moves
      <3>2. job.status \notin Terminal
        BY <3>1, LegalMoves DEF MovesTo
      <3> QED BY <3>1, <3>2 DEF MovesTo, CancelledAtOnce, Terminal
    <2>3. CASE \E c \in Clients : CancelWrite(c)
      BY <2>3, CancelWriteEnds DEF CancelledAtOnce
    <2> QED BY <2>1, <2>2, <2>3, StepMoves
  <1>3. ASSUME NEW c \in Clients, clients'[c].phase = "read"
        PROVE  clients'[c].row.status \notin Terminal
    <2>1. CASE clients' = clients
      BY <1>3, <2>1
    <2>2. ASSUME NEW d \in Clients, CancelRead(d) PROVE clients'[c].row.status \notin Terminal
      <3>1. CASE job.status \in Terminal
        BY <1>3, <2>2, <3>1 DEF CancelRead, TypeOK, EnvironmentOK, CancelRequest
      <3>2. CASE job.status \notin Terminal
        BY <1>3, <2>2, <3>2 DEF CancelRead, TypeOK, EnvironmentOK, CancelRequest
      <3> QED BY <3>1, <3>2
    <2>3. ASSUME NEW d \in Clients, CancelWrite(d) PROVE clients'[c].row.status \notin Terminal
      BY <1>3, <2>3 DEF CancelWrite, TypeOK, EnvironmentOK, CancelRequest
    <2> QED BY <2>1, <2>2, <2>3, ClientsMove
  <1> QED BY <1>1, <1>2, <1>3

\* The strengthening holds of every reachable state.
THEOREM LifecycleInvariant == Spec => []LifecycleInv
  BY InitLifecycle, StepLifecycle, PTL DEF Spec

\* No commit shows a requested cancellation on a live job: cancel() records the
\* request and moves the status in one transaction.
THEOREM CancellationIsAtomic == Spec => []CancelledAtOnce
  <1>1. LifecycleInv => CancelledAtOnce
    BY DEF LifecycleInv
  <1> QED BY <1>1, LifecycleInvariant, PTL

\* No late worker, stale lease, recovery or fault revives a job that has ended
\* or replaces its ending; a racing cancel() can at most make it CANCELLED.
THEOREM EndingsHold == Spec => NoResurrection
  <1>1. LifecycleInv /\ [Next]_vars
            => [job.status \in Terminal => job'.status \in {job.status, "CANCELLED"}]_vars
    <2> SUFFICES ASSUME LifecycleInv, [Next]_vars, job.status \in Terminal
                 PROVE  job'.status \in {job.status, "CANCELLED"}
      OBVIOUS
    <2>1. CASE Still
      BY <2>1 DEF Still
    <2>2. CASE Moves
      BY <2>2, LegalMoves DEF Moves, MovesTo
    <2>3. CASE \E c \in Clients : CancelWrite(c)
      BY <2>3, CancelWriteEnds DEF LifecycleInv
    <2> QED BY <2>1, <2>2, <2>3, StepMoves
  <1> QED BY <1>1, LifecycleInvariant, PTL DEF Spec, NoResurrection

\* Unless a commit lands between the read and the write of a cancel request, the
\* pipeline implements the lifecycle of JobLifecycle: legal moves only, each
\* announced by its event in the same commit.
THEOREM ImplementsLifecycle ==
    ASSUME ~RacingCancel
    PROVE  Spec => FollowsLifecycle
  <1>1. Init => Lifecycle!LifecycleInit
    BY DEF Init, QueuedRow, Lifecycle!LifecycleInit
  <1>2. LifecycleInv /\ [Next]_vars => [Lifecycle!LifecycleNext]_(Lifecycle!lifecycleVars)
    <2>0. Lifecycle!JobStatus = JobStatus /\ Lifecycle!AllowedTransitions = AllowedTransitions
      BY DEF Lifecycle!JobStatus, Lifecycle!Active, Lifecycle!Terminal,
             Lifecycle!AllowedTransitions, JobStatus, Active, Terminal, AllowedTransitions
    <2> SUFFICES ASSUME LifecycleInv, [Next]_vars
                 PROVE  \/ Lifecycle!LifecycleNext
                        \/ job'.status = job.status /\ events' = events
      BY DEF Lifecycle!lifecycleVars
    <2>1. CASE Still
      BY <2>1 DEF Still
    <2>2. CASE Moves
      BY <2>0, <2>2 DEF Moves, MovesTo, Lifecycle!LifecycleNext, Lifecycle!Move
    <2>3. ASSUME NEW c \in Clients, CancelWrite(c) PROVE Lifecycle!LifecycleNext
      <3>1. clients[c].row = job /\ clients[c].phase = "read"
        BY <2>3 DEF CancelWrite
      <3>2. job.status \in {"QUEUED"} \cup Active
        BY <3>1 DEF LifecycleInv, TypeOK, JobOK, JobRow, JobStatus
      <3>3. "CANCELLED" \in AllowedTransitions[job.status] /\ "CANCELLED" \in JobStatus
        BY <3>2, LegalMoves DEF JobStatus, Terminal
      <3>4. job'.status = "CANCELLED" /\ events' = Append(events, "CANCELLED")
        BY <2>3, CancelWriteEnds DEF LifecycleInv
      <3> QED BY <2>0, <3>3, <3>4 DEF Lifecycle!LifecycleNext, Lifecycle!Move
    <2> QED BY <2>1, <2>2, <2>3, StepMoves
  <1> QED BY <1>1, <1>2, LifecycleInvariant, PTL DEF Spec, FollowsLifecycle, Lifecycle!LifecycleSpec

-----------------------------------------------------------------------------
(* What the handlers do to a job that obeys the lifecycle *)

\* The lease and status of the rows the handlers write.
LEMMA RowFields ==
    ASSUME NEW j \in JobRow
    PROVE  /\ Leased(j).lease = "live" /\ Leased(j).status = j.status
           /\ Released(j).lease = "none" /\ Released(j).status = j.status
           /\ \A percent : Advanced(j, percent).lease = j.lease /\ Advanced(j, percent).status = j.status
           /\ \A to : Transition(j, to) => job'.status = to /\ job'.lease = j.lease
           /\ \A percent : Leased(Advanced(j, percent)).lease = "live"
           /\ \A percent : Released(Advanced(j, percent)).lease = "none"
  BY DEF Leased, Released, Advanced, Transition, JobRow

\* transition() of the rows the stages build.
LEMMA StageMoves ==
    ASSUME JobOK, NEW percent \in 0..100, NEW to
    PROVE  /\ Transition(Leased(Advanced(job, percent)), to) => job'.status = to /\ job'.lease = "live"
           /\ Transition(Released(Advanced(job, percent)), to) => job'.status = to /\ job'.lease = "none"
           /\ Transition(Released(job), to) => job'.status = to /\ job'.lease = "none"
           /\ Transition([Released(job) EXCEPT !.progress = 100], to)
                => job'.status = to /\ job'.lease = "none"
  <1>1. /\ Leased(Advanced(job, percent)) \in JobRow /\ Released(Advanced(job, percent)) \in JobRow
        /\ Released(job) \in JobRow
    BY RowHelpers DEF JobOK
  <1>2. Released(job).lease = "none"
    BY RowFields DEF JobOK
  <1>3. /\ [Released(job) EXCEPT !.progress = 100] \in JobRow
        /\ [Released(job) EXCEPT !.progress = 100].lease = "none"
    BY <1>1, <1>2 DEF JobRow
  <1> DEFINE done == [Released(job) EXCEPT !.progress = 100]
  <1> HIDE DEF done
  <1>4. Transition(done, to) => job'.status = to /\ job'.lease = done.lease
    BY <1>3, RowFields DEF done
  <1>5. Transition(Released(job), to) => job'.status = to /\ job'.lease = "none"
    BY <1>1, <1>2, RowFields
  <1>6. job \in JobRow
    BY DEF JobOK
  <1> HIDE DEF JobOK
  <1> QED BY <1>1, <1>3, <1>4, <1>5, <1>6, RowFields DEF done

\* A requested cancellation has ended the job already: the handlers accept by
\* status alone and have nothing to acknowledge.
LEMMA NothingToAcknowledge ==
    ASSUME LifecycleInv, NEW S \in SUBSET ({"QUEUED"} \cup Active)
    PROVE  /\ Accepts(S) <=> job.status \in S
           /\ AcknowledgeOrIgnore(S) => UNCHANGED jobVars
  BY DEF LifecycleInv, CancelledAtOnce, Accepts, AcknowledgeOrIgnore, Active

\* The two ends of a failed operation.
Retried(w) == job'.status = job.status /\ job'.lease = "none" /\ Requeue(w)
FailedForGood(w) == job'.status = "FAILED" /\ job'.lease = "none" /\ Finish(w)

\* record_failure keeps the job in its stage or fails it.
LEMMA RetryEffect ==
    ASSUME JobOK, NEW w, NEW retryable \in BOOLEAN, NEW budget, RetryOrFail(w, retryable, budget)
    PROVE  \/ WillRetry(retryable, budget) /\ Retried(w)
           \/ ~WillRetry(retryable, budget) /\ FailedForGood(w)
  <1> DEFINE row == FailedRow(retryable)
  <1>1. row \in JobRow /\ row.status = job.status /\ row.lease = "none"
    <2>1. Released(job) \in JobRow /\ Released(job).status = job.status /\ Released(job).lease = "none"
      BY RowHelpers, RowFields DEF JobOK
    <2>2. CASE retryable
      BY <2>1, <2>2 DEF FailedRow, JobRow
    <2>3. CASE ~retryable
      BY <2>1, <2>3 DEF FailedRow, JobRow
    <2> QED BY <2>2, <2>3
  <1> HIDE DEF row
  <1>2. CASE WillRetry(retryable, budget)
    BY <1>1, <1>2 DEF RetryOrFail, Retried, row
  <1>3. CASE ~WillRetry(retryable, budget)
    <2>1. Transition(row, "FAILED") /\ Finish(w)
      BY <1>3 DEF RetryOrFail, row
    <2> QED BY <1>1, <1>3, <2>1, RowFields DEF FailedForGood
  <1> QED BY <1>2, <1>3

-----------------------------------------------------------------------------
(* The outcomes of a step, one operator each *)

Lands(status, lease) == job'.status = status /\ job'.lease = lease
Stored == <<outbox, published>>
Derived == <<records, validation, exports, files, store>>

Takes(w, c, type, p) ==
    /\ Delivered(w, c, type) /\ p \in WorkOf(type)
    /\ Begin(w, c, p)
    /\ job'.lease = "live"
    /\ UNCHANGED Stored

Ends(w, type) ==
    /\ Working(w, type)
    /\ Finish(w)

\* May the handler of command c claim work?
Claimable(c) ==
    CASE c.type = "run_planning"        -> PlanningClaimable
      [] c.type = "run_browser_capture" -> job.status = "BROWSER_INITIALIZING"
      [] c.type = "run_discovery"       -> job.status = "DISCOVERING" /\ DiscoverablePages(c) # {}
      [] c.type = "run_extraction"      -> job.status = "EXTRACTING" /\ ClaimablePages(c) # {}
      [] c.type = "run_validation"      -> ValidationClaimable
      [] c.type = "run_export"          -> ExportClaimable(c.target)

TurnedAway(w, c) ==
    /\ Delivered(w, c, c.type) /\ ~Claimable(c)
    /\ Discard(c)
    /\ \A f \in Formats : exports'[f].status = "COMPLETED" => exports[f].status = "COMPLETED"
    /\ exports' = exports \/ job.status = "CANCELLED"
    /\ UNCHANGED <<job, Stored, pages, records, validation, files, store>>

PlanClaimed(w, c) ==
    /\ Takes(w, c, "run_planning", None)
    /\ PlanningClaimable /\ job'.status = "PLANNING"
    /\ UNCHANGED dataVars

CaptureClaimed(w, c) ==
    /\ Takes(w, c, "run_browser_capture", None)
    /\ job.status = "BROWSER_INITIALIZING" /\ job'.status = job.status
    /\ UNCHANGED dataVars

PageClaimed(w, c, p) ==
    /\ Takes(w, c, "run_discovery", p)
    /\ job.status = "DISCOVERING" /\ job'.status = job.status
    /\ pages[p].status = "DISCOVERED" /\ p = c.target
    /\ pages' = [pages EXCEPT ![p].status = "QUEUED"]
    /\ UNCHANGED Derived

ReadClaimed(w, c, p) ==
    /\ Takes(w, c, "run_extraction", p)
    /\ job.status = "EXTRACTING" /\ job'.status = job.status
    /\ pages[p].status = "VISITED" /\ pages[p].extraction \in {"none", "PENDING"}
    /\ c.target \in {None, p}
    /\ pages' = [pages EXCEPT ![p].extraction = "EXTRACTING"]
    /\ UNCHANGED Derived

ValidationClaimed(w, c) ==
    /\ Takes(w, c, "run_validation", None)
    /\ job.status = "VALIDATING" /\ job'.status = job.status
    /\ validation' = [validation EXCEPT !.status = "RUNNING"]
    /\ UNCHANGED <<pages, records, exports, files, store>>

ExportClaimed(w, c) ==
    /\ Takes(w, c, "run_export", c.target)
    /\ job.status = "EXPORTING" /\ job'.status = job.status
    /\ exports[c.target].status = "QUEUED"
    /\ exports' = [exports EXCEPT ![c.target].status = "RUNNING",
                                  ![c.target].attempt = AtLeast(@, c.attempt)]
    /\ UNCHANGED <<pages, records, validation, files, store>>

\* A page whose follow-up exists already, or an operation the job has left behind.
Excused(w) ==
    CASE running[w].cmd.type = "run_discovery" ->
            job.status = "DISCOVERING" =>
                \E inv \in VisitOutcomes(running[w].target) : \E next \in FollowUps(inv) : ~Fresh(next)
      [] running[w].cmd.type = "run_extraction" ->
            job.status = "EXTRACTING" =>
                \E x \in {"PARTIAL", "EXTRACTED"} :
                \E next \in AfterReading([pages EXCEPT ![running[w].target].extraction = x]) : ~Fresh(next)
      [] running[w].cmd.type = "run_validation" ->
            job.status = "VALIDATING" => \E f \in Formats : ~Fresh(ExportCommand(f))
      [] running[w].cmd.type = "run_export" ->
            /\ running[w].step # "stored"
            /\ job.status = "EXPORTING" => running[w].step = "committed"
      [] OTHER -> TRUE

\* The operation ends and nothing else happens.
Ignored(w) ==
    /\ running[w] # None /\ Finish(w) /\ Excused(w)
    /\ UNCHANGED <<job, Stored, dataVars>>

\* A planning, capture or validation operation fails.
Retries(w, type, stage) ==
    /\ Working(w, type) /\ job.status = stage
    /\ type \in Retryable
    /\ Lands(stage, "none") /\ Requeue(w)
    /\ UNCHANGED Stored

GivesUp(w, type, stage) ==
    /\ Working(w, type) /\ job.status = stage
    /\ Lands("FAILED", "none") /\ Finish(w)
    /\ UNCHANGED Stored

PlanRetried(w) == Retries(w, "run_planning", "PLANNING") /\ UNCHANGED dataVars
ValidationRetried(w) == Retries(w, "run_validation", "VALIDATING") /\ UNCHANGED dataVars
PageRetried(w) ==
    /\ Retries(w, "run_discovery", "DISCOVERING")
    /\ pages' = [pages EXCEPT ![running[w].cmd.target].status = "DISCOVERED"]
    /\ UNCHANGED Derived
ReadRetried(w) ==
    /\ Retries(w, "run_extraction", "EXTRACTING")
    /\ pages' = [q \in Pages |-> IF q = running[w].cmd.target
                                 THEN [pages[q] EXCEPT !.extraction = "PENDING"] ELSE pages[q]]
    /\ UNCHANGED Derived
OperationFailed(w) ==
    /\ \E type \in CommandType, stage \in Active : GivesUp(w, type, stage)
    /\ UNCHANGED <<records, validation, files>>
    /\ \A f \in Formats : exports'[f].status = "COMPLETED" => exports[f].status = "COMPLETED"
    /\ IF running[w].cmd.type = "run_export"
       THEN /\ running[w].step = "committed" => <<"late", "run_export">> \in Faults
            /\ store' = WithoutUpload(w)
       ELSE UNCHANGED store

PlanStored(w) ==
    /\ Ends(w, "run_planning")
    /\ job.status = "PLANNING" /\ Lands("BROWSER_INITIALIZING", "none")
    /\ Insert(CaptureCommand)
    /\ UNCHANGED <<published, dataVars>>

PageCaptured(w) ==
    /\ Ends(w, "run_browser_capture")
    /\ job.status = "BROWSER_INITIALIZING" /\ Lands("DISCOVERING", "none")
    /\ pages' = [pages EXCEPT ![SourcePage].status = "DISCOVERED", ![SourcePage].depth = 0]
    /\ Insert(SourceCommand) /\ Fresh(SourceCommand)
    /\ UNCHANGED <<published, Derived>>

PageVisited(w, inv, next) ==
    /\ Ends(w, "run_discovery")
    /\ job.status = "DISCOVERING"
    /\ inv \in VisitOutcomes(running[w].target) /\ next \in FollowUps(inv)
    /\ IF next = ExtractCommand THEN Lands("EXTRACTING", "none") ELSE Lands("DISCOVERING", "none")
    /\ pages' = inv
    /\ Insert(next) /\ Fresh(next)
    /\ UNCHANGED <<published, Derived>>

PageRead(w, x, next) ==
    /\ Ends(w, "run_extraction")
    /\ job.status = "EXTRACTING"
    /\ x \in {"PARTIAL", "EXTRACTED"}
    /\ pages' = [pages EXCEPT ![running[w].target].extraction = x]
    /\ next \in AfterReading(pages')
    /\ IF next = ValidateCommand THEN Lands("VALIDATING", "none") ELSE Lands("EXTRACTING", "none")
    /\ validation' = IF next = ValidateCommand THEN [validation EXCEPT !.status = "QUEUED"] ELSE validation
    /\ Insert(next) /\ Fresh(next)
    /\ UNCHANGED <<published, exports, files, store>>

ResultsStored(w) ==
    /\ Ends(w, "run_validation")
    /\ job.status = "VALIDATING" /\ Lands("EXPORTING", "none")
    /\ exports' = [f \in Formats |-> [status |-> "QUEUED", attempt |-> 0]]
    /\ outbox' = outbox \cup {ExportCommand(f) : f \in Formats}
    /\ \A f \in Formats : Fresh(ExportCommand(f))
    /\ UNCHANGED <<published, pages, records, files, store>>

\* Only the upload of slot w changes.
Uploaded(w, b) ==
    /\ AtStep(w, "working") /\ b \in UnusedBlobs
    /\ store' = store \cup {b}
    /\ running' = [running EXCEPT ![w].blob = b, ![w].step = "stored"]
    /\ UNCHANGED <<job, queueVars, pages, records, validation, exports, files>>

FilePublished(w) ==
    LET f    == running[w].target
        done == [exports EXCEPT ![f].status = "COMPLETED"]
    IN /\ AtStep(w, "stored")
       /\ job.status = "EXPORTING" /\ exports[f].status # "COMPLETED"
       /\ files' = files \cup {[format |-> f, blob |-> running[w].blob]}
       /\ exports' = done
       /\ IF AllExported(done) THEN Lands("COMPLETED", "none") ELSE Lands("EXPORTING", "none")
       /\ running' = [running EXCEPT ![w].step = "committed"]
       /\ UNCHANGED <<queueVars, pages, records, validation, store>>

UploadRefused(w) ==
    /\ Ends(w, "run_export")
    /\ \/ job.status # "EXPORTING"
       \/ running[w].step = "stored" /\ exports[running[w].target].status = "COMPLETED"
    /\ running[w].step = "committed" => <<"late", "run_export">> \in Faults
    /\ store' = WithoutUpload(w)
    /\ UNCHANGED <<job, Stored, pages, records, validation, exports, files>>

ExportRetried(w) ==
    LET f == running[w].target
    IN /\ Working(w, "run_export")
       /\ running[w].step = "committed" => <<"late", "run_export">> \in Faults
       /\ job.status = "EXPORTING" /\ Lands("EXPORTING", "none")
       /\ exports[f].attempt < ExportRetries
       /\ exports' = [exports EXCEPT ![f].status = "QUEUED", ![f].attempt = @ + 1]
       /\ Requeue(w)
       /\ store' = WithoutUpload(w)
       /\ UNCHANGED <<Stored, pages, records, validation, files>>

\* The steps of the worker slots.
PlanningOutcome(w) ==
    \/ \E c \in queue : TurnedAway(w, c) \/ PlanClaimed(w, c) \/ CaptureClaimed(w, c)
    \/ Ignored(w) \/ PlanRetried(w) \/ OperationFailed(w)
    \/ PlanStored(w) \/ PageCaptured(w)

DiscoveryOutcome(w) ==
    \/ \E c \in queue : TurnedAway(w, c) \/ \E p \in Pages : PageClaimed(w, c, p)
    \/ Ignored(w) \/ PageRetried(w) \/ OperationFailed(w)
    \/ \E inv, next : PageVisited(w, inv, next)

ExtractionOutcome(w) ==
    \/ \E c \in queue : TurnedAway(w, c) \/ \E p \in Pages : ReadClaimed(w, c, p)
    \/ Ignored(w) \/ ReadRetried(w) \/ OperationFailed(w)
    \/ \E x, next : PageRead(w, x, next)

ValidationOutcome(w) ==
    \/ \E c \in queue : TurnedAway(w, c) \/ ValidationClaimed(w, c)
    \/ Ignored(w) \/ ValidationRetried(w) \/ OperationFailed(w)
    \/ ResultsStored(w)

ExportOutcome(w) ==
    \/ \E c \in queue : TurnedAway(w, c) \/ ExportClaimed(w, c)
    \/ Ignored(w) \/ UploadRefused(w) \/ ExportRetried(w) \/ OperationFailed(w)
    \/ \E b \in Blobs : Uploaded(w, b)
    \/ FilePublished(w)

\* The cron hands over a part of what is pending, committed or not.
Dispatches ==
    \E S \in SUBSET Pending : /\ queue' = queue \cup S
                             /\ published' \in {published, published \cup S}

Dispatched ==
    /\ Dispatches
    /\ Recoverable \/ \E S \in SUBSET Pending : Publish(S)
    /\ UNCHANGED <<job, outbox, running, dataVars>>

LeaseLapsed ==
    /\ job.lease = "live" /\ Lands(job.status, "expired")
    /\ StaleLeases \/ \A w \in Workers : running[w] = None
    /\ UNCHANGED <<queueVars, running, dataVars>>

RecoveryFailed ==
    /\ Recoverable /\ Lands("FAILED", "none")
    /\ Dispatches
    /\ UNCHANGED <<outbox, running, dataVars>>

Recovered(t) ==
    /\ Recoverable /\ Lands(job.status, "none")
    /\ t \in RecoveryTargets
    /\ Insert(RecoveryCommand(t)) /\ Fresh(RecoveryCommand(t))
    /\ IF RecoveryPhase = "discovery"
       THEN pages' = [pages EXCEPT ![t].status = "DISCOVERED"] ELSE UNCHANGED pages
    /\ IF RecoveryPhase = "export"
       THEN exports' = [exports EXCEPT ![t] = [status |-> "QUEUED",
                                               attempt |-> RecoveredExportAttempt(t)]]
       ELSE UNCHANGED exports
    /\ Dispatches
    /\ UNCHANGED <<running, records, validation, files, store>>

RecoveredNothing ==
    /\ Recoverable /\ Lands(job.status, "none") /\ RecoveryTargets = {}
    /\ Dispatches
    /\ UNCHANGED <<outbox, running, dataVars>>

RecoveryOutcome ==
    \/ Dispatched \/ LeaseLapsed \/ RecoveryFailed \/ RecoveredNothing
    \/ \E t \in RecoveryTargets : Recovered(t)

Cancelled ==
    /\ Lands("CANCELLED", job.lease)
    /\ UNCHANGED <<queueVars, running, dataVars>>

NothingToSee == UNCHANGED <<job, queueVars, running, dataVars>>

Crashed(w) ==
    /\ running[w] # None /\ <<"crash", running[w].cmd.type>> \in Faults
    /\ Requeue(w)
    /\ UNCHANGED <<job, Stored, dataVars>>

Abandoned(w) ==
    /\ running[w] # None /\ <<"abandon", running[w].cmd.type>> \in Faults
    /\ Finish(w)
    /\ UNCHANGED <<job, Stored, dataVars>>

Redelivered(c) ==
    /\ c \in published \ queue /\ <<"redeliver", c.type>> \in Faults
    /\ queue' = queue \cup {c}
    /\ UNCHANGED <<job, Stored, running, dataVars>>

Lost(c) ==
    /\ c \in queue /\ <<"lose", c.type>> \in Faults
    /\ \A w \in Workers : running[w] # None => running[w].cmd # c
    /\ queue' = queue \ {c}
    /\ UNCHANGED <<job, Stored, running, dataVars>>

OtherOutcome ==
    \/ Cancelled \/ NothingToSee
    \/ \E w \in Workers : Crashed(w) \/ Abandoned(w)
    \/ \E c \in outbox : Redelivered(c) \/ Lost(c)

-----------------------------------------------------------------------------
(* The handlers have no other outcome *)

\* Only a command that may fail transiently is retried.
LEMMA Transient ==
    ASSUME NEW type, NEW retryable \in FailureOf(type)
    PROVE  retryable \in BOOLEAN /\ (retryable => type \in Retryable)
  BY Zenon DEF FailureOf

\* The handlers of planning and capture.
LEMMA PlanningOutcomes ==
    ASSUME LifecycleInv, NEW w \in Workers, PlanningStep(w)
    PROVE  PlanningOutcome(w)
  <1>0. JobOK /\ job \in JobRow /\ RunningOK
    BY DEF LifecycleInv, TypeOK, JobOK
  <1>00. /\ \A S \in SUBSET {"QUEUED", "PLANNING", "BROWSER_INITIALIZING"} :
                /\ Accepts(S) <=> job.status \in S
                /\ AcknowledgeOrIgnore(S) => UNCHANGED jobVars
    BY NothingToAcknowledge DEF Active
  <1> HIDE DEF LifecycleInv, JobOK, Accepts
  <1>1. ASSUME NEW c \in queue, ClaimPlanning(w, c) PROVE PlanningOutcome(w)
    <2>1. Delivered(w, c, "run_planning") /\ c.type = "run_planning"
      BY <1>1 DEF ClaimPlanning, Delivered
    <2>2. CASE PlanningClaimable /\ Begin(w, c, None)
      <3>1. Lands("PLANNING", "live")
        <4>1. CASE job.status = "QUEUED" /\ Transition(Leased(Advanced(job, 10)), "PLANNING")
          BY <1>0, <4>1, StageMoves DEF Lands
        <4>2. CASE job.status # "QUEUED" /\ job' = Leased(job)
          BY <1>0, <1>00, <2>2, <4>2, RowFields DEF Lands, PlanningClaimable
        <4> QED BY <1>1, <2>2, <4>1, <4>2 DEF ClaimPlanning
      <3>2. PlanClaimed(w, c)
        BY <1>1, <2>1, <2>2, <3>1 DEF PlanClaimed, Takes, Lands, WorkOf, ClaimPlanning, Stored
      <3> QED BY <3>2 DEF PlanningOutcome
    <2>3. CASE ~PlanningClaimable /\ AcknowledgeOrIgnore({"QUEUED", "PLANNING"}) /\ Discard(c)
      <3>1. TurnedAway(w, c)
        BY <1>00, <1>1, <2>1, <2>3 DEF TurnedAway, Claimable, ClaimPlanning, dataVars, jobVars, Stored
      <3> QED BY <3>1 DEF PlanningOutcome
    <2> QED BY <1>1, <2>2, <2>3 DEF ClaimPlanning
  <1>2. ASSUME CompletePlanning(w) PROVE PlanningOutcome(w)
    <2>1. CASE Accepts({"PLANNING"}) /\ Transition(Released(Advanced(job, 20)), "BROWSER_INITIALIZING")
                /\ Insert(CaptureCommand)
      <3>1. PlanStored(w)
        <4>1. 20 \in 0..100
          OBVIOUS
        <4>2. job.status = "PLANNING" /\ Lands("BROWSER_INITIALIZING", "none")
          BY <1>0, <1>00, <2>1, <4>1, StageMoves DEF Lands
        <4> QED BY <1>2, <2>1, <4>2 DEF PlanStored, Ends, CompletePlanning
      <3> QED BY <3>1 DEF PlanningOutcome
    <2>2. CASE UNCHANGED jobVars /\ UNCHANGED outbox
      <3>1. Ignored(w)
        BY <1>2, <2>2 DEF Ignored, Excused, CompletePlanning, Working, jobVars, Stored
      <3> QED BY <3>1 DEF PlanningOutcome
    <2> QED BY <1>00, <1>2, <2>1, <2>2 DEF CompletePlanning
  <1>3. ASSUME FailPlanning(w) PROVE PlanningOutcome(w)
    <2>1. ASSUME Accepts({"PLANNING"}), NEW retryable \in FailureOf("run_planning"),
                 RetryOrFail(w, retryable, PlannerRetries)
          PROVE  PlanningOutcome(w)
      <3>0. retryable \in BOOLEAN /\ job.status = "PLANNING"
            /\ (retryable => "run_planning" \in Retryable)
        BY <1>00, <2>1, Transient
      <3>1. CASE Retried(w) /\ retryable
        <4>1. PlanRetried(w)
          BY <1>3, <3>0, <3>1 DEF PlanRetried, Retries, Retried, Lands, FailPlanning, Stored
        <4> QED BY <4>1 DEF PlanningOutcome
      <3>2. CASE FailedForGood(w)
        <4>1. GivesUp(w, "run_planning", "PLANNING")
          BY <1>3, <3>0, <3>2 DEF GivesUp, FailedForGood, Lands, FailPlanning, Stored
        <4>2. OperationFailed(w)
          BY <1>3, <4>1 DEF OperationFailed, GivesUp, FailPlanning, dataVars, Working, CommandType, Active
        <4> QED BY <4>2 DEF PlanningOutcome
      <3> QED BY <1>0, <2>1, <3>0, <3>1, <3>2, RetryEffect DEF WillRetry
    <2>2. CASE UNCHANGED jobVars /\ Finish(w)
      <3>1. Ignored(w)
        BY <1>3, <2>2 DEF Ignored, Excused, FailPlanning, Working, jobVars, Stored
      <3> QED BY <3>1 DEF PlanningOutcome
    <2> QED BY <1>00, <1>3, <2>1, <2>2 DEF FailPlanning
  <1>4. ASSUME NEW c \in queue, PrepareCapture(w, c) PROVE PlanningOutcome(w)
    <2>1. Delivered(w, c, "run_browser_capture") /\ c.type = "run_browser_capture"
      BY <1>4 DEF PrepareCapture, Delivered
    <2>2. CASE Accepts({"BROWSER_INITIALIZING"}) /\ job' = Leased(job) /\ Begin(w, c, None)
      <3>1. CaptureClaimed(w, c)
        BY <1>0, <1>00, <1>4, <2>1, <2>2, RowFields
           DEF CaptureClaimed, Takes, WorkOf, PrepareCapture, Stored
      <3> QED BY <3>1 DEF PlanningOutcome
    <2>3. CASE ~Accepts({"BROWSER_INITIALIZING"}) /\ AcknowledgeOrIgnore({"BROWSER_INITIALIZING"})
               /\ Discard(c)
      <3>1. TurnedAway(w, c)
        BY <1>00, <1>4, <2>1, <2>3 DEF TurnedAway, Claimable, PrepareCapture, dataVars, jobVars, Stored
      <3> QED BY <3>1 DEF PlanningOutcome
    <2> QED BY <1>4, <2>2, <2>3 DEF PrepareCapture
  <1>5. ASSUME CompleteCapture(w) PROVE PlanningOutcome(w)
    <2>1. CASE /\ Accepts({"BROWSER_INITIALIZING"}) /\ Fresh(SourceCommand)
               /\ Transition(Released(Advanced(job, 30)), "DISCOVERING")
               /\ pages' = [pages EXCEPT ![SourcePage].status = "DISCOVERED",
                                         ![SourcePage].depth = 0]
               /\ Insert(SourceCommand)
      <3>1. PageCaptured(w)
        <4>1. 30 \in 0..100
          OBVIOUS
        <4>2. job.status = "BROWSER_INITIALIZING" /\ Lands("DISCOVERING", "none")
          BY <1>0, <1>00, <2>1, <4>1, StageMoves DEF Lands
        <4> QED BY <1>5, <2>1, <4>2 DEF PageCaptured, Ends, CompleteCapture, Derived
      <3> QED BY <3>1 DEF PlanningOutcome
    <2>2. CASE UNCHANGED jobVars /\ UNCHANGED <<outbox, pages>>
      <3>1. Ignored(w)
        BY <1>5, <2>2 DEF Ignored, Excused, CompleteCapture, Working, jobVars, dataVars, Stored
      <3> QED BY <3>1 DEF PlanningOutcome
    <2> QED BY <1>00, <1>5, <2>1, <2>2 DEF CompleteCapture
  <1>6. ASSUME FailCapture(w) PROVE PlanningOutcome(w)
    <2>1. CASE Accepts({"BROWSER_INITIALIZING"}) /\ Transition(Released(job), "FAILED")
      <3>1. GivesUp(w, "run_browser_capture", "BROWSER_INITIALIZING")
        <4>1. Lands("FAILED", "none")
          BY <1>0, <2>1, StageMoves DEF Lands
        <4> QED BY <1>00, <1>6, <2>1, <4>1 DEF GivesUp, FailCapture, Stored
      <3>2. OperationFailed(w)
        BY <1>6, <3>1 DEF OperationFailed, GivesUp, FailCapture, dataVars, Working, CommandType, Active
      <3> QED BY <3>2 DEF PlanningOutcome
    <2>2. CASE UNCHANGED jobVars
      <3>1. Ignored(w)
        BY <1>6, <2>2 DEF Ignored, Excused, FailCapture, Working, jobVars, Stored
      <3> QED BY <3>1 DEF PlanningOutcome
    <2> QED BY <1>00, <1>6, <2>1, <2>2 DEF FailCapture
  <1> QED BY <1>1, <1>2, <1>3, <1>4, <1>5, <1>6 DEF PlanningStep

\* The handlers of discovery.
LEMMA DiscoveryOutcomes ==
    ASSUME LifecycleInv, NEW w \in Workers, DiscoveryStep(w)
    PROVE  DiscoveryOutcome(w)
  <1>0. JobOK /\ job \in JobRow /\ QueueOK /\ RunningOK
    BY DEF LifecycleInv, TypeOK, JobOK
  <1>00. Accepts({"DISCOVERING"}) <=> job.status = "DISCOVERING"
    BY NothingToAcknowledge DEF Active
  <1>01. AcknowledgeOrIgnore({"DISCOVERING"}) => UNCHANGED jobVars
    BY NothingToAcknowledge DEF Active
  <1> HIDE DEF LifecycleInv, JobOK, Accepts
  <1>1. ASSUME NEW c \in queue, ClaimDiscovery(w, c) PROVE DiscoveryOutcome(w)
    <2>1. Delivered(w, c, "run_discovery") /\ c.type = "run_discovery" /\ c.target \in Pages
      BY <1>0, <1>1 DEF ClaimDiscovery, Delivered, QueueOK, Command, WorkOf
    <2>2. ASSUME job.status = "DISCOVERING", NEW p \in DiscoverablePages(c),
                 pages' = [pages EXCEPT ![p].status = "QUEUED"], Begin(w, c, p), job' = Leased(job)
          PROVE  DiscoveryOutcome(w)
      <3>1. p \in Pages /\ pages[p].status = "DISCOVERED" /\ p = c.target
        BY <2>1, StoreAssumption DEF DiscoverablePages, Foremost, WithStatus
      <3>2. job'.status = job.status /\ job'.lease = "live"
        BY <1>0, <2>2, RowFields
      <3>3. Takes(w, c, "run_discovery", p)
        BY <1>1, <2>1, <2>2, <3>1, <3>2 DEF Takes, WorkOf, ClaimDiscovery, Stored
      <3>4. PageClaimed(w, c, p)
        BY <1>1, <2>2, <3>1, <3>2, <3>3 DEF PageClaimed, ClaimDiscovery, Derived
      <3> QED BY <3>1, <3>4 DEF DiscoveryOutcome
    <2>3. CASE /\ ~(Accepts({"DISCOVERING"}) /\ DiscoverablePages(c) # {})
               /\ AcknowledgeOrIgnore({"DISCOVERING"}) /\ Discard(c) /\ UNCHANGED pages
      <3>1. ~Claimable(c)
        BY <1>00, <2>1, <2>3 DEF Claimable
      <3>2. TurnedAway(w, c)
        BY <1>01, <1>1, <2>1, <2>3, <3>1 DEF TurnedAway, ClaimDiscovery, jobVars, Stored
      <3> QED BY <3>2 DEF DiscoveryOutcome
    <2> QED BY <1>00, <1>1, <2>2, <2>3 DEF ClaimDiscovery
  <1>2. ASSUME CompleteDiscovery(w) PROVE DiscoveryOutcome(w)
    <2>0. Ends(w, "run_discovery") /\ UNCHANGED <<published, Derived>>
      BY <1>2 DEF CompleteDiscovery, Ends, Derived
    <2>1. ASSUME job.status = "DISCOVERING",
                 NEW inv \in VisitOutcomes(running[w].target), NEW next \in FollowUps(inv),
                 Fresh(next), pages' = inv, Insert(next),
                 IF next = ExtractCommand
                 THEN Transition(Released(Advanced(job, 40)), "EXTRACTING")
                 ELSE job' = Released(job) /\ UNCHANGED events
          PROVE  DiscoveryOutcome(w)
      <3>1. IF next = ExtractCommand THEN Lands("EXTRACTING", "none") ELSE Lands("DISCOVERING", "none")
        <4>1. CASE next = ExtractCommand
          BY <1>0, <2>1, <4>1, StageMoves DEF Lands
        <4>2. CASE next # ExtractCommand
          BY <1>0, <2>1, <4>2, RowFields DEF Lands
        <4> QED BY <4>1, <4>2
      <3>2. PageVisited(w, inv, next)
        BY <2>0, <2>1, <3>1 DEF PageVisited
      <3> QED BY <3>2 DEF DiscoveryOutcome
    <2>2. ASSUME UNCHANGED <<jobVars, outbox, pages>>,
                 job.status = "DISCOVERING" =>
                    \E inv \in VisitOutcomes(running[w].target) : \E next \in FollowUps(inv) : ~Fresh(next)
          PROVE  DiscoveryOutcome(w)
      <3>1. Ignored(w)
        BY <2>0, <2>2 DEF Ignored, Excused, Ends, Working, jobVars, dataVars, Stored, Derived
      <3> QED BY <3>1 DEF DiscoveryOutcome
    <2>3. CASE job.status = "DISCOVERING"
      BY <1>00, <1>2, <2>1, <2>2, <2>3 DEF CompleteDiscovery
    <2>4. CASE job.status # "DISCOVERING"
      BY <1>00, <1>01, <1>2, <2>2, <2>4 DEF CompleteDiscovery
    <2> QED BY <2>3, <2>4
  <1>3. ASSUME FailDiscovery(w) PROVE DiscoveryOutcome(w)
    <2>0. Working(w, "run_discovery") /\ UNCHANGED <<Stored, Derived>>
      BY <1>3 DEF FailDiscovery, Stored, Derived
    <2>1. ASSUME job.status = "DISCOVERING", NEW retryable \in FailureOf("run_discovery"),
                 RetryOrFail(w, retryable, PlannerRetries),
                 pages' = [pages EXCEPT ![running[w].cmd.target].status =
                                IF WillRetry(retryable, PlannerRetries) THEN "DISCOVERED" ELSE "FAILED"]
          PROVE  DiscoveryOutcome(w)
      <3>0. retryable \in BOOLEAN /\ (retryable => "run_discovery" \in Retryable)
        BY <2>1, Transient
      <3>1. CASE WillRetry(retryable, PlannerRetries) /\ Retried(w)
        <4>1. PageRetried(w)
          BY <2>0, <2>1, <3>0, <3>1 DEF PageRetried, Retries, Retried, Lands, WillRetry
        <4> QED BY <4>1 DEF DiscoveryOutcome
      <3>2. CASE FailedForGood(w)
        <4>1. GivesUp(w, "run_discovery", "DISCOVERING")
          BY <2>0, <2>1, <3>2 DEF GivesUp, FailedForGood, Lands
        <4>2. OperationFailed(w)
          BY <2>0, <4>1 DEF OperationFailed, GivesUp, Working, CommandType, Active, Derived
        <4> QED BY <4>2 DEF DiscoveryOutcome
      <3> QED BY <1>0, <2>1, <3>0, <3>1, <3>2, RetryEffect
    <2>2. CASE job.status # "DISCOVERING" /\ UNCHANGED jobVars /\ Finish(w) /\ UNCHANGED pages
      <3>1. Ignored(w)
        BY <2>0, <2>2 DEF Ignored, Excused, Working, jobVars, dataVars, Stored, Derived
      <3> QED BY <3>1 DEF DiscoveryOutcome
    <2> QED BY <1>00, <1>01, <1>3, <2>1, <2>2 DEF FailDiscovery
  <1> QED BY <1>1, <1>2, <1>3 DEF DiscoveryStep

\* The transaction of complete_extraction when the page is left with status x.
ReadCommits(w, x, found) ==
    LET inv == [pages EXCEPT ![running[w].target].extraction = x]
    IN \E next \in AfterReading(inv) :
            IF Fresh(next)
            THEN /\ IF next = ValidateCommand
                    THEN /\ Transition(Released(Advanced(job, 60)), "VALIDATING")
                         /\ validation' = [validation EXCEPT !.status = "QUEUED"]
                    ELSE /\ job' = Released(job)
                         /\ UNCHANGED <<events, validation>>
                 /\ pages' = inv
                 /\ records' = records \cup found
                 /\ Insert(next)
            ELSE UNCHANGED <<jobVars, outbox, pages, records, validation>>

\* The handlers of extraction.
LEMMA ExtractionOutcomes ==
    ASSUME LifecycleInv, NEW w \in Workers, ExtractionStep(w)
    PROVE  ExtractionOutcome(w)
  <1>0. JobOK /\ job \in JobRow /\ QueueOK /\ RunningOK /\ pages \in [Pages -> PageRow]
    BY DEF LifecycleInv, TypeOK, JobOK, DataOK
  <1>00. Accepts({"EXTRACTING"}) <=> job.status = "EXTRACTING"
    BY NothingToAcknowledge DEF Active
  <1>01. AcknowledgeOrIgnore({"EXTRACTING"}) => UNCHANGED jobVars
    BY NothingToAcknowledge DEF Active
  <1> HIDE DEF LifecycleInv, JobOK, Accepts
  <1>1. ASSUME NEW c \in queue, ClaimExtraction(w, c) PROVE ExtractionOutcome(w)
    <2>1. Delivered(w, c, "run_extraction") /\ c.type = "run_extraction"
      BY <1>0, <1>1 DEF ClaimExtraction, Delivered
    <2>2. ASSUME job.status = "EXTRACTING", NEW p \in ClaimablePages(c),
                 pages' = [pages EXCEPT ![p].extraction = "EXTRACTING"], Begin(w, c, p),
                 job' = Leased(job)
          PROVE  ExtractionOutcome(w)
      <3>1. p \in Pages /\ c.target \in {None, p} /\ pages[p].status = "VISITED"
            /\ pages[p].extraction \in {"none", "PENDING"}
        BY <1>0 DEF ClaimablePages, Readable, PageRow
      <3>2. job'.status = job.status /\ job'.lease = "live"
        BY <1>0, <2>2, RowFields
      <3>3. Takes(w, c, "run_extraction", p)
        BY <1>1, <2>1, <2>2, <3>1, <3>2 DEF Takes, WorkOf, ClaimExtraction, Stored
      <3>4. ReadClaimed(w, c, p)
        BY <1>1, <2>2, <3>1, <3>2, <3>3 DEF ReadClaimed, ClaimExtraction, Derived
      <3> QED BY <3>1, <3>4 DEF ExtractionOutcome
    <2>3. CASE /\ ~(Accepts({"EXTRACTING"}) /\ ClaimablePages(c) # {})
               /\ AcknowledgeOrIgnore({"EXTRACTING"}) /\ Discard(c) /\ UNCHANGED pages
      <3>1. ~Claimable(c)
        BY <1>00, <2>1, <2>3 DEF Claimable
      <3>2. TurnedAway(w, c)
        BY <1>01, <1>1, <2>1, <2>3, <3>1 DEF TurnedAway, ClaimExtraction, jobVars, Stored
      <3> QED BY <3>2 DEF ExtractionOutcome
    <2> QED BY <1>00, <1>1, <2>2, <2>3 DEF ClaimExtraction
  <1>2. ASSUME CompleteExtraction(w) PROVE ExtractionOutcome(w)
    <2>0. Ends(w, "run_extraction") /\ UNCHANGED <<published, exports, files, store>>
      BY <1>2 DEF CompleteExtraction, Ends
    <2>1. ASSUME job.status = "EXTRACTING", NEW x \in {"PARTIAL", "EXTRACTED"},
                 pages' = [pages EXCEPT ![running[w].target].extraction = x],
                 NEW next \in AfterReading(pages'), Fresh(next), Insert(next),
                 IF next = ValidateCommand
                 THEN /\ Transition(Released(Advanced(job, 60)), "VALIDATING")
                      /\ validation' = [validation EXCEPT !.status = "QUEUED"]
                 ELSE job' = Released(job) /\ validation' = validation
          PROVE  ExtractionOutcome(w)
      <3>1. IF next = ValidateCommand THEN Lands("VALIDATING", "none") ELSE Lands("EXTRACTING", "none")
        <4>1. CASE next = ValidateCommand
          <5>1. 60 \in 0..100
            OBVIOUS
          <5> QED BY <1>0, <2>1, <4>1, <5>1, StageMoves DEF Lands
        <4>2. CASE next # ValidateCommand
          BY <1>0, <2>1, <4>2, RowFields DEF Lands
        <4> QED BY <4>1, <4>2
      <3>2. PageRead(w, x, next)
        BY <2>0, <2>1, <3>1 DEF PageRead
      <3> QED BY <3>2 DEF ExtractionOutcome
    <2>2. ASSUME UNCHANGED <<jobVars, outbox, pages, records, validation>>,
                 job.status = "EXTRACTING" =>
                    \E x \in {"PARTIAL", "EXTRACTED"} :
                    \E next \in AfterReading([pages EXCEPT ![running[w].target].extraction = x]) :
                        ~Fresh(next)
          PROVE  ExtractionOutcome(w)
      <3>1. Ignored(w)
        BY <2>0, <2>2 DEF Ignored, Excused, Ends, Working, jobVars, dataVars, Stored
      <3> QED BY <3>1 DEF ExtractionOutcome
    <2>3. CASE job.status = "EXTRACTING"
      <3>1. PICK x \in {"PARTIAL", "EXTRACTED"}, found \in ExtractedRecords(running[w].target) :
                ReadCommits(w, x, found)
        <4>1. PICK found \in ExtractedRecords(running[w].target) :
                ReadCommits(w, IF found \subseteq records THEN "PARTIAL" ELSE "EXTRACTED", found)
          BY <1>00, <1>2, <2>3 DEF CompleteExtraction, ReadCommits
        <4>2. CASE found \subseteq records
          BY <4>1, <4>2
        <4>3. CASE ~(found \subseteq records)
          BY <4>1, <4>3
        <4> QED BY <4>2, <4>3
      <3>2. PICK next \in AfterReading([pages EXCEPT ![running[w].target].extraction = x]) :
              IF Fresh(next)
              THEN /\ IF next = ValidateCommand
                      THEN /\ Transition(Released(Advanced(job, 60)), "VALIDATING")
                           /\ validation' = [validation EXCEPT !.status = "QUEUED"]
                      ELSE job' = Released(job) /\ validation' = validation
                   /\ pages' = [pages EXCEPT ![running[w].target].extraction = x]
                   /\ Insert(next)
              ELSE UNCHANGED <<jobVars, outbox, pages, records, validation>>
        BY <3>1 DEF ReadCommits
      <3>3. CASE Fresh(next)
        <4>1. next \in AfterReading(pages')
          BY <3>2, <3>3
        <4> QED BY <2>1, <2>3, <3>2, <3>3, <4>1
      <3>4. CASE ~Fresh(next)
        BY <2>2, <3>2, <3>4
      <3> QED BY <3>3, <3>4
    <2>4. CASE job.status # "EXTRACTING"
      BY <1>00, <1>01, <1>2, <2>2, <2>4 DEF CompleteExtraction
    <2> QED BY <2>3, <2>4
  <1>3. ASSUME FailExtraction(w) PROVE ExtractionOutcome(w)
    <2>0. Working(w, "run_extraction") /\ UNCHANGED <<Stored, Derived>>
      BY <1>3 DEF FailExtraction, Stored, Derived
    <2>1. ASSUME job.status = "EXTRACTING", NEW retryable \in FailureOf("run_extraction"),
                 RetryOrFail(w, retryable, ExtractionRetries),
                 pages' = [q \in Pages |-> IF q = running[w].cmd.target
                                           THEN [pages[q] EXCEPT !.extraction =
                                                    IF WillRetry(retryable, ExtractionRetries)
                                                    THEN "PENDING" ELSE "FAILED"]
                                           ELSE pages[q]]
          PROVE  ExtractionOutcome(w)
      <3>0. retryable \in BOOLEAN /\ (retryable => "run_extraction" \in Retryable)
        BY <2>1, Transient
      <3>1. CASE WillRetry(retryable, ExtractionRetries) /\ Retried(w)
        <4>1. ReadRetried(w)
          BY <2>0, <2>1, <3>0, <3>1 DEF ReadRetried, Retries, Retried, Lands, WillRetry
        <4> QED BY <4>1 DEF ExtractionOutcome
      <3>2. CASE FailedForGood(w)
        <4>1. GivesUp(w, "run_extraction", "EXTRACTING")
          BY <2>0, <2>1, <3>2 DEF GivesUp, FailedForGood, Lands
        <4>2. OperationFailed(w)
          BY <2>0, <4>1 DEF OperationFailed, GivesUp, Working, CommandType, Active, Derived
        <4> QED BY <4>2 DEF ExtractionOutcome
      <3> QED BY <1>0, <2>1, <3>0, <3>1, <3>2, RetryEffect
    <2>2. CASE job.status # "EXTRACTING" /\ UNCHANGED jobVars /\ Finish(w) /\ UNCHANGED pages
      <3>1. Ignored(w)
        BY <2>0, <2>2 DEF Ignored, Excused, Working, jobVars, dataVars, Stored, Derived
      <3> QED BY <3>1 DEF ExtractionOutcome
    <2> QED BY <1>00, <1>01, <1>3, <2>1, <2>2 DEF FailExtraction
  <1> QED BY <1>1, <1>2, <1>3 DEF ExtractionStep

\* The handlers of validation.
LEMMA ValidationOutcomes ==
    ASSUME LifecycleInv, NEW w \in Workers, ValidationStep(w)
    PROVE  ValidationOutcome(w)
  <1>0. JobOK /\ job \in JobRow /\ QueueOK /\ RunningOK
    BY DEF LifecycleInv, TypeOK, JobOK
  <1>00. /\ Accepts({"VALIDATING"}) <=> job.status = "VALIDATING"
         /\ job.status = "VALIDATING" => ~job.cancelRequested
    BY NothingToAcknowledge DEF Active, LifecycleInv, CancelledAtOnce
  <1>01. AcknowledgeOrIgnore({"VALIDATING"}) => UNCHANGED jobVars
    BY NothingToAcknowledge DEF Active
  <1> HIDE DEF LifecycleInv, JobOK, Accepts
  <1>1. ASSUME NEW c \in queue, ClaimValidation(w, c) PROVE ValidationOutcome(w)
    <2>1. Delivered(w, c, "run_validation") /\ c.type = "run_validation"
      BY <1>0, <1>1 DEF ClaimValidation, Delivered
    <2>2. CASE /\ ValidationClaimable /\ validation' = [validation EXCEPT !.status = "RUNNING"]
               /\ job' = Leased(job) /\ Begin(w, c, None)
      <3>1. job'.status = job.status /\ job'.lease = "live"
        BY <1>0, <2>2, RowFields
      <3>2. ValidationClaimed(w, c)
        BY <1>1, <2>1, <2>2, <3>1
           DEF ValidationClaimed, Takes, WorkOf, ClaimValidation, ValidationClaimable, Stored
      <3> QED BY <3>2 DEF ValidationOutcome
    <2>3. CASE ~ValidationClaimable /\ UNCHANGED jobVars /\ Discard(c) /\ UNCHANGED validation
      <3>1. TurnedAway(w, c)
        BY <1>1, <2>1, <2>3 DEF TurnedAway, Claimable, ClaimValidation, jobVars, Stored
      <3> QED BY <3>1 DEF ValidationOutcome
    <2> QED BY <1>00, <1>1, <2>2, <2>3 DEF ClaimValidation, ValidationClaimable
  <1>2. ASSUME CompleteValidation(w) PROVE ValidationOutcome(w)
    <2>1. CASE /\ job.status = "VALIDATING" /\ \A f \in Formats : Fresh(ExportCommand(f))
               /\ Transition(Released(Advanced(job, 80)), "EXPORTING")
               /\ exports' = [f \in Formats |-> [status |-> "QUEUED", attempt |-> 0]]
               /\ outbox' = outbox \cup {ExportCommand(f) : f \in Formats}
      <3>1. Lands("EXPORTING", "none")
        BY <1>0, <2>1, StageMoves DEF Lands
      <3>2. ResultsStored(w)
        BY <1>2, <2>1, <3>1 DEF ResultsStored, Ends, CompleteValidation
      <3> QED BY <3>2 DEF ValidationOutcome
    <2>2. CASE /\ ~(job.status = "VALIDATING" /\ \A f \in Formats : Fresh(ExportCommand(f)))
               /\ UNCHANGED jobVars /\ UNCHANGED <<outbox, validation, exports>>
      <3>1. Ignored(w)
        BY <1>2, <2>2 DEF Ignored, Excused, CompleteValidation, Working, jobVars, dataVars, Stored
      <3> QED BY <3>1 DEF ValidationOutcome
    <2> QED BY <1>00, <1>01, <1>2, <2>1, <2>2 DEF CompleteValidation
  <1>3. ASSUME FailValidation(w) PROVE ValidationOutcome(w)
    <2>1. ASSUME job.status = "VALIDATING", NEW retryable \in FailureOf("run_validation"),
                 RetryOrFail(w, retryable, ValidationRetries)
          PROVE  ValidationOutcome(w)
      <3>0. retryable \in BOOLEAN /\ (retryable => "run_validation" \in Retryable)
        BY <2>1, Transient
      <3>1. CASE WillRetry(retryable, ValidationRetries) /\ Retried(w)
        <4>1. ValidationRetried(w)
          BY <1>3, <2>1, <3>0, <3>1
             DEF ValidationRetried, Retries, Retried, Lands, WillRetry, FailValidation, Stored
        <4> QED BY <4>1 DEF ValidationOutcome
      <3>2. CASE FailedForGood(w)
        <4>1. GivesUp(w, "run_validation", "VALIDATING")
          BY <1>3, <2>1, <3>2 DEF GivesUp, FailedForGood, Lands, FailValidation, Stored
        <4>2. OperationFailed(w)
          BY <1>3, <4>1 DEF OperationFailed, GivesUp, FailValidation, dataVars, Working, CommandType, Active
        <4> QED BY <4>2 DEF ValidationOutcome
      <3> QED BY <1>0, <2>1, <3>0, <3>1, <3>2, RetryEffect
    <2>2. CASE job.status # "VALIDATING" /\ UNCHANGED jobVars /\ Finish(w)
      <3>1. Ignored(w)
        BY <1>3, <2>2 DEF Ignored, Excused, FailValidation, Working, jobVars, Stored
      <3> QED BY <3>1 DEF ValidationOutcome
    <2> QED BY <1>3, <2>1, <2>2 DEF FailValidation
  <1> QED BY <1>1, <1>2, <1>3 DEF ValidationStep

\* The error path of run_export.
LEMMA ExportErrorOutcome ==
    ASSUME LifecycleInv, NEW w \in Workers, NEW retryable \in BOOLEAN, Working(w, "run_export"),
           ExportError(w, retryable),
           running[w].step = "committed" => <<"late", "run_export">> \in Faults
    PROVE  UploadRefused(w) \/ ExportRetried(w) \/ OperationFailed(w)
  <1>0. JobOK /\ job \in JobRow /\ RunningOK /\ exports \in [Formats -> ExportRow]
    BY DEF LifecycleInv, TypeOK, JobOK, DataOK
  <1>00. Accepts({"EXPORTING"}) <=> job.status = "EXPORTING"
    BY NothingToAcknowledge DEF Active
  <1> DEFINE f == running[w].target
             again == retryable /\ exports[f].attempt < ExportRetries
  <1>01. f \in Formats /\ running[w].cmd.type = "run_export"
    BY <1>0 DEF Working, RunningOK, Operation, WorkOf
  <1> HIDE DEF LifecycleInv, JobOK, Accepts
  <1>1. CASE job.status # "EXPORTING"
    BY <1>00, <1>1 DEF ExportError, UploadRefused, Ends, jobVars, Stored
  <1>2. CASE job.status = "EXPORTING" /\ again
    <2>1. Lands("EXPORTING", "none") /\ Requeue(w)
      BY <1>0, <1>00, <1>2, RowFields DEF ExportError, Lands
    <2>2. exports' = [exports EXCEPT ![f].status = "QUEUED", ![f].attempt = @ + 1]
      BY <1>00, <1>2 DEF ExportError
    <2>3. ExportRetried(w)
      BY <1>2, <2>1, <2>2 DEF ExportError, ExportRetried, Stored
    <2> QED BY <2>3
  <1>3. CASE job.status = "EXPORTING" /\ ~again
    <2>0. Transition(Released(job), "FAILED") /\ Finish(w)
      BY <1>00, <1>3 DEF ExportError
    <2>1. Lands("FAILED", "none") /\ Finish(w)
      <3>1. 0 \in 0..100
        OBVIOUS
      <3> HIDE DEF again, f
      <3> QED BY <1>0, <2>0, <3>1, StageMoves DEF Lands
    <2>2. exports' = [exports EXCEPT ![f].status = "FAILED", ![f].attempt = @]
      BY <1>00, <1>3 DEF ExportError
    <2>3. \A g \in Formats : exports'[g].status = "COMPLETED" => exports[g].status = "COMPLETED"
      BY <1>0, <1>01, <2>2 DEF ExportRow
    <2>4. GivesUp(w, "run_export", "EXPORTING")
      BY <1>3, <2>1 DEF GivesUp, ExportError, Stored
    <2>5. OperationFailed(w)
      BY <1>01, <2>3, <2>4 DEF OperationFailed, ExportError, CommandType, Active
    <2> QED BY <2>5
  <1> QED BY <1>1, <1>2, <1>3

\* The handlers of an export, and the error of a committed one.
LEMMA ExportOutcomes ==
    ASSUME LifecycleInv, NEW w \in Workers, ExportStep(w) \/ LateExportError(w)
    PROVE  ExportOutcome(w)
  <1>0. /\ JobOK /\ job \in JobRow /\ QueueOK /\ RunningOK /\ exports \in [Formats -> ExportRow]
    BY DEF LifecycleInv, TypeOK, JobOK, DataOK
  <1>00. Accepts({"EXPORTING"}) <=> job.status = "EXPORTING"
    BY NothingToAcknowledge DEF Active
  <1>01. JobCancelled <=> job.status = "CANCELLED"
    BY DEF LifecycleInv, CancelledAtOnce, JobCancelled
  <1> HIDE DEF LifecycleInv, JobOK, Accepts, JobCancelled
  <1>1. ASSUME NEW c \in queue, ClaimExport(w, c) PROVE ExportOutcome(w)
    <2>1. Delivered(w, c, "run_export") /\ c.type = "run_export" /\ c.target \in Formats
      BY <1>0, <1>1 DEF ClaimExport, Delivered, QueueOK, Command, WorkOf
    <2>2. CASE /\ ExportClaimable(c.target)
               /\ exports' = [exports EXCEPT ![c.target].status = "RUNNING",
                                             ![c.target].attempt = AtLeast(@, c.attempt)]
               /\ job' = Leased(job) /\ Begin(w, c, c.target)
      <3>1. job'.status = job.status /\ job'.lease = "live"
        BY <1>0, <2>2, RowFields
      <3>2. Takes(w, c, "run_export", c.target)
        BY <1>1, <2>1, <2>2, <3>1 DEF Takes, WorkOf, ClaimExport, Stored
      <3>3. ExportClaimed(w, c)
        BY <1>1, <2>2, <3>1, <3>2 DEF ExportClaimed, ClaimExport, ExportClaimable
      <3> QED BY <3>3 DEF ExportOutcome
    <2>3. CASE /\ ~ExportClaimable(c.target)
               /\ exports' = [exports EXCEPT ![c.target].status =
                    IF JobCancelled /\ @ # "COMPLETED" THEN "CANCELLED" ELSE @]
               /\ UNCHANGED job /\ Discard(c)
      <3>1. /\ \A f \in Formats : exports'[f].status = "COMPLETED" => exports[f].status = "COMPLETED"
            /\ exports' = exports \/ job.status = "CANCELLED"
        <4>1. CASE JobCancelled /\ exports[c.target].status # "COMPLETED"
          BY <1>0, <1>01, <2>1, <2>3, <4>1 DEF ExportRow
        <4>2. CASE ~(JobCancelled /\ exports[c.target].status # "COMPLETED")
          <5>1. exports' = [exports EXCEPT ![c.target].status = @]
            BY <2>3, <4>2
          <5>2. exports' = exports
            BY <1>0, <2>1, <5>1 DEF ExportRow
          <5> QED BY <5>2
        <4> QED BY <4>1, <4>2
      <3>2. TurnedAway(w, c)
        BY <1>1, <2>1, <2>3, <3>1 DEF TurnedAway, Claimable, ClaimExport, Stored
      <3> QED BY <3>2 DEF ExportOutcome
    <2> QED BY <1>1, <2>2, <2>3 DEF ClaimExport
  <1>2. ASSUME UploadArtifact(w) PROVE ExportOutcome(w)
    <2>1. CASE JobCancelled
      <3>1. Ignored(w)
        BY <1>01, <1>2, <2>1
           DEF Ignored, Excused, UploadArtifact, AtStep, Working, jobVars, dataVars, Stored
      <3> QED BY <3>1 DEF ExportOutcome
    <2>2. CASE ~JobCancelled
      <3>1. PICK b \in UnusedBlobs : /\ store' = store \cup {b}
                                     /\ running' = [running EXCEPT ![w].blob = b, ![w].step = "stored"]
        BY <1>2, <2>2 DEF UploadArtifact
      <3>2. Uploaded(w, b) /\ b \in Blobs
        BY <1>2, <2>2, <3>1 DEF Uploaded, UploadArtifact, jobVars, queueVars, UnusedBlobs
      <3> QED BY <3>2 DEF ExportOutcome
    <2> QED BY <2>1, <2>2
  <1>3. ASSUME CompleteExport(w) PROVE ExportOutcome(w)
    <2> DEFINE f == running[w].target
               done == [exports EXCEPT ![f].status = "COMPLETED"]
               row  == [Released(job) EXCEPT !.progress = 100]
    <2>1. CASE job.status = "EXPORTING" /\ exports[f].status # "COMPLETED"
      <3>1. IF AllExported(done) THEN Lands("COMPLETED", "none") ELSE Lands("EXPORTING", "none")
        <4> HIDE DEF done
        <4>1. CASE AllExported(done)
          <5>1. Transition(row, "COMPLETED")
            BY <1>00, <1>3, <2>1, <4>1 DEF CompleteExport, done
          <5>2. 100 \in 0..100
            OBVIOUS
          <5> QED BY <1>0, <4>1, <5>1, <5>2, StageMoves DEF Lands
        <4>2. CASE ~AllExported(done)
          BY <1>0, <1>00, <1>3, <2>1, <4>2, RowFields DEF CompleteExport, Lands, done
        <4> QED BY <4>1, <4>2
      <3>2. FilePublished(w)
        BY <1>00, <1>3, <2>1, <3>1 DEF FilePublished, CompleteExport, queueVars
      <3> QED BY <3>2 DEF ExportOutcome
    <2>2. CASE ~(job.status = "EXPORTING" /\ exports[f].status # "COMPLETED")
      <3>1. UploadRefused(w)
        BY <1>00, <1>3, <2>2 DEF UploadRefused, CompleteExport, AtStep, Ends, jobVars, Stored
      <3> QED BY <3>1 DEF ExportOutcome
    <2> QED BY <2>1, <2>2
  <1>4. ASSUME ReturnFromExport(w) PROVE ExportOutcome(w)
    <2>1. Ignored(w)
      BY <1>4 DEF Ignored, Excused, ReturnFromExport, AtStep, Working, jobVars, Stored
    <2> QED BY <2>1 DEF ExportOutcome
  <1>5. ASSUME FailExport(w) PROVE ExportOutcome(w)
    BY <1>5, ExportErrorOutcome, Transient DEF FailExport, AtStep, ExportOutcome
  <1>6. ASSUME LateExportError(w) PROVE ExportOutcome(w)
    BY <1>6, ExportErrorOutcome DEF LateExportError, AtStep, Inject, ExportOutcome
  <1> QED BY <1>1, <1>2, <1>3, <1>4, <1>5, <1>6 DEF ExportStep

\* The cron: dispatch, and recovery of a lapsed lease.
LEMMA RecoveryOutcomes ==
    ASSUME LifecycleInv, RecoveryStep
    PROVE  RecoveryOutcome
  <1>0. job \in JobRow /\ RecoveredRow \in JobRow
    BY RecoveryTyped DEF LifecycleInv, TypeOK, JobOK
  <1>00. RecoveredRow.status = job.status /\ RecoveredRow.lease = "none"
    BY <1>0, RowFields, RowHelpers DEF RecoveredRow, JobRow
  <1>01. ASSUME NEW S \in SUBSET Pending, Publish(S) PROVE Dispatches
    BY <1>01 DEF Publish, Dispatches
  <1> HIDE DEF LifecycleInv
  <1>1. CASE Dispatch
    BY <1>1, <1>01 DEF Dispatch, Dispatched, RecoveryOutcome, jobVars
  <1>2. CASE LeaseExpires
    <2>1. Lands(job.status, "expired")
      BY <1>0, <1>2 DEF LeaseExpires, JobRow, Lands
    <2> QED BY <1>2, <2>1 DEF LeaseExpires, LeaseLapsed, RecoveryOutcome
  <1>3. CASE RecoverExhausted
    <2>1. Lands("FAILED", "none")
      BY <1>0, <1>00, <1>3 DEF RecoverExhausted, JobRow, Lands
    <2> QED BY <1>3, <1>01, <2>1 DEF RecoverExhausted, RecoveryFailed, RecoveryOutcome
  <1>4. CASE RecoverLease
    <2>0. Recoverable /\ UNCHANGED <<running, records, validation, files, store>>
      BY <1>4 DEF RecoverLease
    <2>1. CASE RecoveryTargets = {} /\ RecoverNothing
      <3>1. RecoveredNothing
        BY <1>00, <1>01, <2>0, <2>1 DEF RecoverNothing, RecoveredNothing, Lands, dataVars
      <3> QED BY <3>1 DEF RecoveryOutcome
    <2>2. ASSUME NEW t \in RecoveryTargets, RecoverWork(t) PROVE RecoveryOutcome
      <3>1. /\ RecoveryPhase = "discovery" <=> t \in Pages
            /\ RecoveryPhase = "export" <=> t \in Formats
        <4>1. CASE RecoveryPhase = "discovery"
          BY <4>1, StoreAssumption DEF RecoveryTargets, Foremost
        <4>2. CASE RecoveryPhase = "export"
          BY <4>2, StoreAssumption DEF RecoveryTargets
        <4>3. CASE RecoveryPhase \notin {"discovery", "export"}
          BY <4>3, StoreAssumption DEF RecoveryTargets
        <4> QED BY <4>1, <4>2, <4>3
      <3>2. Recovered(t)
        BY <1>00, <1>01, <2>0, <2>2, <3>1 DEF RecoverWork, Recovered, Lands
      <3> QED BY <3>2 DEF RecoveryOutcome
    <2>3. ASSUME NEW t \in RecoveryTargets, RecoverRolledBack(t) PROVE RecoveryOutcome
      <3>1. Dispatches
        BY <2>3 DEF RecoverRolledBack, Dispatches
      <3>2. Dispatched
        BY <2>0, <2>3, <3>1 DEF RecoverRolledBack, Dispatched, dataVars
      <3> QED BY <3>2 DEF RecoveryOutcome
    <2> QED BY <1>4, <2>1, <2>2, <2>3 DEF RecoverLease
  <1> QED BY <1>1, <1>2, <1>3, <1>4 DEF RecoveryStep

\* Cancel requests, faults and stuttering.
LEMMA OtherOutcomes ==
    ASSUME LifecycleInv, CancelStep \/ FaultStep \/ UNCHANGED vars
    PROVE  OtherOutcome
  <1>1. ASSUME NEW c \in Clients, CancelRead(c) \/ CancelWrite(c) PROVE OtherOutcome
    <2>1. CASE CancelRead(c)
      BY <2>1 DEF CancelRead, NothingToSee, OtherOutcome, jobVars
    <2>2. CASE CancelWrite(c)
      <3>1. Lands("CANCELLED", job.lease)
        BY <2>2 DEF CancelWrite, Lands, LifecycleInv, TypeOK, JobOK, JobRow
      <3> QED BY <2>2, <3>1 DEF CancelWrite, Cancelled, OtherOutcome
    <2> QED BY <1>1, <2>1, <2>2
  <1>2. CASE FaultStep
    BY <1>2 DEF FaultStep, Crash, Abandon, Redeliver, Lose, Inject, jobVars, Stored,
                Crashed, Abandoned, Redelivered, Lost, OtherOutcome
  <1>3. CASE UNCHANGED vars
    BY <1>3 DEF vars, jobVars, queueVars, NothingToSee, OtherOutcome
  <1> QED BY <1>1, <1>2, <1>3 DEF CancelStep

\* Every step of the pipeline has one of these outcomes.
WorkerOutcome(w) ==
    \/ PlanningOutcome(w) \/ DiscoveryOutcome(w) \/ ExtractionOutcome(w)
    \/ ValidationOutcome(w) \/ ExportOutcome(w)

\* No step of the pipeline has another outcome.
LEMMA StepOutcomes ==
    ASSUME LifecycleInv, [Next]_vars
    PROVE  (\E w \in Workers : WorkerOutcome(w)) \/ RecoveryOutcome \/ OtherOutcome
  <1>1. ASSUME NEW w \in Workers, WorkerStep(w) \/ LateExportError(w) PROVE WorkerOutcome(w)
    BY <1>1, PlanningOutcomes, DiscoveryOutcomes, ExtractionOutcomes, ValidationOutcomes,
       ExportOutcomes DEF WorkerStep, WorkerOutcome
  <1> QED BY <1>1, RecoveryOutcomes, OtherOutcomes DEF Next

=============================================================================
