---------------------------- MODULE JobDataProofs ----------------------------
(***************************************************************************)
(* What the pipeline may do to messages, slots, pages, records, results    *)
(* and files: recovery finds work, and no two slots hold the same; nothing *)
(* is added once a job has ended, and no records once its results are      *)
(* fixed; the caps hold; every upload is cleaned up, and a completed job   *)
(* has one file, with its bytes, per format.                               *)
(***************************************************************************)
EXTENDS JobLifecycleProofs, FiniteSetTheorems

-----------------------------------------------------------------------------
(* Slots, messages and the lease *)

\* The lease lapses by itself only, and under a running operation only if the
\* configuration lets it.
LeaseFair ==
    job'.lease = "expired" =>
        job.lease = "expired" \/ StaleLeases \/ \A w \in Workers : running[w] = None

SlotsKept ==
    /\ running' = running /\ LeaseFair
    /\ \A w \in Workers : running[w] # None /\ running[w].cmd \in queue => running[w].cmd \in queue'

SlotFreed(w) ==
    /\ running[w] # None /\ running' = [running EXCEPT ![w] = None]
    /\ queue' \in {queue, queue \ {running[w].cmd}}
    /\ LeaseFair

SlotTaken(w, c, p) ==
    /\ Delivered(w, c, c.type) /\ p \in WorkOf(c.type)
    /\ Begin(w, c, p)
    /\ job'.lease = "live"

\* An export comes a step further.
SlotAdvanced(w) ==
    /\ Working(w, "run_export") /\ queue' = queue /\ LeaseFair
    /\ \E blob \in Blobs, step \in {"stored", "committed"} :
            running' = [running EXCEPT ![w].blob = blob, ![w].step = step]

\* What a step may do to the worker slots.
LEMMA SlotMoves ==
    ASSUME LifecycleInv, [Next]_vars
    PROVE  \/ SlotsKept
           \/ \E w \in Workers : SlotFreed(w) \/ SlotAdvanced(w)
           \/ \E w \in Workers, c \in queue, p \in Target : SlotTaken(w, c, p)
  <1> DEFINE Goal == \/ SlotsKept
                     \/ \E w \in Workers : SlotFreed(w) \/ SlotAdvanced(w)
                     \/ \E w \in Workers, c \in queue, p \in Target : SlotTaken(w, c, p)
  <1>0. RunningOK /\ job \in JobRow
    BY DEF LifecycleInv, TypeOK, JobOK
  <1>1. ASSUME NEW w \in Workers, running[w] # None, Finish(w) \/ Requeue(w), LeaseFair PROVE Goal
    BY <1>1 DEF Finish, Requeue, SlotFreed
  <1>2. ASSUME NEW w \in Workers, NEW c \in queue, TurnedAway(w, c) PROVE Goal
    BY <1>2 DEF TurnedAway, Discard, Delivered, SlotsKept, LeaseFair
  <1>3. ASSUME NEW w \in Workers, NEW c \in queue, NEW type, NEW p, Takes(w, c, type, p) PROVE Goal
    <2>1. c.type = type /\ SlotTaken(w, c, p) /\ p \in Target
      BY <1>3 DEF Takes, Delivered, SlotTaken, WorkOf, Target
    <2> QED BY <2>1
  <1>4. ASSUME NEW w \in Workers, WorkerOutcome(w) PROVE Goal
    <2>1. CASE Ignored(w)
      BY <1>1, <2>1 DEF Ignored, LeaseFair
    <2>2. CASE PlanRetried(w) \/ ValidationRetried(w) \/ PageRetried(w) \/ ReadRetried(w)
      BY <1>1, <2>2 DEF PlanRetried, ValidationRetried, PageRetried, ReadRetried, Retries, Lands,
                        Working, LeaseFair
    <2>3. CASE OperationFailed(w)
      BY <1>1, <2>3 DEF OperationFailed, GivesUp, Lands, Working, LeaseFair
    <2>4. CASE PlanStored(w) \/ PageCaptured(w) \/ ResultsStored(w)
      BY <1>1, <2>4 DEF PlanStored, PageCaptured, ResultsStored, Ends, Lands, Working, LeaseFair
    <2>5. ASSUME NEW inv, NEW next, PageVisited(w, inv, next) \/ PageRead(w, inv, next) PROVE Goal
      BY <1>1, <2>5 DEF PageVisited, PageRead, Ends, Lands, Working, LeaseFair
    <2>6. CASE UploadRefused(w) \/ ExportRetried(w)
      BY <1>1, <2>6 DEF UploadRefused, ExportRetried, Ends, Lands, Working, LeaseFair
    <2>7. ASSUME NEW b \in Blobs, Uploaded(w, b) PROVE SlotAdvanced(w)
      BY <2>7 DEF Uploaded, AtStep, queueVars, LeaseFair, SlotAdvanced
    <2>8. ASSUME FilePublished(w) PROVE SlotAdvanced(w)
      <3>1. /\ running' = [running EXCEPT ![w].blob = running[w].blob, ![w].step = "committed"]
            /\ running[w].blob \in Blobs
        BY <1>0, <2>8 DEF FilePublished, AtStep, Working, RunningOK, Operation
      <3> QED BY <2>8, <3>1 DEF FilePublished, AtStep, queueVars, Lands, LeaseFair, SlotAdvanced
    <2> QED BY <1>2, <1>3, <1>4, <2>1, <2>2, <2>3, <2>4, <2>5, <2>6, <2>7, <2>8
            DEF WorkerOutcome, PlanningOutcome, DiscoveryOutcome, ExtractionOutcome,
                ValidationOutcome, ExportOutcome, PlanClaimed, CaptureClaimed, PageClaimed,
                ReadClaimed, ValidationClaimed, ExportClaimed
  <1>5. CASE RecoveryOutcome
    BY <1>5 DEF RecoveryOutcome, Dispatched, LeaseLapsed, RecoveryFailed, RecoveredNothing,
                Recovered, Dispatches, Lands, queueVars, SlotsKept, LeaseFair
  <1>6. CASE OtherOutcome
    <2>1. CASE Cancelled \/ NothingToSee
      BY <2>1 DEF Cancelled, NothingToSee, Lands, queueVars, SlotsKept, LeaseFair
    <2>2. ASSUME NEW w \in Workers, Crashed(w) \/ Abandoned(w) PROVE Goal
      BY <1>1, <2>2 DEF Crashed, Abandoned, LeaseFair
    <2>3. ASSUME NEW c \in outbox, Redelivered(c) \/ Lost(c) PROVE Goal
      BY <2>3 DEF Redelivered, Lost, SlotsKept, LeaseFair
    <2> QED BY <1>6, <2>1, <2>2, <2>3 DEF OtherOutcome
  <1> QED BY <1>4, <1>5, <1>6, StepOutcomes

\* An executed message stays with arq until its operation ends, and runs in one
\* slot only; where leases do not lapse under an operation, an expired one
\* means that nothing runs.
SlotInv ==
    /\ \A w \in Workers : running[w] # None => running[w].cmd \in queue
    /\ \A v, w \in Workers :
            v # w /\ running[v] # None /\ running[w] # None => running[v].cmd # running[w].cmd
    /\ ~StaleLeases /\ job.lease = "expired" => \A w \in Workers : running[w] = None

\* What a step leaves in the slots: the operations of before, or a new one.
LEMMA SlotEffects ==
    ASSUME LifecycleInv
    PROVE  /\ \A w \in Workers : SlotFreed(w) =>
                running'[w] = None /\ \A v \in Workers \ {w} : running'[v] = running[v]
           /\ \A w \in Workers, c \in queue : \A p : SlotTaken(w, c, p) =>
                /\ running[w] = None
                /\ running'[w] = [cmd |-> c, target |-> p, blob |-> None, step |-> "working"]
                /\ running'[w] # None
                /\ \A v \in Workers \ {w} : running'[v] = running[v]
                /\ queue' = queue
           /\ \A w \in Workers : SlotAdvanced(w) =>
                /\ running'[w] # None
                /\ running'[w].cmd = running[w].cmd /\ running'[w].target = running[w].target
                /\ \A v \in Workers \ {w} : running'[v] = running[v]
                /\ queue' = queue
  <1>0. RunningOK /\ QueueOK
    BY DEF LifecycleInv, TypeOK
  <1>1. ASSUME NEW w \in Workers, NEW c \in queue, NEW p, SlotTaken(w, c, p)
        PROVE  [cmd |-> c, target |-> p, blob |-> None, step |-> "working"] # None
    <2>1. c \in Command /\ p \in WorkOf(c.type)
      BY <1>0, <1>1 DEF QueueOK, SlotTaken
    <2>2. [cmd |-> c, target |-> p, blob |-> None, step |-> "working"] \in Operation
      BY <2>1 DEF Operation, Command, Target, WorkOf
    <2> QED BY <2>2, NullAssumption
  <1>2. ASSUME NEW w \in Workers, SlotAdvanced(w)
        PROVE  /\ running'[w] # None
               /\ running'[w].cmd = running[w].cmd /\ running'[w].target = running[w].target
               /\ \A v \in Workers \ {w} : running'[v] = running[v]
    <2>1. PICK blob \in Blobs, step \in {"stored", "committed"} :
              running' = [running EXCEPT ![w].blob = blob, ![w].step = step]
      BY <1>2 DEF SlotAdvanced
    <2>2. running[w] \in Operation
      BY <1>0, <1>2 DEF SlotAdvanced, Working, RunningOK
    <2>3. running'[w] = [running[w] EXCEPT !.blob = blob, !.step = step]
      BY <1>0, <2>1 DEF RunningOK
    <2>4. running'[w] \in Operation
      BY <2>2, <2>3, StoreAssumption DEF Operation
    <2> QED BY <1>0, <2>1, <2>2, <2>3, <2>4, NullAssumption DEF RunningOK, Operation
  <1> QED BY <1>0, <1>1, <1>2 DEF SlotFreed, SlotTaken, SlotAdvanced, Begin, Delivered, RunningOK

\* SlotInv is inductive.
LEMMA StepSlots ==
    ASSUME LifecycleInv, SlotInv, [Next]_vars
    PROVE  SlotInv'
  <1>0. RunningOK
    BY DEF LifecycleInv, TypeOK
  <1>1. CASE SlotsKept
    BY <1>1 DEF SlotsKept, SlotInv, LeaseFair
  <1>2. ASSUME NEW w \in Workers, SlotFreed(w) PROVE SlotInv'
    <2>1. \A v \in Workers : running'[v] # None => v # w /\ running'[v] = running[v]
      BY <1>2, SlotEffects
    <2> QED BY <1>2, <2>1 DEF SlotFreed, SlotInv, LeaseFair
  <1>3. ASSUME NEW w \in Workers, NEW c \in queue, NEW p \in Target, SlotTaken(w, c, p) PROVE SlotInv'
    <2>1. /\ running'[w] = [cmd |-> c, target |-> p, blob |-> None, step |-> "working"]
          /\ queue' = queue
          /\ \A v \in Workers \ {w} : running'[v] = running[v]
      BY <1>3, SlotEffects
    <2>2. running'[w].cmd = c
      BY <2>1
    <2>3. /\ \A v \in Workers : running[v] # None => running[v].cmd # c
          /\ job'.lease = "live"
      BY <1>3 DEF SlotTaken, Delivered
    <2> QED BY <2>1, <2>2, <2>3 DEF SlotInv
  <1>4. ASSUME NEW w \in Workers, SlotAdvanced(w) PROVE SlotInv'
    <2>1. /\ running'[w].cmd = running[w].cmd /\ queue' = queue /\ running[w] # None
          /\ \A v \in Workers \ {w} : running'[v] = running[v]
      BY <1>4, SlotEffects DEF SlotAdvanced, Working
    <2>2. job'.lease = "expired" => StaleLeases
      BY <1>4, <2>1 DEF SlotAdvanced, SlotInv, LeaseFair
    <2>3. /\ \A v \in Workers : running'[v] # None => running[v] # None
          /\ \A v \in Workers : running'[v] # None => running'[v].cmd = running[v].cmd
      BY <2>1
    <2> QED BY <2>1, <2>2, <2>3 DEF SlotInv
  <1> QED BY <1>1, <1>2, <1>3, <1>4, SlotMoves

-----------------------------------------------------------------------------
(* What a command says of its job *)

\* Statuses a job has left for good once a command of the type exists.
Passed(type) ==
    CASE type = "run_planning"        -> {}
      [] type = "run_browser_capture" -> {"QUEUED", "PLANNING"}
      [] type = "run_discovery"       -> {"QUEUED", "PLANNING", "BROWSER_INITIALIZING"}
      [] type = "run_extraction"      -> {"QUEUED", "PLANNING", "BROWSER_INITIALIZING", "DISCOVERING"}
      [] type = "run_validation"      -> {"QUEUED", "PLANNING", "BROWSER_INITIALIZING", "DISCOVERING",
                                          "EXTRACTING"}
      [] type = "run_export"          -> {"QUEUED", "PLANNING", "BROWSER_INITIALIZING", "DISCOVERING",
                                          "EXTRACTING", "VALIDATING"}

OutboxInv == \A c \in outbox : job.status \notin Passed(c.type)

\* The base of every invariant about the work of a job.
PipelineInv == LifecycleInv /\ SlotInv /\ OutboxInv

\* What a stage leaves behind it stays behind it.
LEMMA PassedForGood ==
    ASSUME LifecycleInv, [Next]_vars, NEW type \in CommandType, job.status \notin Passed(type)
    PROVE  job'.status \notin Passed(type)
  <1>0. job.status \in JobStatus
    BY DEF LifecycleInv, TypeOK, JobOK, JobRow
  <1>1. CASE Still
    BY <1>1 DEF Still
  <1>2. CASE \E c \in Clients : CancelWrite(c)
    <2>1. job'.status = "CANCELLED"
      BY <1>2, CancelWriteEnds DEF LifecycleInv
    <2> QED BY <2>1 DEF Passed, CommandType
  <1>3. CASE Moves
    <2>1. job'.status \in AllowedTransitions[job.status] \ {"READY_FOR_EXPORT"}
      BY <1>3 DEF Moves, MovesTo
    <2>2. \A s \in JobStatus : s \notin Passed(type) =>
                \A to \in AllowedTransitions[s] : to \notin Passed(type)
      BY DEF Passed, CommandType, AllowedTransitions, JobStatus, Active, Terminal
    <2> QED BY <1>0, <2>1, <2>2
  <1> QED BY <1>1, <1>2, <1>3, StepMoves

\* A stage inserts its successor's commands as it leaves; recovery inserts those
\* of the stage the job is in.
LEMMA NewCommands ==
    ASSUME LifecycleInv, [Next]_vars, NEW c \in outbox' \ outbox
    PROVE  job'.status \notin Passed(c.type)
  <1>1. ASSUME NEW w \in Workers, WorkerOutcome(w) PROVE job'.status \notin Passed(c.type)
    <2>1. CASE PlanStored(w)
      BY <2>1 DEF PlanStored, Insert, CaptureCommand, NewCommand, Lands, Passed
    <2>2. CASE PageCaptured(w)
      BY <2>2 DEF PageCaptured, Insert, SourceCommand, NewCommand, Lands, Passed
    <2>3. ASSUME NEW inv, NEW next, PageVisited(w, inv, next) PROVE job'.status \notin Passed(c.type)
      <3>1. c = next /\ (next = ExtractCommand \/ \E p : next = PageCommand(p))
        BY <2>3 DEF PageVisited, Insert, FollowUps
      <3> QED BY <2>3, <3>1 DEF PageVisited, ExtractCommand, PageCommand, NewCommand, Lands, Passed
    <2>4. ASSUME NEW x, NEW next, PageRead(w, x, next) PROVE job'.status \notin Passed(c.type)
      <3>1. c = next /\ (next = ValidateCommand \/ \E p : next = ReadCommand(p))
        BY <2>4 DEF PageRead, Insert, AfterReading
      <3> QED BY <2>4, <3>1 DEF PageRead, ValidateCommand, ReadCommand, NewCommand, Lands, Passed
    <2>5. CASE ResultsStored(w)
      BY <2>5 DEF ResultsStored, ExportCommand, NewCommand, Lands, Passed
    <2>6. CASE outbox' = outbox
      BY <2>6
    <2> QED BY <1>1, <2>1, <2>2, <2>3, <2>4, <2>5, <2>6
            DEF WorkerOutcome, PlanningOutcome, DiscoveryOutcome, ExtractionOutcome,
                ValidationOutcome, ExportOutcome, TurnedAway, Ignored, PlanClaimed, CaptureClaimed,
                PageClaimed, ReadClaimed, ValidationClaimed, ExportClaimed, Takes, PlanRetried,
                ValidationRetried, PageRetried, ReadRetried, Retries, OperationFailed, GivesUp,
                UploadRefused, ExportRetried, Uploaded, FilePublished, Stored, queueVars
  <1>2. ASSUME NEW t \in RecoveryTargets, Recovered(t) PROVE job'.status \notin Passed(c.type)
    <2>1. c.type = RecoveryType[RecoveryPhase] /\ job'.status = job.status /\ job.status \in Active
      BY <1>2 DEF Recovered, Insert, RecoveryCommand, Lands, Recoverable
    <2> QED BY <2>1 DEF RecoveryType, RecoveryPhase, Passed
  <1>3. CASE RecoveryOutcome
    BY <1>2, <1>3 DEF RecoveryOutcome, Dispatched, LeaseLapsed, RecoveryFailed, RecoveredNothing,
                      queueVars
  <1>4. CASE OtherOutcome
    BY <1>4 DEF OtherOutcome, Cancelled, NothingToSee, Crashed, Abandoned, Redelivered, Lost,
                queueVars, Stored
  <1> QED BY <1>1, <1>3, <1>4, StepOutcomes

\* A job is created with its planning command and no operation.
LEMMA InitPipeline == Init => PipelineInv
  <1> SUFFICES ASSUME Init PROVE PipelineInv
    OBVIOUS
  <1>1. SlotInv /\ OutboxInv
    BY DEF Init, QueuedRow, SlotInv, OutboxInv, PlanCommand, NewCommand, Passed
  <1> QED BY <1>1, InitLifecycle DEF PipelineInv

\* PipelineInv is inductive.
LEMMA StepPipeline == PipelineInv /\ [Next]_vars => PipelineInv'
  <1> SUFFICES ASSUME PipelineInv, [Next]_vars PROVE PipelineInv'
    OBVIOUS
  <1>1. LifecycleInv' /\ SlotInv'
    BY StepLifecycle, StepSlots DEF PipelineInv
  <1>2. ASSUME NEW c \in outbox' PROVE job'.status \notin Passed(c.type)
    <2>1. c.type \in CommandType
      BY <1>1 DEF LifecycleInv, TypeOK, QueueOK, Command
    <2>2. CASE c \in outbox
      BY <2>1, <2>2, PassedForGood DEF PipelineInv, OutboxInv
    <2>3. CASE c \notin outbox
      BY <2>3, NewCommands DEF PipelineInv
    <2> QED BY <2>2, <2>3
  <1> QED BY <1>1, <1>2 DEF PipelineInv, OutboxInv

\* Every message and every operation belongs to a stage the job has reached.
LEMMA PipelineInvariant == Spec => []PipelineInv
  BY InitPipeline, StepPipeline, PTL DEF Spec

-----------------------------------------------------------------------------
(* Exports *)

\* Slot w renders or uploads format f and has not published it.
Uncommitted(w, f) ==
    Working(w, "run_export") /\ running[w].target = f /\ running[w].step # "committed"

NoNewUpload == \A v \in Workers, f \in Formats : Uncommitted(v, f)' => Uncommitted(v, f)

ExportsKept ==
    /\ UNCHANGED <<exports, files>>
    /\ job'.status \in {"EXPORTING", "COMPLETED"} => job'.status = job.status
    /\ job'.status = "EXPORTING" /\ job'.lease # "none" => job.lease # "none"
    /\ NoNewUpload

\* A failed or cancelled job has no use for its exports.
ExportsGivenUp ==
    /\ job'.status \notin {"EXPORTING", "COMPLETED"}
    /\ \A f \in Formats : exports'[f].status = "COMPLETED" => exports[f].status = "COMPLETED"
    /\ files' = files

ExportRecovered(t) == Recovered(t) /\ RecoveryPhase = "export"

ExportsWritten ==
    \/ \E w \in Workers : \/ \E c \in queue : ExportClaimed(w, c)
                          \/ ResultsStored(w) \/ FilePublished(w) \/ ExportRetried(w)
    \/ \E t \in RecoveryTargets : ExportRecovered(t)

\* Who writes the export rows and the file rows.
LEMMA ExportChanges ==
    ASSUME PipelineInv, [Next]_vars
    PROVE  ExportsKept \/ ExportsGivenUp \/ ExportsWritten
  <1> DEFINE Goal == ExportsKept \/ ExportsGivenUp \/ ExportsWritten
  <1>0. LifecycleInv /\ RunningOK /\ job.status \in JobStatus
    BY DEF PipelineInv, LifecycleInv, TypeOK, JobOK, JobRow
  <1>1. ASSUME running' = running PROVE NoNewUpload
    BY <1>1 DEF NoNewUpload, Uncommitted, Working
  <1>2. ASSUME NEW w \in Workers, Finish(w) \/ Requeue(w) PROVE NoNewUpload
    <2>1. running'[w] = None /\ \A v \in Workers \ {w} : running'[v] = running[v]
      BY <1>0, <1>2 DEF Finish, Requeue, RunningOK
    <2> QED BY <2>1 DEF NoNewUpload, Uncommitted, Working
  <1>3. ASSUME NEW w \in Workers, NEW c \in queue, NEW type, NEW p, Takes(w, c, type, p),
               type # "run_export"
        PROVE  NoNewUpload
    <2>1. SlotTaken(w, c, p) /\ c.type = type
      BY <1>3 DEF Takes, Delivered, SlotTaken
    <2>2. /\ running'[w] = [cmd |-> c, target |-> p, blob |-> None, step |-> "working"]
          /\ \A v \in Workers \ {w} : running'[v] = running[v]
      BY <1>0, <2>1, SlotEffects
    <2>3. running'[w].cmd.type # "run_export"
      BY <1>3, <2>1, <2>2
    <2> QED BY <2>2, <2>3 DEF NoNewUpload, Uncommitted, Working
  <1>4. ASSUME UNCHANGED <<exports, files>>, NoNewUpload, job'.status = job.status,
               job'.lease \in {job.lease, "none"} \/ job.lease # "none" \/ job.status # "EXPORTING"
        PROVE  Goal
    BY <1>4 DEF ExportsKept
  <1>5. ASSUME UNCHANGED <<exports, files>>, job'.status \notin {"EXPORTING", "COMPLETED"} PROVE Goal
    BY <1>5 DEF ExportsGivenUp
  <1>6. ASSUME NEW w \in Workers, WorkerOutcome(w) PROVE Goal
    <2>1. ASSUME NEW c \in queue, TurnedAway(w, c) PROVE Goal
      <3>1. CASE exports' = exports
        BY <1>1, <1>4, <2>1, <3>1 DEF TurnedAway, Discard
      <3>2. CASE job.status = "CANCELLED"
        BY <2>1, <3>2 DEF TurnedAway, ExportsGivenUp
      <3> QED BY <2>1, <3>1, <3>2 DEF TurnedAway
    <2>2. ASSUME NEW c \in queue, NEW p, \/ PlanClaimed(w, c) \/ CaptureClaimed(w, c)
                                         \/ PageClaimed(w, c, p) \/ ReadClaimed(w, c, p)
                                         \/ ValidationClaimed(w, c)
          PROVE  Goal
      BY <2>2, <1>5 DEF PlanClaimed, CaptureClaimed, PageClaimed, ReadClaimed, ValidationClaimed,
                        dataVars, Derived
    <2>3. CASE Ignored(w) \/ UploadRefused(w)
      BY <1>2, <1>4, <2>3 DEF Ignored, UploadRefused, Ends, dataVars
    <2>4. CASE PlanRetried(w) \/ ValidationRetried(w) \/ PageRetried(w) \/ ReadRetried(w)
      BY <1>5, <2>4 DEF PlanRetried, ValidationRetried, PageRetried, ReadRetried, Retries,
                        Lands, Derived, dataVars
    <2>5. CASE OperationFailed(w)
      BY <2>5 DEF OperationFailed, GivesUp, Lands, ExportsGivenUp
    <2>6. CASE PlanStored(w) \/ PageCaptured(w)
      BY <1>5, <2>6 DEF PlanStored, PageCaptured, Lands, Derived, dataVars
    <2>7. ASSUME NEW inv, NEW next, PageVisited(w, inv, next) \/ PageRead(w, inv, next) PROVE Goal
      BY <1>5, <2>7 DEF PageVisited, PageRead, Lands, Derived
    <2>8. ASSUME NEW b \in Blobs, Uploaded(w, b) PROVE Goal
      <3>1. running[w] \in Operation /\ Working(w, "run_export") /\ running[w].step = "working"
        BY <1>0, <2>8 DEF Uploaded, AtStep, Working, RunningOK
      <3>2. running'[w].target = running[w].target
        BY <1>0, <2>8, <3>1 DEF Uploaded, RunningOK, Operation
      <3>3. \A v \in Workers \ {w} : running'[v] = running[v]
        BY <1>0, <2>8 DEF Uploaded, RunningOK
      <3>4. NoNewUpload
        BY <3>1, <3>2, <3>3 DEF NoNewUpload, Uncommitted, Working
      <3> QED BY <1>4, <2>8, <3>4 DEF Uploaded
    <2> QED BY <1>6, <2>1, <2>2, <2>3, <2>4, <2>5, <2>6, <2>7, <2>8
            DEF WorkerOutcome, PlanningOutcome, DiscoveryOutcome, ExtractionOutcome,
                ValidationOutcome, ExportOutcome, ExportsWritten
  <1>7. CASE RecoveryOutcome
    <2>1. ASSUME NEW t \in RecoveryTargets, Recovered(t) PROVE Goal
      <3>1. CASE RecoveryPhase = "export"
        BY <2>1, <3>1 DEF ExportRecovered, ExportsWritten
      <3>2. CASE RecoveryPhase # "export"
        BY <1>1, <1>4, <2>1, <3>2 DEF Recovered, Lands
      <3> QED BY <3>1, <3>2
    <2>2. CASE Dispatched \/ LeaseLapsed \/ RecoveredNothing
      BY <1>1, <1>4, <2>2 DEF Dispatched, LeaseLapsed, RecoveredNothing, Lands, dataVars
    <2>3. CASE RecoveryFailed
      BY <1>5, <2>3 DEF RecoveryFailed, Lands, dataVars
    <2> QED BY <1>7, <2>1, <2>2, <2>3 DEF RecoveryOutcome
  <1>8. CASE OtherOutcome
    <2>1. CASE Cancelled
      BY <1>5, <2>1 DEF Cancelled, Lands, dataVars
    <2>2. CASE NothingToSee
      BY <1>1, <1>4, <2>2 DEF NothingToSee, dataVars
    <2>3. ASSUME NEW w \in Workers, Crashed(w) \/ Abandoned(w) PROVE Goal
      BY <1>2, <1>4, <2>3 DEF Crashed, Abandoned, dataVars
    <2>4. ASSUME NEW c \in outbox, Redelivered(c) \/ Lost(c) PROVE Goal
      BY <1>1, <1>4, <2>4 DEF Redelivered, Lost, dataVars
    <2> QED BY <1>8, <2>1, <2>2, <2>3, <2>4 DEF OtherOutcome
  <1>9. Goal
    BY <1>0, <1>6, <1>7, <1>8, StepOutcomes
  <1> QED BY <1>9

-----------------------------------------------------------------------------
(* A completed job delivers *)

-----------------------------------------------------------------------------
(* Stages *)

\* The operations that move a job or a unit of its work.
Progresses ==
    \/ \E w \in Workers :
        \/ \E c \in queue : \/ PlanClaimed(w, c) \/ CaptureClaimed(w, c)
                            \/ ValidationClaimed(w, c) \/ ExportClaimed(w, c)
                            \/ \E p \in Pages : PageClaimed(w, c, p) \/ ReadClaimed(w, c, p)
        \/ PlanStored(w) \/ PageCaptured(w) \/ ResultsStored(w) \/ FilePublished(w)
        \/ \E inv, next : PageVisited(w, inv, next) \/ PageRead(w, inv, next)
        \/ PlanRetried(w) \/ PageRetried(w) \/ ReadRetried(w) \/ ValidationRetried(w)
        \/ ExportRetried(w) \/ UploadRefused(w) \/ \E b \in Blobs : Uploaded(w, b)
    \/ RecoveredNothing \/ \E t \in RecoveryTargets : Recovered(t)

\* An operation of the type ends and leaves its unit of work as it is.
Slips(type) ==
    \E w \in Workers : Working(w, type) /\ (Ignored(w) \/ Crashed(w) \/ Abandoned(w))

\* A message of the type is dropped or comes back.
Misdelivered(type) ==
    \/ \E w \in Workers, c \in queue : c.type = type /\ TurnedAway(w, c)
    \/ \E c \in outbox : c.type = type /\ (Lost(c) \/ Redelivered(c))

\* The step leaves the operations and messages of the type alone.
Undisturbed(type) ==
    /\ job'.status = job.status
    /\ job'.lease = job.lease \/ LeaseLapsed
    /\ \A w \in Workers : Working(w, type) \/ Working(w, type)' => running'[w] = running[w]
    /\ UNCHANGED <<outbox, pages, validation, exports>>
    /\ \/ Dispatched
       \/ published' = published /\ \A c \in outbox : c.type = type => (c \in queue' <=> c \in queue)

\* A step moves work of some stage, disturbs a message or an operation of the
\* type, leaves the type alone, or ends the job.
LEMMA StageSteps ==
    ASSUME PipelineInv, [Next]_vars, NEW type \in CommandType
    PROVE  \/ Progresses \/ Slips(type) \/ Misdelivered(type) \/ Undisturbed(type)
           \/ job'.status \in {"FAILED", "CANCELLED"}
  <1> DEFINE Goal == \/ Progresses \/ Slips(type) \/ Misdelivered(type) \/ Undisturbed(type)
                     \/ job'.status \in {"FAILED", "CANCELLED"}
  <1>0. LifecycleInv /\ RunningOK /\ QueueOK
    BY DEF PipelineInv, LifecycleInv, TypeOK
  \* An operation of another type ends.
  <1>1. ASSUME NEW w \in Workers, running[w] # None, ~Working(w, type), Finish(w) \/ Requeue(w),
               job' = job, UNCHANGED <<Stored, dataVars>>
        PROVE  Undisturbed(type)
    <2>1. running'[w] = None /\ \A v \in Workers \ {w} : running'[v] = running[v]
      BY <1>0, <1>1 DEF Finish, Requeue, RunningOK
    <2>2. \A v \in Workers : Working(v, type) \/ Working(v, type)' => running'[v] = running[v]
      BY <1>1, <2>1 DEF Working
    <2>3. \A c \in outbox : c.type = type => (c \in queue' <=> c \in queue)
      BY <1>1 DEF Finish, Requeue, Working
    <2> QED BY <1>1, <2>2, <2>3 DEF Undisturbed, Stored, dataVars
  \* A message of another type moves.
  <1>2. ASSUME running' = running, job' = job, UNCHANGED <<Stored, dataVars>>,
               \A c \in outbox : c.type = type => (c \in queue' <=> c \in queue)
        PROVE  Undisturbed(type)
    BY <1>2 DEF Undisturbed, Stored, dataVars, Working
  <1>3. ASSUME NEW w \in Workers, NEW c \in queue, TurnedAway(w, c) PROVE Goal
    <2>1. CASE c.type = type
      BY <1>3, <2>1 DEF Misdelivered
    <2>2. CASE job.status = "CANCELLED"
      BY <1>3, <2>2 DEF TurnedAway
    <2>3. CASE c.type # type /\ exports' = exports
      BY <1>2, <1>3, <2>3 DEF TurnedAway, Discard, dataVars
    <2> QED BY <1>3, <2>1, <2>2, <2>3 DEF TurnedAway
  <1>4. ASSUME NEW w \in Workers, running[w] # None, Ignored(w) \/ Crashed(w) \/ Abandoned(w) PROVE Goal
    <2>1. CASE Working(w, type)
      BY <1>4, <2>1 DEF Slips
    <2>2. CASE ~Working(w, type)
      BY <1>1, <1>4, <2>2 DEF Ignored, Crashed, Abandoned
    <2> QED BY <2>1, <2>2
  <1>5. ASSUME NEW w \in Workers, WorkerOutcome(w) PROVE Goal
    <2>1. CASE Ignored(w)
      BY <1>4, <2>1 DEF Ignored
    <2>2. CASE OperationFailed(w)
      BY <2>2 DEF OperationFailed, GivesUp, Lands
    <2> QED BY <1>3, <1>5, <2>1, <2>2
            DEF WorkerOutcome, PlanningOutcome, DiscoveryOutcome, ExtractionOutcome,
                ValidationOutcome, ExportOutcome, Progresses
  <1>6. CASE RecoveryOutcome
    <2>1. CASE Dispatched
      BY <2>1 DEF Dispatched, Undisturbed, dataVars, Working
    <2>2. CASE LeaseLapsed
      BY <2>2 DEF LeaseLapsed, Lands, Undisturbed, dataVars, queueVars, Working
    <2>3. CASE RecoveryFailed
      BY <2>3 DEF RecoveryFailed, Lands
    <2> QED BY <1>6, <2>1, <2>2, <2>3 DEF RecoveryOutcome, Progresses
  <1>7. CASE OtherOutcome
    <2>1. CASE Cancelled
      BY <2>1 DEF Cancelled, Lands
    <2>2. CASE NothingToSee
      BY <1>2, <2>2 DEF NothingToSee, queueVars, Stored
    <2>3. ASSUME NEW c \in outbox, Redelivered(c) \/ Lost(c) PROVE Goal
      <3>1. CASE c.type = type
        BY <2>3, <3>1 DEF Misdelivered
      <3>2. CASE c.type # type
        BY <1>2, <2>3, <3>2 DEF Redelivered, Lost
      <3> QED BY <3>1, <3>2
    <2> QED BY <1>4, <1>7, <2>1, <2>2, <2>3 DEF OtherOutcome, Crashed, Abandoned
  <1> QED BY <1>0, <1>5, <1>6, <1>7, StepOutcomes

-----------------------------------------------------------------------------
(* Recovery *)

\* A lease outside the loops of discovery and export may lapse at any time;
\* within them it covers work that recovery can take up again.
WorkLeftInv ==
    /\ job.status = "DISCOVERING" => \E p \in Pages : pages[p].status \in {"QUEUED", "DISCOVERED"}
    /\ job.status = "EXPORTING" /\ job.lease # "none" =>
            \E f \in Formats : exports[f].status = "RUNNING"

\* The least-element principle, from the well-foundedness of < on Nat.
LEMMA LeastNatural ==
    ASSUME NEW S \in SUBSET Nat, S # {}
    PROVE  \E n \in S : \A m \in S : n <= m
  <1> DEFINE R == {p \in Nat \X Nat : p[1] < p[2]}
  <1>1. IsWellFoundedOn(R, Nat)
    <2> SUFFICES ASSUME NEW f \in [Nat -> Nat], \A n \in Nat : <<f[n+1], f[n]>> \in R
                 PROVE  FALSE
      BY DEF IsWellFoundedOn
    <2> QED BY NatLessThanWellFounded DEF OpToRel, IsWellFoundedOn
  <1>2. PICK x \in S : \A y \in S : ~ (<<y, x>> \in R)
    <2> HIDE DEF R
    <2> QED BY <1>1, WFMin
  <1>3. ASSUME NEW y \in S PROVE x <= y
    <2>1. <<y, x>> \notin R
      BY <1>2
    <2>2. ~(y < x)
      BY <2>1
    <2> QED BY <2>2
  <1> QED BY <1>3

\* A non-empty set of rows has a first one.
LEMMA ForemostExists ==
    ASSUME NEW inv \in [Pages -> PageRow], NEW left \in SUBSET Pages, left # {}
    PROVE  Foremost(left, inv) # {}
  <1> DEFINE S == {inv[p].depth : p \in left}
  <1>0. \A p \in left : inv[p].depth \in Nat /\ Rank[p] \in Nat
    BY StoreAssumption DEF PageRow
  <1>1. S \in SUBSET Nat /\ S # {}
    BY <1>0
  <1>2. PICK n \in S : \A m \in S : n <= m
    <2> HIDE DEF S
    <2> QED BY <1>1, LeastNatural
  <1> DEFINE level == {p \in left : inv[p].depth = n}
             R == {Rank[p] : p \in level}
  <1>3. R \in SUBSET Nat /\ R # {}
    BY <1>0, <1>2
  <1>4. PICK k \in R : \A m \in R : k <= m
    <2> HIDE DEF R
    <2> QED BY <1>3, LeastNatural
  <1>5. PICK p \in level : k = Rank[p]
    BY <1>4
  <1>6. ASSUME NEW q \in left
        PROVE  \/ inv[p].depth < inv[q].depth
               \/ inv[p].depth = inv[q].depth /\ Rank[p] <= Rank[q]
    <2>1. n <= inv[q].depth /\ inv[p].depth = n
      BY <1>2, <1>5
    <2>2. CASE inv[q].depth = n
      <3>1. Rank[p] <= Rank[q]
        BY <1>4, <1>5, <2>2
      <3> QED BY <2>1, <2>2, <3>1
    <2>3. CASE inv[q].depth # n
      BY <1>0, <2>1, <2>3
    <2> QED BY <2>2, <2>3
  <1>7. p \in Foremost(left, inv)
    BY <1>6 DEF Foremost
  <1> QED BY <1>7

\* Work that is left makes a target for recovery.
LEMMA TargetsExist ==
    ASSUME PipelineInv, WorkLeftInv
    PROVE  RecoveryFindsWork
  <1> SUFFICES ASSUME Recoverable PROVE RecoveryTargets # {}
    BY DEF RecoveryFindsWork
  <1>0. pages \in [Pages -> PageRow]
    BY DEF PipelineInv, LifecycleInv, TypeOK, DataOK
  <1>1. CASE job.status = "DISCOVERING"
    <2> DEFINE left == {p \in Pages : pages[p].status \in {"QUEUED", "DISCOVERED"}}
    <2>1. left # {} /\ left \in SUBSET Pages
      BY <1>1 DEF WorkLeftInv
    <2>2. RecoveryTargets = Foremost(left, pages)
      BY <1>1 DEF RecoveryTargets, RecoveryPhase
    <2> QED BY <1>0, <2>1, <2>2, ForemostExists
  <1>2. CASE job.status = "EXPORTING"
    BY <1>2 DEF WorkLeftInv, Recoverable, RecoveryTargets, RecoveryPhase
  <1>3. CASE job.status \notin {"DISCOVERING", "EXPORTING"}
    BY <1>3 DEF RecoveryTargets, RecoveryPhase
  <1> QED BY <1>1, <1>2, <1>3

\* WorkLeftInv is inductive.
LEMMA StepWorkLeft ==
    ASSUME PipelineInv, WorkLeftInv, [Next]_vars
    PROVE  WorkLeftInv'
  <1>0. LifecycleInv /\ RunningOK /\ QueueOK
        /\ exports \in [Formats -> ExportRow] /\ pages \in [Pages -> PageRow]
    BY DEF PipelineInv, LifecycleInv, TypeOK, DataOK
  <1>1. ASSUME job'.status = "DISCOVERING"
        PROVE  \E p \in Pages : pages'[p].status \in {"QUEUED", "DISCOVERED"}
    <2>1. ASSUME NEW p \in Pages, NEW s \in {"QUEUED", "DISCOVERED"}, NEW row \in PageRow,
                 pages' = [pages EXCEPT ![p] = row], row.status = s
          PROVE  \E q \in Pages : pages'[q].status \in {"QUEUED", "DISCOVERED"}
      BY <1>0, <2>1
    <2>2. ASSUME NEW p \in Pages, NEW s \in {"QUEUED", "DISCOVERED"},
                 pages' = [pages EXCEPT ![p].status = s]
          PROVE  \E q \in Pages : pages'[q].status \in {"QUEUED", "DISCOVERED"}
      <3>1. [pages[p] EXCEPT !.status = s] \in PageRow /\ [pages[p] EXCEPT !.status = s].status = s
        BY <1>0 DEF PageRow, PageStatus
      <3>2. pages' = [pages EXCEPT ![p] = [pages[p] EXCEPT !.status = s]]
        BY <1>0, <2>2
      <3> HIDE DEF PageRow
      <3> QED BY <2>1, <3>1, <3>2
    <2>3. CASE Undisturbed("run_discovery") \/ Slips("run_discovery") \/ Misdelivered("run_discovery")
      <3>1. job'.status = job.status /\ pages' = pages
        BY <2>3 DEF Undisturbed, Slips, Misdelivered, Ignored, Crashed, Abandoned, TurnedAway, Lost,
                    Redelivered, dataVars
      <3> QED BY <1>1, <3>1 DEF WorkLeftInv
    <2>4. CASE Progresses
      <3>1. ASSUME NEW w \in Workers, PageCaptured(w)
            PROVE  pages'[SourcePage].status = "DISCOVERED"
        BY <1>0, <3>1, StoreAssumption DEF PageCaptured, PageRow
      <3>2. ASSUME NEW w \in Workers, NEW inv, NEW next, PageVisited(w, inv, next)
            PROVE  \E p \in Pages : pages'[p].status = "DISCOVERED"
        <4>1. next # ExtractCommand /\ pages' = inv /\ next \in FollowUps(inv)
          BY <1>1, <3>2 DEF PageVisited, Lands
        <4>2. Foremost(WithStatus(inv, "DISCOVERED"), inv) # {}
          BY <4>1 DEF FollowUps
        <4> QED BY <4>1, <4>2 DEF Foremost, WithStatus
      <3>3. ASSUME NEW w \in Workers, NEW c \in queue, NEW p \in Pages, PageClaimed(w, c, p)
            PROVE  \E q \in Pages : pages'[q].status \in {"QUEUED", "DISCOVERED"}
        BY <2>2, <3>3 DEF PageClaimed
      <3>4. ASSUME NEW w \in Workers, PageRetried(w)
            PROVE  \E q \in Pages : pages'[q].status \in {"QUEUED", "DISCOVERED"}
        <4>1. running[w].cmd.target \in Pages
          BY <1>0, <3>4 DEF PageRetried, Retries, Working, RunningOK, Operation, Command, WorkOf
        <4> QED BY <2>2, <3>4, <4>1 DEF PageRetried
      <3>5. ASSUME NEW t \in RecoveryTargets, Recovered(t)
            PROVE  \E q \in Pages : pages'[q].status \in {"QUEUED", "DISCOVERED"}
        <4>1. RecoveryPhase = "discovery" /\ t \in Pages
          BY <1>1, <3>5 DEF Recovered, Lands, RecoveryPhase, RecoveryTargets, Foremost
        <4> QED BY <2>2, <3>5, <4>1 DEF Recovered
      <3>6. CASE pages' = pages /\ job.status = "DISCOVERING"
        BY <3>6 DEF WorkLeftInv
      <3> QED BY <1>1, <2>4, <3>1, <3>2, <3>3, <3>4, <3>5, <3>6, StoreAssumption
              DEF Progresses, PlanClaimed, CaptureClaimed, ValidationClaimed, ExportClaimed,
                  ReadClaimed, PlanStored, ResultsStored, FilePublished, PageRead, PlanRetried,
                  ReadRetried, ValidationRetried, Retries, ExportRetried, UploadRefused, Uploaded,
                  RecoveredNothing, Lands, dataVars
    <2> QED BY <1>1, <2>3, <2>4, StageSteps DEF CommandType
  <1>2. ASSUME job'.status = "EXPORTING", job'.lease # "none"
        PROVE  \E f \in Formats : exports'[f].status = "RUNNING"
    <2>1. CASE ExportsKept
      BY <1>2, <2>1 DEF ExportsKept, WorkLeftInv
    <2>2. ASSUME NEW w \in Workers, NEW c \in queue, ExportClaimed(w, c)
          PROVE  exports'[c.target].status = "RUNNING" /\ c.target \in Formats
      BY <1>0, <2>2 DEF ExportClaimed, Takes, WorkOf, ExportRow
    <2> QED BY <1>2, <2>1, <2>2, ExportChanges
            DEF ExportsGivenUp, ExportsWritten, ResultsStored, FilePublished, ExportRetried,
                ExportRecovered, Recovered, Lands
  <1> QED BY <1>1, <1>2 DEF WorkLeftInv

\* RecoveryFindsWork: an abandoned discovery or export lease always finds a
\* page or an export to queue again, for every configuration and every fault.
THEOREM RecoveryIsNeverIdle == Spec => []RecoveryFindsWork
  <1>1. Init => WorkLeftInv
    BY DEF Init, QueuedRow, WorkLeftInv
  <1>2. PipelineInv /\ WorkLeftInv /\ [Next]_vars => WorkLeftInv'
    BY StepWorkLeft
  <1>3. PipelineInv /\ WorkLeftInv => RecoveryFindsWork
    BY TargetsExist
  <1> QED BY <1>1, <1>2, <1>3, PipelineInvariant, PTL DEF Spec

-----------------------------------------------------------------------------
(* What a visit adds to the inventory *)

\* Rows are added to the inventory and none is written again.
Extended(old, inv) ==
    /\ inv \in [Pages -> PageRow]
    /\ \A q \in Pages : \/ inv[q] = old[q]
                        \/ /\ old[q].status = "absent"
                           /\ inv[q].status \in {"DISCOVERED", "SKIPPED", "REJECTED"}
                           /\ inv[q].extraction = "none"

\* Additions add up.
LEMMA ExtendedTwice ==
    ASSUME NEW a, NEW b, NEW c, Extended(a, b), Extended(b, c)
    PROVE  Extended(a, c)
  BY DEF Extended

\* _persist_discovery_candidates writes rows for new URLs only.
LEMMA PersistedExtends ==
    ASSUME NEW inv \in [Pages -> PageRow], NEW S, NEW keep, NEW depth \in Nat,
           NEW over \in {"SKIPPED", "REJECTED"}
    PROVE  Extended(inv, Persisted(inv, S, keep, depth, over))
  <1> DEFINE new == Persisted(inv, S, keep, depth, over)
             row(q) == [status |-> IF q \in keep THEN "DISCOVERED" ELSE over,
                        depth |-> depth, extraction |-> "none"]
  <1>1. ASSUME NEW q \in Pages
        PROVE  row(q) \in PageRow /\ row(q).status \in {"DISCOVERED", "SKIPPED", "REJECTED"}
               /\ row(q).extraction = "none"
    BY DEF PageRow, PageStatus, ExtractionStatus
  <1>2. ASSUME NEW q \in Pages
        PROVE  new[q] = IF q \in S /\ inv[q].status = "absent" THEN row(q) ELSE inv[q]
    BY DEF Persisted
  <1>3. new \in [Pages -> PageRow]
    <2>1. new = [q \in Pages |-> IF q \in S /\ inv[q].status = "absent" THEN row(q) ELSE inv[q]]
      BY DEF Persisted
    <2> HIDE DEF new, row
    <2> QED BY <1>1, <2>1
  <1> HIDE DEF new, row
  <1>4. Extended(inv, new)
    BY <1>1, <1>2, <1>3 DEF Extended
  <1> QED BY <1>4 DEF new

\* A visit marks its page and adds rows to the inventory.
LEMMA VisitExtends ==
    ASSUME pages \in [Pages -> PageRow], NEW p \in Pages, NEW result \in VisitOutcomes(p)
    PROVE  Extended([pages EXCEPT ![p].status = "VISITED"], result)
  <1> DEFINE visited == [pages EXCEPT ![p].status = "VISITED"]
             depth   == pages[p].depth + 1
             absent  == WithStatus(pages, "absent")
             inDepth == IF depth <= MaxDepth THEN absent ELSE {}
             refused == IF p = SitemapPage THEN absent ELSE inDepth
             linked  == UNION {{Persisted(visited, S, K, depth, "SKIPPED")
                                  : K \in Admitted(visited, S)} : S \in SUBSET inDepth}
             scoped  == {Persisted(inv, R, {}, depth, "REJECTED")
                           : inv \in linked, R \in SUBSET refused}
             probed(inv) == {Persisted(inv, {SitemapPage}, K, 1, "SKIPPED")
                               : K \in Admitted(inv, {SitemapPage})}
  <1>1. depth \in Nat /\ visited \in [Pages -> PageRow]
    BY DEF PageRow, PageStatus
  <1>2. ASSUME NEW inv \in linked PROVE Extended(visited, inv)
    <2>1. PICK S \in SUBSET inDepth : \E K \in Admitted(visited, S) :
                inv = Persisted(visited, S, K, depth, "SKIPPED")
      BY <1>2
    <2>2. PICK K \in Admitted(visited, S) : inv = Persisted(visited, S, K, depth, "SKIPPED")
      BY <2>1
    <2> HIDE DEF visited, depth, inDepth
    <2> QED BY <1>1, <2>2, PersistedExtends
  <1>3. ASSUME NEW inv \in scoped PROVE Extended(visited, inv)
    <2> HIDE DEF linked, refused, depth, visited
    <2>1. PICK before \in linked, R \in SUBSET refused :
                inv = Persisted(before, R, {}, depth, "REJECTED")
      BY <1>3
    <2>2. Extended(visited, before)
      BY <1>2
    <2>3. Extended(before, inv)
      BY <1>1, <2>1, <2>2, PersistedExtends DEF Extended
    <2> QED BY <2>2, <2>3, ExtendedTwice
  <1>4. ASSUME NEW before \in scoped, NEW inv \in probed(before) PROVE Extended(visited, inv)
    <2>1. PICK K \in Admitted(before, {SitemapPage}) :
                inv = Persisted(before, {SitemapPage}, K, 1, "SKIPPED")
      BY <1>4
    <2> HIDE DEF scoped, visited
    <2>2. Extended(visited, before)
      BY <1>3
    <2>3. Extended(before, inv)
      BY <2>1, <2>2, PersistedExtends DEF Extended
    <2> QED BY <2>2, <2>3, ExtendedTwice
  <1>5. VisitOutcomes(p) =
          IF ProbesSitemap(pages, p) THEN UNION {probed(inv) : inv \in scoped} ELSE scoped
    BY DEF VisitOutcomes
  <1> HIDE DEF scoped, probed, visited
  <1>6. Extended(visited, result)
    BY <1>3, <1>4, <1>5
  <1> QED BY <1>6 DEF visited

\* The page row a visit leaves behind, and those it keeps.
LEMMA VisitKeeps ==
    ASSUME pages \in [Pages -> PageRow], NEW p \in Pages, NEW inv \in VisitOutcomes(p),
           pages[p].status # "absent"
    PROVE  /\ inv \in [Pages -> PageRow]
           /\ inv[p].status = "VISITED" /\ inv[p].extraction = pages[p].extraction
           /\ \A q \in Pages \ {p} :
                \/ inv[q] = pages[q]
                \/ /\ pages[q].status = "absent"
                   /\ inv[q].status \in {"DISCOVERED", "SKIPPED", "REJECTED"}
                   /\ inv[q].extraction = "none"
  <1> DEFINE visited == [pages EXCEPT ![p].status = "VISITED"]
  <1>1. Extended(visited, inv)
    BY VisitExtends
  <1>2. visited[p].status = "VISITED" /\ visited[p].extraction = pages[p].extraction
    BY DEF PageRow
  <1>3. \A q \in Pages \ {p} : visited[q] = pages[q]
    OBVIOUS
  <1> HIDE DEF visited
  <1> QED BY <1>1, <1>2, <1>3 DEF Extended

-----------------------------------------------------------------------------
(* Claims *)

\* No slot holds an operation it did not hold before.
NoNewWork ==
    \A v \in Workers : running'[v] # None =>
        /\ running[v] # None
        /\ running'[v].cmd = running[v].cmd /\ running'[v].target = running[v].target

Claimed(w, c) ==
    \/ PlanClaimed(w, c) \/ CaptureClaimed(w, c) \/ ValidationClaimed(w, c) \/ ExportClaimed(w, c)
    \/ \E p \in Pages : PageClaimed(w, c, p) \/ ReadClaimed(w, c, p)

\* Only a claim puts an operation into a slot.
LEMMA WorkBegins ==
    ASSUME PipelineInv, [Next]_vars
    PROVE  NoNewWork \/ \E w \in Workers, c \in queue : Claimed(w, c)
  <1> DEFINE Goal == NoNewWork \/ \E w \in Workers, c \in queue : Claimed(w, c)
             Idle == \A v \in Workers : running[v] = None => running'[v] = None
  <1>0. LifecycleInv /\ RunningOK
    BY DEF PipelineInv, LifecycleInv, TypeOK
  <1>1. ASSUME NEW w \in Workers, running[w] # None, Finish(w) \/ Requeue(w) PROVE Idle
    BY <1>0, <1>1 DEF Finish, Requeue, RunningOK
  <1>2. (\E w \in Workers, c \in queue : Claimed(w, c)) \/ Idle
    <2>1. ASSUME NEW w \in Workers, WorkerOutcome(w)
          PROVE  (\E c \in queue : Claimed(w, c)) \/ Idle
      <3>1. ASSUME NEW c \in queue, TurnedAway(w, c) PROVE Idle
        BY <3>1 DEF TurnedAway, Discard
      <3>2. CASE Ignored(w) \/ PlanRetried(w) \/ PageRetried(w) \/ ReadRetried(w)
                 \/ ValidationRetried(w) \/ OperationFailed(w)
        BY <1>1, <3>2 DEF Ignored, PlanRetried, PageRetried, ReadRetried, ValidationRetried,
                          Retries, OperationFailed, GivesUp, Working
      <3>3. CASE PlanStored(w) \/ PageCaptured(w) \/ ResultsStored(w)
        BY <1>1, <3>3 DEF PlanStored, PageCaptured, ResultsStored, Ends, Working
      <3>4. ASSUME NEW inv, NEW next, PageVisited(w, inv, next) \/ PageRead(w, inv, next) PROVE Idle
        BY <1>1, <3>4 DEF PageVisited, PageRead, Ends, Working
      <3>5. CASE UploadRefused(w) \/ ExportRetried(w)
        BY <1>1, <3>5 DEF UploadRefused, ExportRetried, Ends, Working
      <3>6. ASSUME NEW b \in Blobs, Uploaded(w, b) PROVE Idle
        BY <1>0, <3>6 DEF Uploaded, AtStep, Working, RunningOK
      <3>7. CASE FilePublished(w)
        BY <1>0, <3>7 DEF FilePublished, AtStep, Working, RunningOK
      <3> QED BY <2>1, <3>1, <3>2, <3>3, <3>4, <3>5, <3>6, <3>7
              DEF WorkerOutcome, PlanningOutcome, DiscoveryOutcome, ExtractionOutcome,
                  ValidationOutcome, ExportOutcome, Claimed
    <2>2. CASE RecoveryOutcome
      BY <2>2 DEF RecoveryOutcome, Dispatched, LeaseLapsed, RecoveryFailed, RecoveredNothing,
                  Recovered
    <2>3. CASE OtherOutcome
      BY <1>1, <2>3 DEF OtherOutcome, Cancelled, NothingToSee, Crashed, Abandoned, Redelivered, Lost
    <2> QED BY <1>0, <2>1, <2>2, <2>3, StepOutcomes
  <1>3. ASSUME Idle PROVE NoNewWork
    <2>1. CASE SlotsKept
      BY <2>1 DEF SlotsKept, NoNewWork
    <2>2. ASSUME NEW w \in Workers, SlotFreed(w) PROVE NoNewWork
      BY <1>0, <2>2, SlotEffects DEF NoNewWork
    <2>3. ASSUME NEW w \in Workers, SlotAdvanced(w) PROVE NoNewWork
      <3>1. running[w] # None
        BY <2>3 DEF SlotAdvanced, Working
      <3> QED BY <1>0, <2>3, <3>1, SlotEffects DEF NoNewWork
    <2>4. ASSUME NEW w \in Workers, NEW c \in queue, NEW p \in Target, SlotTaken(w, c, p) PROVE FALSE
      BY <1>0, <1>3, <2>4, SlotEffects
    <2> QED BY <1>0, <2>1, <2>2, <2>3, <2>4, SlotMoves
  <1> QED BY <1>2, <1>3

\* A unit of work of the type has been claimed, and is not up for another claim.
Held(type, p) ==
    CASE type = "run_planning"   -> /\ job.status # "QUEUED"
                                    /\ job.status = "PLANNING" => job.lease = "live"
      [] type = "run_discovery"  -> job.status = "DISCOVERING" => pages[p].status = "QUEUED"
      [] type = "run_extraction" -> job.status = "EXTRACTING" => pages[p].extraction = "EXTRACTING"
      [] type = "run_export"     -> job.status = "EXPORTING" => exports[p].status # "QUEUED"
      [] OTHER -> TRUE

\* What an operation works on is held, and its command names it.
ClaimInv ==
    /\ \A w \in Workers : running[w] # None =>
        /\ Held(running[w].cmd.type, running[w].target)
        /\ running[w].cmd.target \in {None, running[w].target}
        /\ running[w].cmd.type # "run_extraction" => running[w].cmd.target = running[w].target
    /\ WorkIsClaimedOnce

\* The status each of these operations leaves the job in.
LEMMA Landings ==
    /\ \A w \in Workers, c \in queue :
        /\ PlanClaimed(w, c) => job'.status = "PLANNING" /\ job'.lease = "live"
        /\ CaptureClaimed(w, c) => job'.status = "BROWSER_INITIALIZING"
        /\ \A p \in Pages : PageClaimed(w, c, p) => job'.status = "DISCOVERING"
        /\ \A p \in Pages : ReadClaimed(w, c, p) => job'.status = "EXTRACTING"
        /\ ValidationClaimed(w, c) => job'.status = "VALIDATING"
        /\ ExportClaimed(w, c) => job'.status = "EXPORTING"
    /\ \A w \in Workers :
        /\ PlanStored(w) => job'.status = "BROWSER_INITIALIZING"
        /\ PageCaptured(w) => job'.status = "DISCOVERING"
        /\ \A inv, next : PageVisited(w, inv, next) => job'.status \in {"DISCOVERING", "EXTRACTING"}
        /\ \A x, next : PageRead(w, x, next) => job'.status \in {"EXTRACTING", "VALIDATING"}
        /\ ResultsStored(w) => job'.status = "EXPORTING"
        /\ FilePublished(w) => job'.status \in {"EXPORTING", "COMPLETED"}
        /\ PlanRetried(w) => job'.status = "PLANNING"
        /\ PageRetried(w) => job'.status = "DISCOVERING"
        /\ ReadRetried(w) => job'.status = "EXTRACTING"
        /\ ValidationRetried(w) => job'.status = "VALIDATING"
        /\ ExportRetried(w) => job'.status = "EXPORTING"
        /\ UploadRefused(w) => UNCHANGED <<job, outbox, published, pages, validation, exports>>
        /\ \A b \in Blobs : Uploaded(w, b) => UNCHANGED <<job, queueVars, pages, validation, exports>>
  BY DEF PlanClaimed, CaptureClaimed, PageClaimed, ReadClaimed, ValidationClaimed, ExportClaimed, Takes,
         PlanStored, PageCaptured, PageVisited, PageRead, ResultsStored, FilePublished, PlanRetried,
         PageRetried, ReadRetried, ValidationRetried, ExportRetried, UploadRefused, Uploaded, Retries,
         Lands, Stored

\* Whatever a step does, an operation that goes on keeps its claim: the page or
\* export is not offered again, and only a recovery could take its lease away.
LEMMA HeldKept ==
    ASSUME ~StaleLeases, PipelineInv, ClaimInv, [Next]_vars,
           NEW v \in Workers, running[v] # None, running'[v] # None,
           NEW type \in CommandType, type = running[v].cmd.type,
           NEW p \in WorkOf(type), p = running[v].target
    PROVE  Held(type, p)'
  <1>0. /\ LifecycleInv /\ RunningOK /\ QueueOK
        /\ exports \in [Formats -> ExportRow] /\ pages \in [Pages -> PageRow]
        /\ job.status \in JobStatus /\ StaleLeases \in BOOLEAN
    BY StoreAssumption DEF PipelineInv, LifecycleInv, TypeOK, DataOK, JobOK, JobRow
  <1>1. /\ Held(type, p)
        /\ job.status \notin Passed(type)
        /\ job.lease # "expired"
    BY <1>0 DEF ClaimInv, PipelineInv, SlotInv, OutboxInv, QueueOK
  <1>2. \A t \in RecoveryTargets : ~Recovered(t)
    BY <1>1 DEF Recovered, Recoverable
  <1>3. ~RecoveredNothing /\ ~LeaseLapsed
    BY <1>0, <1>1 DEF RecoveredNothing, Recoverable, LeaseLapsed
  \* An operation of the same type that ends works on something else.
  <1>4. ASSUME NEW w \in Workers, Working(w, type), Finish(w) \/ Requeue(w),
               type \notin {"run_browser_capture", "run_validation"}
        PROVE  running[w].target # p /\ running[w].cmd.target # p
    <2>1. w # v
      BY <1>0, <1>4 DEF Finish, Requeue, RunningOK
    <2>2. running[w].target # p
      BY <1>4, <2>1 DEF ClaimInv, WorkIsClaimedOnce, Working
    <2>3. running[w].cmd.target \in {None, running[w].target}
      BY <1>4 DEF ClaimInv, Working
    <2>4. type \in {"run_discovery", "run_extraction", "run_export"} => p # None
      BY StoreAssumption DEF WorkOf
    <2>5. type = "run_planning" => running[w].target = p
      BY <1>0, <1>4 DEF WorkOf, Working, RunningOK, Operation
    <2> QED BY <1>4, <2>2, <2>3, <2>4, <2>5 DEF CommandType
  <1>5. CASE Undisturbed(type) \/ Slips(type) \/ Misdelivered(type)
    <2>1. job'.status = job.status /\ job'.lease = job.lease /\ pages' = pages
      BY <1>3, <1>5 DEF Undisturbed, Slips, Misdelivered, Ignored, Crashed, Abandoned, TurnedAway,
                        Lost, Redelivered, dataVars
    <2>2. exports' = exports \/ job.status = "CANCELLED"
      BY <1>5 DEF Undisturbed, Slips, Misdelivered, Ignored, Crashed, Abandoned, TurnedAway,
                  Lost, Redelivered, dataVars
    <2> QED BY <1>1, <2>1, <2>2 DEF Held, CommandType
  <1>6. CASE job'.status \in {"FAILED", "CANCELLED"}
    BY <1>6 DEF Held, CommandType
  <1>7. CASE Progresses
    <2>1. CASE type = "run_planning"
      <3>1. ASSUME NEW w \in Workers, PlanRetried(w) PROVE FALSE
        <4>1. running[w].target # p
          BY <1>4, <2>1, <3>1 DEF PlanRetried, Retries
        <4>2. running[w].target \in {None} /\ p = None
          BY <1>0, <2>1, <3>1 DEF PlanRetried, Retries, Working, RunningOK, Operation, WorkOf
        <4> QED BY <4>1, <4>2
      <3>2. job'.status # "QUEUED" /\ (job'.status = "PLANNING" => job'.lease = "live")
        BY <1>1, <1>2, <1>3, <1>7, <2>1, <3>1, Landings DEF Progresses, Held
      <3> QED BY <2>1, <3>2 DEF Held
    <2>2. CASE type = "run_discovery"
      <3>0. p \in Pages
        BY <2>2 DEF WorkOf
      <3> SUFFICES ASSUME job'.status = "DISCOVERING" PROVE pages'[p].status = "QUEUED"
        BY <2>2 DEF Held
      <3>1. ASSUME NEW w \in Workers, NEW c \in queue, NEW q \in Pages, PageClaimed(w, c, q)
            PROVE  pages'[p].status = "QUEUED"
        BY <1>0, <1>1, <2>2, <3>0, <3>1 DEF PageClaimed, Held
      <3>2. ASSUME NEW w \in Workers, NEW inv, NEW next, PageVisited(w, inv, next)
            PROVE  pages'[p].status = "QUEUED"
        <4>1. /\ running[w].target # p /\ running[w].target \in Pages
              /\ pages[running[w].target].status = "QUEUED" /\ pages[p].status = "QUEUED"
          BY <1>0, <1>1, <1>4, <2>2, <3>2
             DEF PageVisited, Ends, Working, RunningOK, Operation, WorkOf, ClaimInv, Held
        <4>2. inv[p] = pages[p]
          BY <1>0, <3>0, <3>2, <4>1, VisitKeeps DEF PageVisited
        <4> QED BY <3>2, <4>1, <4>2 DEF PageVisited
      <3>3. ASSUME NEW w \in Workers, PageRetried(w)
            PROVE  pages'[p].status = "QUEUED"
        <4>1. running[w].cmd.target # p /\ pages[p].status = "QUEUED"
          BY <1>1, <1>4, <2>2, <3>3 DEF PageRetried, Retries, Held
        <4> QED BY <1>0, <3>0, <3>3, <4>1 DEF PageRetried
      <3>4. ASSUME NEW w \in Workers, PageCaptured(w) PROVE FALSE
        BY <1>1, <2>2, <3>4 DEF PageCaptured, Passed
      <3>5. CASE pages' = pages /\ job.status = "DISCOVERING"
        BY <1>1, <2>2, <3>5 DEF Held
      <3> QED BY <1>2, <1>3, <1>7, <3>1, <3>2, <3>3, <3>4, <3>5, Landings
              DEF Progresses
    <2>3. CASE type = "run_extraction"
      <3>0. p \in Pages
        BY <2>3 DEF WorkOf
      <3> SUFFICES ASSUME job'.status = "EXTRACTING" PROVE pages'[p].extraction = "EXTRACTING"
        BY <2>3 DEF Held
      <3>1. ASSUME NEW w \in Workers, NEW c \in queue, NEW q \in Pages, ReadClaimed(w, c, q)
            PROVE  pages'[p].extraction = "EXTRACTING"
        BY <1>0, <1>1, <2>3, <3>0, <3>1 DEF ReadClaimed, Held
      <3>2. ASSUME NEW w \in Workers, NEW x, NEW next, PageRead(w, x, next)
            PROVE  pages'[p].extraction = "EXTRACTING"
        <4>1. running[w].target # p /\ pages[p].extraction = "EXTRACTING"
          BY <1>1, <1>4, <2>3, <3>2 DEF PageRead, Ends, Held
        <4> QED BY <1>0, <3>0, <3>2, <4>1 DEF PageRead
      <3>3. ASSUME NEW w \in Workers, ReadRetried(w) PROVE pages'[p].extraction = "EXTRACTING"
        <4>1. running[w].cmd.target # p /\ pages[p].extraction = "EXTRACTING"
          BY <1>1, <1>4, <2>3, <3>3 DEF ReadRetried, Retries, Held
        <4> QED BY <1>0, <3>0, <3>3, <4>1 DEF ReadRetried
      <3>4. ASSUME NEW w \in Workers, NEW inv, NEW next, PageVisited(w, inv, next) PROVE FALSE
        BY <1>1, <2>3, <3>4 DEF PageVisited, Passed
      <3>5. CASE pages' = pages /\ job.status = "EXTRACTING"
        BY <1>1, <2>3, <3>5 DEF Held
      <3> QED BY <1>2, <1>3, <1>7, <3>1, <3>2, <3>3, <3>4, <3>5, Landings
              DEF Progresses
    <2>4. CASE type = "run_export"
      <3>0. p \in Formats
        BY <2>4 DEF WorkOf
      <3> SUFFICES ASSUME job'.status = "EXPORTING" PROVE exports'[p].status # "QUEUED"
        BY <2>4 DEF Held
      <3>1. ASSUME NEW w \in Workers, NEW c \in queue, ExportClaimed(w, c)
            PROVE  exports'[p].status # "QUEUED"
        <4>1. c.target \in Formats /\ exports[p].status # "QUEUED"
          BY <1>1, <2>4, <3>1 DEF ExportClaimed, Takes, WorkOf, Held
        <4> QED BY <1>0, <3>0, <3>1, <4>1 DEF ExportClaimed
      <3>2. ASSUME NEW w \in Workers, ResultsStored(w) PROVE FALSE
        BY <1>1, <2>4, <3>2 DEF ResultsStored, Passed
      <3>3. ASSUME NEW w \in Workers, FilePublished(w) PROVE exports'[p].status # "QUEUED"
        <4>1. exports[p].status # "QUEUED"
          BY <1>1, <2>4, <3>3 DEF FilePublished, Held
        <4> QED BY <1>0, <3>0, <3>3, <4>1 DEF FilePublished
      <3>4. ASSUME NEW w \in Workers, ExportRetried(w) PROVE exports'[p].status # "QUEUED"
        <4>1. running[w].target # p /\ exports[p].status # "QUEUED"
          BY <1>1, <1>4, <2>4, <3>4 DEF ExportRetried, Held
        <4> QED BY <1>0, <3>0, <3>4, <4>1 DEF ExportRetried
      <3>5. CASE exports' = exports /\ job.status = "EXPORTING"
        BY <1>1, <2>4, <3>5 DEF Held
      <3> QED BY <1>2, <1>3, <1>7, <3>1, <3>2, <3>3, <3>4, <3>5, Landings
              DEF Progresses
    <2>5. CASE type \in {"run_browser_capture", "run_validation"}
      BY <2>5 DEF Held
    <2> QED BY <2>1, <2>2, <2>3, <2>4, <2>5 DEF CommandType
  <1> QED BY <1>5, <1>6, <1>7, StageSteps

\* ClaimInv is inductive while no lease lapses under a running operation.
LEMMA StepClaims ==
    ASSUME ~StaleLeases, PipelineInv, ClaimInv, [Next]_vars
    PROVE  ClaimInv'
  <1>0. LifecycleInv /\ RunningOK /\ QueueOK
        /\ exports \in [Formats -> ExportRow] /\ pages \in [Pages -> PageRow]
        /\ StaleLeases \in BOOLEAN
    BY StoreAssumption DEF PipelineInv, LifecycleInv, TypeOK, DataOK
  <1> DEFINE OK(v) == /\ Held(running[v].cmd.type, running[v].target)
                      /\ running[v].cmd.target \in {None, running[v].target}
                      /\ running[v].cmd.type # "run_extraction" => running[v].cmd.target = running[v].target
  \* The operations of before.
  <1>1. ASSUME NEW v \in Workers, running[v] # None, running'[v] # None,
               running'[v].cmd = running[v].cmd, running'[v].target = running[v].target
        PROVE  OK(v)'
    <2>1. running[v].cmd.type \in CommandType /\ running[v].target \in WorkOf(running[v].cmd.type)
      BY <1>0, <1>1 DEF RunningOK, Operation, Command
    <2>2. PICK type \in CommandType : type = running[v].cmd.type
      BY <2>1
    <2>20. PICK p \in WorkOf(type) : p = running[v].target
      BY <2>1, <2>2
    <2>3. Held(type, p)'
      BY <1>1, <2>2, <2>20, HeldKept
    <2>4. running'[v].cmd.type = type /\ running'[v].target = p
      BY <1>1, <2>2, <2>20
    <2>5. Held(running[v].cmd.type, running[v].target)'
      BY <2>3, <2>4 DEF Held
    <2> QED BY <1>1, <2>5 DEF ClaimInv
  <1>2. CASE NoNewWork
    <2>1. \A v \in Workers : running'[v] # None => OK(v)'
      BY <1>1, <1>2 DEF NoNewWork
    <2>2. WorkIsClaimedOnce'
      BY <1>2 DEF NoNewWork, ClaimInv, WorkIsClaimedOnce
    <2> QED BY <2>1, <2>2 DEF ClaimInv
  <1>3. ASSUME NEW w \in Workers, NEW c \in queue, Claimed(w, c) PROVE ClaimInv'
    <2>1. PICK p \in WorkOf(c.type) :
            /\ SlotTaken(w, c, p) /\ p \in Target
            /\ c.target \in {None, p} /\ (c.type # "run_extraction" => c.target = p)
            /\ c.type \notin {"run_browser_capture", "run_validation"} => ~Held(c.type, p)
            /\ Held(c.type, p)'
      <3>0. c \in Command /\ c.type \in CommandType
        BY <1>0 DEF QueueOK, Command
      <3>1. CASE PlanClaimed(w, c)
        <4>1. c.type = "run_planning" /\ c.target = None
          BY <3>0, <3>1 DEF PlanClaimed, Takes, Delivered, Command, WorkOf
        <4>2. SlotTaken(w, c, None) /\ None \in WorkOf(c.type) /\ None \in Target
          BY <3>1, <4>1 DEF PlanClaimed, Takes, SlotTaken, Delivered, WorkOf, Target
        <4>3. ~Held(c.type, None)
          BY <3>1, <4>1 DEF PlanClaimed, PlanningClaimable, Accepts, Held
        <4>4. Held(c.type, None)'
          BY <3>1, <4>1, Landings DEF Held
        <4> QED BY <4>1, <4>2, <4>3, <4>4
      <3>2. CASE CaptureClaimed(w, c) \/ ValidationClaimed(w, c)
        <4>1. c.type \in {"run_browser_capture", "run_validation"} /\ c.target = None
          BY <3>0, <3>2 DEF CaptureClaimed, ValidationClaimed, Takes, Delivered, Command, WorkOf
        <4>2. SlotTaken(w, c, None) /\ None \in WorkOf(c.type) /\ None \in Target
          BY <3>2, <4>1 DEF CaptureClaimed, ValidationClaimed, Takes, SlotTaken, Delivered, WorkOf,
                            Target
        <4>3. Held(c.type, None)'
          BY <4>1 DEF Held
        <4> QED BY <4>1, <4>2, <4>3
      <3>3. CASE ExportClaimed(w, c)
        <4>1. c.type = "run_export" /\ c.target \in Formats /\ c.target \in WorkOf(c.type)
          BY <3>0, <3>3 DEF ExportClaimed, Takes, Delivered, WorkOf
        <4>2. SlotTaken(w, c, c.target) /\ c.target \in Target
          BY <3>3, <4>1 DEF ExportClaimed, Takes, SlotTaken, Delivered, Target
        <4>3. ~Held(c.type, c.target)
          BY <3>3, <4>1 DEF ExportClaimed, Held
        <4>4. exports'[c.target].status = "RUNNING"
          BY <1>0, <3>3, <4>1 DEF ExportClaimed, ExportRow
        <4>5. Held(c.type, c.target)'
          BY <4>1, <4>4 DEF Held
        <4> QED BY <4>1, <4>2, <4>3, <4>5
      <3>4. ASSUME NEW q \in Pages, PageClaimed(w, c, q)
            PROVE  /\ q \in WorkOf(c.type) /\ SlotTaken(w, c, q) /\ q \in Target /\ c.target = q
                   /\ ~Held(c.type, q) /\ Held(c.type, q)'
        <4>1. c.type = "run_discovery" /\ q \in WorkOf(c.type) /\ c.target = q
          BY <3>4 DEF PageClaimed, Takes, Delivered, WorkOf
        <4>2. SlotTaken(w, c, q) /\ q \in Target
          BY <3>4, <4>1 DEF PageClaimed, Takes, SlotTaken, Delivered, Target
        <4>3. pages'[q].status = "QUEUED"
          BY <1>0, <3>4 DEF PageClaimed, PageRow
        <4> QED BY <3>4, <4>1, <4>2, <4>3 DEF PageClaimed, Held
      <3>5. ASSUME NEW q \in Pages, ReadClaimed(w, c, q)
            PROVE  /\ q \in WorkOf(c.type) /\ SlotTaken(w, c, q) /\ q \in Target
                   /\ c.type = "run_extraction" /\ c.target \in {None, q}
                   /\ ~Held(c.type, q) /\ Held(c.type, q)'
        <4>1. c.type = "run_extraction" /\ q \in WorkOf(c.type) /\ c.target \in {None, q}
          BY <3>5 DEF ReadClaimed, Takes, Delivered, WorkOf
        <4>2. SlotTaken(w, c, q) /\ q \in Target
          BY <3>5, <4>1 DEF ReadClaimed, Takes, SlotTaken, Delivered, Target
        <4>3. pages'[q].extraction = "EXTRACTING"
          BY <1>0, <3>5 DEF ReadClaimed, PageRow
        <4> QED BY <3>5, <4>1, <4>2, <4>3 DEF ReadClaimed, Held
      <3> QED BY <1>3, <3>1, <3>2, <3>3, <3>4, <3>5 DEF Claimed
    <2>2. /\ running'[w] = [cmd |-> c, target |-> p, blob |-> None, step |-> "working"]
          /\ \A v \in Workers \ {w} : running'[v] = running[v]
      BY <1>0, <2>1, SlotEffects
    <2>3. running'[w].cmd = c /\ running'[w].target = p
      BY <2>2
    <2>4. OK(w)'
      <3>1. Held(running[w].cmd.type, running[w].target)'
        BY <2>1, <2>3 DEF Held
      <3> QED BY <2>1, <2>3, <3>1
    <2>5. \A v \in Workers : running'[v] # None => OK(v)'
      BY <1>1, <2>2, <2>4
    <2>6. ASSUME NEW v \in Workers \ {w}, running[v] # None, running[v].cmd.type = c.type,
                 running[v].target = p
          PROVE  c.type \in {"run_browser_capture", "run_validation"}
      BY <2>1, <2>6 DEF ClaimInv
    <2>7. WorkIsClaimedOnce'
      BY <2>2, <2>3, <2>6 DEF ClaimInv, WorkIsClaimedOnce
    <2> QED BY <2>5, <2>7 DEF ClaimInv
  <1> QED BY <1>2, <1>3, WorkBegins

\* WorkIsClaimedOnce: while no lease lapses under a running operation, two slots
\* never hold the same plan, page or export, whatever crashes and is redelivered.
THEOREM WorkIsNeverShared ==
    ASSUME ~StaleLeases
    PROVE  Spec => []WorkIsClaimedOnce
  <1>1. Init => ClaimInv
    BY DEF Init, ClaimInv, WorkIsClaimedOnce
  <1>2. PipelineInv /\ ClaimInv /\ [Next]_vars => ClaimInv'
    BY StepClaims
  <1>3. ClaimInv => WorkIsClaimedOnce
    BY DEF ClaimInv
  <1> QED BY <1>1, <1>2, <1>3, PipelineInvariant, PTL DEF Spec

produced == <<outbox, pages, records, validation, files>>

-----------------------------------------------------------------------------
(* A job that has ended *)

\* The worker slots: every handler that writes asks for an active status first.
LEMMA WorkerQuiet ==
    ASSUME job.status \in Terminal, NEW w \in Workers, WorkerStep(w)
    PROVE  UNCHANGED produced
  <1> USE DEF produced, Terminal, dataVars
  <1>1. CASE PlanningStep(w)
    BY <1>1 DEF PlanningStep, ClaimPlanning, CompletePlanning, FailPlanning, PrepareCapture,
                CompleteCapture, FailCapture, Accepts
  <1>2. CASE DiscoveryStep(w)
    BY <1>2 DEF DiscoveryStep, ClaimDiscovery, CompleteDiscovery, FailDiscovery, Accepts
  <1>3. CASE ExtractionStep(w)
    BY <1>3 DEF ExtractionStep, ClaimExtraction, CompleteExtraction, FailExtraction, Accepts
  <1>4. CASE ValidationStep(w)
    BY <1>4 DEF ValidationStep, ClaimValidation, CompleteValidation, FailValidation, Accepts,
                ValidationClaimable
  <1>5. CASE ExportStep(w)
    BY <1>5 DEF ExportStep, ClaimExport, UploadArtifact, CompleteExport, ReturnFromExport,
                FailExport, ExportError, Accepts
  <1> QED BY <1>1, <1>2, <1>3, <1>4, <1>5 DEF WorkerStep

\* EndedJobIsQuiet: work in flight when a job ends, redelivered commands, lapsed
\* leases and cancel requests add no command, page, record, result or file.
THEOREM EndedJobStaysQuiet == Spec => EndedJobIsQuiet
  <1>1. [Next]_vars => [job.status \in Terminal => UNCHANGED produced]_vars
    <2> SUFFICES ASSUME [Next]_vars, job.status \in Terminal
                 PROVE  UNCHANGED produced
      OBVIOUS
    <2>1. ASSUME NEW w \in Workers, WorkerStep(w) PROVE UNCHANGED produced
      BY <2>1, WorkerQuiet
    <2>2. ASSUME NEW w \in Workers, LateExportError(w) PROVE UNCHANGED produced
      BY <2>2 DEF LateExportError, ExportError, produced
    <2>3. CASE RecoveryStep
      <3>1. ~Recoverable
        BY DEF Recoverable, Active, Terminal
      <3> QED BY <2>3, <3>1 DEF RecoveryStep, Dispatch, LeaseExpires, RecoverExhausted, RecoverLease,
                                queueVars, dataVars, produced
    <2>4. CASE CancelStep
      BY <2>4 DEF CancelStep, CancelRead, CancelWrite, queueVars, dataVars, produced
    <2>5. CASE FaultStep
      BY <2>5 DEF FaultStep, Crash, Abandon, Redeliver, Lose, dataVars, produced
    <2>6. CASE UNCHANGED vars
      BY <2>6 DEF vars, queueVars, dataVars, produced
    <2> QED BY <2>1, <2>2, <2>3, <2>4, <2>5, <2>6 DEF Next
  <1>2. [job.status \in Terminal => UNCHANGED produced]_vars
            => [job.status \in Terminal => UNCHANGED <<outbox, pages, records, validation, files>>]_vars
    BY DEF produced
  <1> QED BY <1>1, <1>2, PTL DEF Spec, EndedJobIsQuiet

-----------------------------------------------------------------------------
(* What is exported is what was validated *)

Delivering == {"EXPORTING", "COMPLETED"}

\* A step that neither enters the export stages nor changes what they read.
KeepsDelivery ==
    /\ job'.status \in Delivering => job.status \in Delivering
    /\ UNCHANGED <<records, validation>>

\* The status the shared parts of the handlers leave.
LEMMA SharedStatus ==
    ASSUME JobOK
    PROVE  /\ \A S : AcknowledgeOrIgnore(S) => job'.status \in {job.status, "CANCELLED"}
           /\ \A w, budget : \A retryable \in BOOLEAN :
                RetryOrFail(w, retryable, budget) => job'.status \in {job.status, "FAILED"}
           /\ \A j \in JobRow, to \in JobStatus : Transition(j, to) => job'.status = to
           /\ Leased(job).status = job.status /\ Released(job).status = job.status
           /\ Released(job) \in JobRow
           /\ \A percent \in 0..100 : /\ Leased(Advanced(job, percent)) \in JobRow
                                      /\ Released(Advanced(job, percent)) \in JobRow
  <1>1. ASSUME NEW j \in JobRow, NEW to \in JobStatus, Transition(j, to) PROVE job'.status = to
    BY <1>1 DEF Transition, JobRow
  <1>2. ASSUME NEW S, AcknowledgeOrIgnore(S) PROVE job'.status \in {job.status, "CANCELLED"}
    <2>1. CASE Transition(job, "CANCELLED")
      BY <1>1, <2>1 DEF JobOK, JobStatus, Terminal
    <2>2. CASE UNCHANGED jobVars
      BY <2>2 DEF jobVars
    <2> QED BY <1>2, <2>1, <2>2 DEF AcknowledgeOrIgnore
  <1>3. ASSUME NEW w, NEW budget, NEW retryable \in BOOLEAN, RetryOrFail(w, retryable, budget)
        PROVE  job'.status \in {job.status, "FAILED"}
    <2>1. FailedRow(retryable) \in JobRow /\ FailedRow(retryable).status = job.status
      <3>1. Released(job) \in JobRow /\ Released(job).status = job.status
        BY RowHelpers, HelpersStill DEF JobOK
      <3>2. CASE retryable
        BY <3>1, <3>2 DEF FailedRow, JobRow
      <3>3. CASE ~retryable
        BY <3>1, <3>3 DEF FailedRow, JobRow
      <3> QED BY <3>2, <3>3
    <2>2. CASE job' = FailedRow(retryable)
      BY <2>1, <2>2
    <2>3. CASE Transition(FailedRow(retryable), "FAILED")
      BY <1>1, <2>1, <2>3 DEF JobStatus, Terminal
    <2> QED BY <1>3, <2>2, <2>3 DEF RetryOrFail
  <1>4. Leased(job).status = job.status /\ Released(job).status = job.status /\ Released(job) \in JobRow
    BY RowHelpers, HelpersStill DEF JobOK
  <1>5. \A percent \in 0..100 : /\ Leased(Advanced(job, percent)) \in JobRow
                                /\ Released(Advanced(job, percent)) \in JobRow
    BY StageRows DEF SameLife
  <1> QED BY <1>1, <1>2, <1>3, <1>4, <1>5

\* Planning, capture and discovery leave the exports of a job to come alone.
LEMMA EarlyStagesKeepDelivery ==
    ASSUME JobOK, NEW w \in Workers, PlanningStep(w) \/ DiscoveryStep(w)
    PROVE  KeepsDelivery
  <1> USE SharedStatus DEF KeepsDelivery, Delivering, dataVars, jobVars, JobStatus, Active, Terminal
  <1>1. ASSUME NEW c \in queue, ClaimPlanning(w, c) PROVE KeepsDelivery
    BY <1>1 DEF ClaimPlanning
  <1>2. CASE CompletePlanning(w)
    BY <1>2 DEF CompletePlanning
  <1>3. CASE FailPlanning(w)
    BY <1>3 DEF FailPlanning, FailureOf
  <1>4. ASSUME NEW c \in queue, PrepareCapture(w, c) PROVE KeepsDelivery
    BY <1>4 DEF PrepareCapture
  <1>5. CASE CompleteCapture(w)
    BY <1>5 DEF CompleteCapture
  <1>6. CASE FailCapture(w)
    BY <1>6 DEF FailCapture
  <1>7. ASSUME NEW c \in queue, ClaimDiscovery(w, c) PROVE KeepsDelivery
    BY <1>7 DEF ClaimDiscovery
  <1>8. CASE CompleteDiscovery(w)
    BY <1>8 DEF CompleteDiscovery
  <1>9. CASE FailDiscovery(w)
    <2>1. UNCHANGED <<records, validation>>
      BY <1>9 DEF FailDiscovery
    <2>2. job'.status \in {job.status, "FAILED", "CANCELLED"}
      <3>1. CASE AcknowledgeOrIgnore({"DISCOVERING"})
        BY <3>1
      <3>2. ASSUME NEW retryable \in BOOLEAN, RetryOrFail(w, retryable, PlannerRetries)
            PROVE  job'.status \in {job.status, "FAILED"}
        BY <3>2
      <3> HIDE SharedStatus
      <3> QED BY <1>9, <3>1, <3>2 DEF FailDiscovery, FailureOf
    <2> QED BY <2>1, <2>2
  <1> QED BY <1>1, <1>2, <1>3, <1>4, <1>5, <1>6, <1>7, <1>8, <1>9 DEF PlanningStep, DiscoveryStep

\* Extraction adds records and validation results, but only to a job that has
\* not reached the export stages; the last step of validation fixes both.
LEMMA MiddleStagesKeepData ==
    ASSUME JobOK, ExportedDataIsValidated, NEW w \in Workers, ExtractionStep(w) \/ ValidationStep(w)
    PROVE  ExportedDataIsValidated'
  <1> USE SharedStatus DEF ExportedDataIsValidated, dataVars, jobVars, JobStatus, Active, Terminal
  <1>1. ASSUME NEW c \in queue, ClaimExtraction(w, c) PROVE ExportedDataIsValidated'
    BY <1>1 DEF ClaimExtraction
  <1>2. CASE CompleteExtraction(w)
    <2>1. CASE UNCHANGED <<jobVars, records, validation>>
      BY <2>1
    <2>2. CASE AcknowledgeOrIgnore({"EXTRACTING"}) /\ UNCHANGED <<records, validation>>
      BY <2>2
    <2>3. ASSUME job.status = "EXTRACTING",
                 \/ Transition(Released(Advanced(job, 60)), "VALIDATING")
                 \/ job' = Released(job)
          PROVE  ExportedDataIsValidated'
      BY <2>3
    <2> HIDE SharedStatus DEF ExportedDataIsValidated, jobVars
    <2> QED BY <1>2, <2>1, <2>2, <2>3 DEF CompleteExtraction, Accepts
  <1>3. CASE FailExtraction(w)
    <2>1. UNCHANGED <<records, validation>>
      BY <1>3 DEF FailExtraction
    <2>2. job'.status \in {job.status, "FAILED", "CANCELLED"}
      <3>1. CASE AcknowledgeOrIgnore({"EXTRACTING"})
        BY <3>1
      <3>2. ASSUME NEW retryable \in BOOLEAN, RetryOrFail(w, retryable, ExtractionRetries)
            PROVE  job'.status \in {job.status, "FAILED"}
        BY <3>2
      <3> HIDE SharedStatus
      <3> QED BY <1>3, <3>1, <3>2 DEF FailExtraction, FailureOf
    <2> QED BY <2>1, <2>2
  <1>4. ASSUME NEW c \in queue, ClaimValidation(w, c) PROVE ExportedDataIsValidated'
    BY <1>4 DEF ClaimValidation, ValidationClaimable, JobOK
  <1>5. CASE CompleteValidation(w)
    BY <1>5 DEF CompleteValidation
  <1>6. CASE FailValidation(w)
    BY <1>6 DEF FailValidation, FailureOf
  <1> QED BY <1>1, <1>2, <1>3, <1>4, <1>5, <1>6 DEF ExtractionStep, ValidationStep

\* The export stage reads records and results and moves within the stage or out.
LEMMA ExportKeepsDelivery ==
    ASSUME LifecycleInv, NEW w \in Workers, ExportStep(w) \/ LateExportError(w)
    PROVE  KeepsDelivery
  <1>1. UNCHANGED <<records, validation>>
    BY DEF ExportStep, ClaimExport, UploadArtifact, CompleteExport, ReturnFromExport, FailExport,
           LateExportError, ExportError, dataVars
  <1>2. job'.status = job.status \/ job.status = "EXPORTING"
    BY SharedStatus
       DEF ExportStep, ClaimExport, UploadArtifact, CompleteExport, ReturnFromExport, FailExport,
           LateExportError, ExportError, Accepts, jobVars, LifecycleInv, TypeOK
  <1> QED BY <1>1, <1>2 DEF KeepsDelivery, Delivering

\* ExportedDataIsValidated is inductive under the lifecycle invariant.
LEMMA StepKeepsData == LifecycleInv /\ ExportedDataIsValidated /\ [Next]_vars => ExportedDataIsValidated'
  <1> SUFFICES ASSUME LifecycleInv, ExportedDataIsValidated, [Next]_vars
               PROVE  ExportedDataIsValidated'
    OBVIOUS
  <1>1. JobOK
    BY DEF LifecycleInv, TypeOK
  <1>2. CASE KeepsDelivery
    BY <1>2 DEF KeepsDelivery, Delivering, ExportedDataIsValidated
  <1>3. ASSUME NEW w \in Workers, WorkerStep(w) \/ LateExportError(w) PROVE ExportedDataIsValidated'
    BY <1>1, <1>2, <1>3, EarlyStagesKeepDelivery, MiddleStagesKeepData, ExportKeepsDelivery
       DEF WorkerStep
  <1>4. CASE RecoveryStep
    <2>1. UNCHANGED <<records, validation>>
      BY <1>4 DEF RecoveryStep, Dispatch, LeaseExpires, RecoverExhausted, RecoverLease, dataVars
    <2>2. job'.status \in {job.status, "FAILED"}
      <3>1. RecoveredRow \in JobRow /\ RecoveredRow.status = job.status
        BY RecoveryTyped, HelpersStill DEF LifecycleInv, RecoveredRow, TypeOK, JobOK
      <3> QED BY <1>1, <1>4, <3>1
              DEF RecoveryStep, Dispatch, LeaseExpires, RecoverExhausted, RecoverLease, RecoverWork,
                  RecoverRolledBack, RecoverNothing, jobVars, JobOK, JobRow
    <2> QED BY <1>2, <2>1, <2>2 DEF KeepsDelivery, Delivering
  <1>5. CASE CancelStep
    <2>1. UNCHANGED <<records, validation>>
      BY <1>5 DEF CancelStep, CancelRead, CancelWrite, dataVars
    <2>2. job'.status \in {job.status, "CANCELLED"}
      BY <1>1, <1>5 DEF CancelStep, CancelRead, CancelWrite, jobVars, JobOK, JobRow
    <2> QED BY <1>2, <2>1, <2>2 DEF KeepsDelivery, Delivering
  <1>6. CASE FaultStep
    BY <1>2, <1>6 DEF FaultStep, Crash, Abandon, Redeliver, Lose, jobVars, dataVars, KeepsDelivery
  <1>7. CASE UNCHANGED vars
    BY <1>2, <1>7 DEF vars, jobVars, dataVars, KeepsDelivery
  <1> QED BY <1>3, <1>4, <1>5, <1>6, <1>7 DEF Next

\* ExportedDataIsValidated: whatever duplicates, stale workers, recovery and
\* faults, the records the exports read are those validation has results for.
THEOREM ExportsReadValidatedData == Spec => []ExportedDataIsValidated
  <1>1. Init => ExportedDataIsValidated
    BY DEF Init, QueuedRow, ExportedDataIsValidated
  <1> QED BY <1>1, StepKeepsData, LifecycleInvariant, PTL DEF Spec

-----------------------------------------------------------------------------
(* Records *)

\* Only an extraction stores records, and it leaves room for what is there.
LEMMA RecordsStep ==
  ASSUME TypeOK, [Next]_vars
  PROVE  \/ records' = records
         \/ \E p \in Pages : \E found \in ExtractedRecords(p) : records' = records \cup found
  <1> DEFINE Goal == \/ records' = records
                     \/ \E p \in Pages : \E found \in ExtractedRecords(p) :
                            records' = records \cup found
  <1>1. ASSUME NEW w \in Workers, WorkerStep(w) PROVE Goal
    <2>1. CASE PlanningStep(w)
      BY <2>1 DEF PlanningStep, ClaimPlanning, CompletePlanning, FailPlanning, PrepareCapture,
                  CompleteCapture, FailCapture, dataVars
    <2>2. CASE DiscoveryStep(w)
      BY <2>2 DEF DiscoveryStep, ClaimDiscovery, CompleteDiscovery, FailDiscovery
    <2>3. CASE CompleteExtraction(w)
      <3>1. running[w].target \in Pages
        BY <2>3 DEF CompleteExtraction, Working, TypeOK, RunningOK, Operation, WorkOf
      <3> QED
        BY <2>3, <3>1 DEF CompleteExtraction
    <2>4. CASE ExtractionStep(w) /\ ~CompleteExtraction(w)
      BY <2>4 DEF ExtractionStep, ClaimExtraction, FailExtraction
    <2>5. CASE ValidationStep(w)
      BY <2>5 DEF ValidationStep, ClaimValidation, CompleteValidation, FailValidation, dataVars
    <2>6. CASE ExportStep(w)
      BY <2>6 DEF ExportStep, ClaimExport, UploadArtifact, CompleteExport, ReturnFromExport,
                  FailExport, ExportError, dataVars
    <2> QED
      BY <1>1, <2>1, <2>2, <2>3, <2>4, <2>5, <2>6 DEF WorkerStep
  <1>2. ASSUME NEW w \in Workers, LateExportError(w) PROVE Goal
    BY <1>2 DEF LateExportError, ExportError
  <1>3. CASE RecoveryStep
    BY <1>3 DEF RecoveryStep, Dispatch, LeaseExpires, RecoverExhausted, RecoverLease, dataVars
  <1>4. CASE CancelStep
    BY <1>4 DEF CancelStep, CancelRead, CancelWrite, dataVars
  <1>5. CASE FaultStep
    BY <1>5 DEF FaultStep, Crash, Abandon, Redeliver, Lose, dataVars
  <1>6. CASE UNCHANGED vars
    BY <1>6 DEF vars, dataVars
  <1> QED
    BY <1>1, <1>2, <1>3, <1>4, <1>5, <1>6 DEF Next

\* A job has finitely many records.
LEMMA FiniteRecords ==
  ASSUME NEW S \in SUBSET (Pages \X Items)
  PROVE  IsFiniteSet(S) /\ Cardinality(S) \in Nat
  <1>1. IsFiniteSet(Pages \X Items)
    BY StoreAssumption, FS_Product
  <1> QED
    BY <1>1, FS_Subset, FS_CardinalityType

\* A result is cut to the room that is left, so a union with it fits.
LEMMA RecordsFit ==
  ASSUME TypeOK, RecordLimit, NEW p \in Pages, NEW found \in ExtractedRecords(p)
  PROVE  Cardinality(records \cup found) <= MaxRecords
  <1>1. found \subseteq Pages \X Items /\ records \subseteq Pages \X Items
        /\ Cardinality(found) <= AtLeast(MaxRecords - Cardinality(records), 0)
    BY DEF ExtractedRecords, TypeOK, DataOK
  <1>2. /\ IsFiniteSet(records) /\ IsFiniteSet(found)
        /\ Cardinality(records) \in Nat /\ Cardinality(found) \in Nat
        /\ Cardinality(records \cap found) \in Nat /\ MaxRecords \in Nat
    BY <1>1, FiniteRecords, StoreAssumption
  <1>3. Cardinality(records \cup found)
          = Cardinality(records) + Cardinality(found) - Cardinality(records \cap found)
    BY <1>2, FS_Union
  <1> QED
    BY <1>1, <1>2, <1>3 DEF AtLeast, RecordLimit

\* The record cap bounds the job, however many operations read its pages.
THEOREM RecordsAreBounded == Spec => []RecordLimit
  <1>1. Init => RecordLimit
    BY FS_EmptySet, StoreAssumption DEF Init, RecordLimit
  <1>2. TypeOK /\ RecordLimit /\ [Next]_vars => RecordLimit'
    BY RecordsStep, RecordsFit DEF RecordLimit
  <1> QED
    BY <1>1, <1>2, TypeCorrect, PTL DEF Spec

-----------------------------------------------------------------------------
(* Pages: what a visit adds to the inventory *)

InventoryStatus == {"DISCOVERED", "QUEUED", "VISITED", "FAILED"}

Inventory(inv) == {p \in Pages : inv[p].status \in InventoryStatus}

\* inv grew within the cap.
Grown(old, inv) ==
    /\ inv \in [Pages -> PageRow]
    /\ Inventory(old) \subseteq Inventory(inv)
    /\ Cardinality(Inventory(inv)) <= MaxPages

\* An inventory is finite.
LEMMA FinitePages ==
  ASSUME NEW S \in SUBSET Pages
  PROVE  IsFiniteSet(S) /\ Cardinality(S) \in Nat
  BY StoreAssumption, FS_Subset, FS_CardinalityType

\* The cap leaves room for the pages that are admitted.
LEMMA AdmittedFits ==
  ASSUME NEW inv \in [Pages -> PageRow], Cardinality(Inventory(inv)) <= MaxPages,
         NEW S \in SUBSET Pages, NEW K \in Admitted(inv, S)
  PROVE  K \subseteq Pages /\ Cardinality(Inventory(inv) \cup K) <= MaxPages
  <1> DEFINE accepted == {p \in Pages : inv[p].status \notin {"absent", "REJECTED"}}
             room == AtLeast(MaxPages - Cardinality(accepted), 0)
  <1>1. K \subseteq S /\ Cardinality(K) = AtMost(Cardinality(S), room)
    BY DEF Admitted, AcceptedCount
  <1>2. /\ IsFiniteSet(K) /\ Cardinality(K) \in Nat /\ Cardinality(S) \in Nat
        /\ IsFiniteSet(accepted) /\ Cardinality(accepted) \in Nat
        /\ IsFiniteSet(Inventory(inv)) /\ Cardinality(Inventory(inv)) \in Nat
        /\ Cardinality(Inventory(inv) \cap K) \in Nat /\ MaxPages \in Nat
    BY <1>1, FinitePages, StoreAssumption DEF Inventory
  <1>3. Cardinality(Inventory(inv)) <= Cardinality(accepted)
    <2>1. Inventory(inv) \subseteq accepted
      BY DEF Inventory, InventoryStatus
    <2> QED
      BY <1>2, <2>1, FS_Subset
  <1>4. Cardinality(Inventory(inv) \cup K)
          = Cardinality(Inventory(inv)) + Cardinality(K) - Cardinality(Inventory(inv) \cap K)
    BY <1>2, FS_Union
  <1> QED
    BY <1>1, <1>2, <1>3, <1>4 DEF AtLeast, AtMost

\* _persist_discovery_candidates keeps the inventory within its cap.
LEMMA PersistedGrows ==
  ASSUME NEW inv \in [Pages -> PageRow], NEW S, NEW K, NEW depth \in Nat,
         NEW over \in {"SKIPPED", "REJECTED"},
         K \subseteq Pages, Cardinality(Inventory(inv) \cup K) <= MaxPages
  PROVE  Grown(inv, Persisted(inv, S, K, depth, over))
  <1> DEFINE new == Persisted(inv, S, K, depth, over)
  <1>1. new \in [Pages -> PageRow]
    BY PersistedTyped
  <1>2. /\ Inventory(inv) \subseteq Inventory(new)
        /\ Inventory(new) \subseteq Inventory(inv) \cup K
    BY DEF Persisted, Inventory, InventoryStatus
  <1>3. Cardinality(Inventory(new)) <= Cardinality(Inventory(inv) \cup K)
    <2>1. IsFiniteSet(Inventory(inv) \cup K)
      BY FinitePages DEF Inventory
    <2> HIDE DEF new
    <2> QED
      BY <1>2, <2>1, FS_Subset
  <1>4. /\ Cardinality(Inventory(new)) \in Nat /\ Cardinality(Inventory(inv) \cup K) \in Nat
        /\ MaxPages \in Nat
    BY FinitePages, StoreAssumption DEF Inventory
  <1> HIDE DEF new
  <1>5. Grown(inv, new)
    BY <1>1, <1>2, <1>3, <1>4 DEF Grown
  <1> QED
    BY <1>5 DEF new

\* Growth within the cap adds up.
LEMMA GrownTwice ==
  ASSUME NEW a, NEW b, NEW c, Grown(a, b), Grown(b, c)
  PROVE  Grown(a, c)
  BY DEF Grown

\* Whatever a visit of a page of the inventory finds.
LEMMA VisitGrows ==
  ASSUME DataOK, PageLimit, NEW p \in Inventory(pages), NEW result \in VisitOutcomes(p)
  PROVE  Grown(pages, result)
  <1> DEFINE visited == [pages EXCEPT ![p].status = "VISITED"]
             depth   == pages[p].depth + 1
             absent  == WithStatus(pages, "absent")
             inDepth == IF depth <= MaxDepth THEN absent ELSE {}
             refused == IF p = SitemapPage THEN absent ELSE inDepth
             linked  == UNION {{Persisted(visited, S, K, depth, "SKIPPED")
                                  : K \in Admitted(visited, S)} : S \in SUBSET inDepth}
             scoped  == {Persisted(inv, R, {}, depth, "REJECTED")
                           : inv \in linked, R \in SUBSET refused}
             probed(inv) == {Persisted(inv, {SitemapPage}, K, 1, "SKIPPED")
                               : K \in Admitted(inv, {SitemapPage})}
  <1>0. p \in Pages /\ pages \in [Pages -> PageRow]
    BY DEF Inventory, DataOK
  <1>1. depth \in Nat /\ Grown(pages, visited)
    <2>1. visited \in [Pages -> PageRow] /\ Inventory(visited) = Inventory(pages)
      BY <1>0 DEF PageRow, PageStatus, Inventory, InventoryStatus
    <2>2. Cardinality(Inventory(pages)) <= MaxPages
      BY DEF PageLimit, Inventory, InventoryStatus
    <2>3. depth \in Nat
      BY <1>0 DEF PageRow
    <2> QED
      BY <2>1, <2>2, <2>3 DEF Grown
  <1>2. ASSUME NEW inv \in linked PROVE Grown(pages, inv)
    <2>1. PICK S \in SUBSET inDepth : \E K \in Admitted(visited, S) :
                inv = Persisted(visited, S, K, depth, "SKIPPED")
      BY <1>2
    <2>2. PICK K \in Admitted(visited, S) : inv = Persisted(visited, S, K, depth, "SKIPPED")
      BY <2>1
    <2>3. S \in SUBSET Pages
      BY DEF WithStatus
    <2> HIDE DEF visited, depth, inDepth
    <2>4. K \subseteq Pages /\ Cardinality(Inventory(visited) \cup K) <= MaxPages
      BY <1>1, <2>3, AdmittedFits DEF Grown
    <2>5. visited \in [Pages -> PageRow] /\ depth \in Nat
      BY <1>1 DEF Grown
    <2>6. Grown(visited, inv)
      BY <2>2, <2>4, <2>5, PersistedGrows
    <2> QED
      BY <1>1, <2>6, GrownTwice
  <1>3. ASSUME NEW inv \in scoped PROVE Grown(pages, inv)
    <2> HIDE DEF linked, refused, depth
    <2>1. PICK before \in linked, R \in SUBSET refused :
                inv = Persisted(before, R, {}, depth, "REJECTED")
      BY <1>3
    <2>2. Grown(pages, before) /\ Inventory(before) \cup {} = Inventory(before)
      BY <1>2
    <2>3. before \in [Pages -> PageRow] /\ Cardinality(Inventory(before) \cup {}) <= MaxPages
      BY <2>2 DEF Grown
    <2>4. Grown(before, inv)
      BY <1>1, <2>1, <2>3, PersistedGrows
    <2> QED
      BY <2>2, <2>4, GrownTwice
  <1>4. ASSUME NEW before \in scoped, NEW inv \in probed(before), SitemapPage # None
        PROVE  Grown(pages, inv)
    <2>1. PICK K \in Admitted(before, {SitemapPage}) :
                inv = Persisted(before, {SitemapPage}, K, 1, "SKIPPED")
      BY <1>4
    <2>2. {SitemapPage} \in SUBSET Pages
      BY <1>4, StoreAssumption
    <2> HIDE DEF scoped
    <2>3. Grown(pages, before)
      BY <1>3
    <2>4. K \subseteq Pages /\ Cardinality(Inventory(before) \cup K) <= MaxPages
      BY <2>2, <2>3, AdmittedFits DEF Grown
    <2> QED
      BY <2>1, <2>3, <2>4, PersistedGrows, GrownTwice DEF Grown
  <1>5. VisitOutcomes(p) =
          IF ProbesSitemap(pages, p) THEN UNION {probed(inv) : inv \in scoped} ELSE scoped
    BY DEF VisitOutcomes
  <1>6. ProbesSitemap(pages, p) => SitemapPage # None
    BY DEF ProbesSitemap
  <1> HIDE DEF scoped, probed
  <1> QED
    BY <1>3, <1>4, <1>5, <1>6

-----------------------------------------------------------------------------
(* Pages: every discovery is about a page of the inventory *)

Early == {"QUEUED", "PLANNING", "BROWSER_INITIALIZING"}

CommandsNamed ==
    \A c \in outbox : c.type = "run_discovery" => c.target \in Inventory(pages)

SlotsNamed ==
    \A w \in Workers : Working(w, "run_discovery") =>
        {running[w].target, running[w].cmd.target} \subseteq Inventory(pages)

\* The strengthening: the inventory is empty until the capture, and from then
\* on a discovery only concerns its pages, so that a retried, failed or
\* recovered one adds nothing to it.
InventoryInv ==
    /\ LifecycleInv
    /\ PageLimit
    /\ job.status \in Early => Inventory(pages) = {}
    /\ CommandsNamed
    /\ SlotsNamed

\* What a step may do: leave the inventory, or let it grow once it exists, ...
InventoryStep ==
    \/ Inventory(pages') = Inventory(pages)
    \/ Grown(pages, pages') /\ job'.status \notin Early

\* ... insert commands about its pages, ...
CommandStep ==
    \A c \in outbox' \ outbox : c.type = "run_discovery" => c.target \in Inventory(pages')

\* ... and claim its pages.
SlotStep ==
    \A v \in Workers :
        \/ running'[v] \in {running[v], None}
        \/ running'[v].cmd.type # "run_discovery"
        \/ running'[v].cmd \in queue /\ running'[v].target \in Inventory(pages')

BoundedStep == InventoryStep /\ CommandStep /\ SlotStep

\* A page of the inventory whose status changes stays in it.
LEMMA Revisited ==
  ASSUME NEW inv \in [Pages -> PageRow], NEW p \in Inventory(inv), NEW s \in InventoryStatus
  PROVE  Inventory([inv EXCEPT ![p].status = s]) = Inventory(inv)
  BY DEF Inventory, PageRow

\* The slot of an operation that ends, or begins, is the only one to change.
LEMMA SlotEnds ==
  ASSUME RunningOK, NEW w \in Workers, Finish(w) \/ Requeue(w) \/ \E c : Discard(c)
  PROVE  SlotStep
  BY DEF RunningOK, Finish, Requeue, Discard, SlotStep

\* A slot that takes a message.
LEMMA SlotBegins ==
  ASSUME RunningOK, NEW w \in Workers, NEW c \in queue, NEW subject, Begin(w, c, subject),
         c.type = "run_discovery" => subject \in Inventory(pages')
  PROVE  SlotStep
  BY DEF RunningOK, Begin, SlotStep

\* The commit of a capture is the first to add a page.
LEMMA CaptureBounded ==
  ASSUME InventoryInv, NEW w \in Workers, CompleteCapture(w)
  PROVE  BoundedStep
  <1> USE DEF InventoryInv, LifecycleInv, TypeOK
  <1>1. SlotStep
    BY SlotEnds DEF CompleteCapture
  <1>2. CASE pages' = pages /\ outbox' = outbox
    BY <1>1, <1>2 DEF BoundedStep, InventoryStep, CommandStep
  <1>3. CASE /\ Accepts({"BROWSER_INITIALIZING"})
             /\ Transition(Released(Advanced(job, 30)), "DISCOVERING")
             /\ pages' = [pages EXCEPT ![SourcePage].status = "DISCOVERED",
                                       ![SourcePage].depth = 0]
             /\ Insert(SourceCommand)
    <2>1. pages \in [Pages -> PageRow] /\ SourcePage \in Pages
      BY StoreAssumption DEF DataOK
    <2>2. pages' \in [Pages -> PageRow]
      BY <1>3, <2>1 DEF PageRow, PageStatus
    <2>3. Inventory(pages) = {}
      BY <1>3 DEF Accepts, Early
    <2>4. Inventory(pages') = {SourcePage}
      BY <1>3, <2>1, <2>3 DEF Inventory, InventoryStatus, PageRow
    <2>5. Cardinality({SourcePage}) <= MaxPages
      BY FS_Singleton, StoreAssumption
    <2>6. Grown(pages, pages')
      BY <2>2, <2>3, <2>4, <2>5 DEF Grown
    <2>7. job'.status = "DISCOVERING"
      <3>1. Released(Advanced(job, 30)) \in JobRow
        BY RowHelpers DEF JobOK
      <3> QED
        BY <1>3, <3>1 DEF Transition, JobRow
    <2>8. CommandStep
      <3>1. SourceCommand.target = SourcePage
        BY DEF SourceCommand, NewCommand
      <3>2. outbox' = outbox \cup {SourceCommand} /\ SourcePage \in Inventory(pages')
        BY <1>3, <2>4 DEF Insert
      <3> QED
        BY <3>1, <3>2 DEF CommandStep
    <2> QED
      BY <1>1, <2>6, <2>7, <2>8 DEF BoundedStep, InventoryStep, Early
  <1> QED
    BY <1>2, <1>3 DEF CompleteCapture

\* The planning handlers keep the inventory and its commands.
LEMMA PlanningBounded ==
  ASSUME InventoryInv, NEW w \in Workers, PlanningStep(w)
  PROVE  BoundedStep
  <1>0. RunningOK
    BY DEF InventoryInv, LifecycleInv, TypeOK
  <1>1. ASSUME NEW c \in queue, ClaimPlanning(w, c) \/ PrepareCapture(w, c) PROVE BoundedStep
    <2>1. SlotStep
      BY <1>0, <1>1, SlotBegins, SlotEnds DEF ClaimPlanning, PrepareCapture, Delivered
    <2> QED
      BY <1>1, <2>1 DEF ClaimPlanning, PrepareCapture, dataVars,
                        BoundedStep, InventoryStep, CommandStep
  <1>2. CASE CompletePlanning(w)
    <2>1. SlotStep
      BY <1>0, <1>2, SlotEnds DEF CompletePlanning
    <2> QED
      BY <1>2, <2>1 DEF CompletePlanning, Insert, CaptureCommand, NewCommand, dataVars,
                        BoundedStep, InventoryStep, CommandStep
  <1>3. CASE FailPlanning(w) \/ FailCapture(w)
    <2>1. SlotStep
      BY <1>0, <1>3, SlotEnds DEF FailPlanning, FailCapture, RetryOrFail
    <2> QED
      BY <1>3, <2>1 DEF FailPlanning, FailCapture, dataVars,
                        BoundedStep, InventoryStep, CommandStep
  <1> QED
    BY <1>1, <1>2, <1>3, CaptureBounded DEF PlanningStep

-----------------------------------------------------------------------------

\* A claimed page stays in the inventory.
LEMMA ClaimDiscoveryBounded ==
  ASSUME InventoryInv, NEW w \in Workers, NEW c \in queue, ClaimDiscovery(w, c)
  PROVE  BoundedStep
  <1> USE DEF InventoryInv, LifecycleInv, TypeOK
  <1>1. CASE pages' = pages /\ Discard(c)
    BY <1>1, SlotEnds DEF ClaimDiscovery, BoundedStep, InventoryStep, CommandStep
  <1>2. ASSUME NEW p \in DiscoverablePages(c), pages' = [pages EXCEPT ![p].status = "QUEUED"],
               Begin(w, c, p)
        PROVE  BoundedStep
    <2>1. p \in Inventory(pages)
      BY <1>2 DEF DiscoverablePages, Foremost, WithStatus, Inventory, InventoryStatus
    <2>2. Inventory(pages') = Inventory(pages)
      BY <1>2, <2>1, Revisited DEF DataOK, InventoryStatus
    <2>3. SlotStep
      BY <1>2, <2>1, <2>2, SlotBegins
    <2> QED
      BY <2>2, <2>3 DEF ClaimDiscovery, BoundedStep, InventoryStep, CommandStep
  <1> QED
    BY <1>1, <1>2 DEF ClaimDiscovery

\* A visit brings in what the cap leaves room for.
LEMMA CompleteDiscoveryBounded ==
  ASSUME InventoryInv, NEW w \in Workers, CompleteDiscovery(w)
  PROVE  BoundedStep
  <1> USE DEF InventoryInv, LifecycleInv, TypeOK
  <1>1. SlotStep
    BY SlotEnds DEF CompleteDiscovery
  <1>2. CASE pages' = pages /\ outbox' = outbox
    BY <1>1, <1>2 DEF BoundedStep, InventoryStep, CommandStep
  <1>3. ASSUME Accepts({"DISCOVERING"}),
               NEW inv \in VisitOutcomes(running[w].target), NEW next \in FollowUps(inv),
               \/ Transition(Released(Advanced(job, 40)), "EXTRACTING")
               \/ job' = Released(job),
               pages' = inv, Insert(next)
        PROVE  BoundedStep
    <2>1. running[w].target \in Inventory(pages)
      BY DEF CompleteDiscovery, SlotsNamed
    <2>2. Grown(pages, pages')
      BY <1>3, <2>1, VisitGrows
    <2>3. job'.status \notin Early
      <3>1. Released(Advanced(job, 40)) \in JobRow /\ Released(job).status = job.status
        BY RowHelpers, HelpersStill DEF JobOK
      <3>2. CASE Transition(Released(Advanced(job, 40)), "EXTRACTING")
        BY <3>1, <3>2 DEF Transition, JobRow, Early
      <3>3. CASE job' = Released(job)
        BY <1>3, <3>1, <3>3 DEF Accepts, Early
      <3> QED
        BY <1>3, <3>2, <3>3
    <2>4. next.type = "run_discovery" => next.target \in Inventory(inv)
      <3>1. CASE next = ExtractCommand
        BY <3>1 DEF ExtractCommand, NewCommand
      <3>2. CASE \E p \in Foremost(WithStatus(inv, "DISCOVERED"), inv) : next = PageCommand(p)
        BY <3>2 DEF PageCommand, NewCommand, Foremost, WithStatus, Inventory, InventoryStatus
      <3> QED
        BY <1>3, <3>1, <3>2 DEF FollowUps
    <2>5. CommandStep
      BY <1>3, <2>4 DEF Insert, CommandStep
    <2> QED
      BY <1>1, <2>2, <2>3, <2>5 DEF BoundedStep, InventoryStep
  <1> QED
    BY <1>2, <1>3 DEF CompleteDiscovery

\* A failed visit leaves its page in the inventory.
LEMMA FailDiscoveryBounded ==
  ASSUME InventoryInv, NEW w \in Workers, FailDiscovery(w)
  PROVE  BoundedStep
  <1> USE DEF InventoryInv, LifecycleInv, TypeOK
  <1>1. SlotStep
    BY SlotEnds DEF FailDiscovery, RetryOrFail
  <1>2. running[w].cmd.target \in Inventory(pages)
    BY DEF FailDiscovery, SlotsNamed
  <1>3. Inventory(pages') = Inventory(pages)
    <2>1. CASE pages' = pages
      BY <2>1
    <2>2. ASSUME NEW s \in {"DISCOVERED", "FAILED"},
                 pages' = [pages EXCEPT ![running[w].cmd.target].status = s]
          PROVE  Inventory(pages') = Inventory(pages)
      <3>1. pages \in [Pages -> PageRow] /\ s \in InventoryStatus
        BY <2>2 DEF DataOK, InventoryStatus
      <3> QED BY <1>2, <2>2, <3>1, Revisited
    <2> QED
      BY <2>1, <2>2 DEF FailDiscovery
  <1> QED
    BY <1>1, <1>3 DEF FailDiscovery, BoundedStep, InventoryStep, CommandStep

-----------------------------------------------------------------------------
(* The other stages, recovery, cancellation and faults leave the inventory *)

\* The extraction handlers keep the inventory and its commands.
LEMMA ExtractionBounded ==
  ASSUME InventoryInv, NEW w \in Workers, ExtractionStep(w)
  PROVE  BoundedStep
  <1> USE DEF InventoryInv, LifecycleInv, TypeOK
  <1>1. \A p, x : Inventory([pages EXCEPT ![p].extraction = x]) = Inventory(pages)
    BY DEF Inventory, DataOK, PageRow
  <1>2. ASSUME NEW c \in queue, ClaimExtraction(w, c) PROVE BoundedStep
    <2>1. Inventory(pages') = Inventory(pages)
      BY <1>1, <1>2 DEF ClaimExtraction
    <2>2. SlotStep
      BY <1>2, SlotBegins, SlotEnds DEF ClaimExtraction, Delivered
    <2> QED
      BY <1>2, <2>1, <2>2 DEF ClaimExtraction, BoundedStep, InventoryStep, CommandStep
  <1>3. CASE CompleteExtraction(w)
    <2>1. SlotStep
      BY <1>3, SlotEnds DEF CompleteExtraction
    <2>2. Inventory(pages') = Inventory(pages)
      <3>1. CASE pages' = pages
        BY <3>1
      <3>2. CASE \E x : pages' = [pages EXCEPT ![running[w].target].extraction = x]
        <4>1. \A p \in Pages : pages'[p].status = pages[p].status
          BY <3>2 DEF DataOK, PageRow
        <4> QED
          BY <4>1 DEF Inventory
      <3> QED
        BY <1>3, <3>1, <3>2 DEF CompleteExtraction
    <2>3. CASE outbox' = outbox
      BY <2>1, <2>2, <2>3 DEF BoundedStep, InventoryStep, CommandStep
    <2>4. ASSUME NEW inv, NEW next \in AfterReading(inv), Insert(next) PROVE BoundedStep
      <3>1. next.type # "run_discovery"
        BY <2>4 DEF AfterReading, ValidateCommand, ReadCommand, NewCommand
      <3> QED
        BY <2>1, <2>2, <2>4, <3>1 DEF Insert, BoundedStep, InventoryStep, CommandStep
    <2> QED
      BY <1>3, <2>3, <2>4 DEF CompleteExtraction
  <1>4. CASE FailExtraction(w)
    <2>1. SlotStep
      BY <1>4, SlotEnds DEF FailExtraction, RetryOrFail
    <2>2. \A p \in Pages : pages'[p].status = pages[p].status
      BY <1>4 DEF FailExtraction, DataOK, PageRow
    <2>3. Inventory(pages') = Inventory(pages)
      BY <2>2 DEF Inventory
    <2> QED
      BY <1>4, <2>1, <2>3 DEF FailExtraction, BoundedStep, InventoryStep, CommandStep
  <1> QED
    BY <1>2, <1>3, <1>4 DEF ExtractionStep

\* The validation handlers keep the inventory and its commands.
LEMMA ValidationBounded ==
  ASSUME InventoryInv, NEW w \in Workers, ValidationStep(w)
  PROVE  BoundedStep
  <1>0. RunningOK
    BY DEF InventoryInv, LifecycleInv, TypeOK
  <1>1. ASSUME NEW c \in queue, ClaimValidation(w, c) PROVE BoundedStep
    <2>1. SlotStep
      BY <1>0, <1>1, SlotBegins, SlotEnds DEF ClaimValidation, Delivered
    <2> QED
      BY <1>1, <2>1 DEF ClaimValidation, BoundedStep, InventoryStep, CommandStep
  <1>2. CASE CompleteValidation(w)
    <2>1. SlotStep
      BY <1>0, <1>2, SlotEnds DEF CompleteValidation
    <2>2. \A f \in Formats : ExportCommand(f).type # "run_discovery"
      BY DEF ExportCommand, NewCommand
    <2> QED
      BY <1>2, <2>1, <2>2 DEF CompleteValidation, BoundedStep, InventoryStep, CommandStep
  <1>3. CASE FailValidation(w)
    <2>1. SlotStep
      BY <1>0, <1>3, SlotEnds DEF FailValidation, RetryOrFail
    <2> QED
      BY <1>3, <2>1 DEF FailValidation, dataVars, BoundedStep, InventoryStep, CommandStep
  <1> QED
    BY <1>1, <1>2, <1>3 DEF ValidationStep

\* The export handlers keep the inventory and its commands.
LEMMA ExportBounded ==
  ASSUME InventoryInv, NEW w \in Workers, ExportStep(w) \/ LateExportError(w)
  PROVE  BoundedStep
  <1>0. RunningOK
    BY DEF InventoryInv, LifecycleInv, TypeOK
  <1>1. pages' = pages /\ outbox' = outbox
    BY DEF ExportStep, LateExportError, ClaimExport, UploadArtifact, CompleteExport,
           ReturnFromExport, FailExport, ExportError, dataVars
  <1>2. ASSUME NEW c \in queue, ClaimExport(w, c) PROVE SlotStep
    BY <1>0, <1>2, SlotBegins, SlotEnds DEF ClaimExport, Delivered
  <1>3. ASSUME UploadArtifact(w) \/ CompleteExport(w) PROVE SlotStep
    <2>1. CASE Finish(w)
      BY <1>0, <2>1, SlotEnds
    <2>2. CASE ~Finish(w)
      <3>0. running[w] \in [cmd : Command, target : Target, blob : Blobs \cup {None},
                            step : {"working", "stored", "committed"}]
        BY <1>0, <1>3 DEF UploadArtifact, CompleteExport, AtStep, Working, RunningOK, Operation
      <3>1. /\ \A v \in Workers \ {w} : running'[v] = running[v]
            /\ running'[w].cmd = running[w].cmd
        <4>1. \A v \in Workers \ {w} : running'[v] = running[v]
          BY <1>0, <1>3, <2>2 DEF UploadArtifact, CompleteExport, RunningOK
        <4>2. \/ \E b : running'[w] = [running[w] EXCEPT !.blob = b, !.step = "stored"]
              \/ running'[w] = [running[w] EXCEPT !.step = "committed"]
          BY <1>0, <1>3, <2>2 DEF UploadArtifact, CompleteExport, RunningOK
        <4>3. running'[w].cmd = running[w].cmd
          BY <3>0, <4>2
        <4> QED
          BY <4>1, <4>3
      <3> QED
        BY <1>3, <3>1 DEF UploadArtifact, CompleteExport, AtStep, Working, SlotStep
    <2> QED
      BY <2>1, <2>2
  <1>4. ASSUME ReturnFromExport(w) \/ FailExport(w) \/ LateExportError(w) PROVE SlotStep
    BY <1>0, <1>4, SlotEnds DEF ReturnFromExport, FailExport, LateExportError, ExportError
  <1>5. SlotStep
    BY <1>2, <1>3, <1>4 DEF ExportStep
  <1> QED
    BY <1>1, <1>5 DEF BoundedStep, InventoryStep, CommandStep

\* A recovered page was in the inventory, and so is the command that names it.
LEMMA RecoveryBounded ==
  ASSUME InventoryInv, RecoveryStep
  PROVE  BoundedStep
  <1> USE DEF InventoryInv, LifecycleInv, TypeOK
  <1>1. running' = running
    BY DEF RecoveryStep, Dispatch, LeaseExpires, RecoverExhausted, RecoverLease
  <1>2. CASE pages' = pages /\ outbox' = outbox
    BY <1>1, <1>2 DEF BoundedStep, InventoryStep, CommandStep, SlotStep
  <1>3. ASSUME NEW t \in RecoveryTargets, RecoverWork(t) PROVE BoundedStep
    <2>1. CASE RecoveryPhase = "discovery"
      <3>1. t \in Inventory(pages)
        BY <1>3, <2>1 DEF RecoveryTargets, Foremost, Inventory, InventoryStatus
      <3>2. pages' = [pages EXCEPT ![t].status = "DISCOVERED"]
        BY <1>3, <3>1 DEF RecoverWork, Inventory
      <3>3. Inventory(pages') = Inventory(pages)
        BY <3>1, <3>2, Revisited DEF DataOK, InventoryStatus
      <3>4. RecoveryCommand(t).target = t
        BY DEF RecoveryCommand
      <3> QED
        BY <1>1, <1>3, <3>1, <3>3, <3>4
        DEF RecoverWork, Insert, BoundedStep, InventoryStep, CommandStep, SlotStep
    <2>2. CASE RecoveryPhase # "discovery"
      <3>1. t \notin Pages
        BY <1>3, <2>2, StoreAssumption DEF RecoveryTargets
      <3>2. RecoveryCommand(t).type # "run_discovery"
        BY <2>2 DEF RecoveryCommand, RecoveryType, RecoveryPhase
      <3> QED
        BY <1>1, <1>3, <3>1, <3>2
        DEF RecoverWork, Insert, BoundedStep, InventoryStep, CommandStep, SlotStep
    <2> QED
      BY <2>1, <2>2
  <1>4. CASE RecoverLease
    <2>1. CASE RecoverNothing
      BY <1>2, <1>4, <2>1 DEF RecoverNothing
    <2>2. ASSUME NEW t \in RecoveryTargets, RecoverRolledBack(t) PROVE BoundedStep
      BY <1>2, <2>2 DEF RecoverRolledBack
    <2> QED
      BY <1>3, <1>4, <2>1, <2>2 DEF RecoverLease
  <1>5. CASE Dispatch \/ LeaseExpires \/ RecoverExhausted
    BY <1>2, <1>5 DEF Dispatch, LeaseExpires, RecoverExhausted, queueVars, dataVars
  <1> QED
    BY <1>4, <1>5 DEF RecoveryStep

\* Every step keeps the inventory within its cap, and its commands in it.
LEMMA StepBounded ==
  ASSUME InventoryInv, [Next]_vars
  PROVE  BoundedStep
  <1>0. RunningOK
    BY DEF InventoryInv, LifecycleInv, TypeOK
  <1>1. ASSUME NEW w \in Workers, DiscoveryStep(w) PROVE BoundedStep
    BY <1>1, ClaimDiscoveryBounded, CompleteDiscoveryBounded, FailDiscoveryBounded
    DEF DiscoveryStep
  <1>2. ASSUME NEW w \in Workers, WorkerStep(w) \/ LateExportError(w) PROVE BoundedStep
    BY <1>1, <1>2, PlanningBounded, ExtractionBounded, ValidationBounded, ExportBounded
    DEF WorkerStep
  <1>3. CASE CancelStep \/ UNCHANGED vars
    BY <1>3 DEF CancelStep, CancelRead, CancelWrite, vars, dataVars, queueVars,
                BoundedStep, InventoryStep, CommandStep, SlotStep
  <1>4. CASE FaultStep
    <2>1. SlotStep
      BY <1>0, <1>4, SlotEnds DEF FaultStep, Crash, Abandon, Redeliver, Lose, SlotStep
    <2> QED
      BY <1>4, <2>1 DEF FaultStep, Crash, Abandon, Redeliver, Lose, dataVars,
                        BoundedStep, InventoryStep, CommandStep
  <1> QED
    BY <1>2, <1>3, <1>4, RecoveryBounded DEF Next

-----------------------------------------------------------------------------

\* No status before the capture has a way in from a later one.
LEMMA EarlyIsFirst ==
  ASSUME LifecycleInv, [Next]_vars, job'.status \in Early
  PROVE  job.status \in Early
  <1>1. CASE Still
    BY <1>1 DEF Still
  <1>2. CASE Moves
    <2>1. job.status \in JobStatus
      BY DEF LifecycleInv, TypeOK, JobOK, JobRow
    <2>2. \A s \in JobStatus \ Early : AllowedTransitions[s] \cap Early = {}
      BY DEF AllowedTransitions, JobStatus, Active, Terminal, Early
    <2> QED
      BY <1>2, <2>1, <2>2 DEF Moves, MovesTo
  <1>3. ASSUME NEW c \in Clients, CancelWrite(c) PROVE FALSE
    BY <1>3, CancelWriteEnds DEF LifecycleInv, Early
  <1> QED
    BY <1>1, <1>2, <1>3, StepMoves

\* A new job has no inventory.
LEMMA InitInventory == Init => InventoryInv
  <1> SUFFICES ASSUME Init PROVE InventoryInv
    OBVIOUS
  <1>1. LifecycleInv
    BY InitLifecycle
  <1>2. Inventory(pages) = {}
    BY DEF Init, Inventory, InventoryStatus
  <1>3. PageLimit
    <2>1. Cardinality(Inventory(pages)) <= MaxPages
      BY <1>2, FS_EmptySet, StoreAssumption
    <2> QED
      BY <2>1 DEF PageLimit, Inventory, InventoryStatus
  <1>4. CommandsNamed /\ SlotsNamed
    BY DEF Init, CommandsNamed, SlotsNamed, Working, PlanCommand, NewCommand
  <1> QED
    BY <1>1, <1>2, <1>3, <1>4 DEF InventoryInv

\* InventoryInv is inductive.
LEMMA StepInventory == InventoryInv /\ [Next]_vars => InventoryInv'
  <1> SUFFICES ASSUME InventoryInv, [Next]_vars PROVE InventoryInv'
    OBVIOUS
  <1>1. LifecycleInv'
    BY StepLifecycle DEF InventoryInv
  <1>2. BoundedStep
    BY StepBounded
  <1>3. Inventory(pages) \subseteq Inventory(pages')
    BY <1>2 DEF BoundedStep, InventoryStep, Grown
  <1>4. PageLimit'
    <2>1. Cardinality(Inventory(pages')) <= MaxPages
      BY <1>2 DEF BoundedStep, InventoryStep, Grown, InventoryInv, PageLimit, Inventory,
                  InventoryStatus
    <2> QED
      BY <2>1 DEF PageLimit, Inventory, InventoryStatus
  <1>5. (job.status \in Early => Inventory(pages) = {})'
    <2>1. job'.status \in Early => job.status \in Early
      BY EarlyIsFirst DEF InventoryInv
    <2> QED
      BY <1>2, <2>1 DEF BoundedStep, InventoryStep, InventoryInv
  <1>6. CommandsNamed'
    BY <1>2, <1>3 DEF BoundedStep, CommandStep, CommandsNamed, InventoryInv
  <1>7. SlotsNamed'
    <2> SUFFICES ASSUME NEW v \in Workers, Working(v, "run_discovery")'
                 PROVE  {running'[v].target, running'[v].cmd.target} \subseteq Inventory(pages')
      BY DEF SlotsNamed
    <2>1. CASE running'[v] = running[v]
      BY <1>3, <2>1 DEF Working, SlotsNamed, InventoryInv
    <2>2. CASE running'[v].cmd \in queue /\ running'[v].target \in Inventory(pages')
      <3>1. running'[v].cmd \in outbox
        BY <2>2 DEF InventoryInv, LifecycleInv, TypeOK, QueueOK
      <3> QED
        BY <1>3, <2>2, <3>1 DEF Working, CommandsNamed, InventoryInv
    <2> QED
      BY <1>2, <2>1, <2>2 DEF BoundedStep, SlotStep, Working
  <1> QED
    BY <1>1, <1>4, <1>5, <1>6, <1>7 DEF InventoryInv

\* The page cap bounds the inventory, however the links were distributed over
\* the visits and over repeated visits of one page.
THEOREM PagesAreBounded == Spec => []PageLimit
  <1>1. InventoryInv => PageLimit
    BY DEF InventoryInv
  <1> QED
    BY <1>1, InitInventory, StepInventory, PTL DEF Spec

-----------------------------------------------------------------------------
(* Uploads *)

\* An operation that ends without cleaning up has nothing stored, or was cut off.
CutOff == {<<"crash", "run_export">>, <<"abandon", "run_export">>} \cap Faults # {}

UploadsKept ==
    /\ UNCHANGED <<files, store>>
    /\ \/ running' = running
       \/ \E w \in Workers : SlotFreed(w) /\ (running[w].step # "stored" \/ CutOff)
       \/ \E w \in Workers, c \in queue, p \in Target : SlotTaken(w, c, p)

UploadDropped(w) ==
    /\ Working(w, "run_export") /\ SlotFreed(w)
    /\ running[w].step = "committed" => <<"late", "run_export">> \in Faults
    /\ store' = WithoutUpload(w) /\ files' = files

\* An upload begins with a fresh key, and is referred to by at most one file.
BlobInv ==
    /\ \A w \in Workers : running[w] # None =>
        /\ running[w].step = "working" => running[w].blob = None
        /\ running[w].step # "working" => running[w].cmd.type = "run_export"
        /\ running[w].step = "stored" => running[w].blob \in store /\ running[w].blob \notin BlobsOfFiles
        /\ running[w].step = "committed" => running[w].blob \in BlobsOfFiles
    /\ \A v, w \in Workers :
        v # w /\ running[v] # None /\ running[w] # None /\ running[v].blob = running[w].blob
            => running[v].blob = None

\* Only an operation in its slot has a step, so those of other types are working.
LEMMA UploadMoves ==
    ASSUME PipelineInv, BlobInv, [Next]_vars
    PROVE  \/ UploadsKept
           \/ \E w \in Workers : FilePublished(w) \/ UploadDropped(w) \/ \E b \in Blobs : Uploaded(w, b)
  <1> DEFINE Goal == \/ UploadsKept
                     \/ \E w \in Workers : \/ FilePublished(w) \/ UploadDropped(w)
                                           \/ \E b \in Blobs : Uploaded(w, b)
  <1>0. LifecycleInv /\ RunningOK
    BY DEF PipelineInv, LifecycleInv, TypeOK
  <1>1. ASSUME UNCHANGED <<files, store, running>> PROVE Goal
    BY <1>1 DEF UploadsKept
  <1>2. ASSUME UNCHANGED <<files, store>>, NEW w \in Workers, running[w] # None,
               Finish(w) \/ Requeue(w), job'.lease \in {job.lease, "none"},
               running[w].step # "stored" \/ CutOff
        PROVE  Goal
    BY <1>2 DEF UploadsKept, Finish, Requeue, SlotFreed, LeaseFair
  <1>3. ASSUME NEW w \in Workers, NEW c \in queue, NEW type, NEW p, Takes(w, c, type, p),
               UNCHANGED <<files, store>>
        PROVE  Goal
    <2>1. c.type = type /\ SlotTaken(w, c, p) /\ p \in Target
      BY <1>3 DEF Takes, Delivered, SlotTaken, WorkOf, Target
    <2> QED BY <1>3, <2>1 DEF UploadsKept
  <1>4. ASSUME NEW w \in Workers, running[w] # None, running[w].cmd.type # "run_export"
        PROVE  running[w].step # "stored"
    BY <1>4 DEF BlobInv
  <1>5. ASSUME NEW w \in Workers, WorkerOutcome(w) PROVE Goal
    <2>1. CASE Ignored(w)
      <3>1. running[w].step # "stored"
        BY <1>4, <2>1 DEF Ignored, Excused
      <3> QED BY <1>2, <2>1, <3>1 DEF Ignored, dataVars
    <2>2. CASE PlanRetried(w) \/ ValidationRetried(w) \/ PageRetried(w) \/ ReadRetried(w)
      BY <1>2, <1>4, <2>2 DEF PlanRetried, ValidationRetried, PageRetried, ReadRetried, Retries,
                              Lands, Working, Derived, dataVars
    <2>3. CASE OperationFailed(w)
      <3>0. running[w] # None /\ Finish(w) /\ job'.lease = "none" /\ UNCHANGED files
        BY <2>3 DEF OperationFailed, GivesUp, Lands, Working
      <3>1. CASE running[w].cmd.type = "run_export"
        BY <2>3, <3>0, <3>1 DEF OperationFailed, UploadDropped, Working, SlotFreed, Finish, LeaseFair
      <3>2. CASE running[w].cmd.type # "run_export"
        BY <1>2, <1>4, <2>3, <3>0, <3>2 DEF OperationFailed
      <3> QED BY <3>1, <3>2
    <2>4. CASE PlanStored(w) \/ PageCaptured(w) \/ ResultsStored(w)
      BY <1>2, <1>4, <2>4 DEF PlanStored, PageCaptured, ResultsStored, Ends, Lands, Working,
                              Derived, dataVars
    <2>5. ASSUME NEW inv, NEW next, PageVisited(w, inv, next) \/ PageRead(w, inv, next) PROVE Goal
      BY <1>2, <1>4, <2>5 DEF PageVisited, PageRead, Ends, Lands, Working, Derived
    <2>6. CASE UploadRefused(w) \/ ExportRetried(w)
      BY <2>6 DEF UploadRefused, ExportRetried, Ends, Lands, Working, Finish, Requeue,
                  UploadDropped, SlotFreed, LeaseFair
    <2>7. ASSUME NEW c \in queue, TurnedAway(w, c) PROVE Goal
      BY <1>1, <2>7 DEF TurnedAway, Discard
    <2> QED BY <1>3, <1>5, <2>1, <2>2, <2>3, <2>4, <2>5, <2>6, <2>7
            DEF WorkerOutcome, PlanningOutcome, DiscoveryOutcome, ExtractionOutcome,
                ValidationOutcome, ExportOutcome, PlanClaimed, CaptureClaimed, PageClaimed,
                ReadClaimed, ValidationClaimed, ExportClaimed, Derived, dataVars
  <1>6. CASE RecoveryOutcome
    BY <1>1, <1>6 DEF RecoveryOutcome, Dispatched, LeaseLapsed, RecoveryFailed, RecoveredNothing,
                      Recovered, dataVars
  <1>7. CASE OtherOutcome
    <2>1. CASE Cancelled \/ NothingToSee
      BY <1>1, <2>1 DEF Cancelled, NothingToSee, dataVars
    <2>2. ASSUME NEW w \in Workers, Crashed(w) \/ Abandoned(w) PROVE Goal
      <3>1. running[w].step # "stored" \/ CutOff
        BY <1>4, <2>2 DEF Crashed, Abandoned, CutOff
      <3> QED BY <1>2, <2>2, <3>1 DEF Crashed, Abandoned, dataVars
    <2>3. ASSUME NEW c \in outbox, Redelivered(c) \/ Lost(c) PROVE Goal
      BY <1>1, <2>3 DEF Redelivered, Lost, dataVars
    <2> QED BY <1>7, <2>1, <2>2, <2>3 DEF OtherOutcome
  <1> QED BY <1>0, <1>5, <1>6, <1>7, StepOutcomes

\* A published file refers to its upload.
LEMMA PublishedBlob ==
    ASSUME NEW w, FilePublished(w)
    PROVE  BlobsOfFiles' = BlobsOfFiles \cup {running[w].blob}
  <1> DEFINE row == [format |-> running[w].target, blob |-> running[w].blob]
  <1>1. files' = files \cup {row} /\ row.blob = running[w].blob
    BY DEF FilePublished
  <1> HIDE DEF row
  <1> QED BY <1>1 DEF BlobsOfFiles

\* BlobInv is inductive while no export is cut off.
LEMMA StepBlobs ==
    ASSUME PipelineInv, BlobInv, [Next]_vars
    PROVE  BlobInv'
  <1>0. LifecycleInv /\ RunningOK
    BY DEF PipelineInv, LifecycleInv, TypeOK
  <1>1. CASE UploadsKept
    <2>0. BlobsOfFiles' = BlobsOfFiles /\ store' = store
      BY <1>1 DEF UploadsKept, BlobsOfFiles
    <2>1. CASE running' = running
      BY <2>0, <2>1 DEF BlobInv
    <2>2. ASSUME NEW w \in Workers, SlotFreed(w) PROVE BlobInv'
      <3>1. \A v \in Workers : running'[v] # None => running'[v] = running[v]
        BY <1>0, <2>2, SlotEffects
      <3> QED BY <2>0, <3>1 DEF BlobInv
    <2>3. ASSUME NEW w \in Workers, NEW c \in queue, NEW p \in Target, SlotTaken(w, c, p)
          PROVE  BlobInv'
      <3>1. /\ running'[w] = [cmd |-> c, target |-> p, blob |-> None, step |-> "working"]
            /\ \A v \in Workers \ {w} : running'[v] = running[v]
        BY <1>0, <2>3, SlotEffects
      <3>2. running'[w].blob = None /\ running'[w].step = "working"
        BY <3>1
      <3> QED BY <2>0, <3>1, <3>2 DEF BlobInv
    <2> QED BY <1>1, <2>1, <2>2, <2>3 DEF UploadsKept
  <1>2. ASSUME NEW w \in Workers, NEW b \in Blobs, Uploaded(w, b) PROVE BlobInv'
    <2>1. /\ running[w] # None /\ running[w].cmd.type = "run_export" /\ running[w] \in Operation
          /\ running'[w] = [running[w] EXCEPT !.blob = b, !.step = "stored"]
          /\ \A v \in Workers \ {w} : running'[v] = running[v]
      BY <1>0, <1>2 DEF Uploaded, AtStep, Working, RunningOK
    <2>2. running'[w].blob = b /\ running'[w].step = "stored" /\ running'[w].cmd.type = "run_export"
      BY <2>1 DEF Operation
    <2>3. /\ b \notin BlobsOfFiles /\ b \notin store
          /\ \A v \in Workers : running[v] # None => running[v].blob # b
      BY <1>2 DEF Uploaded, UnusedBlobs, BlobsOfFiles
    <2>4. BlobsOfFiles' = BlobsOfFiles /\ store' = store \cup {b}
      BY <1>2 DEF Uploaded, BlobsOfFiles
    <2>5. ASSUME NEW v \in Workers \ {w}, running'[v] # None
          PROVE  /\ running'[v].step = "working" => running'[v].blob = None
                 /\ running'[v].step # "working" => running'[v].cmd.type = "run_export"
                 /\ running'[v].step = "stored" =>
                        running'[v].blob \in store' /\ running'[v].blob \notin BlobsOfFiles'
                 /\ running'[v].step = "committed" => running'[v].blob \in BlobsOfFiles'
                 /\ running'[v].blob # running'[w].blob
      BY <2>1, <2>2, <2>3, <2>4, <2>5 DEF BlobInv
    <2>6. ASSUME NEW u \in Workers \ {w}, NEW v \in Workers \ {w}, u # v, running'[u] # None,
                 running'[v] # None, running'[u].blob = running'[v].blob
          PROVE  running'[u].blob = None
      BY <2>1, <2>6 DEF BlobInv
    <2> QED BY <2>2, <2>3, <2>4, <2>5, <2>6 DEF BlobInv
  <1>3. ASSUME NEW w \in Workers, FilePublished(w) PROVE BlobInv'
    <2>1. /\ running[w] # None /\ running[w].cmd.type = "run_export" /\ running[w] \in Operation
          /\ running[w].step = "stored"
          /\ running'[w] = [running[w] EXCEPT !.step = "committed"]
          /\ \A v \in Workers \ {w} : running'[v] = running[v]
      BY <1>0, <1>3 DEF FilePublished, AtStep, Working, RunningOK
    <2>2. /\ running'[w].blob = running[w].blob /\ running'[w].step = "committed"
          /\ running'[w].cmd.type = "run_export"
          /\ running[w].blob # None
      BY <2>1 DEF Operation
    <2>3. BlobsOfFiles' = BlobsOfFiles \cup {running[w].blob} /\ store' = store
      BY <1>3, PublishedBlob DEF FilePublished
    <2>4. ASSUME NEW v \in Workers \ {w}, running'[v] # None
          PROVE  /\ running'[v].step = "working" => running'[v].blob = None
                 /\ running'[v].step # "working" => running'[v].cmd.type = "run_export"
                 /\ running'[v].step = "stored" =>
                        running'[v].blob \in store' /\ running'[v].blob \notin BlobsOfFiles'
                 /\ running'[v].step = "committed" => running'[v].blob \in BlobsOfFiles'
                 /\ running'[v].blob # running'[w].blob
      BY <2>1, <2>2, <2>3, <2>4 DEF BlobInv
    <2>5. ASSUME NEW u \in Workers \ {w}, NEW v \in Workers \ {w}, u # v, running'[u] # None,
                 running'[v] # None, running'[u].blob = running'[v].blob
          PROVE  running'[u].blob = None
      BY <2>1, <2>5 DEF BlobInv
    <2> QED BY <2>2, <2>3, <2>4, <2>5 DEF BlobInv
  <1>4. ASSUME NEW w \in Workers, UploadDropped(w) PROVE BlobInv'
    <2>1. /\ running[w] # None /\ running'[w] = None
          /\ \A v \in Workers : running'[v] # None => v # w /\ running'[v] = running[v]
      BY <1>0, <1>4, SlotEffects DEF UploadDropped, Working
    <2>2. BlobsOfFiles' = BlobsOfFiles /\ store' = store \ {running[w].blob}
      BY <1>4 DEF UploadDropped, WithoutUpload, BlobsOfFiles
    <2>3. ASSUME NEW v \in Workers, running'[v] # None, running[v].step = "stored"
          PROVE  running[v].blob # running[w].blob
      <3>1. running[v] \in Operation
        BY <1>0, <2>1, <2>3 DEF RunningOK
      <3>2. running[v].blob # None
        BY <2>3, <3>1 DEF Operation
      <3> QED BY <2>1, <2>3, <3>2 DEF BlobInv
    <2> QED BY <2>1, <2>2, <2>3 DEF BlobInv
  <1> QED BY <1>1, <1>2, <1>3, <1>4, UploadMoves

\* The uploads of a reachable state.
LEMMA BlobInvariant == Spec => [](PipelineInv /\ BlobInv)
  <1>1. Init => BlobInv
    BY DEF Init, BlobInv
  <1>2. PipelineInv /\ BlobInv /\ [Next]_vars => BlobInv'
    BY StepBlobs
  <1> QED BY <1>1, <1>2, PipelineInvariant, PTL DEF Spec

\* EveryBlobIsOwned: unless an export is cut off by a crash or a timeout, every
\* way out of one leaves its upload with a file row or deletes it.
THEOREM UploadsAreCleanedUp ==
    ASSUME ~CutOff
    PROVE  Spec => []EveryBlobIsOwned
  <1>1. Init => EveryBlobIsOwned
    BY DEF Init, EveryBlobIsOwned
  <1>2. PipelineInv /\ BlobInv /\ EveryBlobIsOwned /\ [Next]_vars => EveryBlobIsOwned'
    <2> SUFFICES ASSUME PipelineInv, BlobInv, EveryBlobIsOwned, [Next]_vars
                 PROVE  EveryBlobIsOwned'
      OBVIOUS
    <2>0. LifecycleInv /\ RunningOK /\ store \subseteq Blobs
      BY DEF PipelineInv, LifecycleInv, TypeOK, DataOK
    <2>1. ASSUME NEW w \in Workers, running[w] # None, running[w].step # "stored"
          PROVE  running[w].blob \in BlobsOfFiles \/ running[w].blob \notin Blobs
      <3>1. running[w] \in Operation
        BY <2>0, <2>1 DEF RunningOK
      <3> QED BY <2>1, <3>1, StoreAssumption DEF BlobInv, Operation
    <2>2. CASE UploadsKept
      <3>0. BlobsOfFiles' = BlobsOfFiles /\ store' = store
        BY <2>2 DEF UploadsKept, BlobsOfFiles
      <3>1. CASE running' = running
        BY <3>0, <3>1 DEF EveryBlobIsOwned, BlobsInFlight
      <3>2. ASSUME NEW w \in Workers, SlotFreed(w), running[w].step # "stored" PROVE EveryBlobIsOwned'
        <4>1. running[w] # None /\ \A v \in Workers \ {w} : running'[v] = running[v]
          BY <2>0, <3>2, SlotEffects DEF SlotFreed
        <4>2. BlobsInFlight \subseteq BlobsInFlight' \cup {running[w].blob}
          BY <4>1 DEF BlobsInFlight
        <4> QED BY <2>0, <2>1, <3>0, <3>2, <4>1, <4>2 DEF EveryBlobIsOwned
      <3>3. ASSUME NEW w \in Workers, NEW c \in queue, NEW p \in Target, SlotTaken(w, c, p)
            PROVE  EveryBlobIsOwned'
        <4>1. running[w] = None /\ \A v \in Workers \ {w} : running'[v] = running[v]
          BY <2>0, <3>3, SlotEffects
        <4>2. BlobsInFlight \subseteq BlobsInFlight'
          BY <4>1 DEF BlobsInFlight
        <4> QED BY <3>0, <4>2 DEF EveryBlobIsOwned
      <3> QED BY <2>2, <3>1, <3>2, <3>3 DEF UploadsKept
    <2>3. ASSUME NEW w \in Workers, NEW b \in Blobs, Uploaded(w, b) PROVE EveryBlobIsOwned'
      <3>1. /\ running[w] # None /\ running[w].cmd.type = "run_export" /\ running[w] \in Operation
            /\ running[w].step = "working"
            /\ running'[w] = [running[w] EXCEPT !.blob = b, !.step = "stored"]
            /\ \A v \in Workers \ {w} : running'[v] = running[v]
        BY <2>0, <2>3 DEF Uploaded, AtStep, Working, RunningOK
      <3>2. running'[w].blob = b
        BY <3>1 DEF Operation
      <3>3. SlotAdvanced(w) /\ running'[w] # None
        BY <2>0, <2>3, SlotEffects DEF Uploaded, AtStep, queueVars, LeaseFair, SlotAdvanced
      <3>4. b \in BlobsInFlight'
        BY <3>2, <3>3 DEF BlobsInFlight
      <3>6. BlobsInFlight \subseteq BlobsInFlight' \cup {running[w].blob}
        BY <3>1 DEF BlobsInFlight
      <3>5. BlobsOfFiles' = BlobsOfFiles /\ store' = store \cup {b}
        BY <2>3 DEF Uploaded, BlobsOfFiles
      <3> QED BY <2>0, <2>1, <3>1, <3>4, <3>5, <3>6 DEF EveryBlobIsOwned
    <2>4. ASSUME NEW w \in Workers, FilePublished(w) PROVE EveryBlobIsOwned'
      <3>1. /\ \A v \in Workers \ {w} : running'[v] = running[v]
            /\ BlobsOfFiles' = BlobsOfFiles \cup {running[w].blob} /\ store' = store
        BY <2>0, <2>4, PublishedBlob DEF FilePublished, RunningOK
      <3>2. BlobsInFlight \subseteq BlobsInFlight' \cup {running[w].blob}
        BY <3>1 DEF BlobsInFlight
      <3> QED BY <3>1, <3>2 DEF EveryBlobIsOwned
    <2>5. ASSUME NEW w \in Workers, UploadDropped(w) PROVE EveryBlobIsOwned'
      <3>1. \A v \in Workers \ {w} : running'[v] = running[v]
        BY <2>0, <2>5, SlotEffects DEF UploadDropped
      <3>2. BlobsInFlight \subseteq BlobsInFlight' \cup {running[w].blob}
        BY <3>1 DEF BlobsInFlight
      <3>3. BlobsOfFiles' = BlobsOfFiles /\ store' = store \ {running[w].blob}
        BY <2>5 DEF UploadDropped, WithoutUpload, BlobsOfFiles
      <3> QED BY <3>2, <3>3 DEF EveryBlobIsOwned
    <2> QED BY <2>2, <2>3, <2>4, <2>5, UploadMoves
  <1> QED BY <1>1, <1>2, BlobInvariant, PTL DEF Spec

\* Every exported format has a file, and every file its bytes.
DeliveryInv ==
    /\ BlobsOfFiles \subseteq store
    /\ \A f \in Formats : exports[f].status = "COMPLETED" => \E file \in files : file.format = f
    /\ job.status = "COMPLETED" => AllExported(exports)

\* DeliveryInv is inductive while a published export raises no late error.
LEMMA StepDelivery ==
    ASSUME <<"late", "run_export">> \notin Faults,
           PipelineInv, BlobInv, DeliveryInv, [Next]_vars
    PROVE  DeliveryInv'
  <1>0. LifecycleInv /\ RunningOK /\ DataOK
    BY DEF PipelineInv, LifecycleInv, TypeOK
  <1>1. (BlobsOfFiles \subseteq store)'
    <2>1. CASE UploadsKept
      BY <2>1 DEF UploadsKept, BlobsOfFiles, DeliveryInv
    <2>2. ASSUME NEW w \in Workers, FilePublished(w) PROVE (BlobsOfFiles \subseteq store)'
      <3>1. running[w].blob \in store /\ store' = store
        BY <2>2 DEF FilePublished, AtStep, Working, BlobInv
      <3> QED BY <2>2, <3>1, PublishedBlob DEF DeliveryInv
    <2>3. ASSUME NEW w \in Workers, UploadDropped(w) PROVE (BlobsOfFiles \subseteq store)'
      <3>1. running[w] \in Operation /\ running[w] # None /\ running[w].step # "committed"
        BY <1>0, <2>3 DEF UploadDropped, Working, RunningOK
      <3>2. running[w].step = "working" \/ running[w].step = "stored"
        BY <3>1 DEF Operation
      <3>3. BlobsOfFiles \subseteq Blobs
        BY <1>0 DEF DataOK, BlobsOfFiles
      <3>4. running[w].blob \notin BlobsOfFiles
        BY <3>1, <3>2, <3>3, StoreAssumption DEF BlobInv
      <3>5. BlobsOfFiles' = BlobsOfFiles
        BY <2>3 DEF UploadDropped, BlobsOfFiles
      <3> QED BY <2>3, <3>4, <3>5 DEF UploadDropped, WithoutUpload, DeliveryInv
    <2>4. ASSUME NEW w \in Workers, NEW b \in Blobs, Uploaded(w, b) PROVE (BlobsOfFiles \subseteq store)'
      BY <2>4 DEF Uploaded, BlobsOfFiles, DeliveryInv
    <2> QED BY <2>1, <2>2, <2>3, <2>4, UploadMoves
  <1> DEFINE Exported == /\ \A f \in Formats : exports'[f].status = "COMPLETED" =>
                                \E file \in files' : file.format = f
                         /\ job'.status = "COMPLETED" => AllExported(exports')
  <1>00. exports \in [Formats -> ExportRow]
    BY <1>0 DEF DataOK
  <1>2. ASSUME ExportsKept PROVE Exported
    <2>1. exports' = exports /\ files' = files /\ (job'.status = "COMPLETED" => job.status = "COMPLETED")
      BY <1>2 DEF ExportsKept
    <2> QED BY <2>1 DEF DeliveryInv, AllExported
  <1>3. ASSUME ExportsGivenUp PROVE Exported
    BY <1>3 DEF ExportsGivenUp, DeliveryInv
  <1>4. ASSUME NEW f \in Formats, NEW row, exports' = [exports EXCEPT ![f] = row], row.status # "COMPLETED",
               files' = files, job'.status # "COMPLETED"
        PROVE  Exported
    BY <1>00, <1>4 DEF DeliveryInv
  <1>5. ASSUME NEW w \in Workers, NEW c \in queue, ExportClaimed(w, c) PROVE Exported
    <2>1. c.target \in Formats
      BY <1>5 DEF ExportClaimed, Takes, WorkOf
    <2> DEFINE row == [exports[c.target] EXCEPT !.status = "RUNNING", !.attempt = AtLeast(@, c.attempt)]
    <2>2. exports' = [exports EXCEPT ![c.target] = row] /\ row.status # "COMPLETED"
      BY <1>00, <1>5, <2>1 DEF ExportClaimed, ExportRow
    <2> QED BY <1>4, <1>5, <2>1, <2>2 DEF ExportClaimed
  <1>6. ASSUME NEW w \in Workers, ResultsStored(w) PROVE Exported
    BY <1>6 DEF ResultsStored, Lands
  <1>7. ASSUME NEW w \in Workers, FilePublished(w) PROVE Exported
    <2> DEFINE f == running[w].target
               row == [format |-> f, blob |-> running[w].blob]
               done == [exports EXCEPT ![f].status = "COMPLETED"]
    <2>1. files' = files \cup {row} /\ row.format = f /\ exports' = done
      BY <1>7 DEF FilePublished
    <2>2. job'.status = "COMPLETED" => AllExported(done)
      BY <1>7 DEF FilePublished, Lands
    <2>3. \A g \in Formats \ {f} : exports'[g] = exports[g]
      BY <1>00, <2>1
    <2> HIDE DEF row, f, done
    <2> QED BY <2>1, <2>2, <2>3 DEF DeliveryInv
  <1>8. ASSUME NEW w \in Workers, ExportRetried(w) PROVE Exported
    <2> DEFINE f == running[w].target
               row == [exports[f] EXCEPT !.status = "QUEUED", !.attempt = @ + 1]
    <2>1. f \in Formats
      BY <1>0, <1>8 DEF ExportRetried, Working, RunningOK, Operation, WorkOf
    <2>2. exports' = [exports EXCEPT ![f] = row] /\ row.status # "COMPLETED"
      BY <1>00, <1>8, <2>1 DEF ExportRetried, ExportRow
    <2> QED BY <1>4, <1>8, <2>1, <2>2 DEF ExportRetried, Lands
  <1>9. ASSUME NEW t \in RecoveryTargets, ExportRecovered(t) PROVE Exported
    <2>1. t \in Formats /\ job.status # "COMPLETED"
      BY <1>9 DEF ExportRecovered, RecoveryTargets, Recovered, Recoverable, Active
    <2> QED BY <1>4, <1>9, <2>1 DEF ExportRecovered, Recovered, Lands
  <1>10. Exported
    BY <1>2, <1>3, <1>5, <1>6, <1>7, <1>8, <1>9, ExportChanges DEF ExportsWritten
  <1> QED BY <1>1, <1>10 DEF DeliveryInv

\* CompletedMeansDelivered: every format of a completed job has a file row and
\* the row its bytes, unless an error can reach an export after its commit.
THEOREM CompletedJobsDeliver ==
    ASSUME <<"late", "run_export">> \notin Faults
    PROVE  Spec => []CompletedMeansDelivered
  <1>1. Init => DeliveryInv
    BY DEF Init, QueuedRow, DeliveryInv, BlobsOfFiles
  <1>2. PipelineInv /\ BlobInv /\ DeliveryInv /\ [Next]_vars => DeliveryInv'
    BY StepDelivery
  <1>3. DeliveryInv => CompletedMeansDelivered
    BY DEF DeliveryInv, BlobsOfFiles, CompletedMeansDelivered, AllExported
  <1> QED BY <1>1, <1>2, <1>3, BlobInvariant, PTL DEF Spec

-----------------------------------------------------------------------------
(* One file per format *)

\* Format f waits for its only upload, or no operation works on it at all.
Sole(f) ==
    \A v \in Workers : Uncommitted(v, f) =>
        /\ exports[f].status = "RUNNING"
        /\ \A u \in Workers : u # v => ~Uncommitted(u, f)

\* A lapsed lease may leave an export with two operations, but then recovery
\* has raised its attempt past its retries.
Alone(f) == Sole(f) \/ (StaleLeases /\ exports[f].attempt >= ExportRetries)

SoleInv ==
    /\ job.status \in Passed("run_export") => files = {}
    /\ job.status = "EXPORTING" =>
        /\ \A file \in files : exports[file.format].status = "COMPLETED"
        /\ \A f \in Formats : Alone(f)
    /\ OneFilePerFormat

\* Export rows keep to their formats: what a write does to the others.
LEMMA SoleElsewhere ==
    ASSUME NEW f \in Formats, exports'[f] = exports[f],
           \A v \in Workers : Uncommitted(v, f)' => Uncommitted(v, f),
           Alone(f)
    PROVE  Alone(f)'
  BY DEF Sole, Alone

\* SoleInv is inductive.
LEMMA StepSole ==
    ASSUME <<"late", "run_export">> \notin Faults, ~StaleLeases \/ ExportRetries <= 2,
           PipelineInv, SoleInv, [Next]_vars
    PROVE  SoleInv'
  <1>0. LifecycleInv /\ RunningOK /\ QueueOK /\ exports \in [Formats -> ExportRow]
    BY DEF PipelineInv, LifecycleInv, TypeOK, DataOK
  <1>00. job.status \in JobStatus /\ job \in JobRow
    BY <1>0 DEF LifecycleInv, TypeOK, JobOK, JobRow
  <1>01. job'.status \in Passed("run_export") => job.status \in Passed("run_export")
    BY <1>0, PassedForGood DEF CommandType
  <1>1. CASE ExportsKept
    <2>1. /\ exports' = exports /\ files' = files
          /\ job'.status = "EXPORTING" => job.status = "EXPORTING"
      BY <1>1 DEF ExportsKept
    <2>2. ASSUME NEW f \in Formats, job.status = "EXPORTING" PROVE Alone(f)'
      BY <1>1, <2>1, <2>2, SoleElsewhere DEF ExportsKept, NoNewUpload, SoleInv
    <2> QED BY <1>01, <2>1, <2>2 DEF SoleInv, OneFilePerFormat
  <1>2. CASE ExportsGivenUp
    BY <1>01, <1>2 DEF ExportsGivenUp, SoleInv, OneFilePerFormat
  \* A write to one row, and to no file.
  <1>3. ASSUME NEW f \in Formats, NEW row \in ExportRow, exports' = [exports EXCEPT ![f] = row],
               files' = files, job.status = "EXPORTING", job'.status = "EXPORTING",
               exports[f].status # "COMPLETED",
               \A v \in Workers, g \in Formats \ {f} : Uncommitted(v, g)' => Uncommitted(v, g),
               Alone(f)'
        PROVE  SoleInv'
    <2>1. \A g \in Formats \ {f} : exports'[g] = exports[g]
      BY <1>0, <1>3
    <2>2. \A g \in Formats \ {f} : Alone(g)'
      BY <1>3, <2>1, SoleElsewhere DEF SoleInv
    <2>3. \A file \in files : exports'[file.format].status = "COMPLETED"
      <3>1. \A file \in files : file.format \in Formats \ {f}
        BY <1>0, <1>3 DEF SoleInv, LifecycleInv, TypeOK, DataOK
      <3> QED BY <1>3, <2>1, <3>1 DEF SoleInv
    <2>4. job'.status \notin Passed("run_export")
      BY <1>3 DEF Passed
    <2> QED BY <1>3, <2>2, <2>3, <2>4 DEF SoleInv, OneFilePerFormat
  <1>4. ASSUME NEW w \in Workers, NEW c \in queue, ExportClaimed(w, c) PROVE SoleInv'
    <2> DEFINE f == c.target
               row == [exports[f] EXCEPT !.status = "RUNNING", !.attempt = AtLeast(@, c.attempt)]
    <2>1. f \in Formats /\ c.attempt \in Nat /\ exports[f] \in ExportRow
      BY <1>0, <1>4 DEF ExportClaimed, Takes, WorkOf, QueueOK, Command
    <2>2. /\ row \in ExportRow /\ row.status = "RUNNING" /\ row.attempt >= exports[f].attempt
          /\ exports' = [exports EXCEPT ![f] = row]
      <3>1. exports' = [exports EXCEPT ![f] = row]
        BY <1>0, <1>4, <2>1 DEF ExportClaimed
      <3>2. /\ AtLeast(exports[f].attempt, c.attempt) \in Nat
            /\ AtLeast(exports[f].attempt, c.attempt) >= exports[f].attempt
        BY <2>1 DEF AtLeast, ExportRow
      <3> QED BY <2>1, <3>1, <3>2 DEF ExportRow
    <2>3. /\ running'[w] = [cmd |-> c, target |-> f, blob |-> None, step |-> "working"]
          /\ \A v \in Workers \ {w} : running'[v] = running[v]
      <3>1. SlotTaken(w, c, f)
        BY <1>4 DEF ExportClaimed, Takes, Delivered, SlotTaken
      <3> QED BY <1>0, <3>1, SlotEffects
    <2>4. running'[w].target = f
      BY <2>3
    <2>5. /\ \A v \in Workers \ {w}, g \in Formats : Uncommitted(v, g)' => Uncommitted(v, g)
          /\ \A g \in Formats \ {f} : ~Uncommitted(w, g)'
      BY <2>3, <2>4 DEF Uncommitted, Working
    <2>6. exports'[f] = row
      BY <1>0, <2>1, <2>2
    <2>7. Alone(f)'
      <3> HIDE DEF row
      <3>1. CASE Sole(f)
        <4>1. \A v \in Workers : ~Uncommitted(v, f)
          BY <1>4, <3>1 DEF ExportClaimed, Sole
        <4> QED BY <2>1, <2>2, <2>5, <2>6, <4>1 DEF Sole, Alone
      <3>2. CASE StaleLeases /\ exports[f].attempt >= ExportRetries
        <4>1. exports'[f].attempt >= exports[f].attempt /\ exports'[f].attempt \in Nat
          BY <2>2, <2>6 DEF ExportRow
        <4>2. exports'[f].attempt >= ExportRetries
          BY <2>1, <3>2, <4>1, StoreAssumption DEF ExportRow
        <4> QED BY <3>2, <4>2 DEF Alone
      <3> QED BY <1>4, <2>1, <3>1, <3>2 DEF ExportClaimed, SoleInv, Alone
    <2>8. /\ files' = files /\ job.status = "EXPORTING" /\ job'.status = "EXPORTING"
          /\ exports[f].status # "COMPLETED"
      BY <1>4 DEF ExportClaimed
    <2> HIDE DEF row
    <2> QED BY <1>3, <2>1, <2>2, <2>5, <2>7, <2>8
  <1>5. ASSUME NEW w \in Workers, ResultsStored(w) PROVE SoleInv'
    <2>1. files' = {} /\ job'.status = "EXPORTING"
      BY <1>5 DEF ResultsStored, Lands, SoleInv, Passed
    <2>2. \A v \in Workers, f \in Formats : ~Uncommitted(v, f)
      BY <1>0, <1>5 DEF Uncommitted, Working, ResultsStored, PipelineInv, SlotInv, OutboxInv, QueueOK,
                        Passed
    <2>3. \A v \in Workers, f \in Formats : ~Uncommitted(v, f)'
      <3>1. running'[w] = None /\ \A v \in Workers \ {w} : running'[v] = running[v]
        BY <1>0, <1>5 DEF ResultsStored, Ends, Finish, RunningOK
      <3> QED BY <2>2, <3>1 DEF Uncommitted, Working
    <2>4. \A f \in Formats : Alone(f)'
      BY <2>3 DEF Sole, Alone
    <2>5. OneFilePerFormat' /\ job'.status \notin Passed("run_export")
      BY <2>1 DEF OneFilePerFormat, Passed
    <2> QED BY <2>1, <2>4, <2>5 DEF SoleInv
  <1>6. ASSUME NEW w \in Workers, FilePublished(w) PROVE SoleInv'
    <2>0. PICK f \in Formats : f = running[w].target
      BY <1>0, <1>6 DEF FilePublished, AtStep, Working, RunningOK, Operation, WorkOf
    <2> DEFINE new == [format |-> f, blob |-> running[w].blob]
    <2>1. /\ running[w] \in Operation /\ f \in Formats /\ Uncommitted(w, f)
          /\ job.status = "EXPORTING" /\ exports[f].status # "COMPLETED"
      BY <1>0, <1>6, <2>0 DEF FilePublished, AtStep, Working, RunningOK, Operation, WorkOf, Uncommitted
    <2>2. /\ running'[w].step = "committed"
          /\ \A v \in Workers \ {w} : running'[v] = running[v]
      <3>1. running'[w] = [running[w] EXCEPT !.step = "committed"]
        BY <1>0, <1>6 DEF FilePublished, RunningOK
      <3>2. running'[w].step = "committed"
        BY <2>1, <3>1 DEF Operation
      <3> QED BY <1>0, <1>6, <3>2 DEF FilePublished, RunningOK
    <2>3. \A v \in Workers, g \in Formats : Uncommitted(v, g)' => v # w /\ Uncommitted(v, g)
      BY <2>2 DEF Uncommitted, Working
    <2>4. /\ exports'[f].status = "COMPLETED" /\ exports'[f].attempt = exports[f].attempt
          /\ \A g \in Formats \ {f} : exports'[g] = exports[g]
      <3>1. exports'[f] = [exports[f] EXCEPT !.status = "COMPLETED"] /\ exports[f] \in ExportRow
        BY <1>0, <1>6, <2>0, <2>1 DEF FilePublished
      <3>2. exports'[f].status = "COMPLETED" /\ exports'[f].attempt = exports[f].attempt
        BY <3>1 DEF ExportRow
      <3> QED BY <1>0, <1>6, <2>0, <3>2 DEF FilePublished
    <2>5. Alone(f)'
      <3>1. CASE Sole(f)
        BY <2>1, <2>3, <3>1 DEF Sole, Alone
      <3>2. CASE StaleLeases /\ exports[f].attempt >= ExportRetries
        BY <2>4, <3>2 DEF Alone
      <3> QED BY <2>1, <3>1, <3>2 DEF SoleInv, Alone
    <2>6. \A g \in Formats \ {f} : Alone(g)'
      BY <2>1, <2>3, <2>4, SoleElsewhere DEF SoleInv
    <2>7. files' = files \cup {new} /\ new.format = f
      BY <1>6, <2>0 DEF FilePublished
    <2>8. \A file \in files : file.format \in Formats \ {f}
      BY <1>0, <2>1 DEF SoleInv, LifecycleInv, TypeOK, DataOK
    <2>9. \A file \in files' : exports'[file.format].status = "COMPLETED"
      <3> HIDE DEF new
      <3> QED BY <2>1, <2>4, <2>7, <2>8 DEF SoleInv
    <2>10. OneFilePerFormat'
      <3> HIDE DEF new
      <3> QED BY <2>7, <2>8 DEF SoleInv, OneFilePerFormat
    <2>11. job'.status \notin Passed("run_export")
      BY <1>6 DEF FilePublished, Lands, Passed
    <2> QED BY <2>5, <2>6, <2>9, <2>10, <2>11 DEF SoleInv
  <1>7. ASSUME NEW w \in Workers, ExportRetried(w) PROVE SoleInv'
    <2>0. PICK f \in Formats : f = running[w].target
      BY <1>0, <1>7 DEF ExportRetried, Working, RunningOK, Operation, WorkOf
    <2> DEFINE row == [exports[f] EXCEPT !.status = "QUEUED", !.attempt = @ + 1]
    <2>1. /\ f \in Formats /\ Uncommitted(w, f) /\ exports[f] \in ExportRow
          /\ job.status = "EXPORTING" /\ job'.status = "EXPORTING" /\ files' = files
      BY <1>0, <1>7, <2>0 DEF ExportRetried, Working, RunningOK, Operation, WorkOf, Uncommitted, Lands
    <2>2. row \in ExportRow /\ exports' = [exports EXCEPT ![f] = row]
      BY <1>0, <1>7, <2>0, <2>1 DEF ExportRetried, ExportRow
    <2>3. /\ running'[w] = None /\ \A v \in Workers \ {w} : running'[v] = running[v]
      BY <1>0, <1>7 DEF ExportRetried, Requeue, RunningOK
    <2>4. \A v \in Workers, g \in Formats : Uncommitted(v, g)' => v # w /\ Uncommitted(v, g)
      BY <2>3 DEF Uncommitted, Working
    <2>5. Sole(f)
      BY <1>7, <2>0, <2>1, StoreAssumption DEF SoleInv, Alone, ExportRetried, ExportRow
    <2>6. Sole(f)' /\ exports[f].status # "COMPLETED"
      BY <2>1, <2>4, <2>5 DEF Sole
    <2> HIDE DEF row
    <2> QED BY <1>3, <2>1, <2>2, <2>4, <2>6 DEF Alone
  <1>8. ASSUME NEW t \in RecoveryTargets, ExportRecovered(t) PROVE SoleInv'
    <2> DEFINE row == [status |-> "QUEUED", attempt |-> RecoveredExportAttempt(t)]
    <2>1. /\ t \in Formats /\ exports[t].status = "RUNNING" /\ job.status = "EXPORTING"
          /\ job'.status = "EXPORTING" /\ files' = files /\ running' = running
          /\ job.lease = "expired"
      <3>1. job.status = "EXPORTING"
        BY <1>00, <1>8 DEF ExportRecovered, RecoveryPhase, Recovered, Recoverable
      <3> QED BY <1>8, <3>1 DEF ExportRecovered, RecoveryTargets, Recovered, Recoverable, Lands
    <2>2. RecoveredExportAttempt(t) \in Nat /\ RecoveredExportAttempt(t) >= 2
      <3>1. RecoveredRow.attempt \in Nat /\ RecoveredRow.attempt >= 1
        BY <1>00 DEF RecoveredRow, Released, JobRow
      <3>2. exports[t].attempt \in Nat
        BY <1>0, <2>1 DEF ExportRow
      <3> QED BY <3>1, <3>2 DEF RecoveredExportAttempt, AtLeast
    <2>3. row \in ExportRow /\ exports' = [exports EXCEPT ![t] = row] /\ exports'[t] = row
      BY <1>0, <1>8, <2>1, <2>2 DEF ExportRecovered, Recovered, ExportRow
    <2>4. \A v \in Workers, g \in Formats : Uncommitted(v, g)' => Uncommitted(v, g)
      BY <2>1 DEF Uncommitted, Working
    <2>5. Alone(t)'
      <3>1. CASE StaleLeases
        BY <2>2, <2>3, <3>1, StoreAssumption DEF Alone
      <3>2. CASE ~StaleLeases
        <4>1. \A v \in Workers : running'[v] = None
          BY <2>1, <3>2 DEF PipelineInv, SlotInv
        <4> QED BY <4>1 DEF Sole, Alone, Uncommitted, Working
      <3> QED BY <3>1, <3>2
    <2> HIDE DEF row
    <2> QED BY <1>3, <2>1, <2>3, <2>4, <2>5
  <1> QED BY <1>1, <1>2, <1>4, <1>5, <1>6, <1>7, <1>8, ExportChanges DEF ExportsWritten

\* OneFilePerFormat: no format is published twice, if no error can reach an
\* export after its commit and a lapsed lease cannot put an export with retries
\* left back to work under a running operation.
THEOREM FormatsArePublishedOnce ==
    ASSUME <<"late", "run_export">> \notin Faults, ~StaleLeases \/ ExportRetries <= 2
    PROVE  Spec => []OneFilePerFormat
  <1>1. Init => SoleInv
    BY DEF Init, QueuedRow, SoleInv, OneFilePerFormat, Passed
  <1>2. PipelineInv /\ SoleInv /\ [Next]_vars => SoleInv'
    BY StepSole
  <1>3. SoleInv => OneFilePerFormat
    BY DEF SoleInv
  <1> QED BY <1>1, <1>2, <1>3, PipelineInvariant, PTL DEF Spec

=============================================================================
