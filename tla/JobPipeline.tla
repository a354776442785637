----------------------------- MODULE JobPipeline -----------------------------
(***************************************************************************)
(* One extraction job from POST /api/jobs to its last file: the stages of  *)
(* the worker, the recovery cron, cancellation and faults over the durable *)
(* state of JobStore.                                                      *)
(***************************************************************************)
EXTENDS PlanningStage, DiscoveryStage, ExtractionStage, ValidationStage, ExportStage,
        JobRecovery, JobCancellation

\* The row create_job inserts.
QueuedRow == [status |-> "QUEUED", version |-> 0, progress |-> 0, attempt |-> 0,
              cancelRequested |-> FALSE, lease |-> "none"]

\* The commit of create_job.
Init ==
    /\ job = QueuedRow
    /\ events = <<"QUEUED">>
    /\ outbox = {PlanCommand}
    /\ published = {}
    /\ queue = {}
    /\ running = [w \in Workers |-> None]
    /\ pages = [p \in Pages |-> [status |-> "absent", depth |-> 0, extraction |-> "none"]]
    /\ records = {}
    /\ validation = [status |-> "absent", results |-> {}]
    /\ exports = [f \in Formats |-> [status |-> "absent", attempt |-> 0]]
    /\ files = {}
    /\ store = {}
    /\ clients = [c \in Clients |-> [phase |-> "idle", row |-> QueuedRow]]
    /\ faults = 0

\* The worker function raises after complete_export has committed: a timeout or
\* a lost connection while the session closes.
LateExportError(w) ==
    /\ AtStep(w, "committed")
    /\ Inject("late", "run_export")
    /\ \E retryable \in BOOLEAN : ExportError(w, retryable)

WorkerStep(w) ==
    \/ PlanningStep(w) \/ DiscoveryStep(w) \/ ExtractionStep(w)
    \/ ValidationStep(w) \/ ExportStep(w)

Next ==
    \/ \E w \in Workers : WorkerStep(w) \/ LateExportError(w)
    \/ RecoveryStep \/ CancelStep \/ FaultStep

Spec == Init /\ [][Next]_vars

\* The cron runs every 15 seconds, arq keeps handing out messages, an operation
\* ends within its timeouts, and time passes on a lease.
Fairness ==
    /\ WF_vars(Dispatch) /\ WF_vars(LeaseExpires)
    /\ WF_vars(RecoverExhausted) /\ WF_vars(RecoverLease)
    /\ \A w \in Workers : WF_vars(WorkerStep(w))

FairSpec == Spec /\ Fairness

-----------------------------------------------------------------------------

JobOK ==
    /\ job \in JobRow
    /\ events \in Seq(JobStatus)

QueueOK ==
    /\ outbox \subseteq Command
    /\ published \subseteq outbox
    /\ queue \subseteq outbox

RunningOK == running \in [Workers -> Operation \cup {None}]

DataOK ==
    /\ pages \in [Pages -> PageRow]
    /\ records \subseteq Pages \X Items
    /\ validation \in ValidationRow
    /\ exports \in [Formats -> ExportRow]
    /\ files \subseteq [format : Formats, blob : Blobs]
    /\ store \subseteq Blobs

EnvironmentOK ==
    /\ clients \in [Clients -> CancelRequest]
    /\ faults \in 0..MaxFaults

\* Every row has the columns models.py gives it, every message and claim names
\* a durable command, and every operation a unit of work of its kind.
TypeOK == JobOK /\ QueueOK /\ RunningOK /\ DataOK /\ EnvironmentOK

=============================================================================
