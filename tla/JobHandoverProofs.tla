-------------------------- MODULE JobHandoverProofs --------------------------
(***************************************************************************)
(* What one stage leaves to the next.  A job that leaves discovery has     *)
(* visited all its pages, one that leaves extraction has read them, and    *)
(* each stage is kept going by a message that will not be turned away, or  *)
(* by an operation that will leave one behind.                             *)
(***************************************************************************)
EXTENDS JobDataProofs

-----------------------------------------------------------------------------
(* The end of discovery *)

Left(inv) == {p \in Pages : inv[p].status \in {"QUEUED", "DISCOVERED"}}

\* The page that discovery, its retries and its recovery all turn to next.
NextPage == Foremost(Left(pages), pages)

BeforeDiscovery == Passed("run_discovery")
AfterDiscovery == {"EXTRACTING", "VALIDATING", "EXPORTING", "COMPLETED"}

\* The page being visited is the foremost one that is left, and no other page
\* is named by a message that could still claim it.
VisitInv ==
    /\ job.status \in BeforeDiscovery => \A p \in Pages : pages[p].status = "absent"
    /\ job.status = "DISCOVERING" =>
        /\ \A p \in Pages : pages[p].status = "QUEUED" => p \in NextPage
        /\ \A c \in outbox : c.type = "run_discovery" =>
                c.target \in NextPage \/ pages[c.target].status = "VISITED"
    /\ InventoryComplete

\* The order of the inventory is total.
LEMMA ForemostIsUnique ==
    ASSUME NEW inv \in [Pages -> PageRow], NEW S \in SUBSET Pages,
           NEW p \in Foremost(S, inv), NEW q \in Foremost(S, inv)
    PROVE  p = q
  <1>1. p \in Pages /\ q \in Pages /\ inv[p].depth \in Nat /\ inv[q].depth \in Nat
    BY DEF Foremost, PageRow
  <1>2. Rank[p] \in Nat /\ Rank[q] \in Nat /\ (Rank[p] = Rank[q] => p = q)
    BY <1>1, StoreAssumption
  <1>3. /\ inv[p].depth < inv[q].depth \/ (inv[p].depth = inv[q].depth /\ Rank[p] <= Rank[q])
        /\ inv[q].depth < inv[p].depth \/ (inv[q].depth = inv[p].depth /\ Rank[q] <= Rank[p])
    BY DEF Foremost
  <1> QED BY <1>1, <1>2, <1>3

\* The inventory rows keep their status and depth.
RowsKept ==
    \A p \in Pages : pages'[p].status = pages[p].status /\ pages'[p].depth = pages[p].depth

\* The job enters or leaves discovery only by the steps that write its pages.
DiscoveryUntouched ==
    /\ RowsKept
    /\ \A c \in outbox' \ outbox : c.type # "run_discovery"
    /\ job'.status \in BeforeDiscovery => job.status \in BeforeDiscovery
    /\ job'.status = "DISCOVERING" => job.status = "DISCOVERING"
    /\ job'.status \in AfterDiscovery => job.status \in AfterDiscovery

\* Who writes the inventory.
LEMMA InventoryChanges ==
    ASSUME PipelineInv, [Next]_vars, job'.status \notin {"FAILED", "CANCELLED"}
    PROVE  \/ DiscoveryUntouched
           \/ \E w \in Workers :
                \/ PageCaptured(w) \/ PageRetried(w)
                \/ \E c \in queue, p \in Pages : PageClaimed(w, c, p)
                \/ \E inv, next : PageVisited(w, inv, next)
           \/ \E t \in RecoveryTargets : Recovered(t) /\ RecoveryPhase = "discovery"
  <1> DEFINE Goal ==
               \/ DiscoveryUntouched
               \/ \E w \in Workers :
                    \/ PageCaptured(w) \/ PageRetried(w)
                    \/ \E c \in queue, p \in Pages : PageClaimed(w, c, p)
                    \/ \E inv, next : PageVisited(w, inv, next)
               \/ \E t \in RecoveryTargets : Recovered(t) /\ RecoveryPhase = "discovery"
  <1>0. LifecycleInv /\ RunningOK /\ QueueOK /\ pages \in [Pages -> PageRow]
    BY DEF PipelineInv, LifecycleInv, TypeOK, DataOK
  <1>1. ASSUME pages' = pages, outbox' = outbox, job'.status = job.status PROVE DiscoveryUntouched
    BY <1>1 DEF DiscoveryUntouched, RowsKept
  <1>2. CASE Undisturbed("run_discovery") \/ Slips("run_discovery") \/ Misdelivered("run_discovery")
    BY <1>1, <1>2 DEF Undisturbed, Slips, Misdelivered, Ignored, Crashed, Abandoned, TurnedAway, Lost,
                      Redelivered, dataVars, Stored
  <1>3. CASE Progresses
    <2>1. ASSUME NEW w \in Workers, NEW c \in queue, PlanClaimed(w, c) PROVE DiscoveryUntouched
      <3>1. job.status \in {"QUEUED", "PLANNING"} /\ job'.status = "PLANNING"
        BY <2>1 DEF PlanClaimed, PlanningClaimable, Accepts
      <3> QED BY <2>1, <3>1
              DEF PlanClaimed, Takes, dataVars, Stored, DiscoveryUntouched, RowsKept, BeforeDiscovery,
                  Passed, AfterDiscovery
    <2>2. ASSUME NEW w \in Workers, NEW c \in queue,
                 CaptureClaimed(w, c) \/ ValidationClaimed(w, c) \/ ExportClaimed(w, c)
          PROVE  DiscoveryUntouched
      BY <1>1, <2>2 DEF CaptureClaimed, ValidationClaimed, ExportClaimed, Takes, Stored, dataVars
    <2>3. ASSUME NEW w \in Workers, NEW c \in queue, NEW p \in Pages, ReadClaimed(w, c, p)
          PROVE  DiscoveryUntouched
      <3>1. RowsKept
        BY <1>0, <2>3 DEF ReadClaimed, RowsKept
      <3> QED BY <2>3, <3>1 DEF ReadClaimed, Takes, Stored, DiscoveryUntouched
    <2>4. ASSUME NEW w \in Workers, PlanStored(w) PROVE DiscoveryUntouched
      BY <2>4 DEF PlanStored, Insert, CaptureCommand, NewCommand, Lands, dataVars, DiscoveryUntouched,
                  RowsKept, BeforeDiscovery, Passed, AfterDiscovery
    <2>5. ASSUME NEW w \in Workers, ResultsStored(w) PROVE DiscoveryUntouched
      BY <2>5 DEF ResultsStored, ExportCommand, NewCommand, Lands, DiscoveryUntouched,
                  RowsKept, BeforeDiscovery, Passed, AfterDiscovery
    <2>6. ASSUME NEW w \in Workers, FilePublished(w) PROVE DiscoveryUntouched
      <3>1. job.status = "EXPORTING" /\ job'.status \in {"EXPORTING", "COMPLETED"}
        BY <2>6 DEF FilePublished, Lands
      <3> QED BY <2>6, <3>1 DEF FilePublished, queueVars, DiscoveryUntouched,
                  RowsKept, BeforeDiscovery, Passed, AfterDiscovery
    <2>7. ASSUME NEW w \in Workers, NEW x, NEW next, PageRead(w, x, next) PROVE DiscoveryUntouched
      <3>1. RowsKept
        BY <1>0, <2>7 DEF PageRead, RowsKept
      <3>2. next.type # "run_discovery"
        BY <2>7 DEF PageRead, AfterReading, ValidateCommand, ReadCommand, NewCommand
      <3>3. job.status = "EXTRACTING" /\ job'.status \in {"EXTRACTING", "VALIDATING"}
        BY <2>7 DEF PageRead, Lands
      <3> QED BY <2>7, <3>1, <3>2, <3>3
              DEF PageRead, Insert, DiscoveryUntouched, BeforeDiscovery, Passed, AfterDiscovery
    <2>8. ASSUME NEW w \in Workers, PlanRetried(w) \/ ValidationRetried(w) \/ ExportRetried(w)
          PROVE  DiscoveryUntouched
      BY <1>1, <2>8 DEF PlanRetried, ValidationRetried, ExportRetried, Retries, Lands, Stored, dataVars
    <2>9. ASSUME NEW w \in Workers, ReadRetried(w) PROVE DiscoveryUntouched
      <3>1. RowsKept
        BY <1>0, <2>9 DEF ReadRetried, RowsKept
      <3> QED BY <2>9, <3>1 DEF ReadRetried, Retries, Lands, Stored, DiscoveryUntouched
    <2>10. ASSUME NEW w \in Workers, UploadRefused(w) \/ \E b \in Blobs : Uploaded(w, b)
           PROVE  DiscoveryUntouched
      BY <1>1, <2>10, Landings DEF queueVars
    <2>11. CASE RecoveredNothing
      BY <1>1, <2>11 DEF RecoveredNothing, Lands, dataVars
    <2>12. ASSUME NEW t \in RecoveryTargets, Recovered(t), RecoveryPhase # "discovery"
           PROVE  DiscoveryUntouched
      <3>1. RecoveryCommand(t).type # "run_discovery"
        BY <2>12 DEF RecoveryCommand, RecoveryType, RecoveryPhase
      <3> QED BY <2>12, <3>1 DEF Recovered, Insert, Lands, DiscoveryUntouched, RowsKept
    <2> QED BY <1>3, <2>1, <2>2, <2>3, <2>4, <2>5, <2>6, <2>7, <2>8, <2>9, <2>10, <2>11, <2>12
            DEF Progresses
  <1> QED BY <1>2, <1>3, StageSteps DEF CommandType

\* A page that is left stays so when it is claimed, retried or recovered.
LEMMA StillLeft ==
    ASSUME pages \in [Pages -> PageRow], NEW p \in Left(pages), NEW s \in {"QUEUED", "DISCOVERED"},
           pages' = [pages EXCEPT ![p].status = s]
    PROVE  /\ NextPage' = NextPage
           /\ pages'[p].status = s
           /\ \A q \in Pages \ {p} : pages'[q] = pages[q]
  <1>1. p \in Pages /\ pages[p].status \in {"QUEUED", "DISCOVERED"}
    BY DEF Left
  <1>2. /\ pages'[p].status = s /\ pages'[p].depth = pages[p].depth
        /\ \A q \in Pages \ {p} : pages'[q] = pages[q]
    BY <1>1 DEF PageRow
  <1>3. \A q \in Pages : pages'[q].depth = pages[q].depth
    BY <1>2
  <1>4. Left(pages') = Left(pages)
    BY <1>1, <1>2 DEF Left
  <1>5. \A q \in Left(pages) : q \in Pages
    BY DEF Left
  <1>6. Foremost(Left(pages), pages') = Foremost(Left(pages), pages)
    BY <1>3, <1>5 DEF Foremost
  <1> QED BY <1>2, <1>4, <1>6 DEF NextPage

\* Nothing changes for the pages that are left.
LEMMA VisitsUntouched ==
    ASSUME PipelineInv, VisitInv, DiscoveryUntouched
    PROVE  VisitInv'
  <1>1. \A p \in Pages : pages'[p].status = pages[p].status /\ pages'[p].depth = pages[p].depth
    BY DEF DiscoveryUntouched, RowsKept
  <1>2. Left(pages') = Left(pages) /\ \A p \in Left(pages) : p \in Pages
    BY <1>1 DEF Left
  <1>3. Foremost(Left(pages), pages') = Foremost(Left(pages), pages)
    BY <1>1, <1>2 DEF Foremost
  <1>4. NextPage' = NextPage
    BY <1>2, <1>3 DEF NextPage
  <1>5. InventoryComplete'
    <2>1. \A s \in PageStatus : WithStatus(pages', s) = WithStatus(pages, s)
      BY <1>1 DEF WithStatus
    <2> QED BY <2>1 DEF VisitInv, InventoryComplete, DiscoveryUntouched, AfterDiscovery, PageStatus
  <1>6. job'.status \in BeforeDiscovery => \A p \in Pages : pages'[p].status = "absent"
    BY <1>1 DEF VisitInv, DiscoveryUntouched
  <1>7. ASSUME job'.status = "DISCOVERING"
        PROVE  /\ \A p \in Pages : pages'[p].status = "QUEUED" => p \in NextPage'
               /\ \A c \in outbox' : c.type = "run_discovery" =>
                        c.target \in NextPage' \/ pages'[c.target].status = "VISITED"
    <2>1. job.status = "DISCOVERING"
      BY <1>7 DEF DiscoveryUntouched
    <2>2. \A c \in outbox : c.type = "run_discovery" =>
                c.target \in NextPage \/ pages[c.target].status = "VISITED"
      BY <2>1 DEF VisitInv
    <2>3. \A c \in outbox' : c.type = "run_discovery" => c \in outbox /\ c.target \in Pages
      BY DEF DiscoveryUntouched, PipelineInv, LifecycleInv, TypeOK, QueueOK, Command, WorkOf
    <2> QED BY <1>1, <1>4, <2>1, <2>2, <2>3 DEF VisitInv
  <1> QED BY <1>5, <1>6, <1>7 DEF VisitInv, BeforeDiscovery, Passed

\* The page of a claim, a retry or a recovery is the one that comes next anyway.
LEMMA SamePageNext ==
    ASSUME PipelineInv, VisitInv, job.status = "DISCOVERING", job'.status = "DISCOVERING",
           NEW p \in NextPage, NEW s \in {"QUEUED", "DISCOVERED"},
           pages' = [pages EXCEPT ![p].status = s],
           \A c \in outbox' \ outbox : c.target = p
    PROVE  VisitInv'
  <1>0. pages \in [Pages -> PageRow]
    BY DEF PipelineInv, LifecycleInv, TypeOK, DataOK
  <1>1. p \in Left(pages) /\ p \in Pages
    BY DEF NextPage, Foremost, Left
  <1>2. /\ NextPage' = NextPage
        /\ \A q \in Pages \ {p} : pages'[q] = pages[q]
    BY <1>0, <1>1, StillLeft
  <1>3. \A q \in Pages : pages'[q].status = "QUEUED" => q \in NextPage'
    BY <1>2 DEF VisitInv
  <1>4. ASSUME NEW c \in outbox', c.type = "run_discovery"
        PROVE  c.target \in NextPage' \/ pages'[c.target].status = "VISITED"
    <2>1. CASE c.target = p
      BY <1>2, <2>1
    <2>2. CASE c.target # p
      <3>1. c \in outbox /\ c.target \in Pages
        BY <1>4, <2>2 DEF PipelineInv, LifecycleInv, TypeOK, QueueOK, Command, WorkOf
      <3>2. c.target \in NextPage \/ pages[c.target].status = "VISITED"
        BY <1>4, <3>1 DEF VisitInv
      <3> QED BY <1>2, <2>2, <3>1, <3>2
    <2> QED BY <2>1, <2>2
  <1> QED BY <1>3, <1>4 DEF VisitInv, BeforeDiscovery, Passed, InventoryComplete

\* VisitInv is inductive while no lease lapses under a running operation.
LEMMA StepVisits ==
    ASSUME ~StaleLeases, PipelineInv, ClaimInv, VisitInv, [Next]_vars
    PROVE  VisitInv'
  <1>0. LifecycleInv /\ RunningOK /\ QueueOK /\ pages \in [Pages -> PageRow]
    BY DEF PipelineInv, LifecycleInv, TypeOK, DataOK
  <1>1. CASE job'.status \in {"FAILED", "CANCELLED"}
    BY <1>1 DEF VisitInv, BeforeDiscovery, Passed, InventoryComplete
  <1>2. CASE DiscoveryUntouched
    BY <1>2, VisitsUntouched
  <1>3. ASSUME NEW w \in Workers, NEW c \in queue, NEW p \in Pages, PageClaimed(w, c, p)
        PROVE  VisitInv'
    <2>1. /\ job.status = "DISCOVERING" /\ job'.status = "DISCOVERING" /\ outbox' = outbox
          /\ c.type = "run_discovery" /\ p = c.target /\ pages[p].status = "DISCOVERED"
          /\ pages' = [pages EXCEPT ![p].status = "QUEUED"]
      BY <1>3 DEF PageClaimed, Takes, Delivered, Stored
    <2>2. c \in outbox
      BY <1>0 DEF QueueOK
    <2>3. p \in NextPage
      BY <2>1, <2>2 DEF VisitInv
    <2> QED BY <2>1, <2>3, SamePageNext
  <1>4. ASSUME NEW w \in Workers, PageRetried(w) PROVE VisitInv'
    <2> DEFINE p == running[w].cmd.target
    <2>1. /\ job.status = "DISCOVERING" /\ job'.status = "DISCOVERING" /\ outbox' = outbox
          /\ running[w] # None /\ running[w].cmd.type = "run_discovery"
          /\ pages' = [pages EXCEPT ![p].status = "DISCOVERED"]
      BY <1>4 DEF PageRetried, Retries, Lands, Working, Stored
    <2>2. p = running[w].target /\ p \in Pages
      BY <1>0, <2>1 DEF ClaimInv, RunningOK, Operation, WorkOf
    <2>3. pages[p].status = "QUEUED"
      BY <2>1, <2>2 DEF ClaimInv, Held
    <2>4. p \in NextPage
      BY <2>1, <2>2, <2>3 DEF VisitInv
    <2> HIDE DEF p
    <2> QED BY <2>1, <2>4, SamePageNext
  <1>5. ASSUME NEW t \in RecoveryTargets, Recovered(t), RecoveryPhase = "discovery"
        PROVE  VisitInv'
    <2>1. job.status = "DISCOVERING" /\ job'.status = "DISCOVERING"
      BY <1>5 DEF RecoveryPhase, Recovered, Lands
    <2>2. t \in NextPage
      BY <1>5 DEF RecoveryTargets, NextPage, Left
    <2>3. pages' = [pages EXCEPT ![t].status = "DISCOVERED"]
      BY <1>5 DEF Recovered
    <2>4. \A c \in outbox' \ outbox : c.target = t
      BY <1>5 DEF Recovered, Insert, RecoveryCommand
    <2> QED BY <2>1, <2>2, <2>3, <2>4, SamePageNext
  <1>6. ASSUME NEW w \in Workers, PageCaptured(w) PROVE VisitInv'
    <2>1. /\ job.status = "BROWSER_INITIALIZING" /\ job'.status = "DISCOVERING"
          /\ outbox' = outbox \cup {SourceCommand}
          /\ pages' = [pages EXCEPT ![SourcePage].status = "DISCOVERED", ![SourcePage].depth = 0]
      BY <1>6 DEF PageCaptured, Lands, Insert
    <2>2. SourcePage \in Pages /\ SourceCommand.target = SourcePage
      BY StoreAssumption DEF SourceCommand, NewCommand
    <2>3. \A p \in Pages : pages[p].status = "absent"
      BY <2>1 DEF VisitInv, BeforeDiscovery, Passed
    <2>4. /\ pages'[SourcePage].status = "DISCOVERED"
          /\ \A p \in Pages \ {SourcePage} : pages'[p].status = "absent"
          /\ pages' \in [Pages -> PageRow]
      <3> DEFINE row == [[pages[SourcePage] EXCEPT !.status = "DISCOVERED"] EXCEPT !.depth = 0]
      <3>1. row \in PageRow /\ row.status = "DISCOVERED"
        BY <1>0, <2>2 DEF PageRow, PageStatus
      <3>2. pages' = [pages EXCEPT ![SourcePage] = row]
        BY <1>0, <2>1, <2>2
      <3> HIDE DEF row
      <3> QED BY <1>0, <2>2, <2>3, <3>1, <3>2
    <2>5. Left(pages') = {SourcePage}
      BY <2>2, <2>4 DEF Left
    <2>6. Foremost({SourcePage}, pages') # {}
      BY <2>2, <2>4, ForemostExists
    <2>7. SourcePage \in Foremost(Left(pages'), pages')
      BY <2>5, <2>6 DEF Foremost
    <2>8. SourcePage \in NextPage'
      BY <2>7 DEF NextPage
    <2>9. \A c \in outbox' : c.type = "run_discovery" => c.target = SourcePage
      BY <2>1, <2>2 DEF PipelineInv, OutboxInv, Passed
    <2> QED BY <2>1, <2>4, <2>8, <2>9 DEF VisitInv, BeforeDiscovery, Passed, InventoryComplete
  <1>7. ASSUME NEW w \in Workers, NEW inv, NEW next, PageVisited(w, inv, next) PROVE VisitInv'
    <2> DEFINE r == running[w].target
    <2>1. /\ job.status = "DISCOVERING" /\ pages' = inv
          /\ running[w] # None /\ running[w].cmd.type = "run_discovery"
          /\ inv \in VisitOutcomes(r) /\ next \in FollowUps(inv)
          /\ outbox' = outbox \cup {next}
          /\ IF next = ExtractCommand THEN job'.status = "EXTRACTING" ELSE job'.status = "DISCOVERING"
      BY <1>7 DEF PageVisited, Ends, Working, Insert, Lands
    <2>2. r \in Pages /\ pages[r].status = "QUEUED"
      BY <1>0, <2>1 DEF RunningOK, Operation, WorkOf, ClaimInv, Held
    <2>3. /\ inv \in [Pages -> PageRow] /\ inv[r].status = "VISITED"
          /\ \A q \in Pages \ {r} :
                inv[q] = pages[q] \/ inv[q].status \in {"DISCOVERED", "SKIPPED", "REJECTED"}
      BY <1>0, <2>1, <2>2, VisitKeeps
    <2>4. r \in NextPage
      BY <2>1, <2>2 DEF VisitInv
    <2>40. Left(pages) \in SUBSET Pages
      BY DEF Left
    <2>41. \A q \in NextPage : q = r
      BY <1>0, <2>4, <2>40, ForemostIsUnique DEF NextPage
    <2>5. \A q \in Pages : inv[q].status # "QUEUED"
      <3>1. ASSUME NEW q \in Pages, inv[q].status = "QUEUED" PROVE FALSE
        <4>1. q # r /\ pages[q].status = "QUEUED"
          BY <2>3, <3>1
        <4>2. q \in NextPage
          BY <2>1, <4>1 DEF VisitInv
        <4> QED BY <2>41, <4>1, <4>2
      <3> QED BY <3>1
    <2>6. Left(inv) = WithStatus(inv, "DISCOVERED")
      BY <2>5 DEF Left, WithStatus
    <2> HIDE DEF r
    <2>7. CASE next = ExtractCommand
      <3>1. job'.status = "EXTRACTING"
        BY <2>1, <2>7
      <3>2. Foremost(Left(inv), inv) = {}
        <4>1. ASSUME NEW p \in Pages, next = PageCommand(p) PROVE FALSE
          BY <2>7, <4>1 DEF PageCommand, ExtractCommand, NewCommand
        <4>2. \A p \in Foremost(Left(inv), inv) : p \in Pages
          BY DEF Foremost, Left
        <4> QED BY <2>1, <2>6, <4>1, <4>2 DEF FollowUps
      <3>3. Left(inv) \in SUBSET Pages
        BY DEF Left
      <3>4. Left(inv) = {}
        BY <2>3, <3>2, <3>3, ForemostExists
      <3>5. WithStatus(pages', "DISCOVERED") = {} /\ WithStatus(pages', "QUEUED") = {}
        BY <2>1, <2>5, <2>6, <3>4 DEF WithStatus
      <3>6. InventoryComplete'
        BY <3>5 DEF InventoryComplete
      <3> QED BY <3>1, <3>6 DEF VisitInv, BeforeDiscovery, Passed
    <2>8. CASE next # ExtractCommand
      <3>1. job'.status = "DISCOVERING"
        BY <2>1, <2>8
      <3>2. PICK p \in Foremost(Left(inv), inv) : next = PageCommand(p)
        BY <2>1, <2>6, <2>8 DEF FollowUps
      <3>3. next.target = p
        BY <3>2 DEF PageCommand, NewCommand
      <3>4. next.target \in NextPage'
        BY <2>1, <3>2, <3>3 DEF NextPage
      <3>5. ASSUME NEW c \in outbox, c.type = "run_discovery"
            PROVE  pages'[c.target].status = "VISITED"
        <4>1. c.target \in Pages
          BY <1>0, <3>5 DEF QueueOK, Command, WorkOf
        <4>2. c.target \in NextPage \/ pages[c.target].status = "VISITED"
          BY <2>1, <3>5 DEF VisitInv
        <4>3. CASE c.target = r
          BY <2>1, <2>3, <4>3
        <4>4. CASE c.target # r
          <5>1. pages[c.target].status = "VISITED"
            BY <2>41, <4>2, <4>4
          <5>2. c.target \in Pages \ {r}
            BY <4>1, <4>4
          <5>3. inv[c.target] = pages[c.target]
            BY <1>0, <2>1, <2>2, <5>1, <5>2, VisitKeeps
          <5> QED BY <2>1, <5>1, <5>3
        <4> QED BY <4>3, <4>4
      <3> QED BY <2>1, <2>5, <3>1, <3>4, <3>5
              DEF VisitInv, BeforeDiscovery, Passed, InventoryComplete
    <2> QED BY <2>7, <2>8
  <1> QED BY <1>1, <1>2, <1>3, <1>4, <1>5, <1>6, <1>7, InventoryChanges

\* InventoryComplete: while no lease lapses under a running operation, a job
\* that leaves discovery has visited every page its inventory holds, whatever
\* crashes, is lost, redelivered or abandoned on the way.
THEOREM InventoryIsExhausted ==
    ASSUME ~StaleLeases
    PROVE  Spec => []InventoryComplete
  <1>1. Init => ClaimInv
    BY DEF Init, ClaimInv, WorkIsClaimedOnce
  <1>2. Init => VisitInv
    <2>1. ASSUME Init PROVE \A p \in Pages : pages[p].status = "absent"
      BY <2>1 DEF Init
    <2> QED BY <2>1 DEF Init, QueuedRow, VisitInv, InventoryComplete, BeforeDiscovery, Passed
  <1>3. PipelineInv /\ ClaimInv /\ [Next]_vars => ClaimInv'
    BY StepClaims
  <1>4. PipelineInv /\ ClaimInv /\ VisitInv /\ [Next]_vars => VisitInv'
    BY StepVisits
  <1>5. VisitInv => InventoryComplete
    BY DEF VisitInv
  <1> QED BY <1>1, <1>2, <1>3, <1>4, <1>5, PipelineInvariant, PTL DEF Spec

-----------------------------------------------------------------------------
(* The end of extraction *)

\* The commands of extraction that may still be executed.
Reads == {c \in queue \cup Pending : c.type = "run_extraction"}

HandedOver == {"VALIDATING", "EXPORTING", "COMPLETED"}

\* One command at a time reads the pages, and a page that was claimed but not
\* read belongs to it, or no command is left that could hand over.
ReadInv ==
    /\ job.status \in Passed("run_extraction") => \A p \in Pages : pages[p].extraction = "none"
    /\ job.status = "EXTRACTING" =>
        /\ \A c, d \in Reads : c = d
        /\ \A c \in Pending : c.type = "run_extraction" => c \notin queue /\ job.lease = "none"
        /\ \A p \in WithStatus(pages, "VISITED") :
              pages[p].extraction \notin {"none", "EXTRACTED", "PARTIAL"} =>
                \/ Reads = {}
                \/ /\ pages[p].extraction = "EXTRACTING"
                   /\ \E w \in Workers : Working(w, "run_extraction") /\ running[w].target = p
    /\ EveryVisitedPageIsRead

\* The commands of extraction stay where they are, or are published.
ReadMessagesKept ==
    /\ outbox \subseteq outbox'
    /\ \A c \in outbox' \ outbox : c.type # "run_extraction"
    /\ \/ Dispatches /\ (Recoverable \/ \E S \in SUBSET Pending : Publish(S))
       \/ published' = published /\ \A c \in outbox : c.type = "run_extraction" => (c \in queue' <=> c \in queue)

\* A step of some other stage.
ReadingUntouched ==
    /\ \A p \in Pages : pages'[p].extraction = pages[p].extraction
    /\ job'.status = "EXTRACTING" => job.status = "EXTRACTING"
    /\ job'.status \in HandedOver => job.status \in HandedOver
    /\ job.status \in {"EXTRACTING"} \cup HandedOver =>
            \A p \in Pages : pages'[p].status = pages[p].status
    /\ job.status = "EXTRACTING" =>
            /\ job.lease = "none" => job'.lease = "none"
            /\ \A w \in Workers : Working(w, "run_extraction") => running'[w] = running[w]
            /\ ReadMessagesKept

\* Who writes what extraction looks at.
LEMMA ReadingChanges ==
    ASSUME PipelineInv, [Next]_vars, job'.status \notin {"FAILED", "CANCELLED"}
    PROVE  \/ ReadingUntouched
           \/ \E w \in Workers :
                \/ \E c \in queue, p \in Pages : ReadClaimed(w, c, p)
                \/ ReadRetried(w)
                \/ \E x, next : PageRead(w, x, next) \/ PageVisited(w, x, next)
           \/ Slips("run_extraction") \/ Misdelivered("run_extraction")
  <1> DEFINE Goal ==
           \/ ReadingUntouched
           \/ \E w \in Workers :
                \/ \E c \in queue, p \in Pages : ReadClaimed(w, c, p)
                \/ ReadRetried(w)
                \/ \E x, next : PageRead(w, x, next) \/ PageVisited(w, x, next)
           \/ Slips("run_extraction") \/ Misdelivered("run_extraction")
  <1>0. LifecycleInv /\ RunningOK /\ QueueOK /\ pages \in [Pages -> PageRow]
    BY DEF PipelineInv, LifecycleInv, TypeOK, DataOK
  <1>1. CASE Undisturbed("run_extraction")
    <2>1. /\ job'.status = job.status /\ pages' = pages /\ outbox' = outbox
          /\ \A w \in Workers : Working(w, "run_extraction") => running'[w] = running[w]
          /\ job'.lease = job.lease \/ LeaseLapsed
      BY <1>1 DEF Undisturbed
    <2>2. job.lease = "none" => job'.lease = "none"
      BY <2>1 DEF LeaseLapsed
    <2>3. CASE Dispatched
      BY <2>1, <2>2, <2>3 DEF Dispatched, ReadingUntouched, ReadMessagesKept
    <2>4. CASE published' = published /\ \A c \in outbox : c.type = "run_extraction" => (c \in queue' <=> c \in queue)
      BY <2>1, <2>2, <2>4 DEF ReadingUntouched, ReadMessagesKept
    <2> QED BY <1>1, <2>3, <2>4 DEF Undisturbed
  <1>2. CASE Progresses
    \* Outside extraction, and without writing pages.
    <2>1. ASSUME job.status # "EXTRACTING", job'.status # "EXTRACTING", pages' = pages,
                 job.status \in HandedOver <=> job'.status \in HandedOver
          PROVE  ReadingUntouched
      BY <2>1 DEF ReadingUntouched
    <2>2. ASSUME NEW w \in Workers, NEW c \in queue,
                 PlanClaimed(w, c) \/ CaptureClaimed(w, c) \/ ValidationClaimed(w, c) \/ ExportClaimed(w, c)
          PROVE  ReadingUntouched
      <3>1. CASE PlanClaimed(w, c)
        <4>1. job.status \in {"QUEUED", "PLANNING"} /\ job'.status = "PLANNING" /\ pages' = pages
          BY <3>1 DEF PlanClaimed, PlanningClaimable, Accepts, dataVars
        <4> QED BY <2>1, <4>1 DEF HandedOver
      <3>2. CASE CaptureClaimed(w, c)
        BY <2>1, <3>2 DEF CaptureClaimed, dataVars, HandedOver
      <3>3. CASE ValidationClaimed(w, c) \/ ExportClaimed(w, c)
        BY <2>1, <3>3 DEF ValidationClaimed, ExportClaimed, HandedOver
      <3> QED BY <2>2, <3>1, <3>2, <3>3 DEF HandedOver
    <2>3. ASSUME NEW w \in Workers,
                 PlanStored(w) \/ ResultsStored(w) \/ FilePublished(w) \/ PlanRetried(w)
                 \/ ValidationRetried(w) \/ ExportRetried(w)
          PROVE  ReadingUntouched
      <3>1. CASE PlanStored(w) \/ ResultsStored(w) \/ PlanRetried(w) \/ ValidationRetried(w)
        <4>1. CASE PlanStored(w) \/ PlanRetried(w)
          BY <2>1, <4>1 DEF PlanStored, PlanRetried, Retries, Lands, dataVars, HandedOver
        <4>2. CASE ResultsStored(w) \/ ValidationRetried(w)
          BY <2>1, <4>2 DEF ResultsStored, ValidationRetried, Retries, Lands, dataVars, HandedOver
        <4> QED BY <3>1, <4>1, <4>2
      <3>2. CASE FilePublished(w) \/ ExportRetried(w)
        <4>1. job.status = "EXPORTING" /\ job'.status \in {"EXPORTING", "COMPLETED"} /\ pages' = pages
          BY <3>2 DEF FilePublished, ExportRetried, Lands
        <4> QED BY <2>1, <4>1 DEF HandedOver
      <3> QED BY <2>3, <3>1, <3>2
    \* Discovery writes pages and leaves their extraction status alone.
    <2>4. ASSUME job.status \in {"BROWSER_INITIALIZING", "DISCOVERING"}, job'.status = "DISCOVERING",
                 \A p \in Pages : pages'[p].extraction = pages[p].extraction
          PROVE  ReadingUntouched
      BY <2>4 DEF ReadingUntouched, HandedOver
    <2>5. ASSUME NEW w \in Workers, NEW c \in queue, NEW p \in Pages, PageClaimed(w, c, p)
          PROVE  ReadingUntouched
      BY <1>0, <2>4, <2>5 DEF PageClaimed
    <2>6. ASSUME NEW w \in Workers, PageCaptured(w) \/ PageRetried(w) PROVE ReadingUntouched
      <3>1. \A p \in Pages : pages'[p].extraction = pages[p].extraction
        <4>1. \A p \in Pages : pages[p] \in PageRow
          BY <1>0
        <4>2. CASE PageCaptured(w)
          BY <1>0, <4>1, <4>2 DEF PageCaptured, PageRow
        <4>3. CASE PageRetried(w)
          BY <1>0, <4>1, <4>3 DEF PageRetried, PageRow
        <4> QED BY <2>6, <4>2, <4>3
      <3> QED BY <2>4, <2>6, <3>1 DEF PageCaptured, PageRetried, Retries, Lands
    <2>7. ASSUME NEW t \in RecoveryTargets, Recovered(t) PROVE ReadingUntouched
      <3>1. CASE RecoveryPhase = "discovery"
        <4>1. job.status = "DISCOVERING" /\ job'.status = "DISCOVERING"
          BY <2>7, <3>1 DEF RecoveryPhase, Recovered, Lands
        <4>2. \A p \in Pages : pages'[p].extraction = pages[p].extraction
          <5>1. pages' = [pages EXCEPT ![t].status = "DISCOVERED"]
            BY <2>7, <3>1 DEF Recovered
          <5>2. \A p \in Pages : pages[p] \in PageRow
            BY <1>0
          <5> QED BY <1>0, <5>1, <5>2 DEF PageRow
        <4> QED BY <2>4, <4>1, <4>2
      <3>2. CASE RecoveryPhase # "discovery"
        <4>1. /\ pages' = pages /\ job'.status = job.status /\ job'.lease = "none" /\ Recoverable
              /\ running' = running /\ Dispatches
              /\ outbox' = outbox \cup {RecoveryCommand(t)}
          BY <2>7, <3>2 DEF Recovered, Lands, Insert
        <4>2. RecoveryCommand(t).type # "run_extraction"
          BY <3>2 DEF RecoveryCommand, RecoveryType, RecoveryPhase
        <4>3. ReadMessagesKept
          BY <4>1, <4>2 DEF ReadMessagesKept
        <4> QED BY <4>1, <4>3 DEF ReadingUntouched
      <3> QED BY <3>1, <3>2
    <2>8. CASE RecoveredNothing
      <3>1. ReadMessagesKept
        BY <2>8 DEF RecoveredNothing, ReadMessagesKept
      <3> QED BY <2>8, <3>1 DEF RecoveredNothing, Lands, dataVars, ReadingUntouched
    <2>9. ASSUME NEW w \in Workers, UploadRefused(w) \/ \E b \in Blobs : Uploaded(w, b)
          PROVE  ReadingUntouched
      <3>1. running[w] # None /\ ~Working(w, "run_extraction")
        BY <2>9 DEF UploadRefused, Uploaded, Ends, AtStep, Working
      <3>2. /\ job' = job /\ pages' = pages /\ outbox' = outbox /\ published' = published
            /\ \A c \in outbox : c.type = "run_extraction" => (c \in queue' <=> c \in queue)
        BY <2>9, <3>1 DEF UploadRefused, Uploaded, Ends, Finish, queueVars, Stored, Working
      <3>3. \A v \in Workers : Working(v, "run_extraction") => running'[v] = running[v]
        BY <1>0, <2>9, <3>1 DEF UploadRefused, Uploaded, Ends, Finish, RunningOK
      <3> QED BY <3>2, <3>3 DEF ReadingUntouched, ReadMessagesKept
    <2> QED BY <1>2, <2>2, <2>3, <2>5, <2>6, <2>7, <2>8, <2>9 DEF Progresses
  <1> QED BY <1>1, <1>2, StageSteps DEF CommandType

\* A page that is left to read is found.
LEMMA ReadableExists ==
    ASSUME NEW inv \in [Pages -> PageRow], NEW S, Readable(inv, S) = {}
    PROVE  \A p \in WithStatus(inv, "VISITED") : inv[p].extraction \notin S
  <1> SUFFICES ASSUME NEW p \in WithStatus(inv, "VISITED"), inv[p].extraction \in S PROVE FALSE
    OBVIOUS
  <1> DEFINE found == {q \in Pages : inv[q].status = "VISITED" /\ inv[q].extraction \in S}
             D == {inv[q].depth : q \in found}
  <1>1. \A q \in found : inv[q].depth \in Nat
    BY DEF PageRow
  <1>2. D \in SUBSET Nat /\ D # {}
    BY <1>1 DEF WithStatus
  <1>3. PICK n \in D : \A m \in D : n <= m
    <2> HIDE DEF D
    <2> QED BY <1>2, LeastNatural
  <1>4. PICK q \in found : inv[q].depth = n
    BY <1>3
  <1>5. \A r \in found : inv[q].depth <= inv[r].depth
    BY <1>3, <1>4
  <1>6. q \in Readable(inv, S)
    BY <1>4, <1>5 DEF Readable
  <1> QED BY <1>6

\* Another stage leaves reading where it is.
LEMMA ReadsUntouched ==
    ASSUME PipelineInv, ReadInv, [Next]_vars, ReadingUntouched
    PROVE  ReadInv'
  <1>1. \A p \in Pages : pages'[p].extraction = pages[p].extraction
    BY DEF ReadingUntouched
  <1>2. ASSUME job'.status \in Passed("run_extraction") PROVE \A p \in Pages : pages'[p].extraction = "none"
    <2>1. job.status \in Passed("run_extraction")
      BY <1>2, PassedForGood DEF PipelineInv, CommandType
    <2> QED BY <1>1, <2>1 DEF ReadInv
  <1>3. ASSUME job.status \in {"EXTRACTING"} \cup HandedOver
        PROVE  WithStatus(pages', "VISITED") = WithStatus(pages, "VISITED")
    BY <1>3 DEF ReadingUntouched, WithStatus
  <1>4. EveryVisitedPageIsRead'
    <2>1. ASSUME job'.status \in HandedOver, NEW p \in WithStatus(pages', "VISITED")
          PROVE  pages'[p].extraction \in {"EXTRACTED", "PARTIAL"}
      <3>1. job.status \in HandedOver
        BY <2>1 DEF ReadingUntouched
      <3>2. p \in WithStatus(pages, "VISITED")
        BY <1>3, <2>1, <3>1
      <3> QED BY <1>1, <3>1, <3>2 DEF ReadInv, EveryVisitedPageIsRead, HandedOver, WithStatus
    <2> QED BY <2>1 DEF EveryVisitedPageIsRead, HandedOver
  <1>5. ASSUME job'.status = "EXTRACTING"
        PROVE  /\ \A c, d \in Reads' : c = d
               /\ \A c \in Pending' : c.type = "run_extraction" => c \notin queue' /\ job'.lease = "none"
               /\ \A p \in WithStatus(pages', "VISITED") :
                    pages'[p].extraction \notin {"none", "EXTRACTED", "PARTIAL"} =>
                      \/ Reads' = {}
                      \/ /\ pages'[p].extraction = "EXTRACTING"
                         /\ \E w \in Workers : Working(w, "run_extraction")' /\ running'[w].target = p
    <2>1. /\ job.status = "EXTRACTING" /\ ReadMessagesKept
          /\ job.lease = "none" => job'.lease = "none"
          /\ \A w \in Workers : Working(w, "run_extraction") => running'[w] = running[w]
      BY <1>5 DEF ReadingUntouched
    <2>2. \A c \in Pending : c.type = "run_extraction" => c \notin queue /\ job.lease = "none"
      BY <2>1 DEF ReadInv
    <2>3. QueueOK /\ QueueOK'
      BY StepTyped DEF PipelineInv, LifecycleInv, TypeOK
    <2>4. /\ Reads' \subseteq Reads
          /\ \A c \in Pending' : c.type = "run_extraction" => c \in Pending /\ c \notin queue'
          /\ Reads \subseteq Reads'
      <3>1. CASE Dispatches /\ (Recoverable \/ \E S \in SUBSET Pending : Publish(S))
        <4>1. CASE Recoverable
          <5>1. \A c \in Pending : c.type # "run_extraction"
            BY <2>2, <4>1 DEF Recoverable
          <5>2. PICK S \in SUBSET Pending : /\ queue' = queue \cup S
                                           /\ published' \in {published, published \cup S}
            BY <3>1 DEF Dispatches
          <5>3. \A c \in Pending' : c.type # "run_extraction"
            BY <2>1, <5>1, <5>2 DEF Pending, ReadMessagesKept
          <5> QED BY <2>1, <5>1, <5>2, <5>3 DEF Reads
        <4>2. CASE \E S \in SUBSET Pending : Publish(S)
          <5>1. PICK S \in SUBSET Pending : queue' = queue \cup S /\ published' = published \cup S
            BY <4>2 DEF Publish
          <5>2. \A c \in Pending' : c.type = "run_extraction" => c \in Pending \ S
            BY <2>1, <5>1 DEF Pending, ReadMessagesKept
          <5>3. \A c \in Pending : c \in Pending' \/ c \in S
            BY <2>1, <5>1 DEF Pending, ReadMessagesKept
          <5> QED BY <2>2, <5>1, <5>2, <5>3 DEF Reads
        <4> QED BY <3>1, <4>1, <4>2
      <3>2. CASE published' = published
                 /\ \A c \in outbox : c.type = "run_extraction" => (c \in queue' <=> c \in queue)
        <4>1. \A c \in Pending' : c.type = "run_extraction" => c \in Pending
          BY <2>1, <3>2 DEF Pending, ReadMessagesKept
        <4>2. \A c \in Pending : c \in Pending'
          BY <2>1, <3>2 DEF Pending, ReadMessagesKept
        <4>3. \A c \in queue' \cup queue : c.type = "run_extraction" => (c \in queue' <=> c \in queue)
          BY <2>1, <2>3, <3>2 DEF ReadMessagesKept, QueueOK
        <4>4. \A c \in Pending' : c.type = "run_extraction" => c \notin queue'
          BY <2>2, <4>1, <4>3
        <4> QED BY <4>1, <4>2, <4>3, <4>4 DEF Reads
      <3> QED BY <2>1, <3>1, <3>2 DEF ReadMessagesKept
    <2>5. \A c, d \in Reads' : c = d
      BY <2>1, <2>4 DEF ReadInv
    <2>6. \A c \in Pending' : c.type = "run_extraction" => c \notin queue' /\ job'.lease = "none"
      BY <2>1, <2>2, <2>4
    <2>7. ASSUME NEW p \in WithStatus(pages', "VISITED"),
                 pages'[p].extraction \notin {"none", "EXTRACTED", "PARTIAL"}, Reads' # {}
          PROVE  /\ pages'[p].extraction = "EXTRACTING"
                 /\ \E w \in Workers : Working(w, "run_extraction")' /\ running'[w].target = p
      <3>1. p \in WithStatus(pages, "VISITED") /\ pages'[p].extraction = pages[p].extraction
        BY <1>1, <1>3, <2>1, <2>7 DEF WithStatus
      <3>2. /\ pages[p].extraction = "EXTRACTING"
            /\ \E w \in Workers : Working(w, "run_extraction") /\ running[w].target = p
        BY <2>1, <2>4, <2>7, <3>1 DEF ReadInv
      <3> QED BY <2>1, <3>1, <3>2 DEF Working
    <2> QED BY <2>5, <2>6, <2>7
  <1> QED BY <1>2, <1>4, <1>5 DEF ReadInv

\* The command of extraction leaves the queue and nothing else happens: no page
\* is read, and none is handed over.
LEMMA ReadingStops ==
    ASSUME ReadInv, NEW c \in queue, c.type = "run_extraction", queue' = queue \ {c},
           job' = job, UNCHANGED Stored, pages' = pages
    PROVE  ReadInv'
  <1>1. ASSUME job.status = "EXTRACTING" PROVE Reads' = {}
    <2>1. \A d \in Reads : d = c
      BY <1>1 DEF ReadInv, Reads
    <2>2. \A d \in Pending : d.type # "run_extraction"
      BY <1>1, <2>1 DEF ReadInv, Reads
    <2>3. Pending' = Pending
      BY DEF Pending, Stored
    <2> QED BY <2>1, <2>2, <2>3 DEF Reads
  <1>2. \A d \in Pending' : d.type = "run_extraction" => job.status # "EXTRACTING"
    BY <1>1 DEF Reads
  <1>3. EveryVisitedPageIsRead'
    BY DEF ReadInv, EveryVisitedPageIsRead, WithStatus
  <1> QED BY <1>1, <1>2, <1>3 DEF ReadInv

\* ReadInv is inductive while no command of extraction is executed twice.
LEMMA StepReads ==
    ASSUME "run_extraction" \notin Retryable, <<"crash", "run_extraction">> \notin Faults,
           <<"redeliver", "run_extraction">> \notin Faults,
           PipelineInv, ReadInv, [Next]_vars
    PROVE  ReadInv'
  <1>0. /\ LifecycleInv /\ RunningOK /\ QueueOK /\ pages \in [Pages -> PageRow] /\ SlotInv
        /\ pages' \in [Pages -> PageRow]
    BY StepTyped DEF PipelineInv, LifecycleInv, TypeOK, DataOK
  <1>1. CASE job'.status \in {"FAILED", "CANCELLED"}
    BY <1>1 DEF ReadInv, Passed, EveryVisitedPageIsRead
  <1>2. CASE ReadingUntouched
    BY <1>2, ReadsUntouched
  <1>3. ASSUME NEW w \in Workers, ReadRetried(w) PROVE FALSE
    BY <1>3 DEF ReadRetried, Retries
  <1>4. CASE Slips("run_extraction")
    <2>1. PICK w \in Workers : Working(w, "run_extraction") /\ (Ignored(w) \/ Crashed(w) \/ Abandoned(w))
      BY <1>4 DEF Slips
    <2>2. ~Crashed(w)
      BY <2>1 DEF Crashed, Working
    <2>3. running[w].cmd \in queue /\ running[w].cmd.type = "run_extraction"
      BY <1>0, <2>1 DEF SlotInv, Working
    <2>4. /\ job' = job /\ UNCHANGED Stored /\ pages' = pages
          /\ queue' = queue \ {running[w].cmd}
      BY <2>1, <2>2 DEF Ignored, Abandoned, Finish, dataVars
    <2> QED BY <2>3, <2>4, ReadingStops
  <1>5. CASE Misdelivered("run_extraction")
    <2>1. ASSUME NEW w \in Workers, NEW c \in queue, c.type = "run_extraction", TurnedAway(w, c)
          PROVE  ReadInv'
      BY <2>1, ReadingStops DEF TurnedAway, Discard
    <2>2. ASSUME NEW c \in outbox, c.type = "run_extraction", Lost(c) PROVE ReadInv'
      BY <2>2, ReadingStops DEF Lost, dataVars
    <2>3. ASSUME NEW c \in outbox, c.type = "run_extraction", Redelivered(c) PROVE FALSE
      BY <2>3 DEF Redelivered
    <2> QED BY <1>5, <2>1, <2>2, <2>3 DEF Misdelivered
  <1>6. ASSUME NEW w \in Workers, NEW c \in queue, NEW p \in Pages, ReadClaimed(w, c, p)
        PROVE  ReadInv'
    <2>1. /\ job.status = "EXTRACTING" /\ job'.status = "EXTRACTING" /\ c.type = "run_extraction"
          /\ pages' = [pages EXCEPT ![p].extraction = "EXTRACTING"]
          /\ UNCHANGED <<Stored, queue>>
          /\ running' = [running EXCEPT ![w] =
                            [cmd |-> c, target |-> p, blob |-> None, step |-> "working"]]
          /\ \A v \in Workers : running[v] # None => running[v].cmd # c
      BY <1>6 DEF ReadClaimed, Takes, Delivered, Begin
    <2>2. Reads' = Reads /\ Pending' = Pending /\ c \in Reads
      BY <2>1 DEF Reads, Pending, Stored
    <2>3. \A d \in Reads : d = c
      BY <2>1, <2>2 DEF ReadInv
    <2>4. \A d \in Pending' : d.type # "run_extraction"
      BY <2>1, <2>2, <2>3 DEF ReadInv, Reads
    <2>5. \A v \in Workers : ~Working(v, "run_extraction")
      <3>1. ASSUME NEW v \in Workers, Working(v, "run_extraction") PROVE FALSE
        <4>1. running[v].cmd \in Reads
          BY <1>0, <3>1 DEF Working, SlotInv, Reads
        <4> QED BY <2>1, <2>3, <3>1, <4>1 DEF Working
      <3> QED BY <3>1
    <2>6. \A q \in WithStatus(pages, "VISITED") : pages[q].extraction \in {"none", "EXTRACTED", "PARTIAL"}
      BY <2>1, <2>2, <2>5 DEF ReadInv
    <2>7. \A q \in Pages \ {p} : pages'[q] = pages[q]
      BY <1>0, <2>1
    <2>8. pages'[p].extraction = "EXTRACTING"
      BY <1>0, <2>1 DEF PageRow
    <2>9. running'[w].target = p /\ Working(w, "run_extraction")'
      <3>1. running'[w] = [cmd |-> c, target |-> p, blob |-> None, step |-> "working"]
        BY <1>0, <2>1 DEF RunningOK
      <3>2. running'[w] # None
        <4>1. SlotTaken(w, c, p)
          BY <1>6, <2>1 DEF ReadClaimed, Takes, SlotTaken
        <4> QED BY <1>0, <4>1, SlotEffects
      <3> QED BY <2>1, <3>1, <3>2 DEF Working
    <2>10. \A q \in WithStatus(pages', "VISITED") :
                pages'[q].extraction \notin {"none", "EXTRACTED", "PARTIAL"} => q = p
      BY <2>6, <2>7 DEF WithStatus
    <2>11. \A q \in WithStatus(pages', "VISITED") :
                pages'[q].extraction \notin {"none", "EXTRACTED", "PARTIAL"} =>
                    /\ pages'[q].extraction = "EXTRACTING"
                    /\ \E v \in Workers : Working(v, "run_extraction")' /\ running'[v].target = q
      BY <2>8, <2>9, <2>10
    <2>12. \A d, e \in Reads' : d = e
      BY <2>2, <2>3
    <2> QED BY <2>1, <2>4, <2>11, <2>12 DEF ReadInv, EveryVisitedPageIsRead, Passed
  <1>7. ASSUME NEW w \in Workers, NEW x, NEW next, PageRead(w, x, next) PROVE ReadInv'
    <2> DEFINE r == running[w].target
    <2>1. /\ job.status = "EXTRACTING" /\ Working(w, "run_extraction") /\ r \in Pages
          /\ x \in {"PARTIAL", "EXTRACTED"}
          /\ pages' = [pages EXCEPT ![r].extraction = x]
          /\ next \in AfterReading(pages')
          /\ IF next = ValidateCommand THEN job'.status = "VALIDATING"
             ELSE job'.status = "EXTRACTING" /\ job'.lease = "none"
          /\ outbox' = outbox \cup {next} /\ published' = published
          /\ queue' = queue \ {running[w].cmd}
      BY <1>0, <1>7 DEF PageRead, Ends, Working, Insert, Lands, Finish, RunningOK, Operation, WorkOf
    <2>2. next \notin outbox
      BY <1>7 DEF PageRead, Fresh
    <2>3. running[w].cmd \in Reads
      BY <1>0, <2>1 DEF Working, SlotInv, Reads
    <2>4. \A d \in Reads : d = running[w].cmd
      BY <2>1, <2>3 DEF ReadInv
    <2>5. \A v \in Workers : Working(v, "run_extraction") => v = w
      <3>1. ASSUME NEW v \in Workers, Working(v, "run_extraction"), v # w PROVE FALSE
        <4>1. running[v].cmd \in Reads
          BY <1>0, <3>1 DEF Working, SlotInv, Reads
        <4> QED BY <1>0, <2>1, <2>4, <3>1, <4>1 DEF Working, SlotInv
      <3> QED BY <3>1
    <2>6. \A q \in WithStatus(pages, "VISITED") :
                q = r \/ pages[q].extraction \in {"none", "EXTRACTED", "PARTIAL"}
      BY <2>1, <2>3, <2>5 DEF ReadInv
    <2>7. pages'[r].extraction = x /\ \A q \in Pages \ {r} : pages'[q] = pages[q]
      BY <1>0, <2>1 DEF PageRow
    <2> HIDE DEF r
    <2>8. \A q \in WithStatus(pages', "VISITED") : pages'[q].extraction \in {"none", "EXTRACTED", "PARTIAL"}
      BY <2>1, <2>6, <2>7 DEF WithStatus
    <2>9. CASE next = ValidateCommand
      <3>1. Readable(pages', {"none"}) = {}
        BY <2>1, <2>9 DEF AfterReading, ReadCommand, ValidateCommand, NewCommand
      <3>2. \A q \in WithStatus(pages', "VISITED") : pages'[q].extraction \notin {"none"}
        BY <1>0, <3>1, ReadableExists
      <3>3. EveryVisitedPageIsRead'
        BY <2>8, <3>2 DEF EveryVisitedPageIsRead
      <3> QED BY <2>1, <2>9, <3>3 DEF ReadInv, Passed
    <2>10. CASE next # ValidateCommand
      <3>1. job'.status = "EXTRACTING" /\ job'.lease = "none"
        BY <2>1, <2>10
      <3>2. \A d \in Pending : d.type # "run_extraction"
        BY <1>0, <2>1, <2>4 DEF ReadInv, Reads, SlotInv, Working
      <3>3. \A d \in Pending' : d.type = "run_extraction" => d = next
        BY <2>1, <3>2 DEF Pending
      <3>4. next \notin queue'
        BY <1>0, <2>1, <2>2 DEF QueueOK
      <3>5. \A d \in Reads' : d = next
        BY <2>1, <2>4, <3>3 DEF Reads
      <3> QED BY <2>8, <3>1, <3>3, <3>4, <3>5 DEF ReadInv, Passed, EveryVisitedPageIsRead
    <2> QED BY <2>9, <2>10
  <1>8. ASSUME NEW w \in Workers, NEW inv, NEW next, PageVisited(w, inv, next) PROVE ReadInv'
    <2> DEFINE r == running[w].target
    <2>1. /\ job.status = "DISCOVERING" /\ r \in Pages
          /\ inv \in VisitOutcomes(r) /\ pages' = inv
          /\ IF next = ExtractCommand THEN job'.status = "EXTRACTING" /\ job'.lease = "none"
             ELSE job'.status = "DISCOVERING"
          /\ outbox' = outbox \cup {next} /\ published' = published
          /\ queue' \subseteq queue
      BY <1>0, <1>8 DEF PageVisited, Ends, Working, Insert, Lands, Finish, RunningOK, Operation, WorkOf
    <2>2. \A p \in Pages : pages[p].extraction = "none"
      BY <2>1 DEF ReadInv, Passed
    <2>3. Extended([pages EXCEPT ![r].status = "VISITED"], inv)
      BY <1>0, <2>1, VisitExtends
    <2>4. \A p \in Pages : [pages EXCEPT ![r].status = "VISITED"][p].extraction = "none"
      BY <1>0, <2>1, <2>2 DEF PageRow
    <2>5. \A p \in Pages : pages'[p].extraction = "none"
      BY <2>1, <2>3, <2>4 DEF Extended
    <2>6. \A d \in outbox : d.type # "run_extraction"
      BY <2>1 DEF PipelineInv, OutboxInv, Passed
    <2> HIDE DEF r
    <2>7. CASE next = ExtractCommand
      <3>1. \A d \in Reads' : d = next
        BY <1>0, <2>1, <2>6 DEF Reads, Pending, QueueOK
      <3>2. next \notin queue'
        BY <1>0, <2>1, <2>6, <2>7 DEF QueueOK, ExtractCommand, NewCommand
      <3>3. \A d \in Pending' : d.type = "run_extraction" => d = next
        BY <3>1 DEF Reads
      <3> QED BY <2>1, <2>5, <2>7, <3>1, <3>2, <3>3 DEF ReadInv, Passed, EveryVisitedPageIsRead, WithStatus
    <2>8. CASE next # ExtractCommand
      BY <2>1, <2>5, <2>8 DEF ReadInv, EveryVisitedPageIsRead
    <2> QED BY <2>7, <2>8
  <1> QED BY <1>1, <1>2, <1>3, <1>4, <1>5, <1>6, <1>7, <1>8, ReadingChanges

\* EveryVisitedPageIsRead: a job that leaves extraction has read every page it
\* visited, unless a command of extraction is executed more than once (retried,
\* redelivered, or cut off by a crash): the pages such a command claimed before
\* are never looked at again.
THEOREM VisitedPagesAreRead ==
    ASSUME "run_extraction" \notin Retryable, <<"crash", "run_extraction">> \notin Faults,
           <<"redeliver", "run_extraction">> \notin Faults
    PROVE  Spec => []EveryVisitedPageIsRead
  <1>1. Init => ReadInv
    <2>1. ASSUME Init PROVE \A p \in Pages : pages[p].extraction = "none"
      BY <2>1 DEF Init
    <2> QED BY <2>1 DEF Init, QueuedRow, ReadInv, EveryVisitedPageIsRead
  <1>2. PipelineInv /\ ReadInv /\ [Next]_vars => ReadInv'
    BY StepReads
  <1>3. ReadInv => EveryVisitedPageIsRead
    BY DEF ReadInv
  <1> QED BY <1>1, <1>2, <1>3, PipelineInvariant, PTL DEF Spec

-----------------------------------------------------------------------------
(* Messages that wait for a slot *)

Messages == queue \cup Pending

\* No slot executes command c.
Idle(c) == \A w \in Workers : running[w] # None => running[w].cmd # c

Waiting(type) == {c \in Messages : c.type = type /\ Idle(c)}

\* How a message is used up.
Consumed(c) ==
    \/ \E w \in Workers : TurnedAway(w, c)
    \/ \E w \in Workers : running[w] # None /\ running[w].cmd = c /\ Finish(w)
    \/ Lost(c)

MessagesMove ==
    /\ outbox \subseteq outbox'
    /\ published' = published \/ Dispatches
    /\ \A c \in queue : c \in queue' \/ Consumed(c)

\* What a step may do to the messages.
LEMMA MessageMoves ==
    ASSUME PipelineInv, [Next]_vars
    PROVE  MessagesMove
  <1>0. LifecycleInv
    BY DEF PipelineInv
  <1>1. ASSUME NEW w \in Workers, running[w] # None, Finish(w) \/ Requeue(w)
        PROVE  \A c \in queue : c \in queue' \/ Consumed(c)
    BY <1>1 DEF Finish, Requeue, Consumed
  <1>2. ASSUME NEW w \in Workers, WorkerOutcome(w) PROVE MessagesMove
    <2>1. ASSUME NEW c \in queue, TurnedAway(w, c) PROVE MessagesMove
      BY <2>1 DEF TurnedAway, Discard, Stored, Consumed, MessagesMove
    <2>2. ASSUME NEW c \in queue, NEW type, NEW p, Takes(w, c, type, p) PROVE MessagesMove
      BY <2>2 DEF Takes, Begin, Stored, MessagesMove
    <2>3. CASE Ignored(w) \/ OperationFailed(w)
      BY <1>1, <2>3 DEF Ignored, OperationFailed, GivesUp, Working, Stored, MessagesMove
    <2>4. CASE PlanRetried(w) \/ PageRetried(w) \/ ReadRetried(w) \/ ValidationRetried(w)
      BY <1>1, <2>4 DEF PlanRetried, PageRetried, ReadRetried, ValidationRetried, Retries, Working,
                        Stored, MessagesMove
    <2>5. CASE PlanStored(w) \/ PageCaptured(w) \/ ResultsStored(w)
      BY <1>1, <2>5 DEF PlanStored, PageCaptured, ResultsStored, Ends, Working, Insert, MessagesMove
    <2>6. ASSUME NEW inv, NEW next, PageVisited(w, inv, next) \/ PageRead(w, inv, next)
          PROVE  MessagesMove
      BY <1>1, <2>6 DEF PageVisited, PageRead, Ends, Working, Insert, MessagesMove
    <2>7. CASE UploadRefused(w) \/ ExportRetried(w)
      BY <1>1, <2>7 DEF UploadRefused, ExportRetried, Ends, Working, Stored, MessagesMove
    <2>8. ASSUME NEW b \in Blobs, Uploaded(w, b) \/ FilePublished(w) PROVE MessagesMove
      BY <2>8 DEF Uploaded, FilePublished, queueVars, MessagesMove
    <2>9. CASE FilePublished(w)
      BY <2>9 DEF FilePublished, queueVars, MessagesMove
    <2> QED BY <1>2, <2>1, <2>2, <2>3, <2>4, <2>5, <2>6, <2>7, <2>8, <2>9
            DEF WorkerOutcome, PlanningOutcome, DiscoveryOutcome, ExtractionOutcome,
                ValidationOutcome, ExportOutcome, PlanClaimed, CaptureClaimed, PageClaimed,
                ReadClaimed, ValidationClaimed, ExportClaimed
  <1>3. CASE RecoveryOutcome
    BY <1>3 DEF RecoveryOutcome, Dispatched, LeaseLapsed, RecoveryFailed, RecoveredNothing,
                Recovered, Dispatches, Insert, queueVars, MessagesMove
  <1>4. CASE OtherOutcome
    <2>1. CASE Cancelled \/ NothingToSee
      BY <2>1 DEF Cancelled, NothingToSee, queueVars, MessagesMove
    <2>2. ASSUME NEW w \in Workers, Crashed(w) \/ Abandoned(w) PROVE MessagesMove
      BY <1>1, <2>2 DEF Crashed, Abandoned, Stored, MessagesMove
    <2>3. ASSUME NEW c \in outbox, Redelivered(c) \/ Lost(c) PROVE MessagesMove
      BY <2>3 DEF Redelivered, Lost, Stored, Consumed, MessagesMove
    <2> QED BY <1>4, <2>1, <2>2, <2>3 DEF OtherOutcome
  <1> QED BY <1>0, <1>2, <1>3, <1>4, StepOutcomes

\* A message stays, published or not, until it is consumed.
LEMMA MessagesStay ==
    ASSUME PipelineInv, [Next]_vars, NEW c \in Messages
    PROVE  c \in Messages' \/ Consumed(c)
  <1>1. MessagesMove
    BY MessageMoves
  <1>2. CASE c \in queue
    BY <1>1, <1>2 DEF MessagesMove, Messages
  <1>3. CASE c \in Pending
    BY <1>1, <1>3 DEF MessagesMove, Messages, Dispatches, Pending
  <1> QED BY <1>2, <1>3 DEF Messages

\* A claim takes one slot and leaves the others.
LEMMA ClaimsTake ==
    ASSUME PipelineInv, NEW w \in Workers, NEW c \in queue, Claimed(w, c)
    PROVE  /\ running[w] = None /\ running'[w] # None /\ running'[w].cmd = c
           /\ running'[w].target \in WorkOf(c.type) /\ running'[w].step = "working"
           /\ \A v \in Workers \ {w} : running'[v] = running[v]
           /\ job'.lease = "live"
  <1>1. ASSUME NEW type, NEW p, Takes(w, c, type, p) PROVE SlotTaken(w, c, p)
    BY <1>1 DEF Takes, Delivered, SlotTaken
  <1>2. PICK p : SlotTaken(w, c, p)
    BY <1>1 DEF Claimed, PlanClaimed, CaptureClaimed, ValidationClaimed, ExportClaimed,
                PageClaimed, ReadClaimed
  <1>3. /\ running[w] = None /\ running'[w] # None
        /\ running'[w] = [cmd |-> c, target |-> p, blob |-> None, step |-> "working"]
        /\ \A v \in Workers \ {w} : running'[v] = running[v]
    BY <1>2, SlotEffects DEF PipelineInv
  <1> QED BY <1>2, <1>3 DEF SlotTaken

\* A waiting message waits on until a slot takes it, or turns it away.
LEMMA WaitingStays ==
    ASSUME PipelineInv, [Next]_vars, NEW type, NEW c \in Waiting(type),
           <<"lose", type>> \notin Faults
    PROVE  \/ c \in Waiting(type)'
           \/ \E w \in Workers : TurnedAway(w, c)
           \/ c \in queue /\ \E w \in Workers : Claimed(w, c)
  <1>0. c \in Messages /\ c.type = type /\ Idle(c)
    BY DEF Waiting
  <1>1. c \in Messages' \/ \E w \in Workers : TurnedAway(w, c)
    BY <1>0, MessagesStay DEF Consumed, Idle, Lost
  <1>2. CASE NoNewWork
    BY <1>0, <1>1, <1>2 DEF NoNewWork, Idle, Waiting
  <1>3. ASSUME NEW w \in Workers, NEW d \in queue, Claimed(w, d)
        PROVE  \/ c \in Waiting(type)'
               \/ \E v \in Workers : TurnedAway(v, c)
               \/ c \in queue /\ Claimed(w, c)
    <2>1. /\ running[w] = None /\ running'[w] # None /\ running'[w].cmd = d
          /\ \A v \in Workers \ {w} : running'[v] = running[v]
      BY <1>3, ClaimsTake
    <2>2. CASE c = d
      BY <1>3, <2>2
    <2>3. CASE c # d
      BY <1>0, <1>1, <2>1, <2>3 DEF Idle, Waiting
    <2> QED BY <2>2, <2>3
  <1> QED BY <1>2, <1>3, WorkBegins

\* An operation that is retried leaves its message waiting, ...
LEMMA RetriedWaits ==
    ASSUME PipelineInv, NEW w \in Workers, running[w] # None, Requeue(w),
           NEW c, c = running[w].cmd
    PROVE  c \in Waiting(c.type)'
  <1>0. RunningOK /\ SlotInv
    BY DEF PipelineInv, LifecycleInv, TypeOK
  <1>1. c \in queue'
    BY <1>0 DEF SlotInv, Requeue
  <1>2. \A v \in Workers \ {w} : running[v] # None => running[v].cmd # c
    BY <1>0 DEF SlotInv
  <1>3. running'[w] = None /\ \A v \in Workers \ {w} : running'[v] = running[v]
    BY <1>0 DEF Requeue, RunningOK
  <1> QED BY <1>1, <1>2, <1>3 DEF Waiting, Messages, Idle

\* ... and a new command waits to be published.
LEMMA NewWaits ==
    ASSUME PipelineInv, [Next]_vars, NEW c \in outbox' \ outbox
    PROVE  c \in Waiting(c.type)'
  <1>0. QueueOK /\ RunningOK /\ SlotInv /\ LifecycleInv
    BY DEF PipelineInv, LifecycleInv, TypeOK
  <1>1. c \notin published'
    BY <1>0, MessageMoves DEF MessagesMove, Dispatches, QueueOK, Pending
  <1>2. \A w \in Workers : running'[w] # None => running'[w].cmd \in outbox
    <2>1. CASE NoNewWork
      BY <1>0, <2>1 DEF NoNewWork, SlotInv, QueueOK
    <2>2. ASSUME NEW w \in Workers, NEW d \in queue, Claimed(w, d)
          PROVE  \A v \in Workers : running'[v] # None => running'[v].cmd \in outbox
      <3>1. /\ running'[w].cmd = d
            /\ \A v \in Workers \ {w} : running'[v] = running[v]
        BY <2>2, ClaimsTake
      <3> QED BY <1>0, <3>1 DEF SlotInv, QueueOK
    <2> QED BY <2>1, <2>2, WorkBegins
  <1> QED BY <1>1, <1>2 DEF Waiting, Messages, Pending, Idle

-----------------------------------------------------------------------------
(* The stages before extraction: without a lease a message waits *)

BeforeReading == Passed("run_extraction")

\* Discovery needs a message that names a page still to be visited.
VisitWaits == \E c \in Waiting("run_discovery") : pages[c.target].status = "DISCOVERED"

StartInv ==
    job.lease = "none" =>
        /\ job.status \in {"QUEUED", "PLANNING"} => Waiting("run_planning") # {}
        /\ job.status = "BROWSER_INITIALIZING" => Waiting("run_browser_capture") # {}
        /\ job.status = "DISCOVERING" => VisitWaits

\* Who gives up the lease, or moves the job, before extraction.
LEMMA LeaseSteps ==
    ASSUME PipelineInv, [Next]_vars, job'.status \in BeforeReading, job'.lease = "none"
    PROVE  \/ /\ job.lease = "none" /\ job'.status = job.status
              /\ \A p \in Pages : pages'[p] = pages[p]
           \/ \E w \in Workers : \/ PlanStored(w) \/ PageCaptured(w) \/ PlanRetried(w) \/ PageRetried(w)
                                 \/ \E inv, next : PageVisited(w, inv, next)
           \/ RecoveredNothing \/ \E t \in RecoveryTargets : Recovered(t)
  <1>1. job'.status \notin {"FAILED", "CANCELLED", "EXTRACTING", "VALIDATING", "EXPORTING", "COMPLETED"}
    BY DEF BeforeReading, Passed
  <1>2. CASE Undisturbed("run_planning")
    BY <1>2 DEF Undisturbed, LeaseLapsed, Lands
  <1>3. CASE Slips("run_planning") \/ Misdelivered("run_planning")
    BY <1>3 DEF Slips, Misdelivered, Ignored, Crashed, Abandoned, TurnedAway, Lost, Redelivered, dataVars
  <1>4. CASE Progresses
    <2>1. ASSUME NEW w \in Workers, NEW c \in queue, Claimed(w, c) PROVE FALSE
      BY <2>1, ClaimsTake
    <2>2. ASSUME NEW w \in Workers, UploadRefused(w) \/ \E b \in Blobs : Uploaded(w, b)
          PROVE  job' = job /\ pages' = pages
      BY <2>2, Landings
    <2>3. ASSUME NEW w \in Workers, NEW x, NEW next, PageRead(w, x, next) PROVE FALSE
      BY <1>1, <2>3, Landings
    <2>4. ASSUME NEW w \in Workers, ResultsStored(w) \/ FilePublished(w) \/ ReadRetried(w)
                                    \/ ValidationRetried(w) \/ ExportRetried(w)
          PROVE  FALSE
      BY <1>1, <2>4, Landings
    <2> QED BY <1>4, <2>1, <2>2, <2>3, <2>4 DEF Progresses, Claimed
  <1> QED BY <1>1, <1>2, <1>3, <1>4, StageSteps DEF CommandType

\* A waiting message of a stage the job is in is not turned away, and taking it
\* takes the lease.
LEMMA StartWaits ==
    ASSUME PipelineInv, [Next]_vars, NEW type \in CommandType, NEW c \in Waiting(type),
           <<"lose", type>> \notin Faults, job.lease = "none", job'.lease = "none",
           \/ type = "run_planning" /\ job.status \in {"QUEUED", "PLANNING"}
           \/ type = "run_browser_capture" /\ job.status = "BROWSER_INITIALIZING"
           \/ type = "run_discovery" /\ job.status = "DISCOVERING" /\ pages[c.target].status = "DISCOVERED"
    PROVE  c \in Waiting(type)'
  <1>0. LifecycleInv /\ QueueOK /\ c.type = type /\ pages \in [Pages -> PageRow]
    BY DEF PipelineInv, LifecycleInv, TypeOK, Waiting, DataOK
  <1>1. ASSUME NEW w \in Workers, TurnedAway(w, c) PROVE FALSE
    <2>1. ~Claimable(c) /\ c \in queue
      BY <1>1 DEF TurnedAway, Delivered
    <2>2. CASE type = "run_planning"
      <3>1. PlanningClaimable
        BY <1>0, <2>2, NothingToAcknowledge DEF PlanningClaimable, Active
      <3> QED BY <1>0, <2>1, <2>2, <3>1 DEF Claimable
    <2>3. CASE type = "run_browser_capture"
      BY <1>0, <2>1, <2>3 DEF Claimable
    <2>4. CASE type = "run_discovery"
      <3>1. c \in Command
        BY <1>0, <2>1 DEF QueueOK
      <3>2. c.target \in Pages
        BY <1>0, <2>4, <3>1 DEF Command, WorkOf
      <3>3. {p \in WithStatus(pages, "DISCOVERED") : c.target \in {None, p}} # {}
        BY <2>4, <3>2 DEF WithStatus
      <3>4. DiscoverablePages(c) # {}
        BY <1>0, <3>3, ForemostExists DEF DiscoverablePages, WithStatus
      <3> QED BY <1>0, <2>1, <2>4, <3>4 DEF Claimable
    <2> QED BY <2>2, <2>3, <2>4
  <1>2. ASSUME c \in queue, NEW w \in Workers, Claimed(w, c) PROVE FALSE
    BY <1>2, ClaimsTake
  <1> QED BY <1>1, <1>2, WaitingStays

\* The operations that give up the lease leave a message behind them.
LEMMA HandsOver ==
    ASSUME PipelineInv, [Next]_vars, NEW w \in Workers
    PROVE  /\ PlanStored(w) => CaptureCommand \in Waiting("run_browser_capture")'
           /\ PageCaptured(w) => VisitWaits'
           /\ PlanRetried(w) => Waiting("run_planning")' # {}
           /\ PageRetried(w) => VisitWaits'
           /\ \A inv, next : PageVisited(w, inv, next) => next = ExtractCommand \/ VisitWaits'
  <1>0. LifecycleInv /\ RunningOK /\ QueueOK /\ pages \in [Pages -> PageRow]
    BY DEF PipelineInv, LifecycleInv, TypeOK, DataOK
  <1>1. ASSUME PlanStored(w) PROVE CaptureCommand \in Waiting("run_browser_capture")'
    <2>1. CaptureCommand.type = "run_browser_capture"
      BY DEF CaptureCommand, NewCommand
    <2>2. CaptureCommand \in outbox' \ outbox
      BY <1>1, <2>1 DEF PlanStored, Insert, PipelineInv, OutboxInv, Passed
    <2>3. \A d \in outbox' \ outbox : d \in Waiting(d.type)'
      BY NewWaits
    <2> QED BY <2>1, <2>2, <2>3
  <1>2. ASSUME PageCaptured(w) PROVE VisitWaits'
    <2>1. SourceCommand.type = "run_discovery" /\ SourceCommand.target = SourcePage
      BY DEF SourceCommand, NewCommand
    <2>2. SourceCommand \in outbox' \ outbox
      BY <1>2 DEF PageCaptured, Insert, Fresh
    <2>3. \A d \in outbox' \ outbox : d \in Waiting(d.type)'
      BY NewWaits
    <2>4. SourcePage \in Pages
      BY StoreAssumption
    <2>5. pages'[SourcePage].status = "DISCOVERED"
      BY <1>0, <1>2, <2>4 DEF PageCaptured, PageRow
    <2> QED BY <2>1, <2>2, <2>3, <2>5 DEF VisitWaits
  <1>3. ASSUME PlanRetried(w) PROVE Waiting("run_planning")' # {}
    <2>1. Working(w, "run_planning") /\ Requeue(w)
      BY <1>3 DEF PlanRetried, Retries
    <2> QED BY <2>1, RetriedWaits DEF Working
  <1>4. ASSUME PageRetried(w) PROVE VisitWaits'
    <2> DEFINE c == running[w].cmd
    <2>1. Working(w, "run_discovery") /\ Requeue(w) /\ c.type = "run_discovery"
      BY <1>4 DEF PageRetried, Retries, Working
    <2>2. c.target \in Pages
      BY <1>0, <2>1 DEF Working, RunningOK, Operation, Command, WorkOf
    <2>3. pages' = [pages EXCEPT ![c.target].status = "DISCOVERED"]
      BY <1>4 DEF PageRetried
    <2>4. pages'[c.target].status = "DISCOVERED"
      BY <1>0, <2>2, <2>3 DEF PageRow
    <2>5. PICK d : d = c
      OBVIOUS
    <2>6. d \in Waiting("run_discovery")'
      BY <2>1, <2>5, RetriedWaits DEF Working
    <2> HIDE DEF c
    <2> QED BY <2>4, <2>5, <2>6 DEF VisitWaits
  <1>5. ASSUME NEW inv, NEW next, PageVisited(w, inv, next), next # ExtractCommand PROVE VisitWaits'
    <2>1. next \in outbox' \ outbox /\ pages' = inv
      BY <1>5 DEF PageVisited, Insert, Fresh
    <2>2. PICK p \in Foremost(WithStatus(inv, "DISCOVERED"), inv) : next = PageCommand(p)
      BY <1>5 DEF PageVisited, FollowUps
    <2>3. next.type = "run_discovery" /\ next.target = p
      BY <2>2 DEF PageCommand, NewCommand
    <2>4. pages'[p].status = "DISCOVERED"
      BY <2>1, <2>2 DEF Foremost, WithStatus
    <2>5. \A d \in outbox' \ outbox : d \in Waiting(d.type)'
      BY NewWaits
    <2> QED BY <2>1, <2>3, <2>4, <2>5 DEF VisitWaits
  <1> QED BY <1>1, <1>2, <1>3, <1>4, <1>5

\* So does a recovery.
LEMMA RecoveryHandsOver ==
    ASSUME PipelineInv, [Next]_vars, NEW t \in RecoveryTargets, Recovered(t)
    PROVE  /\ RecoveryPhase = "planning" => Waiting("run_planning")' # {}
           /\ RecoveryPhase = "browser" => Waiting("run_browser_capture")' # {}
           /\ RecoveryPhase = "discovery" => VisitWaits'
  <1>0. pages \in [Pages -> PageRow]
    BY DEF PipelineInv, LifecycleInv, TypeOK, DataOK
  <1>1. PICK c : c = RecoveryCommand(t)
    OBVIOUS
  <1>2. c.type = RecoveryType[RecoveryPhase] /\ c.target = t
    BY <1>1 DEF RecoveryCommand
  <1>3. c \in outbox' \ outbox
    BY <1>1 DEF Recovered, Insert, Fresh
  <1>4. c \in Waiting(c.type)'
    BY <1>3, NewWaits
  <1>5. CASE RecoveryPhase = "discovery"
    <2>1. t \in Pages
      BY <1>5 DEF RecoveryTargets, Foremost
    <2>2. pages'[t].status = "DISCOVERED"
      BY <1>0, <1>5, <2>1 DEF Recovered, PageRow
    <2> QED BY <1>2, <1>4, <1>5, <2>2 DEF VisitWaits, RecoveryType
  <1> QED BY <1>2, <1>4, <1>5 DEF RecoveryType

\* StartInv is inductive while the broker keeps its messages.
LEMMA StepStart ==
    ASSUME {"lose"} \X CommandType \cap Faults = {}, PipelineInv, WorkLeftInv, StartInv, [Next]_vars
    PROVE  StartInv'
  <1> SUFFICES ASSUME job'.lease = "none", job'.status \in BeforeReading
               PROVE  /\ job'.status \in {"QUEUED", "PLANNING"} => Waiting("run_planning")' # {}
                      /\ job'.status = "BROWSER_INITIALIZING" => Waiting("run_browser_capture")' # {}
                      /\ job'.status = "DISCOVERING" => VisitWaits'
    BY DEF StartInv, BeforeReading, Passed
  <1>1. \A type \in CommandType : <<"lose", type>> \notin Faults
    OBVIOUS
  <1>2. CASE job.lease = "none" /\ job'.status = job.status /\ \A p \in Pages : pages'[p] = pages[p]
    <2>1. CASE job.status \in {"QUEUED", "PLANNING"}
      <3>1. PICK c \in Waiting("run_planning") : TRUE
        BY <1>2, <2>1 DEF StartInv
      <3> QED BY <1>1, <1>2, <2>1, <3>1, StartWaits DEF CommandType
    <2>2. CASE job.status = "BROWSER_INITIALIZING"
      <3>1. PICK c \in Waiting("run_browser_capture") : TRUE
        BY <1>2, <2>2 DEF StartInv
      <3> QED BY <1>1, <1>2, <2>2, <3>1, StartWaits DEF CommandType
    <2>3. CASE job.status = "DISCOVERING"
      <3>1. PICK c \in Waiting("run_discovery") : pages[c.target].status = "DISCOVERED"
        BY <1>2, <2>3 DEF StartInv, VisitWaits
      <3>2. c \in Waiting("run_discovery")'
        BY <1>1, <1>2, <2>3, <3>1, StartWaits DEF CommandType
      <3>3. c.target \in Pages
        <4>1. c \in Command /\ c.type = "run_discovery"
          BY <3>1 DEF PipelineInv, LifecycleInv, TypeOK, QueueOK, Waiting, Messages, Pending
        <4> QED BY <4>1 DEF Command, WorkOf
      <3> QED BY <1>2, <2>3, <3>1, <3>2, <3>3 DEF VisitWaits
    <2> QED BY <1>2, <2>1, <2>2, <2>3 DEF BeforeReading, Passed
  <1>3. ASSUME NEW w \in Workers,
               \/ PlanStored(w) \/ PageCaptured(w) \/ PlanRetried(w) \/ PageRetried(w)
               \/ \E inv, next : PageVisited(w, inv, next)
        PROVE  /\ job'.status \in {"QUEUED", "PLANNING"} => Waiting("run_planning")' # {}
               /\ job'.status = "BROWSER_INITIALIZING" => Waiting("run_browser_capture")' # {}
               /\ job'.status = "DISCOVERING" => VisitWaits'
    <2>1. ASSUME NEW inv, NEW next, PageVisited(w, inv, next), job'.status # "EXTRACTING"
          PROVE  job'.status = "DISCOVERING" /\ VisitWaits'
      <3>1. job'.status = "DISCOVERING" /\ next # ExtractCommand
        BY <2>1 DEF PageVisited, Lands
      <3> QED BY <2>1, <3>1, HandsOver
    <2>2. job'.status # "EXTRACTING"
      BY DEF BeforeReading, Passed
    <2> QED BY <1>3, <2>1, <2>2, HandsOver, Landings
  <1>4. CASE RecoveredNothing
    BY <1>4, TargetsExist DEF RecoveredNothing, RecoveryFindsWork
  <1>5. ASSUME NEW t \in RecoveryTargets, Recovered(t)
        PROVE  /\ job'.status \in {"QUEUED", "PLANNING"} => Waiting("run_planning")' # {}
               /\ job'.status = "BROWSER_INITIALIZING" => Waiting("run_browser_capture")' # {}
               /\ job'.status = "DISCOVERING" => VisitWaits'
    <2>1. job'.status = job.status /\ job.status \in Active
      BY <1>5 DEF Recovered, Lands, Recoverable
    <2>2. /\ job.status = "PLANNING" => RecoveryPhase = "planning"
          /\ job.status = "BROWSER_INITIALIZING" => RecoveryPhase = "browser"
          /\ job.status = "DISCOVERING" => RecoveryPhase = "discovery"
          /\ job.status # "QUEUED"
      BY <2>1 DEF RecoveryPhase, Active
    <2> QED BY <1>5, <2>1, <2>2, RecoveryHandsOver
  <1> QED BY <1>2, <1>3, <1>4, <1>5, LeaseSteps

-----------------------------------------------------------------------------
(* What an operation key says of its command *)

\* The kinds of key whose uniqueness a stage relies on when it hands over.
Keyed(c) ==
    /\ c.key[1] = "extraction:page" => c.type = "run_extraction" /\ c.target = c.key[2]
    /\ c.key[1] = "validation:run" => c.type = "run_validation"
    /\ c.key[1] = "export" => c.type = "run_export"

KeyInv == \A c \in outbox : Keyed(c)

\* The commands the stages insert are keyed by what they are.
LEMMA CommandsKeyed ==
    /\ Keyed(PlanCommand) /\ Keyed(CaptureCommand) /\ Keyed(SourceCommand)
    /\ Keyed(ExtractCommand) /\ Keyed(ValidateCommand)
    /\ \A p : Keyed(PageCommand(p)) /\ Keyed(ReadCommand(p)) /\ Keyed(ExportCommand(p))
    /\ \A t : Keyed(RecoveryCommand(t))
  <1>1. ASSUME NEW t PROVE Keyed(RecoveryCommand(t))
    <2>1. CASE RecoveryPhase = "export"
      BY <2>1 DEF RecoveryCommand, RecoveryType, Keyed
    <2>2. CASE RecoveryPhase # "export"
      <3>1. RecoveryCommand(t).key[1] = RecoveryPhase
        BY <2>2 DEF RecoveryCommand
      <3>2. RecoveryPhase \in {"planning", "browser", "discovery"}
        BY <2>2 DEF RecoveryPhase
      <3> QED BY <3>1, <3>2 DEF Keyed
    <2> QED BY <2>1, <2>2
  <1> QED BY <1>1 DEF Keyed, PlanCommand, CaptureCommand, SourceCommand, ExtractCommand, ValidateCommand,
                      PageCommand, ReadCommand, ExportCommand, NewCommand

\* KeyInv is inductive.
LEMMA StepKeys ==
    ASSUME PipelineInv, KeyInv, [Next]_vars
    PROVE  KeyInv'
  <1>0. LifecycleInv
    BY DEF PipelineInv
  <1> SUFFICES ASSUME NEW c \in outbox' \ outbox PROVE Keyed(c)
    BY DEF KeyInv, Keyed
  <1>1. ASSUME NEW w \in Workers, WorkerOutcome(w) PROVE Keyed(c)
    <2>1. CASE PlanStored(w) \/ PageCaptured(w)
      BY <2>1, CommandsKeyed DEF PlanStored, PageCaptured, Insert
    <2>2. ASSUME NEW inv, NEW next, PageVisited(w, inv, next) PROVE Keyed(c)
      <3>1. c = next /\ (next = ExtractCommand \/ \E p : next = PageCommand(p))
        BY <2>2 DEF PageVisited, Insert, FollowUps
      <3> QED BY <3>1, CommandsKeyed
    <2>3. ASSUME NEW x, NEW next, PageRead(w, x, next) PROVE Keyed(c)
      <3>1. c = next /\ (next = ValidateCommand \/ \E p : next = ReadCommand(p))
        BY <2>3 DEF PageRead, Insert, AfterReading
      <3> QED BY <3>1, CommandsKeyed
    <2>4. CASE ResultsStored(w)
      BY <2>4, CommandsKeyed DEF ResultsStored
    <2>5. CASE outbox' = outbox
      BY <2>5
    <2> QED BY <1>1, <2>1, <2>2, <2>3, <2>4, <2>5
            DEF WorkerOutcome, PlanningOutcome, DiscoveryOutcome, ExtractionOutcome,
                ValidationOutcome, ExportOutcome, TurnedAway, Ignored, PlanClaimed, CaptureClaimed,
                PageClaimed, ReadClaimed, ValidationClaimed, ExportClaimed, Takes, PlanRetried,
                ValidationRetried, PageRetried, ReadRetried, Retries, OperationFailed, GivesUp,
                UploadRefused, ExportRetried, Uploaded, FilePublished, Stored, queueVars
  <1>2. CASE RecoveryOutcome
    BY <1>2, CommandsKeyed DEF RecoveryOutcome, Dispatched, LeaseLapsed, RecoveryFailed, RecoveredNothing,
                      Recovered, Insert, queueVars
  <1>3. CASE OtherOutcome
    BY <1>3 DEF OtherOutcome, Cancelled, NothingToSee, Crashed, Abandoned, Redelivered, Lost,
                queueVars, Stored
  <1> QED BY <1>0, <1>1, <1>2, <1>3, StepOutcomes

-----------------------------------------------------------------------------
(* Extraction: a page is being read, or a message waits for one *)

LeftToRead == {p \in WithStatus(pages, "VISITED") : pages[p].extraction = "none"}

\* The third part is what a reading relies on when it finds its follow-up in the
\* outbox already: the page it names is left, and so is its message.
ReadsOn ==
    /\ job.status \in BeforeReading => \A p \in Pages : pages[p].extraction = "none"
    /\ job.status = "EXTRACTING" =>
          \/ \E w \in Workers : Working(w, "run_extraction")
          \/ \E c \in Waiting("run_extraction"), p \in LeftToRead : c.target \in {None, p}
    /\ job.status = "EXTRACTING" =>
          \A d \in outbox :
              d.type = "run_extraction" /\ d.target # None /\ pages[d.target].extraction = "none" =>
                  d \in Waiting("run_extraction") /\ d.target \in LeftToRead

\* No operation of extraction is retried, cut off or dropped, and no message of
\* it is lost.
ReadOnce ==
    /\ "run_extraction" \notin Retryable
    /\ {"lose", "crash", "abandon"} \X {"run_extraction"} \cap Faults = {}

\* A message with a page to read waits until it takes one.
LEMMA ReadWaits ==
    ASSUME ReadOnce, PipelineInv, [Next]_vars, job.status = "EXTRACTING",
           NEW c \in Waiting("run_extraction"), NEW p \in LeftToRead, c.target \in {None, p}
    PROVE  \/ c \in Waiting("run_extraction")'
           \/ c \in queue /\ \E w \in Workers, q \in Pages : ReadClaimed(w, c, q)
  <1> DEFINE inv == [q \in Pages |-> IF c.target \in {None, q} THEN pages[q]
                                     ELSE [pages[q] EXCEPT !.status = "absent"]]
  <1>0. pages \in [Pages -> PageRow] /\ c.type = "run_extraction"
    BY DEF PipelineInv, LifecycleInv, TypeOK, DataOK, Waiting
  <1>1. inv \in [Pages -> PageRow]
    <2>1. \A q \in Pages : pages[q] \in PageRow /\ [pages[q] EXCEPT !.status = "absent"] \in PageRow
      BY <1>0 DEF PageRow, PageStatus
    <2> QED BY <2>1
  <1>2. p \in WithStatus(inv, "VISITED") /\ inv[p].extraction \in {"none", "PENDING"}
    BY DEF LeftToRead, WithStatus
  <1>3. ClaimablePages(c) = Readable(inv, {"none", "PENDING"})
    BY DEF ClaimablePages
  <1> HIDE DEF inv
  <1>4. ClaimablePages(c) # {}
    BY <1>1, <1>2, <1>3, ReadableExists
  <1>5. ASSUME NEW w \in Workers, TurnedAway(w, c) PROVE FALSE
    BY <1>0, <1>4, <1>5 DEF TurnedAway, Claimable
  <1>6. ASSUME NEW w \in Workers, Claimed(w, c) PROVE \E q \in Pages : ReadClaimed(w, c, q)
    BY <1>0, <1>6 DEF Claimed, PlanClaimed, CaptureClaimed, ValidationClaimed, ExportClaimed,
                      PageClaimed, Takes, Delivered
  <1>7. <<"lose", "run_extraction">> \notin Faults
    BY DEF ReadOnce
  <1> QED BY <1>5, <1>6, <1>7, WaitingStays

\* So nothing changes for the messages while no slot begins to work and the
\* pages stay what extraction sees of them.
LEMMA ReadsWaitOn ==
    ASSUME ReadOnce, PipelineInv, ReadsOn, [Next]_vars, job.status = "EXTRACTING",
           \A d \in outbox' \ outbox : d.type # "run_extraction",
           \A p \in Pages : pages'[p].status = pages[p].status /\ pages'[p].extraction = pages[p].extraction,
           \A w \in Workers, c \in queue, q \in Pages : ~ReadClaimed(w, c, q)
    PROVE  /\ \A c \in Waiting("run_extraction"), p \in LeftToRead :
                  c.target \in {None, p} => c \in Waiting("run_extraction")' /\ p \in LeftToRead'
           /\ \A d \in outbox' :
                  d.type = "run_extraction" /\ d.target # None /\ pages'[d.target].extraction = "none" =>
                      d \in Waiting("run_extraction")' /\ d.target \in LeftToRead'
  <1>0. QueueOK
    BY DEF PipelineInv, LifecycleInv, TypeOK
  <1>1. ASSUME NEW c \in Waiting("run_extraction"), NEW p \in LeftToRead, c.target \in {None, p}
        PROVE  c \in Waiting("run_extraction")' /\ p \in LeftToRead'
    <2>1. c \in Waiting("run_extraction")'
      BY <1>1, ReadWaits
    <2>2. p \in LeftToRead'
      BY DEF LeftToRead, WithStatus
    <2> QED BY <2>1, <2>2
  <1>2. ASSUME NEW d \in outbox', d.type = "run_extraction", d.target # None,
               pages'[d.target].extraction = "none"
        PROVE  d \in Waiting("run_extraction")' /\ d.target \in LeftToRead'
    <2>1. d \in outbox /\ d.target \in Pages
      BY <1>0, <1>2 DEF QueueOK, Command, WorkOf
    <2>2. d \in Waiting("run_extraction") /\ d.target \in LeftToRead
      BY <1>2, <2>1 DEF ReadsOn
    <2> QED BY <1>1, <2>2
  <1> QED BY <1>1, <1>2

\* Before extraction no page has been looked at.
LEMMA StepUnread ==
    ASSUME PipelineInv, InventoryInv, ReadsOn, [Next]_vars, job'.status \in BeforeReading
    PROVE  \A p \in Pages : pages'[p].extraction = "none"
  <1>0. LifecycleInv /\ RunningOK /\ job.status \in JobStatus /\ pages \in [Pages -> PageRow]
    BY DEF PipelineInv, LifecycleInv, TypeOK, JobOK, JobRow, DataOK
  <1>1. job.status \in BeforeReading
    <2>1. job.status \in Passed("run_extraction") \/ job'.status \notin Passed("run_extraction")
      BY <1>0, PassedForGood DEF CommandType
    <2> QED BY <2>1 DEF BeforeReading
  <1>2. \A p \in Pages : pages[p].extraction = "none"
    BY <1>1 DEF ReadsOn
  <1>3. ASSUME NEW w \in Workers, NEW inv, NEW next, PageVisited(w, inv, next)
        PROVE  \A p \in Pages : pages'[p].extraction = "none"
    <2> DEFINE r == running[w].target
    <2>1. r \in Pages /\ Working(w, "run_discovery") /\ inv \in VisitOutcomes(r) /\ pages' = inv
          /\ job.status = "DISCOVERING"
      BY <1>0, <1>3 DEF PageVisited, Ends, Working, RunningOK, Operation, WorkOf
    <2>2. pages[r].status # "absent"
      BY <2>1 DEF InventoryInv, SlotsNamed, Inventory, InventoryStatus
    <2> HIDE DEF r
    <2> QED BY <1>0, <1>2, <2>1, <2>2, VisitKeeps
  <1>4. ASSUME NEW w \in Workers,
               \/ ReadRetried(w) \/ \E x, next : PageRead(w, x, next)
               \/ \E c \in queue, p \in Pages : ReadClaimed(w, c, p)
        PROVE  FALSE
    BY <1>1, <1>4 DEF ReadRetried, Retries, PageRead, ReadClaimed, BeforeReading, Passed
  <1>5. ASSUME Slips("run_extraction") \/ Misdelivered("run_extraction") PROVE pages' = pages
    BY <1>5 DEF Slips, Misdelivered, Ignored, Crashed, Abandoned, TurnedAway, Lost, Redelivered, dataVars
  <1>6. job'.status \notin {"FAILED", "CANCELLED"}
    BY DEF BeforeReading, Passed
  <1> QED BY <1>2, <1>3, <1>4, <1>5, <1>6, ReadingChanges DEF ReadingUntouched

\* A claim: a page is being read.
LEMMA ReadingBegins ==
    ASSUME ReadOnce, PipelineInv, InventoryInv, ReadsOn, [Next]_vars,
           NEW w \in Workers, NEW c \in queue, NEW p \in Pages, ReadClaimed(w, c, p)
    PROVE  ReadsOn'
  <1>0. QueueOK /\ pages \in [Pages -> PageRow]
    BY DEF PipelineInv, LifecycleInv, TypeOK, DataOK
  <1>1. /\ job.status = "EXTRACTING" /\ c.type = "run_extraction" /\ c.target \in {None, p}
        /\ pages' = [pages EXCEPT ![p].extraction = "EXTRACTING"] /\ outbox' = outbox
    BY DEF ReadClaimed, Takes, Delivered, Stored
  <1>2. /\ running[w] = None /\ running'[w] # None /\ running'[w].cmd = c
        /\ \A v \in Workers \ {w} : running'[v] = running[v]
    BY ClaimsTake DEF Claimed
  <1>3. Working(w, "run_extraction")'
    BY <1>1, <1>2 DEF Working
  <1>4. pages'[p].extraction = "EXTRACTING" /\ \A q \in Pages \ {p} : pages'[q] = pages[q]
    BY <1>0, <1>1 DEF PageRow
  <1>5. ASSUME NEW d \in outbox', d.type = "run_extraction", d.target # None,
               pages'[d.target].extraction = "none"
        PROVE  d \in Waiting("run_extraction")' /\ d.target \in LeftToRead'
    <2>1. d.target \in Pages \ {p}
      BY <1>0, <1>1, <1>4, <1>5 DEF QueueOK, Command, WorkOf
    <2>2. d \in Waiting("run_extraction") /\ d.target \in LeftToRead
      BY <1>1, <1>4, <1>5, <2>1 DEF ReadsOn
    <2>3. ASSUME NEW v \in Workers, NEW q \in Pages, d \in queue, ReadClaimed(v, d, q) PROVE FALSE
      <3>1. running[v] = None /\ running'[v] # None /\ running'[v].cmd = d
        BY <2>3, ClaimsTake DEF Claimed
      <3>2. d = c
        BY <1>2, <3>1
      <3> QED BY <1>1, <1>5, <2>1, <3>2
    <2>4. d \in Waiting("run_extraction")'
      BY <1>1, <2>2, <2>3, ReadWaits
    <2> QED BY <1>4, <2>1, <2>2, <2>4 DEF LeftToRead, WithStatus
  <1> QED BY <1>3, <1>5, StepUnread DEF ReadsOn

\* A page has been read: the follow-up waits for one that has not.
LEMMA ReadingFollows ==
    ASSUME ReadOnce, PipelineInv, InventoryInv, ReadsOn, [Next]_vars,
           NEW w \in Workers, NEW x, NEW next, PageRead(w, x, next)
    PROVE  ReadsOn'
  <1> DEFINE r == running[w].target
  <1>0. LifecycleInv /\ QueueOK /\ RunningOK /\ pages \in [Pages -> PageRow]
    BY DEF PipelineInv, LifecycleInv, TypeOK, DataOK
  <1>1. /\ job.status = "EXTRACTING" /\ running[w] # None /\ Finish(w) /\ r \in Pages
        /\ x \in {"PARTIAL", "EXTRACTED"}
        /\ pages' = [pages EXCEPT ![r].extraction = x]
        /\ next \in AfterReading(pages')
        /\ next = ValidateCommand => job'.status = "VALIDATING"
        /\ outbox' = outbox \cup {next} /\ next \notin outbox
    BY <1>0 DEF PageRead, Ends, Working, Insert, Lands, Fresh, RunningOK, Operation, WorkOf
  <1>2. \A v \in Workers : running[v] = None => running'[v] = None
    BY <1>0, <1>1 DEF Finish, RunningOK
  <1> HIDE DEF r
  <1>3. pages'[r].extraction = x /\ \A q \in Pages \ {r} : pages'[q] = pages[q]
    BY <1>0, <1>1 DEF PageRow
  <1>4. CASE next = ValidateCommand
    BY <1>1, <1>4, StepUnread DEF ReadsOn
  <1>5. CASE next # ValidateCommand
    <2>1. PICK q \in Readable(pages', {"none"}) : next = ReadCommand(q)
      BY <1>1, <1>5 DEF AfterReading
    <2>2. q \in LeftToRead'
      BY <2>1 DEF Readable, WithStatus, LeftToRead
    <2>3. next.type = "run_extraction" /\ next.target = q
      BY <2>1 DEF ReadCommand, NewCommand
    <2>4. next \in Waiting("run_extraction")'
      <3>1. next \in Waiting(next.type)'
        BY <1>1, NewWaits
      <3> QED BY <2>3, <3>1
    <2>5. ASSUME NEW d \in outbox, d.type = "run_extraction", d.target # None,
                 pages'[d.target].extraction = "none"
          PROVE  d \in Waiting("run_extraction")' /\ d.target \in LeftToRead'
      <3>1. d.target \in Pages \ {r}
        BY <1>0, <1>1, <1>3, <2>5 DEF QueueOK, Command, WorkOf
      <3>2. d \in Waiting("run_extraction") /\ d.target \in LeftToRead
        BY <1>1, <1>3, <2>5, <3>1 DEF ReadsOn
      <3>3. ASSUME NEW v \in Workers, NEW p \in Pages, d \in queue, ReadClaimed(v, d, p) PROVE FALSE
        BY <1>2, <3>3, ClaimsTake DEF Claimed
      <3>4. d \in Waiting("run_extraction")'
        BY <1>1, <3>2, <3>3, ReadWaits
      <3> QED BY <1>3, <3>1, <3>2, <3>4 DEF LeftToRead, WithStatus
    <2> QED BY <1>1, <2>2, <2>3, <2>4, <2>5, StepUnread DEF ReadsOn
  <1> QED BY <1>4, <1>5

\* The last visit: the first command may read any page that was visited.
LEMMA ReadingStarts ==
    ASSUME PipelineInv, InventoryInv, ReadsOn, [Next]_vars,
           NEW w \in Workers, NEW inv, NEW next, PageVisited(w, inv, next)
    PROVE  ReadsOn'
  <1> DEFINE r == running[w].target
  <1>0. LifecycleInv /\ RunningOK /\ pages \in [Pages -> PageRow]
    BY DEF PipelineInv, LifecycleInv, TypeOK, DataOK
  <1>1. /\ job.status = "DISCOVERING" /\ r \in Pages /\ Working(w, "run_discovery")
        /\ inv \in VisitOutcomes(r) /\ pages' = inv
        /\ next # ExtractCommand => job'.status = "DISCOVERING"
        /\ outbox' = outbox \cup {next} /\ next \notin outbox
    BY <1>0 DEF PageVisited, Ends, Working, Insert, Lands, Fresh, RunningOK, Operation, WorkOf
  <1>2. pages[r].status # "absent" /\ pages[r].extraction = "none"
    BY <1>1 DEF InventoryInv, SlotsNamed, Inventory, InventoryStatus, ReadsOn, BeforeReading, Passed
  <1> HIDE DEF r
  <1>3. r \in LeftToRead'
    <2>1. pages'[r].status = "VISITED" /\ pages'[r].extraction = "none"
      BY <1>0, <1>1, <1>2, VisitKeeps
    <2> QED BY <1>1, <2>1 DEF LeftToRead, WithStatus
  <1>4. \A d \in outbox : d.type # "run_extraction"
    BY <1>1 DEF PipelineInv, OutboxInv, Passed
  <1>5. CASE next = ExtractCommand
    <2>1. next.type = "run_extraction" /\ next.target = None
      BY <1>5 DEF ExtractCommand, NewCommand
    <2>2. next \in Waiting("run_extraction")'
      <3>1. next \in Waiting(next.type)'
        BY <1>1, NewWaits
      <3> QED BY <2>1, <3>1
    <2> QED BY <1>1, <1>3, <1>4, <2>1, <2>2, StepUnread DEF ReadsOn
  <1>6. CASE next # ExtractCommand
    BY <1>1, <1>6, StepUnread DEF ReadsOn
  <1> QED BY <1>5, <1>6

\* A reading finds its follow-up in the outbox already: its message waits.
LEMMA ReadingIsFollowed ==
    ASSUME PipelineInv, KeyInv, ReadsOn, job.status = "EXTRACTING",
           NEW w \in Workers, Working(w, "run_extraction"), Ignored(w)
    PROVE  \E c \in Waiting("run_extraction"), p \in LeftToRead : c.target \in {None, p}
  <1> DEFINE r == running[w].target
  <1>0. RunningOK /\ OutboxInv /\ pages \in [Pages -> PageRow]
    BY DEF PipelineInv, LifecycleInv, TypeOK, DataOK
  <1>1. r \in Pages
    BY <1>0 DEF Working, RunningOK, Operation, WorkOf
  <1>2. PICK x \in {"PARTIAL", "EXTRACTED"} :
            \E n \in AfterReading([pages EXCEPT ![r].extraction = x]) : ~Fresh(n)
    BY DEF Ignored, Excused, Working
  <1> DEFINE inv == [pages EXCEPT ![r].extraction = x]
  <1>3. PICK next \in AfterReading(inv) : ~Fresh(next)
    BY <1>2
  <1>4. PICK o \in outbox : o.key = next.key
    BY <1>3 DEF Fresh
  <1>5. Keyed(o)
    BY <1>4 DEF KeyInv
  <1>6. next # ValidateCommand
    <2>1. ASSUME next = ValidateCommand PROVE o.type = "run_validation"
      BY <1>4, <1>5, <2>1 DEF ValidateCommand, NewCommand, Keyed
    <2> QED BY <1>0, <1>4, <2>1 DEF OutboxInv, Passed
  <1>7. PICK q \in Readable(inv, {"none"}) : next = ReadCommand(q)
    BY <1>3, <1>6 DEF AfterReading
  <1>8. q \in Pages /\ pages[q].extraction = "none"
    <2>1. q \in Pages /\ inv[q].extraction = "none"
      BY <1>7 DEF Readable
    <2>2. inv[r].extraction = x
      BY <1>0, <1>1 DEF PageRow
    <2> QED BY <1>0, <1>2, <2>1, <2>2
  <1>9. o.type = "run_extraction" /\ o.target = q /\ q # None
    <2>1. o.key[1] = "extraction:page" /\ o.key[2] = q
      BY <1>4, <1>7 DEF ReadCommand, NewCommand
    <2> QED BY <1>5, <1>8, <2>1, StoreAssumption DEF Keyed
  <1> QED BY <1>4, <1>8, <1>9 DEF ReadsOn

\* ReadsOn is inductive while every operation of extraction comes to its end.
LEMMA StepReadsOn ==
    ASSUME ReadOnce, PipelineInv, InventoryInv, KeyInv, ReadsOn, [Next]_vars
    PROVE  ReadsOn'
  <1>0. RunningOK /\ QueueOK
    BY DEF PipelineInv, LifecycleInv, TypeOK
  <1>1. CASE job'.status # "EXTRACTING"
    BY <1>1, StepUnread DEF ReadsOn
  <1>2. ASSUME job.status = "EXTRACTING", job'.status = "EXTRACTING",
               \A d \in outbox' \ outbox : d.type # "run_extraction",
               \A p \in Pages : pages'[p].status = pages[p].status
                                /\ pages'[p].extraction = pages[p].extraction,
               \A w \in Workers, c \in queue, q \in Pages : ~ReadClaimed(w, c, q),
               \/ \A w \in Workers : Working(w, "run_extraction") => Working(w, "run_extraction")'
               \/ \E c \in Waiting("run_extraction"), p \in LeftToRead : c.target \in {None, p}
        PROVE  ReadsOn'
    <2>1. /\ \A c \in Waiting("run_extraction"), p \in LeftToRead :
                  c.target \in {None, p} => c \in Waiting("run_extraction")' /\ p \in LeftToRead'
          /\ \A d \in outbox' :
                  d.type = "run_extraction" /\ d.target # None /\ pages'[d.target].extraction = "none" =>
                      d \in Waiting("run_extraction")' /\ d.target \in LeftToRead'
      BY <1>2, ReadsWaitOn
    <2>2. \/ \E w \in Workers : Working(w, "run_extraction")'
          \/ \E c \in Waiting("run_extraction")', p \in LeftToRead' : c.target \in {None, p}
      <3>1. CASE \E c \in Waiting("run_extraction"), p \in LeftToRead : c.target \in {None, p}
        BY <2>1, <3>1
      <3>2. CASE \E w \in Workers : Working(w, "run_extraction")
        BY <1>2, <2>1, <3>2
      <3> QED BY <1>2, <3>1, <3>2 DEF ReadsOn
    <2> QED BY <1>2, <2>1, <2>2, StepUnread DEF ReadsOn
  <1>3. ASSUME NEW w \in Workers, NEW c \in queue, NEW q \in Pages, ReadClaimed(w, c, q)
        PROVE  /\ running[w] = None /\ running'[w] # None /\ pages'[q].extraction # pages[q].extraction
    <2>1. pages \in [Pages -> PageRow]
      BY DEF PipelineInv, LifecycleInv, TypeOK, DataOK
    <2>2. pages'[q].extraction # pages[q].extraction
      BY <1>3, <2>1 DEF ReadClaimed, PageRow
    <2> QED BY <1>3, <2>2, ClaimsTake DEF Claimed
  <1>4. CASE ReadingUntouched /\ job'.status = "EXTRACTING"
    <2>1. /\ job.status = "EXTRACTING"
          /\ \A p \in Pages : pages'[p].status = pages[p].status /\ pages'[p].extraction = pages[p].extraction
          /\ \A w \in Workers : Working(w, "run_extraction") => Working(w, "run_extraction")'
          /\ \A d \in outbox' \ outbox : d.type # "run_extraction"
      BY <1>4 DEF ReadingUntouched, ReadMessagesKept, Working
    <2> QED BY <1>2, <1>3, <1>4, <2>1
  <1>5. CASE Slips("run_extraction") /\ job'.status = "EXTRACTING"
    <2>1. PICK w \in Workers : Working(w, "run_extraction") /\ (Ignored(w) \/ Crashed(w) \/ Abandoned(w))
      BY <1>5 DEF Slips
    <2>2. Ignored(w)
      BY <2>1 DEF Crashed, Abandoned, Working, ReadOnce
    <2>3. job.status = "EXTRACTING" /\ UNCHANGED <<outbox, pages>>
      BY <1>5, <2>2 DEF Ignored, Stored, dataVars
    <2>4. \A v \in Workers : running[v] = None => running'[v] = None
      BY <1>0, <2>2 DEF Ignored, Finish, RunningOK
    <2>5. \A v \in Workers, c \in queue, q \in Pages : ~ReadClaimed(v, c, q)
      BY <1>3, <2>4
    <2> QED BY <1>2, <1>5, <2>1, <2>2, <2>3, <2>5, ReadingIsFollowed
  <1>6. CASE Misdelivered("run_extraction") /\ job'.status = "EXTRACTING"
    <2>1. job.status = "EXTRACTING" /\ UNCHANGED <<outbox, pages, running>>
      BY <1>6 DEF Misdelivered, TurnedAway, Discard, Lost, Redelivered, Stored, dataVars
    <2>2. \A v \in Workers, c \in queue, q \in Pages : ~ReadClaimed(v, c, q)
      BY <1>3, <2>1
    <2> QED BY <1>2, <1>6, <2>1, <2>2 DEF Working
  <1>7. ASSUME NEW w \in Workers, ReadRetried(w) PROVE FALSE
    BY <1>7 DEF ReadRetried, Retries, ReadOnce
  <1> QED BY <1>1, <1>4, <1>5, <1>6, <1>7, ReadingBegins, ReadingFollows, ReadingStarts, ReadingChanges

-----------------------------------------------------------------------------
(* Validation: its command stays with arq until the exports are queued *)

BeforeExport == Passed("run_export")

ValidInv ==
    /\ job.status \in BeforeExport => validation.status # "COMPLETED"
    /\ job.status = "VALIDATING" => \E c \in Messages : c.type = "run_validation"

\* A validation that is not dropped keeps its message until it has stored its
\* results.
LEMMA ValidationStays ==
    ASSUME {"lose", "abandon"} \X {"run_validation"} \cap Faults = {},
           PipelineInv, KeyInv, ValidInv, [Next]_vars,
           job.status = "VALIDATING", job'.status \in BeforeExport,
           NEW c \in Messages, c.type = "run_validation"
    PROVE  c \in Messages'
  <1>0. LifecycleInv /\ RunningOK /\ SlotInv /\ OutboxInv
    BY DEF PipelineInv, LifecycleInv, TypeOK
  <1>1. ~Lost(c)
    BY DEF Lost
  <1>2. ASSUME NEW w \in Workers, TurnedAway(w, c) PROVE FALSE
    BY <1>2 DEF TurnedAway, Claimable, ValidationClaimable, ValidInv, BeforeExport, Passed
  <1>3. ASSUME NEW w \in Workers, running[w] # None, running[w].cmd = c, Finish(w) PROVE FALSE
    <2>1. c \in queue /\ c \notin queue' /\ running'[w] = None /\ Working(w, "run_validation")
      BY <1>0, <1>3 DEF SlotInv, Finish, RunningOK, Working
    <2>2. ASSUME NEW v \in Workers, Finish(v) PROVE running[v].cmd = c
      BY <2>1, <2>2 DEF Finish
    <2>3. CASE Progresses
      <3>1. ASSUME NEW v \in Workers, NEW d, NEW p,
                   \/ PlanClaimed(v, d) \/ CaptureClaimed(v, d) \/ ValidationClaimed(v, d)
                   \/ ExportClaimed(v, d) \/ PageClaimed(v, d, p) \/ ReadClaimed(v, d, p)
            PROVE  FALSE
        BY <2>1, <3>1 DEF PlanClaimed, CaptureClaimed, ValidationClaimed, ExportClaimed,
                          PageClaimed, ReadClaimed, Takes, Begin
      <3>2. ASSUME NEW v \in Workers, \/ PlanRetried(v) \/ PageRetried(v) \/ ReadRetried(v)
                                      \/ ValidationRetried(v) \/ ExportRetried(v)
            PROVE  FALSE
        BY <2>1, <3>2 DEF PlanRetried, PageRetried, ReadRetried, ValidationRetried, ExportRetried,
                          Retries, Requeue
      <3>3. ASSUME NEW v \in Workers, PlanStored(v) \/ PageCaptured(v) \/ UploadRefused(v) PROVE FALSE
        BY <2>2, <3>3 DEF PlanStored, PageCaptured, UploadRefused, Ends, Working
      <3>4. ASSUME NEW v \in Workers, NEW inv, NEW next,
                   PageVisited(v, inv, next) \/ PageRead(v, inv, next)
            PROVE  FALSE
        BY <2>2, <3>4 DEF PageVisited, PageRead, Ends, Working
      <3>5. ASSUME NEW v \in Workers, NEW b \in Blobs, Uploaded(v, b) PROVE FALSE
        BY <2>1, <3>5 DEF Uploaded, queueVars
      <3>6. ASSUME NEW v \in Workers, FilePublished(v) PROVE FALSE
        BY <2>1, <3>6 DEF FilePublished, queueVars
      <3>7. ASSUME NEW v \in Workers, ResultsStored(v) PROVE FALSE
        BY <3>7 DEF ResultsStored, Lands, BeforeExport, Passed
      <3>8. ASSUME RecoveredNothing \/ \E t \in RecoveryTargets : Recovered(t) PROVE FALSE
        BY <2>1, <3>8 DEF RecoveredNothing, Recovered, Dispatches
      <3> QED BY <2>3, <3>1, <3>2, <3>3, <3>4, <3>5, <3>6, <3>7, <3>8 DEF Progresses
    <2>4. CASE Undisturbed("run_validation")
      BY <1>3, <2>1, <2>4 DEF Undisturbed
    <2>5. CASE Slips("run_validation")
      <3>1. PICK v \in Workers : Working(v, "run_validation") /\ (Ignored(v) \/ Crashed(v) \/ Abandoned(v))
        BY <2>5 DEF Slips
      <3>2. ~Crashed(v) /\ ~Abandoned(v)
        BY <2>1, <3>1 DEF Crashed, Requeue, Abandoned, Working
      <3>3. PICK f \in Formats : ~Fresh(ExportCommand(f))
        BY <3>1, <3>2 DEF Ignored, Excused, Working
      <3>4. PICK o \in outbox : o.key = ExportCommand(f).key
        BY <3>3 DEF Fresh
      <3>5. o.type = "run_export"
        BY <3>4 DEF KeyInv, Keyed, ExportCommand, NewCommand
      <3> QED BY <1>0, <3>4, <3>5 DEF OutboxInv, Passed
    <2>6. CASE Misdelivered("run_validation")
      BY <1>3, <2>1, <2>6 DEF Misdelivered, TurnedAway, Discard, Lost, Redelivered
    <2> QED BY <2>3, <2>4, <2>5, <2>6, StageSteps DEF CommandType, BeforeExport, Passed
  <1> QED BY <1>1, <1>2, <1>3, MessagesStay DEF Consumed

\* ValidInv is inductive.
LEMMA StepValid ==
    ASSUME {"lose", "abandon"} \X {"run_validation"} \cap Faults = {},
           PipelineInv, KeyInv, ValidInv, [Next]_vars
    PROVE  ValidInv'
  <1> SUFFICES ASSUME job'.status \in BeforeExport
               PROVE  /\ validation'.status # "COMPLETED"
                      /\ job'.status = "VALIDATING" => \E c \in Messages' : c.type = "run_validation"
    BY DEF ValidInv, BeforeExport, Passed
  <1>0. LifecycleInv /\ job.status \in JobStatus /\ validation \in ValidationRow
    BY DEF PipelineInv, LifecycleInv, TypeOK, JobOK, JobRow, DataOK
  <1>1. job.status \in BeforeExport
    BY PassedForGood, <1>0 DEF BeforeExport, CommandType
  <1>2. validation.status # "COMPLETED"
    BY <1>1 DEF ValidInv
  <1>3. CASE Progresses
    <2>1. ASSUME NEW w \in Workers, NEW x, NEW next, PageRead(w, x, next)
          PROVE  /\ validation'.status # "COMPLETED"
                 /\ job'.status = "VALIDATING" => ValidateCommand \in outbox' \ outbox
      BY <1>0, <1>2, <2>1 DEF PageRead, ValidationRow, Lands, Insert, Fresh
    <2>2. \A c \in outbox' \ outbox : c \in Messages'
      BY NewWaits DEF Waiting
    <2>3. ASSUME NEW w \in Workers, NEW c \in queue, ValidationClaimed(w, c)
          PROVE  validation'.status # "COMPLETED" /\ job.status = "VALIDATING"
      BY <1>0, <2>3 DEF ValidationClaimed, ValidationRow
    <2>4. ValidateCommand.type = "run_validation"
      BY DEF ValidateCommand, NewCommand
    <2>5. ASSUME ~\E w \in Workers : \/ \E x, next : PageRead(w, x, next)
                                     \/ \E c \in queue : ValidationClaimed(w, c)
          PROVE  validation' = validation /\ (job'.status = "VALIDATING" => job.status = "VALIDATING")
      <3>1. ASSUME NEW w \in Workers, NEW c \in queue,
                   \/ PlanClaimed(w, c) \/ CaptureClaimed(w, c) \/ ExportClaimed(w, c)
                   \/ \E p \in Pages : PageClaimed(w, c, p) \/ ReadClaimed(w, c, p)
            PROVE  validation' = validation /\ job'.status # "VALIDATING"
        BY <3>1, Landings DEF PlanClaimed, CaptureClaimed, ExportClaimed, PageClaimed, ReadClaimed,
                              dataVars, Derived
      <3>2. ASSUME NEW w \in Workers,
                   \/ PlanStored(w) \/ PageCaptured(w) \/ FilePublished(w) \/ PlanRetried(w)
                   \/ PageRetried(w) \/ ReadRetried(w) \/ ExportRetried(w)
                   \/ \E inv, next : PageVisited(w, inv, next)
            PROVE  validation' = validation /\ job'.status # "VALIDATING"
        BY <3>2, Landings DEF PlanStored, PageCaptured, FilePublished, PlanRetried, PageRetried,
                              ReadRetried, ExportRetried, PageVisited, dataVars, Derived
      <3>3. ASSUME NEW w \in Workers, \/ ValidationRetried(w) \/ UploadRefused(w)
                                      \/ \E b \in Blobs : Uploaded(w, b)
            PROVE  validation' = validation /\ job'.status = job.status
        BY <3>3, Landings DEF ValidationRetried, Retries, Lands, dataVars
      <3>4. ASSUME NEW w \in Workers, ResultsStored(w) PROVE FALSE
        BY <3>4, Landings DEF BeforeExport, Passed
      <3>5. ASSUME RecoveredNothing \/ \E t \in RecoveryTargets : Recovered(t)
            PROVE  validation' = validation /\ job'.status = job.status
        BY <3>5 DEF RecoveredNothing, Recovered, Lands, dataVars
      <3> QED BY <1>3, <2>5, <3>1, <3>2, <3>3, <3>4, <3>5 DEF Progresses
    <2>6. ASSUME job.status = "VALIDATING" PROVE \E c \in Messages' : c.type = "run_validation"
      BY <2>6, ValidationStays DEF ValidInv
    <2> QED BY <1>2, <2>1, <2>2, <2>3, <2>4, <2>5, <2>6
  <1>4. CASE Undisturbed("run_validation") \/ Slips("run_validation") \/ Misdelivered("run_validation")
    <2>1. validation' = validation /\ job'.status = job.status
      BY <1>4 DEF Undisturbed, Slips, Misdelivered, Ignored, Crashed, Abandoned, TurnedAway, Lost,
                  Redelivered, dataVars
    <2> QED BY <1>2, <2>1, ValidationStays DEF ValidInv
  <1> QED BY <1>3, <1>4, StageSteps DEF CommandType, BeforeExport, Passed

-----------------------------------------------------------------------------
(* Exports: a queued one has its message, a running one its operation *)

\* An export is rendered for the command that names it.
NamedUploads ==
    \A w \in Workers : Working(w, "run_export") => running[w].cmd.target = running[w].target

Served(f) ==
    /\ exports[f].status \in {"QUEUED", "RUNNING", "COMPLETED"}
    /\ exports[f].status = "QUEUED" => \E c \in Waiting("run_export") : c.target = f
    /\ exports[f].status = "RUNNING" => \E w \in Workers : Uncommitted(w, f)

ServedInv ==
    job.status = "EXPORTING" => /\ \A f \in Formats : Served(f)
                                /\ \E f \in Formats : exports[f].status # "COMPLETED"

\* NamedUploads is inductive.
LEMMA StepNamed ==
    ASSUME PipelineInv, NamedUploads, [Next]_vars
    PROVE  NamedUploads'
  <1>0. LifecycleInv
    BY DEF PipelineInv
  <1>1. CASE NoNewWork
    BY <1>1 DEF NoNewWork, NamedUploads, Working
  <1>2. ASSUME NEW w \in Workers, NEW c \in queue, Claimed(w, c) PROVE NamedUploads'
    <2>1. /\ running[w] = None /\ running'[w].cmd = c
          /\ \A v \in Workers \ {w} : running'[v] = running[v]
      BY <1>2, ClaimsTake
    <2>2. c.type = "run_export" => running'[w].target = c.target
      <3>1. ASSUME c.type = "run_export" PROVE ExportClaimed(w, c)
        BY <1>2, <3>1 DEF Claimed, PlanClaimed, CaptureClaimed, ValidationClaimed, PageClaimed,
                          ReadClaimed, Takes, Delivered
      <3>2. ASSUME ExportClaimed(w, c) PROVE SlotTaken(w, c, c.target)
        BY <3>2 DEF ExportClaimed, Takes, Delivered, SlotTaken
      <3>3. ASSUME SlotTaken(w, c, c.target) PROVE running'[w].target = c.target
        <4>1. running'[w] = [cmd |-> c, target |-> c.target, blob |-> None, step |-> "working"]
          BY <1>0, <3>3, SlotEffects
        <4> QED BY <4>1
      <3> QED BY <3>1, <3>2, <3>3
    <2> QED BY <2>1, <2>2 DEF NamedUploads, Working
  <1> QED BY <1>1, <1>2, WorkBegins

\* An upload that is neither crashed nor abandoned goes on until its export is
\* published, retried, or found published by another operation.
LEMMA UploadGoesOn ==
    ASSUME {"crash", "abandon"} \X {"run_export"} \cap Faults = {},
           PipelineInv, [Next]_vars, job.status = "EXPORTING", job'.status = "EXPORTING",
           NEW w \in Workers, NEW f \in Formats, Uncommitted(w, f)
    PROVE  Uncommitted(w, f)' \/ FilePublished(w) \/ ExportRetried(w) \/ exports[f].status = "COMPLETED"
  <1> DEFINE Goal == \/ Uncommitted(w, f)' \/ FilePublished(w) \/ ExportRetried(w)
                     \/ exports[f].status = "COMPLETED"
  <1>0. LifecycleInv /\ RunningOK
    BY DEF PipelineInv, LifecycleInv, TypeOK
  <1>1. /\ running[w] # None /\ running[w].cmd.type = "run_export" /\ running[w].target = f
        /\ running[w].step # "committed"
    BY DEF Uncommitted, Working
  <1>2. ASSUME running'[w] = running[w] PROVE Goal
    BY <1>2 DEF Uncommitted, Working
  <1>3. ASSUME NEW v \in Workers, Finish(v) \/ Requeue(v), v # w PROVE Goal
    BY <1>0, <1>2, <1>3 DEF Finish, Requeue, RunningOK
  <1>4. CASE Undisturbed("run_export")
    BY <1>1, <1>2, <1>4 DEF Undisturbed, Working
  <1>5. CASE Slips("run_export")
    <2>1. PICK v \in Workers : Working(v, "run_export") /\ (Ignored(v) \/ Crashed(v) \/ Abandoned(v))
      BY <1>5 DEF Slips
    <2>2. Ignored(v)
      BY <2>1 DEF Crashed, Abandoned, Working
    <2>3. v # w
      BY <1>1, <2>2 DEF Ignored, Excused
    <2> QED BY <1>3, <2>2, <2>3 DEF Ignored
  <1>6. CASE Misdelivered("run_export")
    BY <1>2, <1>6 DEF Misdelivered, TurnedAway, Discard, Lost, Redelivered
  <1>7. CASE Progresses
    <2>1. ASSUME NEW v \in Workers, NEW c \in queue, Claimed(v, c) PROVE Goal
      BY <1>1, <1>2, <2>1, ClaimsTake
    <2>2. ASSUME NEW v \in Workers, PlanStored(v) \/ PageCaptured(v) \/ ResultsStored(v) PROVE Goal
      BY <2>2 DEF PlanStored, PageCaptured, ResultsStored
    <2>3. ASSUME NEW v \in Workers, NEW inv, NEW next, PageVisited(v, inv, next) \/ PageRead(v, inv, next)
          PROVE  Goal
      BY <2>3 DEF PageVisited, PageRead
    <2>4. ASSUME NEW v \in Workers, \/ PlanRetried(v) \/ PageRetried(v) \/ ReadRetried(v)
                                    \/ ValidationRetried(v)
          PROVE  Goal
      BY <2>4 DEF PlanRetried, PageRetried, ReadRetried, ValidationRetried, Retries
    <2>5. ASSUME NEW v \in Workers, ExportRetried(v) PROVE Goal
      BY <1>3, <2>5 DEF ExportRetried
    <2>6. ASSUME NEW v \in Workers, UploadRefused(v) PROVE Goal
      BY <1>1, <1>3, <2>6 DEF UploadRefused, Ends
    <2>7. ASSUME NEW v \in Workers, NEW b \in Blobs, Uploaded(v, b) PROVE Goal
      <3>1. CASE v # w
        BY <1>0, <1>2, <2>7, <3>1 DEF Uploaded, RunningOK
      <3>2. CASE v = w
        <4>1. running[w] \in Operation
          BY <1>0, <1>1 DEF RunningOK
        <4>2. running'[w] = [running[w] EXCEPT !.blob = b, !.step = "stored"]
          BY <1>0, <2>7, <3>2 DEF Uploaded, RunningOK
        <4>3. running'[w].step = "stored"
          BY <4>1, <4>2 DEF Operation
        <4>4. SlotAdvanced(w)
          BY <2>7, <3>2 DEF Uploaded, AtStep, queueVars, LeaseFair, SlotAdvanced
        <4>5. /\ running'[w] # None
              /\ running'[w].cmd = running[w].cmd /\ running'[w].target = running[w].target
          BY <1>0, <4>4, SlotEffects
        <4> QED BY <1>1, <4>3, <4>5 DEF Uncommitted, Working
      <3> QED BY <3>1, <3>2
    <2>8. ASSUME NEW v \in Workers, FilePublished(v) PROVE Goal
      BY <1>0, <1>2, <2>8 DEF FilePublished, RunningOK
    <2>9. CASE RecoveredNothing \/ \E t \in RecoveryTargets : Recovered(t)
      BY <1>2, <2>9 DEF RecoveredNothing, Recovered
    <2> QED BY <1>7, <2>1, <2>2, <2>3, <2>4, <2>5, <2>6, <2>7, <2>8, <2>9 DEF Progresses, Claimed
  <1> QED BY <1>4, <1>5, <1>6, <1>7, StageSteps DEF CommandType

\* The faults after which an export may keep its row without anyone to serve it.
NoExportDropped == {"lose", "crash", "abandon"} \X {"run_export"} \cap Faults = {}

\* An export whose status stays is served as before.
LEMMA ServedStays ==
    ASSUME NoExportDropped, PipelineInv, [Next]_vars, job.status = "EXPORTING", job'.status = "EXPORTING",
           NEW f \in Formats, Served(f), exports'[f].status = exports[f].status
    PROVE  Served(f)'
  <1>0. LifecycleInv /\ exports \in [Formats -> ExportRow]
    BY DEF PipelineInv, LifecycleInv, TypeOK, DataOK
  <1>1. CASE exports[f].status = "QUEUED"
    <2>1. PICK c \in Waiting("run_export") : c.target = f
      BY <1>1 DEF Served
    <2>2. c.type = "run_export"
      BY DEF Waiting
    <2>3. ASSUME NEW w \in Workers, TurnedAway(w, c) PROVE FALSE
      <3>1. ~ExportClaimable(f)
        BY <2>1, <2>2, <2>3 DEF TurnedAway, Claimable
      <3> QED BY <1>0, <1>1, <3>1 DEF ExportClaimable, JobCancelled, LifecycleInv, CancelledAtOnce
    <2>4. ASSUME NEW w \in Workers, Claimed(w, c) PROVE FALSE
      <3>1. ExportClaimed(w, c)
        BY <2>2, <2>4 DEF Claimed, PlanClaimed, CaptureClaimed, ValidationClaimed, PageClaimed,
                          ReadClaimed, Takes, Delivered
      <3>2. exports'[f].status = "RUNNING"
        BY <1>0, <2>1, <3>1 DEF ExportClaimed, ExportRow
      <3> QED BY <1>1, <3>2
    <2>5. <<"lose", "run_export">> \notin Faults
      BY DEF NoExportDropped
    <2>6. c \in Waiting("run_export")'
      BY <2>3, <2>4, <2>5, WaitingStays
    <2> QED BY <1>1, <2>1, <2>6 DEF Served
  <1>2. CASE exports[f].status = "RUNNING"
    <2>1. PICK w \in Workers : Uncommitted(w, f)
      BY <1>2 DEF Served
    <2>2. ASSUME FilePublished(w) PROVE exports'[f].status = "COMPLETED"
      BY <1>0, <2>1, <2>2 DEF FilePublished, Uncommitted, ExportRow
    <2>3. ASSUME ExportRetried(w) PROVE exports'[f].status = "QUEUED"
      BY <1>0, <2>1, <2>3 DEF ExportRetried, Uncommitted, ExportRow
    <2>4. {"crash", "abandon"} \X {"run_export"} \cap Faults = {}
      BY DEF NoExportDropped
    <2>5. Uncommitted(w, f)'
      BY <1>2, <2>1, <2>2, <2>3, <2>4, UploadGoesOn
    <2> QED BY <1>2, <2>5 DEF Served
  <1> QED BY <1>1, <1>2 DEF Served

\* The five writers of the export rows leave every export served.
LEMMA WritersServe ==
    ASSUME NoExportDropped, PipelineInv, NamedUploads, ServedInv, [Next]_vars,
           ExportsWritten, job'.status = "EXPORTING"
    PROVE  ServedInv'
  <1>0. LifecycleInv /\ RunningOK /\ QueueOK /\ exports \in [Formats -> ExportRow]
    BY DEF PipelineInv, LifecycleInv, TypeOK, DataOK
  \* One export is written, and the others are served as before.
  <1>1. ASSUME job.status = "EXPORTING", NEW f \in Formats, Served(f)',
               \A g \in Formats \ {f} : exports'[g].status = exports[g].status,
               \E g \in Formats : exports'[g].status # "COMPLETED"
        PROVE  ServedInv'
    <2>1. \A g \in Formats \ {f} : Served(g)'
      BY <1>1, ServedStays DEF ServedInv
    <2> QED BY <1>1, <2>1 DEF ServedInv
  <1>2. ASSUME NEW w \in Workers, NEW c \in queue, ExportClaimed(w, c) PROVE ServedInv'
    <2>1. PICK f \in Formats : f = c.target
      BY <1>2 DEF ExportClaimed, Takes, WorkOf
    <2>2. exports'[f].status = "RUNNING" /\ \A g \in Formats \ {f} : exports'[g] = exports[g]
      BY <1>0, <1>2, <2>1 DEF ExportClaimed, ExportRow
    <2>3. Uncommitted(w, f)'
      <3>1. SlotTaken(w, c, f) /\ c.type = "run_export"
        BY <1>2, <2>1 DEF ExportClaimed, Takes, Delivered, SlotTaken
      <3>2. /\ running'[w] = [cmd |-> c, target |-> f, blob |-> None, step |-> "working"]
            /\ running'[w] # None
        BY <1>0, <3>1, SlotEffects
      <3> QED BY <3>1, <3>2 DEF Uncommitted, Working
    <2>4. Served(f)'
      BY <2>2, <2>3 DEF Served
    <2>5. job.status = "EXPORTING"
      BY <1>2 DEF ExportClaimed
    <2> QED BY <1>1, <2>2, <2>4, <2>5
  <1>3. ASSUME NEW w \in Workers, ResultsStored(w) PROVE ServedInv'
    <2>1. \A f \in Formats : exports'[f].status = "QUEUED"
      BY <1>3 DEF ResultsStored
    <2>2. \A f \in Formats : ExportCommand(f) \in outbox' \ outbox
      BY <1>3 DEF ResultsStored, Fresh
    <2>3. \A d \in outbox' \ outbox : d \in Waiting(d.type)'
      BY NewWaits
    <2>4. \A f \in Formats : ExportCommand(f).type = "run_export" /\ ExportCommand(f).target = f
      BY DEF ExportCommand, NewCommand
    <2>5. \A f \in Formats : Served(f)'
      BY <2>1, <2>2, <2>3, <2>4 DEF Served
    <2>6. Formats # {}
      BY StoreAssumption
    <2> QED BY <2>1, <2>5, <2>6 DEF ServedInv
  <1>4. ASSUME NEW w \in Workers, FilePublished(w) PROVE ServedInv'
    <2>1. PICK f \in Formats : f = running[w].target
      BY <1>0, <1>4 DEF FilePublished, AtStep, Working, RunningOK, Operation, WorkOf
    <2>2. exports'[f].status = "COMPLETED" /\ \A g \in Formats \ {f} : exports'[g] = exports[g]
      BY <1>0, <1>4, <2>1 DEF FilePublished, ExportRow
    <2>3. ~AllExported(exports')
      BY <1>4 DEF FilePublished, Lands
    <2>4. Served(f)'
      BY <2>2 DEF Served
    <2>5. job.status = "EXPORTING"
      BY <1>4 DEF FilePublished
    <2> QED BY <1>1, <2>2, <2>3, <2>4, <2>5 DEF AllExported
  <1>5. ASSUME NEW w \in Workers, ExportRetried(w) PROVE ServedInv'
    <2>1. PICK f \in Formats : f = running[w].target
      BY <1>0, <1>5 DEF ExportRetried, Working, RunningOK, Operation, WorkOf
    <2>2. exports'[f].status = "QUEUED" /\ \A g \in Formats \ {f} : exports'[g] = exports[g]
      BY <1>0, <1>5, <2>1 DEF ExportRetried, ExportRow
    <2>3. PICK c : c = running[w].cmd
      OBVIOUS
    <2>4. c.target = f /\ c.type = "run_export"
      BY <1>5, <2>1, <2>3 DEF NamedUploads, ExportRetried, Working
    <2>5. c \in Waiting(c.type)'
      BY <1>5, <2>3, RetriedWaits DEF ExportRetried, Working
    <2>6. Served(f)'
      BY <2>2, <2>4, <2>5 DEF Served
    <2>7. job.status = "EXPORTING"
      BY <1>5 DEF ExportRetried
    <2> QED BY <1>1, <2>2, <2>6, <2>7
  <1>6. ASSUME NEW t \in RecoveryTargets, ExportRecovered(t) PROVE ServedInv'
    <2>1. t \in Formats
      BY <1>6 DEF ExportRecovered, RecoveryTargets
    <2>2. exports'[t].status = "QUEUED" /\ \A g \in Formats \ {t} : exports'[g] = exports[g]
      BY <1>0, <1>6, <2>1 DEF ExportRecovered, Recovered
    <2>3. PICK c : c = RecoveryCommand(t)
      OBVIOUS
    <2>4. c.type = "run_export" /\ c.target = t
      BY <1>6, <2>3 DEF ExportRecovered, RecoveryCommand, RecoveryType
    <2>5. c \in outbox' \ outbox
      BY <1>6, <2>3 DEF ExportRecovered, Recovered, Insert, Fresh
    <2>6. c \in Waiting(c.type)'
      BY <2>5, NewWaits
    <2>7. Served(t)'
      BY <2>2, <2>4, <2>6 DEF Served
    <2>8. job.status = "EXPORTING"
      BY <1>6 DEF ExportRecovered, RecoveryPhase, Recovered, Recoverable, Lands
    <2> QED BY <1>1, <2>1, <2>2, <2>7, <2>8
  <1> QED BY <1>2, <1>3, <1>4, <1>5, <1>6 DEF ExportsWritten

\* ServedInv is inductive.
LEMMA StepServed ==
    ASSUME NoExportDropped, PipelineInv, NamedUploads, ServedInv, [Next]_vars
    PROVE  ServedInv'
  <1>1. CASE job'.status # "EXPORTING"
    BY <1>1 DEF ServedInv
  <1>2. CASE ExportsKept /\ job'.status = "EXPORTING"
    <2>1. job.status = "EXPORTING" /\ exports' = exports
      BY <1>2 DEF ExportsKept
    <2>2. \A f \in Formats : Served(f)'
      BY <1>2, <2>1, ServedStays DEF ServedInv
    <2> QED BY <2>1, <2>2 DEF ServedInv
  <1>3. CASE ExportsGivenUp
    BY <1>1, <1>3 DEF ExportsGivenUp
  <1> QED BY <1>1, <1>2, <1>3, WritersServe, ExportChanges

-----------------------------------------------------------------------------
(* No job is stranded *)

\* The faults after which a job may keep its status with no lease to recover
\* and no message to deliver.
Stranding ==
    ({"lose"} \X CommandType) \cup ({"crash", "abandon"} \X {"run_extraction", "run_export"})
        \cup {<<"abandon", "run_validation">>}

GoingOn == StartInv /\ KeyInv /\ ReadsOn /\ ValidInv /\ NamedUploads /\ ServedInv

\* A job is created with its planning command waiting to be published.
LEMMA InitGoingOn == Init => GoingOn
  <1> SUFFICES ASSUME Init PROVE GoingOn
    OBVIOUS
  <1>1. /\ job.status = "QUEUED" /\ outbox = {PlanCommand} /\ published = {} /\ queue = {}
        /\ \A w \in Workers : running[w] = None
        /\ validation.status = "absent"
    BY DEF Init, QueuedRow
  <1>2. PlanCommand.type = "run_planning"
    BY DEF PlanCommand, NewCommand
  <1>3. PlanCommand \in Waiting("run_planning")
    BY <1>1, <1>2 DEF Waiting, Messages, Pending, Idle
  <1>4. StartInv
    BY <1>1, <1>3 DEF StartInv
  <1>5. KeyInv
    BY <1>1, CommandsKeyed DEF KeyInv
  <1>6. \A p \in Pages : pages[p].extraction = "none"
    BY DEF Init
  <1> QED BY <1>1, <1>4, <1>5, <1>6 DEF GoingOn, ReadsOn, ValidInv, NamedUploads, Working, ServedInv

\* What keeps a job going in each of its stages makes it recoverable.
LEMMA NothingIsMissing ==
    ASSUME PipelineInv, GoingOn
    PROVE  NeverStranded
  <1> SUFFICES ASSUME job.status \notin Terminal, job.lease = "none"
               PROVE  Pending # {} \/ queue # {}
    BY DEF NeverStranded
  <1>0. LifecycleInv /\ SlotInv /\ job.status \in JobStatus
    BY DEF PipelineInv, LifecycleInv, TypeOK, JobOK, JobRow
  <1>1. job.status \in {"QUEUED"} \cup (Active \ {"READY_FOR_EXPORT"})
    BY <1>0 DEF LifecycleInv, JobStatus, Active, Terminal
  <1>2. ASSUME NEW type, NEW c \in Waiting(type) PROVE Pending # {} \/ queue # {}
    BY <1>2 DEF Waiting, Messages
  <1>3. CASE job.status \in {"QUEUED", "PLANNING", "BROWSER_INITIALIZING"}
    BY <1>2, <1>3 DEF GoingOn, StartInv
  <1>4. CASE job.status = "DISCOVERING"
    BY <1>2, <1>4 DEF GoingOn, StartInv, VisitWaits
  <1>5. CASE job.status = "EXTRACTING"
    <2>1. CASE \E w \in Workers : Working(w, "run_extraction")
      BY <1>0, <2>1 DEF Working, SlotInv
    <2>2. CASE \E c \in Waiting("run_extraction"), p \in LeftToRead : c.target \in {None, p}
      BY <1>2, <2>2
    <2> QED BY <1>5, <2>1, <2>2 DEF GoingOn, ReadsOn
  <1>6. CASE job.status = "VALIDATING"
    BY <1>6 DEF GoingOn, ValidInv, Messages
  <1>7. CASE job.status = "EXPORTING"
    <2>1. PICK f \in Formats : Served(f) /\ exports[f].status # "COMPLETED"
      BY <1>7 DEF GoingOn, ServedInv
    <2>2. CASE exports[f].status = "QUEUED"
      BY <1>2, <2>1, <2>2 DEF Served
    <2>3. CASE exports[f].status = "RUNNING"
      <3>1. PICK w \in Workers : Uncommitted(w, f)
        BY <2>1, <2>3 DEF Served
      <3> QED BY <1>0, <3>1 DEF Uncommitted, Working, SlotInv
    <2> QED BY <2>1, <2>2, <2>3 DEF Served
  <1> QED BY <1>1, <1>3, <1>4, <1>5, <1>6, <1>7 DEF Active

\* NeverStranded: a job that has not ended has a lease to recover, a command to
\* publish, or a message to deliver, whatever is redelivered, cancelled or
\* recovered, whichever operation of an earlier stage fails, dies or is dropped,
\* and even if leases lapse under running operations.  What is excluded does
\* strand a job: a message the broker loses; an extraction that is retried, dies
\* or is dropped, since the page it claimed is not offered again and the status
\* has no recovery of its own; a validation that is dropped, for the same
\* reason; an export that dies or is dropped while another gives up the lease
\* they share.
THEOREM NothingIsStranded ==
    ASSUME "run_extraction" \notin Retryable, Faults \cap Stranding = {}
    PROVE  Spec => []NeverStranded
  <1> DEFINE Inv == WorkLeftInv /\ InventoryInv /\ GoingOn
  <1>1. Init => Inv
    <2>1. Init => WorkLeftInv
      BY DEF Init, QueuedRow, WorkLeftInv
    <2> QED BY <2>1, InitGoingOn, InitInventory
  <1>2. PipelineInv /\ Inv /\ [Next]_vars => Inv'
    <2> SUFFICES ASSUME PipelineInv, Inv, [Next]_vars PROVE Inv'
      OBVIOUS
    <2>1. {"lose"} \X CommandType \cap Faults = {}
      BY DEF Stranding
    <2>2. ReadOnce
      BY DEF Stranding, ReadOnce, CommandType
    <2>3. {"lose", "abandon"} \X {"run_validation"} \cap Faults = {}
      BY DEF Stranding, CommandType
    <2>4. NoExportDropped
      BY DEF Stranding, NoExportDropped, CommandType
    <2>5. WorkLeftInv' /\ InventoryInv'
      BY StepWorkLeft, StepInventory
    <2>6. StartInv' /\ KeyInv' /\ NamedUploads'
      BY <2>1, StepStart, StepKeys, StepNamed DEF GoingOn
    <2>7. ReadsOn' /\ ValidInv' /\ ServedInv'
      BY <2>2, <2>3, <2>4, StepReadsOn, StepValid, StepServed DEF GoingOn
    <2> QED BY <2>5, <2>6, <2>7 DEF GoingOn
  <1>3. PipelineInv /\ Inv => NeverStranded
    BY NothingIsMissing
  <1> QED BY <1>1, <1>2, <1>3, PipelineInvariant, PTL DEF Spec

=============================================================================
