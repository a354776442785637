-------------------------- MODULE JobCreationProofs --------------------------
(***************************************************************************)
(* For any number of clients, keys, retries and cut connections: a key has *)
(* at most one job, committed jobs are complete, create_job implements     *)
(* IdempotentCreation, and a request fails on a unique index only when     *)
(* another client introduces the same source at the same time.             *)
(***************************************************************************)
EXTENDS CreationProperties, TLAPS

\* Phases of a transaction that has not committed.
Open == {"locking", "building", "sourceless", "sourced", "flushed"}

OwnJob(r) == [id |-> NewJob(r), body |-> command[r].body]

\* What a transaction has flushed is known from where it stands.
FlushedAsFarAs(r) ==
    /\ at[r] \notin {"sourced", "flushed"} => written[r] = NoRows
    /\ at[r] = "sourced" => /\ written[r].jobs = {} /\ written[r].announced = {}
                            /\ written[r].outbox = {} /\ written[r].keys = {}
    /\ at[r] = "flushed" => /\ written[r].jobs = {OwnJob(r)}
                            /\ written[r].announced = {NewJob(r)}
                            /\ written[r].outbox = {NewJob(r)}
                            /\ written[r].keys = NewKey(r)
    /\ at[r] \in {"sourceless", "sourced", "flushed"} => Url(r) # None
    /\ at[r] \in {"sourced", "flushed"} => Url(r) \in db.sources \cup written[r].sources

WrittenInv == \A r \in Requests : FlushedAsFarAs(r)

\* A committed job carries its client's body, and its id is never used again.
JobsInv ==
    \A job \in db.jobs :
        /\ job.body = command[job.id[1]].body
        /\ job.id[2] <= sent[job.id[1]]
        /\ at[job.id[1]] \in Open => job.id[2] < sent[job.id[1]]

\* The committed keys name the committed jobs that were posted with a key.
KeysInv ==
    /\ \A row \in db.keys : [id |-> row.job, body |-> row.body] \in db.jobs
                                /\ row.key = command[row.job[1]].key
    /\ \A job \in db.jobs : KeyOf(job) # None =>
            [key |-> KeyOf(job), body |-> job.body, job |-> job.id] \in db.keys

\* The unique index: neither committed nor flushed rows share a key.
IndexInv ==
    /\ \A a, b \in db.keys : a.key = b.key => a = b
    /\ \A r \in Requests : \A a \in db.keys, b \in written[r].keys : a.key # b.key
    /\ \A r, q \in Requests : r # q =>
            \A a \in written[r].keys, b \in written[q].keys : a.key # b.key

\* A committed request has its job.
CommittedInv == \A r \in Requests : at[r] = "committed" => OwnJob(r) \in db.jobs

CreationInv ==
    CreationTypeOK /\ WrittenInv /\ JobsInv /\ KeysInv /\ IndexInv /\ CommittedInv
        /\ JobsAreComplete

-----------------------------------------------------------------------------
(* Types *)

\* A transaction starts with no rows.
LEMMA NoRowsType == NoRows \in Rows
  BY DEF NoRows, Rows

\* A transaction that ends without a row keeps the types.
LEMMA RollBackType ==
  ASSUME CreationTypeOK, NEW r \in Requests, NEW reply \in Answer, EndWith(r, reply),
         published' = published \/ Dispatch
  PROVE  /\ at' \in [Requests -> Phase]
         /\ lock' \in [Keys -> Requests \cup {None}]
         /\ written' \in [Requests -> Rows]
         /\ db' \in Rows
         /\ published' \subseteq db'.outbox
         /\ answer' \in [Requests -> Answer]
  BY NoRowsType DEF CreationTypeOK, EndWith, Dispatch, Pending, Unlock, Phase

\* An answer keeps the types.
LEMMA AnswerType ==
  /\ \A code \in Code : Saying(code) \in Answer
  /\ \A id \in JobId : Accepted(id) \in Answer
  BY DEF Saying, Accepted, Answer, Code

\* A replay ends the transaction, with or without a dispatch.
LEMMA ReplayEnds ==
  ASSUME NEW r \in Requests, NEW rows, Replay(r, rows)
  PROVE  \E row \in rows :
            /\ EndWith(r, IF row.body = command[r].body THEN Accepted(row.job) ELSE Saying("conflict"))
            /\ published' = published \/ Dispatch
  <1>1. PICK row \in rows :
          IF row.body = command[r].body THEN EndWith(r, Accepted(row.job)) /\ Dispatch
          ELSE RollBack(r, Saying("conflict"))
    BY DEF Replay
  <1>2. CASE row.body = command[r].body
    BY <1>1, <1>2
  <1>3. CASE row.body # command[r].body
    BY <1>1, <1>3 DEF RollBack
  <1>4. QED
    BY <1>2, <1>3

\* The job a key names is a job.
LEMMA ExistingType ==
  ASSUME CreationTypeOK, NEW r \in Requests, NEW row \in Existing(r)
  PROVE  /\ row \in db.keys /\ row.key = command[r].key
         /\ row.key \in Keys /\ row.body \in Bodies /\ row.job \in JobId
  BY DEF CreationTypeOK, Rows, KeyRow, Existing

\* The rows of a new job are rows.
LEMMA JobRowsType ==
  ASSUME CreationTypeOK, NEW r \in Requests
  PROVE  /\ NewJob(r) \in JobId /\ OwnJob(r) \in JobRow
         /\ NewKey(r) \subseteq KeyRow /\ JobRows(r) \in Rows
  <1>1. NewJob(r) \in JobId
    BY DEF CreationTypeOK, NewJob, JobId
  <1>2. command[r].body \in Bodies /\ command[r].key \in Keys \cup {None}
    BY CreationAssumption DEF CreationTypeOK
  <1>3. OwnJob(r) \in JobRow
    BY <1>1, <1>2 DEF OwnJob, JobRow
  <1>4. NewKey(r) \subseteq KeyRow
    BY <1>1, <1>2 DEF NewKey, KeyRow
  <1>5. JobRows(r) \in Rows
    BY <1>1, <1>3, <1>4 DEF JobRows, Rows, OwnJob
  <1>6. QED
    BY <1>1, <1>3, <1>4, <1>5

\* A commit merges rows into rows.
LEMMA MergeType ==
  ASSUME NEW a \in Rows, NEW b \in Rows
  PROVE  Merge(a, b) \in Rows
  BY DEF Merge, Rows

\* CreationTypeOK is inductive.
LEMMA TypeStep ==
  ASSUME CreationTypeOK, WrittenInv, [CreationNext]_creationVars
  PROVE  CreationTypeOK'
  <1> USE DEF CreationTypeOK
  <1>1. ASSUME NEW r \in Requests, Send(r) PROVE CreationTypeOK'
    BY <1>1, AnswerType DEF Send, Phase, Code
  <1>2. ASSUME NEW r \in Requests, SendForeign(r) PROVE CreationTypeOK'
    BY <1>2, RollBackType, AnswerType DEF RollBack, SendForeign, Code
  <1>3. ASSUME NEW r \in Requests, NEW rows, rows = Existing(r), Replay(r, rows),
               UNCHANGED <<command, sent, faults>>
        PROVE CreationTypeOK'
    <2>1. PICK row \in Existing(r) :
            /\ EndWith(r, IF row.body = command[r].body THEN Accepted(row.job) ELSE Saying("conflict"))
            /\ published' = published \/ Dispatch
      BY <1>3, ReplayEnds
    <2>2. (IF row.body = command[r].body THEN Accepted(row.job) ELSE Saying("conflict")) \in Answer
      BY AnswerType, ExistingType DEF Code
    <2>3. QED
      BY <1>3, <2>1, <2>2, RollBackType
  <1>4. ASSUME NEW r \in Requests, LookUpKey(r) PROVE CreationTypeOK'
    <2>1. CASE Existing(r) # {}
      BY <2>1, <1>4, <1>3 DEF LookUpKey
    <2>2. CASE Existing(r) = {}
      BY <2>2, <1>4 DEF LookUpKey, Phase
    <2>3. QED
      BY <2>1, <2>2
  <1>5. ASSUME NEW r \in Requests, FindSource(r) PROVE CreationTypeOK'
    <2>1. CASE Url(r) = None
      BY <2>1, <1>5, RollBackType, AnswerType DEF RollBack, FindSource, Code
    <2>2. CASE Url(r) # None
      BY <2>2, <1>5 DEF FindSource, Phase
    <2>3. QED
      BY <2>1, <2>2
  <1>6. ASSUME NEW r \in Requests, InsertSource(r) PROVE CreationTypeOK'
    <2>1. CASE Url(r) \in db.sources
      BY <2>1, <1>6, RollBackType, AnswerType DEF RollBack, InsertSource, Code
    <2>2. CASE Url(r) \notin db.sources
      <3>1. Url(r) \in Urls
        BY <1>6, CreationAssumption DEF InsertSource, WrittenInv, FlushedAsFarAs, Url
      <3>2. [written[r] EXCEPT !.sources = @ \cup {Url(r)}] \in Rows
        BY <3>1 DEF Rows
      <3>3. QED
        BY <2>2, <1>6, <3>2 DEF InsertSource, Phase
    <2>3. QED
      BY <2>1, <2>2
  <1>7. ASSUME NEW r \in Requests, InsertJob(r) PROVE CreationTypeOK'
    <2>1. CASE Existing(r) # {}
      BY <2>1, <1>7, <1>3, RollBackType, AnswerType DEF RollBack, InsertJob, KeyCollided, Code
    <2>2. CASE Existing(r) = {}
      BY <2>2, <1>7, JobRowsType, MergeType DEF InsertJob, Phase
    <2>3. QED
      BY <2>1, <2>2
  <1>8. ASSUME NEW r \in Requests, Commit(r) PROVE CreationTypeOK'
    <2>1. db' \in Rows /\ published' \subseteq db'.outbox
      BY <1>8, MergeType DEF Commit, Merge, Rows
    <2>2. QED
      BY <1>8, <2>1, NoRowsType DEF Commit, Unlock, Phase
  <1>9. ASSUME NEW r \in Requests, Respond(r) PROVE CreationTypeOK'
    <2>1. published' \subseteq db'.outbox
      BY <1>9 DEF Respond, Dispatch, Pending
    <2>2. QED
      BY <1>9, <2>1, AnswerType, JobRowsType DEF Respond, Phase
  <1>10. ASSUME NEW r \in Requests, CutOff(r) PROVE CreationTypeOK'
    BY <1>10, RollBackType, AnswerType, CreationAssumption DEF RollBack, CutOff, Code
  <1>11. CASE CronDispatch
    BY <1>11 DEF CronDispatch, Due, Pending
  <1>12. CASE UNCHANGED creationVars
    BY <1>12 DEF creationVars
  <1>13. QED
    BY <1>1, <1>2, <1>4, <1>5, <1>6, <1>7, <1>8, <1>9, <1>10, <1>11, <1>12
       DEF CreationNext, ServerStep

-----------------------------------------------------------------------------
(* The invariant *)

DataInv == WrittenInv /\ JobsInv /\ KeysInv /\ IndexInv /\ CommittedInv /\ JobsAreComplete

\* The invariant in its two parts.
LEMMA CreationInvSplit == CreationInv <=> CreationTypeOK /\ DataInv
  BY DEF CreationInv, DataInv

\* A job id is a request and a number.
LEMMA JobIds ==
  ASSUME CreationTypeOK
  PROVE  \A job \in db.jobs : /\ job.id[1] \in Requests
                              /\ job.id[2] \in Nat
                              /\ job.id = <<job.id[1], job.id[2]>>
  BY DEF CreationTypeOK, Rows, JobRow, JobId

\* A request that has not moved keeps its invariant while others commit.
LEMMA OthersWritten ==
  ASSUME WrittenInv, NEW q \in Requests, UNCHANGED command,
         at'[q] = at[q], written'[q] = written[q], sent'[q] = sent[q],
         db.sources \subseteq db'.sources
  PROVE  FlushedAsFarAs(q)'
  BY DEF WrittenInv, FlushedAsFarAs, OwnJob, NewJob, NewKey, Url

\* A step that leaves the database and the flushed rows alone, and moves one
\* request to a phase that asks no more of them.
LEMMA QuietStep ==
  ASSUME CreationTypeOK, DataInv, NEW r \in Requests,
         UNCHANGED <<command, sent, written, db>>,
         \A q \in Requests \ {r} : at'[q] = at[q],
         \/ at'[r] = at[r]
         \/ at[r] \in Open /\ at'[r] \in {"building", "sourceless"} /\ written[r] = NoRows
                /\ (at'[r] = "sourceless" => Url(r) # None)
         \/ at[r] \in Open /\ at'[r] = "sourced" /\ written[r] = NoRows
                /\ Url(r) # None /\ Url(r) \in db.sources
         \/ at'[r] = "answered" /\ written[r] = NoRows
  PROVE  DataInv'
  <1>1. WrittenInv'
    <2>1. \A q \in Requests \ {r} : FlushedAsFarAs(q)'
      BY OthersWritten DEF DataInv
    <2>2. CASE at'[r] = at[r]
      BY <2>1, <2>2, OthersWritten DEF DataInv, WrittenInv
    <2>3. CASE at'[r] # at[r]
      <3>1. FlushedAsFarAs(r)'
        BY <2>3 DEF FlushedAsFarAs, Url, NoRows, Open
      <3>2. QED
        BY <2>1, <3>1 DEF WrittenInv
    <2>4. QED
      BY <2>2, <2>3
  <1>2. JobsInv'
    <2>1. at'[r] \in Open => at[r] \in Open \/ at'[r] = at[r]
      BY DEF Open
    <2>2. \A q \in Requests : at'[q] \in Open => at[q] \in Open
      BY <2>1
    <2>3. QED
      BY <2>2, JobIds DEF DataInv, JobsInv
  <1>3. KeysInv' /\ IndexInv'
    BY DEF DataInv, KeysInv, IndexInv, KeyOf
  <1>4. CommittedInv'
    BY DEF DataInv, CommittedInv, OwnJob, NewJob, Open
  <1>5. JobsAreComplete'
    BY DEF DataInv, JobsAreComplete
  <1>6. QED
    BY <1>1, <1>2, <1>3, <1>4, <1>5 DEF DataInv

\* Such an end keeps the invariant.
LEMMA RollBackStep ==
  ASSUME CreationTypeOK, DataInv, NEW r \in Requests, NEW reply, EndWith(r, reply),
         UNCHANGED <<command, sent>>
  PROVE  DataInv'
  <1>1. \A q \in Requests \ {r} : at'[q] = at[q] /\ written'[q] = written[q]
    BY DEF EndWith, CreationTypeOK
  <1>2. at'[r] = "answered" /\ written'[r] = NoRows /\ db' = db
    BY DEF EndWith, CreationTypeOK
  <1>3. WrittenInv'
    <2>1. FlushedAsFarAs(r)'
      BY <1>2 DEF FlushedAsFarAs
    <2>2. QED
      BY <1>1, <1>2, <2>1, OthersWritten DEF DataInv, WrittenInv
  <1>4. JobsInv'
    BY <1>1, <1>2, JobIds DEF DataInv, JobsInv, Open
  <1>5. KeysInv' /\ IndexInv'
    BY <1>1, <1>2 DEF DataInv, KeysInv, IndexInv, KeyOf, NoRows
  <1>6. CommittedInv'
    BY <1>1, <1>2 DEF DataInv, CommittedInv, OwnJob, NewJob
  <1>7. JobsAreComplete'
    BY <1>2 DEF DataInv, JobsAreComplete
  <1>8. QED
    BY <1>3, <1>4, <1>5, <1>6, <1>7 DEF DataInv

\* So does a request that is sent.
LEMMA SendStep ==
  ASSUME CreationTypeOK, DataInv, NEW r \in Requests, Send(r)
  PROVE  DataInv'
  <1>1. /\ \A q \in Requests \ {r} : at'[q] = at[q] /\ sent'[q] = sent[q]
        /\ sent'[r] = sent[r] + 1 /\ at'[r] \in {"locking", "building"}
        /\ written[r] = NoRows /\ UNCHANGED <<command, written, db>>
    BY DEF Send, CreationTypeOK, DataInv, WrittenInv, FlushedAsFarAs
  <1>2. WrittenInv'
    <2>1. FlushedAsFarAs(r)'
      BY <1>1 DEF FlushedAsFarAs
    <2>2. QED
      BY <1>1, <2>1, OthersWritten DEF DataInv, WrittenInv
  <1>3. JobsInv'
    <2>1. sent \in [Requests -> Nat]
      BY DEF CreationTypeOK
    <2>2. QED
      BY <1>1, <2>1, JobIds DEF DataInv, JobsInv, Open
  <1>4. KeysInv' /\ IndexInv' /\ JobsAreComplete'
    BY <1>1 DEF Send, DataInv, KeysInv, IndexInv, KeyOf, JobsAreComplete
  <1>5. CommittedInv'
    BY <1>1 DEF Send, DataInv, CommittedInv, OwnJob, NewJob
  <1>6. QED
    BY <1>2, <1>3, <1>4, <1>5 DEF DataInv

\* So does the insert of a source.
LEMMA InsertSourceStep ==
  ASSUME CreationTypeOK, DataInv, NEW r \in Requests, InsertSource(r)
  PROVE  DataInv'
  <1>1. CASE Url(r) \in db.sources
    BY <1>1, RollBackStep DEF RollBack, InsertSource
  <1>2. CASE Url(r) \notin db.sources
    <2>1. /\ \A q \in Requests \ {r} : at'[q] = at[q] /\ written'[q] = written[q]
          /\ at[r] = "sourceless" /\ at'[r] = "sourced" /\ written[r] = NoRows
          /\ written'[r] = [written[r] EXCEPT !.sources = @ \cup {Url(r)}]
          /\ UNCHANGED <<command, sent, db>>
      BY <1>2 DEF InsertSource, CreationTypeOK, DataInv, WrittenInv, FlushedAsFarAs
    <2>2. /\ written'[r].jobs = {} /\ written'[r].announced = {} /\ written'[r].outbox = {}
          /\ written'[r].keys = {} /\ Url(r) \in written'[r].sources
      BY <2>1 DEF NoRows
    <2>3. WrittenInv'
      <3>1. FlushedAsFarAs(r)'
        BY <2>1, <2>2 DEF DataInv, WrittenInv, FlushedAsFarAs, OwnJob, NewJob, NewKey, Url
      <3>2. QED
        BY <2>1, <3>1, OthersWritten DEF DataInv, WrittenInv
    <2>4. JobsInv' /\ KeysInv' /\ JobsAreComplete'
      <3>1. \A q \in Requests : at'[q] \in Open => at[q] \in Open
        BY <2>1 DEF Open
      <3>2. QED
        BY <2>1, <3>1, JobIds DEF DataInv, JobsInv, KeysInv, KeyOf, JobsAreComplete
    <2>5. IndexInv'
      <3>1. \A q \in Requests : written'[q].keys = written[q].keys
        BY <2>1, <2>2 DEF NoRows
      <3>2. QED
        BY <2>1, <3>1 DEF DataInv, IndexInv
    <2>6. CommittedInv'
      BY <2>1 DEF DataInv, CommittedInv, OwnJob, NewJob
    <2>7. QED
      BY <2>3, <2>4, <2>5, <2>6 DEF DataInv
  <1>3. QED
    BY <1>1, <1>2

\* So does the answer from the key row.
LEMMA ReplayStep ==
  ASSUME CreationTypeOK, DataInv, NEW r \in Requests, Replay(r, Existing(r)),
         UNCHANGED <<command, sent>>
  PROVE  DataInv'
  BY RollBackStep, ReplayEnds

\* So does the flush of the job.
LEMMA InsertJobStep ==
  ASSUME CreationTypeOK, DataInv, NEW r \in Requests, InsertJob(r)
  PROVE  DataInv'
  <1>1. CASE Existing(r) # {}
    BY <1>1, RollBackStep, ReplayStep DEF RollBack, InsertJob, KeyCollided
  <1>2. CASE Existing(r) = {}
    <2>1. /\ \A q \in Requests \ {r} : at'[q] = at[q] /\ written'[q] = written[q]
          /\ at[r] = "sourced" /\ at'[r] = "flushed"
          /\ written'[r] = Merge(written[r], JobRows(r))
          /\ UNCHANGED <<command, sent, db>>
      BY <1>2 DEF InsertJob, CreationTypeOK
    <2>2. /\ written'[r].jobs = {OwnJob(r)} /\ written'[r].announced = {NewJob(r)}
          /\ written'[r].outbox = {NewJob(r)} /\ written'[r].keys = NewKey(r)
          /\ written'[r].sources = written[r].sources
      BY <2>1 DEF DataInv, WrittenInv, FlushedAsFarAs, Merge, JobRows, OwnJob
    <2>3. WrittenInv'
      <3>1. FlushedAsFarAs(r)'
        BY <2>1, <2>2 DEF DataInv, WrittenInv, FlushedAsFarAs, OwnJob, NewJob, NewKey, Url
      <3>2. QED
        BY <2>1, <3>1, OthersWritten DEF DataInv, WrittenInv
    <2>4. JobsInv' /\ KeysInv' /\ JobsAreComplete'
      <3>1. \A q \in Requests : at'[q] \in Open => at[q] \in Open
        BY <2>1 DEF Open
      <3>2. QED
        BY <2>1, <3>1, JobIds DEF DataInv, JobsInv, KeysInv, KeyOf, JobsAreComplete
    <2>5. IndexInv'
      <3>1. \A a \in db.keys : a.key # command[r].key
        BY <1>2 DEF Existing
      <3>2. \A q \in Requests \ {r} : \A a \in written[q].keys : a.key # command[r].key
        BY DEF InsertJob
      <3>3. \A b \in written'[r].keys : b.key = command[r].key
        BY <2>2 DEF NewKey
      <3>4. QED
        BY <2>1, <3>1, <3>2, <3>3 DEF DataInv, IndexInv
    <2>6. CommittedInv'
      BY <2>1 DEF DataInv, CommittedInv, OwnJob, NewJob
    <2>7. QED
      BY <2>3, <2>4, <2>5, <2>6 DEF DataInv
  <1>3. QED
    BY <1>1, <1>2

\* So does a commit.
LEMMA CommitStep ==
  ASSUME CreationTypeOK, DataInv, NEW r \in Requests, Commit(r)
  PROVE  DataInv'
  <1>1. /\ \A q \in Requests \ {r} : at'[q] = at[q] /\ written'[q] = written[q]
        /\ at[r] = "flushed" /\ at'[r] = "committed" /\ written'[r] = NoRows
        /\ db' = Merge(db, written[r])
        /\ UNCHANGED <<command, sent>>
    BY DEF Commit, CreationTypeOK
  <1>2. /\ db'.jobs = db.jobs \cup {OwnJob(r)} /\ db'.announced = db.announced \cup {NewJob(r)}
        /\ db'.outbox = db.outbox \cup {NewJob(r)} /\ db'.keys = db.keys \cup NewKey(r)
        /\ db'.sources = db.sources \cup written[r].sources
    BY <1>1 DEF Merge, DataInv, WrittenInv, FlushedAsFarAs
  <1>3. WrittenInv'
    <2>1. FlushedAsFarAs(r)'
      BY <1>1 DEF FlushedAsFarAs
    <2>2. QED
      BY <1>1, <1>2, <2>1, OthersWritten DEF DataInv, WrittenInv
  <1>4. JobsInv'
    <2>1. /\ OwnJob(r).id = NewJob(r) /\ OwnJob(r).body = command[r].body
          /\ NewJob(r)[1] = r /\ NewJob(r)[2] = sent[r] /\ sent[r] \in Nat
      BY DEF OwnJob, NewJob, CreationTypeOK
    <2>2. \A job \in db.jobs : job.id[1] \in Requests
      BY DEF CreationTypeOK, Rows, JobRow, JobId
    <2>3. QED
      BY <1>1, <1>2, <2>1, <2>2 DEF DataInv, JobsInv, Open
  <1>5. KeysInv'
    BY <1>1, <1>2 DEF DataInv, KeysInv, KeyOf, OwnJob, NewJob, NewKey
  <1>6. IndexInv'
    <2>1. written[r].keys = NewKey(r) /\ \A a, b \in NewKey(r) : a = b
      BY <1>1 DEF DataInv, WrittenInv, FlushedAsFarAs, NewKey
    <2>2. written'[r].keys = {}
      BY <1>1 DEF NoRows
    <2>3. QED
      BY <1>1, <1>2, <2>1, <2>2 DEF DataInv, IndexInv
  <1>7. CommittedInv'
    BY <1>1, <1>2 DEF DataInv, CommittedInv, OwnJob, NewJob
  <1>8. JobsAreComplete'
    BY <1>1, <1>2 DEF DataInv, WrittenInv, FlushedAsFarAs, JobsAreComplete, OwnJob, Url
  <1>9. QED
    BY <1>3, <1>4, <1>5, <1>6, <1>7, <1>8 DEF DataInv

\* DataInv is inductive.
LEMMA DataStep ==
  ASSUME CreationTypeOK, DataInv, [CreationNext]_creationVars
  PROVE  DataInv'
  <1>1. ASSUME NEW r \in Requests, SendForeign(r) PROVE DataInv'
    BY <1>1, RollBackStep DEF RollBack, SendForeign
  <1>2. ASSUME NEW r \in Requests, LookUpKey(r) PROVE DataInv'
    <2>1. CASE Existing(r) # {}
      BY <2>1, <1>2, ReplayStep DEF LookUpKey
    <2>2. CASE Existing(r) = {}
      BY <2>2, <1>2, QuietStep DEF LookUpKey, CreationTypeOK, DataInv, WrittenInv, FlushedAsFarAs, Open
    <2>3. QED
      BY <2>1, <2>2
  <1>3. ASSUME NEW r \in Requests, FindSource(r) PROVE DataInv'
    <2>1. CASE Url(r) = None
      BY <2>1, <1>3, RollBackStep DEF RollBack, FindSource
    <2>2. CASE Url(r) # None
      BY <2>2, <1>3, QuietStep
         DEF FindSource, SourceExists, CreationTypeOK, DataInv, WrittenInv, FlushedAsFarAs, Open
    <2>3. QED
      BY <2>1, <2>2
  <1>4. ASSUME NEW r \in Requests, Respond(r) PROVE DataInv'
    BY <1>4, QuietStep DEF Respond, CreationTypeOK, DataInv, WrittenInv, FlushedAsFarAs
  <1>5. ASSUME NEW r \in Requests, CutOff(r) PROVE DataInv'
    BY <1>5, RollBackStep DEF RollBack, CutOff
  <1>6. CASE CronDispatch \/ UNCHANGED creationVars
    <2>1. UNCHANGED <<command, sent, at, written, db>>
      BY <1>6 DEF CronDispatch, creationVars
    <2>2. WrittenInv'
      BY <2>1, OthersWritten DEF DataInv, WrittenInv
    <2>3. QED
      BY <2>1, <2>2 DEF DataInv, JobsInv, KeysInv, IndexInv, CommittedInv, JobsAreComplete,
                         OwnJob, NewJob, KeyOf
  <1>7. QED
    BY <1>1, <1>2, <1>3, <1>4, <1>5, <1>6, SendStep, InsertSourceStep, InsertJobStep, CommitStep
       DEF CreationNext, ServerStep

\* CreationInv holds in every reachable state.
LEMMA CreationInvariant == CreationSpec => []CreationInv
  <1>1. CreationInit => CreationInv
    BY CreationAssumption, NoRowsType
       DEF CreationInit, CreationInv, CreationTypeOK, WrittenInv, FlushedAsFarAs, JobsInv, KeysInv, IndexInv,
           CommittedInv, JobsAreComplete, NoRows, Phase, Saying, Answer, Code
  <1>2. CreationInv /\ [CreationNext]_creationVars => CreationInv'
    BY TypeStep, DataStep, CreationInvSplit DEF DataInv, CreationInv
  <1>3. QED
    BY <1>1, <1>2, PTL DEF CreationSpec

\* Every row and every answer has its type (models.py:65-80, 338-350), and only
\* committed commands are handed to arq.
THEOREM CreationTypeCorrect == CreationSpec => []CreationTypeOK
  BY CreationInvariant, PTL DEF CreationInv

\* An Idempotency-Key never has two jobs (services.py:180-199, 246-266).
THEOREM KeysAreIdempotent == CreationSpec => []OneJobPerKey
  <1>1. CreationInv => OneJobPerKey
    <2> SUFFICES ASSUME CreationInv, NEW a \in db.jobs, NEW b \in db.jobs,
                        KeyOf(a) = KeyOf(b), KeyOf(a) # None
                 PROVE  a = b
      BY DEF OneJobPerKey
    <2>1. /\ [key |-> KeyOf(a), body |-> a.body, job |-> a.id] \in db.keys
          /\ [key |-> KeyOf(b), body |-> b.body, job |-> b.id] \in db.keys
      BY DEF CreationInv, KeysInv
    <2>2. a.body = b.body /\ a.id = b.id
      BY <2>1 DEF CreationInv, IndexInv
    <2>3. a \in JobRow /\ b \in JobRow
      BY DEF CreationInv, CreationTypeOK, Rows
    <2>4. QED
      BY <2>2, <2>3 DEF JobRow
  <1>2. QED
    BY <1>1, CreationInvariant, PTL

\* A committed job has its source, its first event and its planning command,
\* whatever was rolled back around it (services.py:201-254).
THEOREM CommittedJobsAreComplete == CreationSpec => []JobsAreComplete
  BY CreationInvariant, PTL DEF CreationInv

-----------------------------------------------------------------------------
(* The refinement *)

\* A client knows nothing of a request that is still under way.
AnswerInv == \A r \in Requests : at[r] # "answered" => answer[r] = Saying("none")

\* AnswerInv holds in every reachable state.
LEMMA AnswerInvariant == CreationSpec => []AnswerInv
  <1>1. CreationInit => AnswerInv
    BY DEF CreationInit, AnswerInv
  <1>2. ASSUME CreationTypeOK, AnswerInv, [CreationNext]_creationVars PROVE AnswerInv'
    <2>1. ASSUME NEW r \in Requests, NEW reply, EndWith(r, reply) PROVE AnswerInv'
      BY <1>2, <2>1 DEF CreationTypeOK, AnswerInv, EndWith
    <2>2. ASSUME NEW r \in Requests, Replay(r, Existing(r)) PROVE AnswerInv'
      BY <2>1, <2>2, ReplayEnds
    <2>3. ASSUME NEW r \in Requests, Send(r) \/ Commit(r) \/ Respond(r) PROVE AnswerInv'
      BY <1>2, <2>3 DEF CreationTypeOK, AnswerInv, Send, Commit, Respond
    <2>4. ASSUME NEW r \in Requests, LookUpKey(r) PROVE AnswerInv'
      BY <1>2, <2>2, <2>4 DEF CreationTypeOK, AnswerInv, LookUpKey
    <2>5. ASSUME NEW r \in Requests, FindSource(r) \/ InsertSource(r) PROVE AnswerInv'
      BY <1>2, <2>1, <2>5 DEF RollBack, CreationTypeOK, AnswerInv, FindSource, InsertSource
    <2>6. ASSUME NEW r \in Requests, InsertJob(r) PROVE AnswerInv'
      BY <1>2, <2>1, <2>2, <2>6 DEF RollBack, CreationTypeOK, AnswerInv, InsertJob, KeyCollided
    <2>7. ASSUME NEW r \in Requests, SendForeign(r) \/ CutOff(r) PROVE AnswerInv'
      BY <2>1, <2>7 DEF RollBack, SendForeign, CutOff
    <2>8. CASE CronDispatch \/ UNCHANGED creationVars
      BY <1>2, <2>8 DEF AnswerInv, CronDispatch, creationVars
    <2>9. QED
      BY <1>2, <2>3, <2>4, <2>5, <2>6, <2>7, <2>8 DEF CreationNext, ServerStep
  <1>3. QED
    BY <1>1, <1>2, CreationTypeCorrect, PTL DEF CreationSpec

PromisedJob(job) == [id |-> job.id, key |-> KeyOf(job), body |-> job.body]

\* Telling the truth is a step of the promise.
LEMMA TrueTale ==
  ASSUME NEW r \in Requests, NEW reply, UNCHANGED <<command, db>>,
         answer[r].code \in {"none", "lost"},
         answer' = [answer EXCEPT ![r] = reply], answer'[r] = reply,
         reply.code = "accepted" =>
            \E job \in db.jobs : /\ job.id = reply.job /\ KeyOf(job) = command[r].key
                                 /\ job.body = command[r].body,
         reply.code = "conflict" =>
            \E job \in db.jobs : /\ KeyOf(job) = command[r].key /\ KeyOf(job) # None
                                 /\ job.body # command[r].body
  PROVE  Promise!PromiseNext
  <1> DEFINE J == {[id |-> job.id, key |-> KeyOf(job), body |-> job.body] : job \in db.jobs}
  <1>1. J' = J
    BY DEF KeyOf
  <1>2. ASSUME NEW job \in db.jobs
        PROVE  \E j \in J : j.id = job.id /\ j.key = KeyOf(job) /\ j.body = job.body
    <2>1. [id |-> job.id, key |-> KeyOf(job), body |-> job.body] \in J
      OBVIOUS
    <2>2. QED
      BY <2>1
  <1> HIDE DEF J
  <1>3. reply.code = "accepted" =>
            \E j \in J : j.id = reply.job /\ j.key = command[r].key /\ j.body = command[r].body
    BY <1>2
  <1>4. reply.code = "conflict" =>
            \E j \in J : j.key = command[r].key /\ j.key # None /\ j.body # command[r].body
    BY <1>2
  <1>5. Promise!Tell(r, reply)
    BY <1>1, <1>3, <1>4 DEF Promise!Tell, J
  <1>6. Promise!Tell(r, answer'[r])
    BY <1>5
  <1>7. QED
    BY <1>6 DEF Promise!PromiseNext

\* A client that is told nothing of a job, or the truth about one.
LEMMA TellStep ==
  ASSUME CreationInv, AnswerInv, NEW r \in Requests, NEW reply, EndWith(r, reply),
         at[r] # "answered", UNCHANGED command,
         reply.code = "accepted" =>
            \E job \in db.jobs : /\ job.id = reply.job /\ KeyOf(job) = command[r].key
                                 /\ job.body = command[r].body,
         reply.code = "conflict" =>
            \E job \in db.jobs : /\ KeyOf(job) = command[r].key /\ KeyOf(job) # None
                                 /\ job.body # command[r].body
  PROVE  Promise!PromiseNext
  <1>1. answer[r].code = "none" /\ db' = db /\ answer' = [answer EXCEPT ![r] = reply]
    BY DEF AnswerInv, EndWith, Saying
  <1>2. answer'[r] = reply
    BY <1>1 DEF CreationInv, CreationTypeOK
  <1>3. QED
    BY <1>1, <1>2, TrueTale

\* What a client is told, by the code of the answer.
LEMMA ReplyCodes ==
  /\ \A code : Saying(code).code = code
  /\ \A id : Accepted(id).code = "accepted" /\ Accepted(id).job = id
  BY DEF Saying, Accepted

\* A replay tells of the job the committed key names.
LEMMA ReplayTells ==
  ASSUME CreationInv, AnswerInv, NEW r \in Requests, Replay(r, Existing(r)),
         at[r] # "answered", UNCHANGED command
  PROVE  Promise!PromiseNext
  <1>1. PICK row \in Existing(r) :
          EndWith(r, IF row.body = command[r].body THEN Accepted(row.job) ELSE Saying("conflict"))
    BY ReplayEnds
  <1>2. /\ row \in db.keys /\ row.key = command[r].key /\ row.key # None
    BY <1>1, ExistingType, CreationAssumption DEF CreationInv
  <1>3. PICK job \in db.jobs :
          job.id = row.job /\ job.body = row.body /\ KeyOf(job) = command[r].key
    BY <1>2 DEF CreationInv, KeysInv, KeyOf
  <1>4. CASE row.body = command[r].body
    BY <1>1, <1>3, <1>4, TellStep, ReplyCodes
  <1>5. CASE row.body # command[r].body
    BY <1>1, <1>2, <1>3, <1>5, TellStep, ReplyCodes
  <1>6. QED
    BY <1>4, <1>5

\* A commit accepts one new job, under a key no other job has.
LEMMA CommitAccepts ==
  ASSUME CreationInv, NEW r \in Requests, Commit(r)
  PROVE  Promise!PromiseNext
  <1> DEFINE new == PromisedJob(OwnJob(r))
             old == {PromisedJob(job) : job \in db.jobs}
  <1>1. at[r] = "flushed" /\ db'.jobs = db.jobs \cup {OwnJob(r)} /\ UNCHANGED <<command, answer>>
    BY DEF Commit, Merge, CreationInv, WrittenInv, FlushedAsFarAs
  <1>2. {[id |-> job.id, key |-> KeyOf(job), body |-> job.body] : job \in db.jobs}' = old \cup {new}
    BY <1>1 DEF PromisedJob, KeyOf
  <1>3. /\ new.id = NewJob(r) /\ new.key = command[r].key
        /\ NewJob(r)[1] = r /\ NewJob(r)[2] = sent[r] /\ sent[r] \in Nat
    BY DEF PromisedJob, OwnJob, NewJob, KeyOf, CreationInv, CreationTypeOK
  <1>4. \A job \in db.jobs : job.id # new.id
    BY <1>1, <1>3, JobIds DEF CreationInv, JobsInv, Open
  <1>5. ASSUME NEW job \in db.jobs, command[r].key # None PROVE KeyOf(job) # command[r].key
    <2>1. \E row \in written[r].keys : row.key = command[r].key
      <3>1. written[r].keys =
                {[key |-> command[r].key, body |-> command[r].body, job |-> NewJob(r)]}
        BY <1>1, <1>5 DEF CreationInv, WrittenInv, FlushedAsFarAs, NewKey
      <3>2. QED
        BY <3>1
    <2>2. KeyOf(job) # None => \E row \in db.keys : row.key = KeyOf(job)
      BY DEF CreationInv, KeysInv
    <2>3. QED
      BY <1>5, <2>1, <2>2 DEF CreationInv, IndexInv
  <1>6. \A other \in old : other.id # new.id /\ (new.key # None => other.key # new.key)
    BY <1>3, <1>4, <1>5 DEF PromisedJob
  <1>7. PICK job : job = new
    OBVIOUS
  <1>8. Promise!Accept(job)
    BY <1>1, <1>2, <1>6, <1>7 DEF Promise!Accept, PromisedJob
  <1>9. job \in {[id |-> j.id, key |-> KeyOf(j), body |-> j.body] : j \in db.jobs}'
    BY <1>2, <1>7
  <1>10. QED
    BY <1>8, <1>9 DEF Promise!PromiseNext

\* Every step of JobCreation is one of IdempotentCreation, or a stutter.
LEMMA StepKeepsPromise ==
  ASSUME CreationInv, AnswerInv, [CreationNext]_creationVars
  PROVE  [Promise!PromiseNext]_Promise!promiseVars
  <1>1. ASSUME NEW r \in Requests, Send(r) PROVE [Promise!PromiseNext]_Promise!promiseVars
    <2>1. CASE answer[r].code = "lost"
      <3>1. answer'[r] = Saying("none") /\ answer' = [answer EXCEPT ![r] = Saying("none")]
        BY <1>1 DEF Send, CreationInv, CreationTypeOK
      <3>2. QED
        BY <1>1, <2>1, <3>1, ReplyCodes, TrueTale DEF Send
    <2>2. CASE answer[r].code # "lost"
      <3>1. answer' = answer
        BY <1>1, <2>2 DEF Send, AnswerInv, CreationInv, CreationTypeOK
      <3>2. QED
        BY <1>1, <3>1 DEF Send, Promise!promiseVars, KeyOf
    <2>3. QED
      BY <2>1, <2>2
  <1>2. ASSUME NEW r \in Requests, SendForeign(r) PROVE Promise!PromiseNext
    BY <1>2, TellStep, ReplyCodes DEF RollBack, SendForeign
  <1>3. ASSUME NEW r \in Requests, LookUpKey(r)
        PROVE [Promise!PromiseNext]_Promise!promiseVars
    <2>1. CASE Existing(r) # {}
      BY <1>3, <2>1, ReplayTells DEF LookUpKey
    <2>2. CASE Existing(r) = {}
      BY <1>3, <2>2 DEF LookUpKey, Promise!promiseVars, KeyOf
    <2>3. QED
      BY <2>1, <2>2
  <1>4. ASSUME NEW r \in Requests, FindSource(r)
        PROVE [Promise!PromiseNext]_Promise!promiseVars
    <2>1. CASE Url(r) = None
      BY <1>4, <2>1, TellStep, ReplyCodes DEF RollBack, FindSource
    <2>2. CASE Url(r) # None
      BY <1>4, <2>2 DEF FindSource, Promise!promiseVars, KeyOf
    <2>3. QED
      BY <2>1, <2>2
  <1>5. ASSUME NEW r \in Requests, InsertSource(r)
        PROVE [Promise!PromiseNext]_Promise!promiseVars
    <2>1. CASE Url(r) \in db.sources
      BY <1>5, <2>1, TellStep, ReplyCodes DEF RollBack, InsertSource
    <2>2. CASE Url(r) \notin db.sources
      BY <1>5, <2>2 DEF InsertSource, Promise!promiseVars, KeyOf
    <2>3. QED
      BY <2>1, <2>2
  <1>6. ASSUME NEW r \in Requests, InsertJob(r)
        PROVE [Promise!PromiseNext]_Promise!promiseVars
    <2>1. CASE Existing(r) # {}
      BY <1>6, <2>1, TellStep, ReplayTells, ReplyCodes DEF RollBack, InsertJob, KeyCollided
    <2>2. CASE Existing(r) = {}
      BY <1>6, <2>2 DEF InsertJob, Promise!promiseVars, KeyOf
    <2>3. QED
      BY <2>1, <2>2
  <1>7. ASSUME NEW r \in Requests, Respond(r) PROVE Promise!PromiseNext
    <2>1. /\ OwnJob(r) \in db.jobs /\ OwnJob(r).id = NewJob(r)
          /\ KeyOf(OwnJob(r)) = command[r].key /\ OwnJob(r).body = command[r].body
      BY <1>7 DEF Respond, CreationInv, CommittedInv, OwnJob, NewJob, KeyOf
    <2>2. /\ answer' = [answer EXCEPT ![r] = Accepted(NewJob(r))]
          /\ answer'[r] = Accepted(NewJob(r)) /\ answer[r].code = "none"
      BY <1>7, ReplyCodes DEF Respond, AnswerInv, CreationInv, CreationTypeOK
    <2>3. UNCHANGED <<command, db>>
      BY <1>7 DEF Respond
    <2>4. \E job \in db.jobs : /\ job.id = NewJob(r) /\ KeyOf(job) = command[r].key
                               /\ job.body = command[r].body
      BY <2>1
    <2>5. PICK reply : reply = Accepted(NewJob(r))
      OBVIOUS
    <2>6. reply.code = "accepted" /\ reply.job = NewJob(r)
      BY <2>5, ReplyCodes
    <2>7. answer' = [answer EXCEPT ![r] = reply] /\ answer'[r] = reply
      BY <2>2, <2>5
    <2>8. \E job \in db.jobs : /\ job.id = reply.job /\ KeyOf(job) = command[r].key
                               /\ job.body = command[r].body
      BY <2>4, <2>6
    <2>9. reply.code # "conflict" /\ answer[r].code \in {"none", "lost"}
      BY <2>2, <2>6
    <2>10. QED
      BY <2>3, <2>7, <2>8, <2>9, TrueTale
  <1>8. ASSUME NEW r \in Requests, CutOff(r) PROVE Promise!PromiseNext
    BY <1>8, TellStep, ReplyCodes DEF RollBack, CutOff
  <1>9. CASE CronDispatch \/ UNCHANGED creationVars
    BY <1>9 DEF CronDispatch, creationVars, Promise!promiseVars, KeyOf
  <1>10. QED
    BY <1>1, <1>2, <1>3, <1>4, <1>5, <1>6, <1>7, <1>8, <1>9, CommitAccepts
       DEF CreationNext, ServerStep

\* create_job, with everything that may interleave with it, implements the
\* one-step promise of IdempotentCreation.
THEOREM CreationKeepsItsPromise == CreationSpec => KeepsItsPromise
  <1>1. CreationInit => Promise!PromiseInit
    BY DEF CreationInit, NoRows, Saying, Promise!PromiseInit
  <1>2. CreationInv /\ AnswerInv /\ [CreationNext]_creationVars
            => [Promise!PromiseNext]_Promise!promiseVars
    BY StepKeepsPromise
  <1>3. QED
    BY <1>1, <1>2, CreationInvariant, AnswerInvariant, PTL
       DEF CreationSpec, KeepsItsPromise, Promise!PromiseSpec

-----------------------------------------------------------------------------
(* Collisions *)

\* Another client that posts for the same source, under another key or none.
Rival(r, q) ==
    /\ q # r /\ Url(q) = Url(r) /\ sent[q] > 0
    /\ command[q].key # command[r].key \/ command[r].key = None

HasRival(r) == \E q \in Requests : Rival(r, q)

\* Phases in which a request under a key holds its lock.
Locked == {"building", "sourceless", "sourced", "flushed"}

\* A request that holds the lock of its key finds no job under it.
HoldsLock(r) ==
    /\ command[r].key # None => lock[command[r].key] = r
    /\ Existing(r) = {}

LockInv == \A r \in Requests : at[r] \in Locked => HoldsLock(r)

\* What is known of the sources while they are introduced.
SourceInv ==
    /\ \A r \in Requests : at[r] \in Open => sent[r] > 0
    /\ \A r \in Requests : written[r].sources \subseteq {Url(r)}
    /\ \A r \in Requests : at[r] = "sourceless" /\ Url(r) \in db.sources => HasRival(r)

CollisionInv == LockInv /\ SourceInv /\ OnlyForeignCollisions

\* The property, with its rival named.
LEMMA CollisionMeans ==
  OnlyForeignCollisions <=> \A r \in Requests : answer[r].code = "error" => HasRival(r)
  BY DEF OnlyForeignCollisions, HasRival, Rival

\* No transaction commits a row under a key another one has locked.
LEMMA LocksExclude ==
  ASSUME CreationTypeOK, LockInv, NEW r \in Requests, NEW q \in Requests, r # q,
         at[r] \in Locked, at[q] \in Locked
  PROVE  command[r].key # command[q].key \/ command[r].key = None
  BY DEF LockInv, HoldsLock

\* The end of a transaction gives back the lock of its own request only.
LEMMA RollBackCollides ==
  ASSUME CreationTypeOK, CollisionInv, NEW r \in Requests, NEW reply \in Answer,
         EndWith(r, reply), UNCHANGED <<command, sent>>,
         reply.code = "error" => HasRival(r)
  PROVE  CollisionInv'
  <1>1. /\ at' = [at EXCEPT ![r] = "answered"] /\ answer' = [answer EXCEPT ![r] = reply]
        /\ written' = [written EXCEPT ![r] = NoRows] /\ db' = db
        /\ lock' = [k \in Keys |-> IF lock[k] = r THEN None ELSE lock[k]]
    BY DEF EndWith, Unlock
  <1>2. /\ at'[r] = "answered" /\ \A q \in Requests \ {r} : at'[q] = at[q]
        /\ answer'[r] = reply /\ \A q \in Requests \ {r} : answer'[q] = answer[q]
        /\ written'[r] = NoRows /\ \A q \in Requests \ {r} : written'[q] = written[q]
    BY <1>1 DEF CreationTypeOK
  <1>3. ASSUME NEW q \in Requests, HasRival(q) PROVE HasRival(q)'
    BY <1>3 DEF HasRival, Rival, Url
  <1>4. LockInv'
    <2>1. ASSUME NEW q \in Requests, at'[q] \in Locked PROVE HoldsLock(q)'
      <3>1. q # r /\ HoldsLock(q)
        BY <1>2, <2>1 DEF CollisionInv, LockInv, Locked
      <3>2. command[q].key # None => lock'[command[q].key] = q
        <4>1. command[q].key \in Keys \cup {None}
          BY CreationAssumption DEF CreationTypeOK
        <4>2. QED
          BY <1>1, <3>1, <4>1 DEF HoldsLock
      <3>3. QED
        BY <1>1, <3>1, <3>2 DEF HoldsLock, Existing
    <2>2. QED
      BY <2>1 DEF LockInv
  <1>5. SourceInv'
    BY <1>1, <1>2, <1>3 DEF CollisionInv, SourceInv, NoRows, Url, Open
  <1>6. OnlyForeignCollisions'
    <2>1. \A q \in Requests : answer'[q].code = "error" => HasRival(q)'
      BY <1>2, <1>3, CollisionMeans DEF CollisionInv
    <2>2. QED
      BY <2>1 DEF OnlyForeignCollisions, HasRival, Rival
  <1>7. QED
    BY <1>4, <1>5, <1>6 DEF CollisionInv

\* A request that goes on without committing, releasing or failing.
LEMMA QuietCollides ==
  ASSUME CreationTypeOK, CollisionInv, NEW r \in Requests,
         command' = command, db' = db, answer' = answer,
         \A q \in Requests : sent'[q] = sent[q] /\ written'[q].sources = written[q].sources,
         \A q \in Requests \ {r} : at'[q] = at[q] /\ (command[q].key # None => lock'[command[q].key] = lock[command[q].key]),
         at[r] \in Open \/ at'[r] \notin Open,
         at'[r] \in Locked => HoldsLock(r)',
         at'[r] = "sourceless" => at[r] = "sourceless" \/ Url(r) \notin db.sources
  PROVE  CollisionInv'
  <1>1. ASSUME NEW q \in Requests, HasRival(q) PROVE HasRival(q)'
    BY <1>1 DEF HasRival, Rival, Url
  <1>2. LockInv'
    <2>1. ASSUME NEW q \in Requests \ {r}, at'[q] \in Locked PROVE HoldsLock(q)'
      BY <2>1 DEF CollisionInv, LockInv, HoldsLock, Existing
    <2>2. QED
      BY <2>1 DEF LockInv
  <1>3. SourceInv'
    BY <1>1 DEF CollisionInv, SourceInv, Url, Open
  <1>4. OnlyForeignCollisions'
    <2>1. \A q \in Requests : answer'[q].code = "error" => HasRival(q)'
      BY <1>1, CollisionMeans DEF CollisionInv
    <2>2. QED
      BY <2>1 DEF OnlyForeignCollisions, HasRival, Rival
  <1>5. QED
    BY <1>2, <1>3, <1>4 DEF CollisionInv

\* Only inserting a source that a rival has committed fails on an index.
LEMMA CollisionStep ==
  ASSUME CreationInv, CollisionInv, [CreationNext]_creationVars
  PROVE  CollisionInv'
  <1>0. /\ CreationTypeOK /\ WrittenInv /\ LockInv /\ SourceInv
        /\ \A r \in Requests : command[r].key \in Keys \cup {None}
    BY CreationAssumption DEF CreationInv, CreationTypeOK, CollisionInv
  <1>1. ASSUME NEW r \in Requests, Send(r) PROVE CollisionInv'
    <2>1. /\ \A q \in Requests \ {r} : at'[q] = at[q] /\ sent'[q] = sent[q] /\ answer'[q] = answer[q]
          /\ sent'[r] = sent[r] + 1 /\ sent[r] \in Nat /\ answer'[r].code = "none"
          /\ at'[r] = IF command[r].key = None THEN "building" ELSE "locking"
          /\ UNCHANGED <<command, lock, written, db>>
      BY <1>0, <1>1, ReplyCodes DEF Send, CreationTypeOK
    <2>2. \A q \in Requests : sent[q] > 0 => sent'[q] > 0
      BY <2>1
    <2>3. ASSUME NEW q \in Requests, HasRival(q) PROVE HasRival(q)'
      BY <2>1, <2>2, <2>3 DEF HasRival, Rival, Url
    <2>4. LockInv'
      <3>1. at'[r] \in Locked => HoldsLock(r)'
        <4>1. CASE command[r].key = None
          <5>1. \A row \in db.keys : row.key \in Keys
            BY <1>0 DEF CreationTypeOK, Rows, KeyRow
          <5>2. QED
            BY <2>1, <4>1, <5>1, CreationAssumption DEF HoldsLock, Existing
        <4>2. CASE command[r].key # None
          BY <2>1, <4>2 DEF Locked
        <4>3. QED
          BY <4>1, <4>2
      <3>2. \A q \in Requests \ {r} : at'[q] \in Locked => HoldsLock(q)'
        BY <1>0, <2>1 DEF LockInv, HoldsLock, Existing
      <3>3. QED
        BY <3>1, <3>2 DEF LockInv
    <2>5. SourceInv'
      BY <1>0, <2>1, <2>2, <2>3 DEF SourceInv, Url, Open
    <2>6. OnlyForeignCollisions'
      <3>1. \A q \in Requests : answer'[q].code = "error" => HasRival(q)'
        BY <2>1, <2>3, CollisionMeans DEF CollisionInv
      <3>2. QED
        BY <3>1 DEF OnlyForeignCollisions, HasRival, Rival
    <2>7. QED
      BY <2>4, <2>5, <2>6 DEF CollisionInv
  <1>2. ASSUME NEW r \in Requests, SendForeign(r) \/ CutOff(r) PROVE CollisionInv'
    <2>1. PICK reply \in {Saying("forbidden"), Saying("lost")} : EndWith(r, reply)
      BY <1>2 DEF SendForeign, CutOff, RollBack
    <2>2. reply \in Answer /\ reply.code # "error"
      BY <2>1, AnswerType, ReplyCodes DEF Code
    <2>3. QED
      BY <1>0, <1>2, <2>1, <2>2, RollBackCollides DEF RollBack, SendForeign, CutOff
  <1>3. ASSUME NEW r \in Requests, Replay(r, Existing(r)), UNCHANGED <<command, sent>>
        PROVE  CollisionInv'
    <2>1. PICK row \in Existing(r) :
            EndWith(r, IF row.body = command[r].body THEN Accepted(row.job) ELSE Saying("conflict"))
      BY <1>3, ReplayEnds
    <2>2. row.job \in JobId
      BY <1>0, ExistingType
    <2>3. CASE row.body = command[r].body
      BY <1>0, <1>3, <2>1, <2>2, <2>3, RollBackCollides, AnswerType, ReplyCodes
    <2>4. CASE row.body # command[r].body
      BY <1>0, <1>3, <2>1, <2>4, RollBackCollides, AnswerType, ReplyCodes DEF Code
    <2>5. QED
      BY <2>3, <2>4
  <1>4. ASSUME NEW r \in Requests, LookUpKey(r) PROVE CollisionInv'
    <2>1. CASE Existing(r) # {}
      BY <1>3, <1>4, <2>1 DEF LookUpKey
    <2>2. CASE Existing(r) = {}
      <3>1. /\ at[r] = "locking" /\ lock[command[r].key] = None
            /\ lock' = [lock EXCEPT ![command[r].key] = r]
            /\ at' = [at EXCEPT ![r] = "building"]
            /\ UNCHANGED <<written, db, answer, command, sent>>
        BY <1>4, <2>2 DEF LookUpKey, CanLock
      <3>2. at'[r] = "building" /\ \A q \in Requests \ {r} : at'[q] = at[q]
        BY <1>0, <3>1 DEF CreationTypeOK
      <3>3. HoldsLock(r)'
        BY <1>0, <2>2, <3>1 DEF HoldsLock, Existing, CreationTypeOK
      <3>4. LockInv'
        <4>1. ASSUME NEW q \in Requests \ {r}, at'[q] \in Locked PROVE HoldsLock(q)'
          <5>1. HoldsLock(q)
            BY <1>0, <3>2, <4>1 DEF LockInv
          <5>2. command[q].key # None => lock'[command[q].key] = q
            BY <1>0, <3>1, <5>1, CreationAssumption DEF HoldsLock, CreationTypeOK
          <5>3. QED
            BY <3>1, <5>1, <5>2 DEF HoldsLock, Existing
        <4>2. QED
          BY <3>3, <4>1 DEF LockInv
      <3>5. SourceInv'
        BY <1>0, <3>1, <3>2 DEF SourceInv, Url, Open, HasRival, Rival
      <3>6. OnlyForeignCollisions'
        BY <3>1 DEF CollisionInv, OnlyForeignCollisions, Url
      <3>7. QED
        BY <3>4, <3>5, <3>6 DEF CollisionInv
    <2>3. QED
      BY <2>1, <2>2
  <1>5. ASSUME NEW r \in Requests, FindSource(r) PROVE CollisionInv'
    <2>1. CASE Url(r) = None
      BY <1>0, <1>5, <2>1, RollBackCollides, AnswerType, ReplyCodes DEF RollBack, FindSource, Code
    <2>2. CASE Url(r) # None
      <3>1. /\ at[r] = "building"
            /\ at' = [at EXCEPT ![r] = IF Url(r) \in db.sources THEN "sourced" ELSE "sourceless"]
            /\ UNCHANGED <<lock, written, db, answer, command, sent>>
        BY <1>5, <2>2 DEF FindSource, SourceExists
      <3>2. /\ at'[r] = IF Url(r) \in db.sources THEN "sourced" ELSE "sourceless"
            /\ \A q \in Requests \ {r} : at'[q] = at[q]
        BY <1>0, <3>1 DEF CreationTypeOK
      <3>3. HoldsLock(r)'
        BY <1>0, <3>1 DEF LockInv, Locked, HoldsLock, Existing
      <3>4. QED
        BY <1>0, <3>1, <3>2, <3>3, QuietCollides DEF Open
    <2>3. QED
      BY <2>1, <2>2
  <1>6. ASSUME NEW r \in Requests, InsertSource(r) PROVE CollisionInv'
    <2>1. CASE Url(r) \in db.sources
      <3>1. HasRival(r)
        BY <1>0, <1>6, <2>1 DEF InsertSource, SourceInv
      <3>2. QED
        BY <1>0, <1>6, <2>1, <3>1, RollBackCollides, AnswerType, ReplyCodes DEF RollBack, InsertSource, Code
    <2>2. CASE Url(r) \notin db.sources
      <3>1. /\ at[r] = "sourceless" /\ at' = [at EXCEPT ![r] = "sourced"]
            /\ written' = [written EXCEPT ![r].sources = @ \cup {Url(r)}]
            /\ UNCHANGED <<lock, db, answer, command, sent>>
        BY <1>6, <2>2 DEF InsertSource
      <3>2. at'[r] = "sourced" /\ \A q \in Requests \ {r} : at'[q] = at[q]
        BY <1>0, <3>1 DEF CreationTypeOK
      <3>3. \A q \in Requests : written'[q].sources \subseteq {Url(q)}
        <4>1. written[r] \in Rows
          BY <1>0 DEF CreationTypeOK
        <4>2. written'[r].sources = written[r].sources \cup {Url(r)}
          BY <1>0, <3>1, <4>1 DEF CreationTypeOK, Rows
        <4>3. \A q \in Requests \ {r} : written'[q] = written[q]
          BY <1>0, <3>1 DEF CreationTypeOK
        <4>4. QED
          BY <1>0, <4>2, <4>3 DEF SourceInv
      <3>4. LockInv'
        BY <1>0, <3>1, <3>2 DEF LockInv, Locked, HoldsLock, Existing
      <3>5. SourceInv'
        BY <1>0, <3>1, <3>2, <3>3 DEF SourceInv, Url, Open, HasRival, Rival
      <3>6. OnlyForeignCollisions'
        BY <3>1 DEF CollisionInv, OnlyForeignCollisions, Url
      <3>7. QED
        BY <3>4, <3>5, <3>6 DEF CollisionInv
    <2>3. QED
      BY <2>1, <2>2
  <1>7. ASSUME NEW r \in Requests, InsertJob(r) PROVE CollisionInv'
    <2>1. Existing(r) = {}
      BY <1>0, <1>7 DEF InsertJob, LockInv, Locked, HoldsLock
    <2>2. /\ at[r] = "sourced" /\ at' = [at EXCEPT ![r] = "flushed"]
          /\ written' = [written EXCEPT ![r] = Merge(@, JobRows(r))]
          /\ UNCHANGED <<lock, db, answer, command, sent>>
      BY <1>7, <2>1 DEF InsertJob
    <2>3. at'[r] = "flushed" /\ \A q \in Requests \ {r} : at'[q] = at[q]
      BY <1>0, <2>2 DEF CreationTypeOK
    <2>4. \A q \in Requests : written'[q].sources = written[q].sources
      BY <1>0, <2>2 DEF CreationTypeOK, Merge, JobRows
    <2>5. HoldsLock(r)'
      BY <1>0, <2>2 DEF LockInv, Locked, HoldsLock, Existing
    <2>6. QED
      BY <1>0, <2>2, <2>3, <2>4, <2>5, QuietCollides DEF Open
  <1>8. ASSUME NEW r \in Requests, Commit(r) PROVE CollisionInv'
    <2>1. /\ at[r] = "flushed" /\ at' = [at EXCEPT ![r] = "committed"]
          /\ db' = Merge(db, written[r]) /\ written' = [written EXCEPT ![r] = NoRows]
          /\ lock' = [k \in Keys |-> IF lock[k] = r THEN None ELSE lock[k]]
          /\ UNCHANGED <<answer, command, sent>>
      BY <1>8 DEF Commit, Unlock
    <2>2. /\ at'[r] = "committed" /\ \A q \in Requests \ {r} : at'[q] = at[q]
          /\ written'[r] = NoRows /\ \A q \in Requests \ {r} : written'[q] = written[q]
      BY <1>0, <2>1 DEF CreationTypeOK
    <2>3. /\ db'.sources \subseteq db.sources \cup {Url(r)}
          /\ db'.keys = db.keys \cup NewKey(r)
      BY <1>0, <2>1 DEF Merge, SourceInv, WrittenInv, FlushedAsFarAs
    <2>4. ASSUME NEW q \in Requests, HasRival(q) PROVE HasRival(q)'
      BY <2>1, <2>4 DEF HasRival, Rival, Url
    <2>5. LockInv'
      <3>1. ASSUME NEW q \in Requests, at'[q] \in Locked PROVE HoldsLock(q)'
        <4>1. q # r /\ at[q] \in Locked /\ HoldsLock(q) /\ at[r] \in Locked
          BY <1>0, <2>1, <2>2, <3>1 DEF LockInv, Locked
        <4>2. command[q].key # command[r].key \/ command[q].key = None
          BY <1>0, <4>1, LocksExclude
        <4>3. \A row \in NewKey(r) : row.key # command[q].key
          BY <4>2 DEF NewKey
        <4>4. Existing(q)' = {}
          BY <2>1, <2>3, <4>1, <4>3 DEF HoldsLock, Existing
        <4>5. command[q].key # None => lock'[command[q].key] = q
          BY <1>0, <2>1, <4>1 DEF HoldsLock
        <4>6. QED
          BY <2>1, <4>4, <4>5 DEF HoldsLock
      <3>2. QED
        BY <3>1 DEF LockInv
    <2>6. ASSUME NEW q \in Requests, at'[q] = "sourceless", Url(q) \in db'.sources
          PROVE  HasRival(q)'
      <3>1. q # r /\ at[q] = "sourceless"
        BY <2>2, <2>6
      <3>2. CASE Url(q) \in db.sources
        BY <1>0, <2>4, <3>1, <3>2 DEF SourceInv
      <3>3. CASE Url(q) = Url(r)
        <4>1. command[r].key # command[q].key \/ command[q].key = None
          BY <1>0, <2>1, <3>1, LocksExclude DEF Locked
        <4>2. sent[r] > 0
          BY <1>0, <2>1 DEF SourceInv, Open
        <4>3. HasRival(q)
          BY <3>1, <3>3, <4>1, <4>2 DEF HasRival, Rival
        <4>4. QED
          BY <2>4, <4>3
      <3>4. QED
        BY <2>3, <2>6, <3>2, <3>3
    <2>7. SourceInv'
      <3>1. \A q \in Requests : Url(q)' = Url(q)
        BY <2>1 DEF Url
      <3>2. \A q \in Requests : written'[q].sources \subseteq {Url(q)}
        BY <1>0, <2>2 DEF SourceInv, NoRows
      <3>3. \A q \in Requests : at'[q] \in Open => sent'[q] > 0
        BY <1>0, <2>1, <2>2 DEF SourceInv, Open
      <3>4. QED
        BY <2>6, <3>1, <3>2, <3>3 DEF SourceInv
    <2>8. OnlyForeignCollisions'
      BY <2>1 DEF CollisionInv, OnlyForeignCollisions, Url
    <2>9. QED
      BY <2>5, <2>7, <2>8 DEF CollisionInv
  <1>9. ASSUME NEW r \in Requests, Respond(r) PROVE CollisionInv'
    <2>1. /\ \A q \in Requests \ {r} : at'[q] = at[q] /\ answer'[q] = answer[q]
          /\ at'[r] = "answered" /\ answer'[r].code = "accepted"
          /\ UNCHANGED <<command, sent, lock, written, db>>
      BY <1>0, <1>9, ReplyCodes DEF Respond, CreationTypeOK
    <2>2. LockInv'
      BY <1>0, <2>1 DEF LockInv, Locked, HoldsLock, Existing
    <2>3. SourceInv'
      BY <1>0, <2>1 DEF SourceInv, Url, Open, HasRival, Rival
    <2>4. OnlyForeignCollisions'
      BY <2>1 DEF CollisionInv, OnlyForeignCollisions, Url
    <2>5. QED
      BY <2>2, <2>3, <2>4 DEF CollisionInv
  <1>10. CASE CronDispatch \/ UNCHANGED creationVars
    BY <1>10 DEF CronDispatch, creationVars, CollisionInv, LockInv, HoldsLock, Existing, SourceInv,
                 OnlyForeignCollisions, HasRival, Rival, Url
  <1>11. QED
    BY <1>1, <1>2, <1>4, <1>5, <1>6, <1>7, <1>8, <1>9, <1>10 DEF CreationNext, ServerStep

\* Requests under one key never fail each other (services.py:180-266): behind the
\* lock of its key a request meets no row of that key, and the only 500 is that
\* of two keys, or none, that introduce the same new URL at once.
THEOREM KeysNeverCollide == CreationSpec => []OnlyForeignCollisions
  <1>1. CreationInit => CollisionInv
    BY DEF CreationInit, CollisionInv, LockInv, SourceInv, OnlyForeignCollisions, Locked, Open,
           NoRows, Saying
  <1>2. CreationInv /\ CollisionInv /\ [CreationNext]_creationVars => CollisionInv'
    BY CollisionStep
  <1>3. CollisionInv => OnlyForeignCollisions
    BY DEF CollisionInv
  <1>4. QED
    BY <1>1, <1>2, <1>3, CreationInvariant, PTL DEF CreationSpec

=============================================================================
