----------------------------- MODULE RecordFlow -----------------------------
(***************************************************************************)
(* The data of one job, from rendered pages to files: what               *)
(* complete_extraction_page, complete_validation_run and                   *)
(* load_export_dataset of services.py do with it, the stages of the job    *)
(* reduced to one variable.  Who may run these operations, and when, is    *)
(* the subject of JobPipeline; a page may be read again here because a     *)
(* lapsed lease or a retry can have it read twice.                         *)
(***************************************************************************)
EXTENDS ExportDataset

CONSTANTS
    Pages,
    Documents,      \* what a page may show
    MaxReads        \* readings of one page

ASSUME ReadAssumption == Documents \subseteq Document /\ MaxReads \in Nat

VARIABLES
    shown,          \* the document of each page
    stage,          \* "EXTRACTING", "VALIDATING", "EXPORTING"
    records,        \* rows of the table records, oldest first
    recordsFound,   \* job.records_found
    reads,          \* readings completed per page
    verdicts,       \* identity -> status of the validation run
    policy,         \* record_policy of the job's exports
    files           \* what was exported, by format

flowVars == <<shown, stage, records, recordsFound, reads, verdicts, policy, files>>

Stored == {records[i] : i \in DOMAIN records}

FlowInit ==
    /\ shown \in [Pages -> Documents]
    /\ stage = "EXTRACTING"
    /\ records = <<>>
    /\ recordsFound = 0
    /\ reads = [p \in Pages |-> 0]
    /\ verdicts = <<>>
    /\ policy = None
    /\ files = <<>>

-----------------------------------------------------------------------------
(* Extraction *)

\* Slip: only rows of the same reading are compared.
IsNewInReading(record, rows) ==
    \A i \in DOMAIN rows : i > Len(records) => rows[i].identity # record.identity

\* uq_records_job_identity: the insert of a second row fails in its savepoint.
IsNew(record, rows) == \A i \in DOMAIN rows : rows[i].identity # record.identity

Insert(rows, record) == IF IsNew(record, rows) THEN Append(rows, record) ELSE rows

\* The loop over a result: after[n] are the rows when n records have been tried.
InsertAll(rows, offered) ==
    LET after[n \in 0 .. Len(offered)] ==
            IF n = 0 THEN rows ELSE Insert(after[n - 1], offered[n])
    IN  after[Len(offered)]

\* The room is computed from the rows stored before this page.
Offered(p) ==
    LET extracted == Extract(p, shown[p])
        room == IF MaxRecords > Len(records) THEN MaxRecords - Len(records) ELSE 0
    IN  SubSeq(extracted, 1, IF Len(extracted) < room THEN Len(extracted) ELSE room)

\* Slip: the counter adds what was offered, duplicates included.
FoundOffered(p) == recordsFound + Len(Offered(p))

\* job.records_found += created
FoundAfter(p) == recordsFound + Len(InsertAll(records, Offered(p))) - Len(records)

\* The reading that leaves no page unread hands the job over.
StageAfter(p) == IF \A q \in Pages \ {p} : reads[q] > 0 THEN "VALIDATING" ELSE stage

ReadPage(p) ==
    /\ stage = "EXTRACTING"
    /\ reads[p] < MaxReads
    /\ records' = InsertAll(records, Offered(p))
    /\ recordsFound' = FoundAfter(p)
    /\ reads' = [reads EXCEPT ![p] = @ + 1]
    /\ stage' = StageAfter(p)
    /\ UNCHANGED <<shown, verdicts, policy, files>>

-----------------------------------------------------------------------------
(* Validation and export *)

Verdict(record) == Status(Outcomes(record))

\* The job service takes the default policy, ALL_RECORDS; the others are part of
\* the contract of build_dataset.
Validate ==
    /\ stage = "VALIDATING"
    /\ stage' = "EXPORTING"
    /\ verdicts' = [id \in {r.identity : r \in Stored} |->
                        Verdict(CHOOSE r \in Stored : r.identity = id)]
    /\ policy' \in Policies
    /\ UNCHANGED <<shown, records, recordsFound, reads, files>>

Export(format) ==
    /\ stage = "EXPORTING"
    /\ format \notin DOMAIN files
    /\ Len(records) <= ExportRecords        \* ExportTooLarge
    /\ files' = [a \in DOMAIN files \cup {format} |->
                    IF a = format THEN File(Dataset(Stored, verdicts, policy), format) ELSE files[a]]
    /\ UNCHANGED <<shown, stage, records, recordsFound, reads, verdicts, policy>>

FlowNext ==
    \/ \E p \in Pages : ReadPage(p)
    \/ Validate
    \/ \E format \in Formats : Export(format)

FlowSpec == FlowInit /\ [][FlowNext]_flowVars

=============================================================================
