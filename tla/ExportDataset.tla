---------------------------- MODULE ExportDataset ----------------------------
(***************************************************************************)
(* export_service.py: the rows an export selects from the validated        *)
(* records of a job, and the cells the tabular writers make of them.       *)
(* What readers make of a document format (pdf, docx, ...) is left out.    *)
(***************************************************************************)
EXTENDS RecordRules, FiniteSets, Functions

CONSTANTS
    Formats,        \* \subseteq {"csv", "json", "xlsx"}
    Policies,       \* \subseteq {"ALL_RECORDS", "VALID_ONLY", "VALID_AND_WARNINGS"}
    ExportRecords   \* EXPORT_MAX_RECORDS

ASSUME ExportAssumption ==
    /\ Formats \subseteq {"csv", "json", "xlsx"}
    /\ Policies \subseteq {"ALL_RECORDS", "VALID_ONLY", "VALID_AND_WARNINGS"}

Selected(status, policy) ==
    CASE policy = "ALL_RECORDS" -> TRUE
      [] policy = "VALID_ONLY" -> status = "PASS"
      [] policy = "VALID_AND_WARNINGS" -> status \in {"PASS", "WARN"}

Row(record) == [f \in Fields |-> record.fields[f].value]

\* build_dataset: the selected records in the order of their identities (hashes,
\* here some fixed order).  verdicts maps identities to statuses; the join drops
\* a record without one.
Dataset(records, verdicts, policy) ==
    LET selected == {r \in records : /\ r.identity \in DOMAIN verdicts
                                     /\ Selected(verdicts[r.identity], policy)}
        order == CHOOSE f \in Bijection(1 .. Cardinality(selected), selected) : TRUE
    IN  [i \in 1 .. Cardinality(selected) |-> Row(order[i])]

\* _safe_spreadsheet: a text that starts like a formula gets an apostrophe.
Safe(value) == IF value = Is("str", "=word") THEN Is("str", "'=word") ELSE value

\* Slip: the shorthand of the CSV writer is used for XLSX as well.
CellOrEmpty(value, format) ==
    IF format = "json" THEN value ELSE IF IsFalsy(value) THEN Missing ELSE Safe(value)

\* What a reader of a written file finds in a cell: numbers and truth values of a
\* CSV come back as their text, which the kind of a cell leaves out here.  CSV
\* writes (value or ""), XLSX and JSON keep what is not None.
Cell(value, format) ==
    CASE format = "json" -> value
      [] format = "xlsx" -> Safe(value)
      [] format = "csv" -> IF IsFalsy(value) THEN Missing ELSE Safe(value)

File(rows, format) ==
    [i \in DOMAIN rows |-> [f \in Fields |-> Cell(rows[i][f], format)]]

=============================================================================
