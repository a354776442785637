-------------------------- MODULE RecordProperties --------------------------
(***************************************************************************)
(* What the data of a job must satisfy on its way from page to file.       *)
(***************************************************************************)
EXTENDS RecordFlow

\* Rows keep what one reading made of one page, at most MaxRecords of them and
\* no two with one identity; the counter the API shows is their number,
\* whatever duplicates were offered and however often a page was read.
RecordsTypeOK ==
    /\ stage \in {"EXTRACTING", "VALIDATING", "EXPORTING"}
    /\ reads \in [Pages -> 0 .. MaxReads]
    /\ Len(records) <= MaxRecords
    /\ \A i, j \in DOMAIN records : records[i].identity = records[j].identity => i = j
    /\ recordsFound = Len(records)
    /\ policy \in Policies \cup {None}
    /\ DOMAIN files \subseteq Formats

\* Reading a page a second time adds no row, also when the cap cut its first
\* reading short or its own entities collide (phase6-extraction.md: duplicate
\* delivery is idempotent).
ReadingAgainAddsNothing ==
    [][\A p \in Pages : reads[p] > 0 /\ reads'[p] > reads[p] => records' = records]_flowVars

\* Extraction and validation agree on what a stored text means but in four cases:
\* a rule of a field fails a record only for a missing required value, a number
\* that is not whole, an address without a host (which urljoin lets through and
\* format.url.v1 refuses), or a JSON scalar whose text got lost.
FailuresAreExplained ==
    \A r \in Stored :
        r.identity \in DOMAIN verdicts /\ verdicts[r.identity] = "FAIL" =>
            \E f \in Fields :
                \/ f \in Required /\ r.fields[f].value = Missing
                \/ FieldType[f] = "integer" /\ r.fields[f].value.kind = "float"
                \/ FieldType[f] = "url" /\ HasNoHost(r.fields[f].value)
                \/ r.fields[f].raw = "" /\ r.fields[f].value # Missing

\* A file of the filtering policies shows no row with a required cell empty, a
\* number of the wrong kind or a text that does not have the format of its type,
\* in JSON where every value is kept as it is.
FilteredRowsAreSound ==
    "json" \in DOMAIN files /\ policy # "ALL_RECORDS" =>
        \A i \in DOMAIN files["json"], f \in Fields :
            LET cell == files["json"][i][f]
            IN  IF cell = Missing THEN f \notin Required
                ELSE cell.kind \in KindsOf(FieldType[f]) /\ HasItsFormat(cell, FieldType[f])

\* Every record of the job is in every file of the default policy, and two
\* formats of one policy show the same rows but for the apostrophe that guards
\* spreadsheets and the cells CSV leaves empty.
FormatsAgree ==
    \A a, b \in DOMAIN files :
        /\ policy = "ALL_RECORDS" => Len(files[a]) = Len(records)
        /\ DOMAIN files[a] = DOMAIN files[b]
        /\ \A i \in DOMAIN files[a], f \in Fields :
               \/ Safe(files[a][i][f]) = Safe(files[b][i][f])
               \/ "csv" \in {a, b} /\ IsFalsy(files[a][i][f])

-----------------------------------------------------------------------------

\* phase6-extraction.md, Field mapping: "Each stored field retains its raw text",
\* and phase7-validation.md re-applies the normalization to it.  The raw text of
\* a JSON zero or false is stored as "", and the value fails validation.
RawTextIsRetained ==
    \A r \in Stored : \A f \in Fields : r.fields[f].value # Missing => r.fields[f].raw # ""

=============================================================================
