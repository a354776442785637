----------------------------- MODULE RecordRules -----------------------------
(***************************************************************************)
(* validation_service.py: the verdict on one stored record.  Two rules no  *)
(* stored record breaks are left out (provenance, and the length of the    *)
(* evidence under its default), and so are the rules of whole records:     *)
(* plans with one of the pairs of fields they compare (start_date and      *)
(* end_date, min_price and max_price, ...) are not modelled.               *)
(***************************************************************************)
EXTENDS PageRecords

CONSTANT Required       \* the fields the plan requires

KindsOf(type) ==
    CASE type \in {"text", "url", "email", "date", "datetime"} -> {"str"}
      [] type = "integer" -> {"int"}
      [] type = "number" -> {"int", "float"}
      [] type = "boolean" -> {"bool"}

IsMissing(field) == field.value = Missing

\* _type_rule
HasItsType(field, type) == field.value.kind \in KindsOf(type)

\* A url that urlparse finds no hostname in.
HasNoHost(value) == value = Is("str", "http://")

\* _format_rule, which skips numbers and truth values.
HasItsFormat(value, type) ==
    CASE type = "text" -> value.of # ""
      [] type = "url" -> ~HasNoHost(value)
      [] type = "email" -> value.of = "word@host.net"
      [] type = "date" -> value.of = "2024-05-01"
      [] type = "datetime" -> value.of \in {"2024-05-01", "2024-05-01T00:00:00",
                                           "2024-05-01T10:00:00+00:00"}
      [] OTHER -> TRUE

\* normalization.v1: the kept raw text must give the stored value again.
IsReproduced(field, type) == field.raw = None \/ Normalised(field.raw, type) = field.value

\* _field_rules, as the set of outcomes; what is missing is judged no further.
FieldOutcomes(f, field) ==
    IF IsMissing(field)
    THEN IF f \in Required THEN {"FAIL"} ELSE {"PASS", "WARN"}
    ELSE {"PASS"}
            \cup (IF HasItsType(field, FieldType[f]) THEN {} ELSE {"FAIL"})
            \cup (IF HasItsFormat(field.value, FieldType[f]) THEN {} ELSE {"FAIL"})
            \cup (IF IsReproduced(field, FieldType[f]) THEN {} ELSE {"FAIL"})

\* provenance.v1 passes for every record extraction stores.
Outcomes(record) == {"PASS"} \cup UNION {FieldOutcomes(f, record.fields[f]) : f \in Fields}

\* Slip: warnings are looked for first.
StatusWarnFirst(outcomes) ==
    IF "WARN" \in outcomes THEN "WARN" ELSE IF "FAIL" \in outcomes THEN "FAIL" ELSE "PASS"

\* _status: the worst outcome.
Status(outcomes) ==
    IF "FAIL" \in outcomes THEN "FAIL" ELSE IF "WARN" \in outcomes THEN "WARN" ELSE "PASS"

=============================================================================
