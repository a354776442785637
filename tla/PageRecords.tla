----------------------------- MODULE PageRecords -----------------------------
(***************************************************************************)
(* extraction_service.py: the candidate records of one rendered page.      *)
(*                                                                         *)
(* What a page says of a field is a token: a text, or a JSON scalar of     *)
(* structured data ("json 0", "json false").  A source is what one entity, *)
(* table row, block or whole page offers: a token for the fields its names *)
(* match (None for the others), the plain text and the address it carries. *)
(* Matching of names, and the parsing of JSON and HTML, stay outside, and  *)
(* so do texts that break a reading off, so that their page stays unread:  *)
(* an address urljoin refuses ("http://["), and a number no float holds,   *)
(* whose infinity JSONB refuses.                                           *)
(***************************************************************************)
EXTENDS Naturals, Sequences

CONSTANTS
    None,
    Fields,         \* field names of the plan
    FieldType,      \* the type of each field, "string" under "text" and
                    \* "currency" under "number"
    MaxRecords      \* the smaller of the plan's and the server's record cap

ASSUME CapAssumption == MaxRecords \in Nat

ASSUME TypeAssumption ==
    FieldType \in [Fields -> {"text", "integer", "number", "boolean",
                             "url", "email", "date", "datetime"}]

\* What the fields can take from one source: looked-up names, text and address.
PageSource == [named : [Fields -> STRING \cup {None}],
               text : STRING \cup {None}, url : STRING \cup {None}]

\* ExtractionDocument: its sources, in the order a reader of the page meets them.
Document ==
    [entities : Seq(PageSource), rows : Seq(PageSource), blocks : Seq(PageSource),
     detail : PageSource]

\* str(raw): how a JSON scalar prints.
Printed(raw) ==
    CASE raw = "json 0" -> "0" [] raw = "json false" -> "False" [] OTHER -> raw

\* _text(raw): str(raw or "") squeezed, so that every false value becomes "".
Squeezed(raw) == IF raw \in {"json 0", "json false"} THEN "" ELSE raw

Missing == [kind |-> "none", of |-> ""]
Is(kind, token) == [kind |-> kind, of |-> token]

\* urljoin with the address of an https page: a text with a scheme of its own
\* stays as it is, even one of http without a host.
Joined(text) ==
    IF text \in {"http://", "https://page/", "mailto:word"} THEN text ELSE "https://page/" \o text

\* normalize(): the typed value of a text, Missing when it cannot be read.
Normalised(text, type) ==
    IF text = "" THEN Missing ELSE
    CASE type = "text" -> Is("str", text)
      [] type = "integer" /\ text \in {"0", "7"} -> Is("int", text)
      [] type = "integer" /\ text = "7.5" -> Is("float", text)
      [] type = "number" /\ text \in {"0", "7", "7.5"} -> Is("float", text)
      [] type = "boolean" /\ text \in {"0", "no", "False"} -> Is("bool", "False")
      [] type = "boolean" /\ text \in {"1", "yes"} -> Is("bool", "True")
      [] type = "url" /\ text # "mailto:word" -> Is("str", Joined(text))
      [] type = "email" /\ text \in {"word@host.net", "To: Word@host.net"} -> Is("str", "word@host.net")
      [] type = "date" /\ text \in {"2024-05-01", "2024-05-01T10:00Z"} -> Is("str", "2024-05-01")
      [] type = "datetime" /\ text = "2024-05-01" -> Is("str", "2024-05-01T00:00:00")
      [] type = "datetime" /\ text = "2024-05-01T10:00Z" -> Is("str", "2024-05-01T10:00:00+00:00")
      [] OTHER -> Missing

\* value or "": None, zero, False and the empty text are all the same to it.
IsFalsy(value) == value \in {Missing, Is("int", "0"), Is("float", "0"), Is("bool", "False")}

-----------------------------------------------------------------------------

\* The token a source has for a field; text fields fall back on its plain text,
\* url fields on its address.
Found(source, f) ==
    IF source.named[f] # None THEN source.named[f]
    ELSE IF FieldType[f] = "text" /\ source.text \notin {None, ""} THEN source.text
    ELSE IF FieldType[f] = "url" /\ source.url \notin {None, ""} THEN source.url
    ELSE None

\* Slip: the raw text is cut at the length of an evidence snippet.
KeptRawCut(raw) == IF raw = "long" THEN "long..." ELSE IF raw = None THEN None ELSE Squeezed(raw)

\* The raw text a field keeps beside its value.
KeptRaw(raw) == IF raw = None THEN None ELSE Squeezed(raw)

FieldFrom(source, f) ==
    LET raw == Found(source, f)
    IN  [raw |-> KeptRaw(raw),
         value |-> IF raw = None THEN Missing ELSE Normalised(Printed(raw), FieldType[f])]

\* The hashed seed joins str(value or "") of the fields in the order of the plan.
Identity(page, fields) ==
    [page |-> page, seed |-> [f \in Fields |-> IF IsFalsy(fields[f].value) THEN "" ELSE fields[f].value.of]]

RecordFrom(page, source) ==
    LET fields == [f \in Fields |-> FieldFrom(source, f)]
    IN  [identity |-> Identity(page, fields), fields |-> fields]

HasValue(record) == \E f \in Fields : record.fields[f].value # Missing

\* The records of the sources, in their order, without the empty ones: kept[n] is
\* what the first n sources leave.
Meaningful(page, sources) ==
    LET kept[n \in 0 .. Len(sources)] ==
            IF n = 0 THEN <<>>
            ELSE LET record == RecordFrom(page, sources[n])
                 IN  IF HasValue(record) THEN Append(kept[n - 1], record) ELSE kept[n - 1]
    IN  kept[Len(sources)]

\* Repeated blocks count as records only when there are several of them.
BlockRecords(page, blocks) ==
    LET records == Meaningful(page, blocks) IN IF Len(records) < 2 THEN <<>> ELSE records

\* extract(): structured data, else tables, else blocks, else the page itself,
\* which always makes one record, even an empty one.
Extract(page, document) ==
    LET structured == Meaningful(page, document.entities)
        table == Meaningful(page, document.rows)
        blocks == BlockRecords(page, document.blocks)
        found == IF structured # <<>> THEN structured
                 ELSE IF table # <<>> THEN table
                 ELSE IF blocks # <<>> THEN blocks
                 ELSE <<RecordFrom(page, document.detail)>>
    IN  SubSeq(found, 1, IF Len(found) < MaxRecords THEN Len(found) ELSE MaxRecords)

=============================================================================
