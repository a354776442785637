--------------------------- MODULE ExtractionStage ---------------------------
(***************************************************************************)
(* run_extraction: the visited pages are read one per command, their       *)
(* records are stored under the record cap, and validation is queued when  *)
(* no visited page is left unread.                                         *)
(***************************************************************************)
EXTENDS JobStore

ReadCommand(p) == NewCommand("run_extraction", "extraction:page", p, p, 1)
ValidateCommand == NewCommand("run_validation", "validation:run", None, None, 1)

\* Visited pages whose extraction status is in S, shallowest first.
Readable(inv, S) ==
    LET found == {p \in Pages : inv[p].status = "VISITED" /\ inv[p].extraction \in S}
    IN {p \in found : \A q \in found : inv[p].depth <= inv[q].depth}

\* The first command of the stage names no page and may take any.
ClaimablePages(c) ==
    Readable([p \in Pages |-> IF c.target \in {None, p} THEN pages[p]
                              ELSE [pages[p] EXCEPT !.status = "absent"]],
             {"none", "PENDING"})

ClaimExtraction(w, c) ==
    /\ Delivered(w, c, "run_extraction")
    /\ \/ /\ Accepts({"EXTRACTING"})
          /\ \E p \in ClaimablePages(c) :
                /\ pages' = [pages EXCEPT ![p].extraction = "EXTRACTING"]
                /\ Begin(w, c, p)
          /\ job' = Leased(job)
          /\ UNCHANGED events
       \/ /\ ~(Accepts({"EXTRACTING"}) /\ ClaimablePages(c) # {})
          /\ AcknowledgeOrIgnore({"EXTRACTING"})
          /\ Discard(c)
          /\ UNCHANGED pages
    /\ UNCHANGED <<outbox, published, records, validation, exports, files, store,
                   clients, faults>>

\* Slip: the next page is looked up among the PENDING ones.
AfterReadingPending(inv) ==
    LET next == Readable(inv, {"PENDING"})
    IN IF next = {} THEN {ValidateCommand} ELSE {ReadCommand(p) : p \in next}

\* Pages still to read afterwards: only those never claimed (NULL status).
AfterReading(inv) ==
    LET next == Readable(inv, {"none"})
    IN IF next = {} THEN {ValidateCommand} ELSE {ReadCommand(p) : p \in next}

\* Slip: the cap bounds each page instead of the whole job.
RecordsPerPage(p) == {S \in SUBSET ({p} \X Items) : Cardinality(S) <= MaxRecords}

\* The records of page p an extraction stores: its result is cut to the room
\* left under the record cap before duplicates are dropped.
ExtractedRecords(p) ==
    {S \in SUBSET ({p} \X Items) :
        Cardinality(S) <= AtLeast(MaxRecords - Cardinality(records), 0)}

CompleteExtraction(w) ==
    LET p == running[w].target
    IN /\ Working(w, "run_extraction")
       /\ IF Accepts({"EXTRACTING"})
          THEN \E found \in ExtractedRecords(p) :
                LET inv == [pages EXCEPT ![p].extraction =
                                IF found \subseteq records THEN "PARTIAL" ELSE "EXTRACTED"]
                IN \E next \in AfterReading(inv) :
                    IF Fresh(next)
                    THEN /\ IF next = ValidateCommand
                            THEN /\ Transition(Released(Advanced(job, 60)), "VALIDATING")
                                 /\ validation' = [validation EXCEPT !.status = "QUEUED"]
                            ELSE /\ job' = Released(job)
                                 /\ UNCHANGED <<events, validation>>
                         /\ pages' = inv
                         /\ records' = records \cup found
                         /\ Insert(next)
                    ELSE UNCHANGED <<jobVars, outbox, pages, records, validation>>
          ELSE /\ AcknowledgeOrIgnore({"EXTRACTING"})
               /\ UNCHANGED <<outbox, pages, records, validation>>
       /\ Finish(w)
       /\ UNCHANGED <<published, exports, files, store, clients, faults>>

\* Only the page the command names is put back (or failed): the first command
\* of the stage names none, and leaves the page it claimed EXTRACTING.
FailExtraction(w) ==
    LET p == running[w].cmd.target
    IN /\ Working(w, "run_extraction")
       /\ \/ /\ Accepts({"EXTRACTING"})
             /\ \E retryable \in FailureOf("run_extraction") :
                   /\ RetryOrFail(w, retryable, ExtractionRetries)
                   /\ pages' = [q \in Pages |->
                                  IF q = p
                                  THEN [pages[q] EXCEPT !.extraction =
                                          IF WillRetry(retryable, ExtractionRetries)
                                          THEN "PENDING" ELSE "FAILED"]
                                  ELSE pages[q]]
          \/ /\ ~Accepts({"EXTRACTING"})
             /\ AcknowledgeOrIgnore({"EXTRACTING"})
             /\ Finish(w)
             /\ UNCHANGED pages
       /\ UNCHANGED <<outbox, published, records, validation, exports, files, store,
                      clients, faults>>

ExtractionStep(w) ==
    \/ \E c \in queue : ClaimExtraction(w, c)
    \/ CompleteExtraction(w) \/ FailExtraction(w)

=============================================================================
