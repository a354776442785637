---------------------------- MODULE DiscoveryStage ----------------------------
(***************************************************************************)
(* run_discovery: one inventory page per command is visited, its links     *)
(* enter the inventory within the page cap, and the next page is queued    *)
(* through the outbox until none is left to visit.                         *)
(***************************************************************************)
EXTENDS JobStore

PageCommand(p) == NewCommand("run_discovery", "discovery:page", p, p, 1)
ExtractCommand == NewCommand("run_extraction", "extraction", None, None, 1)

WithStatus(inventory, s) == {p \in Pages : inventory[p].status = s}

\* Rows that count against the page cap.
AcceptedCount(inventory) ==
    Cardinality({p \in Pages : inventory[p].status \notin {"absent", "REJECTED"}})

\* _persist_discovery_candidates: rows for the URLs of S not yet in the
\* inventory; `keep' are the ones the page cap leaves room for.
Persisted(inventory, S, keep, depth, over) ==
    [p \in Pages |->
        IF p \in S /\ inventory[p].status = "absent"
        THEN [status |-> IF p \in keep THEN "DISCOVERED" ELSE over,
              depth |-> depth, extraction |-> "none"]
        ELSE inventory[p]]

\* Slip: the cap bounds each visit instead of the whole inventory.
AdmittedPerVisit(inventory, S) ==
    {K \in SUBSET S : Cardinality(K) = AtMost(Cardinality(S), MaxPages)}

\* The subsets of S the cap lets through.
Admitted(inventory, S) ==
    LET room == AtLeast(MaxPages - AcceptedCount(inventory), 0)
    IN {K \in SUBSET S : Cardinality(K) = AtMost(Cardinality(S), room)}

\* _should_enqueue_sitemap, for a visit that began with inventory `seen'.
ProbesSitemap(seen, p) ==
    /\ SitemapPage # None
    /\ seen[p].depth = 0
    /\ seen[SitemapPage].status = "absent"

-----------------------------------------------------------------------------

DiscoverablePages(c) ==
    Foremost({p \in WithStatus(pages, "DISCOVERED") : c.target \in {None, p}}, pages)

ClaimDiscovery(w, c) ==
    /\ Delivered(w, c, "run_discovery")
    /\ \/ /\ Accepts({"DISCOVERING"})
          /\ \E p \in DiscoverablePages(c) :
                /\ pages' = [pages EXCEPT ![p].status = "QUEUED"]
                /\ Begin(w, c, p)
          /\ job' = Leased(job)
          /\ UNCHANGED events
       \/ /\ ~(Accepts({"DISCOVERING"}) /\ DiscoverablePages(c) # {})
          /\ AcknowledgeOrIgnore({"DISCOVERING"})
          /\ Discard(c)
          /\ UNCHANGED pages
    /\ UNCHANGED <<outbox, published, records, validation, exports, files, store,
                   clients, faults>>

\* What visiting p may leave in the inventory: links in scope are admitted up
\* to the cap, links out of scope are REJECTED (those of a sitemap even below
\* the depth limit), and the source page also probes the sitemap.
VisitOutcomes(p) ==
    LET visited == [pages EXCEPT ![p].status = "VISITED"]
        depth   == pages[p].depth + 1
        absent  == WithStatus(pages, "absent")
        inDepth == IF depth <= MaxDepth THEN absent ELSE {}
        refused == IF p = SitemapPage THEN absent ELSE inDepth
        linked  == UNION {{Persisted(visited, S, K, depth, "SKIPPED") : K \in Admitted(visited, S)}
                            : S \in SUBSET inDepth}
        scoped  == {Persisted(inv, R, {}, depth, "REJECTED") : inv \in linked, R \in SUBSET refused}
        probed(inv) == {Persisted(inv, {SitemapPage}, K, 1, "SKIPPED")
                            : K \in Admitted(inv, {SitemapPage})}
    IN IF ProbesSitemap(pages, p) THEN UNION {probed(inv) : inv \in scoped} ELSE scoped

\* The command that follows a visit: the next page of the inventory, or
\* extraction once no page is left to visit.
FollowUps(inv) ==
    LET next == Foremost(WithStatus(inv, "DISCOVERED"), inv)
    IN IF next = {} THEN {ExtractCommand} ELSE {PageCommand(p) : p \in next}

\* The page of the operation is VISITED whatever its status and whoever holds
\* the lease; a follow-up key that exists already rolls everything back.
CompleteDiscovery(w) ==
    /\ Working(w, "run_discovery")
    /\ IF Accepts({"DISCOVERING"})
       THEN \E inv \in VisitOutcomes(running[w].target) : \E next \in FollowUps(inv) :
                IF Fresh(next)
                THEN /\ IF next = ExtractCommand
                        THEN Transition(Released(Advanced(job, 40)), "EXTRACTING")
                        ELSE job' = Released(job) /\ UNCHANGED events
                     /\ pages' = inv
                     /\ Insert(next)
                ELSE UNCHANGED <<jobVars, outbox, pages>>
       ELSE AcknowledgeOrIgnore({"DISCOVERING"}) /\ UNCHANGED <<outbox, pages>>
    /\ Finish(w)
    /\ UNCHANGED <<published, records, validation, exports, files, store, clients, faults>>

\* The page named by the command goes back to DISCOVERED when retried.
FailDiscovery(w) ==
    /\ Working(w, "run_discovery")
    /\ \/ /\ Accepts({"DISCOVERING"})
          /\ \E retryable \in FailureOf("run_discovery") :
                /\ RetryOrFail(w, retryable, PlannerRetries)
                /\ pages' = [pages EXCEPT ![running[w].cmd.target].status =
                                IF WillRetry(retryable, PlannerRetries)
                                THEN "DISCOVERED" ELSE "FAILED"]
       \/ /\ ~Accepts({"DISCOVERING"})
          /\ AcknowledgeOrIgnore({"DISCOVERING"})
          /\ Finish(w)
          /\ UNCHANGED pages
    /\ UNCHANGED <<outbox, published, records, validation, exports, files, store,
                   clients, faults>>

DiscoveryStep(w) ==
    \/ \E c \in queue : ClaimDiscovery(w, c)
    \/ CompleteDiscovery(w) \/ FailDiscovery(w)

=============================================================================
