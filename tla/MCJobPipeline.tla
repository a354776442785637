---------------------------- MODULE MCJobPipeline ----------------------------
(***************************************************************************)
(* Small instances of JobPipeline for TLC: the faults each configuration   *)
(* injects (a .cfg cannot write a tuple), everything else is in the .cfg.  *)
(***************************************************************************)
EXTENDS JobProperties

\* The source page is discovered first and the sitemap last.
PageOrder ==
    CHOOSE r \in [Pages -> 1..Cardinality(Pages)] :
        /\ \A p, q \in Pages : r[p] = r[q] => p = q
        /\ r[SourcePage] = 1
        /\ SitemapPage \in Pages => r[SitemapPage] = Cardinality(Pages)

NoFaults == {}

\* A second copy of an export command that has been executed.
DuplicateExport == {<<"redeliver", "run_export">>}

\* Interrupted operations the job survives for certain: every one whose message
\* is redelivered, and the dropped ones recovery has a phase for.  An interrupted
\* planning is not one (its redelivered message is turned away while the lease
\* lives), nor is an interrupted extraction.
SurvivableInterruptions ==
    ({"crash"} \X (CommandType \ {"run_planning", "run_extraction"}))
        \cup ({"abandon"} \X {"run_discovery", "run_export"})

\* Every failure of the transport and of the processes.
AnyFault == ({"crash", "abandon", "redeliver", "lose"} \X CommandType)
                \cup {<<"late", "run_export">>}

\* A worker stopped while planning, a capture dropped by arq (job_timeout, or a
\* transient browser error).
InterruptedStart == {<<"crash", "run_planning">>, <<"abandon", "run_browser_capture">>}

=============================================================================
