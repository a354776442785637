------------------------------ MODULE JobDomain ------------------------------
(***************************************************************************)
(* The pure lifecycle rules of domain.py: the statuses of an extraction    *)
(* job and the graph of its legal transitions.                             *)
(***************************************************************************)

Terminal == {"COMPLETED", "FAILED", "CANCELLED"}

\* ACTIVE_STATES: every status but the terminal ones and QUEUED.
Active == {"PLANNING", "BROWSER_INITIALIZING", "DISCOVERING", "EXTRACTING",
           "VALIDATING", "READY_FOR_EXPORT", "EXPORTING"}

JobStatus == {"QUEUED"} \cup Active \cup Terminal

AllowedTransitions ==
    [s \in JobStatus |->
        CASE s = "QUEUED"               -> {"PLANNING", "CANCELLED"}
          [] s = "PLANNING"             -> {"BROWSER_INITIALIZING", "FAILED", "CANCELLED"}
          [] s = "BROWSER_INITIALIZING" -> {"DISCOVERING", "FAILED", "CANCELLED"}
          [] s = "DISCOVERING"          -> {"EXTRACTING", "FAILED", "CANCELLED"}
          [] s = "EXTRACTING"           -> {"VALIDATING", "FAILED", "CANCELLED"}
          [] s = "VALIDATING"           -> {"READY_FOR_EXPORT", "EXPORTING", "COMPLETED",
                                            "FAILED", "CANCELLED"}
          [] s = "READY_FOR_EXPORT"     -> {"EXPORTING", "CANCELLED"}
          [] s = "EXPORTING"            -> {"COMPLETED", "FAILED", "CANCELLED"}
          [] OTHER                      -> {}]

=============================================================================
