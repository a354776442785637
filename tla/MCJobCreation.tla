---------------------------- MODULE MCJobCreation ----------------------------
(***************************************************************************)
(* A small instance of JobCreation: two bodies for one URL and one whose   *)
(* URL is rejected.                                                        *)
(***************************************************************************)
EXTENDS CreationProperties

\* Two bodies and a rejected one under one key, and posts without a key.
SomePosts ==
    ([key : Keys, body : {"first", "second", "rejected"}])
        \cup [key : {None}, body : {"first", "foreign"}]

TwoBodiesOneUrl == [b \in Bodies |-> IF b = "rejected" THEN None ELSE "url"]

=============================================================================
