--------------------------- MODULE MCOverlapping ---------------------------
(***************************************************************************)
(* The components in which a request's steps interleave with other         *)
(* requests, side by side.  They share no variable, so a behaviour is one  *)
(* of the component in focus while the others stay as they begin.          *)
(***************************************************************************)
EXTENDS AgentAccess, Pages, PolicyVersions, MCConcurrentRequests, Idempotency

VARIABLE focus

overlappingVars ==
    <<focus, accessVars, pagesVars, versionsVars, concurrentVars, keysVars>>

\* Requests, lists, versions, overlapping payments and keys keep their types; in
\* particular no walk gives a row twice and no error is recorded under a key.
OverlappingTypeOK ==
    AccessTypeOK /\ PagesTypeOK /\ VersionsTypeOK /\ ConcurrentTypeOK /\ KeysTypeOK

\* What requests ask for and a list is queried for varies in focus only.
OverlappingInit ==
    /\ focus \in {"access", "pages", "versions", "payments", "keys"}
    /\ AccessInit /\ (focus # "access" => request = CHOOSE f \in [Requests -> Asks] : TRUE)
    /\ PagesInit /\ (focus # "pages" => walk.query = CHOOSE q \in Queries : TRUE)
    /\ VersionsInit /\ ConcurrentInit /\ KeysInit

OverlappingNext ==
    /\ UNCHANGED focus
    /\ IF focus = "access" THEN AccessNext ELSE UNCHANGED accessVars
    /\ IF focus = "pages" THEN PagesNext ELSE UNCHANGED pagesVars
    /\ IF focus = "versions" THEN VersionsNext ELSE UNCHANGED versionsVars
    /\ IF focus = "payments" THEN ConcurrentNext ELSE UNCHANGED concurrentVars
    /\ IF focus = "keys" THEN KeysNext ELSE UNCHANGED keysVars

OverlappingSpec ==
    OverlappingInit /\ [][OverlappingNext]_overlappingVars /\ AccessFairness

=============================================================================
