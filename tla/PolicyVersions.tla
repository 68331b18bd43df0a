--------------------------- MODULE PolicyVersions ---------------------------
(***************************************************************************)
(* The versions of one agent's policy, written and read by transactions    *)
(* that overlap (services/policies.py, policy_gate.load_active_policy).    *)
(*                                                                         *)
(* A writer computes the next version from the agent's row as it read it;  *)
(* the table has a unique constraint on agent and version.  A reader takes *)
(* the version from the agent's row and fetches the document in a later    *)
(* statement, each on what is committed then.                              *)
(*                                                                         *)
(* Definitions marked "Fault" are wrong on purpose, as in MoneyMovement.   *)
(***************************************************************************)
EXTENDS Naturals, FiniteSets

CONSTANTS
    Writers,  \* requests that replace the policy
    Readers,  \* requests that are ruled on, or read the policy
    NoPolicy  \* no document: everything is denied

ASSUME FinitelyManyWriters == IsFiniteSet(Writers)
ASSUME RolesAreDistinct == Writers \cap Readers = {} /\ NoPolicy \notin Writers

VARIABLES
    inForce,    \* agents.policy_version
    documents,  \* rows of policies: version, document; a document is its writer
    phase,      \* request -> how far it is
    basis,      \* request -> the version it has read in the agent's row
    ruledBy,    \* reader -> the document it has found
    newest      \* history: reader -> documents that were in force since it began

versionsVars == <<inForce, documents, phase, basis, ruledBy, newest>>

Phases == {"ready", "based", "flushed", "finished", "failed"}
Versions == 0..Cardinality(Writers)

VersionsTypeOK ==
    /\ inForce \in Versions
    /\ documents \in SUBSET (Versions \X Writers)
    /\ phase \in [Writers \cup Readers -> Phases]
    /\ basis \in [Writers \cup Readers -> Versions]
    /\ ruledBy \in [Readers -> Writers \cup {NoPolicy}]
    /\ newest \in [Readers -> SUBSET (Writers \cup {NoPolicy})]

VersionsInit ==
    /\ inForce = 0 /\ documents = {}
    /\ phase = [r \in Writers \cup Readers |-> "ready"]
    /\ basis = [r \in Writers \cup Readers |-> 0]
    /\ ruledBy = [r \in Readers |-> NoPolicy]
    /\ newest = [r \in Readers |-> {}]

GoOn(r, ph) == phase' = [phase EXCEPT ![r] = ph]

DocumentOf(v, docs) ==
    IF \E d \in docs : d[1] = v THEN (CHOOSE d \in docs : d[1] = v)[2] ELSE NoPolicy

\* The agent is read before the handler calls the service.
ReadVersion(r) ==
    /\ phase[r] = "ready"
    /\ basis' = [basis EXCEPT ![r] = inForce]
    /\ newest' = IF r \in Readers
                 THEN [newest EXCEPT ![r] = {DocumentOf(inForce, documents)}] ELSE newest
    /\ GoOn(r, "based")
    /\ UNCHANGED <<inForce, documents, ruledBy>>

\* Fault: nothing keeps two rows of a version apart.
AnyVersion(v) == TRUE

\* The unique constraint on (agent_id, version).
Unique(v) == \A d \in documents : d[1] # v

\* Row and index entry stay locked until the end of the transaction: the second
\* writer waits in its flush, and finds the other's version when that commits.
Flush(w) ==
    /\ phase[w] = "based"
    /\ \A o \in Writers : phase[o] # "flushed"
    /\ GoOn(w, IF Unique(basis[w] + 1) THEN "flushed" ELSE "failed")
    /\ UNCHANGED <<inForce, documents, basis, ruledBy, newest>>

CommitPolicy(w) ==
    /\ phase[w] = "flushed"
    /\ inForce' = basis[w] + 1
    /\ documents' = documents \cup {<<basis[w] + 1, w>>}
    /\ newest' = [r \in Readers |->
                    IF phase[r] = "based" THEN newest[r] \cup {w} ELSE newest[r]]
    /\ GoOn(w, "finished")
    /\ UNCHANGED <<basis, ruledBy>>

RollBack(w) ==
    /\ phase[w] = "flushed"
    /\ GoOn(w, "failed")
    /\ UNCHANGED <<inForce, documents, basis, ruledBy, newest>>

LoadPolicy(r) ==
    /\ phase[r] = "based"
    /\ ruledBy' = [ruledBy EXCEPT ![r] = DocumentOf(basis[r], documents)]
    /\ GoOn(r, "finished")
    /\ UNCHANGED <<inForce, documents, basis, newest>>

VersionsNext ==
    \/ \E w \in Writers : ReadVersion(w) \/ Flush(w) \/ CommitPolicy(w) \/ RollBack(w)
    \/ \E r \in Readers : ReadVersion(r) \/ LoadPolicy(r)

VersionsSpec == VersionsInit /\ [][VersionsNext]_versionsVars

----------------------------------------------------------------------------
(***************************************************************************)
(* Properties.                                                             *)
(***************************************************************************)

\* Writers that overlap leave an unbroken history, one document to a version,
\* the last of them in force; a reader is ruled by the one document that carries
\* its version, which was in force at some time since it began.
VersionsAreDistinct ==
    /\ \A v \in 1..inForce : Cardinality({d \in documents : d[1] = v}) = 1
    /\ Cardinality(documents) = inForce
    /\ \A r \in Readers : phase[r] = "finished" =>
          /\ ruledBy[r] \in newest[r]
          /\ ruledBy[r] = DocumentOf(basis[r], documents)

=============================================================================
