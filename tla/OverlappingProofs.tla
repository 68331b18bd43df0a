------------------------- MODULE OverlappingProofs -------------------------
(***************************************************************************)
(* The components whose steps interleave, proved: what revocation,         *)
(* suspension and denial guarantee for every number of requests and        *)
(* credentials and every size of the pool; that policy versions stay in    *)
(* order for every number of writers and readers; that walks through lists *)
(* are complete for every number of rows and every page size.              *)
(***************************************************************************)
EXTENDS MCOverlapping, ConcurrentRequestsProofs, IdempotencyProofs, WellFoundedInduction

----------------------------------------------------------------------------
(***************************************************************************)
(* Access.                                                                 *)
(***************************************************************************)

\* A request that has come in uses a credential that was issued.
TokensAreIssued ==
    \A r \in Requests : stage[r] # "outside" => credential[request[r].credential].status # "unissued"

\* An answer is final, and an effect is told as one.
AnswersAreFinal ==
    \A r \in Requests :
       /\ r \in effects => stage[r] = "ended" /\ outcome[r] = "ok"
       /\ outcome[r] # "none" => stage[r] = "ended"
       /\ outcome[r] = "denied" => r \in denials

\* A request that is too late is stopped where its credential is read.
LateOnesAreStopped ==
    \A r \in doomed :
       /\ r \notin effects
       /\ stage[r] \in {"arrived", "ended"}
       /\ stage[r] = "arrived" => ~Usable(request[r].credential)

\* A request the suspension came in time for either still has to look at the
\* agent, or has seen it suspended and is ruled on, or has ended.
FrozenOnesAreStopped ==
    \A r \in frozen :
       /\ r \notin effects
       /\ \/ Unseen(r) /\ standing = "suspended"
          \/ stage[r] \in {"begun", "denying"} /\ request[r].ruled /\ saw[r] = "suspended"
          \/ stage[r] = "ended"

AccessInv ==
    /\ AccessTypeOK /\ TokensAreIssued /\ AnswersAreFinal
    /\ LateOnesAreStopped /\ FrozenOnesAreStopped

LEMMA AccessInvInit == AccessInit => AccessInv
  BY PoolIsNotEmpty DEF AccessInit, AccessInv, AccessTypeOK, TokensAreIssued, AnswersAreFinal,
     LateOnesAreStopped, FrozenOnesAreStopped, Stages, Outcomes, Asks

\* One request goes on; the others stay what they are.
LEMMA RequestKeepsType ==
    ASSUME NEW r \in Requests, AccessTypeOK, Arrive(r) \/ RequestStep(r)
    PROVE  AccessTypeOK'
  <1> USE DEF AccessTypeOK, Stages, Outcomes, Goto, Answer, ownerVars
  <1>1. CASE Arrive(r)
    BY <1>1 DEF Arrive
  <1>2. CASE ReadCredential(r)
    BY <1>2 DEF ReadCredential
  <1>3. CASE ReadAgent(r)
    BY <1>3 DEF ReadAgent, Touch
  <1>4. CASE BeginHandler(r)
    BY <1>4 DEF BeginHandler
  <1>5. CASE Deny(r)
    BY <1>5 DEF Deny
  <1>6. CASE Commit(r)
    BY <1>6 DEF Commit
  <1>7. CASE RecordDenial(r)
    BY <1>7 DEF RecordDenial
  <1>8. CASE TimeOut(r)
    BY <1>8 DEF TimeOut
  <1> QED
    BY <1>1, <1>2, <1>3, <1>4, <1>5, <1>6, <1>7, <1>8 DEF RequestStep

LEMMA RequestKeepsRest ==
    ASSUME NEW r \in Requests, AccessInv, Arrive(r) \/ RequestStep(r)
    PROVE  TokensAreIssued' /\ AnswersAreFinal' /\ LateOnesAreStopped' /\ FrozenOnesAreStopped'
  <1> USE DEF AccessInv, AccessTypeOK, Stages, Outcomes, Goto, Answer, ownerVars, Asks,
              TokensAreIssued, AnswersAreFinal, LateOnesAreStopped, FrozenOnesAreStopped,
              Unseen, Usable
  <1>1. CASE Arrive(r)
    BY <1>1 DEF Arrive
  <1>2. CASE ReadCredential(r)
    BY <1>2 DEF ReadCredential
  <1>3. CASE ReadAgent(r)
    <2>1. /\ stage[r] = "known" /\ r \notin doomed
          /\ \/ standing = "active" /\ stage' = [stage EXCEPT ![r] = "resolved"]
                /\ UNCHANGED outcome
             \/ /\ stage' = [stage EXCEPT ![r] = "ended"]
                /\ outcome' = [outcome EXCEPT ![r] = "unauthorized"]
          /\ saw' = [saw EXCEPT ![r] = standing]
          /\ UNCHANGED <<standing, credential, expired, request, denials, effects, doomed, frozen>>
      BY <1>3 DEF ReadAgent, Touch
    <2> HIDE DEF Usable
    <2>2. TokensAreIssued' /\ AnswersAreFinal'
      BY <2>1
    <2>3. LateOnesAreStopped'
      BY <2>1 DEF Usable
    <2>4. FrozenOnesAreStopped'
      BY <2>1
    <2> QED
      BY <2>2, <2>3, <2>4
  <1>4. CASE BeginHandler(r)
    BY <1>4 DEF BeginHandler
  <1>5. CASE Deny(r)
    BY <1>5 DEF Deny
  <1>6. CASE Commit(r)
    BY <1>6 DEF Commit
  <1>7. CASE RecordDenial(r)
    BY <1>7 DEF RecordDenial
  <1>8. CASE TimeOut(r)
    BY <1>8 DEF TimeOut
  <1> QED
    BY <1>1, <1>2, <1>3, <1>4, <1>5, <1>6, <1>7, <1>8 DEF RequestStep

\* The owner and the clock.
LEMMA OwnerKeeps ==
    ASSUME AccessInv, NEW c \in Credentials,
           \/ \E kind \in {"api", "mcp"} : Issue(c, kind)
           \/ Revoke(c)
           \/ ExpireCredential(c)
    PROVE  AccessInv'
  <1> USE DEF AccessInv, AccessTypeOK, Asks,
              TokensAreIssued, AnswersAreFinal, LateOnesAreStopped, FrozenOnesAreStopped,
              Unseen, Usable, Doom
  <1>1. ASSUME NEW kind \in {"api", "mcp"}, Issue(c, kind)
        PROVE  AccessInv'
    BY <1>1 DEF Issue
  <1>2. CASE Revoke(c)
    BY <1>2 DEF Revoke
  <1>3. CASE ExpireCredential(c)
    BY <1>3 DEF ExpireCredential
  <1> QED
    BY <1>1, <1>2, <1>3

LEMMA StandingKeeps ==
    ASSUME AccessInv, NEW s \in {"active", "suspended"}, SetStanding(s)
    PROVE  AccessInv'
  BY DEF SetStanding, AccessInv, AccessTypeOK, TokensAreIssued, AnswersAreFinal,
         LateOnesAreStopped, FrozenOnesAreStopped, Unseen, Usable, Stages

LEMMA PoolKeeps ==
    ASSUME AccessInv, NEW n \in 0 .. PoolSize, UsePool(n)
    PROVE  AccessInv'
  BY DEF UsePool, ownerVars, AccessInv, AccessTypeOK, TokensAreIssued, AnswersAreFinal,
         LateOnesAreStopped, FrozenOnesAreStopped, Unseen, Usable

LEMMA AccessInvStep == AccessInv /\ [AccessNext]_accessVars => AccessInv'
  <1> SUFFICES ASSUME AccessInv, [AccessNext]_accessVars PROVE AccessInv'
    OBVIOUS
  <1>1. ASSUME NEW r \in Requests, Arrive(r) \/ RequestStep(r) PROVE AccessInv'
    BY <1>1, RequestKeepsType, RequestKeepsRest DEF AccessInv
  <1>2. CASE UNCHANGED accessVars
    BY <1>2 DEF accessVars, ownerVars, AccessInv, AccessTypeOK, TokensAreIssued, AnswersAreFinal,
       LateOnesAreStopped, FrozenOnesAreStopped, Unseen, Usable
  <1> QED
    BY <1>1, <1>2, OwnerKeeps, StandingKeeps, PoolKeeps DEF AccessNext

LEMMA AccessInvariant == AccessSpec => []AccessInv
  BY AccessInvInit, AccessInvStep, PTL DEF AccessSpec

\* A request whose credential is revoked, or expires, before it is read has no
\* effect, however many requests share credential and pool.
THEOREM RevokedIsStopped == AccessSpec => []RevocationStops
  <1>1. AccessInv => RevocationStops
    BY DEF AccessInv, LateOnesAreStopped, RevocationStops
  <1> QED
    BY <1>1, AccessInvariant, PTL

\* A request whose agent is suspended before it is last looked at has no effect.
THEOREM SuspendedIsStopped == AccessSpec => []SuspensionStops
  <1>1. AccessInv => SuspensionStops
    BY DEF AccessInv, FrozenOnesAreStopped, SuspensionStops
  <1> QED
    BY <1>1, AccessInvariant, PTL

\* Whoever is told of a denial finds it on record, and nothing done.
THEOREM DeniedIsRecorded == AccessSpec => []DenialsAreRecorded
  <1>1. AccessInv => DenialsAreRecorded
    BY DEF AccessInv, AnswersAreFinal, DenialsAreRecorded
  <1> QED
    BY <1>1, AccessInvariant, PTL

----------------------------------------------------------------------------
(***************************************************************************)
(* Policy versions.  The unique constraint makes the versions of the table *)
(* exactly 1 .. inForce: a writer that is flushed has read the version in  *)
(* force, and no other writer can be flushed next to it.                   *)
(***************************************************************************)

\* One row to a version, and one version to a writer, who has finished.
RowsAreDistinct ==
    /\ IsFiniteSet(documents) /\ Cardinality(documents) = inForce
    /\ \A d \in documents : d[1] \in 1..inForce /\ phase[d[2]] = "finished"
    /\ \A v \in 1..inForce : \E d \in documents : d[1] = v
    /\ \A d, e \in documents : d[1] = e[1] \/ d[2] = e[2] => d = e

\* Nobody has read a version that is not in force yet; the one writer that has
\* its row in the index has read the newest.
BasesAreOld ==
    /\ \A r \in Writers \cup Readers : basis[r] <= inForce
    /\ \A w \in Writers : phase[w] = "flushed" => basis[w] = inForce
    /\ \A w, o \in Writers : phase[w] = "flushed" /\ phase[o] = "flushed" => w = o

\* What a reader is about to find was in force since it began.
RulingsAreCurrent ==
    \A r \in Readers :
       /\ phase[r] = "based" => DocumentOf(basis[r], documents) \in newest[r]
       /\ phase[r] = "finished" => /\ ruledBy[r] \in newest[r]
                                   /\ ruledBy[r] = DocumentOf(basis[r], documents)

VersionsInv == VersionsTypeOK /\ RowsAreDistinct /\ BasesAreOld /\ RulingsAreCurrent

LEMMA VersionsAreNumbers ==
    /\ Cardinality(Writers) \in Nat
    /\ Versions \subseteq Nat
    /\ 0 \in Versions
  BY FinitelyManyWriters, FS_CardinalityType DEF Versions

LEMMA DocumentExists ==
    ASSUME NEW docs, NEW d \in docs, \A e \in docs : e[1] = d[1] => e = d
    PROVE  DocumentOf(d[1], docs) = d[2]
  <1>1. (CHOOSE e \in docs : e[1] = d[1]) = d
    OBVIOUS
  <1> QED
    BY <1>1 DEF DocumentOf

\* The document of a version that is there, or was asked for in vain, stays.
LEMMA DocumentStays ==
    ASSUME VersionsTypeOK, RowsAreDistinct, NEW v \in Versions, v <= inForce,
           NEW w
    PROVE  DocumentOf(v, documents \cup {<<inForce + 1, w>>}) = DocumentOf(v, documents)
  <1> DEFINE docs == documents \cup {<<inForce + 1, w>>}
  <1>1. inForce \in Nat /\ v \in Nat /\ v # inForce + 1
    BY VersionsAreNumbers DEF VersionsTypeOK
  <1>2. CASE \E d \in documents : d[1] = v
    <2>1. PICK d \in documents : d[1] = v
      BY <1>2
    <2>2. /\ \A e \in documents : e[1] = d[1] => e = d
          /\ \A e \in docs : e[1] = d[1] => e = d
      BY <1>1, <2>1 DEF RowsAreDistinct
    <2> QED
      BY <2>1, <2>2, DocumentExists
  <1>3. CASE ~\E d \in documents : d[1] = v
    BY <1>1, <1>3 DEF DocumentOf
  <1> QED
    BY <1>2, <1>3

LEMMA DocumentIsOne ==
    ASSUME VersionsTypeOK, NEW v
    PROVE  DocumentOf(v, documents) \in Writers \cup {NoPolicy}
  <1>1. CASE \E d \in documents : d[1] = v
    <2>1. (CHOOSE d \in documents : d[1] = v) \in documents
      BY <1>1
    <2> QED
      BY <1>1, <2>1 DEF DocumentOf, VersionsTypeOK
  <1>2. CASE ~\E d \in documents : d[1] = v
    BY <1>2 DEF DocumentOf
  <1> QED
    BY <1>1, <1>2

LEMMA VersionsInvInit == VersionsInit => VersionsInv
  <1> SUFFICES ASSUME VersionsInit PROVE VersionsInv
    OBVIOUS
  <1>1. IsFiniteSet(documents) /\ Cardinality(documents) = 0
    BY FS_EmptySet DEF VersionsInit
  <1> QED
    BY <1>1, VersionsAreNumbers
    DEF VersionsInit, VersionsInv, VersionsTypeOK, RowsAreDistinct, BasesAreOld,
        RulingsAreCurrent, Phases

LEMMA ReadKeeps ==
    ASSUME VersionsInv, NEW r \in Writers \cup Readers, ReadVersion(r)
    PROVE  VersionsInv'
  <1>1. DocumentOf(inForce, documents) \in Writers \cup {NoPolicy}
    BY DocumentIsOne DEF VersionsInv
  <1>2. inForce \in Nat
    BY VersionsAreNumbers DEF VersionsInv, VersionsTypeOK
  <1> USE DEF VersionsInv, ReadVersion, GoOn
  <1>3. VersionsTypeOK'
    BY <1>1 DEF VersionsTypeOK, Phases
  <1>4. RowsAreDistinct'
    BY DEF VersionsTypeOK, RowsAreDistinct
  <1>5. BasesAreOld'
    BY <1>2 DEF VersionsTypeOK, BasesAreOld
  <1>6. RulingsAreCurrent'
    BY RolesAreDistinct DEF VersionsTypeOK, RulingsAreCurrent
  <1> QED
    BY <1>3, <1>4, <1>5, <1>6

LEMMA FlushKeeps ==
    ASSUME VersionsInv, NEW w \in Writers, Flush(w)
    PROVE  VersionsInv'
  <1>1. Unique(basis[w] + 1) => basis[w] = inForce
    <2>1. basis[w] \in Nat /\ inForce \in Nat /\ basis[w] <= inForce
      BY VersionsAreNumbers DEF VersionsInv, VersionsTypeOK, BasesAreOld
    <2>2. ASSUME basis[w] # inForce PROVE \E d \in documents : d[1] = basis[w] + 1
      BY <2>1, <2>2 DEF VersionsInv, RowsAreDistinct
    <2> QED
      BY <2>2 DEF Unique
  <1> USE RolesAreDistinct DEF VersionsInv, Flush, GoOn
  <1>2. VersionsTypeOK'
    BY DEF VersionsTypeOK, Phases
  <1>3. RowsAreDistinct'
    BY DEF VersionsTypeOK, RowsAreDistinct
  <1>4. BasesAreOld'
    BY <1>1 DEF VersionsTypeOK, BasesAreOld
  <1>5. RulingsAreCurrent'
    BY DEF VersionsTypeOK, RulingsAreCurrent
  <1> QED
    BY <1>2, <1>3, <1>4, <1>5

\* The writer's own row does not exist yet, so there is a version left for it.
LEMMA RoomForOneMore ==
    ASSUME VersionsInv, NEW w \in Writers, phase[w] = "flushed"
    PROVE  inForce + 1 \in Versions
  <1> DEFINE f == [d \in documents |-> d[2]]
  <1>1. f \in Injection(documents, Writers \ {w})
    <2>1. \A d \in documents : d[2] \in Writers \ {w}
      BY DEF VersionsInv, VersionsTypeOK, RowsAreDistinct
    <2>2. f \in [documents -> Writers \ {w}]
      BY <2>1
    <2>3. \A d, e \in documents : f[d] = f[e] => d = e
      BY DEF VersionsInv, RowsAreDistinct
    <2> QED
      BY <2>2, <2>3 DEF Injection, IsInjective
  <1>2. IsFiniteSet(Writers \ {w}) /\ Cardinality(Writers \ {w}) = Cardinality(Writers) - 1
    BY FinitelyManyWriters, FS_RemoveElement
  <1>3. Cardinality(documents) <= Cardinality(Writers) - 1
    BY <1>1, <1>2, FS_Injection
  <1> QED
    BY <1>3, VersionsAreNumbers DEF VersionsInv, VersionsTypeOK, RowsAreDistinct, Versions

LEMMA CommitKeeps ==
    ASSUME VersionsInv, NEW w \in Writers, CommitPolicy(w)
    PROVE  VersionsInv'
  <1> DEFINE new == <<inForce + 1, w>>
  <1>0. phase[w] = "flushed" /\ basis[w] = inForce /\ inForce \in Nat
    BY VersionsAreNumbers DEF VersionsInv, VersionsTypeOK, BasesAreOld, CommitPolicy
  <1>1. inForce' = inForce + 1 /\ documents' = documents \cup {new}
    BY <1>0 DEF CommitPolicy
  <1>2. /\ new[1] = inForce + 1 /\ new[2] = w
        /\ \A d \in documents : d[1] # new[1] /\ d[2] # w
    BY <1>0 DEF VersionsInv, VersionsTypeOK, RowsAreDistinct
  <1> HIDE DEF new
  <1>3. /\ phase' = [phase EXCEPT ![w] = "finished"] /\ UNCHANGED <<basis, ruledBy>>
        /\ newest' = [r \in Readers |->
                        IF phase[r] = "based" THEN newest[r] \cup {w} ELSE newest[r]]
    BY DEF CommitPolicy, GoOn
  <1>4. inForce + 1 \in Versions
    BY <1>0, RoomForOneMore
  <1>5. VersionsTypeOK'
    <2>1. documents' \in SUBSET (Versions \X Writers)
      BY <1>1, <1>4 DEF VersionsInv, VersionsTypeOK, new
    <2> QED
      BY <1>1, <1>3, <1>4, <2>1 DEF VersionsInv, VersionsTypeOK, Phases
  <1>6. RowsAreDistinct'
    <2>1. IsFiniteSet(documents') /\ Cardinality(documents') = inForce'
      BY <1>0, <1>1, <1>2, FS_AddElement DEF VersionsInv, RowsAreDistinct
    <2>2. \A d \in documents' : d[1] \in 1..inForce' /\ phase'[d[2]] = "finished"
      BY <1>0, <1>1, <1>2, <1>3 DEF VersionsInv, VersionsTypeOK, RowsAreDistinct
    <2>3. \A v \in 1..inForce' : \E d \in documents' : d[1] = v
      BY <1>0, <1>1, <1>2 DEF VersionsInv, RowsAreDistinct
    <2>4. \A d, e \in documents' : d[1] = e[1] \/ d[2] = e[2] => d = e
      BY <1>1, <1>2 DEF VersionsInv, RowsAreDistinct
    <2> QED
      BY <2>1, <2>2, <2>3, <2>4 DEF RowsAreDistinct
  <1>7. BasesAreOld'
    <2>1. \A r \in Writers \cup Readers : basis[r] \in Nat /\ basis[r] <= inForce
      BY VersionsAreNumbers DEF VersionsInv, VersionsTypeOK, BasesAreOld
    <2>2. \A o \in Writers : phase'[o] # "flushed"
      BY <1>0, <1>3 DEF VersionsInv, VersionsTypeOK, BasesAreOld
    <2> QED
      BY <1>0, <1>1, <1>3, <2>1, <2>2 DEF BasesAreOld
  <1>8. RulingsAreCurrent'
    <2>1. ASSUME NEW r \in Readers
          PROVE  DocumentOf(basis'[r], documents') = DocumentOf(basis[r], documents)
      <3>1. basis[r] \in Versions /\ basis[r] <= inForce
        BY DEF VersionsInv, VersionsTypeOK, BasesAreOld
      <3> QED
        BY <1>1, <1>3, <3>1, DocumentStays DEF VersionsInv, new
    <2>2. \A r \in Readers : phase'[r] = phase[r]
      BY <1>3, RolesAreDistinct DEF VersionsInv, VersionsTypeOK
    <2> QED
      BY <1>3, <2>1, <2>2 DEF VersionsInv, RulingsAreCurrent
  <1> QED
    BY <1>5, <1>6, <1>7, <1>8 DEF VersionsInv

LEMMA VersionsInvStep == VersionsInv /\ [VersionsNext]_versionsVars => VersionsInv'
  <1> SUFFICES ASSUME VersionsInv, [VersionsNext]_versionsVars PROVE VersionsInv'
    OBVIOUS
  <1>1. ASSUME NEW w \in Writers, RollBack(w) PROVE VersionsInv'
    BY <1>1, RolesAreDistinct
    DEF RollBack, GoOn, VersionsInv, VersionsTypeOK, RowsAreDistinct, BasesAreOld,
        RulingsAreCurrent, Phases
  <1>2. ASSUME NEW r \in Readers, LoadPolicy(r) PROVE VersionsInv'
    <2>1. DocumentOf(basis[r], documents) \in Writers \cup {NoPolicy}
      BY DocumentIsOne DEF VersionsInv
    <2>2. VersionsTypeOK'
      BY <1>2, <2>1 DEF LoadPolicy, GoOn, VersionsInv, VersionsTypeOK, Phases
    <2>3. RowsAreDistinct' /\ BasesAreOld'
      BY <1>2, RolesAreDistinct
      DEF LoadPolicy, GoOn, VersionsInv, VersionsTypeOK, RowsAreDistinct, BasesAreOld
    <2>4. RulingsAreCurrent'
      BY <1>2 DEF LoadPolicy, GoOn, VersionsInv, VersionsTypeOK, RulingsAreCurrent
    <2> QED
      BY <2>2, <2>3, <2>4 DEF VersionsInv
  <1>3. CASE UNCHANGED versionsVars
    BY <1>3 DEF versionsVars, VersionsInv, VersionsTypeOK, RowsAreDistinct, BasesAreOld,
       RulingsAreCurrent
  <1> QED
    BY <1>1, <1>2, <1>3, ReadKeeps, FlushKeeps, CommitKeeps DEF VersionsNext

LEMMA VersionsInvariant == VersionsSpec => []VersionsInv
  BY VersionsInvInit, VersionsInvStep, PTL DEF VersionsSpec

\* Overlapping writers leave one document to a version, the last in force, and
\* a reader is ruled by a document that was in force while it ran.
THEOREM HistoryIsUnbroken == VersionsSpec => []VersionsAreDistinct
  <1>1. ASSUME VersionsInv, NEW v \in 1..inForce
        PROVE  Cardinality({d \in documents : d[1] = v}) = 1
    <2>1. PICK d \in documents : d[1] = v
      BY <1>1 DEF VersionsInv, RowsAreDistinct
    <2>2. {e \in documents : e[1] = v} = {d}
      BY <1>1, <2>1 DEF VersionsInv, RowsAreDistinct
    <2> QED
      BY <2>2, FS_Singleton
  <1>2. VersionsInv => VersionsAreDistinct
    BY <1>1 DEF VersionsInv, RowsAreDistinct, RulingsAreCurrent, VersionsAreDistinct
  <1> QED
    BY <1>2, VersionsInvariant, PTL

----------------------------------------------------------------------------
(***************************************************************************)
(* Pages.  What Newest(n, S) is: a top part of S, all of it if S has no    *)
(* more than n members.                                                    *)
(***************************************************************************)
LEMMA SomethingIsLeast ==
    ASSUME NEW S \in SUBSET Nat, S # {}
    PROVE  \E i \in S : \A j \in S : i <= j
  <1> DEFINE R == {p \in Nat \X Nat : p[1] < p[2]}
  <1>1. IsWellFoundedOn(R, Nat)
    BY NatLessThanWellFounded DEF OpToRel
  <1> HIDE DEF R
  <1>2. PICK i \in S : \A j \in S : ~(<<j, i>> \in R)
    BY <1>1, WFMin
  <1>3. \A j \in S : ~(j < i)
    BY <1>2 DEF R
  <1> QED
    BY <1>3

LEMMA SomethingIsGreatest ==
    ASSUME NEW S \in SUBSET RowIds, S # {}
    PROVE  \E i \in S : \A j \in S : j <= i
  <1> DEFINE T == {MaxId - i : i \in S}
  <1>1. S \in SUBSET Nat /\ \A i \in S : MaxId - i \in Nat
    BY PagesHoldRows DEF RowIds
  <1>2. T \in SUBSET Nat /\ T # {}
    BY <1>1
  <1>3. PICK t \in T : \A u \in T : t <= u
    BY <1>2, SomethingIsLeast
  <1>4. PICK i \in S : t = MaxId - i
    BY <1>3
  <1> QED
    BY <1>1, <1>3, <1>4, PagesHoldRows

LEMMA LastIsLeast ==
    ASSUME NEW S \in SUBSET RowIds, S # {}
    PROVE  LastOf(S) \in S /\ \A j \in S : LastOf(S) <= j
  <1>1. \E i \in S : \A j \in S : i <= j
    BY SomethingIsLeast, PagesHoldRows DEF RowIds
  <1> QED
    BY <1>1 DEF LastOf

LEMMA RowsAreFinite ==
    ASSUME NEW S \in SUBSET RowIds
    PROVE  IsFiniteSet(S) /\ Cardinality(S) \in Nat
  <1>1. IsFiniteSet(RowIds)
    BY PagesHoldRows, FS_Interval DEF RowIds
  <1> QED
    BY <1>1, FS_Subset, FS_CardinalityType

\* A page ends somewhere: whatever is above one of its rows is on it too.
LEMMA NewestIsTop ==
    ASSUME NEW S \in SUBSET RowIds, NEW n \in Nat, NEW k \in Newest(n, S), NEW i \in S, i >= k
    PROVE  i \in Newest(n, S)
  <1> DEFINE A == {j \in S : j > i}
             B == {j \in S : j > k}
  <1>a. k \in S /\ \A j \in S : j \in Nat
    BY PagesHoldRows DEF RowIds, Newest
  <1>b. \A j \in S : j > i => j > k
    BY <1>a
  <1>1. A \in SUBSET B /\ A \in SUBSET RowIds /\ B \in SUBSET RowIds
    BY <1>b
  <1>3. Cardinality(B) < n
    BY DEF Newest
  <1> HIDE DEF A, B
  <1>2. Cardinality(A) <= Cardinality(B) /\ Cardinality(A) \in Nat /\ Cardinality(B) \in Nat
    BY <1>1, RowsAreFinite, FS_Subset
  <1>4. Cardinality(A) < n
    BY <1>2, <1>3
  <1> QED
    BY <1>4 DEF Newest, A

\* A page is full before anything is left out.
LEMMA NewestIsAll ==
    ASSUME NEW S \in SUBSET RowIds, NEW n \in Nat, Cardinality(Newest(n, S)) < n
    PROVE  Newest(n, S) = S
  <1> SUFFICES ASSUME S \ Newest(n, S) # {} PROVE FALSE
    BY DEF Newest
  <1>1. PICK i \in S \ Newest(n, S) : \A j \in S \ Newest(n, S) : j <= i
    BY SomethingIsGreatest
  <1> DEFINE A == {j \in S : j > i}
  <1>b. \A j \in S : j \in Nat
    BY PagesHoldRows DEF RowIds
  <1>c. \A j \in S : j > i => j \in Newest(n, S)
    BY <1>1, <1>b
  <1>2. A \in SUBSET Newest(n, S) /\ A \in SUBSET RowIds
    BY <1>c
  <1>a. Newest(n, S) \in SUBSET RowIds
    BY DEF Newest
  <1>4. ~(Cardinality(A) < n)
    BY <1>1 DEF Newest
  <1> HIDE DEF A
  <1>3. /\ Cardinality(A) <= Cardinality(Newest(n, S))
        /\ Cardinality(A) \in Nat /\ Cardinality(Newest(n, S)) \in Nat
    BY <1>2, <1>a, RowsAreFinite, FS_Subset
  <1> QED
    BY <1>3, <1>4

LEMMA NewestOfFew ==
    ASSUME NEW S \in SUBSET RowIds, NEW n \in Nat, Cardinality(S) <= n
    PROVE  Newest(n, S) = S
  <1>1. ASSUME NEW i \in S PROVE Cardinality({j \in S : j > i}) < n
    <2> DEFINE A == {j \in S : j > i}
    <2>1. A \subseteq S \ {i} /\ S \ {i} \in SUBSET RowIds
      BY PagesHoldRows DEF RowIds
    <2>2. Cardinality(S \ {i}) = Cardinality(S) - 1 /\ Cardinality(S) \in Nat
      BY RowsAreFinite, FS_RemoveElement
    <2>3. Cardinality(A) <= Cardinality(S \ {i}) /\ Cardinality(A) \in Nat
      BY <2>1, RowsAreFinite, FS_Subset
    <2> HIDE DEF A
    <2>4. Cardinality(A) < n
      BY <2>2, <2>3
    <2> QED
      BY <2>4 DEF A
  <1> QED
    BY <1>1 DEF Newest

\* The page that is cut from one row more than it holds.
LEMMA PageOf ==
    ASSUME NEW S \in SUBSET RowIds, NEW limit \in Nat \ {0},
           NEW rows, rows = Newest(limit + 1, S),
           NEW page, page = Newest(limit, rows)
    PROVE  /\ page \subseteq S
           /\ Cardinality(rows) <= limit => page = S
           /\ Cardinality(rows) > limit =>
                 /\ LastOf(page) \in page
                 /\ \A i \in page : LastOf(page) <= i
                 /\ \A i \in S : i >= LastOf(page) => i \in page
  <1>1. page \subseteq rows /\ rows \subseteq S
    BY DEF Newest
  <1>2. rows \in SUBSET RowIds /\ page \in SUBSET RowIds /\ Cardinality(rows) \in Nat
    BY <1>1, RowsAreFinite
  <1>3. ASSUME Cardinality(rows) <= limit PROVE page = S
    <2>1. rows = S
      BY <1>2, <1>3, NewestIsAll
    <2> QED
      BY <1>2, <1>3, <2>1, NewestOfFew
  <1>4. ASSUME Cardinality(rows) > limit
        PROVE  /\ LastOf(page) \in page
               /\ \A i \in page : LastOf(page) <= i
               /\ \A i \in S : i >= LastOf(page) => i \in page
    <2>1. page # {}
      <3>1. ASSUME page = {} PROVE FALSE
        <4>1. Cardinality(Newest(limit, rows)) < limit
          BY <3>1, FS_EmptySet
        <4>2. Newest(limit, rows) = rows
          BY <1>2, <4>1, NewestIsAll
        <4> QED
          BY <1>2, <1>4, <4>1, <4>2
      <3> QED
        BY <3>1
    <2>2. LastOf(page) \in page /\ \A i \in page : LastOf(page) <= i
      BY <1>2, <2>1, LastIsLeast
    <2>3. ASSUME NEW i \in S, i >= LastOf(page) PROVE i \in page
      <3>1. i \in rows
        BY <1>1, <2>2, <2>3, NewestIsTop
      <3> QED
        BY <1>2, <2>2, <2>3, <3>1, NewestIsTop
    <2> QED
      BY <2>2, <2>3
  <1> QED
    BY <1>1, <1>3, <1>4

----------------------------------------------------------------------------
\* Where a walk is: nothing below its cursor has been given, and everything
\* above it that was on the list all the time has.
GivenDownToTheCursor ==
    walk.stage = "walking" => \A i \in RowIds :
        IF walk.cursor = Whatever THEN given[i] = 0
        ELSE /\ i < walk.cursor => given[i] = 0
             /\ i \in steady /\ i >= walk.cursor => given[i] = 1

PagesInv ==
    /\ PagesTypeOK
    /\ steady \subseteq OnList
    /\ walk.stage = "idle" =>
          walk.cursor = Whatever /\ steady = {} /\ \A i \in RowIds : given[i] = 0
    /\ GivenDownToTheCursor
    /\ walk.stage = "done" => \A i \in steady : given[i] = 1

LEMMA PagesInvInit == PagesInit => PagesInv
  BY DEF PagesInit, PagesInv, PagesTypeOK, GivenDownToTheCursor

LEMMA StartKeeps == ASSUME PagesInv, StartWalk PROVE PagesInv'
  BY DEF StartWalk, PagesInv, PagesTypeOK, GivenDownToTheCursor, OnList

LEMMA FetchKeeps ==
    ASSUME PagesInv, NEW limit \in Limits, FetchPage(limit)
    PROVE  PagesInv'
  <1> DEFINE S == OnList \cap Below(walk.cursor)
             rows == Newest(limit + 1, S)
             page == Newest(limit, rows)
  <1>0. /\ walk.stage = "walking" /\ UNCHANGED <<shelf, steady>>
        /\ given' = [i \in RowIds |-> given[i] + IF i \in page THEN 1 ELSE 0]
        /\ walk' = IF Cardinality(rows) > limit THEN [walk EXCEPT !.cursor = LastOf(page)]
                   ELSE [walk EXCEPT !.stage = "done"]
    BY DEF FetchPage, NextCursor
  <1>1. S \in SUBSET RowIds /\ limit \in Nat \ {0}
    BY PagesHoldRows DEF OnList
  <1>3. Cardinality(rows) \in Nat
    BY <1>1, RowsAreFinite DEF Newest
  <1>4. /\ S \subseteq OnList /\ steady \subseteq OnList /\ steady \subseteq RowIds
        /\ \A i \in RowIds :
              i \in S <=> i \in OnList /\ (walk.cursor # Whatever => i < walk.cursor)
    BY DEF PagesInv, PagesTypeOK, Below
  <1> HIDE DEF S
  <1>r. rows = Newest(limit + 1, S) /\ page = Newest(limit, rows)
    OBVIOUS
  <1> HIDE DEF rows, page
  <1>2. /\ page \subseteq S
        /\ Cardinality(rows) <= limit => page = S
        /\ Cardinality(rows) > limit =>
              /\ LastOf(page) \in page
              /\ \A i \in page : LastOf(page) <= i
              /\ \A i \in S : i >= LastOf(page) => i \in page
    BY <1>1, <1>r, PageOf
  <1>5. /\ walk \in [query : Queries, cursor : RowIds \cup {Whatever},
                     stage : {"idle", "walking", "done"}]
        /\ given \in [RowIds -> 0..1]
        /\ \A i \in RowIds : i \in Nat
        /\ walk.cursor # Whatever => walk.cursor \in Nat
    BY PagesHoldRows DEF PagesInv, PagesTypeOK, RowIds
  <1>6. \A i \in RowIds : i \in page => given[i] = 0
    BY <1>0, <1>2, <1>4 DEF PagesInv, GivenDownToTheCursor
  <1>7. \A i \in RowIds : given'[i] = IF i \in page THEN 1 ELSE given[i]
    BY <1>0, <1>5, <1>6
  <1>8. given' \in [RowIds -> 0..1]
    BY <1>0, <1>5, <1>7
  \* What was on the list all the time has been given, or is above the cursor.
  <1>9. \A i \in steady : i \in S \/ given[i] = 1
    BY <1>0, <1>4, <1>5 DEF PagesInv, GivenDownToTheCursor
  <1>10. CASE Cardinality(rows) > limit
    <2>1. /\ walk'.cursor = LastOf(page) /\ walk'.stage = "walking"
          /\ walk'.query = walk.query
          /\ walk' \in [query : Queries, cursor : RowIds \cup {Whatever},
                        stage : {"idle", "walking", "done"}]
      BY <1>0, <1>1, <1>2, <1>5, <1>10
    <2>2. LastOf(page) \in RowIds /\ LastOf(page) # Whatever
      BY <1>1, <1>2, <1>5, <1>10, WhateverIsNoRow
    <2>3. \A i \in RowIds : i < LastOf(page) => given'[i] = 0
      <3>1. LastOf(page) \in S
        BY <1>2, <1>10
      <3>2. \A i \in RowIds : i < LastOf(page) => i \notin page /\ given[i] = 0
        BY <1>0, <1>2, <1>4, <1>5, <1>10, <2>2, <3>1 DEF PagesInv, GivenDownToTheCursor
      <3> QED
        BY <1>7, <3>2
    <2>4. \A i \in steady : i >= LastOf(page) => given'[i] = 1
      BY <1>2, <1>4, <1>7, <1>9, <1>10
    <2> QED
      BY <1>0, <1>4, <1>8, <2>1, <2>2, <2>3, <2>4
      DEF PagesInv, PagesTypeOK, GivenDownToTheCursor, OnList
  <1>11. CASE ~(Cardinality(rows) > limit)
    <2>1. page = S
      BY <1>1, <1>2, <1>3, <1>11
    <2>2. \A i \in steady : given'[i] = 1
      BY <1>4, <1>7, <1>9, <2>1
    <2>3. /\ walk'.stage = "done" /\ walk'.query = walk.query
          /\ walk' \in [query : Queries, cursor : RowIds \cup {Whatever},
                        stage : {"idle", "walking", "done"}]
      BY <1>0, <1>5, <1>11
    <2> QED
      BY <1>0, <1>4, <1>8, <2>2, <2>3
      DEF PagesInv, PagesTypeOK, GivenDownToTheCursor, OnList
  <1> QED
    BY <1>10, <1>11

\* A row that is added was not on the list; one that drops off is not steady.
LEMMA OthersKeep ==
    ASSUME PagesInv, NEW i \in RowIds,
           (\E r \in ShelfRows : AddRow(i, r)) \/ (\E s \in States : ChangeStatus(i, s))
    PROVE  PagesInv'
  <1>1. ASSUME NEW r \in ShelfRows, AddRow(i, r) PROVE PagesInv'
    <2>1. shelf' \in [RowIds -> ShelfRows \cup {Whatever}]
      BY <1>1 DEF AddRow, PagesInv, PagesTypeOK
    <2>2. \A j \in steady : shelf'[j] = shelf[j]
      BY <1>1 DEF AddRow, PagesInv, PagesTypeOK, OnList, Shows
    <2>3. steady \subseteq OnList'
      BY <1>1, <2>2 DEF AddRow, PagesInv, OnList
    <2> QED
      BY <1>1, <2>1, <2>3 DEF AddRow, PagesInv, PagesTypeOK, GivenDownToTheCursor
  <1>2. ASSUME NEW s \in States, ChangeStatus(i, s) PROVE PagesInv'
    <2>1. shelf' \in [RowIds -> ShelfRows \cup {Whatever}]
      BY <1>2 DEF ChangeStatus, PagesInv, PagesTypeOK, ShelfRows
    <2>2. steady' \subseteq steady /\ steady' \subseteq OnList'
      BY <1>2 DEF ChangeStatus, KeepSteady, PagesInv, PagesTypeOK, OnList
    <2> QED
      BY <1>2, <2>1, <2>2 DEF ChangeStatus, PagesInv, PagesTypeOK, GivenDownToTheCursor
  <1> QED
    BY <1>1, <1>2

LEMMA PagesInvStep == PagesInv /\ [PagesNext]_pagesVars => PagesInv'
  <1>1. ASSUME PagesInv, UNCHANGED pagesVars PROVE PagesInv'
    BY <1>1 DEF pagesVars, PagesInv, PagesTypeOK, OnList, GivenDownToTheCursor
  <1> QED
    BY <1>1, StartKeeps, FetchKeeps, OthersKeep DEF PagesNext

LEMMA PagesInvariant == PagesSpec => []PagesInv
  BY PagesInvInit, PagesInvStep, PTL DEF PagesSpec

\* A walk gives no row twice, and at its end has given every row that was on
\* the list all the time, whatever was added or changed meanwhile.
THEOREM NoRowIsMissed == PagesSpec => []WalksAreComplete
  <1>1. PagesInv => WalksAreComplete
    BY DEF PagesInv, PagesTypeOK, WalksAreComplete
  <1> QED
    BY <1>1, PagesInvariant, PTL

----------------------------------------------------------------------------
(***************************************************************************)
(* Side by side.                                                           *)
(***************************************************************************)

\* Each component behaves as it does alone.
LEMMA ComponentsInterleave ==
    OverlappingSpec => AccessSpec /\ PagesSpec /\ VersionsSpec /\ ConcurrentSpec /\ KeysSpec
  <1>1. OverlappingInit =>
           AccessInit /\ PagesInit /\ VersionsInit /\ ConcurrentInit /\ KeysInit
    BY DEF OverlappingInit
  <1>2. [OverlappingNext]_overlappingVars
           => /\ [AccessNext]_accessVars /\ [PagesNext]_pagesVars /\ [VersionsNext]_versionsVars
              /\ [ConcurrentNext]_concurrentVars /\ [KeysNext]_keysVars
    BY DEF OverlappingNext, overlappingVars
  <1> QED
    BY <1>1, <1>2, PTL
    DEF OverlappingSpec, AccessSpec, PagesSpec, VersionsSpec, ConcurrentSpec, KeysSpec

\* Whichever component is in focus, all of them stay well typed: access, list
\* walks, policy versions, overlapping payments and idempotency keys.
THEOREM OverlappingTypeCorrect == OverlappingSpec => []OverlappingTypeOK
  <1>1. AccessInv /\ PagesInv /\ VersionsInv /\ ConcurrentTypeOK /\ KeysTypeOK
           => OverlappingTypeOK
    BY DEF AccessInv, PagesInv, VersionsInv, OverlappingTypeOK
  <1> QED
    BY <1>1, ComponentsInterleave, AccessInvariant, PagesInvariant, VersionsInvariant,
       OverlapKeepsTypes, KeysTypeCorrect, PTL

=============================================================================
