---------------------- MODULE ConcurrentRequestsProofs ----------------------
(***************************************************************************)
(* What overlapping transactions cannot break, for any number of them and  *)
(* all payments, amounts and limits.                                       *)
(***************************************************************************)
EXTENDS ConcurrentRequests, FiniteSetTheorems, TLAPS

UnitsOf(S) == {u \in S \X (1 .. Opening) : u[2] <= amount[u[1]]}

\* A sum is finite, since there are only finitely many units.
LEMMA UnitsAreFinite ==
    ASSUME NEW S \in SUBSET Payments
    PROVE  IsFiniteSet(UnitsOf(S)) /\ Cardinality(UnitsOf(S)) \in Nat /\ Value(S) = Cardinality(UnitsOf(S))
  <1>1. IsFiniteSet(1 .. Opening)
    BY AmountsArePositive, FS_Interval
  <1>2. IsFiniteSet(S)
    BY FinitelyManyPayments, FS_Subset
  <1>3. IsFiniteSet(S \X (1 .. Opening))
    BY <1>1, <1>2, FS_Product
  <1>4. UnitsOf(S) \subseteq S \X (1 .. Opening)
    BY DEF UnitsOf
  <1>5. IsFiniteSet(UnitsOf(S))
    BY <1>3, <1>4, FS_Subset
  <1>6. Value(S) = Cardinality(UnitsOf(S))
    BY DEF Value, UnitsOf
  <1> QED
    BY <1>5, <1>6, FS_CardinalityType

LEMMA ValueIsInteger == ASSUME NEW S \in SUBSET Payments PROVE Value(S) \in Int
  BY UnitsAreFinite

\* What every commit has in common.
LEMMA FinishKeepsType ==
    ASSUME ConcurrentTypeOK, NEW r \in Transactions, work[r] # None, Finish(r)
    PROVE  /\ work' \in [Transactions -> Works \cup {None}]
           /\ seen' \in [Transactions -> Balances]
           /\ raced' \in SUBSET {"column", "decision"}
           /\ overdue' \in SUBSET Payments
  BY DEF ConcurrentTypeOK, Finish, Overwrites

LEMMA WriteKeepsType ==
    ASSUME ConcurrentTypeOK, NEW r \in Transactions, NEW x \in Int, NEW y \in Int, WriteBalance(r, x, y)
    PROVE  available' \in Int /\ pendingOut' \in Int
  <1>1. seen[r].available \in Int /\ seen[r].pendingOut \in Int
    BY DEF ConcurrentTypeOK, Balances
  <1> QED
    BY <1>1 DEF ConcurrentTypeOK, WriteBalance

\* The sums that a commit computes with.
LEMMA WorkValue ==
    ASSUME ConcurrentTypeOK, NEW r \in Transactions, work[r] # None
    PROVE  /\ work[r] \in Works
           /\ Value(work[r].on) \in Int /\ -Value(work[r].on) \in Int
  <1>1. work[r] \in Works
    BY DEF ConcurrentTypeOK
  <1>2. work[r].on \in SUBSET Payments
    BY <1>1 DEF Works
  <1>3. Value(work[r].on) \in Int
    BY <1>2, ValueIsInteger
  <1> QED
    BY <1>1, <1>3

LEMMA CommitKeepsType ==
    ASSUME ConcurrentTypeOK, NEW r \in Transactions, CommitWork(r)
    PROVE  ConcurrentTypeOK'
  <1>1. work[r] # None /\ Finish(r)
    BY DEF CommitWork, CommitPay, CommitHold, CommitApprove, CommitRelease, CommitCancel, Ready
  <1>2. /\ work[r] \in Works
        /\ Value(work[r].on) \in Int /\ -Value(work[r].on) \in Int
    BY <1>1, WorkValue
  <1> DEFINE v == Value(work[r].on)
  <1> HIDE DEF v
  <1>3. \E x, y \in Int : WriteBalance(r, x, y)
    BY <1>2 DEF CommitWork, CommitPay, CommitHold, CommitApprove, CommitRelease, CommitCancel, v
  <1>4. available' \in Int /\ pendingOut' \in Int
    BY <1>3, WriteKeepsType
  <1>5. net' = net \/ net' = net - v
    BY DEF CommitWork, CommitPay, CommitHold, CommitApprove, CommitRelease, CommitCancel, v
  <1>6. net' \in Int
    BY <1>2, <1>5 DEF ConcurrentTypeOK, v
  <1>7. /\ status' \in [Payments -> {"none", "pending_approval", "completed", "cancelled"}]
        /\ approval' \in [Payments -> {"none", "pending"} \cup Decided]
    BY DEF ConcurrentTypeOK, CommitWork, CommitPay, CommitHold, CommitApprove, CommitRelease, CommitCancel,
       SetRows, Decided
  <1>8. allowed' \in SUBSET Payments
    BY <1>2 DEF ConcurrentTypeOK, Works, CommitWork, CommitPay, CommitHold, CommitApprove, CommitRelease,
       CommitCancel
  <1> QED
    BY <1>1, <1>4, <1>6, <1>7, <1>8, FinishKeepsType DEF ConcurrentTypeOK

\* Reading and giving up.
LEMMA ReadingKeepsType ==
    ASSUME ConcurrentTypeOK, NEW r \in Transactions,
           \/ \E kind \in Kinds, S \in SUBSET Payments : Begin(r, kind, S)
           \/ ReadBalance(r)
           \/ \E byOwner \in BOOLEAN : Rule(r, byOwner)
           \/ Rollback(r)
    PROVE  ConcurrentTypeOK'
  <1> USE DEF ConcurrentTypeOK, rowVars
  <1>1. ASSUME NEW kind \in Kinds, NEW S \in SUBSET Payments, Begin(r, kind, S) PROVE ConcurrentTypeOK'
    BY <1>1 DEF Begin, Works
  <1>2. CASE ReadBalance(r)
    BY <1>2 DEF ReadBalance, Works, Balances
  <1>3. ASSUME NEW byOwner \in BOOLEAN, Rule(r, byOwner) PROVE ConcurrentTypeOK'
    <2>1. work[r] \in Works
      BY <1>3 DEF Rule
    <2>2. \E kind \in Kinds : work' = [work EXCEPT ![r].kind = kind]
      BY <1>3 DEF Rule, Kinds
    <2> QED
      BY <1>3, <2>1, <2>2 DEF Rule, Works
  <1>4. CASE Rollback(r)
    BY <1>4 DEF Rollback
  <1> QED
    BY <1>1, <1>2, <1>3, <1>4

\* The handlers that begin, as one.
LEMMA BeginsAreBegin ==
    ASSUME ConcurrentTypeOK, NEW r \in Transactions, NEW m \in Payments,
           \/ BeginCreate(r, m)
           \/ \E kind \in {"approve", "reject"} : BeginDecide(r, m, kind)
           \/ BeginCancel(r, m)
           \/ BeginExpire(r)
    PROVE  \E kind \in Kinds, S \in SUBSET Payments : Begin(r, kind, S)
  <1>1. {x \in overdue : approval[x] = "pending"} \in SUBSET Payments /\ {m} \in SUBSET Payments
    BY DEF ConcurrentTypeOK
  <1> QED
    BY <1>1 DEF BeginCreate, BeginDecide, BeginCancel, BeginExpire, Kinds

\* Every step is a reading, a commit or an approval that falls due.
LEMMA StepKinds ==
    ASSUME ConcurrentTypeOK, ConcurrentNext
    PROVE  \/ \E r \in Transactions :
                 \/ \E kind \in Kinds, S \in SUBSET Payments : Begin(r, kind, S)
                 \/ ReadBalance(r)
                 \/ \E byOwner \in BOOLEAN : Rule(r, byOwner)
                 \/ Rollback(r)
           \/ \E r \in Transactions : CommitWork(r)
           \/ \E m \in Payments : FallDue(m)
  <1>1. ASSUME NEW r \in Transactions, BeginExpire(r)
        PROVE  \E kind \in Kinds, S \in SUBSET Payments : Begin(r, kind, S)
    <2>1. \E m \in Payments : TRUE
      BY <1>1 DEF BeginExpire, ConcurrentTypeOK
    <2> QED
      BY <1>1, <2>1, BeginsAreBegin
  <1> QED
    BY <1>1, BeginsAreBegin DEF ConcurrentNext

LEMMA TypeInit == ConcurrentInit => ConcurrentTypeOK
  BY AmountsArePositive DEF ConcurrentInit, ConcurrentTypeOK, Balances

LEMMA TypeStep == ConcurrentTypeOK /\ [ConcurrentNext]_concurrentVars => ConcurrentTypeOK'
  <1> SUFFICES ASSUME ConcurrentTypeOK, [ConcurrentNext]_concurrentVars PROVE ConcurrentTypeOK'
    OBVIOUS
  <1>1. CASE UNCHANGED concurrentVars
    BY <1>1 DEF concurrentVars, rowVars, ConcurrentTypeOK
  <1>2. ASSUME NEW m \in Payments, FallDue(m) PROVE ConcurrentTypeOK'
    BY <1>2 DEF FallDue, rowVars, ConcurrentTypeOK
  <1> QED
    BY <1>1, <1>2, StepKinds, ReadingKeepsType, CommitKeepsType

\* Every variable keeps its type, whatever overlaps.
THEOREM OverlapKeepsTypes == ConcurrentSpec => []ConcurrentTypeOK
  BY TypeInit, TypeStep, PTL DEF ConcurrentSpec

----------------------------------------------------------------------------
(***************************************************************************)
(* A payment and its approval.                                             *)
(***************************************************************************)

\* A commit writes both statuses of the rows it is about, and cancel_payment
\* looks at the approval as it is then (payments.py:293).
LEMMA CommitHoldsTogether ==
    ASSUME ConcurrentTypeOK, HeldTogether, NEW r \in Transactions, CommitWork(r)
    PROVE  HeldTogether'
  <1> USE DEF HeldTogether, SetRows
  <1>1. CASE CommitPay(r)
    BY <1>1 DEF CommitPay
  <1>2. CASE CommitHold(r)
    BY <1>2 DEF CommitHold
  <1>3. CASE CommitApprove(r)
    BY <1>3 DEF CommitApprove
  <1>4. CASE CommitRelease(r)
    BY <1>4 DEF CommitRelease
  <1>5. CASE CommitCancel(r)
    BY <1>5 DEF CommitCancel
  <1> QED
    BY <1>1, <1>2, <1>3, <1>4, <1>5 DEF CommitWork

LEMMA HeldTogetherStep == ConcurrentTypeOK /\ HeldTogether /\ [ConcurrentNext]_concurrentVars => HeldTogether'
  <1> SUFFICES ASSUME ConcurrentTypeOK, HeldTogether, [ConcurrentNext]_concurrentVars PROVE HeldTogether'
    OBVIOUS
  <1>1. CASE UNCHANGED <<status, approval>>
    BY <1>1 DEF HeldTogether
  <1>2. CASE UNCHANGED concurrentVars
    BY <1>1, <1>2 DEF concurrentVars, rowVars
  <1>3. ASSUME NEW m \in Payments, FallDue(m) PROVE HeldTogether'
    BY <1>1, <1>3 DEF FallDue, rowVars
  <1>4. ASSUME NEW r \in Transactions,
               \/ \E kind \in Kinds, S \in SUBSET Payments : Begin(r, kind, S)
               \/ ReadBalance(r)
               \/ \E byOwner \in BOOLEAN : Rule(r, byOwner)
               \/ Rollback(r)
        PROVE  HeldTogether'
    BY <1>1, <1>4 DEF Begin, ReadBalance, Rule, Rollback, rowVars
  <1> QED
    BY <1>2, <1>3, <1>4, StepKinds, CommitHoldsTogether

\* However many transactions overlap, no hold is left that nobody can decide, and
\* no decision is open on a payment that is gone (approvals.py, payments.py).
THEOREM NoOrphanedHold == ConcurrentSpec => []HeldTogether
  <1>1. ConcurrentInit => HeldTogether
    BY DEF ConcurrentInit, HeldTogether
  <1> QED
    BY <1>1, HeldTogetherStep, OverlapKeepsTypes, PTL DEF ConcurrentSpec

----------------------------------------------------------------------------
(***************************************************************************)
(* The balance and the ledger.                                             *)
(***************************************************************************)

\* A commit that overwrites nothing unseen computes with the row as it is.
LEMMA SeenIsCurrent ==
    ASSUME ConcurrentTypeOK, NEW r \in Transactions, Finish(r), "column" \notin raced'
    PROVE  /\ "column" \notin raced
           /\ "available" \in Columns(work[r].kind) => seen[r].available = available
           /\ "pendingOut" \in Columns(work[r].kind) => seen[r].pendingOut = pendingOut
  BY DEF Finish, Overwrites

LEMMA CommitDerives ==
    ASSUME ConcurrentTypeOK, DerivesUnlessOverwritten, NEW r \in Transactions, CommitWork(r)
    PROVE  DerivesUnlessOverwritten'
  <1> SUFFICES ASSUME "column" \notin raced' PROVE available' = net' - pendingOut'
    BY DEF DerivesUnlessOverwritten
  <1> DEFINE v == Value(work[r].on)
  <1>1. work[r] # None /\ Finish(r)
    BY DEF CommitWork, CommitPay, CommitHold, CommitApprove, CommitRelease, CommitCancel, Ready
  <1>2. v \in Int /\ available \in Int /\ pendingOut \in Int /\ net \in Int
    BY <1>1, WorkValue DEF ConcurrentTypeOK
  <1>3. available = net - pendingOut
    BY <1>1, SeenIsCurrent DEF DerivesUnlessOverwritten
  <1>4. /\ "available" \in Columns(work[r].kind) => seen[r].available = available
        /\ "pendingOut" \in Columns(work[r].kind) => seen[r].pendingOut = pendingOut
    BY <1>1, SeenIsCurrent
  <1> HIDE DEF v
  <1>5. CASE CommitPay(r)
    <2>1. Columns(work[r].kind) = {"available"}
      BY <1>5 DEF CommitPay, Ready, Columns
    <2>2. available' = available + -v /\ pendingOut' = pendingOut /\ net' = net - v
      BY <1>4, <1>5, <2>1 DEF CommitPay, WriteBalance, v
    <2> QED
      BY <1>2, <1>3, <2>2
  <1>6. CASE CommitApprove(r)
    <2>1. Columns(work[r].kind) = {"pendingOut"}
      BY <1>6 DEF CommitApprove, Ready, Columns
    <2>2. available' = available /\ pendingOut' = pendingOut + -v /\ net' = net - v
      BY <1>4, <1>6, <2>1 DEF CommitApprove, WriteBalance, v
    <2> QED
      BY <1>2, <1>3, <2>2
  <1>7. CASE CommitHold(r)
    <2>1. Columns(work[r].kind) = {"available", "pendingOut"}
      BY <1>7 DEF CommitHold, Ready, Columns
    <2>2. available' = available + -v /\ pendingOut' = pendingOut + v /\ net' = net
      BY <1>4, <1>7, <2>1 DEF CommitHold, WriteBalance, v
    <2> QED
      BY <1>2, <1>3, <2>2
  <1>8. CASE CommitRelease(r) \/ CommitCancel(r)
    <2>1. Columns(work[r].kind) = {"available", "pendingOut"}
      BY <1>8 DEF CommitRelease, CommitCancel, Ready, Columns
    <2>2. available' = available + v /\ pendingOut' = pendingOut + -v /\ net' = net
      BY <1>4, <1>8, <2>1 DEF CommitRelease, CommitCancel, WriteBalance, v
    <2> QED
      BY <1>2, <1>3, <2>2
  <1> QED
    BY <1>5, <1>6, <1>7, <1>8 DEF CommitWork

LEMMA DerivesStep ==
    ConcurrentTypeOK /\ DerivesUnlessOverwritten /\ [ConcurrentNext]_concurrentVars => DerivesUnlessOverwritten'
  <1> SUFFICES ASSUME ConcurrentTypeOK, DerivesUnlessOverwritten, [ConcurrentNext]_concurrentVars
               PROVE  DerivesUnlessOverwritten'
    OBVIOUS
  <1>1. CASE UNCHANGED <<available, pendingOut, net, raced>>
    BY <1>1 DEF DerivesUnlessOverwritten
  <1>2. CASE UNCHANGED concurrentVars
    BY <1>1, <1>2 DEF concurrentVars, rowVars
  <1>3. ASSUME NEW m \in Payments, FallDue(m) PROVE DerivesUnlessOverwritten'
    BY <1>1, <1>3 DEF FallDue, rowVars
  <1>4. ASSUME NEW r \in Transactions,
               \/ \E kind \in Kinds, S \in SUBSET Payments : Begin(r, kind, S)
               \/ ReadBalance(r)
               \/ \E byOwner \in BOOLEAN : Rule(r, byOwner)
               \/ Rollback(r)
        PROVE  DerivesUnlessOverwritten'
    BY <1>1, <1>4 DEF Begin, ReadBalance, Rule, Rollback, rowVars
  <1> QED
    BY <1>2, <1>3, <1>4, StepKinds, CommitDerives

\* The balance derives from the ledger until a commit overwrites a column that
\* has changed since it was read: overlap alone breaks nothing (ledger.py).
THEOREM DerivesUntilOverwritten == ConcurrentSpec => []DerivesUnlessOverwritten
  <1>1. ConcurrentInit => DerivesUnlessOverwritten
    BY AmountsArePositive DEF ConcurrentInit, DerivesUnlessOverwritten
  <1> QED
    BY <1>1, DerivesStep, OverlapKeepsTypes, PTL DEF ConcurrentSpec

----------------------------------------------------------------------------
(***************************************************************************)
(* Exact sums.                                                             *)
(***************************************************************************)
\* The sum of one payment is its amount, of which every unit is counted.
LEMMA ValueOfPayment == ASSUME NEW m \in Payments PROVE Value({m}) = amount[m]
  <1> DEFINE f == [k \in 1 .. amount[m] |-> <<m, k>>]
  <1>1. amount[m] \in 1 .. Opening /\ Opening \in Nat /\ amount[m] \in Nat
    BY AmountsArePositive
  <1>2. f \in Bijection(1 .. amount[m], UnitsOf({m}))
    <2>1. f \in [1 .. amount[m] -> UnitsOf({m})]
      BY <1>1 DEF UnitsOf
    <2>2. \A j, k \in 1 .. amount[m] : f[j] = f[k] => j = k
      OBVIOUS
    <2>3. \A u \in UnitsOf({m}) : \E k \in 1 .. amount[m] : f[k] = u
      <3>1. TAKE u \in UnitsOf({m})
      <3>2. u = <<m, u[2]>> /\ u[2] \in 1 .. amount[m]
        BY <1>1 DEF UnitsOf
      <3> QED
        BY <3>2
    <2> QED
      BY <2>1, <2>2, <2>3 DEF Bijection, Injection, Surjection, IsInjective
  <1>3. IsFiniteSet(1 .. amount[m]) /\ Cardinality(1 .. amount[m]) = amount[m]
    <2>1. \A n \in Nat : IsFiniteSet(1 .. n) /\ Cardinality(1 .. n) = n
      <3>1. TAKE n \in Nat
      <3>2. /\ IsFiniteSet(1 .. n)
            /\ Cardinality(1 .. n) = IF 1 > n THEN 0 ELSE n - 1 + 1
        BY FS_Interval
      <3> QED
        BY <3>2
    <2> QED
      BY <1>1, <2>1
  <1>4. ExistsBijection(1 .. amount[m], UnitsOf({m}))
    BY <1>2 DEF ExistsBijection
  <1>5. Cardinality(UnitsOf({m})) = amount[m]
    BY <1>3, <1>4, FS_Bijection
  <1>6. Value({m}) = Cardinality(UnitsOf({m}))
    BY UnitsAreFinite
  <1> QED
    BY <1>5, <1>6

\* Sums over disjoint sets add up.
LEMMA ValuesAdd ==
    ASSUME NEW S \in SUBSET Payments, NEW T \in SUBSET Payments, S \cap T = {}
    PROVE  Value(S \cup T) = Value(S) + Value(T)
  <1>1. UnitsOf(S \cup T) = UnitsOf(S) \cup UnitsOf(T) /\ UnitsOf(S) \cap UnitsOf(T) = {}
    BY DEF UnitsOf
  <1>2. /\ IsFiniteSet(UnitsOf(S)) /\ Cardinality(UnitsOf(S)) \in Nat
        /\ IsFiniteSet(UnitsOf(T)) /\ Cardinality(UnitsOf(T)) \in Nat
        /\ Value(S) = Cardinality(UnitsOf(S)) /\ Value(T) = Cardinality(UnitsOf(T))
    BY UnitsAreFinite
  <1>3. Value(S \cup T) = Cardinality(UnitsOf(S) \cup UnitsOf(T))
    <2>1. S \cup T \in SUBSET Payments
      OBVIOUS
    <2>2. Value(S \cup T) = Cardinality(UnitsOf(S \cup T))
      BY <2>1, UnitsAreFinite
    <2> QED
      BY <1>1, <2>2, Zenon
  <1>4. Cardinality(UnitsOf(S) \cup UnitsOf(T)) =
            Cardinality(UnitsOf(S)) + Cardinality(UnitsOf(T)) - Cardinality(UnitsOf(S) \cap UnitsOf(T))
    BY <1>2, FS_Union
  <1>5. Cardinality(UnitsOf(S) \cap UnitsOf(T)) = 0
    BY <1>1, FS_EmptySet
  <1> QED
    BY <1>2, <1>3, <1>4, <1>5

LEMMA ValuesSubtract ==
    ASSUME NEW S \in SUBSET Payments, NEW T \in SUBSET S
    PROVE  Value(S \ T) = Value(S) - Value(T)
  <1>1. /\ S \ T \in SUBSET Payments /\ T \in SUBSET Payments
        /\ (S \ T) \cap T = {} /\ (S \ T) \cup T = S
    OBVIOUS
  <1>2. Value((S \ T) \cup T) = Value(S \ T) + Value(T)
    BY <1>1, ValuesAdd
  <1>3. Value(S \ T) \in Int /\ Value(T) \in Int
    BY <1>1, ValueIsInteger
  <1>4. Value(S) = Value(S \ T) + Value(T)
    BY <1>1, <1>2, Zenon
  <1> QED
    BY <1>3, <1>4

\* A payment that is being created is nobody else's, and covered by the balance
\* its request has seen.
Creating(r) == work[r] # None /\ work[r].kind \in {"create", "ownerPay", "pay", "hold"}
WorksFit ==
    \A r \in Transactions : Creating(r) =>
       /\ \E m \in Payments : work[r].on = {m}
       /\ work[r].kind # "create" => work[r].hasRead
       /\ \A m \in work[r].on :
             /\ status[m] = "none"
             /\ \A q \in Transactions \ {r} : work[q] # None => m \notin work[q].on
             /\ work[r].hasRead => seen[r].available >= amount[m]

ExactInv == ConcurrentTypeOK /\ HeldTogether /\ WorksFit /\ ExactUnlessRaced

HeldOnes == {m \in Payments : status[m] = "pending_approval"}
DoneOnes == {m \in Payments : status[m] = "completed"}

\* A request about existing payments finds none that is being created.
LEMMA BeginKeepsWorks ==
    ASSUME ConcurrentTypeOK, HeldTogether, WorksFit, NEW r \in Transactions, NEW kind \in Kinds,
           NEW S \in SUBSET Payments, Begin(r, kind, S),
           \/ /\ kind = "create"
              /\ \E m \in Payments : S = {m} /\ status[m] = "none"
                   /\ \A q \in Transactions : work[q] # None => m \notin work[q].on
           \/ /\ kind \in {"approve", "reject", "cancel", "expire"}
              /\ \A m \in S : status[m] # "none"
    PROVE  WorksFit'
  <1>1. /\ work[r] = None
        /\ work' = [work EXCEPT ![r] = [kind |-> kind, on |-> S, hasRead |-> FALSE]]
        /\ UNCHANGED <<status, seen>>
    BY DEF Begin, rowVars
  <1>2. work'[r] = [kind |-> kind, on |-> S, hasRead |-> FALSE]
    BY <1>1 DEF ConcurrentTypeOK
  <1>3. \A q \in Transactions \ {r} : work'[q] = work[q]
    BY <1>1 DEF ConcurrentTypeOK
  <1>4. ASSUME NEW q \in Transactions \ {r}, Creating(q)'
        PROVE  /\ \E m \in Payments : work'[q].on = {m}
               /\ work'[q].kind # "create" => work'[q].hasRead
               /\ \A m \in work'[q].on :
                    /\ status'[m] = "none"
                    /\ \A o \in Transactions \ {q} : work'[o] # None => m \notin work'[o].on
                    /\ work'[q].hasRead => seen'[q].available >= amount[m]
    <2>1. Creating(q)
      BY <1>3, <1>4 DEF Creating
    <2>2. \A m \in work[q].on : m \notin S
      BY <1>1, <1>4, <2>1 DEF WorksFit, Creating
    <2> QED
      BY <1>1, <1>2, <1>3, <2>1, <2>2 DEF WorksFit
  <1>5. ASSUME Creating(r)'
        PROVE  /\ \E m \in Payments : work'[r].on = {m}
               /\ work'[r].kind # "create" => work'[r].hasRead
               /\ \A m \in work'[r].on :
                    /\ status'[m] = "none"
                    /\ \A o \in Transactions \ {r} : work'[o] # None => m \notin work'[o].on
                    /\ work'[r].hasRead => seen'[r].available >= amount[m]
    BY <1>1, <1>2, <1>3, <1>5 DEF Creating
  <1> QED
    BY <1>4, <1>5 DEF WorksFit

LEMMA ReadingKeepsWorks ==
    ASSUME ConcurrentTypeOK, WorksFit, NEW r \in Transactions,
           \/ ReadBalance(r)
           \/ \E byOwner \in BOOLEAN : Rule(r, byOwner)
           \/ Rollback(r)
    PROVE  WorksFit'
  <1>1. CASE ReadBalance(r)
    <2>1. /\ work[r] \in Works /\ ~work[r].hasRead
          /\ seen' = [seen EXCEPT ![r] = [available |-> available, pendingOut |-> pendingOut]]
          /\ work' = [work EXCEPT ![r].hasRead = TRUE]
          /\ UNCHANGED status
          /\ work[r].kind = "create" => \A m \in work[r].on : available >= amount[m]
      BY <1>1 DEF ReadBalance, rowVars, ConcurrentTypeOK
    <2>2. work[r] # None
      BY <1>1 DEF ReadBalance
    <2>3. /\ \A q \in Transactions \ {r} : work'[q] = work[q] /\ seen'[q] = seen[q]
          /\ seen'[r].available = available
          /\ work'[r] = [work[r] EXCEPT !.hasRead = TRUE]
      BY <2>1 DEF ConcurrentTypeOK
    <2>4. /\ work'[r].on = work[r].on /\ work'[r].kind = work[r].kind
          /\ work'[r].hasRead
      BY <2>1, <2>3 DEF Works
    <2> QED
      BY <2>1, <2>2, <2>3, <2>4 DEF WorksFit, Creating
  <1>2. ASSUME NEW byOwner \in BOOLEAN, Rule(r, byOwner) PROVE WorksFit'
    <2>1. PICK kind \in {"ownerPay", "pay", "hold"} : work' = [work EXCEPT ![r].kind = kind]
      BY <1>2 DEF Rule
    <2>2. work[r] \in Works /\ Creating(r) /\ UNCHANGED <<status, seen>>
      BY <1>2 DEF Rule, ConcurrentTypeOK, Creating, rowVars
    <2>3. /\ \A q \in Transactions \ {r} : work'[q] = work[q]
          /\ work'[r] = [work[r] EXCEPT !.kind = kind]
      BY <2>1 DEF ConcurrentTypeOK
    <2>4. /\ work'[r].on = work[r].on /\ work'[r].kind = kind
          /\ work'[r].hasRead = work[r].hasRead
      BY <2>2, <2>3 DEF Works
    <2>5. work[r].hasRead /\ work[r] # None
      BY <1>2 DEF Rule
    <2>6. PICK m \in Payments : work[r].on = {m}
      BY <2>2 DEF WorksFit
    <2>7. /\ status'[m] = "none" /\ seen'[r].available >= amount[m]
          /\ \A q \in Transactions \ {r} : work'[q] # None => m \notin work'[q].on
      BY <2>2, <2>3, <2>5, <2>6 DEF WorksFit
    <2>8. ASSUME NEW q \in Transactions \ {r}, Creating(q)'
          PROVE  /\ \E x \in Payments : work'[q].on = {x}
                 /\ work'[q].kind # "create" => work'[q].hasRead
                 /\ \A x \in work'[q].on :
                      /\ status'[x] = "none"
                      /\ \A o \in Transactions \ {q} : work'[o] # None => x \notin work'[o].on
                      /\ work'[q].hasRead => seen'[q].available >= amount[x]
      <3>1. Creating(q) /\ work'[q] = work[q]
        BY <2>3, <2>8 DEF Creating
      <3>2. \A o \in Transactions : work'[o] # None => work[o] # None /\ work'[o].on = work[o].on
        BY <2>3, <2>4, <2>5
      <3> QED
        BY <2>2, <3>1, <3>2 DEF WorksFit
    <2>9. /\ \E x \in Payments : work'[r].on = {x}
          /\ work'[r].kind # "create" => work'[r].hasRead
          /\ \A x \in work'[r].on :
               /\ status'[x] = "none"
               /\ \A o \in Transactions \ {r} : work'[o] # None => x \notin work'[o].on
               /\ work'[r].hasRead => seen'[r].available >= amount[x]
      <3>1. work'[r].on = {m} /\ work'[r].hasRead
        BY <2>4, <2>5, <2>6
      <3>2. \A x \in work'[r].on : x = m
        BY <3>1
      <3> QED
        BY <2>7, <3>1, <3>2
    <2> QED
      BY <2>8, <2>9 DEF WorksFit
  <1>3. CASE Rollback(r)
    BY <1>3 DEF Rollback, rowVars, WorksFit, Creating, ConcurrentTypeOK
  <1> QED
    BY <1>1, <1>2, <1>3

LEMMA CommitKeepsWorks ==
    ASSUME ConcurrentTypeOK, WorksFit, NEW r \in Transactions, CommitWork(r)
    PROVE  WorksFit'
  <1>1. /\ work[r] # None /\ work' = [work EXCEPT ![r] = None] /\ seen' = seen
    BY DEF CommitWork, CommitPay, CommitHold, CommitApprove, CommitRelease, CommitCancel, Ready, Finish
  <1>2. \A m \in Payments : m \notin work[r].on => status'[m] = status[m]
    BY DEF CommitWork, CommitPay, CommitHold, CommitApprove, CommitRelease, CommitCancel, SetRows
  <1>3. \A q \in Transactions : work'[q] # None => q # r /\ work'[q] = work[q]
    BY <1>1 DEF ConcurrentTypeOK
  <1>4. ASSUME NEW q \in Transactions, Creating(q)'
        PROVE  /\ \E m \in Payments : work'[q].on = {m}
               /\ work'[q].kind # "create" => work'[q].hasRead
               /\ \A m \in work'[q].on :
                    /\ status'[m] = "none"
                    /\ \A o \in Transactions \ {q} : work'[o] # None => m \notin work'[o].on
                    /\ work'[q].hasRead => seen'[q].available >= amount[m]
    <2>1. q # r /\ work'[q] = work[q] /\ Creating(q)
      BY <1>3, <1>4 DEF Creating
    <2>2. \A m \in work[q].on : m \in Payments /\ m \notin work[r].on
      BY <1>1, <2>1 DEF WorksFit
    <2> QED
      BY <1>1, <1>2, <1>3, <2>1, <2>2 DEF WorksFit
  <1> QED
    BY <1>4 DEF WorksFit

\* A commit that overwrites nothing unseen and decides only what is pending keeps
\* the sums exact.
LEMMA CommitIsExact ==
    ASSUME ExactInv, NEW r \in Transactions, CommitWork(r)
    PROVE  ExactUnlessRaced'
  <1> SUFFICES ASSUME raced' = {}
               PROVE  /\ pendingOut' = Value(HeldOnes') /\ net' = Opening - Value(DoneOnes')
                      /\ available' >= 0
    BY DEF ExactUnlessRaced, HeldOnes, DoneOnes
  <1> USE DEF ExactInv
  <1> DEFINE on == work[r].on
             v == Value(work[r].on)
  <1>1. work[r] # None /\ Finish(r) /\ work[r] \in Works
    BY DEF CommitWork, CommitPay, CommitHold, CommitApprove, CommitRelease, CommitCancel, Ready, ConcurrentTypeOK
  <1>2. raced = {} /\ "column" \notin raced' /\ "decision" \notin raced'
    BY <1>1 DEF Finish
  <1>3. /\ pendingOut = Value(HeldOnes) /\ net = Opening - Value(DoneOnes) /\ available >= 0
    BY <1>2 DEF ExactUnlessRaced, HeldOnes, DoneOnes
  <1>4. /\ "available" \in Columns(work[r].kind) => seen[r].available = available
        /\ "pendingOut" \in Columns(work[r].kind) => seen[r].pendingOut = pendingOut
    BY <1>1, <1>2, SeenIsCurrent
  <1>5. on \in SUBSET Payments /\ HeldOnes \in SUBSET Payments /\ DoneOnes \in SUBSET Payments
    BY <1>1 DEF Works, HeldOnes, DoneOnes
  <1>6. /\ v \in Int /\ Value(HeldOnes) \in Int /\ Value(DoneOnes) \in Int /\ Opening \in Int
        /\ available \in Int /\ pendingOut \in Int /\ net \in Int
    BY <1>5, ValueIsInteger, AmountsArePositive DEF ConcurrentTypeOK
  <1>7. v >= 0
    <2>1. Value(on) = Cardinality(UnitsOf(on)) /\ Cardinality(UnitsOf(on)) \in Nat
      BY <1>5, UnitsAreFinite
    <2> QED
      BY <2>1
  <1>8. ASSUME work[r].kind \in {"ownerPay", "pay", "hold"}, work[r].hasRead
        PROVE  /\ available >= v /\ on \cap HeldOnes = {} /\ on \cap DoneOnes = {}
    <2>1. PICK m \in Payments : on = {m} /\ status[m] = "none" /\ seen[r].available >= amount[m]
      BY <1>1, <1>8 DEF WorksFit, Creating
    <2>2. v = amount[m]
      BY <2>1, ValueOfPayment
    <2>3. seen[r].available = available
      BY <1>4, <1>8 DEF Columns
    <2> QED
      BY <2>1, <2>2, <2>3 DEF HeldOnes, DoneOnes
  <1>9. ASSUME work[r].kind \in {"approve", "reject", "cancel", "expire"}
        PROVE  on \in SUBSET HeldOnes /\ on \cap DoneOnes = {}
    <2>1. \A m \in on : approval[m] = "pending"
      BY <1>1, <1>2, <1>9 DEF Finish, Overwrites
    <2> QED
      BY <1>5, <2>1 DEF HeldTogether, HeldOnes, DoneOnes
  <1> HIDE DEF on, v
  <1>10. CASE CommitPay(r)
    <2>1. Ready(r, {"ownerPay", "pay"}) /\ Columns(work[r].kind) = {"available"}
      BY <1>10 DEF CommitPay, Ready, Columns
    <2>2. available' = available + -v /\ pendingOut' = pendingOut /\ net' = net - v
      BY <1>4, <1>10, <2>1 DEF CommitPay, WriteBalance, v
    <2>3. available >= v /\ on \cap HeldOnes = {} /\ on \cap DoneOnes = {}
      BY <1>8, <2>1 DEF Ready
    <2>4. HeldOnes' = HeldOnes /\ DoneOnes' = DoneOnes \cup on
      BY <1>5, <1>10, <2>3 DEF CommitPay, SetRows, HeldOnes, DoneOnes, on
    <2>5. Value(DoneOnes \cup on) = Value(DoneOnes) + v
      BY <1>5, <2>3, ValuesAdd DEF on, v
    <2> QED
      BY <1>3, <1>6, <2>2, <2>3, <2>4, <2>5
  <1>11. CASE CommitHold(r)
    <2>1. Ready(r, {"hold"}) /\ Columns(work[r].kind) = {"available", "pendingOut"}
      BY <1>11 DEF CommitHold, Ready, Columns
    <2>2. available' = available + -v /\ pendingOut' = pendingOut + v /\ net' = net
      BY <1>4, <1>11, <2>1 DEF CommitHold, WriteBalance, v
    <2>3. available >= v /\ on \cap HeldOnes = {} /\ on \cap DoneOnes = {}
      BY <1>8, <2>1 DEF Ready
    <2>4. HeldOnes' = HeldOnes \cup on /\ DoneOnes' = DoneOnes
      BY <1>5, <1>11, <2>3 DEF CommitHold, SetRows, HeldOnes, DoneOnes, on
    <2>5. Value(HeldOnes \cup on) = Value(HeldOnes) + v
      BY <1>5, <2>3, ValuesAdd DEF on, v
    <2> QED
      BY <1>3, <1>6, <2>2, <2>3, <2>4, <2>5
  <1>12. CASE CommitApprove(r)
    <2>1. Ready(r, {"approve"}) /\ Columns(work[r].kind) = {"pendingOut"}
      BY <1>12 DEF CommitApprove, Ready, Columns
    <2>2. available' = available /\ pendingOut' = pendingOut + -v /\ net' = net - v
      BY <1>4, <1>12, <2>1 DEF CommitApprove, WriteBalance, v
    <2>3. on \in SUBSET HeldOnes /\ on \cap DoneOnes = {}
      BY <1>9, <2>1 DEF Ready
    <2>4. HeldOnes' = HeldOnes \ on /\ DoneOnes' = DoneOnes \cup on
      BY <1>5, <1>12, <2>3 DEF CommitApprove, SetRows, HeldOnes, DoneOnes, on
    <2>5. Value(HeldOnes \ on) = Value(HeldOnes) - v
      BY <1>5, <2>3, ValuesSubtract DEF on, v
    <2>6. Value(DoneOnes \cup on) = Value(DoneOnes) + v
      BY <1>5, <2>3, ValuesAdd DEF on, v
    <2> QED
      BY <1>3, <1>6, <2>2, <2>4, <2>5, <2>6
  <1>13. CASE CommitRelease(r) \/ CommitCancel(r)
    <2>1. /\ Ready(r, {"reject", "expire", "cancel"})
          /\ Columns(work[r].kind) = {"available", "pendingOut"}
      BY <1>13 DEF CommitRelease, CommitCancel, Ready, Columns
    <2>2. available' = available + v /\ pendingOut' = pendingOut + -v /\ net' = net
      BY <1>4, <1>13, <2>1 DEF CommitRelease, CommitCancel, WriteBalance, v
    <2>3. on \in SUBSET HeldOnes /\ on \cap DoneOnes = {}
      BY <1>9, <2>1 DEF Ready
    <2>4. HeldOnes' = HeldOnes \ on /\ DoneOnes' = DoneOnes
      BY <1>5, <1>13, <2>3 DEF CommitRelease, CommitCancel, SetRows, HeldOnes, DoneOnes, on
    <2>5. Value(HeldOnes \ on) = Value(HeldOnes) - v
      BY <1>5, <2>3, ValuesSubtract DEF on, v
    <2> QED
      BY <1>3, <1>6, <1>7, <2>2, <2>4, <2>5
  <1> QED
    BY <1>10, <1>11, <1>12, <1>13 DEF CommitWork

LEMMA ExactInit == ConcurrentInit => WorksFit /\ ExactUnlessRaced
  <1> SUFFICES ASSUME ConcurrentInit PROVE WorksFit /\ ExactUnlessRaced
    OBVIOUS
  <1>1. Value({}) = 0
    <2> DEFINE none == Value({})
    <2>1. Value({} \cup {}) = none + none /\ none \in Int
      BY ValuesAdd, ValueIsInteger
    <2>2. {} \cup {} = {}
      OBVIOUS
    <2>3. none = none + none
      BY <2>1, <2>2, Zenon
    <2> HIDE DEF none
    <2> QED
      BY <2>1, <2>3
  <1>2. HeldOnes = {} /\ DoneOnes = {}
    BY DEF ConcurrentInit, HeldOnes, DoneOnes
  <1>3. pendingOut = Value(HeldOnes) /\ net = Opening - Value(DoneOnes) /\ available >= 0
    BY <1>1, <1>2, AmountsArePositive DEF ConcurrentInit
  <1>4. WorksFit
    BY DEF ConcurrentInit, WorksFit, Creating
  <1> QED
    BY <1>3, <1>4 DEF ExactUnlessRaced, HeldOnes, DoneOnes

LEMMA ExactStep == ExactInv /\ [ConcurrentNext]_concurrentVars => WorksFit' /\ ExactUnlessRaced'
  <1> SUFFICES ASSUME ExactInv, [ConcurrentNext]_concurrentVars PROVE WorksFit' /\ ExactUnlessRaced'
    OBVIOUS
  <1> USE DEF ExactInv
  <1>1. ASSUME UNCHANGED <<available, pendingOut, net, status, raced>> PROVE ExactUnlessRaced'
    <2>1. HeldOnes' = HeldOnes /\ DoneOnes' = DoneOnes
      BY <1>1 DEF HeldOnes, DoneOnes
    <2>2. raced = {} => /\ pendingOut = Value(HeldOnes) /\ net = Opening - Value(DoneOnes)
                       /\ available >= 0
      BY DEF ExactUnlessRaced, HeldOnes, DoneOnes
    <2>3. raced' = {} => /\ pendingOut' = Value(HeldOnes') /\ net' = Opening - Value(DoneOnes')
                        /\ available' >= 0
      BY <1>1, <2>1, <2>2
    <2> QED
      BY <2>3 DEF ExactUnlessRaced, HeldOnes, DoneOnes
  <1>2. CASE UNCHANGED concurrentVars
    BY <1>1, <1>2 DEF concurrentVars, rowVars, WorksFit, Creating
  <1>3. ASSUME NEW m \in Payments, FallDue(m) PROVE WorksFit' /\ ExactUnlessRaced'
    BY <1>1, <1>3 DEF FallDue, rowVars, WorksFit, Creating
  <1>4. ASSUME NEW r \in Transactions, NEW m \in Payments, BeginCreate(r, m)
        PROVE  WorksFit' /\ ExactUnlessRaced'
    <2>1. Begin(r, "create", {m}) /\ {m} \in SUBSET Payments /\ "create" \in Kinds
      BY <1>4 DEF BeginCreate, Kinds
    <2>2. WorksFit'
      BY <1>4, <2>1, BeginKeepsWorks DEF BeginCreate
    <2> QED
      BY <1>1, <2>1, <2>2 DEF Begin, rowVars
  <1>5. ASSUME NEW r \in Transactions, NEW kind \in {"approve", "reject", "cancel", "expire"},
               NEW S \in SUBSET Payments, Begin(r, kind, S),
               \A m \in S : status[m] = "pending_approval"
        PROVE  WorksFit' /\ ExactUnlessRaced'
    <2>1. WorksFit'
      BY <1>5, BeginKeepsWorks DEF Kinds
    <2> QED
      BY <1>1, <1>5, <2>1 DEF Begin, rowVars
  <1>6. ASSUME NEW r \in Transactions, NEW m \in Payments, NEW kind \in {"approve", "reject"},
               BeginDecide(r, m, kind)
        PROVE  WorksFit' /\ ExactUnlessRaced'
    BY <1>5, <1>6 DEF BeginDecide, HeldTogether
  <1>7. ASSUME NEW r \in Transactions, NEW m \in Payments, BeginCancel(r, m)
        PROVE  WorksFit' /\ ExactUnlessRaced'
    BY <1>5, <1>7 DEF BeginCancel
  <1>8. ASSUME NEW r \in Transactions, BeginExpire(r) PROVE WorksFit' /\ ExactUnlessRaced'
    <2> DEFINE S == {m \in overdue : approval[m] = "pending"}
    <2>1. Begin(r, "expire", S) /\ S \in SUBSET Payments
      BY <1>8 DEF BeginExpire, ConcurrentTypeOK
    <2>2. \A m \in S : status[m] = "pending_approval"
      BY <2>1 DEF HeldTogether
    <2> QED
      BY <1>5, <2>1, <2>2
  <1>9. ASSUME NEW r \in Transactions,
               \/ ReadBalance(r)
               \/ \E byOwner \in BOOLEAN : Rule(r, byOwner)
               \/ Rollback(r)
        PROVE  WorksFit' /\ ExactUnlessRaced'
    BY <1>1, <1>9, ReadingKeepsWorks DEF ReadBalance, Rule, Rollback, rowVars
  <1>10. ASSUME NEW r \in Transactions, CommitWork(r) PROVE WorksFit' /\ ExactUnlessRaced'
    BY <1>10, CommitKeepsWorks, CommitIsExact
  <1> QED
    BY <1>2, <1>3, <1>4, <1>6, <1>7, <1>8, <1>9, <1>10 DEF ConcurrentNext

\* As long as no commit overwrites a column that has changed or a decision it has
\* not seen, holds are exact, nothing is paid twice and nobody overdraws, however
\* many transactions overlap (ledger.py, approvals.py).
THEOREM ExactUntilRaced == ConcurrentSpec => []ExactUnlessRaced
  <1>1. ConcurrentSpec => [](WorksFit /\ ExactUnlessRaced)
    BY ExactInit, ExactStep, OverlapKeepsTypes, NoOrphanedHold, PTL DEF ConcurrentSpec, ExactInv
  <1> QED
    BY <1>1, PTL

----------------------------------------------------------------------------
(***************************************************************************)
(* Overlapping requests and the contract of the money core.  HeldFunds     *)
(* knows no transactions: each of its steps is a whole request.  Payments  *)
(* go from the agent to accounts elsewhere.                                *)
(***************************************************************************)
Stage ==
    [m \in Payments |-> CASE status[m] = "none" -> "open"
                          [] status[m] = "pending_approval" -> "held"
                          [] status[m] = "cancelled" -> "void"
                          [] OTHER -> "done"]

Ledger == [a \in {"agent", "elsewhere"} |-> IF a = "agent" THEN net ELSE -net]
Values == [m \in Payments |-> IF status[m] = "none" THEN 0 ELSE amount[m]]

Contract == INSTANCE HeldFunds
    WITH Holders <- {"agent"}, Accounts <- {"agent", "elsewhere"},
         Movements <- Payments, MaxAmount <- Opening,
         owned <- Ledger, stage <- Stage, value <- Values,
         from <- [m \in Payments |-> "agent"], to <- [m \in Payments |-> "elsewhere"]

\* An approval is about one payment.
ApprovalsAreSingle ==
    \A r \in Transactions : work[r] # None /\ work[r].kind = "approve" =>
        \E m \in Payments : work[r].on = {m}

LEMMA SingleInit == ConcurrentInit => ApprovalsAreSingle
  BY DEF ConcurrentInit, ApprovalsAreSingle

LEMMA SingleStep == ConcurrentTypeOK /\ ApprovalsAreSingle /\ [ConcurrentNext]_concurrentVars => ApprovalsAreSingle'
  <1> SUFFICES ASSUME ConcurrentTypeOK, ApprovalsAreSingle, [ConcurrentNext]_concurrentVars PROVE ApprovalsAreSingle'
    OBVIOUS
  <1>1. ASSUME NEW r \in Transactions, NEW kind, NEW S, Begin(r, kind, S),
               kind = "approve" => \E m \in Payments : S = {m}
        PROVE  ApprovalsAreSingle'
    BY <1>1 DEF Begin, ApprovalsAreSingle, ConcurrentTypeOK
  <1>2. ASSUME NEW r \in Transactions, NEW m \in Payments,
               \/ BeginCreate(r, m)
               \/ \E kind \in {"approve", "reject"} : BeginDecide(r, m, kind)
               \/ BeginCancel(r, m) \/ BeginExpire(r)
        PROVE  ApprovalsAreSingle'
    BY <1>1, <1>2 DEF BeginCreate, BeginDecide, BeginCancel, BeginExpire
  <1>3. ASSUME NEW r \in Transactions, ReadBalance(r) PROVE ApprovalsAreSingle'
    BY <1>3 DEF ReadBalance, ApprovalsAreSingle, ConcurrentTypeOK, Works
  <1>4. ASSUME NEW r \in Transactions, NEW byOwner \in BOOLEAN, Rule(r, byOwner)
        PROVE  ApprovalsAreSingle'
    <2>1. PICK kind \in {"ownerPay", "pay", "hold"} : work' = [work EXCEPT ![r].kind = kind]
      BY <1>4 DEF Rule
    <2>2. work[r] \in Works
      BY <1>4 DEF Rule, ConcurrentTypeOK
    <2> QED
      BY <2>1, <2>2 DEF ApprovalsAreSingle, ConcurrentTypeOK, Works
  <1>5. ASSUME NEW r \in Transactions, work' = [work EXCEPT ![r] = None]
        PROVE  ApprovalsAreSingle'
    BY <1>5 DEF ApprovalsAreSingle, ConcurrentTypeOK
  <1>6. ASSUME NEW r \in Transactions, CommitWork(r) \/ Rollback(r) PROVE ApprovalsAreSingle'
    BY <1>5, <1>6 DEF CommitWork, CommitPay, CommitHold, CommitApprove, CommitRelease, CommitCancel,
       Finish, Rollback
  <1>7. CASE UNCHANGED work
    BY <1>7 DEF ApprovalsAreSingle
  <1>8. ASSUME NEW r \in Transactions, BeginExpire(r) PROVE ApprovalsAreSingle'
    BY <1>1, <1>8 DEF BeginExpire
  <1> QED
    BY <1>2, <1>3, <1>4, <1>6, <1>7, <1>8 DEF ConcurrentNext, FallDue, concurrentVars

\* HeldFunds counts with a FiniteSets of its own.
LEMMA CountedAlike == ASSUME NEW S PROVE Contract!Cardinality(S) = Cardinality(S)
  BY Zenon DEF Contract!Cardinality, Cardinality, Contract!IsFiniteSet, IsFiniteSet

\* As long as nothing has raced, the column is what the contract lets spend.
LEMMA AvailableIsSpendable ==
    ASSUME ExactInv, DerivesUnlessOverwritten, raced = {}
    PROVE  Contract!Spendable("agent") = available
  <1> DEFINE held == {m \in Payments : Stage[m] = "held" /\ [x \in Payments |-> "agent"][m] = "agent"}
  <1>1. held = HeldOnes
    BY DEF Stage, HeldOnes
  <1>2. Contract!Sum(HeldOnes) = Value(HeldOnes)
    <2>1. {u \in HeldOnes \X (1 .. Opening) : u[2] <= Values[u[1]]} = UnitsOf(HeldOnes)
      BY DEF HeldOnes, Values, UnitsOf
    <2>2. Contract!Sum(HeldOnes) = Contract!Cardinality(UnitsOf(HeldOnes))
      BY <2>1, Zenon DEF Contract!Sum
    <2> QED
      BY <2>2, CountedAlike, Zenon DEF Value, UnitsOf
  <1>3. Contract!Spendable("agent") = Ledger["agent"] - Contract!Sum(held)
    BY DEF Contract!Spendable
  <1>4. pendingOut = Value(HeldOnes) /\ available = net - pendingOut /\ Ledger["agent"] = net
    BY DEF ExactInv, ExactUnlessRaced, DerivesUnlessOverwritten, HeldOnes, Ledger
  <1> QED
    BY <1>1, <1>2, <1>3, <1>4

\* A commit on one payment.
LEMMA RequestIsContract ==
    ASSUME ExactInv, DerivesUnlessOverwritten, raced = {},
           NEW m \in Payments, status[m] = "none", amount[m] <= available,
           \/ /\ status' = [status EXCEPT ![m] = "completed"]
              /\ net' = net - amount[m]
           \/ /\ status' = [status EXCEPT ![m] = "pending_approval"]
              /\ net' = net
    PROVE  Contract!Next
  <1> DEFINE next == IF status'[m] = "completed" THEN "done" ELSE "held"
  <1>1. status \in [Payments -> {"none", "pending_approval", "completed", "cancelled"}]
    BY DEF ExactInv, ConcurrentTypeOK
  <1>2. amount[m] \in 1 .. Opening /\ net \in Int /\ amount[m] \in Int
    BY AmountsArePositive DEF ExactInv, ConcurrentTypeOK
  <1>3. amount[m] <= Contract!Spendable("agent")
    BY AvailableIsSpendable
  <1>4. /\ Stage[m] = "open" /\ Stage' = [Stage EXCEPT ![m] = next]
        /\ Values' = [Values EXCEPT ![m] = amount[m]]
    BY <1>1 DEF Stage, Values
  <1>5. next = "done" =>
            Ledger' = [Ledger EXCEPT !["agent"] = @ - amount[m], !["elsewhere"] = @ + amount[m]]
    BY <1>1, <1>2 DEF Ledger
  <1>6. next = "held" => Ledger' = Ledger
    BY <1>1 DEF Ledger
  <1>7. next \in {"done", "held"}
    OBVIOUS
  <1> HIDE DEF next
  <1>8. Contract!Request(m, "agent", "elsewhere", amount[m], next)
    BY <1>3, <1>4, <1>5, <1>6, <1>7 DEF Contract!Request, Contract!Move
  <1> QED
    BY <1>2, <1>7, <1>8 DEF Contract!Next

LEMMA ApprovalIsContract ==
    ASSUME ConcurrentTypeOK, NEW m \in Payments, status[m] = "pending_approval",
           status' = [status EXCEPT ![m] = "completed"], net' = net - amount[m]
    PROVE  Contract!Next
  <1>1. /\ Stage[m] = "held" /\ Stage' = [Stage EXCEPT ![m] = "done"]
        /\ Values' = Values /\ Values[m] = amount[m]
    BY DEF ConcurrentTypeOK, Stage, Values
  <1>2. amount[m] \in Int /\ net \in Int
    <2>1. amount[m] \in 1 .. Opening /\ Opening \in Nat
      BY AmountsArePositive
    <2>2. net \in Int
      BY DEF ConcurrentTypeOK
    <2> QED
      BY <2>1, <2>2
  <1>3. Ledger' = [Ledger EXCEPT !["agent"] = @ - amount[m], !["elsewhere"] = @ + amount[m]]
    BY <1>2 DEF Ledger
  <1>4. Contract!Settle(m)
    BY <1>1, <1>3 DEF Contract!Settle, Contract!Move
  <1> QED
    BY <1>4 DEF Contract!Next

LEMMA ReleaseIsContract ==
    ASSUME NEW S \in SUBSET Payments, \A m \in S : status[m] = "pending_approval",
           status' = [m \in Payments |-> IF m \in S THEN "cancelled" ELSE status[m]], net' = net
    PROVE  Contract!Next
  <1>1. /\ \A m \in S : Stage[m] = "held"
        /\ Stage' = [m \in Payments |-> IF m \in S THEN "void" ELSE Stage[m]]
        /\ Values' = Values /\ Ledger' = Ledger
    BY DEF Stage, Values, Ledger
  <1>2. Contract!Void(S)
    BY <1>1 DEF Contract!Void
  <1> QED
    BY <1>2 DEF Contract!Next

\* One commit is one request.
LEMMA CommitIsContract ==
    ASSUME ExactInv, DerivesUnlessOverwritten, ApprovalsAreSingle,
           NEW r \in Transactions, CommitWork(r), raced' = {}
    PROVE  Contract!Next
  <1> USE DEF ExactInv
  <1> DEFINE on == work[r].on
  <1>1. work[r] # None /\ Finish(r) /\ work[r] \in Works
    BY DEF CommitWork, CommitPay, CommitHold, CommitApprove, CommitRelease, CommitCancel, Ready, ConcurrentTypeOK
  <1>2. raced = {} /\ "column" \notin raced' /\ "decision" \notin raced'
    BY <1>1 DEF Finish
  <1>3. on \in SUBSET Payments /\ status \in [Payments -> {"none", "pending_approval", "completed", "cancelled"}]
    BY <1>1 DEF Works, ConcurrentTypeOK
  <1>4. ASSUME work[r].kind \in {"ownerPay", "pay", "hold"}, work[r].hasRead
        PROVE  \E m \in Payments : on = {m} /\ status[m] = "none" /\ amount[m] <= available
    <2>1. PICK m \in Payments : on = {m} /\ status[m] = "none" /\ seen[r].available >= amount[m]
      BY <1>1, <1>4 DEF WorksFit, Creating
    <2>2. seen[r].available = available
      BY <1>1, <1>2, <1>4, SeenIsCurrent DEF Columns
    <2>3. available \in Int /\ amount[m] \in Int
      BY AmountsArePositive DEF ConcurrentTypeOK
    <2> QED
      BY <2>1, <2>2, <2>3
  <1>5. ASSUME work[r].kind \in {"approve", "reject", "cancel", "expire"}
        PROVE  \A m \in on : status[m] = "pending_approval"
    <2>1. \A m \in on : approval[m] = "pending"
      BY <1>1, <1>2, <1>5 DEF Finish, Overwrites
    <2> QED
      BY <1>3, <2>1 DEF HeldTogether
  <1>6. CASE CommitPay(r) \/ CommitHold(r)
    <2>1. PICK m \in Payments : on = {m} /\ status[m] = "none" /\ amount[m] <= available
      BY <1>4, <1>6 DEF CommitPay, CommitHold, Ready
    <2>2. Value(on) = amount[m]
      BY <2>1, ValueOfPayment
    <2>3. \/ /\ status' = [status EXCEPT ![m] = "completed"]
             /\ net' = net - amount[m]
          \/ /\ status' = [status EXCEPT ![m] = "pending_approval"]
             /\ net' = net
      BY <1>3, <1>6, <2>1, <2>2 DEF CommitPay, CommitHold, SetRows
    <2> QED
      BY <1>2, <2>1, <2>3, RequestIsContract
  <1>7. CASE CommitApprove(r)
    <2>1. PICK m \in Payments : on = {m}
      BY <1>1, <1>7 DEF CommitApprove, Ready, ApprovalsAreSingle
    <2>2. status[m] = "pending_approval"
      BY <1>5, <1>7, <2>1 DEF CommitApprove, Ready
    <2>3. status' = [status EXCEPT ![m] = "completed"] /\ net' = net - amount[m]
      BY <1>3, <1>7, <2>1, ValueOfPayment DEF CommitApprove, SetRows
    <2> QED
      BY <2>2, <2>3, ApprovalIsContract
  <1>8. CASE CommitRelease(r) \/ CommitCancel(r)
    <2>1. \A m \in on : status[m] = "pending_approval"
      BY <1>5, <1>8 DEF CommitRelease, CommitCancel, Ready
    <2>2. /\ status' = [m \in Payments |-> IF m \in on THEN "cancelled" ELSE status[m]]
          /\ net' = net
      BY <1>8 DEF CommitRelease, CommitCancel, SetRows
    <2> HIDE DEF on
    <2> QED
      BY <1>3, <2>1, <2>2, ReleaseIsContract
  <1> QED
    BY <1>6, <1>7, <1>8 DEF CommitWork

\* Until one commit overwrites what another has changed, overlapping transactions
\* are as good as requests one after the other: each commit is one step of
\* HeldFunds, and what happens between a transaction's begin and its commit does
\* not show.
THEOREM UnracedIsSerial ==
    ConcurrentSpec => [][raced' = {} => Contract!Next \/ UNCHANGED Contract!contractVars]_concurrentVars
  <1> DEFINE Inv == ExactInv /\ DerivesUnlessOverwritten /\ ApprovalsAreSingle
             Serial == raced' = {} => Contract!Next \/ UNCHANGED Contract!contractVars
  <1>1. Inv /\ [ConcurrentNext]_concurrentVars => [Serial]_concurrentVars
    <2> SUFFICES ASSUME Inv, ConcurrentNext, raced' = {}
                 PROVE  Contract!Next \/ UNCHANGED Contract!contractVars
      OBVIOUS
    <2>1. CASE UNCHANGED <<net, status>>
      BY <2>1 DEF Contract!contractVars, Ledger, Stage, Values
    <2>2. ASSUME NEW r \in Transactions, CommitWork(r) PROVE Contract!Next
      BY <2>2, CommitIsContract
    <2> QED
      BY <2>1, <2>2, StepKinds DEF Begin, ReadBalance, Rule, Rollback, FallDue, rowVars, ExactInv
  <1>2. ConcurrentSpec => []Inv
    BY ExactInit, ExactStep, SingleInit, SingleStep, OverlapKeepsTypes, NoOrphanedHold,
       DerivesUntilOverwritten, PTL DEF ConcurrentSpec, ExactInv
  <1> HIDE DEF Inv, Serial
  <1>3. ConcurrentSpec => [][Serial]_concurrentVars
    BY <1>1, <1>2, PTL DEF ConcurrentSpec
  <1> QED
    BY <1>3 DEF Serial

=============================================================================
