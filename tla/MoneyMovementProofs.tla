------------------------ MODULE MoneyMovementProofs ------------------------
(***************************************************************************)
(* Invariants of MoneyMovement, proved for every set of agents and ids and *)
(* every bound.                                                            *)
(***************************************************************************)
EXTENDS MoneyMovement, FiniteSetTheorems, TLAPS

AmountsOf == [Movements -> 0 .. MaxAmount]

----------------------------------------------------------------------------
(***************************************************************************)
(* Sums.  Value(S) is defined as a cardinality; these lemmas say that it   *)
(* behaves as the sum of the amounts of S.                                 *)
(***************************************************************************)

\* Sums are finite: only finitely many units exist.
LEMMA UnitsFinite ==
    ASSUME NEW S \in SUBSET Movements, NEW amt \in AmountsOf
    PROVE  IsFiniteSet(Units(S, amt)) /\ Cardinality(Units(S, amt)) \in Nat
  <1>1. IsFiniteSet(Amounts)
    BY FS_Interval, BoundsAreNaturals DEF Amounts
  <1>2. IsFiniteSet(S)
    BY FS_Subset, FinitelyManyMovements
  <1>3. IsFiniteSet(S \X Amounts)
    BY <1>1, <1>2, FS_Product
  <1>4. Units(S, amt) \in SUBSET (S \X Amounts)
    BY DEF Units
  <1>5. IsFiniteSet(Units(S, amt))
    BY <1>3, <1>4, FS_Subset
  <1> QED
    BY <1>5, FS_CardinalityType

\* The sum over one movement is its amount.
LEMMA ValueOfOne ==
    ASSUME NEW m \in Movements, NEW amt \in AmountsOf
    PROVE  Cardinality(Units({m}, amt)) = amt[m]
  <1> DEFINE f == [k \in 1 .. amt[m] |-> <<m, k>>]
  <1>1. amt[m] \in 0 .. MaxAmount
    BY DEF AmountsOf
  <1>2. f \in Bijection(1 .. amt[m], Units({m}, amt))
    <2>1. f \in [1 .. amt[m] -> Units({m}, amt)]
      BY <1>1, BoundsAreNaturals DEF Units, Amounts
    <2>2. \A j, k \in 1 .. amt[m] : f[j] = f[k] => j = k
      OBVIOUS
    <2>3. \A u \in Units({m}, amt) : \E k \in 1 .. amt[m] : f[k] = u
      <3>1. TAKE u \in Units({m}, amt)
      <3>2. u = <<m, u[2]>> /\ u[2] \in 1 .. amt[m]
        BY <1>1, BoundsAreNaturals DEF Units, Amounts
      <3> QED
        BY <3>2
    <2> QED
      BY <2>1, <2>2, <2>3 DEF Bijection, Injection, Surjection, IsInjective
  <1>3. IsFiniteSet(1 .. amt[m]) /\ Cardinality(1 .. amt[m]) = amt[m]
    <2>1. \A n \in Nat : IsFiniteSet(1 .. n) /\ Cardinality(1 .. n) = n
      <3>1. TAKE n \in Nat
      <3>2. /\ IsFiniteSet(1 .. n)
            /\ Cardinality(1 .. n) = IF 1 > n THEN 0 ELSE n - 1 + 1
        BY FS_Interval
      <3> QED
        BY <3>2
    <2>2. amt[m] \in Nat
      BY <1>1, BoundsAreNaturals
    <2> QED
      BY <2>1, <2>2
  <1>4. ExistsBijection(1 .. amt[m], Units({m}, amt))
    BY <1>2 DEF ExistsBijection
  <1> QED
    BY <1>3, <1>4, FS_Bijection

\* Sums over disjoint sets add up.
LEMMA ValueOfUnion ==
    ASSUME NEW S \in SUBSET Movements, NEW T \in SUBSET Movements,
           S \cap T = {}, NEW amt \in AmountsOf
    PROVE  Cardinality(Units(S \cup T, amt)) =
               Cardinality(Units(S, amt)) + Cardinality(Units(T, amt))
  <1>1. Units(S \cup T, amt) = Units(S, amt) \cup Units(T, amt)
    BY DEF Units
  <1>2. Units(S, amt) \cap Units(T, amt) = {}
    BY DEF Units
  <1>3. /\ IsFiniteSet(Units(S, amt)) /\ Cardinality(Units(S, amt)) \in Nat
        /\ IsFiniteSet(Units(T, amt)) /\ Cardinality(Units(T, amt)) \in Nat
    BY UnitsFinite
  <1>4. Cardinality(Units(S, amt) \cap Units(T, amt)) = 0
    BY <1>2, FS_EmptySet
  <1>5. Cardinality(Units(S, amt) \cup Units(T, amt)) =
            Cardinality(Units(S, amt)) + Cardinality(Units(T, amt))
              - Cardinality(Units(S, amt) \cap Units(T, amt))
    BY <1>3, FS_Union
  <1>6. Cardinality(Units(S \cup T, amt)) =
            Cardinality(Units(S, amt) \cup Units(T, amt))
    BY <1>1, Zenon
  <1>7. Cardinality(Units(S, amt) \cup Units(T, amt)) =
            Cardinality(Units(S, amt)) + Cardinality(Units(T, amt))
    BY <1>3, <1>4, <1>5
  <1> QED
    BY <1>6, <1>7, Zenon

\* One more movement adds its amount.
LEMMA ValueWith ==
    ASSUME NEW S \in SUBSET Movements, NEW m \in Movements, m \notin S,
           NEW amt \in AmountsOf
    PROVE  Cardinality(Units(S \cup {m}, amt)) = Cardinality(Units(S, amt)) + amt[m]
  <1>1. {m} \in SUBSET Movements /\ S \cap {m} = {}
    OBVIOUS
  <1>2. Cardinality(Units(S \cup {m}, amt)) =
            Cardinality(Units(S, amt)) + Cardinality(Units({m}, amt))
    BY <1>1, ValueOfUnion
  <1> QED
    BY <1>2, ValueOfOne

\* Taking a subset away subtracts its sum.
LEMMA ValueWithout ==
    ASSUME NEW S \in SUBSET Movements, NEW T \in SUBSET S, NEW amt \in AmountsOf
    PROVE  Cardinality(Units(S \ T, amt)) =
               Cardinality(Units(S, amt)) - Cardinality(Units(T, amt))
  <1>1. /\ S \ T \in SUBSET Movements /\ T \in SUBSET Movements
        /\ (S \ T) \cap T = {} /\ (S \ T) \cup T = S
    OBVIOUS
  <1>2. Cardinality(Units((S \ T) \cup T, amt)) =
            Cardinality(Units(S \ T, amt)) + Cardinality(Units(T, amt))
    BY <1>1, ValueOfUnion
  <1>3. /\ Cardinality(Units(S \ T, amt)) \in Nat
        /\ Cardinality(Units(T, amt)) \in Nat
    BY <1>1, UnitsFinite
  <1>4. Cardinality(Units(S, amt)) =
            Cardinality(Units(S \ T, amt)) + Cardinality(Units(T, amt))
    BY <1>1, <1>2, Zenon
  <1> QED
    BY <1>3, <1>4

\* A sum depends on the amounts of its own movements only.
LEMMA ValueSameAmounts ==
    ASSUME NEW S, NEW amt, NEW amt2, \A m \in S : amt[m] = amt2[m]
    PROVE  Units(S, amt) = Units(S, amt2)
  BY DEF Units

----------------------------------------------------------------------------
(***************************************************************************)
(* Type correctness.                                                       *)
(***************************************************************************)

\* Constant-level facts about the sets the types are built from.
LEMMA AmountsAreNaturals ==
    /\ Amounts \subseteq 0 .. MaxAmount
    /\ Amounts \subseteq Nat \ {0}
    /\ 0 \in 0 .. MaxAmount
    /\ 0 .. MaxAmount \subseteq Nat
  BY BoundsAreNaturals DEF Amounts

\* What a holder has on hold is a natural number.
LEMMA ValueIsNatural ==
    ASSUME TypeOK, NEW S \in SUBSET Movements
    PROVE  Value(S) \in Nat
  BY UnitsFinite DEF TypeOK, Value, AmountsOf

LEMMA TypeInit == Init => TypeOK
  BY AmountsAreNaturals
  DEF Init, TypeOK, Accounts, Holders, SystemAccounts, Settlement, MovementStatus,
      CounterpartyStatus, Evaluations, ApprovalStatus

LEMMA TypeStep == TypeOK /\ [Next]_vars => TypeOK'
  <1> SUFFICES ASSUME TypeOK, [Next]_vars PROVE TypeOK'
    OBVIOUS
  <1> USE AmountsAreNaturals DEF Accounts, Holders, Subjects, Movements
  <1>1. ASSUME NEW h \in Holders, NEW a \in Amounts, Fund(h, a)
        PROVE  TypeOK'
    BY <1>1 DEF TypeOK, Fund, PostJournal
  <1>2. ASSUME NEW m \in Payments, NEW src \in Agents, NEW a \in Amounts,
               NEW o \in {"none", "allow"}, NEW r \in DispatchResults,
               CreatePayment(m, src, a, o, r)
        PROVE  TypeOK'
    BY <1>2 DEF TypeOK, CreatePayment, RecordEvaluation, InsertMovement, PayOut,
       PostJournal, StatusAfterDispatch, Evaluations, MovementStatus,
       Settlement, SystemAccounts
  <1>3. ASSUME NEW m \in Payments, NEW src \in Agents, NEW a \in Amounts,
               HoldPayment(m, src, a)
        PROVE  TypeOK'
    BY <1>3 DEF TypeOK, HoldPayment, RecordEvaluation, InsertMovement, Reserve,
       RaiseApproval, Evaluations, MovementStatus, ApprovalStatus,
       Settlement, SystemAccounts
  <1>4. ASSUME NEW m \in Transfers, NEW src \in Holders, NEW dst \in Holders,
               NEW a \in Amounts, NEW o \in {"none", "allow"},
               CreateTransfer(m, src, dst, a, o)
        PROVE  TypeOK'
    BY <1>4 DEF TypeOK, CreateTransfer, RecordEvaluation, InsertMovement,
       InternalTransfer, PostJournal, Evaluations, MovementStatus
  <1>5. ASSUME NEW m \in Transfers, NEW src \in Agents, NEW a \in Amounts,
               HoldTransfer(m, src, a)
        PROVE  TypeOK'
    BY <1>5 DEF TypeOK, HoldTransfer, RecordEvaluation, InsertMovement, Reserve,
       RaiseApproval, Evaluations, MovementStatus, ApprovalStatus
  <1>6. ASSUME NEW m \in Movements, NEW src \in Agents, NEW a \in Amounts,
               DenyMovement(m, src, a)
        PROVE  TypeOK'
    BY <1>6 DEF TypeOK, DenyMovement, RecordEvaluation, Evaluations
  <1>7. ASSUME NEW m \in Payments, CancelPayment(m)
        PROVE  TypeOK'
    BY <1>7 DEF TypeOK, CancelPayment, ReleaseReservation, MovementStatus,
       ApprovalStatus
  <1>8. ASSUME NEW c \in Counterparties, NEW o \in {"none", "allow", "hold"},
               CreateCounterparty(c, o)
        PROVE  TypeOK'
    BY <1>8 DEF TypeOK, CreateCounterparty, RecordEvaluation, RaiseApproval,
       Evaluations, CounterpartyStatus, ApprovalStatus
  <1>9. ASSUME NEW c \in Counterparties, DenyCounterparty(c)
        PROVE  TypeOK'
    BY <1>9 DEF TypeOK, DenyCounterparty, RecordEvaluation, Evaluations
  <1>10. ASSUME NEW c \in Counterparties,
                VerifyCounterparty(c) \/ ApproveCounterparty(c) \/ RejectCounterparty(c)
         PROVE  TypeOK'
    BY <1>10 DEF TypeOK, VerifyCounterparty, ApproveCounterparty,
       RejectCounterparty, Decide, CounterpartyStatus, ApprovalStatus
  <1>11. ASSUME NEW m \in Payments, NEW r \in DispatchResults, ApprovePayment(m, r)
         PROVE  TypeOK'
    BY <1>11 DEF TypeOK, ApprovePayment, PayOut, PostJournal, StatusAfterDispatch,
       Decide, MovementStatus, ApprovalStatus, Settlement, SystemAccounts
  <1>12. ASSUME NEW m \in Transfers, ApproveTransfer(m)
         PROVE  TypeOK'
    BY <1>12 DEF TypeOK, ApproveTransfer, InternalTransfer, PostJournal, Decide,
       MovementStatus, ApprovalStatus
  <1>13. ASSUME NEW m \in Movements, RejectMovement(m)
         PROVE  TypeOK'
    BY <1>13 DEF TypeOK, RejectMovement, ReleaseReservation, Decide,
       MovementStatus, ApprovalStatus
  <1>14. ASSUME ExpireStale
         PROVE  TypeOK'
    <2> DEFINE released(h) == Value({m \in Stale \cap Movements : source[m] = h})
    <2>1. \A h \in Holders : released(h) \in Int
      BY ValueIsNatural
    <2> HIDE DEF released
    <2>2. /\ available' = [h \in Holders |-> available[h] + released(h)]
          /\ pendingOut' = [h \in Holders |-> pendingOut[h] - released(h)]
      BY <1>14 DEF ExpireStale, released
    <2>3. available' \in [Holders -> Int] /\ pendingOut' \in [Holders -> Int]
      BY <2>1, <2>2 DEF TypeOK
    <2>4. status' \in [Movements -> MovementStatus]
      BY <1>14 DEF TypeOK, ExpireStale, MovementStatus
    <2>5. approval' \in [Subjects -> ApprovalStatus]
      BY <1>14 DEF TypeOK, ExpireStale, ApprovalStatus
    <2> QED
      BY <1>14, <2>3, <2>4, <2>5 DEF TypeOK, ExpireStale
  <1>15. ASSUME NEW s \in Subjects, FallDue(s)
         PROVE  TypeOK'
    BY <1>15 DEF TypeOK, FallDue
  <1>16. CASE UNCHANGED vars
    BY <1>16 DEF TypeOK, vars
  <1> QED
    BY <1>1, <1>2, <1>3, <1>4, <1>5, <1>6, <1>7, <1>8, <1>9, <1>10, <1>11,
       <1>12, <1>13, <1>14, <1>15, <1>16 DEF Next

\* Every reachable state is well typed.
THEOREM TypeCorrect == Spec => []TypeOK
  BY TypeInit, TypeStep, PTL DEF Spec

----------------------------------------------------------------------------
(***************************************************************************)
(* Rows and approvals.  The agreement of the two tables is inductive given *)
(* the types.  It is what entitles the decision handlers, which look at    *)
(* the approval only, to move the money of the row.  It needs a provider   *)
(* that settles at once: otherwise an approved payment keeps its status.   *)
(***************************************************************************)
LEMMA ApprovalInit == Init => ApprovalMatchesRow
  BY DEF Init, ApprovalMatchesRow, Executed, Subjects, Movements

LEMMA ApprovalStep ==
    SettlesAtOnce /\ TypeOK /\ ApprovalMatchesRow /\ [Next]_vars
        => ApprovalMatchesRow'
  <1> SUFFICES ASSUME SettlesAtOnce, TypeOK, ApprovalMatchesRow, [Next]_vars
               PROVE  ApprovalMatchesRow'
    OBVIOUS
  <1> USE NamesAreDistinct DEF ApprovalMatchesRow, Executed, Subjects, Movements
  \* An id whose row is not inserted yet has no approval either.
  <1>0. \A m \in Movements : status[m] = "none" => approval[m] = "none"
    BY DEF TypeOK, ApprovalStatus
  <1>1. ASSUME NEW m \in Payments, NEW src \in Agents, NEW a \in Amounts,
               NEW o \in {"none", "allow"}, NEW r \in DispatchResults,
               CreatePayment(m, src, a, o, r)
        PROVE  ApprovalMatchesRow'
    BY <1>0, <1>1 DEF TypeOK, CreatePayment, RecordEvaluation, InsertMovement,
       StatusAfterDispatch
  <1>2. ASSUME NEW m \in Payments, NEW src \in Agents, NEW a \in Amounts,
               HoldPayment(m, src, a)
        PROVE  ApprovalMatchesRow'
    BY <1>2 DEF TypeOK, HoldPayment, RecordEvaluation, InsertMovement, RaiseApproval
  <1>3. ASSUME NEW m \in Transfers, NEW src \in Holders, NEW dst \in Holders,
               NEW a \in Amounts, NEW o \in {"none", "allow"},
               CreateTransfer(m, src, dst, a, o)
        PROVE  ApprovalMatchesRow'
    BY <1>0, <1>3 DEF TypeOK, CreateTransfer, RecordEvaluation, InsertMovement
  <1>4. ASSUME NEW m \in Transfers, NEW src \in Agents, NEW a \in Amounts,
               HoldTransfer(m, src, a)
        PROVE  ApprovalMatchesRow'
    BY <1>4 DEF TypeOK, HoldTransfer, RecordEvaluation, InsertMovement, RaiseApproval
  <1>5. ASSUME NEW m \in Movements, NEW src \in Agents, NEW a \in Amounts,
               DenyMovement(m, src, a)
        PROVE  ApprovalMatchesRow'
    BY <1>0, <1>5 DEF TypeOK, DenyMovement, RecordEvaluation
  <1>6. ASSUME NEW m \in Payments, CancelPayment(m)
        PROVE  ApprovalMatchesRow'
    BY <1>6 DEF TypeOK, CancelPayment
  <1>7. ASSUME NEW c \in Counterparties, NEW o \in {"none", "allow", "hold"},
               CreateCounterparty(c, o)
        PROVE  ApprovalMatchesRow'
    BY <1>7 DEF TypeOK, CreateCounterparty, RecordEvaluation, RaiseApproval
  <1>8. ASSUME NEW c \in Counterparties, DenyCounterparty(c)
        PROVE  ApprovalMatchesRow'
    BY <1>8 DEF TypeOK, DenyCounterparty, RecordEvaluation
  <1>9. ASSUME NEW c \in Counterparties,
               ApproveCounterparty(c) \/ RejectCounterparty(c)
        PROVE  ApprovalMatchesRow'
    BY <1>9 DEF TypeOK, ApproveCounterparty, RejectCounterparty, Decide
  <1>10. ASSUME NEW m \in Payments, NEW r \in DispatchResults, ApprovePayment(m, r)
         PROVE  ApprovalMatchesRow'
    BY <1>10 DEF SettlesAtOnce, TypeOK, ApprovePayment, RequirePending,
       StatusAfterDispatch, Decide
  <1>11. ASSUME NEW m \in Transfers, ApproveTransfer(m)
         PROVE  ApprovalMatchesRow'
    BY <1>11 DEF TypeOK, ApproveTransfer, RequirePending, Decide
  <1>12. ASSUME NEW m \in Movements, RejectMovement(m)
         PROVE  ApprovalMatchesRow'
    BY <1>12 DEF TypeOK, RejectMovement, RequirePending, Decide
  <1>13. ASSUME ExpireStale
         PROVE  ApprovalMatchesRow'
    BY <1>13 DEF TypeOK, ExpireStale, Stale
  <1>14. CASE UNCHANGED <<status, approval, evaluation>>
    BY <1>14
  <1> QED
    BY <1>1, <1>2, <1>3, <1>4, <1>5, <1>6, <1>7, <1>8, <1>9, <1>10, <1>11,
       <1>12, <1>13, <1>14 DEF Next, vars, Fund, VerifyCounterparty, FallDue

\* In every reachable state a row and its approval agree, provided the routing
\* provider settles what it dispatches at once.
THEOREM RowsAgree ==
    ASSUME SettlesAtOnce
    PROVE  Spec => []ApprovalMatchesRow
  <1>1. TypeOK /\ ApprovalMatchesRow /\ [Next]_vars => ApprovalMatchesRow'
    BY ApprovalStep
  <1> QED
    BY TypeInit, TypeStep, ApprovalInit, <1>1, PTL DEF Spec

----------------------------------------------------------------------------
(***************************************************************************)
(* The balance columns derive from the ledger.                             *)
(***************************************************************************)
LEMMA BalanceInit == Init => BalanceDerives
  BY DEF Init, BalanceDerives, Accounts

LEMMA BalanceStep == TypeOK /\ BalanceDerives /\ [Next]_vars => BalanceDerives'
  <1> SUFFICES ASSUME TypeOK, BalanceDerives, [Next]_vars
               PROVE  BalanceDerives'
    OBVIOUS
  <1> USE DEF BalanceDerives
  <1>a. \A m \in Movements : amount[m] \in Nat
    BY AmountsAreNaturals DEF TypeOK
  <1>b. /\ Holders \subseteq Accounts
        /\ Settlement \in Accounts \ Holders /\ Funding \in Accounts \ Holders
    BY NamesAreDistinct DEF Accounts, SystemAccounts
  <1>c. Amounts \subseteq Nat /\ Agents \subseteq Holders
    BY AmountsAreNaturals DEF Holders
  <1> USE <1>b, <1>c
  <1>1. ASSUME NEW h \in Holders, NEW a \in Amounts, Fund(h, a)
        PROVE  BalanceDerives'
    BY <1>1 DEF TypeOK, Fund, PostJournal
  <1>2. ASSUME NEW src \in Holders, NEW a \in Nat, NEW fromReservation \in BOOLEAN,
               PayOut(src, a, fromReservation)
        PROVE  BalanceDerives'
    BY <1>2 DEF TypeOK, PayOut, PostJournal
  <1>3. ASSUME NEW src \in Holders, NEW dst \in Accounts, NEW a \in Nat,
               NEW fromReservation \in BOOLEAN,
               InternalTransfer(src, dst, a, fromReservation)
        PROVE  BalanceDerives'
    <2>1. CASE fromReservation /\ src = dst
      BY <1>3, <2>1 DEF TypeOK, InternalTransfer, PostJournal
    <2>2. CASE fromReservation /\ src # dst
      BY <1>3, <2>2 DEF TypeOK, InternalTransfer, PostJournal
    <2>3. CASE ~fromReservation /\ src = dst
      BY <1>3, <2>3 DEF TypeOK, InternalTransfer, PostJournal
    <2>4. CASE ~fromReservation /\ src # dst
      BY <1>3, <2>4 DEF TypeOK, InternalTransfer, PostJournal
    <2> QED
      BY <2>1, <2>2, <2>3, <2>4
  <1>4. ASSUME NEW src \in Holders, NEW a \in Nat, UNCHANGED net,
               Reserve(src, a) \/ ReleaseReservation(src, a)
        PROVE  BalanceDerives'
    BY <1>4 DEF TypeOK, Reserve, ReleaseReservation
  <1>5. CASE UNCHANGED <<net, available, pendingOut>>
    BY <1>5
  <1>6. ASSUME ExpireStale
        PROVE  BalanceDerives'
    <2> DEFINE released(h) == Value({m \in Stale \cap Movements : source[m] = h})
    <2>1. \A h \in Holders : released(h) \in Nat
      BY ValueIsNatural
    <2> HIDE DEF released
    <2>2. /\ available' = [h \in Holders |-> available[h] + released(h)]
          /\ pendingOut' = [h \in Holders |-> pendingOut[h] - released(h)]
          /\ net' = net
      BY <1>6 DEF ExpireStale, released
    <2> QED
      BY <2>1, <2>2 DEF TypeOK
  <1>7. \A m \in Movements : source[m] \in Holders /\ destination[m] \in Accounts
    BY DEF TypeOK
  <1> HIDE DEF BalanceDerives
  <1>8. ASSUME NEW m \in Payments, NEW src \in Agents, NEW a \in Amounts,
               NEW o \in {"none", "allow"}, NEW r \in DispatchResults,
               CreatePayment(m, src, a, o, r)
        PROVE  BalanceDerives'
    BY <1>2, <1>8 DEF CreatePayment
  <1>9. ASSUME NEW m \in Transfers, NEW src \in Holders, NEW dst \in Holders,
               NEW a \in Amounts, NEW o \in {"none", "allow"},
               CreateTransfer(m, src, dst, a, o)
        PROVE  BalanceDerives'
    BY <1>3, <1>9 DEF CreateTransfer
  <1>10. ASSUME NEW m \in Movements, NEW src \in Agents, NEW a \in Amounts,
                HoldPayment(m, src, a) \/ HoldTransfer(m, src, a)
         PROVE  BalanceDerives'
    BY <1>4, <1>10 DEF HoldPayment, HoldTransfer
  <1>11. ASSUME NEW m \in Movements, CancelPayment(m) \/ RejectMovement(m)
         PROVE  BalanceDerives'
    BY <1>a, <1>4, <1>7, <1>11 DEF CancelPayment, RejectMovement
  <1>12. ASSUME NEW m \in Payments, NEW r \in DispatchResults, ApprovePayment(m, r)
         PROVE  BalanceDerives'
    BY <1>a, <1>2, <1>7, <1>12 DEF ApprovePayment, Movements
  <1>13. ASSUME NEW m \in Transfers, ApproveTransfer(m)
         PROVE  BalanceDerives'
    BY <1>a, <1>3, <1>7, <1>13 DEF ApproveTransfer, Movements
  <1> QED
    BY <1>1, <1>5, <1>6, <1>8, <1>9, <1>10, <1>11, <1>12, <1>13
    DEF Next, vars, Movements, DenyMovement, CreateCounterparty, DenyCounterparty,
        VerifyCounterparty, ApproveCounterparty, RejectCounterparty, FallDue

\* In every reachable state, for every holder, available equals the ledger's
\* balance less what is on hold: the invariant services/ledger.py claims, for
\* requests that do not overlap.
THEOREM LedgerInvariant == Spec => []BalanceDerives
  BY TypeInit, TypeStep, BalanceInit, BalanceStep, PTL DEF Spec

----------------------------------------------------------------------------
(***************************************************************************)
(* pending_out is the sum of the held movements.  A step adds a movement   *)
(* to the held ones, takes one or more away, or leaves them alone; in each *)
(* case the column follows the sum.                                        *)
(***************************************************************************)
LEMMA HeldInit == Init => PendingOutIsHeld
  <1> SUFFICES ASSUME Init, NEW h \in Holders
               PROVE  pendingOut[h] = Value(HeldFrom(h))
    BY DEF PendingOutIsHeld
  <1>1. Units(HeldFrom(h), amount) = {}
    BY DEF Init, HeldFrom, Units
  <1>2. Value(HeldFrom(h)) = 0
    BY <1>1, FS_EmptySet DEF Value
  <1> QED
    BY <1>2 DEF Init

\* Inserting a row as held and adding its amount to the source's pending_out.
LEMMA HoldAdds ==
    ASSUME TypeOK, TypeOK', PendingOutIsHeld,
           NEW m \in Movements, NEW src \in Holders, NEW a \in Nat,
           status[m] = "none",
           status' = [status EXCEPT ![m] = "pending_approval"],
           source' = [source EXCEPT ![m] = src],
           amount' = [amount EXCEPT ![m] = a],
           pendingOut' = [pendingOut EXCEPT ![src] = @ + a]
    PROVE  PendingOutIsHeld'
  <1> SUFFICES ASSUME NEW h \in Holders
               PROVE  pendingOut'[h] = Cardinality(Units(HeldFrom(h)', amount'))
    BY DEF PendingOutIsHeld, Value
  <1>1. pendingOut[h] = Cardinality(Units(HeldFrom(h), amount))
    BY DEF PendingOutIsHeld, Value
  <1>2. HeldFrom(h) \in SUBSET Movements /\ m \notin HeldFrom(h)
    BY DEF HeldFrom
  <1>3. Units(HeldFrom(h), amount) = Units(HeldFrom(h), amount')
    <2>1. \A x \in HeldFrom(h) : amount[x] = amount'[x]
      BY <1>2 DEF TypeOK
    <2> QED
      BY <2>1, ValueSameAmounts
  <1>4. amount' \in AmountsOf /\ amount'[m] = a
    BY DEF TypeOK, AmountsOf
  <1>5. CASE h = src
    <2>1. HeldFrom(h)' = HeldFrom(h) \cup {m}
      BY <1>5 DEF HeldFrom, TypeOK
    <2>2. Cardinality(Units(HeldFrom(h) \cup {m}, amount')) =
              Cardinality(Units(HeldFrom(h), amount')) + a
      BY <1>2, <1>4, ValueWith
    <2>3. Cardinality(Units(HeldFrom(h)', amount')) =
              Cardinality(Units(HeldFrom(h), amount)) + a
      BY <1>3, <2>1, <2>2, Zenon
    <2>4. pendingOut'[h] = pendingOut[h] + a
      BY <1>5 DEF TypeOK
    <2> QED
      BY <1>1, <2>3, <2>4
  <1>6. CASE h # src
    <2>1. HeldFrom(h)' = HeldFrom(h)
      BY <1>6 DEF HeldFrom, TypeOK
    <2>2. pendingOut'[h] = pendingOut[h]
      BY <1>6 DEF TypeOK
    <2> QED
      BY <1>1, <1>3, <2>1, <2>2, Zenon
  <1> QED
    BY <1>5, <1>6

\* Taking a set of held movements off, and their sums off pending_out.
LEMMA HoldsLeave ==
    ASSUME TypeOK, PendingOutIsHeld, NEW S \in SUBSET Movements,
           \A m \in S : status[m] = "pending_approval" /\ status'[m] # "pending_approval",
           \A m \in Movements \ S : status'[m] = status[m],
           UNCHANGED <<source, amount>>,
           \A h \in Holders :
               pendingOut'[h] = pendingOut[h] - Value({m \in S : source[m] = h})
    PROVE  PendingOutIsHeld'
  <1> SUFFICES ASSUME NEW h \in Holders
               PROVE  pendingOut'[h] = Cardinality(Units(HeldFrom(h)', amount'))
    BY DEF PendingOutIsHeld, Value
  <1> DEFINE T == {m \in S : source[m] = h}
  <1>1. pendingOut[h] = Cardinality(Units(HeldFrom(h), amount))
    BY DEF PendingOutIsHeld, Value
  <1>2. HeldFrom(h)' = HeldFrom(h) \ T
    BY DEF HeldFrom
  <1>3. HeldFrom(h) \in SUBSET Movements /\ T \in SUBSET HeldFrom(h)
    BY DEF HeldFrom
  <1>4. amount \in AmountsOf
    BY DEF TypeOK, AmountsOf
  <1>5. Cardinality(Units(HeldFrom(h) \ T, amount)) =
            Cardinality(Units(HeldFrom(h), amount)) - Cardinality(Units(T, amount))
    BY <1>3, <1>4, ValueWithout
  <1>6. pendingOut'[h] = pendingOut[h] - Cardinality(Units(T, amount))
    BY DEF Value
  <1>7. Cardinality(Units(HeldFrom(h)', amount')) =
            Cardinality(Units(HeldFrom(h), amount)) - Cardinality(Units(T, amount))
    BY <1>2, <1>5, Zenon
  <1> QED
    BY <1>1, <1>6, <1>7, Zenon

\* The same for one movement, in the form the handlers have.
LEMMA HoldLeaves ==
    ASSUME TypeOK, PendingOutIsHeld, NEW m \in Movements,
           status[m] = "pending_approval", NEW st, st # "pending_approval",
           status' = [status EXCEPT ![m] = st],
           UNCHANGED <<source, amount>>,
           pendingOut' = [pendingOut EXCEPT ![source[m]] = @ - amount[m]]
    PROVE  PendingOutIsHeld'
  <1>1. \A h \in Holders :
            pendingOut'[h] = pendingOut[h] - Value({x \in {m} : source[x] = h})
    <2>1. TAKE h \in Holders
    <2>2. amount \in AmountsOf /\ amount[m] \in Int /\ pendingOut[h] \in Int
      BY AmountsAreNaturals DEF TypeOK, AmountsOf
    <2>3. CASE source[m] = h
      <3>1. {x \in {m} : source[x] = h} = {m}
        BY <2>3
      <3>2. Value({x \in {m} : source[x] = h}) = amount[m]
        BY <2>2, <3>1, ValueOfOne, Zenon DEF Value
      <3> QED
        BY <2>3, <3>2 DEF TypeOK
    <2>4. CASE source[m] # h
      <3>1. Units({x \in {m} : source[x] = h}, amount) = {}
        BY <2>4 DEF Units
      <3>2. Value({x \in {m} : source[x] = h}) = 0
        BY <3>1, FS_EmptySet, Zenon DEF Value
      <3> QED
        BY <2>2, <2>4, <3>2 DEF TypeOK
    <2> QED
      BY <2>3, <2>4
  <1>2. {m} \in SUBSET Movements
    OBVIOUS
  <1>3. status'[m] # "pending_approval"
        /\ \A x \in Movements \ {m} : status'[x] = status[x]
    BY DEF TypeOK
  <1> QED
    BY <1>1, <1>2, <1>3, HoldsLeave

\* Inserting a row that is not held.
LEMMA HoldsStay ==
    ASSUME TypeOK, PendingOutIsHeld,
           NEW m \in Movements, status[m] = "none",
           NEW st, st # "pending_approval", NEW src, NEW a,
           status' = [status EXCEPT ![m] = st],
           source' = [source EXCEPT ![m] = src],
           amount' = [amount EXCEPT ![m] = a],
           UNCHANGED pendingOut
    PROVE  PendingOutIsHeld'
  <1> SUFFICES ASSUME NEW h \in Holders
               PROVE  pendingOut'[h] = Cardinality(Units(HeldFrom(h)', amount'))
    BY DEF PendingOutIsHeld, Value
  <1>1. HeldFrom(h)' = HeldFrom(h)
    BY DEF HeldFrom, TypeOK
  <1>2. \A x \in HeldFrom(h) : amount[x] = amount'[x]
    BY DEF HeldFrom, TypeOK
  <1>3. Units(HeldFrom(h), amount) = Units(HeldFrom(h), amount')
    BY <1>2, ValueSameAmounts
  <1>4. pendingOut'[h] = Cardinality(Units(HeldFrom(h), amount))
    BY DEF PendingOutIsHeld, Value
  <1> QED
    BY <1>1, <1>3, <1>4, Zenon

LEMMA HeldStep ==
    SettlesAtOnce /\ TypeOK /\ ApprovalMatchesRow /\ PendingOutIsHeld /\ [Next]_vars
        => PendingOutIsHeld'
  <1> SUFFICES ASSUME SettlesAtOnce, TypeOK, ApprovalMatchesRow, PendingOutIsHeld,
                      [Next]_vars
               PROVE  PendingOutIsHeld'
    OBVIOUS
  <1>0. TypeOK'
    BY TypeStep
  <1>a. Amounts \subseteq Nat /\ Agents \subseteq Holders
        /\ Payments \subseteq Movements /\ Transfers \subseteq Movements
    BY AmountsAreNaturals DEF Holders, Movements
  <1>b. \A m \in Movements : RequirePending(m) => status[m] = "pending_approval"
    BY DEF RequirePending, ApprovalMatchesRow
  <1>1. ASSUME NEW m \in Payments, NEW src \in Agents, NEW a \in Amounts,
               NEW o \in {"none", "allow"}, NEW r \in DispatchResults,
               CreatePayment(m, src, a, o, r)
        PROVE  PendingOutIsHeld'
    BY <1>1, <1>a, HoldsStay
    DEF CreatePayment, InsertMovement, PayOut, StatusAfterDispatch
  <1>2. ASSUME NEW m \in Movements, NEW src \in Agents, NEW a \in Amounts,
               HoldPayment(m, src, a) \/ HoldTransfer(m, src, a)
        PROVE  PendingOutIsHeld'
    <2>1. src \in Holders /\ a \in Nat
      BY <1>a
    <2>2. /\ status[m] = "none"
          /\ status' = [status EXCEPT ![m] = "pending_approval"]
          /\ source' = [source EXCEPT ![m] = src]
          /\ amount' = [amount EXCEPT ![m] = a]
          /\ pendingOut' = [pendingOut EXCEPT ![src] = @ + a]
      BY <1>2 DEF HoldPayment, HoldTransfer, InsertMovement, Reserve
    <2> QED
      BY <1>0, <2>1, <2>2, HoldAdds
  <1>3. ASSUME NEW m \in Transfers, NEW src \in Holders, NEW dst \in Holders,
               NEW a \in Amounts, NEW o \in {"none", "allow"},
               CreateTransfer(m, src, dst, a, o)
        PROVE  PendingOutIsHeld'
    BY <1>3, <1>a, HoldsStay DEF CreateTransfer, InsertMovement, InternalTransfer
  <1>4. ASSUME NEW m \in Movements, CancelPayment(m) \/ RejectMovement(m)
        PROVE  PendingOutIsHeld'
    BY <1>4, <1>b, HoldLeaves DEF CancelPayment, RejectMovement, ReleaseReservation
  <1>5. ASSUME NEW m \in Payments, NEW r \in DispatchResults, ApprovePayment(m, r)
        PROVE  PendingOutIsHeld'
    <2>1. r = "completed"
      BY DEF SettlesAtOnce
    <2>2. /\ m \in Movements /\ status[m] = "pending_approval"
          /\ status' = [status EXCEPT ![m] = "completed"]
          /\ UNCHANGED <<source, amount>>
          /\ pendingOut' = [pendingOut EXCEPT ![source[m]] = @ - amount[m]]
      BY <1>5, <2>1, <1>a, <1>b DEF ApprovePayment, PayOut, StatusAfterDispatch
    <2> QED
      BY <2>2, HoldLeaves
  <1>6. ASSUME NEW m \in Transfers, ApproveTransfer(m)
        PROVE  PendingOutIsHeld'
    BY <1>6, <1>a, <1>b, HoldLeaves DEF ApproveTransfer, InternalTransfer
  <1>7. ASSUME ExpireStale
        PROVE  PendingOutIsHeld'
    <2> DEFINE S == Stale \cap Movements
    <2>1. \A m \in S : status[m] = "pending_approval" /\ status'[m] # "pending_approval"
      BY <1>7 DEF ExpireStale, Stale, ApprovalMatchesRow
    <2>2. \A m \in Movements \ S : status'[m] = status[m]
      BY <1>7 DEF ExpireStale
    <2>3. \A h \in Holders :
              pendingOut'[h] = pendingOut[h] - Value({m \in S : source[m] = h})
      BY <1>7 DEF ExpireStale
    <2>4. UNCHANGED <<source, amount>>
      BY <1>7 DEF ExpireStale
    <2>5. S \in SUBSET Movements
      OBVIOUS
    <2> HIDE DEF S
    <2> QED
      BY <2>1, <2>2, <2>3, <2>4, <2>5, HoldsLeave
  <1>8. CASE UNCHANGED <<status, source, amount, pendingOut>>
    BY <1>8 DEF PendingOutIsHeld, HeldFrom, Value
  <1> QED
    BY <1>1, <1>2, <1>3, <1>4, <1>5, <1>6, <1>7, <1>8, <1>a
    DEF Next, vars, Fund, DenyMovement, CreateCounterparty, DenyCounterparty,
        VerifyCounterparty, ApproveCounterparty, RejectCounterparty, FallDue

\* In every reachable state the pending_out column of every holder is the sum
\* of its held movements, provided dispatches settle at once.
THEOREM HoldsAreExact ==
    ASSUME SettlesAtOnce
    PROVE  Spec => []PendingOutIsHeld
  <1>1. TypeOK /\ ApprovalMatchesRow /\ PendingOutIsHeld /\ [Next]_vars
          => (ApprovalMatchesRow /\ PendingOutIsHeld)'
    BY ApprovalStep, HeldStep
  <1> QED
    BY TypeInit, TypeStep, ApprovalInit, HeldInit, <1>1, PTL DEF Spec

----------------------------------------------------------------------------
(***************************************************************************)
(* Nobody overdraws.  That pending_out is not negative is no property of   *)
(* the handlers, which subtract without a check; it follows from the holds *)
(* being exact.                                                            *)
(***************************************************************************)
LEMMA SolventInit == Init => Solvent
  BY DEF Init, Solvent

LEMMA SolventStep ==
    TypeOK /\ Solvent /\ PendingOutIsHeld' /\ [Next]_vars => Solvent'
  <1> SUFFICES ASSUME TypeOK, Solvent, PendingOutIsHeld', [Next]_vars
               PROVE  Solvent'
    OBVIOUS
  <1>1. \A h \in Holders : pendingOut'[h] >= 0
    <2>1. TAKE h \in Holders
    <2>2. TypeOK'
      BY TypeStep
    <2>3. amount' \in AmountsOf /\ HeldFrom(h)' \in SUBSET Movements
      BY <2>2 DEF TypeOK, AmountsOf, HeldFrom
    <2>4. Cardinality(Units(HeldFrom(h)', amount')) \in Nat
      BY <2>3, UnitsFinite
    <2>5. pendingOut'[h] = Cardinality(Units(HeldFrom(h)', amount'))
      BY DEF PendingOutIsHeld, Value
    <2> QED
      BY <2>4, <2>5
  <1>a. /\ \A m \in Movements : amount[m] \in Nat
        /\ Amounts \subseteq Nat /\ Agents \subseteq Holders
        /\ Payments \subseteq Movements /\ Transfers \subseteq Movements
    BY AmountsAreNaturals DEF TypeOK, Holders, Movements
  <1> DEFINE Covered == \A h \in Holders : available'[h] >= 0
  <1>2. ASSUME NEW h \in Holders, NEW a \in Nat,
               available' = [available EXCEPT ![h] = @ + a]
        PROVE  Covered
    BY <1>2 DEF TypeOK, Solvent
  <1>3. ASSUME NEW h \in Holders, NEW a \in Nat, EnsureAvailable(h, a),
               available' = [available EXCEPT ![h] = @ - a]
        PROVE  Covered
    BY <1>3 DEF TypeOK, Solvent, EnsureAvailable
  <1>4. ASSUME NEW src \in Holders, NEW dst \in Holders, NEW a \in Nat, src # dst,
               EnsureAvailable(src, a),
               available' = [available EXCEPT ![src] = @ - a, ![dst] = @ + a]
        PROVE  Covered
    BY <1>4 DEF TypeOK, Solvent, EnsureAvailable
  <1>5. ASSUME UNCHANGED available
        PROVE  Covered
    BY <1>5 DEF Solvent
  <1>6. ASSUME NEW a \in Nat, NEW dst \in Accounts,
               available' = [available EXCEPT ![dst] = @ + a]
        PROVE  Covered
    BY <1>6 DEF TypeOK, Solvent
  <1>7. ASSUME ExpireStale
        PROVE  Covered
    <2> DEFINE released(h) == Value({m \in Stale \cap Movements : source[m] = h})
    <2>1. \A h \in Holders : released(h) \in Nat
      BY ValueIsNatural
    <2> HIDE DEF released
    <2>2. available' = [h \in Holders |-> available[h] + released(h)]
      BY <1>7 DEF ExpireStale, released
    <2> QED
      BY <2>1, <2>2 DEF TypeOK, Solvent
  <1> HIDE DEF Covered
  <1>8. ASSUME NEW m \in Payments, NEW src \in Agents, NEW a \in Amounts,
               NEW o \in {"none", "allow"}, NEW r \in DispatchResults,
               CreatePayment(m, src, a, o, r)
        PROVE  Covered
    BY <1>a, <1>3, <1>8 DEF CreatePayment, PayOut
  <1>9. ASSUME NEW m \in Movements, NEW src \in Agents, NEW a \in Amounts,
               HoldPayment(m, src, a) \/ HoldTransfer(m, src, a)
        PROVE  Covered
    BY <1>a, <1>3, <1>9 DEF HoldPayment, HoldTransfer, Reserve
  <1>10. ASSUME NEW m \in Transfers, NEW src \in Holders, NEW dst \in Holders,
                NEW a \in Amounts, NEW o \in {"none", "allow"},
                CreateTransfer(m, src, dst, a, o)
         PROVE  Covered
    BY <1>a, <1>4, <1>10 DEF CreateTransfer, InternalTransfer
  <1>11. ASSUME NEW m \in Movements, CancelPayment(m) \/ RejectMovement(m)
         PROVE  Covered
    <2>1. source[m] \in Holders
      BY DEF TypeOK
    <2>2. available' = [available EXCEPT ![source[m]] = @ + amount[m]]
      BY <1>11 DEF CancelPayment, RejectMovement, ReleaseReservation
    <2> QED
      BY <1>a, <1>2, <2>1, <2>2
  <1>12. ASSUME NEW m \in Transfers, ApproveTransfer(m)
         PROVE  Covered
    <2>1. destination[m] \in Accounts
      BY <1>a DEF TypeOK
    <2>2. available' = [available EXCEPT ![destination[m]] = @ + amount[m]]
      BY <1>12 DEF ApproveTransfer, InternalTransfer
    <2> QED
      BY <1>a, <1>6, <2>1, <2>2
  <1>13. ASSUME NEW h \in Holders, NEW a \in Amounts, Fund(h, a)
         PROVE  Covered
    BY <1>a, <1>2, <1>13 DEF Fund
  <1>14. Covered
    BY <1>5, <1>7, <1>8, <1>9, <1>10, <1>11, <1>12, <1>13, <1>a
    DEF Next, vars, ApprovePayment, PayOut, DenyMovement, CreateCounterparty,
        DenyCounterparty, VerifyCounterparty, ApproveCounterparty,
        RejectCounterparty, FallDue
  <1> QED
    BY <1>1, <1>14 DEF Solvent, Covered

\* In every reachable state no holder spends or holds more than it has, provided
\* dispatches settle at once.
THEOREM NobodyOverdraws ==
    ASSUME SettlesAtOnce
    PROVE  Spec => []Solvent
  <1>1. Init => TypeOK /\ ApprovalMatchesRow /\ PendingOutIsHeld /\ Solvent
    BY TypeInit, ApprovalInit, HeldInit, SolventInit
  <1>2. TypeOK /\ ApprovalMatchesRow /\ PendingOutIsHeld /\ Solvent /\ [Next]_vars
          => (TypeOK /\ ApprovalMatchesRow /\ PendingOutIsHeld /\ Solvent)'
    BY TypeStep, ApprovalStep, HeldStep, SolventStep
  <1> QED
    BY <1>1, <1>2, PTL DEF Spec

----------------------------------------------------------------------------
(***************************************************************************)
(* Decisions are final.                                                    *)
(***************************************************************************)
LEMMA FinalStep ==
    ASSUME TypeOK, ApprovalMatchesRow, [Next]_vars, NEW m \in Movements,
           approval[m] \in {"approved", "rejected", "expired"}
    PROVE  approval'[m] = approval[m] /\ status'[m] = status[m]
  <1> USE NamesAreDistinct DEF Subjects, Movements
  \* Its row is neither free nor held: no handler that writes it is enabled.
  <1>1. /\ status[m] # "none" /\ status[m] # "pending_approval"
        /\ evaluation[m] = "hold"
    BY DEF ApprovalMatchesRow, Executed
  <1>2. ASSUME NEW x \in Movements, x # m,
               \E st : status' = [status EXCEPT ![x] = st],
               \/ UNCHANGED approval
               \/ \E ap : approval' = [approval EXCEPT ![x] = ap]
        PROVE  approval'[m] = approval[m] /\ status'[m] = status[m]
    BY <1>2 DEF TypeOK
  <1>3. ASSUME NEW c \in Counterparties, UNCHANGED status,
               \/ UNCHANGED approval
               \/ \E ap : approval' = [approval EXCEPT ![c] = ap]
        PROVE  approval'[m] = approval[m] /\ status'[m] = status[m]
    BY <1>3 DEF TypeOK
  <1>4. CASE \E x \in Payments, src \in Agents, a \in Amounts, o \in {"none", "allow"},
                r \in DispatchResults : CreatePayment(x, src, a, o, r)
    BY <1>1, <1>2, <1>4 DEF CreatePayment, InsertMovement
  <1>5. CASE \E x \in Movements, src \in Agents, a \in Amounts :
                HoldPayment(x, src, a) \/ HoldTransfer(x, src, a)
    BY <1>1, <1>2, <1>5 DEF HoldPayment, HoldTransfer, InsertMovement, RaiseApproval
  <1>6. CASE \E x \in Transfers, src, dst \in Holders, a \in Amounts,
                o \in {"none", "allow"} : CreateTransfer(x, src, dst, a, o)
    BY <1>1, <1>2, <1>6 DEF CreateTransfer, InsertMovement
  <1>7. CASE \E x \in Movements : CancelPayment(x) \/ RejectMovement(x)
    BY <1>1, <1>2, <1>7 DEF CancelPayment, RejectMovement, RequirePending, Decide
  <1>8. CASE \E x \in Payments, r \in DispatchResults : ApprovePayment(x, r)
    BY <1>1, <1>2, <1>8 DEF ApprovePayment, RequirePending, Decide
  <1>9. CASE \E x \in Transfers : ApproveTransfer(x)
    BY <1>1, <1>2, <1>9 DEF ApproveTransfer, RequirePending, Decide
  <1>10. CASE \E c \in Counterparties :
                 \/ \E o \in {"none", "allow", "hold"} : CreateCounterparty(c, o)
                 \/ ApproveCounterparty(c) \/ RejectCounterparty(c)
    BY <1>3, <1>10 DEF CreateCounterparty, RaiseApproval, ApproveCounterparty,
       RejectCounterparty, Decide
  <1>11. CASE ExpireStale
    BY <1>11 DEF ExpireStale, Stale
  <1>12. CASE UNCHANGED <<status, approval>>
    BY <1>12
  <1> QED
    BY <1>4, <1>5, <1>6, <1>7, <1>8, <1>9, <1>10, <1>11, <1>12
    DEF Next, vars, Fund, DenyMovement, DenyCounterparty, VerifyCounterparty, FallDue

\* In every behaviour a decided approval and its row stay as they are, provided
\* dispatches settle at once.
THEOREM NoSecondDecision ==
    ASSUME SettlesAtOnce
    PROVE  Spec => DecisionsAreFinal
  <1>1. TypeOK /\ ApprovalMatchesRow /\ [Next]_vars =>
            [\A m \in Movements :
                approval[m] \in {"approved", "rejected", "expired"} =>
                    approval'[m] = approval[m] /\ status'[m] = status[m]]_vars
    BY FinalStep
  <1>2. TypeOK /\ ApprovalMatchesRow /\ [Next]_vars => ApprovalMatchesRow'
    BY ApprovalStep
  <1> QED
    BY <1>1, <1>2, TypeInit, TypeStep, ApprovalInit, PTL
    DEF Spec, DecisionsAreFinal

----------------------------------------------------------------------------
(***************************************************************************)
(* What has left the account.  Settlement is credited by payments only:    *)
(* HeldNamesFit says that a held payment names it and no held transfer     *)
(* does.                                                                   *)
(***************************************************************************)
Paid == {m \in Payments : Executed(m)}

HeldNamesFit ==
    \A m \in Movements : status[m] = "pending_approval" =>
        /\ m \in Payments => destination[m] = Settlement
        /\ m \in Transfers => destination[m] \in Holders

\* A payment goes through and its journal is posted.
LEMMA PaidAdds ==
    ASSUME TypeOK, TypeOK', SettlementIsPaid, NEW m \in Payments,
           ~Executed(m), Executed(m)',
           \A x \in Movements \ {m} : status'[x] = status[x] /\ amount'[x] = amount[x],
           net'[Settlement] = net[Settlement] + amount'[m]
    PROVE  SettlementIsPaid'
  <1>1. Paid \in SUBSET Movements /\ m \notin Paid /\ m \in Movements
    BY DEF Paid, Movements
  <1>2. Paid' = Paid \cup {m}
    BY DEF Paid, Executed, Movements
  <1>3. Units(Paid, amount) = Units(Paid, amount')
    <2>1. \A x \in Paid : amount[x] = amount'[x]
      BY <1>1
    <2> QED
      BY <2>1, ValueSameAmounts
  <1>4. amount' \in AmountsOf
    BY DEF TypeOK, AmountsOf
  <1>5. Cardinality(Units(Paid \cup {m}, amount')) =
            Cardinality(Units(Paid, amount')) + amount'[m]
    BY <1>1, <1>4, ValueWith
  <1>6. net[Settlement] = Cardinality(Units(Paid, amount))
    BY DEF SettlementIsPaid, Value, Paid
  <1>7. net'[Settlement] = Cardinality(Units(Paid', amount'))
    BY <1>2, <1>3, <1>5, <1>6, Zenon
  <1> QED
    BY <1>7 DEF SettlementIsPaid, Value, Paid

\* A step that leaves Settlement, and the payments that went through, alone.
LEMMA PaidStays ==
    ASSUME SettlementIsPaid, net'[Settlement] = net[Settlement],
           \A x \in Payments : /\ Executed(x)' <=> Executed(x)
                               /\ Executed(x) => amount'[x] = amount[x]
    PROVE  SettlementIsPaid'
  <1>1. Paid' = Paid
    BY DEF Paid
  <1>2. Units(Paid, amount) = Units(Paid, amount')
    <2>1. \A x \in Paid : amount[x] = amount'[x]
      BY DEF Paid
    <2> QED
      BY <2>1, ValueSameAmounts
  <1>3. net[Settlement] = Cardinality(Units(Paid, amount))
    BY DEF SettlementIsPaid, Value, Paid
  <1>4. net'[Settlement] = Cardinality(Units(Paid', amount'))
    BY <1>1, <1>2, <1>3, Zenon
  <1> QED
    BY <1>4 DEF SettlementIsPaid, Value, Paid

LEMMA PaidInit == Init => SettlementIsPaid /\ HeldNamesFit
  <1> SUFFICES ASSUME Init PROVE SettlementIsPaid /\ HeldNamesFit
    OBVIOUS
  <1>1. Units(Paid, amount) = {}
    BY DEF Init, Units, Paid, Executed, Movements
  <1>2. Cardinality(Units(Paid, amount)) = 0
    BY <1>1, FS_EmptySet, Zenon
  <1>3. net[Settlement] = 0
    BY DEF Init, Accounts, Settlement, SystemAccounts
  <1> QED
    BY <1>2, <1>3 DEF Init, SettlementIsPaid, Value, Paid, HeldNamesFit, Movements

LEMMA PaidStep ==
    SettlesAtOnce /\ TypeOK /\ ApprovalMatchesRow /\ SettlementIsPaid
      /\ HeldNamesFit /\ [Next]_vars
        => SettlementIsPaid' /\ HeldNamesFit'
  <1> SUFFICES ASSUME SettlesAtOnce, TypeOK, ApprovalMatchesRow, SettlementIsPaid,
                      HeldNamesFit, [Next]_vars
               PROVE  SettlementIsPaid' /\ HeldNamesFit'
    OBVIOUS
  <1> DEFINE Goal == SettlementIsPaid' /\ HeldNamesFit'
  <1>0. TypeOK'
    BY TypeStep
  <1>a. \A m \in Movements : /\ amount[m] \in Nat
                             /\ source[m] \in Holders /\ destination[m] \in Accounts
    BY AmountsAreNaturals DEF TypeOK
  <1>b. /\ Holders \subseteq Accounts /\ Agents \subseteq Holders /\ Treasury \in Holders
        /\ Settlement \in Accounts \ Holders /\ Funding \in Accounts \ Holders
        /\ Settlement # Funding /\ Amounts \subseteq Nat
        /\ Payments \subseteq Movements /\ Transfers \subseteq Movements
        /\ Payments \cap Transfers = {}
    BY NamesAreDistinct, AmountsAreNaturals
    DEF Accounts, SystemAccounts, Settlement, Funding, Holders, Movements
  <1>c. \A m \in Movements : approval[m] = "pending" => status[m] = "pending_approval"
    BY DEF ApprovalMatchesRow
  \* What the primitives do to Settlement.
  <1>d. ASSUME NEW src \in Holders, NEW a \in Nat, PostJournal(src, Settlement, a)
        PROVE  net'[Settlement] = net[Settlement] + a
    BY <1>b, <1>d DEF TypeOK, PostJournal
  <1>e. ASSUME NEW src \in Accounts \ {Settlement}, NEW dst \in Holders, NEW a \in Nat,
               PostJournal(src, dst, a)
        PROVE  net'[Settlement] = net[Settlement]
    BY <1>b, <1>e DEF TypeOK, PostJournal
  <1>1. ASSUME NEW h \in Holders, NEW a \in Amounts, Fund(h, a)
        PROVE  Goal
    <2>1. net'[Settlement] = net[Settlement]
      BY <1>b, <1>e, <1>1 DEF Fund
    <2>2. UNCHANGED <<status, amount, destination>>
      BY <1>1 DEF Fund
    <2> QED
      BY <2>1, <2>2, PaidStays DEF Executed, HeldNamesFit
  <1>2. ASSUME NEW m \in Payments, NEW src \in Agents, NEW a \in Amounts,
               NEW o \in {"none", "allow"}, NEW r \in DispatchResults,
               CreatePayment(m, src, a, o, r)
        PROVE  Goal
    <2>1. /\ status[m] = "none" /\ status'[m] = "completed"
          /\ amount'[m] = a
          /\ \A x \in Movements \ {m} : status'[x] = status[x] /\ amount'[x] = amount[x]
                                        /\ destination'[x] = destination[x]
      BY <1>b, <1>2 DEF TypeOK, CreatePayment, InsertMovement, StatusAfterDispatch, SettlesAtOnce
    <2>2. net'[Settlement] = net[Settlement] + amount'[m]
      BY <1>b, <1>d, <1>2, <2>1 DEF CreatePayment, PayOut
    <2>3. SettlementIsPaid'
      BY <1>0, <2>1, <2>2, PaidAdds DEF Executed
    <2> QED
      BY <1>b, <2>1, <2>3 DEF HeldNamesFit
  <1>3. ASSUME NEW m \in Movements, NEW src \in Agents, NEW a \in Amounts,
               \/ m \in Payments /\ HoldPayment(m, src, a)
               \/ m \in Transfers /\ HoldTransfer(m, src, a)
        PROVE  Goal
    <2>1. /\ status[m] = "none" /\ status'[m] = "pending_approval"
          /\ m \in Transfers => destination'[m] = Treasury
          /\ m \in Payments => destination'[m] = Settlement
          /\ \A x \in Movements \ {m} : status'[x] = status[x] /\ amount'[x] = amount[x]
                                        /\ destination'[x] = destination[x]
          /\ net' = net
      BY <1>b, <1>3 DEF TypeOK, HoldPayment, HoldTransfer, InsertMovement
    <2>2. SettlementIsPaid'
      BY <1>b, <2>1, PaidStays DEF Executed
    <2> QED
      BY <1>b, <2>1, <2>2 DEF HeldNamesFit
  <1>4. ASSUME NEW m \in Transfers, NEW src \in Holders, NEW dst \in Holders,
               NEW a \in Amounts, NEW o \in {"none", "allow"},
               CreateTransfer(m, src, dst, a, o)
        PROVE  Goal
    <2>1. /\ status[m] = "none" /\ status'[m] = "completed"
          /\ \A x \in Movements \ {m} : status'[x] = status[x] /\ amount'[x] = amount[x]
                                        /\ destination'[x] = destination[x]
      BY <1>b, <1>4 DEF TypeOK, CreateTransfer, InsertMovement
    <2>2. net'[Settlement] = net[Settlement]
      BY <1>b, <1>e, <1>4 DEF CreateTransfer, InternalTransfer
    <2>3. SettlementIsPaid'
      BY <1>b, <2>1, <2>2, PaidStays DEF Executed
    <2> QED
      BY <1>b, <2>1, <2>3 DEF HeldNamesFit
  <1>5. ASSUME NEW m \in Movements, CancelPayment(m) \/ RejectMovement(m)
        PROVE  Goal
    <2>1. /\ status[m] = "pending_approval" /\ status'[m] = "cancelled"
          /\ \A x \in Movements \ {m} : status'[x] = status[x]
          /\ UNCHANGED <<net, amount, destination>>
      BY <1>c, <1>5 DEF TypeOK, CancelPayment, RejectMovement, RequirePending
    <2>2. SettlementIsPaid'
      BY <1>b, <2>1, PaidStays DEF Executed
    <2> QED
      BY <1>b, <2>1, <2>2 DEF HeldNamesFit
  <1>6. ASSUME NEW m \in Payments, NEW r \in DispatchResults, ApprovePayment(m, r)
        PROVE  Goal
    <2>1. /\ status[m] = "pending_approval" /\ status'[m] = "completed"
          /\ \A x \in Movements \ {m} : status'[x] = status[x]
          /\ UNCHANGED <<amount, destination>>
      BY <1>b, <1>c, <1>6 DEF TypeOK, ApprovePayment, RequirePending,
         StatusAfterDispatch, SettlesAtOnce
    <2>2. net'[Settlement] = net[Settlement] + amount'[m]
      BY <1>a, <1>b, <1>d, <1>6, <2>1 DEF ApprovePayment, PayOut
    <2>3. SettlementIsPaid'
      BY <1>0, <2>1, <2>2, PaidAdds DEF Executed
    <2> QED
      BY <1>b, <2>1, <2>3 DEF HeldNamesFit
  <1>7. ASSUME NEW m \in Transfers, ApproveTransfer(m)
        PROVE  Goal
    <2>1. /\ status[m] = "pending_approval" /\ status'[m] = "completed"
          /\ \A x \in Movements \ {m} : status'[x] = status[x]
          /\ UNCHANGED <<amount, destination>>
      BY <1>b, <1>c, <1>7 DEF TypeOK, ApproveTransfer, RequirePending
    <2>2. destination[m] \in Holders
      BY <1>b, <2>1 DEF HeldNamesFit
    <2>3. net'[Settlement] = net[Settlement]
      BY <1>a, <1>b, <1>e, <1>7, <2>2 DEF ApproveTransfer, InternalTransfer
    <2>4. SettlementIsPaid'
      BY <1>b, <2>1, <2>3, PaidStays DEF Executed
    <2> QED
      BY <1>b, <2>1, <2>4 DEF HeldNamesFit
  <1>8. CASE ExpireStale
    <2>1. /\ \A x \in Movements : \/ status'[x] = status[x]
                                  \/ /\ status[x] = "pending_approval"
                                     /\ status'[x] = "cancelled"
          /\ UNCHANGED <<net, amount, destination>>
      BY <1>c, <1>8 DEF TypeOK, ExpireStale, Stale
    <2>2. SettlementIsPaid'
      BY <1>b, <2>1, PaidStays DEF Executed
    <2> QED
      BY <1>b, <2>1, <2>2 DEF HeldNamesFit
  <1>9. CASE UNCHANGED <<net, status, amount, destination>>
    BY <1>9, PaidStays DEF Executed, HeldNamesFit
  <1>10. Goal
    BY <1>b, <1>1, <1>2, <1>3, <1>4, <1>5, <1>6, <1>7, <1>8, <1>9
    DEF Next, vars, DenyMovement, CreateCounterparty, DenyCounterparty,
        VerifyCounterparty, ApproveCounterparty, RejectCounterparty, FallDue
  <1> QED
    BY <1>10 DEF Goal

\* What left the account is what the payments that went through say, each of
\* them once, provided dispatches settle at once.
THEOREM EachPaymentPostsOnce ==
    ASSUME SettlesAtOnce
    PROVE  Spec => []SettlementIsPaid
  <1>1. TypeOK /\ ApprovalMatchesRow /\ [Next]_vars => ApprovalMatchesRow'
    BY ApprovalStep
  <1>2. TypeOK /\ ApprovalMatchesRow /\ SettlementIsPaid /\ HeldNamesFit /\ [Next]_vars
            => SettlementIsPaid' /\ HeldNamesFit'
    BY PaidStep
  <1> QED
    BY <1>1, <1>2, TypeInit, TypeStep, ApprovalInit, PaidInit, PTL DEF Spec

----------------------------------------------------------------------------
(***************************************************************************)
(* What is overdue.  The row alone does not tell; the agreement with its   *)
(* approval does, which the decision handlers refuse once it has passed.   *)
(***************************************************************************)
LEMMA OverdueStep ==
    ASSUME TypeOK, ApprovalMatchesRow, [Next]_vars, NEW m \in Movements,
           m \in overdue, status[m] = "pending_approval"
    PROVE  \/ status'[m] = "pending_approval"
           \/ status'[m] = "cancelled" /\ approval'[m] = "expired"
  <1> DEFINE Goal == \/ status'[m] = "pending_approval"
                     \/ status'[m] = "cancelled" /\ approval'[m] = "expired"
  <1> USE NamesAreDistinct DEF Subjects, Movements
  <1>1. approval[m] = "pending"
    BY DEF ApprovalMatchesRow
  <1>2. ASSUME NEW x \in Movements, x # m,
               \E st : status' = [status EXCEPT ![x] = st]
        PROVE  Goal
    BY <1>2 DEF TypeOK
  <1>3. CASE \E x \in Payments, src \in Agents, a \in Amounts, o \in {"none", "allow"},
                r \in DispatchResults : CreatePayment(x, src, a, o, r)
    BY <1>2, <1>3 DEF CreatePayment, InsertMovement
  <1>4. CASE \E x \in Movements, src \in Agents, a \in Amounts :
                HoldPayment(x, src, a) \/ HoldTransfer(x, src, a)
    BY <1>2, <1>4 DEF HoldPayment, HoldTransfer, InsertMovement
  <1>5. CASE \E x \in Transfers, src, dst \in Holders, a \in Amounts,
                o \in {"none", "allow"} : CreateTransfer(x, src, dst, a, o)
    BY <1>2, <1>5 DEF CreateTransfer, InsertMovement
  <1>6. CASE \E x \in Movements \ {m} : CancelPayment(x)
    BY <1>2, <1>6 DEF CancelPayment
  <1>7. CASE CancelPayment(m)
    BY <1>1, <1>7 DEF CancelPayment, TypeOK
  <1>8. CASE \E x \in Movements : RejectMovement(x)
    BY <1>2, <1>8 DEF RejectMovement, RequirePending
  <1>9. CASE \E x \in Payments, r \in DispatchResults : ApprovePayment(x, r)
    BY <1>2, <1>9 DEF ApprovePayment, RequirePending
  <1>10. CASE \E x \in Transfers : ApproveTransfer(x)
    BY <1>2, <1>10 DEF ApproveTransfer, RequirePending
  <1>11. CASE ExpireStale
    BY <1>1, <1>11 DEF ExpireStale, Stale
  <1>12. CASE UNCHANGED status
    BY <1>12
  <1>13. Goal
    BY <1>3, <1>4, <1>5, <1>6, <1>7, <1>8, <1>9, <1>10, <1>11, <1>12
    DEF Next, vars, Fund, DenyMovement, CreateCounterparty, DenyCounterparty,
        VerifyCounterparty, ApproveCounterparty, RejectCounterparty, FallDue
  <1> QED
    BY <1>13 DEF Goal

\* From its expiry on a hold can only end by expiring, provided dispatches
\* settle at once: the owner can no longer release the money.
THEOREM TooLateToDecide ==
    ASSUME SettlesAtOnce
    PROVE  Spec => OverdueOnlyExpires
  <1>1. TypeOK /\ ApprovalMatchesRow /\ [Next]_vars =>
            [\A m \in Movements :
                m \in overdue /\ status[m] = "pending_approval" =>
                    \/ status'[m] = "pending_approval"
                    \/ status'[m] = "cancelled" /\ approval'[m] = "expired"]_vars
    BY OverdueStep
  <1>2. TypeOK /\ ApprovalMatchesRow /\ [Next]_vars => ApprovalMatchesRow'
    BY ApprovalStep
  <1> QED
    BY <1>1, <1>2, TypeInit, TypeStep, ApprovalInit, PTL
    DEF Spec, OverdueOnlyExpires

----------------------------------------------------------------------------
(***************************************************************************)
(* The safety half of the refinement: every step of the handlers is a step *)
(* of HeldFunds, or leaves what the contract shows as it is.               *)
(***************************************************************************)
stageNow == [m \in Movements |-> StageOf(status[m])]

\* HeldFunds counts with a FiniteSets of its own.
LEMMA CountedAlike == ASSUME NEW S PROVE Contract!Cardinality(S) = Cardinality(S)
  BY Zenon DEF Contract!Cardinality, Cardinality, Contract!IsFiniteSet, IsFiniteSet

\* The column that the handlers compare with is what the contract lets spend.
LEMMA AvailableIsSpendable ==
    ASSUME TypeOK, BalanceDerives, PendingOutIsHeld, NEW h \in Holders
    PROVE  Contract!Spendable(h) = available[h]
  <1> DEFINE held == {m \in Movements : stageNow[m] = "held" /\ source[m] = h}
  <1>1. held = HeldFrom(h)
    BY DEF HeldFrom, stageNow, StageOf, TypeOK, MovementStatus
  <1>2. Contract!Sum(held) = Value(HeldFrom(h))
    <2>1. Contract!Sum(held) = Contract!Cardinality(Units(held, amount))
      BY DEF Contract!Sum, Units, Amounts
    <2> QED
      BY <1>1, <2>1, CountedAlike, Zenon DEF Value
  <1>3. Contract!Spendable(h) = net[h] - Contract!Sum(held)
    BY DEF Contract!Spendable, stageNow
  <1>4. net[h] \in Int /\ pendingOut[h] \in Int /\ available[h] \in Int
    BY DEF TypeOK, Accounts
  <1>5. available[h] = net[h] - pendingOut[h] /\ pendingOut[h] = Value(HeldFrom(h))
    BY DEF BalanceDerives, PendingOutIsHeld
  <1> QED
    BY <1>2, <1>3, <1>4, <1>5

\* A change of one row is a change of one stage.
LEMMA StageFollows ==
    ASSUME TypeOK, NEW m \in Movements, NEW st, status' = [status EXCEPT ![m] = st]
    PROVE  stageNow' = [stageNow EXCEPT ![m] = StageOf(st)]
  BY DEF stageNow, TypeOK

LEMMA ContractInit == Init => Contract!Init
  BY NamesAreDistinct
  DEF Init, Contract!Init, StageOf, Holders, Accounts, Settlement, SystemAccounts

LEMMA RequestIsContract ==
    ASSUME TypeOK, BalanceDerives, PendingOutIsHeld,
           NEW m \in Movements, NEW src \in Holders, NEW dst \in Accounts, NEW a \in Amounts,
           NEW st, InsertMovement(m, st, src, dst, a), EnsureAvailable(src, a),
           \/ st = "completed" /\ PostJournal(src, dst, a)
           \/ st = "pending_approval" /\ UNCHANGED net
    PROVE  Contract!Next
  <1>1. a <= Contract!Spendable(src)
    BY AvailableIsSpendable DEF EnsureAvailable
  <1>2. stageNow[m] = "open"
    BY DEF InsertMovement, stageNow, StageOf
  <1>3. stageNow' = [stageNow EXCEPT ![m] = StageOf(st)]
    BY StageFollows DEF InsertMovement
  <1>4. StageOf("completed") = "done" /\ StageOf("pending_approval") = "held"
    BY DEF StageOf
  <1>5. Contract!Request(m, src, dst, a, StageOf(st))
    BY <1>1, <1>2, <1>3, <1>4
    DEF Contract!Request, Contract!Move, InsertMovement, PostJournal, stageNow
  <1>6. StageOf(st) \in {"done", "held"} /\ a \in 1 .. MaxAmount
    BY <1>4 DEF Amounts
  <1> QED
    BY <1>5, <1>6 DEF Contract!Next

LEMMA ApprovalIsContract ==
    ASSUME TypeOK, NEW m \in Movements, status[m] = "pending_approval",
           status' = [status EXCEPT ![m] = "completed"],
           UNCHANGED <<source, destination, amount>>,
           PostJournal(source[m], destination[m], amount[m])
    PROVE  Contract!Next
  <1>a. StageOf("pending_approval") = "held" /\ StageOf("completed") = "done"
    BY DEF StageOf
  <1>1. stageNow[m] = "held" /\ stageNow' = [stageNow EXCEPT ![m] = "done"]
    BY <1>a, StageFollows DEF stageNow
  <1>2. Contract!Settle(m)
    BY <1>1 DEF Contract!Settle, Contract!Move, PostJournal, stageNow
  <1> QED
    BY <1>2 DEF Contract!Next

LEMMA ReleaseIsContract ==
    ASSUME NEW S \in SUBSET Movements,
           \A m \in S : status[m] = "pending_approval" /\ status'[m] = "cancelled",
           \A m \in Movements \ S : status'[m] = status[m],
           UNCHANGED <<net, source, destination, amount>>
    PROVE  Contract!Next
  <1>1. \A m \in S : stageNow[m] = "held"
    BY DEF stageNow, StageOf
  <1>2. stageNow' = [m \in Movements |-> IF m \in S THEN "void" ELSE stageNow[m]]
    BY DEF stageNow, StageOf
  <1>3. Contract!Void(S)
    BY <1>1, <1>2 DEF Contract!Void, stageNow
  <1> QED
    BY <1>3 DEF Contract!Next

LEMMA ContractStep ==
    SettlesAtOnce /\ TypeOK /\ ApprovalMatchesRow /\ BalanceDerives /\ PendingOutIsHeld
      /\ HeldNamesFit /\ [Next]_vars => [Contract!Next]_(Contract!contractVars)
  <1> SUFFICES ASSUME SettlesAtOnce, TypeOK, ApprovalMatchesRow, BalanceDerives,
                      PendingOutIsHeld, HeldNamesFit, [Next]_vars
               PROVE  Contract!Next \/ UNCHANGED <<net, stageNow, source, destination, amount>>
    BY DEF Contract!contractVars, stageNow
  <1> DEFINE Goal == Contract!Next \/ UNCHANGED <<net, stageNow, source, destination, amount>>
  <1>a. /\ Holders \subseteq Accounts /\ Agents \subseteq Holders /\ Treasury \in Holders
        /\ Settlement \in Accounts /\ Funding \in Accounts \ Holders
        /\ Payments \subseteq Movements /\ Transfers \subseteq Movements
    BY NamesAreDistinct DEF Accounts, SystemAccounts, Holders, Movements
  <1>b. \A m \in Movements : approval[m] = "pending" => status[m] = "pending_approval"
    BY DEF ApprovalMatchesRow
  <1>1. ASSUME NEW h \in Holders, NEW a \in Amounts, Fund(h, a)
        PROVE  Goal
    <2>1. Contract!Deposit(Funding, h, a)
      BY <1>a, <1>1 DEF Fund, PostJournal, Contract!Deposit, Contract!Move
    <2> QED
      BY <1>a, <2>1 DEF Contract!Next, Amounts
  <1>2. ASSUME NEW m \in Payments, NEW src \in Agents, NEW a \in Amounts,
               NEW o \in {"none", "allow"}, NEW r \in DispatchResults,
               CreatePayment(m, src, a, o, r)
        PROVE  Goal
    <2>1. StatusAfterDispatch("processing", r) = "completed"
      BY DEF StatusAfterDispatch, SettlesAtOnce
    <2> QED
      BY <1>a, <1>2, <2>1, RequestIsContract DEF CreatePayment, PayOut
  <1>3. ASSUME NEW m \in Payments, NEW src \in Agents, NEW a \in Amounts,
               HoldPayment(m, src, a)
        PROVE  Goal
    BY <1>a, <1>3, RequestIsContract DEF HoldPayment, Reserve
  <1>4. ASSUME NEW m \in Transfers, NEW src \in Agents, NEW a \in Amounts,
               HoldTransfer(m, src, a)
        PROVE  Goal
    BY <1>a, <1>4, RequestIsContract DEF HoldTransfer, Reserve
  <1>5. ASSUME NEW m \in Transfers, NEW src \in Holders, NEW dst \in Holders,
               NEW a \in Amounts, NEW o \in {"none", "allow"},
               CreateTransfer(m, src, dst, a, o)
        PROVE  Goal
    BY <1>a, <1>5, RequestIsContract DEF CreateTransfer, InternalTransfer
  <1>6. ASSUME NEW m \in Movements, CancelPayment(m) \/ RejectMovement(m)
        PROVE  Goal
    <2>1. /\ status[m] = "pending_approval" /\ status'[m] = "cancelled"
          /\ \A x \in Movements \ {m} : status'[x] = status[x]
          /\ UNCHANGED <<net, source, destination, amount>>
      BY <1>b, <1>6 DEF TypeOK, CancelPayment, RejectMovement, RequirePending
    <2>2. {m} \in SUBSET Movements
      OBVIOUS
    <2> QED
      BY <2>1, <2>2, ReleaseIsContract
  <1>7. ASSUME NEW m \in Payments, NEW r \in DispatchResults, ApprovePayment(m, r)
        PROVE  Goal
    <2>1. status[m] = "pending_approval" /\ destination[m] = Settlement
      BY <1>a, <1>b, <1>7 DEF ApprovePayment, RequirePending, HeldNamesFit
    <2>2. status' = [status EXCEPT ![m] = "completed"]
      BY <1>7 DEF TypeOK, ApprovePayment, StatusAfterDispatch, SettlesAtOnce
    <2>3. PostJournal(source[m], destination[m], amount[m])
      BY <1>7, <2>1 DEF ApprovePayment, PayOut
    <2> QED
      BY <1>a, <1>7, <2>1, <2>2, <2>3, ApprovalIsContract DEF ApprovePayment
  <1>8. ASSUME NEW m \in Transfers, ApproveTransfer(m)
        PROVE  Goal
    BY <1>a, <1>b, <1>8, ApprovalIsContract
    DEF ApproveTransfer, RequirePending, InternalTransfer
  <1>9. CASE ExpireStale
    <2> DEFINE S == Stale \cap Movements
    <2>1. /\ \A x \in S : status[x] = "pending_approval" /\ status'[x] = "cancelled"
          /\ \A x \in Movements \ S : status'[x] = status[x]
          /\ UNCHANGED <<net, source, destination, amount>>
      BY <1>b, <1>9 DEF ExpireStale, Stale
    <2>2. S \in SUBSET Movements
      OBVIOUS
    <2> QED
      BY <2>1, <2>2, ReleaseIsContract
  <1>10. CASE UNCHANGED <<net, status, source, destination, amount>>
    BY <1>10 DEF stageNow
  <1> QED
    BY <1>a, <1>1, <1>2, <1>3, <1>4, <1>5, <1>6, <1>7, <1>8, <1>9, <1>10
    DEF Next, vars, DenyMovement, CreateCounterparty, DenyCounterparty,
        VerifyCounterparty, ApproveCounterparty, RejectCounterparty, FallDue

\* The handlers do what HeldFunds allows and nothing else, provided dispatches
\* settle at once: the column checks (available < amount) really cover what a
\* holder owns less what it has on hold, and each movement is done once.
THEOREM HandlersKeepTheContract ==
    ASSUME SettlesAtOnce
    PROVE  Spec => Contract!Init /\ [][Contract!Next]_(Contract!contractVars)
  <1> DEFINE Inv == /\ TypeOK /\ ApprovalMatchesRow /\ BalanceDerives
                    /\ PendingOutIsHeld /\ SettlementIsPaid /\ HeldNamesFit
  <1>1. Init => Inv
    BY TypeInit, ApprovalInit, BalanceInit, HeldInit, PaidInit
  <1>2. Inv /\ [Next]_vars => Inv'
    BY TypeStep, ApprovalStep, BalanceStep, HeldStep, PaidStep
  <1>3. Inv /\ [Next]_vars => [Contract!Next]_(Contract!contractVars)
    BY ContractStep
  <1> HIDE DEF Inv
  <1> QED
    BY <1>1, <1>2, <1>3, ContractInit, PTL DEF Spec

=============================================================================
