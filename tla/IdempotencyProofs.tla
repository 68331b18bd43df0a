------------------------- MODULE IdempotencyProofs -------------------------
(***************************************************************************)
(* What idempotency keys guarantee, for every number of calls, keys and    *)
(* bodies.                                                                 *)
(***************************************************************************)
EXTENDS Idempotency, TLAPS

Over == {"closing", "finished", "dead"}

\* How far a call is, how it ended and whether it is committed fit together.
CallsFit ==
    \A c \in Calls :
       /\ at[c] = "idle" <=> call[c] = Nothing
       /\ at[c] \in {"idle", "stale", "handling"} => c \notin committed
       /\ at[c] = "answered" => IsRest(c) /\ result[c] = "ok" /\ c \notin committed
       /\ at[c] = "settled" => result[c] \in {"ok", "denied"}
       /\ at[c] \in {"settled", "closing"} => (result[c] = "ok" <=> c \in committed)
       /\ IsMcp(c) /\ at[c] = "finished" => (audit[c] = "ok" <=> c \in committed)

\* A record is of a call that is over, and says what became of it.
RecordsFit ==
    /\ \A k \in Keys : record[k] # Nothing =>
          /\ at[record[k].by] \in Over
          /\ record[k].result = "ok" <=> record[k].by \in committed
    /\ \A k \in old : record[k] # Nothing

\* The record that a call has found overage is overage as long as it is there;
\* it does not come back, since the call it is of is over.
FoundFit ==
    \A c \in Calls : at[c] = "stale" =>
       /\ found[c] \in Calls /\ at[found[c]] \in Over
       /\ record[call[c].key] # Nothing /\ record[call[c].key].by = found[c]
             => call[c].key \in old

\* A key without a race has one call under way at most.  While it runs there is
\* no other effect and no record, but for the one that it has found overage; once
\* the call is over, its effect has a record.
UndisturbedFit ==
    \A c \in Calls : call[c] # Nothing /\ call[c].key \notin disturbed =>
       /\ c \in recent => \/ at[c] = "settled"
                          \/ record[call[c].key] # Nothing /\ call[c].key \notin old
       /\ InFlight(c) =>
             /\ \A d \in CallsOn(call[c].key) : InFlight(d) \/ d \in recent => d = c
             /\ at[c] # "stale" => record[call[c].key] = Nothing
             /\ at[c] = "stale" /\ record[call[c].key] # Nothing => record[call[c].key].by = found[c]

KeysInv ==
    KeysTypeOK /\ CallsFit /\ RecordsFit /\ FoundFit /\ UndisturbedFit /\ OneEffectUnlessRaced

LEMMA KeysInvInit == KeysInit => KeysInv
  BY NothingIsNoCall DEF KeysInit, KeysInv, KeysTypeOK, CallsFit, RecordsFit, FoundFit, UndisturbedFit,
     OneEffectUnlessRaced, Places, Results, InFlight, CallsOn, IsMcp, IsRest

----------------------------------------------------------------------------
(***************************************************************************)
(* One lemma per step of a call, one step in it per part of the invariant. *)
(***************************************************************************)

LEMMA LookUpRestKeeps == ASSUME KeysInv, NEW c \in Calls, NEW k \in Keys, NEW b \in Bodies, LookUpRest(c, k, b) PROVE KeysInv'
  <1> USE NothingIsNoCall DEF KeysInv, LookUpRest, ComeIn, SameRequest, MoveTo, End
  <1>1. KeysTypeOK'
    BY DEF KeysTypeOK, Places, Results, Posts, Stored, CallsFit
  <1>2. CallsFit'
    BY DEF KeysTypeOK, CallsFit, Posts, IsRest, IsMcp
  <1>3. RecordsFit'
    BY DEF KeysTypeOK, CallsFit, RecordsFit, Over, Stored, Posts
  <1>4. FoundFit'
    BY DEF KeysTypeOK, CallsFit, RecordsFit, FoundFit, Over, Stored, Posts
  <1>5. UndisturbedFit'
    BY DEF KeysTypeOK, CallsFit, RecordsFit, FoundFit, UndisturbedFit, Over, InFlight, CallsOn, Stored, Posts
  <1>6. OneEffectUnlessRaced'
    BY DEF KeysTypeOK, CallsFit, UndisturbedFit, OneEffectUnlessRaced, InFlight, CallsOn, Posts
  <1> QED
    BY <1>1, <1>2, <1>3, <1>4, <1>5, <1>6

LEMMA LookUpMcpKeeps == ASSUME KeysInv, NEW c \in Calls, NEW k \in Keys, NEW b \in Bodies, LookUpMcp(c, k, b) PROVE KeysInv'
  <1> USE NothingIsNoCall DEF KeysInv, LookUpMcp, ComeIn, SameRequest, MoveTo, End
  <1>1. KeysTypeOK'
    BY DEF KeysTypeOK, Places, Results, Posts, Stored, CallsFit
  <1>2. CallsFit'
    BY DEF KeysTypeOK, CallsFit, Posts, IsRest, IsMcp
  <1>3. RecordsFit'
    BY DEF KeysTypeOK, CallsFit, RecordsFit, Over, Stored, Posts
  <1>4. FoundFit'
    BY DEF KeysTypeOK, CallsFit, RecordsFit, FoundFit, Over, Stored, Posts
  <1>5. UndisturbedFit'
    BY DEF KeysTypeOK, CallsFit, RecordsFit, FoundFit, UndisturbedFit, Over, InFlight, CallsOn, Stored, Posts
  <1>6. OneEffectUnlessRaced'
    BY DEF KeysTypeOK, CallsFit, UndisturbedFit, OneEffectUnlessRaced, InFlight, CallsOn, Posts
  <1> QED
    BY <1>1, <1>2, <1>3, <1>4, <1>5, <1>6

LEMMA DeleteStaleKeeps == ASSUME KeysInv, NEW c \in Calls, DeleteStale(c) PROVE KeysInv'
  <1> USE NothingIsNoCall DEF KeysInv, DeleteStale, MoveTo
  <1>1. KeysTypeOK'
    BY DEF KeysTypeOK, Places, Results, Posts, Stored, CallsFit
  <1>2. CallsFit'
    BY DEF KeysTypeOK, CallsFit, Posts, IsRest, IsMcp
  <1>3. RecordsFit'
    BY DEF KeysTypeOK, CallsFit, RecordsFit, Over, Stored, Posts
  <1>4. FoundFit'
    BY DEF KeysTypeOK, CallsFit, RecordsFit, FoundFit, Over, Stored, Posts
  <1>5. UndisturbedFit'
    BY DEF KeysTypeOK, CallsFit, RecordsFit, FoundFit, UndisturbedFit, Over, InFlight, CallsOn, Stored, Posts
  <1>6. OneEffectUnlessRaced'
    BY DEF KeysTypeOK, CallsFit, UndisturbedFit, OneEffectUnlessRaced, InFlight, CallsOn, Posts
  <1> QED
    BY <1>1, <1>2, <1>3, <1>4, <1>5, <1>6

LEMMA HandleRestKeeps == ASSUME KeysInv, NEW c \in Calls, HandleRest(c) PROVE KeysInv'
  <1> USE NothingIsNoCall DEF KeysInv, HandleRest, MoveTo, End
  <1>1. KeysTypeOK'
    BY DEF KeysTypeOK, Places, Results, Posts, Stored, CallsFit
  <1>2. CallsFit'
    BY DEF KeysTypeOK, CallsFit, Posts, IsRest, IsMcp
  <1>3. RecordsFit'
    BY DEF KeysTypeOK, CallsFit, RecordsFit, Over, Stored, Posts
  <1>4. FoundFit'
    BY DEF KeysTypeOK, CallsFit, RecordsFit, FoundFit, Over, Stored, Posts
  <1>5. UndisturbedFit'
    BY DEF KeysTypeOK, CallsFit, RecordsFit, FoundFit, UndisturbedFit, Over, InFlight, CallsOn, Stored, Posts
  <1>6. OneEffectUnlessRaced'
    BY DEF KeysTypeOK, CallsFit, UndisturbedFit, OneEffectUnlessRaced, InFlight, CallsOn, Posts
  <1> QED
    BY <1>1, <1>2, <1>3, <1>4, <1>5, <1>6

LEMMA CommitRestKeeps == ASSUME KeysInv, NEW c \in Calls, CommitRest(c) PROVE KeysInv'
  <1> USE NothingIsNoCall DEF KeysInv, CommitRest, TakeEffect, MoveTo
  <1>1. KeysTypeOK'
    BY DEF KeysTypeOK, Places, Results, Posts, Stored, CallsFit
  <1>2. CallsFit'
    BY DEF KeysTypeOK, CallsFit, Posts, IsRest, IsMcp
  <1>3. RecordsFit'
    BY DEF KeysTypeOK, CallsFit, RecordsFit, Over, Stored, Posts
  <1>4. FoundFit'
    BY DEF KeysTypeOK, CallsFit, RecordsFit, FoundFit, Over, Stored, Posts
  <1>5. UndisturbedFit'
    BY DEF KeysTypeOK, CallsFit, RecordsFit, FoundFit, UndisturbedFit, Over, InFlight, CallsOn, Stored, Posts
  <1>6. OneEffectUnlessRaced'
    BY DEF KeysTypeOK, CallsFit, UndisturbedFit, OneEffectUnlessRaced, InFlight, CallsOn, Posts
  <1> QED
    BY <1>1, <1>2, <1>3, <1>4, <1>5, <1>6

LEMMA HandleMcpKeeps == ASSUME KeysInv, NEW c \in Calls, HandleMcp(c) PROVE KeysInv'
  <1> USE NothingIsNoCall DEF KeysInv, HandleMcp, TakeEffect, End, MoveTo
  <1>1. KeysTypeOK'
    BY DEF KeysTypeOK, Places, Results, Posts, Stored, CallsFit
  <1>2. CallsFit'
    BY DEF KeysTypeOK, CallsFit, Posts, IsRest, IsMcp
  <1>3. RecordsFit'
    BY DEF KeysTypeOK, CallsFit, RecordsFit, Over, Stored, Posts
  <1>4. FoundFit'
    BY DEF KeysTypeOK, CallsFit, RecordsFit, FoundFit, Over, Stored, Posts
  <1>5. UndisturbedFit'
    BY DEF KeysTypeOK, CallsFit, RecordsFit, FoundFit, UndisturbedFit, Over, InFlight, CallsOn, Stored, Posts
  <1>6. OneEffectUnlessRaced'
    BY DEF KeysTypeOK, CallsFit, UndisturbedFit, OneEffectUnlessRaced, InFlight, CallsOn, Posts
  <1> QED
    BY <1>1, <1>2, <1>3, <1>4, <1>5, <1>6

LEMMA StoreRestKeeps == ASSUME KeysInv, NEW c \in Calls, StoreRest(c) PROVE KeysInv'
  <1> USE NothingIsNoCall DEF KeysInv, StoreRest, Put, MoveTo
  <1>1. KeysTypeOK'
    BY DEF KeysTypeOK, Places, Results, Posts, Stored, CallsFit
  <1>2. CallsFit'
    BY DEF KeysTypeOK, CallsFit, Posts, IsRest, IsMcp
  <1>3. RecordsFit'
    BY DEF KeysTypeOK, CallsFit, RecordsFit, Over, Stored, Posts
  <1>4. FoundFit'
    BY DEF KeysTypeOK, CallsFit, RecordsFit, FoundFit, Over, Stored, Posts
  <1>5. UndisturbedFit'
    BY DEF KeysTypeOK, CallsFit, RecordsFit, FoundFit, UndisturbedFit, Over, InFlight, CallsOn, Stored, Posts
  <1>6. OneEffectUnlessRaced'
    BY DEF KeysTypeOK, CallsFit, UndisturbedFit, OneEffectUnlessRaced, InFlight, CallsOn, Posts
  <1> QED
    BY <1>1, <1>2, <1>3, <1>4, <1>5, <1>6

LEMMA StoreMcpKeeps == ASSUME KeysInv, NEW c \in Calls, StoreMcp(c) PROVE KeysInv'
  <1> USE NothingIsNoCall DEF KeysInv, StoreMcp, Put, MoveTo
  <1>1. KeysTypeOK'
    BY DEF KeysTypeOK, Places, Results, Posts, Stored, CallsFit
  <1>2. CallsFit'
    BY DEF KeysTypeOK, CallsFit, Posts, IsRest, IsMcp
  <1>3. RecordsFit'
    BY DEF KeysTypeOK, CallsFit, RecordsFit, Over, Stored, Posts
  <1>4. FoundFit'
    BY DEF KeysTypeOK, CallsFit, RecordsFit, FoundFit, Over, Stored, Posts
  <1>5. UndisturbedFit'
    BY DEF KeysTypeOK, CallsFit, RecordsFit, FoundFit, UndisturbedFit, Over, InFlight, CallsOn, Stored, Posts
  <1>6. OneEffectUnlessRaced'
    BY DEF KeysTypeOK, CallsFit, UndisturbedFit, OneEffectUnlessRaced, InFlight, CallsOn, Posts
  <1> QED
    BY <1>1, <1>2, <1>3, <1>4, <1>5, <1>6

LEMMA WriteAuditKeeps == ASSUME KeysInv, NEW c \in Calls, WriteAudit(c) PROVE KeysInv'
  <1> USE NothingIsNoCall DEF KeysInv, WriteAudit, MoveTo
  <1>1. KeysTypeOK'
    BY DEF KeysTypeOK, Places, Results, Posts, Stored, CallsFit
  <1>2. CallsFit'
    BY DEF KeysTypeOK, CallsFit, Posts, IsRest, IsMcp
  <1>3. RecordsFit'
    BY DEF KeysTypeOK, CallsFit, RecordsFit, Over, Stored, Posts
  <1>4. FoundFit'
    BY DEF KeysTypeOK, CallsFit, RecordsFit, FoundFit, Over, Stored, Posts
  <1>5. UndisturbedFit'
    BY DEF KeysTypeOK, CallsFit, RecordsFit, FoundFit, UndisturbedFit, Over, InFlight, CallsOn, Stored, Posts
  <1>6. OneEffectUnlessRaced'
    BY DEF KeysTypeOK, CallsFit, UndisturbedFit, OneEffectUnlessRaced, InFlight, CallsOn, Posts
  <1> QED
    BY <1>1, <1>2, <1>3, <1>4, <1>5, <1>6

LEMMA DieKeeps == ASSUME KeysInv, NEW c \in Calls, Die(c) PROVE KeysInv'
  <1> USE NothingIsNoCall DEF KeysInv, Die, MoveTo
  <1>1. KeysTypeOK'
    <2>1. at[c] = "settled" => call[c].key \in Keys
      BY DEF KeysTypeOK, CallsFit, Posts
    <2>2. disturbed' \in SUBSET Keys
      BY <2>1 DEF KeysTypeOK
    <2>3. at' \in [Calls -> Places]
      BY DEF KeysTypeOK, Places
    <2> QED
      BY <2>2, <2>3 DEF KeysTypeOK
  <1>2. CallsFit'
    BY DEF KeysTypeOK, CallsFit, InFlight, Posts, IsRest, IsMcp
  <1>3. RecordsFit'
    BY DEF KeysTypeOK, CallsFit, RecordsFit, Over, Stored, Posts
  <1>4. FoundFit'
    BY DEF KeysTypeOK, CallsFit, RecordsFit, FoundFit, Over, Stored, Posts
  <1>5. UndisturbedFit'
    BY DEF KeysTypeOK, CallsFit, RecordsFit, FoundFit, UndisturbedFit, Over, InFlight, CallsOn, Stored, Posts
  <1>6. OneEffectUnlessRaced'
    BY DEF KeysTypeOK, CallsFit, UndisturbedFit, OneEffectUnlessRaced, InFlight, CallsOn, Posts
  <1> QED
    BY <1>1, <1>2, <1>3, <1>4, <1>5, <1>6

LEMMA WindowPassesKeeps == ASSUME KeysInv, NEW k \in Keys, WindowPasses(k) PROVE KeysInv'
  <1> USE NothingIsNoCall DEF KeysInv, WindowPasses, callVars
  <1>1. KeysTypeOK'
    BY DEF KeysTypeOK, Places, Results, Posts, Stored, CallsFit
  <1>2. CallsFit'
    BY DEF KeysTypeOK, CallsFit, Posts, IsRest, IsMcp
  <1>3. RecordsFit'
    BY DEF KeysTypeOK, CallsFit, RecordsFit, Over, Stored, Posts
  <1>4. FoundFit'
    BY DEF KeysTypeOK, CallsFit, RecordsFit, FoundFit, Over, Stored, Posts
  <1>5. UndisturbedFit'
    BY DEF KeysTypeOK, CallsFit, RecordsFit, FoundFit, UndisturbedFit, Over, InFlight, CallsOn, Stored, Posts
  <1>6. OneEffectUnlessRaced'
    BY DEF KeysTypeOK, CallsFit, UndisturbedFit, OneEffectUnlessRaced, InFlight, CallsOn, Posts
  <1> QED
    BY <1>1, <1>2, <1>3, <1>4, <1>5, <1>6

----------------------------------------------------------------------------
LEMMA KeysInvStep == KeysInv /\ [KeysNext]_keysVars => KeysInv'
  <1> SUFFICES ASSUME KeysInv, [KeysNext]_keysVars PROVE KeysInv'
    OBVIOUS
  <1>1. CASE UNCHANGED keysVars
    BY <1>1 DEF keysVars, callVars, KeysInv, KeysTypeOK, CallsFit, RecordsFit, FoundFit, UndisturbedFit,
       OneEffectUnlessRaced, InFlight, CallsOn, IsRest, IsMcp
  <1>2. CASE KeysNext
    BY <1>2, LookUpRestKeeps, LookUpMcpKeeps, DeleteStaleKeeps, HandleRestKeeps,
       CommitRestKeeps, HandleMcpKeeps, StoreRestKeeps, StoreMcpKeeps, WriteAuditKeeps,
       DieKeeps, WindowPassesKeeps DEF KeysNext
  <1> QED
    BY <1>1, <1>2

LEMMA KeysInvariant == KeysSpec => []KeysInv
  BY KeysInvInit, KeysInvStep, PTL DEF KeysSpec

\* Records, calls, effects and audit rows keep their types, and what is in the
\* current window is committed (StoreRest and StoreMcp record results that are
\* "ok" or "denied" only: an error is not pinned to its key).
THEOREM KeysTypeCorrect == KeysSpec => []KeysTypeOK
  <1>1. KeysInv => KeysTypeOK
    BY DEF KeysInv
  <1> QED
    BY <1>1, KeysInvariant, PTL

\* A client that waits for the end of a call before it retries, and whose calls do
\* not break between commit and record, has at most one effect per key and window.
THEOREM WaitingRetriesHaveOneEffect == KeysSpec => []OneEffectUnlessRaced
  <1>1. KeysInv => OneEffectUnlessRaced
    BY DEF KeysInv
  <1> QED
    BY <1>1, KeysInvariant, PTL

\* What the middleware or the runtime replays is what happened, even if calls
\* overlap, break or outlive the window.
THEOREM ReplaysAreTrue == KeysSpec => []RecordsAreTrue
  <1>1. KeysInv => RecordsAreTrue
    BY DEF KeysInv, RecordsFit, RecordsAreTrue
  <1> QED
    BY <1>1, KeysInvariant, PTL

\* An audit row says "ok" exactly if the tool's effect is committed (runtime.py).
THEOREM AuditRowsAreTrue == KeysSpec => []AuditIsTrue
  <1>1. KeysInv => AuditIsTrue
    BY DEF KeysInv, CallsFit, AuditIsTrue
  <1> QED
    BY <1>1, KeysInvariant, PTL

\* Within the window no call deletes or replaces a record, however slow it is to
\* delete the overage one it has found (middleware.py).
THEOREM NoRecordIsLost == KeysSpec => RecordsAreKept
  <1> DEFINE Kept == \A k \in Keys : record[k] # Nothing /\ k \notin old => record'[k] = record[k]
  <1>1. KeysInv /\ [KeysNext]_keysVars => [Kept]_keysVars
    <2> SUFFICES ASSUME KeysInv, KeysNext, NEW k \in Keys, record[k] # Nothing, k \notin old
                 PROVE  record'[k] = record[k]
      BY DEF keysVars
    <2>1. ASSUME NEW c \in Calls, DeleteStale(c) PROVE record'[k] = record[k]
      BY <2>1 DEF DeleteStale, KeysInv, KeysTypeOK, FoundFit
    <2>2. ASSUME NEW c \in Calls, StoreRest(c) \/ StoreMcp(c) PROVE record'[k] = record[k]
      BY <2>2 DEF StoreRest, StoreMcp, Put, KeysInv, KeysTypeOK
    <2> QED
      BY <2>1, <2>2 DEF KeysNext, LookUpRest, LookUpMcp, ComeIn, HandleRest, CommitRest, HandleMcp,
         WriteAudit, Die, WindowPasses
  <1> HIDE DEF Kept
  <1>2. KeysSpec => [][Kept]_keysVars
    BY <1>1, KeysInvariant, PTL DEF KeysSpec
  <1> QED
    BY <1>2 DEF RecordsAreKept, Kept

=============================================================================
