----------------------------- MODULE Idempotency -----------------------------
(***************************************************************************)
(* Idempotency keys of one credential, at the two doors of the service:    *)
(* the REST middleware (api/middleware.py) and the MCP tool runtime        *)
(* (mcp/runtime.py), which share the table idempotency_keys.               *)
(*                                                                         *)
(* Neither door does its work in one transaction.  The key is looked up,   *)
(* the handler runs in a session of its own and the key is stored in a     *)
(* third transaction.  A call is a request that carries a key; between two *)
(* of its steps other calls run, and it may die (a crash, a lost database  *)
(* connection, a commit that fails).  A REST answer is sent before the     *)
(* handler's session is committed: that is how the locked version of       *)
(* FastAPI ends a dependency with yield.                                   *)
(*                                                                         *)
(* Definitions marked "Fault" are wrong on purpose, as in MoneyMovement.   *)
(***************************************************************************)
EXTENDS FiniteSets

CONSTANTS
    Calls,    \* requests with an idempotency key; each id is used once
    Keys,     \* idempotency keys
    Bodies,   \* what a request asks for
    Nothing   \* no call, no record

VARIABLES
    record,      \* key -> the call it is stored for and how that call ended
    old,         \* keys whose record is older than the window
    call,        \* call -> its door, key and body, Nothing before it arrives
    at,          \* call -> where it is
    result,      \* call -> how it ended so far
    found,       \* call -> the call whose overage record it has found
    committed,   \* calls whose effect is committed
    audit,       \* call -> status of its mcp_audit row
    recent,      \* history: committed calls of the current window
    disturbed    \* history: keys used by overlapping or broken calls

callVars == <<call, at, result, found>>
keysVars == <<record, old, callVars, committed, audit, recent, disturbed>>

Posts == [door : {"rest", "mcp"}, key : Keys, body : Bodies]
Stored == [by : Calls, result : {"ok", "denied"}]
ASSUME NothingIsNoCall == Nothing \notin Calls \cup Posts \cup Stored

Places == {"idle", "stale", "handling", "answered", "settled", "closing",
           "finished", "dead"}
Results == {"none", "ok", "denied", "error", "conflict", "replayed"}

KeysTypeOK ==
    /\ record \in [Keys -> {Nothing} \cup Stored]
    /\ old \in SUBSET Keys
    /\ call \in [Calls -> {Nothing} \cup Posts]
    /\ at \in [Calls -> Places]
    /\ result \in [Calls -> Results]
    /\ found \in [Calls -> {Nothing} \cup Calls]
    /\ committed \in SUBSET Calls /\ recent \in SUBSET committed
    /\ audit \in [Calls -> Results]
    /\ disturbed \in SUBSET Keys

KeysInit ==
    /\ record = [k \in Keys |-> Nothing] /\ old = {}
    /\ call = [c \in Calls |-> Nothing]
    /\ at = [c \in Calls |-> "idle"]
    /\ result = [c \in Calls |-> "none"]
    /\ found = [c \in Calls |-> Nothing]
    /\ committed = {} /\ recent = {} /\ disturbed = {}
    /\ audit = [c \in Calls |-> "none"]

CallsOn(k) == {c \in Calls : call[c] # Nothing /\ call[c].key = k}
InFlight(c) == at[c] \in {"stale", "handling", "answered", "settled"}
IsRest(c) == call[c] # Nothing /\ call[c].door = "rest"
IsMcp(c) == call[c] # Nothing /\ call[c].door = "mcp"

MoveTo(c, place) == at' = [at EXCEPT ![c] = place]
End(c, place, r) == MoveTo(c, place) /\ result' = [result EXCEPT ![c] = r]

----------------------------------------------------------------------------
(***************************************************************************)
(* Looking the key up.                                                     *)
(***************************************************************************)

\* The request hash covers the door and the body.
SameRequest(k, req) ==
    /\ call[record[k].by].door = req.door
    /\ call[record[k].by].body = req.body

ComeIn(c, req) ==
    /\ at[c] = "idle"
    /\ call' = [call EXCEPT ![c] = req]
    /\ disturbed' = IF \E d \in CallsOn(req.key) : InFlight(d)
                    THEN disturbed \cup {req.key} ELSE disturbed
    /\ UNCHANGED <<record, old, committed, audit, recent>>

\* The middleware forgets a record that is older than the window, replays the
\* stored answer of the same request and refuses another one.
LookUpRest(c, k, b) ==
    LET req == [door |-> "rest", key |-> k, body |-> b]
    IN  /\ ComeIn(c, req)
        /\ \/ record[k] = Nothing
              /\ MoveTo(c, "handling")
              /\ UNCHANGED <<result, found>>
           \/ record[k] # Nothing /\ k \in old
              /\ found' = [found EXCEPT ![c] = record[k].by]
              /\ MoveTo(c, "stale")
              /\ UNCHANGED result
           \/ record[k] # Nothing /\ k \notin old
              /\ End(c, "finished", IF SameRequest(k, req) THEN "replayed" ELSE "conflict")
              /\ UNCHANGED found

\* Fault: the record is deleted by its key.
DeleteByKey(c) ==
    /\ at[c] = "stale"
    /\ record' = [record EXCEPT ![call[c].key] = Nothing]
    /\ old' = old \ {call[c].key}
    /\ MoveTo(c, "handling")
    /\ found' = [found EXCEPT ![c] = Nothing]
    /\ UNCHANGED <<call, result, committed, audit, recent, disturbed>>

\* The record is deleted by its id; somebody else may have been faster.
DeleteStale(c) ==
    /\ at[c] = "stale"
    /\ LET k == call[c].key
           gone == record[k] # Nothing /\ record[k].by = found[c]
       IN  /\ record' = IF gone THEN [record EXCEPT ![k] = Nothing] ELSE record
           /\ old' = IF gone THEN old \ {k} ELSE old
    /\ MoveTo(c, "handling")
    /\ found' = [found EXCEPT ![c] = Nothing]
    /\ UNCHANGED <<call, result, committed, audit, recent, disturbed>>

\* Fault: a record of another request is not looked at.
LookUpOwn(c, k, b) ==
    LET req == [door |-> "mcp", key |-> k, body |-> b]
        known == record[k] # Nothing /\ SameRequest(k, req)
    IN  /\ ComeIn(c, req)
        /\ \/ ~known /\ MoveTo(c, "handling") /\ UNCHANGED result
           \/ known /\ End(c, "closing", "replayed")
        /\ UNCHANGED found

\* The tool runtime knows no window.
LookUpMcp(c, k, b) ==
    LET req == [door |-> "mcp", key |-> k, body |-> b]
    IN  /\ ComeIn(c, req)
        /\ \/ record[k] = Nothing
              /\ MoveTo(c, "handling")
              /\ UNCHANGED result
           \/ record[k] # Nothing
              /\ End(c, "closing", IF SameRequest(k, req) THEN "replayed" ELSE "conflict")
        /\ UNCHANGED found

----------------------------------------------------------------------------
(***************************************************************************)
(* Running the handler.                                                    *)
(***************************************************************************)

\* The handler is through: the answer goes out and the commit comes after it.
\* A refusal rolls back, a fault is answered 500 and is not pinned to the key.
HandleRest(c) ==
    /\ IsRest(c) /\ at[c] = "handling"
    /\ \/ End(c, "answered", "ok")
       \/ End(c, "settled", "denied")
       \/ End(c, "finished", "error")
    /\ UNCHANGED <<record, old, call, found, committed, audit, recent, disturbed>>

TakeEffect(c) ==
    /\ committed' = committed \cup {c}
    /\ recent' = recent \cup {c}

CommitRest(c) ==
    /\ at[c] = "answered"
    /\ TakeEffect(c)
    /\ MoveTo(c, "settled")
    /\ UNCHANGED <<record, old, call, result, found, audit, disturbed>>

\* A tool commits before it answers.  A policy denial rolls back and is a
\* result like any other; every other error is reported and not stored.
HandleMcp(c) ==
    /\ IsMcp(c) /\ at[c] = "handling"
    /\ \/ End(c, "settled", "ok") /\ TakeEffect(c)
       \/ End(c, "settled", "denied") /\ UNCHANGED <<committed, recent>>
       \/ End(c, "closing", "error") /\ UNCHANGED <<committed, recent>>
    /\ UNCHANGED <<record, old, call, found, audit, disturbed>>

----------------------------------------------------------------------------
(***************************************************************************)
(* Storing the key.                                                        *)
(***************************************************************************)
Put(c) == [record EXCEPT ![call[c].key] = [by |-> c, result |-> result[c]]]

\* Fault: the answer is stored as soon as it is known.
StoreWhenAnswered(c) ==
    /\ IsRest(c) /\ at[c] \in {"answered", "settled"}
    /\ record' = IF record[call[c].key] = Nothing THEN Put(c) ELSE record
    /\ MoveTo(c, "finished")
    /\ UNCHANGED <<old, call, result, found, committed, audit, recent, disturbed>>

\* INSERT ... ON CONFLICT DO NOTHING.
StoreRest(c) ==
    /\ IsRest(c) /\ at[c] = "settled"
    /\ record' = IF record[call[c].key] = Nothing THEN Put(c) ELSE record
    /\ MoveTo(c, "finished")
    /\ UNCHANGED <<old, call, result, found, committed, audit, recent, disturbed>>

\* Fault: a call that loses the insert is noted as an error.
StoreOrError(c) ==
    /\ IsMcp(c) /\ at[c] = "settled"
    /\ \/ record[call[c].key] = Nothing /\ record' = Put(c)
          /\ MoveTo(c, "closing") /\ UNCHANGED result
       \/ record[call[c].key] # Nothing /\ UNCHANGED record /\ End(c, "closing", "error")
    /\ UNCHANGED <<old, call, found, committed, audit, recent, disturbed>>

\* A plain INSERT: a call that loses it raises, after its effect is committed;
\* the client gets an error while the status to be audited stays as it was.
StoreMcp(c) ==
    /\ IsMcp(c) /\ at[c] = "settled"
    /\ record' = IF record[call[c].key] = Nothing THEN Put(c) ELSE record
    /\ MoveTo(c, "closing")
    /\ UNCHANGED <<old, call, result, found, committed, audit, recent, disturbed>>

\* The audit row is written last, in a session of its own.
WriteAudit(c) ==
    /\ at[c] = "closing"
    /\ audit' = [audit EXCEPT ![c] = result[c]]
    /\ MoveTo(c, "finished")
    /\ UNCHANGED <<record, old, call, result, found, committed, recent, disturbed>>

----------------------------------------------------------------------------
\* The process or its connection is lost: what is not committed never will be,
\* and a committed call leaves no record.
Die(c) ==
    /\ InFlight(c) \/ at[c] = "closing"
    /\ MoveTo(c, "dead")
    /\ disturbed' = IF at[c] = "settled" /\ c \in committed
                    THEN disturbed \cup {call[c].key} ELSE disturbed
    /\ UNCHANGED <<record, old, call, result, found, committed, audit, recent>>

\* The window passes; a request takes seconds, so none is under way.
WindowPasses(k) ==
    /\ record[k] # Nothing /\ k \notin old
    /\ \A c \in CallsOn(k) : ~InFlight(c)
    /\ old' = old \cup {k}
    /\ recent' = recent \ CallsOn(k)
    /\ disturbed' = disturbed \ {k}
    /\ UNCHANGED <<record, callVars, committed, audit>>

KeysNext ==
    \/ \E c \in Calls, k \in Keys, b \in Bodies : LookUpRest(c, k, b) \/ LookUpMcp(c, k, b)
    \/ \E c \in Calls :
          \/ DeleteStale(c)
          \/ HandleRest(c) \/ CommitRest(c) \/ HandleMcp(c)
          \/ StoreRest(c) \/ StoreMcp(c) \/ WriteAudit(c)
          \/ Die(c)
    \/ \E k \in Keys : WindowPasses(k)

KeysSpec == KeysInit /\ [][KeysNext]_keysVars

----------------------------------------------------------------------------
(***************************************************************************)
(* Properties.                                                             *)
(***************************************************************************)

\* A client that waits for each call to end before it retries, and whose calls
\* do not break between commit and record, has at most one effect per key and
\* window, whatever it sends, at whichever door, and whatever is refused,
\* fails, breaks earlier or outlives the window in between.
OneEffectUnlessRaced ==
    \A c, d \in recent :
        call[c].key = call[d].key /\ call[c].key \notin disturbed => c = d

\* What a record replays is what happened, even if calls overlap or break: a
\* success is replayed only for a call that is committed, a refusal only for
\* one that was rolled back.
RecordsAreTrue ==
    \A k \in Keys :
        record[k] # Nothing => (record[k].result = "ok" <=> record[k].by \in committed)

\* Within the window a record neither disappears nor changes, in particular
\* not by a call that found its predecessor overage and is slow to delete it.
RecordsAreKept ==
    [][\A k \in Keys :
          record[k] # Nothing /\ k \notin old => record'[k] = record[k]]_keysVars

\* The audit row of a tool call says "ok" exactly if its effect is committed,
\* whatever the client was told.
AuditIsTrue ==
    \A c \in Calls :
        IsMcp(c) /\ at[c] = "finished" => (audit[c] = "ok" <=> c \in committed)

\* What the REST API promises: a request with the same key and the same body as
\* an earlier one gets the answer of that one, so only one of them has an effect.
SameRequestOnce ==
    \A c, d \in recent : IsRest(c) /\ call[c] = call[d] => c = d

=============================================================================
