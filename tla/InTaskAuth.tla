----------------------------- MODULE InTaskAuth -----------------------------
(***************************************************************************)
(* In-task authorization (a2a/auth.py): a runner that needs credentials    *)
(* registers a challenge, reports AUTH_REQUIRED and waits on a future; a   *)
(* client answers through POST /tasks/{id}/auth:provide.                   *)
(*                                                                         *)
(* The registry's lock is never contended and record_status never          *)
(* suspends, so each function runs in one step up to its `await fut`.      *)
(* A call of request_auth makes one challenge, which bears its name; its   *)
(* challenge_id is the uuid the class gives by default, never empty.       *)
(***************************************************************************)
EXTENDS TaskStore

CONSTANTS
    Askers,     \* the calls of request_auth and await_auth
    NoId        \* no challenge; credentials without a challenge_id

ASSUME AuthAssumption == NoId \notin Askers

VARIABLES
    pending,    \* _pending: the challenge registered for each task
    fut,        \* the future of each challenge
    call,       \* each call: its task, the challenge it waits on, its state
    latest      \* the challenge registered last for each task (observed)

authVars == <<pending, fut, call, latest>>

Futures == {"none", "open", "answered", "failed", "cancelled"}
Calls == [task : Tasks \cup {NoTask}, on : Askers \cup {NoId}, hit : BOOLEAN,
          phase : {"idle", "waiting", "resumed", "refused", "unwound"}]

InitAuth ==
    /\ pending = [t \in Tasks |-> NoId]
    /\ fut = [q \in Askers |-> "none"]
    /\ call = [a \in Askers |-> [task |-> NoTask, on |-> NoId, hit |-> FALSE,
                                 phase |-> "idle"]]
    /\ latest = [t \in Tasks |-> NoId]

Waiting(a) == call[a].phase = "waiting"
Requested(a) == call[a].on = a

-----------------------------------------------------------------------------
(* request_auth: whatever was registered for the task is replaced.  On an  *)
(* evicted task record_status raises and the challenge is taken back.      *)
RequestAuth(a, t) ==
    LET live == t \in Live(store)
    IN /\ call[a].phase = "idle"
       /\ StateOf(store, t) # "ABSENT"
       /\ pending' = [pending EXCEPT ![t] = IF live THEN a ELSE NoId]
       /\ fut' = [fut EXCEPT ![a] = IF live THEN "open" ELSE "failed"]
       /\ call' = [call EXCEPT ![a] = [@ EXCEPT !.task = t, !.on = a,
                       !.phase = IF live THEN "waiting" ELSE "refused"]]
       /\ latest' = [latest EXCEPT ![t] = a]
       /\ store' = IF live THEN RecordStatus(store, t, "AUTH_REQUIRED") ELSE store

(* await_auth: wait on the future somebody else's challenge has.           *)
AwaitAuth(a, t) ==
    /\ call[a].phase = "idle"
    /\ call' = [call EXCEPT ![a] = [@ EXCEPT !.task = t, !.on = pending[t],
                    !.phase = IF pending[t] = NoId THEN "refused" ELSE "waiting"]]
    /\ UNCHANGED <<store, pending, fut, latest>>

Matches(id, q) == id = NoId \/ id = q

(* resolve answers the challenge; the future may be done by then.          *)
Answer(q) == fut' = [fut EXCEPT ![q] = IF @ = "open" THEN "answered" ELSE @]

(* Mutants of Provide: a mismatch drops the challenge; the task is not     *)
(* taken out of AUTH_REQUIRED.                                             *)
ProvideForgetting(t, id) ==
    /\ t \in Live(store) /\ pending[t] # NoId
    /\ pending' = [pending EXCEPT ![t] = NoId]
    /\ IF Matches(id, pending[t])
       THEN Answer(pending[t]) /\ store' = RecordStatus(store, t, "WORKING")
       ELSE UNCHANGED <<fut, store>>
    /\ UNCHANGED <<call, latest>>

ProvideQuietly(t, id) ==
    /\ t \in Live(store) /\ pending[t] # NoId
    /\ Matches(id, pending[t])
    /\ pending' = [pending EXCEPT ![t] = NoId]
    /\ Answer(pending[t])
    /\ UNCHANGED <<store, call, latest>>

(* provide_credentials: 404 without the task, an error without a challenge *)
(* or, the challenge registered again, with another one's id; otherwise    *)
(* the answer and WORKING, whatever the task's state is.                   *)
Provide(t, id) ==
    /\ t \in Live(store) /\ pending[t] # NoId
    /\ Matches(id, pending[t])
    /\ pending' = [pending EXCEPT ![t] = NoId]
    /\ Answer(pending[t])
    /\ store' = RecordStatus(store, t, "WORKING")
    /\ UNCHANGED <<call, latest>>

(* The asyncio task of a waiting call is cancelled, and with it the future *)
(* it waits on, which it may share with others.                            *)
CancelWait(a) ==
    /\ Waiting(a) /\ ~call[a].hit
    /\ call' = [call EXCEPT ![a].hit = TRUE]
    /\ fut' = [fut EXCEPT ![call[a].on] = IF @ = "open" THEN "cancelled" ELSE @]
    /\ UNCHANGED <<store, pending, latest>>

(* CancelledError in request_auth: registry.cancel takes back whatever is  *)
(* registered for the task by now, and fails its future.                   *)
Unregister(t) ==
    /\ pending' = [pending EXCEPT ![t] = NoId]
    /\ fut' = IF pending[t] # NoId /\ fut[pending[t]] = "open"
              THEN [fut EXCEPT ![pending[t]] = "failed"] ELSE fut

Unwind(a) ==
    /\ Waiting(a)
    /\ call[a].hit \/ fut[call[a].on] = "cancelled"
    /\ call' = [call EXCEPT ![a].phase = "unwound"]
    /\ IF Requested(a) THEN Unregister(call[a].task) ELSE UNCHANGED <<pending, fut>>
    /\ UNCHANGED <<store, latest>>

(* The future is done: the runner has its credentials, or an error.        *)
Wake(a) ==
    /\ Waiting(a) /\ ~call[a].hit
    /\ fut[call[a].on] \in {"answered", "failed"}
    /\ call' = [call EXCEPT ![a].phase =
                   IF fut[call[a].on] = "answered" THEN "resumed" ELSE "refused"]
    /\ UNCHANGED <<store, pending, fut, latest>>

AuthStep(t) ==
    /\ \/ \E a \in Askers :
            \/ RequestAuth(a, t) \/ AwaitAuth(a, t)
            \/ CancelWait(a) \/ Unwind(a) \/ Wake(a)
       \/ \E id \in Askers \cup {NoId} : Provide(t, id)
    /\ UNCHANGED now

(* Whatever the rest of the agent does to the tasks meanwhile.             *)
AuthSpec ==
    /\ InitStore /\ InitAuth
    /\ [][(\E t \in Tasks : AuthStep(t)) \/ UNCHANGED authVars]_<<store, now, authVars>>

(* The same, but nobody else writes AUTH_REQUIRED, as is so in the code:   *)
(* the tasks of the table that show it showed it before.                   *)
NobodyElseAsks ==
    /\ UNCHANGED authVars /\ store' \in StoreValue
    /\ \A t \in Live(store') : StateOf(store', t) = "AUTH_REQUIRED"
           => t \in Live(store) /\ StateOf(store, t) = "AUTH_REQUIRED"

AskingSpec ==
    /\ InitStore /\ InitAuth
    /\ [][(\E t \in Tasks : AuthStep(t)) \/ NobodyElseAsks]_<<store, now, authVars>>

-----------------------------------------------------------------------------
(* The registry of challenges is well-typed.                               *)
AuthOK ==
    /\ pending \in [Tasks -> Askers \cup {NoId}]
    /\ fut \in [Askers -> Futures]
    /\ call \in [Askers -> Calls]
    /\ latest \in [Tasks -> Askers \cup {NoId}]

(* A runner that waits can be answered: a challenge with an open future is *)
(* registered, unless a later challenge for its task has replaced it.  A   *)
(* wrong id, a cancelled sibling or an evicted task must not strand it.    *)
ChallengeIsReachable == \A t \in Tasks :
    LET q == latest[t] IN q # NoId /\ fut[q] = "open" => pending[t] = q

(* A task whose runner asked for credentials can be given them: somebody   *)
(* is registered to take them, unless the wait was cancelled.              *)
AuthRequiredIsAnswerable == \A t \in Live(store) :
    StateOf(store, t) = "AUTH_REQUIRED" /\ latest[t] # NoId /\ pending[t] = NoId
        => \E a \in Askers : call[a].task = t /\ call[a].phase = "unwound"
=============================================================================
