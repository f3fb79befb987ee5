------------------------ MODULE TaskServices_proofs ------------------------
(***************************************************************************)
(* Proofs about services that surround the tasks, for any tasks.           *)
(*                                                                         *)
(* In-task authorization: while a runner waits on the newest challenge of  *)
(* its task, a client can answer it.  The invariant that is inductive adds *)
(* that a challenge registered for a task is that of a call which has      *)
(* begun on that task: the same challenge is never the newest of two.      *)
(*                                                                         *)
(* Webhooks: nothing is skipped and nothing goes back, for any number of   *)
(* configurations, retries, stops and any queue size.  The invariant that  *)
(* is inductive orders what a webhook was told, what its worker is about   *)
(* to tell it, what the worker's stream still holds, and the task.         *)
(*                                                                         *)
(* The list: a walk along the page tokens shows every task that does not   *)
(* change once, because whoever is not in a full page comes after it.      *)
(***************************************************************************)
EXTENDS InTaskAuth, PushDispatcher, TaskListing, TaskStore_proofs

-----------------------------------------------------------------------------
(* In-task authorization.                                                  *)

authAll == <<store, now, authVars>>

LatestIsBegun == \A t \in Tasks :
    latest[t] # NoId => call[latest[t]].phase # "idle" /\ call[latest[t]].task = t

AuthInv == AuthOK /\ LatestIsBegun /\ ChallengeIsReachable

(* The registry begins empty.                                              *)
LEMMA AuthInit == InitStore /\ InitAuth => AuthInv
<1> SUFFICES ASSUME InitAuth PROVE AuthInv
  OBVIOUS
<1>1. AuthOK
  BY DEF InitAuth, AuthOK, Futures, Calls
<1>2. LatestIsBegun /\ ChallengeIsReachable
  BY DEF InitAuth, LatestIsBegun, ChallengeIsReachable
<1> QED
  BY <1>1, <1>2 DEF AuthInv

-----------------------------------------------------------------------------
(* One lemma for each operation.                                           *)

LEMMA RequestKeeps ==
    ASSUME AuthInv, NEW a \in Askers, NEW t \in Tasks, RequestAuth(a, t)
    PROVE  AuthInv'
<1> DEFINE live == t \in Live(store)
<1> USE DEF AuthInv
<1>1. /\ call[a].phase = "idle"
      /\ pending' = [pending EXCEPT ![t] = IF live THEN a ELSE NoId]
      /\ fut' = [fut EXCEPT ![a] = IF live THEN "open" ELSE "failed"]
      /\ call' = [call EXCEPT ![a] = [call[a] EXCEPT !.task = t, !.on = a,
                      !.phase = IF live THEN "waiting" ELSE "refused"]]
      /\ latest' = [latest EXCEPT ![t] = a]
  BY DEF RequestAuth
<1> HIDE DEF live
<1>2. AuthOK'
  <2> DEFINE w == [call[a] EXCEPT !.task = t, !.on = a,
                      !.phase = IF live THEN "waiting" ELSE "refused"]
  <2>1. w \in Calls
    BY DEF AuthOK, Calls
  <2>2. call' = [call EXCEPT ![a] = w]
    BY <1>1
  <2> HIDE DEF w
  <2>3. call' \in [Askers -> Calls]
    BY <2>1, <2>2 DEF AuthOK
  <2>4. /\ pending' \in [Tasks -> Askers \cup {NoId}]
        /\ latest' \in [Tasks -> Askers \cup {NoId}]
    BY <1>1 DEF AuthOK
  <2>5. fut' \in [Askers -> Futures]
    BY <1>1 DEF AuthOK, Futures
  <2> QED
    BY <2>3, <2>4, <2>5 DEF AuthOK
<1>3. call'[a].phase # "idle" /\ call'[a].task = t /\ a # NoId
  BY <1>1, AuthAssumption DEF AuthOK, Calls
<1>4. LatestIsBegun'
  BY <1>1, <1>3 DEF AuthOK, LatestIsBegun
<1>5. ASSUME NEW u \in Tasks, latest'[u] # NoId, fut'[latest'[u]] = "open"
      PROVE  pending'[u] = latest'[u]
  <2>1. CASE u = t
    <3>1. latest'[u] = a
      BY <1>1, <2>1 DEF AuthOK
    <3>2. live
      BY <1>1, <1>5, <3>1 DEF AuthOK
    <3> QED
      BY <1>1, <2>1, <3>1, <3>2 DEF AuthOK
  <2>2. CASE u # t
    <3>1. latest'[u] = latest[u] /\ pending'[u] = pending[u]
      BY <1>1, <2>2 DEF AuthOK
    <3>2. latest[u] # a
      BY <1>1, <1>5, <3>1 DEF LatestIsBegun
    <3>3. fut'[latest[u]] = fut[latest[u]]
      BY <1>1, <1>5, <3>1, <3>2 DEF AuthOK
    <3> QED
      BY <1>5, <3>1, <3>3 DEF ChallengeIsReachable
  <2> QED
    BY <2>1, <2>2
<1>6. ChallengeIsReachable'
  BY <1>5 DEF ChallengeIsReachable
<1> QED
  BY <1>2, <1>4, <1>6

LEMMA AwaitKeeps ==
    ASSUME AuthInv, NEW a \in Askers, NEW t \in Tasks, AwaitAuth(a, t)
    PROVE  AuthInv'
<1> USE DEF AuthInv, AwaitAuth
<1>1. AuthOK'
  BY DEF AuthOK, Calls
<1>2. LatestIsBegun'
  BY DEF AuthOK, Calls, LatestIsBegun
<1>3. ChallengeIsReachable'
  BY DEF ChallengeIsReachable
<1> QED
  BY <1>1, <1>2, <1>3

LEMMA ProvideKeeps ==
    ASSUME AuthInv, NEW t \in Tasks, NEW id \in Askers \cup {NoId}, Provide(t, id)
    PROVE  AuthInv'
<1> USE DEF AuthInv
<1>1. /\ pending[t] # NoId /\ pending' = [pending EXCEPT ![t] = NoId]
      /\ fut' = [fut EXCEPT ![pending[t]] = IF fut[pending[t]] = "open" THEN "answered"
                                            ELSE fut[pending[t]]]
      /\ call' = call /\ latest' = latest
  BY DEF Provide, Answer
<1>2. AuthOK'
  BY <1>1 DEF AuthOK, Futures
<1>3. LatestIsBegun'
  BY <1>1 DEF LatestIsBegun
<1>4. ChallengeIsReachable'
  BY <1>1 DEF AuthOK, ChallengeIsReachable
<1> QED
  BY <1>2, <1>3, <1>4

LEMMA CancelKeeps ==
    ASSUME AuthInv, NEW a \in Askers, CancelWait(a)
    PROVE  AuthInv'
<1> USE DEF AuthInv
<1>1. /\ call' = [call EXCEPT ![a].hit = TRUE]
      /\ fut' = [fut EXCEPT ![call[a].on] = IF fut[call[a].on] = "open" THEN "cancelled"
                                            ELSE fut[call[a].on]]
      /\ pending' = pending /\ latest' = latest
  BY DEF CancelWait
<1>2. AuthOK'
  BY <1>1 DEF AuthOK, Calls, Futures
<1>3. LatestIsBegun'
  BY <1>1 DEF AuthOK, Calls, LatestIsBegun
<1>4. ChallengeIsReachable'
  BY <1>1 DEF AuthOK, ChallengeIsReachable
<1> QED
  BY <1>2, <1>3, <1>4

LEMMA UnwindKeeps ==
    ASSUME AuthInv, NEW a \in Askers, NEW t \in Tasks, Unwind(a)
    PROVE  AuthInv'
<1> DEFINE u == call[a].task
<1> USE DEF AuthInv
<1>1. call' = [call EXCEPT ![a].phase = "unwound"] /\ latest' = latest
  BY DEF Unwind
<1>2. \/ pending' = pending /\ fut' = fut
      \/ /\ pending' = [pending EXCEPT ![u] = NoId]
         /\ fut' = IF pending[u] # NoId /\ fut[pending[u]] = "open"
                   THEN [fut EXCEPT ![pending[u]] = "failed"] ELSE fut
  BY DEF Unwind, Unregister
<1> HIDE DEF u
<1>3. AuthOK'
  BY <1>1, <1>2 DEF AuthOK, Calls, Futures
<1>4. LatestIsBegun'
  BY <1>1 DEF AuthOK, Calls, LatestIsBegun
<1>5. ChallengeIsReachable'
  BY <1>1, <1>2 DEF AuthOK, ChallengeIsReachable
<1> QED
  BY <1>3, <1>4, <1>5

LEMMA WakeKeeps ==
    ASSUME AuthInv, NEW a \in Askers, Wake(a)
    PROVE  AuthInv'
<1> USE DEF AuthInv, Wake
<1>1. AuthOK'
  BY DEF AuthOK, Calls
<1>2. LatestIsBegun'
  BY DEF AuthOK, Calls, LatestIsBegun
<1>3. ChallengeIsReachable'
  BY DEF ChallengeIsReachable
<1> QED
  BY <1>1, <1>2, <1>3

LEMMA OthersKeep == AuthInv /\ UNCHANGED authVars => AuthInv'
BY DEF AuthInv, authVars, AuthOK, LatestIsBegun, ChallengeIsReachable

LEMMA AuthStepKeeps == ASSUME AuthInv, NEW t \in Tasks, AuthStep(t) PROVE AuthInv'
BY RequestKeeps, AwaitKeeps, ProvideKeeps, CancelKeeps, UnwindKeeps, WakeKeeps
   DEF AuthStep

-----------------------------------------------------------------------------
(* The registry, its futures and the calls are well-typed, and the newest  *)
(* challenge of a task can be answered as long as a runner waits on it,    *)
(* whatever happens to the tasks meanwhile.                                *)
LEMMA AuthInvariant == AuthSpec => []AuthInv
<1>1. InitStore /\ InitAuth => AuthInv
  BY AuthInit
<1>2. AuthInv /\ [(\E t \in Tasks : AuthStep(t)) \/ UNCHANGED authVars]_authAll => AuthInv'
  BY AuthStepKeeps, OthersKeep DEF authAll, authVars
<1> QED
  BY <1>1, <1>2, PTL DEF AuthSpec, authAll

(* A runner that waits on the newest challenge of its task can be          *)
(* answered: no wrong id, no cancelled sibling, no eviction strands it.    *)
THEOREM NewestChallengeIsReachable == AuthSpec => []ChallengeIsReachable
BY AuthInvariant, PTL DEF AuthInv

(* Type correctness of the registry, its futures and the calls.            *)
THEOREM AuthTypeCorrect == AuthSpec => []AuthOK
BY AuthInvariant, PTL DEF AuthInv

-----------------------------------------------------------------------------
(* A task that waits for credentials can be given them.                    *)

(* What a write of a status needs of the store.                            *)
HasTasks ==
    /\ store = [dict |-> store.dict, task |-> store.task, sub |-> store.sub]
    /\ store.task = [t \in Tasks |-> store.task[t]]
    /\ Live(store) \subseteq Tasks

AskInv == AuthInv /\ HasTasks /\ AuthRequiredIsAnswerable

LEMMA RecordedAlone ==
    ASSUME HasTasks, NEW t \in Tasks, NEW state, store' = RecordStatus(store, t, state)
    PROVE  /\ HasTasks' /\ Live(store') = Live(store)
           /\ \A u \in Tasks :
                 StateOf(store', u) = IF u = t THEN state ELSE StateOf(store, u)
<1>1. PICK sub :
         store' = [store EXCEPT !.task[t] = [state |-> state, stamp |-> now,
                                             rev |-> store.task[t].rev + 1],
                                !.sub = sub]
  BY DEF RecordStatus
<1>2. /\ store'.dict = store.dict
      /\ store'.task = [store.task EXCEPT ![t] = [state |-> state, stamp |-> now,
                                                  rev |-> store.task[t].rev + 1]]
      /\ store' = [dict |-> store'.dict, task |-> store'.task, sub |-> store'.sub]
  BY <1>1 DEF HasTasks
<1>3. Live(store') = Live(store)
  BY <1>2 DEF Live
<1>4. store'.task = [u \in Tasks |-> store'.task[u]]
  BY <1>2 DEF HasTasks
<1>5. HasTasks'
  BY <1>2, <1>3, <1>4 DEF HasTasks
<1> QED
  BY <1>2, <1>3, <1>5 DEF StateOf, HasTasks

(* A step that leaves the tasks alone, takes back no challenge and forgets *)
(* no call that was unwound.                                               *)
LEMMA QuietlyAnswerable ==
    ASSUME AskInv, AuthInv', store' = store, latest' = latest,
           \A t \in Tasks : pending[t] # NoId /\ pending'[t] = NoId =>
               \E a \in Askers : call'[a].task = t /\ call'[a].phase = "unwound",
           \A a \in Askers : call[a].phase = "unwound" => call'[a] = call[a]
    PROVE  AskInv'
<1>1. ASSUME NEW t \in Live(store), StateOf(store, t) = "AUTH_REQUIRED",
             latest[t] # NoId, pending'[t] = NoId
      PROVE  \E a \in Askers : call'[a].task = t /\ call'[a].phase = "unwound"
  BY <1>1 DEF AskInv, AuthRequiredIsAnswerable, HasTasks
<1> QED
  BY <1>1 DEF AskInv, AuthRequiredIsAnswerable, HasTasks

(* A write of t by request_auth, which registers a, or by a client.        *)
LEMMA RequestAnswerable ==
    ASSUME AskInv, AuthInv', NEW a \in Askers, NEW t \in Tasks, RequestAuth(a, t)
    PROVE  AskInv'
<1>1. /\ call[a].phase = "idle" /\ \A b \in Askers \ {a} : call'[b] = call[b]
      /\ \A u \in Tasks \ {t} : pending'[u] = pending[u] /\ latest'[u] = latest[u]
  BY DEF RequestAuth, AskInv, AuthInv, AuthOK
<1>2. CASE t \in Live(store)
  <2>1. store' = RecordStatus(store, t, "AUTH_REQUIRED") /\ pending'[t] = a /\ a # NoId
    BY <1>2, AuthAssumption DEF RequestAuth, AskInv, AuthInv, AuthOK
  <2>2. /\ HasTasks' /\ Live(store') = Live(store)
        /\ \A u \in Tasks \ {t} : StateOf(store', u) = StateOf(store, u)
    BY <2>1, RecordedAlone DEF AskInv
  <2> QED
    BY <1>1, <2>1, <2>2 DEF AskInv, AuthRequiredIsAnswerable, HasTasks
<1>3. CASE t \notin Live(store)
  <2>1. store' = store
    BY <1>3 DEF RequestAuth
  <2> QED
    BY <1>1, <1>3, <2>1 DEF AskInv, AuthRequiredIsAnswerable, HasTasks
<1> QED
  BY <1>2, <1>3

LEMMA ProvideAnswerable ==
    ASSUME AskInv, AuthInv', NEW t \in Tasks, NEW id, Provide(t, id)
    PROVE  AskInv'
<1>1. /\ store' = RecordStatus(store, t, "WORKING") /\ UNCHANGED <<call, latest>>
      /\ \A u \in Tasks \ {t} : pending'[u] = pending[u]
  BY DEF Provide, AskInv, AuthInv, AuthOK
<1>2. /\ HasTasks' /\ Live(store') = Live(store) /\ StateOf(store', t) = "WORKING"
      /\ \A u \in Tasks \ {t} : StateOf(store', u) = StateOf(store, u)
  BY <1>1, RecordedAlone DEF AskInv
<1> QED
  BY <1>1, <1>2 DEF AskInv, AuthRequiredIsAnswerable, HasTasks

(* Only a call that unwinds takes its challenge back.                      *)
LEMMA UnwindAnswerable ==
    ASSUME AskInv, AuthInv', NEW a \in Askers, Unwind(a)
    PROVE  AskInv'
<1>1. /\ call[a].phase = "waiting" /\ UNCHANGED <<store, latest>>
      /\ call'[a].phase = "unwound" /\ call'[a].task = call[a].task
      /\ \A b \in Askers \ {a} : call'[b] = call[b]
  BY DEF Unwind, Waiting, AskInv, AuthInv, AuthOK, Calls
<1>2. \A u \in Tasks : u # call[a].task => pending'[u] = pending[u]
  BY DEF Unwind, Unregister, AskInv, AuthInv, AuthOK
<1> QED
  BY <1>1, <1>2, QuietlyAnswerable

LEMMA StepAnswerable ==
    ASSUME AskInv, NEW t \in Tasks, AuthStep(t)
    PROVE  AskInv'
<1>1. AuthInv'
  BY AuthStepKeeps DEF AskInv
<1>2. ASSUME NEW a \in Askers, AwaitAuth(a, t) \/ CancelWait(a) \/ Wake(a)
      PROVE  AskInv'
  <2>1. /\ UNCHANGED <<store, pending, latest>> /\ call[a].phase \in {"idle", "waiting"}
        /\ \A b \in Askers \ {a} : call'[b] = call[b]
    BY <1>2 DEF AwaitAuth, CancelWait, Wake, Waiting, AskInv, AuthInv, AuthOK
  <2> QED
    BY <1>1, <2>1, QuietlyAnswerable
<1> QED
  BY <1>1, <1>2, RequestAnswerable, ProvideAnswerable, UnwindAnswerable DEF AuthStep

(* Whatever else the agent does to its tasks, as long as request_auth is   *)
(* what asks for credentials: a task that shows AUTH_REQUIRED has somebody *)
(* registered to take them, unless the wait was cancelled.                 *)
THEOREM RequiredCanBeProvided == AskingSpec => []AuthRequiredIsAnswerable
<1>1. InitStore /\ InitAuth => AskInv
  <2> SUFFICES ASSUME InitStore, InitAuth PROVE AskInv
    OBVIOUS
  <2>1. /\ store.dict = <<>> /\ store.task = [u \in Tasks |-> NoRecord]
        /\ store = [dict |-> store.dict, task |-> store.task, sub |-> store.sub]
    BY DEF InitStore
  <2>2. Live(store) = {}
    BY <2>1 DEF Live
  <2> QED
    BY <2>1, <2>2, AuthInit DEF AskInv, HasTasks, AuthRequiredIsAnswerable
<1>2. ASSUME AskInv, NobodyElseAsks PROVE AskInv'
  <2>1. HasTasks'
    BY <1>2 DEF NobodyElseAsks, HasTasks, StoreValue, Live
  <2>2. AuthInv' /\ UNCHANGED <<pending, call, latest>>
    BY <1>2, OthersKeep DEF AskInv, NobodyElseAsks, authVars
  <2> QED
    BY <1>2, <2>1, <2>2 DEF AskInv, NobodyElseAsks, AuthRequiredIsAnswerable
<1>3. ASSUME AskInv, UNCHANGED authAll PROVE AskInv'
  BY <1>3, OthersKeep DEF authAll, authVars, AskInv, HasTasks, AuthRequiredIsAnswerable
<1>4. AskInv /\ [(\E t \in Tasks : AuthStep(t)) \/ NobodyElseAsks]_authAll => AskInv'
  BY <1>2, <1>3, StepAnswerable
<1>5. AskInv => AuthRequiredIsAnswerable
  BY DEF AskInv
<1> QED
  BY <1>1, <1>4, <1>5, PTL DEF AskingSpec, authAll

-----------------------------------------------------------------------------
(* Webhooks.                                                               *)

pushAll == <<store, now, pushVars>>

Good(st) == StoreInv(st) /\ StoreOrdered(st) /\ Followed(st)

(* What the webhook h was told, what its worker w is about to tell it, the *)
(* worker's stream r and the revision n of the task are in this order.     *)
Told(h, w, r, n) ==
    /\ h.task = NoTask => h.got = 0 /\ w.phase \in {"none", "done"}
    /\ h.task # NoTask => h.got <= n
    /\ w.phase = "snapshot" => h.got <= w.item.rev /\ w.item.rev <= n
    /\ w.phase = "event" => h.got <= w.item.rev /\ w.item.rev = r.seen
    /\ w.phase = "reading" => h.got <= r.seen /\ (~w.lossy => h.got = r.seen)
    /\ w.phase \in {"event", "reading"} => r.phase = "streaming" /\ r.task = h.task

RevOf(h) == store.task[h.task].rev

(* A webhook belongs to a task that was created.                           *)
IsOfATask(h) == h.task # NoTask => StateOf(store, h.task) # "ABSENT"

PushInv ==
    /\ Good(store) /\ now \in Nat
    /\ \A k \in Subs : IsOfATask(hook[k])
    /\ hook \in [Subs -> Hooks] /\ worker \in [Subs -> Workers]
    /\ \A k \in Subs : Told(hook[k], worker[k], store.sub[k], RevOf(hook[k]))

(* No webhook is told of an older revision.                                *)
Onward == \A k \in Subs : hook'[k].got >= hook[k].got

LEMMA PushInit == InitStore /\ InitPush => PushInv
<1> SUFFICES ASSUME InitStore, InitPush PROVE PushInv
  OBVIOUS
<1>1. Good(store) /\ now \in Nat
  BY StoreAssumption, InitStoreInv, InitOrdered DEF Good, InitStore
<1>2. Idle \in Workers
  BY PushAssumption DEF Idle, Workers, Closed, Event
<1>3. hook \in [Subs -> Hooks] /\ worker \in [Subs -> Workers]
  BY <1>2 DEF InitPush, Hooks
<1>4. \A k \in Subs : Told(hook[k], worker[k], store.sub[k], RevOf(hook[k]))
  BY DEF InitPush, Told, Idle
<1>5. \A k \in Subs : IsOfATask(hook[k])
  BY DEF InitPush, IsOfATask
<1> QED
  BY <1>1, <1>3, <1>4, <1>5 DEF PushInv

(* Revisions are numbers, and a live task is one.                          *)
LEMMA PushTypes ==
    ASSUME PushInv
    PROVE  /\ StoreInv(store) /\ store.task \in [Tasks -> TaskValue]
           /\ store.sub \in [Subs -> Subscription]
           /\ Live(store) \subseteq Tasks /\ NoTask \notin Tasks
           /\ \A t \in Tasks : store.task[t].rev \in Nat
           /\ \A k \in Subs : /\ hook[k] \in Hooks /\ worker[k] \in Workers
                              /\ store.sub[k] \in Subscription
<1>1. StoreInv(store)
  BY DEF PushInv, Good
<1> QED
  BY <1>1, StoreSplit, LiveTasks, StoreAssumption DEF PushInv, TableOK, TaskValue

-----------------------------------------------------------------------------
(* One worker's subscription is replaced.                                  *)

LEMMA SubReplaced ==
    ASSUME Good(store), NEW k \in Subs, NEW r, store' = [store EXCEPT !.sub[k] = r],
           SubInv(r, RevSeen(store.task, r)), Ordered(r, RevSeen(store.task, r)),
           r.phase = "streaming" => StateOf(store, r.task) # "ABSENT"
    PROVE  /\ Good(store') /\ store'.dict = store.dict /\ store'.task = store.task
           /\ store'.sub[k] = r
           /\ \A u \in Subs \ {k} : store'.sub[u] = store.sub[u]
<1>1. /\ StoreInv(store') /\ store'.dict = store.dict /\ store'.task = store.task
      /\ store'.sub = [store.sub EXCEPT ![k] = r]
  BY OneSubInv DEF Good
<1>2. store.sub \in [Subs -> Subscription]
  BY StoreSplit DEF Good
<1>3. store'.sub[k] = r /\ \A u \in Subs \ {k} : store'.sub[u] = store.sub[u]
  BY <1>1, <1>2
<1>4. StoreOrdered(store')
  BY <1>1, <1>3 DEF Good, StoreOrdered
<1>5. Followed(store')
  BY <1>1, <1>3 DEF Good, Followed, Streaming, StateOf
<1> QED
  BY <1>1, <1>3, <1>4, <1>5 DEF Good

(* A fresh subscription is in order.                                       *)
LEMMA FreshSub ==
    ASSUME NEW r \in Subscription, r.queue = <<>>, ~r.closed, ~r.lost, NEW n \in Nat,
           r.phase = "streaming" => r.task \in Tasks /\ r.seen = n
    PROVE  SubInv(r, n) /\ Ordered(r, n)
<1>1. SubOK(r)
  BY StoreAssumption DEF SubOK
<1>2. r.phase = "streaming" => NoGap(r) /\ CaughtUp(r, n)
  BY DEF NoGap, CaughtUp, Subscription
<1>3. Ordered(r, n)
  BY DEF Ordered, Sorted
<1> QED
  BY <1>1, <1>2, <1>3 DEF SubInv

LEMMA NoSubOK ==
    NoSub \in Subscription /\ NoSub.queue = <<>> /\ ~NoSub.closed /\ ~NoSub.lost
BY EmptySeq DEF NoSub, Subscription

LEMMA AttachOK ==
    ASSUME PushInv, NEW k \in Subs, NEW t \in Live(store), store' = Attach(store, k, t)
    PROVE  /\ Good(store') /\ store'.dict = store.dict /\ store'.task = store.task
           /\ store'.sub[k].phase = "streaming" /\ store'.sub[k].task = t
           /\ store'.sub[k].seen = store.task[t].rev
           /\ \A u \in Subs \ {k} : store'.sub[u] = store.sub[u]
<1> DEFINE n == store.task[t].rev
           b == store.task[t].state \in Terminal
           r == [NoSub EXCEPT !.task = t, !.phase = "streaming", !.seen = n, !.fin = b]
<1>1. t \in Tasks /\ n \in Nat /\ b \in BOOLEAN /\ StateOf(store, t) # "ABSENT"
  BY PushTypes, LiveState
<1>2. store' = [store EXCEPT !.sub[k] = r]
  BY DEF Attach
<1> HIDE DEF n, b
<1>3. /\ r \in Subscription /\ r.queue = <<>> /\ ~r.closed /\ ~r.lost
      /\ r.phase = "streaming" /\ r.task = t /\ r.seen = n
  BY <1>1, NoSubOK DEF Subscription
<1> HIDE DEF r
<1>4. SubInv(r, RevSeen(store.task, r)) /\ Ordered(r, RevSeen(store.task, r))
  BY <1>1, <1>3, FreshSub DEF RevSeen, n
<1> QED
  BY <1>1, <1>2, <1>3, <1>4, SubReplaced DEF PushInv, n

Left == [NoSub EXCEPT !.phase = "left"]

LEMMA LeftOK ==
    ASSUME NEW n
    PROVE  Left \in Subscription /\ SubInv(Left, n) /\ Ordered(Left, n) /\ Left.phase = "left"
<1>1. Left \in Subscription /\ Left.phase = "left" /\ Left.queue = <<>>
  BY NoSubOK DEF Left, Subscription
<1>2. SubOK(Left)
  BY <1>1, StoreAssumption DEF SubOK
<1> QED
  BY <1>1, <1>2 DEF SubInv, Ordered

LEMMA LeaveOK ==
    ASSUME PushInv, NEW k \in Subs, store' = Leave(k)
    PROVE  /\ Good(store') /\ store'.dict = store.dict /\ store'.task = store.task
           /\ \A u \in Subs \ {k} : store'.sub[u] = store.sub[u]
<1>1. store' = [store EXCEPT !.sub[k] = Left]
  BY DEF Leave, Left
<1>2. /\ SubInv(Left, RevSeen(store.task, Left)) /\ Ordered(Left, RevSeen(store.task, Left))
      /\ Left.phase = "left"
  BY LeftOK
<1> QED
  BY <1>1, <1>2, SubReplaced DEF PushInv

(* An event or the end of the stream is read.                              *)
LEMMA ReadOK ==
    ASSUME PushInv, NEW k \in Subs, Deliver(k) \/ Return(k)
    PROVE  /\ Good(store') /\ store'.dict = store.dict /\ store'.task = store.task
           /\ \A u \in Subs \ {k} : store'.sub[u] = store.sub[u]
<1>1. StreamStep(k)
  BY DEF StreamStep
<1>2. Good(store')
  BY <1>1, StoreAssumption, StreamStepInv, StreamStepOrdered, StreamStepFollowed
     DEF PushInv, Good, StreamKeeps
<1> QED
  BY <1>1, <1>2, StoreAssumption, StreamStepInv DEF PushInv, Good, StreamKeeps

(* A step of one worker, from its own invariant.                           *)
LEMMA OneKey ==
    ASSUME PushInv, NEW k \in Subs, NEW h \in Hooks, NEW w \in Workers,
           hook' = [hook EXCEPT ![k] = h], worker' = [worker EXCEPT ![k] = w],
           Good(store'), store'.task = store.task, now' = now,
           \A u \in Subs \ {k} : store'.sub[u] = store.sub[u],
           Told(h, w, store'.sub[k], RevOf(h)), h.got >= hook[k].got, IsOfATask(h)
    PROVE  PushInv' /\ Onward
<1>1. /\ hook'[k] = h /\ \A u \in Subs \ {k} : hook'[u] = hook[u]
      /\ worker'[k] = w /\ \A u \in Subs \ {k} : worker'[u] = worker[u]
  BY DEF PushInv
<1>2. ASSUME NEW u \in Subs
      PROVE  Told(hook'[u], worker'[u], store'.sub[u], store'.task[hook'[u].task].rev)
  <2>1. CASE u = k
    BY <1>1, <2>1 DEF RevOf
  <2>2. CASE u # k
    BY <1>1, <2>2 DEF PushInv, RevOf
  <2> QED
    BY <2>1, <2>2
<1>3. \A u \in Subs : hook[u].got \in Nat
  BY PushTypes DEF Hooks
<1>4. Onward
  BY <1>1, <1>3 DEF Onward
<1>5. ASSUME NEW u \in Subs
      PROVE  hook'[u].task # NoTask => StateOf(store', hook'[u].task) # "ABSENT"
  <2>1. CASE u = k
    BY <1>1, <2>1 DEF IsOfATask, StateOf
  <2>2. CASE u # k
    BY <1>1, <2>2 DEF PushInv, IsOfATask, StateOf
  <2> QED
    BY <2>1, <2>2
<1> QED
  BY <1>2, <1>4, <1>5 DEF PushInv, RevOf, IsOfATask

(* What a step of worker k has to show when its webhook hears nothing.     *)
LEMMA OneWorker ==
    ASSUME PushInv, NEW k \in Subs, NEW w \in Workers,
           hook' = hook, worker' = [worker EXCEPT ![k] = w],
           Good(store'), store'.task = store.task, now' = now,
           \A u \in Subs \ {k} : store'.sub[u] = store.sub[u],
           Told(hook[k], w, store'.sub[k], RevOf(hook[k]))
    PROVE  PushInv' /\ Onward
<1>1. hook' = [hook EXCEPT ![k] = hook[k]]
  BY DEF PushInv
<1>2. hook[k] \in Hooks /\ hook[k].got >= hook[k].got
  BY PushTypes DEF Hooks
<1> QED
  BY <1>1, <1>2, OneKey DEF PushInv

-----------------------------------------------------------------------------
(* One lemma for each operation.                                           *)

LEMMA AddConfigKeeps ==
    ASSUME PushInv, NEW k \in Subs, NEW t \in Tasks, AddConfig(k, t), now' = now
    PROVE  PushInv' /\ Onward
<1> DEFINE h == [hook[k] EXCEPT !.task = t, !.listed = TRUE]
<1>1. /\ hook' = [hook EXCEPT ![k] = h] /\ worker' = [worker EXCEPT ![k] = worker[k]]
      /\ store' = store /\ hook[k].task \in {t, NoTask} /\ t \in Live(store)
  BY DEF AddConfig, PushInv
<1>2. /\ h \in Hooks /\ h.task = t /\ h.got = hook[k].got /\ t # NoTask
      /\ worker[k] \in Workers /\ hook[k].got \in Nat /\ store.task[t].rev \in Nat
  BY PushTypes DEF Hooks
<1> HIDE DEF h
<1>3. Told(hook[k], worker[k], store.sub[k], RevOf(hook[k]))
  BY DEF PushInv
<1>4. Told(h, worker[k], store.sub[k], store.task[t].rev)
  <2>1. CASE hook[k].task = t
    BY <1>2, <1>3, <2>1 DEF Told, RevOf
  <2>2. CASE hook[k].task = NoTask
    BY <1>2, <1>3, <2>2 DEF Told
  <2> QED
    BY <1>1, <2>1, <2>2
<1>5. Told(h, worker[k], store'.sub[k], RevOf(h)) /\ h.got >= hook[k].got
  BY <1>1, <1>2, <1>4 DEF RevOf
<1>6. Good(store') /\ store'.task = store.task /\ store'.sub = store.sub /\ IsOfATask(h)
  BY <1>1, <1>2, PushTypes, LiveState DEF PushInv, IsOfATask
<1> QED
  BY <1>1, <1>2, <1>5, <1>6, OneKey

LEMMA DeleteConfigKeeps ==
    ASSUME PushInv, NEW k \in Subs, DeleteConfig(k), now' = now
    PROVE  PushInv' /\ Onward
<1> DEFINE h == [hook[k] EXCEPT !.listed = FALSE]
<1>1. /\ hook' = [hook EXCEPT ![k] = h] /\ worker' = [worker EXCEPT ![k] = worker[k]]
      /\ store' = store
  BY DEF DeleteConfig, PushInv
<1>2. /\ h \in Hooks /\ h.task = hook[k].task /\ h.got = hook[k].got
      /\ worker[k] \in Workers /\ hook[k].got \in Nat
  BY PushTypes DEF Hooks
<1> HIDE DEF h
<1>3. Told(h, worker[k], store'.sub[k], RevOf(h)) /\ h.got >= hook[k].got
  BY <1>1, <1>2 DEF PushInv, Told, RevOf
<1>4. Good(store') /\ store'.task = store.task /\ store'.sub = store.sub /\ IsOfATask(h)
  BY <1>1, <1>2 DEF PushInv, IsOfATask
<1> QED
  BY <1>1, <1>2, <1>3, <1>4, OneKey

LEMMA StartStopKeeps ==
    ASSUME PushInv, UNCHANGED <<store, hook, worker>>, now' = now
    PROVE  PushInv' /\ Onward
<1>1. Onward
  BY PushTypes DEF Onward, Hooks
<1> QED
  BY <1>1 DEF PushInv, RevOf, IsOfATask, StateOf

(* stop() drops every stream.                                              *)
LEMMA StopWorkersKeeps ==
    ASSUME PushInv, StopWorkers, now' = now
    PROVE  PushInv' /\ Onward
<1> DEFINE sub == [k \in Subs |-> IF Streaming(store, k) THEN Left ELSE store.sub[k]]
<1>1. /\ store' = [store EXCEPT !.sub = sub] /\ hook' = hook
      /\ worker' = [k \in Subs |-> Idle]
  BY DEF StopWorkers, Left
<1>2. /\ store = [dict |-> store.dict, task |-> store.task, sub |-> store.sub]
      /\ TableOK(store.dict, store.task)
      /\ store.sub \in [Subs -> Subscription]
      /\ \A k \in Subs : SubInv(store.sub[k], RevSeen(store.task, store.sub[k]))
  BY StoreSplit, PushTypes
<1>3. store' = [dict |-> store.dict, task |-> store.task, sub |-> sub]
  BY <1>1, <1>2
<1>4. sub \in [Subs -> Subscription]
  BY <1>2, LeftOK
<1>5. \A k \in Subs : sub[k].phase # "streaming"
  BY LeftOK DEF Streaming
<1>6. \A k \in Subs : SubInv(sub[k], RevSeen(store.task, sub[k]))
  BY <1>2, LeftOK
<1> HIDE DEF sub
<1>7. StoreInv(store')
  BY <1>2, <1>3, <1>4, <1>6, StoreJoin
<1>8. StoreOrdered(store') /\ Followed(store')
  BY <1>3, <1>5 DEF StoreOrdered, Ordered, Followed, Streaming
<1>9. Idle \in Workers /\ Idle.phase = "none"
  BY PushAssumption DEF Idle, Workers, Closed, Event
<1>10. \A k \in Subs : Told(hook[k], Idle, sub[k], RevOf(hook[k]))
  BY <1>9 DEF PushInv, Told
<1>11. PushInv'
  BY <1>1, <1>3, <1>7, <1>8, <1>9, <1>10 DEF PushInv, Good, RevOf, IsOfATask, StateOf
<1>12. Onward
  BY <1>1, PushTypes DEF Onward, Hooks
<1> QED
  BY <1>11, <1>12

LEMMA SweepKeeps ==
    ASSUME PushInv, Sweep, now' = now
    PROVE  PushInv' /\ Onward
<1>1. PICK P \in FirstPages(store) :
         worker' = [k \in Subs |-> IF hook[k].listed /\ hook[k].task \in P
                                   THEN Register(k) ELSE worker[k]]
  BY DEF Sweep
<1>2. hook' = hook /\ store' = store
  BY DEF Sweep
<1>3. NoTask \notin P
  BY <1>1, PushTypes DEF FirstPages
<1> DEFINE begun == [Idle EXCEPT !.phase = "begin"]
<1>4. begun \in Workers /\ begun.phase = "begin"
  <2>1. Idle \in Workers
    BY PushAssumption DEF Idle, Workers, Closed, Event
  <2> QED
    BY <2>1 DEF Workers
<1> HIDE DEF begun
<1>5. \A k \in Subs : \/ worker'[k] = worker[k]
                      \/ worker'[k] = begun /\ hook[k].task # NoTask
  BY <1>1, <1>3 DEF Register, begun
<1>6. worker' \in [Subs -> Workers]
  BY <1>1, <1>4, PushTypes DEF Register, begun
<1>7. \A k \in Subs : Told(hook[k], worker'[k], store.sub[k], RevOf(hook[k]))
  BY <1>4, <1>5 DEF PushInv, Told
<1>8. Onward
  BY <1>2, PushTypes DEF Onward, Hooks
<1> QED
  BY <1>2, <1>6, <1>7, <1>8 DEF PushInv, RevOf, IsOfATask, StateOf

(* A worker takes up an item.                                              *)
LEMMA TakenUp ==
    ASSUME NEW x \in Workers, NEW ev \in Event, NEW ph \in {"snapshot", "event"}
    PROVE  LET w == [x EXCEPT !.phase = ph, !.attempt = 0, !.item = ev]
           IN w \in Workers /\ w.phase = ph /\ w.item = ev /\ w.lossy = x.lossy
<1> DEFINE w == [x EXCEPT !.phase = ph, !.attempt = 0, !.item = ev]
<1>1. 0 \in 0..MaxRetries
  BY PushAssumption
<1>2. x = [phase |-> x.phase, attempt |-> x.attempt, item |-> x.item, lossy |-> x.lossy]
      /\ x.lossy \in BOOLEAN
  BY DEF Workers
<1>3. w = [phase |-> ph, attempt |-> 0, item |-> ev, lossy |-> x.lossy]
  <2> DEFINE a == [x EXCEPT !.phase = ph]
             b == [a EXCEPT !.attempt = 0]
  <2>1. a = [phase |-> ph, attempt |-> x.attempt, item |-> x.item, lossy |-> x.lossy]
    BY DEF Workers
  <2> HIDE DEF a
  <2>2. b = [phase |-> ph, attempt |-> 0, item |-> x.item, lossy |-> x.lossy]
    BY <2>1
  <2> HIDE DEF b
  <2>3. [b EXCEPT !.item = ev] = [phase |-> ph, attempt |-> 0, item |-> ev, lossy |-> x.lossy]
    BY <2>2
  <2> QED
    BY <2>3 DEF a, b
<1> HIDE DEF w
<1>4. w \in Workers
  BY <1>1, <1>2, <1>3 DEF Workers
<1>5. w.phase = ph /\ w.item = ev /\ w.lossy = x.lossy
  BY <1>3
<1> QED
  BY <1>4, <1>5 DEF w

LEMMA BeginKeeps ==
    ASSUME PushInv, NEW k \in Subs, Begin(k), now' = now
    PROVE  PushInv' /\ Onward
<1> DEFINE t == hook[k].task
           b == StateOf(store, t) \in Terminal
           item == [rev |-> store.task[t].rev, final |-> b]
<1>1. /\ worker[k].phase = "begin" /\ hook' = hook /\ store' = store
      /\ worker[k] \in Workers /\ hook[k] \in Hooks
      /\ Told(hook[k], worker[k], store.sub[k], RevOf(hook[k]))
  BY PushTypes DEF Begin, PushInv
<1>2. CASE t \in Live(store)
  <2> DEFINE w == [worker[k] EXCEPT !.phase = "snapshot", !.attempt = 0, !.item = item]
  <2>1. worker' = [worker EXCEPT ![k] = w]
    BY <1>2 DEF Begin, Posting
  <2>2. t # NoTask /\ store.task[t].rev \in Nat /\ item.rev = RevOf(hook[k])
    BY <1>2, PushTypes DEF RevOf
  <2>3. item \in Event
    <3>1. b \in BOOLEAN
      OBVIOUS
    <3> HIDE DEF b
    <3> QED
      BY <2>2, <3>1 DEF Event
  <2> HIDE DEF item
  <2>4. w \in Workers /\ w.phase = "snapshot" /\ w.item = item
    BY <1>1, <2>3, TakenUp
  <2> HIDE DEF w
  <2>5. Told(hook[k], w, store.sub[k], RevOf(hook[k]))
    BY <1>1, <2>2, <2>4 DEF Told, RevOf
  <2> QED
    BY <1>1, <2>1, <2>4, <2>5, OneWorker DEF PushInv
<1>3. CASE t \notin Live(store)
  <2> DEFINE w == [worker[k] EXCEPT !.phase = "done", !.lossy = FALSE]
  <2>1. worker' = [worker EXCEPT ![k] = w]
    BY <1>3 DEF Begin, Finish
  <2>2. w \in Workers /\ w.phase = "done"
    BY <1>1 DEF Workers
  <2> HIDE DEF w
  <2>3. Told(hook[k], w, store.sub[k], RevOf(hook[k]))
    BY <1>1, <2>2 DEF Told
  <2> QED
    BY <1>1, <2>1, <2>2, <2>3, OneWorker DEF PushInv
<1> QED
  BY <1>2, <1>3

(* A worker that is done is owed nothing.                                  *)
LEMMA FinishKeeps ==
    ASSUME PushInv, NEW k \in Subs, NEW b \in BOOLEAN, Finish(k, b), hook' = hook, now' = now,
           Good(store'), store'.task = store.task,
           \A u \in Subs \ {k} : store'.sub[u] = store.sub[u]
    PROVE  PushInv' /\ Onward
<1> DEFINE w == [worker[k] EXCEPT !.phase = "done", !.lossy = b]
<1>1. worker' = [worker EXCEPT ![k] = w]
  BY DEF Finish
<1>2. w \in Workers /\ w.phase = "done"
  BY PushTypes DEF Workers
<1> HIDE DEF w
<1>3. Told(hook[k], w, store'.sub[k], RevOf(hook[k]))
  BY <1>2 DEF PushInv, Told
<1> QED
  BY <1>1, <1>2, <1>3, OneWorker

LEMMA ReadKeeps ==
    ASSUME PushInv, NEW k \in Subs, Read(k), now' = now
    PROVE  PushInv' /\ Onward
<1> DEFINE r == store.sub[k]
           n == RevOf(hook[k])
<1>1. /\ worker[k].phase = "reading" /\ hook' = hook
      /\ worker[k] \in Workers /\ hook[k] \in Hooks /\ r \in Subscription
      /\ Told(hook[k], worker[k], r, n)
  BY PushTypes DEF Read, PushInv
<1>2. CASE Deliver(k) /\ Posting(k, "event", Head(r.queue))
  <2> DEFINE ev == Head(r.queue)
             w == [worker[k] EXCEPT !.phase = "event", !.attempt = 0, !.item = ev]
  <2>1. worker' = [worker EXCEPT ![k] = w]
    BY <1>2 DEF Posting
  <2>2. /\ r.phase = "streaming" /\ r.task = hook[k].task
        /\ hook[k].got <= r.seen
    BY <1>1 DEF Told
  <2>3. /\ r.queue # <<>> /\ r.queue \in Seq(Event) /\ ev # Closed
        /\ store' = Yield(store, k)
    BY <1>1, <1>2 DEF Deliver, Subscription
  <2>4. ev \in Event /\ r.seen \in Nat /\ hook[k].got \in Nat /\ n \in Nat
    <3>1. hook[k].task \in Tasks
      BY <1>1, <2>2 DEF Told, Hooks
    <3> QED
      BY <1>1, <2>3, <3>1, PushTypes DEF Hooks, Subscription, RevOf
  <2>5. r.seen < ev.rev
    <3>1. Sorted(r.queue, r.seen, n)
      BY <2>2 DEF PushInv, Good, StoreOrdered, Ordered, RevSeen, RevOf
    <3> QED
      BY <2>3, <2>4, <3>1, TailSorted
  <2>6. store'.sub[k] = Shown(r)
    BY <2>3, PushTypes, StoreSplit DEF Yield
  <2>7. /\ Shown(r).phase = "streaming" /\ Shown(r).task = hook[k].task
        /\ Shown(r).seen = ev.rev
    BY <1>1, <2>2 DEF Shown, Subscription
  <2>8. w \in Workers /\ w.phase = "event" /\ w.item = ev
    BY <1>1, <2>4, TakenUp
  <2>9. ev.rev \in Nat
    BY <2>4 DEF Event
  <2> HIDE DEF w, ev
  <2>10. Told(hook[k], w, store'.sub[k], n)
    <3>1. hook[k].got <= ev.rev
      BY <2>2, <2>4, <2>5, <2>9
    <3> QED
      BY <1>1, <2>6, <2>7, <2>8, <3>1 DEF Told
  <2>11. /\ Good(store') /\ store'.task = store.task
         /\ \A u \in Subs \ {k} : store'.sub[u] = store.sub[u]
    BY <1>2, ReadOK
  <2> QED
    BY <1>1, <2>1, <2>8, <2>10, <2>11, OneWorker
<1>3. CASE Return(k) /\ Finish(k, worker[k].lossy)
  BY <1>1, <1>3, ReadOK, FinishKeeps DEF Workers
<1>4. CASE store' = Leave(k) /\ Finish(k, worker[k].lossy)
  BY <1>1, <1>4, LeaveOK, FinishKeeps DEF Workers
<1> QED
  BY <1>2, <1>3, <1>4 DEF Read

(* What is about to be posted is neither old nor ahead of the task.        *)
LEMMA ItemBound ==
    ASSUME PushInv, NEW k \in Subs, worker[k].phase \in {"snapshot", "event"}
    PROVE  /\ hook[k].task \in Tasks /\ hook[k].task # NoTask
           /\ hook[k].got \in Nat /\ worker[k].item.rev \in Nat /\ RevOf(hook[k]) \in Nat
           /\ hook[k].got <= worker[k].item.rev /\ worker[k].item.rev <= RevOf(hook[k])
<1>1. /\ worker[k] \in Workers /\ hook[k] \in Hooks
      /\ Told(hook[k], worker[k], store.sub[k], RevOf(hook[k]))
  BY PushTypes DEF PushInv
<1>2. hook[k].task \in Tasks /\ hook[k].task # NoTask /\ RevOf(hook[k]) \in Nat
  BY <1>1, PushTypes DEF Told, Hooks, RevOf
<1>3. hook[k].got \in Nat /\ worker[k].item.rev \in Nat
  BY <1>1 DEF Hooks, Workers, Event
<1>4. worker[k].phase = "event" => store.sub[k].seen <= RevOf(hook[k])
  BY <1>1 DEF Told, PushInv, Good, StoreOrdered, Ordered, RevSeen, RevOf
<1> QED
  BY <1>1, <1>2, <1>3, <1>4 DEF Told

(* After the POST, the webhook being h.                                    *)
LEMMA ProceedKeeps ==
    ASSUME PushInv, NEW k \in Subs, NEW b \in BOOLEAN, Proceed(k, b), now' = now,
           NEW h \in Hooks, hook' = [hook EXCEPT ![k] = h],
           h.task = hook[k].task, h.got >= hook[k].got,
           h.got = hook[k].got \/ h.got = worker[k].item.rev,
           ~b => h.got = worker[k].item.rev
    PROVE  PushInv' /\ Onward
<1> DEFINE t == hook[k].task
           n == RevOf(hook[k])
           x == worker[k]
<1>1. /\ x \in Workers /\ hook[k] \in Hooks /\ Told(hook[k], x, store.sub[k], n)
      /\ RevOf(h) = n /\ h.got \in Nat /\ IsOfATask(h)
      /\ x.item.rev \in Nat /\ hook[k].got \in Nat
  BY PushTypes DEF PushInv, RevOf, Hooks, Workers, Event, IsOfATask
<1>2. CASE Finish(k, b) /\ (store' = store \/ store' = Leave(k))
           /\ x.phase \in {"snapshot", "event"}
  <2> DEFINE w == [x EXCEPT !.phase = "done", !.lossy = b]
  <2>1. worker' = [worker EXCEPT ![k] = w]
    BY <1>2 DEF Finish
  <2>2. w \in Workers /\ w.phase = "done"
    BY <1>1 DEF Workers
  <2> HIDE DEF w
  <2>3. /\ Good(store') /\ store'.task = store.task
        /\ \A u \in Subs \ {k} : store'.sub[u] = store.sub[u]
    BY <1>2, LeaveOK DEF PushInv
  <2>4. h.task # NoTask /\ h.got <= n
    BY <1>1, <1>2, ItemBound
  <2>5. Told(h, w, store'.sub[k], n)
    BY <2>2, <2>4 DEF Told
  <2> QED
    BY <1>1, <2>1, <2>2, <2>3, <2>5, OneKey
<1>3. CASE x.phase = "snapshot" /\ t \in Live(store) /\ store' = Attach(store, k, t)
           /\ worker' = [worker EXCEPT ![k] = [phase |-> "event", attempt |-> 0,
                  item |-> [rev |-> store.task[t].rev, final |-> StateOf(store, t) \in Terminal],
                  lossy |-> b]]
  <2> DEFINE f == StateOf(store, t) \in Terminal
             item == [rev |-> store.task[t].rev, final |-> f]
             w == [phase |-> "event", attempt |-> 0, item |-> item, lossy |-> b]
  <2>1. worker' = [worker EXCEPT ![k] = w]
    BY <1>3
  <2>2. n \in Nat /\ item.rev = n /\ t # NoTask
    BY <1>3, PushTypes DEF RevOf
  <2>3. item \in Event
    <3>1. f \in BOOLEAN
      OBVIOUS
    <3>2. store.task[t].rev \in Nat
      BY <1>3, PushTypes
    <3> HIDE DEF f
    <3> QED
      BY <3>1, <3>2 DEF Event
  <2> HIDE DEF item
  <2>4. w \in Workers /\ w.phase = "event" /\ w.item = item
    BY <2>3, PushAssumption DEF Workers
  <2> HIDE DEF w
  <2>5. /\ Good(store') /\ store'.task = store.task
        /\ store'.sub[k].phase = "streaming" /\ store'.sub[k].task = t
        /\ store'.sub[k].seen = n
        /\ \A u \in Subs \ {k} : store'.sub[u] = store.sub[u]
    BY <1>3, AttachOK DEF RevOf
  <2>6. h.got <= n
    BY <1>1, <1>3, <2>2 DEF Told
  <2>7. Told(h, w, store'.sub[k], n)
    BY <2>2, <2>4, <2>5, <2>6 DEF Told
  <2> QED
    BY <1>1, <2>1, <2>4, <2>5, <2>7, OneKey
<1>4. CASE x.phase = "event" /\ store' = store
           /\ worker' = [worker EXCEPT ![k] = [x EXCEPT !.phase = "reading", !.lossy = b]]
  <2> DEFINE w == [x EXCEPT !.phase = "reading", !.lossy = b]
  <2>1. worker' = [worker EXCEPT ![k] = w]
    BY <1>4
  <2>2. w \in Workers /\ w.phase = "reading" /\ w.lossy = b
    BY <1>1 DEF Workers
  <2> HIDE DEF w
  <2>3. /\ h.task # NoTask /\ h.got <= store.sub[k].seen /\ x.item.rev = store.sub[k].seen
        /\ store.sub[k].phase = "streaming" /\ store.sub[k].task = h.task
    BY <1>1, <1>4 DEF Told
  <2>4. h.got <= n
    BY <1>1, <1>4, ItemBound
  <2>5. Told(h, w, store'.sub[k], n)
    BY <1>4, <2>2, <2>3, <2>4 DEF Told
  <2> QED
    BY <1>1, <1>4, <2>1, <2>2, <2>5, OneKey DEF PushInv
<1> QED
  BY <1>2, <1>3, <1>4 DEF Proceed

LEMMA PostKeeps ==
    ASSUME PushInv, NEW k \in Subs, NEW outcome \in {"ok", "lost", "failed"},
           Post(k, outcome), now' = now
    PROVE  PushInv' /\ Onward
<1> DEFINE x == worker[k]
           dropped == outcome # "ok" /\ (x.attempt = MaxRetries \/ poller = "stopping")
           heard == [hook[k] EXCEPT !.got = x.item.rev, !.over = hook[k].over \/ x.item.final]
           h == IF outcome = "failed" THEN hook[k] ELSE heard
<1>1. /\ x.phase \in {"snapshot", "event"} /\ x \in Workers /\ hook[k] \in Hooks
      /\ x.item \in Event
      /\ Told(hook[k], x, store.sub[k], RevOf(hook[k]))
  BY PushTypes DEF Post, PushInv, Workers
<1>2. /\ hook[k].got \in Nat /\ x.item.rev \in Nat /\ RevOf(hook[k]) \in Nat
      /\ hook[k].got <= x.item.rev /\ x.item.rev <= RevOf(hook[k])
  BY <1>1, ItemBound
<1>3. hook' = [hook EXCEPT ![k] = h]
  <2>1. CASE outcome = "failed"
    <3>1. hook' = hook /\ h = hook[k]
      BY <2>1 DEF Post
    <3> HIDE DEF h
    <3> QED
      BY <3>1 DEF PushInv
  <2>2. CASE outcome # "failed"
    <3>1. hook' = [hook EXCEPT ![k] = heard] /\ h = heard
      BY <2>2 DEF Post
    <3> HIDE DEF heard, h
    <3> QED
      BY <3>1
  <2> QED
    BY <2>1, <2>2
<1>4. heard \in Hooks /\ heard.task = hook[k].task /\ heard.got = x.item.rev
  <2> DEFINE over == hook[k].over \/ x.item.final
  <2>1. over \in BOOLEAN
    OBVIOUS
  <2> HIDE DEF over
  <2>2. [hook[k] EXCEPT !.got = x.item.rev, !.over = over] \in Hooks
    BY <1>1, <1>2, <2>1 DEF Hooks
  <2> QED
    BY <1>1, <2>2 DEF over, Hooks
<1> HIDE DEF heard
<1>5. /\ h \in Hooks /\ h.task = hook[k].task /\ h.got >= hook[k].got
      /\ h.got = hook[k].got \/ h.got = x.item.rev
      /\ outcome # "failed" => h.got = x.item.rev
  BY <1>1, <1>2, <1>4
<1> HIDE DEF h
<1>6. CASE (outcome = "ok" \/ dropped) /\ Proceed(k, x.lossy \/ dropped)
  <2> DEFINE b == x.lossy \/ dropped
  <2>1. b \in BOOLEAN /\ (~b => h.got = x.item.rev)
    BY <1>5, <1>6
  <2>2. Proceed(k, b)
    BY <1>6
  <2> HIDE DEF b, x
  <2> QED
    BY <1>3, <1>5, <2>1, <2>2, ProceedKeeps DEF x
<1>7. CASE outcome # "ok" /\ ~dropped /\ store' = store
           /\ worker' = [worker EXCEPT ![k].attempt = @ + 1]
  <2> DEFINE w == [x EXCEPT !.attempt = x.attempt + 1]
  <2>1. worker' = [worker EXCEPT ![k] = w]
    BY <1>7
  <2>2. x.attempt + 1 \in 0..MaxRetries
    BY <1>1, <1>7, PushAssumption DEF Workers
  <2>3. w \in Workers /\ w.phase = x.phase /\ w.item = x.item
    BY <1>1, <2>2 DEF Workers
  <2> HIDE DEF w
  <2>4. Told(h, w, store.sub[k], RevOf(h))
    BY <1>1, <1>2, <1>5, <2>3 DEF Told, RevOf
  <2>5. /\ Good(store') /\ store'.task = store.task /\ store'.sub = store.sub
        /\ IsOfATask(h)
    BY <1>5, <1>7 DEF PushInv, IsOfATask
  <2> QED
    BY <1>3, <1>5, <2>1, <2>3, <2>4, <2>5, OneKey
<1> QED
  BY <1>6, <1>7 DEF Post

-----------------------------------------------------------------------------
(* What happens to the tasks meanwhile.                                    *)

LEMMA TasksChangeKeeps ==
    ASSUME PushInv, TasksChange
    PROVE  PushInv' /\ Onward
<1>1. /\ StoreInv(store) /\ StoreOrdered(store) /\ Followed(store) /\ now \in Nat
      /\ hook' = hook /\ worker' = worker
  BY DEF PushInv, Good, TasksChange, pushVars
<1>2. Onward
  BY <1>1, PushTypes DEF Onward, Hooks
<1>3. ASSUME Good(store'), now' \in Nat,
             \A k \in Subs : /\ store'.sub[k].phase = store.sub[k].phase
                             /\ store'.sub[k].task = store.sub[k].task
                             /\ store'.sub[k].seen = store.sub[k].seen,
             \A u \in Tasks : StateOf(store, u) # "ABSENT" =>
                 StateOf(store', u) # "ABSENT" /\ store'.task[u].rev >= store.task[u].rev,
             \A u \in Tasks : store'.task[u].rev \in Nat
      PROVE  PushInv'
  <2>1. ASSUME NEW k \in Subs
        PROVE  /\ Told(hook[k], worker[k], store'.sub[k], store'.task[hook[k].task].rev)
               /\ hook[k].task # NoTask => StateOf(store', hook[k].task) # "ABSENT"
    <3>1. /\ hook[k] \in Hooks /\ worker[k] \in Workers
          /\ Told(hook[k], worker[k], store.sub[k], RevOf(hook[k]))
          /\ IsOfATask(hook[k])
      BY PushTypes DEF PushInv
    <3>2. hook[k].got \in Nat /\ worker[k].item.rev \in Nat
      BY <3>1 DEF Hooks, Workers, Event
    <3>3. CASE hook[k].task = NoTask
      BY <3>1, <3>3 DEF Told
    <3>4. CASE hook[k].task # NoTask
      <4>1. /\ hook[k].task \in Tasks /\ StateOf(store, hook[k].task) # "ABSENT"
            /\ RevOf(hook[k]) \in Nat
        BY <3>1, <3>4, PushTypes DEF Hooks, IsOfATask, RevOf
      <4>2. /\ store'.task[hook[k].task].rev >= RevOf(hook[k])
            /\ store'.task[hook[k].task].rev \in Nat
            /\ StateOf(store', hook[k].task) # "ABSENT"
        BY <1>3, <4>1 DEF RevOf
      <4> QED
        BY <1>3, <3>1, <3>2, <3>4, <4>1, <4>2 DEF Told
    <3> QED
      BY <3>3, <3>4
  <2> QED
    BY <1>1, <1>3, <2>1 DEF PushInv, RevOf, IsOfATask
<1>4. ASSUME Tick
      PROVE  PushInv'
  <2>1. store' = store /\ now' \in Nat /\ Good(store')
    BY <1>1, <1>4 DEF Tick, Good
  <2> QED
    BY <1>3, <2>1, PushTypes
<1>5. ASSUME NEW t \in Tasks, NEW v \in TaskValue, now' = now, Good(store'),
             store'.task = [store.task EXCEPT ![t] = v],
             StateOf(store, t) # "ABSENT" =>
                 v.state # "ABSENT" /\ v.rev >= store.task[t].rev,
             \A k \in Subs : /\ store'.sub[k].phase = store.sub[k].phase
                             /\ store'.sub[k].task = store.sub[k].task
                             /\ store'.sub[k].seen = store.sub[k].seen
      PROVE  PushInv'
  <2>1. \A u \in Tasks : store'.task[u] = IF u = t THEN v ELSE store.task[u]
    BY <1>5, PushTypes
  <2>2. \A u \in Tasks : store'.task[u].rev \in Nat
    BY <2>1, PushTypes DEF TaskValue
  <2>3. \A u \in Tasks : StateOf(store, u) # "ABSENT" =>
           StateOf(store', u) # "ABSENT" /\ store'.task[u].rev >= store.task[u].rev
    BY <1>5, <2>1, PushTypes DEF StateOf
  <2> QED
    BY <1>1, <1>3, <1>5, <2>2, <2>3
<1>6. ASSUME NEW t \in Tasks, StateOf(store, t) = "ABSENT", store' = CreateTask(store, t),
             now' = now
      PROVE  PushInv'
  <2> DEFINE v == [state |-> "SUBMITTED", stamp |-> now, rev |-> 0]
  <2>1. \A s \in Subs : ~Follows(store.sub[s], t)
    BY <1>1, <1>6 DEF Followed, Follows, Streaming
  <2>2. store'.task = [store.task EXCEPT ![t] = v] /\ store'.sub = store.sub
    BY <1>1, <1>6, <2>1, StoreAssumption, CreateTaskInv DEF StateOf
  <2>3. Good(store')
    BY <1>1, <1>6, StoreAssumption, CreateTaskCreates, CreateOrdered DEF Good
  <2>4. v \in TaskValue
    BY <1>1 DEF TaskValue, Active
  <2> HIDE DEF v
  <2> QED
    BY <1>5, <1>6, <2>2, <2>3, <2>4
<1>7. ASSUME NEW t \in Tasks, t \in Live(store), store' = AppendData(store, t), now' = now
      PROVE  PushInv'
  <2> DEFINE v == [store.task[t] EXCEPT !.rev = @ + 1]
  <2>1. StateOf(store, t) # "ABSENT" /\ store.task[t] \in TaskValue
    BY <1>1, <1>7, LiveState, PushTypes
  <2>2. Touches(store, store', t, [store.task EXCEPT ![t] = v])
    BY <1>1, <1>7, StoreAssumption, AppendDataInv
  <2>3. Good(store') /\ SeenKept(store, store')
    BY <1>1, <1>7, <2>1, StoreAssumption, AppendWritten, AppendOrdered DEF Good, Written
  <2>4. v \in TaskValue /\ v.state = StateOf(store, t) /\ v.rev >= store.task[t].rev
    BY <2>1 DEF TaskValue, StateOf
  <2> HIDE DEF v
  <2> QED
    BY <1>5, <1>7, <2>2, <2>3, <2>4 DEF Touches, SeenKept
<1>8. ASSUME NEW t \in Tasks, NEW state \in Terminal \cup Active, t \in Live(store),
             store' = RecordStatus(store, t, state), now' = now
      PROVE  PushInv'
  <2> DEFINE v == [state |-> state, stamp |-> now, rev |-> store.task[t].rev + 1]
  <2>1. StateOf(store, t) # "ABSENT" /\ store.task[t].rev \in Nat
    BY <1>1, <1>8, LiveState, PushTypes
  <2>2. Touches(store, store', t, [store.task EXCEPT ![t] = v])
    BY <1>1, <1>8, StoreAssumption, RecordStatusInv
  <2>3. Good(store') /\ SeenKept(store, store')
    BY <1>1, <1>8, <2>1, StoreAssumption, RecordWritten, RecordOrdered DEF Good, Written
  <2>4. v \in TaskValue /\ v.state # "ABSENT" /\ v.rev >= store.task[t].rev
    BY <1>1, <2>1 DEF TaskValue, Terminal, Active
  <2> HIDE DEF v
  <2> QED
    BY <1>5, <1>8, <2>2, <2>3, <2>4 DEF Touches, SeenKept
<1>9. PushInv'
  BY <1>4, <1>6, <1>7, <1>8 DEF TasksChange, StoreOperation
<1> QED
  BY <1>2, <1>9

-----------------------------------------------------------------------------
LEMMA PushStepKeeps ==
    ASSUME PushInv, (\E t \in Tasks : DispatcherStep(t)) \/ TasksChange
    PROVE  PushInv' /\ Onward
<1>1. ASSUME NEW t \in Tasks, DispatcherStep(t)
      PROVE  PushInv' /\ Onward
  <2>1. now' = now
    BY <1>1 DEF DispatcherStep
  <2>2. CASE Start \/ Stop
    BY <2>1, <2>2, StartStopKeeps DEF Start, Stop
  <2>3. CASE StopWorkers \/ Sweep
    BY <2>1, <2>3, StopWorkersKeeps, SweepKeeps
  <2>4. ASSUME NEW k \in Subs,
               \/ AddConfig(k, t) \/ DeleteConfig(k) \/ Begin(k) \/ Read(k)
               \/ \E outcome \in {"ok", "lost", "failed"} : Post(k, outcome)
        PROVE  PushInv' /\ Onward
    BY <2>1, <2>4, AddConfigKeeps, DeleteConfigKeeps, BeginKeeps, ReadKeeps, PostKeeps
  <2> QED
    BY <1>1, <2>2, <2>3, <2>4 DEF DispatcherStep
<1> QED
  BY <1>1, TasksChangeKeeps

PushNext == (\E t \in Tasks : DispatcherStep(t)) \/ TasksChange

LEMMA PushInvariant == PushSpec => []PushInv
<1>1. PushInv /\ [PushNext]_pushAll => PushInv'
  <2>1. PushInv /\ UNCHANGED pushAll => PushInv'
    BY StartStopKeeps DEF pushAll, pushVars
  <2> QED
    BY <2>1, PushStepKeeps DEF PushNext
<1> QED
  BY PushInit, <1>1, PTL DEF PushSpec, PushNext, pushAll

(* A worker that waits for the next event and never gave up on a POST has  *)
(* told its webhook everything the stream has shown it, for any queue      *)
(* size, number of retries, restarts and losses of answers.                *)
THEOREM WebhooksMissNothing == PushSpec => []HookMissesNothing
<1>1. PushInv => HookMissesNothing
  BY DEF PushInv, Told, HookMissesNothing
<1> QED
  BY <1>1, PushInvariant, PTL

(* No webhook hears of an older revision after a newer one, whatever its   *)
(* queue drops, however often a POST is repeated, a worker begins again or *)
(* the dispatcher restarts.                                                *)
THEOREM WebhooksNeverGoBack == PushSpec => HookNeverGoesBack
<1>1. PushInv /\ [PushNext]_pushAll => [\A k \in Subs : hook'[k].got >= hook[k].got]_hook
  BY PushStepKeeps DEF PushNext, pushAll, pushVars, Onward
<1> QED
  BY <1>1, PushInvariant, PTL DEF PushSpec, PushNext, pushAll, HookNeverGoesBack

-----------------------------------------------------------------------------
(* How a worker ends.  It is attached to its task exactly while it posts   *)
(* or waits for an event; one that waits has not been shown the end, and   *)
(* an end marker comes only after the final event.                         *)

Ending(h, w, r) ==
    /\ w.phase = "event" => w.item.final = r.fin
    /\ w.phase = "reading" => ~r.fin
    /\ r.phase = "streaming" => w.phase \in {"event", "reading"}
    /\ w.phase = "done" => h.task # NoTask

ToldTheEnd(h, w, r, live) ==
    w.phase = "done" /\ ~w.lossy /\ ~r.lost => h.over \/ h.task \notin live

EndOK(k) ==
    /\ Ending(hook[k], worker[k], store.sub[k])
    /\ poller = "off" => worker[k].phase = "none"
    /\ poller = "on" => ToldTheEnd(hook[k], worker[k], store.sub[k], Live(store))

EndInv == PushInv /\ StoreAnnounced(store) /\ \A k \in Subs : EndOK(k)

(* A step of one worker, or of its webhook.                                *)
LEMMA OneEnd ==
    ASSUME EndInv, PushInv', NEW k \in Subs, poller' = poller, store'.dict = store.dict,
           \A u \in Subs \ {k} : /\ hook'[u] = hook[u] /\ worker'[u] = worker[u]
                                 /\ store'.sub[u] = store.sub[u],
           StoreAnnounced(store'), EndOK(k)'
    PROVE  EndInv'
<1>1. Live(store') = Live(store)
  BY DEF Live
<1>2. ASSUME NEW u \in Subs \ {k} PROVE EndOK(u)'
  BY <1>1 DEF EndInv, EndOK
<1> QED
  BY <1>2 DEF EndInv

LEMMA ConfigEnds ==
    ASSUME EndInv, PushInv', NEW k \in Subs, NEW t \in Tasks,
           AddConfig(k, t) \/ DeleteConfig(k)
    PROVE  EndInv'
<1>1. /\ store' = store /\ worker' = worker /\ poller' = poller
      /\ \A u \in Subs \ {k} : hook'[u] = hook[u]
  BY DEF AddConfig, DeleteConfig, PushInv
<1>2. /\ hook'[k].over = hook[k].over
      /\ hook'[k].task = hook[k].task \/ (hook[k].task = NoTask /\ hook'[k].task = t)
  <2>1. hook[k] \in Hooks /\ hook \in [Subs -> Hooks]
    BY DEF EndInv, PushInv
  <2>2. CASE AddConfig(k, t)
    <3> DEFINE h == [hook[k] EXCEPT !.task = t, !.listed = TRUE]
    <3>1. hook' = [hook EXCEPT ![k] = h] /\ hook[k].task \in {t, NoTask}
      BY <2>2 DEF AddConfig
    <3>2. h.over = hook[k].over /\ h.task = t
      BY <2>1 DEF Hooks
    <3> HIDE DEF h
    <3> QED
      BY <2>1, <3>1, <3>2
  <2>3. CASE DeleteConfig(k)
    <3> DEFINE h == [hook[k] EXCEPT !.listed = FALSE]
    <3>1. hook' = [hook EXCEPT ![k] = h]
      BY <2>3 DEF DeleteConfig
    <3>2. h.over = hook[k].over /\ h.task = hook[k].task
      BY <2>1 DEF Hooks
    <3> HIDE DEF h
    <3> QED
      BY <2>1, <3>1, <3>2
  <2> QED
    BY <2>2, <2>3
<1>3. t # NoTask /\ EndOK(k)
  BY PushTypes DEF EndInv
<1>4. EndOK(k)'
  BY <1>1, <1>2, <1>3 DEF EndOK, Ending, ToldTheEnd
<1> QED
  BY <1>1, <1>4, OneEnd DEF EndInv

LEMMA BeginEnds ==
    ASSUME EndInv, PushInv', NEW k \in Subs, Begin(k)
    PROVE  EndInv'
<1>1. /\ store' = store /\ hook' = hook /\ poller' = poller /\ worker[k].phase = "begin"
      /\ \A u \in Subs \ {k} : worker'[u] = worker[u]
      /\ EndOK(k) /\ worker[k] \in Workers /\ Told(hook[k], worker[k], store.sub[k], RevOf(hook[k]))
  BY PushTypes DEF Begin, Posting, Finish, EndInv, PushInv
<1>2. /\ hook[k].task # NoTask /\ poller # "off" /\ store.sub[k].phase # "streaming"
  BY <1>1 DEF EndOK, Ending, Told
<1>3. \/ worker'[k].phase = "snapshot"
      \/ worker'[k].phase = "done" /\ hook[k].task \notin Live(store)
  <2>1. /\ worker \in [Subs -> Workers]
        /\ worker[k] = [phase |-> worker[k].phase, attempt |-> worker[k].attempt,
                        item |-> worker[k].item, lossy |-> worker[k].lossy]
    BY <1>1 DEF EndInv, PushInv, Workers
  <2>2. CASE hook[k].task \in Live(store)
    <3>1. \E ev : worker' = [worker EXCEPT ![k] =
             [worker[k] EXCEPT !.phase = "snapshot", !.attempt = 0, !.item = ev]]
      BY <2>2 DEF Begin, Posting
    <3> QED
      BY <2>1, <3>1
  <2>3. CASE hook[k].task \notin Live(store)
    <3>1. worker' = [worker EXCEPT ![k] = [worker[k] EXCEPT !.phase = "done", !.lossy = FALSE]]
      BY <2>3 DEF Begin, Finish
    <3> QED
      BY <2>1, <2>3, <3>1
  <2> QED
    BY <2>2, <2>3
<1>4. EndOK(k)'
  BY <1>1, <1>2, <1>3 DEF EndOK, Ending, ToldTheEnd
<1> QED
  BY <1>1, <1>4, OneEnd DEF EndInv

LEMMA PostEnds ==
    ASSUME EndInv, PushInv', NEW k \in Subs, NEW outcome \in {"ok", "lost", "failed"},
           Post(k, outcome)
    PROVE  EndInv'
<1> DEFINE x == worker[k]
           dropped == outcome # "ok" /\ (x.attempt = MaxRetries \/ poller = "stopping")
           b == x.lossy \/ dropped
<1>1. /\ x.phase \in {"snapshot", "event"} /\ x \in Workers /\ poller' = poller
      /\ hook[k] \in Hooks /\ Told(hook[k], x, store.sub[k], RevOf(hook[k]))
      /\ EndOK(k) /\ StoreInv(store) /\ StoreAnnounced(store)
  BY PushTypes DEF Post, EndInv, PushInv
<1>2. /\ hook[k].task # NoTask /\ poller # "off" /\ b \in BOOLEAN
      /\ x.phase = "snapshot" => store.sub[k].phase # "streaming"
  BY <1>1 DEF EndOK, Ending, Told
<1>3. /\ \A u \in Subs \ {k} : hook'[u] = hook[u]
      /\ hook'[k].task = hook[k].task
      /\ outcome = "ok" /\ x.item.final => hook'[k].over
  BY <1>1 DEF Post, EndInv, PushInv, Hooks
<1>4. ASSUME store' = store, NEW w, worker' = [worker EXCEPT ![k] = w],
             w.phase = x.phase, w.item = x.item
      PROVE  EndInv'
  <2>1. worker'[k] = w /\ \A u \in Subs \ {k} : worker'[u] = worker[u]
    BY <1>4 DEF EndInv, PushInv
  <2>2. EndOK(k)'
    BY <1>1, <1>2, <1>3, <1>4, <2>1 DEF EndOK, Ending, ToldTheEnd
  <2> QED
    BY <1>1, <1>3, <1>4, <2>1, <2>2, OneEnd
<1>5. ASSUME Finish(k, b), store' = store \/ store' = Leave(k),
             store' = store => x.phase = "snapshot",
             poller = "on" => hook[k].task \notin Live(store) \/ x.item.final
      PROVE  EndInv'
  <2>1. /\ worker'[k].phase = "done" /\ worker'[k].lossy = b
        /\ \A u \in Subs \ {k} : worker'[u] = worker[u]
    BY <1>1, <1>5 DEF Finish, EndInv, PushInv, Workers
  <2>2. /\ store'.sub[k].phase # "streaming" /\ store'.dict = store.dict
        /\ \A u \in Subs \ {k} : store'.sub[u] = store.sub[u]
        /\ StoreAnnounced(store')
    <3>1. CASE store' = store
      BY <1>1, <1>2, <1>5, <3>1
    <3>2. CASE store' = Leave(k)
      <4>1. store' = [store EXCEPT !.sub[k] = Left] /\ Left.queue = <<>> /\ Left.phase = "left"
        BY <3>2, NoSubOK DEF Leave, Left, Subscription
      <4>2. StoreAnnounced(store')
        BY <1>1, <4>1, FreshAnnounced, OneSubAnnounced
      <4>3. store' = [store EXCEPT !.sub = [store.sub EXCEPT ![k] = Left]]
        BY <4>1
      <4>4. store'.sub = [store.sub EXCEPT ![k] = Left] /\ store'.dict = store.dict
        BY <1>1, <4>3, StoreSplit
      <4> QED
        BY <4>1, <4>2, <4>4, PushTypes DEF EndInv
    <3> QED
      BY <1>5, <3>1, <3>2
  <2>3. Live(store') = Live(store)
    BY <2>2 DEF Live
  <2>4. poller = "on" /\ ~b => hook'[k].over \/ hook'[k].task \notin Live(store)
    <3>1. ~b => outcome = "ok" \/ ~(x.attempt = MaxRetries \/ poller = "stopping")
      OBVIOUS
    <3>2. Finish(k, b) => outcome = "ok" \/ dropped
      <4>1. worker'[k].phase # x.phase
        BY <1>1, <2>1
      <4>2. ~(outcome = "ok" \/ dropped) => worker'[k].phase = x.phase
        BY <1>1 DEF Post, EndInv, PushInv, Workers
      <4> QED
        BY <4>1, <4>2
    <3> QED
      BY <1>3, <1>5, <3>2
  <2> HIDE DEF b, dropped
  <2>5. EndOK(k)'
    BY <1>1, <1>2, <1>3, <2>1, <2>2, <2>3, <2>4 DEF EndOK, Ending, ToldTheEnd
  <2> QED
    BY <1>1, <1>3, <2>1, <2>2, <2>5, OneEnd
<1>6. ASSUME hook[k].task \in Live(store), store' = Attach(store, k, hook[k].task),
             NEW f, f = (StateOf(store, hook[k].task) \in Terminal), NEW n,
             worker' = [worker EXCEPT ![k] = [phase |-> "event", attempt |-> 0,
                           item |-> [rev |-> n, final |-> f], lossy |-> b]]
      PROVE  EndInv'
  <2> DEFINE t == hook[k].task
             r == [NoSub EXCEPT !.task = t, !.phase = "streaming",
                      !.seen = store.task[t].rev, !.fin = f]
  <2>1. /\ worker'[k].phase = "event" /\ worker'[k].item.final = f
        /\ \A u \in Subs \ {k} : worker'[u] = worker[u]
    BY <1>6 DEF EndInv, PushInv
  <2>2. store' = [store EXCEPT !.sub[k] = r]
    BY <1>6 DEF Attach, StateOf
  <2>3. r.queue = <<>> /\ r.fin = f
    BY DEF NoSub
  <2> HIDE DEF r, t
  <2>4. StoreAnnounced(store')
    BY <1>1, <2>2, <2>3, FreshAnnounced, OneSubAnnounced
  <2>5. store'.sub = [store.sub EXCEPT ![k] = r] /\ store'.dict = store.dict
    BY <1>1, <2>2, StoreSplit
  <2>6. store'.sub[k] = r /\ \A u \in Subs \ {k} : store'.sub[u] = store.sub[u]
    BY <2>5, PushTypes DEF EndInv
  <2>7. EndOK(k)'
    BY <1>1, <1>2, <2>1, <2>3, <2>6 DEF EndOK, Ending, ToldTheEnd
  <2> QED
    BY <1>1, <1>3, <2>1, <2>4, <2>5, <2>6, <2>7, OneEnd
<1>7. ASSUME x.phase = "event", ~x.item.final, store' = store,
             worker' = [worker EXCEPT ![k] = [x EXCEPT !.phase = "reading", !.lossy = b]]
      PROVE  EndInv'
  <2>1. worker'[k].phase = "reading" /\ \A u \in Subs \ {k} : worker'[u] = worker[u]
    BY <1>1, <1>7 DEF EndInv, PushInv, Workers
  <2>2. EndOK(k)'
    BY <1>1, <1>2, <1>7, <2>1 DEF EndOK, Ending, ToldTheEnd
  <2> QED
    BY <1>1, <1>3, <1>7, <2>1, <2>2, OneEnd
<1>8. CASE Proceed(k, b)
  <2> HIDE DEF b, dropped
  <2>1. CASE /\ x.phase = "snapshot"
             /\ hook[k].task \notin Live(store) \/ poller = "stopping"
             /\ store' = store /\ Finish(k, b)
    BY <1>5, <2>1
  <2>2. CASE x.phase = "event" /\ x.item.final /\ store' = Leave(k) /\ Finish(k, b)
    <3>1. store' # store
      <4>1. store'.sub[k].phase = "left"
        <5>1. store' = [store EXCEPT !.sub[k] = Left] /\ Left.phase = "left"
          BY <2>2, NoSubOK DEF Leave, Left, Subscription
        <5>2. store'.sub = [store.sub EXCEPT ![k] = Left]
          BY <1>1, <5>1, StoreSplit
        <5> QED
          BY <5>1, <5>2, PushTypes DEF EndInv
      <4> QED
        BY <1>1, <2>2, <4>1 DEF Told
    <3> QED
      BY <1>5, <2>2, <3>1
  <2>3. CASE /\ x.phase = "event" /\ ~x.item.final /\ store' = store
             /\ worker' = [worker EXCEPT ![k] = [x EXCEPT !.phase = "reading", !.lossy = b]]
    BY <1>7, <2>3
  <2> QED
    BY <1>6, <1>8, <2>1, <2>2, <2>3 DEF Proceed
<1>9. CASE store' = store /\ worker' = [worker EXCEPT ![k].attempt = @ + 1]
  <2> DEFINE w == [x EXCEPT !.attempt = x.attempt + 1]
  <2>1. worker' = [worker EXCEPT ![k] = w] /\ w.phase = x.phase /\ w.item = x.item
    BY <1>1, <1>9 DEF Workers
  <2> QED
    BY <1>4, <1>9, <2>1
<1> QED
  BY <1>8, <1>9 DEF Post

LEMMA ReadEnds ==
    ASSUME EndInv, PushInv', NEW k \in Subs, Read(k)
    PROVE  EndInv'
<1> DEFINE r == store.sub[k]
<1>1. /\ worker[k].phase = "reading" /\ hook' = hook /\ poller' = poller
      /\ worker[k] \in Workers /\ r \in Subscription /\ r.queue \in Seq(Event)
      /\ Told(hook[k], worker[k], r, RevOf(hook[k])) /\ EndOK(k)
      /\ StoreInv(store) /\ StoreAnnounced(store) /\ PushInv
  BY PushTypes DEF Read, EndInv, PushInv, Subscription
<1>2. hook[k].task # NoTask /\ poller # "off" /\ ~r.fin
  BY <1>1 DEF EndOK, Ending, Told
<1>3. ASSUME Deliver(k) \/ Return(k)
      PROVE  /\ StoreAnnounced(store') /\ store'.dict = store.dict
             /\ \A u \in Subs \ {k} : store'.sub[u] = store.sub[u]
  BY <1>1, <1>3, ReadOK, StreamStepAnnounced DEF StreamStep
<1>4. CASE Deliver(k) /\ Posting(k, "event", Head(r.queue))
  <2>1. /\ worker'[k].phase = "event" /\ worker'[k].item = Head(r.queue)
        /\ \A u \in Subs \ {k} : worker'[u] = worker[u]
    <3> DEFINE w == [worker[k] EXCEPT !.phase = "event", !.attempt = 0, !.item = Head(r.queue)]
    <3>1. worker' = [worker EXCEPT ![k] = w] /\ Head(r.queue) \in Event
      BY <1>1, <1>4 DEF Posting, Deliver
    <3>2. w.phase = "event" /\ w.item = Head(r.queue)
      BY <1>1, <3>1, TakenUp
    <3> HIDE DEF w
    <3> QED
      BY <3>1, <3>2 DEF EndInv, PushInv
  <2>2. store'.sub[k] = Shown(r)
    BY <1>1, <1>4, PushTypes, StoreSplit DEF Deliver, Yield
  <2>3. store'.sub[k].fin = Head(r.queue).final
    BY <1>1, <2>2 DEF Shown, Subscription
  <2>4. EndOK(k)'
    BY <1>1, <1>2, <2>1, <2>3 DEF EndOK, Ending, ToldTheEnd
  <2> QED
    BY <1>1, <1>3, <1>4, <2>1, <2>4, OneEnd
<1>5. ASSUME NEW b, Finish(k, b)
      PROVE  /\ worker'[k].phase = "done"
             /\ \A u \in Subs \ {k} : worker'[u] = worker[u]
  BY <1>1, <1>5 DEF Finish, EndInv, PushInv, Workers
<1>6. CASE Return(k) /\ Finish(k, worker[k].lossy)
  <2>1. r.lost
    <3>1. r.queue # <<>> /\ Head(r.queue) = Closed
      BY <1>2, <1>6 DEF Return
    <3>2. 1 \in DOMAIN r.queue /\ r.queue[1] = Closed
      BY <1>1, <3>1
    <3>3. Announced(r)
      BY <1>1 DEF StoreAnnounced
    <3> HIDE DEF r
    <3> QED
      BY <1>2, <3>2, <3>3 DEF Announced
  <2>2. store'.sub[k] = [r EXCEPT !.phase = "returned", !.closed = TRUE]
    BY <1>1, <1>6, PushTypes, StoreSplit DEF Return, Detach
  <2>3. store'.sub[k].lost = r.lost /\ store'.sub[k].phase = "returned"
    BY <1>1, <2>2 DEF Subscription
  <2>4. EndOK(k)'
    BY <1>1, <1>2, <1>5, <1>6, <2>1, <2>3 DEF EndOK, Ending, ToldTheEnd
  <2> QED
    BY <1>1, <1>3, <1>5, <1>6, <2>4, OneEnd
<1>7. CASE poller = "stopping" /\ store' = Leave(k) /\ Finish(k, worker[k].lossy)
  <2>1. store' = [store EXCEPT !.sub[k] = Left] /\ Left.queue = <<>> /\ Left.phase = "left"
    BY <1>7, NoSubOK DEF Leave, Left, Subscription
  <2>2. StoreAnnounced(store')
    BY <1>1, <2>1, FreshAnnounced, OneSubAnnounced
  <2>3. store'.sub = [store.sub EXCEPT ![k] = Left] /\ store'.dict = store.dict
    BY <1>1, <2>1, StoreSplit
  <2>4. store'.sub[k] = Left /\ \A u \in Subs \ {k} : store'.sub[u] = store.sub[u]
    BY <1>1, <2>3, PushTypes
  <2>5. EndOK(k)'
    BY <1>1, <1>2, <1>5, <1>7, <2>1, <2>4 DEF EndOK, Ending, ToldTheEnd
  <2> QED
    BY <1>1, <1>5, <1>7, <2>2, <2>3, <2>4, <2>5, OneEnd
<1> QED
  BY <1>4, <1>6, <1>7 DEF Read

(* The dispatcher starts with no worker, and keeps none when it is gone.   *)
LEMMA LifeEnds ==
    ASSUME EndInv, PushInv', Start \/ Stop \/ StopWorkers \/ Sweep
    PROVE  EndInv'
<1>1. CASE Start \/ Stop
  BY <1>1 DEF Start, Stop, EndInv, EndOK, ToldTheEnd
<1>2. CASE StopWorkers
  <2>1. /\ StoreInv(store) /\ StoreAnnounced(store) /\ Left.queue = <<>> /\ Left.phase = "left"
    BY PushTypes, NoSubOK DEF EndInv, Left, Subscription
  <2>2. store'.sub = [k \in Subs |-> IF Streaming(store, k) THEN Left ELSE store.sub[k]]
    BY <1>2, <2>1, StoreSplit DEF StopWorkers, Left
  <2>3. \A k \in Subs : store'.sub[k].phase # "streaming"
    BY <2>1, <2>2 DEF Streaming
  <2>4. StoreAnnounced(store')
    BY <2>1, <2>2, FreshAnnounced DEF StoreAnnounced
  <2>5. poller' = "off" /\ \A k \in Subs : worker'[k].phase = "none"
    BY <1>2 DEF StopWorkers, Idle
  <2> QED
    BY <2>3, <2>4, <2>5 DEF EndInv, EndOK, Ending
<1>3. CASE Sweep
  <2>1. store' = store /\ hook' = hook /\ poller' = poller /\ poller = "on"
    BY <1>3 DEF Sweep
  <2>2. \A k \in Subs : \/ worker'[k] = worker[k]
                        \/ worker'[k].phase = "begin" /\ worker[k].phase \in {"none", "done"}
    BY <1>3 DEF Sweep, Register, Idle
  <2> QED
    BY <2>1, <2>2 DEF EndInv, EndOK, Ending, ToldTheEnd
<1> QED
  BY <1>1, <1>2, <1>3

(* A write to the tasks shows no worker the end, and a task that left the  *)
(* table does not come back.                                               *)
LEMMA TasksChangeEnds ==
    ASSUME EndInv, PushInv', TasksChange
    PROVE  EndInv'
<1>1. /\ hook' = hook /\ worker' = worker /\ poller' = poller
      /\ PushInv /\ StoreInv(store) /\ StoreAnnounced(store) /\ now \in Nat /\ Followed(store)
  BY DEF TasksChange, pushVars, EndInv, PushInv, Good
<1>2. ASSUME StoreAnnounced(store'), FinKept(store, store'),
             \A k \in Subs :
                /\ store'.sub[k].phase = store.sub[k].phase
                /\ store.sub[k].phase # "streaming" => store'.sub[k] = store.sub[k],
             \A u \in Live(store') : StateOf(store, u) # "ABSENT" => u \in Live(store)
      PROVE  EndInv'
  <2>1. ASSUME NEW k \in Subs PROVE EndOK(k)'
    <3>1. EndOK(k) /\ IsOfATask(hook[k])
      BY DEF EndInv, PushInv
    <3>2. Ending(hook[k], worker[k], store'.sub[k])
      BY <1>2, <3>1 DEF EndOK, Ending, FinKept
    <3>3. ASSUME worker[k].phase = "done"
          PROVE  /\ store'.sub[k] = store.sub[k]
                 /\ hook[k].task \in Live(store') => hook[k].task \in Live(store)
      BY <1>2, <3>1, <3>3 DEF EndOK, Ending, IsOfATask
    <3> QED
      BY <1>1, <3>1, <3>2, <3>3 DEF EndOK, ToldTheEnd
  <2> QED
    BY <1>2, <2>1 DEF EndInv
<1>3. CASE Tick
  <2>1. store' = store
    BY <1>3 DEF Tick
  <2> QED
    BY <1>1, <1>2, <2>1 DEF FinKept
<1>4. ASSUME NEW t \in Tasks, StateOf(store, t) = "ABSENT", store' = CreateTask(store, t)
      PROVE  EndInv'
  <2>1. \A s \in Subs : ~Follows(store.sub[s], t)
    BY <1>1, <1>4 DEF Followed, Follows, Streaming
  <2>2. store'.sub = store.sub /\ Live(store') \subseteq Live(store) \cup {t}
    BY <1>1, <1>4, <2>1, StoreAssumption, CreateTaskInv DEF StateOf
  <2> QED
    BY <1>1, <1>2, <1>4, <2>2 DEF StoreAnnounced, FinKept
<1>5. ASSUME NEW t \in Tasks, NEW v, Touches(store, store', t, v),
             StoreAnnounced(store'), FinKept(store, store')
      PROVE  EndInv'
  <2>1. Live(store') = Live(store)
    BY <1>5 DEF Touches, Live
  <2> QED
    BY <1>2, <1>5, <2>1 DEF Touches, Follows
<1>6. ASSUME NEW t \in Tasks, store' = AppendData(store, t)
      PROVE  EndInv'
  BY <1>1, <1>5, <1>6, StoreAssumption, AppendDataInv, AppendAnnounced
<1>7. ASSUME NEW t \in Tasks, NEW state \in Terminal \cup Active,
             store' = RecordStatus(store, t, state)
      PROVE  EndInv'
  BY <1>1, <1>5, <1>7, StoreAssumption, RecordStatusInv, RecordAnnounced
<1> QED
  BY <1>3, <1>4, <1>6, <1>7 DEF TasksChange, StoreOperation

(* A worker that ended by itself has told its webhook the end, unless it   *)
(* gave up on a POST, its stream was warned of a lost event or its task    *)
(* was evicted: for any queue size, retries, stops and configurations.     *)
THEOREM EndedWorkersToldTheEnd == PushSpec => []EndedWorkerToldTheEnd
<1>1. InitStore /\ InitPush => EndInv
  <2> SUFFICES ASSUME InitStore, InitPush PROVE EndInv
    OBVIOUS
  <2>1. \A k \in Subs : store.sub[k] = NoSub /\ worker[k].phase = "none" /\ poller = "off"
    BY DEF InitStore, InitPush, Idle
  <2>2. StoreAnnounced(store)
    BY <2>1, NoSubOK, FreshAnnounced DEF StoreAnnounced
  <2>3. \A k \in Subs : EndOK(k)
    BY <2>1 DEF EndOK, Ending, NoSub
  <2> QED
    BY <2>2, <2>3, PushInit DEF EndInv
<1>2. ASSUME EndInv, PushNext PROVE EndInv'
  <2>1. PushInv'
    BY <1>2, PushStepKeeps DEF PushNext, EndInv
  <2> QED
    BY <1>2, <2>1, ConfigEnds, BeginEnds, PostEnds, ReadEnds, LifeEnds, TasksChangeEnds
       DEF PushNext, DispatcherStep
<1>3. ASSUME EndInv, UNCHANGED pushAll PROVE EndInv'
  <2>1. PushInv'
    BY <1>3, StartStopKeeps DEF EndInv, pushAll, pushVars
  <2> QED
    BY <1>3, <2>1 DEF EndInv, pushAll, pushVars, EndOK
<1>4. EndInv => EndedWorkerToldTheEnd
  BY DEF EndInv, EndOK, ToldTheEnd, EndedWorkerToldTheEnd
<1>5. EndInv /\ [PushNext]_pushAll => EndInv'
  BY <1>2, <1>3
<1> QED
  BY <1>1, <1>4, <1>5, PTL DEF PushSpec, PushNext, pushAll

-----------------------------------------------------------------------------
(* Paging through the list.                                                *)

(* A finite set has a first member in any strict linear order R: the one   *)
(* that has the fewest before it.                                          *)
StrictlyOrders(R, S) ==
    /\ \A x \in S : <<x, x>> \notin R
    /\ \A x, y \in S : x # y => <<x, y>> \in R \/ <<y, x>> \in R
    /\ \A x, y, z \in S : <<x, y>> \in R /\ <<y, z>> \in R => <<x, z>> \in R

LEMMA FirstMember ==
    ASSUME NEW S, IsFiniteSet(S), S # {}, NEW R, StrictlyOrders(R, S)
    PROVE  \E x \in S : \A y \in S \ {x} : <<x, y>> \in R
<1> DEFINE Below(x) == {y \in S : <<y, x>> \in R}
           count == [x \in S |-> Cardinality(Below(x))]
           T == {count[x] : x \in S}
<1>1. ASSUME NEW x \in S
      PROVE  IsFiniteSet(Below(x)) /\ Cardinality(Below(x)) \in Nat
  <2>1. Below(x) \subseteq S
    OBVIOUS
  <2> HIDE DEF Below
  <2> QED
    BY <2>1, FS_Subset, FS_CardinalityType
<1>2. \A x \in S : count[x] = Cardinality(Below(x)) /\ count[x] \in Nat
  <2>1. \A x \in S : count[x] = Cardinality(Below(x))
    OBVIOUS
  <2> HIDE DEF Below, count
  <2> QED
    BY <1>1, <2>1
<1> HIDE DEF count
<1>3. T \subseteq Nat /\ T # {}
  BY <1>2
<1>4. PICK x \in S : \A y \in S : count[x] <= count[y]
  <2>1. \E n \in T : \A k \in T : n <= k
    <3> HIDE DEF T
    <3> QED
      BY <1>3, LeastNatural
  <2> QED
    BY <2>1
<1>5. ASSUME NEW y \in S \ {x}, <<x, y>> \notin R
      PROVE  FALSE
  <2>1. <<y, x>> \in R
    BY <1>5 DEF StrictlyOrders
  <2>2. Below(y) \subseteq Below(x) /\ y \in Below(x) /\ y \notin Below(y)
    BY <2>1 DEF StrictlyOrders
  <2> HIDE DEF Below
  <2>3. Cardinality(Below(x)) <= Cardinality(Below(y))
    BY <1>2, <1>4
  <2>4. /\ Cardinality(Below(y)) <= Cardinality(Below(x))
        /\ Cardinality(Below(x)) = Cardinality(Below(y)) => Below(x) = Below(y)
    <3>1. IsFiniteSet(Below(x)) /\ Below(y) \in SUBSET Below(x)
      BY <1>1, <2>2
    <3> QED
      BY <3>1, FS_Subset
  <2>5. Cardinality(Below(y)) \in Nat /\ Cardinality(Below(x)) \in Nat
    BY <1>1
  <2> QED
    BY <2>2, <2>3, <2>4, <2>5
<1> QED
  BY <1>5

Cursor == Nat \X Nat

LEMMA LaterIsLinear ==
    ASSUME NEW a \in Cursor, NEW b \in Cursor, NEW c \in Cursor
    PROVE  /\ ~Later(a, a)
           /\ a # b => Later(a, b) \/ Later(b, a)
           /\ Later(a, b) => ~Later(b, a)
           /\ Later(a, b) /\ Later(b, c) => Later(a, c)
           /\ a # NoToken
<1>1. /\ a[1] \in Nat /\ a[2] \in Nat /\ b[1] \in Nat /\ b[2] \in Nat
      /\ c[1] \in Nat /\ c[2] \in Nat /\ a = <<a[1], a[2]>> /\ b = <<b[1], b[2]>>
  BY DEF Cursor
<1>2. a # NoToken
  <2>1. Len(a) = 2
    BY <1>1
  <2> QED
    BY <2>1 DEF NoToken
<1> QED
  BY <1>1, <1>2 DEF Later

LEMMA KeysAreCursors ==
    ASSUME ListingAssumption, NEW st, StoreInv(st)
    PROVE  /\ \A t \in Tasks : Key(st, t) \in Cursor
           /\ \A t, u \in Tasks : Key(st, t) = Key(st, u) => t = u
           /\ Live(st) \subseteq Tasks /\ IsFiniteSet(Live(st))
<1>1. \A t \in Tasks : st.task[t].stamp \in Nat /\ t \in Nat
  BY StoreSplit DEF TableOK, TaskValue, ListingAssumption
<1>2. IsFiniteSet(Live(st))
  <2>1. IsFiniteSet(DOMAIN st.dict)
    <3>1. DOMAIN st.dict = 1..Len(st.dict) /\ 1 \in Int /\ Len(st.dict) \in Int
      BY StoreSplit DEF TableOK
    <3> QED
      BY <3>1, FS_Interval
  <2>2. st.dict \in Surjection(DOMAIN st.dict, Live(st))
    BY StoreSplit DEF TableOK, Live, Surjection
  <2> QED
    BY <2>1, <2>2, FS_Surjection
<1> QED
  BY <1>1, <1>2, LiveTasks DEF Key, Cursor

(* The tasks in a page: whoever is not in it comes after all that are, and *)
(* then it is full.                                                        *)
LEMMA PageIsFirst ==
    ASSUME ListingAssumption, NEW st, StoreInv(st), NEW f \in Filters, NEW token
    PROVE  LET after == {t \in Matching(st, f) : token # NoToken => Later(Key(st, t), token)}
               page == PageTasks(st, f, token)
           IN /\ page \subseteq after /\ IsFiniteSet(page) /\ Cardinality(page) \in Nat
              /\ \A t \in after \ page : /\ Cardinality(page) >= f.size
                                         /\ \A u \in page : Later(Key(st, t), Key(st, u))
<1> DEFINE after == {t \in Matching(st, f) : token # NoToken => Later(Key(st, t), token)}
           ahead(t) == {u \in after \ {t} : Later(Key(st, t), Key(st, u))}
           page == PageTasks(st, f, token)
<1>1. after \subseteq Tasks /\ IsFiniteSet(after)
  <2>1. after \subseteq Live(st)
    BY DEF Matching
  <2> HIDE DEF after
  <2> QED
    BY <2>1, KeysAreCursors, FS_Subset
<1>2. page = {t \in after : Cardinality(ahead(t)) < f.size}
  BY DEF PageTasks
<1>3. f.size \in Nat
  BY DEF ListingAssumption
<1> HIDE DEF page, after
<1>4. page \subseteq after /\ IsFiniteSet(page) /\ Cardinality(page) \in Nat
  BY <1>1, <1>2, FS_Subset, FS_CardinalityType
<1>5. ASSUME NEW t
      PROVE  /\ IsFiniteSet(ahead(t)) /\ Cardinality(ahead(t)) \in Nat
  <2>1. ahead(t) \subseteq after
    OBVIOUS
  <2> HIDE DEF ahead
  <2> QED
    BY <1>1, <2>1, FS_Subset, FS_CardinalityType
<1>6. /\ \A t \in after : ~Later(Key(st, t), Key(st, t))
      /\ \A t, u \in after : t # u => \/ Later(Key(st, t), Key(st, u))
                                      \/ Later(Key(st, u), Key(st, t))
      /\ \A t, u \in after : Later(Key(st, t), Key(st, u)) => ~Later(Key(st, u), Key(st, t))
      /\ \A t, u, v \in after : Later(Key(st, t), Key(st, u)) /\ Later(Key(st, u), Key(st, v))
                                   => Later(Key(st, t), Key(st, v))
  <2>1. /\ \A t \in after : Key(st, t) \in Cursor
        /\ \A t, u \in after : Key(st, t) = Key(st, u) => t = u
    BY <1>1, KeysAreCursors
  <2> QED
    BY <2>1, LaterIsLinear
<1>7. ASSUME NEW t \in after \ page, NEW u \in page
      PROVE  Later(Key(st, t), Key(st, u))
  <2> SUFFICES ASSUME ~Later(Key(st, t), Key(st, u))
               PROVE  FALSE
    OBVIOUS
  <2>1. u \in after /\ t # u /\ Later(Key(st, u), Key(st, t))
    BY <1>4, <1>6
  <2>2. ahead(t) \subseteq ahead(u)
    BY <1>6, <2>1
  <2>3. Cardinality(ahead(t)) <= Cardinality(ahead(u))
    <3> HIDE DEF ahead
    <3> QED
      BY <1>5, <2>2, FS_Subset
  <2>4. Cardinality(ahead(u)) < f.size /\ ~(Cardinality(ahead(t)) < f.size)
    BY <1>2
  <2> HIDE DEF ahead
  <2> QED
    BY <1>3, <1>5, <2>3, <2>4
<1>8. ASSUME NEW t \in after \ page
      PROVE  Cardinality(page) >= f.size
  <2> DEFINE S == after \ page
             R == {x \in S \X S : Later(Key(st, x[2]), Key(st, x[1]))}
  <2>1. IsFiniteSet(S) /\ S # {}
    BY <1>1, <1>8, FS_Subset
  <2>2. \A u, v \in S : <<u, v>> \in R <=> Later(Key(st, v), Key(st, u))
    OBVIOUS
  <2>3. PICK m \in S : \A u \in S \ {m} : <<m, u>> \in R
    <3>1. StrictlyOrders(R, S)
      <4>1. S \subseteq after
        OBVIOUS
      <4> HIDE DEF R, S
      <4> QED
        BY <1>6, <2>2, <4>1 DEF StrictlyOrders
    <3> HIDE DEF R, S
    <3> QED
      BY <2>1, <3>1, FirstMember
  <2>4. ahead(m) \subseteq page
    BY <1>6, <2>2, <2>3
  <2>5. ~(Cardinality(ahead(m)) < f.size)
    BY <1>2, <2>3
  <2>6. Cardinality(ahead(m)) <= Cardinality(page)
    <3> HIDE DEF ahead
    <3> QED
      BY <1>4, <2>4, FS_Subset
  <2> HIDE DEF ahead
  <2> QED
    BY <1>3, <1>4, <1>5, <2>5, <2>6
<1> QED
  BY <1>4, <1>7, <1>8 DEF page, after

(* A page that is not empty has a last task.                               *)
LEMMA PageHasLast ==
    ASSUME ListingAssumption, NEW st, StoreInv(st), NEW page \in SUBSET Tasks,
           IsFiniteSet(page), page # {}
    PROVE  LastOf(st, page) \in page
           /\ \A u \in page \ {LastOf(st, page)} : Later(Key(st, LastOf(st, page)), Key(st, u))
<1> DEFINE R == {x \in page \X page : Later(Key(st, x[1]), Key(st, x[2]))}
<1>1. \A u, v \in page : <<u, v>> \in R <=> Later(Key(st, u), Key(st, v))
  OBVIOUS
<1>2. /\ \A t \in page : Key(st, t) \in Cursor
      /\ \A t, u \in page : Key(st, t) = Key(st, u) => t = u
  BY KeysAreCursors
<1>3. PICK x \in page : \A y \in page \ {x} : <<x, y>> \in R
  <2>1. StrictlyOrders(R, page)
    <3> HIDE DEF R
    <3> QED
      BY <1>1, <1>2, LaterIsLinear DEF StrictlyOrders
  <2>2. IsFiniteSet(page) /\ page # {}
    OBVIOUS
  <2> HIDE DEF R
  <2> DEFINE S == page
  <2>3. StrictlyOrders(R, S) /\ IsFiniteSet(S) /\ S # {}
    BY <2>1, <2>2
  <2> HIDE DEF S
  <2>4. \E x \in S : \A y \in S \ {x} : <<x, y>> \in R
    BY <2>3, FirstMember
  <2> QED
    BY <2>4 DEF S
<1>4. \E t \in page : \A u \in page \ {t} : Later(Key(st, t), Key(st, u))
  BY <1>1, <1>3
<1> QED
  BY <1>4 DEF LastOf

-----------------------------------------------------------------------------
Steady(t) == store.task[t] = walk.start[t] /\ t \in Matching(store, walk.filter)

(* How often a task was shown that did not change: once, if the cursor is  *)
(* at it or behind it.                                                     *)
ShownOK(t) ==
    CASE walk.phase = "idle"    -> walk.shown[t] = 0
      [] walk.phase = "walking" -> walk.shown[t] = IF walk.token # NoToken
                                                      /\ ~Later(Key(store, t), walk.token)
                                                   THEN 1 ELSE 0
      [] walk.phase = "done"    -> walk.shown[t] = 1

WalkTypes ==
    /\ walk = [phase |-> walk.phase, filter |-> walk.filter, token |-> walk.token,
               shown |-> walk.shown, start |-> walk.start]
    /\ walk.phase \in {"idle", "walking", "done"}
    /\ walk.phase # "idle" => walk.filter \in Filters
    /\ walk.token \in Cursor \cup {NoToken}
    /\ walk.shown \in [Tasks -> Nat]
    /\ walk.start \in [Tasks -> TaskValue]

(* A task that is what it was when the walk began has not changed since.   *)
OnlyForward == \A t \in Tasks : walk.start[t].state # "ABSENT" =>
    /\ store.task[t].state # "ABSENT"
    /\ store.task[t] = walk.start[t] \/ store.task[t].rev > walk.start[t].rev

WalkInv ==
    /\ StoreInv(store) /\ Followed(store) /\ now \in Nat
    /\ WalkTypes /\ OnlyForward
    /\ \A t \in Live(store) : Steady(t) => ShownOK(t)

(* What an operation does to the records of the tasks.                     *)
LEMMA OperationMoves ==
    ASSUME StoreAssumption, StoreInv(store), Followed(store), now \in Nat, StoreOperation
    PROVE  /\ StoreInv(store') /\ Followed(store') /\ now' \in Nat
           /\ \A t \in Tasks :
                \/ store'.task[t] = store.task[t]
                \/ store.task[t].state = "ABSENT"
                \/ /\ store'.task[t].state # "ABSENT"
                   /\ store'.task[t].rev > store.task[t].rev
           /\ \A t \in Live(store') : t \in Live(store) \/ store.task[t].state = "ABSENT"
<1>1. store.task \in [Tasks -> TaskValue] /\ \A t \in Tasks : store.task[t].rev \in Nat
  BY StoreSplit DEF TableOK, TaskValue
<1>2. CASE Tick
  BY <1>2 DEF Tick
<1>3. ASSUME NEW t \in Tasks, StateOf(store, t) = "ABSENT", store' = CreateTask(store, t),
             now' = now
      PROVE  /\ StoreInv(store') /\ Followed(store')
             /\ \A u \in Tasks : u # t => store'.task[u] = store.task[u]
             /\ Live(store') \subseteq Live(store) \cup {t}
  <2> DEFINE v == [state |-> "SUBMITTED", stamp |-> now, rev |-> 0]
  <2>1. \A s \in Subs : ~Follows(store.sub[s], t)
    BY <1>3 DEF Followed, Follows, Streaming
  <2>2. store'.task = [store.task EXCEPT ![t] = v] /\ Live(store') \subseteq Live(store) \cup {t}
    BY <1>3, <2>1, CreateTaskInv DEF StateOf
  <2>3. StoreInv(store') /\ Followed(store')
    BY <1>3, CreateTaskCreates
  <2> HIDE DEF v
  <2> QED
    BY <1>1, <2>2, <2>3
<1>4. ASSUME NEW t \in Tasks, NEW v, Touches(store, store', t, [store.task EXCEPT ![t] = v]),
             v.state # "ABSENT", v.rev = store.task[t].rev + 1
      PROVE  /\ Live(store') = Live(store)
             /\ \A u \in Tasks : \/ store'.task[u] = store.task[u]
                                 \/ /\ store'.task[u].state # "ABSENT"
                                    /\ store'.task[u].rev > store.task[u].rev
  <2>1. store'.dict = store.dict /\ store'.task = [store.task EXCEPT ![t] = v]
    BY <1>4 DEF Touches
  <2>2. Live(store') = Live(store)
    BY <2>1 DEF Live
  <2>3. store'.task[t].rev > store.task[t].rev
    BY <1>1, <1>4, <2>1
  <2> QED
    BY <1>1, <1>4, <2>1, <2>2, <2>3
<1>5. ASSUME NEW t \in Tasks, t \in Live(store), store' = AppendData(store, t)
      PROVE  /\ StoreInv(store') /\ Followed(store')
             /\ Live(store') = Live(store)
             /\ \A u \in Tasks : \/ store'.task[u] = store.task[u]
                                 \/ /\ store'.task[u].state # "ABSENT"
                                    /\ store'.task[u].rev > store.task[u].rev
  <2> DEFINE v == [store.task[t] EXCEPT !.rev = @ + 1]
  <2>1. StateOf(store, t) # "ABSENT" /\ store.task[t] \in TaskValue
    BY <1>1, <1>5, LiveState
  <2>2. Touches(store, store', t, [store.task EXCEPT ![t] = v])
    BY <1>5, AppendDataInv
  <2>3. StoreInv(store') /\ Followed(store')
    BY <1>5, <2>1, AppendWritten DEF Written
  <2>4. v.state # "ABSENT" /\ v.rev = store.task[t].rev + 1
    BY <2>1 DEF TaskValue, StateOf
  <2> HIDE DEF v
  <2> QED
    BY <1>4, <2>2, <2>3, <2>4
<1>6. ASSUME NEW t \in Tasks, NEW state \in Terminal \cup Active, t \in Live(store),
             store' = RecordStatus(store, t, state)
      PROVE  /\ StoreInv(store') /\ Followed(store')
             /\ Live(store') = Live(store)
             /\ \A u \in Tasks : \/ store'.task[u] = store.task[u]
                                 \/ /\ store'.task[u].state # "ABSENT"
                                    /\ store'.task[u].rev > store.task[u].rev
  <2> DEFINE v == [state |-> state, stamp |-> now, rev |-> store.task[t].rev + 1]
  <2>1. Touches(store, store', t, [store.task EXCEPT ![t] = v])
    BY <1>6, RecordStatusInv
  <2>2. StoreInv(store') /\ Followed(store')
    BY <1>6, RecordWritten DEF Written
  <2>3. v.state # "ABSENT" /\ v.rev = store.task[t].rev + 1
    BY DEF Terminal, Active
  <2> HIDE DEF v
  <2> QED
    BY <1>4, <2>1, <2>2, <2>3
<1>7. ASSUME NEW t \in Tasks, StateOf(store, t) = "ABSENT", store' = CreateTask(store, t),
             now' = now
      PROVE  /\ \A u \in Tasks : store'.task[u] = store.task[u] \/ store.task[u].state = "ABSENT"
             /\ \A u \in Live(store') : u \in Live(store) \/ store.task[u].state = "ABSENT"
  BY <1>3, <1>7 DEF StateOf
<1> QED
  BY <1>2, <1>3, <1>5, <1>6, <1>7 DEF StoreOperation

LEMMA WalkStarts ==
    ASSUME StoreAssumption, InitStore, InitWalk
    PROVE  WalkInv
<1>1. StoreInv(store) /\ Followed(store) /\ now \in Nat
  BY InitStoreInv DEF InitStore
<1>2. store.task \in [Tasks -> TaskValue]
  BY <1>1, StoreSplit DEF TableOK
<1>3. /\ walk.phase = "idle" /\ walk.token = NoToken /\ walk.start = store.task
      /\ walk.shown = [t \in Tasks |-> 0]
      /\ walk = [phase |-> walk.phase, filter |-> walk.filter, token |-> walk.token,
                 shown |-> walk.shown, start |-> walk.start]
  BY DEF InitWalk
<1>4. WalkTypes
  BY <1>2, <1>3 DEF WalkTypes
<1>5. OnlyForward
  BY <1>3 DEF OnlyForward
<1>6. \A t \in Live(store) : ShownOK(t)
  BY <1>1, <1>3, LiveTasks DEF ShownOK
<1> QED
  BY <1>1, <1>4, <1>5, <1>6 DEF WalkInv

LEMMA BeginKeepsWalk ==
    ASSUME WalkInv, NEW f \in Filters, BeginWalk(f)
    PROVE  WalkInv'
<1>1. /\ StoreInv(store) /\ Followed(store) /\ now \in Nat /\ store' = store /\ now' = now
  BY DEF WalkInv, BeginWalk
<1>2. store.task \in [Tasks -> TaskValue] /\ Live(store) \subseteq Tasks
  BY <1>1, StoreSplit, LiveTasks DEF TableOK
<1>3. /\ walk'.phase = "walking" /\ walk'.token = NoToken /\ walk'.start = store.task
      /\ walk'.shown = [t \in Tasks |-> 0] /\ walk'.filter = f
      /\ walk' = [phase |-> walk'.phase, filter |-> walk'.filter, token |-> walk'.token,
                  shown |-> walk'.shown, start |-> walk'.start]
  BY DEF BeginWalk
<1>4. WalkTypes'
  BY <1>2, <1>3 DEF WalkTypes
<1>5. OnlyForward'
  BY <1>1, <1>3 DEF OnlyForward
<1>6. \A t \in Live(store') : ShownOK(t)'
  BY <1>1, <1>2, <1>3 DEF ShownOK
<1> QED
  BY <1>1, <1>4, <1>5, <1>6 DEF WalkInv

(* A task that is steady after an operation was steady before it.          *)
LEMMA OperationKeepsWalk ==
    ASSUME StoreAssumption, WalkInv, StoreOperation, walk' = walk
    PROVE  WalkInv'
<1>1. /\ StoreInv(store) /\ StoreInv(store') /\ Followed(store') /\ now' \in Nat
      /\ WalkTypes /\ OnlyForward
  BY OperationMoves DEF WalkInv
<1>2. /\ \A t \in Tasks : /\ store.task[t].rev \in Nat /\ store'.task[t].rev \in Nat
                          /\ walk.start[t].rev \in Nat
      /\ Live(store') \subseteq Tasks /\ Live(store) \subseteq Tasks
      /\ \A t \in Live(store') : store'.task[t].state # "ABSENT"
  BY <1>1, StoreSplit, LiveTasks, LiveState DEF TableOK, TaskValue, WalkTypes, StateOf
<1>3. /\ \A t \in Tasks :
                \/ store'.task[t] = store.task[t]
                \/ store.task[t].state = "ABSENT"
                \/ /\ store'.task[t].state # "ABSENT"
                   /\ store'.task[t].rev > store.task[t].rev
      /\ \A t \in Live(store') : t \in Live(store) \/ store.task[t].state = "ABSENT"
  BY OperationMoves DEF WalkInv
<1>4. WalkTypes'
  BY <1>1 DEF WalkTypes
<1>5. OnlyForward'
  BY <1>1, <1>2, <1>3 DEF OnlyForward
<1>6. ASSUME NEW t \in Live(store'), Steady(t)'
      PROVE  ShownOK(t)'
  <2>1. store'.task[t] = walk.start[t] /\ walk.start[t].state # "ABSENT" /\ t \in Tasks
    BY <1>2, <1>6 DEF Steady
  <2>2. store.task[t].state # "ABSENT" /\ store.task[t].rev >= walk.start[t].rev
    BY <1>1, <1>2, <2>1 DEF OnlyForward
  <2>3. store.task[t] = store'.task[t] /\ t \in Live(store)
    BY <1>2, <1>3, <2>1, <2>2
  <2>4. Steady(t)
    BY <1>6, <2>1, <2>3 DEF Steady, Matching, StateOf
  <2>5. ShownOK(t)
    BY <2>3, <2>4 DEF WalkInv
  <2> QED
    BY <2>3, <2>5 DEF ShownOK, Key
<1> QED
  BY <1>1, <1>4, <1>5, <1>6 DEF WalkInv

LEMMA TurnKeepsWalk ==
    ASSUME StoreAssumption, ListingAssumption, WalkInv, TurnPage
    PROVE  WalkInv'
<1> DEFINE f == walk.filter
           token == walk.token
           after == {t \in Matching(store, f) : token # NoToken => Later(Key(store, t), token)}
           page == PageTasks(store, f, token)
           next == NextToken(store, f, page)
           last == LastOf(store, page)
<1>1. /\ StoreInv(store) /\ Followed(store) /\ now \in Nat /\ store' = store /\ now' = now
      /\ WalkTypes /\ OnlyForward /\ walk.phase = "walking"
      /\ f \in Filters /\ token \in Cursor \cup {NoToken}
      /\ f.size \in Nat /\ f.size > 0
  BY DEF WalkInv, TurnPage, WalkTypes, ListingAssumption
<1>2. /\ walk'.phase = IF next = NoToken THEN "done" ELSE "walking"
      /\ walk'.token = next /\ walk'.start = walk.start /\ walk'.filter = f
      /\ walk'.shown = [t \in Tasks |-> walk.shown[t] + (IF t \in page THEN 1 ELSE 0)]
      /\ walk' = [phase |-> walk'.phase, filter |-> walk'.filter, token |-> walk'.token,
                  shown |-> walk'.shown, start |-> walk'.start]
  BY <1>1 DEF TurnPage, WalkTypes
<1>3. /\ page \subseteq after /\ IsFiniteSet(page) /\ Cardinality(page) \in Nat
      /\ \A t \in after \ page : /\ Cardinality(page) >= f.size
                                 /\ \A u \in page : Later(Key(store, t), Key(store, u))
  BY <1>1, PageIsFirst
<1>4. /\ \A t \in Tasks : Key(store, t) \in Cursor
      /\ Live(store) \subseteq Tasks /\ Matching(store, f) \subseteq Live(store)
  BY <1>1, KeysAreCursors DEF Matching
<1>5. after \subseteq Tasks /\ page \subseteq Tasks
  BY <1>3, <1>4
<1>6. \A t : t \in after <=> /\ t \in Matching(store, f)
                             /\ token # NoToken => Later(Key(store, t), token)
  OBVIOUS
<1>7. next = IF Cardinality(page) < f.size THEN NoToken
             ELSE IF \E t \in Matching(store, f) : Later(Key(store, t), Key(store, last))
                  THEN Key(store, last) ELSE NoToken
  BY DEF NextToken
<1> HIDE DEF f, token, after, page, next, last
<1>8. page # {} => /\ last \in page
                   /\ \A u \in page \ {last} : Later(Key(store, last), Key(store, u))
  BY <1>1, <1>3, <1>5, PageHasLast DEF last
<1>9. Cardinality(page) >= f.size => page # {}
  BY <1>1, FS_EmptySet
<1>10. next # NoToken => /\ next = Key(store, last) /\ last \in page /\ next \in Cursor
  <2> SUFFICES ASSUME next # NoToken
               PROVE  next = Key(store, last) /\ last \in page /\ next \in Cursor
    OBVIOUS
  <2>1. next = Key(store, last) /\ ~(Cardinality(page) < f.size)
    BY <1>7
  <2>2. last \in page
    BY <1>1, <1>3, <1>8, <1>9, <2>1
  <2> QED
    BY <1>4, <1>5, <2>1, <2>2
<1>11. WalkTypes'
  <2>1. \A t \in Tasks : walk'.shown[t] \in Nat
    BY <1>1, <1>2 DEF WalkTypes
  <2> QED
    BY <1>1, <1>2, <1>10, <2>1 DEF WalkTypes
<1>12. OnlyForward'
  BY <1>1, <1>2 DEF OnlyForward
<1>13. ASSUME NEW t \in Live(store'), Steady(t)'
       PROVE  ShownOK(t)'
  <2>1. Steady(t) /\ t \in Live(store) /\ t \in Tasks /\ t \in Matching(store, f)
    BY <1>1, <1>2, <1>4, <1>13 DEF Steady, f
  <2>2. walk.shown[t] = IF token # NoToken /\ ~Later(Key(store, t), token) THEN 1 ELSE 0
    BY <1>1, <2>1 DEF WalkInv, ShownOK, token
  <2>3. walk'.shown[t] = walk.shown[t] + (IF t \in page THEN 1 ELSE 0)
    BY <1>2, <2>1
  <2>4. ASSUME walk'.shown[t] = 1, next # NoToken => ~Later(Key(store, t), next)
        PROVE  ShownOK(t)'
    BY <1>1, <1>2, <2>4 DEF ShownOK, Key
  <2>5. CASE t \notin after
    <3>1. walk'.shown[t] = 1
      BY <1>3, <1>6, <2>1, <2>2, <2>3, <2>5
    <3>2. token \in Cursor /\ ~Later(Key(store, t), token)
      BY <1>1, <1>6, <2>1, <2>5
    <3>3. next # NoToken => Later(next, token)
      BY <1>3, <1>6, <1>10, <3>2, LaterIsLinear
    <3>4. next # NoToken => ~Later(Key(store, t), next)
      BY <1>4, <1>10, <2>1, <3>2, <3>3, LaterIsLinear
    <3> QED
      BY <2>4, <3>1, <3>4
  <2>6. CASE t \in page
    <3>1. walk'.shown[t] = 1
      <4>1. t \in after
        BY <1>3, <2>6
      <4> QED
        BY <1>6, <2>2, <2>3, <2>6, <4>1
    <3>2. next # NoToken => ~Later(Key(store, t), next)
      BY <1>4, <1>8, <1>10, <2>1, <2>6, LaterIsLinear
    <3> QED
      BY <2>4, <3>1, <3>2
  <2>7. CASE t \in after \ page
    <3>1. walk.shown[t] = 0 /\ walk'.shown[t] = 0
      BY <1>6, <2>2, <2>3, <2>7
    <3>2. Cardinality(page) >= f.size /\ last \in page /\ Later(Key(store, t), Key(store, last))
      BY <1>3, <1>8, <1>9, <2>7
    <3>3. next = Key(store, last)
      BY <1>1, <1>3, <1>7, <2>1, <3>2
    <3>4. next # NoToken
      BY <1>4, <1>5, <3>2, <3>3, LaterIsLinear
    <3>5. Later(Key(store, t), next)
      BY <3>2, <3>3
    <3>6. walk'.phase = "walking" /\ walk'.token = next
      BY <1>2, <3>4
    <3> QED
      BY <1>1, <3>1, <3>4, <3>5, <3>6 DEF ShownOK, Key
  <2> QED
    BY <2>5, <2>6, <2>7
<1> QED
  BY <1>1, <1>11, <1>12, <1>13 DEF WalkInv

(* A client that follows the page tokens is shown every matching task that *)
(* does not change exactly once, whatever the others do meanwhile: for any *)
(* tasks, table, query and page size.                                      *)
THEOREM WalksAreExact == ListingSpec => []WalkIsExact
<1>1. InitStore /\ InitWalk => WalkInv
  BY WalkStarts, StoreAssumption
<1>2. WalkInv /\ [\/ TurnPage \/ \E f \in Filters : BeginWalk(f)
                  \/ StoreOperation /\ UNCHANGED walk]_<<store, now, walk>> => WalkInv'
  <2> SUFFICES ASSUME WalkInv,
                      [\/ TurnPage \/ \E f \in Filters : BeginWalk(f)
                       \/ StoreOperation /\ UNCHANGED walk]_<<store, now, walk>>
               PROVE  WalkInv'
    OBVIOUS
  <2>1. CASE UNCHANGED <<store, now, walk>>
    BY <2>1 DEF WalkInv, WalkTypes, OnlyForward, Steady, ShownOK, Matching, Live, StateOf, Key
  <2> QED
    BY <2>1, TurnKeepsWalk, BeginKeepsWalk, OperationKeepsWalk, StoreAssumption,
       ListingAssumption
<1>3. WalkInv => WalkIsExact
  <2> SUFFICES ASSUME WalkInv, NEW t \in Live(store), Steady(t)
               PROVE  CASE walk.phase = "done" -> walk.shown[t] = 1
                        [] OTHER -> walk.shown[t] <= 1
    BY DEF WalkIsExact, Steady
  <2>1. ShownOK(t) /\ walk.phase \in {"idle", "walking", "done"}
    BY DEF WalkInv, WalkTypes
  <2>2. walk.phase = "done" => walk.shown[t] = 1
    BY <2>1 DEF ShownOK
  <2>3. walk.shown[t] \in {0, 1}
    <3>1. CASE walk.phase = "idle"
      BY <2>1, <3>1 DEF ShownOK
    <3>2. CASE walk.phase = "walking"
      BY <2>1, <3>2 DEF ShownOK
    <3> QED
      BY <2>1, <2>2, <3>1, <3>2
  <2> QED
    BY <2>2, <2>3
<1> QED
  BY <1>1, <1>2, <1>3, PTL DEF ListingSpec
=============================================================================
