------------------------- MODULE TaskHandlers_proofs -------------------------
(***************************************************************************)
(* The safety of the JSON-RPC and gRPC handlers for any tasks, subscribers *)
(* and bounds, whatever runners report and whenever clients cancel.        *)
(***************************************************************************)
EXTENDS TaskRpc, TaskStore_proofs

(* A runner that came back left its task settled, and a task without a     *)
(* runner was never created or stillborn; eviction is for ever.            *)
Inv ==
    /\ StoreInv(store)
    /\ Followed(store)
    /\ now \in Nat
    /\ work \in [Tasks -> WorkStates]
    /\ ReturnedTaskIsSettled

LEMMA InitInv ==
    ASSUME StoreAssumption, Init
    PROVE  Inv
  <1>1. StoreInv(store) /\ Followed(store) /\ now = 0 /\ Live(store) = {}
    BY InitStoreInv DEF Init, InitStore, Live
  <1> QED
    BY <1>1 DEF Inv, Init, WorkStates, ReturnedTaskIsSettled

(* A write to a live task keeps the invariant if the task is then settled  *)
(* or its runner has not come back.                                        *)
LEMMA WrittenInv ==
    ASSUME Inv, NEW t \in Tasks, NEW state, Written(store, store', t, state), now' = now,
           NEW how \in WorkStates, work' = [work EXCEPT ![t] = how],
           how = "done" => state \in Terminal \cup Interrupted
    PROVE  Inv'
  <1>1. Live(store') = Live(store) /\ Live(store) \subseteq Tasks
    BY LiveTasks DEF Written, Live, Inv
  <1>2. ASSUME NEW u \in Live(store'), work'[u] = "done"
        PROVE  StateOf(store', u) \in Terminal \cup Interrupted
    <2>1. CASE u = t
      BY <1>1, <1>2, <2>1 DEF Written, Inv
    <2>2. CASE u # t
      BY <1>1, <1>2, <2>2 DEF Written, Inv, ReturnedTaskIsSettled
    <2> QED
      BY <2>1, <2>2
  <1> QED
    BY <1>2 DEF Inv, Written, ReturnedTaskIsSettled

LEMMA CreateInv ==
    ASSUME StoreAssumption, Inv, NEW t \in Tasks, NEW how \in {"running", "stillborn"},
           Create(t, how)
    PROVE  Inv'
  <1>1. /\ StoreInv(store') /\ Followed(store') /\ Created(store, store', t)
        /\ Live(store) \subseteq Tasks
    BY CreateTaskCreates, LiveTasks DEF Inv, Create
  <1>2. ASSUME NEW u \in Live(store'), work'[u] = "done"
        PROVE  StateOf(store', u) \in Terminal \cup Interrupted
    <2>1. CASE u = t
      BY <1>2, <2>1 DEF Create, Inv
    <2>2. CASE u # t
      BY <1>1, <1>2, <2>2 DEF Create, Created, Inv, ReturnedTaskIsSettled
    <2> QED
      BY <2>1, <2>2
  <1> QED
    BY <1>1, <1>2 DEF Inv, Create, WorkStates, ReturnedTaskIsSettled

(* A runner that calls the store on an evicted task stops there.           *)
LEMMA EvictedInv ==
    ASSUME Inv, NEW t \in Tasks, t \notin Live(store), UNCHANGED <<store, now>>,
           work' = [work EXCEPT ![t] = "done"]
    PROVE  Inv'
  BY LiveTasks DEF Inv, WorkStates, ReturnedTaskIsSettled

LEMMA RunnerInv ==
    ASSUME StoreAssumption, Inv, NEW t \in Tasks,
           RunnerReports(t) \/ RunnerAppends(t) \/ RunnerConcludes(t)
    PROVE  Inv'
  <1>1. /\ StoreInv(store) /\ now \in Nat /\ work \in [Tasks -> WorkStates]
    BY DEF Inv
  <1>2. work[t] = "running" /\ now' = now
    BY DEF RunnerReports, RunnerAppends, RunnerConcludes, RunnerCall
  <1>3. work = [work EXCEPT ![t] = "running"]
    BY <1>1, <1>2
  <1>4. CASE t \notin Live(store)
    BY <1>2, <1>4, EvictedInv DEF RunnerReports, RunnerAppends, RunnerConcludes, RunnerCall
  <1>5. CASE t \in Live(store) /\ RunnerReports(t)
    <2>1. Written(store, store', t, "WORKING") /\ work' = work
      BY <1>1, <1>5, RecordWritten DEF RunnerReports, RunnerCall, Active
    <2> QED
      BY <1>2, <1>3, <2>1, WrittenInv DEF WorkStates
  <1>6. CASE t \in Live(store) /\ RunnerAppends(t)
    <2>1. Written(store, store', t, StateOf(store, t)) /\ work' = work
      BY <1>1, <1>6, LiveState, AppendWritten DEF RunnerAppends, RunnerCall
    <2> QED
      BY <1>2, <1>3, <2>1, WrittenInv DEF WorkStates
  <1>7. CASE t \in Live(store) /\ RunnerConcludes(t)
    <2>1. PICK state \in {"COMPLETED", "FAILED"} \cup Interrupted :
             /\ store' = RecordStatus(store, t, state)
             /\ work' = [work EXCEPT ![t] = "done"]
      BY <1>7 DEF RunnerConcludes
    <2>2. state \in Terminal \cup Active /\ state \in Terminal \cup Interrupted
      BY DEF Terminal, Active, Interrupted
    <2>3. Written(store, store', t, state)
      BY <1>1, <2>1, <2>2, RecordWritten
    <2> QED
      BY <1>2, <2>1, <2>2, <2>3, WrittenInv DEF WorkStates
  <1> QED
    BY <1>4, <1>5, <1>6, <1>7

LEMMA CancelInv ==
    ASSUME StoreAssumption, Inv, NEW t \in Tasks, Cancel(t)
    PROVE  Inv'
  <1>1. StoreInv(store) /\ now \in Nat /\ work' = work /\ now' = now
    BY DEF Inv, Cancel
  <1>2. CASE StateOf(store, t) \in Terminal
    BY <1>2 DEF Cancel, CancelTask, Inv, ReturnedTaskIsSettled
  <1>3. CASE StateOf(store, t) \notin Terminal
    <2>1. Written(store, store', t, "CANCELED") /\ "CANCELED" \in Terminal
      BY <1>1, <1>3, RecordWritten DEF Cancel, CancelTask, Terminal
    <2>2. work[t] \in WorkStates /\ work' = [work EXCEPT ![t] = work[t]]
      BY <1>1 DEF Inv
    <2> QED
      BY <1>1, <2>1, <2>2, WrittenInv
  <1> QED
    BY <1>2, <1>3

LEMMA NextInv ==
    ASSUME StoreAssumption, Inv, [Next]_vars
    PROVE  Inv'
  <1>1. ASSUME NEW t \in Tasks, SubmitMessage(t) \/ StreamMessage(t)
        PROVE  Inv'
    BY <1>1, CreateInv DEF SubmitMessage, StreamMessage
  <1>2. ASSUME NEW s \in Subs, Stream(s)
        PROVE  Inv'
    <2>1. StreamKeeps(s) /\ Followed(store')
      BY <1>2, StreamStepInv, StreamStepFollowed DEF Stream, StreamStep, Inv
    <2>2. Live(store') = Live(store) /\ work' = work
      BY <1>2, <2>1 DEF StreamKeeps, Live, Stream
    <2> QED
      BY <2>1, <2>2 DEF Inv, StreamKeeps, ReturnedTaskIsSettled, StateOf
  <1>3. CASE TimePasses \/ UNCHANGED vars
    BY <1>3 DEF TimePasses, Tick, vars, Inv, ReturnedTaskIsSettled
  <1> QED
    BY <1>1, <1>2, <1>3, RunnerInv, CancelInv DEF Next

LEMMA Invariance == Spec => []Inv
  <1>1. Init => Inv
    BY InitInv, StoreAssumption
  <1>2. Inv /\ [Next]_vars => Inv'
    BY NextInv, StoreAssumption
  <1> QED
    BY <1>1, <1>2, PTL DEF Spec

LEMMA InvPromises ==
    ASSUME Inv
    PROVE  TypeOK /\ StreamsGapFree /\ ClosedStreamsEnd /\ ReturnedTaskIsSettled
  BY DEF Inv, StoreInv, TypeOK, StreamsGapFree, ClosedStreamsEnd

(* Every variable keeps its type, and table and queues their bounds.       *)
THEOREM HandlersTypeCorrect == Spec => []TypeOK
  BY Invariance, InvPromises, PTL

(* However many updates a runner makes, before or after a cancellation, a  *)
(* subscriber that was not warned of a loss has missed nothing.            *)
THEOREM HandlersMissNothing == Spec => []StreamsGapFree
  BY Invariance, InvPromises, PTL

(* A subscription marked closed still ends its consumer.                   *)
THEOREM HandlersMarkedStreamsEnd == Spec => []ClosedStreamsEnd
  BY Invariance, InvPromises, PTL

(* When a runner has returned or raised, its task is terminal or waits for *)
(* its client.                                                             *)
THEOREM NobodyIsLeftWorking == Spec => []ReturnedTaskIsSettled
  BY Invariance, InvPromises, PTL

-----------------------------------------------------------------------------
(* The order of what consumers see.                                        *)

(* A step that keeps the queues ordered and moves no consumer backwards.   *)
Forward ==
    /\ StoreOrdered(store')
    /\ \A s \in Subs : Streaming(store, s) => Moves(store.sub[s], store'.sub[s])

LEMMA WriteForward ==
    ASSUME Inv, StoreOrdered(store'), SeenKept(store, store')
    PROVE  Forward
  <1>1. \A s \in Subs : store.sub[s].seen \in Nat
    BY StoreSplit DEF Inv, Subscription
  <1> QED
    BY <1>1 DEF Forward, Moves, SeenKept

LEMMA NextForward ==
    ASSUME StoreAssumption, Inv, StoreOrdered(store), [Next]_vars
    PROVE  Forward
  <1>1. StoreInv(store) /\ Followed(store) /\ now \in Nat
    BY DEF Inv
  <1>2. ASSUME UNCHANGED store
        PROVE  Forward
    BY <1>2, WriteForward DEF SeenKept
  <1>3. ASSUME NEW t \in Tasks, NEW state \in Terminal \cup Active,
               store' = RecordStatus(store, t, state)
        PROVE  Forward
    BY <1>1, <1>3, RecordOrdered, WriteForward
  <1>4. ASSUME NEW t \in Tasks, SubmitMessage(t) \/ StreamMessage(t)
        PROVE  Forward
    <2>1. StateOf(store, t) = "ABSENT" /\ store' = CreateTask(store, t)
      BY <1>4 DEF SubmitMessage, StreamMessage, Create
    <2>2. StoreOrdered(store') /\ store'.sub = store.sub
      BY <1>1, <2>1, CreateOrdered
    <2> QED
      BY <2>2, WriteForward DEF SeenKept
  <1>5. ASSUME NEW t \in Tasks, RunnerReports(t)
        PROVE  Forward
    BY <1>2, <1>3, <1>5 DEF RunnerReports, RunnerCall, Active
  <1>6. ASSUME NEW t \in Tasks, RunnerAppends(t)
        PROVE  Forward
    BY <1>1, <1>2, <1>6, AppendOrdered, WriteForward DEF RunnerAppends, RunnerCall
  <1>7. ASSUME NEW t \in Tasks, RunnerConcludes(t)
        PROVE  Forward
    <2>1. PICK state \in {"COMPLETED", "FAILED"} \cup Interrupted :
             store' = IF t \in Live(store) THEN RecordStatus(store, t, state) ELSE store
      BY <1>7 DEF RunnerConcludes
    <2>2. state \in Terminal \cup Active
      BY DEF Terminal, Active, Interrupted
    <2> QED
      BY <1>2, <1>3, <2>1, <2>2
  <1>8. ASSUME NEW t \in Tasks, Cancel(t)
        PROVE  Forward
    BY <1>2, <1>3, <1>8 DEF Cancel, CancelTask, Terminal
  <1>9. ASSUME NEW s \in Subs, Stream(s)
        PROVE  Forward
    BY <1>1, <1>9, StreamStepOrdered DEF Stream, StreamStep, Forward
  <1>10. CASE TimePasses \/ UNCHANGED vars
    BY <1>2, <1>10 DEF TimePasses, Tick, vars
  <1> QED
    BY <1>4, <1>5, <1>6, <1>7, <1>8, <1>9, <1>10 DEF Next

LEMMA OrderInvariance == Spec => [](Inv /\ StoreOrdered(store))
  <1>1. Init => Inv /\ StoreOrdered(store)
    BY InitInv, InitOrdered, StoreAssumption DEF Init
  <1>2. Inv /\ StoreOrdered(store) /\ [Next]_vars => (Inv /\ StoreOrdered(store))'
    BY NextInv, NextForward, StoreAssumption DEF Forward
  <1> QED
    BY <1>1, <1>2, PTL DEF Spec

(* A queue that overflows keeps the newest events: a consumer that is not  *)
(* about to be ended finds the task's present revision at the end of it.   *)
THEOREM NewestEventStays == Spec => []NewestIsKept
  <1>1. Inv /\ StoreOrdered(store) => NewestIsKept
    BY DEF NewestIsKept, StoreOrdered, Ordered, RevSeen, Streaming
  <1> QED
    BY <1>1, OrderInvariance, PTL

(* However the queue overflows, a consumer sees later and later revisions, *)
(* and each of them unless it was warned.                                  *)
THEOREM ConsumersGoForward == Spec => StreamsAdvance
  <1>1. Inv /\ StoreOrdered(store) /\ [Next]_vars
          => [\A s \in Subs : Streaming(store, s) =>
                /\ store'.sub[s].seen >= store.sub[s].seen
                /\ (store'.sub[s].seen = store.sub[s].seen
                      \/ store'.sub[s].lost
                      \/ store'.sub[s].seen = store.sub[s].seen + 1)]_store
    BY NextForward, StoreAssumption DEF Forward, Moves
  <1> QED
    BY <1>1, OrderInvariance, PTL DEF Spec, StreamsAdvance

-----------------------------------------------------------------------------
(* The bindings: what requests, alone or in a batch, leave behind.         *)

RpcStates == Terminal \cup Active \cup {"ABSENT", "error"}
ReplyValue == [method : Methods, state : RpcStates]
WorldValue == [store : StoreValue, work : [Tasks -> WorkStates], left : Seq(Requests),
               wait : Tasks \cup {NoTask}, replies : Seq(ReplyValue)]
RpcValue == [body : Seq(Requests), left : Seq(Requests),
             phase : {"idle", "handling", "refused", "waiting", "answered", "crashed", "dropped"},
             task : Tasks \cup {NoTask}, replies : Seq(ReplyValue)]

Settled == Terminal \cup Interrupted

(* The task was dropped by a call that failed.                             *)
Dropped(calls, t) == \E c \in Clients :
    /\ calls[c].task = t
    /\ calls[c].phase = "crashed" \/ (calls[c].phase = "dropped" /\ c \in Grpc)

(* Every task is settled, worked on, or dropped by a failed call.          *)
WorkOK(st, wk, calls) ==
    /\ StoreInv(st) /\ Followed(st)
    /\ wk \in [Tasks -> WorkStates]
    /\ \A t \in Live(st) : StateOf(st, t) \in Settled
                           \/ wk[t] = "running" \/ (wk[t] # "done" /\ Dropped(calls, t))

Plain(reqs) == \A i \in DOMAIN reqs : reqs[i].method \notin StreamingMethods

(* n requests of the body are behind us, the last ones waiting for a       *)
(* message/send.                                                           *)
LeftOK(left, waits, replies, body, n) ==
    /\ Len(left) <= n
    /\ \A i \in 1..Len(left) : left[i] = body[n - Len(left) + i]
    /\ waits => left # <<>> /\ left[1].method = "send"
    /\ ~waits => left = <<>>
    /\ Answered(replies, body, n - Len(left))

WorldOK(w, body, n) ==
    /\ w \in WorldValue
    /\ WorkOK(w.store, w.work, rpc)
    /\ LeftOK(w.left, w.wait # NoTask, w.replies, body, n)

RpcOK(r) ==
    /\ r.phase \in {"idle", "handling"} => r.replies = <<>>
    /\ r.phase = "handling" => /\ r.left = r.body /\ r.body # <<>>
                               /\ Plain(r.body) \/ Len(r.body) = 1
    /\ r.phase = "waiting" => /\ r.task \in Tasks /\ Plain(r.body)
                              /\ LeftOK(r.left, TRUE, r.replies, r.body, Len(r.body))
    /\ r.phase = "answered" => Answered(r.replies, r.body, Len(r.body))

RpcInv ==
    /\ now \in Nat /\ WorkOK(store, work, rpc)
    /\ rpc \in [Clients -> RpcValue] /\ \A c \in Clients : RpcOK(rpc[c])

-----------------------------------------------------------------------------
(* The places of replies.                                                  *)
LEMMA Places ==
    ASSUME NEW body \in Seq(Requests), NEW n \in 0..Len(body)
    PROVE  /\ Place(body, n) \in Nat
           /\ Place(body, 0) = 0
           /\ n < Len(body) => Place(body, n + 1) = IF body[n + 1].id THEN Place(body, n) + 1
                                                    ELSE Place(body, n)
           /\ \A j \in 1..n : body[j].id => Place(body, j) \in 1..Place(body, n)
<1> DEFINE S(k) == {i \in 1..k : body[i].id}
<1>1. \A k \in Nat : IsFiniteSet(S(k)) /\ Cardinality(S(k)) \in Nat
  <2> SUFFICES ASSUME NEW k \in Nat
               PROVE  IsFiniteSet(S(k)) /\ Cardinality(S(k)) \in Nat
    OBVIOUS
  <2>1. IsFiniteSet(1..k) /\ S(k) \subseteq 1..k
    BY FS_Interval
  <2> QED
    BY <2>1, FS_Subset, FS_CardinalityType
<1>2. \A k \in Nat : Place(body, k) = Cardinality(S(k))
  BY DEF Place
<1>3. S(0) = {} /\ Cardinality({}) = 0
  BY FS_EmptySet
<1>4. n < Len(body) => S(n + 1) = IF body[n + 1].id THEN S(n) \cup {n + 1} ELSE S(n)
  BY DEF Requests
<1>5. n + 1 \notin S(n)
  OBVIOUS
<1>6. n < Len(body) => Cardinality(S(n + 1)) = IF body[n + 1].id THEN Cardinality(S(n)) + 1
                                               ELSE Cardinality(S(n))
  <2> DEFINE A == S(n)  B == S(n + 1)  x == n + 1
  <2>1. IsFiniteSet(A) /\ Cardinality(A) \in Nat /\ x \notin A
    BY <1>1, <1>5
  <2>2. n < Len(body) => B = IF body[n + 1].id THEN A \cup {x} ELSE A
    BY <1>4
  <2> HIDE DEF A, B, x
  <2>3. Cardinality(A \cup {x}) = Cardinality(A) + 1
    BY <2>1, FS_AddElement
  <2>4. n < Len(body) => Cardinality(B) = IF body[n + 1].id THEN Cardinality(A) + 1
                                          ELSE Cardinality(A)
    BY <2>2, <2>3
  <2> QED
    BY <2>4 DEF A, B
<1>7. ASSUME NEW j \in 1..n, body[j].id
      PROVE  Place(body, j) \in 1..Place(body, n)
  <2>1. j \in S(j) /\ S(j) \subseteq S(n)
    BY <1>7
  <2>2. Cardinality(S(j)) <= Cardinality(S(n)) /\ Cardinality(S(j)) # 0
    <3> DEFINE A == S(j)  B == S(n)
    <3>1. IsFiniteSet(A) /\ IsFiniteSet(B) /\ j \in A /\ A \subseteq B
      BY <1>1, <2>1
    <3> HIDE DEF A, B
    <3>2. Cardinality(A) <= Cardinality(B) /\ Cardinality(A) # 0
      BY <3>1, FS_Subset, FS_EmptySet
    <3> QED
      BY <3>2 DEF A, B
  <2>3. Cardinality(S(j)) \in Nat /\ Cardinality(S(n)) \in Nat
    <3> HIDE DEF S
    <3> QED
      BY <1>1
  <2>4. Place(body, j) = Cardinality(S(j)) /\ Place(body, n) = Cardinality(S(n))
    BY <1>2
  <2> HIDE DEF S
  <2> QED
    BY <2>2, <2>3, <2>4
<1>8. Place(body, n) \in Nat /\ Place(body, 0) = 0
  <2>1. n \in Nat /\ 0 \in Nat
    OBVIOUS
  <2> HIDE DEF S
  <2>2. Place(body, n) = Cardinality(S(n)) /\ Cardinality(S(n)) \in Nat
    BY <1>1, <1>2, <2>1
  <2>3. Place(body, 0) = Cardinality(S(0))
    BY <1>2, <2>1
  <2> QED
    BY <1>3, <2>2, <2>3
<1>9. n < Len(body) => Place(body, n + 1) = IF body[n + 1].id THEN Place(body, n) + 1
                                            ELSE Place(body, n)
  <2>1. Place(body, n) = Cardinality(S(n)) /\ Place(body, n + 1) = Cardinality(S(n + 1))
    BY <1>2
  <2> HIDE DEF S
  <2> QED
    BY <1>6, <2>1
<1> QED
  BY <1>7, <1>8, <1>9

(* The next request of the body, with or without an id, has its reply.     *)
LEMMA ReplyAnswers ==
    ASSUME NEW body \in Seq(Requests), NEW n \in Nat, n < Len(body),
           NEW w \in WorldValue, Answered(w.replies, body, n), NEW state \in RpcStates,
           body[n + 1].method = "send" => state \in Settled \cup {"error"}
    PROVE  LET v == Reply(w, body[n + 1], state)
           IN /\ v \in WorldValue /\ Answered(v.replies, body, n + 1)
              /\ v.store = w.store /\ v.work = w.work /\ v.left = w.left /\ v.wait = w.wait
<1> DEFINE r == body[n + 1]
           x == [method |-> r.method, state |-> state]
           v == Reply(w, r, state)
           old == w.replies
<1>1. r \in Requests /\ r.id \in BOOLEAN /\ x \in ReplyValue /\ old \in Seq(ReplyValue)
  <2>1. r \in Requests
    <3> HIDE DEF x
    <3>1. n + 1 \in 1..Len(body)
      OBVIOUS
    <3> QED
      BY <3>1, ElementOfSeq
  <2>2. r.id \in BOOLEAN /\ r.method \in Methods
    BY <2>1 DEF Requests
  <2> QED
    BY <2>1, <2>2 DEF WorldValue, ReplyValue
<1>2. /\ v \in WorldValue /\ v.replies = IF r.id THEN Append(old, x) ELSE old
      /\ v.store = w.store /\ v.work = w.work /\ v.left = w.left /\ v.wait = w.wait
  <2>1. Append(old, x) \in Seq(ReplyValue)
    BY <1>1
  <2> HIDE DEF x, r
  <2>2. v = IF r.id THEN [w EXCEPT !.replies = Append(old, x)] ELSE w
    BY DEF Reply, x
  <2> QED
    BY <2>1, <2>2 DEF WorldValue
<1> HIDE DEF v
<1>3. /\ Place(body, n) \in Nat /\ Len(old) = Place(body, n)
      /\ Place(body, n + 1) = IF r.id THEN Place(body, n) + 1 ELSE Place(body, n)
      /\ \A j \in 1..n : body[j].id => Place(body, j) \in 1..Place(body, n)
  BY Places DEF Answered
<1>4. ASSUME ~r.id
      PROVE  Answered(v.replies, body, n + 1)
  <2>1. v.replies = old /\ Place(body, n + 1) = Place(body, n)
    BY <1>2, <1>3, <1>4
  <2>2. \A j \in 1..(n + 1) : body[j].id => j \in 1..n
    BY <1>4
  <2>3. Answered(old, body, n + 1)
    BY <1>3, <2>1, <2>2 DEF Answered
  <2> QED
    BY <2>1, <2>3
<1>5. ASSUME r.id
      PROVE  Answered(v.replies, body, n + 1)
  <2> DEFINE new == Append(old, x)
             p == Place(body, n)
  <2>1. /\ Len(new) = p + 1 /\ new[p + 1] = x /\ DOMAIN new = 1..(p + 1)
        /\ \A i \in 1..p : new[i] = old[i] /\ i \in DOMAIN old
    BY <1>1, <1>3
  <2>2. Place(body, n + 1) = p + 1 /\ p \in Nat
    BY <1>3, <1>5
  <2>3. x.method = r.method /\ x.state = state
    OBVIOUS
  <2> HIDE DEF new, p, x
  <2>4. ASSUME NEW j \in 1..(n + 1), body[j].id
        PROVE  new[Place(body, j)].method = body[j].method
    <3>1. CASE j = n + 1
      BY <2>1, <2>2, <2>3, <3>1
    <3>2. CASE j \in 1..n
      BY <1>3, <2>1, <2>4, <3>2 DEF Answered, p
    <3> QED
      BY <3>1, <3>2
  <2>5. ASSUME NEW i \in DOMAIN new, new[i].method = "send"
        PROVE  new[i].state \in Terminal \cup Interrupted \cup {"error"}
    <3>1. CASE i = p + 1
      BY <2>1, <2>3, <2>5, <3>1 DEF Settled
    <3>2. CASE i \in 1..p
      BY <2>1, <2>5, <3>2 DEF Answered
    <3> QED
      BY <2>1, <2>2, <3>1, <3>2
  <2>6. Answered(new, body, n + 1)
    BY <2>1, <2>2, <2>4, <2>5 DEF Answered
  <2>7. v.replies = new
    BY <1>2, <1>5 DEF new, x
  <2> QED
    BY <2>6, <2>7
<1>6. Answered(v.replies, body, n + 1)
  BY <1>1, <1>4, <1>5
<1> QED
  BY <1>2, <1>6 DEF v

-----------------------------------------------------------------------------
(* What calls do to the tasks.                                             *)
LEMMA WorkWritten ==
    ASSUME NEW st, NEW wk, NEW calls, WorkOK(st, wk, calls), NEW x, NEW t \in Tasks, NEW state,
           Written(st, x, t, state), NEW how \in WorkStates,
           state \in Settled \/ how = "running"
    PROVE  WorkOK(x, [wk EXCEPT ![t] = how], calls)
<1> DEFINE after == [wk EXCEPT ![t] = how]
<1>1. Live(x) = Live(st) /\ Live(st) \subseteq Tasks /\ wk \in [Tasks -> WorkStates]
  BY LiveTasks DEF Written, Live, WorkOK
<1>2. /\ after \in [Tasks -> WorkStates] /\ after[t] = how
      /\ \A u \in Tasks : u # t => after[u] = wk[u]
  BY <1>1
<1>3. StoreInv(x) /\ Followed(x)
      /\ \A u \in Tasks : StateOf(x, u) = IF u = t THEN state ELSE StateOf(st, u)
  BY DEF Written, WorkOK
<1> HIDE DEF after
<1>4. ASSUME NEW u \in Live(x)
      PROVE  StateOf(x, u) \in Settled \/ after[u] = "running"
             \/ (after[u] # "done" /\ Dropped(calls, u))
  <2>1. CASE u = t
    BY <1>1, <1>2, <1>3, <2>1
  <2>2. CASE u # t
    BY <1>1, <1>2, <1>3, <2>2 DEF WorkOK
  <2> QED
    BY <2>1, <2>2
<1>5. WorkOK(x, after, calls)
  BY <1>2, <1>3, <1>4 DEF WorkOK
<1> QED
  BY <1>5 DEF after

(* A task comes into being with a runner, or dropped by the call.          *)
LEMMA WorkCreated ==
    ASSUME StoreAssumption, now \in Nat, NEW st, NEW wk, NEW calls,
           WorkOK(st, wk, calls), NEW t \in Tasks,
           StateOf(st, t) = "ABSENT", NEW how \in WorkStates,
           how = "running" \/ (how = "stillborn" /\ Dropped(calls, t))
    PROVE  WorkOK(CreateTask(st, t), [wk EXCEPT ![t] = how], calls)
<1> DEFINE after == [wk EXCEPT ![t] = how]
           x == CreateTask(st, t)
<1>1. /\ StoreInv(x) /\ Followed(x) /\ Created(st, x, t)
      /\ Live(st) \subseteq Tasks /\ wk \in [Tasks -> WorkStates]
  BY CreateTaskCreates, LiveTasks DEF WorkOK
<1>2. /\ after \in [Tasks -> WorkStates] /\ after[t] = how
      /\ \A u \in Tasks : u # t => after[u] = wk[u]
  BY <1>1
<1> HIDE DEF after, x
<1>3. ASSUME NEW u \in Live(x)
      PROVE  StateOf(x, u) \in Settled \/ after[u] = "running"
             \/ (after[u] # "done" /\ Dropped(calls, u))
  <2>1. CASE u = t
    BY <1>2, <2>1
  <2>2. CASE u # t
    BY <1>1, <1>2, <2>2 DEF Created, WorkOK
  <2> QED
    BY <2>1, <2>2
<1>4. WorkOK(x, after, calls)
  BY <1>1, <1>2, <1>3 DEF WorkOK
<1> QED
  BY <1>4 DEF after, x

LEMMA WorkCancelled ==
    ASSUME StoreAssumption, now \in Nat, NEW st, NEW wk, NEW calls,
           WorkOK(st, wk, calls), NEW t \in Tasks
    PROVE  WorkOK(CancelTask(st, t), wk, calls)
<1>1. CASE StateOf(st, t) \in Terminal
  BY <1>1 DEF CancelTask
<1>2. CASE StateOf(st, t) \notin Terminal
  <2>1. Written(st, CancelTask(st, t), t, "CANCELED") /\ "CANCELED" \in Settled
    BY <1>2, RecordWritten DEF CancelTask, Terminal, WorkOK, Settled
  <2>2. wk \in [Tasks -> WorkStates]
    BY DEF WorkOK
  <2>3. wk[t] \in WorkStates /\ wk = [wk EXCEPT ![t] = wk[t]]
    BY <2>2
  <2> QED
    BY <2>1, <2>3, WorkWritten
<1> QED
  BY <1>1, <1>2

(* What a request shows of a task.                                         *)
LEMMA ShowsStates ==
    ASSUME NEW w, WorkOK(w.store, w.work, rpc), NEW t
    PROVE  /\ Shows(w, t) \in RpcStates
           /\ t \in Tasks /\ w.work[t] = "done" => Shows(w, t) \in Settled \cup {"error"}
<1>1. Live(w.store) \subseteq Tasks /\ w.store.task \in [Tasks -> TaskValue]
  BY LiveTasks, StoreSplit DEF WorkOK, TableOK
<1>2. t \in Live(w.store) => StateOf(w.store, t) \in RpcStates
  BY <1>1 DEF StateOf, TaskValue, RpcStates
<1>3. t \in Live(w.store) /\ w.work[t] = "done" => StateOf(w.store, t) \in Settled
  BY DEF WorkOK
<1> QED
  BY <1>2, <1>3 DEF Shows, RpcStates

-----------------------------------------------------------------------------
(* One request of a body.                                                  *)
LEMMA RequestHandled ==
    ASSUME StoreAssumption, now \in Nat, NEW body \in Seq(Requests), NEW n \in Nat,
           n < Len(body), body[n + 1].method \notin StreamingMethods,
           NEW w, WorldOK(w, body, n), NEW v \in HandleSingle(w, body[n + 1])
    PROVE  WorldOK(v, body, n + 1)
<1> DEFINE r == body[n + 1]
<1>1. r \in Requests
  <2>1. n + 1 \in 1..Len(body)
    OBVIOUS
  <2> QED
    BY <2>1, ElementOfSeq
<1>2. /\ w \in WorldValue /\ WorkOK(w.store, w.work, rpc) /\ w.left \in Seq(Requests)
      /\ w.store \in StoreValue /\ w.work \in [Tasks -> WorkStates]
      /\ w.wait \in Tasks \cup {NoTask} /\ w.replies \in Seq(ReplyValue)
      /\ Len(w.left) \in Nat
  BY DEF WorldOK, WorldValue
<1> DEFINE Quiet(u) == /\ u \in WorldValue /\ WorkOK(u.store, u.work, rpc)
                       /\ u.wait = NoTask /\ u.left = w.left /\ u.replies = w.replies
<1>3. CASE w.wait # NoTask
  <2> DEFINE left == Append(w.left, r)
  <2>1. v = [w EXCEPT !.left = Append(w.left, r)]
    BY <1>3 DEF HandleSingle
  <2>2. /\ left \in Seq(Requests) /\ Len(left) = Len(w.left) + 1
        /\ \A i \in 1..Len(w.left) : left[i] = w.left[i]
        /\ left[Len(w.left) + 1] = r
    BY <1>1, <1>2
  <2>3. LeftOK(w.left, TRUE, w.replies, body, n)
    BY <1>3 DEF WorldOK
  <2> DEFINE k == Len(w.left)
  <2>4. /\ k <= n /\ \A i \in 1..k : w.left[i] = body[n - k + i]
        /\ w.left # <<>> /\ w.left[1].method = "send" /\ Answered(w.replies, body, n - k)
    BY <2>3 DEF LeftOK
  <2>5. k \in Nat /\ k # 0
    BY <1>2, <2>4
  <2>6. v.store = w.store /\ v.work = w.work /\ v.wait = w.wait /\ v.replies = w.replies
        /\ v.left = left /\ v \in WorldValue
    <3> HIDE DEF left, r
    <3>1. v = [w EXCEPT !.left = left]
      BY <2>1 DEF left
    <3> QED
      BY <1>2, <2>2, <3>1 DEF WorldValue
  <2> HIDE DEF left, k, r
  <2>7. Len(left) = k + 1 /\ (n + 1) - (k + 1) = n - k
    BY <2>2, <2>5 DEF k
  <2>8. ASSUME NEW i \in 1..(k + 1)
        PROVE  left[i] = body[(n + 1) - (k + 1) + i]
    <3>1. CASE i = k + 1
      <4>1. (n + 1) - (k + 1) + i = n + 1
        BY <2>5, <3>1
      <4> QED
        BY <2>2, <3>1, <4>1 DEF k, r
    <3>2. CASE i \in 1..k
      <4>1. (n + 1) - (k + 1) + i = n - k + i
        BY <2>5
      <4> QED
        BY <2>2, <2>4, <3>2, <4>1 DEF k
    <3> QED
      BY <2>5, <3>1, <3>2
  <2>9. left # <<>> /\ left[1].method = "send"
    BY <2>2, <2>4, <2>5 DEF k
  <2>10. LeftOK(left, TRUE, w.replies, body, n + 1)
    BY <2>4, <2>5, <2>7, <2>8, <2>9 DEF LeftOK
  <2> QED
    BY <1>2, <1>3, <2>6, <2>10 DEF WorldOK
<1>4. CASE w.wait = NoTask
  <2>1. w.left = <<>> /\ Answered(w.replies, body, n)
    <3>1. LeftOK(w.left, FALSE, w.replies, body, n)
      BY <1>4 DEF WorldOK
    <3>2. w.left = <<>> /\ Len(w.left) = 0
      BY <3>1 DEF LeftOK
    <3> QED
      BY <3>1, <3>2 DEF LeftOK
  <2>2. ASSUME NEW u, Quiet(u), NEW state \in RpcStates,
               r.method = "send" => state \in Settled \cup {"error"}
        PROVE  WorldOK(Reply(u, r, state), body, n + 1)
    <3> DEFINE x == Reply(u, r, state)
    <3>1. /\ x \in WorldValue /\ Answered(x.replies, body, n + 1)
          /\ x.store = u.store /\ x.work = u.work /\ x.left = u.left /\ x.wait = u.wait
      BY <2>1, <2>2, ReplyAnswers
    <3> HIDE DEF x
    <3>2. x.left = <<>> /\ Len(x.left) = 0 /\ x.wait = NoTask
      BY <2>1, <2>2, <3>1
    <3>3. LeftOK(x.left, x.wait # NoTask, x.replies, body, n + 1)
      BY <3>1, <3>2 DEF LeftOK
    <3>4. WorldOK(x, body, n + 1)
      BY <2>2, <3>1, <3>3 DEF WorldOK
    <3> QED
      BY <3>4 DEF x
  <2>3. Quiet(w)
    BY <1>2, <1>4
  <2>4. CASE r.method \in {"send", "sendnow"}
    <3>1. PICK t \in Tasks : StateOf(w.store, t) = "ABSENT" /\ v = Submitted(w, r, t)
      BY <1>4, <2>4 DEF HandleSingle
    <3> DEFINE x == CreateTask(w.store, t)
               after == [w.work EXCEPT ![t] = "running"]
               begun == [w EXCEPT !.store = x, !.work = after]
    <3>2. WorkOK(x, after, rpc)
      BY <1>2, <3>1, WorkCreated DEF WorkStates
    <3>3. x \in StoreValue /\ after \in [Tasks -> WorkStates]
      BY <3>2 DEF WorkOK, StoreInv, StoreOK
    <3> HIDE DEF x, after
    <3>4. begun = [w EXCEPT !.store = CreateTask(w.store, t), !.work[t] = "running"]
      BY <1>2 DEF x, after, WorldValue
    <3>5. begun \in WorldValue /\ begun.store = x /\ begun.work = after
          /\ begun.wait = w.wait /\ begun.left = w.left /\ begun.replies = w.replies
      BY <1>2, <3>3 DEF WorldValue
    <3> HIDE DEF begun
    <3>6. v = IF r.method = "send" THEN [begun EXCEPT !.wait = t, !.left = <<r>>]
              ELSE Reply(begun, r, "SUBMITTED")
      BY <3>1, <3>4 DEF Submitted
    <3>7. CASE r.method = "sendnow"
      <4>1. Quiet(begun) /\ "SUBMITTED" \in RpcStates
        BY <1>4, <3>2, <3>5 DEF RpcStates, Active
      <4>2. v = Reply(begun, r, "SUBMITTED")
        BY <3>6, <3>7
      <4> HIDE DEF Quiet, r
      <4> QED
        BY <2>2, <3>7, <4>1, <4>2
    <3>8. CASE r.method = "send"
      <4> HIDE DEF r
      <4>1. <<r>> \in Seq(Requests) /\ Len(<<r>>) = 1 /\ <<r>>[1] = r /\ <<r>> # <<>>
        BY <1>1
      <4> DEFINE left == <<r>>
      <4> HIDE DEF left
      <4>2. v = [begun EXCEPT !.wait = t, !.left = left]
        BY <3>6, <3>8 DEF left
      <4>3. v \in WorldValue /\ v.store = x /\ v.work = after /\ v.wait = t
            /\ v.left = left /\ v.replies = w.replies
        BY <3>5, <4>1, <4>2 DEF WorldValue, left
      <4>4. t # NoTask
        BY DEF StoreAssumption
      <4>5. LeftOK(left, TRUE, w.replies, body, n + 1)
        <5>1. Len(left) = 1 /\ left[1] = body[n + 1] /\ left # <<>> /\ (n + 1) - 1 = n
          BY <4>1 DEF left, r
        <5>2. left[1].method = "send"
          BY <3>8, <5>1 DEF r
        <5> QED
          BY <2>1, <5>1, <5>2 DEF LeftOK
      <4> QED
        BY <3>2, <4>3, <4>4, <4>5 DEF WorldOK
    <3> QED
      BY <2>4, <3>7, <3>8
  <2>5. CASE r.method = "get"
    <3>1. v = Reply(w, r, Shows(w, r.task)) /\ r.method # "send"
      BY <1>4, <2>5 DEF HandleSingle
    <3>2. Shows(w, r.task) \in RpcStates
      BY <1>2, ShowsStates
    <3> HIDE DEF Quiet, r
    <3> QED
      BY <2>2, <2>3, <3>1, <3>2
  <2>6. CASE r.method = "cancel"
    <3> DEFINE x == CancelTask(w.store, r.task)
               u == [w EXCEPT !.store = x]
    <3>1. \/ v = Reply(w, r, "error")
          \/ r.task \in Live(w.store) /\ v = Reply(u, r, "CANCELED")
      BY <1>4, <2>6 DEF HandleSingle
    <3>2. r.method # "send" /\ "error" \in RpcStates /\ "CANCELED" \in RpcStates
      BY <2>6 DEF RpcStates, Terminal
    <3>3. ASSUME r.task \in Live(w.store) PROVE Quiet(u)
      <4>1. r.task \in Tasks
        BY <1>2, <3>3, LiveTasks DEF WorkOK
      <4>2. WorkOK(x, w.work, rpc)
        BY <1>2, <4>1, WorkCancelled
      <4>3. x \in StoreValue
        BY <4>2 DEF WorkOK, StoreInv, StoreOK
      <4> HIDE DEF x, r
      <4> QED
        BY <1>2, <1>4, <4>2, <4>3 DEF WorldValue
    <3> HIDE DEF Quiet, r, u
    <3> QED
      BY <2>2, <2>3, <3>1, <3>2, <3>3
  <2> QED
    BY <1>1, <2>4, <2>5, <2>6 DEF Requests, Methods, StreamingMethods
<1> QED
  BY <1>3, <1>4

-----------------------------------------------------------------------------
(* A batch, request by request.                                            *)

(* The function that Handled defines by recursion exists.                  *)
LEMMA HandledUnfolds ==
    ASSUME NEW w, NEW reqs \in Seq(Requests)
    PROVE  \E f : /\ Handled(w, reqs) = f[Len(reqs)] /\ f[0] = {w}
                  /\ \A n \in 1..Len(reqs) :
                       f[n] = HandledNext(f[n - 1], reqs[n])
<1> DEFINE Step(f, n) == IF n = 0 THEN {w}
                         ELSE HandledNext(f[n - 1], reqs[n])
           Is(f, m) == f = [n \in 0..m |-> Step(f, n)]
           L == Len(reqs)
           Bad == {m \in 0..L : ~\E f : Is(f, m)}
<1>1. L \in Nat
  OBVIOUS
<1>2. \E f : Is(f, 0)
  <2> DEFINE g == [n \in 0..0 |-> {w}]
  <2>1. g = [n \in 0..0 |-> Step(g, n)]
    <3>1. \A n \in 0..0 : Step(g, n) = {w}
      OBVIOUS
    <3> HIDE DEF Step
    <3> QED
      BY <3>1
  <2> QED
    BY <2>1
<1>3. ASSUME NEW m \in Nat, \E f : Is(f, m)
      PROVE  \E f : Is(f, m + 1)
  <2>1. PICK f : Is(f, m)
    BY <1>3
  <2> DEFINE g == [n \in 0..(m + 1) |-> Step(f, n)]
  <2>2. \A n \in 0..m : f[n] = Step(f, n)
    <3> HIDE DEF Step
    <3> QED
      BY <2>1
  <2>3. \A n \in 0..m : g[n] = f[n]
    <3> HIDE DEF Step
    <3> QED
      BY <2>2
  <2>4. ASSUME NEW n \in 0..(m + 1) PROVE Step(g, n) = Step(f, n)
    <3>1. CASE n = 0
      BY <3>1
    <3>2. CASE n # 0
      <4>1. g[n - 1] = f[n - 1]
        <5>1. n - 1 \in 0..m
          BY <3>2
        <5> HIDE DEF g
        <5> QED
          BY <2>3, <5>1
      <4> HIDE DEF g
      <4> QED
        BY <3>2, <4>1
    <3> QED
      BY <3>1, <3>2
  <2>5. g = [n \in 0..(m + 1) |-> Step(g, n)]
    <3> DEFINE h == g
    <3>1. \A n \in 0..(m + 1) : Step(h, n) = Step(f, n)
      BY <2>4
    <3>2. h = [n \in 0..(m + 1) |-> Step(f, n)]
      OBVIOUS
    <3> HIDE DEF h, Step
    <3>3. h = [n \in 0..(m + 1) |-> Step(h, n)]
      BY <3>1, <3>2
    <3> QED
      BY <3>3 DEF h
  <2> QED
    BY <2>5
<1>4. Bad = {}
  <2> SUFFICES ASSUME Bad # {}
               PROVE  FALSE
    OBVIOUS
  <2>1. PICK m \in Bad : \A k \in Bad : m <= k
    <3>1. Bad \subseteq Nat
      BY <1>1
    <3> HIDE DEF Bad
    <3> QED
      BY <3>1, LeastNatural
  <2>2. m \in 0..L /\ m # 0 /\ ~\E f : Is(f, m)
    <3> HIDE DEF Is
    <3> QED
      BY <1>2, <2>1
  <2>3. m - 1 \in Nat /\ m - 1 \in 0..L /\ (m - 1) + 1 = m
    BY <1>1, <2>2
  <2>4. m - 1 \notin Bad
    <3> HIDE DEF Bad
    <3> QED
      BY <2>1, <2>3
  <2>5. \E f : Is(f, m - 1)
    <3> HIDE DEF Is
    <3> QED
      BY <2>3, <2>4
  <2> HIDE DEF Is
  <2>6. \E f : Is(f, (m - 1) + 1)
    BY <1>3, <2>3, <2>5
  <2> QED
    BY <2>2, <2>3, <2>6
<1>5. \E f : Is(f, L)
  <2> HIDE DEF Is
  <2> QED
    BY <1>1, <1>4
<1> DEFINE after == CHOOSE f : f = [n \in 0..L |-> Step(f, n)]
<1>6. after = [n \in 0..L |-> Step(after, n)]
  <2> HIDE DEF Step, L
  <2> QED
    BY <1>5
<1>7. Handled(w, reqs) = after[L]
  BY DEF Handled
<1> HIDE DEF after
<1>8. \A n \in 0..L : after[n] = Step(after, n)
  <2> HIDE DEF Step, L
  <2> QED
    BY <1>6
<1>9. after[0] = {w}
  <2>1. 0 \in 0..L
    BY <1>1
  <2>2. after[0] = Step(after, 0)
    BY <1>8, <2>1
  <2> QED
    BY <2>2
<1>10. \A n \in 1..L : after[n] = HandledNext(after[n - 1], reqs[n])
  <2> SUFFICES ASSUME NEW n \in 1..L
               PROVE  after[n] = HandledNext(after[n - 1], reqs[n])
    OBVIOUS
  <2>1. n # 0 /\ n \in 0..L
    BY <1>1
  <2>2. after[n] = Step(after, n)
    <3> HIDE DEF Step
    <3> QED
      BY <1>8, <2>1
  <2> QED
    BY <2>1, <2>2
<1> QED
  BY <1>7, <1>9, <1>10

(* What is left of a body, handled from h on.                              *)
LEMMA BatchHandled ==
    ASSUME StoreAssumption, now \in Nat, NEW body \in Seq(Requests), Plain(body),
           NEW reqs \in Seq(Requests), NEW h \in Nat, h + Len(reqs) = Len(body),
           \A i \in 1..Len(reqs) : reqs[i] = body[h + i],
           NEW w, WorldOK(w, body, h), NEW v \in Handled(w, reqs)
    PROVE  WorldOK(v, body, Len(body))
<1> DEFINE L == Len(reqs)
<1>1. PICK f : /\ Handled(w, reqs) = f[L] /\ f[0] = {w}
               /\ \A n \in 1..L : f[n] = HandledNext(f[n - 1], reqs[n])
  BY HandledUnfolds
<1> DEFINE Bad == {n \in 0..L : \E u \in f[n] : ~WorldOK(u, body, h + n)}
<1>2. Bad = {}
  <2> SUFFICES ASSUME Bad # {}
               PROVE  FALSE
    OBVIOUS
  <2>1. PICK n \in Bad : \A k \in Bad : n <= k
    <3>1. Bad \subseteq Nat
      OBVIOUS
    <3> HIDE DEF Bad
    <3> QED
      BY <3>1, LeastNatural
  <2>2. n \in 0..L /\ L \in Nat
    OBVIOUS
  <2>3. PICK u \in f[n] : ~WorldOK(u, body, h + n)
    OBVIOUS
  <2>4. n # 0
    BY <1>1, <2>3
  <2>5. n \in 1..L /\ n - 1 \in 0..L /\ n - 1 \notin Bad
    <3> HIDE DEF Bad
    <3> QED
      BY <2>1, <2>2, <2>4
  <2>6. PICK x \in f[n - 1] : u \in HandleSingle(x, reqs[n])
    BY <1>1, <2>3, <2>5 DEF HandledNext
  <2>7. WorldOK(x, body, h + (n - 1))
    BY <2>5, <2>6
  <2> DEFINE m == h + (n - 1)
  <2>8. /\ m \in Nat /\ m < Len(body) /\ m + 1 = h + n /\ reqs[n] = body[m + 1]
        /\ m + 1 \in 1..Len(body)
    BY <2>2, <2>5
  <2> HIDE DEF m
  <2>9. body[m + 1].method \notin StreamingMethods
    BY <2>8 DEF Plain
  <2>10. WorldOK(u, body, m + 1)
    BY <2>6, <2>7, <2>8, <2>9, RequestHandled DEF m
  <2> QED
    BY <2>3, <2>8, <2>10
<1>3. L \in 0..L /\ v \in f[L]
  BY <1>1
<1> QED
  BY <1>2, <1>3

-----------------------------------------------------------------------------
(* The calls one by one.                                                   *)

(* A call that goes on has dropped no task before.                         *)
LEMMA CallGoesOn ==
    ASSUME NEW st, NEW wk, WorkOK(st, wk, rpc), NEW c \in Clients, NEW r,
           rpc \in [Clients -> RpcValue], rpc[c].phase \notin {"crashed", "dropped"}
    PROVE  WorkOK(st, wk, [rpc EXCEPT ![c] = r])
<1> DEFINE calls == [rpc EXCEPT ![c] = r]
<1>1. \A d \in Clients : d # c => calls[d] = rpc[d]
  OBVIOUS
<1> HIDE DEF calls
<1>2. \A t : Dropped(rpc, t) => Dropped(calls, t)
  BY <1>1 DEF Dropped
<1>3. WorkOK(st, wk, calls)
  BY <1>2 DEF WorkOK
<1> QED
  BY <1>3 DEF calls

LEMMA OneCall ==
    ASSUME RpcInv, NEW c \in Clients, NEW r \in RpcValue, RpcOK(r), rpc' = [rpc EXCEPT ![c] = r],
           WorkOK(store', work', rpc'), now' = now
    PROVE  RpcInv'
<1>1. rpc \in [Clients -> RpcValue] /\ now \in Nat /\ \A d \in Clients : RpcOK(rpc[d])
  BY DEF RpcInv
<1>2. rpc' \in [Clients -> RpcValue] /\ \A d \in Clients : rpc'[d] = IF d = c THEN r ELSE rpc[d]
  BY <1>1
<1>3. \A d \in Clients : RpcOK(rpc'[d])
  BY <1>1, <1>2
<1> QED
  BY <1>1, <1>2, <1>3 DEF RpcInv

LEMMA SettleInv ==
    ASSUME RpcInv, NEW c \in Clients, rpc[c].phase \in Asking, Plain(rpc[c].body), NEW w,
           WorldOK(w, rpc[c].body, Len(rpc[c].body)), Settle(c, w), now' = now
    PROVE  RpcInv'
<1> DEFINE phase == IF w.wait = NoTask THEN "answered" ELSE "waiting"
           r == [rpc[c] EXCEPT !.phase = phase, !.left = w.left, !.task = w.wait,
                               !.replies = w.replies]
<1>1. /\ rpc[c] \in RpcValue /\ rpc \in [Clients -> RpcValue]
      /\ w \in WorldValue /\ WorkOK(w.store, w.work, rpc)
      /\ LeftOK(w.left, w.wait # NoTask, w.replies, rpc[c].body, Len(rpc[c].body))
      /\ Len(rpc[c].body) \in Nat
  <2>1. rpc[c] \in RpcValue /\ rpc \in [Clients -> RpcValue]
    BY DEF RpcInv
  <2> QED
    BY <2>1 DEF WorldOK, RpcValue
<1>2. /\ r \in RpcValue /\ r.phase = phase /\ r.left = w.left /\ r.task = w.wait
      /\ r.replies = w.replies /\ r.body = rpc[c].body
  BY <1>1 DEF RpcValue, WorldValue
<1>3. store' = w.store /\ work' = w.work /\ rpc' = [rpc EXCEPT ![c] = r]
  BY DEF Settle
<1> HIDE DEF r
<1>4. WorkOK(store', work', rpc')
  BY <1>1, <1>3, CallGoesOn DEF Asking
<1>5. RpcOK(r)
  <2>1. CASE w.wait = NoTask
    <3>1. w.left = <<>> /\ Len(w.left) = 0
      BY <1>1, <2>1 DEF LeftOK
    <3>2. Answered(w.replies, rpc[c].body, Len(rpc[c].body))
      BY <1>1, <3>1 DEF LeftOK
    <3> QED
      BY <1>2, <2>1, <3>2 DEF RpcOK
  <2>2. CASE w.wait # NoTask
    <3>1. w.wait \in Tasks
      BY <1>1, <2>2 DEF WorldValue
    <3>2. LeftOK(w.left, TRUE, w.replies, rpc[c].body, Len(rpc[c].body))
      BY <1>1, <2>2
    <3> QED
      BY <1>2, <2>2, <3>1, <3>2 DEF RpcOK
  <2> QED
    BY <2>1, <2>2
<1> QED
  BY <1>2, <1>3, <1>4, <1>5, OneCall

LEMMA EnterInv ==
    ASSUME RpcInv, NEW c \in Clients, NEW reqs \in Seq(Requests), reqs # <<>>,
           NEW phase \in {"handling", "refused"},
           phase = "handling" => Plain(reqs) \/ Len(reqs) = 1, Enter(c, reqs, phase)
    PROVE  RpcInv'
<1> DEFINE r == [rpc[c] EXCEPT !.body = reqs, !.left = reqs, !.phase = phase]
<1>1. /\ rpc[c] \in RpcValue /\ rpc \in [Clients -> RpcValue] /\ WorkOK(store, work, rpc)
      /\ rpc[c].phase = "idle" /\ rpc[c].replies = <<>>
  BY DEF RpcInv, Enter, RpcOK
<1>2. /\ r \in RpcValue /\ r.phase = phase /\ r.left = reqs /\ r.body = reqs
      /\ r.replies = <<>>
  BY <1>1 DEF RpcValue
<1>3. rpc' = [rpc EXCEPT ![c] = r] /\ UNCHANGED <<store, now, work>>
  BY <1>1 DEF Enter
<1> HIDE DEF r
<1>4. RpcOK(r)
  BY <1>2 DEF RpcOK
<1>5. WorkOK(store', work', rpc')
  BY <1>1, <1>3, CallGoesOn
<1> QED
  BY <1>2, <1>3, <1>4, <1>5, OneCall

LEMMA AcceptInv ==
    ASSUME RpcAssumption, RpcInv, NEW c \in Clients, NEW b \in Bodies,
           Receive(c, b) \/ (~b.list /\ GrpcCall(c, b.reqs[1]))
    PROVE  RpcInv'
<1>1. /\ b.reqs \in Seq(Requests) /\ b.reqs # <<>> /\ b.list \in BOOLEAN
      /\ ~b.list => Len(b.reqs) = 1
  BY DEF RpcAssumption
<1>2. CASE Receive(c, b)
  <2>1. CASE b.list /\ \E i \in DOMAIN b.reqs : b.reqs[i].method \in StreamingMethods
    <3>1. Enter(c, b.reqs, "refused")
      BY <1>2, <2>1 DEF Receive
    <3> QED
      BY <1>1, <3>1, EnterInv
  <2>2. CASE ~(b.list /\ \E i \in DOMAIN b.reqs : b.reqs[i].method \in StreamingMethods)
    <3>1. Enter(c, b.reqs, "handling")
      BY <1>2, <2>2 DEF Receive
    <3>2. Plain(b.reqs) \/ Len(b.reqs) = 1
      BY <1>1, <2>2 DEF Plain
    <3> QED
      BY <1>1, <3>1, <3>2, EnterInv
  <2> QED
    BY <2>1, <2>2
<1>3. CASE ~b.list /\ GrpcCall(c, b.reqs[1])
  <2> DEFINE one == <<b.reqs[1]>>
  <2>1. one \in Seq(Requests) /\ Len(one) = 1 /\ one # <<>>
    <3>1. 1 \in 1..Len(b.reqs)
      BY <1>1, <1>3
    <3>2. b.reqs[1] \in Requests
      BY <1>1, <3>1, ElementOfSeq
    <3> QED
      BY <3>2
  <2>2. PICK phase \in {"handling", "refused"} : Enter(c, one, phase)
    BY <1>3 DEF GrpcCall
  <2> HIDE DEF one
  <2> QED
    BY <2>1, <2>2, EnterInv
<1> QED
  BY <1>2, <1>3

(* A streaming method raises, and may leave a task behind.                 *)
LEMMA StreamAloneInv ==
    ASSUME StoreAssumption, RpcInv, NEW c \in Clients, StreamAlone(c)
    PROVE  RpcInv'
<1>1. /\ rpc[c] \in RpcValue /\ rpc \in [Clients -> RpcValue] /\ WorkOK(store, work, rpc)
      /\ rpc[c].phase = "handling" /\ now \in Nat
  BY DEF RpcInv, StreamAlone
<1>2. CASE UNCHANGED <<store, now, work>> /\ rpc' = [rpc EXCEPT ![c].phase = "crashed"]
  <2> DEFINE r == [rpc[c] EXCEPT !.phase = "crashed"]
  <2>1. r \in RpcValue /\ r.phase = "crashed" /\ rpc' = [rpc EXCEPT ![c] = r]
    BY <1>1, <1>2 DEF RpcValue
  <2> HIDE DEF r
  <2>2. RpcOK(r)
    BY <2>1 DEF RpcOK
  <2>3. WorkOK(store, work, rpc')
    BY <1>1, <2>1, CallGoesOn
  <2> QED
    BY <1>2, <2>1, <2>2, <2>3, OneCall
<1>3. ASSUME NEW t \in Tasks, StreamMessage(t),
             rpc' = [rpc EXCEPT ![c].phase = "crashed", ![c].task = t]
      PROVE  RpcInv'
  <2> DEFINE r == [rpc[c] EXCEPT !.phase = "crashed", !.task = t]
  <2>1. /\ r \in RpcValue /\ r.phase = "crashed" /\ r.task = t
        /\ rpc' = [rpc EXCEPT ![c] = r]
    BY <1>1, <1>3 DEF RpcValue
  <2> HIDE DEF r
  <2>2. RpcOK(r) /\ WorkOK(store, work, rpc')
    <3>1. RpcOK(r)
      BY <2>1 DEF RpcOK
    <3>2. WorkOK(store, work, rpc')
      BY <1>1, <2>1, CallGoesOn
    <3> QED
      BY <3>1, <3>2
  <2>3. Dropped(rpc', t)
    <3>1. rpc'[c] = r
      BY <1>1, <2>1
    <3> QED
      BY <2>1, <3>1 DEF Dropped
  <2>4. /\ StateOf(store, t) = "ABSENT" /\ store' = CreateTask(store, t)
        /\ work' = [work EXCEPT ![t] = "stillborn"] /\ now' = now
    BY <1>3 DEF StreamMessage, Create
  <2> DEFINE calls == rpc'
  <2>5. WorkOK(store, work, calls) /\ Dropped(calls, t) /\ "stillborn" \in WorkStates
    BY <2>2, <2>3 DEF WorkStates
  <2> HIDE DEF calls
  <2>6. WorkOK(CreateTask(store, t), [work EXCEPT ![t] = "stillborn"], calls)
    BY <1>1, <2>4, <2>5, WorkCreated
  <2>7. WorkOK(store', work', rpc')
    BY <2>4, <2>6 DEF calls
  <2> QED
    BY <2>1, <2>2, <2>4, <2>7, OneCall
<1> QED
  BY <1>2, <1>3 DEF StreamAlone

LEMMA HandleInv ==
    ASSUME StoreAssumption, RpcInv, NEW c \in Clients, HandleBatch(c)
    PROVE  RpcInv'
<1> DEFINE body == rpc[c].body
<1>1. /\ rpc[c] \in RpcValue /\ rpc \in [Clients -> RpcValue] /\ WorkOK(store, work, rpc)
      /\ rpc[c].phase = "handling" /\ RpcOK(rpc[c]) /\ now \in Nat /\ now' = now
  BY DEF RpcInv, HandleBatch
<1>2. /\ body \in Seq(Requests) /\ rpc[c].left = body /\ body # <<>>
      /\ rpc[c].replies = <<>>
      /\ Plain(body) \/ Len(body) = 1
  BY <1>1 DEF RpcOK, RpcValue
<1>3. Plain(body)
  <2>1. Head(body).method \notin StreamingMethods /\ Head(body) = body[1]
    BY <1>2 DEF HandleBatch
  <2> QED
    BY <1>2, <2>1 DEF Plain
<1>4. WorldOK(World(c), body, 0)
  <2> DEFINE w == World(c)
  <2>1. /\ w.store = store /\ w.work = work /\ w.left = <<>> /\ w.wait = NoTask
        /\ w.replies = <<>> /\ w \in WorldValue
    <3>1. store \in StoreValue /\ work \in [Tasks -> WorkStates]
      BY <1>1 DEF WorkOK, StoreInv, StoreOK
    <3>2. <<>> \in Seq(Requests) /\ <<>> \in Seq(ReplyValue)
      OBVIOUS
    <3> QED
      BY <1>2, <3>1, <3>2 DEF World, WorldValue
  <2> HIDE DEF w
  <2>2. Len(w.left) = 0 /\ Len(w.replies) = 0
    BY <2>1
  <2>3. Answered(w.replies, body, 0)
    <3>1. Place(body, 0) = 0
      <4>1. 0 \in 0..Len(body)
        BY <1>2
      <4> QED
        BY <1>2, <4>1, Places
    <3> QED
      BY <2>1, <2>2, <3>1 DEF Answered
  <2>4. LeftOK(w.left, w.wait # NoTask, w.replies, body, 0)
    BY <2>1, <2>2, <2>3 DEF LeftOK
  <2>5. WorldOK(w, body, 0)
    BY <1>1, <2>1, <2>4 DEF WorldOK
  <2> QED
    BY <2>5 DEF w
<1>5. PICK w \in Handled(World(c), body) : Settle(c, w)
  BY <1>2 DEF HandleBatch
<1>6. WorldOK(w, body, Len(body))
  <2> DEFINE before == World(c)
             b == body
  <2>1. /\ b \in Seq(Requests) /\ Plain(b) /\ WorldOK(before, b, 0) /\ w \in Handled(before, b)
        /\ 0 + Len(b) = Len(b) /\ \A i \in 1..Len(b) : b[i] = b[0 + i]
    BY <1>2, <1>3, <1>4, <1>5
  <2> HIDE DEF before, b
  <2>2. WorldOK(w, b, Len(b))
    BY <1>1, <2>1, BatchHandled
  <2> QED
    BY <2>2 DEF b
<1> QED
  BY <1>1, <1>3, <1>5, <1>6, SettleInv DEF Asking

(* A message/send whose runner is back is answered, and the rest of its    *)
(* batch goes on.                                                          *)
LEMMA ResumeInv ==
    ASSUME StoreAssumption, RpcInv, NEW c \in Clients, Resume(c)
    PROVE  RpcInv'
<1> DEFINE body == rpc[c].body
           left == rpc[c].left
           t == rpc[c].task
           h == Len(body) - Len(left)
           r == Head(left)
           before == World(c)
           answered == Reply(before, r, Shows(before, t))
<1>1. /\ rpc[c] \in RpcValue /\ rpc \in [Clients -> RpcValue] /\ WorkOK(store, work, rpc)
      /\ rpc[c].phase = "waiting" /\ RpcOK(rpc[c]) /\ now \in Nat /\ now' = now
      /\ work[t] = "done"
  BY DEF RpcInv, Resume, RunnerIsBack
<1>2. /\ body \in Seq(Requests) /\ left \in Seq(Requests) /\ t \in Tasks /\ Plain(body)
      /\ LeftOK(left, TRUE, rpc[c].replies, body, Len(body))
      /\ rpc[c].replies \in Seq(ReplyValue)
  BY <1>1 DEF RpcOK, RpcValue
<1>3. PICK w \in Handled(answered, Tail(left)) : Settle(c, w)
  BY DEF Resume
<1> HIDE DEF body, left, t
<1>4. /\ Len(left) \in Nat /\ Len(body) \in Nat /\ Len(left) <= Len(body) /\ left # <<>>
      /\ \A i \in 1..Len(left) : left[i] = body[h + i]
      /\ left[1].method = "send" /\ Answered(rpc[c].replies, body, h)
  BY <1>2 DEF LeftOK
<1>5. /\ h \in Nat /\ h < Len(body) /\ r = left[1] /\ left[1] = body[h + 1]
      /\ Len(left) >= 1 /\ (h + 1) + (Len(left) - 1) = Len(body)
  BY <1>2, <1>4
<1>6. /\ before.store = store /\ before.work = work /\ before.left = <<>>
      /\ before.wait = NoTask /\ before.replies = rpc[c].replies /\ before \in WorldValue
  <2>1. store \in StoreValue /\ work \in [Tasks -> WorkStates]
    BY <1>1 DEF WorkOK, StoreInv, StoreOK
  <2>2. <<>> \in Seq(Requests)
    OBVIOUS
  <2> QED
    BY <1>2, <2>1, <2>2 DEF World, WorldValue
<1> HIDE DEF before, h
<1>7. Shows(before, t) \in RpcStates /\ Shows(before, t) \in Settled \cup {"error"}
  BY <1>1, <1>2, <1>6, ShowsStates
<1>8. WorldOK(answered, body, h + 1)
  <2> DEFINE state == Shows(before, t)
             x == Reply(before, body[h + 1], state)
  <2>1. state \in RpcStates /\ state \in Settled \cup {"error"}
    BY <1>7
  <2> HIDE DEF state
  <2>2. /\ x \in WorldValue /\ Answered(x.replies, body, h + 1)
        /\ x.store = before.store /\ x.work = before.work /\ x.left = before.left
        /\ x.wait = before.wait
    BY <1>2, <1>4, <1>5, <1>6, <2>1, ReplyAnswers
  <2>3. answered = x
    BY <1>5 DEF state
  <2> HIDE DEF x
  <2>4. x.left = <<>> /\ Len(x.left) = 0 /\ x.wait = NoTask /\ h + 1 \in Nat
    BY <1>5, <1>6, <2>2
  <2>5. LeftOK(x.left, x.wait # NoTask, x.replies, body, h + 1)
    BY <2>2, <2>4 DEF LeftOK
  <2>6. WorldOK(x, body, h + 1)
    BY <1>1, <1>6, <2>2, <2>5 DEF WorldOK
  <2> QED
    BY <2>3, <2>6
<1> HIDE DEF answered
<1>9. WorldOK(w, body, Len(body))
  <2> DEFINE rest == Tail(left)
             k == h + 1
  <2>1. /\ rest \in Seq(Requests) /\ Len(rest) = Len(left) - 1
        /\ \A i \in 1..Len(rest) : rest[i] = left[i + 1]
    BY <1>2, <1>4
  <2>2. k \in Nat /\ k + Len(rest) = Len(body)
    BY <1>5, <2>1
  <2>3. \A i \in 1..Len(rest) : rest[i] = body[k + i]
    <3> SUFFICES ASSUME NEW i \in 1..Len(rest)
                 PROVE  rest[i] = body[k + i]
      OBVIOUS
    <3>1. i + 1 \in 1..Len(left) /\ h + (i + 1) = k + i
      BY <1>4, <1>5, <2>1
    <3>2. left[i + 1] = body[h + (i + 1)]
      BY <1>4, <3>1
    <3> QED
      BY <2>1, <3>1, <3>2
  <2>4. WorldOK(answered, body, k) /\ w \in Handled(answered, rest)
    BY <1>3, <1>8
  <2> HIDE DEF rest, k
  <2> QED
    BY <1>1, <1>2, <2>1, <2>2, <2>3, <2>4, BatchHandled
<1> QED
  BY <1>1, <1>2, <1>3, <1>9, SettleInv DEF Asking, body

(* A gRPC client that goes leaves its task behind.                         *)
LEMMA HangUpInv ==
    ASSUME RpcInv, NEW c \in Clients, HangUp(c)
    PROVE  RpcInv'
<1> DEFINE t == rpc[c].task
           r == [rpc[c] EXCEPT !.phase = "dropped"]
<1>1. /\ rpc[c] \in RpcValue /\ rpc \in [Clients -> RpcValue] /\ WorkOK(store, work, rpc)
      /\ rpc[c].phase = "waiting" /\ c \in Grpc /\ RpcOK(rpc[c])
      /\ rpc' = [rpc EXCEPT ![c].phase = "dropped"] /\ UNCHANGED <<store, now>>
      /\ work' = IF work[t] = "running" THEN [work EXCEPT ![t] = "stillborn"] ELSE work
  BY DEF RpcInv, HangUp, MayHangUp
<1>2. /\ r \in RpcValue /\ r.phase = "dropped" /\ r.task = t /\ t \in Tasks
      /\ rpc' = [rpc EXCEPT ![c] = r] /\ rpc'[c] = r
  BY <1>1 DEF RpcValue, RpcOK
<1> HIDE DEF r, t
<1>3. RpcOK(r) /\ WorkOK(store, work, rpc') /\ Dropped(rpc', t)
  <2>1. RpcOK(r)
    BY <1>2 DEF RpcOK
  <2>2. WorkOK(store, work, rpc')
    <3>1. /\ WorkOK(store, work, rpc) /\ rpc \in [Clients -> RpcValue]
          /\ rpc[c].phase \notin {"crashed", "dropped"}
      BY <1>1
    <3>2. WorkOK(store, work, [rpc EXCEPT ![c] = r])
      BY <3>1, CallGoesOn
    <3> QED
      BY <1>2, <3>2
  <2>3. Dropped(rpc', t)
    BY <1>1, <1>2 DEF Dropped
  <2> QED
    BY <2>1, <2>2, <2>3
<1>4. WorkOK(store', work', rpc')
  <2>1. work \in [Tasks -> WorkStates]
    BY <1>1 DEF WorkOK
  <2>2. work' \in [Tasks -> WorkStates]
        /\ \A u \in Tasks : \/ work'[u] = work[u]
                            \/ u = t /\ work'[u] = "stillborn"
    BY <1>1, <1>2, <2>1 DEF WorkStates
  <2>3. Live(store) \subseteq Tasks
    BY <1>1, LiveTasks DEF WorkOK
  <2> QED
    BY <1>1, <1>3, <2>2, <2>3 DEF WorkOK
<1> QED
  BY <1>1, <1>2, <1>3, <1>4, OneCall

(* Steps of the agent beside the calls.                                    *)
LEMMA AgentInv ==
    ASSUME StoreAssumption, RpcInv, rpc' = rpc, NEW t \in Tasks,
           RunnerReports(t) \/ RunnerAppends(t) \/ RunnerConcludes(t) \/ Cancel(t)
    PROVE  RpcInv'
<1>1. WorkOK(store, work, rpc) /\ now \in Nat /\ work \in [Tasks -> WorkStates] /\ StoreInv(store)
  BY DEF RpcInv, WorkOK
<1>2. /\ now' = now
      /\ \A x, wk : store' = x /\ work' = wk /\ WorkOK(x, wk, rpc) => RpcInv'
  BY <1>1 DEF RpcInv, RunnerReports, RunnerAppends, RunnerConcludes, RunnerCall, Cancel
<1>3. ASSUME UNCHANGED store, work[t] = "running", t \notin Live(store),
             work' = [work EXCEPT ![t] = "done"]
      PROVE  RpcInv'
  <2>1. WorkOK(store, [work EXCEPT ![t] = "done"], rpc)
    BY <1>1, <1>3, LiveTasks DEF WorkOK, WorkStates
  <2> QED
    BY <1>2, <1>3, <2>1
<1>4. ASSUME NEW x, NEW state, store' = x, Written(store, x, t, state), NEW how \in WorkStates,
             work' = [work EXCEPT ![t] = how], state \in Settled \/ how = "running"
      PROVE  RpcInv'
  <2>1. WorkOK(x, [work EXCEPT ![t] = how], rpc)
    BY <1>1, <1>4, WorkWritten
  <2> QED
    BY <1>2, <1>4, <2>1
<1>5. CASE RunnerReports(t)
  <2>1. work[t] = "running" /\ work = [work EXCEPT ![t] = "running"] /\ "running" \in WorkStates
    BY <1>1, <1>5 DEF RunnerReports, RunnerCall, WorkStates
  <2>2. CASE t \in Live(store)
    <3>1. Written(store, store', t, "WORKING") /\ work' = work
      BY <1>1, <1>5, <2>2, RecordWritten DEF RunnerReports, RunnerCall, Active
    <3> QED
      BY <1>4, <2>1, <3>1
  <2>3. CASE t \notin Live(store)
    BY <1>3, <1>5, <2>1, <2>3 DEF RunnerReports, RunnerCall
  <2> QED
    BY <2>2, <2>3
<1>6. CASE RunnerAppends(t)
  <2>1. work[t] = "running" /\ work = [work EXCEPT ![t] = "running"] /\ "running" \in WorkStates
    BY <1>1, <1>6 DEF RunnerAppends, RunnerCall, WorkStates
  <2>2. CASE t \in Live(store)
    <3>1. Written(store, store', t, StateOf(store, t)) /\ work' = work
      BY <1>1, <1>6, <2>2, LiveState, AppendWritten DEF RunnerAppends, RunnerCall
    <3> QED
      BY <1>4, <2>1, <3>1
  <2>3. CASE t \notin Live(store)
    BY <1>3, <1>6, <2>1, <2>3 DEF RunnerAppends, RunnerCall
  <2> QED
    BY <2>2, <2>3
<1>7. CASE RunnerConcludes(t)
  <2>1. PICK state \in {"COMPLETED", "FAILED"} \cup Interrupted :
           /\ work[t] = "running" /\ work' = [work EXCEPT ![t] = "done"]
           /\ store' = IF t \in Live(store) THEN RecordStatus(store, t, state) ELSE store
    BY <1>7 DEF RunnerConcludes
  <2>2. state \in Terminal \cup Active /\ state \in Settled /\ "done" \in WorkStates
    BY DEF Terminal, Active, Interrupted, Settled, WorkStates
  <2>3. CASE t \in Live(store)
    <3>1. Written(store, store', t, state)
      BY <1>1, <2>1, <2>2, <2>3, RecordWritten
    <3> QED
      BY <1>4, <2>1, <2>2, <3>1
  <2>4. CASE t \notin Live(store)
    BY <1>3, <2>1, <2>4
  <2> QED
    BY <2>3, <2>4
<1>8. CASE Cancel(t)
  <2>1. WorkOK(CancelTask(store, t), work, rpc)
    BY <1>1, WorkCancelled
  <2> QED
    BY <1>2, <1>8, <2>1 DEF Cancel
<1> QED
  BY <1>5, <1>6, <1>7, <1>8

LEMMA RpcStepInv ==
    ASSUME StoreAssumption, RpcAssumption, RpcInv,
           [\/ RpcStep
            \/ /\ UNCHANGED rpc
               /\ \/ \E t \in Tasks : RunnerAppends(t) \/ Cancel(t)
                  \/ \E s \in Subs : Stream(s)
                  \/ TimePasses]_<<vars, rpc>>
    PROVE  RpcInv'
<1>1. ASSUME NEW s \in Subs, Stream(s), rpc' = rpc
      PROVE  RpcInv'
  <2>1. StoreInv(store) /\ Followed(store)
    BY DEF RpcInv, WorkOK
  <2>2. StreamKeeps(s) /\ Followed(store')
    BY <1>1, <2>1, StreamStepInv, StreamStepFollowed DEF Stream, StreamStep
  <2>3. /\ Live(store') = Live(store) /\ work' = work /\ now' = now /\ StoreInv(store')
        /\ store'.task = store.task
    BY <1>1, <2>2 DEF StreamKeeps, Live, Stream
  <2>4. WorkOK(store', work', rpc')
    BY <1>1, <2>2, <2>3 DEF RpcInv, WorkOK, StateOf
  <2> QED
    BY <1>1, <2>3, <2>4 DEF RpcInv
<1>2. CASE (TimePasses /\ UNCHANGED rpc) \/ UNCHANGED <<vars, rpc>>
  BY <1>2 DEF TimePasses, Tick, vars, RpcInv
<1>3. CASE RpcStep
  BY <1>3, AcceptInv, StreamAloneInv, HandleInv, ResumeInv, HangUpInv, AgentInv DEF RpcStep
<1> QED
  BY <1>1, <1>2, <1>3, AgentInv

LEMMA RpcInvariance == RpcSpec => []RpcInv
<1>1. Init /\ InitRpc => RpcInv
  <2> SUFFICES ASSUME Init, InitRpc
               PROVE  RpcInv
    OBVIOUS
  <2>1. StoreInv(store) /\ Followed(store) /\ now = 0 /\ Live(store) = {}
    BY InitStoreInv, StoreAssumption DEF Init, InitStore, Live
  <2>2. WorkOK(store, work, rpc)
    BY <2>1 DEF WorkOK, Init, WorkStates
  <2>3. rpc \in [Clients -> RpcValue] /\ \A c \in Clients : RpcOK(rpc[c])
    <3> DEFINE idle == [body |-> <<>>, left |-> <<>>, phase |-> "idle", task |-> NoTask,
                        replies |-> <<>>]
    <3>1. idle \in RpcValue /\ idle.phase = "idle" /\ idle.replies = <<>>
      BY DEF RpcValue
    <3>2. rpc = [c \in Clients |-> idle]
      BY DEF InitRpc
    <3> HIDE DEF idle
    <3>3. RpcOK(idle)
      BY <3>1 DEF RpcOK
    <3> QED
      BY <3>1, <3>2, <3>3
  <2> QED
    BY <2>1, <2>2, <2>3 DEF RpcInv
<1>2. RpcInv /\ [\/ RpcStep
                 \/ /\ UNCHANGED rpc
                    /\ \/ \E t \in Tasks : RunnerAppends(t) \/ Cancel(t)
                       \/ \E s \in Subs : Stream(s)
                       \/ TimePasses]_<<vars, rpc>> => RpcInv'
  BY RpcStepInv, StoreAssumption, RpcAssumption
<1> QED
  BY <1>1, <1>2, PTL DEF RpcSpec

(* A task in the table that nobody works on and that did not come to its   *)
(* end was left by message/stream or by a gRPC call its client gave up:    *)
(* no batch, cancellation or eviction leaves one.                          *)
THEOREM UnattendedTasksWereDropped == RpcSpec => []UnattendedTaskWasDropped
<1>1. RpcInv => UnattendedTaskWasDropped
  BY DEF RpcInv, WorkOK, Dropped, Settled, UnattendedTaskWasDropped
<1> QED
  BY <1>1, RpcInvariance, PTL

(* However a body is cut up by the runners it waits for, each request with *)
(* an id has its reply at its place, and what is replied to a message/send *)
(* that waited is settled.                                                 *)
THEOREM RequestsGetAnswers == RpcSpec => []RequestsAreAnswered
<1>1. RpcInv => RequestsAreAnswered
  BY DEF RpcInv, RpcOK, RequestsAreAnswered
<1> QED
  BY <1>1, RpcInvariance, PTL

=============================================================================
