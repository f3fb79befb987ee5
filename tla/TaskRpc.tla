------------------------------- MODULE TaskRpc -------------------------------
(***************************************************************************)
(* The JSON-RPC and gRPC bindings (a2a/jsonrpc.py, a2a/grpc_server.py)     *)
(* over the shared handlers.  A JSON-RPC body is one request or a batch of *)
(* them, handled one after the other; a gRPC call is one request.          *)
(*                                                                         *)
(* Only a message/send that waits for its runner suspends: all requests of *)
(* a batch up to the next one of those are handled in one step.  tasks/get *)
(* stands for every method that only reads.                                *)
(***************************************************************************)
EXTENDS TaskHandlers

CONSTANTS
    Clients,    \* one call each
    Grpc,       \* the clients of the gRPC binding
    Bodies      \* what JSON-RPC clients send, for model checking

Methods == {"send", "sendnow", "get", "cancel", "stream", "resubscribe"}
StreamingMethods == {"stream", "resubscribe"}
Requests == [method : Methods, task : Tasks \cup {NoTask}, id : BOOLEAN]

ASSUME RpcAssumption ==
    /\ Grpc \subseteq Clients
    /\ \A b \in Bodies : /\ b.list \in BOOLEAN /\ b.reqs \in Seq(Requests) \ {<<>>}
                         /\ ~b.list => Len(b.reqs) = 1

(* What is left of the body, the task a message/send waits for, and the    *)
(* replies so far: what was asked, and the state of the task or "error".   *)
VARIABLE rpc

Asking == {"handling", "waiting"}

InitRpc == rpc = [c \in Clients |-> [body |-> <<>>, left |-> <<>>, phase |-> "idle",
                                     task |-> NoTask, replies |-> <<>>]]

-----------------------------------------------------------------------------
(* The requests that do not stream.                                        *)

(* A world is what a request finds and leaves behind.                      *)
World(c) == [store |-> store, work |-> work, left |-> <<>>, wait |-> NoTask,
             replies |-> rpc[c].replies]

(* A notification, a request without an id, gets no reply.                 *)
Reply(w, r, state) ==
    IF r.id THEN [w EXCEPT !.replies = Append(@, [method |-> r.method, state |-> state])]
    ELSE w

Shows(w, t) == IF t \in Live(w.store) THEN StateOf(w.store, t) ELSE "error"

Submitted(w, r, t) ==
    LET begun == [w EXCEPT !.store = CreateTask(w.store, t), !.work[t] = "running"]
    IN IF r.method = "send" THEN [begun EXCEPT !.wait = t, !.left = <<r>>]
                            ELSE Reply(begun, r, "SUBMITTED")

(* _handle_single, _dispatch_unary and the handler it calls.  Behind a     *)
(* message/send that waits, the requests of the batch are left for later.  *)
HandleSingle(w, r) ==
    IF w.wait # NoTask THEN {[w EXCEPT !.left = Append(@, r)]}
    ELSE CASE r.method \in {"send", "sendnow"} ->
                {Submitted(w, r, t) : t \in {u \in Tasks : StateOf(w.store, u) = "ABSENT"}}
           [] r.method = "get" -> {Reply(w, r, Shows(w, r.task))}
           [] r.method = "cancel" ->
                IF r.task \in Live(w.store) /\ StateOf(w.store, r.task) \notin Terminal
                THEN {Reply([w EXCEPT !.store = CancelTask(w.store, r.task)], r, "CANCELED")}
                ELSE {Reply(w, r, "error")}

HandledNext(worlds, r) == UNION {HandleSingle(w, r) : w \in worlds}

Handled(w, reqs) ==
    LET after[n \in 0..Len(reqs)] ==
            IF n = 0 THEN {w} ELSE HandledNext(after[n - 1], reqs[n])
    IN after[Len(reqs)]

Settle(c, w) ==
    /\ store' = w.store /\ work' = w.work
    /\ rpc' = [rpc EXCEPT ![c] = [rpc[c] EXCEPT
           !.phase = IF w.wait = NoTask THEN "answered" ELSE "waiting",
           !.left = w.left, !.task = w.wait, !.replies = w.replies]]

-----------------------------------------------------------------------------
(* The endpoint.  A batch with a streaming method is refused as a whole.   *)

Unused == {t \in Tasks : StateOf(store, t) = "ABSENT"}
Sends(reqs) == Len(SelectSeq(reqs, LAMBDA r : r.method \in {"send", "sendnow", "stream"}))

(* For model checking: there is a task left for everybody who will send.   *)
Room(reqs) ==
    LET asked(c) == IF rpc[c].phase \in Asking THEN Sends(rpc[c].left) ELSE 0
    IN Cardinality(Unused) >= Sends(reqs)
           + Seqs!FoldFunction(LAMBDA n, m : n + m, 0, [c \in Clients |-> asked(c)])

Enter(c, reqs, phase) ==
    /\ rpc[c].phase = "idle" /\ Room(reqs)
    /\ rpc' = [rpc EXCEPT ![c].body = reqs, ![c].left = reqs, ![c].phase = phase]
    /\ UNCHANGED <<store, now, work>>

Receive(c, b) ==
    /\ c \notin Grpc
    /\ Enter(c, b.reqs,
             IF b.list /\ \E i \in DOMAIN b.reqs : b.reqs[i].method \in StreamingMethods
             THEN "refused" ELSE "handling")

(* A method of the servicer; without the bearer token it does nothing.     *)
GrpcCall(c, r) ==
    /\ c \in Grpc /\ r.id
    /\ \E phase \in {"handling", "refused"} : Enter(c, <<r>>, phase)

(* message/stream leaves a task behind and raises (see TaskHandlers), and  *)
(* so does tasks/resubscribe, which leaves nothing.                        *)
StreamAlone(c) ==
    /\ rpc[c].phase = "handling"
    /\ LET method == Head(rpc[c].left).method
       IN \/ method = "resubscribe" /\ UNCHANGED <<store, now, work>>
             /\ rpc' = [rpc EXCEPT ![c].phase = "crashed"]
          \/ \E t \in Tasks : method = "stream" /\ StreamMessage(t)
             /\ rpc' = [rpc EXCEPT ![c].phase = "crashed", ![c].task = t]

HandleBatch(c) ==
    /\ rpc[c].phase = "handling" /\ Head(rpc[c].left).method \notin StreamingMethods
    /\ \E w \in Handled(World(c), rpc[c].left) : Settle(c, w)
    /\ UNCHANGED now

(* Mutant of RunnerIsBack: the reply goes out with the first report.       *)
RunnerHasReported(t) == StateOf(store, t) # "SUBMITTED"

RunnerIsBack(t) == work[t] = "done"

(* The runner a message/send waited for is back: its task as it is by now, *)
(* or an error when it was evicted, and then the rest of the batch.        *)
Resume(c) ==
    LET r == Head(rpc[c].left)
        answered == Reply(World(c), r, Shows(World(c), rpc[c].task))
    IN /\ rpc[c].phase = "waiting" /\ RunnerIsBack(rpc[c].task)
       /\ \E w \in Handled(answered, Tail(rpc[c].left)) : Settle(c, w)
       /\ UNCHANGED now

(* Mutant of MayHangUp: an HTTP client's going ends the handler as well.   *)
MayHangUpAnyhow(c) == rpc[c].phase = "waiting"

(* grpc.aio cancels the servicer of a call whose client is gone; nothing   *)
(* cancels an HTTP endpoint.                                               *)
MayHangUp(c) == c \in Grpc /\ rpc[c].phase = "waiting"

(* The CancelledError goes through the runner and past the handlers of     *)
(* submit_message: nobody works on the task, and nothing is recorded.      *)
HangUp(c) ==
    LET t == rpc[c].task
    IN /\ MayHangUp(c)
       /\ rpc' = [rpc EXCEPT ![c].phase = "dropped"]
       /\ work' = IF work[t] = "running" THEN [work EXCEPT ![t] = "stillborn"] ELSE work
       /\ UNCHANGED <<store, now>>

RpcStep ==
    \/ \E c \in Clients :
         \/ \E b \in Bodies : Receive(c, b) \/ (~b.list /\ GrpcCall(c, b.reqs[1]))
         \/ StreamAlone(c) \/ HandleBatch(c) \/ Resume(c) \/ HangUp(c)
    \/ /\ \E t \in Tasks : RunnerReports(t) \/ RunnerConcludes(t)
       /\ UNCHANGED rpc

(* Beside it runners append, requests of other bindings cancel, clients    *)
(* read streams and the clock goes on.                                     *)
RpcSpec ==
    /\ Init /\ InitRpc
    /\ [][\/ RpcStep
          \/ /\ UNCHANGED rpc
             /\ \/ \E t \in Tasks : RunnerAppends(t) \/ Cancel(t)
                \/ \E s \in Subs : Stream(s)
                \/ TimePasses]_<<vars, rpc>>

-----------------------------------------------------------------------------
(* A task that is neither settled nor worked on was dropped by a call its  *)
(* client knows to have failed: message/stream, or a gRPC call that it     *)
(* gave up.  Evictions, cancels and batches leave no such task behind.     *)
UnattendedTaskWasDropped == \A t \in Live(store) :
    StateOf(store, t) \notin Terminal \cup Interrupted /\ work[t] # "running" =>
        \E c \in Clients :
            /\ rpc[c].task = t
            /\ rpc[c].phase = "crashed" \/ (rpc[c].phase = "dropped" /\ c \in Grpc)

(* The first n requests of a body have their replies: each with an id has  *)
(* one, behind those of the requests before it.                            *)
Place(body, j) == Cardinality({i \in 1..j : body[i].id})

Answered(replies, body, n) ==
    /\ Len(replies) = Place(body, n)
    /\ \A j \in 1..n : body[j].id => replies[Place(body, j)].method = body[j].method
    /\ \A i \in DOMAIN replies : replies[i].method = "send" =>
          replies[i].state \in Terminal \cup Interrupted \cup {"error"}

(* A body that was handled has one reply for each request with an id, in   *)
(* order, and what message/send replies after it waited is settled.        *)
RequestsAreAnswered == \A c \in Clients :
    rpc[c].phase = "answered" => Answered(rpc[c].replies, rpc[c].body, Len(rpc[c].body))
=============================================================================
