----------------------------- MODULE TaskHandlers -----------------------------
(***************************************************************************)
(* The handlers shared by the JSON-RPC and gRPC bindings (a2a/handlers.py) *)
(* over the task store.  Here the runner holds the store itself: it        *)
(* reports statuses and appends data as it goes, and suspends between any  *)
(* two calls.  tasks/cancel talks to the store only.  Streams are those of *)
(* tasks:subscribe, which follows any task of the same store.              *)
(***************************************************************************)
EXTENDS TaskStore

CONSTANT MaxRev     \* bound on the updates of a task, for model checking

ASSUME HandlersAssumption == MaxRev \in Nat

VARIABLE work       \* the runner of each task

vars == <<store, now, work>>

(* "stillborn": created by a call that raised before it started a runner.  *)
WorkStates == {"none", "running", "done", "stillborn"}

Interrupted == {"INPUT_REQUIRED", "AUTH_REQUIRED"}

Init == InitStore /\ work = [t \in Tasks |-> "none"]

-----------------------------------------------------------------------------
Create(t, how) ==
    /\ StateOf(store, t) = "ABSENT"
    /\ store' = CreateTask(store, t)
    /\ work' = [work EXCEPT ![t] = how]
    /\ UNCHANGED now

(* message/send, whether or not the caller waits for the runner.           *)
SubmitMessage(t) == Create(t, "running")

(* message/stream creates the task and then awaits store.subscribe(), an   *)
(* async generator: TypeError, before the runner's task is created.        *)
StreamMessage(t) == Create(t, "stillborn")

(* A call the runner makes on its task.  On an evicted task it raises, and *)
(* so does the FAILED that the handler then tries to record.               *)
RunnerCall(t, next) ==
    /\ work[t] = "running"
    /\ IF t \in Live(store)
       THEN store' = next /\ UNCHANGED work
       ELSE UNCHANGED store /\ work' = [work EXCEPT ![t] = "done"]
    /\ UNCHANGED now

RunnerReports(t) ==
    /\ store.task[t].rev < MaxRev
    /\ RunnerCall(t, RecordStatus(store, t, "WORKING"))

RunnerAppends(t) ==
    /\ store.task[t].rev < MaxRev
    /\ RunnerCall(t, AppendData(store, t))

(* Mutant of RunnerConcludes: a runner that raises leaves no trace.        *)
RunnerConcludesUnrecorded(t) ==
    /\ work[t] = "running"
    /\ work' = [work EXCEPT ![t] = "done"]
    /\ UNCHANGED <<store, now>>

(* The last call of run_task, or the FAILED the handler records when       *)
(* run_task raises.                                                        *)
RunnerConcludes(t) == \E state \in {"COMPLETED", "FAILED"} \cup Interrupted :
    /\ work[t] = "running"
    /\ store' = IF t \in Live(store) THEN RecordStatus(store, t, state) ELSE store
    /\ work' = [work EXCEPT ![t] = "done"]
    /\ UNCHANGED now

Cancel(t) ==
    /\ t \in Live(store)
    /\ store' = CancelTask(store, t)
    /\ UNCHANGED <<now, work>>

Stream(s) ==
    /\ \/ \E t \in Tasks : Subscribe(s, t)
       \/ Return(s)
       \/ Deliver(s)
       \/ Disconnect(s)
    /\ UNCHANGED work

TimePasses == Tick /\ UNCHANGED work

Next ==
    \/ \E t \in Tasks :
          \/ SubmitMessage(t) \/ StreamMessage(t)
          \/ RunnerReports(t) \/ RunnerAppends(t) \/ RunnerConcludes(t)
          \/ Cancel(t)
    \/ \E s \in Subs : Stream(s)
    \/ TimePasses

Spec == Init /\ [][Next]_vars

(* A runner comes back to its caller.                                      *)
FairSpec == Spec /\ \A t \in Tasks : WF_vars(RunnerConcludes(t))

-----------------------------------------------------------------------------
TypeOK ==
    /\ StoreOK(store)
    /\ now \in Nat
    /\ work \in [Tasks -> WorkStates]

(* When a runner has returned or raised, its task is terminal or waits for *)
(* its client: message/send never hands out a task nobody works on.        *)
ReturnedTaskIsSettled == \A t \in Live(store) :
    work[t] = "done" => StateOf(store, t) \in Terminal \cup Interrupted

(* A queue that overflows keeps the newest events: a consumer that was not *)
(* cut off reaches the task's current revision by draining its queue.      *)
NewestIsKept == \A s \in Subs :
    LET r == store.sub[s]
    IN Streaming(store, s) /\ r.queue # <<>> /\ ~Ends(r)
          => r.queue[Len(r.queue)].rev = store.task[r.task].rev

(* docs/agent-mesh.md:203, tasks/cancel: a transition to CANCELED, refused *)
(* if the task is already terminal.  A cancelled task stays cancelled.     *)
CancelSticks ==
    [][\A t \in Tasks : StateOf(store, t) = "CANCELED"
          => StateOf(store', t) = "CANCELED"]_store

(* handlers.py:111, stream_message: "followed by every status/artifact     *)
(* update until the task reaches a terminal state".                        *)
StreamedTaskFinishes == \A t \in Tasks :
    StateOf(store, t) = "SUBMITTED" ~> StateOf(store, t) # "SUBMITTED"
=============================================================================
