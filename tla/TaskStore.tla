------------------------------ MODULE TaskStore ------------------------------
(***************************************************************************)
(* InMemoryTaskStore (a2a/task_store.py): the task table of an A2A agent   *)
(* and the event streams that follow one task each.                        *)
(*                                                                         *)
(* Every method of the store runs between two suspension points of the     *)
(* event loop (its locks are never contended, put_nowait never waits), so  *)
(* a method is an operator from one value of the store to the next and a   *)
(* caller that makes two calls without suspending composes two operators.  *)
(* Only the consumer of subscribe() suspends, and only at its yields and   *)
(* at queue.get().                                                         *)
(***************************************************************************)
EXTENDS Naturals, Sequences, FiniteSets

Seqs == INSTANCE SequencesExt

CONSTANTS
    Tasks,      \* the ids uuid4 hands out, each at most once
    Subs,       \* the calls of subscribe()
    NoTask,     \* the task of a call that has not begun
    MaxTasks,   \* max_tasks of the store (10 000 in the code)
    Capacity,   \* maxsize of a subscriber's queue (512 in the code)
    MaxClock    \* bound on the wall clock, for model checking

ASSUME StoreAssumption ==
    /\ NoTask \notin Tasks
    /\ MaxTasks \in Nat \ {0}
    /\ Capacity \in Nat /\ Capacity >= 3
    /\ MaxClock \in Nat

VARIABLES
    store,      \* the tasks and their subscribers
    now         \* what utc_now_iso() reads; several calls may read the same

-----------------------------------------------------------------------------
(* TaskState.is_terminal, and the states a runner can report before it.    *)

Terminal == {"COMPLETED", "CANCELED", "FAILED", "REJECTED"}
Active == {"SUBMITTED", "WORKING", "INPUT_REQUIRED", "AUTH_REQUIRED"}

(* A Task is an immutable value that every update replaces.  History and   *)
(* artifacts are abstracted to rev, the number of updates made so far.     *)
NoRecord == [state |-> "ABSENT", stamp |-> 0, rev |-> 0]
TaskValue == [state : Terminal \cup Active \cup {"ABSENT"}, stamp : Nat, rev : Nat]

(* An event is named by the revision it announces.  Closed stands for      *)
(* _SUBSCRIPTION_CLOSED: it announces nothing.                             *)
Event == [rev : Nat, final : BOOLEAN]
Closed == [rev |-> 0, final |-> FALSE]

(* One run of the subscribe() generator.  It is on its record's list of    *)
(* subscribers exactly while it is "streaming".  fin: the item it yielded  *)
(* last makes it return when it is resumed.  seen: the revision of that    *)
(* item.  lost: the "dropping oldest event" warning was logged for it.     *)
NoSub == [task |-> NoTask, phase |-> "new", closed |-> FALSE, queue |-> <<>>,
          seen |-> 0, fin |-> FALSE, lost |-> FALSE]
Subscription ==
    [task : Tasks \cup {NoTask}, phase : {"new", "streaming", "returned", "left"},
     closed : BOOLEAN, queue : Seq(Event), seen : Nat, fin : BOOLEAN, lost : BOOLEAN]

(* dict is _tasks, in insertion order.  An evicted record leaves dict, but *)
(* its subscribers still hold it, so task keeps its last value.            *)
StoreValue == [dict : Seq(Tasks), task : [Tasks -> TaskValue],
               sub : [Subs -> Subscription]]

Live(st) == {st.dict[i] : i \in DOMAIN st.dict}
Streaming(st, s) == st.sub[s].phase = "streaming"
StateOf(st, t) == st.task[t].state

-----------------------------------------------------------------------------
(* Delivery to the subscribers of a task.                                  *)

(* Mutants of Put: a full queue refuses the newest event; a full queue     *)
(* gives up its oldest event without a warning; the queue is a stack.      *)
PutDropsNewest(r, ev) ==
    IF Len(r.queue) < Capacity
    THEN [r EXCEPT !.queue = Append(@, ev)]
    ELSE [r EXCEPT !.lost = TRUE]

PutSilently(r, ev) ==
    IF Len(r.queue) < Capacity
    THEN [r EXCEPT !.queue = Append(@, ev)]
    ELSE [r EXCEPT !.queue = Append(Tail(@), ev)]

PutInFront(r, ev) ==
    IF Len(r.queue) < Capacity
    THEN [r EXCEPT !.queue = <<ev>> \o @]
    ELSE [r EXCEPT !.queue = <<ev>> \o Tail(@), !.lost = TRUE]

(* A full queue gives up its oldest event to the newest one.               *)
Put(r, ev) ==
    IF Len(r.queue) < Capacity
    THEN [r EXCEPT !.queue = Append(@, ev)]
    ELSE [r EXCEPT !.queue = Append(Tail(@), ev), !.lost = TRUE]

Follows(r, t) == r.phase = "streaming" /\ r.task = t

Broadcast(sub, t, ev) ==
    [s \in Subs |-> IF Follows(sub[s], t) /\ ~sub[s].closed
                    THEN Put(sub[s], ev) ELSE sub[s]]

(* No room for the end marker: the subscription is marked closed instead.  *)
Mark(r) ==
    IF Len(r.queue) < Capacity
    THEN [r EXCEPT !.queue = Append(@, Closed)]
    ELSE [r EXCEPT !.closed = TRUE]

CloseSubscribers(sub, t) ==
    [s \in Subs |-> IF Follows(sub[s], t) THEN Mark(sub[s]) ELSE sub[s]]

-----------------------------------------------------------------------------
(* The operations.  Their callers check that the task is live: _record     *)
(* raises TaskNotFoundError otherwise, before anything has changed.        *)

(* The place in dict of the task min() picks: the earliest                 *)
(* status.timestamp and, among equals, the first inserted.                 *)
Oldest(st) ==
    LET stamp(i) == st.task[st.dict[i]].stamp
    IN CHOOSE i \in DOMAIN st.dict : \A j \in DOMAIN st.dict :
           stamp(i) < stamp(j) \/ (stamp(i) = stamp(j) /\ i <= j)

(* A full table evicts the oldest task, whatever its state.                *)
CreateTask(st, t) ==
    LET kept == IF Len(st.dict) >= MaxTasks
                THEN Seqs!RemoveAt(st.dict, Oldest(st)) ELSE st.dict
    IN [st EXCEPT !.dict = Append(kept, t),
                  !.task[t] = [state |-> "SUBMITTED", stamp |-> now, rev |-> 0]]

(* append_message and append_artifact: the status and its time stay.       *)
AppendData(st, t) ==
    LET ev == [rev |-> st.task[t].rev + 1, final |-> FALSE]
    IN [st EXCEPT !.task[t].rev = @ + 1, !.sub = Broadcast(@, t, ev)]

(* Mutants of RecordStatus: the streams are closed before they hear of the *)
(* final status; the event does not say it is final; the end of a task is  *)
(* announced like any other status.                                        *)
RecordStatusClosingFirst(st, t, state) ==
    LET ev == [rev |-> st.task[t].rev + 1, final |-> state \in Terminal]
        told == IF state \in Terminal THEN CloseSubscribers(st.sub, t) ELSE st.sub
    IN [st EXCEPT !.task[t] = [state |-> state, stamp |-> now, rev |-> @.rev + 1],
                  !.sub = Broadcast(told, t, ev)]

RecordStatusNotFinal(st, t, state) ==
    LET told == Broadcast(st.sub, t, [rev |-> st.task[t].rev + 1, final |-> FALSE])
    IN [st EXCEPT
          !.task[t] = [state |-> state, stamp |-> now, rev |-> @.rev + 1],
          !.sub = IF state \in Terminal THEN CloseSubscribers(told, t) ELSE told]

RecordStatusLikeAny(st, t, state) ==
    LET ev == [rev |-> st.task[t].rev + 1, final |-> FALSE]
    IN [st EXCEPT !.task[t] = [state |-> state, stamp |-> now, rev |-> @.rev + 1],
                  !.sub = Broadcast(st.sub, t, ev)]

(* record_status asks nothing of the state it overwrites.  Every caller    *)
(* leaves final to is_terminal or passes the same value.                   *)
RecordStatus(st, t, state) ==
    LET ev == [rev |-> st.task[t].rev + 1, final |-> state \in Terminal]
        told == Broadcast(st.sub, t, ev)
    IN [st EXCEPT
          !.task[t] = [state |-> state, stamp |-> now, rev |-> @.rev + 1],
          !.sub = IF state \in Terminal THEN CloseSubscribers(told, t) ELSE told]

(* Mutant of CancelTask: a finished task can be cancelled.                 *)
CancelTaskAlways(st, t) == RecordStatus(st, t, "CANCELED")

(* cancel_task raises TaskNotCancelableError on a terminal task.           *)
CancelTask(st, t) ==
    IF StateOf(st, t) \in Terminal THEN st ELSE RecordStatus(st, t, "CANCELED")

(* The first step of subscribe(): the snapshot and the place on the list   *)
(* of subscribers are taken together, then the snapshot is yielded.        *)
Attach(st, s, t) ==
    [st EXCEPT !.sub[s] =
        [NoSub EXCEPT !.task = t, !.phase = "streaming", !.seen = st.task[t].rev,
                      !.fin = st.task[t].state \in Terminal]]

(* The finally clause of subscribe(), after a return or a disconnection.   *)
Detach(st, s, how) ==
    [st EXCEPT !.sub[s] = [@ EXCEPT !.phase = how, !.closed = TRUE]]

(* The generator yields the event at the head of its queue.                *)
Shown(r) ==
    [r EXCEPT !.queue = Tail(@), !.seen = Head(r.queue).rev, !.fin = Head(r.queue).final]

Yield(st, s) == [st EXCEPT !.sub[s] = Shown(@)]

-----------------------------------------------------------------------------
(* The consumer of a stream, and the clock.                                *)

InitStore ==
    /\ store = [dict |-> <<>>, task |-> [t \in Tasks |-> NoRecord],
                sub |-> [s \in Subs |-> NoSub]]
    /\ now = 0

Subscribe(s, t) ==
    /\ store.sub[s].phase = "new"
    /\ t \in Live(store)
    /\ store' = Attach(store, s, t)
    /\ UNCHANGED now

(* Mutant of Return: only the end marker ends a stream.                    *)
ReturnOnMarker(s) ==
    /\ Streaming(store, s)
    /\ store.sub[s].queue # <<>> /\ Head(store.sub[s].queue) = Closed
    /\ store' = Detach(store, s, "returned")
    /\ UNCHANGED now

(* Resumed after its last item, or awake with the end marker in hand.      *)
Return(s) ==
    /\ Streaming(store, s)
    /\ \/ store.sub[s].fin
       \/ store.sub[s].queue # <<>> /\ Head(store.sub[s].queue) = Closed
    /\ store' = Detach(store, s, "returned")
    /\ UNCHANGED now

Deliver(s) ==
    /\ Streaming(store, s)
    /\ ~store.sub[s].fin
    /\ store.sub[s].queue # <<>>
    /\ Head(store.sub[s].queue) # Closed
    /\ store' = Yield(store, s)
    /\ UNCHANGED now

(* The client goes away: GeneratorExit or CancelledError at the yield or   *)
(* at queue.get().                                                         *)
Disconnect(s) ==
    /\ Streaming(store, s)
    /\ store' = Detach(store, s, "left")
    /\ UNCHANGED now

Tick ==
    /\ now < MaxClock
    /\ now' = now + 1
    /\ UNCHANGED store

(* What the callers of the store do to the tasks, one operation at a time. *)
StoreOperation ==
    \/ Tick
    \/ \E t \in Tasks :
         /\ UNCHANGED now
         /\ \/ StateOf(store, t) = "ABSENT" /\ store' = CreateTask(store, t)
            \/ t \in Live(store) /\ store' = AppendData(store, t)
            \/ \E state \in Terminal \cup Active :
                 t \in Live(store) /\ store' = RecordStatus(store, t, state)

-----------------------------------------------------------------------------
(* What the streams promise, whoever calls the store.                      *)

(* The store and the clock have their types; the table never exceeds       *)
(* max_tasks, never lists a task twice, and no queue exceeds its maxsize.  *)
StoreOK(st) ==
    /\ st \in StoreValue
    /\ Len(st.dict) <= MaxTasks
    /\ \A i, j \in DOMAIN st.dict : st.dict[i] = st.dict[j] => i = j
    /\ \A t \in Tasks : t \in Live(st) => st.task[t].state # "ABSENT"
    /\ \A s \in Subs : Len(st.sub[s].queue) <= Capacity
    /\ \A s \in Subs : Streaming(st, s) => st.sub[s].task \in Tasks

(* Up to the end marker and unless a warning was logged, the queue holds   *)
(* the revisions that follow the last item seen, one by one.               *)
NoGap(r) == \A i \in DOMAIN r.queue :
    r.queue[i].rev = r.seen + i \/ \E j \in 1..i : r.queue[j] = Closed

(* ... and they run up to the task's own revision.                         *)
CaughtUp(r, rev) ==
    \/ r.closed
    \/ \E i \in DOMAIN r.queue : r.queue[i] = Closed
    \/ r.seen + Len(r.queue) = rev

GapFree(st) == \A s \in Subs :
    Streaming(st, s) /\ ~st.sub[s].lost
        => NoGap(st.sub[s]) /\ CaughtUp(st.sub[s], st.task[st.sub[s].task].rev)

(* A subscription marked closed gets no more events, so what is left in    *)
(* its queue, or the item it yielded last, must end it.                    *)
Ends(r) == r.fin \/ \E i \in DOMAIN r.queue : r.queue[i].final \/ r.queue[i] = Closed

ClosedEnds(st) == \A s \in Subs : Streaming(st, s) /\ st.sub[s].closed => Ends(st.sub[s])

TerminalEnds(st) == \A s \in Subs :
    Streaming(st, s) /\ StateOf(st, st.sub[s].task) \in Terminal => Ends(st.sub[s])

(* A stream yields the snapshot and then every later update of its task,   *)
(* in order and exactly once, unless it was warned about a dropped event.  *)
StreamsGapFree == GapFree(store)

(* Marking a full subscription closed never strands its consumer.          *)
ClosedStreamsEnd == ClosedEnds(store)

(* Nobody waits on a finished task for an event that will never come: a    *)
(* subscriber of a terminal task has its end in its queue or behind it.    *)
(* task_store.py:195 "then yield each subsequent event until a terminal    *)
(* status arrives, after which the iterator must stop".                    *)
TerminalStreamsEnd == TerminalEnds(store)

(* A consumer never goes back: a later item announces a later revision.    *)
StreamsAdvance ==
    [][\A s \in Subs : Streaming(store, s) =>
          /\ store'.sub[s].seen >= store.sub[s].seen
          /\ (store'.sub[s].seen = store.sub[s].seen
                \/ store'.sub[s].lost
                \/ store'.sub[s].seen = store.sub[s].seen + 1)]_store
=============================================================================
