--------------------------- MODULE PushDispatcher ---------------------------
(***************************************************************************)
(* PushDispatcher (a2a/push.py): a poller that attaches one delivery       *)
(* worker to every push configuration it finds, and workers that POST a    *)
(* task's snapshot and events to a webhook, with bounded retries.          *)
(*                                                                         *)
(* The store's methods never suspend.  A worker suspends in its POST, in   *)
(* the backoff and in the queue of subscribe(); the poller between sweeps. *)
(* A subscription of TaskStore is the one a worker holds, so its name also *)
(* names the worker's key, a (task, configuration) pair.                   *)
(***************************************************************************)
EXTENDS TaskStore

CONSTANTS
    PageSize,   \* tasks a sweep lists (500 in the code)
    MaxRetries, \* max_retries (5 in the code)
    MaxStops    \* bound on stop(), for model checking

ASSUME PushAssumption ==
    /\ PageSize \in Nat \ {0}
    /\ MaxRetries \in Nat
    /\ MaxStops \in Nat

VARIABLES
    hook,       \* each key: its task, whether it is configured, what was received
    worker,     \* each key: the delivery coroutine
    poller,     \* _poll_task and _stopped
    stops

pushVars == <<hook, worker, poller, stops>>

Idle == [phase |-> "none", attempt |-> 0, item |-> Closed, lossy |-> FALSE]
Workers == [phase : {"none", "begin", "snapshot", "event", "reading", "done"},
            attempt : 0..MaxRetries, item : Event, lossy : BOOLEAN]
Hooks == [task : Tasks \cup {NoTask}, listed : BOOLEAN, got : Nat, over : BOOLEAN]

InitPush ==
    /\ hook = [k \in Subs |-> [task |-> NoTask, listed |-> FALSE, got |-> 0,
                               over |-> FALSE]]
    /\ worker = [k \in Subs |-> Idle]
    /\ poller = "off"
    /\ stops = 0

-----------------------------------------------------------------------------
(* The table of configurations, and the dispatcher's life cycle.           *)

(* A configuration is one url here: add_push_config may also put another   *)
(* url under an id in use, which a worker of the first does not notice.    *)
AddConfig(k, t) ==
    /\ t \in Live(store) /\ hook[k].task \in {t, NoTask}
    /\ hook' = [hook EXCEPT ![k] = [@ EXCEPT !.task = t, !.listed = TRUE]]
    /\ UNCHANGED <<store, worker, poller, stops>>

DeleteConfig(k) ==
    /\ hook[k].listed /\ hook[k].task \in Live(store)
    /\ hook' = [hook EXCEPT ![k].listed = FALSE]
    /\ UNCHANGED <<store, worker, poller, stops>>

Start ==
    /\ poller = "off"
    /\ poller' = "on"
    /\ UNCHANGED <<store, hook, worker, stops>>

(* stop() awaits the poller; the workers run on until it is gone, and are  *)
(* then cancelled with whatever they post or read.                         *)
Stop ==
    /\ poller = "on" /\ stops < MaxStops
    /\ poller' = "stopping" /\ stops' = stops + 1
    /\ UNCHANGED <<store, hook, worker>>

(* Mutant of StopWorkers: the table still names the workers it cancelled.  *)
StopWorkersKeepingTable ==
    /\ poller = "stopping"
    /\ poller' = "off"
    /\ store' = [store EXCEPT !.sub = [k \in Subs |->
                    IF Streaming(store, k) THEN [NoSub EXCEPT !.phase = "left"] ELSE @[k]]]
    /\ UNCHANGED <<hook, worker, stops>>

StopWorkers ==
    /\ poller = "stopping"
    /\ poller' = "off"
    /\ worker' = [k \in Subs |-> Idle]
    /\ store' = [store EXCEPT !.sub = [k \in Subs |->
                    IF Streaming(store, k) THEN [NoSub EXCEPT !.phase = "left"] ELSE @[k]]]
    /\ UNCHANGED <<hook, stops>>

(* list_tasks shows the oldest PageSize tasks by status time; the ids,     *)
(* which decide ties, are random.                                          *)
FirstPages(st) == {P \in SUBSET Live(st) :
    /\ Cardinality(P) <= PageSize
    /\ P # Live(st) => Cardinality(P) = PageSize
    /\ \A t \in P, u \in Live(st) \ P : st.task[t].stamp <= st.task[u].stamp}

Register(k) ==
    IF worker[k].phase \in {"none", "done"} THEN [Idle EXCEPT !.phase = "begin"] ELSE worker[k]

(* A sweep attaches a worker to each configuration on the page that has    *)
(* none or whose worker has ended.                                         *)
Sweep == \E P \in FirstPages(store) :
    /\ poller = "on"
    /\ worker' = [k \in Subs |-> IF hook[k].listed /\ hook[k].task \in P
                                 THEN Register(k) ELSE worker[k]]
    /\ worker' # worker
    /\ UNCHANGED <<store, hook, poller, stops>>

-----------------------------------------------------------------------------
(* One worker: _deliver and _post_event.                                   *)

Posting(k, phase, item) ==
    worker' = [worker EXCEPT ![k] = [@ EXCEPT !.phase = phase, !.attempt = 0, !.item = item]]

Finish(k, lossy) ==
    worker' = [worker EXCEPT ![k] = [@ EXCEPT !.phase = "done", !.lossy = lossy]]

(* The worker drops the generator it reads, which then leaves the task.    *)
Leave(k) == [store EXCEPT !.sub[k] = [NoSub EXCEPT !.phase = "left"]]

(* get_task, and the snapshot is on its way; or the task was evicted.      *)
Begin(k) ==
    LET t == hook[k].task
    IN /\ worker[k].phase = "begin"
       /\ IF t \in Live(store)
          THEN Posting(k, "snapshot", [rev |-> store.task[t].rev,
                                       final |-> StateOf(store, t) \in Terminal])
          ELSE Finish(k, FALSE)
       /\ UNCHANGED <<store, hook, poller, stops>>

(* Mutant of Proceed: the snapshot subscribe() yields is taken for the one *)
(* that was posted.                                                        *)
ProceedOnce(k, lossy) ==
    LET t == hook[k].task
    IN \/ /\ worker[k].phase = "snapshot" /\ t \in Live(store)
          /\ store' = Attach(store, k, t)
          /\ worker' = [worker EXCEPT ![k] = [@ EXCEPT !.phase = "reading", !.lossy = lossy]]
       \/ /\ worker[k].phase = "event"
          /\ IF worker[k].item.final
             THEN store' = Leave(k) /\ Finish(k, lossy)
             ELSE UNCHANGED store /\
                  worker' = [worker EXCEPT ![k] = [@ EXCEPT !.phase = "reading", !.lossy = lossy]]

(* After the POST.  The first one is followed by subscribe(), whose own    *)
(* snapshot is posted too; a final event ends the worker.                  *)
Proceed(k, lossy) ==
    LET t == hook[k].task
        now0 == [rev |-> store.task[t].rev, final |-> StateOf(store, t) \in Terminal]
    IN \/ /\ worker[k].phase = "snapshot" /\ t \in Live(store) /\ poller # "stopping"
          /\ store' = Attach(store, k, t)
          /\ worker' = [worker EXCEPT ![k] = [phase |-> "event", attempt |-> 0,
                                              item |-> now0, lossy |-> lossy]]
       \/ /\ worker[k].phase = "snapshot" /\ (t \notin Live(store) \/ poller = "stopping")
          /\ UNCHANGED store /\ Finish(k, lossy)
       \/ /\ worker[k].phase = "event" /\ worker[k].item.final
          /\ store' = Leave(k) /\ Finish(k, lossy)
       \/ /\ worker[k].phase = "event" /\ ~worker[k].item.final
          /\ UNCHANGED store
          /\ worker' = [worker EXCEPT ![k] = [@ EXCEPT !.phase = "reading", !.lossy = lossy]]

(* One attempt.  "lost": the receiver had it, the answer was lost or bad.  *)
(* After max_retries, or while the dispatcher stops, the item is dropped.  *)
Post(k, outcome) ==
    LET w == worker[k]
        dropped == outcome # "ok" /\ (w.attempt = MaxRetries \/ poller = "stopping")
    IN /\ w.phase \in {"snapshot", "event"}
       /\ hook' = IF outcome = "failed" THEN hook
                  ELSE [hook EXCEPT ![k].got = w.item.rev,
                                    ![k].over = hook[k].over \/ w.item.final]
       /\ IF outcome = "ok" \/ dropped
          THEN Proceed(k, w.lossy \/ dropped)
          ELSE UNCHANGED store /\ worker' = [worker EXCEPT ![k].attempt = @ + 1]
       /\ UNCHANGED <<poller, stops>>

(* The next event, the end of the stream, or the end of the dispatcher.    *)
Read(k) ==
    /\ worker[k].phase = "reading"
    /\ UNCHANGED <<hook, poller, stops>>
    /\ \/ Deliver(k) /\ poller # "stopping"
          /\ Posting(k, "event", Head(store.sub[k].queue))
       \/ Return(k) /\ Finish(k, worker[k].lossy)
       \/ /\ poller = "stopping" /\ ~store.sub[k].fin
          /\ store.sub[k].queue # <<>> /\ Head(store.sub[k].queue) # Closed
          /\ store' = Leave(k) /\ UNCHANGED now
          /\ Finish(k, worker[k].lossy)

DispatcherStep(t) ==
    /\ UNCHANGED now
    /\ \/ Start \/ Stop \/ StopWorkers \/ Sweep
       \/ \E k \in Subs :
            \/ AddConfig(k, t)
            \/ DeleteConfig(k)
            \/ Begin(k) \/ Read(k)
            \/ \E outcome \in {"ok", "lost", "failed"} : Post(k, outcome)

(* What runners, requests and the clock do to the tasks meanwhile.         *)
TasksChange == StoreOperation /\ UNCHANGED pushVars

PushSpec ==
    /\ InitStore /\ InitPush
    /\ [][(\E t \in Tasks : DispatcherStep(t)) \/ TasksChange]_<<store, now, pushVars>>

PushFairness ==
    /\ WF_<<store, now, pushVars>>(Sweep /\ UNCHANGED now)
    /\ \A k \in Subs :
         /\ WF_<<store, now, pushVars>>(Begin(k) /\ UNCHANGED now)
         /\ WF_<<store, now, pushVars>>(Read(k) /\ UNCHANGED now)
         /\ WF_<<store, now, pushVars>>(UNCHANGED now
                /\ \E outcome \in {"ok", "lost", "failed"} : Post(k, outcome))

-----------------------------------------------------------------------------
(* A worker that waits for the next event has posted every one before it:  *)
(* with the gap-free stream behind it, the webhook misses nothing.         *)
HookMissesNothing == \A k \in Subs :
    worker[k].phase = "reading" /\ ~worker[k].lossy => hook[k].got = store.sub[k].seen

(* A webhook is never told an older revision after a newer one, across     *)
(* retries, workers that begin again and restarts of the dispatcher.       *)
HookNeverGoesBack ==
    [][\A k \in Subs : hook'[k].got >= hook[k].got]_hook

(* A worker ends on its own only when the webhook has heard of an end,     *)
(* something was dropped, or the task has left the table.                  *)
EndedWorkerToldTheEnd == \A k \in Subs :
    worker[k].phase = "done" /\ poller = "on" /\ ~worker[k].lossy /\ ~store.sub[k].lost
        => hook[k].over \/ hook[k].task \notin Live(store)

(* A configured webhook catches up with its task: nothing but a give-up,   *)
(* an eviction, a full first page, a deletion or a stop prevents it.       *)
WebhookCatchesUp == \A k \in Subs :
    LET due == /\ hook[k].listed /\ hook[k].task \in Live(store) /\ poller = "on"
               /\ \A P \in FirstPages(store) : hook[k].task \in P
    IN due ~> (~due \/ worker[k].lossy \/ hook[k].got = store.task[hook[k].task].rev)
=============================================================================
