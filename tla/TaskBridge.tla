------------------------------ MODULE TaskBridge ------------------------------
(***************************************************************************)
(* TaskRunnerBridge and the REST binding (a2a/rest.py) over the task       *)
(* store: message:send starts an asyncio task that drives the runner,      *)
(* tasks:cancel cancels it, and streams or blocking sends wait for the     *)
(* end.                                                                    *)
(*                                                                         *)
(* _drive suspends only before its first step and inside run_one_shot, so  *)
(* everything it does between the two, or after the runner returned, is    *)
(* one step.                                                               *)
(***************************************************************************)
EXTENDS TaskStore

CONSTANTS
    Waiters,        \* the message:send calls with configuration.blocking
    NoReply,        \* the answer of a call that still waits
    NotFound,       \* the answer of a call whose task was evicted
    MaySwallow      \* may the runner swallow the CancelledError it is sent?

ASSUME BridgeAssumption == Waiters \subseteq Subs /\ MaySwallow \in BOOLEAN

VARIABLES
    drive,          \* the asyncio task behind each A2A task
    running,        \* the keys of TaskRunnerBridge._running
    last,           \* the snapshot each blocking call started from
    reply           \* what each blocking call answered

vars == <<store, now, drive, running, last, reply>>

(* "scheduled": created, its first step is still queued on the event loop. *)
(* "doomed": cancelled before that step, so its body never runs.           *)
(* "cancelling": CancelledError is on its way through the runner.          *)
DriveStates == {"none", "scheduled", "doomed", "running", "cancelling", "done"}

Init ==
    /\ InitStore
    /\ drive = [t \in Tasks |-> "none"]
    /\ running = {}
    /\ last = [w \in Waiters |-> NoReply]
    /\ reply = [w \in Waiters |-> NoReply]

WaitVars == <<last, reply>>
DriveVars == <<drive, running>>

-----------------------------------------------------------------------------
(* The life of a driven task.                                              *)

Submit(t) ==
    /\ StateOf(store, t) = "ABSENT"
    /\ store' = CreateTask(store, t)
    /\ drive' = [drive EXCEPT ![t] = "scheduled"]
    /\ running' = running \cup {t}
    /\ UNCHANGED <<now, WaitVars>>

(* What a step of _drive leaves behind, if the task is still in the table; *)
(* otherwise TaskNotFoundError ends _drive with nothing written.           *)
IfLive(t, next) == store' = IF t \in Live(store) THEN next ELSE store

DriveEnds(t) ==
    /\ drive' = [drive EXCEPT ![t] = "done"]
    /\ UNCHANGED <<now, running, WaitVars>>

(* WORKING, then into the runner.                                          *)
DriveStart(t) ==
    /\ drive[t] = "scheduled"
    /\ t \in Live(store)
    /\ store' = RecordStatus(store, t, "WORKING")
    /\ drive' = [drive EXCEPT ![t] = "running"]
    /\ UNCHANGED <<now, running, WaitVars>>

(* A message without text: WORKING and REJECTED in the same step.          *)
DriveRejects(t) ==
    /\ drive[t] = "scheduled"
    /\ t \in Live(store)
    /\ store' = RecordStatus(RecordStatus(store, t, "WORKING"), t, "REJECTED")
    /\ DriveEnds(t)

(* The task was evicted before _drive began.                               *)
DriveFindsNothing(t) ==
    /\ drive[t] = "scheduled"
    /\ t \notin Live(store)
    /\ DriveEnds(t)
    /\ UNCHANGED store

DriveNeverRuns(t) ==
    /\ drive[t] = "doomed"
    /\ DriveEnds(t)
    /\ UNCHANGED store

(* A runner that swallows CancelledError returns as if nothing happened.   *)
RunnerCanReturn(t) ==
    drive[t] = "running" \/ (MaySwallow /\ drive[t] = "cancelling")

(* run_one_shot returned: one artifact and the verdict on result.ok.       *)
RunnerReturns(t) == \E verdict \in {"COMPLETED", "FAILED"} :
    /\ RunnerCanReturn(t)
    /\ IfLive(t, RecordStatus(AppendData(store, t), t, verdict))
    /\ DriveEnds(t)

(* Mutant of RunnerRaises: the failure is logged and not recorded.         *)
RunnerRaisesUnrecorded(t) ==
    /\ RunnerCanReturn(t)
    /\ DriveEnds(t)
    /\ UNCHANGED store

(* run_one_shot raised.                                                    *)
RunnerRaises(t) ==
    /\ RunnerCanReturn(t)
    /\ IfLive(t, RecordStatus(store, t, "FAILED"))
    /\ DriveEnds(t)

(* Mutant of DriveUnwinds: a cancelled runner counts as a failed one.      *)
DriveUnwindsFailed(t) ==
    /\ drive[t] = "cancelling"
    /\ IfLive(t, RecordStatus(store, t, "FAILED"))
    /\ DriveEnds(t)

(* CancelledError reaches _drive, which records CANCELED once more.        *)
DriveUnwinds(t) ==
    /\ drive[t] = "cancelling"
    /\ IfLive(t, RecordStatus(store, t, "CANCELED"))
    /\ DriveEnds(t)

(* The done callback of the asyncio task.                                  *)
Cleanup(t) ==
    /\ drive[t] = "done"
    /\ t \in running
    /\ running' = running \ {t}
    /\ UNCHANGED <<store, now, drive, WaitVars>>

(* Mutant of CancelDrive: the runner is left alone.                        *)
CancelDriveNever(t) == drive[t]

(* TaskRunnerBridge.cancel: first the asyncio task, then the store, which  *)
(* refuses a task that is terminal or gone.                                *)
CancelDrive(t) ==
    IF t \notin running THEN drive[t]
    ELSE CASE drive[t] = "scheduled" -> "doomed"
           [] drive[t] = "running" -> "cancelling"
           [] OTHER -> drive[t]

Cancel(t) ==
    /\ drive[t] # "none"
    /\ drive' = [drive EXCEPT ![t] = CancelDrive(t)]
    /\ IfLive(t, CancelTask(store, t))
    /\ UNCHANGED <<now, running, WaitVars>>

-----------------------------------------------------------------------------
(* Streams (message:stream and tasks:subscribe), and blocking sends, which *)
(* consume a stream of their own in _wait_terminal.                        *)

Stream(s) ==
    /\ s \notin Waiters
    /\ \/ \E t \in Tasks : Subscribe(s, t)
       \/ Return(s)
       \/ Deliver(s)
       \/ Disconnect(s)
    /\ UNCHANGED <<DriveVars, WaitVars>>

GetTask(st, t) == IF t \in Live(st) THEN st.task[t] ELSE NotFound

(* A terminal snapshot is the answer at once.                              *)
Wait(w, t) ==
    /\ reply[w] = NoReply
    /\ Subscribe(w, t)
    /\ last' = [last EXCEPT ![w] = store.task[t]]
    /\ reply' = [reply EXCEPT ![w] =
                    IF StateOf(store, t) \in Terminal THEN store.task[t] ELSE @]
    /\ UNCHANGED DriveVars

(* message:send itself waits; its task may be evicted before it looks.     *)
WaitsInVain(w, t) ==
    /\ store.sub[w].phase = "new"
    /\ reply[w] = NoReply
    /\ drive[t] # "none"
    /\ t \notin Live(store)
    /\ reply' = [reply EXCEPT ![w] = NotFound]
    /\ UNCHANGED <<store, now, DriveVars, last>>

(* Mutant of WaiterWakes: any event ends the wait.                         *)
WaiterWakesEarly(w) ==
    /\ Deliver(w) \/ Return(w)
    /\ reply' = [reply EXCEPT ![w] = GetTask(store, store.sub[w].task)]
    /\ UNCHANGED <<DriveVars, last>>

(* The final event, or the end marker, has it read the task again.  The    *)
(* generator it leaves behind is finalised by Return.                      *)
WaiterWakes(w) ==
    /\ \/ /\ Deliver(w)
          /\ reply' = [reply EXCEPT ![w] = IF store'.sub[w].fin
                          THEN GetTask(store, store.sub[w].task) ELSE @]
       \/ /\ Return(w)
          /\ reply' = [reply EXCEPT ![w] = IF @ = NoReply
                          THEN GetTask(store, store.sub[w].task) ELSE @]
    /\ UNCHANGED <<DriveVars, last>>

(* blocking_wait_s is over: the answer is the last snapshot.               *)
WaiterGivesUp(w) ==
    /\ reply[w] = NoReply
    /\ Disconnect(w)
    /\ reply' = [reply EXCEPT ![w] = last[w]]
    /\ UNCHANGED <<DriveVars, last>>

-----------------------------------------------------------------------------
DriveStep(t) ==
    \/ DriveStart(t)
    \/ DriveRejects(t)
    \/ DriveFindsNothing(t)
    \/ DriveNeverRuns(t)
    \/ RunnerReturns(t)
    \/ RunnerRaises(t)
    \/ DriveUnwinds(t)

TaskStep(t) == Submit(t) \/ DriveStep(t) \/ Cleanup(t) \/ Cancel(t)

WaiterStep(w) ==
    \/ \E t \in Tasks : Wait(w, t) \/ WaitsInVain(w, t)
    \/ WaiterWakes(w)
    \/ WaiterGivesUp(w)

TimePasses == Tick /\ UNCHANGED <<DriveVars, WaitVars>>

Next ==
    \/ \E t \in Tasks : TaskStep(t)
    \/ \E s \in Subs : Stream(s)
    \/ \E w \in Waiters : WaiterStep(w)
    \/ TimePasses

Spec == Init /\ [][Next]_vars

(* The event loop runs every queued step, and every runner comes back:     *)
(* run_one_shot bounds itself with timeout_s and then kills its process.   *)
(* Consumers keep reading.  Clients need not cancel, nor disconnect.       *)
Reads(s) == (Deliver(s) \/ Return(s)) /\ UNCHANGED <<DriveVars, WaitVars>>

Fairness ==
    /\ \A t \in Tasks : WF_vars(DriveStep(t)) /\ WF_vars(Cleanup(t))
    /\ \A s \in Subs \ Waiters : WF_vars(Reads(s))
    /\ \A w \in Waiters : WF_vars(WaiterWakes(w))

FairSpec == Spec /\ Fairness

-----------------------------------------------------------------------------
TypeOK ==
    /\ StoreOK(store)
    /\ now \in Nat
    /\ drive \in [Tasks -> DriveStates]
    /\ running \in SUBSET Tasks
    /\ last \in [Waiters -> TaskValue \cup {NoReply}]
    /\ reply \in [Waiters -> TaskValue \cup {NoReply, NotFound}]

(* The asyncio task and the record agree: a task in the table that is not  *)
(* terminal has somebody working on it, whom cancel can still reach, and   *)
(* one that is terminal has nobody but a runner on its way out.            *)
DriveMatchesTask == \A t \in Live(store) :
    IF StateOf(store, t) \in Terminal
    THEN drive[t] \in {"doomed", "cancelling", "done"}
    ELSE drive[t] \in {"scheduled", "running"} /\ t \in running

(* A stream that ended by itself has shown its client the final status.    *)
EndedStreamSawFinal == \A s \in Subs :
    store.sub[s].phase = "returned" => store.sub[s].fin

(* A blocking send that did not run out of its budget answers with a       *)
(* finished task, or that the task is gone.                                *)
BlockingReplyIsFinal == \A w \in Waiters :
    reply[w] \notin {NoReply, NotFound} /\ store.sub[w].phase # "left"
        => reply[w].state \in Terminal

(* COMPLETED, FAILED, CANCELED and REJECTED are never left for another     *)
(* state.                                                                  *)
TerminalIsFinal ==
    [][\A t \in Tasks : StateOf(store, t) \in Terminal
          => StateOf(store', t) = StateOf(store, t)]_store

(* Every submitted task that stays in the table reaches a terminal state,  *)
(* and the bridge forgets its asyncio task.                                *)
SubmittedTasksFinish == \A t \in Tasks :
    t \in Live(store) ~> (t \notin Live(store)
                            \/ (StateOf(store, t) \in Terminal /\ t \notin running))

(* Every stream on a task that stays in the table comes to an end.         *)
StreamsReturn == \A s \in Subs :
    Streaming(store, s) ~> (\/ ~Streaming(store, s)
                            \/ store.sub[s].task \notin Live(store))

(* Seen through the table, the bridge implements the life cycle a client   *)
(* relies on (TaskLifecycle), as long as runners let CancelledError pass.  *)
PhaseOf(t) ==
    IF t \in Live(store) \/ StateOf(store, t) = "ABSENT"
    THEN StateOf(store, t) ELSE "GONE"

Promise == INSTANCE TaskLifecycle WITH phase <- [t \in Tasks |-> PhaseOf(t)]

FollowsLifecycle == Promise!Lifecycle

-----------------------------------------------------------------------------
(* What a comment of rest.py says, and the code does not do.               *)

(* rest.py:464 "clients that exceed the budget receive the current Task    *)
(* snapshot in whatever state it is in".                                   *)
LateReplyIsCurrent ==
    [][\A w \in Waiters : WaiterGivesUp(w)
          => reply'[w] = GetTask(store, store.sub[w].task)]_vars
=============================================================================
