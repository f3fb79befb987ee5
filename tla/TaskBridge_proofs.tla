-------------------------- MODULE TaskBridge_proofs --------------------------
(***************************************************************************)
(* The safety of the bridge for any tasks, subscribers and bounds.  The    *)
(* store's promises, the answers of blocking sends and the agreement of    *)
(* the asyncio task with the record hold whatever runners do; a terminal   *)
(* state is final, and the life cycle is TaskLifecycle, as long as no      *)
(* runner swallows the CancelledError it is sent.                          *)
(***************************************************************************)
EXTENDS TaskBridge, TaskStore_proofs

(* The store's part of the inductive invariant, and the types of the rest. *)
Inv ==
    /\ StoreInv(store)
    /\ TerminalEnds(store)
    /\ Followed(store)
    /\ now \in Nat
    /\ drive \in [Tasks -> DriveStates]
    /\ running \in SUBSET Tasks
    /\ last \in [Waiters -> TaskValue \cup {NoReply}]
    /\ reply \in [Waiters -> TaskValue \cup {NoReply, NotFound}]

(* What one step on t does to the store, at most.                          *)
Settled(st) == StoreInv(st) /\ TerminalEnds(st) /\ Followed(st)

(* A step of the bridge on t either leaves the store alone or writes t.    *)
WritesOnly(t, states) ==
    /\ Settled(store')
    /\ \/ store' = store
       \/ \E state \in states : Written(store, store', t, state)

LEMMA RecordSettled ==
    ASSUME StoreAssumption, now \in Nat, NEW st, Settled(st), NEW t \in Tasks,
           NEW state \in Terminal \cup Active
    PROVE  LET x == RecordStatus(st, t, state)
           IN Settled(x) /\ Written(st, x, t, state)
  BY RecordWritten, EndsWeaken DEF Settled, Written

LEMMA AppendRecordSettled ==
    ASSUME StoreAssumption, now \in Nat, NEW st, Settled(st), NEW t \in Tasks,
           StateOf(st, t) # "ABSENT", NEW state \in Terminal \cup Active
    PROVE  LET x == RecordStatus(AppendData(st, t), t, state)
           IN Settled(x) /\ Written(st, x, t, state)
  <1> DEFINE y == AppendData(st, t)
             x == RecordStatus(y, t, state)
  <1>1. Written(st, y, t, StateOf(st, t)) /\ EndsBut(y, t)
    BY AppendWritten DEF Settled
  <1>2. StoreInv(y) /\ Followed(y)
    BY <1>1 DEF Written, Settled
  <1> HIDE DEF y
  <1>3. Written(y, x, t, state) /\ TerminalEnds(x)
    BY <1>1, <1>2, RecordWritten
  <1> HIDE DEF x
  <1>4. Written(st, x, t, state)
    BY <1>1, <1>3, WrittenTwice
  <1> QED
    BY <1>2, <1>3, <1>4 DEF Settled, Written, x, y

-----------------------------------------------------------------------------
(* The steps of the asyncio task.                                          *)

LEMMA DriveStepWrites ==
    ASSUME StoreAssumption, Inv, NEW t \in Tasks, DriveStep(t)
    PROVE  /\ WritesOnly(t, Terminal \cup {"WORKING"})
           /\ drive' = [drive EXCEPT ![t] = drive'[t]] /\ drive'[t] \in {"running", "done"}
           /\ UNCHANGED <<now, running, WaitVars>>
  <1>1. Settled(store) /\ now \in Nat /\ drive \in [Tasks -> DriveStates]
    BY DEF Inv, Settled
  <1>2. CASE DriveStart(t)
    <2>1. WritesOnly(t, Terminal \cup {"WORKING"})
      BY <1>1, <1>2, RecordSettled DEF DriveStart, WritesOnly, Active
    <2> QED
      BY <1>1, <1>2, <2>1 DEF DriveStart
  <1>3. CASE DriveRejects(t)
    <2> DEFINE y == RecordStatus(store, t, "WORKING")
               x == RecordStatus(y, t, "REJECTED")
    <2>1. Settled(y) /\ Written(store, y, t, "WORKING")
      BY <1>1, RecordSettled DEF Active
    <2> HIDE DEF y
    <2>2. Settled(x) /\ Written(y, x, t, "REJECTED")
      BY <1>1, <2>1, RecordSettled DEF Terminal
    <2> HIDE DEF x
    <2>3. Written(store, x, t, "REJECTED")
      BY <2>1, <2>2, WrittenTwice
    <2>4. store' = x
      BY <1>3 DEF DriveRejects, x, y
    <2>5. WritesOnly(t, Terminal \cup {"WORKING"})
      BY <2>2, <2>3, <2>4 DEF WritesOnly, Terminal
    <2> QED
      BY <1>1, <1>3, <2>5 DEF DriveRejects, DriveEnds
  <1>4. CASE DriveFindsNothing(t) \/ DriveNeverRuns(t)
    BY <1>1, <1>4 DEF DriveFindsNothing, DriveNeverRuns, DriveEnds, WritesOnly
  <1>5. ASSUME NEW verdict \in {"COMPLETED", "FAILED"},
               IfLive(t, RecordStatus(AppendData(store, t), t, verdict)), DriveEnds(t)
        PROVE  WritesOnly(t, Terminal \cup {"WORKING"})
    <2>1. CASE t \in Live(store)
      <3>1. StateOf(store, t) # "ABSENT"
        BY <1>1, <2>1, LiveState DEF Settled
      <3>2. verdict \in Terminal
        BY DEF Terminal
      <3> QED
        BY <1>1, <1>5, <2>1, <3>1, <3>2, AppendRecordSettled DEF IfLive, WritesOnly
    <2>2. CASE t \notin Live(store)
      BY <1>1, <1>5, <2>2 DEF IfLive, WritesOnly
    <2> QED
      BY <2>1, <2>2
  <1>6. ASSUME NEW state \in {"FAILED", "CANCELED"},
               IfLive(t, RecordStatus(store, t, state)), DriveEnds(t)
        PROVE  WritesOnly(t, Terminal \cup {"WORKING"})
    <2>1. state \in Terminal
      BY DEF Terminal
    <2> QED
      BY <1>1, <1>6, <2>1, RecordSettled DEF IfLive, WritesOnly
  <1>7. CASE RunnerReturns(t)
    BY <1>1, <1>5, <1>7 DEF RunnerReturns, DriveEnds
  <1>8. CASE RunnerRaises(t)
    BY <1>1, <1>6, <1>8 DEF RunnerRaises, DriveEnds
  <1>9. CASE DriveUnwinds(t)
    BY <1>1, <1>6, <1>9 DEF DriveUnwinds, DriveEnds
  <1> QED
    BY <1>2, <1>3, <1>4, <1>7, <1>8, <1>9 DEF DriveStep

LEMMA CancelWrites ==
    ASSUME StoreAssumption, Inv, NEW t \in Tasks, Cancel(t)
    PROVE  WritesOnly(t, {"CANCELED"})
  <1>1. Settled(store) /\ now \in Nat
    BY DEF Inv, Settled
  <1>2. CASE t \in Live(store) /\ StateOf(store, t) \notin Terminal
    <2>1. store' = RecordStatus(store, t, "CANCELED")
      BY <1>2 DEF Cancel, IfLive, CancelTask
    <2> QED
      BY <1>1, <2>1, RecordSettled DEF WritesOnly, Terminal
  <1>3. CASE ~(t \in Live(store) /\ StateOf(store, t) \notin Terminal)
    <2>1. store' = store
      BY <1>3 DEF Cancel, IfLive, CancelTask
    <2> QED
      BY <1>1, <2>1 DEF WritesOnly
  <1> QED
    BY <1>2, <1>3

LEMMA SubmitCreates ==
    ASSUME StoreAssumption, Inv, NEW t \in Tasks, Submit(t)
    PROVE  Settled(store') /\ Created(store, store', t)
  <1>1. /\ StoreInv(store) /\ TerminalEnds(store) /\ Followed(store) /\ now \in Nat
        /\ StateOf(store, t) = "ABSENT" /\ store' = CreateTask(store, t)
    BY DEF Inv, Submit
  <1> QED
    BY <1>1, CreateTaskCreates DEF Settled

LEMMA StreamSettled ==
    ASSUME StoreAssumption, Inv, NEW s \in Subs, StreamStep(s)
    PROVE  /\ Settled(store') /\ now' = now
           /\ store'.dict = store.dict /\ store'.task = store.task
  BY StreamStepInv, StreamStepFollowed DEF Inv, Settled, StreamKeeps

-----------------------------------------------------------------------------
(* The invariant.                                                          *)

LEMMA InitInv ==
    ASSUME StoreAssumption, Init
    PROVE  Inv
  <1>1. StoreInv(store) /\ TerminalEnds(store) /\ Followed(store) /\ now = 0
    BY InitStoreInv DEF Init, InitStore
  <1> QED
    BY <1>1 DEF Inv, Init, DriveStates

LEMMA SnapshotType ==
    ASSUME StoreInv(store), NEW t \in Tasks
    PROVE  store.task[t] \in TaskValue /\ GetTask(store, t) \in TaskValue \cup {NotFound}
  BY StoreSplit DEF TableOK, GetTask

LEMMA NextInv ==
    ASSUME StoreAssumption, BridgeAssumption, Inv, [Next]_vars
    PROVE  Inv'
  <1>1. Settled(store) /\ StoreInv(store)
    BY DEF Inv, Settled
  <1>2. ASSUME NEW t \in Tasks, TaskStep(t)
        PROVE  Inv'
    <2>1. CASE Submit(t)
      <3>1. Settled(store')
        BY <2>1, SubmitCreates
      <3> QED
        BY <2>1, <3>1 DEF Submit, Inv, Settled, DriveStates, WaitVars
    <2>2. CASE DriveStep(t)
      <3>1. /\ Settled(store') /\ drive' = [drive EXCEPT ![t] = drive'[t]]
            /\ drive'[t] \in {"running", "done"}
            /\ UNCHANGED <<now, running, WaitVars>>
        BY <2>2, DriveStepWrites DEF WritesOnly
      <3> QED
        BY <3>1 DEF Inv, Settled, DriveStates, WaitVars
    <2>3. CASE Cleanup(t)
      BY <2>3 DEF Cleanup, Inv, WaitVars
    <2>4. CASE Cancel(t)
      <3>1. Settled(store')
        BY <2>4, CancelWrites DEF WritesOnly
      <3>2. CancelDrive(t) \in DriveStates
        BY DEF CancelDrive, Inv, DriveStates
      <3> QED
        BY <2>4, <3>1, <3>2 DEF Cancel, Inv, Settled, WaitVars
    <2> QED
      BY <1>2, <2>1, <2>2, <2>3, <2>4 DEF TaskStep
  <1>3. ASSUME NEW s \in Subs, Stream(s)
        PROVE  Inv'
    <2>1. Settled(store') /\ now' = now
      BY <1>3, StreamSettled DEF Stream, StreamStep
    <2> QED
      BY <1>3, <2>1 DEF Stream, Inv, Settled, DriveVars, WaitVars
  <1>4. ASSUME NEW w \in Waiters, WaiterStep(w)
        PROVE  Inv'
    <2>0. w \in Subs
      BY DEF BridgeAssumption
    <2>1. ASSUME NEW t \in Tasks, Wait(w, t)
          PROVE  Inv'
      <3>1. Settled(store') /\ now' = now
        BY <2>0, <2>1, StreamSettled DEF Wait, StreamStep
      <3>2. store.task[t] \in TaskValue
        BY <1>1, SnapshotType
      <3> QED
        BY <2>1, <3>1, <3>2 DEF Wait, Inv, Settled, DriveVars
    <2>2. ASSUME NEW t \in Tasks, WaitsInVain(w, t)
          PROVE  Inv'
      BY <2>2 DEF WaitsInVain, Inv, DriveVars
    <2>3. CASE WaiterWakes(w)
      <3>1. Settled(store') /\ now' = now /\ Streaming(store, w)
        BY <2>0, <2>3, StreamSettled DEF WaiterWakes, StreamStep, Deliver, Return
      <3>2. GetTask(store, store.sub[w].task) \in TaskValue \cup {NotFound}
        BY <1>1, <2>0, <3>1, StoreOKSub, SnapshotType DEF StoreInv, SubOK, Streaming
      <3>3. reply' \in [Waiters -> TaskValue \cup {NoReply, NotFound}]
        BY <2>3, <3>2 DEF WaiterWakes, Inv
      <3> QED
        BY <2>3, <3>1, <3>3 DEF WaiterWakes, Inv, Settled, DriveVars
    <2>4. CASE WaiterGivesUp(w)
      <3>1. Settled(store') /\ now' = now
        BY <2>0, <2>4, StreamSettled DEF WaiterGivesUp, StreamStep
      <3> QED
        BY <2>4, <3>1 DEF WaiterGivesUp, Inv, Settled, DriveVars
    <2> QED
      BY <1>4, <2>1, <2>2, <2>3, <2>4 DEF WaiterStep
  <1>5. CASE TimePasses
    BY <1>5 DEF TimePasses, Tick, Inv, DriveVars, WaitVars
  <1>6. CASE UNCHANGED vars
    BY <1>6 DEF vars, Inv
  <1> QED
    BY <1>2, <1>3, <1>4, <1>5, <1>6 DEF Next

LEMMA InvTypeOK ==
    ASSUME Inv
    PROVE  /\ TypeOK /\ StreamsGapFree /\ ClosedStreamsEnd /\ TerminalStreamsEnd
  BY DEF Inv, StoreInv, TypeOK, StreamsGapFree, ClosedStreamsEnd, TerminalStreamsEnd

LEMMA Invariance == Spec => []Inv
  <1>1. Init => Inv
    BY InitInv, StoreAssumption
  <1>2. Inv /\ [Next]_vars => Inv'
    BY NextInv, StoreAssumption, BridgeAssumption
  <1> QED
    BY <1>1, <1>2, PTL DEF Spec

(* Every variable keeps its type; in particular the table never exceeds    *)
(* max_tasks nor lists a task twice, and no queue exceeds its maxsize.     *)
THEOREM TypeCorrect == Spec => []TypeOK
  BY Invariance, InvTypeOK, PTL

(* Whatever the bridge does, a subscriber that was not warned of a loss    *)
(* has missed nothing.                                                     *)
THEOREM NothingIsMissed == Spec => []StreamsGapFree
  BY Invariance, InvTypeOK, PTL

(* Marking a full subscription closed never strands its consumer.          *)
THEOREM MarkedStreamsEnd == Spec => []ClosedStreamsEnd
  BY Invariance, InvTypeOK, PTL

(* A subscriber of a finished task has its end before it, even when a      *)
(* runner that swallowed its cancellation writes once more.                *)
THEOREM FinishedStreamsEnd == Spec => []TerminalStreamsEnd
  BY Invariance, InvTypeOK, PTL

-----------------------------------------------------------------------------
(* The asyncio task and the record.                                        *)

(* While CancelledError is under way the record already says CANCELED.     *)
Match ==
    /\ DriveMatchesTask
    /\ \A t \in Live(store) : drive[t] = "cancelling" => StateOf(store, t) = "CANCELED"

LEMMA InitMatch ==
    ASSUME Init
    PROVE  Match
  BY DEF Init, InitStore, Match, DriveMatchesTask, Live

(* No step writes a terminal task but to say CANCELED again.               *)
Keeps(t) == \A u \in Tasks : StateOf(store, u) \in Terminal
               => StateOf(store', u) = StateOf(store, u)

LEMMA WrittenKeeps ==
    ASSUME NEW t \in Tasks, NEW state, Written(store, store', t, state),
           StateOf(store, t) \in Terminal => state = StateOf(store, t)
    PROVE  Keeps(t)
  BY DEF Written, Keeps

LEMMA WrittenMatch ==
    ASSUME NEW t \in Tasks, NEW state, StoreInv(store), Match,
           Written(store, store', t, state),
           drive \in [Tasks -> DriveStates], drive' = [drive EXCEPT ![t] = drive'[t]],
           running' = running,
           IF state \in Terminal
           THEN /\ drive'[t] \in {"doomed", "cancelling", "done"}
                /\ drive'[t] = "cancelling" => state = "CANCELED"
           ELSE drive'[t] \in {"scheduled", "running"} /\ t \in running
    PROVE  Match'
  <1>1. Live(store') = Live(store) /\ Live(store) \subseteq Tasks
    BY LiveTasks DEF Written, Live
  <1>2. ASSUME NEW u \in Live(store)
        PROVE  /\ IF StateOf(store', u) \in Terminal
                  THEN drive'[u] \in {"doomed", "cancelling", "done"}
                  ELSE drive'[u] \in {"scheduled", "running"} /\ u \in running'
               /\ drive'[u] = "cancelling" => StateOf(store', u) = "CANCELED"
    <2>1. CASE u = t
      BY <1>1, <2>1 DEF Written
    <2>2. CASE u # t
      BY <1>1, <2>2 DEF Written, Match, DriveMatchesTask
    <2> QED
      BY <2>1, <2>2
  <1> QED
    BY <1>1, <1>2 DEF Match, DriveMatchesTask

LEMMA SameMatch ==
    ASSUME NEW t \in Tasks, StoreInv(store), Match, store' = store,
           drive \in [Tasks -> DriveStates], drive' = [drive EXCEPT ![t] = drive'[t]],
           running' = running,
           t \in Live(store) =>
              IF StateOf(store, t) \in Terminal
              THEN /\ drive'[t] \in {"doomed", "cancelling", "done"}
                   /\ drive'[t] = "cancelling" => StateOf(store, t) = "CANCELED"
              ELSE drive'[t] \in {"scheduled", "running"} /\ t \in running
    PROVE  Match' /\ Keeps(t)
  <1>1. Live(store') = Live(store) /\ Live(store) \subseteq Tasks
    BY LiveTasks
  <1>2. \A u \in Live(store) : u # t => drive'[u] = drive[u]
    BY <1>1
  <1> QED
    BY <1>1, <1>2 DEF Match, DriveMatchesTask, StateOf, Keeps

LEMMA DriveStepMatch ==
    ASSUME StoreAssumption, Inv, Match, NEW t \in Tasks, DriveStep(t)
    PROVE  Match' /\ (~MaySwallow => Keeps(t))
  <1>1. /\ Settled(store) /\ StoreInv(store) /\ now \in Nat
        /\ drive \in [Tasks -> DriveStates]
    BY DEF Inv, Settled
  <1>2. ASSUME NEW state \in Terminal, Written(store, store', t, state), DriveEnds(t),
               ~MaySwallow /\ StateOf(store, t) \in Terminal => state = StateOf(store, t)
        PROVE  Match' /\ (~MaySwallow => Keeps(t))
    BY <1>1, <1>2, WrittenMatch, WrittenKeeps DEF DriveEnds
  <1>3. ASSUME t \notin Live(store), store' = store, DriveEnds(t)
        PROVE  Match' /\ Keeps(t)
    BY <1>1, <1>3, SameMatch DEF DriveEnds
  <1>4. ASSUME t \in Live(store)
        PROVE  /\ drive[t] \in {"scheduled", "running"} => StateOf(store, t) \notin Terminal
               /\ drive[t] = "cancelling" => StateOf(store, t) = "CANCELED"
               /\ drive[t] = "doomed" => StateOf(store, t) \in Terminal
               /\ drive[t] = "scheduled" => t \in running
    BY <1>4 DEF Match, DriveMatchesTask
  <1>5. CASE DriveStart(t)
    <2>1. Written(store, store', t, "WORKING") /\ "WORKING" \notin Terminal
      BY <1>1, <1>5, RecordSettled DEF DriveStart, Active, Terminal
    <2>2. StateOf(store, t) \notin Terminal /\ t \in running
      BY <1>4, <1>5 DEF DriveStart
    <2>3. drive' = [drive EXCEPT ![t] = drive'[t]] /\ drive'[t] = "running"
          /\ running' = running
      BY <1>1, <1>5 DEF DriveStart
    <2> QED
      BY <1>1, <2>1, <2>2, <2>3, WrittenMatch, WrittenKeeps
  <1>6. CASE DriveRejects(t)
    <2> DEFINE y == RecordStatus(store, t, "WORKING")
               x == RecordStatus(y, t, "REJECTED")
    <2>1. Settled(y) /\ Written(store, y, t, "WORKING")
      BY <1>1, RecordSettled DEF Active
    <2> HIDE DEF y
    <2>2. Settled(x) /\ Written(y, x, t, "REJECTED")
      BY <1>1, <2>1, RecordSettled DEF Terminal
    <2> HIDE DEF x
    <2>3. Written(store, x, t, "REJECTED")
      BY <2>1, <2>2, WrittenTwice
    <2>4. store' = x /\ StateOf(store, t) \notin Terminal /\ DriveEnds(t)
      BY <1>4, <1>6 DEF DriveRejects, x, y
    <2> QED
      BY <1>2, <2>3, <2>4 DEF Terminal
  <1>7. CASE DriveFindsNothing(t)
    BY <1>3, <1>7 DEF DriveFindsNothing
  <1>8. CASE DriveNeverRuns(t)
    <2>1. /\ store' = store /\ running' = running
          /\ drive' = [drive EXCEPT ![t] = drive'[t]] /\ drive'[t] = "done"
      BY <1>1, <1>8 DEF DriveNeverRuns, DriveEnds
    <2>2. t \in Live(store) => StateOf(store, t) \in Terminal
      BY <1>4, <1>8 DEF DriveNeverRuns
    <2> QED
      BY <1>1, <2>1, <2>2, SameMatch
  <1>9. CASE RunnerReturns(t)
    <2>1. PICK verdict \in {"COMPLETED", "FAILED"} :
             /\ RunnerCanReturn(t) /\ DriveEnds(t)
             /\ IfLive(t, RecordStatus(AppendData(store, t), t, verdict))
      BY <1>9 DEF RunnerReturns
    <2>2. CASE t \in Live(store)
      <3>1. StateOf(store, t) # "ABSENT" /\ (~MaySwallow => StateOf(store, t) \notin Terminal)
        BY <1>1, <1>4, <2>1, <2>2, LiveState DEF RunnerCanReturn
      <3>2. verdict \in Terminal
        BY DEF Terminal
      <3>3. Written(store, store', t, verdict)
        BY <1>1, <2>1, <2>2, <3>1, <3>2, AppendRecordSettled DEF IfLive
      <3> QED
        BY <1>2, <2>1, <3>1, <3>2, <3>3
    <2> QED
      BY <1>3, <2>1, <2>2 DEF IfLive
  <1>10. CASE RunnerRaises(t)
    <2>1. CASE t \in Live(store)
      <3>1. /\ Written(store, store', t, "FAILED")
            /\ ~MaySwallow => StateOf(store, t) \notin Terminal
        BY <1>1, <1>4, <1>10, <2>1, RecordSettled
           DEF RunnerRaises, RunnerCanReturn, IfLive, Terminal
      <3> QED
        BY <1>2, <1>10, <3>1 DEF RunnerRaises, Terminal
    <2> QED
      BY <1>3, <1>10, <2>1 DEF RunnerRaises, IfLive
  <1>11. CASE DriveUnwinds(t)
    <2>1. CASE t \in Live(store)
      <3>1. Written(store, store', t, "CANCELED") /\ StateOf(store, t) = "CANCELED"
        BY <1>1, <1>4, <1>11, <2>1, RecordSettled DEF DriveUnwinds, IfLive, Terminal
      <3> QED
        BY <1>2, <1>11, <3>1 DEF DriveUnwinds, Terminal
    <2> QED
      BY <1>3, <1>11, <2>1 DEF DriveUnwinds, IfLive
  <1> QED
    BY <1>5, <1>6, <1>7, <1>8, <1>9, <1>10, <1>11 DEF DriveStep

LEMMA CancelMatch ==
    ASSUME StoreAssumption, Inv, Match, NEW t \in Tasks, Cancel(t)
    PROVE  Match' /\ Keeps(t)
  <1>1. /\ Settled(store) /\ StoreInv(store) /\ now \in Nat
        /\ drive \in [Tasks -> DriveStates]
        /\ drive' = [drive EXCEPT ![t] = CancelDrive(t)] /\ running' = running
    BY DEF Inv, Settled, Cancel
  <1>2. drive' = [drive EXCEPT ![t] = drive'[t]] /\ drive'[t] = CancelDrive(t)
    BY <1>1
  <1>3. CASE t \in Live(store) /\ StateOf(store, t) \notin Terminal
    <2>1. Written(store, store', t, "CANCELED") /\ "CANCELED" \in Terminal
      BY <1>1, <1>3, RecordSettled DEF Cancel, IfLive, CancelTask, Terminal
    <2>2. t \in running /\ (drive[t] = "scheduled" \/ drive[t] = "running")
      BY <1>3 DEF Match, DriveMatchesTask
    <2>3. CancelDrive(t) \in {"doomed", "cancelling"}
      <3>1. CASE drive[t] = "scheduled"
        BY <2>2, <3>1 DEF CancelDrive
      <3>2. CASE drive[t] = "running"
        BY <2>2, <3>2 DEF CancelDrive
      <3> QED
        BY <2>2, <3>1, <3>2
    <2> QED
      BY <1>1, <1>2, <1>3, <2>1, <2>3, WrittenMatch, WrittenKeeps
  <1>4. CASE ~(t \in Live(store) /\ StateOf(store, t) \notin Terminal)
    <2>1. store' = store
      BY <1>4 DEF Cancel, IfLive, CancelTask
    <2>2. t \in Live(store) =>
             /\ drive[t] \in {"doomed", "cancelling", "done"}
             /\ drive[t] = "cancelling" => StateOf(store, t) = "CANCELED"
      BY <1>4 DEF Match, DriveMatchesTask
    <2>3. t \in Live(store) => CancelDrive(t) = drive[t]
      BY <2>2 DEF CancelDrive
    <2> QED
      BY <1>1, <1>2, <1>4, <2>1, <2>2, <2>3, SameMatch
  <1> QED
    BY <1>3, <1>4

LEMMA SubmitMatch ==
    ASSUME StoreAssumption, Inv, Match, NEW t \in Tasks, Submit(t)
    PROVE  Match' /\ Keeps(t)
  <1>1. /\ StateOf(store', t) = "SUBMITTED" /\ t \in Live(store')
        /\ Live(store') \subseteq Live(store) \cup {t}
        /\ \A u \in Tasks : u # t => StateOf(store', u) = StateOf(store, u)
        /\ Live(store) \subseteq Tasks
    BY SubmitCreates, LiveTasks DEF Inv, Created
  <1>2. /\ drive \in [Tasks -> DriveStates] /\ StateOf(store, t) = "ABSENT"
        /\ drive' = [drive EXCEPT ![t] = "scheduled"] /\ running' = running \cup {t}
    BY DEF Inv, Submit
  <1>3. "SUBMITTED" \notin Terminal /\ "ABSENT" \notin Terminal
    BY DEF Terminal
  <1>4. ASSUME NEW u \in Live(store')
        PROVE  /\ IF StateOf(store', u) \in Terminal
                  THEN drive'[u] \in {"doomed", "cancelling", "done"}
                  ELSE drive'[u] \in {"scheduled", "running"} /\ u \in running'
               /\ drive'[u] = "cancelling" => StateOf(store', u) = "CANCELED"
    <2>1. CASE u = t
      BY <1>1, <1>2, <1>3, <2>1
    <2>2. CASE u # t
      <3>1. u \in Live(store) /\ u \in Tasks
        BY <1>1, <2>2
      <3>2. drive'[u] = drive[u] /\ StateOf(store', u) = StateOf(store, u)
        BY <1>1, <1>2, <2>2, <3>1
      <3> QED
        BY <1>2, <3>1, <3>2 DEF Match, DriveMatchesTask
    <2> QED
      BY <2>1, <2>2
  <1>5. Match'
    BY <1>4 DEF Match, DriveMatchesTask
  <1>6. Keeps(t)
    BY <1>1, <1>2, <1>3 DEF Keeps
  <1> QED
    BY <1>5, <1>6

(* TerminalIsFinal of one step.                                            *)
TerminalStays == \A t \in Tasks : StateOf(store, t) \in Terminal
                    => StateOf(store', t) = StateOf(store, t)

LEMMA NextMatch ==
    ASSUME StoreAssumption, BridgeAssumption, Inv, Match, [Next]_vars
    PROVE  Match' /\ (~MaySwallow => TerminalStays)
  <1>1. ASSUME NEW t \in Tasks, TaskStep(t)
        PROVE  Match' /\ (~MaySwallow => Keeps(t))
    <2>1. CASE Cleanup(t)
      <3>1. /\ store' = store /\ drive' = drive /\ running' = running \ {t}
            /\ drive[t] = "done" /\ Live(store) \subseteq Tasks
        BY <2>1, LiveTasks DEF Cleanup, Inv
      <3>2. t \in Live(store) => StateOf(store, t) \in Terminal
        BY <3>1 DEF Match, DriveMatchesTask
      <3> QED
        BY <3>1, <3>2 DEF Match, DriveMatchesTask, Keeps
    <2> QED
      BY <1>1, <2>1, SubmitMatch, DriveStepMatch, CancelMatch DEF TaskStep
  <1>2. ASSUME store'.dict = store.dict, store'.task = store.task, UNCHANGED DriveVars
        PROVE  Match' /\ TerminalStays
    BY <1>2 DEF Match, DriveMatchesTask, Live, StateOf, DriveVars, TerminalStays
  <1>3. ASSUME NEW s \in Subs, Stream(s)
        PROVE  Match' /\ TerminalStays
    BY <1>2, <1>3, StreamSettled DEF Stream, StreamStep
  <1>4. ASSUME NEW w \in Waiters, WaiterStep(w)
        PROVE  Match' /\ TerminalStays
    <2>1. w \in Subs
      BY DEF BridgeAssumption
    <2>2. \/ StreamStep(w) /\ UNCHANGED DriveVars
          \/ UNCHANGED <<store, DriveVars>>
      BY <1>4 DEF WaiterStep, Wait, WaitsInVain, WaiterWakes, WaiterGivesUp, StreamStep
    <2> QED
      BY <1>2, <2>1, <2>2, StreamSettled
  <1>5. CASE TimePasses \/ UNCHANGED vars
    BY <1>2, <1>5 DEF TimePasses, Tick, vars, DriveVars
  <1> QED
    BY <1>1, <1>3, <1>4, <1>5 DEF Next, Keeps, TerminalStays

LEMMA MatchInvariance == Spec => [](Inv /\ Match)
  <1>1. Init => Inv /\ Match
    BY InitInv, InitMatch, StoreAssumption
  <1>2. Inv /\ Match /\ [Next]_vars => (Inv /\ Match)'
    BY NextInv, NextMatch, StoreAssumption, BridgeAssumption
  <1> QED
    BY <1>1, <1>2, PTL DEF Spec

(* A task in the table that is not terminal has somebody working on it,    *)
(* whom tasks:cancel can still reach; a terminal one has nobody but a      *)
(* runner on its way out.  So it is even if runners swallow cancellations. *)
THEOREM DriveAgrees == Spec => []DriveMatchesTask
  <1>1. Match => DriveMatchesTask
    BY DEF Match
  <1> QED
    BY <1>1, MatchInvariance, PTL

(* record_status asks nothing of the state it overwrites, and yet no       *)
(* interleaving of the bridge takes a task out of a terminal state.        *)
THEOREM TerminalIsForever ==
    ASSUME ~MaySwallow
    PROVE  Spec => TerminalIsFinal
  <1>1. Inv /\ Match /\ [Next]_vars
          => [\A t \in Tasks : StateOf(store, t) \in Terminal
                => StateOf(store', t) = StateOf(store, t)]_store
    BY NextMatch, StoreAssumption, BridgeAssumption DEF TerminalStays
  <1> QED
    BY <1>1, MatchInvariance, PTL DEF Spec, TerminalIsFinal

-----------------------------------------------------------------------------
(* The life cycle a client relies on.                                      *)

(* How far the asyncio task has come is what its record says.              *)
Progress == \A t \in Live(store) :
    /\ drive[t] = "scheduled" => StateOf(store, t) = "SUBMITTED"
    /\ drive[t] = "running" => StateOf(store, t) = "WORKING"

(* The refinement mapping.                                                 *)
PhaseNow == [t \in Tasks |-> PhaseOf(t)]

LEMMA PhaseOfLive ==
    ASSUME NEW t \in Tasks, t \in Live(store)
    PROVE  PhaseNow[t] = StateOf(store, t)
  BY DEF PhaseNow, PhaseOf

LEMMA PresentIsLive ==
    ASSUME StoreInv(store)
    PROVE  Promise!Present = Live(store)
  <1>1. /\ Live(store) \subseteq Tasks
        /\ \A t \in Live(store) : StateOf(store, t) \notin {"ABSENT", "GONE"}
    <2>1. \A t \in Tasks : store.task[t].state \in Terminal \cup Active \cup {"ABSENT"}
      BY StoreSplit DEF TableOK, TaskValue
    <2> QED
      BY <2>1, LiveState, LiveTasks DEF StateOf, Terminal, Active
  <1> QED
    BY <1>1 DEF Promise!Present, Promise!Outside, PhaseOf

(* The instance has a Cardinality of its own.                              *)
LEMMA SameCardinality ==
    ASSUME NEW S
    PROVE  Promise!Cardinality(S) = Cardinality(S)
  BY DEF Promise!Cardinality, Cardinality

(* Writing a task in the table moves that task's phase and no other.       *)
LEMMA WrittenPhase ==
    ASSUME NEW t \in Tasks, NEW state, state # "ABSENT", StoreInv(store), Progress,
           t \in Live(store), Written(store, store', t, state),
           drive \in [Tasks -> DriveStates], drive' = [drive EXCEPT ![t] = drive'[t]],
           drive'[t] # "scheduled", drive'[t] = "running" => state = "WORKING"
    PROVE  Progress' /\ PhaseNow' = [PhaseNow EXCEPT ![t] = state]
  <1>1. /\ Live(store') = Live(store) /\ Live(store) \subseteq Tasks
        /\ \A u \in Tasks : StateOf(store', u) = IF u = t THEN state ELSE StateOf(store, u)
    BY LiveTasks DEF Written, Live
  <1>2. \A u \in Tasks : u # t => drive'[u] = drive[u]
    OBVIOUS
  <1>3. Progress'
    BY <1>1, <1>2 DEF Progress
  <1>4. PhaseNow' = [PhaseNow EXCEPT ![t] = state]
    BY <1>1 DEF PhaseNow, PhaseOf
  <1> QED
    BY <1>3, <1>4

LEMMA SamePhase ==
    ASSUME store'.dict = store.dict, store'.task = store.task, StoreInv(store), Progress,
           \A t \in Live(store) : drive'[t] \in {"scheduled", "running"} => drive'[t] = drive[t]
    PROVE  Progress' /\ PhaseNow' = PhaseNow
  BY DEF Progress, PhaseNow, PhaseOf, Live, StateOf

(* A step of the bridge as a client sees it.                               *)
Walks == Progress' /\ (Promise!LifecycleNext \/ PhaseNow' = PhaseNow)

LEMMA DriveStepWalks ==
    ASSUME StoreAssumption, ~MaySwallow, Inv, Match, Progress, NEW t \in Tasks, DriveStep(t)
    PROVE  Walks
  <1>1. /\ Settled(store) /\ StoreInv(store) /\ now \in Nat
        /\ drive \in [Tasks -> DriveStates]
    BY DEF Inv, Settled
  <1>2. ASSUME t \in Live(store), NEW state \in Terminal \cup Active,
               Written(store, store', t, state),
               drive' = [drive EXCEPT ![t] = drive'[t]],
               drive'[t] # "scheduled", drive'[t] = "running" => state = "WORKING"
        PROVE  Progress' /\ PhaseNow' = [PhaseNow EXCEPT ![t] = state]
    BY <1>1, <1>2, WrittenPhase DEF Terminal, Active
  <1>3. ASSUME store' = store, DriveEnds(t)
        PROVE  Walks
    <2>1. \A u \in Live(store) : drive'[u] \in {"scheduled", "running"} => drive'[u] = drive[u]
      BY <1>1, <1>3, LiveTasks DEF DriveEnds
    <2> QED
      BY <1>1, <1>3, <2>1, SamePhase DEF Walks
  <1>4. ASSUME DriveEnds(t)
        PROVE  drive' = [drive EXCEPT ![t] = drive'[t]] /\ drive'[t] = "done"
    BY <1>1, <1>4 DEF DriveEnds
  <1>5. CASE DriveStart(t)
    <2>1. Written(store, store', t, "WORKING") /\ t \in Live(store)
      BY <1>1, <1>5, RecordSettled DEF DriveStart, Active
    <2>2. drive' = [drive EXCEPT ![t] = drive'[t]] /\ drive'[t] = "running"
      BY <1>1, <1>5 DEF DriveStart
    <2>3. Progress' /\ PhaseNow' = [PhaseNow EXCEPT ![t] = "WORKING"]
      BY <1>2, <2>1, <2>2 DEF Active
    <2>4. PhaseNow[t] = "SUBMITTED"
      BY <1>5, <2>1, PhaseOfLive DEF DriveStart, Progress
    <2>5. Promise!Begin(t)
      BY <2>3, <2>4 DEF Promise!Begin, PhaseNow
    <2> QED
      BY <2>3, <2>5 DEF Walks, Promise!LifecycleNext
  <1>6. CASE DriveRejects(t)
    <2> DEFINE y == RecordStatus(store, t, "WORKING")
               x == RecordStatus(y, t, "REJECTED")
    <2>1. Settled(y) /\ Written(store, y, t, "WORKING")
      BY <1>1, RecordSettled DEF Active
    <2> HIDE DEF y
    <2>2. Settled(x) /\ Written(y, x, t, "REJECTED")
      BY <1>1, <2>1, RecordSettled DEF Terminal
    <2> HIDE DEF x
    <2>3. Written(store, x, t, "REJECTED")
      BY <2>1, <2>2, WrittenTwice
    <2>4. store' = x /\ t \in Live(store) /\ DriveEnds(t)
      BY <1>6 DEF DriveRejects, x, y
    <2>5. Progress' /\ PhaseNow' = [PhaseNow EXCEPT ![t] = "REJECTED"]
      BY <1>2, <1>4, <2>3, <2>4 DEF Terminal
    <2>6. PhaseNow[t] = "SUBMITTED"
      BY <1>6, <2>4, PhaseOfLive DEF DriveRejects, Progress
    <2>7. Promise!TurnDown(t)
      BY <2>5, <2>6 DEF Promise!TurnDown, PhaseNow
    <2> QED
      BY <2>5, <2>7 DEF Walks, Promise!LifecycleNext
  <1>7. CASE DriveFindsNothing(t) \/ DriveNeverRuns(t)
    BY <1>3, <1>7 DEF DriveFindsNothing, DriveNeverRuns
  <1>8. ASSUME RunnerCanReturn(t), t \in Live(store), DriveEnds(t),
               NEW verdict \in {"COMPLETED", "FAILED"},
               Written(store, store', t, verdict)
        PROVE  Walks
    <2>1. PhaseNow[t] = "WORKING"
      BY <1>8, PhaseOfLive DEF RunnerCanReturn, Progress
    <2>2. Progress' /\ PhaseNow' = [PhaseNow EXCEPT ![t] = verdict]
      BY <1>2, <1>4, <1>8 DEF Terminal
    <2>3. Promise!Conclude(t)
      BY <2>1, <2>2 DEF Promise!Conclude, PhaseNow
    <2> QED
      BY <2>2, <2>3 DEF Walks, Promise!LifecycleNext
  <1>9. CASE RunnerReturns(t)
    <2>1. PICK verdict \in {"COMPLETED", "FAILED"} :
             /\ RunnerCanReturn(t) /\ DriveEnds(t)
             /\ IfLive(t, RecordStatus(AppendData(store, t), t, verdict))
      BY <1>9 DEF RunnerReturns
    <2>2. CASE t \in Live(store)
      <3>1. StateOf(store, t) # "ABSENT" /\ verdict \in Terminal
        BY <1>1, <2>2, LiveState DEF Terminal
      <3>2. Written(store, store', t, verdict)
        BY <1>1, <2>1, <2>2, <3>1, AppendRecordSettled DEF IfLive
      <3> QED
        BY <1>8, <2>1, <2>2, <3>2
    <2> QED
      BY <1>3, <2>1, <2>2 DEF IfLive
  <1>10. CASE RunnerRaises(t)
    <2>1. CASE t \in Live(store)
      <3>1. Written(store, store', t, "FAILED")
        BY <1>1, <1>10, <2>1, RecordSettled DEF RunnerRaises, IfLive, Terminal
      <3> QED
        BY <1>8, <1>10, <2>1, <3>1 DEF RunnerRaises
    <2> QED
      BY <1>3, <1>10, <2>1 DEF RunnerRaises, IfLive
  <1>11. CASE DriveUnwinds(t)
    <2>1. CASE t \in Live(store)
      <3>1. Written(store, store', t, "CANCELED") /\ StateOf(store, t) = "CANCELED"
        BY <1>1, <1>11, <2>1, RecordSettled
           DEF DriveUnwinds, IfLive, Terminal, Match
      <3>2. Progress' /\ PhaseNow' = [PhaseNow EXCEPT ![t] = "CANCELED"]
        BY <1>2, <1>4, <1>11, <2>1, <3>1 DEF DriveUnwinds, Terminal
      <3>3. [PhaseNow EXCEPT ![t] = "CANCELED"] = PhaseNow
        BY <2>1, <3>1 DEF PhaseNow, PhaseOf
      <3> QED
        BY <3>2, <3>3 DEF Walks
    <2> QED
      BY <1>3, <1>11, <2>1 DEF DriveUnwinds, IfLive
  <1> QED
    BY <1>5, <1>6, <1>7, <1>9, <1>10, <1>11 DEF DriveStep

LEMMA CancelWalks ==
    ASSUME StoreAssumption, Inv, Match, Progress, NEW t \in Tasks, Cancel(t)
    PROVE  Walks
  <1>1. /\ Settled(store) /\ StoreInv(store) /\ now \in Nat
        /\ drive \in [Tasks -> DriveStates] /\ Live(store) \subseteq Tasks
        /\ drive' = [drive EXCEPT ![t] = CancelDrive(t)]
    BY LiveTasks DEF Inv, Settled, Cancel
  <1>2. drive' = [drive EXCEPT ![t] = drive'[t]] /\ drive'[t] = CancelDrive(t)
    BY <1>1
  <1>3. CASE t \in Live(store) /\ StateOf(store, t) \notin Terminal
    <2>1. Written(store, store', t, "CANCELED")
      BY <1>1, <1>3, RecordSettled DEF Cancel, IfLive, CancelTask, Terminal
    <2>2. t \in running /\ (drive[t] = "scheduled" \/ drive[t] = "running")
      BY <1>3 DEF Match, DriveMatchesTask
    <2>3. CancelDrive(t) \in {"doomed", "cancelling"}
      <3>1. CASE drive[t] = "scheduled"
        BY <2>2, <3>1 DEF CancelDrive
      <3>2. CASE drive[t] = "running"
        BY <2>2, <3>2 DEF CancelDrive
      <3> QED
        BY <2>2, <3>1, <3>2
    <2>4. Progress' /\ PhaseNow' = [PhaseNow EXCEPT ![t] = "CANCELED"]
      BY <1>1, <1>2, <1>3, <2>1, <2>3, WrittenPhase
    <2>5. PhaseNow[t] \in {"SUBMITTED", "WORKING"}
      BY <1>3, <2>2, PhaseOfLive DEF Progress
    <2>6. Promise!CallOff(t)
      BY <2>4, <2>5 DEF Promise!CallOff, PhaseNow
    <2> QED
      BY <2>4, <2>6 DEF Walks, Promise!LifecycleNext
  <1>4. CASE ~(t \in Live(store) /\ StateOf(store, t) \notin Terminal)
    <2>1. store' = store
      BY <1>4 DEF Cancel, IfLive, CancelTask
    <2>2. t \in Live(store) => drive[t] \in {"doomed", "cancelling", "done"}
      BY <1>4 DEF Match, DriveMatchesTask
    <2>3. t \in Live(store) => CancelDrive(t) = drive[t]
      BY <2>2 DEF CancelDrive
    <2>4. \A u \in Live(store) : drive'[u] = drive[u]
      BY <1>1, <2>3
    <2> QED
      BY <1>1, <2>1, <2>4, SamePhase DEF Walks
  <1> QED
    BY <1>3, <1>4

LEMMA SubmitWalks ==
    ASSUME StoreAssumption, Inv, Progress, NEW t \in Tasks, Submit(t)
    PROVE  Walks
  <1>1. /\ StoreInv(store) /\ StateOf(store, t) = "ABSENT" /\ t \notin Live(store)
        /\ store' = CreateTask(store, t) /\ drive \in [Tasks -> DriveStates]
        /\ drive' = [drive EXCEPT ![t] = "scheduled"] /\ Live(store) \subseteq Tasks
    BY LiveState, LiveTasks DEF Inv, Submit
  <1>2. /\ StateOf(store', t) = "SUBMITTED" /\ t \in Live(store')
        /\ Live(store') \subseteq Live(store) \cup {t}
        /\ \A u \in Tasks : u # t => StateOf(store', u) = StateOf(store, u)
    BY SubmitCreates DEF Created
  <1>3. Progress'
    BY <1>1, <1>2 DEF Progress
  <1>4. PhaseNow[t] = "ABSENT" /\ Promise!Present = Live(store)
    BY <1>1, PresentIsLive DEF PhaseNow, PhaseOf
  <1>5. CASE Cardinality(Live(store)) < MaxTasks /\ Live(store') = Live(store) \cup {t}
    <2>1. PhaseNow' = [PhaseNow EXCEPT ![t] = "SUBMITTED"]
      BY <1>2, <1>5 DEF PhaseNow, PhaseOf
    <2>2. Promise!Admit(t)
      BY <1>4, <1>5, <2>1, SameCardinality DEF Promise!Admit, PhaseNow
    <2> QED
      BY <1>3, <2>2 DEF Walks, Promise!LifecycleNext
  <1>6. ASSUME Cardinality(Live(store)) = MaxTasks, NEW victim \in Live(store),
               Live(store') = (Live(store) \ {victim}) \cup {t}
        PROVE  Walks
    <2>1. victim \in Tasks /\ victim # t /\ StateOf(store, victim) # "ABSENT"
      BY <1>1, LiveState
    <2>2. PhaseNow' = [PhaseNow EXCEPT ![t] = "SUBMITTED", ![victim] = "GONE"]
      <3>1. \A u \in Tasks : (PhaseOf(u))' = IF u = t THEN "SUBMITTED"
                                ELSE IF u = victim THEN "GONE" ELSE PhaseOf(u)
        BY <1>2, <1>6, <2>1 DEF PhaseOf
      <3> QED
        BY <2>1, <3>1 DEF PhaseNow
    <2>3. Promise!Admit(t)
      BY <1>4, <1>6, <2>2, SameCardinality DEF Promise!Admit, PhaseNow
    <2> QED
      BY <1>3, <2>3 DEF Walks, Promise!LifecycleNext
  <1> QED
    BY <1>1, <1>5, <1>6, CreateTaskEvicts, StoreAssumption

LEMMA NextWalks ==
    ASSUME StoreAssumption, BridgeAssumption, ~MaySwallow, Inv, Match, Progress, [Next]_vars
    PROVE  Walks
  <1>1. StoreInv(store) /\ drive \in [Tasks -> DriveStates] /\ Live(store) \subseteq Tasks
    BY LiveTasks DEF Inv
  <1>2. ASSUME store'.dict = store.dict, store'.task = store.task, drive' = drive
        PROVE  Walks
    BY <1>1, <1>2, SamePhase DEF Walks
  <1>3. ASSUME NEW t \in Tasks, TaskStep(t)
        PROVE  Walks
    <2>1. CASE Cleanup(t)
      BY <1>2, <2>1 DEF Cleanup
    <2> QED
      BY <1>3, <2>1, SubmitWalks, DriveStepWalks, CancelWalks DEF TaskStep
  <1>4. ASSUME NEW s \in Subs, Stream(s)
        PROVE  Walks
    BY <1>2, <1>4, StreamSettled DEF Stream, StreamStep, DriveVars
  <1>5. ASSUME NEW w \in Waiters, WaiterStep(w)
        PROVE  Walks
    <2>1. w \in Subs
      BY DEF BridgeAssumption
    <2>2. \/ StreamStep(w) /\ UNCHANGED DriveVars
          \/ UNCHANGED <<store, DriveVars>>
      BY <1>5 DEF WaiterStep, Wait, WaitsInVain, WaiterWakes, WaiterGivesUp, StreamStep
    <2> QED
      BY <1>2, <2>1, <2>2, StreamSettled DEF DriveVars
  <1>6. CASE TimePasses \/ UNCHANGED vars
    BY <1>2, <1>6 DEF TimePasses, Tick, vars, DriveVars
  <1> QED
    BY <1>3, <1>4, <1>5, <1>6 DEF Next

(* Through the table a client sees every task walk once through its life   *)
(* cycle, and only a submission that finds the table full takes one away:  *)
(* the bridge implements TaskLifecycle.                                    *)
THEOREM ImplementsLifecycle ==
    ASSUME ~MaySwallow
    PROVE  Spec => FollowsLifecycle
  <1>1. Init => Progress /\ Promise!LifecycleInit
    <2> SUFFICES ASSUME Init
                 PROVE  Progress /\ Promise!LifecycleInit
      OBVIOUS
    <2>1. Live(store) = {} /\ \A t \in Tasks : StateOf(store, t) = "ABSENT"
      BY DEF Init, InitStore, Live, StateOf, NoRecord
    <2> QED
      BY <2>1 DEF Progress, Promise!LifecycleInit, PhaseOf
  <1>2. Inv /\ Match /\ Progress /\ [Next]_vars
          => Progress' /\ [Promise!LifecycleNext]_PhaseNow
    BY NextWalks, StoreAssumption, BridgeAssumption DEF Walks
  <1>3. Inv /\ Match /\ Progress /\ [Next]_vars
          => [Promise!LifecycleNext]_([t \in Tasks |-> PhaseOf(t)])
    BY <1>2 DEF PhaseNow
  <1> QED
    BY <1>1, <1>2, <1>3, MatchInvariance, PTL
       DEF Spec, FollowsLifecycle, Promise!Lifecycle

-----------------------------------------------------------------------------
(* What blocking calls answer.                                             *)

(* A task whose _drive has not begun is not terminal, whatever runners do: *)
(* nobody but a cancellation writes it, and that dooms the _drive.         *)
Fresh == \A t \in Live(store) :
    drive[t] = "scheduled" => StateOf(store, t) \notin Terminal /\ t \in running

LEMMA NextFresh ==
    ASSUME StoreAssumption, BridgeAssumption, Inv, Fresh, [Next]_vars
    PROVE  Fresh'
  <1>1. /\ StoreInv(store) /\ drive \in [Tasks -> DriveStates]
        /\ Live(store) \subseteq Tasks
    BY LiveTasks DEF Inv
  <1>2. ASSUME store'.dict = store.dict, store'.task = store.task, UNCHANGED DriveVars
        PROVE  Fresh'
    BY <1>2 DEF Fresh, Live, StateOf, DriveVars
  <1>3. ASSUME NEW t \in Tasks, NEW states, WritesOnly(t, states), running' = running,
               drive' = [drive EXCEPT ![t] = drive'[t]],
               t \in Live(store) => drive'[t] # "scheduled"
        PROVE  Fresh'
    <2>1. /\ Live(store') = Live(store)
          /\ \A u \in Tasks : u # t => StateOf(store', u) = StateOf(store, u)
      BY <1>3 DEF WritesOnly, Written, Live
    <2>2. \A u \in Tasks : u # t => drive'[u] = drive[u]
      BY <1>1, <1>3
    <2> QED
      BY <1>1, <1>3, <2>1, <2>2 DEF Fresh
  <1>4. ASSUME NEW t \in Tasks, TaskStep(t)
        PROVE  Fresh'
    <2>1. CASE Submit(t)
      <3>1. /\ StateOf(store', t) = "SUBMITTED" /\ "SUBMITTED" \notin Terminal
            /\ Live(store') \subseteq Live(store) \cup {t}
            /\ \A u \in Tasks : u # t => StateOf(store', u) = StateOf(store, u)
        BY <2>1, SubmitCreates DEF Created, Terminal
      <3>2. /\ drive' = [drive EXCEPT ![t] = "scheduled"]
            /\ running' = running \cup {t}
        BY <2>1 DEF Submit
      <3> QED
        BY <1>1, <3>1, <3>2 DEF Fresh
    <2>2. CASE DriveStep(t)
      BY <1>3, <2>2, DriveStepWrites
    <2>3. CASE Cleanup(t)
      BY <1>1, <2>3 DEF Cleanup, Fresh
    <2>4. CASE Cancel(t)
      <3>1. /\ drive' = [drive EXCEPT ![t] = drive'[t]] /\ drive'[t] = CancelDrive(t)
            /\ running' = running
        BY <1>1, <2>4 DEF Cancel
      <3>2. t \in Live(store) => CancelDrive(t) # "scheduled"
        BY DEF CancelDrive, Fresh
      <3> QED
        BY <1>3, <2>4, <3>1, <3>2, CancelWrites
    <2> QED
      BY <1>4, <2>1, <2>2, <2>3, <2>4 DEF TaskStep
  <1>5. ASSUME NEW s \in Subs, Stream(s)
        PROVE  Fresh'
    BY <1>2, <1>5, StreamSettled DEF Stream, StreamStep
  <1>6. ASSUME NEW w \in Waiters, WaiterStep(w)
        PROVE  Fresh'
    <2>1. w \in Subs
      BY DEF BridgeAssumption
    <2>2. \/ StreamStep(w) /\ UNCHANGED DriveVars
          \/ UNCHANGED <<store, DriveVars>>
      BY <1>6 DEF WaiterStep, Wait, WaitsInVain, WaiterWakes, WaiterGivesUp, StreamStep
    <2> QED
      BY <1>2, <2>1, <2>2, StreamSettled
  <1>7. CASE TimePasses \/ UNCHANGED vars
    BY <1>2, <1>7 DEF TimePasses, Tick, vars, DriveVars
  <1> QED
    BY <1>4, <1>5, <1>6, <1>7 DEF Next

(* A step on t ends no stream but by ending t, and no subscription changes *)
(* its phase.                                                              *)
Quiet ==
    /\ EndsHonestly(store')
    /\ \A s \in Subs : store'.sub[s].phase = store.sub[s].phase

LEMMA RecordQuiet ==
    ASSUME StoreAssumption, Inv, EndsHonestly(store), NEW t \in Tasks,
           NEW state \in Terminal \cup Active,
           StateOf(store, t) \in Terminal => state \in Terminal,
           store' = RecordStatus(store, t, state)
    PROVE  Quiet
  BY RecordHonestly, RecordWritten DEF Inv, Quiet, Written

LEMMA TaskStepQuiet ==
    ASSUME StoreAssumption, Inv, Fresh, EndsHonestly(store),
           NEW t \in Tasks, TaskStep(t)
    PROVE  Quiet
  <1>1. StoreInv(store) /\ Settled(store) /\ Followed(store) /\ now \in Nat
    BY DEF Inv, Settled
  <1>2. ASSUME store' = store
        PROVE  Quiet
    BY <1>2 DEF Quiet
  <1>3. ASSUME NEW state \in {"FAILED", "CANCELED"}, IfLive(t, RecordStatus(store, t, state))
        PROVE  Quiet
    <2>1. state \in Terminal
      BY DEF Terminal
    <2> QED
      BY <1>2, <1>3, <2>1, RecordQuiet DEF IfLive
  <1>4. CASE Submit(t)
    <2>1. StateOf(store, t) = "ABSENT" /\ store' = CreateTask(store, t)
      BY <1>4 DEF Submit
    <2>2. store'.sub = store.sub
      <3>1. \A s \in Subs : ~Follows(store.sub[s], t)
        BY <1>1, <2>1 DEF Followed, Follows, Streaming
      <3> QED
        BY <1>1, <2>1, <3>1, CreateTaskInv DEF StateOf
    <2> QED
      BY <1>1, <2>1, <2>2, CreateHonestly DEF Quiet
  <1>5. CASE DriveStart(t)
    <2>1. StateOf(store, t) \notin Terminal
      BY <1>5 DEF DriveStart, Fresh
    <2> QED
      BY <1>5, <2>1, RecordQuiet DEF DriveStart, Active
  <1>6. CASE DriveRejects(t)
    <2> DEFINE y == RecordStatus(store, t, "WORKING")
               x == RecordStatus(y, t, "REJECTED")
    <2>1. StateOf(store, t) \notin Terminal
      BY <1>6 DEF DriveRejects, Fresh
    <2>2. Settled(y) /\ Written(store, y, t, "WORKING") /\ EndsHonestly(y)
      BY <1>1, <2>1, RecordSettled, RecordHonestly DEF Active
    <2> HIDE DEF y
    <2>3. Written(y, x, t, "REJECTED") /\ EndsHonestly(x)
      BY <1>1, <2>2, RecordSettled, RecordHonestly DEF Terminal, Settled
    <2> HIDE DEF x
    <2>4. store' = x
      BY <1>6 DEF DriveRejects, x, y
    <2> QED
      BY <2>2, <2>3, <2>4 DEF Quiet, Written
  <1>7. CASE RunnerReturns(t)
    <2>1. PICK verdict \in {"COMPLETED", "FAILED"} :
             IfLive(t, RecordStatus(AppendData(store, t), t, verdict))
      BY <1>7 DEF RunnerReturns
    <2> DEFINE y == AppendData(store, t)
               x == RecordStatus(y, t, verdict)
    <2>2. CASE t \in Live(store)
      <3>1. StateOf(store, t) # "ABSENT" /\ verdict \in Terminal
        BY <1>1, <2>2, LiveState DEF Terminal
      <3>2. Written(store, y, t, StateOf(store, t)) /\ StoreInv(y) /\ EndsHonestly(y)
        BY <1>1, <3>1, AppendWritten, AppendHonestly DEF Written
      <3> HIDE DEF y
      <3>3. Written(y, x, t, verdict) /\ EndsHonestly(x)
        BY <1>1, <3>1, <3>2, RecordWritten, RecordHonestly
      <3> HIDE DEF x
      <3>4. store' = x
        BY <2>1, <2>2 DEF IfLive, x, y
      <3> QED
        BY <3>2, <3>3, <3>4 DEF Quiet, Written
    <2> QED
      BY <1>2, <2>1, <2>2 DEF IfLive
  <1>8. CASE Cancel(t)
    BY <1>2, <1>3, <1>8 DEF Cancel, CancelTask, IfLive
  <1>9. CASE RunnerRaises(t) \/ DriveUnwinds(t)
    BY <1>3, <1>9 DEF RunnerRaises, DriveUnwinds
  <1>10. CASE DriveFindsNothing(t) \/ DriveNeverRuns(t) \/ Cleanup(t)
    BY <1>2, <1>10 DEF DriveFindsNothing, DriveNeverRuns, Cleanup
  <1> QED
    BY <1>4, <1>5, <1>6, <1>7, <1>8, <1>9, <1>10 DEF TaskStep, DriveStep

(* The answer of w is final, unless w ran out of its budget.               *)
AnswerOK(w) ==
    reply[w] \notin {NoReply, NotFound} /\ store.sub[w].phase # "left"
        => reply[w].state \in Terminal

LEMMA WaiterStepAnswers ==
    ASSUME StoreAssumption, BridgeAssumption, Inv, EndsHonestly(store),
           BlockingReplyIsFinal, NEW w \in Waiters, WaiterStep(w)
    PROVE  EndsHonestly(store') /\ BlockingReplyIsFinal'
  <1>1. /\ w \in Subs /\ StoreInv(store) /\ Waiters \subseteq Subs
        /\ reply \in [Waiters -> TaskValue \cup {NoReply, NotFound}]
    BY DEF BridgeAssumption, Inv
  <1>2. StreamStep(w) \/ store' = store
    BY DEF WaiterStep, Wait, WaitsInVain, WaiterWakes, WaiterGivesUp, StreamStep
  <1>3. EndsHonestly(store')
    BY <1>1, <1>2, StreamStepHonestly
  <1>4. \A u \in Subs : u # w => store'.sub[u] = store.sub[u]
    BY <1>1, <1>2, StreamStepInv DEF StreamKeeps
  <1>5. ASSUME reply' = [reply EXCEPT ![w] = reply'[w]], AnswerOK(w)'
        PROVE  BlockingReplyIsFinal'
    BY <1>1, <1>4, <1>5 DEF BlockingReplyIsFinal, AnswerOK
  <1>6. ASSUME Streaming(store, w), Ends(store.sub[w])
        PROVE  LET a == GetTask(store, store.sub[w].task)
               IN a = NotFound \/ a.state \in Terminal
    BY <1>1, <1>6 DEF EndsHonestly, GetTask, StateOf
  <1>7. ASSUME NEW t \in Tasks, Wait(w, t)
        PROVE  BlockingReplyIsFinal'
    <2>1. /\ reply' = [reply EXCEPT ![w] = reply'[w]]
          /\ reply'[w] = NoReply \/ reply'[w].state \in Terminal
      BY <1>1, <1>7 DEF Wait, StateOf
    <2>2. AnswerOK(w)'
      BY <2>1 DEF AnswerOK
    <2> QED
      BY <1>5, <2>1, <2>2
  <1>8. ASSUME NEW t \in Tasks, WaitsInVain(w, t)
        PROVE  BlockingReplyIsFinal'
    <2>1. reply' = [reply EXCEPT ![w] = reply'[w]] /\ reply'[w] = NotFound
      BY <1>1, <1>8 DEF WaitsInVain
    <2> QED
      BY <1>5, <2>1 DEF AnswerOK
  <1>9. CASE WaiterWakes(w)
    <2> DEFINE a == GetTask(store, store.sub[w].task)
    <2>1. CASE Deliver(w)
      <3> DEFINE b == IF store'.sub[w].fin THEN a ELSE reply[w]
      <3>1. /\ reply' = [reply EXCEPT ![w] = reply'[w]] /\ reply'[w] = b
            /\ Streaming(store, w) /\ store.sub[w].queue # <<>>
            /\ store' = Yield(store, w)
        BY <1>1, <1>9, <2>1 DEF WaiterWakes, Deliver, Return
      <3>2. store'.sub[w].fin => Ends(store.sub[w])
        <4>1. /\ store.sub \in [Subs -> Subscription]
              /\ store = [dict |-> store.dict, task |-> store.task, sub |-> store.sub]
          BY <1>1, StoreSplit
        <4>2. store'.sub = [store.sub EXCEPT ![w] = Shown(@)]
          BY <3>1, <4>1 DEF Yield
        <4>3. store'.sub[w].fin = Head(store.sub[w].queue).final
          BY <1>1, <4>1, <4>2 DEF Shown, Subscription
        <4>4. /\ store.sub[w].queue \in Seq(Event) /\ 1 \in DOMAIN store.sub[w].queue
              /\ Head(store.sub[w].queue) = store.sub[w].queue[1]
          BY <1>1, <3>1, <4>1 DEF Subscription
        <4> QED
          BY <4>3, <4>4 DEF Ends
      <3>3. AnswerOK(w)'
        <4>1. CASE store'.sub[w].fin
          BY <1>6, <3>1, <3>2, <4>1 DEF AnswerOK
        <4>2. CASE ~store'.sub[w].fin
          BY <3>1, <4>2 DEF AnswerOK, BlockingReplyIsFinal, Streaming
        <4> QED
          BY <4>1, <4>2
      <3> QED
        BY <1>3, <1>5, <3>1, <3>3
    <2>2. CASE Return(w)
      <3> DEFINE b == IF reply[w] = NoReply THEN a ELSE reply[w]
      <3>1. /\ reply' = [reply EXCEPT ![w] = reply'[w]] /\ reply'[w] = b
            /\ Streaming(store, w)
        BY <1>1, <1>9, <2>2 DEF WaiterWakes, Deliver, Return
      <3>2. Ends(store.sub[w])
        <4>1. store.sub[w].queue \in Seq(Event)
          BY <1>1, StoreSplit DEF Subscription
        <4> QED
          BY <2>2, <4>1 DEF Return, Ends
      <3>3. AnswerOK(w)'
        <4>1. CASE reply[w] = NoReply
          BY <1>6, <3>1, <3>2, <4>1 DEF AnswerOK
        <4>2. CASE reply[w] # NoReply
          BY <3>1, <4>2 DEF AnswerOK, BlockingReplyIsFinal, Streaming
        <4> QED
          BY <4>1, <4>2
      <3> QED
        BY <1>3, <1>5, <3>1, <3>3
    <2> QED
      BY <1>9, <2>1, <2>2 DEF WaiterWakes
  <1>10. CASE WaiterGivesUp(w)
    <2>1. store'.sub[w].phase = "left"
      <3>1. /\ store.sub \in [Subs -> Subscription]
            /\ store = [dict |-> store.dict, task |-> store.task, sub |-> store.sub]
        BY <1>1, StoreSplit
      <3>2. store' = Detach(store, w, "left")
        BY <1>10 DEF WaiterGivesUp, Disconnect
      <3>3. store'.sub = [store.sub EXCEPT ![w] = [@ EXCEPT !.phase = "left", !.closed = TRUE]]
        BY <3>1, <3>2 DEF Detach
      <3> QED
        BY <1>1, <3>1, <3>3 DEF Subscription
    <2>2. reply' = [reply EXCEPT ![w] = reply'[w]]
      BY <1>1, <1>10 DEF WaiterGivesUp
    <2> QED
      BY <1>3, <1>5, <2>1, <2>2 DEF AnswerOK
  <1> QED
    BY <1>3, <1>7, <1>8, <1>9, <1>10 DEF WaiterStep

LEMMA NextAnswers ==
    ASSUME StoreAssumption, BridgeAssumption, Inv, Fresh,
           EndsHonestly(store), BlockingReplyIsFinal, [Next]_vars
    PROVE  EndsHonestly(store') /\ BlockingReplyIsFinal'
  <1>1. Waiters \subseteq Subs
    BY DEF BridgeAssumption
  <1>2. ASSUME reply' = reply,
               \A w \in Waiters : store'.sub[w].phase = store.sub[w].phase
        PROVE  BlockingReplyIsFinal'
    BY <1>2 DEF BlockingReplyIsFinal
  <1>3. ASSUME NEW t \in Tasks, TaskStep(t)
        PROVE  EndsHonestly(store') /\ BlockingReplyIsFinal'
    <2>1. Quiet
      BY <1>3, TaskStepQuiet
    <2>2. reply' = reply
      <3>1. CASE DriveStep(t)
        BY <3>1, DriveStepWrites DEF WaitVars
      <3> QED
        BY <1>3, <3>1 DEF TaskStep, Submit, Cleanup, Cancel, WaitVars
    <2> QED
      BY <1>1, <1>2, <2>1, <2>2 DEF Quiet
  <1>4. ASSUME NEW s \in Subs, Stream(s)
        PROVE  EndsHonestly(store') /\ BlockingReplyIsFinal'
    <2>1. StreamStep(s) /\ s \notin Waiters /\ reply' = reply /\ StoreInv(store)
      BY <1>4 DEF Stream, StreamStep, WaitVars, Inv
    <2>2. \A u \in Subs : u # s => store'.sub[u] = store.sub[u]
      BY <2>1, StreamStepInv DEF StreamKeeps
    <2>3. \A w \in Waiters : store'.sub[w].phase = store.sub[w].phase
      BY <1>1, <2>1, <2>2
    <2> QED
      BY <1>2, <2>1, <2>3, StreamStepHonestly
  <1>5. CASE TimePasses \/ UNCHANGED vars
    BY <1>2, <1>5 DEF TimePasses, Tick, vars, WaitVars
  <1> QED
    BY <1>3, <1>4, <1>5, WaiterStepAnswers DEF Next

(* A blocking send that did not run out of its budget answers with a       *)
(* finished task, or that the task is gone: nothing ends the stream it     *)
(* waits on but the end of its task.                                       *)
THEOREM BlockingRepliesAreFinal == Spec => []BlockingReplyIsFinal
  <1>1. Init => Inv /\ Fresh /\ EndsHonestly(store) /\ BlockingReplyIsFinal
    <2> SUFFICES ASSUME Init
                 PROVE  Inv /\ Fresh /\ EndsHonestly(store) /\ BlockingReplyIsFinal
      OBVIOUS
    <2>1. store.sub = [s \in Subs |-> NoSub] /\ NoSub.phase # "streaming"
      BY DEF Init, InitStore, NoSub
    <2>2. EndsHonestly(store)
      BY <2>1 DEF EndsHonestly, Streaming
    <2>3. BlockingReplyIsFinal
      BY DEF Init, BlockingReplyIsFinal
    <2>4. Inv /\ Fresh
      BY InitInv, StoreAssumption DEF Init, InitStore, Live, Fresh
    <2> QED
      BY <2>2, <2>3, <2>4
  <1>2. Inv /\ Fresh /\ EndsHonestly(store) /\ BlockingReplyIsFinal /\ [Next]_vars
          => (Inv /\ Fresh /\ EndsHonestly(store) /\ BlockingReplyIsFinal)'
    BY NextInv, NextFresh, NextAnswers, StoreAssumption, BridgeAssumption
  <1> QED
    BY <1>1, <1>2, PTL DEF Spec
-----------------------------------------------------------------------------
(* What a stream shows before it ends.                                     *)

(* The most a consumer that never reads finds in its queue: WORKING; then  *)
(* CANCELED and the end marker; then the artifact and the verdict of a     *)
(* runner that swallowed its cancellation, and a second end marker.        *)
Unread(d) ==
    CASE d \in {"none", "scheduled"} -> 0
      [] d = "running" -> 1
      [] d = "doomed" -> 2
      [] d = "cancelling" -> 3
      [] OTHER -> 6

AllRoomy == \A t \in Tasks : Roomy(store, t, Unread(drive[t]))

Told == AllRoomy /\ StoreAnnounced(store) /\ EndedStreamSawFinal

LEMMA RoomyWeaken ==
    ASSUME NEW st, StoreInv(st), NEW t \in Tasks, NEW m \in Nat, NEW n \in Nat, m <= n,
           Roomy(st, t, m)
    PROVE  Roomy(st, t, n)
  <1>1. \A s \in Subs : Len(st.sub[s].queue) \in Nat
    BY StoreSplit DEF Subscription
  <1> QED
    BY <1>1 DEF Roomy, HasRoom

(* What a step on t owes: the rest of the invariant follows.               *)
LEMMA ToldStep ==
    ASSUME Told, Inv, NEW t \in Tasks, drive' = [drive EXCEPT ![t] = drive'[t]],
           StoreAnnounced(store'), FinKept(store, store'),
           \A s \in Subs : store'.sub[s].phase = store.sub[s].phase,
           Roomy(store', t, Unread(drive'[t])),
           \A u \in Tasks, n \in Nat : u # t /\ Roomy(store, u, n) => Roomy(store', u, n)
    PROVE  Told'
  <1>1. \A d : Unread(d) \in Nat
    BY DEF Unread
  <1>2. AllRoomy'
    <2>1. \A u \in Tasks : u # t => drive'[u] = drive[u]
      BY DEF Inv
    <2> HIDE DEF Unread
    <2> QED
      BY <1>1, <2>1 DEF Told, AllRoomy
  <1>3. EndedStreamSawFinal'
    BY Zenon DEF Told, EndedStreamSawFinal, FinKept
  <1> QED
    BY <1>2, <1>3 DEF Told

(* One status: from n unread events to at most two more.                   *)
LEMMA RecordTold ==
    ASSUME StoreAssumption, Told, Inv, NEW t \in Tasks,
           NEW state \in Terminal \cup Active, NEW n \in Nat, n < Capacity,
           Roomy(store, t, n), store' = RecordStatus(store, t, state),
           drive' = [drive EXCEPT ![t] = drive'[t]],
           (IF state \in Terminal THEN n + 2 ELSE n + 1) <= Unread(drive'[t])
    PROVE  Told'
  <1> DEFINE v == [state |-> state, stamp |-> now, rev |-> store.task[t].rev + 1]
  <1>1. StoreInv(store) /\ now \in Nat
    BY DEF Inv
  <1>2. StoreInv(store') /\ Touches(store, store', t, [store.task EXCEPT ![t] = v])
    BY <1>1, RecordStatusInv
  <1> HIDE DEF v
  <1>3. StoreAnnounced(store') /\ FinKept(store, store')
    BY <1>1, RecordAnnounced DEF Told
  <1>4. Roomy(store', t, IF state \in Terminal THEN n + 2 ELSE n + 1)
    BY <1>1, RecordRoomy
  <1>5. Unread(drive'[t]) \in Nat
    BY DEF Unread
  <1>6. Roomy(store', t, Unread(drive'[t]))
    <2> HIDE DEF Unread
    <2>1. (IF state \in Terminal THEN n + 2 ELSE n + 1) \in Nat
      OBVIOUS
    <2> QED
      BY <1>2, <1>4, <1>5, <2>1, RoomyWeaken
  <1>7. \A s \in Subs : store'.sub[s].phase = store.sub[s].phase
    BY <1>2 DEF Touches
  <1>8. \A u \in Tasks, m \in Nat : u # t /\ Roomy(store, u, m) => Roomy(store', u, m)
    BY <1>2, TouchesRoomy
  <1> QED
    BY <1>3, <1>6, <1>7, <1>8, ToldStep

(* Two writes in one step.                                                 *)
LEMMA TwiceTold ==
    ASSUME StoreAssumption, Told, Inv, NEW t \in Tasks, NEW n \in Nat, n < Capacity,
           NEW y, StoreInv(y), StoreAnnounced(y), FinKept(store, y), NEW task,
           Touches(store, y, t, task), Roomy(y, t, n),
           NEW state \in Terminal, store' = RecordStatus(y, t, state),
           drive' = [drive EXCEPT ![t] = drive'[t]], n + 2 <= Unread(drive'[t])
    PROVE  Told'
  <1> DEFINE v == [state |-> state, stamp |-> now, rev |-> y.task[t].rev + 1]
  <1>1. now \in Nat /\ state \in Terminal \cup Active
    BY DEF Inv
  <1>2. StoreInv(store') /\ Touches(y, store', t, [y.task EXCEPT ![t] = v])
    BY <1>1, RecordStatusInv
  <1> HIDE DEF v
  <1>3. StoreAnnounced(store') /\ FinKept(y, store')
    BY <1>1, RecordAnnounced
  <1>4. FinKept(store, store')
    BY <1>3, Zenon DEF FinKept
  <1>5. Roomy(store', t, n + 2)
    <2>1. Roomy(store', t, IF state \in Terminal THEN n + 2 ELSE n + 1)
      BY <1>1, RecordRoomy
    <2> QED
      BY <2>1
  <1>6. Roomy(store', t, Unread(drive'[t]))
    <2>1. Unread(drive'[t]) \in Nat
      BY DEF Unread
    <2> HIDE DEF Unread
    <2> QED
      BY <1>2, <1>5, <2>1, RoomyWeaken
  <1>7. \A s \in Subs : store'.sub[s].phase = store.sub[s].phase
    BY <1>2 DEF Touches
  <1>8. \A u \in Tasks, m \in Nat : u # t /\ Roomy(store, u, m) => Roomy(store', u, m)
    BY <1>2, TouchesRoomy
  <1> QED
    BY <1>3, <1>4, <1>6, <1>7, <1>8, ToldStep

LEMMA SameTold ==
    ASSUME Told, Inv, store' = store, NEW t \in Tasks, drive' = [drive EXCEPT ![t] = drive'[t]],
           Unread(drive[t]) <= Unread(drive'[t])
    PROVE  Told'
  <1>1. Roomy(store', t, Unread(drive'[t]))
    <2>1. Unread(drive'[t]) \in Nat /\ Unread(drive[t]) \in Nat
      BY DEF Unread
    <2> HIDE DEF Unread
    <2> QED
      BY <2>1, RoomyWeaken DEF Told, AllRoomy, Inv
  <1>2. FinKept(store, store') /\ StoreAnnounced(store')
    BY DEF FinKept, Told
  <1> QED
    BY <1>1, <1>2, ToldStep

LEMMA DriveStepTold ==
    ASSUME StoreAssumption, Capacity >= 5, Inv, Told, NEW t \in Tasks, DriveStep(t)
    PROVE  Told'
  <1>1. /\ Settled(store) /\ StoreInv(store) /\ now \in Nat
        /\ drive \in [Tasks -> DriveStates] /\ Capacity \in Nat
    BY DEF Inv, Settled, StoreAssumption
  <1>2. /\ drive' = [drive EXCEPT ![t] = drive'[t]]
        /\ DriveEnds(t) => drive'[t] = "done"
    BY <1>1, DriveStepWrites DEF DriveEnds
  <1>3. /\ Unread("scheduled") = 0 /\ Unread("running") = 1 /\ Unread("doomed") = 2
        /\ Unread("cancelling") = 3 /\ Unread("done") = 6
        /\ \A d : Unread(d) \in 0..6
    BY DEF Unread
  <1>4. Roomy(store, t, Unread(drive[t]))
    BY DEF Told, AllRoomy
  <1> HIDE DEF Unread
  <1>5. ASSUME store' = store, DriveEnds(t)
        PROVE  Told'
    <2>1. Unread(drive[t]) <= Unread(drive'[t])
      BY <1>2, <1>3, <1>5
    <2> QED
      BY <1>2, <1>5, <2>1, SameTold
  <1>6. CASE DriveStart(t)
    <2>1. /\ drive[t] = "scheduled" /\ drive'[t] = "running"
          /\ store' = RecordStatus(store, t, "WORKING")
      BY <1>1, <1>6 DEF DriveStart
    <2>2. "WORKING" \in Terminal \cup Active /\ "WORKING" \notin Terminal
      BY DEF Terminal, Active
    <2>3. Roomy(store, t, 0) /\ 0 + 1 <= Unread(drive'[t])
      BY <1>3, <1>4, <2>1
    <2> QED
      BY <1>1, <1>2, <2>1, <2>2, <2>3, RecordTold
  <1>7. CASE DriveRejects(t)
    <2> DEFINE y == RecordStatus(store, t, "WORKING")
               v == [state |-> "WORKING", stamp |-> now, rev |-> store.task[t].rev + 1]
               task == [store.task EXCEPT ![t] = v]
    <2>1. /\ drive[t] = "scheduled" /\ drive'[t] = "done"
          /\ store' = RecordStatus(y, t, "REJECTED")
      BY <1>2, <1>7 DEF DriveRejects
    <2>2. "WORKING" \in Terminal \cup Active /\ "WORKING" \notin Terminal
      BY DEF Terminal, Active
    <2>3. StoreInv(y) /\ Touches(store, y, t, task)
      BY <1>1, <2>2, RecordStatusInv
    <2>4. StoreAnnounced(y) /\ FinKept(store, y)
      BY <1>1, <2>2, RecordAnnounced DEF Told
    <2>5. Roomy(y, t, 1)
      <3>1. Roomy(store, t, 0) /\ 0 < Capacity /\ 0 \in Nat /\ 0 + 1 = 1
        BY <1>1, <1>3, <1>4, <2>1
      <3>2. Roomy(y, t, IF "WORKING" \in Terminal THEN 0 + 2 ELSE 0 + 1)
        BY <1>1, <2>2, <3>1, RecordRoomy
      <3> QED
        BY <2>2, <3>1, <3>2
    <2> HIDE DEF y, task, v
    <2>6. "REJECTED" \in Terminal /\ 1 < Capacity /\ 1 + 2 <= Unread(drive'[t])
      BY <1>1, <1>3, <2>1 DEF Terminal
    <2> QED
      BY <1>2, <2>1, <2>3, <2>4, <2>5, <2>6, TwiceTold
  <1>8. CASE DriveFindsNothing(t) \/ DriveNeverRuns(t)
    BY <1>5, <1>8 DEF DriveFindsNothing, DriveNeverRuns
  <1>9. ASSUME RunnerCanReturn(t) \/ drive[t] = "cancelling"
        PROVE  Roomy(store, t, 3)
    <2>1. Unread(drive[t]) \in Nat /\ Unread(drive[t]) <= 3
      BY <1>3, <1>9 DEF RunnerCanReturn
    <2> QED
      BY <1>1, <1>4, <2>1, RoomyWeaken
  <1>10. ASSUME RunnerCanReturn(t) \/ drive[t] = "cancelling", DriveEnds(t),
                NEW state \in {"FAILED", "CANCELED"}, IfLive(t, RecordStatus(store, t, state))
         PROVE  Told'
    <2>1. state \in Terminal /\ 3 < Capacity /\ 3 + 2 <= Unread(drive'[t])
      BY <1>1, <1>2, <1>3, <1>10 DEF Terminal
    <2>2. CASE t \in Live(store)
      <3>1. store' = RecordStatus(store, t, state)
        BY <1>10, <2>2 DEF IfLive
      <3> QED
        BY <1>2, <1>9, <1>10, <2>1, <3>1, RecordTold
    <2> QED
      BY <1>5, <1>10, <2>2 DEF IfLive
  <1>11. CASE RunnerReturns(t)
    <2>1. PICK verdict \in {"COMPLETED", "FAILED"} :
             /\ RunnerCanReturn(t) /\ DriveEnds(t)
             /\ IfLive(t, RecordStatus(AppendData(store, t), t, verdict))
      BY <1>11 DEF RunnerReturns
    <2> DEFINE y == AppendData(store, t)
               task == [store.task EXCEPT ![t].rev = @ + 1]
    <2>2. CASE t \in Live(store)
      <3>1. store' = RecordStatus(y, t, verdict) /\ verdict \in Terminal
        BY <2>1, <2>2 DEF IfLive, Terminal
      <3>2. StoreInv(y) /\ Touches(store, y, t, task)
        BY <1>1, AppendDataInv
      <3>3. StoreAnnounced(y) /\ FinKept(store, y)
        BY <1>1, AppendAnnounced DEF Told
      <3>4. Roomy(y, t, 4)
        <4>1. 3 \in Nat /\ 3 < Capacity /\ 3 + 1 = 4
          BY <1>1
        <4> QED
          BY <1>1, <1>9, <2>1, <4>1, AppendRoomy
      <3> HIDE DEF y, task
      <3>5. 4 < Capacity /\ 4 + 2 <= Unread(drive'[t])
        BY <1>1, <1>2, <1>3, <2>1
      <3> QED
        BY <1>2, <3>1, <3>2, <3>3, <3>4, <3>5, TwiceTold
    <2> QED
      BY <1>5, <2>1, <2>2 DEF IfLive
  <1>12. CASE RunnerRaises(t) \/ DriveUnwinds(t)
    BY <1>10, <1>12 DEF RunnerRaises, DriveUnwinds
  <1> QED
    BY <1>6, <1>7, <1>8, <1>11, <1>12 DEF DriveStep

LEMMA CancelTold ==
    ASSUME StoreAssumption, Inv, Match, Told, NEW t \in Tasks, Cancel(t)
    PROVE  Told'
  <1>1. /\ StoreInv(store) /\ drive \in [Tasks -> DriveStates] /\ Capacity \in Nat
        /\ Capacity >= 3
        /\ drive' = [drive EXCEPT ![t] = CancelDrive(t)]
    BY DEF Inv, Cancel, StoreAssumption
  <1>2. drive' = [drive EXCEPT ![t] = drive'[t]] /\ drive'[t] = CancelDrive(t)
    BY <1>1
  <1>3. /\ Unread("scheduled") = 0 /\ Unread("running") = 1 /\ Unread("doomed") = 2
        /\ Unread("cancelling") = 3 /\ \A d : Unread(d) \in 0..6
    BY DEF Unread
  <1>4. Roomy(store, t, Unread(drive[t]))
    BY DEF Told, AllRoomy
  <1> HIDE DEF Unread
  <1>5. CASE t \in Live(store) /\ StateOf(store, t) \notin Terminal
    <2>1. store' = RecordStatus(store, t, "CANCELED") /\ "CANCELED" \in Terminal
      BY <1>5 DEF Cancel, IfLive, CancelTask, Terminal
    <2>2. /\ t \in running
          /\ \/ drive[t] = "scheduled" /\ drive'[t] = "doomed"
             \/ drive[t] = "running" /\ drive'[t] = "cancelling"
      <3>1. t \in running /\ drive[t] \in {"scheduled", "running"}
        BY <1>5 DEF Match, DriveMatchesTask
      <3>2. CASE drive[t] = "scheduled"
        BY <1>2, <3>1, <3>2 DEF CancelDrive
      <3>3. CASE drive[t] = "running"
        BY <1>2, <3>1, <3>3 DEF CancelDrive
      <3> QED
        BY <3>1, <3>2, <3>3
    <2>3. CASE drive[t] = "scheduled"
      <3>1. Roomy(store, t, 0) /\ 0 + 2 <= Unread(drive'[t]) /\ 0 < Capacity
        BY <1>1, <1>3, <1>4, <2>2, <2>3
      <3> QED
        BY <1>2, <2>1, <3>1, RecordTold
    <2>4. CASE drive[t] = "running"
      <3>1. Roomy(store, t, 1) /\ 1 + 2 <= Unread(drive'[t]) /\ 1 < Capacity
        BY <1>1, <1>3, <1>4, <2>2, <2>4
      <3> QED
        BY <1>2, <2>1, <3>1, RecordTold
    <2> QED
      BY <2>2, <2>3, <2>4
  <1>6. CASE ~(t \in Live(store) /\ StateOf(store, t) \notin Terminal)
    <2>1. store' = store
      BY <1>6 DEF Cancel, IfLive, CancelTask
    <2>2. Unread(drive[t]) <= Unread(drive'[t])
      <3>1. \/ drive'[t] = drive[t]
            \/ drive[t] = "scheduled" /\ drive'[t] = "doomed"
            \/ drive[t] = "running" /\ drive'[t] = "cancelling"
        BY <1>2 DEF CancelDrive
      <3> QED
        BY <1>3, <3>1
    <2> QED
      BY <1>2, <2>1, <2>2, SameTold
  <1> QED
    BY <1>5, <1>6

LEMMA NextTold ==
    ASSUME StoreAssumption, BridgeAssumption, Capacity >= 5, Inv, Match, Told, [Next]_vars
    PROVE  Told'
  <1>1. /\ StoreInv(store) /\ Followed(store) /\ now \in Nat
        /\ drive \in [Tasks -> DriveStates]
    BY DEF Inv
  <1>2. ASSUME store'.sub = store.sub, drive' = drive
        PROVE  Told'
    BY <1>2 DEF Told, AllRoomy, Roomy, StoreAnnounced, EndedStreamSawFinal
  <1>3. ASSUME NEW s \in Subs, StreamStep(s), drive' = drive
        PROVE  Told'
    <2>1. \A t \in Tasks : Unread(drive[t]) \in Nat
      BY DEF Unread
    <2>2. AllRoomy'
      <3> HIDE DEF Unread
      <3> QED
        BY <1>1, <1>3, <2>1, StreamStepRoomy DEF Told, AllRoomy
    <2>3. StoreAnnounced(store')
      BY <1>1, <1>3, StreamStepAnnounced DEF Told
    <2>4. \A u \in Subs : u # s => store'.sub[u] = store.sub[u]
      BY <1>1, <1>3, StreamStepInv DEF StreamKeeps
    <2>5. store'.sub[s].phase = "returned" => store'.sub[s].fin
      <3>1. CASE Return(s)
        <4>1. ~store.sub[s].lost
          BY <1>1, <3>1, StoreOKSub
             DEF Told, AllRoomy, Roomy, HasRoom, Follows, Return, Streaming, StoreInv, SubOK
        <4> QED
          BY <1>1, <3>1, <4>1, ReturnSawFinal DEF Told
      <3>2. CASE ~Return(s)
        <4>1. /\ store.sub \in [Subs -> Subscription]
              /\ store = [dict |-> store.dict, task |-> store.task, sub |-> store.sub]
          BY <1>1, StoreSplit
        <4>2. CASE Deliver(s)
          <5>1. store'.sub = [store.sub EXCEPT ![s] = Shown(@)] /\ store.sub[s].phase = "streaming"
            BY <4>1, <4>2 DEF Deliver, Yield, Streaming
          <5>2. store'.sub[s].phase = "streaming"
            BY <4>1, <5>1 DEF Shown, Subscription
          <5> QED
            BY <5>2
        <4>3. CASE Disconnect(s)
          <5>1. store'.sub = [store.sub EXCEPT ![s] = [@ EXCEPT !.phase = "left", !.closed = TRUE]]
            BY <4>1, <4>3 DEF Disconnect, Detach
          <5> QED
            BY <4>1, <5>1 DEF Subscription
        <4>4. ASSUME NEW t \in Tasks, Subscribe(s, t)
              PROVE  store'.sub[s].phase = "streaming"
          <5> DEFINE m == store.task[t].rev
                     b == store.task[t].state \in Terminal
                     r == [NoSub EXCEPT !.task = t, !.phase = "streaming",
                                        !.seen = m, !.fin = b]
          <5>1. store' = [store EXCEPT !.sub[s] = r] /\ r.phase = "streaming"
            BY <4>4 DEF Subscribe, Attach, NoSub
          <5> HIDE DEF r
          <5>2. store'.sub = [store.sub EXCEPT ![s] = r]
            BY <4>1, <5>1
          <5> QED
            BY <4>1, <5>1, <5>2
        <4> QED
          BY <1>3, <3>2, <4>2, <4>3, <4>4 DEF StreamStep
      <3> QED
        BY <3>1, <3>2
    <2>6. EndedStreamSawFinal'
      BY <2>4, <2>5, Zenon DEF Told, EndedStreamSawFinal
    <2> QED
      BY <2>2, <2>3, <2>6 DEF Told
  <1>4. ASSUME NEW t \in Tasks, TaskStep(t)
        PROVE  Told'
    <2>1. CASE Submit(t)
      <3>1. /\ StateOf(store, t) = "ABSENT" /\ store' = CreateTask(store, t)
            /\ drive' = [drive EXCEPT ![t] = "scheduled"]
        BY <2>1 DEF Submit
      <3>2. \A s \in Subs : ~Follows(store.sub[s], t)
        BY <1>1, <3>1 DEF Followed, Follows, Streaming
      <3>3. store'.sub = store.sub
        BY <1>1, <3>1, <3>2, CreateTaskInv DEF StateOf
      <3>4. \A n : Roomy(store', t, n)
        BY <3>2, <3>3 DEF Roomy
      <3>5. \A u \in Tasks, n \in Nat : Roomy(store, u, n) => Roomy(store', u, n)
        BY <3>3 DEF Roomy
      <3>6. StoreAnnounced(store') /\ FinKept(store, store')
        BY <3>3 DEF Told, StoreAnnounced, FinKept
      <3>7. drive' = [drive EXCEPT ![t] = drive'[t]]
        BY <1>1, <3>1
      <3> QED
        BY <3>3, <3>4, <3>5, <3>6, <3>7, ToldStep
    <2>2. CASE Cleanup(t)
      BY <1>2, <2>2 DEF Cleanup
    <2> QED
      BY <1>4, <2>1, <2>2, DriveStepTold, CancelTold DEF TaskStep
  <1>5. ASSUME NEW s \in Subs, Stream(s)
        PROVE  Told'
    BY <1>3, <1>5 DEF Stream, StreamStep, DriveVars
  <1>6. ASSUME NEW w \in Waiters, WaiterStep(w)
        PROVE  Told'
    <2>1. w \in Subs
      BY DEF BridgeAssumption
    <2>2. \/ StreamStep(w) /\ drive' = drive
          \/ store' = store /\ drive' = drive
      BY <1>6 DEF WaiterStep, Wait, WaitsInVain, WaiterWakes, WaiterGivesUp, StreamStep, DriveVars
    <2> QED
      BY <1>2, <1>3, <2>1, <2>2
  <1>7. CASE TimePasses \/ UNCHANGED vars
    BY <1>2, <1>7 DEF TimePasses, Tick, vars, DriveVars
  <1> QED
    BY <1>4, <1>5, <1>6, <1>7 DEF Next

(* A stream that ended by itself has shown its client the final status: no *)
(* task makes more events than a queue holds, so none is dropped, whoever  *)
(* reads how late, and the final event comes before the end marker.  Five  *)
(* places are enough even if the runner swallows its cancellation (512 in  *)
(* the code).                                                              *)
THEOREM EndedStreamsSawFinal ==
    ASSUME Capacity >= 5
    PROVE  Spec => []EndedStreamSawFinal
  <1>1. Init => Told
    <2> SUFFICES ASSUME Init
                 PROVE  Told
      OBVIOUS
    <2>1. \A s \in Subs : /\ store.sub[s].phase = "new" /\ store.sub[s].queue = <<>>
      BY DEF Init, InitStore, NoSub
    <2>2. StoreAnnounced(store)
      BY <2>1, FreshAnnounced DEF StoreAnnounced
    <2>3. AllRoomy /\ EndedStreamSawFinal
      BY <2>1 DEF AllRoomy, Roomy, Follows, EndedStreamSawFinal
    <2> QED
      BY <2>2, <2>3 DEF Told
  <1>2. Inv /\ Match /\ Told /\ [Next]_vars => Told'
    BY NextTold, StoreAssumption, BridgeAssumption
  <1>3. Told => EndedStreamSawFinal
    BY DEF Told
  <1> QED
    BY <1>1, <1>2, <1>3, MatchInvariance, PTL DEF Spec
=============================================================================
